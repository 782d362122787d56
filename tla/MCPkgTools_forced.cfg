CONSTANTS
    None = None
    Partial = Partial
    lib1 = lib1
    lib2 = lib2
    app = app
    tool = tool
    plug = plug
    demo = demo
    f1 = f1
    f2 = f2
    f3 = f3
    Package <- TwoLevels
    Pattern <- AllPatterns
    File <- AllFiles
    Matches <- MCMatches
    Deps <- MCDeps
    Conflicts <- ToolExcludesApp
    Files <- MCFiles
    Base <- MCBase
    Rank <- MCRank
    Level <- MCLevel
    Preserved <- TheApplication
    Repo <- TwoLevels
    Faults = {"script"}
    DeleteFaults = {"io"}
    AddOptions <- ForcedAdds
    DeleteOptions <- ForcedRemovals
    AdminCommands = {"rebuild", "rebuild-tree"}
SPECIFICATION FairSpec
INVARIANTS NoConflict
PROPERTIES PreservedKept TreeRebuilt Terminates
