CONSTANTS
    None = None
    Partial = Partial
    lib1 = lib1
    lib2 = lib2
    app = app
    tool = tool
    plug = plug
    demo = demo
    f1 = f1
    f2 = f2
    f3 = f3
    Package <- AllPackages
    Pattern <- AllPatterns
    File <- AllFiles
    Matches <- MCMatches
    Deps <- MCDeps
    Conflicts <- NoConflicts
    Files <- MCFiles
    Base <- MCBase
    Rank <- MCRank
    Level <- MCLevel
    Preserved <- Nothing
    Repo <- AllPackages
    Faults = {"script", "io"}
    DeleteFaults = {"script"}
    AddOptions <- AutoUpdate
    DeleteOptions <- Removals
    AdminCommands = {"rebuild", "rebuild-tree"}
SPECIFICATION Spec
INVARIANTS OwnerInstalled DependencyRecorded FilesIntact AtRestClean
PROPERTIES ExplicitIsManual ImplementsPackageSet
