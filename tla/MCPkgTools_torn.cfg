CONSTANTS
    None = None
    Partial = Partial
    lib1 = lib1
    lib2 = lib2
    app = app
    tool = tool
    plug = plug
    demo = demo
    f1 = f1
    f2 = f2
    f3 = f3
    Package <- OneUser
    Pattern <- AllPatterns
    File <- AllFiles
    Matches <- MCMatches
    Deps <- MCDeps
    Conflicts <- NoConflicts
    Files <- MCFiles
    Base <- MCBase
    Rank <- MCRank
    Level <- MCLevel
    Preserved <- Nothing
    Repo <- OneUser
    Faults = {"io", "crash", "torn"}
    DeleteFaults = {"io"}
    AddOptions <- Plain
    DeleteOptions <- PlainOrLeaves
    AdminCommands = {"rebuild", "rebuild-tree", "set"}
SPECIFICATION Spec
INVARIANTS OwnerInstalled RequiredByJustified DependencyRecorded
