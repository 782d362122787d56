CONSTANTS
    Absent = Absent
    lib1 = lib1
    lib2 = lib2
    app = app
    plug = plug
    tool = tool
    Package <- MCPackage
    Pattern <- MCPattern
    Matches <- MCMatches
    Deps <- MCDeps
    Dir <- MCDir
    DirOf <- MCDirOf
    Self = "libs/lib"
    UpdateClean = TRUE
    Faults = {"crash"}
    MaxPulls = 0
SPECIFICATION Spec
INVARIANTS UpdateCompletes
