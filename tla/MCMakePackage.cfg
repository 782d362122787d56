CONSTANTS
    other = other
    Other <- MCOther
    Absent = Absent
    MaxVersion = 2
    NoPublicBin = FALSE
    Faults = {"install", "create", "dependency", "links", "summary", "crash"}
SPECIFICATION Spec
INVARIANTS UnmarkedWhole OthersKept
PROPERTIES SuccessPublished FailureWithdrawn
