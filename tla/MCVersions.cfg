CONSTANTS
    IntMax = 31
    None = None
    Version <- MCVersion
    Required <- MCRequired
    Leq <- AwkLeq
    MaxTargets = 3
SPECIFICATION Spec
INVARIANTS ReduceExact GivesUpOnTwo AwkAgrees LettersAsNumbers ReleaseOrder
CHECK_DEADLOCK FALSE
