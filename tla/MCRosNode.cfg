CONSTANTS
    t1 = t1
    t2 = t2
    Thread <- MCThread
    Scalars <- MCScalars
    Builds <- MCBuilds
SPECIFICATION Spec
INVARIANTS TypeOK LocaleIndependent
PROPERTIES LocaleRestored
