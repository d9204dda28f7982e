CONSTANTS
    i1 = i1
    i2 = i2
    c1 = c1
    c2 = c2
    b1 = b1
    b2 = b2
    NoInterner = NoInterner
    NoCache = NoCache
    MayPanic = TRUE
    Interners <- MCInterners
    Caches <- MCCaches
    Builders <- MCBuilders
SYMMETRY Symmetry
SPECIFICATION Spec
CHECK_DEADLOCK FALSE
INVARIANTS
    KeysLostOnlyToPanics
