CONSTANTS
    ab = ab
    plus = plus
    none = none
    huge = huge
    NoStatic = none
    Kinds <- OneKind
    Texts <- OneText
    TextLen <- OneTextLen
    StaticText <- OneStaticText
    HashBits = 15
    Threads = {t1, t2}
    MaxOps = 4
    BalancedCaller = TRUE
    DebugAssertions = TRUE
    LenBits = 16
SPECIFICATION Spec
CHECK_DEADLOCK FALSE
INVARIANTS
    SharedInstancesUnique
PROPERTIES
    Refinement
