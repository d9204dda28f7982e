CONSTANTS
    ab = ab
    plus = plus
    none = none
    huge = huge
    NoStatic = none
    Kinds <- OneKind
    Texts <- OneText
    TextLen <- OneTextLen
    StaticText <- OneStaticText
    HashBits = 15
    Threads = {t1}
    MaxOps = 10
    BalancedCaller = TRUE
    DebugAssertions = TRUE
    LenBits = 16
SPECIFICATION Spec
CHECK_DEADLOCK FALSE
INVARIANTS
    SharedInstancesUnique
