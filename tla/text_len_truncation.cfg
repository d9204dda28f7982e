CONSTANTS
    ab = ab
    plus = plus
    none = none
    huge = huge
    NoStatic = none
    Kinds <- MCKinds
    Texts <- HugeTexts
    TextLen <- HugeTextLen
    StaticText <- MCStaticText
    HashBits = 15
    Threads = {t1}
    MaxOps = 3
    BalancedCaller = TRUE
    DebugAssertions = TRUE
    LenBits = 16
SPECIFICATION Spec
CHECK_DEADLOCK FALSE
INVARIANTS
    LengthsExact
