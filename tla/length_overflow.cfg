CONSTANTS
    ab = ab
    plus = plus
    none = none
    huge = huge
    NoStatic = none
    Kinds <- MCKinds
    Texts <- MCTexts
    TextLen <- MCTextLen
    StaticText <- MCStaticText
    HashBits = 15
    Threads = {t1}
    MaxOps = 6
    BalancedCaller = TRUE
    DebugAssertions = TRUE
    LenBits = 2
SPECIFICATION Spec
CHECK_DEADLOCK FALSE
INVARIANTS
    LengthsExact
