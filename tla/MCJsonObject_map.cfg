CONSTANTS
    KeyLimit = 2
    MaxTokens = 9
    Unit = 80
    Step = 8
    Least = 5
    Mantissa = 64
    Doublings = 7
    Keys <- MCKeys
    Sets <- MCSets
    Items <- MCItems
    MaxItems = 2
    Texts <- MCTexts
SPECIFICATION Spec
INVARIANTS LookupFinds EqualIffSameMap
PROPERTIES ActsLikeMap RoundTrip
CHECK_DEADLOCK FALSE

