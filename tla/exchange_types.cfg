\* arrays of times in variables of any type
SPECIFICATION Spec
CONSTANTS
    Half8 = 2
    Half16 = 4
    Half32 = 8
    HalfFix = 18
    Exact = 16
    Round <- MCRound
    Tick = 4
    Text <- MCText
    Ascii <- MCAscii
    Blank = 0
    Cut <- MCCut
    NodeType <- MCNodeType
    Signature <- MCSignature
    Written <- MCWritten
    Passed <- MCPassed
    Stale <- MCStale
    Foreign <- Variants
INVARIANTS TimesAreDateTimes
CHECK_DEADLOCK FALSE
