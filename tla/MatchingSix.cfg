SPECIFICATION FairSpec
CONSTANTS
    K = 2
    M = 2
    NodeNum = 7
    StripesNum = 6
    Choices <- FewPairs
INVARIANTS PairsAgree SchemeComplete ZeroMapSound
PROPERTIES SearchEnds
CHECK_DEADLOCK FALSE
