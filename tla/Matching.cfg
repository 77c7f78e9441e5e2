SPECIFICATION Spec
CONSTANTS
    K = 1
    M = 2
    NodeNum = 5
    StripesNum = 4
    Choices <- MixedParity
INVARIANTS TypeOK NobodyLeft LevelDone
PROPERTIES ImplementsGreedy
CHECK_DEADLOCK FALSE
