SPECIFICATION Spec
CONSTANTS
    K = 2
    M = 1
    NodeNum = 5
    Sizes = {5}
    FirstStripe <- AllStripes
INVARIANTS OneChunkPerNode
CHECK_DEADLOCK FALSE
