SPECIFICATION Spec
CONSTANTS
    K = 3
    M = 2
    NodeNum = 8
    Sizes = {6, 8}
    FirstStripe <- StripeInOrder
INVARIANTS SchemeSizeIsCost NoSelfTransfer CostFitsLevels ParitiesMeet
INVARIANTS CrowdedNodesRelieved
CHECK_DEADLOCK FALSE
