SPECIFICATION Spec
CONSTANT Batches <- MCBatches
INVARIANTS SchemeSizeIsTotalCost RobinsNeverMeet EvenLoad
CHECK_DEADLOCK FALSE
