SPECIFICATION FairSpec
CONSTANT MaxM = 7
INVARIANTS EverySubsetOnce
PROPERTIES SubsetsEnd
CHECK_DEADLOCK FALSE
