SPECIFICATION FairSpec
CONSTANTS
    Producer = {p1, p2}
    Closer = {c1, c2}
    Worker = {w1, w2}
    Task = {t1, t2, t3}
    NoThread = NoThread
    NoTask = NoTask
    MaxSpurious = 1
INVARIANTS
    HandedOutInOrder
    WakeupsCoverBacklog
    SealWakesEveryone
PROPERTIES
    NothingLeftAtExit
    QueuedBeforeSealIsTaken
    SealedPoolFinishes
    ImplementsTaskQueue
CHECK_DEADLOCK FALSE
