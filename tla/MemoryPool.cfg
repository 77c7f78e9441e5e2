SPECIFICATION FairSpec
CONSTANTS
    Getter = {g1, g2, g3}
    Releaser = {r1, r2}
    PoolSize = 2
    NoThread = NoThread
INVARIANTS EachBufferOnce WakeupsCoverFreeBuffers
PROPERTIES FreeBufferIsUsed ImplementsBufferPool
