SPECIFICATION FairSpec
CONSTANTS
    p1 = p1  p2 = p2
    d1 = d1  c1 = c1  c2 = c2  c3 = c3
    Peer = {p1, p2}
    CWorker = {k1, k2}
    WWorker = {w1, w2}
    PoolSize = 2
    Task = {d1, c1, c2}
    Coded <- MCCoded
    Sender <- MCSender
    Breakable = {p1}
    NoTask = NoTask
    NoData = NoData
INVARIANTS NoSharedBuffer NoBufferLost StoredFaithfully StrandedBound
PROPERTIES ServingReturns
CHECK_DEADLOCK FALSE
