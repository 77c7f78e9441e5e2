SPECIFICATION Spec
CONSTANTS
    p1 = p1  p2 = p2
    d1 = d1  c1 = c1  c2 = c2  c3 = c3
    Peer = {p1, p2}
    CWorker = {k1, k2}
    WWorker = {w1, w2}
    PoolSize = 2
    Task = {d1, c1, c2, c3}
    Coded <- MCCoded
    Sender <- MCSender
    Breakable = {}
    NoTask = NoTask
    NoData = NoData
SYMMETRY AnyWorker
INVARIANTS AllWritten
CHECK_DEADLOCK FALSE
