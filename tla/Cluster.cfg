SPECIFICATION FairSpec
CONSTANTS
    a = a  b = b  c = c
    m1 = m1  x1 = x1  x2 = x2  y1 = y1
    NodeNum = 2
    Thread = {m1, x1, x2, y1}
    owner <- MCOwner
    Transfer = {a, b}
    source <- MCSource
    target <- MCTarget
    Window = 1
    Mortal = {1}
    NoTask = NoTask
INVARIANTS StreamsFramed NobodySendsEarly TornByDeathOnly
PROPERTIES ImplementsTransfers EveryProcessEnds
CHECK_DEADLOCK FALSE
