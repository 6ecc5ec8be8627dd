\* A pool of one thread, two connections, one foreign file at a time.
\* No symmetry, which StopReturns would not allow.
SPECIFICATION FairSpec
CONSTANTS
    Conn       = {c1, c2}
    NoConn     = NoConn
    Fd         = {3, 4, 5}
    PoolSize   = 1
    MaxForeign = 1
INVARIANTS
    TypeOK
    ClientsTracked
    NoHandlerOutlives
    NeverTerminates
PROPERTIES
    ServingClosesOwn
    StopReturns
