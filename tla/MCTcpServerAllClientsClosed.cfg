SPECIFICATION Spec
CONSTANTS
    Conn       = {c1, c2}
    NoConn     = NoConn
    Fd         = {3, 4, 5}
    PoolSize   = 1
    MaxForeign = 0
SYMMETRY Symmetric
INVARIANT AllClientsClosed
