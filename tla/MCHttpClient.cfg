SPECIFICATION Spec
CONSTANTS
    r1 = r1
    r2 = r2
    r3 = r3
    c1 = c1
    c2 = c2
    NoConn = NoConn
    Transports = {"http", "https"}
    Requests <- ThreeRequests
    Conns <- TwoConns
SYMMETRY PoolSymmetry
INVARIANTS
    TypeOK
    Exclusive
    PoolKept
    AtMostOneRetry
CHECK_DEADLOCK FALSE
