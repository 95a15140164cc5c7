SPECIFICATION FairSpec
CONSTANTS
    r1 = r1
    r2 = r2
    r3 = r3
    c1 = c1
    c2 = c2
    NoConn = NoConn
    Transports = {"http", "https", "tunnel"}
    Requests <- TwoRequests
    Conns <- OneConn
PROPERTIES
    CallsBack
    SessionsGo
CHECK_DEADLOCK FALSE
