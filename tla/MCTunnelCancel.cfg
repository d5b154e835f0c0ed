SPECIFICATION FairMapSpec
CONSTANTS
    Tunnels <- MCOneTunnel
    Conns <- MCOneConn
    NoTunnel = none
    t1 = t1
    t2 = t2
    c1 = c1
    none = none
PROPERTIES
    CancelEndsForward
CHECK_DEADLOCK FALSE
