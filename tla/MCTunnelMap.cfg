SPECIFICATION FairMapSpec
CONSTANTS
    Tunnels <- MCTunnels
    Conns <- MCOneConn
    NoTunnel = none
    t1 = t1
    t2 = t2
    c1 = c1
    none = none
PROPERTIES
    CreatesTunnels
CHECK_DEADLOCK FALSE
