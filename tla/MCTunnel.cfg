SPECIFICATION FairMapSpec
CONSTANTS
    Tunnels <- MCTunnels
    Conns <- MCOneConn
    NoTunnel = none
    t1 = t1
    t2 = t2
    c1 = c1
    none = none
INVARIANTS
    TypeOK
    FarHalfNeedsClient
    NothingCopiedAfterCancel
    NoOrphanTunnel
    NoDeadEntry
PROPERTIES
    ConnectionsEnd
    RuleIsServed
CHECK_DEADLOCK FALSE
