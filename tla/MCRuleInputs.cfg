SPECIFICATION FairSpec
CONSTANTS
    ExternalServices <- MCServices
    SourceServices <- MCSources
    Gateways <- MCGateways
    BadGateways <- MCBadGateway
    SpecChoices <- MCGrowing
    Addrs <- MCAddrs
    SvcPorts <- MCPorts
    PodIPs <- MCPodIPs
    NoIP = noIP
    PodChoices <- MCPods
    MaxChanges = 2
    MaxFaults = 1
    es = es
    app = app
    gw1 = gw1
    gw2 = gw2
    a1 = a1
    p80 = p80
    ip1 = ip1
    noIP = noIP
INVARIANTS
    TypeOK
    NoStaleForwarder
PROPERTIES
    ForwarderFollows
    GatewaysFollow
