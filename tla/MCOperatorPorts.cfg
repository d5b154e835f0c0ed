SPECIFICATION Spec
CONSTANTS
    MinPort = 2049
    MaxPort = 2050
    Services <- MCServices
    Gateways <- MCOneGateway
    Pods <- MCPods
    TargetPorts <- MCTargetPorts
    IngressKeys <- MCIngressKeys
    MaxRounds = 3
    svc1 = svc1
    svc2 = svc2
    gw1 = gw1
    pod1 = pod1
    pod2 = pod2
    es80 = es80
    es443 = es443
    es22 = es22
INVARIANTS
    TypeOK
    ForwarderPortsDistinct
    PortsSuffice
    GatewayPortsDistinct
    Mirrored
PROPERTIES
    IngressPortsStable
SYMMETRY MCKeySymmetry
CHECK_DEADLOCK FALSE
