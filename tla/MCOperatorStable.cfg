SPECIFICATION Spec
CONSTANTS
    MinPort = 2049
    MaxPort = 2051
    Services <- MCOneService
    Gateways <- MCOneGateway
    Pods <- MCPods
    TargetPorts <- MCTargetPorts
    IngressKeys <- MCOneIngressKey
    MaxRounds = 2
    svc1 = svc1
    svc2 = svc2
    gw1 = gw1
    pod1 = pod1
    pod2 = pod2
    es80 = es80
    es443 = es443
    es22 = es22
PROPERTIES
    EgressPortsStable
CHECK_DEADLOCK FALSE
