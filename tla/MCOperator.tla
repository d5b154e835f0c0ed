---------------------------- MODULE MCOperator ----------------------------
(* Small instances of Operator: two services that share a gateway, or one   *)
(* service alone; fewer ports than there are keys.                          *)
EXTENDS Operator, TLC

CONSTANTS svc1, svc2, gw1, pod1, pod2, es80, es443, es22

MCServices == {svc1, svc2}
MCOneService == {svc1}
MCOneGateway == {gw1}
MCPods == {pod1, pod2}
MCTargetPorts == {"8000"}
MCIngressKeys == {es80, es443, es22}
MCOneIngressKey == {es80}

\* Services, pods and keys are interchangeable.
MCKeySymmetry ==
    Permutations(MCServices) \cup Permutations(MCPods) \cup Permutations(MCIngressKeys)
=============================================================================
