---------------------------- MODULE MCRuleInputs ----------------------------
(* Small instances of RuleInputs: one ExternalService, whose user asks for one *)
(* gateway, or for two of which one has no IP address; or that moves from one  *)
(* gateway to another. Its pod comes and goes.                                 *)
EXTENDS RuleInputs

CONSTANTS es, app, gw1, gw2, a1, p80, ip1, noIP

MCServices == {es}
MCSources == {app}
MCGateways == {gw1, gw2}
MCBadGateway == {gw2}
MCNoGateway == {}
MCAddrs == {a1}
MCPorts == {p80}
MCPodIPs == {ip1}
MCPods == [e \in MCServices |-> {ip1, noIP}]

Source(g) == [service |-> app, gw |-> g]
MCGrowing == [e \in MCServices |-> { {Source(gw1)}, {Source(gw1), Source(gw2)} }]
MCMoving == [e \in MCServices |-> { {Source(gw1)}, {Source(gw2)} }]
=============================================================================
