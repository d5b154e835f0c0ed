--------------------------- MODULE OperatorProofs ---------------------------
(***************************************************************************)
(* What holds of the operator's relay ports and gateway updates for any    *)
(* number of services, gateways, keys and ports, and however long the      *)
(* cache lags: the ports of one forwarder are distinct and suffice for as  *)
(* many keys, the gateways of a service mirror its forwarder, and as long  *)
(* as nothing disturbs the reconciles the ports of a gateway are distinct  *)
(* and stay. The parts of the inductive invariant are proved one after the *)
(* other: types, ports, listed ports, mirroring, sharing.                  *)
(***************************************************************************)
EXTENDS Operator, FiniteSetTheorems, FunctionTheorems, TLAPS

\* What genRelayPort returns is entered for the key already, or is a free port.
LEMMA RelayPortIsOwnOrFree ==
    ASSUME NEW key, NEW used, NEW p \in genRelayPort(key, used)
    PROVE  (p \in DOMAIN used /\ used[p] = key) \/ p \in Ports \ DOMAIN used
  BY DEF genRelayPort, Free

\* The maps of ports in use only have ports of the range, if the rules do.
LEMMA UsedPortsInRange ==
    /\ \A spec \in FwdSpecs : \A m \in genUsedPortsForEgress(spec) : DOMAIN m \subseteq Ports
    /\ \A spec \in GwSpecs : \A m \in genUsedPortsForIngress(spec) : DOMAIN m \subseteq Ports
  <1>1. ASSUME NEW spec \in FwdSpecs, NEW m \in genUsedPortsForEgress(spec)
        PROVE  DOMAIN m \subseteq Ports
    <2> DEFINE E == { [port |-> r.relay, by |-> <<r.key[2]>>] : r \in spec.egress }
    <2>1. DOMAIN m = { e.port : e \in E }
      BY <1>1 DEF genUsedPortsForEgress, MapsOf
    <2>2. \A r \in spec.egress : r.relay \in Ports
      BY <1>1 DEF FwdSpecs, Rules
    <2> QED BY <2>1, <2>2
  <1>2. ASSUME NEW spec \in GwSpecs, NEW m \in genUsedPortsForIngress(spec)
        PROVE  DOMAIN m \subseteq Ports
    <2> DEFINE E == { [port |-> r.relay, by |-> r.key] : r \in spec.ingress }
    <2>1. DOMAIN m = { e.port : e \in E }
      BY <1>2 DEF genUsedPortsForIngress, MapsOf
    <2>2. \A r \in spec.ingress : r.relay \in Ports
      BY <1>2 DEF GwSpecs, GwRules
    <2> QED BY <2>1, <2>2
  <1> QED BY <1>1, <1>2

\* Resources without rules are well typed.
LEMMA NoRulesType ==
    /\ Absent \in FwdSpecs /\ Absent \in GwSpecs
    /\ Empty \in FwdSpecs /\ Empty \in GwSpecs
  BY DEF Absent, Empty, FwdSpecs, GwSpecs

\* The rules generated for a gateway from a list of well-typed forwarders.
LEMMA GatewayRulesType ==
    ASSUME NEW l \in [Services -> FwdSpecs], NEW g \in Gateways
    PROVE  [there |-> TRUE, egress |-> genGatewayEgressRules(l, g),
            ingress |-> genGatewayIngressRules(l, g)] \in GwSpecs
  <1>1. \A s \in Services : l[s] \in FwdSpecs
    OBVIOUS
  <1>2. genGatewayEgressRules(l, g) \subseteq GwRules(EgressKeys)
    BY <1>1 DEF genGatewayEgressRules, RulesFor, FwdSpecs, Rules, GwRules
  <1>3. genGatewayIngressRules(l, g) \subseteq GwRules(IngressKeys)
    BY <1>1 DEF genGatewayIngressRules, RulesFor, FwdSpecs, Rules, GwRules
  <1> QED BY <1>2, <1>3 DEF GwSpecs

-----------------------------------------------------------------------------
\* Every step keeps the types.
LEMMA TypeStep == TypeOK /\ [Next]_vars => TypeOK'
  <1> SUFFICES ASSUME TypeOK, [Next]_vars PROVE TypeOK'
    OBVIOUS
  <1> USE PortsAssumption, RoundsAssumption
  <1>1. ASSUME NEW s \in Services, StartReconcile(s) PROVE TypeOK'
    <2>1. DOMAIN ePorts' \subseteq Ports
      BY <1>1, UsedPortsInRange DEF StartReconcile, TypeOK
    <2>2. fwds' \in [Services -> FwdSpecs]
      BY <1>1 DEF StartReconcile, TypeOK, FwdSpecs
    <2> QED BY <1>1, <2>1, <2>2 DEF StartReconcile, TypeOK, cacheVars, histVars, Ats
  <1>2. ASSUME NEW s \in Services, CacheForwarder(s) PROVE TypeOK'
    BY <1>2 DEF CacheForwarder, TypeOK, specVars, genVars, histVars
  <1>3. ASSUME EgressRule PROVE TypeOK'
    <2>1. PICK t \in todo : \E p \in genRelayPort(t.key, ePorts) :
            /\ new' = [new EXCEPT !.egress = @ \cup {[gw |-> t.gw, relay |-> p, key |-> t.key]}]
            /\ ePorts' = Entered(ePorts, t.key, p)
            /\ todo' = todo \ {t}
      BY <1>3 DEF EgressRule
    <2>0. PICK p \in genRelayPort(t.key, ePorts) :
            /\ new' = [new EXCEPT !.egress = @ \cup {[gw |-> t.gw, relay |-> p, key |-> t.key]}]
            /\ ePorts' = Entered(ePorts, t.key, p)
            /\ todo' = todo \ {t}
      BY <2>1
    <2>a. (p \in DOMAIN ePorts /\ ePorts[p] = t.key) \/ p \in Ports \ DOMAIN ePorts
      BY RelayPortIsOwnOrFree
    <2>b. DOMAIN Entered(ePorts, t.key, p) = DOMAIN ePorts \cup {p}
      BY DEF Entered
    <2>2. p \in Ports /\ DOMAIN ePorts' \subseteq Ports
      BY <2>0, <2>a, <2>b DEF TypeOK
    <2>3. t \in [gw : Gateways, key : EgressKeys]
      BY <1>3 DEF EgressRule, TypeOK
    <2>4. [gw |-> t.gw, relay |-> p, key |-> t.key] \in Rules(EgressKeys)
      BY <2>2, <2>3 DEF Rules
    <2>5. new' \in FwdSpecs
      BY <2>0, <2>4 DEF FwdSpecs, TypeOK
    <2> QED BY <1>3, <2>0, <2>2, <2>5
            DEF EgressRule, TypeOK, specVars, cacheVars, histVars
  <1>4. ASSUME ListGateways PROVE TypeOK'
    <2>1. DOMAIN iPorts' = Gateways /\ \A g \in Gateways : DOMAIN iPorts'[g] \subseteq Ports
      BY <1>4, UsedPortsInRange DEF ListGateways, TypeOK
    <2>2. DOMAIN ePorts' \subseteq Ports
      BY <1>4 DEF ListGateways, NoPorts
    <2> QED BY <1>4, <2>1, <2>2 DEF ListGateways, TypeOK, specVars, cacheVars, Ats
  <1>5. ASSUME IngressRule PROVE TypeOK'
    <2>1. PICK t \in todo : \E p \in genRelayPort(t.key, iPorts[t.gw]) :
            /\ new' = [new EXCEPT !.ingress = @ \cup {[gw |-> t.gw, relay |-> p, key |-> t.key]}]
            /\ iPorts' = [iPorts EXCEPT ![t.gw] = Entered(@, t.key, p)]
            /\ todo' = todo \ {t}
      BY <1>5 DEF IngressRule
    <2>0. PICK p \in genRelayPort(t.key, iPorts[t.gw]) :
            /\ new' = [new EXCEPT !.ingress = @ \cup {[gw |-> t.gw, relay |-> p, key |-> t.key]}]
            /\ iPorts' = [iPorts EXCEPT ![t.gw] = Entered(@, t.key, p)]
            /\ todo' = todo \ {t}
      BY <2>1
    <2>a. \/ p \in DOMAIN iPorts[t.gw] /\ iPorts[t.gw][p] = t.key
          \/ p \in Ports \ DOMAIN iPorts[t.gw]
      BY RelayPortIsOwnOrFree
    <2>b. DOMAIN Entered(iPorts[t.gw], t.key, p) = DOMAIN iPorts[t.gw] \cup {p}
      BY DEF Entered
    <2>3. t \in [gw : Gateways, key : IngressKeys]
      BY <1>5 DEF IngressRule, TypeOK
    <2>2. /\ p \in Ports
          /\ DOMAIN iPorts' = Gateways
          /\ \A g \in Gateways : DOMAIN iPorts'[g] \subseteq Ports
      BY <2>0, <2>3, <2>a, <2>b DEF TypeOK
    <2>4. [gw |-> t.gw, relay |-> p, key |-> t.key] \in Rules(IngressKeys)
      BY <2>2, <2>3 DEF Rules
    <2>5. new' \in FwdSpecs
      BY <2>0, <2>4 DEF FwdSpecs, TypeOK
    <2> QED BY <1>5, <2>0, <2>2, <2>5
            DEF IngressRule, TypeOK, specVars, cacheVars, histVars
  <1>6. ASSUME WriteForwarder PROVE TypeOK'
    <2>1. DOMAIN iPorts' = Gateways /\ \A g \in Gateways : DOMAIN iPorts'[g] \subseteq Ports
      BY <1>6 DEF WriteForwarder, NoPorts
    <2> QED BY <1>6, <2>1, NoRulesType DEF WriteForwarder, TypeOK, cacheVars, Ats
  <1>7. ASSUME GetForwarder PROVE TypeOK'
    <2>1. todo' \subseteq Gateways
      BY <1>7 DEF GetForwarder, getUniqueGatwey, TypeOK, FwdSpecs, Rules
    <2> QED BY <1>7, <2>1 DEF GetForwarder, TypeOK, specVars, cacheVars, genVars, Ats
  <1>8. ASSUME ListForwarders PROVE TypeOK'
    BY <1>8 DEF ListForwarders, TypeOK, specVars, cacheVars, genVars, Ats, ListedAsIs
  <1>9. ASSUME WriteGateway PROVE TypeOK'
    BY <1>9, GatewayRulesType DEF WriteGateway, TypeOK, cacheVars, genVars, histVars
  <1>10. ASSUME EndReconcile \/ Fail PROVE TypeOK'
    <2>1. /\ Idle /\ clean' \subseteq Services /\ undisturbed' \in BOOLEAN
          /\ dying' \subseteq Services
      BY <1>10 DEF EndReconcile, Fail, TypeOK
    <2>2. /\ DOMAIN iPorts' = Gateways /\ DOMAIN ePorts' \subseteq Ports
          /\ \A g \in Gateways : DOMAIN iPorts'[g] \subseteq Ports
      BY <2>1 DEF Idle, NoPorts
    <2>3. list' \in [Services -> FwdSpecs]
      BY <2>1, NoRulesType DEF Idle
    <2> QED BY <2>1, <2>2, <2>3, NoRulesType
            DEF Idle, TypeOK, specVars, cacheVars, Ats
  <1>11. ASSUME NEW g \in Gateways, CacheGateway(g) PROVE TypeOK'
    BY <1>11 DEF CacheGateway, TypeOK, specVars, genVars, histVars
  <1>12. ASSUME NEW s \in Services, DeleteForwarder(s) PROVE TypeOK'
    <2>1. fwds' \in [Services -> FwdSpecs]
      BY <1>12, NoRulesType DEF DeleteForwarder, TypeOK
    <2> QED BY <1>12, <2>1 DEF DeleteForwarder, TypeOK, cacheVars, genVars, Ats
  <1>13. ASSUME ListRemaining PROVE TypeOK'
    BY <1>13 DEF ListRemaining, TypeOK, specVars, cacheVars, genVars, Ats
  <1>14. CASE UNCHANGED vars
    BY <1>14 DEF vars, TypeOK, specVars, cacheVars, genVars, histVars
  <1> QED BY <1>1, <1>2, <1>3, <1>4, <1>5, <1>6, <1>7, <1>8, <1>9, <1>10, <1>11, <1>12, <1>13,
             <1>14 DEF Next

\* Every step keeps AbsentIsEmpty.
LEMMA AbsentStep == TypeOK /\ AbsentIsEmpty /\ [Next]_vars => AbsentIsEmpty'
  <1> SUFFICES ASSUME TypeOK, AbsentIsEmpty, [Next]_vars PROVE AbsentIsEmpty'
    OBVIOUS
  <1>1. ASSUME NEW s \in Services, StartReconcile(s) PROVE AbsentIsEmpty'
    <2>1. \A r \in Services : fwds'[r] = fwds[r] \/ fwds'[r].there
      BY <1>1 DEF StartReconcile, TypeOK, FwdSpecs
    <2> QED BY <1>1, <2>1 DEF StartReconcile, AbsentIsEmpty, cacheVars
  <1>2. ASSUME NEW s \in Services, DeleteForwarder(s) PROVE AbsentIsEmpty'
    <2>1. \A r \in Services : fwds'[r] = fwds[r] \/ fwds'[r] = Absent
      BY <1>2 DEF DeleteForwarder, TypeOK
    <2> QED BY <1>2, <2>1 DEF DeleteForwarder, AbsentIsEmpty, cacheVars, genVars
  <1>3. ASSUME NEW s \in Services, CacheForwarder(s) PROVE AbsentIsEmpty'
    <2>1. \A r \in Services : fwdCache'[r] = fwdCache[r] \/ fwdCache'[r] = fwds[r]
      BY <1>3 DEF CacheForwarder, TypeOK
    <2> QED BY <1>3, <2>1 DEF CacheForwarder, AbsentIsEmpty, specVars, genVars
  <1>4. ASSUME WriteForwarder PROVE AbsentIsEmpty'
    <2>1. \A r \in Services : fwds'[r] = fwds[r] \/ fwds'[r] = new
      BY <1>4 DEF WriteForwarder, TypeOK
    <2> QED BY <1>4, <2>1 DEF WriteForwarder, AbsentIsEmpty, cacheVars, Empty
  <1>5. ASSUME WriteGateway PROVE AbsentIsEmpty'
    <2>1. \A g \in Gateways : gws'[g] = gws[g] \/ gws'[g].there
      BY <1>5 DEF WriteGateway, TypeOK
    <2> QED BY <1>5, <2>1 DEF WriteGateway, AbsentIsEmpty, cacheVars, genVars
  <1>6. ASSUME EgressRule \/ IngressRule PROVE AbsentIsEmpty'
    <2>1. new'.there = new.there
      BY <1>6 DEF EgressRule, IngressRule, TypeOK, FwdSpecs
    <2> QED BY <1>6, <2>1 DEF EgressRule, IngressRule, AbsentIsEmpty, specVars, cacheVars
  <1>7. ASSUME ListGateways \/ GetForwarder \/ ListForwarders \/ ListRemaining
        PROVE  AbsentIsEmpty'
    BY <1>7 DEF ListGateways, GetForwarder, ListForwarders, ListRemaining, AbsentIsEmpty,
                specVars, cacheVars, genVars
  <1>8. ASSUME EndReconcile \/ Fail PROVE AbsentIsEmpty'
    BY <1>8 DEF EndReconcile, Fail, Idle, AbsentIsEmpty, specVars, cacheVars, Empty
  <1>9. ASSUME NEW g \in Gateways, CacheGateway(g) PROVE AbsentIsEmpty'
    BY <1>9 DEF CacheGateway, AbsentIsEmpty, specVars, genVars
  <1>10. CASE UNCHANGED vars
    BY <1>10 DEF vars, AbsentIsEmpty, specVars, cacheVars, genVars
  <1> QED BY <1>1, <1>2, <1>3, <1>4, <1>5, <1>6, <1>7, <1>8, <1>9, <1>10 DEF Next

\* Every variable has its type, and every relay port is within the range.
THEOREM TypeCorrect == Spec => []TypeOK
  <1>1. Init => TypeOK
    BY NoRulesType, RoundsAssumption DEF Init, TypeOK, NoPorts, Ats
  <1> QED BY <1>1, TypeStep, PTL DEF Spec

-----------------------------------------------------------------------------
(* The ports.                                                               *)

\* The map of egress ports starts with the ports of the forwarder's rules, for no key.
LEMMA OldEgressPorts ==
    ASSUME NEW spec, NEW m \in genUsedPortsForEgress(spec)
    PROVE  DOMAIN m = Relays(spec.egress) /\ \A p \in DOMAIN m : m[p] \notin EgressKeys
  <1> DEFINE E == { [port |-> r.relay, by |-> <<r.key[2]>>] : r \in spec.egress }
  <1>1. /\ m \in [{ e.port : e \in E } -> { e.by : e \in E }]
        /\ \A p \in DOMAIN m : [port |-> p, by |-> m[p]] \in E
    BY DEF genUsedPortsForEgress, MapsOf
  <1>2. ASSUME NEW r \in spec.egress PROVE r.relay \in { e.port : e \in E }
    <2>1. [port |-> r.relay, by |-> <<r.key[2]>>] \in E
      OBVIOUS
    <2>2. [port |-> r.relay, by |-> <<r.key[2]>>].port \in { e.port : e \in E }
      BY <2>1, Zenon
    <2> QED BY <2>2
  <1>3. \A p \in DOMAIN m : \E r \in spec.egress : m[p] = <<r.key[2]>>
    BY <1>1
  <1>4. \A x : <<x>> \notin EgressKeys
    BY DEF EgressKeys
  <1>5. DOMAIN m \subseteq Relays(spec.egress)
    BY <1>1 DEF Relays
  <1>6. Relays(spec.egress) \subseteq DOMAIN m
    BY <1>1, <1>2 DEF Relays
  <1> QED BY <1>3, <1>4, <1>5, <1>6

\* The map of ports in use at a gateway has the ports of its rules, each for the key of
\* one that has it.
LEMMA UsedPortsOfRules ==
    ASSUME NEW spec, NEW m \in genUsedPortsForIngress(spec)
    PROVE  /\ Relays(spec.ingress) \subseteq DOMAIN m
           /\ \A p \in DOMAIN m : \E r \in spec.ingress : r.relay = p /\ r.key = m[p]
  <1> DEFINE E == { [port |-> r.relay, by |-> r.key] : r \in spec.ingress }
  <1>1. /\ m \in [{ e.port : e \in E } -> { e.by : e \in E }]
        /\ \A p \in DOMAIN m : [port |-> p, by |-> m[p]] \in E
    BY DEF genUsedPortsForIngress, MapsOf
  <1>2. \A p \in DOMAIN m : \E r \in spec.ingress : r.relay = p /\ r.key = m[p]
    BY <1>1
  <1>3. ASSUME NEW r \in spec.ingress PROVE r.relay \in { e.port : e \in E }
    <2>1. [port |-> r.relay, by |-> r.key] \in E
      OBVIOUS
    <2>2. [port |-> r.relay, by |-> r.key].port \in { e.port : e \in E }
      BY <2>1, Zenon
    <2> QED BY <2>2
  <1>4. Relays(spec.ingress) \subseteq DOMAIN m
    BY <1>1, <1>3 DEF Relays
  <1> QED BY <1>2, <1>4

\* The port of a new rule: the one its key has, or a free one if it has none.
LEMMA RelayPortOfKey ==
    ASSUME NEW key, NEW used, NEW p \in genRelayPort(key, used)
    PROVE  \/ p \in DOMAIN used /\ used[p] = key
           \/ p \notin DOMAIN used /\ \A q \in DOMAIN used : used[q] # key
  BY DEF genRelayPort, Free

\* Every step keeps PortsInv.
LEMMA PortsStep == TypeOK /\ PortsInv /\ [Next]_vars => PortsInv'
  <1> SUFFICES ASSUME TypeOK, PortsInv, [Next]_vars PROVE PortsInv'
    OBVIOUS
  <1> USE DEF ForwarderPortsDistinct
  <1>1. ASSUME NEW s \in Services, StartReconcile(s) PROVE PortsInv'
    <2>1. \A r \in Services :
            fwds'[r].egress = fwds[r].egress /\ fwds'[r].ingress = fwds[r].ingress
      BY <1>1 DEF StartReconcile, TypeOK, FwdSpecs
    <2>2. /\ DOMAIN ePorts' = Relays(fwds[s].egress)
          /\ \A p \in DOMAIN ePorts' : ePorts'[p] \notin EgressKeys
      BY <1>1, OldEgressPorts DEF StartReconcile
    <2>3. /\ ForwarderPortsDistinct' /\ new' = Empty
          /\ cur' = s /\ at' = "egress"
      BY <1>1, <2>1 DEF StartReconcile, PortsInv
    <2>4. Relays(fwds'[s].egress) \cup Relays(Empty.egress) = Relays(fwds[s].egress)
      BY <2>1 DEF Relays, Empty
    <2> QED BY <2>2, <2>3, <2>4 DEF PortsInv, Empty
  <1>2. ASSUME NEW s \in Services, CacheForwarder(s) PROVE PortsInv'
    BY <1>2 DEF CacheForwarder, PortsInv, specVars, genVars
  <1>3. ASSUME EgressRule PROVE PortsInv'
    <2>1. PICK t \in todo : \E p \in genRelayPort(t.key, ePorts) :
            /\ new' = [new EXCEPT !.egress = @ \cup {[gw |-> t.gw, relay |-> p, key |-> t.key]}]
            /\ ePorts' = Entered(ePorts, t.key, p)
      BY <1>3 DEF EgressRule
    <2>2. PICK p \in genRelayPort(t.key, ePorts) :
            /\ new' = [new EXCEPT !.egress = @ \cup {[gw |-> t.gw, relay |-> p, key |-> t.key]}]
            /\ ePorts' = Entered(ePorts, t.key, p)
      BY <2>1
    <2>3. (p \in DOMAIN ePorts /\ ePorts[p] = t.key) \/ p \in Ports \ DOMAIN ePorts
      BY RelayPortIsOwnOrFree
    <2>4. /\ new'.ingress = new.ingress
          /\ new'.egress = new.egress \cup {[gw |-> t.gw, relay |-> p, key |-> t.key]}
      BY <2>2 DEF TypeOK, FwdSpecs
    <2>5. \A r \in new'.egress : r.relay \in DOMAIN ePorts' /\ ePorts'[r.relay] = r.key
      BY <1>3, <2>2, <2>3, <2>4 DEF Entered, EgressRule, PortsInv
    <2>6. DOMAIN ePorts' = DOMAIN ePorts \cup {p}
      BY <2>2 DEF Entered
    <2>7. Relays(new'.egress) = Relays(new.egress) \cup {p}
      <3> DEFINE rule == [gw |-> t.gw, relay |-> p, key |-> t.key]
      <3>1. rule.relay = p /\ new'.egress = new.egress \cup {rule}
        BY <2>4
      <3> HIDE DEF rule
      <3> QED BY <3>1 DEF Relays
    <2>8. DOMAIN ePorts' = Relays(fwds[cur].egress) \cup Relays(new'.egress)
      BY <1>3, <2>6, <2>7 DEF EgressRule, PortsInv
    <2>9. \A q, r \in DOMAIN ePorts' :
            ePorts'[q] \in EgressKeys /\ ePorts'[q] = ePorts'[r] => q = r
      BY <1>3, <2>2, RelayPortOfKey DEF Entered, EgressRule, PortsInv
    <2> QED BY <1>3, <2>4, <2>5, <2>8, <2>9 DEF EgressRule, PortsInv, specVars
  <1>4. ASSUME ListGateways PROVE PortsInv'
    <2>0. \A r \in new.egress : r.key \in EgressKeys
      BY DEF TypeOK, FwdSpecs, Rules
    <2>1. OneToOne(new.egress)
      BY <1>4, <2>0 DEF ListGateways, PortsInv, OneToOne
    <2> QED BY <1>4, <2>1 DEF ListGateways, PortsInv, specVars
  <1>5. ASSUME IngressRule PROVE PortsInv'
    <2>1. PICK t \in todo : \E p \in genRelayPort(t.key, iPorts[t.gw]) :
            /\ new' = [new EXCEPT !.ingress = @ \cup {[gw |-> t.gw, relay |-> p, key |-> t.key]}]
            /\ iPorts' = [iPorts EXCEPT ![t.gw] = Entered(@, t.key, p)]
      BY <1>5 DEF IngressRule
    <2>2. PICK p \in genRelayPort(t.key, iPorts[t.gw]) :
            /\ new' = [new EXCEPT !.ingress = @ \cup {[gw |-> t.gw, relay |-> p, key |-> t.key]}]
            /\ iPorts' = [iPorts EXCEPT ![t.gw] = Entered(@, t.key, p)]
      BY <2>1
    <2>3. \/ p \in DOMAIN iPorts[t.gw] /\ iPorts[t.gw][p] = t.key
          \/ p \in Ports \ DOMAIN iPorts[t.gw]
      BY RelayPortIsOwnOrFree
    <2>4. /\ new'.egress = new.egress
          /\ new'.ingress = new.ingress \cup {[gw |-> t.gw, relay |-> p, key |-> t.key]}
      BY <2>2 DEF TypeOK, FwdSpecs
    <2>5. t.gw \in Gateways /\ \A r \in new.ingress : r.gw \in Gateways
      BY <1>5 DEF IngressRule, TypeOK, FwdSpecs, Rules
    <2>6. /\ iPorts'[t.gw] = Entered(iPorts[t.gw], t.key, p)
          /\ \A g \in Gateways \ {t.gw} : iPorts'[g] = iPorts[g]
      BY <2>2, <2>5 DEF TypeOK
    <2>7. ASSUME NEW r \in new'.ingress
          PROVE  r.relay \in DOMAIN iPorts'[r.gw] /\ iPorts'[r.gw][r.relay] = r.key
      <3>1. CASE r \in new.ingress
        <4>1. r.relay \in DOMAIN iPorts[r.gw] /\ iPorts[r.gw][r.relay] = r.key
          BY <1>5, <3>1 DEF IngressRule, PortsInv
        <4>2. CASE r.gw = t.gw
          BY <2>3, <2>6, <4>1, <4>2 DEF Entered
        <4>3. CASE r.gw # t.gw
          BY <2>5, <2>6, <3>1, <4>1, <4>3
        <4> QED BY <4>2, <4>3
      <3>2. CASE r = [gw |-> t.gw, relay |-> p, key |-> t.key]
        BY <2>6, <3>2 DEF Entered
      <3> QED BY <2>4, <3>1, <3>2
    <2> QED BY <1>5, <2>4, <2>7 DEF IngressRule, PortsInv, specVars
  <1>6. ASSUME WriteForwarder PROVE PortsInv'
    <2>1. OneToOne(new.egress)
      BY <1>6 DEF WriteForwarder, PortsInv
    <2>2. ASSUME NEW g \in Gateways PROVE PortsDistinct(OnGateway(new.ingress, g))
      BY <1>6 DEF WriteForwarder, PortsInv, PortsDistinct, OnGateway
    <2>3. \A s \in Services : fwds'[s] = IF s = cur THEN new ELSE fwds[s]
      BY <1>6 DEF WriteForwarder, TypeOK
    <2> QED BY <1>6, <2>1, <2>2, <2>3 DEF WriteForwarder, PortsInv
  <1>7. ASSUME GetForwarder \/ ListForwarders \/ ListRemaining \/ WriteGateway
        PROVE  PortsInv'
    BY <1>7 DEF GetForwarder, ListForwarders, ListRemaining, WriteGateway, PortsInv, specVars,
                genVars
  <1>8. ASSUME EndReconcile \/ Fail PROVE PortsInv'
    <2>1. Idle
      BY <1>8 DEF EndReconcile, Fail
    <2> QED BY <2>1 DEF Idle, PortsInv, specVars
  <1>9. ASSUME NEW g \in Gateways, CacheGateway(g) PROVE PortsInv'
    BY <1>9 DEF CacheGateway, PortsInv, specVars, genVars
  <1>10. ASSUME NEW s \in Services, DeleteForwarder(s) PROVE PortsInv'
    <2>1. \A r \in Services : fwds'[r] = fwds[r] \/ fwds'[r] = Absent
      BY <1>10 DEF DeleteForwarder, TypeOK
    <2>2. OneToOne(Absent.egress)
      BY DEF OneToOne, Absent
    <2>3. \A g \in Gateways : PortsDistinct(OnGateway(Absent.ingress, g))
      BY DEF PortsDistinct, OnGateway, Absent
    <2> QED BY <1>10, <2>1, <2>2, <2>3 DEF DeleteForwarder, PortsInv, genVars
  <1>11. CASE UNCHANGED vars
    BY <1>11 DEF vars, PortsInv, specVars, genVars
  <1> QED BY <1>1, <1>2, <1>3, <1>4, <1>5, <1>6, <1>7, <1>8, <1>9, <1>10, <1>11 DEF Next

\* Every step keeps ListedInv.
LEMMA ListedStep == TypeOK /\ PortsInv /\ ListedInv /\ [Next]_vars => ListedInv'
  <1> SUFFICES ASSUME TypeOK, PortsInv, ListedInv, [Next]_vars, at' = "ingress", current'
               PROVE  ListedInv'
    BY DEF ListedInv
  <1>1. ASSUME ListGateways PROVE ListedInv'
    <2>1. /\ gws' = gws /\ new' = new /\ new.ingress = {}
          /\ \A g \in Gateways : iPorts'[g] \in genUsedPortsForIngress(gws[g])
      BY <1>1 DEF ListGateways, PortsInv, specVars
    <2>2. \A g \in Gateways :
            /\ Relays(gws[g].ingress) \subseteq DOMAIN iPorts'[g]
            /\ \A p \in DOMAIN iPorts'[g] :
                 \E r \in gws[g].ingress : r.relay = p /\ r.key = iPorts'[g][p]
      BY <2>1, UsedPortsOfRules
    <2>3. \A g \in Gateways : OnGateway(new'.ingress, g) = {}
      BY <2>1 DEF OnGateway
    <2> QED BY <2>1, <2>2, <2>3 DEF ListedInv
  <1>2. ASSUME IngressRule PROVE ListedInv'
    <2>1. PICK t \in todo : \E p \in genRelayPort(t.key, iPorts[t.gw]) :
            /\ new' = [new EXCEPT !.ingress = @ \cup {[gw |-> t.gw, relay |-> p, key |-> t.key]}]
            /\ iPorts' = [iPorts EXCEPT ![t.gw] = Entered(@, t.key, p)]
      BY <1>2 DEF IngressRule
    <2>2. PICK p \in genRelayPort(t.key, iPorts[t.gw]) :
            /\ new' = [new EXCEPT !.ingress = @ \cup {[gw |-> t.gw, relay |-> p, key |-> t.key]}]
            /\ iPorts' = [iPorts EXCEPT ![t.gw] = Entered(@, t.key, p)]
      BY <2>1
    <2> DEFINE rule == [gw |-> t.gw, relay |-> p, key |-> t.key]
    <2>3. /\ UNCHANGED <<gws, current>> /\ at = "ingress" /\ t.gw \in Gateways
          /\ new'.ingress = new.ingress \cup {rule}
      BY <1>2, <2>2 DEF IngressRule, TypeOK, FwdSpecs, specVars, histVars
    <2>4. /\ iPorts'[t.gw] = Entered(iPorts[t.gw], t.key, p)
          /\ \A g \in Gateways \ {t.gw} : iPorts'[g] = iPorts[g]
      BY <2>2, <2>3 DEF TypeOK
    <2>5. /\ Relays(gws[t.gw].ingress) \subseteq DOMAIN iPorts[t.gw]
          /\ \A q \in DOMAIN iPorts[t.gw] :
               \E r \in gws[t.gw].ingress \cup OnGateway(new.ingress, t.gw) :
                   r.relay = q /\ r.key = iPorts[t.gw][q]
          /\ \A r \in OnGateway(new.ingress, t.gw) : ClashIsOld(r)
      BY <2>3 DEF ListedInv
    <2>6. OnGateway(new'.ingress, t.gw) = OnGateway(new.ingress, t.gw) \cup {rule}
      BY <2>3 DEF OnGateway
    <2>7. Relays(gws[t.gw].ingress) \subseteq DOMAIN iPorts'[t.gw]
      BY <2>4, <2>5 DEF Entered
    <2>8. \A q \in DOMAIN iPorts'[t.gw] :
            \E r \in gws[t.gw].ingress \cup OnGateway(new'.ingress, t.gw) :
                r.relay = q /\ r.key = iPorts'[t.gw][q]
      <3> SUFFICES ASSUME NEW q \in DOMAIN iPorts'[t.gw]
                   PROVE  \E r \in gws[t.gw].ingress \cup OnGateway(new'.ingress, t.gw) :
                            r.relay = q /\ r.key = iPorts'[t.gw][q]
        OBVIOUS
      <3>1. CASE q = p
        <4>1. rule \in OnGateway(new'.ingress, t.gw) /\ rule.relay = p /\ rule.key = t.key
          BY <2>6
        <4>2. iPorts'[t.gw][q] = t.key
          BY <2>4, <3>1 DEF Entered
        <4> QED BY <3>1, <4>1, <4>2
      <3>2. CASE q # p
        <4>1. q \in DOMAIN iPorts[t.gw] /\ iPorts'[t.gw][q] = iPorts[t.gw][q]
          BY <2>4, <3>2 DEF Entered
        <4> QED BY <2>5, <2>6, <4>1
      <3> QED BY <3>1, <3>2
    <2>9. ClashIsOld(rule)
      <3>1. CASE p \in DOMAIN iPorts[t.gw] /\ iPorts[t.gw][p] = t.key
        <4>1. PICK r \in gws[t.gw].ingress \cup OnGateway(new.ingress, t.gw) :
                r.relay = p /\ r.key = t.key
          BY <2>5, <3>1
        <4>2. CASE r \in gws[t.gw].ingress
          BY <4>1, <4>2 DEF ClashIsOld
        <4>3. CASE r \in OnGateway(new.ingress, t.gw)
          BY <2>5, <4>1, <4>3 DEF ClashIsOld, OnGateway
        <4> QED BY <4>1, <4>2, <4>3
      <3>2. CASE p \notin DOMAIN iPorts[t.gw]
        BY <2>5, <3>2 DEF ClashIsOld, Relays
      <3> QED BY <3>1, <3>2, RelayPortOfKey
    <2>10. \A r \in OnGateway(new'.ingress, t.gw) : ClashIsOld(r)'
      BY <2>3, <2>5, <2>6, <2>9 DEF ClashIsOld
    <2>11. ASSUME NEW g \in Gateways \ {t.gw}
           PROVE  /\ Relays(gws[g].ingress) \subseteq DOMAIN iPorts'[g]
                  /\ \A q \in DOMAIN iPorts'[g] :
                       \E r \in gws[g].ingress \cup OnGateway(new'.ingress, g) :
                           r.relay = q /\ r.key = iPorts'[g][q]
                  /\ \A r \in OnGateway(new'.ingress, g) : ClashIsOld(r)'
      <3>1. OnGateway(new'.ingress, g) = OnGateway(new.ingress, g)
        BY <2>3, <2>11 DEF OnGateway
      <3>2. iPorts'[g] = iPorts[g] /\ gws' = gws
        BY <2>3, <2>4, <2>11
      <3>3. /\ Relays(gws[g].ingress) \subseteq DOMAIN iPorts[g]
            /\ \A q \in DOMAIN iPorts[g] :
                 \E r \in gws[g].ingress \cup OnGateway(new.ingress, g) :
                     r.relay = q /\ r.key = iPorts[g][q]
            /\ \A r \in OnGateway(new.ingress, g) : ClashIsOld(r)
        BY <2>3, <2>11 DEF ListedInv
      <3>4. \A r \in OnGateway(new.ingress, g) : ClashIsOld(r)'
        BY <3>2, <3>3 DEF ClashIsOld
      <3> QED BY <3>1, <3>2, <3>3, <3>4
    <2>12. UNCHANGED gws
      BY <2>3
    <2>13. ASSUME NEW g \in Gateways
           PROVE  /\ Relays(gws[g].ingress) \subseteq DOMAIN iPorts'[g]
                  /\ \A q \in DOMAIN iPorts'[g] :
                       \E r \in gws[g].ingress \cup OnGateway(new'.ingress, g) :
                           r.relay = q /\ r.key = iPorts'[g][q]
                  /\ \A r \in OnGateway(new'.ingress, g) : ClashIsOld(r)'
      <3>1. CASE g = t.gw
        BY <2>7, <2>8, <2>10, <3>1
      <3>2. CASE g # t.gw
        BY <2>11, <3>2
      <3> QED BY <3>1, <3>2
    <2> QED BY <2>12, <2>13 DEF ListedInv
  <1>3. ASSUME UNCHANGED <<gws, at, new, iPorts, current>> PROVE ListedInv'
    BY <1>3 DEF ListedInv, ClashIsOld
  <1>4. CASE UNCHANGED vars
    BY <1>3, <1>4 DEF vars, specVars, genVars, histVars
  <1>5. ASSUME NEW s \in Services, CacheForwarder(s) PROVE ListedInv'
    BY <1>3, <1>5 DEF CacheForwarder, specVars, genVars, histVars
  <1>6. ASSUME NEW g \in Gateways, CacheGateway(g) PROVE ListedInv'
    BY <1>3, <1>6 DEF CacheGateway, specVars, genVars, histVars
  <1> QED BY <1>1, <1>2, <1>4, <1>5, <1>6
          DEF Next, StartReconcile, DeleteForwarder, ListRemaining, EgressRule, WriteForwarder,
              GetForwarder, ListForwarders, WriteGateway, EndReconcile, Fail, Idle

-----------------------------------------------------------------------------
(* The mirrors.                                                             *)

\* Of the rules generated for a gateway, those of a service are the service's own.
LEMMA GeneratedRulesMirror ==
    ASSUME NEW rulesOf, NEW g, NEW s \in Services
    PROVE  Unnamed(OfService(RulesFor(g, rulesOf), s)) = Unnamed(OnGateway(rulesOf[s], g))
  <1>1. \A r \in OfService(RulesFor(g, rulesOf), s) :
          \E q \in OnGateway(rulesOf[s], g) : r.relay = q.relay /\ r.key = q.key
    BY DEF OfService, RulesFor, OnGateway
  <1>2. \A q \in OnGateway(rulesOf[s], g) :
          [fwd |-> s, relay |-> q.relay, key |-> q.key] \in OfService(RulesFor(g, rulesOf), s)
    BY DEF OfService, RulesFor, OnGateway
  <1> QED BY <1>1, <1>2 DEF Unnamed

\* Every step keeps MirrorInv.
LEMMA MirrorStep == TypeOK /\ AbsentIsEmpty /\ MirrorInv /\ [Next]_vars => MirrorInv'
  <1> SUFFICES ASSUME TypeOK, AbsentIsEmpty, MirrorInv, [Next]_vars PROVE MirrorInv'
    OBVIOUS
  <1> USE DEF Mirrored, Mirrors, Concerned
  <1>0. clean \subseteq Services /\ cur \in Services
    BY DEF TypeOK
  <1>1. ASSUME NEW s \in Services, StartReconcile(s) PROVE MirrorInv'
    <2>1. \A r \in Services :
            /\ fwds'[r].egress = fwds[r].egress /\ fwds'[r].ingress = fwds[r].ingress
            /\ fwds[r].there => fwds'[r].there
      BY <1>1 DEF StartReconcile, TypeOK, FwdSpecs
    <2>2. \A r \in Services : getUniqueGatwey(fwds[r]) \subseteq Gateways
      BY DEF TypeOK, getUniqueGatwey, FwdSpecs, Rules
    <2>3. \A r \in Services : getUniqueGatwey(fwds'[r]) = getUniqueGatwey(fwds[r])
      BY <2>1 DEF getUniqueGatwey
    <2>4. \A r \in Services : Concerned(r)' \subseteq Concerned(r)
      BY <2>1, <2>2, <2>3
    <2>5. \A r \in Services, g \in Gateways : Mirrors(g, r) => Mirrors(g, r)'
      BY <1>1, <2>1 DEF StartReconcile
    <2>6. clean' = clean /\ at' = "egress"
      BY <1>1 DEF StartReconcile, histVars
    <2>7. \A r \in Services : Concerned(r) \subseteq Gateways
      BY <2>2
    <2>8. ASSUME NEW r \in clean, NEW g \in Concerned(r)' PROVE Mirrors(g, r)'
      <3>1. Mirrors(g, r)
        BY <1>0, <2>4 DEF MirrorInv
      <3> QED BY <1>0, <2>4, <2>5, <2>7, <3>1
    <2> QED BY <2>6, <2>8 DEF MirrorInv
  <1>2. ASSUME NEW s \in Services, CacheForwarder(s) PROVE MirrorInv'
    BY <1>2 DEF CacheForwarder, MirrorInv, specVars, histVars
  <1>3. ASSUME EgressRule \/ ListGateways \/ IngressRule PROVE MirrorInv'
    BY <1>3 DEF EgressRule, ListGateways, IngressRule, MirrorInv, specVars, histVars
  <1>4. ASSUME WriteForwarder PROVE MirrorInv'
    <2>1. \A s \in clean' : fwds'[s] = fwds[s] /\ s \in clean
      BY <1>0, <1>4 DEF WriteForwarder, TypeOK
    <2> QED BY <1>4, <2>1 DEF WriteForwarder, MirrorInv
  <1>5. ASSUME GetForwarder PROVE MirrorInv'
    BY <1>5 DEF GetForwarder, MirrorInv, specVars
  <1>6. ASSUME ListForwarders PROVE MirrorInv'
    BY <1>6 DEF ListForwarders, MirrorInv, specVars, ListedAsIs
  <1>7. ASSUME WriteGateway PROVE MirrorInv'
    <2>1. PICK g \in todo :
            /\ gws' = [gws EXCEPT ![g] = [there   |-> TRUE,
                                          egress  |-> genGatewayEgressRules(list, g),
                                          ingress |-> genGatewayIngressRules(list, g)]]
            /\ todo' = todo \ {g}
      BY <1>7 DEF WriteGateway
    <2>2. /\ g \in Gateways
          /\ gws'[g].egress = genGatewayEgressRules(list, g)
          /\ gws'[g].ingress = genGatewayIngressRules(list, g)
          /\ \A h \in Gateways \ {g} : gws'[h] = gws[h]
      BY <1>7, <2>1 DEF WriteGateway, TypeOK
    <2>3. ASSUME NEW s \in Services, list[s] = fwds[s] PROVE Mirrors(g, s)'
      <3>1. Unnamed(OfService(genGatewayEgressRules(list, g), s))
              = Unnamed(OnGateway(list[s].egress, g))
        BY GeneratedRulesMirror DEF genGatewayEgressRules
      <3>2. Unnamed(OfService(genGatewayIngressRules(list, g), s))
              = Unnamed(OnGateway(list[s].ingress, g))
        BY GeneratedRulesMirror DEF genGatewayIngressRules
      <3>3. fwds' = fwds
        BY <1>7 DEF WriteGateway
      <3> QED BY <2>2, <2>3, <3>1, <3>2, <3>3
    <2>4. ASSUME NEW h \in Gateways \ {g}, NEW s \in Services, Mirrors(h, s)
          PROVE  Mirrors(h, s)'
      BY <1>7, <2>2, <2>4 DEF WriteGateway
    <2>5. \A s \in Services : Concerned(s) \subseteq Gateways
      BY DEF TypeOK, getUniqueGatwey, FwdSpecs, Rules
    <2>6. /\ fwds' = fwds /\ at = "gateways" /\ at' = at /\ cur' = cur /\ list' = list
          /\ clean' = clean /\ current' = current
      BY <1>7 DEF WriteGateway, histVars
    <2>7. /\ \A s \in clean : list[s] = fwds[s]
          /\ current => list[cur] = fwds[cur]
      BY <2>6 DEF MirrorInv
    <2>8. Mirrored'
      <3> SUFFICES ASSUME NEW s \in clean, NEW h \in Concerned(s)
                   PROVE  Mirrors(h, s)'
        BY <2>6
      <3>1. Mirrors(h, s)
        BY DEF MirrorInv
      <3>2. s \in Services /\ h \in Gateways
        BY <1>0, <2>5
      <3> QED BY <2>3, <2>4, <2>7, <3>1, <3>2
    <2>9. current' => \A h \in Concerned(cur)' \ todo' : Mirrors(h, cur)'
      <3> SUFFICES ASSUME current, NEW h \in Concerned(cur) \ (todo \ {g}),
                          NEW c \in Services, c = cur
                   PROVE  Mirrors(h, c)'
        BY <1>0, <2>1, <2>6
      <3>1. CASE h = g
        BY <2>3, <2>7, <3>1
      <3>2. CASE h # g
        <4>1. Mirrors(h, c)
          BY <2>6, <3>2 DEF MirrorInv
        <4> QED BY <2>4, <2>5, <3>2, <4>1
      <3> QED BY <3>1, <3>2
    <2>10. at' = "gateways" /\ cur' \notin clean' /\ \A s \in clean' : list'[s] = fwds'[s]
      BY <2>6, <2>7 DEF MirrorInv
    <2> QED BY <2>6, <2>7, <2>8, <2>9, <2>10 DEF MirrorInv
  <1>8. ASSUME EndReconcile PROVE MirrorInv'
    BY <1>8 DEF EndReconcile, Idle, MirrorInv, specVars
  <1>9. ASSUME Fail PROVE MirrorInv'
    BY <1>9 DEF Fail, Idle, MirrorInv, specVars
  <1>10. ASSUME NEW g \in Gateways, CacheGateway(g) PROVE MirrorInv'
    BY <1>10 DEF CacheGateway, MirrorInv, specVars, histVars
  <1>11. ASSUME NEW s \in Services, DeleteForwarder(s) PROVE MirrorInv'
    <2>1. \A r \in clean' : fwds'[r] = fwds[r] /\ r \in clean
      BY <1>0, <1>11 DEF DeleteForwarder, TypeOK
    <2> QED BY <1>11, <2>1 DEF DeleteForwarder, MirrorInv
  <1>12. ASSUME ListRemaining PROVE MirrorInv'
    <2>1. /\ at = "remaining" /\ at' = "gateways" /\ UNCHANGED <<fwds, gws, cur>>
          /\ list' = fwdCache /\ clean' = clean \cap ListedAsIs
      BY <1>12 DEF ListRemaining, specVars
    <2>2. ASSUME current'
          PROVE  /\ fwds[cur] = Absent /\ fwdCache[cur] = Absent
                 /\ \A g \in Gateways \ todo' : gws[g] = Absent
      BY <1>0, <1>12, <2>2 DEF ListRemaining, StillListed, AbsentIsEmpty
    <2>3. ASSUME NEW g \in Gateways, NEW s \in Services, fwds[s] = Absent, gws[g] = Absent
          PROVE  Mirrors(g, s)
      BY <2>3 DEF Absent, Unnamed, OfService, OnGateway
    <2>4. ASSUME current', NEW g \in Gateways \ todo', NEW c \in Services, c = cur
          PROVE  Mirrors(g, c)'
      BY <2>1, <2>2, <2>3, <2>4
    <2>5. current' => list'[cur] = fwds[cur] /\ \A g \in Gateways \ todo' : Mirrors(g, cur)'
      BY <1>0, <2>1, <2>2, <2>4
    <2>6. Mirrored' /\ cur \notin clean' /\ \A s \in clean' : list'[s] = fwds[s]
      BY <2>1 DEF MirrorInv, ListedAsIs
    <2>7. current' => Concerned(cur)' \subseteq Gateways
      BY <1>0, <2>1, <2>2 DEF Absent
    <2> QED BY <2>1, <2>5, <2>6, <2>7 DEF MirrorInv
  <1>13. CASE UNCHANGED vars
    BY <1>13 DEF vars, MirrorInv, specVars, histVars
  <1> QED BY <1>1, <1>2, <1>3, <1>4, <1>5, <1>6, <1>7, <1>8, <1>9, <1>10, <1>11, <1>12, <1>13
          DEF Next

-----------------------------------------------------------------------------
(* The ports of a gateway, over all services.                               *)

\* The ingress rules generated for a gateway are those the forwarders have for it.
LEMMA GeneratedIngressRules ==
    ASSUME NEW l, NEW g
    PROVE  /\ \A x \in genGatewayIngressRules(l, g) :
                \E s \in Services : \E r \in OnGateway(l[s].ingress, g) :
                  x = [fwd |-> s, relay |-> r.relay, key |-> r.key]
           /\ \A s \in Services : \A r \in OnGateway(l[s].ingress, g) :
                [fwd |-> s, relay |-> r.relay, key |-> r.key] \in genGatewayIngressRules(l, g)
  BY DEF genGatewayIngressRules, RulesFor, OnGateway

\* The map of the ports in use at a gateway has all of its rules, and gives no key
\* two ports, if the rules are one-to-one.
LEMMA UsedPortsOneToOne ==
    ASSUME NEW spec, OneToOne(spec.ingress), NEW m \in genUsedPortsForIngress(spec)
    PROVE  /\ \A r \in spec.ingress : r.relay \in DOMAIN m /\ m[r.relay] = r.key
           /\ \A p, q \in DOMAIN m : m[p] = m[q] => p = q
  BY UsedPortsOfRules DEF OneToOne, Relays

\* So the map with the new rule is as good as it was.
LEMMA EnteredOneToOne ==
    ASSUME NEW key, NEW used, \A p, q \in DOMAIN used : used[p] = used[q] => p = q,
           NEW p \in genRelayPort(key, used), NEW m, m = Entered(used, key, p)
    PROVE  /\ \A q \in DOMAIN used : q \in DOMAIN m /\ m[q] = used[q]
           /\ \A q, r \in DOMAIN m : m[q] = m[r] => q = r
  BY RelayPortOfKey DEF Entered

\* The rules a forwarder gets clash with no rule that another one has.
LEMMA WrittenRulesOneToOne ==
    ASSUME TypeOK, PortsInv, SharedInv, undisturbed, WriteForwarder, NEW g \in Gateways
    PROVE  OneToOne(genGatewayIngressRules(fwds', g))
  <1>1. /\ at = "ingress" /\ cur \in Services
        /\ \A s \in Services : fwds'[s] = IF s = cur THEN new ELSE fwds[s]
    BY DEF WriteForwarder, TypeOK
  <1>2. ASSUME NEW s \in Services, NEW r \in OnGateway(fwds'[s].ingress, g)
        PROVE  r.relay \in DOMAIN iPorts[g] /\ iPorts[g][r.relay] = r.key
    <2>1. CASE s = cur
      BY <1>1, <1>2, <2>1 DEF OnGateway, PortsInv
    <2>2. CASE s # cur
      <3>1. [fwd |-> s, relay |-> r.relay, key |-> r.key] \in gws[g].ingress
        BY <1>1, <1>2, <2>2 DEF SharedInv, Shows
      <3>2. \A q \in gws[g].ingress : q.relay \in DOMAIN iPorts[g] /\ iPorts[g][q.relay] = q.key
        BY <1>1 DEF SharedInv
      <3> QED BY <3>1, <3>2
    <2> QED BY <2>1, <2>2
  <1>3. \A x \in genGatewayIngressRules(fwds', g) :
          x.relay \in DOMAIN iPorts[g] /\ iPorts[g][x.relay] = x.key
    BY <1>2, GeneratedIngressRules
  <1>4. \A p, q \in DOMAIN iPorts[g] : iPorts[g][p] = iPorts[g][q] => p = q
    BY <1>1 DEF SharedInv
  <1> QED BY <1>3, <1>4 DEF OneToOne

\* If all are listed as they are, the list is what the API server has.
LEMMA ListedAsIsIsCurrent == TypeOK /\ ListedAsIs = Services => fwdCache = fwds
  <1> SUFFICES ASSUME TypeOK, ListedAsIs = Services PROVE fwdCache = fwds
    OBVIOUS
  <1>1. \A s \in Services : fwdCache[s] = fwds[s]
    BY DEF ListedAsIs
  <1> QED BY <1>1 DEF TypeOK

\* Every step keeps SharedInv.
LEMMA SharedStep == TypeOK /\ PortsInv /\ SharedInv /\ [Next]_vars => SharedInv'
  <1> SUFFICES ASSUME TypeOK, PortsInv, SharedInv, [Next]_vars, undisturbed' PROVE SharedInv'
    BY DEF SharedInv
  <1>0. undisturbed
    BY DEF Next, StartReconcile, CacheForwarder, EgressRule, ListGateways, IngressRule,
           WriteForwarder, GetForwarder, ListForwarders, WriteGateway, EndReconcile, Fail,
           CacheGateway, DeleteForwarder, ListRemaining, vars, histVars
  <1>1. ASSUME UNCHANGED <<fwds, gws, at, cur, todo, iPorts, list, current>> PROVE SharedInv'
    BY <1>0, <1>1 DEF SharedInv, Shows
  <1>2. ASSUME NEW s \in Services, StartReconcile(s) PROVE SharedInv'
    <2>1. \A r \in Services : fwds'[r].ingress = fwds[r].ingress
      BY <1>2 DEF StartReconcile, TypeOK, FwdSpecs
    <2> QED BY <1>0, <1>2, <2>1 DEF StartReconcile, SharedInv, Shows
  <1>3. ASSUME EgressRule PROVE SharedInv'
    BY <1>0, <1>3 DEF EgressRule, SharedInv, Shows, specVars
  <1>4. ASSUME ListGateways PROVE SharedInv'
    <2>1. /\ at = "egress" /\ at' = "ingress" /\ UNCHANGED <<fwds, gws>> /\ current'
          /\ \A g \in Gateways : iPorts'[g] \in genUsedPortsForIngress(gws[g])
      BY <1>0, <1>4 DEF ListGateways, specVars
    <2>2. \A g \in Gateways : OneToOne(gws[g].ingress)
      BY <1>0 DEF SharedInv
    <2>3. ASSUME NEW g \in Gateways
          PROVE  /\ \A r \in gws[g].ingress : r.relay \in DOMAIN iPorts'[g] /\ iPorts'[g][r.relay] = r.key
                 /\ \A p, q \in DOMAIN iPorts'[g] : iPorts'[g][p] = iPorts'[g][q] => p = q
      BY <2>1, <2>2, UsedPortsOneToOne
    <2> QED BY <1>0, <2>1, <2>2, <2>3 DEF SharedInv, Shows
  <1>5. ASSUME IngressRule PROVE SharedInv'
    <2>1. PICK t \in todo : \E p \in genRelayPort(t.key, iPorts[t.gw]) :
            iPorts' = [iPorts EXCEPT ![t.gw] = Entered(@, t.key, p)]
      BY <1>5 DEF IngressRule
    <2>2. PICK p \in genRelayPort(t.key, iPorts[t.gw]) :
            iPorts' = [iPorts EXCEPT ![t.gw] = Entered(@, t.key, p)]
      BY <2>1
    <2>3. /\ at = "ingress" /\ UNCHANGED <<fwds, gws, at>> /\ t.gw \in Gateways
          /\ DOMAIN iPorts = Gateways /\ current'
      BY <1>0, <1>5 DEF IngressRule, TypeOK, SharedInv, specVars, histVars
    <2>4. /\ iPorts'[t.gw] = Entered(iPorts[t.gw], t.key, p)
          /\ \A g \in Gateways \ {t.gw} : iPorts'[g] = iPorts[g]
      BY <2>2, <2>3 DEF TypeOK
    <2>5. \A g \in Gateways :
            /\ \A r \in gws[g].ingress : r.relay \in DOMAIN iPorts[g] /\ iPorts[g][r.relay] = r.key
            /\ \A q, r \in DOMAIN iPorts[g] : iPorts[g][q] = iPorts[g][r] => q = r
      BY <1>0, <2>3 DEF SharedInv
    <2>6. /\ \A q \in DOMAIN iPorts[t.gw] :
               q \in DOMAIN iPorts'[t.gw] /\ iPorts'[t.gw][q] = iPorts[t.gw][q]
          /\ \A q, r \in DOMAIN iPorts'[t.gw] : iPorts'[t.gw][q] = iPorts'[t.gw][r] => q = r
      BY <2>3, <2>4, <2>5, EnteredOneToOne
    <2>7. ASSUME NEW g \in Gateways
          PROVE  /\ \A r \in gws[g].ingress : r.relay \in DOMAIN iPorts'[g] /\ iPorts'[g][r.relay] = r.key
                 /\ \A q, r \in DOMAIN iPorts'[g] : iPorts'[g][q] = iPorts'[g][r] => q = r
      BY <2>4, <2>5, <2>6
    <2> QED BY <1>0, <2>3, <2>7 DEF SharedInv, Shows
  <1>6. ASSUME WriteForwarder PROVE SharedInv'
    <2>1. /\ at' = "get" /\ UNCHANGED <<gws, cur>> /\ at = "ingress"
          /\ \A s \in Services \ {cur} : fwds'[s] = fwds[s]
      BY <1>6 DEF WriteForwarder, TypeOK
    <2>2. \A g \in Gateways : OneToOne(genGatewayIngressRules(fwds', g))
      BY <1>0, <1>6, WrittenRulesOneToOne
    <2>3. \A g \in Gateways, s \in Services \ {cur} : Shows(g, s)'
      BY <1>0, <2>1 DEF SharedInv, Shows
    <2> QED BY <1>0, <2>1, <2>2, <2>3 DEF SharedInv
  <1>7. ASSUME GetForwarder PROVE SharedInv'
    <2>1. /\ at = "get" /\ at' = "list" /\ UNCHANGED <<fwds, gws, cur>>
          /\ todo' = getUniqueGatwey(fwds[cur])
      BY <1>7 DEF GetForwarder, specVars
    <2>2. \A g \in Gateways \ todo' : Shows(g, cur)'
      BY <2>1 DEF getUniqueGatwey, Shows, OnGateway
    <2> QED BY <1>0, <2>1, <2>2 DEF SharedInv, Shows
  <1>8. ASSUME ListForwarders PROVE SharedInv'
    <2>1. fwdCache = fwds
      BY <1>8, ListedAsIsIsCurrent DEF ListForwarders
    <2> QED BY <1>0, <1>8, <2>1 DEF ListForwarders, SharedInv, Shows, specVars
  <1>9. ASSUME WriteGateway PROVE SharedInv'
    <2>1. PICK g \in todo :
            /\ gws' = [gws EXCEPT ![g] = [there   |-> TRUE,
                                          egress  |-> genGatewayEgressRules(list, g),
                                          ingress |-> genGatewayIngressRules(list, g)]]
            /\ todo' = todo \ {g}
      BY <1>9 DEF WriteGateway
    <2>2. /\ at = "gateways" /\ UNCHANGED <<fwds, at, cur, list>> /\ list = fwds
          /\ g \in Gateways /\ cur \in Services
      BY <1>0, <1>9 DEF WriteGateway, TypeOK, SharedInv
    <2>3. /\ gws'[g].ingress = genGatewayIngressRules(fwds, g)
          /\ \A h \in Gateways \ {g} : gws'[h] = gws[h]
      BY <2>1, <2>2 DEF TypeOK
    <2>4. \A s \in Services : Shows(g, s)'
      BY <2>2, <2>3, GeneratedIngressRules DEF Shows
    <2>5. ASSUME NEW h \in Gateways \ {g}, NEW s \in Services, Shows(h, s) PROVE Shows(h, s)'
      BY <2>2, <2>3, <2>5 DEF Shows
    <2>6. \A h \in Gateways : OneToOne(gws'[h].ingress)
      BY <1>0, <2>2, <2>3 DEF SharedInv
    <2>7. \A h \in Gateways, s \in Services \ {cur} : Shows(h, s)'
      BY <1>0, <2>2, <2>4, <2>5 DEF SharedInv
    <2>8. ASSUME NEW h \in Gateways \ todo', NEW c \in Services, c = cur PROVE Shows(h, c)'
      BY <1>0, <2>1, <2>2, <2>4, <2>5, <2>8 DEF SharedInv
    <2>9. \A h \in Gateways : OneToOne(genGatewayIngressRules(fwds', h))
      BY <1>0, <2>2 DEF SharedInv
    <2>10. \A h \in Gateways \ todo' : Shows(h, cur)'
      BY <2>2, <2>8
    <2> QED BY <1>0, <2>2, <2>6, <2>7, <2>9, <2>10 DEF SharedInv
  <1>10. ASSUME EndReconcile \/ Fail PROVE SharedInv'
    <2>1. /\ at' = "idle" /\ UNCHANGED <<fwds, gws>> /\ cur \in Services
          /\ at \in {"egress", "ingress", "remaining"} \/ (at = "gateways" /\ todo = {})
      BY <1>10 DEF EndReconcile, Fail, Idle, specVars, TypeOK
    <2>2. \A g \in Gateways, s \in Services : Shows(g, s)
      BY <1>0, <2>1 DEF SharedInv
    <2> QED BY <1>0, <2>1, <2>2 DEF SharedInv, Shows
  <1>11. ASSUME NEW s \in Services, CacheForwarder(s) PROVE SharedInv'
    BY <1>1, <1>11 DEF CacheForwarder, specVars, genVars, histVars
  <1>12. ASSUME NEW g \in Gateways, CacheGateway(g) PROVE SharedInv'
    BY <1>1, <1>12 DEF CacheGateway, specVars, genVars, histVars
  <1>13. ASSUME NEW s \in Services, DeleteForwarder(s) PROVE SharedInv'
    <2>1. \A r \in Services : fwds'[r].ingress \subseteq fwds[r].ingress
      BY <1>13 DEF DeleteForwarder, TypeOK, Absent
    <2>2. \A g \in Gateways, r \in Services : Shows(g, r)
      BY <1>0, <1>13 DEF DeleteForwarder, SharedInv
    <2>3. \A g \in Gateways, r \in Services : Shows(g, r)'
      BY <1>13, <2>1, <2>2 DEF DeleteForwarder, Shows, OnGateway
    <2> QED BY <1>0, <1>13, <2>3 DEF DeleteForwarder, SharedInv
  <1>14. ASSUME ListRemaining PROVE SharedInv'
    <2>1. /\ at = "remaining" /\ at' = "gateways" /\ UNCHANGED <<fwds, gws, cur>>
          /\ cur \in Services /\ list' = fwdCache /\ fwdCache = fwds
      BY <1>14, ListedAsIsIsCurrent DEF ListRemaining, TypeOK, specVars
    <2>2. /\ \A g \in Gateways, s \in Services : Shows(g, s)
          /\ \A g \in Gateways : OneToOne(gws[g].ingress)
      BY <1>0, <2>1 DEF SharedInv
    <2>3. ASSUME NEW g \in Gateways PROVE OneToOne(genGatewayIngressRules(fwds, g))
      <3>1. genGatewayIngressRules(fwds, g) \subseteq gws[g].ingress
        BY <2>2, GeneratedIngressRules DEF Shows
      <3> QED BY <2>2, <3>1 DEF OneToOne
    <2>4. \A g \in Gateways, s \in Services : Shows(g, s)'
      BY <2>1, <2>2 DEF Shows
    <2> QED BY <1>0, <2>1, <2>2, <2>3, <2>4 DEF SharedInv
  <1>15. CASE UNCHANGED vars
    BY <1>1, <1>15 DEF vars, specVars, genVars, histVars
  <1> QED BY <1>2, <1>3, <1>4, <1>5, <1>6, <1>7, <1>8, <1>9, <1>10, <1>11, <1>12, <1>13, <1>14,
             <1>15 DEF Next

-----------------------------------------------------------------------------
\* The inductive invariant, from its six parts.
THEOREM Invariance == Spec => []IInv
  <1>1. Init => IInv
    <2>1. ASSUME Init PROVE TypeOK
      BY <2>1, NoRulesType, RoundsAssumption DEF Init, TypeOK, NoPorts, Ats
    <2>2. ASSUME Init PROVE PortsInv
      BY <2>2 DEF Init, PortsInv, ForwarderPortsDistinct, OneToOne, PortsDistinct, OnGateway,
                  Absent
    <2>3. ASSUME Init PROVE MirrorInv
      BY <2>3 DEF Init, MirrorInv, Mirrored, Mirrors, Unnamed, OfService,
                  OnGateway, Concerned, Absent
    <2>4. ASSUME Init PROVE SharedInv
      BY <2>4 DEF Init, SharedInv, OneToOne, Shows, OnGateway, Absent
    <2>5. ASSUME Init PROVE AbsentIsEmpty
      BY <2>5 DEF Init, AbsentIsEmpty, Empty
    <2>6. ASSUME Init PROVE ListedInv
      BY <2>6 DEF Init, ListedInv
    <2> QED BY <2>1, <2>2, <2>3, <2>4, <2>5, <2>6 DEF IInv
  <1>2. IInv /\ [Next]_vars => IInv'
    BY TypeStep, AbsentStep, PortsStep, ListedStep, MirrorStep, SharedStep DEF IInv
  <1> QED BY <1>1, <1>2, PTL DEF Spec

\* Egress rules of a forwarder share a relay port if and only if they are of the same
\* source and target port, and ingress rules of a forwarder at one gateway only if they are
\* of the same target, however old the copies were from which the ports were chosen.
THEOREM ForwarderPortsStayDistinct == Spec => []ForwarderPortsDistinct
  <1>1. IInv => ForwarderPortsDistinct
    BY DEF IInv, PortsInv
  <1> QED BY <1>1, Invariance, PTL

\* The gateways of a service mirror its forwarder once one of its reconciles went
\* through on current copies, and have no rule of it once it was cleaned up, until a
\* reconcile lists an old copy of it.
THEOREM GatewaysMirrorForwarders == Spec => []Mirrored
  <1>1. IInv => Mirrored
    BY DEF IInv, MirrorInv
  <1> QED BY <1>1, Invariance, PTL

\* On a gateway no two rules of all the services share a relay port, as long as every
\* reconcile read current copies and went through; and whatever happened, a reconcile that
\* listed the gateways as they are adds no clash to theirs.
THEOREM GatewayPortsStayDistinct == Spec => []GatewayPortsDistinct
  <1>1. IInv => GatewayPortsDistinct
    <2> SUFFICES ASSUME IInv PROVE GatewayPortsDistinct
      OBVIOUS
    <2>1. undisturbed => \A g \in Gateways : PortsDistinct(gws[g].ingress)
      BY DEF IInv, SharedInv, PortsDistinct, OneToOne
    <2>2. ASSUME at = "ingress", current, NEW r \in new.ingress PROVE ClashIsOld(r)
      <3>1. r.gw \in Gateways
        BY DEF IInv, TypeOK, FwdSpecs, Rules
      <3> QED BY <2>2, <3>1 DEF IInv, ListedInv, OnGateway
    <2> QED BY <2>1, <2>2 DEF GatewayPortsDistinct
  <1> QED BY <1>1, Invariance, PTL

\* A key is left without a port only if every port is in use.
LEMMA NoPortMeansAllUsed ==
    ASSUME NEW key, NEW used, genRelayPort(key, used) = {}
    PROVE  Ports \subseteq DOMAIN used
  <1> SUFFICES ASSUME Free(used) # {} PROVE FALSE
    BY DEF Free
  <1>1. Free(used) \subseteq Nat
    BY PortsAssumption DEF Free, Ports
  <1> DEFINE R == OpToRel(<, Nat)
  <1>2. PICK p \in Free(used) : \A q \in Free(used) : <<q, p>> \notin R
    BY <1>1, NatLessThanWellFounded, WFMin, Zenon
  <1>3. ASSUME NEW i \in Nat, NEW j \in Nat, i < j PROVE <<i, j>> \in R
    <2>1. <<i, j>> \in Nat \X Nat /\ <<i, j>>[1] < <<i, j>>[2]
      BY <1>3
    <2> QED BY <2>1, Zenon DEF OpToRel
  <1> HIDE DEF R
  <1>4. ASSUME NEW q \in Free(used), ~(p <= q) PROVE FALSE
    <2>1. q \in Nat /\ p \in Nat /\ q < p
      BY <1>1, <1>4
    <2>2. <<q, p>> \in R
      BY <1>3, <2>1, Zenon
    <2> QED BY <1>2, <2>2, Zenon
  <1> QED BY <1>2, <1>4 DEF genRelayPort

\* One-to-one rules have as many keys as ports.
LEMMA AsManyKeysAsPorts ==
    ASSUME NEW rules, OneToOne(rules), IsFiniteSet(Relays(rules))
    PROVE  IsFiniteSet(Keys(rules)) /\ Cardinality(Keys(rules)) = Cardinality(Relays(rules))
  <1> DEFINE KeyOf(p) == CHOOSE k \in Keys(rules) : \E r \in rules : r.relay = p /\ r.key = k
             f == [p \in Relays(rules) |-> KeyOf(p)]
  <1>1. ASSUME NEW r \in rules PROVE KeyOf(r.relay) = r.key
    BY <1>1 DEF OneToOne, Keys
  <1>2. f \in [Relays(rules) -> Keys(rules)]
    BY <1>1 DEF Relays, Keys
  <1>6. \A r \in rules : r.relay \in Relays(rules) /\ f[r.relay] = r.key
    BY <1>1 DEF Relays
  <1> HIDE DEF f
  <1>3. \A p, q \in Relays(rules) : f[p] = f[q] => p = q
    BY <1>6 DEF Relays, OneToOne
  <1>4. \A k \in Keys(rules) : \E p \in Relays(rules) : f[p] = k
    BY <1>6 DEF Keys
  <1>5. ExistsBijection(Relays(rules), Keys(rules))
    BY <1>2, <1>3, <1>4, Fun_IsBij DEF ExistsBijection
  <1> QED BY <1>5, FS_Bijection

\* The ports are exhausted only if the keys of old and new rules need them all: twice for
\* egress rules, once for the ingress rules of a gateway that nothing disturbed.
THEOREM PortsSufficeAlways == Spec => []PortsSuffice
  <1>1. ASSUME IInv PROVE PortsSuffice
    <2> USE <1>1 DEF IInv
    <2>0. IsFiniteSet(Ports)
      BY PortsAssumption, FS_Interval DEF Ports
    <2>1. ASSUME at = "egress", NEW t \in todo, genRelayPort(t.key, ePorts) = {}
          PROVE  Cardinality(Ports) <= Cardinality(Keys(fwds[cur].egress))
                                         + Cardinality(Keys(new.egress))
      <3> DEFINE O == Relays(fwds[cur].egress)
                 N == Relays(new.egress)
      <3>1. /\ DOMAIN ePorts = O \cup N /\ DOMAIN ePorts = Ports
        BY <2>1, NoPortMeansAllUsed DEF PortsInv, TypeOK
      <3>2. OneToOne(fwds[cur].egress)
        BY DEF TypeOK, PortsInv, ForwarderPortsDistinct
      <3>3. OneToOne(new.egress)
        <4>1. \A r \in new.egress : r.key \in EgressKeys
          BY DEF TypeOK, FwdSpecs, Rules
        <4> QED BY <2>1, <4>1 DEF PortsInv, OneToOne
      <3>4. IsFiniteSet(O) /\ IsFiniteSet(N)
        BY <2>0, <3>1, FS_Subset
      <3>5. /\ Cardinality(Keys(fwds[cur].egress)) = Cardinality(O)
            /\ Cardinality(Keys(new.egress)) = Cardinality(N)
        BY <3>2, <3>3, <3>4, AsManyKeysAsPorts
      <3>6. /\ Cardinality(Ports) = Cardinality(O) + Cardinality(N) - Cardinality(O \cap N)
            /\ IsFiniteSet(O \cap N)
        <4>1. Cardinality(O \cup N) = Cardinality(O) + Cardinality(N) - Cardinality(O \cap N)
          BY <3>4, FS_Union
        <4>2. IsFiniteSet(O \cap N)
          BY <3>4, FS_Subset
        <4> QED BY <3>1, <4>1, <4>2
      <3>7. /\ Cardinality(O) \in Nat /\ Cardinality(N) \in Nat
            /\ Cardinality(O \cap N) \in Nat
        BY <3>4, <3>6, FS_CardinalityType
      <3> HIDE DEF O, N
      <3> QED BY <3>5, <3>6, <3>7
    <2>2. ASSUME at = "ingress", undisturbed, NEW t \in todo,
                 genRelayPort(t.key, iPorts[t.gw]) = {}
          PROVE  Cardinality(Ports) <= Cardinality(Keys(gws[t.gw].ingress)
                                                     \cup Keys(OnGateway(new.ingress, t.gw)))
      <3> DEFINE m == iPorts[t.gw]
                 K == Keys(gws[t.gw].ingress) \cup Keys(OnGateway(new.ingress, t.gw))
                 f == [p \in Ports |-> m[p]]
      <3>1. t.gw \in Gateways /\ DOMAIN m = Ports /\ current
        <4>1. t.gw \in Gateways /\ current
          BY <2>2 DEF TypeOK, SharedInv
        <4>2. Ports \subseteq DOMAIN m
          BY <2>2, NoPortMeansAllUsed
        <4>3. DOMAIN m \subseteq Ports
          BY <4>1 DEF TypeOK
        <4> QED BY <4>1, <4>2, <4>3
      <3>2. /\ \A p \in Ports : m[p] \in K
            /\ \A p, q \in Ports : m[p] = m[q] => p = q
        BY <2>2, <3>1 DEF ListedInv, SharedInv, Keys
      <3>3. \A k \in K : \E p \in Ports : m[p] = k
        BY <2>2, <3>1 DEF SharedInv, PortsInv, OnGateway, Keys
      <3> HIDE DEF m, K
      <3>4. f \in Bijection(Ports, K)
        BY <3>2, <3>3, Fun_IsBij
      <3>5. IsFiniteSet(K) /\ Cardinality(K) = Cardinality(Ports)
        BY <2>0, <3>4, FS_Bijection DEF ExistsBijection
      <3>6. Cardinality(Ports) \in Nat
        BY <2>0, FS_CardinalityType
      <3> QED BY <3>5, <3>6 DEF K
    <2> QED BY <2>1, <2>2 DEF PortsSuffice
  <1> QED BY <1>1, Invariance, PTL

\* As long as nothing disturbs the reconciles, an ingress rule that stays keeps its
\* relay port.
THEOREM IngressPortsStay == Spec => IngressPortsStable
  <1> DEFINE Kept == undisturbed => \A s \in Services :
                       \A r \in fwds[s].ingress, q \in fwds'[s].ingress :
                         r.gw = q.gw /\ r.key = q.key => r.relay = q.relay
  <1>1. IInv /\ [Next]_vars => [Kept]_vars
    <2> SUFFICES ASSUME IInv, [Next]_vars, undisturbed, NEW s \in Services,
                        NEW r \in fwds[s].ingress, NEW q \in fwds'[s].ingress,
                        r.gw = q.gw, r.key = q.key
                 PROVE  r.relay = q.relay
      OBVIOUS
    <2>0. r.gw \in Gateways
      BY DEF IInv, TypeOK, FwdSpecs, Rules
    <2>1. CASE WriteForwarder
      <3>1. at = "ingress" /\ fwds'[s] = IF s = cur THEN new ELSE fwds[s]
        BY <2>1 DEF WriteForwarder, IInv, TypeOK
      <3>2. [fwd |-> s, relay |-> r.relay, key |-> r.key] \in gws[r.gw].ingress
        BY <2>0, <3>1 DEF IInv, SharedInv, Shows, OnGateway
      <3>3. r.relay \in DOMAIN iPorts[r.gw] /\ iPorts[r.gw][r.relay] = r.key
        BY <2>0, <3>1, <3>2 DEF IInv, SharedInv
      <3>4. CASE s = cur
        <4>1. q.relay \in DOMAIN iPorts[q.gw] /\ iPorts[q.gw][q.relay] = q.key
          BY <3>1, <3>4 DEF IInv, PortsInv
        <4> QED BY <2>0, <3>1, <3>3, <4>1 DEF IInv, SharedInv
      <3>5. CASE s # cur
        <4>1. [fwd |-> s, relay |-> q.relay, key |-> q.key] \in gws[r.gw].ingress
          BY <2>0, <3>1, <3>5 DEF IInv, SharedInv, Shows, OnGateway
        <4> QED BY <2>0, <3>2, <4>1 DEF IInv, SharedInv, OneToOne
      <3> QED BY <3>4, <3>5
    <2>2. CASE fwds'[s].ingress \subseteq fwds[s].ingress
      <3>1. CASE at \in {"idle", "egress", "ingress", "remaining"}
        <4>1. /\ [fwd |-> s, relay |-> r.relay, key |-> r.key] \in gws[r.gw].ingress
              /\ [fwd |-> s, relay |-> q.relay, key |-> q.key] \in gws[r.gw].ingress
          BY <2>0, <2>2, <3>1 DEF IInv, SharedInv, Shows, OnGateway
        <4> QED BY <2>0, <4>1 DEF IInv, SharedInv, OneToOne
      <3>2. CASE at \in {"get", "list", "gateways"}
        <4>1. /\ [fwd |-> s, relay |-> r.relay, key |-> r.key] \in genGatewayIngressRules(fwds, r.gw)
              /\ [fwd |-> s, relay |-> q.relay, key |-> q.key] \in genGatewayIngressRules(fwds, r.gw)
          BY <2>2, GeneratedIngressRules DEF OnGateway
        <4> QED BY <2>0, <3>2, <4>1 DEF IInv, SharedInv, OneToOne
      <3> QED BY <3>1, <3>2 DEF IInv, TypeOK, Ats
    <2>3. ASSUME NEW c \in Services, StartReconcile(c) \/ DeleteForwarder(c)
          PROVE  fwds'[s].ingress \subseteq fwds[s].ingress
      <3>1. CASE StartReconcile(c)
        BY <3>1 DEF StartReconcile, IInv, TypeOK, FwdSpecs
      <3>2. CASE DeleteForwarder(c)
        BY <3>2 DEF DeleteForwarder, IInv, TypeOK, Absent
      <3> QED BY <2>3, <3>1, <3>2
    <2>4. \/ WriteForwarder \/ UNCHANGED fwds
          \/ \E c \in Services : StartReconcile(c) \/ DeleteForwarder(c)
      BY DEF Next, CacheForwarder, EgressRule, ListGateways, IngressRule,
             GetForwarder, ListForwarders, ListRemaining, WriteGateway, EndReconcile, Fail, Idle,
             CacheGateway, vars, specVars
    <2> QED BY <2>1, <2>2, <2>3, <2>4
  <1> QED BY <1>1, Invariance, PTL DEF Spec, IngressPortsStable
=============================================================================
