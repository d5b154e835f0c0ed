------------------------------ MODULE Operator ------------------------------
(***************************************************************************)
(* The operator's reconciles of several ExternalServices, one at a time:   *)
(* it gives relay ports to the rules of the service, publishes them in the *)
(* service's Forwarder, then rewrites every Gateway these rules name from  *)
(* all the Forwarders; a service that is deleted loses its Forwarder, and  *)
(* every Gateway is rewritten from those that remain. It reads Forwarders  *)
(* and Gateways from a cache that lags behind its own writes, and a        *)
(* reconcile may fail at any call.                                         *)
(*                                                                         *)
(* The status conditions written around each update are in ForwarderSync.  *)
(* A service has the Forwarder of its name.                                *)
(***************************************************************************)
EXTENDS Naturals, FiniteSets

CONSTANTS
    MinPort, MaxPort,   \* util.MinPort and util.MaxPort
    Services,           \* ExternalServices
    Gateways,
    Pods, TargetPorts,  \* the source and the target port of an egress rule
    IngressKeys,        \* targetIP:port, the key of an ingress rule
    MaxRounds           \* bound: reconciles

ASSUME PortsAssumption == MinPort \in Nat /\ MaxPort \in Nat
ASSUME RoundsAssumption == MaxRounds \in Nat

Ports == MinPort..MaxPort

\* srcIP:tPort, the key of an egress rule.
EgressKeys == Pods \X TargetPorts

VARIABLES
    fwds, gws,          \* the specs in the API server
    fwdCache, gwCache,  \* and in the operator's cache
    \* the reconcile: where it is, of which service, what is left to go through
    at, cur, todo,
    ePorts, iPorts,     \* the maps of ports in use; iPorts has one per gateway
    new,                \* the spec generated so far
    list,               \* the forwarders as listed
    dying,              \* services that are deleted and still have their finalizer
    \* history: the services whose last update, or clean-up, reached all its
    \* gateways, whether this reconcile has read current copies since it last went to
    \* the API server for the gateways or its own forwarder, and whether every
    \* reconcile so far has and has gone through
    clean, current, undisturbed,
    rounds

specVars  == <<fwds, gws>>
cacheVars == <<fwdCache, gwCache>>
genVars   == <<ePorts, iPorts, new>>
histVars  == <<clean, current, undisturbed>>
vars == <<specVars, cacheVars, at, cur, todo, genVars, list, dying, histVars, rounds>>

-----------------------------------------------------------------------------
(* Maps of ports in use. A Go map from ports to keys is a function; the     *)
(* entries of a list go into it one after the other, so that one of those   *)
(* with the same port stays.                                                *)

NoPorts == [p \in {} |-> p]

MapsOf(entries) ==
    { m \in [{ e.port : e \in entries } -> { e.by : e \in entries }] :
        \A p \in DOMAIN m : [port |-> p, by |-> m[p]] \in entries }

\* The entry says TargetPort: without the source, it is nobody's key.
genUsedPortsForEgress(spec) ==
    MapsOf({ [port |-> r.relay, by |-> <<r.key[2]>>] : r \in spec.egress })

\* Slip, used to test the properties.
genUsedPortsForIngress_Nothing(spec) == {NoPorts}

genUsedPortsForIngress(spec) ==
    MapsOf({ [port |-> r.relay, by |-> r.key] : r \in spec.ingress })

Free(used) == Ports \ DOMAIN used

\* Slips, used to test the properties.
genRelayPort_OnePastTheEnd(key, used) ==
    LET free == (MinPort..(MaxPort + 1)) \ DOMAIN used
    IN  { p \in free : \A q \in free : p <= q }
genRelayPort_NotKept(key, used) == { p \in Free(used) : \A q \in Free(used) : p <= q }

\* The ports genRelayPortForEgress and genRelayPortForIngress may return for a
\* key: one that is entered for it, or else the lowest free one. None is left
\* when the ports are exhausted.
genRelayPort(key, used) ==
    LET own == { p \in DOMAIN used : used[p] = key }
    IN  IF own # {} THEN own
        ELSE { p \in Free(used) : \A q \in Free(used) : p <= q }

\* Slip, used to test the properties: the new port is not entered.
Entered_Forgotten(used, key, p) == used

Entered(used, key, p) == [q \in DOMAIN used \cup {p} |-> IF q = p THEN key ELSE used[q]]

-----------------------------------------------------------------------------
\* A resource that is not there, and one that was just created.
Absent == [there |-> FALSE, egress |-> {}, ingress |-> {}]
Empty  == [there |-> TRUE, egress |-> {}, ingress |-> {}]

Init ==
    /\ fwds = [s \in Services |-> Absent] /\ gws = [g \in Gateways |-> Absent]
    /\ fwdCache = fwds /\ gwCache = gws
    /\ at = "idle" /\ cur \in Services /\ todo = {}
    /\ ePorts = NoPorts /\ iPorts = [g \in Gateways |-> NoPorts] /\ new = Empty
    /\ list = fwds /\ dying = {}
    /\ clean = Services /\ current = TRUE /\ undisturbed = TRUE
    /\ rounds = 0

-----------------------------------------------------------------------------
(* updateForwarderRules.                                                    *)

\* The copy of the forwarder that is read is the current one: an older one
\* makes the write of the Updating condition fail, and Create fails if there is
\* one already. todo is what the loops over the sources, the ports and the
\* endpoint addresses go through, in any order.
StartReconcile(s) ==
    /\ at = "idle" /\ rounds < MaxRounds
    /\ s \notin dying /\ fwdCache[s] = fwds[s]
    /\ fwds' = [fwds EXCEPT ![s].there = TRUE]
    /\ at' = "egress" /\ cur' = s /\ rounds' = rounds + 1
    /\ todo' \in SUBSET [gw : Gateways, key : EgressKeys]
    /\ ePorts' \in genUsedPortsForEgress(fwds[s])
    /\ UNCHANGED <<gws, cacheVars, iPorts, new, list, dying, histVars>>

EgressRule ==
    /\ at = "egress"
    /\ \E t \in todo : \E p \in genRelayPort(t.key, ePorts) :
         /\ new' = [new EXCEPT !.egress = @ \cup {[gw |-> t.gw, relay |-> p, key |-> t.key]}]
         /\ ePorts' = Entered(ePorts, t.key, p)
         /\ todo' = todo \ {t}
    /\ UNCHANGED <<specVars, cacheVars, at, cur, iPorts, list, dying, histVars, rounds>>

\* List the gateways, then go through the sources and the ports of their services.
ListGateways ==
    /\ at = "egress" /\ todo = {}
    /\ at' = "ingress"
    /\ todo' \in SUBSET [gw : Gateways, key : IngressKeys]
    /\ \E m \in [Gateways -> UNION { genUsedPortsForIngress(gwCache[g]) : g \in Gateways }] :
         /\ \A g \in Gateways : m[g] \in genUsedPortsForIngress(gwCache[g])
         /\ iPorts' = m
    /\ ePorts' = NoPorts
    /\ current' = (gwCache = gws)
    /\ undisturbed' = (undisturbed /\ current')
    /\ UNCHANGED <<specVars, cacheVars, cur, new, list, dying, clean, rounds>>

IngressRule ==
    /\ at = "ingress"
    /\ \E t \in todo : \E p \in genRelayPort(t.key, iPorts[t.gw]) :
         /\ new' = [new EXCEPT !.ingress = @ \cup {[gw |-> t.gw, relay |-> p, key |-> t.key]}]
         /\ iPorts' = [iPorts EXCEPT ![t.gw] = Entered(@, t.key, p)]
         /\ todo' = todo \ {t}
    /\ UNCHANGED <<specVars, cacheVars, at, cur, ePorts, list, dying, histVars, rounds>>

WriteForwarder ==
    /\ at = "ingress" /\ todo = {}
    /\ fwds' = [fwds EXCEPT ![cur] = new]
    /\ new' = Empty /\ iPorts' = [g \in Gateways |-> NoPorts]
    /\ clean' = clean \ {cur}
    /\ at' = "get"
    /\ UNCHANGED <<gws, cacheVars, cur, todo, ePorts, list, dying, current, undisturbed, rounds>>

-----------------------------------------------------------------------------
(* updateGatewayRules.                                                      *)

\* Only the gateways of ingress rules are updated.
getUniqueGatwey(spec) == { r.gw : r \in spec.ingress }

\* Get the service's own forwarder, to know its gateways...
GetForwarder ==
    /\ at = "get" /\ fwdCache[cur].there
    /\ todo' = getUniqueGatwey(fwdCache[cur])
    /\ at' = "list"
    /\ current' = (fwdCache[cur] = fwds[cur])
    /\ undisturbed' = (undisturbed /\ current')
    /\ UNCHANGED <<specVars, cacheVars, cur, genVars, list, dying, clean, rounds>>

\* The list has old copies of the services that are not listed as they are.
ListedAsIs == { s \in Services : fwdCache[s] = fwds[s] }

\* ... and list all of them.
ListForwarders ==
    /\ at = "list"
    /\ list' = fwdCache
    /\ at' = "gateways"
    /\ current' = (current /\ cur \in ListedAsIs)
    /\ undisturbed' = (undisturbed /\ ListedAsIs = Services)
    /\ clean' = clean \cap ListedAsIs
    /\ UNCHANGED <<specVars, cacheVars, cur, todo, genVars, dying, rounds>>

-----------------------------------------------------------------------------
(* deleteResourceForExternalService, without pod and service.               *)

\* The Delete of the forwarder that is in the cache may fail, and nobody notices.
DeleteForwarder(s) ==
    /\ at = "idle" /\ rounds < MaxRounds
    /\ \/ fwdCache[s].there /\ fwds' = [fwds EXCEPT ![s] = Absent]
       \/ UNCHANGED fwds
    /\ at' = "remaining" /\ cur' = s /\ rounds' = rounds + 1
    /\ dying' = dying \cup {s}
    /\ clean' = clean \ {s}
    /\ UNCHANGED <<gws, cacheVars, todo, genVars, list, current, undisturbed>>

\* Slip, used to test the properties: the list is not looked at.
StillListed_Unchecked(s) == FALSE

StillListed(s) == fwdCache[s].there

\* List the forwarders that remain, and all gateways.
ListRemaining ==
    /\ at = "remaining" /\ ~StillListed(cur)
    /\ list' = fwdCache
    /\ todo' = { g \in Gateways : gwCache[g].there }
    /\ at' = "gateways"
    /\ current' = (~fwds[cur].there /\ \A g \in Gateways : gws[g].there => gwCache[g].there)
    /\ undisturbed' = (undisturbed /\ ListedAsIs = Services)
    /\ clean' = clean \cap ListedAsIs
    /\ UNCHANGED <<specVars, cacheVars, cur, genVars, dying, rounds>>

-----------------------------------------------------------------------------
(* The gateways, for either of the two.                                     *)

\* The rules of the forwarders listed that name the gateway.
RulesFor(g, rulesOf) ==
    UNION { { [fwd |-> s, relay |-> r.relay, key |-> r.key] :
                r \in { q \in rulesOf[s] : q.gw = g } } : s \in Services }

genGatewayEgressRules(l, g)  == RulesFor(g, [s \in Services |-> l[s].egress])
genGatewayIngressRules(l, g) == RulesFor(g, [s \in Services |-> l[s].ingress])

\* updateRulesForOneGateway, of a gateway that may have to be created; the order is
\* that of a Go map, or of the list. A write is made on the current copy only.
WriteGateway ==
    /\ at = "gateways"
    /\ \E g \in todo :
         /\ gwCache[g] = gws[g]
         /\ gws' = [gws EXCEPT ![g] = [there   |-> TRUE,
                                       egress  |-> genGatewayEgressRules(list, g),
                                       ingress |-> genGatewayIngressRules(list, g)]]
         /\ todo' = todo \ {g}
    /\ UNCHANGED <<fwds, cacheVars, at, cur, genVars, list, dying, histVars, rounds>>

Idle ==
    /\ at' = "idle" /\ todo' = {} /\ current' = TRUE
    /\ ePorts' = NoPorts /\ iPorts' = [g \in Gateways |-> NoPorts] /\ new' = Empty
    /\ list' = [s \in Services |-> Absent]
    /\ UNCHANGED <<specVars, cacheVars, cur, rounds>>

\* The end of a clean-up clears the finalizer: the name may be used again.
EndReconcile ==
    /\ at = "gateways" /\ todo = {}
    /\ Idle
    /\ dying' = dying \ {cur}
    /\ clean' = IF current THEN clean \cup {cur} ELSE clean
    /\ UNCHANGED undisturbed

\* A call fails, the ports are exhausted, a copy is out of date, the deleted forwarder
\* is listed, or the operator restarts: the rest is left to a retry.
Fail ==
    /\ at # "idle"
    /\ Idle
    /\ undisturbed' = (undisturbed /\ at \in {"egress", "ingress", "remaining"})
    /\ UNCHANGED <<clean, dying>>

-----------------------------------------------------------------------------
(* The watches bring the cache up to date, object by object.                *)

CacheForwarder(s) ==
    /\ fwdCache[s] # fwds[s]
    /\ fwdCache' = [fwdCache EXCEPT ![s] = fwds[s]]
    /\ UNCHANGED <<specVars, gwCache, at, cur, todo, genVars, list, dying, histVars, rounds>>

CacheGateway(g) ==
    /\ gwCache[g] # gws[g]
    /\ gwCache' = [gwCache EXCEPT ![g] = gws[g]]
    /\ UNCHANGED <<specVars, fwdCache, at, cur, todo, genVars, list, dying, histVars, rounds>>

Next ==
    \/ \E s \in Services : StartReconcile(s) \/ DeleteForwarder(s) \/ CacheForwarder(s)
    \/ ListRemaining \/ EgressRule \/ ListGateways \/ IngressRule \/ WriteForwarder
    \/ GetForwarder \/ ListForwarders \/ WriteGateway \/ EndReconcile \/ Fail
    \/ \E g \in Gateways : CacheGateway(g)

Spec == Init /\ [][Next]_vars

-----------------------------------------------------------------------------
(* Properties.                                                              *)

Rules(keys)   == [gw : Gateways, relay : Ports, key : keys]
GwRules(keys) == [fwd : Services, relay : Ports, key : keys]
FwdSpecs ==
    [there : BOOLEAN, egress : SUBSET Rules(EgressKeys), ingress : SUBSET Rules(IngressKeys)]
GwSpecs ==
    [there : BOOLEAN, egress : SUBSET GwRules(EgressKeys), ingress : SUBSET GwRules(IngressKeys)]
Ats == {"idle", "egress", "ingress", "get", "list", "remaining", "gateways"}

\* Every variable has its type, and every relay port is within the range.
TypeOK ==
    /\ fwds \in [Services -> FwdSpecs] /\ fwdCache \in [Services -> FwdSpecs]
    /\ gws \in [Gateways -> GwSpecs] /\ gwCache \in [Gateways -> GwSpecs]
    /\ at \in Ats /\ cur \in Services
    /\ new \in FwdSpecs /\ list \in [Services -> FwdSpecs]
    /\ at = "egress" => todo \subseteq [gw : Gateways, key : EgressKeys]
    /\ at = "ingress" => todo \subseteq [gw : Gateways, key : IngressKeys]
    /\ at \in {"list", "gateways"} => todo \subseteq Gateways
    /\ at \in {"idle", "get", "remaining"} => todo = {}
    /\ dying \subseteq Services
    /\ DOMAIN ePorts \subseteq Ports
    /\ DOMAIN iPorts = Gateways /\ \A g \in Gateways : DOMAIN iPorts[g] \subseteq Ports
    /\ clean \subseteq Services /\ current \in BOOLEAN /\ undisturbed \in BOOLEAN
    /\ rounds \in 0..MaxRounds

\* Rules with the same relay port are of the same key.
PortsDistinct(rules) == \A r, q \in rules : r.relay = q.relay => r.key = q.key

OnGateway(rules, g) == { r \in rules : r.gw = g }

\* Rules with the same relay port are of the same key, and the other way round.
OneToOne(rules) == \A r, q \in rules : r.relay = q.relay <=> r.key = q.key

\* Two egress rules of a forwarder share a relay port only if they are of the same
\* source and target port, and then they do: no traffic enters the tunnel of another
\* rule. Two ingress rules that a forwarder has at one gateway share a relay port only
\* if they are of the same target. This is so however old the list of gateways was from
\* which the ports were taken, and whatever failed before.
ForwarderPortsDistinct ==
    /\ \A s \in Services : OneToOne(fwds[s].egress)
    /\ \A s \in Services, g \in Gateways : PortsDistinct(OnGateway(fwds[s].ingress, g))

\* A new rule that has the relay port of a rule of its gateway, but not its key, has
\* port and key of another rule there: the two clashed before.
ClashIsOld(r) ==
    \A q \in gws[r.gw].ingress : r.relay = q.relay /\ r.key # q.key =>
        \E p \in gws[r.gw].ingress : p.relay = r.relay /\ p.key = r.key

\* On a gateway, the ingress rules of all services have distinct relay ports,
\* as long as every reconcile read current copies and went through: the ports
\* in use are found in the gateways, so that those a failed reconcile left in a
\* forwarder, and those of gateways not yet cached, are given away again. Whatever
\* was disturbed before, a reconcile that has listed the gateways as they are
\* generates no rule that clashes with theirs but where they clash already.
GatewayPortsDistinct ==
    /\ undisturbed => \A g \in Gateways : PortsDistinct(gws[g].ingress)
    /\ at = "ingress" /\ current => \A r \in new.ingress : ClashIsOld(r)

Keys(rules) == { r.key : r \in rules }

\* The ports are exhausted only if they are needed. An egress rule finds none only if
\* the keys of the forwarder's old rules and of the new ones are together as many as
\* there are ports: a key that stays takes a second port, so that this happens from
\* half of the ports on. An ingress rule, as long as nothing disturbs the reconciles,
\* finds none only if the gateway's rules and the new ones have as many keys as there
\* are ports: there, a key that stays takes no second port.
PortsSuffice ==
    /\ at = "egress" => \A t \in todo :
          genRelayPort(t.key, ePorts) = {} =>
              Cardinality(Ports) <= Cardinality(Keys(fwds[cur].egress))
                                      + Cardinality(Keys(new.egress))
    /\ at = "ingress" /\ undisturbed => \A t \in todo :
          genRelayPort(t.key, iPorts[t.gw]) = {} =>
              Cardinality(Ports) <= Cardinality(Keys(gws[t.gw].ingress)
                                                  \cup Keys(OnGateway(new.ingress, t.gw)))

\* The rules that the gateway has of the service are those its forwarder has.
Unnamed(rules) == { [relay |-> r.relay, key |-> r.key] : r \in rules }
OfService(rules, s) == { r \in rules : r.fwd = s }
Mirrors(g, s) ==
    /\ Unnamed(OfService(gws[g].egress, s)) = Unnamed(OnGateway(fwds[s].egress, g))
    /\ Unnamed(OfService(gws[g].ingress, s)) = Unnamed(OnGateway(fwds[s].ingress, g))

\* The gateways that should follow a service: those that its ingress rules name, or
\* all of them once its forwarder is deleted.
Concerned(s) == IF fwds[s].there THEN getUniqueGatwey(fwds[s]) ELSE Gateways

\* The gateways that a service's ingress rules name have exactly the rules of its
\* forwarder, once a reconcile of the service went through on a current copy of it,
\* and until another one lists an old copy of it; no gateway has a rule of it, once
\* it was cleaned up, until it is created again: no other reconcile, no clean-up of
\* another service and no failure undoes that.
Mirrored == \A s \in clean : \A g \in Concerned(s) : Mirrors(g, s)

\* An ingress rule that stays keeps its relay port, as long as nothing disturbs
\* the reconciles, so that remote tunnels and chains do not change under the
\* connections that use them.
IngressPortsStable ==
    [][undisturbed => \A s \in Services :
         \A r \in fwds[s].ingress, q \in fwds'[s].ingress :
             r.gw = q.gw /\ r.key = q.key => r.relay = q.relay]_vars

\* The inductive invariant behind the port and mirror properties.

Relays(rules) == { r.relay : r \in rules }

\* The rules generated so far are entered in the maps under their keys; the map of egress
\* ports has these, and the ports of the forwarder's rules for nobody's key.
PortsInv ==
    /\ ForwarderPortsDistinct
    /\ at = "idle" => new = Empty
    /\ at = "egress" =>
          /\ new.ingress = {}
          /\ \A r \in new.egress : r.relay \in DOMAIN ePorts /\ ePorts[r.relay] = r.key
          /\ DOMAIN ePorts = Relays(fwds[cur].egress) \cup Relays(new.egress)
          /\ \A p, q \in DOMAIN ePorts :
               ePorts[p] \in EgressKeys /\ ePorts[p] = ePorts[q] => p = q
    /\ at = "ingress" =>
          /\ OneToOne(new.egress)
          /\ \A r \in new.ingress :
               r.relay \in DOMAIN iPorts[r.gw] /\ iPorts[r.gw][r.relay] = r.key

\* If the gateways were listed as they are, the maps have the ports of their rules and of
\* the new ones, each for the key of one of them, and the new ones add no clash.
ListedInv == at = "ingress" /\ current => \A g \in Gateways :
    /\ Relays(gws[g].ingress) \subseteq DOMAIN iPorts[g]
    /\ \A p \in DOMAIN iPorts[g] :
         \E r \in gws[g].ingress \cup OnGateway(new.ingress, g) :
             r.relay = p /\ r.key = iPorts[g][p]
    /\ \A r \in OnGateway(new.ingress, g) : ClashIsOld(r)

\* What is not there has no rules.
AbsentIsEmpty ==
    /\ \A s \in Services :
          (~fwds[s].there => fwds[s] = Absent) /\ (~fwdCache[s].there => fwdCache[s] = Absent)
    /\ \A g \in Gateways : ~gws[g].there => gws[g] = Absent
    /\ new.there

\* The list has current copies of the services that are clean, and of the one at hand
\* if it read current ones; then the gateways done so far mirror its forwarder.
MirrorInv ==
    /\ Mirrored
    /\ at \in {"get", "list", "remaining", "gateways"} => cur \notin clean
    /\ at = "list" /\ current => Concerned(cur) \subseteq todo
    /\ at = "gateways" => \A s \in clean : list[s] = fwds[s]
    /\ at = "gateways" /\ current =>
          list[cur] = fwds[cur] /\ \A g \in Concerned(cur) \ todo : Mirrors(g, cur)

\* A gateway has the ingress rules that the forwarder of a service has for it.
Shows(g, s) ==
    \A r \in OnGateway(fwds[s].ingress, g) :
        [fwd |-> s, relay |-> r.relay, key |-> r.key] \in gws[g].ingress

\* As long as nothing disturbs the reconciles, gateways show the rules of all their
\* forwarders between reconciles, so that the maps of ports in use have them; and
\* those of the one at hand, once its forwarder is written, clash with none.
SharedInv == undisturbed =>
    /\ at = "ingress" => current
    /\ \A g \in Gateways : OneToOne(gws[g].ingress)
    /\ at \in {"idle", "egress", "ingress", "remaining"} =>
          \A g \in Gateways, s \in Services : Shows(g, s)
    /\ at = "ingress" => \A g \in Gateways :
          /\ \A r \in gws[g].ingress :
               r.relay \in DOMAIN iPorts[g] /\ iPorts[g][r.relay] = r.key
          /\ \A p, q \in DOMAIN iPorts[g] : iPorts[g][p] = iPorts[g][q] => p = q
    /\ at \in {"get", "list", "gateways"} => \A g \in Gateways :
          /\ OneToOne(genGatewayIngressRules(fwds, g))
          /\ \A s \in Services \ {cur} : Shows(g, s)
    /\ at \in {"list", "gateways"} => \A g \in Gateways \ todo : Shows(g, cur)
    /\ at = "gateways" => list = fwds

IInv == TypeOK /\ AbsentIsEmpty /\ PortsInv /\ ListedInv /\ MirrorInv /\ SharedInv

\* The comment at reconciler.go:131: "Find relayPort from ePorts and return the
\* value if already exists". An egress rule that stays keeps its relay port.
EgressPortsStable ==
    [][\A s \in Services : \A r \in fwds[s].egress, q \in fwds'[s].egress :
         r.key = q.key => r.relay = q.relay]_vars
=============================================================================
