------------------------------ MODULE RuleInputs ------------------------------
(***************************************************************************)
(* What the operator computes rules from, and how it learns that it        *)
(* changed: the sources of an ExternalService, the endpoints and the ports *)
(* of the services behind them, and the address of the forwarder's pod.    *)
(* Each is read from a cache that lags, object by object; a change that    *)
(* gets into the cache is handed to a watch's map function some time later,*)
(* which looks up, in the cache as it is then, whom to wake.               *)
(*                                                                         *)
(* Relay ports are in Operator and left out of the rules; the writes of    *)
(* one resource are in ForwarderSync and GatewaySync, creation and         *)
(* deletion in Lifecycle: here every resource exists.                      *)
(***************************************************************************)
EXTENDS Naturals

CONSTANTS
    ExternalServices,
    SourceServices,     \* the services and endpoints that sources name
    Gateways,           \* the gateway IPs that sources name,
    BadGateways,        \* some of which are no IP addresses
    SpecChoices,        \* of each service, the sets of sources its user may ask for
    Addrs, SvcPorts,    \* addresses of an endpoints object, ports of a service
    PodIPs, NoIP,
    PodChoices,         \* of each service, what the address of its pod may be
    MaxChanges,         \* bound: changes of an input
    MaxFaults           \* bound: failed calls and restarts of the operator

Sources == [service : SourceServices, gw : Gateways]

ASSUME SourcesAssumption ==
    SpecChoices \in [ExternalServices -> SUBSET SUBSET Sources] /\ BadGateways \subseteq Gateways
ASSUME IPsAssumption ==
    NoIP \notin PodIPs /\ PodChoices \in [ExternalServices -> SUBSET (PodIPs \cup {NoIP})]
ASSUME BoundsAssumption == MaxChanges \in Nat /\ MaxFaults \in Nat

VARIABLES
    \* the inputs in the API server: sources of each ExternalService; endpoint
    \* addresses and ports of each service; address of each forwarder's pod
    spec, eps, ports, podIP,
    specCache, epsCache, portsCache, podCache,
    \* the outputs, and the operator's copies of them
    fwds, gws,
    fwdCache, gwCache,
    \* what got into the cache and was not handed to a map function yet
    esNotes, podNotes, epNotes,
    \* the reconcile: where it is, of whom, the sources it was given, what is
    \* left to go through, the spec generated so far, the forwarders as listed
    queue, at, cur, cr, todo, new, list,
    changes, faults

inputs     == <<spec, eps, ports, podIP>>
inputCache == <<specCache, epsCache, portsCache, podCache>>
outputs    == <<fwds, gws>>
outCache   == <<fwdCache, gwCache>>
notes      == <<esNotes, podNotes, epNotes>>
rec        == <<at, cur, cr, todo, new, list>>
bounds     == <<changes, faults>>
vars == <<inputs, inputCache, outputs, outCache, notes, queue, rec, bounds>>

-----------------------------------------------------------------------------
(* The rules, as a function of the inputs.                                  *)

genForwarderEgressRules(sources, endpoints) ==
    UNION { { [gw |-> s.gw, addr |-> a] : a \in endpoints[s.service] } : s \in sources }

genForwarderIngressRules(sources, svcPorts) ==
    UNION { { [gw |-> s.gw, port |-> p] : p \in svcPorts[s.service] } : s \in sources }

NoRules == [ip |-> NoIP, egress |-> {}, ingress |-> {}]

\* Slip, used to test the properties: the gateways of the other rules.
getUniqueGatwey_Egress(fwd) == { r.gw : r \in fwd.egress }

\* The gateways whose configuration a reconcile rewrites.
getUniqueGatwey(fwd) == { r.gw : r \in fwd.ingress }

\* genGatewayEgressRules and genGatewayIngressRules of a list of forwarders.
genGatewayRules(l, g) ==
    [egress  |-> UNION { { [of |-> e, ip |-> l[e].ip, addr |-> r.addr] :
                             r \in { q \in l[e].egress : q.gw = g } } : e \in ExternalServices },
     ingress |-> UNION { { [of |-> e, ip |-> l[e].ip, port |-> r.port] :
                             r \in { q \in l[e].ingress : q.gw = g } } : e \in ExternalServices }]

-----------------------------------------------------------------------------
Specs  == SUBSET Sources
IPs    == PodIPs \cup {NoIP}
NoSpec == {}

\* The operator starts with its caches filled. Every ExternalService is handed out,
\* which wakes whom the pods and endpoints that are handed out as well would wake.
Init ==
    /\ spec \in [ExternalServices -> Specs] /\ \A e \in ExternalServices : spec[e] \in SpecChoices[e]
    /\ eps \in [SourceServices -> SUBSET Addrs] /\ ports \in [SourceServices -> SUBSET SvcPorts]
    /\ podIP \in [ExternalServices -> IPs] /\ \A e \in ExternalServices : podIP[e] \in PodChoices[e]
    /\ specCache = spec /\ epsCache = eps /\ portsCache = ports /\ podCache = podIP
    /\ fwds = [e \in ExternalServices |-> NoRules]
    /\ gws = [g \in Gateways |-> [egress |-> {}, ingress |-> {}]]
    /\ fwdCache = fwds /\ gwCache = gws
    /\ esNotes = ExternalServices /\ podNotes = {} /\ epNotes = {}
    /\ queue = {} /\ at = "idle" /\ cur \in ExternalServices
    /\ cr = NoSpec /\ todo = {} /\ new = NoRules /\ list = fwds
    /\ changes = 0 /\ faults = 0

\* Slip, used to test the properties: what was left to go through stays.
Idle_Leftover ==
    /\ at' = "idle" /\ cr' = NoSpec /\ new' = NoRules
    /\ list' = [e \in ExternalServices |-> NoRules]
    /\ UNCHANGED <<cur, todo>>

Idle ==
    /\ at' = "idle" /\ cr' = NoSpec /\ todo' = {} /\ new' = NoRules
    /\ list' = [e \in ExternalServices |-> NoRules]
    /\ UNCHANGED cur

\* Slip, used to test the properties: the error is not returned.
Error_Swallowed == Idle /\ UNCHANGED queue

\* Reconcile returns an error, and the request is queued again.
Error == Idle /\ queue' = queue \cup {cur}

-----------------------------------------------------------------------------
(* Reconcile: updateForwarderRules.                                         *)

Take(e) ==
    /\ at = "idle" /\ e \in queue
    /\ queue' = queue \ {e} /\ cur' = e /\ cr' = specCache[e]
    /\ at' = "forwarder"
    /\ UNCHANGED <<inputs, inputCache, outputs, outCache, notes, todo, new, list, bounds>>

\* An old copy of the forwarder is refused when its condition is written, or
\* at the latest with its rules.
GetForwarder ==
    /\ at = "forwarder"
    /\ \/ /\ fwdCache[cur] = fwds[cur]
          /\ at' = "pod"
          /\ UNCHANGED <<cur, cr, todo, new, list, queue>>
       \/ fwdCache[cur] # fwds[cur] /\ Error
    /\ UNCHANGED <<inputs, inputCache, outputs, outCache, notes, bounds>>

GetPod ==
    /\ at = "pod"
    /\ \/ /\ podCache[cur] # NoIP
          /\ new' = [new EXCEPT !.ip = podCache[cur]]
          /\ todo' = cr /\ at' = "egress"
          /\ UNCHANGED <<cur, cr, list, queue>>
       \/ podCache[cur] = NoIP /\ Error
    /\ UNCHANGED <<inputs, inputCache, outputs, outCache, notes, bounds>>

\* Source by source, the endpoints are read and give the egress rules. A
\* source whose gateway has no rule name fails the reconcile.
EgressSource(s) ==
    /\ at = "egress" /\ s \in todo
    /\ \/ /\ s.gw \notin BadGateways
          /\ new' = [new EXCEPT !.egress = @ \cup genForwarderEgressRules({s}, epsCache)]
          /\ todo' = todo \ {s}
          /\ UNCHANGED <<at, cur, cr, list, queue>>
       \/ s.gw \in BadGateways /\ Error
    /\ UNCHANGED <<inputs, inputCache, outputs, outCache, notes, bounds>>

EndEgress ==
    /\ at = "egress" /\ todo = {}
    /\ todo' = cr /\ at' = "ingress"
    /\ UNCHANGED <<inputs, inputCache, outputs, outCache, notes, queue, cur, cr, new, list, bounds>>

\* The same with the services. The names of all gateways are good here.
IngressSource(s) ==
    /\ at = "ingress" /\ s \in todo
    /\ new' = [new EXCEPT !.ingress = @ \cup genForwarderIngressRules({s}, portsCache)]
    /\ todo' = todo \ {s}
    /\ UNCHANGED <<inputs, inputCache, outputs, outCache, notes, queue, at, cur, cr, list, bounds>>

WriteForwarder ==
    /\ at = "ingress" /\ todo = {}
    /\ fwds' = [fwds EXCEPT ![cur] = new]
    /\ new' = NoRules /\ at' = "get"
    /\ UNCHANGED <<inputs, inputCache, gws, outCache, notes, queue, cur, cr, todo, list, bounds>>

-----------------------------------------------------------------------------
(* Reconcile: updateGatewayRules.                                           *)

GetGateways ==
    /\ at = "get"
    /\ todo' = getUniqueGatwey(fwdCache[cur]) /\ at' = "list"
    /\ UNCHANGED <<inputs, inputCache, outputs, outCache, notes, queue, cur, cr, new, list, bounds>>

ListForwarders ==
    /\ at = "list"
    /\ list' = fwdCache /\ at' = "gateways"
    /\ UNCHANGED <<inputs, inputCache, outputs, outCache, notes, queue, cur, cr, todo, new, bounds>>

\* updateRulesForOneGateway; an old copy of the gateway is refused.
WriteGateway(g) ==
    /\ at = "gateways" /\ g \in todo
    /\ \/ /\ gwCache[g] = gws[g]
          /\ gws' = [gws EXCEPT ![g] = genGatewayRules(list, g)]
          /\ todo' = todo \ {g}
          /\ UNCHANGED <<at, cur, cr, new, list, queue>>
       \/ gwCache[g] # gws[g] /\ Error /\ UNCHANGED gws
    /\ UNCHANGED <<inputs, inputCache, fwds, outCache, notes, bounds>>

Return ==
    /\ at = "gateways" /\ todo = {}
    /\ Idle
    /\ UNCHANGED <<inputs, inputCache, outputs, outCache, notes, queue, bounds>>

\* A call fails.
Fail ==
    /\ at # "idle" /\ faults < MaxFaults
    /\ Error
    /\ faults' = faults + 1
    /\ UNCHANGED <<inputs, inputCache, outputs, outCache, notes, changes>>

\* The operator restarts: its memory is gone, its caches are filled anew.
Restart ==
    /\ faults < MaxFaults
    /\ Idle /\ queue' = {}
    /\ esNotes' = ExternalServices /\ podNotes' = {} /\ epNotes' = {}
    /\ specCache' = spec /\ epsCache' = eps /\ portsCache' = ports /\ podCache' = podIP
    /\ fwdCache' = fwds /\ gwCache' = gws
    /\ faults' = faults + 1
    /\ UNCHANGED <<inputs, outputs, changes>>

-----------------------------------------------------------------------------
(* The caches, and the map functions of the watches.                        *)

CacheES(e) ==
    /\ specCache[e] # spec[e]
    /\ specCache' = [specCache EXCEPT ![e] = spec[e]]
    /\ esNotes' = esNotes \cup {e}
    /\ UNCHANGED <<inputs, epsCache, portsCache, podCache, outputs, outCache, podNotes, epNotes,
                   queue, rec, bounds>>

CachePod(e) ==
    /\ podCache[e] # podIP[e]
    /\ podCache' = [podCache EXCEPT ![e] = podIP[e]]
    /\ podNotes' = podNotes \cup {e}
    /\ UNCHANGED <<inputs, specCache, epsCache, portsCache, outputs, outCache, esNotes, epNotes,
                   queue, rec, bounds>>

CacheEndpoints(s) ==
    /\ epsCache[s] # eps[s]
    /\ epsCache' = [epsCache EXCEPT ![s] = eps[s]]
    /\ epNotes' = epNotes \cup {s}
    /\ UNCHANGED <<inputs, specCache, portsCache, podCache, outputs, outCache, esNotes, podNotes,
                   queue, rec, bounds>>

\* A service that is not in the connector's namespace wakes nobody; nor does a
\* Forwarder or a Gateway, which are not watched.
CachePorts(s) ==
    /\ portsCache[s] # ports[s]
    /\ portsCache' = [portsCache EXCEPT ![s] = ports[s]]
    /\ UNCHANGED <<inputs, specCache, epsCache, podCache, outputs, outCache, notes, queue, rec, bounds>>

CacheForwarder(e) ==
    /\ fwdCache[e] # fwds[e]
    /\ fwdCache' = [fwdCache EXCEPT ![e] = fwds[e]]
    /\ UNCHANGED <<inputs, inputCache, outputs, gwCache, notes, queue, rec, bounds>>

CacheGateway(g) ==
    /\ gwCache[g] # gws[g]
    /\ gwCache' = [gwCache EXCEPT ![g] = gws[g]]
    /\ UNCHANGED <<inputs, inputCache, outputs, fwdCache, notes, queue, rec, bounds>>

HandleES(e) ==
    /\ e \in esNotes
    /\ esNotes' = esNotes \ {e} /\ queue' = queue \cup {e}
    /\ UNCHANGED <<inputs, inputCache, outputs, outCache, podNotes, epNotes, rec, bounds>>

\* Slip, used to test the properties: the labels are not found.
PodRequests_None(e) == {}

\* The pod's labels name its ExternalService.
PodRequests(e) == {e}

HandlePod(e) ==
    /\ e \in podNotes
    /\ podNotes' = podNotes \ {e} /\ queue' = queue \cup PodRequests(e)
    /\ UNCHANGED <<inputs, inputCache, outputs, outCache, esNotes, epNotes, rec, bounds>>

\* The ExternalServices that name the endpoints' service, as the cache has them
\* when the map function runs. (A failed List makes no request; it is left out, as a
\* list from a synced cache does not fail.)
EndpointsRequests(s) ==
    { e \in ExternalServices : \E src \in specCache[e] : src.service = s }

HandleEndpoints(s) ==
    /\ s \in epNotes
    /\ epNotes' = epNotes \ {s} /\ queue' = queue \cup EndpointsRequests(s)
    /\ UNCHANGED <<inputs, inputCache, outputs, outCache, esNotes, podNotes, rec, bounds>>

\* The informer hands out an ExternalService that did not change.
Resync(e) ==
    /\ queue' = queue \cup {e}
    /\ UNCHANGED <<inputs, inputCache, outputs, outCache, notes, rec, bounds>>

-----------------------------------------------------------------------------
(* Users and the cluster change an input.                                   *)

Change ==
    /\ changes < MaxChanges /\ changes' = changes + 1
    /\ \/ \E e \in ExternalServices : \E x \in SpecChoices[e] :
            spec' = [spec EXCEPT ![e] = x] /\ UNCHANGED <<eps, ports, podIP>>
       \/ \E s \in SourceServices, x \in SUBSET Addrs :
            eps' = [eps EXCEPT ![s] = x] /\ UNCHANGED <<spec, ports, podIP>>
       \/ \E s \in SourceServices, x \in SUBSET SvcPorts :
            ports' = [ports EXCEPT ![s] = x] /\ UNCHANGED <<spec, eps, podIP>>
       \/ \E e \in ExternalServices : \E x \in PodChoices[e] :
            podIP' = [podIP EXCEPT ![e] = x] /\ UNCHANGED <<spec, eps, ports>>
    /\ UNCHANGED <<inputCache, outputs, outCache, notes, queue, rec, faults>>

ReconcileStep ==
    \/ GetForwarder \/ GetPod \/ EndEgress \/ WriteForwarder
    \/ GetGateways \/ ListForwarders \/ Return
    \/ \E s \in Sources : EgressSource(s) \/ IngressSource(s)
    \/ \E g \in Gateways : WriteGateway(g)

Next ==
    \/ ReconcileStep \/ Fail \/ Restart \/ Change
    \/ \E e \in ExternalServices :
         \/ Take(e) \/ CacheES(e) \/ CachePod(e) \/ CacheForwarder(e)
         \/ HandleES(e) \/ HandlePod(e) \/ Resync(e)
    \/ \E s \in SourceServices : CacheEndpoints(s) \/ CachePorts(s) \/ HandleEndpoints(s)
    \/ \E g \in Gateways : CacheGateway(g)

Spec == Init /\ [][Next]_vars

\* The operator's goroutines run, its caches follow, every request is taken in
\* its turn. Nothing is assumed of changes, faults and resyncs.
Fairness ==
    /\ WF_vars(ReconcileStep)
    /\ \A e \in ExternalServices :
         /\ SF_vars(Take(e))
         /\ WF_vars(CacheES(e)) /\ WF_vars(CachePod(e)) /\ WF_vars(CacheForwarder(e))
         /\ WF_vars(HandleES(e)) /\ WF_vars(HandlePod(e))
    /\ \A s \in SourceServices :
         WF_vars(CacheEndpoints(s)) /\ WF_vars(CachePorts(s)) /\ WF_vars(HandleEndpoints(s))
    /\ \A g \in Gateways : WF_vars(CacheGateway(g))

FairSpec == Spec /\ Fairness

-----------------------------------------------------------------------------
(* Properties.                                                              *)

FwdSpecs == [ip : IPs, egress : SUBSET [gw : Gateways, addr : Addrs],
             ingress : SUBSET [gw : Gateways, port : SvcPorts]]
GwSpecs == [egress  : SUBSET [of : ExternalServices, ip : IPs, addr : Addrs],
            ingress : SUBSET [of : ExternalServices, ip : IPs, port : SvcPorts]]
Ats == {"idle", "forwarder", "pod", "egress", "ingress", "get", "list", "gateways"}

\* Every variable has its type, and no rule is generated for what is no gateway.
TypeOK ==
    /\ spec \in [ExternalServices -> Specs] /\ specCache \in [ExternalServices -> Specs]
    /\ eps \in [SourceServices -> SUBSET Addrs] /\ epsCache \in [SourceServices -> SUBSET Addrs]
    /\ ports \in [SourceServices -> SUBSET SvcPorts]
    /\ portsCache \in [SourceServices -> SUBSET SvcPorts]
    /\ podIP \in [ExternalServices -> IPs] /\ podCache \in [ExternalServices -> IPs]
    /\ fwds \in [ExternalServices -> FwdSpecs] /\ fwdCache \in [ExternalServices -> FwdSpecs]
    /\ gws \in [Gateways -> GwSpecs] /\ gwCache \in [Gateways -> GwSpecs]
    /\ esNotes \subseteq ExternalServices /\ podNotes \subseteq ExternalServices
    /\ epNotes \subseteq SourceServices /\ queue \subseteq ExternalServices
    /\ at \in Ats /\ cur \in ExternalServices /\ cr \in Specs
    /\ new \in FwdSpecs /\ list \in [ExternalServices -> FwdSpecs]
    /\ at \in {"egress", "ingress"} => todo \subseteq cr
    /\ at \in {"list", "gateways"} => todo \subseteq Gateways
    /\ at \notin {"egress", "ingress", "list", "gateways"} => todo = {}
    /\ changes \in 0..MaxChanges /\ faults \in 0..MaxFaults

\* The forwarder has the egress rules and the address that the inputs ask for.
Follows(e) ==
    /\ fwds[e].ip = podIP[e]
    /\ fwds[e].egress = genForwarderEgressRules(spec[e], eps)

\* The operator's copy of one of these inputs is out of date: an event is on
\* its way.
Lags(e) ==
    \/ specCache[e] # spec[e] \/ podCache[e] # podIP[e]
    \/ \E s \in spec[e] : epsCache[s.service] # eps[s.service]

\* The operator will look at the ExternalService.
Woken(e) ==
    \/ e \in queue \cup esNotes \cup podNotes
    \/ \E s \in specCache[e] : s.service \in epNotes

\* It is about to write the forwarder.
Generating(e) == cur = e /\ at \in {"forwarder", "pod", "egress", "ingress"}

\* A forwarder that does not follow its sources, their endpoints or its pod will
\* be looked at again: no order in which these change, get into the caches, are
\* read one after the other by a reconcile and are mapped by way of an old list of
\* ExternalServices leaves a forwarder out of date with nothing on its way.
NoStaleForwarder ==
    \A e \in ExternalServices : Follows(e) \/ Lags(e) \/ Woken(e) \/ Generating(e)

\* Its parts, stated of the caches, with what a reconcile has read so far.
FollowsCache(e) ==
    fwds[e].ip = podCache[e] /\ fwds[e].egress = genForwarderEgressRules(specCache[e], epsCache)
ReadInv ==
    Woken(cur) \/
    /\ cr = specCache[cur]
    /\ at \in {"egress", "ingress"} => new.ip = podCache[cur]
    /\ at = "egress" => new.egress = genForwarderEgressRules(cr \ todo, epsCache)
    /\ at = "ingress" => new.egress = genForwarderEgressRules(cr, epsCache)
NewInv == at \in {"idle", "forwarder", "pod"} => new = NoRules
CacheInv ==
    \A e \in ExternalServices : FollowsCache(e) \/ Woken(e) \/ Generating(e)
IInv ==
    TypeOK /\ NewInv /\ CacheInv /\ (Generating(cur) => ReadInv)

\* Only whole specs are written: a forwarder that has rules has the address of its pod,
\* and no rule, of a forwarder or of a gateway, names a gateway that is no IP address,
\* although only the loop over the egress rules looks at the names, and a source without
\* endpoints has ingress rules only.
NamesGood(rules) == \A r \in rules : r.gw \notin BadGateways
OnlyWhole(fwd) ==
    /\ NamesGood(fwd.egress) /\ NamesGood(fwd.ingress)
    /\ fwd.ip = NoIP => fwd = NoRules
OnlyWholeWritten ==
    /\ \A e \in ExternalServices : OnlyWhole(fwds[e])
    /\ \A g \in BadGateways : gws[g] = [egress |-> {}, ingress |-> {}]

\* The inductive invariant behind it: the copies, and the reconcile at its line.
WholeInv ==
    /\ OnlyWholeWritten
    /\ \A e \in ExternalServices : OnlyWhole(fwdCache[e])
    /\ OnlyWhole(new)
    /\ at \in {"egress", "ingress"} => new.ip # NoIP
    /\ at = "egress" => NamesGood(cr \ todo)
    /\ at = "ingress" => NamesGood(cr)
    /\ at \in {"list", "gateways"} => todo \cap BadGateways = {}

\* The service can be given rules.
Servable(e) == podIP[e] # NoIP /\ \A s \in spec[e] : s.gw \notin BadGateways

\* The forwarder of a service follows its sources, their endpoints and its pod,
\* without a resync and whatever other services fail for ever.
ForwarderFollows ==
    \A e \in ExternalServices : <>[]Servable(e) => <>[]Follows(e)

\* The gateways that the forwarder's ingress rules name have exactly its rules.
OfService(rules, e) == { r \in rules : r.of = e }
Mirrored(e) ==
    \A g \in { r.gw : r \in fwds[e].ingress } :
        /\ OfService(gws[g].egress, e) = OfService(genGatewayRules(fwds, g).egress, e)
        /\ OfService(gws[g].ingress, e) = OfService(genGatewayRules(fwds, g).ingress, e)

\* What nobody is woken for, the ports of source services and the forwarders that
\* gateways are written from, is followed with the help of resyncs: every gateway
\* that the ingress rules name has the last rules in the end.
GatewaysFollow ==
    \A e \in ExternalServices :
        (<>[]Servable(e) /\ []<><<Resync(e)>>_vars) =>
            <>[](/\ fwds[e].ingress = genForwarderIngressRules(spec[e], ports)
                 /\ Mirrored(e))

\* README.md:19, of the operator: "keep configurations for forwarder and gateway
\* up-to-date". No gateway keeps rules that no forwarder has any more.
GatewaysUpToDate ==
    (\A e \in ExternalServices : <>[]Servable(e) /\ []<><<Resync(e)>>_vars) =>
        <>[](\A g \in Gateways : gws[g] = genGatewayRules(fwds, g))
=============================================================================
