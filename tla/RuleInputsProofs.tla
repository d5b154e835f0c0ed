-------------------------- MODULE RuleInputsProofs --------------------------
(***************************************************************************)
(* For any ExternalServices, sources, gateways and endpoints, any lag of   *)
(* the caches and of the map functions, any faults: a forwarder that does  *)
(* not follow what is watched will be looked at again, and no rule is      *)
(* written for a gateway that is no IP address.                            *)
(***************************************************************************)
EXTENDS RuleInputs, TLAPS

EgressRules  == SUBSET [gw : Gateways, addr : Addrs]
IngressRules == SUBSET [gw : Gateways, port : SvcPorts]

\* The rules are made of values that the inputs have.
LEMMA EgressRulesType ==
    ASSUME NEW S \in SUBSET Sources, NEW f \in [SourceServices -> SUBSET Addrs]
    PROVE  genForwarderEgressRules(S, f) \in EgressRules
  BY DEF genForwarderEgressRules, Sources, EgressRules

LEMMA IngressRulesType ==
    ASSUME NEW S \in SUBSET Sources, NEW f \in [SourceServices -> SUBSET SvcPorts]
    PROVE  genForwarderIngressRules(S, f) \in IngressRules
  BY DEF genForwarderIngressRules, Sources, IngressRules

\* A gateway's rules are made of those of the forwarders listed.
LEMMA GatewayRulesType ==
    ASSUME NEW l \in [ExternalServices -> FwdSpecs], NEW g
    PROVE  genGatewayRules(l, g) \in GwSpecs
  BY DEF genGatewayRules, FwdSpecs, GwSpecs

\* Only the endpoints of the sources matter.
LEMMA EgressRulesOfSources ==
    ASSUME NEW S, NEW f, NEW h, \A s \in S : f[s.service] = h[s.service]
    PROVE  genForwarderEgressRules(S, f) = genForwarderEgressRules(S, h)
  BY DEF genForwarderEgressRules

\* One more source that was gone through adds its rules.
LEMMA EgressRulesGrow ==
    ASSUME NEW S, NEW s, NEW f
    PROVE  genForwarderEgressRules(S \cup {s}, f)
              = genForwarderEgressRules(S, f) \cup genForwarderEgressRules({s}, f)
  BY DEF genForwarderEgressRules

LEMMA EgressRulesOfNothing == ASSUME NEW f PROVE genForwarderEgressRules({}, f) = {}
  BY DEF genForwarderEgressRules

\* A spec under construction, as it is given its address and its rules.
LEMMA SpecGrows ==
    ASSUME NEW n \in FwdSpecs
    PROVE  /\ \A ip \in IPs :
                /\ [n EXCEPT !.ip = ip] \in FwdSpecs
                /\ [n EXCEPT !.ip = ip].ip = ip /\ [n EXCEPT !.ip = ip].egress = n.egress
           /\ \A R \in EgressRules :
                /\ [n EXCEPT !.egress = @ \cup R] \in FwdSpecs
                /\ [n EXCEPT !.egress = @ \cup R].ip = n.ip
                /\ [n EXCEPT !.egress = @ \cup R].egress = n.egress \cup R
           /\ \A R \in IngressRules :
                /\ [n EXCEPT !.ingress = @ \cup R] \in FwdSpecs
                /\ [n EXCEPT !.ingress = @ \cup R].ip = n.ip
                /\ [n EXCEPT !.ingress = @ \cup R].egress = n.egress
  <1> USE DEF FwdSpecs, EgressRules, IngressRules
  <1>1. ASSUME NEW ip \in IPs
        PROVE  /\ [n EXCEPT !.ip = ip] \in FwdSpecs
               /\ [n EXCEPT !.ip = ip].ip = ip /\ [n EXCEPT !.ip = ip].egress = n.egress
    OBVIOUS
  <1>2. ASSUME NEW R \in EgressRules
        PROVE  /\ [n EXCEPT !.egress = @ \cup R] \in FwdSpecs
               /\ [n EXCEPT !.egress = @ \cup R].ip = n.ip
               /\ [n EXCEPT !.egress = @ \cup R].egress = n.egress \cup R
    OBVIOUS
  <1>3. ASSUME NEW R \in IngressRules
        PROVE  /\ [n EXCEPT !.ingress = @ \cup R] \in FwdSpecs
               /\ [n EXCEPT !.ingress = @ \cup R].ip = n.ip
               /\ [n EXCEPT !.ingress = @ \cup R].egress = n.egress
    OBVIOUS
  <1> QED BY <1>1, <1>2, <1>3

LEMMA NoRulesType == NoRules \in FwdSpecs /\ NoRules.egress = {}
  BY DEF NoRules, FwdSpecs, IPs

-----------------------------------------------------------------------------
(* Types, part by part: a step disturbs few of them.                        *)

InputsType ==
    /\ spec \in [ExternalServices -> Specs] /\ specCache \in [ExternalServices -> Specs]
    /\ eps \in [SourceServices -> SUBSET Addrs] /\ epsCache \in [SourceServices -> SUBSET Addrs]
    /\ ports \in [SourceServices -> SUBSET SvcPorts]
    /\ portsCache \in [SourceServices -> SUBSET SvcPorts]
    /\ podIP \in [ExternalServices -> IPs] /\ podCache \in [ExternalServices -> IPs]

OutputsType ==
    /\ fwds \in [ExternalServices -> FwdSpecs] /\ fwdCache \in [ExternalServices -> FwdSpecs]
    /\ gws \in [Gateways -> GwSpecs] /\ gwCache \in [Gateways -> GwSpecs]

NotesType ==
    /\ esNotes \subseteq ExternalServices /\ podNotes \subseteq ExternalServices
    /\ epNotes \subseteq SourceServices /\ queue \subseteq ExternalServices

ReconcileType ==
    /\ at \in Ats /\ cur \in ExternalServices /\ cr \in Specs
    /\ new \in FwdSpecs /\ list \in [ExternalServices -> FwdSpecs]
    /\ at \in {"egress", "ingress"} => todo \subseteq cr
    /\ at \in {"list", "gateways"} => todo \subseteq Gateways
    /\ at \notin {"egress", "ingress", "list", "gateways"} => todo = {}

BoundsType == changes \in 0..MaxChanges /\ faults \in 0..MaxFaults

LEMMA Parts ==
    TypeOK <=> InputsType /\ OutputsType /\ NotesType /\ ReconcileType /\ BoundsType
  BY DEF TypeOK, InputsType, OutputsType, NotesType, ReconcileType, BoundsType

\* The steps by what they touch: those of a reconcile, those of a cache or a map
\* function, and the rest.
CacheStep ==
    \/ \E e \in ExternalServices : CacheES(e) \/ CachePod(e) \/ CacheForwarder(e)
    \/ \E s \in SourceServices : CacheEndpoints(s) \/ CachePorts(s)
    \/ \E g \in Gateways : CacheGateway(g)
HandleStep ==
    \/ \E e \in ExternalServices : HandleES(e) \/ HandlePod(e) \/ Resync(e)
    \/ \E s \in SourceServices : HandleEndpoints(s)
TakeStep == \E e \in ExternalServices : Take(e)

LEMMA Steps ==
    [Next]_vars <=> \/ ReconcileStep \/ Fail \/ Restart \/ Change
                    \/ TakeStep \/ CacheStep \/ HandleStep \/ UNCHANGED vars
  BY DEF Next, TakeStep, CacheStep, HandleStep

\* A reconcile changes no input; a cache or a map function, nothing of a reconcile.
LEMMA ReconcileFrame ==
    ASSUME ReconcileStep
    PROVE  UNCHANGED <<inputs, inputCache, outCache, notes, bounds>>
  BY DEF ReconcileStep, GetForwarder, GetPod, EndEgress, WriteForwarder, GetGateways,
         ListForwarders, Return, EgressSource, IngressSource, WriteGateway, outputs

LEMMA CacheFrame ==
    ASSUME CacheStep
    PROVE  UNCHANGED <<inputs, outputs, queue, rec, bounds>>
  BY DEF CacheStep, CacheES, CachePod, CacheForwarder, CacheEndpoints, CachePorts, CacheGateway

LEMMA HandleFrame ==
    ASSUME HandleStep
    PROVE  UNCHANGED <<inputs, inputCache, outputs, outCache, rec, bounds>>
  BY DEF HandleStep, HandleES, HandlePod, HandleEndpoints, Resync

LEMMA InputsTypeStep == ASSUME InputsType, [Next]_vars PROVE InputsType'
  <1> USE DEF InputsType, inputs, inputCache
  <1>1. CASE ReconcileStep
    BY <1>1, ReconcileFrame
  <1>2. CASE HandleStep
    BY <1>2, HandleFrame
  <1>3. CASE Fail \/ TakeStep
    BY <1>3 DEF Fail, TakeStep, Take
  <1>4. CASE Restart
    BY <1>4 DEF Restart
  <1>5. CASE Change
    BY <1>5, SourcesAssumption, IPsAssumption DEF Change, Specs, IPs
  <1>6. CASE CacheStep
    BY <1>6 DEF CacheStep, CacheES, CachePod, CacheForwarder, CacheEndpoints, CachePorts,
                CacheGateway
  <1>7. CASE UNCHANGED vars
    BY <1>7 DEF vars
  <1> QED BY <1>1, <1>2, <1>3, <1>4, <1>5, <1>6, <1>7, Steps

LEMMA OutputsTypeStep == ASSUME OutputsType, ReconcileType, [Next]_vars PROVE OutputsType'
  <1> USE DEF OutputsType, outputs, outCache
  <1>1. CASE ReconcileStep
    <2>1. CASE WriteForwarder
      BY <2>1 DEF WriteForwarder, ReconcileType
    <2>2. ASSUME NEW g \in Gateways, WriteGateway(g) PROVE OutputsType'
      <3>1. genGatewayRules(list, g) \in GwSpecs
        BY GatewayRulesType DEF ReconcileType
      <3> QED BY <2>2, <3>1 DEF WriteGateway
    <2>3. CASE UNCHANGED <<outputs, outCache>>
      BY <2>3
    <2> QED BY <1>1, <2>1, <2>2, <2>3
            DEF ReconcileStep, GetForwarder, GetPod, EndEgress, GetGateways,
                ListForwarders, Return, EgressSource, IngressSource
  <1>2. CASE HandleStep
    BY <1>2, HandleFrame
  <1>3. CASE Fail \/ TakeStep
    BY <1>3 DEF Fail, TakeStep, Take
  <1>4. CASE Restart
    BY <1>4 DEF Restart
  <1>5. CASE Change
    BY <1>5 DEF Change
  <1>6. CASE CacheStep
    BY <1>6 DEF CacheStep, CacheES, CachePod, CacheForwarder, CacheEndpoints, CachePorts,
                CacheGateway
  <1>7. CASE UNCHANGED vars
    BY <1>7 DEF vars
  <1> QED BY <1>1, <1>2, <1>3, <1>4, <1>5, <1>6, <1>7, Steps

LEMMA NotesTypeStep == ASSUME NotesType, ReconcileType, [Next]_vars PROVE NotesType'
  <1> USE DEF NotesType, notes
  <1>1. CASE ReconcileStep
    <2>1. queue' \subseteq ExternalServices
      BY <1>1 DEF ReconcileStep, GetForwarder, GetPod, EndEgress, WriteForwarder, GetGateways,
                  ListForwarders, Return, EgressSource, IngressSource, WriteGateway, Error,
                  ReconcileType
    <2> QED BY <1>1, <2>1, ReconcileFrame
  <1>2. CASE HandleStep
    BY <1>2 DEF HandleStep, HandleES, HandlePod, HandleEndpoints, Resync, PodRequests,
                EndpointsRequests
  <1>3. CASE Fail \/ TakeStep
    BY <1>3 DEF Fail, TakeStep, Take, Error, ReconcileType
  <1>4. CASE Restart
    BY <1>4 DEF Restart
  <1>5. CASE Change
    BY <1>5 DEF Change
  <1>6. CASE CacheStep
    BY <1>6 DEF CacheStep, CacheES, CachePod, CacheForwarder, CacheEndpoints, CachePorts,
                CacheGateway
  <1>7. CASE UNCHANGED vars
    BY <1>7 DEF vars
  <1> QED BY <1>1, <1>2, <1>3, <1>4, <1>5, <1>6, <1>7, Steps

LEMMA BoundsTypeStep == ASSUME BoundsType, [Next]_vars PROVE BoundsType'
  <1> USE BoundsAssumption DEF BoundsType, bounds
  <1>1. CASE ReconcileStep
    BY <1>1, ReconcileFrame
  <1>2. CASE HandleStep
    BY <1>2, HandleFrame
  <1>3. CASE TakeStep
    BY <1>3 DEF TakeStep, Take
  <1>4. CASE Fail
    BY <1>4 DEF Fail
  <1>5. CASE Restart
    BY <1>5 DEF Restart
  <1>6. CASE Change
    BY <1>6 DEF Change
  <1>7. CASE CacheStep
    BY <1>7, CacheFrame
  <1>8. CASE UNCHANGED vars
    BY <1>8 DEF vars
  <1> QED BY <1>1, <1>2, <1>3, <1>4, <1>5, <1>6, <1>7, <1>8, Steps

\* Between reconciles, and after an error, nothing is left of one.
LEMMA IdleType == ASSUME ReconcileType, Idle PROVE ReconcileType'
  BY NoRulesType DEF ReconcileType, Idle, Ats, Specs, NoSpec

LEMMA ReconcileTypeStep ==
    ASSUME InputsType, OutputsType, NotesType, ReconcileType, [Next]_vars
    PROVE  ReconcileType'
  <1> USE DEF ReconcileType, Ats
  <1>1. CASE GetForwarder
    BY <1>1, IdleType DEF GetForwarder, Error
  <1>2. CASE GetPod
    <2>1. CASE Error
      BY <2>1, IdleType DEF Error
    <2>2. CASE ~Error
      <3>1. podCache[cur] \in IPs
        BY DEF InputsType
      <3>2. new' \in FwdSpecs
        BY <1>2, <2>2, <3>1, SpecGrows DEF GetPod
      <3> QED BY <1>2, <2>2, <3>2 DEF GetPod
    <2> QED BY <2>1, <2>2
  <1>3. ASSUME NEW s \in Sources, EgressSource(s) PROVE ReconcileType'
    <2>1. CASE Error
      BY <2>1, IdleType DEF Error
    <2>2. CASE ~Error
      <3>1. genForwarderEgressRules({s}, epsCache) \in EgressRules
        BY EgressRulesType DEF InputsType
      <3>2. new' \in FwdSpecs
        BY <1>3, <2>2, <3>1, SpecGrows DEF EgressSource
      <3> QED BY <1>3, <2>2, <3>2 DEF EgressSource
    <2> QED BY <2>1, <2>2
  <1>4. CASE EndEgress
    BY <1>4 DEF EndEgress
  <1>5. ASSUME NEW s \in Sources, IngressSource(s) PROVE ReconcileType'
    <2>1. genForwarderIngressRules({s}, portsCache) \in IngressRules
      BY IngressRulesType DEF InputsType
    <2>2. new' \in FwdSpecs
      BY <1>5, <2>1, SpecGrows DEF IngressSource
    <2> QED BY <1>5, <2>2 DEF IngressSource
  <1>6. CASE WriteForwarder
    BY <1>6, NoRulesType DEF WriteForwarder
  <1>7. CASE GetGateways
    <2>1. getUniqueGatwey(fwdCache[cur]) \subseteq Gateways
      BY DEF OutputsType, getUniqueGatwey, FwdSpecs
    <2> QED BY <1>7, <2>1 DEF GetGateways
  <1>8. CASE ListForwarders
    BY <1>8 DEF ListForwarders, OutputsType
  <1>9. ASSUME NEW g \in Gateways, WriteGateway(g) PROVE ReconcileType'
    BY <1>9, IdleType DEF WriteGateway, Error
  <1>10. CASE Return \/ Fail \/ Restart
    BY <1>10, IdleType DEF Return, Fail, Restart, Error
  <1>11. CASE TakeStep
    BY <1>11 DEF TakeStep, Take, InputsType
  <1>12. CASE Change \/ CacheStep \/ HandleStep \/ UNCHANGED vars
    BY <1>12, CacheFrame, HandleFrame DEF Change, rec, vars
  <1> QED BY <1>1, <1>2, <1>3, <1>4, <1>5, <1>6, <1>7, <1>8, <1>9, <1>10, <1>11, <1>12, Steps
          DEF ReconcileStep

\* The types at the start, and with every step.
LEMMA TypeInit == Init => TypeOK
  <1> SUFFICES ASSUME Init PROVE TypeOK
    OBVIOUS
  <1>1. InputsType
    BY DEF Init, InputsType, Specs
  <1>2. OutputsType
    <2>1. [egress |-> {}, ingress |-> {}] \in GwSpecs
      BY DEF GwSpecs
    <2> QED BY <2>1, NoRulesType DEF Init, OutputsType
  <1>3. NotesType
    BY DEF Init, NotesType
  <1>4. ReconcileType
    BY NoRulesType DEF Init, ReconcileType, Ats, Specs, NoSpec
  <1>5. BoundsType
    BY BoundsAssumption DEF Init, BoundsType
  <1> QED BY <1>1, <1>2, <1>3, <1>4, <1>5, Parts

LEMMA TypeStep == TypeOK /\ [Next]_vars => TypeOK'
  <1> SUFFICES ASSUME TypeOK, [Next]_vars PROVE TypeOK'
    OBVIOUS
  <1>1. InputsType /\ OutputsType /\ NotesType /\ ReconcileType /\ BoundsType
    BY Parts
  <1>2. (InputsType /\ OutputsType /\ NotesType /\ ReconcileType /\ BoundsType)'
    BY <1>1, InputsTypeStep, OutputsTypeStep, NotesTypeStep, ReconcileTypeStep, BoundsTypeStep
  <1> QED BY <1>2 DEF TypeOK, InputsType, OutputsType, NotesType, ReconcileType, BoundsType

-----------------------------------------------------------------------------
(* Wake-ups: what a reconcile has read is what the caches hold, or it will  *)
(* come back.                                                               *)

Reading == Generating(cur) => ReadInv
Inv == NewInv /\ CacheInv /\ Reading

\* What the invariant is about, apart from the reconcile.
watched == <<specCache, podCache, epsCache, esNotes, podNotes, epNotes, fwds>>

\* Who is woken, and who follows the caches, is unchanged.
LEMMA WatchedSame ==
    ASSUME UNCHANGED watched, queue \subseteq queue', NEW e
    PROVE  /\ Woken(e) => Woken(e)'
           /\ FollowsCache(e) => FollowsCache(e)'
  BY DEF watched, Woken, FollowsCache

\* A step that touches nothing of it.
LEMMA NothingTouched ==
    ASSUME Inv, UNCHANGED <<watched, queue, at, cur, cr, todo, new>>
    PROVE  Inv'
  BY DEF Inv, NewInv, CacheInv, Reading, ReadInv, Generating, watched, Woken, FollowsCache

\* An error brings the ExternalService back.
LEMMA ErrorComesBack ==
    ASSUME Inv, Error, UNCHANGED watched
    PROVE  Inv'
  <1>1. NewInv' /\ Reading'
    BY DEF Error, Idle, NewInv, Reading, Generating
  <1>2. ASSUME NEW e \in ExternalServices PROVE FollowsCache(e)' \/ Woken(e)'
    <2>1. CASE e = cur
      BY <2>1 DEF Error, Woken
    <2>2. CASE e # cur
      <3>1. FollowsCache(e) \/ Woken(e)
        BY <2>2 DEF Inv, CacheInv, Generating
      <3>2. queue \subseteq queue'
        BY DEF Error
      <3> QED BY <3>1, <3>2, WatchedSame
    <2> QED BY <2>1, <2>2
  <1> QED BY <1>1, <1>2 DEF Inv, CacheInv

\* A step of a reconcile that goes on generating rules, for the same service.
LEMMA GoesOn ==
    ASSUME Inv, UNCHANGED <<watched, queue, cur, cr>>,
           at' \in {"forwarder", "pod", "egress", "ingress"},
           at \in {"forwarder", "pod", "egress", "ingress"},
           NewInv', Woken(cur) \/ ReadInv'
    PROVE  Inv'
  <1>1. CacheInv'
    <2> SUFFICES ASSUME NEW e \in ExternalServices
                 PROVE  FollowsCache(e)' \/ Woken(e)' \/ Generating(e)'
      BY DEF CacheInv
    <2>1. Generating(e) => Generating(e)'
      BY DEF Generating
    <2> QED BY <2>1, WatchedSame DEF Inv, CacheInv
  <1>2. Reading'
    <2>1. Woken(cur) => Woken(cur)'
      BY DEF watched, Woken
    <2> QED BY <2>1 DEF Reading, ReadInv
  <1> QED BY <1>1, <1>2 DEF Inv

\* A step of a reconcile that has written the forwarder.
LEMMA HasWritten ==
    ASSUME Inv, UNCHANGED <<watched, queue>>, ~Generating(cur), ~Generating(cur)',
           NewInv'
    PROVE  Inv'
  <1>1. CacheInv'
    <2> SUFFICES ASSUME NEW e \in ExternalServices PROVE FollowsCache(e)' \/ Woken(e)'
      BY DEF CacheInv
    <2>1. ~Generating(e)
      BY DEF Generating
    <2> QED BY <2>1, WatchedSame DEF Inv, CacheInv
  <1> QED BY <1>1 DEF Inv, Reading

\* The reconcile, step by step.
LEMMA ReconcileKeeps == ASSUME TypeOK, Inv, ReconcileStep PROVE Inv'
  <1>0. /\ UNCHANGED <<inputCache, notes>> /\ UNCHANGED <<specCache, podCache, epsCache>>
        /\ UNCHANGED <<esNotes, podNotes, epNotes>>
    BY ReconcileFrame DEF inputCache, notes
  <1>1. CASE GetForwarder
    <2>1. CASE Error
      BY <1>0, <1>1, <2>1, ErrorComesBack DEF GetForwarder, outputs, watched
    <2>2. CASE ~Error
      <3>1. /\ UNCHANGED <<watched, queue, cur, cr>> /\ at = "forwarder" /\ at' = "pod"
            /\ new' = new
        BY <1>0, <1>1, <2>2 DEF GetForwarder, outputs, watched
      <3>2. NewInv' /\ (Woken(cur) \/ ReadInv')
        BY <3>1 DEF Inv, NewInv, Reading, ReadInv, Generating, watched
      <3> QED BY <3>1, <3>2, GoesOn
    <2> QED BY <2>1, <2>2
  <1>2. CASE GetPod
    <2>1. CASE Error
      BY <1>0, <1>2, <2>1, ErrorComesBack DEF GetPod, outputs, watched
    <2>2. CASE ~Error
      <3>1. /\ UNCHANGED <<watched, queue, cur, cr>> /\ at = "pod" /\ at' = "egress"
            /\ new' = [new EXCEPT !.ip = podCache[cur]] /\ todo' = cr
        BY <1>0, <1>2, <2>2 DEF GetPod, outputs, watched
      <3>2. new = NoRules /\ podCache[cur] \in IPs
        BY <3>1 DEF Inv, NewInv, TypeOK
      <3>3. new'.ip = podCache[cur] /\ new'.egress = {}
        BY <3>1, <3>2, NoRulesType, SpecGrows
      <3>4. genForwarderEgressRules(cr \ cr, epsCache) = {}
        <4>1. cr \ cr = {}
          OBVIOUS
        <4> QED BY <4>1, EgressRulesOfNothing
      <3>5. NewInv' /\ (Woken(cur) \/ ReadInv')
        BY <3>1, <3>3, <3>4 DEF Inv, NewInv, Reading, ReadInv, Generating, watched
      <3> QED BY <3>1, <3>5, GoesOn
    <2> QED BY <2>1, <2>2
  <1>3. ASSUME NEW s \in Sources, EgressSource(s) PROVE Inv'
    <2>1. CASE Error
      BY <1>0, <1>3, <2>1, ErrorComesBack DEF EgressSource, outputs, watched
    <2>2. CASE ~Error
      <3> DEFINE R == genForwarderEgressRules({s}, epsCache)
      <3>1. /\ UNCHANGED <<watched, queue, cur, cr>> /\ at = "egress" /\ at' = "egress"
            /\ new' = [new EXCEPT !.egress = @ \cup R] /\ todo' = todo \ {s} /\ s \in todo
        BY <1>0, <1>3, <2>2 DEF EgressSource, outputs, watched
      <3>2. R \in EgressRules
        BY EgressRulesType DEF TypeOK
      <3>3. new'.ip = new.ip /\ new'.egress = new.egress \cup R
        BY <3>1, <3>2, SpecGrows DEF TypeOK
      <3>4. genForwarderEgressRules(cr \ (todo \ {s}), epsCache)
              = genForwarderEgressRules(cr \ todo, epsCache) \cup R
        <4>1. s \in todo /\ todo \subseteq cr
          BY <3>1 DEF TypeOK
        <4>2. cr \ (todo \ {s}) = (cr \ todo) \cup {s}
          BY <4>1
        <4>3. genForwarderEgressRules((cr \ todo) \cup {s}, epsCache)
                = genForwarderEgressRules(cr \ todo, epsCache) \cup R
          BY EgressRulesGrow
        <4> QED BY <4>2, <4>3, Zenon
      <3> HIDE DEF R
      <3>5. NewInv' /\ (Woken(cur) \/ ReadInv')
        BY <3>1, <3>3, <3>4 DEF Inv, NewInv, Reading, ReadInv, Generating, watched
      <3> QED BY <3>1, <3>5, GoesOn
    <2> QED BY <2>1, <2>2
  <1>4. CASE EndEgress
    <2>1. /\ UNCHANGED <<watched, queue, cur, cr, new>> /\ at = "egress" /\ at' = "ingress"
          /\ todo = {}
      BY <1>0, <1>4 DEF EndEgress, outputs, watched
    <2>2. cr \ todo = cr
      BY <2>1
    <2>3. NewInv' /\ (Woken(cur) \/ ReadInv')
      BY <2>1, <2>2 DEF Inv, NewInv, Reading, ReadInv, Generating, watched
    <2> QED BY <2>1, <2>3, GoesOn
  <1>5. ASSUME NEW s \in Sources, IngressSource(s) PROVE Inv'
    <2> DEFINE R == genForwarderIngressRules({s}, portsCache)
    <2>1. /\ UNCHANGED <<watched, queue, cur, cr>> /\ at = "ingress" /\ at' = "ingress"
          /\ new' = [new EXCEPT !.ingress = @ \cup R]
      BY <1>0, <1>5 DEF IngressSource, outputs, watched
    <2>2. R \in IngressRules
      BY IngressRulesType DEF TypeOK
    <2>3. new'.ip = new.ip /\ new'.egress = new.egress
      BY <2>1, <2>2, SpecGrows DEF TypeOK
    <2> HIDE DEF R
    <2>4. NewInv' /\ (Woken(cur) \/ ReadInv')
      BY <2>1, <2>3 DEF Inv, NewInv, Reading, ReadInv, Generating, watched
    <2> QED BY <2>1, <2>4, GoesOn
  <1>6. CASE WriteForwarder
    <2>1. /\ at = "ingress" /\ at' = "get" /\ cur' = cur /\ queue' = queue
          /\ fwds' = [fwds EXCEPT ![cur] = new] /\ cur \in ExternalServices
          /\ fwds \in [ExternalServices -> FwdSpecs]
      BY <1>6 DEF WriteForwarder, TypeOK
    <2>2. NewInv' /\ Reading'
      BY <2>1 DEF NewInv, Reading, Generating
    <2>3. ASSUME NEW e \in ExternalServices PROVE FollowsCache(e)' \/ Woken(e)'
      <3>1. Woken(e) => Woken(e)'
        BY <1>0, <2>1 DEF Woken
      <3>2. CASE e = cur
        <4>1. Woken(cur) \/ (new.ip = podCache[cur]
                             /\ new.egress = genForwarderEgressRules(specCache[cur], epsCache))
          BY <2>1 DEF Inv, Reading, ReadInv, Generating
        <4>2. fwds'[cur] = new
          BY <2>1
        <4> QED BY <1>0, <3>1, <3>2, <4>1, <4>2 DEF FollowsCache
      <3>3. CASE e # cur
        <4>1. fwds'[e] = fwds[e] /\ ~Generating(e)
          BY <2>1, <3>3 DEF Generating
        <4> QED BY <1>0, <3>1, <4>1 DEF Inv, CacheInv, FollowsCache
      <3> QED BY <3>2, <3>3
    <2> QED BY <2>2, <2>3 DEF Inv, CacheInv
  <1>7. CASE GetGateways \/ ListForwarders \/ Return
    <2>1. /\ UNCHANGED <<watched, queue>> /\ ~Generating(cur) /\ ~Generating(cur)' /\ NewInv'
      BY <1>0, <1>7 DEF GetGateways, ListForwarders, Return, Idle, Generating, NewInv, outputs, watched
    <2> QED BY <2>1, HasWritten
  <1>8. ASSUME NEW g \in Gateways, WriteGateway(g) PROVE Inv'
    <2>1. CASE Error
      BY <1>0, <1>8, <2>1, ErrorComesBack DEF WriteGateway, watched
    <2>2. CASE ~Error
      <3>1. /\ UNCHANGED <<watched, queue>> /\ ~Generating(cur) /\ ~Generating(cur)' /\ NewInv'
        BY <1>0, <1>8, <2>2 DEF WriteGateway, Generating, NewInv, watched
      <3> QED BY <3>1, HasWritten
    <2> QED BY <2>1, <2>2
  <1> QED BY <1>1, <1>2, <1>3, <1>4, <1>5, <1>6, <1>7, <1>8 DEF ReconcileStep

\* A request that is taken is the one the reconcile is about.
LEMMA TakeKeeps == ASSUME Inv, NEW e \in ExternalServices, Take(e) PROVE Inv'
  <1>1. NewInv'
    BY DEF Take, Inv, NewInv
  <1>2. Reading'
    BY DEF Take, Reading, ReadInv, inputCache
  <1>3. ASSUME NEW x \in ExternalServices
        PROVE  FollowsCache(x)' \/ Woken(x)' \/ Generating(x)'
    <2>1. CASE x = e
      BY <2>1 DEF Take, Generating
    <2>2. CASE x # e
      <3>1. FollowsCache(x) \/ Woken(x)
        BY DEF Inv, CacheInv, Take, Generating
      <3>2. FollowsCache(x) => FollowsCache(x)'
        BY DEF Take, FollowsCache, inputCache, outputs
      <3>3. Woken(x) => Woken(x)'
        BY <2>2 DEF Take, Woken, inputCache, notes
      <3> QED BY <3>1, <3>2, <3>3
    <2> QED BY <2>1, <2>2
  <1> QED BY <1>1, <1>2, <1>3 DEF Inv, CacheInv

\* What gets into a cache is handed to a map function later.
LEMMA CacheKeeps == ASSUME TypeOK, Inv, CacheStep PROVE Inv'
  <1>0. UNCHANGED <<fwds, queue, at, cur, cr, todo, new>>
    BY CacheFrame DEF outputs, rec
  <1>1. ASSUME NEW e \in ExternalServices, CacheES(e) PROVE Inv'
    <2>1. /\ \A x \in ExternalServices : x # e => specCache'[x] = specCache[x]
          /\ UNCHANGED <<podCache, epsCache, podNotes, epNotes>> /\ esNotes' = esNotes \cup {e}
      BY <1>1 DEF CacheES, TypeOK
    <2>2. ASSUME NEW x \in ExternalServices, x # e
          PROVE  (Woken(x) => Woken(x)') /\ (FollowsCache(x) => FollowsCache(x)')
      BY <1>0, <2>1, <2>2 DEF Woken, FollowsCache
    <2>3. Woken(e)'
      BY <2>1 DEF Woken
    <2>4. CacheInv' /\ NewInv'
      BY <1>0, <2>2, <2>3 DEF Inv, CacheInv, NewInv, Generating
    <2>5. Reading'
      <3>1. CASE cur = e
        BY <1>0, <2>3, <3>1 DEF Reading, ReadInv
      <3>2. CASE cur # e
        <4>1. cur \in ExternalServices /\ specCache'[cur] = specCache[cur]
          BY <2>1, <3>2 DEF TypeOK
        <4>2. Woken(cur) => Woken(cur)'
          BY <1>0, <2>1, <4>1 DEF Woken
        <4> QED BY <1>0, <2>1, <4>1, <4>2 DEF Inv, Reading, ReadInv, Generating
      <3> QED BY <3>1, <3>2
    <2> QED BY <2>4, <2>5 DEF Inv
  <1>2. ASSUME NEW e \in ExternalServices, CachePod(e) PROVE Inv'
    <2>1. /\ \A x \in ExternalServices : x # e => podCache'[x] = podCache[x]
          /\ UNCHANGED <<specCache, epsCache, esNotes, epNotes>> /\ podNotes' = podNotes \cup {e}
      BY <1>2 DEF CachePod, TypeOK
    <2>2. ASSUME NEW x \in ExternalServices, x # e
          PROVE  (Woken(x) => Woken(x)') /\ (FollowsCache(x) => FollowsCache(x)')
      BY <1>0, <2>1, <2>2 DEF Woken, FollowsCache
    <2>3. Woken(e)'
      BY <2>1 DEF Woken
    <2>4. CacheInv' /\ NewInv'
      BY <1>0, <2>2, <2>3 DEF Inv, CacheInv, NewInv, Generating
    <2>5. Reading'
      <3>1. CASE cur = e
        BY <1>0, <2>3, <3>1 DEF Reading, ReadInv
      <3>2. CASE cur # e
        <4>1. cur \in ExternalServices /\ podCache'[cur] = podCache[cur]
          BY <2>1, <3>2 DEF TypeOK
        <4>2. Woken(cur) => Woken(cur)'
          BY <1>0, <2>1 DEF Woken
        <4> QED BY <1>0, <2>1, <4>1, <4>2 DEF Inv, Reading, ReadInv, Generating
      <3> QED BY <3>1, <3>2
    <2> QED BY <2>4, <2>5 DEF Inv
  <1>3. ASSUME NEW s \in SourceServices, CacheEndpoints(s) PROVE Inv'
    <2>1. /\ \A u \in SourceServices : u # s => epsCache'[u] = epsCache[u]
          /\ UNCHANGED <<specCache, podCache, esNotes, podNotes>> /\ epNotes' = epNotes \cup {s}
      BY <1>3 DEF CacheEndpoints, TypeOK
    <2>2. ASSUME NEW x \in ExternalServices, ~Woken(x)'
          PROVE  /\ ~Woken(x)
                 /\ \A S \in SUBSET specCache[x] :
                       genForwarderEgressRules(S, epsCache') = genForwarderEgressRules(S, epsCache)
      <3>1. ~Woken(x) /\ \A src \in specCache[x] : src.service # s
        BY <1>0, <2>1, <2>2 DEF Woken
      <3>2. \A src \in specCache[x] : src.service \in SourceServices
        BY DEF TypeOK, Specs, Sources
      <3>3. ASSUME NEW S \in SUBSET specCache[x]
            PROVE  genForwarderEgressRules(S, epsCache') = genForwarderEgressRules(S, epsCache)
        <4>1. \A src \in S : epsCache'[src.service] = epsCache[src.service]
          BY <2>1, <3>1, <3>2
        <4> QED BY <4>1, EgressRulesOfSources
      <3> QED BY <3>1, <3>3
    <2>3. ASSUME NEW x \in ExternalServices
          PROVE  FollowsCache(x)' \/ Woken(x)' \/ Generating(x)'
      <3>1. CASE ~Woken(x)'
        <4>1. genForwarderEgressRules(specCache[x], epsCache')
                = genForwarderEgressRules(specCache[x], epsCache)
          BY <2>2, <3>1
        <4>2. FollowsCache(x) => FollowsCache(x)'
          BY <1>0, <2>1, <4>1 DEF FollowsCache
        <4>3. Generating(x) => Generating(x)'
          BY <1>0 DEF Generating
        <4> QED BY <2>2, <3>1, <4>2, <4>3 DEF Inv, CacheInv
      <3> QED BY <3>1
    <2>4. NewInv'
      BY <1>0 DEF Inv, NewInv
    <2>5. Reading'
      <3>1. CASE ~Woken(cur)' /\ Generating(cur)'
        <4>1. cur \in ExternalServices
          BY DEF TypeOK
        <4>2. /\ Generating(cur) /\ ~Woken(cur) /\ cr = specCache[cur]
              /\ at \in {"egress", "ingress"} => new.ip = podCache[cur]
              /\ at = "egress" => new.egress = genForwarderEgressRules(cr \ todo, epsCache)
              /\ at = "ingress" => new.egress = genForwarderEgressRules(cr, epsCache)
          BY <1>0, <2>2, <3>1, <4>1 DEF Inv, Reading, ReadInv, Generating
        <4>3. /\ genForwarderEgressRules(cr \ todo, epsCache')
                   = genForwarderEgressRules(cr \ todo, epsCache)
              /\ genForwarderEgressRules(cr, epsCache') = genForwarderEgressRules(cr, epsCache)
          <5>1. cr \ todo \in SUBSET specCache[cur] /\ cr \in SUBSET specCache[cur]
            BY <4>2
          <5>2. cur' = cur
            BY <1>0
          <5> QED BY <2>2, <3>1, <4>1, <5>1, <5>2
        <4> QED BY <1>0, <2>1, <4>2, <4>3 DEF Reading, ReadInv
      <3>2. CASE Woken(cur)' \/ ~Generating(cur)'
        BY <1>0, <3>2 DEF Reading, ReadInv
      <3> QED BY <3>1, <3>2
    <2> QED BY <2>3, <2>4, <2>5 DEF Inv, CacheInv
  <1>4. CASE \/ \E e \in ExternalServices : CacheForwarder(e)
             \/ \E s \in SourceServices : CachePorts(s)
             \/ \E g \in Gateways : CacheGateway(g)
    <2>1. UNCHANGED watched
      BY <1>0, <1>4 DEF CacheForwarder, CachePorts, CacheGateway, inputCache, notes, watched
    <2> QED BY <1>0, <2>1, NothingTouched
  <1> QED BY <1>1, <1>2, <1>3, <1>4 DEF CacheStep

\* A map function hands on whom it wakes: those who were woken still are.
LEMMA HandleKeeps == ASSUME TypeOK, Inv, HandleStep PROVE Inv'
  <1>0. UNCHANGED <<fwds, specCache, podCache, epsCache, at, cur, cr, todo, new>>
    BY HandleFrame DEF outputs, inputCache, rec
  <1>1. ASSUME NEW x \in ExternalServices, Woken(x) PROVE Woken(x)'
    <2>1. ASSUME NEW e \in ExternalServices, HandleES(e) \/ HandlePod(e) \/ Resync(e)
          PROVE  Woken(x)'
      BY <1>0, <1>1, <2>1 DEF HandleES, HandlePod, Resync, PodRequests, Woken, notes
    <2>2. ASSUME NEW s \in SourceServices, HandleEndpoints(s) PROVE Woken(x)'
      BY <1>0, <1>1, <2>2 DEF HandleEndpoints, EndpointsRequests, Woken
    <2> QED BY <2>1, <2>2 DEF HandleStep
  <1>2. ASSUME NEW x \in ExternalServices
        PROVE  (FollowsCache(x) => FollowsCache(x)') /\ (Generating(x) <=> Generating(x)')
    BY <1>0 DEF FollowsCache, Generating
  <1>3. CacheInv' /\ NewInv'
    BY <1>0, <1>1, <1>2 DEF Inv, CacheInv, NewInv
  <1>4. Reading'
    <2>1. cur \in ExternalServices
      BY DEF TypeOK
    <2> QED BY <1>0, <1>1, <1>2, <2>1 DEF Inv, Reading, ReadInv
  <1> QED BY <1>3, <1>4 DEF Inv

\* After a restart everything is handed out anew.
LEMMA RestartKeeps == ASSUME Restart PROVE Inv'
  <1>1. \A e \in ExternalServices : Woken(e)'
    BY DEF Restart, Woken
  <1>2. at' = "idle" /\ new' = NoRules
    BY DEF Restart, Idle
  <1> QED BY <1>1, <1>2 DEF Inv, CacheInv, NewInv, Reading, Generating

LEMMA InvStep == ASSUME TypeOK, Inv, [Next]_vars PROVE Inv'
  <1>1. CASE Fail
    BY <1>1, ErrorComesBack DEF Fail, inputCache, outputs, notes, watched
  <1>2. CASE Change \/ UNCHANGED vars
    BY <1>2, NothingTouched DEF Change, vars, inputCache, outputs, notes, rec, watched
  <1> QED BY <1>1, <1>2, ReconcileKeeps, RestartKeeps, TakeKeeps, CacheKeeps, HandleKeeps, Steps
          DEF TakeStep

-----------------------------------------------------------------------------
\* The inductive invariant: at every line of a reconcile, what it has read and
\* generated is what the caches hold, or the service is woken again.
THEOREM Invariance == Spec => []IInv
  <1>1. Init => Inv
    BY DEF Init, Inv, NewInv, CacheInv, Reading, Generating, Woken
  <1>2. TypeOK /\ Inv <=> IInv
    BY DEF IInv, Inv, Reading
  <1>3. TypeOK /\ Inv /\ [Next]_vars => (TypeOK /\ Inv)'
    BY TypeStep, InvStep
  <1>4. Init => TypeOK
    BY TypeInit
  <1> QED BY <1>1, <1>2, <1>3, <1>4, PTL DEF Spec

\* Every variable has its type, and no rule is generated for what is no gateway.
THEOREM TypeCorrect == Spec => []TypeOK
  <1>1. IInv => TypeOK
    BY DEF IInv
  <1> QED BY <1>1, Invariance, PTL

\* A forwarder that does not follow its sources, their endpoints or its pod is looked
\* at again, in whatever order these change, get into the caches and are read.
THEOREM ForwardersAreNotLeftStale == Spec => []NoStaleForwarder
  <1>1. IInv => NoStaleForwarder
    <2> SUFFICES ASSUME IInv, NEW e \in ExternalServices, ~Lags(e), FollowsCache(e)
                 PROVE  Follows(e)
      BY DEF IInv, CacheInv, NoStaleForwarder
    <2>1. /\ specCache[e] = spec[e] /\ podCache[e] = podIP[e]
          /\ \A s \in spec[e] : epsCache[s.service] = eps[s.service]
      BY DEF Lags
    <2>2. genForwarderEgressRules(spec[e], epsCache) = genForwarderEgressRules(spec[e], eps)
      BY <2>1, EgressRulesOfSources
    <2> QED BY <2>1, <2>2 DEF FollowsCache, Follows
  <1> QED BY <1>1, Invariance, PTL

-----------------------------------------------------------------------------
(* Names: a source whose gateway is no IP address stops the reconcile       *)
(* before anything is written.                                              *)

\* The rules of a source name its gateway.
LEMMA RulesNameTheirGateway ==
    ASSUME NEW s, s.gw \notin BadGateways, NEW f
    PROVE  NamesGood(genForwarderEgressRules({s}, f)) /\ NamesGood(genForwarderIngressRules({s}, f))
  BY DEF NamesGood, genForwarderEgressRules, genForwarderIngressRules

\* A spec under construction that has its address stays whole.
LEMMA WholeGrows ==
    ASSUME NEW n \in FwdSpecs, OnlyWhole(n)
    PROVE  /\ \A ip \in IPs : ip # NoIP =>
                /\ OnlyWhole([n EXCEPT !.ip = ip]) /\ [n EXCEPT !.ip = ip].ip # NoIP
           /\ \A R \in EgressRules : n.ip # NoIP /\ NamesGood(R) =>
                /\ OnlyWhole([n EXCEPT !.egress = @ \cup R])
                /\ [n EXCEPT !.egress = @ \cup R].ip # NoIP
           /\ \A R \in IngressRules : n.ip # NoIP /\ NamesGood(R) =>
                /\ OnlyWhole([n EXCEPT !.ingress = @ \cup R])
                /\ [n EXCEPT !.ingress = @ \cup R].ip # NoIP
  BY DEF OnlyWhole, NamesGood, FwdSpecs, EgressRules, IngressRules

LEMMA NoRulesWhole == OnlyWhole(NoRules)
  BY DEF OnlyWhole, NamesGood, NoRules

\* What is written is not touched by a reconcile that ends.
LEMMA IdleKeepsWhole ==
    ASSUME WholeInv, Idle, UNCHANGED <<fwds, gws, fwdCache>>
    PROVE  WholeInv'
  BY NoRulesWhole DEF WholeInv, OnlyWholeWritten, Idle

\* The reconcile checks the names before it writes, and goes through the gateways that
\* the Forwarder names.
LEMMA ReconcileKeepsWhole ==
    ASSUME TypeOK, WholeInv, ReconcileStep
    PROVE  WholeInv'
  <1> USE DEF WholeInv, OnlyWholeWritten
  <1>0. /\ InputsType /\ OutputsType /\ ReconcileType /\ UNCHANGED fwdCache
    BY Parts, ReconcileFrame DEF outCache
  <1>1. CASE GetForwarder
    BY <1>1, <1>0, IdleKeepsWhole DEF GetForwarder, Error, outputs
  <1>2. CASE GetPod
    <2>1. CASE Error
      BY <1>0, <1>2, <2>1, IdleKeepsWhole DEF GetPod, Error, outputs
    <2>2. CASE ~Error
      <3>1. podCache[cur] \in IPs /\ podCache[cur] # NoIP
        BY <1>0, <1>2, <2>2 DEF InputsType, ReconcileType, GetPod
      <3>2. OnlyWhole(new') /\ new'.ip # NoIP
        BY <1>0, <1>2, <2>2, <3>1, WholeGrows DEF GetPod, ReconcileType
      <3>3. NamesGood(cr' \ todo') /\ at' = "egress" /\ UNCHANGED outputs
        BY <1>2, <2>2 DEF GetPod, NamesGood
      <3> QED BY <1>0, <3>2, <3>3 DEF outputs
    <2> QED BY <2>1, <2>2
  <1>3. ASSUME NEW s \in Sources, EgressSource(s) PROVE WholeInv'
    <2>1. CASE Error
      BY <1>0, <1>3, <2>1, IdleKeepsWhole DEF EgressSource, Error, outputs
    <2>2. CASE ~Error
      <3>1. /\ s.gw \notin BadGateways /\ at = "egress" /\ at' = "egress"
            /\ cr' = cr /\ todo' = todo \ {s} /\ UNCHANGED outputs
            /\ new' = [new EXCEPT !.egress = @ \cup genForwarderEgressRules({s}, epsCache)]
        BY <1>3, <2>2 DEF EgressSource
      <3>2. genForwarderEgressRules({s}, epsCache) \in EgressRules
        BY <1>0, EgressRulesType DEF InputsType
      <3>3. OnlyWhole(new') /\ new'.ip # NoIP
        BY <1>0, <3>1, <3>2, RulesNameTheirGateway, WholeGrows DEF ReconcileType
      <3>4. NamesGood(cr' \ todo')
        BY <3>1 DEF NamesGood
      <3> QED BY <1>0, <3>1, <3>3, <3>4 DEF outputs
    <2> QED BY <2>1, <2>2
  <1>4. CASE EndEgress
    BY <1>0, <1>4 DEF EndEgress, NamesGood, outputs
  <1>5. ASSUME NEW s \in Sources, IngressSource(s) PROVE WholeInv'
    <2>1. /\ at = "ingress" /\ at' = "ingress" /\ s \in cr /\ cr' = cr /\ UNCHANGED outputs
          /\ new' = [new EXCEPT !.ingress = @ \cup genForwarderIngressRules({s}, portsCache)]
      BY <1>0, <1>5 DEF IngressSource, ReconcileType
    <2>2. s.gw \notin BadGateways
      BY <2>1 DEF NamesGood
    <2>3. genForwarderIngressRules({s}, portsCache) \in IngressRules
      BY <1>0, IngressRulesType DEF InputsType
    <2>4. OnlyWhole(new') /\ new'.ip # NoIP
      BY <1>0, <2>1, <2>2, <2>3, RulesNameTheirGateway, WholeGrows DEF ReconcileType
    <2> QED BY <1>0, <2>1, <2>4 DEF outputs
  <1>6. CASE WriteForwarder
    <2>1. \A e \in ExternalServices : fwds'[e] = IF e = cur THEN new ELSE fwds[e]
      BY <1>0, <1>6 DEF WriteForwarder, OutputsType
    <2> QED BY <1>0, <1>6, <2>1, NoRulesWhole DEF WriteForwarder
  <1>7. CASE GetGateways
    <2>1. getUniqueGatwey(fwdCache[cur]) \cap BadGateways = {}
      BY <1>0 DEF getUniqueGatwey, OnlyWhole, NamesGood, ReconcileType
    <2> QED BY <1>0, <1>7, <2>1 DEF GetGateways, outputs
  <1>8. CASE ListForwarders
    BY <1>0, <1>8 DEF ListForwarders, outputs
  <1>9. ASSUME NEW g \in Gateways, WriteGateway(g) PROVE WholeInv'
    <2>1. CASE Error
      BY <1>0, <1>9, <2>1, IdleKeepsWhole DEF WriteGateway, Error, Idle
    <2>2. CASE ~Error
      <3>1. g \notin BadGateways
        BY <1>9 DEF WriteGateway
      <3>2. \A b \in BadGateways : gws'[b] = gws[b]
        BY <1>0, <1>9, <2>2, <3>1, SourcesAssumption DEF WriteGateway, OutputsType
      <3> QED BY <1>0, <1>9, <2>2, <3>2 DEF WriteGateway
    <2> QED BY <2>1, <2>2
  <1>10. CASE Return
    BY <1>0, <1>10, IdleKeepsWhole DEF Return, outputs
  <1> QED BY <1>1, <1>2, <1>3, <1>4, <1>5, <1>6, <1>7, <1>8, <1>9, <1>10 DEF ReconcileStep

\* Nobody else writes, and the copies are copies of what was written.
LEMMA WholeStep ==
    ASSUME TypeOK, WholeInv, [Next]_vars
    PROVE  WholeInv'
  <1>1. CASE Fail \/ Restart
    <2>1. Idle /\ UNCHANGED outputs /\ (fwdCache' = fwdCache \/ fwdCache' = fwds)
      BY <1>1 DEF Fail, Restart, Error, outCache
    <2> QED BY <2>1, NoRulesWhole DEF WholeInv, OnlyWholeWritten, Idle, outputs
  <1>2. CASE Change
    BY <1>2 DEF Change, WholeInv, OnlyWholeWritten, outputs, outCache, rec
  <1>3. CASE TakeStep
    BY <1>3 DEF TakeStep, Take, WholeInv, OnlyWholeWritten, outputs, outCache
  <1>4. CASE CacheStep
    <2>1. UNCHANGED <<outputs, rec>>
      BY <1>4, CacheFrame
    <2>2. \A e \in ExternalServices : fwdCache'[e] \in {fwdCache[e], fwds[e]}
      BY <1>4 DEF CacheStep, CacheES, CachePod, CacheForwarder, CacheEndpoints, CachePorts,
                  CacheGateway, outCache, TypeOK
    <2> QED BY <2>1, <2>2 DEF WholeInv, OnlyWholeWritten, outputs, rec
  <1>5. CASE HandleStep
    BY <1>5, HandleFrame DEF WholeInv, OnlyWholeWritten, outputs, outCache, rec
  <1>6. CASE UNCHANGED vars
    BY <1>6 DEF vars, WholeInv, OnlyWholeWritten, outputs, outCache, rec
  <1> QED BY <1>1, <1>2, <1>3, <1>4, <1>5, <1>6, ReconcileKeepsWhole, Steps

\* A forwarder is given its rules whole or not at all: none without the pod's address,
\* and no rule anywhere for a gateway that is no IP address (OnlyWholeWritten).
THEOREM OnlyWholeSpecsAreWritten == Spec => []OnlyWholeWritten
  <1>1. Init => WholeInv
    BY NoRulesWhole, SourcesAssumption DEF Init, WholeInv, OnlyWholeWritten
  <1>2. TypeOK /\ WholeInv /\ [Next]_vars => WholeInv'
    BY WholeStep
  <1>3. WholeInv => OnlyWholeWritten
    BY DEF WholeInv
  <1> QED BY <1>1, <1>2, <1>3, TypeCorrect, PTL DEF Spec
=============================================================================
