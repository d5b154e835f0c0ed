------------------------------ MODULE Lifecycle ------------------------------
(***************************************************************************)
(* From the creation of an ExternalService to its end: the operator's      *)
(* Reconcile with its finalizer, the pod, the service and the Forwarder it *)
(* keeps under the ExternalService's name, its entry in a Gateway, and     *)
(* deleteResourceForExternalService. Every resource is read from a cache   *)
(* that lags behind, kind by kind, and the watches on ExternalServices,    *)
(* pods and services are what wakes the operator.                          *)
(*                                                                         *)
(* Of a Forwarder and of the Gateway it is modelled that they have rules   *)
(* or not; which ones is in Operator, how they are written in ForwarderSync *)
(* and GatewaySync. There is one Gateway, that every rule names.           *)
(***************************************************************************)
EXTENDS Naturals

CONSTANTS
    ESs,        \* ExternalServices, by namespace and name
    NoES,       \* the owner of nothing
    Names,
    NameOf,     \* the name of each: what it has in ConnectorNamespace has it too
    MaxFaults   \* bound: failed calls, restarts of the operator, evicted pods

ASSUME NamesAssumption == NameOf \in [ESs -> Names] /\ NoES \notin ESs
ASSUME BoundsAssumption == MaxFaults \in Nat

VARIABLES
    \* the resources in the API server: ExternalServices; pods and services by
    \* name, as the ExternalService in their labels; Forwarders; and those whose
    \* rules the Gateway has
    es, pods, svcs, fwds, gw,
    terminating,    \* names of pods that were deleted and are still there
    \* what the operator's cache has of them; of the gateway, how old its copy is
    esCache, podCache, svcCache, fwdCache, gwCache,
    gwExists,
    \* the operator's queue, where its reconcile is, for which ExternalService,
    \* and the names of the Forwarders listed
    queue, at, cur, list,
    \* history: this reconcile has read current copies, and no Delete of it failed
    trusted,
    faults

serverVars == <<es, pods, svcs, fwds, gw, gwExists, terminating>>
cacheVars  == <<esCache, podCache, svcCache, fwdCache, gwCache>>
opVars     == <<queue, at, cur, list, trusted>>
vars == <<serverVars, cacheVars, opVars, faults>>

\* "new" has no finalizer yet, "deleting" has a deletion timestamp.
ESStates  == {"absent", "new", "ready", "deleting"}
FwdStates == {"absent", "empty", "rules"}

-----------------------------------------------------------------------------
Nobody == [n \in Names |-> NoES]
NoFwds == [n \in Names |-> "absent"]

Init ==
    /\ es = [e \in ESs |-> "absent"] /\ pods = Nobody /\ svcs = Nobody /\ fwds = NoFwds
    /\ gw = {} /\ gwExists = FALSE /\ terminating = {}
    /\ esCache = es /\ podCache = pods /\ svcCache = svcs /\ fwdCache = fwds
    /\ gwCache = "absent"
    /\ queue = {} /\ at = "idle" /\ cur \in ESs /\ list = {} /\ trusted = TRUE
    /\ faults = 0

Name == NameOf[cur]

Fault == faults < MaxFaults /\ faults' = faults + 1

Goto(where) == at' = where /\ UNCHANGED <<queue, cur, list>>

\* Reconcile returns, and the controller forgets the request or requeues it.
Done  == at' = "idle" /\ list' = {} /\ UNCHANGED <<queue, cur>>

\* Slip, used to test the properties: the error of a step is not returned.
Error_Swallowed == Done

Error == at' = "idle" /\ list' = {} /\ queue' = queue \cup {cur} /\ UNCHANGED cur

\* A step that reads or that is refused, of a resource whose copy is current or not.
Reads(current) == trusted' = (trusted /\ current)

-----------------------------------------------------------------------------
(* Reconcile.                                                               *)

\* Take a request and Get the ExternalService.
Take(e) ==
    /\ at = "idle" /\ e \in queue
    /\ queue' = queue \ {e} /\ cur' = e /\ list' = {}
    /\ at' = CASE esCache[e] = "absent"   -> "idle"
               [] esCache[e] = "new"      -> "finalizer"
               [] esCache[e] = "ready"    -> "pod"
               [] esCache[e] = "deleting" -> "delPod"
    /\ trusted' = TRUE
    /\ UNCHANGED <<serverVars, cacheVars, faults>>

\* addFinalizer.
AddFinalizer ==
    /\ at = "finalizer"
    /\ \/ /\ es[cur] = "new"
          /\ es' = [es EXCEPT ![cur] = "ready"]
          /\ Goto("pod")
       \/ es[cur] # "new" /\ Error /\ UNCHANGED es
    /\ UNCHANGED <<pods, svcs, fwds, gw, gwExists, terminating, cacheVars, trusted, faults>>

\* One that is found is kept, whoever it belongs to.
EnsurePod ==
    /\ at = "pod"
    /\ \/ podCache[Name] # NoES /\ Goto("service") /\ UNCHANGED pods
       \/ /\ podCache[Name] = NoES /\ pods[Name] = NoES
          /\ pods' = [pods EXCEPT ![Name] = cur]
          /\ Goto("service")
       \/ podCache[Name] = NoES /\ pods[Name] # NoES /\ Error /\ UNCHANGED pods
    /\ UNCHANGED <<es, svcs, fwds, gw, gwExists, terminating, cacheVars, trusted, faults>>

EnsureService ==
    /\ at = "service"
    /\ \/ svcCache[Name] # NoES /\ Goto("forwarder") /\ UNCHANGED svcs
       \/ /\ svcCache[Name] = NoES /\ svcs[Name] = NoES
          /\ svcs' = [svcs EXCEPT ![Name] = cur]
          /\ Goto("forwarder")
       \/ svcCache[Name] = NoES /\ svcs[Name] # NoES /\ Error /\ UNCHANGED svcs
    /\ UNCHANGED <<es, pods, fwds, gw, gwExists, terminating, cacheVars, trusted, faults>>

\* updateForwarderRules: the Forwarder is created, or the copy found is written to...
EnsureForwarder ==
    /\ at = "forwarder"
    /\ \/ /\ fwdCache[Name] # "absent" /\ fwdCache[Name] = fwds[Name]
          /\ Goto("rules")
          /\ UNCHANGED fwds
       \/ /\ fwdCache[Name] = "absent" /\ fwds[Name] = "absent"
          /\ fwds' = [fwds EXCEPT ![Name] = "empty"]
          /\ Goto("rules")
       \/ fwdCache[Name] # fwds[Name] /\ Error /\ UNCHANGED fwds
    /\ UNCHANGED <<es, pods, svcs, gw, gwExists, terminating, cacheVars, trusted, faults>>

\* ... and then given its rules, which takes the address of the pod.
WriteRules ==
    /\ at = "rules"
    /\ \/ podCache[Name] = NoES /\ Error /\ UNCHANGED fwds
       \/ podCache[Name] # NoES /\ fwds' = [fwds EXCEPT ![Name] = "rules"] /\ Goto("gateways")
    /\ UNCHANGED <<es, pods, svcs, gw, gwExists, terminating, cacheVars, trusted, faults>>

\* Slip, used to test the properties: the Forwarder at hand is left out.
WithRules_Others == { n \in Names \ {Name} : fwdCache[n] = "rules" }

WithRules == { n \in Names : fwdCache[n] = "rules" }

\* updateGatewayRules: a Forwarder that is not in the cache is waited for; one
\* that is there without rules names no gateway, and nothing is left to do.
GetForwarder ==
    /\ at = "gateways"
    /\ \/ fwdCache[Name] = "absent" /\ Error
       \/ fwdCache[Name] = "empty" /\ Done
       \/ /\ fwdCache[Name] = "rules"
          /\ at' = "gateway" /\ list' = WithRules
          /\ UNCHANGED <<queue, cur>>
    /\ UNCHANGED <<serverVars, cacheVars, trusted, faults>>

\* The Gateway is created, or the copy found is written to.
UpdateGateway ==
    /\ at = "gateway"
    /\ \/ gwCache = "absent" /\ ~gwExists
       \/ gwCache = "current"
    /\ gw' = list /\ gwExists' = TRUE
    /\ gwCache' = IF gwCache = "current" THEN "old" ELSE gwCache
    /\ Done
    /\ UNCHANGED <<es, pods, svcs, fwds, terminating, esCache, podCache, svcCache, fwdCache,
                   trusted, faults>>

GatewayConflict ==
    /\ at \in {"gateway", "delGateways"}
    /\ \/ gwCache = "old"
       \/ gwCache = "absent" /\ gwExists /\ at = "gateway"
    /\ Error
    /\ UNCHANGED <<serverVars, cacheVars, trusted, faults>>

-----------------------------------------------------------------------------
(* deleteResourceForExternalService. What is not in the cache is taken for  *)
(* deleted; the error of a Delete is dropped.                               *)

DeletePod ==
    /\ at = "delPod"
    /\ terminating' = IF podCache[Name] # NoES /\ pods[Name] # NoES
                      THEN terminating \cup {Name} ELSE terminating
    /\ Reads(podCache[Name] = pods[Name])
    /\ Goto("delService")
    /\ UNCHANGED <<es, pods, svcs, fwds, gw, gwExists, cacheVars, faults>>

\* Slip, used to test the properties: what is found is left alone.
Deleted_NotFound(n) == [svcs EXCEPT ![n] = IF svcCache[n] = NoES THEN NoES ELSE @]

Deleted(n) == [svcs EXCEPT ![n] = IF svcCache[n] # NoES THEN NoES ELSE @]

DeleteService ==
    /\ at = "delService"
    /\ svcs' = Deleted(Name)
    /\ Reads(svcCache[Name] = svcs[Name])
    /\ Goto("delForwarder")
    /\ UNCHANGED <<es, pods, fwds, gw, gwExists, terminating, cacheVars, faults>>

DeleteForwarder ==
    /\ at = "delForwarder"
    /\ fwds' = [fwds EXCEPT ![Name] = IF fwdCache[Name] # "absent" THEN "absent" ELSE @]
    /\ Reads(fwdCache[Name] # "absent" \/ fwds[Name] = "absent")
    /\ Goto("delList")
    /\ UNCHANGED <<es, pods, svcs, gw, gwExists, terminating, cacheVars, faults>>

DeleteFails ==
    /\ Fault
    /\ \/ at = "delPod" /\ podCache[Name] # NoES /\ Goto("delService")
       \/ at = "delService" /\ svcCache[Name] # NoES /\ Goto("delForwarder")
       \/ at = "delForwarder" /\ fwdCache[Name] # "absent" /\ Goto("delList")
    /\ Reads(FALSE)
    /\ UNCHANGED <<serverVars, cacheVars>>

\* The Forwarder must have left the cache before the gateways are rewritten.
ListForwarders ==
    /\ at = "delList"
    /\ \/ fwdCache[Name] # "absent" /\ Error
       \/ /\ fwdCache[Name] = "absent"
          /\ at' = "delGateways" /\ list' = WithRules
          /\ UNCHANGED <<queue, cur>>
    /\ UNCHANGED <<serverVars, cacheVars, trusted, faults>>

CleanGateways ==
    /\ at = "delGateways" /\ gwCache # "old"
    /\ \/ gwCache = "current" /\ gw' = list /\ gwCache' = "old" /\ Reads(TRUE)
       \/ gwCache = "absent" /\ UNCHANGED <<gw, gwCache>> /\ Reads(~gwExists)
    /\ Goto("clear")
    /\ UNCHANGED <<es, pods, svcs, fwds, gwExists, terminating,
                   esCache, podCache, svcCache, fwdCache, faults>>

ClearFinalizer ==
    /\ at = "clear"
    /\ \/ es[cur] = "deleting" /\ es' = [es EXCEPT ![cur] = "absent"] /\ Done
       \/ es[cur] # "deleting" /\ Error /\ UNCHANGED es
    /\ UNCHANGED <<pods, svcs, fwds, gw, gwExists, terminating, cacheVars, trusted, faults>>

OpStep ==
    \/ \E e \in ESs : Take(e)
    \/ AddFinalizer \/ EnsurePod \/ EnsureService \/ EnsureForwarder \/ WriteRules
    \/ GetForwarder \/ UpdateGateway \/ GatewayConflict
    \/ DeletePod \/ DeleteService \/ DeleteForwarder \/ ListForwarders \/ CleanGateways
    \/ ClearFinalizer

\* A call fails, or a write conflicts with one of an agent.
Fail ==
    /\ at # "idle" /\ Fault
    /\ Error
    /\ UNCHANGED <<serverVars, cacheVars, trusted>>

\* The operator restarts: it lists everything, and every ExternalService is a request.
Restart ==
    /\ Fault
    /\ esCache' = es /\ podCache' = pods /\ svcCache' = svcs /\ fwdCache' = fwds
    /\ gwCache' = IF gwExists THEN "current" ELSE "absent"
    /\ queue' = { e \in ESs : es[e] # "absent" } /\ at' = "idle" /\ list' = {}
    /\ UNCHANGED <<serverVars, cur, trusted>>

-----------------------------------------------------------------------------
(* Watches: the cache follows, and the requests of the watched kinds are    *)
(* queued. Forwarders and Gateways wake nobody.                             *)

CacheES(e) ==
    /\ esCache[e] # es[e]
    /\ esCache' = [esCache EXCEPT ![e] = es[e]] /\ queue' = queue \cup {e}
    /\ UNCHANGED <<serverVars, podCache, svcCache, fwdCache, gwCache, at, cur, list, trusted, faults>>

\* Slip, used to test the properties: labels that are missing are not noticed.
Owners_Any(old, new) == {old, new}

\* The labels of a pod or a service name the ExternalService to reconcile.
Owners(old, new) == {old, new} \ {NoES}

CachePod(n) ==
    /\ podCache[n] # pods[n]
    /\ podCache' = [podCache EXCEPT ![n] = pods[n]]
    /\ queue' = queue \cup Owners(podCache[n], pods[n])
    /\ UNCHANGED <<serverVars, esCache, svcCache, fwdCache, gwCache, at, cur, list, trusted, faults>>

CacheService(n) ==
    /\ svcCache[n] # svcs[n]
    /\ svcCache' = [svcCache EXCEPT ![n] = svcs[n]]
    /\ queue' = queue \cup Owners(svcCache[n], svcs[n])
    /\ UNCHANGED <<serverVars, esCache, podCache, fwdCache, gwCache, at, cur, list, trusted, faults>>

CacheForwarder(n) ==
    /\ fwdCache[n] # fwds[n]
    /\ fwdCache' = [fwdCache EXCEPT ![n] = fwds[n]]
    /\ UNCHANGED <<serverVars, esCache, podCache, svcCache, gwCache, opVars, faults>>

CacheGateway ==
    /\ gwExists /\ gwCache # "current"
    /\ gwCache' = "current"
    /\ UNCHANGED <<serverVars, esCache, podCache, svcCache, fwdCache, opVars, faults>>

Watch ==
    \/ \E e \in ESs : CacheES(e)
    \/ \E n \in Names : CachePod(n) \/ CacheService(n) \/ CacheForwarder(n)
    \/ CacheGateway

\* An endpoint of a source changes, or the cache is resynced.
Resync(e) ==
    /\ esCache[e] # "absent" /\ e \notin queue
    /\ queue' = queue \cup {e}
    /\ UNCHANGED <<serverVars, cacheVars, at, cur, list, trusted, faults>>

-----------------------------------------------------------------------------
(* The users, and the cluster.                                              *)

Create(e) ==
    /\ es[e] = "absent"
    /\ es' = [es EXCEPT ![e] = "new"]
    /\ UNCHANGED <<pods, svcs, fwds, gw, gwExists, terminating, cacheVars, opVars, faults>>

\* Without a finalizer it is gone at once.
Delete(e) ==
    /\ es[e] \in {"new", "ready"}
    /\ es' = [es EXCEPT ![e] = IF @ = "new" THEN "absent" ELSE "deleting"]
    /\ UNCHANGED <<pods, svcs, fwds, gw, gwExists, terminating, cacheVars, opVars, faults>>

PodGone(n) ==
    /\ n \in terminating
    /\ pods' = [pods EXCEPT ![n] = NoES] /\ terminating' = terminating \ {n}
    /\ UNCHANGED <<es, svcs, fwds, gw, gwExists, cacheVars, opVars, faults>>

Evict(n) ==
    /\ pods[n] # NoES /\ n \notin terminating /\ Fault
    /\ terminating' = terminating \cup {n}
    /\ UNCHANGED <<es, pods, svcs, fwds, gw, gwExists, cacheVars, opVars>>

Next ==
    \/ OpStep \/ DeleteFails \/ Fail \/ Restart \/ Watch
    \/ \E e \in ESs : Resync(e) \/ Create(e) \/ Delete(e)
    \/ \E n \in Names : PodGone(n) \/ Evict(n)

Spec == Init /\ [][Next]_vars

\* The operator runs and takes every request in turn, the watches deliver, pods
\* that were deleted go. Nothing is assumed of users, of resyncs and of faults.
Fairness ==
    /\ WF_vars(OpStep) /\ \A e \in ESs : SF_vars(Take(e))
    /\ \A e \in ESs : WF_vars(CacheES(e))
    /\ \A n \in Names : /\ WF_vars(CachePod(n)) /\ WF_vars(CacheService(n))
                        /\ WF_vars(CacheForwarder(n)) /\ WF_vars(PodGone(n))
    /\ WF_vars(CacheGateway)

FairSpec == Spec /\ Fairness

-----------------------------------------------------------------------------
(* Properties.                                                              *)

Ats == {"idle", "finalizer", "pod", "service", "forwarder", "rules", "gateways", "gateway",
        "delPod", "delService", "delForwarder", "delList", "delGateways", "clear"}

Owned == [Names -> ESs \cup {NoES}]

\* Every variable has its type.
TypeOK ==
    /\ es \in [ESs -> ESStates] /\ esCache \in [ESs -> ESStates]
    /\ pods \in Owned /\ podCache \in Owned /\ svcs \in Owned /\ svcCache \in Owned
    /\ fwds \in [Names -> FwdStates] /\ fwdCache \in [Names -> FwdStates]
    /\ gw \subseteq Names /\ gwExists \in BOOLEAN /\ gwCache \in {"absent", "old", "current"}
    /\ terminating \subseteq Names /\ list \subseteq Names
    /\ queue \subseteq ESs /\ at \in Ats /\ cur \in ESs
    /\ trusted \in BOOLEAN /\ faults \in 0..MaxFaults

\* It has what the operator keeps for it.
Served(e) == pods[NameOf[e]] # NoES /\ svcs[NameOf[e]] # NoES /\ fwds[NameOf[e]] = "rules"

\* Nothing of the name is left, but a pod on its way out.
AllGone(n) ==
    /\ pods[n] # NoES => n \in terminating
    /\ svcs[n] = NoES /\ fwds[n] = "absent" /\ n \notin gw

\* If the copies that the cleanup read were current and its Deletes were done,
\* nothing is left when it clears the finalizer, also of what reconciles that
\* failed half-way left, and of what was never completed.
ClearedIsGone ==
    [][at = "clear" /\ es'[cur] # es[cur] /\ trusted => AllGone(Name)]_vars

\* The operator will come back to e: it is working on it, has a request for it, or
\* a watch will bring one.
Coming(e) ==
    \/ e \in queue
    \/ at # "idle" /\ cur = e
    \/ esCache[e] # es[e]
    \/ podCache[NameOf[e]] # pods[NameOf[e]]
    \/ svcCache[NameOf[e]] # svcs[NameOf[e]]
    \/ NameOf[e] \in terminating

\* An ExternalService that lacks its pod, its service or its rules, or is to be
\* deleted, is not forgotten: not when its pod is evicted, not when it was created
\* under the name of one whose pod and Forwarder were on their way out, although
\* Forwarders are not watched and every copy that is read may be old.
NoLostRequest ==
    \A e \in ESs :
        es[e] # "absent" => Coming(e) \/ (es[e] = "ready" /\ Served(e))

(* The inductive invariant behind NoLostRequest and ClearedIsGone.          *)

\* No two ExternalServices have one name.
DistinctNames == \A e, f \in ESs : NameOf[e] = NameOf[f] => e = f

\* The cleanup of an ExternalService, from Take to ClearFinalizer.
Cleanup == {"delPod", "delService", "delForwarder", "delList", "delGateways", "clear"}

\* As far as it has come, nothing is left of what it deletes.
CleanupInv ==
    /\ ~gwExists => gw = {} /\ gwCache = "absent"
    /\ at = "delGateways" => Name \notin list
    /\ trusted =>
        /\ at \in Cleanup \ {"delPod"} /\ pods[Name] # NoES => Name \in terminating
        /\ at \in Cleanup \ {"delPod", "delService"} => svcs[Name] = NoES
        /\ at \in {"delList", "delGateways", "clear"} => fwds[Name] = "absent"
        /\ at = "clear" => Name \notin gw

\* Pods and services belong to an ExternalService of their name.
OwnersInv ==
    \A n \in Names : \A owner \in {pods[n], podCache[n], svcs[n], svcCache[n]} :
        owner # NoES => NameOf[owner] = n

\* The cache of ExternalServices is behind, and never of another life but the last.
CacheInv ==
    \A e \in ESs :
        /\ esCache[e] = "ready" => es[e] \in {"ready", "deleting"}
        /\ esCache[e] = "deleting" => es[e] # "ready"
        /\ esCache[e] = "new" /\ es[e] \in {"absent", "new"} => e \in queue \/ (at # "idle" /\ cur = e)

\* What a reconcile knows of the ExternalService at hand.
AtHandInv ==
    /\ at = "finalizer" /\ es[cur] \in {"absent", "new"} => esCache[cur] \in {"absent", "new"}
    /\ at \notin Cleanup \cup {"idle", "finalizer"} =>
        /\ es[cur] \in {"ready", "deleting"}
        /\ es[cur] = "deleting" => cur \in queue \/ esCache[cur] # "deleting"
    /\ at \in Cleanup => es[cur] \in {"absent", "new"} \/ (es[cur] = "deleting" /\ esCache[cur] = "deleting")

HasService(n) == svcs[n] # NoES \/ svcCache[n] # NoES

\* What a reconcile has done, or will be told that it was undone.
DoneInv ==
    /\ at \in {"forwarder", "rules", "gateways", "gateway"} => cur \in queue \/ HasService(Name)
    /\ at \in {"gateways", "gateway"} =>
        /\ fwds[Name] = "rules"
        /\ cur \in queue \/ podCache[Name] # NoES

\* What the operator will not come back to has its Forwarder, and pod and service
\* are there, or in the cache, which will learn that they are not.
KeptInv ==
    \A e \in ESs : es[e] # "absent" =>
        \/ e \in queue
        \/ at # "idle" /\ cur = e
        \/ esCache[e] # es[e]
        \/ /\ es[e] = "ready" /\ fwds[NameOf[e]] = "rules"
           /\ podCache[NameOf[e]] # NoES /\ HasService(NameOf[e])

RequestInv == OwnersInv /\ CacheInv /\ AtHandInv /\ DoneInv /\ KeptInv

IInv == TypeOK /\ CleanupInv /\ RequestInv

\* The cleanup takes nothing from an ExternalService that has its finalizer and is not
\* being deleted, however old the copy is that says it is deleted: also not from
\* one that was created again while the cleanup of its former life went on.
CleanupSparesLiving ==
    [][\A e \in ESs : es[e] = "ready" /\ faults' = faults =>
          /\ svcs[NameOf[e]] # NoES => svcs'[NameOf[e]] # NoES
          /\ fwds[NameOf[e]] # "absent" => fwds'[NameOf[e]] # "absent"
          /\ NameOf[e] \in terminating' => NameOf[e] \in terminating]_vars

\* Every ExternalService that is being deleted is gone in the end: neither a
\* stale cache nor one that fails and is tried again blocks it for ever.
DeletionCompletes == \A e \in ESs : es[e] = "deleting" ~> es[e] # "deleting"

\* Whatever is there and stays gets its pod, its service and its rules, also if
\* it has the name of one that was deleted just before.
EventuallyServed == \A e \in ESs : <>[](es[e] \in {"new", "ready"}) => <>[]Served(e)

\* As long as requests come, from an endpoint of a source or a resync, its rules
\* reach the gateway: a reconcile that reads its Forwarder from before its rules
\* ends without error, and nothing else wakes the operator again.
EventuallyInGateway ==
    \A e \in ESs :
        <>[](es[e] \in {"new", "ready"}) /\ []<>(e \in queue) => <>[](NameOf[e] \in gw)

\* The comment at reconciler.go:557: "deleteResourceForExternalService deletes all
\* related resource for the external service".
DeletesAllRelated ==
    [][at = "clear" /\ es'[cur] # es[cur] => AllGone(Name)]_vars
=============================================================================
