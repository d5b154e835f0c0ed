---------------------------- MODULE ForwarderSync ----------------------------
(***************************************************************************)
(* One Forwarder resource and the two programs that write it: the operator *)
(* (updateForwarderRules) publishes rules in its spec, the forwarder agent *)
(* (pkg/forwarder) puts them in force and reports so in its status. Every  *)
(* API call is a step of its own, so that the two interleave between any   *)
(* two calls; the watch, the work queue and its retries wake the agent.    *)
(*                                                                         *)
(* The agent's filter on namespace and name (reconciler.go:52) only drops  *)
(* keys of other resources, which change nothing here.                     *)
(***************************************************************************)
EXTENDS Naturals

CONSTANTS
    Specs,          \* forwarder specs: records [fwdIP, egress, ingress]
    NoRules,        \* the spec of a resource that was just created
    Inputs,         \* what the operator computes the rules from
    Rendering,      \* Rendering[i]: the specs it may compute from input i,
                    \* none while the forwarder pod has no IP address
    MaxChanges,     \* bound: reconciles of the operator that are not retries
    MaxFaults       \* bound: failed calls, lost answers and restarts

ASSUME RenderingAssumption ==
    /\ NoRules \in Specs
    /\ Rendering \in [Inputs -> SUBSET Specs]
ASSUME BoundsAssumption == MaxChanges \in Nat /\ MaxFaults \in Nat

INSTANCE CRStatus

VARIABLES
    cr,             \* the resource in the API server; rv = 0: it does not exist
    want,           \* the current input
    \* the operator: work queue, control, its copy of the resource, new rules
    opDirty, op, opObj, plan,
    \* the agent's controller: undelivered watch event, work queue, pending retry
    event, dirty, retry,
    \* the agent's reconciler: control, its copy of the resource, chains to flush
    ag, obj, todo,
    \* what the agent has in force: its two maps of tunnels, the nat table
    tunnels, remoteTunnels, nat,
    changes, faults

opVars    == <<opDirty, op, opObj, plan>>
queueVars == <<event, dirty, retry>>
ctlVars   == <<ag, obj, todo>>
forceVars == <<tunnels, remoteTunnels, nat>>
envVars   == <<want, changes, faults>>
vars      == <<cr, opVars, queueVars, ctlVars, forceVars, envVars>>

-----------------------------------------------------------------------------
(* What a spec asks the agent to have in force.                             *)

getExpectedSSHTunnel(spec) ==
    { <<spec.fwdIP, r.relay, r.gw, r.dst, r.dport>> : r \in spec.egress }

getExpectedRemoteSSHTunnel(spec) ==
    { <<r.dst, r.dport, r.gw, r.relay>> : r \in spec.ingress }

Chains == {"PREROUTING", "POSTROUTING"}

DNATRules(spec) == { <<spec.fwdIP, r.src, r.tport, r.relay>> : r \in spec.egress }
SNATRules(spec) == { <<r.dst, spec.fwdIP, r.relay>> : r \in spec.egress }

getExpectedIptablesRule(spec) ==
    [c \in Chains |-> IF c = "PREROUTING" THEN DNATRules(spec) ELSE SNATRules(spec)]

\* isTunnelRunning looks its keys up in the maps, isIptablesRulesApplied its
\* rules in the chains: neither notices what is there and should not be.
ruleSynced(spec) ==
    /\ getExpectedSSHTunnel(spec) \subseteq tunnels
    /\ getExpectedRemoteSSHTunnel(spec) \subseteq remoteTunnels
    /\ \A c \in Chains : getExpectedIptablesRule(spec)[c] \subseteq nat[c]

\* Exactly the rules of the spec are in force, and nothing else.
Applied(spec) ==
    /\ tunnels = getExpectedSSHTunnel(spec)
    /\ remoteTunnels = getExpectedRemoteSSHTunnel(spec)
    /\ nat = getExpectedIptablesRule(spec)

TunnelsIn(spec) ==
    /\ tunnels \subseteq getExpectedSSHTunnel(spec)
    /\ remoteTunnels \subseteq getExpectedRemoteSSHTunnel(spec)

NatIn(spec) == \A c \in Chains : nat[c] \subseteq getExpectedIptablesRule(spec)[c]

-----------------------------------------------------------------------------
NoNat == [c \in Chains |-> {}]

\* No resource, and no copy of one: what a local variable holds between calls.
NoCR == [FreshCR(NoRules) EXCEPT !.rv = 0]

Init ==
    /\ cr = NoCR
    /\ want \in Inputs
    /\ opDirty = TRUE /\ op = "idle" /\ opObj = NoCR /\ plan = NoRules
    /\ event = FALSE /\ dirty = FALSE /\ retry = FALSE
    /\ ag = "idle" /\ obj = NoCR /\ todo = {}
    /\ tunnels = {} /\ remoteTunnels = {} /\ nat = NoNat
    /\ changes = 0 /\ faults = 0

\* A write that changed the resource makes the watch send an event.
Publish(c) == cr' = c /\ event' = (event \/ cr'.rv # cr.rv)

Fault == faults < MaxFaults /\ faults' = faults + 1

-----------------------------------------------------------------------------
(* The operator: updateForwarderRules. Its reads come from a cache; a copy  *)
(* that is out of date is one that was read before the last write, and any  *)
(* number of steps fit between the reading and the first write here.        *)

OpEnd(again) == op' = "idle" /\ opDirty' = again /\ opObj' = NoCR /\ plan' = NoRules

\* A slip, used to test the properties: the error is swallowed.
OpError_Swallowed == OpEnd(FALSE) /\ UNCHANGED <<cr, event>>

OpError == OpEnd(TRUE) /\ UNCHANGED <<cr, event>>

\* Get the resource, or Create it: the client stores the answer in fwd.
OpGet ==
    /\ op = "idle" /\ opDirty
    /\ Publish(IF cr.rv = 0 THEN FreshCR(NoRules) ELSE cr)
    /\ opObj' = cr'
    /\ op' = "mark" /\ opDirty' = FALSE
    /\ UNCHANGED <<plan, dirty, retry, ctlVars, forceVars, envVars>>

\* SetCondition says that Updating was True already: nothing to send.
OpMarked ==
    /\ op = "mark" /\ opObj.updating = "True"
    /\ op' = "plan"
    /\ UNCHANGED <<cr, opDirty, opObj, plan, queueVars, ctlVars, forceVars, envVars>>

OpMark ==
    /\ op = "mark" /\ opObj.updating # "True" /\ Current(opObj, cr)
    /\ Publish(StatusWritten(MarkUpdating(opObj), cr))
    /\ opObj' = cr'
    /\ op' = "plan"
    /\ UNCHANGED <<opDirty, plan, dirty, retry, ctlVars, forceVars, envVars>>

\* Read the pod's IP, the endpoints, the gateways and the services.
OpPlan ==
    /\ op = "plan"
    /\ plan' \in Rendering[want]
    /\ op' = "write"
    /\ UNCHANGED <<cr, opDirty, opObj, queueVars, ctlVars, forceVars, envVars>>

OpNoIP ==
    /\ op = "plan" /\ Rendering[want] = {}
    /\ OpError
    /\ UNCHANGED <<dirty, retry, ctlVars, forceVars, envVars>>

OpWrite ==
    /\ op = "write" /\ Current(opObj, cr)
    /\ Publish(SpecWritten(plan, cr))
    /\ opObj' = cr'
    /\ op' = "finish"
    /\ UNCHANGED <<opDirty, plan, dirty, retry, ctlVars, forceVars, envVars>>

\* Updating goes from True to False here, so the generation always grows.
OpFinish ==
    /\ op = "finish" /\ Current(opObj, cr)
    /\ Publish(StatusWritten(MarkUpdated(opObj), cr))
    /\ OpEnd(opDirty)
    /\ UNCHANGED <<dirty, retry, ctlVars, forceVars, envVars>>

\* The API server refuses a write made from an old copy; the controller
\* requeues the request.
OpConflict ==
    /\ \/ op = "mark" /\ opObj.updating # "True"
       \/ op \in {"write", "finish"}
    /\ ~Current(opObj, cr)
    /\ OpError
    /\ UNCHANGED <<dirty, retry, ctlVars, forceVars, envVars>>

OpStep == OpGet \/ OpMarked \/ OpMark \/ OpPlan \/ OpNoIP \/ OpWrite \/ OpFinish \/ OpConflict

\* A call fails, or the operator restarts and lists every request again.
OpFails ==
    /\ op # "idle" /\ Fault
    /\ OpError
    /\ UNCHANGED <<dirty, retry, ctlVars, forceVars, want, changes>>

\* The write is done and its answer is lost.
OpAnswerLost ==
    /\ Fault
    /\ Current(opObj, cr)
    /\ \/ op = "idle" /\ opDirty /\ cr.rv = 0 /\ Publish(FreshCR(NoRules))
       \/ op = "mark" /\ opObj.updating # "True" /\ Publish(StatusWritten(MarkUpdating(opObj), cr))
       \/ op = "write" /\ Publish(SpecWritten(plan, cr))
       \/ op = "finish" /\ Publish(StatusWritten(MarkUpdated(opObj), cr))
    /\ OpEnd(TRUE)
    /\ UNCHANGED <<dirty, retry, ctlVars, forceVars, want, changes>>

\* A watched object changes, or a resync comes round: with another input or
\* with the same one, the operator reconciles again.
Change ==
    /\ changes < MaxChanges /\ changes' = changes + 1
    /\ want' \in Inputs
    /\ opDirty' = TRUE
    /\ UNCHANGED <<cr, op, opObj, plan, queueVars, ctlVars, forceVars, faults>>

-----------------------------------------------------------------------------
(* The agent's controller: informer, rate-limited work queue, one worker.   *)

\* The informer's handler adds the key to the work queue.
Deliver ==
    /\ event
    /\ event' = FALSE /\ dirty' = TRUE
    /\ UNCHANGED <<cr, opVars, retry, ctlVars, forceVars, envVars>>

\* The informer resyncs every 30 s what its cache holds.
Resync ==
    /\ cr.rv # 0 /\ ~dirty
    /\ dirty' = TRUE
    /\ UNCHANGED <<cr, opVars, event, retry, ctlVars, forceVars, envVars>>

RetryFires ==
    /\ retry
    /\ retry' = FALSE /\ dirty' = TRUE
    /\ UNCHANGED <<cr, opVars, event, ctlVars, forceVars, envVars>>

\* processNext takes the key; an Add from now on makes the queue hold it again.
Take ==
    /\ ag = "idle" /\ dirty
    /\ dirty' = FALSE /\ ag' = "get"
    /\ UNCHANGED <<cr, opVars, event, retry, obj, todo, forceVars, envVars>>

\* Reconcile returns: on an error the key is added again after a delay.
Return(err) ==
    /\ ag' = "idle" /\ obj' = NoCR /\ todo' = {}
    /\ retry' = (retry \/ err)

-----------------------------------------------------------------------------
(* The agent's reconciler: Reconcile, syncRule, setSyncing and setSynced.   *)

\* The resource is never deleted here, so the copy is always found.
Get ==
    /\ ag = "get" /\ cr.rv # 0
    /\ \/ needSync(cr) /\ ag' = "mark"
       \/ needCheckSync(cr) /\ ag' = "check"
    /\ obj' = cr
    /\ UNCHANGED <<cr, opVars, queueVars, todo, forceVars, envVars>>

GetNothingToDo ==
    /\ ag = "get" /\ cr.rv # 0 /\ ~needSync(cr) /\ ~needCheckSync(cr)
    /\ Return(FALSE)
    /\ UNCHANGED <<cr, opVars, event, dirty, forceVars, envVars>>

\* setSyncing when Syncing is True already: nothing to send.
Marked ==
    /\ ag = "mark" /\ obj.syncing = "True"
    /\ ag' = "tunnels"
    /\ UNCHANGED <<cr, opVars, queueVars, obj, todo, forceVars, envVars>>

\* setSyncing sends the status. The answer, with the new resource version, is
\* assigned to its own parameter: the caller's copy keeps the old version.
Mark ==
    /\ ag = "mark" /\ obj.syncing # "True" /\ Current(obj, cr)
    /\ Publish(StatusWritten(MarkSyncing(obj), cr))
    /\ obj' = MarkSyncing(obj)
    /\ ag' = "tunnels"
    /\ UNCHANGED <<opVars, dirty, retry, todo, forceVars, envVars>>

\* Slip, used to test the properties.
deleteUnused_Nothing(running, expected) == running

deleteUnused(running, expected) == running \cap expected
ensure(running, expected) == running \cup expected

\* updateSSHTunnel and updateRemoteSSHTunnel: in each of the two maps, cancel
\* and forget what is not expected, start what is missing.
UpdateTunnels ==
    /\ ag = "tunnels"
    /\ LET egress  == getExpectedSSHTunnel(obj.spec)
           ingress == getExpectedRemoteSSHTunnel(obj.spec)
       IN  /\ tunnels' = ensure(deleteUnused(tunnels, egress), egress)
           /\ remoteTunnels' = ensure(deleteUnused(remoteTunnels, ingress), ingress)
    /\ ag' = "flush" /\ todo' = Chains
    /\ UNCHANGED <<cr, opVars, queueVars, obj, nat, envVars>>

\* ReplaceChains first clears every chain, in the order of a Go map.
ClearChain ==
    /\ ag = "flush"
    /\ \E c \in todo :
         /\ nat' = [nat EXCEPT ![c] = {}]
         /\ todo' = todo \ {c}
         /\ ag' = IF todo' = {} THEN "append" ELSE "flush"
    /\ UNCHANGED <<cr, opVars, queueVars, obj, tunnels, remoteTunnels, envVars>>

\* Then it appends the rules to the chains one by one.
AppendRule ==
    /\ ag = "append"
    /\ \E c \in Chains : \E r \in getExpectedIptablesRule(obj.spec)[c] \ nat[c] :
         nat' = [nat EXCEPT ![c] = @ \cup {r}]
    /\ UNCHANGED <<cr, opVars, queueVars, ctlVars, tunnels, remoteTunnels, envVars>>

Appended ==
    /\ ag = "append"
    /\ \A c \in Chains : getExpectedIptablesRule(obj.spec)[c] \subseteq nat[c]
    /\ ag' = "announce"
    /\ UNCHANGED <<cr, opVars, queueVars, obj, todo, forceVars, envVars>>

\* setSynced. Syncing is True in the copy, so there always is a change to send.
Announce ==
    /\ ag = "announce" /\ Current(obj, cr)
    /\ Publish(StatusWritten(MarkSynced(obj), cr))
    /\ Return(FALSE)
    /\ UNCHANGED <<opVars, dirty, forceVars, envVars>>

\* ruleSynced: the maps in memory, then the chains.
CheckOK ==
    /\ ag = "check" /\ ruleSynced(obj.spec)
    /\ Return(FALSE)
    /\ UNCHANGED <<cr, opVars, event, dirty, forceVars, envVars>>

CheckFailed ==
    /\ ag = "check" /\ ~ruleSynced(obj.spec)
    /\ ag' = "recall"
    /\ UNCHANGED <<cr, opVars, queueVars, obj, todo, forceVars, envVars>>

\* setSyncing after a failed check; Reconcile then returns nil.
Recall ==
    /\ ag = "recall" /\ Current(obj, cr)
    /\ Publish(StatusWritten(MarkSyncing(obj), cr))
    /\ Return(FALSE)
    /\ UNCHANGED <<opVars, dirty, forceVars, envVars>>

Conflict ==
    /\ \/ ag = "mark" /\ obj.syncing # "True"
       \/ ag \in {"announce", "recall"}
    /\ ~Current(obj, cr)
    /\ Return(TRUE)
    /\ UNCHANGED <<cr, opVars, event, dirty, forceVars, envVars>>

AgentStep ==
    \/ Take \/ Get \/ GetNothingToDo \/ Marked \/ Mark \/ UpdateTunnels
    \/ ClearChain \/ AppendRule \/ Appended \/ Announce
    \/ CheckOK \/ CheckFailed \/ Recall \/ Conflict

\* An API call fails, or an iptables command does.
AgentFails ==
    /\ ag \in {"get", "mark", "flush", "append", "announce", "recall"} /\ Fault
    /\ Return(TRUE)
    /\ UNCHANGED <<cr, opVars, event, dirty, forceVars, want, changes>>

\* CheckChainsExist takes a failing iptables command for a missing rule.
CheckErrs ==
    /\ ag = "check" /\ Fault
    /\ ag' = "recall"
    /\ UNCHANGED <<cr, opVars, queueVars, obj, todo, forceVars, want, changes>>

AgentAnswerLost ==
    /\ Fault
    /\ Current(obj, cr)
    /\ \/ ag = "mark" /\ obj.syncing # "True" /\ Publish(StatusWritten(MarkSyncing(obj), cr))
       \/ ag = "announce" /\ Publish(StatusWritten(MarkSynced(obj), cr))
       \/ ag = "recall" /\ Publish(StatusWritten(MarkSyncing(obj), cr))
    /\ Return(TRUE)
    /\ UNCHANGED <<opVars, dirty, forceVars, want, changes>>

\* The agent restarts: in its pod, whose nat table survives, or in a new one.
\* The first listing of the informer counts as an event for what exists.
Restart ==
    /\ Fault
    /\ ag' = "idle" /\ obj' = NoCR /\ todo' = {}
    /\ event' = (cr.rv # 0) /\ dirty' = FALSE /\ retry' = FALSE
    /\ tunnels' = {} /\ remoteTunnels' = {} /\ nat' \in {nat, NoNat}
    /\ UNCHANGED <<cr, opVars, want, changes>>

-----------------------------------------------------------------------------
Next ==
    \/ OpStep \/ OpFails \/ OpAnswerLost \/ Change
    \/ Deliver \/ Resync \/ RetryFires
    \/ AgentStep \/ AgentFails \/ CheckErrs \/ AgentAnswerLost \/ Restart

Spec == Init /\ [][Next]_vars

\* The operator and the agent run, the watch delivers and a delay passes.
\* Nothing is assumed of resyncs, of changes and of faults.
Fairness == WF_vars(OpStep) /\ WF_vars(AgentStep) /\ WF_vars(Deliver) /\ WF_vars(RetryFires)

FairSpec == Spec /\ Fairness

-----------------------------------------------------------------------------
(* Properties.                                                              *)

AgentPCs == {"idle", "get", "mark", "tunnels", "flush", "append", "announce", "check", "recall"}
OpPCs    == {"idle", "mark", "plan", "write", "finish"}

\* A pass of the agent that is under way to putting the rules in force.
Passing == ag \in {"mark", "tunnels", "flush", "append", "announce"}

\* What can be in force at all.
Tunnels       == UNION { getExpectedSSHTunnel(s) : s \in Specs }
RemoteTunnels == UNION { getExpectedRemoteSSHTunnel(s) : s \in Specs }
NatRules      == UNION { DNATRules(s) \cup SNATRules(s) : s \in Specs }

\* Every variable has its type.
TypeOK ==
    /\ cr \in CR /\ obj \in CR /\ opObj \in CR
    /\ want \in Inputs /\ plan \in Specs
    /\ op \in OpPCs /\ ag \in AgentPCs
    /\ opDirty \in BOOLEAN /\ event \in BOOLEAN /\ dirty \in BOOLEAN /\ retry \in BOOLEAN
    /\ todo \subseteq Chains
    /\ changes \in 0..MaxChanges /\ faults \in 0..MaxFaults
    /\ tunnels \subseteq Tunnels /\ remoteTunnels \subseteq RemoteTunnels
    /\ nat \in [Chains -> SUBSET NatRules]

\* While the resource is announced as synced, nothing is in force that it does
\* not ask for: no tunnel and no rule of an older spec survives the pass that
\* announces the new one, whatever failed, restarted or was read in between.
NoLeftovers == Synced(cr) => TunnelsIn(cr.spec) /\ NatIn(cr.spec)

\* Neither agent nor operator forgets work: whenever the resource waits to be
\* applied, or is announced as synced though something of it is not in force, a
\* watch event, a queued key, a retry or a reconcile under way will look at it;
\* while the operator's last input is not rendered in the resource, or the resource
\* is still to be created or marked as updating, it has a request queued or in
\* progress.
WorkPending == event \/ dirty \/ retry \/ ag # "idle"
Unfinished  == needSync(cr) \/ (Synced(cr) /\ ~Applied(cr.spec))
NoLostSync  == Unfinished => WorkPending
NoLostInput ==
    \/ cr.updating # "False"
    \/ Rendering[want] # {} /\ cr.spec \notin Rendering[want]
    => opDirty \/ op # "idle"
NoLostWork == NoLostSync /\ NoLostInput

\* When both have come to rest, with nothing left that would wake them, the rules
\* of the last input are published, announced and exactly in force, whatever
\* failed, was lost or was overtaken on the way.
AtRest == ~opDirty /\ op = "idle" /\ ~WorkPending
RestIsDelivered ==
    AtRest /\ Rendering[want] # {} =>
        cr.spec \in Rendering[want] /\ Synced(cr) /\ Applied(cr.spec)

\* The step that announces the resource as synced does so for the spec that is
\* in the API server at that moment, and with exactly its rules in force:
\* operator writes since the agent's Get make the write fail.
AnnouncesOnlyApplied ==
    [][~Synced(cr) /\ Synced(cr)' => Applied(cr.spec)']_vars

\* The rules of a resource change only while it is marked as updating, so
\* that no agent starts a pass on rules the operator has not finished.
ChangesOnlyWhileUpdating ==
    [][cr'.spec # cr.spec => cr.updating = "True" /\ cr'.updating = "True"]_vars

\* After the last change and the last fault, the rules of the last input are
\* published, put in force and announced as such, for good: the conflicts,
\* the retries and the operator's own wake-ups of the agent come to an end.
EventuallyDelivered ==
    <>[](Rendering[want] # {} => /\ cr.spec \in Rendering[want]
                                /\ Synced(cr)
                                /\ Applied(cr.spec))

\* The inductive invariant behind the safety properties, part by part.

\* The operator's copy: with the current version it is the resource, and from
\* the moment Updating was sent it says so.
OpCopy ==
    /\ opObj.rv <= cr.rv /\ (opObj.rv = cr.rv => opObj = cr)
    /\ op = "idle" => opObj = NoCR
    /\ op # "idle" => opObj.rv > 0
    /\ op \in {"plan", "write", "finish"} => opObj.updating = "True"

\* The rules the operator is about to write, or wrote, are of its last input,
\* or another reconcile is queued.
OpProgress ==
    /\ op = "write" => plan \in Rendering[want] \/ opDirty
    /\ op = "finish" => opObj.spec \in Rendering[want] \/ opDirty

\* A reconcile of the agent that has its copy.
Reconciling == Passing \/ ag \in {"check", "recall"}

\* The agent's copy: with the current version it is the resource, with an older
\* one a wake-up is on its way; and it says what made the reconcile choose its
\* branch, or what setSyncing put in it.
AgentCopy ==
    /\ obj.rv <= cr.rv
    /\ Reconciling => \/ obj.rv = cr.rv /\ obj = cr /\ obj.rv > 0
                      \/ obj.rv < cr.rv /\ (event \/ dirty)
    /\ ag = "mark" => needSync(obj)
    /\ Passing /\ ag # "mark" => obj.updating = "False" /\ obj.syncing = "True"
    /\ ag \in {"check", "recall"} => Synced(obj)

\* Only the agent announces, so the resource is not announced during a pass.
NotAnnouncedWhilePassing == Passing => ~Synced(cr)

\* How far the pass is in putting the rules of the copy in force.
Progress ==
    /\ ag \in {"flush", "append", "announce"} =>
          /\ tunnels = getExpectedSSHTunnel(obj.spec)
          /\ remoteTunnels = getExpectedRemoteSSHTunnel(obj.spec)
    /\ ag = "flush" => \A c \in Chains \ todo : nat[c] = {}
    /\ ag \in {"append", "announce"} => NatIn(obj.spec)
    /\ ag = "announce" => nat = getExpectedIptablesRule(obj.spec)

\* A status that is neither updating nor synced asks for a pass.
StatusDecided ==
    /\ cr.rv = 0 => cr = NoCR
    /\ cr.sg <= cr.rg
    /\ cr.updating = "False" => needSync(cr) \/ Synced(cr)

OpInv    == OpCopy /\ OpProgress /\ NoLostInput
AgentInv == AgentCopy /\ NotAnnouncedWhilePassing /\ Progress /\ NoLeftovers /\ NoLostSync
IInv     == TypeOK /\ StatusDecided /\ OpInv /\ AgentInv

\* The resource as its reader sees it: RuleDelivery.
phase ==
    CASE cr.updating # "False" -> "updating"
      [] cr.updating = "False" /\ Synced(cr) -> "synced"
      [] OTHER -> "pending"

Delivery == INSTANCE RuleDelivery WITH spec <- cr.spec, good <- Applied(cr.spec)

\* The protocol of operator and agent implements RuleDelivery.
ImplementsRuleDelivery == Delivery!Spec
=============================================================================
