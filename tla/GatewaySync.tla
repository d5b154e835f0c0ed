----------------------------- MODULE GatewaySync -----------------------------
(***************************************************************************)
(* One Gateway resource, the operator that writes its rules                *)
(* (updateRulesForOneGateway) and the gateway agent (pkg/gateway) that puts *)
(* them in force: an ssh server on the gateway's address, two chains of    *)
(* its own in the nat table, and a jump to each.                           *)
(*                                                                         *)
(* The conversation over the resource is the one of ForwarderSync. What is *)
(* new is the server: it is started and not waited for, retried for 15     *)
(* minutes, and looked at from outside, by connecting to its port. The     *)
(* agent never stops a server, and uses the ingress rules only.            *)
(*                                                                         *)
(* A gateway whose server is down is announced and recalled without end,   *)
(* so versions are not counted here: what matters of them is whose copy of *)
(* the resource is the current one.                                        *)
(***************************************************************************)
EXTENDS Naturals

CONSTANTS
    GatewayIP,      \* the gateway's address
    NoIP,           \* the empty string, before the operator filled it in
    Rules,          \* ingress rules: records [src, tport, dst, relay]
    MaxChanges,     \* bound: changes of the listed rules and of the requests
    MaxFaults       \* bound: failed calls, lost answers, failed servers, restarts

ASSUME AddressAssumption == GatewayIP # NoIP
ASSUME BoundsAssumption == MaxChanges \in Nat /\ MaxFaults \in Nat

IPs   == {GatewayIP, NoIP}
Specs == [ip : IPs, rules : SUBSET Rules]
NoSpec == [ip |-> NoIP, rules |-> {}]

INSTANCE CRStatus

VARIABLES
    cr,             \* the resource in the API server; rv is 1 if it exists, or else 0
    fresh,          \* who has a copy with the current resource version
    listed,         \* the rules for this gateway in the Forwarders that the cache lists
    \* the operator: requests, the one at hand, whether its service still names
    \* this gateway, control, its copy, new rules
    queue, mode, named, op, opObj, plan,
    \* the agent's controller: undelivered watch event, work queue
    event, dirty,
    \* the agent's reconciler: control, its copy of the resource, chains to flush
    ag, obj, todo,
    \* the agent's map of servers; the server of each address; whether the
    \* gateway's address is on the host
    started, server, addr,
    \* the nat table: the two chains of the gateway, the chains that jump there
    nat, jumps,
    changes, faults

opVars     == <<queue, mode, named, op, opObj, plan>>
queueVars  == <<event, dirty>>
ctlVars    == <<ag, obj, todo>>
serverVars == <<started, server, addr>>
natVars    == <<nat, jumps>>
envVars    == <<listed, changes, faults>>
vars == <<cr, fresh, opVars, queueVars, ctlVars, serverVars, natVars, envVars>>

-----------------------------------------------------------------------------
(* What a spec asks the agent to have in force.                             *)

Chains == {"pre", "pst"}
Jumps  == {"PREROUTING", "POSTROUTING"}

DNATRules(spec) == { <<spec.ip, r.src, r.tport, r.relay>> : r \in spec.rules }
SNATRules(spec) == { <<r.dst, spec.ip, r.relay>> : r \in spec.rules }

getExpectedIptablesRule(spec) ==
    [c \in Chains |-> IF c = "pre" THEN DNATRules(spec) ELSE SNATRules(spec)]

\* Slip, used to test the properties: the error is not looked at.
GetHexIPFails_Never(ip) == FALSE

GetHexIPFails(ip) == ip = NoIP

\* A server without an address listens on all of them.
IsPortOpen(ip) ==
    \/ ip = GatewayIP /\ addr /\ \E i \in IPs : server[i] = "listening"
    \/ ip = NoIP /\ server[NoIP] = "listening"

\* Slip, used to test the properties: only the chains are looked at.
checkSshdRunning_InMap(ip) == ip \in started

checkSshdRunning(ip) == IsPortOpen(ip)

checkIptablesRulesApplied(spec) ==
    /\ ~GetHexIPFails(spec.ip)
    /\ \A c \in Chains : getExpectedIptablesRule(spec)[c] \subseteq nat[c]
    /\ jumps = Jumps

ruleSynced(spec) == checkSshdRunning(spec.ip) /\ checkIptablesRulesApplied(spec)

\* Exactly the rules of the spec are in force, and its server was started.
Applied(spec) ==
    /\ spec.ip \in started
    /\ nat = getExpectedIptablesRule(spec) /\ jumps = Jumps

NatIn(spec) == \A c \in Chains : nat[c] \subseteq getExpectedIptablesRule(spec)[c]

-----------------------------------------------------------------------------
NoNat == [c \in Chains |-> {}]
NoCR  == [FreshCR(NoSpec) EXCEPT !.rv = 0]

Init ==
    /\ cr = NoCR /\ fresh = {}
    /\ listed \in SUBSET Rules
    /\ queue = {"update"} /\ mode = "update" /\ named = TRUE
    /\ op = "idle" /\ opObj = NoCR /\ plan = {}
    /\ event = FALSE /\ dirty = FALSE
    /\ ag = "idle" /\ obj = NoCR /\ todo = {}
    /\ started = {} /\ server = [i \in IPs |-> "none"] /\ addr \in BOOLEAN
    /\ nat = NoNat /\ jumps = {}
    /\ changes = 0 /\ faults = 0

\* Slip, used to test the properties: no optimistic concurrency.
IsCurrent_Unchecked(who) == TRUE

IsCurrent(who) == who \in fresh

\* A write that changes the resource makes the watch send an event, and leaves
\* a current copy with those who store its answer.
Publish(c, holders) ==
    IF c.rv = cr.rv
    THEN /\ fresh' = fresh \cup holders
         /\ UNCHANGED <<cr, event>>
    ELSE /\ cr' = [c EXCEPT !.rv = 1]
         /\ fresh' = holders
         /\ event' = TRUE

Fault == faults < MaxFaults /\ faults' = faults + 1

-----------------------------------------------------------------------------
(* The operator, as far as it concerns this gateway. The requests of all    *)
(* services that name it are one "update"; a service that is deleted makes  *)
(* a "cleanup", which updates the gateways there are. The rules come from   *)
(* the Forwarders that the operator's cache lists. The cache lags behind    *)
(* the API server, where the same reconcile wrote its Forwarder just before *)
(* (or behind a Delete), and nothing asks the operator to look again when   *)
(* it catches up: nobody watches Forwarders.                                *)

OpEnd(requests) ==
    /\ op' = "idle" /\ opObj' = NoCR /\ plan' = {} /\ mode' = "update" /\ named' = TRUE
    /\ queue' = requests

\* Slip, used to test the properties: the error is logged, and nil returned.
Requeued_Swallowed == queue

\* The request is tried again, which is an update of this gateway only if the
\* service still names it.
Requeued == queue \cup {m \in {mode} : named}

OpError == OpEnd(Requeued) /\ fresh' = fresh \ {"operator"} /\ UNCHANGED <<cr, event>>

\* List the forwarders, as the cache has them; get the resource, or Create it.
OpGet ==
    /\ op = "idle"
    /\ \E m \in queue :
         /\ m = "update" \/ cr.rv # 0
         /\ mode' = m /\ queue' = queue \ {m}
    /\ plan' = listed /\ named' = TRUE
    /\ \/ cr.rv # 0 /\ fresh' = fresh \cup {"operator"} /\ UNCHANGED <<cr, event>>
       \/ cr.rv = 0 /\ Publish(FreshCR(NoSpec), {"operator"})
    /\ opObj' = cr'
    /\ op' = "mark"
    /\ UNCHANGED <<dirty, ctlVars, serverVars, natVars, envVars>>

\* There is no such gateway to clean up.
OpNothing ==
    /\ op = "idle" /\ "cleanup" \in queue /\ cr.rv = 0
    /\ OpEnd(queue \ {"cleanup"})
    /\ UNCHANGED <<cr, fresh, queueVars, ctlVars, serverVars, natVars, envVars>>

\* SetCondition says that Updating was True already: nothing to send.
OpMarked ==
    /\ op = "mark" /\ opObj.updating = "True"
    /\ op' = "write"
    /\ UNCHANGED <<cr, fresh, queue, mode, named, opObj, plan, queueVars, ctlVars, serverVars, natVars, envVars>>

OpMark ==
    /\ op = "mark" /\ opObj.updating # "True" /\ IsCurrent("operator")
    /\ Publish(StatusWritten(MarkUpdating(opObj), cr), {"operator"})
    /\ opObj' = cr'
    /\ op' = "write"
    /\ UNCHANGED <<queue, mode, named, plan, dirty, ctlVars, serverVars, natVars, envVars>>

\* A cleanup keeps the address it found in the resource.
NewSpec == [ip |-> IF mode = "update" THEN GatewayIP ELSE opObj.spec.ip, rules |-> plan]

OpWrite ==
    /\ op = "write" /\ IsCurrent("operator")
    /\ Publish(SpecWritten(NewSpec, cr), {"operator"})
    /\ opObj' = cr' /\ plan' = {}
    /\ op' = "finish"
    /\ UNCHANGED <<queue, mode, named, dirty, ctlVars, serverVars, natVars, envVars>>

OpFinish ==
    /\ op = "finish" /\ IsCurrent("operator")
    /\ Publish(StatusWritten(MarkUpdated(opObj), cr), {})
    /\ OpEnd(queue)
    /\ UNCHANGED <<dirty, ctlVars, serverVars, natVars, envVars>>

OpConflict ==
    /\ \/ op = "mark" /\ opObj.updating # "True"
       \/ op \in {"write", "finish"}
    /\ ~IsCurrent("operator")
    /\ OpError
    /\ UNCHANGED <<dirty, ctlVars, serverVars, natVars, envVars>>

OpStep == OpGet \/ OpNothing \/ OpMarked \/ OpMark \/ OpWrite \/ OpFinish \/ OpConflict

\* A call fails, or the operator restarts.
OpFails ==
    /\ op # "idle" /\ Fault
    /\ OpError
    /\ UNCHANGED <<dirty, ctlVars, serverVars, natVars, listed, changes>>

\* The last status is written and its answer is lost. (For the other writes
\* this comes to the same as a failure right after them.)
OpAnswerLost ==
    /\ op = "finish" /\ IsCurrent("operator") /\ Fault
    /\ Publish(StatusWritten(MarkUpdated(opObj), cr), {})
    /\ OpEnd(Requeued)
    /\ UNCHANGED <<dirty, ctlVars, serverVars, natVars, listed, changes>>

\* What a change among the services leaves of the request that some named the gateway.
Withdrawn == {queue \ {"update"}, (queue \ {"update"}) \cup {"cleanup"}}

\* Forwarders are written, created or deleted, and the cache gets to know it; whether a
\* request comes with it or not is another matter. A request may come: a service that
\* names the gateway is to be reconciled, or one is deleted. Or one may go: a service
\* stops naming the gateway, or is deleted, before its request is taken or while it is
\* at hand, so that its (next) reconcile leaves this gateway alone or is a cleanup.
Change ==
    /\ changes < MaxChanges /\ changes' = changes + 1
    /\ listed' \in SUBSET Rules
    /\ \/ \E m \in {"update", "cleanup"} : queue' \in {queue, queue \cup {m}} /\ UNCHANGED named
       \/ "update" \in queue /\ queue' \in Withdrawn /\ UNCHANGED named
       \/ op # "idle" /\ mode = "update" /\ named' = FALSE
          /\ queue' \in {queue, queue \cup {"cleanup"}}
    /\ UNCHANGED <<cr, fresh, mode, op, opObj, plan, queueVars, ctlVars, serverVars, natVars, faults>>

-----------------------------------------------------------------------------
(* The agent's controller.                                                  *)

Deliver ==
    /\ event
    /\ event' = FALSE /\ dirty' = TRUE
    /\ UNCHANGED <<cr, fresh, opVars, ctlVars, serverVars, natVars, envVars>>

Resync ==
    /\ cr.rv # 0 /\ ~dirty
    /\ dirty' = TRUE
    /\ UNCHANGED <<cr, fresh, opVars, event, ctlVars, serverVars, natVars, envVars>>

Take ==
    /\ ag = "idle" /\ dirty
    /\ dirty' = FALSE /\ ag' = "get"
    /\ UNCHANGED <<cr, fresh, opVars, event, obj, todo, serverVars, natVars, envVars>>

\* Slip, used to test the properties: the error is dropped.
Return_Forget(err) == ag' = "idle" /\ obj' = NoCR /\ todo' = {} /\ UNCHANGED dirty

\* Reconcile returns: on an error the key is added again. (It is added after a delay,
\* which is the time that passes here before Take.)
Return(err) == ag' = "idle" /\ obj' = NoCR /\ todo' = {} /\ dirty' = (dirty \/ err)

-----------------------------------------------------------------------------
(* The agent's reconciler.                                                  *)

Get ==
    /\ ag = "get"
    /\ \/ needSync(cr) /\ ag' = "mark"
       \/ needCheckSync(cr) /\ ag' = "check"
    /\ obj' = cr /\ fresh' = fresh \cup {"agent"}
    /\ UNCHANGED <<cr, opVars, queueVars, todo, serverVars, natVars, envVars>>

GetNothingToDo ==
    /\ ag = "get" /\ ~needSync(cr) /\ ~needCheckSync(cr)
    /\ Return(FALSE)
    /\ UNCHANGED <<cr, fresh, opVars, event, serverVars, natVars, envVars>>

Marked ==
    /\ ag = "mark" /\ obj.syncing = "True"
    /\ ag' = "sshd"
    /\ UNCHANGED <<cr, fresh, opVars, queueVars, obj, todo, serverVars, natVars, envVars>>

\* As in the forwarder, the caller's copy keeps the old resource version.
Mark ==
    /\ ag = "mark" /\ obj.syncing # "True" /\ IsCurrent("agent")
    /\ Publish(StatusWritten(MarkSyncing(obj), cr), {})
    /\ obj' = MarkSyncing(obj)
    /\ ag' = "sshd"
    /\ UNCHANGED <<opVars, dirty, todo, serverVars, natVars, envVars>>

\* ensureSshdRunning: a server that is in the map is taken for a running one.
StartServer ==
    /\ ag = "sshd" /\ obj.spec.ip \notin started
    /\ started' = started \cup {obj.spec.ip}
    /\ server' = [server EXCEPT ![obj.spec.ip] = "trying"]
    /\ ag' = "rules"
    /\ UNCHANGED <<cr, fresh, opVars, queueVars, obj, todo, addr, natVars, envVars>>

SkipServer ==
    /\ ag = "sshd" /\ obj.spec.ip \in started
    /\ ag' = "rules"
    /\ UNCHANGED <<cr, fresh, opVars, queueVars, obj, todo, serverVars, natVars, envVars>>

\* getExpectedIptablesRule names the chains after the address.
NoHexIP ==
    /\ ag = "rules" /\ GetHexIPFails(obj.spec.ip)
    /\ fresh' = fresh \ {"agent"}
    /\ Return(TRUE)
    /\ UNCHANGED <<cr, opVars, event, serverVars, natVars, envVars>>

StartChains ==
    /\ ag = "rules" /\ ~GetHexIPFails(obj.spec.ip)
    /\ ag' = "flush" /\ todo' = Chains
    /\ UNCHANGED <<cr, fresh, opVars, queueVars, obj, serverVars, natVars, envVars>>

\* Slip, used to test the properties: as AddChains does, nothing is cleared.
Cleared_Not(chain) == chain

Cleared(chain) == {}

\* ReplaceChains: clear both chains, then fill them rule by rule.
ClearChain ==
    /\ ag = "flush"
    /\ \E c \in todo :
         /\ nat' = [nat EXCEPT ![c] = Cleared(@)]
         /\ todo' = todo \ {c}
         /\ ag' = IF todo' = {} THEN "append" ELSE "flush"
    /\ UNCHANGED <<cr, fresh, opVars, queueVars, obj, serverVars, jumps, envVars>>

AppendRule ==
    /\ ag = "append"
    /\ \E c \in Chains : \E r \in getExpectedIptablesRule(obj.spec)[c] \ nat[c] :
         nat' = [nat EXCEPT ![c] = @ \cup {r}]
    /\ UNCHANGED <<cr, fresh, opVars, queueVars, ctlVars, serverVars, jumps, envVars>>

Appended ==
    /\ ag = "append"
    /\ \A c \in Chains : getExpectedIptablesRule(obj.spec)[c] \subseteq nat[c]
    /\ ag' = "jump"
    /\ UNCHANGED <<cr, fresh, opVars, queueVars, obj, todo, serverVars, natVars, envVars>>

\* AddChains: a jump that is there is left alone.
AddJump ==
    /\ ag = "jump"
    /\ \E c \in Jumps \ jumps : jumps' = jumps \cup {c}
    /\ UNCHANGED <<cr, fresh, opVars, queueVars, ctlVars, serverVars, nat, envVars>>

Announce ==
    /\ ag = "jump" /\ jumps = Jumps /\ IsCurrent("agent")
    /\ Publish(StatusWritten(MarkSynced(obj), cr), {})
    /\ Return(FALSE)
    /\ UNCHANGED <<opVars, serverVars, natVars, envVars>>

CheckOK ==
    /\ ag = "check" /\ ruleSynced(obj.spec)
    /\ fresh' = fresh \ {"agent"}
    /\ Return(FALSE)
    /\ UNCHANGED <<cr, opVars, event, serverVars, natVars, envVars>>

CheckFailed ==
    /\ ag = "check" /\ ~ruleSynced(obj.spec)
    /\ ag' = "recall"
    /\ UNCHANGED <<cr, fresh, opVars, queueVars, obj, todo, serverVars, natVars, envVars>>

Recall ==
    /\ ag = "recall" /\ IsCurrent("agent")
    /\ Publish(StatusWritten(MarkSyncing(obj), cr), {})
    /\ Return(FALSE)
    /\ UNCHANGED <<opVars, serverVars, natVars, envVars>>

Conflict ==
    /\ \/ ag = "mark" /\ obj.syncing # "True"
       \/ ag = "jump" /\ jumps = Jumps
       \/ ag = "recall"
    /\ ~IsCurrent("agent")
    /\ Return(TRUE)
    /\ UNCHANGED <<cr, fresh, opVars, event, serverVars, natVars, envVars>>

AgentStep ==
    \/ Take \/ Get \/ GetNothingToDo \/ Marked \/ Mark \/ StartServer \/ SkipServer
    \/ NoHexIP \/ StartChains \/ ClearChain \/ AppendRule \/ Appended \/ AddJump \/ Announce
    \/ CheckOK \/ CheckFailed \/ Recall \/ Conflict

\* An API call or an iptables command fails.
AgentFails ==
    /\ ag \in {"get", "mark", "flush", "append", "jump", "recall"} /\ Fault
    /\ fresh' = fresh \ {"agent"}
    /\ Return(TRUE)
    /\ UNCHANGED <<cr, opVars, event, serverVars, natVars, listed, changes>>

\* A failed command, or a connection that takes more than a second, is a failed check.
CheckErrs ==
    /\ ag = "check" /\ Fault
    /\ ag' = "recall"
    /\ UNCHANGED <<cr, fresh, opVars, queueVars, obj, todo, serverVars, natVars, listed, changes>>

AgentAnswerLost ==
    /\ Fault
    /\ IsCurrent("agent")
    /\ \/ ag = "mark" /\ obj.syncing # "True" /\ Publish(StatusWritten(MarkSyncing(obj), cr), {})
       \/ ag = "jump" /\ jumps = Jumps /\ Publish(StatusWritten(MarkSynced(obj), cr), {})
       \/ ag = "recall" /\ Publish(StatusWritten(MarkSyncing(obj), cr), {})
    /\ Return(TRUE)
    /\ UNCHANGED <<opVars, serverVars, natVars, listed, changes>>

\* The agent restarts alone, or with its host, whose nat table is lost.
Restart ==
    /\ Fault
    /\ fresh' = fresh \ {"agent"}
    /\ ag' = "idle" /\ obj' = NoCR /\ todo' = {}
    /\ event' = (cr.rv # 0) /\ dirty' = FALSE
    /\ started' = {} /\ server' = [i \in IPs |-> "none"]
    /\ \/ UNCHANGED natVars
       \/ nat' = NoNat /\ jumps' = {}
    /\ UNCHANGED <<cr, opVars, addr, listed, changes>>

-----------------------------------------------------------------------------
(* The servers: ListenAndServe with its backoff, in a goroutine each.       *)

Free(i) ==
    /\ i = GatewayIP => addr
    /\ \A j \in IPs : server[j] # "listening"

Listens(i) ==
    /\ server[i] = "trying" /\ Free(i)
    /\ server' = [server EXCEPT ![i] = "listening"]
    /\ UNCHANGED <<cr, fresh, opVars, queueVars, ctlVars, started, addr, natVars, envVars>>

\* The address is not on this host yet, or its port is taken. After 15 minutes,
\* whenever that is, the backoff gives up, and the goroutine ends.
GivesUp(i) ==
    /\ server[i] = "trying" /\ ~Free(i)
    /\ server' = [server EXCEPT ![i] = "ended"]
    /\ UNCHANGED <<cr, fresh, opVars, queueVars, ctlVars, started, addr, natVars, envVars>>

\* Accept fails: ListenAndServe returns, and the backoff goes on or gives up.
AcceptFails(i) ==
    /\ server[i] = "listening" /\ Fault
    /\ \E s \in {"trying", "ended"} : server' = [server EXCEPT ![i] = s]
    /\ UNCHANGED <<cr, fresh, opVars, queueVars, ctlVars, started, addr, natVars, listed, changes>>

\* Somebody gives the host the gateway's address, or takes it away.
MoveAddress ==
    /\ addr' = ~addr
    /\ UNCHANGED <<cr, fresh, opVars, queueVars, ctlVars, started, server, natVars, envVars>>

-----------------------------------------------------------------------------
Next ==
    \/ OpStep \/ OpFails \/ OpAnswerLost \/ Change
    \/ Deliver \/ Resync
    \/ AgentStep \/ AgentFails \/ CheckErrs \/ AgentAnswerLost \/ Restart
    \/ \E i \in IPs : Listens(i) \/ GivesUp(i) \/ AcceptFails(i)
    \/ MoveAddress

Spec == Init /\ [][Next]_vars

\* As in ForwarderSync; and the servers' goroutines run.
Fairness ==
    /\ WF_vars(OpStep) /\ WF_vars(AgentStep) /\ WF_vars(Deliver)
    /\ \A i \in IPs : WF_vars(Listens(i))

FairSpec == Spec /\ Fairness

-----------------------------------------------------------------------------
(* Properties.                                                              *)

AgentPCs == {"idle", "get", "mark", "sshd", "rules", "flush", "append", "jump", "check", "recall"}

NatRules == UNION { DNATRules(s) \cup SNATRules(s) : s \in Specs }

\* Every variable has its type.
TypeOK ==
    /\ fresh \subseteq {"operator", "agent"}
    /\ cr \in CR /\ obj \in CR /\ opObj \in CR
    /\ listed \subseteq Rules /\ plan \subseteq Rules
    /\ queue \subseteq {"update", "cleanup"} /\ mode \in {"update", "cleanup"} /\ named \in BOOLEAN
    /\ op \in {"idle", "mark", "write", "finish"} /\ ag \in AgentPCs
    /\ event \in BOOLEAN /\ dirty \in BOOLEAN
    /\ todo \subseteq Chains /\ jumps \subseteq Jumps
    /\ nat \in [Chains -> SUBSET NatRules]
    /\ started \subseteq IPs /\ addr \in BOOLEAN
    /\ server \in [IPs -> {"none", "trying", "listening", "ended"}]
    /\ changes \in 0..MaxChanges /\ faults \in 0..MaxFaults

\* A gateway whose address was never filled in is never announced: it is left
\* by an update that failed after Create, and completed by a cleanup.
AnnouncedHasAddress == Synced(cr) => cr.spec.ip = GatewayIP

\* Whenever the resource waits to be applied, or is announced though its chains,
\* its jumps or its server were lost, something will wake the agent. (Nothing like
\* it is true of the operator: it may have listed old rules, and a gateway that is
\* marked as updating stays so if the service whose update failed names another one.)
WorkPending == event \/ dirty \/ ag # "idle"
Unfinished  == needSync(cr) \/ (Synced(cr) /\ ~Applied(cr.spec))
NoLostSync  == Unfinished => WorkPending

\* When the agent has come to rest, with nothing left that would wake it, a gateway that
\* the operator completed has its address, is announced, and its rules are exactly those
\* in force.
RestIsServed ==
    ~WorkPending /\ cr.updating = "False" =>
        cr.spec.ip = GatewayIP /\ Synced(cr) /\ Applied(cr.spec)

\* While the gateway is announced, its chains hold nothing it does not ask for.
NoLeftovers == Synced(cr) => NatIn(cr.spec)

\* The step that announces the gateway does so for the spec that is in the API server
\* at that moment, with its chains, jumps and server in force.
AnnouncesOnlyApplied ==
    [][~Synced(cr) /\ Synced(cr)' => Applied(cr.spec)']_vars

\* Address and rules change only while the gateway is marked as updating, or before
\* it ever was.
ChangesOnlyWhileUpdating ==
    [][cr'.spec # cr.spec => cr.updating # "False" /\ cr'.updating # "False"]_vars

\* The inductive invariant behind the safety properties, part by part.

\* The operator's copy: if current it is the resource, and from the moment Updating
\* was sent it says so.
OpCopy ==
    /\ op = "idle" => "operator" \notin fresh
    /\ op # "idle" => cr.rv # 0 /\ ("operator" \in fresh => opObj = cr)
    /\ op \in {"write", "finish"} => opObj.updating = "True"

Passing == ag \in {"mark", "sshd", "rules", "flush", "append", "jump"}
Checking == ag \in {"check", "recall"}

\* The agent's copy: if current it is the resource, and if not a wake-up is on its
\* way; and it says what made the reconcile choose its branch.
AgentCopy ==
    /\ ag \in {"idle", "get"} => "agent" \notin fresh
    /\ Passing \/ Checking =>
          IF "agent" \in fresh THEN obj = cr /\ cr.rv # 0 ELSE event \/ dirty
    /\ ag = "mark" => needSync(obj)
    /\ Passing /\ ag # "mark" => obj.updating = "False" /\ obj.syncing = "True"
    /\ Checking => Synced(obj)

\* Only the agent announces, so the resource is not announced during a pass.
NotAnnouncedWhilePassing == Passing => ~Synced(cr)

\* How far the pass is in putting the rules of the copy in force.
Progress ==
    /\ ag \in {"rules", "flush", "append", "jump"} => obj.spec.ip \in started
    /\ ag \in {"flush", "append", "jump"} => obj.spec.ip = GatewayIP
    /\ ag = "flush" => \A c \in Chains \ todo : nat[c] = {}
    /\ ag \in {"append", "jump"} => NatIn(obj.spec)
    /\ ag = "jump" => nat = getExpectedIptablesRule(obj.spec)

\* An open port is one of a server in the map; while the gateway is announced, the
\* server without an address does not stand in for one that a restart took away.
Servers ==
    /\ \A i \in IPs : server[i] # "none" => i \in started
    /\ Synced(cr) => started = {} \/ GatewayIP \in started

\* A status that is neither updating nor synced asks for a pass.
StatusDecided ==
    /\ cr.rv = 0 => cr = NoCR
    /\ cr.sg <= cr.rg
    /\ cr.updating = "False" => needSync(cr) \/ Synced(cr)

IInv ==
    /\ TypeOK /\ StatusDecided /\ OpCopy /\ AgentCopy /\ NotAnnouncedWhilePassing
    /\ Progress /\ Servers /\ AnnouncedHasAddress /\ NoLeftovers /\ NoLostSync

\* The resource as its reader sees it.
phase ==
    CASE cr.updating # "False" -> "updating"
      [] cr.updating = "False" /\ Synced(cr) -> "synced"
      [] OTHER -> "pending"

Delivery == INSTANCE RuleDelivery WITH spec <- cr.spec, good <- Applied(cr.spec)

\* The protocol of operator and gateway agent implements RuleDelivery, too.
ImplementsRuleDelivery == Delivery!Spec

\* Once the address stays on the host, and if the server never gives up, whatever the
\* operator completed is announced, in force and reachable for good (but a gateway
\* whose address was never filled in has none to be reached at); and an update that is
\* requested once list and requests change no more, however its calls fail or conflict,
\* brings the gateway to serve the rules that are listed. Rules that are listed only
\* after the last request was taken are not promised: nothing asks for them.
Served == Synced(cr) /\ Applied(cr.spec) /\ IsPortOpen(GatewayIP)
AskedIsServed ==
    (changes = MaxChanges /\ "update" \in queue) ~> (Served /\ cr.spec.rules = listed)
EventuallyServed ==
    <>[](addr /\ server[GatewayIP] # "ended") =>
        <>[](cr.updating = "False" => Served \/ cr.spec.ip = NoIP) /\ AskedIsServed

\* As long as something wakes the agent (the informer's resync does, every 30 s), a
\* gateway does not stay announced for ever while its port is closed: the check that
\* connects to the port notices a dead server though it is in the map, and recalls it.
DeadServerNoticed ==
    []<>dirty => []<>(~Synced(cr) \/ IsPortOpen(GatewayIP))
=============================================================================
