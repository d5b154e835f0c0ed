-------------------------- MODULE GatewaySyncProofs --------------------------
(***************************************************************************)
(* For every set of rules, and any number of changes and faults: what the  *)
(* gateway agent announces is in force and complete, no work is forgotten, *)
(* and the protocol implements RuleDelivery.                               *)
(***************************************************************************)
EXTENDS GatewaySync, TLAPS

USE AddressAssumption, BoundsAssumption

-----------------------------------------------------------------------------
(* The resource, and the writes of operator and agent to it.                *)

LEMMA NoCRType == NoCR \in CR /\ NoCR.rv = 0 /\ NoCR.updating = "absent" /\ NoSpec \in Specs
  BY DEF NoCR, FreshCR, CR, CondStatus, Specs, NoSpec, IPs

\* The resource after each of the six writes.
Created ==
    /\ cr.rv = 0 /\ cr'.spec = NoSpec /\ cr'.updating = "absent" /\ cr'.syncing = "absent"
    /\ cr'.rg = 0 /\ cr'.sg = 0
MarkedUpdating ==
    /\ cr'.updating = "True" /\ cr'.spec = cr.spec /\ cr'.rg = cr.rg /\ cr'.sg = cr.sg
SpecChanged ==
    /\ cr.updating = "True" /\ cr'.updating = "True" /\ cr'.rg = cr.rg /\ cr'.sg = cr.sg
MarkedUpdated ==
    /\ cr.updating = "True" /\ cr'.updating = "False" /\ cr'.syncing = "Unknown"
    /\ cr'.spec = cr.spec /\ cr'.rg = cr.rg + 1 /\ cr'.sg = cr.sg
MarkedSyncing ==
    /\ cr.updating = "False" /\ cr'.updating = "False" /\ cr'.syncing = "True"
    /\ cr'.spec = cr.spec /\ cr'.rg = cr.rg /\ cr'.sg = cr.sg
Announced ==
    /\ ag = "jump" /\ ag' = "idle" /\ jumps = Jumps /\ "agent" \in fresh
    /\ UNCHANGED <<serverVars, natVars>>
    /\ cr.updating = "False" /\ cr'.updating = "False" /\ cr'.syncing = "False"
    /\ cr'.spec = cr.spec /\ cr'.rg = cr.rg /\ cr'.sg = cr.rg

LEMMA StatusWrite ==
    ASSUME cr \in CR, NEW x \in CR, NEW holders, Publish(StatusWritten(x, cr), holders)
    PROVE  /\ cr' \in CR /\ cr'.rv = 1 /\ event' = TRUE /\ fresh' = holders
           /\ cr'.spec = cr.spec /\ cr'.updating = x.updating /\ cr'.syncing = x.syncing
           /\ cr'.rg = x.rg /\ cr'.sg = x.sg
  <1> DEFINE w == StatusWritten(x, cr)
  <1>1. cr.rv \in Nat /\ cr.rv + 1 \in Nat /\ cr.rv + 1 # cr.rv /\ cr.spec \in Specs
    BY DEF CR
  <1>2. /\ w \in CR /\ w.rv = cr.rv + 1 /\ w.spec = cr.spec
        /\ w.updating = x.updating /\ w.syncing = x.syncing /\ w.rg = x.rg /\ w.sg = x.sg
    BY <1>1 DEF CR, StatusWritten
  <1>3. Publish(w, holders)
    OBVIOUS
  <1> HIDE DEF w
  <1>4. cr' = [w EXCEPT !.rv = 1] /\ event' = TRUE /\ fresh' = holders
    BY <1>1, <1>2, <1>3 DEF Publish
  <1> QED BY <1>2, <1>4 DEF CR

LEMMA Marks ==
    ASSUME NEW o \in CR
    PROVE  /\ MarkUpdating(o) \in CR
           /\ MarkUpdating(o).updating = "True"
           /\ MarkUpdating(o).rg = o.rg /\ MarkUpdating(o).sg = o.sg
           /\ MarkUpdated(o) \in CR
           /\ MarkUpdated(o).updating = "False" /\ MarkUpdated(o).syncing = "Unknown"
           /\ MarkUpdated(o).rg = o.rg + 1 /\ MarkUpdated(o).sg = o.sg
           /\ MarkSyncing(o) \in CR
           /\ MarkSyncing(o).spec = o.spec
           /\ MarkSyncing(o).updating = o.updating /\ MarkSyncing(o).syncing = "True"
           /\ MarkSyncing(o).rg = o.rg /\ MarkSyncing(o).sg = o.sg
           /\ MarkSynced(o) \in CR
           /\ MarkSynced(o).updating = o.updating /\ MarkSynced(o).syncing = "False"
           /\ MarkSynced(o).rg = o.rg /\ MarkSynced(o).sg = o.rg
  <1>1. MarkUpdating(o) \in CR
    BY DEF CR, CondStatus, MarkUpdating
  <1>2. MarkUpdated(o) \in CR
    <2>1. o.rg \in Nat /\ o.rg + 1 \in Nat
      BY DEF CR
    <2> QED BY <2>1 DEF CR, CondStatus, MarkUpdated
  <1>3. MarkSyncing(o) \in CR
    BY DEF CR, CondStatus, MarkSyncing
  <1>4. MarkSynced(o) \in CR
    BY DEF CR, CondStatus, MarkSynced
  <1> QED BY <1>1, <1>2, <1>3, <1>4 DEF CR, MarkUpdating, MarkUpdated, MarkSyncing, MarkSynced

\* What the two specs the operator may write have for an address.
LEMMA NewSpecType == ASSUME TypeOK PROVE NewSpec \in Specs
  BY DEF TypeOK, NewSpec, Specs, CR, IPs

LEMMA SpecWrite ==
    ASSUME cr \in CR, NEW s \in Specs, NEW holders, Publish(SpecWritten(s, cr), holders)
    PROVE  /\ cr' \in CR /\ cr'.spec = s /\ cr'.updating = cr.updating /\ cr'.syncing = cr.syncing
           /\ cr'.rg = cr.rg /\ cr'.sg = cr.sg
           /\ \/ cr' = cr /\ event' = event /\ fresh' = fresh \cup holders
              \/ cr'.rv = 1 /\ event' = TRUE /\ fresh' = holders
  <1>1. CASE s = cr.spec
    BY <1>1 DEF Publish, SpecWritten
  <1>2. CASE s # cr.spec
    <2> DEFINE w == [cr EXCEPT !.rv = cr.rv + 1, !.spec = s]
    <2>1. cr.rv \in Nat /\ cr.rv + 1 \in Nat /\ cr.rv + 1 # cr.rv
      BY DEF CR
    <2>2. /\ w \in CR /\ w.rv = cr.rv + 1 /\ w.spec = s /\ w.updating = cr.updating
          /\ w.syncing = cr.syncing /\ w.rg = cr.rg /\ w.sg = cr.sg
      BY <2>1 DEF CR
    <2>3. Publish(w, holders)
      BY <1>2 DEF SpecWritten
    <2> HIDE DEF w
    <2>4. cr' = [w EXCEPT !.rv = 1] /\ event' = TRUE /\ fresh' = holders
      BY <2>1, <2>2, <2>3 DEF Publish
    <2> QED BY <2>2, <2>4 DEF CR
  <1> QED BY <1>1, <1>2

LEMMA CreateWrite ==
    ASSUME cr.rv = 0, NEW holders, Publish(FreshCR(NoSpec), holders)
    PROVE  /\ cr' \in CR /\ cr'.rv = 1 /\ event' = TRUE /\ fresh' = holders
           /\ Created
  BY DEF Publish, FreshCR, CR, CondStatus, Created, Specs, NoSpec, IPs

\* The four writes of the status and the one of the rules, when they are accepted.
LEMMA OpWrites ==
    ASSUME TypeOK, OpCopy
    PROVE  /\ OpMark => MarkedUpdating /\ fresh' = {"operator"} /\ event' = TRUE
           /\ OpWrite => SpecChanged /\ (cr' = cr \/ event' = TRUE)
           /\ OpFinish \/ OpAnswerLost => MarkedUpdated /\ fresh' = {} /\ event' = TRUE
           /\ OpMark \/ OpWrite \/ OpFinish \/ OpAnswerLost => cr' \in CR /\ (cr' = cr \/ cr'.rv = 1)
  <1>0. cr \in CR /\ opObj \in CR
    BY DEF TypeOK
  <1>1. CASE OpMark
    <2>1. Publish(StatusWritten(MarkUpdating(cr), cr), {"operator"})
      BY <1>1 DEF OpMark, OpCopy, IsCurrent
    <2>2. MarkUpdating(cr) \in CR
      BY <1>0, Marks
    <2>3. /\ cr' \in CR /\ cr'.rv = 1 /\ event' = TRUE /\ cr'.spec = cr.spec
          /\ cr'.updating = MarkUpdating(cr).updating /\ fresh' = {"operator"}
          /\ cr'.rg = MarkUpdating(cr).rg /\ cr'.sg = MarkUpdating(cr).sg
      BY <1>0, <2>1, <2>2, StatusWrite
    <2>4. MarkedUpdating
      BY <1>0, <2>3, Marks DEF MarkedUpdating
    <2> QED BY <1>1, <2>3, <2>4 DEF OpMark, OpWrite, OpFinish, OpAnswerLost
  <1>2. CASE OpWrite
    <2>1. opObj = cr /\ opObj.updating = "True" /\ Publish(SpecWritten(NewSpec, cr), {"operator"})
      BY <1>2 DEF OpWrite, OpCopy, IsCurrent
    <2>2. /\ cr' \in CR /\ SpecChanged
          /\ (cr' = cr \/ event' = TRUE) /\ (cr' = cr \/ cr'.rv = 1)
      BY <1>0, <2>1, SpecWrite, NewSpecType DEF SpecChanged
    <2> QED BY <1>2, <2>2 DEF OpMark, OpWrite, OpFinish, OpAnswerLost
  <1>3. CASE OpFinish \/ OpAnswerLost
    <2>1. /\ opObj = cr /\ opObj.updating = "True"
          /\ Publish(StatusWritten(MarkUpdated(cr), cr), {})
      BY <1>3 DEF OpFinish, OpAnswerLost, OpCopy, IsCurrent
    <2>2. MarkUpdated(cr) \in CR
      BY <1>0, Marks
    <2>3. /\ cr' \in CR /\ cr'.rv = 1 /\ event' = TRUE /\ cr'.spec = cr.spec /\ fresh' = {}
          /\ cr'.updating = MarkUpdated(cr).updating /\ cr'.syncing = MarkUpdated(cr).syncing
          /\ cr'.rg = MarkUpdated(cr).rg /\ cr'.sg = MarkUpdated(cr).sg
      BY <1>0, <2>1, <2>2, StatusWrite
    <2>4. MarkedUpdated
      BY <1>0, <2>1, <2>3, Marks DEF MarkedUpdated
    <2> QED BY <1>3, <2>3, <2>4 DEF OpMark, OpWrite, OpFinish, OpAnswerLost
  <1> QED BY <1>1, <1>2, <1>3

LEMMA AgentWrites ==
    ASSUME TypeOK, AgentCopy
    PROVE  /\ Mark \/ Recall => MarkedSyncing
           /\ Announce => Announced
           /\ AgentAnswerLost => MarkedSyncing \/ Announced
           /\ Mark \/ Recall \/ Announce \/ AgentAnswerLost =>
                 cr' \in CR /\ cr'.rv = 1 /\ fresh' = {} /\ event' = TRUE
  <1>0. cr \in CR /\ obj \in CR
    BY DEF TypeOK
  <1>1. CASE Mark \/ (AgentAnswerLost /\ ag = "mark") \/ Recall \/ (AgentAnswerLost /\ ag = "recall")
    <2>1. obj = cr /\ obj.updating = "False" /\ Publish(StatusWritten(MarkSyncing(cr), cr), {})
      BY <1>1 DEF Mark, AgentAnswerLost, Recall, AgentCopy, IsCurrent, Passing, Checking,
                  needSync, needCheckSync, Synced
    <2>2. MarkSyncing(cr) \in CR
      BY <1>0, Marks
    <2>3. /\ cr' \in CR /\ cr'.rv = 1 /\ event' = TRUE /\ cr'.spec = cr.spec /\ fresh' = {}
          /\ cr'.updating = MarkSyncing(cr).updating /\ cr'.syncing = MarkSyncing(cr).syncing
          /\ cr'.rg = MarkSyncing(cr).rg /\ cr'.sg = MarkSyncing(cr).sg
      BY <1>0, <2>1, <2>2, StatusWrite
    <2>4. MarkedSyncing
      BY <1>0, <2>1, <2>3, Marks DEF MarkedSyncing
    <2> QED BY <1>1, <2>3, <2>4 DEF Announce, Mark, Recall
  <1>2. CASE Announce \/ (AgentAnswerLost /\ ag = "jump")
    <2>1. /\ obj = cr /\ obj.updating = "False" /\ Publish(StatusWritten(MarkSynced(cr), cr), {})
          /\ ag = "jump" /\ ag' = "idle" /\ jumps = Jumps /\ "agent" \in fresh
          /\ UNCHANGED <<serverVars, natVars>>
      BY <1>2 DEF Announce, AgentAnswerLost, AgentCopy, IsCurrent, Passing, Return
    <2>2. MarkSynced(cr) \in CR
      BY <1>0, Marks
    <2>3. /\ cr' \in CR /\ cr'.rv = 1 /\ event' = TRUE /\ cr'.spec = cr.spec /\ fresh' = {}
          /\ cr'.updating = MarkSynced(cr).updating /\ cr'.syncing = MarkSynced(cr).syncing
          /\ cr'.rg = MarkSynced(cr).rg /\ cr'.sg = MarkSynced(cr).sg
      BY <1>0, <2>1, <2>2, StatusWrite
    <2>4. Announced
      BY <1>0, <2>1, <2>3, Marks DEF Announced
    <2> QED BY <1>2, <2>3, <2>4 DEF Announce, Mark, Recall
  <1>3. AgentAnswerLost => ag \in {"mark", "jump", "recall"}
    BY DEF AgentAnswerLost
  <1> QED BY <1>1, <1>2, <1>3

\* A step leaves the resource alone, or is one of the six writes, of which the watch
\* tells the agent.
Wrote == Created \/ MarkedUpdating \/ SpecChanged \/ MarkedUpdated \/ MarkedSyncing \/ Announced

LEMMA ResourceStep ==
    ASSUME TypeOK, StatusDecided, OpCopy, AgentCopy, [Next]_vars
    PROVE  /\ cr' \in CR
           /\ \/ cr' = cr
              \/ cr'.rv = 1 /\ event' = TRUE /\ Wrote
  <1> USE DEF Wrote
  <1>0. cr \in CR
    BY DEF TypeOK
  <1>1. CASE OpGet
    BY <1>0, <1>1, CreateWrite DEF OpGet
  <1>2. CASE OpMark \/ OpWrite \/ OpFinish \/ OpAnswerLost
    BY <1>2, OpWrites
  <1>3. CASE Mark \/ Recall \/ Announce \/ AgentAnswerLost
    BY <1>3, AgentWrites
  <1>4. CASE OpNothing \/ OpMarked \/ OpConflict \/ OpFails \/ Change \/ Deliver \/ Resync
    BY <1>0, <1>4 DEF OpNothing, OpMarked, OpConflict, OpFails, OpError, Change, Deliver, Resync
  <1>5. CASE \/ Take \/ Get \/ GetNothingToDo \/ Marked \/ StartServer \/ SkipServer
             \/ NoHexIP \/ StartChains \/ ClearChain \/ AppendRule \/ Appended \/ AddJump
             \/ CheckOK \/ CheckFailed \/ Conflict \/ AgentFails \/ CheckErrs \/ Restart
    BY <1>0, <1>5 DEF Take, Get, GetNothingToDo, Marked, StartServer, SkipServer, NoHexIP,
         StartChains, ClearChain, AppendRule, Appended, AddJump, CheckOK, CheckFailed, Conflict,
         AgentFails, CheckErrs, Restart
  <1>6. CASE (\E i \in IPs : Listens(i) \/ GivesUp(i) \/ AcceptFails(i)) \/ MoveAddress
    BY <1>0, <1>6 DEF Listens, GivesUp, AcceptFails, MoveAddress
  <1>7. CASE UNCHANGED vars
    BY <1>0, <1>7 DEF vars
  <1> QED BY <1>1, <1>2, <1>3, <1>4, <1>5, <1>6, <1>7 DEF Next, OpStep, AgentStep

\* What a step may do to the status, as its readers see it.
LEMMA StatusStep ==
    ASSUME TypeOK, StatusDecided, OpCopy, AgentCopy, [Next]_vars
    PROVE  /\ StatusDecided'
           /\ cr.rv # 0 => cr'.rv # 0
           /\ cr' = cr \/ event'
           /\ Synced(cr)' => cr' = cr \/ Announced
           /\ cr'.spec # cr.spec => cr.updating # "False" /\ cr'.updating # "False"
           /\ cr.updating # "False" /\ cr'.updating = "False" => cr'.spec = cr.spec
  <1>1. /\ cr \in CR /\ cr' \in CR
        /\ cr' = cr \/ (cr'.rv = 1 /\ event' = TRUE /\ Wrote)
    BY ResourceStep DEF TypeOK
  <1>2. cr.rv = 0 => cr.updating = "absent" /\ cr.spec = NoSpec
    BY NoCRType DEF StatusDecided, NoCR, FreshCR
  <1>3. CASE cr' = cr
    BY <1>3 DEF StatusDecided, needSync, needCheckSync, Synced
  <1>4. CASE cr'.rv = 1 /\ event' = TRUE /\ Wrote
    <2>1. cr.rg \in Nat /\ cr.sg \in Nat /\ cr'.rg \in Nat /\ cr'.sg \in Nat
      BY <1>1 DEF CR
    <2>2. cr.sg <= cr.rg
      BY DEF StatusDecided
    <2>3. cr'.sg <= cr'.rg
      BY <1>4, <2>1, <2>2 DEF Wrote, Created, MarkedUpdating, SpecChanged, MarkedUpdated,
                              MarkedSyncing, Announced
    <2>4. (cr'.updating = "False" => needSync(cr') \/ Synced(cr')) /\ (Synced(cr') => Announced)
      BY <1>4, <2>1, <2>2 DEF Wrote, Created, MarkedUpdating, SpecChanged, MarkedUpdated,
              MarkedSyncing, Announced, needSync, needCheckSync, Synced
    <2>5. /\ cr'.spec # cr.spec => cr.updating # "False" /\ cr'.updating # "False"
          /\ cr.updating # "False" /\ cr'.updating = "False" => cr'.spec = cr.spec
      BY <1>2, <1>4 DEF Wrote, Created, MarkedUpdating, SpecChanged, MarkedUpdated,
              MarkedSyncing, Announced
    <2> QED BY <1>4, <2>3, <2>4, <2>5 DEF StatusDecided, Synced, needSync, needCheckSync
  <1> QED BY <1>1, <1>3, <1>4

-----------------------------------------------------------------------------
(* Types.                                                                   *)

\* What a spec asks for is within what can be in force at all.
LEMMA ExpectedType ==
    ASSUME NEW spec \in Specs
    PROVE  getExpectedIptablesRule(spec) \in [Chains -> SUBSET NatRules]
  <1>1. DNATRules(spec) \subseteq NatRules /\ SNATRules(spec) \subseteq NatRules
    BY DEF NatRules
  <1> QED BY <1>1 DEF getExpectedIptablesRule

\* Who holds a current copy after a write, and whether the watch tells of it.
LEMMA Published ==
    ASSUME event \in BOOLEAN, NEW c, NEW holders, Publish(c, holders)
    PROVE  /\ fresh' \subseteq fresh \cup holders
           /\ event' \in BOOLEAN
           /\ event => event'
  BY DEF Publish

\* The operator's steps keep every variable in its type.
LEMMA OpTypeStep ==
    ASSUME TypeOK, cr' \in CR, OpStep \/ OpFails \/ OpAnswerLost \/ Change
    PROVE  TypeOK'
  <1> USE DEF TypeOK, queueVars, ctlVars, serverVars, natVars, envVars, opVars
  <1>0. NoCR \in CR
    BY NoCRType
  <1>1. CASE OpGet
    <2>1. fresh' \subseteq {"operator", "agent"} /\ event' \in BOOLEAN
      BY <1>1, Published DEF OpGet
    <2>2. opObj' \in CR /\ queue' \subseteq {"update", "cleanup"} /\ mode' \in {"update", "cleanup"}
      BY <1>1 DEF OpGet
    <2> QED BY <1>1, <2>1, <2>2 DEF OpGet
  <1>2. CASE OpNothing \/ OpMarked
    BY <1>0, <1>2 DEF OpNothing, OpMarked, OpEnd
  <1>3. CASE OpMark \/ OpWrite
    <2>1. fresh' \subseteq {"operator", "agent"} /\ event' \in BOOLEAN
      BY <1>3, Published DEF OpMark, OpWrite
    <2>2. opObj' \in CR /\ op' \in {"write", "finish"}
      BY <1>3 DEF OpMark, OpWrite
    <2> QED BY <1>3, <2>1, <2>2 DEF OpMark, OpWrite
  <1>4. Requeued \subseteq {"update", "cleanup"}
    BY DEF Requeued
  <1>5. CASE OpFinish \/ OpAnswerLost
    <2>0. Publish(StatusWritten(MarkUpdated(opObj), cr), {})
      BY <1>5 DEF OpFinish, OpAnswerLost
    <2>1. fresh' \subseteq {"operator", "agent"} /\ event' \in BOOLEAN
      BY <2>0 DEF Publish
    <2>2. OpEnd(queue) \/ OpEnd(Requeued)
      BY <1>5 DEF OpFinish, OpAnswerLost
    <2>3. faults' \in 0..MaxFaults
      BY <1>5 DEF OpFinish, OpAnswerLost, Fault
    <2>4. UNCHANGED <<dirty, ctlVars, serverVars, natVars, listed, changes>>
      BY <1>5 DEF OpFinish, OpAnswerLost
    <2> QED BY <1>0, <1>4, <2>1, <2>2, <2>3, <2>4 DEF OpEnd
  <1>6. CASE OpConflict \/ OpFails
    <2>1. faults' \in 0..MaxFaults
      BY <1>6 DEF OpConflict, OpFails, Fault
    <2>2. OpError /\ UNCHANGED <<dirty, ctlVars, serverVars, natVars, listed, changes>>
      BY <1>6 DEF OpConflict, OpFails
    <2> QED BY <1>0, <1>4, <2>1, <2>2 DEF OpError, OpEnd
  <1>7. CASE Change
    <2>1. queue' \subseteq {"update", "cleanup"} /\ named' \in BOOLEAN /\ listed' \subseteq Rules
      BY <1>7 DEF Change, Withdrawn
    <2>2. changes' \in 0..MaxChanges
      BY <1>7 DEF Change
    <2> QED BY <1>7, <2>1, <2>2 DEF Change
  <1> QED BY <1>1, <1>2, <1>3, <1>5, <1>6, <1>7 DEF OpStep

\* So do the agent's.
LEMMA AgentTypeStep ==
    ASSUME TypeOK, cr' \in CR,
           AgentStep \/ AgentFails \/ CheckErrs \/ AgentAnswerLost \/ Restart
    PROVE  TypeOK'
  <1> USE DEF TypeOK, queueVars, ctlVars, serverVars, natVars, envVars, opVars, AgentPCs
  <1>0. NoCR \in CR
    BY NoCRType
  <1>1. CASE Take \/ Get \/ Marked \/ SkipServer \/ StartChains \/ Appended \/ CheckFailed
    BY <1>1 DEF Take, Get, Marked, SkipServer, StartChains, Appended, CheckFailed
  <1>2. CASE GetNothingToDo \/ NoHexIP \/ CheckOK \/ Conflict
    <2>1. Return(TRUE) \/ Return(FALSE)
      BY <1>2 DEF GetNothingToDo, NoHexIP, CheckOK, Conflict
    <2>2. fresh' \subseteq fresh /\ UNCHANGED <<cr, opVars, event, serverVars, natVars, envVars>>
      BY <1>2 DEF GetNothingToDo, NoHexIP, CheckOK, Conflict
    <2> QED BY <1>0, <2>1, <2>2 DEF Return
  <1>3. CASE Mark
    <2>0. Publish(StatusWritten(MarkSyncing(obj), cr), {})
      BY <1>3 DEF Mark
    <2>1. fresh' \subseteq {"operator", "agent"} /\ event' \in BOOLEAN
      BY <2>0 DEF Publish
    <2>2. obj' \in CR
      BY <1>3, Marks DEF Mark
    <2> QED BY <1>3, <2>1, <2>2 DEF Mark
  <1>4. CASE StartServer
    <2>1. obj.spec.ip \in IPs
      BY DEF CR, Specs
    <2> QED BY <1>4, <2>1 DEF StartServer
  <1>5. CASE ClearChain
    BY <1>5 DEF ClearChain, Cleared
  <1>6. CASE AppendRule
    <2>1. getExpectedIptablesRule(obj.spec) \in [Chains -> SUBSET NatRules]
      BY ExpectedType DEF CR
    <2> QED BY <1>6, <2>1 DEF AppendRule
  <1>7. CASE AddJump
    BY <1>7 DEF AddJump
  <1>8. CASE Announce \/ Recall \/ AgentAnswerLost
    <2>0. \/ Publish(StatusWritten(MarkSyncing(obj), cr), {})
          \/ Publish(StatusWritten(MarkSynced(obj), cr), {})
      BY <1>8 DEF Announce, Recall, AgentAnswerLost
    <2>1. fresh' \subseteq {"operator", "agent"} /\ event' \in BOOLEAN
      BY <2>0 DEF Publish
    <2>2. Return(FALSE) \/ Return(TRUE)
      BY <1>8 DEF Announce, Recall, AgentAnswerLost
    <2>3. faults' \in 0..MaxFaults
      <3>1. CASE Announce \/ Recall
        BY <3>1 DEF Announce, Recall
      <3>2. CASE AgentAnswerLost
        BY <3>2 DEF AgentAnswerLost, Fault
      <3> QED BY <1>8, <3>1, <3>2
    <2>4. UNCHANGED <<opVars, serverVars, natVars, listed, changes>>
      BY <1>8 DEF Announce, Recall, AgentAnswerLost
    <2> QED BY <1>0, <2>1, <2>2, <2>3, <2>4 DEF Return
  <1>9. CASE AgentFails
    BY <1>0, <1>9 DEF AgentFails, Fault, Return
  <1>10. CASE CheckErrs
    BY <1>10 DEF CheckErrs, Fault
  <1>11. CASE Restart
    <2>1. NoNat \in [Chains -> SUBSET NatRules]
      <3>1. {} \in SUBSET NatRules
        OBVIOUS
      <3> QED BY <3>1, Zenon DEF NoNat
    <2>2. nat' \in [Chains -> SUBSET NatRules] /\ jumps' \subseteq Jumps
      BY <1>11, <2>1 DEF Restart
    <2>3. server' \in [IPs -> {"none", "trying", "listening", "ended"}]
      BY <1>11 DEF Restart
    <2>4. /\ started' \subseteq IPs /\ todo' \subseteq Chains
          /\ fresh' \subseteq {"operator", "agent"} /\ event' \in BOOLEAN
          /\ faults' \in 0..MaxFaults
      BY <1>11 DEF Restart, Fault
    <2>5. /\ obj' \in CR /\ ag' \in AgentPCs /\ dirty' \in BOOLEAN
          /\ UNCHANGED <<cr, opVars, addr, listed, changes>>
      BY <1>0, <1>11 DEF Restart
    <2> QED BY <2>2, <2>3, <2>4, <2>5
  <1> QED BY <1>1, <1>2, <1>3, <1>4, <1>5, <1>6, <1>7, <1>8, <1>9, <1>10, <1>11 DEF AgentStep

\* And every other step.
LEMMA TypeStep == ASSUME TypeOK, StatusDecided, OpCopy, AgentCopy, [Next]_vars PROVE TypeOK'
  <1>0. cr' \in CR
    BY ResourceStep
  <1>1. CASE OpStep \/ OpFails \/ OpAnswerLost \/ Change
    BY <1>0, <1>1, OpTypeStep
  <1>2. CASE AgentStep \/ AgentFails \/ CheckErrs \/ AgentAnswerLost \/ Restart
    BY <1>0, <1>2, AgentTypeStep
  <1> USE DEF TypeOK, opVars, ctlVars, serverVars, natVars, envVars, queueVars
  <1>3. CASE Deliver \/ Resync \/ UNCHANGED vars
    BY <1>0, <1>3 DEF Deliver, Resync, vars
  <1>4. ASSUME NEW i \in IPs, Listens(i) \/ GivesUp(i) \/ AcceptFails(i) PROVE TypeOK'
    <2>1. server' \in [IPs -> {"none", "trying", "listening", "ended"}]
      BY <1>4 DEF Listens, GivesUp, AcceptFails
    <2>2. faults' \in 0..MaxFaults
      BY <1>4 DEF Listens, GivesUp, AcceptFails, Fault
    <2>3. UNCHANGED <<cr, fresh, opVars, queueVars, ctlVars, started, addr, natVars, listed, changes>>
      BY <1>4 DEF Listens, GivesUp, AcceptFails
    <2> QED BY <2>1, <2>2, <2>3
  <1>5. CASE MoveAddress
    BY <1>0, <1>5 DEF MoveAddress
  <1> QED BY <1>1, <1>2, <1>3, <1>4, <1>5 DEF Next

-----------------------------------------------------------------------------
(* The copies of operator and agent.                                        *)

\* The steps that are not the operator's leave it only a copy that is still current.
LEMMA OpCopyStep == ASSUME TypeOK, StatusDecided, OpCopy, AgentCopy, [Next]_vars PROVE OpCopy'
  <1>0. cr.rv # 0 => cr'.rv # 0
    BY StatusStep
  <1>1. CASE OpGet
    <2>1. opObj' = cr' /\ op' = "mark"
      BY <1>1 DEF OpGet
    <2>2. cr'.rv # 0
      <3>1. CASE cr.rv # 0
        BY <1>0, <3>1
      <3>2. CASE cr.rv = 0
        BY <1>1, <3>2 DEF OpGet, Publish, FreshCR
      <3> QED BY <3>1, <3>2
    <2> QED BY <2>1, <2>2 DEF OpCopy
  <1>2. CASE OpNothing
    BY <1>2 DEF OpNothing, OpEnd, OpCopy
  <1>3. CASE OpMarked
    BY <1>3 DEF OpMarked, OpCopy
  <1>4. CASE OpMark \/ OpWrite
    <2>1. opObj' = cr' /\ op' \in {"write", "finish"} /\ cr'.rv # 0
      BY <1>0, <1>4 DEF OpMark, OpWrite, OpCopy
    <2>2. cr'.updating = "True"
      BY <1>4, OpWrites DEF MarkedUpdating, SpecChanged
    <2> QED BY <2>1, <2>2 DEF OpCopy
  <1>5. CASE OpFinish \/ OpAnswerLost
    <2>1. op' = "idle" /\ fresh' = {}
      BY <1>5, OpWrites DEF OpFinish, OpAnswerLost, OpEnd
    <2> QED BY <2>1 DEF OpCopy
  <1>6. CASE OpConflict \/ OpFails
    <2>1. op' = "idle" /\ fresh' = fresh \ {"operator"}
      BY <1>6 DEF OpConflict, OpFails, OpError, OpEnd
    <2> QED BY <2>1 DEF OpCopy
  <1>7. ASSUME UNCHANGED <<op, opObj>>, "operator" \in fresh' => "operator" \in fresh /\ cr' = cr
        PROVE  OpCopy'
    BY <1>0, <1>7 DEF OpCopy
  <1>8. CASE Mark \/ Recall \/ Announce \/ AgentAnswerLost
    <2>1. fresh' = {} /\ UNCHANGED <<op, opObj>>
      BY <1>8, AgentWrites DEF Mark, Recall, Announce, AgentAnswerLost, opVars
    <2> QED BY <1>7, <2>1
  <1>9. CASE \/ Take \/ Get \/ GetNothingToDo \/ Marked \/ StartServer \/ SkipServer
             \/ NoHexIP \/ StartChains \/ ClearChain \/ AppendRule \/ Appended \/ AddJump
             \/ CheckOK \/ CheckFailed \/ Conflict \/ AgentFails \/ CheckErrs \/ Restart
    <2>1. fresh' \subseteq fresh \cup {"agent"} /\ UNCHANGED <<op, opObj, cr>>
      BY <1>9 DEF Take, Get, GetNothingToDo, Marked, StartServer, SkipServer, NoHexIP,
         StartChains, ClearChain, AppendRule, Appended, AddJump, CheckOK, CheckFailed, Conflict,
         AgentFails, CheckErrs, Restart, opVars
    <2> QED BY <1>7, <2>1
  <1>10. CASE Change \/ Deliver \/ Resync \/ MoveAddress \/ UNCHANGED vars
    <2>1. UNCHANGED <<op, opObj, cr, fresh>>
      BY <1>10 DEF Change, Deliver, Resync, MoveAddress, opVars, vars
    <2> QED BY <1>7, <2>1
  <1>11. CASE \E i \in IPs : Listens(i) \/ GivesUp(i) \/ AcceptFails(i)
    <2>1. UNCHANGED <<op, opObj, cr, fresh>>
      BY <1>11 DEF Listens, GivesUp, AcceptFails, opVars
    <2> QED BY <1>7, <2>1
  <1> QED BY <1>1, <1>2, <1>3, <1>4, <1>5, <1>6, <1>8, <1>9, <1>10, <1>11
          DEF Next, OpStep, AgentStep

\* What the agent relies on when a step is not its own.
LEMMA OthersKeepAgentCopy ==
    ASSUME AgentCopy, UNCHANGED <<ag, obj>>, event \/ dirty => event' \/ dirty',
           cr' = cr \/ event',
           "agent" \in fresh' => "agent" \in fresh /\ cr' = cr,
           "agent" \in fresh /\ "agent" \notin fresh' => event'
    PROVE  AgentCopy'
  BY DEF AgentCopy, Passing, Checking

LEMMA AgentCopyStep == ASSUME TypeOK, StatusDecided, OpCopy, AgentCopy, [Next]_vars PROVE AgentCopy'
  <1>0. /\ cr' = cr \/ event'
        /\ event \in BOOLEAN /\ dirty \in BOOLEAN
    BY StatusStep DEF TypeOK
  <1>1. CASE OpMark \/ OpFinish \/ OpAnswerLost
    <2>1. "agent" \notin fresh' /\ event' /\ UNCHANGED <<ag, obj>>
      BY <1>1, OpWrites DEF OpMark, OpFinish, OpAnswerLost, ctlVars
    <2> QED BY <1>0, <2>1, OthersKeepAgentCopy
  <1>2. CASE OpGet \/ OpWrite
    <2>1. UNCHANGED <<ag, obj, dirty>>
      BY <1>2 DEF OpGet, OpWrite, ctlVars
    <2>2. \/ cr' = cr /\ event' = event /\ fresh' = fresh \cup {"operator"}
          \/ event' /\ fresh' = {"operator"}
      <3>1. CASE OpGet
        BY <3>1, CreateWrite DEF OpGet
      <3>2. CASE OpWrite
        BY <3>2, SpecWrite, NewSpecType DEF OpWrite, TypeOK
      <3> QED BY <1>2, <3>1, <3>2
    <2> QED BY <1>0, <2>1, <2>2, OthersKeepAgentCopy
  <1>3. CASE OpNothing \/ OpMarked \/ OpConflict \/ OpFails \/ Change \/ MoveAddress \/ UNCHANGED vars
    <2>1. UNCHANGED <<ag, obj, dirty, event, cr>> /\ fresh' \in {fresh, fresh \ {"operator"}}
      BY <1>3 DEF OpNothing, OpMarked, OpConflict, OpFails, OpError, Change, MoveAddress, vars,
                  ctlVars, queueVars
    <2> QED BY <1>0, <2>1, OthersKeepAgentCopy
  <1>4. CASE Deliver \/ Resync
    <2>1. UNCHANGED <<ag, obj, cr, fresh>> /\ (event \/ dirty => event' \/ dirty')
      BY <1>4 DEF Deliver, Resync, ctlVars
    <2> QED BY <1>0, <2>1, OthersKeepAgentCopy
  <1>5. CASE \E i \in IPs : Listens(i) \/ GivesUp(i) \/ AcceptFails(i)
    <2>1. UNCHANGED <<ag, obj, dirty, event, cr, fresh>>
      BY <1>5 DEF Listens, GivesUp, AcceptFails, ctlVars, queueVars
    <2> QED BY <1>0, <2>1, OthersKeepAgentCopy
  <1>6. CASE Recall \/ Announce \/ AgentAnswerLost
    <2>1. ag' = "idle" /\ fresh' = {}
      BY <1>6, AgentWrites DEF Recall, Announce, AgentAnswerLost, Return
    <2> QED BY <2>1 DEF AgentCopy, Passing, Checking
  <1>7. CASE GetNothingToDo \/ NoHexIP \/ CheckOK \/ Conflict \/ AgentFails \/ Restart
    <2>1. ag' = "idle" /\ "agent" \notin fresh'
      BY <1>7 DEF GetNothingToDo, NoHexIP, CheckOK, Conflict, AgentFails, Restart, Return,
                  IsCurrent, AgentCopy
    <2> QED BY <2>1 DEF AgentCopy, Passing, Checking
  <1>8. CASE Take
    BY <1>8 DEF Take, AgentCopy, Passing, Checking
  <1>9. CASE Get
    <2>1. cr.rv # 0
      BY <1>9, NoCRType DEF Get, needSync, needCheckSync, StatusDecided
    <2> QED BY <1>9, <2>1 DEF Get, AgentCopy, Passing, Checking, Synced
  <1>10. CASE Mark
    <2>1. fresh' = {} /\ event' /\ ag' = "sshd" /\ obj' = MarkSyncing(obj)
      BY <1>10, AgentWrites DEF Mark
    <2>2. obj.updating = "False"
      BY <1>10 DEF Mark, AgentCopy, needSync
    <2>3. obj'.updating = "False" /\ obj'.syncing = "True"
      BY <2>1, <2>2, Marks DEF TypeOK
    <2> QED BY <2>1, <2>3 DEF AgentCopy, Passing, Checking
  <1>11. CASE Marked
    BY <1>11 DEF Marked, AgentCopy, Passing, Checking, needSync, queueVars
  <1>12. CASE \/ StartServer \/ SkipServer \/ StartChains \/ ClearChain \/ AppendRule \/ Appended
              \/ AddJump
    <2>1. /\ ag \in {"sshd", "rules", "flush", "append", "jump"}
          /\ ag' \in {"sshd", "rules", "flush", "append", "jump"}
          /\ UNCHANGED <<cr, fresh, event, dirty, obj>>
      BY <1>12 DEF StartServer, SkipServer, StartChains, ClearChain, AppendRule, Appended, AddJump,
                   ctlVars, queueVars
    <2> QED BY <2>1 DEF AgentCopy, Passing, Checking
  <1>13. CASE CheckFailed \/ CheckErrs
    <2>1. ag = "check" /\ ag' = "recall" /\ UNCHANGED <<cr, fresh, event, dirty, obj>>
      BY <1>13 DEF CheckFailed, CheckErrs, queueVars
    <2> QED BY <2>1 DEF AgentCopy, Passing, Checking
  <1> QED BY <1>1, <1>2, <1>3, <1>4, <1>5, <1>6, <1>7, <1>8, <1>9, <1>10, <1>11, <1>12, <1>13
          DEF Next, OpStep, AgentStep

-----------------------------------------------------------------------------
(* The pass: what is in force changes only under it, and a restart.         *)

\* The parts of the invariant that say what the copies and the status are.
CopyInv == TypeOK /\ StatusDecided /\ OpCopy /\ AgentCopy

\* The steps of others than the agent leave all that is in force alone.
LEMMA OthersLeaveForce ==
    ASSUME \/ OpStep \/ OpFails \/ OpAnswerLost \/ Change \/ Deliver \/ Resync
           \/ MoveAddress \/ UNCHANGED vars
    PROVE  UNCHANGED <<ctlVars, natVars, started, server>>
  <1>1. CASE OpStep
    BY <1>1 DEF OpStep, OpGet, OpNothing, OpMarked, OpMark, OpWrite, OpFinish, OpConflict, serverVars
  <1>2. CASE OpFails \/ OpAnswerLost \/ Change
    BY <1>2 DEF OpFails, OpAnswerLost, Change, serverVars
  <1>3. CASE Deliver \/ Resync
    BY <1>3 DEF Deliver, Resync, serverVars
  <1>4. CASE MoveAddress \/ UNCHANGED vars
    BY <1>4 DEF MoveAddress, vars, serverVars
  <1> QED BY <1>1, <1>2, <1>3, <1>4

\* What a step may do to nat table, jumps and map of servers.
LEMMA ForceStep ==
    ASSUME [Next]_vars
    PROVE  \/ UNCHANGED <<natVars, started>>
           \/ Passing /\ UNCHANGED cr
           \/ Restart
  <1>1. CASE \/ OpStep \/ OpFails \/ OpAnswerLost \/ Change \/ Deliver \/ Resync
             \/ MoveAddress \/ UNCHANGED vars
    BY <1>1, OthersLeaveForce
  <1>2. CASE AgentFails \/ CheckErrs \/ AgentAnswerLost
    BY <1>2 DEF AgentFails, CheckErrs, AgentAnswerLost, serverVars
  <1>3. CASE AgentStep
    BY <1>3 DEF AgentStep, Take, Get, GetNothingToDo, Marked, Mark, StartServer, SkipServer, NoHexIP,
                StartChains, ClearChain, AppendRule, Appended, AddJump, Announce, CheckOK,
                CheckFailed, Recall, Conflict, serverVars, natVars, Passing
  <1>4. CASE \E i \in IPs : Listens(i) \/ GivesUp(i) \/ AcceptFails(i)
    BY <1>4 DEF Listens, GivesUp, AcceptFails
  <1> QED BY <1>1, <1>2, <1>3, <1>4 DEF Next

\* A pass starts with a copy of a resource that needs one.
LEMMA PassStarts ==
    ASSUME [Next]_vars, Passing', ~Passing
    PROVE  needSync(cr) /\ cr' = cr /\ ag' = "mark"
  <1>1. ag' # ag
    BY DEF Passing
  <1>2. ~ \E i \in IPs : Listens(i) \/ GivesUp(i) \/ AcceptFails(i)
    BY <1>1 DEF Listens, GivesUp, AcceptFails, ctlVars
  <1>3. AgentStep \/ AgentFails \/ CheckErrs \/ AgentAnswerLost \/ Restart
    BY <1>1, <1>2, OthersLeaveForce DEF Next, ctlVars
  <1>4. CASE Get
    BY <1>4 DEF Get, Passing
  <1>5. CASE AgentFails \/ CheckErrs \/ AgentAnswerLost \/ Restart
    BY <1>5 DEF AgentFails, CheckErrs, AgentAnswerLost, Restart, Return, Passing
  <1>6. CASE Take \/ GetNothingToDo \/ Marked \/ Mark \/ StartServer \/ SkipServer \/ NoHexIP
    BY <1>6 DEF Take, GetNothingToDo, Marked, Mark, StartServer, SkipServer, NoHexIP, Return, Passing
  <1>7. CASE StartChains \/ ClearChain \/ AppendRule \/ Appended \/ AddJump
    BY <1>7 DEF StartChains, ClearChain, AppendRule, Appended, AddJump, Passing
  <1>8. CASE Announce \/ CheckOK \/ CheckFailed \/ Recall \/ Conflict
    BY <1>8 DEF Announce, CheckOK, CheckFailed, Recall, Conflict, Return, Passing
  <1> QED BY <1>3, <1>4, <1>5, <1>6, <1>7, <1>8 DEF AgentStep

LEMMA PassStep ==
    ASSUME CopyInv, NotAnnouncedWhilePassing, [Next]_vars
    PROVE  NotAnnouncedWhilePassing'
  <1>1. Synced(cr)' => cr' = cr \/ ag' = "idle"
    BY StatusStep DEF CopyInv, Announced
  <1>2. ASSUME Passing', ~Passing PROVE ~Synced(cr)'
    BY <1>2, PassStarts DEF Synced, needCheckSync, needSync
  <1>3. ASSUME Passing, cr' = cr PROVE ~Synced(cr)'
    BY <1>3 DEF NotAnnouncedWhilePassing, Synced, needCheckSync
  <1> QED BY <1>1, <1>2, <1>3 DEF NotAnnouncedWhilePassing, Passing

\* How far the pass is.
LEMMA ProgressStep ==
    ASSUME CopyInv, Progress, [Next]_vars
    PROVE  Progress'
  <1> USE DEF CopyInv
  <1>0. /\ obj \in CR /\ obj.spec \in Specs /\ nat \in [Chains -> SUBSET NatRules]
        /\ getExpectedIptablesRule(obj.spec) \in [Chains -> SUBSET NatRules]
    BY ExpectedType DEF TypeOK, CR
  <1>1. ASSUME UNCHANGED <<ag, obj, todo, natVars, started>> PROVE Progress'
    BY <1>1 DEF Progress, NatIn, natVars
  <1>2. CASE \/ OpStep \/ OpFails \/ OpAnswerLost \/ Change \/ Deliver \/ Resync
             \/ MoveAddress \/ UNCHANGED vars
    BY <1>1, <1>2, OthersLeaveForce DEF ctlVars
  <1>3. CASE \E i \in IPs : Listens(i) \/ GivesUp(i) \/ AcceptFails(i)
    BY <1>1, <1>3 DEF Listens, GivesUp, AcceptFails, ctlVars
  <1>4. ASSUME ag' \notin {"rules", "flush", "append", "jump"} PROVE Progress'
    BY <1>4 DEF Progress
  <1>5. CASE AgentFails \/ CheckErrs \/ AgentAnswerLost \/ Restart
    BY <1>4, <1>5 DEF AgentFails, CheckErrs, AgentAnswerLost, Restart, Return
  <1>6. CASE Take \/ Get \/ GetNothingToDo \/ Marked \/ Mark \/ NoHexIP
    BY <1>4, <1>6 DEF Take, Get, GetNothingToDo, Marked, Mark, NoHexIP, Return
  <1>7. CASE StartServer \/ SkipServer
    <2>1. ag' = "rules" /\ obj' = obj /\ obj.spec.ip \in started'
      BY <1>7 DEF StartServer, SkipServer, serverVars
    <2> QED BY <2>1 DEF Progress
  <1>8. CASE StartChains
    <2>1. /\ ag = "rules" /\ ag' = "flush" /\ todo' = Chains /\ UNCHANGED <<obj, started>>
          /\ obj.spec.ip # NoIP
      BY <1>8 DEF StartChains, serverVars, GetHexIPFails
    <2>2. obj.spec.ip = GatewayIP
      BY <1>0, <2>1 DEF Specs, IPs
    <2> QED BY <2>1, <2>2 DEF Progress
  <1>9. CASE ClearChain
    <2>1. PICK c \in todo :
            /\ nat' = [nat EXCEPT ![c] = {}] /\ todo' = todo \ {c}
            /\ ag' = IF todo' = {} THEN "append" ELSE "flush"
      BY <1>9 DEF ClearChain, Cleared
    <2>2. /\ ag = "flush" /\ UNCHANGED <<obj, started>> /\ c \in Chains /\ todo \subseteq Chains
      BY <1>9 DEF ClearChain, serverVars, TypeOK
    <2>3. \A d \in Chains \ todo' : nat'[d] = {}
      BY <1>0, <2>1, <2>2 DEF Progress
    <2>4. ag' = "append" => NatIn(obj.spec)'
      BY <2>1, <2>2, <2>3 DEF NatIn
    <2> QED BY <2>1, <2>2, <2>3, <2>4 DEF Progress
  <1>10. CASE AppendRule
    <2>1. PICK c \in Chains : \E r \in getExpectedIptablesRule(obj.spec)[c] :
            nat' = [nat EXCEPT ![c] = @ \cup {r}]
      BY <1>10 DEF AppendRule
    <2>2. ag = "append" /\ UNCHANGED <<ag, obj, todo, started>>
      BY <1>10 DEF AppendRule, serverVars, ctlVars
    <2>3. NatIn(obj.spec)'
      BY <1>0, <2>1, <2>2 DEF Progress, NatIn
    <2> QED BY <2>2, <2>3 DEF Progress
  <1>11. CASE Appended
    <2>1. /\ ag = "append" /\ ag' = "jump" /\ UNCHANGED <<obj, nat, started>>
          /\ \A c \in Chains : getExpectedIptablesRule(obj.spec)[c] \subseteq nat[c]
      BY <1>11 DEF Appended, serverVars, natVars
    <2>2. \A c \in Chains : nat[c] = getExpectedIptablesRule(obj.spec)[c]
      BY <2>1 DEF Progress, NatIn
    <2>3. nat = getExpectedIptablesRule(obj.spec)
      BY <1>0, <2>2
    <2> QED BY <2>1, <2>3 DEF Progress, NatIn
  <1>12. CASE AddJump
    BY <1>12 DEF AddJump, serverVars, ctlVars, Progress, NatIn
  <1>13. CASE Announce \/ CheckOK \/ CheckFailed \/ Recall \/ Conflict
    BY <1>4, <1>13 DEF Announce, CheckOK, CheckFailed, Recall, Conflict, Return
  <1> QED BY <1>2, <1>3, <1>5, <1>6, <1>7, <1>8, <1>9, <1>10, <1>11, <1>12, <1>13
          DEF Next, AgentStep

-----------------------------------------------------------------------------
(* What is announced.                                                       *)

\* Everything but the three parts about announcements and lost work.
PassInv == CopyInv /\ NotAnnouncedWhilePassing /\ Progress

\* The step that announces.
LEMMA AnnouncedInForce ==
    ASSUME PassInv, Announced
    PROVE  /\ cr'.spec = cr.spec /\ cr.spec.ip = GatewayIP /\ GatewayIP \in started
           /\ nat = getExpectedIptablesRule(cr.spec) /\ jumps = Jumps
           /\ UNCHANGED <<serverVars, natVars>>
  BY DEF PassInv, CopyInv, Announced, AgentCopy, Passing, Progress

LEMMA AddressStep ==
    ASSUME PassInv, AnnouncedHasAddress, [Next]_vars
    PROVE  AnnouncedHasAddress'
  <1>1. Synced(cr)' => cr' = cr \/ Announced
    BY StatusStep DEF PassInv, CopyInv
  <1> QED BY <1>1, AnnouncedInForce DEF AnnouncedHasAddress, Synced, needCheckSync

LEMMA LeftoversStep ==
    ASSUME PassInv, NoLeftovers, [Next]_vars
    PROVE  NoLeftovers'
  <1>1. Synced(cr)' => cr' = cr \/ Announced
    BY StatusStep DEF PassInv, CopyInv
  <1>2. CASE Announced
    BY <1>2, AnnouncedInForce DEF NoLeftovers, NatIn, natVars
  <1>3. ASSUME cr' = cr, Synced(cr)' PROVE NatIn(cr.spec)'
    <2>1. Synced(cr) /\ NatIn(cr.spec)
      BY <1>3 DEF NoLeftovers, Synced, needCheckSync
    <2>2. CASE UNCHANGED natVars
      BY <1>3, <2>1, <2>2 DEF NatIn, natVars
    <2>3. CASE Restart
      BY <1>3, <2>1, <2>3 DEF Restart, NatIn, NoNat, natVars
    <2>4. ~Passing
      BY <2>1 DEF PassInv, NotAnnouncedWhilePassing
    <2> QED BY <2>2, <2>3, <2>4, ForceStep
  <1> QED BY <1>1, <1>2, <1>3 DEF NoLeftovers

LEMMA ServersStep ==
    ASSUME PassInv, Servers, [Next]_vars
    PROVE  Servers'
  <1> USE DEF PassInv, CopyInv
  <1>0. server \in [IPs -> {"none", "trying", "listening", "ended"}] /\ obj.spec.ip \in IPs
    BY DEF TypeOK, CR, Specs
  <1>1. \A i \in IPs : server'[i] # "none" => i \in started'
    <2>1. CASE UNCHANGED <<server, started>>
      BY <2>1 DEF Servers
    <2>2. CASE StartServer
      BY <1>0, <2>2 DEF StartServer, Servers
    <2>3. CASE Restart
      BY <2>3 DEF Restart
    <2>4. CASE \E i \in IPs : Listens(i) \/ GivesUp(i) \/ AcceptFails(i)
      <3>1. PICK i \in IPs : Listens(i) \/ GivesUp(i) \/ AcceptFails(i)
        BY <2>4
      <3>2. started' = started
        BY <3>1 DEF Listens, GivesUp, AcceptFails
      <3>3. \A j \in IPs : server'[j] # "none" => server[j] # "none"
        BY <1>0, <3>1 DEF Listens, GivesUp, AcceptFails
      <3> QED BY <3>2, <3>3 DEF Servers
    <2>5. CASE \/ OpStep \/ OpFails \/ OpAnswerLost \/ Change \/ Deliver \/ Resync
               \/ MoveAddress \/ UNCHANGED vars
      BY <2>1, <2>5, OthersLeaveForce
    <2>6. CASE AgentFails \/ CheckErrs \/ AgentAnswerLost
      BY <2>1, <2>6 DEF AgentFails, CheckErrs, AgentAnswerLost, serverVars
    <2>7. CASE AgentStep
      BY <2>1, <2>2, <2>7 DEF AgentStep, Take, Get, GetNothingToDo, Marked, Mark, SkipServer, NoHexIP,
           StartChains, ClearChain, AppendRule, Appended, AddJump, Announce, CheckOK, CheckFailed,
           Recall, Conflict, serverVars
    <2> QED BY <2>3, <2>4, <2>5, <2>6, <2>7 DEF Next
  <1>2. Synced(cr)' => started' = {} \/ GatewayIP \in started'
    <2>1. Synced(cr)' => cr' = cr \/ Announced
      BY StatusStep
    <2>2. CASE Announced
      BY <2>2, AnnouncedInForce DEF serverVars
    <2>3. ASSUME cr' = cr, Synced(cr)' PROVE started' = {} \/ GatewayIP \in started'
      <3>1. Synced(cr) /\ ~Passing
        BY <2>3 DEF NotAnnouncedWhilePassing, Synced, needCheckSync
      <3>2. CASE Restart
        BY <3>2 DEF Restart
      <3>3. CASE started' = started
        BY <3>1, <3>3 DEF Servers
      <3> QED BY <3>1, <3>2, <3>3, ForceStep
    <2> QED BY <2>1, <2>2, <2>3
  <1> QED BY <1>1, <1>2 DEF Servers

-----------------------------------------------------------------------------
(* No work is forgotten.                                                    *)

\* A check that finds a current copy in force is right.
LEMMA CheckIsRight ==
    ASSUME PassInv, Servers, AnnouncedHasAddress, NoLeftovers, CheckOK
    PROVE  ~Unfinished \/ event \/ dirty
  <1> USE DEF PassInv, CopyInv
  <1>1. ag = "check" /\ Synced(obj) /\ ruleSynced(obj.spec)
    BY DEF CheckOK, AgentCopy, Checking
  <1>2. CASE "agent" \in fresh
    <2>1. obj = cr
      BY <1>1, <1>2 DEF AgentCopy, Checking
    <2>2. Synced(cr) /\ cr.spec.ip = GatewayIP /\ ~needSync(cr)
      BY <1>1, <2>1 DEF AnnouncedHasAddress, Synced, needCheckSync, needSync
    <2>3. \E i \in IPs : server[i] = "listening"
      BY <1>1, <2>1, <2>2 DEF ruleSynced, checkSshdRunning, IsPortOpen
    <2>4. GatewayIP \in started
      BY <2>2, <2>3 DEF Servers
    <2>5. nat = getExpectedIptablesRule(cr.spec)
      <3>1. \A c \in Chains : nat[c] = getExpectedIptablesRule(cr.spec)[c]
        BY <1>1, <2>1, <2>2 DEF ruleSynced, checkIptablesRulesApplied, NoLeftovers, NatIn
      <3>2. nat \in [Chains -> SUBSET NatRules]
        BY DEF TypeOK
      <3>3. getExpectedIptablesRule(cr.spec) \in [Chains -> SUBSET NatRules]
        BY ExpectedType DEF TypeOK, CR
      <3> QED BY <3>1, <3>2, <3>3
    <2>6. jumps = Jumps
      BY <1>1 DEF ruleSynced, checkIptablesRulesApplied
    <2> QED BY <2>2, <2>4, <2>5, <2>6 DEF Unfinished, Applied
  <1>3. CASE "agent" \notin fresh
    BY <1>1, <1>3 DEF AgentCopy, Checking
  <1> QED BY <1>2, <1>3

\* A wake-up that is on its way is used for a reconcile, and a reconcile ends with
\* another one unless nothing is left to do.
LEMMA PendingStep ==
    ASSUME PassInv, Servers, AnnouncedHasAddress, NoLeftovers, WorkPending, Unfinished, [Next]_vars
    PROVE  WorkPending'
  <1> USE DEF PassInv, CopyInv
  <1>0. event \in BOOLEAN /\ dirty \in BOOLEAN
    BY DEF TypeOK
  <1>1. ASSUME UNCHANGED <<dirty, ag>>, event => event' PROVE WorkPending'
    BY <1>1 DEF WorkPending
  <1>2. cr' = cr \/ event'
    BY StatusStep
  <1>3. CASE OpStep \/ OpFails \/ OpAnswerLost \/ Change \/ MoveAddress \/ UNCHANGED vars
    <2>1. UNCHANGED <<dirty, ag>>
      BY <1>3 DEF OpStep, OpGet, OpNothing, OpMarked, OpMark, OpWrite, OpFinish, OpConflict, OpFails,
              OpAnswerLost, Change, MoveAddress, vars, ctlVars, queueVars
    <2>2. event => event'
      BY <1>0, <1>3 DEF OpStep, OpGet, OpNothing, OpMarked, OpMark, OpWrite, OpFinish, OpConflict,
              OpFails, OpError, OpAnswerLost, Change, MoveAddress, vars, queueVars, Publish
    <2> QED BY <1>1, <2>1, <2>2
  <1>4. CASE Deliver \/ Resync
    BY <1>4 DEF Deliver, Resync, WorkPending, ctlVars
  <1>5. CASE \E i \in IPs : Listens(i) \/ GivesUp(i) \/ AcceptFails(i)
    BY <1>1, <1>5 DEF Listens, GivesUp, AcceptFails, ctlVars, queueVars
  <1>6. CASE Announce \/ Recall \/ AgentAnswerLost
    BY <1>6, AgentWrites DEF WorkPending
  <1>7. CASE Conflict \/ NoHexIP \/ AgentFails
    BY <1>7 DEF Conflict, NoHexIP, AgentFails, Return, WorkPending
  <1>8. CASE GetNothingToDo
    BY <1>8 DEF GetNothingToDo, Unfinished, Synced
  <1>9. CASE CheckOK
    <2>1. event \/ dirty
      BY <1>9, CheckIsRight
    <2> QED BY <1>9, <2>1 DEF CheckOK, Return, WorkPending
  <1>10. CASE Restart
    <2>1. cr.rv # 0
      BY NoCRType DEF Unfinished, StatusDecided, needSync, Synced, needCheckSync
    <2> QED BY <1>10, <2>1 DEF Restart, WorkPending
  <1>11. CASE \/ Take \/ Get \/ Marked \/ Mark \/ StartServer \/ SkipServer \/ StartChains
              \/ ClearChain \/ AppendRule \/ Appended \/ AddJump \/ CheckFailed \/ CheckErrs
    <2>1. ag' # "idle"
      BY <1>11 DEF Take, Get, Marked, Mark, StartServer, SkipServer, StartChains, ClearChain,
              AppendRule, Appended, AddJump, CheckFailed, CheckErrs, ctlVars
    <2> QED BY <2>1 DEF WorkPending
  <1> QED BY <1>3, <1>4, <1>5, <1>6, <1>7, <1>8, <1>9, <1>10, <1>11 DEF Next, AgentStep

\* What needs the agent has a wake-up on its way.
LEMMA LostSyncStep ==
    ASSUME PassInv, Servers, AnnouncedHasAddress, NoLeftovers, NoLostSync, [Next]_vars
    PROVE  NoLostSync'
  <1> USE DEF PassInv, CopyInv
  <1> SUFFICES ASSUME Unfinished' PROVE WorkPending'
    BY DEF NoLostSync
  <1>1. CASE cr' # cr
    BY <1>1, StatusStep DEF WorkPending
  <1>2. CASE cr' = cr /\ Unfinished
    BY <1>2, PendingStep DEF NoLostSync
  <1>3. CASE cr' = cr /\ ~Unfinished
    <2>1. Synced(cr) /\ Applied(cr.spec) /\ ~Applied(cr.spec)'
      BY <1>3 DEF Unfinished, Synced, needSync, needCheckSync
    <2>2. ~UNCHANGED <<natVars, started>>
      BY <1>3, <2>1 DEF Applied, natVars
    <2>3. ~Passing
      BY <2>1 DEF NotAnnouncedWhilePassing
    <2>4. Restart
      BY <2>2, <2>3, ForceStep
    <2>5. cr.rv # 0
      BY <2>1, NoCRType DEF StatusDecided, Synced, needCheckSync
    <2> QED BY <2>4, <2>5 DEF Restart, WorkPending
  <1> QED BY <1>1, <1>2, <1>3

-----------------------------------------------------------------------------
(* The invariant.                                                           *)

\* The initial states satisfy it.
LEMMA InitInv == Init => IInv
  <1> SUFFICES ASSUME Init PROVE IInv
    OBVIOUS
  <1> USE DEF Init
  <1>1. TypeOK
    <2>1. NoNat \in [Chains -> SUBSET NatRules]
      <3>1. {} \in SUBSET NatRules
        OBVIOUS
      <3> QED BY <3>1, Zenon DEF NoNat
    <2>2. changes \in 0..MaxChanges /\ faults \in 0..MaxFaults
      OBVIOUS
    <2>3. server \in [IPs -> {"none", "trying", "listening", "ended"}]
      OBVIOUS
    <2>4. cr \in CR /\ obj \in CR /\ opObj \in CR
      BY NoCRType
    <2> QED BY <2>1, <2>2, <2>3, <2>4 DEF TypeOK, AgentPCs
  <1>2. StatusDecided
    BY NoCRType DEF StatusDecided, NoCR, FreshCR
  <1>3. OpCopy /\ AgentCopy
    BY DEF OpCopy, AgentCopy, Passing, Checking
  <1>4. ~Synced(cr) /\ ~needSync(cr)
    BY NoCRType DEF Synced, needSync, needCheckSync
  <1>5. NotAnnouncedWhilePassing /\ Progress
    BY DEF NotAnnouncedWhilePassing, Progress, Passing
  <1>6. Servers
    BY <1>4 DEF Servers
  <1>7. AnnouncedHasAddress /\ NoLeftovers
    BY <1>4 DEF AnnouncedHasAddress, NoLeftovers
  <1>8. NoLostSync
    BY <1>4 DEF NoLostSync, Unfinished
  <1> QED BY <1>1, <1>2, <1>3, <1>5, <1>6, <1>7, <1>8 DEF IInv

\* Every step keeps it.
LEMMA NextInv == IInv /\ [Next]_vars => IInv'
  <1> SUFFICES ASSUME IInv, [Next]_vars PROVE IInv'
    OBVIOUS
  <1>0. CopyInv /\ PassInv
    BY DEF IInv, CopyInv, PassInv
  <1>1. TypeOK'
    BY TypeStep DEF IInv
  <1>2. StatusDecided'
    BY StatusStep DEF IInv
  <1>3. OpCopy' /\ AgentCopy'
    BY OpCopyStep, AgentCopyStep DEF IInv
  <1>4. NotAnnouncedWhilePassing'
    BY <1>0, PassStep DEF IInv
  <1>5. Progress'
    BY <1>0, ProgressStep DEF IInv
  <1>6. Servers'
    BY <1>0, ServersStep DEF IInv
  <1>7. AnnouncedHasAddress' /\ NoLeftovers'
    BY <1>0, AddressStep, LeftoversStep DEF IInv
  <1>8. NoLostSync'
    BY <1>0, LostSyncStep DEF IInv
  <1> QED BY <1>1, <1>2, <1>3, <1>4, <1>5, <1>6, <1>7, <1>8 DEF IInv

\* The inductive invariant holds in every reachable state.
THEOREM Invariance == Spec => []IInv
  BY InitInv, NextInv, PTL DEF Spec

\* Every variable keeps its type, whatever the rules and however many the faults.
THEOREM TypeCorrect == Spec => []TypeOK
  <1>1. IInv => TypeOK
    BY DEF IInv
  <1> QED BY <1>1, Invariance, PTL

\* ReconcileGateway announces no gateway whose address was never filled in.
THEOREM AnnouncedGatewayHasAddress == Spec => []AnnouncedHasAddress
  <1>1. IInv => AnnouncedHasAddress
    BY DEF IInv
  <1> QED BY <1>1, Invariance, PTL

\* While the gateway is announced, its chains hold nothing it does not ask for.
THEOREM SyncedHasNoLeftovers == Spec => []NoLeftovers
  <1>1. IInv => NoLeftovers
    BY DEF IInv
  <1> QED BY <1>1, Invariance, PTL

\* Whenever the gateway waits to be applied, or lost its server, its rules or its jumps
\* to a restart, a wake-up of the agent is on its way.
THEOREM SyncIsNotLost == Spec => []NoLostSync
  <1>1. IInv => NoLostSync
    BY DEF IInv
  <1> QED BY <1>1, Invariance, PTL

\* Where the agent rests, a gateway that the operator completed, from whatever list of
\* Forwarders, has its address, is announced, and exactly its rules are in force.
THEOREM RestMeansServed == Spec => []RestIsServed
  <1>1. IInv => RestIsServed
    <2> SUFFICES ASSUME IInv, ~WorkPending, cr.updating = "False"
                 PROVE  cr.spec.ip = GatewayIP /\ Synced(cr) /\ Applied(cr.spec)
      BY DEF RestIsServed
    <2>1. ~needSync(cr) /\ (Synced(cr) => Applied(cr.spec))
      BY DEF IInv, NoLostSync, Unfinished
    <2>2. Synced(cr)
      BY <2>1 DEF IInv, StatusDecided
    <2> QED BY <2>1, <2>2 DEF IInv, AnnouncedHasAddress
  <1> QED BY <1>1, Invariance, PTL

\* setSynced announces the rules that are in the resource at that moment, and only when
\* exactly these are in force.
THEOREM AnnouncementIsTrue == Spec => AnnouncesOnlyApplied
  <1>1. IInv /\ [Next]_vars => [~Synced(cr) /\ Synced(cr)' => Applied(cr.spec)']_vars
    <2> SUFFICES ASSUME IInv, [Next]_vars, ~Synced(cr), Synced(cr)' PROVE Applied(cr.spec)'
      OBVIOUS
    <2>1. PassInv
      BY DEF IInv, PassInv, CopyInv
    <2>2. Announced
      BY StatusStep DEF IInv, Synced, needCheckSync
    <2> QED BY <2>1, <2>2, AnnouncedInForce DEF Applied, natVars, serverVars
  <1> QED BY <1>1, Invariance, PTL DEF Spec, AnnouncesOnlyApplied

\* The operator changes address and rules only while the gateway is marked as updating.
THEOREM RulesChangeOnlyWhileUpdating == Spec => ChangesOnlyWhileUpdating
  <1>1. IInv /\ [Next]_vars =>
          [cr'.spec # cr.spec => cr.updating # "False" /\ cr'.updating # "False"]_vars
    BY StatusStep DEF IInv
  <1> QED BY <1>1, Invariance, PTL DEF Spec, ChangesOnlyWhileUpdating

-----------------------------------------------------------------------------
(* The refinement.                                                          *)

LEMMA InitRefines == Init => Delivery!Init
  <1> SUFFICES ASSUME Init PROVE Delivery!Init
    OBVIOUS
  <1>1. cr.updating = "absent" /\ cr.spec = NoSpec
    BY DEF Init, NoCR, FreshCR
  <1>2. phase = "updating"
    BY <1>1 DEF phase
  <1>3. Applied(cr.spec) \in BOOLEAN /\ NoSpec \in Specs
    BY NoCRType DEF Applied
  <1> QED BY <1>1, <1>2, <1>3 DEF Delivery!Init, Delivery!TypeOK

\* The phases of RuleDelivery, condition by condition.
LEMMA PhaseIs ==
    /\ cr.updating # "False" => phase = "updating"
    /\ Synced(cr) => phase = "synced"
    /\ cr.updating = "False" /\ ~Synced(cr) => phase = "pending"
    /\ phase = "synced" => Synced(cr)
  BY DEF phase, Synced, needCheckSync

\* Every step is a step of RuleDelivery or leaves its variables alone.
LEMMA StepRefines == IInv /\ [Next]_vars => [Delivery!Next]_(Delivery!vars)
  <1> SUFFICES ASSUME IInv, [Next]_vars PROVE [Delivery!Next]_(Delivery!vars)
    OBVIOUS
  <1> DEFINE good == Applied(cr.spec)
  <1>0. PassInv
    BY DEF IInv, PassInv, CopyInv
  <1>1. good \in BOOLEAN /\ good' \in BOOLEAN
    BY DEF Applied
  <1>2. cr' \in CR /\ cr.spec' \in Specs /\ (cr' = cr \/ Wrote)
    BY ResourceStep DEF IInv, CR
  <1>3. /\ cr'.updating # "False" => phase' = "updating"
        /\ Synced(cr') => phase' = "synced"
        /\ cr'.updating = "False" /\ ~Synced(cr') => phase' = "pending"
    BY DEF phase, Synced, needCheckSync
  <1>4. cr.spec' = cr.spec /\ UNCHANGED <<natVars, started>> => good' = good
    BY DEF Applied, natVars
  <1>5. CASE cr' = cr
    <2>1. cr.spec' = cr.spec /\ phase' = phase
      BY <1>5 DEF phase, Synced, needCheckSync
    <2>2. CASE phase # "synced"
      BY <1>1, <2>1, <2>2 DEF Delivery!Next, Delivery!Work
    <2>3. CASE phase = "synced"
      <3>1. ~Passing
        BY <2>3, PhaseIs DEF IInv, NotAnnouncedWhilePassing
      <3>2. CASE UNCHANGED <<natVars, started>>
        BY <1>4, <2>1, <3>2 DEF Delivery!vars
      <3>3. CASE Restart
        <4>1. good' = FALSE
          BY <3>3 DEF Restart, Applied
        <4> QED BY <2>1, <4>1 DEF Delivery!Next, Delivery!Lose
      <3> QED BY <3>1, <3>2, <3>3, ForceStep
    <2> QED BY <2>2, <2>3
  <1>6. CASE cr' # cr
    <2>1. UNCHANGED <<natVars, started>>
      BY <1>6, ForceStep DEF Restart
    <2>2. cr.spec' = cr.spec => good' = good
      BY <1>4, <2>1
    <2> HIDE DEF good
    <2> USE DEF Delivery!Next, Delivery!vars
    <2>3. CASE Created \/ SpecChanged
      <3>1. phase = "updating" /\ phase' = "updating"
        BY <1>3, <2>3, PhaseIs, NoCRType
           DEF Created, SpecChanged, IInv, StatusDecided
      <3> QED BY <1>1, <1>2, <3>1 DEF Delivery!ChangeRules, good
    <2>4. CASE MarkedUpdating
      <3>1. cr.spec' = cr.spec /\ phase' = "updating" /\ good' = good
        BY <1>3, <2>2, <2>4 DEF MarkedUpdating
      <3>2. phase \in {"updating", "pending", "synced"}
        BY DEF phase
      <3> QED BY <3>1, <3>2 DEF Delivery!StartUpdate, good
    <2>5. CASE MarkedUpdated
      <3>1. ~Synced(cr')
        BY <2>5 DEF MarkedUpdated, Synced, needCheckSync
      <3>2. cr.spec' = cr.spec /\ phase = "updating" /\ phase' = "pending" /\ good' = good
        BY <1>3, <2>2, <2>5, <3>1, PhaseIs DEF MarkedUpdated
      <3> QED BY <3>2 DEF Delivery!EndUpdate, good
    <2>6. CASE MarkedSyncing
      <3>1. ~Synced(cr')
        BY <2>6 DEF MarkedSyncing, Synced, needCheckSync
      <3>2. cr.spec' = cr.spec /\ phase \in {"pending", "synced"} /\ phase' = "pending" /\ good' = good
        BY <1>3, <2>2, <2>6, <3>1, PhaseIs DEF MarkedSyncing
      <3> QED BY <3>2 DEF Delivery!Recall, good
    <2>7. CASE Announced
      <3>1. good
        BY <1>0, <2>7, AnnouncedInForce DEF good, Applied
      <3>2. ~Synced(cr) /\ Synced(cr')
        BY <2>7 DEF Announced, IInv, NotAnnouncedWhilePassing, Passing, Synced, needCheckSync
      <3>3. cr.spec' = cr.spec /\ phase = "pending" /\ phase' = "synced" /\ good' = good
        BY <1>3, <2>2, <2>7, <3>2, PhaseIs DEF Announced
      <3> QED BY <3>1, <3>3 DEF Delivery!Announce, good
    <2> QED BY <1>2, <1>6, <2>3, <2>4, <2>5, <2>6, <2>7 DEF Wrote
  <1> QED BY <1>5, <1>6

\* The protocol of the operator and the gateway agent implements RuleDelivery.
THEOREM Refinement == Spec => ImplementsRuleDelivery
  <1>1. Init => Delivery!Init
    BY InitRefines
  <1>2. IInv /\ [Next]_vars => [Delivery!Next]_(Delivery!vars)
    BY StepRefines
  <1> QED BY <1>1, <1>2, Invariance, PTL DEF Spec, ImplementsRuleDelivery, Delivery!Spec
=============================================================================
