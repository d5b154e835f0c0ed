------------------------- MODULE ForwarderSyncProofs -------------------------
(* Theorems about ForwarderSync, for every set of specs and inputs, every    *)
(* rendering, and any number of changes and faults.                          *)
EXTENDS ForwarderSync, TLAPS

USE DEF Current

\* The copies that the setters make.
LEMMA Marks ==
    ASSUME NEW o \in CR
    PROVE  /\ MarkUpdating(o) \in CR
           /\ MarkUpdating(o).updating = "True"
           /\ MarkUpdating(o).rg = o.rg /\ MarkUpdating(o).sg = o.sg
           /\ MarkUpdated(o) \in CR
           /\ MarkUpdated(o).updating = "False" /\ MarkUpdated(o).syncing = "Unknown"
           /\ MarkUpdated(o).rg = o.rg + 1 /\ MarkUpdated(o).sg = o.sg
           /\ MarkSyncing(o) \in CR
           /\ MarkSyncing(o).rv = o.rv /\ MarkSyncing(o).spec = o.spec
           /\ MarkSyncing(o).updating = o.updating /\ MarkSyncing(o).syncing = "True"
           /\ MarkSyncing(o).rg = o.rg /\ MarkSyncing(o).sg = o.sg
           /\ MarkSynced(o) \in CR
           /\ MarkSynced(o).updating = o.updating /\ MarkSynced(o).syncing = "False"
           /\ MarkSynced(o).rg = o.rg /\ MarkSynced(o).sg = o.rg
<1>1. o.rg \in Nat /\ o.rg + 1 \in Nat
  BY DEF CR
<1>2. MarkUpdating(o) \in CR
  BY DEF CR, CondStatus, MarkUpdating
<1>3. MarkUpdated(o) \in CR
  BY <1>1 DEF CR, CondStatus, MarkUpdated
<1>4. MarkSyncing(o) \in CR
  BY DEF CR, CondStatus, MarkSyncing
<1>5. MarkSynced(o) \in CR
  BY <1>1 DEF CR, CondStatus, MarkSynced
<1> QED BY <1>2, <1>3, <1>4, <1>5 DEF CR, MarkUpdating, MarkUpdated, MarkSyncing, MarkSynced

\* What the API server holds after a write.
LEMMA Writes ==
    ASSUME NEW c \in CR, NEW o \in CR, NEW spec \in Specs
    PROVE  /\ FreshCR(spec) \in CR
           /\ StatusWritten(o, c) \in CR
           /\ StatusWritten(o, c).rv = c.rv + 1 /\ StatusWritten(o, c).spec = c.spec
           /\ StatusWritten(o, c).updating = o.updating
           /\ StatusWritten(o, c).syncing = o.syncing
           /\ StatusWritten(o, c).rg = o.rg /\ StatusWritten(o, c).sg = o.sg
           /\ SpecWritten(spec, c) \in CR
           /\ SpecWritten(spec, c).rv \in {c.rv, c.rv + 1}
           /\ SpecWritten(spec, c).rv = c.rv => SpecWritten(spec, c) = c
           /\ SpecWritten(spec, c).spec = spec
           /\ SpecWritten(spec, c).updating = c.updating
           /\ SpecWritten(spec, c).syncing = c.syncing
           /\ SpecWritten(spec, c).rg = c.rg /\ SpecWritten(spec, c).sg = c.sg
<1>1. c.spec \in Specs /\ c.rv \in Nat /\ c.rv + 1 \in Nat /\ c.rv + 1 # c.rv
  BY DEF CR
<1>2. FreshCR(spec) \in CR
  BY DEF FreshCR, CR, CondStatus
<1>3. StatusWritten(o, c) \in CR
  BY <1>1 DEF CR, StatusWritten
<1>4. [c EXCEPT !.rv = c.rv + 1, !.spec = spec] \in CR
  BY <1>1 DEF CR
<1>5. SpecWritten(spec, c) \in CR
  BY <1>4 DEF SpecWritten
<1> QED BY <1>1, <1>2, <1>3, <1>4, <1>5 DEF CR, StatusWritten, SpecWritten

\* What a spec asks for is within what can be in force at all.
LEMMA ExpectedType ==
    ASSUME NEW spec \in Specs
    PROVE  /\ getExpectedSSHTunnel(spec) \subseteq Tunnels
           /\ getExpectedRemoteSSHTunnel(spec) \subseteq RemoteTunnels
           /\ getExpectedIptablesRule(spec) \in [Chains -> SUBSET NatRules]
<1>1. getExpectedSSHTunnel(spec) \subseteq Tunnels
  BY DEF Tunnels
<1>2. getExpectedRemoteSSHTunnel(spec) \subseteq RemoteTunnels
  BY DEF RemoteTunnels
<1>3. DNATRules(spec) \subseteq NatRules /\ SNATRules(spec) \subseteq NatRules
  BY DEF NatRules
<1>4. getExpectedIptablesRule(spec) \in [Chains -> SUBSET NatRules]
  BY <1>3 DEF getExpectedIptablesRule
<1> QED BY <1>1, <1>2, <1>4

USE RenderingAssumption, BoundsAssumption

\* The copy that stands for no resource is well typed, and not updating.
LEMMA NoCRType == NoCR \in CR /\ NoCR.rv = 0 /\ NoCR.updating = "absent"
BY DEF NoCR, FreshCR, CR, CondStatus

\* One step keeps every variable in its type.
LEMMA TypeStep == TypeOK /\ [Next]_vars => TypeOK'
<1> SUFFICES ASSUME TypeOK, [Next]_vars PROVE TypeOK'
  OBVIOUS
<1> USE DEF TypeOK, ctlVars, forceVars, queueVars, opVars, envVars
<1>0. NoCR \in CR
  BY NoCRType
<1>1. CASE OpStep
  <2>1. CASE OpGet
    BY <2>1, Writes DEF OpGet, Publish, OpPCs
  <2>2. CASE OpMarked
    BY <2>2 DEF OpMarked, OpPCs
  <2>3. CASE OpMark
    BY <2>3, Writes, Marks DEF OpMark, Publish, OpPCs
  <2>4. CASE OpPlan
    BY <2>4 DEF OpPlan, OpPCs
  <2>5. CASE OpNoIP
    BY <2>5, <1>0 DEF OpNoIP, OpError, OpEnd, OpPCs
  <2>6. CASE OpWrite
    BY <2>6, Writes DEF OpWrite, Publish, OpPCs
  <2>7. CASE OpFinish
    BY <2>7, <1>0, Writes, Marks DEF OpFinish, OpEnd, Publish, OpPCs
  <2>8. CASE OpConflict
    BY <2>8, <1>0 DEF OpConflict, OpError, OpEnd, OpPCs
  <2> QED BY <1>1, <2>1, <2>2, <2>3, <2>4, <2>5, <2>6, <2>7, <2>8 DEF OpStep
<1>2. CASE OpFails
  BY <1>2, <1>0 DEF OpFails, OpError, OpEnd, Fault, OpPCs
<1>3. CASE OpAnswerLost
  <2>1. cr' \in CR
    BY <1>3, Writes, Marks DEF OpAnswerLost, Publish
  <2>2. event' \in BOOLEAN
    BY <1>3, <2>1 DEF OpAnswerLost, Publish
  <2>3. faults' \in 0..MaxFaults
    BY <1>3 DEF OpAnswerLost, Fault
  <2> QED BY <1>3, <2>1, <2>2, <2>3, <1>0 DEF OpAnswerLost, OpEnd, OpPCs
<1>4. CASE Change \/ Deliver \/ Resync \/ RetryFires
  <2>1. CASE Change
    BY <2>1 DEF Change
  <2>2. CASE Deliver \/ Resync \/ RetryFires
    BY <2>2 DEF Deliver, Resync, RetryFires
  <2> QED BY <1>4, <2>1, <2>2
<1>5. CASE AgentStep
  <2>1. CASE Take \/ Get \/ Marked \/ Appended \/ CheckFailed
    BY <2>1 DEF Take, Get, Marked, Appended, CheckFailed, AgentPCs
  <2>2. CASE GetNothingToDo \/ CheckOK \/ Conflict
    <3>1. Return(TRUE) \/ Return(FALSE)
      BY <2>2 DEF GetNothingToDo, CheckOK, Conflict
    <3>2. UNCHANGED <<cr, opVars, event, dirty, forceVars, envVars>>
      BY <2>2 DEF GetNothingToDo, CheckOK, Conflict
    <3> QED BY <3>1, <3>2, <1>0 DEF Return, AgentPCs
  <2>3. CASE Mark
    BY <2>3, Writes, Marks DEF Mark, Publish, AgentPCs
  <2>4. CASE UpdateTunnels
    <3>1. obj.spec \in Specs
      BY DEF CR
    <3> QED BY <2>4, <3>1, ExpectedType DEF UpdateTunnels, ensure, deleteUnused, AgentPCs
  <2>5. CASE ClearChain
    BY <2>5 DEF ClearChain, AgentPCs
  <2>6. CASE AppendRule
    <3>1. obj.spec \in Specs
      BY DEF CR
    <3>2. getExpectedIptablesRule(obj.spec) \in [Chains -> SUBSET NatRules]
      BY <3>1, ExpectedType
    <3> QED BY <2>6, <3>2 DEF AppendRule
  <2>7. CASE Announce \/ Recall
    <3>1. CASE Announce
      BY <3>1, <1>0, Writes, Marks DEF Announce, Publish, Return, AgentPCs
    <3>2. CASE Recall
      BY <3>2, <1>0, Writes, Marks DEF Recall, Publish, Return, AgentPCs
    <3> QED BY <2>7, <3>1, <3>2
  <2> QED BY <1>5, <2>1, <2>2, <2>3, <2>4, <2>5, <2>6, <2>7 DEF AgentStep
<1>6. CASE AgentFails \/ CheckErrs
  <2>1. CASE AgentFails
    BY <2>1, <1>0 DEF AgentFails, Return, Fault, AgentPCs
  <2>2. CASE CheckErrs
    BY <2>2 DEF CheckErrs, Fault, AgentPCs
  <2> QED BY <1>6, <2>1, <2>2
<1>7. CASE AgentAnswerLost
  <2>1. cr' \in CR
    BY <1>7, Writes, Marks DEF AgentAnswerLost, Publish
  <2>2. event' \in BOOLEAN
    BY <1>7, <2>1 DEF AgentAnswerLost, Publish
  <2>3. faults' \in 0..MaxFaults
    BY <1>7 DEF AgentAnswerLost, Fault
  <2> QED BY <1>7, <2>1, <2>2, <2>3, <1>0 DEF AgentAnswerLost, Return, AgentPCs
<1>8. CASE Restart
  <2>1. NoNat \in [Chains -> SUBSET NatRules]
    <3>1. {} \in SUBSET NatRules
      OBVIOUS
    <3> QED BY <3>1, Zenon DEF NoNat
  <2>2. nat' \in [Chains -> SUBSET NatRules]
    BY <1>8, <2>1 DEF Restart
  <2>3. event' \in BOOLEAN /\ dirty' \in BOOLEAN /\ retry' \in BOOLEAN
    BY <1>8 DEF Restart
  <2> QED BY <1>8, <2>2, <2>3, <1>0 DEF Restart, Fault, AgentPCs
<1>9. CASE UNCHANGED vars
  BY <1>9 DEF vars
<1> QED BY <1>1, <1>2, <1>3, <1>4, <1>5, <1>6, <1>7, <1>8, <1>9 DEF Next

-----------------------------------------------------------------------------
\* The initial state satisfies the inductive invariant.
LEMMA InitInv == Init => IInv
<1> SUFFICES ASSUME Init PROVE IInv
  OBVIOUS
<1> USE DEF Init
<1>1. TypeOK
  <2>1. NoNat \in [Chains -> SUBSET NatRules]
    <3>1. {} \in SUBSET NatRules
      OBVIOUS
    <3> QED BY <3>1, Zenon DEF NoNat
  <2>2. changes \in 0..MaxChanges /\ faults \in 0..MaxFaults
    OBVIOUS
  <2>3. tunnels \subseteq Tunnels /\ remoteTunnels \subseteq RemoteTunnels /\ todo \subseteq Chains
    OBVIOUS
  <2>4. cr \in CR /\ obj \in CR /\ opObj \in CR
    BY NoCRType
  <2> QED BY <2>1, <2>2, <2>3, <2>4 DEF TypeOK, OpPCs, AgentPCs
<1>2. StatusDecided
  BY NoCRType DEF StatusDecided, NoCR, FreshCR
<1>3. OpInv
  BY NoCRType DEF OpInv, OpCopy, OpProgress, NoLostInput
<1>4. AgentInv
  BY NoCRType DEF AgentInv, AgentCopy, NotAnnouncedWhilePassing, Passing, Reconciling, Progress,
                  NoLeftovers, NoLostSync, Unfinished, Synced, needSync, needCheckSync
<1> QED BY <1>1, <1>2, <1>3, <1>4 DEF IInv

\* What the operator relies on survives the writes of the agent.
LEMMA OpInvKept ==
    ASSUME IInv, TypeOK', UNCHANGED <<opVars, want>>,
           \/ cr' = cr
           \/ cr'.rv > cr.rv /\ cr'.spec = cr.spec /\ cr'.updating = "False"
    PROVE  OpInv'
<1> USE DEF IInv, OpInv, opVars
<1>1. opObj.rv \in Nat /\ cr.rv \in Nat /\ cr'.rv \in Nat
  BY DEF TypeOK, CR
<1>2. OpCopy'
  BY <1>1 DEF OpCopy
<1>3. OpProgress' /\ NoLostInput'
  BY DEF OpProgress, NoLostInput
<1> QED BY <1>2, <1>3

\* What the agent relies on survives the writes of the operator.
LEMMA AgentInvKept ==
    ASSUME IInv, TypeOK', UNCHANGED <<ctlVars, forceVars, dirty, retry>>,
           \/ cr' = cr /\ event' = event
           \/ cr'.rv > cr.rv /\ event' /\ ~Synced(cr')
    PROVE  AgentInv'
<1> USE DEF IInv, AgentInv, ctlVars, forceVars
<1>1. obj.rv \in Nat /\ cr.rv \in Nat /\ cr'.rv \in Nat
  BY DEF TypeOK, CR
<1>2. AgentCopy'
  BY <1>1 DEF AgentCopy, Reconciling, Passing
<1>3. NotAnnouncedWhilePassing'
  BY DEF NotAnnouncedWhilePassing, Passing
<1>4. Progress'
  BY DEF Progress, NatIn
<1>5. NoLeftovers'
  BY DEF NoLeftovers, TunnelsIn, NatIn
<1>6. NoLostSync'
  BY DEF NoLostSync, Unfinished, WorkPending, Applied
<1> QED BY <1>2, <1>3, <1>4, <1>5, <1>6

\* A reconcile that ends with the request queued again, having written nothing.
LEMMA OpErrorKeepsInv ==
    ASSUME IInv, TypeOK', OpEnd(TRUE), UNCHANGED <<cr, event, dirty, retry, ctlVars, forceVars>>
    PROVE  StatusDecided' /\ OpInv' /\ AgentInv'
<1>1. cr.rv \in Nat
  BY DEF IInv, TypeOK, CR
<1>2. AgentInv'
  BY AgentInvKept
<1>3. OpInv'
  BY <1>1, NoCRType DEF IInv, OpInv, OpEnd, OpCopy, OpProgress, NoLostInput, StatusDecided
<1> QED BY <1>2, <1>3 DEF IInv, StatusDecided

\* A write that gives a new version is an event, one that changes nothing is not.
LEMMA Published ==
    ASSUME event \in BOOLEAN, \E c : Publish(c)
    PROVE  /\ cr'.rv # cr.rv => event' = TRUE
           /\ cr' = cr => event' = event
<1>1. event' = (event \/ cr'.rv # cr.rv)
  BY Zenon DEF Publish
<1>2. cr'.rv # cr.rv => event' = TRUE
  BY <1>1, Zenon
<1>3. cr' = cr => ~(cr'.rv # cr.rv)
  OBVIOUS
<1>4. cr' = cr => event' = event
  BY <1>1, <1>3, Zenon
<1> QED BY <1>2, <1>4

\* The operator's three writes keep what the agent relies on.
LEMMA OpWriteKeepsAgentInv ==
    ASSUME IInv, TypeOK', UNCHANGED <<ctlVars, forceVars, dirty, retry>>, Current(opObj, cr),
           \/ op = "mark" /\ Publish(StatusWritten(MarkUpdating(opObj), cr))
           \/ op = "write" /\ Publish(SpecWritten(plan, cr))
           \/ op = "finish" /\ Publish(StatusWritten(MarkUpdated(opObj), cr))
    PROVE  StatusDecided' /\ AgentInv'
<1> USE DEF IInv
<1>0. /\ cr \in CR /\ opObj \in CR /\ plan \in Specs /\ opObj = cr /\ event \in BOOLEAN
      /\ cr.rv \in Nat /\ cr.rg \in Nat /\ cr.sg \in Nat /\ cr.sg <= cr.rg
      /\ op # "idle" => cr.rv > 0
  BY DEF TypeOK, CR, OpInv, OpCopy, StatusDecided
<1>e. (cr'.rv # cr.rv => event' = TRUE) /\ (cr' = cr => event' = event)
  <2>1. \E c : Publish(c)
    OBVIOUS
  <2> QED BY <1>0, <2>1, Published
<1>1. CASE op = "mark" /\ Publish(StatusWritten(MarkUpdating(opObj), cr))
  <2>1. cr'.rv = cr.rv + 1 /\ cr'.updating = "True" /\ cr'.rg = cr.rg /\ cr'.sg = cr.sg
    BY <1>1, <1>0, Writes, Marks DEF Publish
  <2>2. event' = TRUE /\ cr'.rv > cr.rv
    BY <1>0, <2>1, <1>e
  <2>3. ~Synced(cr')
    BY <2>1 DEF Synced, needCheckSync
  <2>4. AgentInv'
    BY <2>2, <2>3, AgentInvKept
  <2> QED BY <1>0, <2>1, <2>4 DEF StatusDecided
<1>2. CASE op = "write" /\ Publish(SpecWritten(plan, cr))
  <2>1. /\ cr'.updating = "True" /\ cr'.rg = cr.rg /\ cr'.sg = cr.sg
        /\ \/ cr'.rv = cr.rv /\ cr' = cr
           \/ cr'.rv = cr.rv + 1
    BY <1>2, <1>0, Writes DEF Publish, OpInv, OpCopy
  <2>2. ~Synced(cr')
    BY <2>1 DEF Synced, needCheckSync
  <2>3. AgentInv'
    <3>1. CASE cr' = cr
      <4>1. event' = event
        BY <3>1, <1>e
      <4> QED BY <3>1, <4>1, AgentInvKept
    <3>2. CASE cr'.rv = cr.rv + 1
      <4>1. event' = TRUE /\ cr'.rv > cr.rv
        BY <1>0, <3>2, <1>e
      <4> QED BY <2>2, <4>1, AgentInvKept
    <3> QED BY <2>1, <3>1, <3>2
  <2> QED BY <1>0, <1>2, <2>1, <2>3 DEF StatusDecided
<1>3. CASE op = "finish" /\ Publish(StatusWritten(MarkUpdated(opObj), cr))
  <2>1. /\ cr'.rv = cr.rv + 1 /\ cr'.updating = "False" /\ cr'.syncing = "Unknown"
        /\ cr'.rg = cr.rg + 1 /\ cr'.sg = cr.sg
    BY <1>3, <1>0, Writes, Marks DEF Publish
  <2>2. event' = TRUE /\ cr'.rv > cr.rv /\ ~Synced(cr')
    <3>1. event' = TRUE /\ cr'.rv > cr.rv
      BY <1>0, <2>1, <1>e
    <3> QED BY <2>1, <3>1 DEF Synced, needCheckSync
  <2>3. cr'.sg <= cr'.rg /\ needSync(cr') /\ cr'.rv # 0
    BY <1>0, <2>1 DEF needSync
  <2> QED BY <2>2, <2>3, AgentInvKept DEF StatusDecided
<1> QED BY <1>1, <1>2, <1>3

\* The steps of the operator, its failures and the changes of its input.
LEMMA OpKeepsInv ==
    ASSUME IInv, TypeOK', OpStep \/ OpFails \/ OpAnswerLost \/ Change
    PROVE  StatusDecided' /\ OpInv' /\ AgentInv'
<1> USE DEF IInv, OpInv, ctlVars, forceVars, envVars, queueVars
<1>0. /\ cr \in CR /\ opObj \in CR /\ plan \in Specs /\ NoRules \in Specs
      /\ cr.rv \in Nat /\ opObj.rv \in Nat /\ cr.rg \in Nat /\ cr.sg \in Nat
  BY DEF TypeOK, CR
<1>1. CASE OpGet
  <2>1. CASE cr.rv = 0
    <3>0. FreshCR(NoRules).rv # cr.rv
      BY <2>1 DEF FreshCR
    <3>1. cr' = FreshCR(NoRules) /\ event' /\ opObj' = cr'
      BY <1>1, <2>1, <3>0 DEF OpGet, Publish
    <3>2. ~Synced(cr') /\ cr'.rv > cr.rv
      BY <3>1, <2>1 DEF FreshCR, Synced, needCheckSync
    <3>3. StatusDecided'
      BY <3>1 DEF StatusDecided, FreshCR
    <3>4. AgentInv'
      BY <1>1, <3>1, <3>2, AgentInvKept DEF OpGet
    <3>5. OpInv'
      BY <1>1, <3>1 DEF OpGet, OpCopy, OpProgress, NoLostInput, FreshCR
    <3> QED BY <3>3, <3>4, <3>5
  <2>2. CASE cr.rv # 0
    <3>1. cr' = cr /\ event' = event /\ opObj' = cr'
      BY <1>1, <2>2 DEF OpGet, Publish, TypeOK
    <3>2. AgentInv'
      BY <1>1, <3>1, AgentInvKept DEF OpGet
    <3>3. OpInv'
      BY <1>1, <1>0, <2>2, <3>1 DEF OpGet, OpCopy, OpProgress, NoLostInput
    <3> QED BY <3>1, <3>2, <3>3 DEF StatusDecided
  <2> QED BY <2>1, <2>2
<1>2. CASE OpMarked
  <2>1. AgentInv' /\ StatusDecided'
    BY <1>2, AgentInvKept DEF OpMarked, StatusDecided
  <2>2. OpInv'
    BY <1>2 DEF OpMarked, OpCopy, OpProgress, NoLostInput
  <2> QED BY <2>1, <2>2
<1>3. CASE OpMark
  <2>1. AgentInv' /\ StatusDecided'
    BY <1>3, OpWriteKeepsAgentInv DEF OpMark
  <2>2. opObj' = cr' /\ cr'.updating = "True" /\ cr'.rv > 0 /\ op' = "plan"
    BY <1>3, <1>0, Writes, Marks DEF OpMark, Publish
  <2>3. OpInv'
    BY <2>2 DEF OpCopy, OpProgress, NoLostInput, TypeOK, CR
  <2> QED BY <2>1, <2>3
<1>4. CASE OpPlan
  <2>1. AgentInv' /\ StatusDecided'
    BY <1>4, AgentInvKept DEF OpPlan, StatusDecided
  <2>2. OpInv'
    BY <1>4 DEF OpPlan, OpCopy, OpProgress, NoLostInput
  <2> QED BY <2>1, <2>2
<1>5. CASE OpWrite
  <2>1. AgentInv' /\ StatusDecided'
    BY <1>5, OpWriteKeepsAgentInv DEF OpWrite
  <2>2. opObj' = cr' /\ cr'.updating = cr.updating /\ cr'.spec = plan /\ op' = "finish"
    BY <1>5, <1>0, Writes DEF OpWrite, Publish
  <2>3. cr'.rv > 0 /\ cr.updating = "True"
    BY <1>5, <1>0, Writes DEF OpWrite, Publish, OpCopy
  <2>4. OpInv'
    BY <1>5, <2>2, <2>3 DEF OpWrite, OpCopy, OpProgress, NoLostInput, TypeOK, CR
  <2> QED BY <2>1, <2>4
<1>6. CASE OpFinish
  <2>1. AgentInv' /\ StatusDecided'
    BY <1>6, OpWriteKeepsAgentInv DEF OpFinish
  <2>2. cr'.updating = "False" /\ cr'.spec = cr.spec /\ cr'.rv > 0
    BY <1>6, <1>0, Writes, Marks DEF OpFinish, Publish
  <2>3. opObj = cr
    BY <1>6 DEF OpFinish, OpCopy
  <2>4. OpInv'
    <3>1. op' = "idle" /\ opObj' = NoCR /\ opDirty' = opDirty /\ want' = want /\ cr'.rv \in Nat
      BY <1>6 DEF OpFinish, OpEnd, TypeOK, CR
    <3>2. cr.spec \in Rendering[want] \/ opDirty
      BY <1>6, <2>3 DEF OpFinish, OpProgress
    <3> QED BY <2>2, <3>1, <3>2, NoCRType DEF OpCopy, OpProgress, NoLostInput
  <2> QED BY <2>1, <2>4
<1>7. CASE OpNoIP \/ OpConflict \/ OpFails
  BY <1>7, OpErrorKeepsInv DEF OpNoIP, OpConflict, OpFails, OpError
<1>8. CASE OpAnswerLost
  <2>1. CASE op = "idle"
    <3>1. cr.rv = 0 /\ cr' = FreshCR(NoRules) /\ FreshCR(NoRules).rv = 1
      BY <1>8, <2>1 DEF OpAnswerLost, Publish, FreshCR
    <3>2. event' = TRUE /\ cr'.rv > cr.rv /\ ~Synced(cr') /\ StatusDecided'
      <4>1. \E c : Publish(c)
        BY <1>8 DEF OpAnswerLost
      <4>2. event' = TRUE
        <5>1. event \in BOOLEAN /\ cr'.rv # cr.rv
          BY <3>1 DEF TypeOK
        <5> QED BY <4>1, <5>1, Published
      <4> QED BY <3>1, <4>2 DEF FreshCR, Synced, needCheckSync, StatusDecided
    <3>3. AgentInv'
      BY <1>8, <3>2, AgentInvKept DEF OpAnswerLost
    <3> QED BY <1>8, <3>1, <3>2, <3>3, NoCRType DEF OpAnswerLost, OpEnd, OpCopy, OpProgress, NoLostInput
  <2>2. CASE op # "idle"
    <3>1. AgentInv' /\ StatusDecided'
      BY <1>8, <2>2, OpWriteKeepsAgentInv DEF OpAnswerLost
    <3>2. cr'.rv > 0
      <4>1. cr'.rv \in {cr.rv, cr.rv + 1}
        <5>1. /\ MarkUpdating(opObj) \in CR /\ MarkUpdated(opObj) \in CR
          BY <1>0, Marks
        <5> QED BY <1>8, <2>2, <1>0, <5>1, Writes DEF OpAnswerLost, Publish
      <4>2. cr.rv > 0
        BY <1>8, <2>2 DEF OpAnswerLost, OpCopy
      <4> QED BY <1>0, <4>1, <4>2
    <3>3. op' = "idle" /\ opObj' = NoCR /\ opDirty'
      BY <1>8 DEF OpAnswerLost, OpEnd
    <3>4. OpInv'
      <4>1. cr'.rv \in Nat
        BY DEF TypeOK, CR
      <4> QED BY <3>2, <3>3, <4>1, NoCRType DEF OpCopy, OpProgress, NoLostInput
    <3> QED BY <3>1, <3>4
  <2> QED BY <2>1, <2>2
<1>9. CASE Change
  <2>1. AgentInv' /\ StatusDecided'
    BY <1>9, AgentInvKept DEF Change, StatusDecided
  <2>2. OpInv'
    BY <1>9 DEF Change, OpCopy, OpProgress, NoLostInput
  <2> QED BY <2>1, <2>2
<1> QED BY <1>1, <1>2, <1>3, <1>4, <1>5, <1>6, <1>7, <1>8, <1>9 DEF OpStep

\* A reconcile of the agent that ends without a write of the resource.
LEMMA ReturnKeepsInv ==
    ASSUME IInv, TypeOK', ag' = "idle", obj' = NoCR, UNCHANGED <<cr, forceVars, opVars, want>>,
           needSync(cr) \/ (Synced(cr) /\ ~Applied(cr.spec)) => event' \/ dirty' \/ retry'
    PROVE  StatusDecided' /\ OpInv' /\ AgentInv'
<1> USE DEF IInv
<1>1. StatusDecided' /\ OpInv'
  BY OpInvKept DEF StatusDecided
<1>2. cr.rv \in Nat /\ cr' = cr /\ ~Passing' /\ ~Reconciling'
  BY DEF TypeOK, CR, Passing, Reconciling
<1>3. AgentCopy' /\ NotAnnouncedWhilePassing'
  BY <1>2, NoCRType DEF AgentCopy, NotAnnouncedWhilePassing
<1>4. Progress'
  BY DEF Progress
<1>5. NoLeftovers'
  BY <1>2 DEF AgentInv, NoLeftovers, TunnelsIn, NatIn, forceVars
<1>6. NoLostSync'
  BY <1>2 DEF NoLostSync, Unfinished, WorkPending, Applied, forceVars
<1> QED BY <1>1, <1>3, <1>4, <1>5, <1>6 DEF AgentInv

\* What a resource in the announced state has in force, if the maps and the
\* chains hold what it asks for.
LEMMA CheckIsExact ==
    ASSUME TypeOK, NoLeftovers, Synced(cr), ruleSynced(cr.spec)
    PROVE  Applied(cr.spec)
<1>1. cr.spec \in Specs
  BY DEF TypeOK, CR
<1>2. tunnels = getExpectedSSHTunnel(cr.spec) /\ remoteTunnels = getExpectedRemoteSSHTunnel(cr.spec)
  BY DEF NoLeftovers, TunnelsIn, ruleSynced
<1>3. \A c \in Chains : nat[c] = getExpectedIptablesRule(cr.spec)[c]
  BY DEF NoLeftovers, NatIn, ruleSynced
<1>4. nat = getExpectedIptablesRule(cr.spec)
  BY <1>1, <1>3, ExpectedType DEF TypeOK
<1> QED BY <1>2, <1>4 DEF Applied

\* The steps of the agent's controller.
LEMMA QueueKeepsInv ==
    ASSUME IInv, TypeOK', Deliver \/ Resync \/ RetryFires
    PROVE  StatusDecided' /\ OpInv' /\ AgentInv'
<1> USE DEF IInv, Deliver, Resync, RetryFires, ctlVars, forceVars, envVars
<1>1. StatusDecided' /\ OpInv'
  BY OpInvKept DEF StatusDecided
<1>2. AgentCopy'
  BY DEF AgentInv, AgentCopy, Reconciling, Passing
<1>3. NotAnnouncedWhilePassing' /\ Progress'
  BY DEF AgentInv, NotAnnouncedWhilePassing, Passing, Progress, NatIn
<1>4. NoLeftovers' /\ NoLostSync'
  BY DEF AgentInv, NoLeftovers, TunnelsIn, NatIn, NoLostSync, Unfinished, WorkPending, Applied
<1> QED BY <1>1, <1>2, <1>3, <1>4 DEF AgentInv

\* The steps of a reconcile that neither write the resource nor return.
LEMMA PassKeepsInv ==
    ASSUME IInv, TypeOK',
           Take \/ Get \/ Marked \/ UpdateTunnels \/ ClearChain \/ AppendRule \/ Appended
             \/ CheckFailed \/ CheckErrs
    PROVE  StatusDecided' /\ OpInv' /\ AgentInv'
<1> USE DEF IInv, AgentInv, envVars, queueVars, Reconciling, Passing, needSync, needCheckSync, Synced
<1>0. cr' = cr /\ UNCHANGED <<opVars, want, event, retry>> /\ (ag' # "get" => dirty' = dirty)
  BY DEF Take, Get, Marked, UpdateTunnels, ClearChain, AppendRule, Appended, CheckFailed, CheckErrs
<1>1. StatusDecided' /\ OpInv'
  BY <1>0, OpInvKept DEF StatusDecided
<1>2. NoLostSync'
  <2>1. ag' # "idle"
    BY DEF Take, Get, Marked, UpdateTunnels, ClearChain, AppendRule, Appended, CheckFailed, CheckErrs,
           ctlVars
  <2> QED BY <2>1 DEF NoLostSync, Unfinished, WorkPending
<1>3. CASE Take
  <2> USE <1>3 DEF Take, forceVars
  <2>1. AgentCopy' /\ NotAnnouncedWhilePassing' /\ Progress'
    BY DEF AgentCopy, NotAnnouncedWhilePassing, Progress
  <2>2. NoLeftovers'
    BY DEF NoLeftovers, TunnelsIn, NatIn
  <2> QED BY <1>1, <1>2, <2>1, <2>2
<1>4. CASE Get
  <2> USE <1>4 DEF Get, forceVars
  <2>1. cr.rv > 0
    BY DEF TypeOK, CR
  <2>2. AgentCopy'
    <3>1. obj' = cr' /\ cr'.rv > 0 /\ cr'.rv \in Nat
      BY <1>0, <2>1 DEF TypeOK, CR
    <3>2. \/ ag' = "mark" /\ needSync(obj)'
          \/ ag' = "check" /\ Synced(obj)'
      <4>1. obj' = cr
        OBVIOUS
      <4> QED BY <4>1
    <3> QED BY <3>1, <3>2 DEF AgentCopy
  <2>3. NotAnnouncedWhilePassing' /\ Progress'
    BY DEF NotAnnouncedWhilePassing, Progress
  <2>4. NoLeftovers'
    BY DEF NoLeftovers, TunnelsIn, NatIn
  <2> QED BY <1>1, <1>2, <2>2, <2>3, <2>4
<1>5. CASE Marked
  <2> USE <1>5 DEF Marked, forceVars
  <2>1. AgentCopy' /\ NotAnnouncedWhilePassing' /\ Progress'
    BY DEF AgentCopy, NotAnnouncedWhilePassing, Progress
  <2>2. NoLeftovers'
    BY DEF NoLeftovers, TunnelsIn, NatIn
  <2> QED BY <1>1, <1>2, <2>1, <2>2
<1>6. CASE UpdateTunnels
  <2> USE <1>6 DEF UpdateTunnels
  <2>1. AgentCopy' /\ NotAnnouncedWhilePassing'
    BY DEF AgentCopy, NotAnnouncedWhilePassing
  <2>2. Progress'
    BY DEF Progress, ensure, deleteUnused
  <2>3. NoLeftovers'
    BY DEF NoLeftovers, NotAnnouncedWhilePassing
  <2> QED BY <1>1, <1>2, <2>1, <2>2, <2>3
<1>7. CASE ClearChain
  <2> USE <1>7 DEF ClearChain
  <2>1. AgentCopy' /\ NotAnnouncedWhilePassing'
    BY DEF AgentCopy, NotAnnouncedWhilePassing
  <2>2. \A c \in Chains \ todo' : nat'[c] = {}
    BY DEF Progress, TypeOK
  <2>3. todo' = {} => \A c \in Chains : nat'[c] = {}
    BY <2>2
  <2>4. Progress'
    BY <2>2, <2>3 DEF Progress, NatIn
  <2>5. NoLeftovers'
    BY DEF NoLeftovers, NotAnnouncedWhilePassing
  <2> QED BY <1>1, <1>2, <2>1, <2>4, <2>5
<1>8. CASE AppendRule
  <2> USE <1>8 DEF AppendRule, ctlVars
  <2>1. AgentCopy' /\ NotAnnouncedWhilePassing'
    BY DEF AgentCopy, NotAnnouncedWhilePassing
  <2>2. NatIn(obj.spec)'
    BY DEF Progress, NatIn, TypeOK
  <2>3. Progress'
    BY <2>2 DEF Progress
  <2>4. NoLeftovers'
    BY DEF NoLeftovers, NotAnnouncedWhilePassing
  <2> QED BY <1>1, <1>2, <2>1, <2>3, <2>4
<1>9. CASE Appended
  <2> USE <1>9 DEF Appended, forceVars
  <2>1. AgentCopy' /\ NotAnnouncedWhilePassing'
    BY DEF AgentCopy, NotAnnouncedWhilePassing
  <2>2. nat = getExpectedIptablesRule(obj.spec)
    <3>1. \A c \in Chains : nat[c] = getExpectedIptablesRule(obj.spec)[c]
      BY DEF Progress, NatIn
    <3>2. obj.spec \in Specs
      BY DEF TypeOK, CR
    <3> QED BY <3>1, <3>2, ExpectedType DEF TypeOK
  <2>3. Progress'
    BY <2>2 DEF Progress, NatIn
  <2>4. NoLeftovers'
    BY DEF NoLeftovers, NotAnnouncedWhilePassing
  <2> QED BY <1>1, <1>2, <2>1, <2>3, <2>4
<1>10. CASE CheckFailed \/ CheckErrs
  <2> USE <1>10 DEF CheckFailed, CheckErrs, forceVars, Fault
  <2>1. AgentCopy' /\ NotAnnouncedWhilePassing' /\ Progress'
    BY DEF AgentCopy, NotAnnouncedWhilePassing, Progress
  <2>2. NoLeftovers'
    BY DEF NoLeftovers, TunnelsIn, NatIn
  <2> QED BY <1>1, <1>2, <2>1, <2>2
<1> QED BY <1>3, <1>4, <1>5, <1>6, <1>7, <1>8, <1>9, <1>10

\* The agent's writes of the resource: an event, no spec, no Updating.
LEMMA AgentWriteKeepsOpInv ==
    ASSUME IInv, TypeOK', UNCHANGED <<opVars, want>>, Current(obj, cr),
           \/ ag \in {"mark", "recall"} /\ Publish(StatusWritten(MarkSyncing(obj), cr))
           \/ ag = "announce" /\ Publish(StatusWritten(MarkSynced(obj), cr))
    PROVE  /\ StatusDecided' /\ OpInv' /\ event' = TRUE
           /\ obj = cr /\ cr'.rv = cr.rv + 1 /\ cr'.spec = cr.spec
           /\ ag # "announce" => needSync(cr') /\ ~Synced(cr')
<1> USE DEF IInv
<1>0. /\ cr \in CR /\ obj \in CR /\ obj = cr /\ event \in BOOLEAN
      /\ cr.rv \in Nat /\ cr.rg \in Nat /\ cr.sg \in Nat /\ cr.sg <= cr.rg
      /\ cr.updating = "False"
  BY DEF TypeOK, CR, AgentInv, AgentCopy, Reconciling, Passing, StatusDecided, needSync, Synced, needCheckSync
<1>1. /\ cr'.rv = cr.rv + 1 /\ cr'.spec = cr.spec /\ cr'.updating = "False" /\ cr'.rg = cr.rg
      /\ cr'.sg \in {cr.sg, cr.rg}
      /\ ag # "announce" => cr'.syncing = "True"
      /\ ag = "announce" => cr'.syncing = "False" /\ cr'.sg = cr.rg
  BY <1>0, Writes, Marks DEF Publish
<1>2. event' = TRUE
  <2>1. \E c : Publish(c)
    OBVIOUS
  <2>2. cr'.rv # cr.rv
    BY <1>0, <1>1
  <2> QED BY <1>0, <2>1, <2>2, Published
<1>3. ag # "announce" => needSync(cr') /\ ~Synced(cr')
  BY <1>1 DEF needSync, Synced, needCheckSync
<1>4. ag = "announce" => Synced(cr')
  BY <1>1 DEF Synced, needCheckSync
<1>5. StatusDecided'
  BY <1>0, <1>1, <1>3, <1>4 DEF StatusDecided
<1>6. OpInv'
  BY <1>0, <1>1, OpInvKept
<1> QED BY <1>0, <1>1, <1>2, <1>3, <1>5, <1>6

\* A reconcile of the agent that ends with a write of the resource. The copy
\* is current, so what setSynced announces is what the pass put in force.
LEMMA AgentWriteKeepsInv ==
    ASSUME IInv, TypeOK', UNCHANGED <<opVars, want, forceVars>>, Current(obj, cr),
           ag' = "idle", obj' = NoCR,
           \/ ag \in {"mark", "recall"} /\ Publish(StatusWritten(MarkSyncing(obj), cr))
           \/ ag = "announce" /\ Publish(StatusWritten(MarkSynced(obj), cr))
    PROVE  /\ StatusDecided' /\ OpInv' /\ AgentInv'
           /\ Synced(cr') => Applied(cr.spec)' /\ cr'.spec = cr.spec
<1> USE DEF IInv
<1>1. /\ StatusDecided' /\ OpInv' /\ event' = TRUE
      /\ obj = cr /\ cr'.rv = cr.rv + 1 /\ cr'.spec = cr.spec
      /\ ag # "announce" => ~Synced(cr')
  BY AgentWriteKeepsOpInv
<1>2. cr'.rv \in Nat /\ ~Passing' /\ ~Reconciling'
  BY DEF TypeOK, CR, Passing, Reconciling
<1>3. AgentCopy' /\ NotAnnouncedWhilePassing' /\ Progress'
  BY <1>2, NoCRType DEF AgentCopy, NotAnnouncedWhilePassing, Progress
<1>4. Synced(cr') => Applied(cr.spec)'
  BY <1>1 DEF AgentInv, Progress, Applied, forceVars
<1>5. cr'.spec \in Specs
  BY DEF TypeOK, CR
<1>6. NoLeftovers'
  BY <1>4, <1>5, ExpectedType DEF NoLeftovers, Applied, TunnelsIn, NatIn
<1>7. NoLostSync'
  BY <1>1 DEF NoLostSync, Unfinished, WorkPending
<1> QED BY <1>1, <1>3, <1>4, <1>6, <1>7 DEF AgentInv

\* setSyncing at the start of a pass, when the status has to be sent.
LEMMA MarkKeepsInv ==
    ASSUME IInv, TypeOK', Mark
    PROVE  StatusDecided' /\ OpInv' /\ AgentInv'
<1> USE DEF IInv, Mark, forceVars, envVars
<1>1. /\ StatusDecided' /\ OpInv' /\ event' = TRUE
      /\ obj = cr /\ cr'.rv = cr.rv + 1 /\ cr'.spec = cr.spec
      /\ needSync(cr') /\ ~Synced(cr')
  BY AgentWriteKeepsOpInv
<1>2. cr.rv \in Nat /\ obj \in CR /\ obj.updating = "False"
  BY DEF TypeOK, CR, AgentInv, AgentCopy, needSync
<1>3. obj'.rv = cr.rv /\ obj'.updating = "False" /\ obj'.syncing = "True"
  BY <1>1, <1>2, Marks
<1>4. AgentCopy'
  BY <1>1, <1>2, <1>3 DEF AgentCopy, Reconciling, Passing
<1>5. NotAnnouncedWhilePassing' /\ Progress' /\ NoLeftovers'
  BY <1>1 DEF NotAnnouncedWhilePassing, Progress, NoLeftovers
<1>6. NoLostSync'
  BY <1>1 DEF NoLostSync, Unfinished, WorkPending
<1> QED BY <1>1, <1>4, <1>5, <1>6 DEF AgentInv

\* A restart forgets the tunnels and the queue, and the first listing wakes the agent.
LEMMA RestartKeepsInv ==
    ASSUME IInv, TypeOK', Restart
    PROVE  StatusDecided' /\ OpInv' /\ AgentInv'
<1> USE DEF IInv, Restart
<1>1. StatusDecided' /\ OpInv'
  BY OpInvKept DEF StatusDecided
<1>2. cr.rv \in Nat /\ cr' = cr /\ ~Passing' /\ ~Reconciling'
  BY DEF TypeOK, CR, Passing, Reconciling
<1>3. AgentCopy' /\ NotAnnouncedWhilePassing' /\ Progress'
  BY <1>2, NoCRType DEF AgentCopy, NotAnnouncedWhilePassing, Progress
<1>4. \A c \in Chains : nat'[c] \subseteq nat[c]
  BY DEF NoNat
<1>5. NoLeftovers'
  BY <1>2, <1>4 DEF AgentInv, NoLeftovers, TunnelsIn, NatIn
<1>6. cr.rv = 0 => ~needSync(cr) /\ ~Synced(cr)
  BY NoCRType DEF StatusDecided, needSync, Synced, needCheckSync
<1>7. NoLostSync'
  BY <1>2, <1>6 DEF NoLostSync, Unfinished, WorkPending
<1> QED BY <1>1, <1>3, <1>5, <1>7 DEF AgentInv

\* The steps of the agent, its failures and its restart.
LEMMA AgentKeepsInv ==
    ASSUME IInv, TypeOK', AgentStep \/ AgentFails \/ CheckErrs \/ AgentAnswerLost \/ Restart
    PROVE  StatusDecided' /\ OpInv' /\ AgentInv'
<1> USE DEF IInv, envVars
<1>1. CASE Conflict \/ AgentFails
  <2>1. Return(TRUE) /\ UNCHANGED <<cr, forceVars, opVars, want>>
    BY <1>1 DEF Conflict, AgentFails
  <2> QED BY <2>1, ReturnKeepsInv DEF Return
<1>2. CASE GetNothingToDo
  <2>1. ~needSync(cr) /\ ~Synced(cr)
    BY <1>2 DEF GetNothingToDo, Synced
  <2> QED BY <1>2, <2>1, ReturnKeepsInv DEF GetNothingToDo, Return
<1>3. CASE CheckOK
  <2>1. obj = cr \/ event \/ dirty
    BY <1>3 DEF CheckOK, AgentInv, AgentCopy, Reconciling
  <2>2. obj = cr => Synced(cr) /\ Applied(cr.spec)
    BY <1>3, CheckIsExact DEF CheckOK, AgentInv, AgentCopy
  <2>3. ~needSync(cr) \/ ~Synced(cr)
    BY DEF needSync, Synced, needCheckSync
  <2>4. needSync(cr) \/ (Synced(cr) /\ ~Applied(cr.spec)) => event \/ dirty
    BY <2>1, <2>2, <2>3
  <2> QED BY <1>3, <2>4, ReturnKeepsInv DEF CheckOK, Return
<1>4. CASE Announce \/ Recall
  BY <1>4, AgentWriteKeepsInv DEF Announce, Recall, Return
<1>5. CASE AgentAnswerLost
  BY <1>5, AgentWriteKeepsInv DEF AgentAnswerLost, Return
<1>6. CASE Mark
  BY <1>6, MarkKeepsInv
<1>7. CASE Restart
  BY <1>7, RestartKeepsInv
<1>8. CASE \/ Take \/ Get \/ Marked \/ UpdateTunnels \/ ClearChain \/ AppendRule \/ Appended
          \/ CheckFailed \/ CheckErrs
  BY <1>8, PassKeepsInv
<1> QED BY <1>1, <1>2, <1>3, <1>4, <1>5, <1>6, <1>7, <1>8 DEF AgentStep

\* Every step keeps the inductive invariant.
LEMMA InvStep == IInv /\ [Next]_vars => IInv'
<1> SUFFICES ASSUME IInv, [Next]_vars PROVE IInv'
  OBVIOUS
<1>1. TypeOK'
  BY TypeStep DEF IInv
<1>2. CASE OpStep \/ OpFails \/ OpAnswerLost \/ Change
  BY <1>1, <1>2, OpKeepsInv DEF IInv
<1>3. CASE Deliver \/ Resync \/ RetryFires
  BY <1>1, <1>3, QueueKeepsInv DEF IInv
<1>4. CASE AgentStep \/ AgentFails \/ CheckErrs \/ AgentAnswerLost \/ Restart
  BY <1>1, <1>4, AgentKeepsInv DEF IInv
<1>5. CASE UNCHANGED vars
  <2>0. UNCHANGED <<cr, opVars, want, ctlVars, forceVars, dirty, retry, event>>
    BY <1>5 DEF vars, queueVars, envVars
  <2>1. StatusDecided' /\ OpInv'
    BY <1>1, <2>0, OpInvKept DEF IInv, StatusDecided
  <2>2. AgentInv'
    BY <1>1, <2>0, AgentInvKept
  <2> QED BY <1>1, <2>1, <2>2 DEF IInv
<1> QED BY <1>2, <1>3, <1>4, <1>5 DEF Next

-----------------------------------------------------------------------------
\* The inductive invariant holds in every behaviour of the protocol.
THEOREM Invariance == Spec => []IInv
<1>1. Init => IInv
  BY InitInv
<1>2. IInv /\ [Next]_vars => IInv'
  BY InvStep
<1> QED BY <1>1, <1>2, PTL DEF Spec

\* Every variable keeps its type.
THEOREM TypeCorrect == Spec => []TypeOK
<1>1. IInv => TypeOK
  BY DEF IInv
<1> QED BY <1>1, Invariance, PTL

\* No tunnel and no rule of an older spec is in force under a resource that is
\* announced as synced.
THEOREM SyncedHasNoLeftovers == Spec => []NoLeftovers
<1>1. IInv => NoLeftovers
  BY DEF IInv, AgentInv
<1> QED BY <1>1, Invariance, PTL

\* A resource that waits for the agent, or has lost its rules, has a wake-up; an input
\* that is not in the resource yet has a reconcile of the operator.
THEOREM WorkIsNotLost == Spec => []NoLostWork
<1>1. IInv => NoLostWork
  BY DEF IInv, AgentInv, OpInv, NoLostWork
<1> QED BY <1>1, Invariance, PTL

\* Where operator and agent rest, the last rules are published and in force: what
\* EventuallyDelivered becomes without fairness.
THEOREM RestMeansDelivered == Spec => []RestIsDelivered
<1>1. IInv => RestIsDelivered
  <2> SUFFICES ASSUME IInv, AtRest, Rendering[want] # {}
               PROVE  cr.spec \in Rendering[want] /\ Synced(cr) /\ Applied(cr.spec)
    BY DEF RestIsDelivered
  <2>1. cr.updating = "False" /\ cr.spec \in Rendering[want]
    BY DEF IInv, OpInv, NoLostInput, AtRest
  <2>2. ~needSync(cr) /\ (Synced(cr) => Applied(cr.spec))
    BY DEF IInv, AgentInv, NoLostSync, Unfinished, AtRest
  <2> QED BY <2>1, <2>2 DEF IInv, StatusDecided
<1> QED BY <1>1, Invariance, PTL

-----------------------------------------------------------------------------
(* What one step can do to the resource and to what is in force.            *)

Hidden == UNCHANGED <<cr, forceVars>>
\* The agent works on its tunnels and chains.
Working == cr' = cr /\ ~Synced(cr)
\* The operator creates the resource, or marks it as updating.
Marking == UNCHANGED <<cr.spec, forceVars>> /\ cr'.updating # "False"
\* The operator writes the rules.
Writing ==
    cr.updating = "True" /\ cr'.updating = "True" /\ UNCHANGED forceVars
\* The operator ends its update.
Finishing ==
    /\ UNCHANGED <<cr.spec, forceVars>>
    /\ cr.updating = "True" /\ cr'.updating = "False" /\ ~Synced(cr')
\* The agent reports Syncing at the start of a pass or after a failed check.
Reporting ==
    /\ UNCHANGED <<cr.spec, forceVars>>
    /\ cr.updating = "False" /\ cr'.updating = "False" /\ ~Synced(cr')
\* The agent announces.
Announcing ==
    /\ UNCHANGED <<cr.spec, forceVars>>
    /\ cr.updating = "False" /\ cr'.updating = "False"
    /\ ~Synced(cr) /\ Synced(cr') /\ Applied(cr.spec)
\* The agent restarts.
Losing ==
    /\ cr' = cr /\ tunnels' = {} /\ remoteTunnels' = {}
    /\ nat' = nat \/ nat' = NoNat

\* What the steps of the operator can do to the resource, as its reader sees it.
LEMMA OpKinds ==
    ASSUME IInv, OpStep \/ OpFails \/ OpAnswerLost \/ Change
    PROVE  Hidden \/ Marking \/ Writing \/ Finishing
<1> USE DEF IInv, queueVars, envVars
<1>0. /\ cr \in CR /\ opObj \in CR /\ plan \in Specs
      /\ cr.rg \in Nat /\ cr.sg \in Nat /\ cr.sg <= cr.rg
      /\ Current(opObj, cr) => opObj = cr
      /\ op \in {"write", "finish"} => opObj.updating = "True"
  BY DEF TypeOK, CR, OpInv, OpCopy, StatusDecided
<1>1. ASSUME cr.rv = 0, cr' = FreshCR(NoRules), UNCHANGED forceVars PROVE Marking
  BY <1>1 DEF StatusDecided, NoCR, FreshCR, Marking
<1>2. ASSUME Current(opObj, cr), cr' = StatusWritten(MarkUpdating(opObj), cr), UNCHANGED forceVars
      PROVE  Marking
  BY <1>2, <1>0, Writes, Marks DEF Marking
<1>3. ASSUME op = "write", Current(opObj, cr), cr' = SpecWritten(plan, cr), UNCHANGED forceVars
      PROVE  Writing
  BY <1>3, <1>0, Writes DEF Writing
<1>4. ASSUME op = "finish", Current(opObj, cr), cr' = StatusWritten(MarkUpdated(opObj), cr),
             UNCHANGED forceVars
      PROVE  Finishing
  <2>1. /\ cr'.spec = cr.spec /\ cr'.updating = "False" /\ cr'.syncing = "Unknown"
        /\ cr.updating = "True"
    BY <1>4, <1>0, Writes, Marks
  <2> QED BY <1>4, <2>1 DEF Finishing, Synced, needCheckSync
<1>5. CASE OpGet
  BY <1>1, <1>5 DEF OpGet, Publish, Hidden
<1>6. CASE OpMark
  BY <1>2, <1>6 DEF OpMark, Publish
<1>7. CASE OpWrite
  BY <1>3, <1>7 DEF OpWrite, Publish
<1>8. CASE OpFinish
  BY <1>4, <1>8 DEF OpFinish, Publish
<1>9. CASE OpAnswerLost
  <2>1. UNCHANGED forceVars
    BY <1>9 DEF OpAnswerLost
  <2> QED BY <1>1, <1>2, <1>3, <1>4, <1>9, <2>1 DEF OpAnswerLost, Publish
<1>10. CASE OpMarked \/ OpPlan \/ OpNoIP \/ OpConflict \/ OpFails \/ Change
  BY <1>10 DEF OpMarked, OpPlan, OpNoIP, OpConflict, OpFails, Change, OpError, Hidden
<1> QED BY <1>5, <1>6, <1>7, <1>8, <1>9, <1>10 DEF OpStep

\* What the steps of the agent can do to the resource, as its reader sees it.
LEMMA AgentKinds ==
    ASSUME IInv, TypeOK', AgentStep \/ AgentFails \/ CheckErrs \/ AgentAnswerLost \/ Restart
    PROVE  Hidden \/ Working \/ Reporting \/ Announcing \/ Losing
<1> USE DEF IInv, envVars, queueVars
<1>1. ASSUME UNCHANGED <<opVars, want, forceVars>>, Current(obj, cr),
             \/ ag \in {"mark", "recall"} /\ Publish(StatusWritten(MarkSyncing(obj), cr))
             \/ ag = "announce" /\ Publish(StatusWritten(MarkSynced(obj), cr))
      PROVE  Reporting \/ Announcing
  <2>1. /\ obj = cr /\ cr'.spec = cr.spec /\ cr' \in CR
        /\ ag # "announce" => ~Synced(cr')
    BY <1>1, AgentWriteKeepsOpInv DEF TypeOK
  <2>2. obj.updating = "False" /\ obj \in CR
    BY <1>1 DEF TypeOK, AgentInv, AgentCopy, Passing, needSync, Synced, needCheckSync
  <2>3. cr'.updating = "False"
    BY <1>1, <2>1, <2>2, Writes, Marks DEF Publish
  <2>4. CASE ag # "announce"
    BY <1>1, <2>1, <2>2, <2>3, <2>4 DEF Reporting
  <2>5. CASE ag = "announce"
    <3>1. ~Synced(cr) /\ Applied(cr.spec)
      BY <2>1, <2>5 DEF AgentInv, NotAnnouncedWhilePassing, Passing, Progress, Applied
    <3> QED BY <1>1, <2>1, <2>2, <2>3, <3>1 DEF Reporting, Announcing
  <2> QED BY <2>4, <2>5
<1>2. CASE Mark \/ Announce \/ Recall \/ AgentAnswerLost
  BY <1>1, <1>2 DEF Mark, Announce, Recall, AgentAnswerLost
<1>3. CASE UpdateTunnels \/ ClearChain \/ AppendRule
  BY <1>3 DEF UpdateTunnels, ClearChain, AppendRule, Working, AgentInv, NotAnnouncedWhilePassing, Passing
<1>4. CASE Restart
  BY <1>4 DEF Restart, Losing
<1>5. CASE \/ Take \/ Get \/ GetNothingToDo \/ Marked \/ Appended
          \/ CheckOK \/ CheckFailed \/ Conflict \/ AgentFails \/ CheckErrs
  BY <1>5 DEF Take, Get, GetNothingToDo, Marked, Appended, CheckOK, CheckFailed, Conflict,
              AgentFails, CheckErrs, Hidden
<1> QED BY <1>2, <1>3, <1>4, <1>5 DEF AgentStep

\* Every step is of one of these kinds.
LEMMA StepKinds ==
    ASSUME IInv, [Next]_vars
    PROVE  \/ Hidden \/ Working \/ Marking \/ Writing \/ Finishing \/ Reporting \/ Announcing
           \/ Losing
<1>1. TypeOK'
  BY TypeStep DEF IInv
<1>2. CASE Deliver \/ Resync \/ RetryFires \/ UNCHANGED vars
  BY <1>2 DEF Deliver, Resync, RetryFires, vars, Hidden
<1> QED BY <1>1, <1>2, OpKinds, AgentKinds DEF Next

\* The agent announces only the rules that are in the resource at that moment,
\* and only when exactly these are in force.
THEOREM AnnouncementIsTrue == Spec => AnnouncesOnlyApplied
<1>1. IInv /\ [Next]_vars => [~Synced(cr) /\ Synced(cr)' => Applied(cr.spec)']_vars
  <2> SUFFICES ASSUME IInv, [Next]_vars, ~Synced(cr), Synced(cr)' PROVE Applied(cr.spec)'
    OBVIOUS
  <2>1. Announcing
    BY StepKinds DEF Hidden, Working, Marking, Writing, Finishing, Reporting, Losing, Synced, needCheckSync
  <2> QED BY <2>1 DEF Announcing, Applied, forceVars
<1> QED BY <1>1, Invariance, PTL DEF Spec, AnnouncesOnlyApplied

\* The rules of a resource change only while it is marked as updating.
THEOREM RulesChangeOnlyWhileUpdating == Spec => ChangesOnlyWhileUpdating
<1>1. IInv /\ [Next]_vars =>
        [cr'.spec # cr.spec => cr.updating = "True" /\ cr'.updating = "True"]_vars
  BY StepKinds DEF Hidden, Working, Marking, Writing, Finishing, Reporting, Announcing, Losing
<1> QED BY <1>1, Invariance, PTL DEF Spec, ChangesOnlyWhileUpdating

-----------------------------------------------------------------------------
\* The initial state is one of RuleDelivery's.
LEMMA InitRefines == Init => Delivery!Init
<1> SUFFICES ASSUME Init PROVE Delivery!Init
  OBVIOUS
<1>1. cr.updating = "absent" /\ cr.spec = NoRules
  BY DEF Init, NoCR, FreshCR
<1>2. phase = "updating"
  BY <1>1 DEF phase
<1>3. Applied(cr.spec) \in BOOLEAN
  BY DEF Applied
<1> QED BY <1>1, <1>2, <1>3 DEF Delivery!Init, Delivery!TypeOK

\* The phases of RuleDelivery, condition by condition.
LEMMA PhaseIs ==
    /\ cr.updating # "False" => phase = "updating"
    /\ Synced(cr) => phase = "synced"
    /\ cr.updating = "False" /\ ~Synced(cr) => phase = "pending"
BY DEF phase, Synced, needCheckSync

\* Every step is a step of RuleDelivery or leaves its variables alone.
LEMMA StepRefines == IInv /\ [Next]_vars => [Delivery!Next]_(Delivery!vars)
<1> SUFFICES ASSUME IInv, [Next]_vars PROVE [Delivery!Next]_(Delivery!vars)
  OBVIOUS
<1> DEFINE good == Applied(cr.spec)
<1>1. TypeOK'
  BY TypeStep DEF IInv
<1>2. good \in BOOLEAN /\ good' \in BOOLEAN
  BY DEF Applied
<1>3. cr.spec' \in Specs
  BY <1>1 DEF TypeOK, CR
<1>4. /\ cr'.updating # "False" => phase' = "updating"
      /\ Synced(cr') => phase' = "synced"
      /\ cr'.updating = "False" /\ ~Synced(cr') => phase' = "pending"
  BY DEF phase, Synced, needCheckSync
<1>5. UNCHANGED <<cr.spec, forceVars>> => good' = good
  BY DEF Applied, forceVars
<1> HIDE DEF good
<1> USE DEF Delivery!Next, Delivery!vars
<1>6. CASE Hidden
  <2>1. good' = good /\ phase' = phase /\ cr.spec' = cr.spec
    BY <1>5, <1>6 DEF Hidden, phase, Synced, needCheckSync
  <2> QED BY <2>1 DEF good
<1>7. CASE Working
  <2>1. phase' = phase /\ cr.spec' = cr.spec /\ phase # "synced"
    BY <1>7 DEF Working, phase, Synced, needCheckSync
  <2> QED BY <1>2, <2>1 DEF Delivery!Work, good
<1>8. CASE Marking
  <2>1. good' = good /\ cr.spec' = cr.spec /\ phase' = "updating"
    BY <1>4, <1>5, <1>8 DEF Marking
  <2>2. phase \in {"updating", "pending", "synced"}
    BY DEF phase
  <2> QED BY <2>1, <2>2 DEF Delivery!StartUpdate, good
<1>9. CASE Writing
  <2>1. phase = "updating" /\ phase' = "updating"
    BY <1>4, <1>9, PhaseIs DEF Writing
  <2> QED BY <1>2, <1>3, <2>1 DEF Delivery!ChangeRules, good
<1>10. CASE Finishing
  <2>1. good' = good /\ cr.spec' = cr.spec /\ phase = "updating" /\ phase' = "pending"
    BY <1>4, <1>5, <1>10, PhaseIs DEF Finishing
  <2> QED BY <2>1 DEF Delivery!EndUpdate, good
<1>11. CASE Reporting
  <2>1. good' = good /\ cr.spec' = cr.spec /\ phase' = "pending"
    BY <1>4, <1>5, <1>11 DEF Reporting
  <2>2. phase \in {"pending", "synced"}
    BY <1>11, PhaseIs DEF Reporting
  <2> QED BY <2>1, <2>2 DEF Delivery!Recall, good
<1>12. CASE Announcing
  <2>1. good' = good /\ good /\ cr.spec' = cr.spec /\ phase = "pending" /\ phase' = "synced"
    BY <1>4, <1>5, <1>12, PhaseIs DEF Announcing, good
  <2> QED BY <2>1 DEF Delivery!Announce, good
<1>13. CASE Losing
  <2>1. cr.spec' = cr.spec /\ phase' = phase
    BY <1>13 DEF Losing, phase, Synced, needCheckSync
  <2>2. CASE phase # "synced"
    BY <1>2, <2>1, <2>2 DEF Delivery!Work, good
  <2>3. CASE phase = "synced" /\ good'
    <3>1. NoLeftovers /\ Synced(cr)
      BY <2>3 DEF IInv, AgentInv, phase
    <3>2. good
      BY <1>13, <2>3, <3>1, CheckIsExact
         DEF Losing, good, Applied, NoLeftovers, TunnelsIn, NatIn, NoNat, ruleSynced, IInv
    <3> QED BY <1>2, <2>1, <2>3, <3>2 DEF good
  <2>4. CASE good' = FALSE
    BY <2>1, <2>4 DEF Delivery!Lose, good
  <2> QED BY <1>2, <2>2, <2>3, <2>4
<1> QED BY StepKinds, <1>6, <1>7, <1>8, <1>9, <1>10, <1>11, <1>12, <1>13

\* The protocol of the operator and the agent implements RuleDelivery.
THEOREM Refinement == Spec => ImplementsRuleDelivery
<1>1. Init => Delivery!Init
  BY InitRefines
<1>2. IInv /\ [Next]_vars => [Delivery!Next]_(Delivery!vars)
  BY StepRefines
<1> QED BY <1>1, <1>2, Invariance, PTL DEF Spec, ImplementsRuleDelivery, Delivery!Spec
=============================================================================
