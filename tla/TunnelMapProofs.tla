-------------------------- MODULE TunnelMapProofs --------------------------
(***************************************************************************)
(* For any number of tunnels and connections: under the agent's maps no    *)
(* tunnel works that is neither in a map nor canceled, none is created     *)
(* twice, and none in a map has ended before its time; and what            *)
(* TunnelProofs shows of the tunnels holds under the maps.                 *)
(***************************************************************************)
EXTENDS TunnelMap, TunnelProofs

\* The state of the agent's maps and goroutines, after creation and canceling.
LEMMA MapTypeStep ==
    ASSUME MapInv, [MapNext]_allVars
    PROVE  MapTypeOK'
  <1> USE DEF MapInv, MapTypeOK
  <1>1. CASE Restart
    BY <1>1 DEF Restart
  <1>2. ASSUME NEW k \in Kinds, deleteUnused(k) PROVE MapTypeOK'
    BY <1>2 DEF deleteUnused
  <1>3. ASSUME NEW k \in Kinds, ensure(k) PROVE MapTypeOK'
    BY <1>3 DEF ensure
  <1>4. CASE UNCHANGED map
    BY <1>4
  <1> QED BY <1>1, <1>2, <1>3, <1>4 DEF MapNext, allVars

\* What the agent does to the tunnels, and what they do meanwhile, are steps of
\* Tunnel: it cancels only tunnels it started.
LEMMA MapStepIsStep ==
    ASSUME MapInv, [MapNext]_allVars
    PROVE  [Next]_vars
  <1>1. CASE Restart
    BY <1>1 DEF Restart, Next
  <1>2. ASSUME NEW k \in Kinds, deleteUnused(k) PROVE Next
    <2>1. map[k] \in Tunnels
      BY <1>2 DEF MapInv, MapTypeOK, deleteUnused
    <2>2. Cancel(map[k])
      BY <1>2 DEF deleteUnused, Dropped
    <2> QED BY <2>1, <2>2 DEF Next
  <1>3. ASSUME NEW k \in Kinds, ensure(k) PROVE Next
    BY <1>3 DEF ensure, Next
  <1>4. CASE Running /\ UNCHANGED map
    BY <1>4 DEF Next
  <1>5. CASE UNCHANGED allVars
    BY <1>5 DEF allVars
  <1> QED BY <1>1, <1>2, <1>3, <1>4, <1>5 DEF MapNext

\* A goroutine never starts or ends one: while the agent is not at work, the tunnels
\* that were started, and those canceled, stay the same.
LEMMA RunningKeepsStarted ==
    ASSUME TypeOK, Running
    PROVE  /\ canceled' = canceled /\ kind' = kind
           /\ \A t \in Tunnels : pc'[t] = "off" <=> pc[t] = "off"
  <1> DEFINE Same == /\ canceled' = canceled /\ kind' = kind
                     /\ \A t \in Tunnels : pc'[t] = "off" <=> pc[t] = "off"
  <1> USE DEF Goto, ForwardFails, connVars, tunVars
  <1>1. ASSUME NEW t \in Tunnels, ForwardFails(t), pc[t] # "off" PROVE Same
    BY <1>1 DEF TypeOK
  <1>2. ASSUME NEW t \in Tunnels, Dial(t) PROVE Same
    BY <1>2, <1>1 DEF Dial, TypeOK
  <1>3. ASSUME NEW t \in Tunnels, Listen(t) \/ Select(t) \/ Connect(t) \/ Accept(t) PROVE Same
    BY <1>3 DEF Listen, Select, Connect, Accept, TypeOK
  <1>4. ASSUME NEW t \in Tunnels, ListenFails(t) \/ AcceptFails(t) \/ ConnectFails(t) PROVE Same
    BY <1>4, <1>1 DEF ListenFails, AcceptFails, ConnectFails
  <1>5. ASSUME NEW t \in Tunnels, Retry(t) PROVE Same
    BY <1>5 DEF Retry, AfterWait, TypeOK
  <1>6. ASSUME NEW t \in Tunnels, Lose(t) \/ Expire(t) PROVE Same
    BY <1>6 DEF Lose, Expire
  <1>7. ASSUME NEW c \in Conns, Close(c) PROVE Same
    BY <1>7 DEF Close
  <1>8. ASSUME NEW c \in Conns, NEW d \in Sides,
               StartCopy(c, d) \/ EndCopy(c, d) \/ PeerCloses(c, d)
        PROVE  Same
    BY <1>8 DEF StartCopy, EndCopy, PeerCloses
  <1> QED BY <1>2, <1>3, <1>4, <1>5, <1>6, <1>7, <1>8 DEF Running, TunnelStep

\* Every step leaves in the maps exactly the tunnels that work and were not canceled.
LEMMA OrphanStep ==
    ASSUME MapInv, [MapNext]_allVars
    PROVE  NoOrphanTunnel'
  <1> USE NoTunnelAssumption DEF MapInv, MapTypeOK, NoOrphanTunnel, InMap
  <1>1. CASE Restart
    BY <1>1 DEF Restart, Crash
  <1>2. ASSUME NEW k \in Kinds, deleteUnused(k) PROVE NoOrphanTunnel'
    <2> DEFINE t == map[k]
    <2>1. /\ t \in Tunnels /\ t # NoTunnel /\ kind[t] = k
          /\ canceled' = canceled \cup {t} /\ UNCHANGED <<pc, kind>>
          /\ map' = [map EXCEPT ![k] = NoTunnel]
      BY <1>2 DEF deleteUnused, Dropped, Cancel
    <2>2. \A l \in Kinds : l # k => map[l] # t
      BY <2>1
    <2>3. InMap' = InMap \ {t}
      BY <2>1, <2>2
    <2>4. InMap' = { u \in Tunnels : pc'[u] # "off" /\ u \notin canceled' }
      BY <2>1, <2>3
    <2> QED BY <2>1, <2>4
  <1>3. ASSUME NEW k \in Kinds, ensure(k) PROVE NoOrphanTunnel'
    <2>1. PICK t \in Tunnels : kind[t] = k /\ Start(t) /\ map' = [map EXCEPT ![k] = t]
      BY <1>3 DEF ensure
    <2>2. map[k] = NoTunnel
      BY <1>3 DEF ensure, Missing
    <2>3. /\ t \notin canceled /\ pc' = [pc EXCEPT ![t] = "dial"]
          /\ UNCHANGED <<canceled, kind>> /\ t # NoTunnel
      BY <2>1 DEF Start, Goto
    <2>4. InMap' = InMap \cup {t}
      BY <2>1, <2>2, <2>3
    <2>5. \A u \in Tunnels : pc'[u] # "off" <=> pc[u] # "off" \/ u = t
      BY <2>3 DEF IInv, TypeOK
    <2>6. InMap' = { u \in Tunnels : pc'[u] # "off" /\ u \notin canceled' }
      BY <2>3, <2>4, <2>5
    <2> QED BY <2>1, <2>3, <2>6
  <1>4. CASE Running /\ UNCHANGED map
    <2>1. /\ canceled' = canceled /\ kind' = kind
          /\ \A t \in Tunnels : pc'[t] = "off" <=> pc[t] = "off"
      BY <1>4, RunningKeepsStarted DEF IInv
    <2> QED BY <1>4, <2>1
  <1>5. CASE UNCHANGED allVars
    BY <1>5 DEF allVars, vars, tunVars
  <1> QED BY <1>1, <1>2, <1>3, <1>4, <1>5 DEF MapNext

\* The invariant of tunnels and maps always holds.
THEOREM MapInvariance == MapSpec => []MapInv
  <1>1. MapInit => MapInv
    BY InvInit DEF MapInit, MapInv, MapTypeOK, NoOrphanTunnel, InMap, Init
  <1>2. MapInv /\ [MapNext]_allVars => MapInv'
    BY MapTypeStep, OrphanStep, MapStepIsStep, InvStep DEF MapInv
  <1> QED BY <1>1, <1>2, PTL DEF MapSpec

\* However rules come and go: no tunnel works on that no rule asks for, and none is
\* created a second time.
THEOREM NoTunnelIsOrphaned == MapSpec => []NoOrphanTunnel
  <1>1. MapInv => NoOrphanTunnel
    BY DEF MapInv
  <1> QED BY <1>1, MapInvariance, PTL

\* What is in a map was started and not canceled, so only the 15 minutes can have
\* ended it: a pass that skips it skips a tunnel that works or will try again.
THEOREM NoEntryIsDead == MapSpec => []NoDeadEntry
  <1>1. MapInv => NoDeadEntry
    <2> SUFFICES ASSUME MapInv, NEW k \in Kinds, map[k] # NoTunnel, map[k] \notin expired
                 PROVE  pc[map[k]] \notin {"off", "done"}
      BY DEF NoDeadEntry
    <2>1. map[k] \in InMap
      BY DEF InMap
    <2>2. map[k] \in Tunnels /\ pc[map[k]] # "off" /\ map[k] \notin canceled
      BY <2>1 DEF MapInv, NoOrphanTunnel
    <2> QED BY <2>2 DEF MapInv, IInv, EndsOnlyWhenTold
  <1> QED BY <1>1, MapInvariance, PTL

\* Tunnels under the agent's maps are tunnels: what holds of Tunnel holds of them.
THEOREM MapsRefineTunnels == MapSpec => Spec
  <1>1. MapInit => Init
    BY DEF MapInit
  <1>2. MapInv /\ [MapNext]_allVars => [Next]_vars
    BY MapStepIsStep
  <1> QED BY <1>1, <1>2, MapInvariance, PTL DEF MapSpec, Spec
=============================================================================
