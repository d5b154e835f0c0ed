---------------------------- MODULE TunnelProofs ----------------------------
(***************************************************************************)
(* For any number of tunnels and connections: no connection outlives the   *)
(* ssh client it was opened through without being cut off, nothing is      *)
(* copied for a connection that was accepted after Cancel, a failed        *)
(* Forward leaves nothing open, and only Cancel and the 15 minutes end it. *)
(***************************************************************************)
EXTENDS Tunnel, TLAPS

\* A Forward that fails, at any point before its retry, keeps the invariant: what
\* was served through its client is cut off in the same step.
LEMMA ForwardFailsKeepsInv ==
    ASSUME IInv, NEW t \in Tunnels, ForwardFails(t)
    PROVE  IInv'
  <1>1. TypeOK'
    BY DEF IInv, TypeOK, ForwardFails, FarClosed, Goto, PCs, GivesUp, Sides, Far
  <1>2. Listening'
    BY DEF IInv, TypeOK, Listening, ForwardFails, Goto
  <1>5. ClientInForward' /\ EndsOnlyWhenTold'
    BY DEF IInv, TypeOK, ClientInForward, EndsOnlyWhenTold, ForwardFails, Goto, GivesUp, Outside
  <1>3. LateIsCanceled' /\ NothingCopiedAfterCancel'
    BY DEF IInv, LateIsCanceled, NothingCopiedAfterCancel, ForwardFails
  <1>4. FarHalfNeedsClient'
    <2> SUFFICES ASSUME NEW c \in Conns, owner[c] # NoConn, Far \notin gone'[c]
                 PROVE  ssh'[owner[c]] = "up" /\ owner[c] \in listening'
      BY DEF FarHalfNeedsClient, ForwardFails
    <2>1. owner[c] # t /\ gone'[c] = gone[c]
      BY DEF ForwardFails, FarClosed
    <2>2. ssh[owner[c]] = "up" /\ owner[c] \in listening
      BY <2>1 DEF IInv, FarHalfNeedsClient
    <2> QED BY <2>1, <2>2 DEF ForwardFails, IInv, TypeOK
  <1> QED BY <1>1, <1>2, <1>3, <1>4, <1>5 DEF IInv

\* Every step keeps the invariant.
LEMMA InvStep == IInv /\ [Next]_vars => IInv'
  <1> SUFFICES ASSUME IInv, [Next]_vars PROVE IInv'
    OBVIOUS
  <1> USE DEF IInv, TypeOK, Listening, ClientInForward, Outside, LateIsCanceled,
              FarHalfNeedsClient, NothingCopiedAfterCancel, EndsOnlyWhenTold,
              Goto, connVars, tunVars
  <1>1. ASSUME NEW t \in Tunnels, Start(t) PROVE IInv'
    BY <1>1 DEF Start, PCs
  <1>2. ASSUME NEW t \in Tunnels, Cancel(t) PROVE IInv'
    BY <1>2 DEF Cancel
  <1>3. ASSUME NEW t \in Tunnels, Dial(t) PROVE IInv'
    <2>1. CASE ForwardFails(t)
      BY <2>1, ForwardFailsKeepsInv
    <2>2. CASE /\ pc[t] = "dial" /\ Goto(t, "listen")
               /\ ssh' = [ssh EXCEPT ![t] = "up"]
               /\ UNCHANGED <<kind, listening, canceled, expired, connVars>>
      <3>1. TypeOK' /\ Listening' /\ LateIsCanceled' /\ NothingCopiedAfterCancel'
        BY <2>2 DEF PCs
      <3>3. ClientInForward' /\ EndsOnlyWhenTold'
        BY <2>2
      <3>2. FarHalfNeedsClient'
        BY <2>2
      <3> QED BY <3>1, <3>2, <3>3
    <2> QED BY <1>3, <2>1, <2>2 DEF Dial
  <1>4. ASSUME NEW t \in Tunnels, Listen(t) PROVE IInv'
    BY <1>4 DEF Listen, PCs
  <1>5. ASSUME NEW t \in Tunnels, ListenFails(t) \/ AcceptFails(t) \/ ConnectFails(t) PROVE IInv'
    BY <1>5, ForwardFailsKeepsInv DEF ListenFails, AcceptFails, ConnectFails
  <1>6. ASSUME NEW t \in Tunnels, Select(t) PROVE IInv'
    BY <1>6 DEF Select, PCs
  <1>7. ASSUME NEW t \in Tunnels, Accept(t) PROVE IInv'
    BY <1>7 DEF Accept, PCs
  <1>8. ASSUME NEW t \in Tunnels, Connect(t) PROVE IInv'
    <2>1. PICK c \in Conns :
            /\ owner[c] = NoConn
            /\ owner' = [owner EXCEPT ![c] = t]
            /\ late' = IF t \in canceled THEN late \cup {c} ELSE late \ {c}
            /\ gone' = [gone EXCEPT ![c] = {}]
            /\ copying' = [copying EXCEPT ![c] = [d \in Sides |-> "starting"]]
      BY <1>8 DEF Connect
    <2>2. TypeOK' /\ Listening' /\ ClientInForward' /\ EndsOnlyWhenTold'
      BY <1>8, <2>1 DEF Connect, PCs
    <2>3. LateIsCanceled' /\ NothingCopiedAfterCancel'
      BY <1>8, <2>1 DEF Connect
    <2>4. FarHalfNeedsClient'
      BY <1>8, <2>1 DEF Connect
    <2> QED BY <2>2, <2>3, <2>4
  <1>9. ASSUME NEW t \in Tunnels, Retry(t) PROVE IInv'
    BY <1>9 DEF Retry, AfterWait, PCs
  <1>10. ASSUME NEW t \in Tunnels, Lose(t) PROVE IInv'
    <2>1. TypeOK'
      BY <1>10 DEF Lose, FarClosed, Sides
    <2>2. FarHalfNeedsClient'
      BY <1>10 DEF Lose, FarClosed
    <2> QED BY <1>10, <2>1, <2>2 DEF Lose
  <1>11. ASSUME NEW t \in Tunnels, Expire(t) PROVE IInv'
    BY <1>11 DEF Expire
  <1>12. ASSUME NEW c \in Conns, Close(c) PROVE IInv'
    BY <1>12 DEF Close
  <1>13. ASSUME NEW c \in Conns, NEW d \in Sides, StartCopy(c, d) PROVE IInv'
    <2>1. c \in late => copying'[c][d] = "ended"
      BY <1>13 DEF StartCopy, FirstStep
    <2>2. TypeOK'
      BY <1>13 DEF StartCopy, FirstStep
    <2>3. \A b \in Conns, e \in Sides : b # c \/ e # d => copying'[b][e] = copying[b][e]
      BY <1>13 DEF StartCopy
    <2> QED BY <1>13, <2>1, <2>2, <2>3 DEF StartCopy
  <1>14. ASSUME NEW c \in Conns, NEW d \in Sides, EndCopy(c, d) PROVE IInv'
    <2>1. TypeOK'
      BY <1>14 DEF EndCopy
    <2>2. \A b \in Conns, e \in Sides : copying'[b][e] # "ended" => copying'[b][e] = copying[b][e]
      BY <1>14 DEF EndCopy
    <2> QED BY <1>14, <2>1, <2>2 DEF EndCopy
  <1>15. ASSUME NEW c \in Conns, NEW d \in Sides, PeerCloses(c, d) PROVE IInv'
    BY <1>15 DEF PeerCloses
  <1>16. CASE UNCHANGED vars
    BY <1>16 DEF vars
  <1>17. CASE Crash
    BY <1>17 DEF Crash, PCs
  <1> QED BY <1>1, <1>2, <1>3, <1>4, <1>5, <1>6, <1>7, <1>8, <1>9, <1>10, <1>11, <1>12,
             <1>13, <1>14, <1>15, <1>16, <1>17 DEF Next, Running, TunnelStep

\* The invariant holds from the start.
LEMMA InvInit == Init => IInv
  BY DEF Init, IInv, TypeOK, Listening, ClientInForward, Outside, LateIsCanceled,
         FarHalfNeedsClient, NothingCopiedAfterCancel, EndsOnlyWhenTold, PCs, Kinds

\* The invariant always holds.
THEOREM Invariance == Spec => []IInv
  BY InvInit, InvStep, PTL DEF Spec

\* Every variable has its type.
THEOREM TypeCorrect == Spec => []TypeOK
  <1>1. IInv => TypeOK
    BY DEF IInv
  <1> QED BY <1>1, Invariance, PTL

\* A connection still joined to its far half is served by a live client and an
\* open listener: every failed Forward cuts its connections off.
THEOREM ConnectionsNeedTheirClient == Spec => []FarHalfNeedsClient
  <1>1. IInv => FarHalfNeedsClient
    BY DEF IInv
  <1> QED BY <1>1, Invariance, PTL

\* A connection accepted after Cancel never carries anything.
THEOREM CanceledTunnelCarriesNothing == Spec => []NothingCopiedAfterCancel
  <1>1. IInv => NothingCopiedAfterCancel
    BY DEF IInv
  <1> QED BY <1>1, Invariance, PTL

\* No failure ends a tunnel's goroutine for good, only Cancel and the 15 minutes.
THEOREM OnlyCancelAndTimeEnd == Spec => []EndsOnlyWhenTold
  <1>1. IInv => EndsOnlyWhenTold
    BY DEF IInv
  <1> QED BY <1>1, Invariance, PTL

\* Whatever made Forward return, and wherever it was: client and listener are closed,
\* and every connection of the tunnel is cut off.
THEOREM ForwardLeavesNothing == Spec => []LeavesNothing
  <1>1. IInv => LeavesNothing
    <2> SUFFICES ASSUME IInv, NEW t \in Tunnels, pc[t] \in Outside
                 PROVE  /\ ssh[t] = "none" /\ t \notin listening
                        /\ \A c \in Conns : owner[c] = t => Far \in gone[c]
      BY DEF LeavesNothing
    <2>1. ssh[t] = "none" /\ t \notin listening
      BY DEF IInv, ClientInForward, Listening, Outside
    <2>2. ASSUME NEW c \in Conns, owner[c] = t PROVE Far \in gone[c]
      <3>1. owner[c] # NoConn
        BY <2>2, NoConnAssumption
      <3> QED BY <2>1, <2>2, <3>1 DEF IInv, FarHalfNeedsClient
    <2> QED BY <2>1, <2>2
  <1> QED BY <1>1, Invariance, PTL
=============================================================================
