------------------------------- MODULE Tunnel -------------------------------
(***************************************************************************)
(* The ssh tunnels of a forwarder (util/ssh.go): the goroutine of each,    *)
(* that dials the gateway, listens, accepts and connects, with the backoff *)
(* around it, and the two copying goroutines of each connection.           *)
(*                                                                         *)
(* A "local" tunnel is Forward: it listens in the forwarder pod and opens  *)
(* the other half of a connection through the gateway. A "remote" one is   *)
(* RemoteForward: it listens on the gateway and connects locally. In both  *)
(* the far half of a connection is a channel of the ssh client.            *)
(***************************************************************************)
CONSTANTS
    Tunnels,    \* tunnels that ask for the same address, if of the same kind
    Conns       \* connections a tunnel may have at a time, over all tunnels

Kinds == {"local", "remote"}
Near  == "near"     \* the half that is a plain TCP connection
Far   == "far"      \* the half that is a channel of the ssh client
Sides == {Near, Far}

VARIABLES
    kind,       \* of each tunnel
    pc,         \* where its goroutine is
    ssh,        \* its ssh client: "none", "up" or "lost"
    listening,  \* the tunnels that have their listener open
    canceled,   \* Cancel was called
    expired,    \* 15 minutes went by since the start: backoff's MaxElapsedTime
    owner,      \* of each connection, its tunnel, or "none"
    late,       \* the connections opened after their tunnel was canceled
    gone,       \* of each connection, the sides that have closed
    copying     \* of each connection and side, the goroutine that reads it

tunVars  == <<kind, pc, ssh, listening, canceled, expired>>
connVars == <<owner, late, gone, copying>>
vars == <<tunVars, connVars>>

-----------------------------------------------------------------------------
NoConn == "none"    \* the owner of what is not a connection at the time
ASSUME NoConnAssumption == NoConn \notin Tunnels

Init ==
    /\ kind \in [Tunnels -> Kinds]
    /\ pc = [t \in Tunnels |-> "off"] /\ ssh = [t \in Tunnels |-> "none"]
    /\ listening = {} /\ canceled = {} /\ expired = {}
    /\ owner = [c \in Conns |-> NoConn] /\ late = {}
    /\ gone = [c \in Conns |-> {}]
    /\ copying = [c \in Conns |-> [d \in Sides |-> "ended"]]

Goto(t, where) == pc' = [pc EXCEPT ![t] = where]

\* ForwardNB and RemoteForwardNB.
Start(t) ==
    /\ pc[t] = "off" /\ t \notin canceled
    /\ Goto(t, "dial")
    /\ UNCHANGED <<kind, ssh, listening, canceled, expired, connVars>>

Cancel(t) ==
    /\ pc[t] # "off" /\ t \notin canceled
    /\ canceled' = canceled \cup {t}
    /\ UNCHANGED <<kind, pc, ssh, listening, expired, connVars>>

\* Slip, used to test the properties: Forward is called, without the backoff.
GivesUp_NoRetry(t) == TRUE

\* NextBackOff says Stop when the context is done or the time is over. The time
\* runs from the start of the tunnel, however long it worked in between.
GivesUp(t) == t \in canceled \cup expired

\* Slip, used to test the properties: the client is left open.
FarClosed_NotClosed(t) == gone

\* Without its ssh client, every connection of the tunnel loses its far half.
FarClosed(t) == [c \in Conns |-> IF owner[c] = t THEN gone[c] \cup {Far} ELSE gone[c]]

\* Forward returns an error: its deferred calls close the listener and the ssh
\* client, and with the client the far halves of all connections of the tunnel.
ForwardFails(t) ==
    /\ Goto(t, IF GivesUp(t) THEN "done" ELSE "wait")
    /\ ssh' = [ssh EXCEPT ![t] = "none"]
    /\ listening' = listening \ {t}
    /\ gone' = FarClosed(t)
    /\ UNCHANGED <<kind, canceled, expired, owner, late, copying>>

\* ssh.Dial.
Dial(t) ==
    /\ pc[t] = "dial"
    /\ \/ /\ Goto(t, "listen")
          /\ ssh' = [ssh EXCEPT ![t] = "up"]
          /\ UNCHANGED <<kind, listening, canceled, expired, connVars>>
       \/ ForwardFails(t)

\* The address is taken as long as another tunnel listens on it.
Taken(t) == \E u \in listening : kind[u] = kind[t]

Listen(t) ==
    /\ pc[t] = "listen" /\ ~Taken(t) /\ (kind[t] = "remote" => ssh[t] = "up")
    /\ listening' = listening \cup {t}
    /\ Goto(t, "loop")
    /\ UNCHANGED <<kind, ssh, canceled, expired, connVars>>

ListenFails(t) ==
    /\ pc[t] = "listen" /\ (Taken(t) \/ ssh[t] = "lost")
    /\ ForwardFails(t)

\* The select at the head of the loop: its break leaves the select, and the loop
\* comes round again.
Select(t) ==
    /\ pc[t] = "loop"
    /\ Goto(t, IF t \in canceled THEN "loop" ELSE "accept")
    /\ UNCHANGED <<kind, ssh, listening, canceled, expired, connVars>>

\* The listener of a remote tunnel needs the ssh client, that of a local one
\* does not notice that it is lost.
Accept(t) ==
    /\ pc[t] = "accept" /\ (kind[t] = "remote" => ssh[t] = "up")
    /\ Goto(t, "connect")
    /\ UNCHANGED <<kind, ssh, listening, canceled, expired, connVars>>

AcceptFails(t) ==
    /\ pc[t] = "accept" /\ kind[t] = "remote" /\ ssh[t] = "lost"
    /\ ForwardFails(t)

\* The other half is opened, and the two copying goroutines started.
Connect(t) ==
    /\ pc[t] = "connect" /\ ssh[t] = "up"
    /\ \E c \in Conns :
         /\ owner[c] = NoConn
         /\ owner' = [owner EXCEPT ![c] = t]
         /\ late' = IF t \in canceled THEN late \cup {c} ELSE late \ {c}
         /\ gone' = [gone EXCEPT ![c] = {}]
         /\ copying' = [copying EXCEPT ![c] = [d \in Sides |-> "starting"]]
    /\ Goto(t, "loop")
    /\ UNCHANGED <<kind, ssh, listening, canceled, expired>>

\* The endpoint refuses, or the client is lost: the half that was accepted is
\* closed, and Forward returns.
ConnectFails(t) ==
    /\ pc[t] = "connect"
    /\ ForwardFails(t)

\* Slip, used to test the properties: a state the machine does not have.
AfterWait_Unknown(t) == {"retry"}

\* RetryNotify's select between the timer and the context: Go takes either if
\* both are ready.
AfterWait(t) == IF t \in canceled THEN {"done", "dial"} ELSE {"dial"}

Retry(t) ==
    /\ pc[t] = "wait"
    /\ \E where \in AfterWait(t) : Goto(t, where)
    /\ UNCHANGED <<kind, ssh, listening, canceled, expired, connVars>>

-----------------------------------------------------------------------------
(* The connections: doForward and doRemoteForward.                          *)

\* Slips, used to test the properties: the context is not looked at; the
\* goroutine returns without wg.Done.
FirstStep_Copy(t) == "copying"
FirstStep_NotDone(t) == IF t \in canceled THEN "starting" ELSE "copying"

\* copyCon looks at the context once, before it copies.
FirstStep(t) == IF t \in canceled THEN "ended" ELSE "copying"

Other(d) == IF d = Near THEN Far ELSE Near

StartCopy(c, d) ==
    /\ owner[c] # NoConn /\ copying[c][d] = "starting"
    /\ copying' = [copying EXCEPT ![c][d] = FirstStep(owner[c])]
    /\ UNCHANGED <<tunVars, owner, late, gone>>

\* io.Copy ends when the side it reads is closed, and may end on a write to the
\* other side if that is closed. It does not tell the other side.
EndCopy(c, d) ==
    /\ owner[c] # NoConn /\ copying[c][d] = "copying"
    /\ d \in gone[c] \/ Other(d) \in gone[c]
    /\ copying' = [copying EXCEPT ![c][d] = "ended"]
    /\ UNCHANGED <<tunVars, owner, late, gone>>

\* Both goroutines are done: the two halves are closed.
Close(c) ==
    /\ owner[c] # NoConn /\ \A d \in Sides : copying[c][d] = "ended"
    /\ owner' = [owner EXCEPT ![c] = NoConn]
    /\ late' = late \ {c} /\ gone' = [gone EXCEPT ![c] = {}]
    /\ UNCHANGED <<tunVars, copying>>

-----------------------------------------------------------------------------
(* The environment.                                                         *)

PeerCloses(c, d) ==
    /\ owner[c] # NoConn /\ d \notin gone[c]
    /\ gone' = [gone EXCEPT ![c] = @ \cup {d}]
    /\ UNCHANGED <<tunVars, owner, late, copying>>

\* The ssh connection breaks: the far halves are gone.
Lose(t) ==
    /\ ssh[t] = "up"
    /\ ssh' = [ssh EXCEPT ![t] = "lost"]
    /\ gone' = FarClosed(t)
    /\ UNCHANGED <<kind, pc, listening, canceled, expired, owner, late, copying>>

Expire(t) ==
    /\ pc[t] \notin {"off", "done"} /\ t \notin expired
    /\ expired' = expired \cup {t}
    /\ UNCHANGED <<kind, pc, ssh, listening, canceled, connVars>>

\* The forwarder's process ends, and starts again with no tunnel.
Crash ==
    /\ pc' = [t \in Tunnels |-> "off"] /\ ssh' = [t \in Tunnels |-> "none"]
    /\ listening' = {} /\ canceled' = {} /\ expired' = {}
    /\ owner' = [c \in Conns |-> NoConn] /\ late' = {}
    /\ gone' = [c \in Conns |-> {}]
    /\ copying' = [c \in Conns |-> [d \in Sides |-> "ended"]]
    /\ UNCHANGED kind

TunnelStep(t) ==
    \/ Dial(t) \/ Listen(t) \/ ListenFails(t) \/ Select(t)
    \/ AcceptFails(t) \/ Connect(t) \/ ConnectFails(t) \/ Retry(t)

ReaderStep(c, d) == StartCopy(c, d) \/ (d \in gone[c] /\ EndCopy(c, d))

\* All that goes on without the agent's goroutine.
Running ==
    \/ \E t \in Tunnels : TunnelStep(t) \/ Accept(t) \/ Lose(t) \/ Expire(t)
    \/ \E c \in Conns : \/ Close(c)
                        \/ \E d \in Sides : StartCopy(c, d) \/ EndCopy(c, d) \/ PeerCloses(c, d)

Next == Running \/ Crash \/ \E t \in Tunnels : Start(t) \/ Cancel(t)

Spec == Init /\ [][Next]_vars

\* Goroutines run; io.Copy ends when what it reads is closed. A connection need
\* not come (Accept), and nobody has to close one.
Fairness ==
    /\ \A t \in Tunnels : WF_vars(TunnelStep(t))
    /\ \A c \in Conns : WF_vars(Close(c)) /\ \A d \in Sides : WF_vars(ReaderStep(c, d))

FairSpec == Spec /\ Fairness

-----------------------------------------------------------------------------
(* Properties.                                                              *)

PCs == {"off", "dial", "listen", "loop", "accept", "connect", "wait", "done"}

\* Every variable has its type.
TypeOK ==
    /\ kind \in [Tunnels -> Kinds] /\ pc \in [Tunnels -> PCs]
    /\ ssh \in [Tunnels -> {"none", "up", "lost"}]
    /\ listening \subseteq Tunnels /\ canceled \subseteq Tunnels /\ expired \subseteq Tunnels
    /\ owner \in [Conns -> Tunnels \cup {NoConn}] /\ late \subseteq Conns
    /\ gone \in [Conns -> SUBSET Sides]
    /\ copying \in [Conns -> [Sides -> {"starting", "copying", "ended"}]]

\* A connection whose tunnel has no ssh client, or has a new one, has lost its far
\* half for good: none survives a failed Forward half-open and unnoticed, and
\* none is served by a goroutine that is past its deferred calls.
FarHalfNeedsClient ==
    \A c \in Conns : owner[c] # NoConn =>
        \/ Far \in gone[c]
        \/ ssh[owner[c]] = "up" /\ owner[c] \in listening

\* A canceled tunnel may still be given a connection, if it was waiting in Accept;
\* nothing of such a connection is ever copied, in either direction.
NothingCopiedAfterCancel ==
    \A c \in late, d \in Sides : copying[c][d] # "copying"

\* A connection whose two sides have closed ends, and both its goroutines with it.
ConnectionsEnd ==
    \A c \in Conns : (owner[c] # NoConn /\ gone[c] = Sides) ~> owner[c] = NoConn

\* A goroutine ends for good only if its tunnel was canceled or its 15 minutes are
\* over: no failure ends it, at whatever point of Forward it comes.
EndsOnlyWhenTold == \A t \in Tunnels : pc[t] = "done" => t \in canceled \cup expired

\* Between two calls of Forward, and after the last one, nothing of the tunnel is left
\* open: no ssh client, no listener, and no connection that is not cut off.
Outside == {"off", "dial", "wait", "done"}
LeavesNothing ==
    \A t \in Tunnels : pc[t] \in Outside =>
        /\ ssh[t] = "none" /\ t \notin listening
        /\ \A c \in Conns : owner[c] = t => Far \in gone[c]

\* The inductive invariant behind them: a tunnel listens exactly while its
\* goroutine is in the loop, it has an ssh client exactly while it is in Forward,
\* and a late connection is of a canceled tunnel.
Listening == \A t \in Tunnels : t \in listening <=> pc[t] \in {"loop", "accept", "connect"}
ClientInForward == \A t \in Tunnels : ssh[t] = "none" <=> pc[t] \in Outside
LateIsCanceled == \A c \in late : owner[c] \in canceled
IInv ==
    /\ TypeOK /\ Listening /\ ClientInForward /\ LateIsCanceled
    /\ FarHalfNeedsClient /\ NothingCopiedAfterCancel /\ EndsOnlyWhenTold

\* The comment at ssh.go:105: "Forward() can be canceled by calling Cancel()".
CancelEndsForward == \A t \in Tunnels : t \in canceled ~> pc[t] = "done"
=============================================================================
