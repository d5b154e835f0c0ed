------------------------------ MODULE TunnelMap ------------------------------
(***************************************************************************)
(* The forwarder agent's maps of tunnels (forwarder/reconciler.go) over    *)
(* the goroutines of Tunnel: a pass cancels and drops the tunnels that no  *)
(* rule asks for any more and creates those that are missing. What a       *)
(* tunnel in a map really does, nothing tells the agent.                   *)
(*                                                                         *)
(* In ForwarderSync a tunnel in the map is in force; here is when that is  *)
(* so. Each kind of rule has one address here, for one rule after another; *)
(* the two maps share nothing, and a rule that is replaced by one of the   *)
(* same address is one that goes and one that comes. Rules of two keys     *)
(* have two addresses (ForwarderPortsDistinct); two egress rules of one    *)
(* key share theirs and are left out.                                      *)
(***************************************************************************)
EXTENDS Tunnel

CONSTANT NoTunnel

ASSUME NoTunnelAssumption == NoTunnel \notin Tunnels

\* Of each kind, the entry of f.tunnels or f.remoteTunnels.
VARIABLE map

allVars == <<vars, map>>

-----------------------------------------------------------------------------
MapInit == Init /\ map = [k \in Kinds |-> NoTunnel]

\* Slip, used to test the properties: a tunnel is dropped and not canceled.
Dropped_NotCanceled(t) == UNCHANGED vars

Dropped(t) == Cancel(t)

\* What is in the map already is skipped.
Missing(k) == map[k] = NoTunnel

\* deleteUnusedSSHTunnel and deleteUnusedRemoteSSHTunnel: a rule is gone.
deleteUnused(k) ==
    /\ map[k] # NoTunnel
    /\ Dropped(map[k])
    /\ map' = [map EXCEPT ![k] = NoTunnel]

\* ensureSSHTunnel and ensureRemoteSSHTunnel: a rule is there. The bound is on the
\* tunnels that one process creates.
ensure(k) ==
    /\ Missing(k)
    /\ \E t \in Tunnels :
         kind[t] = k /\ Start(t) /\ map' = [map EXCEPT ![k] = t]

\* The agent restarts with empty maps.
Restart == Crash /\ map' = [k \in Kinds |-> NoTunnel]

MapNext ==
    \/ Restart
    \/ \E k \in Kinds : deleteUnused(k) \/ ensure(k)
    \/ Running /\ UNCHANGED map

MapSpec == MapInit /\ [][MapNext]_allVars

\* As in Tunnel. Nothing is assumed of the rules.
MapFairness ==
    /\ \A t \in Tunnels : WF_allVars(TunnelStep(t) /\ UNCHANGED map)
    /\ \A c \in Conns :
         /\ WF_allVars(Close(c) /\ UNCHANGED map)
         /\ \A d \in Sides : WF_allVars(ReaderStep(c, d) /\ UNCHANGED map)

FairMapSpec == MapSpec /\ MapFairness

-----------------------------------------------------------------------------
(* Properties.                                                              *)

MapTypeOK == map \in [Kinds -> Tunnels \cup {NoTunnel}]
InMap == { map[k] : k \in Kinds } \ {NoTunnel}

\* A tunnel that works, or still tries, is in its map or was canceled, and what is
\* in a map was started and not canceled: however rules come and go, no tunnel goes
\* on that no rule asks for, and none is started twice.
NoOrphanTunnel ==
    /\ InMap = { t \in Tunnels : pc[t] # "off" /\ t \notin canceled }
    /\ \A k \in Kinds : map[k] # NoTunnel => kind[map[k]] = k

\* A tunnel in a map is at work, or will try again, until its 15 minutes are over:
\* that a pass skips what is in the map costs nothing before.
NoDeadEntry ==
    \A k \in Kinds : map[k] # NoTunnel /\ map[k] \notin expired =>
        pc[map[k]] \notin {"off", "done"}

MapInv == IInv /\ MapTypeOK /\ NoOrphanTunnel

\* Something goes wrong outside: gateway or endpoint cannot be reached, the client
\* is lost, the process ends.
Disturbance ==
    \/ \E t \in Tunnels : (pc[t] \in {"dial", "connect"} /\ ForwardFails(t)) \/ Lose(t)
    \/ Restart

\* Nobody else has the address, and the tunnel's 15 minutes are not over.
Unhindered(k) ==
    map[k] \notin expired /\ \A t \in listening : kind[t] = k => t = map[k]

\* A rule that stays has a tunnel that listens in the end, once nothing goes
\* wrong any more, if that is so within 15 minutes from the tunnel's start and if no
\* tunnel that was canceled holds its address: the retries see to it.
RuleIsServed ==
    <>[][~Disturbance]_allVars =>
        \A k \in Kinds :
            <>[](map[k] # NoTunnel /\ Unhindered(k)) => <>[](map[k] \in listening)

\* README.md:20, of the forwarder: "It creates ssh tunnels to gateway". A rule that
\* stays has a tunnel in the end, once nothing goes wrong any more.
CreatesTunnels ==
    <>[][~Disturbance]_allVars =>
        \A k \in Kinds : <>[](map[k] # NoTunnel) => <>[](map[k] \in listening)
=============================================================================
