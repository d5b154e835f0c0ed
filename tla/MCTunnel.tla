------------------------------ MODULE MCTunnel ------------------------------
(* Small instances of Tunnel under the agent's maps: an old and a new tunnel *)
(* for one rule, or a tunnel of each kind, with one connection; or one       *)
(* tunnel alone.                                                             *)
EXTENDS TunnelMap

CONSTANTS t1, t2, c1, none

MCTunnels == {t1, t2}
MCOneTunnel == {t1}
MCOneConn == {c1}
=============================================================================
