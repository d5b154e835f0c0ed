----------------------------- MODULE MCWorkQueue -----------------------------
(* A small instance of WorkQueue: the resource of this agent and one other.  *)
EXTENDS WorkQueue

CONSTANTS own, other, tombstone

MCKeys == {own, other}
=============================================================================
