---------------------------- MODULE RuleDelivery ----------------------------
(***************************************************************************)
(* What the operator and one agent promise together about one resource:    *)
(* its rules change only while it is marked as updating; it is announced   *)
(* as synced only when the rules it holds are the ones in force; and while *)
(* it is announced, what is in force can only be lost (a restart), never   *)
(* replaced by other rules behind the reader's back.                       *)
(***************************************************************************)
CONSTANT Specs

VARIABLES spec,     \* the rules the resource holds
          phase,    \* what its status says: "updating", "pending" or "synced"
          good      \* are exactly these rules in force at the agent?

vars == <<spec, phase, good>>

TypeOK ==
    /\ spec \in Specs
    /\ phase \in {"updating", "pending", "synced"}
    /\ good \in BOOLEAN

Init == TypeOK /\ phase = "updating"

StartUpdate ==
    /\ phase \in {"pending", "synced"}
    /\ phase' = "updating"
    /\ UNCHANGED <<spec, good>>

ChangeRules ==
    /\ phase = "updating"
    /\ spec' \in Specs
    /\ good' \in BOOLEAN
    /\ UNCHANGED phase

EndUpdate ==
    /\ phase = "updating"
    /\ phase' = "pending"
    /\ UNCHANGED <<spec, good>>

\* The agent puts rules in force, these or the ones of an older copy.
Work ==
    /\ phase # "synced"
    /\ good' \in BOOLEAN
    /\ UNCHANGED <<spec, phase>>

Announce ==
    /\ phase = "pending"
    /\ good
    /\ phase' = "synced"
    /\ UNCHANGED <<spec, good>>

Lose ==
    /\ good' = FALSE
    /\ UNCHANGED <<spec, phase>>

Recall ==
    /\ phase = "synced"
    /\ phase' = "pending"
    /\ UNCHANGED <<spec, good>>

Next == StartUpdate \/ ChangeRules \/ EndUpdate \/ Work \/ Announce \/ Lose \/ Recall

Spec == Init /\ [][Next]_vars
=============================================================================
