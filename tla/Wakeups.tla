------------------------------- MODULE Wakeups -------------------------------
(***************************************************************************)
(* What a controller promises its reconciler about the one resource it is  *)
(* for: a change is followed by a look at the resource, however the two    *)
(* interleave and whatever fails in between. The agents of ForwarderSync   *)
(* and GatewaySync rest on that; WorkQueue implements it.                  *)
(***************************************************************************)
VARIABLES
    exists,     \* the resource is there
    seen,       \* it was looked at since its last change, and that went well so far
    pending     \* a look at it is on its way

vars == <<exists, seen, pending>>

Init == exists \in BOOLEAN /\ seen = FALSE /\ pending = TRUE

\* The resource is created, changed or deleted.
Change == exists' \in BOOLEAN /\ seen' = FALSE /\ pending' = TRUE

Look ==
    /\ pending /\ exists /\ ~seen
    /\ seen' = TRUE /\ pending' \in BOOLEAN
    /\ UNCHANGED exists

\* What followed the look failed, or the process that looked is gone.
Fail == seen' = FALSE /\ pending' = TRUE /\ UNCHANGED exists

\* A look that nothing calls for is planned, and one planned is dropped if
\* there is nothing that was not seen.
Wake == pending' = TRUE /\ UNCHANGED <<exists, seen>>
Rest == (seen \/ ~exists) /\ pending' = FALSE /\ UNCHANGED <<exists, seen>>

Next == Change \/ Look \/ Fail \/ Wake \/ Rest

Spec == Init /\ [][Next]_vars /\ WF_vars(Look)
=============================================================================
