----------------------------- MODULE MCLifecycle -----------------------------
(* A small instance of Lifecycle: one ExternalService and its name.          *)
EXTENDS Lifecycle

CONSTANTS es1, none, n1

MCOneES   == {es1}
MCOneName == {n1}
MCNameOf  == [e \in ESs |-> n1]
=============================================================================
