------------------------------ MODULE CRStatus ------------------------------
(***************************************************************************)
(* The custom resource the operator and an agent talk through: the rules   *)
(* (spec), the two conditions and the two generations of its status, and   *)
(* the resource version the API server uses for optimistic concurrency.    *)
(* Forwarder and Gateway have the same shape, and the status.go files of   *)
(* the two agents are identical up to the type, so both use this module.   *)
(***************************************************************************)
EXTENDS Naturals

CONSTANT Specs          \* what .Spec of the resource can hold

\* status.Conditions is a map: IsTrueFor and IsFalseFor are both false of a
\* condition that was never set.
CondStatus == {"absent", "True", "False", "Unknown"}

CR == [rv: Nat, spec: Specs, updating: CondStatus, syncing: CondStatus, rg: Nat, sg: Nat]

\* What Create leaves in the API server: no condition, generations zero.
FreshCR(spec) ==
    [rv |-> 1, spec |-> spec, updating |-> "absent", syncing |-> "absent", rg |-> 0, sg |-> 0]

\* Sync is needed: not updating, and generations differ or Syncing is True.
needSync(c) ==
    /\ c.updating = "False"
    /\ c.rg # c.sg \/ c.syncing = "True"

\* CheckSync is needed: not updating, generations equal, Syncing is False.
needCheckSync(c) ==
    /\ c.updating = "False"
    /\ c.rg = c.sg
    /\ c.syncing = "False"

\* The resource tells everybody that its current rules are in force.
Synced(c) == needCheckSync(c)

-----------------------------------------------------------------------------
(* The two writes of the API server. A write carries a copy o of the        *)
(* resource, and is refused unless o has the current resource version.      *)

\* The same without optimistic concurrency, used to test the properties.
Current_Unchecked(o, c) == TRUE

Current(o, c) == o.rv = c.rv

\* Status().Update: the status of o, the spec of the server.
StatusWritten(o, c) == [o EXCEPT !.rv = c.rv + 1, !.spec = c.spec]

\* Update: the spec given, the status of the server. A write that changes
\* nothing leaves the resource version alone and wakes nobody.
SpecWritten(spec, c) ==
    IF spec = c.spec THEN c ELSE [c EXCEPT !.rv = c.rv + 1, !.spec = spec]

-----------------------------------------------------------------------------
(* What the status setters put in their copy before they send it.           *)

\* Slips of the setters, used to test the properties.
MarkUpdated_SameGeneration(o) == [o EXCEPT !.updating = "False", !.syncing = "Unknown"]
MarkSyncing_NoSuchStatus(o) == [o EXCEPT !.syncing = "Syncing"]

MarkUpdating(o) == [o EXCEPT !.updating = "True"]
MarkUpdated(o)  == [o EXCEPT !.updating = "False", !.syncing = "Unknown", !.rg = o.rg + 1]
MarkSyncing(o)  == [o EXCEPT !.syncing = "True"]
MarkSynced(o)   == [o EXCEPT !.syncing = "False", !.sg = o.rg]
=============================================================================
