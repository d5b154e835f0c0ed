------------------------------ MODULE WorkQueue ------------------------------
(***************************************************************************)
(* The controller of both agents (util/controller.go): an informer that    *)
(* lists and watches, the handlers it calls, client-go's rate-limiting     *)
(* queue and the one worker. Resources of other agents go through the same *)
(* queue; the reconciler looks at Own only, in the API server.             *)
(*                                                                         *)
(* What the looks do is in ForwarderSync and GatewaySync, which have the   *)
(* queue of one key that is never deleted.                                 *)
(***************************************************************************)
EXTENDS Naturals, Sequences

CONSTANTS
    Keys,       \* the resources, by namespace and name
    Own,        \* the one of this agent
    Tombstone,  \* what the informer hands out for a deletion it missed
    MaxNotes,   \* bound: notifications not handled yet
    MaxFaults   \* bound: failed reconciles and restarts

ASSUME KeysAssumption == Own \in Keys /\ Tombstone \notin Keys
ASSUME BoundsAssumption == MaxNotes \in Nat /\ MaxFaults \in Nat

VARIABLES
    exists,     \* the resources in the API server
    seen,       \* Own was read since its last change, by a reconcile that did not fail
    store,      \* the informer's store
    behind,     \* the resources of which it has not processed the last events
    initial,    \* those of its first list that it has not processed yet
    notes,      \* what it handed to the handlers and they have not handled
    queue, dirty, processing,   \* the work queue
    waiting,    \* keys whose rate-limited delay is not over
    at, cur,    \* the worker: where it is, the key it took
    faults

informer == <<store, behind, initial>>
wq       == <<queue, dirty, processing, waiting>>
worker   == <<at, cur>>
vars     == <<exists, seen, informer, notes, wq, worker, faults>>

-----------------------------------------------------------------------------
\* The process as it starts: nothing is listed yet.
Init ==
    /\ exists \in SUBSET Keys /\ seen = FALSE
    /\ store = {} /\ behind = {} /\ initial = {} /\ notes = <<>>
    /\ queue = <<>> /\ dirty = {} /\ processing = {} /\ waiting = {}
    /\ at = "start" /\ cur = Own /\ faults = 0

\* Slip, used to test the properties: a key that is queued is queued again.
Add_Twice(k) ==
    /\ dirty' = dirty \cup {k}
    /\ queue' = IF k \in processing THEN queue ELSE Append(queue, k)

\* Add: a key is queued once; one that is being processed waits for Done.
Add(k) ==
    /\ dirty' = dirty \cup {k}
    /\ queue' = IF k \in dirty \cup processing THEN queue ELSE Append(queue, k)

-----------------------------------------------------------------------------
(* The informer and its handlers.                                           *)

\* The factory starts the informer, which lists all resources.
List ==
    /\ at = "start"
    /\ behind' = exists /\ initial' = exists
    /\ at' = "sync"
    /\ UNCHANGED <<exists, seen, store, notes, wq, cur, faults>>

\* What the handlers are given for the last events of k. A deletion that the
\* watch missed is found by the next list and makes a tombstone (of a resource the
\* informer did not know it makes nothing, which is as good).
NotesOf(k) == IF k \in exists THEN {k} ELSE {k, Tombstone}

Observe(k) ==
    /\ k \in behind /\ Len(notes) < MaxNotes
    /\ behind' = behind \ {k} /\ initial' = initial \ {k}
    /\ store' = IF k \in exists THEN store \cup {k} ELSE store \ {k}
    /\ \E n \in NotesOf(k) : notes' = Append(notes, n)
    /\ UNCHANGED <<exists, seen, wq, worker, faults>>

\* Every 30 seconds the informer hands out all it has.
Resync(k) ==
    /\ k \in store /\ Len(notes) < MaxNotes
    /\ notes' = Append(notes, k)
    /\ UNCHANGED <<exists, seen, informer, wq, worker, faults>>

\* enqueue finds no key in a tombstone, and drops it.
Handle ==
    /\ notes # <<>>
    /\ notes' = Tail(notes)
    /\ IF Head(notes) = Tombstone THEN UNCHANGED <<queue, dirty>> ELSE Add(Head(notes))
    /\ UNCHANGED <<exists, seen, informer, processing, waiting, worker, faults>>

RetryFires(k) ==
    /\ k \in waiting
    /\ waiting' = waiting \ {k}
    /\ Add(k)
    /\ UNCHANGED <<exists, seen, informer, notes, processing, worker, faults>>

-----------------------------------------------------------------------------
(* The worker: Run, processNext, and the head of Reconcile.                 *)

\* WaitForCacheSync.
Run ==
    /\ at = "sync" /\ initial = {}
    /\ at' = "get"
    /\ UNCHANGED <<exists, seen, informer, notes, wq, cur, faults>>

Take ==
    /\ at = "get" /\ queue # <<>>
    /\ cur' = Head(queue) /\ queue' = Tail(queue)
    /\ dirty' = dirty \ {cur'} /\ processing' = processing \cup {cur'}
    /\ at' = "reconcile"
    /\ UNCHANGED <<exists, seen, informer, notes, waiting, faults>>

\* A resource of another agent: nothing to do.
NotOwn ==
    /\ at = "reconcile" /\ cur # Own
    /\ at' = "done"
    /\ UNCHANGED <<exists, seen, informer, notes, wq, cur, faults>>

Look ==
    /\ at = "reconcile" /\ cur = Own /\ Own \in exists
    /\ seen' = TRUE
    /\ at' = "work"
    /\ UNCHANGED <<exists, informer, notes, wq, cur, faults>>

\* The resource is gone: Get returns NotFound, which is an error as any other.
NotFound ==
    /\ at = "reconcile" /\ cur = Own /\ Own \notin exists
    /\ at' = "failed"
    /\ UNCHANGED <<exists, seen, informer, notes, wq, cur, faults>>

Fail ==
    /\ at \in {"reconcile", "work"} /\ cur = Own /\ faults < MaxFaults
    /\ seen' = FALSE /\ at' = "failed" /\ faults' = faults + 1
    /\ UNCHANGED <<exists, informer, notes, wq, cur>>

\* Slips, used to test the properties: the error is only logged; a reconcile
\* that went well is repeated as well.
Retry_OnlyLogged ==
    /\ at = "failed"
    /\ at' = "done"
    /\ UNCHANGED <<exists, seen, informer, notes, wq, cur, faults>>
Succeed_Repeat ==
    /\ at = "work"
    /\ waiting' = waiting \cup {cur}
    /\ at' = "done"
    /\ UNCHANGED <<exists, seen, informer, notes, queue, dirty, processing, cur, faults>>

\* AddRateLimited.
Retry ==
    /\ at = "failed"
    /\ waiting' = waiting \cup {cur}
    /\ at' = "done"
    /\ UNCHANGED <<exists, seen, informer, notes, queue, dirty, processing, cur, faults>>

\* Forget, which is about the length of the delays only.
Succeed ==
    /\ at = "work"
    /\ at' = "done"
    /\ UNCHANGED <<exists, seen, informer, notes, wq, cur, faults>>

\* Slip, used to test the properties: Done is not called.
Done_NotCalled ==
    /\ at = "done"
    /\ at' = "get"
    /\ UNCHANGED <<exists, seen, informer, notes, wq, cur, faults>>

\* The deferred Done: a key that was added meanwhile is queued again.
Done ==
    /\ at = "done"
    /\ processing' = processing \ {cur}
    /\ queue' = IF cur \in dirty THEN Append(queue, cur) ELSE queue
    /\ at' = "get"
    /\ UNCHANGED <<exists, seen, informer, notes, dirty, waiting, cur, faults>>

Restart ==
    /\ faults < MaxFaults
    /\ seen' = FALSE
    /\ store' = {} /\ behind' = {} /\ initial' = {} /\ notes' = <<>>
    /\ queue' = <<>> /\ dirty' = {} /\ processing' = {} /\ waiting' = {}
    /\ at' = "start" /\ faults' = faults + 1
    /\ UNCHANGED <<exists, cur>>

-----------------------------------------------------------------------------
(* The operator and users.                                                  *)

\* A resource is written, whether it was there or not, or deleted.
Change(k) ==
    /\ \/ exists' = exists \cup {k}
       \/ k \in exists /\ exists' = exists \ {k}
    /\ behind' = IF at = "start" THEN behind ELSE behind \cup {k}
    /\ seen' = (seen /\ k # Own)
    /\ UNCHANGED <<store, initial, notes, wq, worker, faults>>

WorkerStep ==
    \/ Run \/ Take \/ NotOwn \/ Look \/ NotFound \/ Retry \/ Succeed \/ Done

Next ==
    \/ List \/ Handle \/ WorkerStep \/ Fail \/ Restart
    \/ \E k \in Keys : Observe(k) \/ Resync(k) \/ RetryFires(k) \/ Change(k)

Spec == Init /\ [][Next]_vars

\* The informer's goroutines, the queue's timers and the worker run. Changes,
\* resyncs and faults may come or not. Which resource the informer processes next
\* is settled by the order of events: none is passed over for ever.
Fairness ==
    /\ WF_vars(List) /\ WF_vars(Handle) /\ WF_vars(WorkerStep)
    /\ \A k \in Keys : SF_vars(Observe(k)) /\ WF_vars(RetryFires(k))

FairSpec == Spec /\ Fairness

-----------------------------------------------------------------------------
(* Properties.                                                              *)

Elements(s) == { s[i] : i \in DOMAIN s }
Distinct(s) == \A i, j \in DOMAIN s : s[i] = s[j] => i = j

\* Every variable has its type, and no key is twice in the queue.
TypeOK ==
    /\ exists \subseteq Keys /\ seen \in BOOLEAN
    /\ store \subseteq Keys /\ behind \subseteq Keys /\ initial \subseteq behind
    /\ notes \in Seq(Keys \cup {Tombstone}) /\ Len(notes) <= MaxNotes
    /\ queue \in Seq(Keys) /\ Distinct(queue)
    /\ dirty \subseteq Keys /\ processing \subseteq Keys /\ waiting \subseteq Keys
    /\ at \in {"start", "sync", "get", "reconcile", "work", "failed", "done"}
    /\ cur \in Keys /\ faults \in 0..MaxFaults

\* The worker will come to k.
Coming(k) ==
    \/ at = "start" \/ k \in behind \cup waiting \cup Elements(notes) \cup Elements(queue)
    \/ /\ cur = k
       /\ at \in {"reconcile", "failed"} \/ (at \in {"work", "done"} /\ k \in dirty)

\* A change of the agent's resource that no reconcile has seen, or one that was
\* seen by a reconcile that failed, will be looked at: no order of event, hand-out,
\* Add, Get, Done and the timer of a retry loses it.
NoLostChange == Own \in exists /\ ~seen => Coming(Own)

\* What the queue keeps: a key that has to be processed is queued, or Done queues it.
Queued ==
    /\ processing = IF at \in {"reconcile", "work", "failed", "done"} THEN {cur} ELSE {}
    /\ Elements(queue) = dirty \ processing
IInv == TypeOK /\ Queued /\ NoLostChange

Promise == INSTANCE Wakeups WITH exists <- Own \in exists, pending <- Coming(Own)

\* The controller implements Wakeups, whose liveness is that every change is looked
\* at: however many events of other agents' resources are in the queue, after a
\* missed deletion whose tombstone is dropped, and without the help of a resync.
ImplementsWakeups == Promise!Spec

\* Once nothing changes, the resource is there and no resync comes, the controller
\* comes to rest: a retry ends with the first reconcile that goes well.
Disturbance == \E k \in Keys : Change(k) \/ Resync(k)
Settles ==
    (<>[](Own \in exists) /\ <>[][~Disturbance]_vars) =>
        <>[](at = "get" /\ queue = <<>> /\ waiting = {})
=============================================================================
