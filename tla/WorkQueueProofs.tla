--------------------------- MODULE WorkQueueProofs ---------------------------
(***************************************************************************)
(* Theorems about WorkQueue, for any number of resources, notifications    *)
(* and faults: its invariant, and that its steps are steps of Wakeups.     *)
(***************************************************************************)
EXTENDS WorkQueue, SequenceTheorems, TLAPS

-----------------------------------------------------------------------------
(* Sequences.                                                               *)

\* What Append does to the elements of a queue.
LEMMA AppendElements ==
    ASSUME NEW S, NEW s \in Seq(S), NEW x \in S
    PROVE  /\ Append(s, x) \in Seq(S) /\ Len(Append(s, x)) = Len(s) + 1
           /\ Elements(Append(s, x)) = Elements(s) \cup {x}
           /\ Distinct(s) /\ x \notin Elements(s) => Distinct(Append(s, x))
<1> DEFINE t == Append(s, x)
<1>1. /\ t \in Seq(S) /\ Len(t) = Len(s) + 1 /\ Len(s) \in Nat
      /\ DOMAIN s = 1..Len(s) /\ DOMAIN t = 1..(Len(s) + 1)
      /\ \A i \in 1..Len(s) : t[i] = s[i]
      /\ t[Len(s) + 1] = x
  BY AppendProperties, LenProperties
<1>2. Elements(t) = Elements(s) \cup {x}
  <2> HIDE DEF t
  <2>1. \A i \in DOMAIN t : t[i] \in Elements(s) \cup {x}
    BY <1>1 DEF Elements
  <2>2. \A i \in DOMAIN s : s[i] \in Elements(t)
    BY <1>1 DEF Elements
  <2>3. x \in Elements(t)
    BY <1>1 DEF Elements
  <2>4. QED  BY <2>1, <2>2, <2>3 DEF Elements
<1>3. ASSUME Distinct(s), x \notin Elements(s) PROVE Distinct(t)
  <2> HIDE DEF t
  <2> QED  BY <1>1, <1>3 DEF Distinct, Elements
<1>4. QED  BY <1>1, <1>2, <1>3

\* What is left of a queue when its head is taken.
LEMMA TailElements ==
    ASSUME NEW S, NEW s \in Seq(S), s # <<>>
    PROVE  /\ Head(s) \in S /\ Tail(s) \in Seq(S) /\ Len(Tail(s)) = Len(s) - 1
           /\ Elements(s) = Elements(Tail(s)) \cup {Head(s)}
           /\ Distinct(s) => Distinct(Tail(s)) /\ Head(s) \notin Elements(Tail(s))
<1> DEFINE t == Tail(s)
<1>1. /\ t \in Seq(S) /\ Len(s) \in Nat \ {0} /\ Len(t) = Len(s) - 1
      /\ DOMAIN s = 1..Len(s) /\ DOMAIN t = 1..(Len(s) - 1)
      /\ \A i \in 1..(Len(s) - 1) : t[i] = s[i + 1]
      /\ Head(s) = s[1] /\ s[1] \in S
  BY HeadTailProperties, LenProperties, EmptySeq, ElementOfSeq
<1>2. Elements(s) = Elements(t) \cup {Head(s)}
  <2> HIDE DEF t
  <2>1. \A i \in DOMAIN s : i = 1 \/ (i - 1 \in DOMAIN t /\ t[i - 1] = s[i])
    BY <1>1
  <2>2. \A i \in DOMAIN s : s[i] \in Elements(t) \cup {Head(s)}
    BY <1>1, <2>1 DEF Elements
  <2>3. \A i \in DOMAIN t : t[i] \in Elements(s)
    BY <1>1 DEF Elements
  <2>4. Head(s) \in Elements(s)
    BY <1>1 DEF Elements
  <2>5. QED  BY <2>2, <2>3, <2>4 DEF Elements
<1>3. ASSUME Distinct(s) PROVE Distinct(t) /\ Head(s) \notin Elements(t)
  <2> HIDE DEF t
  <2>1. \A i \in DOMAIN t : i \in Nat /\ i + 1 \in DOMAIN s /\ t[i] = s[i + 1] /\ i + 1 # 1
    BY <1>1
  <2>2. \A i, j \in DOMAIN t : t[i] = t[j] => i + 1 = j + 1
    BY <1>3, <2>1 DEF Distinct
  <2>3. \A i \in DOMAIN t : t[i] # s[1]
    BY <1>1, <1>3, <2>1 DEF Distinct
  <2>4. QED  BY <1>1, <2>1, <2>2, <2>3 DEF Distinct, Elements
<1>4. QED  BY <1>1, <1>2, <1>3

-----------------------------------------------------------------------------
(* The queue.                                                               *)

QueueType ==
    /\ queue \in Seq(Keys) /\ Distinct(queue)
    /\ dirty \subseteq Keys /\ processing \subseteq Keys
    /\ Elements(queue) = dirty \ processing

\* Add puts a key where Get or Done will find it, and takes none away.
LEMMA AddQueues ==
    ASSUME QueueType, NEW k \in Keys, Add(k), UNCHANGED processing
    PROVE  /\ QueueType'
           /\ Elements(queue)' \cup (dirty \cap processing)'
                = Elements(queue) \cup (dirty \cap processing) \cup {k}
<1>1. CASE k \in dirty \cup processing
  BY <1>1 DEF QueueType, Add
<1>2. CASE k \notin dirty \cup processing
  <2>1. queue' = Append(queue, k) /\ k \notin Elements(queue)
    BY <1>2 DEF QueueType, Add
  <2>2. /\ queue' \in Seq(Keys) /\ Distinct(queue')
        /\ Elements(queue') = Elements(queue) \cup {k}
    BY <2>1, AppendElements DEF QueueType
  <2>3. Elements(queue)' = Elements(queue') /\ Distinct(queue)' = Distinct(queue')
    BY DEF Elements, Distinct
  <2>4. QED  BY <1>2, <2>2, <2>3 DEF QueueType, Add
<1>3. QED  BY <1>1, <1>2
-----------------------------------------------------------------------------
(* The inductive invariant, but for what the queue is about.                *)

Notes == notes \in Seq(Keys \cup {Tombstone}) /\ Len(notes) <= MaxNotes
Rest ==
    /\ exists \subseteq Keys /\ seen \in BOOLEAN
    /\ store \subseteq Keys /\ behind \subseteq Keys /\ initial \subseteq behind
    /\ waiting \subseteq Keys
    /\ at \in {"start", "sync", "get", "reconcile", "work", "failed", "done"}
    /\ cur \in Keys /\ faults \in 0..MaxFaults
    /\ processing = IF at \in {"reconcile", "work", "failed", "done"} THEN {cur} ELSE {}

LEMMA Parts == IInv <=> QueueType /\ Notes /\ Rest /\ NoLostChange
BY Zenon DEF IInv, TypeOK, Queued, QueueType, Notes, Rest

\* Nothing of the queue changes.
LEMMA QueueSame == ASSUME QueueType, UNCHANGED <<queue, dirty, processing>> PROVE QueueType'
BY DEF QueueType, Elements, Distinct

\* A notification is handed out; what is in notes stays there.
LEMMA NotesGrow ==
    ASSUME Notes, Len(notes) < MaxNotes, NEW n \in Keys \cup {Tombstone}, notes' = Append(notes, n)
    PROVE  Notes' /\ Elements(notes)' = Elements(notes) \cup {n}
<1>1. /\ Append(notes, n) \in Seq(Keys \cup {Tombstone}) /\ Len(Append(notes, n)) = Len(notes) + 1
      /\ Elements(Append(notes, n)) = Elements(notes) \cup {n}
  BY AppendElements DEF Notes
<1>2. Len(notes) \in Nat
  BY LenProperties DEF Notes
<1>3. Elements(notes)' = Elements(notes')
  BY DEF Elements
<1>4. QED  BY <1>1, <1>2, <1>3, BoundsAssumption DEF Notes

\* Nothing is handed out or handled.
LEMMA NotesSame == ASSUME Notes, UNCHANGED notes PROVE Notes' /\ Elements(notes)' = Elements(notes)
BY DEF Notes, Elements

-----------------------------------------------------------------------------
(* Each step keeps the invariant.                                           *)

LEMMA TypeInit == Init => IInv
<1> SUFFICES ASSUME Init PROVE IInv
  OBVIOUS
<1>1. <<>> \in Seq(Keys) /\ <<>> \in Seq(Keys \cup {Tombstone}) /\ Len(<<>>) = 0 /\ DOMAIN <<>> = {}
  BY EmptySeq
<1>2. queue = <<>> /\ notes = <<>>
  BY DEF Init
<1>3. Elements(queue) = {} /\ Distinct(queue)
  BY <1>1, <1>2 DEF Elements, Distinct
<1>4. QueueType
  BY <1>1, <1>2, <1>3 DEF Init, QueueType
<1>5. Notes
  BY <1>1, <1>2, BoundsAssumption DEF Notes
<1>6. Rest
  <2>1. faults \in 0..MaxFaults
    BY BoundsAssumption DEF Init
  <2>2. QED  BY <2>1, KeysAssumption DEF Init, Rest
<1>7. NoLostChange
  BY DEF Init, NoLostChange, Coming
<1>8. QED  BY <1>4, <1>5, <1>6, <1>7, Parts

Kept == QueueType' /\ Notes' /\ Rest' /\ NoLostChange'

LEMMA ListKeeps == ASSUME IInv, List PROVE Kept
<1>1. QueueType'
  BY Parts, QueueSame DEF List, wq
<1>2. Notes'
  BY Parts, NotesSame DEF List
<1>3. Rest'
  BY Parts DEF List, Rest, wq
<1>4. NoLostChange'
  BY DEF List, NoLostChange, Coming
<1>5. QED  BY <1>1, <1>2, <1>3, <1>4 DEF Kept

LEMMA ObserveKeeps == ASSUME IInv, NEW k \in Keys, Observe(k) PROVE Kept
<1>1. QueueType' /\ Elements(queue)' = Elements(queue)
  BY Parts, QueueSame DEF Observe, wq, Elements
<1>2. PICK n \in NotesOf(k) : notes' = Append(notes, n)
  BY DEF Observe
<1>3. n \in Keys \cup {Tombstone} /\ (k \in exists => n = k)
  BY <1>2 DEF NotesOf
<1>4. Notes' /\ Elements(notes)' = Elements(notes) \cup {n}
  BY Parts, <1>2, <1>3, NotesGrow DEF Observe
<1>5. Rest'
  BY Parts DEF Observe, Rest, wq, worker
<1>6. NoLostChange'
  BY <1>1, <1>3, <1>4 DEF IInv, Observe, NoLostChange, Coming, wq, worker
<1>7. QED  BY <1>1, <1>4, <1>5, <1>6 DEF Kept

LEMMA ResyncKeeps == ASSUME IInv, NEW k \in Keys, Resync(k) PROVE Kept
<1>1. QueueType' /\ Elements(queue)' = Elements(queue)
  BY Parts, QueueSame DEF Resync, wq, Elements
<1>2. Notes' /\ Elements(notes)' = Elements(notes) \cup {k}
  BY Parts, NotesGrow DEF Resync
<1>3. Rest'
  BY Parts DEF Resync, Rest, wq, worker, informer
<1>4. NoLostChange'
  BY <1>1, <1>2 DEF IInv, Resync, NoLostChange, Coming, wq, worker, informer
<1>5. QED  BY <1>1, <1>2, <1>3, <1>4 DEF Kept

\* A key that was in the queue or marked is, and so is the one that was added.
LEMMA AddedComes ==
    ASSUME IInv, NEW k \in Keys, Add(k), UNCHANGED <<processing, worker>>,
           Coming(Own) \/ k = Own,
           (behind \cup waiting \cup Elements(notes)) \ {k} \subseteq (behind \cup waiting \cup Elements(notes))'
    PROVE  Coming(Own)'
<1>1. /\ Elements(queue)' \cup (dirty \cap processing)'
            = Elements(queue) \cup (dirty \cap processing) \cup {k}
      /\ dirty' = dirty \cup {k}
  BY Parts, AddQueues DEF Add
<1>2. Rest /\ QueueType
  BY Parts
<1>3. UNCHANGED <<at, cur, processing>>
  BY DEF worker
<1>4. processing = IF at \in {"reconcile", "work", "failed", "done"} THEN {cur} ELSE {}
  BY <1>2 DEF Rest
<1>5. CASE Own \in Elements(queue)'
  BY <1>5 DEF Coming
<1>6. CASE Own \in (dirty \cap processing)'
  BY <1>3, <1>4, <1>6 DEF Coming
<1>7. CASE Own \notin Elements(queue)' \cup (dirty \cap processing)'
  <2>1. Own \notin Elements(queue) \cup (dirty \cap processing) /\ Own # k
    BY <1>1, <1>7
  <2>2. QED  BY <1>3, <1>4, <2>1 DEF Coming
<1>8. QED  BY <1>5, <1>6, <1>7

LEMMA HandleKeeps == ASSUME IInv, Handle PROVE Kept
<1> DEFINE n == Head(notes)
<1>1. /\ n \in Keys \cup {Tombstone}
      /\ notes' = Tail(notes) /\ Tail(notes) \in Seq(Keys \cup {Tombstone})
      /\ Len(Tail(notes)) = Len(notes) - 1 /\ Len(notes) \in Nat
      /\ Elements(notes) = Elements(Tail(notes)) \cup {n}
  BY Parts, TailElements, LenProperties DEF Handle, Notes
<1>2. Elements(notes)' = Elements(Tail(notes))
  BY <1>1 DEF Elements
<1>3. Notes'
  BY <1>1, Parts, BoundsAssumption DEF Notes
<1>4. Rest'
  BY Parts DEF Handle, Rest, worker, informer
<1>5. CASE n = Tombstone
  <2>1. QueueType' /\ Elements(queue)' = Elements(queue) /\ dirty' = dirty
    BY <1>5, Parts, QueueSame DEF Handle, Elements
  <2>2. NoLostChange'
    BY <1>1, <1>2, <1>5, <2>1, KeysAssumption DEF IInv, Handle, NoLostChange, Coming, worker, informer
  <2>3. QED  BY <1>3, <1>4, <2>1, <2>2 DEF Kept
<1>6. CASE n # Tombstone
  <2>1. n \in Keys /\ Add(n)
    BY <1>1, <1>6 DEF Handle
  <2>2. QueueType'
    BY <2>1, Parts, AddQueues DEF Handle
  <2>3. Coming(Own) => Coming(Own)'
    BY <1>1, <1>2, <2>1, AddedComes DEF Handle, informer
  <2>4. NoLostChange'
    BY <2>3 DEF IInv, NoLostChange, Handle
  <2>5. QED  BY <1>3, <1>4, <2>2, <2>4 DEF Kept
<1>7. QED  BY <1>5, <1>6

LEMMA RetryFiresKeeps == ASSUME IInv, NEW k \in Keys, RetryFires(k) PROVE Kept
<1>1. QueueType'
  BY Parts, AddQueues DEF RetryFires
<1>2. Notes' /\ Elements(notes)' = Elements(notes)
  BY Parts, NotesSame DEF RetryFires
<1>3. Rest'
  BY Parts DEF RetryFires, Rest, worker, informer
<1>4. Coming(Own) => Coming(Own)'
  BY <1>2, AddedComes DEF RetryFires, informer
<1>5. NoLostChange'
  BY <1>4 DEF IInv, NoLostChange, RetryFires
<1>6. QED  BY <1>1, <1>2, <1>3, <1>5 DEF Kept

LEMMA TakeKeeps == ASSUME IInv, Take PROVE Kept
<1>1. /\ cur' = Head(queue) /\ Head(queue) \in Keys
      /\ Tail(queue) \in Seq(Keys) /\ Distinct(Tail(queue))
      /\ Elements(queue) = Elements(Tail(queue)) \cup {cur'}
      /\ cur' \notin Elements(Tail(queue))
  BY Parts, TailElements DEF Take, QueueType
<1>2. /\ queue' \in Seq(Keys) /\ Distinct(queue)'
      /\ Elements(queue)' = Elements(queue) \ {cur'}
  BY <1>1 DEF Take, Distinct, Elements
<1>3. processing = {} /\ Elements(queue) = dirty
  BY Parts DEF Take, Rest, QueueType
<1>4. QueueType'
  BY <1>1, <1>2, <1>3, Parts DEF Take, QueueType
<1>5. Notes' /\ Elements(notes)' = Elements(notes)
  BY Parts, NotesSame DEF Take
<1>6. Rest'
  BY <1>1, <1>3, Parts DEF Take, Rest, informer
<1>7. NoLostChange'
  BY <1>1, <1>2, <1>5 DEF IInv, Take, NoLostChange, Coming, informer
<1>8. QED  BY <1>4, <1>5, <1>6, <1>7 DEF Kept

LEMMA DoneKeeps == ASSUME IInv, Done PROVE Kept
<1>1. /\ processing = {cur} /\ cur \in Keys /\ QueueType
  BY Parts DEF Done, Rest
<1>2. /\ queue' \in Seq(Keys) /\ Distinct(queue)'
      /\ Elements(queue)' = dirty
  <2>1. CASE cur \in dirty
    <3>1. queue' = Append(queue, cur) /\ cur \notin Elements(queue)
      BY <1>1, <2>1 DEF Done, QueueType
    <3>2. /\ queue' \in Seq(Keys) /\ Distinct(queue')
          /\ Elements(queue') = Elements(queue) \cup {cur}
      BY <1>1, <3>1, AppendElements DEF QueueType
    <3>3. QED  BY <1>1, <2>1, <3>2 DEF QueueType, Elements, Distinct
  <2>2. CASE cur \notin dirty
    <3>1. queue' = queue
      BY <2>2 DEF Done
    <3>2. QED  BY <1>1, <2>2, <3>1 DEF QueueType, Elements, Distinct
  <2>3. QED  BY <2>1, <2>2
<1>3. QueueType'
  BY <1>1, <1>2 DEF Done, QueueType
<1>4. Notes' /\ Elements(notes)' = Elements(notes)
  BY Parts, NotesSame DEF Done
<1>5. Rest'
  BY <1>1, Parts DEF Done, Rest, informer
<1>6. NoLostChange'
  <2>1. Elements(queue) \subseteq dirty
    BY <1>1 DEF QueueType
  <2>2. QED  BY <1>2, <1>4, <2>1 DEF IInv, Done, NoLostChange, Coming, informer
<1>7. QED  BY <1>3, <1>4, <1>5, <1>6 DEF Kept

LEMMA RunKeeps == ASSUME IInv, Run PROVE Kept
<1>1. QueueType' /\ Elements(queue)' = Elements(queue)
  BY Parts, QueueSame DEF Run, wq, Elements
<1>2. Notes' /\ Elements(notes)' = Elements(notes)
  BY Parts, NotesSame DEF Run
<1>3. Rest'
  BY Parts DEF Run, Rest, wq, informer
<1>4. NoLostChange'
  BY <1>1, <1>2 DEF IInv, Run, NoLostChange, Coming, wq, informer
<1>5. QED  BY <1>1, <1>2, <1>3, <1>4 DEF Kept

LEMMA NotOwnKeeps == ASSUME IInv, NotOwn PROVE Kept
<1>1. QueueType' /\ Elements(queue)' = Elements(queue)
  BY Parts, QueueSame DEF NotOwn, wq, Elements
<1>2. Notes' /\ Elements(notes)' = Elements(notes)
  BY Parts, NotesSame DEF NotOwn
<1>3. Rest'
  BY Parts DEF NotOwn, Rest, wq, informer
<1>4. NoLostChange'
  BY <1>1, <1>2 DEF IInv, NotOwn, NoLostChange, Coming, wq, informer
<1>5. QED  BY <1>1, <1>2, <1>3, <1>4 DEF Kept

LEMMA LookKeeps == ASSUME IInv, Look PROVE Kept
<1>1. QueueType' /\ Elements(queue)' = Elements(queue)
  BY Parts, QueueSame DEF Look, wq, Elements
<1>2. Notes' /\ Elements(notes)' = Elements(notes)
  BY Parts, NotesSame DEF Look
<1>3. Rest'
  BY Parts DEF Look, Rest, wq, informer
<1>4. NoLostChange'
  BY <1>1, <1>2 DEF IInv, Look, NoLostChange, Coming, wq, informer
<1>5. QED  BY <1>1, <1>2, <1>3, <1>4 DEF Kept

LEMMA NotFoundKeeps == ASSUME IInv, NotFound PROVE Kept
<1>1. QueueType' /\ Elements(queue)' = Elements(queue)
  BY Parts, QueueSame DEF NotFound, wq, Elements
<1>2. Notes' /\ Elements(notes)' = Elements(notes)
  BY Parts, NotesSame DEF NotFound
<1>3. Rest'
  BY Parts DEF NotFound, Rest, wq, informer
<1>4. NoLostChange'
  BY <1>1, <1>2 DEF IInv, NotFound, NoLostChange, Coming, wq, informer
<1>5. QED  BY <1>1, <1>2, <1>3, <1>4 DEF Kept

LEMMA FailKeeps == ASSUME IInv, Fail PROVE Kept
<1>1. QueueType' /\ Elements(queue)' = Elements(queue)
  BY Parts, QueueSame DEF Fail, wq, Elements
<1>2. Notes' /\ Elements(notes)' = Elements(notes)
  BY Parts, NotesSame DEF Fail
<1>3. Rest'
  <2>1. faults' \in 0..MaxFaults
    BY Parts, BoundsAssumption DEF Fail, Rest
  <2>2. QED  BY <2>1, Parts DEF Fail, Rest, wq, informer
<1>4. NoLostChange'
  BY <1>1, <1>2 DEF IInv, Fail, NoLostChange, Coming, wq, informer
<1>5. QED  BY <1>1, <1>2, <1>3, <1>4 DEF Kept

LEMMA RetryKeeps == ASSUME IInv, Retry PROVE Kept
<1>1. QueueType' /\ Elements(queue)' = Elements(queue)
  BY Parts, QueueSame DEF Retry, wq, Elements
<1>2. Notes' /\ Elements(notes)' = Elements(notes)
  BY Parts, NotesSame DEF Retry
<1>3. Rest'
  BY Parts DEF Retry, Rest, wq, informer
<1>4. NoLostChange'
  BY <1>1, <1>2 DEF IInv, Retry, NoLostChange, Coming, wq, informer
<1>5. QED  BY <1>1, <1>2, <1>3, <1>4 DEF Kept

LEMMA SucceedKeeps == ASSUME IInv, Succeed PROVE Kept
<1>1. QueueType' /\ Elements(queue)' = Elements(queue)
  BY Parts, QueueSame DEF Succeed, wq, Elements
<1>2. Notes' /\ Elements(notes)' = Elements(notes)
  BY Parts, NotesSame DEF Succeed
<1>3. Rest'
  BY Parts DEF Succeed, Rest, wq, informer
<1>4. NoLostChange'
  BY <1>1, <1>2 DEF IInv, Succeed, NoLostChange, Coming, wq, informer
<1>5. QED  BY <1>1, <1>2, <1>3, <1>4 DEF Kept

LEMMA ChangeKeeps == ASSUME IInv, NEW k \in Keys, Change(k) PROVE Kept
<1>1. QueueType' /\ Elements(queue)' = Elements(queue)
  BY Parts, QueueSame DEF Change, wq, Elements
<1>2. Notes' /\ Elements(notes)' = Elements(notes)
  BY Parts, NotesSame DEF Change
<1>3. Rest'
  BY Parts DEF Change, Rest, wq, worker
<1>4. NoLostChange'
  BY <1>1, <1>2, Parts DEF Rest, Change, NoLostChange, Coming, wq, worker
<1>5. QED  BY <1>1, <1>2, <1>3, <1>4 DEF Kept

LEMMA RestartKeeps == ASSUME IInv, Restart PROVE Kept
<1>1. <<>> \in Seq(Keys) /\ <<>> \in Seq(Keys \cup {Tombstone}) /\ Len(<<>>) = 0 /\ DOMAIN <<>> = {}
  BY EmptySeq
<1>2. queue' = <<>> /\ notes' = <<>> /\ dirty' = {} /\ processing' = {}
  BY DEF Restart
<1>3. QueueType'
  BY <1>1, <1>2 DEF QueueType, Elements, Distinct
<1>4. Notes'
  BY <1>1, <1>2, BoundsAssumption DEF Notes
<1>5. Rest'
  <2>1. faults' \in 0..MaxFaults
    BY Parts, BoundsAssumption DEF Restart, Rest
  <2>2. QED  BY <2>1, Parts DEF Restart, Rest
<1>6. NoLostChange'
  BY DEF Restart, NoLostChange, Coming
<1>7. QED  BY <1>3, <1>4, <1>5, <1>6 DEF Kept

LEMMA StepKeeps == IInv /\ [Next]_vars => IInv'
<1> SUFFICES ASSUME IInv, [Next]_vars PROVE Kept
  BY Zenon DEF Kept, IInv, TypeOK, Queued, QueueType, Notes, Rest
<1>1. CASE WorkerStep
  BY <1>1, RunKeeps, TakeKeeps, NotOwnKeeps, LookKeeps, NotFoundKeeps, RetryKeeps, SucceedKeeps,
     DoneKeeps DEF WorkerStep
<1>2. CASE \E k \in Keys : Observe(k) \/ Resync(k) \/ RetryFires(k) \/ Change(k)
  BY <1>2, ObserveKeeps, ResyncKeeps, RetryFiresKeeps, ChangeKeeps
<1>3. CASE UNCHANGED vars
  <2>1. QueueType' /\ Elements(queue)' = Elements(queue)
    BY <1>3, Parts, QueueSame DEF vars, wq, Elements
  <2>2. Notes' /\ Elements(notes)' = Elements(notes)
    BY <1>3, Parts, NotesSame DEF vars
  <2>3. Rest'
    BY <1>3, Parts DEF vars, Rest, wq, worker, informer
  <2>4. NoLostChange'
    BY <1>3, <2>1, <2>2 DEF IInv, NoLostChange, Coming, vars, wq, worker, informer
  <2>5. QED  BY <2>1, <2>2, <2>3, <2>4 DEF Kept
<1>4. QED
  BY <1>1, <1>2, <1>3, ListKeeps, HandleKeeps, FailKeeps, RestartKeeps DEF Next

-----------------------------------------------------------------------------
(* The theorems.                                                            *)

\* The inductive invariant: a key marked dirty is queued or being processed, and a
\* change that was not seen is on the worker's way.
THEOREM Invariance == Spec => []IInv
BY TypeInit, StepKeeps, PTL DEF Spec

\* Every variable has its type; processNext never finds a key twice in the queue.
THEOREM TypeCorrect == Spec => []TypeOK
<1>1. IInv => TypeOK
  BY DEF IInv
<1>2. QED  BY <1>1, Invariance, PTL

\* No change of the agent's resource is lost between informer, handlers, queue,
\* worker and retries.
THEOREM ChangesAreNotLost == Spec => []NoLostChange
<1>1. IInv => NoLostChange
  BY DEF IInv
<1>2. QED  BY <1>1, Invariance, PTL

\* Safety of ImplementsWakeups: every step of the controller is a step of Wakeups
\* or leaves its variables alone.
THEOREM Refinement == Spec => Promise!Init /\ [][Promise!Next]_Promise!vars
<1>1. Init => Promise!Init
  BY DEF Init, Coming, Promise!Init
<1>2. IInv /\ IInv' /\ [Next]_vars => [Promise!Next]_Promise!vars
  <2> SUFFICES ASSUME IInv, IInv', [Next]_vars PROVE [Promise!Next]_Promise!vars
    OBVIOUS
  <2> USE DEF Promise!Next, Promise!vars
  <2>1. NoLostChange' /\ Coming(Own) \in BOOLEAN /\ seen \in BOOLEAN
    BY DEF IInv, TypeOK, Coming
  \* A step that neither changes the resource nor looks at it.
  <2>2. ASSUME UNCHANGED <<exists, seen>> PROVE Promise!Wake \/ Promise!Rest
    BY <2>1, <2>2 DEF Promise!Wake, Promise!Rest, NoLostChange, Coming
  <2>3. CASE Look
    <3>1. CASE seen
      BY <2>2, <2>3, <3>1 DEF Look
    <3>2. CASE ~seen
      BY <2>3, <3>2 DEF Look, Promise!Look, Coming
    <3>3. QED  BY <3>1, <3>2
  <2>4. CASE Fail \/ Restart
    BY <2>4 DEF Fail, Restart, Promise!Fail, Coming
  <2>5. ASSUME NEW k \in Keys, Change(k) PROVE Promise!Next
    <3>1. CASE k = Own
      <4>1. seen' = FALSE /\ Coming(Own)'
        BY <2>5, <3>1 DEF Change, Coming, worker
      <4>2. QED  BY <4>1 DEF Promise!Change, Coming
    <3>2. CASE k # Own
      <4>1. (Own \in exists)' = (Own \in exists) /\ seen' = seen
        BY <2>1, <2>5, <3>2 DEF Change
      <4>2. QED  BY <2>1, <4>1 DEF Promise!Wake, Promise!Rest, NoLostChange, Coming
    <3>3. QED  BY <3>1, <3>2
  <2>6. CASE UNCHANGED vars
    BY <2>2, <2>6 DEF vars
  <2>7. ASSUME NEW k \in Keys, Observe(k) \/ Resync(k) \/ RetryFires(k) PROVE Promise!Next
    BY <2>2, <2>7 DEF Observe, Resync, RetryFires
  <2>8. CASE List \/ Handle \/ Run \/ Take \/ NotOwn \/ NotFound \/ Retry \/ Succeed \/ Done
    BY <2>2, <2>8 DEF List, Handle, Run, Take, NotOwn, NotFound, Retry, Succeed, Done
  <2>9. QED  BY <2>3, <2>4, <2>5, <2>6, <2>7, <2>8 DEF Next, WorkerStep
<1>3. QED  BY <1>1, <1>2, Invariance, PTL DEF Spec
=============================================================================
