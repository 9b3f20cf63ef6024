----------------------------- MODULE WakeupProofs -----------------------------
(***************************************************************************)
(* The deque of InferenceQueue: every waiting request is in it once, it is *)
(* woken in turn, and no wake-up is lost.                                  *)
(***************************************************************************)
EXTENDS InferenceQueueProofs

-----------------------------------------------------------------------------
(* The deque as a sequence without duplicates.                             *)

Distinct(q) == \A i, j \in DOMAIN q.waiters : q.waiters[i] = q.waiters[j] => i = j

LEMMA PushedLast ==
    ASSUME NEW R, NEW q \in QueueType(R), NEW r \in R
    PROVE  /\ InDeque(Enqueue(q, r)) = InDeque(q) \cup {r}
           /\ Distinct(q) /\ r \notin InDeque(q) => Distinct(Enqueue(q, r))
<1> DEFINE w == q.waiters
           v == Append(w, r)
<1>1. w \in Seq(R) /\ Enqueue(q, r).waiters = v
  BY DEF QueueType, Enqueue
<1>2. /\ Len(w) \in Nat /\ Len(v) = Len(w) + 1 /\ v[Len(w) + 1] = r
      /\ DOMAIN w = 1..Len(w) /\ DOMAIN v = 1..(Len(w) + 1)
      /\ \A i \in 1..Len(w) : v[i] = w[i]
  BY <1>1
<1> HIDE DEF v
<1>3. InDeque(q) = {w[i] : i \in 1..Len(w)}
  BY <1>2 DEF InDeque
<1>4. InDeque(Enqueue(q, r)) = {v[i] : i \in 1..(Len(w) + 1)}
  BY <1>1, <1>2 DEF InDeque
<1>5. InDeque(Enqueue(q, r)) = InDeque(q) \cup {r}
  <2> HIDE DEF w
  <2> QED
    BY <1>2, <1>3, <1>4
<1>6. ASSUME Distinct(q), r \notin InDeque(q) PROVE Distinct(Enqueue(q, r))
  BY <1>1, <1>2, <1>3, <1>6, SMTT(30) DEF Distinct
<1> QED
  BY <1>5, <1>6

LEMMA PoppedFirst ==
    ASSUME NEW R, NEW q \in QueueType(R), Distinct(q)
    PROVE  /\ Distinct(Release(q))
           /\ q.waiters = <<>> => InDeque(q) = {} /\ InDeque(Release(q)) = {}
           /\ q.waiters # <<>> =>
                 /\ Head(q.waiters) = q.waiters[1] /\ 1 \in DOMAIN q.waiters
                 /\ Head(q.waiters) \in InDeque(q)
                 /\ InDeque(Release(q)) = InDeque(q) \ {Head(q.waiters)}
<1> DEFINE w == q.waiters
           t == Tail(w)
<1>1. w \in Seq(R) /\ DOMAIN w = 1..Len(w) /\ Len(w) \in Nat
  BY DEF QueueType
<1>2. CASE w = <<>>
  <2>1. Release(q).waiters = <<>> /\ DOMAIN w = {} /\ DOMAIN Release(q).waiters = {}
    BY <1>1, <1>2 DEF Release
  <2> QED
    BY <1>2, <2>1 DEF InDeque, Distinct
<1>3. CASE w # <<>>
  <2>1. /\ t \in Seq(R) /\ Len(t) = Len(w) - 1 /\ Len(w) >= 1
        /\ \A i \in 1..Len(t) : t[i] = w[i + 1]
    BY <1>1, <1>3, HeadTailProperties, EmptySeq
  <2>2. Head(w) = w[1] /\ 1 \in DOMAIN w /\ DOMAIN t = 1..Len(t)
    BY <1>1, <1>3, <2>1
  <2>3. Release(q).waiters = t
    BY <1>3 DEF Release
  <2>4. Head(w) \in InDeque(q)
    BY <2>2 DEF InDeque
  <2> HIDE DEF t
  <2>5. Distinct(Release(q))
    <3> SUFFICES ASSUME NEW i \in 1..Len(t), NEW j \in 1..Len(t), t[i] = t[j]
                 PROVE  i = j
      BY <2>2, <2>3 DEF Distinct
    <3>1. i + 1 \in DOMAIN w /\ j + 1 \in DOMAIN w /\ w[i + 1] = w[j + 1]
      BY <1>1, <2>1
    <3>2. i + 1 = j + 1
      BY <3>1 DEF Distinct
    <3> QED
      BY <3>2
  <2>6. InDeque(Release(q)) = InDeque(q) \ {Head(w)}
    <3>1. ASSUME NEW r \in InDeque(Release(q)) PROVE r \in InDeque(q) /\ r # Head(w)
      <4>1. PICK i \in 1..Len(t) : r = t[i]
        BY <2>2, <2>3, <3>1 DEF InDeque
      <4>2. r = w[i + 1] /\ i + 1 \in DOMAIN w /\ i + 1 # 1
        BY <1>1, <2>1, <4>1
      <4> QED
        BY <2>2, <4>2 DEF InDeque, Distinct
    <3>2. ASSUME NEW r \in InDeque(q), r # Head(w) PROVE r \in InDeque(Release(q))
      <4>1. PICK i \in 1..Len(w) : r = w[i]
        BY <1>1, <3>2 DEF InDeque
      <4>2. i # 1 /\ i - 1 \in 1..Len(t)
        BY <1>1, <2>1, <2>2, <3>2, <4>1
      <4>3. t[i - 1] = r
        BY <2>1, <4>1, <4>2
      <4> QED
        BY <2>2, <2>3, <4>2, <4>3 DEF InDeque
    <3> QED
      BY <3>1, <3>2
  <2> QED
    BY <1>3, <2>2, <2>4, <2>5, <2>6
<1> QED
  BY <1>2, <1>3

-----------------------------------------------------------------------------
(* The inductive invariant of the deque.                                   *)

NewNotQueued == \A r \in Requests : phase[r] = "new" => r \notin InDeque(queue)
WaitingQueued == \A r \in Requests : phase[r] = "waiting" => r \in InDeque(queue)

DequeInv == TypeOK /\ Distinct(queue) /\ NewNotQueued /\ WaitingQueued

LEMMA InitDeque == Init => DequeInv
<1> SUFFICES ASSUME Init PROVE DequeInv
  OBVIOUS
<1>1. DOMAIN queue.waiters = {}
  BY DEF Init, FreshQueue
<1> QED
  BY <1>1, InitType DEF Init, DequeInv, Distinct, NewNotQueued, WaitingQueued, InDeque

\* What ReleaseAndEnd does to a request other than the one that ends.
LEMMA ReleaseAndEndPhases ==
    ASSUME TypeOK, NEW r \in Requests, ReleaseAndEnd(r)
    PROVE  \A s \in Requests :
              /\ \/ phase'[s] = [phase EXCEPT ![r] = "done"][s]
                 \/ /\ queue.waiters # <<>> /\ s = Head(queue.waiters)
                    /\ [phase EXCEPT ![r] = "done"][s] = "waiting" /\ phase'[s] = "woken"
              /\ queue.waiters # <<>> /\ s = Head(queue.waiters) => phase'[s] # "waiting"
<1> DEFINE ended == [phase EXCEPT ![r] = "done"]
<1>1. ended \in [Requests -> Phases] /\ "woken" \in Phases /\ queue \in QueueType(Requests)
  BY DEF TypeOK, Phases
<1>2. phase' = Wake(queue, ended)
  BY DEF ReleaseAndEnd
<1>3. \A s \in Requests :
         /\ \/ phase'[s] = ended[s]
            \/ /\ queue.waiters # <<>> /\ s = Head(queue.waiters)
               /\ ended[s] = "waiting" /\ phase'[s] = "woken"
         /\ queue.waiters # <<>> /\ s = Head(queue.waiters) => phase'[s] # "waiting"
  <2> HIDE DEF ended
  <2> QED
    BY <1>1, <1>2, WakeEffect
<1> QED
  BY <1>3

LEMMA ReleaseAndEndDeque ==
    ASSUME DequeInv, TypeOK', NEW r \in Requests, ReleaseAndEnd(r)
    PROVE  DequeInv'
<1>1. queue \in QueueType(Requests) /\ phase \in [Requests -> Phases] /\ queue' = Release(queue)
  BY DEF DequeInv, TypeOK, ReleaseAndEnd
<1>2. Distinct(queue)'
  BY <1>1, PoppedFirst DEF DequeInv
<1>3. InDeque(queue') \subseteq InDeque(queue)
  BY <1>1, PoppedFirst DEF DequeInv
<1>4. ASSUME NEW s \in Requests, phase'[s] \in {"new", "waiting"}
      PROVE  /\ s # r /\ phase[s] = phase'[s]
             /\ ~(queue.waiters # <<>> /\ s = Head(queue.waiters) /\ phase'[s] = "waiting")
  BY <1>1, <1>4, ReleaseAndEndPhases DEF DequeInv
<1>5. NewNotQueued'
  BY <1>3, <1>4 DEF NewNotQueued, DequeInv
<1>6. WaitingQueued'
  <2> SUFFICES ASSUME NEW s \in Requests, phase'[s] = "waiting"
               PROVE  s \in InDeque(queue')
    BY DEF WaitingQueued
  <2>1. s \in InDeque(queue)
    BY <1>4 DEF DequeInv, WaitingQueued
  <2>2. queue.waiters # <<>> /\ s # Head(queue.waiters)
    BY <1>1, <1>4, <2>1, PoppedFirst DEF DequeInv
  <2> QED
    BY <1>1, <2>1, <2>2, PoppedFirst DEF DequeInv
<1> QED
  BY <1>2, <1>5, <1>6 DEF DequeInv

LEMMA NextDeque == DequeInv /\ [Next]_vars => DequeInv'
<1> SUFFICES ASSUME DequeInv, [Next]_vars PROVE DequeInv'
  OBVIOUS
<1>1. /\ TypeOK /\ TypeOK'
      /\ queue \in QueueType(Requests) /\ phase \in [Requests -> Phases]
  BY NextType DEF DequeInv, TypeOK
<1>2. ASSUME NEW r \in Requests, ReleaseAndEnd(r) PROVE DequeInv'
  BY <1>1, <1>2, ReleaseAndEndDeque
<1>3. ASSUME queue'.waiters = queue.waiters,
             \A s \in Requests : phase'[s] \in {"new", "waiting"} => phase'[s] = phase[s]
      PROVE  DequeInv'
  BY <1>1, <1>3 DEF DequeInv, Distinct, NewNotQueued, WaitingQueued, InDeque
<1>4. ASSUME NEW r \in Requests, AcquireFree(r) PROVE DequeInv'
  BY <1>1, <1>3, <1>4 DEF AcquireFree, Take
<1>5. ASSUME NEW r \in Requests, AcquireWait(r) PROVE DequeInv'
  <2>1. queue' = Enqueue(queue, r) /\ phase[r] = "new" /\ phase' = [phase EXCEPT ![r] = "waiting"]
    BY <1>5 DEF AcquireWait
  <2>2. r \notin InDeque(queue)
    BY <2>1 DEF DequeInv, NewNotQueued
  <2>3. Distinct(queue)' /\ InDeque(queue') = InDeque(queue) \cup {r}
    BY <1>1, <2>1, <2>2, PushedLast DEF DequeInv
  <2> QED
    BY <1>1, <2>1, <2>3 DEF DequeInv, NewNotQueued, WaitingQueued
<1>6. ASSUME NEW r \in Requests, AcquireFull(r) PROVE DequeInv'
  BY <1>1, <1>3, <1>6 DEF AcquireFull
<1>7. ASSUME NEW r \in Requests, ConversationFails(r) PROVE DequeInv'
  BY <1>1, <1>2, <1>3, <1>7 DEF ConversationFails
<1>8. ASSUME NEW r \in Requests, Resume(r) PROVE DequeInv'
  <2>1. queue'.waiters = queue.waiters
    BY <1>1, <1>8 DEF Resume, Admit, QueueType
  <2> QED
    BY <1>1, <1>3, <1>8, <2>1 DEF Resume
<1>9. ASSUME NEW r \in Requests, Disconnect(r) PROVE DequeInv'
  BY <1>1, <1>3, <1>9 DEF Disconnect
<1>10. ASSUME CancelAllWaiting PROVE DequeInv'
  <2>1. queue'.waiters = <<>>
    BY <1>1, <1>10 DEF CancelAllWaiting, CancelWaiting, QueueType
  <2>2. DOMAIN queue'.waiters = {}
    BY <2>1
  <2>3. \A s \in Requests : phase'[s] # "waiting"
    BY <1>10 DEF CancelAllWaiting
  <2> QED
    BY <1>1, <2>2, <2>3 DEF DequeInv, Distinct, NewNotQueued, WaitingQueued, InDeque
<1>11. ASSUME NEW r \in Requests, Unwind(r) PROVE DequeInv'
  BY <1>1, <1>2, <1>3, <1>11 DEF Unwind
<1>12. ASSUME NEW r \in Requests, Drop(r) PROVE DequeInv'
  BY <1>1, <1>3, <1>12 DEF Drop
<1>13. CASE UNCHANGED vars
  BY <1>3, <1>13 DEF vars
<1> QED
  BY <1>2, <1>4, <1>5, <1>6, <1>7, <1>8, <1>9, <1>10, <1>11, <1>12, <1>13
     DEF Next, LeaveEarly, Finish

LEMMA DequeHolds == Spec => []DequeInv
BY InitDeque, NextDeque, PTL DEF Spec

\* However requests come, leave, fail and are cancelled, a waiting request has
\* exactly one future in the deque (WaitersAreQueued).
THEOREM WaitersQueued == Spec => []WaitersAreQueued
<1>1. DequeInv => WaitersAreQueued
  <2> SUFFICES ASSUME DequeInv, NEW r \in Waiting
               PROVE  Cardinality({i \in DOMAIN queue.waiters : queue.waiters[i] = r}) = 1
    BY DEF WaitersAreQueued
  <2>1. PICK i \in DOMAIN queue.waiters : queue.waiters[i] = r
    BY DEF Waiting, DequeInv, WaitingQueued, InDeque
  <2>2. {j \in DOMAIN queue.waiters : queue.waiters[j] = r} = {i}
    BY <2>1 DEF DequeInv, Distinct
  <2> QED
    BY <2>2, FS_Singleton
<1> QED
  BY <1>1, DequeHolds, PTL

\* Requests are woken in the order in which they began to wait, whatever was
\* cancelled between them (WokenInOrder).
THEOREM WokenInTurn == Spec => WokenInOrder
<1> DEFINE InTurn ==
      \A i, j \in DOMAIN queue.waiters :
          LET first == queue.waiters[i]
              second == queue.waiters[j]
          IN  /\ i < j
              /\ phase[first] = "waiting"
              /\ phase[second] = "waiting"
              /\ phase'[second] = "woken"
              => phase'[first] # "waiting"
<1>1. DequeInv /\ [Next]_vars => [InTurn]_vars
  <2> SUFFICES ASSUME DequeInv, Next,
                      NEW i \in DOMAIN queue.waiters, NEW j \in DOMAIN queue.waiters,
                      i < j, phase[queue.waiters[j]] = "waiting",
                      phase'[queue.waiters[j]] = "woken"
               PROVE  FALSE
    OBVIOUS
  <2> DEFINE s == queue.waiters[j]
  <2>1. /\ queue \in QueueType(Requests) /\ phase \in [Requests -> Phases]
        /\ queue.waiters \in Seq(Requests) /\ s \in Requests /\ i \in Nat /\ i >= 1
    BY DEF DequeInv, TypeOK, QueueType
  <2>2. PICK r \in Requests : ReleaseAndEnd(r)
    BY <2>1 DEF Next, CancelAllWaiting, AcquireFree, AcquireWait, AcquireFull,
                ConversationFails, LeaveEarly, Resume, Disconnect, Unwind, Finish, Drop
  <2>3. queue.waiters # <<>> /\ s = Head(queue.waiters)
    BY <2>1, <2>2, ReleaseAndEndPhases DEF DequeInv
  <2>4. s = queue.waiters[1] /\ 1 \in DOMAIN queue.waiters
    BY <2>1, <2>3, PoppedFirst DEF DequeInv
  <2>5. j = 1
    BY <2>4 DEF DequeInv, Distinct
  <2> QED
    BY <2>1, <2>5
<1> QED
  BY <1>1, DequeHolds, PTL DEF Spec, WokenInOrder

-----------------------------------------------------------------------------
(* No wake-up is lost.  Spare counts the releases owed that no stale       *)
(* future can swallow.                                                     *)

Spare == Cardinality(Owing) - Cardinality(Stale)

\* Releases owed and free slots cover the configured concurrency.
Covered == Spare + queue.value >= MaxConcurrent

WakerInv == DequeInv /\ Covered /\ WaiterHasWaker

LEMMA FiniteSides ==
    ASSUME TypeOK, TypeOK'
    PROVE  /\ IsFiniteSet(Owing) /\ Cardinality(Owing) \in Nat
           /\ IsFiniteSet(Stale) /\ Cardinality(Stale) \in Nat
           /\ IsFiniteSet(Owing') /\ Cardinality(Owing') \in Nat
           /\ IsFiniteSet(Stale') /\ Cardinality(Stale') \in Nat
<1>1. /\ Owing \subseteq Requests /\ Stale \subseteq Requests
      /\ Owing' \subseteq Requests /\ Stale' \subseteq Requests
  BY DEF Owing, Stale, InDeque, TypeOK, QueueType
<1> HIDE DEF Owing, Stale
<1> QED
  BY <1>1, FiniteHolders, FS_Subset, FS_CardinalityType

\* The ways the two sides move in a step.
Covering ==
    /\ queue'.value = queue.value - 1
    /\ Spare' >= Spare + 1
    /\ Waiting' \subseteq Waiting

Queueing ==
    /\ queue.value = 0 /\ queue'.value = 0
    /\ Spare' >= Spare

Passing ==
    /\ queue'.value = queue.value + 1
    /\ \/ Spare' >= Spare /\ Waiting' \subseteq Waiting
       \/ Spare' >= Spare - 1 /\ Waiting' = {}

Moving ==
    /\ queue'.value = queue.value
    /\ Spare' >= Spare
    /\ Waiting' \subseteq Waiting

\* A step that only adds to what is owed and adds nothing stale.
LEMMA OwesMore ==
    ASSUME TypeOK, TypeOK', Owing \subseteq Owing', Stale' \subseteq Stale
    PROVE  Spare' >= Spare
<1>1. /\ IsFiniteSet(Owing') /\ Cardinality(Owing') \in Nat
      /\ IsFiniteSet(Stale') /\ Cardinality(Stale') \in Nat
      /\ IsFiniteSet(Owing) /\ Cardinality(Owing) \in Nat
      /\ IsFiniteSet(Stale) /\ Cardinality(Stale) \in Nat
  BY FiniteSides
<1>2. Cardinality(Owing) <= Cardinality(Owing') /\ Cardinality(Stale') <= Cardinality(Stale)
  BY <1>1, FS_Subset
<1> QED
  BY <1>1, <1>2 DEF Spare

\* A step that adds one to what is owed, and at most the same request to what
\* is stale.
LEMMA OwesOneMore ==
    ASSUME TypeOK, TypeOK', NEW r, r \notin Owing, r \in Owing', Owing \subseteq Owing'
    PROVE  /\ Stale' \subseteq Stale => Spare' >= Spare + 1
           /\ Stale' \subseteq Stale \cup {r} => Spare' >= Spare
<1>1. /\ IsFiniteSet(Owing') /\ Cardinality(Owing') \in Nat
      /\ IsFiniteSet(Stale') /\ Cardinality(Stale') \in Nat
      /\ IsFiniteSet(Owing) /\ Cardinality(Owing) \in Nat
      /\ IsFiniteSet(Stale) /\ Cardinality(Stale) \in Nat
  BY FiniteSides
<1> HIDE DEF Owing, Stale
<1>2. Cardinality(Owing) + 1 <= Cardinality(Owing')
  BY <1>1, OneMore
<1>3. Stale' \subseteq Stale => Cardinality(Stale') <= Cardinality(Stale)
  BY <1>1, FS_Subset
<1>4. Stale' \subseteq Stale \cup {r} => Cardinality(Stale') <= Cardinality(Stale) + 1
  BY <1>1, AtMostOneMore
<1> QED
  BY <1>1, <1>2, <1>3, <1>4 DEF Spare

LEMMA ReleaseAndEndPasses ==
    ASSUME DequeInv, DequeInv', NEW r \in Requests, phase[r] # "waiting",
           ReleaseAndEnd(r)
    PROVE  Passing
<1> DEFINE ended == [phase EXCEPT ![r] = "done"]
           h == Head(queue.waiters)
<1>1. /\ TypeOK /\ TypeOK' /\ Distinct(queue) /\ queue' = Release(queue)
      /\ queue \in QueueType(Requests) /\ phase \in [Requests -> Phases]
      /\ ended \in [Requests -> Phases] /\ ended[r] = "done"
      /\ \A s \in Requests : s # r => ended[s] = phase[s]
      /\ InDeque(queue) \subseteq Requests
  <2>1. TypeOK /\ TypeOK' /\ Distinct(queue)
    BY DEF DequeInv
  <2>2. queue \in QueueType(Requests) /\ phase \in [Requests -> Phases] /\ "done" \in Phases
    BY <2>1 DEF TypeOK, Phases
  <2>3. queue' = Release(queue)
    BY DEF ReleaseAndEnd
  <2>4. InDeque(queue) \subseteq Requests
    BY <2>2 DEF InDeque, QueueType
  <2> HIDE DEF h
  <2> QED
    BY <2>1, <2>2, <2>3, <2>4
<1>2. queue'.value = queue.value + 1
  BY <1>1 DEF Release
<1>3. \A s \in Requests :
         /\ \/ phase'[s] = ended[s]
            \/ queue.waiters # <<>> /\ s = h /\ ended[s] = "waiting" /\ phase'[s] = "woken"
         /\ queue.waiters # <<>> /\ s = h => phase'[s] # "waiting"
  BY <1>1, ReleaseAndEndPhases
<1> HIDE DEF ended
<1>4. Waiting' \subseteq Waiting
  BY <1>1, <1>3 DEF Waiting
<1>5. /\ IsFiniteSet(Owing') /\ Cardinality(Owing') \in Nat
      /\ IsFiniteSet(Stale') /\ Cardinality(Stale') \in Nat
      /\ IsFiniteSet(Owing) /\ Cardinality(Owing) \in Nat
      /\ IsFiniteSet(Stale) /\ Cardinality(Stale) \in Nat
  BY <1>1, FiniteSides
<1>6. CASE queue.waiters = <<>>
  <2>1. InDeque(queue) = {} /\ InDeque(queue') = {}
    BY <1>1, <1>6, PoppedFirst
  <2>2. Waiting' = {} /\ Stale' = {} /\ Stale = {}
    BY <2>1 DEF DequeInv, WaitingQueued, Waiting, Stale
  <2>3. Owing \subseteq Owing' \cup {r}
    BY <1>1, <1>3, <1>6 DEF Owing
  <2>4. Cardinality(Owing) <= Cardinality(Owing') + 1
    BY <1>5, <2>3, AtMostOneMore
  <2> QED
    BY <1>2, <1>5, <2>2, <2>4 DEF Passing, Spare
<1>7. CASE queue.waiters # <<>>
  <2>1. h \in InDeque(queue) /\ h \in Requests /\ InDeque(queue') = InDeque(queue) \ {h}
    BY <1>1, <1>7, PoppedFirst
  <2> HIDE DEF h
  <2>2. CASE ended[h] = "waiting"
    <3>1. h # r /\ phase[h] = "waiting" /\ phase'[h] = "woken"
      BY <1>1, <1>3, <1>7, <2>1, <2>2
    <3>2. Owing \subseteq (Owing' \ {h}) \cup {r} /\ h \in Owing'
      BY <1>1, <1>3, <2>1, <3>1 DEF Owing
    <3>3. Stale' \subseteq Stale
      BY <1>1, <1>3, <2>1, <3>1 DEF Stale
    <3>4. IsFiniteSet(Owing' \ {h}) /\ Cardinality(Owing' \ {h}) + 1 <= Cardinality(Owing')
      BY <1>5, <3>2, OneMore, FS_Subset
    <3>5. /\ Cardinality(Owing) <= Cardinality(Owing' \ {h}) + 1
          /\ Cardinality(Owing' \ {h}) \in Nat
      BY <3>2, <3>4, AtMostOneMore
    <3>6. Cardinality(Stale') <= Cardinality(Stale)
      BY <1>5, <3>3, FS_Subset
    <3> QED
      BY <1>2, <1>4, <1>5, <3>4, <3>5, <3>6 DEF Passing, Spare
  <2>3. CASE ended[h] # "waiting"
    <3>1. h \in Stale
      BY <1>1, <2>1, <2>3 DEF Stale
    <3>2. \A s \in Requests : phase'[s] = ended[s]
      BY <1>3, <2>3
    <3>3. Owing \subseteq Owing' \cup {r}
      BY <1>1, <3>2 DEF Owing
    <3>4. Stale' \subseteq Stale /\ h \notin Stale'
      BY <1>1, <2>1, <3>2 DEF Stale
    <3>5. Cardinality(Owing) <= Cardinality(Owing') + 1
      BY <1>5, <3>3, AtMostOneMore
    <3>6. Cardinality(Stale') + 1 <= Cardinality(Stale)
      BY <1>5, <3>1, <3>4, OneMore
    <3> QED
      BY <1>2, <1>4, <1>5, <3>5, <3>6 DEF Passing, Spare
  <2> QED
    BY <2>2, <2>3
<1> QED
  BY <1>6, <1>7

LEMMA StepCovers ==
    ASSUME DequeInv, DequeInv', [Next]_vars
    PROVE  Covering \/ Queueing \/ Passing \/ Moving
<1>1. /\ TypeOK /\ TypeOK' /\ queue \in QueueType(Requests)
      /\ phase \in [Requests -> Phases] /\ NewNotQueued
  BY DEF DequeInv, TypeOK
<1>2. ASSUME NEW r \in Requests, phase[r] # "waiting", ReleaseAndEnd(r) PROVE Passing
  BY <1>2, ReleaseAndEndPasses
<1>3. ASSUME NEW r \in Requests, AcquireFree(r) PROVE Covering
  <2>1. /\ r \notin Owing /\ r \in Owing' /\ Owing \subseteq Owing'
        /\ Stale' \subseteq Stale /\ Waiting' \subseteq Waiting
        /\ queue'.value = queue.value - 1
    BY <1>1, <1>3 DEF AcquireFree, Take, Owing, Stale, Waiting, InDeque, NewNotQueued
  <2> QED
    BY <1>1, <2>1, OwesOneMore DEF Covering
<1>4. ASSUME NEW r \in Requests, AcquireWait(r) PROVE Queueing
  <2>1. phase[r] = "new" /\ phase' = [phase EXCEPT ![r] = "waiting"] /\ queue' = Enqueue(queue, r)
    BY <1>4 DEF AcquireWait
  <2>2. InDeque(queue') = InDeque(queue) \cup {r}
    BY <1>1, <2>1, PushedLast
  <2>3. Owing \subseteq Owing' /\ Stale' \subseteq Stale
    BY <1>1, <2>1, <2>2 DEF Owing, Stale
  <2>4. queue.value = 0 /\ queue'.value = 0
    BY <1>1, <1>4 DEF AcquireWait, Locked, Enqueue, QueueType
  <2> QED
    BY <1>1, <2>3, <2>4, OwesMore DEF Queueing
<1>5. ASSUME UNCHANGED queue, Waiting' \subseteq Waiting,
             Owing \subseteq Owing', Stale' \subseteq Stale
      PROVE  Moving
  BY <1>1, <1>5, OwesMore DEF Moving
<1>6. ASSUME NEW r \in Requests, NEW p \in Phases, UNCHANGED queue,
             phase[r] = "new", p # "waiting", phase' = [phase EXCEPT ![r] = p]
      PROVE  Moving
  <2>1. /\ Waiting' \subseteq Waiting /\ Owing \subseteq Owing'
        /\ InDeque(queue') = InDeque(queue)
    BY <1>1, <1>6 DEF Waiting, Owing
  <2>2. Stale' \subseteq Stale
    BY <1>1, <1>6, <2>1 DEF Stale, NewNotQueued
  <2> QED
    BY <1>5, <1>6, <2>1, <2>2
<1>7. ASSUME NEW r \in Requests, AcquireFull(r) PROVE Moving
  BY <1>6, <1>7 DEF AcquireFull, Phases
<1>8. ASSUME NEW r \in Requests, ConversationFails(r) PROVE Passing \/ Moving
  BY <1>2, <1>6, <1>8 DEF ConversationFails, Phases
<1>9. ASSUME NEW r \in Requests, Resume(r) PROVE Moving
  <2>1. queue'.value = queue.value /\ InDeque(queue') = InDeque(queue)
    BY <1>1, <1>9 DEF Resume, Admit, QueueType, InDeque
  <2>2. Waiting' \subseteq Waiting /\ Owing \subseteq Owing'
    BY <1>1, <1>9 DEF Resume, Waiting, Owing
  <2>3. Stale' \subseteq Stale
    BY <1>1, <1>9, <2>1 DEF Resume, Stale
  <2> QED
    BY <1>1, <2>1, <2>2, <2>3, OwesMore DEF Moving
<1>10. ASSUME NEW r \in Requests, Disconnect(r) PROVE Moving
  <2>1. InDeque(queue') = InDeque(queue) /\ UNCHANGED queue
    BY <1>10 DEF Disconnect
  <2>2. Waiting' \subseteq Waiting /\ Owing \subseteq Owing' /\ r \in Owing'
    BY <1>1, <1>10 DEF Disconnect, Waiting, Owing
  <2>3. CASE phase[r] = "waiting"
    <3>1. r \notin Owing /\ Stale' \subseteq Stale \cup {r}
      BY <1>1, <1>10, <2>1, <2>3 DEF Disconnect, Owing, Stale
    <3> QED
      BY <1>1, <2>1, <2>2, <3>1, OwesOneMore DEF Moving
  <2>4. CASE phase[r] = "woken"
    <3>1. Stale' \subseteq Stale
      BY <1>1, <1>10, <2>1, <2>4 DEF Disconnect, Stale
    <3> QED
      BY <1>5, <2>1, <2>2, <3>1
  <2> QED
    BY <1>10, <2>3, <2>4 DEF Disconnect
<1>11. ASSUME CancelAllWaiting PROVE Moving
  <2>1. queue'.value = queue.value /\ DOMAIN queue'.waiters = {}
    <3>1. queue'.value = queue.value /\ queue'.waiters = <<>>
      BY <1>1, <1>11 DEF CancelAllWaiting, CancelWaiting, QueueType
    <3> QED
      BY <3>1
  <2>2. \A s \in Requests :
           /\ phase'[s] # "waiting"
           /\ phase[s] # "waiting" => phase'[s] = phase[s]
    BY <1>11 DEF CancelAllWaiting
  <2>3. Waiting' \subseteq Waiting /\ Owing \subseteq Owing'
    BY <2>2 DEF Waiting, Owing
  <2>4. Stale' \subseteq Stale
    BY <2>1 DEF Stale, InDeque
  <2> QED
    BY <1>1, <2>1, <2>3, <2>4, OwesMore DEF Moving
<1>12. ASSUME NEW r \in Requests, Unwind(r) PROVE Passing \/ Moving
  <2>1. CASE r \in Chat
    BY <1>2, <1>12, <2>1 DEF Unwind
  <2>2. CASE r \notin Chat
    <3>1. UNCHANGED queue /\ InDeque(queue') = InDeque(queue)
      BY <1>12, <2>2 DEF Unwind
    <3>2. phase[r] = "cancelled" /\ phase' = [phase EXCEPT ![r] = "done"]
      BY <1>12, <2>2 DEF Unwind
    <3>3. Waiting' \subseteq Waiting /\ Owing \subseteq Owing'
      BY <1>1, <2>2, <3>2 DEF Waiting, Owing
    <3>4. Stale' \subseteq Stale
      BY <1>1, <3>1, <3>2 DEF Stale
    <3> QED
      BY <1>5, <3>1, <3>3, <3>4
  <2> QED
    BY <2>1, <2>2
<1>13. ASSUME NEW r \in Requests, LeaveEarly(r) \/ Finish(r) PROVE Passing
  BY <1>2, <1>13 DEF LeaveEarly, Finish
<1>14. CASE UNCHANGED vars
  BY <1>5, <1>14 DEF vars, Waiting, Owing, Stale, InDeque
<1>15. ASSUME NEW r \in Requests, Drop(r) PROVE Moving
  <2>1. /\ UNCHANGED queue /\ InDeque(queue') = InDeque(queue)
        /\ phase[r] = "holding" /\ phase' = [phase EXCEPT ![r] = "dropped"]
    BY <1>15 DEF Drop
  <2>2. Waiting' \subseteq Waiting /\ Owing \subseteq Owing'
    BY <1>1, <2>1 DEF Waiting, Owing
  <2>3. Stale' \subseteq Stale
    BY <1>1, <2>1 DEF Stale
  <2> QED
    BY <1>5, <2>1, <2>2, <2>3
<1> QED
  BY <1>3, <1>4, <1>7, <1>8, <1>9, <1>10, <1>11, <1>12, <1>13, <1>14, <1>15 DEF Next

LEMMA InitWaker == Init => WakerInv
<1> SUFFICES ASSUME Init PROVE WakerInv
  OBVIOUS
<1>1. DequeInv /\ TypeOK
  BY InitDeque DEF DequeInv
<1>2. queue.value = MaxConcurrent /\ DOMAIN queue.waiters = {}
  BY DEF Init, FreshQueue
<1>3. Owing = {} /\ Stale = {} /\ Waiting = {}
  BY <1>2 DEF Init, Owing, Stale, Waiting, InDeque
<1>4. Cardinality(Owing) = 0 /\ Cardinality(Stale) = 0
  BY <1>3, FS_EmptySet
<1> HIDE DEF Owing, Stale
<1> QED
  BY <1>1, <1>2, <1>3, <1>4, QueueAssumption DEF WakerInv, Covered, Spare, WaiterHasWaker

LEMMA NextWaker ==
    ASSUME MaxConcurrent >= 1, WakerInv, [Next]_vars
    PROVE  WakerInv'
<1>1. DequeInv /\ DequeInv' /\ TypeOK /\ TypeOK'
  BY NextDeque DEF WakerInv, DequeInv
<1>2. queue.value \in Nat /\ queue'.value \in Nat
  BY <1>1 DEF TypeOK, QueueType
<1>3. /\ Cardinality(Owing) \in Nat /\ Cardinality(Stale) \in Nat
      /\ Cardinality(Owing') \in Nat /\ Cardinality(Stale') \in Nat
  BY <1>1, FiniteSides
<1>4. Covering \/ Queueing \/ Passing \/ Moving
  BY <1>1, StepCovers
<1>5. Covered'
  <2> HIDE DEF Owing, Stale
  <2> QED
    BY <1>2, <1>3, <1>4, QueueAssumption
       DEF WakerInv, Covered, Spare, Covering, Queueing, Passing, Moving
<1>6. WaiterHasWaker'
  <2>1. CASE Queueing
    BY <1>2, <1>3, <1>5, <2>1, QueueAssumption
       DEF Covered, Spare, Queueing, WaiterHasWaker
  <2>2. CASE Waiting' = {}
    BY <2>2 DEF WaiterHasWaker
  <2>3. CASE Waiting' \subseteq Waiting /\ Spare' >= Spare
    BY <1>3, <2>3 DEF WakerInv, Spare, WaiterHasWaker
  <2> QED
    BY <1>3, <1>4, <2>1, <2>2, <2>3 DEF Covering, Passing, Moving, Spare
<1> QED
  BY <1>1, <1>5, <1>6 DEF WakerInv

\* If there is at least one slot, no wake-up is lost: while a request waits, more
\* releases are owed than there are stale futures to swallow them
\* (WaiterHasWaker).  Those of discarded streams are owed for ever.
THEOREM NoLostWakeup ==
    ASSUME MaxConcurrent >= 1
    PROVE  Spec => []WaiterHasWaker
<1>1. WakerInv /\ [Next]_vars => WakerInv'
  BY NextWaker
<1>2. WakerInv => WaiterHasWaker
  BY DEF WakerInv
<1> QED
  BY <1>1, <1>2, InitWaker, PTL DEF Spec
=============================================================================
