---------------------------- MODULE SlotQueueProofs ----------------------------
(***************************************************************************)
(* Facts about the operators of SlotQueue, for the modules that use them.  *)
(***************************************************************************)
EXTENDS SlotQueue, SequenceTheorems, FiniteSetTheorems, TLAPS

\* Every method leaves a well-formed queue; only a semaphore that is not locked
\* may be taken.
LEMMA QueueOperatorTypes ==
    ASSUME NEW R, NEW q \in QueueType(R), NEW r \in R
    PROVE  /\ FreshQueue \in QueueType(R)
           /\ ~Locked(q) => Take(q) \in QueueType(R)
           /\ Enqueue(q, r) \in QueueType(R)
           /\ Admit(q) \in QueueType(R)
           /\ Release(q) \in QueueType(R)
           /\ CancelWaiting(q) \in QueueType(R)
<1>1. /\ q.value \in Nat /\ q.active \in Int /\ q.waiters \in Seq(R)
      /\ q = [value |-> q.value, active |-> q.active, waiters |-> q.waiters]
  BY DEF QueueType
<1>2. FreshQueue \in QueueType(R)
  BY QueueAssumption, EmptySeq DEF FreshQueue, QueueType
<1>3. ASSUME ~Locked(q) PROVE Take(q) \in QueueType(R)
  <2>1. q.value - 1 \in Nat /\ q.active + 1 \in Int
    BY <1>1, <1>3 DEF Locked
  <2> QED
    BY <1>1, <2>1 DEF Take, QueueType
<1>4. Enqueue(q, r) \in QueueType(R)
  BY <1>1 DEF Enqueue, QueueType
<1>5. Admit(q) \in QueueType(R)
  BY <1>1 DEF Admit, QueueType
<1>6. Release(q) \in QueueType(R)
  <2>1. (IF q.waiters = <<>> THEN <<>> ELSE Tail(q.waiters)) \in Seq(R)
    BY <1>1, EmptySeq, HeadTailProperties
  <2> QED
    BY <1>1, <2>1 DEF Release, QueueType
<1>7. CancelWaiting(q) \in QueueType(R)
  BY <1>1, EmptySeq DEF CancelWaiting, QueueType
<1> QED
  BY <1>2, <1>3, <1>4, <1>5, <1>6, <1>7

\* release() wakes at most the request at the head of the deque, and only if it
\* waits.
LEMMA WakeEffect ==
    ASSUME NEW R, NEW P, "woken" \in P, NEW q \in QueueType(R), NEW p \in [R -> P]
    PROVE  /\ Wake(q, p) \in [R -> P]
           /\ \A r \in R : Wake(q, p)[r] # p[r] =>
                 /\ q.waiters # <<>> /\ r = Head(q.waiters)
                 /\ p[r] = "waiting" /\ Wake(q, p)[r] = "woken"
           /\ \A r \in R : q.waiters # <<>> /\ r = Head(q.waiters) =>
                 Wake(q, p)[r] # "waiting"
<1>1. q.waiters \in Seq(R)
  BY DEF QueueType
<1>2. CASE q.waiters # <<>> /\ p[Head(q.waiters)] = "waiting"
  <2>1. Head(q.waiters) \in R
    BY <1>1, <1>2, HeadTailProperties
  <2>2. Wake(q, p) = [p EXCEPT ![Head(q.waiters)] = "woken"]
    BY <1>2 DEF Wake
  <2> QED
    BY <1>2, <2>1, <2>2
<1>3. CASE ~(q.waiters # <<>> /\ p[Head(q.waiters)] = "waiting")
  <2>1. Wake(q, p) = p
    BY <1>3 DEF Wake
  <2> QED
    BY <1>3, <2>1
<1> QED
  BY <1>2, <1>3

-----------------------------------------------------------------------------
(* Cardinalities of sets that change by one element.                       *)

LEMMA OneMore ==
    ASSUME NEW A, NEW B, IsFiniteSet(B), A \subseteq B, NEW x \in B, x \notin A
    PROVE  /\ Cardinality(A) \in Nat /\ Cardinality(B) \in Nat
           /\ Cardinality(A) + 1 <= Cardinality(B)
<1>1. IsFiniteSet(A) /\ A \cup {x} \subseteq B
  BY FS_Subset
<1>2. Cardinality(A \cup {x}) = Cardinality(A) + 1
  BY <1>1, FS_AddElement
<1>3. Cardinality(A \cup {x}) <= Cardinality(B)
  BY <1>1, FS_Subset
<1> QED
  BY <1>1, <1>2, <1>3, FS_CardinalityType

LEMMA AtMostOneMore ==
    ASSUME NEW A, IsFiniteSet(A), NEW x, NEW B, B \subseteq A \cup {x}
    PROVE  /\ Cardinality(A) \in Nat /\ Cardinality(B) \in Nat
           /\ Cardinality(B) <= Cardinality(A) + 1
<1>1. IsFiniteSet(A \cup {x}) /\ Cardinality(A \cup {x}) <= Cardinality(A) + 1
  <2>1. Cardinality(A) \in Nat
    BY FS_CardinalityType
  <2>2. /\ IsFiniteSet(A \cup {x})
        /\ Cardinality(A \cup {x}) = IF x \in A THEN Cardinality(A) ELSE Cardinality(A) + 1
    BY FS_AddElement
  <2> QED
    BY <2>1, <2>2
<1>2. IsFiniteSet(B) /\ Cardinality(B) <= Cardinality(A \cup {x})
  BY <1>1, FS_Subset
<1> QED
  BY <1>1, <1>2, FS_CardinalityType

-----------------------------------------------------------------------------
\* The requests whose futures are in the deque, after each method: release()
\* takes out the head, whoever that is.
LEMMA DequeEffects ==
    ASSUME NEW R, NEW q \in QueueType(R), NEW r \in R
    PROVE  /\ InDeque(Take(q)) = InDeque(q) /\ InDeque(Admit(q)) = InDeque(q)
           /\ InDeque(CancelWaiting(q)) = {}
           /\ InDeque(Enqueue(q, r)) = InDeque(q) \cup {r}
           /\ q.waiters = <<>> => InDeque(q) = {} /\ InDeque(Release(q)) = {}
           /\ q.waiters # <<>> => InDeque(q) = InDeque(Release(q)) \cup {Head(q.waiters)}
<1>1. q.waiters \in Seq(R) /\ Len(q.waiters) \in Nat /\ DOMAIN q.waiters = 1..Len(q.waiters)
  BY DEF QueueType
<1>2. /\ Take(q).waiters = q.waiters /\ Admit(q).waiters = q.waiters
      /\ CancelWaiting(q).waiters = <<>> /\ Enqueue(q, r).waiters = Append(q.waiters, r)
      /\ q.waiters = <<>> => Release(q).waiters = <<>>
      /\ q.waiters # <<>> => Release(q).waiters = Tail(q.waiters)
  BY DEF Take, Admit, CancelWaiting, Enqueue, Release, QueueType
<1>3. \A s : s = <<>> => {s[i] : i \in DOMAIN s} = {}
  OBVIOUS
<1>4. {Append(q.waiters, r)[i] : i \in DOMAIN Append(q.waiters, r)} = InDeque(q) \cup {r}
  <2> DEFINE s == Append(q.waiters, r)
  <2>1. /\ DOMAIN s = 1..(Len(q.waiters) + 1) /\ s[Len(q.waiters) + 1] = r
        /\ \A i \in 1..Len(q.waiters) : s[i] = q.waiters[i]
    BY <1>1, AppendProperties
  <2>2. \A i \in 1..(Len(q.waiters) + 1) : i \in 1..Len(q.waiters) \/ i = Len(q.waiters) + 1
    BY <1>1
  <2>3. \A i \in 1..Len(q.waiters) : i \in 1..(Len(q.waiters) + 1)
    BY <1>1
  <2>4. Len(q.waiters) + 1 \in 1..(Len(q.waiters) + 1)
    BY <1>1
  <2> HIDE DEF s
  <2>5. {s[i] : i \in DOMAIN s} = InDeque(q) \cup {r}
    BY <1>1, <2>1, <2>2, <2>3, <2>4 DEF InDeque
  <2> QED
    BY <2>5 DEF s
<1>5. ASSUME q.waiters # <<>>
      PROVE  InDeque(q) = {Tail(q.waiters)[i] : i \in DOMAIN Tail(q.waiters)} \cup {Head(q.waiters)}
  <2> DEFINE t == Tail(q.waiters)
  <2>1. /\ Len(q.waiters) > 0 /\ DOMAIN t = 1..(Len(q.waiters) - 1) /\ Head(q.waiters) = q.waiters[1]
        /\ \A i \in 1..(Len(q.waiters) - 1) : t[i] = q.waiters[i + 1]
    BY <1>1, <1>5, HeadTailProperties
  <2>2. \A i \in 1..Len(q.waiters) : i = 1 \/ (i - 1 \in 1..(Len(q.waiters) - 1) /\ (i - 1) + 1 = i)
    BY <1>1
  <2>3. \A i \in 1..(Len(q.waiters) - 1) : i + 1 \in 1..Len(q.waiters)
    BY <1>1
  <2>4. 1 \in 1..Len(q.waiters)
    BY <1>1, <2>1
  <2> HIDE DEF t
  <2>5. InDeque(q) = {t[i] : i \in DOMAIN t} \cup {Head(q.waiters)}
    <3>1. ASSUME NEW i \in 1..Len(q.waiters)
          PROVE  q.waiters[i] \in {t[j] : j \in DOMAIN t} \cup {Head(q.waiters)}
      <4>1. CASE i = 1
        BY <2>1, <4>1
      <4>2. CASE i # 1
        <5>1. i - 1 \in DOMAIN t /\ t[i - 1] = q.waiters[i]
          BY <2>1, <2>2, <4>2
        <5> QED
          BY <5>1
      <4> QED
        BY <4>1, <4>2
    <3>2. ASSUME NEW i \in DOMAIN t PROVE t[i] \in InDeque(q)
      BY <1>1, <2>1, <2>3 DEF InDeque
    <3>3. Head(q.waiters) \in InDeque(q)
      BY <1>1, <2>1, <2>4 DEF InDeque
    <3>4. InDeque(q) \subseteq {t[i] : i \in DOMAIN t} \cup {Head(q.waiters)}
      BY <1>1, <3>1 DEF InDeque
    <3>5. {t[i] : i \in DOMAIN t} \cup {Head(q.waiters)} \subseteq InDeque(q)
      BY <3>2, <3>3
    <3> QED
      BY <3>4, <3>5
  <2> QED
    BY <2>5 DEF t
<1>6. InDeque(Take(q)) = InDeque(q) /\ InDeque(Admit(q)) = InDeque(q)
  BY <1>2 DEF InDeque
<1>7. InDeque(CancelWaiting(q)) = {}
  BY <1>2, <1>3 DEF InDeque
<1>8. InDeque(Enqueue(q, r)) = InDeque(q) \cup {r}
  <2>1. InDeque(Enqueue(q, r)) = {Append(q.waiters, r)[i] : i \in DOMAIN Append(q.waiters, r)}
    BY <1>2 DEF InDeque
  <2> QED
    BY <1>4, <2>1
<1>9. q.waiters = <<>> => InDeque(q) = {} /\ InDeque(Release(q)) = {}
  BY <1>2, <1>3 DEF InDeque
<1>10. q.waiters # <<>> => InDeque(q) = InDeque(Release(q)) \cup {Head(q.waiters)}
  <2>1. q.waiters # <<>> =>
           InDeque(Release(q)) = {Tail(q.waiters)[i] : i \in DOMAIN Tail(q.waiters)}
    BY <1>2 DEF InDeque
  <2> QED
    BY <1>5, <2>1
<1> QED
  BY <1>6, <1>7, <1>8, <1>9, <1>10
=============================================================================
