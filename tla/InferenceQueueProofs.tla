------------------------- MODULE InferenceQueueProofs -------------------------
(***************************************************************************)
(* What InferenceQueue guarantees for every number of requests, slots and  *)
(* places in the deque.                                                    *)
(***************************************************************************)
EXTENDS InferenceQueue, SlotQueueProofs

-----------------------------------------------------------------------------
(* Type correctness.                                                       *)

LEMMA ReleaseAndEndType ==
    ASSUME TypeOK, NEW r \in Requests, ReleaseAndEnd(r)
    PROVE  TypeOK'
<1>1. [phase EXCEPT ![r] = "done"] \in [Requests -> Phases]
  BY DEF TypeOK, Phases
<1>2. queue' \in QueueType(Requests)
  BY QueueOperatorTypes DEF TypeOK, ReleaseAndEnd
<1>3. phase' \in [Requests -> Phases]
  <2>1. "woken" \in Phases /\ queue \in QueueType(Requests)
    BY DEF Phases, TypeOK
  <2>2. Wake(queue, [phase EXCEPT ![r] = "done"]) \in [Requests -> Phases]
    BY <1>1, <2>1, WakeEffect
  <2> QED
    BY <2>2 DEF ReleaseAndEnd
<1> QED
  BY <1>2, <1>3 DEF TypeOK, ReleaseAndEnd

LEMMA InitType == Init => TypeOK
<1> SUFFICES ASSUME Init PROVE TypeOK
  OBVIOUS
<1>1. FreshQueue \in QueueType(Requests)
  BY QueueAssumption, EmptySeq DEF FreshQueue, QueueType
<1> QED
  BY <1>1 DEF Init, TypeOK, Phases

LEMMA NextType == TypeOK /\ [Next]_vars => TypeOK'
<1> SUFFICES ASSUME TypeOK, [Next]_vars PROVE TypeOK'
  OBVIOUS
<1> USE DEF TypeOK, Phases
<1>1. CASE CancelAllWaiting
  <2>1. queue' \in QueueType(Requests)
    BY <1>1, EmptySeq DEF CancelAllWaiting, CancelWaiting, QueueType
  <2> QED
    BY <1>1, <2>1 DEF CancelAllWaiting
<1>2. ASSUME NEW r \in Requests, AcquireFree(r) PROVE TypeOK'
  BY <1>2, QueueOperatorTypes DEF AcquireFree
<1>3. ASSUME NEW r \in Requests, AcquireWait(r) PROVE TypeOK'
  BY <1>3, QueueOperatorTypes DEF AcquireWait
<1>4. ASSUME NEW r \in Requests, AcquireFull(r) PROVE TypeOK'
  BY <1>4 DEF AcquireFull
<1>5. ASSUME NEW r \in Requests, ConversationFails(r) PROVE TypeOK'
  <2>1. CASE ReleaseAndEnd(r)
    BY <2>1, ReleaseAndEndType
  <2>2. CASE ~ReleaseAndEnd(r)
    BY <1>5, <2>2 DEF ConversationFails
  <2> QED
    BY <2>1, <2>2
<1>6. ASSUME NEW r \in Requests, LeaveEarly(r) PROVE TypeOK'
  BY <1>6, ReleaseAndEndType DEF LeaveEarly
<1>7. ASSUME NEW r \in Requests, Resume(r) PROVE TypeOK'
  BY <1>7, QueueOperatorTypes DEF Resume
<1>8. ASSUME NEW r \in Requests, Disconnect(r) PROVE TypeOK'
  BY <1>8 DEF Disconnect
<1>9. ASSUME NEW r \in Requests, Unwind(r) PROVE TypeOK'
  <2>1. CASE r \in Chat
    BY <1>9, <2>1, ReleaseAndEndType DEF Unwind
  <2>2. CASE r \notin Chat
    BY <1>9, <2>2 DEF Unwind
  <2> QED
    BY <2>1, <2>2
<1>10. ASSUME NEW r \in Requests, Finish(r) PROVE TypeOK'
  BY <1>10, ReleaseAndEndType DEF Finish
<1>11. ASSUME NEW r \in Requests, Drop(r) PROVE TypeOK'
  BY <1>11 DEF Drop
<1>12. CASE UNCHANGED vars
  BY <1>12 DEF vars
<1> QED
  BY <1>1, <1>2, <1>3, <1>4, <1>5, <1>6, <1>7, <1>8, <1>9, <1>10, <1>11, <1>12
     DEF Next

\* Every reachable state is well formed; above all, the semaphore never goes
\* below zero, although handlers take it only after testing it (TypeOK).
THEOREM TypeCorrect == Spec => []TypeOK
BY InitType, NextType, PTL DEF Spec

LEMMA FiniteHolders == IsFiniteSet(Requests) /\ IsFiniteSet(Holders)
<1>1. IsFiniteSet(Requests)
  BY RequestAssumption, FS_Union DEF Requests
<1>2. Holders \subseteq Requests
  BY DEF Holders
<1> QED
  BY <1>1, <1>2, FS_Subset

-----------------------------------------------------------------------------
(* The account of a step: how the semaphore, the counter, the holders and  *)
(* the handoffs move together.                                             *)

Taking ==
    /\ queue'.value = queue.value - 1
    /\ queue'.active = queue.active + 1
    /\ Cardinality(Holders)' >= Cardinality(Holders) + 1
    /\ handoffs' = handoffs

HandingOver ==
    /\ queue'.value = queue.value
    /\ queue'.active = queue.active + 1
    /\ Cardinality(Holders)' >= Cardinality(Holders) + 1
    /\ handoffs' = handoffs + 1

Releasing ==
    /\ queue'.value = queue.value + 1
    /\ queue'.active = queue.active - 1
    /\ Cardinality(Holders)' >= Cardinality(Holders) - 1
    /\ handoffs' = handoffs

Keeping ==
    /\ queue'.value = queue.value
    /\ queue'.active = queue.active
    /\ Cardinality(Holders)' = Cardinality(Holders)
    /\ handoffs' = handoffs

LEMMA BeginsToHold ==
    ASSUME TypeOK, TypeOK', NEW r \in Requests,
           phase[r] \notin {"holding", "dropped"},
           phase' = [phase EXCEPT ![r] = "holding"]
    PROVE  Cardinality(Holders)' >= Cardinality(Holders) + 1
<1>1. Holders \subseteq Holders' /\ r \in Holders' /\ r \notin Holders
  BY DEF Holders, TypeOK
<1>2. IsFiniteSet(Holders')
  <2>1. Holders' \subseteq Requests
    BY DEF Holders
  <2> QED
    BY <2>1, FiniteHolders, FS_Subset
<1> HIDE DEF Holders
<1> QED
  BY <1>1, <1>2, OneMore

LEMMA ReleaseAndEndReleases ==
    ASSUME TypeOK, TypeOK', NEW r \in Requests, ReleaseAndEnd(r)
    PROVE  Releasing
<1> DEFINE ended == [phase EXCEPT ![r] = "done"]
<1>1. ended \in [Requests -> Phases] /\ "woken" \in Phases /\ queue \in QueueType(Requests)
  BY DEF TypeOK, Phases
<1>2. \A s \in Requests : phase'[s] # ended[s] => ended[s] = "waiting"
  <2>1. phase' = Wake(queue, ended)
    BY DEF ReleaseAndEnd
  <2> HIDE DEF ended
  <2> QED
    BY <1>1, <2>1, WakeEffect
<1>3. Holders \subseteq Holders' \cup {r}
  <2> SUFFICES ASSUME NEW s \in Holders, s # r PROVE s \in Holders'
    OBVIOUS
  <2>1. s \in Requests /\ phase[s] \in {"holding", "dropped"} /\ ended[s] = phase[s]
    BY DEF Holders, TypeOK
  <2>2. phase'[s] = phase[s]
    BY <1>2, <2>1
  <2> QED
    BY <2>1, <2>2 DEF Holders
<1>4. IsFiniteSet(Holders')
  <2>1. Holders' \subseteq Requests
    BY DEF Holders
  <2> QED
    BY <2>1, FiniteHolders, FS_Subset
<1>5. Cardinality(Holders)' >= Cardinality(Holders) - 1
  <2>1. /\ Cardinality(Holders') \in Nat /\ Cardinality(Holders) \in Nat
        /\ Cardinality(Holders) <= Cardinality(Holders') + 1
    BY <1>3, <1>4, AtMostOneMore
  <2> QED
    BY <2>1
<1> QED
  BY <1>5 DEF ReleaseAndEnd, Releasing, Release

LEMMA StepAccount ==
    ASSUME TypeOK, TypeOK', [Next]_vars
    PROVE  Taking \/ HandingOver \/ Releasing \/ Keeping
<1>1. ASSUME NEW r \in Requests, AcquireFree(r) PROVE Taking
  <2>1. Cardinality(Holders)' >= Cardinality(Holders) + 1
    BY <1>1, BeginsToHold DEF AcquireFree
  <2> QED
    BY <1>1, <2>1 DEF AcquireFree, Take, Taking
<1>2. ASSUME NEW r \in Requests, Resume(r) PROVE HandingOver
  <2>1. Cardinality(Holders)' >= Cardinality(Holders) + 1
    BY <1>2, BeginsToHold DEF Resume
  <2> QED
    BY <1>2, <2>1 DEF Resume, Admit, HandingOver, TypeOK, QueueType
<1>3. ASSUME NEW r \in Requests, ReleaseAndEnd(r) PROVE Releasing
  BY <1>3, ReleaseAndEndReleases
<1>4. ASSUME queue'.value = queue.value, queue'.active = queue.active,
             handoffs' = handoffs, Holders' = Holders
      PROVE  Keeping
  BY <1>4 DEF Keeping
<1>5. ASSUME CancelAllWaiting PROVE Keeping
  <2>1. Holders' = Holders
    BY <1>5 DEF CancelAllWaiting, Holders, TypeOK
  <2> QED
    BY <1>4, <1>5, <2>1 DEF CancelAllWaiting, CancelWaiting, TypeOK, QueueType
<1>6. ASSUME NEW r \in Requests, NEW p \in Phases,
             phase' = [phase EXCEPT ![r] = p], UNCHANGED <<queue, handoffs>>,
             phase[r] \in {"holding", "dropped"} <=> p \in {"holding", "dropped"}
      PROVE  Keeping
  <2>1. Holders' = Holders
    BY <1>6 DEF Holders, TypeOK
  <2> QED
    BY <1>4, <1>6, <2>1
<1>7. ASSUME NEW r \in Requests, AcquireWait(r) PROVE Keeping
  <2>1. Holders' = Holders
    BY <1>7 DEF AcquireWait, Holders, TypeOK
  <2> QED
    BY <1>4, <1>7, <2>1 DEF AcquireWait, Enqueue, TypeOK, QueueType
<1>8. ASSUME NEW r \in Requests, AcquireFull(r) PROVE Keeping
  BY <1>6, <1>8 DEF AcquireFull, Phases
<1>9. ASSUME NEW r \in Requests, ConversationFails(r) PROVE Releasing \/ Keeping
  BY <1>3, <1>6, <1>9 DEF ConversationFails, Phases
<1>10. ASSUME NEW r \in Requests, Disconnect(r) PROVE Keeping
  BY <1>6, <1>10 DEF Disconnect, Phases
<1>11. ASSUME NEW r \in Requests, Unwind(r) PROVE Releasing \/ Keeping
  BY <1>3, <1>6, <1>11 DEF Unwind, Phases
<1>12. ASSUME NEW r \in Requests, Drop(r) PROVE Keeping
  BY <1>6, <1>12 DEF Drop, Phases
<1>13. CASE UNCHANGED vars
  BY <1>4, <1>13 DEF vars, Holders
<1> QED
  BY <1>1, <1>2, <1>3, <1>5, <1>7, <1>8, <1>9, <1>10, <1>11, <1>12, <1>13
     DEF Next, LeaveEarly, Finish

-----------------------------------------------------------------------------
(* What the account implies.                                               *)

Account == TypeOK /\ SlotConservation /\ ActiveAtMostHolders /\ NoSlotLost

LEMMA InitAccount == Init => Account
<1> SUFFICES ASSUME Init PROVE Account
  OBVIOUS
<1>1. Holders = {}
  BY DEF Init, Holders
<1>2. Cardinality(Holders) = 0
  BY <1>1, FS_EmptySet
<1>3. queue.value = MaxConcurrent /\ queue.active = 0 /\ handoffs = 0
  BY DEF Init, FreshQueue
<1> HIDE DEF Holders
<1> QED
  BY <1>2, <1>3, InitType, QueueAssumption
     DEF Account, SlotConservation, ActiveAtMostHolders, NoSlotLost

LEMMA NextAccount == Account /\ [Next]_vars => Account'
<1> SUFFICES ASSUME Account, [Next]_vars PROVE Account'
  OBVIOUS
<1>1. TypeOK /\ TypeOK'
  BY NextType DEF Account
<1>2. /\ queue.value \in Nat /\ queue.active \in Int /\ handoffs \in Nat
      /\ queue'.value \in Nat /\ queue'.active \in Int /\ handoffs' \in Nat
  BY <1>1 DEF TypeOK, QueueType
<1>3. Cardinality(Holders) \in Nat /\ Cardinality(Holders)' \in Nat
  <2>1. Holders' \subseteq Requests
    BY DEF Holders
  <2> QED
    BY <2>1, FiniteHolders, FS_Subset, FS_CardinalityType
<1>4. Taking \/ HandingOver \/ Releasing \/ Keeping
  BY <1>1, StepAccount
<1> QED
  BY <1>1, <1>2, <1>3, <1>4, QueueAssumption
     DEF Account, SlotConservation, ActiveAtMostHolders, NoSlotLost,
         Taking, HandingOver, Releasing, Keeping

LEMMA AccountHolds == Spec => []Account
BY InitAccount, NextAccount, PTL DEF Spec

\* However many slots and requests there are, the semaphore and the counter
\* drift apart by exactly one for each slot handed to a waiter
\* (SlotConservation).
THEOREM SlotsConserved == Spec => []SlotConservation
<1>1. Account => SlotConservation
  BY DEF Account
<1> QED
  BY <1>1, AccountHolds, PTL

\* The counter never exceeds the number of requests that hold a slot, although
\* handlers release slots they never took (ActiveAtMostHolders).
THEOREM ActiveBounded == Spec => []ActiveAtMostHolders
<1>1. Account => ActiveAtMostHolders
  BY DEF Account
<1> QED
  BY <1>1, AccountHolds, PTL

\* Whatever the error paths release, what is free and what is held cover the
\* configured concurrency: no sequence of requests wears the queue out
\* (NoSlotLost).
THEOREM NoSlotIsLost == Spec => []NoSlotLost
<1>1. Account => NoSlotLost
  BY DEF Account
<1> QED
  BY <1>1, AccountHolds, PTL
=============================================================================
