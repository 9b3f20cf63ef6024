------------------------------ MODULE SlotQueue ------------------------------
(***************************************************************************)
(* The data of litert_ollama's InferenceQueue (engine_manager.py): an      *)
(* asyncio.Semaphore's value, the `_active` counter and the bounded deque  *)
(* of futures `_waiters`.  The operators are the effects of its methods on *)
(* that data; who calls them, and when, is said by the modules that extend *)
(* this one.  A future is named by the request that awaits it (a request   *)
(* calls acquire once), and it is pending exactly while its request is     *)
(* "waiting": a future that was cancelled stays in the deque.              *)
(***************************************************************************)
EXTENDS Integers, Sequences, FiniteSets

CONSTANTS
    MaxConcurrent,  \* settings.max_concurrent_per_model
    MaxQueue        \* settings.max_queue_size; asyncio.Queue takes 0 as "no bound"

ASSUME QueueAssumption ==
    /\ MaxConcurrent \in Nat
    /\ MaxQueue \in Nat

QueueType(R) == [value : Nat, active : Int, waiters : Seq(R)]

FreshQueue == [value |-> MaxConcurrent, active |-> 0, waiters |-> <<>>]

\* Variant: an off-by-one test lets acquire take a semaphore at zero.
LockedLate(q) == q.value < 0

\* asyncio.Semaphore.locked(): nobody ever waits on the semaphore itself,
\* because acquire is called only when it is not locked.
Locked(q) == q.value = 0

DequeFull(q) == MaxQueue > 0 /\ Len(q.waiters) >= MaxQueue

\* The three ways acquire() can go: take the semaphore at once, append a
\* future and suspend on it, or (after the future is set) count the slot.
\* The last one does not take the semaphore.
Take(q) == [value |-> q.value - 1, active |-> q.active + 1, waiters |-> q.waiters]

Enqueue(q, r) == [q EXCEPT !.waiters = Append(@, r)]

\* Variant: the woken request takes the semaphore as well.
AdmitTaking(q) == [q EXCEPT !.value = @ - 1, !.active = @ + 1]

Admit(q) == [q EXCEPT !.active = @ + 1]

\* Variants: release() forgets the counter, or the semaphore.
ReleaseUncounted(q) ==
    [value   |-> q.value + 1,
     active  |-> q.active,
     waiters |-> IF q.waiters = <<>> THEN <<>> ELSE Tail(q.waiters)]

ReleaseUnreturned(q) ==
    [value   |-> q.value,
     active  |-> q.active - 1,
     waiters |-> IF q.waiters = <<>> THEN <<>> ELSE Tail(q.waiters)]

\* release(): one future is popped, the semaphore is released whether or not
\* that future wakes somebody, and the counter goes down.
Release(q) ==
    [value   |-> q.value + 1,
     active  |-> q.active - 1,
     waiters |-> IF q.waiters = <<>> THEN <<>> ELSE Tail(q.waiters)]

\* Variants: the popped future is never set, or the newest one is set instead.
WakeNobody(q, phase) == phase

WakeLast(q, phase) ==
    IF q.waiters # <<>> /\ phase[q.waiters[Len(q.waiters)]] = "waiting"
    THEN [phase EXCEPT ![q.waiters[Len(q.waiters)]] = "woken"]
    ELSE phase

\* The phases after release(): the popped future is set if it is pending.
Wake(q, phase) ==
    IF q.waiters # <<>> /\ phase[Head(q.waiters)] = "waiting"
    THEN [phase EXCEPT ![Head(q.waiters)] = "woken"]
    ELSE phase

\* cancel_waiting(): the deque is emptied and every pending future cancelled
\* (the modules that extend this one move its requests to "cancelled").
CancelWaiting(q) == [q EXCEPT !.waiters = <<>>]

\* The requests whose future is in the deque.
InDeque(q) == {q.waiters[i] : i \in DOMAIN q.waiters}
=============================================================================
