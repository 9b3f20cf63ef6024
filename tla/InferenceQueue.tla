---------------------------- MODULE InferenceQueue ----------------------------
(***************************************************************************)
(* One InferenceQueue and the handlers that use it.  A handler is an       *)
(* asyncio task: it runs without interruption from one suspension point to *)
(* the next, so an action is what happens between two of them.             *)
(*                                                                         *)
(* Two kinds of handler call acquire and release.  The chat generator      *)
(* (routers/chat.py) releases in a `finally` that runs whatever happened   *)
(* before, and its task is cancelled when its client goes away.  The       *)
(* generate handler (routers/generate.py) is not cancelled by its client,  *)
(* releases on its error paths when `active > 0`, and otherwise in the     *)
(* `finally` of the stream it returns, which runs only if the server       *)
(* begins to iterate that stream.                                          *)
(***************************************************************************)
EXTENDS SlotQueue

CONSTANTS
    Chat,       \* the chat requests
    Generate,   \* the generate requests
    CanFail,    \* may create_conversation raise?
    CanDrop     \* may a client leave before its generate stream is iterated?

ASSUME RequestAssumption ==
    /\ IsFiniteSet(Chat) /\ IsFiniteSet(Generate)
    /\ Chat \cap Generate = {}
    /\ CanFail \in BOOLEAN /\ CanDrop \in BOOLEAN

VARIABLES
    queue,      \* the InferenceQueue's data
    phase,      \* where each request's task is
    handoffs    \* history: how many acquires returned after waiting

vars == <<queue, phase, handoffs>>

Requests == Chat \cup Generate

(* new        has not called acquire                                       *)
(* waiting    suspended in `await waiter`, the future pending              *)
(* woken      the future is set, the task not yet resumed                  *)
(* cancelled  a CancelledError is about to be raised at `await waiter`     *)
(* holding    acquire returned                                             *)
(* erring     (chat) an exception was caught, the generator is suspended   *)
(*            at the error message, its `finally` is still to run          *)
(* dropped    (generate) the stream was discarded before it began          *)
(* done       the task has ended                                           *)
Phases == {"new", "waiting", "woken", "cancelled", "holding", "erring",
           "dropped", "done"}

TypeOK ==
    /\ queue \in QueueType(Requests)
    /\ phase \in [Requests -> Phases]
    /\ handoffs \in Nat

Init ==
    /\ queue = FreshQueue
    /\ phase = [r \in Requests |-> "new"]
    /\ handoffs = 0

-----------------------------------------------------------------------------
\* `release()`, then the task of r ends.
ReleaseAndEnd(r) ==
    /\ queue' = Release(queue)
    /\ phase' = Wake(queue, [phase EXCEPT ![r] = "done"])
    /\ UNCHANGED handoffs

AcquireFree(r) ==
    /\ phase[r] = "new"
    /\ ~Locked(queue)
    /\ queue' = Take(queue)
    /\ phase' = [phase EXCEPT ![r] = "holding"]
    /\ UNCHANGED handoffs

AcquireWait(r) ==
    /\ phase[r] = "new"
    /\ Locked(queue) /\ ~DequeFull(queue)
    /\ queue' = Enqueue(queue, r)
    /\ phase' = [phase EXCEPT ![r] = "waiting"]
    /\ UNCHANGED handoffs

\* InferenceQueueFull: generate answers 503 and is done; the chat generator
\* catches it like any exception and reaches its `finally` later.
AcquireFull(r) ==
    /\ phase[r] = "new"
    /\ Locked(queue) /\ DequeFull(queue)
    /\ phase' = [phase EXCEPT ![r] = IF r \in Chat THEN "erring" ELSE "done"]
    /\ UNCHANGED <<queue, handoffs>>

\* create_conversation raises, before acquire is called.  The chat generator
\* goes to its error message; generate releases at once if `active > 0`.
ConversationFails(r) ==
    /\ CanFail
    /\ phase[r] = "new"
    /\ IF r \in Chat
       THEN /\ phase' = [phase EXCEPT ![r] = "erring"]
            /\ UNCHANGED <<queue, handoffs>>
       ELSE IF queue.active > 0
            THEN ReleaseAndEnd(r)
            ELSE /\ phase' = [phase EXCEPT ![r] = "done"]
                 /\ UNCHANGED <<queue, handoffs>>

\* The client of a chat stream leaves at a message sent before acquire is
\* called: the generator is closed there, and its `finally` releases a slot.
LeaveEarly(r) ==
    /\ r \in Chat
    /\ phase[r] = "new"
    /\ ReleaseAndEnd(r)

\* The task resumes after its future was set.
Resume(r) ==
    /\ phase[r] = "woken"
    /\ queue' = Admit(queue)
    /\ phase' = [phase EXCEPT ![r] = "holding"]
    /\ handoffs' = handoffs + 1

\* The client of a chat stream goes away while its task awaits the future:
\* the task is cancelled, whether or not the future has just been set.
Disconnect(r) ==
    /\ r \in Chat
    /\ phase[r] \in {"waiting", "woken"}
    /\ phase' = [phase EXCEPT ![r] = "cancelled"]
    /\ UNCHANGED <<queue, handoffs>>

\* The engine this queue belongs to is closed.
CancelAllWaiting ==
    /\ queue.waiters # <<>>
    /\ queue' = CancelWaiting(queue)
    /\ phase' = [r \in Requests |->
                    IF phase[r] = "waiting" THEN "cancelled" ELSE phase[r]]
    /\ UNCHANGED handoffs

\* Variant: a cancelled chat gives nothing back.
UnwindSilently(r) ==
    /\ phase[r] = "cancelled"
    /\ phase' = [phase EXCEPT ![r] = "done"]
    /\ UNCHANGED <<queue, handoffs>>

\* CancelledError is not an Exception: chat still runs its `finally`, and
\* generate leaves without a release.
Unwind(r) ==
    /\ phase[r] = "cancelled"
    /\ IF r \in Chat
       THEN ReleaseAndEnd(r)
       ELSE /\ phase' = [phase EXCEPT ![r] = "done"]
            /\ UNCHANGED <<queue, handoffs>>

\* The stream ends, fails, or is closed: its `finally` releases.
Finish(r) ==
    /\ phase[r] \in {"holding", "erring"}
    /\ ReleaseAndEnd(r)

\* generate returned its stream, and nobody will ever iterate it.
Drop(r) ==
    /\ CanDrop
    /\ r \in Generate
    /\ phase[r] = "holding"
    /\ phase' = [phase EXCEPT ![r] = "dropped"]
    /\ UNCHANGED <<queue, handoffs>>

Next ==
    \/ CancelAllWaiting
    \/ \E r \in Requests :
          \/ AcquireFree(r) \/ AcquireWait(r) \/ AcquireFull(r)
          \/ ConversationFails(r) \/ LeaveEarly(r)
          \/ Resume(r) \/ Disconnect(r)
          \/ Unwind(r) \/ Finish(r) \/ Drop(r)

Spec == Init /\ [][Next]_vars

\* The event loop resumes every task that is ready, and a stream ends: its
\* model stops producing and its client goes on reading or leaves.
Fairness ==
    \A r \in Requests : WF_vars(Resume(r)) /\ WF_vars(Unwind(r)) /\ WF_vars(Finish(r))

FairSpec == Spec /\ Fairness

-----------------------------------------------------------------------------
Holders == {r \in Requests : phase[r] \in {"holding", "dropped"}}

\* The requests that owe a release: a dropped one will never call it.
Owing == {r \in Requests : \/ phase[r] \in {"holding", "woken", "erring", "dropped"}
                           \/ phase[r] = "cancelled" /\ r \in Chat}

\* Futures in the deque that nobody waits for: popping one wakes nobody.
Stale == {r \in InDeque(queue) : phase[r] # "waiting"}

Waiting == {r \in Requests : phase[r] = "waiting"}

\* The semaphore and the counter drift apart by one each time a slot is handed
\* to a waiter: release() gives the semaphore back as well, and the waiter
\* counts itself without taking it (engine_manager.py:50-54, 58-68).
SlotConservation == queue.value + queue.active = MaxConcurrent + handoffs

\* The counter never reports more running requests than there are, although
\* handlers release slots they never took (chat.py:288-290, generate.py:252).
ActiveAtMostHolders == queue.active <= Cardinality(Holders)

\* No slot is lost: what is free and what is held always cover the configured
\* concurrency, whatever the error paths release.
NoSlotLost == queue.value + Cardinality(Holders) >= MaxConcurrent

\* Every waiting request has exactly one future in the deque, so that some
\* release can find it.
WaitersAreQueued ==
    \A r \in Waiting :
        Cardinality({i \in DOMAIN queue.waiters : queue.waiters[i] = r}) = 1

\* No lost wake-up: while somebody waits, more releases are owed than there are
\* stale futures in the deque to swallow them.
WaiterHasWaker == Waiting # {} => Cardinality(Owing) > Cardinality(Stale)

\* Requests are woken in the order in which they began to wait.
WokenInOrder ==
    [][\A i, j \in DOMAIN queue.waiters :
          LET first == queue.waiters[i]
              second == queue.waiters[j]
          IN  /\ i < j
              /\ phase[first] = "waiting"
              /\ phase[second] = "waiting"
              /\ phase'[second] = "woken"
              => phase'[first] # "waiting"]_vars

\* A request that waits for a slot does not wait for ever, as long as no stream
\* is dropped with its slot.
WaiterServed ==
    \A r \in Requests :
        phase[r] = "waiting"
            ~> phase[r] # "waiting" \/ \E q \in Requests : phase[q] = "dropped"

\* "Maximum concurrent inference requests per model" (config.py:33): what the
\* queue's own documentation promises.
AtMostMaxConcurrent == Cardinality(Holders) <= MaxConcurrent
=============================================================================
