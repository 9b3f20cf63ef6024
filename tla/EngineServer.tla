----------------------------- MODULE EngineServer -----------------------------
(***************************************************************************)
(* litert_ollama's ModelRegistry (engine_manager.py) with the handlers     *)
(* that use it: /api/chat, /api/generate and /api/embed, the idle-engine   *)
(* collector, forced unloading (/admin/.../unload, /api/delete) and the    *)
(* shutdown of the application.                                            *)
(*                                                                         *)
(* Everything runs on one asyncio loop.  No body of `async with            *)
(* self._global_lock` awaits anything, so load_engine, release_engine,     *)
(* unload_engine and the collector's sweep never suspend, and an action    *)
(* below is all a task does between two of its suspension points: a        *)
(* `yield` to the response being streamed, or `await waiter` in acquire.   *)
(*                                                                         *)
(* An EngineEntry object is an id of EntryIds, given out in the order of   *)
(* creation, which is also the order of the registry's dict.  A request    *)
(* keeps the entry it was given (held) and the model id it asked for       *)
(* (wants): it releases its slot through the first and its reference       *)
(* through the second.                                                     *)
(***************************************************************************)
EXTENDS SlotQueue

CONSTANTS
    Models,     \* model ids
    Chat,       \* /api/chat requests
    Generate,   \* /api/generate requests
    Embed,      \* /api/embed requests
    MaxLoaded,  \* settings.max_loaded_models
    MaxEntries, \* bound of the model: how many EngineEntry objects are made
    CanUnload,  \* are engines ever unloaded by force?
    CanDrop,    \* may a client leave before its generate stream is iterated?
    None

ASSUME ServerAssumption ==
    /\ IsFiniteSet(Chat) /\ IsFiniteSet(Generate) /\ IsFiniteSet(Embed)
    /\ Chat \cap Generate = {} /\ Chat \cap Embed = {} /\ Generate \cap Embed = {}
    /\ MaxLoaded \in Nat
    /\ MaxEntries \in Nat
    /\ CanUnload \in BOOLEAN /\ CanDrop \in BOOLEAN
    /\ None \notin Models /\ None \notin Nat

VARIABLES
    running,    \* between the application's startup and its shutdown
    loaded,     \* ModelRegistry._engines: the entry of each loaded model
    created,    \* the number of entries created so far
    ref,        \* EngineEntry.ref_count
    open,       \* is the entry's native engine entered and not yet exited?
    queue,      \* EngineEntry.queue
    phase,      \* where each request's task is
    held,       \* the handler's local `entry`
    wants       \* req.model of the requests that got an entry

registryVars == <<loaded, created, ref, open>>
vars == <<running, registryVars, queue, phase, held, wants>>

Requests == Chat \cup Generate \cup Embed
EntryIds == 1..MaxEntries

(* new        not yet arrived                                              *)
(* loaded     (chat) suspended at the "loaded" message                     *)
(* waiting    suspended in `await waiter`, the future pending              *)
(* woken      the future is set, the task not yet resumed                  *)
(* cancelled  a CancelledError is about to be raised at `await waiter`     *)
(* erring     (chat) suspended at the error message before its `finally`   *)
(* ready      (generate) the stream is returned and not yet iterated       *)
(* streaming  holds a slot; suspended at a chunk                           *)
(* dropped    (generate) the stream was discarded before it began          *)
(* done       the task has ended                                           *)
Phases == {"new", "loaded", "waiting", "woken", "cancelled", "erring",
           "ready", "streaming", "dropped", "done"}

TypeOK ==
    /\ running \in BOOLEAN
    /\ loaded \in [Models -> EntryIds \cup {None}]
    /\ created \in 0..MaxEntries
    /\ ref \in [EntryIds -> Nat]
    /\ open \in [EntryIds -> BOOLEAN]
    /\ queue \in [EntryIds -> QueueType(Requests)]
    /\ phase \in [Requests -> Phases]
    /\ held \in [Requests -> EntryIds \cup {None}]
    /\ wants \in [Requests -> Models \cup {None}]

Init ==
    /\ running = TRUE
    /\ loaded = [m \in Models |-> None]
    /\ created = 0
    /\ ref = [e \in EntryIds |-> 0]
    /\ open = [e \in EntryIds |-> FALSE]
    /\ queue = [e \in EntryIds |-> FreshQueue]
    /\ phase = [r \in Requests |-> "new"]
    /\ held = [r \in Requests |-> None]
    /\ wants = [r \in Requests |-> None]

-----------------------------------------------------------------------------
Registered == {loaded[m] : m \in Models} \ {None}
\* Variant: an engine is thought idle whatever its references.
IdleWhenUsed == Registered

Idle == {e \in Registered : ref[e] = 0}

\* Entries E leave the registry: popped, their waiters cancelled, their
\* engines exited.  What the registry, the queues and the tasks become.
Without(E) == [m \in Models |-> IF loaded[m] \in E THEN None ELSE loaded[m]]
\* Variant: an entry leaves the registry without its engine being exited.
OpenAsBefore(E) == open

OpenWithout(E) == [e \in EntryIds |-> open[e] /\ e \notin E]
QueuesWithout(E) ==
    [e \in EntryIds |-> IF e \in E THEN CancelWaiting(queue[e]) ELSE queue[e]]
\* Variant: the deque is emptied and its futures are left pending.
PhasesAsBefore(E) == phase

PhasesWithout(E) ==
    [r \in Requests |-> IF phase[r] = "waiting" /\ held[r] \in E
                        THEN "cancelled" ELSE phase[r]]

Close(E) ==
    /\ loaded' = Without(E)
    /\ open' = OpenWithout(E)
    /\ queue' = QueuesWithout(E)
    /\ phase' = PhasesWithout(E)
    /\ UNCHANGED <<running, created, ref, held, wants>>

-----------------------------------------------------------------------------
(* load_engine(m) *)

\* Variant: an off-by-one test makes room one engine too late.
MustEvictLate(m) == loaded[m] = None /\ Cardinality(Registered) > MaxLoaded

MustEvict(m) == loaded[m] = None /\ Cardinality(Registered) >= MaxLoaded

\* "Max loaded models reached": nothing can make room.
Refused(m) == MustEvict(m) /\ Idle = {}

\* idle[0]: the idle entry that was created first.
Victims(m) ==
    IF MustEvict(m) THEN {e \in Idle : \A f \in Idle : e <= f} ELSE {}

EntryFor(m) == IF loaded[m] = None THEN created + 1 ELSE loaded[m]

CanLoad(m) == ~Refused(m) /\ EntryFor(m) \in EntryIds

\* Variant: only the load that creates an entry counts a reference.
LoadEngineOnce(m, n) ==
    LET e == EntryFor(m)
    IN  /\ loaded' = [Without(Victims(m)) EXCEPT ![m] = e]
        /\ created' = IF loaded[m] = None THEN created + 1 ELSE created
        /\ ref' = IF loaded[m] = None THEN [ref EXCEPT ![e] = @ + n] ELSE ref
        /\ open' = [OpenWithout(Victims(m)) EXCEPT ![e] = TRUE]

\* load_engine returned EntryFor(m), and the handler kept n references of it:
\* one, or none when it also released it before its next suspension point.
LoadEngine(m, n) ==
    LET e == EntryFor(m)
    IN  /\ loaded' = [Without(Victims(m)) EXCEPT ![m] = e]
        /\ created' = IF loaded[m] = None THEN created + 1 ELSE created
        /\ ref' = [ref EXCEPT ![e] = @ + n]
        /\ open' = [OpenWithout(Victims(m)) EXCEPT ![e] = TRUE]

\* The handler of r keeps the entry it was given for m.
Given(r, m) ==
    /\ held' = [held EXCEPT ![r] = EntryFor(m)]
    /\ wants' = [wants EXCEPT ![r] = m]
    /\ UNCHANGED running

\* Variant: the count may go below zero.
ReleaseEngineUnclamped(m) ==
    /\ ref' = IF loaded[m] # None THEN [ref EXCEPT ![loaded[m]] = @ - 1] ELSE ref
    /\ UNCHANGED <<loaded, created, open>>

(* release_engine(m): by model id, whatever entry that is by now. *)
ReleaseEngine(m) ==
    /\ ref' = IF loaded[m] # None
              THEN [ref EXCEPT ![loaded[m]] = IF @ > 0 THEN @ - 1 ELSE 0]
              ELSE ref
    /\ UNCHANGED <<loaded, created, open>>

\* Variants: only the slot, or only the reference, is given back.
ReleaseSlotOnly(r) ==
    /\ queue' = [queue EXCEPT ![held[r]] = Release(@)]
    /\ phase' = Wake(queue[held[r]], [phase EXCEPT ![r] = "done"])
    /\ UNCHANGED <<running, registryVars, held, wants>>

ReleaseReferenceOnly(r) ==
    /\ phase' = [phase EXCEPT ![r] = "done"]
    /\ ReleaseEngine(wants[r])
    /\ UNCHANGED <<running, queue, held, wants>>

\* entry.queue.release() and release_engine(), then the task ends.
ReleaseBoth(r) ==
    /\ queue' = [queue EXCEPT ![held[r]] = Release(@)]
    /\ phase' = Wake(queue[held[r]], [phase EXCEPT ![r] = "done"])
    /\ ReleaseEngine(wants[r])
    /\ UNCHANGED <<running, held, wants>>

-----------------------------------------------------------------------------
(* load_engine raises for a request that just arrived.  Refused, nothing   *)
(* changed; a missing model file or a failing engine constructor comes     *)
(* after the eviction, which stays.  The release_engine that generate and  *)
(* embed still call finds no entry of that model.                          *)
LoadRefused(r, m) ==
    /\ running /\ phase[r] = "new"
    /\ Refused(m)
    /\ phase' = [phase EXCEPT ![r] = "done"]
    /\ UNCHANGED <<running, registryVars, queue, held, wants>>

LoadFails(r, m) ==
    /\ running /\ phase[r] = "new"
    /\ loaded[m] = None /\ ~Refused(m)
    /\ loaded' = Without(Victims(m))
    /\ open' = OpenWithout(Victims(m))
    /\ queue' = QueuesWithout(Victims(m))
    /\ phase' = [PhasesWithout(Victims(m)) EXCEPT ![r] = "done"]
    /\ UNCHANGED <<running, created, ref, held, wants>>

\* The request of r is answered before anything is loaded for it.
AnsweredUnloaded(r) ==
    /\ running /\ phase[r] = "new"
    /\ phase' = [phase EXCEPT ![r] = "done"]
    /\ UNCHANGED <<running, registryVars, queue, held, wants>>

-----------------------------------------------------------------------------
(* /api/chat *)

\* There is no prompt in the messages, or they overflow the context.
ChatRejected(r) == r \in Chat /\ AnsweredUnloaded(r)

\* With `stream` false, or through /v1/chat/completions, the lines are read by
\* the server: the `message` of the first, "Loading model...", is a string, and
\* the reader's get raises.  The generator is left at that line, as it is when
\* the client leaves there, and has no entry to give back.
ChatUnread(r) == r \in Chat /\ AnsweredUnloaded(r)

ChatLoads(r, m) ==
    /\ running /\ r \in Chat /\ phase[r] = "new"
    /\ CanLoad(m)
    /\ LoadEngine(m, 1)
    /\ queue' = QueuesWithout(Victims(m))
    /\ phase' = [PhasesWithout(Victims(m)) EXCEPT ![r] = "loaded"]
    /\ Given(r, m)

\* From the "loaded" message to the next suspension: create_conversation may
\* raise, and acquire may return at once, wait, or raise InferenceQueueFull.
ChatAcquires(r) ==
    /\ r \in Chat /\ phase[r] = "loaded"
    /\ LET q == queue[held[r]]
       IN  \/ /\ ~Locked(q)
              /\ queue' = [queue EXCEPT ![held[r]] = Take(@)]
              /\ phase' = [phase EXCEPT ![r] = "streaming"]
           \/ /\ Locked(q) /\ ~DequeFull(q)
              /\ queue' = [queue EXCEPT ![held[r]] = Enqueue(@, r)]
              /\ phase' = [phase EXCEPT ![r] = "waiting"]
           \/ /\ Locked(q) /\ DequeFull(q)
              /\ phase' = [phase EXCEPT ![r] = "erring"]
              /\ UNCHANGED queue
    /\ UNCHANGED <<running, registryVars, held, wants>>

ChatConversationFails(r) ==
    /\ r \in Chat /\ phase[r] = "loaded"
    /\ phase' = [phase EXCEPT ![r] = "erring"]
    /\ UNCHANGED <<running, registryVars, queue, held, wants>>

\* The client leaves while the task awaits a slot: the task is cancelled.
ChatDisconnects(r) ==
    /\ r \in Chat /\ phase[r] \in {"waiting", "woken"}
    /\ phase' = [phase EXCEPT ![r] = "cancelled"]
    /\ UNCHANGED <<running, registryVars, queue, held, wants>>

\* The `finally` of the generator: after the last chunk or the error message,
\* when a CancelledError is raised at `await waiter`, or when the generator is
\* closed at a message because the client left, even before acquire.
ChatFinally(r) ==
    /\ r \in Chat /\ phase[r] \in {"loaded", "cancelled", "erring", "streaming"}
    /\ ReleaseBoth(r)

-----------------------------------------------------------------------------
(* /api/generate *)

\* There is no prompt, or it overflows the context.
GenerateRejected(r) == r \in Generate /\ AnsweredUnloaded(r)

\* load_engine, create_conversation and acquire without a suspension between
\* them.  When the deque is full, the reference is given back at once.
GenerateStarts(r, m) ==
    /\ running /\ r \in Generate /\ phase[r] = "new"
    /\ CanLoad(m)
    /\ LET e == EntryFor(m)
           q == queue[e]
           begin(q2, p) ==
               /\ queue' = [QueuesWithout(Victims(m)) EXCEPT ![e] = q2]
               /\ phase' = [PhasesWithout(Victims(m)) EXCEPT ![r] = p]
       IN  \/ ~Locked(q) /\ begin(Take(q), "ready") /\ LoadEngine(m, 1)
           \/ /\ Locked(q) /\ ~DequeFull(q)
              /\ begin(Enqueue(q, r), "waiting") /\ LoadEngine(m, 1)
           \/ Locked(q) /\ DequeFull(q) /\ begin(q, "done") /\ LoadEngine(m, 0)
    /\ Given(r, m)

\* create_conversation raises: a slot is released if any is in use, and the
\* reference is given back.
GenerateConversationFails(r, m) ==
    /\ running /\ r \in Generate /\ phase[r] = "new"
    /\ CanLoad(m)
    /\ LoadEngine(m, 0)
    /\ LET e == EntryFor(m)
           ended == [PhasesWithout(Victims(m)) EXCEPT ![r] = "done"]
       IN  IF queue[e].active > 0
           THEN /\ queue' = [QueuesWithout(Victims(m)) EXCEPT ![e] = Release(@)]
                /\ phase' = Wake(queue[e], ended)
           ELSE /\ queue' = QueuesWithout(Victims(m))
                /\ phase' = ended
    /\ Given(r, m)

\* CancelledError is not an Exception: neither the reference nor a slot is
\* given back (the entry has left the registry by then).
GenerateCancelled(r) ==
    /\ r \in Generate /\ phase[r] = "cancelled"
    /\ phase' = [phase EXCEPT ![r] = "done"]
    /\ UNCHANGED <<running, registryVars, queue, held, wants>>

GenerateStreams(r) ==
    /\ phase[r] = "ready"
    /\ phase' = [phase EXCEPT ![r] = "streaming"]
    /\ UNCHANGED <<running, registryVars, queue, held, wants>>

\* The client left before the stream was iterated: the generator is discarded
\* unstarted, and its `finally` never runs.
GenerateDropped(r) ==
    /\ CanDrop
    /\ phase[r] = "ready"
    /\ phase' = [phase EXCEPT ![r] = "dropped"]
    /\ UNCHANGED <<running, registryVars, queue, held, wants>>

GenerateFinally(r) ==
    /\ r \in Generate /\ phase[r] = "streaming"
    /\ ReleaseBoth(r)

-----------------------------------------------------------------------------
\* acquire() resumes after its future was set.
Resume(r) ==
    /\ phase[r] = "woken"
    /\ queue' = [queue EXCEPT ![held[r]] = Admit(@)]
    /\ phase' = [phase EXCEPT ![r] = IF r \in Chat THEN "streaming" ELSE "ready"]
    /\ UNCHANGED <<running, registryVars, held, wants>>

(* /api/embed, which /api/embeddings and /v1/embeddings call, takes no     *)
(* slot and never suspends: it loads, uses and releases the engine, and    *)
(* whether its use raised makes no difference.                             *)
EmbedRuns(r, m) ==
    /\ running /\ r \in Embed /\ phase[r] = "new"
    /\ CanLoad(m)
    /\ LoadEngine(m, 0)
    /\ queue' = QueuesWithout(Victims(m))
    /\ phase' = [PhasesWithout(Victims(m)) EXCEPT ![r] = "done"]
    /\ UNCHANGED <<running, held, wants>>

\* One sweep of _gc_loop: the idle entries that outlived keep_alive go.
CollectIdle ==
    /\ running
    /\ \E E \in SUBSET Idle : E # {} /\ Close(E)

\* unload_engine(m), by the admin endpoint or before a model file is deleted:
\* it does not look at ref_count.
Unload(m) ==
    /\ running /\ CanUnload
    /\ loaded[m] # None
    /\ Close({loaded[m]})

\* The lifespan handler ends after the server has finished its requests.
Shutdown ==
    /\ running
    /\ \A r \in Requests : phase[r] \in {"new", "dropped", "done"}
    /\ running' = FALSE
    /\ loaded' = [m \in Models |-> None]
    /\ open' = OpenWithout(Registered)
    /\ queue' = QueuesWithout(Registered)
    /\ UNCHANGED <<created, ref, phase, held, wants>>

Next ==
    \/ CollectIdle
    \/ Shutdown
    \/ \E m \in Models : Unload(m)
    \/ \E r \in Requests, m \in Models :
          \/ LoadRefused(r, m) \/ LoadFails(r, m)
          \/ ChatLoads(r, m)
          \/ GenerateStarts(r, m) \/ GenerateConversationFails(r, m)
          \/ EmbedRuns(r, m)
    \/ \E r \in Requests :
          \/ ChatRejected(r) \/ ChatUnread(r) \/ GenerateRejected(r)
          \/ ChatAcquires(r) \/ ChatConversationFails(r)
          \/ ChatDisconnects(r) \/ ChatFinally(r)
          \/ GenerateCancelled(r) \/ GenerateStreams(r)
          \/ GenerateDropped(r) \/ GenerateFinally(r)
          \/ Resume(r)

Spec == Init /\ [][Next]_vars

\* The event loop resumes every task that is ready, begins every stream it was
\* given, and a stream ends: its model stops producing and its client goes on
\* reading or leaves.
Fairness ==
    \A r \in Requests :
        /\ WF_vars(ChatAcquires(r)) /\ WF_vars(ChatFinally(r))
        /\ WF_vars(GenerateCancelled(r)) /\ WF_vars(GenerateStreams(r))
        /\ WF_vars(GenerateFinally(r))
        /\ WF_vars(Resume(r))

FairSpec == Spec /\ Fairness

-----------------------------------------------------------------------------
\* The requests whose handler was given the entry e and has not ended.
Users(e) == {r \in Requests : held[r] = e /\ phase[r] # "done"}

\* At most max_loaded_models engines are open at once, whatever is evicted,
\* collected, unloaded or fails to load (engine_manager.py:247-294).
LoadedBound == Cardinality({e \in EntryIds : open[e]}) <= MaxLoaded

\* A native engine is open exactly while its entry is in the registry, and no
\* entry serves two models: none is left open behind an eviction, a failed
\* load, a collection, an unload or the shutdown.
OpenIffRegistered ==
    /\ \A e \in EntryIds : open[e] <=> e \in Registered
    /\ \A m, n \in Models : loaded[m] = loaded[n] /\ loaded[m] # None => m = n

\* A registered entry never counts more references than it has users: every
\* path of every handler gives its reference back, so an engine nobody uses
\* can be collected.  (A stream discarded before it began stays a user.)
NoLeakedReference == \A e \in Registered : ref[e] <= Cardinality(Users(e))

\* Without forced unloads an engine stays open as long as a handler holds its
\* entry: neither the collector nor an eviction takes it away.
UsersKeepEngineOpen ==
    \A e \in EntryIds : \A r \in Users(e) : phase[r] # "dropped" => open[e]

\* "idle" (config.py:24, engine_manager.py:250): an entry whose ref_count is 0
\* is used by nobody.
IdleIsUnused == \A e \in Idle : Users(e) = {}

\* Each entry's queue, with the requests that were given the entry, behaves as
\* InferenceQueue says.  A request stays "new" to the queues of the entries it
\* was not given; the queue's history variable is what SlotConservation makes it.
PhaseAt(e) ==
    [r \in Chat \cup Generate |->
        IF held[r] # e \/ phase[r] = "loaded" THEN "new"
        ELSE IF phase[r] \in {"ready", "streaming"} THEN "holding"
        ELSE phase[r]]

QueueOf(e) ==
    INSTANCE InferenceQueue WITH
        queue <- queue[e],
        phase <- PhaseAt(e),
        handoffs <- queue[e].value + queue[e].active - MaxConcurrent,
        CanFail <- TRUE

QueueStep(e) == QueueOf(e)!Next \/ UNCHANGED QueueOf(e)!vars

\* That is, QueueOf(e)!Spec for every entry e, the box moved outside.
QueuesImplementInferenceQueue ==
    /\ \A e \in EntryIds : QueueOf(e)!Init
    /\ [][\A e \in EntryIds : QueueStep(e)]_vars

\* Every request that arrived ends, as long as no stream is dropped with its
\* slot: none is left waiting for one.
RequestsEnd ==
    \A r \in Requests :
        phase[r] # "new" ~> phase[r] = "done" \/ \E q \in Requests : phase[q] = "dropped"
=============================================================================
