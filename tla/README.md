# Verification of friendly-llm

friendly-llm serves local LiteRT models over HTTP and, through a signaling
server and WebRTC, to remote peers. This directory holds TLA+ models of its
stateful parts, TLC runs on small instances, and TLAPS proofs of what can be
proved for instances of every size. The source is the only reference; line
numbers below are those of `src/packages/...`.

## 1. Inventory

| Component | State | Operations | Talks to |
|---|---|---|---|
| **Inference queue** (`server/litert_ollama/engine_manager.py:29-93`) | semaphore value, `_active`, bounded deque of futures | `acquire`, `release`, `cancel_waiting` | the handlers of one engine |
| **Model registry** (`engine_manager.py:100-341`) | dict of `EngineEntry` (engine, `ref_count`, `last_used`, queue) | `load_engine`, `release_engine`, `unload_engine`, `_gc_loop`, `shutdown` | native engine (external), queues, model store |
| **Inference handlers** (`routers/chat.py`, `generate.py`, `embeddings.py`) | locals `entry`, `engine_model_id`, the generator's position | one request each: load, acquire, stream, release | registry, queue, HTTP client |
| **Model store, routers** (`model_store.py`, `routers/models.py`, `create.py`, `pull.py`) | SQLite tables `models`, `modelfiles`; directory of model files | create, copy, delete, pull; the command line's pull, rename, delete (`cli.py`), in processes of their own | registry (forced unload), file system |
| **Modelfile** (`modelfile.py`) | none (pure) | parse, generate | create, show |
| **Rate limiters** (`ratelimit.py`; `signaling/app.py:57-95`) | sliding windows per key | check | every HTTP request; every signaling message |
| **Signaling server** (`signaling/litert_signaling/app.py`) | sockets, `_nodes`, `_rooms`, load of each node | auth, register, create_room / select_model, sdp/ice forwarding, close_room, end of a handler, heartbeat | connectors and SDK clients |
| **Connector** (`connector/litert_connector`) | websocket, reconnect back-off, peers per room, room timers | connect, register, answer an offer, bridge requests to HTTP | signaling server, local server, SDK peers |
| **SDKs** (`sdk-python/litert_sdk`, `sdk-js/src`) | pending futures / waiter lists per request, data channel | connect, chat, list_models | signaling server, connector |
| **Android peer** (`p2p-android`) | the connector's state again, in Kotlin | the connector's | signaling server, SDK peers |
| Benchmark, GPU monitor, CLIs, schemas, config, multimodal | nothing others rely on | | |

What is hard in each, and what makes it correct:

* *Inference queue.* Handlers are asyncio tasks that can be cancelled at
  `await waiter`, fail before acquiring, or be thrown away before their
  `finally` exists. Correct means: slots are neither lost nor invented beyond
  what the code does on purpose, no wake-up is lost, waiters are served in
  turn, and everyone who waits is served or cancelled.
* *Registry and handlers.* References are taken by entry and given back by
  model id; engines close while requests hold them; a load evicts before it
  can fail. Correct means: an engine is open exactly while it is registered,
  never more than `max_loaded_models`, references are given back on every path,
  and nothing is closed under its users unless somebody forced it.
* *Signaling server.* Registry calls are atomic but a handler suspends at each
  send, and any peer may be gone at each of them. Names can be registered
  twice, and a key maps to whichever node holds it. Correct means: rooms,
  nodes and loads agree at all times, a lost connection leaves nothing behind,
  a full node gets no room.
* *Connector and SDKs.* A handshake between three parties, timers racing with
  late answers, chunk streams delivered by callbacks. Correct means: an offer
  meets an answer, a stream delivers every chunk once and in order and ends.
* *Store.* Two tables and a directory that change in separate steps, by the
  server and by commands in other processes that may be interrupted; a foreign
  key whose cascade fires inside `INSERT OR REPLACE`, and a loop over the files
  of a repository that writes each of its models over the one before. Correct
  means: a pull that fetched a model and says success left the last one whole, a row names a source only if that source was
  pulled, a rename loses no model.

`PROJECT.json` lists every hazard found, at its line, and the properties
that cover it.

## 2. How the code runs, and what that means for the models

Server and signaling server are single asyncio event loops. No body of an
`async with lock` in either awaits anything (`engine_manager.py:231-341`,
`app.py:203-350`), so the locks never block and a task is interrupted only at a
`yield` of a streamed response, at `await waiter`, and at websocket sends and
receives. **An action of a model is everything a task does from one such point
to the next.**

External behaviour the models rely on, none of it in this repository:

* Starlette/anyio cancels the task that streams a chat response when its client
  disconnects, also inside `await waiter`; a `CancelledError` is not an
  `Exception`, so only `finally` blocks see it.
* The response of `generate` is created after `acquire`. The application's
  middleware is a `BaseHTTPMiddleware`: when the client is gone before the
  response starts, its body generator is discarded without having started,
  and the `finally` of an unstarted generator never runs. The constant
  `CanDrop` turns this on and off; `CanFail` of `InferenceQueue` says whether
  the engine may refuse a conversation.
* `asyncio.Queue(maxsize=0)` has no bound (`DequeFull`).
* The native engine (`litert_lm`) either opens or raises; while it computes it
  blocks the loop, which changes no state.
* A send to a peer that is gone may succeed or raise; one to a socket whose
  handler has returned raises.
* A data channel delivers messages in order until it closes; after that a send
  raises. Behind the connector is litert_ollama or another server with its
  routes (`--server-port`).
* The server's routes of `ModelStore` are atomic against the command line's
  processes: the windows inside one of them are a file unlinked and its row not
  yet deleted. A step of a command is a step of its own where it can be
  interrupted with something visible left behind.

## 3. Modules

| Module | Models | Form |
|---|---|---|
| `SlotQueue` | the data of `InferenceQueue` and the effect of each method on it | operators only |
| `InferenceQueue` | one queue with chat and generate requests: the **abstract specification** of how slots are handed out | one action per way a handler reaches `acquire`/`release` |
| `EngineServer` | registry, handlers, collector, forced unload, shutdown; each entry has a `SlotQueue` | one action per stretch of a handler between two suspensions |
| `SignalingServer` | `NodeRegistry` and the `/signal` handler of every connection | one action per message, send and failure |
| `Connector` | signaling client, message handler, room timer and WebRTC responder of a connector, **composed** with the server's sessions and rooms and with the clients that open them | one action per message read, timer, callback and loss |
| `ChunkStream` | what a caller of `chat` is promised: chunks in order, `done` only after the last | **abstract specification** |
| `InferStreams` | the connector's streams over a data channel, composed with the `chat` of both SDKs | one action per message sent, delivered or taken |
| `ModelStore` | the directories, the two tables, the routes and commands that change them | one action per step that can be seen or interrupted |
| `MCInferenceQueue`, `MCEngineServer`, `MCSignalingServer`, `MCConnector`, `MCInferStreams`, `MCModelStore` | small sets of requests, models, connections, rooms and names for TLC | |
| `SlotQueueProofs` | what the operators of `SlotQueue` return and leave | lemmas |
| `InferenceQueueProofs`, `WakeupProofs` | the slots, and the waiters, of `InferenceQueue` | proofs |
| `EngineServerProofs` | `EngineServer`, and that each entry's queue implements `InferenceQueue` | proofs |
| `SignalingServerProofs`, `ConnectorProofs`, `ModelStoreProofs` | the modules they extend | proofs |
| `InferStreamsProofs` | `InferStreams`, and that a prompt caller's stream implements `ChunkStream` | proofs |

**State.** `queue` is a record of the semaphore's `_value`, `_active` and
`_waiters`; `phase` is the program counter of each request's task; a future is
identified with the request awaiting it and is pending while that request is
`"waiting"`. `EngineServer` adds `loaded` (`_engines`), `ref` (`ref_count`),
`open` (is the native engine entered), and the handlers' locals `held`
(`entry`) and `wants` (`req.model`). Entries are numbered in order of
creation, which is the order of the registry's dict and so of the eviction.
`SignalingServer` keeps `sock` (the connection as the server sees it), `task`
(where the handler is suspended), the handler's locals `role` and `ident`, and
`nodes` and `rooms`.
`Connector` keeps what `signaling_client.py` keeps (`link`, `delay`), a number
per registration (`session`, since each gets a new node id), the unread messages
of both sides, `pending` (`pending_rooms`), `offer` (the listener awaits
`handle_offer`, so it reads nothing meanwhile), `peers` and the state of each
peer connection. `InferStreams` keeps one `mail` per request, which is the
future in Python and the list `chunks` in JavaScript; chunks are numbered.
`ModelStore` keeps the `model.litertlm` of each directory block by block, with
the repository and the place in it of the file that each block came from; each
row as its source; and for a pull the file of the list it has come to (`last`),
where the `model.litertlm` that it opened last is now (`at`), and which file
that is as long as nobody else has touched it (`mine`). Files of other kinds
keep their own names, where no command and no route looks for models: fetching one
moves `last` only. That such a file in a directory makes a rename onto it fail is
left out; the model lets the rename go on.

**Names ending in a qualifier**, marked `Variant:` in the modules
(`LockedLate`, `ReleaseUncounted`, `EndKeepingNode`, ...), are plausible bugs
in the definition that follows them. No specification uses them: each stands for
a mutant in `PROJECT.json`, and shows that some run notices.

## 4. What the runs show

| Run | Instance | Shows |
|---|---|---|
| `queue_safety` | 4 chat + 2 generate requests, 2 slots, deque of 3, drops | `SlotConservation`, `ActiveAtMostHolders`, `NoSlotLost`, `WaitersAreQueued`, `WaiterHasWaker`, `WokenInOrder`; live: `WaiterServed` |
| `queue_bound` | 3 generate requests, 1 slot, deque of 2, no conversation fails, no drops | finding 1 |
| `server_unload` | 2 models, room for 1 engine, 2 chat + 1 generate + 1 embed, deque of 2, forced unloads, drops | `OpenIffRegistered`, `LoadedBound`, `NoLeakedReference`; every entry's queue refines `InferenceQueue`; live: `RequestsEnd` |
| `server_inuse` | 3 models, room for 2, 3 chat + 1 generate + 1 embed, no forced unloads, `MaxQueue = 0` | `UsersKeepEngineOpen`, `IdleIsUnused` |
| `server_stale_release` | as `server_unload`, deque of 1, no drops | finding 2 |
| `signaling_any` | 3 connections, 2 names, 2 rooms, names and keys shared | `RoomHasNode`, `RoomHasClient`, `NodeHasHandler`; live: `LostIsForgotten` |
| `signaling_own` | 4 connections, 2 names, 3 rooms, `max_sessions` 1 or 2, every node has its own name | `LoadIsRooms`, `CapacityRespected`, `OnlyOwnHandlerUnregisters` |
| `connector` | 2 rooms, 2 registrations; clients by the protocol and of the Python SDK | `NoTimerForAnswered`, `CandidateFindsPeer`; live: `HandshakeSettles`, `PeersFreed` |
| `handshake_sdk` | 1 room, 1 registration, clients of both SDKs | finding 3 |
| `streams` | a Python and a JavaScript request, 3 chunks each, 1 permit, either server | `PermitsConserved`, `InOrderOnce`; prompt callers refine `ChunkStream`; live: `PythonEnds` |
| `streams_lost` | the same, litert_ollama behind the connector | finding 4 |
| `store` | 2 names, 1 modelfile, a pull by the server and one by the command line, files of 2 blocks; a repository with two `.litertlm` files and one with none | `SourceWasPulled`, `PulledIsWhole`, `RenameKeepsModels` |

**Findings** (runs TLC must find violated):

1. `AtMostMaxConcurrent`: `release` wakes a waiter, which counts itself without
   taking the semaphore, *and* releases the semaphore. A request that arrives
   next, before the woken one resumes or after, finds the semaphore free, so
   more than `max_concurrent_per_model` requests run on one engine. In
   `queue_bound` nobody releases a slot that was not taken, so that this is the
   only way. What is kept is `SlotConservation`: the semaphore and the
   counter drift apart by exactly one per hand-off.
2. `IdleIsUnused` under forced unloads: `release_engine` finds its entry by
   model id. After an unload and a reload it lowers the count of another entry,
   which then looks idle while it is in use. `server_inuse` shows that this
   takes a forced unload.
3. `DescriptionsExchanged` with the SDKs' clients: after `room_created` they wait
   for the node's `sdp_offer`, and the connector for the client's. Connector and
   server stay connected, no description is ever sent, and the chat fails or its
   promise stays pending. With clients that send the offer, as
   docs/protocol.md says and tests/test_client.py does, `connector` shows that
   every handshake settles.
4. `DoneMeansAll`: both SDKs have room for one message per request and lose
   chunks that come while their caller is busy; the stream still ends with
   `done`. For callers that always wait already, `PromptCallersGetAll` shows
   that nothing is missing.

Seen while modelling, in the models, and without a run that expects a violation:

* When a node name is registered twice, `register_node` replaces a `NodeInfo`
  that has rooms by one of load 0, and the node is given more rooms than its
  `max_sessions`. `CapacityRespected` therefore holds under `OwnNames` only.
* The first line of the chat generator has a string where its readers expect
  an object (chat.py:167). With `stream` false, and through
  `/v1/chat/completions`, the reader raises there, before the engine is loaded
  (`ChatUnread`); so does `chat` of the Python SDK when litert_ollama is behind
  the connector (`Unreadable`).
* The error paths break the same maximum in another way: the `finally` of the
  chat generator (chat.py:288-290) and the error path of `generate`
  (generate.py:252) release slots that they never took, which the next requests
  take. `queue_safety` has them all; `SlotConservation`, `ActiveAtMostHolders` and
  `NoSlotLost` say what is still true.
* A repository without a `.litertlm` file is pulled with success, by the command
  line also registered, and leaves no model (`PullsOther`, `PullSucceeds`); the
  next pull of the command line says that the model already exists. An empty
  repository too. `PulledIsWhole` therefore speaks of pulls that opened a
  `model.litertlm`; if a repository has several, the last one is kept.
* `/api/pull` with `stream` false says success and pulls nothing
  (`PullSkipped`).
* The command line's delete keeps the row, so that a later pull says the model
  already exists; a copy goes to a directory where nothing looks for models;
  and a name with a slash has its rows under two ids.
* An exception in `handle_offer` ends the connector's listener on an open
  connection, and an OSError while reconnecting ends the reconnection for good:
  the process stays, unregistered (`link = "dead"`).

**Bounds.** Requests and connections are each used once, so their number bounds
every behaviour. Six requests on two slots with a deque of three give two
holders, two cancelled requests whose futures are stale and a waiter behind
them, or two waiters, one request turned away and one arriving while a woken
waiter has not yet resumed: the longest chains any property of the queue speaks
of. Two models with room for one engine make every load of the other an
eviction; three entries (`MaxEntries`, four in `server_stale_release`) leave a
model reloaded after an unload with requests of both entries alive, and one more
of the other model. Three models with room for two let an eviction choose. Three
connections are two nodes that fight for a name and a client, or a node and two
clients; two rooms fill `max_sessions = 1`; the fourth connection and third
room of `signaling_own` fill `max_sessions = 2`. In `connector`, `MaxSessions = 2`
is one reconnection, so that one session is stale while the other is in use; two
rooms are one in each, or two in one, one answered while the timer of the other
runs; `MaxDelay = 2` lets the back-off reach its cap. `Trickle` and `Leavers`
name the one room whose client sends a candidate and the other whose client may
leave, to keep the run small. In `streams`, three chunks are one that is taken,
one that is kept and one that is lost, and one permit makes the two requests
compete. In `store`, two blocks are a file that is partly written, two names a
rename and what is in its way; of the one repository two files go to
`model.litertlm`, with one of another kind between them, where others may step
in, and one file is passed over; of the other, no file is a model. Requests that
were never sent and connections that never came remain possible, so every run
also covers the smaller instances. Deadlock checking is off: when every request,
connection, room or pull has ended, nothing is left to do. Symmetry is used only
in runs without liveness.

**Fairness.** `InferenceQueue` and `EngineServer`: weak fairness of resuming a
task whose future is set or whose cancellation is pending (the event loop runs
every ready task), of beginning a stream that was returned, and of ending a
stream. The last is an assumption about the model and the client, who read on
or leave: the code sets no bound, `inference_timeout` is passed to the queue's
constructor and used nowhere. No fairness is assumed of arrivals,
disconnections, unloads, or of the collector. `SignalingServer`: weak fairness
of a handler that can go on (a send completes or raises) and of noticing a lost
connection. `Connector`: tasks that are ready run, messages are read,
timers fire, a lost or silent connection is noticed (heartbeat and websocket
pings), and ICE decides. Nothing is assumed of clients (they need not send an
offer, and may leave), of reconnecting, or of a failed connection that recovers.
`InferStreams`: the connector's tasks go on (its HTTP client has timeouts), what
is on the wire arrives, `wait_for` gives up, and callers ask on. `ModelStore` is
checked for safety only.

`WaiterServed` and `RequestsEnd` promise nothing once a stream was dropped: one
that is discarded unstarted keeps its slot and its reference for ever, and with
one slot everybody behind it waits for ever. `NoSlotLost` and
`NoLeakedReference` count it as a holder and a user for that reason, and
`WaiterHasWaker` as a request that owes a release. `HandshakeSettles` lets a
client wait whose room was popped with its node: the server does not tell it
(app.py:784-788).

**Refinement.** `EngineServer` instantiates `InferenceQueue` once per entry
(`QueueOf(e)`): a request is `"new"` to every queue but that of the entry it was
given, `"ready"` and `"streaming"` are both `"holding"`, and the history
variable `handoffs` is recovered from `SlotConservation`.
`QueuesImplementInferenceQueue` says that the initial states map to initial
states and every step of the server to a step or a stutter of every queue.
`InferStreams` instantiates `ChunkStream` once per request, with what its caller
was given; `PromptCallersGetAll` says so of the callers that are always waiting
when a message comes.

## 5. What is proved

Every invariant and every action property that a passing run checks is also a
theorem, for instances of every size, and so are the two refinements:

| Module | Theorem | Property | Follows from |
|---|---|---|---|
| `InferenceQueueProofs` | `TypeCorrect` | `TypeOK` | itself |
| | `SlotsConserved`, `ActiveBounded`, `NoSlotIsLost` | `SlotConservation`, `ActiveAtMostHolders`, `NoSlotLost` | `Account` |
| `WakeupProofs` | `WaitersQueued`, `WokenInTurn` | `WaitersAreQueued`, `WokenInOrder` | `DequeInv` |
| | `NoLostWakeup`, if `MaxConcurrent >= 1` | `WaiterHasWaker` | `DequeInv`, `Covered` |
| `EngineServerProofs` | `TypeCorrect`, `OpenExactlyRegistered`, `LoadedBounded`, `NoReferenceLeaks` | `TypeOK`, `OpenIffRegistered`, `LoadedBound`, `NoLeakedReference` | `ServerInv` |
| | `UsedEnginesStayOpen`, `IdleEntriesUnused`, if `~CanUnload` | `UsersKeepEngineOpen`, `IdleIsUnused` | `InUseInv` |
| | `QueuesImplement` | `QueuesImplementInferenceQueue` | `QueuesInv` |
| `SignalingServerProofs` | `TypeCorrect`, `RoomsHaveNodes`, `RoomsHaveClients`, `NodesHaveHandlers` | `TypeOK`, `RoomHasNode`, `RoomHasClient`, `NodeHasHandler` | `ServerInv` |
| | `LoadsAreRooms`, `CapacityIsRespected`, `OnlyOwnersUnregister`, if `OwnNames` | `LoadIsRooms`, `CapacityRespected`, `OnlyOwnHandlerUnregisters` | `OwnInv` |
| `ConnectorProofs` | `TypeCorrect` | `TypeOK` | itself |
| | `AnsweredRoomsHaveNoTimer`, `CandidatesFindPeers` | `NoTimerForAnswered`, `CandidateFindsPeer` | `ConnectorInv` |
| `InferStreamsProofs` | `TypeCorrect`, `PermitsAreConserved` | `TypeOK`, `PermitsConserved` | `FlowInv` |
| | `ChunksInOrder` | `InOrderOnce` | `OrderInv` |
| | `PromptCallersSeeStreams` | `PromptCallersGetAll` | `StraightInv` |
| `ModelStoreProofs` | `SourcesPulled` | `SourceWasPulled` | `SourceInv` |
| | `TypeCorrect`, `PullsAreWhole`, `RenamesKeepModels` | `TypeOK`, `PulledIsWhole`, `RenameKeepsModels` | `FileInv` |

**Assumptions.** The named `ASSUME` of each module, which TLC evaluates in every
run. They say that bounds are numbers, that kinds of requests are disjoint, and
that `None` and the other markers are not among the values they stand apart
from. The sets of requests of `InferenceQueue`, `EngineServer` and
`InferStreams` are finite, because the properties count them; connections,
names, rooms, models, pulls and modelfiles may be infinitely many.

Six theorems have one of three hypotheses, and each is needed. Without a slot the first
waiter waits for a release that nobody owes. With forced unloads,
`release_engine` takes a reference from the entry loaded after the one it means
(finding 2): `server_stale_release` violates `IdleIsUnused`. With shared names,
`register_node` starts a node that has rooms at load 0. The hypotheses are
about constants of the specification, and runs satisfy them: `queue_safety` the
first, `server_inuse` the second, `signaling_own` the third.

**The inductive invariants**, and what the property lacks without them:

* *The queue's account.* None of the three properties about slots is inductive
  alone. Their conjunction with `TypeOK` (`Account`) is, because every step is
  one of four movements of the account (`Taking`, `HandingOver`, `Releasing`,
  `Keeping`; lemma `StepAccount`), and the three follow from those by
  arithmetic.
* *The queue's waiters.* `DequeInv` adds that the deque has no duplicates and
  that a request that has not called `acquire` is not in it; otherwise a second
  future of the same request could not be excluded. `Covered` says that the
  releases owed, less the stale futures that could swallow one, plus the free
  slots cover the concurrency: nothing else is known when a request begins to
  wait, where no slot is free. Lemma `StepCovers` sorts every step into
  `Covering`, `Queueing`, `Passing` or `Moving`.
* *The registry.* `ServerInv` adds four facts. `HandlersHold` and `EntriesMade`:
  handlers and the dict know only entries that were made, and one not made
  has a fresh queue and no reference. `FoundByModel`: while an entry is
  registered, the model id under which its handler will release it leads to it.
  `CancelledLeft`: a generate handler cancelled in `acquire`, which gives
  nothing back, was cancelled because its entry had left, so that nothing is
  leaked. The bound on the registered entries is part of it, since
  `load_engine` evicts one entry at most. `InUseInv`, without forced unloads,
  turns the two inequalities around: every entry in use is registered and counts
  exactly its users.
* *The queues of the registry.* `QueuesInv` adds to `ServerInv` that the deque of
  an entry holds futures only of requests that were given this entry, and all
  of those that wait (`Known`), and which phases each kind of handler has
  (`PhasesOfKind`). Then closing an entry cancels exactly its own waiters, and
  a step is a step of the queue of the entry it is about, of several queues
  that are closed at once, or of none. The proof has one step per action, each
  naming the step of `InferenceQueue` that it is.
* *The signaling server.* `ServerInv` is the three properties with who each
  connection is (`Identified`) and that live rooms are finitely many, with
  clients as clients (`FewRooms`); the proof is that the end of a handler, the
  only place where a node or a client goes, closes the rooms of both. `OwnInv`
  adds `OwnedNames`: a name is registered exactly as long as the one connection
  that registered it, so that no registration meets rooms of another.
* *The connector.* Both properties are about the order of what waits in `inbox`.
  `RoomInv(r)` says that about room `r` there is at most one offer, behind the
  `new_room` and, until it is handled, before every candidate; that while one
  of the first two is unread, or the timer runs, the connector has done
  nothing for `r`; that a peer is kept exactly as long as its connection is
  checking or connected; and that a client that has sent its offer to the
  present session still has it unread or handled (`Reached`): a candidate is sent
  only where the offer went. `SessionsBegun` says that no room is of a session
  yet to come. Lemmas on `Has`, `Once`, `Precedes` and `Follows` say what appending
  and reading a message do to these orders.
* *The streams.* `PermitInv` adds that a caller still idle has an idle task, so
  that none is asked again while it holds a permit. `OrderInv` chains what was
  given, what is in the mail and what is on the wire into one rising sequence,
  up to the number the task has sent. `StraightInv`, for the callers that were
  always waiting, says that this sequence has no gap, and that an error or a
  blank is the last of it; this is what the refinement of `ChunkStream` rests on.
* *The store.* `SourceInv` adds `CarriesPulled`: a rename under way carries a source
  that a completed pull gave to the old row. `FileInv` adds `AloneInPlace`: a
  pull that nobody disturbed has the `model.litertlm` it opened last where it
  opened it, with what it wrote, and to itself, also after it closed it; and
  `MineIsLast`: that is the last `.litertlm` file among those it has come to, so
  that at the end of the list it is the last of all.

TLC finds every inductive invariant true on the instances of the runs of its
module. The proof of a step has one case per action; what an action does to a
part is stated as a lemma where several cases need it.

**Only model-checked:** the liveness properties `WaiterServed`, `RequestsEnd`,
`LostIsForgotten`, `HandshakeSettles`, `PeersFreed` and `PythonEnds`, because the
prover has no rules for fairness. The two refinements say that initial states
map to initial states and steps to steps or stutters; the fairness of
`InferenceQueue` (`FairSpec`) is not part of `QueuesImplementInferenceQueue`.

## 6. Not modelled, and the plan

The list of components in `PROJECT.json` says of every part whether it is
modelled. Left out for good: accounts, tokens and the audit log (single
database statements), the commands that only read or call the server,
benchmarks, schemas, configuration, the Modelfile's text, image and audio
conversion (no state that another part relies on), metrics, tags and show (reads
only), the local HTTP clients, and what nobody calls: `try_acquire`,
`rename_model`, `delete_modelfile`, `set_remote_answer`, `send_to_client`.
`SignalingServer` leaves out `list_models` and the forwarding of messages that
succeed, because neither changes state, and messages nobody has a reason to
send. Time is nowhere a number: a timer that runs may fire at any moment, so a
healthy connection may be closed by the heartbeat and a room closed at once,
which covers the 30 seconds against 30 seconds of app.py:117. The two rate
limits are left out with it: a refused request or message changes nothing else.

Next, in this order:

1. Proofs: the theorems about `InferenceQueue`, carried over to each entry in
   the server's own variables, and what is stated next of the parts below.
2. The Android peer, as a second connector on `Connector`'s clients.
3. The rate limits and the heartbeat, with a clock.
