----------------------------- MODULE InferStreams -----------------------------
(***************************************************************************)
(* Inference over an open data channel: the connector's WebRTCResponder    *)
(* turns the lines of an HTTP response into messages, and the chat of a    *)
(* Python or JavaScript client turns the messages into a stream for its    *)
(* caller.                                                                 *)
(*                                                                         *)
(* Both SDKs have room for one message per request (mail).  In Python it   *)
(* is a future, which chat replaces when its caller asks for the next      *)
(* chunk: a message that finds it set is dropped.  In JavaScript it is the *)
(* list `chunks`, which holds either the caller's waiter or a message, and *)
(* whose entries of the second kind raise a TypeError whoever takes them.  *)
(*                                                                         *)
(* The connector passes on what the server at its --server-port answers:   *)
(* litert_ollama, or another one with the same routes.                     *)
(***************************************************************************)
EXTENDS Integers, Sequences, FiniteSets

CONSTANTS
    Python, Js,     \* the requests, by the SDK of their client
    Chunks,         \* the lines of each response that are not done: its text, and
                    \* the status lines, which are chunks without text
    MaxStreams,     \* max_concurrent_requests
    Servers         \* the kinds of server there may be behind the connector

ASSUME StreamAssumption ==
    /\ Python \cap Js = {} /\ IsFiniteSet(Python) /\ IsFiniteSet(Js)
    /\ Chunks \in Nat /\ MaxStreams \in Nat \ {0}
    /\ Servers \subseteq {"litert_ollama", "other"}

VARIABLES
    server,     \* what answers at the connector's local_server_url
    channel,    \* is the data channel open?
    task,       \* the connector's task for each request
    free,       \* the permits of _request_sem
    sent,       \* how many chunks the task has sent
    wire,       \* the messages on their way to the client
    mail,       \* the result of the future, or the message in `chunks`
    caller,     \* the caller of chat
    got,        \* the chunks the caller was given
    prompt      \* the callers that always wait when a message comes

nodeVars == <<server, channel, task, free, sent>>
sdkVars == <<mail, caller, got>>
vars == <<nodeVars, wire, sdkVars, prompt>>

Requests == Python \cup Js
\* The messages about a response are its chunks, by number, done, error, and a
\* chunk without text.
Done == Chunks + 1
Error == Chunks + 2
Blank == Chunks + 3
Messages == 1..Blank
Empty == 0

(* task: idle; asked: infer was sent, the semaphore not yet acquired;      *)
(* streaming; ended.                                                       *)
(* caller: idle; busy: has a chunk, or chat has just returned; waiting for *)
(* the next; done; failed: an error was raised to it.                      *)
TypeOK ==
    /\ server \in Servers
    /\ channel \in {"open", "closed"}
    /\ task \in [Requests -> {"idle", "asked", "streaming", "ended"}]
    /\ free \in 0..MaxStreams
    /\ sent \in [Requests -> 0..Chunks]
    /\ wire \in [Requests -> Seq(Messages)]
    /\ mail \in [Requests -> Messages \cup {Empty}]
    /\ caller \in [Requests -> {"idle", "busy", "waiting", "done", "failed"}]
    /\ got \in [Requests -> Seq(1..Chunks)]
    /\ prompt \subseteq Requests

Init ==
    /\ server \in Servers
    /\ channel = "open"
    /\ task = [q \in Requests |-> "idle"]
    /\ free = MaxStreams
    /\ sent = [q \in Requests |-> 0]
    /\ wire = [q \in Requests |-> <<>>]
    /\ mail = [q \in Requests |-> Empty]
    /\ caller = [q \in Requests |-> "idle"]
    /\ got = [q \in Requests |-> <<>>]
    /\ prompt \in SUBSET Requests

-----------------------------------------------------------------------------
(* The connector *)

\* What sending m leaves: channel.send raises when the channel is closed.
Sends(q, m) ==
    wire' = IF channel = "open" THEN [wire EXCEPT ![q] = Append(@, m)] ELSE wire

\* The task of q leaves _do_stream, and with it the semaphore.
TaskEnds(q) ==
    /\ task' = [task EXCEPT ![q] = "ended"]
    /\ free' = free + 1

\* Variant: the request does not wait for the semaphore, and releases it.
BeginStreamUncounted(q) ==
    /\ task[q] = "asked"
    /\ task' = [task EXCEPT ![q] = "streaming"]
    /\ UNCHANGED <<server, channel, free, sent, sdkVars, wire, prompt>>

\* on_message has made a task of _handle_infer, and it gets the semaphore.
BeginStream(q) ==
    /\ task[q] = "asked" /\ free > 0
    /\ task' = [task EXCEPT ![q] = "streaming"]
    /\ free' = free - 1
    /\ UNCHANGED <<server, channel, sent, wire, sdkVars, prompt>>

\* A line of the response that is not done; a chunk that cannot be sent ends it.
SendChunk(q) ==
    /\ task[q] = "streaming" /\ sent[q] < Chunks
    /\ sent' = [sent EXCEPT ![q] = @ + 1]
    /\ Sends(q, sent[q] + 1)
    /\ IF channel = "open" THEN UNCHANGED <<task, free>> ELSE TaskEnds(q)
    /\ UNCHANGED <<server, channel, sdkVars, prompt>>

SendDone(q) ==
    /\ task[q] = "streaming" /\ sent[q] = Chunks
    /\ Sends(q, Done)
    /\ TaskEnds(q)
    /\ UNCHANGED <<server, channel, sent, sdkVars, prompt>>

\* Variants: the permit is kept on the way out; a response that breaks off is
\* passed on as if it were complete.
SendErrorHoldingPermit(q) ==
    /\ task[q] = "streaming"
    /\ Sends(q, Error)
    /\ task' = [task EXCEPT ![q] = "ended"]
    /\ UNCHANGED <<server, channel, free, sent, sdkVars, prompt>>

SendErrorAsDone(q) ==
    /\ task[q] = "streaming"
    /\ Sends(q, Done)
    /\ TaskEnds(q)
    /\ UNCHANGED <<server, channel, sent, sdkVars, prompt>>

\* The response has a status of 400 or more, or the request raises.
SendError(q) ==
    /\ task[q] = "streaming"
    /\ Sends(q, Error)
    /\ TaskEnds(q)
    /\ UNCHANGED <<server, channel, sent, sdkVars, prompt>>

\* The engine fails.  The server says so in a line without `done` and ends the
\* response: the connector passes the line on as a chunk.
EngineFails(q) ==
    /\ task[q] = "streaming"
    /\ Sends(q, Blank)
    /\ TaskEnds(q)
    /\ UNCHANGED <<server, channel, sent, sdkVars, prompt>>

\* The response ends without a line that is done: nothing tells the client.
ResponseCut(q) ==
    /\ task[q] = "streaming"
    /\ TaskEnds(q)
    /\ UNCHANGED <<server, channel, sent, wire, sdkVars, prompt>>

\* Either side closes, or the connection is lost.
ChannelCloses ==
    /\ channel = "open"
    /\ channel' = "closed"
    /\ wire' = [q \in Requests |-> <<>>]
    /\ UNCHANGED <<server, task, free, sent, sdkVars, prompt>>

-----------------------------------------------------------------------------
(* The clients *)

\* chat sends the request.  The generator of Python goes on to await the
\* future; in JavaScript the caller is given an iterator.
Ask(q) ==
    /\ caller[q] = "idle" /\ channel = "open"
    /\ caller' = [caller EXCEPT ![q] = IF q \in Python THEN "waiting" ELSE "busy"]
    /\ task' = [task EXCEPT ![q] = "asked"]
    /\ UNCHANGED <<server, channel, free, sent, wire, mail, got, prompt>>

\* The first line of litert_ollama's answer, "Loading model...", has a string for
\* its `message`: chat of Python raises an AttributeError on it.
Unreadable(q, m) == server = "litert_ollama" /\ q \in Python /\ m = 1

\* What the caller makes of a message.
Given(q, m) ==
    /\ got' = IF m < Done /\ ~Unreadable(q, m) THEN [got EXCEPT ![q] = Append(@, m)] ELSE got
    /\ caller' = [caller EXCEPT ![q] = IF m = Done THEN "done"
                                       ELSE IF m = Error \/ Unreadable(q, m) THEN "failed"
                                       ELSE "busy"]

\* A message comes out of the channel.
Arrives(q, m) ==
    /\ wire[q] # <<>> /\ m = Head(wire[q])
    /\ q \in prompt => caller[q] = "waiting" /\ mail[q] = Empty
    /\ wire' = [wire EXCEPT ![q] = Tail(@)]
    /\ UNCHANGED <<nodeVars, prompt>>

\* on_message: the future is set if it is not.
ArrivesInPython(q) ==
    \E m \in Messages :
        /\ q \in Python
        /\ Arrives(q, m)
        /\ mail' = [mail EXCEPT ![q] = IF @ = Empty THEN m ELSE @]
        /\ UNCHANGED <<caller, got>>

\* The future is set, and chat resumes.
FutureSet(q) ==
    /\ q \in Python /\ caller[q] = "waiting" /\ mail[q] # Empty
    /\ Given(q, mail[q])
    /\ UNCHANGED <<nodeVars, wire, mail, prompt>>

\* Variant: the future is not replaced.
NextInPythonSame(q) ==
    /\ q \in Python /\ caller[q] = "busy"
    /\ caller' = [caller EXCEPT ![q] = "waiting"]
    /\ Len(got[q]) < 2 * Chunks
    /\ UNCHANGED <<nodeVars, wire, mail, got, prompt>>

\* The caller asks for the next chunk, and chat awaits a new future.
NextInPython(q) ==
    /\ q \in Python /\ caller[q] = "busy"
    /\ caller' = [caller EXCEPT ![q] = "waiting"]
    /\ mail' = [mail EXCEPT ![q] = Empty]
    /\ UNCHANGED <<nodeVars, wire, got, prompt>>

\* Variant: only the first wait is bounded.
TimeoutFirst(q) ==
    /\ q \in Python /\ caller[q] = "waiting" /\ mail[q] = Empty /\ got[q] = <<>>
    /\ caller' = [caller EXCEPT ![q] = "failed"]
    /\ UNCHANGED <<nodeVars, wire, mail, got, prompt>>

\* wait_for gives up after `timeout`.
Timeout(q) ==
    /\ q \in Python /\ caller[q] = "waiting" /\ mail[q] = Empty
    /\ caller' = [caller EXCEPT ![q] = "failed"]
    /\ UNCHANGED <<nodeVars, wire, mail, got, prompt>>

\* deliverChunk and deliverError.  A waiter is settled.  With no waiter, a chunk
\* or done is kept if nothing is, and is lost with what is kept otherwise (the
\* TypeError is caught in onmessage); an error is lost.
ArrivesInJs(q) ==
    \E m \in Messages :
        /\ q \in Js
        /\ Arrives(q, m)
        /\ IF caller[q] = "waiting"
           THEN /\ Given(q, m)
                /\ UNCHANGED mail
           ELSE /\ mail' = [mail EXCEPT ![q] =
                              IF @ = Empty /\ m # Error THEN m ELSE Empty]
                /\ UNCHANGED <<caller, got>>

\* next(): a waiter is put in the list, or what is in the list is called
\* without an argument, which rejects the promise with a TypeError.
NextInJs(q) ==
    /\ q \in Js /\ caller[q] = "busy"
    /\ caller' = [caller EXCEPT ![q] = IF mail[q] = Empty THEN "waiting" ELSE "failed"]
    /\ mail' = [mail EXCEPT ![q] = Empty]
    /\ UNCHANGED <<nodeVars, wire, got, prompt>>

Next ==
    \/ ChannelCloses
    \/ \E q \in Requests :
          \/ Ask(q) \/ BeginStream(q) \/ SendChunk(q) \/ SendDone(q) \/ SendError(q)
          \/ EngineFails(q) \/ ResponseCut(q)
          \/ ArrivesInPython(q) \/ FutureSet(q) \/ NextInPython(q) \/ Timeout(q)
          \/ ArrivesInJs(q) \/ NextInJs(q)

Spec == Init /\ [][Next]_vars

\* The connector's tasks go on (its HTTP client gives up on a silent server),
\* what is on the wire arrives, timeouts pass, and callers ask on.
Fairness ==
    \A q \in Requests :
        /\ WF_vars(BeginStream(q))
        /\ WF_vars(SendChunk(q) \/ SendDone(q) \/ SendError(q) \/ EngineFails(q)
                   \/ ResponseCut(q))
        /\ WF_vars(ArrivesInPython(q) \/ ArrivesInJs(q))
        /\ WF_vars(FutureSet(q)) /\ WF_vars(NextInPython(q)) /\ WF_vars(Timeout(q))
        /\ WF_vars(NextInJs(q))

FairSpec == Spec /\ Fairness

-----------------------------------------------------------------------------
\* Every way out of a stream gives its permit back, so that _request_sem never
\* runs dry (webrtc_responder.py:119-121, 140-196).
PermitsConserved ==
    free + Cardinality({q \in Requests : task[q] = "streaming"}) = MaxStreams

\* A caller is given no chunk twice and none out of order, however its own
\* requests and the messages interleave.
InOrderOnce ==
    \A q \in Requests : \A i, j \in DOMAIN got[q] : i < j => got[q][i] < got[q][j]

\* For a caller that is always waiting when a message comes, either SDK is a
\* ChunkStream: whatever fails, "done" means that nothing is missing.
StreamOf(q) ==
    INSTANCE ChunkStream WITH
        given <- Len(got[q]),
        end <- IF caller[q] \in {"done", "failed"} THEN caller[q] ELSE "open"

StreamStep(q) == StreamOf(q)!Next \/ UNCHANGED StreamOf(q)!vars

PromptCallersGetAll ==
    /\ \A q \in prompt : StreamOf(q)!Init
    /\ [][\A q \in prompt : StreamStep(q)]_vars

\* Every Python stream ends: with done, an error or a timeout, also when its
\* last message is lost (client.py:199-203).
PythonEnds == \A q \in Python : caller[q] # "idle" ~> caller[q] \in {"done", "failed"}

\* "Stream chat response" (sdk-js/README.md:73), with the streaming chunks
\* of docs/protocol.md:130-142 before "done": a stream that is done has given them all.
DoneMeansAll == \A q \in Requests : caller[q] = "done" => Len(got[q]) = Chunks
=============================================================================
