------------------------------- MODULE Connector -------------------------------
(***************************************************************************)
(* A connector (litert_connector: SignalingClient, the message handler and *)
(* room timer of run_connector, WebRTCResponder) with the signaling server *)
(* it registers at and the clients that open rooms on it.                  *)
(*                                                                         *)
(* The connector registers without a name, so each registration gets a     *)
(* node id of its own: a session.  A session the connector has left stays  *)
(* registered until the server notices, and clients may open rooms on it   *)
(* meanwhile.  The server is reduced to what the two sides see of it       *)
(* (SignalingServer has its handlers); a message it gets is handled at     *)
(* once, a message it sends waits in inbox or toClient to be read.         *)
(*                                                                         *)
(* A room has a client of its own.  By docs/protocol.md a client sends the *)
(* offer and the connector answers it ("offering"); the clients of the     *)
(* SDKs wait for an offer of the node ("python", "js").                    *)
(***************************************************************************)
EXTENDS Integers, Sequences, FiniteSets

CONSTANTS
    Rooms,          \* bound of the model: the rooms ever created
    MaxSessions,    \* bound of the model: how often the connector registers
    MaxDelay,       \* _max_reconnect_delay
    Kinds,          \* which kinds of client there are
    Trickle,        \* the rooms whose client sends candidates after its offer
    Leavers,        \* bound of the model: the rooms whose client may leave
    None

ASSUME ConnectorAssumption ==
    /\ None \notin Rooms /\ Trickle \subseteq Rooms /\ Leavers \subseteq Rooms
    /\ MaxSessions \in Nat /\ MaxDelay \in Nat \ {0}
    /\ Kinds \subseteq {"offering", "python", "js"}

VARIABLES
    link,       \* the SignalingClient
    delay,      \* _reconnect_delay
    session,    \* how often the connector registered; the last is its own
    registered, \* the sessions the server still has a node for
    inbox,      \* sent to the connector in its session and not yet read
    pending,    \* pending_rooms: the rooms whose timer runs
    offer,      \* the room whose offer the listener is awaiting handle_offer of
    peers,      \* WebRTCResponder._peers
    pc,         \* the RTCPeerConnection made for each room
    room,       \* the server's rooms: their session, and whether they exist
    client,     \* the client of each room
    cand,       \* the client's ICE candidate
    toClient    \* sent to each client and not yet read

nodeVars == <<pending, offer, peers, pc>>
serverVars == <<registered, room, toClient>>
clientVars == <<client, cand>>
vars == <<link, delay, session, inbox, nodeVars, serverVars, clientVars>>

(* connecting  a connect() task runs; up; broken: the connection is lost   *)
(* and the listener has not noticed; dead: the connect() task raised;      *)
(* stopped: the process ended.                                             *)
Links == {"connecting", "up", "broken", "dead", "stopped"}

(* idle; of its kind: got room_created; offered, answered; connected;      *)
(* stuck: a promise that nothing will settle; closed: was told             *)
(* room_closed; failed: an error was raised to the caller; cut: the server *)
(* ended the client's connection; gone: the client left.                   *)
Unanswered == Kinds \cup {"offered"}
Clients == Unanswered \cup
    {"idle", "answered", "connected", "stuck", "closed", "failed", "cut", "gone"}

Sessions == 1..MaxSessions
Message == [type : {"new_room", "sdp_offer", "ice_candidate", "room_closed"}, room : Rooms]

TypeOK ==
    /\ link \in Links
    /\ delay \in 1..MaxDelay
    /\ session \in 0..MaxSessions
    /\ registered \subseteq 1..session
    /\ inbox \in Seq(Message)
    /\ pending \subseteq Rooms
    /\ offer \in Rooms \cup {None}
    /\ peers \subseteq Rooms
    /\ pc \in [Rooms -> {"none", "checking", "connected", "closed"}]
    /\ room \in [Rooms -> [session : Sessions, live : BOOLEAN] \cup {None}]
    /\ client \in [Rooms -> Clients]
    /\ cand \in [Rooms -> {"none", "sent", "added", "ignored"}]
    /\ toClient \in [Rooms -> Seq({"sdp_answer", "room_closed"})]

Init ==
    /\ link = "connecting" /\ delay = 1
    /\ session = 0 /\ registered = {} /\ inbox = <<>>
    /\ pending = {} /\ offer = None /\ peers = {}
    /\ pc = [r \in Rooms |-> "none"]
    /\ room = [r \in Rooms |-> None]
    /\ client = [r \in Rooms |-> "idle"]
    /\ cand = [r \in Rooms |-> "none"]
    /\ toClient = [r \in Rooms |-> <<>>]

-----------------------------------------------------------------------------
(* The server. *)

Open(r) == room[r] # None /\ room[r].live

\* Is a message to session s read by the connector one day, if it stays up?
Reaches(s) == s = session /\ link = "up"

\* inbox after message m was sent on the connection of session s.
Sent(s, m) == IF Reaches(s) THEN Append(inbox, m) ELSE inbox

Closed(R) == [r \in Rooms |-> IF r \in R THEN [room[r] EXCEPT !.live = FALSE] ELSE room[r]]

\* A client's handler ends: a send to a node raised, or the client left.  Its
\* room is popped, and the node is not told.
ClientCut(r) ==
    /\ client' = [client EXCEPT ![r] = "cut"]
    /\ room' = Closed({r})
    /\ toClient' = [toClient EXCEPT ![r] = <<>>]
    /\ UNCHANGED <<link, delay, session, registered, inbox, nodeVars, cand>>

ServerForgetsClient(r) ==
    /\ client[r] = "gone" /\ Open(r)
    /\ room' = Closed({r})
    /\ UNCHANGED <<link, delay, session, registered, inbox, nodeVars, clientVars, toClient>>

\* A node's handler ends: the heartbeat or the network closed its connection,
\* or a send of its own raised.  Its rooms are popped, their clients not told.
SessionEnds(s) ==
    /\ registered' = registered \ {s}
    /\ room' = Closed({r \in Rooms : Open(r) /\ room[r].session = s})

ServerForgetsSession(s) ==
    /\ s \in registered /\ ~Reaches(s)
    /\ SessionEnds(s)
    /\ UNCHANGED <<link, delay, session, inbox, nodeVars, clientVars, toClient>>

-----------------------------------------------------------------------------
(* SignalingClient *)

\* A connect() task that has registrations left; the last of them is the last
\* thing the model lets the connector do.
Connecting == link = "connecting" /\ session < MaxSessions

\* auth_ok, and the registration that follows it.
Register ==
    /\ Connecting
    /\ link' = "up" /\ delay' = 1
    /\ session' = session + 1
    /\ registered' = registered \cup {session'}
    /\ inbox' = <<>>
    /\ UNCHANGED <<nodeVars, room, toClient, clientVars>>

\* Variant: the delay is not capped.
RetryUncapped ==
    /\ Connecting /\ delay <= MaxDelay
    /\ delay' = 2 * delay
    /\ UNCHANGED <<link, session, inbox, nodeVars, serverVars, clientVars>>

\* A WebSocketException or a ConnectionError: again after the delay.
Retry ==
    /\ Connecting
    /\ delay' = IF 2 * delay < MaxDelay THEN 2 * delay ELSE MaxDelay
    /\ UNCHANGED <<link, session, inbox, nodeVars, serverVars, clientVars>>

\* Any other exception of websockets.connect (an OSError of the resolver, a
\* TimeoutError of the handshake) ends the task, and nobody starts another.
ConnectDies ==
    /\ Connecting /\ session > 0
    /\ link' = "dead"
    /\ UNCHANGED <<delay, session, inbox, nodeVars, serverVars, clientVars>>

LinkBreaks ==
    /\ link = "up"
    /\ link' = "broken"
    /\ UNCHANGED <<delay, session, inbox, nodeVars, serverVars, clientVars>>

\* The listener ends, and its `finally` starts a connect() task.
ListenEnds ==
    /\ link' = "connecting"
    /\ inbox' = <<>>
    /\ UNCHANGED <<delay, session>>

LossNoticed ==
    /\ link = "broken" /\ offer = None
    /\ ListenEnds
    /\ UNCHANGED <<nodeVars, serverVars, clientVars>>

-----------------------------------------------------------------------------
(* handle_message: the listener awaits it before it reads again *)

\* Variant: the handler is started as a task, and the listener reads on.
ReadsMeanwhile(type, r) ==
    /\ link \in {"up", "broken"}
    /\ inbox # <<>> /\ Head(inbox) = [type |-> type, room |-> r]
    /\ inbox' = Tail(inbox)
    /\ UNCHANGED <<link, delay, session>>

Reads(type, r) ==
    /\ link \in {"up", "broken"} /\ offer = None
    /\ inbox # <<>> /\ Head(inbox) = [type |-> type, room |-> r]
    /\ inbox' = Tail(inbox)
    /\ UNCHANGED <<link, delay, session>>

NewRoom(r) ==
    /\ Reads("new_room", r)
    /\ pending' = pending \cup {r}
    /\ UNCHANGED <<offer, peers, pc, serverVars, clientVars>>

\* Variant: the timer goes on while the offer is answered.
OfferBeginsTimed(r) ==
    /\ Reads("sdp_offer", r)
    /\ offer' = r
    /\ UNCHANGED <<pending, peers, pc, serverVars, clientVars>>

\* The room's timer is cancelled, and handle_offer awaits the descriptions.
OfferBegins(r) ==
    /\ Reads("sdp_offer", r)
    /\ pending' = pending \ {r}
    /\ offer' = r
    /\ UNCHANGED <<peers, pc, serverVars, clientVars>>

\* handle_offer returns and sdp_answer is sent; the server forwards it if the
\* room still exists.  The forward may raise when the client has just left, and
\* what ends then is the handler of the node.
OfferAnswered(r) ==
    /\ offer = r
    /\ offer' = None
    /\ peers' = peers \cup {r}
    /\ pc' = [pc EXCEPT ![r] = "checking"]
    /\ \/ /\ toClient' = IF link = "up" /\ Open(r) /\ client[r] # "gone"
                         THEN [toClient EXCEPT ![r] = Append(@, "sdp_answer")]
                         ELSE toClient
          /\ UNCHANGED <<link, registered, room>>
       \/ /\ link = "up" /\ Open(r) /\ client[r] = "gone"
          /\ link' = "broken"
          /\ SessionEnds(session)
          /\ UNCHANGED toClient
    /\ UNCHANGED <<delay, session, inbox, pending, clientVars>>

\* handle_offer raises: that ends the listener, on a connection that is still
\* open.  The server keeps the session until its heartbeat misses the pings.
OfferFails(r) ==
    /\ offer = r
    /\ offer' = None
    /\ ListenEnds
    /\ UNCHANGED <<pending, peers, pc, serverVars, clientVars>>

IceCandidate(r) ==
    /\ Reads("ice_candidate", r)
    /\ cand' = [cand EXCEPT ![r] = IF r \in peers THEN "added" ELSE "ignored"]
    /\ UNCHANGED <<nodeVars, serverVars, client>>

\* The timer is cancelled; a peer connection of the room stays.
RoomClosed(r) ==
    /\ Reads("room_closed", r)
    /\ pending' = pending \ {r}
    /\ UNCHANGED <<offer, peers, pc, serverVars, clientVars>>

\* Variant: the room is forgotten and the server is not told.
TimerFiresSilently(r) ==
    /\ r \in pending
    /\ pending' = pending \ {r}
    /\ UNCHANGED <<link, delay, session, inbox, offer, peers, pc, serverVars, clientVars>>

\* _room_timeout: close_room is sent on whatever connection there is, and the
\* server tells both sides before it pops the room.
TimerFires(r) ==
    /\ r \in pending
    /\ pending' = pending \ {r}
    /\ IF link = "up" /\ Open(r)
       THEN /\ room' = Closed({r})
            /\ toClient' = [toClient EXCEPT ![r] = Append(@, "room_closed")]
            /\ inbox' = Sent(room[r].session, [type |-> "room_closed", room |-> r])
       ELSE UNCHANGED <<room, toClient, inbox>>
    /\ UNCHANGED <<link, delay, session, registered, offer, peers, pc, clientVars>>

-----------------------------------------------------------------------------
(* WebRTCResponder, with aiortc *)

PcConnects(r) ==
    /\ pc[r] = "checking" /\ client[r] = "answered"
    /\ pc' = [pc EXCEPT ![r] = "connected"]
    /\ client' = [client EXCEPT ![r] = "connected"]
    /\ UNCHANGED <<link, delay, session, inbox, pending, offer, peers, serverVars, cand>>

\* Variant: a failed connection is removed only while its room exists.
PcFailsInRoom(r) ==
    /\ pc[r] \in {"checking", "connected"} /\ Open(r)
    /\ pc' = [pc EXCEPT ![r] = "closed"]
    /\ peers' = peers \ {r}
    /\ UNCHANGED <<link, delay, session, inbox, pending, offer, serverVars, clientVars>>

\* No pair of candidates works, or the other side is gone: the callbacks of the
\* connection call _remove_peer, which finds it under its room.
PcFails(r) ==
    /\ pc[r] \in {"checking", "connected"}
    /\ pc' = [pc EXCEPT ![r] = "closed"]
    /\ peers' = peers \ {r}
    /\ UNCHANGED <<link, delay, session, inbox, pending, offer, serverVars, clientVars>>

\* The client's own end of the connection fails after that.
ClientPcFails(r) ==
    /\ pc[r] = "closed" /\ client[r] \in {"answered", "connected"}
    /\ client' = [client EXCEPT ![r] = "failed"]
    /\ UNCHANGED <<link, delay, session, inbox, nodeVars, serverVars, cand>>

\* The end of run_connector: close() and cleanup().
Shutdown ==
    /\ link # "stopped"
    /\ link' = "stopped"
    /\ inbox' = <<>> /\ pending' = {} /\ offer' = None /\ peers' = {}
    /\ pc' = [r \in Rooms |-> IF r \in peers THEN "closed" ELSE pc[r]]
    /\ UNCHANGED <<delay, session, serverVars, clientVars>>

-----------------------------------------------------------------------------
(* The clients *)

\* create_room or select_model: room_created goes to the client, then new_room
\* to the node, or raises.
CreateRoom(r, s) ==
    /\ client[r] = "idle" /\ s \in registered
    /\ \/ /\ room' = [room EXCEPT ![r] = [session |-> s, live |-> TRUE]]
          /\ \E k \in Kinds : client' = [client EXCEPT ![r] = k]
          /\ inbox' = Sent(s, [type |-> "new_room", room |-> r])
       \/ /\ ~Reaches(s)
          /\ room' = [room EXCEPT ![r] = [session |-> s, live |-> FALSE]]
          /\ client' = [client EXCEPT ![r] = "cut"]
          /\ UNCHANGED inbox
    /\ UNCHANGED <<link, delay, session, registered, nodeVars, cand, toClient>>

\* A client by the protocol sends its offer, which is forwarded if the room
\* still exists, ...
SendOffer(r) ==
    /\ client[r] = "offering"
    /\ \/ /\ client' = [client EXCEPT ![r] = "offered"]
          /\ inbox' = IF Open(r)
                      THEN Sent(room[r].session, [type |-> "sdp_offer", room |-> r])
                      ELSE inbox
          /\ UNCHANGED <<link, delay, session, registered, nodeVars, cand, room, toClient>>
       \/ Open(r) /\ ~Reaches(room[r].session) /\ ClientCut(r)

\* ... and then its candidates, unless the offer has them.  (One that cannot be
\* forwarded is dropped.)
SendCandidate(r) ==
    /\ r \in Trickle
    /\ client[r] \in {"offered", "answered"} /\ cand[r] = "none"
    /\ Open(r) /\ Reaches(room[r].session)
    /\ cand' = [cand EXCEPT ![r] = "sent"]
    /\ inbox' = Sent(session, [type |-> "ice_candidate", room |-> r])
    /\ UNCHANGED <<link, delay, session, nodeVars, serverVars, client>>

\* What a client becomes when it reads m.  An SDK client that waits for an
\* offer and reads room_closed: in Python the message is taken for the offer's
\* place and a TimeoutError follows; in JavaScript the room is forgotten and
\* the promise of ensureDataChannel stays.
After(r, m) ==
    IF m = "sdp_answer" THEN IF client[r] = "offered" THEN "answered" ELSE client[r]
    ELSE IF client[r] \in {"python", "failed"} THEN "failed"
    ELSE IF client[r] = "js" THEN "stuck" ELSE "closed"

ClientReads(r) ==
    /\ toClient[r] # <<>> /\ client[r] \notin {"cut", "gone"}
    /\ client' = [client EXCEPT ![r] = After(r, Head(toClient[r]))]
    /\ toClient' = [toClient EXCEPT ![r] = Tail(@)]
    /\ UNCHANGED <<link, delay, session, inbox, nodeVars, registered, room, cand>>

\* Python: chat receives on the websocket on which _receive_loop is receiving.
ChatReceiveRaises(r) ==
    /\ client[r] = "python"
    /\ client' = [client EXCEPT ![r] = "failed"]
    /\ UNCHANGED <<link, delay, session, inbox, nodeVars, serverVars, cand>>

\* The client leaves before its chat has ended one way or the other.
ClientLeaves(r) ==
    /\ r \in Leavers
    /\ client[r] \in Unanswered \cup {"answered", "connected"}
    /\ client' = [client EXCEPT ![r] = "gone"]
    /\ toClient' = [toClient EXCEPT ![r] = <<>>]
    /\ UNCHANGED <<link, delay, session, inbox, nodeVars, registered, room, cand>>

Next ==
    \/ Register \/ Retry \/ ConnectDies \/ LinkBreaks \/ LossNoticed \/ Shutdown
    \/ \E s \in Sessions : ServerForgetsSession(s)
    \/ \E r \in Rooms :
          \/ NewRoom(r) \/ OfferBegins(r) \/ OfferAnswered(r) \/ OfferFails(r)
          \/ IceCandidate(r) \/ RoomClosed(r) \/ TimerFires(r)
          \/ PcConnects(r) \/ PcFails(r) \/ ClientPcFails(r)
          \/ \E s \in Sessions : CreateRoom(r, s)
          \/ SendOffer(r) \/ SendCandidate(r) \/ ClientReads(r)
          \/ ChatReceiveRaises(r) \/ ClientLeaves(r) \/ ServerForgetsClient(r)

Spec == Init /\ [][Next]_vars

\* Tasks that are ready run, timers fire, a connection that is lost or silent
\* is noticed, and ICE decides: it connects or fails, and fails when the other
\* side is not there.  A client need not send its offer.
Fairness ==
    /\ WF_vars(LossNoticed)
    /\ \A s \in Sessions : WF_vars(ServerForgetsSession(s))
    /\ \A r \in Rooms :
          /\ WF_vars(NewRoom(r) \/ OfferBegins(r) \/ IceCandidate(r) \/ RoomClosed(r))
          /\ WF_vars(OfferAnswered(r) \/ OfferFails(r))
          /\ WF_vars(TimerFires(r))
          /\ WF_vars(pc[r] = "checking" /\ (PcConnects(r) \/ PcFails(r)))
          /\ WF_vars(client[r] # "connected" /\ PcFails(r))
          /\ WF_vars(ClientPcFails(r))
          /\ WF_vars(ClientReads(r))

FairSpec == Spec /\ Fairness

-----------------------------------------------------------------------------
\* A room's timer never runs once its offer is being answered or was: the
\* connector does not close a room it has a peer for (cli.py:42-50, 66-68).
NoTimerForAnswered == \A r \in pending : offer # r /\ pc[r] = "none"

\* A client's candidate follows its offer, and finds the peer made for that
\* offer unless the peer has been removed again: add_ice_candidate ignores
\* candidates that come too early (webrtc_responder.py:246-249).
CandidateFindsPeer == \A r \in Rooms : cand[r] = "ignored" => pc[r] = "closed"

\* The room was popped without a word to its client (app.py:784-788).
LostSilently(r) == room[r] # None /\ ~room[r].live /\ toClient[r] = <<>>

\* A client whose room was created does not wait for ever, whether or not it
\* sends its offer, loses its node or meets a connector that reconnects: it is
\* connected, is told, or has lost its room when a connection ended.
HandshakeSettles ==
    \A r \in Rooms :
        client[r] \in Unanswered \cup {"answered"} ~>
            \/ client[r] \in {"connected", "closed", "failed", "cut", "gone"}
            \/ LostSilently(r)

\* No peer connection stays for a client that is not there, although nobody
\* removes the peer when the room is closed (cli.py:85-90).
PeersFreed ==
    \A r \in Rooms : client[r] \in {"closed", "failed", "cut", "gone"} ~> r \notin peers

\* "SDP offer" to the phone, "SDP answer" to the PC, then "WEBRTC P2P"
\* (README.md:57-62): a client in a room of a connector that stays connected
\* comes to an offer that is answered.
DescriptionsExchanged ==
    \A r \in Rooms :
        client[r] \in Unanswered ~>
            client[r] \in {"answered", "connected", "cut", "gone"} \/ link # "up"
=============================================================================
