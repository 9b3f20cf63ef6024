--------------------------- MODULE SignalingServer ---------------------------
(***************************************************************************)
(* The signaling server (litert_signaling/app.py): the NodeRegistry, with  *)
(* the handler of each WebSocket connection of /signal.                    *)
(*                                                                         *)
(* Every method of NodeRegistry runs without a suspension (nothing is      *)
(* awaited under its lock); a handler suspends when it receives and each   *)
(* time it sends.  The actions are what a handler does from one suspension *)
(* to the next.  A send to a connection whose peer is gone may raise, and  *)
(* an exception, whoever it is about, ends the handler that was sending.   *)
(*                                                                         *)
(* One API key is shared by the nodes.  Only messages that their sender    *)
(* has a reason to send are modelled: a client speaks of its own rooms, a  *)
(* node of the rooms of its id.                                            *)
(***************************************************************************)
EXTENDS Integers, FiniteSets

CONSTANTS
    Conns,      \* connections, each used once
    Names,      \* the names nodes register under
    KeyId,      \* the id of the API key in the database
    RoomIds,    \* bound of the model: the rooms ever created
    MaxLoads,   \* the values of max_sessions
    OwnNames,   \* TRUE: a node registers a name nobody has, without its key
    None

ASSUME SignalingAssumption ==
    /\ KeyId \notin Names
    /\ None \notin Conns /\ None \notin Names /\ None # KeyId
    /\ MaxLoads \subseteq Nat
    /\ OwnNames \in BOOLEAN

VARIABLES
    sock,       \* each connection, as the server sees it
    task,       \* where its handler is suspended
    role,       \* what it authenticated as
    ident,      \* the handler's local node_id
    nodes,      \* NodeRegistry._nodes
    rooms       \* every room created so far; _rooms is the live ones

vars == <<sock, task, role, ident, nodes, rooms>>

NodeIds == Names \cup {KeyId}

NodeInfo == [ws : Conns, keyed : BOOLEAN, load : Nat, max : MaxLoads]
Room == [node : NodeIds, client : Conns, live : BOOLEAN]

ASSUME NoneAssumption == None \notin NodeInfo /\ None \notin Room

(* sock: "idle" not yet connected; "open"; "gone" the peer left, or the    *)
(* heartbeat closed the connection, and the handler has not noticed;       *)
(* "ended" the handler returned.                                           *)
(* task: "receive"; "authenticated" sending auth_ok to a node; "notify"    *)
(* sent room_created, about to send new_room to the node's connection ws;  *)
(* "closing" sending room_closed for room.                                 *)
Tasks ==
    [at : {"receive", "authenticated"}]
        \cup [at : {"notify"}, ws : Conns]
        \cup [at : {"closing"}, room : RoomIds]

TypeOK ==
    /\ sock \in [Conns -> {"idle", "open", "gone", "ended"}]
    /\ task \in [Conns -> Tasks]
    /\ role \in [Conns -> {"none", "node", "client"}]
    /\ ident \in [Conns -> NodeIds \cup {None}]
    /\ nodes \in [NodeIds -> NodeInfo \cup {None}]
    /\ rooms \in [RoomIds -> Room \cup {None}]

Receive == [at |-> "receive"]

Init ==
    /\ sock = [c \in Conns |-> "idle"]
    /\ task = [c \in Conns |-> Receive]
    /\ role = [c \in Conns |-> "none"]
    /\ ident = [c \in Conns |-> None]
    /\ nodes = [n \in NodeIds |-> None]
    /\ rooms = [r \in RoomIds |-> None]

-----------------------------------------------------------------------------
Registered == {n \in NodeIds : nodes[n] # None}
Live == {r \in RoomIds : rooms[r] # None /\ rooms[r].live}
RoomsOf(n) == {r \in Live : rooms[r].node = n}

\* A handler at its receive_text gets a message, perhaps one that its peer sent
\* before it left.
Gets(c) == sock[c] \in {"open", "gone"} /\ task[c] = Receive

Goto(c, t) == task' = [task EXCEPT ![c] = t]

\* Variant: the load may go below zero.
CloseRoomsUnclamped(gone, left) ==
    /\ rooms' = [r \in RoomIds |->
                    IF r \in gone THEN [rooms[r] EXCEPT !.live = FALSE] ELSE rooms[r]]
    /\ nodes' = [n \in NodeIds |->
                    IF n \notin left THEN None
                    ELSE [nodes[n] EXCEPT
                            !.load = @ - Cardinality({r \in gone : rooms[r].node = n})]]

\* unregister_node, then close_room for each room of the client or the node,
\* in the `finally` of a handler: the rooms of `gone` are popped, and the nodes
\* that remain lose as many from their load, never below 0.
CloseRooms(gone, left) ==
    /\ rooms' = [r \in RoomIds |->
                    IF r \in gone THEN [rooms[r] EXCEPT !.live = FALSE] ELSE rooms[r]]
    /\ nodes' = [n \in NodeIds |->
                    IF n \notin left THEN None
                    ELSE LET closed == Cardinality({r \in gone : rooms[r].node = n})
                             load == nodes[n].load
                         IN  [nodes[n] EXCEPT
                                !.load = IF closed < load THEN load - closed ELSE 0]]

\* Variants: an ending handler forgets the rooms of its node, the rooms of its
\* client, or to unregister its node.
EndKeepingNodeRooms(c) ==
    /\ sock' = [sock EXCEPT ![c] = "ended"]
    /\ Goto(c, Receive)
    /\ CloseRooms({r \in Live : rooms[r].client = c}, Registered \ {ident[c]})
    /\ UNCHANGED <<role, ident>>

EndKeepingClientRooms(c) ==
    /\ sock' = [sock EXCEPT ![c] = "ended"]
    /\ Goto(c, Receive)
    /\ CloseRooms({r \in Live : rooms[r].node = ident[c]}, Registered \ {ident[c]})
    /\ UNCHANGED <<role, ident>>

EndKeepingNode(c) ==
    /\ sock' = [sock EXCEPT ![c] = "ended"]
    /\ Goto(c, Receive)
    /\ CloseRooms({r \in Live : rooms[r].client = c \/ rooms[r].node = ident[c]}, Registered)
    /\ UNCHANGED <<role, ident>>

\* The handler leaves its loop, whatever the reason.
End(c) ==
    /\ sock' = [sock EXCEPT ![c] = "ended"]
    /\ Goto(c, Receive)
    /\ CloseRooms({r \in Live : rooms[r].client = c \/ rooms[r].node = ident[c]},
                  Registered \ {ident[c]})
    /\ UNCHANGED <<role, ident>>

\* Can a send to connection w succeed, and can it raise?
SendWorks(w) == sock[w] \in {"open", "gone"}
SendRaises(w) == sock[w] \in {"gone", "ended"}

-----------------------------------------------------------------------------
Connect(c) ==
    /\ sock[c] = "idle"
    /\ sock' = [sock EXCEPT ![c] = "open"]
    /\ UNCHANGED <<task, role, ident, nodes, rooms>>

\* Variant: any registered node is found, whatever its key.
AuthAnyNode(c) ==
    /\ Gets(c) /\ role[c] = "none"
    /\ \E n \in IF Registered = {} THEN {KeyId} ELSE Registered :
          ident' = [ident EXCEPT ![c] = n]
    /\ role' = [role EXCEPT ![c] = "node"]
    /\ Goto(c, [at |-> "authenticated"])
    /\ UNCHANGED <<sock, nodes, rooms>>

\* auth: authenticate_node answers with the id of a registered node that has
\* this key, else with the key's own id in the database.
AuthNode(c) ==
    /\ Gets(c) /\ role[c] = "none"
    /\ LET known == {n \in Registered : nodes[n].keyed}
       IN  \E n \in IF known = {} THEN {KeyId} ELSE known :
              ident' = [ident EXCEPT ![c] = n]
    /\ role' = [role EXCEPT ![c] = "node"]
    /\ Goto(c, [at |-> "authenticated"])
    /\ UNCHANGED <<sock, nodes, rooms>>

\* auth_ok was sent; update_node_load(nid) counts the node's rooms.
AuthenticatedNode(c) ==
    /\ task[c].at = "authenticated" /\ SendWorks(c)
    /\ nodes' = [n \in NodeIds |->
                    IF n = ident[c] /\ n \in Registered
                    THEN [nodes[n] EXCEPT !.load = Cardinality(RoomsOf(n))]
                    ELSE nodes[n]]
    /\ Goto(c, Receive)
    /\ UNCHANGED <<sock, role, ident, rooms>>

AuthClient(c) ==
    /\ Gets(c) /\ role[c] = "none"
    /\ role' = [role EXCEPT ![c] = "client"]
    /\ UNCHANGED <<sock, task, ident, nodes, rooms>>

\* Variant: an update starts the load afresh.
UpdateNodeAfresh(c, max) ==
    /\ Gets(c) /\ ident[c] \in Registered
    /\ nodes' = [nodes EXCEPT ![ident[c]].max = max, ![ident[c]].load = 0]
    /\ UNCHANGED <<sock, task, role, ident, rooms>>

\* register, when the handler's node_id is registered: its NodeInfo is updated
\* in place, and keeps the connection it has.
UpdateNode(c, max) ==
    /\ Gets(c) /\ ident[c] \in Registered
    /\ nodes' = [nodes EXCEPT ![ident[c]].max = max]
    /\ UNCHANGED <<sock, task, role, ident, rooms>>

\* Variant: the handler keeps the node_id it authenticated with.
RegisterNodeUnbound(c, name, keyed, max) ==
    /\ Gets(c) /\ role[c] = "node" /\ ident[c] \notin Registered
    /\ OwnNames => name \notin Registered /\ ~keyed
    /\ nodes' = [nodes EXCEPT
                    ![name] = [ws |-> c, keyed |-> keyed, load |-> 0, max |-> max]]
    /\ UNCHANGED <<sock, task, role, ident, rooms>>

\* register, otherwise: a new NodeInfo takes the name, whoever had it.
RegisterNode(c, name, keyed, max) ==
    /\ Gets(c) /\ role[c] = "node" /\ ident[c] \notin Registered
    /\ OwnNames => name \notin Registered /\ ~keyed
    /\ nodes' = [nodes EXCEPT
                    ![name] = [ws |-> c, keyed |-> keyed, load |-> 0, max |-> max]]
    /\ ident' = [ident EXCEPT ![c] = name]
    /\ UNCHANGED <<sock, task, role, rooms>>

\* Variant: an off-by-one test admits one room too many.
NewRoomAtCapacity(c, n) ==
    /\ nodes[n].load <= nodes[n].max
    /\ \E r \in RoomIds :
          /\ rooms[r] = None
          /\ rooms' = [rooms EXCEPT ![r] = [node |-> n, client |-> c, live |-> TRUE]]
    /\ nodes' = [nodes EXCEPT ![n].load = @ + 1]
    /\ Goto(c, [at |-> "notify", ws |-> nodes[n].ws])
    /\ UNCHANGED <<sock, role, ident>>

\* create_room with a free room id, and room_created sent to the client.
NewRoom(c, n) ==
    /\ nodes[n].load < nodes[n].max
    /\ \E r \in RoomIds :
          /\ rooms[r] = None
          /\ rooms' = [rooms EXCEPT ![r] = [node |-> n, client |-> c, live |-> TRUE]]
    /\ nodes' = [nodes EXCEPT ![n].load = @ + 1]
    /\ Goto(c, [at |-> "notify", ws |-> nodes[n].ws])
    /\ UNCHANGED <<sock, role, ident>>

\* create_room or select_model with a node id in the model's name.
CreateRoom(c) ==
    /\ Gets(c) /\ role[c] = "client"
    /\ \E n \in Registered : NewRoom(c, n)

\* select_model with a bare model name: the least loaded node that has room
\* (every node has the model; the dict's order among equals is not modelled).
SelectModel(c) ==
    /\ Gets(c) /\ role[c] = "client"
    /\ \E n \in Registered :
          /\ \A o \in Registered :
                nodes[o].load < nodes[o].max => nodes[n].load <= nodes[o].load
          /\ NewRoom(c, n)

\* new_room is sent on the connection the NodeInfo had when the room was made.
Notified(c) ==
    /\ task[c].at = "notify" /\ SendWorks(task[c].ws)
    /\ Goto(c, Receive)
    /\ UNCHANGED <<sock, role, ident, nodes, rooms>>

\* A send raises: to the handler's own peer, or new_room to the node.
SendFails(c) ==
    /\ sock[c] # "ended"
    /\ \/ task[c].at \in {"authenticated", "notify"} /\ SendRaises(c)
       \/ task[c].at = "notify" /\ SendRaises(task[c].ws)
    /\ End(c)

\* sdp_offer of a client or sdp_answer of a node that cannot be forwarded.
\* (Forwarded, they change nothing here.)
ForwardFails(c) ==
    /\ Gets(c)
    /\ \E r \in Live :
          \/ rooms[r].client = c /\ SendRaises(nodes[rooms[r].node].ws)
          \/ rooms[r].node = ident[c] /\ SendRaises(rooms[r].client)
    /\ End(c)

\* close_room: room_closed is sent to both sides, failures ignored ...
AskClose(c) ==
    /\ Gets(c)
    /\ \E r \in Live :
          /\ rooms[r].client = c \/ rooms[r].node = ident[c]
          /\ Goto(c, [at |-> "closing", room |-> r])
    /\ UNCHANGED <<sock, role, ident, nodes, rooms>>

\* ... and then the room is closed, if it still exists.
CloseRoom(c) ==
    /\ task[c].at = "closing"
    /\ CloseRooms({task[c].room} \cap Live, Registered)
    /\ Goto(c, Receive)
    /\ UNCHANGED <<sock, role, ident>>

\* The peer leaves or its network does, or the HeartbeatMonitor closes a
\* connection it believes stale, which may be any: its times are left out.
PeerLost(c) ==
    /\ sock[c] = "open"
    /\ sock' = [sock EXCEPT ![c] = "gone"]
    /\ UNCHANGED <<task, role, ident, nodes, rooms>>

\* receive_text raises WebSocketDisconnect.
ReceiveFails(c) ==
    /\ sock[c] = "gone" /\ task[c] = Receive
    /\ End(c)

Next ==
    \E c \in Conns :
        \/ Connect(c) \/ AuthNode(c) \/ AuthenticatedNode(c) \/ AuthClient(c)
        \/ \E max \in MaxLoads :
              \/ UpdateNode(c, max)
              \/ \E name \in Names, keyed \in BOOLEAN : RegisterNode(c, name, keyed, max)
        \/ CreateRoom(c) \/ SelectModel(c) \/ Notified(c)
        \/ SendFails(c) \/ ForwardFails(c)
        \/ AskClose(c) \/ CloseRoom(c)
        \/ PeerLost(c) \/ ReceiveFails(c)

Spec == Init /\ [][Next]_vars

\* A handler that can go on does: a send completes or raises, and a lost
\* connection is noticed.
Fairness ==
    \A c \in Conns :
        /\ WF_vars(AuthenticatedNode(c) \/ Notified(c) \/ SendFails(c))
        /\ WF_vars(CloseRoom(c))
        /\ WF_vars(ReceiveFails(c))

FairSpec == Spec /\ Fairness

-----------------------------------------------------------------------------
\* Every room's node is registered: the ice_candidate handler takes the ws of
\* get_node(room.node_id) without looking (app.py:745-747).
RoomHasNode == \A r \in Live : rooms[r].node \in Registered

\* Every room's client still has its handler, which will close the room when it
\* ends (app.py:786-788): no room outlives both its sides.
RoomHasClient == \A r \in Live : sock[rooms[r].client] \in {"open", "gone"}

\* Every registered node belongs to a connection whose handler has not ended
\* and will unregister it (app.py:784-785): no entry of _nodes is an orphan.
NodeHasHandler ==
    \A n \in Registered :
        LET c == nodes[n].ws
        IN  sock[c] \in {"open", "gone"} /\ ident[c] = n

\* When nodes have names of their own, a node's load is the number of its rooms.
LoadIsRooms == \A n \in Registered : nodes[n].load = Cardinality(RoomsOf(n))

\* "Node at capacity should reject additional rooms" (test_e2e_local.py:171):
\* a node with max_sessions rooms gets no other.
CapacityRespected ==
    [][\A n \in Registered :
          Cardinality(RoomsOf(n)) >= nodes[n].max
              => Cardinality(RoomsOf(n)') <= Cardinality(RoomsOf(n))]_vars

\* When nodes have names of their own, a node leaves the registry only with its
\* own connection.
OnlyOwnHandlerUnregisters ==
    [][\A n \in Registered :
          n \notin Registered' => sock'[nodes[n].ws] = "ended"]_vars

\* A lost connection is forgotten, with its node and its rooms.
LostIsForgotten ==
    \A c \in Conns :
        sock[c] = "gone" ~>
            /\ sock[c] = "ended"
            /\ \A n \in Registered : nodes[n].ws # c
            /\ \A r \in Live : rooms[r].client # c
=============================================================================
