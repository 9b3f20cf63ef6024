------------------------- MODULE SignalingServerProofs -------------------------
(***************************************************************************)
(* SignalingServer, for any connections, names, rooms and values of        *)
(* max_sessions.                                                           *)
(***************************************************************************)
EXTENDS SignalingServer, FiniteSetTheorems, TLAPS

-----------------------------------------------------------------------------
(* The inductive invariants.                                               *)

\* Who a connection is: nobody before it authenticates, and an id for a node only.
Identified ==
    \A c \in Conns :
        /\ ident[c] # None <=> role[c] = "node"
        /\ sock[c] = "idle" => role[c] = "none" /\ task[c] = Receive

\* Rooms are made one at a time, by clients.
FewRooms == IsFiniteSet(Live) /\ \A r \in Live : role[rooms[r].client] = "client"

ServerInv ==
    /\ TypeOK
    /\ Identified /\ FewRooms
    /\ RoomHasNode /\ RoomHasClient /\ NodeHasHandler

\* When nodes have names of their own, a name is registered exactly as long as
\* the one connection that registered it is served.
OwnedNames ==
    /\ KeyId \notin Registered
    /\ \A n \in Registered : ~nodes[n].keyed
    /\ \A c \in Conns :
          sock[c] # "ended" /\ ident[c] \in Names =>
              ident[c] \in Registered /\ nodes[ident[c]].ws = c

OwnInv == ServerInv /\ OwnedNames /\ LoadIsRooms

-----------------------------------------------------------------------------
(* What the operations make of the registry.                               *)

LEMMA RegistryTypes ==
    ASSUME TypeOK
    PROVE  /\ Registered \subseteq NodeIds /\ Live \subseteq RoomIds
           /\ \A n \in Registered : nodes[n] \in NodeInfo
           /\ \A r \in Live : rooms[r] \in Room /\ rooms[r].live
           /\ None \notin NodeIds
  BY SignalingAssumption DEF TypeOK, Registered, Live, NodeIds

LEMMA FewRoomsOf ==
    ASSUME IsFiniteSet(Live), NEW n
    PROVE  IsFiniteSet(RoomsOf(n)) /\ Cardinality(RoomsOf(n)) \in Nat
<1>1. RoomsOf(n) \subseteq Live
  BY DEF RoomsOf
<1> QED
  BY <1>1, FS_Subset, FS_CardinalityType

LEMMA ClosingEffect ==
    ASSUME TypeOK, IsFiniteSet(Live),
           NEW gone \in SUBSET Live, NEW left \in SUBSET Registered, CloseRooms(gone, left)
    PROVE  /\ nodes' \in [NodeIds -> NodeInfo \cup {None}]
           /\ rooms' \in [RoomIds -> Room \cup {None}]
           /\ Live' = Live \ gone /\ Registered' = left
           /\ \A r \in Live' : rooms'[r] = rooms[r]
           /\ \A n \in left :
                 LET closed == Cardinality({r \in gone : rooms[r].node = n})
                     load == nodes[n].load
                 IN  nodes'[n] = [nodes[n] EXCEPT !.load = IF closed < load THEN load - closed ELSE 0]
<1>1. /\ Registered \subseteq NodeIds /\ Live \subseteq RoomIds
      /\ \A n \in Registered : nodes[n] \in NodeInfo
      /\ \A r \in Live : rooms[r] \in Room /\ rooms[r].live
  BY RegistryTypes
<1>2. /\ rooms' \in [RoomIds -> Room \cup {None}]
      /\ \A r \in RoomIds : r \notin gone => rooms'[r] = rooms[r]
      /\ \A r \in gone : rooms'[r] # None /\ ~rooms'[r].live
  <2>1. /\ DOMAIN rooms' = RoomIds
        /\ \A r \in RoomIds : r \notin gone => rooms'[r] = rooms[r]
        /\ \A r \in gone : rooms'[r] = [rooms[r] EXCEPT !.live = FALSE]
    BY <1>1 DEF CloseRooms
  <2>2. \A r \in gone : rooms'[r] \in Room /\ ~rooms'[r].live
    BY <1>1, <2>1 DEF Room
  <2>3. rooms' \in [RoomIds -> Room \cup {None}]
    BY <2>1, <2>2 DEF TypeOK, CloseRooms
  <2> QED
    BY <2>1, <2>2, <2>3, NoneAssumption
<1>3. Live' = Live \ gone
  BY <1>1, <1>2 DEF Live
<1>4. ASSUME NEW n \in left
      PROVE  /\ nodes'[n] \in NodeInfo
             /\ LET closed == Cardinality({r \in gone : rooms[r].node = n})
                    load == nodes[n].load
                IN  nodes'[n] = [nodes[n] EXCEPT !.load = IF closed < load THEN load - closed ELSE 0]
  <2> DEFINE closed == Cardinality({r \in gone : rooms[r].node = n})
             load == nodes[n].load
  <2>1. nodes'[n] = [nodes[n] EXCEPT !.load = IF closed < load THEN load - closed ELSE 0]
    BY <1>1 DEF CloseRooms
  <2>2. closed \in Nat
    <3>1. {r \in gone : rooms[r].node = n} \subseteq Live
      OBVIOUS
    <3> QED
      BY <3>1, FS_Subset, FS_CardinalityType
  <2>3. nodes[n] \in NodeInfo /\ load \in Nat
    BY <1>1 DEF NodeInfo
  <2> HIDE DEF closed, load
  <2>4. (IF closed < load THEN load - closed ELSE 0) \in Nat
    BY <2>2, <2>3
  <2>5. nodes'[n] \in NodeInfo
    BY <2>1, <2>3, <2>4 DEF NodeInfo
  <2> QED
    BY <2>1, <2>5 DEF closed, load
<1>5. /\ \A n \in NodeIds : n \notin left => nodes'[n] = None
      /\ nodes' \in [NodeIds -> NodeInfo \cup {None}]
  <2>1. \A n \in NodeIds : n \notin left => nodes'[n] = None
    BY DEF CloseRooms
  <2>2. nodes' = [n \in NodeIds |-> nodes'[n]]
    BY DEF CloseRooms
  <2>3. \A n \in NodeIds : nodes'[n] \in NodeInfo \cup {None}
    BY <1>4, <2>1
  <2> QED
    BY <2>1, <2>2, <2>3
<1>6. Registered' = left
  BY <1>1, <1>4, <1>5, NoneAssumption DEF Registered
<1> QED
  BY <1>1, <1>2, <1>3, <1>4, <1>5, <1>6

-----------------------------------------------------------------------------
(* The steps of a handler, as far as nodes and rooms are concerned.        *)

\* No room is made or closed, no node comes or goes.
Calm ==
    /\ TypeOK'
    /\ rooms' = rooms /\ Registered' = Registered
    /\ \A n \in Registered : nodes'[n].ws = nodes[n].ws /\ nodes'[n].keyed = nodes[n].keyed
    /\ \A n \in Registered : nodes'[n].load \in {nodes[n].load, Cardinality(RoomsOf(n))}
    /\ \A c \in Conns :
          /\ \/ sock'[c] = sock[c]
             \/ sock[c] \in {"idle", "open"} /\ sock'[c] \in {"open", "gone"}
          /\ sock[c] = "idle" => role'[c] = role[c] /\ ident'[c] = ident[c] /\ task'[c] = task[c]
          /\ \/ role'[c] = role[c] /\ ident'[c] = ident[c]
             \/ role[c] = "none" /\ role'[c] = "client" /\ ident'[c] = ident[c]
             \/ /\ role[c] = "none" /\ role'[c] = "node" /\ ident'[c] # None
                /\ ident'[c] \in {KeyId} \cup {n \in Registered : nodes[n].keyed}

LEMMA CalmSteps ==
    ASSUME ServerInv, NEW c \in Conns,
           \/ Connect(c) \/ AuthNode(c) \/ AuthenticatedNode(c) \/ AuthClient(c)
           \/ \E max \in MaxLoads : UpdateNode(c, max)
           \/ Notified(c) \/ AskClose(c) \/ PeerLost(c)
    PROVE  Calm
<1>1. /\ TypeOK /\ Identified /\ IsFiniteSet(Live)
      /\ Registered \subseteq NodeIds /\ Live \subseteq RoomIds
      /\ \A n \in Registered : nodes[n] \in NodeInfo
      /\ None \notin NodeIds /\ KeyId \in NodeIds
      /\ Receive \in Tasks /\ Receive.at = "receive"
  BY RegistryTypes DEF ServerInv, FewRooms, NodeIds, Tasks, Receive
<1>2. ASSUME UNCHANGED <<nodes, rooms>> PROVE Registered' = Registered
  BY <1>2 DEF Registered
<1>3. CASE Connect(c)
  BY <1>1, <1>2, <1>3 DEF Connect, Calm, TypeOK
<1>4. CASE AuthNode(c)
  <2>1. PICK n \in {KeyId} \cup {k \in Registered : nodes[k].keyed} :
           ident' = [ident EXCEPT ![c] = n]
    BY <1>4 DEF AuthNode
  <2>2. n \in NodeIds /\ n # None
    BY <1>1, <2>1
  <2>3. [at |-> "authenticated"] \in Tasks
    BY DEF Tasks
  <2>4. TypeOK'
    BY <1>1, <1>4, <2>1, <2>2, <2>3 DEF AuthNode, Goto, TypeOK
  <2> QED
    BY <1>1, <1>2, <1>4, <2>1, <2>2, <2>4 DEF AuthNode, Goto, TypeOK, Calm, Gets
<1>5. CASE AuthenticatedNode(c)
  <2>1. /\ \A n \in Registered : /\ nodes'[n] \in NodeInfo
                                 /\ nodes'[n].ws = nodes[n].ws /\ nodes'[n].keyed = nodes[n].keyed
                                 /\ nodes'[n].load \in {nodes[n].load, Cardinality(RoomsOf(n))}
        /\ \A n \in NodeIds : n \notin Registered => nodes'[n] = nodes[n]
        /\ DOMAIN nodes' = NodeIds /\ nodes' = [n \in NodeIds |-> nodes'[n]]
    <3>1. \A n \in Registered : nodes'[n] = [nodes[n] EXCEPT !.load = Cardinality(RoomsOf(n))]
                                \/ nodes'[n] = nodes[n]
      BY <1>1, <1>5 DEF AuthenticatedNode
    <3>2. \A n \in Registered : Cardinality(RoomsOf(n)) \in Nat
      BY <1>1, FewRoomsOf
    <3>3. \A n \in Registered : /\ nodes'[n] \in NodeInfo
                                /\ nodes'[n].ws = nodes[n].ws /\ nodes'[n].keyed = nodes[n].keyed
                                /\ nodes'[n].load \in {nodes[n].load, Cardinality(RoomsOf(n))}
      BY <1>1, <3>1, <3>2 DEF NodeInfo
    <3> QED
      BY <1>5, <3>3 DEF AuthenticatedNode
  <2>2. nodes' \in [NodeIds -> NodeInfo \cup {None}] /\ Registered' = Registered
    BY <1>1, <2>1, NoneAssumption DEF TypeOK, Registered
  <2>3. TypeOK'
    BY <1>1, <1>5, <2>2 DEF AuthenticatedNode, Goto, TypeOK
  <2>4. sock[c] # "idle"
    BY <1>1, <1>5 DEF AuthenticatedNode, SendWorks
  <2> QED
    BY <1>1, <1>5, <2>1, <2>2, <2>3, <2>4 DEF AuthenticatedNode, Goto, Calm, TypeOK
<1>6. CASE AuthClient(c)
  BY <1>1, <1>2, <1>6 DEF AuthClient, Gets, Calm, TypeOK
<1>7. ASSUME NEW max \in MaxLoads, UpdateNode(c, max) PROVE Calm
  <2>1. /\ ident[c] \in Registered
        /\ nodes' = [nodes EXCEPT ![ident[c]] = [nodes[ident[c]] EXCEPT !.max = max]]
    BY <1>7 DEF UpdateNode
  <2>2. /\ [nodes[ident[c]] EXCEPT !.max = max] \in NodeInfo
        /\ [nodes[ident[c]] EXCEPT !.max = max].ws = nodes[ident[c]].ws
        /\ [nodes[ident[c]] EXCEPT !.max = max].keyed = nodes[ident[c]].keyed
        /\ [nodes[ident[c]] EXCEPT !.max = max].load = nodes[ident[c]].load
    BY <1>1, <2>1 DEF NodeInfo
  <2>3. nodes' \in [NodeIds -> NodeInfo \cup {None}] /\ Registered' = Registered
    BY <1>1, <2>1, <2>2, NoneAssumption DEF TypeOK, Registered
  <2>4. TypeOK'
    BY <1>1, <1>7, <2>3 DEF UpdateNode, TypeOK
  <2> QED
    BY <1>1, <1>7, <2>1, <2>2, <2>3, <2>4 DEF UpdateNode, Calm, TypeOK
<1>8. CASE Notified(c)
  <2>1. TypeOK'
    BY <1>1, <1>8 DEF Notified, Goto, TypeOK
  <2>2. sock[c] # "idle"
    BY <1>1, <1>8 DEF Notified, Identified
  <2> QED
    BY <1>1, <1>2, <1>8, <2>1, <2>2 DEF Notified, Goto, Calm, TypeOK
<1>9. CASE AskClose(c)
  <2>1. PICK r \in Live : Goto(c, [at |-> "closing", room |-> r])
    BY <1>9 DEF AskClose
  <2>2. [at |-> "closing", room |-> r] \in Tasks
    BY <1>1 DEF Tasks
  <2>3. TypeOK'
    BY <1>1, <1>9, <2>1, <2>2 DEF AskClose, Goto, TypeOK
  <2> QED
    BY <1>1, <1>2, <1>9, <2>1, <2>3 DEF AskClose, Gets, Goto, Calm, TypeOK
<1>10. CASE PeerLost(c)
  BY <1>1, <1>2, <1>10 DEF PeerLost, Calm, TypeOK
<1> QED
  BY <1>3, <1>4, <1>5, <1>6, <1>7, <1>8, <1>9, <1>10

LEMMA KeptByCalm ==
    ASSUME ServerInv, Calm
    PROVE  ServerInv'
<1>1. /\ TypeOK /\ Identified /\ FewRooms
      /\ RoomHasNode /\ RoomHasClient /\ NodeHasHandler
      /\ Live' = Live /\ None \notin NodeIds /\ KeyId \in NodeIds /\ Registered \subseteq NodeIds
  BY RegistryTypes DEF ServerInv, Calm, Live, NodeIds
<1>2. \A n \in Registered : nodes[n].ws \in Conns
  BY RegistryTypes, <1>1 DEF NodeInfo
<1>3. \A r \in Live : rooms[r].client \in Conns
  BY RegistryTypes, <1>1 DEF Room
<1>4. Identified'
  BY <1>1 DEF Identified, Calm, Receive
<1>5. FewRooms'
  BY <1>1, <1>3 DEF FewRooms, Calm
<1>6. RoomHasNode'
  BY <1>1 DEF RoomHasNode, Calm
<1>7. RoomHasClient'
  BY <1>1, <1>3 DEF RoomHasClient, Calm
<1>8. NodeHasHandler'
  <2> SUFFICES ASSUME NEW n \in Registered
               PROVE  sock'[nodes'[n].ws] \in {"open", "gone"} /\ ident'[nodes'[n].ws] = n
    BY DEF NodeHasHandler, Calm
  <2> DEFINE d == nodes[n].ws
  <2>1. nodes'[n].ws = d /\ d \in Conns /\ sock[d] \in {"open", "gone"} /\ ident[d] = n /\ n # None
    BY <1>1, <1>2 DEF NodeHasHandler, Calm
  <2>2. role[d] = "node"
    BY <1>1, <2>1 DEF Identified
  <2> QED
    BY <2>1, <2>2 DEF Calm
<1> QED
  BY <1>4, <1>5, <1>6, <1>7, <1>8 DEF ServerInv, Calm

\* What a closing of rooms leaves of the invariant, whoever does it.
LEMMA KeptByClosing ==
    ASSUME ServerInv, NEW gone \in SUBSET Live, NEW left \in SUBSET Registered,
           CloseRooms(gone, left), UNCHANGED <<role, ident>>
    PROVE  /\ FewRooms'
           /\ (\A r \in Live \ gone : rooms[r].node \in left) => RoomHasNode'
           /\ (\A r \in Live \ gone : sock'[rooms[r].client] = sock[rooms[r].client])
                  => RoomHasClient'
           /\ (\A n \in left : sock'[nodes[n].ws] = sock[nodes[n].ws]) => NodeHasHandler'
<1>1. /\ TypeOK /\ Identified /\ FewRooms
      /\ RoomHasNode /\ RoomHasClient /\ NodeHasHandler
      /\ \A n \in Registered : nodes[n] \in NodeInfo
      /\ \A r \in Live : rooms[r] \in Room
  BY RegistryTypes DEF ServerInv
<1>2. /\ Live' = Live \ gone /\ Registered' = left
      /\ \A r \in Live' : rooms'[r] = rooms[r]
  BY <1>1, ClosingEffect DEF FewRooms
<1>3. \A n \in left : nodes'[n].ws = nodes[n].ws
  <2>1. \A n \in left : \E l : nodes'[n] = [nodes[n] EXCEPT !.load = l]
    BY <1>1, ClosingEffect DEF FewRooms
  <2> QED
    BY <1>1, <2>1 DEF NodeInfo
<1>4. FewRooms'
  <2>1. IsFiniteSet(Live \ gone)
    BY <1>1, FS_Subset DEF FewRooms
  <2> QED
    BY <1>1, <1>2, <2>1 DEF FewRooms
<1>5. (\A r \in Live \ gone : rooms[r].node \in left) => RoomHasNode'
  BY <1>2 DEF RoomHasNode
<1>6. (\A r \in Live \ gone : sock'[rooms[r].client] = sock[rooms[r].client]) => RoomHasClient'
  BY <1>1, <1>2 DEF RoomHasClient
<1>7. (\A n \in left : sock'[nodes[n].ws] = sock[nodes[n].ws]) => NodeHasHandler'
  BY <1>1, <1>2, <1>3 DEF NodeHasHandler
<1> QED
  BY <1>4, <1>5, <1>6, <1>7

LEMMA KeptByEnd ==
    ASSUME ServerInv, NEW c \in Conns, sock[c] # "idle", End(c)
    PROVE  ServerInv'
<1> DEFINE gone == {r \in Live : rooms[r].client = c \/ rooms[r].node = ident[c]}
           left == Registered \ {ident[c]}
<1>1. /\ TypeOK /\ Identified /\ FewRooms
      /\ RoomHasNode /\ RoomHasClient /\ NodeHasHandler
      /\ \A n \in Registered : nodes[n] \in NodeInfo
      /\ \A r \in Live : rooms[r] \in Room
  BY RegistryTypes DEF ServerInv
<1>2. /\ gone \in SUBSET Live /\ left \in SUBSET Registered /\ CloseRooms(gone, left)
      /\ sock' = [sock EXCEPT ![c] = "ended"] /\ UNCHANGED <<role, ident>>
      /\ task' = [task EXCEPT ![c] = Receive]
  BY DEF End, Goto
<1>3. \A r \in Live \ gone : rooms[r].node \in left /\ rooms[r].client # c
  BY <1>1 DEF RoomHasNode
<1>4. \A n \in left : nodes[n].ws # c
  BY <1>1 DEF NodeHasHandler
<1>5. TypeOK'
  <2>1. Receive \in Tasks
    BY DEF Receive, Tasks
  <2>2. /\ nodes' \in [NodeIds -> NodeInfo \cup {None}]
        /\ rooms' \in [RoomIds -> Room \cup {None}]
    BY <1>1, <1>2, ClosingEffect DEF FewRooms
  <2> QED
    BY <1>1, <1>2, <2>1, <2>2 DEF TypeOK
<1>6. Identified'
  BY <1>1, <1>2 DEF Identified, TypeOK, Receive
<1>7. \A d \in Conns : d # c => sock'[d] = sock[d]
  BY <1>1, <1>2 DEF TypeOK
<1>8. /\ \A r \in Live \ gone : sock'[rooms[r].client] = sock[rooms[r].client]
      /\ \A n \in left : sock'[nodes[n].ws] = sock[nodes[n].ws]
  BY <1>1, <1>3, <1>4, <1>7 DEF Room, NodeInfo
<1> HIDE DEF gone, left
<1> QED
  BY <1>2, <1>3, <1>5, <1>6, <1>8, KeptByClosing DEF ServerInv

LEMMA KeptByCloseRoom ==
    ASSUME ServerInv, NEW c \in Conns, CloseRoom(c)
    PROVE  ServerInv'
<1> DEFINE gone == {task[c].room} \cap Live
<1>1. TypeOK /\ Identified /\ FewRooms /\ RoomHasNode
  BY DEF ServerInv
<1>2. /\ gone \in SUBSET Live /\ Registered \in SUBSET Registered /\ CloseRooms(gone, Registered)
      /\ task' = [task EXCEPT ![c] = Receive] /\ UNCHANGED <<sock, role, ident>>
  BY DEF CloseRoom, Goto
<1>3. TypeOK'
  <2>1. Receive \in Tasks
    BY DEF Receive, Tasks
  <2>2. /\ nodes' \in [NodeIds -> NodeInfo \cup {None}]
        /\ rooms' \in [RoomIds -> Room \cup {None}]
    BY <1>1, <1>2, ClosingEffect DEF FewRooms
  <2> QED
    BY <1>1, <1>2, <2>1, <2>2 DEF TypeOK
<1>4. Identified'
  BY <1>1, <1>2 DEF Identified, TypeOK, Receive
<1>5. \A r \in Live \ gone : rooms[r].node \in Registered
  BY <1>1 DEF RoomHasNode
<1> HIDE DEF gone
<1> QED
  BY <1>2, <1>3, <1>4, <1>5, KeptByClosing DEF ServerInv

\* A new NodeInfo takes a name.
LEMMA RegisteringEffect ==
    ASSUME TypeOK, NEW c \in Conns, NEW name \in Names, NEW keyed \in BOOLEAN, NEW max \in MaxLoads,
           RegisterNode(c, name, keyed, max)
    PROVE  /\ TypeOK' /\ Registered' = Registered \cup {name} /\ Live' = Live /\ rooms' = rooms
           /\ nodes'[name].ws = c /\ nodes'[name].load = 0
           /\ OwnNames => ~nodes'[name].keyed
           /\ \A n \in NodeIds : n # name => nodes'[n] = nodes[n]
           /\ ident' = [ident EXCEPT ![c] = name]
<1> DEFINE info == [ws |-> c, keyed |-> keyed, load |-> 0, max |-> max]
<1>1. info \in NodeInfo /\ name \in NodeIds /\ info # None
  BY NoneAssumption DEF NodeInfo, NodeIds
<1>2. nodes' = [nodes EXCEPT ![name] = info] /\ ident' = [ident EXCEPT ![c] = name]
  BY DEF RegisterNode
<1>3. info.ws = c /\ (OwnNames => ~info.keyed) /\ info.load = 0
  BY DEF RegisterNode
<1> HIDE DEF info
<1>4. nodes'[name] = info /\ \A n \in NodeIds : n # name => nodes'[n] = nodes[n]
  BY <1>1, <1>2 DEF TypeOK
<1>5. Registered' = Registered \cup {name}
  BY <1>1, <1>4 DEF Registered
<1>6. TypeOK'
  BY <1>1, <1>2 DEF TypeOK, RegisterNode
<1> QED
  BY <1>2, <1>3, <1>4, <1>5, <1>6 DEF RegisterNode, Live, info

LEMMA KeptByRegisterNode ==
    ASSUME ServerInv, NEW c \in Conns, NEW name \in Names, NEW keyed \in BOOLEAN, NEW max \in MaxLoads,
           RegisterNode(c, name, keyed, max)
    PROVE  ServerInv'
<1>1. /\ TypeOK /\ Identified /\ FewRooms
      /\ RoomHasNode /\ RoomHasClient /\ NodeHasHandler
  BY DEF ServerInv
<1>2. /\ TypeOK' /\ Registered' = Registered \cup {name} /\ Live' = Live /\ rooms' = rooms
      /\ nodes'[name].ws = c /\ ident'[c] = name
      /\ \A n \in NodeIds : n # name => nodes'[n] = nodes[n]
      /\ \A d \in Conns : d # c => ident'[d] = ident[d]
  <2>1. /\ TypeOK' /\ Registered' = Registered \cup {name} /\ Live' = Live /\ rooms' = rooms
        /\ nodes'[name].ws = c /\ ident' = [ident EXCEPT ![c] = name]
        /\ \A n \in NodeIds : n # name => nodes'[n] = nodes[n]
    BY <1>1, RegisteringEffect
  <2> QED
    BY <1>1, <2>1 DEF TypeOK
<1>3. /\ Gets(c) /\ role[c] = "node" /\ ident[c] \notin Registered
      /\ UNCHANGED <<sock, task, role>>
  BY DEF RegisterNode
<1>4. name # None
  BY SignalingAssumption
<1>5. Identified'
  BY <1>1, <1>2, <1>3, <1>4 DEF Identified, Gets
<1>6. FewRooms' /\ RoomHasNode' /\ RoomHasClient'
  BY <1>1, <1>2, <1>3 DEF FewRooms, RoomHasNode, RoomHasClient
<1>7. NodeHasHandler'
  <2> SUFFICES ASSUME NEW n \in Registered'
               PROVE  sock[nodes'[n].ws] \in {"open", "gone"} /\ ident'[nodes'[n].ws] = n
    BY <1>3 DEF NodeHasHandler
  <2>1. CASE n = name
    BY <1>2, <1>3, <2>1 DEF Gets
  <2>2. CASE n # name
    <3>1. n \in Registered /\ n \in NodeIds /\ nodes'[n] = nodes[n] /\ nodes[n].ws \in Conns
      BY <1>1, <1>2, <2>2, RegistryTypes DEF NodeInfo
    <3>2. sock[nodes[n].ws] \in {"open", "gone"} /\ ident[nodes[n].ws] = n
      BY <1>1, <3>1 DEF NodeHasHandler
    <3>3. nodes[n].ws # c
      BY <1>3, <3>1, <3>2
    <3> QED
      BY <1>2, <3>1, <3>2, <3>3
  <2> QED
    BY <2>1, <2>2
<1> QED
  BY <1>2, <1>5, <1>6, <1>7 DEF ServerInv

\* A room more, at a node below its max_sessions.
LEMMA NewRoomEffect ==
    ASSUME TypeOK, NEW c \in Conns, NEW n \in Registered, NewRoom(c, n)
    PROVE  /\ TypeOK' /\ Registered' = Registered
           /\ \A k \in Registered : nodes'[k].ws = nodes[k].ws /\ nodes'[k].keyed = nodes[k].keyed
           /\ \A k \in Registered : nodes'[k].max = nodes[k].max
           /\ \A k \in Registered : nodes'[k].load = IF k = n THEN nodes[n].load + 1 ELSE nodes[k].load
           /\ \E r \in RoomIds \ Live :
                 /\ Live' = Live \cup {r}
                 /\ rooms'[r].node = n /\ rooms'[r].client = c
                 /\ \A s \in Live : rooms'[s] = rooms[s]
<1>1. /\ Registered \subseteq NodeIds /\ Live \subseteq RoomIds
      /\ \A k \in Registered : nodes[k] \in NodeInfo
  BY RegistryTypes
<1>2. PICK r \in RoomIds : /\ rooms[r] = None
                           /\ rooms' = [rooms EXCEPT ![r] = [node |-> n, client |-> c, live |-> TRUE]]
  BY DEF NewRoom
<1> DEFINE room == [node |-> n, client |-> c, live |-> TRUE]
           info == [nodes[n] EXCEPT !.load = @ + 1]
<1>3. room \in Room /\ room # None /\ room.node = n /\ room.client = c /\ room.live = TRUE
  <2>1. n \in NodeIds
    BY <1>1
  <2>2. room \in Room /\ room.node = n /\ room.client = c /\ room.live = TRUE
    BY <2>1 DEF Room
  <2> QED
    BY <2>2, NoneAssumption
<1>4. /\ info \in NodeInfo /\ info # None
      /\ info.ws = nodes[n].ws /\ info.keyed = nodes[n].keyed /\ info.max = nodes[n].max
      /\ info.load = nodes[n].load + 1
  BY <1>1, NoneAssumption DEF NodeInfo
<1>5. rooms' = [rooms EXCEPT ![r] = room] /\ nodes' = [nodes EXCEPT ![n] = info]
  BY <1>2 DEF NewRoom
<1>6. task' = [task EXCEPT ![c] = [at |-> "notify", ws |-> nodes[n].ws]]
      /\ [at |-> "notify", ws |-> nodes[n].ws] \in Tasks /\ UNCHANGED <<sock, role, ident>>
  BY <1>1 DEF NewRoom, Goto, Tasks, NodeInfo
<1> HIDE DEF room, info
<1>7. TypeOK'
  BY <1>1, <1>3, <1>4, <1>5, <1>6 DEF TypeOK
<1>8. nodes'[n] = info /\ \A k \in NodeIds : k # n => nodes'[k] = nodes[k]
  BY <1>1, <1>5 DEF TypeOK
<1>9. Registered' = Registered
  BY <1>1, <1>4, <1>8 DEF Registered
<1>10. rooms'[r] = room /\ \A s \in RoomIds : s # r => rooms'[s] = rooms[s]
  BY <1>5 DEF TypeOK
<1>11. r \notin Live /\ Live' = Live \cup {r}
  BY <1>2, <1>3, <1>10 DEF Live
<1>12. /\ r \in RoomIds \ Live
       /\ rooms'[r].node = n /\ rooms'[r].client = c
       /\ \A s \in Live : rooms'[s] = rooms[s]
  BY <1>1, <1>3, <1>10, <1>11
<1>13. \A k \in Registered :
          /\ nodes'[k].ws = nodes[k].ws /\ nodes'[k].keyed = nodes[k].keyed
          /\ nodes'[k].max = nodes[k].max
          /\ nodes'[k].load = IF k = n THEN nodes[n].load + 1 ELSE nodes[k].load
  BY <1>1, <1>4, <1>8
<1> QED
  BY <1>7, <1>9, <1>11, <1>12, <1>13

LEMMA KeptByNewRoom ==
    ASSUME ServerInv, NEW c \in Conns, NEW n \in Registered, Gets(c), role[c] = "client", NewRoom(c, n)
    PROVE  ServerInv'
<1>1. /\ TypeOK /\ Identified /\ FewRooms
      /\ RoomHasNode /\ RoomHasClient /\ NodeHasHandler
  BY DEF ServerInv
<1>2. PICK r \in RoomIds \ Live :
        /\ Live' = Live \cup {r}
        /\ rooms'[r].node = n /\ rooms'[r].client = c
        /\ \A s \in Live : rooms'[s] = rooms[s]
  BY <1>1, NewRoomEffect
<1>3. /\ TypeOK' /\ Registered' = Registered
      /\ \A k \in Registered : nodes'[k].ws = nodes[k].ws
      /\ UNCHANGED <<sock, role, ident>>
      /\ \A d \in Conns : d # c => task'[d] = task[d]
  <2>1. /\ TypeOK' /\ Registered' = Registered
        /\ \A k \in Registered : nodes'[k].ws = nodes[k].ws
    BY <1>1, NewRoomEffect
  <2>2. UNCHANGED <<sock, role, ident>> /\ Goto(c, [at |-> "notify", ws |-> nodes[n].ws])
    BY DEF NewRoom
  <2>3. \A d \in Conns : d # c => task'[d] = task[d]
    BY <1>1, <2>2 DEF Goto, TypeOK
  <2> QED
    BY <2>1, <2>2, <2>3
<1>4. FewRooms'
  <2>1. IsFiniteSet(Live \cup {r})
    BY <1>1, FS_AddElement DEF FewRooms
  <2> QED
    BY <1>1, <1>2, <1>3, <2>1 DEF FewRooms
<1>5. RoomHasNode' /\ RoomHasClient'
  BY <1>1, <1>2, <1>3 DEF RoomHasNode, RoomHasClient, Gets
<1>6. NodeHasHandler' /\ Identified'
  BY <1>1, <1>3 DEF NodeHasHandler, Identified, Gets
<1> QED
  BY <1>3, <1>4, <1>5, <1>6 DEF ServerInv

LEMMA InitServerInv == Init => ServerInv
<1> SUFFICES ASSUME Init PROVE ServerInv
  OBVIOUS
<1>1. Registered = {} /\ Live = {}
  BY DEF Init, Registered, Live
<1>2. TypeOK
  BY DEF Init, TypeOK, Receive, Tasks
<1>3. Identified
  BY DEF Init, Identified
<1> QED
  BY <1>1, <1>2, <1>3, FS_EmptySet
     DEF ServerInv, FewRooms, RoomHasNode, RoomHasClient, NodeHasHandler

\* Every step of the server is one of these.
LEMMA StepKinds ==
    ASSUME ServerInv, [Next]_vars
    PROVE  \/ Calm
           \/ \E c \in Conns : sock[c] \notin {"idle", "ended"} /\ End(c)
           \/ \E c \in Conns : CloseRoom(c)
           \/ \E c \in Conns, name \in Names, keyed \in BOOLEAN, max \in MaxLoads :
                 RegisterNode(c, name, keyed, max)
           \/ \E c \in Conns, n \in Registered :
                 Gets(c) /\ role[c] = "client" /\ NewRoom(c, n)
<1>1. CASE UNCHANGED vars
  BY <1>1 DEF vars, ServerInv, TypeOK, Calm, Registered
<1>2. ASSUME NEW c \in Conns,
             \/ Connect(c) \/ AuthNode(c) \/ AuthenticatedNode(c) \/ AuthClient(c)
             \/ \E max \in MaxLoads : UpdateNode(c, max)
             \/ Notified(c) \/ AskClose(c) \/ PeerLost(c)
      PROVE  Calm
  BY <1>2, CalmSteps
<1>3. ASSUME NEW c \in Conns, SendFails(c) \/ ForwardFails(c) \/ ReceiveFails(c)
      PROVE  sock[c] \notin {"idle", "ended"} /\ End(c)
  <2>1. End(c)
    BY <1>3 DEF SendFails, ForwardFails, ReceiveFails
  <2>2. sock[c] \notin {"idle", "ended"}
    BY <1>3 DEF SendFails, ForwardFails, ReceiveFails, Gets, ServerInv, Identified, Receive
  <2> QED
    BY <2>1, <2>2
<1>4. ASSUME NEW c \in Conns, CreateRoom(c) \/ SelectModel(c)
      PROVE  \E n \in Registered : Gets(c) /\ role[c] = "client" /\ NewRoom(c, n)
  BY <1>4 DEF CreateRoom, SelectModel
<1> QED
  BY <1>1, <1>2, <1>3, <1>4 DEF Next

LEMMA NextServerInv == ServerInv /\ [Next]_vars => ServerInv'
<1> SUFFICES ASSUME ServerInv, [Next]_vars PROVE ServerInv'
  OBVIOUS
<1>1. ASSUME NEW c \in Conns, sock[c] \notin {"idle", "ended"}, End(c) PROVE ServerInv'
  BY <1>1, KeptByEnd
<1> QED
  BY <1>1, StepKinds, KeptByCalm, KeptByCloseRoom, KeptByRegisterNode, KeptByNewRoom

LEMMA ServerInvariant == Spec => []ServerInv
<1> QED
  BY InitServerInv, NextServerInv, PTL DEF Spec

-----------------------------------------------------------------------------
(* Nodes with names of their own.                                          *)

LEMMA ClosingKeepsLoads ==
    ASSUME ServerInv, LoadIsRooms, NEW gone \in SUBSET Live, NEW left \in SUBSET Registered,
           CloseRooms(gone, left)
    PROVE  LoadIsRooms'
<1>1. TypeOK /\ IsFiniteSet(Live) /\ \A n \in Registered : nodes[n] \in NodeInfo
  BY RegistryTypes DEF ServerInv, FewRooms
<1>2. /\ Live' = Live \ gone /\ Registered' = left
      /\ \A r \in Live' : rooms'[r] = rooms[r]
  BY <1>1, ClosingEffect
<1> SUFFICES ASSUME NEW n \in left PROVE nodes'[n].load = Cardinality(RoomsOf(n)')
  BY <1>2 DEF LoadIsRooms
<1> DEFINE mine == {r \in gone : rooms[r].node = n}
<1>3. RoomsOf(n)' = RoomsOf(n) \ mine /\ RoomsOf(n) \cap mine = mine
  BY <1>2 DEF RoomsOf
<1>4. IsFiniteSet(RoomsOf(n)) /\ Cardinality(RoomsOf(n)) \in Nat /\ IsFiniteSet(mine)
  BY <1>1, <1>3, FewRoomsOf, FS_Intersection
<1>5. /\ Cardinality(RoomsOf(n)') = Cardinality(RoomsOf(n)) - Cardinality(mine)
      /\ Cardinality(RoomsOf(n) \ mine) \in Nat /\ Cardinality(mine) \in Nat
  BY <1>3, <1>4, FS_Difference, FS_CardinalityType
<1>6. nodes[n].load = Cardinality(RoomsOf(n))
  BY DEF LoadIsRooms
<1>7. nodes'[n] = [nodes[n] EXCEPT !.load = IF Cardinality(mine) < nodes[n].load
                                            THEN nodes[n].load - Cardinality(mine) ELSE 0]
  BY <1>1, ClosingEffect
<1> HIDE DEF mine
<1>8. nodes'[n].load = IF Cardinality(mine) < nodes[n].load
                       THEN nodes[n].load - Cardinality(mine) ELSE 0
  BY <1>1, <1>7 DEF NodeInfo
<1> QED
  BY <1>3, <1>4, <1>5, <1>6, <1>8

LEMMA OwnKeptByEnd ==
    ASSUME OwnInv, NEW c \in Conns, sock[c] # "ended", End(c)
    PROVE  OwnedNames' /\ LoadIsRooms'
<1> DEFINE gone == {r \in Live : rooms[r].client = c \/ rooms[r].node = ident[c]}
           left == Registered \ {ident[c]}
<1>1. /\ ServerInv /\ TypeOK /\ IsFiniteSet(Live) /\ OwnedNames /\ LoadIsRooms
      /\ \A n \in Registered : nodes[n] \in NodeInfo
  BY RegistryTypes DEF OwnInv, ServerInv, FewRooms
<1>2. /\ gone \in SUBSET Live /\ left \in SUBSET Registered /\ CloseRooms(gone, left)
      /\ sock' = [sock EXCEPT ![c] = "ended"] /\ UNCHANGED <<role, ident>>
  BY DEF End
<1>3. /\ Registered' = left
      /\ \A n \in left : nodes'[n].ws = nodes[n].ws /\ nodes'[n].keyed = nodes[n].keyed
  <2>1. /\ Registered' = left
        /\ \A n \in left : \E l : nodes'[n] = [nodes[n] EXCEPT !.load = l]
    BY <1>1, <1>2, ClosingEffect
  <2> QED
    BY <1>1, <2>1 DEF NodeInfo
<1>4. ASSUME NEW d \in Conns, sock'[d] # "ended", ident[d] \in Names
      PROVE  ident[d] \in left /\ nodes[ident[d]].ws = d
  <2>1. d # c /\ sock[d] # "ended"
    BY <1>1, <1>2, <1>4 DEF TypeOK
  <2>2. ident[d] \in Registered /\ nodes[ident[d]].ws = d
    BY <1>1, <1>4, <2>1 DEF OwnedNames
  <2>3. ident[d] # ident[c]
    BY <1>1, <1>4, <2>1, <2>2 DEF OwnedNames
  <2> QED
    BY <2>2, <2>3
<1>5. OwnedNames'
  BY <1>1, <1>2, <1>3, <1>4 DEF OwnedNames
<1>6. LoadIsRooms'
  <2> HIDE DEF gone, left
  <2> QED
    BY <1>1, <1>2, ClosingKeepsLoads
<1> QED
  BY <1>5, <1>6

LEMMA NextOwn ==
    ASSUME OwnNames, OwnInv, [Next]_vars
    PROVE  OwnedNames' /\ LoadIsRooms'
<1>1. /\ ServerInv /\ TypeOK /\ IsFiniteSet(Live) /\ OwnedNames /\ LoadIsRooms /\ RoomHasNode
      /\ \A n \in Registered : nodes[n] \in NodeInfo
      /\ Registered \subseteq NodeIds
  BY RegistryTypes DEF OwnInv, ServerInv, FewRooms
<1>2. CASE Calm
  <2>1. \A n \in Registered : RoomsOf(n)' = RoomsOf(n)
    BY <1>2 DEF Calm, RoomsOf, Live
  <2>2. LoadIsRooms'
    BY <1>1, <1>2, <2>1 DEF LoadIsRooms, Calm
  <2>3. OwnedNames'
    BY <1>1, <1>2, SignalingAssumption DEF OwnedNames, Calm
  <2> QED
    BY <2>2, <2>3
<1>3. ASSUME NEW c \in Conns, sock[c] \notin {"idle", "ended"}, End(c)
      PROVE  OwnedNames' /\ LoadIsRooms'
  BY <1>3, OwnKeptByEnd
<1>4. ASSUME NEW c \in Conns, CloseRoom(c) PROVE OwnedNames' /\ LoadIsRooms'
  <2> DEFINE gone == {task[c].room} \cap Live
  <2>1. /\ gone \in SUBSET Live /\ Registered \in SUBSET Registered
        /\ CloseRooms(gone, Registered) /\ UNCHANGED <<sock, ident>>
    BY <1>4 DEF CloseRoom
  <2> HIDE DEF gone
  <2>2. LoadIsRooms'
    BY <1>1, <2>1, ClosingKeepsLoads
  <2>3. /\ Registered' = Registered
        /\ \A n \in Registered : \E l : nodes'[n] = [nodes[n] EXCEPT !.load = l]
    BY <1>1, <2>1, ClosingEffect
  <2>4. \A n \in Registered : nodes'[n].ws = nodes[n].ws /\ nodes'[n].keyed = nodes[n].keyed
    BY <1>1, <2>3 DEF NodeInfo
  <2> QED
    BY <1>1, <2>1, <2>2, <2>3, <2>4 DEF OwnedNames
<1>5. ASSUME NEW c \in Conns, NEW name \in Names, NEW keyed \in BOOLEAN, NEW max \in MaxLoads,
             RegisterNode(c, name, keyed, max)
      PROVE  OwnedNames' /\ LoadIsRooms'
  <2>1. /\ Registered' = Registered \cup {name} /\ Live' = Live /\ rooms' = rooms
        /\ nodes'[name].ws = c /\ nodes'[name].load = 0 /\ ~nodes'[name].keyed
        /\ \A n \in NodeIds : n # name => nodes'[n] = nodes[n]
        /\ ident' = [ident EXCEPT ![c] = name]
    BY <1>1, <1>5, RegisteringEffect
  <2>2. name \notin Registered /\ ident[c] \notin Registered /\ sock' = sock
    BY <1>5 DEF RegisterNode
  <2>3. \A n \in Registered : nodes'[n] = nodes[n]
    BY <1>1, <2>1, <2>2
  <2>4. RoomsOf(name) = {} /\ \A n \in NodeIds : RoomsOf(n)' = RoomsOf(n)
    BY <1>1, <2>1, <2>2 DEF RoomsOf, RoomHasNode
  <2>5. LoadIsRooms'
    BY <1>1, <2>1, <2>3, <2>4, FS_EmptySet DEF LoadIsRooms, NodeIds
  <2>6. KeyId \notin Registered' /\ \A n \in Registered' : ~nodes'[n].keyed
    BY <1>1, <2>1, <2>3, SignalingAssumption DEF OwnedNames
  <2>7. ASSUME NEW d \in Conns, sock'[d] # "ended", ident'[d] \in Names
        PROVE  ident'[d] \in Registered' /\ nodes'[ident'[d]].ws = d
    <3>1. CASE d = c
      BY <1>1, <2>1, <3>1 DEF TypeOK
    <3>2. CASE d # c
      <4>1. ident'[d] = ident[d] /\ sock[d] # "ended"
        BY <1>1, <2>1, <2>2, <2>7, <3>2 DEF TypeOK
      <4>2. ident[d] \in Registered /\ nodes[ident[d]].ws = d
        BY <1>1, <2>7, <4>1 DEF OwnedNames
      <4> QED
        BY <2>1, <2>3, <4>1, <4>2
    <3> QED
      BY <3>1, <3>2
  <2> QED
    BY <2>5, <2>6, <2>7 DEF OwnedNames
<1>6. ASSUME NEW c \in Conns, NEW n \in Registered, NewRoom(c, n)
      PROVE  OwnedNames' /\ LoadIsRooms'
  <2>1. PICK r \in RoomIds \ Live :
          /\ Live' = Live \cup {r}
          /\ rooms'[r].node = n /\ rooms'[r].client = c
          /\ \A s \in Live : rooms'[s] = rooms[s]
    BY <1>1, <1>6, NewRoomEffect
  <2>2. /\ Registered' = Registered
        /\ \A k \in Registered : nodes'[k].ws = nodes[k].ws /\ nodes'[k].keyed = nodes[k].keyed
        /\ \A k \in Registered : nodes'[k].load = IF k = n THEN nodes[n].load + 1 ELSE nodes[k].load
    BY <1>1, <1>6, NewRoomEffect
  <2>3. RoomsOf(n)' = RoomsOf(n) \cup {r} /\ r \notin RoomsOf(n)
    BY <2>1 DEF RoomsOf
  <2>4. \A k \in Registered : k # n => RoomsOf(k)' = RoomsOf(k)
    BY <2>1 DEF RoomsOf
  <2>5. Cardinality(RoomsOf(n)') = Cardinality(RoomsOf(n)) + 1
    BY <1>1, <2>3, FewRoomsOf, FS_AddElement
  <2>6. LoadIsRooms'
    BY <1>1, <2>2, <2>4, <2>5 DEF LoadIsRooms
  <2> QED
    BY <1>1, <1>6, <2>2, <2>6 DEF OwnedNames, NewRoom
<1> QED
  BY <1>1, <1>2, <1>3, <1>4, <1>5, <1>6, StepKinds

LEMMA OwnInvariant == OwnNames => (Spec => []OwnInv)
<1> SUFFICES ASSUME OwnNames PROVE Spec => []OwnInv
  OBVIOUS
<1>1. Init => OwnInv
  <2> SUFFICES ASSUME Init PROVE OwnInv
    OBVIOUS
  <2>1. Registered = {} /\ \A c \in Conns : ident[c] = None
    BY DEF Init, Registered
  <2> QED
    BY <2>1, InitServerInv, SignalingAssumption DEF OwnInv, OwnedNames, LoadIsRooms
<1>2. OwnInv /\ [Next]_vars => OwnInv'
  BY NextServerInv, NextOwn DEF OwnInv
<1> QED
  BY <1>1, <1>2, PTL DEF Spec

-----------------------------------------------------------------------------
\* Connections, handlers, nodes and rooms keep their types, whatever comes in
\* what order: above all, no load goes below zero (NodeRegistry.close_room).
THEOREM TypeCorrect == Spec => []TypeOK
<1>1. ServerInv => TypeOK
  BY DEF ServerInv
<1> QED
  BY <1>1, ServerInvariant, PTL

\* The ice_candidate handler may dereference get_node(room.node_id): a room's
\* node is registered, whoever shares names or keys, leaves or registers again.
THEOREM RoomsHaveNodes == Spec => []RoomHasNode
<1>1. ServerInv => RoomHasNode
  BY DEF ServerInv
<1> QED
  BY <1>1, ServerInvariant, PTL

\* A room's client has a handler that has not ended and will close the room.
THEOREM RoomsHaveClients == Spec => []RoomHasClient
<1>1. ServerInv => RoomHasClient
  BY DEF ServerInv
<1> QED
  BY <1>1, ServerInvariant, PTL

\* A registered node belongs to a connection whose handler has not ended and
\* will unregister it: the registry keeps no node that nobody serves.
THEOREM NodesHaveHandlers == Spec => []NodeHasHandler
<1>1. ServerInv => NodeHasHandler
  BY DEF ServerInv
<1> QED
  BY <1>1, ServerInvariant, PTL

\* When nodes have names of their own, the load of a node is the number of its
\* rooms, however rooms are made and closed.
THEOREM LoadsAreRooms == OwnNames => (Spec => []LoadIsRooms)
<1> SUFFICES ASSUME OwnNames PROVE Spec => []LoadIsRooms
  OBVIOUS
<1>1. OwnInv => LoadIsRooms
  BY DEF OwnInv
<1> QED
  BY <1>1, OwnInvariant, PTL

\* When nodes have names of their own, a node that has max_sessions rooms gets
\* no other.
THEOREM CapacityIsRespected == OwnNames => (Spec => CapacityRespected)
<1> SUFFICES ASSUME OwnNames PROVE Spec => CapacityRespected
  OBVIOUS
<1>1. ASSUME OwnInv, [Next]_vars, NEW n \in Registered,
             Cardinality(RoomsOf(n)) >= nodes[n].max
      PROVE  Cardinality(RoomsOf(n)') <= Cardinality(RoomsOf(n))
  <2>1. /\ ServerInv /\ TypeOK /\ IsFiniteSet(Live) /\ LoadIsRooms
        /\ nodes[n].max \in Nat
    <3>1. ServerInv /\ TypeOK /\ IsFiniteSet(Live) /\ LoadIsRooms
      BY <1>1 DEF OwnInv, ServerInv, FewRooms
    <3>2. nodes[n] \in NodeInfo
      BY <1>1, <3>1, RegistryTypes
    <3> QED
      BY <3>1, <3>2, SignalingAssumption DEF NodeInfo
  <2>2. IsFiniteSet(RoomsOf(n)) /\ Cardinality(RoomsOf(n)) \in Nat
    BY <2>1, FewRoomsOf
  <2>3. RoomsOf(n)' \subseteq RoomsOf(n) => Cardinality(RoomsOf(n)') <= Cardinality(RoomsOf(n))
    BY <2>2, FS_Subset
  <2>4. ASSUME Live' \subseteq Live, \A r \in Live' : rooms'[r] = rooms[r]
        PROVE  RoomsOf(n)' \subseteq RoomsOf(n)
    BY <2>4 DEF RoomsOf
  <2>5. CASE Calm
    BY <2>3, <2>4, <2>5 DEF Calm, Live
  <2>6. ASSUME NEW gone \in SUBSET Live, NEW left \in SUBSET Registered, CloseRooms(gone, left)
        PROVE  Cardinality(RoomsOf(n)') <= Cardinality(RoomsOf(n))
    <3>1. Live' = Live \ gone /\ \A r \in Live' : rooms'[r] = rooms[r]
      BY <2>1, <2>6, ClosingEffect
    <3> QED
      BY <2>3, <2>4, <3>1
  <2>7. ASSUME NEW c \in Conns, End(c) \/ CloseRoom(c)
        PROVE  \E gone \in SUBSET Live, left \in SUBSET Registered : CloseRooms(gone, left)
    BY <2>7 DEF End, CloseRoom
  <2>8. ASSUME NEW c \in Conns, NEW name \in Names, NEW keyed \in BOOLEAN, NEW max \in MaxLoads,
               RegisterNode(c, name, keyed, max)
        PROVE  Live' = Live /\ rooms' = rooms
    BY <2>1, <2>8, RegisteringEffect
  <2>9. ASSUME NEW c \in Conns, NEW k \in Registered, NewRoom(c, k)
        PROVE  Cardinality(RoomsOf(n)') <= Cardinality(RoomsOf(n))
    <3>1. nodes[k].load < nodes[k].max
      BY <2>9 DEF NewRoom
    <3>2. k # n
      BY <1>1, <2>1, <2>2, <3>1 DEF LoadIsRooms
    <3>3. PICK r \in RoomIds \ Live :
            /\ Live' = Live \cup {r}
            /\ rooms'[r].node = k
            /\ \A s \in Live : rooms'[s] = rooms[s]
      BY <2>1, <2>9, NewRoomEffect
    <3>4. RoomsOf(n)' \subseteq RoomsOf(n)
      BY <3>2, <3>3 DEF RoomsOf
    <3> QED
      BY <2>3, <3>4
  <2> QED
    BY <1>1, <2>1, <2>3, <2>4, <2>5, <2>6, <2>7, <2>8, <2>9, StepKinds
<1>2. OwnInv /\ [Next]_vars =>
         [\A n \in Registered :
             Cardinality(RoomsOf(n)) >= nodes[n].max
                 => Cardinality(RoomsOf(n)') <= Cardinality(RoomsOf(n))]_vars
  BY <1>1
<1> QED
  BY <1>2, OwnInvariant, PTL DEF Spec, CapacityRespected

\* When nodes have names of their own, a node leaves the registry only when
\* the handler of its own connection ends.
THEOREM OnlyOwnersUnregister == OwnNames => (Spec => OnlyOwnHandlerUnregisters)
<1> SUFFICES ASSUME OwnNames PROVE Spec => OnlyOwnHandlerUnregisters
  OBVIOUS
<1>1. ASSUME OwnInv, [Next]_vars, NEW n \in Registered, n \notin Registered'
      PROVE  sock'[nodes[n].ws] = "ended"
  <2>1. /\ ServerInv /\ TypeOK /\ IsFiniteSet(Live) /\ OwnedNames
        /\ n \in NodeIds
    <3>1. ServerInv /\ TypeOK /\ IsFiniteSet(Live) /\ OwnedNames
      BY <1>1 DEF OwnInv, ServerInv, FewRooms
    <3> QED
      BY <1>1, <3>1, RegistryTypes
  <2>2. ~Calm
    BY <1>1 DEF Calm
  <2>3. ASSUME NEW c \in Conns, CloseRoom(c) PROVE FALSE
    <3> DEFINE gone == {task[c].room} \cap Live
    <3>1. /\ gone \in SUBSET Live /\ Registered \in SUBSET Registered
          /\ CloseRooms(gone, Registered)
      BY <2>3 DEF CloseRoom
    <3> HIDE DEF gone
    <3>2. Registered' = Registered
      BY <2>1, <3>1, ClosingEffect
    <3> QED
      BY <1>1, <3>2
  <2>4. ASSUME NEW c \in Conns, NEW name \in Names, NEW keyed \in BOOLEAN, NEW max \in MaxLoads,
               RegisterNode(c, name, keyed, max)
        PROVE  FALSE
    BY <1>1, <2>1, <2>4, RegisteringEffect
  <2>5. ASSUME NEW c \in Conns, NEW k \in Registered, NewRoom(c, k) PROVE FALSE
    BY <1>1, <2>1, <2>5, NewRoomEffect
  <2>6. PICK c \in Conns : sock[c] \notin {"idle", "ended"} /\ End(c)
    BY <1>1, <2>1, <2>2, <2>3, <2>4, <2>5, StepKinds
  <2>7. Registered' = Registered \ {ident[c]}
    <3> DEFINE gone == {r \in Live : rooms[r].client = c \/ rooms[r].node = ident[c]}
               left == Registered \ {ident[c]}
    <3>1. gone \in SUBSET Live /\ left \in SUBSET Registered /\ CloseRooms(gone, left)
      BY <2>6 DEF End
    <3> HIDE DEF gone, left
    <3>2. Registered' = left
      BY <2>1, <3>1, ClosingEffect
    <3> QED
      BY <3>2 DEF left
  <2>8. ident[c] = n /\ n \in Names
    BY <1>1, <2>1, <2>7 DEF OwnedNames, NodeIds
  <2>9. nodes[n].ws = c
    BY <2>1, <2>6, <2>8 DEF OwnedNames
  <2> QED
    BY <2>1, <2>6, <2>9 DEF End, TypeOK
<1>2. OwnInv /\ [Next]_vars =>
         [\A n \in Registered : n \notin Registered' => sock'[nodes[n].ws] = "ended"]_vars
  BY <1>1
<1> QED
  BY <1>2, OwnInvariant, PTL DEF Spec, OnlyOwnHandlerUnregisters
=============================================================================
