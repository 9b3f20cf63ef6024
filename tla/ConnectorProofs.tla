---------------------------- MODULE ConnectorProofs ----------------------------
(***************************************************************************)
(* Connector, for any rooms, any number of registrations and any clients:  *)
(* the types, that no timer of a room runs once its offer is handled, and  *)
(* that a candidate finds the peer of its offer.                           *)
(*                                                                         *)
(* Both properties follow from the order of the messages in inbox.  About  *)
(* one room there is at most one offer in it, behind the new_room and      *)
(* before the candidates; as long as one of the first two is unread, the   *)
(* connector has done nothing for the room.  A candidate is sent only      *)
(* where the offer went, since a connection that is up was up ever since   *)
(* its session began (Reached).                                            *)
(***************************************************************************)
EXTENDS Connector, TLAPS

-----------------------------------------------------------------------------
(* Types. *)

RoomRecord == [session : Sessions, live : BOOLEAN]

LEMMA ClosedType ==
    ASSUME TypeOK, NEW R, R \subseteq {r \in Rooms : Open(r)}
    PROVE  Closed(R) \in [Rooms -> RoomRecord \cup {None}]
<1> SUFFICES ASSUME NEW r \in Rooms, r \in R
             PROVE  [room[r] EXCEPT !.live = FALSE] \in RoomRecord
  BY DEF Closed, TypeOK, RoomRecord
<1>1. room[r] \in RoomRecord
  BY DEF Open, TypeOK, RoomRecord
<1> QED
  BY <1>1 DEF RoomRecord

LEMMA SentType ==
    ASSUME TypeOK, NEW s, NEW r \in Rooms,
           NEW type \in {"new_room", "sdp_offer", "ice_candidate", "room_closed"}
    PROVE  Sent(s, [type |-> type, room |-> r]) \in Seq(Message)
<1>1. [type |-> type, room |-> r] \in Message
  BY DEF Message
<1> QED
  BY <1>1 DEF Sent, TypeOK

LEMMA TellsType ==
    ASSUME TypeOK, NEW r \in Rooms, NEW m \in {"sdp_answer", "room_closed"}
    PROVE  [toClient EXCEPT ![r] = Append(@, m)] \in [Rooms -> Seq({"sdp_answer", "room_closed"})]
<1> DEFINE answers == {"sdp_answer", "room_closed"}
<1>1. toClient \in [Rooms -> Seq(answers)] /\ m \in answers
  BY DEF TypeOK
<1> HIDE DEF answers
<1>2. Append(toClient[r], m) \in Seq(answers)
  BY <1>1
<1>3. [toClient EXCEPT ![r] = Append(@, m)] \in [Rooms -> Seq(answers)]
  BY <1>1, <1>2
<1> QED
  BY <1>3 DEF answers

LEMMA SessionEndsType ==
    ASSUME TypeOK, NEW s, SessionEnds(s)
    PROVE  registered' \subseteq 1..session /\ room' \in [Rooms -> RoomRecord \cup {None}]
  BY ClosedType DEF SessionEnds, TypeOK

LEMMA ReadsType ==
    ASSUME TypeOK, NEW type, NEW r, Reads(type, r)
    PROVE  /\ inbox' \in Seq(Message)
           /\ UNCHANGED <<link, delay, session>>
  BY DEF Reads, TypeOK

LEMMA TypeInitially == Init => TypeOK
  BY ConnectorAssumption DEF Init, TypeOK, Links, Clients

LEMMA TypeStep ==
    ASSUME TypeOK, [Next]_vars
    PROVE  TypeOK'
<1> USE DEF RoomRecord
\* The variables in the groups in which the actions leave them alone.
<1> DEFINE LinkOK == link \in Links /\ delay \in 1..MaxDelay /\ session \in 0..MaxSessions
           NodeOK == /\ pending \subseteq Rooms /\ offer \in Rooms \cup {None} /\ peers \subseteq Rooms
                     /\ pc \in [Rooms -> {"none", "checking", "connected", "closed"}]
           ServerOK == /\ registered \subseteq 1..session
                       /\ room \in [Rooms -> RoomRecord \cup {None}]
                       /\ toClient \in [Rooms -> Seq({"sdp_answer", "room_closed"})]
           ClientOK == /\ client \in [Rooms -> Clients]
                       /\ cand \in [Rooms -> {"none", "sent", "added", "ignored"}]
           InboxOK == inbox \in Seq(Message)
<1>1. LinkOK /\ NodeOK /\ ServerOK /\ ClientOK /\ InboxOK
  BY DEF TypeOK
<1>2. (LinkOK /\ NodeOK /\ ServerOK /\ ClientOK /\ InboxOK)' => TypeOK'
  BY DEF TypeOK
<1>3. /\ UNCHANGED <<link, delay, session>> => LinkOK'
      /\ UNCHANGED nodeVars => NodeOK'
      /\ UNCHANGED <<serverVars, session>> => ServerOK'
      /\ UNCHANGED clientVars => ClientOK'
      /\ UNCHANGED inbox => InboxOK'
  BY <1>1 DEF nodeVars, serverVars, clientVars
<1>4. Kinds \subseteq Clients /\ "cut" \in Clients /\ "gone" \in Clients
  BY DEF Clients, Unanswered
<1>5. ASSUME Register PROVE TypeOK'
  <2>1. LinkOK' /\ ServerOK' /\ InboxOK'
    BY <1>1, <1>5, ConnectorAssumption DEF Register, Connecting, Links
  <2> QED
    BY <1>2, <1>3, <1>5, <2>1 DEF Register
<1>6. ASSUME Retry PROVE TypeOK'
  <2>1. LinkOK'
    BY <1>1, <1>6, ConnectorAssumption DEF Retry, Connecting
  <2> QED
    BY <1>2, <1>3, <1>6, <2>1 DEF Retry
<1>7. ASSUME ConnectDies \/ LinkBreaks PROVE TypeOK'
  <2>1. LinkOK'
    BY <1>1, <1>7 DEF ConnectDies, LinkBreaks, Links
  <2> QED
    BY <1>2, <1>3, <1>7, <2>1 DEF ConnectDies, LinkBreaks
<1>8. ASSUME ListenEnds PROVE LinkOK' /\ InboxOK' /\ session' = session
  BY <1>1, <1>8 DEF ListenEnds, Links
<1>9. ASSUME LossNoticed PROVE TypeOK'
  BY <1>2, <1>3, <1>8, <1>9 DEF LossNoticed
<1>10. ASSUME Shutdown PROVE TypeOK'
  <2>1. LinkOK' /\ NodeOK'
    BY <1>1, <1>10 DEF Shutdown, Links
  <2> QED
    BY <1>2, <1>3, <1>10, <2>1 DEF Shutdown
<1>11. ASSUME NEW s \in Sessions, ServerForgetsSession(s) PROVE TypeOK'
  <2>1. ServerOK'
    BY <1>1, <1>11, SessionEndsType DEF ServerForgetsSession
  <2> QED
    BY <1>2, <1>3, <1>11, <2>1 DEF ServerForgetsSession
<1>12. ASSUME NEW type, NEW r, Reads(type, r) PROVE LinkOK' /\ InboxOK' /\ session' = session
  BY <1>1, <1>12, ReadsType
<1>13. ASSUME NEW r \in Rooms, NewRoom(r) \/ OfferBegins(r) \/ RoomClosed(r) PROVE TypeOK'
  <2>1. NodeOK'
    BY <1>1, <1>13 DEF NewRoom, OfferBegins, RoomClosed
  <2> QED
    BY <1>2, <1>3, <1>12, <1>13, <2>1 DEF NewRoom, OfferBegins, RoomClosed
<1>14. ASSUME NEW r \in Rooms, OfferAnswered(r) PROVE TypeOK'
  <2>1. NodeOK'
    BY <1>1, <1>14 DEF OfferAnswered
  <2>2. LinkOK' /\ UNCHANGED <<session, inbox, clientVars>>
    BY <1>1, <1>14 DEF OfferAnswered, Links
  <2>3. ServerOK'
    <3>1. CASE UNCHANGED <<registered, room>>
      <4>1. toClient' \in [Rooms -> Seq({"sdp_answer", "room_closed"})]
        BY <1>1, <1>14, <3>1, TellsType DEF OfferAnswered
      <4> QED
        BY <1>1, <2>2, <3>1, <4>1
    <3>2. CASE SessionEnds(session) /\ UNCHANGED toClient
      BY <1>1, <2>2, <3>2, SessionEndsType
    <3> QED
      BY <1>14, <3>1, <3>2 DEF OfferAnswered
  <2> QED
    BY <1>2, <1>3, <2>1, <2>2, <2>3
<1>15. ASSUME NEW r \in Rooms, OfferFails(r) PROVE TypeOK'
  <2>1. NodeOK'
    BY <1>1, <1>15 DEF OfferFails
  <2> QED
    BY <1>2, <1>3, <1>8, <1>15, <2>1 DEF OfferFails
<1>16. ASSUME NEW r \in Rooms, IceCandidate(r) PROVE TypeOK'
  <2>1. ClientOK'
    BY <1>1, <1>16 DEF IceCandidate
  <2> QED
    BY <1>2, <1>3, <1>12, <1>16, <2>1 DEF IceCandidate
<1>17. ASSUME NEW r \in Rooms, TimerFires(r) PROVE TypeOK'
  <2>1. NodeOK' /\ UNCHANGED <<link, delay, session, registered, clientVars>>
    BY <1>1, <1>17 DEF TimerFires
  <2>2. CASE link = "up" /\ Open(r)
    <3>1. room' \in [Rooms -> RoomRecord \cup {None}]
      BY <1>17, <2>2, ClosedType DEF TimerFires
    <3>2. InboxOK'
      BY <1>17, <2>2, SentType DEF TimerFires
    <3>3. toClient' \in [Rooms -> Seq({"sdp_answer", "room_closed"})]
      BY <1>17, <2>2, TellsType DEF TimerFires
    <3> QED
      BY <1>1, <1>2, <1>3, <2>1, <3>1, <3>2, <3>3
  <2>3. CASE ~(link = "up" /\ Open(r))
    BY <1>2, <1>3, <1>17, <2>1, <2>3 DEF TimerFires, serverVars
  <2> QED
    BY <2>2, <2>3
<1>18. ASSUME NEW r \in Rooms, PcConnects(r) PROVE TypeOK'
  <2>1. NodeOK' /\ ClientOK'
    BY <1>1, <1>18 DEF PcConnects, Clients
  <2> QED
    BY <1>2, <1>3, <1>18, <2>1 DEF PcConnects
<1>19. ASSUME NEW r \in Rooms, PcFails(r) PROVE TypeOK'
  <2>1. NodeOK'
    BY <1>1, <1>19 DEF PcFails
  <2> QED
    BY <1>2, <1>3, <1>19, <2>1 DEF PcFails
<1>20. ASSUME NEW r \in Rooms, ClientPcFails(r) \/ ChatReceiveRaises(r) PROVE TypeOK'
  <2>1. ClientOK'
    BY <1>1, <1>20 DEF ClientPcFails, ChatReceiveRaises, Clients
  <2> QED
    BY <1>2, <1>3, <1>20, <2>1 DEF ClientPcFails, ChatReceiveRaises
<1>21. ASSUME NEW r \in Rooms, NEW s \in Sessions, CreateRoom(r, s) PROVE TypeOK'
  <2>1. ClientOK'
    <3>1. /\ \/ \E k \in Kinds : client' = [client EXCEPT ![r] = k]
             \/ client' = [client EXCEPT ![r] = "cut"]
          /\ cand' = cand
      BY <1>21 DEF CreateRoom
    <3>2. "cut" \in Clients
      BY DEF Clients
    <3> QED
      BY <1>1, <1>4, <3>1, <3>2
  <2>2. InboxOK'
    <3>1. Sent(s, [type |-> "new_room", room |-> r]) \in Seq(Message)
      BY SentType
    <3> QED
      BY <1>1, <1>21, <3>1 DEF CreateRoom
  <2>3. room' \in [Rooms -> RoomRecord \cup {None}]
    <3>1. PICK b \in BOOLEAN : room' = [room EXCEPT ![r] = [session |-> s, live |-> b]]
      BY <1>21 DEF CreateRoom
    <3>2. [session |-> s, live |-> b] \in RoomRecord
      OBVIOUS
    <3> QED
      BY <1>1, <3>1, <3>2
  <2> QED
    BY <1>1, <1>2, <1>3, <1>21, <2>1, <2>2, <2>3 DEF CreateRoom
<1>22. ASSUME NEW r \in Rooms, ClientCut(r), Open(r) PROVE TypeOK'
  <2>1. ClientOK' /\ toClient' \in [Rooms -> Seq({"sdp_answer", "room_closed"})]
    BY <1>1, <1>4, <1>22 DEF ClientCut
  <2>2. room' \in [Rooms -> RoomRecord \cup {None}]
    BY <1>22, ClosedType DEF ClientCut
  <2> QED
    BY <1>1, <1>2, <1>3, <1>22, <2>1, <2>2 DEF ClientCut
<1>23. ASSUME NEW r \in Rooms, SendOffer(r) PROVE TypeOK'
  <2>1. CASE ClientCut(r) /\ Open(r)
    BY <1>22, <2>1
  <2>2. CASE ~(ClientCut(r) /\ Open(r))
    <3>1. ClientOK'
      BY <1>1, <1>23, <2>2 DEF SendOffer, Clients, Unanswered
    <3>2. InboxOK'
      <4>1. Sent(room[r].session, [type |-> "sdp_offer", room |-> r]) \in Seq(Message)
        BY SentType
      <4> QED
        BY <1>1, <1>23, <2>2, <4>1 DEF SendOffer
    <3> QED
      BY <1>1, <1>2, <1>3, <1>23, <2>2, <3>1, <3>2 DEF SendOffer
  <2> QED
    BY <2>1, <2>2
<1>24. ASSUME NEW r \in Rooms, SendCandidate(r) PROVE TypeOK'
  <2>1. ClientOK'
    BY <1>1, <1>24 DEF SendCandidate
  <2>2. InboxOK'
    BY <1>24, SentType DEF SendCandidate
  <2> QED
    BY <1>2, <1>3, <1>24, <2>1, <2>2 DEF SendCandidate
<1>25. ASSUME NEW r \in Rooms, ClientReads(r) PROVE TypeOK'
  <2>1. ClientOK'
    BY <1>1, <1>25 DEF ClientReads, After, Clients
  <2>2. ServerOK'
    BY <1>1, <1>25 DEF ClientReads
  <2> QED
    BY <1>2, <1>3, <1>25, <2>1, <2>2 DEF ClientReads
<1>26. ASSUME NEW r \in Rooms, ClientLeaves(r) PROVE TypeOK'
  <2>1. ClientOK' /\ ServerOK'
    BY <1>1, <1>4, <1>26 DEF ClientLeaves
  <2> QED
    BY <1>2, <1>3, <1>26, <2>1 DEF ClientLeaves
<1>27. ASSUME NEW r \in Rooms, ServerForgetsClient(r) PROVE TypeOK'
  <2>1. ServerOK'
    BY <1>1, <1>27, ClosedType DEF ServerForgetsClient
  <2> QED
    BY <1>2, <1>3, <1>27, <2>1 DEF ServerForgetsClient
<1>28. CASE UNCHANGED vars
  BY <1>2, <1>3, <1>28 DEF vars
<1> QED
  BY <1>5, <1>6, <1>7, <1>9, <1>10, <1>11, <1>13, <1>14, <1>15, <1>16, <1>17, <1>18, <1>19,
     <1>20, <1>21, <1>23, <1>24, <1>25, <1>26, <1>27, <1>28 DEF Next

\* The state of the connector, of the server's rooms and of the clients is of
\* its type: above all, a reconnect delay never exceeds its maximum.
THEOREM TypeCorrect == Spec => []TypeOK
  BY TypeInitially, TypeStep, PTL DEF Spec

-----------------------------------------------------------------------------
(* What the messages of a sequence say about each other. *)

Has(s, m) == \E i \in DOMAIN s : s[i] = m
Once(s, m) == \A i, j \in DOMAIN s : s[i] = m /\ s[j] = m => i = j
Precedes(s, m, n) == \A i, j \in DOMAIN s : s[i] = m /\ s[j] = n => i < j

\* Every n has an m before it.
Follows(s, m, n) == \A j \in DOMAIN s : s[j] = n => \E i \in DOMAIN s : i < j /\ s[i] = m

LEMMA EmptyOrder ==
    ASSUME NEW m, NEW n
    PROVE  ~Has(<<>>, m) /\ Once(<<>>, m) /\ Precedes(<<>>, m, n) /\ Follows(<<>>, m, n)
  BY DEF Has, Once, Precedes, Follows

LEMMA TailOrder ==
    ASSUME NEW S, NEW s \in Seq(S), s # <<>>, NEW m, NEW n
    PROVE  /\ Has(Tail(s), m) => Has(s, m)
           /\ Has(s, m) => Has(Tail(s), m) \/ Head(s) = m
           /\ Has(s, Head(s))
           /\ Once(s, m) => Once(Tail(s), m)
           /\ Once(s, m) /\ Head(s) = m => ~Has(Tail(s), m)
           /\ Precedes(s, m, n) => Precedes(Tail(s), m, n)
           /\ Precedes(s, m, n) /\ Head(s) = n => ~Has(s, m)
           /\ Follows(s, m, n) => Head(s) # n
           /\ Follows(s, m, n) /\ Head(s) # m => Follows(Tail(s), m, n)
<1> DEFINE t == Tail(s)
<1>1. /\ DOMAIN s = 1..Len(s) /\ Len(s) \in Nat \ {0} /\ DOMAIN t = 1..(Len(s) - 1)
      /\ \A i \in 1..(Len(s) - 1) : t[i] = s[i + 1]
      /\ Head(s) = s[1]
  OBVIOUS
<1> HIDE DEF t
<1>2. \A i \in DOMAIN t : i \in Nat /\ i + 1 \in DOMAIN s /\ t[i] = s[i + 1]
  BY <1>1
<1>3. \A i \in DOMAIN s : i # 1 => i - 1 \in DOMAIN t /\ t[i - 1] = s[i] /\ i > 1
  <2> SUFFICES ASSUME NEW i \in 1..Len(s), i # 1
               PROVE  i - 1 \in DOMAIN t /\ t[i - 1] = s[i] /\ i > 1
    BY <1>1
  <2>1. i - 1 \in 1..(Len(s) - 1) /\ (i - 1) + 1 = i
    BY <1>1
  <2> QED
    BY <1>1, <2>1
<1>4. 1 \in DOMAIN s /\ \A i \in DOMAIN s : i \in Nat /\ i >= 1
  BY <1>1
<1>5. Has(t, m) => Has(s, m)
  BY <1>2 DEF Has
<1>6. Has(s, m) => Has(t, m) \/ Head(s) = m
  BY <1>1, <1>3 DEF Has
<1>7. Has(s, Head(s))
  BY <1>1, <1>4 DEF Has
<1>8. Once(s, m) => Once(t, m)
  BY <1>2 DEF Once
<1>9. Once(s, m) /\ Head(s) = m => ~Has(t, m)
  BY <1>1, <1>2, <1>4 DEF Once, Has
<1>10. Precedes(s, m, n) => Precedes(t, m, n)
  BY <1>2 DEF Precedes
<1>11. Precedes(s, m, n) /\ Head(s) = n => ~Has(s, m)
  BY <1>1, <1>4 DEF Precedes, Has
<1>12. Follows(s, m, n) => Head(s) # n
  BY <1>1, <1>4 DEF Follows
<1>13. ASSUME Follows(s, m, n), Head(s) # m PROVE Follows(t, m, n)
  <2> SUFFICES ASSUME NEW j \in DOMAIN t, t[j] = n
               PROVE  \E i \in DOMAIN t : i < j /\ t[i] = m
    BY DEF Follows
  <2>1. PICK i \in DOMAIN s : i < j + 1 /\ s[i] = m
    BY <1>2, <1>13 DEF Follows
  <2>2. i # 1
    BY <1>1, <1>13, <2>1
  <2>3. i - 1 \in DOMAIN t /\ t[i - 1] = m /\ i - 1 < j
    BY <1>2, <1>3, <1>4, <2>1, <2>2, SMTT(30)
  <2> QED
    BY <2>3
<1> QED
  BY <1>5, <1>6, <1>7, <1>8, <1>9, <1>10, <1>11, <1>12, <1>13 DEF t

LEMMA AppendOrder ==
    ASSUME NEW S, NEW s \in Seq(S), NEW e \in S, NEW m, NEW n
    PROVE  /\ Has(Append(s, e), m) <=> Has(s, m) \/ e = m
           /\ Once(s, m) /\ (e # m \/ ~Has(s, m)) => Once(Append(s, e), m)
           /\ Precedes(s, m, n) /\ m # n /\ (e # m \/ ~Has(s, n)) => Precedes(Append(s, e), m, n)
           /\ Follows(s, m, n) /\ (e # n \/ Has(s, m)) => Follows(Append(s, e), m, n)
<1> DEFINE t == Append(s, e)
<1>1. /\ DOMAIN s = 1..Len(s) /\ Len(s) \in Nat /\ DOMAIN t = 1..(Len(s) + 1)
      /\ \A i \in 1..Len(s) : t[i] = s[i]
      /\ t[Len(s) + 1] = e
  OBVIOUS
<1> HIDE DEF t
<1>2. \A i \in DOMAIN s : i \in DOMAIN t /\ t[i] = s[i] /\ i < Len(s) + 1 /\ i \in Nat
  BY <1>1
<1>3. \A i \in DOMAIN t : i \in DOMAIN s \/ i = Len(s) + 1
  BY <1>1
<1>4. Len(s) + 1 \in DOMAIN t
  BY <1>1
<1>5. Has(t, m) <=> Has(s, m) \/ e = m
  BY <1>1, <1>2, <1>3, <1>4 DEF Has
<1>6. Once(s, m) /\ (e # m \/ ~Has(s, m)) => Once(t, m)
  BY <1>1, <1>2, <1>3 DEF Once, Has
<1>7. Precedes(s, m, n) /\ m # n /\ (e # m \/ ~Has(s, n)) => Precedes(t, m, n)
  BY <1>1, <1>2, <1>3 DEF Precedes, Has
<1>8. Follows(s, m, n) /\ (e # n \/ Has(s, m)) => Follows(t, m, n)
  BY <1>1, <1>2, <1>3 DEF Follows, Has
<1> QED
  BY <1>5, <1>6, <1>7, <1>8 DEF t

-----------------------------------------------------------------------------
(* The messages about one room. *)

Announced(r) == [type |-> "new_room", room |-> r]
Offered(r) == [type |-> "sdp_offer", room |-> r]
Candidate(r) == [type |-> "ice_candidate", room |-> r]

\* The connector has not begun to answer an offer for r.
Untouched(r) == offer # r /\ pc[r] = "none"

\* The node is connected in the session in which the client sent its offer.
Reached(r) == client[r] \in {"offered", "answered"} /\ Open(r) /\ Reaches(room[r].session)

InOrder(r) ==
    /\ Precedes(inbox, Announced(r), Offered(r))
    /\ Once(inbox, Offered(r))
    /\ Untouched(r) => Follows(inbox, Offered(r), Candidate(r))

RoomInv(r) ==
    /\ InOrder(r)
    /\ Has(inbox, Announced(r)) \/ Has(inbox, Offered(r)) \/ r \in pending => Untouched(r)
    /\ client[r] \in {"idle", "offering"} => ~Has(inbox, Offered(r)) /\ Untouched(r)
    /\ client[r] = "idle" => /\ ~Has(inbox, Announced(r)) /\ ~Has(inbox, Candidate(r))
                             /\ r \notin pending
    /\ offer = r => pc[r] = "none"
    /\ r \in peers <=> pc[r] \in {"checking", "connected"}
    /\ Reached(r) /\ Untouched(r) => Has(inbox, Offered(r))
    /\ cand[r] = "ignored" => pc[r] = "closed"

\* The connection of a room is in a session that has begun.
SessionsBegun == \A r \in Rooms : room[r] # None => room[r].session <= session

ConnectorInv == TypeOK /\ SessionsBegun /\ \A r \in Rooms : RoomInv(r)

\* What is done to inbox by those who send or read no description of r, unless
\* it is emptied.
LeavesInbox(r) ==
    \/ inbox' = inbox
    \/ inbox # <<>> /\ inbox' = Tail(inbox) /\ Head(inbox) # Offered(r)
    \/ \E m \in Message \ {Announced(r), Offered(r), Candidate(r)} : inbox' = Append(inbox, m)

LEMMA InboxFacts ==
    ASSUME TypeOK, NEW r \in Rooms, InOrder(r),
           LeavesInbox(r) \/ inbox' = <<>>,
           Untouched(r)' => Untouched(r)
    PROVE  /\ InOrder(r)'
           /\ Has(inbox', Announced(r)) => Has(inbox, Announced(r))
           /\ Has(inbox', Offered(r)) => Has(inbox, Offered(r))
           /\ Has(inbox', Candidate(r)) => Has(inbox, Candidate(r))
           /\ LeavesInbox(r) => (Has(inbox, Offered(r)) => Has(inbox', Offered(r)))
<1> DEFINE a == Announced(r)
           o == Offered(r)
           c == Candidate(r)
<1>1. /\ inbox \in Seq(Message) /\ Precedes(inbox, a, o) /\ Once(inbox, o)
      /\ Untouched(r)' => Follows(inbox, o, c)
      /\ a' = a /\ o' = o /\ c' = c
  BY DEF TypeOK, InOrder, Announced, Offered, Candidate
<1>2. a # o
  BY DEF Announced, Offered
<1>3. (/\ Precedes(inbox', a, o) /\ Once(inbox', o)
       /\ Untouched(r)' => Follows(inbox', o, c)) => InOrder(r)'
  BY DEF InOrder, Precedes, Once, Follows, Announced, Offered, Candidate
<1> HIDE DEF a, o, c
<1> SUFFICES /\ Precedes(inbox', a, o) /\ Once(inbox', o)
             /\ Untouched(r)' => Follows(inbox', o, c)
             /\ Has(inbox', a) => Has(inbox, a)
             /\ Has(inbox', o) => Has(inbox, o)
             /\ Has(inbox', c) => Has(inbox, c)
             /\ LeavesInbox(r) => (Has(inbox, o) => Has(inbox', o))
  BY <1>3 DEF a, o, c
<1>4. CASE inbox' = inbox
  BY <1>1, <1>4
<1>5. CASE inbox' = <<>> /\ ~LeavesInbox(r)
  BY <1>5, EmptyOrder
<1>6. CASE inbox # <<>> /\ inbox' = Tail(inbox) /\ Head(inbox) # o
  BY <1>1, <1>6, TailOrder
<1>7. ASSUME NEW m \in Message \ {a, o, c}, inbox' = Append(inbox, m)
      PROVE  /\ Precedes(inbox', a, o) /\ Once(inbox', o)
             /\ Untouched(r)' => Follows(inbox', o, c)
             /\ Has(inbox', a) => Has(inbox, a)
             /\ Has(inbox', o) => Has(inbox, o)
             /\ Has(inbox', c) => Has(inbox, c)
             /\ LeavesInbox(r) => (Has(inbox, o) => Has(inbox', o))
  <2>1. m \in Message /\ m # a /\ m # o /\ m # c
    BY <1>7
  <2> QED
    BY <1>1, <1>2, <1>7, <2>1, AppendOrder
<1> QED
  BY <1>4, <1>5, <1>6, <1>7 DEF LeavesInbox, a, o, c

\* A step that does nothing about r but end its room, its client or its timer.
LEMMA Undisturbed ==
    ASSUME TypeOK, NEW r \in Rooms, RoomInv(r),
           LeavesInbox(r) \/ inbox' = <<>>,
           pc'[r] = pc[r], offer' = r <=> offer = r, r \in peers' <=> r \in peers,
           r \in pending' => r \in pending, cand'[r] # "ignored" \/ cand'[r] = cand[r],
           client'[r] \in {"idle", "offering"} => client'[r] = client[r],
           Reached(r)' => Reached(r) /\ LeavesInbox(r)
    PROVE  RoomInv(r)'
<1>1. Untouched(r)' <=> Untouched(r)
  BY DEF Untouched
<1>2. /\ InOrder(r)'
      /\ Has(inbox', Announced(r)) => Has(inbox, Announced(r))
      /\ Has(inbox', Offered(r)) => Has(inbox, Offered(r))
      /\ Has(inbox', Candidate(r)) => Has(inbox, Candidate(r))
      /\ LeavesInbox(r) => (Has(inbox, Offered(r)) => Has(inbox', Offered(r)))
  BY <1>1, InboxFacts DEF RoomInv
<1>3. Reached(r)' => Reached(r) /\ (Has(inbox, Offered(r)) => Has(inbox', Offered(r)))
  BY <1>2
<1> QED
  BY <1>1, <1>2, <1>3 DEF RoomInv

\* Rooms are closed: a room is as it was, or does not exist any longer.
LEMMA ClosesRooms ==
    ASSUME TypeOK, NEW R, R \subseteq {r \in Rooms : Open(r)}, room' = Closed(R), NEW r \in Rooms
    PROVE  \/ room'[r] = room[r]
           \/ ~Open(r)' /\ room[r] # None /\ room'[r].session = room[r].session
<1>1. CASE r \in R
  <2>1. room[r] \in RoomRecord /\ room[r] # None /\ room'[r] = [room[r] EXCEPT !.live = FALSE]
    BY <1>1 DEF Open, TypeOK, Closed, RoomRecord
  <2> QED
    BY <2>1 DEF Open, RoomRecord
<1>2. CASE r \notin R
  BY <1>2 DEF Closed
<1> QED
  BY <1>1, <1>2

LEMMA SessionEndsRooms ==
    ASSUME TypeOK, NEW s, SessionEnds(s), NEW r \in Rooms
    PROVE  \/ room'[r] = room[r]
           \/ ~Open(r)' /\ room[r] # None /\ room'[r].session = room[r].session
<1> DEFINE R == {q \in Rooms : Open(q) /\ room[q].session = s}
<1>1. R \subseteq {q \in Rooms : Open(q)} /\ room' = Closed(R)
  BY DEF SessionEnds
<1> HIDE DEF R
<1> QED
  BY <1>1, ClosesRooms

\* Undisturbed, of a step in the same session that brings no connection up.
LEMMA Bystander ==
    ASSUME TypeOK, NEW r \in Rooms, RoomInv(r), LeavesInbox(r) \/ inbox' = <<>>,
           pc'[r] = pc[r], offer' = r <=> offer = r, r \in peers' <=> r \in peers,
           r \in pending' => r \in pending, cand'[r] # "ignored" \/ cand'[r] = cand[r],
           client'[r] \in {"idle", "offering"} => client'[r] = client[r],
           client'[r] \in {"offered", "answered"} => client[r] \in {"offered", "answered"},
           room'[r] = room[r] \/ ~Open(r)', session' = session,
           link' = "up" => link = "up" /\ LeavesInbox(r)
    PROVE  RoomInv(r)'
<1>1. Reached(r)' => Reached(r) /\ LeavesInbox(r)
  BY DEF Reached, Reaches, Open
<1> QED
  BY <1>1, Undisturbed

\* The connector reads another message than the offer of r.
LEMMA ReadsInbox ==
    ASSUME NEW type, NEW q, Reads(type, q), NEW r, type # "sdp_offer" \/ q # r
    PROVE  LeavesInbox(r) /\ UNCHANGED <<link, session>>
<1>1. [type |-> type, room |-> q] # Offered(r)
  BY DEF Offered
<1> QED
  BY <1>1 DEF Reads, LeavesInbox

LEMMA SendsInbox ==
    ASSUME NEW s, NEW type \in {"new_room", "sdp_offer", "ice_candidate", "room_closed"},
           NEW q \in Rooms, inbox' = Sent(s, [type |-> type, room |-> q]),
           NEW r, type = "room_closed" \/ q # r
    PROVE  LeavesInbox(r)
<1>1. [type |-> type, room |-> q] \in Message \ {Announced(r), Offered(r), Candidate(r)}
  BY DEF Message, Announced, Offered, Candidate
<1> QED
  BY <1>1 DEF Sent, LeavesInbox

\* The steps about the room r itself, one by one.
LEMMA AnnouncementRead ==
    ASSUME TypeOK, NEW r \in Rooms, RoomInv(r), NewRoom(r)
    PROVE  RoomInv(r)'
<1>1. /\ inbox # <<>> /\ inbox' = Tail(inbox) /\ Head(inbox) = Announced(r)
      /\ UNCHANGED <<link, session, offer, peers, pc, room, client, cand>>
      /\ inbox \in Seq(Message)
  BY DEF NewRoom, Reads, Announced, serverVars, clientVars, TypeOK
<1>2. Has(inbox, Announced(r)) /\ LeavesInbox(r)
  BY <1>1, TailOrder DEF LeavesInbox, Announced, Offered
<1>3. /\ InOrder(r)'
      /\ Has(inbox', Announced(r)) => Has(inbox, Announced(r))
      /\ Has(inbox', Offered(r)) => Has(inbox, Offered(r))
      /\ Has(inbox', Candidate(r)) => Has(inbox, Candidate(r))
      /\ Has(inbox, Offered(r)) => Has(inbox', Offered(r))
  BY <1>1, <1>2, InboxFacts DEF RoomInv, Untouched
<1>4. (Untouched(r)' <=> Untouched(r)) /\ (Reached(r)' <=> Reached(r))
  BY <1>1 DEF Untouched, Reached, Reaches, Open
<1> QED
  BY <1>1, <1>2, <1>3, <1>4 DEF RoomInv

LEMMA OfferRead ==
    ASSUME TypeOK, NEW r \in Rooms, RoomInv(r), OfferBegins(r)
    PROVE  RoomInv(r)'
<1>1. /\ inbox # <<>> /\ inbox' = Tail(inbox) /\ Head(inbox) = Offered(r)
      /\ offer' = r /\ r \notin pending'
      /\ UNCHANGED <<peers, pc, client, cand>>
      /\ inbox \in Seq(Message)
  BY DEF OfferBegins, Reads, Offered, serverVars, clientVars, TypeOK
<1>2. /\ Has(inbox, Offered(r)) /\ ~Has(inbox', Offered(r)) /\ ~Has(inbox', Announced(r))
      /\ Precedes(inbox', Announced(r), Offered(r)) /\ Once(inbox', Offered(r))
  BY <1>1, TailOrder DEF RoomInv, InOrder
<1>3. Untouched(r) /\ pc[r] = "none" /\ client[r] \notin {"idle", "offering"}
  BY <1>2 DEF RoomInv, Untouched
<1>4. ~Untouched(r)' /\ InOrder(r)'
  BY <1>1, <1>2 DEF Untouched, InOrder, Precedes, Once, Announced, Offered
<1> QED
  BY <1>1, <1>2, <1>3, <1>4 DEF RoomInv

LEMMA AnswerGiven ==
    ASSUME TypeOK, NEW r \in Rooms, RoomInv(r), OfferAnswered(r)
    PROVE  RoomInv(r)'
<1>1. /\ offer = r /\ offer' # r /\ r \in peers' /\ pc'[r] = "checking"
      /\ UNCHANGED <<inbox, pending, client, cand>>
  BY ConnectorAssumption DEF OfferAnswered, clientVars, TypeOK
<1>2. pc[r] = "none" /\ ~Untouched(r) /\ ~Untouched(r)'
  BY <1>1 DEF RoomInv, Untouched
<1>3. InOrder(r)'
  BY <1>1, <1>2 DEF RoomInv, InOrder, Precedes, Once
<1> QED
  BY <1>1, <1>2, <1>3 DEF RoomInv, Has

LEMMA CandidateRead ==
    ASSUME TypeOK, NEW r \in Rooms, RoomInv(r), IceCandidate(r)
    PROVE  RoomInv(r)'
<1>1. /\ inbox # <<>> /\ Head(inbox) = Candidate(r) /\ offer = None
      /\ UNCHANGED <<link, session, pending, offer, peers, pc, room, client>>
      /\ inbox \in Seq(Message) /\ inbox' = Tail(inbox)
      /\ cand'[r] = "ignored" => r \notin peers
  BY DEF IceCandidate, Reads, Candidate, nodeVars, serverVars, TypeOK
<1>2. pc[r] # "none" /\ r \in Rooms /\ offer # r
  BY <1>1, TailOrder, ConnectorAssumption DEF RoomInv, InOrder, Untouched
<1>3. LeavesInbox(r)
  BY <1>1 DEF LeavesInbox, Candidate, Offered
<1>4. /\ InOrder(r)'
      /\ Has(inbox', Announced(r)) => Has(inbox, Announced(r))
      /\ Has(inbox', Offered(r)) => Has(inbox, Offered(r))
      /\ Has(inbox', Candidate(r)) => Has(inbox, Candidate(r))
      /\ Has(inbox, Offered(r)) => Has(inbox', Offered(r))
  BY <1>1, <1>3, InboxFacts DEF RoomInv, Untouched
<1>5. (Untouched(r)' <=> Untouched(r)) /\ (Reached(r)' <=> Reached(r))
  BY <1>1 DEF Untouched, Reached, Reaches, Open
<1>6. cand'[r] = "ignored" => pc'[r] = "closed"
  BY <1>1, <1>2 DEF RoomInv, TypeOK
<1> QED
  BY <1>1, <1>4, <1>5, <1>6 DEF RoomInv

LEMMA RoomCreated ==
    ASSUME TypeOK, NEW r \in Rooms, RoomInv(r), NEW s \in Sessions, CreateRoom(r, s)
    PROVE  RoomInv(r)'
<1>1. /\ client[r] = "idle" /\ client'[r] \in {"offering", "python", "js", "cut"}
      /\ UNCHANGED <<pending, offer, peers, pc, cand>>
      /\ inbox' = inbox \/ inbox' = Append(inbox, Announced(r))
      /\ inbox \in Seq(Message) /\ Announced(r) \in Message
  <2>1. client[r] = "idle" /\ UNCHANGED <<pending, offer, peers, pc, cand>>
    BY DEF CreateRoom, nodeVars
  <2>2. client'[r] \in {"offering", "python", "js", "cut"}
    <3>1. \E k \in {"offering", "python", "js", "cut"} : client' = [client EXCEPT ![r] = k]
      BY ConnectorAssumption DEF CreateRoom
    <3> QED
      BY <3>1 DEF TypeOK
  <2>3. inbox' = inbox \/ inbox' = Append(inbox, Announced(r))
    BY DEF CreateRoom, Sent, Announced
  <2>4. inbox \in Seq(Message) /\ Announced(r) \in Message
    BY DEF Announced, Message, TypeOK
  <2> QED
    BY <2>1, <2>2, <2>3, <2>4
<1>2. /\ ~Has(inbox, Offered(r)) /\ ~Has(inbox, Announced(r)) /\ ~Has(inbox, Candidate(r))
      /\ Untouched(r) /\ r \notin pending /\ Follows(inbox, Offered(r), Candidate(r))
      /\ Precedes(inbox, Announced(r), Offered(r)) /\ Once(inbox, Offered(r))
  BY <1>1 DEF RoomInv, InOrder
<1>3. Announced(r) # Offered(r) /\ Announced(r) # Candidate(r)
  BY DEF Announced, Offered, Candidate
<1>4. /\ ~Has(inbox', Offered(r)) /\ Follows(inbox', Offered(r), Candidate(r))
      /\ Precedes(inbox', Announced(r), Offered(r)) /\ Once(inbox', Offered(r))
  <2>1. CASE inbox' = inbox
    BY <1>2, <2>1
  <2>2. CASE inbox' = Append(inbox, Announced(r))
    <3>1. ~Has(inbox', Offered(r)) /\ Once(inbox', Offered(r))
      BY <1>1, <1>2, <1>3, <2>2, AppendOrder
    <3>2. Follows(inbox', Offered(r), Candidate(r))
      BY <1>1, <1>2, <1>3, <2>2, AppendOrder
    <3>3. Precedes(inbox', Announced(r), Offered(r))
      BY <1>1, <1>2, <1>3, <2>2, AppendOrder
    <3> QED
      BY <3>1, <3>2, <3>3
  <2> QED
    BY <1>1, <2>1, <2>2
<1>5. Untouched(r)' /\ ~Reached(r)'
  BY <1>1, <1>2 DEF Untouched, Reached
<1>6. InOrder(r)'
  BY <1>4 DEF InOrder, Precedes, Once, Follows, Announced, Offered, Candidate
<1> QED
  BY <1>1, <1>2, <1>4, <1>5, <1>6 DEF RoomInv

\* The offer goes where the candidates will go, or the room is not reached.
LEMMA OfferSent ==
    ASSUME TypeOK, NEW r \in Rooms, RoomInv(r), SendOffer(r), ~(ClientCut(r) /\ Open(r))
    PROVE  RoomInv(r)'
<1>1. /\ client[r] = "offering" /\ client'[r] = "offered"
      /\ UNCHANGED <<link, session, pending, offer, peers, pc, cand, room>>
      /\ inbox' = IF Open(r) /\ Reaches(room[r].session) THEN Append(inbox, Offered(r)) ELSE inbox
      /\ inbox \in Seq(Message) /\ Offered(r) \in Message
  BY DEF SendOffer, Sent, Offered, Message, nodeVars, TypeOK
<1>2. /\ ~Has(inbox, Offered(r)) /\ Untouched(r) /\ Follows(inbox, Offered(r), Candidate(r))
      /\ Precedes(inbox, Announced(r), Offered(r)) /\ Once(inbox, Offered(r))
  BY <1>1 DEF RoomInv, InOrder
<1>3. Announced(r) # Offered(r) /\ Offered(r) # Candidate(r)
  BY DEF Announced, Offered, Candidate
<1>4. /\ Follows(inbox', Offered(r), Candidate(r))
      /\ Precedes(inbox', Announced(r), Offered(r)) /\ Once(inbox', Offered(r))
      /\ Open(r) /\ Reaches(room[r].session) => Has(inbox', Offered(r))
  BY <1>1, <1>2, <1>3, AppendOrder
<1>5. Untouched(r)' /\ (Reached(r)' => Open(r) /\ Reaches(room[r].session))
  BY <1>1, <1>2 DEF Untouched, Reached, Open, Reaches
<1>6. InOrder(r)'
  BY <1>4 DEF InOrder, Precedes, Once, Follows, Announced, Offered, Candidate
<1> QED
  BY <1>1, <1>2, <1>4, <1>5, <1>6 DEF RoomInv

LEMMA CandidateSent ==
    ASSUME TypeOK, NEW r \in Rooms, RoomInv(r), SendCandidate(r)
    PROVE  RoomInv(r)'
<1>1. /\ Reached(r) /\ client[r] \in {"offered", "answered"} /\ cand'[r] = "sent"
      /\ UNCHANGED <<link, session, pending, offer, peers, pc, client, room>>
      /\ inbox' = Append(inbox, Candidate(r)) \/ inbox' = inbox
      /\ inbox \in Seq(Message) /\ Candidate(r) \in Message
  BY DEF SendCandidate, Reached, Sent, Candidate, Message, nodeVars, serverVars, TypeOK
<1>2. /\ Untouched(r) => Has(inbox, Offered(r)) /\ Follows(inbox, Offered(r), Candidate(r))
      /\ Precedes(inbox, Announced(r), Offered(r)) /\ Once(inbox, Offered(r))
  BY <1>1 DEF RoomInv, InOrder
<1>3. Candidate(r) # Announced(r) /\ Offered(r) # Candidate(r) /\ Announced(r) # Offered(r)
  BY DEF Announced, Offered, Candidate
<1>4. /\ Untouched(r) => Follows(inbox', Offered(r), Candidate(r))
      /\ Precedes(inbox', Announced(r), Offered(r)) /\ Once(inbox', Offered(r))
      /\ Has(inbox', Announced(r)) <=> Has(inbox, Announced(r))
      /\ Has(inbox', Offered(r)) <=> Has(inbox, Offered(r))
  <2>1. CASE inbox' = inbox
    BY <1>2, <2>1
  <2>2. CASE inbox' = Append(inbox, Candidate(r))
    <3>1. Untouched(r) => Follows(inbox', Offered(r), Candidate(r))
      BY <1>1, <1>2, <1>3, <2>2, AppendOrder
    <3>2. Precedes(inbox', Announced(r), Offered(r))
      BY <1>1, <1>2, <1>3, <2>2, AppendOrder
    <3>3. /\ Once(inbox', Offered(r))
          /\ Has(inbox', Announced(r)) <=> Has(inbox, Announced(r))
          /\ Has(inbox', Offered(r)) <=> Has(inbox, Offered(r))
      BY <1>1, <1>2, <1>3, <2>2, AppendOrder
    <3> QED
      BY <3>1, <3>2, <3>3
  <2> QED
    BY <1>1, <2>1, <2>2
<1>5. (Untouched(r)' <=> Untouched(r)) /\ (Reached(r)' <=> Reached(r))
  BY <1>1 DEF Untouched, Reached, Reaches, Open
<1>6. InOrder(r)'
  BY <1>4, <1>5 DEF InOrder, Precedes, Once, Follows, Announced, Offered, Candidate
<1> QED
  BY <1>1, <1>2, <1>4, <1>5, <1>6 DEF RoomInv

\* Rooms change, if at all, by being closed.
LEMMA RoomsClose ==
    ASSUME TypeOK, NEW r \in Rooms,
           \/ UNCHANGED room
           \/ \E q \in Rooms : Open(q) /\ room' = Closed({q})
           \/ \E s : SessionEnds(s)
    PROVE  \/ room'[r] = room[r]
           \/ ~Open(r)' /\ room[r] # None /\ room'[r].session = room[r].session
<1>1. ASSUME NEW q \in Rooms, Open(q), room' = Closed({q})
      PROVE  \/ room'[r] = room[r]
             \/ ~Open(r)' /\ room[r] # None /\ room'[r].session = room[r].session
  <2>1. {q} \subseteq {o \in Rooms : Open(o)}
    BY <1>1
  <2> QED
    BY <1>1, <2>1, ClosesRooms
<1> QED
  BY <1>1, SessionEndsRooms

ClosesOnly ==
    \/ UNCHANGED room
    \/ \E q \in Rooms : Open(q) /\ room' = Closed({q})
    \/ \E s : SessionEnds(s)

LEMMA SessionsStep ==
    ASSUME TypeOK, SessionsBegun, [Next]_vars
    PROVE  SessionsBegun'
<1>1. ASSUME ClosesOnly, session' = session \/ session' = session + 1
      PROVE  SessionsBegun'
  <2> SUFFICES ASSUME NEW r \in Rooms, room'[r] # None
               PROVE  room'[r].session <= session'
    BY DEF SessionsBegun
  <2>1. room[r] # None /\ room'[r].session = room[r].session
    BY <1>1, RoomsClose DEF ClosesOnly
  <2>2. room[r].session \in Sessions /\ room[r].session <= session /\ session \in Nat
    BY <2>1 DEF SessionsBegun, TypeOK
  <2> QED
    BY <1>1, <2>1, <2>2 DEF Sessions
<1>2. ASSUME NEW r \in Rooms, NEW s \in Sessions, CreateRoom(r, s) PROVE SessionsBegun'
  <2> SUFFICES ASSUME NEW q \in Rooms, room'[q] # None
               PROVE  room'[q].session <= session'
    BY DEF SessionsBegun
  <2>1. s <= session /\ session' = session
    BY <1>2 DEF CreateRoom, TypeOK
  <2>2. CASE q = r
    BY <1>2, <2>1, <2>2 DEF CreateRoom, TypeOK
  <2>3. CASE q # r
    BY <1>2, <2>1, <2>3 DEF CreateRoom, TypeOK, SessionsBegun
  <2> QED
    BY <2>2, <2>3
<1>3. CASE ~\E r \in Rooms, s \in Sessions : CreateRoom(r, s)
  <2>1. ClosesOnly
    BY <1>3
       DEF Next, vars, serverVars, ClosesOnly, Register, Retry, ConnectDies, LinkBreaks, LossNoticed,
           Shutdown, ServerForgetsSession, NewRoom, OfferBegins, OfferAnswered, OfferFails,
           IceCandidate, RoomClosed, TimerFires, PcConnects, PcFails, ClientPcFails, SendOffer,
           ClientCut, SendCandidate, ClientReads, ChatReceiveRaises, ClientLeaves,
           ServerForgetsClient
  <2>2. session' = session \/ session' = session + 1
    BY <1>3
       DEF Next, vars, Register, Retry, ConnectDies, LinkBreaks, LossNoticed, ListenEnds, Reads,
           Shutdown, ServerForgetsSession, NewRoom, OfferBegins, OfferAnswered, OfferFails,
           IceCandidate, RoomClosed, TimerFires, PcConnects, PcFails, ClientPcFails, SendOffer,
           ClientCut, SendCandidate, ClientReads, ChatReceiveRaises, ClientLeaves,
           ServerForgetsClient
  <2> QED
    BY <1>1, <2>1, <2>2
<1> QED
  BY <1>2, <1>3

LEMMA RoomStep ==
    ASSUME TypeOK, SessionsBegun, [Next]_vars, NEW p \in Rooms, RoomInv(p)
    PROVE  RoomInv(p)'
<1>1. inbox' = inbox => LeavesInbox(p)
  BY DEF LeavesInbox
<1>2. ClosesOnly => room'[p] = room[p] \/ ~Open(p)'
  BY RoomsClose DEF ClosesOnly
\* The link, with the inbox as it is, or emptied.
<1>3. ASSUME Register PROVE RoomInv(p)'
  <2>1. /\ inbox' = <<>> /\ session' = session + 1 /\ link' = "up"
        /\ UNCHANGED <<nodeVars, room, clientVars>>
    BY <1>3 DEF Register
  <2>2. ~Reached(p)'
    <3> SUFFICES ASSUME room[p] # None PROVE room[p].session # session'
      BY <2>1 DEF Reached, Reaches, Open
    <3>1. room[p].session \in Sessions /\ room[p].session <= session /\ session \in Nat
      BY DEF TypeOK, SessionsBegun
    <3> QED
      BY <2>1, <3>1 DEF Sessions
  <2> QED
    BY <2>1, <2>2, Undisturbed DEF nodeVars, clientVars
<1>4. ASSUME Retry \/ ConnectDies \/ LinkBreaks \/ LossNoticed PROVE RoomInv(p)'
  <2>1. /\ \/ inbox' = inbox
           \/ inbox' = <<>> /\ link' = "connecting"
        /\ session' = session /\ (link' = "up" => link = "up")
        /\ UNCHANGED <<nodeVars, serverVars, clientVars>>
    BY <1>4 DEF Retry, ConnectDies, LinkBreaks, LossNoticed, ListenEnds
  <2> QED
    BY <1>1, <2>1, Bystander DEF nodeVars, serverVars, clientVars
<1>5. ASSUME Shutdown PROVE RoomInv(p)'
  <2>1. /\ inbox' = <<>> /\ link' = "stopped" /\ pending' = {} /\ offer' = None /\ peers' = {}
        /\ pc'[p] = IF p \in peers THEN "closed" ELSE pc[p]
        /\ UNCHANGED <<client, cand>> /\ p # None
    BY <1>5, ConnectorAssumption DEF Shutdown, clientVars, serverVars
  <2>2. /\ ~Has(inbox', Announced(p)) /\ ~Has(inbox', Offered(p)) /\ ~Has(inbox', Candidate(p))
        /\ InOrder(p)'
    BY <2>1, EmptyOrder DEF InOrder, Precedes, Once, Follows
  <2>3. ~Reached(p)' /\ (Untouched(p) => Untouched(p)')
    BY <2>1 DEF Reached, Reaches, Untouched, RoomInv
  <2>4. /\ ~(pc'[p] \in {"checking", "connected"})
        /\ cand'[p] = "ignored" => pc'[p] = "closed"
    BY <2>1 DEF RoomInv
  <2> QED
    BY <2>1, <2>2, <2>3, <2>4 DEF RoomInv
<1>6. ASSUME NEW s, ServerForgetsSession(s) PROVE RoomInv(p)'
  <2>1. /\ ClosesOnly /\ UNCHANGED <<link, session, inbox, nodeVars, clientVars>>
    BY <1>6 DEF ServerForgetsSession, ClosesOnly
  <2> QED
    BY <1>1, <1>2, <2>1, Bystander DEF nodeVars, clientVars
\* The connector reads, answers and times rooms.
<1>7. ASSUME NEW r \in Rooms, NewRoom(r), r # p PROVE RoomInv(p)'
  <2>1. LeavesInbox(p) /\ UNCHANGED <<link, session>>
    BY <1>7, ReadsInbox DEF NewRoom
  <2> QED
    BY <1>7, <2>1, Bystander DEF NewRoom, serverVars, clientVars
<1>8. ASSUME NEW r \in Rooms, OfferBegins(r), r # p PROVE RoomInv(p)'
  <2>1. LeavesInbox(p) /\ UNCHANGED <<link, session>>
    BY <1>8, ReadsInbox DEF OfferBegins
  <2>2. offer = None /\ offer' # p /\ offer # p
    BY <1>8, ConnectorAssumption DEF OfferBegins, Reads
  <2> QED
    BY <1>8, <2>1, <2>2, Bystander DEF OfferBegins, serverVars, clientVars
<1>9. ASSUME NEW r \in Rooms, OfferAnswered(r), r # p PROVE RoomInv(p)'
  <2>1. /\ ClosesOnly /\ inbox' = inbox /\ session' = session /\ (link' = "up" => link = "up")
        /\ UNCHANGED <<pending, clientVars>>
    BY <1>9 DEF OfferAnswered, ClosesOnly
  <2>2. /\ offer # p /\ offer' # p /\ pc'[p] = pc[p] /\ (p \in peers' <=> p \in peers)
    BY <1>9, ConnectorAssumption DEF OfferAnswered, TypeOK
  <2> QED
    BY <1>1, <1>2, <2>1, <2>2, Bystander DEF clientVars
<1>10. ASSUME NEW r \in Rooms, OfferFails(r) PROVE RoomInv(p)'
  <2>1. /\ inbox' = <<>> /\ link' = "connecting" /\ session' = session /\ offer' = None /\ p # None
        /\ UNCHANGED <<pending, peers, pc, serverVars, clientVars>>
    BY <1>10, ConnectorAssumption DEF OfferFails, ListenEnds
  <2>2. /\ ~Has(inbox', Announced(p)) /\ ~Has(inbox', Offered(p)) /\ ~Has(inbox', Candidate(p))
        /\ InOrder(p)'
    BY <2>1, EmptyOrder DEF InOrder, Precedes, Once, Follows
  <2>3. ~Reached(p)' /\ (Untouched(p) => Untouched(p)')
    BY <2>1 DEF Reached, Reaches, Untouched
  <2> QED
    BY <2>1, <2>2, <2>3 DEF RoomInv, serverVars, clientVars
<1>11. ASSUME NEW r \in Rooms, IceCandidate(r), r # p PROVE RoomInv(p)'
  <2>1. LeavesInbox(p) /\ UNCHANGED <<link, session>>
    BY <1>11, ReadsInbox DEF IceCandidate
  <2> QED
    BY <1>11, <2>1, Bystander DEF IceCandidate, nodeVars, serverVars, TypeOK
<1>12. ASSUME NEW r \in Rooms, RoomClosed(r) PROVE RoomInv(p)'
  <2>1. LeavesInbox(p) /\ UNCHANGED <<link, session>>
    BY <1>12, ReadsInbox DEF RoomClosed
  <2> QED
    BY <1>12, <2>1, Bystander DEF RoomClosed, serverVars, clientVars
<1>13. ASSUME NEW r \in Rooms, TimerFires(r) PROVE RoomInv(p)'
  <2>1. /\ ClosesOnly /\ LeavesInbox(p) /\ pending' \subseteq pending
        /\ UNCHANGED <<link, session, offer, peers, pc, clientVars>>
    <3>1. LeavesInbox(p)
      <4>1. CASE link = "up" /\ Open(r)
        BY <1>13, <4>1, SendsInbox DEF TimerFires
      <4>2. CASE ~(link = "up" /\ Open(r))
        BY <1>1, <1>13, <4>2 DEF TimerFires
      <4> QED
        BY <4>1, <4>2
    <3>2. ClosesOnly
      BY <1>13 DEF TimerFires, ClosesOnly
    <3> QED
      BY <1>13, <3>1, <3>2 DEF TimerFires
  <2> QED
    BY <1>2, <2>1, Bystander DEF clientVars
<1>14. ASSUME NEW r \in Rooms, PcConnects(r) \/ PcFails(r) PROVE RoomInv(p)'
  <2>1. /\ UNCHANGED <<link, session, inbox, pending, offer, serverVars, cand>>
        /\ pc[r] \in {"checking", "connected"}
        /\ client'[p] = client[p] \/ client'[p] = "connected"
    BY <1>14 DEF PcConnects, PcFails, clientVars, TypeOK
  <2>2. CASE p # r
    <3>1. pc'[p] = pc[p] /\ (p \in peers' <=> p \in peers) /\ client'[p] = client[p]
      BY <1>14, <2>2 DEF PcConnects, PcFails, clientVars, TypeOK
    <3> QED
      BY <1>1, <2>1, <3>1, Bystander DEF serverVars
  <2>3. CASE p = r
    <3>1. /\ pc'[p] \in {"connected", "closed"} /\ (p \in peers' <=> pc'[p] = "connected")
          /\ pc'[p] = "closed" \/ pc[p] = "checking"
      BY <1>14, <2>1, <2>3 DEF PcConnects, PcFails, RoomInv, TypeOK
    <3>2. ~Untouched(p) /\ ~Untouched(p)'
      BY <2>1, <2>3, <3>1 DEF Untouched
    <3>3. InOrder(p)' /\ offer' # p
      BY <2>1, <2>3, <3>2 DEF RoomInv, InOrder, Precedes, Once
    <3> QED
      BY <2>1, <2>3, <3>1, <3>2, <3>3 DEF RoomInv, Has
  <2> QED
    BY <2>2, <2>3
\* The clients.
<1>15. ASSUME NEW r \in Rooms,
              ClientPcFails(r) \/ ChatReceiveRaises(r) \/ ClientReads(r) \/ ClientLeaves(r)
       PROVE  RoomInv(p)'
  <2>1. /\ UNCHANGED <<link, session, inbox, nodeVars, room, cand>>
        /\ client'[p] \in {"idle", "offering"} => client'[p] = client[p]
        /\ client'[p] \in {"offered", "answered"} => client[p] \in {"offered", "answered"}
    BY <1>15 DEF ClientPcFails, ChatReceiveRaises, ClientReads, After, ClientLeaves, serverVars, TypeOK
  <2> QED
    BY <1>1, <2>1, Bystander DEF nodeVars
<1>16. ASSUME NEW r \in Rooms, NEW s \in Sessions, CreateRoom(r, s), r # p PROVE RoomInv(p)'
  <2>1. LeavesInbox(p)
    BY <1>1, <1>16, SendsInbox DEF CreateRoom
  <2>2. client'[p] = client[p] /\ room'[p] = room[p]
    BY <1>16 DEF CreateRoom, TypeOK
  <2> QED
    BY <1>16, <2>1, <2>2, Bystander DEF CreateRoom, nodeVars
<1>17. ASSUME NEW r \in Rooms, ClientCut(r), Open(r) PROVE RoomInv(p)'
  <2>1. /\ ClosesOnly /\ UNCHANGED <<link, session, inbox, nodeVars, cand>>
        /\ client'[p] = client[p] \/ client'[p] = "cut"
    BY <1>17 DEF ClientCut, ClosesOnly, TypeOK
  <2> QED
    BY <1>1, <1>2, <2>1, Bystander DEF nodeVars
<1>18. ASSUME NEW r \in Rooms, SendOffer(r), ~(ClientCut(r) /\ Open(r)), r # p PROVE RoomInv(p)'
  <2>1. LeavesInbox(p)
    BY <1>1, <1>18, SendsInbox DEF SendOffer
  <2>2. client'[p] = client[p] /\ UNCHANGED <<link, session, nodeVars, cand, room>>
    BY <1>18 DEF SendOffer, TypeOK
  <2> QED
    BY <2>1, <2>2, Bystander DEF nodeVars
<1>19. ASSUME NEW r \in Rooms, SendCandidate(r), r # p PROVE RoomInv(p)'
  <2>1. LeavesInbox(p)
    BY <1>19, SendsInbox DEF SendCandidate
  <2>2. cand'[p] = cand[p] /\ UNCHANGED <<link, session, nodeVars, client, room>>
    BY <1>19 DEF SendCandidate, serverVars, TypeOK
  <2> QED
    BY <2>1, <2>2, Bystander DEF nodeVars
<1>20. ASSUME NEW r \in Rooms, ServerForgetsClient(r) PROVE RoomInv(p)'
  <2>1. ClosesOnly /\ UNCHANGED <<link, session, inbox, nodeVars, clientVars>>
    BY <1>20 DEF ServerForgetsClient, ClosesOnly
  <2> QED
    BY <1>1, <1>2, <2>1, Bystander DEF nodeVars, clientVars
<1>21. CASE UNCHANGED vars
  BY <1>1, <1>21, Bystander DEF vars, nodeVars, serverVars, clientVars
<1>22. ASSUME NEW r \in Rooms,
              NewRoom(r) \/ OfferBegins(r) \/ OfferAnswered(r) \/ IceCandidate(r)
       PROVE  RoomInv(p)'
  BY <1>7, <1>8, <1>9, <1>11, <1>22, AnnouncementRead, OfferRead, AnswerGiven, CandidateRead
<1>23. ASSUME NEW r \in Rooms, NEW s \in Sessions, CreateRoom(r, s) PROVE RoomInv(p)'
  BY <1>16, <1>23, RoomCreated
<1>24. ASSUME NEW r \in Rooms, SendOffer(r) \/ SendCandidate(r) PROVE RoomInv(p)'
  BY <1>17, <1>18, <1>19, <1>24, OfferSent, CandidateSent
<1> QED
  BY <1>3, <1>4, <1>5, <1>6, <1>10, <1>12, <1>13, <1>14, <1>15, <1>20, <1>21, <1>22, <1>23,
     <1>24 DEF Next

LEMMA ConnectorInitially == Init => ConnectorInv
<1> SUFFICES ASSUME Init PROVE SessionsBegun /\ \A r \in Rooms : RoomInv(r)
  BY TypeInitially DEF ConnectorInv
<1>1. inbox = <<>> /\ offer = None /\ pending = {} /\ peers = {}
  BY DEF Init
<1>2. \A r \in Rooms : /\ pc[r] = "none" /\ room[r] = None /\ client[r] = "idle" /\ cand[r] = "none"
                       /\ r # None
  BY ConnectorAssumption DEF Init
<1>3. \A r \in Rooms : ~Reached(r)
  BY <1>2 DEF Reached
<1> QED
  BY <1>1, <1>2, <1>3, EmptyOrder DEF SessionsBegun, RoomInv, InOrder, Untouched

LEMMA ConnectorStep ==
    ASSUME ConnectorInv, [Next]_vars
    PROVE  ConnectorInv'
  BY TypeStep, SessionsStep, RoomStep DEF ConnectorInv

\* A room's timer never runs once its offer is being answered or was
\* (cli.py:42-50, 66-68): its new_room is read before its only offer.
THEOREM AnsweredRoomsHaveNoTimer == Spec => []NoTimerForAnswered
<1>1. ConnectorInv => NoTimerForAnswered
  BY DEF ConnectorInv, RoomInv, Untouched, NoTimerForAnswered, TypeOK
<1> QED
  BY <1>1, ConnectorInitially, ConnectorStep, PTL DEF Spec

\* A candidate follows the offer of its client and is ignored only if the peer
\* has been removed again (webrtc_responder.py:246-249), although offers are
\* lost with the session they were sent in.
THEOREM CandidatesFindPeers == Spec => []CandidateFindsPeer
<1>1. ConnectorInv => CandidateFindsPeer
  BY DEF ConnectorInv, RoomInv, CandidateFindsPeer
<1> QED
  BY <1>1, ConnectorInitially, ConnectorStep, PTL DEF Spec
=============================================================================
