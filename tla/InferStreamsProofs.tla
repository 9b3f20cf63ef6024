-------------------------- MODULE InferStreamsProofs --------------------------
(***************************************************************************)
(* InferStreams, for any finite sets of requests, any number of chunks and *)
(* of permits.                                                             *)
(*                                                                         *)
(* First, the permits are conserved.  They alone are not inductive: a      *)
(* request that is asked again while it streams would lose one, so the     *)
(* invariant adds that a caller still idle has an idle task.               *)
(*                                                                         *)
(* Second, the chunks a caller is given rise in number: so do, behind      *)
(* them, the message in the mail and those on the wire (Ordered).          *)
(*                                                                         *)
(* Third, the stream of a caller that always waits when a message comes    *)
(* implements ChunkStream: the same messages then follow each other        *)
(* without a gap, and up to the number the task has sent (Straight).       *)
(***************************************************************************)
EXTENDS InferStreams, FiniteSetTheorems, TLAPS

Streaming == {q \in Requests : task[q] = "streaming"}

PermitInv ==
    /\ task \in [Requests -> {"idle", "asked", "streaming", "ended"}]
    /\ caller \in [Requests -> {"idle", "busy", "waiting", "done", "failed"}]
    /\ \A q \in Requests : caller[q] = "idle" => task[q] = "idle"
    /\ free \in Nat
    /\ PermitsConserved

LEMMA FiniteStreaming == IsFiniteSet(Streaming) /\ Cardinality(Streaming) \in Nat
<1>1. IsFiniteSet(Requests)
  BY StreamAssumption, FS_Union DEF Requests
<1>2. IsFiniteSet(Streaming)
  BY <1>1, FS_Subset DEF Streaming
<1> QED
  BY <1>2, FS_CardinalityType

\* A step that changes no task and no permit.
KeepsPermits == UNCHANGED <<task, free>>

\* One task more streams, with a permit; or one less, and its permit is free.
Takes(q) ==
    /\ q \in Requests /\ task[q] = "asked" /\ free > 0
    /\ task' = [task EXCEPT ![q] = "streaming"] /\ free' = free - 1

Returns(q) ==
    /\ q \in Requests /\ task[q] = "streaming"
    /\ task' = [task EXCEPT ![q] = "ended"] /\ free' = free + 1

LEMMA TakesConserves ==
    ASSUME PermitInv, NEW q, Takes(q)
    PROVE  free' \in Nat /\ PermitsConserved'
<1>1. Streaming' = Streaming \cup {q} /\ q \notin Streaming
  BY DEF PermitInv, Takes, Streaming
<1>2. Cardinality(Streaming') = Cardinality(Streaming) + 1
  BY <1>1, FiniteStreaming, FS_AddElement
<1>3. free + Cardinality(Streaming) = MaxStreams
  BY DEF PermitInv, PermitsConserved, Streaming
<1>4. free' + Cardinality(Streaming') = MaxStreams /\ free' \in Nat
  BY <1>2, <1>3, FiniteStreaming, StreamAssumption DEF PermitInv, Takes
<1> QED
  BY <1>4 DEF PermitsConserved, Streaming

LEMMA ReturnsConserves ==
    ASSUME PermitInv, NEW q, Returns(q)
    PROVE  free' \in Nat /\ PermitsConserved'
<1>1. Streaming' = Streaming \ {q} /\ q \in Streaming
  BY DEF PermitInv, Returns, Streaming
<1>2. Cardinality(Streaming') = Cardinality(Streaming) - 1
  BY <1>1, FiniteStreaming, FS_RemoveElement
<1>3. free + Cardinality(Streaming) = MaxStreams
  BY DEF PermitInv, PermitsConserved, Streaming
<1>4. free' + Cardinality(Streaming') = MaxStreams /\ free' \in Nat
  BY <1>2, <1>3, FiniteStreaming, StreamAssumption DEF PermitInv, Returns
<1> QED
  BY <1>4 DEF PermitsConserved, Streaming

LEMMA PermitsInitially == Init => PermitInv
<1> SUFFICES ASSUME Init PROVE PermitInv
  OBVIOUS
<1>1. Streaming = {}
  BY DEF Init, Streaming
<1>2. Cardinality(Streaming) = 0
  BY <1>1, FS_EmptySet
<1> QED
  BY <1>2, StreamAssumption DEF Init, PermitInv, PermitsConserved, Streaming

LEMMA PermitsStep ==
    ASSUME PermitInv, [Next]_vars
    PROVE  PermitInv'
\* The three kinds of step, and what each asks of the callers.
<1>1. ASSUME KeepsPermits,
             caller' \in [Requests -> {"idle", "busy", "waiting", "done", "failed"}],
             \A q \in Requests : caller'[q] = "idle" => caller[q] = "idle"
      PROVE  PermitInv'
  BY <1>1 DEF PermitInv, KeepsPermits, PermitsConserved
<1>2. ASSUME NEW q, Takes(q), UNCHANGED caller PROVE PermitInv'
  BY <1>2, TakesConserves DEF PermitInv, Takes
<1>3. ASSUME NEW q, Returns(q), UNCHANGED caller PROVE PermitInv'
  BY <1>3, ReturnsConserves DEF PermitInv, Returns
<1>4. CASE ChannelCloses
  BY <1>1, <1>4 DEF ChannelCloses, KeepsPermits, PermitInv, sdkVars
<1>5. ASSUME NEW q \in Requests, Ask(q) PROVE PermitInv'
  <2>1. /\ caller[q] = "idle" /\ task' = [task EXCEPT ![q] = "asked"]
        /\ caller' \in [Requests -> {"idle", "busy", "waiting", "done", "failed"}]
        /\ \A p \in Requests : caller'[p] = "idle" => p # q /\ caller[p] = "idle"
        /\ free' = free
    BY <1>5 DEF Ask, PermitInv
  <2>2. task[q] = "idle"
    BY <2>1 DEF PermitInv
  <2>3. Streaming' = Streaming
    BY <2>1, <2>2 DEF PermitInv, Streaming
  <2>4. PermitsConserved'
    BY <2>1, <2>3 DEF PermitInv, PermitsConserved, Streaming
  <2> QED
    BY <2>1, <2>4 DEF PermitInv
<1>6. ASSUME NEW q \in Requests, BeginStream(q) PROVE PermitInv'
  BY <1>2, <1>6 DEF BeginStream, Takes, sdkVars
<1>7. ASSUME NEW q \in Requests, SendChunk(q) PROVE PermitInv'
  <2>1. UNCHANGED caller /\ (KeepsPermits \/ Returns(q))
    BY <1>7 DEF SendChunk, TaskEnds, Returns, KeepsPermits, sdkVars
  <2> QED
    BY <1>1, <1>3, <2>1 DEF PermitInv
<1>8. ASSUME NEW q \in Requests,
             SendDone(q) \/ SendError(q) \/ EngineFails(q) \/ ResponseCut(q)
      PROVE  PermitInv'
  BY <1>3, <1>8
     DEF SendDone, SendError, EngineFails, ResponseCut, TaskEnds, Returns, sdkVars
<1>9. ASSUME NEW q \in Requests, NEW m, Given(q, m), KeepsPermits PROVE PermitInv'
  <2>1. /\ caller' \in [Requests -> {"idle", "busy", "waiting", "done", "failed"}]
        /\ \A p \in Requests : caller'[p] = "idle" => caller[p] = "idle"
    BY <1>9 DEF Given, PermitInv
  <2> QED
    BY <1>1, <1>9, <2>1
<1>10. ASSUME NEW q \in Requests, ArrivesInPython(q) PROVE PermitInv'
  BY <1>1, <1>10 DEF ArrivesInPython, Arrives, nodeVars, KeepsPermits, PermitInv
<1>11. ASSUME NEW q \in Requests, ArrivesInJs(q) PROVE PermitInv'
  <2>1. KeepsPermits /\ (UNCHANGED caller \/ \E m : Given(q, m))
    BY <1>11 DEF ArrivesInJs, Arrives, nodeVars, KeepsPermits
  <2> QED
    BY <1>1, <1>9, <2>1 DEF PermitInv
<1>12. ASSUME NEW q \in Requests, FutureSet(q) PROVE PermitInv'
  BY <1>9, <1>12 DEF FutureSet, nodeVars, KeepsPermits
<1>13. ASSUME NEW q \in Requests, NextInPython(q) \/ Timeout(q) \/ NextInJs(q)
       PROVE  PermitInv'
  <2>1. /\ KeepsPermits
        /\ caller' \in [Requests -> {"idle", "busy", "waiting", "done", "failed"}]
        /\ \A p \in Requests : caller'[p] = "idle" => caller[p] = "idle"
    BY <1>13 DEF NextInPython, Timeout, NextInJs, nodeVars, KeepsPermits, PermitInv
  <2> QED
    BY <1>1, <2>1
<1>14. CASE UNCHANGED vars
  BY <1>1, <1>14 DEF vars, nodeVars, sdkVars, KeepsPermits, PermitInv
<1> QED
  BY <1>4, <1>5, <1>6, <1>7, <1>8, <1>10, <1>11, <1>12, <1>13, <1>14 DEF Next

\* Every way out of a stream gives its permit back (webrtc_responder.py:119-121,
\* 140-196), so that permits and streams always make max_concurrent_requests.
THEOREM PermitsAreConserved == Spec => []PermitsConserved
<1>1. PermitInv => PermitsConserved
  BY DEF PermitInv
<1> QED
  BY <1>1, PermitsInitially, PermitsStep, PTL DEF Spec
-----------------------------------------------------------------------------
(* Types. *)

LEMMA PermitBound == PermitInv => free \in 0..MaxStreams
  BY FiniteStreaming, StreamAssumption DEF PermitInv, PermitsConserved, Streaming

LEMMA MessageFacts ==
    /\ Chunks \in Nat /\ 1..Chunks \subseteq Messages /\ {Done, Error, Blank} \subseteq Messages
    /\ Done \notin 1..Chunks /\ Error \notin 1..Chunks /\ Blank \notin 1..Chunks
    /\ Messages \subseteq Nat \ {0} /\ Empty = 0
    /\ \A m \in Messages : m < Done <=> m \in 1..Chunks
    /\ Done < Error /\ Error < Blank
  BY StreamAssumption DEF Messages, Done, Error, Blank, Empty

LEMMA TypeStep ==
    ASSUME TypeOK, PermitInv, PermitInv', [Next]_vars
    PROVE  TypeOK'
<1>1. /\ task' \in [Requests -> {"idle", "asked", "streaming", "ended"}]
      /\ caller' \in [Requests -> {"idle", "busy", "waiting", "done", "failed"}]
      /\ free' \in 0..MaxStreams
  <2>1. PermitInv' => (free \in 0..MaxStreams)'
    BY PermitBound, PTL
  <2> QED
    BY <2>1 DEF PermitInv
<1>2. ASSUME /\ UNCHANGED <<server, prompt>> /\ channel' \in {"open", "closed"}
             /\ sent' \in [Requests -> 0..Chunks]
             /\ wire' \in [Requests -> Seq(Messages)]
             /\ mail' \in [Requests -> Messages \cup {Empty}]
             /\ got' \in [Requests -> Seq(1..Chunks)]
      PROVE  TypeOK'
  BY <1>1, <1>2 DEF TypeOK, Messages, Blank, Empty, Requests
<1>3. ASSUME NEW q \in Requests, NEW m \in Messages, Sends(q, m)
      PROVE  wire' \in [Requests -> Seq(Messages)]
  BY <1>3 DEF Sends, TypeOK
<1>4. ASSUME NEW q \in Requests, NEW m \in Messages, Given(q, m)
      PROVE  got' \in [Requests -> Seq(1..Chunks)]
  BY <1>4, MessageFacts DEF Given, TypeOK
<1>5. ASSUME NEW q \in Requests, NEW m \in Messages, Arrives(q, m)
      PROVE  /\ wire' \in [Requests -> Seq(Messages)]
             /\ UNCHANGED <<server, channel, sent, prompt>>
  BY <1>5 DEF Arrives, TypeOK, nodeVars
<1>6. CASE ChannelCloses
  BY <1>2, <1>6 DEF ChannelCloses, TypeOK, sdkVars
<1>7. ASSUME NEW q \in Requests,
             Ask(q) \/ BeginStream(q) \/ ResponseCut(q) \/ Timeout(q)
      PROVE  TypeOK'
  BY <1>2, <1>7 DEF Ask, BeginStream, ResponseCut, Timeout, TypeOK, sdkVars, nodeVars
<1>8. ASSUME NEW q \in Requests, SendChunk(q) PROVE TypeOK'
  <2>1. sent[q] + 1 \in Messages /\ sent' \in [Requests -> 0..Chunks]
    BY <1>8, MessageFacts DEF SendChunk, TypeOK
  <2> QED
    BY <1>2, <1>3, <1>8, <2>1 DEF SendChunk, TypeOK, sdkVars
<1>9. ASSUME NEW q \in Requests, SendDone(q) \/ SendError(q) \/ EngineFails(q) PROVE TypeOK'
  BY <1>2, <1>3, <1>9, MessageFacts DEF SendDone, SendError, EngineFails, TypeOK, sdkVars
<1>10. ASSUME NEW q \in Requests, ArrivesInPython(q) PROVE TypeOK'
  <2>1. PICK m \in Messages :
           Arrives(q, m) /\ mail' = [mail EXCEPT ![q] = IF @ = Empty THEN m ELSE @] /\ got' = got
    BY <1>10 DEF ArrivesInPython
  <2> QED
    BY <1>2, <1>5, <2>1 DEF TypeOK
<1>11. ASSUME NEW q \in Requests, ArrivesInJs(q) PROVE TypeOK'
  <2>1. PICK m \in Messages :
           /\ Arrives(q, m)
           /\ \/ Given(q, m) /\ mail' = mail
              \/ /\ mail' = [mail EXCEPT ![q] = IF @ = Empty /\ m # Error THEN m ELSE Empty]
                 /\ got' = got
    BY <1>11 DEF ArrivesInJs
  <2>2. mail' \in [Requests -> Messages \cup {Empty}]
    BY <2>1 DEF TypeOK
  <2>3. got' \in [Requests -> Seq(1..Chunks)]
    BY <1>4, <2>1 DEF TypeOK
  <2>4. wire' \in [Requests -> Seq(Messages)] /\ UNCHANGED <<server, channel, sent, prompt>>
    BY <1>5, <2>1
  <2>5. channel' \in {"open", "closed"} /\ sent' \in [Requests -> 0..Chunks]
    BY <2>4 DEF TypeOK
  <2> QED
    BY <1>2, <2>2, <2>3, <2>4, <2>5
<1>12. ASSUME NEW q \in Requests, FutureSet(q) PROVE TypeOK'
  <2>1. mail[q] \in Messages /\ Given(q, mail[q])
    BY <1>12 DEF FutureSet, TypeOK
  <2> QED
    BY <1>2, <1>4, <1>12, <2>1 DEF FutureSet, nodeVars, TypeOK
<1>13. ASSUME NEW q \in Requests, NextInPython(q) \/ NextInJs(q) PROVE TypeOK'
  BY <1>2, <1>13 DEF NextInPython, NextInJs, nodeVars, TypeOK
<1>14. CASE UNCHANGED vars
  BY <1>2, <1>14 DEF vars, nodeVars, sdkVars, TypeOK
<1> QED
  BY <1>6, <1>7, <1>8, <1>9, <1>10, <1>11, <1>12, <1>13, <1>14 DEF Next

LEMMA TypeInitially == Init => TypeOK
  BY StreamAssumption DEF Init, TypeOK

FlowInv == TypeOK /\ PermitInv

LEMMA FlowInitially == Init => FlowInv
  BY TypeInitially, PermitsInitially DEF FlowInv

LEMMA FlowStep ==
    ASSUME FlowInv, [Next]_vars
    PROVE  FlowInv'
  BY TypeStep, PermitsStep DEF FlowInv

\* The state of the tasks, the wire and both SDKs is always of its type: above
\* all, _request_sem holds between no permit and all of them.
THEOREM TypeCorrect == Spec => []TypeOK
<1>1. FlowInv => TypeOK
  BY DEF FlowInv
<1> QED
  BY <1>1, FlowInitially, FlowStep, PTL DEF Spec

-----------------------------------------------------------------------------
(* Order.                                                                  *)
(*                                                                         *)
(* The messages of a request, from those its caller was given over the one *)
(* in the mail to those on the wire, have rising numbers, and none is      *)
(* ahead of the task that sends them.  A Python mail is not a message of   *)
(* its own while the caller is busy: it is the last one given.             *)

Rising(s) == \A i, j \in DOMAIN s : i < j => s[i] < s[j]

\* No message of s has a number above n, or the number n.
UpTo(s, n) == \A i \in DOMAIN s : s[i] <= n
Before(s, n) == \A i \in DOMAIN s : s[i] < n

Ordered(q) ==
    /\ Rising(got[q]) /\ Rising(wire[q])
    /\ \A i \in DOMAIN wire[q] : mail[q] < wire[q][i] /\ Before(got[q], wire[q][i])
    /\ caller[q] = "waiting" /\ mail[q] # Empty => Before(got[q], mail[q])
    /\ caller[q] = "idle" => got[q] = <<>>
    /\ task[q] # "ended" =>
          mail[q] <= sent[q] /\ UpTo(wire[q], sent[q]) /\ UpTo(got[q], sent[q])

OrderInv == FlowInv /\ \A q \in Requests : Ordered(q)

LEMMA AppendRises ==
    ASSUME NEW s \in Seq(Nat), NEW n \in Nat, Rising(s), Before(s, n)
    PROVE  /\ Rising(Append(s, n))
           /\ \A k \in Nat : Before(s, k) /\ n < k => Before(Append(s, n), k)
           /\ \A k \in Nat : UpTo(s, k) /\ n <= k => UpTo(Append(s, n), k)
           /\ \A i \in DOMAIN Append(s, n) :
                 \/ i \in DOMAIN s /\ Append(s, n)[i] = s[i]
                 \/ Append(s, n)[i] = n
<1>1. /\ DOMAIN s = 1..Len(s) /\ DOMAIN Append(s, n) = 1..(Len(s) + 1) /\ Len(s) \in Nat
      /\ \A i \in 1..Len(s) : Append(s, n)[i] = s[i] /\ s[i] \in Nat
      /\ Append(s, n)[Len(s) + 1] = n
  OBVIOUS
<1> DEFINE t == Append(s, n)
<1>2. \A i \in DOMAIN t : i \in DOMAIN s \/ i = Len(s) + 1
  BY <1>1
<1> HIDE DEF t
<1>3. Rising(t)
  BY <1>1, <1>2 DEF Rising, Before, t
<1> QED
  BY <1>1, <1>2, <1>3 DEF Before, UpTo, t

LEMMA TailRises ==
    ASSUME NEW s \in Seq(Nat), s # <<>>, Rising(s)
    PROVE  /\ Rising(Tail(s)) /\ Head(s) = s[1] /\ 1 \in DOMAIN s
           /\ \A i \in DOMAIN Tail(s) :
                 /\ i + 1 \in DOMAIN s /\ Tail(s)[i] = s[i + 1] /\ Head(s) < Tail(s)[i]
<1>1. /\ DOMAIN s = 1..Len(s) /\ Len(s) \in Nat \ {0} /\ DOMAIN Tail(s) = 1..(Len(s) - 1)
      /\ \A i \in 1..(Len(s) - 1) : Tail(s)[i] = s[i + 1]
      /\ Head(s) = s[1] /\ \A i \in 1..Len(s) : s[i] \in Nat
  OBVIOUS
<1> DEFINE t == Tail(s)
<1>2. \A i \in DOMAIN t : i \in Nat /\ i + 1 \in DOMAIN s /\ 1 < i + 1 /\ t[i] = s[i + 1]
  BY <1>1
<1> HIDE DEF t
<1>3. Rising(t)
  BY <1>1, <1>2 DEF Rising
<1> QED
  BY <1>1, <1>2, <1>3 DEF Rising, t

LEMMA SequenceOfNumbers ==
    ASSUME NEW S, S \subseteq Nat, NEW s \in Seq(S)
    PROVE  s \in Seq(Nat) /\ \A i \in DOMAIN s : s[i] \in S
<1>1. /\ Len(s) \in Nat /\ DOMAIN s = 1..Len(s) /\ s = [i \in 1..Len(s) |-> s[i]]
      /\ \A i \in 1..Len(s) : s[i] \in S
  OBVIOUS
<1>2. \A i \in 1..Len(s) : s[i] \in Nat
  BY <1>1
<1> QED
  BY <1>1, <1>2

LEMMA NumberFacts ==
    ASSUME TypeOK, NEW q \in Requests
    PROVE  /\ got[q] \in Seq(Nat) /\ wire[q] \in Seq(Nat) /\ wire[q] \in Seq(Messages)
           /\ \A i \in DOMAIN wire[q] : wire[q][i] \in Nat \ {0}
           /\ \A i \in DOMAIN got[q] : got[q][i] \in Nat
           /\ mail[q] \in Nat /\ sent[q] \in Nat
<1> DEFINE numbers == 1..Chunks
<1>1. /\ got[q] \in Seq(numbers) /\ wire[q] \in Seq(Messages)
      /\ mail[q] \in Messages \cup {0} /\ sent[q] \in 0..Chunks
  BY MessageFacts DEF TypeOK
<1>2. numbers \subseteq Nat /\ Messages \subseteq Nat /\ Messages \subseteq Nat \ {0}
  BY MessageFacts
<1>3. sent[q] \in Nat
  BY <1>1
<1>5. mail[q] \in Nat
  <2>1. mail[q] \in Messages \/ mail[q] = 0
    BY <1>1
  <2>2. \A m \in Messages : m \in Nat
    BY MessageFacts
  <2> QED
    BY <2>1, <2>2
<1> HIDE DEF numbers
<1>4. /\ got[q] \in Seq(Nat) /\ \A i \in DOMAIN got[q] : got[q][i] \in Nat
      /\ wire[q] \in Seq(Nat) /\ \A i \in DOMAIN wire[q] : wire[q][i] \in Messages
  BY <1>1, <1>2, SequenceOfNumbers
<1> QED
  BY <1>1, <1>2, <1>3, <1>4, <1>5

\* What may happen to a request, and keeps it ordered.  Messages are dropped,
\* or the caller goes on without one.
LEMMA DropsKeepOrder ==
    ASSUME FlowInv, NEW q \in Requests, Ordered(q),
           got'[q] = got[q], wire'[q] \in {wire[q], <<>>}, mail'[q] \in {mail[q], Empty},
           caller'[q] = "waiting" => caller[q] \in {"waiting", "idle"} \/ mail'[q] = Empty,
           caller'[q] = "idle" => caller[q] = "idle",
           task'[q] # "ended" => task[q] # "ended",
           sent'[q] \in Nat, sent[q] <= sent'[q]
    PROVE  Ordered(q)'
<1>1. /\ got[q] \in Seq(Nat) /\ wire[q] \in Seq(Nat) /\ mail[q] \in Nat /\ sent[q] \in Nat
      /\ \A i \in DOMAIN wire[q] : wire[q][i] \in Nat \ {0}
      /\ \A i \in DOMAIN got[q] : got[q][i] \in Nat
  BY NumberFacts DEF FlowInv
<1>2. Empty = 0
  BY DEF Empty
<1>3. /\ Rising(got'[q]) /\ Rising(wire'[q])
      /\ caller'[q] = "waiting" /\ mail'[q] # Empty => Before(got'[q], mail'[q])
      /\ caller'[q] = "idle" => got'[q] = <<>>
  BY <1>1 DEF Ordered, Rising, Before
<1>4. \A i \in DOMAIN wire'[q] : mail'[q] < wire'[q][i] /\ Before(got'[q], wire'[q][i])
  <2>1. CASE wire'[q] = <<>>
    BY <2>1
  <2>2. CASE wire'[q] = wire[q]
    BY <1>1, <1>2, <2>2 DEF Ordered
  <2> QED
    BY <2>1, <2>2
<1>5. ASSUME task'[q] # "ended"
      PROVE  mail'[q] <= sent'[q] /\ UpTo(wire'[q], sent'[q]) /\ UpTo(got'[q], sent'[q])
  BY <1>1, <1>2, <1>5 DEF Ordered, UpTo
<1> QED
  BY <1>3, <1>4, <1>5 DEF Ordered

\* The task sends a message with a number of its own.
LEMMA SendingKeepsOrder ==
    ASSUME FlowInv, NEW q \in Requests, Ordered(q), NEW m \in Messages,
           task[q] # "ended", sent[q] < m, wire'[q] = Append(wire[q], m),
           got'[q] = got[q], mail'[q] = mail[q], caller'[q] = caller[q],
           task'[q] = "ended" \/ sent'[q] = m
    PROVE  Ordered(q)'
<1>1. /\ got[q] \in Seq(Nat) /\ wire[q] \in Seq(Nat) /\ mail[q] \in Nat /\ sent[q] \in Nat
      /\ \A i \in DOMAIN wire[q] : wire[q][i] \in Nat
      /\ \A i \in DOMAIN got[q] : got[q][i] \in Nat
      /\ m \in Nat
  BY NumberFacts, MessageFacts DEF FlowInv
<1>2. Before(wire[q], m) /\ Before(got[q], m) /\ mail[q] < m
  BY <1>1 DEF Ordered, UpTo, Before
<1>3. /\ Rising(wire'[q])
      /\ \A k \in Nat : UpTo(wire[q], k) /\ m <= k => UpTo(wire'[q], k)
      /\ \A i \in DOMAIN wire'[q] : \/ i \in DOMAIN wire[q] /\ wire'[q][i] = wire[q][i]
                                    \/ wire'[q][i] = m
  BY <1>1, <1>2, AppendRises DEF Ordered
<1>4. UpTo(wire[q], m) /\ UpTo(got[q], m)
  BY <1>1, <1>2 DEF UpTo, Before
<1>5. \A i \in DOMAIN wire'[q] : mail'[q] < wire'[q][i] /\ Before(got'[q], wire'[q][i])
  BY <1>2, <1>3 DEF Ordered
<1>6. ASSUME task'[q] # "ended"
      PROVE  mail'[q] <= sent'[q] /\ UpTo(wire'[q], sent'[q]) /\ UpTo(got'[q], sent'[q])
  BY <1>1, <1>2, <1>3, <1>4, <1>6
<1> QED
  BY <1>3, <1>5, <1>6 DEF Ordered

\* What is on the wire after the first message has come out of the channel.
LEMMA TailOrdered ==
    ASSUME FlowInv, NEW q \in Requests, Ordered(q), wire[q] # <<>>,
           NEW m, m = Head(wire[q]), NEW rest, rest = Tail(wire[q])
    PROVE  /\ m \in Messages /\ mail[q] < m /\ Before(got[q], m) /\ Rising(rest)
           /\ \A i \in DOMAIN rest :
                 rest[i] \in Nat /\ m < rest[i] /\ mail[q] < rest[i] /\ Before(got[q], rest[i])
           /\ task[q] # "ended" => m <= sent[q] /\ UpTo(rest, sent[q])
<1>1. wire[q] \in Seq(Messages) /\ wire[q] \in Seq(Nat)
  BY NumberFacts DEF FlowInv
<1>2. /\ Rising(rest) /\ m = wire[q][1] /\ 1 \in DOMAIN wire[q]
      /\ \A i \in DOMAIN rest : i + 1 \in DOMAIN wire[q] /\ rest[i] = wire[q][i + 1] /\ m < rest[i]
  BY <1>1, TailRises DEF Ordered
<1>3. \A i \in DOMAIN wire[q] : wire[q][i] \in Messages /\ wire[q][i] \in Nat
  BY <1>1, MessageFacts
<1> QED
  BY <1>2, <1>3 DEF Ordered, UpTo

\* It is kept, dropped, or put in the place of nothing.
LEMMA ArrivingKeepsOrder ==
    ASSUME FlowInv, NEW q \in Requests, Ordered(q), NEW m, wire[q] # <<>>, m = Head(wire[q]),
           wire'[q] = Tail(wire[q]), mail'[q] \in {mail[q], Empty, m},
           got'[q] = got[q], caller'[q] = caller[q], task'[q] = task[q], sent'[q] = sent[q]
    PROVE  Ordered(q)'
<1> DEFINE rest == Tail(wire[q])
<1>1. /\ m \in Messages /\ mail[q] < m /\ Before(got[q], m) /\ Rising(rest)
      /\ \A i \in DOMAIN rest :
            rest[i] \in Nat /\ m < rest[i] /\ mail[q] < rest[i] /\ Before(got[q], rest[i])
      /\ task[q] # "ended" => m <= sent[q] /\ UpTo(rest, sent[q])
  BY TailOrdered
<1>2. wire'[q] = rest
  OBVIOUS
<1>3. m \in Nat \ {0} /\ mail[q] \in Nat /\ sent[q] \in Nat /\ Empty = 0
  BY <1>1, NumberFacts, MessageFacts DEF FlowInv
<1> HIDE DEF rest
<1>4. \A i \in DOMAIN wire'[q] : mail'[q] < wire'[q][i] /\ Before(got'[q], wire'[q][i])
  <2> SUFFICES ASSUME NEW i \in DOMAIN rest
               PROVE  mail'[q] < rest[i] /\ Before(got[q], rest[i])
    BY <1>2
  <2> QED
    BY <1>1, <1>3
<1>5. ASSUME task'[q] # "ended"
      PROVE  mail'[q] <= sent'[q] /\ UpTo(wire'[q], sent'[q]) /\ UpTo(got'[q], sent'[q])
  BY <1>1, <1>2, <1>3, <1>5 DEF Ordered
<1>6. caller'[q] = "waiting" /\ mail'[q] # Empty => Before(got'[q], mail'[q])
  BY <1>1 DEF Ordered
<1> QED
  BY <1>1, <1>2, <1>4, <1>5, <1>6 DEF Ordered

\* The caller is given the message m, which is behind those it has and before
\* those that are still on the wire.
LEMMA GivingKeepsOrder ==
    ASSUME FlowInv, NEW q \in Requests, Ordered(q), NEW m \in Messages, Given(q, m),
           Before(got[q], m), Rising(wire'[q]), mail'[q] = mail[q],
           \A i \in DOMAIN wire'[q] :
               wire'[q][i] \in Nat /\ m < wire'[q][i] /\ mail[q] < wire'[q][i]
               /\ Before(got[q], wire'[q][i]),
           task[q] # "ended" => m <= sent[q] /\ UpTo(wire'[q], sent[q]),
           task'[q] = task[q], sent'[q] = sent[q]
    PROVE  Ordered(q)'
<1>1. got[q] \in Seq(Nat) /\ m \in Nat /\ sent[q] \in Nat /\ Rising(got[q])
  BY NumberFacts, MessageFacts DEF FlowInv, Ordered
<1>2. /\ got'[q] = got[q] \/ got'[q] = Append(got[q], m)
      /\ caller'[q] \in {"busy", "done", "failed"}
  BY DEF Given, FlowInv, TypeOK
<1>3. /\ Rising(got'[q])
      /\ \A k \in Nat : Before(got[q], k) /\ m < k => Before(got'[q], k)
      /\ \A k \in Nat : UpTo(got[q], k) /\ m <= k => UpTo(got'[q], k)
  <2>1. CASE got'[q] = got[q]
    BY <1>1, <2>1
  <2>2. CASE got'[q] = Append(got[q], m)
    BY <1>1, <2>2, AppendRises
  <2> QED
    BY <1>2, <2>1, <2>2
<1>4. \A i \in DOMAIN wire'[q] : mail'[q] < wire'[q][i] /\ Before(got'[q], wire'[q][i])
  BY <1>3
<1>5. ASSUME task'[q] # "ended"
      PROVE  mail'[q] <= sent'[q] /\ UpTo(wire'[q], sent'[q]) /\ UpTo(got'[q], sent'[q])
  BY <1>1, <1>3, <1>5 DEF Ordered
<1> QED
  BY <1>2, <1>3, <1>4, <1>5 DEF Ordered

LEMMA OrderInitially == Init => OrderInv
<1> SUFFICES ASSUME Init, NEW q \in Requests PROVE Ordered(q)
  BY FlowInitially DEF OrderInv
<1>1. /\ got[q] = <<>> /\ wire[q] = <<>> /\ mail[q] = 0 /\ sent[q] = 0 /\ Empty = 0
  BY DEF Init, Empty
<1> QED
  BY <1>1 DEF Ordered, Rising, UpTo, Before

LEMMA OrderStep ==
    ASSUME OrderInv, [Next]_vars
    PROVE  OrderInv'
<1>1. FlowInv /\ FlowInv' /\ TypeOK /\ \A q \in Requests : Ordered(q) /\ sent[q] \in Nat
  BY FlowStep, NumberFacts DEF OrderInv, FlowInv
<1> SUFFICES ASSUME NEW p \in Requests PROVE Ordered(p)'
  BY <1>1 DEF OrderInv
<1>2. FlowInv /\ Ordered(p) /\ sent[p] \in Nat
  BY <1>1
<1>3. ASSUME got'[p] = got[p], wire'[p] = wire[p], mail'[p] = mail[p],
             caller'[p] = caller[p], task'[p] = task[p], sent'[p] = sent[p]
      PROVE  Ordered(p)'
  BY <1>2, <1>3, DropsKeepOrder
<1>4. CASE ChannelCloses
  <2>1. /\ got'[p] = got[p] /\ wire'[p] = <<>> /\ mail'[p] = mail[p]
        /\ caller'[p] = caller[p] /\ task'[p] = task[p] /\ sent'[p] = sent[p]
    BY <1>4 DEF ChannelCloses, sdkVars
  <2> QED
    BY <1>2, <2>1, DropsKeepOrder
<1>5. ASSUME NEW q \in Requests,
             Ask(q) \/ BeginStream(q) \/ ResponseCut(q) \/ Timeout(q)
             \/ NextInPython(q) \/ NextInJs(q)
      PROVE  Ordered(p)'
  <2>1. /\ got'[p] = got[p] /\ wire'[p] = wire[p] /\ mail'[p] \in {mail[p], Empty}
        /\ caller'[p] = "waiting" => caller[p] \in {"waiting", "idle"} \/ mail'[p] = Empty
        /\ caller'[p] = "idle" => caller[p] = "idle"
        /\ sent'[p] = sent[p]
    BY <1>1, <1>5
       DEF Ask, BeginStream, ResponseCut, Timeout, NextInPython, NextInJs, TypeOK,
           sdkVars, nodeVars
  <2>2. task'[p] # "ended" => task[p] # "ended"
    <3>1. CASE Ask(q)
      BY <1>1, <3>1 DEF Ask, TypeOK, FlowInv, PermitInv
    <3>2. CASE ~Ask(q)
      BY <1>1, <1>5, <3>2
         DEF BeginStream, ResponseCut, TaskEnds, Timeout, NextInPython, NextInJs, TypeOK, nodeVars
    <3> QED
      BY <3>1, <3>2
  <2> QED
    BY <1>2, <2>1, <2>2, DropsKeepOrder
<1>6. ASSUME NEW q \in Requests, NEW m \in Messages, Sends(q, m), task[q] = "streaming",
             \/ sent' = [sent EXCEPT ![q] = m] /\ m = sent[q] + 1 /\ task' = task
             \/ sent' = sent /\ m > Chunks /\ TaskEnds(q)
             \/ channel # "open" /\ sent' = [sent EXCEPT ![q] = @ + 1] /\ TaskEnds(q),
             UNCHANGED sdkVars
      PROVE  Ordered(p)'
  <2>1. got'[p] = got[p] /\ mail'[p] = mail[p] /\ caller'[p] = caller[p]
    BY <1>6 DEF sdkVars
  <2>2. CASE p = q
    <3>1. /\ task[p] # "ended" /\ sent[p] \in 0..Chunks
          /\ task'[p] = "ended" \/ sent'[p] = m
      BY <1>1, <1>6, <2>2 DEF TypeOK, TaskEnds
    <3>2. CASE channel = "open"
      <4>1. /\ wire'[p] = Append(wire[p], m) /\ sent[p] < m
            /\ task'[p] = "ended" \/ sent'[p] = m
        BY <1>1, <1>6, <2>2, <3>1, <3>2, MessageFacts DEF Sends, TypeOK, TaskEnds
      <4> QED
        BY <1>2, <2>1, <3>1, <4>1, SendingKeepsOrder
    <3>3. CASE channel # "open"
      <4>1. wire'[p] = wire[p] /\ sent'[p] \in Nat /\ sent[p] <= sent'[p]
        BY <1>1, <1>2, <1>6, <2>2, <3>3 DEF Sends, TypeOK
      <4>2. wire'[p] \in {wire[p], <<>>} /\ mail'[p] \in {mail[p], Empty}
        BY <2>1, <4>1
      <4> QED
        BY <1>2, <2>1, <3>1, <4>1, <4>2, DropsKeepOrder
    <3> QED
      BY <3>2, <3>3
  <2>3. CASE p # q
    <3>1. wire'[p] = wire[p] /\ task'[p] = task[p] /\ sent'[p] = sent[p]
      BY <1>1, <1>6, <2>3 DEF Sends, TaskEnds, TypeOK
    <3> QED
      BY <1>3, <2>1, <3>1
  <2> QED
    BY <2>2, <2>3
<1>7. ASSUME NEW q \in Requests, SendChunk(q) PROVE Ordered(p)'
  <2>1. sent[q] + 1 \in Messages
    BY <1>1, <1>7, MessageFacts DEF SendChunk, TypeOK
  <2>2. \/ sent' = [sent EXCEPT ![q] = sent[q] + 1] /\ task' = task
        \/ channel # "open" /\ sent' = [sent EXCEPT ![q] = @ + 1] /\ TaskEnds(q)
    BY <1>7 DEF SendChunk
  <2> QED
    BY <1>6, <1>7, <2>1, <2>2 DEF SendChunk
<1>8. ASSUME NEW q \in Requests, SendDone(q) \/ SendError(q) \/ EngineFails(q)
      PROVE  Ordered(p)'
  <2>1. /\ {Done, Error, Blank} \subseteq Messages
        /\ Done > Chunks /\ Error > Chunks /\ Blank > Chunks
    BY StreamAssumption, MessageFacts DEF Done, Error, Blank
  <2> QED
    BY <1>6, <1>8, <2>1 DEF SendDone, SendError, EngineFails
<1>9. ASSUME NEW q \in Requests, NEW m \in Messages, Arrives(q, m), UNCHANGED <<caller, got>>,
             mail' = [mail EXCEPT ![q] = mail'[q]], mail'[q] \in {mail[q], Empty, m}
      PROVE  Ordered(p)'
  <2>1. /\ wire[q] # <<>> /\ m = Head(wire[q]) /\ UNCHANGED <<task, sent, caller, got>>
        /\ wire'[q] = Tail(wire[q])
        /\ p # q => wire'[p] = wire[p] /\ mail'[p] = mail[p]
    BY <1>1, <1>9 DEF Arrives, nodeVars, TypeOK
  <2>2. CASE p = q
    BY <1>2, <1>9, <2>1, <2>2, ArrivingKeepsOrder
  <2>3. CASE p # q
    BY <1>3, <2>1, <2>3
  <2> QED
    BY <2>2, <2>3
<1>10. ASSUME NEW q \in Requests, ArrivesInPython(q) PROVE Ordered(p)'
  <2>1. PICK m \in Messages :
           /\ Arrives(q, m) /\ UNCHANGED <<caller, got>>
           /\ mail' = [mail EXCEPT ![q] = IF @ = Empty THEN m ELSE @]
    BY <1>10 DEF ArrivesInPython
  <2>2. mail'[q] \in {mail[q], Empty, m} /\ mail' = [mail EXCEPT ![q] = mail'[q]]
    BY <1>1, <2>1 DEF TypeOK
  <2> QED
    BY <1>9, <2>1, <2>2
\* A message is given, out of the future or as it comes out of the channel.
<1>11. ASSUME NEW q \in Requests, NEW m \in Messages, Given(q, m), Before(got[q], m),
              UNCHANGED <<mail, task, sent>>, wire' = [wire EXCEPT ![q] = wire'[q]],
              Rising(wire'[q]),
              \A i \in DOMAIN wire'[q] :
                  wire'[q][i] \in Nat /\ m < wire'[q][i] /\ mail[q] < wire'[q][i]
                  /\ Before(got[q], wire'[q][i]),
              task[q] # "ended" => m <= sent[q] /\ UpTo(wire'[q], sent[q])
       PROVE  Ordered(p)'
  <2>1. CASE p = q
    BY <1>2, <1>11, <2>1, GivingKeepsOrder
  <2>2. CASE p # q
    BY <1>1, <1>3, <1>11, <2>2 DEF Given, TypeOK
  <2> QED
    BY <2>1, <2>2
<1>12. ASSUME NEW q \in Requests, ArrivesInJs(q) PROVE Ordered(p)'
  <2>1. PICK m \in Messages :
           /\ Arrives(q, m)
           /\ \/ Given(q, m) /\ mail' = mail
              \/ /\ mail' = [mail EXCEPT ![q] = IF @ = Empty /\ m # Error THEN m ELSE Empty]
                 /\ UNCHANGED <<caller, got>>
    BY <1>12 DEF ArrivesInJs
  <2>2. CASE Given(q, m) /\ mail' = mail
    <3>1. /\ wire[q] # <<>> /\ m = Head(wire[q]) /\ UNCHANGED <<task, sent>>
          /\ wire'[q] = Tail(wire[q]) /\ wire' = [wire EXCEPT ![q] = wire'[q]]
      BY <1>1, <2>1 DEF Arrives, nodeVars, TypeOK
    <3>2. /\ Before(got[q], m) /\ Rising(wire'[q])
          /\ \A i \in DOMAIN wire'[q] :
                wire'[q][i] \in Nat /\ m < wire'[q][i] /\ mail[q] < wire'[q][i]
                /\ Before(got[q], wire'[q][i])
          /\ task[q] # "ended" => m <= sent[q] /\ UpTo(wire'[q], sent[q])
      BY <1>1, <3>1, TailOrdered
    <3> QED
      BY <1>11, <2>2, <3>1, <3>2
  <2>3. CASE /\ mail' = [mail EXCEPT ![q] = IF @ = Empty /\ m # Error THEN m ELSE Empty]
             /\ UNCHANGED <<caller, got>>
    <3>1. mail'[q] \in {mail[q], Empty, m} /\ mail' = [mail EXCEPT ![q] = mail'[q]]
      BY <1>1, <2>3 DEF TypeOK
    <3> QED
      BY <1>9, <2>1, <2>3, <3>1
  <2> QED
    BY <2>1, <2>2, <2>3
<1>13. ASSUME NEW q \in Requests, FutureSet(q) PROVE Ordered(p)'
  <2> DEFINE m == mail[q]
  <2>1. /\ m \in Messages /\ m # Empty /\ caller[q] = "waiting" /\ Given(q, m)
        /\ UNCHANGED <<wire, mail, task, sent>>
    BY <1>1, <1>13 DEF FutureSet, TypeOK, nodeVars
  <2>2. /\ Before(got[q], m) /\ Rising(wire[q])
        /\ \A i \in DOMAIN wire[q] : mail[q] < wire[q][i] /\ Before(got[q], wire[q][i])
        /\ task[q] # "ended" => mail[q] <= sent[q] /\ UpTo(wire[q], sent[q])
    BY <1>1, <2>1 DEF Ordered
  <2>3. \A i \in DOMAIN wire[q] : wire[q][i] \in Nat
    BY <1>1, NumberFacts
  <2>4. wire'[q] = wire[q] /\ wire' = [wire EXCEPT ![q] = wire'[q]]
    BY <1>1, <2>1 DEF TypeOK
  <2> HIDE DEF m
  <2>5. m = mail[q]
    BY DEF m
  <2> QED
    BY <1>11, <2>1, <2>2, <2>3, <2>4, <2>5
<1>14. CASE UNCHANGED vars
  BY <1>3, <1>14 DEF vars, nodeVars, sdkVars
<1> QED
  BY <1>4, <1>5, <1>7, <1>8, <1>10, <1>12, <1>13, <1>14 DEF Next

\* A caller is given no chunk twice and none out of order: a dropped message, a
\* replaced future or a list with a message in the waiter's place only ever
\* leave chunks out (client.py:162-216, client.ts:111-130, 344-362).
THEOREM ChunksInOrder == Spec => []InOrderOnce
<1>1. OrderInv => InOrderOnce
  BY DEF OrderInv, Ordered, Rising, InOrderOnce
<1> QED
  BY <1>1, OrderInitially, OrderStep, PTL DEF Spec

-----------------------------------------------------------------------------
(* The stream of a caller who always waits when a message comes.           *)
(*                                                                         *)
(* Between the task and the caller there are, in a row, the chunks (and    *)
(* the done) that follow the last one given; only when the task has ended  *)
(* may an error, or a chunk without text, come last.                       *)

\* The messages of s follow the number n; the last may instead end the stream.
Counts(s, n) == \A i \in DOMAIN s : s[i] = n + i
CountsToEnd(s, n) ==
    \A i \in DOMAIN s : s[i] # n + i => s[i] \in {Error, Blank} /\ i = Len(s)

Open(q) == caller[q] \notin {"done", "failed"}

\* A Python mail that the caller waits for is on its way to it.
Mailed(q) == caller[q] = "waiting" /\ mail[q] # Empty
Passed(q) == IF Mailed(q) THEN Len(got[q]) + 1 ELSE Len(got[q])

Straight(q) ==
    /\ channel = "closed" => wire[q] = <<>>
    /\ Len(got[q]) <= Chunks
    /\ Open(q) =>
          /\ CountsToEnd(wire[q], Passed(q))
          /\ task[q] # "ended" => Counts(wire[q], Passed(q))
          /\ task[q] # "ended" /\ channel = "open" => sent[q] = Passed(q) + Len(wire[q])
          /\ Mailed(q) => \/ mail[q] = Len(got[q]) + 1
                          \/ mail[q] \in {Error, Blank} /\ wire[q] = <<>> /\ task[q] = "ended"
          /\ q \in Js \/ caller[q] = "idle" => mail[q] = Empty

StraightInv == FlowInv /\ \A q \in prompt : Straight(q)

LEMMA TailCounts ==
    ASSUME NEW s \in Seq(Nat), s # <<>>, NEW n \in Nat, CountsToEnd(s, n)
    PROVE  /\ CountsToEnd(Tail(s), n + 1)
           /\ Counts(s, n) => Counts(Tail(s), n + 1)
           /\ Len(s) = Len(Tail(s)) + 1 /\ Len(Tail(s)) \in Nat
           /\ Head(s) # n + 1 => Head(s) \in {Error, Blank} /\ Tail(s) = <<>>
           /\ Counts(s, n) => Head(s) = n + 1
<1>1. /\ DOMAIN s = 1..Len(s) /\ Len(s) \in Nat \ {0} /\ DOMAIN Tail(s) = 1..(Len(s) - 1)
      /\ \A i \in 1..(Len(s) - 1) : Tail(s)[i] = s[i + 1]
      /\ Len(Tail(s)) = Len(s) - 1 /\ Head(s) = s[1] /\ 1 \in DOMAIN s
  OBVIOUS
<1> DEFINE t == Tail(s)
<1>2. \A i \in DOMAIN t : i \in Nat /\ i + 1 \in DOMAIN s /\ t[i] = s[i + 1] /\ n + (i + 1) = (n + 1) + i
  BY <1>1
<1>3. t \in Seq(Nat) /\ Len(t) = Len(s) - 1
  BY <1>1
<1>6. Len(s) = 1 => t = <<>>
  <2>1. \A u \in Seq(Nat) : Len(u) = 0 => u = <<>>
    OBVIOUS
  <2> HIDE DEF t
  <2> QED
    BY <1>3, <2>1
<1> HIDE DEF t
<1>4. CountsToEnd(t, n + 1)
  BY <1>1, <1>2, <1>3, SMTT(30) DEF CountsToEnd
<1>5. Counts(s, n) => Counts(t, n + 1)
  BY <1>2 DEF Counts
<1>7. Len(s) = Len(t) + 1 /\ Len(t) \in Nat
  BY <1>1, <1>3
<1>8. Head(s) # n + 1 => Head(s) \in {Error, Blank} /\ t = <<>>
  BY <1>1, <1>6 DEF CountsToEnd
<1>9. Counts(s, n) => Head(s) = n + 1
  BY <1>1 DEF Counts
<1> QED
  BY <1>4, <1>5, <1>7, <1>8, <1>9 DEF t

LEMMA AppendCounts ==
    ASSUME NEW s \in Seq(Nat), NEW n \in Nat, NEW m \in Nat, Counts(s, n),
           m = n + Len(s) + 1 \/ m \in {Error, Blank}
    PROVE  /\ CountsToEnd(Append(s, m), n)
           /\ m = n + Len(s) + 1 => Counts(Append(s, m), n)
           /\ Len(Append(s, m)) = Len(s) + 1
<1> DEFINE t == Append(s, m)
<1>1. /\ DOMAIN t = 1..(Len(s) + 1) /\ Len(s) \in Nat /\ Len(t) = Len(s) + 1
      /\ DOMAIN s = 1..Len(s) /\ t[Len(s) + 1] = m
      /\ \A i \in 1..Len(s) : t[i] = s[i]
  OBVIOUS
<1>4. \A i \in DOMAIN t : i \in DOMAIN s \/ i = Len(s) + 1
  BY <1>1
<1> HIDE DEF t
<1>2. CountsToEnd(t, n)
  BY <1>1, <1>4 DEF CountsToEnd, Counts
<1>3. ASSUME m = n + Len(s) + 1, NEW i \in DOMAIN t PROVE t[i] = n + i
  BY <1>1, <1>3, <1>4, SMTT(30) DEF Counts
<1> QED
  BY <1>1, <1>2, <1>3 DEF t, Counts

\* A message that a waiting caller is given is a step of its stream.
LEMMA GivenIsStreamStep ==
    ASSUME TypeOK, NEW q \in Requests, NEW m \in Messages, Given(q, m), caller[q] = "waiting",
           m = Len(got[q]) + 1 \/ m \in {Error, Blank}
    PROVE  StreamStep(q)
<1>1. /\ got[q] \in Seq(1..Chunks) /\ Len(got[q]) \in Nat
      /\ Len(Append(got[q], m)) = Len(got[q]) + 1
      /\ caller'[q] = IF m = Done THEN "done"
                      ELSE IF m = Error \/ Unreadable(q, m) THEN "failed" ELSE "busy"
      /\ got'[q] = IF m < Done /\ ~Unreadable(q, m) THEN Append(got[q], m) ELSE got[q]
  BY DEF TypeOK, Given
<1>2. ~(Error < Done) /\ ~(Blank < Done) /\ Done # Error /\ Done # Blank /\ Error # Blank
      /\ Done = Chunks + 1 /\ Chunks \in Nat /\ m \in Nat
  BY StreamAssumption, MessageFacts DEF Done, Error, Blank
<1> USE DEF StreamStep, StreamOf!Next, StreamOf!vars, StreamOf!Give, StreamOf!Finish, StreamOf!Fail
<1>3. CASE m = Done
  <2>1. Len(got[q]) = Chunks
    BY <1>1, <1>2, <1>3
  <2> QED
    BY <1>1, <1>2, <1>3, <2>1
<1>4. CASE m < Done /\ ~Unreadable(q, m)
  <2>1. /\ Len(got'[q]) = Len(got[q]) + 1 /\ Len(got[q]) < Chunks
        /\ caller'[q] = "busy"
    BY <1>1, <1>2, <1>4
  <2> QED
    BY <1>1, <2>1
<1>5. CASE m # Done /\ ~(m < Done /\ ~Unreadable(q, m))
  <2>1. got'[q] = got[q] /\ caller'[q] \in {"busy", "failed"}
    BY <1>1, <1>5
  <2> QED
    BY <2>1
<1> QED
  BY <1>3, <1>4, <1>5

LEMMA StraightInitially == Init => StraightInv
<1> SUFFICES ASSUME Init, NEW q \in prompt PROVE Straight(q)
  BY FlowInitially DEF StraightInv
<1>1. /\ got[q] = <<>> /\ wire[q] = <<>> /\ mail[q] = Empty /\ sent[q] = 0
      /\ q \in Requests /\ Len(got[q]) = 0 /\ Len(wire[q]) = 0
  BY DEF Init
<1> QED
  BY <1>1, StreamAssumption DEF Straight, Passed, Mailed, Counts, CountsToEnd

LEMMA PassedFacts ==
    ASSUME TypeOK, NEW q \in Requests
    PROVE  Len(got[q]) \in Nat /\ Passed(q) \in Nat /\ Len(wire[q]) \in Nat
  BY NumberFacts DEF Passed

\* A step that moves nothing between the task and the caller.
LEMMA StandsStraight ==
    ASSUME NEW q, Straight(q), Open(q)' => Open(q),
           got'[q] = got[q], wire'[q] = wire[q], sent'[q] = sent[q],
           mail'[q] = mail[q] \/ mail'[q] = Empty,
           Open(q)' => (Mailed(q)' <=> Mailed(q)),
           q \in Js \/ caller'[q] = "idle" => q \in Js \/ caller[q] = "idle",
           task'[q] # "ended" => task[q] # "ended",
           task[q] = "ended" => task'[q] = "ended",
           channel' = channel
    PROVE  Straight(q)'
<1>1. Open(q)' => Passed(q)' = Passed(q)
  BY DEF Passed
<1> QED
  BY <1>1 DEF Straight, Open, Counts, CountsToEnd, Mailed

\* The task sends the message that follows, or ends with an error.
LEMMA SendsStraight ==
    ASSUME TypeOK, NEW q \in Requests, Straight(q), NEW m \in Messages,
           task[q] # "ended", channel = "open",
           got'[q] = got[q], mail'[q] = mail[q], caller'[q] = caller[q], channel' = channel,
           wire'[q] = Append(wire[q], m),
           \/ m = sent[q] + 1 /\ (task'[q] = "ended" \/ sent'[q] = m)
           \/ m \in {Error, Blank} /\ task'[q] = "ended"
    PROVE  Straight(q)'
<1> SUFFICES ASSUME Open(q) PROVE Straight(q)'
  BY DEF Straight, Open
<1>1. /\ wire[q] \in Seq(Nat) /\ m \in Nat /\ Passed(q) \in Nat /\ Len(wire[q]) \in Nat
      /\ sent[q] \in Nat
  BY NumberFacts, PassedFacts, MessageFacts
<1>2. Passed(q)' = Passed(q) /\ (Mailed(q)' <=> Mailed(q))
  BY DEF Passed, Mailed
<1>3. Counts(wire[q], Passed(q)) /\ sent[q] = Passed(q) + Len(wire[q])
  BY DEF Straight
<1>4. /\ CountsToEnd(wire'[q], Passed(q))
      /\ m = sent[q] + 1 => Counts(wire'[q], Passed(q))
      /\ Len(wire'[q]) = Len(wire[q]) + 1
  BY <1>1, <1>3, AppendCounts
<1>5. task'[q] # "ended" => Counts(wire'[q], Passed(q)) /\ sent'[q] = Passed(q) + Len(wire'[q])
  BY <1>1, <1>3, <1>4
<1>6. ~Mailed(q) \/ mail[q] = Len(got[q]) + 1
  BY DEF Straight
<1> QED
  BY <1>2, <1>4, <1>5, <1>6 DEF Straight, Counts, CountsToEnd

\* The first message on the wire reaches a caller that waits for it: it is
\* mailed, or given at once.
LEMMA ArrivesStraight ==
    ASSUME TypeOK, NEW q \in Requests, Straight(q), Open(q), ~Mailed(q), NEW m,
           wire[q] # <<>>, m = Head(wire[q]), wire'[q] = Tail(wire[q]),
           sent'[q] = sent[q], task'[q] = task[q], channel' = channel,
           Open(q)' => \/ Passed(q)' = Len(got[q]) + 1
                       \/ m # Len(got[q]) + 1 /\ Passed(q)' = Len(got[q]),
           Mailed(q)' => mail'[q] = m /\ got'[q] = got[q],
           q \in Js \/ caller'[q] = "idle" => mail'[q] = Empty,
           Len(got'[q]) <= Chunks
    PROVE  Straight(q)'
<1>1. wire[q] \in Seq(Nat) /\ Len(got[q]) \in Nat /\ sent[q] \in Nat
  BY NumberFacts, PassedFacts
<1>2. /\ CountsToEnd(wire[q], Len(got[q]))
      /\ task[q] # "ended" => Counts(wire[q], Len(got[q]))
      /\ task[q] # "ended" /\ channel = "open" => sent[q] = Len(got[q]) + Len(wire[q])
      /\ channel # "closed"
  BY DEF Straight, Passed
<1> DEFINE rest == Tail(wire[q])
<1>3. /\ CountsToEnd(rest, Len(got[q]) + 1)
      /\ Counts(wire[q], Len(got[q])) => Counts(rest, Len(got[q]) + 1)
      /\ Len(wire[q]) = Len(rest) + 1 /\ Len(rest) \in Nat
      /\ m # Len(got[q]) + 1 => m \in {Error, Blank} /\ rest = <<>>
      /\ Counts(wire[q], Len(got[q])) => m = Len(got[q]) + 1
  BY <1>1, <1>2, TailCounts
<1>4. wire'[q] = rest
  OBVIOUS
<1> HIDE DEF rest
<1> SUFFICES ASSUME Open(q)' PROVE Straight(q)'
  BY <1>2 DEF Straight
<1>5. CASE m = Len(got[q]) + 1
  <2>1. /\ Passed(q)' = Len(got[q]) + 1
        /\ Mailed(q)' => mail'[q] = Len(got'[q]) + 1
    BY <1>5
  <2>2. /\ task'[q] # "ended" => Counts(wire'[q], Len(got[q]) + 1)
        /\ CountsToEnd(wire'[q], Len(got[q]) + 1)
    BY <1>2, <1>3, <1>4
  <2>3. task'[q] # "ended" /\ channel = "open" => sent'[q] = (Len(got[q]) + 1) + Len(wire'[q])
    <3>1. Len(wire'[q]) = Len(rest)
      BY <1>4
    <3>2. Len(got[q]) + Len(wire[q]) = (Len(got[q]) + 1) + Len(rest)
      <4>1. \A k, l, r \in Nat : l = r + 1 => k + l = (k + 1) + r
        OBVIOUS
      <4>2. Len(wire[q]) = Len(rest) + 1 /\ Len(rest) \in Nat /\ Len(wire[q]) \in Nat
        BY <1>3
      <4> QED
        BY <1>1, <4>1, <4>2
    <3> QED
      BY <1>2, <3>1, <3>2
  <2> QED
    BY <1>2, <1>5, <2>1, <2>2, <2>3 DEF Straight, Counts, CountsToEnd
<1>6. CASE m # Len(got[q]) + 1
  <2>1. /\ wire'[q] = <<>> /\ task'[q] = "ended" /\ m \in {Error, Blank}
        /\ Mailed(q)' => mail'[q] \in {Error, Blank}
    BY <1>2, <1>3, <1>4, <1>6
  <2>2. \A n : CountsToEnd(<<>>, n)
    BY DEF CountsToEnd
  <2>3. CountsToEnd(wire'[q], Passed(q)')
    BY <2>1, <2>2
  <2> QED
    BY <1>2, <2>1, <2>3 DEF Straight, Counts, CountsToEnd
<1> QED
  BY <1>5, <1>6

\* The first message on the wire is the one that follows, or the end.
LEMMA HeadFollows ==
    ASSUME TypeOK, NEW q \in Requests, Straight(q), Open(q), ~Mailed(q), wire[q] # <<>>
    PROVE  Head(wire[q]) = Len(got[q]) + 1 \/ Head(wire[q]) \in {Error, Blank}
<1>1. wire[q] \in Seq(Nat) /\ Len(got[q]) \in Nat /\ CountsToEnd(wire[q], Len(got[q]))
  BY NumberFacts, PassedFacts DEF Straight, Passed
<1> QED
  BY <1>1, TailCounts

\* A caller that stays open was given the chunk that follows, or has seen the
\* chunk without text.
LEMMA GivenLength ==
    ASSUME TypeOK, NEW q \in Requests, Straight(q), NEW m \in Messages, Given(q, m),
           m = Len(got[q]) + 1 \/ m \in {Error, Blank}
    PROVE  /\ Len(got'[q]) <= Chunks
           /\ Open(q)' => \/ Len(got'[q]) = Len(got[q]) + 1
                          \/ m # Len(got[q]) + 1 /\ Len(got'[q]) = Len(got[q])
           /\ caller'[q] \in {"busy", "done", "failed"}
<1>1. /\ got[q] \in Seq(1..Chunks) /\ Len(got[q]) \in Nat /\ Len(got[q]) <= Chunks
      /\ Len(Append(got[q], m)) = Len(got[q]) + 1
      /\ caller'[q] = IF m = Done THEN "done"
                      ELSE IF m = Error \/ Unreadable(q, m) THEN "failed" ELSE "busy"
      /\ got'[q] = IF m < Done /\ ~Unreadable(q, m) THEN Append(got[q], m) ELSE got[q]
  BY DEF TypeOK, Given, Straight
<1>2. /\ Done = Chunks + 1 /\ Error = Chunks + 2 /\ Blank = Chunks + 3
      /\ Chunks \in Nat /\ m \in Nat
  BY StreamAssumption, MessageFacts DEF Done, Error, Blank
<1>3. m \in {Error, Blank} => m # Len(got[q]) + 1
  BY <1>1, <1>2
<1>4. CASE m < Done /\ ~Unreadable(q, m)
  <2>1. m = Len(got[q]) + 1 /\ Len(got'[q]) = Len(got[q]) + 1
    BY <1>1, <1>2, <1>4
  <2> QED
    BY <1>1, <1>2, <1>4, <2>1
<1>5. CASE ~(m < Done /\ ~Unreadable(q, m))
  <2>1. got'[q] = got[q] /\ (caller'[q] = "busy" => m \in {Error, Blank})
    BY <1>1, <1>2, <1>3, <1>5
  <2> QED
    BY <1>1, <1>3, <2>1 DEF Open
<1> QED
  BY <1>4, <1>5

LEMMA StraightStep ==
    ASSUME StraightInv, [Next]_vars, NEW p \in prompt
    PROVE  Straight(p)' /\ StreamStep(p)
<1> USE DEF StreamStep, StreamOf!Next, StreamOf!vars, StreamOf!Fail
<1>1. /\ TypeOK /\ p \in Requests /\ Straight(p) /\ PermitInv
      /\ Python \cap Js = {} /\ prompt \subseteq Requests
  BY StreamAssumption DEF StraightInv, FlowInv, TypeOK
\* Nothing moves; the caller goes on, or gives up.
<1>2. ASSUME got'[p] = got[p], wire'[p] = wire[p], sent'[p] = sent[p], channel' = channel,
             mail'[p] = mail[p] \/ mail'[p] = Empty,
             caller'[p] # "failed" => (Mailed(p)' <=> Mailed(p)),
             caller'[p] = "idle" => caller[p] = "idle",
             task[p] = "ended" <=> task'[p] = "ended",
             \/ caller'[p] = caller[p]
             \/ {caller[p], caller'[p]} \subseteq {"idle", "busy", "waiting"}
             \/ caller[p] = "waiting" /\ caller'[p] = "failed"
      PROVE  Straight(p)' /\ StreamStep(p)
  <2>1. Open(p)' => Open(p) /\ (Mailed(p)' <=> Mailed(p))
    BY <1>2 DEF Open, Mailed
  <2>2. Straight(p)'
    BY <1>1, <1>2, <2>1, StandsStraight
  <2>3. StreamStep(p)
    BY <1>2
  <2> QED
    BY <2>2, <2>3
<1>3. CASE ChannelCloses
  <2>1. /\ got'[p] = got[p] /\ caller'[p] = caller[p] /\ mail'[p] = mail[p]
        /\ wire'[p] = <<>> /\ task' = task /\ channel' = "closed"
    BY <1>1, <1>3 DEF ChannelCloses, sdkVars
  <2>2. Passed(p)' = Passed(p) /\ (Mailed(p)' <=> Mailed(p)) /\ (Open(p)' <=> Open(p))
    BY <2>1 DEF Passed, Mailed, Open
  <2>3. \A n : Counts(<<>>, n) /\ CountsToEnd(<<>>, n)
    BY DEF Counts, CountsToEnd
  <2>4. Straight(p)'
    BY <1>1, <2>1, <2>2, <2>3 DEF Straight, Counts, CountsToEnd
  <2> QED
    BY <2>1, <2>4
<1>4. ASSUME NEW q \in Requests, Ask(q) \/ BeginStream(q) PROVE Straight(p)' /\ StreamStep(p)
  <2>1. caller[q] = "idle" /\ q \in prompt => mail[q] = Empty
    BY <1>1 DEF StraightInv, Straight, Open
  <2>2. /\ got'[p] = got[p] /\ wire'[p] = wire[p] /\ sent'[p] = sent[p] /\ channel' = channel
        /\ mail'[p] = mail[p]
        /\ caller'[p] = "idle" => caller[p] = "idle"
        /\ task[p] = "ended" <=> task'[p] = "ended"
        /\ \/ caller'[p] = caller[p]
           \/ {caller[p], caller'[p]} \subseteq {"idle", "busy", "waiting"}
        /\ Mailed(p)' <=> Mailed(p)
    BY <1>1, <1>4, <2>1 DEF Ask, BeginStream, sdkVars, TypeOK, PermitInv, Mailed
  <2> QED
    BY <1>2, <2>2
<1>5. ASSUME NEW q \in Requests, NextInPython(q) \/ NextInJs(q) \/ Timeout(q)
      PROVE  Straight(p)' /\ StreamStep(p)
  <2>1. q \in Js /\ caller[q] = "busy" /\ q \in prompt => mail[q] = Empty
    BY <1>1 DEF StraightInv, Straight, Open
  <2>2. /\ got'[p] = got[p] /\ wire'[p] = wire[p] /\ sent'[p] = sent[p] /\ channel' = channel
        /\ mail'[p] = mail[p] \/ mail'[p] = Empty
        /\ caller'[p] = "idle" => caller[p] = "idle"
        /\ task'[p] = task[p]
        /\ \/ caller'[p] = caller[p]
           \/ {caller[p], caller'[p]} \subseteq {"idle", "busy", "waiting"}
           \/ caller[p] = "waiting" /\ caller'[p] = "failed"
        /\ caller'[p] # "failed" => (Mailed(p)' <=> Mailed(p))
    BY <1>1, <1>5, <2>1 DEF NextInPython, NextInJs, Timeout, nodeVars, TypeOK, Mailed
  <2> QED
    BY <1>2, <2>2
\* The task sends a message, or tries to on a closed channel.
<1>6. ASSUME NEW q \in Requests, NEW m \in Messages, Sends(q, m), task[q] = "streaming",
             \/ m = sent[q] + 1 /\ sent' = [sent EXCEPT ![q] = m]
             \/ m = sent[q] + 1 /\ TaskEnds(q)
             \/ m \in {Error, Blank} /\ TaskEnds(q),
             channel = "open" => task' = task \/ TaskEnds(q),
             \A r \in Requests : r # q => sent'[r] = sent[r] /\ task'[r] = task[r],
             channel # "open" => TaskEnds(q),
             UNCHANGED <<channel, sdkVars>>
      PROVE  Straight(p)' /\ StreamStep(p)
  <2>1. got'[p] = got[p] /\ mail'[p] = mail[p] /\ caller'[p] = caller[p]
    BY <1>6 DEF sdkVars
  <2>2. CASE p # q
    <3>1. wire'[p] = wire[p] /\ task'[p] = task[p] /\ sent'[p] = sent[p]
      BY <1>1, <1>6, <2>2 DEF Sends, TypeOK
    <3> QED
      BY <1>2, <1>6, <2>1, <3>1 DEF Mailed
  <2>3. CASE p = q /\ channel = "open"
    <3>1. /\ wire'[p] = Append(wire[p], m) /\ task[p] # "ended"
          /\ \/ m = sent[p] + 1 /\ (task'[p] = "ended" \/ sent'[p] = m)
             \/ m \in {Error, Blank} /\ task'[p] = "ended"
      BY <1>1, <1>6, <2>3 DEF Sends, TypeOK, TaskEnds
    <3>2. Straight(p)'
      BY <1>1, <1>6, <2>1, <2>3, <3>1, SendsStraight
    <3> QED
      BY <2>1, <3>2
  <2>4. CASE p = q /\ channel # "open"
    <3>1. wire' = wire /\ task'[p] = "ended" /\ channel' = channel
      BY <1>1, <1>6, <2>4 DEF Sends, TypeOK, TaskEnds
    <3>2. Straight(p)'
      BY <1>1, <1>6, <2>1, <2>4, <3>1
         DEF Straight, Open, Passed, Mailed, Counts, CountsToEnd, TypeOK
    <3> QED
      BY <2>1, <3>2
  <2> QED
    BY <2>2, <2>3, <2>4
<1>7. ASSUME NEW q \in Requests, SendChunk(q) PROVE Straight(p)' /\ StreamStep(p)
  <2>1. sent[q] + 1 \in Messages /\ sent[q] \in Nat
    BY <1>1, <1>7, MessageFacts DEF SendChunk, TypeOK
  <2>2. /\ sent' = [sent EXCEPT ![q] = sent[q] + 1]
        /\ \A r \in Requests : r # q => sent'[r] = sent[r] /\ task'[r] = task[r]
    BY <1>1, <1>7 DEF SendChunk, TaskEnds, TypeOK
  <2> QED
    BY <1>6, <1>7, <2>1, <2>2 DEF SendChunk
<1>8. ASSUME NEW q \in Requests, SendDone(q) \/ SendError(q) \/ EngineFails(q)
      PROVE  Straight(p)' /\ StreamStep(p)
  <2>1. /\ Done \in Messages /\ Error \in Messages /\ Blank \in Messages
        /\ sent[q] = Chunks => Done = sent[q] + 1
    BY <1>1, MessageFacts DEF Done
  <2>2. \A r \in Requests : r # q => sent'[r] = sent[r] /\ task'[r] = task[r]
    BY <1>1, <1>8 DEF SendDone, SendError, EngineFails, TaskEnds, TypeOK
  <2>3. TaskEnds(q) /\ task[q] = "streaming" /\ UNCHANGED <<channel, sdkVars>>
    BY <1>8 DEF SendDone, SendError, EngineFails
  <2>4. \E m \in Messages :
           Sends(q, m) /\ (m = sent[q] + 1 \/ m \in {Error, Blank})
    BY <1>8, <2>1 DEF SendDone, SendError, EngineFails
  <2> QED
    BY <1>6, <2>2, <2>3, <2>4
<1>9. ASSUME NEW q \in Requests, ResponseCut(q) PROVE Straight(p)' /\ StreamStep(p)
  <2>1. /\ got'[p] = got[p] /\ wire'[p] = wire[p] /\ sent'[p] = sent[p] /\ channel' = channel
        /\ mail'[p] = mail[p] /\ caller'[p] = caller[p]
        /\ task'[p] = task[p] \/ task'[p] = "ended"
    BY <1>1, <1>9 DEF ResponseCut, TaskEnds, sdkVars, TypeOK
  <2>2. Straight(p)'
    BY <1>1, <2>1 DEF Straight, Open, Passed, Mailed, Counts, CountsToEnd
  <2> QED
    BY <2>1, <2>2
\* A message comes out of the channel of a caller that waits for it.
<1>10. ASSUME NEW q \in Requests, NEW m \in Messages, Arrives(q, m), p # q,
              got'[p] = got[p], mail'[p] = mail[p], caller'[p] = caller[p]
       PROVE  Straight(p)' /\ StreamStep(p)
  <2>1. /\ wire'[p] = wire[p] /\ sent'[p] = sent[p] /\ channel' = channel
        /\ task'[p] = task[p]
    BY <1>1, <1>10 DEF Arrives, nodeVars, TypeOK
  <2> QED
    BY <1>2, <1>10, <2>1 DEF Mailed
<1>11. ASSUME NEW m \in Messages, Arrives(p, m)
       PROVE  /\ wire[p] # <<>> /\ m = Head(wire[p]) /\ wire'[p] = Tail(wire[p])
              /\ sent'[p] = sent[p] /\ task'[p] = task[p] /\ channel' = channel
              /\ caller[p] = "waiting" /\ mail[p] = Empty /\ Open(p) /\ ~Mailed(p)
              /\ Len(got[p]) \in Nat /\ m # Empty
  BY <1>1, <1>11, PassedFacts, MessageFacts DEF Arrives, nodeVars, TypeOK, Open, Mailed
<1>12. ASSUME NEW q \in Requests, ArrivesInPython(q) PROVE Straight(p)' /\ StreamStep(p)
  <2>1. PICK m \in Messages :
           /\ Arrives(q, m) /\ q \in Python
           /\ mail' = [mail EXCEPT ![q] = IF @ = Empty THEN m ELSE @]
           /\ UNCHANGED <<caller, got>>
    BY <1>12 DEF ArrivesInPython
  <2>2. CASE p # q
    BY <1>1, <1>10, <2>1, <2>2 DEF TypeOK
  <2>3. CASE p = q
    <3>1. mail'[p] = m /\ caller'[p] = "waiting" /\ got'[p] = got[p] /\ p \notin Js
      BY <1>1, <1>11, <2>1, <2>3 DEF TypeOK
    <3>2. Passed(p)' = Len(got[p]) + 1
      BY <1>11, <2>1, <2>3, <3>1 DEF Passed, Mailed
    <3>3. Straight(p)'
      <4>1. Len(got'[p]) <= Chunks
        BY <1>1, <3>1 DEF Straight
      <4> QED
        BY <1>1, <1>11, <2>1, <2>3, <3>1, <3>2, <4>1, ArrivesStraight
    <3> QED
      BY <2>1, <3>1, <3>3
  <2> QED
    BY <2>2, <2>3
<1>13. ASSUME NEW q \in Requests, ArrivesInJs(q) PROVE Straight(p)' /\ StreamStep(p)
  <2>1. PICK m \in Messages :
           /\ Arrives(q, m) /\ q \in Js
           /\ IF caller[q] = "waiting" THEN Given(q, m) /\ UNCHANGED mail
              ELSE /\ mail' = [mail EXCEPT ![q] = IF @ = Empty /\ m # Error THEN m ELSE Empty]
                   /\ UNCHANGED <<caller, got>>
    BY <1>13 DEF ArrivesInJs
  <2>2. CASE p # q
    <3>1. got'[p] = got[p] /\ mail'[p] = mail[p] /\ caller'[p] = caller[p]
      BY <1>1, <2>1, <2>2 DEF TypeOK, Given
    <3> QED
      BY <1>10, <2>1, <2>2, <3>1
  <2>3. CASE p = q
    <3>1. Given(p, m) /\ mail'[p] = Empty
      BY <1>11, <2>1, <2>3
    <3>2. m = Len(got[p]) + 1 \/ m \in {Error, Blank}
      BY <1>1, <1>11, <2>1, <2>3, HeadFollows
    <3>3. /\ Len(got'[p]) <= Chunks
          /\ Open(p)' => \/ Len(got'[p]) = Len(got[p]) + 1
                         \/ m # Len(got[p]) + 1 /\ Len(got'[p]) = Len(got[p])
          /\ caller'[p] \in {"busy", "done", "failed"}
      BY <1>1, <3>1, <3>2, GivenLength
    <3>4. ~Mailed(p)' /\ Passed(p)' = Len(got'[p])
      BY <3>1, <3>3 DEF Mailed, Passed
    <3>5. Straight(p)'
      BY <1>1, <1>11, <2>1, <2>3, <3>1, <3>3, <3>4, ArrivesStraight
    <3>6. StreamStep(p)
      BY <1>1, <1>11, <2>1, <2>3, <3>1, <3>2, GivenIsStreamStep
    <3> QED
      BY <3>5, <3>6
  <2> QED
    BY <2>2, <2>3
<1>14. ASSUME NEW q \in Requests, FutureSet(q) PROVE Straight(p)' /\ StreamStep(p)
  <2>1. /\ mail[q] \in Messages /\ mail[q] # Empty /\ caller[q] = "waiting"
        /\ Given(q, mail[q]) /\ q \notin Js
        /\ UNCHANGED <<wire, mail, task, sent, channel>>
    BY <1>1, <1>14 DEF FutureSet, TypeOK, nodeVars
  <2>2. CASE p # q
    <3>1. got'[p] = got[p] /\ caller'[p] = caller[p]
      BY <1>1, <2>1, <2>2 DEF TypeOK, Given
    <3> QED
      BY <1>2, <2>1, <3>1 DEF Mailed
  <2>3. CASE p = q
    <3>1. /\ Open(p) /\ Mailed(p) /\ Passed(p) = Len(got[p]) + 1
          /\ \/ mail[p] = Len(got[p]) + 1
             \/ mail[p] \in {Error, Blank} /\ wire[p] = <<>> /\ task[p] = "ended"
      BY <1>1, <2>1, <2>3 DEF Straight, Open, Mailed, Passed
    <3>2. /\ Len(got'[p]) <= Chunks
          /\ Open(p)' => \/ Len(got'[p]) = Len(got[p]) + 1
                         \/ mail[p] # Len(got[p]) + 1 /\ Len(got'[p]) = Len(got[p])
          /\ caller'[p] \in {"busy", "done", "failed"}
      BY <1>1, <2>1, <2>3, <3>1, GivenLength
    <3>3. ~Mailed(p)' /\ Passed(p)' = Len(got'[p])
      BY <3>2 DEF Mailed, Passed
    <3>4. /\ wire'[p] = wire[p] /\ mail'[p] = mail[p] /\ task'[p] = task[p]
          /\ sent'[p] = sent[p] /\ channel' = channel
          /\ ~(p \in Js \/ caller'[p] = "idle")
      BY <2>1, <2>3, <3>2
    <3>5. channel' = "closed" => wire'[p] = <<>>
      BY <1>1, <3>4 DEF Straight
    <3>6. /\ CountsToEnd(wire[p], Passed(p))
          /\ task[p] # "ended" => Counts(wire[p], Passed(p))
          /\ task[p] # "ended" /\ channel = "open" => sent[p] = Passed(p) + Len(wire[p])
      BY <1>1, <3>1 DEF Straight
    <3>7. StreamStep(p)
      BY <1>1, <2>1, <2>3, <3>1, GivenIsStreamStep
    <3>8. CASE Passed(p)' = Passed(p)
      <4>1. /\ CountsToEnd(wire'[p], Passed(p)')
            /\ task'[p] # "ended" => Counts(wire'[p], Passed(p)')
            /\ task'[p] # "ended" /\ channel' = "open" =>
                  sent'[p] = Passed(p)' + Len(wire'[p])
        BY <3>8, <3>4, <3>6
      <4> QED
        BY <3>2, <3>3, <3>7, <3>4, <3>5, <4>1 DEF Straight, Counts, CountsToEnd
    <3>9. CASE mail[p] # Len(got[p]) + 1
      <4>1. wire'[p] = <<>> /\ task'[p] = "ended"
        BY <2>1, <3>1, <3>9
      <4>2. CountsToEnd(wire'[p], Passed(p)')
        BY <4>1 DEF CountsToEnd
      <4> QED
        BY <3>2, <3>3, <3>7, <3>4, <3>5, <4>1, <4>2 DEF Straight, CountsToEnd, Counts
    <3>10. CASE ~Open(p)'
      BY <3>2, <3>10, <3>7, <3>5 DEF Straight
    <3> QED
      BY <3>1, <3>2, <3>3, <3>8, <3>9, <3>10
  <2> QED
    BY <2>2, <2>3
<1>15. CASE UNCHANGED vars
  <2>1. /\ got'[p] = got[p] /\ wire'[p] = wire[p] /\ sent'[p] = sent[p] /\ channel' = channel
        /\ mail'[p] = mail[p] /\ caller'[p] = caller[p] /\ task'[p] = task[p]
    BY <1>15 DEF vars, nodeVars, sdkVars
  <2> QED
    BY <1>2, <2>1 DEF Mailed
<1> QED
  BY <1>3, <1>4, <1>5, <1>7, <1>8, <1>9, <1>12, <1>13, <1>14, <1>15 DEF Next

LEMMA PromptStays == [Next]_vars => prompt' = prompt
  BY DEF Next, vars, nodeVars, ChannelCloses, Ask, BeginStream, SendChunk, SendDone, SendError,
         EngineFails, ResponseCut, ArrivesInPython, Arrives, FutureSet, NextInPython, Timeout,
         ArrivesInJs, NextInJs

\* For a caller that always waits when a message comes, either SDK is a
\* ChunkStream: chunk by chunk without a gap, "done" only after the last one,
\* or an error at any point, wherever the connector's task, the channel or the
\* server gave out (webrtc_responder.py:137-196, client.py:162-216).
THEOREM PromptCallersSeeStreams == Spec => PromptCallersGetAll
<1>1. Init => \A q \in prompt : StreamOf(q)!Init
  BY DEF Init, StreamOf!Init
<1>2. StraightInv /\ [Next]_vars => StraightInv'
  <2> SUFFICES ASSUME StraightInv, [Next]_vars PROVE StraightInv'
    OBVIOUS
  <2>1. FlowInv' /\ prompt' = prompt
    BY FlowStep, PromptStays DEF StraightInv
  <2>2. \A q \in prompt : Straight(q)'
    BY StraightStep
  <2> QED
    BY <2>1, <2>2 DEF StraightInv
<1>3. StraightInv /\ [Next]_vars => [\A q \in prompt : StreamStep(q)]_vars
  BY StraightStep
<1> QED
  BY <1>1, <1>2, <1>3, StraightInitially, PTL DEF Spec, PromptCallersGetAll
=============================================================================
