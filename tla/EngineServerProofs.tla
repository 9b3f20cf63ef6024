-------------------------- MODULE EngineServerProofs --------------------------
(***************************************************************************)
(* EngineServer, for any models, any finite sets of requests, any number   *)
(* of engines and any bounds of their queues.                              *)
(***************************************************************************)
EXTENDS EngineServer, SlotQueueProofs, WellFoundedInduction

-----------------------------------------------------------------------------
(* The inductive invariant.                                                *)

\* A handler under way holds an entry that was made; one that has not begun
\* holds none.
HandlersHold ==
    \A r \in Requests :
        /\ phase[r] = "new" => held[r] = None
        /\ phase[r] \notin {"new", "done"} => held[r] # None
        /\ held[r] # None => held[r] \in 1..created /\ wants[r] \in Models

\* An entry not yet made is in no use.
EntriesMade ==
    /\ \A m \in Models : loaded[m] # None => loaded[m] \in 1..created
    /\ \A e \in EntryIds : e > created => ref[e] = 0 /\ queue[e] = FreshQueue

\* As long as the entry of a handler is registered, release_engine finds it
\* under the model the handler asked for.
FoundByModel == \A r \in Requests : held[r] \in Registered => loaded[wants[r]] = held[r]

\* Only a closed entry cancels a generate handler, which then gives no
\* reference back.
CancelledLeft ==
    \A r \in Generate : phase[r] = "cancelled" => held[r] \notin Registered

ServerInv ==
    /\ TypeOK
    /\ HandlersHold /\ EntriesMade /\ FoundByModel /\ CancelledLeft
    /\ OpenIffRegistered
    /\ Cardinality(Registered) <= MaxLoaded
    /\ NoLeakedReference

\* Without forced unloads, every entry in use is registered and counts exactly
\* its users.
InUseInv ==
    /\ ServerInv
    /\ \A e \in Registered : ref[e] = Cardinality(Users(e))
    /\ \A r \in Requests : phase[r] \notin {"new", "dropped", "done"} => held[r] \in Registered

-----------------------------------------------------------------------------
(* Sets of entries and of requests.                                        *)

LEMMA LeastNatural ==
    ASSUME NEW S, S \subseteq Nat, S # {}
    PROVE  \E x \in S : \A y \in S : x <= y
<1>1. PICK x \in S : \A y \in S : <<y, x>> \notin OpToRel(<, Nat)
  BY NatLessThanWellFounded, WFMin
<1>2. ASSUME NEW y \in S PROVE x <= y
  <2>1. x \in Nat /\ y \in Nat
    OBVIOUS
  <2>2. ~ (y < x)
    BY <1>1, <2>1 DEF OpToRel
  <2> QED
    BY <2>1, <2>2
<1> QED
  BY <1>2

LEMMA FiniteRequests == IsFiniteSet(Requests)
<1>1. IsFiniteSet(Chat \cup Generate)
  BY ServerAssumption, FS_Union
<1> QED
  BY <1>1, ServerAssumption, FS_Union DEF Requests

LEMMA FiniteUsers ==
    ASSUME NEW e
    PROVE  IsFiniteSet(Users(e)) /\ Cardinality(Users(e)) \in Nat
<1>1. Users(e) \subseteq Requests
  BY DEF Users
<1> QED
  BY <1>1, FiniteRequests, FS_Subset, FS_CardinalityType

LEMMA RegisteredEntries ==
    ASSUME TypeOK
    PROVE  /\ Registered \subseteq EntryIds /\ Idle \subseteq Registered
           /\ IsFiniteSet(Registered) /\ Cardinality(Registered) \in Nat
<1>1. Registered \subseteq EntryIds /\ Idle \subseteq Registered
  BY DEF TypeOK, Registered, Idle
<1>2. IsFiniteSet(EntryIds)
  BY ServerAssumption, FS_Interval DEF EntryIds
<1> QED
  BY <1>1, <1>2, FS_Subset, FS_CardinalityType

\* An eviction has one victim, an idle entry.
LEMMA OneVictim ==
    ASSUME TypeOK, NEW m \in Models, ~Refused(m)
    PROVE  /\ Victims(m) \subseteq Idle
           /\ MustEvict(m) => \E e \in Idle : Victims(m) = {e}
           /\ ~MustEvict(m) => Victims(m) = {}
<1>1. Idle \subseteq Nat
  BY RegisteredEntries DEF EntryIds
<1>2. ASSUME MustEvict(m) PROVE \E e \in Idle : Victims(m) = {e}
  <2>1. Idle # {}
    BY <1>2 DEF Refused
  <2>2. PICK e \in Idle : \A f \in Idle : e <= f
    BY <1>1, <2>1, LeastNatural
  <2>3. ASSUME NEW d \in Idle, \A f \in Idle : d <= f PROVE d = e
    <3>1. d <= e /\ e <= d /\ d \in Nat /\ e \in Nat
      BY <1>1, <2>2, <2>3
    <3> QED
      BY <3>1
  <2>4. Victims(m) = {e}
    BY <1>2, <2>2, <2>3 DEF Victims
  <2> QED
    BY <2>4
<1>3. ~MustEvict(m) => Victims(m) = {}
  BY DEF Victims
<1> QED
  BY <1>2, <1>3

-----------------------------------------------------------------------------
(* Type correctness.                                                       *)

\* What is left without the entries E, and what a load makes of the registry.
LEMMA WithoutTypes ==
    ASSUME TypeOK, NEW E
    PROVE  /\ Without(E) \in [Models -> EntryIds \cup {None}]
           /\ OpenWithout(E) \in [EntryIds -> BOOLEAN]
           /\ QueuesWithout(E) \in [EntryIds -> QueueType(Requests)]
           /\ PhasesWithout(E) \in [Requests -> Phases]
<1>1. ASSUME NEW e \in EntryIds PROVE CancelWaiting(queue[e]) \in QueueType(Requests)
  BY EmptySeq DEF TypeOK, CancelWaiting, QueueType
<1> QED
  BY <1>1 DEF TypeOK, Without, OpenWithout, QueuesWithout, PhasesWithout, Phases

LEMMA LoadTypes ==
    ASSUME TypeOK, NEW m \in Models, CanLoad(m), NEW n \in Nat, LoadEngine(m, n)
    PROVE  /\ EntryFor(m) \in EntryIds
           /\ loaded' \in [Models -> EntryIds \cup {None}]
           /\ created' \in 0..MaxEntries
           /\ ref' \in [EntryIds -> Nat]
           /\ open' \in [EntryIds -> BOOLEAN]
<1>1. EntryFor(m) \in EntryIds
  BY DEF CanLoad
<1>2. Without(Victims(m)) \in [Models -> EntryIds \cup {None}] /\ OpenWithout(Victims(m)) \in [EntryIds -> BOOLEAN]
  BY WithoutTypes
<1>3. loaded[m] = None => created + 1 \in 1..MaxEntries
  BY <1>1 DEF EntryFor, EntryIds
<1>4. created' \in 0..MaxEntries
  BY <1>3, ServerAssumption DEF LoadEngine, TypeOK
<1>5. ref' \in [EntryIds -> Nat]
  BY <1>1 DEF LoadEngine, TypeOK
<1> QED
  BY <1>1, <1>2, <1>4, <1>5 DEF LoadEngine

\* What ReleaseBoth(r) does to the requests and the queues.
LEMMA ReleaseBothTypes ==
    ASSUME TypeOK, HandlersHold, NEW r \in Requests, phase[r] \notin {"new", "done"},
           ReleaseBoth(r)
    PROVE  TypeOK'
<1>1. held[r] \in EntryIds /\ queue[held[r]] \in QueueType(Requests)
  BY DEF TypeOK, HandlersHold
<1>2. queue' \in [EntryIds -> QueueType(Requests)]
  <2>1. Release(queue[held[r]]) \in QueueType(Requests)
    BY <1>1, QueueOperatorTypes
  <2> QED
    BY <1>1, <2>1 DEF ReleaseBoth, TypeOK
<1>3. phase' \in [Requests -> Phases]
  <2>1. [phase EXCEPT ![r] = "done"] \in [Requests -> Phases] /\ "woken" \in Phases
    BY DEF TypeOK, Phases
  <2> QED
    BY <1>1, <2>1, WakeEffect DEF ReleaseBoth
<1>4. ref' \in [EntryIds -> Nat]
  <2>1. wants[r] \in Models /\ loaded[wants[r]] \in EntryIds \cup {None}
    BY DEF HandlersHold, TypeOK
  <2>2. CASE loaded[wants[r]] = None
    BY <2>2 DEF ReleaseBoth, ReleaseEngine, TypeOK
  <2>3. CASE loaded[wants[r]] \in EntryIds
    BY <2>3 DEF ReleaseBoth, ReleaseEngine, TypeOK
  <2> QED
    BY <2>1, <2>2, <2>3
<1> QED
  BY <1>2, <1>3, <1>4 DEF ReleaseBoth, ReleaseEngine, TypeOK

LEMMA InitType == Init => TypeOK
<1> SUFFICES ASSUME Init PROVE TypeOK
  OBVIOUS
<1>1. FreshQueue \in QueueType(Requests)
  BY QueueAssumption, EmptySeq DEF FreshQueue, QueueType
<1> QED
  BY <1>1, ServerAssumption DEF Init, TypeOK, Phases

LEMMA NextType ==
    ASSUME TypeOK, HandlersHold, [Next]_vars
    PROVE  TypeOK'
<1> USE DEF registryVars
<1>1. ASSUME NEW E, Close(E) PROVE TypeOK'
  BY <1>1, WithoutTypes DEF Close, TypeOK
<1>2. CASE Shutdown
  BY <1>2, WithoutTypes DEF Shutdown, TypeOK
<1>3. ASSUME NEW r \in Requests, AnsweredUnloaded(r) PROVE TypeOK'
  BY <1>3 DEF AnsweredUnloaded, TypeOK, Phases
<1>4. ASSUME NEW r \in Requests, NEW m \in Models, LoadRefused(r, m) PROVE TypeOK'
  BY <1>4 DEF LoadRefused, TypeOK, Phases
<1>5. ASSUME NEW r \in Requests, NEW m \in Models, LoadFails(r, m) PROVE TypeOK'
  <2>1. phase' \in [Requests -> Phases]
    BY <1>5, WithoutTypes DEF LoadFails, Phases
  <2> QED
    BY <1>5, <2>1, WithoutTypes DEF LoadFails, TypeOK
<1>6. ASSUME NEW r \in Requests, NEW m \in Models, CanLoad(m), NEW n \in Nat, LoadEngine(m, n),
             Given(r, m) \/ UNCHANGED <<running, held, wants>>,
             queue' \in [EntryIds -> QueueType(Requests)],
             phase' \in [Requests -> Phases]
      PROVE  TypeOK'
  BY <1>6, LoadTypes DEF TypeOK, Given
<1>7. ASSUME NEW m \in Models, NEW p \in Phases, NEW r \in Requests
      PROVE  [PhasesWithout(Victims(m)) EXCEPT ![r] = p] \in [Requests -> Phases]
  BY WithoutTypes
<1>8. ASSUME NEW m \in Models, NEW e \in EntryIds, NEW q \in QueueType(Requests)
      PROVE  [QueuesWithout(Victims(m)) EXCEPT ![e] = q] \in [EntryIds -> QueueType(Requests)]
  BY WithoutTypes
<1>9. ASSUME NEW r \in Requests, NEW m \in Models, ChatLoads(r, m) \/ EmbedRuns(r, m)
      PROVE  TypeOK'
  <2>1. /\ [PhasesWithout(Victims(m)) EXCEPT ![r] = "loaded"] \in [Requests -> Phases]
        /\ [PhasesWithout(Victims(m)) EXCEPT ![r] = "done"] \in [Requests -> Phases]
    BY <1>7 DEF Phases
  <2>2. queue' \in [EntryIds -> QueueType(Requests)] /\ phase' \in [Requests -> Phases]
    BY <1>9, <2>1, WithoutTypes DEF ChatLoads, EmbedRuns
  <2> QED
    BY <1>6, <1>9, <2>2 DEF ChatLoads, EmbedRuns
<1>10. ASSUME NEW r \in Requests, NEW m \in Models, GenerateStarts(r, m) PROVE TypeOK'
  <2> DEFINE e == EntryFor(m)
             q == queue[e]
  <2>1. e \in EntryIds /\ CanLoad(m) /\ q \in QueueType(Requests)
    BY <1>10 DEF GenerateStarts, CanLoad, TypeOK
  <2>2. /\ Enqueue(q, r) \in QueueType(Requests)
        /\ ~Locked(q) => Take(q) \in QueueType(Requests)
    BY <2>1, QueueOperatorTypes
  <2>3. queue' \in [EntryIds -> QueueType(Requests)] /\ phase' \in [Requests -> Phases]
    BY <1>7, <1>8, <1>10, <2>1, <2>2 DEF GenerateStarts, Phases
  <2> QED
    BY <1>6, <1>10, <2>1, <2>3 DEF GenerateStarts
<1>11. ASSUME NEW r \in Requests, NEW m \in Models, GenerateConversationFails(r, m)
       PROVE  TypeOK'
  <2> DEFINE e == EntryFor(m)
             ended == [PhasesWithout(Victims(m)) EXCEPT ![r] = "done"]
  <2>1. e \in EntryIds /\ CanLoad(m) /\ queue[e] \in QueueType(Requests)
    BY <1>11 DEF GenerateConversationFails, CanLoad, TypeOK
  <2>2. ended \in [Requests -> Phases] /\ Wake(queue[e], ended) \in [Requests -> Phases]
    <3>1. ended \in [Requests -> Phases] /\ "woken" \in Phases
      BY <1>7 DEF Phases
    <3> HIDE DEF ended, e
    <3> QED
      BY <2>1, <3>1, WakeEffect
  <2>3. QueuesWithout(Victims(m)) \in [EntryIds -> QueueType(Requests)]
    BY WithoutTypes
  <2>4. Release(QueuesWithout(Victims(m))[e]) \in QueueType(Requests)
    BY <2>1, <2>3, QueueOperatorTypes
  <2>5. queue' \in [EntryIds -> QueueType(Requests)] /\ phase' \in [Requests -> Phases]
    BY <1>11, <2>1, <2>2, <2>3, <2>4 DEF GenerateConversationFails
  <2> QED
    BY <1>6, <1>11, <2>1, <2>5 DEF GenerateConversationFails
<1>12. ASSUME NEW r \in Requests, ChatAcquires(r) PROVE TypeOK'
  <2>1. held[r] \in EntryIds /\ queue[held[r]] \in QueueType(Requests)
    BY <1>12 DEF ChatAcquires, HandlersHold, TypeOK
  <2>2. /\ Enqueue(queue[held[r]], r) \in QueueType(Requests)
        /\ ~Locked(queue[held[r]]) => Take(queue[held[r]]) \in QueueType(Requests)
    BY <2>1, QueueOperatorTypes
  <2>3. queue' \in [EntryIds -> QueueType(Requests)]
    BY <1>12, <2>1, <2>2 DEF ChatAcquires, TypeOK
  <2> QED
    BY <1>12, <2>3 DEF ChatAcquires, TypeOK, Phases
<1>13. ASSUME NEW r \in Requests, Resume(r) PROVE TypeOK'
  <2>1. held[r] \in EntryIds /\ queue[held[r]] \in QueueType(Requests)
    BY <1>13 DEF Resume, HandlersHold, TypeOK
  <2>2. queue' \in [EntryIds -> QueueType(Requests)]
    BY <1>13, <2>1, QueueOperatorTypes DEF Resume, TypeOK
  <2> QED
    BY <1>13, <2>2 DEF Resume, TypeOK, Phases
<1>14. ASSUME NEW r \in Requests,
              \/ ChatConversationFails(r) \/ ChatDisconnects(r) \/ GenerateCancelled(r)
              \/ GenerateStreams(r) \/ GenerateDropped(r)
       PROVE  TypeOK'
  BY <1>14 DEF ChatConversationFails, ChatDisconnects, GenerateCancelled, GenerateStreams,
               GenerateDropped, TypeOK, Phases
<1>15. ASSUME NEW r \in Requests, ChatFinally(r) \/ GenerateFinally(r) PROVE TypeOK'
  BY <1>15, ReleaseBothTypes DEF ChatFinally, GenerateFinally
<1>16. CASE UNCHANGED vars
  BY <1>16 DEF vars, TypeOK
<1> QED
  BY <1>1, <1>2, <1>3, <1>4, <1>5, <1>9, <1>10, <1>11, <1>12, <1>13, <1>14, <1>15, <1>16
     DEF Next, CollectIdle, Unload, ChatRejected, ChatUnread, GenerateRejected

-----------------------------------------------------------------------------
(* Every step is of one of four kinds, as far as the registry and its      *)
(* users are concerned.                                                    *)

\* Request q keeps its entry, and neither begins nor ends.
Keeps(q) ==
    /\ held'[q] = held[q] /\ wants'[q] = wants[q]
    /\ phase'[q] = "new" <=> phase[q] = "new"
    /\ phase'[q] = "done" <=> phase[q] = "done"
    /\ phase[q] = "dropped" => phase'[q] = "dropped"

\* Request q keeps its entry, or ends without having had one.
KeepsOrRejected(q) ==
    \/ Keeps(q)
    \/ /\ held'[q] = held[q] /\ wants'[q] = wants[q]
       /\ phase[q] = "new" /\ phase'[q] = "done"

\* The entries E leave, and no handler ends that had one.  They are idle,
\* unless one is unloaded by force or no handler is under way.
Leaving(E) ==
    /\ E \subseteq Registered
    /\ \/ CanUnload \/ E \subseteq Idle
       \/ \A q \in Requests : phase[q] \in {"new", "dropped", "done"}
    /\ loaded' = Without(E) /\ open' = OpenWithout(E) /\ UNCHANGED <<created, ref>>
    /\ \A q \in Requests : KeepsOrRejected(q)

\* Request r loads m, and keeps n references, one or none.
Loading(r, m, n) ==
    /\ CanLoad(m) /\ LoadEngine(m, n)
    /\ \A q \in Requests \ {r} : Keeps(q)
    /\ phase[r] = "new"
    /\ \/ /\ n = 1 /\ phase'[r] \notin {"new", "done"}
          /\ held'[r] = EntryFor(m) /\ wants'[r] = m
       \/ /\ n = 0 /\ phase'[r] = "done"
          /\ \/ held'[r] = EntryFor(m) /\ wants'[r] = m
             \/ held'[r] = held[r] /\ wants'[r] = wants[r]

\* Request r ends: its reference is released, or its entry has left.
Ending(r) ==
    /\ phase[r] \notin {"new", "dropped", "done"} /\ phase'[r] = "done"
    /\ held'[r] = held[r] /\ wants'[r] = wants[r]
    /\ \A q \in Requests \ {r} : Keeps(q)
    /\ \/ ReleaseEngine(wants[r])
       \/ UNCHANGED registryVars /\ held[r] \notin Registered

Moving ==
    /\ UNCHANGED registryVars
    /\ \A q \in Requests : KeepsOrRejected(q)

\* Besides, no step cancels a generate handler whose entry stays, or touches
\* the queue of an entry that is not made.
CancelsOnlyLeft ==
    \A q \in Generate :
        phase'[q] = "cancelled" => phase[q] = "cancelled" \/ held'[q] \notin Registered'

LeavesUnmade ==
    \A e \in EntryIds : e > created' => queue'[e] = queue[e]

LEMMA LeavingRegistered ==
    ASSUME TypeOK, NEW E, loaded' = Without(E)
    PROVE  Registered' = Registered \ E
  BY DEF TypeOK, Registered, Without

LEMMA LoadingRegistered ==
    ASSUME TypeOK, EntriesMade, NEW m \in Models, NEW n, LoadEngine(m, n), CanLoad(m)
    PROVE  /\ Registered' = (Registered \ Victims(m)) \cup {EntryFor(m)}
           /\ Victims(m) \subseteq Registered /\ Victims(m) \subseteq Idle
           /\ loaded[m] = None => EntryFor(m) \notin 1..created
           /\ EntryFor(m) \notin Victims(m)
           /\ EntryFor(m) \in 1..created' /\ EntryFor(m) # None
           /\ created <= created' /\ created \in Nat /\ created' \in Nat
<1>1. Victims(m) \subseteq Idle /\ Idle \subseteq Registered
  BY RegisteredEntries DEF Victims
<1>2. Registered \subseteq 1..created /\ created \in Nat
  BY ServerAssumption DEF EntriesMade, Registered, TypeOK
<1>3. EntryFor(m) \in EntryIds /\ EntryFor(m) # None
  BY ServerAssumption DEF CanLoad, EntryIds
<1>4. CASE loaded[m] = None
  <2>1. EntryFor(m) = created + 1 /\ created' = created + 1
    BY <1>4 DEF EntryFor, LoadEngine
  <2>2. EntryFor(m) \notin 1..created /\ EntryFor(m) \in 1..created'
    BY <1>2, <2>1
  <2>3. Registered' = (Registered \ Victims(m)) \cup {EntryFor(m)}
    <3>1. loaded'[m] = EntryFor(m) /\ \A k \in Models \ {m} : loaded'[k] = Without(Victims(m))[k]
      BY DEF LoadEngine, Without
    <3>2. \A k \in Models \ {m} :
             loaded'[k] = IF loaded[k] \in Victims(m) THEN None ELSE loaded[k]
      BY <3>1 DEF Without
    <3>3. ASSUME NEW e \in Registered' PROVE e \in (Registered \ Victims(m)) \cup {EntryFor(m)}
      <4>1. PICK k \in Models : e = loaded'[k] /\ e # None
        BY <3>3 DEF Registered
      <4> QED
        BY <3>1, <3>2, <4>1 DEF Registered
    <3>4. ASSUME NEW e \in Registered \ Victims(m) PROVE e \in Registered'
      <4>1. PICK k \in Models : e = loaded[k] /\ e # None
        BY <3>4 DEF Registered
      <4>2. k # m /\ loaded'[k] = e
        BY <1>4, <3>2, <3>4, <4>1
      <4> QED
        BY <4>1, <4>2 DEF Registered
    <3>5. EntryFor(m) \in Registered'
      BY <1>3, <3>1 DEF Registered
    <3> QED
      BY <3>3, <3>4, <3>5
  <2> QED
    <3>1. created <= created' /\ created' \in Nat
      BY <1>2, <2>1
    <3>2. EntryFor(m) \notin Victims(m)
      BY <1>1, <1>2, <2>2
    <3> QED
      BY <1>1, <1>2, <1>3, <2>2, <2>3, <3>1, <3>2
<1>5. CASE loaded[m] # None
  <2>1. EntryFor(m) = loaded[m] /\ created' = created /\ Victims(m) = {}
    BY <1>5 DEF EntryFor, LoadEngine, Victims, MustEvict
  <2>2. loaded' = loaded
    BY <2>1 DEF LoadEngine, Without, TypeOK
  <2>3. EntryFor(m) \in Registered /\ Registered' = Registered
    BY <1>3, <2>1, <2>2 DEF Registered
  <2> QED
    <3>1. created <= created' /\ created' \in Nat
      BY <1>2, <2>1
    <3>2. EntryFor(m) \in 1..created'
      BY <1>2, <2>1, <2>3
    <3> QED
      BY <1>1, <1>2, <1>3, <1>5, <2>1, <2>3, <3>1, <3>2
<1> QED
  BY <1>4, <1>5

\* What cancelling the waiters of the entries E, and ending r, does to the others.
LEMMA CancelledKeep ==
    ASSUME TypeOK, NEW E, NEW r \in Requests, NEW p \in Phases,
           NEW after, after = [PhasesWithout(E) EXCEPT ![r] = p]
    PROVE  /\ after \in [Requests -> Phases]
           /\ after[r] = p
           /\ \A q \in Requests \ {r} :
                 /\ after[q] = "new" <=> phase[q] = "new"
                 /\ after[q] = "done" <=> phase[q] = "done"
                 /\ phase[q] = "dropped" => after[q] = "dropped"
                 /\ after[q] = "cancelled" /\ held[q] \notin E => phase[q] = "cancelled"
  BY DEF TypeOK, PhasesWithout, Phases

\* release() wakes a waiting request at most.
LEMMA WokenKeep ==
    ASSUME NEW w \in QueueType(Requests), NEW p \in [Requests -> Phases],
           NEW q \in Requests
    PROVE  \/ Wake(w, p)[q] = p[q]
           \/ p[q] = "waiting" /\ Wake(w, p)[q] = "woken"
<1>1. "woken" \in Phases
  BY DEF Phases
<1> QED
  BY <1>1, WakeEffect

LEMMA CloseKind ==
    ASSUME TypeOK, EntriesMade, NEW E, E \subseteq Registered, CanUnload \/ E \subseteq Idle, Close(E)
    PROVE  Leaving(E) /\ CancelsOnlyLeft /\ LeavesUnmade
<1>1. Registered' = Registered \ E
  BY LeavingRegistered DEF Close
<1>2. \A q \in Requests : Keeps(q)
  BY DEF Close, PhasesWithout, TypeOK, Keeps
<1>3. \A q \in Requests :
         phase'[q] = "cancelled" => phase[q] = "cancelled" \/ held[q] \in E
  BY DEF Close, PhasesWithout, TypeOK
<1>4. CancelsOnlyLeft
  BY <1>1, <1>3 DEF CancelsOnlyLeft, Close, Requests
<1>5. E \subseteq 1..created
  BY DEF EntriesMade, Registered
<1>6. LeavesUnmade
  <2>1. \A e \in EntryIds : e > created => e \notin E
    BY <1>5 DEF TypeOK, EntryIds
  <2> QED
    BY <2>1 DEF LeavesUnmade, Close, QueuesWithout
<1> QED
  BY <1>2, <1>4, <1>6 DEF Leaving, Close, KeepsOrRejected

LEMMA ReleaseBothKind ==
    ASSUME TypeOK, HandlersHold, NEW r \in Requests,
           phase[r] \notin {"new", "dropped", "done", "waiting"}, ReleaseBoth(r)
    PROVE  Ending(r) /\ CancelsOnlyLeft /\ LeavesUnmade
<1> DEFINE ended == [phase EXCEPT ![r] = "done"]
<1>1. held[r] \in EntryIds /\ held[r] \in 1..created /\ queue[held[r]] \in QueueType(Requests)
  BY DEF TypeOK, HandlersHold
<1>2. /\ ended \in [Requests -> Phases] /\ ended[r] = "done"
      /\ \A q \in Requests \ {r} : ended[q] = phase[q]
  BY DEF TypeOK, Phases
<1>3. phase' = Wake(queue[held[r]], ended)
  BY DEF ReleaseBoth
<1>4. \A q \in Requests :
         \/ phase'[q] = ended[q]
         \/ ended[q] = "waiting" /\ phase'[q] = "woken"
  <2>1. ASSUME NEW q \in Requests
        PROVE  \/ Wake(queue[held[r]], ended)[q] = ended[q]
               \/ ended[q] = "waiting" /\ Wake(queue[held[r]], ended)[q] = "woken"
    <3> HIDE DEF ended
    <3> QED
      BY <1>1, <1>2, WokenKeep
  <2> QED
    BY <1>3, <2>1
<1>5. phase'[r] = "done" /\ \A q \in Requests \ {r} : Keeps(q)
  BY <1>2, <1>4 DEF Keeps, ReleaseBoth
<1>6. CancelsOnlyLeft
  BY <1>2, <1>4 DEF CancelsOnlyLeft, Requests
<1>7. LeavesUnmade
  BY <1>1 DEF LeavesUnmade, ReleaseBoth, ReleaseEngine, TypeOK
<1> QED
  BY <1>5, <1>6, <1>7 DEF Ending, ReleaseBoth

LEMMA StepKinds ==
    ASSUME TypeOK, HandlersHold, EntriesMade, CancelledLeft, [Next]_vars
    PROVE  /\ \/ \E E \in SUBSET Registered : Leaving(E)
              \/ \E r \in Requests, m \in Models, n \in {0, 1} : Loading(r, m, n)
              \/ \E r \in Requests : Ending(r)
              \/ Moving
           /\ CancelsOnlyLeft /\ LeavesUnmade
<1> USE DEF registryVars
<1> DEFINE Kind ==
       /\ \/ \E E \in SUBSET Registered : Leaving(E)
          \/ \E r \in Requests, m \in Models, n \in {0, 1} : Loading(r, m, n)
          \/ \E r \in Requests : Ending(r)
          \/ Moving
       /\ CancelsOnlyLeft /\ LeavesUnmade
<1>1. ASSUME NEW E, E \subseteq Registered, CanUnload \/ E \subseteq Idle, Close(E)
      PROVE  Kind
  BY <1>1, CloseKind
<1>2. CASE Shutdown
  <2>1. CancelsOnlyLeft
    BY <1>2 DEF CancelsOnlyLeft, Shutdown
  <2>2. LeavesUnmade
    BY <1>2 DEF LeavesUnmade, Shutdown, QueuesWithout, EntriesMade, Registered, TypeOK, EntryIds
  <2>3. Leaving(Registered)
    BY <1>2 DEF Shutdown, Leaving, Without, Registered, KeepsOrRejected, Keeps, TypeOK
  <2> QED
    BY <2>1, <2>2, <2>3
\* A step that moves only the phase of r and the queue of its entry.
<1>3. ASSUME NEW r \in Requests, NEW p \in Phases, phase' = [phase EXCEPT ![r] = p],
             UNCHANGED <<registryVars, held, wants>>,
             p = "cancelled" => r \in Chat,
             \/ phase[r] \notin {"new", "dropped", "done"} /\ p \notin {"new", "done"}
             \/ phase[r] = "new" /\ p = "done",
             \A e \in EntryIds : e # held[r] => queue'[e] = queue[e],
             held[r] = None => UNCHANGED queue
      PROVE  Kind
  <2>1. \A q \in Requests : KeepsOrRejected(q)
    BY <1>3 DEF KeepsOrRejected, Keeps, TypeOK
  <2>2. CancelsOnlyLeft
    BY <1>3, ServerAssumption DEF CancelsOnlyLeft, TypeOK, Requests
  <2>3. LeavesUnmade
    BY <1>3, ServerAssumption DEF LeavesUnmade, HandlersHold, TypeOK, EntryIds
  <2> QED
    BY <1>3, <2>1, <2>2, <2>3 DEF Moving
<1>4. ASSUME NEW r \in Requests, AnsweredUnloaded(r) PROVE Kind
  BY <1>3, <1>4 DEF AnsweredUnloaded, Phases
<1>5. ASSUME NEW r \in Requests, NEW m \in Models, LoadRefused(r, m) PROVE Kind
  BY <1>3, <1>5 DEF LoadRefused, Phases
<1>6. ASSUME NEW r \in Requests, ChatAcquires(r) PROVE Kind
  BY <1>3, <1>6 DEF ChatAcquires, Phases, TypeOK, HandlersHold
<1>7. ASSUME NEW r \in Requests, Resume(r) PROVE Kind
  BY <1>3, <1>7 DEF Resume, Phases, TypeOK, HandlersHold
<1>8. ASSUME NEW r \in Requests,
             \/ ChatConversationFails(r) \/ ChatDisconnects(r)
             \/ GenerateStreams(r) \/ GenerateDropped(r)
      PROVE  Kind
  <2>1. CASE ChatConversationFails(r)
    BY <1>3, <2>1 DEF ChatConversationFails, Phases
  <2>2. CASE ChatDisconnects(r)
    BY <1>3, <2>2 DEF ChatDisconnects, Phases
  <2>3. CASE GenerateStreams(r)
    BY <1>3, <2>3 DEF GenerateStreams, Phases
  <2>4. CASE GenerateDropped(r)
    BY <1>3, <2>4 DEF GenerateDropped, Phases
  <2> QED
    BY <1>8, <2>1, <2>2, <2>3, <2>4
<1>9. ASSUME NEW r \in Requests, GenerateCancelled(r) PROVE Kind
  <2>1. \A q \in Requests \ {r} : Keeps(q)
    BY <1>9 DEF GenerateCancelled, Keeps, TypeOK
  <2>2. Ending(r)
    BY <1>9, <2>1 DEF GenerateCancelled, Ending, CancelledLeft, TypeOK
  <2>3. CancelsOnlyLeft /\ LeavesUnmade
    BY <1>9 DEF GenerateCancelled, CancelsOnlyLeft, LeavesUnmade, TypeOK, Requests
  <2> QED
    BY <2>2, <2>3
<1>10. ASSUME NEW r \in Requests, ChatFinally(r) \/ GenerateFinally(r) PROVE Kind
  BY <1>10, ReleaseBothKind DEF ChatFinally, GenerateFinally
<1>11. ASSUME NEW r \in Requests, NEW m \in Models, LoadFails(r, m) PROVE Kind
  <2>1. Victims(m) \subseteq Idle /\ Victims(m) \subseteq Registered /\ "done" \in Phases
    BY RegisteredEntries DEF Victims, Phases
  <2>2. Registered' = Registered \ Victims(m)
    BY <1>11, LeavingRegistered DEF LoadFails
  <2>3. /\ phase'[r] = "done"
        /\ \A q \in Requests \ {r} : Keeps(q)
        /\ \A q \in Requests \ {r} :
              phase'[q] = "cancelled" /\ held[q] \notin Victims(m) => phase[q] = "cancelled"
    <3>1. phase' = [PhasesWithout(Victims(m)) EXCEPT ![r] = "done"] /\ UNCHANGED <<held, wants>>
      BY <1>11 DEF LoadFails
    <3> QED
      BY <2>1, <3>1, CancelledKeep DEF Keeps
  <2>4. \A q \in Requests : KeepsOrRejected(q)
    BY <1>11, <2>3 DEF LoadFails, KeepsOrRejected
  <2>5. CancelsOnlyLeft
    BY <1>11, <2>2, <2>3 DEF CancelsOnlyLeft, LoadFails, Requests
  <2>6. LeavesUnmade
    BY <1>11, <2>1 DEF LeavesUnmade, LoadFails, QueuesWithout, EntriesMade, Registered, TypeOK,
                       EntryIds
  <2> QED
    BY <1>11, <2>1, <2>4, <2>5, <2>6 DEF LoadFails, Leaving
\* A step that loads m for r, whose own phase becomes p.
<1>12. ASSUME NEW r \in Requests, NEW m \in Models, NEW n \in {0, 1}, NEW p \in Phases,
              phase[r] = "new", CanLoad(m), LoadEngine(m, n), p # "cancelled",
              \A q \in Requests \ {r} :
                  \/ phase'[q] = PhasesWithout(Victims(m))[q]
                  \/ PhasesWithout(Victims(m))[q] = "waiting" /\ phase'[q] = "woken",
              phase'[r] = p,
              \/ n = 1 /\ p \notin {"new", "done"} /\ Given(r, m)
              \/ n = 0 /\ p = "done" /\ (Given(r, m) \/ UNCHANGED <<held, wants>>),
              \A e \in EntryIds :
                  e \notin Victims(m) \cup {EntryFor(m)} => queue'[e] = queue[e]
       PROVE  Kind
  <2>1. /\ Registered' = (Registered \ Victims(m)) \cup {EntryFor(m)}
        /\ Victims(m) \subseteq Registered /\ EntryFor(m) \notin Victims(m)
        /\ EntryFor(m) \in 1..created'
        /\ created <= created' /\ created \in Nat /\ created' \in Nat
    BY <1>12, LoadingRegistered
  <2>2. \A q \in Requests \ {r} :
           LET left == PhasesWithout(Victims(m))[q]
           IN  /\ left = "new" <=> phase[q] = "new"
               /\ left = "done" <=> phase[q] = "done"
               /\ phase[q] = "dropped" => left = "dropped"
               /\ left = "cancelled" /\ held[q] \notin Victims(m) => phase[q] = "cancelled"
    BY DEF PhasesWithout
  <2>3. phase'[r] = p
    BY <1>12
  <2>4. \A q \in Requests \ {r} : held'[q] = held[q] /\ wants'[q] = wants[q]
    <3>1. CASE Given(r, m)
      BY <3>1 DEF Given, TypeOK
    <3>2. CASE UNCHANGED <<held, wants>>
      BY <3>2
    <3> QED
      BY <1>12, <3>1, <3>2
  <2>5. \A q \in Requests \ {r} :
           /\ Keeps(q)
           /\ phase'[q] = "cancelled" /\ held[q] \notin Victims(m) => phase[q] = "cancelled"
    BY <1>12, <2>2, <2>4 DEF Keeps
  <2>6. CancelsOnlyLeft
    <3> SUFFICES ASSUME NEW q \in Generate, phase'[q] = "cancelled", phase[q] # "cancelled"
                 PROVE  held'[q] \notin Registered'
      BY DEF CancelsOnlyLeft
    <3>1. q \in Requests \ {r}
      BY <1>12, <2>3 DEF Requests
    <3>2. held'[q] \in Victims(m)
      BY <2>4, <2>5, <3>1
    <3> QED
      BY <2>1, <3>2
  <2>7. LeavesUnmade
    BY <1>12, <2>1 DEF LeavesUnmade, EntriesMade, Registered, EntryIds
  <2>8. Loading(r, m, n)
    <3>1. Given(r, m) => held'[r] = EntryFor(m) /\ wants'[r] = m
      BY DEF Given, TypeOK
    <3> QED
      BY <1>12, <2>3, <2>5, <3>1 DEF Loading
  <2> QED
    BY <2>6, <2>7, <2>8
<1>13. ASSUME NEW r \in Requests, NEW m \in Models, ChatLoads(r, m) PROVE Kind
  <2>1. /\ phase[r] = "new" /\ CanLoad(m) /\ LoadEngine(m, 1) /\ Given(r, m)
        /\ phase' = [PhasesWithout(Victims(m)) EXCEPT ![r] = "loaded"]
        /\ queue' = QueuesWithout(Victims(m))
    BY <1>13 DEF ChatLoads
  <2>2. /\ "loaded" \in Phases /\ phase'[r] = "loaded"
        /\ \A q \in Requests \ {r} : phase'[q] = PhasesWithout(Victims(m))[q]
    BY <2>1 DEF Phases, PhasesWithout
  <2> QED
    BY <1>12, <2>1, <2>2 DEF QueuesWithout
<1>14. ASSUME NEW r \in Requests, NEW m \in Models, EmbedRuns(r, m) PROVE Kind
  <2>1. /\ phase[r] = "new" /\ CanLoad(m) /\ LoadEngine(m, 0) /\ UNCHANGED <<held, wants>>
        /\ phase' = [PhasesWithout(Victims(m)) EXCEPT ![r] = "done"]
        /\ queue' = QueuesWithout(Victims(m))
    BY <1>14 DEF EmbedRuns
  <2>2. /\ "done" \in Phases /\ phase'[r] = "done"
        /\ \A q \in Requests \ {r} : phase'[q] = PhasesWithout(Victims(m))[q]
    BY <2>1 DEF Phases, PhasesWithout
  <2> QED
    BY <1>12, <2>1, <2>2 DEF QueuesWithout
<1>15. ASSUME NEW r \in Requests, NEW m \in Models, GenerateStarts(r, m) PROVE Kind
  <2>1. PICK p \in {"ready", "waiting", "done"} :
           /\ phase' = [PhasesWithout(Victims(m)) EXCEPT ![r] = p]
           /\ LoadEngine(m, IF p = "done" THEN 0 ELSE 1)
    BY <1>15 DEF GenerateStarts
  <2>2. \A e \in EntryIds :
           e \notin Victims(m) \cup {EntryFor(m)} => queue'[e] = queue[e]
    BY <1>15 DEF GenerateStarts, QueuesWithout
  <2>3. phase[r] = "new" /\ CanLoad(m) /\ Given(r, m)
    BY <1>15 DEF GenerateStarts
  <2>4. /\ p \in Phases /\ phase'[r] = p
        /\ \A q \in Requests \ {r} : phase'[q] = PhasesWithout(Victims(m))[q]
    BY <2>1 DEF Phases, PhasesWithout
  <2> QED
    BY <1>12, <2>1, <2>2, <2>3, <2>4
<1>16. ASSUME NEW r \in Requests, NEW m \in Models, GenerateConversationFails(r, m) PROVE Kind
  <2> DEFINE after == [PhasesWithout(Victims(m)) EXCEPT ![r] = "done"]
             w == queue[EntryFor(m)]
  <2>1. phase[r] = "new" /\ CanLoad(m) /\ Given(r, m) /\ LoadEngine(m, 0)
    BY <1>16 DEF GenerateConversationFails
  <2>2. phase' = after \/ phase' = Wake(w, after)
    BY <1>16 DEF GenerateConversationFails
  <2>3. after \in [Requests -> Phases] /\ after[r] = "done" /\ w \in QueueType(Requests)
    <3>1. "done" \in Phases /\ EntryFor(m) \in EntryIds
      BY <2>1 DEF CanLoad, Phases
    <3>2. w \in QueueType(Requests)
      BY <3>1 DEF TypeOK
    <3>3. after \in [Requests -> Phases] /\ after[r] = "done"
      BY <3>1, WithoutTypes
    <3> QED
      BY <3>2, <3>3
  <2>4. \A q \in Requests : \/ phase'[q] = after[q]
                            \/ after[q] = "waiting" /\ phase'[q] = "woken"
    <3>1. ASSUME NEW q \in Requests
          PROVE  \/ Wake(w, after)[q] = after[q]
                 \/ after[q] = "waiting" /\ Wake(w, after)[q] = "woken"
      <4> HIDE DEF after, w
      <4> QED
        BY <2>3, WokenKeep
    <3> QED
      BY <2>2, <3>1
  <2>5. \A e \in EntryIds :
           e \notin Victims(m) \cup {EntryFor(m)} => queue'[e] = queue[e]
    BY <1>16 DEF GenerateConversationFails, QueuesWithout
  <2>6. /\ "done" \in Phases /\ phase'[r] = "done"
        /\ \A q \in Requests \ {r} :
              \/ phase'[q] = PhasesWithout(Victims(m))[q]
              \/ PhasesWithout(Victims(m))[q] = "waiting" /\ phase'[q] = "woken"
    BY <2>3, <2>4 DEF Phases, PhasesWithout
  <2> HIDE DEF after, w
  <2> QED
    BY <1>12, <2>1, <2>5, <2>6
<1>17. CASE UNCHANGED vars
  BY <1>17 DEF vars, Moving, KeepsOrRejected, Keeps, CancelsOnlyLeft, LeavesUnmade
<1>18. Idle \subseteq Registered
  BY RegisteredEntries
<1>19. \A m \in Models : loaded[m] # None => {loaded[m]} \subseteq Registered
  BY DEF Registered
<1> QED
  BY <1>1, <1>2, <1>4, <1>5, <1>6, <1>7, <1>8, <1>9, <1>10, <1>11, <1>13, <1>14, <1>15, <1>16,
     <1>17, <1>18, <1>19
     DEF Next, CollectIdle, Unload, ChatRejected, ChatUnread, GenerateRejected

-----------------------------------------------------------------------------
(* The invariants of the registry, one by one, over the kinds of steps.    *)

LEMMA KeepsHandlersHold ==
    ASSUME ServerInv, TypeOK', [Next]_vars
    PROVE  HandlersHold'
<1>1. TypeOK /\ HandlersHold /\ EntriesMade /\ CancelledLeft /\ created \in Nat /\ created' \in Nat
  BY ServerAssumption DEF ServerInv, TypeOK
<1>2. ASSUME \A q \in Requests : KeepsOrRejected(q), created' = created
      PROVE  HandlersHold'
  BY <1>1, <1>2 DEF HandlersHold, KeepsOrRejected, Keeps
<1>3. ASSUME NEW r \in Requests, NEW m \in Models, NEW n \in {0, 1}, Loading(r, m, n)
      PROVE  HandlersHold'
  <2>1. EntryFor(m) \in 1..created' /\ created <= created'
    BY <1>1, <1>3, LoadingRegistered DEF Loading
  <2>2. held[r] = None
    BY <1>1, <1>3 DEF HandlersHold, Loading
  <2> QED
    BY <1>1, <1>3, <2>1, <2>2, ServerAssumption DEF HandlersHold, Loading, Keeps
<1>4. ASSUME NEW r \in Requests, Ending(r) PROVE HandlersHold'
  BY <1>1, <1>4 DEF HandlersHold, Ending, Keeps, ReleaseEngine, registryVars
<1> QED
  BY <1>1, <1>2, <1>3, <1>4, StepKinds DEF Leaving, Moving, registryVars

LEMMA KeepsEntriesMade ==
    ASSUME ServerInv, TypeOK', [Next]_vars
    PROVE  EntriesMade'
<1>1. TypeOK /\ HandlersHold /\ EntriesMade /\ CancelledLeft /\ created \in Nat /\ created' \in Nat
  BY ServerAssumption DEF ServerInv, TypeOK
<1>2. LeavesUnmade
  BY <1>1, StepKinds
<1>3. ASSUME NEW E, Leaving(E) PROVE EntriesMade'
  BY <1>1, <1>2, <1>3 DEF EntriesMade, Leaving, LeavesUnmade, Without
<1>4. ASSUME NEW r \in Requests, NEW m \in Models, NEW n \in {0, 1}, Loading(r, m, n)
      PROVE  EntriesMade'
  <2>1. /\ EntryFor(m) \in 1..created' /\ created <= created'
        /\ Registered' = (Registered \ Victims(m)) \cup {EntryFor(m)}
    BY <1>1, <1>4, LoadingRegistered DEF Loading
  <2>2. \A k \in Models : loaded'[k] # None => loaded'[k] \in 1..created'
    <3>1. Registered' \subseteq 1..created'
      BY <1>1, <2>1 DEF EntriesMade, Registered
    <3> QED
      BY <3>1 DEF Registered
  <2>3. \A e \in EntryIds : e > created' => ref'[e] = 0
    BY <1>1, <1>4, <2>1 DEF EntriesMade, Loading, LoadEngine, EntryIds, TypeOK
  <2> QED
    BY <1>1, <1>2, <2>1, <2>2, <2>3 DEF EntriesMade, LeavesUnmade, EntryIds
<1>5. ASSUME NEW r \in Requests, Ending(r) PROVE EntriesMade'
  <2>1. created' = created /\ loaded' = loaded
    BY <1>5 DEF Ending, ReleaseEngine, registryVars
  <2>2. wants[r] \in Models
    BY <1>1, <1>5 DEF HandlersHold, Ending
  <2>3. \A e \in EntryIds : e > created => ref'[e] = ref[e]
    BY <1>1, <1>5, <2>2 DEF EntriesMade, Ending, ReleaseEngine, registryVars, TypeOK, EntryIds
  <2> QED
    BY <1>1, <1>2, <2>1, <2>3 DEF EntriesMade, LeavesUnmade
<1>6. CASE Moving
  BY <1>1, <1>2, <1>6 DEF EntriesMade, Moving, LeavesUnmade, registryVars
<1> QED
  BY <1>1, <1>3, <1>4, <1>5, <1>6, StepKinds

LEMMA KeepsFoundByModel ==
    ASSUME ServerInv, TypeOK', [Next]_vars
    PROVE  FoundByModel'
<1>1. TypeOK /\ HandlersHold /\ EntriesMade /\ CancelledLeft /\ FoundByModel
  BY DEF ServerInv
<1>2. ASSUME NEW E, Leaving(E) PROVE FoundByModel'
  <2>1. Registered' = Registered \ E
    BY <1>1, <1>2, LeavingRegistered DEF Leaving
  <2> SUFFICES ASSUME NEW r \in Requests, held'[r] \in Registered'
               PROVE  loaded'[wants'[r]] = held'[r]
    BY DEF FoundByModel
  <2>2. held'[r] = held[r] /\ wants'[r] = wants[r] /\ held[r] # None
    BY <1>2, <2>1 DEF Leaving, KeepsOrRejected, Keeps, Registered
  <2>3. wants[r] \in Models /\ loaded[wants[r]] = held[r] /\ held[r] \notin E
    BY <1>1, <2>1, <2>2 DEF HandlersHold, FoundByModel
  <2> QED
    BY <1>2, <2>2, <2>3 DEF Leaving, Without
<1>3. ASSUME NEW r \in Requests, NEW m \in Models, NEW n \in {0, 1}, Loading(r, m, n)
      PROVE  FoundByModel'
  <2>1. /\ Registered' = (Registered \ Victims(m)) \cup {EntryFor(m)}
        /\ loaded[m] = None => EntryFor(m) \notin 1..created
        /\ loaded' = [Without(Victims(m)) EXCEPT ![m] = EntryFor(m)]
        /\ EntryFor(m) \notin Victims(m)
    BY <1>1, <1>3, LoadingRegistered DEF Loading, LoadEngine
  <2>2. loaded'[m] = EntryFor(m)
    BY <2>1 DEF Without
  <2>3. ASSUME NEW q \in Requests, held'[q] \in Registered', held'[q] = held[q], wants'[q] = wants[q]
        PROVE  loaded'[wants'[q]] = held'[q]
    <3>1. held[q] # None /\ wants[q] \in Models /\ held[q] \in 1..created
      BY <1>1, <2>3 DEF HandlersHold, Registered
    <3>2. held[q] \in Registered /\ held[q] \notin Victims(m)
      BY <2>1, <2>3, <3>1 DEF EntryFor, Registered
    <3>3. loaded[wants[q]] = held[q]
      BY <1>1, <3>2 DEF FoundByModel
    <3>4. CASE wants[q] = m
      <4>1. loaded[m] # None
        BY <3>1, <3>3, <3>4
      <4> QED
        BY <2>2, <2>3, <3>3, <3>4, <4>1 DEF EntryFor
    <3>5. CASE wants[q] # m
      BY <2>1, <2>3, <3>1, <3>2, <3>3, <3>5 DEF Without
    <3> QED
      BY <3>4, <3>5
  <2> QED
    BY <1>3, <2>2, <2>3 DEF FoundByModel, Loading, Keeps
<1>4. ASSUME UNCHANGED loaded, \A q \in Requests : held'[q] = held[q] /\ wants'[q] = wants[q]
      PROVE  FoundByModel'
  BY <1>1, <1>4 DEF FoundByModel, Registered
<1>5. ASSUME NEW r \in Requests, Ending(r) PROVE FoundByModel'
  BY <1>4, <1>5 DEF Ending, Keeps, ReleaseEngine, registryVars
<1>6. CASE Moving
  BY <1>4, <1>6 DEF Moving, KeepsOrRejected, Keeps, registryVars
<1> QED
  BY <1>1, <1>2, <1>3, <1>5, <1>6, StepKinds

LEMMA KeepsCancelledLeft ==
    ASSUME ServerInv, TypeOK', [Next]_vars
    PROVE  CancelledLeft'
<1>1. TypeOK /\ HandlersHold /\ EntriesMade /\ CancelledLeft /\ CancelsOnlyLeft
  BY StepKinds DEF ServerInv
\* An entry that left does not come back.
<1>2. \A q \in Requests : held'[q] = held[q] /\ held[q] \notin Registered /\ held[q] # None
                          => held'[q] \notin Registered'
  <2>1. ASSUME NEW E, Leaving(E) PROVE Registered' \subseteq Registered
    BY <1>1, <2>1, LeavingRegistered DEF Leaving
  <2>2. ASSUME NEW r \in Requests, NEW m \in Models, NEW n \in {0, 1}, Loading(r, m, n)
        PROVE  \A e \in 1..created : e \notin Registered => e \notin Registered'
    <3>1. /\ Registered' = (Registered \ Victims(m)) \cup {EntryFor(m)}
          /\ loaded[m] = None => EntryFor(m) \notin 1..created
      BY <1>1, <2>2, LoadingRegistered DEF Loading
    <3>2. loaded[m] # None => EntryFor(m) \in Registered
      BY DEF EntryFor, Registered
    <3> QED
      BY <3>1, <3>2
  <2>3. ASSUME UNCHANGED loaded PROVE Registered' = Registered
    BY <2>3 DEF Registered
  <2>4. \A q \in Requests : held[q] # None => held[q] \in 1..created
    BY <1>1 DEF HandlersHold
  <2> QED
    BY <1>1, <2>1, <2>2, <2>3, <2>4, StepKinds DEF Ending, Moving, ReleaseEngine, registryVars
<1>3. ASSUME NEW q \in Generate, phase'[q] = "cancelled"
      PROVE  held'[q] \notin Registered'
  <2>1. CASE phase[q] = "cancelled"
    <3>1. q \in Requests /\ phase[q] \notin {"new", "done"}
      BY <2>1 DEF Requests
    <3>2. held[q] \notin Registered /\ held[q] # None
      BY <1>1, <2>1, <3>1 DEF CancelledLeft, HandlersHold
    <3>3. held'[q] = held[q]
      <4>1. ASSUME NEW r \in Requests, NEW m \in Models, NEW n \in {0, 1}, Loading(r, m, n)
            PROVE  Keeps(q)
        BY <2>1, <3>1, <4>1 DEF Loading
      <4>2. ASSUME NEW r \in Requests, Ending(r) PROVE held'[q] = held[q]
        BY <3>1, <4>2 DEF Ending, Keeps
      <4> QED
        BY <1>1, <3>1, <4>1, <4>2, StepKinds DEF Leaving, Moving, Keeps, KeepsOrRejected
    <3> QED
      BY <1>2, <3>1, <3>2, <3>3
  <2>2. CASE phase[q] # "cancelled"
    BY <1>1, <1>3, <2>2 DEF CancelsOnlyLeft
  <2> QED
    BY <2>1, <2>2
<1> QED
  BY <1>3 DEF CancelledLeft

LEMMA KeepsOpenIffRegistered ==
    ASSUME ServerInv, TypeOK', [Next]_vars
    PROVE  OpenIffRegistered'
<1>1. TypeOK /\ HandlersHold /\ EntriesMade /\ CancelledLeft /\ OpenIffRegistered
  BY DEF ServerInv
<1>2. ASSUME NEW E, Leaving(E) PROVE OpenIffRegistered'
  <2>1. Registered' = Registered \ E
    BY <1>1, <1>2, LeavingRegistered DEF Leaving
  <2>2. \A e \in EntryIds : open'[e] <=> e \in Registered'
    BY <1>1, <1>2, <2>1 DEF OpenIffRegistered, Leaving, OpenWithout
  <2>3. \A m, n \in Models : loaded'[m] = loaded'[n] /\ loaded'[m] # None => m = n
    BY <1>1, <1>2 DEF OpenIffRegistered, Leaving, Without
  <2> QED
    BY <2>2, <2>3 DEF OpenIffRegistered
<1>3. ASSUME NEW r \in Requests, NEW m \in Models, NEW n \in {0, 1}, Loading(r, m, n)
      PROVE  OpenIffRegistered'
  <2> DEFINE e == EntryFor(m)
  <2>1. /\ Registered' = (Registered \ Victims(m)) \cup {e}
        /\ loaded[m] = None => e \notin 1..created
        /\ e \notin Victims(m) /\ e \in EntryIds
    BY <1>1, <1>3, LoadingRegistered DEF Loading, CanLoad
  <2>2. /\ loaded' = [Without(Victims(m)) EXCEPT ![m] = e]
        /\ open' = [OpenWithout(Victims(m)) EXCEPT ![e] = TRUE]
    BY <1>3 DEF Loading, LoadEngine
  <2>3. \A d \in EntryIds : open'[d] <=> d \in Registered'
    BY <1>1, <2>1, <2>2 DEF OpenIffRegistered, OpenWithout
  <2>4. \A k \in Models : k # m /\ loaded'[k] # None => loaded'[k] = loaded[k] /\ loaded[k] # e
    <3>1. ASSUME NEW k \in Models, k # m, loaded'[k] # None
          PROVE  loaded'[k] = loaded[k] /\ loaded[k] # None
      BY <2>2, <3>1 DEF Without
    <3>2. ASSUME NEW k \in Models, k # m, loaded[k] # None PROVE loaded[k] # e
      BY <1>1, <2>1, <3>2 DEF EntriesMade, EntryFor, OpenIffRegistered
    <3> QED
      BY <3>1, <3>2
  <2>5. loaded'[m] = e
    BY <2>2 DEF Without
  <2>6. \A k, l \in Models : loaded'[k] = loaded'[l] /\ loaded'[k] # None => k = l
    <3> HIDE DEF e
    <3> QED
      BY <1>1, <2>4, <2>5 DEF OpenIffRegistered
  <2> QED
    BY <2>3, <2>6 DEF OpenIffRegistered
<1>4. ASSUME UNCHANGED <<loaded, open>> PROVE OpenIffRegistered'
  BY <1>1, <1>4 DEF OpenIffRegistered, Registered
<1> QED
  BY <1>1, <1>2, <1>3, <1>4, StepKinds DEF Ending, Moving, ReleaseEngine, registryVars

LEMMA KeepsBound ==
    ASSUME ServerInv, TypeOK', [Next]_vars
    PROVE  (Cardinality(Registered) <= MaxLoaded)'
<1>1. /\ TypeOK /\ HandlersHold /\ EntriesMade /\ CancelledLeft
      /\ Cardinality(Registered) <= MaxLoaded
  BY DEF ServerInv
<1>2. IsFiniteSet(Registered) /\ Cardinality(Registered) \in Nat /\ MaxLoaded \in Nat
  BY <1>1, RegisteredEntries, ServerAssumption
<1>3. ASSUME Registered' \subseteq Registered PROVE Cardinality(Registered') <= MaxLoaded
  <2>1. Cardinality(Registered') <= Cardinality(Registered) /\ IsFiniteSet(Registered')
    BY <1>2, <1>3, FS_Subset
  <2>2. Cardinality(Registered') \in Nat
    BY <2>1, FS_CardinalityType
  <2> QED
    BY <1>1, <1>2, <2>1, <2>2
<1>4. ASSUME NEW E, Leaving(E) PROVE Registered' \subseteq Registered
  BY <1>1, <1>4, LeavingRegistered DEF Leaving
<1>5. ASSUME NEW r \in Requests, NEW m \in Models, NEW n \in {0, 1}, Loading(r, m, n)
      PROVE  Cardinality(Registered') <= MaxLoaded
  <2>1. /\ Registered' = (Registered \ Victims(m)) \cup {EntryFor(m)}
        /\ ~Refused(m)
    BY <1>1, <1>5, LoadingRegistered DEF Loading, CanLoad
  <2>2. CASE loaded[m] # None
    <3>1. EntryFor(m) \in Registered
      BY <2>2 DEF EntryFor, Registered
    <3> QED
      BY <1>3, <2>1, <3>1
  <2>3. CASE MustEvict(m)
    <3>1. PICK v \in Registered : Victims(m) = {v}
      BY <1>1, <2>1, <2>3, OneVictim, RegisteredEntries
    <3>2. /\ IsFiniteSet(Registered \ {v})
          /\ Cardinality(Registered \ {v}) = Cardinality(Registered) - 1
      BY <1>2, <3>1, FS_RemoveElement
    <3>3. /\ Cardinality(Registered') <= Cardinality(Registered \ {v}) + 1
          /\ Cardinality(Registered') \in Nat
      BY <2>1, <3>1, <3>2, AtMostOneMore
    <3> QED
      BY <1>1, <1>2, <3>2, <3>3
  <2>4. CASE loaded[m] = None /\ ~MustEvict(m)
    <3>1. Cardinality(Registered) < MaxLoaded
      BY <1>2, <2>4 DEF MustEvict
    <3>2. Registered' = Registered \cup {EntryFor(m)}
      BY <2>1, <2>4 DEF Victims
    <3>3. /\ Cardinality(Registered') <= Cardinality(Registered) + 1
          /\ Cardinality(Registered') \in Nat
      BY <1>2, <3>2, AtMostOneMore
    <3> QED
      BY <1>2, <3>1, <3>3
  <2> QED
    BY <2>2, <2>3, <2>4
<1>6. ASSUME UNCHANGED loaded PROVE Registered' = Registered
  BY <1>6 DEF Registered
<1> QED
  BY <1>1, <1>3, <1>4, <1>5, <1>6, StepKinds DEF Ending, Moving, ReleaseEngine, registryVars

-----------------------------------------------------------------------------
(* References and users.                                                   *)

LEMMA SameUsers ==
    ASSUME HandlersHold, NEW e \in EntryIds, \A q \in Requests : KeepsOrRejected(q)
    PROVE  Users(e)' = Users(e)
<1>1. e # None
  BY ServerAssumption DEF EntryIds
<1> QED
  BY <1>1 DEF Users, HandlersHold, KeepsOrRejected, Keeps

LEMMA LoadingUsers ==
    ASSUME HandlersHold, NEW e \in EntryIds,
           NEW r \in Requests, NEW m \in Models, NEW n \in {0, 1}, Loading(r, m, n)
    PROVE  /\ r \notin Users(e)
           /\ Users(e)' = IF n = 1 /\ e = EntryFor(m) THEN Users(e) \cup {r} ELSE Users(e)
<1>1. e # None /\ held[r] = None
  BY ServerAssumption DEF EntryIds, HandlersHold, Loading
<1>2. \A q \in Requests \ {r} : q \in Users(e)' <=> q \in Users(e)
  BY DEF Users, Loading, Keeps
<1>3. r \notin Users(e)
  BY <1>1 DEF Users
<1>4. r \in Users(e)' <=> n = 1 /\ e = EntryFor(m)
  BY DEF Users, Loading
<1>5. Users(e) \subseteq Requests /\ Users(e)' \subseteq Requests
  BY DEF Users
<1> QED
  BY <1>2, <1>3, <1>4, <1>5

LEMMA EndingUsers ==
    ASSUME HandlersHold, NEW r \in Requests, Ending(r)
    PROVE  /\ r \in Users(held[r]) /\ held[r] # None /\ wants[r] \in Models
           /\ \A e \in EntryIds : Users(e)' = Users(e) \ {r}
           /\ \A e \in EntryIds : e # held[r] => r \notin Users(e)
  BY DEF Users, HandlersHold, Ending, Keeps

\* What an ending does to the references of a registered entry.  A handler
\* whose entry has left releases the one its model has been given since.
LEMMA EndingReferences ==
    ASSUME ServerInv, NEW r \in Requests, Ending(r), NEW e \in Registered
    PROVE  /\ Registered' = Registered
           /\ ref'[e] = ref[e] \/ ref'[e] = IF ref[e] > 0 THEN ref[e] - 1 ELSE 0
           /\ held[r] \in Registered /\ e # held[r] => ref'[e] = ref[e]
           /\ e = held[r] => ref'[e] = IF ref[e] > 0 THEN ref[e] - 1 ELSE 0
<1>1. TypeOK /\ HandlersHold /\ FoundByModel /\ OpenIffRegistered
  BY DEF ServerInv
<1>2. wants[r] \in Models /\ held[r] # None
  BY <1>1, EndingUsers
<1>3. Registered' = Registered
  BY DEF Ending, ReleaseEngine, registryVars, Registered
<1>4. CASE UNCHANGED registryVars /\ held[r] \notin Registered
  BY <1>3, <1>4 DEF registryVars
<1>5. CASE ReleaseEngine(wants[r]) /\ loaded[wants[r]] = None
  <2>1. held[r] \notin Registered
    BY <1>1, <1>2, <1>5 DEF FoundByModel
  <2> QED
    BY <1>3, <1>5, <2>1 DEF ReleaseEngine
<1>6. CASE ReleaseEngine(wants[r]) /\ loaded[wants[r]] # None
  <2> DEFINE d == loaded[wants[r]]
  <2>1. d \in EntryIds /\ e \in EntryIds
    BY <1>1, <1>2, <1>6, RegisteredEntries DEF TypeOK
  <2>2. ref' = [ref EXCEPT ![d] = IF ref[d] > 0 THEN ref[d] - 1 ELSE 0]
    BY <1>6 DEF ReleaseEngine
  <2>3. held[r] \in Registered => d = held[r]
    BY <1>1 DEF FoundByModel
  <2>4. ref \in [EntryIds -> Nat]
    BY <1>1 DEF TypeOK
  <2> QED
    BY <1>3, <2>1, <2>2, <2>3, <2>4
<1> QED
  BY <1>4, <1>5, <1>6 DEF Ending

\* The users of an entry when one of them ends.
LEMMA OneUserLess ==
    ASSUME HandlersHold, NEW r \in Requests, Ending(r), NEW e \in EntryIds
    PROVE  /\ e = held[r] => /\ Cardinality(Users(e)) > 0
                             /\ Cardinality(Users(e)') = Cardinality(Users(e)) - 1
           /\ e # held[r] => Users(e)' = Users(e)
<1>1. /\ r \in Users(held[r]) /\ Users(e)' = Users(e) \ {r}
      /\ e # held[r] => r \notin Users(e)
  BY EndingUsers
<1>2. IsFiniteSet(Users(e)) /\ Cardinality(Users(e)) \in Nat
  BY FiniteUsers
<1>3. CASE e = held[r]
  <2>1. r \in Users(e)
    BY <1>1, <1>3
  <2>2. IsFiniteSet(Users(e) \ {r}) /\ Cardinality(Users(e) \ {r}) = Cardinality(Users(e)) - 1
    BY <1>2, <2>1, FS_RemoveElement
  <2>3. Cardinality(Users(e) \ {r}) \in Nat
    BY <2>2, FS_CardinalityType
  <2> QED
    BY <1>1, <1>2, <1>3, <2>2, <2>3
<1> QED
  BY <1>1, <1>3

\* The users and the references of an entry when a request loads it.
LEMMA OneUserMore ==
    ASSUME ServerInv, NEW e \in EntryIds,
           NEW r \in Requests, NEW m \in Models, NEW n \in {0, 1}, Loading(r, m, n)
    PROVE  /\ Cardinality(Users(e)') = Cardinality(Users(e)) + (IF e = EntryFor(m) THEN n ELSE 0)
           /\ ref'[e] = ref[e] + (IF e = EntryFor(m) THEN n ELSE 0)
           /\ Cardinality(Users(e)) \in Nat
<1>1. TypeOK /\ HandlersHold
  BY DEF ServerInv
<1>2. /\ r \notin Users(e)
      /\ Users(e)' = IF n = 1 /\ e = EntryFor(m) THEN Users(e) \cup {r} ELSE Users(e)
  BY <1>1, LoadingUsers
<1>3. IsFiniteSet(Users(e)) /\ Cardinality(Users(e)) \in Nat
  BY FiniteUsers
<1>4. Cardinality(Users(e) \cup {r}) = Cardinality(Users(e)) + 1
  BY <1>2, <1>3, FS_AddElement
<1>5. ref'[e] = ref[e] + (IF e = EntryFor(m) THEN n ELSE 0)
  BY <1>1 DEF Loading, LoadEngine, TypeOK
<1> QED
  BY <1>2, <1>3, <1>4, <1>5

LEMMA KeepsNoLeakedReference ==
    ASSUME ServerInv, TypeOK', [Next]_vars
    PROVE  NoLeakedReference'
<1>1. /\ TypeOK /\ HandlersHold /\ EntriesMade /\ CancelledLeft /\ NoLeakedReference
      /\ Registered \subseteq EntryIds
  BY RegisteredEntries DEF ServerInv
<1>2. ASSUME \A q \in Requests : KeepsOrRejected(q), ref' = ref, Registered' \subseteq Registered
      PROVE  NoLeakedReference'
  <2> SUFFICES ASSUME NEW e \in Registered' PROVE ref'[e] <= Cardinality(Users(e)')
    BY DEF NoLeakedReference
  <2>1. Users(e)' = Users(e) /\ e \in Registered
    BY <1>1, <1>2, SameUsers
  <2> QED
    BY <1>1, <1>2, <2>1 DEF NoLeakedReference
<1>3. ASSUME NEW r \in Requests, NEW m \in Models, NEW n \in {0, 1}, Loading(r, m, n)
      PROVE  NoLeakedReference'
  <2> SUFFICES ASSUME NEW e \in Registered' PROVE ref'[e] <= Cardinality(Users(e)')
    BY DEF NoLeakedReference
  <2>1. /\ Registered' = (Registered \ Victims(m)) \cup {EntryFor(m)}
        /\ EntryFor(m) \in EntryIds
        /\ loaded[m] = None => EntryFor(m) \notin 1..created
    BY <1>1, <1>3, LoadingRegistered DEF Loading, CanLoad
  <2>2. e \in EntryIds
    BY <1>1, <2>1
  <2>3. /\ Cardinality(Users(e)') = Cardinality(Users(e)) + (IF e = EntryFor(m) THEN n ELSE 0)
        /\ ref'[e] = ref[e] + (IF e = EntryFor(m) THEN n ELSE 0)
        /\ Cardinality(Users(e)) \in Nat
    BY <1>3, <2>2, OneUserMore
  <2>4. ref[e] <= Cardinality(Users(e)) /\ ref[e] \in Nat
    <3>1. CASE e \in Registered
      BY <1>1, <2>2, <3>1 DEF NoLeakedReference, TypeOK
    <3>2. CASE e \notin Registered
      <4>1. e = EntryFor(m) /\ loaded[m] = None
        BY <2>1, <3>2 DEF EntryFor, Registered
      <4>2. ref[e] = 0
        BY <1>1, <2>1, <2>2, <4>1, ServerAssumption DEF EntriesMade, EntryIds, TypeOK
      <4> QED
        BY <2>3, <4>2
    <3> QED
      BY <3>1, <3>2
  <2> QED
    BY <2>3, <2>4
<1>4. ASSUME NEW r \in Requests, Ending(r)
      PROVE  NoLeakedReference'
  <2> SUFFICES ASSUME NEW e \in Registered' PROVE ref'[e] <= Cardinality(Users(e)')
    BY DEF NoLeakedReference
  <2>1. Registered' = Registered
    BY <1>4 DEF Ending, ReleaseEngine, registryVars, Registered
  <2>2. e \in Registered /\ e \in EntryIds
    BY <1>1, <2>1
  <2>3. /\ ref'[e] = ref[e] \/ ref'[e] = IF ref[e] > 0 THEN ref[e] - 1 ELSE 0
        /\ e = held[r] => ref'[e] = IF ref[e] > 0 THEN ref[e] - 1 ELSE 0
    BY <1>4, <2>2, EndingReferences
  <2>4. /\ e = held[r] => /\ Cardinality(Users(e)) > 0
                          /\ Cardinality(Users(e)') = Cardinality(Users(e)) - 1
        /\ e # held[r] => Users(e)' = Users(e)
    BY <1>1, <1>4, <2>2, OneUserLess
  <2>5. ref[e] <= Cardinality(Users(e)) /\ ref[e] \in Nat /\ Cardinality(Users(e)) \in Nat
    BY <1>1, <2>2, FiniteUsers DEF NoLeakedReference, TypeOK
  <2> QED
    BY <2>3, <2>4, <2>5
<1>5. ASSUME NEW E, Leaving(E) PROVE Registered' \subseteq Registered
  BY <1>1, <1>5, LeavingRegistered DEF Leaving
<1>6. Moving => Registered' = Registered /\ ref' = ref
  BY DEF Moving, registryVars, Registered
<1> QED
  BY <1>1, <1>2, <1>3, <1>4, <1>5, <1>6, StepKinds DEF Leaving, Moving

LEMMA InitServerInv == Init => ServerInv
<1> SUFFICES ASSUME Init PROVE ServerInv
  OBVIOUS
<1>1. TypeOK
  BY InitType
<1>2. Registered = {}
  BY DEF Init, Registered
<1>3. Cardinality(Registered) <= MaxLoaded
  BY <1>2, FS_EmptySet, ServerAssumption
<1>4. HandlersHold /\ FoundByModel /\ CancelledLeft
  BY DEF Init, HandlersHold, FoundByModel, CancelledLeft, Registered, Requests
<1>5. EntriesMade
  BY DEF Init, EntriesMade
<1>6. OpenIffRegistered /\ NoLeakedReference
  BY <1>2 DEF Init, OpenIffRegistered, NoLeakedReference
<1> QED
  BY <1>1, <1>3, <1>4, <1>5, <1>6 DEF ServerInv

LEMMA NextServerInv == ServerInv /\ [Next]_vars => ServerInv'
<1> SUFFICES ASSUME ServerInv, [Next]_vars PROVE ServerInv'
  OBVIOUS
<1>1. TypeOK'
  BY NextType DEF ServerInv
<1>2. HandlersHold' /\ EntriesMade' /\ FoundByModel' /\ CancelledLeft'
  BY <1>1, KeepsHandlersHold, KeepsEntriesMade, KeepsFoundByModel, KeepsCancelledLeft
<1>3. OpenIffRegistered' /\ NoLeakedReference' /\ (Cardinality(Registered) <= MaxLoaded)'
  BY <1>1, KeepsOpenIffRegistered, KeepsNoLeakedReference, KeepsBound
<1> QED
  BY <1>1, <1>2, <1>3 DEF ServerInv

LEMMA ServerInvariant == Spec => []ServerInv
<1> QED
  BY InitServerInv, NextServerInv, PTL DEF Spec

-----------------------------------------------------------------------------
\* The variables of the server stay in their types whatever the handlers, the
\* collector, forced unloads and the shutdown do.
THEOREM TypeCorrect == Spec => []TypeOK
<1>1. ServerInv => TypeOK
  BY DEF ServerInv
<1> QED
  BY <1>1, ServerInvariant, PTL

\* An engine is open exactly while its entry is registered, and no entry
\* serves two models (engine_manager.py, load_engine, the collector and
\* unload_engine).
THEOREM OpenExactlyRegistered == Spec => []OpenIffRegistered
<1>1. ServerInv => OpenIffRegistered
  BY DEF ServerInv
<1> QED
  BY <1>1, ServerInvariant, PTL

\* No more engines than max_loaded_models are open at once.
THEOREM LoadedBounded == Spec => []LoadedBound
<1>1. ServerInv => LoadedBound
  <2> SUFFICES ASSUME ServerInv PROVE LoadedBound
    OBVIOUS
  <2>1. /\ Registered \subseteq EntryIds /\ Cardinality(Registered) <= MaxLoaded
        /\ \A e \in EntryIds : open[e] <=> e \in Registered
    BY RegisteredEntries DEF ServerInv, OpenIffRegistered
  <2>2. {e \in EntryIds : open[e]} = Registered
    BY <2>1
  <2> QED
    BY <2>1, <2>2 DEF LoadedBound
<1> QED
  BY <1>1, ServerInvariant, PTL

\* A registered entry counts no more references than handlers that use it,
\* even when a handler releases an entry that was reloaded meanwhile: an
\* engine nobody uses has no reference left and can be collected.
THEOREM NoReferenceLeaks == Spec => []NoLeakedReference
<1>1. ServerInv => NoLeakedReference
  BY DEF ServerInv
<1> QED
  BY <1>1, ServerInvariant, PTL

-----------------------------------------------------------------------------
(* Entries in use, when no engine is unloaded by force.                    *)

LEMMA KeepsInUse ==
    ASSUME ~CanUnload, InUseInv, ServerInv', [Next]_vars
    PROVE  \A q \in Requests :
              phase'[q] \notin {"new", "dropped", "done"} => held'[q] \in Registered'
<1>1. /\ TypeOK /\ HandlersHold /\ EntriesMade /\ CancelledLeft
      /\ \A q \in Requests : phase[q] \notin {"new", "dropped", "done"} => held[q] \in Registered
      /\ \A e \in Registered : ref[e] = Cardinality(Users(e))
      /\ Registered \subseteq EntryIds
  BY RegisteredEntries DEF InUseInv, ServerInv
\* An idle entry has no users.
<1>2. \A q \in Requests : phase[q] \notin {"new", "dropped", "done"} => held[q] \notin Idle
  <2> SUFFICES ASSUME NEW q \in Requests, phase[q] \notin {"new", "dropped", "done"}, held[q] \in Idle
               PROVE  FALSE
    OBVIOUS
  <2>1. q \in Users(held[q]) /\ Cardinality(Users(held[q])) = 0
    BY <1>1 DEF Users, Idle
  <2>2. Users(held[q]) = {}
    BY <2>1, FiniteUsers, FS_EmptySet
  <2> QED
    BY <2>1, <2>2
<1>3. ASSUME NEW q \in Requests, KeepsOrRejected(q), phase'[q] \notin {"new", "dropped", "done"}
      PROVE  held'[q] = held[q] /\ held[q] \in Registered /\ held[q] \notin Idle
             /\ phase[q] \notin {"new", "dropped", "done"}
  BY <1>1, <1>2, <1>3 DEF KeepsOrRejected, Keeps
<1>4. ASSUME NEW E, Leaving(E), NEW q \in Requests, phase'[q] \notin {"new", "dropped", "done"}
      PROVE  held'[q] \in Registered'
  <2>1. /\ held'[q] = held[q] /\ held[q] \in Registered /\ held[q] \notin Idle
        /\ phase[q] \notin {"new", "dropped", "done"}
    BY <1>3, <1>4 DEF Leaving
  <2>2. E \subseteq Idle /\ Registered' = Registered \ E
    BY <1>1, <1>4, <2>1, LeavingRegistered DEF Leaving
  <2> QED
    BY <2>1, <2>2
<1>5. ASSUME NEW r \in Requests, NEW m \in Models, NEW n \in {0, 1}, Loading(r, m, n),
             NEW q \in Requests, phase'[q] \notin {"new", "dropped", "done"}
      PROVE  held'[q] \in Registered'
  <2>1. Registered' = (Registered \ Victims(m)) \cup {EntryFor(m)} /\ Victims(m) \subseteq Idle
    BY <1>1, <1>5, LoadingRegistered DEF Loading
  <2>2. CASE q = r
    BY <1>5, <2>1, <2>2 DEF Loading
  <2>3. CASE q # r
    BY <1>3, <1>5, <2>1, <2>3 DEF Loading, KeepsOrRejected
  <2> QED
    BY <2>2, <2>3
<1>6. ASSUME NEW r \in Requests, Ending(r),
             NEW q \in Requests, phase'[q] \notin {"new", "dropped", "done"}
      PROVE  held'[q] \in Registered'
  <2>1. Registered' = Registered
    BY <1>6 DEF Ending, ReleaseEngine, registryVars, Registered
  <2>2. q # r
    BY <1>6 DEF Ending
  <2> QED
    BY <1>3, <1>6, <2>1, <2>2 DEF Ending, KeepsOrRejected
<1>7. ASSUME Moving, NEW q \in Requests, phase'[q] \notin {"new", "dropped", "done"}
      PROVE  held'[q] \in Registered'
  BY <1>3, <1>7 DEF Moving, registryVars, Registered
<1> QED
  BY <1>1, <1>4, <1>5, <1>6, <1>7, StepKinds

LEMMA KeepsExactReferences ==
    ASSUME ~CanUnload, InUseInv, ServerInv', [Next]_vars
    PROVE  \A e \in Registered' : ref'[e] = Cardinality(Users(e)')
<1>1. /\ ServerInv /\ TypeOK /\ HandlersHold /\ EntriesMade /\ CancelledLeft
      /\ \A q \in Requests : phase[q] \notin {"new", "dropped", "done"} => held[q] \in Registered
      /\ \A e \in Registered : ref[e] = Cardinality(Users(e))
      /\ Registered \subseteq EntryIds
  BY RegisteredEntries DEF InUseInv, ServerInv
<1>2. ASSUME \A q \in Requests : KeepsOrRejected(q), ref' = ref, Registered' \subseteq Registered,
             NEW e \in Registered'
      PROVE  ref'[e] = Cardinality(Users(e)')
  <2>1. Users(e)' = Users(e) /\ e \in Registered
    BY <1>1, <1>2, SameUsers
  <2> QED
    BY <1>1, <1>2, <2>1
<1>3. ASSUME NEW r \in Requests, NEW m \in Models, NEW n \in {0, 1}, Loading(r, m, n),
             NEW e \in Registered'
      PROVE  ref'[e] = Cardinality(Users(e)')
  <2>1. /\ Registered' = (Registered \ Victims(m)) \cup {EntryFor(m)}
        /\ EntryFor(m) \in EntryIds
        /\ loaded[m] = None => EntryFor(m) \notin 1..created
    BY <1>1, <1>3, LoadingRegistered DEF Loading, CanLoad
  <2>2. e \in EntryIds
    BY <1>1, <1>3, <2>1
  <2>3. /\ Cardinality(Users(e)') = Cardinality(Users(e)) + (IF e = EntryFor(m) THEN n ELSE 0)
        /\ ref'[e] = ref[e] + (IF e = EntryFor(m) THEN n ELSE 0)
    BY <1>1, <1>3, <2>2, OneUserMore
  <2>4. ref[e] = Cardinality(Users(e))
    <3>1. CASE e \in Registered
      BY <1>1, <3>1
    <3>2. CASE e \notin Registered
      <4>1. e = EntryFor(m) /\ loaded[m] = None /\ e \notin 1..created
        BY <1>3, <2>1, <3>2 DEF EntryFor, Registered
      <4>2. ref[e] = 0
        BY <1>1, <2>2, <4>1, ServerAssumption DEF EntriesMade, EntryIds, TypeOK
      <4>3. Users(e) = {}
        <5> SUFFICES ASSUME NEW q \in Users(e) PROVE FALSE
          OBVIOUS
        <5>1. q \in Requests /\ held[q] = e /\ e # None
          BY <2>2, ServerAssumption DEF Users, EntryIds
        <5> QED
          BY <1>1, <4>1, <5>1 DEF HandlersHold
      <4> QED
        BY <4>2, <4>3, FS_EmptySet
    <3> QED
      BY <3>1, <3>2
  <2> QED
    BY <2>3, <2>4
<1>4. ASSUME NEW r \in Requests, Ending(r), NEW e \in Registered'
      PROVE  ref'[e] = Cardinality(Users(e)')
  <2>1. Registered' = Registered /\ held[r] \in Registered
    BY <1>1, <1>4 DEF Ending, ReleaseEngine, registryVars, Registered
  <2>2. e \in Registered /\ e \in EntryIds
    BY <1>1, <1>4, <2>1
  <2>3. /\ e # held[r] => ref'[e] = ref[e]
        /\ e = held[r] => ref'[e] = IF ref[e] > 0 THEN ref[e] - 1 ELSE 0
    BY <1>1, <1>4, <2>1, <2>2, EndingReferences
  <2>4. /\ e = held[r] => /\ Cardinality(Users(e)) > 0
                          /\ Cardinality(Users(e)') = Cardinality(Users(e)) - 1
        /\ e # held[r] => Users(e)' = Users(e)
    BY <1>1, <1>4, <2>2, OneUserLess
  <2>5. ref[e] = Cardinality(Users(e)) /\ ref[e] \in Nat
    BY <1>1, <2>2 DEF TypeOK
  <2> QED
    BY <2>3, <2>4, <2>5
<1>5. ASSUME NEW E, Leaving(E) PROVE Registered' \subseteq Registered
  BY <1>1, <1>5, LeavingRegistered DEF Leaving
<1>6. Moving => Registered' = Registered /\ ref' = ref
  BY DEF Moving, registryVars, Registered
<1> QED
  BY <1>1, <1>2, <1>3, <1>4, <1>5, <1>6, StepKinds DEF Leaving, Moving

LEMMA InUseInvariant == ~CanUnload => (Spec => []InUseInv)
<1> SUFFICES ASSUME ~CanUnload PROVE Spec => []InUseInv
  OBVIOUS
<1>1. Init => InUseInv
  BY InitServerInv DEF Init, InUseInv, Registered
<1>2. InUseInv /\ [Next]_vars => InUseInv'
  <2> SUFFICES ASSUME InUseInv, [Next]_vars PROVE InUseInv'
    OBVIOUS
  <2>1. ServerInv'
    BY NextServerInv DEF InUseInv
  <2> QED
    BY <2>1, KeepsInUse, KeepsExactReferences DEF InUseInv
<1> QED
  BY <1>1, <1>2, PTL DEF Spec

\* As long as nothing is unloaded by force, neither an eviction nor the
\* collector exits an engine that a handler is using (the tests of ref_count
\* in load_engine and _gc_loop).
THEOREM UsedEnginesStayOpen == ~CanUnload => (Spec => []UsersKeepEngineOpen)
<1> SUFFICES ASSUME ~CanUnload PROVE Spec => []UsersKeepEngineOpen
  OBVIOUS
<1>1. InUseInv => UsersKeepEngineOpen
  <2> SUFFICES ASSUME InUseInv, NEW e \in EntryIds, NEW r \in Users(e), phase[r] # "dropped"
               PROVE  open[e]
    BY DEF UsersKeepEngineOpen
  <2>1. r \in Requests /\ held[r] = e /\ phase[r] # "done" /\ e # None
    BY ServerAssumption DEF Users, EntryIds
  <2>2. phase[r] # "new"
    BY <2>1 DEF InUseInv, ServerInv, HandlersHold
  <2>3. e \in Registered
    BY <2>1, <2>2 DEF InUseInv
  <2> QED
    BY <2>3 DEF InUseInv, ServerInv, OpenIffRegistered
<1> QED
  BY <1>1, InUseInvariant, PTL

\* As long as nothing is unloaded by force, an entry whose ref_count is 0 has
\* no user: what the collector and the eviction take for idle is idle.
THEOREM IdleEntriesUnused == ~CanUnload => (Spec => []IdleIsUnused)
<1> SUFFICES ASSUME ~CanUnload PROVE Spec => []IdleIsUnused
  OBVIOUS
<1>1. InUseInv => IdleIsUnused
  <2> SUFFICES ASSUME InUseInv, NEW e \in Idle PROVE Users(e) = {}
    BY DEF IdleIsUnused
  <2>1. Cardinality(Users(e)) = 0
    BY DEF InUseInv, Idle
  <2> QED
    BY <2>1, FiniteUsers, FS_EmptySet
<1> QED
  BY <1>1, InUseInvariant, PTL

-----------------------------------------------------------------------------
(* Each entry's queue, with the requests that hold the entry, implements   *)
(* InferenceQueue.                                                         *)

\* The deque of entry e holds futures of requests that were given e, and all
\* those that wait.
Known(e) ==
    /\ \A r \in InDeque(queue[e]) : r \in Chat \cup Generate /\ held[r] = e
    /\ \A r \in Requests : phase[r] = "waiting" /\ held[r] = e => r \in InDeque(queue[e])

\* Where a handler of each kind can be.
PhasesOfKind ==
    /\ \A r \in Embed : phase[r] \in {"new", "done"}
    /\ \A r \in Chat : phase[r] \notin {"ready", "dropped"}
    /\ \A r \in Generate : phase[r] \notin {"loaded", "erring"}

QueuesInv == ServerInv /\ PhasesOfKind /\ \A e \in EntryIds : Known(e)

\* The entries E leave, and that is all that happens to the queue of e and to
\* request q: it neither gets e nor gives it up.
Aside(q, e, E) ==
    \/ held'[q] = held[q] /\ (held[q] = e => phase'[q] = PhasesWithout(E)[q])
    \/ held[q] # e /\ (held'[q] # e \/ (phase'[q] = "loaded" /\ q \in Chat))

\* Request r is the only one that holds e and moves.
OnlyMover(r, e) ==
    \A q \in Requests \ {r} :
        held'[q] = held[q] /\ (held[q] = e => phase'[q] = phase[q])

LEMMA QueueFacts ==
    ASSUME TypeOK, NEW e \in EntryIds
    PROVE  /\ queue[e] \in QueueType(Requests) /\ queue[e].value \in Nat /\ queue[e].active \in Int
           /\ queue[e].waiters \in Seq(Requests)
           /\ queue[e] = [value |-> queue[e].value, active |-> queue[e].active,
                          waiters |-> queue[e].waiters]
           /\ MaxConcurrent \in Nat
<1>1. queue[e] \in QueueType(Requests)
  BY DEF TypeOK
<1> QED
  BY <1>1, QueueAssumption DEF QueueType

LEMMA QueueStutters ==
    ASSUME NEW e \in EntryIds, queue'[e] = queue[e],
           \A q \in Chat \cup Generate : PhaseAt(e)'[q] = PhaseAt(e)[q]
    PROVE  QueueStep(e)
<1>1. PhaseAt(e)' = PhaseAt(e)
  BY DEF PhaseAt
<1> QED
  BY <1>1 DEF QueueStep, QueueOf!vars

LEMMA QueueCancels ==
    ASSUME TypeOK, NEW e \in EntryIds,
           queue[e].waiters # <<>>, queue'[e] = CancelWaiting(queue[e]),
           \A q \in Chat \cup Generate :
              PhaseAt(e)'[q] = IF PhaseAt(e)[q] = "waiting" THEN "cancelled" ELSE PhaseAt(e)[q]
    PROVE  QueueStep(e)
<1>1. PhaseAt(e)' = [q \in Chat \cup Generate |->
                        IF PhaseAt(e)[q] = "waiting" THEN "cancelled" ELSE PhaseAt(e)[q]]
  BY DEF PhaseAt
<1>2. queue'[e].value = queue[e].value /\ queue'[e].active = queue[e].active
  BY QueueFacts DEF CancelWaiting
<1>3. QueueOf(e)!CancelAllWaiting
  BY <1>1, <1>2 DEF QueueOf!CancelAllWaiting, QueueOf!CancelWaiting, CancelWaiting, QueueOf!Requests
<1> QED
  BY <1>3 DEF QueueStep, QueueOf!Next

\* A step beside the queue of e: the entry is closed, or nothing happens to it.
LEMMA StepsAside ==
    ASSUME TypeOK, NEW e \in EntryIds, Known(e), NEW E, queue'[e] = QueuesWithout(E)[e],
           \A q \in Requests : Aside(q, e, E)
    PROVE  QueueStep(e) /\ Known(e)'
<1>1. queue'[e] = IF e \in E THEN CancelWaiting(queue[e]) ELSE queue[e]
  BY DEF QueuesWithout
<1>2. \A q \in Requests :
         PhasesWithout(E)[q] = IF phase[q] = "waiting" /\ held[q] \in E THEN "cancelled" ELSE phase[q]
  BY DEF PhasesWithout
<1>3. queue[e].waiters = <<>> =>
         /\ CancelWaiting(queue[e]) = queue[e]
         /\ \A q \in Requests : phase[q] = "waiting" => held[q] # e
  <2>1. queue[e].waiters = <<>> => InDeque(queue[e]) = {}
    BY DEF InDeque
  <2>2. queue[e].waiters = <<>> => CancelWaiting(queue[e]) = queue[e]
    BY QueueFacts DEF CancelWaiting
  <2> QED
    BY <2>1, <2>2 DEF Known
<1>4. ASSUME NEW q \in Chat \cup Generate
      PROVE  /\ e \in E => PhaseAt(e)'[q] =
                   IF PhaseAt(e)[q] = "waiting" THEN "cancelled" ELSE PhaseAt(e)[q]
             /\ e \notin E => PhaseAt(e)'[q] = PhaseAt(e)[q]
             /\ queue[e].waiters = <<>> => PhaseAt(e)'[q] = PhaseAt(e)[q]
  <2>1. q \in Requests
    BY DEF Requests
  <2>2. CASE held'[q] = held[q] /\ held[q] = e
    BY <1>2, <1>3, <2>1, <2>2 DEF Aside, PhaseAt
  <2>3. CASE held'[q] = held[q] /\ held[q] # e
    BY <2>3 DEF PhaseAt
  <2>4. CASE held'[q] # held[q]
    BY <2>1, <2>4 DEF Aside, PhaseAt
  <2> QED
    BY <2>2, <2>3, <2>4
<1>5. QueueStep(e)
  <2>1. CASE e \in E /\ queue[e].waiters # <<>>
    BY <1>1, <1>4, <2>1, QueueCancels
  <2>2. CASE e \notin E \/ queue[e].waiters = <<>>
    BY <1>1, <1>3, <1>4, <2>2, QueueStutters
  <2> QED
    BY <2>1, <2>2
<1>6. ASSUME NEW q \in InDeque(queue'[e]) PROVE q \in Chat \cup Generate /\ held'[q] = e
  <2>1. q \in InDeque(queue[e])
    BY <1>1, <1>6, QueueFacts, DequeEffects DEF CancelWaiting, InDeque
  <2>2. q \in Requests /\ held[q] = e /\ q \in Chat \cup Generate
    BY <2>1 DEF Known, Requests
  <2> QED
    BY <2>2 DEF Aside
<1>7. ASSUME NEW q \in Requests, phase'[q] = "waiting", held'[q] = e
      PROVE  q \in InDeque(queue'[e])
  <2>1. held[q] = e /\ phase[q] = "waiting" /\ e \notin E
    BY <1>2, <1>7 DEF Aside
  <2> QED
    BY <1>1, <2>1 DEF Known
<1> QED
  BY <1>5, <1>6, <1>7 DEF Known

\* Request r comes from outside or moves, and no other one of e does.
LEMMA OneMoves ==
    ASSUME NEW e \in EntryIds, NEW r \in Chat \cup Generate, OnlyMover(r, e), held'[r] = e
    PROVE  PhaseAt(e)' = [PhaseAt(e) EXCEPT ![r] = PhaseAt(e)'[r]]
<1>1. ASSUME NEW q \in Chat \cup Generate, q # r PROVE PhaseAt(e)'[q] = PhaseAt(e)[q]
  BY <1>1 DEF OnlyMover, PhaseAt, Requests
<1> QED
  BY <1>1 DEF PhaseAt

\* The request r calls acquire on the queue of e.
LEMMA StepAcquires ==
    ASSUME TypeOK, NEW e \in EntryIds, Known(e), NEW r \in Chat \cup Generate,
           OnlyMover(r, e), held'[r] = e, PhaseAt(e)[r] = "new", phase[r] # "waiting",
           \/ /\ ~Locked(queue[e]) /\ queue'[e] = Take(queue[e])
              /\ phase'[r] \in {"ready", "streaming"}
           \/ /\ Locked(queue[e]) /\ ~DequeFull(queue[e]) /\ queue'[e] = Enqueue(queue[e], r)
              /\ phase'[r] = "waiting"
           \/ /\ Locked(queue[e]) /\ DequeFull(queue[e]) /\ queue'[e] = queue[e]
              /\ phase'[r] = IF r \in Chat THEN "erring" ELSE "done"
    PROVE  QueueStep(e) /\ Known(e)'
<1> USE DEF Requests
<1>0. /\ queue[e].value \in Nat /\ queue[e].active \in Int /\ MaxConcurrent \in Nat
      /\ queue[e] = [value |-> queue[e].value, active |-> queue[e].active,
                     waiters |-> queue[e].waiters]
  BY QueueFacts
<1>1. PhaseAt(e)' = [PhaseAt(e) EXCEPT ![r] = PhaseAt(e)'[r]]
  BY OneMoves
<1>2. r \in Requests /\ queue[e] \in QueueType(Requests)
  BY QueueFacts
<1>3. CASE ~Locked(queue[e]) /\ queue'[e] = Take(queue[e]) /\ phase'[r] \in {"ready", "streaming"}
  <2>1. PhaseAt(e)'[r] = "holding"
    BY <1>3 DEF PhaseAt
  <2>2. queue'[e].value + queue'[e].active = queue[e].value + queue[e].active
    BY <1>0, <1>3 DEF Take
  <2>3. queue'[e].value \in Int /\ queue'[e].active \in Int
    BY <1>0, <1>3 DEF Take
  <2>4. queue'[e].value + queue'[e].active - MaxConcurrent
          = queue[e].value + queue[e].active - MaxConcurrent
    BY <1>0, <2>2, <2>3
  <2>5. QueueOf(e)!AcquireFree(r)
    <3> QED
      BY <1>1, <1>3, <2>1, <2>4 DEF QueueOf!AcquireFree, QueueOf!Locked, Locked, QueueOf!Take, Take
  <2>6. QueueStep(e)
    BY <2>5 DEF QueueStep, QueueOf!Next, QueueOf!Requests
  <2>7. InDeque(queue'[e]) = InDeque(queue[e])
    BY <1>2, <1>3, DequeEffects
  <2> QED
    BY <1>3, <2>6, <2>7 DEF Known, OnlyMover
<1>4. CASE /\ Locked(queue[e]) /\ ~DequeFull(queue[e]) /\ queue'[e] = Enqueue(queue[e], r)
           /\ phase'[r] = "waiting"
  <2>1. PhaseAt(e)'[r] = "waiting"
    BY <1>4 DEF PhaseAt
  <2>2. queue'[e].value = queue[e].value /\ queue'[e].active = queue[e].active
    BY <1>0, <1>4 DEF Enqueue
  <2>3. QueueOf(e)!AcquireWait(r)
    BY <1>1, <1>4, <2>1, <2>2 DEF QueueOf!AcquireWait, QueueOf!Locked, Locked, QueueOf!DequeFull,
       DequeFull, QueueOf!Enqueue, Enqueue
  <2>4. QueueStep(e)
    BY <2>3 DEF QueueStep, QueueOf!Next, QueueOf!Requests
  <2>5. InDeque(queue'[e]) = InDeque(queue[e]) \cup {r}
    BY <1>2, <1>4, DequeEffects
  <2> QED
    BY <1>4, <2>4, <2>5 DEF Known, OnlyMover
<1>5. CASE /\ Locked(queue[e]) /\ DequeFull(queue[e]) /\ queue'[e] = queue[e]
           /\ phase'[r] = IF r \in Chat THEN "erring" ELSE "done"
  <2>1. PhaseAt(e)'[r] = IF r \in Chat THEN "erring" ELSE "done"
    BY <1>5 DEF PhaseAt
  <2>2. QueueOf(e)!AcquireFull(r)
    BY <1>1, <1>5, <2>1 DEF QueueOf!AcquireFull, QueueOf!Locked, Locked, QueueOf!DequeFull, DequeFull
  <2>3. QueueStep(e)
    BY <2>2 DEF QueueStep, QueueOf!Next, QueueOf!Requests
  <2> QED
    BY <1>5, <2>3 DEF Known, OnlyMover
<1> QED
  BY <1>3, <1>4, <1>5

\* The request r releases a slot of e and ends: `after` are the phases before
\* the release wakes anybody.
LEMMA ReleaseAtEnd ==
    ASSUME TypeOK, NEW e \in EntryIds, Known(e), NEW r \in Chat \cup Generate,
           NEW after, after \in [Requests -> Phases], after[r] = "done",
           \A q \in Requests \ {r} : held'[q] = held[q] /\ (held[q] = e => after[q] = phase[q]),
           held'[r] = e, queue'[e] = Release(queue[e]), phase' = Wake(queue[e], after)
    PROVE  QueueOf(e)!ReleaseAndEnd(r) /\ Known(e)'
<1> USE DEF Requests
<1>0. /\ queue[e].value \in Nat /\ queue[e].active \in Int /\ MaxConcurrent \in Nat
      /\ queue[e] = [value |-> queue[e].value, active |-> queue[e].active,
                     waiters |-> queue[e].waiters]
  BY QueueFacts
<1> DEFINE w == queue[e].waiters
           ended == [PhaseAt(e) EXCEPT ![r] = "done"]
           wakes == w # <<>> /\ after[Head(w)] = "waiting"
<1>1. r \in Requests /\ queue[e] \in QueueType(Requests) /\ "woken" \in Phases
  BY QueueFacts DEF Phases
<1>2. w # <<>> =>
         /\ Head(w) \in Chat \cup Generate /\ held[Head(w)] = e
         /\ InDeque(queue[e]) = InDeque(queue'[e]) \cup {Head(w)}
  <2> SUFFICES ASSUME w # <<>>
               PROVE  /\ Head(w) \in Chat \cup Generate /\ held[Head(w)] = e
                      /\ InDeque(queue[e]) = InDeque(queue'[e]) \cup {Head(w)}
    OBVIOUS
  <2>1. InDeque(queue[e]) = InDeque(queue'[e]) \cup {Head(w)}
    BY <1>1, DequeEffects
  <2> QED
    BY <2>1 DEF Known
<1>3. w = <<>> => InDeque(queue[e]) = {} /\ InDeque(queue'[e]) = {}
  BY <1>1, DequeEffects
\* A request of e is waiting for the queue when it is for the server.
<1>4. ASSUME NEW q \in Chat \cup Generate, held[q] = e
      PROVE  after[q] = "waiting" <=> ended[q] = "waiting"
  BY <1>4 DEF PhaseAt
<1>5. phase' = IF wakes THEN [after EXCEPT ![Head(w)] = "woken"] ELSE after
  BY DEF Wake
<1>6. QueueOf(e)!Wake(queue[e], ended) = IF wakes THEN [ended EXCEPT ![Head(w)] = "woken"] ELSE ended
  BY <1>2, <1>4 DEF QueueOf!Wake
<1>7. PhaseAt(e)' = QueueOf(e)!Wake(queue[e], ended)
  <2>1. ASSUME NEW q \in Chat \cup Generate
        PROVE  PhaseAt(e)'[q] = (IF wakes THEN [ended EXCEPT ![Head(w)] = "woken"] ELSE ended)[q]
    <3>1. CASE q = r
      <4>1. ~(wakes /\ Head(w) = r)
        OBVIOUS
      <4>2. phase'[q] = "done" /\ held'[q] = e
        BY <1>1, <1>5, <3>1, <4>1
      <4>3. PhaseAt(e)'[q] = "done"
        BY <4>2 DEF PhaseAt
      <4> QED
        BY <3>1, <4>1, <4>3 DEF PhaseAt
    <3>2. CASE q # r /\ held[q] # e
      <4>1. ~(wakes /\ Head(w) = q)
        BY <1>2, <3>2
      <4>2. PhaseAt(e)'[q] = "new" /\ PhaseAt(e)[q] = "new"
        BY <3>2 DEF PhaseAt
      <4> QED
        BY <3>2, <4>1, <4>2 DEF PhaseAt
    <3>3. CASE q # r /\ held[q] = e /\ wakes /\ Head(w) = q
      <4>1. phase'[q] = "woken" /\ held'[q] = e
        BY <1>1, <1>5, <3>3
      <4>2. PhaseAt(e)'[q] = "woken"
        BY <4>1 DEF PhaseAt
      <4> QED
        BY <3>3, <4>2 DEF PhaseAt
    <3>4. CASE q # r /\ held[q] = e /\ ~(wakes /\ Head(w) = q)
      <4>1. phase'[q] = phase[q] /\ held'[q] = e
        BY <1>1, <1>5, <3>4
      <4>2. PhaseAt(e)'[q] = PhaseAt(e)[q]
        BY <3>4, <4>1 DEF PhaseAt
      <4> QED
        BY <3>4, <4>2 DEF PhaseAt
    <3> QED
      BY <3>1, <3>2, <3>3, <3>4
  <2> DEFINE f == IF wakes THEN [ended EXCEPT ![Head(w)] = "woken"] ELSE ended
  <2>2. f = [q \in Chat \cup Generate |-> f[q]] /\ PhaseAt(e)' = [q \in Chat \cup Generate |-> PhaseAt(e)'[q]]
    BY DEF PhaseAt
  <2> HIDE DEF f
  <2>3. PhaseAt(e)' = f
    BY <2>1, <2>2 DEF f
  <2> QED
    BY <1>6, <2>3 DEF f
<1>8. /\ queue'[e].value + queue'[e].active = queue[e].value + queue[e].active
      /\ queue'[e].value \in Int /\ queue'[e].active \in Int
  BY <1>0 DEF Release
<1>9. QueueOf(e)!ReleaseAndEnd(r)
  <2>1. queue'[e].value + queue'[e].active - MaxConcurrent
          = queue[e].value + queue[e].active - MaxConcurrent
    BY <1>0, <1>8
  <2> QED
    BY <1>7, <2>1 DEF QueueOf!ReleaseAndEnd, QueueOf!Release, Release
<1>10. ASSUME NEW q \in Requests, phase'[q] = "waiting", held'[q] = e
       PROVE  q \in InDeque(queue'[e])
  <2>1. q # r /\ held[q] = e /\ phase[q] = "waiting" /\ ~(wakes /\ Head(w) = q)
    BY <1>1, <1>5, <1>10
  <2>2. q \in InDeque(queue[e])
    BY <2>1 DEF Known
  <2>3. w # <<>> /\ q # Head(w)
    BY <1>3, <2>1, <2>2
  <2> QED
    BY <1>2, <2>2, <2>3
<1>11. ASSUME NEW q \in InDeque(queue'[e]) PROVE q \in Chat \cup Generate /\ held'[q] = e
  <2>1. q \in InDeque(queue[e])
    BY <1>2, <1>3, <1>11
  <2> QED
    BY <2>1 DEF Known
<1> QED
  BY <1>9, <1>10, <1>11 DEF Known

\* A handler of r that held e ends with a release (ReleaseBoth, for either kind).
LEMMA StepEnds ==
    ASSUME TypeOK, HandlersHold, NEW e \in EntryIds, \A f \in EntryIds : Known(f),
           NEW r \in Chat \cup Generate,
           \/ r \in Chat /\ phase[r] \in {"loaded", "cancelled", "erring", "streaming"}
           \/ r \in Generate /\ phase[r] = "streaming",
           ReleaseBoth(r)
    PROVE  QueueStep(e) /\ Known(e)'
<1> DEFINE ended == [phase EXCEPT ![r] = "done"]
<1>1. held[r] \in EntryIds /\ r \in Requests /\ queue[held[r]] \in QueueType(Requests)
  BY DEF TypeOK, HandlersHold, Requests
<1>2. /\ ended \in [Requests -> Phases] /\ ended[r] = "done"
      /\ \A q \in Requests \ {r} : ended[q] = phase[q]
  BY <1>1 DEF TypeOK, Phases
<1>3. held' = held /\ phase' = Wake(queue[held[r]], ended)
  BY DEF ReleaseBoth
<1> HIDE DEF ended
<1>4. CASE e = held[r]
  <2>1. queue'[e] = Release(queue[e])
    BY <1>1, <1>4 DEF ReleaseBoth, TypeOK
  <2>2. QueueOf(e)!ReleaseAndEnd(r) /\ Known(e)'
    BY <1>2, <1>3, <1>4, <2>1, ReleaseAtEnd
  <2>3. \/ PhaseAt(e)[r] = "new" /\ r \in Chat
        \/ PhaseAt(e)[r] = "cancelled" /\ r \in Chat
        \/ PhaseAt(e)[r] \in {"holding", "erring"}
    BY <1>4 DEF PhaseAt
  <2>4. QueueOf(e)!LeaveEarly(r) \/ QueueOf(e)!Unwind(r) \/ QueueOf(e)!Finish(r)
    BY <2>2, <2>3 DEF QueueOf!LeaveEarly, QueueOf!Unwind, QueueOf!Finish
  <2> QED
    BY <2>2, <2>4 DEF QueueStep, QueueOf!Next, QueueOf!Requests
<1>5. CASE e # held[r]
  <2>1. queue'[e] = queue[e]
    BY <1>1, <1>5 DEF ReleaseBoth, TypeOK
  <2>2. queue'[e] = QueuesWithout({})[e]
    BY <2>1 DEF QueuesWithout
  <2>3. \A q \in Requests : held[q] = e => phase'[q] = phase[q]
    <3> SUFFICES ASSUME NEW q \in Requests, held[q] = e, phase'[q] # phase[q] PROVE FALSE
      OBVIOUS
    <3>1. q # r /\ phase'[q] # ended[q]
      BY <1>2, <1>5
    <3>2. "woken" \in Phases
      BY DEF Phases
    <3>3. queue[held[r]].waiters # <<>> /\ q = Head(queue[held[r]].waiters)
      BY <1>1, <1>2, <1>3, <3>1, <3>2, WakeEffect
    <3>4. q \in InDeque(queue[held[r]])
      BY <1>1, <3>3, DequeEffects
    <3> QED
      BY <1>1, <1>5, <3>4 DEF Known
  <2>4. \A q \in Requests : Aside(q, e, {})
    BY <1>3, <2>3 DEF Aside, PhasesWithout
  <2> QED
    BY <2>2, <2>4, StepsAside
<1> QED
  BY <1>4, <1>5

\* A request that arrived without an entry is answered, or loads one: the
\* queues of other entries only see their engine evicted.
LEMMA StepArrives ==
    ASSUME TypeOK, HandlersHold, NEW e \in EntryIds, Known(e), NEW E, NEW r \in Requests,
           phase[r] = "new", \A q \in Requests \ {r} : held'[q] = held[q],
           held'[r] # e \/ (phase'[r] = "loaded" /\ r \in Chat),
           queue'[e] = QueuesWithout(E)[e],
           \A q \in Requests \ {r} : held[q] = e => phase'[q] = PhasesWithout(E)[q]
    PROVE  QueueStep(e) /\ Known(e)'
<1>1. held[r] # e
  BY ServerAssumption DEF HandlersHold, EntryIds
<1>2. \A q \in Requests : Aside(q, e, E)
  BY <1>1 DEF Aside
<1> QED
  BY <1>2, StepsAside

\* generate takes a slot of the entry it was given, waits for one or is refused;
\* a failing create_conversation releases one.
LEMMA StepGenerates ==
    ASSUME TypeOK, HandlersHold, EntriesMade, NEW e \in EntryIds, \A f \in EntryIds : Known(f),
           NEW r \in Requests, NEW m \in Models,
           GenerateStarts(r, m) \/ GenerateConversationFails(r, m)
    PROVE  QueueStep(e) /\ Known(e)'
<1> DEFINE d == EntryFor(m)
           ended == [PhasesWithout(Victims(m)) EXCEPT ![r] = "done"]
<1>1. /\ r \in Generate /\ r \notin Chat /\ phase[r] = "new" /\ CanLoad(m) /\ d \in EntryIds
      /\ held' = [held EXCEPT ![r] = d]
  BY ServerAssumption DEF GenerateStarts, GenerateConversationFails, CanLoad, Given
<1>2. d \notin Victims(m)
  <2>1. \E n \in Nat : LoadEngine(m, n)
    BY DEF GenerateStarts, GenerateConversationFails
  <2> QED
    BY <1>1, <2>1, LoadingRegistered
<1>3. /\ held[r] = None /\ held'[r] = d
      /\ \A q \in Requests \ {r} : held'[q] = held[q]
      /\ held[r] # e /\ held[r] # d
  BY <1>1, ServerAssumption DEF HandlersHold, TypeOK, EntryIds
<1>4. /\ ended \in [Requests -> Phases] /\ ended[r] = "done"
      /\ \A q \in Requests \ {r} : ended[q] = PhasesWithout(Victims(m))[q]
      /\ \A q \in Requests \ {r} : held[q] = d => ended[q] = phase[q]
  <2>1. "done" \in Phases
    BY DEF Phases
  <2> QED
    BY <1>2, <2>1, WithoutTypes DEF PhasesWithout
<1>5. /\ QueuesWithout(Victims(m))[d] = queue[d]
      /\ QueuesWithout(Victims(m)) = [f \in EntryIds |-> QueuesWithout(Victims(m))[f]]
  BY <1>1, <1>2 DEF QueuesWithout
<1> HIDE DEF d, ended
<1>6. CASE GenerateStarts(r, m)
  <2>1. PICK q2, p :
           /\ queue' = [QueuesWithout(Victims(m)) EXCEPT ![d] = q2]
           /\ phase' = [PhasesWithout(Victims(m)) EXCEPT ![r] = p]
           /\ \/ ~Locked(queue[d]) /\ q2 = Take(queue[d]) /\ p = "ready"
              \/ /\ Locked(queue[d]) /\ ~DequeFull(queue[d])
                 /\ q2 = Enqueue(queue[d], r) /\ p = "waiting"
              \/ Locked(queue[d]) /\ DequeFull(queue[d]) /\ q2 = queue[d] /\ p = "done"
    BY <1>6 DEF GenerateStarts, d
  <2>2. /\ queue'[d] = q2 /\ phase'[r] = p
        /\ \A q \in Requests \ {r} : phase'[q] = PhasesWithout(Victims(m))[q]
        /\ e # d => queue'[e] = QueuesWithout(Victims(m))[e]
    BY <1>1, <1>5, <2>1 DEF PhasesWithout
  <2>3. CASE e = d
    <3>1. OnlyMover(r, e) /\ PhaseAt(e)[r] = "new"
      BY <1>1, <1>2, <1>3, <2>2, <2>3 DEF OnlyMover, PhasesWithout, PhaseAt
    <3> QED
      BY <1>1, <1>3, <2>1, <2>2, <2>3, <3>1, StepAcquires
  <2>4. CASE e # d
    <3>1. \A q \in Requests : Aside(q, e, Victims(m))
      <4>1. Aside(r, e, Victims(m))
        BY <1>3, <2>4 DEF Aside
      <4>2. ASSUME NEW q \in Requests \ {r} PROVE Aside(q, e, Victims(m))
        BY <1>3, <2>2 DEF Aside
      <4> QED
        BY <4>1, <4>2
    <3> QED
      BY <2>2, <2>4, <3>1, StepsAside
  <2> QED
    BY <2>3, <2>4
<1>7. CASE GenerateConversationFails(r, m)
  <2>1. IF queue[d].active > 0
        THEN /\ queue' = [QueuesWithout(Victims(m)) EXCEPT ![d] = Release(@)]
             /\ phase' = Wake(queue[d], ended)
        ELSE queue' = QueuesWithout(Victims(m)) /\ phase' = ended
    BY <1>7 DEF GenerateConversationFails, d, ended
  <2>2. e # d => queue'[e] = QueuesWithout(Victims(m))[e]
    BY <1>5, <2>1
  <2>3. CASE e # d
    <3>1. \A q \in Requests \ {r} : held[q] = e => phase'[q] = ended[q]
      <4> SUFFICES ASSUME NEW q \in Requests \ {r}, held[q] = e, phase'[q] # ended[q]
                   PROVE  FALSE
        OBVIOUS
      <4>1. "woken" \in Phases /\ queue[d] \in QueueType(Requests)
        BY <1>1 DEF Phases, TypeOK
      <4>2. queue[d].waiters # <<>> /\ q = Head(queue[d].waiters)
        BY <1>4, <2>1, <4>1, WakeEffect
      <4>3. q \in InDeque(queue[d])
        BY <4>1, <4>2, DequeEffects
      <4> QED
        BY <1>1, <2>3, <4>3 DEF Known
    <3>2. \A q \in Requests : Aside(q, e, Victims(m))
      <4>1. Aside(r, e, Victims(m))
        BY <1>3, <2>3 DEF Aside
      <4>2. ASSUME NEW q \in Requests \ {r} PROVE Aside(q, e, Victims(m))
        BY <1>3, <1>4, <3>1 DEF Aside
      <4> QED
        BY <4>1, <4>2
    <3> QED
      BY <2>2, <2>3, <3>2, StepsAside
  <2>4. CASE e = d /\ queue[d].active > 0
    <3>1. queue'[e] = Release(queue[e]) /\ phase' = Wake(queue[e], ended)
      BY <1>1, <1>5, <2>1, <2>4
    <3>2. QueueOf(e)!ReleaseAndEnd(r) /\ Known(e)'
      BY <1>1, <1>3, <1>4, <2>4, <3>1, ReleaseAtEnd
    <3>3. PhaseAt(e)[r] = "new"
      BY <1>1, <1>3 DEF PhaseAt
    <3>4. QueueOf(e)!ConversationFails(r)
      BY <1>1, <2>4, <3>2, <3>3 DEF QueueOf!ConversationFails
    <3> QED
      BY <1>1, <3>2, <3>4 DEF QueueStep, QueueOf!Next, QueueOf!Requests
  <2>5. CASE e = d /\ ~(queue[d].active > 0)
    <3>1. queue'[e] = queue[e] /\ phase' = ended
      BY <1>5, <2>1, <2>5
    <3>2. OnlyMover(r, e) /\ PhaseAt(e)[r] = "new" /\ PhaseAt(e)'[r] = "done"
      BY <1>1, <1>3, <1>4, <2>5, <3>1 DEF OnlyMover, PhaseAt
    <3>3. PhaseAt(e)' = [PhaseAt(e) EXCEPT ![r] = "done"]
      BY <1>1, <1>3, <2>5, <3>2, OneMoves
    <3>4. QueueOf(e)!ConversationFails(r)
      BY <1>1, <2>5, <3>1, <3>2, <3>3 DEF QueueOf!ConversationFails
    <3>5. QueueStep(e)
      BY <1>1, <3>4 DEF QueueStep, QueueOf!Next, QueueOf!Requests
    <3>6. \A q \in InDeque(queue'[e]) : q \in Chat \cup Generate /\ held'[q] = e
      <4>1. \A q \in InDeque(queue[e]) : q \in Chat \cup Generate /\ held[q] = e /\ q # r
        BY <1>3 DEF Known
      <4> QED
        BY <1>3, <3>1, <4>1 DEF Requests
    <3>7. \A q \in Requests : phase'[q] = "waiting" /\ held'[q] = e => q \in InDeque(queue'[e])
      <4>1. \A q \in Requests : phase[q] = "waiting" /\ held[q] = e => q \in InDeque(queue[e])
        BY DEF Known
      <4> QED
        BY <1>3, <1>4, <2>5, <3>1, <4>1
    <3> QED
      BY <3>5, <3>6, <3>7 DEF Known
  <2> QED
    BY <2>3, <2>4, <2>5
<1> QED
  BY <1>6, <1>7

\* Request r moves, and the queue only if it is its own.
LEMMA StepMoves ==
    ASSUME TypeOK, NEW e \in EntryIds, Known(e), NEW r \in Chat \cup Generate, NEW p \in Phases,
           held' = held, phase' = [phase EXCEPT ![r] = p], p # "waiting",
           InDeque(queue'[e]) = InDeque(queue[e]), held[r] # e => queue'[e] = queue[e]
    PROVE  /\ Known(e)'
           /\ held[r] # e => QueueStep(e)
           /\ held[r] = e => PhaseAt(e)' = [PhaseAt(e) EXCEPT ![r] = PhaseAt(e)'[r]]
<1>1. r \in Requests /\ phase'[r] = p /\ \A q \in Requests \ {r} : phase'[q] = phase[q]
  BY DEF TypeOK, Requests
<1>2. Known(e)'
  <2>1. \A q \in InDeque(queue'[e]) : q \in Chat \cup Generate /\ held'[q] = e
    BY DEF Known
  <2>2. \A q \in Requests : phase'[q] = "waiting" /\ held'[q] = e => q \in InDeque(queue'[e])
    BY <1>1 DEF Known
  <2> QED
    BY <2>1, <2>2 DEF Known
<1>3. ASSUME held[r] # e PROVE QueueStep(e)
  <2>1. ASSUME NEW q \in Chat \cup Generate PROVE PhaseAt(e)'[q] = PhaseAt(e)[q]
    BY <1>1, <1>3 DEF PhaseAt, Requests
  <2> QED
    BY <1>3, <2>1, QueueStutters
<1>4. ASSUME held[r] = e PROVE PhaseAt(e)' = [PhaseAt(e) EXCEPT ![r] = PhaseAt(e)'[r]]
  <2>1. OnlyMover(r, e) /\ held'[r] = e
    BY <1>1, <1>4 DEF OnlyMover
  <2> QED
    BY <2>1, OneMoves
<1> QED
  BY <1>2, <1>3, <1>4

\* A step of a handler between its load and its end that leaves the queues alone.
LEMMA StepOfHandler ==
    ASSUME TypeOK, PhasesOfKind, NEW e \in EntryIds, Known(e), NEW r \in Requests,
           \/ ChatConversationFails(r) \/ ChatDisconnects(r) \/ GenerateCancelled(r)
           \/ GenerateStreams(r) \/ GenerateDropped(r)
    PROVE  QueueStep(e) /\ Known(e)'
<1>1. r \in Chat \cup Generate /\ held' = held /\ queue'[e] = queue[e]
  <2>1. phase[r] = "ready" => r \in Generate
    BY DEF PhasesOfKind, Requests
  <2> QED
    BY <2>1 DEF ChatConversationFails, ChatDisconnects, GenerateCancelled, GenerateStreams,
                GenerateDropped
<1>2. PICK p \in Phases :
         /\ phase' = [phase EXCEPT ![r] = p] /\ p # "waiting"
         /\ \/ r \in Chat /\ phase[r] = "loaded" /\ p = "erring"
            \/ r \in Chat /\ phase[r] \in {"waiting", "woken"} /\ p = "cancelled"
            \/ r \in Generate /\ phase[r] = "cancelled" /\ p = "done"
            \/ phase[r] = "ready" /\ p = "streaming"
            \/ r \in Generate /\ CanDrop /\ phase[r] = "ready" /\ p = "dropped"
  BY <1>1 DEF ChatConversationFails, ChatDisconnects, GenerateCancelled, GenerateStreams,
              GenerateDropped, Phases, PhasesOfKind
<1>3. /\ Known(e)'
      /\ held[r] # e => QueueStep(e)
      /\ held[r] = e => PhaseAt(e)' = [PhaseAt(e) EXCEPT ![r] = PhaseAt(e)'[r]]
  BY <1>1, <1>2, StepMoves
<1>4. ASSUME held[r] = e PROVE QueueStep(e)
  <2>1. phase'[r] = p
    BY <1>1, <1>2 DEF TypeOK, Requests
  <2>2. r \in Generate => r \notin Chat
    BY ServerAssumption
  <2>3. CASE phase[r] = "ready" /\ p = "streaming"
    <3>1. PhaseAt(e)'[r] = PhaseAt(e)[r]
      BY <1>1, <1>4, <2>1, <2>3 DEF PhaseAt
    <3>2. \A q \in Chat \cup Generate : PhaseAt(e)'[q] = PhaseAt(e)[q]
      BY <1>3, <1>4, <3>1 DEF PhaseAt
    <3> QED
      BY <1>1, <3>2, QueueStutters
  <2>4. CASE ~(phase[r] = "ready" /\ p = "streaming")
    <3>1. PhaseAt(e)'[r] = p
      BY <1>1, <1>2, <1>4, <2>1, <2>4 DEF PhaseAt
    <3>2. \/ r \in Chat /\ PhaseAt(e)[r] = "new" /\ p = "erring"
          \/ r \in Chat /\ PhaseAt(e)[r] \in {"waiting", "woken"} /\ p = "cancelled"
          \/ r \in Generate /\ PhaseAt(e)[r] = "cancelled" /\ p = "done"
          \/ r \in Generate /\ CanDrop /\ PhaseAt(e)[r] = "holding" /\ p = "dropped"
      BY <1>1, <1>2, <1>4, <2>4 DEF PhaseAt
    <3>3. \/ QueueOf(e)!ConversationFails(r) \/ QueueOf(e)!Disconnect(r)
          \/ QueueOf(e)!Unwind(r) \/ QueueOf(e)!Drop(r)
      BY <1>1, <1>3, <1>4, <2>2, <3>1, <3>2
         DEF QueueOf!ConversationFails, QueueOf!Disconnect, QueueOf!Unwind, QueueOf!Drop
    <3> QED
      BY <1>1, <3>3 DEF QueueStep, QueueOf!Next, QueueOf!Requests
  <2> QED
    BY <2>3, <2>4
<1> QED
  BY <1>3, <1>4

LEMMA StepResumes ==
    ASSUME TypeOK, HandlersHold, PhasesOfKind, NEW e \in EntryIds, Known(e), NEW r \in Requests,
           Resume(r)
    PROVE  QueueStep(e) /\ Known(e)'
<1>1. /\ r \in Chat \cup Generate /\ held' = held /\ phase[r] = "woken" /\ held[r] \in EntryIds
      /\ queue' = [queue EXCEPT ![held[r]] = Admit(@)]
  BY DEF Resume, PhasesOfKind, HandlersHold, TypeOK, Requests
<1>2. /\ held[r] = e => queue'[e] = Admit(queue[e])
      /\ held[r] # e => queue'[e] = queue[e]
  BY <1>1 DEF TypeOK
<1>3. InDeque(queue'[e]) = InDeque(queue[e])
  <2>1. InDeque(Admit(queue[e])) = InDeque(queue[e])
    BY QueueFacts, DequeEffects
  <2> QED
    BY <1>2, <2>1
<1>4. PICK p \in Phases : phase' = [phase EXCEPT ![r] = p] /\ p \in {"streaming", "ready"}
  BY DEF Resume, Phases
<1>5. /\ Known(e)'
      /\ held[r] # e => QueueStep(e)
      /\ held[r] = e => PhaseAt(e)' = [PhaseAt(e) EXCEPT ![r] = PhaseAt(e)'[r]]
  BY <1>1, <1>2, <1>3, <1>4, StepMoves
<1>6. ASSUME held[r] = e PROVE QueueStep(e)
  <2>1. PhaseAt(e)[r] = "woken" /\ PhaseAt(e)'[r] = "holding"
    <3>1. phase'[r] = p
      BY <1>4 DEF TypeOK
    <3> QED
      BY <1>1, <1>4, <1>6, <3>1 DEF PhaseAt
  <2>2. queue'[e].value + queue'[e].active - MaxConcurrent
          = (queue[e].value + queue[e].active - MaxConcurrent) + 1
    <3>1. queue'[e].value = queue[e].value /\ queue'[e].active = queue[e].active + 1
      BY <1>2, <1>6, QueueFacts DEF Admit
    <3>2. queue[e].value \in Nat /\ queue[e].active \in Int /\ MaxConcurrent \in Nat
      BY QueueFacts
    <3> QED
      BY <3>1, <3>2
  <2>3. QueueOf(e)!Resume(r)
    BY <1>2, <1>5, <1>6, <2>1, <2>2 DEF QueueOf!Resume, QueueOf!Admit, Admit
  <2> QED
    BY <1>1, <2>3 DEF QueueStep, QueueOf!Next, QueueOf!Requests
<1> QED
  BY <1>5, <1>6

LEMMA StepChatAcquires ==
    ASSUME TypeOK, HandlersHold, NEW e \in EntryIds, Known(e), NEW r \in Requests, ChatAcquires(r)
    PROVE  QueueStep(e) /\ Known(e)'
<1>1. /\ r \in Chat /\ held' = held /\ phase[r] = "loaded" /\ held[r] \in EntryIds
      /\ \A q \in Requests \ {r} : phase'[q] = phase[q]
  BY DEF ChatAcquires, HandlersHold, TypeOK
<1>2. CASE held[r] = e
  <2>1. OnlyMover(r, e) /\ held'[r] = e /\ PhaseAt(e)[r] = "new"
    BY <1>1, <1>2 DEF OnlyMover, PhaseAt
  <2>2. \/ /\ ~Locked(queue[e]) /\ queue'[e] = Take(queue[e])
           /\ phase'[r] \in {"ready", "streaming"}
        \/ /\ Locked(queue[e]) /\ ~DequeFull(queue[e]) /\ queue'[e] = Enqueue(queue[e], r)
           /\ phase'[r] = "waiting"
        \/ /\ Locked(queue[e]) /\ DequeFull(queue[e]) /\ queue'[e] = queue[e]
           /\ phase'[r] = IF r \in Chat THEN "erring" ELSE "done"
    BY <1>1, <1>2 DEF ChatAcquires, TypeOK
  <2> QED
    BY <1>1, <2>1, <2>2, StepAcquires
<1>3. CASE held[r] # e
  <2>1. queue'[e] = queue[e]
    BY <1>1, <1>3 DEF ChatAcquires, TypeOK
  <2>2. queue'[e] = QueuesWithout({})[e]
    BY <2>1 DEF QueuesWithout
  <2>3. \A q \in Requests : Aside(q, e, {})
    BY <1>1, <1>3 DEF Aside, PhasesWithout
  <2> QED
    BY <2>2, <2>3, StepsAside
<1> QED
  BY <1>2, <1>3

\* Requests arrive, and entries leave, beside every queue but that of the entry
\* a generate request gets.
LEMMA StepArrivesOrLeaves ==
    ASSUME TypeOK, HandlersHold, NEW e \in EntryIds, Known(e),
           \/ CollectIdle \/ Shutdown \/ \E m \in Models : Unload(m)
           \/ \E r \in Requests, m \in Models :
                 LoadRefused(r, m) \/ LoadFails(r, m) \/ ChatLoads(r, m) \/ EmbedRuns(r, m)
           \/ \E r \in Requests : ChatRejected(r) \/ ChatUnread(r) \/ GenerateRejected(r)
    PROVE  QueueStep(e) /\ Known(e)'
<1>1. ASSUME NEW E, Close(E) PROVE QueueStep(e) /\ Known(e)'
  <2>1. queue'[e] = QueuesWithout(E)[e] /\ \A q \in Requests : Aside(q, e, E)
    BY <1>1 DEF Close, Aside
  <2> QED
    BY <2>1, StepsAside
<1>2. CASE Shutdown
  <2>1. queue'[e] = QueuesWithout(Registered)[e] /\ held' = held /\ phase' = phase
    BY <1>2 DEF Shutdown
  <2>2. \A q \in Requests : PhasesWithout(Registered)[q] = phase[q]
    BY <1>2 DEF Shutdown, PhasesWithout
  <2>3. \A q \in Requests : Aside(q, e, Registered)
    BY <2>1, <2>2 DEF Aside
  <2> QED
    BY <2>1, <2>3, StepsAside
<1>3. ASSUME NEW r \in Requests, phase[r] = "new", phase' = [phase EXCEPT ![r] = "done"],
             queue' = queue, held' = held
      PROVE  QueueStep(e) /\ Known(e)'
  <2>1. queue'[e] = QueuesWithout({})[e]
    BY <1>3 DEF QueuesWithout
  <2>2. held[r] # e
    BY <1>3, ServerAssumption DEF HandlersHold, EntryIds
  <2>3. \A q \in Requests : Aside(q, e, {})
    BY <1>3, <2>2 DEF Aside, PhasesWithout, TypeOK
  <2> QED
    BY <2>1, <2>3, StepsAside
<1>4. ASSUME NEW r \in Requests, NEW E, NEW p, phase[r] = "new",
             phase' = [PhasesWithout(E) EXCEPT ![r] = p], queue' = QueuesWithout(E),
             \/ held' = held
             \/ \E d : held' = [held EXCEPT ![r] = d] /\ r \in Chat /\ p = "loaded"
      PROVE  QueueStep(e) /\ Known(e)'
  <2>1. queue'[e] = QueuesWithout(E)[e] /\ held[r] # e
    BY <1>4, ServerAssumption DEF HandlersHold, EntryIds
  <2>2. phase'[r] = p /\ \A q \in Requests \ {r} : phase'[q] = PhasesWithout(E)[q]
    BY <1>4 DEF PhasesWithout
  <2>3. \A q \in Requests \ {r} : held'[q] = held[q]
    BY <1>4 DEF TypeOK
  <2>4. \A q \in Requests \ {r} : Aside(q, e, E)
    BY <2>2, <2>3 DEF Aside
  <2>5. Aside(r, e, E)
    BY <1>4, <2>1, <2>2 DEF Aside
  <2>6. \A q \in Requests : Aside(q, e, E)
    BY <2>4, <2>5
  <2> QED
    BY <2>1, <2>6, StepsAside
<1>5. ASSUME NEW r \in Requests, NEW m \in Models,
             LoadFails(r, m) \/ ChatLoads(r, m) \/ EmbedRuns(r, m)
      PROVE  QueueStep(e) /\ Known(e)'
  <2>1. \E p : /\ phase[r] = "new" /\ phase' = [PhasesWithout(Victims(m)) EXCEPT ![r] = p]
               /\ queue' = QueuesWithout(Victims(m))
               /\ \/ held' = held
                  \/ \E d : held' = [held EXCEPT ![r] = d] /\ r \in Chat /\ p = "loaded"
    BY <1>5 DEF LoadFails, ChatLoads, EmbedRuns, Given
  <2> QED
    BY <1>4, <2>1
<1>6. ASSUME NEW r \in Requests, NEW m \in Models, LoadRefused(r, m)
      PROVE  QueueStep(e) /\ Known(e)'
  BY <1>3, <1>6 DEF LoadRefused
<1>7. ASSUME NEW r \in Requests, ChatRejected(r) \/ ChatUnread(r) \/ GenerateRejected(r)
      PROVE  QueueStep(e) /\ Known(e)'
  BY <1>3, <1>7 DEF ChatRejected, ChatUnread, GenerateRejected, AnsweredUnloaded
<1> QED
  BY <1>1, <1>2, <1>5, <1>6, <1>7 DEF CollectIdle, Unload

\* Every step of the server is a step or a stutter of each queue.
LEMMA EveryQueueSteps ==
    ASSUME QueuesInv, [Next]_vars, NEW e \in EntryIds
    PROVE  QueueStep(e) /\ Known(e)'
<1>1. /\ TypeOK /\ HandlersHold /\ EntriesMade /\ PhasesOfKind
      /\ Known(e) /\ \A f \in EntryIds : Known(f)
  BY DEF QueuesInv, ServerInv
<1>2. ASSUME NEW r \in Requests, ChatFinally(r) \/ GenerateFinally(r)
      PROVE  QueueStep(e) /\ Known(e)'
  <2>1. /\ r \in Chat \cup Generate /\ ReleaseBoth(r)
        /\ \/ r \in Chat /\ phase[r] \in {"loaded", "cancelled", "erring", "streaming"}
           \/ r \in Generate /\ phase[r] = "streaming"
    BY <1>2 DEF ChatFinally, GenerateFinally
  <2> QED
    BY <1>1, <2>1, StepEnds
<1>3. CASE UNCHANGED vars
  <2>1. queue' = queue /\ held' = held /\ phase' = phase
    BY <1>3 DEF vars
  <2>2. QueueStep(e)
    BY <2>1, QueueStutters DEF PhaseAt
  <2> QED
    BY <1>1, <2>1, <2>2 DEF Known
<1>4. ASSUME NEW r \in Requests, NEW m \in Models,
             GenerateStarts(r, m) \/ GenerateConversationFails(r, m)
      PROVE  QueueStep(e) /\ Known(e)'
  BY <1>1, <1>4, StepGenerates
<1>5. ASSUME NEW r \in Requests,
             \/ ChatConversationFails(r) \/ ChatDisconnects(r) \/ GenerateCancelled(r)
             \/ GenerateStreams(r) \/ GenerateDropped(r)
      PROVE  QueueStep(e) /\ Known(e)'
  BY <1>1, <1>5, StepOfHandler
<1>6. ASSUME NEW r \in Requests, Resume(r) PROVE QueueStep(e) /\ Known(e)'
  BY <1>1, <1>6, StepResumes
<1>7. ASSUME NEW r \in Requests, ChatAcquires(r) PROVE QueueStep(e) /\ Known(e)'
  BY <1>1, <1>7, StepChatAcquires
<1>8. CASE \/ CollectIdle \/ Shutdown \/ \E m \in Models : Unload(m)
           \/ \E r \in Requests, m \in Models :
                 LoadRefused(r, m) \/ LoadFails(r, m) \/ ChatLoads(r, m) \/ EmbedRuns(r, m)
           \/ \E r \in Requests : ChatRejected(r) \/ ChatUnread(r) \/ GenerateRejected(r)
  BY <1>1, <1>8, StepArrivesOrLeaves
<1> QED
  BY <1>2, <1>3, <1>4, <1>5, <1>6, <1>7, <1>8 DEF Next

LEMMA KeepsPhasesOfKind ==
    ASSUME QueuesInv, [Next]_vars
    PROVE  PhasesOfKind'
<1>1. TypeOK /\ HandlersHold /\ PhasesOfKind
  BY DEF QueuesInv, ServerInv
<1>2. \A q \in Requests : q \in Chat \/ q \in Generate \/ q \in Embed
  BY DEF Requests
\* A step moves one request where its kind can be, and wakes or cancels others
\* that wait.
<1>3. ASSUME NEW r \in Requests, NEW p,
             /\ r \in Embed => p \in {"new", "done"}
             /\ r \in Chat => p \notin {"ready", "dropped"}
             /\ r \in Generate => p \notin {"loaded", "erring"},
             phase'[r] = p,
             \A q \in Requests \ {r} :
                phase'[q] = phase[q] \/ (phase[q] = "waiting" /\ phase'[q] \in {"woken", "cancelled"})
      PROVE  PhasesOfKind'
  BY <1>1, <1>3 DEF PhasesOfKind, Requests
<1>4. ASSUME \A q \in Requests :
                phase'[q] = phase[q] \/ (phase[q] = "waiting" /\ phase'[q] \in {"woken", "cancelled"})
      PROVE  PhasesOfKind'
  BY <1>1, <1>4 DEF PhasesOfKind, Requests
<1>5. \A E : \A q \in Requests :
         PhasesWithout(E)[q] = phase[q] \/ (phase[q] = "waiting" /\ PhasesWithout(E)[q] = "cancelled")
  BY DEF PhasesWithout
<1>6. ASSUME NEW E, Close(E) PROVE PhasesOfKind'
  BY <1>4, <1>5, <1>6 DEF Close
<1>7. CASE Shutdown \/ UNCHANGED vars
  BY <1>4, <1>7 DEF Shutdown, vars
<1>8. ASSUME NEW r \in Requests,
             phase' = [phase EXCEPT ![r] = "done"] \/ \E E : phase' = [PhasesWithout(E) EXCEPT ![r] = "done"]
      PROVE  PhasesOfKind'
  <2>1. /\ phase'[r] = "done"
        /\ \A q \in Requests \ {r} :
              phase'[q] = phase[q] \/ (phase[q] = "waiting" /\ phase'[q] \in {"woken", "cancelled"})
    <3>1. CASE phase' = [phase EXCEPT ![r] = "done"]
      BY <1>1, <3>1 DEF TypeOK
    <3>2. ASSUME NEW E, phase' = [PhasesWithout(E) EXCEPT ![r] = "done"]
          PROVE  /\ phase'[r] = "done"
                 /\ \A q \in Requests \ {r} :
                       \/ phase'[q] = phase[q]
                       \/ phase[q] = "waiting" /\ phase'[q] \in {"woken", "cancelled"}
      BY <1>5, <3>2 DEF PhasesWithout
    <3> QED
      BY <1>8, <3>1, <3>2
  <2> QED
    BY <1>3, <2>1
<1>9. ASSUME NEW r \in Requests, NEW m \in Models, ChatLoads(r, m) PROVE PhasesOfKind'
  <2>1. /\ phase'[r] = "loaded" /\ r \in Chat /\ r \notin Generate /\ r \notin Embed
        /\ \A q \in Requests \ {r} :
              phase'[q] = phase[q] \/ (phase[q] = "waiting" /\ phase'[q] \in {"woken", "cancelled"})
    BY <1>5, <1>9, ServerAssumption DEF ChatLoads, PhasesWithout
  <2> QED
    BY <1>3, <2>1
<1>10. ASSUME NEW r \in Requests, NEW m \in Models, GenerateStarts(r, m) PROVE PhasesOfKind'
  <2>1. /\ phase'[r] \in {"ready", "waiting", "done"}
        /\ r \in Generate /\ r \notin Chat /\ r \notin Embed
        /\ \A q \in Requests \ {r} :
              phase'[q] = phase[q] \/ (phase[q] = "waiting" /\ phase'[q] \in {"woken", "cancelled"})
    <3>1. PICK p : /\ phase' = [PhasesWithout(Victims(m)) EXCEPT ![r] = p]
                   /\ p \in {"ready", "waiting", "done"}
      BY <1>10 DEF GenerateStarts
    <3>2. /\ phase'[r] = p
          /\ \A q \in Requests \ {r} : phase'[q] = PhasesWithout(Victims(m))[q]
      BY <3>1 DEF PhasesWithout
    <3>3. r \in Generate /\ r \notin Chat /\ r \notin Embed
      BY <1>10, ServerAssumption DEF GenerateStarts
    <3> QED
      BY <1>5, <3>1, <3>2, <3>3
  <2> QED
    BY <1>3, <2>1
<1>11. ASSUME NEW r \in Requests, NEW w \in QueueType(Requests), NEW after \in [Requests -> Phases],
              after[r] = "done", phase' = Wake(w, after),
              \A q \in Requests \ {r} :
                 after[q] = phase[q] \/ (phase[q] = "waiting" /\ after[q] = "cancelled")
       PROVE  PhasesOfKind'
  <2>1. \A q \in Requests :
           phase'[q] = after[q] \/ (after[q] = "waiting" /\ phase'[q] = "woken")
    BY <1>11, WokenKeep
  <2>2. /\ phase'[r] = "done"
        /\ \A q \in Requests \ {r} :
              phase'[q] = phase[q] \/ (phase[q] = "waiting" /\ phase'[q] \in {"woken", "cancelled"})
    BY <1>11, <2>1
  <2> QED
    BY <1>3, <2>2
<1>12. ASSUME NEW r \in Requests, NEW m \in Models, GenerateConversationFails(r, m)
       PROVE  PhasesOfKind'
  <2> DEFINE ended == [PhasesWithout(Victims(m)) EXCEPT ![r] = "done"]
  <2>1. /\ ended \in [Requests -> Phases] /\ ended[r] = "done"
        /\ \A q \in Requests \ {r} :
              ended[q] = phase[q] \/ (phase[q] = "waiting" /\ ended[q] = "cancelled")
    BY <1>1, <1>5, WithoutTypes DEF PhasesWithout, Phases
  <2>2. queue[EntryFor(m)] \in QueueType(Requests)
    BY <1>1, <1>12 DEF GenerateConversationFails, CanLoad, TypeOK
  <2>3. phase' = ended \/ phase' = Wake(queue[EntryFor(m)], ended)
    BY <1>12 DEF GenerateConversationFails
  <2>4. CASE phase' = ended
    BY <1>8, <2>4
  <2>5. CASE phase' = Wake(queue[EntryFor(m)], ended)
    <3> HIDE DEF ended
    <3> QED
      BY <1>11, <2>1, <2>2, <2>5
  <2> QED
    BY <2>3, <2>4, <2>5
<1>13. ASSUME NEW r \in Requests, ChatFinally(r) \/ GenerateFinally(r) PROVE PhasesOfKind'
  <2> DEFINE ended == [phase EXCEPT ![r] = "done"]
  <2>1. /\ ended \in [Requests -> Phases] /\ ended[r] = "done"
        /\ \A q \in Requests \ {r} : ended[q] = phase[q]
    BY <1>1 DEF TypeOK, Phases
  <2>2. queue[held[r]] \in QueueType(Requests) /\ phase' = Wake(queue[held[r]], ended)
    BY <1>1, <1>13 DEF ChatFinally, GenerateFinally, ReleaseBoth, HandlersHold, TypeOK
  <2> HIDE DEF ended
  <2> QED
    BY <1>11, <2>1, <2>2
<1>14. ASSUME NEW r \in Requests,
              \/ ChatAcquires(r) \/ ChatConversationFails(r) \/ ChatDisconnects(r)
              \/ GenerateCancelled(r) \/ GenerateStreams(r) \/ GenerateDropped(r) \/ Resume(r)
       PROVE  PhasesOfKind'
  <2>1. /\ r \in Chat => r \notin Generate
        /\ r \notin Embed /\ (phase[r] = "ready" => r \in Generate)
    BY <1>1, <1>2, <1>14, ServerAssumption
       DEF PhasesOfKind, ChatAcquires, ChatConversationFails, ChatDisconnects, GenerateCancelled,
           GenerateStreams, GenerateDropped, Resume
  <2>2. \E p : /\ phase' = [phase EXCEPT ![r] = p]
               /\ \/ r \in Chat /\ p \in {"streaming", "waiting", "erring", "cancelled"}
                  \/ r \in Generate /\ p \in {"done", "streaming", "dropped", "ready"}
    BY <1>2, <1>14, <2>1
       DEF ChatAcquires, ChatConversationFails, ChatDisconnects, GenerateCancelled,
           GenerateStreams, GenerateDropped, Resume
  <2>3. PICK p : /\ phase'[r] = p /\ \A q \in Requests \ {r} : phase'[q] = phase[q]
                 /\ \/ r \in Chat /\ p \in {"streaming", "waiting", "erring", "cancelled"}
                    \/ r \in Generate /\ p \in {"done", "streaming", "dropped", "ready"}
    BY <1>1, <2>2 DEF TypeOK
  <2> QED
    BY <1>3, <2>1, <2>3
<1>15. ASSUME NEW r \in Requests, NEW m \in Models,
              LoadRefused(r, m) \/ LoadFails(r, m) \/ EmbedRuns(r, m)
       PROVE  PhasesOfKind'
  BY <1>8, <1>15 DEF LoadRefused, LoadFails, EmbedRuns
<1>16. ASSUME NEW r \in Requests, ChatRejected(r) \/ ChatUnread(r) \/ GenerateRejected(r)
       PROVE  PhasesOfKind'
  BY <1>8, <1>16 DEF ChatRejected, ChatUnread, GenerateRejected, AnsweredUnloaded
<1> QED
  BY <1>6, <1>7, <1>9, <1>10, <1>12, <1>13, <1>14, <1>15, <1>16 DEF Next, CollectIdle, Unload

LEMMA InitQueues == Init => QueuesInv /\ \A e \in EntryIds : QueueOf(e)!Init
<1> SUFFICES ASSUME Init PROVE QueuesInv /\ \A e \in EntryIds : QueueOf(e)!Init
  OBVIOUS
<1>1. PhasesOfKind
  BY DEF Init, PhasesOfKind, Requests
<1>2. ASSUME NEW e \in EntryIds PROVE Known(e) /\ QueueOf(e)!Init
  <2>1. queue[e] = FreshQueue /\ InDeque(FreshQueue) = {}
    BY DEF Init, FreshQueue, InDeque
  <2>2. Known(e)
    BY <2>1 DEF Init, Known
  <2>3. PhaseAt(e) = [r \in Chat \cup Generate |-> "new"]
    BY DEF Init, PhaseAt, Requests
  <2>4. queue[e].value + queue[e].active - MaxConcurrent = 0
    <3>1. queue[e].value = MaxConcurrent /\ queue[e].active = 0 /\ MaxConcurrent \in Nat
      BY <2>1, QueueAssumption DEF FreshQueue
    <3> QED
      BY <3>1
  <2>5. QueueOf(e)!Init
    BY <2>1, <2>3, <2>4 DEF QueueOf!Init, QueueOf!FreshQueue, FreshQueue, QueueOf!Requests
  <2> QED
    BY <2>2, <2>5
<1> QED
  BY <1>1, <1>2, InitServerInv DEF QueuesInv

\* Whatever the handlers of the three endpoints, forced unloads and the
\* collector do, the queue of every entry goes through steps that
\* InferenceQueue allows, so that what is proved of InferenceQueue alone
\* (no slot lost, no wake-up lost) is true inside the server.
THEOREM QueuesImplement == Spec => QueuesImplementInferenceQueue
<1>1. Init => QueuesInv /\ \A e \in EntryIds : QueueOf(e)!Init
  BY InitQueues
<1>2. QueuesInv /\ [Next]_vars => QueuesInv'
  BY NextServerInv, KeepsPhasesOfKind, EveryQueueSteps DEF QueuesInv, EntryIds
<1>3. QueuesInv /\ [Next]_vars => [\A e \in EntryIds : QueueStep(e)]_vars
  BY EveryQueueSteps
<1> QED
  BY <1>1, <1>2, <1>3, PTL DEF Spec, QueuesImplementInferenceQueue
=============================================================================
