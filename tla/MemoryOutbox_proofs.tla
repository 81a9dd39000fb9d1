------------------------- MODULE MemoryOutbox_proofs -------------------------
(***************************************************************************)
(* Memory writes lose no update, answer only what is announced, and the    *)
(* outbox acknowledges only what has its job, or needs none, and refuses a *)
(* message a bounded number of times, for any number of clients, keys and  *)
(* drains.                                                                 *)
(*                                                                         *)
(* The argument for the refusals: a drain that claimed a message early     *)
(* enough not to be the last to refuse it is stale once the others have    *)
(* brought the count to the limit, and no drain becomes stale from then    *)
(* on; so what the stale ones may add is bounded by their number.  Once    *)
(* the message is dead nobody claims it, and each drain that still holds   *)
(* it refuses it once.                                                     *)
(***************************************************************************)
EXTENDS MemoryOutbox, TLAPS, FiniteSetTheorems

\* The drains that hold a message, and those whose refusal would not be the last.
Held(i) == {d \in Drains : \E r \in drain[d].batch : r.row = i}

Stale(i) ==
    {d \in Drains : \E r \in drain[d].batch : r.row = i /\ r.attempts <= MaxAttempts - 2}

\* a message that announces a revision
Announced(m, n) ==
    \E i \in DOMAIN outbox :
        outbox[i].topic = "memory" /\ outbox[i].memory = m /\ outbox[i].revision = n

\* What a client knows by the point it has come to.
ClientKnows(c) ==
    /\ client[c].at # "idle" => client[c].key \in Keys
    /\ client[c].at \in {"announce", "record"} =>
           /\ IsRevision(client[c].memory, client[c].revision)
           /\ memories[client[c].memory][client[c].revision] = client[c].key
    /\ client[c].at = "record" => Announced(client[c].memory, client[c].revision)

\* A drain holds messages with a handler, each once, as they were or less often tried.
Holds(d) ==
    /\ drain[d].at # "idle" => drain[d].batch # {}
    /\ \A r \in drain[d].batch :
           /\ outbox[r.row].topic = "memory" /\ r.attempts <= outbox[r.row].attempts
           /\ \A q \in drain[d].batch : q.row = r.row => q = r

\* What a drain knows of the message it is handling.
Handles(d) ==
    /\ drain[d].at \in {"materialize", "accept"} =>
           /\ outbox[Current(d).row].revision <= drain[d].revision
           /\ IsRevision(outbox[Current(d).row].memory, drain[d].revision)
    /\ drain[d].at = "mark" =>
           Embedded(outbox[Current(d).row].memory, outbox[Current(d).row].revision)

\* How often a message may have been refused.
Tried(i) ==
    /\ outbox[i].topic = "other" => outbox[i].attempts = 0
    /\ ~outbox[i].dead =>
           \/ outbox[i].attempts <= MaxAttempts - 2
           \/ outbox[i].attempts + Cardinality(Stale(i)) <= MaxAttempts + Cardinality(Drains) - 2
    /\ outbox[i].dead =>
           outbox[i].attempts + Cardinality(Held(i)) <= MaxAttempts - 2 + 2 * Cardinality(Drains)

OutboxInv ==
    /\ TypeOK
    /\ NoLostUpdate
    /\ AnsweredMeansAnnounced
    /\ ProcessedMeansEmbedded
    /\ \A c \in Clients : ClientKnows(c)
    /\ \A d \in Drains : Holds(d) /\ Handles(d)
    /\ \A i \in DOMAIN outbox : Tried(i)

-----------------------------------------------------------------------------
(* Sequences, and the oldest message of a batch                            *)

\* Replacing an element of a sequence.
LEMMA SeqExcept ==
  ASSUME NEW S, NEW s \in Seq(S), NEW i \in DOMAIN s, NEW x \in S, NEW t, t = [s EXCEPT ![i] = x]
  PROVE  /\ t \in Seq(S) /\ DOMAIN t = DOMAIN s /\ Len(t) = Len(s) /\ t[i] = x
         /\ \A k \in DOMAIN s : k # i => t[k] = s[k]
OBVIOUS

\* Adding an element to a sequence.
LEMMA SeqAppend ==
  ASSUME NEW S, NEW s \in Seq(S), NEW x \in S, NEW t, t = Append(s, x)
  PROVE  /\ t \in Seq(S) /\ Len(t) = Len(s) + 1 /\ DOMAIN t = DOMAIN s \cup {Len(s) + 1}
         /\ Len(s) + 1 \notin DOMAIN s /\ Len(s) \in Nat
         /\ t[Len(s) + 1] = x /\ \A k \in DOMAIN s : t[k] = s[k]
OBVIOUS

\* A batch that is not empty has an oldest message, which the drain handles.
LEMMA CurrentIn ==
  ASSUME TypeOK, NEW d \in Drains, drain[d].batch # {}
  PROVE  Current(d) \in drain[d].batch
<1> DEFINE S == {r.row : r \in drain[d].batch}
<1>1. drain[d].batch \subseteq [row : Nat, attempts : Nat]
  BY DEF TypeOK, Passes
<1>2. S \subseteq Nat /\ S # {}
  BY <1>1
<1>3. PICK x \in S : \A y \in S : ~ (<<y, x>> \in OpToRel(<, Nat))
  <2> HIDE DEF S
  <2> QED BY <1>2, NatLessThanWellFounded, WFMin, Zenon
<1>4. ASSUME NEW y \in S PROVE x <= y
  <2>1. x \in Nat /\ y \in Nat
    BY <1>2
  <2>2. ~ (y < x)
    BY <1>3, <2>1, Zenon DEF OpToRel
  <2> QED BY <2>1, <2>2
<1>5. \E r \in drain[d].batch : \A q \in drain[d].batch : r.row <= q.row
  <2>1. PICK r \in drain[d].batch : r.row = x
    OBVIOUS
  <2>2. ASSUME NEW q \in drain[d].batch PROVE r.row <= q.row
    BY <2>1, <1>4
  <2> QED BY <2>2
<1> QED BY <1>5, Zenon DEF Current

\* The fields of a message, and of one that a drain holds.
LEMMA RowTyped ==
  ASSUME TypeOK, NEW i \in DOMAIN outbox
  PROVE  /\ outbox[i] \in Messages /\ outbox[i].attempts \in Nat /\ i \in Nat
         /\ outbox[i].memory \in Nat /\ outbox[i].revision \in Nat
         /\ outbox[i].topic \in {"memory", "other"}
<1>1. outbox \in Seq(Messages)
  BY DEF TypeOK
<1>2. outbox[i] \in Messages /\ i \in Nat
  BY <1>1
<1> QED BY <1>2 DEF Messages

\* What is held is a message there is.
LEMMA BatchTyped ==
  ASSUME TypeOK, NEW d \in Drains, NEW r \in drain[d].batch
  PROVE  r.row \in DOMAIN outbox /\ r \in [row : Nat, attempts : Nat] /\ r.attempts \in Nat
BY DEF TypeOK, Passes

-----------------------------------------------------------------------------
(* What the steps of others leave true                                     *)

\* Revisions, jobs and purges are only added to, and messages only change their state.
Grows ==
    /\ \A m, n : IsRevision(m, n) => IsRevision(m, n)' /\ memories'[m][n] = memories[m][n]
    /\ \A i \in DOMAIN outbox :
           /\ i \in DOMAIN outbox'
           /\ outbox'[i].topic = outbox[i].topic /\ outbox'[i].memory = outbox[i].memory
           /\ outbox'[i].revision = outbox[i].revision
           /\ outbox[i].attempts <= outbox'[i].attempts
    /\ jobs \subseteq jobs'
    /\ purged \subseteq purged'

\* An announced revision stays announced, and an embedded one embedded.
LEMMA Stays ==
  ASSUME Grows
  PROVE  /\ \A m, n : Announced(m, n) => Announced(m, n)'
         /\ \A m, n : Embedded(m, n) => Embedded(m, n)'
<1>1. \A m, n : Announced(m, n) => Announced(m, n)'
  BY DEF Grows, Announced
<1>2. ASSUME NEW m, NEW n, Embedded(m, n) PROVE Embedded(m, n)'
  <2>1. CASE \E job \in jobs : job[1] = m /\ job[2] >= n
    BY <2>1 DEF Grows, Embedded
  <2>2. CASE m \in DOMAIN memories
             /\ \E l \in DOMAIN memories[m] : l >= n /\ memories[m][l] \in Blank
    <3>1. PICK l \in DOMAIN memories[m] : l >= n /\ memories[m][l] \in Blank
      BY <2>2
    <3>2. IsRevision(m, l)
      BY <2>2, <3>1 DEF IsRevision
    <3>3. IsRevision(m, l)' /\ memories'[m][l] = memories[m][l]
      BY <3>2 DEF Grows
    <3> QED BY <3>1, <3>3 DEF Embedded, IsRevision
  <2>3. CASE m \in purged
    BY <2>3 DEF Grows, Embedded
  <2> QED BY <1>2, <2>1, <2>2, <2>3 DEF Embedded
<1> QED BY <1>1, <1>2

\* What a client knows outlives the steps of others.
LEMMA ClientStays ==
  ASSUME Grows, NEW c \in Clients, ClientKnows(c), client'[c] = client[c]
  PROVE  ClientKnows(c)'
BY Stays DEF Grows, ClientKnows

\* So does what a drain knows.
LEMMA DrainStays ==
  ASSUME TypeOK, TypeOK', Grows, NEW d \in Drains, Holds(d), Handles(d), drain'[d] = drain[d]
  PROVE  Holds(d)' /\ Handles(d)'
<1>0. \A r \in drain[d].batch :
         r.row \in DOMAIN outbox /\ r.attempts \in Nat /\ outbox[r.row].attempts \in Nat
         /\ outbox'[r.row].attempts \in Nat
  <2> TAKE r \in drain[d].batch
  <2>1. r.row \in DOMAIN outbox /\ r.attempts \in Nat
    BY BatchTyped
  <2>2. r.row \in DOMAIN outbox'
    BY <2>1 DEF Grows
  <2>3. outbox[r.row].attempts \in Nat
    BY <2>1, RowTyped
  <2>4. outbox'[r.row].attempts \in Nat
    <3>1. outbox' \in Seq(Messages)
      BY DEF TypeOK
    <3>2. outbox'[r.row] \in Messages
      BY <2>2, <3>1
    <3> QED BY <3>2 DEF Messages
  <2> QED BY <2>1, <2>3, <2>4
<1>1. Holds(d)'
  BY <1>0 DEF Holds, Grows
<1>2. Current(d)' = Current(d)
  BY DEF Current
<1>3. drain[d].at # "idle" => Current(d).row \in DOMAIN outbox
  BY <1>0, CurrentIn DEF Holds
<1>4. PICK i : i = Current(d).row
  OBVIOUS
<1>5. drain[d].at # "idle" => outbox'[i].memory = outbox[i].memory
                              /\ outbox'[i].revision = outbox[i].revision
  BY <1>3, <1>4 DEF Grows
<1>6. drain[d].at \in {"materialize", "accept"} =>
           /\ outbox'[i].revision <= drain[d].revision
           /\ IsRevision(outbox[i].memory, drain[d].revision)'
  BY <1>4, <1>5 DEF Handles, Grows
<1>7. drain[d].at = "mark" => Embedded(outbox[i].memory, outbox[i].revision)'
  <2> SUFFICES ASSUME drain[d].at = "mark"
               PROVE  Embedded(outbox[i].memory, outbox[i].revision)'
    OBVIOUS
  <2>1. PICK m, n : m = outbox[i].memory /\ n = outbox[i].revision
    OBVIOUS
  <2>2. Embedded(m, n)
    BY <1>4, <2>1 DEF Handles
  <2>3. Embedded(m, n)'
    BY <2>2, Stays
  <2>4. outbox'[i].memory = m /\ outbox'[i].revision = n
    BY <1>5, <2>1
  <2> QED BY <2>3, <2>4 DEF Embedded
<1> QED BY <1>1, <1>2, <1>4, <1>5, <1>6, <1>7 DEF Handles

\* Answers stay announced.
LEMMA AnswersStay ==
  ASSUME TypeOK, Grows, AnsweredMeansAnnounced, answered' = answered
  PROVE  AnsweredMeansAnnounced'
<1> SUFFICES ASSUME NEW k \in Keys, answered[k] # NoAnswer
             PROVE  /\ memories'[answered[k][1]][answered[k][2]] = k
                    /\ \E i \in DOMAIN outbox' :
                           /\ outbox'[i].topic = "memory"
                           /\ <<outbox'[i].memory, outbox'[i].revision>> = answered[k]
  BY DEF AnsweredMeansAnnounced
<1>1. IsRevision(answered[k][1], answered[k][2])
  BY DEF TypeOK
<1> QED BY <1>1 DEF AnsweredMeansAnnounced, Grows

\* A message that was acknowledged stays embedded.
LEMMA ProcessedStays ==
  ASSUME ProcessedMeansEmbedded, Grows, NEW i \in DOMAIN outbox, outbox[i].processed
  PROVE  Embedded(outbox[i].memory, outbox[i].revision)'
<1>1. PICK m, n : m = outbox[i].memory /\ n = outbox[i].revision
  OBVIOUS
<1>2. Embedded(m, n)
  BY <1>1 DEF ProcessedMeansEmbedded
<1>3. Embedded(m, n)'
  BY <1>2, Stays
<1>4. outbox'[i].memory = m /\ outbox'[i].revision = n
  BY <1>1 DEF Grows
<1> QED BY <1>3, <1>4 DEF Embedded

\* Acknowledged messages stay embedded, when no other becomes acknowledged.
LEMMA AcknowledgedStay ==
  ASSUME ProcessedMeansEmbedded, Grows,
         \A i \in DOMAIN outbox' : outbox'[i].processed => i \in DOMAIN outbox /\ outbox[i].processed
  PROVE  ProcessedMeansEmbedded'
<1> SUFFICES ASSUME NEW i \in DOMAIN outbox', outbox'[i].processed
             PROVE  Embedded(outbox[i].memory, outbox[i].revision)'
  BY DEF ProcessedMeansEmbedded
<1>1. i \in DOMAIN outbox /\ outbox[i].processed
  OBVIOUS
<1> QED BY <1>1, ProcessedStays

\* The sets of drains are finite.
LEMMA DrainsFinite ==
  ASSUME NEW i
  PROVE  /\ IsFiniteSet(Drains) /\ Cardinality(Drains) \in Nat
         /\ IsFiniteSet(Held(i)) /\ Cardinality(Held(i)) \in Nat
         /\ IsFiniteSet(Stale(i)) /\ Cardinality(Stale(i)) \in Nat
         /\ Cardinality(Held(i)) <= Cardinality(Drains)
         /\ Cardinality(Stale(i)) <= Cardinality(Drains)
<1>1. Held(i) \subseteq Drains /\ Stale(i) \subseteq Drains
  BY DEF Held, Stale
<1> QED BY <1>1, OutboxAssumption, FS_Subset, FS_CardinalityType

\* A message keeps to its bound when fewer drains hold it, or fewer of the stale ones.
LEMMA TriedStays ==
  ASSUME TypeOK, NEW i \in DOMAIN outbox, Tried(i),
         outbox'[i].attempts = outbox[i].attempts, outbox'[i].dead = outbox[i].dead,
         outbox'[i].topic = outbox[i].topic,
         outbox[i].dead => Held(i)' \subseteq Held(i),
         outbox[i].attempts <= MaxAttempts - 2 \/ Stale(i)' \subseteq Stale(i)
  PROVE  Tried(i)'
<1>1. outbox[i].attempts \in Nat /\ MaxAttempts \in Nat
  BY OutboxAssumption, RowTyped
<1>2. /\ Cardinality(Held(i)) \in Nat /\ Cardinality(Stale(i)) \in Nat
      /\ Cardinality(Drains) \in Nat
  BY DrainsFinite
<1>3. outbox[i].dead =>
         Cardinality(Held(i)') \in Nat /\ Cardinality(Held(i)') <= Cardinality(Held(i))
  BY DrainsFinite, FS_Subset, FS_CardinalityType
<1>4. outbox[i].attempts <= MaxAttempts - 2
      \/ (Cardinality(Stale(i)') \in Nat /\ Cardinality(Stale(i)') <= Cardinality(Stale(i)))
  BY DrainsFinite, FS_Subset, FS_CardinalityType
<1> QED BY <1>1, <1>2, <1>3, <1>4 DEF Tried

-----------------------------------------------------------------------------
(* How a step moves the process that takes it                              *)

MovesClient(c, x) ==
    /\ client' \in [Clients -> Calls] /\ client'[c] = x
    /\ \A b \in Clients : b # c => client'[b] = client[b]

MovesDrain(d, x) ==
    /\ drain' \in [Drains -> Passes] /\ drain'[d] = x
    /\ \A b \in Drains : b # d => drain'[b] = drain[b]

SpentType ==
    [calls : 0 .. MaxCalls, others : 0 .. MaxOthers, purges : 0 .. MaxPurges, faults : 0 .. MaxFaults]

\* Setting one client moves it there.
LEMMA SetMovesClient ==
  ASSUME TypeOK, NEW c \in Clients, NEW x \in Calls, client' = [client EXCEPT ![c] = x]
  PROVE  MovesClient(c, x)
BY DEF MovesClient, TypeOK

\* Setting one drain moves it there.
LEMMA SetMovesDrain ==
  ASSUME TypeOK, NEW d \in Drains, NEW x \in Passes, drain' = [drain EXCEPT ![d] = x]
  PROVE  MovesDrain(d, x)
BY DEF MovesDrain, TypeOK

\* The idle places.
LEMMA IdlePlaces ==
  /\ IdleClient \in Calls /\ IdleClient.at = "idle"
  /\ IdleDrain \in Passes /\ IdleDrain.at = "idle" /\ IdleDrain.batch = {}
BY DEF IdleClient, IdleDrain, Calls, Passes

\* The types, spelled out for a step that answers no key.
LEMMA TypeKept ==
  ASSUME TypeOK, Grows, memories' \in Seq(Seq(Keys)), answered' = answered,
         purged' = purged, DOMAIN memories \subseteq DOMAIN memories',
         outbox' \in Seq(Messages),
         \A i \in DOMAIN outbox' : i \notin DOMAIN outbox /\ outbox'[i].topic = "memory" =>
             IsRevision(outbox[i].memory, outbox[i].revision)',
         \A job \in jobs' : job \in jobs \/ IsRevision(job[1], job[2]),
         client' \in [Clients -> Calls], drain' \in [Drains -> Passes],
         \A d \in Drains : \A r \in drain'[d].batch : r.row \in DOMAIN outbox,
         spent' \in SpentType
  PROVE  TypeOK'
<1>1. \A k \in Keys : answered[k] # NoAnswer => IsRevision(answered[k][1], answered[k][2])'
  BY DEF TypeOK, Grows
<1>2. \A i \in DOMAIN outbox' :
        outbox'[i].topic = "memory" => IsRevision(outbox[i].memory, outbox[i].revision)'
  <2> SUFFICES ASSUME NEW i \in DOMAIN outbox, outbox'[i].topic = "memory"
               PROVE  IsRevision(outbox[i].memory, outbox[i].revision)'
    OBVIOUS
  <2>1. /\ outbox'[i].topic = outbox[i].topic /\ outbox'[i].memory = outbox[i].memory
        /\ outbox'[i].revision = outbox[i].revision
    BY DEF Grows
  <2>2. PICK m, n : m = outbox[i].memory /\ n = outbox[i].revision
    OBVIOUS
  <2>3. IsRevision(m, n)'
    BY <2>1, <2>2 DEF TypeOK, Grows
  <2> QED BY <2>1, <2>2, <2>3
<1>3. \A job \in jobs' : IsRevision(job[1], job[2])'
  BY DEF TypeOK, Grows
<1>4. \A d \in Drains : \A r \in drain'[d].batch : r.row \in DOMAIN outbox'
  BY DEF Grows
<1>5. answered' \in [Keys -> Nat \X Nat] /\ purged' \subseteq DOMAIN memories'
  BY DEF TypeOK
<1> QED BY <1>1, <1>2, <1>3, <1>4, <1>5 DEF TypeOK, SpentType

\* A client changes its memory, its message or its answer: what has to be shown.
LEMMA ClientChanges ==
  ASSUME OutboxInv, NEW c \in Clients, NEW x, MovesClient(c, x), Grows, TypeOK', drain' = drain,
         NoLostUpdate', AnsweredMeansAnnounced', ProcessedMeansEmbedded', ClientKnows(c)',
         \A i \in DOMAIN outbox' : Tried(i)'
  PROVE  OutboxInv'
<1>1. ASSUME NEW b \in Clients PROVE ClientKnows(b)'
  BY ClientStays DEF OutboxInv, MovesClient
<1>2. ASSUME NEW d \in Drains PROVE Holds(d)' /\ Handles(d)'
  BY DrainStays DEF OutboxInv
<1> QED BY <1>1, <1>2 DEF OutboxInv

\* An outbox that stays keeps its messages in order, when nobody claims one.
LEMMA OutboxSame ==
  ASSUME OutboxInv, Grows, outbox' = outbox,
         \A d \in Drains : drain'[d].batch \subseteq drain[d].batch
  PROVE  ProcessedMeansEmbedded' /\ \A i \in DOMAIN outbox' : Tried(i)'
<1>1. ProcessedMeansEmbedded'
  BY AcknowledgedStay DEF OutboxInv
<1>2. ASSUME NEW i \in DOMAIN outbox PROVE Tried(i)'
  <2>1. Held(i)' \subseteq Held(i) /\ Stale(i)' \subseteq Stale(i)
    BY DEF Held, Stale
  <2> QED BY <2>1, TriedStays DEF OutboxInv
<1> QED BY <1>1, <1>2

\* A message that is added is neither tried nor held.
LEMMA OutboxAdded ==
  ASSUME OutboxInv, Grows, NEW msg \in Messages, outbox' = Append(outbox, msg),
         msg.attempts = 0, ~msg.dead, ~msg.processed,
         \A d \in Drains : drain'[d].batch = drain[d].batch
  PROVE  ProcessedMeansEmbedded' /\ \A i \in DOMAIN outbox' : Tried(i)'
<1>1. outbox \in Seq(Messages)
  BY DEF OutboxInv, TypeOK
<1>2. /\ DOMAIN outbox' = DOMAIN outbox \cup {Len(outbox) + 1}
      /\ Len(outbox) + 1 \notin DOMAIN outbox
      /\ outbox'[Len(outbox) + 1] = msg /\ \A k \in DOMAIN outbox : outbox'[k] = outbox[k]
  BY <1>1, SeqAppend
<1>3. ProcessedMeansEmbedded'
  BY <1>2, AcknowledgedStay DEF OutboxInv
<1>4. ASSUME NEW i \in DOMAIN outbox PROVE Tried(i)'
  <2>1. Held(i)' \subseteq Held(i) /\ Stale(i)' \subseteq Stale(i)
    BY DEF Held, Stale
  <2> QED BY <1>2, <2>1, TriedStays DEF OutboxInv
<1>5. ASSUME NEW i, i = Len(outbox) + 1 PROVE Tried(i)'
  <2>1. 0 <= MaxAttempts - 2
    BY OutboxAssumption
  <2> QED BY <1>2, <1>5, <2>1 DEF Tried
<1> QED BY <1>2, <1>3, <1>4, <1>5

\* Nothing but processes moves.
LEMMA QuietGrows ==
  ASSUME TypeOK, UNCHANGED <<memories, purged, outbox, jobs>>
  PROVE  Grows
<1>1. \A i \in DOMAIN outbox : outbox[i].attempts <= outbox[i].attempts
  BY RowTyped
<1> QED BY <1>1 DEF Grows, IsRevision

\* A client that only moves keeps the invariant.
LEMMA QuietClient ==
  ASSUME OutboxInv, NEW c \in Clients, NEW x, MovesClient(c, x),
         x.at \in {"idle", "save"}, x.at = "save" => x.key \in Keys, spent' \in SpentType,
         UNCHANGED <<memories, purged, answered, outbox, jobs, drain>>
  PROVE  OutboxInv'
<1>1. Grows
  BY QuietGrows DEF OutboxInv
<1>2. TypeOK'
  BY DEF OutboxInv, TypeOK, MovesClient, IsRevision, SpentType
<1>3. NoLostUpdate' /\ AnsweredMeansAnnounced'
  BY <1>1, AnswersStay DEF OutboxInv, NoLostUpdate
<1>4. ClientKnows(c)'
  BY DEF ClientKnows, MovesClient
<1>5. ProcessedMeansEmbedded' /\ \A i \in DOMAIN outbox' : Tried(i)'
  BY <1>1, OutboxSame
<1> QED BY <1>1, <1>2, <1>3, <1>4, <1>5, ClientChanges

\* The bounds on calls, messages and stops stay bounds.
LEMMA SpentTyped ==
  ASSUME TypeOK
  PROVE  /\ spent \in SpentType
         /\ spent.calls < MaxCalls => [spent EXCEPT !.calls = @ + 1] \in SpentType
         /\ spent.others < MaxOthers => [spent EXCEPT !.others = @ + 1] \in SpentType
         /\ spent.purges < MaxPurges => [spent EXCEPT !.purges = @ + 1] \in SpentType
         /\ spent.faults < MaxFaults => [spent EXCEPT !.faults = @ + 1] \in SpentType
<1>1. spent \in SpentType
  BY DEF TypeOK, SpentType
<1>2. MaxCalls \in Nat /\ MaxOthers \in Nat /\ MaxPurges \in Nat /\ MaxFaults \in Nat
  BY OutboxAssumption
<1>3. spent.calls < MaxCalls => [spent EXCEPT !.calls = @ + 1] \in SpentType
  BY <1>1, <1>2 DEF SpentType
<1>4. spent.others < MaxOthers => [spent EXCEPT !.others = @ + 1] \in SpentType
  BY <1>1, <1>2 DEF SpentType
<1>5. spent.faults < MaxFaults => [spent EXCEPT !.faults = @ + 1] \in SpentType
  BY <1>1, <1>2 DEF SpentType
<1>6. spent.purges < MaxPurges => [spent EXCEPT !.purges = @ + 1] \in SpentType
  BY <1>1, <1>2 DEF SpentType
<1> QED BY <1>1, <1>3, <1>4, <1>5, <1>6

\* A call that begins keeps the invariant.
LEMMA CallKeeps ==
  ASSUME OutboxInv, NEW c \in Clients, NEW k \in Keys, Call(c, k)
  PROVE  OutboxInv'
<1> DEFINE x == [IdleClient EXCEPT !.at = "save", !.key = k]
<1>1. x \in Calls /\ x.at = "save" /\ x.key = k
  BY DEF IdleClient, Calls
<1>2. client' = [client EXCEPT ![c] = x] /\ UNCHANGED <<memories, purged, answered, outbox, jobs, drain>>
      /\ spent' \in SpentType
  BY SpentTyped DEF Call, OutboxInv
<1> HIDE DEF x
<1>3. MovesClient(c, x)
  BY <1>1, <1>2, SetMovesClient DEF OutboxInv
<1> QED BY <1>1, <1>2, <1>3, QuietClient

\* So does one that ends for whatever reason.
LEMMA CallEnds ==
  ASSUME OutboxInv, NEW c \in Clients, client' = [client EXCEPT ![c] = IdleClient],
         spent' \in SpentType, UNCHANGED <<memories, purged, answered, outbox, jobs, drain>>
  PROVE  OutboxInv'
<1>1. MovesClient(c, IdleClient) /\ IdleClient.at = "idle"
  BY IdlePlaces, SetMovesClient DEF OutboxInv
<1> QED BY <1>1, QuietClient

\* A client that is stopped keeps the invariant.
LEMMA ClientStopsKeeps ==
  ASSUME OutboxInv, NEW c \in Clients, ClientStops(c)
  PROVE  OutboxInv'
<1>1. spent' \in SpentType
  BY SpentTyped DEF OutboxInv, ClientStops
<1> QED BY <1>1, CallEnds DEF ClientStops

-----------------------------------------------------------------------------
(* Writing a revision, announcing it and answering with it                 *)

\* A client that wrote a revision: what has to be shown.
LEMMA Written ==
  ASSUME OutboxInv, NEW c \in Clients, NEW m \in Nat, NEW n \in Nat, NEW k \in Keys,
         NEW x, MovesClient(c, x), x.at = "announce", x.key = k, x.memory = m, x.revision = n,
         memories' \in Seq(Seq(Keys)), DOMAIN memories \subseteq DOMAIN memories', NoLostUpdate',
         \A p, q : IsRevision(p, q) => IsRevision(p, q)' /\ memories'[p][q] = memories[p][q],
         IsRevision(m, n)', memories'[m][n] = k,
         UNCHANGED <<purged, answered, outbox, jobs, drain, spent>>
  PROVE  OutboxInv'
<1>1. Grows
  <2>1. \A i \in DOMAIN outbox : outbox[i].attempts <= outbox[i].attempts
    BY RowTyped DEF OutboxInv
  <2> QED BY <2>1 DEF Grows
<1>2. TypeOK'
  <2>1. /\ outbox \in Seq(Messages) /\ drain \in [Drains -> Passes] /\ spent \in SpentType
        /\ \A d \in Drains : \A r \in drain[d].batch : r.row \in DOMAIN outbox
    BY SpentTyped DEF OutboxInv, TypeOK
  <2> QED BY <1>1, <2>1, TypeKept DEF OutboxInv, MovesClient
<1>3. AnsweredMeansAnnounced'
  BY <1>1, AnswersStay DEF OutboxInv
<1>4. ClientKnows(c)'
  BY DEF ClientKnows, MovesClient
<1>5. ProcessedMeansEmbedded' /\ \A i \in DOMAIN outbox' : Tried(i)'
  BY <1>1, OutboxSame
<1> QED BY <1>1, <1>2, <1>3, <1>4, <1>5, ClientChanges

\* The first revision of a memory.
LEMMA SaveMemoryKeeps ==
  ASSUME OutboxInv, NEW c \in Clients, SaveMemory(c)
  PROVE  OutboxInv'
<1>1. PICK k : k = client[c].key
  OBVIOUS
<1>2. /\ k \in Remembers /\ k \in Keys /\ memories' = Append(memories, <<k>>)
      /\ client' = [client EXCEPT ![c].at = "announce", ![c].memory = Len(memories) + 1,
                                  ![c].revision = 1]
      /\ UNCHANGED <<purged, answered, outbox, jobs, drain, spent>>
  BY <1>1, OutboxAssumption DEF SaveMemory
<1>3. memories \in Seq(Seq(Keys)) /\ <<k>> \in Seq(Keys)
  BY <1>2 DEF OutboxInv, TypeOK
<1>4. PICK z : z = Len(memories) + 1
  OBVIOUS
<1>5. /\ memories' \in Seq(Seq(Keys)) /\ z \in Nat /\ z \notin DOMAIN memories
      /\ DOMAIN memories' = DOMAIN memories \cup {z}
      /\ memories'[z] = <<k>> /\ \A m \in DOMAIN memories : memories'[m] = memories[m]
  BY <1>2, <1>3, <1>4, SeqAppend
<1>6. DOMAIN memories'[z] = {1} /\ memories'[z][1] = k
  BY <1>5
<1>7. \A m, n : IsRevision(m, n) => IsRevision(m, n)' /\ memories'[m][n] = memories[m][n]
  BY <1>5 DEF IsRevision
<1>8. NoLostUpdate'
  <2> SUFFICES ASSUME NEW m \in DOMAIN memories', NEW n \in DOMAIN memories'[m]
               PROVE  IF n = 1 THEN memories'[m][n] \in Remembers
                      ELSE memories'[m][n] \notin Remembers /\ Expected[memories'[m][n]] = n - 1
    BY DEF NoLostUpdate
  <2>1. CASE m = z
    BY <1>2, <1>6, <2>1
  <2>2. CASE m # z
    BY <1>5, <2>2 DEF OutboxInv, NoLostUpdate
  <2> QED BY <2>1, <2>2
<1>11. PICK u \in Nat : u = 1
  OBVIOUS
<1>0. PICK x : x = [client[c] EXCEPT !.at = "announce", !.memory = z, !.revision = u]
  OBVIOUS
<1>9. /\ MovesClient(c, x) /\ x.at = "announce" /\ x.key = client[c].key
      /\ x.memory = z /\ x.revision = u
  <2>1. client' = [client EXCEPT ![c] = x]
    BY <1>0, <1>2, <1>4, <1>11
  <2>2. client[c] \in Calls
    BY DEF OutboxInv, TypeOK
  <2>3. x \in Calls /\ x.at = "announce" /\ x.key = client[c].key /\ x.memory = z /\ x.revision = u
    BY <1>0, <1>5, <1>11, <2>2 DEF Calls
  <2> QED BY <2>1, <2>3, SetMovesClient DEF OutboxInv
<1>10. IsRevision(z, u)' /\ memories'[z][u] = k
  BY <1>5, <1>6, <1>11 DEF IsRevision
<1>12. /\ k \in Keys /\ memories' \in Seq(Seq(Keys)) /\ z \in Nat /\ u \in Nat /\ x.key = k
       /\ UNCHANGED <<purged, answered, outbox, jobs, drain, spent>>
  BY <1>1, <1>2, <1>5, <1>9, <1>11
<1>13. DOMAIN memories \subseteq DOMAIN memories'
  BY <1>5
<1> QED BY <1>7, <1>8, <1>9, <1>10, <1>12, <1>13, Written

\* A later revision, over the one that was expected.
LEMMA SaveRevisionKeeps ==
  ASSUME OutboxInv, NEW c \in Clients, SaveRevision(c)
  PROVE  OutboxInv'
<1>1. PICK k : k = client[c].key
  OBVIOUS
<1>2. client[c].at = "save" /\ k \notin Remembers /\ UNCHANGED <<purged, answered, outbox, jobs, drain, spent>>
  BY <1>1 DEF SaveRevision
<1>3. k \in Keys /\ Expected[k] \in Nat
  BY <1>1, <1>2, OutboxAssumption DEF OutboxInv, ClientKnows
<1>4. CASE CanRevise(k)
  <2>1. /\ memories' = [memories EXCEPT ![1] = Append(memories[1], k)]
        /\ client' = [client EXCEPT ![c].at = "announce", ![c].memory = 1,
                                    ![c].revision = Expected[k] + 1]
        /\ Len(memories) > 0 /\ Len(memories[1]) = Expected[k]
    BY <1>1, <1>4 DEF SaveRevision, CanRevise
  <2>2. memories \in Seq(Seq(Keys))
    BY DEF OutboxInv, TypeOK
  <2>3. 1 \in DOMAIN memories /\ memories[1] \in Seq(Keys)
    BY <2>1, <2>2
  <2>4. PICK s, z : s = Append(memories[1], k) /\ z = Expected[k] + 1
    OBVIOUS
  <2>5. /\ s \in Seq(Keys) /\ z \in Nat /\ z \notin DOMAIN memories[1]
        /\ DOMAIN s = DOMAIN memories[1] \cup {z}
        /\ s[z] = k /\ \A n \in DOMAIN memories[1] : s[n] = memories[1][n]
    BY <1>3, <2>1, <2>3, <2>4, SeqAppend
  <2>6. /\ memories' \in Seq(Seq(Keys)) /\ DOMAIN memories' = DOMAIN memories
        /\ memories'[1] = s /\ \A m \in DOMAIN memories : m # 1 => memories'[m] = memories[m]
    BY <2>1, <2>2, <2>3, <2>4, <2>5, SeqExcept
  <2>7. \A m, n : IsRevision(m, n) => IsRevision(m, n)' /\ memories'[m][n] = memories[m][n]
    BY <2>5, <2>6 DEF IsRevision
  <2>8. NoLostUpdate'
    <3> SUFFICES ASSUME NEW m \in DOMAIN memories', NEW n \in DOMAIN memories'[m]
                 PROVE  IF n = 1 THEN memories'[m][n] \in Remembers
                        ELSE memories'[m][n] \notin Remembers /\ Expected[memories'[m][n]] = n - 1
      BY DEF NoLostUpdate
    <3>1. CASE m = 1 /\ n = z
      <4>1. Expected[k] # 0
        BY <1>2, <1>3, OutboxAssumption
      <4> QED BY <1>2, <1>3, <2>4, <2>5, <2>6, <3>1, <4>1
    <3>2. CASE ~(m = 1 /\ n = z)
      <4>1. m \in DOMAIN memories /\ n \in DOMAIN memories[m] /\ memories'[m][n] = memories[m][n]
        BY <2>5, <2>6, <3>2
      <4> QED BY <4>1 DEF OutboxInv, NoLostUpdate
    <3> QED BY <3>1, <3>2
  <2>11. PICK u \in Nat : u = 1
    OBVIOUS
  <2>0. PICK x : x = [client[c] EXCEPT !.at = "announce", !.memory = u, !.revision = z]
    OBVIOUS
  <2>9. /\ MovesClient(c, x) /\ x.at = "announce" /\ x.key = client[c].key
        /\ x.memory = u /\ x.revision = z
    <3>1. client' = [client EXCEPT ![c] = x]
      BY <2>0, <2>1, <2>4, <2>11
    <3>2. client[c] \in Calls
      BY DEF OutboxInv, TypeOK
    <3>3. x \in Calls /\ x.at = "announce" /\ x.key = client[c].key /\ x.memory = u /\ x.revision = z
      BY <2>0, <2>5, <2>11, <3>2 DEF Calls
    <3> QED BY <3>1, <3>3, SetMovesClient DEF OutboxInv
  <2>10. IsRevision(u, z)' /\ memories'[u][z] = k
    BY <2>3, <2>5, <2>6, <2>11 DEF IsRevision
  <2> QED BY <1>1, <1>2, <1>3, <2>5, <2>6, <2>7, <2>8, <2>9, <2>10, <2>11, Written
<1>5. CASE ~CanRevise(k)
  <2>1. client' = [client EXCEPT ![c] = IdleClient] /\ UNCHANGED memories
    BY <1>1, <1>5 DEF SaveRevision
  <2>2. spent' \in SpentType
    BY <1>2, SpentTyped DEF OutboxInv
  <2> QED BY <1>2, <2>1, <2>2, CallEnds
<1> QED BY <1>4, <1>5

\* An outbox that is added to, with everything else as it was, grows.
LEMMA AddingGrows ==
  ASSUME TypeOK, NEW msg \in Messages, outbox' = Append(outbox, msg), memories' = memories,
         purged' = purged, jobs \subseteq jobs'
  PROVE  Grows
<1>1. outbox \in Seq(Messages)
  BY DEF TypeOK
<1>2. \A i \in DOMAIN outbox : i \in DOMAIN outbox' /\ outbox'[i] = outbox[i]
  BY <1>1, SeqAppend
<1>3. \A i \in DOMAIN outbox : outbox[i].attempts <= outbox[i].attempts
  BY RowTyped
<1> QED BY <1>2, <1>3 DEF Grows, IsRevision

\* A revision is announced once it is written.
LEMMA AnnounceKeeps ==
  ASSUME OutboxInv, NEW c \in Clients, Announce(c)
  PROVE  OutboxInv'
<1>1. client[c] \in Calls /\ client[c].at = "announce" /\ ClientKnows(c)
  BY DEF OutboxInv, TypeOK, Announce
<1>2. PICK m \in Nat, n \in Nat : m = client[c].memory /\ n = client[c].revision
  BY <1>1 DEF Calls
<1>3. PICK msg : msg = Message("memory", m, n)
  OBVIOUS
<1>4. PICK x : x = [client[c] EXCEPT !.at = "record"]
  OBVIOUS
<1>5. msg \in Messages /\ msg.attempts = 0 /\ ~msg.dead /\ ~msg.processed
      /\ msg.topic = "memory" /\ msg.memory = m /\ msg.revision = n
  BY <1>2, <1>3 DEF Messages, Message
<1>6. outbox' = Append(outbox, msg) /\ UNCHANGED <<memories, purged, answered, jobs, drain, spent>>
      /\ client' = [client EXCEPT ![c] = x]
  BY <1>2, <1>3, <1>4 DEF Announce
<1>7. x \in Calls /\ x.at = "record" /\ x.key = client[c].key /\ x.memory = m /\ x.revision = n
  BY <1>1, <1>2, <1>4 DEF Calls
<1>8. MovesClient(c, x)
  BY <1>6, <1>7, SetMovesClient DEF OutboxInv
<1>9. Grows
  BY <1>5, <1>6, AddingGrows DEF OutboxInv
<1>10. PICK z : z = Len(outbox) + 1
  OBVIOUS
<1>11. outbox' \in Seq(Messages) /\ DOMAIN outbox' = DOMAIN outbox \cup {z} /\ outbox'[z] = msg
  <2>1. outbox \in Seq(Messages)
    BY DEF OutboxInv, TypeOK
  <2> QED BY <1>5, <1>6, <1>10, <2>1, SeqAppend
<1>12. IsRevision(m, n)' /\ memories'[m][n] = x.key /\ x.key \in Keys
  BY <1>1, <1>2, <1>6, <1>7 DEF ClientKnows, IsRevision
<1>13. TypeOK'
  <2>1. \A i \in DOMAIN outbox' : i \notin DOMAIN outbox /\ outbox'[i].topic = "memory" =>
             IsRevision(outbox[i].memory, outbox[i].revision)'
    BY <1>5, <1>11, <1>12 DEF IsRevision
  <2>2. /\ memories' \in Seq(Seq(Keys)) /\ drain' \in [Drains -> Passes] /\ spent' \in SpentType
        /\ \A d \in Drains : \A r \in drain'[d].batch : r.row \in DOMAIN outbox
    BY <1>6, SpentTyped DEF OutboxInv, TypeOK
  <2> QED BY <1>6, <1>8, <1>9, <1>11, <2>1, <2>2, TypeKept DEF OutboxInv, MovesClient
<1>14. NoLostUpdate'
  BY <1>6 DEF OutboxInv, NoLostUpdate
<1>15. AnsweredMeansAnnounced'
  BY <1>6, <1>9, AnswersStay DEF OutboxInv
<1>16. ProcessedMeansEmbedded' /\ \A i \in DOMAIN outbox' : Tried(i)'
  BY <1>5, <1>6, <1>9, OutboxAdded
<1>17. ClientKnows(c)'
  <2>1. Announced(m, n)'
    BY <1>5, <1>11 DEF Announced
  <2> QED BY <1>7, <1>8, <1>12, <2>1 DEF ClientKnows, MovesClient
<1> QED BY <1>6, <1>8, <1>9, <1>13, <1>14, <1>15, <1>16, <1>17, ClientChanges

\* A key is answered with a revision that is announced.
LEMMA RecordKeeps ==
  ASSUME OutboxInv, NEW c \in Clients, Record(c)
  PROVE  OutboxInv'
<1>1. client[c].at = "record" /\ client[c] \in Calls /\ ClientKnows(c)
  BY DEF OutboxInv, TypeOK, Record
<1>2. PICK k \in Keys, m \in Nat, n \in Nat :
         k = client[c].key /\ m = client[c].memory /\ n = client[c].revision
  BY <1>1 DEF Calls, ClientKnows
<1> DEFINE a == IF answered[k] = NoAnswer THEN <<m, n>> ELSE answered[k]
<1>3. /\ answered' = [answered EXCEPT ![k] = a]
      /\ client' = [client EXCEPT ![c] = IdleClient]
      /\ UNCHANGED <<memories, purged, outbox, jobs, drain, spent>>
  BY <1>2 DEF Record
<1>4. answered \in [Keys -> Nat \X Nat]
  BY DEF OutboxInv, TypeOK
<1>5. a \in Nat \X Nat /\ (a = answered[k] \/ a = <<m, n>>)
  BY <1>4
<1> HIDE DEF a
<1>6. /\ answered' \in [Keys -> Nat \X Nat] /\ answered'[k] = a
      /\ \A q \in Keys : q # k => answered'[q] = answered[q]
  BY <1>3, <1>4, <1>5
<1>7. MovesClient(c, IdleClient) /\ IdleClient.at = "idle"
  BY <1>3, IdlePlaces, SetMovesClient DEF OutboxInv
<1>8. Grows
  BY <1>3, QuietGrows DEF OutboxInv
<1>9. IsRevision(m, n) /\ memories[m][n] = k /\ Announced(m, n)
  BY <1>1, <1>2 DEF ClientKnows
<1>10. ASSUME NEW q \in Keys
       PROVE  answered'[q] = answered[q] \/ (q = k /\ answered'[q][1] = m /\ answered'[q][2] = n)
  BY <1>5, <1>6
<1>11. TypeOK'
  <2>1. \A q \in Keys : answered'[q] # NoAnswer =>
            IsRevision(answered'[q][1], answered'[q][2])
    BY <1>9, <1>10 DEF OutboxInv, TypeOK
  <2> QED BY <1>3, <1>6, <1>7, <2>1 DEF OutboxInv, TypeOK, IsRevision, MovesClient
<1>12. AnsweredMeansAnnounced'
  <2> SUFFICES ASSUME NEW q \in Keys, answered'[q] # NoAnswer
               PROVE  /\ memories[answered'[q][1]][answered'[q][2]] = q
                      /\ \E i \in DOMAIN outbox :
                             /\ outbox[i].topic = "memory"
                             /\ <<outbox[i].memory, outbox[i].revision>> = answered'[q]
    BY <1>3 DEF AnsweredMeansAnnounced
  <2>1. CASE answered'[q] = answered[q]
    BY <2>1 DEF OutboxInv, AnsweredMeansAnnounced
  <2>2. CASE answered'[q] # answered[q]
    <3>1. q = k /\ answered'[q] = <<m, n>>
      BY <1>5, <1>6, <2>2
    <3> QED BY <1>9, <3>1 DEF Announced
  <2> QED BY <2>1, <2>2
<1>13. NoLostUpdate'
  BY <1>3 DEF OutboxInv, NoLostUpdate
<1>14. ClientKnows(c)'
  BY <1>7 DEF ClientKnows, MovesClient
<1>15. ProcessedMeansEmbedded' /\ \A i \in DOMAIN outbox' : Tried(i)'
  BY <1>3, <1>8, OutboxSame
<1> QED BY <1>3, <1>7, <1>8, <1>11, <1>12, <1>13, <1>14, <1>15, ClientChanges

-----------------------------------------------------------------------------
(* Steps of the drains                                                     *)

\* Neither clients nor memories change: what has to be shown.
LEMMA OutboxChanges ==
  ASSUME OutboxInv, Grows, TypeOK', UNCHANGED <<memories, answered, client>>,
         \A d \in Drains : Holds(d)' /\ Handles(d)',
         ProcessedMeansEmbedded', \A i \in DOMAIN outbox' : Tried(i)'
  PROVE  OutboxInv'
<1>1. ASSUME NEW b \in Clients PROVE ClientKnows(b)'
  BY ClientStays DEF OutboxInv
<1>2. NoLostUpdate' /\ AnsweredMeansAnnounced'
  BY AnswersStay DEF OutboxInv, NoLostUpdate
<1> QED BY <1>1, <1>2 DEF OutboxInv

\* The types after a step that adds no message with a handler.
LEMMA OutboxTyped ==
  ASSUME TypeOK, Grows, UNCHANGED <<memories, purged, answered, client>>, outbox' \in Seq(Messages),
         \A i \in DOMAIN outbox' : i \notin DOMAIN outbox => outbox'[i].topic # "memory",
         \A job \in jobs' : job \in jobs \/ IsRevision(job[1], job[2]),
         drain' \in [Drains -> Passes],
         \A d \in Drains : \A r \in drain'[d].batch : r.row \in DOMAIN outbox,
         spent' \in SpentType
  PROVE  TypeOK'
<1>1. memories' \in Seq(Seq(Keys)) /\ client' \in [Clients -> Calls]
  BY DEF TypeOK
<1>2. \A i \in DOMAIN outbox' : i \notin DOMAIN outbox /\ outbox'[i].topic = "memory" =>
             IsRevision(outbox[i].memory, outbox[i].revision)'
  OBVIOUS
<1> QED BY <1>1, <1>2, TypeKept

\* One drain changes, and perhaps the outbox and the jobs: what has to be shown.
LEMMA DrainChanges ==
  ASSUME OutboxInv, NEW d \in Drains, NEW x, MovesDrain(d, x), Grows,
         UNCHANGED <<memories, purged, answered, client>>, outbox' \in Seq(Messages),
         \A i \in DOMAIN outbox' : i \notin DOMAIN outbox => outbox'[i].topic # "memory",
         \A job \in jobs' : job \in jobs \/ IsRevision(job[1], job[2]),
         \A r \in x.batch : r.row \in DOMAIN outbox,
         spent' \in SpentType,
         Holds(d)', Handles(d)',
         ProcessedMeansEmbedded', \A i \in DOMAIN outbox' : Tried(i)'
  PROVE  OutboxInv'
<1>1. TypeOK'
  <2>1. \A b \in Drains : \A r \in drain'[b].batch : r.row \in DOMAIN outbox
    BY DEF OutboxInv, TypeOK, MovesDrain
  <2> QED BY <2>1, OutboxTyped DEF OutboxInv, MovesDrain
<1>2. ASSUME NEW b \in Drains PROVE Holds(b)' /\ Handles(b)'
  <2>1. CASE b = d
    BY <2>1
  <2>2. CASE b # d
    BY <1>1, <2>2, DrainStays DEF OutboxInv, MovesDrain
  <2> QED BY <2>1, <2>2
<1> QED BY <1>1, <1>2, OutboxChanges

\* A drain that moves, with the batch it has or without it, and changes nothing else.
LEMMA QuietDrain ==
  ASSUME OutboxInv, NEW d \in Drains, NEW x, MovesDrain(d, x),
         x.batch \subseteq drain[d].batch, x.at # "idle" => x.batch # {},
         spent' \in SpentType, Handles(d)',
         UNCHANGED <<memories, purged, answered, outbox, jobs, client>>
  PROVE  OutboxInv'
<1>1. Grows
  BY QuietGrows DEF OutboxInv
<1>2. outbox \in Seq(Messages) /\ \A r \in x.batch : r.row \in DOMAIN outbox
  BY BatchTyped DEF OutboxInv, TypeOK
<1>3. Holds(d)'
  BY DEF OutboxInv, Holds, MovesDrain
<1>4. ProcessedMeansEmbedded' /\ \A i \in DOMAIN outbox' : Tried(i)'
  <2>1. \A b \in Drains : drain'[b].batch \subseteq drain[b].batch
    BY DEF MovesDrain
  <2> QED BY <1>1, <2>1, OutboxSame
<1> QED BY <1>1, <1>2, <1>3, <1>4, DrainChanges

\* The message a drain is handling.
LEMMA CurrentKnown ==
  ASSUME OutboxInv, NEW d \in Drains, drain[d].at # "idle"
  PROVE  /\ drain[d] \in Passes /\ drain[d].batch # {}
         /\ Current(d) \in drain[d].batch /\ Current(d).attempts \in Nat
         /\ Current(d).row \in DOMAIN outbox /\ outbox[Current(d).row].topic = "memory"
         /\ Current(d).attempts <= outbox[Current(d).row].attempts
         /\ \A q \in drain[d].batch : q.row = Current(d).row => q = Current(d)
<1>1. drain[d] \in Passes /\ drain[d].batch # {}
  BY DEF OutboxInv, TypeOK, Holds
<1>2. Current(d) \in drain[d].batch
  BY <1>1, CurrentIn DEF OutboxInv
<1>3. Current(d).row \in DOMAIN outbox /\ Current(d).attempts \in Nat
  BY <1>2, BatchTyped DEF OutboxInv
<1>4. Holds(d)
  BY DEF OutboxInv
<1> QED BY <1>1, <1>2, <1>3, <1>4 DEF Holds

\* A drain that stops.
LEMMA DrainStopsKeeps ==
  ASSUME OutboxInv, NEW d \in Drains, DrainStops(d)
  PROVE  OutboxInv'
<1>1. spent' \in SpentType
  BY SpentTyped DEF OutboxInv, DrainStops
<1>2. MovesDrain(d, IdleDrain) /\ IdleDrain.at = "idle" /\ IdleDrain.batch = {}
  BY IdlePlaces, SetMovesDrain DEF OutboxInv, DrainStops
<1>3. Handles(d)'
  BY <1>2 DEF MovesDrain, Handles
<1> QED BY <1>1, <1>2, <1>3, QuietDrain DEF DrainStops

\* A handler that refuses.
LEMMA HandlerRefusesKeeps ==
  ASSUME OutboxInv, NEW d \in Drains, HandlerRefuses(d)
  PROVE  OutboxInv'
<1>1. PICK x : x = [drain[d] EXCEPT !.at = "fail", !.revision = 0]
  OBVIOUS
<1>2. drain[d] \in Passes /\ drain[d].batch # {}
  BY CurrentKnown DEF HandlerRefuses
<1>3. x \in Passes /\ x.at = "fail" /\ x.batch = drain[d].batch
  BY <1>1, <1>2 DEF Passes
<1>4. drain' = [drain EXCEPT ![d] = x]
  BY <1>1 DEF HandlerRefuses
<1>5. MovesDrain(d, x)
  BY <1>3, <1>4, SetMovesDrain DEF OutboxInv
<1>6. Handles(d)' /\ spent' \in SpentType
  BY <1>3, <1>5, SpentTyped DEF MovesDrain, Handles, HandlerRefuses, OutboxInv
<1> QED BY <1>2, <1>3, <1>5, <1>6, QuietDrain DEF HandlerRefuses

\* A drain that goes on with its message, knowing what it has to know.
LEMMA HandlingGoesOn ==
  ASSUME OutboxInv, NEW d \in Drains, drain[d].at # "idle",
         NEW at \in {"materialize", "accept", "mark"}, NEW n \in Nat,
         NEW i, i = Current(d).row,
         drain' = [drain EXCEPT ![d].at = at, ![d].revision = n],
         at # "mark" => outbox[i].revision <= n /\ IsRevision(outbox[i].memory, n),
         at = "mark" => Embedded(outbox[i].memory, outbox[i].revision),
         UNCHANGED <<memories, purged, answered, outbox, jobs, client, spent>>
  PROVE  OutboxInv'
<1>1. drain[d] \in Passes /\ drain[d].batch # {}
  BY CurrentKnown
<1>2. PICK x : x = [drain[d] EXCEPT !.at = at, !.revision = n]
  OBVIOUS
<1>3. x \in Passes /\ x.at = at /\ x.batch = drain[d].batch /\ x.revision = n
  BY <1>1, <1>2 DEF Passes
<1>4. drain' = [drain EXCEPT ![d] = x]
  BY <1>2
<1>5. MovesDrain(d, x)
  BY <1>3, <1>4, SetMovesDrain DEF OutboxInv
<1>6. Current(d)' = Current(d)
  BY <1>3, <1>5 DEF Current, MovesDrain
<1>7. drain'[d] = x
  BY <1>5 DEF MovesDrain
<1>8. Handles(d)'
  <2>1. at # "mark" => /\ outbox'[Current(d)'.row].revision <= n
                      /\ IsRevision(outbox[Current(d).row].memory, n)'
    BY <1>6 DEF IsRevision
  <2>2. at = "mark" => Embedded(outbox[Current(d).row].memory, outbox[Current(d).row].revision)'
    BY <1>6 DEF Embedded
  <2> QED BY <1>3, <1>7, <2>1, <2>2 DEF Handles, IsRevision
<1>9. spent' \in SpentType
  BY SpentTyped DEF OutboxInv
<1> QED BY <1>1, <1>3, <1>5, <1>8, <1>9, QuietDrain

\* The revision that is read is no older than the announced one.
LEMMA ReadActiveKeeps ==
  ASSUME OutboxInv, NEW d \in Drains, ReadActive(d)
  PROVE  OutboxInv'
<1>1. /\ Current(d).row \in DOMAIN outbox /\ outbox[Current(d).row].topic = "memory"
      /\ drain[d].at # "idle"
      /\ UNCHANGED <<memories, purged, answered, outbox, jobs, client, spent>>
  BY CurrentKnown DEF ReadActive
<1>2. PICK i, m, n : i = Current(d).row /\ m = outbox[i].memory /\ n = Len(memories[m])
  OBVIOUS
<1>3. outbox[i].revision \in Nat /\ IsRevision(m, outbox[i].revision)
  BY <1>1, <1>2, RowTyped DEF OutboxInv, TypeOK
<1>4. /\ n \in Nat /\ outbox[i].revision <= n /\ IsRevision(m, n)
  <2>1. memories[m] \in Seq(Keys)
    BY <1>3 DEF OutboxInv, TypeOK, IsRevision
  <2> QED BY <1>2, <1>3, <2>1 DEF IsRevision
<1>5. CASE m \in purged
  <2>1. drain' = [drain EXCEPT ![d].at = "mark", ![d].revision = 0]
    BY <1>2, <1>5 DEF ReadActive
  <2>2. Embedded(m, outbox[i].revision)
    BY <1>5 DEF Embedded
  <2> QED BY <1>1, <1>2, <2>1, <2>2, HandlingGoesOn
<1>6. CASE m \notin purged
  <2>1. drain' = [drain EXCEPT ![d].at = "materialize", ![d].revision = n]
    BY <1>2, <1>6 DEF ReadActive
  <2> QED BY <1>1, <1>2, <1>4, <2>1, HandlingGoesOn
<1> QED BY <1>5, <1>6

\* The content that is read is that of the revision, or there is none to embed.
LEMMA MaterializeKeeps ==
  ASSUME OutboxInv, NEW d \in Drains, Materialize(d)
  PROVE  OutboxInv'
<1>1. /\ drain[d] \in Passes /\ drain[d].at = "materialize" /\ Handles(d)
      /\ UNCHANGED <<memories, purged, answered, outbox, jobs, client, spent>>
  BY CurrentKnown DEF Materialize, OutboxInv
<1>2. PICK i, m, n : i = Current(d).row /\ m = outbox[i].memory /\ n = drain[d].revision
  OBVIOUS
<1>3. /\ n \in Nat /\ outbox[i].revision <= n /\ IsRevision(m, n)
  BY <1>1, <1>2 DEF Handles, Passes
<1>4. outbox[i].revision \in Nat
  BY <1>1, <1>2, CurrentKnown, RowTyped DEF OutboxInv
<1>5. CASE m \in purged \/ memories[m][n] \in Blank
  <2>1. drain' = [drain EXCEPT ![d].at = "mark", ![d].revision = 0]
    BY <1>2, <1>5 DEF Materialize
  <2>2. Embedded(m, outbox[i].revision)
    BY <1>3, <1>4, <1>5 DEF Embedded, IsRevision
  <2> QED BY <1>1, <1>2, <2>1, <2>2, HandlingGoesOn
<1>6. CASE ~(m \in purged \/ memories[m][n] \in Blank)
  <2>1. drain' = [drain EXCEPT ![d].at = "accept", ![d].revision = n]
    BY <1>2, <1>6 DEF Materialize
  <2> QED BY <1>1, <1>2, <1>3, <2>1, HandlingGoesOn
<1> QED BY <1>5, <1>6

\* A message without a handler.
LEMMA UnhandledTyped ==
  /\ Unhandled \in Messages /\ Unhandled.topic = "other" /\ Unhandled.attempts = 0
  /\ ~Unhandled.dead /\ ~Unhandled.processed
BY DEF Unhandled, Message, Messages

\* What adding one leaves.
LEMMA UnhandledAdded ==
  ASSUME TypeOK, outbox' = Append(outbox, Unhandled)
  PROVE  /\ outbox' \in Seq(Messages)
         /\ \A i \in DOMAIN outbox' : i \notin DOMAIN outbox => outbox'[i].topic # "memory"
<1>1. outbox \in Seq(Messages)
  BY DEF TypeOK
<1> QED BY <1>1, UnhandledTyped, SeqAppend

\* A message of another producer.
LEMMA OtherProducerKeeps ==
  ASSUME OutboxInv, OtherProducer
  PROVE  OutboxInv'
<1>1. /\ outbox' = Append(outbox, Unhandled) /\ spent' \in SpentType
      /\ UNCHANGED <<memories, purged, answered, jobs, client, drain>>
  BY SpentTyped DEF OutboxInv, OtherProducer
<1>2. Grows
  BY <1>1, UnhandledTyped, AddingGrows DEF OutboxInv
<1>3. TypeOK'
  <2>1. /\ drain' \in [Drains -> Passes]
        /\ \A d \in Drains : \A r \in drain'[d].batch : r.row \in DOMAIN outbox
    BY <1>1 DEF OutboxInv, TypeOK
  <2> QED BY <1>1, <1>2, <2>1, UnhandledAdded, OutboxTyped DEF OutboxInv
<1>4. \A d \in Drains : Holds(d)' /\ Handles(d)'
  BY <1>1, <1>2, <1>3, DrainStays DEF OutboxInv
<1>5. ProcessedMeansEmbedded' /\ \A i \in DOMAIN outbox' : Tried(i)'
  BY <1>1, <1>2, UnhandledTyped, OutboxAdded
<1> QED BY <1>1, <1>2, <1>3, <1>4, <1>5, OutboxChanges

\* A job is accepted for the revision that was read.
LEMMA AcceptJobKeeps ==
  ASSUME OutboxInv, NEW d \in Drains, AcceptJob(d)
  PROVE  OutboxInv'
<1>1. /\ drain[d] \in Passes /\ drain[d].batch # {} /\ drain[d].at = "accept"
      /\ Current(d).row \in DOMAIN outbox
  BY CurrentKnown DEF AcceptJob
<1>2. PICK i, m, n : i = Current(d).row /\ m = outbox[i].memory /\ n = drain[d].revision
  OBVIOUS
<1>3. outbox[i].revision <= n /\ IsRevision(m, n)
  BY <1>1, <1>2 DEF OutboxInv, Handles
<1>4. /\ jobs' = jobs \cup {<<m, n>>} /\ outbox' = Append(outbox, Unhandled)
      /\ UNCHANGED <<memories, purged, answered, client, spent>>
  BY <1>2 DEF AcceptJob
<1>5. PICK at \in {"mark", "fail"} : drain' = [drain EXCEPT ![d].at = at, ![d].revision = 0]
  BY DEF AcceptJob
<1>6. PICK x : x = [drain[d] EXCEPT !.at = at, !.revision = 0]
  OBVIOUS
<1>7. x \in Passes /\ x.at = at /\ x.batch = drain[d].batch
  BY <1>1, <1>6 DEF Passes
<1>8. drain' = [drain EXCEPT ![d] = x]
  BY <1>5, <1>6
<1>9. MovesDrain(d, x)
  BY <1>7, <1>8, SetMovesDrain DEF OutboxInv
<1>10. Grows
  BY <1>4, UnhandledTyped, AddingGrows DEF OutboxInv
<1>11. Current(d)' = Current(d)
  BY <1>7, <1>9 DEF Current, MovesDrain
<1>12. outbox'[i].memory = m /\ outbox'[i].revision = outbox[i].revision
  BY <1>1, <1>2, <1>10 DEF Grows
<1>13. Embedded(m, outbox[i].revision)'
  <2>1. outbox[i].revision \in Nat /\ n \in Nat
    BY <1>1, <1>2, RowTyped DEF OutboxInv, Passes
  <2>2. <<m, n>> \in jobs' /\ n >= outbox[i].revision
    BY <1>3, <1>4, <2>1
  <2>3. \E job \in jobs' : job[1] = m /\ job[2] >= outbox'[i].revision
    BY <1>12, <2>2
  <2> QED BY <1>12, <2>3 DEF Embedded
<1>14. Handles(d)'
  <2>1. drain'[d] = x
    BY <1>9 DEF MovesDrain
  <2>2. Embedded(outbox[Current(d).row].memory, outbox[Current(d).row].revision)'
    BY <1>2, <1>11, <1>12, <1>13 DEF Embedded
  <2> QED BY <1>7, <2>1, <2>2 DEF Handles
<1>15. Holds(d)'
  <2>1. ASSUME NEW r \in drain[d].batch
        PROVE  outbox'[r.row].topic = "memory" /\ r.attempts <= outbox'[r.row].attempts
    <3>1. r.row \in DOMAIN outbox
      BY BatchTyped DEF OutboxInv
    <3>2. outbox'[r.row] = outbox[r.row]
      <4>1. outbox \in Seq(Messages)
        BY DEF OutboxInv, TypeOK
      <4> QED BY <1>4, <3>1, <4>1, UnhandledTyped, SeqAppend
    <3> QED BY <3>2 DEF OutboxInv, Holds
  <2>2. \A r, q \in drain[d].batch : q.row = r.row => q = r
    BY DEF OutboxInv, Holds
  <2> QED BY <1>1, <1>7, <1>9, <2>1, <2>2 DEF Holds, MovesDrain
<1>16. ProcessedMeansEmbedded' /\ \A j \in DOMAIN outbox' : Tried(j)'
  <2>1. \A b \in Drains : drain'[b].batch = drain[b].batch
    BY <1>7, <1>9 DEF MovesDrain
  <2> QED BY <1>4, <1>10, <2>1, UnhandledTyped, OutboxAdded
<1>17. \A job \in jobs' : job \in jobs \/ IsRevision(job[1], job[2])
  BY <1>3, <1>4
<1>18. \A r \in x.batch : r.row \in DOMAIN outbox
  BY <1>7, BatchTyped DEF OutboxInv
<1>19. spent' \in SpentType
  BY <1>4, SpentTyped DEF OutboxInv
<1> QED
  BY <1>4, <1>9, <1>10, <1>14, <1>15, <1>16, <1>17, <1>18, <1>19, UnhandledAdded, DrainChanges
     DEF OutboxInv

\* A purge takes away what would have to be embedded, and nothing else.
LEMMA PurgeKeeps ==
  ASSUME OutboxInv, NEW m \in DOMAIN memories, Purge(m)
  PROVE  OutboxInv'
<1>1. /\ purged' = purged \cup {m} /\ spent' \in SpentType
      /\ UNCHANGED <<memories, answered, outbox, jobs, client, drain>>
  BY SpentTyped DEF OutboxInv, Purge
<1>2. Grows
  <2>1. \A i \in DOMAIN outbox : outbox[i].attempts <= outbox[i].attempts
    BY RowTyped DEF OutboxInv
  <2> QED BY <1>1, <2>1 DEF Grows, IsRevision
<1>3. TypeOK'
  BY <1>1 DEF OutboxInv, TypeOK, IsRevision, SpentType
<1>4. \A d \in Drains : Holds(d)' /\ Handles(d)'
  BY <1>1, <1>2, <1>3, DrainStays DEF OutboxInv
<1>5. ProcessedMeansEmbedded' /\ \A i \in DOMAIN outbox' : Tried(i)'
  BY <1>1, <1>2, OutboxSame
<1> QED BY <1>1, <1>2, <1>3, <1>4, <1>5, OutboxChanges

\* One message changes its state.
LEMMA RowChanges ==
  ASSUME TypeOK, NEW i \in DOMAIN outbox, NEW row \in Messages, outbox' = [outbox EXCEPT ![i] = row],
         row.topic = outbox[i].topic, row.memory = outbox[i].memory,
         row.revision = outbox[i].revision, outbox[i].attempts <= row.attempts,
         UNCHANGED <<memories, purged, jobs>>
  PROVE  /\ Grows /\ outbox' \in Seq(Messages) /\ DOMAIN outbox' = DOMAIN outbox
         /\ outbox'[i] = row /\ \A k \in DOMAIN outbox : k # i => outbox'[k] = outbox[k]
<1>1. outbox \in Seq(Messages)
  BY DEF TypeOK
<1>2. /\ outbox' \in Seq(Messages) /\ DOMAIN outbox' = DOMAIN outbox
      /\ outbox'[i] = row /\ \A k \in DOMAIN outbox : k # i => outbox'[k] = outbox[k]
  BY <1>1, SeqExcept
<1>3. ASSUME NEW k \in DOMAIN outbox
      PROVE  /\ outbox'[k].topic = outbox[k].topic /\ outbox'[k].memory = outbox[k].memory
             /\ outbox'[k].revision = outbox[k].revision
             /\ outbox[k].attempts <= outbox'[k].attempts
  <2>1. CASE k = i
    BY <1>2, <2>1
  <2>2. CASE k # i
    BY <1>2, <2>2, RowTyped
  <2> QED BY <2>1, <2>2
<1>4. Grows
  BY <1>2, <1>3 DEF Grows, IsRevision
<1> QED BY <1>2, <1>4

\* A backoff that ends.
LEMMA BackoffEndsKeeps ==
  ASSUME OutboxInv, NEW i \in DOMAIN outbox, BackoffEnds(i)
  PROVE  OutboxInv'
<1>1. PICK row : row = [outbox[i] EXCEPT !.due = TRUE]
  OBVIOUS
<1>2. outbox[i] \in Messages /\ outbox[i].attempts \in Nat
  BY RowTyped DEF OutboxInv
<1>3. /\ row \in Messages /\ row.topic = outbox[i].topic /\ row.memory = outbox[i].memory
      /\ row.revision = outbox[i].revision /\ row.attempts = outbox[i].attempts
      /\ row.dead = outbox[i].dead /\ row.processed = outbox[i].processed
  BY <1>1, <1>2 DEF Messages
<1>4. outbox' = [outbox EXCEPT ![i] = row] /\ UNCHANGED <<memories, purged, answered, jobs, client, drain, spent>>
  BY <1>1 DEF BackoffEnds
<1>5. /\ Grows /\ outbox' \in Seq(Messages) /\ DOMAIN outbox' = DOMAIN outbox
      /\ outbox'[i] = row /\ \A k \in DOMAIN outbox : k # i => outbox'[k] = outbox[k]
  <2>1. outbox[i].attempts <= row.attempts
    BY <1>2, <1>3
  <2> QED BY <1>3, <1>4, <2>1, RowChanges DEF OutboxInv
<1>6. TypeOK'
  <2>1. /\ drain' \in [Drains -> Passes] /\ spent' \in SpentType
        /\ \A d \in Drains : \A r \in drain'[d].batch : r.row \in DOMAIN outbox
    BY <1>4, SpentTyped DEF OutboxInv, TypeOK
  <2> QED BY <1>4, <1>5, <2>1, OutboxTyped DEF OutboxInv
<1>7. \A d \in Drains : Holds(d)' /\ Handles(d)'
  BY <1>4, <1>5, <1>6, DrainStays DEF OutboxInv
<1>8. ASSUME NEW k \in DOMAIN outbox
      PROVE  /\ outbox'[k].attempts = outbox[k].attempts /\ outbox'[k].dead = outbox[k].dead
             /\ outbox'[k].topic = outbox[k].topic /\ outbox'[k].processed = outbox[k].processed
  BY <1>3, <1>5
<1>9. ProcessedMeansEmbedded'
  BY <1>5, <1>8, AcknowledgedStay DEF OutboxInv
<1>10. ASSUME NEW k \in DOMAIN outbox PROVE Tried(k)'
  <2>1. Held(k)' = Held(k) /\ Stale(k)' = Stale(k)
    BY <1>4 DEF Held, Stale
  <2> QED BY <1>8, <2>1, TriedStays DEF OutboxInv
<1> QED BY <1>4, <1>5, <1>6, <1>7, <1>9, <1>10, OutboxChanges

\* A claim takes messages that are not dead, as often tried as they are.
LEMMA ClaimPendingKeeps ==
  ASSUME OutboxInv, NEW d \in Drains, ClaimPending(d)
  PROVE  OutboxInv'
<1>1. PICK x : x = [at |-> "handle", batch |-> Pending, revision |-> 0]
  OBVIOUS
<1>2. ASSUME NEW r \in Pending
      PROVE  /\ r \in [row : Nat, attempts : Nat] /\ r.row \in DOMAIN outbox
             /\ outbox[r.row].topic = "memory" /\ ~outbox[r.row].dead
             /\ r.attempts = outbox[r.row].attempts
  <2>1. PICK i \in DOMAIN outbox :
          /\ r = [row |-> i, attempts |-> outbox[i].attempts]
          /\ Claimed(i) /\ outbox[i].topic = "memory"
    BY DEF Pending
  <2>2. i \in Nat /\ outbox[i].attempts \in Nat
    BY RowTyped DEF OutboxInv
  <2> QED BY <2>1, <2>2 DEF Claimed, Claimable
<1>3. x \in Passes /\ x.at = "handle" /\ x.batch = Pending /\ x.batch # {}
  <2>1. Pending \subseteq [row : Nat, attempts : Nat] /\ Pending # {}
    BY <1>2 DEF ClaimPending
  <2> HIDE DEF Pending
  <2> QED BY <1>1, <2>1 DEF Passes
<1>4. /\ drain' = [drain EXCEPT ![d] = x]
      /\ drain[d].batch = {} /\ UNCHANGED <<memories, purged, answered, outbox, jobs, client, spent>>
  BY <1>1, IdlePlaces DEF ClaimPending
<1>5. MovesDrain(d, x)
  BY <1>3, <1>4, SetMovesDrain DEF OutboxInv
<1>6. Grows
  BY <1>4, QuietGrows DEF OutboxInv
<1>7. outbox \in Seq(Messages) /\ \A r \in x.batch : r.row \in DOMAIN outbox
  BY <1>2, <1>3 DEF OutboxInv, TypeOK
<1>8. Holds(d)'
  <2>1. ASSUME NEW r \in x.batch
        PROVE  outbox[r.row].topic = "memory" /\ r.attempts <= outbox[r.row].attempts
    <3>1. outbox[r.row].attempts \in Nat
      BY <1>7, RowTyped DEF OutboxInv
    <3> QED BY <1>2, <1>3, <3>1
  <2>2. ASSUME NEW r \in x.batch, NEW q \in x.batch, q.row = r.row PROVE q = r
    BY <1>2, <1>3, <2>2
  <2> QED BY <1>3, <1>4, <1>5, <2>1, <2>2 DEF Holds, MovesDrain
<1>9. Handles(d)'
  BY <1>3, <1>5 DEF Handles, MovesDrain
<1>10. ProcessedMeansEmbedded'
  BY <1>4, <1>6, AcknowledgedStay DEF OutboxInv
<1>11. ASSUME NEW i \in DOMAIN outbox PROVE Tried(i)'
  <2>1. outbox[i].dead => Held(i)' \subseteq Held(i)
    BY <1>2, <1>3, <1>5 DEF Held, MovesDrain
  <2>2. outbox[i].attempts <= MaxAttempts - 2 \/ Stale(i)' \subseteq Stale(i)
    BY <1>2, <1>3, <1>5 DEF Stale, MovesDrain
  <2> QED BY <1>4, <2>1, <2>2, TriedStays DEF OutboxInv
<1>12. spent' \in SpentType
  BY <1>4, SpentTyped DEF OutboxInv
<1> QED BY <1>4, <1>5, <1>6, <1>7, <1>8, <1>9, <1>10, <1>11, <1>12, DrainChanges

\* A drain that goes on lets go of the message it handled and of no other.
LEMMA AdvanceMoves ==
  ASSUME OutboxInv, NEW d \in Drains, drain[d].at # "idle", Advance(d)
  PROVE  /\ MovesDrain(d, drain'[d]) /\ drain'[d].batch = drain[d].batch \ {Current(d)}
         /\ drain'[d].at \in {"idle", "handle"}
         /\ drain'[d].at # "idle" => drain'[d].batch # {}
<1>1. PICK left : left = drain[d].batch \ {Current(d)}
  OBVIOUS
<1>2. PICK x : x = IF left = {} THEN IdleDrain ELSE [at |-> "handle", batch |-> left, revision |-> 0]
  OBVIOUS
<1>3. drain' = [drain EXCEPT ![d] = x]
  BY <1>1, <1>2 DEF Advance
<1>4. left \subseteq [row : Nat, attempts : Nat]
  BY <1>1, BatchTyped DEF OutboxInv
<1>5. x \in Passes /\ x.batch = left /\ x.at \in {"idle", "handle"} /\ (x.at # "idle" => left # {})
  <2>1. CASE left = {}
    BY <1>2, <2>1, IdlePlaces
  <2>2. CASE left # {}
    <3>1. x = [at |-> "handle", batch |-> left, revision |-> 0]
      BY <1>2, <2>2
    <3> QED BY <1>4, <2>2, <3>1 DEF Passes
  <2> QED BY <2>1, <2>2
<1>6. MovesDrain(d, x)
  BY <1>3, <1>5, SetMovesDrain DEF OutboxInv
<1> QED BY <1>1, <1>5, <1>6 DEF MovesDrain

\* Who holds which message after that.
LEMMA AdvanceHeld ==
  ASSUME OutboxInv, NEW d \in Drains, drain[d].at # "idle", Advance(d), NEW i
  PROVE  /\ Held(i)' \subseteq Held(i) /\ Stale(i)' \subseteq Stale(i)
         /\ i = Current(d).row => d \in Held(i) /\ d \notin Held(i)' /\ d \notin Stale(i)'
         /\ i = Current(d).row /\ Current(d).attempts <= MaxAttempts - 2 => d \in Stale(i)
<1>1. /\ MovesDrain(d, drain'[d]) /\ drain'[d].batch = drain[d].batch \ {Current(d)}
  BY AdvanceMoves
<1>2. /\ Current(d) \in drain[d].batch
      /\ \A q \in drain[d].batch : q.row = Current(d).row => q = Current(d)
  BY CurrentKnown
<1>3. Held(i)' \subseteq Held(i) /\ Stale(i)' \subseteq Stale(i)
  BY <1>1 DEF Held, Stale, MovesDrain
<1>4. i = Current(d).row => d \notin Held(i)' /\ d \notin Stale(i)'
  BY <1>1, <1>2 DEF Held, Stale
<1>5. i = Current(d).row => d \in Held(i)
  BY <1>2 DEF Held
<1>6. i = Current(d).row /\ Current(d).attempts <= MaxAttempts - 2 => d \in Stale(i)
  BY <1>2 DEF Stale
<1> QED BY <1>3, <1>4, <1>5, <1>6

\* A drain settles the message it handled, one way or the other: what has to be shown.
LEMMA Settles ==
  ASSUME OutboxInv, NEW d \in Drains, drain[d].at # "idle", Advance(d),
         NEW i, i = Current(d).row,
         NEW row \in Messages, outbox' = [outbox EXCEPT ![i] = row],
         row.topic = outbox[i].topic, row.memory = outbox[i].memory,
         row.revision = outbox[i].revision, outbox[i].attempts <= row.attempts,
         row.processed => outbox[i].processed \/ Embedded(outbox[i].memory, outbox[i].revision),
         UNCHANGED <<memories, purged, answered, jobs, client, spent>>,
         outbox'[i] = row => Tried(i)'
  PROVE  OutboxInv'
<1>0. i \in DOMAIN outbox
  BY CurrentKnown
<1>1. /\ Grows /\ outbox' \in Seq(Messages) /\ DOMAIN outbox' = DOMAIN outbox
      /\ outbox'[i] = row /\ \A k \in DOMAIN outbox : k # i => outbox'[k] = outbox[k]
  BY <1>0, RowChanges DEF OutboxInv
<1>2. PICK x : x = drain'[d]
  OBVIOUS
<1>3. /\ MovesDrain(d, x) /\ x.batch = drain[d].batch \ {Current(d)}
      /\ x.at \in {"idle", "handle"} /\ (x.at # "idle" => x.batch # {})
  BY <1>2, AdvanceMoves
<1>4. Handles(d)'
  BY <1>3 DEF Handles, MovesDrain
<1>5. Holds(d)'
  <2>1. ASSUME NEW r \in x.batch
        PROVE  outbox'[r.row].topic = "memory" /\ r.attempts <= outbox'[r.row].attempts
    <3>1. r \in drain[d].batch
      BY <1>3
    <3>2. r.row \in DOMAIN outbox /\ r.attempts \in Nat
      BY <3>1, BatchTyped DEF OutboxInv
    <3>3. /\ outbox[r.row].topic = "memory" /\ r.attempts <= outbox[r.row].attempts
      BY <3>1 DEF OutboxInv, Holds
    <3>4. outbox[r.row].attempts \in Nat
      BY <3>2, RowTyped DEF OutboxInv
    <3>5. outbox'[r.row].attempts \in Nat
      <4>1. outbox'[r.row] \in Messages
        BY <1>1, <3>2
      <4> QED BY <4>1 DEF Messages
    <3>6. /\ outbox'[r.row].topic = outbox[r.row].topic
          /\ outbox[r.row].attempts <= outbox'[r.row].attempts
      BY <1>1, <3>2 DEF Grows
    <3> QED BY <3>2, <3>3, <3>4, <3>5, <3>6
  <2>2. \A r, q \in x.batch : q.row = r.row => q = r
    BY <1>3 DEF OutboxInv, Holds
  <2> QED BY <1>3, <2>1, <2>2 DEF Holds, MovesDrain
<1>6. \A r \in x.batch : r.row \in DOMAIN outbox
  BY <1>3, BatchTyped DEF OutboxInv
<1>7. ProcessedMeansEmbedded'
  <2> SUFFICES ASSUME NEW k \in DOMAIN outbox, outbox'[k].processed
               PROVE  Embedded(outbox[k].memory, outbox[k].revision)'
    BY <1>1 DEF ProcessedMeansEmbedded
  <2>1. CASE outbox[k].processed
    BY <1>1, <2>1, ProcessedStays DEF OutboxInv
  <2>2. CASE ~outbox[k].processed
    <3>1. k = i
      BY <1>1, <2>2
    <3>2. PICK m, n : m = outbox[i].memory /\ n = outbox[i].revision
      OBVIOUS
    <3>3. Embedded(m, n)'
      BY <1>1, <2>2, <3>1, <3>2, Stays
    <3>4. outbox'[k].memory = m /\ outbox'[k].revision = n
      BY <1>1, <3>1, <3>2
    <3> QED BY <3>3, <3>4 DEF Embedded
  <2> QED BY <2>1, <2>2
<1>8. ASSUME NEW k \in DOMAIN outbox PROVE Tried(k)'
  <2>1. CASE k = i
    BY <1>1, <2>1
  <2>2. CASE k # i
    BY <1>1, <2>2, AdvanceHeld, TriedStays DEF OutboxInv
  <2> QED BY <2>1, <2>2
<1>9. spent' \in SpentType
  BY SpentTyped DEF OutboxInv
<1> QED BY <1>1, <1>3, <1>4, <1>5, <1>6, <1>7, <1>8, <1>9, DrainChanges

\* An acknowledged message has its job.
LEMMA MarkProcessedKeeps ==
  ASSUME OutboxInv, NEW d \in Drains, MarkProcessed(d)
  PROVE  OutboxInv'
<1>1. drain[d].at = "mark" /\ Advance(d) /\ UNCHANGED <<memories, purged, answered, jobs, client, spent>>
  BY DEF MarkProcessed
<1>2. PICK i : i = Current(d).row
  OBVIOUS
<1>3. PICK row : row = [outbox[i] EXCEPT !.processed = TRUE]
  OBVIOUS
<1>4. i \in DOMAIN outbox
  BY <1>1, <1>2, CurrentKnown
<1>5. outbox[i] \in Messages /\ outbox[i].attempts \in Nat
  BY <1>4, RowTyped DEF OutboxInv
<1>6. /\ row \in Messages /\ row.topic = outbox[i].topic /\ row.memory = outbox[i].memory
      /\ row.revision = outbox[i].revision /\ row.attempts = outbox[i].attempts
      /\ row.dead = outbox[i].dead
  BY <1>3, <1>5 DEF Messages
<1>7. outbox' = [outbox EXCEPT ![i] = row]
  BY <1>2, <1>3 DEF MarkProcessed
<1>8. Embedded(outbox[i].memory, outbox[i].revision)
  BY <1>1, <1>2 DEF OutboxInv, Handles
<1>9. outbox'[i] = row => Tried(i)'
  BY <1>1, <1>4, <1>6, AdvanceHeld, TriedStays DEF OutboxInv
<1>10. outbox[i].attempts <= row.attempts /\ drain[d].at # "idle"
  BY <1>1, <1>5, <1>6
<1> QED BY <1>1, <1>2, <1>6, <1>7, <1>8, <1>9, <1>10, Settles

\* What a refusal does to a message.
LEMMA RefusedTyped ==
  ASSUME NEW row \in Messages, NEW last \in BOOLEAN, ~row.processed
  PROVE  /\ Refused(row, last) \in Messages
         /\ Refused(row, last).topic = row.topic /\ Refused(row, last).memory = row.memory
         /\ Refused(row, last).revision = row.revision
         /\ Refused(row, last).processed = row.processed
         /\ Refused(row, last).attempts = row.attempts + 1
         /\ Refused(row, last).dead = (row.dead \/ last)
<1>1. PICK b \in BOOLEAN : b = (row.dead \/ last)
  OBVIOUS
<1>2. PICK t \in BOOLEAN : t = FALSE
  OBVIOUS
<1>3. Refused(row, last) = [row EXCEPT !.attempts = row.attempts + 1, !.due = t, !.dead = b]
  BY <1>1, <1>2, Zenon DEF Refused
<1>4. PICK n \in Nat : n = row.attempts + 1
  BY DEF Messages
<1>5. PICK r : r = [row EXCEPT !.attempts = n, !.due = t, !.dead = b]
  OBVIOUS
<1>6. /\ r \in Messages /\ r.topic = row.topic /\ r.memory = row.memory
      /\ r.revision = row.revision /\ r.processed = row.processed
      /\ r.attempts = n /\ r.dead = b
  BY <1>5 DEF Messages
<1>7. r = Refused(row, last)
  BY <1>3, <1>4, <1>5
<1> QED BY <1>1, <1>4, <1>6, <1>7

\* A refusal that counts: the drain no longer holds the message it added one to.
LEMMA RefusalCounts ==
  ASSUME OutboxInv, NEW d \in Drains, drain[d].at # "idle", Advance(d), NEW i, i = Current(d).row,
         outbox'[i].topic = outbox[i].topic, outbox'[i].attempts = outbox[i].attempts + 1,
         outbox'[i].dead <=> outbox[i].dead \/ Current(d).attempts + 1 >= MaxAttempts
  PROVE  Tried(i)'
<1> DEFINE N == Cardinality(Drains)
           h == Cardinality(Held(i))
           s == Cardinality(Stale(i))
           a == outbox[i].attempts
<1>1. /\ i \in DOMAIN outbox /\ outbox[i].topic = "memory" /\ Current(d).attempts \in Nat
  BY CurrentKnown
<1>2. a \in Nat /\ Tried(i) /\ MaxAttempts \in Nat
  BY <1>1, RowTyped, OutboxAssumption DEF OutboxInv
<1>3. N \in Nat /\ h \in Nat /\ s \in Nat /\ h <= N /\ s <= N
  BY DrainsFinite
<1>4. PICK h1 \in Nat : h1 = Cardinality(Held(i)') /\ h1 <= h - 1
  <2>1. Held(i)' \subseteq Held(i) \ {d} /\ d \in Held(i)
    BY AdvanceHeld
  <2>2. /\ IsFiniteSet(Held(i) \ {d}) /\ Cardinality(Held(i) \ {d}) = h - 1
    BY <2>1, DrainsFinite, FS_RemoveElement
  <2>3. Cardinality(Held(i)') <= h - 1 /\ IsFiniteSet(Held(i)')
    BY <2>1, <2>2, FS_Subset
  <2>4. Cardinality(Held(i)') \in Nat
    BY <2>3, FS_CardinalityType
  <2> QED BY <2>3, <2>4
<1>5. PICK s1 \in Nat : s1 = Cardinality(Stale(i)') /\ s1 <= N - 1
                        /\ (Current(d).attempts <= MaxAttempts - 2 => s1 <= s - 1)
  <2>1. Stale(i)' \subseteq Stale(i) /\ d \notin Stale(i)'
        /\ (Current(d).attempts <= MaxAttempts - 2 => d \in Stale(i))
    BY AdvanceHeld
  <2>2. Stale(i)' \subseteq Drains \ {d}
    BY <2>1 DEF Stale
  <2>3. IsFiniteSet(Drains \ {d}) /\ Cardinality(Drains \ {d}) = N - 1
    BY DrainsFinite, FS_RemoveElement
  <2>4. Cardinality(Stale(i)') <= N - 1 /\ IsFiniteSet(Stale(i)')
    BY <2>2, <2>3, FS_Subset
  <2>5. Cardinality(Stale(i)') \in Nat
    BY <2>4, FS_CardinalityType
  <2>6. ASSUME d \in Stale(i) PROVE Cardinality(Stale(i)') <= s - 1
    <3>1. IsFiniteSet(Stale(i) \ {d}) /\ Cardinality(Stale(i) \ {d}) = s - 1
      BY <2>6, DrainsFinite, FS_RemoveElement
    <3>2. Stale(i)' \subseteq Stale(i) \ {d}
      BY <2>1
    <3> QED BY <3>1, <3>2, FS_Subset
  <2> QED BY <2>1, <2>4, <2>5, <2>6
<1>6. \/ outbox[i].dead /\ a + h <= MaxAttempts - 2 + 2 * N
      \/ ~outbox[i].dead /\ (a <= MaxAttempts - 2 \/ a + s <= MaxAttempts + N - 2)
  BY <1>2 DEF Tried
<1> HIDE DEF N, h, s, a
<1>7. outbox'[i].dead => a + 1 + h1 <= MaxAttempts - 2 + 2 * N
  BY <1>2, <1>3, <1>4, <1>6
<1>8. ~outbox'[i].dead => a + 1 + s1 <= MaxAttempts + N - 2
  BY <1>1, <1>2, <1>3, <1>5, <1>6
<1> USE DEF N, a
<1> QED BY <1>1, <1>4, <1>5, <1>7, <1>8 DEF Tried

\* A refusal is recorded.
LEMMA RecordFailureKeeps ==
  ASSUME OutboxInv, NEW d \in Drains, RecordFailure(d)
  PROVE  OutboxInv'
<1>1. drain[d].at # "idle" /\ Advance(d) /\ UNCHANGED <<memories, purged, answered, jobs, client, spent>>
  BY DEF RecordFailure
<1>2. PICK i : i = Current(d).row
  OBVIOUS
<1>3. PICK last \in BOOLEAN : last <=> Exhausted(Current(d).attempts)
  BY DEF Exhausted
<1>4. PICK row : row = Refused(outbox[i], last)
  OBVIOUS
<1>5. i \in DOMAIN outbox /\ Current(d).attempts \in Nat
  BY <1>1, <1>2, CurrentKnown
<1>6. outbox[i] \in Messages /\ outbox[i].attempts \in Nat
  BY <1>5, RowTyped DEF OutboxInv
<1>7. outbox' = [outbox EXCEPT ![i] = row]
  <2>1. outbox' = [outbox EXCEPT ![i] = Refused(outbox[i], Exhausted(Current(d).attempts))]
    BY <1>2 DEF RecordFailure
  <2>2. last = Exhausted(Current(d).attempts)
    BY <1>3 DEF Exhausted
  <2> QED BY <1>4, <2>1, <2>2
<1>8. CASE outbox[i].processed
  <2>1. row = outbox[i]
    BY <1>4, <1>8 DEF Refused
  <2>2. outbox'[i] = row => Tried(i)'
    BY <1>1, <1>5, <2>1, AdvanceHeld, TriedStays DEF OutboxInv
  <2>3. outbox[i].attempts <= row.attempts
    BY <1>6, <2>1
  <2> QED BY <1>1, <1>2, <1>6, <1>7, <1>8, <2>1, <2>2, <2>3, Settles
<1>9. CASE ~outbox[i].processed
  <2>1. /\ row \in Messages /\ row.topic = outbox[i].topic /\ row.memory = outbox[i].memory
        /\ row.revision = outbox[i].revision /\ row.processed = outbox[i].processed
        /\ row.attempts = outbox[i].attempts + 1 /\ row.dead = (outbox[i].dead \/ last)
    BY <1>3, <1>4, <1>6, <1>9, RefusedTyped
  <2>2. outbox'[i] = row => Tried(i)'
    <3> SUFFICES ASSUME outbox'[i] = row PROVE Tried(i)'
      OBVIOUS
    <3>1. outbox'[i].dead <=> outbox[i].dead \/ Current(d).attempts + 1 >= MaxAttempts
      BY <1>3, <2>1 DEF Exhausted
    <3> QED BY <1>1, <1>2, <2>1, <3>1, RefusalCounts
  <2>3. outbox[i].attempts <= row.attempts
    BY <1>6, <2>1
  <2> QED BY <1>1, <1>2, <1>7, <1>9, <2>1, <2>2, <2>3, Settles
<1> QED BY <1>8, <1>9

-----------------------------------------------------------------------------
(* The invariant                                                           *)

\* The initial state satisfies it.
LEMMA InitKeeps ==
  ASSUME Init
  PROVE  OutboxInv
<1>1. memories = <<>> /\ purged = {} /\ outbox = <<>> /\ jobs = {}
  BY DEF Init
<1>2. memories \in Seq(Seq(Keys)) /\ outbox \in Seq(Messages)
      /\ DOMAIN memories = {} /\ DOMAIN outbox = {}
  BY <1>1
<1>3. answered \in [Keys -> Nat \X Nat] /\ \A k \in Keys : answered[k] = NoAnswer
  BY DEF Init, NoAnswer
<1>4. client \in [Clients -> Calls] /\ \A c \in Clients : client[c].at = "idle"
  BY IdlePlaces DEF Init
<1>5. drain \in [Drains -> Passes] /\ \A d \in Drains : drain[d].at = "idle" /\ drain[d].batch = {}
  BY IdlePlaces DEF Init
<1>6. spent \in SpentType
  BY OutboxAssumption DEF Init, SpentType
<1>7. TypeOK
  BY <1>1, <1>2, <1>3, <1>4, <1>5, <1>6 DEF TypeOK, SpentType
<1>8. NoLostUpdate /\ AnsweredMeansAnnounced /\ ProcessedMeansEmbedded
  BY <1>2, <1>3 DEF NoLostUpdate, AnsweredMeansAnnounced, ProcessedMeansEmbedded
<1>9. \A c \in Clients : ClientKnows(c)
  BY <1>4 DEF ClientKnows
<1>10. \A d \in Drains : Holds(d) /\ Handles(d)
  BY <1>5 DEF Holds, Handles
<1> QED BY <1>2, <1>7, <1>8, <1>9, <1>10 DEF OutboxInv

\* Every step keeps it.
LEMMA NextKeeps ==
  ASSUME OutboxInv, [Next]_vars
  PROVE  OutboxInv'
<1>1. CASE UNCHANGED vars
  <2>1. Grows
    BY <1>1, QuietGrows DEF OutboxInv, vars
  <2>2. TypeOK'
    BY <1>1 DEF OutboxInv, TypeOK, IsRevision, vars
  <2>3. \A d \in Drains : Holds(d)' /\ Handles(d)'
    BY <1>1, <2>1, <2>2, DrainStays DEF OutboxInv, vars
  <2>4. ProcessedMeansEmbedded' /\ \A i \in DOMAIN outbox' : Tried(i)'
    BY <1>1, <2>1, OutboxSame DEF vars
  <2> QED BY <1>1, <2>1, <2>2, <2>3, <2>4, OutboxChanges DEF vars
<1>2. ASSUME NEW c \in Clients, Write(c) PROVE OutboxInv'
  BY <1>2, CallKeeps, SaveMemoryKeeps, SaveRevisionKeeps, AnnounceKeeps, RecordKeeps,
     ClientStopsKeeps DEF Write
<1>3. ASSUME NEW d \in Drains, DrainOnce(d) PROVE OutboxInv'
  BY <1>3, ClaimPendingKeeps, ReadActiveKeeps, MaterializeKeeps, HandlerRefusesKeeps,
     AcceptJobKeeps, MarkProcessedKeeps, RecordFailureKeeps DEF DrainOnce
<1>4. ASSUME NEW i \in DOMAIN outbox, BackoffEnds(i) PROVE OutboxInv'
  BY <1>4, BackoffEndsKeeps
<1> QED BY <1>1, <1>2, <1>3, <1>4, DrainStopsKeeps, PurgeKeeps, OtherProducerKeeps DEF Next, TimePasses

\* The inductive invariant of memory writes and of the outbox.
THEOREM OutboxInOrder == Spec => []OutboxInv
<1>1. Init => OutboxInv
  BY InitKeeps
<1>2. OutboxInv /\ [Next]_vars => OutboxInv'
  BY NextKeeps
<1> QED BY <1>1, <1>2, PTL DEF Spec

\* Every variable has its type, and whatever names a revision names one that was written.
THEOREM TypeCorrect == Spec => []TypeOK
<1>1. OutboxInv => TypeOK
  BY DEF OutboxInv
<1> QED BY <1>1, OutboxInOrder, PTL

\* Every revision was written over the one its caller had seen, with any number of
\* callers between whose reads and writes others write (save_memory_with_revision).
THEOREM UpdatesKept == Spec => []NoLostUpdate
<1>1. OutboxInv => NoLostUpdate
  BY DEF OutboxInv
<1> QED BY <1>1, OutboxInOrder, PTL

\* A key that is answered answers with a revision that is written under it and announced,
\* wherever the process stops (remember_memory, revise_memory).
THEOREM AnswersAnnounced == Spec => []AnsweredMeansAnnounced
<1>1. OutboxInv => AnsweredMeansAnnounced
  BY DEF OutboxInv
<1> QED BY <1>1, OutboxInOrder, PTL

\* A message is acknowledged only once its revision or a later one has a job or is empty,
\* or its memory is purged, with any number of drains sharing it and revisions and purges
\* coming between what the handler reads and the job it makes (drain_once, the handler).
THEOREM AcknowledgedEmbedded == Spec => []ProcessedMeansEmbedded
<1>1. OutboxInv => ProcessedMeansEmbedded
  BY DEF OutboxInv
<1> QED BY <1>1, OutboxInOrder, PTL

\* The refusals of a message are bounded by the limit and twice the number of drains,
\* although each counts from the claim it holds (drain_once, record_failure).
THEOREM RefusalsEnd == Spec => []RefusalsBounded
<1>1. ASSUME OutboxInv PROVE RefusalsBounded
  <2> SUFFICES ASSUME NEW i \in DOMAIN outbox
               PROVE  outbox[i].attempts <=
                        IF outbox[i].topic = "memory" THEN MaxAttempts - 2 + 2 * Cardinality(Drains)
                        ELSE 0
    BY DEF RefusalsBounded
  <2>1. Tried(i) /\ outbox[i].attempts \in Nat /\ outbox[i].topic \in {"memory", "other"}
    BY <1>1, RowTyped DEF OutboxInv
  <2>2. MaxAttempts \in Nat
    BY OutboxAssumption
  <2>3. Cardinality(Drains) \in Nat /\ Cardinality(Held(i)) \in Nat /\ Cardinality(Stale(i)) \in Nat
    BY DrainsFinite
  <2> QED BY <2>1, <2>2, <2>3 DEF Tried
<1> QED BY <1>1, OutboxInOrder, PTL
=============================================================================
