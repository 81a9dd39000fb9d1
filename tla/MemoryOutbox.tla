---------------------------- MODULE MemoryOutbox ----------------------------
(***************************************************************************)
(* Memory writes and the outbox: MemoryService (remember_memory,           *)
(* revise_memory and their idempotency keys), the purge of a memory, the   *)
(* outbox table, the dispatchers that drain it, and the handler that turns *)
(* a written memory into an embedding job.                                 *)
(*                                                                         *)
(* A repository call is one transaction and one step; a process may stop   *)
(* between two.  Messages of other producers have topics no handler        *)
(* claims, and an accepted job announces itself on one of them.            *)
(*                                                                         *)
(* Left out: classification, sources, the search document (written in the  *)
(* revision's transaction), and the sealing of the content the handler     *)
(* does on the way.  A message carries the time its call began and the     *)
(* model lists it when it is saved, which puts it after messages it might  *)
(* have gone before.                                                       *)
(***************************************************************************)
EXTENDS Integers, FiniteSets, Sequences

CONSTANTS
    Keys,           \* the idempotency keys, one for each logical write
    Remembers,      \* the keys of remember_memory; the others revise memory 1
    Expected,       \* expected_revision of each revising key
    Blank,          \* the keys whose content is empty
    Clients,        \* the processes serving writes
    Drains,         \* the processes draining the outbox
    Batch,          \* OUTBOX_BATCH
    MaxAttempts,    \* MAX_DELIVERY_ATTEMPTS
    MaxCalls,       \* bound on the calls made
    MaxOthers,      \* bound on the messages of other producers
    MaxPurges,      \* bound on the memories purged
    MaxFaults       \* bound on stops

ASSUME OutboxAssumption ==
    /\ Remembers \subseteq Keys
    /\ Expected \in [Keys \ Remembers -> Nat \ {0}]
    /\ Blank \subseteq Keys
    /\ Batch \in Nat \ {0}
    /\ MaxAttempts \in Nat \ {0, 1}
    /\ IsFiniteSet(Drains)
    /\ MaxCalls \in Nat /\ MaxOthers \in Nat /\ MaxPurges \in Nat /\ MaxFaults \in Nat

VARIABLES
    memories,       \* the revisions each memory was given, as the keys that wrote them
    purged,         \* the memories whose rows were deleted
    answered,       \* idempotency_keys: the memory and revision a key answers with
    outbox,         \* the outbox rows, oldest first
    jobs,           \* the <<memory, revision>> pairs a delivery job was accepted for
    client,         \* what each client's call is doing
    drain,          \* what each drain is doing
    spent           \* how much of each bound is used

vars == <<memories, purged, answered, outbox, jobs, client, drain, spent>>

NoAnswer == <<0, 0>>

IdleClient == [at |-> "idle", key |-> "none", memory |-> 0, revision |-> 0]

IdleDrain == [at |-> "idle", batch |-> {}, revision |-> 0]

\* OutboxMessage::new: unattempted and due at once
Message(topic, memory, revision) ==
    [topic |-> topic, memory |-> memory, revision |-> revision,
     processed |-> FALSE, dead |-> FALSE, attempts |-> 0, due |-> TRUE]

Unhandled == Message("other", 0, 0)

Init ==
    /\ memories = <<>>
    /\ purged = {}
    /\ answered = [k \in Keys |-> NoAnswer]
    /\ outbox = <<>>
    /\ jobs = {}
    /\ client = [c \in Clients |-> IdleClient]
    /\ drain = [d \in Drains |-> IdleDrain]
    /\ spent = [calls |-> 0, others |-> 0, purges |-> 0, faults |-> 0]

-----------------------------------------------------------------------------
(* MemoryService                                                           *)

\* expected_revision is compared with the active revision, before the write and,
\* as a compare-and-set, in it; a memory without its row has none
CanRevise(k) == Len(memories) > 0 /\ 1 \notin purged /\ Len(memories[1]) = Expected[k]

\* check_idempotency, and for a revision the reads and the check that follow.  A
\* key that is answered is replayed, which writes nothing.
Call(c, k) ==
    /\ client[c] = IdleClient
    /\ spent.calls < MaxCalls
    /\ answered[k] = NoAnswer
    /\ k \notin Remembers => CanRevise(k)
    /\ client' = [client EXCEPT ![c] = [IdleClient EXCEPT !.at = "save", !.key = k]]
    /\ spent' = [spent EXCEPT !.calls = @ + 1]
    /\ UNCHANGED <<memories, purged, answered, outbox, jobs, drain>>

\* the first revision of a memory under an id minted for the call
SaveMemory(c) ==
    /\ client[c].at = "save" /\ client[c].key \in Remembers
    /\ memories' = Append(memories, <<client[c].key>>)
    /\ client' = [client EXCEPT ![c].at = "announce",
                                ![c].memory = Len(memories) + 1, ![c].revision = 1]
    /\ UNCHANGED <<purged, answered, outbox, jobs, drain, spent>>

\* appends to whatever is there when it writes
MutSaveRevision(c) ==
    /\ client[c].at = "save" /\ client[c].key \notin Remembers
    /\ memories' = [memories EXCEPT ![1] = Append(@, client[c].key)]
    /\ client' = [client EXCEPT ![c].at = "announce",
                                ![c].memory = 1, ![c].revision = Len(memories[1]) + 1]
    /\ UNCHANGED <<purged, answered, outbox, jobs, drain, spent>>

\* save_memory_with_revision of a later revision, or RevisionConflict
SaveRevision(c) ==
    LET k == client[c].key IN
    /\ client[c].at = "save" /\ k \notin Remembers
    /\ IF CanRevise(k)
       THEN /\ memories' = [memories EXCEPT ![1] = Append(@, k)]
            /\ client' = [client EXCEPT ![c].at = "announce",
                                        ![c].memory = 1, ![c].revision = Expected[k] + 1]
       ELSE /\ client' = [client EXCEPT ![c] = IdleClient]
            /\ UNCHANGED memories
    /\ UNCHANGED <<purged, answered, outbox, jobs, drain, spent>>

\* "memory.created" or "memory.revised", in a transaction of its own
Announce(c) ==
    /\ client[c].at = "announce"
    /\ outbox' = Append(outbox, Message("memory", client[c].memory, client[c].revision))
    /\ client' = [client EXCEPT ![c].at = "record"]
    /\ UNCHANGED <<memories, purged, answered, jobs, drain, spent>>

\* answers a key before its message is saved
MutRecord(c) ==
    /\ client[c].at \in {"announce", "record"}
    /\ answered' = [answered EXCEPT ![client[c].key] =
           IF @ = NoAnswer THEN <<client[c].memory, client[c].revision>> ELSE @]
    /\ client' = [client EXCEPT ![c] = IdleClient]
    /\ UNCHANGED <<memories, purged, outbox, jobs, drain, spent>>

\* save_idempotency: ON CONFLICT DO NOTHING
Record(c) ==
    /\ client[c].at = "record"
    /\ answered' = [answered EXCEPT ![client[c].key] =
           IF @ = NoAnswer THEN <<client[c].memory, client[c].revision>> ELSE @]
    /\ client' = [client EXCEPT ![c] = IdleClient]
    /\ UNCHANGED <<memories, purged, outbox, jobs, drain, spent>>

\* The server stops, or a call fails: what was committed stays.
ClientStops(c) ==
    /\ client[c] # IdleClient
    /\ spent.faults < MaxFaults
    /\ client' = [client EXCEPT ![c] = IdleClient]
    /\ spent' = [spent EXCEPT !.faults = @ + 1]
    /\ UNCHANGED <<memories, purged, answered, outbox, jobs, drain>>

\* purge_memory: the revisions and the row of a memory go in one transaction, which
\* leaves its messages and its answers
Purge(m) ==
    /\ m \notin purged
    /\ spent.purges < MaxPurges
    /\ purged' = purged \cup {m}
    /\ spent' = [spent EXCEPT !.purges = @ + 1]
    /\ UNCHANGED <<memories, answered, outbox, jobs, client, drain>>

\* A command of another component writes a message with its mutation.
OtherProducer ==
    /\ spent.others < MaxOthers
    /\ outbox' = Append(outbox, Unhandled)
    /\ spent' = [spent EXCEPT !.others = @ + 1]
    /\ UNCHANGED <<memories, purged, answered, jobs, client, drain>>

-----------------------------------------------------------------------------
(* OutboxDispatcher::drain_once                                            *)

\* takes a message that was tried for one that is being tried
MutClaimable(i) == ~outbox[i].processed /\ ~outbox[i].dead /\ outbox[i].attempts = 0

Claimable(i) == ~outbox[i].processed /\ ~outbox[i].dead /\ outbox[i].due

Older(i) == {j \in 1 .. i - 1 : Claimable(j)}

\* claim_pending: the oldest Batch rows that may be claimed, those of topics no
\* handler claims included
Claimed(i) == Claimable(i) /\ Cardinality(Older(i)) < Batch

\* the rows of a claim that have a handler, with their attempts when claimed
Pending ==
    {[row |-> i, attempts |-> outbox[i].attempts] :
        i \in {j \in DOMAIN outbox : Claimed(j) /\ outbox[j].topic = "memory"}}

ClaimPending(d) ==
    /\ drain[d] = IdleDrain
    /\ Pending # {}
    /\ drain' = [drain EXCEPT ![d] = [at |-> "handle", batch |-> Pending, revision |-> 0]]
    /\ UNCHANGED <<memories, purged, answered, outbox, jobs, client, spent>>

\* the messages of a batch are handled oldest first
Current(d) == CHOOSE r \in drain[d].batch : \A q \in drain[d].batch : r.row <= q.row

\* the drain goes on with the next message of its batch
Advance(d) ==
    LET left == drain[d].batch \ {Current(d)} IN
    drain' = [drain EXCEPT ![d] = IF left = {} THEN IdleDrain
                                  ELSE [at |-> "handle", batch |-> left, revision |-> 0]]

\* active_registration and active_revision: the revision the memory has now.  A memory
\* that is gone leaves nothing to embed, and the message is done.
ReadActive(d) ==
    LET m == outbox[Current(d).row].memory IN
    /\ drain[d].at = "handle"
    /\ drain' = [drain EXCEPT
           ![d].at = IF m \in purged THEN "mark" ELSE "materialize",
           ![d].revision = IF m \in purged THEN 0 ELSE Len(memories[m])]
    /\ UNCHANGED <<memories, purged, answered, outbox, jobs, client, spent>>

\* materialize_revision reads the content of that revision, which may be gone by now,
\* or empty: the message is done without a job
Materialize(d) ==
    LET m == outbox[Current(d).row].memory
        nothing == m \in purged \/ memories[m][drain[d].revision] \in Blank
    IN
    /\ drain[d].at = "materialize"
    /\ drain' = [drain EXCEPT ![d].at = IF nothing THEN "mark" ELSE "accept",
                              ![d].revision = IF nothing THEN 0 ELSE @]
    /\ UNCHANGED <<memories, purged, answered, outbox, jobs, client, spent>>

\* No space is active, the content cannot be sealed, or the job is refused.
HandlerRefuses(d) ==
    /\ drain[d].at \in {"handle", "materialize", "accept"}
    /\ drain' = [drain EXCEPT ![d].at = "fail", ![d].revision = 0]
    /\ UNCHANGED <<memories, purged, answered, outbox, jobs, client, spent>>

\* create_job: the job under a fresh id, its message in the same transaction, whether
\* or not the subject has a job; the evidence, written after it, may fail
AcceptJob(d) ==
    /\ drain[d].at = "accept"
    /\ jobs' = jobs \cup {<<outbox[Current(d).row].memory, drain[d].revision>>}
    /\ outbox' = Append(outbox, Unhandled)
    /\ \E evidence \in {"mark", "fail"} :
           drain' = [drain EXCEPT ![d].at = evidence, ![d].revision = 0]
    /\ UNCHANGED <<memories, purged, answered, client, spent>>

\* acknowledges before the handler is done
MutMarkProcessed(d) ==
    /\ drain[d].at \in {"handle", "mark"}
    /\ outbox' = [outbox EXCEPT ![Current(d).row].processed = TRUE]
    /\ Advance(d)
    /\ UNCHANGED <<memories, purged, answered, jobs, client, spent>>

\* mark_processed, dead letter or not
MarkProcessed(d) ==
    /\ drain[d].at = "mark"
    /\ outbox' = [outbox EXCEPT ![Current(d).row].processed = TRUE]
    /\ Advance(d)
    /\ UNCHANGED <<memories, purged, answered, jobs, client, spent>>

\* one attempt too many
MutExhausted(attempts) == attempts + 1 > MaxAttempts

\* whether a refusal is the last, by the attempts the message had when claimed
Exhausted(attempts) == attempts + 1 >= MaxAttempts

\* record_failure: counts on the row, and only on one that is not processed
Refused(row, last) ==
    IF row.processed THEN row
    ELSE [row EXCEPT !.attempts = @ + 1, !.due = FALSE, !.dead = @ \/ last]

RecordFailure(d) ==
    /\ drain[d].at = "fail"
    /\ outbox' = [outbox EXCEPT ![Current(d).row] = Refused(@, Exhausted(Current(d).attempts))]
    /\ Advance(d)
    /\ UNCHANGED <<memories, purged, answered, jobs, client, spent>>

\* The worker stops, or a repository error ends the pass.
DrainStops(d) ==
    /\ drain[d] # IdleDrain
    /\ spent.faults < MaxFaults
    /\ drain' = [drain EXCEPT ![d] = IdleDrain]
    /\ spent' = [spent EXCEPT !.faults = @ + 1]
    /\ UNCHANGED <<memories, purged, answered, outbox, jobs, client>>

\* next_attempt_at, set from retry_delay, passes
BackoffEnds(i) ==
    /\ ~outbox[i].due /\ ~outbox[i].processed /\ ~outbox[i].dead
    /\ outbox' = [outbox EXCEPT ![i].due = TRUE]
    /\ UNCHANGED <<memories, purged, answered, jobs, client, drain, spent>>

-----------------------------------------------------------------------------
Write(c) ==
    \/ \E k \in Keys : Call(c, k)
    \/ SaveMemory(c) \/ SaveRevision(c) \/ Announce(c) \/ Record(c) \/ ClientStops(c)

DrainOnce(d) ==
    \/ ClaimPending(d) \/ ReadActive(d) \/ Materialize(d) \/ HandlerRefuses(d)
    \/ AcceptJob(d) \/ MarkProcessed(d) \/ RecordFailure(d)

TimePasses == \E i \in DOMAIN outbox : BackoffEnds(i)

Next ==
    \/ \E c \in Clients : Write(c)
    \/ \E d \in Drains : DrainOnce(d) \/ DrainStops(d)
    \/ \E m \in DOMAIN memories : Purge(m)
    \/ OtherProducer
    \/ TimePasses

Spec == Init /\ [][Next]_vars

\* The worker's loop drains without end, and backoffs end.
Fairness == WF_vars(TimePasses) /\ \A d \in Drains : WF_vars(DrainOnce(d))

FairSpec == Spec /\ Fairness

-----------------------------------------------------------------------------
(* Properties                                                              *)

IsRevision(m, n) == m \in DOMAIN memories /\ n \in DOMAIN memories[m]

Messages ==
    [topic : {"memory", "other"}, memory : Nat, revision : Nat, processed : BOOLEAN,
     dead : BOOLEAN, attempts : Nat, due : BOOLEAN]

Calls ==
    [at : {"idle", "save", "announce", "record"}, key : Keys \cup {"none"},
     memory : Nat, revision : Nat]

Passes ==
    [at : {"idle", "handle", "materialize", "accept", "mark", "fail"},
     batch : SUBSET [row : Nat, attempts : Nat], revision : Nat]

\* Every variable has its type, and whatever names a revision names one that was written.
TypeOK ==
    /\ memories \in Seq(Seq(Keys))
    /\ purged \subseteq DOMAIN memories
    /\ answered \in [Keys -> Nat \X Nat]
    /\ \A k \in Keys : answered[k] # NoAnswer => IsRevision(answered[k][1], answered[k][2])
    /\ outbox \in Seq(Messages)
    /\ \A i \in DOMAIN outbox :
           outbox[i].topic = "memory" => IsRevision(outbox[i].memory, outbox[i].revision)
    /\ \A job \in jobs : IsRevision(job[1], job[2])
    /\ client \in [Clients -> Calls]
    /\ drain \in [Drains -> Passes]
    /\ \A d \in Drains : \A r \in drain[d].batch : r.row \in DOMAIN outbox
    /\ spent \in [calls : 0 .. MaxCalls, others : 0 .. MaxOthers, purges : 0 .. MaxPurges,
                 faults : 0 .. MaxFaults]

\* Every revision was written over the one its caller had seen, so no update is lost
\* and no retry of a revision writes twice, although reads, checks and the write are
\* transactions of their own (revise_memory, save_memory_with_revision).
NoLostUpdate ==
    \A m \in DOMAIN memories : \A n \in DOMAIN memories[m] :
        IF n = 1 THEN memories[m][n] \in Remembers
        ELSE memories[m][n] \notin Remembers /\ Expected[memories[m][n]] = n - 1

\* A key is answered only once the revision it answers with is written and announced,
\* although three transactions do it and the process may stop between them
\* (remember_memory, revise_memory).
AnsweredMeansAnnounced ==
    \A k \in Keys :
        answered[k] # NoAnswer =>
            /\ memories[answered[k][1]][answered[k][2]] = k
            /\ \E i \in DOMAIN outbox :
                   /\ outbox[i].topic = "memory"
                   /\ <<outbox[i].memory, outbox[i].revision>> = answered[k]

\* a revision or a later one has its job or nothing to embed, or the memory is purged
Embedded(m, n) ==
    \/ \E job \in jobs : job[1] = m /\ job[2] >= n
    \/ /\ m \in DOMAIN memories
       /\ \E l \in DOMAIN memories[m] : l >= n /\ memories[m][l] \in Blank
    \/ m \in purged

\* A message is acknowledged only once the revision it announces needs no embedding or
\* a job does it: a job was accepted for it or a later one, one of these is empty, or the
\* memory is purged.  So it is although drains share messages, the handler reads the
\* revision, its content and makes the job one after the other, and the memory is revised
\* or purged between (drain_once, PgGovernedMemoryEmbeddingHandler::handle).
ProcessedMeansEmbedded ==
    \A i \in DOMAIN outbox :
        outbox[i].processed => Embedded(outbox[i].memory, outbox[i].revision)

\* A message is refused no oftener than the limit and what drains that counted from a
\* stale claim add to it, and what has no handler is never refused (drain_once,
\* record_failure).
RefusalsBounded ==
    \A i \in DOMAIN outbox :
        outbox[i].attempts <=
            IF outbox[i].topic = "memory" THEN MaxAttempts - 2 + 2 * Cardinality(Drains) ELSE 0

\* the message that announces a revision is neither acknowledged nor set aside
Open(m, n) ==
    \E i \in DOMAIN outbox :
        /\ outbox[i].topic = "memory" /\ outbox[i].memory = m /\ outbox[i].revision = n
        /\ ~outbox[i].processed /\ ~outbox[i].dead

\* Messages without a handler fill every batch.
Crowded == Cardinality({i \in DOMAIN outbox : outbox[i].topic = "other"}) >= Batch

\* A message with a handler is acknowledged or set aside in the end, whatever fails
\* before it, unless messages without one have come to fill a batch: those are never
\* marked and stay the oldest (claim_pending, drain_once).
SettledUnlessCrowded ==
    \A m, n \in 1 .. MaxCalls : Open(m, n) ~> (~Open(m, n) \/ Crowded)
=============================================================================
