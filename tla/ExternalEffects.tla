--------------------------- MODULE ExternalEffects ---------------------------
(***************************************************************************)
(* External effects of one workspace: the service that performs an effect, *)
(* the append-only evidence it leaves in PostgreSQL, the world the effect  *)
(* touches, and the sweepers that later find out what became of it.        *)
(*                                                                         *)
(* Every repository call is one transaction and one step here.  The        *)
(* process that performs an effect may stop between any two of them, and   *)
(* so may a sweeper; the call to the provider and the read-back of it are  *)
(* steps of their own, and the provider may act on a request long after    *)
(* the caller stopped waiting.                                             *)
(*                                                                         *)
(* Time is abstracted to the comparisons the code makes: whether a         *)
(* dispatch is past its stated deadline (`overdue`), whether its owner's   *)
(* presence has lapsed (`lapsed`), and which rows are still younger than   *)
(* the one-minute cutoffs of `sweep` (`recent`).  Both cutoffs are one     *)
(* minute, so the query's clause for a failure superseded by a later       *)
(* reconciliation never decides anything and has no counterpart here.      *)
(***************************************************************************)
EXTENDS Naturals, Sequences, FiniteSets

CONSTANTS
    Effects,        \* the effects that may be performed
    Sweepers,       \* recovery services: one per worker process
    Routed,         \* effects whose adapter has a read-back route that answers
    Reported,       \* effects whose dispatch owner registers its presence
    Faults,         \* what may go wrong: "abandon", "stop", "slow"
    Batch,          \* RECONCILIATION_BATCH; 8 in the code
    MaxSettled      \* bound: settled reconciliations

ASSUME EffectConstants ==
    /\ IsFiniteSet(Effects)
    /\ Routed \subseteq Effects
    /\ Reported \subseteq Effects
    /\ Faults \subseteq {"abandon", "stop", "slow"}
    /\ Batch \in Nat \ {0}
    /\ MaxSettled \in Nat \ {0}

VARIABLES
    performer,  \* how far `perform` has come with each effect
    world,      \* what the provider has done about it
    receipt,    \* external_effect_receipts.outcome_status
    lifecycle,  \* external_effect_lifecycle_transitions, by ordinal
    overdue,    \* dispatch_expires_at is in the past
    lapsed,     \* the dispatch owner stopped, or stopped reporting
    latest,     \* outcome of the latest external_reconciliations row, by branch
    settled,    \* the external_reconciliations rows that settle, oldest first
    recent,     \* which rows are younger than the retry cutoffs
    place,      \* each effect's place in the order of candidate_at, or 0
    sweeper     \* each sweeper's position and the candidates it still holds

evidence == <<receipt, lifecycle, latest, settled>>
clocks == <<overdue, lapsed>>
vars == <<performer, world, receipt, lifecycle, overdue, lapsed, latest, settled,
          recent, place, sweeper>>

Answers == {"acknowledged", "failed", "unknown"}
Settling == {"confirmed", "not_applied"}
Outcomes == Settling \cup {"inconclusive"}
Branches == {"lost", "receipt"}
Marks == Branches \cup {"adopted", "failed"}

\* The pairs the table's check constraints admit.
Transitions ==
    [status : {"prepared"}, cause : {"intent_recorded"}]
    \cup [status : {"authorized"}, cause : {"authorization_recorded"}]
    \cup [status : {"dispatching"}, cause : {"dispatch_started"}]
    \cup [status : Answers, cause : {"receipt_recorded"}]
    \cup [status : {"unknown"}, cause : {"dispatch_lost"}]
    \cup [status : {"reconciling"}, cause : {"outcome_settled"}]
    \cup [status : {"confirmed", "failed"}, cause : {"outcome_delivered"}]

Reconciliations ==
    [effect : Effects, branch : Branches, outcome : Settling, notified : BOOLEAN]

Candidates == [effect : Effects, branch : Branches, adopted : BOOLEAN, place : Nat]

SweeperStates ==
    [pc : {"idle", "begin", "ask", "unreachable"} \cup Outcomes,
     todo : SUBSET Candidates,
     old : BOOLEAN]

IdleSweeper == [pc |-> "idle", todo |-> {}, old |-> FALSE]

Init ==
    /\ performer = [e \in Effects |-> "idle"]
    /\ world = [e \in Effects |-> "untouched"]
    /\ receipt = [e \in Effects |-> "none"]
    /\ lifecycle = [e \in Effects |-> << >>]
    /\ overdue = [e \in Effects |-> FALSE]
    /\ lapsed = [e \in Effects |-> FALSE]
    /\ latest = [e \in Effects |-> [b \in Branches |-> "none"]]
    /\ settled = << >>
    /\ recent = [e \in Effects |-> {}]
    /\ place = [e \in Effects |-> 0]
    /\ sweeper = [x \in Sweepers |-> IdleSweeper]

-----------------------------------------------------------------------------
(* The evidence.                                                           *)

Row(status, cause) == [status |-> status, cause |-> cause]

Recorded(e, cause) == \E i \in DOMAIN lifecycle[e] : lifecycle[e][i].cause = cause

IsSettled(e) == \E i \in DOMAIN settled : settled[i].effect = e

Newest(e) == lifecycle[e][Len(lifecycle[e])]

\* One more row of external_effect_lifecycle_transitions.
Appended(e, status, cause) ==
    [lifecycle EXCEPT ![e] = Append(lifecycle[e], Row(status, cause))]

MutFindLifecycleStatus(e) == Newest(e).status

\* find_lifecycle_status: the newest row, save that a dispatch_lost row does
\* not count once a receipt is recorded.
FindLifecycleStatus(e) ==
    LET counts(i) == \/ lifecycle[e][i].cause # "dispatch_lost"
                     \/ ~Recorded(e, "receipt_recorded")
        n == CHOOSE i \in DOMAIN lifecycle[e] :
                /\ counts(i)
                /\ \A j \in DOMAIN lifecycle[e] : counts(j) => j <= i
    IN  lifecycle[e][n].status

\* An effect goes to the end of the order of candidate_at when a row that
\* carries a later time becomes the one that makes it a candidate.
Requeued(e) ==
    [f \in Effects |->
        CASE f = e -> Cardinality({g \in Effects : g = e \/ place[g] > 0})
          [] f # e /\ 0 < place[e] /\ place[e] < place[f] -> place[f] - 1
          [] OTHER -> place[f]]

-----------------------------------------------------------------------------
(* PerformExternalEffectService::perform, one step per transaction or call *)

InsertIntent(e) ==
    /\ performer[e] = "idle"
    /\ performer' = [performer EXCEPT ![e] = "intended"]
    /\ lifecycle' = Appended(e, "prepared", "intent_recorded")
    /\ UNCHANGED <<world, receipt, clocks, latest, settled, recent, place, sweeper>>

\* record_authorization keeps a refusal too, without a transition, and
\* `authorize` then returns the error.
Authorize(e) ==
    /\ performer[e] = "intended"
    /\ \/ /\ performer' = [performer EXCEPT ![e] = "authorized"]
          /\ lifecycle' = Appended(e, "authorized", "authorization_recorded")
       \/ /\ performer' = [performer EXCEPT ![e] = "done"]
          /\ UNCHANGED lifecycle
    /\ UNCHANGED <<world, receipt, clocks, latest, settled, recent, place, sweeper>>

\* record_dispatch_started, with the owner and the deadline.
RecordDispatch(e) ==
    /\ performer[e] = "authorized"
    /\ performer' = [performer EXCEPT ![e] = "dispatching"]
    /\ lifecycle' = Appended(e, "dispatching", "dispatch_started")
    /\ place' = Requeued(e)
    /\ UNCHANGED <<world, receipt, clocks, latest, settled, recent, sweeper>>

CallAdapter(e) ==
    /\ performer[e] = "dispatching"
    /\ performer' = [performer EXCEPT ![e] = "calling"]
    /\ world' = [world EXCEPT ![e] = "inflight"]
    /\ UNCHANGED <<evidence, clocks, recent, place, sweeper>>

\* The provider acts on the request, or turns it down, whether or not anyone
\* still waits for it.
Land(e) ==
    /\ world[e] = "inflight"
    /\ \E w \in {"applied", "refused"} : world' = [world EXCEPT ![e] = w]
    /\ UNCHANGED <<performer, evidence, clocks, recent, place, sweeper>>

\* What HttpWebhookEffectAdapter::dispatch makes of the response: a 4xx or a
\* connection never made says nothing happened, a success says only that the
\* request was accepted, and everything else says nothing.
AdapterReturns(e) ==
    /\ performer[e] = "calling"
    /\ \E a \in Answers :
          /\ a = "failed" => world[e] # "applied"
          /\ a = "acknowledged" => world[e] # "refused"
          /\ performer' = [performer EXCEPT ![e] = a]
          /\ world' = IF a = "failed" THEN [world EXCEPT ![e] = "refused"] ELSE world
    /\ UNCHANGED <<evidence, clocks, recent, place, sweeper>>

\* insert_receipt takes its ordinal before it commits, so rows of others that
\* commit in between come after it in the order of ordinals.  How many do is
\* left open, back to the dispatch itself.
InsertReceipt(e) ==
    /\ performer[e] \in Answers
    /\ performer' = [performer EXCEPT ![e] = "done"]
    /\ receipt' = [receipt EXCEPT ![e] = performer[e]]
    /\ \E i \in 3 .. Len(lifecycle[e]) :
          lifecycle' = [lifecycle EXCEPT ![e] =
              Append(SubSeq(lifecycle[e], 1, i), Row(performer[e], "receipt_recorded"))
                \o SubSeq(lifecycle[e], i + 1, Len(lifecycle[e]))]
    /\ place' = Requeued(e)
    /\ UNCHANGED <<world, clocks, latest, settled, recent, sweeper>>

\* The process dies, a transaction fails, the dispatch is rejected before it
\* is recorded, or the adapter returns an error: `perform` ends where it is.
Abandon(e) ==
    /\ "abandon" \in Faults
    /\ performer[e] \notin {"idle", "done"}
    /\ performer' = [performer EXCEPT ![e] = "done"]
    /\ UNCHANGED <<world, evidence, clocks, recent, place, sweeper>>

-----------------------------------------------------------------------------
(* Time, and the presence of the dispatch owner.                           *)

DeadlinePasses(e) ==
    /\ Recorded(e, "dispatch_started")
    /\ ~overdue[e]
    /\ overdue' = [overdue EXCEPT ![e] = TRUE]
    /\ UNCHANGED <<performer, world, evidence, lapsed, recent, place, sweeper>>

\* clear_worker_presence, or no report for WORKER_PRESENCE_LAPSE_AFTER.  A
\* lapsed process may still be running.
OwnerLapses(e) ==
    /\ e \in Reported /\ ~lapsed[e]
    /\ lapsed' = [lapsed EXCEPT ![e] = TRUE]
    /\ UNCHANGED <<performer, world, evidence, overdue, recent, place, sweeper>>

\* record_worker_presence makes a lapsed or stopped row live again.
OwnerReports(e) ==
    /\ lapsed[e]
    /\ lapsed' = [lapsed EXCEPT ![e] = FALSE]
    /\ UNCHANGED <<performer, world, evidence, overdue, recent, place, sweeper>>

\* A row grows older than the cutoff that compares it.
Elapse(e) ==
    /\ \E m \in recent[e] : recent' = [recent EXCEPT ![e] = @ \ {m}]
    /\ UNCHANGED <<performer, world, evidence, clocks, place, sweeper>>

\* The time a sweep began, which stamps what it writes, grows that old too.
SweepAges(x) ==
    /\ "slow" \in Faults
    /\ sweeper[x].pc # "idle" /\ ~sweeper[x].old
    /\ sweeper' = [sweeper EXCEPT ![x].old = TRUE]
    /\ UNCHANGED <<performer, world, evidence, clocks, recent, place>>

-----------------------------------------------------------------------------
(* RECONCILIATION_CANDIDATES_SQL.  The parameters are the facts that only  *)
(* time changes: whether the dispatch counts as abandoned, and the rows    *)
(* too recent to ask again about.                                          *)

MutLostCandidate(e, abandoned, young) ==
    /\ receipt[e] = "none"
    /\ lifecycle[e] # << >>
    /\ Newest(e).status = "dispatching" /\ abandoned
    /\ latest[e]["lost"] \notin Settling
    /\ young \cap {"lost", "failed"} = {}

\* The second branch: a dispatch with no receipt, and nothing recorded after
\* it or after its adoption.
LostCandidate(e, abandoned, young) ==
    /\ receipt[e] = "none"
    /\ lifecycle[e] # << >>
    /\ \/ Newest(e).status = "dispatching" /\ abandoned
       \/ Newest(e).cause = "dispatch_lost" /\ "adopted" \notin young
    /\ latest[e]["lost"] \notin Settling
    /\ young \cap {"lost", "failed"} = {}

\* The first branch: a receipt that settles nothing.
ReceiptCandidate(e, young) ==
    /\ receipt[e] \in {"acknowledged", "unknown"}
    /\ latest[e]["receipt"] \notin Settling
    /\ young \cap {"receipt", "failed"} = {}

Candidate(e) ==
    \/ LostCandidate(e, overdue[e] \/ lapsed[e], recent[e])
    \/ ReceiptCandidate(e, recent[e])

\* One that will be a candidate when enough time has passed.
Recoverable(e) == LostCandidate(e, TRUE, {}) \/ ReceiptCandidate(e, {})

AsCandidate(e) ==
    [effect |-> e,
     branch |-> IF receipt[e] = "none" THEN "lost" ELSE "receipt",
     adopted |-> receipt[e] = "none" /\ Newest(e).cause = "dispatch_lost",
     place |-> place[e]]

\* ORDER BY candidate_at LIMIT Batch.
Oldest ==
    {e \in Effects :
        /\ Candidate(e)
        /\ Cardinality({f \in Effects : Candidate(f) /\ place[f] < place[e]}) < Batch}

-----------------------------------------------------------------------------
(* ExternalEffectRecoveryService::run                                      *)

\* A sweep that finds nothing leaves no trace.
Discover(x) ==
    /\ sweeper[x].pc = "idle"
    /\ Oldest # {}
    /\ sweeper' = [sweeper EXCEPT ![x] =
          [pc |-> "begin", todo |-> {AsCandidate(e) : e \in Oldest}, old |-> FALSE]]
    /\ UNCHANGED <<performer, world, evidence, clocks, recent, place>>

\* The candidate the sweep is at: of those it still holds, the oldest.
Held(x) == CHOOSE c \in sweeper[x].todo : \A k \in sweeper[x].todo : c.place <= k.place

\* On to the next candidate of the sweep, or to its end.
Continued(x) ==
    [sweeper EXCEPT ![x] =
        IF sweeper[x].todo = {Held(x)}
          THEN IdleSweeper
          ELSE [pc |-> "begin", todo |-> sweeper[x].todo \ {Held(x)}, old |-> sweeper[x].old]]

\* What the sweep writes is stamped with the time the sweep began.
Stamped(x, e, mark) ==
    IF sweeper[x].old THEN recent ELSE [recent EXCEPT ![e] = @ \cup {mark}]

NeedsAdoption(x) ==
    /\ sweeper[x].pc = "begin"
    /\ Held(x).branch = "lost" /\ ~Held(x).adopted

\* adopt_lost_dispatch: the unique key on the dispatch lets one adoption in.
\* Whether a receipt has arrived meanwhile is not asked.
Adopt(x) ==
    LET e == Held(x).effect IN
    /\ NeedsAdoption(x)
    /\ ~Recorded(e, "dispatch_lost")
    /\ lifecycle' = Appended(e, "unknown", "dispatch_lost")
    /\ recent' = Stamped(x, e, "adopted")
    /\ place' = IF receipt[e] = "none" THEN Requeued(e) ELSE place
    /\ sweeper' = [sweeper EXCEPT ![x].pc = "ask"]
    /\ UNCHANGED <<performer, world, receipt, clocks, latest, settled>>

MutAlreadyAdopted(x) ==
    /\ NeedsAdoption(x)
    /\ Recorded(Held(x).effect, "dispatch_lost")
    /\ sweeper' = [sweeper EXCEPT ![x].pc = "ask"]
    /\ UNCHANGED <<performer, world, evidence, clocks, recent, place>>

\* Another sweeper owns the attempt: reconcile_candidate returns None.
AlreadyAdopted(x) ==
    /\ NeedsAdoption(x)
    /\ Recorded(Held(x).effect, "dispatch_lost")
    /\ sweeper' = Continued(x)
    /\ UNCHANGED <<performer, world, evidence, clocks, recent, place>>

\* The read-back.  The provider reports what it sees now, which may not yet
\* include a request still on its way, or cannot tell, or is not reached.
Observe(x) ==
    LET e == Held(x).effect IN
    /\ sweeper[x].pc = "ask" \/ (sweeper[x].pc = "begin" /\ ~NeedsAdoption(x))
    /\ \E a \in Outcomes \cup {"unreachable"} :
          /\ e \notin Routed => a = "unreachable"
          /\ a = "confirmed" => world[e] = "applied"
          /\ a = "not_applied" => world[e] # "applied"
          /\ sweeper' = [sweeper EXCEPT ![x].pc = a]
    /\ UNCHANGED <<performer, world, evidence, clocks, recent, place>>

\* insert_reconciliation.  `latest` is by reconciled_at, the sweep's time: of
\* two rows of which one is recent that one is later, of two others either.
InsertReconciliation(x) ==
    LET e == Held(x).effect
        b == Held(x).branch
        outcome == sweeper[x].pc
    IN
    /\ outcome \in Outcomes
    /\ outcome \in Settling => Len(settled) < MaxSettled
    /\ \E newer \in BOOLEAN :
          /\ (b \in recent[e] /\ sweeper[x].old) => ~newer
          /\ (b \notin recent[e] /\ ~sweeper[x].old) => newer
          /\ latest[e][b] = "none" => newer
          /\ latest' = IF newer THEN [latest EXCEPT ![e][b] = outcome] ELSE latest
          /\ recent' = IF newer THEN Stamped(x, e, b) ELSE recent
    /\ IF outcome \in Settling
         THEN /\ lifecycle' = Appended(e, "reconciling", "outcome_settled")
              /\ settled' = Append(settled, [effect |-> e, branch |-> b,
                                             outcome |-> outcome, notified |-> FALSE])
         ELSE UNCHANGED <<lifecycle, settled>>
    /\ sweeper' = Continued(x)
    /\ UNCHANGED <<performer, world, receipt, clocks, place>>

MutRecordFailedAttempt(x) ==
    /\ sweeper[x].pc = "unreachable"
    /\ sweeper' = Continued(x)
    /\ UNCHANGED <<performer, world, evidence, clocks, recent, place>>

\* record_failed_recovery_attempt: no route, no read-back, no answer.
RecordFailedAttempt(x) ==
    /\ sweeper[x].pc = "unreachable"
    /\ recent' = Stamped(x, Held(x).effect, "failed")
    /\ sweeper' = Continued(x)
    /\ UNCHANGED <<performer, world, evidence, clocks, place>>

\* A storage error ends the sweep, as the death of its process does: the
\* candidates it still held are dropped.
SweepStops(x) ==
    /\ "stop" \in Faults
    /\ sweeper[x].pc # "idle"
    /\ sweeper' = [sweeper EXCEPT ![x] = IdleSweeper]
    /\ UNCHANGED <<performer, world, evidence, clocks, recent, place>>

-----------------------------------------------------------------------------

Perform(e) ==
    \/ InsertIntent(e) \/ Authorize(e) \/ RecordDispatch(e)
    \/ CallAdapter(e) \/ AdapterReturns(e) \/ InsertReceipt(e)

Reconcile(x) ==
    \/ Adopt(x) \/ AlreadyAdopted(x) \/ Observe(x)
    \/ InsertReconciliation(x) \/ RecordFailedAttempt(x)

Next ==
    \/ \E e \in Effects :
          \/ Perform(e) \/ Abandon(e) \/ Land(e)
          \/ DeadlinePasses(e) \/ OwnerLapses(e) \/ OwnerReports(e) \/ Elapse(e)
    \/ \E x \in Sweepers :
          \/ Discover(x) \/ Reconcile(x) \/ SweepStops(x) \/ SweepAges(x)

Spec == Init /\ [][Next]_vars

-----------------------------------------------------------------------------
\* Types, and the shape of what the tables hold.
TypeOK ==
    /\ performer \in [Effects -> {"idle", "intended", "authorized", "dispatching",
                                 "calling", "done"} \cup Answers]
    /\ world \in [Effects -> {"untouched", "inflight", "applied", "refused"}]
    /\ receipt \in [Effects -> Answers \cup {"none"}]
    /\ lifecycle \in [Effects -> Seq(Transitions)]
    /\ overdue \in [Effects -> BOOLEAN]
    /\ lapsed \in [Effects -> BOOLEAN]
    /\ latest \in [Effects -> [Branches -> Outcomes \cup {"none"}]]
    /\ settled \in Seq(Reconciliations)
    /\ recent \in [Effects -> SUBSET Marks]
    /\ place \in [Effects -> Nat]
    /\ sweeper \in [Sweepers -> SweeperStates]

\* EXT-001 and migration 0153: a request that may have reached the provider is
\* never forgotten.  Wherever the performing process and the sweepers stopped,
\* an effect that left the process and whose outcome is not known is one the
\* candidate query returns once its deadlines and cutoffs have passed.
NothingForgotten ==
    \A e \in Effects :
        /\ world[e] # "untouched"
        /\ performer[e] = "done"
        /\ receipt[e] # "failed"
        /\ ~IsSettled(e)
        => Recoverable(e)

\* Migration 0155: a dispatch called lost is a guess, and a receipt outranks
\* it, whichever of the two transactions took its ordinal or committed first.
ReceiptOutranksGuess ==
    \A e \in Effects :
        (receipt[e] # "none" /\ ~IsSettled(e)) => FindLifecycleStatus(e) = receipt[e]

\* A sweeper between adopting a lost dispatch and recording what it learned.
Asking(x, e) ==
    /\ sweeper[x].pc \notin {"idle", "begin"}
    /\ Held(x).effect = e /\ Held(x).branch = "lost" /\ ~Held(x).adopted

\* reconcile_candidate: of the sweepers that found one lost dispatch at the
\* same time, one goes on to ask the provider about it.
OneAsker ==
    \A e \in Effects : \A x, y \in Sweepers : (Asking(x, e) /\ Asking(y, e)) => x = y

-----------------------------------------------------------------------------
(* Fairness.  The worker's loop sweeps every workspace on each of its      *)
(* passes, which are much shorter than the cutoffs, so an effect that      *)
(* comes within reach of the batch again and again is one day in a batch;  *)
(* deadlines and cutoffs pass.  A sweep may be cut short any number of     *)
(* times, but not for ever at the same write.  Of the provider: one that   *)
(* is asked again and again about an effect it serves answers one day.     *)

Reaches(x, e) == e \in Oldest /\ Discover(x)

Holds(x, e) == sweeper[x].todo # {} /\ Held(x).effect = e

Answered(x, e) ==
    /\ Holds(x, e)
    /\ Observe(x)
    /\ sweeper'[x].pc \in Settling

Settles(x) == sweeper[x].pc \in Settling /\ InsertReconciliation(x)

Fairness ==
    /\ \A e \in Effects : WF_vars(DeadlinePasses(e)) /\ WF_vars(Elapse(e))
    /\ \A x \in Sweepers :
          /\ WF_vars(Reconcile(x))
          /\ \A e \in Routed :
                /\ SF_vars(Reaches(x, e))
                /\ SF_vars(Holds(x, e) /\ Adopt(x))
                /\ SF_vars(Answered(x, e))
                /\ SF_vars(Holds(x, e) /\ Settles(x))
          /\ \A e \in Effects \ Routed :
                /\ SF_vars(Reaches(x, e))
                /\ SF_vars(Holds(x, e) /\ (Adopt(x) \/ RecordFailedAttempt(x)))
                /\ SF_vars(Holds(x, e) /\ Observe(x))

\* Migration 0156: an effect with a read-back route is settled, however many
\* older effects that cannot be asked about stand before it in the batch.
EffectsSettle ==
    \A e \in Routed :
        (world[e] # "untouched" /\ performer[e] = "done" /\ receipt[e] # "failed")
            ~> IsSettled(e)
=============================================================================
