--------------------------- MODULE OutcomeDelivery ---------------------------
(***************************************************************************)
(* EffectOutcomeDeliveryService composed with the effects and their        *)
(* recovery: a settled reconciliation is owed to the run that asked for    *)
(* the effect until it has been appended to the run's event stream and     *)
(* then, in another transaction, marked delivered.  The run's coordinator  *)
(* and workers commit to the same stream meanwhile.                        *)
(*                                                                         *)
(* There is one run.  `agent_runs` is its version, `run_streams` its head, *)
(* and `run_events` the set of its events, of which only the sequence and  *)
(* the outcome they report are kept.                                       *)
(***************************************************************************)
EXTENDS ExternalEffects

CONSTANTS
    Deliverers,     \* delivery services: one per worker process
    Attributed,     \* effects whose execution_ref names a run
    Vanished,       \* of those, the ones naming a run that does not exist
    DeliveryBatch,  \* DELIVERY_BATCH; 32 in the code
    MaxCommits,     \* bound: the last version the run may reach
    MaxEvents       \* bound: events of the stream

ASSUME DeliveryConstants ==
    /\ Attributed \subseteq Effects
    /\ Vanished \subseteq Attributed
    /\ DeliveryBatch \in Nat \ {0}
    /\ MaxCommits \in Nat /\ MaxEvents \in Nat

VARIABLES
    version,    \* agent_runs.run_version
    head,       \* run_streams.current_version
    events,     \* run_events
    deliverer   \* each deliverer's position, its debts and the head it read

delivery == <<version, head, events, deliverer>>
dvars == <<vars, delivery>>

\* What is said of a commit of the run itself, where an outcome would be.
Nothing == 0

DelivererStates ==
    [pc : {"idle", "begin", "append", "mark"}, todo : SUBSET (1 .. MaxSettled), seen : Nat]

IdleDeliverer == [pc |-> "idle", todo |-> {}, seen |-> 0]

\* A run as create_run leaves it, with its first event.
InitRun ==
    /\ version = 1
    /\ head = 1
    /\ events = {[sequence |-> 1, outcome |-> Nothing]}
    /\ deliverer = [d \in Deliverers |-> IdleDeliverer]

InitDelivery == Init /\ InitRun

-----------------------------------------------------------------------------
(* The run's own commits.                                                  *)

\* The unique key of run_events.
SequenceFree(n) == \A ev \in events : ev.sequence # n

MutCommitRun ==
    /\ version < MaxCommits
    /\ Cardinality(events) < MaxEvents
    /\ version' = version + 1
    /\ head' = version + 1
    /\ events' = events \cup {[sequence |-> version + 1, outcome |-> Nothing]}
    /\ UNCHANGED <<vars, deliverer>>

\* commit_on: the event's sequence is the version of agent_runs plus one, and
\* the head is set to it, whatever it was.
CommitRun ==
    /\ version < MaxCommits
    /\ Cardinality(events) < MaxEvents
    /\ SequenceFree(version + 1)
    /\ version' = version + 1
    /\ head' = version + 1
    /\ events' = events \cup {[sequence |-> version + 1, outcome |-> Nothing]}
    /\ UNCHANGED <<vars, deliverer>>

-----------------------------------------------------------------------------
(* deliver_once                                                            *)

Unpaid == {i \in DOMAIN settled : ~settled[i].notified}

\* find_undelivered_outcomes: the oldest of them.  They are ordered by
\* reconciled_at, which is the order one sweeper inserts them in.
Owed == {i \in Unpaid : Cardinality({j \in Unpaid : j < i}) < DeliveryBatch}

FindOwed(d) ==
    /\ deliverer[d].pc = "idle"
    /\ Owed # {}
    /\ deliverer' = [deliverer EXCEPT ![d] = [pc |-> "begin", todo |-> Owed, seen |-> 0]]
    /\ UNCHANGED <<vars, version, head, events>>

Debt(d) == CHOOSE i \in deliverer[d].todo : \A j \in deliverer[d].todo : i <= j

DebtOf(d) == settled[Debt(d)].effect

\* On to the next debt of the pass, or to its end.
NextDebt(d) ==
    [deliverer EXCEPT ![d] =
        IF deliverer[d].todo = {Debt(d)}
          THEN IdleDeliverer
          ELSE [pc |-> "begin", todo |-> deliverer[d].todo \ {Debt(d)}, seen |-> 0]]

MutLoadHead(d) ==
    /\ deliverer[d].pc = "begin"
    /\ DebtOf(d) \in Attributed
    /\ deliverer' = IF DebtOf(d) \in Vanished
                      THEN [deliverer EXCEPT ![d] = IdleDeliverer]
                      ELSE [deliverer EXCEPT ![d].pc = "append", ![d].seen = head]
    /\ UNCHANGED <<vars, version, head, events>>

\* load_stream_head; a run with no stream leaves the debt owed.
LoadHead(d) ==
    /\ deliverer[d].pc = "begin"
    /\ DebtOf(d) \in Attributed
    /\ deliverer' = IF DebtOf(d) \in Vanished
                      THEN NextDebt(d)
                      ELSE [deliverer EXCEPT ![d].pc = "append", ![d].seen = head]
    /\ UNCHANGED <<vars, version, head, events>>

\* PgRunEventStore::append, one event at the head that was read.
AppendOutcome(d) ==
    /\ deliverer[d].pc = "append"
    /\ head = deliverer[d].seen
    /\ Cardinality(events) < MaxEvents
    /\ SequenceFree(head + 1)
    /\ events' = events \cup {[sequence |-> head + 1, outcome |-> Debt(d)]}
    /\ head' = head + 1
    /\ deliverer' = [deliverer EXCEPT ![d].pc = "mark"]
    /\ UNCHANGED <<vars, version>>

MutDefer(d) ==
    /\ deliverer[d].pc = "append"
    /\ head # deliverer[d].seen
    /\ deliverer' = [deliverer EXCEPT ![d].pc = "mark"]
    /\ UNCHANGED <<vars, version, head, events>>

\* The head has moved and the append conflicts, or the storage fails while the
\* head is read or the event appended: the debt stays owed.
Defer(d) ==
    /\ \/ deliverer[d].pc = "append" /\ head # deliverer[d].seen
       \/ /\ "stop" \in Faults
          /\ deliverer[d].pc = "append"
             \/ (deliverer[d].pc = "begin" /\ DebtOf(d) \in Attributed)
    /\ deliverer' = NextDebt(d)
    /\ UNCHANGED <<vars, version, head, events>>

\* A reconciliation that names no run is marked without being told to anyone.
NobodyToTell(d) == deliverer[d].pc = "begin" /\ DebtOf(d) \notin Attributed

MutMarkDelivered(d) ==
    /\ deliverer[d].pc = "mark" \/ NobodyToTell(d)
    /\ settled' = [settled EXCEPT ![Debt(d)].notified = TRUE]
    /\ lifecycle' = Appended(DebtOf(d),
                             IF settled[Debt(d)].outcome = "confirmed"
                               THEN "confirmed" ELSE "failed",
                             "outcome_delivered")
    /\ deliverer' = NextDebt(d)
    /\ UNCHANGED <<performer, world, receipt, clocks, latest, recent, place, sweeper>>
    /\ UNCHANGED <<version, head, events>>

\* mark_outcome_delivered, with the transition it writes; a debt another
\* deliverer has marked meanwhile is left as it is.
MarkDelivered(d) ==
    /\ deliverer[d].pc = "mark" \/ NobodyToTell(d)
    /\ IF settled[Debt(d)].notified
         THEN UNCHANGED <<settled, lifecycle>>
         ELSE /\ settled' = [settled EXCEPT ![Debt(d)].notified = TRUE]
              /\ lifecycle' = Appended(DebtOf(d),
                                       IF settled[Debt(d)].outcome = "confirmed"
                                         THEN "confirmed" ELSE "failed",
                                       "outcome_delivered")
    /\ deliverer' = NextDebt(d)
    /\ UNCHANGED <<performer, world, receipt, clocks, latest, recent, place, sweeper>>
    /\ UNCHANGED <<version, head, events>>

\* An error of mark_outcome_delivered ends the pass, as the death of its
\* process does.
DelivererStops(d) ==
    /\ "stop" \in Faults
    /\ deliverer[d].pc # "idle"
    /\ deliverer' = [deliverer EXCEPT ![d] = IdleDeliverer]
    /\ UNCHANGED <<vars, version, head, events>>

-----------------------------------------------------------------------------

Deliver(d) ==
    \/ FindOwed(d) \/ LoadHead(d) \/ AppendOutcome(d) \/ Defer(d) \/ MarkDelivered(d)

\* An effect or a sweep goes on, out of sight of the run.
EffectStep == Next /\ UNCHANGED delivery

NextDelivery ==
    \/ EffectStep
    \/ CommitRun
    \/ \E d \in Deliverers : Deliver(d) \/ DelivererStops(d)

DeliverySpec == InitDelivery /\ [][NextDelivery]_dvars

-----------------------------------------------------------------------------
\* Types of the run's stream and of the deliverers; a pass that is under way
\* holds a debt.
DeliveryTypeOK ==
    /\ version \in Nat
    /\ head \in Nat
    /\ events \subseteq [sequence : Nat, outcome : 0 .. MaxSettled]
    /\ deliverer \in [Deliverers -> DelivererStates]
    /\ \A d \in Deliverers : deliverer[d].pc # "idle" => deliverer[d].todo # {}

\* PgRunEventStore::append refuses a stream whose metadata and events have
\* diverged.  They never do: the head counts the events, which have no gaps,
\* although commits set it to a version that knows nothing of deliveries.
HeadIsLast ==
    /\ {ev.sequence : ev \in events} = 1 .. head
    /\ Cardinality(events) = head

\* deliver_once: a debt is closed only after the run was told.  No conflict,
\* crash or other deliverer leaves an outcome marked that is not in the stream.
MarkedMeansTold ==
    \A i \in DOMAIN settled :
        (settled[i].notified /\ settled[i].effect \in Attributed)
            => \E ev \in events : ev.outcome = i

\* mark_outcome_delivered: however many deliverers hold one debt, its effect
\* gets one outcome_delivered transition for it.
DebtsPaidOnce ==
    \A e \in Effects :
        Cardinality({i \in DOMAIN lifecycle[e] : lifecycle[e][i].cause = "outcome_delivered"})
          = Cardinality({i \in DOMAIN settled : settled[i].effect = e /\ settled[i].notified})

\* The fairness of the deliverers: the worker's loop runs a pass on each of
\* its own.
DeliveryFairness == \A d \in Deliverers : WF_dvars(Deliver(d))

\* deliver_once: "one run's problem does not stop the others": a debt to a run
\* that exists, or to nobody, is paid.
OutcomesDelivered ==
    \A i \in 1 .. MaxSettled :
        (i \in DOMAIN settled /\ settled[i].effect \notin Vanished)
            ~> (i \in DOMAIN settled /\ settled[i].notified)
=============================================================================
