------------------------ MODULE OutcomeDelivery_proofs ------------------------
(***************************************************************************)
(* Proofs about OutcomeDelivery: deliverers and commits keep the stream    *)
(* whole, no outcome is marked that the run was not told, and delivery     *)
(* takes nothing from what ExternalEffects promises, for any effects,      *)
(* sweepers, deliverers, batches and bounds.                               *)
(***************************************************************************)
EXTENDS OutcomeDelivery, ExternalEffects_proofs

-----------------------------------------------------------------------------
(* The stream.                                                             *)

\* The run never gets ahead of its stream.
HeadInv ==
    /\ version \in Nat
    /\ head \in Nat
    /\ version <= head
    /\ IsFiniteSet(events)
    /\ HeadIsLast

\* An event after the last.
LEMMA OneMoreEvent ==
    ASSUME HeadInv, NEW o, events' = events \cup {[sequence |-> head + 1, outcome |-> o]},
           head' = head + 1, version' \in Nat, version' <= head'
    PROVE  HeadInv'
<1> DEFINE ev == [sequence |-> head + 1, outcome |-> o]
<1>1. ev.sequence = head + 1
  OBVIOUS
<1>2. events' = events \cup {ev}
  OBVIOUS
<1> HIDE DEF ev
<1>3. /\ head \in Nat /\ IsFiniteSet(events) /\ Cardinality(events) = head
      /\ {e.sequence : e \in events} = 1 .. head
  BY DEF HeadInv, HeadIsLast
<1>4. ev \notin events
  <2>1. ev \in events => head + 1 \in 1 .. head
    BY <1>1, <1>3
  <2> QED BY <1>3, <2>1
<1>5. IsFiniteSet(events') /\ Cardinality(events') = head + 1
  <2>1. /\ IsFiniteSet(events \cup {ev})
        /\ Cardinality(events \cup {ev}) = Cardinality(events) + 1
    BY <1>3, <1>4, FS_AddElement
  <2> QED BY <1>2, <1>3, <2>1
<1>6. {e.sequence : e \in events'} = 1 .. (head + 1)
  <2>1. {e.sequence : e \in events'} = {e.sequence : e \in events} \cup {head + 1}
    BY <1>1, <1>2
  <2>2. (1 .. head) \cup {head + 1} = 1 .. (head + 1)
    BY <1>3
  <2> QED BY <1>3, <2>1, <2>2
<1> QED BY <1>3, <1>5, <1>6 DEF HeadInv, HeadIsLast

LEMMA StreamStep == HeadInv /\ [NextDelivery]_dvars => HeadInv'
<1> SUFFICES ASSUME HeadInv, [NextDelivery]_dvars PROVE HeadInv'
  OBVIOUS
<1>1. CASE CommitRun
  <2>1. /\ version \in Nat /\ head \in Nat /\ version <= head
        /\ {e.sequence : e \in events} = 1 .. head
    BY DEF HeadInv, HeadIsLast
  <2>2. version + 1 \notin 1 .. head
    BY <1>1, <2>1 DEF CommitRun, SequenceFree
  <2>3. version = head
    BY <2>1, <2>2
  <2>4. /\ events' = events \cup {[sequence |-> head + 1, outcome |-> Nothing]}
        /\ head' = head + 1 /\ version' = head + 1
    BY <1>1, <2>3 DEF CommitRun
  <2>5. version' \in Nat /\ version' <= head'
    BY <2>1, <2>4
  <2> QED BY <2>4, <2>5, OneMoreEvent
<1>2. ASSUME NEW d \in Deliverers, AppendOutcome(d) PROVE HeadInv'
  <2>1. /\ events' = events \cup {[sequence |-> head + 1, outcome |-> Debt(d)]}
        /\ head' = head + 1 /\ version' = version
    BY <1>2 DEF AppendOutcome
  <2>2. version' \in Nat /\ version' <= head'
    BY <2>1 DEF HeadInv
  <2> QED BY <2>1, <2>2, OneMoreEvent
<1>3. CASE UNCHANGED <<version, head, events>>
  BY <1>3 DEF HeadInv, HeadIsLast
<1>4. CASE EffectStep
  BY <1>3, <1>4 DEF EffectStep, delivery
<1>5. ASSUME NEW d \in Deliverers,
             FindOwed(d) \/ LoadHead(d) \/ Defer(d) \/ MarkDelivered(d) \/ DelivererStops(d)
      PROVE  HeadInv'
  BY <1>3, <1>5 DEF FindOwed, LoadHead, Defer, MarkDelivered, DelivererStops
<1>6. CASE UNCHANGED dvars
  BY <1>3, <1>6 DEF dvars, delivery
<1> QED BY <1>1, <1>2, <1>4, <1>5, <1>6 DEF NextDelivery, Deliver

-----------------------------------------------------------------------------
(* What the deliverers hold, and what was told.                            *)

EventsOK == events \subseteq [sequence : Nat, outcome : 0 .. MaxSettled]

\* Whoever is about to mark a debt has told it.
DelivererInv ==
    /\ deliverer \in [Deliverers -> DelivererStates]
    /\ \A d \in Deliverers :
          /\ deliverer[d].pc # "idle" => deliverer[d].todo # {}
          /\ deliverer[d].todo \subseteq DOMAIN settled
          /\ deliverer[d].pc = "mark" => \E ev \in events : ev.outcome = Debt(d)

\* What is settled was dispatched.
SettledWereSent == \A i \in DOMAIN settled : ~Early(settled[i].effect)

TellInv ==
    /\ EffectInv
    /\ SettledWereSent
    /\ Len(settled) <= MaxSettled
    /\ EventsOK
    /\ DelivererInv
    /\ MarkedMeansTold

LEMMA DebtHeld ==
    ASSUME DelivererInv, NEW d \in Deliverers, deliverer[d].pc # "idle"
    PROVE  /\ Debt(d) \in deliverer[d].todo
           /\ Debt(d) \in 1 .. MaxSettled
           /\ Debt(d) \in DOMAIN settled
<1>1. /\ deliverer[d].todo # {}
      /\ deliverer[d].todo \subseteq 1 .. MaxSettled
      /\ deliverer[d].todo \subseteq DOMAIN settled
  BY DEF DelivererInv, DelivererStates
<1>2. deliverer[d].todo \in SUBSET Nat
  BY <1>1, EffectConstants
<1>3. \E m \in deliverer[d].todo : \A k \in deliverer[d].todo : m <= k
  BY <1>1, <1>2, LeastNat
<1>4. Debt(d) \in deliverer[d].todo
  BY <1>3 DEF Debt
<1> QED BY <1>1, <1>4

LEMMA DebtStays ==
    ASSUME NEW d \in Deliverers, deliverer'[d].todo = deliverer[d].todo
    PROVE  Debt(d)' = Debt(d)
BY DEF Debt

\* No deliverer moves, and nothing is taken back.
LEMMA DeliverersStay ==
    ASSUME DelivererInv, deliverer' = deliverer, events \subseteq events',
           DOMAIN settled \subseteq DOMAIN settled'
    PROVE  DelivererInv'
<1>1. \A d \in Deliverers : Debt(d)' = Debt(d)
  BY DebtStays
<1> QED BY <1>1 DEF DelivererInv

\* One deliverer moves.
LEMMA DelivererMoves ==
    ASSUME DelivererInv, NEW d \in Deliverers,
           deliverer' \in [Deliverers -> DelivererStates],
           \A c \in Deliverers : c # d => deliverer'[c] = deliverer[c],
           events \subseteq events', DOMAIN settled \subseteq DOMAIN settled',
           deliverer'[d].pc # "idle" => deliverer'[d].todo # {},
           deliverer'[d].todo \subseteq DOMAIN settled',
           deliverer'[d].pc = "mark" => \E ev \in events' : ev.outcome = Debt(d)'
    PROVE  DelivererInv'
<1>1. \A c \in Deliverers : c # d => Debt(c)' = Debt(c)
  BY DebtStays
<1>2. ASSUME NEW c \in Deliverers
      PROVE  /\ deliverer'[c].pc # "idle" => deliverer'[c].todo # {}
             /\ deliverer'[c].todo \subseteq DOMAIN settled'
             /\ deliverer'[c].pc = "mark" => \E ev \in events' : ev.outcome = Debt(c)'
  <2>1. CASE c = d
    BY <2>1
  <2>2. CASE c # d
    BY <1>1, <2>2 DEF DelivererInv
  <2> QED BY <2>1, <2>2
<1> QED BY <1>2 DEF DelivererInv

\* A deliverer is done with a debt, paid or not.
LEMMA NextDebtMoves ==
    ASSUME DelivererInv, NEW d \in Deliverers, deliverer' = NextDebt(d),
           deliverer[d].pc # "idle",
           events \subseteq events', DOMAIN settled \subseteq DOMAIN settled'
    PROVE  DelivererInv'
<1> DEFINE s == IF deliverer[d].todo = {Debt(d)}
                  THEN IdleDeliverer
                  ELSE [pc |-> "begin", todo |-> deliverer[d].todo \ {Debt(d)}, seen |-> 0]
<1>1. deliverer' = [deliverer EXCEPT ![d] = s]
  BY DEF NextDebt
<1>2. deliverer \in [Deliverers -> DelivererStates] /\ deliverer[d] \in DelivererStates
  BY DEF DelivererInv
<1>3. /\ s \in DelivererStates
      /\ s.todo \subseteq deliverer[d].todo
      /\ s.pc \in {"idle", "begin"}
      /\ s.pc # "idle" => s.todo # {}
  <2>1. CASE deliverer[d].todo = {Debt(d)}
    BY <2>1 DEF IdleDeliverer, DelivererStates
  <2>2. CASE deliverer[d].todo # {Debt(d)}
    <3>1. s = [pc |-> "begin", todo |-> deliverer[d].todo \ {Debt(d)}, seen |-> 0]
      BY <2>2
    <3>2. deliverer[d].todo \ {Debt(d)} # {}
      BY <2>2, DebtHeld
    <3> QED BY <1>2, <3>1, <3>2 DEF DelivererStates
  <2> QED BY <2>1, <2>2
<1> HIDE DEF s
<1>4. deliverer'[d] = s /\ deliverer' \in [Deliverers -> DelivererStates]
  BY <1>1, <1>2, <1>3
<1>5. \A c \in Deliverers : c # d => deliverer'[c] = deliverer[c]
  BY <1>1, <1>2
<1>6. deliverer'[d].todo \subseteq DOMAIN settled'
  BY <1>3, <1>4 DEF DelivererInv
<1> QED BY <1>3, <1>4, <1>5, <1>6, DelivererMoves

\* A step of an effect or a sweep adds at most one debt, and pays none.
LEMMA DebtsGrow ==
    ASSUME EffectInv, Next
    PROVE  \/ settled' = settled
           \/ \E q \in Reconciliations :
                 /\ ~q.notified /\ ~Early(q.effect)
                 /\ Len(settled) < MaxSettled
                 /\ settled' = Append(settled, q)
<1>1. ASSUME NEW e \in Effects,
             \/ Perform(e) \/ Abandon(e) \/ Land(e)
             \/ DeadlinePasses(e) \/ OwnerLapses(e) \/ OwnerReports(e) \/ Elapse(e)
      PROVE  settled' = settled
  BY <1>1 DEF Perform, InsertIntent, Authorize, RecordDispatch, CallAdapter, AdapterReturns,
              InsertReceipt, Abandon, Land, DeadlinePasses, OwnerLapses, OwnerReports, Elapse,
              evidence
<1>2. ASSUME NEW x \in Sweepers,
             \/ Discover(x) \/ Adopt(x) \/ AlreadyAdopted(x) \/ Observe(x)
             \/ RecordFailedAttempt(x) \/ SweepStops(x) \/ SweepAges(x)
      PROVE  settled' = settled
  BY <1>2 DEF Discover, Adopt, AlreadyAdopted, Observe, RecordFailedAttempt, SweepStops,
              SweepAges, evidence
<1>3. ASSUME NEW x \in Sweepers, InsertReconciliation(x), settled' # settled
      PROVE  \E q \in Reconciliations :
                 /\ ~q.notified /\ ~Early(q.effect)
                 /\ Len(settled) < MaxSettled
                 /\ settled' = Append(settled, q)
  <2> DEFINE q == [effect |-> Held(x).effect, branch |-> Held(x).branch,
                   outcome |-> sweeper[x].pc, notified |-> FALSE]
  <2>1. sweeper[x].pc \in Settling /\ settled' = Append(settled, q) /\ Len(settled) < MaxSettled
    BY <1>3 DEF InsertReconciliation
  <2>2. Held(x).effect \in Effects /\ Held(x).branch \in Branches /\ ~Early(Held(x).effect)
    BY <2>1, HeldTyped DEF Settling, EffectInv
  <2>3. q \in Reconciliations /\ ~q.notified /\ q.effect = Held(x).effect
    BY <2>1, <2>2 DEF Reconciliations
  <2> HIDE DEF q
  <2> QED BY <2>1, <2>2, <2>3
<1> QED BY <1>1, <1>2, <1>3 DEF Next, Reconcile

\* The debts and the evidence of a marked outcome.
LEMMA MarkKeepsEffects ==
    ASSUME EffectInv, SettledWereSent, DelivererInv, NEW d \in Deliverers, MarkDelivered(d)
    PROVE  /\ EffectInv'
           /\ DOMAIN settled' = DOMAIN settled /\ Len(settled') = Len(settled)
           /\ \A i \in DOMAIN settled :
                 /\ settled'[i].effect = settled[i].effect
                 /\ i # Debt(d) => settled'[i] = settled[i]
<1>1. PICK i \in DOMAIN settled : i = Debt(d)
  <2>1. deliverer[d].pc # "idle"
    BY DEF MarkDelivered, NobodyToTell
  <2> QED BY <2>1, DebtHeld
<1>2. settled \in Seq(Reconciliations) /\ settled[i] \in Reconciliations
  BY <1>1 DEF EffectInv, TypeOK
<1>3. PICK e \in Effects : e = settled[i].effect
  BY <1>2 DEF Reconciliations
<1>4. /\ performer' = performer /\ world' = world /\ receipt' = receipt /\ latest' = latest
      /\ sweeper' = sweeper /\ overdue' = overdue /\ lapsed' = lapsed
      /\ recent' = recent /\ place' = place
  BY DEF MarkDelivered, clocks
<1>5. TypeOK /\ SweepsHold /\ RowsInv /\ AskersAdopted /\ OneAsker
  BY DEF EffectInv, RowsInv
<1>6. CASE settled' = settled /\ lifecycle' = lifecycle
  <2>1. UNCHANGED vars
    BY <1>4, <1>6 DEF vars
  <2>2. EffectInv'
    BY <2>1, NextPreserves
  <2> QED BY <1>6, <2>2
<1>7. CASE /\ settled' = [settled EXCEPT ![i].notified = TRUE]
           /\ \E status \in {"confirmed", "failed"} :
                 lifecycle' = Appended(e, status, "outcome_delivered")
  <2>1. PICK r \in Transitions :
           lifecycle' = [lifecycle EXCEPT ![e] = Append(lifecycle[e], r)]
    BY <1>7, RowsAreTransitions DEF Appended
  <2> DEFINE q == [settled[i] EXCEPT !.notified = TRUE]
  <2>2. settled' = [settled EXCEPT ![i] = q]
    BY <1>7
  <2>3. q \in Reconciliations /\ q.effect = settled[i].effect
    BY <1>2 DEF Reconciliations
  <2> HIDE DEF q
  <2>4. /\ settled' \in Seq(Reconciliations)
        /\ DOMAIN settled' = DOMAIN settled /\ Len(settled') = Len(settled)
        /\ \A k \in DOMAIN settled : k # i => settled'[k] = settled[k]
        /\ settled'[i] = q
    BY <1>1, <1>2, <2>2, <2>3
  <2>5. \A k \in DOMAIN settled : settled'[k].effect = settled[k].effect
    BY <2>3, <2>4
  <2>6. \A f \in Effects : IsSettled(f)' <=> IsSettled(f)
    BY <2>4, <2>5 DEF IsSettled
  <2>7. IsSettled(e)' /\ IsSettled(e)
    BY <1>1, <1>3, <2>6 DEF IsSettled
  <2>8. TypeOK'
    <3>1. lifecycle' \in [Effects -> Seq(Transitions)]
      BY <1>5, <2>1, AppendedRows
    <3> QED BY <1>4, <1>5, <2>4, <3>1 DEF TypeOK
  <2>9. ~Early(e)
    BY <1>1, <1>3 DEF SettledWereSent
  <2>10. RowsInv'
    <3>1. EarlyRows' /\ DispatchRows' /\ ReceiptRows'
      BY <1>4, <1>5, <2>1, <2>6, <2>7, <2>9, LaterRows
    <3>2. LatestIsKept'
      BY <1>4, <1>5, <2>6 DEF RowsInv, LatestIsKept
    <3> QED BY <3>1, <3>2 DEF RowsInv
  <2>11. SweepsHold'
    BY <1>4, <1>5 DEF SweepsHold, Early
  <2>12. AskersAdopted' /\ OneAsker'
    BY <1>4, <1>5, <2>1, LostAppended, AskersStay
  <2> QED BY <1>1, <2>4, <2>5, <2>8, <2>10, <2>11, <2>12 DEF EffectInv, RowsInv
<1> QED BY <1>1, <1>3, <1>6, <1>7 DEF MarkDelivered, DebtOf

\* A step of an effect or a sweep, seen by the run.
LEMMA EffectStepTells ==
    ASSUME TellInv, EffectStep
    PROVE  TellInv'
<1>1. /\ EffectInv /\ SettledWereSent /\ Len(settled) <= MaxSettled /\ EventsOK
      /\ DelivererInv /\ MarkedMeansTold /\ TypeOK
  BY DEF TellInv, EffectInv
<1>2. Next /\ deliverer' = deliverer /\ events' = events
  BY DEF EffectStep, delivery
<1>3. EffectInv'
  BY <1>1, <1>2, NextPreserves
<1>4. \A f \in Effects : Early(f)' => Early(f)
  <2>1. ASSUME NEW x \in Sweepers,
               Discover(x) \/ Reconcile(x) \/ SweepStops(x) \/ SweepAges(x)
        PROVE  performer' = performer
    BY <2>1 DEF Discover, Reconcile, Adopt, AlreadyAdopted, Observe, InsertReconciliation,
                RecordFailedAttempt, SweepStops, SweepAges, evidence
  <2>2. CASE performer' = performer
    BY <2>2 DEF Early
  <2> QED BY <1>1, <1>2, <2>1, <2>2, EarlyEnds DEF Next
<1>5. settled \in Seq(Reconciliations)
  BY <1>1 DEF TypeOK
<1>6. \A i \in DOMAIN settled : settled[i].effect \in Effects
  <2>1. \A i \in DOMAIN settled : settled[i] \in Reconciliations
    BY <1>5
  <2> QED BY <2>1 DEF Reconciliations
<1>7. CASE settled' = settled
  <2>1. SettledWereSent'
    BY <1>1, <1>4, <1>6, <1>7 DEF SettledWereSent
  <2>2. DelivererInv'
    BY <1>1, <1>2, <1>7, DeliverersStay
  <2>3. MarkedMeansTold' /\ EventsOK'
    BY <1>1, <1>2, <1>7 DEF MarkedMeansTold, EventsOK
  <2> QED BY <1>1, <1>3, <1>7, <2>1, <2>2, <2>3 DEF TellInv
<1>8. ASSUME NEW q \in Reconciliations, ~q.notified, ~Early(q.effect),
             Len(settled) < MaxSettled, settled' = Append(settled, q)
      PROVE  TellInv'
  <2>1. /\ Len(settled') <= MaxSettled
        /\ DOMAIN settled \subseteq DOMAIN settled'
        /\ \A i \in DOMAIN settled' :
              \/ i \in DOMAIN settled /\ settled'[i] = settled[i]
              \/ settled'[i] = q
    BY <1>5, <1>8, EffectConstants
  <2>2. SettledWereSent'
    <3>1. q.effect \in Effects
      BY <1>8 DEF Reconciliations
    <3> SUFFICES ASSUME NEW i \in DOMAIN settled'
                 PROVE  performer'[settled'[i].effect] \notin {"idle", "intended", "authorized"}
      BY DEF SettledWereSent, Early
    <3>2. PICK f \in Effects : f = settled'[i].effect /\ ~Early(f)
      BY <1>1, <1>6, <1>8, <2>1, <3>1 DEF SettledWereSent
    <3>3. ~Early(f)'
      BY <1>4, <3>2
    <3> QED BY <3>2, <3>3 DEF Early
  <2>3. DelivererInv'
    BY <1>1, <1>2, <2>1, DeliverersStay
  <2>4. MarkedMeansTold' /\ EventsOK'
    BY <1>1, <1>2, <1>8, <2>1 DEF MarkedMeansTold, EventsOK
  <2> QED BY <1>3, <2>1, <2>2, <2>3, <2>4 DEF TellInv
<1> QED BY <1>1, <1>2, <1>7, <1>8, DebtsGrow

\* A step that touches no effect.
LEMMA OnlyTheRunMoves ==
    ASSUME TellInv, UNCHANGED vars, events \subseteq events', EventsOK', DelivererInv'
    PROVE  TellInv'
<1>1. EffectInv'
  BY NextPreserves DEF TellInv
<1>2. settled' = settled /\ performer' = performer
  BY DEF vars
<1>3. SettledWereSent' /\ Len(settled') <= MaxSettled /\ MarkedMeansTold'
  BY <1>2 DEF TellInv, SettledWereSent, Early, MarkedMeansTold
<1> QED BY <1>1, <1>3 DEF TellInv

\* A step of a deliverer that tells and marks nothing.
LEMMA QuietDeliverer ==
    ASSUME TellInv, NEW d \in Deliverers, UNCHANGED <<vars, events>>, DelivererInv'
    PROVE  TellInv'
BY OnlyTheRunMoves DEF TellInv, EventsOK

LEMMA DeliverTells ==
    ASSUME TellInv, HeadInv, NEW d \in Deliverers, Deliver(d) \/ DelivererStops(d)
    PROVE  TellInv'
<1> DEFINE Others == \A c \in Deliverers : c # d => deliverer'[c] = deliverer[c]
<1>1. /\ EffectInv /\ SettledWereSent /\ Len(settled) <= MaxSettled /\ EventsOK
      /\ DelivererInv /\ MarkedMeansTold /\ settled \in Seq(Reconciliations)
  BY DEF TellInv, EffectInv, TypeOK
<1>2. deliverer \in [Deliverers -> DelivererStates] /\ deliverer[d] \in DelivererStates
  BY <1>1 DEF DelivererInv
<1>3. \A s \in DelivererStates :
         deliverer' = [deliverer EXCEPT ![d] = s]
           => /\ deliverer' \in [Deliverers -> DelivererStates]
              /\ deliverer'[d] = s
              /\ Others
  BY <1>2
<1> HIDE DEF Others
<1>4. CASE FindOwed(d)
  <2> DEFINE s == [pc |-> "begin", todo |-> Owed, seen |-> 0]
  <2>1. Owed # {} /\ deliverer' = [deliverer EXCEPT ![d] = s] /\ UNCHANGED <<vars, events>>
    BY <1>4 DEF FindOwed
  <2>2. Owed \subseteq DOMAIN settled
    BY DEF Owed, Unpaid
  <2>3. Owed \subseteq 1 .. MaxSettled
    BY <1>1, <2>2, EffectConstants
  <2>4. s \in DelivererStates /\ s.pc = "begin" /\ s.todo = Owed
    BY <2>3 DEF DelivererStates
  <2> HIDE DEF s
  <2>5. deliverer' \in [Deliverers -> DelivererStates] /\ deliverer'[d] = s /\ Others
    BY <1>3, <2>1, <2>4
  <2>6. settled' = settled /\ events' = events
    BY <2>1 DEF vars
  <2>7. DelivererInv'
    BY <1>1, <2>1, <2>2, <2>4, <2>5, <2>6, DelivererMoves DEF Others
  <2> QED BY <2>1, <2>7, QuietDeliverer
<1>5. CASE LoadHead(d) /\ DebtOf(d) \notin Vanished
  <2> DEFINE s == [deliverer[d] EXCEPT !.pc = "append", !.seen = head]
  <2>1. deliverer' = [deliverer EXCEPT ![d] = s] /\ UNCHANGED <<vars, events>>
    BY <1>5 DEF LoadHead
  <2>2. s \in DelivererStates /\ s.pc = "append" /\ s.todo = deliverer[d].todo
    BY <1>2 DEF DelivererStates, HeadInv
  <2> HIDE DEF s
  <2>3. deliverer' \in [Deliverers -> DelivererStates] /\ deliverer'[d] = s /\ Others
    BY <1>3, <2>1, <2>2
  <2>4. settled' = settled /\ events' = events
    BY <2>1 DEF vars
  <2>5. deliverer[d].todo # {} /\ deliverer[d].todo \subseteq DOMAIN settled
    BY <1>1, <1>5 DEF LoadHead, DelivererInv
  <2>6. DelivererInv'
    BY <1>1, <2>2, <2>3, <2>4, <2>5, DelivererMoves DEF Others
  <2> QED BY <2>1, <2>6, QuietDeliverer
<1>6. CASE (LoadHead(d) /\ DebtOf(d) \in Vanished) \/ Defer(d)
  <2>1. deliverer' = NextDebt(d) /\ UNCHANGED <<vars, events>> /\ deliverer[d].pc # "idle"
    BY <1>6 DEF LoadHead, Defer
  <2>2. settled' = settled /\ events' = events
    BY <2>1 DEF vars
  <2>3. DelivererInv'
    BY <1>1, <2>1, <2>2, NextDebtMoves
  <2> QED BY <2>1, <2>3, QuietDeliverer
<1>7. CASE AppendOutcome(d)
  <2> DEFINE s == [deliverer[d] EXCEPT !.pc = "mark"]
             ev == [sequence |-> head + 1, outcome |-> Debt(d)]
  <2>1. /\ deliverer' = [deliverer EXCEPT ![d] = s]
        /\ events' = events \cup {ev}
        /\ UNCHANGED vars
        /\ deliverer[d].pc = "append"
    BY <1>7 DEF AppendOutcome
  <2>2. s \in DelivererStates /\ s.pc = "mark" /\ s.todo = deliverer[d].todo
    BY <1>2 DEF DelivererStates
  <2>3. Debt(d) \in 1 .. MaxSettled
    BY <1>1, <2>1, DebtHeld
  <2>4. ev \in [sequence : Nat, outcome : 0 .. MaxSettled] /\ ev.outcome = Debt(d)
    BY <2>3, EffectConstants DEF HeadInv
  <2> HIDE DEF s, ev
  <2>5. deliverer' \in [Deliverers -> DelivererStates] /\ deliverer'[d] = s /\ Others
    BY <1>3, <2>1, <2>2
  <2>6. Debt(d)' = Debt(d)
    BY <2>2, <2>5, DebtStays
  <2>7. \E v \in events' : v.outcome = Debt(d)'
    BY <2>1, <2>4, <2>6
  <2>8. settled' = settled
    BY <2>1 DEF vars
  <2>9. deliverer[d].todo # {} /\ deliverer[d].todo \subseteq DOMAIN settled
    BY <1>1, <2>1 DEF DelivererInv
  <2>10. DelivererInv'
    BY <1>1, <2>1, <2>2, <2>5, <2>7, <2>8, <2>9, DelivererMoves DEF Others
  <2>11. EventsOK'
    BY <1>1, <2>1, <2>4 DEF EventsOK
  <2> QED BY <2>1, <2>10, <2>11, OnlyTheRunMoves
<1>8. CASE MarkDelivered(d)
  <2>1. /\ deliverer' = NextDebt(d) /\ events' = events /\ performer' = performer
        /\ deliverer[d].pc # "idle"
        /\ deliverer[d].pc = "mark" \/ DebtOf(d) \notin Attributed
    BY <1>8 DEF MarkDelivered, NobodyToTell
  <2>2. /\ EffectInv'
        /\ DOMAIN settled' = DOMAIN settled /\ Len(settled') = Len(settled)
        /\ \A i \in DOMAIN settled :
              /\ settled'[i].effect = settled[i].effect
              /\ i # Debt(d) => settled'[i] = settled[i]
    BY <1>1, <1>8, MarkKeepsEffects
  <2>3. DelivererInv'
    BY <1>1, <2>1, <2>2, NextDebtMoves
  <2>4. SettledWereSent'
    BY <1>1, <2>1, <2>2 DEF SettledWereSent, Early
  <2>5. MarkedMeansTold'
    <3> SUFFICES ASSUME NEW i \in DOMAIN settled', settled'[i].notified,
                        settled'[i].effect \in Attributed
                 PROVE  \E v \in events' : v.outcome = i
      BY DEF MarkedMeansTold
    <3>1. CASE i # Debt(d)
      BY <1>1, <2>1, <2>2, <3>1 DEF MarkedMeansTold
    <3>2. CASE i = Debt(d)
      <4>1. DebtOf(d) \in Attributed
        BY <2>2, <3>2 DEF DebtOf
      <4>2. deliverer[d].pc = "mark"
        BY <2>1, <4>1
      <4> QED BY <1>1, <2>1, <3>2, <4>2 DEF DelivererInv
    <3> QED BY <3>1, <3>2
  <2>6. EventsOK'
    BY <1>1, <2>1 DEF EventsOK
  <2> QED BY <1>1, <2>2, <2>3, <2>4, <2>5, <2>6 DEF TellInv
<1>9. CASE DelivererStops(d)
  <2>1. deliverer' = [deliverer EXCEPT ![d] = IdleDeliverer] /\ UNCHANGED <<vars, events>>
    BY <1>9 DEF DelivererStops
  <2>2. /\ IdleDeliverer \in DelivererStates
        /\ IdleDeliverer.pc = "idle" /\ IdleDeliverer.todo = {}
    BY DEF IdleDeliverer, DelivererStates
  <2>3. deliverer' \in [Deliverers -> DelivererStates] /\ deliverer'[d] = IdleDeliverer /\ Others
    BY <1>3, <2>1, <2>2
  <2>4. settled' = settled /\ events' = events
    BY <2>1 DEF vars
  <2>5. DelivererInv'
    BY <1>1, <2>2, <2>3, <2>4, DelivererMoves DEF Others
  <2> QED BY <2>1, <2>5, QuietDeliverer
<1> QED BY <1>4, <1>5, <1>6, <1>7, <1>8, <1>9 DEF Deliver

LEMMA TellStep == TellInv /\ HeadInv /\ [NextDelivery]_dvars => TellInv'
<1> SUFFICES ASSUME TellInv, HeadInv, [NextDelivery]_dvars PROVE TellInv'
  OBVIOUS
<1>1. CASE EffectStep
  BY <1>1, EffectStepTells
<1>2. CASE CommitRun
  <2> DEFINE ev == [sequence |-> version + 1, outcome |-> Nothing]
  <2>1. events' = events \cup {ev} /\ UNCHANGED vars /\ deliverer' = deliverer
    BY <1>2 DEF CommitRun
  <2>2. ev \in [sequence : Nat, outcome : 0 .. MaxSettled]
    BY EffectConstants DEF HeadInv, Nothing
  <2> HIDE DEF ev
  <2>3. EventsOK'
    BY <2>1, <2>2 DEF TellInv, EventsOK
  <2>4. DelivererInv'
    BY <2>1, DeliverersStay DEF TellInv, vars
  <2> QED BY <2>1, <2>3, <2>4, OnlyTheRunMoves
<1>3. ASSUME NEW d \in Deliverers, Deliver(d) \/ DelivererStops(d)
      PROVE  TellInv'
  BY <1>3, DeliverTells
<1>4. CASE UNCHANGED dvars
  <2>1. UNCHANGED vars /\ deliverer' = deliverer /\ events' = events
    BY <1>4 DEF dvars, delivery
  <2>2. DelivererInv'
    BY <2>1, DeliverersStay DEF TellInv, vars
  <2>3. EventsOK'
    BY <2>1 DEF TellInv, EventsOK
  <2> QED BY <2>1, <2>2, <2>3, OnlyTheRunMoves
<1> QED BY <1>1, <1>2, <1>3, <1>4 DEF NextDelivery

LEMMA DeliveryStarts == InitDelivery => TellInv /\ HeadInv
<1> SUFFICES ASSUME InitDelivery PROVE TellInv /\ HeadInv
  OBVIOUS
<1> DEFINE ev == [sequence |-> 1, outcome |-> Nothing]
<1>1. /\ version = 1 /\ head = 1 /\ events = {ev}
      /\ ev.sequence = 1 /\ ev.outcome = 0
      /\ deliverer = [d \in Deliverers |-> IdleDeliverer]
      /\ Init /\ settled = <<>>
  BY DEF InitDelivery, InitRun, Init, Nothing
<1>2. ev \in [sequence : Nat, outcome : 0 .. MaxSettled]
  BY EffectConstants DEF Nothing
<1> HIDE DEF ev
<1>3. HeadInv
  <2>1. IsFiniteSet(events) /\ Cardinality(events) = 1
    BY <1>1, FS_Singleton
  <2>2. {e.sequence : e \in events} = 1 .. 1
    BY <1>1
  <2> QED BY <1>1, <2>1, <2>2 DEF HeadInv, HeadIsLast
<1>4. EffectInv
  BY <1>1, InitEstablishes
<1>5. DOMAIN settled = {} /\ Len(settled) = 0
  BY <1>1
<1>6. DelivererInv
  <2>1. /\ IdleDeliverer \in DelivererStates
        /\ IdleDeliverer.pc = "idle" /\ IdleDeliverer.todo = {}
    BY DEF IdleDeliverer, DelivererStates
  <2> QED BY <1>1, <2>1 DEF DelivererInv
<1>7. SettledWereSent /\ MarkedMeansTold /\ Len(settled) <= MaxSettled
  BY <1>5, EffectConstants DEF SettledWereSent, MarkedMeansTold
<1>8. EventsOK
  BY <1>1, <1>2 DEF EventsOK
<1> QED BY <1>3, <1>4, <1>6, <1>7, <1>8 DEF TellInv

-----------------------------------------------------------------------------
(* What was paid, counted.                                                 *)

\* The rows of a lifecycle that say an outcome was delivered.
PaidRows(rows) == {i \in DOMAIN rows : rows[i].cause = "outcome_delivered"}

\* The settled reconciliations of an effect that are marked.
PaidDebts(e) == {i \in DOMAIN settled : settled[i].effect = e /\ settled[i].notified}

LEMMA PaidRowsFinite ==
    ASSUME NEW S, NEW rows \in Seq(S)
    PROVE  IsFiniteSet(PaidRows(rows))
<1>1. DOMAIN rows = 1 .. Len(rows) /\ Len(rows) \in Nat
  OBVIOUS
<1>2. IsFiniteSet(1 .. Len(rows))
  BY <1>1, FS_Interval
<1>3. PaidRows(rows) \subseteq 1 .. Len(rows)
  BY <1>1 DEF PaidRows
<1> QED BY <1>2, <1>3, FS_Subset

LEMMA PaidDebtsFinite ==
    ASSUME settled \in Seq(Reconciliations), NEW e
    PROVE  IsFiniteSet(PaidDebts(e))
<1>1. DOMAIN settled = 1 .. Len(settled) /\ Len(settled) \in Nat
  OBVIOUS
<1>2. IsFiniteSet(1 .. Len(settled))
  BY <1>1, FS_Interval
<1>3. PaidDebts(e) \subseteq 1 .. Len(settled)
  BY <1>1 DEF PaidDebts
<1> QED BY <1>2, <1>3, FS_Subset

\* A row at the end is counted where it stands, or not at all.
LEMMA PaidRowsAppended ==
    ASSUME NEW rows \in Seq(Transitions), NEW r \in Transitions
    PROVE  PaidRows(Append(rows, r)) =
             PaidRows(rows) \cup
               (IF r.cause = "outcome_delivered" THEN {Len(rows) + 1} ELSE {})
<1>1. PICK new : new = Append(rows, r)
  OBVIOUS
<1>2. /\ Len(rows) \in Nat
      /\ DOMAIN rows = 1 .. Len(rows) /\ DOMAIN new = 1 .. (Len(rows) + 1)
      /\ new[Len(rows) + 1] = r
      /\ \A j \in 1 .. Len(rows) : new[j] = rows[j]
  BY <1>1
<1>3. 1 .. (Len(rows) + 1) = (1 .. Len(rows)) \cup {Len(rows) + 1}
  BY <1>2
<1>4. Len(rows) + 1 \notin 1 .. Len(rows)
  BY <1>2
<1>5. PaidRows(new) = PaidRows(rows) \cup
               (IF r.cause = "outcome_delivered" THEN {Len(rows) + 1} ELSE {})
  BY <1>2, <1>3, <1>4 DEF PaidRows
<1> QED BY <1>1, <1>5

\* A receipt that goes in among the rows moves the ones behind it, and no more.
LEMMA PaidRowsInserted ==
    ASSUME NEW rows \in Seq(Transitions), NEW r \in Transitions, NEW i \in 1 .. Len(rows),
           r.cause # "outcome_delivered"
    PROVE  Cardinality(PaidRows(Inserted(rows, i, r))) = Cardinality(PaidRows(rows))
<1>1. PICK new : new = Inserted(rows, i, r)
  OBVIOUS
<1>2. /\ DOMAIN new = 1 .. (Len(rows) + 1)
      /\ new[i + 1] = r
      /\ \A j \in 1 .. i : new[j] = rows[j]
      /\ \A j \in DOMAIN new : j > i + 1 => new[j] = rows[j - 1]
  BY <1>1, InsertedRows
<1>3. /\ Len(rows) \in Nat /\ DOMAIN rows = 1 .. Len(rows) /\ i \in Nat /\ i >= 1
      /\ i <= Len(rows)
  OBVIOUS
<1> DEFINE S == PaidRows(rows)
           T == PaidRows(new)
           f == [j \in S |-> IF j <= i THEN j ELSE j + 1]
<1>4. S \subseteq 1 .. Len(rows) /\ T \subseteq 1 .. (Len(rows) + 1)
  BY <1>2, <1>3 DEF PaidRows
<1>5. ASSUME NEW j \in S PROVE f[j] \in T
  <2>1. j \in 1 .. Len(rows) /\ rows[j].cause = "outcome_delivered"
    BY <1>3 DEF PaidRows
  <2>2. CASE j <= i
    <3>1. j \in 1 .. i /\ j \in DOMAIN new
      BY <1>2, <1>3, <2>1, <2>2
    <3>2. new[j].cause = "outcome_delivered"
      BY <1>2, <2>1, <3>1
    <3> QED BY <2>2, <3>1, <3>2 DEF PaidRows
  <2>3. CASE ~(j <= i)
    <3>1. j + 1 \in DOMAIN new /\ j + 1 > i + 1 /\ (j + 1) - 1 = j
      BY <1>2, <1>3, <2>1, <2>3
    <3>2. new[j + 1] = rows[j]
      BY <1>2, <3>1
    <3> QED BY <2>1, <2>3, <3>1, <3>2 DEF PaidRows
  <2> QED BY <2>2, <2>3
<1>6. ASSUME NEW t \in T PROVE \E j \in S : f[j] = t
  <2>1. t \in 1 .. (Len(rows) + 1) /\ t \in DOMAIN new /\ new[t].cause = "outcome_delivered"
    BY <1>2 DEF PaidRows
  <2>2. CASE t <= i
    <3>1. t \in 1 .. i /\ t \in DOMAIN rows
      BY <1>3, <2>1, <2>2
    <3>2. t \in S
      BY <1>2, <2>1, <3>1 DEF PaidRows
    <3> QED BY <2>2, <3>2
  <2>3. CASE t = i + 1
    BY <1>2, <2>1, <2>3
  <2>4. CASE t > i + 1
    <3>1. t - 1 \in DOMAIN rows /\ ~(t - 1 <= i) /\ (t - 1) + 1 = t
      BY <1>3, <2>1, <2>4
    <3>2. new[t] = rows[t - 1]
      BY <1>2, <2>1, <2>4
    <3>3. t - 1 \in S
      BY <2>1, <3>1, <3>2 DEF PaidRows
    <3> QED BY <3>1, <3>3
  <2> QED BY <1>3, <2>1, <2>2, <2>3, <2>4
<1>7. \A a, b \in S : f[a] = f[b] => a = b
  BY <1>3, <1>4
<1>8. f \in [S -> T]
  BY <1>5
<1> HIDE DEF S, T, f
<1>9. f \in Bijection(S, T)
  BY <1>6, <1>7, <1>8 DEF Bijection, Injection, Surjection, IsInjective
<1>10. ExistsBijection(S, T)
  BY <1>9 DEF ExistsBijection
<1>11. IsFiniteSet(S)
  BY PaidRowsFinite DEF S
<1>12. Cardinality(T) = Cardinality(S)
  BY <1>10, <1>11, FS_Bijection
<1> QED BY <1>1, <1>12 DEF S, T

\* A step of an effect or a sweep writes no outcome_delivered row.
LEMMA EffectStepPaysNothing ==
    ASSUME TypeOK, SweepsHold, Next, NEW f \in Effects
    PROVE  Cardinality(PaidRows(lifecycle'[f])) = Cardinality(PaidRows(lifecycle[f]))
<1>1. lifecycle \in [Effects -> Seq(Transitions)] /\ lifecycle[f] \in Seq(Transitions)
  BY DEF TypeOK
<1>2. ASSUME NEW e \in Effects, NEW r \in Transitions, r.cause # "outcome_delivered",
             lifecycle' = [lifecycle EXCEPT ![e] = Append(lifecycle[e], r)]
      PROVE  Cardinality(PaidRows(lifecycle'[f])) = Cardinality(PaidRows(lifecycle[f]))
  <2>1. CASE f = e
    <3>1. lifecycle'[f] = Append(lifecycle[f], r)
      BY <1>1, <1>2, <2>1
    <3>2. PaidRows(lifecycle'[f]) = PaidRows(lifecycle[f])
      BY <1>1, <1>2, <3>1, PaidRowsAppended
    <3> QED BY <3>2
  <2>2. CASE f # e
    <3>1. lifecycle'[f] = lifecycle[f]
      BY <1>1, <1>2, <2>2
    <3> QED BY <3>1
  <2> QED BY <2>1, <2>2
<1>3. CASE lifecycle' = lifecycle
  BY <1>3
<1>4. ASSUME NEW e \in Effects, NEW status, NEW cause, Row(status, cause) \in Transitions,
             cause # "outcome_delivered", lifecycle' = Appended(e, status, cause)
      PROVE  Cardinality(PaidRows(lifecycle'[f])) = Cardinality(PaidRows(lifecycle[f]))
  <2>1. PICK r \in Transitions : r = Row(status, cause)
    BY <1>4
  <2>2. r.cause # "outcome_delivered"
    BY <1>4, <2>1 DEF Row
  <2>3. lifecycle' = [lifecycle EXCEPT ![e] = Append(lifecycle[e], r)]
    BY <1>4, <2>1 DEF Appended
  <2> QED BY <1>2, <2>2, <2>3
<1>5. ASSUME NEW e \in Effects, InsertIntent(e)
      PROVE  Cardinality(PaidRows(lifecycle'[f])) = Cardinality(PaidRows(lifecycle[f]))
  <2>1. lifecycle' = Appended(e, "prepared", "intent_recorded")
    BY <1>5 DEF InsertIntent
  <2> QED BY <1>4, <2>1, RowsAreTransitions
<1>6. ASSUME NEW e \in Effects, Authorize(e)
      PROVE  Cardinality(PaidRows(lifecycle'[f])) = Cardinality(PaidRows(lifecycle[f]))
  <2>1. \/ lifecycle' = Appended(e, "authorized", "authorization_recorded")
        \/ lifecycle' = lifecycle
    BY <1>6 DEF Authorize
  <2> QED BY <1>3, <1>4, <2>1, RowsAreTransitions
<1>7. ASSUME NEW e \in Effects, RecordDispatch(e)
      PROVE  Cardinality(PaidRows(lifecycle'[f])) = Cardinality(PaidRows(lifecycle[f]))
  <2>1. lifecycle' = Appended(e, "dispatching", "dispatch_started")
    BY <1>7 DEF RecordDispatch
  <2> QED BY <1>4, <2>1, RowsAreTransitions
<1>8. ASSUME NEW e \in Effects, InsertReceipt(e)
      PROVE  Cardinality(PaidRows(lifecycle'[f])) = Cardinality(PaidRows(lifecycle[f]))
  <2>1. PICK r \in Transitions : r = Row(performer[e], "receipt_recorded")
    BY <1>8, RowsAreTransitions DEF InsertReceipt
  <2>2. r.cause # "outcome_delivered"
    BY <2>1 DEF Row
  <2>3. PICK i \in 3 .. Len(lifecycle[e]) :
           lifecycle' = [lifecycle EXCEPT ![e] = Inserted(lifecycle[e], i, r)]
    BY <1>8, <2>1 DEF InsertReceipt, Inserted
  <2>4. CASE f = e
    <3>1. lifecycle'[f] = Inserted(lifecycle[f], i, r)
      BY <1>1, <2>3, <2>4
    <3>2. i \in 1 .. Len(lifecycle[f])
      BY <1>1, <2>3, <2>4
    <3> QED BY <1>1, <2>2, <3>1, <3>2, PaidRowsInserted
  <2>5. CASE f # e
    <3>1. lifecycle'[f] = lifecycle[f]
      BY <1>1, <2>3, <2>5
    <3> QED BY <3>1
  <2> QED BY <2>4, <2>5
<1>9. ASSUME NEW e \in Effects,
             \/ CallAdapter(e) \/ AdapterReturns(e) \/ Abandon(e) \/ Land(e)
             \/ DeadlinePasses(e) \/ OwnerLapses(e) \/ OwnerReports(e) \/ Elapse(e)
      PROVE  lifecycle' = lifecycle
  BY <1>9 DEF CallAdapter, AdapterReturns, Abandon, Land, DeadlinePasses, OwnerLapses,
              OwnerReports, Elapse, evidence
<1>10. ASSUME NEW x \in Sweepers,
             \/ Discover(x) \/ AlreadyAdopted(x) \/ Observe(x)
             \/ RecordFailedAttempt(x) \/ SweepStops(x) \/ SweepAges(x)
      PROVE  lifecycle' = lifecycle
  BY <1>10 DEF Discover, AlreadyAdopted, Observe, RecordFailedAttempt, SweepStops,
              SweepAges, evidence
<1>11. ASSUME NEW x \in Sweepers, Adopt(x)
      PROVE  Cardinality(PaidRows(lifecycle'[f])) = Cardinality(PaidRows(lifecycle[f]))
  <2>1. lifecycle' = Appended(Held(x).effect, "unknown", "dispatch_lost")
    BY <1>11 DEF Adopt
  <2>2. Held(x).effect \in Effects
    BY <1>11, HeldTyped DEF Adopt, NeedsAdoption
  <2> QED BY <1>4, <2>1, <2>2, RowsAreTransitions
<1>12. ASSUME NEW x \in Sweepers, InsertReconciliation(x)
      PROVE  Cardinality(PaidRows(lifecycle'[f])) = Cardinality(PaidRows(lifecycle[f]))
  <2>1. \/ lifecycle' = Appended(Held(x).effect, "reconciling", "outcome_settled")
        \/ lifecycle' = lifecycle
    BY <1>12 DEF InsertReconciliation
  <2>2. Held(x).effect \in Effects
    BY <1>12, HeldTyped DEF InsertReconciliation, Outcomes, Settling
  <2> QED BY <1>3, <1>4, <2>1, <2>2, RowsAreTransitions
<1> QED BY <1>3, <1>5, <1>6, <1>7, <1>8, <1>9, <1>10, <1>11, <1>12
        DEF Next, Perform, Reconcile

\* An insertion into the settled reconciliations is of one that is owed.
LEMMA EffectStepMarksNothing ==
    ASSUME EffectInv, Next, NEW f \in Effects
    PROVE  PaidDebts(f)' = PaidDebts(f)
<1>1. settled \in Seq(Reconciliations)
  BY DEF EffectInv, TypeOK
<1>2. CASE settled' = settled
  BY <1>2 DEF PaidDebts
<1>3. ASSUME NEW q \in Reconciliations, ~q.notified, settled' = Append(settled, q)
      PROVE  PaidDebts(f)' = PaidDebts(f)
  <2>1. /\ Len(settled) \in Nat
        /\ DOMAIN settled = 1 .. Len(settled) /\ DOMAIN settled' = 1 .. (Len(settled) + 1)
        /\ settled'[Len(settled) + 1] = q
        /\ \A j \in 1 .. Len(settled) : settled'[j] = settled[j]
    BY <1>1, <1>3
  <2>2. 1 .. (Len(settled) + 1) = (1 .. Len(settled)) \cup {Len(settled) + 1}
    BY <2>1
  <2> QED BY <1>3, <2>1, <2>2 DEF PaidDebts
<1> QED BY <1>2, <1>3, DebtsGrow

\* The deliverer that finds a debt unmarked marks it and writes its row, in one
\* transaction; the one that finds it marked does neither.
LEMMA MarkPaysOnce ==
    ASSUME EffectInv, DelivererInv, DebtsPaidOnce, NEW d \in Deliverers, MarkDelivered(d)
    PROVE  DebtsPaidOnce'
<1>1. PICK i \in DOMAIN settled : i = Debt(d)
  <2>1. deliverer[d].pc # "idle"
    BY DEF MarkDelivered, NobodyToTell
  <2> QED BY <2>1, DebtHeld
<1>2. /\ settled \in Seq(Reconciliations) /\ settled[i] \in Reconciliations
      /\ lifecycle \in [Effects -> Seq(Transitions)]
  BY <1>1 DEF EffectInv, TypeOK
<1>3. PICK e \in Effects : e = settled[i].effect
  BY <1>2 DEF Reconciliations
<1>4. \A f \in Effects : Cardinality(PaidRows(lifecycle[f])) = Cardinality(PaidDebts(f))
  BY DEF DebtsPaidOnce, PaidRows, PaidDebts
<1>5. SUFFICES ASSUME NEW f \in Effects
               PROVE  Cardinality(PaidRows(lifecycle'[f])) = Cardinality(PaidDebts(f)')
  BY DEF DebtsPaidOnce, PaidRows, PaidDebts
<1>6. CASE settled[i].notified
  <2>1. settled' = settled /\ lifecycle' = lifecycle
    BY <1>1, <1>6 DEF MarkDelivered
  <2>2. PaidDebts(f)' = PaidDebts(f)
    BY <2>1 DEF PaidDebts
  <2> QED BY <1>4, <2>1, <2>2
<1>7. CASE ~settled[i].notified
  <2>1. PICK status \in {"confirmed", "failed"} :
           lifecycle' = Appended(e, status, "outcome_delivered")
    BY <1>1, <1>3, <1>7 DEF MarkDelivered, DebtOf
  <2>2. settled' = [settled EXCEPT ![i].notified = TRUE]
    BY <1>1, <1>7 DEF MarkDelivered
  <2>3. PICK r \in Transitions : r = Row(status, "outcome_delivered")
    BY RowsAreTransitions
  <2>4. r.cause = "outcome_delivered"
    BY <2>3 DEF Row
  <2>5. lifecycle' = [lifecycle EXCEPT ![e] = Append(lifecycle[e], r)]
    BY <2>1, <2>3 DEF Appended
  <2>6. /\ DOMAIN settled' = DOMAIN settled
        /\ \A k \in DOMAIN settled : k # i => settled'[k] = settled[k]
        /\ settled'[i].effect = e /\ settled'[i].notified
    BY <1>2, <1>3, <2>2 DEF Reconciliations
  <2>7. CASE f # e
    <3>1. lifecycle'[f] = lifecycle[f]
      BY <1>2, <2>5, <2>7
    <3>2. PaidDebts(f)' = PaidDebts(f)
      BY <1>3, <2>6, <2>7 DEF PaidDebts
    <3> QED BY <1>4, <3>1, <3>2
  <2>8. CASE f = e
    <3>1. lifecycle'[f] = Append(lifecycle[f], r) /\ lifecycle[f] \in Seq(Transitions)
      BY <1>2, <2>5, <2>8
    <3>2. PaidRows(lifecycle'[f]) = PaidRows(lifecycle[f]) \cup {Len(lifecycle[f]) + 1}
      BY <2>4, <3>1, PaidRowsAppended
    <3>3. Len(lifecycle[f]) + 1 \notin PaidRows(lifecycle[f])
      BY <3>1 DEF PaidRows
    <3>4. IsFiniteSet(PaidRows(lifecycle[f]))
      BY <3>1, PaidRowsFinite
    <3>5. Cardinality(PaidRows(lifecycle'[f])) = Cardinality(PaidRows(lifecycle[f])) + 1
      BY <3>2, <3>3, <3>4, FS_AddElement
    <3>6. PaidDebts(f)' = PaidDebts(f) \cup {i} /\ i \notin PaidDebts(f)
      BY <1>3, <1>7, <2>6, <2>8 DEF PaidDebts
    <3>7. IsFiniteSet(PaidDebts(f))
      BY <1>2, PaidDebtsFinite
    <3>8. Cardinality(PaidDebts(f) \cup {i}) = Cardinality(PaidDebts(f)) + 1
      BY <3>6, <3>7, FS_AddElement
    <3> QED BY <1>4, <3>5, <3>6, <3>8
  <2> QED BY <2>7, <2>8
<1> QED BY <1>6, <1>7

LEMMA PaymentsStart == InitDelivery => DebtsPaidOnce
<1> SUFFICES ASSUME InitDelivery PROVE DebtsPaidOnce
  OBVIOUS
<1>1. settled = << >> /\ lifecycle = [e \in Effects |-> << >>]
  BY DEF InitDelivery, Init
<1>2. ASSUME NEW e \in Effects PROVE PaidRows(lifecycle[e]) = {} /\ PaidDebts(e) = {}
  BY <1>1 DEF PaidRows, PaidDebts
<1> QED BY <1>2 DEF DebtsPaidOnce, PaidRows, PaidDebts

LEMMA PaymentsStep == TellInv /\ DebtsPaidOnce /\ [NextDelivery]_dvars => DebtsPaidOnce'
<1> SUFFICES ASSUME TellInv, DebtsPaidOnce, [NextDelivery]_dvars PROVE DebtsPaidOnce'
  OBVIOUS
<1>1. EffectInv /\ TypeOK /\ SweepsHold /\ DelivererInv
  BY DEF TellInv, EffectInv
<1>2. CASE EffectStep
  <2>1. \A f \in Effects :
           /\ Cardinality(PaidRows(lifecycle[f])) = Cardinality(PaidDebts(f))
           /\ Cardinality(PaidRows(lifecycle'[f])) = Cardinality(PaidRows(lifecycle[f]))
           /\ PaidDebts(f)' = PaidDebts(f)
    <3>1. Next
      BY <1>2 DEF EffectStep
    <3>2. \A f \in Effects : Cardinality(PaidRows(lifecycle[f])) = Cardinality(PaidDebts(f))
      BY DEF DebtsPaidOnce, PaidRows, PaidDebts
    <3> QED BY <1>1, <3>1, <3>2, EffectStepPaysNothing, EffectStepMarksNothing
  <2>2. \A f \in Effects : Cardinality(PaidRows(lifecycle'[f])) = Cardinality(PaidDebts(f)')
    BY <2>1
  <2> QED BY <2>2 DEF DebtsPaidOnce, PaidRows, PaidDebts
<1>3. CASE UNCHANGED vars
  BY <1>3 DEF vars, DebtsPaidOnce
<1>4. ASSUME NEW d \in Deliverers, MarkDelivered(d) PROVE DebtsPaidOnce'
  BY <1>1, <1>4, MarkPaysOnce
<1>5. CASE CommitRun \/ UNCHANGED dvars
  BY <1>3, <1>5 DEF CommitRun, dvars
<1>6. ASSUME NEW d \in Deliverers,
             FindOwed(d) \/ LoadHead(d) \/ AppendOutcome(d) \/ Defer(d) \/ DelivererStops(d)
      PROVE  DebtsPaidOnce'
  BY <1>3, <1>6 DEF FindOwed, LoadHead, AppendOutcome, Defer, DelivererStops
<1> QED BY <1>2, <1>4, <1>5, <1>6 DEF NextDelivery, Deliver

\* What delivery keeps, with everything EffectInv says of the effects: marking
\* an outcome writes to their tables.
LEMMA DeliveryInvariant == DeliverySpec => [](TellInv /\ HeadInv)
<1>1. InitDelivery => TellInv /\ HeadInv
  BY DeliveryStarts
<1>2. TellInv /\ HeadInv /\ [NextDelivery]_dvars => (TellInv /\ HeadInv)'
  BY TellStep, StreamStep
<1> QED BY <1>1, <1>2, PTL DEF DeliverySpec

\* The stream and the deliverers keep their types, and a pass under way always
\* has a debt in hand.
THEOREM DeliveryTypeCorrect == DeliverySpec => []DeliveryTypeOK
<1>1. TellInv /\ HeadInv => DeliveryTypeOK
  BY DEF TellInv, HeadInv, EventsOK, DelivererInv, DeliveryTypeOK
<1> QED BY <1>1, DeliveryInvariant, PTL

\* PgRunEventStore::append finds the head and the events of a stream in
\* agreement, however deliveries and the run's commits interleave.
THEOREM HeadCountsEvents == DeliverySpec => []HeadIsLast
<1>1. HeadInv => HeadIsLast
  BY DEF HeadInv
<1> QED BY <1>1, DeliveryInvariant, PTL

\* deliver_once closes a debt only when the outcome is in the run's stream, for
\* any number of deliverers, conflicts and stops.
THEOREM OutcomesAreTold == DeliverySpec => []MarkedMeansTold
<1>1. TellInv => MarkedMeansTold
  BY DEF TellInv
<1> QED BY <1>1, DeliveryInvariant, PTL

\* mark_outcome_delivered writes one outcome_delivered row per debt it closes, for any
\* number of deliverers that hold the debt and wherever receipts go in among the rows.
THEOREM PaymentsAreSingle == DeliverySpec => []DebtsPaidOnce
<1>1. InitDelivery => DebtsPaidOnce
  BY PaymentsStart
<1>2. TellInv /\ DebtsPaidOnce /\ [NextDelivery]_dvars => DebtsPaidOnce'
  BY PaymentsStep
<1> QED BY <1>1, <1>2, DeliveryInvariant, PTL DEF DeliverySpec

\* With deliverers writing to the same tables, an effect that may have run and
\* is not settled is still a sweep's to find.
THEOREM DeliveryForgetsNothing == DeliverySpec => []NothingForgotten
<1>1. TellInv => NothingForgotten
  BY InvariantForgetsNothing DEF TellInv
<1> QED BY <1>1, DeliveryInvariant, PTL
===============================================================================
