------------------------ MODULE ExternalEffects_proofs ------------------------
(***************************************************************************)
(* Proofs about ExternalEffects: what left the process stays recoverable,  *)
(* a receipt outranks a guess, and one sweeper asks about a lost dispatch, *)
(* for any number of effects and sweepers, any routes, faults and bounds.  *)
(***************************************************************************)
EXTENDS ExternalEffects, FiniteSetTheorems, SequenceTheorems, WellFoundedInduction, TLAPS

-----------------------------------------------------------------------------
(* The inductive invariant.                                                *)

Early(e) == performer[e] \in {"idle", "intended", "authorized"}

\* The dispatch of the effect is recorded and its call may have been made.
Sent(e) ==
    \/ world[e] # "untouched"
    \/ performer[e] \in {"dispatching", "calling"} \cup Answers

\* A sweep under way holds a candidate, and only effects that were dispatched.
SweepsHold ==
    \A x \in Sweepers :
        /\ sweeper[x].pc # "idle" => sweeper[x].todo # {}
        /\ \A c \in sweeper[x].todo : ~Early(c.effect)

\* Before the dispatch nothing is recorded but what `perform` wrote itself.
EarlyRows ==
    \A e \in Effects :
        /\ Early(e) => world[e] = "untouched"
        /\ performer[e] # "done" => receipt[e] = "none"
        /\ performer[e] = "idle" => lifecycle[e] = << >>
        /\ performer[e] = "intended" =>
              lifecycle[e] = <<Row("prepared", "intent_recorded")>>
        /\ performer[e] = "authorized" =>
              lifecycle[e] = <<Row("prepared", "intent_recorded"),
                               Row("authorized", "authorization_recorded")>>

\* Until a receipt or a settlement arrives, nothing follows the dispatch but
\* its adoptions.
DispatchRows ==
    \A e \in Effects : (Sent(e) /\ receipt[e] = "none") =>
        /\ Len(lifecycle[e]) >= 3
        /\ lifecycle[e][3] = Row("dispatching", "dispatch_started")
        /\ ~IsSettled(e) =>
              \A j \in DOMAIN lifecycle[e] : j > 3 => lifecycle[e][j].cause = "dispatch_lost"

\* Until a settlement arrives, nothing follows a receipt but adoptions.
ReceiptRows ==
    \A e \in Effects : (receipt[e] # "none" /\ ~IsSettled(e)) =>
        \E i \in DOMAIN lifecycle[e] :
            /\ lifecycle[e][i] = Row(receipt[e], "receipt_recorded")
            /\ \A j \in DOMAIN lifecycle[e] : j > i => lifecycle[e][j].cause = "dispatch_lost"

LatestIsKept ==
    \A e \in Effects : \A b \in Branches : latest[e][b] \in Settling => IsSettled(e)

\* Who asks about a lost dispatch has adopted it.
AskersAdopted ==
    \A x \in Sweepers : \A e \in Effects : Asking(x, e) => Recorded(e, "dispatch_lost")

EffectInv ==
    /\ TypeOK
    /\ SweepsHold
    /\ EarlyRows
    /\ DispatchRows
    /\ ReceiptRows
    /\ LatestIsKept
    /\ AskersAdopted
    /\ OneAsker

-----------------------------------------------------------------------------
(* Lemmas on the operators.                                                *)

\* A set of naturals that is not empty has a least element.
LEMMA LeastNat ==
    ASSUME NEW T \in SUBSET Nat, T # {}
    PROVE  \E m \in T : \A k \in T : m <= k
<1> DEFINE R == {ss \in Nat \X Nat : ss[1] < ss[2]}
<1>1. IsWellFoundedOn(R, Nat)
  BY NatLessThanWellFounded DEF OpToRel
<1>2. \E m \in T : \A y \in T : ~(<<y, m>> \in R)
  <2> HIDE DEF R
  <2> QED BY <1>1, WFMin
<1>3. PICK m \in T : \A y \in T : ~(<<y, m>> \in R)
  BY <1>2
<1>4. ASSUME NEW k \in T PROVE m <= k
  <2>1. m \in Nat /\ k \in Nat
    OBVIOUS
  <2>2. ~(k < m)
    BY <1>3, <2>1
  <2> QED BY <2>1, <2>2
<1> QED BY <1>4

\* The candidate a sweep is at is one of those it holds.
LEMMA HeldIsHeld ==
    ASSUME TypeOK, NEW x \in Sweepers, sweeper[x].todo # {}
    PROVE  /\ Held(x) \in sweeper[x].todo
           /\ Held(x) \in Candidates
<1> DEFINE T == {c.place : c \in sweeper[x].todo}
<1>1. sweeper[x].todo \subseteq Candidates
  BY DEF TypeOK, SweeperStates
<1>2. T \in SUBSET Nat /\ T # {}
  BY <1>1 DEF Candidates
<1>3. PICK m \in T : \A k \in T : m <= k
  <2> HIDE DEF T
  <2> QED BY <1>2, LeastNat
<1>4. PICK c \in sweeper[x].todo : c.place = m
  OBVIOUS
<1>5. \A k \in sweeper[x].todo : c.place <= k.place
  BY <1>3, <1>4
<1>6. Held(x) \in sweeper[x].todo
  BY <1>5 DEF Held
<1> QED BY <1>1, <1>6

\* One more row of the lifecycle, of the effect it is appended to.
LEMMA AppendedRows ==
    ASSUME TypeOK, NEW e \in Effects, NEW r \in Transitions,
           lifecycle' = [lifecycle EXCEPT ![e] = Append(lifecycle[e], r)]
    PROVE  /\ lifecycle' \in [Effects -> Seq(Transitions)]
           /\ \A f \in Effects : f # e => lifecycle'[f] = lifecycle[f]
           /\ lifecycle'[e] = Append(lifecycle[e], r)
           /\ Len(lifecycle'[e]) = Len(lifecycle[e]) + 1
           /\ DOMAIN lifecycle'[e] = 1 .. (Len(lifecycle[e]) + 1)
           /\ lifecycle'[e][Len(lifecycle[e]) + 1] = r
           /\ \A j \in DOMAIN lifecycle[e] : lifecycle'[e][j] = lifecycle[e][j]
<1>1. lifecycle[e] \in Seq(Transitions)
  BY DEF TypeOK
<1>2. lifecycle \in [Effects -> Seq(Transitions)]
  BY DEF TypeOK
<1>3. lifecycle'[e] = Append(lifecycle[e], r)
  BY <1>2
<1>4. lifecycle' \in [Effects -> Seq(Transitions)]
  BY <1>1, <1>2
<1>5. \A f \in Effects : f # e => lifecycle'[f] = lifecycle[f]
  BY <1>2
<1>6. /\ Len(lifecycle'[e]) = Len(lifecycle[e]) + 1
      /\ DOMAIN lifecycle'[e] = 1 .. (Len(lifecycle[e]) + 1)
      /\ lifecycle'[e][Len(lifecycle[e]) + 1] = r
      /\ \A j \in DOMAIN lifecycle[e] : lifecycle'[e][j] = lifecycle[e][j]
  BY <1>1, <1>3
<1> QED BY <1>3, <1>4, <1>5, <1>6

LEMMA RowsAreTransitions ==
    /\ Row("prepared", "intent_recorded") \in Transitions
    /\ Row("authorized", "authorization_recorded") \in Transitions
    /\ Row("dispatching", "dispatch_started") \in Transitions
    /\ \A a \in Answers : Row(a, "receipt_recorded") \in Transitions
    /\ Row("unknown", "dispatch_lost") \in Transitions
    /\ Row("reconciling", "outcome_settled") \in Transitions
    /\ \A a \in {"confirmed", "failed"} : Row(a, "outcome_delivered") \in Transitions
BY DEF Row, Transitions, Answers

LEMMA RequeuedType ==
    ASSUME TypeOK, NEW e \in Effects
    PROVE  Requeued(e) \in [Effects -> Nat]
<1> DEFINE G == {g \in Effects : g = e \/ place[g] > 0}
<1>1. Cardinality(G) \in Nat
  <2>1. IsFiniteSet(G)
    <3>1. G \subseteq Effects
      OBVIOUS
    <3> QED BY <3>1, EffectConstants, FS_Subset
  <2> QED BY <2>1, FS_CardinalityType
<1>2. \A f \in Effects : place[f] \in Nat
  BY DEF TypeOK
<1>3. \A f \in Effects : Requeued(e)[f] \in Nat
  <2> SUFFICES ASSUME NEW f \in Effects PROVE Requeued(e)[f] \in Nat
    OBVIOUS
  <2>1. Requeued(e)[f] = CASE f = e -> Cardinality(G)
          [] f # e /\ 0 < place[e] /\ place[e] < place[f] -> place[f] - 1
          [] OTHER -> place[f]
    BY DEF Requeued
  <2> HIDE DEF G
  <2>2. CASE f = e
    BY <2>1, <2>2, <1>1
  <2>3. CASE f # e /\ 0 < place[e] /\ place[e] < place[f]
    BY <2>1, <2>3, <1>2
  <2>4. CASE f # e /\ ~(0 < place[e] /\ place[e] < place[f])
    BY <2>1, <2>4, <1>2
  <2> QED BY <2>2, <2>3, <2>4
<1>4. Requeued(e) = [f \in Effects |-> Requeued(e)[f]]
  BY DEF Requeued
<1> QED BY <1>3, <1>4

-----------------------------------------------------------------------------
(* Types.                                                                  *)

\* What the held candidate of a sweep that is not idle gives to work with.
LEMMA HeldTyped ==
    ASSUME TypeOK, SweepsHold, NEW x \in Sweepers, sweeper[x].pc # "idle"
    PROVE  /\ Held(x) \in sweeper[x].todo
           /\ Held(x).effect \in Effects
           /\ Held(x).branch \in Branches
           /\ ~Early(Held(x).effect)
<1>1. sweeper[x].todo # {}
  BY DEF SweepsHold
<1>2. Held(x) \in sweeper[x].todo /\ Held(x) \in Candidates
  BY <1>1, HeldIsHeld
<1>3. Held(x).effect \in Effects /\ Held(x).branch \in Branches
  BY <1>2 DEF Candidates
<1>4. ~Early(Held(x).effect)
  BY <1>2 DEF SweepsHold
<1> QED BY <1>2, <1>3, <1>4

\* What becomes of a sweeper that is done with its candidate.
LEMMA ContinuedSweeper ==
    ASSUME TypeOK, NEW x \in Sweepers, sweeper' = Continued(x)
    PROVE  /\ sweeper' \in [Sweepers -> SweeperStates]
           /\ \A y \in Sweepers : y # x => sweeper'[y] = sweeper[y]
           /\ sweeper'[x].todo \subseteq sweeper[x].todo
           /\ sweeper'[x].pc \in {"idle", "begin"}
           /\ (sweeper'[x].pc # "idle" /\ sweeper[x].todo # {}) => sweeper'[x].todo # {}
<1> DEFINE s == IF sweeper[x].todo = {Held(x)}
                  THEN IdleSweeper
                  ELSE [pc |-> "begin", todo |-> sweeper[x].todo \ {Held(x)},
                        old |-> sweeper[x].old]
<1>1. sweeper[x] \in SweeperStates /\ sweeper \in [Sweepers -> SweeperStates]
  BY DEF TypeOK
<1>2. sweeper' = [sweeper EXCEPT ![x] = s]
  BY DEF Continued
<1>3. /\ s \in SweeperStates
      /\ s.todo \subseteq sweeper[x].todo
      /\ s.pc \in {"idle", "begin"}
      /\ (s.pc # "idle" /\ sweeper[x].todo # {}) => s.todo # {}
  <2>1. CASE sweeper[x].todo = {Held(x)}
    BY <2>1 DEF SweeperStates, IdleSweeper, Outcomes, Settling
  <2>2. CASE sweeper[x].todo # {Held(x)}
    <3>1. s = [pc |-> "begin", todo |-> sweeper[x].todo \ {Held(x)}, old |-> sweeper[x].old]
      BY <2>2
    <3>2. sweeper[x].todo \in SUBSET Candidates /\ sweeper[x].old \in BOOLEAN
      BY <1>1 DEF SweeperStates
    <3>3. sweeper[x].todo # {} => sweeper[x].todo \ {Held(x)} # {}
      BY <2>2
    <3> HIDE DEF s
    <3> QED BY <3>1, <3>2, <3>3 DEF SweeperStates
  <2> QED BY <2>1, <2>2
<1> HIDE DEF s
<1>4. sweeper'[x] = s
  BY <1>1, <1>2
<1>5. sweeper' \in [Sweepers -> SweeperStates]
  BY <1>1, <1>2, <1>3
<1>6. \A y \in Sweepers : y # x => sweeper'[y] = sweeper[y]
  BY <1>1, <1>2
<1> QED BY <1>3, <1>4, <1>5, <1>6

\* What becomes of a sweeper that goes on with its candidate.
LEMMA SweeperMoves ==
    ASSUME TypeOK, NEW x \in Sweepers, NEW a \in {"ask", "unreachable"} \cup Outcomes,
           sweeper' = [sweeper EXCEPT ![x].pc = a]
    PROVE  /\ sweeper' \in [Sweepers -> SweeperStates]
           /\ \A y \in Sweepers : y # x => sweeper'[y] = sweeper[y]
           /\ sweeper'[x].todo = sweeper[x].todo
           /\ sweeper'[x].old = sweeper[x].old
           /\ sweeper'[x].pc = a
BY DEF TypeOK, SweeperStates

LEMMA StampedType ==
    ASSUME TypeOK, NEW x \in Sweepers, NEW e \in Effects, NEW mark \in Marks
    PROVE  Stamped(x, e, mark) \in [Effects -> SUBSET Marks]
BY DEF TypeOK, Stamped

\* Steps that write only what TypeOK says of one effect's own variables.
LEMMA PerformType ==
    ASSUME TypeOK, NEW e \in Effects, Perform(e) \/ Abandon(e) \/ Land(e)
    PROVE  TypeOK'
<1> USE DEF TypeOK, Answers, Settling, Outcomes
<1>1. CASE InsertIntent(e)
  <2>1. lifecycle' \in [Effects -> Seq(Transitions)]
    BY <1>1, AppendedRows, RowsAreTransitions DEF InsertIntent, Appended
  <2> QED BY <1>1, <2>1 DEF InsertIntent, clocks
<1>2. CASE Authorize(e)
  <2>1. lifecycle' \in [Effects -> Seq(Transitions)]
    <3>1. CASE lifecycle' = Appended(e, "authorized", "authorization_recorded")
      BY <3>1, AppendedRows, RowsAreTransitions DEF Appended
    <3>2. CASE UNCHANGED lifecycle
      BY <3>2
    <3> QED BY <1>2, <3>1, <3>2 DEF Authorize
  <2>2. performer' \in [Effects -> {"idle", "intended", "authorized", "dispatching",
                                   "calling", "done"} \cup Answers]
    BY <1>2 DEF Authorize
  <2> QED BY <1>2, <2>1, <2>2 DEF Authorize, clocks
<1>3. CASE RecordDispatch(e)
  <2>1. lifecycle' \in [Effects -> Seq(Transitions)]
    BY <1>3, AppendedRows, RowsAreTransitions DEF RecordDispatch, Appended
  <2>2. place' \in [Effects -> Nat]
    BY <1>3, RequeuedType DEF RecordDispatch
  <2> QED BY <1>3, <2>1, <2>2 DEF RecordDispatch, clocks
<1>4. CASE CallAdapter(e)
  BY <1>4 DEF CallAdapter, evidence, clocks
<1>5. CASE AdapterReturns(e)
  BY <1>5 DEF AdapterReturns, evidence, clocks
<1>6. CASE InsertReceipt(e)
  <2>1. PICK i \in 3 .. Len(lifecycle[e]) :
          lifecycle' = [lifecycle EXCEPT ![e] =
              Append(SubSeq(lifecycle[e], 1, i), Row(performer[e], "receipt_recorded"))
                \o SubSeq(lifecycle[e], i + 1, Len(lifecycle[e]))]
    BY <1>6 DEF InsertReceipt
  <2>2. Row(performer[e], "receipt_recorded") \in Transitions
    BY <1>6, RowsAreTransitions DEF InsertReceipt
  <2>3. lifecycle[e] \in Seq(Transitions) /\ lifecycle \in [Effects -> Seq(Transitions)]
    OBVIOUS
  <2>4. /\ SubSeq(lifecycle[e], 1, i) \in Seq(Transitions)
        /\ SubSeq(lifecycle[e], i + 1, Len(lifecycle[e])) \in Seq(Transitions)
    BY <2>3
  <2>5. Append(SubSeq(lifecycle[e], 1, i), Row(performer[e], "receipt_recorded"))
          \o SubSeq(lifecycle[e], i + 1, Len(lifecycle[e])) \in Seq(Transitions)
    BY <2>2, <2>4
  <2>6. lifecycle' \in [Effects -> Seq(Transitions)]
    BY <2>1, <2>3, <2>5
  <2>7. place' \in [Effects -> Nat]
    BY <1>6, RequeuedType DEF InsertReceipt
  <2> QED BY <1>6, <2>6, <2>7 DEF InsertReceipt, clocks
<1>7. CASE Abandon(e)
  BY <1>7 DEF Abandon, evidence, clocks
<1>8. CASE Land(e)
  BY <1>8 DEF Land, evidence, clocks
<1> QED BY <1>1, <1>2, <1>3, <1>4, <1>5, <1>6, <1>7, <1>8 DEF Perform

LEMMA TimeType ==
    ASSUME TypeOK, NEW e \in Effects,
           DeadlinePasses(e) \/ OwnerLapses(e) \/ OwnerReports(e) \/ Elapse(e)
    PROVE  TypeOK'
<1> USE DEF TypeOK
<1>1. CASE DeadlinePasses(e)
  BY <1>1 DEF DeadlinePasses, evidence
<1>2. CASE OwnerLapses(e)
  BY <1>2 DEF OwnerLapses, evidence
<1>3. CASE OwnerReports(e)
  BY <1>3 DEF OwnerReports, evidence
<1>4. CASE Elapse(e)
  BY <1>4 DEF Elapse, evidence, clocks
<1> QED BY <1>1, <1>2, <1>3, <1>4

\* What a sweep finds: the candidates of the batch, none of them before its
\* dispatch.
LEMMA DiscoverSweeper ==
    ASSUME TypeOK, EarlyRows, NEW x \in Sweepers, Discover(x)
    PROVE  /\ sweeper' \in [Sweepers -> SweeperStates]
           /\ \A y \in Sweepers : y # x => sweeper'[y] = sweeper[y]
           /\ sweeper'[x].pc = "begin"
           /\ sweeper'[x].todo # {}
           /\ \A c \in sweeper'[x].todo : ~Early(c.effect)
<1> DEFINE found == {AsCandidate(e) : e \in Oldest}
           s == [pc |-> "begin", todo |-> found, old |-> FALSE]
<1>1. Oldest \subseteq Effects /\ Oldest # {} /\ \A e \in Oldest : Candidate(e)
  BY DEF Discover, Oldest
<1>2. found # {} /\ found \subseteq Candidates
  <2>1. \A e \in Effects : AsCandidate(e) \in Candidates
    BY DEF AsCandidate, Candidates, Branches, TypeOK
  <2> QED BY <1>1, <2>1
<1>3. \A c \in found : ~Early(c.effect)
  <2> SUFFICES ASSUME NEW e \in Oldest PROVE ~Early(e)
    BY DEF AsCandidate
  <2>1. Candidate(e) /\ e \in Effects
    BY <1>1
  <2> SUFFICES ASSUME Early(e) PROVE FALSE
    OBVIOUS
  <2>2. receipt[e] = "none"
    BY <2>1 DEF EarlyRows, Early
  <2>3. /\ lifecycle[e] # << >>
        /\ Newest(e).status = "dispatching" \/ Newest(e).cause = "dispatch_lost"
    BY <2>1, <2>2 DEF Candidate, LostCandidate, ReceiptCandidate
  <2>4. CASE performer[e] = "idle"
    BY <2>1, <2>3, <2>4 DEF EarlyRows
  <2>5. CASE performer[e] = "intended"
    <3>1. lifecycle[e] = <<Row("prepared", "intent_recorded")>>
      BY <2>1, <2>5 DEF EarlyRows
    <3>2. Newest(e) = Row("prepared", "intent_recorded")
      BY <3>1 DEF Newest
    <3> QED BY <2>3, <3>2 DEF Row
  <2>6. CASE performer[e] = "authorized"
    <3>1. lifecycle[e] = <<Row("prepared", "intent_recorded"),
                           Row("authorized", "authorization_recorded")>>
      BY <2>1, <2>6 DEF EarlyRows
    <3>2. Newest(e) = Row("authorized", "authorization_recorded")
      BY <3>1 DEF Newest
    <3> QED BY <2>3, <3>2 DEF Row
  <2> QED BY <2>4, <2>5, <2>6 DEF Early
<1>4. sweeper' = [sweeper EXCEPT ![x] = s]
  BY DEF Discover
<1> HIDE DEF found
<1>5. s \in SweeperStates
  BY <1>2 DEF SweeperStates
<1>6. s.pc = "begin" /\ s.todo = found
  OBVIOUS
<1> HIDE DEF s
<1>7. sweeper \in [Sweepers -> SweeperStates]
  BY DEF TypeOK
<1>8. sweeper'[x] = s /\ sweeper' \in [Sweepers -> SweeperStates]
  BY <1>4, <1>5, <1>7
<1>9. \A y \in Sweepers : y # x => sweeper'[y] = sweeper[y]
  BY <1>4, <1>7
<1> QED BY <1>2, <1>3, <1>6, <1>8, <1>9

LEMMA SweepType ==
    ASSUME TypeOK, SweepsHold, EarlyRows, NEW x \in Sweepers,
           Discover(x) \/ Reconcile(x) \/ SweepStops(x) \/ SweepAges(x)
    PROVE  TypeOK'
<1>1. CASE Discover(x)
  BY <1>1, DiscoverSweeper DEF Discover, TypeOK, evidence, clocks
<1>2. CASE Adopt(x)
  <2> DEFINE e == Held(x).effect
  <2>1. e \in Effects
    BY <1>2, HeldTyped DEF Adopt, NeedsAdoption
  <2>2. lifecycle' \in [Effects -> Seq(Transitions)]
    BY <1>2, <2>1, AppendedRows, RowsAreTransitions DEF Adopt, Appended
  <2>3. place' \in [Effects -> Nat]
    BY <1>2, <2>1, RequeuedType DEF Adopt, TypeOK
  <2>4. recent' \in [Effects -> SUBSET Marks]
    BY <1>2, <2>1, StampedType DEF Adopt, Marks
  <2>5. sweeper' \in [Sweepers -> SweeperStates]
    BY <1>2, SweeperMoves DEF Adopt
  <2> QED BY <1>2, <2>2, <2>3, <2>4, <2>5 DEF Adopt, TypeOK, clocks
<1>3. CASE AlreadyAdopted(x)
  BY <1>3, ContinuedSweeper DEF AlreadyAdopted, TypeOK, evidence, clocks
<1>4. CASE Observe(x)
  <2>1. PICK a \in Outcomes \cup {"unreachable"} : sweeper' = [sweeper EXCEPT ![x].pc = a]
    BY <1>4 DEF Observe
  <2>2. sweeper' \in [Sweepers -> SweeperStates]
    BY <2>1, SweeperMoves
  <2> QED BY <1>4, <2>2 DEF Observe, TypeOK, evidence, clocks
<1>5. CASE InsertReconciliation(x)
  <2> DEFINE e == Held(x).effect
             b == Held(x).branch
             o == sweeper[x].pc
  <2>1. o \in Outcomes
    BY <1>5 DEF InsertReconciliation
  <2>2. e \in Effects /\ b \in Branches
    BY <2>1, HeldTyped DEF Outcomes, Settling
  <2>3. lifecycle' \in [Effects -> Seq(Transitions)]
    <3>1. CASE o \in Settling
      BY <1>5, <2>2, <3>1, AppendedRows, RowsAreTransitions DEF InsertReconciliation, Appended
    <3>2. CASE o \notin Settling
      BY <1>5, <3>2 DEF InsertReconciliation, TypeOK
    <3> QED BY <3>1, <3>2
  <2>4. settled' \in Seq(Reconciliations)
    <3>1. CASE o \in Settling
      <4>1. settled' = Append(settled, [effect |-> e, branch |-> b,
                                        outcome |-> o, notified |-> FALSE])
        BY <1>5, <3>1 DEF InsertReconciliation
      <4>2. [effect |-> e, branch |-> b, outcome |-> o, notified |-> FALSE] \in Reconciliations
        BY <2>2, <3>1 DEF Reconciliations
      <4>3. settled \in Seq(Reconciliations)
        BY DEF TypeOK
      <4> QED BY <4>1, <4>2, <4>3
    <3>2. CASE o \notin Settling
      BY <1>5, <3>2 DEF InsertReconciliation, TypeOK
    <3> QED BY <3>1, <3>2
  <2>5. latest' \in [Effects -> [Branches -> Outcomes \cup {"none"}]]
    <3>1. latest' = latest \/ latest' = [latest EXCEPT ![e][b] = o]
      BY <1>5 DEF InsertReconciliation
    <3>2. latest \in [Effects -> [Branches -> Outcomes \cup {"none"}]]
      BY DEF TypeOK
    <3> HIDE DEF e, b, o
    <3> QED BY <3>1, <3>2, <2>1, <2>2
  <2>6. recent' \in [Effects -> SUBSET Marks]
    <3>1. recent' = recent \/ recent' = Stamped(x, e, b)
      BY <1>5 DEF InsertReconciliation
    <3>2. b \in Marks
      BY <2>2 DEF Marks
    <3> QED BY <3>1, <3>2, <2>2, StampedType DEF TypeOK
  <2>7. sweeper' \in [Sweepers -> SweeperStates]
    BY <1>5, ContinuedSweeper DEF InsertReconciliation
  <2> QED BY <1>5, <2>3, <2>4, <2>5, <2>6, <2>7 DEF InsertReconciliation, TypeOK, clocks
<1>6. CASE RecordFailedAttempt(x)
  <2>1. Held(x).effect \in Effects
    BY <1>6, HeldTyped DEF RecordFailedAttempt
  <2>2. recent' \in [Effects -> SUBSET Marks]
    BY <1>6, <2>1, StampedType DEF RecordFailedAttempt, Marks
  <2> QED BY <1>6, <2>2, ContinuedSweeper DEF RecordFailedAttempt, TypeOK, evidence, clocks
<1>7. CASE SweepStops(x)
  <2>1. IdleSweeper \in SweeperStates
    BY DEF IdleSweeper, SweeperStates
  <2> QED BY <1>7, <2>1 DEF SweepStops, TypeOK, evidence, clocks
<1>8. CASE SweepAges(x)
  <2>1. sweeper' \in [Sweepers -> SweeperStates]
    BY <1>8 DEF SweepAges, TypeOK, SweeperStates
  <2> QED BY <1>8, <2>1 DEF SweepAges, TypeOK, evidence, clocks
<1> QED BY <1>1, <1>2, <1>3, <1>4, <1>5, <1>6, <1>7, <1>8 DEF Reconcile

-----------------------------------------------------------------------------
(* What the evidence holds.                                                *)

RowsInv == EarlyRows /\ DispatchRows /\ ReceiptRows /\ LatestIsKept

\* A step that writes no evidence, and starts nothing.
LEMMA QuietRows ==
    ASSUME TypeOK, RowsInv, UNCHANGED evidence,
           \A e \in Effects : Sent(e)' => Sent(e),
           \A e \in Effects : Early(e)' => performer'[e] = performer[e] /\ world'[e] = world[e],
           \A e \in Effects : performer'[e] # "done" => performer[e] # "done"
    PROVE  RowsInv'
<1>1. receipt' = receipt /\ lifecycle' = lifecycle /\ latest' = latest /\ settled' = settled
  BY DEF evidence
<1>2. \A e \in Effects : IsSettled(e)' <=> IsSettled(e)
  BY <1>1 DEF IsSettled
<1>3. EarlyRows'
  <2> SUFFICES ASSUME NEW e \in Effects
               PROVE  /\ Early(e)' => world'[e] = "untouched"
                      /\ performer'[e] # "done" => receipt'[e] = "none"
                      /\ performer'[e] = "idle" => lifecycle'[e] = << >>
                      /\ performer'[e] = "intended" =>
                            lifecycle'[e] = <<Row("prepared", "intent_recorded")>>
                      /\ performer'[e] = "authorized" =>
                            lifecycle'[e] = <<Row("prepared", "intent_recorded"),
                                              Row("authorized", "authorization_recorded")>>
    BY DEF EarlyRows, Row
  <2>1. CASE Early(e)'
    <3>1. performer'[e] = performer[e] /\ world'[e] = world[e]
      BY <2>1
    <3> QED BY <3>1, <1>1 DEF RowsInv, EarlyRows, Early
  <2>2. CASE ~Early(e)'
    BY <2>2, <1>1 DEF RowsInv, EarlyRows, Early
  <2> QED BY <2>1, <2>2
<1>4. DispatchRows'
  BY <1>1, <1>2 DEF RowsInv, DispatchRows, Row
<1>5. ReceiptRows'
  BY <1>1, <1>2 DEF RowsInv, ReceiptRows, Row
<1>6. LatestIsKept'
  BY <1>1, <1>2 DEF RowsInv, LatestIsKept
<1> QED BY <1>3, <1>4, <1>5, <1>6 DEF RowsInv

\* The steps of an effect that leave the evidence alone.
LEMMA QuietPerform ==
    ASSUME TypeOK, RowsInv, NEW e \in Effects,
           CallAdapter(e) \/ AdapterReturns(e) \/ Abandon(e) \/ Land(e)
    PROVE  RowsInv'
<1> USE DEF TypeOK, Answers
<1>1. UNCHANGED evidence
  BY DEF CallAdapter, AdapterReturns, Abandon, Land
<1>2. \A f \in Effects : f # e => performer'[f] = performer[f] /\ world'[f] = world[f]
  BY DEF CallAdapter, AdapterReturns, Abandon, Land
<1>3. Sent(e)' => Sent(e)
  BY DEF CallAdapter, AdapterReturns, Abandon, Land, Sent
<1>4. Early(e)' => performer'[e] = performer[e] /\ world'[e] = world[e]
  <2>1. CASE CallAdapter(e)
    BY <2>1 DEF CallAdapter, Early
  <2>2. CASE AdapterReturns(e)
    BY <2>2 DEF AdapterReturns, Early
  <2>3. CASE Abandon(e)
    BY <2>3 DEF Abandon, Early
  <2>4. CASE Land(e)
    <3>1. ~Early(e)
      BY <2>4 DEF Land, RowsInv, EarlyRows
    <3> QED BY <2>4, <3>1 DEF Land, Early
  <2> QED BY <2>1, <2>2, <2>3, <2>4
<1>5. performer'[e] # "done" => performer[e] # "done"
  BY DEF CallAdapter, AdapterReturns, Abandon, Land
<1>6. \A f \in Effects : Sent(f)' => Sent(f)
  BY <1>2, <1>3 DEF Sent
<1>7. \A f \in Effects : Early(f)' => performer'[f] = performer[f] /\ world'[f] = world[f]
  BY <1>2, <1>4
<1>8. \A f \in Effects : performer'[f] # "done" => performer[f] # "done"
  BY <1>2, <1>5
<1> QED BY <1>1, <1>6, <1>7, <1>8, QuietRows

\* The steps of time and of the sweepers that leave the evidence alone.
LEMMA QuietOthers ==
    ASSUME TypeOK, RowsInv, UNCHANGED <<performer, world, evidence>>
    PROVE  RowsInv'
<1>1. \A e \in Effects : Sent(e)' => Sent(e)
  BY DEF Sent
<1>2. \A e \in Effects : Early(e)' => performer'[e] = performer[e] /\ world'[e] = world[e]
  OBVIOUS
<1>3. \A e \in Effects : performer'[e] # "done" => performer[e] # "done"
  OBVIOUS
<1> QED BY <1>1, <1>2, <1>3, QuietRows

\* The rows of a dispatch, one after the other.
LEMMA RowsInOrder ==
    ASSUME NEW S, NEW a \in S, NEW b \in S, NEW c \in S
    PROVE  /\ Append(<<a>>, b) = <<a, b>>
           /\ Append(<<a, b>>, c) = <<a, b, c>>
<1>1. Append(<<a>>, b) = <<a, b>>
  <2> DEFINE s == Append(<<a>>, b)
             t == <<a, b>>
  <2>1. s \in Seq(S) /\ t \in Seq(S) /\ Len(s) = 2 /\ Len(t) = 2
    OBVIOUS
  <2>2. s[1] = t[1] /\ s[2] = t[2]
    OBVIOUS
  <2>3. \A i \in 1 .. 2 : s[i] = t[i]
    <3> HIDE DEF s, t
    <3> QED BY <2>2
  <2>4. s = t
    <3> HIDE DEF s, t
    <3> QED BY <2>1, <2>3, SeqEqual
  <2> QED BY <2>4
<1>2. Append(<<a, b>>, c) = <<a, b, c>>
  <2> DEFINE s == Append(<<a, b>>, c)
             t == <<a, b, c>>
  <2>1. s \in Seq(S) /\ t \in Seq(S) /\ Len(s) = 3 /\ Len(t) = 3
    OBVIOUS
  <2>2. s[1] = t[1] /\ s[2] = t[2] /\ s[3] = t[3]
    OBVIOUS
  <2>3. \A i \in 1 .. 3 : s[i] = t[i]
    <3> HIDE DEF s, t
    <3> QED BY <2>2
  <2>4. s = t
    <3> HIDE DEF s, t
    <3> QED BY <2>1, <2>3, SeqEqual
  <2> QED BY <2>4
<1> QED BY <1>1, <1>2

\* A row appended to one effect, at which its performer moves on from an early
\* position.
LEMMA EarlyStepRows ==
    ASSUME TypeOK, RowsInv, NEW e \in Effects,
           InsertIntent(e) \/ Authorize(e) \/ RecordDispatch(e)
    PROVE  RowsInv'
<1>1. /\ world' = world /\ receipt' = receipt /\ latest' = latest /\ settled' = settled
      /\ \A f \in Effects : f # e => performer'[f] = performer[f]
      /\ Early(e) /\ world[e] = "untouched" /\ receipt[e] = "none"
  <2>1. Early(e)
    BY DEF InsertIntent, Authorize, RecordDispatch, Early
  <2>2. world[e] = "untouched" /\ receipt[e] = "none"
    BY <2>1 DEF RowsInv, EarlyRows, Early
  <2> QED BY <2>1, <2>2 DEF InsertIntent, Authorize, RecordDispatch, TypeOK
<1>2. \A f \in Effects : f # e => lifecycle'[f] = lifecycle[f]
  BY DEF InsertIntent, Authorize, RecordDispatch, TypeOK, Appended
<1>3. \A f \in Effects : IsSettled(f)' <=> IsSettled(f)
  BY <1>1 DEF IsSettled
<1>4. /\ performer'[e] \in {"intended", "authorized", "dispatching", "done"}
      /\ performer'[e] = "intended" =>
            lifecycle'[e] = <<Row("prepared", "intent_recorded")>>
      /\ performer'[e] = "authorized" =>
            lifecycle'[e] = <<Row("prepared", "intent_recorded"),
                              Row("authorized", "authorization_recorded")>>
      /\ performer'[e] = "dispatching" =>
            lifecycle'[e] = <<Row("prepared", "intent_recorded"),
                              Row("authorized", "authorization_recorded"),
                              Row("dispatching", "dispatch_started")>>
  <2>1. CASE InsertIntent(e)
    <3>1. lifecycle[e] = << >>
      BY <2>1 DEF InsertIntent, RowsInv, EarlyRows
    <3>2. lifecycle'[e] = Append(lifecycle[e], Row("prepared", "intent_recorded"))
      BY <2>1 DEF InsertIntent, Appended, TypeOK
    <3>3. performer'[e] = "intended"
      BY <2>1 DEF InsertIntent, TypeOK
    <3> QED BY <3>1, <3>2, <3>3
  <2>2. CASE Authorize(e)
    <3>1. lifecycle[e] = <<Row("prepared", "intent_recorded")>>
      BY <2>2 DEF Authorize, RowsInv, EarlyRows
    <3>2. CASE performer' = [performer EXCEPT ![e] = "authorized"]
               /\ lifecycle' = Appended(e, "authorized", "authorization_recorded")
      <4>1. lifecycle'[e] = Append(lifecycle[e], Row("authorized", "authorization_recorded"))
        BY <3>2 DEF Appended, TypeOK
      <4>2. performer'[e] = "authorized"
        BY <3>2 DEF TypeOK
      <4>3. lifecycle'[e] = <<Row("prepared", "intent_recorded"),
                              Row("authorized", "authorization_recorded")>>
        BY <3>1, <4>1, RowsInOrder, RowsAreTransitions
      <4> QED BY <4>2, <4>3
    <3>3. CASE performer' = [performer EXCEPT ![e] = "done"]
      BY <3>3 DEF TypeOK
    <3> QED BY <2>2, <3>2, <3>3 DEF Authorize
  <2>3. CASE RecordDispatch(e)
    <3>1. lifecycle[e] = <<Row("prepared", "intent_recorded"),
                           Row("authorized", "authorization_recorded")>>
      BY <2>3 DEF RecordDispatch, RowsInv, EarlyRows
    <3>2. lifecycle'[e] = Append(lifecycle[e], Row("dispatching", "dispatch_started"))
      BY <2>3 DEF RecordDispatch, Appended, TypeOK
    <3>3. performer'[e] = "dispatching"
      BY <2>3 DEF RecordDispatch, TypeOK
    <3>4. lifecycle'[e] = <<Row("prepared", "intent_recorded"),
                            Row("authorized", "authorization_recorded"),
                            Row("dispatching", "dispatch_started")>>
      BY <3>1, <3>2, RowsInOrder, RowsAreTransitions
    <3> QED BY <3>3, <3>4
  <2> QED BY <2>1, <2>2, <2>3
<1>5. EarlyRows'
  <2> SUFFICES ASSUME NEW f \in Effects
               PROVE  /\ Early(f)' => world'[f] = "untouched"
                      /\ performer'[f] # "done" => receipt'[f] = "none"
                      /\ performer'[f] = "idle" => lifecycle'[f] = << >>
                      /\ performer'[f] = "intended" =>
                            lifecycle'[f] = <<Row("prepared", "intent_recorded")>>
                      /\ performer'[f] = "authorized" =>
                            lifecycle'[f] = <<Row("prepared", "intent_recorded"),
                                              Row("authorized", "authorization_recorded")>>
    BY DEF EarlyRows, Row
  <2>1. CASE f = e
    BY <2>1, <1>1, <1>4
  <2>2. CASE f # e
    BY <2>2, <1>1, <1>2 DEF RowsInv, EarlyRows, Early
  <2> QED BY <2>1, <2>2
<1>6. DispatchRows'
  <2> SUFFICES ASSUME NEW f \in Effects, Sent(f)', receipt'[f] = "none"
               PROVE  /\ Len(lifecycle'[f]) >= 3
                      /\ lifecycle'[f][3] = Row("dispatching", "dispatch_started")
                      /\ ~IsSettled(f)' => \A j \in DOMAIN lifecycle'[f] :
                            j > 3 => lifecycle'[f][j].cause = "dispatch_lost"
    BY DEF DispatchRows, Row
  <2>1. CASE f = e
    <3>1. performer'[e] = "dispatching"
      BY <2>1, <1>1, <1>4 DEF Sent, Answers
    <3>2. lifecycle'[e] = <<Row("prepared", "intent_recorded"),
                            Row("authorized", "authorization_recorded"),
                            Row("dispatching", "dispatch_started")>>
      BY <3>1, <1>4
    <3> QED BY <2>1, <3>2
  <2>2. CASE f # e
    BY <2>2, <1>1, <1>2, <1>3 DEF RowsInv, DispatchRows, Sent
  <2> QED BY <2>1, <2>2
<1>7. ReceiptRows'
  <2> SUFFICES ASSUME NEW f \in Effects, receipt'[f] # "none", ~IsSettled(f)'
               PROVE  \E i \in DOMAIN lifecycle'[f] :
                        /\ lifecycle'[f][i] = Row(receipt'[f], "receipt_recorded")
                        /\ \A j \in DOMAIN lifecycle'[f] :
                              j > i => lifecycle'[f][j].cause = "dispatch_lost"
    BY DEF ReceiptRows, Row
  <2>1. f # e
    BY <1>1
  <2> QED BY <2>1, <1>1, <1>2, <1>3 DEF RowsInv, ReceiptRows
<1>8. LatestIsKept'
  BY <1>1, <1>3 DEF RowsInv, LatestIsKept
<1> QED BY <1>5, <1>6, <1>7, <1>8 DEF RowsInv

\* A row put in after the i-th.
Inserted(s, i, r) == Append(SubSeq(s, 1, i), r) \o SubSeq(s, i + 1, Len(s))

LEMMA InsertedRows ==
    ASSUME NEW S, NEW s \in Seq(S), NEW r \in S, NEW i \in 1 .. Len(s)
    PROVE  /\ DOMAIN Inserted(s, i, r) = 1 .. (Len(s) + 1)
           /\ Inserted(s, i, r)[i + 1] = r
           /\ \A j \in 1 .. i : Inserted(s, i, r)[j] = s[j]
           /\ \A j \in DOMAIN Inserted(s, i, r) : j > i + 1 => Inserted(s, i, r)[j] = s[j - 1]
           /\ \A j \in DOMAIN s : \E k \in DOMAIN Inserted(s, i, r) : Inserted(s, i, r)[k] = s[j]
<1> DEFINE a == SubSeq(s, 1, i)
           b == Append(a, r)
           c == SubSeq(s, i + 1, Len(s))
           new == b \o c
<1>1. a \in Seq(S) /\ Len(a) = i /\ \A j \in 1 .. i : a[j] = s[j]
  OBVIOUS
<1>2. c \in Seq(S) /\ Len(c) = Len(s) - i /\ \A j \in 1 .. (Len(s) - i) : c[j] = s[i + j]
  OBVIOUS
<1> HIDE DEF a, c
<1>3. b \in Seq(S) /\ Len(b) = i + 1 /\ b[i + 1] = r /\ \A j \in 1 .. i : b[j] = s[j]
  BY <1>1
<1> HIDE DEF b
<1>4. /\ new \in Seq(S)
      /\ Len(new) = Len(b) + Len(c)
      /\ \A j \in 1 .. (Len(b) + Len(c)) :
            new[j] = IF j <= Len(b) THEN b[j] ELSE c[j - Len(b)]
  BY <1>2, <1>3, ConcatProperties
<1> HIDE DEF new
<1>5. Len(s) \in Nat /\ i \in Nat /\ i >= 1 /\ i <= Len(s)
  OBVIOUS
<1>6. Len(new) = Len(s) + 1 /\ DOMAIN new = 1 .. (Len(s) + 1)
  BY <1>2, <1>3, <1>4, <1>5
<1>7. \A j \in 1 .. (Len(s) + 1) :
         new[j] = IF j <= i + 1 THEN b[j] ELSE c[j - (i + 1)]
  <2>1. Len(b) + Len(c) = Len(s) + 1
    BY <1>2, <1>3, <1>5
  <2> QED BY <1>3, <1>4, <2>1
<1>8. ASSUME NEW j \in DOMAIN new, j > i + 1 PROVE new[j] = s[j - 1]
  <2>1. j \in 1 .. (Len(s) + 1)
    BY <1>6
  <2>2. j - (i + 1) \in 1 .. (Len(s) - i) /\ i + (j - (i + 1)) = j - 1
    BY <1>5, <1>8, <2>1
  <2>3. new[j] = c[j - (i + 1)]
    BY <1>5, <1>7, <1>8, <2>1
  <2> QED BY <1>2, <2>2, <2>3
<1>9. /\ DOMAIN new = 1 .. (Len(s) + 1)
      /\ new[i + 1] = r
      /\ \A j \in 1 .. i : new[j] = s[j]
      /\ \A j \in DOMAIN new : j > i + 1 => new[j] = s[j - 1]
  <2>1. new[i + 1] = b[i + 1]
    BY <1>5, <1>7
  <2>2. ASSUME NEW j \in 1 .. i PROVE new[j] = s[j]
    BY <1>3, <1>5, <1>7
  <2> QED BY <1>3, <1>6, <1>8, <2>1, <2>2
<1>10. ASSUME NEW j \in DOMAIN s PROVE \E k \in DOMAIN new : new[k] = s[j]
  <2>1. j \in Nat /\ j >= 1 /\ j <= Len(s)
    OBVIOUS
  <2>2. CASE j <= i
    <3>1. new[j] = b[j] /\ b[j] = s[j]
      BY <1>3, <1>5, <1>7, <2>1, <2>2
    <3>2. j \in DOMAIN new
      BY <1>5, <1>6, <2>1
    <3> QED BY <3>1, <3>2
  <2>3. CASE j > i
    <3>1. j + 1 \in DOMAIN new /\ j + 1 > i + 1 /\ (j + 1) - 1 = j
      BY <1>5, <1>6, <2>1, <2>3
    <3> QED BY <1>8, <3>1
  <2> QED BY <1>5, <2>1, <2>2, <2>3
<1> QED BY <1>9, <1>10 DEF Inserted, new, b, a, c

\* The receipt goes in after the dispatch, and only adoptions stand behind it.
LEMMA ReceiptStepRows ==
    ASSUME TypeOK, RowsInv, NEW e \in Effects, InsertReceipt(e)
    PROVE  RowsInv'
<1>1. /\ world' = world /\ latest' = latest /\ settled' = settled
      /\ performer'[e] = "done" /\ receipt'[e] = performer[e] /\ performer[e] \in Answers
      /\ \A f \in Effects : f # e => /\ performer'[f] = performer[f]
                                     /\ receipt'[f] = receipt[f]
                                     /\ lifecycle'[f] = lifecycle[f]
  BY DEF InsertReceipt, TypeOK
<1>2. \A f \in Effects : IsSettled(f)' <=> IsSettled(f)
  BY <1>1 DEF IsSettled
<1>3. Sent(e) /\ receipt[e] = "none"
  BY <1>1 DEF RowsInv, EarlyRows, Sent, Answers
<1>4. EarlyRows'
  <2> SUFFICES ASSUME NEW f \in Effects
               PROVE  /\ Early(f)' => world'[f] = "untouched"
                      /\ performer'[f] # "done" => receipt'[f] = "none"
                      /\ performer'[f] = "idle" => lifecycle'[f] = << >>
                      /\ performer'[f] = "intended" =>
                            lifecycle'[f] = <<Row("prepared", "intent_recorded")>>
                      /\ performer'[f] = "authorized" =>
                            lifecycle'[f] = <<Row("prepared", "intent_recorded"),
                                              Row("authorized", "authorization_recorded")>>
    BY DEF EarlyRows, Row
  <2>1. CASE f = e
    BY <2>1, <1>1 DEF Early
  <2>2. CASE f # e
    BY <2>2, <1>1 DEF RowsInv, EarlyRows, Early
  <2> QED BY <2>1, <2>2
<1>5. DispatchRows'
  <2> SUFFICES ASSUME NEW f \in Effects, Sent(f)', receipt'[f] = "none"
               PROVE  /\ Len(lifecycle'[f]) >= 3
                      /\ lifecycle'[f][3] = Row("dispatching", "dispatch_started")
                      /\ ~IsSettled(f)' => \A j \in DOMAIN lifecycle'[f] :
                            j > 3 => lifecycle'[f][j].cause = "dispatch_lost"
    BY DEF DispatchRows, Row
  <2>1. f # e
    BY <1>1 DEF Answers
  <2> QED BY <2>1, <1>1, <1>2 DEF RowsInv, DispatchRows, Sent
<1>6. ReceiptRows'
  <2> SUFFICES ASSUME NEW f \in Effects, receipt'[f] # "none", ~IsSettled(f)'
               PROVE  \E i \in DOMAIN lifecycle'[f] :
                        /\ lifecycle'[f][i] = Row(receipt'[f], "receipt_recorded")
                        /\ \A j \in DOMAIN lifecycle'[f] :
                              j > i => lifecycle'[f][j].cause = "dispatch_lost"
    BY DEF ReceiptRows, Row
  <2>1. CASE f # e
    BY <2>1, <1>1, <1>2 DEF RowsInv, ReceiptRows
  <2>2. CASE f = e
    <3> DEFINE r == Row(performer[e], "receipt_recorded")
    <3>1. r \in Transitions
      BY <1>1, RowsAreTransitions
    <3>2. r = Row(receipt'[e], "receipt_recorded")
      BY <1>1
    <3> HIDE DEF r
    <3>3. lifecycle[e] \in Seq(Transitions)
      BY DEF TypeOK
    <3>4. PICK i \in 3 .. Len(lifecycle[e]) :
             lifecycle'[e] = Inserted(lifecycle[e], i, r)
      BY DEF InsertReceipt, TypeOK, r, Inserted
    <3>5. i \in 1 .. Len(lifecycle[e]) /\ i >= 3
      BY <3>3
    <3>6. /\ DOMAIN lifecycle'[e] = 1 .. (Len(lifecycle[e]) + 1)
          /\ lifecycle'[e][i + 1] = r
          /\ \A j \in DOMAIN lifecycle'[e] : j > i + 1 => lifecycle'[e][j] = lifecycle[e][j - 1]
      BY <3>1, <3>3, <3>4, <3>5, InsertedRows
    <3>7. \A j \in DOMAIN lifecycle[e] : j > 3 => lifecycle[e][j].cause = "dispatch_lost"
      BY <1>2, <1>3, <2>2 DEF RowsInv, DispatchRows
    <3>8. ASSUME NEW j \in DOMAIN lifecycle'[e], j > i + 1
          PROVE  lifecycle'[e][j].cause = "dispatch_lost"
      <4>1. j - 1 \in DOMAIN lifecycle[e] /\ j - 1 > 3
        BY <3>3, <3>5, <3>6, <3>8
      <4> QED BY <3>6, <3>7, <3>8, <4>1
    <3>9. i + 1 \in DOMAIN lifecycle'[e]
      BY <3>3, <3>5, <3>6
    <3> QED BY <2>2, <3>2, <3>6, <3>8, <3>9
  <2> QED BY <2>1, <2>2
<1>7. LatestIsKept'
  BY <1>1, <1>2 DEF RowsInv, LatestIsKept
<1> QED BY <1>4, <1>5, <1>6, <1>7 DEF RowsInv

\* A row appended after the dispatch: an adoption, or one that comes with a
\* settlement.
LEMMA LaterRows ==
    ASSUME TypeOK, RowsInv, NEW e \in Effects, ~Early(e), NEW r \in Transitions,
           lifecycle' = [lifecycle EXCEPT ![e] = Append(lifecycle[e], r)],
           UNCHANGED <<performer, world, receipt>>,
           \A f \in Effects : IsSettled(f) => IsSettled(f)',
           r.cause = "dispatch_lost" \/ IsSettled(e)'
    PROVE  EarlyRows' /\ DispatchRows' /\ ReceiptRows'
<1>1. /\ \A f \in Effects : f # e => lifecycle'[f] = lifecycle[f]
      /\ DOMAIN lifecycle'[e] = 1 .. (Len(lifecycle[e]) + 1)
      /\ Len(lifecycle'[e]) = Len(lifecycle[e]) + 1
      /\ lifecycle'[e][Len(lifecycle[e]) + 1] = r
      /\ \A j \in DOMAIN lifecycle[e] : lifecycle'[e][j] = lifecycle[e][j]
  BY AppendedRows
<1>2. Len(lifecycle[e]) \in Nat /\ DOMAIN lifecycle[e] = 1 .. Len(lifecycle[e])
  BY DEF TypeOK
<1>3. \A f \in Effects : (Sent(f)' <=> Sent(f)) /\ (Early(f)' <=> Early(f))
  BY DEF Sent, Early
<1>4. EarlyRows'
  <2> SUFFICES ASSUME NEW f \in Effects
               PROVE  /\ Early(f)' => world'[f] = "untouched"
                      /\ performer'[f] # "done" => receipt'[f] = "none"
                      /\ performer'[f] = "idle" => lifecycle'[f] = << >>
                      /\ performer'[f] = "intended" =>
                            lifecycle'[f] = <<Row("prepared", "intent_recorded")>>
                      /\ performer'[f] = "authorized" =>
                            lifecycle'[f] = <<Row("prepared", "intent_recorded"),
                                              Row("authorized", "authorization_recorded")>>
    BY DEF EarlyRows, Row
  <2>1. CASE f = e
    BY <2>1, <1>3 DEF RowsInv, EarlyRows, Early
  <2>2. CASE f # e
    BY <2>2, <1>1, <1>3 DEF RowsInv, EarlyRows
  <2> QED BY <2>1, <2>2
<1>5. DispatchRows'
  <2> SUFFICES ASSUME NEW f \in Effects, Sent(f)', receipt'[f] = "none"
               PROVE  /\ Len(lifecycle'[f]) >= 3
                      /\ lifecycle'[f][3] = Row("dispatching", "dispatch_started")
                      /\ ~IsSettled(f)' => \A j \in DOMAIN lifecycle'[f] :
                            j > 3 => lifecycle'[f][j].cause = "dispatch_lost"
    BY DEF DispatchRows, Row
  <2>1. /\ Len(lifecycle[f]) >= 3
        /\ lifecycle[f][3] = Row("dispatching", "dispatch_started")
        /\ ~IsSettled(f)' => \A j \in DOMAIN lifecycle[f] :
                            j > 3 => lifecycle[f][j].cause = "dispatch_lost"
    BY <1>3 DEF RowsInv, DispatchRows
  <2>2. CASE f = e
    BY <1>1, <1>2, <2>1, <2>2
  <2>3. CASE f # e
    BY <1>1, <2>1, <2>3
  <2> QED BY <2>2, <2>3
<1>6. ReceiptRows'
  <2> SUFFICES ASSUME NEW f \in Effects, receipt'[f] # "none", ~IsSettled(f)'
               PROVE  \E i \in DOMAIN lifecycle'[f] :
                        /\ lifecycle'[f][i] = Row(receipt'[f], "receipt_recorded")
                        /\ \A j \in DOMAIN lifecycle'[f] :
                              j > i => lifecycle'[f][j].cause = "dispatch_lost"
    BY DEF ReceiptRows, Row
  <2>1. PICK i \in DOMAIN lifecycle[f] :
           /\ lifecycle[f][i] = Row(receipt[f], "receipt_recorded")
           /\ \A j \in DOMAIN lifecycle[f] : j > i => lifecycle[f][j].cause = "dispatch_lost"
    BY DEF RowsInv, ReceiptRows
  <2>2. CASE f = e
    <3>1. i \in DOMAIN lifecycle'[f] /\ lifecycle'[f][i] = Row(receipt'[f], "receipt_recorded")
      BY <1>1, <1>2, <2>1, <2>2
    <3>2. \A j \in DOMAIN lifecycle'[f] : j > i => lifecycle'[f][j].cause = "dispatch_lost"
      BY <1>1, <1>2, <2>1, <2>2
    <3> QED BY <3>1, <3>2
  <2>3. CASE f # e
    BY <1>1, <2>1, <2>3
  <2> QED BY <2>2, <2>3
<1> QED BY <1>4, <1>5, <1>6

LEMMA AdoptRows ==
    ASSUME TypeOK, SweepsHold, RowsInv, NEW x \in Sweepers, Adopt(x)
    PROVE  RowsInv'
<1> DEFINE e == Held(x).effect
           r == Row("unknown", "dispatch_lost")
<1>1. e \in Effects /\ ~Early(e)
  BY HeldTyped DEF Adopt, NeedsAdoption
<1>2. r \in Transitions /\ r.cause = "dispatch_lost"
  BY RowsAreTransitions DEF Row
<1>3. /\ lifecycle' = [lifecycle EXCEPT ![e] = Append(lifecycle[e], r)]
      /\ performer' = performer /\ world' = world /\ receipt' = receipt
      /\ latest' = latest /\ settled' = settled
  BY DEF Adopt, Appended
<1> HIDE DEF e, r
<1>4. \A f \in Effects : IsSettled(f)' <=> IsSettled(f)
  BY <1>3 DEF IsSettled
<1>5. EarlyRows' /\ DispatchRows' /\ ReceiptRows'
  BY <1>1, <1>2, <1>3, <1>4, LaterRows
<1>6. LatestIsKept'
  BY <1>3, <1>4 DEF RowsInv, LatestIsKept
<1> QED BY <1>5, <1>6 DEF RowsInv

\* A settlement is recorded with the row it adds.
LEMMA ReconciliationRows ==
    ASSUME TypeOK, SweepsHold, RowsInv, NEW x \in Sweepers, InsertReconciliation(x)
    PROVE  RowsInv'
<1> DEFINE o == sweeper[x].pc
<1>1. o \in Outcomes
  BY DEF InsertReconciliation
<1>2. PICK e \in Effects : e = Held(x).effect /\ ~Early(e)
  BY <1>1, HeldTyped DEF Outcomes, Settling
<1>3b. PICK b \in Branches : b = Held(x).branch
  BY <1>1, HeldTyped DEF Outcomes, Settling
<1> DEFINE q == [effect |-> e, branch |-> b, outcome |-> o, notified |-> FALSE]
           r == Row("reconciling", "outcome_settled")
<1>3. latest' = latest \/ latest' = [latest EXCEPT ![e][b] = o]
  BY <1>2, <1>3b DEF InsertReconciliation
<1>4. performer' = performer /\ world' = world /\ receipt' = receipt
  BY DEF InsertReconciliation
<1>5. \/ /\ o \in Settling
         /\ lifecycle' = [lifecycle EXCEPT ![e] = Append(lifecycle[e], r)]
         /\ settled' = Append(settled, q)
      \/ /\ o \notin Settling
         /\ lifecycle' = lifecycle /\ settled' = settled
  BY <1>2, <1>3b DEF InsertReconciliation, Appended
<1>6. r \in Transitions
  BY RowsAreTransitions
<1>7. q.effect = e /\ (o \in Settling => q \in Reconciliations)
  BY <1>2 DEF Reconciliations
<1> HIDE DEF o, q, r
<1>8. /\ \A f \in Effects : IsSettled(f) => IsSettled(f)'
      /\ o \in Settling => IsSettled(e)'
  <2>1. settled \in Seq(Reconciliations)
    BY DEF TypeOK
  <2>2. CASE o \in Settling
    <3>1. settled' = Append(settled, q) /\ q \in Reconciliations
      BY <1>5, <1>7, <2>2
    <3>2. /\ DOMAIN settled' = 1 .. (Len(settled) + 1)
          /\ \A i \in DOMAIN settled : settled'[i] = settled[i]
          /\ settled'[Len(settled) + 1] = q
      BY <2>1, <3>1
    <3>3. DOMAIN settled = 1 .. Len(settled) /\ Len(settled) \in Nat
      BY <2>1
    <3> QED BY <1>7, <3>2, <3>3 DEF IsSettled
  <2>3. CASE o \notin Settling
    BY <1>5, <2>3 DEF IsSettled
  <2> QED BY <2>2, <2>3
<1>9. EarlyRows' /\ DispatchRows' /\ ReceiptRows'
  <2>1. CASE o \in Settling
    BY <1>2, <1>4, <1>5, <1>6, <1>8, <2>1, LaterRows
  <2>2. CASE o \notin Settling
    <3>1. lifecycle' = lifecycle /\ settled' = settled
      BY <1>5, <2>2
    <3>2. \A f \in Effects : IsSettled(f)' <=> IsSettled(f)
      BY <3>1 DEF IsSettled
    <3>3. EarlyRows'
      BY <1>4, <3>1 DEF RowsInv, EarlyRows, Early, Row
    <3>4. DispatchRows'
      BY <1>4, <3>1, <3>2 DEF RowsInv, DispatchRows, Sent, Row
    <3>5. ReceiptRows'
      BY <1>4, <3>1, <3>2 DEF RowsInv, ReceiptRows, Row
    <3> QED BY <3>3, <3>4, <3>5
  <2> QED BY <2>1, <2>2
<1>10. LatestIsKept'
  <2> SUFFICES ASSUME NEW f \in Effects, NEW k \in Branches, latest'[f][k] \in Settling
               PROVE  IsSettled(f)'
    BY DEF LatestIsKept
  <2>1. latest \in [Effects -> [Branches -> Outcomes \cup {"none"}]]
    BY DEF TypeOK
  <2>2. latest'[f][k] = latest[f][k] \/ (f = e /\ latest'[f][k] = o)
    BY <1>2, <1>3, <2>1
  <2> QED BY <1>8, <2>2 DEF RowsInv, LatestIsKept
<1> QED BY <1>9, <1>10 DEF RowsInv

-----------------------------------------------------------------------------
(* What the sweepers hold.                                                 *)

Lost(e) == Recorded(e, "dispatch_lost")

LEMMA HeldStays ==
    ASSUME NEW x \in Sweepers, sweeper'[x].todo = sweeper[x].todo
    PROVE  Held(x)' = Held(x)
BY DEF Held

\* No sweeper moves, and the evidence only grows.
LEMMA AskersStay ==
    ASSUME AskersAdopted, OneAsker, sweeper' = sweeper,
           \A e \in Effects : Lost(e) => Lost(e)'
    PROVE  AskersAdopted' /\ OneAsker'
<1>1. \A x \in Sweepers : \A e \in Effects : Asking(x, e)' <=> Asking(x, e)
  BY HeldStays DEF Asking
<1> QED BY <1>1 DEF AskersAdopted, OneAsker, Lost

\* One sweeper moves, and asks only about what it asked about before or what
\* nobody had adopted.
LEMMA AskersMove ==
    ASSUME AskersAdopted, OneAsker, NEW x \in Sweepers,
           \A y \in Sweepers : y # x => sweeper'[y] = sweeper[y],
           \A e \in Effects : Lost(e) => Lost(e)',
           \A e \in Effects : Asking(x, e)' => Asking(x, e) \/ (~Lost(e) /\ Lost(e)')
    PROVE  AskersAdopted' /\ OneAsker'
<1>1. \A y \in Sweepers : y # x => (\A e \in Effects : Asking(y, e)' => Asking(y, e))
  BY HeldStays DEF Asking
<1>2. \A y \in Sweepers : \A e \in Effects : Asking(y, e) => Lost(e)
  BY DEF AskersAdopted, Lost
<1>3. AskersAdopted'
  BY <1>1, <1>2 DEF AskersAdopted, Lost
<1>4. OneAsker'
  BY <1>1, <1>2 DEF OneAsker
<1> QED BY <1>3, <1>4

\* An adoption is never taken back.
LEMMA LostAppended ==
    ASSUME TypeOK, NEW e \in Effects, NEW r \in Transitions,
           lifecycle' = [lifecycle EXCEPT ![e] = Append(lifecycle[e], r)]
    PROVE  /\ \A f \in Effects : Lost(f) => Lost(f)'
           /\ r.cause = "dispatch_lost" => Lost(e)'
<1>1. /\ \A f \in Effects : f # e => lifecycle'[f] = lifecycle[f]
      /\ DOMAIN lifecycle'[e] = 1 .. (Len(lifecycle[e]) + 1)
      /\ lifecycle'[e][Len(lifecycle[e]) + 1] = r
      /\ \A j \in DOMAIN lifecycle[e] : lifecycle'[e][j] = lifecycle[e][j]
  BY AppendedRows
<1>2. Len(lifecycle[e]) \in Nat /\ DOMAIN lifecycle[e] = 1 .. Len(lifecycle[e])
  BY DEF TypeOK
<1>3. DOMAIN lifecycle[e] \subseteq DOMAIN lifecycle'[e]
      /\ Len(lifecycle[e]) + 1 \in DOMAIN lifecycle'[e]
  BY <1>1, <1>2
<1>4. ASSUME NEW f \in Effects, Lost(f) PROVE Lost(f)'
  <2>1. PICK j \in DOMAIN lifecycle[f] : lifecycle[f][j].cause = "dispatch_lost"
    BY <1>4 DEF Lost, Recorded
  <2>2. CASE f = e
    BY <1>1, <1>3, <2>1, <2>2 DEF Lost, Recorded
  <2>3. CASE f # e
    BY <1>1, <2>1, <2>3 DEF Lost, Recorded
  <2> QED BY <2>2, <2>3
<1> QED BY <1>1, <1>3, <1>4 DEF Lost, Recorded

LEMMA LostReceipt ==
    ASSUME TypeOK, NEW e \in Effects, InsertReceipt(e)
    PROVE  \A f \in Effects : Lost(f) => Lost(f)'
<1>1. lifecycle[e] \in Seq(Transitions) /\ performer[e] \in Answers
  BY DEF TypeOK, InsertReceipt
<1>2. PICK i \in 3 .. Len(lifecycle[e]) :
         /\ lifecycle'[e] = Inserted(lifecycle[e], i, Row(performer[e], "receipt_recorded"))
         /\ \A f \in Effects : f # e => lifecycle'[f] = lifecycle[f]
  BY DEF InsertReceipt, TypeOK, Inserted
<1>3. i \in 1 .. Len(lifecycle[e]) /\ Row(performer[e], "receipt_recorded") \in Transitions
  BY <1>1, RowsAreTransitions
<1>4. \A j \in DOMAIN lifecycle[e] : \E k \in DOMAIN lifecycle'[e] : lifecycle'[e][k] = lifecycle[e][j]
  BY <1>1, <1>2, <1>3, InsertedRows
<1> QED BY <1>2, <1>4 DEF Lost, Recorded

\* An effect that was dispatched is not early again.
LEMMA EarlyEnds ==
    ASSUME TypeOK, NEW e \in Effects,
           \/ Perform(e) \/ Abandon(e) \/ Land(e)
           \/ DeadlinePasses(e) \/ OwnerLapses(e) \/ OwnerReports(e) \/ Elapse(e)
    PROVE  \A f \in Effects : Early(f)' => Early(f)
<1> USE DEF TypeOK, Early
<1>1. \A f \in Effects : f # e => performer'[f] = performer[f]
  BY DEF Perform, InsertIntent, Authorize, RecordDispatch, CallAdapter, AdapterReturns,
         InsertReceipt, Abandon, Land, DeadlinePasses, OwnerLapses, OwnerReports, Elapse
<1>2. CASE InsertIntent(e) \/ Authorize(e) \/ RecordDispatch(e)
  BY <1>1, <1>2 DEF InsertIntent, Authorize, RecordDispatch
<1>3. CASE CallAdapter(e) \/ InsertReceipt(e) \/ Abandon(e)
  BY <1>1, <1>3 DEF CallAdapter, InsertReceipt, Abandon
<1>4. CASE AdapterReturns(e)
  BY <1>1, <1>4 DEF AdapterReturns, Answers
<1>5. CASE Land(e) \/ DeadlinePasses(e) \/ OwnerLapses(e) \/ OwnerReports(e) \/ Elapse(e)
  BY <1>5 DEF Land, DeadlinePasses, OwnerLapses, OwnerReports, Elapse
<1> QED BY <1>2, <1>3, <1>4, <1>5 DEF Perform

\* The steps of an effect and of time leave the sweepers where they are.
LEMMA EffectSweeps ==
    ASSUME TypeOK, SweepsHold, AskersAdopted, OneAsker, NEW e \in Effects,
           \/ Perform(e) \/ Abandon(e) \/ Land(e)
           \/ DeadlinePasses(e) \/ OwnerLapses(e) \/ OwnerReports(e) \/ Elapse(e)
    PROVE  SweepsHold' /\ AskersAdopted' /\ OneAsker'
<1>1. sweeper' = sweeper
  BY DEF Perform, InsertIntent, Authorize, RecordDispatch, CallAdapter, AdapterReturns,
         InsertReceipt, Abandon, Land, DeadlinePasses, OwnerLapses, OwnerReports, Elapse
<1>2. \A f \in Effects : Early(f)' => Early(f)
  BY EarlyEnds
<1>3. SweepsHold'
  <2>1. \A x \in Sweepers : \A c \in sweeper[x].todo : c.effect \in Effects
    BY DEF TypeOK, SweeperStates, Candidates
  <2> QED BY <1>1, <1>2, <2>1 DEF SweepsHold
<1>4. \A f \in Effects : Lost(f) => Lost(f)'
  <2>1. CASE InsertReceipt(e)
    BY <2>1, LostReceipt
  <2>2. CASE InsertIntent(e) \/ RecordDispatch(e)
    BY <2>2, LostAppended, RowsAreTransitions DEF InsertIntent, RecordDispatch, Appended
  <2>3. CASE Authorize(e)
    <3>1. CASE lifecycle' = lifecycle
      BY <3>1 DEF Lost, Recorded
    <3>2. CASE lifecycle' = Appended(e, "authorized", "authorization_recorded")
      BY <3>2, LostAppended, RowsAreTransitions DEF Appended
    <3> QED BY <2>3, <3>1, <3>2 DEF Authorize
  <2>4. CASE \/ CallAdapter(e) \/ AdapterReturns(e) \/ Abandon(e) \/ Land(e)
             \/ DeadlinePasses(e) \/ OwnerLapses(e) \/ OwnerReports(e) \/ Elapse(e)
    <3>1. lifecycle' = lifecycle
      BY <2>4 DEF CallAdapter, AdapterReturns, Abandon, Land, DeadlinePasses, OwnerLapses,
                  OwnerReports, Elapse, evidence
    <3> QED BY <3>1 DEF Lost, Recorded
  <2> QED BY <2>1, <2>2, <2>3, <2>4 DEF Perform
<1> QED BY <1>1, <1>3, <1>4, AskersStay

\* SweepsHold survives a step of one sweeper that holds on to what it held.
LEMMA SweepHolds ==
    ASSUME TypeOK, SweepsHold, NEW x \in Sweepers, performer' = performer,
           \A y \in Sweepers : y # x => sweeper'[y] = sweeper[y],
           sweeper'[x].pc # "idle" => sweeper'[x].todo # {},
           \A c \in sweeper'[x].todo : ~Early(c.effect)
    PROVE  SweepsHold'
<1>1. \A y \in Sweepers : /\ sweeper'[y].pc # "idle" => sweeper'[y].todo # {}
                          /\ \A c \in sweeper'[y].todo : ~Early(c.effect)
  BY DEF SweepsHold
<1> QED BY <1>1 DEF SweepsHold, Early

LEMMA SweeperSweeps ==
    ASSUME TypeOK, SweepsHold, RowsInv, AskersAdopted, OneAsker, NEW x \in Sweepers,
           Discover(x) \/ Reconcile(x) \/ SweepStops(x) \/ SweepAges(x)
    PROVE  SweepsHold' /\ AskersAdopted' /\ OneAsker'
<1>1. performer' = performer
  BY DEF Discover, Reconcile, Adopt, AlreadyAdopted, Observe, InsertReconciliation,
         RecordFailedAttempt, SweepStops, SweepAges
<1>2. \A c \in sweeper[x].todo : ~Early(c.effect)
  BY DEF SweepsHold
<1>3. CASE Discover(x)
  <2>1. lifecycle' = lifecycle
    BY <1>3 DEF Discover, evidence
  <2>2. \A f \in Effects : Lost(f) => Lost(f)'
    BY <2>1 DEF Lost, Recorded
  <2>3. /\ \A y \in Sweepers : y # x => sweeper'[y] = sweeper[y]
        /\ sweeper'[x].pc = "begin" /\ sweeper'[x].todo # {}
        /\ \A c \in sweeper'[x].todo : ~Early(c.effect)
    BY <1>3, DiscoverSweeper DEF RowsInv
  <2>4. \A f \in Effects : ~Asking(x, f)'
    BY <2>3 DEF Asking
  <2>5. AskersAdopted' /\ OneAsker'
    BY <2>2, <2>3, <2>4, AskersMove
  <2>6. SweepsHold'
    BY <1>1, <2>3, SweepHolds
  <2> QED BY <2>5, <2>6
<1>4. CASE Adopt(x)
  <2>1. PICK e \in Effects : e = Held(x).effect
    BY <1>4, HeldTyped DEF Adopt, NeedsAdoption
  <2>2. /\ ~Lost(e)
        /\ lifecycle' = [lifecycle EXCEPT ![e] = Append(lifecycle[e], Row("unknown", "dispatch_lost"))]
        /\ sweeper' = [sweeper EXCEPT ![x].pc = "ask"]
    BY <1>4, <2>1 DEF Adopt, Appended, Lost
  <2>3. Row("unknown", "dispatch_lost").cause = "dispatch_lost"
    BY DEF Row
  <2>4. Lost(e)' /\ \A f \in Effects : Lost(f) => Lost(f)'
    BY <2>2, <2>3, LostAppended, RowsAreTransitions
  <2>5. /\ \A y \in Sweepers : y # x => sweeper'[y] = sweeper[y]
        /\ sweeper'[x].todo = sweeper[x].todo
    BY <2>2, SweeperMoves
  <2>6. Held(x)' = Held(x)
    BY <2>5, HeldStays
  <2>7. \A f \in Effects : Asking(x, f)' => f = e
    BY <2>1, <2>6 DEF Asking
  <2>8. AskersAdopted' /\ OneAsker'
    BY <2>2, <2>4, <2>5, <2>7, AskersMove
  <2>9. sweeper[x].todo # {}
    BY <1>4 DEF SweepsHold, Adopt, NeedsAdoption
  <2>10. SweepsHold'
    BY <1>1, <1>2, <2>5, <2>9, SweepHolds
  <2> QED BY <2>8, <2>10
<1>5. CASE Observe(x)
  <2>1. PICK a \in Outcomes \cup {"unreachable"} : sweeper' = [sweeper EXCEPT ![x].pc = a]
    BY <1>5 DEF Observe
  <2>2. lifecycle' = lifecycle
    BY <1>5 DEF Observe, evidence
  <2>3. \A f \in Effects : Lost(f) => Lost(f)'
    BY <2>2 DEF Lost, Recorded
  <2>4. /\ \A y \in Sweepers : y # x => sweeper'[y] = sweeper[y]
        /\ sweeper'[x].todo = sweeper[x].todo
    BY <2>1, SweeperMoves
  <2>5. Held(x)' = Held(x)
    BY <2>4, HeldStays
  <2>6. \A f \in Effects : Asking(x, f)' => Asking(x, f)
    BY <1>5, <2>5 DEF Asking, Observe, NeedsAdoption
  <2>7. AskersAdopted' /\ OneAsker'
    BY <2>3, <2>4, <2>6, AskersMove
  <2>8. sweeper[x].todo # {}
    BY <1>5 DEF SweepsHold, Observe
  <2>9. SweepsHold'
    BY <1>1, <1>2, <2>4, <2>8, SweepHolds
  <2> QED BY <2>7, <2>9
<1>6. CASE AlreadyAdopted(x) \/ InsertReconciliation(x) \/ RecordFailedAttempt(x)
  <2>1. sweeper' = Continued(x) /\ sweeper[x].pc # "idle"
    BY <1>6 DEF AlreadyAdopted, NeedsAdoption, InsertReconciliation, RecordFailedAttempt,
                Outcomes, Settling
  <2>2. /\ \A y \in Sweepers : y # x => sweeper'[y] = sweeper[y]
        /\ sweeper'[x].todo \subseteq sweeper[x].todo
        /\ sweeper'[x].pc \in {"idle", "begin"}
        /\ sweeper'[x].pc # "idle" => sweeper'[x].todo # {}
    BY <2>1, ContinuedSweeper DEF SweepsHold
  <2>3. \A f \in Effects : Lost(f) => Lost(f)'
    <3>1. CASE lifecycle' = lifecycle
      BY <3>1 DEF Lost, Recorded
    <3>2. CASE lifecycle' = Appended(Held(x).effect, "reconciling", "outcome_settled")
      <4>1. Held(x).effect \in Effects
        BY <2>1, HeldTyped
      <4> QED BY <3>2, <4>1, LostAppended, RowsAreTransitions DEF Appended
    <3> QED BY <1>6, <3>1, <3>2
            DEF AlreadyAdopted, InsertReconciliation, RecordFailedAttempt, evidence
  <2>4. \A f \in Effects : ~Asking(x, f)'
    BY <2>2 DEF Asking
  <2>5. AskersAdopted' /\ OneAsker'
    BY <2>2, <2>3, <2>4, AskersMove
  <2>6. SweepsHold'
    BY <1>1, <1>2, <2>2, SweepHolds
  <2> QED BY <2>5, <2>6
<1>7. CASE SweepStops(x)
  <2>1. lifecycle' = lifecycle
    BY <1>7 DEF SweepStops, evidence
  <2>2. \A f \in Effects : Lost(f) => Lost(f)'
    BY <2>1 DEF Lost, Recorded
  <2>3. /\ \A y \in Sweepers : y # x => sweeper'[y] = sweeper[y]
        /\ sweeper'[x].pc = "idle" /\ sweeper'[x].todo = {}
    BY <1>7 DEF SweepStops, TypeOK, IdleSweeper
  <2>4. \A f \in Effects : ~Asking(x, f)'
    BY <2>3 DEF Asking
  <2>5. AskersAdopted' /\ OneAsker'
    BY <2>2, <2>3, <2>4, AskersMove
  <2>6. SweepsHold'
    BY <1>1, <2>3, SweepHolds
  <2> QED BY <2>5, <2>6
<1>8. CASE SweepAges(x)
  <2>1. lifecycle' = lifecycle
    BY <1>8 DEF SweepAges, evidence
  <2>2. \A f \in Effects : Lost(f) => Lost(f)'
    BY <2>1 DEF Lost, Recorded
  <2>3. /\ \A y \in Sweepers : y # x => sweeper'[y] = sweeper[y]
        /\ sweeper'[x].pc = sweeper[x].pc /\ sweeper'[x].todo = sweeper[x].todo
    BY <1>8 DEF SweepAges, TypeOK, SweeperStates
  <2>4. Held(x)' = Held(x)
    BY <2>3, HeldStays
  <2>5. \A f \in Effects : Asking(x, f)' => Asking(x, f)
    BY <2>3, <2>4 DEF Asking
  <2>6. AskersAdopted' /\ OneAsker'
    BY <2>2, <2>3, <2>5, AskersMove
  <2>7. SweepsHold'
    BY <1>1, <1>2, <2>3, SweepHolds DEF SweepsHold
  <2> QED BY <2>6, <2>7
<1> QED BY <1>3, <1>4, <1>5, <1>6, <1>7, <1>8 DEF Reconcile

-----------------------------------------------------------------------------
(* The invariant.                                                          *)

LEMMA InitEstablishes == Init => EffectInv
<1> SUFFICES ASSUME Init PROVE EffectInv
  OBVIOUS
<1> USE DEF Init
<1>1. IdleSweeper \in SweeperStates /\ IdleSweeper.pc = "idle" /\ IdleSweeper.todo = {}
  BY DEF IdleSweeper, SweeperStates
<1>2. TypeOK
  <2>1. << >> \in Seq(Transitions) /\ << >> \in Seq(Reconciliations)
    OBVIOUS
  <2> QED BY <1>1, <2>1 DEF TypeOK
<1>3. \A x \in Sweepers : sweeper[x] = IdleSweeper
  OBVIOUS
<1>4. SweepsHold
  BY <1>1, <1>3 DEF SweepsHold
<1>5. EarlyRows /\ DispatchRows /\ ReceiptRows
  BY DEF EarlyRows, DispatchRows, ReceiptRows, Sent, Answers
<1>6. LatestIsKept
  BY DEF LatestIsKept, Settling
<1>7. \A x \in Sweepers : \A e \in Effects : ~Asking(x, e)
  BY <1>1, <1>3 DEF Asking
<1>8. AskersAdopted /\ OneAsker
  BY <1>7 DEF AskersAdopted, OneAsker
<1> QED BY <1>2, <1>4, <1>5, <1>6, <1>8 DEF EffectInv

LEMMA NextPreserves == EffectInv /\ [Next]_vars => EffectInv'
<1> SUFFICES ASSUME EffectInv, [Next]_vars PROVE EffectInv'
  OBVIOUS
<1>1. TypeOK /\ SweepsHold /\ RowsInv /\ EarlyRows /\ AskersAdopted /\ OneAsker
  BY DEF EffectInv, RowsInv
<1>2. ASSUME NEW e \in Effects, Perform(e) \/ Abandon(e) \/ Land(e)
      PROVE  EffectInv'
  <2>1. TypeOK'
    BY <1>1, <1>2, PerformType
  <2>2. RowsInv'
    BY <1>1, <1>2, EarlyStepRows, ReceiptStepRows, QuietPerform DEF Perform
  <2>3. SweepsHold' /\ AskersAdopted' /\ OneAsker'
    BY <1>1, <1>2, EffectSweeps
  <2> QED BY <2>1, <2>2, <2>3 DEF EffectInv, RowsInv
<1>3. ASSUME NEW e \in Effects,
             DeadlinePasses(e) \/ OwnerLapses(e) \/ OwnerReports(e) \/ Elapse(e)
      PROVE  EffectInv'
  <2>1. TypeOK'
    BY <1>1, <1>3, TimeType
  <2>2. RowsInv'
    <3>1. UNCHANGED <<performer, world, evidence>>
      BY <1>3 DEF DeadlinePasses, OwnerLapses, OwnerReports, Elapse
    <3> QED BY <1>1, <3>1, QuietOthers
  <2>3. SweepsHold' /\ AskersAdopted' /\ OneAsker'
    BY <1>1, <1>3, EffectSweeps
  <2> QED BY <2>1, <2>2, <2>3 DEF EffectInv, RowsInv
<1>4. ASSUME NEW x \in Sweepers,
             Discover(x) \/ Reconcile(x) \/ SweepStops(x) \/ SweepAges(x)
      PROVE  EffectInv'
  <2>1. TypeOK'
    BY <1>1, <1>4, SweepType
  <2>2. RowsInv'
    <3>1. CASE Adopt(x)
      BY <1>1, <3>1, AdoptRows
    <3>2. CASE InsertReconciliation(x)
      BY <1>1, <3>2, ReconciliationRows
    <3>3. CASE \/ Discover(x) \/ AlreadyAdopted(x) \/ Observe(x)
               \/ RecordFailedAttempt(x) \/ SweepStops(x) \/ SweepAges(x)
      <4>1. UNCHANGED <<performer, world, evidence>>
        BY <3>3 DEF Discover, AlreadyAdopted, Observe, RecordFailedAttempt, SweepStops, SweepAges
      <4> QED BY <1>1, <4>1, QuietOthers
    <3> QED BY <1>4, <3>1, <3>2, <3>3 DEF Reconcile
  <2>3. SweepsHold' /\ AskersAdopted' /\ OneAsker'
    BY <1>1, <1>4, SweeperSweeps
  <2> QED BY <2>1, <2>2, <2>3 DEF EffectInv, RowsInv
<1>5. CASE UNCHANGED vars
  <2>1. /\ performer' = performer /\ world' = world /\ receipt' = receipt
        /\ lifecycle' = lifecycle /\ latest' = latest /\ settled' = settled
        /\ sweeper' = sweeper
    BY <1>5 DEF vars
  <2>2. TypeOK'
    BY <1>1, <1>5 DEF vars, TypeOK
  <2>3. RowsInv'
    BY <1>1, <2>1, QuietOthers DEF evidence
  <2>4. SweepsHold'
    BY <1>1, <2>1 DEF SweepsHold, Early
  <2>5. \A f \in Effects : Lost(f) => Lost(f)'
    BY <2>1 DEF Lost, Recorded
  <2>6. AskersAdopted' /\ OneAsker'
    BY <1>1, <2>1, <2>5, AskersStay
  <2> QED BY <2>2, <2>3, <2>4, <2>6 DEF EffectInv, RowsInv
<1> QED BY <1>2, <1>3, <1>4, <1>5 DEF Next

\* The invariant holds wherever performers, provider, time and sweepers have
\* got to.
THEOREM EffectInvariant == Spec => []EffectInv
<1>1. Init => EffectInv
  BY InitEstablishes
<1>2. EffectInv /\ [Next]_vars => EffectInv'
  BY NextPreserves
<1> QED BY <1>1, <1>2, PTL DEF Spec

\* The tables hold only what their constraints admit: every lifecycle row is a
\* pair of status and cause the check constraint of the migrations lists.
THEOREM EffectsTypeCorrect == Spec => []TypeOK
<1>1. EffectInv => TypeOK
  BY DEF EffectInv
<1> QED BY <1>1, EffectInvariant, PTL

\* An effect that may have run and is not settled is one a sweep can find.
LEMMA InvariantForgetsNothing ==
    ASSUME EffectInv PROVE NothingForgotten
<1> SUFFICES ASSUME NEW e \in Effects, world[e] # "untouched", performer[e] = "done",
                    receipt[e] # "failed", ~IsSettled(e)
             PROVE  Recoverable(e)
  BY DEF NothingForgotten
<1>1. \A b \in Branches : latest[e][b] \notin Settling
  BY DEF EffectInv, LatestIsKept
<1>2. CASE receipt[e] = "none"
  <2>1. lifecycle[e] \in Seq(Transitions)
    BY DEF EffectInv, TypeOK
  <2>2. /\ Len(lifecycle[e]) >= 3
        /\ lifecycle[e][3] = Row("dispatching", "dispatch_started")
        /\ \A j \in DOMAIN lifecycle[e] : j > 3 => lifecycle[e][j].cause = "dispatch_lost"
    BY <1>2 DEF EffectInv, DispatchRows, Sent
  <2>3. lifecycle[e] # << >> /\ Len(lifecycle[e]) \in DOMAIN lifecycle[e]
    BY <2>1, <2>2
  <2>4. Newest(e).status = "dispatching" \/ Newest(e).cause = "dispatch_lost"
    BY <2>1, <2>2, <2>3 DEF Newest, Row
  <2> QED BY <1>1, <1>2, <2>3, <2>4 DEF Recoverable, LostCandidate, Branches
<1>3. CASE receipt[e] # "none"
  <2>1. receipt[e] \in {"acknowledged", "unknown"}
    BY <1>3 DEF EffectInv, TypeOK, Answers
  <2> QED BY <1>1, <2>1 DEF Recoverable, ReceiptCandidate, Branches
<1> QED BY <1>2, <1>3

\* A request that may have reached the provider is never forgotten: whatever
\* interleaving of `perform`, its death and the sweeps came before, the
\* candidate query of recovery returns it once the cutoffs have passed.
THEOREM NothingIsForgotten == Spec => []NothingForgotten
<1>1. EffectInv => NothingForgotten
  BY InvariantForgetsNothing
<1> QED BY <1>1, EffectInvariant, PTL

\* A receipt outranks the guess that the dispatch was lost, whichever of the
\* two rows took the later ordinal.
THEOREM ReceiptsOutrankGuesses == Spec => []ReceiptOutranksGuess
<1>1. ASSUME EffectInv PROVE ReceiptOutranksGuess
  <2> SUFFICES ASSUME NEW e \in Effects, receipt[e] # "none", ~IsSettled(e)
               PROVE  FindLifecycleStatus(e) = receipt[e]
    BY DEF ReceiptOutranksGuess
  <2>1. PICK i \in DOMAIN lifecycle[e] :
           /\ lifecycle[e][i] = Row(receipt[e], "receipt_recorded")
           /\ \A j \in DOMAIN lifecycle[e] : j > i => lifecycle[e][j].cause = "dispatch_lost"
    BY <1>1 DEF EffectInv, ReceiptRows
  <2>2. DOMAIN lifecycle[e] \subseteq Nat
    BY <1>1 DEF EffectInv, TypeOK
  <2>3. lifecycle[e][i].cause = "receipt_recorded" /\ lifecycle[e][i].status = receipt[e]
    BY <2>1 DEF Row
  <2>4. Recorded(e, "receipt_recorded")
    BY <2>3 DEF Recorded
  <2> DEFINE counts(k) == \/ lifecycle[e][k].cause # "dispatch_lost"
                          \/ ~Recorded(e, "receipt_recorded")
             last(k) == /\ counts(k)
                        /\ \A j \in DOMAIN lifecycle[e] : counts(j) => j <= k
             n == CHOOSE k \in DOMAIN lifecycle[e] : last(k)
  <2>5. counts(i) /\ \A j \in DOMAIN lifecycle[e] : counts(j) => j <= i
    BY <2>1, <2>2, <2>3, <2>4
  <2>6. n \in DOMAIN lifecycle[e] /\ last(n)
    <3>1. \E k \in DOMAIN lifecycle[e] : last(k)
      BY <2>5
    <3> HIDE DEF last
    <3> QED BY <3>1
  <2>7. n = i
    <3>1. n <= i /\ i <= n
      <4> HIDE DEF counts, n
      <4> QED BY <2>5, <2>6
    <3> HIDE DEF n
    <3> QED BY <2>2, <2>6, <3>1
  <2>8. FindLifecycleStatus(e) = lifecycle[e][n].status
    BY DEF FindLifecycleStatus
  <2> QED BY <2>3, <2>7, <2>8
<1> QED BY <1>1, EffectInvariant, PTL

\* Of the sweepers that found one lost dispatch, one asks the provider about
\* it: the unique key behind adopt_lost_dispatch is enough for any number.
THEOREM OneSweeperAsks == Spec => []OneAsker
<1>1. EffectInv => OneAsker
  BY DEF EffectInv
<1> QED BY <1>1, EffectInvariant, PTL
===============================================================================
