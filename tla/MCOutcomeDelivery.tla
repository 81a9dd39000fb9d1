-------------------------- MODULE MCOutcomeDelivery --------------------------
(***************************************************************************)
(* Instances of OutcomeDelivery for TLC.                                   *)
(***************************************************************************)
EXTENDS OutcomeDelivery, MCExternalEffects

DelivererSymmetry == Permutations(Deliverers)

\* Every effect was answered with no answer and has been settled since, one
\* after the other; nobody has been told.
Settled(order, outcome) ==
    /\ performer = [e \in Effects |-> "done"]
    /\ world = [e \in Effects |-> IF outcome[e] = "confirmed" THEN "applied" ELSE "refused"]
    /\ receipt = [e \in Effects |-> "unknown"]
    /\ lifecycle = [e \in Effects |->
          <<Row("prepared", "intent_recorded"), Row("authorized", "authorization_recorded"),
            Row("dispatching", "dispatch_started"), Row("unknown", "receipt_recorded"),
            Row("reconciling", "outcome_settled")>>]
    /\ overdue = [e \in Effects |-> TRUE]
    /\ lapsed = [e \in Effects |-> FALSE]
    /\ latest = [e \in Effects |-> [b \in Branches |->
          IF b = "receipt" THEN outcome[e] ELSE "none"]]
    /\ settled = [i \in DOMAIN order |-> [effect |-> order[i], branch |-> "receipt",
                                          outcome |-> outcome[order[i]], notified |-> FALSE]]
    /\ recent = [e \in Effects |-> {}]
    /\ place = [e \in Effects |-> CHOOSE i \in DOMAIN order : order[i] = e]
    /\ sweeper = [x \in Sweepers |-> IdleSweeper]

Orders == {f \in [1 .. Cardinality(Effects) -> Effects] :
              \A i, j \in DOMAIN f : f[i] = f[j] => i = j}

\* Debts to be paid in any order, while the run commits.
OwedInit ==
    /\ \E order \in Orders :
          Settled(order, [e \in Effects |-> IF e = order[1] THEN "confirmed" ELSE "not_applied"])
    /\ InitRun

OwedSpec == OwedInit /\ [][NextDelivery]_dvars /\ DeliveryFairness
=============================================================================
