-------------------------- MODULE MCExternalEffects --------------------------
(***************************************************************************)
(* Instances of ExternalEffects for TLC.                                   *)
(***************************************************************************)
EXTENDS ExternalEffects, TLC

SweeperSymmetry == Permutations(Sweepers)

\* Both effects were dispatched, one after the other, and either their process
\* died or the answer was no answer: what recovery is left to deal with.
Dispatched(first, second, late) ==
    /\ performer = [e \in Effects |-> "done"]
    /\ world = [e \in Effects |-> "inflight"]
    /\ receipt \in [Effects -> {"none", "unknown"}]
    /\ lifecycle = [e \in Effects |->
          <<Row("prepared", "intent_recorded"), Row("authorized", "authorization_recorded"),
            Row("dispatching", "dispatch_started")>>
            \o IF receipt[e] = "none" THEN << >> ELSE <<Row("unknown", "receipt_recorded")>>]
    /\ overdue = [e \in Effects |-> late]
    /\ lapsed = [e \in Effects |-> FALSE]
    /\ latest = [e \in Effects |-> [b \in Branches |-> "none"]]
    /\ settled = << >>
    /\ recent = [e \in Effects |-> {}]
    /\ place = [e \in Effects |-> IF e = first THEN 1 ELSE 2]
    /\ sweeper = [x \in Sweepers |-> IdleSweeper]

\* The younger of the two can be asked about.
DispatchedSpec ==
    /\ \E first, second \in Effects :
          /\ first # second
          /\ second \in Routed
          /\ Dispatched(first, second, FALSE)
    /\ [][Next]_vars
    /\ Fairness
=============================================================================
