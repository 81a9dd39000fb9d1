--------------------------- MODULE MCRunExecution ---------------------------
(***************************************************************************)
(* Instances of RunExecution for TLC.  A run is prepared and started by    *)
(* two passes of one worker; the instances about what happens later begin  *)
(* where those passes end, without the two items they retired.             *)
(***************************************************************************)
EXTENDS RunExecution, TLC

Started ==
    /\ status = "running"
    /\ version = 3
    /\ current = NoStep
    /\ steps = [s \in StepIds |-> "absent"]
    /\ stream = [version |-> 3, status |-> "running", current |-> NoStep,
                 steps |-> [s \in StepIds |-> "absent"],
                 refused |-> {}]
    /\ items = [k \in {Advance(3)} |->
                  [status |-> "ready", owner |-> NoWorker, live |-> FALSE, attempt |-> 1]]
    /\ lease = NoLease
    /\ worker = [w \in Workers |-> IdleWorker]
    /\ client = [c \in Clients |-> IdleClient]
    /\ spent = [commands |-> 0, faults |-> 0]

StartedSpec == Started /\ [][Next]_vars

FairStartedSpec == StartedSpec /\ Fairness

WorkerSymmetry == Permutations(Workers)
=============================================================================
