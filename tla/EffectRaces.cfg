SPECIFICATION Spec
CONSTANTS
    Effects = {e1}
    Sweepers = {x1, x2}
    Routed = {e1}
    Reported = {e1}
    Faults = {"abandon", "stop", "slow"}
    Batch = 1
    MaxSettled = 2
SYMMETRY SweeperSymmetry
INVARIANTS
    NothingForgotten
    ReceiptOutranksGuess
    OneAsker
CHECK_DEADLOCK FALSE
