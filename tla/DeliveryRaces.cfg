SPECIFICATION DeliverySpec
CONSTANTS
    Effects = {e1}
    Sweepers = {x1}
    Routed = {e1}
    Reported = {}
    Faults = {"stop"}
    Batch = 1
    MaxSettled = 2
    Deliverers = {d1, d2}
    Attributed = {e1}
    Vanished = {}
    DeliveryBatch = 2
    MaxCommits = 3
    MaxEvents = 4
SYMMETRY DelivererSymmetry
INVARIANTS
    HeadIsLast
    MarkedMeansTold
    DebtsPaidOnce
CHECK_DEADLOCK FALSE
