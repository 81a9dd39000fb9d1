SPECIFICATION OwedSpec
CONSTANTS
    Effects = {e1, e2, e3}
    Sweepers = {x1}
    Routed = {e1, e2, e3}
    Reported = {}
    Faults = {}
    Batch = 3
    MaxSettled = 3
    Deliverers = {d1, d2}
    Attributed = {e1, e2}
    Vanished = {e1}
    DeliveryBatch = 2
    MaxCommits = 3
    MaxEvents = 9
PROPERTIES
    OutcomesDelivered
CHECK_DEADLOCK FALSE
