SPECIFICATION DispatchedSpec
CONSTANTS
    Effects = {e1, e2}
    Sweepers = {x1}
    Routed = {e2}
    Reported = {}
    Faults = {"stop"}
    Batch = 1
    MaxSettled = 1
PROPERTIES
    EffectsSettle
CHECK_DEADLOCK FALSE
