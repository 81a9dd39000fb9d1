SPECIFICATION Spec
CONSTANTS
    Jobs = {1}
    OutputCount <- TwoEach
    Workers = {w1, w2}
    Reconcilers = {r1, r2}
    MaxInFlight = 2
    WindowLimit = 2
SYMMETRY Interchangeable
INVARIANTS
    OneCall
    InFlightBounded
    EndedMeansErased
    SucceededMeansKept
    UnknownHasNoResult
    RecordsMatchVault
CHECK_DEADLOCK FALSE
