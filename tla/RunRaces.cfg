SPECIFICATION StartedSpec
CONSTANTS
    Workers = {w1, w2}
    Clients = {c1}
    StepIds = {s1}
    AgentSteps = {}
    InputSteps = {}
    Commands = {"add_steps", "terminate"}
    Targets = {"cancelled"}
    Faults = {"expire"}
    MaxCommands = 2
    MaxFaults = 1
    MaxAttempts = 3
SYMMETRY WorkerSymmetry
INVARIANTS
    TypeOK
    StreamFaithful
    ExecuteItemsPending
PROPERTIES
    StepsStartPending
    FinalizationSound
    RetiredStaysRetired
CHECK_DEADLOCK FALSE
