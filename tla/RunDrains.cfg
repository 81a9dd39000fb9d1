SPECIFICATION FairStartedSpec
CONSTANTS
    Workers = {w1}
    Clients = {c1}
    StepIds = {s1, s2}
    AgentSteps = {s1}
    InputSteps = {}
    Commands = {"add_steps", "add_agent_step", "terminate"}
    Targets = {"cancelled"}
    Faults = {"crash", "expire", "storage", "deny"}
    MaxCommands = 2
    MaxFaults = 1
    MaxAttempts = 3
INVARIANTS
    StreamFaithful
    ExecuteItemsPending
PROPERTIES
    FinalizationSound
    QueueDrains
    RunMovesOn
CHECK_DEADLOCK FALSE
