SPECIFICATION Spec
CONSTANTS
    Workers = {w1}
    Clients = {c1, c2}
    StepIds = {s1, s2}
    AgentSteps = {}
    InputSteps = {s2}
    Commands = {"add_steps", "transition", "resume", "approve", "terminate", "transition_step", "checkpoint"}
    Targets = {"cancelled", "paused", "waiting_for_approval"}
    Faults = {}
    MaxCommands = 3
    MaxFaults = 0
    MaxAttempts = 3
PROPERTIES
    HaltedRunIsStill
    TerminalIsFinal
CHECK_DEADLOCK FALSE
