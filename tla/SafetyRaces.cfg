SPECIFICATION Spec
CONSTANTS
    Supervisors = {p1, p2}
    TheSet = a
    TheHold = h
    Sets = {a}
    Holds = {h}
    Histories <- Reached
    None = None
SYMMETRY Symmetry
INVARIANTS
    WitnessIsJournalled
    TablesAreSigned
    CheckpointsAreStored
    RestoreIsHeld
CHECK_DEADLOCK FALSE
