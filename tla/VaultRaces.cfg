SPECIFICATION Spec
CONSTANTS
    Procs = {p1, p2, p3}
    Preparations = {prep1, prep2}
SYMMETRY Interchangeable
INVARIANTS
    TypeOK
    BoundKeyKept
    ErasureHolds
PROPERTY ImplementsLifecycle
