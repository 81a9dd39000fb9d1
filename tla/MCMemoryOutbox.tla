--------------------------- MODULE MCMemoryOutbox ---------------------------
(***************************************************************************)
(* Memory writes and the outbox on a small instance, from the three points *)
(* of a memory's life below.                                               *)
(***************************************************************************)
EXTENDS MemoryOutbox

FirstRevision == [k \in Keys \ Remembers |-> 1]

FirstMessage == Message("memory", 1, 1)

Idle ==
    /\ purged = {}
    /\ client = [c \in Clients |-> IdleClient]
    /\ drain = [d \in Drains |-> IdleDrain]

\* nothing is written, one call will be made, and nothing is purged
NothingWritten ==
    /\ memories = <<>> /\ outbox = <<>> /\ jobs = {}
    /\ answered = [k \in Keys |-> NoAnswer]
    /\ spent = [calls |-> MaxCalls - 1, others |-> 0, purges |-> MaxPurges, faults |-> 0]

\* one memory is written and its key answered
FirstWritten ==
    LET k == CHOOSE x \in Remembers : TRUE IN
    /\ memories = <<<<k>>>>
    /\ answered = [x \in Keys |-> IF x = k THEN <<1, 1>> ELSE NoAnswer]

\* its message was handled, and it will be purged or a process will stop
FirstHandled ==
    /\ FirstWritten
    /\ outbox = <<[FirstMessage EXCEPT !.processed = TRUE], Unhandled>>
    /\ jobs = {<<1, 1>>}
    /\ \/ spent = [calls |-> 0, others |-> 0, purges |-> MaxPurges, faults |-> 0]
       \/ spent = [calls |-> 0, others |-> MaxOthers, purges |-> 0, faults |-> MaxFaults]

\* its message was refused once and is due again, and one more call will be made
FirstRefused ==
    /\ FirstWritten
    /\ outbox = <<[FirstMessage EXCEPT !.attempts = 1]>>
    /\ jobs = {}
    /\ spent = [calls |-> MaxCalls - 1, others |-> MaxOthers, purges |-> MaxPurges,
                faults |-> MaxFaults]

MCInit == Idle /\ (NothingWritten \/ FirstHandled \/ FirstRefused)

MCSpec == MCInit /\ [][Next]_vars

MCFairSpec == MCSpec /\ Fairness
=============================================================================
