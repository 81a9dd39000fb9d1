---------------------------- MODULE RunExecution ----------------------------
(***************************************************************************)
(* One Run of vestrace as its processes see it: the agent_runs row and its *)
(* steps, the append-only event stream, the run_work_items queue, the      *)
(* run_leases row, the HTTP clients that issue coordinator commands, and   *)
(* the workers that lease items and run the handlers.                      *)
(*                                                                         *)
(* Every store call of the code is one transaction, so it is one step      *)
(* here.  Several calls of one operation are several steps, and anything   *)
(* may happen between them: another worker, another client, an expired     *)
(* lease, a crash.  The only fence between them is the compare-and-set of  *)
(* `commit_on` on agent_runs.run_version.                                  *)
(*                                                                         *)
(* Time is abstracted to the two facts the code reads from it: whether a   *)
(* work item's lease and the run lease have passed their lease_until.      *)
(***************************************************************************)
EXTENDS Naturals, FiniteSets, RunStatus

CONSTANTS
    Workers,        \* worker processes
    Clients,        \* HTTP requests being served
    StepIds,        \* identities of the steps that may be added
    AgentSteps,     \* those assigned to an agent, performed by the model executor
    InputSteps,     \* those with input references, which are never scheduled
    Commands,       \* the coordinator commands the clients may issue
    Targets,        \* targets of transition_run beyond the named commands
    Faults,         \* what may go wrong: "deny", "crash", "storage", "expire"
    MaxCommands,    \* bound: commands issued in a behaviour
    MaxFaults,      \* bound: faults in a behaviour
    MaxAttempts     \* max_attempts of a work item; 3 in the store

AllCommands == {"add_steps", "add_agent_step", "transition", "resume", "approve",
                "terminate", "transition_step", "checkpoint"}

ASSUME RunConstants ==
    /\ AgentSteps \subseteq StepIds
    /\ InputSteps \subseteq StepIds
    /\ Commands \subseteq AllCommands
    /\ Targets \subseteq RunStatuses
    /\ MaxCommands \in Nat
    /\ MaxFaults \in Nat
    /\ MaxAttempts \in Nat \ {0}

ASSUME NamesAreDistinct ==
    /\ "none" \notin Workers
    /\ "none" \notin StepIds

NoWorker == "none"
NoStep == "none"

\* A run in one of these statuses takes no work (process_item).
Halted == TerminalRun \cup {"paused"}

VARIABLES
    status,     \* agent_runs.status
    version,    \* agent_runs.run_version
    current,    \* agent_runs.current_step_id
    steps,      \* run_steps.status, "absent" for a step not added
    stream,     \* run_streams.current_version, and what replaying run_events gives
    items,      \* run_work_items, keyed by what their idempotency key says
    lease,      \* the run_leases row
    worker,     \* each worker's position and locals
    client,     \* each client's position and locals
    spent       \* how many commands were issued and how many faults happened

store == <<status, version, current, steps, stream>>
vars == <<status, version, current, steps, stream, items, lease, worker, client, spent>>

-----------------------------------------------------------------------------
(* Work items.  An idempotency key names the run, the version the item     *)
(* expects and the action, so it identifies the item.                      *)

ItemStatuses == {"ready", "leased", "completed", "cancelled", "dead_letter"}

ItemKeys == [kind : {"advance", "resume"}, step : {NoStep}, version : Nat]
            \cup [kind : {"execute"}, step : StepIds, version : Nat]

Items == [status : ItemStatuses, owner : Workers \cup {NoWorker},
          live : BOOLEAN, attempt : Nat]

Advance(v) == [kind |-> "advance", step |-> NoStep, version |-> v]
Resume(v) == [kind |-> "resume", step |-> NoStep, version |-> v]
Execute(s, v) == [kind |-> "execute", step |-> s, version |-> v]

NoItem == Advance(0)

\* insert_work_item: a new row is ready, and carries the `attempt` it was
\* built with.
Enqueue(keys, attempt) ==
    [k \in DOMAIN items \cup keys |->
        IF k \in keys
          THEN [status |-> "ready", owner |-> NoWorker, live |-> FALSE, attempt |-> attempt]
          ELSE items[k]]

\* cancel_for_run: every ready item, and every leased item whose lease has
\* run out.  A live lease is left alone.
Cancellable(item) == item.status = "ready" \/ (item.status = "leased" /\ ~item.live)

MutCancelForRun ==
    [k \in DOMAIN items |->
        IF Cancellable(items[k]) THEN [items[k] EXCEPT !.status = "abandoned"] ELSE items[k]]

CancelForRun ==
    [k \in DOMAIN items |->
        IF Cancellable(items[k])
          THEN [items[k] EXCEPT !.status = "cancelled", !.owner = NoWorker, !.live = FALSE]
          ELSE items[k]]

\* complete and retry touch only a row that is still `leased`; neither asks
\* who leased it.
Settle(k, outcome) ==
    [items EXCEPT ![k].status = outcome, ![k].owner = NoWorker, ![k].live = FALSE]

Retried(k) == IF items[k].attempt >= MaxAttempts THEN "dead_letter" ELSE "ready"

-----------------------------------------------------------------------------
(* Steps.                                                                  *)

Present == {s \in StepIds : steps[s] # "absent"}

MutPendingReady(sp) ==
    {s \in StepIds \ (AgentSteps \cup InputSteps) : sp[s] \notin TerminalStep \cup {"absent"}}

\* The filter of start_run and advance_running_run: pending, not an agent's,
\* no input references.
PendingReady(sp) == {s \in StepIds \ (AgentSteps \cup InputSteps) : sp[s] = "pending"}

MutAllTerminal(sp) == \A s \in StepIds : sp[s] # "pending"

\* `all_steps_terminal`: there is a step, and every step is terminal.
AllTerminal(sp) ==
    /\ \E s \in StepIds : sp[s] # "absent"
    /\ \A s \in StepIds : sp[s] = "absent" \/ sp[s] \in TerminalStep

\* finalize_run's choice of the run's result.
FinalTarget(sp) ==
    IF \A s \in StepIds : sp[s] \in {"absent", "succeeded"} THEN "succeeded"
    ELSE IF \E s \in StepIds : sp[s] = "failed" THEN "failed" ELSE "partial"

-----------------------------------------------------------------------------
(* The event stream.  `stream` holds the stream's version and the          *)
(* projection replay_run computes from the events appended so far, one     *)
(* event at a time.  replay_run refuses a stream for three reasons, which  *)
(* are collected in `refused` instead of stopping the replay: an event     *)
(* that does not continue the state before it (chain), a status change its *)
(* table forbids (table) and a current-step change whose `previous` is not *)
(* the current step (current).                                             *)

Reasons == {"chain", "table", "current"}

Unless(ok, reason) == IF ok THEN {} ELSE {reason}

\* replay_run's check on each event's version.
Contiguous(v) == v = stream.version + 1

\* The projection after an event at version v, refused also for `reasons`.
Applied(v, st, cur, sp, reasons) ==
    [version |-> v, status |-> st, current |-> cur, steps |-> sp,
     refused |-> stream.refused \cup Unless(Contiguous(v), "chain") \cup reasons]

StatusChanged(v, from, to) ==
    Applied(v, to, stream.current, stream.steps,
            Unless(stream.status = from, "chain") \cup Unless(RunTransition(from, to), "table"))

StepsAdded(v, new) ==
    Applied(v, stream.status, stream.current,
            [s \in StepIds |-> IF s \in new THEN "pending" ELSE stream.steps[s]],
            Unless(\A s \in new : stream.steps[s] = "absent", "chain"))

StepStatusChanged(v, s, from, to) ==
    Applied(v, stream.status, stream.current, [stream.steps EXCEPT ![s] = to],
            Unless(stream.steps[s] = from, "chain") \cup Unless(StepTransition(from, to), "table"))

CurrentStepChanged(v, previous, next) ==
    Applied(v, stream.status, next, stream.steps, Unless(stream.current = previous, "current"))

\* CheckpointCreated and ApprovalGranted change nothing a projection derives.
Noted(v) == Applied(v, stream.status, stream.current, stream.steps, {})

-----------------------------------------------------------------------------
(* commit_on: one transaction that moves agent_runs to version v if it is  *)
(* at v - 1, appends the event, upserts the changed step and inserts the   *)
(* work items.  The run's own columns are written from the caller's copy.  *)

MutCommitWithoutCas(v) == TRUE

CanCommit(v) == version + 1 = v

Commit(v, st, cur, sp, str, keys) ==
    /\ status' = st
    /\ version' = v
    /\ current' = cur
    /\ steps' = sp
    /\ stream' = str
    /\ items' = Enqueue(keys, 1)

-----------------------------------------------------------------------------
(* Positions and locals.                                                   *)

WorkerPositions ==
    {"idle", "leased", "stale", "halted", "loading", "loaded", "busy", "handling",
     "finalized", "executing", "prepared", "settling", "releasing"}

StepMaps == [StepIds -> StepStatuses \cup {"absent"}]

Snapshots == [status : RunStatuses, current : StepIds \cup {NoStep}, steps : StepMaps]

NoSnapshot == [status |-> "created", current |-> NoStep, steps |-> [s \in StepIds |-> "absent"]]

IdleWorker == [pc |-> "idle", item |-> NoItem, generation |-> 0,
               snapshot |-> NoSnapshot, prepared |-> 0, outcome |-> "complete"]

ClientPositions == {"idle", "terminating", "committing", "approving", "enqueueing"}

IdleClient == [pc |-> "idle", version |-> 0, target |-> "cancelled", step |-> NoStep]

NoLease == [worker |-> NoWorker, generation |-> 0, live |-> FALSE]

\* create_run's commit: the run at its first version with one advance item.
Init ==
    /\ status = "created"
    /\ version = 1
    /\ current = NoStep
    /\ steps = [s \in StepIds |-> "absent"]
    /\ stream = [version |-> 1, status |-> "created", current |-> NoStep,
                 steps |-> [s \in StepIds |-> "absent"],
                 refused |-> {}]
    /\ items = [k \in {Advance(1)} |->
                  [status |-> "ready", owner |-> NoWorker, live |-> FALSE, attempt |-> 1]]
    /\ lease = NoLease
    /\ worker = [w \in Workers |-> IdleWorker]
    /\ client = [c \in Clients |-> IdleClient]
    /\ spent = [commands |-> 0, faults |-> 0]

-----------------------------------------------------------------------------
(* Coordinator commands.  A command loads the run, refuses a version other *)
(* than the caller's and commits; with a single commit that is one step,   *)
(* because a commit at another version changes nothing.                    *)

Issue(c, command) ==
    /\ client[c].pc = "idle"
    /\ command \in Commands
    /\ spent.commands < MaxCommands
    /\ spent' = [spent EXCEPT !.commands = @ + 1]

Strike(fault) ==
    /\ fault \in Faults
    /\ spent.faults < MaxFaults
    /\ spent' = [spent EXCEPT !.faults = @ + 1]

\* add_steps: agent steps are refused; nothing asks for the run's status.
AddSteps(c) ==
    /\ Issue(c, "add_steps")
    /\ \E new \in (SUBSET {s \in StepIds \ AgentSteps : steps[s] = "absent"}) \ {{}} :
         Commit(version + 1, status, current,
                [s \in StepIds |-> IF s \in new THEN "pending" ELSE steps[s]],
                StepsAdded(version + 1, new),
                {Execute(s, version + 1) : s \in new \ InputSteps})
    /\ UNCHANGED <<lease, worker, client>>

\* GovernedRunStepInputService: the step is committed with no work item; its
\* execute item is inserted only once its input material is live.
AddAgentStep(c) ==
    /\ Issue(c, "add_agent_step")
    /\ \E s \in AgentSteps :
         /\ steps[s] = "absent"
         /\ Commit(version + 1, status, current, [steps EXCEPT ![s] = "pending"],
                   StepsAdded(version + 1, {s}), {})
         /\ client' = [client EXCEPT ![c] = [IdleClient EXCEPT
                          !.pc = "enqueueing", !.version = version + 1, !.step = s]]
    /\ UNCHANGED <<lease, worker>>

\* vestrace_enqueue_run_step_after_input_ready, at the version of the commit
\* that added the step; a replay of the key inserts nothing.
EnqueueAgentStep(c) ==
    /\ client[c].pc = "enqueueing"
    /\ LET k == Execute(client[c].step, client[c].version)
       IN items' = IF k \in DOMAIN items THEN items ELSE Enqueue({k}, 1)
    /\ client' = [client EXCEPT ![c] = IdleClient]
    /\ UNCHANGED <<store, lease, worker, spent>>

\* The advance item transition_run_with adds when the run starts to run.
WakeUp(target) ==
    IF target = "running" /\ status # "running" THEN {Advance(version + 1)} ELSE {}

\* transition_run to a status that is not terminal, pause_run included.
TransitionRun(c) ==
    /\ Issue(c, "transition")
    /\ \E target \in Targets \ TerminalRun :
         /\ RunTransition(status, target)
         /\ Commit(version + 1, target, current, steps,
                   StatusChanged(version + 1, status, target), WakeUp(target))
    /\ UNCHANGED <<lease, worker, client>>

\* resume_run: the resume item is added whatever the run's status was.
ResumeRun(c) ==
    /\ Issue(c, "resume")
    /\ RunTransition(status, "running")
    /\ Commit(version + 1, "running", current, steps,
              StatusChanged(version + 1, status, "running"),
              WakeUp("running") \cup {Resume(version + 1)})
    /\ UNCHANGED <<lease, worker, client>>

\* approve_run, first commit: the transition to running.
ApproveRun(c) ==
    /\ Issue(c, "approve")
    /\ status = "waiting_for_approval"
    /\ Commit(version + 1, "running", current, steps,
              StatusChanged(version + 1, status, "running"), WakeUp("running"))
    /\ client' = [client EXCEPT ![c] = [IdleClient EXCEPT
                     !.pc = "approving", !.version = version + 1]]
    /\ UNCHANGED <<lease, worker>>

\* approve_run, second commit: ApprovalGranted, with no work item.  A
\* conflict is returned to the caller.
GrantApproval(c) ==
    /\ client[c].pc = "approving"
    /\ \/ /\ CanCommit(client[c].version + 1)
          /\ Commit(client[c].version + 1, "running", current, steps,
                    Noted(client[c].version + 1), {})
       \/ /\ ~CanCommit(client[c].version + 1)
          /\ UNCHANGED <<store, items>>
    /\ client' = [client EXCEPT ![c] = IdleClient]
    /\ UNCHANGED <<lease, worker, spent>>

\* transition_run to a terminal status, cancel_run included: the run is
\* loaded and the transition checked,
TerminateRun(c) ==
    /\ Issue(c, "terminate")
    /\ \E target \in Targets \cap TerminalRun :
         /\ RunTransition(status, target)
         /\ client' = [client EXCEPT ![c] = [IdleClient EXCEPT
                          !.pc = "terminating", !.version = version, !.target = target]]
    /\ UNCHANGED <<store, items, lease, worker>>

\* then its work is cancelled in a transaction of its own,
CancelWork(c) ==
    /\ client[c].pc = "terminating"
    /\ items' = CancelForRun
    /\ client' = [client EXCEPT ![c].pc = "committing"]
    /\ UNCHANGED <<store, lease, worker, spent>>

\* and last the transition is committed, if the run has not moved.
CommitTermination(c) ==
    /\ client[c].pc = "committing"
    /\ LET v == client[c].version + 1
       IN \/ /\ CanCommit(v)
             /\ Commit(v, client[c].target, current, steps,
                       StatusChanged(v, status, client[c].target), {})
          \/ /\ ~CanCommit(v)
             /\ UNCHANGED <<store, items>>
    /\ client' = [client EXCEPT ![c] = IdleClient]
    /\ UNCHANGED <<lease, worker, spent>>

\* transition_step: asks the step table, schedules nothing.
TransitionStep(c) ==
    /\ Issue(c, "transition_step")
    /\ \E s \in Present : \E to \in StepStatuses :
         /\ StepTransition(steps[s], to)
         /\ Commit(version + 1, status, current, [steps EXCEPT ![s] = to],
                   StepStatusChanged(version + 1, s, steps[s], to), {})
    /\ UNCHANGED <<lease, worker, client>>

\* create_checkpoint: moves the version, schedules nothing.
CreateCheckpoint(c) ==
    /\ Issue(c, "checkpoint")
    /\ Commit(version + 1, status, current, steps, Noted(version + 1), {})
    /\ UNCHANGED <<lease, worker, client>>

\* The server stops while it serves a request of several transactions.
ClientCrash(c) ==
    /\ Strike("crash")
    /\ client[c].pc # "idle"
    /\ client' = [client EXCEPT ![c] = IdleClient]
    /\ UNCHANGED <<store, items, lease, worker>>

-----------------------------------------------------------------------------
(* The worker: run_once and process_item, one step per transaction.        *)

Goto(w, pc) == worker' = [worker EXCEPT ![w].pc = pc]

\* The handler has answered; the worker settles its item next.
Answer(w, outcome) ==
    worker' = [worker EXCEPT ![w] = [@ EXCEPT !.pc = "settling", !.outcome = outcome,
                                              !.snapshot = NoSnapshot, !.prepared = 0]]

\* lease_next: a ready item, or a leased one whose lease ran out.  The
\* attempt counter is not compared with max_attempts here; it only ever is
\* in `retry`, so it need not be counted beyond.
LeaseNext(w) ==
    /\ worker[w].pc = "idle"
    /\ \E k \in DOMAIN items :
         /\ Cancellable(items[k])
         /\ items' = [items EXCEPT ![k] = [status |-> "leased", owner |-> w, live |-> TRUE,
                                           attempt |-> IF items[k].attempt < MaxAttempts
                                                         THEN items[k].attempt + 1
                                                         ELSE MaxAttempts]]
         /\ worker' = [worker EXCEPT ![w] = [IdleWorker EXCEPT !.pc = "leased", !.item = k]]
    /\ UNCHANGED <<store, lease, client, spent>>

\* The authorization boundary refuses: the item is dead-lettered, whatever
\* its status is by now.
DenyItem(w) ==
    /\ Strike("deny")
    /\ worker[w].pc = "leased"
    /\ items' = Settle(worker[w].item, "dead_letter")
    /\ worker' = [worker EXCEPT ![w] = IdleWorker]
    /\ UNCHANGED <<store, lease, client>>

MutLoadedAt(w) ==
    IF version # worker[w].item.version THEN "stale"
    ELSE IF status \in TerminalRun THEN "halted" ELSE "loading"

\* Where process_item goes with the run it loads: an item for another version
\* is stale, a terminal or paused run takes no work.
LoadedAt(w) ==
    IF version # worker[w].item.version THEN "stale"
    ELSE IF status \in Halted THEN "halted" ELSE "loading"

\* load_on reads the run and its steps in two statements of one READ
\* COMMITTED transaction, so a commit may fall between them.
LoadRun(w) ==
    /\ worker[w].pc = "leased"
    /\ worker' = [worker EXCEPT ![w] = [@ EXCEPT
         !.pc = LoadedAt(w),
         !.snapshot = [NoSnapshot EXCEPT !.status = status, !.current = current]]]
    /\ UNCHANGED <<store, items, lease, client, spent>>

LoadSteps(w) ==
    /\ worker[w].pc = "loading"
    /\ worker' = [worker EXCEPT ![w] = [@ EXCEPT !.pc = "loaded", !.snapshot.steps = steps]]
    /\ UNCHANGED <<store, items, lease, client, spent>>

MutCompleteStale(w) ==
    /\ worker[w].pc = "stale"
    /\ worker' = [worker EXCEPT ![w] = IdleWorker]
    /\ UNCHANGED <<store, items, lease, client, spent>>

\* complete of a stale item; a conflict is ignored.
CompleteStale(w) ==
    /\ worker[w].pc = "stale"
    /\ items' = IF items[worker[w].item].status = "leased"
                  THEN Settle(worker[w].item, "completed") ELSE items
    /\ worker' = [worker EXCEPT ![w] = IdleWorker]
    /\ UNCHANGED <<store, lease, client, spent>>

\* The run takes no work: cancel_for_run, and the worker moves on.
DeclineItem(w) ==
    /\ worker[w].pc = "halted"
    /\ items' = CancelForRun
    /\ worker' = [worker EXCEPT ![w] = IdleWorker]
    /\ UNCHANGED <<store, lease, client, spent>>

\* RunLeasePort::acquire: insert the row at generation 1, or take over an
\* expired one at the next generation.
AcquireLease(w) ==
    /\ worker[w].pc = "loaded"
    /\ lease.worker = NoWorker \/ ~lease.live
    /\ lease' = [worker |-> w, generation |-> lease.generation + 1, live |-> TRUE]
    /\ worker' = [worker EXCEPT ![w] = [@ EXCEPT !.pc = "handling",
                                                 !.generation = lease.generation + 1]]
    /\ UNCHANGED <<store, items, client, spent>>

LeaseBusy(w) ==
    /\ worker[w].pc = "loaded"
    /\ lease.worker # NoWorker /\ lease.live
    /\ Goto(w, "busy")
    /\ UNCHANGED <<store, items, lease, client, spent>>

\* retry with `lease_busy`; a conflict ends this pass with an error.
RetryBusy(w) ==
    /\ worker[w].pc = "busy"
    /\ items' = IF items[worker[w].item].status = "leased"
                  THEN Settle(worker[w].item, Retried(worker[w].item)) ELSE items
    /\ worker' = [worker EXCEPT ![w] = IdleWorker]
    /\ UNCHANGED <<store, lease, client, spent>>

\* A handler's commit at version v: it succeeds and the handler goes to `pc`,
\* or it conflicts and the worker retries the item as `stale_lease`.
HandlerCommit(w, v, st, cur, sp, str, keys, pc) ==
    \/ /\ CanCommit(v)
       /\ Commit(v, st, cur, sp, str, keys)
       /\ worker' = [worker EXCEPT ![w] = [@ EXCEPT !.pc = pc, !.outcome = "complete"]]
    \/ /\ ~CanCommit(v)
       /\ Answer(w, "retry")
       /\ UNCHANGED <<store, items>>

Handling(w, kind) == worker[w].pc = "handling" /\ worker[w].item.kind = kind

\* AdvanceRunHandler::prepare_run.
PrepareRun(w) ==
    /\ Handling(w, "advance")
    /\ LET run == worker[w].snapshot
           v == worker[w].item.version + 1
       IN /\ run.status = "created"
          /\ HandlerCommit(w, v, "preparing", run.current, steps,
                           StatusChanged(v, run.status, "preparing"), {Advance(v)}, "settling")
    /\ UNCHANGED <<lease, client, spent>>

\* AdvanceRunHandler::start_run, with a step still to do (or none yet).
StartRun(w) ==
    /\ Handling(w, "advance")
    /\ LET run == worker[w].snapshot
           v == worker[w].item.version + 1
       IN /\ run.status = "preparing"
          /\ ~AllTerminal(run.steps)
          /\ HandlerCommit(w, v, "running", run.current, steps,
                           StatusChanged(v, run.status, "running"),
                           {Advance(v)} \cup {Execute(s, v) : s \in PendingReady(run.steps)},
                           "settling")
    /\ UNCHANGED <<lease, client, spent>>

\* AdvanceRunHandler::advance_running_run with steps to schedule.  The event
\* names the step; agent_runs.current_step_id is written back unchanged.
ScheduleSteps(w) ==
    /\ Handling(w, "advance")
    /\ LET run == worker[w].snapshot
           v == worker[w].item.version + 1
           pending == PendingReady(run.steps)
       IN /\ run.status = "running"
          /\ ~AllTerminal(run.steps)
          /\ pending # {}
          /\ \E first \in pending :
               HandlerCommit(w, v, run.status, run.current, steps,
                             CurrentStepChanged(v, run.current, first),
                             {Execute(s, v) : s \in pending}, "settling")
    /\ UNCHANGED <<lease, client, spent>>

\* finalize_run, from start_run as from advance_running_run.  The target is
\* checked against the status the run was loaded with; a target the table
\* forbids is an error that dead-letters the item.
FinalizeRun(w) ==
    /\ Handling(w, "advance")
    /\ LET run == worker[w].snapshot
           v == worker[w].item.version + 1
           target == FinalTarget(run.steps)
       IN /\ run.status \in {"preparing", "running"}
          /\ AllTerminal(run.steps)
          /\ \/ /\ RunTransition(run.status, target)
                /\ HandlerCommit(w, v, target, run.current, steps,
                                 StatusChanged(v, run.status, target), {}, "finalized")
             \/ /\ ~RunTransition(run.status, target)
                /\ Answer(w, "dead_letter")
                /\ UNCHANGED <<store, items>>
    /\ UNCHANGED <<lease, client, spent>>

\* finalize_run's cancel_for_run, after its commit.
CancelFinalized(w) ==
    /\ worker[w].pc = "finalized"
    /\ items' = CancelForRun
    /\ Answer(w, "complete")
    /\ UNCHANGED <<store, lease, client, spent>>

\* The handlers' answers that commit nothing: nothing to schedule, a status
\* the handler does not act on, a step already terminal.  For a resume item
\* this is the whole handler: what it would do for a run that can resume is
\* never reached (ResumeItemsRunning).
CommitsNothing(w) ==
    LET run == worker[w].snapshot
        k == worker[w].item
    IN \/ k.kind = "advance" /\ run.status \notin {"created", "preparing", "running"}
       \/ /\ k.kind = "advance" /\ run.status = "running"
          /\ ~AllTerminal(run.steps) /\ PendingReady(run.steps) = {}
       \/ k.kind = "resume" /\ run.status \notin CanResume
       \/ k.kind = "execute" /\ run.steps[k.step] \in TerminalStep

NothingToDo(w) ==
    /\ worker[w].pc = "handling"
    /\ CommitsNothing(w)
    /\ Answer(w, "complete")
    /\ UNCHANGED <<store, items, lease, client, spent>>

\* ExecuteStepHandler, first commit.  The step is set to running whatever
\* its status was; the step table is not asked.
StartStep(w) ==
    /\ Handling(w, "execute")
    /\ LET run == worker[w].snapshot
           s == worker[w].item.step
           v == worker[w].item.version + 1
       IN /\ run.steps[s] \notin TerminalStep \cup {"absent"}
          /\ HandlerCommit(w, v, run.status, s, [steps EXCEPT ![s] = "running"],
                           StepStatusChanged(v, s, run.steps[s], "running"),
                           {Advance(v)}, "executing")
    /\ UNCHANGED <<lease, client, spent>>

MutFinishStepQuietly(w, to) ==
    LET run == worker[w].snapshot
        s == worker[w].item.step
        v == worker[w].item.version + 2
    IN HandlerCommit(w, v, run.status, s, [steps EXCEPT ![s] = to],
                     StepStatusChanged(v, s, "running", to), {}, "settling")

\* The second commit of ExecuteStepHandler, complete_step or fail_step, at
\* the version after the one its first commit made.
FinishStep(w, to) ==
    LET run == worker[w].snapshot
        s == worker[w].item.step
        v == worker[w].item.version + 2
    IN HandlerCommit(w, v, run.status, s, [steps EXCEPT ![s] = to],
                     StepStatusChanged(v, s, "running", to), {Advance(v)}, "settling")

CompleteStep(w) ==
    /\ worker[w].pc = "executing"
    /\ worker[w].item.step \notin AgentSteps
    /\ FinishStep(w, "succeeded")
    /\ UNCHANGED <<lease, client, spent>>

(* A step assigned to an agent is performed by StepModelExecutor, which    *)
(* publishes the result itself.  Its provider dispatch is external here.   *)

AtAgentStep(w, pc) == worker[w].pc = pc /\ worker[w].item.step \in AgentSteps

\* The provider answered and its result is prepared against the run as it is
\* now; the database refuses unless run and step are running.
ExecutorPrepare(w) ==
    /\ AtAgentStep(w, "executing")
    /\ status = "running"
    /\ steps[worker[w].item.step] = "running"
    /\ worker' = [worker EXCEPT ![w] = [@ EXCEPT !.pc = "prepared", !.prepared = version]]
    /\ UNCHANGED <<store, items, lease, client, spent>>

MutCanPublish(w) == steps[worker[w].item.step] = "running"

CanPublish(w) ==
    /\ version = worker[w].prepared
    /\ status = "running"
    /\ steps[worker[w].item.step] = "running"

\* commit_provider_result_on: the step succeeds and the run is told to move
\* on, in one transaction; the handler has nothing left to write.
PublishResult(w) ==
    /\ AtAgentStep(w, "prepared")
    /\ CanPublish(w)
    /\ LET s == worker[w].item.step
           v == worker[w].prepared + 1
       IN /\ version' = v
          /\ steps' = [steps EXCEPT ![s] = "succeeded"]
          /\ stream' = StepStatusChanged(v, s, "running", "succeeded")
          /\ items' = Enqueue({Advance(v)}, 0)
    /\ Answer(w, "complete")
    /\ UNCHANGED <<status, current, lease, client, spent>>

\* Denied, unknown or failed, before the result is prepared or when it is
\* published: fail_step.
FailStep(w) ==
    /\ AtAgentStep(w, "executing") \/ AtAgentStep(w, "prepared")
    /\ FinishStep(w, "failed")
    /\ UNCHANGED <<lease, client, spent>>

\* Another owner's dispatch, or a saturated provider: the item is retried.
StepContended(w) ==
    /\ AtAgentStep(w, "executing")
    /\ Answer(w, "retry")
    /\ UNCHANGED <<store, items, lease, client, spent>>

-----------------------------------------------------------------------------
(* The end of process_item.                                                *)

\* A handler's transaction is rolled back by a storage error: retried.
HandlerStorageError(w) ==
    /\ Strike("storage")
    /\ \/ worker[w].pc = "handling" /\ ~CommitsNothing(w)
       \/ worker[w].pc \in {"executing", "finalized"}
    /\ Answer(w, "retry")
    /\ UNCHANGED <<store, items, lease, client>>

MutSettleItem(w) ==
    LET k == worker[w].item
        outcome == worker[w].outcome
    IN /\ worker[w].pc = "settling"
       /\ items' = Settle(k, IF outcome = "dead_letter" THEN outcome
                            ELSE IF outcome = "retry" THEN Retried(k) ELSE "completed")
       /\ Goto(w, "releasing")
       /\ UNCHANGED <<store, lease, client, spent>>

\* complete and retry refuse an item that is no longer leased, and then the
\* error skips the release; dead_letter asks for no status.
SettleItem(w) ==
    LET k == worker[w].item
        outcome == worker[w].outcome
    IN /\ worker[w].pc = "settling"
       /\ \/ /\ outcome = "dead_letter"
             /\ items' = Settle(k, "dead_letter")
             /\ Goto(w, "releasing")
          \/ /\ outcome # "dead_letter"
             /\ items[k].status = "leased"
             /\ items' = Settle(k, IF outcome = "retry" THEN Retried(k) ELSE "completed")
             /\ Goto(w, "releasing")
          \/ /\ outcome # "dead_letter"
             /\ items[k].status # "leased"
             /\ items' = items
             /\ worker' = [worker EXCEPT ![w] = IdleWorker]
       /\ UNCHANGED <<store, lease, client, spent>>

\* release: deletes the row of this worker and generation; a lost lease is
\* ignored.
ReleaseLease(w) ==
    /\ worker[w].pc = "releasing"
    /\ lease' = IF lease.worker = w /\ lease.generation = worker[w].generation
                  THEN NoLease ELSE lease
    /\ worker' = [worker EXCEPT ![w] = IdleWorker]
    /\ UNCHANGED <<store, items, client, spent>>

\* The process stops, or a queue call fails and the error leaves run_once:
\* its item and its run lease stay as they are until they run out.
WorkerCrash(w) ==
    /\ Strike("crash")
    /\ worker[w].pc # "idle"
    /\ worker' = [worker EXCEPT ![w] = IdleWorker]
    /\ UNCHANGED <<store, items, lease, client>>

-----------------------------------------------------------------------------
(* Time.  A lease its holder has left behind runs out; one still worked    *)
(* under may run out too, by a slow handler or by the clock of whoever     *)
(* reads it, and that is a fault.                                          *)

HoldsItem(w, k) == worker[w].pc # "idle" /\ worker[w].item = k /\ items[k].owner = w

ExpireItem(k) ==
    /\ items[k].live
    /\ IF \E w \in Workers : HoldsItem(w, k) THEN Strike("expire") ELSE UNCHANGED spent
    /\ items' = [items EXCEPT ![k].live = FALSE]
    /\ UNCHANGED <<store, lease, worker, client>>

HoldsLease(w) == lease.worker = w /\ worker[w].generation = lease.generation

ExpireRunLease ==
    /\ lease.live
    /\ IF \E w \in Workers : HoldsLease(w) THEN Strike("expire") ELSE UNCHANGED spent
    /\ lease' = [lease EXCEPT !.live = FALSE]
    /\ UNCHANGED <<store, items, worker, client>>

-----------------------------------------------------------------------------

Command(c) ==
    \/ AddSteps(c) \/ AddAgentStep(c) \/ TransitionRun(c) \/ ResumeRun(c)
    \/ ApproveRun(c) \/ TerminateRun(c) \/ TransitionStep(c) \/ CreateCheckpoint(c)

\* The rest of a request that takes several transactions.
Continue(c) ==
    \/ EnqueueAgentStep(c) \/ GrantApproval(c) \/ CancelWork(c) \/ CommitTermination(c)

Work(w) ==
    \/ LeaseNext(w) \/ LoadRun(w) \/ LoadSteps(w) \/ CompleteStale(w) \/ DeclineItem(w)
    \/ AcquireLease(w) \/ LeaseBusy(w) \/ RetryBusy(w)
    \/ PrepareRun(w) \/ StartRun(w) \/ ScheduleSteps(w)
    \/ FinalizeRun(w) \/ CancelFinalized(w) \/ NothingToDo(w)
    \/ StartStep(w) \/ CompleteStep(w)
    \/ ExecutorPrepare(w) \/ PublishResult(w) \/ FailStep(w) \/ StepContended(w)
    \/ SettleItem(w) \/ ReleaseLease(w)

Fault(w) == DenyItem(w) \/ HandlerStorageError(w) \/ WorkerCrash(w)

TimePasses == ExpireRunLease \/ \E k \in DOMAIN items : ExpireItem(k)

Next ==
    \/ \E c \in Clients : Command(c) \/ Continue(c) \/ ClientCrash(c)
    \/ \E w \in Workers : Work(w) \/ Fault(w)
    \/ TimePasses

Spec == Init /\ [][Next]_vars

\* run_loop polls for ever, a request runs to its end unless the server stops,
\* and time passes.
Fairness ==
    /\ \A w \in Workers : WF_vars(Work(w))
    /\ \A c \in Clients : WF_vars(Continue(c))
    /\ WF_vars(TimePasses)

FairSpec == Spec /\ Fairness
-----------------------------------------------------------------------------
(* Properties.                                                             *)

Streams == [version : Nat, status : RunStatuses, current : StepIds \cup {NoStep},
            steps : StepMaps, refused : SUBSET Reasons]

StoreOK ==
    /\ status \in RunStatuses
    /\ version \in Nat
    /\ current \in StepIds \cup {NoStep}
    /\ steps \in StepMaps
    /\ stream \in Streams

ItemsOK == items \in [DOMAIN items -> Items] /\ DOMAIN items \subseteq ItemKeys

LeaseOK == lease \in [worker : Workers \cup {NoWorker}, generation : Nat, live : BOOLEAN]

WorkerStates ==
    [pc : WorkerPositions, item : ItemKeys, generation : Nat, snapshot : Snapshots,
     prepared : Nat, outcome : {"complete", "retry", "dead_letter"}]

ClientStates ==
    [pc : ClientPositions, version : Nat, target : RunStatuses, step : StepIds \cup {NoStep}]

\* Every variable has the type its column or local has.
TypeOK ==
    /\ StoreOK
    /\ ItemsOK
    /\ LeaseOK
    /\ worker \in [Workers -> WorkerStates]
    /\ client \in [Clients -> ClientStates]
    /\ spent \in [commands : Nat, faults : Nat]

\* What replay_run makes of the stream, with every reason it has to refuse:
\* its version, status and steps are those of agent_runs and run_steps, and
\* each event continues the one before it, whatever handlers and commands
\* interleave, whatever load is torn, lease lost or process stopped between
\* two commits (store.rs, commit_on).  replay_run's tables refuse exactly the
\* runs in which a handler has started a step: execute_step.rs records
\* pending -> running, which replay.rs forbids, and sets current_step_id.
\* The current step itself is not replayed: the column moves without an
\* event (execute_step.rs) and the event without the column (advance_run.rs),
\* so replay_run may refuse a second CurrentStepChanged, and only then.
StreamFaithful ==
    /\ stream.version = version
    /\ stream.status = status
    /\ stream.steps = steps
    /\ "chain" \notin stream.refused
    /\ ("table" \in stream.refused) <=> (current # NoStep)
    /\ ("current" \in stream.refused) => (stream.current # NoStep)

\* An execute item that is not stale names a step that is still pending, so
\* the handler may start it without asking the step's table
\* (execute_step.rs, handle).
ExecuteItemsPending ==
    \A k \in DOMAIN items :
        k.kind = "execute" /\ k.version = version => steps[k.step] = "pending"

\* A resume item that is not stale finds the run already running, since
\* resume_run commits both together: ResumeRunHandler has nothing to do
\* (coordinator.rs, resume_run; resume_run.rs, handle).
ResumeItemsRunning ==
    \A k \in DOMAIN items :
        k.kind = "resume" /\ k.version = version => status = "running"

\* A handler only ever starts a pending step: no step is started twice, by
\* whatever worker, retry or expired lease (execute_step.rs, first commit).
StepsStartPending ==
    [][\A w \in Workers :
         worker[w].pc = "handling" /\ worker'[w].pc = "executing"
           => steps[worker[w].item.step] = "pending"]_vars

\* A worker writes neither run nor steps while the run is paused or terminal,
\* even with an item it leased or a snapshot it read before (worker.rs,
\* process_item).
HaltedRunIsStill ==
    [][(status \in Halted /\ worker' # worker)
         => UNCHANGED store]_vars

\* A terminal status is final: no late resume, approval, cancellation or
\* handler replaces it (status.rs, transition_to; store.rs, commit_on).
TerminalIsFinal == [][(status \in TerminalRun) => (status' = status)]_vars

\* When a worker ends a run, every step is terminal at that moment, and the
\* result agrees with all of them (advance_run.rs, finalize_run).
FinalizationSound ==
    [][\A w \in Workers :
         worker[w].pc = "handling" /\ worker'[w].pc = "finalized"
           => /\ \A s \in Present : steps[s] \in TerminalStep
              /\ status' = "succeeded" <=> \A s \in Present : steps[s] = "succeeded"
              /\ status' = "failed" <=> \E s \in Present : steps[s] = "failed"]_vars

\* A work item that was settled is never work again: no late retry, complete
\* or second enqueue of its key revives it (work_queue.rs).
RetiredStaysRetired ==
    [][\A k \in DOMAIN items :
         items[k].status \notin {"ready", "leased"}
           => items'[k].status \notin {"ready", "leased"}]_vars

\* The queue of a run that may still move comes to rest: once commands and
\* faults have stopped, no item of it is leased, retried or rescheduled for
\* ever (worker.rs, process_item).  A paused or ended run is excepted:
\* process_item declines its item without settling it (worker.rs:233), and
\* the item is leased again after every expiry.
QueueDrains ==
    <>[](status \in Halted \/ \A k \in DOMAIN items : items[k].status \notin {"ready", "leased"})

\* What may hold up a run that is running: a step its worker left behind
\* between its two commits, or an agent step whose execute item was never
\* queued or went stale; and the item that was to move the run on, dead or
\* cancelled.
StepAbandoned ==
    \E s \in StepIds : steps[s] = "running" \/ (s \in AgentSteps /\ steps[s] = "pending")

WorkLost ==
    \E k \in DOMAIN items : k.version = version /\ items[k].status \in {"cancelled", "dead_letter"}

\* A run with steps stays in `running` only behind an abandoned step or a
\* dead item: every handler that leaves the run running queues what moves it
\* on, whatever was interrupted, denied or retried (execute_step.rs,
\* complete_step and fail_step; advance_run.rs; work_queue.rs, retry).
RunMovesOn ==
    <>[](status = "running" /\ Present # {}) => <>[](StepAbandoned \/ WorkLost)

-----------------------------------------------------------------------------
(* The inductive invariant behind the safety properties: what a worker or  *)
(* a client has read is either still true or the version has moved past    *)
(* the commit it will attempt.                                             *)

FreshWorker(x) ==
    /\ x.pc # "idle" => x.item \in DOMAIN items
    /\ x.pc \in {"loading", "loaded", "busy", "handling"} =>
         /\ x.item.version <= version
         /\ x.snapshot.status \notin Halted
         /\ x.item.version = version =>
              x.snapshot.status = status /\ x.snapshot.current = current
    /\ x.pc \in {"loaded", "busy", "handling"} =>
         (x.item.version = version => x.snapshot.steps = steps)
    /\ x.pc \in {"executing", "prepared"} =>
         /\ x.item.kind = "execute"
         /\ x.item.version < version
         /\ x.snapshot.status \notin Halted
         /\ x.item.version + 1 = version =>
              /\ x.snapshot.status = status
              /\ steps[x.item.step] = "running"
              /\ current = x.item.step

FreshClient(x) ==
    /\ x.pc # "idle" => x.version <= version
    /\ x.pc = "approving" => (x.version = version => status = "running")
    /\ x.pc \in {"terminating", "committing"} =>
         (x.version = version => RunTransition(status, x.target))
    /\ x.pc = "enqueueing" =>
         /\ x.step \in StepIds
         /\ x.version = version => steps[x.step] = "pending"

FreshItem(k) ==
    /\ k.version <= version
    /\ k.kind = "execute" => (k.version = version => steps[k.step] = "pending")
    /\ k.kind = "resume" => (k.version = version => status = "running")

RunInv ==
    /\ TypeOK
    /\ StreamFaithful
    /\ \A w \in Workers : FreshWorker(worker[w])
    /\ \A c \in Clients : FreshClient(client[c])
    /\ \A k \in DOMAIN items : FreshItem(k)
=============================================================================
