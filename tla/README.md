# vestrace in TLA+

This directory holds a TLA+ development of the parts of vestrace that carry its
correctness: a durable runtime for agent runs in which several server and worker
processes share one PostgreSQL database, events are the truth and projections are
derived from them.  TLC checks small instances; TLAPS proves the main safety
properties for every value of the constants.

`PROJECT.json` lists the components, the runs, the mutants that show each property
can fail, the map from definitions to source lines, the hazards and
the theorems.

## 1. Inventory

The workspace is a set of Rust crates: `vestrace-domain` (records and their rules),
`vestrace-application` (services and handlers over ports), `vestrace-infrastructure`
(PostgreSQL stores, vaults, providers), `vestrace-http`, `vestrace-mcp` and
`vestrace-cli` (entry points, and the worker loop), `vestrace-fault-scenario` (fault
drills), and the SQL migrations.

| Component | State it keeps | Operations | Hard behaviour | What makes it correct |
|---|---|---|---|---|
| Run status machines (`domain/run/status.rs`) | none | `transition_to`, `can_resume`, `is_terminal` | | terminal is final |
| Run coordinator (`application/run/coordinator.rs`) | none of its own; `agent_runs`, `run_steps`, `run_events`, `run_work_items` through the store | create, add steps, transition, pause, resume, approve, cancel, transition step, checkpoint | several transactions per command, races with workers, a server that stops between them | the stream stays the truth; something is always scheduled |
| Run worker (`application/run/worker.rs`) | its leased item and its snapshot of the run | `run_once`, `process_item` | leases that run out, torn reads, crashes, retries | nothing is done twice; a paused or ended run is left alone |
| Handlers (`application/run/handlers/*`) | none | advance, execute, resume | two commits per step, stale items, finalization from a snapshot | a step starts once, a run ends once with the result its steps imply |
| Run store, queue, lease (`infrastructure/postgres/run/*`) | `agent_runs`, `run_steps`, `run_streams`, `run_events`, `run_work_items`, `run_leases` | `commit`, `load`, `lease_next`, `complete`, `retry`, `dead_letter`, `cancel_for_run`, `acquire`, `release` | compare-and-set is the only fence; settling does not ask who holds the lease | the projection equals the stream |
| Replay (`application/run/replay.rs`) | none | `replay_run` | asks tables the handlers do not ask | it derives the version, status and steps the tables hold |
| Step model executor, provider dispatch and result | `run_step_execution_attempts`, provider dispatch rows | accept, dispatch, prepare, publish, recover | the answer outlives its run version; contended dispatch | one result per step, at the version it was prepared at |
| External effects (`application/external_effects.rs`) | intents, authorizations, receipts, lifecycle transitions | `perform` | a process that dies between the call and its receipt | what left the process has a record |
| Effect recovery (`application/effect_recovery.rs`) | reconciliations, recovery attempts, worker presence | `sweep`, adoption | a sweep racing the late answer of a live call, two sweepers | every unknown outcome is asked about until it is settled |
| Outcome delivery (`application/effect_outcome_delivery.rs`) | `notified_at`, the run's stream | `deliver_once` | at-least-once across two aggregates, appends beside the coordinator | the run learns of the outcome and keeps working |
| Memory (`application/memory/services.rs`) | `memories`, `memory_revisions`, `idempotency_keys` | remember, revise | reads, checks and writes in transactions of their own | no update is lost, an answer means the write is announced |
| Outbox (`application/outbox.rs`) | `outbox_messages` | save, claim, mark processed, record failure | two drains share a message; backoff, dead letters, a bounded batch | at least once, never lost |
| Material vault (`infrastructure/crypto/material_vault.rs`) | a directory of stage files per key | create, bind, open, fence, retire, erase | no lock, any process may stop at any file-system call | a bound key stays, an erased one does not come back |
| Installation safety (`application/installation_safety.rs`, `infrastructure/safety/*`) | a signed journal, a witness record, guarded tables | initialize, advance, reconcile, drain | three places that move one after another, several supervisors | the tables are those of one signed history |
| Embedding pipeline (`application/embedding/*`) | jobs, work claims, output key intents, preparations, spaces | accept, execute, reconcile keys, retire, terminate, transition, erase | claims that expire, late answers, vault calls between transactions | one call per job; the job's end, its result and its keys agree |
| Credentials and connections | versions, leases | activate, rotate, revoke | rotation during a dispatch | a dispatch uses a live version |
| Backup archive, restore cutover (`application/backup_archive.rs`, `restore_cutover.rs`, the supervisor's commands) | sets, checkpoints, holds, keys and object files; attempts, targets | begin, append, seal, delete; hold, prepare, freeze, materialize, activate, refuse | files, keys and tables change in turn, a stop between any two | what is committed stays stored, what is restored stays held |
| Claims, retrieval, trust, qualification, conformance | records | sequential mutations and pure decisions | | idempotency, pure functions |

How they interact.  Clients reach the coordinator through HTTP.  The coordinator and
the handlers write the run only through `RunStore::commit`, which moves
`agent_runs.run_version` by one, appends the event and inserts the work items in one
transaction.  Workers find work only through `run_work_items`.  Handlers of agent steps
call the model executor, which goes through provider dispatch and publishes its result
by a commit of its own.  The effect sweep and outcome delivery run in the worker loop
beside the runs and append to the same streams, and so do the drain of the outbox and
the execution of embedding jobs, which share the table of external effects and the
admission of a connection.  A memory write leaves a message; the drain turns it into an
embedding job; the job's result is sealed under keys of the host vault.  The safety
supervisor is a process of its own; it shares only its permit with the rest.

## 2. Plan

1. **Run execution** (`RunStatus`, `RunExecution`, `MCRunExecution`,
   `RunExecution_proofs`): coordinator, worker, handlers, store, queue, lease, replay.
   Done.
2. **External effects** (`ExternalEffects`, `MCExternalEffects`,
   `ExternalEffects_proofs`), recovery, and outcome delivery composed with them and with
   the run's stream (`OutcomeDelivery`, `MCOutcomeDelivery`, `OutcomeDelivery_proofs`).  Done.
3. **The host vault** (`KeyLifecycle`, `MaterialKeyVault`, `MCMaterialKeyVault`), with the
   lifecycle its trait promises as the abstract specification it refines.  Done.
4. **Embedding jobs** (`EmbeddingJob`, `MCEmbeddingJob`) over that lifecycle, with provider
   dispatch and admission.  Done for delivery jobs.
5. **Memory writes and the outbox** (`MemoryOutbox`, `MCMemoryOutbox`).  Done.
6. **Proofs** of the vault's refinement and invariants, of the fences of embedding jobs
   (`EmbeddingJob_proofs`), of memory writes and the outbox (`MemoryOutbox_proofs`) and of
   step 7 (`InstallationSafety_proofs`).  Done: every safety property the passing
   runs check is a theorem.
7. **Installation safety, backup and restore** (`InstallationSafety`,
   `MCInstallationSafety`): witness, journal, permit, archive, cutover, supervisor.  Done.
8. **The attempt rows of provider dispatch for run steps**, credentials, the drain,
   qualification jobs, the transition between embedding spaces, the legacy reducer, and the
   pure algorithms (rank fusion, delegation containment, conflict grouping) against
   reference definitions.

The theorems worth proving are, for each of these, the type invariant and the invariant
that makes its fence sound: the version fence of runs (done), the adoption fence of lost
dispatches (done), the decision fence of the vault and its refinement (done), the dispatch
fence of embedding jobs (done), the signed history of the guarded tables (done).

## 3. Run execution

### State and actions

`RunStatus` holds the two status machines.  `RunExecution` models one run; runs share
nothing but processes.

| Variable | Code |
|---|---|
| `status`, `version`, `current` | `agent_runs.status`, `run_version`, `current_step_id` |
| `steps` | `run_steps.status`; `"absent"` for a step not yet added |
| `stream` | `run_streams.current_version` and the projection `replay_run` computes, folded event by event; `refused` collects why a replay would fail |
| `items` | `run_work_items`, keyed by kind, step and expected version, which is what the idempotency key says |
| `lease` | the `run_leases` row with its generation |
| `worker` | each worker's position in `run_once` / `process_item` / a handler, with its item and snapshot |
| `client` | each request's position in a command of several transactions |
| `spent` | bounds only: commands issued and faults struck |

Every store call is one transaction and so one step.  `load_on` is two statements of a
READ COMMITTED transaction and is two steps (`LoadRun`, `LoadSteps`), so torn reads
happen.  A command with a single commit is one step: a commit at another version
changes nothing.  Commands of several transactions (terminate, approve, accept an agent
step) are several.  The handlers' snapshots are kept in the worker and used later, as
the code does.

Leases: time is abstracted to whether a lease has passed its `lease_until`.  A lease
nobody works under runs out freely; one still worked under runs out only as a fault
(`"expire"`).  A crash forgets the worker's locals and leaves its item and lease.
`HandlerStorageError` is a store error that reaches the worker, `DenyItem` a refusal of
the authorization boundary.

Left out: the order in which `lease_next` prefers items (any order is allowed, which
admits theirs), `available_at` and the retry delay (a retried item may be leased at
once or later), `renew` (it has no caller), and two branches no state can reach (a run
that does not exist, a kind with no handler).

### Runs

| Run | Instance | Shows |
|---|---|---|
| `run_races` | two workers, one client, a lease that may run out under its holder; the client adds a step and cancels | `TypeOK`, `StreamFaithful`, `ExecuteItemsPending`, `StepsStartPending`, `FinalizationSound`, `RetiredStaysRetired` |
| `run_commands` | two clients with every command, one worker, from creation | `HaltedRunIsStill`, `TerminalIsFinal` |
| `run_drains` | one worker, a client that adds a plain step, an agent's step or cancels, a crash, denial, storage error or lost lease anywhere, fairness | `StreamFaithful`, `ExecuteItemsPending` and `FinalizationSound` with the executor's own commit and failed steps in play, `QueueDrains`, `RunMovesOn` |

Bounds.  Two workers are enough for every race the store arbitrates, since a
compare-and-set has one winner and one loser; the theorems remove the bound.  Two or
three commands reach every pair of commands around one worker pass.  One fault leaves
any one position behind while everybody else goes on; `MaxAttempts` is the store's 3, so dead
letters happen.  The instances that begin with `Started` begin where two passes of one
worker over a new run end.  Deadlock is not checked: with the commands spent and the
queue at rest the model stops, as the system does.

Fairness.  `run_loop` polls for ever, so each worker's next step is weakly fair; a
request runs to its end unless the server stops, so `Continue` is; and time passes, so
leases left behind run out.  Commands and faults are never fair.

### Disagreements with the repository's own words

These are what the code does.  The properties are stated so that they hold with it; what
they except is named in them and listed here:

* Every run that executed a step has a stream `replay_run` refuses: the handler records
  `pending -> running` (`execute_step.rs:97`), `RunStepStatus::transition_to` has no such
  change (`status.rs:250`) and `replay_run` asks it for every event (`replay.rs:175`).
  `StreamFaithful` says that this is when, and the only time when, the tables refuse.
* The current step is no projection of the stream: `advance_run.rs:282` records
  `CurrentStepChanged` and leaves the column, `execute_step.rs:104` sets the column and
  records no such event, and `replay.rs:186` refuses a second one that does not continue
  the first.  Version, status and steps are what the stream and the tables share.
* That a started step is finished in the end is false and is not stated.  After the first
  commit of `ExecuteStepHandler` the item is stale, so the retry of a contended dispatch
  (`execute_step.rs:207`) abandons the step in `running`, where `execute_step.rs:200` means
  to avoid "a step nobody is coming back for"; so does any command, crash or storage error
  between the two commits (`execute_step.rs:146`).  `RunMovesOn` excepts it
  (`StepAbandoned`), and an advance item that is dead or cancelled (`WorkLost`).
* The queue of a paused or ended run does not come to rest: a worker that declines an item
  of it cancels everything but that item, which is leased again after every expiry
  (`worker.rs:233`).  `QueueDrains` excepts such runs.
* `RunMovesOn` does not hold with the commands that commit beside a queued item: the second
  commit of `approve_run` makes the advance item of the first one stale
  (`coordinator.rs:581`), and the approved run stays in `running`, although
  `coordinator.rs:134` says of the items that they travel with the transition so that it is
  not left "with nothing scheduled to act on it"; `resume_run` on a running run makes every
  queued item stale and queues one that does nothing (`coordinator.rs:491`); a checkpoint
  or a step's transition moves the version and queues nothing.  `run_drains` leaves these
  commands out.
* A server that stops, or a conflict, between `cancel_for_run` and the commit leaves a
  running run with no work (`coordinator.rs:202`); and while a crashed worker's run lease
  lives, other workers' retries spend the item's attempts (`worker.rs:257`).

### Proofs

`RunExecution_proofs` proves, for any sets of workers, clients and steps, any commands,
faults and bounds, from `RunConstants` and `NamesAreDistinct` alone:
`TypeCorrect`, `StreamIsFaithful`, `ExecuteItemsNamePending`,
`ResumeItemsFindRunning` (invariants) and `StepsStartOnce`, `HaltedRunsAreLeftAlone`,
`TerminalStaysFinal`, `FinalizationIsSound`, `SettledItemsStaySettled` (action
properties).

None of them is inductive alone.  The argument is the one the code relies on without
writing it down: *whatever a worker, a request or a queued item has read is still true,
or the version has moved past the commit it will attempt*.  `RunInv` says so: for each
position of a worker (`FreshWorker`) and of a client (`FreshClient`) what its locals
imply if its version is still the run's, and for each item (`FreshItem`) what its
expected version implies.  Torn reads are harmless for exactly this reason: the version
is read first, so steps newer than it belong to a version that has moved.
`RunInvariant` proves `Spec => []RunInv` with one lemma per action; the action
properties follow from `RunInv` and `[Next]_vars`.

Only model-checked: the liveness properties (`RunMovesOn`,
`QueueDrains`), which need fairness.

## 4. External effects, recovery and delivery

### State and actions

`ExternalEffects` models the effects of one workspace: `perform`, the append-only tables
it writes, the provider, time, and the sweepers that find out what became of an effect.
`OutcomeDelivery` extends it with the deliverers and with one run whose stream they
append to.

| Variable | Code |
|---|---|
| `performer` | how far `PerformExternalEffectService::perform` has come with each effect: before the call, in it, holding an answer, ended |
| `world` | what the provider did, which no code reads but through the adapter and the read-back |
| `receipt` | `external_effect_receipts.outcome_status` |
| `lifecycle` | `external_effect_lifecycle_transitions` by ordinal |
| `latest`, `settled` | `external_reconciliations`: the outcome of the latest row of each candidate branch, and the rows that settle, with `notified_at` |
| `overdue`, `lapsed`, `recent` | the comparisons with the clock: dispatch deadline, presence of the dispatch owner, rows younger than the one-minute cutoffs |
| `place` | the order of `candidate_at` |
| `sweeper` | each sweep's position, the candidates it still holds, and whether the time it stamps its rows with is already past the cutoff |
| `version`, `head`, `events` | `agent_runs.run_version`, `run_streams.current_version`, `run_events` |
| `deliverer` | each pass's position, its debts and the head it read |

Every repository call is one step, and so are the call to the provider and the
read-back.  The provider may act on a request (`Land`) after the caller stopped
waiting.  `insert_receipt` takes its ordinal before it commits, so the receipt may land
anywhere after the dispatch in the order of ordinals; `InsertReceipt` leaves the place
open.  `reconciled_at` is the time the sweep began, not the time the row is written,
which is why `latest` may keep the older row and why a slow sweep matters.

Left out: refusals that change nothing, the adapters' wording of responses (kept is
which of them say that nothing happened), the error `run` reports without recording an
attempt (a receipt of another effect, which discovery never pairs with an intent), other
workspaces (they share nothing), and
the transaction variants only provider dispatch calls, which are in `EmbeddingJob`.  The debts of
`OutcomeDelivery` are in the order of insertion, which is the order of `reconciled_at`
when one sweeper writes them; the delivery instances have one.  `StreamFaithful` of
`RunExecution` is about the run's own commits: what a delivery does to them is
described below.

### Runs

| Run | Instance | Shows |
|---|---|---|
| `effect_races` | one effect, two sweepers, the performer and the sweepers may stop, a sweep may be slow | `NothingForgotten`, `ReceiptOutranksGuess`, `OneAsker` |
| `effects_settle` | two dispatched effects, only the younger can be asked about, a batch of one, fairness | `EffectsSettle` |
| `delivery_races` | two deliverers that may stop, one run that commits meanwhile, two settlements | `HeadIsLast`, `MarkedMeansTold`, `DebtsPaidOnce` |
| `outcomes_delivered` | three debts, to a run that does not exist, to one that commits meanwhile and to nobody, two deliverers, a batch of two, fairness | `OutcomesDelivered` |

Bounds.  Effects meet only in the batch, and two with a batch of one already compete
for it; the safety properties speak of one effect at a time, and two sweepers are the
two rivals for one adoption.  The theorems remove these bounds.  Two settlements are the
least that let a deliverer hold the debt another has paid while a second waits.
`MaxSettled` bounds how often an effect is settled (see below); `MaxEvents` and
`MaxCommits` stop the stream.  Where these stop the model the system goes on, so
deadlock is not checked.

Fairness.  The worker's loop passes every 500 ms and each pass sweeps and delivers, so
`Reconcile` and `Deliver` are weakly fair.  A candidate is in reach of a batch for
longer than a pass, since the cutoffs are a minute: `Reaches` is strongly fair.  Time
passes.  Two conjuncts are assumptions about the outside and not guarantees of the
code: a provider asked again and again about an effect it serves answers one day
(`Answered`), and a read-back returns at all, although its client sets no timeout.

### Where the code and its documents part

These were found with the same models on instances that are not kept as runs:

* A run that was told an outcome while under way cannot commit again.  Delivery appends
  at `run_streams.current_version + 1` and moves only `run_streams`
  (`run_event_store.rs:139`); every later commit writes the event of
  `agent_runs.run_version + 1` (`store.rs:398`), a sequence that is taken, and fails on
  the unique key of migration 0111 (line 53).  `legacy_event.rs:114` calls an outcome "an
  observation, not a transition".  In the model `CommitRun` is disabled from then on.
* `EffectsSettle` with `"slow"` among the faults: rows are stamped with the time the
  sweep began, so a sweep that outlasts the cutoff writes failed attempts that keep
  nobody out of the next batch (`effect_recovery.rs:438`; migration 0156 is there to
  prevent the starvation).
* `OutcomesDelivered` with `DeliveryBatch = 1` and `Vanished` not empty: a debt to a run
  that does not exist keeps its place at the front of every batch
  (`external_effect_repository.rs:1301`).
* *A settled effect is no candidate*, as migration 0156 says ("removes the effect from
  recovery altogether"): it is one again when its late receipt says `unknown`
  (`external_effect_repository.rs:32`), which is why `MaxSettled` is a bound here.

### Proofs

`ExternalEffects_proofs` proves, for any effects, sweepers, routes, faults and bounds,
from `EffectConstants` alone: `EffectsTypeCorrect`, `NothingIsForgotten`,
`ReceiptsOutrankGuesses` and `OneSweeperAsks`.

`NothingForgotten` is a statement about a query, and holds because of what may stand in
a lifecycle.  `EffectInv` says it: before its dispatch an effect has exactly the rows
`perform` wrote (`EarlyRows`); after it, and until a receipt or a settlement, nothing
but adoptions (`DispatchRows`); after a receipt and until a settlement, nothing but
adoptions either, wherever the receipt's ordinal fell (`ReceiptRows`); and a latest
outcome that settles is one of the settlements (`LatestIsKept`).  A sweep holds only
dispatched effects (`SweepsHold`), so it cannot disturb the first part.  For one asker
the missing fact is that whoever asks has adopted (`AskersAdopted`): an adoption is
never taken back, so a second one is refused.

`OutcomeDelivery_proofs` carries this over to the composition, for any deliverers,
batches and bounds.  `HeadIsLast` (`HeadCountsEvents`) needs one more fact, that the
run's version never passes the head: the unique key then lets a commit through only where
the two are equal, so that setting the head to the version loses no delivery.
`MarkedMeansTold` (`OutcomesAreTold`) rests on `TellInv`: whoever is about to mark a debt
has put its outcome in the stream, debts are never taken back, and what is settled was
dispatched.  The last is needed because marking writes a lifecycle row of its own, after
which `EffectInv` must still hold (`MarkKeepsEffects`); with it,
`DeliveryForgetsNothing` proves `NothingForgotten` of the composition too, and
`DeliveryTypeCorrect` that a pass under way always has a debt in hand.  `DebtsPaidOnce`
(`PaymentsAreSingle`) is inductive beside `TellInv` and is a proof about counting: a step
of an effect or a sweep writes rows of other causes and settles only what is owed; a
receipt that goes in among the rows moves the ones behind it, which a bijection shows to
change no count; and a mark adds one row and one paid debt in the same transaction.

Only model-checked: `EffectsSettle` and `OutcomesDelivered`, which need fairness.

## 5. The host vault

### State and actions

`KeyLifecycle` is what the trait `MaterialKeyVault` promises of one key, each operation
in one step: a key is made once, and then it is bound to the preparation whose result it
sealed and stays, or it is fenced and erased.  `MaterialKeyVault` is what
`HostMaterialKeyVault` does: a directory per key, stages published by a hard link that
fails when the name is taken, the sealed data key in a subdirectory that retirement
renames.  There is no lock, so processes interleave at every file-system call.

| Variable | Code |
|---|---|
| `kind` | the `Authority` the callers of this key hold: ordinary, or an embedding output |
| `claimed`, `disposition`, `fence`, `erased` | the stage files of the same names |
| `active`, `retired` | the directories `active` and `retired-active`, and which data key lies in them |
| `spare` | the temporary name `.envelope.tmp-*` of the first data key |
| `minted`, `opened`, `answers` | history: whether a data key was ever installed, which ones a callback ran on, what callers were told |
| `proc` | each process's position in an operation |

The operations are cut where another process can tell: `claim` is four steps,
`create_new` eight, `retire_new` eight, `bind_embedding_output` three, an opening two.
Reads of several stages are one step, because stages are only ever added and a read that
straddles a change passes as at one instant or refuses, which `Abandon` allows anywhere.
`Abandon` is also the crash and the input-output error.

Left out: the contents of receipts and envelopes (a data key is the first the directory
ever held, or a later one), keys claimed under another authority, which are refused, and
the legacy files, which no operation creates any more and which are rewritten in place.

### Run

`vault_races`: three processes, two preparations, both kinds of key, deadlock checked.
Three are needed: a creator and a retirer race, and a third one sees what they left.  The
run shows `BoundKeyKept`, `ErasureHolds`, and, as a refinement, `ImplementsLifecycle`:
with `Fate` computed from the stages, every step of every process is a step of
`KeyLifecycle` or a stutter.  The mapping says where each operation takes effect: creation
at the link, binding at the link of `output-disposition`, retirement at the fence and
then at the witness.  A key decided for retirement is still live until its fence, since a
creator may be given its receipt until then.

### Proofs

`MaterialKeyVault_proofs` proves all four for any processes and preparations, from `PreparationsAssumption` (a preparation is not one of the words the
model uses for a disposition).  `VaultInv` is inductive where the properties are not: a
bound key is safe because no process *will* fence it, so the invariant says what each
process knows at the point it has come to (`Knows`).  Its parts are: until the fence there is
one data key and it is in place (`Unfenced`); the fence of an output key follows the
decision to retire it (`Decisions`); no receipt is given after the fence, so whoever is
past the rename has left no data key a receipt stands for (`Gone`).  The refinement is
proved step by step: `LinkEnvelope` is `KeyLifecycle`'s creation, the link of
`output-disposition` its binding, the fence and the witness its two steps of retirement,
a return its answer, and every other step leaves `Fate` and the answers as they are.

### Where the code and its documents part

* A creator that read no claim may make `active` again after a retirement renamed it.
  `claim` then refuses every later call (`material_vault.rs:367`), so an erasure that was
  answered once is not answered again, although
  `tests/material_vault_contract.rs:190` and `docs/design/materials.md:19` call it
  idempotent.  The key stays erased.
* A creator that stops between the link and the removal of its temporary name
  (`material_vault.rs:324`) leaves a second name of the sealed data key.  A retirement's rename carries it into
  `retired-active`, where no operation reads it and none removes it, so an erasure that was
  answered may leave the sealed bytes on the disk.  `ErasureHolds` says what is true: no
  envelope in either directory, no name of any kind in `active`.

## 6. Embedding jobs

### State and actions

`EmbeddingJob` models delivery jobs over one connection: acceptance with output keys, the
claims of workers, `EmbeddingExecutor::execute` with recovery, dispatch, the provider
call, preparation and finalization, the key reconcilers, retirement and termination, the
effect sweeper, and the other dispatches that compete for the connection.

| Variable | Code |
|---|---|
| `status`, `claim` | `embedding_jobs.state`, the live `embedding_work_claims` row |
| `intent`, `vault` | `material_key_creation_intents.state` of each output, and its key, as `KeyLifecycle` describes it |
| `retirement`, `denied` | the evidence of the retirement authority, a denying authorization |
| `dispatch`, `receipt` | the effect's lifecycle and receipt |
| `wait`, `lease`, `window`, `others` | `provider_admission_waits` or the throttled row of `connection_dispatch_admissions`, `provider_concurrency_leases`, the admission window, the leases of other dispatches |
| `calls` | history: calls of the provider |
| `worker`, `reconciler` | positions and what was read |

A repository call is one transaction and one step, SQL functions and triggers included:
`DispatchPrepared` is the policy's answer, the admission, the lease and the trigger that
sets the job running.  Provider and vault calls lie between transactions.  A vault call
is one step of `KeyLifecycle`, which is what section 5 justifies; a retirement may also
stop at its fence.  `DispatchDeadline` makes an open dispatch overdue at any time, so a
late answer and an adoption meet in either order.  `DispatchThrottled` may happen at any
dispatch: throttles are observed from every caller of the connection.

Left out: row versions (a status never returns to an earlier one), credentials, evidence
and source materials, which are taken to be in order, the index bookkeeping of a
publication, and retrieval-query jobs, whose answer is not kept.

### Run

`embedding_races`: one job with two outputs, two workers, two reconcilers, two slots and a
window of two.  Jobs meet only in admission, where `others` stands for the rest.  Two
outputs are the least that let a finalization or a retirement stop half-way.  It shows
`OneCall`, `InFlightBounded`, `EndedMeansErased`, `SucceededMeansKept`,
`UnknownHasNoResult` and `RecordsMatchVault`.  Deadlock is not checked: a job ends.  No
liveness is stated, because nothing in production accepts a job with outputs or calls
`reconcile_one` yet, and because of the first three points below.

### Proofs

`EmbeddingJob_proofs` proves the six properties and the type invariant for any jobs,
outputs, workers, reconcilers, slots and windows, from `JobsAssumption` and
`AdmissionAssumption`.  None is inductive alone.  `JobInv`
adds, per job (`JobOK`), that a dispatch and a retirement exclude one another, since a
dispatch needs every output receipted and a retirement the effect undispatched (`Unsent`,
`Sent`, `Retiring`); that results and bound keys belong to an acknowledged receipt
(`Answered`); and how intents, keys and the job's end go together (`Ended`, `Matching`).
Per process it adds what each knows by the point it has come to (`WorkerKnows`,
`ReconcilerKnows`).  A claim may expire under its worker, so `OneCall` needs `Alone`: the
worker whose dispatch was committed is the only one between the dispatch and its receipt.
`InFlightBounded` needs `Leased`, that a dispatch within its deadline has a slot of its
own, and a count of the slots.

### Where a job stays behind

* A job once told to wait is refused until its wait expires: each execution mints new
  admission and wait identities (`executor.rs:170`), and admission takes the row that is
  there for a replay with another tuple.  A job once throttled has no wait that could
  expire: the row of its refusal turns down every later execution the same way, and only
  cancellation ends it (`0192_embedding_job_pre_dispatch_termination.sql:1511`).
* If the effect sweeper adopts an overdue dispatch before the job's worker does
  (`external_effect_repository.rs:617`), recovery refuses the job for ever and it stays
  running and claimable.
* So does a job whose receipt is not a success (`executor.rs:231`).
* `claim_next` always returns the first output with something to be done: one whose vault
  call keeps failing holds back the rest (`keys.rs:120`).
* A dispatch is overdue after 60 seconds (`executor.rs:27`) and the provider client waits
  for 120 (`openai_compatible.rs:34`), so a slow answer is often thrown away.
  `UnknownHasNoResult` shows that nothing worse follows.

## 7. Memory writes and the outbox

### State and actions

`MemoryOutbox` models `remember_memory` and `revise_memory` with their idempotency keys,
the outbox table, `drain_once`, and the one handler the worker installs, which makes an
embedding job of a written memory.

| Variable | Code |
|---|---|
| `memories` | `memories` and `memory_revisions`: which call wrote each revision |
| `purged` | the memories whose rows `purge_memory` deleted |
| `answered` | `idempotency_keys` |
| `outbox` | `outbox_messages`, oldest first, with attempts, backoff and dead letter |
| `jobs` | the revisions a delivery job was accepted for |
| `client`, `drain` | positions, the batch of a drain with the attempts it read |
| `spent` | bounds only |

A write is four transactions (look the key up and read, save, announce, record), each a
step.  The outbox has no leases: a batch is claimed in a transaction that ends before the
handler runs, so two drains may hold the same message.  The handler reads the active
revision (`ReadActive`), then its content (`Materialize`), then makes the job; where the
memory is gone or the content empty it succeeds without one, as the code does.  `Purge`
is the one transaction that deletes a memory with its revisions and may fall between any
two of these steps.  `HandlerRefuses` covers every reason the handler has to fail, `AcceptJob` the job with its own message and the evidence
that is written after it.

Left out: classification, sources, the search document (in the revision's transaction),
what else a purge deletes, `link_knowledge`, the expiry of an
idempotency key, and the sealing of the content.  A message carries the time its call
began; the model lists it when it is saved.

### Run

`outbox_races`: one key that remembers and two that revise the same memory from the same
revision, one of them with empty content, two clients, two drains, a batch of three, two
attempts, one message of another producer, one stop or one purge; from four points of a
memory's life, named in `MCMemoryOutbox`, so that the first write, a revision race, a purge
under a drain and a last attempt are all in reach.  It shows
`NoLostUpdate`, `AnsweredMeansAnnounced`, `ProcessedMeansEmbedded`, `RefusalsBounded` and,
with fairness, `SettledUnlessCrowded`.  `ProcessedMeansEmbedded` is that an acknowledged
message has a job for its revision or a later one, or that one of these has nothing to
embed, or that the memory is purged: no message is done for a reason that is not there.

Fairness: the worker's loop drains in every pass, so each `DrainOnce` is weakly fair, and
backoffs end.  Writes, stops and other producers are not fair.

### Proofs

`MemoryOutbox_proofs` proves the type invariant and the four safety properties for any
clients, keys, drains, batches and attempts, from `OutboxAssumption`.  `OutboxInv` adds what a client knows between its
transactions (`ClientKnows`: what it saved is there under its key, and announced when it
goes to answer) and what a drain knows of the message it handles (`Holds`, `Handles`).
`RefusalsBounded` is the hard one, since each drain decides from the attempts it read
whether its refusal is the last.  `Tried` counts the drains that hold the message with a
count too low to end it (`Stale`): once the row's own count is at the limit no claim can
make a new one, so each of their refusals is paid for by their number going down; and
once the message is dead nobody claims it, so what is left is one refusal of each holder
(`Held`).

### Where the code and its documents part

* Messages of topics without a handler are claimed and skipped but never marked
  (`outbox.rs:217`).  Once there are as many as a batch holds nothing else is delivered,
  and every accepted job writes one.  `SettledUnlessCrowded` states the limit.
* A message may be refused oftener than `MAX_DELIVERY_ATTEMPTS`, at which `outbox.rs:43`
  and `outbox.rs:117` say it is set aside: each drain counts from the claim it holds.
  `RefusalsBounded` is the bound the code keeps, `MaxAttempts - 2` and two for every drain.
* A stop between the revision and its message (`services.rs:202`, `services.rs:372`)
  leaves a revision nobody embeds.  `AnsweredMeansAnnounced` says that its key is then
  not answered.
* `remember_memory` looks its key up first and stores it last: a retry after a stop, or
  beside the first call, writes a second memory, although `docs/reference/http.md:13`
  promises otherwise.
* A message delivered twice makes two jobs, which the comment at
  `embedding_write_route.rs:187` says it must not: each delivery mints a job id.
* `canonical_binding` (`embedding_adoption_repository.rs:715`) may choose a snapshot of a
  scope `vestrace_accept_embedding_job` refuses, so that messages end as dead letters.

## 8. Installation safety, backup and restore

### State and actions

`InstallationSafety` models the commands of the safety supervisor: each moves a signed
journal on the host, a durable witness record on the host and guarded tables in
PostgreSQL together, and some of them files too.

| Variable | Code |
|---|---|
| `signed` | every entry ever signed: predecessor, event, the state it carries |
| `journal`, `witness` | the entry files of `FileSafetyJournal`, the record of `FileInstallationSafetyWitness` |
| `db` | `installation_safety_state`, `managed_backup_*`, `managed_restore_attempts`: head, archive, attempt, generation, released holds, append intents |
| `keys` | archive key envelopes of `FileArchiveKeyCustody` |
| `staged`, `partial`, `promoted` | an object's frame in staging, its immutable file created, and complete |
| `target`, `refused`, `source` | the restore target, the marker of a destroyed one, the source cluster |
| `permit` | the holder of the exclusive installation permit |
| `proc` | each supervisor's position, the head it opened, its entry |
| `limit` | bounds only |

A command opens the witness and keeps the head it read; it signs, takes the permit,
journals, advances the witness, calls the guarded function and commits.  Each is a step,
and so is every file operation of an append, a promotion, a deletion, a materialization
and a refusal.  `Crash` may fall between any two, and stands for every error a command
ends with.  `compare_and_advance` compares with the head its own process opened, so in
the model `Advance` always replaces the record: nothing but the guarded tables notices
that another supervisor was faster.  `Follows` is the check that does.

Left out: signatures, digests and encodings (an entry is its position in `signed`, which
no two share); LSNs and timelines (a manifest covers the freeze when the set has an
object after its base); the shared permits of the ordinary runtime and the drain;
readiness, which only reads; the tools the supervisor starts.

### Run

`safety_races`: two supervisors, one set and one hold, any commands in any order, from
fourteen stages of a set's and a restore's life (`Reached` in `MCInstallationSafety`), two
more entries from each and three where a deletion begins; from one more the base of an
erased set was left half promoted.  Two entries are what two racing commands sign; the stages
make every event the first and the second of a race.  Supervisors are symmetric.
Deadlock is not checked: the bound on signing stops the model, and some states below do
stop the system.  The run shows `WitnessIsJournalled`, `TablesAreSigned`,
`CheckpointsAreStored` and `RestoreIsHeld`: whatever races and
wherever a supervisor stops, what the witness names can be replayed, the tables are those
of one signed history, and no file or hold they rely on is taken away.  Keys are another
matter, see the next run.  Three more
entries from a set with a base (2.17 million states) pass as well and are not kept.

`key_before_blocker` is the same instance with `KeyErasedAfterBlocker`, the order the design
asks for ("no key is erased before the database blocker exists",
`docs/superpowers/specs/2026-08-25-vestrace-v1-full-product-ag-ui-a2a-design.md:730`), and
ends in a violation.  `prepare-deletion` stops after it moved the witness; a first
`erase-key` finds the preparation in the witness, adds its own intent there, and its entry
is one the tables refuse, since they never took the one before; a second `erase-key` finds
the intent in the witness too and erases the key (`safety_supervisor.rs:1950` to `1969`),
while the set is still sealed in the tables.  A `reconcile` after the stop would have
brought the tables up; nothing asks for one.

### Proofs

`InstallationSafety_proofs` proves the four properties of `safety_races` for any number of
supervisors, sets and holds, from any history, and `KeysErasedOnRecord`, the part of the
key's order that does hold: a set the witness knows has its key until an erasure of it is
journalled.  A history is a constant; `HistoriesAssumption` says of it what
`accept_signed` and the guarded functions make true of every history they let through
(`Committed`): entries in sequence, the first of them the installation's, each accepted
by the state before it and carrying the next, set ids minted once, a restore attempt only
for a live set that is held.  TLC evaluates the assumption on the stages of the run.

The argument is in `SafetyInv`.  `SignedInv`: an entry is signed over a head that is in the
journal, so the journal is closed under predecessors whoever writes it, and each entry
carries the state its predecessor's state accepts.  `TablesInv`: the tables follow only a
successor of their own head, so whatever the signed state was accepted for is true of the
tables; this is why a forked witness costs progress and not safety.  `KeysInv` and
`ProcInv`: an entry has one owner until it is journalled, and whoever takes a staged
frame away owns its entry, has its immutable file, or has cancelled its reservation
first; whoever erases a key has journalled that it will.


### Where the code and its documents part

Every race below ends with the tables refusing, so the properties hold; what is lost is
the ability to go on, and in the first two the key.

* A key is erased on the witness's word before the tables hold the deletion: the run
  `key_before_blocker`.
* An out-of-date `compare_and_advance` does not answer `Conflict` "without changing bytes"
  (`docs/superpowers/specs/2026-09-12-vestrace-v1-g0-05-backup-restore-foundation-design.md:271`):
  the comparison is with the process's own copy (`witness_file.rs:190`), and the record is
  overwritten by a sibling of the entry the tables follow.  From then on the tables refuse
  every successor.  On the word of such a sibling even the key of a set that the tables
  hold for a restore can be erased.
* The same outcome follows when a command advances the witness and its guarded
  function then refuses: `backup_commit_sealed` with an intent left over,
  `restore_prepare` on a set without the hold, `restore_activate` racing
  `restore_refuse`, and `backup_begin` before `initialize`.
* `reconcile` cancels every intent whose expected head is the witnessed one, those of an
  append under way included (`safety_supervisor.rs:2763`): the checkpoint that append
  then journals is refused.
* A stop while an object is promoted leaves a short immutable file, which `create_new`
  refuses for ever (`file_store.rs:131`), and which a final deletion refuses to verify.
* `restore_activate` run again after a stop writes the attempt and moves no head
  (`restore_cutover.rs:353`): only a `reconcile` lets the chain go on.
* A hold is released in the tables and never in the witness, which refuses to seal a set
  that was ever held.
* `restore_refuse` that stops between removing the target and its marker cannot be run
  again (`safety_supervisor.rs:1511`); one that stops before `release_hold` leaves the
  hold for ever.

## 9. Only model-checked, and not modelled

Every safety property of the passing runs, invariant, action property or refinement, is
stated by a theorem.  The liveness properties (`RunMovesOn`, `QueueDrains`, `EffectsSettle`,
`OutcomesDelivered`, `SettledUnlessCrowded`) need fairness and `ENABLED`,
which are out of the prover's reach: they are what TLC checks on the instances above, and
no more.

Entry points (HTTP, MCP, console), configuration, codecs and cryptography,
provider transports and the conformance catalogues are I/O or data and hold no protocol
of their own.  The installation drain, credentials, qualification jobs,
the transition between embedding spaces, the intents of ordinary content, the attempt rows
of provider dispatch and the legacy reducer do hold protocols and are the plan's last
steps; `PROJECT.json` lists each with its status.
