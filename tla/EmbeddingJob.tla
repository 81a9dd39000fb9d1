---------------------------- MODULE EmbeddingJob ----------------------------
(***************************************************************************)
(* Embedding jobs on one connection: the accepted delivery job and its     *)
(* output keys, the workers that execute it (EmbeddingExecutor), the       *)
(* key reconcilers (EmbeddingOutputKeyService), and the retirement and     *)
(* termination that end a job nothing was sent for.                        *)
(*                                                                         *)
(* A repository call is one transaction and one step; the calls to the     *)
(* provider and to the host vault lie between transactions, and a process  *)
(* may stop before any step.  A call of the vault is one step of           *)
(* KeyLifecycle, which MaterialKeyVault is shown to implement, or stops    *)
(* half-way through a retirement.  A job's result is bound under one       *)
(* preparation, so a bound key is "bound".                                 *)
(*                                                                         *)
(* Left out: the versions (a job's status never returns to an earlier one),*)
(* credentials, evidence and source materials, which are taken to be in    *)
(* order, and the corpus and index bookkeeping of a publication.           *)
(***************************************************************************)
EXTENDS Integers, FiniteSets

CONSTANTS
    Jobs,           \* the jobs, as numbers in the order of their creation
    OutputCount,    \* how many outputs each job was accepted with
    Workers,        \* the processes executing jobs
    Reconcilers,    \* the processes reconciling output keys
    MaxInFlight,    \* max_in_flight of the admission policy
    WindowLimit     \* requests_per_60_seconds of the admission policy

ASSUME JobsAssumption ==
    /\ Jobs \subseteq Nat
    /\ OutputCount \in [Jobs -> Nat \ {0}]

ASSUME AdmissionAssumption ==
    /\ MaxInFlight \in Nat \ {0}
    /\ WindowLimit \in Nat \ {0}

VARIABLES
    status,         \* embedding_jobs.state, or "absent" before acceptance
    intent,         \* material_key_creation_intents.state of each output
    vault,          \* the key of each output, in the host vault
    retirement,     \* the evidence of the job's retirement authority
    wait,           \* the job's provider_admission_waits row, or its throttled admission
    denied,         \* a denying external_effect_authorizations row exists
    dispatch,       \* the lifecycle of the job's effect, once dispatching
    receipt,        \* the effect's receipt; an acknowledged one has its preparation
    lease,          \* the slot of the job's unreleased provider_concurrency_leases row
    window,         \* admitted_in_window
    others,         \* the slots leased to other dispatches over the connection
    claim,          \* the owner of the job's live work claim
    calls,          \* how often the provider was called for the job
    worker,         \* what each worker is doing
    reconciler      \* what each reconciler is doing

jobVars == <<status, intent, retirement, denied, receipt, dispatch>>
admissionVars == <<wait, lease, window, others>>

vars == <<jobVars, admissionVars, vault, claim, calls, worker, reconciler>>

Statuses == {"absent", "requested", "running", "succeeded", "cancelled",
             "failed_definite", "inconclusive_unknown"}

Active == {"requested", "running"}

IntentStates == {"reserved", "receipted", "abandoning", "abandoned", "prepared", "bound", "live"}

KeyStates == {"absent", "live", "bound", "fenced", "erased"}

WaitStates == {"none", "waiting", "expired", "ended", "throttled"}

Evidence == {"cancellation_authorization", "external_effect_denied", "admission_timeout"}

Slots == 0 .. MaxInFlight - 1

NoSlot == -1

NoJob == -1

Nobody == "nobody"

ASSUME NobodyAssumption == Nobody \notin Workers

Outputs(j) == 0 .. OutputCount[j] - 1

WorkPoints == {"idle", "recover", "dispatch", "call", "failed", "seal", "commit", "load",
               "bind", "record", "publish", "finish"}

KeyPoints == {"idle", "create", "created", "retire", "retired"}

IdleWorker == [at |-> "idle", job |-> NoJob, todo |-> {}]

IdleReconciler == [at |-> "idle", job |-> NoJob, output |-> 0]

Least(S) == CHOOSE x \in S : \A y \in S : x <= y

Init ==
    /\ status = [j \in Jobs |-> "absent"]
    /\ intent = [j \in Jobs |-> [o \in Outputs(j) |-> "reserved"]]
    /\ vault = [j \in Jobs |-> [o \in Outputs(j) |-> "absent"]]
    /\ retirement = [j \in Jobs |-> "none"]
    /\ wait = [j \in Jobs |-> "none"]
    /\ denied = [j \in Jobs |-> FALSE]
    /\ dispatch = [j \in Jobs |-> "none"]
    /\ receipt = [j \in Jobs |-> "none"]
    /\ lease = [j \in Jobs |-> NoSlot]
    /\ window = 0
    /\ others = {}
    /\ claim = [j \in Jobs |-> Nobody]
    /\ calls = [j \in Jobs |-> 0]
    /\ worker = [w \in Workers |-> IdleWorker]
    /\ reconciler = [r \in Reconcilers |-> IdleReconciler]

-----------------------------------------------------------------------------
(* Acceptance, and the claims on work                                      *)

\* accept_delivery_outputs: the job, its effect and its output intents at once
Accept(j) ==
    /\ status[j] = "absent"
    /\ \A i \in Jobs : i < j => status[i] # "absent"
    /\ status' = [status EXCEPT ![j] = "requested"]
    /\ UNCHANGED <<intent, retirement, denied, receipt, dispatch, admissionVars, vault, claim,
                   calls, worker, reconciler>>

Claimable == {j \in Jobs : status[j] \in Active /\ claim[j] = Nobody}

\* claim, for one job: the oldest active job without a live claim
ClaimWork(w) ==
    /\ worker[w] = IdleWorker
    /\ Claimable # {}
    /\ claim' = [claim EXCEPT ![Least(Claimable)] = w]
    /\ worker' = [worker EXCEPT ![w] = [at |-> "recover", job |-> Least(Claimable), todo |-> {}]]
    /\ UNCHANGED <<jobVars, admissionVars, vault, calls, reconciler>>

\* claim_deadline passes
ClaimExpires(j) ==
    /\ claim[j] # Nobody
    /\ claim' = [claim EXCEPT ![j] = Nobody]
    /\ UNCHANGED <<jobVars, admissionVars, vault, calls, worker, reconciler>>

\* finish: only the owner of a live claim ends it; anyone else is told of a conflict
Finish(w) ==
    /\ worker[w].at = "finish"
    /\ claim' = [claim EXCEPT ![worker[w].job] = IF @ = w THEN Nobody ELSE @]
    /\ worker' = [worker EXCEPT ![w] = IdleWorker]
    /\ UNCHANGED <<jobVars, admissionVars, vault, calls, reconciler>>

\* The process stops, or a call fails without effect and the caller gives up.
Crash(w) ==
    /\ worker[w] # IdleWorker
    /\ worker' = [worker EXCEPT ![w] = IdleWorker]
    /\ UNCHANGED <<jobVars, admissionVars, vault, claim, calls, reconciler>>

Go(w, point) == worker' = [worker EXCEPT ![w].at = point]

-----------------------------------------------------------------------------
(* execute: recover_embedding_job_attempt decides how to go on             *)

AllOutputs(j, states) == \A o \in Outputs(j) : intent[j][o] \in states

Prepared(j) == receipt[j] = "acknowledged"

\* vestrace_lock_embedding_job_pre_dispatch_gate, for a job that has not ended
Gate(j) == status[j] \in Active /\ AllOutputs(j, {"receipted"})

\* the arm of recover_embedding_job_attempt the job's evidence selects
Recovery(j) ==
    CASE Prepared(j) /\ status[j] = "running" -> "resume_result_prepared"
      [] status[j] \notin Active \/ ~Gate(j) -> "end"
      [] dispatch[j] = "none" -> "resume_reserved"
      [] dispatch[j] = "overdue" /\ receipt[j] = "none" -> "adopt"
      [] OTHER -> "end"

ResumeReserved(w) ==
    /\ worker[w].at = "recover"
    /\ Recovery(worker[w].job) = "resume_reserved"
    /\ Go(w, "dispatch")
    /\ UNCHANGED <<jobVars, admissionVars, vault, claim, calls, reconciler>>

ResumeResultPrepared(w) ==
    /\ worker[w].at = "recover"
    /\ Recovery(worker[w].job) = "resume_result_prepared"
    /\ Go(w, "load")
    /\ UNCHANGED <<jobVars, admissionVars, vault, claim, calls, reconciler>>

\* adopts whatever the evidence beside the deadline says
MutAdoptedUnknown(w) ==
    /\ worker[w].at = "recover"
    /\ dispatch[worker[w].job] = "overdue"
    /\ status' = [status EXCEPT ![worker[w].job] = "inconclusive_unknown"]
    /\ dispatch' = [dispatch EXCEPT ![worker[w].job] = "adopted"]
    /\ Go(w, "finish")
    /\ UNCHANGED <<intent, retirement, denied, receipt, admissionVars, vault, claim, calls,
                   reconciler>>

\* adopt_lost_dispatch_in, then vestrace_finalize_embedding_job_unknown
AdoptedUnknown(w) ==
    /\ worker[w].at = "recover"
    /\ Recovery(worker[w].job) = "adopt"
    /\ status' = [status EXCEPT ![worker[w].job] = "inconclusive_unknown"]
    /\ dispatch' = [dispatch EXCEPT ![worker[w].job] = "adopted"]
    /\ Go(w, "finish")
    /\ UNCHANGED <<intent, retirement, denied, receipt, admissionVars, vault, claim, calls,
                   reconciler>>

\* The job has ended, its dispatch deadline is awaited, or the recovery is refused.
RecoveryEnds(w) ==
    /\ worker[w].at = "recover"
    /\ Recovery(worker[w].job) = "end"
    /\ Go(w, "finish")
    /\ UNCHANGED <<jobVars, admissionVars, vault, claim, calls, reconciler>>

-----------------------------------------------------------------------------
(* prepare_dispatch: policy, admission and the dispatching row at once     *)

\* An execution asks under identities of its own, so a row an earlier one left is
\* a replay with another tuple; the trigger on the dispatching row refuses a second.
MutFresh(j) == wait[j] = "none"

Fresh(j) == dispatch[j] = "none" /\ wait[j] = "none"

\* forgets the leases of jobs that are running
MutHolders == {j \in Jobs : lease[j] # NoSlot /\ dispatch[j] = "open" /\ status[j] = "requested"}

\* the jobs whose lease is neither released nor expired
Holders == {j \in Jobs : lease[j] # NoSlot /\ dispatch[j] = "open"}

InFlight == Cardinality(Holders) + Cardinality(others)

Full == InFlight >= MaxInFlight \/ window >= WindowLimit

FreeSlots == Slots \ (others \cup {lease[j] : j \in Holders})

\* Expired leases are released before anything is counted.
KeptLeases == [j \in Jobs |-> IF j \in Holders THEN lease[j] ELSE NoSlot]

\* the policy denies; the denial is kept as evidence
DispatchDenied(w) ==
    LET j == worker[w].job IN
    /\ worker[w].at = "dispatch"
    /\ Gate(j)
    /\ denied' = [denied EXCEPT ![j] = TRUE]
    /\ Go(w, "finish")
    /\ UNCHANGED <<status, intent, retirement, receipt, dispatch, admissionVars, vault, claim,
                   calls, reconciler>>

DispatchWaits(w) ==
    LET j == worker[w].job IN
    /\ worker[w].at = "dispatch"
    /\ Gate(j) /\ Fresh(j) /\ Full
    /\ wait' = [wait EXCEPT ![j] = "waiting"]
    /\ lease' = KeptLeases
    /\ Go(w, "finish")
    /\ UNCHANGED <<jobVars, window, others, vault, claim, calls, reconciler>>

\* a throttle the provider was observed to ask for is in force: the admission that says
\* so is kept, and no wait
DispatchThrottled(w) ==
    LET j == worker[w].job IN
    /\ worker[w].at = "dispatch"
    /\ Gate(j) /\ Fresh(j)
    /\ wait' = [wait EXCEPT ![j] = "throttled"]
    /\ lease' = KeptLeases
    /\ Go(w, "finish")
    /\ UNCHANGED <<jobVars, window, others, vault, claim, calls, reconciler>>

\* The least free slot is leased, and the trigger on the dispatching row sets the
\* job running.
DispatchPrepared(w) ==
    LET j == worker[w].job IN
    /\ worker[w].at = "dispatch"
    /\ Gate(j) /\ Fresh(j) /\ ~Full
    /\ lease' = [KeptLeases EXCEPT ![j] = Least(FreeSlots)]
    /\ window' = window + 1
    /\ dispatch' = [dispatch EXCEPT ![j] = "open"]
    /\ status' = [status EXCEPT ![j] = "running"]
    /\ Go(w, "call")
    /\ UNCHANGED <<intent, retirement, denied, receipt, wait, others, vault, claim, calls,
                   reconciler>>

DispatchRefused(w) ==
    LET j == worker[w].job IN
    /\ worker[w].at = "dispatch"
    /\ ~(Gate(j) /\ Fresh(j))
    /\ Go(w, "finish")
    /\ UNCHANGED <<jobVars, admissionVars, vault, claim, calls, reconciler>>

\* the governed adapter calls the provider
CallProvider(w) ==
    /\ worker[w].at = "call"
    /\ calls' = [calls EXCEPT ![worker[w].job] = @ + 1]
    /\ \E outcome \in {"seal", "failed"} : Go(w, outcome)
    /\ UNCHANGED <<jobVars, admissionVars, vault, claim, reconciler>>

\* complete_post_network with a receipt that is not a success: the job is left as it is
RecordFailure(w) ==
    LET j == worker[w].job IN
    /\ worker[w].at = "failed"
    /\ receipt' = [receipt EXCEPT ![j] = "failed"]
    /\ lease' = [lease EXCEPT ![j] = NoSlot]
    /\ Go(w, "finish")
    /\ UNCHANGED <<status, intent, retirement, denied, dispatch, wait, window, others, vault, claim,
                   calls, reconciler>>

-----------------------------------------------------------------------------
(* prepare: seal the vectors under the output keys, then commit them       *)

\* load_eligibility and commit_prepared lock the completion authority first
CompletionAuthority(j) == status[j] \in {"running", "succeeded"} /\ retirement[j] = "none"

\* with_embedding_output_key: a key that is bound, erased or being erased is refused
KeysUsable(j) == \A o \in Outputs(j) : vault[j][o] = "live"

\* load_eligibility, and seal_outputs with each output's key
Seal(w) ==
    LET j == worker[w].job IN
    /\ worker[w].at = "seal"
    /\ Go(w, IF ~CompletionAuthority(j) THEN "finish"
             ELSE IF Prepared(j) THEN "load"
             ELSE IF KeysUsable(j) THEN "commit" ELSE "finish")
    /\ UNCHANGED <<jobVars, admissionVars, vault, claim, calls, reconciler>>

SetIntents(j, state) == intent' = [intent EXCEPT ![j] = [o \in Outputs(j) |-> state]]

CanPrepare(j) == CompletionAuthority(j) /\ status[j] = "running" /\ AllOutputs(j, {"receipted"})

\* commit_prepared: receipt, preparation, prepared outputs and released lease at once
CommitPrepared(w) ==
    LET j == worker[w].job IN
    /\ worker[w].at = "commit"
    /\ CanPrepare(j)
    /\ receipt' = [receipt EXCEPT ![j] = "acknowledged"]
    /\ SetIntents(j, "prepared")
    /\ lease' = [lease EXCEPT ![j] = NoSlot]
    /\ Go(w, "load")
    /\ UNCHANGED <<status, retirement, denied, dispatch, wait, window, others, vault, claim, calls,
                   reconciler>>

\* an existing preparation is taken over; anything else is refused
CommitEnds(w) ==
    LET j == worker[w].job IN
    /\ worker[w].at = "commit"
    /\ ~CanPrepare(j)
    /\ Go(w, IF CompletionAuthority(j) /\ Prepared(j) THEN "load" ELSE "finish")
    /\ UNCHANGED <<jobVars, admissionVars, vault, claim, calls, reconciler>>

-----------------------------------------------------------------------------
(* finalize: bind every key in the vault, record it, publish               *)

Unbound(j) == {o \in Outputs(j) : intent[j][o] = "prepared"}

\* load_progress: published, or the outputs that need binding, or ready to publish
LoadProgress(w) ==
    LET j == worker[w].job IN
    /\ worker[w].at = "load"
    /\ worker' = [worker EXCEPT ![w].todo = Unbound(j),
                                ![w].at = CASE status[j] # "running" -> "finish"
                                            [] Unbound(j) # {} -> "bind"
                                            [] OTHER -> "publish"]
    /\ UNCHANGED <<jobVars, admissionVars, vault, claim, calls, reconciler>>

\* bind_embedding_output: a live key, or the key bound under this preparation
BindOutput(w) ==
    LET j == worker[w].job
        o == Least(worker[w].todo) IN
    /\ worker[w].at = "bind"
    /\ IF vault[j][o] \in {"live", "bound"}
       THEN vault' = [vault EXCEPT ![j][o] = "bound"] /\ Go(w, "record")
       ELSE UNCHANGED vault /\ Go(w, "finish")
    /\ UNCHANGED <<jobVars, admissionVars, claim, calls, reconciler>>

\* record_binding: the binding receipt is the key's own, so a second one agrees
RecordBinding(w) ==
    LET j == worker[w].job
        o == Least(worker[w].todo)
        left == worker[w].todo \ {o} IN
    /\ worker[w].at = "record"
    /\ intent' = [intent EXCEPT ![j][o] = IF @ = "prepared" THEN "bound" ELSE @]
    /\ worker' = [worker EXCEPT ![w].todo = left, ![w].at = IF left = {} THEN "load" ELSE "bind"]
    /\ UNCHANGED <<status, retirement, denied, receipt, dispatch, admissionVars, vault, claim,
                   calls, reconciler>>

CanPublish(j) ==
    /\ status[j] = "running"
    /\ \A o \in Outputs(j) : intent[j][o] = "bound" /\ vault[j][o] = "bound"

\* publishes before every output is bound
MutPublish(w) ==
    LET j == worker[w].job IN
    /\ worker[w].at \in {"bind", "publish"}
    /\ IF status[j] = "running"
       THEN status' = [status EXCEPT ![j] = "succeeded"] /\ SetIntents(j, "live")
       ELSE UNCHANGED <<status, intent>>
    /\ Go(w, "finish")
    /\ UNCHANGED <<retirement, denied, receipt, dispatch, admissionVars, vault, claim, calls,
                   reconciler>>

\* publish, with a commitment made under each bound key: outputs live and job
\* succeeded at once; a replay returns the publication there is
Publish(w) ==
    LET j == worker[w].job IN
    /\ worker[w].at = "publish"
    /\ IF CanPublish(j)
       THEN status' = [status EXCEPT ![j] = "succeeded"] /\ SetIntents(j, "live")
       ELSE UNCHANGED <<status, intent>>
    /\ Go(w, "finish")
    /\ UNCHANGED <<retirement, denied, receipt, dispatch, admissionVars, vault, claim, calls,
                   reconciler>>

-----------------------------------------------------------------------------
(* reconcile_one: the vault call lies between two transactions             *)

WantsKey(j, o) == status[j] \in Active /\ retirement[j] = "none" /\ intent[j][o] = "reserved"

WantsErasure(j, o) ==
    status[j] \in Active /\ retirement[j] # "none" /\ intent[j][o] = "abandoning"

Reconcilable(j) == {o \in Outputs(j) : WantsKey(j, o) \/ WantsErasure(j, o)}

Waiting == {j \in Jobs : Reconcilable(j) # {}}

\* claim_next: the first output, by job and ordinal, that has something to be done.
\* Rows another reconciler's transaction holds locked are skipped, but the claim
\* commits before the vault is called, so no claim outlives its transaction.
ClaimKey(r) ==
    LET j == Least(Waiting)
        o == Least(Reconcilable(j)) IN
    /\ reconciler[r] = IdleReconciler
    /\ Waiting # {}
    /\ reconciler' = [reconciler EXCEPT ![r] =
           [at |-> IF WantsKey(j, o) THEN "create" ELSE "retire", job |-> j, output |-> o]]
    /\ UNCHANGED <<jobVars, admissionVars, vault, claim, calls, worker>>

Proceed(r, point) == reconciler' = [reconciler EXCEPT ![r].at = point]

StopReconciler(r) == reconciler' = [reconciler EXCEPT ![r] = IdleReconciler]

\* makes an erased key again
MutVaultCreate(r) ==
    LET j == reconciler[r].job
        o == reconciler[r].output IN
    /\ reconciler[r].at = "create"
    /\ vault' = [vault EXCEPT ![j][o] = IF @ \in {"absent", "erased"} THEN "live" ELSE @]
    /\ Proceed(r, "created")
    /\ UNCHANGED <<jobVars, admissionVars, claim, calls, worker>>

\* create_embedding_output_if_absent, refused once the key is withdrawn
VaultCreate(r) ==
    LET j == reconciler[r].job
        o == reconciler[r].output IN
    /\ reconciler[r].at = "create"
    /\ IF vault[j][o] \in {"absent", "live", "bound"}
       THEN /\ vault' = [vault EXCEPT ![j][o] = IF @ = "absent" THEN "live" ELSE @]
            /\ Proceed(r, "created")
       ELSE UNCHANGED vault /\ StopReconciler(r)
    /\ UNCHANGED <<jobVars, admissionVars, claim, calls, worker>>

\* record_receipt: refused once a retirement was requested
RecordReceipt(r) ==
    LET j == reconciler[r].job
        o == reconciler[r].output IN
    /\ reconciler[r].at = "created"
    /\ intent' = [intent EXCEPT ![j][o] =
           IF @ = "reserved" /\ retirement[j] = "none" THEN "receipted" ELSE @]
    /\ StopReconciler(r)
    /\ UNCHANGED <<status, retirement, denied, receipt, dispatch, admissionVars, vault, claim,
                   calls, worker>>

\* retire_embedding_output: the fence, then the erasure; a bound key refuses
VaultRetire(r) ==
    LET j == reconciler[r].job
        o == reconciler[r].output IN
    /\ reconciler[r].at = "retire"
    /\ \/ /\ vault[j][o] # "bound"
          /\ vault' = [vault EXCEPT ![j][o] = "erased"]
          /\ Proceed(r, "retired")
       \/ /\ vault[j][o] \in {"absent", "live"}
          /\ vault' = [vault EXCEPT ![j][o] = "fenced"]
          /\ StopReconciler(r)
    /\ UNCHANGED <<jobVars, admissionVars, claim, calls, worker>>

\* record_retirement: the erasure receipt of an output that is to be abandoned
RecordRetirement(r) ==
    LET j == reconciler[r].job
        o == reconciler[r].output IN
    /\ reconciler[r].at = "retired"
    /\ intent' = [intent EXCEPT ![j][o] = IF @ = "abandoning" THEN "abandoned" ELSE @]
    /\ StopReconciler(r)
    /\ UNCHANGED <<status, retirement, denied, receipt, dispatch, admissionVars, vault, claim,
                   calls, worker>>

CrashReconciler(r) ==
    /\ reconciler[r] # IdleReconciler
    /\ StopReconciler(r)
    /\ UNCHANGED <<jobVars, admissionVars, vault, claim, calls, worker>>

-----------------------------------------------------------------------------
(* Retirement and termination of a job nothing was sent for                *)

Proven(j, evidence) ==
    CASE evidence = "cancellation_authorization" -> TRUE
      [] evidence = "external_effect_denied" -> denied[j]
      [] OTHER -> wait[j] = "expired"

\* takes an unanswered dispatch for none
MutUndispatched(j) == receipt[j] = "none"

\* nothing in the effect's lifecycle says it was ever dispatched
Undispatched(j) == dispatch[j] = "none" /\ receipt[j] = "none"

\* request_retirement: one authority per job; every output is to be abandoned
RequestRetirement(j, evidence) ==
    /\ status[j] \in Active /\ Undispatched(j)
    /\ retirement[j] = "none" /\ Proven(j, evidence)
    /\ retirement' = [retirement EXCEPT ![j] = evidence]
    /\ SetIntents(j, "abandoning")
    /\ UNCHANGED <<status, denied, receipt, dispatch, admissionVars, vault, claim, calls, worker,
                   reconciler>>

TerminalState(evidence) ==
    IF evidence = "cancellation_authorization" THEN "cancelled" ELSE "failed_definite"

\* terminate_pre_dispatch: under the retirement's authority, every output abandoned
Terminate(j) ==
    /\ status[j] \in Active /\ Undispatched(j) /\ retirement[j] # "none"
    /\ AllOutputs(j, {"abandoned"})
    /\ status' = [status EXCEPT ![j] = TerminalState(retirement[j])]
    /\ wait' = [wait EXCEPT ![j] = IF @ \in {"none", "throttled"} THEN @ ELSE "ended"]
    /\ UNCHANGED <<intent, retirement, denied, receipt, dispatch, lease, window, others, vault, claim,
                   calls, worker, reconciler>>

-----------------------------------------------------------------------------
(* Time, and the effect sweeper                                            *)

\* dispatch_expires_at passes, and the lease with it
DispatchDeadline(j) ==
    /\ dispatch[j] = "open"
    /\ dispatch' = [dispatch EXCEPT ![j] = "overdue"]
    /\ UNCHANGED <<status, intent, retirement, denied, receipt, admissionVars, vault, claim,
                   calls, worker, reconciler>>

\* deadline_at of the wait passes
WaitDeadline(j) ==
    /\ wait[j] = "waiting"
    /\ wait' = [wait EXCEPT ![j] = "expired"]
    /\ UNCHANGED <<jobVars, lease, window, others, vault, claim, calls, worker, reconciler>>

\* the next admission finds the window of sixty seconds over
WindowTurns ==
    /\ window > 0
    /\ window' = 0
    /\ UNCHANGED <<jobVars, wait, lease, others, vault, claim, calls, worker, reconciler>>

\* The sweeper of external effects adopts a lost dispatch, and knows no jobs.
Sweep(j) ==
    /\ dispatch[j] = "overdue" /\ receipt[j] = "none"
    /\ dispatch' = [dispatch EXCEPT ![j] = "adopted"]
    /\ UNCHANGED <<status, intent, retirement, denied, receipt, admissionVars, vault, claim,
                   calls, worker, reconciler>>

\* Any other effect sent over the connection passes the same admission.
OtherDispatch ==
    /\ ~Full
    /\ others' = others \cup {Least(FreeSlots)}
    /\ window' = window + 1
    /\ lease' = KeptLeases
    /\ UNCHANGED <<jobVars, wait, vault, claim, calls, worker, reconciler>>

\* Its receipt releases the lease, or its deadline does.
OtherEnds(slot) ==
    /\ others' = others \ {slot}
    /\ UNCHANGED <<jobVars, wait, lease, window, vault, claim, calls, worker, reconciler>>

-----------------------------------------------------------------------------
WorkerStep(w) ==
    \/ ClaimWork(w) \/ Finish(w) \/ Crash(w)
    \/ ResumeReserved(w) \/ ResumeResultPrepared(w) \/ AdoptedUnknown(w) \/ RecoveryEnds(w)
    \/ DispatchDenied(w) \/ DispatchWaits(w) \/ DispatchThrottled(w) \/ DispatchPrepared(w)
    \/ DispatchRefused(w) \/ CallProvider(w) \/ RecordFailure(w)
    \/ Seal(w) \/ CommitPrepared(w) \/ CommitEnds(w)
    \/ LoadProgress(w) \/ BindOutput(w) \/ RecordBinding(w) \/ Publish(w)

ReconcilerStep(r) ==
    \/ ClaimKey(r) \/ VaultCreate(r) \/ RecordReceipt(r)
    \/ VaultRetire(r) \/ RecordRetirement(r) \/ CrashReconciler(r)

JobStep(j) ==
    \/ Accept(j) \/ ClaimExpires(j)
    \/ \E evidence \in Evidence : RequestRetirement(j, evidence)
    \/ Terminate(j)
    \/ DispatchDeadline(j) \/ WaitDeadline(j) \/ Sweep(j)

Next ==
    \/ \E w \in Workers : WorkerStep(w)
    \/ \E r \in Reconcilers : ReconcilerStep(r)
    \/ \E j \in Jobs : JobStep(j)
    \/ WindowTurns
    \/ OtherDispatch
    \/ \E slot \in others : OtherEnds(slot)

Spec == Init /\ [][Next]_vars

-----------------------------------------------------------------------------
(* Properties                                                              *)

\* Every variable has its type.
TypeOK ==
    /\ status \in [Jobs -> Statuses]
    /\ DOMAIN intent = Jobs /\ \A j \in Jobs : intent[j] \in [Outputs(j) -> IntentStates]
    /\ DOMAIN vault = Jobs /\ \A j \in Jobs : vault[j] \in [Outputs(j) -> KeyStates]
    /\ retirement \in [Jobs -> Evidence \cup {"none"}]
    /\ wait \in [Jobs -> WaitStates]
    /\ denied \in [Jobs -> BOOLEAN]
    /\ dispatch \in [Jobs -> {"none", "open", "overdue", "adopted"}]
    /\ receipt \in [Jobs -> {"none", "acknowledged", "failed"}]
    /\ lease \in [Jobs -> Slots \cup {NoSlot}]
    /\ window \in 0 .. WindowLimit
    /\ others \subseteq Slots
    /\ claim \in [Jobs -> Workers \cup {Nobody}]
    /\ calls \in [Jobs -> Nat]
    /\ worker \in [Workers -> [at : WorkPoints, job : Jobs \cup {NoJob}, todo : SUBSET Nat]]
    /\ reconciler \in [Reconcilers -> [at : KeyPoints, job : Jobs \cup {NoJob}, output : Nat]]

\* The provider is called at most once for a job, and never before the dispatch is
\* on record, although claims expire under slow workers and executions are repeated
\* (execute and prepare_dispatch).
OneCall ==
    \A j \in Jobs : calls[j] <= 1 /\ (calls[j] = 1 => dispatch[j] # "none")

\* Unanswered dispatches within their deadline never outnumber max_in_flight, although
\* leases are counted and released by other jobs' admissions (the admission of
\* prepare_dispatch, complete_post_network, commit_prepared), and a window never admits
\* more than its limit.
InFlightBounded ==
    /\ Cardinality({j \in Jobs : dispatch[j] = "open" /\ receipt[j] = "none"}) + Cardinality(others)
         <= MaxInFlight
    /\ window <= WindowLimit

\* A job reported cancelled or definitely failed never reached the provider, and every
\* output key made for it is gone, even one whose creation came late
\* (terminate_pre_dispatch, request_retirement, reconcile_one).
EndedMeansErased ==
    \A j \in Jobs :
        status[j] \in {"cancelled", "failed_definite"} =>
            /\ calls[j] = 0
            /\ \A o \in Outputs(j) : vault[j][o] = "erased"

\* A job reported succeeded was answered by one call, and each of its live outputs has
\* its key bound in the vault (finalize, publish).
SucceededMeansKept ==
    \A j \in Jobs :
        status[j] = "succeeded" =>
            /\ receipt[j] = "acknowledged" /\ calls[j] = 1
            /\ \A o \in Outputs(j) : intent[j][o] = "live" /\ vault[j][o] = "bound"

\* A job reported inconclusive has no result, then or later: nothing was prepared and
\* no key was bound, however late the answer comes (recover_embedding_job_attempt
\* against commit_prepared).
UnknownHasNoResult ==
    \A j \in Jobs :
        status[j] = "inconclusive_unknown" =>
            /\ receipt[j] # "acknowledged"
            /\ \A o \in Outputs(j) : vault[j][o] # "bound"

\* What the database says of an output is true of its key in the vault, although every
\* vault call lies between two transactions and may be overtaken (reconcile_one and
\* finalize).
RecordsMatchVault ==
    \A j \in Jobs : \A o \in Outputs(j) :
        /\ intent[j][o] \in {"receipted", "prepared"} => vault[j][o] \in {"live", "bound"}
        /\ intent[j][o] \in {"bound", "live"} => vault[j][o] = "bound"
        /\ intent[j][o] = "abandoned" => vault[j][o] = "erased"
=============================================================================
