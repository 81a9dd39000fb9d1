------------------------ MODULE RunExecution_proofs ------------------------
(***************************************************************************)
(* Proofs about RunExecution for any number of workers, clients, steps,    *)
(* commands and faults.                                                    *)
(***************************************************************************)
EXTENDS RunExecution, TLAPS

LEMMA EnqueueType ==
    ASSUME ItemsOK, NEW keys \in SUBSET ItemKeys, NEW a \in Nat
    PROVE  /\ Enqueue(keys, a) \in [DOMAIN items \cup keys -> Items]
           /\ DOMAIN Enqueue(keys, a) = DOMAIN items \cup keys
           /\ DOMAIN Enqueue(keys, a) \subseteq ItemKeys
  BY DEF ItemsOK, Enqueue, Items, ItemStatuses

LEMMA CancelType ==
    ASSUME ItemsOK
    PROVE  CancelForRun \in [DOMAIN items -> Items] /\ DOMAIN CancelForRun = DOMAIN items
  BY DEF ItemsOK, CancelForRun, Items, ItemStatuses

LEMMA SettleType ==
    ASSUME ItemsOK, NEW k, NEW o \in ItemStatuses
    PROVE  Settle(k, o) \in [DOMAIN items -> Items] /\ DOMAIN Settle(k, o) = DOMAIN items
  BY DEF ItemsOK, Settle, Items, ItemStatuses

LEMMA NoSnapshotType == NoSnapshot \in Snapshots
  BY DEF NoSnapshot, Snapshots, StepMaps, RunStatuses, StepStatuses

LEMMA IdleWorkerType == IdleWorker \in WorkerStates
  BY NoSnapshotType DEF IdleWorker, WorkerStates, WorkerPositions, NoItem, Advance, ItemKeys

LEMMA IdleClientType == IdleClient \in ClientStates
  BY DEF IdleClient, ClientStates, ClientPositions, RunStatuses

-----------------------------------------------------------------------------
(* What the events do to a stream that is the truth.                       *)

\* What a commit at version v of status st, current step cur and steps sp
\* needs of its event.
Records(str, v, st, cur, sp) ==
    /\ str \in Streams
    /\ str.version = v
    /\ str.status = st
    /\ str.steps = sp
    /\ "chain" \notin str.refused
    /\ ("table" \in str.refused) <=> (cur # NoStep)
    /\ ("current" \in str.refused) => (str.current # NoStep)

LEMMA StatusChangedRecords ==
    ASSUME StoreOK, StreamFaithful, NEW from, NEW to \in RunStatuses, from = status,
           RunTransition(from, to)
    PROVE  Records(StatusChanged(version + 1, from, to), version + 1, to, current, steps)
  BY DEF StoreOK, StreamFaithful, StatusChanged, Applied, Contiguous, Unless, Reasons, Records, Streams

LEMMA StepsAddedRecords ==
    ASSUME StoreOK, StreamFaithful, NEW new \in SUBSET StepIds,
           \A s \in new : steps[s] = "absent"
    PROVE  Records(StepsAdded(version + 1, new), version + 1, status, current,
                   [s \in StepIds |-> IF s \in new THEN "pending" ELSE steps[s]])
  BY DEF StoreOK, StreamFaithful, StepsAdded, Applied, Contiguous, Unless, Reasons, Records, Streams, StepMaps, StepStatuses

LEMMA StepStatusChangedRecords ==
    ASSUME StoreOK, StreamFaithful, NEW s \in StepIds, NEW from, NEW to \in StepStatuses,
           steps[s] = from, StepTransition(from, to)
    PROVE  Records(StepStatusChanged(version + 1, s, from, to), version + 1, status, current,
                   [steps EXCEPT ![s] = to])
  BY DEF StoreOK, StreamFaithful, StepStatusChanged, Applied, Contiguous, Unless, Reasons, Records, Streams, StepMaps

\* The start of a step is refused by the step table, and is the one commit
\* that moves the current step.
LEMMA StepStartedRecords ==
    ASSUME StoreOK, StreamFaithful, NEW s \in StepIds, steps[s] = "pending"
    PROVE  Records(StepStatusChanged(version + 1, s, "pending", "running"), version + 1, status, s,
                   [steps EXCEPT ![s] = "running"])
<1>1. ~StepTransition("pending", "running")
  BY DEF StepTransition, StepTargets
<1>2. s # NoStep /\ "running" \in StepStatuses
  BY NamesAreDistinct DEF NoStep, StepStatuses
<1> QED
  BY <1>1, <1>2 DEF StoreOK, StreamFaithful, StepStatusChanged, Applied, Contiguous, Unless, Reasons, Records, Streams, StepMaps

LEMMA CurrentStepChangedRecords ==
    ASSUME StoreOK, StreamFaithful, NEW previous, NEW next \in StepIds
    PROVE  Records(CurrentStepChanged(version + 1, previous, next), version + 1, status, current, steps)
<1>1. next # NoStep
  BY NamesAreDistinct DEF NoStep
<1> QED
  BY <1>1 DEF StoreOK, StreamFaithful, CurrentStepChanged, Applied, Contiguous, Unless, Reasons, Records, Streams

LEMMA NotedRecords ==
    ASSUME StoreOK, StreamFaithful
    PROVE  Records(Noted(version + 1), version + 1, status, current, steps)
  BY DEF StoreOK, StreamFaithful, Noted, Applied, Contiguous, Unless, Reasons, Records, Streams

-----------------------------------------------------------------------------
(* The two ways a step preserves the invariant.                            *)

\* Nothing is committed, and an item that is added is not stale.
LEMMA KeepInv ==
    ASSUME RunInv, UNCHANGED store,
           ItemsOK', DOMAIN items \subseteq DOMAIN items', LeaseOK',
           \A k \in DOMAIN items' \ DOMAIN items : FreshItem(k),
           spent' \in [commands : Nat, faults : Nat],
           worker' \in [Workers -> WorkerStates],
           client' \in [Clients -> ClientStates],
           \A w \in Workers : worker'[w] = worker[w] \/ FreshWorker(worker[w])',
           \A c \in Clients : client'[c] = client[c] \/ FreshClient(client[c])'
    PROVE  RunInv'
<1>1. TypeOK' /\ StreamFaithful'
  BY DEF RunInv, TypeOK, StoreOK, StreamFaithful, store
<1>2. \A w \in Workers : FreshWorker(worker[w])'
  BY DEF RunInv, FreshWorker, store
<1>3. \A c \in Clients : FreshClient(client[c])'
  BY DEF RunInv, FreshClient, store
<1>4. \A k \in DOMAIN items' : FreshItem(k)'
  BY DEF RunInv, FreshItem, store
<1> QED
  BY <1>1, <1>2, <1>3, <1>4 DEF RunInv

\* A commit moves the version past everything read before it.
LEMMA CommitInv ==
    ASSUME RunInv, NEW keys \in SUBSET ItemKeys, NEW a \in Nat,
           status' \in RunStatuses, current' \in StepIds \cup {NoStep}, steps' \in StepMaps,
           version' = version + 1,
           Records(stream', version', status', current', steps'),
           items' = Enqueue(keys, a),
           \A k \in keys : FreshItem(k)',
           LeaseOK', spent' \in [commands : Nat, faults : Nat],
           worker' \in [Workers -> WorkerStates],
           client' \in [Clients -> ClientStates],
           \A w \in Workers : worker'[w] = worker[w] \/ FreshWorker(worker[w])',
           \A c \in Clients : client'[c] = client[c] \/ FreshClient(client[c])'
    PROVE  RunInv'
<1>1. /\ version \in Nat
      /\ \A k \in DOMAIN items : k.version \in Nat
      /\ \A w \in Workers : worker[w].item.version \in Nat
      /\ \A c \in Clients : client[c].version \in Nat
  BY DEF RunInv, TypeOK, StoreOK, ItemsOK, ItemKeys, WorkerStates, ClientStates
<1>2. /\ ItemsOK'
      /\ DOMAIN items' = DOMAIN items \cup keys
  BY EnqueueType DEF RunInv, TypeOK, ItemsOK
<1>3. TypeOK' /\ StreamFaithful'
  BY <1>1, <1>2 DEF RunInv, TypeOK, StoreOK, StreamFaithful, Records
<1>4. \A w \in Workers : FreshWorker(worker[w])'
  BY <1>1, <1>2 DEF RunInv, FreshWorker
<1>5. \A c \in Clients : FreshClient(client[c])'
  BY <1>1 DEF RunInv, FreshClient
<1>6. \A k \in DOMAIN items' : FreshItem(k)'
  BY <1>1, <1>2 DEF RunInv, FreshItem
<1> QED
  BY <1>3, <1>4, <1>5, <1>6 DEF RunInv

-----------------------------------------------------------------------------
(* The worker's moves.                                                     *)

LEMMA AnsweredType ==
    ASSUME NEW x \in WorkerStates, NEW o \in {"complete", "retry", "dead_letter"}
    PROVE  [x EXCEPT !.pc = "settling", !.outcome = o,
                     !.snapshot = NoSnapshot, !.prepared = 0] \in WorkerStates
  BY NoSnapshotType DEF WorkerStates, WorkerPositions

LEMMA CommittedType ==
    ASSUME NEW x \in WorkerStates, NEW pc \in {"settling", "finalized", "executing"}
    PROVE  [x EXCEPT !.pc = pc, !.outcome = "complete"] \in WorkerStates
  BY DEF WorkerStates, WorkerPositions

LEMMA AnswerFresh ==
    ASSUME RunInv, NEW w \in Workers, NEW o \in {"complete", "retry", "dead_letter"},
           worker[w].pc # "idle", Answer(w, o), DOMAIN items \subseteq DOMAIN items'
    PROVE  /\ worker' \in [Workers -> WorkerStates]
           /\ \A u \in Workers : worker'[u] = worker[u] \/ FreshWorker(worker[u])'
<1>1. worker' \in [Workers -> WorkerStates]
  BY AnsweredType DEF RunInv, TypeOK, Answer
<1>2. \A u \in Workers \ {w} : worker'[u] = worker[u]
  BY DEF RunInv, TypeOK, Answer
<1>3. worker'[w].pc = "settling" /\ worker'[w].item = worker[w].item
  BY DEF RunInv, TypeOK, Answer, WorkerStates
<1>4. FreshWorker(worker[w])'
  BY <1>3 DEF RunInv, FreshWorker
<1> QED
  BY <1>1, <1>2, <1>4

LEMMA HandlerCommitInv ==
    ASSUME RunInv, NEW w \in Workers, NEW v, NEW st \in RunStatuses,
           NEW cur \in StepIds \cup {NoStep}, NEW sp \in StepMaps, NEW str,
           NEW keys \in SUBSET ItemKeys, NEW pc \in {"settling", "finalized", "executing"},
           worker[w].pc # "idle",
           HandlerCommit(w, v, st, cur, sp, str, keys, pc),
           UNCHANGED <<lease, client, spent>>,
           CanCommit(v) =>
             /\ Records(str, version + 1, st, cur, sp)
             /\ \A k \in keys :
                  /\ k.version = v
                  /\ k.kind = "advance" \/ (k.kind = "execute" /\ sp[k.step] = "pending")
             /\ pc = "executing" =>
                  /\ worker[w].item.kind = "execute"
                  /\ worker[w].item.version < v
                  /\ worker[w].snapshot.status \notin Halted
                  /\ worker[w].snapshot.status = st
                  /\ sp[worker[w].item.step] = "running"
                  /\ cur = worker[w].item.step
    PROVE  RunInv'
<1>0. /\ LeaseOK'
      /\ spent' \in [commands : Nat, faults : Nat]
      /\ client' \in [Clients -> ClientStates]
      /\ \A c \in Clients : client'[c] = client[c] \/ FreshClient(client[c])'
  BY DEF RunInv, TypeOK, LeaseOK
<1>1. CASE CanCommit(v)
  <2>1. /\ version' = version + 1
        /\ version' = v
        /\ items' = Enqueue(keys, 1)
        /\ status' = st /\ current' = cur /\ steps' = sp /\ stream' = str
        /\ worker' = [worker EXCEPT ![w] = [@ EXCEPT !.pc = pc, !.outcome = "complete"]]
    BY <1>1 DEF HandlerCommit, CanCommit, Commit
  <2>2. worker' \in [Workers -> WorkerStates]
    BY <2>1, CommittedType DEF RunInv, TypeOK
  <2>3. \A u \in Workers \ {w} : worker'[u] = worker[u]
    BY <2>1 DEF RunInv, TypeOK
  <2>4. /\ worker'[w].pc = pc /\ worker'[w].item = worker[w].item
        /\ worker'[w].snapshot = worker[w].snapshot
    BY <2>1 DEF RunInv, TypeOK, WorkerStates
  <2>5. DOMAIN items \subseteq DOMAIN items'
    <3>1. DOMAIN Enqueue(keys, 1) = DOMAIN items \cup keys
      BY DEF Enqueue
    <3> QED
      BY <2>1, <3>1
  <2>6. FreshWorker(worker[w])'
    BY <1>1, <2>1, <2>4, <2>5 DEF RunInv, FreshWorker
  <2>7. \A k \in keys : FreshItem(k)'
    BY <1>1, <2>1 DEF FreshItem, RunInv, TypeOK, StoreOK
  <2> QED
    BY <1>0, <1>1, <2>1, <2>2, <2>3, <2>6, <2>7, CommitInv
<1>2. CASE ~CanCommit(v)
  <2>1. Answer(w, "retry") /\ UNCHANGED <<store, items>>
    BY <1>2 DEF HandlerCommit
  <2> QED
    BY <1>0, <2>1, AnswerFresh, KeepInv DEF RunInv, TypeOK, ItemsOK
<1> QED
  BY <1>1, <1>2

\* A worker that goes back to polling holds nothing.
LEMMA IdleFresh ==
    ASSUME RunInv, NEW w \in Workers, worker' = [worker EXCEPT ![w] = IdleWorker]
    PROVE  /\ worker' \in [Workers -> WorkerStates]
           /\ \A u \in Workers : worker'[u] = worker[u] \/ FreshWorker(worker[u])'
<1>1. worker' \in [Workers -> WorkerStates]
  BY IdleWorkerType DEF RunInv, TypeOK
<1>2. worker'[w].pc = "idle" /\ \A u \in Workers \ {w} : worker'[u] = worker[u]
  BY DEF RunInv, TypeOK, IdleWorker
<1>3. FreshWorker(worker[w])'
  BY <1>2 DEF FreshWorker
<1> QED
  BY <1>1, <1>2, <1>3

\* What the worker's own actions leave alone.
LEMMA OthersKept ==
    ASSUME RunInv, UNCHANGED <<client, spent>>
    PROVE  /\ spent' \in [commands : Nat, faults : Nat]
           /\ client' \in [Clients -> ClientStates]
           /\ \A c \in Clients : client'[c] = client[c] \/ FreshClient(client[c])'
  BY DEF RunInv, TypeOK

LEMMA LeaseKept == ASSUME RunInv, UNCHANGED lease PROVE LeaseOK'
  BY DEF RunInv, TypeOK, LeaseOK

LEMMA LeaseNextInv == ASSUME RunInv, NEW w \in Workers, LeaseNext(w) PROVE RunInv'
<1>1. PICK k \in DOMAIN items :
        /\ items' = [items EXCEPT ![k] = [status |-> "leased", owner |-> w, live |-> TRUE,
                                          attempt |-> IF items[k].attempt < MaxAttempts
                                                        THEN items[k].attempt + 1
                                                        ELSE MaxAttempts]]
        /\ worker' = [worker EXCEPT ![w] = [IdleWorker EXCEPT !.pc = "leased", !.item = k]]
  BY DEF LeaseNext
<1>2. [IdleWorker EXCEPT !.pc = "leased", !.item = k] \in WorkerStates
  BY IdleWorkerType DEF WorkerStates, WorkerPositions, RunInv, TypeOK, ItemsOK
<1>3. ItemsOK' /\ DOMAIN items' = DOMAIN items
  BY <1>1, RunConstants DEF RunInv, TypeOK, ItemsOK, Items, ItemStatuses
<1>4. worker' \in [Workers -> WorkerStates]
  BY <1>1, <1>2 DEF RunInv, TypeOK
<1>5. worker'[w].pc = "leased" /\ worker'[w].item = k
  BY <1>1 DEF RunInv, TypeOK, IdleWorker
<1>6. \A u \in Workers \ {w} : worker'[u] = worker[u]
  BY <1>1 DEF RunInv, TypeOK
<1>7. FreshWorker(worker[w])'
  BY <1>3, <1>5 DEF FreshWorker
<1>8. UNCHANGED <<client, spent>> /\ UNCHANGED lease /\ UNCHANGED store
  BY DEF LeaseNext
<1> QED
  BY <1>3, <1>4, <1>6, <1>7, <1>8, OthersKept, LeaseKept, KeepInv

\* Actions that settle or cancel items and send the worker back to polling.
LEMMA DropItemInv ==
    ASSUME RunInv, NEW w \in Workers,
           DenyItem(w) \/ CompleteStale(w) \/ DeclineItem(w) \/ RetryBusy(w)
    PROVE  RunInv'
<1>1. /\ worker' = [worker EXCEPT ![w] = IdleWorker]
      /\ UNCHANGED client /\ UNCHANGED lease /\ UNCHANGED store
  BY DEF DenyItem, CompleteStale, DeclineItem, RetryBusy
<1>2. spent' \in [commands : Nat, faults : Nat]
  BY DEF RunInv, TypeOK, DenyItem, CompleteStale, DeclineItem, RetryBusy, Strike
<1>3. ItemsOK' /\ DOMAIN items' = DOMAIN items
  <2>0. ItemsOK
    BY DEF RunInv, TypeOK
  <2>1. \/ items' = Settle(worker[w].item, "dead_letter")
        \/ items' = Settle(worker[w].item, "completed")
        \/ items' = Settle(worker[w].item, Retried(worker[w].item))
        \/ items' = CancelForRun
        \/ items' = items
    BY DEF DenyItem, CompleteStale, DeclineItem, RetryBusy
  <2>2. Retried(worker[w].item) \in ItemStatuses
    BY DEF Retried, ItemStatuses
  <2>3. items' \in [DOMAIN items -> Items] /\ DOMAIN items' = DOMAIN items
    BY <2>0, <2>1, <2>2, SettleType, CancelType DEF ItemsOK, ItemStatuses
  <2> QED
    BY <2>0, <2>3 DEF ItemsOK
<1>4. client' \in [Clients -> ClientStates]
  BY <1>1 DEF RunInv, TypeOK
<1> QED
  BY <1>1, <1>2, <1>3, <1>4, IdleFresh, LeaseKept, KeepInv

LEMMA WorkerTypes ==
    ASSUME RunInv, NEW w \in Workers
    PROVE  /\ worker[w] \in WorkerStates
           /\ worker[w].snapshot.status \in RunStatuses
           /\ worker[w].snapshot.current \in StepIds \cup {NoStep}
           /\ worker[w].item \in ItemKeys
           /\ worker[w].item.version \in Nat
           /\ worker[w].item.kind = "execute" => worker[w].item.step \in StepIds
           /\ version \in Nat
           /\ StoreOK /\ StreamFaithful
           /\ FreshWorker(worker[w])
<1>1. worker[w] \in WorkerStates
  BY DEF RunInv, TypeOK
<1> QED
  BY <1>1 DEF RunInv, TypeOK, StoreOK, WorkerStates, Snapshots, ItemKeys

\* The items a handler queues.
LEMMA QueuedType ==
    ASSUME NEW v \in Nat, NEW S \in SUBSET StepIds
    PROVE  /\ Advance(v) \in ItemKeys
           /\ Resume(v) \in ItemKeys
           /\ {Execute(s, v) : s \in S} \subseteq ItemKeys
           /\ Advance(v).kind = "advance" /\ Advance(v).version = v
           /\ Resume(v).kind = "resume" /\ Resume(v).version = v
           /\ \A s \in S : /\ Execute(s, v).kind = "execute"
                           /\ Execute(s, v).step = s
                           /\ Execute(s, v).version = v
  BY DEF Advance, Resume, Execute, ItemKeys

LEMMA PrepareRunInv == ASSUME RunInv, NEW w \in Workers, PrepareRun(w) PROVE RunInv'
<1> DEFINE run == worker[w].snapshot
           v == worker[w].item.version + 1
<1>1. /\ worker[w].pc = "handling"
      /\ HandlerCommit(w, v, "preparing", run.current, steps,
                       StatusChanged(v, run.status, "preparing"), {Advance(v)}, "settling")
      /\ UNCHANGED <<lease, client, spent>>
  BY DEF PrepareRun, Handling
<1>2. v \in Nat /\ run.current \in StepIds \cup {NoStep} /\ steps \in StepMaps
  BY WorkerTypes DEF StoreOK
<1>3. ASSUME CanCommit(v) PROVE Records(StatusChanged(v, run.status, "preparing"), version + 1, "preparing", run.current, steps)
  <2>1. v = version + 1 /\ run.status = status /\ run.current = current
    BY <1>1, <1>3, WorkerTypes DEF CanCommit, FreshWorker
  <2>2. RunTransition(run.status, "preparing")
    BY DEF PrepareRun, RunTransition, RunTargets
  <2> QED
    BY <2>1, <2>2, StatusChangedRecords, WorkerTypes DEF RunStatuses
<1>4. {Advance(v)} \in SUBSET ItemKeys /\ "preparing" \in RunStatuses
  BY <1>2, QueuedType DEF RunStatuses
<1>5. \A k \in {Advance(v)} : k.version = v /\ k.kind = "advance"
  BY <1>2, QueuedType
<1> HIDE DEF v, run
<1> QED
  BY <1>1, <1>2, <1>3, <1>4, <1>5, HandlerCommitInv

LEMMA StartRunInv == ASSUME RunInv, NEW w \in Workers, StartRun(w) PROVE RunInv'
<1> DEFINE run == worker[w].snapshot
           v == worker[w].item.version + 1
           ready == {Execute(s, v) : s \in PendingReady(run.steps)}
           keys == {Advance(v)} \cup ready
<1>1. /\ worker[w].pc = "handling"
      /\ HandlerCommit(w, v, "running", run.current, steps,
                       StatusChanged(v, run.status, "running"), keys, "settling")
      /\ UNCHANGED <<lease, client, spent>>
  BY DEF StartRun, Handling
<1>2. v \in Nat /\ run.current \in StepIds \cup {NoStep} /\ steps \in StepMaps
  BY WorkerTypes DEF StoreOK
<1>3. PendingReady(run.steps) \in SUBSET StepIds
  BY DEF PendingReady
<1>4. keys \in SUBSET ItemKeys /\ "running" \in RunStatuses
  BY <1>2, <1>3, QueuedType DEF RunStatuses
<1>5. ASSUME CanCommit(v)
      PROVE  /\ Records(StatusChanged(v, run.status, "running"), version + 1, "running", run.current, steps)
             /\ \A k \in keys : /\ k.version = v
                                /\ k.kind = "advance" \/ (k.kind = "execute" /\ steps[k.step] = "pending")
  <2>1. v = version + 1 /\ run.status = status /\ run.steps = steps /\ run.current = current
    BY <1>1, <1>5, WorkerTypes DEF CanCommit, FreshWorker
  <2>2. \A s \in PendingReady(run.steps) : steps[s] = "pending"
    BY <2>1 DEF PendingReady
  <2>3. \A k \in keys : /\ k.version = v
                        /\ k.kind = "advance" \/ (k.kind = "execute" /\ steps[k.step] = "pending")
    BY <1>2, <1>3, <2>2, QueuedType
  <2>4. StatusChanged(v, run.status, "running") = StatusChanged(version + 1, status, "running")
    BY <2>1
  <2>5. RunTransition(status, "running")
    BY <2>1 DEF StartRun, RunTransition, RunTargets
  <2> QED
    BY <2>1, <2>3, <2>4, <2>5, StatusChangedRecords, WorkerTypes DEF RunStatuses
<1> HIDE DEF v, run, keys
<1> QED
  BY <1>1, <1>2, <1>4, <1>5, HandlerCommitInv

LEMMA ScheduleStepsInv == ASSUME RunInv, NEW w \in Workers, ScheduleSteps(w) PROVE RunInv'
<1> DEFINE run == worker[w].snapshot
           v == worker[w].item.version + 1
           keys == {Execute(s, v) : s \in PendingReady(run.steps)}
<1>1. PICK first \in PendingReady(run.steps) :
        /\ worker[w].pc = "handling"
        /\ HandlerCommit(w, v, run.status, run.current, steps,
                         CurrentStepChanged(v, run.current, first), keys, "settling")
        /\ UNCHANGED <<lease, client, spent>>
  BY DEF ScheduleSteps, Handling
<1>2. /\ v \in Nat /\ run.status \in RunStatuses
      /\ run.current \in StepIds \cup {NoStep} /\ steps \in StepMaps
  BY WorkerTypes DEF StoreOK
<1>3. PendingReady(run.steps) \in SUBSET StepIds
  BY DEF PendingReady
<1>4. keys \in SUBSET ItemKeys
  BY <1>2, <1>3, QueuedType
<1>5. ASSUME CanCommit(v)
      PROVE  /\ Records(CurrentStepChanged(v, run.current, first), version + 1, run.status, run.current, steps)
             /\ \A k \in keys : /\ k.version = v
                                /\ k.kind = "execute" /\ steps[k.step] = "pending"
  <2>1. v = version + 1 /\ run.status = status /\ run.steps = steps /\ run.current = current
    BY <1>1, <1>5, WorkerTypes DEF CanCommit, FreshWorker
  <2>2. \A s \in PendingReady(run.steps) : steps[s] = "pending"
    BY <2>1 DEF PendingReady
  <2>3. \A k \in keys : k.version = v /\ k.kind = "execute" /\ steps[k.step] = "pending"
    BY <1>2, <1>3, <2>2, QueuedType
  <2>4. CurrentStepChanged(v, run.current, first) = CurrentStepChanged(version + 1, run.current, first)
    BY <2>1
  <2> QED
    BY <1>1, <1>3, <2>1, <2>3, <2>4, CurrentStepChangedRecords, WorkerTypes
<1> HIDE DEF v, run, keys
<1> QED
  BY <1>1, <1>2, <1>4, <1>5, HandlerCommitInv

\* A handler that answers without a commit.
LEMMA AnswerInv ==
    ASSUME RunInv, NEW w \in Workers, NEW o \in {"complete", "retry", "dead_letter"},
           worker[w].pc # "idle", Answer(w, o), UNCHANGED store, UNCHANGED lease,
           UNCHANGED client, spent' \in [commands : Nat, faults : Nat],
           items' = items \/ items' = CancelForRun
    PROVE  RunInv'
<1>1. ItemsOK' /\ DOMAIN items' = DOMAIN items
  BY CancelType DEF RunInv, TypeOK, ItemsOK
<1>2. client' \in [Clients -> ClientStates]
  BY DEF RunInv, TypeOK
<1> QED
  BY <1>1, <1>2, AnswerFresh, LeaseKept, KeepInv

LEMMA FinalizeRunInv == ASSUME RunInv, NEW w \in Workers, FinalizeRun(w) PROVE RunInv'
<1> DEFINE run == worker[w].snapshot
           v == worker[w].item.version + 1
           target == FinalTarget(run.steps)
<1>1. worker[w].pc = "handling" /\ UNCHANGED <<lease, client, spent>>
  BY DEF FinalizeRun, Handling
<1>2. /\ v \in Nat
      /\ run.current \in StepIds \cup {NoStep} /\ steps \in StepMaps
  BY WorkerTypes DEF StoreOK
<1>3. target \in RunStatuses
  BY DEF FinalTarget, RunStatuses
<1>4. CASE /\ Answer(w, "dead_letter")
           /\ UNCHANGED <<store, items>>
  BY <1>1, <1>4, AnswerInv DEF RunInv, TypeOK
<1>5. CASE /\ RunTransition(run.status, target)
           /\ HandlerCommit(w, v, target, run.current, steps,
                            StatusChanged(v, run.status, target), {}, "finalized")
  <2>1. ASSUME CanCommit(v) PROVE Records(StatusChanged(v, run.status, target), version + 1, target, run.current, steps)
    <3>1. v = version + 1 /\ run.status = status /\ run.current = current
      BY <1>1, <2>1, WorkerTypes DEF CanCommit, FreshWorker
    <3> HIDE DEF target
    <3> QED
      BY <1>3, <1>5, <3>1, StatusChangedRecords, WorkerTypes
  <2> HIDE DEF v, run, target
  <2> QED
    BY <1>1, <1>2, <1>3, <1>5, <2>1, HandlerCommitInv
<1> QED
  BY <1>4, <1>5 DEF FinalizeRun

LEMMA StartStepInv == ASSUME RunInv, NEW w \in Workers, StartStep(w) PROVE RunInv'
<1> DEFINE run == worker[w].snapshot
           s == worker[w].item.step
           v == worker[w].item.version + 1
           sp == [steps EXCEPT ![s] = "running"]
<1>1. /\ worker[w].pc = "handling" /\ worker[w].item.kind = "execute"
      /\ HandlerCommit(w, v, run.status, s, sp,
                       StepStatusChanged(v, s, run.steps[s], "running"), {Advance(v)}, "executing")
      /\ UNCHANGED <<lease, client, spent>>
  BY DEF StartStep, Handling
<1>2. /\ v \in Nat /\ s \in StepIds /\ run.status \in RunStatuses
      /\ worker[w].item.version < v
  BY <1>1, WorkerTypes
<1>3. sp \in StepMaps /\ sp[s] = "running"
  BY <1>2, WorkerTypes DEF StoreOK, StepMaps, StepStatuses
<1>4. run.status \notin Halted
  BY <1>1, WorkerTypes DEF FreshWorker
<1>5. ASSUME CanCommit(v)
      PROVE  Records(StepStatusChanged(v, s, run.steps[s], "running"), version + 1, run.status, s, sp)
  <2>1. v = version + 1 /\ run.status = status /\ run.steps = steps
    BY <1>1, <1>5, WorkerTypes DEF CanCommit, FreshWorker
  <2>2. worker[w].item \in DOMAIN items /\ worker[w].item.version = version
    BY <1>1, <2>1, WorkerTypes DEF FreshWorker
  <2>3. steps[s] = "pending" /\ run.steps[s] = "pending"
    BY <1>1, <2>1, <2>2 DEF RunInv, FreshItem
  <2> HIDE DEF s
  <2> QED
    BY <1>2, <2>1, <2>3, StepStartedRecords, WorkerTypes
<1>6. {Advance(v)} \in SUBSET ItemKeys /\ \A k \in {Advance(v)} : k.version = v /\ k.kind = "advance"
  BY <1>2, QueuedType
<1>7. /\ sp[worker[w].item.step] = "running"
      /\ worker[w].snapshot.status \notin Halted
      /\ worker[w].snapshot.status = run.status
      /\ s = worker[w].item.step
      /\ s \in StepIds \cup {NoStep}
  BY <1>2, <1>3, <1>4
<1> HIDE DEF v, run, sp, s
<1> QED
  BY <1>1, <1>2, <1>3, <1>5, <1>6, <1>7, HandlerCommitInv

\* complete_step and fail_step.
LEMMA FinishStepInv ==
    ASSUME RunInv, NEW w \in Workers, NEW to \in StepStatuses,
           worker[w].pc \in {"executing", "prepared"},
           to \in {"succeeded", "failed"}, FinishStep(w, to), UNCHANGED <<lease, client, spent>>
    PROVE  RunInv'
<1> DEFINE run == worker[w].snapshot
           s == worker[w].item.step
           v == worker[w].item.version + 2
           sp == [steps EXCEPT ![s] = to]
<1>1. HandlerCommit(w, v, run.status, s, sp,
                    StepStatusChanged(v, s, "running", to), {Advance(v)}, "settling")
  BY DEF FinishStep
<1>2. v \in Nat /\ s \in StepIds /\ run.status \in RunStatuses
  BY WorkerTypes DEF FreshWorker
<1>3. sp \in StepMaps
  BY <1>2, WorkerTypes DEF StoreOK, StepMaps
<1>4. ASSUME CanCommit(v)
      PROVE  Records(StepStatusChanged(v, s, "running", to), version + 1, run.status, s, sp)
  <2>1. v = version + 1 /\ run.status = status /\ steps[s] = "running" /\ s = current
    BY <1>4, WorkerTypes DEF CanCommit, FreshWorker
  <2>2. StepTransition("running", to)
    BY DEF StepTransition, StepTargets
  <2> HIDE DEF s
  <2> QED
    BY <1>2, <2>1, <2>2, StepStatusChangedRecords, WorkerTypes
<1>5. {Advance(v)} \in SUBSET ItemKeys /\ \A k \in {Advance(v)} : k.version = v /\ k.kind = "advance"
  <2> HIDE DEF v
  <2> QED
    BY <1>2, QueuedType
<1> HIDE DEF v, run, sp, s
<1> QED
  BY <1>1, <1>2, <1>3, <1>4, <1>5, HandlerCommitInv

LEMMA LoadRunInv == ASSUME RunInv, NEW w \in Workers, LoadRun(w) PROVE RunInv'
<1> DEFINE x == [worker[w] EXCEPT !.pc = LoadedAt(w),
                   !.snapshot = [NoSnapshot EXCEPT !.status = status, !.current = current]]
<1>1. /\ worker' = [worker EXCEPT ![w] = x]
      /\ worker[w].pc = "leased"
      /\ UNCHANGED <<client, spent>> /\ UNCHANGED lease /\ UNCHANGED store /\ UNCHANGED items
  BY DEF LoadRun
<1>2. LoadedAt(w) \in {"stale", "halted", "loading"}
  BY DEF LoadedAt
<1>3. [NoSnapshot EXCEPT !.status = status, !.current = current] \in Snapshots
  BY NoSnapshotType, WorkerTypes DEF Snapshots, StoreOK
<1>4. /\ x \in WorkerStates
      /\ x.pc = LoadedAt(w) /\ x.item = worker[w].item
      /\ x.snapshot.status = status /\ x.snapshot.current = current
  BY <1>2, <1>3, WorkerTypes DEF WorkerStates, WorkerPositions, NoSnapshot
<1>5. /\ worker' \in [Workers -> WorkerStates]
      /\ worker'[w] = x /\ \A u \in Workers \ {w} : worker'[u] = worker[u]
  <2> HIDE DEF x
  <2> QED
    BY <1>1, <1>4 DEF RunInv, TypeOK
<1>6. /\ worker'[w].pc = LoadedAt(w) /\ worker'[w].item = worker[w].item
      /\ worker'[w].snapshot.status = status /\ worker'[w].snapshot.current = current
  BY <1>4, <1>5
<1>7. FreshWorker(worker[w])'
  <2>1. worker[w].item \in DOMAIN items
    BY <1>1, WorkerTypes DEF FreshWorker
  <2>2. LoadedAt(w) = "loading" => worker[w].item.version = version /\ status \notin Halted
    BY DEF LoadedAt, Halted
  <2> QED
    BY <1>1, <1>2, <1>6, <2>1, <2>2, WorkerTypes DEF FreshWorker, store
<1> QED
  BY <1>1, <1>5, <1>7, OthersKept, LeaseKept, KeepInv DEF RunInv, TypeOK, ItemsOK

LEMMA LoadStepsInv == ASSUME RunInv, NEW w \in Workers, LoadSteps(w) PROVE RunInv'
<1> DEFINE y == [worker[w].snapshot EXCEPT !.steps = steps]
           x == [worker[w] EXCEPT !.pc = "loaded", !.snapshot = y]
<1>1. /\ worker' = [worker EXCEPT ![w] = x]
      /\ worker[w].pc = "loading"
      /\ UNCHANGED <<client, spent>> /\ UNCHANGED lease /\ UNCHANGED store /\ UNCHANGED items
  BY DEF LoadSteps
<1>2. /\ y \in Snapshots /\ y.steps = steps
      /\ y.status = worker[w].snapshot.status /\ y.current = worker[w].snapshot.current
  BY WorkerTypes DEF WorkerStates, Snapshots, StoreOK
<1>3. /\ x \in WorkerStates
      /\ x.pc = "loaded" /\ x.item = worker[w].item /\ x.snapshot = y
  BY <1>2, WorkerTypes DEF WorkerStates, WorkerPositions
<1>4. /\ worker' \in [Workers -> WorkerStates]
      /\ worker'[w] = x /\ \A u \in Workers \ {w} : worker'[u] = worker[u]
  <2> HIDE DEF x
  <2> QED
    BY <1>1, <1>3 DEF RunInv, TypeOK
<1>5. /\ worker'[w].pc = "loaded" /\ worker'[w].item = worker[w].item
      /\ worker'[w].snapshot.status = worker[w].snapshot.status
      /\ worker'[w].snapshot.current = worker[w].snapshot.current
      /\ worker'[w].snapshot.steps = steps
  BY <1>2, <1>3, <1>4
<1>6. FreshWorker(worker[w])'
  BY <1>1, <1>5, WorkerTypes DEF FreshWorker, store
<1> QED
  BY <1>1, <1>4, <1>6, OthersKept, LeaseKept, KeepInv DEF RunInv, TypeOK, ItemsOK

LEMMA AcquireLeaseInv == ASSUME RunInv, NEW w \in Workers, AcquireLease(w) PROVE RunInv'
<1> DEFINE g == lease.generation + 1
           x == [worker[w] EXCEPT !.pc = "handling", !.generation = g]
<1>1. /\ worker' = [worker EXCEPT ![w] = x]
      /\ worker[w].pc = "loaded"
      /\ lease' = [worker |-> w, generation |-> g, live |-> TRUE]
      /\ UNCHANGED <<client, spent>> /\ UNCHANGED store /\ UNCHANGED items
  BY DEF AcquireLease
<1>2. g \in Nat /\ LeaseOK'
  BY <1>1 DEF RunInv, TypeOK, LeaseOK
<1>3. /\ x \in WorkerStates
      /\ x.pc = "handling" /\ x.item = worker[w].item /\ x.snapshot = worker[w].snapshot
  <2> HIDE DEF g
  <2> QED
    BY <1>2, WorkerTypes DEF WorkerStates, WorkerPositions
<1>4. /\ worker' \in [Workers -> WorkerStates]
      /\ worker'[w] = x /\ \A u \in Workers \ {w} : worker'[u] = worker[u]
  <2> HIDE DEF x
  <2> QED
    BY <1>1, <1>3 DEF RunInv, TypeOK
<1>5. /\ worker'[w].pc = "handling" /\ worker'[w].item = worker[w].item
      /\ worker'[w].snapshot = worker[w].snapshot
  BY <1>3, <1>4
<1>6. FreshWorker(worker[w])'
  BY <1>1, <1>5, WorkerTypes DEF FreshWorker, store
<1> QED
  BY <1>1, <1>2, <1>4, <1>6, OthersKept, KeepInv DEF RunInv, TypeOK, ItemsOK

\* A worker that moves on with its item and what it read.
LEMMA GotoFresh ==
    ASSUME RunInv, NEW w \in Workers, NEW pc \in WorkerPositions, Goto(w, pc),
           \/ worker[w].pc = "loaded" /\ pc = "busy"
           \/ worker[w].pc = "settling" /\ pc = "releasing",
           UNCHANGED store, DOMAIN items \subseteq DOMAIN items'
    PROVE  /\ worker' \in [Workers -> WorkerStates]
           /\ \A u \in Workers : worker'[u] = worker[u] \/ FreshWorker(worker[u])'
<1> DEFINE x == [worker[w] EXCEPT !.pc = pc]
<1>1. worker' = [worker EXCEPT ![w] = x]
  BY DEF Goto
<1>2. /\ x \in WorkerStates
      /\ x.pc = pc /\ x.item = worker[w].item /\ x.snapshot = worker[w].snapshot
  BY WorkerTypes DEF WorkerStates
<1>3. /\ worker' \in [Workers -> WorkerStates]
      /\ worker'[w] = x /\ \A u \in Workers \ {w} : worker'[u] = worker[u]
  <2> HIDE DEF x
  <2> QED
    BY <1>1, <1>2 DEF RunInv, TypeOK
<1>4. /\ worker'[w].pc = pc /\ worker'[w].item = worker[w].item
      /\ worker'[w].snapshot = worker[w].snapshot
  BY <1>2, <1>3
<1>5. FreshWorker(worker[w])'
  BY <1>4, WorkerTypes DEF FreshWorker, store
<1> QED
  BY <1>3, <1>5

LEMMA LeaseBusyInv == ASSUME RunInv, NEW w \in Workers, LeaseBusy(w) PROVE RunInv'
<1>1. /\ worker[w].pc = "loaded" /\ Goto(w, "busy")
      /\ UNCHANGED <<client, spent>> /\ UNCHANGED lease /\ UNCHANGED store /\ UNCHANGED items
  BY DEF LeaseBusy
<1>2. ItemsOK' /\ DOMAIN items' = DOMAIN items
  BY <1>1 DEF RunInv, TypeOK, ItemsOK
<1>3. /\ worker' \in [Workers -> WorkerStates]
      /\ \A u \in Workers : worker'[u] = worker[u] \/ FreshWorker(worker[u])'
  <2>1. "busy" \in WorkerPositions /\ DOMAIN items \subseteq DOMAIN items'
    BY <1>2 DEF WorkerPositions
  <2> QED
    BY <1>1, <2>1, GotoFresh
<1> QED
  BY <1>1, <1>2, <1>3, OthersKept, LeaseKept, KeepInv

\* Handlers' answers that write neither run nor steps.
LEMMA AnsweringInv ==
    ASSUME RunInv, NEW w \in Workers,
           CancelFinalized(w) \/ NothingToDo(w) \/ StepContended(w) \/ HandlerStorageError(w)
    PROVE  RunInv'
<1>1. worker[w].pc # "idle" /\ UNCHANGED store /\ UNCHANGED lease /\ UNCHANGED client
  BY DEF CancelFinalized, NothingToDo, StepContended, HandlerStorageError, AtAgentStep
<1>2. Answer(w, "complete") \/ Answer(w, "retry")
  BY DEF CancelFinalized, NothingToDo, StepContended, HandlerStorageError
<1>3. items' = items \/ items' = CancelForRun
  BY DEF CancelFinalized, NothingToDo, StepContended, HandlerStorageError
<1>4. spent' \in [commands : Nat, faults : Nat]
  BY DEF RunInv, TypeOK, CancelFinalized, NothingToDo, StepContended, HandlerStorageError, Strike
<1> QED
  BY <1>1, <1>2, <1>3, <1>4, AnswerInv

LEMMA ExecutorPrepareInv == ASSUME RunInv, NEW w \in Workers, ExecutorPrepare(w) PROVE RunInv'
<1> DEFINE x == [worker[w] EXCEPT !.pc = "prepared", !.prepared = version]
<1>1. /\ worker' = [worker EXCEPT ![w] = x]
      /\ worker[w].pc = "executing"
      /\ UNCHANGED <<client, spent>> /\ UNCHANGED lease /\ UNCHANGED store /\ UNCHANGED items
  BY DEF ExecutorPrepare, AtAgentStep
<1>2. /\ x \in WorkerStates
      /\ x.pc = "prepared" /\ x.item = worker[w].item /\ x.snapshot = worker[w].snapshot
  BY WorkerTypes DEF WorkerStates, WorkerPositions
<1>3. /\ worker' \in [Workers -> WorkerStates]
      /\ worker'[w] = x /\ \A u \in Workers \ {w} : worker'[u] = worker[u]
  <2> HIDE DEF x
  <2> QED
    BY <1>1, <1>2 DEF RunInv, TypeOK
<1>4. /\ worker'[w].pc = "prepared" /\ worker'[w].item = worker[w].item
      /\ worker'[w].snapshot = worker[w].snapshot
  BY <1>2, <1>3
<1>5. FreshWorker(worker[w])'
  BY <1>1, <1>4, WorkerTypes DEF FreshWorker, store
<1> QED
  BY <1>1, <1>3, <1>5, OthersKept, LeaseKept, KeepInv DEF RunInv, TypeOK, ItemsOK

LEMMA PublishResultInv == ASSUME RunInv, NEW w \in Workers, PublishResult(w) PROVE RunInv'
<1> DEFINE s == worker[w].item.step
           keys == {Advance(version + 1)}
<1>1. /\ worker[w].pc = "prepared" /\ steps[s] = "running"
      /\ version' = version + 1
      /\ steps' = [steps EXCEPT ![s] = "succeeded"]
      /\ stream' = StepStatusChanged(version + 1, s, "running", "succeeded")
      /\ items' = Enqueue(keys, 0)
      /\ Answer(w, "complete")
      /\ UNCHANGED <<client, spent>> /\ UNCHANGED lease /\ status' = status /\ current' = current
  BY DEF PublishResult, CanPublish, AtAgentStep
<1>2. s \in StepIds /\ version + 1 \in Nat /\ "succeeded" \in StepStatuses
  BY <1>1, WorkerTypes DEF FreshWorker, StepStatuses
<1>3. steps' \in StepMaps /\ status' \in RunStatuses /\ current' \in StepIds \cup {NoStep}
  BY <1>1, <1>2, WorkerTypes DEF StoreOK, StepMaps
<1>4. Records(stream', version', status', current', steps')
  <2>1. StepTransition("running", "succeeded")
    BY DEF StepTransition, StepTargets
  <2> HIDE DEF s
  <2> QED
    BY <1>1, <1>2, <2>1, WorkerTypes, StepStatusChangedRecords
<1>5. keys \in SUBSET ItemKeys /\ \A k \in keys : k.version = version + 1 /\ k.kind = "advance"
  BY <1>2, QueuedType
<1>6. \A k \in keys : FreshItem(k)'
  BY <1>1, <1>2, <1>5 DEF FreshItem
<1>7. DOMAIN items \subseteq DOMAIN items'
  <2>1. DOMAIN Enqueue(keys, 0) = DOMAIN items \cup keys
    BY DEF Enqueue
  <2> QED
    BY <1>1, <2>1
<1> HIDE DEF keys
<1>8. /\ worker' \in [Workers -> WorkerStates]
      /\ \A u \in Workers : worker'[u] = worker[u] \/ FreshWorker(worker[u])'
  BY <1>1, <1>7, AnswerFresh
<1> QED
  BY <1>1, <1>3, <1>4, <1>5, <1>6, <1>8, OthersKept, LeaseKept, CommitInv

LEMMA SettleItemInv == ASSUME RunInv, NEW w \in Workers, SettleItem(w) PROVE RunInv'
<1>1. /\ worker[w].pc = "settling"
      /\ UNCHANGED <<client, spent>> /\ UNCHANGED lease /\ UNCHANGED store
      /\ Goto(w, "releasing") \/ worker' = [worker EXCEPT ![w] = IdleWorker]
  BY DEF SettleItem
<1>2. ItemsOK' /\ DOMAIN items' = DOMAIN items
  <2>0. ItemsOK
    BY DEF RunInv, TypeOK
  <2>1. \/ items' = Settle(worker[w].item, "dead_letter")
        \/ items' = Settle(worker[w].item, "completed")
        \/ items' = Settle(worker[w].item, Retried(worker[w].item))
        \/ items' = items
    BY DEF SettleItem
  <2>2. Retried(worker[w].item) \in ItemStatuses
    BY DEF Retried, ItemStatuses
  <2>3. items' \in [DOMAIN items -> Items] /\ DOMAIN items' = DOMAIN items
    BY <2>0, <2>1, <2>2, SettleType DEF ItemsOK, ItemStatuses
  <2> QED
    BY <2>0, <2>3 DEF ItemsOK
<1>3. /\ worker' \in [Workers -> WorkerStates]
      /\ \A u \in Workers : worker'[u] = worker[u] \/ FreshWorker(worker[u])'
  BY <1>1, <1>2, GotoFresh, IdleFresh DEF WorkerPositions
<1> QED
  BY <1>1, <1>2, <1>3, OthersKept, LeaseKept, KeepInv

\* The worker lets go of the run lease, or of everything.
LEMMA LetGoInv ==
    ASSUME RunInv, NEW w \in Workers, ReleaseLease(w) \/ WorkerCrash(w)
    PROVE  RunInv'
<1>1. /\ worker' = [worker EXCEPT ![w] = IdleWorker]
      /\ UNCHANGED client /\ UNCHANGED store /\ UNCHANGED items
  BY DEF ReleaseLease, WorkerCrash
<1>2. LeaseOK'
  <2>1. LeaseOK /\ (lease' = lease \/ lease' = NoLease)
    BY DEF ReleaseLease, WorkerCrash, RunInv, TypeOK
  <2>2. NoLease \in [worker : Workers \cup {NoWorker}, generation : Nat, live : BOOLEAN]
    BY DEF NoLease
  <2> QED
    BY <2>1, <2>2 DEF LeaseOK
<1>3. spent' \in [commands : Nat, faults : Nat] /\ client' \in [Clients -> ClientStates]
  BY DEF ReleaseLease, WorkerCrash, RunInv, TypeOK, Strike
<1> QED
  BY <1>1, <1>2, <1>3, IdleFresh, KeepInv DEF RunInv, TypeOK, ItemsOK

LEMMA WorkInv == ASSUME RunInv, NEW w \in Workers, Work(w) \/ Fault(w) PROVE RunInv'
<1>1. CASE CompleteStep(w)
  BY <1>1, FinishStepInv DEF CompleteStep, StepStatuses
<1>2. CASE FailStep(w)
  BY <1>2, FinishStepInv DEF FailStep, AtAgentStep, StepStatuses
<1> QED
  BY <1>1, <1>2, LeaseNextInv, LoadRunInv, LoadStepsInv, DropItemInv, AcquireLeaseInv,
     LeaseBusyInv, PrepareRunInv, StartRunInv, ScheduleStepsInv, FinalizeRunInv, AnsweringInv,
     StartStepInv, ExecutorPrepareInv, PublishResultInv, SettleItemInv, LetGoInv
     DEF Work, Fault

-----------------------------------------------------------------------------
(* The clients and time.                                                   *)

LEMMA ClientTypes ==
    ASSUME RunInv, NEW c \in Clients
    PROVE  /\ client[c] \in ClientStates
           /\ client[c].version \in Nat
           /\ client[c].target \in RunStatuses
           /\ version \in Nat /\ version + 1 \in Nat
           /\ StoreOK /\ StreamFaithful
           /\ FreshClient(client[c])
<1>1. client[c] \in ClientStates
  BY DEF RunInv, TypeOK
<1> QED
  BY <1>1 DEF RunInv, TypeOK, StoreOK, ClientStates

LEMMA IssueType ==
    ASSUME RunInv, NEW c, NEW command, Issue(c, command)
    PROVE  spent' \in [commands : Nat, faults : Nat]
  BY DEF RunInv, TypeOK, Issue

LEMMA StrikeType ==
    ASSUME RunInv, NEW fault, Strike(fault)
    PROVE  spent' \in [commands : Nat, faults : Nat]
  BY DEF RunInv, TypeOK, Strike

\* A client whose request ends.
LEMMA IdleClientFresh ==
    ASSUME RunInv, NEW c \in Clients, client' = [client EXCEPT ![c] = IdleClient]
    PROVE  /\ client' \in [Clients -> ClientStates]
           /\ \A d \in Clients : client'[d] = client[d] \/ FreshClient(client[d])'
<1>1. client' \in [Clients -> ClientStates]
  BY IdleClientType DEF RunInv, TypeOK
<1>2. client'[c].pc = "idle" /\ \A d \in Clients \ {c} : client'[d] = client[d]
  BY DEF RunInv, TypeOK, IdleClient
<1>3. FreshClient(client[c])'
  BY <1>2 DEF FreshClient
<1> QED
  BY <1>1, <1>2, <1>3

\* A command's commit of a version it read, with the client left idle or
\* given what it needs to go on.
LEMMA CommandCommit ==
    ASSUME RunInv, NEW c \in Clients, NEW st \in RunStatuses, NEW sp \in StepMaps, NEW str,
           NEW keys \in SUBSET ItemKeys,
           Commit(version + 1, st, current, sp, str, keys),
           Records(str, version + 1, st, current, sp),
           \A k \in keys : FreshItem(k)',
           UNCHANGED lease, UNCHANGED worker,
           spent' \in [commands : Nat, faults : Nat],
           client' \in [Clients -> ClientStates],
           \A d \in Clients : client'[d] = client[d] \/ FreshClient(client[d])'
    PROVE  RunInv'
<1>1. /\ version' = version + 1 /\ items' = Enqueue(keys, 1)
      /\ status' = st /\ current' = current /\ steps' = sp /\ stream' = str
  BY DEF Commit
<1>2. current' \in StepIds \cup {NoStep}
  BY <1>1 DEF RunInv, TypeOK, StoreOK
<1>3. /\ worker' \in [Workers -> WorkerStates]
      /\ \A w \in Workers : worker'[w] = worker[w]
  BY DEF RunInv, TypeOK
<1> QED
  BY <1>1, <1>2, <1>3, LeaseKept, CommitInv

LEMMA ClientUnchanged ==
    ASSUME RunInv, UNCHANGED client
    PROVE  /\ client' \in [Clients -> ClientStates]
           /\ \A d \in Clients : client'[d] = client[d] \/ FreshClient(client[d])'
  BY DEF RunInv, TypeOK

LEMMA AddStepsInv == ASSUME RunInv, NEW c \in Clients, AddSteps(c) PROVE RunInv'
<1>1. PICK new \in SUBSET {s \in StepIds \ AgentSteps : steps[s] = "absent"} :
        Commit(version + 1, status, current,
               [s \in StepIds |-> IF s \in new THEN "pending" ELSE steps[s]],
               StepsAdded(version + 1, new),
               {Execute(s, version + 1) : s \in new \ InputSteps})
  BY DEF AddSteps
<1> DEFINE sp == [s \in StepIds |-> IF s \in new THEN "pending" ELSE steps[s]]
           keys == {Execute(s, version + 1) : s \in new \ InputSteps}
<1>2. UNCHANGED lease /\ UNCHANGED worker /\ UNCHANGED client /\ Issue(c, "add_steps")
  BY DEF AddSteps
<1>3. sp \in StepMaps /\ status \in RunStatuses
  BY ClientTypes DEF StoreOK, StepMaps, StepStatuses
<1>4. Records(StepsAdded(version + 1, new), version + 1, status, current, sp)
  BY ClientTypes, StepsAddedRecords
<1>5. new \ InputSteps \in SUBSET StepIds /\ \A s \in new \ InputSteps : sp[s] = "pending"
  OBVIOUS
<1>6. keys \in SUBSET ItemKeys
  BY <1>5, ClientTypes, QueuedType
<1>7. \A k \in keys : k.kind = "execute" /\ k.version = version + 1 /\ sp[k.step] = "pending"
  <2> HIDE DEF sp
  <2> QED
    BY <1>5, ClientTypes, QueuedType
<1>8. version' = version + 1 /\ steps' = sp
  BY <1>1 DEF Commit
<1> HIDE DEF sp
<1>9. \A k \in keys : FreshItem(k)'
  BY <1>7, <1>8, ClientTypes DEF FreshItem
<1> HIDE DEF keys
<1> QED
  BY <1>1, <1>2, <1>3, <1>4, <1>6, <1>9, IssueType, ClientUnchanged, CommandCommit DEF sp, keys

LEMMA AddAgentStepInv == ASSUME RunInv, NEW c \in Clients, AddAgentStep(c) PROVE RunInv'
<1>1. PICK s \in AgentSteps :
        /\ steps[s] = "absent"
        /\ Commit(version + 1, status, current, [steps EXCEPT ![s] = "pending"],
                  StepsAdded(version + 1, {s}), {})
        /\ client' = [client EXCEPT ![c] = [IdleClient EXCEPT
                         !.pc = "enqueueing", !.version = version + 1, !.step = s]]
  BY DEF AddAgentStep
<1>2. UNCHANGED lease /\ UNCHANGED worker /\ Issue(c, "add_agent_step")
  BY DEF AddAgentStep
<1>3. s \in StepIds
  BY RunConstants
<1>4. /\ [steps EXCEPT ![s] = "pending"] \in StepMaps /\ status \in RunStatuses
      /\ [steps EXCEPT ![s] = "pending"]
           = [r \in StepIds |-> IF r \in {s} THEN "pending" ELSE steps[r]]
      /\ [steps EXCEPT ![s] = "pending"][s] = "pending"
  BY <1>3, ClientTypes DEF StoreOK, StepMaps, StepStatuses
<1>5. Records(StepsAdded(version + 1, {s}), version + 1, status, current, [steps EXCEPT ![s] = "pending"])
  BY <1>1, <1>3, <1>4, ClientTypes, StepsAddedRecords
<1> DEFINE x == [IdleClient EXCEPT !.pc = "enqueueing", !.version = version + 1, !.step = s]
<1>6. /\ x \in ClientStates
      /\ x.pc = "enqueueing" /\ x.version = version + 1 /\ x.step = s
  BY <1>3, ClientTypes, IdleClientType DEF ClientStates, ClientPositions, IdleClient
<1>7. /\ client' \in [Clients -> ClientStates]
      /\ client'[c] = x /\ \A d \in Clients \ {c} : client'[d] = client[d]
  <2> HIDE DEF x
  <2>1. client' = [client EXCEPT ![c] = x]
    BY <1>1 DEF x
  <2> QED
    BY <1>6, <2>1 DEF RunInv, TypeOK
<1>8. client'[c].pc = "enqueueing" /\ client'[c].version = version + 1 /\ client'[c].step = s
  BY <1>6, <1>7
<1>9. FreshClient(client[c])'
  <2>1. version' = version + 1 /\ steps'[s] = "pending"
    BY <1>1, <1>4 DEF Commit
  <2> QED
    BY <1>3, <1>8, <2>1, ClientTypes DEF FreshClient
<1> QED
  BY <1>1, <1>2, <1>4, <1>5, <1>7, <1>9, IssueType, CommandCommit

LEMMA EnqueueAgentStepInv == ASSUME RunInv, NEW c \in Clients, EnqueueAgentStep(c) PROVE RunInv'
<1> DEFINE k == Execute(client[c].step, client[c].version)
<1>1. /\ client[c].pc = "enqueueing"
      /\ items' = IF k \in DOMAIN items THEN items ELSE Enqueue({k}, 1)
      /\ client' = [client EXCEPT ![c] = IdleClient]
      /\ UNCHANGED store /\ UNCHANGED lease /\ UNCHANGED worker /\ UNCHANGED spent
  BY DEF EnqueueAgentStep
<1>2. client[c].step \in StepIds /\ client[c].version \in Nat
  BY <1>1, ClientTypes DEF FreshClient
<1>3. k \in ItemKeys /\ FreshItem(k)
  BY <1>1, <1>2, ClientTypes DEF FreshClient, FreshItem, Execute, ItemKeys
<1>4. ItemsOK' /\ (DOMAIN items' = DOMAIN items \/ DOMAIN items' = DOMAIN items \cup {k})
  <2>1. ItemsOK /\ {k} \in SUBSET ItemKeys
    BY <1>3 DEF RunInv, TypeOK
  <2> HIDE DEF k
  <2>2. /\ Enqueue({k}, 1) \in [DOMAIN items \cup {k} -> Items]
        /\ DOMAIN Enqueue({k}, 1) = DOMAIN items \cup {k}
        /\ DOMAIN Enqueue({k}, 1) \subseteq ItemKeys
    BY <2>1, EnqueueType
  <2> QED
    BY <1>1, <2>1, <2>2 DEF ItemsOK
<1>5. \A j \in DOMAIN items' \ DOMAIN items : FreshItem(j)
  BY <1>3, <1>4
<1>6. /\ worker' \in [Workers -> WorkerStates] /\ \A w \in Workers : worker'[w] = worker[w]
      /\ spent' \in [commands : Nat, faults : Nat]
  BY <1>1 DEF RunInv, TypeOK
<1> QED
  BY <1>1, <1>4, <1>5, <1>6, IdleClientFresh, LeaseKept, KeepInv

\* The advance item of a transition to running.
LEMMA WakeUpFresh ==
    ASSUME RunInv, version' = version + 1, NEW target
    PROVE  WakeUp(target) \in SUBSET ItemKeys /\ \A k \in WakeUp(target) : FreshItem(k)'
<1>1. version \in Nat /\ version + 1 \in Nat
  BY DEF RunInv, TypeOK, StoreOK
<1>2. \A k \in WakeUp(target) : k = Advance(version + 1)
  BY DEF WakeUp
<1>3. /\ Advance(version + 1) \in ItemKeys
      /\ Advance(version + 1).kind = "advance" /\ Advance(version + 1).version = version + 1
  BY <1>1 DEF Advance, ItemKeys
<1> QED
  BY <1>1, <1>2, <1>3 DEF FreshItem

LEMMA TransitionRunInv == ASSUME RunInv, NEW c \in Clients, TransitionRun(c) PROVE RunInv'
<1>1. PICK target \in Targets :
        /\ RunTransition(status, target)
        /\ Commit(version + 1, target, current, steps,
                  StatusChanged(version + 1, status, target), WakeUp(target))
  BY DEF TransitionRun
<1>2. UNCHANGED lease /\ UNCHANGED worker /\ UNCHANGED client /\ Issue(c, "transition")
  BY DEF TransitionRun
<1>3. target \in RunStatuses /\ steps \in StepMaps
  BY RunConstants, ClientTypes DEF StoreOK
<1>4. Records(StatusChanged(version + 1, status, target), version + 1, target, current, steps)
  BY <1>1, <1>3, ClientTypes, StatusChangedRecords
<1>5. version' = version + 1
  BY <1>1 DEF Commit
<1> QED
  BY <1>1, <1>2, <1>3, <1>4, <1>5, WakeUpFresh, IssueType, ClientUnchanged, CommandCommit

LEMMA ResumeRunInv == ASSUME RunInv, NEW c \in Clients, ResumeRun(c) PROVE RunInv'
<1> DEFINE keys == WakeUp("running") \cup {Resume(version + 1)}
<1>1. /\ Commit(version + 1, "running", current, steps,
                StatusChanged(version + 1, status, "running"), keys)
      /\ UNCHANGED lease /\ UNCHANGED worker /\ UNCHANGED client /\ Issue(c, "resume")
  BY DEF ResumeRun
<1>2. "running" \in RunStatuses /\ steps \in StepMaps
  BY ClientTypes DEF StoreOK, RunStatuses
<1>3. Records(StatusChanged(version + 1, status, "running"), version + 1, "running", current, steps)
  BY <1>2, ClientTypes, StatusChangedRecords DEF ResumeRun
<1>4. version' = version + 1 /\ status' = "running"
  BY <1>1 DEF Commit
<1>5. \A k \in {Resume(version + 1)} : k \in ItemKeys /\ FreshItem(k)'
  <2>1. \A k \in {Resume(version + 1)} : k \in ItemKeys /\ k.kind = "resume" /\ k.version = version + 1
    BY ClientTypes, QueuedType
  <2> QED
    BY <1>4, <2>1, ClientTypes DEF FreshItem
<1>6. keys \in SUBSET ItemKeys /\ \A k \in keys : FreshItem(k)'
  BY <1>4, <1>5, WakeUpFresh
<1> HIDE DEF keys
<1> QED
  BY <1>1, <1>2, <1>3, <1>6, IssueType, ClientUnchanged, CommandCommit

LEMMA ApproveRunInv == ASSUME RunInv, NEW c \in Clients, ApproveRun(c) PROVE RunInv'
<1> DEFINE x == [IdleClient EXCEPT !.pc = "approving", !.version = version + 1]
<1>1. /\ Commit(version + 1, "running", current, steps,
                StatusChanged(version + 1, status, "running"), WakeUp("running"))
      /\ client' = [client EXCEPT ![c] = x]
      /\ UNCHANGED lease /\ UNCHANGED worker /\ Issue(c, "approve")
  BY DEF ApproveRun
<1>2. "running" \in RunStatuses /\ steps \in StepMaps
  BY ClientTypes DEF StoreOK, RunStatuses
<1>3. Records(StatusChanged(version + 1, status, "running"), version + 1, "running", current, steps)
  <2>1. RunTransition(status, "running")
    BY DEF ApproveRun, RunTransition, RunTargets
  <2> QED
    BY <1>2, <2>1, ClientTypes, StatusChangedRecords
<1>4. version' = version + 1 /\ status' = "running"
  BY <1>1 DEF Commit
<1>5. x \in ClientStates /\ x.pc = "approving" /\ x.version = version + 1
  BY ClientTypes, IdleClientType DEF ClientStates, ClientPositions, IdleClient
<1>6. /\ client' \in [Clients -> ClientStates]
      /\ client'[c] = x /\ \A d \in Clients \ {c} : client'[d] = client[d]
  <2> HIDE DEF x
  <2> QED
    BY <1>1, <1>5 DEF RunInv, TypeOK
<1>7. client'[c].pc = "approving" /\ client'[c].version = version + 1
  BY <1>5, <1>6
<1>8. FreshClient(client[c])'
  BY <1>4, <1>7, ClientTypes DEF FreshClient
<1> HIDE DEF x
<1> QED
  BY <1>1, <1>2, <1>3, <1>4, <1>6, <1>8, WakeUpFresh, IssueType, CommandCommit

\* A request that ends without a commit.
LEMMA EndedInv ==
    ASSUME RunInv, NEW c \in Clients, client' = [client EXCEPT ![c] = IdleClient],
           UNCHANGED store, UNCHANGED items, UNCHANGED lease, UNCHANGED worker,
           spent' \in [commands : Nat, faults : Nat]
    PROVE  RunInv'
<1>1. ItemsOK' /\ worker' \in [Workers -> WorkerStates]
  BY DEF RunInv, TypeOK, ItemsOK
<1> QED
  BY <1>1, IdleClientFresh, LeaseKept, KeepInv

LEMMA GrantApprovalInv == ASSUME RunInv, NEW c \in Clients, GrantApproval(c) PROVE RunInv'
<1>1. /\ client[c].pc = "approving"
      /\ client' = [client EXCEPT ![c] = IdleClient]
      /\ UNCHANGED lease /\ UNCHANGED worker
      /\ spent' \in [commands : Nat, faults : Nat]
  BY DEF GrantApproval, RunInv, TypeOK
<1>2. CASE CanCommit(client[c].version + 1)
  <2>1. client[c].version + 1 = version + 1 /\ status = "running"
    BY <1>1, <1>2, ClientTypes DEF CanCommit, FreshClient
  <2>2. Commit(version + 1, "running", current, steps, Noted(version + 1), {})
    BY <1>2, <2>1 DEF GrantApproval
  <2>3. Records(Noted(version + 1), version + 1, "running", current, steps)
    BY <2>1, ClientTypes, NotedRecords
  <2>4. "running" \in RunStatuses /\ steps \in StepMaps
    BY ClientTypes DEF StoreOK, RunStatuses
  <2>5. /\ client' \in [Clients -> ClientStates]
        /\ \A d \in Clients : client'[d] = client[d] \/ FreshClient(client[d])'
    BY <1>1, IdleClientFresh
  <2> QED
    BY <1>1, <2>2, <2>3, <2>4, <2>5, CommandCommit
<1>3. CASE ~CanCommit(client[c].version + 1)
  <2>1. UNCHANGED store /\ UNCHANGED items
    BY <1>3 DEF GrantApproval
  <2> QED
    BY <1>1, <2>1, EndedInv
<1> QED
  BY <1>2, <1>3

LEMMA TerminateRunInv == ASSUME RunInv, NEW c \in Clients, TerminateRun(c) PROVE RunInv'
<1>1. PICK target \in Targets :
        /\ RunTransition(status, target)
        /\ client' = [client EXCEPT ![c] = [IdleClient EXCEPT
                         !.pc = "terminating", !.version = version, !.target = target]]
  BY DEF TerminateRun
<1> DEFINE x == [IdleClient EXCEPT !.pc = "terminating", !.version = version, !.target = target]
<1>2. /\ UNCHANGED lease /\ UNCHANGED worker /\ UNCHANGED store /\ UNCHANGED items
      /\ Issue(c, "terminate")
  BY DEF TerminateRun
<1>3. x \in ClientStates /\ x.pc = "terminating" /\ x.version = version /\ x.target = target
  BY RunConstants, ClientTypes, IdleClientType DEF ClientStates, ClientPositions, IdleClient
<1>4. /\ client' \in [Clients -> ClientStates]
      /\ client'[c] = x /\ \A d \in Clients \ {c} : client'[d] = client[d]
  <2> HIDE DEF x
  <2>1. client' = [client EXCEPT ![c] = x]
    BY <1>1 DEF x
  <2> QED
    BY <1>3, <2>1 DEF RunInv, TypeOK
<1>5. client'[c].pc = "terminating" /\ client'[c].version = version /\ client'[c].target = target
  BY <1>3, <1>4
<1>6. FreshClient(client[c])'
  BY <1>1, <1>2, <1>5, ClientTypes DEF FreshClient, store
<1>7. ItemsOK' /\ worker' \in [Workers -> WorkerStates]
  BY <1>2 DEF RunInv, TypeOK, ItemsOK
<1> QED
  BY <1>2, <1>4, <1>6, <1>7, IssueType, LeaseKept, KeepInv

LEMMA CancelWorkInv == ASSUME RunInv, NEW c \in Clients, CancelWork(c) PROVE RunInv'
<1> DEFINE x == [client[c] EXCEPT !.pc = "committing"]
<1>1. /\ client[c].pc = "terminating" /\ items' = CancelForRun
      /\ client' = [client EXCEPT ![c] = x]
      /\ UNCHANGED lease /\ UNCHANGED worker /\ UNCHANGED store /\ UNCHANGED spent
  BY DEF CancelWork
<1>2. /\ x \in ClientStates /\ x.pc = "committing"
      /\ x.version = client[c].version /\ x.target = client[c].target
  BY ClientTypes DEF ClientStates, ClientPositions
<1>3. /\ client' \in [Clients -> ClientStates]
      /\ client'[c] = x /\ \A d \in Clients \ {c} : client'[d] = client[d]
  <2> HIDE DEF x
  <2> QED
    BY <1>1, <1>2 DEF RunInv, TypeOK
<1>4. /\ client'[c].pc = "committing" /\ client'[c].version = client[c].version
      /\ client'[c].target = client[c].target
  BY <1>2, <1>3
<1>5. FreshClient(client[c])'
  BY <1>1, <1>4, ClientTypes DEF FreshClient, store
<1>6. ItemsOK' /\ DOMAIN items' = DOMAIN items
  BY <1>1, CancelType DEF RunInv, TypeOK, ItemsOK
<1>7. worker' \in [Workers -> WorkerStates] /\ spent' \in [commands : Nat, faults : Nat]
  BY <1>1 DEF RunInv, TypeOK
<1> QED
  BY <1>1, <1>3, <1>5, <1>6, <1>7, LeaseKept, KeepInv

LEMMA CommitTerminationInv == ASSUME RunInv, NEW c \in Clients, CommitTermination(c) PROVE RunInv'
<1> DEFINE v == client[c].version + 1
           target == client[c].target
<1>1. /\ client[c].pc = "committing"
      /\ client' = [client EXCEPT ![c] = IdleClient]
      /\ UNCHANGED lease /\ UNCHANGED worker
      /\ spent' \in [commands : Nat, faults : Nat]
  BY DEF CommitTermination, RunInv, TypeOK
<1>2. CASE CanCommit(v)
  <2>1. v = version + 1
    BY <1>2 DEF CanCommit
  <2>2. Commit(version + 1, target, current, steps, StatusChanged(version + 1, status, target), {})
    BY <1>2, <2>1 DEF CommitTermination
  <2>3. target \in RunStatuses /\ steps \in StepMaps
    BY ClientTypes DEF StoreOK
  <2> HIDE DEF target
  <2>4. Records(StatusChanged(version + 1, status, target), version + 1, target, current, steps)
    <3>1. RunTransition(status, target)
      BY <1>1, <2>1, ClientTypes DEF FreshClient, target
    <3> QED
      BY <2>3, <3>1, ClientTypes, StatusChangedRecords
  <2>5. /\ client' \in [Clients -> ClientStates]
        /\ \A d \in Clients : client'[d] = client[d] \/ FreshClient(client[d])'
    BY <1>1, IdleClientFresh
  <2> QED
    BY <1>1, <2>2, <2>3, <2>4, <2>5, CommandCommit
<1>3. CASE ~CanCommit(v)
  <2>1. UNCHANGED store /\ UNCHANGED items
    BY <1>3 DEF CommitTermination
  <2> QED
    BY <1>1, <2>1, EndedInv
<1> QED
  BY <1>2, <1>3

LEMMA TransitionStepInv == ASSUME RunInv, NEW c \in Clients, TransitionStep(c) PROVE RunInv'
<1>1. PICK s \in StepIds, to \in StepStatuses :
        /\ StepTransition(steps[s], to)
        /\ Commit(version + 1, status, current, [steps EXCEPT ![s] = to],
                  StepStatusChanged(version + 1, s, steps[s], to), {})
  BY DEF TransitionStep, Present
<1>2. UNCHANGED lease /\ UNCHANGED worker /\ UNCHANGED client /\ Issue(c, "transition_step")
  BY DEF TransitionStep
<1>3. [steps EXCEPT ![s] = to] \in StepMaps /\ status \in RunStatuses
  BY ClientTypes DEF StoreOK, StepMaps
<1>4. Records(StepStatusChanged(version + 1, s, steps[s], to), version + 1, status, current,
              [steps EXCEPT ![s] = to])
  BY <1>1, ClientTypes, StepStatusChangedRecords
<1> QED
  BY <1>1, <1>2, <1>3, <1>4, IssueType, ClientUnchanged, CommandCommit

LEMMA CreateCheckpointInv == ASSUME RunInv, NEW c \in Clients, CreateCheckpoint(c) PROVE RunInv'
<1>1. /\ Commit(version + 1, status, current, steps, Noted(version + 1), {})
      /\ UNCHANGED lease /\ UNCHANGED worker /\ UNCHANGED client /\ Issue(c, "checkpoint")
  BY DEF CreateCheckpoint
<1>2. status \in RunStatuses /\ steps \in StepMaps
  BY ClientTypes DEF StoreOK
<1>3. Records(Noted(version + 1), version + 1, status, current, steps)
  BY ClientTypes, NotedRecords
<1> QED
  BY <1>1, <1>2, <1>3, IssueType, ClientUnchanged, CommandCommit

LEMMA ClientCrashInv == ASSUME RunInv, NEW c \in Clients, ClientCrash(c) PROVE RunInv'
<1>1. /\ client' = [client EXCEPT ![c] = IdleClient] /\ Strike("crash")
      /\ UNCHANGED lease /\ UNCHANGED worker /\ UNCHANGED store /\ UNCHANGED items
  BY DEF ClientCrash
<1> QED
  BY <1>1, StrikeType, EndedInv

LEMMA ClientInv ==
    ASSUME RunInv, NEW c \in Clients, Command(c) \/ Continue(c) \/ ClientCrash(c)
    PROVE  RunInv'
  BY AddStepsInv, AddAgentStepInv, TransitionRunInv, ResumeRunInv, ApproveRunInv,
     TerminateRunInv, TransitionStepInv, CreateCheckpointInv, EnqueueAgentStepInv,
     GrantApprovalInv, CancelWorkInv, CommitTerminationInv, ClientCrashInv
     DEF Command, Continue

LEMMA TimePassesInv == ASSUME RunInv, TimePasses PROVE RunInv'
<1>1. /\ UNCHANGED worker /\ UNCHANGED client /\ UNCHANGED store
      /\ spent' = spent \/ Strike("expire")
  BY DEF TimePasses, ExpireItem, ExpireRunLease
<1>2. spent' \in [commands : Nat, faults : Nat]
  BY <1>1, StrikeType DEF RunInv, TypeOK
<1>3. worker' \in [Workers -> WorkerStates]
  BY <1>1 DEF RunInv, TypeOK
<1>4. CASE ExpireRunLease
  <2>1. LeaseOK' /\ UNCHANGED items
    BY <1>4 DEF ExpireRunLease, RunInv, TypeOK, LeaseOK
  <2> QED
    BY <1>1, <1>2, <1>3, <2>1, ClientUnchanged, KeepInv DEF RunInv, TypeOK, ItemsOK
<1>5. CASE \E k \in DOMAIN items : ExpireItem(k)
  <2>1. PICK k \in DOMAIN items :
          items' = [items EXCEPT ![k] = [items[k] EXCEPT !.live = FALSE]] /\ UNCHANGED lease
    BY <1>5 DEF ExpireItem
  <2>2. [items[k] EXCEPT !.live = FALSE] \in Items
    BY DEF RunInv, TypeOK, ItemsOK, Items
  <2>3. ItemsOK' /\ DOMAIN items' = DOMAIN items
    BY <2>1, <2>2 DEF RunInv, TypeOK, ItemsOK
  <2> QED
    BY <1>1, <1>2, <1>3, <2>1, <2>3, ClientUnchanged, LeaseKept, KeepInv
<1> QED
  BY <1>4, <1>5 DEF TimePasses

-----------------------------------------------------------------------------
(* The invariant, and the properties it implies in every state.            *)

LEMMA InitInv == ASSUME Init PROVE RunInv
<1>1. StoreOK /\ StreamFaithful
  BY DEF Init, StoreOK, StreamFaithful, Streams, StepMaps, RunStatuses, StepStatuses, Reasons
<1>2. Advance(1) \in ItemKeys /\ Advance(1).kind = "advance" /\ Advance(1).version = 1
  BY DEF Advance, ItemKeys
<1>3. DOMAIN items = {Advance(1)} /\ ItemsOK
  BY <1>2 DEF Init, ItemsOK, Items, ItemStatuses
<1>4. LeaseOK
  BY DEF Init, LeaseOK, NoLease
<1>5. spent \in [commands : Nat, faults : Nat]
  BY DEF Init
<1>6. worker \in [Workers -> WorkerStates] /\ \A w \in Workers : worker[w].pc = "idle"
  <2>1. IdleWorker.pc = "idle"
    BY DEF IdleWorker
  <2> QED
    BY <2>1, IdleWorkerType DEF Init
<1>7. client \in [Clients -> ClientStates] /\ \A c \in Clients : client[c].pc = "idle"
  <2>1. IdleClient.pc = "idle"
    BY DEF IdleClient
  <2> QED
    BY <2>1, IdleClientType DEF Init
<1>8. \A w \in Workers : FreshWorker(worker[w])
  BY <1>6 DEF FreshWorker
<1>9. \A c \in Clients : FreshClient(client[c])
  BY <1>7 DEF FreshClient
<1>10. \A k \in DOMAIN items : FreshItem(k)
  BY <1>2, <1>3 DEF FreshItem, Init
<1> QED
  BY <1>1, <1>3, <1>4, <1>5, <1>6, <1>7, <1>8, <1>9, <1>10 DEF RunInv, TypeOK

LEMMA NextInv == ASSUME RunInv, [Next]_vars PROVE RunInv'
<1>1. CASE Next
  BY <1>1, ClientInv, WorkInv, TimePassesInv DEF Next
<1>2. CASE UNCHANGED vars
  <2>1. UNCHANGED store /\ UNCHANGED items /\ UNCHANGED lease /\ UNCHANGED worker
        /\ UNCHANGED client /\ UNCHANGED spent
    BY <1>2 DEF vars, store
  <2>2. ItemsOK' /\ worker' \in [Workers -> WorkerStates] /\ spent' \in [commands : Nat, faults : Nat]
    BY <2>1 DEF RunInv, TypeOK, ItemsOK
  <2> QED
    BY <2>1, <2>2, ClientUnchanged, LeaseKept, KeepInv
<1> QED
  BY <1>1, <1>2

\* The inductive invariant: what each worker, request and queued item has
\* read is still true, or the run has moved past the commit it will attempt.
THEOREM RunInvariant == Spec => []RunInv
  BY InitInv, NextInv, PTL DEF Spec

\* Every variable keeps the type of the column or local it stands for.
THEOREM TypeCorrect == Spec => []TypeOK
<1>1. RunInv => TypeOK
  BY DEF RunInv
<1> QED
  BY <1>1, RunInvariant, PTL

\* The run's stream replays to its version, status and steps; replay_run's
\* tables refuse it exactly when a handler has started a step, and its
\* current-step check only after a CurrentStepChanged.
THEOREM StreamIsFaithful == Spec => []StreamFaithful
<1>1. RunInv => StreamFaithful
  BY DEF RunInv
<1> QED
  BY <1>1, RunInvariant, PTL

\* ExecuteStepHandler may start a step without asking its table: an item that
\* is not stale names a pending step.
THEOREM ExecuteItemsNamePending == Spec => []ExecuteItemsPending
<1>1. RunInv => ExecuteItemsPending
  BY DEF RunInv, FreshItem, ExecuteItemsPending
<1> QED
  BY <1>1, RunInvariant, PTL

\* ResumeRunHandler never has anything to do.
THEOREM ResumeItemsFindRunning == Spec => []ResumeItemsRunning
<1>1. RunInv => ResumeItemsRunning
  BY DEF RunInv, FreshItem, ResumeItemsRunning
<1> QED
  BY <1>1, RunInvariant, PTL

-----------------------------------------------------------------------------
(* What a step may never do.                                               *)

\* A handler's commit is the only way it goes on.
LEMMA HandlerCommitMoves ==
    ASSUME RunInv, NEW w \in Workers, NEW v, NEW st, NEW cur, NEW sp, NEW str, NEW keys,
           NEW pc, HandlerCommit(w, v, st, cur, sp, str, keys, pc)
    PROVE  /\ \A u \in Workers \ {w} : worker'[u] = worker[u]
           /\ \/ CanCommit(v) /\ worker'[w].pc = pc /\ status' = st
              \/ UNCHANGED store /\ worker'[w].pc = "settling"
<1>1. worker[w] \in WorkerStates /\ worker \in [Workers -> WorkerStates]
  BY DEF RunInv, TypeOK
<1>2. CASE CanCommit(v) /\ Commit(v, st, cur, sp, str, keys)
           /\ worker' = [worker EXCEPT ![w] = [@ EXCEPT !.pc = pc, !.outcome = "complete"]]
  BY <1>1, <1>2 DEF Commit, WorkerStates
<1>3. CASE Answer(w, "retry") /\ UNCHANGED <<store, items>>
  BY <1>1, <1>3 DEF Answer, WorkerStates
<1> QED
  BY <1>2, <1>3 DEF HandlerCommit

\* The actions of a worker that commit nothing of the run.
Quiet(w) ==
    \/ LeaseNext(w) \/ LoadRun(w) \/ LoadSteps(w) \/ CompleteStale(w) \/ DeclineItem(w)
    \/ AcquireLease(w) \/ LeaseBusy(w) \/ RetryBusy(w)
    \/ CancelFinalized(w) \/ NothingToDo(w) \/ ExecutorPrepare(w) \/ StepContended(w)
    \/ SettleItem(w) \/ ReleaseLease(w) \/ DenyItem(w) \/ HandlerStorageError(w) \/ WorkerCrash(w)

LEMMA QuietMoves ==
    ASSUME RunInv, NEW w \in Workers, Quiet(w)
    PROVE  /\ \A u \in Workers \ {w} : worker'[u] = worker[u]
           /\ worker'[w].pc \notin {"executing", "finalized"}
           /\ UNCHANGED store
<1>0. worker[w] \in WorkerStates /\ worker \in [Workers -> WorkerStates]
  BY DEF RunInv, TypeOK
<1>1. CASE CompleteStale(w) \/ DeclineItem(w) \/ RetryBusy(w) \/ ReleaseLease(w)
           \/ DenyItem(w) \/ WorkerCrash(w)
  BY <1>0, <1>1 DEF CompleteStale, DeclineItem, RetryBusy, ReleaseLease, DenyItem, WorkerCrash, IdleWorker
<1>2. CASE CancelFinalized(w) \/ NothingToDo(w) \/ StepContended(w) \/ HandlerStorageError(w)
  <2>1. PICK o \in {"complete", "retry"} : Answer(w, o) /\ UNCHANGED store
    BY <1>2 DEF CancelFinalized, NothingToDo, StepContended, HandlerStorageError
  <2>2. \A u \in Workers \ {w} : worker'[u] = worker[u]
    BY <1>0, <2>1 DEF Answer
  <2>3. worker'[w].pc = "settling"
    BY <1>0, <2>1 DEF Answer, WorkerStates
  <2> QED
    BY <2>1, <2>2, <2>3
<1>3. CASE LeaseNext(w)
  BY <1>0, <1>3 DEF LeaseNext, IdleWorker
<1>4. CASE LoadRun(w)
  BY <1>0, <1>4 DEF LoadRun, LoadedAt, WorkerStates
<1>5. CASE LoadSteps(w)
  BY <1>0, <1>5 DEF LoadSteps, WorkerStates
<1>6. CASE AcquireLease(w)
  BY <1>0, <1>6 DEF AcquireLease, WorkerStates
<1>7. CASE LeaseBusy(w)
  BY <1>0, <1>7 DEF LeaseBusy, Goto, WorkerStates
<1>8. CASE ExecutorPrepare(w)
  BY <1>0, <1>8 DEF ExecutorPrepare, WorkerStates
<1>9. CASE SettleItem(w)
  BY <1>0, <1>9 DEF SettleItem, Goto, WorkerStates, IdleWorker
<1> QED
  BY <1>1, <1>2, <1>3, <1>4, <1>5, <1>6, <1>7, <1>8, <1>9 DEF Quiet

\* What the other actions of a worker read is still true when they commit.
LEMMA CommittingMoves ==
    ASSUME RunInv, NEW w \in Workers, Work(w) \/ Fault(w), ~Quiet(w)
    PROVE  /\ \A u \in Workers \ {w} : worker'[u] = worker[u]
           /\ UNCHANGED store \/ status \notin Halted
           /\ worker'[w].pc = "executing" =>
                /\ worker[w].pc = "handling" /\ worker[w].item.kind = "execute"
                /\ worker[w].item.version = version
           /\ worker'[w].pc = "finalized" =>
                /\ worker[w].pc = "handling"
                /\ AllTerminal(steps) /\ status' = FinalTarget(steps)
<1> DEFINE run == worker[w].snapshot
           v == worker[w].item.version + 1
<1>0. worker[w] \in WorkerStates /\ worker \in [Workers -> WorkerStates]
  BY DEF RunInv, TypeOK
<1>1. ASSUME worker[w].pc = "handling", CanCommit(v)
      PROVE  /\ worker[w].item.version = version
             /\ run.status = status /\ status \notin Halted /\ run.steps = steps
  BY <1>1, WorkerTypes DEF CanCommit, FreshWorker
<1>2. ASSUME worker[w].pc \in {"executing", "prepared"}, CanCommit(worker[w].item.version + 2)
      PROVE  status \notin Halted
  BY <1>2, WorkerTypes DEF CanCommit, FreshWorker
<1>3. CASE PrepareRun(w)
  BY <1>1, <1>3, HandlerCommitMoves DEF PrepareRun, Handling
<1>4. CASE StartRun(w)
  BY <1>1, <1>4, HandlerCommitMoves DEF StartRun, Handling
<1>5. CASE ScheduleSteps(w)
  BY <1>1, <1>5, HandlerCommitMoves DEF ScheduleSteps, Handling
<1>6. CASE FinalizeRun(w)
  <2>1. CASE Answer(w, "dead_letter") /\ UNCHANGED <<store, items>>
    BY <1>0, <2>1 DEF Answer, WorkerStates
  <2>2. CASE HandlerCommit(w, v, FinalTarget(run.steps), run.current, steps,
                           StatusChanged(v, run.status, FinalTarget(run.steps)), {}, "finalized")
    BY <1>1, <1>6, <2>2, HandlerCommitMoves DEF FinalizeRun, Handling
  <2> QED
    BY <1>6, <2>1, <2>2 DEF FinalizeRun
<1>7. CASE StartStep(w)
  BY <1>1, <1>7, HandlerCommitMoves DEF StartStep, Handling
<1>8. CASE CompleteStep(w) \/ FailStep(w)
  BY <1>2, <1>8, HandlerCommitMoves DEF CompleteStep, FailStep, FinishStep, AtAgentStep
<1>9. CASE PublishResult(w)
  BY <1>0, <1>9 DEF PublishResult, CanPublish, Answer, WorkerStates, Halted, TerminalRun
<1> QED
  BY <1>3, <1>4, <1>5, <1>6, <1>7, <1>8, <1>9 DEF Work, Fault, Quiet

\* Both, for whichever worker takes the step.
LEMMA WorkMoves ==
    ASSUME RunInv, NEW w \in Workers, Work(w) \/ Fault(w)
    PROVE  /\ \A u \in Workers \ {w} : worker'[u] = worker[u]
           /\ UNCHANGED store \/ status \notin Halted
           /\ worker'[w].pc = "executing" =>
                /\ worker[w].pc = "handling" /\ worker[w].item.kind = "execute"
                /\ worker[w].item.version = version
           /\ worker'[w].pc = "finalized" =>
                /\ worker[w].pc = "handling"
                /\ AllTerminal(steps) /\ status' = FinalTarget(steps)
  BY QuietMoves, CommittingMoves

LEMMA OthersLeaveWorkers ==
    /\ \A c \in Clients : Command(c) \/ Continue(c) \/ ClientCrash(c) => worker' = worker
    /\ TimePasses => worker' = worker
<1>1. \A c \in Clients : Command(c) => worker' = worker
  BY DEF Command, AddSteps, AddAgentStep, TransitionRun, ResumeRun, ApproveRun, TerminateRun,
         TransitionStep, CreateCheckpoint
<1>2. \A c \in Clients : Continue(c) \/ ClientCrash(c) => worker' = worker
  BY DEF Continue, EnqueueAgentStep, GrantApproval, CancelWork, CommitTermination, ClientCrash
<1>3. TimePasses => worker' = worker
  BY DEF TimePasses, ExpireItem, ExpireRunLease
<1> QED
  BY <1>1, <1>2, <1>3

\* No step is started twice: the item that starts it is not stale when the
\* start is committed, so the step is still pending.
THEOREM StepsStartOnce == Spec => StepsStartPending
<1> DEFINE A == \A w \in Workers :
                  worker[w].pc = "handling" /\ worker'[w].pc = "executing"
                    => steps[worker[w].item.step] = "pending"
<1>1. ASSUME RunInv, [Next]_vars PROVE A
  <2>1. ASSUME NEW w \in Workers, worker[w].pc = "handling", worker'[w].pc = "executing"
        PROVE  steps[worker[w].item.step] = "pending"
    <3>1. worker' # worker
      BY <2>1
    <3>2. PICK u \in Workers : Work(u) \/ Fault(u)
      BY <1>1, <3>1, OthersLeaveWorkers DEF Next, vars
    <3>3. u = w
      BY <1>1, <2>1, <3>2, WorkMoves
    <3>4. worker[w].item.kind = "execute" /\ worker[w].item.version = version
      BY <1>1, <2>1, <3>2, <3>3, WorkMoves
    <3>5. worker[w].item \in DOMAIN items
      BY <1>1, <2>1, WorkerTypes DEF FreshWorker
    <3> QED
      BY <1>1, <3>4, <3>5 DEF RunInv, FreshItem
  <2> QED
    BY <2>1
<1>2. ASSUME RunInv, [Next]_vars PROVE [A]_vars
  BY <1>1, <1>2
<1> QED
  BY <1>2, RunInvariant, PTL DEF Spec, StepsStartPending

\* A worker writes nothing to a paused or terminal run.
THEOREM HaltedRunsAreLeftAlone == Spec => HaltedRunIsStill
<1> DEFINE A == (status \in Halted /\ worker' # worker) => UNCHANGED store
<1>1. ASSUME RunInv, [Next]_vars PROVE [A]_vars
  <2>1. ASSUME Next, status \in Halted, worker' # worker PROVE UNCHANGED store
    <3>1. PICK u \in Workers : Work(u) \/ Fault(u)
      BY <2>1, OthersLeaveWorkers DEF Next
    <3> QED
      BY <1>1, <2>1, <3>1, WorkMoves
  <2> QED
    BY <1>1, <2>1 DEF Halted
<1> QED
  BY <1>1, RunInvariant, PTL DEF Spec, HaltedRunIsStill

\* A run is ended only when every step is terminal, with a result that agrees
\* with them.
THEOREM FinalizationIsSound == Spec => FinalizationSound
<1> DEFINE Sound == /\ \A s \in Present : steps[s] \in TerminalStep
                    /\ status' = "succeeded" <=> \A s \in Present : steps[s] = "succeeded"
                    /\ status' = "failed" <=> \E s \in Present : steps[s] = "failed"
           A == \A w \in Workers :
                  worker[w].pc = "handling" /\ worker'[w].pc = "finalized" => Sound
<1>1. ASSUME RunInv, [Next]_vars PROVE A
  <2>1. ASSUME NEW w \in Workers, worker[w].pc = "handling", worker'[w].pc = "finalized"
        PROVE  Sound
    <3>1. worker' # worker
      BY <2>1
    <3>2. PICK u \in Workers : Work(u) \/ Fault(u)
      BY <1>1, <3>1, OthersLeaveWorkers DEF Next, vars
    <3>3. u = w
      BY <1>1, <2>1, <3>2, WorkMoves
    <3>4. AllTerminal(steps) /\ status' = FinalTarget(steps)
      BY <1>1, <2>1, <3>2, <3>3, WorkMoves
    <3> QED
      BY <3>4 DEF AllTerminal, FinalTarget, Present, TerminalStep
  <2> QED
    BY <2>1
<1>2. ASSUME RunInv, [Next]_vars PROVE [A]_vars
  BY <1>1, <1>2
<1> QED
  BY <1>2, RunInvariant, PTL DEF Spec, FinalizationSound

LEMMA ClientsKeepTerminal ==
    ASSUME RunInv, NEW c \in Clients, Command(c) \/ Continue(c) \/ ClientCrash(c),
           status \in TerminalRun
    PROVE  status' = status
<1>0. /\ \A to : RunTransition(status, to) => to = status
      /\ status \notin {"running", "waiting_for_approval"}
  BY DEF RunTransition, RunTargets, TerminalRun
<1>1. CASE AddSteps(c) \/ AddAgentStep(c) \/ TransitionStep(c) \/ CreateCheckpoint(c)
  BY <1>1 DEF AddSteps, AddAgentStep, TransitionStep, CreateCheckpoint, Commit
<1>2. CASE TransitionRun(c)
  BY <1>0, <1>2 DEF TransitionRun, Commit
<1>3. CASE ResumeRun(c) \/ ApproveRun(c)
  BY <1>0, <1>3 DEF ResumeRun, ApproveRun
<1>4. CASE GrantApproval(c)
  BY <1>0, <1>4, ClientTypes DEF GrantApproval, FreshClient, CanCommit, store
<1>5. CASE CommitTermination(c)
  <2>1. CASE CanCommit(client[c].version + 1)
    <3>1. client[c].version = version /\ client[c].pc = "committing"
      BY <1>5, <2>1, ClientTypes DEF CommitTermination, CanCommit
    <3>2. client[c].target = status
      BY <1>0, <3>1, ClientTypes DEF FreshClient
    <3> QED
      BY <1>5, <2>1, <3>2 DEF CommitTermination, Commit
  <2>2. CASE ~CanCommit(client[c].version + 1)
    BY <1>5, <2>2 DEF CommitTermination, store
  <2> QED
    BY <2>1, <2>2
<1>6. CASE TerminateRun(c) \/ CancelWork(c) \/ EnqueueAgentStep(c) \/ ClientCrash(c)
  BY <1>6 DEF TerminateRun, CancelWork, EnqueueAgentStep, ClientCrash, store
<1> QED
  BY <1>1, <1>2, <1>3, <1>4, <1>5, <1>6 DEF Command, Continue

\* A terminal run keeps its status whatever was read before it ended.
THEOREM TerminalStaysFinal == Spec => TerminalIsFinal
<1> DEFINE A == (status \in TerminalRun) => (status' = status)
<1>1. ASSUME RunInv, [Next]_vars PROVE [A]_vars
  <2>1. ASSUME Next, status \in TerminalRun PROVE status' = status
    <3>1. CASE \E c \in Clients : Command(c) \/ Continue(c) \/ ClientCrash(c)
      BY <1>1, <2>1, <3>1, ClientsKeepTerminal
    <3>2. CASE \E w \in Workers : Work(w) \/ Fault(w)
      BY <1>1, <2>1, <3>2, WorkMoves DEF Halted, store
    <3>3. CASE TimePasses
      BY <3>3 DEF TimePasses, ExpireItem, ExpireRunLease, store
    <3> QED
      BY <2>1, <3>1, <3>2, <3>3 DEF Next
  <2> QED
    BY <1>1, <2>1
<1> QED
  BY <1>1, RunInvariant, PTL DEF Spec, TerminalIsFinal

-----------------------------------------------------------------------------
(* Settled items.                                                          *)

Retired(k) == items[k].status \notin {"ready", "leased"}

\* A commit's items are new: their version is the one it makes.
LEMMA EnqueueKeeps ==
    ASSUME RunInv, NEW keys, NEW a, \A k \in keys : k.version = version + 1,
           items' = Enqueue(keys, a)
    PROVE  \A k \in DOMAIN items : items'[k] = items[k]
<1>1. \A k \in DOMAIN items : k.version \in Nat /\ k.version <= version /\ version \in Nat
  BY DEF RunInv, TypeOK, StoreOK, ItemsOK, ItemKeys, FreshItem
<1>2. \A k \in DOMAIN items : k \notin keys
  BY <1>1
<1> QED
  BY <1>2 DEF Enqueue

LEMMA CancelKeeps ==
    ASSUME RunInv, items' = CancelForRun
    PROVE  \A k \in DOMAIN items : Retired(k) => Retired(k)'
  BY DEF CancelForRun, Cancellable, Retired

LEMMA SettleKeeps ==
    ASSUME RunInv, NEW j, NEW o \in ItemStatuses, items' = Settle(j, o),
           items[j].status = "leased" \/ o \notin {"ready", "leased"}
    PROVE  \A k \in DOMAIN items : Retired(k) => Retired(k)'
<1>1. items \in [DOMAIN items -> Items]
  BY DEF RunInv, TypeOK, ItemsOK
<1>2. \A k \in DOMAIN items : k # j => items'[k] = items[k]
  BY <1>1 DEF Settle
<1>3. j \in DOMAIN items => items'[j].status = o
  BY <1>1 DEF Settle, Items
<1> QED
  BY <1>2, <1>3 DEF Retired

LEMMA HandlerCommitKeeps ==
    ASSUME RunInv, NEW w \in Workers, NEW v, NEW st, NEW cur, NEW sp, NEW str, NEW keys,
           NEW pc, HandlerCommit(w, v, st, cur, sp, str, keys, pc),
           \A k \in keys : k.version = v
    PROVE  \A k \in DOMAIN items : items'[k] = items[k]
<1>1. CASE CanCommit(v) /\ Commit(v, st, cur, sp, str, keys)
  BY <1>1, EnqueueKeeps DEF CanCommit, Commit
<1>2. CASE UNCHANGED items
  BY <1>2
<1> QED
  BY <1>1, <1>2 DEF HandlerCommit

LEMMA QueuedVersions ==
    /\ \A v : Advance(v).version = v /\ Resume(v).version = v
    /\ \A s, v : Execute(s, v).version = v
  BY DEF Advance, Resume, Execute

LEMMA WorkKeepsRetired ==
    ASSUME RunInv, NEW w \in Workers, Work(w) \/ Fault(w)
    PROVE  \A k \in DOMAIN items : Retired(k) => Retired(k)'
<1>1. CASE PrepareRun(w)
  BY <1>1, HandlerCommitKeeps, QueuedVersions DEF PrepareRun, Retired
<1>2. CASE StartRun(w)
  BY <1>2, HandlerCommitKeeps, QueuedVersions DEF StartRun, Retired
<1>3. CASE ScheduleSteps(w)
  BY <1>3, HandlerCommitKeeps, QueuedVersions DEF ScheduleSteps, Retired
<1>4. CASE FinalizeRun(w)
  BY <1>4, HandlerCommitKeeps DEF FinalizeRun, Retired
<1>5. CASE StartStep(w)
  BY <1>5, HandlerCommitKeeps, QueuedVersions DEF StartStep, Retired
<1>6. CASE CompleteStep(w) \/ FailStep(w)
  BY <1>6, HandlerCommitKeeps, QueuedVersions DEF CompleteStep, FailStep, FinishStep, Retired
<1>7. CASE PublishResult(w)
  <2>1. items' = Enqueue({Advance(version + 1)}, 0)
    BY <1>7 DEF PublishResult, CanPublish
  <2>2. \A k \in {Advance(version + 1)} : k.version = version + 1
    BY QueuedVersions
  <2>3. \A k \in DOMAIN items : items'[k] = items[k]
    BY <2>1, <2>2, EnqueueKeeps
  <2> QED
    BY <2>3 DEF Retired
<1>8. CASE LeaseNext(w)
  <2>1. PICK j \in DOMAIN items : Cancellable(items[j]) /\ \A k \in DOMAIN items : k # j => items'[k] = items[k]
    BY <1>8 DEF LeaseNext
  <2> QED
    BY <2>1 DEF Retired, Cancellable
<1>9. CASE CompleteStale(w) \/ RetryBusy(w) \/ DenyItem(w) \/ SettleItem(w)
  <2> DEFINE j == worker[w].item
  <2>1. \/ items' = items
        \/ items' = Settle(j, "dead_letter")
        \/ items' = Settle(j, "completed")
        \/ items' = Settle(j, Retried(j)) /\ items[j].status = "leased"
    BY <1>9 DEF CompleteStale, RetryBusy, DenyItem, SettleItem
  <2>2. {"completed", "dead_letter"} \subseteq ItemStatuses /\ Retried(j) \in ItemStatuses
    BY DEF ItemStatuses, Retried
  <2> HIDE DEF j
  <2> QED
    BY <2>1, <2>2, SettleKeeps DEF Retired
<1>10. CASE DeclineItem(w) \/ CancelFinalized(w)
  BY <1>10, CancelKeeps DEF DeclineItem, CancelFinalized
<1>11. CASE \/ LoadRun(w) \/ LoadSteps(w) \/ AcquireLease(w) \/ LeaseBusy(w) \/ NothingToDo(w)
            \/ ExecutorPrepare(w) \/ StepContended(w) \/ ReleaseLease(w)
            \/ HandlerStorageError(w) \/ WorkerCrash(w)
  <2>1. items' = items
    BY <1>11 DEF LoadRun, LoadSteps, AcquireLease, LeaseBusy, NothingToDo, ExecutorPrepare,
                 StepContended, ReleaseLease, HandlerStorageError, WorkerCrash
  <2> QED
    BY <2>1 DEF Retired
<1> QED
  BY <1>1, <1>2, <1>3, <1>4, <1>5, <1>6, <1>7, <1>8, <1>9, <1>10, <1>11 DEF Work, Fault

LEMMA ClientsKeepRetired ==
    ASSUME RunInv, NEW c \in Clients, Command(c) \/ Continue(c) \/ ClientCrash(c)
    PROVE  \A k \in DOMAIN items : Retired(k) => Retired(k)'
<1>1. CASE AddSteps(c) \/ AddAgentStep(c) \/ TransitionStep(c) \/ CreateCheckpoint(c)
           \/ TransitionRun(c) \/ ResumeRun(c) \/ ApproveRun(c)
  <2>1. \E keys : items' = Enqueue(keys, 1) /\ \A k \in keys : k.version = version + 1
    <3>1. CASE AddSteps(c)
      <4>1. PICK new : items' = Enqueue({Execute(s, version + 1) : s \in new \ InputSteps}, 1)
        BY <3>1 DEF AddSteps, Commit
      <4> DEFINE keys == {Execute(s, version + 1) : s \in new \ InputSteps}
      <4>2. \A k \in keys : k.version = version + 1
        BY QueuedVersions
      <4> HIDE DEF keys
      <4> QED
        BY <4>1, <4>2 DEF keys
    <3>2. CASE AddAgentStep(c) \/ TransitionStep(c) \/ CreateCheckpoint(c)
      <4>1. items' = Enqueue({}, 1)
        BY <3>2 DEF AddAgentStep, TransitionStep, CreateCheckpoint, Commit
      <4> QED
        BY <4>1
    <3>3. CASE TransitionRun(c)
      BY <3>3, QueuedVersions DEF TransitionRun, WakeUp, Commit
    <3>4. CASE ResumeRun(c)
      BY <3>4, QueuedVersions DEF ResumeRun, WakeUp, Commit
    <3>5. CASE ApproveRun(c)
      BY <3>5, QueuedVersions DEF ApproveRun, WakeUp, Commit
    <3> QED
      BY <1>1, <3>1, <3>2, <3>3, <3>4, <3>5
  <2> QED
    BY <2>1, EnqueueKeeps DEF Retired
<1>2. CASE GrantApproval(c) \/ CommitTermination(c)
  <2>1. items' = Enqueue({}, 1) \/ items' = items
    BY <1>2 DEF GrantApproval, CommitTermination, Commit
  <2> QED
    BY <2>1, EnqueueKeeps DEF Retired
<1>3. CASE EnqueueAgentStep(c)
  BY <1>3 DEF EnqueueAgentStep, Enqueue, Retired
<1>4. CASE CancelWork(c)
  BY <1>4, CancelKeeps DEF CancelWork
<1>5. CASE TerminateRun(c) \/ ClientCrash(c)
  <2>1. items' = items
    BY <1>5 DEF TerminateRun, ClientCrash
  <2> QED
    BY <2>1 DEF Retired
<1> QED
  BY <1>1, <1>2, <1>3, <1>4, <1>5 DEF Command, Continue

\* A settled work item is never ready or leased again.
THEOREM SettledItemsStaySettled == Spec => RetiredStaysRetired
<1> DEFINE A == \A k \in DOMAIN items :
                  items[k].status \notin {"ready", "leased"}
                    => items'[k].status \notin {"ready", "leased"}
<1>1. ASSUME RunInv, [Next]_vars PROVE [A]_vars
  <2>1. ASSUME Next PROVE \A k \in DOMAIN items : Retired(k) => Retired(k)'
    <3>1. CASE TimePasses
      <4>1. CASE ExpireRunLease
        BY <4>1 DEF ExpireRunLease, Retired
      <4>2. CASE \E j \in DOMAIN items : ExpireItem(j)
        <5>1. PICK j \in DOMAIN items : items' = [items EXCEPT ![j] = [items[j] EXCEPT !.live = FALSE]]
          BY <4>2 DEF ExpireItem
        <5>2. items \in [DOMAIN items -> Items]
          BY <1>1 DEF RunInv, TypeOK, ItemsOK
        <5>3. [items[j] EXCEPT !.live = FALSE].status = items[j].status
          BY <5>2 DEF Items
        <5> QED
          BY <5>1, <5>2, <5>3 DEF Retired
      <4> QED
        BY <3>1, <4>1, <4>2 DEF TimePasses
    <3> QED
      BY <1>1, <2>1, <3>1, ClientsKeepRetired, WorkKeepsRetired DEF Next
  <2> QED
    BY <1>1, <2>1 DEF Retired
<1> QED
  BY <1>1, RunInvariant, PTL DEF Spec, RetiredStaysRetired
=============================================================================
