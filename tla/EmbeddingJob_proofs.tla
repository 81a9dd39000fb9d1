------------------------- MODULE EmbeddingJob_proofs -------------------------
(***************************************************************************)
(* Embedding jobs call the provider once, stay within max_in_flight, and   *)
(* agree with the vault, for any number of jobs, workers and reconcilers.  *)
(*                                                                         *)
(* The argument: a dispatch and a retirement exclude one another, since    *)
(* the dispatch needs every output receipted and the retirement needs the  *)
(* effect undispatched; so a key is withdrawn only when nothing was sent,  *)
(* and bound only under an acknowledged receipt.  The worker whose         *)
(* dispatch was committed is the only one on its way to a receipt, however *)
(* often the claim on the job changes hands.  And a dispatch within its    *)
(* deadline holds a slot no other holds, until its receipt.                *)
(***************************************************************************)
EXTENDS EmbeddingJob, TLAPS, FiniteSetTheorems

WorkerType == [at : WorkPoints, job : Jobs \cup {NoJob}, todo : SUBSET Nat]

ReconcilerType == [at : KeyPoints, job : Jobs \cup {NoJob}, output : Nat]

Withdrawn == {"abandoning", "abandoned"}

Resulting == {"prepared", "bound", "live"}

\* Between the dispatch and its receipt.
Sending == {"call", "failed", "seal", "commit"}

\* Before the dispatch nothing was called, answered or concluded.
Unsent(j) ==
    dispatch[j] = "none" =>
        /\ calls[j] = 0 /\ receipt[j] = "none"
        /\ status[j] \in {"absent", "requested", "cancelled", "failed_definite"}

\* A dispatched job is not retired, and its outputs had their keys.
Sent(j) ==
    dispatch[j] # "none" =>
        /\ status[j] \in {"running", "succeeded", "inconclusive_unknown"}
        /\ retirement[j] = "none"
        /\ \A o \in Outputs(j) : intent[j][o] \in {"receipted"} \cup Resulting

\* Results, and bound keys, belong to an acknowledged receipt.
Answered(j) ==
    /\ calls[j] \in {0, 1}
    /\ receipt[j] # "none" => calls[j] = 1
    /\ \A o \in Outputs(j) : intent[j][o] \in Resulting <=> receipt[j] = "acknowledged"
    /\ \A o \in Outputs(j) : vault[j][o] = "bound" => receipt[j] = "acknowledged"

\* Keys and intents are withdrawn by a retirement only.
Retiring(j) ==
    /\ \A o \in Outputs(j) : intent[j][o] \in Withdrawn <=> retirement[j] # "none"
    /\ \A o \in Outputs(j) : vault[j][o] \in {"fenced", "erased"} => retirement[j] # "none"

Ended(j) ==
    /\ status[j] \in {"cancelled", "failed_definite"} =>
           \A o \in Outputs(j) : intent[j][o] = "abandoned"
    /\ status[j] = "succeeded" => \A o \in Outputs(j) : intent[j][o] = "live"
    /\ status[j] = "inconclusive_unknown" => receipt[j] # "acknowledged"

Matching(j) ==
    \A o \in Outputs(j) :
        /\ intent[j][o] \in {"receipted", "prepared"} => vault[j][o] \in {"live", "bound"}
        /\ intent[j][o] \in {"bound", "live"} => vault[j][o] = "bound"
        /\ intent[j][o] = "abandoned" => vault[j][o] = "erased"

JobOK(j) == Unsent(j) /\ Sent(j) /\ Answered(j) /\ Retiring(j) /\ Ended(j) /\ Matching(j)

\* What a worker knows by the point it has come to.
WorkerKnows(x) ==
    /\ x.at # "idle" => x.job \in Jobs /\ x.todo \subseteq Outputs(x.job)
    /\ x.at \in Sending =>
           /\ dispatch[x.job] # "none" /\ receipt[x.job] = "none"
           /\ calls[x.job] = IF x.at = "call" THEN 0 ELSE 1
    /\ x.at \in {"bind", "record"} => x.todo # {} /\ receipt[x.job] = "acknowledged"
    /\ x.at = "record" => vault[x.job][Least(x.todo)] = "bound"

\* One worker at most is between the dispatch of a job and its receipt.
Alone ==
    \A v, w \in Workers :
        worker[v].at \in Sending /\ worker[w].at \in Sending /\ worker[v].job = worker[w].job
            => v = w

\* What a reconciler knows by the point it has come to.
ReconcilerKnows(x) ==
    /\ x.at # "idle" => x.job \in Jobs /\ x.output \in Outputs(x.job)
    /\ x.at \in {"retire", "retired"} => retirement[x.job] # "none"
    /\ x.at = "retired" => vault[x.job][x.output] = "erased"
    /\ x.at = "created" =>
           vault[x.job][x.output] \in {"live", "bound"} \/ retirement[x.job] # "none"

\* Whoever waits for an answer has a slot of its own.
Leased ==
    /\ \A j \in Jobs : dispatch[j] = "open" /\ receipt[j] = "none" => lease[j] # NoSlot
    /\ \A j \in Holders : lease[j] \notin others
    /\ \A i, j \in Holders : lease[i] = lease[j] => i = j

JobInv ==
    /\ TypeOK
    /\ \A j \in Jobs : JobOK(j)
    /\ \A w \in Workers : WorkerKnows(worker[w])
    /\ Alone
    /\ \A r \in Reconcilers : ReconcilerKnows(reconciler[r])
    /\ Leased

-----------------------------------------------------------------------------
(* Least elements, outputs and slots                                       *)

\* Least picks an element of a set of numbers that is not empty.
LEMMA LeastIn ==
  ASSUME NEW S, S \subseteq Nat, S # {}
  PROVE  Least(S) \in S
<1>1. PICK x \in S : \A y \in S : ~ (<<y, x>> \in OpToRel(<, Nat))
  BY NatLessThanWellFounded, WFMin, Zenon
<1>2. ASSUME NEW y \in S PROVE x <= y
  <2>1. x \in Nat /\ y \in Nat
    OBVIOUS
  <2>2. ~ (y < x)
    BY <1>1, <2>1, Zenon DEF OpToRel
  <2> QED BY <2>1, <2>2
<1> QED BY <1>2, Zenon DEF Least

\* A job has an output, and outputs are numbers.
LEMMA OutputsNotEmpty ==
  ASSUME NEW j \in Jobs
  PROVE  Outputs(j) \subseteq Nat /\ 0 \in Outputs(j) /\ j \in Nat /\ j # NoJob
BY JobsAssumption DEF Outputs, NoJob

\* A slot is not the absence of one.
LEMMA SlotsAreNumbers == Slots \subseteq Nat /\ NoSlot \notin Slots /\ IsFiniteSet(Slots)
                         /\ Cardinality(Slots) = MaxInFlight
<1>1. MaxInFlight \in Nat /\ MaxInFlight > 0
  BY AdmissionAssumption
<1>2. IsFiniteSet(0 .. MaxInFlight - 1) /\ Cardinality(0 .. MaxInFlight - 1) = MaxInFlight
  BY <1>1, FS_Interval
<1> QED BY <1>1, <1>2 DEF Slots, NoSlot

\* The lease numbers of the holders and the slots of the others fit into the slots.
LEMMA HoldersFit ==
  ASSUME TypeOK, Leased
  PROVE  /\ IsFiniteSet(Holders) /\ IsFiniteSet(others)
         /\ Cardinality(Holders) \in Nat /\ Cardinality(others) \in Nat
         /\ Cardinality(Holders) + Cardinality(others) <= MaxInFlight
<1> DEFINE f == [j \in Holders |-> lease[j]]
<1>1. others \subseteq Slots /\ IsFiniteSet(others)
  BY SlotsAreNumbers, FS_Subset DEF TypeOK
<1>2. f \in Injection(Holders, Slots \ others)
  <2>1. \A j \in Holders : lease[j] \in Slots \ others
    BY DEF TypeOK, Leased, Holders
  <2>2. \A i, j \in Holders : lease[i] = lease[j] => i = j
    BY DEF Leased
  <2> QED BY <2>1, <2>2 DEF Injection, IsInjective
<1>3. /\ IsFiniteSet(Slots \ others)
      /\ Cardinality(Slots \ others) = MaxInFlight - Cardinality(Slots \cap others)
  BY SlotsAreNumbers, FS_Difference
<1>4. Cardinality(Slots \ others) = MaxInFlight - Cardinality(others)
  <2>1. Slots \cap others = others
    BY <1>1
  <2> QED BY <2>1, <1>3, Zenon
<1>5. IsFiniteSet(Holders) /\ Cardinality(Holders) <= Cardinality(Slots \ others)
  <2> HIDE DEF f
  <2> QED BY <1>2, <1>3, FS_Injection
<1>6. Cardinality(Holders) \in Nat /\ Cardinality(others) \in Nat
  BY <1>1, <1>5, FS_CardinalityType
<1> QED BY <1>1, <1>4, <1>5, <1>6, AdmissionAssumption

\* An admission that is not full finds a slot.
LEMMA FreeSlot ==
  ASSUME TypeOK, Leased, ~Full
  PROVE  /\ Least(FreeSlots) \in Slots /\ Least(FreeSlots) \notin others
         /\ \A j \in Holders : lease[j] # Least(FreeSlots)
<1> DEFINE taken == {lease[j] : j \in Holders}
           f == [j \in Holders |-> lease[j]]
<1>1. /\ IsFiniteSet(Holders) /\ IsFiniteSet(others)
      /\ Cardinality(Holders) \in Nat /\ Cardinality(others) \in Nat
  BY HoldersFit
<1>2. IsFiniteSet(taken) /\ Cardinality(taken) <= Cardinality(Holders)
  <2>1. f \in Surjection(Holders, taken)
    BY DEF Surjection
  <2> HIDE DEF f, taken
  <2> QED BY <2>1, <1>1, FS_Surjection
<1>3. FreeSlots # {}
  <2>1. SUFFICES ASSUME FreeSlots = {} PROVE FALSE
    OBVIOUS
  <2>2. Slots \subseteq others \cup taken
    BY <2>1 DEF FreeSlots
  <2> HIDE DEF taken
  <2>3. /\ IsFiniteSet(others \cup taken)
        /\ Cardinality(others \cup taken) =
             Cardinality(others) + Cardinality(taken) - Cardinality(others \cap taken)
    BY <1>1, <1>2, FS_Union
  <2>4. Cardinality(others \cap taken) \in Nat /\ Cardinality(taken) \in Nat
    BY <1>1, <1>2, FS_Intersection, FS_CardinalityType
  <2>5. Cardinality(Slots) <= Cardinality(others \cup taken)
    BY <2>2, <2>3, FS_Subset
  <2>6. MaxInFlight \in Nat /\ ~(Cardinality(Holders) + Cardinality(others) >= MaxInFlight)
    BY AdmissionAssumption DEF Full, InFlight
  <2> QED BY <2>3, <2>4, <2>5, <2>6, <1>1, <1>2, SlotsAreNumbers
<1>4. Least(FreeSlots) \in FreeSlots
  <2>1. FreeSlots \subseteq Nat
    BY SlotsAreNumbers DEF FreeSlots
  <2> QED BY <1>3, <2>1, LeastIn
<1> QED BY <1>4 DEF FreeSlots

-----------------------------------------------------------------------------
(* How a step moves the process that takes it                              *)

\* The worker w moves to x, and no other worker moves.
Moves(w, x) ==
    /\ worker' \in [Workers -> WorkerType] /\ worker'[w] = x
    /\ \A v \in Workers : v # w => worker'[v] = worker[v]

\* The reconciler r moves to x, and no other reconciler moves.
MovesKey(r, x) ==
    /\ reconciler' \in [Reconcilers -> ReconcilerType] /\ reconciler'[r] = x
    /\ \A q \in Reconcilers : q # r => reconciler'[q] = reconciler[q]

\* Setting one worker moves it there.
LEMMA SetMoves ==
  ASSUME TypeOK, NEW w \in Workers, NEW x \in WorkerType, worker' = [worker EXCEPT ![w] = x]
  PROVE  Moves(w, x)
BY DEF Moves, TypeOK, WorkerType

\* Go moves one worker and keeps its job and what it has to do.
LEMMA GoMoves ==
  ASSUME TypeOK, NEW w \in Workers, NEW point \in WorkPoints, Go(w, point)
  PROVE  \E x \in WorkerType : /\ Moves(w, x)
                               /\ x.at = point /\ x.job = worker[w].job /\ x.todo = worker[w].todo
<1> DEFINE x == [worker[w] EXCEPT !.at = point]
<1>1. worker[w] \in WorkerType
  BY DEF TypeOK, WorkerType
<1>2. x \in WorkerType /\ x.at = point /\ x.job = worker[w].job /\ x.todo = worker[w].todo
  BY <1>1 DEF WorkerType
<1>3. worker' = [worker EXCEPT ![w] = x]
  BY DEF Go
<1> HIDE DEF x
<1>4. Moves(w, x)
  BY <1>2, <1>3, SetMoves
<1> QED BY <1>2, <1>4

\* A worker that gives up its work moves to the idle place.
LEMMA IdleMoves ==
  ASSUME TypeOK, NEW w \in Workers, worker' = [worker EXCEPT ![w] = IdleWorker]
  PROVE  \E x \in WorkerType : Moves(w, x) /\ x.at = "idle"
<1>1. IdleWorker \in WorkerType /\ IdleWorker.at = "idle"
  BY DEF IdleWorker, WorkerType, WorkPoints
<1> HIDE DEF IdleWorker
<1> QED BY <1>1, SetMoves

\* Setting one reconciler moves it there.
LEMMA SetMovesKey ==
  ASSUME TypeOK, NEW r \in Reconcilers, NEW x \in ReconcilerType,
         reconciler' = [reconciler EXCEPT ![r] = x]
  PROVE  MovesKey(r, x)
BY DEF MovesKey, TypeOK, ReconcilerType

\* Proceed moves one reconciler and keeps its job and output.
LEMMA ProceedMoves ==
  ASSUME TypeOK, NEW r \in Reconcilers, NEW point \in KeyPoints, Proceed(r, point)
  PROVE  \E x \in ReconcilerType : /\ MovesKey(r, x) /\ x.at = point
                                   /\ x.job = reconciler[r].job /\ x.output = reconciler[r].output
<1> DEFINE x == [reconciler[r] EXCEPT !.at = point]
<1>1. reconciler[r] \in ReconcilerType
  BY DEF TypeOK, ReconcilerType
<1>2. x \in ReconcilerType /\ x.at = point
      /\ x.job = reconciler[r].job /\ x.output = reconciler[r].output
  BY <1>1 DEF ReconcilerType
<1>3. reconciler' = [reconciler EXCEPT ![r] = x]
  BY DEF Proceed
<1> HIDE DEF x
<1>4. MovesKey(r, x)
  BY <1>2, <1>3, SetMovesKey
<1> QED BY <1>2, <1>4

\* StopReconciler makes one reconciler idle.
LEMMA StopMoves ==
  ASSUME TypeOK, NEW r \in Reconcilers, StopReconciler(r)
  PROVE  \E x \in ReconcilerType : MovesKey(r, x) /\ x.at = "idle"
<1>1. IdleReconciler \in ReconcilerType /\ IdleReconciler.at = "idle"
  BY DEF IdleReconciler, ReconcilerType, KeyPoints
<1>2. reconciler' = [reconciler EXCEPT ![r] = IdleReconciler]
  BY DEF StopReconciler
<1> HIDE DEF IdleReconciler
<1> QED BY <1>1, <1>2, SetMovesKey

-----------------------------------------------------------------------------
(* What a step must show                                                   *)

\* The rows, and the keys, of one job as they were.
RowKept(j) ==
    /\ status'[j] = status[j] /\ intent'[j] = intent[j] /\ vault'[j] = vault[j]
    /\ retirement'[j] = retirement[j] /\ dispatch'[j] = dispatch[j]
    /\ receipt'[j] = receipt[j] /\ calls'[j] = calls[j]

\* What others may rely on never goes back.
Forward(j) ==
    /\ dispatch[j] # "none" => dispatch'[j] # "none"
    /\ receipt[j] = "acknowledged" => receipt'[j] = "acknowledged"
    /\ retirement[j] # "none" => retirement'[j] # "none"
    /\ \A o \in Outputs(j) :
           /\ vault[j][o] \in {"bound", "erased"} => vault'[j][o] = vault[j][o]
           /\ vault[j][o] \in {"live", "bound"} =>
                  vault'[j][o] \in {"live", "bound"} \/ retirement'[j] # "none"

\* A job whose rows stay stays in order.
LEMMA RowKeeps ==
  ASSUME NEW j \in Jobs, JobOK(j), RowKept(j)
  PROVE  JobOK(j)' /\ Forward(j)
<1> USE DEF RowKept
<1>1. Unsent(j)'
  BY DEF JobOK, Unsent
<1>2. Sent(j)'
  BY DEF JobOK, Sent
<1>3. Answered(j)'
  BY DEF JobOK, Answered
<1>4. Retiring(j)'
  BY DEF JobOK, Retiring
<1>5. Ended(j)'
  BY DEF JobOK, Ended
<1>6. Matching(j)'
  BY DEF JobOK, Matching
<1> QED BY <1>1, <1>2, <1>3, <1>4, <1>5, <1>6 DEF JobOK, Forward

\* What a worker knows outlives the steps of others.
LEMMA WorkerStays ==
  ASSUME TypeOK, NEW v \in Workers, WorkerKnows(worker[v]), worker'[v] = worker[v],
         \A j \in Jobs : Forward(j),
         worker[v].at \in Sending => /\ receipt'[worker[v].job] = receipt[worker[v].job]
                                     /\ calls'[worker[v].job] = calls[worker[v].job]
  PROVE  WorkerKnows(worker[v])'
<1>1. PICK x : x = worker[v]
  OBVIOUS
<1>2. x \in WorkerType
  BY <1>1 DEF TypeOK, WorkerType
<1>3. CASE x.at = "idle"
  BY <1>1, <1>3 DEF WorkerKnows, Sending
<1>4. CASE x.at # "idle"
  <2>1. x.job \in Jobs /\ x.todo \subseteq Outputs(x.job) /\ Forward(x.job)
    BY <1>1, <1>4 DEF WorkerKnows
  <2>2. x.at \in {"bind", "record"} => Least(x.todo) \in Outputs(x.job)
    <3>1. Outputs(x.job) \subseteq Nat
      BY <2>1, OutputsNotEmpty
    <3>2. x.at \in {"bind", "record"} => x.todo # {}
      BY <1>1 DEF WorkerKnows
    <3> QED BY <2>1, <3>1, <3>2, LeastIn
  <2>3. x.at \in {"bind", "record"} => x.todo # {} /\ receipt'[x.job] = "acknowledged"
    BY <1>1, <2>1 DEF WorkerKnows, Forward
  <2>4. x.at = "record" => vault'[x.job][Least(x.todo)] = "bound"
    BY <1>1, <2>1, <2>2 DEF WorkerKnows, Forward
  <2>5. x.at \in Sending =>
           /\ dispatch'[x.job] # "none" /\ receipt'[x.job] = "none"
           /\ calls'[x.job] = IF x.at = "call" THEN 0 ELSE 1
    BY <1>1, <2>1 DEF WorkerKnows, Forward
  <2> QED BY <1>1, <2>1, <2>3, <2>4, <2>5 DEF WorkerKnows
<1> QED BY <1>3, <1>4

\* So does what a reconciler knows.
LEMMA ReconcilerStays ==
  ASSUME TypeOK, NEW r \in Reconcilers, ReconcilerKnows(reconciler[r]),
         reconciler'[r] = reconciler[r], \A j \in Jobs : Forward(j)
  PROVE  ReconcilerKnows(reconciler[r])'
<1>1. PICK x : x = reconciler[r]
  OBVIOUS
<1>2. CASE x.at = "idle"
  BY <1>1, <1>2 DEF ReconcilerKnows
<1>3. CASE x.at # "idle"
  <2>1. x.job \in Jobs /\ x.output \in Outputs(x.job) /\ Forward(x.job)
    BY <1>1, <1>3 DEF ReconcilerKnows
  <2> QED BY <1>1, <2>1 DEF ReconcilerKnows, Forward
<1> QED BY <1>2, <1>3

\* A worker's move keeps the workers in order, when it knows what it should and
\* sets out alone.
LEMMA WorkersKeep ==
  ASSUME JobInv, NEW w \in Workers, NEW x, Moves(w, x), \A j \in Jobs : Forward(j),
         WorkerKnows(worker[w])',
         \A v \in Workers : v # w /\ worker[v].at \in Sending =>
             /\ receipt'[worker[v].job] = receipt[worker[v].job]
             /\ calls'[worker[v].job] = calls[worker[v].job],
         x.at \in Sending => \/ worker[w].at \in Sending /\ x.job = worker[w].job
                             \/ dispatch[x.job] = "none"
  PROVE  (\A v \in Workers : WorkerKnows(worker[v]))' /\ Alone'
<1> USE DEF JobInv
<1>1. ASSUME NEW v \in Workers PROVE WorkerKnows(worker[v])'
  <2>1. CASE v = w
    BY <2>1
  <2>2. CASE v # w
    BY <2>2, WorkerStays DEF Moves
  <2> QED BY <2>1, <2>2
<1>2. Alone'
  <2> SUFFICES ASSUME NEW u \in Workers, NEW v \in Workers,
                      worker'[u].at \in Sending, worker'[v].at \in Sending,
                      worker'[u].job = worker'[v].job, u # v
               PROVE  FALSE
    BY DEF Alone
  <2>1. \A q \in Workers : q # w /\ worker[q].at \in Sending => dispatch[worker[q].job] # "none"
    BY DEF WorkerKnows
  <2> QED BY <2>1 DEF Moves, Alone
<1> QED BY <1>1, <1>2

\* Reconcilers stay in order when none moves.
LEMMA ReconcilersKeep ==
  ASSUME JobInv, UNCHANGED reconciler, \A j \in Jobs : Forward(j)
  PROVE  (\A r \in Reconcilers : ReconcilerKnows(reconciler[r]))'
BY ReconcilerStays DEF JobInv

\* The leases stay in order when nobody's changes.
LEMMA LeasesKeep ==
  ASSUME Leased, UNCHANGED <<dispatch, receipt, lease, others>>
  PROVE  Leased'
BY DEF Leased, Holders

\* Releasing the expired leases keeps the rest.
LEMMA KeptLeasesKeep ==
  ASSUME TypeOK, Leased, lease' = KeptLeases, UNCHANGED <<dispatch, receipt, others>>
  PROVE  Leased' /\ lease' \in [Jobs -> Slots \cup {NoSlot}]
<1>1. lease' \in [Jobs -> Slots \cup {NoSlot}]
  BY DEF KeptLeases, TypeOK
<1>2. \A j \in Jobs : lease'[j] = IF j \in Holders THEN lease[j] ELSE NoSlot
  BY DEF KeptLeases
<1>3. Holders' = Holders /\ Holders \subseteq Jobs
  BY <1>2 DEF Holders
<1>4. \A j \in Jobs : dispatch'[j] = "open" /\ receipt'[j] = "none" => lease'[j] # NoSlot
  BY <1>2 DEF Leased, Holders
<1>5. \A j \in Holders' : lease'[j] \notin others'
  BY <1>2, <1>3 DEF Leased
<1>6. \A i, j \in Holders' : lease'[i] = lease'[j] => i = j
  BY <1>2, <1>3 DEF Leased
<1> QED BY <1>1, <1>4, <1>5, <1>6 DEF Leased

\* A step of a worker that leaves the jobs and their keys alone.
LEMMA QuietWorker ==
  ASSUME JobInv, NEW w \in Workers, NEW x, Moves(w, x), WorkerKnows(x),
         x.at \in Sending => worker[w].at \in Sending /\ x.job = worker[w].job,
         UNCHANGED <<status, intent, retirement, receipt, dispatch, vault, calls, reconciler>>,
         TypeOK', Leased'
  PROVE  JobInv'
<1> USE DEF JobInv
<1>1. ASSUME NEW j \in Jobs PROVE JobOK(j)' /\ Forward(j)
  BY RowKeeps DEF RowKept
<1>2. WorkerKnows(worker[w])'
  BY DEF WorkerKnows, Moves
<1>3. (\A v \in Workers : WorkerKnows(worker[v]))' /\ Alone'
  BY <1>1, <1>2, WorkersKeep
<1>4. (\A r \in Reconcilers : ReconcilerKnows(reconciler[r]))'
  BY <1>1, ReconcilersKeep
<1> QED BY <1>1, <1>3, <1>4

-----------------------------------------------------------------------------
(* Steps of a worker that leave the jobs alone                             *)

\* A worker that only moves keeps the types.
LEMMA MoveTyped ==
  ASSUME TypeOK, NEW w \in Workers, NEW x, Moves(w, x),
         UNCHANGED <<jobVars, admissionVars, vault, calls, reconciler>>,
         claim' \in [Jobs -> Workers \cup {Nobody}]
  PROVE  TypeOK'
BY DEF TypeOK, Moves, WorkerType, jobVars, admissionVars

\* A step that only moves its worker, to a place that asks for no knowledge the
\* worker does not have, keeps the invariant.
LEMMA PlainMove ==
  ASSUME JobInv, NEW w \in Workers, NEW x, Moves(w, x), WorkerKnows(x),
         x.at \in Sending => worker[w].at \in Sending /\ x.job = worker[w].job,
         UNCHANGED <<jobVars, admissionVars, vault, calls, reconciler>>,
         claim' \in [Jobs -> Workers \cup {Nobody}]
  PROVE  JobInv'
<1>1. TypeOK'
  BY MoveTyped DEF JobInv
<1>2. Leased'
  BY LeasesKeep DEF JobInv, jobVars, admissionVars
<1> QED BY <1>1, <1>2, QuietWorker DEF jobVars, admissionVars

\* Such a place is the end of an execution, or one where nothing is known yet.
Harmless == {"recover", "dispatch", "load", "publish", "finish"}

\* Going to such a place keeps the invariant.
LEMMA HarmlessGo ==
  ASSUME JobInv, NEW w \in Workers, worker[w].at # "idle", NEW point \in Harmless, Go(w, point),
         UNCHANGED <<jobVars, admissionVars, vault, calls, reconciler, claim>>
  PROVE  JobInv'
<1>1. point \in WorkPoints /\ point # "idle" /\ point \notin Sending
      /\ point \notin {"bind", "record"}
  BY DEF WorkPoints, Harmless, Sending
<1>2. PICK x \in WorkerType : /\ Moves(w, x)
                              /\ x.at = point /\ x.job = worker[w].job /\ x.todo = worker[w].todo
  BY <1>1, GoMoves DEF JobInv
<1>3. WorkerKnows(x)
  <2>1. worker[w].job \in Jobs /\ worker[w].todo \subseteq Outputs(worker[w].job)
    BY DEF JobInv, WorkerKnows
  <2> QED BY <1>1, <1>2, <2>1 DEF WorkerKnows
<1>4. claim' \in [Jobs -> Workers \cup {Nobody}]
  BY DEF JobInv, TypeOK
<1> QED BY <1>1, <1>2, <1>3, <1>4, PlainMove

\* Becoming idle keeps the invariant.
LEMMA GivingUp ==
  ASSUME JobInv, NEW w \in Workers, worker' = [worker EXCEPT ![w] = IdleWorker],
         UNCHANGED <<jobVars, admissionVars, vault, calls, reconciler>>,
         claim' \in [Jobs -> Workers \cup {Nobody}]
  PROVE  JobInv'
<1>1. PICK x \in WorkerType : Moves(w, x) /\ x.at = "idle"
  BY IdleMoves DEF JobInv
<1>2. WorkerKnows(x) /\ x.at \notin Sending
  BY <1>1 DEF WorkerKnows, Sending
<1> QED BY <1>1, <1>2, PlainMove

\* Claiming, finishing and crashing keep the invariant.
LEMMA ClaimsKeep ==
  ASSUME JobInv, NEW w \in Workers, ClaimWork(w) \/ Finish(w) \/ Crash(w)
  PROVE  JobInv'
<1>0. claim \in [Jobs -> Workers \cup {Nobody}]
  BY DEF JobInv, TypeOK
<1>1. CASE ClaimWork(w)
  <2> DEFINE j == Least(Claimable)
             x == [at |-> "recover", job |-> j, todo |-> {}]
  <2>1. j \in Jobs
    <3>1. Claimable \subseteq Nat /\ Claimable # {} /\ Claimable \subseteq Jobs
      BY <1>1, JobsAssumption DEF Claimable, ClaimWork
    <3> QED BY <3>1, LeastIn
  <2>2. /\ claim' = [claim EXCEPT ![j] = w]
        /\ worker' = [worker EXCEPT ![w] = x]
        /\ UNCHANGED <<jobVars, admissionVars, vault, calls, reconciler>>
    BY <1>1 DEF ClaimWork
  <2> HIDE DEF j
  <2>3. x \in WorkerType /\ WorkerKnows(x) /\ x.at \notin Sending
    BY <2>1 DEF WorkerType, WorkPoints, WorkerKnows, Sending
  <2>4. claim' \in [Jobs -> Workers \cup {Nobody}]
    BY <1>0, <2>1, <2>2
  <2> HIDE DEF x
  <2>5. Moves(w, x)
    BY <2>2, <2>3, SetMoves DEF JobInv
  <2> QED BY <2>2, <2>3, <2>4, <2>5, PlainMove
<1>2. CASE Finish(w)
  <2> DEFINE c == [claim EXCEPT ![worker[w].job] = IF @ = w THEN Nobody ELSE @]
  <2>1. c \in [Jobs -> Workers \cup {Nobody}]
    BY <1>0
  <2>2. claim' = c
    BY <1>2 DEF Finish
  <2> QED BY <1>2, <2>1, <2>2, GivingUp DEF Finish
<1>3. CASE Crash(w)
  BY <1>0, <1>3, GivingUp DEF Crash
<1> QED BY <1>1, <1>2, <1>3

\* The decisions of the recovery that change nothing keep the invariant.
LEMMA RecoveryKeeps ==
  ASSUME JobInv, NEW w \in Workers,
         ResumeReserved(w) \/ ResumeResultPrepared(w) \/ RecoveryEnds(w) \/ DispatchRefused(w)
  PROVE  JobInv'
<1>1. worker[w].at # "idle" /\ \E point \in Harmless : Go(w, point)
  BY DEF ResumeReserved, ResumeResultPrepared, RecoveryEnds, DispatchRefused, Harmless
<1>2. UNCHANGED <<jobVars, admissionVars, vault, calls, reconciler, claim>>
  BY DEF ResumeReserved, ResumeResultPrepared, RecoveryEnds, DispatchRefused
<1> QED BY <1>1, <1>2, HarmlessGo

\* The denial of a dispatch, its wait and its throttling leave everything else as it is.
LEMMA AdmissionKeeps ==
  ASSUME JobInv, NEW w \in Workers, DispatchDenied(w) \/ DispatchWaits(w) \/ DispatchThrottled(w)
  PROVE  JobInv'
<1>1. worker[w].at = "dispatch" /\ Go(w, "finish") /\ "finish" \in WorkPoints
  BY DEF DispatchDenied, DispatchWaits, DispatchThrottled, WorkPoints
<1>2. PICK x \in WorkerType : /\ Moves(w, x)
                              /\ x.at = "finish" /\ x.job = worker[w].job /\ x.todo = worker[w].todo
  BY <1>1, GoMoves DEF JobInv
<1>3. worker[w].job \in Jobs /\ worker[w].todo \subseteq Outputs(worker[w].job)
  BY <1>1 DEF JobInv, WorkerKnows
<1>4. WorkerKnows(x) /\ x.at \notin Sending
  BY <1>2, <1>3 DEF WorkerKnows, Sending
<1>5. UNCHANGED <<status, intent, retirement, receipt, dispatch, vault, calls, reconciler, window,
                  others, claim>>
  BY DEF DispatchDenied, DispatchWaits, DispatchThrottled, jobVars, admissionVars
<1>6. /\ denied' \in [Jobs -> BOOLEAN]
      /\ wait' \in [Jobs -> WaitStates]
      /\ lease' = lease \/ lease' = KeptLeases
  <2>1. CASE DispatchDenied(w)
    <3>1. /\ denied' = [denied EXCEPT ![worker[w].job] = TRUE] /\ wait' = wait /\ lease' = lease
      BY <2>1 DEF DispatchDenied, admissionVars
    <3>2. denied \in [Jobs -> BOOLEAN] /\ wait \in [Jobs -> WaitStates]
      BY DEF JobInv, TypeOK
    <3> QED BY <3>1, <3>2, <1>3
  <2>2. CASE DispatchWaits(w) \/ DispatchThrottled(w)
    <3>1. /\ \E state \in WaitStates : wait' = [wait EXCEPT ![worker[w].job] = state]
          /\ denied' = denied /\ lease' = KeptLeases
      BY <2>2 DEF DispatchWaits, DispatchThrottled, WaitStates, jobVars
    <3>2. denied \in [Jobs -> BOOLEAN] /\ wait \in [Jobs -> WaitStates]
      BY DEF JobInv, TypeOK
    <3> QED BY <3>1, <3>2, <1>3
  <2> QED BY <2>1, <2>2
<1>7. Leased' /\ lease' \in [Jobs -> Slots \cup {NoSlot}]
  BY <1>5, <1>6, LeasesKeep, KeptLeasesKeep DEF JobInv, TypeOK
<1>8. TypeOK'
  BY <1>2, <1>5, <1>6, <1>7 DEF JobInv, TypeOK, Moves, WorkerType
<1> QED BY <1>2, <1>4, <1>5, <1>7, <1>8, QuietWorker

\* Sealing, and a commit that is refused, keep the invariant.
LEMMA SealKeeps ==
  ASSUME JobInv, NEW w \in Workers, Seal(w) \/ CommitEnds(w)
  PROVE  JobInv'
<1>1. /\ worker[w].at \in {"seal", "commit"}
      /\ \E point \in {"finish", "load", "commit"} :
            Go(w, point) /\ (point = "commit" => worker[w].at = "seal")
      /\ UNCHANGED <<jobVars, admissionVars, vault, calls, reconciler, claim>>
  BY DEF Seal, CommitEnds
<1>2. PICK point \in {"finish", "load", "commit"} :
            Go(w, point) /\ (point = "commit" => worker[w].at = "seal")
  BY <1>1
<1>3. CASE point = "commit"
  <2>1. PICK x \in WorkerType : /\ Moves(w, x)
                                /\ x.at = "commit" /\ x.job = worker[w].job
                                /\ x.todo = worker[w].todo
    BY <1>2, <1>3, GoMoves DEF JobInv, WorkPoints
  <2>2. WorkerKnows(x) /\ worker[w].at \in Sending
    BY <1>2, <1>3, <2>1 DEF JobInv, WorkerKnows, Sending
  <2>3. claim' \in [Jobs -> Workers \cup {Nobody}]
    BY <1>1 DEF JobInv, TypeOK
  <2> QED BY <1>1, <2>1, <2>2, <2>3, PlainMove
<1>4. CASE point # "commit"
  BY <1>1, <1>2, <1>4, HarmlessGo DEF Harmless
<1> QED BY <1>3, <1>4

\* Loading the progress keeps the invariant: an output that is to be bound is prepared.
LEMMA LoadKeeps ==
  ASSUME JobInv, NEW w \in Workers, LoadProgress(w)
  PROVE  JobInv'
<1> DEFINE j == worker[w].job
           point == CASE status[j] # "running" -> "finish"
                      [] Unbound(j) # {} -> "bind"
                      [] OTHER -> "publish"
           x == [worker[w] EXCEPT !.todo = Unbound(j), !.at = point]
<1>1. worker[w].at = "load" /\ j \in Jobs /\ worker[w] \in WorkerType
  BY DEF LoadProgress, JobInv, WorkerKnows, TypeOK, WorkerType
<1>2. /\ worker' = [worker EXCEPT ![w].todo = Unbound(j), ![w].at = point]
      /\ UNCHANGED <<jobVars, admissionVars, vault, calls, reconciler, claim>>
  BY DEF LoadProgress
<1>3. Unbound(j) \subseteq Outputs(j) /\ Unbound(j) \subseteq Nat
  BY <1>1, OutputsNotEmpty DEF Unbound
<1>4. point \in {"finish", "bind", "publish"} /\ (point = "bind" => Unbound(j) # {})
  OBVIOUS
<1>5. Unbound(j) # {} => receipt[j] = "acknowledged"
  BY <1>1 DEF JobInv, JobOK, Answered, Unbound, Resulting
<1> HIDE DEF point
<1>6. x \in WorkerType /\ x.at = point /\ x.job = j /\ x.todo = Unbound(j)
  BY <1>1, <1>3, <1>4 DEF WorkerType, WorkPoints
<1>7. Moves(w, x)
  <2>1. worker' = [worker EXCEPT ![w] = x]
    BY <1>2
  <2> HIDE DEF x
  <2> QED BY <1>6, <2>1, SetMoves DEF JobInv
<1> HIDE DEF x
<1>8. WorkerKnows(x) /\ x.at \notin Sending
  BY <1>1, <1>3, <1>4, <1>5, <1>6 DEF WorkerKnows, Sending
<1>9. claim' \in [Jobs -> Workers \cup {Nobody}]
  BY <1>2 DEF JobInv, TypeOK
<1> QED BY <1>2, <1>7, <1>8, <1>9, PlainMove

-----------------------------------------------------------------------------
(* Steps of a worker that change its job                                   *)

\* A worker changes the rows of its job: what has to be shown.
LEMMA WorkerChangesJob ==
  ASSUME JobInv, NEW w \in Workers, NEW x, Moves(w, x), NEW j \in Jobs, worker[w].job = j,
         \A i \in Jobs : i # j => RowKept(i),
         JobOK(j)', Forward(j), WorkerKnows(worker[w])', TypeOK', Leased', UNCHANGED reconciler,
         worker[w].at \in Sending \/ (receipt'[j] = receipt[j] /\ calls'[j] = calls[j]),
         x.at \in Sending => x.job = j /\ (worker[w].at \in Sending \/ dispatch[j] = "none")
  PROVE  JobInv'
<1>1. ASSUME NEW i \in Jobs PROVE JobOK(i)' /\ Forward(i)
  BY RowKeeps DEF JobInv
<1>2. ASSUME NEW v \in Workers, v # w, worker[v].at \in Sending
      PROVE  /\ receipt'[worker[v].job] = receipt[worker[v].job]
             /\ calls'[worker[v].job] = calls[worker[v].job]
  <2>1. worker[v].job \in Jobs
    BY <1>2 DEF JobInv, WorkerKnows, Sending
  <2>2. CASE worker[v].job # j
    BY <2>1, <2>2 DEF RowKept
  <2>3. CASE worker[v].job = j
    BY <1>2, <2>3 DEF JobInv, Alone
  <2> QED BY <2>2, <2>3
<1>3. (\A v \in Workers : WorkerKnows(worker[v]))' /\ Alone'
  BY <1>1, <1>2, WorkersKeep
<1>4. (\A r \in Reconcilers : ReconcilerKnows(reconciler[r]))'
  BY <1>1, ReconcilersKeep
<1> QED BY <1>1, <1>3, <1>4 DEF JobInv

\* Adopting a lost dispatch keeps the invariant: there is no answer to it.
LEMMA AdoptedUnknownKeeps ==
  ASSUME JobInv, NEW w \in Workers, AdoptedUnknown(w)
  PROVE  JobInv'
<1>1. worker[w].at = "recover" /\ Go(w, "finish")
  BY DEF AdoptedUnknown
<1>2. PICK x \in WorkerType : /\ Moves(w, x)
                              /\ x.at = "finish" /\ x.job = worker[w].job /\ x.todo = worker[w].todo
  BY <1>1, GoMoves DEF JobInv, WorkPoints
<1>3. PICK j \in Jobs : j = worker[w].job /\ worker[w].todo \subseteq Outputs(j)
  BY <1>1 DEF JobInv, WorkerKnows
<1>4. /\ status' = [status EXCEPT ![j] = "inconclusive_unknown"]
      /\ dispatch' = [dispatch EXCEPT ![j] = "adopted"]
      /\ UNCHANGED <<intent, retirement, denied, receipt, admissionVars, vault, claim, calls,
                     reconciler>>
      /\ Recovery(j) = "adopt"
  BY <1>3 DEF AdoptedUnknown
<1>5. dispatch[j] = "overdue" /\ receipt[j] = "none"
  BY <1>4 DEF Recovery
<1>6. TypeOK'
  BY <1>2, <1>4 DEF JobInv, TypeOK, Moves, WorkerType, admissionVars, Statuses
<1>7. status'[j] = "inconclusive_unknown" /\ dispatch'[j] = "adopted"
  BY <1>4 DEF JobInv, TypeOK
<1>8. JobOK(j)' /\ Forward(j)
  BY <1>4, <1>5, <1>7 DEF JobInv, JobOK, Unsent, Sent, Answered, Retiring, Ended, Matching, Forward
<1>9. \A i \in Jobs : i # j => RowKept(i)
  BY <1>4 DEF RowKept, JobInv, TypeOK
<1>10. WorkerKnows(worker[w])'
  BY <1>2, <1>3 DEF Moves, WorkerKnows, Sending
<1>11. Leased'
  <2>1. Holders' = Holders
    BY <1>4, <1>5, <1>7 DEF Holders, admissionVars, JobInv, TypeOK
  <2>2. \A i \in Jobs : dispatch'[i] = "open" => dispatch[i] = "open"
    BY <1>4, <1>7 DEF JobInv, TypeOK
  <2> QED BY <1>4, <2>1, <2>2 DEF Leased, JobInv, admissionVars
<1> QED BY <1>2, <1>3, <1>4, <1>6, <1>8, <1>9, <1>10, <1>11, WorkerChangesJob DEF Sending

\* A dispatch takes a free slot and starts alone: nobody could be past it before.
LEMMA DispatchPreparedKeeps ==
  ASSUME JobInv, NEW w \in Workers, DispatchPrepared(w)
  PROVE  JobInv'
<1>1. worker[w].at = "dispatch" /\ Go(w, "call")
  BY DEF DispatchPrepared
<1>2. PICK x \in WorkerType : /\ Moves(w, x)
                              /\ x.at = "call" /\ x.job = worker[w].job /\ x.todo = worker[w].todo
  BY <1>1, GoMoves DEF JobInv, WorkPoints
<1>3. PICK j \in Jobs : j = worker[w].job /\ worker[w].todo \subseteq Outputs(j)
  BY <1>1 DEF JobInv, WorkerKnows
<1>4. PICK slot : slot = Least(FreeSlots)
  OBVIOUS
<1>5. /\ status' = [status EXCEPT ![j] = "running"]
      /\ dispatch' = [dispatch EXCEPT ![j] = "open"]
      /\ lease' = [KeptLeases EXCEPT ![j] = slot]
      /\ window' = window + 1
      /\ UNCHANGED <<intent, retirement, denied, receipt, wait, others, vault, claim, calls,
                     reconciler>>
      /\ Gate(j) /\ Fresh(j) /\ ~Full
  BY <1>3, <1>4 DEF DispatchPrepared
<1>6. slot \in Slots /\ slot \notin others /\ \A i \in Holders : lease[i] # slot
  BY <1>4, <1>5, FreeSlot DEF JobInv
<1>7. dispatch[j] = "none" /\ status[j] \in Active /\ \A o \in Outputs(j) : intent[j][o] = "receipted"
  BY <1>5 DEF Gate, Fresh, AllOutputs
<1>8. lease' \in [Jobs -> Slots \cup {NoSlot}] /\ lease'[j] = slot
      /\ \A i \in Jobs : i # j => lease'[i] = IF i \in Holders THEN lease[i] ELSE NoSlot
  BY <1>5, <1>6 DEF KeptLeases, JobInv, TypeOK
<1>9. window' \in 0 .. WindowLimit
  BY <1>5, AdmissionAssumption DEF Full, JobInv, TypeOK
<1>10. TypeOK'
  BY <1>2, <1>5, <1>8, <1>9 DEF JobInv, TypeOK, Moves, WorkerType, Statuses
<1>11. status'[j] = "running" /\ dispatch'[j] = "open" /\ \A i \in Jobs : i # j =>
         status'[i] = status[i] /\ dispatch'[i] = dispatch[i]
  BY <1>5 DEF JobInv, TypeOK
<1>12. calls[j] = 0 /\ receipt[j] = "none"
  BY <1>7 DEF JobInv, JobOK, Unsent
<1>13. JobOK(j)' /\ Forward(j)
  <2>0. retirement[j] = "none"
    <3>1. 0 \in Outputs(j)
      BY OutputsNotEmpty
    <3> QED BY <1>7, <3>1 DEF JobInv, JobOK, Retiring, Withdrawn
  <2> QED BY <1>5, <1>7, <1>11, <1>12, <2>0
          DEF JobInv, JobOK, Unsent, Sent, Answered, Retiring, Ended, Matching, Forward
<1>14. \A i \in Jobs : i # j => RowKept(i)
  BY <1>5, <1>11 DEF RowKept
<1>15. WorkerKnows(worker[w])'
  BY <1>2, <1>3, <1>5, <1>11, <1>12 DEF Moves, WorkerKnows, Sending
<1>16. Leased'
  <2>1. j \notin Holders /\ slot # NoSlot
    BY <1>6, <1>7, SlotsAreNumbers DEF Holders
  <2>2. Holders' = Holders \cup {j} /\ Holders \subseteq Jobs
    BY <1>8, <1>11, <2>1 DEF Holders
  <2>3. \A i \in Jobs : dispatch'[i] = "open" /\ receipt'[i] = "none" => lease'[i] # NoSlot
    BY <1>5, <1>8, <1>11, <2>1 DEF JobInv, Leased, Holders
  <2>4. \A i \in Holders' : lease'[i] \notin others'
    BY <1>5, <1>6, <1>8, <2>2 DEF JobInv, Leased
  <2>5. \A i, k \in Holders' : lease'[i] = lease'[k] => i = k
    BY <1>6, <1>8, <2>2 DEF JobInv, Leased
  <2> QED BY <2>3, <2>4, <2>5 DEF Leased
<1> QED BY <1>2, <1>3, <1>5, <1>7, <1>10, <1>13, <1>14, <1>15, <1>16, WorkerChangesJob DEF Sending

\* The call is the only one for its job.
LEMMA CallProviderKeeps ==
  ASSUME JobInv, NEW w \in Workers, CallProvider(w)
  PROVE  JobInv'
<1>1. PICK point \in {"seal", "failed"} : worker[w].at = "call" /\ Go(w, point)
  BY DEF CallProvider
<1>2. PICK x \in WorkerType : /\ Moves(w, x)
                              /\ x.at = point /\ x.job = worker[w].job /\ x.todo = worker[w].todo
  BY <1>1, GoMoves DEF JobInv, WorkPoints
<1>3. PICK j \in Jobs : j = worker[w].job /\ worker[w].todo \subseteq Outputs(j)
  BY <1>1 DEF JobInv, WorkerKnows
<1>4. /\ calls' = [calls EXCEPT ![j] = calls[j] + 1]
      /\ UNCHANGED <<jobVars, admissionVars, vault, claim, reconciler>>
  BY <1>3 DEF CallProvider
<1>5. calls[j] = 0 /\ receipt[j] = "none" /\ dispatch[j] # "none"
  BY <1>1, <1>3 DEF JobInv, WorkerKnows, Sending
<1>6. calls'[j] = 1 /\ calls' \in [Jobs -> Nat] /\ \A i \in Jobs : i # j => calls'[i] = calls[i]
  BY <1>4, <1>5 DEF JobInv, TypeOK
<1>7. TypeOK'
  BY <1>2, <1>4, <1>6 DEF JobInv, TypeOK, Moves, WorkerType, jobVars, admissionVars
<1>8. JobOK(j)' /\ Forward(j)
  BY <1>4, <1>5, <1>6
     DEF JobInv, JobOK, Unsent, Sent, Answered, Retiring, Ended, Matching, Forward, jobVars
<1>9. \A i \in Jobs : i # j => RowKept(i)
  BY <1>4, <1>6 DEF RowKept, jobVars
<1>10. WorkerKnows(worker[w])'
  BY <1>1, <1>2, <1>3, <1>4, <1>5, <1>6 DEF Moves, WorkerKnows, Sending, jobVars
<1>11. Leased'
  BY <1>4, LeasesKeep DEF JobInv, jobVars, admissionVars
<1>12. worker[w].at \in Sending /\ x.job = j
  BY <1>1, <1>2, <1>3 DEF Sending
<1> QED BY <1>2, <1>3, <1>4, <1>7, <1>8, <1>9, <1>10, <1>11, <1>12, WorkerChangesJob

\* A job that is answered gives its slot back.
LEMMA AnsweredReleases ==
  ASSUME TypeOK, Leased, NEW j \in Jobs, lease' = [lease EXCEPT ![j] = NoSlot],
         receipt'[j] # "none", \A i \in Jobs : i # j => receipt'[i] = receipt[i],
         UNCHANGED <<dispatch, others>>
  PROVE  Leased' /\ lease' \in [Jobs -> Slots \cup {NoSlot}]
<1>1. /\ lease' \in [Jobs -> Slots \cup {NoSlot}] /\ lease'[j] = NoSlot
      /\ \A i \in Jobs : i # j => lease'[i] = lease[i]
  BY DEF TypeOK
<1>2. Holders' = Holders \ {j} /\ Holders \subseteq Jobs
  BY <1>1 DEF Holders
<1> QED BY <1>1, <1>2 DEF Leased

\* A failure is recorded by the one who called.
LEMMA RecordFailureKeeps ==
  ASSUME JobInv, NEW w \in Workers, RecordFailure(w)
  PROVE  JobInv'
<1>1. worker[w].at = "failed" /\ Go(w, "finish")
  BY DEF RecordFailure
<1>2. PICK x \in WorkerType : /\ Moves(w, x)
                              /\ x.at = "finish" /\ x.job = worker[w].job /\ x.todo = worker[w].todo
  BY <1>1, GoMoves DEF JobInv, WorkPoints
<1>3. PICK j \in Jobs : j = worker[w].job /\ worker[w].todo \subseteq Outputs(j)
  BY <1>1 DEF JobInv, WorkerKnows
<1>4. /\ receipt' = [receipt EXCEPT ![j] = "failed"]
      /\ lease' = [lease EXCEPT ![j] = NoSlot]
      /\ UNCHANGED <<status, intent, retirement, denied, dispatch, wait, window, others, vault,
                     claim, calls, reconciler>>
  BY <1>3 DEF RecordFailure
<1>5. calls[j] = 1 /\ receipt[j] = "none" /\ dispatch[j] # "none"
  BY <1>1, <1>3 DEF JobInv, WorkerKnows, Sending
<1>6. receipt'[j] = "failed" /\ \A i \in Jobs : i # j => receipt'[i] = receipt[i]
  BY <1>4 DEF JobInv, TypeOK
<1>7. Leased' /\ lease' \in [Jobs -> Slots \cup {NoSlot}]
  BY <1>4, <1>6, AnsweredReleases DEF JobInv
<1>8. TypeOK'
  BY <1>2, <1>4, <1>7 DEF JobInv, TypeOK, Moves, WorkerType
<1>9. JobOK(j)' /\ Forward(j)
  BY <1>4, <1>5, <1>6 DEF JobInv, JobOK, Unsent, Sent, Answered, Retiring, Ended, Matching, Forward
<1>10. \A i \in Jobs : i # j => RowKept(i)
  BY <1>4, <1>6 DEF RowKept
<1>11. WorkerKnows(worker[w])'
  BY <1>2, <1>3 DEF Moves, WorkerKnows, Sending
<1>12. worker[w].at \in Sending /\ x.at \notin Sending
  BY <1>1, <1>2 DEF Sending
<1> QED BY <1>2, <1>3, <1>4, <1>7, <1>8, <1>9, <1>10, <1>11, <1>12, WorkerChangesJob

\* A result is committed by the one who called, under a receipt of its own.
LEMMA CommitPreparedKeeps ==
  ASSUME JobInv, NEW w \in Workers, CommitPrepared(w)
  PROVE  JobInv'
<1>1. worker[w].at = "commit" /\ Go(w, "load")
  BY DEF CommitPrepared
<1>2. PICK x \in WorkerType : /\ Moves(w, x)
                              /\ x.at = "load" /\ x.job = worker[w].job /\ x.todo = worker[w].todo
  BY <1>1, GoMoves DEF JobInv, WorkPoints
<1>3. PICK j \in Jobs : j = worker[w].job /\ worker[w].todo \subseteq Outputs(j)
  BY <1>1 DEF JobInv, WorkerKnows
<1>4. /\ receipt' = [receipt EXCEPT ![j] = "acknowledged"]
      /\ intent' = [intent EXCEPT ![j] = [o \in Outputs(j) |-> "prepared"]]
      /\ lease' = [lease EXCEPT ![j] = NoSlot]
      /\ UNCHANGED <<status, retirement, denied, dispatch, wait, window, others, vault, claim,
                     calls, reconciler>>
      /\ status[j] = "running" /\ \A o \in Outputs(j) : intent[j][o] = "receipted"
  BY <1>3 DEF CommitPrepared, SetIntents, CanPrepare, AllOutputs
<1>5. calls[j] = 1 /\ receipt[j] = "none" /\ dispatch[j] # "none"
  BY <1>1, <1>3 DEF JobInv, WorkerKnows, Sending
<1>6. receipt'[j] = "acknowledged" /\ \A i \in Jobs : i # j => receipt'[i] = receipt[i]
  BY <1>4 DEF JobInv, TypeOK
<1>7. /\ DOMAIN intent' = Jobs /\ intent'[j] \in [Outputs(j) -> IntentStates]
      /\ \A o \in Outputs(j) : intent'[j][o] = "prepared"
      /\ \A i \in Jobs : i # j => intent'[i] = intent[i]
  BY <1>4 DEF JobInv, TypeOK, IntentStates
<1>8. Leased' /\ lease' \in [Jobs -> Slots \cup {NoSlot}]
  BY <1>4, <1>6, AnsweredReleases DEF JobInv
<1>9. TypeOK'
  BY <1>2, <1>4, <1>7, <1>8 DEF JobInv, TypeOK, Moves, WorkerType
<1>10. JobOK(j)' /\ Forward(j)
  BY <1>4, <1>5, <1>6, <1>7
     DEF JobInv, JobOK, Unsent, Sent, Answered, Retiring, Ended, Matching, Forward, Resulting,
         Withdrawn
<1>11. \A i \in Jobs : i # j => RowKept(i)
  BY <1>4, <1>6, <1>7 DEF RowKept
<1>12. WorkerKnows(worker[w])'
  BY <1>2, <1>3 DEF Moves, WorkerKnows, Sending
<1>13. worker[w].at \in Sending /\ x.at \notin Sending
  BY <1>1, <1>2 DEF Sending
<1> QED BY <1>2, <1>3, <1>4, <1>8, <1>9, <1>10, <1>11, <1>12, <1>13, WorkerChangesJob

\* The output a worker is to bind next is one of its job's.
LEMMA NextOutput ==
  ASSUME JobInv, NEW w \in Workers, worker[w].at \in {"bind", "record"}
  PROVE  \E j \in Jobs : /\ j = worker[w].job /\ Least(worker[w].todo) \in Outputs(j)
                         /\ worker[w].todo \subseteq Outputs(j)
                         /\ Least(worker[w].todo) \in worker[w].todo
                         /\ receipt[j] = "acknowledged"
<1>1. /\ worker[w].job \in Jobs /\ worker[w].todo \subseteq Outputs(worker[w].job)
      /\ worker[w].todo # {} /\ receipt[worker[w].job] = "acknowledged"
  BY DEF JobInv, WorkerKnows
<1>2. Outputs(worker[w].job) \subseteq Nat
  BY <1>1, OutputsNotEmpty
<1>3. Least(worker[w].todo) \in worker[w].todo
  BY <1>1, <1>2, LeastIn
<1> QED BY <1>1, <1>3

\* Binding a key leaves it bound, under the receipt the worker knows of.
LEMMA BindOutputKeeps ==
  ASSUME JobInv, NEW w \in Workers, BindOutput(w)
  PROVE  JobInv'
<1>1. worker[w].at = "bind"
  BY DEF BindOutput
<1>2. PICK j \in Jobs : /\ j = worker[w].job /\ Least(worker[w].todo) \in Outputs(j)
                        /\ worker[w].todo \subseteq Outputs(j)
                        /\ Least(worker[w].todo) \in worker[w].todo
                        /\ receipt[j] = "acknowledged"
  BY <1>1, NextOutput
<1>3. PICK o \in Outputs(j) : o = Least(worker[w].todo)
  BY <1>2
<1>4. CASE vault[j][o] \in {"live", "bound"}
  <2>1. /\ vault' = [vault EXCEPT ![j][o] = "bound"] /\ Go(w, "record")
        /\ UNCHANGED <<jobVars, admissionVars, claim, calls, reconciler>>
    BY <1>2, <1>3, <1>4 DEF BindOutput
  <2>2. PICK x \in WorkerType : /\ Moves(w, x)
                                /\ x.at = "record" /\ x.job = worker[w].job
                                /\ x.todo = worker[w].todo
    BY <2>1, GoMoves DEF JobInv, WorkPoints
  <2>3. /\ DOMAIN vault' = Jobs /\ vault'[j] \in [Outputs(j) -> KeyStates]
        /\ vault'[j][o] = "bound"
        /\ \A p \in Outputs(j) : p # o => vault'[j][p] = vault[j][p]
        /\ \A i \in Jobs : i # j => vault'[i] = vault[i]
    BY <2>1 DEF JobInv, TypeOK, KeyStates
  <2>4. TypeOK'
    BY <2>1, <2>2, <2>3 DEF JobInv, TypeOK, Moves, WorkerType, jobVars, admissionVars
  <2>5. JobOK(j)' /\ Forward(j)
    <3>1. intent[j][o] \in Resulting
      BY <1>2 DEF JobInv, JobOK, Answered
    <3> QED BY <1>2, <1>4, <2>1, <2>3, <3>1
            DEF JobInv, JobOK, Unsent, Sent, Answered, Retiring, Ended, Matching, Forward,
                Resulting, Withdrawn, jobVars
  <2>6. \A i \in Jobs : i # j => RowKept(i)
    BY <2>1, <2>3 DEF RowKept, jobVars
  <2>7. WorkerKnows(worker[w])'
    BY <1>2, <1>3, <2>1, <2>2, <2>3 DEF Moves, WorkerKnows, Sending, jobVars
  <2>8. Leased'
    BY <2>1, LeasesKeep DEF JobInv, jobVars, admissionVars
  <2>9. x.at \notin Sending /\ receipt'[j] = receipt[j] /\ calls'[j] = calls[j]
    BY <2>1, <2>2 DEF Sending, jobVars
  <2> QED BY <1>2, <2>1, <2>2, <2>4, <2>5, <2>6, <2>7, <2>8, <2>9, WorkerChangesJob
<1>5. CASE vault[j][o] \notin {"live", "bound"}
  <2>1. Go(w, "finish") /\ UNCHANGED <<jobVars, admissionVars, vault, calls, reconciler, claim>>
    BY <1>2, <1>3, <1>5 DEF BindOutput
  <2> QED BY <1>1, <2>1, HarmlessGo DEF Harmless
<1> QED BY <1>4, <1>5

\* A binding is recorded of a key that is bound.
LEMMA RecordBindingKeeps ==
  ASSUME JobInv, NEW w \in Workers, RecordBinding(w)
  PROVE  JobInv'
<1>1. worker[w].at = "record" /\ worker[w] \in WorkerType
  BY DEF RecordBinding, JobInv, TypeOK, WorkerType
<1>2. PICK j \in Jobs : /\ j = worker[w].job /\ Least(worker[w].todo) \in Outputs(j)
                        /\ worker[w].todo \subseteq Outputs(j)
                        /\ Least(worker[w].todo) \in worker[w].todo
                        /\ receipt[j] = "acknowledged"
  BY <1>1, NextOutput
<1>3. PICK o \in Outputs(j) : o = Least(worker[w].todo)
  BY <1>2
<1>4. vault[j][o] = "bound"
  BY <1>1, <1>2, <1>3 DEF JobInv, WorkerKnows
<1> DEFINE left == worker[w].todo \ {o}
           point == IF left = {} THEN "load" ELSE "bind"
           x == [worker[w] EXCEPT !.todo = left, !.at = point]
           new == IF intent[j][o] = "prepared" THEN "bound" ELSE intent[j][o]
<1>5. /\ intent' = [intent EXCEPT ![j][o] = new]
      /\ worker' = [worker EXCEPT ![w].todo = left, ![w].at = point]
      /\ UNCHANGED <<status, retirement, denied, receipt, dispatch, admissionVars, vault, claim,
                     calls, reconciler>>
  BY <1>2, <1>3 DEF RecordBinding
<1>6. point \in {"load", "bind"} /\ (point = "bind" => left # {})
      /\ left \subseteq Outputs(j) /\ left \subseteq Nat
  BY <1>2, OutputsNotEmpty
<1> HIDE DEF point, left
<1>7. x \in WorkerType /\ x.at = point /\ x.job = j /\ x.todo = left
  BY <1>1, <1>2, <1>6 DEF WorkerType, WorkPoints
<1>8. Moves(w, x)
  <2>1. worker' = [worker EXCEPT ![w] = x]
    BY <1>5
  <2> HIDE DEF x
  <2> QED BY <1>7, <2>1, SetMoves DEF JobInv
<1> HIDE DEF x
<1>9. new \in IntentStates /\ intent[j][o] \in Resulting /\ new \in Resulting
      /\ (new \in {"bound", "live"}) /\ (intent[j][o] = "live" => new = "live")
  <2>1. intent[j][o] \in Resulting
    BY <1>2 DEF JobInv, JobOK, Answered
  <2> QED BY <2>1 DEF Resulting, IntentStates
<1> HIDE DEF new
<1>10. /\ DOMAIN intent' = Jobs /\ intent'[j] \in [Outputs(j) -> IntentStates]
       /\ intent'[j][o] = new
       /\ \A p \in Outputs(j) : p # o => intent'[j][p] = intent[j][p]
       /\ \A i \in Jobs : i # j => intent'[i] = intent[i]
  BY <1>5, <1>9 DEF JobInv, TypeOK
<1>11. TypeOK'
  BY <1>5, <1>8, <1>10 DEF JobInv, TypeOK, Moves, WorkerType, admissionVars
<1>12. JobOK(j)' /\ Forward(j)
  <2>1. status[j] \notin {"cancelled", "failed_definite"}
    BY <1>2, <1>9 DEF JobInv, JobOK, Ended, Resulting
  <2>2. \A p \in Outputs(j) :
          /\ intent'[j][p] \in Resulting <=> intent[j][p] \in Resulting
          /\ intent'[j][p] \in Withdrawn <=> intent[j][p] \in Withdrawn
          /\ intent[j][p] = "live" => intent'[j][p] = "live"
          /\ intent'[j][p] = "abandoned" => intent[j][p] = "abandoned"
          /\ intent'[j][p] \in {"receipted", "prepared"} => intent'[j][p] = intent[j][p]
          /\ intent'[j][p] \in {"bound", "live"} => vault[j][p] = "bound"
          /\ intent'[j][p] \in {"receipted"} \cup Resulting
               <=> intent[j][p] \in {"receipted"} \cup Resulting
    BY <1>4, <1>9, <1>10 DEF JobInv, JobOK, Matching, Resulting, Withdrawn
  <2>3. Unsent(j)' /\ Answered(j)' /\ Forward(j)
    BY <1>5, <2>2 DEF JobInv, JobOK, Unsent, Answered, Forward
  <2>4. Sent(j)'
    BY <1>5, <2>2 DEF JobInv, JobOK, Sent
  <2>5. Retiring(j)'
    BY <1>5, <2>2 DEF JobInv, JobOK, Retiring
  <2>6. Ended(j)' /\ Matching(j)'
    BY <1>5, <2>1, <2>2 DEF JobInv, JobOK, Ended, Matching
  <2> QED BY <2>3, <2>4, <2>5, <2>6 DEF JobOK
<1>13. \A i \in Jobs : i # j => RowKept(i)
  BY <1>5, <1>10 DEF RowKept
<1>14. WorkerKnows(worker[w])'
  BY <1>2, <1>5, <1>6, <1>7, <1>8 DEF Moves, WorkerKnows, Sending
<1>15. Leased'
  BY <1>5, LeasesKeep DEF JobInv, admissionVars
<1>16. x.at \notin Sending /\ receipt'[j] = receipt[j] /\ calls'[j] = calls[j]
  BY <1>5, <1>6, <1>7 DEF Sending
<1> QED BY <1>2, <1>5, <1>8, <1>11, <1>12, <1>13, <1>14, <1>15, <1>16, WorkerChangesJob

\* A publication finds every key bound.
LEMMA PublishKeeps ==
  ASSUME JobInv, NEW w \in Workers, Publish(w)
  PROVE  JobInv'
<1>1. worker[w].at = "publish" /\ Go(w, "finish")
  BY DEF Publish
<1>2. PICK x \in WorkerType : /\ Moves(w, x)
                              /\ x.at = "finish" /\ x.job = worker[w].job /\ x.todo = worker[w].todo
  BY <1>1, GoMoves DEF JobInv, WorkPoints
<1>3. PICK j \in Jobs : j = worker[w].job /\ worker[w].todo \subseteq Outputs(j)
  BY <1>1 DEF JobInv, WorkerKnows
<1>4. CASE CanPublish(j)
  <2>1. /\ status' = [status EXCEPT ![j] = "succeeded"]
        /\ intent' = [intent EXCEPT ![j] = [o \in Outputs(j) |-> "live"]]
        /\ UNCHANGED <<retirement, denied, receipt, dispatch, admissionVars, vault, claim, calls,
                       reconciler>>
        /\ status[j] = "running"
        /\ \A o \in Outputs(j) : intent[j][o] = "bound" /\ vault[j][o] = "bound"
    BY <1>3, <1>4 DEF Publish, SetIntents, CanPublish
  <2>2. /\ DOMAIN intent' = Jobs /\ intent'[j] \in [Outputs(j) -> IntentStates]
        /\ \A o \in Outputs(j) : intent'[j][o] = "live"
        /\ \A i \in Jobs : i # j => intent'[i] = intent[i]
    BY <2>1 DEF JobInv, TypeOK, IntentStates
  <2>3. status'[j] = "succeeded" /\ \A i \in Jobs : i # j => status'[i] = status[i]
    BY <2>1 DEF JobInv, TypeOK
  <2>4. TypeOK'
    BY <1>2, <2>1, <2>2 DEF JobInv, TypeOK, Moves, WorkerType, admissionVars, Statuses
  <2>5. dispatch[j] # "none"
    BY <2>1 DEF JobInv, JobOK, Unsent
  <2>6. JobOK(j)' /\ Forward(j)
    BY <2>1, <2>2, <2>3, <2>5
       DEF JobInv, JobOK, Unsent, Sent, Answered, Retiring, Ended, Matching, Forward, Resulting,
           Withdrawn
  <2>7. \A i \in Jobs : i # j => RowKept(i)
    BY <2>1, <2>2, <2>3 DEF RowKept
  <2>8. WorkerKnows(worker[w])'
    BY <1>2, <1>3 DEF Moves, WorkerKnows, Sending
  <2>9. Leased'
    BY <2>1, LeasesKeep DEF JobInv, admissionVars
  <2>10. x.at \notin Sending /\ receipt'[j] = receipt[j] /\ calls'[j] = calls[j]
    BY <1>2, <2>1 DEF Sending
  <2> QED BY <1>2, <1>3, <2>1, <2>4, <2>6, <2>7, <2>8, <2>9, <2>10, WorkerChangesJob
<1>5. CASE ~CanPublish(j)
  <2>1. UNCHANGED <<jobVars, admissionVars, vault, calls, reconciler, claim>>
    BY <1>3, <1>5 DEF Publish, jobVars
  <2> QED BY <1>1, <2>1, HarmlessGo DEF Harmless
<1> QED BY <1>4, <1>5

-----------------------------------------------------------------------------
(* Steps of the reconcilers                                                *)

\* Workers stay in order when none moves and no receipt or call is made.
LEMMA WorkersRest ==
  ASSUME JobInv, UNCHANGED <<worker, receipt, calls>>, \A j \in Jobs : Forward(j)
  PROVE  (\A w \in Workers : WorkerKnows(worker[w]))' /\ Alone'
<1>1. ASSUME NEW w \in Workers PROVE WorkerKnows(worker[w])'
  BY WorkerStays DEF JobInv
<1> QED BY <1>1 DEF JobInv, Alone

\* A reconciler changes the key or the intent of an output: what has to be shown.
LEMMA ReconcilerChangesJob ==
  ASSUME JobInv, NEW r \in Reconcilers, NEW x, MovesKey(r, x),
         \A j \in Jobs : JobOK(j)' /\ Forward(j),
         ReconcilerKnows(reconciler[r])', TypeOK',
         UNCHANGED <<worker, dispatch, receipt, calls, lease, others>>
  PROVE  JobInv'
<1>1. ASSUME NEW q \in Reconcilers PROVE ReconcilerKnows(reconciler[q])'
  <2>1. CASE q = r
    BY <2>1
  <2>2. CASE q # r
    BY <2>2, ReconcilerStays DEF JobInv, MovesKey
  <2> QED BY <2>1, <2>2
<1>2. (\A w \in Workers : WorkerKnows(worker[w]))' /\ Alone'
  BY WorkersRest
<1>3. Leased'
  BY LeasesKeep DEF JobInv
<1> QED BY <1>1, <1>2, <1>3 DEF JobInv

\* A reconciler that only moves keeps the invariant.
LEMMA QuietReconciler ==
  ASSUME JobInv, NEW r \in Reconcilers, NEW x, MovesKey(r, x), ReconcilerKnows(x),
         UNCHANGED <<jobVars, admissionVars, vault, claim, calls, worker>>
  PROVE  JobInv'
<1>1. TypeOK'
  BY DEF JobInv, TypeOK, MovesKey, ReconcilerType, jobVars, admissionVars
<1>2. ASSUME NEW j \in Jobs PROVE JobOK(j)' /\ Forward(j)
  BY RowKeeps DEF JobInv, RowKept, jobVars
<1>3. ReconcilerKnows(reconciler[r])'
  BY DEF ReconcilerKnows, MovesKey, jobVars
<1> QED BY <1>1, <1>2, <1>3, ReconcilerChangesJob DEF jobVars, admissionVars

\* A reconciler that stops keeps the invariant.
LEMMA StoppedReconciler ==
  ASSUME JobInv, NEW r \in Reconcilers, StopReconciler(r),
         UNCHANGED <<jobVars, admissionVars, vault, claim, calls, worker>>
  PROVE  JobInv'
<1>1. PICK x \in ReconcilerType : MovesKey(r, x) /\ x.at = "idle"
  BY StopMoves DEF JobInv
<1>2. ReconcilerKnows(x)
  BY <1>1 DEF ReconcilerKnows
<1> QED BY <1>1, <1>2, QuietReconciler

\* Claiming an output keeps the invariant: it is retired under an authority only.
LEMMA ClaimKeyKeeps ==
  ASSUME JobInv, NEW r \in Reconcilers, ClaimKey(r)
  PROVE  JobInv'
<1> DEFINE j == Least(Waiting)
           o == Least(Reconcilable(j))
           point == IF WantsKey(j, o) THEN "create" ELSE "retire"
           x == [at |-> point, job |-> j, output |-> o]
<1>1. /\ Waiting # {} /\ reconciler' = [reconciler EXCEPT ![r] = x]
      /\ UNCHANGED <<jobVars, admissionVars, vault, claim, calls, worker>>
  BY DEF ClaimKey
<1>2. j \in Waiting
  <2>1. Waiting \subseteq Nat
    BY JobsAssumption DEF Waiting
  <2> QED BY <1>1, <2>1, LeastIn
<1>3. j \in Jobs /\ Reconcilable(j) # {}
  BY <1>2, Zenon DEF Waiting
<1> HIDE DEF j
<1>4. o \in Reconcilable(j)
  <2>1. Reconcilable(j) \subseteq Nat
    BY <1>3, OutputsNotEmpty DEF Reconcilable
  <2> QED BY <1>3, <2>1, LeastIn
<1>5. o \in Outputs(j) /\ (WantsKey(j, o) \/ WantsErasure(j, o))
  BY <1>4, Zenon DEF Reconcilable
<1> HIDE DEF o
<1>6. point \in {"create", "retire"} /\ (point = "retire" => retirement[j] # "none")
  BY <1>5 DEF WantsErasure
<1> HIDE DEF point
<1>7. x \in ReconcilerType /\ ReconcilerKnows(x)
  BY <1>3, <1>5, <1>6, OutputsNotEmpty DEF ReconcilerType, KeyPoints, ReconcilerKnows
<1> HIDE DEF x
<1>8. MovesKey(r, x)
  BY <1>1, <1>7, SetMovesKey DEF JobInv
<1> QED BY <1>1, <1>7, <1>8, QuietReconciler

\* The job and the output of a reconciler at work.
LEMMA AtWork ==
  ASSUME JobInv, NEW r \in Reconcilers, reconciler[r].at # "idle"
  PROVE  \E j \in Jobs : \E o \in Outputs(j) : j = reconciler[r].job /\ o = reconciler[r].output
BY DEF JobInv, ReconcilerKnows

\* One key of one job set to a new state.
SetKey(j, o, state) ==
    /\ DOMAIN vault' = Jobs /\ vault'[j] \in [Outputs(j) -> KeyStates]
    /\ vault'[j][o] = state
    /\ \A p \in Outputs(j) : p # o => vault'[j][p] = vault[j][p]
    /\ \A i \in Jobs : i # j => vault'[i] = vault[i]

\* Setting a key in the vault sets no other.
LEMMA VaultSet ==
  ASSUME TypeOK, NEW j \in Jobs, NEW o \in Outputs(j), NEW state \in KeyStates,
         vault' = [vault EXCEPT ![j][o] = state]
  PROVE  SetKey(j, o, state)
BY DEF TypeOK, SetKey

\* A change of one key keeps the jobs in order, when the new state contradicts nothing.
LEMMA KeyChanges ==
  ASSUME JobInv, NEW j \in Jobs, NEW o \in Outputs(j), NEW state \in KeyStates,
         SetKey(j, o, state), UNCHANGED <<jobVars, admissionVars, claim, calls, worker>>,
         \/ state = vault[j][o]
         \/ vault[j][o] = "absent" /\ state = "live"
         \/ retirement[j] # "none" /\ vault[j][o] # "bound" /\ state = "erased"
         \/ retirement[j] # "none" /\ vault[j][o] \in {"absent", "live"} /\ state = "fenced"
  PROVE  \A i \in Jobs : JobOK(i)' /\ Forward(i)
<1>1. ASSUME NEW i \in Jobs, i # j PROVE JobOK(i)' /\ Forward(i)
  BY <1>1, RowKeeps DEF JobInv, SetKey, RowKept, jobVars
<1>2. JobOK(j)
  BY DEF JobInv
<1>3. Forward(j)
  BY DEF Forward, SetKey, jobVars
<1>4. Unsent(j)' /\ Sent(j)' /\ Ended(j)'
  BY <1>2 DEF JobOK, Unsent, Sent, Ended, jobVars
<1>5. Answered(j)' /\ Retiring(j)'
  BY <1>2 DEF JobOK, Answered, Retiring, SetKey, jobVars
<1>6. Matching(j)'
  BY <1>2 DEF JobOK, Retiring, Matching, SetKey, jobVars, Withdrawn
<1> QED BY <1>1, <1>3, <1>4, <1>5, <1>6 DEF JobOK

\* A key is made where there was none, and is there when its reconciler goes on.
LEMMA VaultCreateKeeps ==
  ASSUME JobInv, NEW r \in Reconcilers, VaultCreate(r)
  PROVE  JobInv'
<1>1. reconciler[r].at = "create" /\ UNCHANGED <<jobVars, admissionVars, claim, calls, worker>>
  BY DEF VaultCreate
<1>2. PICK j \in Jobs : \E o \in Outputs(j) : j = reconciler[r].job /\ o = reconciler[r].output
  BY <1>1, AtWork
<1>3. PICK o \in Outputs(j) : j = reconciler[r].job /\ o = reconciler[r].output
  BY <1>2
<1>4. CASE vault[j][o] \in {"absent", "live", "bound"}
  <2> DEFINE state == IF vault[j][o] = "absent" THEN "live" ELSE vault[j][o]
  <2>1. vault' = [vault EXCEPT ![j][o] = state] /\ Proceed(r, "created")
    BY <1>3, <1>4 DEF VaultCreate
  <2>2. state \in KeyStates /\ state \in {"live", "bound"}
        /\ (state = vault[j][o] \/ (vault[j][o] = "absent" /\ state = "live"))
    BY <1>4 DEF KeyStates
  <2> HIDE DEF state
  <2>3. SetKey(j, o, state)
    BY <2>1, <2>2, VaultSet DEF JobInv
  <2>4. \A i \in Jobs : JobOK(i)' /\ Forward(i)
    BY <1>1, <2>2, <2>3, KeyChanges
  <2>5. PICK x \in ReconcilerType : /\ MovesKey(r, x) /\ x.at = "created"
                                    /\ x.job = reconciler[r].job
                                    /\ x.output = reconciler[r].output
    BY <2>1, ProceedMoves DEF JobInv, KeyPoints
  <2>6. ReconcilerKnows(reconciler[r])'
    BY <1>3, <2>2, <2>3, <2>5 DEF ReconcilerKnows, MovesKey, SetKey
  <2>7. TypeOK'
    BY <1>1, <2>3, <2>5 DEF JobInv, TypeOK, SetKey, MovesKey, ReconcilerType, jobVars, admissionVars
  <2> QED BY <1>1, <2>4, <2>5, <2>6, <2>7, ReconcilerChangesJob DEF jobVars, admissionVars
<1>5. CASE vault[j][o] \notin {"absent", "live", "bound"}
  <2>1. UNCHANGED vault /\ StopReconciler(r)
    BY <1>3, <1>5 DEF VaultCreate
  <2> QED BY <1>1, <2>1, StoppedReconciler
<1> QED BY <1>4, <1>5

\* A key is withdrawn under an authority, and never a bound one.
LEMMA VaultRetireKeeps ==
  ASSUME JobInv, NEW r \in Reconcilers, VaultRetire(r)
  PROVE  JobInv'
<1>1. reconciler[r].at = "retire" /\ UNCHANGED <<jobVars, admissionVars, claim, calls, worker>>
  BY DEF VaultRetire
<1>2. PICK j \in Jobs : \E o \in Outputs(j) : j = reconciler[r].job /\ o = reconciler[r].output
  BY <1>1, AtWork
<1>3. PICK o \in Outputs(j) : j = reconciler[r].job /\ o = reconciler[r].output
  BY <1>2
<1>4. retirement[j] # "none"
  BY <1>1, <1>3 DEF JobInv, ReconcilerKnows
<1>5. CASE /\ vault[j][o] # "bound"
           /\ vault' = [vault EXCEPT ![j][o] = "erased"]
           /\ Proceed(r, "retired")
  <2>1. SetKey(j, o, "erased")
    BY <1>5, VaultSet DEF JobInv, KeyStates
  <2>2. \A i \in Jobs : JobOK(i)' /\ Forward(i)
    BY <1>1, <1>4, <1>5, <2>1, KeyChanges DEF KeyStates
  <2>3. PICK x \in ReconcilerType : /\ MovesKey(r, x) /\ x.at = "retired"
                                    /\ x.job = reconciler[r].job
                                    /\ x.output = reconciler[r].output
    BY <1>5, ProceedMoves DEF JobInv, KeyPoints
  <2>4. ReconcilerKnows(reconciler[r])'
    BY <1>1, <1>3, <1>4, <2>1, <2>3 DEF ReconcilerKnows, MovesKey, SetKey, jobVars
  <2>5. TypeOK'
    BY <1>1, <2>1, <2>3 DEF JobInv, TypeOK, SetKey, MovesKey, ReconcilerType, jobVars, admissionVars
  <2> QED BY <1>1, <2>2, <2>3, <2>4, <2>5, ReconcilerChangesJob DEF jobVars, admissionVars
<1>6. CASE /\ vault[j][o] \in {"absent", "live"}
           /\ vault' = [vault EXCEPT ![j][o] = "fenced"]
           /\ StopReconciler(r)
  <2>1. SetKey(j, o, "fenced")
    BY <1>6, VaultSet DEF JobInv, KeyStates
  <2>2. \A i \in Jobs : JobOK(i)' /\ Forward(i)
    BY <1>1, <1>4, <1>6, <2>1, KeyChanges DEF KeyStates
  <2>3. PICK x \in ReconcilerType : MovesKey(r, x) /\ x.at = "idle"
    BY <1>6, StopMoves DEF JobInv
  <2>4. ReconcilerKnows(reconciler[r])'
    BY <2>3 DEF ReconcilerKnows, MovesKey
  <2>5. TypeOK'
    BY <1>1, <2>1, <2>3 DEF JobInv, TypeOK, SetKey, MovesKey, ReconcilerType, jobVars, admissionVars
  <2> QED BY <1>1, <2>2, <2>3, <2>4, <2>5, ReconcilerChangesJob DEF jobVars, admissionVars
<1> QED BY <1>3, <1>5, <1>6 DEF VaultRetire

\* One output's intent set to a new state.
SetIntent(j, o, state) ==
    /\ DOMAIN intent' = Jobs /\ intent'[j] \in [Outputs(j) -> IntentStates]
    /\ intent'[j][o] = state
    /\ \A p \in Outputs(j) : p # o => intent'[j][p] = intent[j][p]
    /\ \A i \in Jobs : i # j => intent'[i] = intent[i]

\* What a reconciler records of an output keeps the invariant, when it is true of the key.
LEMMA IntentRecorded ==
  ASSUME JobInv, NEW r \in Reconcilers, NEW j \in Jobs, NEW o \in Outputs(j),
         NEW state \in IntentStates, intent' = [intent EXCEPT ![j][o] = state],
         StopReconciler(r),
         UNCHANGED <<status, retirement, denied, receipt, dispatch, admissionVars, vault, claim,
                     calls, worker>>,
         \/ state = intent[j][o]
         \/ /\ intent[j][o] = "reserved" /\ state = "receipted" /\ retirement[j] = "none"
            /\ vault[j][o] \in {"live", "bound"}
         \/ intent[j][o] = "abandoning" /\ state = "abandoned" /\ vault[j][o] = "erased"
  PROVE  JobInv'
<1>1. SetIntent(j, o, state)
  BY DEF JobInv, TypeOK, SetIntent
<1>2. PICK x \in ReconcilerType : MovesKey(r, x) /\ x.at = "idle"
  BY StopMoves DEF JobInv
<1>3. ReconcilerKnows(reconciler[r])'
  BY <1>2 DEF ReconcilerKnows, MovesKey
<1>4. TypeOK'
  BY <1>1, <1>2 DEF JobInv, TypeOK, SetIntent, MovesKey, ReconcilerType, admissionVars
<1>5. ASSUME NEW i \in Jobs, i # j PROVE JobOK(i)' /\ Forward(i)
  BY <1>1, <1>5, RowKeeps DEF JobInv, SetIntent, RowKept
<1>6. JobOK(j)
  BY DEF JobInv
<1>7. Forward(j) /\ Unsent(j)'
  BY <1>6 DEF JobOK, Forward, Unsent
<1>8. Sent(j)'
  BY <1>1, <1>6 DEF JobOK, Sent, SetIntent, Resulting
<1>9. Answered(j)' /\ Retiring(j)'
  BY <1>1, <1>6 DEF JobOK, Answered, Retiring, SetIntent, Resulting, Withdrawn
<1>10. Ended(j)'
  BY <1>1, <1>6 DEF JobOK, Ended, SetIntent
<1>11. Matching(j)'
  BY <1>1, <1>6 DEF JobOK, Matching, SetIntent
<1>12. \A i \in Jobs : JobOK(i)' /\ Forward(i)
  BY <1>5, <1>7, <1>8, <1>9, <1>10, <1>11 DEF JobOK
<1> QED BY <1>2, <1>3, <1>4, <1>12, ReconcilerChangesJob DEF admissionVars

\* A receipt is recorded of a key that is there, unless a retirement came first.
LEMMA RecordReceiptKeeps ==
  ASSUME JobInv, NEW r \in Reconcilers, RecordReceipt(r)
  PROVE  JobInv'
<1>1. reconciler[r].at = "created"
  BY DEF RecordReceipt
<1>2. PICK j \in Jobs : \E o \in Outputs(j) : j = reconciler[r].job /\ o = reconciler[r].output
  BY <1>1, AtWork
<1>3. PICK o \in Outputs(j) : j = reconciler[r].job /\ o = reconciler[r].output
  BY <1>2
<1> DEFINE state == IF intent[j][o] = "reserved" /\ retirement[j] = "none"
                    THEN "receipted" ELSE intent[j][o]
<1>4. /\ intent' = [intent EXCEPT ![j][o] = state] /\ StopReconciler(r)
      /\ UNCHANGED <<status, retirement, denied, receipt, dispatch, admissionVars, vault, claim,
                     calls, worker>>
  BY <1>3 DEF RecordReceipt
<1>5. vault[j][o] \in {"live", "bound"} \/ retirement[j] # "none"
  BY <1>1, <1>3 DEF JobInv, ReconcilerKnows
<1>6. /\ state \in IntentStates
      /\ \/ state = intent[j][o]
         \/ /\ intent[j][o] = "reserved" /\ state = "receipted" /\ retirement[j] = "none"
            /\ vault[j][o] \in {"live", "bound"}
  BY <1>5 DEF JobInv, TypeOK, IntentStates
<1> HIDE DEF state
<1> QED BY <1>4, <1>6, IntentRecorded

\* An erasure is recorded of a key that is erased.
LEMMA RecordRetirementKeeps ==
  ASSUME JobInv, NEW r \in Reconcilers, RecordRetirement(r)
  PROVE  JobInv'
<1>1. reconciler[r].at = "retired"
  BY DEF RecordRetirement
<1>2. PICK j \in Jobs : \E o \in Outputs(j) : j = reconciler[r].job /\ o = reconciler[r].output
  BY <1>1, AtWork
<1>3. PICK o \in Outputs(j) : j = reconciler[r].job /\ o = reconciler[r].output
  BY <1>2
<1> DEFINE state == IF intent[j][o] = "abandoning" THEN "abandoned" ELSE intent[j][o]
<1>4. /\ intent' = [intent EXCEPT ![j][o] = state] /\ StopReconciler(r)
      /\ UNCHANGED <<status, retirement, denied, receipt, dispatch, admissionVars, vault, claim,
                     calls, worker>>
  BY <1>3 DEF RecordRetirement
<1>5. vault[j][o] = "erased"
  BY <1>1, <1>3 DEF JobInv, ReconcilerKnows
<1>6. /\ state \in IntentStates
      /\ state = intent[j][o] \/ (intent[j][o] = "abandoning" /\ state = "abandoned")
  BY DEF JobInv, TypeOK, IntentStates
<1> HIDE DEF state
<1> QED BY <1>4, <1>5, <1>6, IntentRecorded

-----------------------------------------------------------------------------
(* Steps of a job, of time and of the other dispatches                     *)

\* A step that moves no process and makes no receipt or call: what has to be shown.
LEMMA JobChanges ==
  ASSUME JobInv, \A j \in Jobs : JobOK(j)' /\ Forward(j), TypeOK', Leased',
         UNCHANGED <<worker, reconciler, receipt, calls>>
  PROVE  JobInv'
<1>1. (\A w \in Workers : WorkerKnows(worker[w]))' /\ Alone'
  BY WorkersRest
<1>2. (\A r \in Reconcilers : ReconcilerKnows(reconciler[r]))'
  BY ReconcilersKeep
<1> QED BY <1>1, <1>2 DEF JobInv

\* Claims, waits, denials and windows are not part of the argument.
LEMMA Bystanders ==
  ASSUME JobInv, TypeOK', Leased',
         UNCHANGED <<status, intent, vault, retirement, dispatch, receipt, calls, worker, reconciler>>
  PROVE  JobInv'
<1>1. ASSUME NEW j \in Jobs PROVE JobOK(j)' /\ Forward(j)
  BY RowKeeps DEF JobInv, RowKept
<1> QED BY <1>1, JobChanges

\* The end of a claim, of a wait and of a window keep the invariant.
LEMMA DeadlinesKeep ==
  ASSUME JobInv, (\E j \in Jobs : ClaimExpires(j) \/ WaitDeadline(j)) \/ WindowTurns
  PROVE  JobInv'
<1>1. UNCHANGED <<jobVars, lease, others, vault, calls, worker, reconciler>>
  BY DEF ClaimExpires, WaitDeadline, WindowTurns, admissionVars
<1>2. /\ claim' \in [Jobs -> Workers \cup {Nobody}]
      /\ wait' \in [Jobs -> WaitStates]
      /\ window' \in 0 .. WindowLimit
  <2>1. /\ claim \in [Jobs -> Workers \cup {Nobody}]
        /\ wait \in [Jobs -> WaitStates]
        /\ window \in 0 .. WindowLimit
    BY DEF JobInv, TypeOK
  <2> QED BY <2>1, AdmissionAssumption
         DEF ClaimExpires, WaitDeadline, WindowTurns, WaitStates, admissionVars
<1>3. TypeOK'
  BY <1>1, <1>2 DEF JobInv, TypeOK, jobVars
<1>4. Leased'
  BY <1>1, LeasesKeep DEF JobInv, jobVars
<1> QED BY <1>1, <1>3, <1>4, Bystanders DEF jobVars

\* Other dispatches take free slots and give them back.
LEMMA OthersKeep ==
  ASSUME JobInv, OtherDispatch \/ (\E slot \in others : OtherEnds(slot))
  PROVE  JobInv'
<1>1. CASE OtherDispatch
  <2>1. PICK slot : slot = Least(FreeSlots)
    OBVIOUS
  <2>2. /\ ~Full /\ others' = others \cup {slot} /\ window' = window + 1 /\ lease' = KeptLeases
        /\ UNCHANGED <<jobVars, wait, vault, claim, calls, worker, reconciler>>
    BY <1>1, <2>1 DEF OtherDispatch
  <2>3. slot \in Slots /\ slot \notin others /\ \A i \in Holders : lease[i] # slot
    BY <2>1, <2>2, FreeSlot DEF JobInv
  <2>4. /\ lease' \in [Jobs -> Slots \cup {NoSlot}]
        /\ \A i \in Jobs : lease'[i] = IF i \in Holders THEN lease[i] ELSE NoSlot
    BY <2>2 DEF KeptLeases, JobInv, TypeOK
  <2>5. Holders' = Holders /\ Holders \subseteq Jobs
    BY <2>2, <2>4 DEF Holders, jobVars
  <2>6. Leased'
    <3>1. \A i \in Jobs : dispatch'[i] = "open" /\ receipt'[i] = "none" => lease'[i] # NoSlot
      BY <2>2, <2>4 DEF JobInv, Leased, Holders, jobVars
    <3> QED BY <2>2, <2>3, <2>4, <2>5, <3>1 DEF JobInv, Leased
  <2>7. window' \in 0 .. WindowLimit
    BY <2>2, AdmissionAssumption DEF Full, JobInv, TypeOK
  <2>8. TypeOK'
    BY <2>2, <2>3, <2>4, <2>7 DEF JobInv, TypeOK, jobVars
  <2> QED BY <2>2, <2>6, <2>8, Bystanders DEF jobVars
<1>2. CASE \E slot \in others : OtherEnds(slot)
  <2>1. /\ others' \subseteq others
        /\ UNCHANGED <<jobVars, wait, lease, window, vault, claim, calls, worker, reconciler>>
    BY <1>2 DEF OtherEnds
  <2>2. TypeOK'
    BY <2>1 DEF JobInv, TypeOK, jobVars
  <2>3. Leased'
    BY <2>1 DEF JobInv, Leased, Holders, jobVars
  <2> QED BY <2>1, <2>2, <2>3, Bystanders DEF jobVars
<1> QED BY <1>1, <1>2

\* Accepting a job keeps the invariant.
LEMMA AcceptKeeps ==
  ASSUME JobInv, NEW j \in Jobs, Accept(j)
  PROVE  JobInv'
<1>1. /\ status' = [status EXCEPT ![j] = "requested"] /\ status[j] = "absent"
      /\ UNCHANGED <<intent, retirement, denied, receipt, dispatch, admissionVars, vault, claim,
                     calls, worker, reconciler>>
  BY DEF Accept
<1>2. status'[j] = "requested" /\ \A i \in Jobs : i # j => status'[i] = status[i]
  BY <1>1 DEF JobInv, TypeOK
<1>3. TypeOK'
  BY <1>1 DEF JobInv, TypeOK, Statuses, admissionVars
<1>4. ASSUME NEW i \in Jobs PROVE JobOK(i)' /\ Forward(i)
  <2>1. CASE i # j
    BY <1>1, <1>2, <2>1, RowKeeps DEF JobInv, RowKept
  <2>2. CASE i = j
    BY <1>1, <1>2, <2>2
       DEF JobInv, JobOK, Unsent, Sent, Answered, Retiring, Ended, Matching, Forward
  <2> QED BY <2>1, <2>2
<1>5. Leased'
  BY <1>1, LeasesKeep DEF JobInv, admissionVars
<1> QED BY <1>1, <1>3, <1>4, <1>5, JobChanges

\* A retirement is requested of a job nothing was sent for.
LEMMA RequestRetirementKeeps ==
  ASSUME JobInv, NEW j \in Jobs, NEW evidence \in Evidence, RequestRetirement(j, evidence)
  PROVE  JobInv'
<1>1. /\ retirement' = [retirement EXCEPT ![j] = evidence]
      /\ intent' = [intent EXCEPT ![j] = [o \in Outputs(j) |-> "abandoning"]]
      /\ status[j] \in Active /\ dispatch[j] = "none" /\ receipt[j] = "none"
      /\ UNCHANGED <<status, denied, receipt, dispatch, admissionVars, vault, claim, calls, worker,
                     reconciler>>
  BY DEF RequestRetirement, SetIntents, Undispatched
<1>2. /\ retirement'[j] = evidence /\ evidence # "none"
      /\ \A i \in Jobs : i # j => retirement'[i] = retirement[i]
  BY <1>1 DEF JobInv, TypeOK, Evidence
<1>3. /\ DOMAIN intent' = Jobs /\ intent'[j] \in [Outputs(j) -> IntentStates]
      /\ \A o \in Outputs(j) : intent'[j][o] = "abandoning"
      /\ \A i \in Jobs : i # j => intent'[i] = intent[i]
  BY <1>1 DEF JobInv, TypeOK, IntentStates
<1>4. TypeOK'
  BY <1>1, <1>3 DEF JobInv, TypeOK, admissionVars
<1>5. JobOK(j)' /\ Forward(j)
  BY <1>1, <1>2, <1>3
     DEF JobInv, JobOK, Unsent, Sent, Answered, Retiring, Ended, Matching, Forward, Resulting,
         Withdrawn, Active
<1>6. ASSUME NEW i \in Jobs PROVE JobOK(i)' /\ Forward(i)
  <2>1. CASE i # j
    BY <1>1, <1>2, <1>3, <2>1, RowKeeps DEF JobInv, RowKept
  <2> QED BY <1>5, <2>1
<1>7. Leased'
  BY <1>1, LeasesKeep DEF JobInv, admissionVars
<1> QED BY <1>1, <1>4, <1>6, <1>7, JobChanges

\* A job ends undispatched with every output abandoned.
LEMMA TerminateKeeps ==
  ASSUME JobInv, NEW j \in Jobs, Terminate(j)
  PROVE  JobInv'
<1> DEFINE end == TerminalState(retirement[j])
           waits == IF wait[j] \in {"none", "throttled"} THEN wait[j] ELSE "ended"
<1>1. /\ status' = [status EXCEPT ![j] = end]
      /\ wait' = [wait EXCEPT ![j] = waits]
      /\ dispatch[j] = "none" /\ receipt[j] = "none" /\ retirement[j] # "none"
      /\ \A o \in Outputs(j) : intent[j][o] = "abandoned"
      /\ UNCHANGED <<intent, retirement, denied, receipt, dispatch, lease, window, others, vault,
                     claim, calls, worker, reconciler>>
  BY DEF Terminate, Undispatched, AllOutputs
<1>2. end \in {"cancelled", "failed_definite"}
  BY DEF TerminalState
<1>3. waits \in WaitStates
  BY DEF WaitStates
<1> HIDE DEF end, waits
<1>4. status'[j] = end /\ \A i \in Jobs : i # j => status'[i] = status[i]
  BY <1>1 DEF JobInv, TypeOK
<1>5. TypeOK'
  BY <1>1, <1>2, <1>3 DEF JobInv, TypeOK, Statuses
<1>6. JobOK(j)' /\ Forward(j)
  BY <1>1, <1>2, <1>4
     DEF JobInv, JobOK, Unsent, Sent, Answered, Retiring, Ended, Matching, Forward
<1>7. ASSUME NEW i \in Jobs PROVE JobOK(i)' /\ Forward(i)
  <2>1. CASE i # j
    BY <1>1, <1>4, <2>1, RowKeeps DEF JobInv, RowKept
  <2> QED BY <1>6, <2>1
<1>8. Leased'
  BY <1>1, LeasesKeep DEF JobInv
<1> QED BY <1>1, <1>5, <1>7, <1>8, JobChanges

\* A dispatch that becomes overdue, or is adopted, stays a dispatch and holds no slot.
LEMMA DispatchEndsKeep ==
  ASSUME JobInv, NEW j \in Jobs, DispatchDeadline(j) \/ Sweep(j)
  PROVE  JobInv'
<1>1. PICK d \in {"overdue", "adopted"} : dispatch' = [dispatch EXCEPT ![j] = d]
  BY DEF DispatchDeadline, Sweep
<1>2. /\ dispatch[j] # "none"
      /\ UNCHANGED <<status, intent, retirement, denied, receipt, admissionVars, vault, claim,
                     calls, worker, reconciler>>
  BY DEF DispatchDeadline, Sweep
<1>3. dispatch'[j] = d /\ \A i \in Jobs : i # j => dispatch'[i] = dispatch[i]
  BY <1>1 DEF JobInv, TypeOK
<1>4. TypeOK'
  BY <1>1, <1>2 DEF JobInv, TypeOK, admissionVars
<1>5. JobOK(j)' /\ Forward(j)
  BY <1>2, <1>3 DEF JobInv, JobOK, Unsent, Sent, Answered, Retiring, Ended, Matching, Forward
<1>6. ASSUME NEW i \in Jobs PROVE JobOK(i)' /\ Forward(i)
  <2>1. CASE i # j
    BY <1>2, <1>3, <2>1, RowKeeps DEF JobInv, RowKept
  <2> QED BY <1>5, <2>1
<1>7. Leased'
  <2>1. Holders' \subseteq Holders
    BY <1>2, <1>3 DEF Holders, admissionVars
  <2>2. \A i \in Jobs : dispatch'[i] = "open" => dispatch[i] = "open"
    BY <1>3
  <2> QED BY <1>2, <2>1, <2>2 DEF Leased, JobInv, admissionVars
<1> QED BY <1>2, <1>4, <1>6, <1>7, JobChanges

-----------------------------------------------------------------------------
(* The theorems                                                            *)

\* Nothing has happened in the initial state.
LEMMA InitInv == Init => JobInv
<1> SUFFICES ASSUME Init PROVE JobInv
  OBVIOUS
<1> USE DEF Init
<1>1. /\ \A w \in Workers : worker[w] = IdleWorker
      /\ \A r \in Reconcilers : reconciler[r] = IdleReconciler
      /\ IdleWorker \in WorkerType /\ IdleWorker.at = "idle"
      /\ IdleReconciler \in ReconcilerType /\ IdleReconciler.at = "idle"
  BY DEF IdleWorker, IdleReconciler, WorkerType, ReconcilerType, WorkPoints, KeyPoints
<1>2. TypeOK
  <2>1. worker \in [Workers -> WorkerType] /\ reconciler \in [Reconcilers -> ReconcilerType]
    BY <1>1
  <2>2. 0 \in 0 .. WindowLimit /\ 0 \in Nat /\ {} \subseteq Slots
    BY AdmissionAssumption
  <2> QED BY <2>1, <2>2
          DEF TypeOK, WorkerType, ReconcilerType, Statuses, IntentStates, KeyStates, WaitStates
<1>3. ASSUME NEW j \in Jobs PROVE JobOK(j)
  BY DEF JobOK, Unsent, Sent, Answered, Retiring, Ended, Matching, Resulting, Withdrawn
<1>4. ASSUME NEW w \in Workers PROVE WorkerKnows(worker[w])
  BY <1>1 DEF WorkerKnows, Sending
<1>5. ASSUME NEW r \in Reconcilers PROVE ReconcilerKnows(reconciler[r])
  BY <1>1 DEF ReconcilerKnows
<1>6. Alone /\ Leased
  BY <1>1 DEF Alone, Sending, Leased, Holders
<1> QED BY <1>2, <1>3, <1>4, <1>5, <1>6 DEF JobInv

\* Every step of a worker keeps the invariant.
LEMMA WorkerStepKeeps ==
  ASSUME JobInv, NEW w \in Workers, WorkerStep(w)
  PROVE  JobInv'
BY ClaimsKeep, RecoveryKeeps, AdoptedUnknownKeeps, AdmissionKeeps, DispatchPreparedKeeps,
   CallProviderKeeps, RecordFailureKeeps, SealKeeps, CommitPreparedKeeps, LoadKeeps,
   BindOutputKeeps, RecordBindingKeeps, PublishKeeps DEF WorkerStep

\* Every step of a reconciler keeps the invariant.
LEMMA ReconcilerStepKeeps ==
  ASSUME JobInv, NEW r \in Reconcilers, ReconcilerStep(r)
  PROVE  JobInv'
BY ClaimKeyKeeps, VaultCreateKeeps, RecordReceiptKeeps, VaultRetireKeeps, RecordRetirementKeeps,
   StoppedReconciler DEF ReconcilerStep, CrashReconciler

\* Every step of a job keeps the invariant.
LEMMA JobStepKeeps ==
  ASSUME JobInv, NEW j \in Jobs, JobStep(j)
  PROVE  JobInv'
BY AcceptKeeps, DeadlinesKeep, RequestRetirementKeeps, TerminateKeeps, DispatchEndsKeep
   DEF JobStep

\* The inductive invariant holds throughout.
THEOREM JobsInOrder == Spec => []JobInv
<1>1. JobInv /\ [Next]_vars => JobInv'
  <2> SUFFICES ASSUME JobInv, [Next]_vars PROVE JobInv'
    OBVIOUS
  <2>1. CASE \E w \in Workers : WorkerStep(w)
    BY <2>1, WorkerStepKeeps
  <2>2. CASE \E r \in Reconcilers : ReconcilerStep(r)
    BY <2>2, ReconcilerStepKeeps
  <2>3. CASE \E j \in Jobs : JobStep(j)
    BY <2>3, JobStepKeeps
  <2>4. CASE WindowTurns
    BY <2>4, DeadlinesKeep
  <2>5. CASE OtherDispatch \/ \E slot \in others : OtherEnds(slot)
    BY <2>5, OthersKeep
  <2>6. CASE UNCHANGED vars
    <3>1. TypeOK' /\ Leased'
      BY <2>6, LeasesKeep DEF JobInv, TypeOK, vars, jobVars, admissionVars
    <3> QED BY <2>6, <3>1, Bystanders DEF vars, jobVars
  <2> QED BY <2>1, <2>2, <2>3, <2>4, <2>5, <2>6 DEF Next
<1> QED BY <1>1, InitInv, PTL DEF Spec

\* Every variable keeps its type.
THEOREM TypeCorrect == Spec => []TypeOK
<1>1. JobInv => TypeOK
  BY DEF JobInv
<1> QED BY <1>1, JobsInOrder, PTL

\* The provider is called at most once for a job, and only after the dispatch was
\* recorded (execute, prepare_dispatch), however many workers claim the job.
THEOREM CalledOnce == Spec => []OneCall
<1>1. JobInv => OneCall
  <2> SUFFICES ASSUME JobInv, NEW j \in Jobs
               PROVE  calls[j] <= 1 /\ (calls[j] = 1 => dispatch[j] # "none")
    BY DEF OneCall
  <2>1. calls[j] \in {0, 1} /\ (dispatch[j] = "none" => calls[j] = 0)
    BY DEF JobInv, JobOK, Unsent, Answered
  <2> QED BY <2>1
<1> QED BY <1>1, JobsInOrder, PTL

\* Unanswered dispatches never outnumber max_in_flight, and a window never admits
\* more than its limit (the admission of prepare_dispatch).
THEOREM AdmissionBounded == Spec => []InFlightBounded
<1>1. JobInv => InFlightBounded
  <2> SUFFICES ASSUME JobInv PROVE InFlightBounded
    OBVIOUS
  <2> DEFINE open == {j \in Jobs : dispatch[j] = "open" /\ receipt[j] = "none"}
  <2>1. open \subseteq Holders
    BY DEF JobInv, Leased, Holders
  <2>2. /\ IsFiniteSet(Holders) /\ Cardinality(Holders) \in Nat /\ Cardinality(others) \in Nat
        /\ Cardinality(Holders) + Cardinality(others) <= MaxInFlight
    BY HoldersFit DEF JobInv
  <2> HIDE DEF open
  <2>3. Cardinality(open) <= Cardinality(Holders) /\ Cardinality(open) \in Nat
    BY <2>1, <2>2, FS_Subset, FS_CardinalityType
  <2>4. Cardinality(open) + Cardinality(others) <= MaxInFlight
    BY <2>2, <2>3, AdmissionAssumption
  <2>5. window <= WindowLimit
    BY AdmissionAssumption DEF JobInv, TypeOK
  <2> QED BY <2>4, <2>5 DEF InFlightBounded, open
<1> QED BY <1>1, JobsInOrder, PTL

\* A job reported cancelled or definitely failed never reached the provider, and its
\* output keys are erased (terminate_pre_dispatch, request_retirement, reconcile_one).
THEOREM EndedJobsErased == Spec => []EndedMeansErased
<1>1. JobInv => EndedMeansErased
  <2> SUFFICES ASSUME JobInv, NEW j \in Jobs, status[j] \in {"cancelled", "failed_definite"}
               PROVE  calls[j] = 0 /\ \A o \in Outputs(j) : vault[j][o] = "erased"
    BY DEF EndedMeansErased
  <2>1. JobOK(j)
    BY DEF JobInv
  <2>2. dispatch[j] = "none"
    BY <2>1 DEF JobOK, Sent
  <2> QED BY <2>1, <2>2 DEF JobOK, Unsent, Ended, Matching
<1> QED BY <1>1, JobsInOrder, PTL

\* A job reported succeeded was answered by one call and keeps every output's key bound
\* (commit_prepared, finalize, publish).
THEOREM SucceededJobsKept == Spec => []SucceededMeansKept
<1>1. JobInv => SucceededMeansKept
  <2> SUFFICES ASSUME JobInv, NEW j \in Jobs, status[j] = "succeeded"
               PROVE  /\ receipt[j] = "acknowledged" /\ calls[j] = 1
                      /\ \A o \in Outputs(j) : intent[j][o] = "live" /\ vault[j][o] = "bound"
    BY DEF SucceededMeansKept
  <2>1. JobOK(j) /\ 0 \in Outputs(j)
    BY OutputsNotEmpty DEF JobInv
  <2>2. \A o \in Outputs(j) : intent[j][o] = "live"
    BY <2>1 DEF JobOK, Ended
  <2> QED BY <2>1, <2>2 DEF JobOK, Answered, Matching, Resulting
<1> QED BY <1>1, JobsInOrder, PTL

\* A job reported inconclusive has no result and no bound key, however late the answer
\* comes (recover_embedding_job_attempt against commit_prepared).
THEOREM UnknownJobsEmpty == Spec => []UnknownHasNoResult
<1>1. JobInv => UnknownHasNoResult
  BY DEF UnknownHasNoResult, JobInv, JobOK, Ended, Answered
<1> QED BY <1>1, JobsInOrder, PTL

\* What the database says of an output is true of its key in the vault (reconcile_one,
\* finalize).
THEOREM RecordsTrue == Spec => []RecordsMatchVault
<1>1. JobInv => RecordsMatchVault
  BY DEF RecordsMatchVault, JobInv, JobOK, Matching
<1> QED BY <1>1, JobsInOrder, PTL
=============================================================================
