---------------------- MODULE MaterialKeyVault_proofs ----------------------
(***************************************************************************)
(* The host vault keeps bound keys, holds its erasures and implements the  *)
(* lifecycle of its trait, for any number of processes and preparations.   *)
(*                                                                         *)
(* The argument: until the fence there is at most one data key and it is   *)
(* in place; the fence of an output key needs the decision to retire it,   *)
(* and a bound key has the other decision; and whoever is past the rename  *)
(* leaves no data key a receipt stands for, since none is given after the  *)
(* fence, nor its temporary name in "active", since the rename takes the   *)
(* directory with all it holds.                                            *)
(***************************************************************************)
EXTENDS MaterialKeyVault, TLAPS

ProcType == [op : Calls \cup {"none"}, at : Points \cup {"idle"},
             prep : Preparations \cup {"none"}]

\* Before the fence the first data key is the only one, and stays in place.
Unfenced ==
    ~fence => /\ retired = "absent"
              /\ active # "later"
              /\ minted => active = "first"
              /\ opened \subseteq {"first"}

\* A data key in place, and a receipt, mean that one was installed.
MintedKnown ==
    /\ active \in Holding => minted
    /\ retired \in Holding => minted
    /\ "created" \in answers => minted

\* Only output keys are decided about, and the fence follows the decision.
Decisions ==
    /\ disposition \in Preparations => ~fence /\ minted
    /\ kind = "ordinary" => disposition = "none"
    /\ kind = "output" /\ fence => disposition = "retire"

\* Once some receipt was given, and the erasure is witnessed, the first data key
\* has no name an operation could reach it by.
Gone ==
    "created" \in answers /\ erased => active # "first" /\ retired # "first" /\ spare # "active"

\* A second name in "active" lies in a directory that is there.
SpareKnown == spare = "active" => active # "absent"

\* What a process knows by the point it has come to.
Knows(x) ==
    /\ x.at \in {"witnessed", "fence", "rename", "remove", "witness", "finish"} =>
           (kind = "output" => disposition = "retire")
    /\ x.at \in {"rename", "remove", "witness", "finish"} => fence
    /\ x.at = "finish" => erased
    /\ x.at \in {"unlink", "read", "confirm", "decide_bind", "bind_decided"} => minted
    /\ x.at \in {"bind_check", "decide_bind", "bind_decided"} =>
           kind = "output" /\ x.prep \in Preparations
    /\ x.at \in {"retire_check", "decide_retire", "retire_decided"} => kind = "output"
    /\ x.at \in {"remove", "witness", "finish"} => ("created" \in answers => active # "first" /\ spare # "active")
    /\ x.at \in {"witness", "finish"} => ("created" \in answers => retired # "first")

VaultInv ==
    /\ TypeOK
    /\ Unfenced
    /\ MintedKnown
    /\ Decisions
    /\ Gone
    /\ SpareKnown
    /\ \A q \in Procs : Knows(proc[q])

-----------------------------------------------------------------------------
(* How a step moves the process that takes it                              *)

\* Go moves one process and keeps its operation and its preparation.
LEMMA GoMoves ==
  ASSUME TypeOK, NEW p \in Procs, NEW point \in Points, Go(p, point)
  PROVE  /\ proc' \in [Procs -> ProcType]
         /\ proc'[p].at = point /\ proc'[p].prep = proc[p].prep /\ proc'[p].op = proc[p].op
         /\ \A q \in Procs : q # p => proc'[q] = proc[q]
<1> DEFINE x == [proc[p] EXCEPT !.at = point]
<1>1. proc \in [Procs -> ProcType] /\ proc[p] \in ProcType
  BY DEF TypeOK, ProcType
<1>2. x \in ProcType /\ x.at = point /\ x.prep = proc[p].prep /\ x.op = proc[p].op
  BY <1>1 DEF ProcType
<1>3. proc' = [proc EXCEPT ![p] = x]
  BY DEF Go
<1> HIDE DEF x
<1> QED BY <1>1, <1>2, <1>3

\* Stop makes one process idle.
LEMMA StopMoves ==
  ASSUME TypeOK, NEW p \in Procs, Stop(p)
  PROVE  /\ proc' \in [Procs -> ProcType]
         /\ proc'[p].at = "idle"
         /\ \A q \in Procs : q # p => proc'[q] = proc[q]
<1>1. proc \in [Procs -> ProcType]
  BY DEF TypeOK, ProcType
<1>2. Idle \in ProcType /\ Idle.at = "idle"
  BY DEF Idle, ProcType
<1>3. proc' = [proc EXCEPT ![p] = Idle]
  BY DEF Stop
<1> HIDE DEF Idle
<1> QED BY <1>1, <1>2, <1>3

\* The types of the stages, spelled out for a step.
LEMMA TypeKept ==
  ASSUME TypeOK, proc' \in [Procs -> ProcType],
         kind' = kind, claimed' \in BOOLEAN, active' \in Directories, retired' \in Directories,
         spare' \in {"none", "active", "retired"},
         disposition' \in {"none", "retire"} \cup Preparations,
         fence' \in BOOLEAN, erased' \in BOOLEAN, minted' \in BOOLEAN,
         opened' \subseteq Holding, answers' \subseteq Answers, erased' => fence'
  PROVE  TypeOK'
BY DEF TypeOK, ProcType

-----------------------------------------------------------------------------
(* Steps that leave the files alone                                        *)

\* A receipt may be added while the key is installed and not withdrawn.
MayAnswer ==
    /\ answers' \subseteq Answers
    /\ "created" \in answers' => "created" \in answers \/ (minted /\ ~fence)

\* A step that only moves its process, and perhaps answers, keeps the invariant.
LEMMA QuietKeeps ==
  ASSUME VaultInv, NEW p \in Procs, NEW x,
         UNCHANGED <<stages, content>>, MayAnswer,
         proc' \in [Procs -> ProcType], proc'[p] = x,
         \A q \in Procs : q # p => proc'[q] = proc[q],
         Knows(x)
  PROVE  VaultInv'
<1> USE DEF VaultInv, stages, content, MayAnswer
<1>1. TypeOK'
  BY TypeKept DEF TypeOK
<1>2. Unfenced' /\ MintedKnown' /\ Decisions'
  BY DEF Unfenced, MintedKnown, Decisions
<1>3. Gone' /\ SpareKnown'
  BY DEF Gone, SpareKnown, TypeOK
<1>4. ASSUME NEW q \in Procs PROVE Knows(proc[q])'
  <2>1. CASE q = p
    BY <2>1 DEF Knows
  <2>2. CASE q # p
    <3>1. Knows(proc[q]) /\ proc'[q] = proc[q]
      BY <2>2
    <3> QED BY <3>1 DEF Knows
  <2> QED BY <2>1, <2>2
<1> QED BY <1>1, <1>2, <1>3, <1>4

\* Giving up is such a step.
LEMMA RefuseKeeps ==
  ASSUME VaultInv, NEW p \in Procs, Refuse(p), UNCHANGED <<stages, content>>
  PROVE  VaultInv'
<1>1. TypeOK /\ Stop(p) /\ answers' = answers
  BY DEF VaultInv, Refuse
<1>2. MayAnswer
  BY <1>1 DEF MayAnswer, TypeOK
<1>3. PICK x : x = proc'[p]
  OBVIOUS
<1>4. x.at = "idle"
  BY <1>1, <1>3, StopMoves
<1>5. Knows(x)
  BY <1>4 DEF Knows
<1> QED BY <1>1, <1>2, <1>3, <1>5, StopMoves, QuietKeeps

\* So is answering.
LEMMA ReturnKeeps ==
  ASSUME VaultInv, NEW p \in Procs, NEW answer \in Answers, Return(p, answer),
         answer = "created" => minted /\ ~fence,
         UNCHANGED <<stages, content>>
  PROVE  VaultInv'
<1>1. TypeOK /\ Stop(p) /\ answers' = answers \cup {answer}
  BY DEF VaultInv, Return
<1>2. MayAnswer
  BY <1>1 DEF MayAnswer, TypeOK
<1>3. PICK x : x = proc'[p]
  OBVIOUS
<1>4. x.at = "idle"
  BY <1>1, <1>3, StopMoves
<1>5. Knows(x)
  BY <1>4 DEF Knows
<1> QED BY <1>1, <1>2, <1>3, <1>5, StopMoves, QuietKeeps

\* Going on is one when the process knows what its next point asks for.
LEMMA StepKeeps ==
  ASSUME VaultInv, NEW p \in Procs, NEW point \in Points, Step(p, point),
         UNCHANGED <<stages, content>>,
         \A x : x.at = point /\ x.prep = proc[p].prep => Knows(x)
  PROVE  VaultInv'
<1>1. TypeOK /\ Go(p, point) /\ answers' = answers
  BY DEF VaultInv, Step
<1>2. MayAnswer
  BY <1>1 DEF MayAnswer, TypeOK
<1>3. PICK x : x = proc'[p]
  OBVIOUS
<1>4. x.at = point /\ x.prep = proc[p].prep
  BY <1>1, <1>3, GoMoves
<1>5. Knows(x)
  BY <1>4
<1> QED BY <1>1, <1>2, <1>3, <1>5, GoMoves, QuietKeeps

-----------------------------------------------------------------------------
(* The calls, and the checks between the writes                            *)

\* A call sets its process to the first point of the operation.
LEMMA CallKeeps ==
  ASSUME VaultInv, NEW p \in Procs, NEW op \in Calls, NEW point \in Points,
         NEW prep \in Preparations \cup {"none"},
         proc' = [proc EXCEPT ![p] = [op |-> op, at |-> point, prep |-> prep]],
         UNCHANGED <<stages, content, answers>>,
         point \in {"claim", "open_read"} \/
             (point = "bind_check" /\ kind = "output" /\ prep \in Preparations)
  PROVE  VaultInv'
<1>1. PICK x : x = [op |-> op, at |-> point, prep |-> prep]
  OBVIOUS
<1>2. x \in ProcType /\ x.at = point /\ x.prep = prep
  BY <1>1 DEF ProcType
<1>3. TypeOK /\ proc \in [Procs -> ProcType] /\ proc' = [proc EXCEPT ![p] = x]
  BY <1>1 DEF VaultInv, TypeOK, ProcType
<1>4. proc' \in [Procs -> ProcType] /\ proc'[p] = x /\ \A q \in Procs : q # p => proc'[q] = proc[q]
  BY <1>2, <1>3
<1>5. MayAnswer
  BY <1>3 DEF MayAnswer, TypeOK
<1>6. Knows(x)
  BY <1>2 DEF Knows
<1> QED BY <1>4, <1>5, <1>6, QuietKeeps

\* Every call starts so.
LEMMA CallsKeep ==
  ASSUME VaultInv, NEW p \in Procs,
         \/ CallCreate(p) \/ CallRetire(p)
         \/ \E prep \in Preparations : CallBind(p, prep)
         \/ \E prep \in {"none"} \cup Preparations : CallOpen(p, prep)
  PROVE  VaultInv'
<1>1. CASE CallCreate(p)
  BY <1>1, CallKeeps DEF CallCreate, Calls, Points
<1>2. CASE CallRetire(p)
  BY <1>2, CallKeeps DEF CallRetire, Calls, Points
<1>3. CASE \E prep \in Preparations : CallBind(p, prep)
  <2>1. PICK prep \in Preparations : CallBind(p, prep)
    BY <1>3
  <2> QED BY <2>1, CallKeeps DEF CallBind, Calls, Points
<1>4. CASE \E prep \in {"none"} \cup Preparations : CallOpen(p, prep)
  <2>1. PICK prep \in {"none"} \cup Preparations : CallOpen(p, prep)
    BY <1>4
  <2> QED BY <2>1, CallKeeps DEF CallOpen, Calls, Points
<1> QED BY <1>1, <1>2, <1>3, <1>4

\* ReadClaim, CheckClaim and Probe lead to points that ask for nothing new.
LEMMA ClaimChecksKeep ==
  ASSUME VaultInv, NEW p \in Procs, ReadClaim(p) \/ CheckClaim(p) \/ Probe(p)
  PROVE  VaultInv'
<1>1. CASE ReadClaim(p)
  <2>1. ASSUME NEW x, x.at \in {"publish_claim", "make_active"} PROVE Knows(x)
    BY <2>1 DEF Knows
  <2> QED BY <1>1, <2>1, StepKeeps DEF ReadClaim, Points
<1>2. CASE CheckClaim(p)
  <2>1. CASE Exists(active) = Exists(retired)
    BY <1>2, <2>1, RefuseKeeps DEF CheckClaim
  <2>2. CASE ~(Exists(active) = Exists(retired))
    <3>1. PICK point : /\ Step(p, point)
                       /\ \/ point = "create_check"
                          \/ point = "retire_check" /\ kind = "output"
                          \/ point = "witnessed" /\ kind # "output"
      BY <1>2, <2>2 DEF CheckClaim
    <3>2. ASSUME NEW x, x.at = point PROVE Knows(x)
      BY <3>1, <3>2 DEF Knows
    <3> QED BY <1>2, <3>1, <3>2, StepKeeps DEF CheckClaim, Points
  <2> QED BY <2>1, <2>2
<1>3. CASE Probe(p)
  <2>1. ASSUME NEW x, x.at = "link" PROVE Knows(x)
    BY <2>1 DEF Knows
  <2> QED BY <1>3, <2>1, StepKeeps, RefuseKeeps DEF Probe, Points
<1> QED BY <1>1, <1>2, <1>3

\* The checks of a creator: a bound key is installed and unfenced, so its receipt may be repeated.
LEMMA CreateChecksKeep ==
  ASSUME VaultInv, NEW p \in Procs, CheckCreate(p) \/ ReadEnvelope(p)
  PROVE  VaultInv'
<1>1. CASE CheckCreate(p)
  <2>1. UNCHANGED <<stages, content>>
    BY <1>1 DEF CheckCreate
  <2>2. ASSUME NEW x, x.at = "probe" PROVE Knows(x)
    BY <2>2 DEF Knows
  <2>3. "created" \in Answers /\ "probe" \in Points
    BY DEF Answers, Points
  <2>4. ASSUME OutputSane, disposition \in Preparations PROVE minted /\ ~fence
    BY <2>4 DEF VaultInv, Decisions
  <2> QED BY <1>1, <2>1, <2>2, <2>3, <2>4, StepKeeps, RefuseKeeps, ReturnKeeps DEF CheckCreate
<1>2. CASE ReadEnvelope(p)
  <2>1. ASSUME NEW x, x.at = "confirm", active \in Holding PROVE Knows(x)
    BY <2>1 DEF Knows, VaultInv, MintedKnown
  <2> QED BY <1>2, <2>1, StepKeeps, RefuseKeeps DEF ReadEnvelope, Points
<1> QED BY <1>1, <1>2

\* The checks around the one decision about an output key.
LEMMA DecisionChecksKeep ==
  ASSUME VaultInv, NEW p \in Procs,
         CheckBind(p) \/ ConfirmBind(p) \/ CheckRetire(p) \/ ConfirmRetire(p)
  PROVE  VaultInv'
<1>0. Knows(proc[p])
  BY DEF VaultInv
<1>1. CASE CheckBind(p)
  <2>1. ASSUME NEW x, x.at = "decide_bind", x.prep = proc[p].prep, active \in Holding PROVE Knows(x)
    BY <1>0, <1>1, <2>1 DEF Knows, VaultInv, MintedKnown, CheckBind
  <2> QED BY <1>1, <2>1, StepKeeps, RefuseKeeps DEF CheckBind, Points
<1>2. CASE ConfirmBind(p)
  <2>1. CASE OutputSane /\ disposition = proc[p].prep
    <3>1. disposition \in Preparations
      BY <1>0, <1>2, <2>1 DEF Knows, ConfirmBind
    <3>2. disposition \in Answers /\ disposition # "created"
      BY <3>1, PreparationsAssumption DEF Answers
    <3> QED BY <1>2, <2>1, <3>2, ReturnKeeps DEF ConfirmBind
  <2>2. CASE ~(OutputSane /\ disposition = proc[p].prep)
    BY <1>2, <2>2, RefuseKeeps DEF ConfirmBind
  <2> QED BY <2>1, <2>2
<1>3. CASE CheckRetire(p)
  <2>1. ASSUME NEW x, x.at = "decide_retire" PROVE Knows(x)
    BY <1>0, <1>3, <2>1 DEF Knows, CheckRetire
  <2> QED BY <1>3, <2>1, StepKeeps, RefuseKeeps DEF CheckRetire, Points
<1>4. CASE ConfirmRetire(p)
  <2>1. ASSUME NEW x, x.at = "witnessed", disposition = "retire" PROVE Knows(x)
    BY <2>1 DEF Knows
  <2> QED BY <1>4, <2>1, StepKeeps, RefuseKeeps DEF ConfirmRetire, Points
<1> QED BY <1>1, <1>2, <1>3, <1>4

-----------------------------------------------------------------------------
(* The writes                                                              *)

\* An empty directory holds no data key.
LEMMA MakeActiveKeeps ==
  ASSUME VaultInv, NEW p \in Procs, MakeActive(p)
  PROVE  VaultInv'
<1>1. TypeOK /\ Go(p, "publish_claim") /\ "publish_claim" \in Points
  BY DEF VaultInv, MakeActive, Step, Points
<1>2. /\ proc' \in [Procs -> ProcType] /\ proc'[p].at = "publish_claim" /\ proc'[p].prep = proc[p].prep
      /\ \A q \in Procs : q # p => proc'[q] = proc[q]
  BY <1>1, GoMoves
<1>3. Knows(proc[p]) /\ \A q \in Procs : Knows(proc[q])
  BY DEF VaultInv
<1>4. TypeOK'
  BY <1>1, <1>2, <1>3, TypeKept DEF TypeOK, Directories, Holding, Answers, Knows,
        MakeActive, Step, Refuse, Return, stages, content, Exists
<1>5. Unfenced' /\ MintedKnown' /\ Decisions' /\ Gone' /\ SpareKnown'
  BY <1>1, <1>3, PreparationsAssumption
  DEF VaultInv, TypeOK, Unfenced, MintedKnown, Decisions, Gone, SpareKnown, Knows, Directories, Kinds,
        Holding, MakeActive, Step, Refuse, Return, stages, content, Exists
<1>6. Knows(proc[p])'
  BY <1>1, <1>2, <1>3, PreparationsAssumption
  DEF VaultInv, TypeOK, Unfenced, MintedKnown, Decisions, Knows, Directories, Kinds,
        Holding, MakeActive, Step, Refuse, Return, stages, content, Exists
<1>7. ASSUME NEW q \in Procs, q # p PROVE Knows(proc[q])'
  BY <1>1, <1>2, <1>3, <1>7, PreparationsAssumption
  DEF VaultInv, TypeOK, Unfenced, MintedKnown, Decisions, Knows, Directories, Kinds,
        Holding, MakeActive, Step, Refuse, Return, stages, content, Exists
<1> QED BY <1>4, <1>5, <1>6, <1>7 DEF VaultInv

\* The claim decides nothing.
LEMMA PublishClaimKeeps ==
  ASSUME VaultInv, NEW p \in Procs, PublishClaim(p)
  PROVE  VaultInv'
<1>1. TypeOK /\ Go(p, "claim_check") /\ "claim_check" \in Points
  BY DEF VaultInv, PublishClaim, Step, Points
<1>2. /\ proc' \in [Procs -> ProcType] /\ proc'[p].at = "claim_check" /\ proc'[p].prep = proc[p].prep
      /\ \A q \in Procs : q # p => proc'[q] = proc[q]
  BY <1>1, GoMoves
<1>3. Knows(proc[p]) /\ \A q \in Procs : Knows(proc[q])
  BY DEF VaultInv
<1>4. TypeOK'
  BY <1>1, <1>2, <1>3, TypeKept DEF TypeOK, Directories, Holding, Answers, Knows,
        PublishClaim, Step, Refuse, Return, stages, content
<1>5. Unfenced' /\ MintedKnown' /\ Decisions' /\ Gone' /\ SpareKnown'
  BY <1>1, <1>3, PreparationsAssumption
  DEF VaultInv, TypeOK, Unfenced, MintedKnown, Decisions, Gone, SpareKnown, Knows, Directories, Kinds,
        Holding, PublishClaim, Step, Refuse, Return, stages, content
<1>6. Knows(proc[p])'
  BY <1>1, <1>2, <1>3, PreparationsAssumption
  DEF VaultInv, TypeOK, Unfenced, MintedKnown, Decisions, Knows, Directories, Kinds,
        Holding, PublishClaim, Step, Refuse, Return, stages, content
<1>7. ASSUME NEW q \in Procs, q # p PROVE Knows(proc[q])'
  BY <1>1, <1>2, <1>3, <1>7, PreparationsAssumption
  DEF VaultInv, TypeOK, Unfenced, MintedKnown, Decisions, Knows, Directories, Kinds,
        Holding, PublishClaim, Step, Refuse, Return, stages, content
<1> QED BY <1>4, <1>5, <1>6, <1>7 DEF VaultInv

\* The temporary name is not the one that is read.
LEMMA UnlinkTemporaryKeeps ==
  ASSUME VaultInv, NEW p \in Procs, UnlinkTemporary(p)
  PROVE  VaultInv'
<1>1. TypeOK /\ Go(p, "read") /\ "read" \in Points
  BY DEF VaultInv, UnlinkTemporary, Step, Points
<1>2. /\ proc' \in [Procs -> ProcType] /\ proc'[p].at = "read" /\ proc'[p].prep = proc[p].prep
      /\ \A q \in Procs : q # p => proc'[q] = proc[q]
  BY <1>1, GoMoves
<1>3. Knows(proc[p]) /\ \A q \in Procs : Knows(proc[q])
  BY DEF VaultInv
<1>4. TypeOK'
  BY <1>1, <1>2, <1>3, TypeKept DEF TypeOK, Directories, Holding, Answers, Knows,
        UnlinkTemporary, Step, Refuse, Return, stages, content
<1>5. Unfenced' /\ MintedKnown' /\ Decisions' /\ Gone' /\ SpareKnown'
  BY <1>1, <1>3, PreparationsAssumption
  DEF VaultInv, TypeOK, Unfenced, MintedKnown, Decisions, Gone, SpareKnown, Knows, Directories, Kinds,
        Holding, UnlinkTemporary, Step, Refuse, Return, stages, content
<1>6. Knows(proc[p])'
  BY <1>1, <1>2, <1>3, PreparationsAssumption
  DEF VaultInv, TypeOK, Unfenced, MintedKnown, Decisions, Knows, Directories, Kinds,
        Holding, UnlinkTemporary, Step, Refuse, Return, stages, content
<1>7. ASSUME NEW q \in Procs, q # p PROVE Knows(proc[q])'
  BY <1>1, <1>2, <1>3, <1>7, PreparationsAssumption
  DEF VaultInv, TypeOK, Unfenced, MintedKnown, Decisions, Knows, Directories, Kinds,
        Holding, UnlinkTemporary, Step, Refuse, Return, stages, content
<1> QED BY <1>4, <1>5, <1>6, <1>7 DEF VaultInv

\* A binding is decided where the first data key is in place.
LEMMA DecideBindKeeps ==
  ASSUME VaultInv, NEW p \in Procs, DecideBind(p)
  PROVE  VaultInv'
<1>1. TypeOK /\ Go(p, "bind_decided") /\ "bind_decided" \in Points
  BY DEF VaultInv, DecideBind, Step, Points
<1>2. /\ proc' \in [Procs -> ProcType] /\ proc'[p].at = "bind_decided" /\ proc'[p].prep = proc[p].prep
      /\ \A q \in Procs : q # p => proc'[q] = proc[q]
  BY <1>1, GoMoves
<1>3. Knows(proc[p]) /\ \A q \in Procs : Knows(proc[q])
  BY DEF VaultInv
<1>4. TypeOK'
  BY <1>1, <1>2, <1>3, TypeKept DEF TypeOK, Directories, Holding, Answers, Knows,
        DecideBind, Step, Refuse, Return, stages, content, Decided
<1>5. Unfenced' /\ MintedKnown' /\ Decisions' /\ Gone' /\ SpareKnown'
  BY <1>1, <1>3, PreparationsAssumption
  DEF VaultInv, TypeOK, Unfenced, MintedKnown, Decisions, Gone, SpareKnown, Knows, Directories, Kinds,
        Holding, DecideBind, Step, Refuse, Return, stages, content, Decided
<1>6. Knows(proc[p])'
  BY <1>1, <1>2, <1>3, PreparationsAssumption
  DEF VaultInv, TypeOK, Unfenced, MintedKnown, Decisions, Knows, Directories, Kinds,
        Holding, DecideBind, Step, Refuse, Return, stages, content, Decided
<1>7. ASSUME NEW q \in Procs, q # p PROVE Knows(proc[q])'
  BY <1>1, <1>2, <1>3, <1>7, PreparationsAssumption
  DEF VaultInv, TypeOK, Unfenced, MintedKnown, Decisions, Knows, Directories, Kinds,
        Holding, DecideBind, Step, Refuse, Return, stages, content, Decided
<1> QED BY <1>4, <1>5, <1>6, <1>7 DEF VaultInv

\* A decision to retire is taken only where there was none.
LEMMA DecideRetireKeeps ==
  ASSUME VaultInv, NEW p \in Procs, DecideRetire(p)
  PROVE  VaultInv'
<1>1. TypeOK /\ Go(p, "retire_decided") /\ "retire_decided" \in Points
  BY DEF VaultInv, DecideRetire, Step, Points
<1>2. /\ proc' \in [Procs -> ProcType] /\ proc'[p].at = "retire_decided" /\ proc'[p].prep = proc[p].prep
      /\ \A q \in Procs : q # p => proc'[q] = proc[q]
  BY <1>1, GoMoves
<1>3. Knows(proc[p]) /\ \A q \in Procs : Knows(proc[q])
  BY DEF VaultInv
<1>4. TypeOK'
  BY <1>1, <1>2, <1>3, TypeKept DEF TypeOK, Directories, Holding, Answers, Knows,
        DecideRetire, Step, Refuse, Return, stages, content, Decided
<1>5. Unfenced' /\ MintedKnown' /\ Decisions' /\ Gone' /\ SpareKnown'
  BY <1>1, <1>3, PreparationsAssumption
  DEF VaultInv, TypeOK, Unfenced, MintedKnown, Decisions, Gone, SpareKnown, Knows, Directories, Kinds,
        Holding, DecideRetire, Step, Refuse, Return, stages, content, Decided
<1>6. Knows(proc[p])'
  BY <1>1, <1>2, <1>3, PreparationsAssumption
  DEF VaultInv, TypeOK, Unfenced, MintedKnown, Decisions, Knows, Directories, Kinds,
        Holding, DecideRetire, Step, Refuse, Return, stages, content, Decided
<1>7. ASSUME NEW q \in Procs, q # p PROVE Knows(proc[q])'
  BY <1>1, <1>2, <1>3, <1>7, PreparationsAssumption
  DEF VaultInv, TypeOK, Unfenced, MintedKnown, Decisions, Knows, Directories, Kinds,
        Holding, DecideRetire, Step, Refuse, Return, stages, content, Decided
<1> QED BY <1>4, <1>5, <1>6, <1>7 DEF VaultInv

\* The fence of an output key follows the decision.
LEMMA PublishFenceKeeps ==
  ASSUME VaultInv, NEW p \in Procs, PublishFence(p)
  PROVE  VaultInv'
<1>1. TypeOK /\ Go(p, "rename") /\ "rename" \in Points
  BY DEF VaultInv, PublishFence, Step, Points
<1>2. /\ proc' \in [Procs -> ProcType] /\ proc'[p].at = "rename" /\ proc'[p].prep = proc[p].prep
      /\ \A q \in Procs : q # p => proc'[q] = proc[q]
  BY <1>1, GoMoves
<1>3. Knows(proc[p]) /\ \A q \in Procs : Knows(proc[q])
  BY DEF VaultInv
<1>4. TypeOK'
  BY <1>1, <1>2, <1>3, TypeKept DEF TypeOK, Directories, Holding, Answers, Knows,
        PublishFence, Step, Refuse, Return, stages, content
<1>5. Unfenced' /\ MintedKnown' /\ Decisions' /\ Gone' /\ SpareKnown'
  BY <1>1, <1>3, PreparationsAssumption
  DEF VaultInv, TypeOK, Unfenced, MintedKnown, Decisions, Gone, SpareKnown, Knows, Directories, Kinds,
        Holding, PublishFence, Step, Refuse, Return, stages, content
<1>6. Knows(proc[p])'
  BY <1>1, <1>2, <1>3, PreparationsAssumption
  DEF VaultInv, TypeOK, Unfenced, MintedKnown, Decisions, Knows, Directories, Kinds,
        Holding, PublishFence, Step, Refuse, Return, stages, content
<1>7. ASSUME NEW q \in Procs, q # p PROVE Knows(proc[q])'
  BY <1>1, <1>2, <1>3, <1>7, PreparationsAssumption
  DEF VaultInv, TypeOK, Unfenced, MintedKnown, Decisions, Knows, Directories, Kinds,
        Holding, PublishFence, Step, Refuse, Return, stages, content
<1> QED BY <1>4, <1>5, <1>6, <1>7 DEF VaultInv

\* The removal leaves no data key in the retired directory.
LEMMA RemoveEnvelopeKeeps ==
  ASSUME VaultInv, NEW p \in Procs, RemoveEnvelope(p)
  PROVE  VaultInv'
<1>1. TypeOK /\ Go(p, "witness") /\ "witness" \in Points
  BY DEF VaultInv, RemoveEnvelope, Step, Points
<1>2. /\ proc' \in [Procs -> ProcType] /\ proc'[p].at = "witness" /\ proc'[p].prep = proc[p].prep
      /\ \A q \in Procs : q # p => proc'[q] = proc[q]
  BY <1>1, GoMoves
<1>3. Knows(proc[p]) /\ \A q \in Procs : Knows(proc[q])
  BY DEF VaultInv
<1>4. TypeOK'
  BY <1>1, <1>2, <1>3, TypeKept DEF TypeOK, Directories, Holding, Answers, Knows,
        RemoveEnvelope, Step, Refuse, Return, stages, content, Emptied, Exists
<1>5. Unfenced' /\ MintedKnown' /\ Decisions' /\ Gone' /\ SpareKnown'
  BY <1>1, <1>3, PreparationsAssumption
  DEF VaultInv, TypeOK, Unfenced, MintedKnown, Decisions, Gone, SpareKnown, Knows, Directories, Kinds,
        Holding, RemoveEnvelope, Step, Refuse, Return, stages, content, Emptied, Exists
<1>6. Knows(proc[p])'
  BY <1>1, <1>2, <1>3, PreparationsAssumption
  DEF VaultInv, TypeOK, Unfenced, MintedKnown, Decisions, Knows, Directories, Kinds,
        Holding, RemoveEnvelope, Step, Refuse, Return, stages, content, Emptied, Exists
<1>7. ASSUME NEW q \in Procs, q # p PROVE Knows(proc[q])'
  BY <1>1, <1>2, <1>3, <1>7, PreparationsAssumption
  DEF VaultInv, TypeOK, Unfenced, MintedKnown, Decisions, Knows, Directories, Kinds,
        Holding, RemoveEnvelope, Step, Refuse, Return, stages, content, Emptied, Exists
<1> QED BY <1>4, <1>5, <1>6, <1>7 DEF VaultInv

\* The witness is published when the data key has gone.
LEMMA PublishWitnessKeeps ==
  ASSUME VaultInv, NEW p \in Procs, PublishWitness(p)
  PROVE  VaultInv'
<1>1. TypeOK /\ Go(p, "finish") /\ "finish" \in Points
  BY DEF VaultInv, PublishWitness, Step, Points
<1>2. /\ proc' \in [Procs -> ProcType] /\ proc'[p].at = "finish" /\ proc'[p].prep = proc[p].prep
      /\ \A q \in Procs : q # p => proc'[q] = proc[q]
  BY <1>1, GoMoves
<1>3. Knows(proc[p]) /\ \A q \in Procs : Knows(proc[q])
  BY DEF VaultInv
<1>4. TypeOK'
  BY <1>1, <1>2, <1>3, TypeKept DEF TypeOK, Directories, Holding, Answers, Knows,
        PublishWitness, Step, Refuse, Return, stages, content
<1>5. Unfenced' /\ MintedKnown' /\ Decisions' /\ Gone' /\ SpareKnown'
  BY <1>1, <1>3, PreparationsAssumption
  DEF VaultInv, TypeOK, Unfenced, MintedKnown, Decisions, Gone, SpareKnown, Knows, Directories, Kinds,
        Holding, PublishWitness, Step, Refuse, Return, stages, content
<1>6. Knows(proc[p])'
  BY <1>1, <1>2, <1>3, PreparationsAssumption
  DEF VaultInv, TypeOK, Unfenced, MintedKnown, Decisions, Knows, Directories, Kinds,
        Holding, PublishWitness, Step, Refuse, Return, stages, content
<1>7. ASSUME NEW q \in Procs, q # p PROVE Knows(proc[q])'
  BY <1>1, <1>2, <1>3, <1>7, PreparationsAssumption
  DEF VaultInv, TypeOK, Unfenced, MintedKnown, Decisions, Knows, Directories, Kinds,
        Holding, PublishWitness, Step, Refuse, Return, stages, content
<1> QED BY <1>4, <1>5, <1>6, <1>7 DEF VaultInv

\* The last removal takes nothing a receipt stands for.
LEMMA FinishRetireKeeps ==
  ASSUME VaultInv, NEW p \in Procs, FinishRetire(p)
  PROVE  VaultInv'
<1>1. TypeOK /\ Stop(p)
  BY DEF VaultInv, FinishRetire, Refuse, Return
<1>2. /\ proc' \in [Procs -> ProcType] /\ proc'[p].at = "idle"
      /\ \A q \in Procs : q # p => proc'[q] = proc[q]
  BY <1>1, StopMoves
<1>3. Knows(proc[p]) /\ \A q \in Procs : Knows(proc[q])
  BY DEF VaultInv
<1>4. TypeOK'
  BY <1>1, <1>2, <1>3, TypeKept DEF TypeOK, Directories, Holding, Answers, Knows,
        FinishRetire, Step, Refuse, Return, stages, content, Emptied, Exists
<1>5. Unfenced' /\ MintedKnown' /\ Decisions' /\ Gone' /\ SpareKnown'
  BY <1>1, <1>3, PreparationsAssumption
  DEF VaultInv, TypeOK, Unfenced, MintedKnown, Decisions, Gone, SpareKnown, Knows, Directories, Kinds,
        Holding, FinishRetire, Step, Refuse, Return, stages, content, Emptied, Exists
<1>6. Knows(proc[p])'
  BY <1>1, <1>2, <1>3, PreparationsAssumption
  DEF VaultInv, TypeOK, Unfenced, MintedKnown, Decisions, Knows, Directories, Kinds,
        Holding, FinishRetire, Step, Refuse, Return, stages, content, Emptied, Exists
<1>7. ASSUME NEW q \in Procs, q # p PROVE Knows(proc[q])'
  BY <1>1, <1>2, <1>3, <1>7, PreparationsAssumption
  DEF VaultInv, TypeOK, Unfenced, MintedKnown, Decisions, Knows, Directories, Kinds,
        Holding, FinishRetire, Step, Refuse, Return, stages, content, Emptied, Exists
<1> QED BY <1>4, <1>5, <1>6, <1>7 DEF VaultInv

\* Only ordinary keys, which nobody decides about, are fenced so.
LEMMA PrepareErasureKeeps ==
  ASSUME VaultInv, NEW p \in Procs, PrepareErasure(p)
  PROVE  VaultInv'
<1>1. TypeOK /\ Stop(p)
  BY DEF VaultInv, PrepareErasure, Refuse, Return
<1>2. /\ proc' \in [Procs -> ProcType] /\ proc'[p].at = "idle"
      /\ \A q \in Procs : q # p => proc'[q] = proc[q]
  BY <1>1, StopMoves
<1>3. Knows(proc[p]) /\ \A q \in Procs : Knows(proc[q])
  BY DEF VaultInv
<1>4. TypeOK'
  BY <1>1, <1>2, <1>3, TypeKept DEF TypeOK, Directories, Holding, Answers, Knows,
        PrepareErasure, Step, Refuse, Return, stages, content
<1>5. Unfenced' /\ MintedKnown' /\ Decisions' /\ Gone' /\ SpareKnown'
  BY <1>1, <1>3, PreparationsAssumption
  DEF VaultInv, TypeOK, Unfenced, MintedKnown, Decisions, Gone, SpareKnown, Knows, Directories, Kinds,
        Holding, PrepareErasure, Step, Refuse, Return, stages, content
<1>6. Knows(proc[p])'
  BY <1>1, <1>2, <1>3, PreparationsAssumption
  DEF VaultInv, TypeOK, Unfenced, MintedKnown, Decisions, Knows, Directories, Kinds,
        Holding, PrepareErasure, Step, Refuse, Return, stages, content
<1>7. ASSUME NEW q \in Procs, q # p PROVE Knows(proc[q])'
  BY <1>1, <1>2, <1>3, <1>7, PreparationsAssumption
  DEF VaultInv, TypeOK, Unfenced, MintedKnown, Decisions, Knows, Directories, Kinds,
        Holding, PrepareErasure, Step, Refuse, Return, stages, content
<1> QED BY <1>4, <1>5, <1>6, <1>7 DEF VaultInv

\* Before the fence a callback runs on the first data key.
LEMMA OpenEnvelopeKeeps ==
  ASSUME VaultInv, NEW p \in Procs, OpenEnvelope(p)
  PROVE  VaultInv'
<1>1. TypeOK /\ Stop(p)
  BY DEF VaultInv, OpenEnvelope, Refuse, Return
<1>2. /\ proc' \in [Procs -> ProcType] /\ proc'[p].at = "idle"
      /\ \A q \in Procs : q # p => proc'[q] = proc[q]
  BY <1>1, StopMoves
<1>3. Knows(proc[p]) /\ \A q \in Procs : Knows(proc[q])
  BY DEF VaultInv
<1>4. TypeOK'
  BY <1>1, <1>2, <1>3, TypeKept DEF TypeOK, Directories, Holding, Answers, Knows,
        OpenEnvelope, Step, Refuse, Return, stages, content
<1>5. Unfenced' /\ MintedKnown' /\ Decisions' /\ Gone' /\ SpareKnown'
  BY <1>1, <1>3, PreparationsAssumption
  DEF VaultInv, TypeOK, Unfenced, MintedKnown, Decisions, Gone, SpareKnown, Knows, Directories, Kinds,
        Holding, OpenEnvelope, Step, Refuse, Return, stages, content
<1>6. Knows(proc[p])'
  BY <1>1, <1>2, <1>3, PreparationsAssumption
  DEF VaultInv, TypeOK, Unfenced, MintedKnown, Decisions, Knows, Directories, Kinds,
        Holding, OpenEnvelope, Step, Refuse, Return, stages, content
<1>7. ASSUME NEW q \in Procs, q # p PROVE Knows(proc[q])'
  BY <1>1, <1>2, <1>3, <1>7, PreparationsAssumption
  DEF VaultInv, TypeOK, Unfenced, MintedKnown, Decisions, Knows, Directories, Kinds,
        Holding, OpenEnvelope, Step, Refuse, Return, stages, content
<1> QED BY <1>4, <1>5, <1>6, <1>7 DEF VaultInv

\* A new data key is the first one before the fence, and stands for no receipt after it.
LEMMA LinkEnvelopeKeeps ==
  ASSUME VaultInv, NEW p \in Procs, LinkEnvelope(p)
  PROVE  VaultInv'
<1>1. CASE ~Exists(active) /\ Refuse(p) /\ UNCHANGED content
  BY <1>1, RefuseKeeps DEF LinkEnvelope
<1>2. CASE active \in Holding /\ Step(p, "read") /\ UNCHANGED content
  <2>1. ASSUME NEW x, x.at = "read" PROVE Knows(x)
    BY <1>2, <2>1 DEF Knows, VaultInv, MintedKnown
  <2> QED BY <1>2, <2>1, StepKeeps DEF LinkEnvelope, Points
<1>3. CASE /\ active = "none"
           /\ active' = IF minted THEN "later" ELSE "first"
           /\ spare' = IF minted THEN spare ELSE "active"
           /\ minted' = TRUE
           /\ Step(p, IF minted THEN "read" ELSE "unlink")
           /\ UNCHANGED <<retired, opened>>
  <2>1. PICK point \in {"read", "unlink"} : Step(p, point)
    BY <1>3
  <2>2. TypeOK /\ Go(p, point) /\ point \in Points /\ answers' = answers
    BY <2>1 DEF VaultInv, Step, Points
  <2>3. /\ proc' \in [Procs -> ProcType] /\ proc'[p].at = point /\ proc'[p].prep = proc[p].prep
        /\ \A q \in Procs : q # p => proc'[q] = proc[q]
    BY <2>2, GoMoves
  <2>4. \A q \in Procs : Knows(proc[q])
    BY DEF VaultInv
  <2>5. TypeOK'
    BY <1>3, <2>2, <2>3, TypeKept DEF TypeOK, Directories, Holding, stages, LinkEnvelope
  <2>6. Unfenced' /\ MintedKnown' /\ Decisions' /\ Gone' /\ SpareKnown'
    BY <1>3, <2>2
    DEF VaultInv, TypeOK, Unfenced, MintedKnown, Decisions, Gone, SpareKnown, Directories, Kinds, Holding,
        stages, LinkEnvelope
  <2>7. Knows(proc[p])'
    BY <1>3, <2>1, <2>2, <2>3 DEF Knows
  <2>8. ASSUME NEW q \in Procs, q # p PROVE Knows(proc[q])'
    BY <1>3, <2>2, <2>3, <2>4, <2>8
    DEF VaultInv, TypeOK, MintedKnown, Knows, Directories, Holding, stages, LinkEnvelope
  <2> QED BY <2>5, <2>6, <2>7, <2>8 DEF VaultInv
<1> QED BY <1>1, <1>2, <1>3 DEF LinkEnvelope

\* A receipt is given before the fence; after it the envelope is taken away.
LEMMA ConfirmCreateKeeps ==
  ASSUME VaultInv, NEW p \in Procs, ConfirmCreate(p)
  PROVE  VaultInv'
<1>0. Knows(proc[p]) /\ proc[p].at = "confirm"
  BY DEF VaultInv, ConfirmCreate
<1>1. CASE ~Withdrawn
  <2>1. minted /\ ~fence /\ "created" \in Answers
    BY <1>0, <1>1 DEF Knows, Withdrawn, Answers
  <2> QED BY <1>1, <2>1, ReturnKeeps DEF ConfirmCreate
<1>2. CASE Withdrawn
  <2>1. TypeOK /\ Go(p, "withdraw") /\ "withdraw" \in Points /\ answers' = answers /\ fence
    BY <1>2 DEF VaultInv, TypeOK, ConfirmCreate, Step, Withdrawn, Points
  <2>2. /\ proc' \in [Procs -> ProcType] /\ proc'[p].at = "withdraw"
        /\ \A q \in Procs : q # p => proc'[q] = proc[q]
    BY <2>1, GoMoves
  <2>3. /\ active' \in {active, "none"}
        /\ UNCHANGED <<stages, retired, spare, minted, opened>>
    BY <1>2, <2>1 DEF ConfirmCreate, Emptied, Exists, TypeOK, Directories
  <2>4. TypeOK'
    BY <2>1, <2>2, <2>3, TypeKept DEF TypeOK, Directories, stages
  <2>5. Unfenced' /\ MintedKnown' /\ Decisions' /\ Gone' /\ SpareKnown'
    BY <2>1, <2>3
    DEF VaultInv, TypeOK, Unfenced, MintedKnown, Decisions, Gone, SpareKnown, Directories, Holding, stages
  <2>6. ASSUME NEW q \in Procs PROVE Knows(proc[q])'
    BY <2>1, <2>2, <2>3, <2>6 DEF VaultInv, TypeOK, Knows, Directories, stages
  <2> QED BY <2>4, <2>5, <2>6 DEF VaultInv
<1> QED BY <1>1, <1>2

\* Its second removal takes nothing a receipt stands for.
LEMMA WithdrawEnvelopeKeeps ==
  ASSUME VaultInv, NEW p \in Procs, WithdrawEnvelope(p)
  PROVE  VaultInv'
<1>1. /\ TypeOK /\ Stop(p) /\ answers' = answers
      /\ retired' \in {retired, "none"} /\ (retired = "absent" => retired' = retired)
      /\ UNCHANGED <<stages, active, spare, minted, opened>>
  BY DEF VaultInv, TypeOK, WithdrawEnvelope, Refuse, Emptied, Exists, Directories
<1>2. /\ proc' \in [Procs -> ProcType] /\ proc'[p].at = "idle"
      /\ \A q \in Procs : q # p => proc'[q] = proc[q]
  BY <1>1, StopMoves
<1>3. TypeOK'
  BY <1>1, <1>2, TypeKept DEF TypeOK, Directories, stages
<1>4. Unfenced' /\ MintedKnown' /\ Decisions' /\ Gone' /\ SpareKnown'
  BY <1>1
  DEF VaultInv, TypeOK, Unfenced, MintedKnown, Decisions, Gone, SpareKnown, Directories, Holding, stages
<1>5. ASSUME NEW q \in Procs PROVE Knows(proc[q])'
  BY <1>1, <1>2, <1>5 DEF VaultInv, TypeOK, Knows, Directories, stages
<1> QED BY <1>3, <1>4, <1>5 DEF VaultInv

\* An erasure answered again removes no more than the first one did.
LEMMA ReadWitnessKeeps ==
  ASSUME VaultInv, NEW p \in Procs, ReadWitness(p)
  PROVE  VaultInv'
<1>0. Knows(proc[p]) /\ proc[p].at = "witnessed"
  BY DEF VaultInv, ReadWitness
<1>1. CASE ~erased
  <2>1. ASSUME NEW x, x.at = "fence" PROVE Knows(x)
    BY <1>0, <2>1 DEF Knows
  <2> QED BY <1>1, <2>1, StepKeeps DEF ReadWitness, Points
<1>2. CASE erased
  <2>1. /\ TypeOK /\ Stop(p) /\ answers' = answers \cup {"erased"} /\ fence
        /\ retired' \in {retired, "none"} /\ UNCHANGED <<stages, active, spare, minted, opened>>
    BY <1>2 DEF VaultInv, TypeOK, ReadWitness, Return, Emptied, Exists, Directories
  <2>2. /\ proc' \in [Procs -> ProcType] /\ proc'[p].at = "idle"
        /\ \A q \in Procs : q # p => proc'[q] = proc[q]
    BY <2>1, StopMoves
  <2>3. TypeOK'
    BY <2>1, <2>2, TypeKept DEF TypeOK, Directories, stages, Answers
  <2>4. Unfenced' /\ MintedKnown' /\ Decisions' /\ Gone' /\ SpareKnown'
    BY <2>1
    DEF VaultInv, TypeOK, Unfenced, MintedKnown, Decisions, Gone, SpareKnown, Directories, Holding, stages
  <2>5. ASSUME NEW q \in Procs PROVE Knows(proc[q])'
    BY <2>1, <2>2, <2>5 DEF VaultInv, TypeOK, Knows, Directories, stages
  <2> QED BY <2>3, <2>4, <2>5 DEF VaultInv
<1> QED BY <1>1, <1>2

\* After the rename the first data key is not in "active", and only one that was
\* there is in "retired-active".
LEMMA RetireActiveKeeps ==
  ASSUME VaultInv, NEW p \in Procs, RetireActive(p)
  PROVE  VaultInv'
<1>0. Knows(proc[p]) /\ proc[p].at = "rename" /\ fence /\ UNCHANGED stages
  BY DEF VaultInv, RetireActive, Knows
<1>1. CASE Refuse(p) /\ UNCHANGED content
  BY <1>0, <1>1, RefuseKeeps
<1>2. CASE ~Exists(active) /\ Step(p, "remove") /\ UNCHANGED content
  <2>1. ASSUME NEW x, x.at = "remove" PROVE Knows(x)
    BY <1>0, <1>2, <2>1 DEF VaultInv, SpareKnown, Knows, Exists
  <2> QED BY <1>0, <1>2, <2>1, StepKeeps DEF Points
<1>3. CASE /\ Exists(active)
           /\ retired' = active
           /\ active' = "absent"
           /\ spare' = IF spare = "active" THEN "retired" ELSE spare
           /\ Step(p, "remove")
           /\ UNCHANGED <<minted, opened>>
  <2>1. TypeOK /\ Go(p, "remove") /\ "remove" \in Points /\ answers' = answers
    BY <1>3 DEF VaultInv, Step, Points
  <2>2. /\ proc' \in [Procs -> ProcType] /\ proc'[p].at = "remove" /\ proc'[p].prep = proc[p].prep
        /\ \A q \in Procs : q # p => proc'[q] = proc[q]
    BY <2>1, GoMoves
  <2>3. \A q \in Procs : Knows(proc[q])
    BY DEF VaultInv
  <2>4. TypeOK'
    BY <1>0, <1>3, <2>1, <2>2, TypeKept DEF TypeOK, Directories, stages
  <2>5. Unfenced' /\ MintedKnown' /\ Decisions' /\ Gone' /\ SpareKnown'
    BY <1>0, <1>3, <2>1
    DEF VaultInv, TypeOK, Unfenced, MintedKnown, Decisions, Gone, SpareKnown, Holding, stages
  <2>6. Knows(proc[p])'
    BY <1>0, <1>3, <2>1, <2>2 DEF Knows, stages
  <2>7. ASSUME NEW q \in Procs, q # p PROVE Knows(proc[q])'
    BY <1>0, <1>3, <2>1, <2>2, <2>3, <2>7 DEF Knows, stages
  <2> QED BY <2>4, <2>5, <2>6, <2>7 DEF VaultInv
<1> QED BY <1>1, <1>2, <1>3 DEF RetireActive

-----------------------------------------------------------------------------
(* The invariant                                                           *)

\* A key nobody claimed has no file at all.
LEMMA InitEstablishes == Init => VaultInv
<1> SUFFICES ASSUME Init PROVE VaultInv
  OBVIOUS
<1>1. proc \in [Procs -> ProcType] /\ \A q \in Procs : proc[q].at = "idle"
  BY DEF Init, Idle, ProcType
<1>2. TypeOK
  BY <1>1 DEF Init, TypeOK, ProcType, Directories, Kinds
<1>3. Unfenced /\ MintedKnown /\ Gone /\ SpareKnown
  BY DEF Init, Unfenced, MintedKnown, Gone, SpareKnown, Holding
<1>4. Decisions
  BY PreparationsAssumption DEF Init, Decisions
<1>5. ASSUME NEW q \in Procs PROVE Knows(proc[q])
  BY <1>1 DEF Knows
<1> QED BY <1>2, <1>3, <1>4, <1>5 DEF VaultInv

\* A stuttering step changes nothing the invariant reads.
LEMMA StutterKeeps == VaultInv /\ UNCHANGED vars => VaultInv'
BY DEF VaultInv, vars, TypeOK, Unfenced, MintedKnown, Decisions, Gone, SpareKnown, Knows, Withdrawn

\* Every step of every process keeps the invariant.
LEMMA NextKeeps == VaultInv /\ [Next]_vars => VaultInv'
<1> SUFFICES ASSUME VaultInv, Next PROVE VaultInv'
  BY StutterKeeps
<1>1. PICK p \in Procs :
        \/ CallCreate(p) \/ CallRetire(p)
        \/ (\E prep \in Preparations : CallBind(p, prep))
        \/ (\E prep \in {"none"} \cup Preparations : CallOpen(p, prep))
        \/ ReadClaim(p) \/ CheckClaim(p) \/ Probe(p)
        \/ CheckCreate(p) \/ ReadEnvelope(p)
        \/ CheckBind(p) \/ ConfirmBind(p) \/ CheckRetire(p) \/ ConfirmRetire(p)
        \/ MakeActive(p) \/ PublishClaim(p) \/ LinkEnvelope(p) \/ UnlinkTemporary(p)
        \/ ConfirmCreate(p) \/ WithdrawEnvelope(p) \/ DecideBind(p) \/ DecideRetire(p) \/ ReadWitness(p)
        \/ PublishFence(p) \/ RetireActive(p) \/ RemoveEnvelope(p) \/ PublishWitness(p)
        \/ FinishRetire(p) \/ PrepareErasure(p) \/ OpenEnvelope(p) \/ Abandon(p)
  BY DEF Next
<1>2. CASE Abandon(p)
  BY <1>2, RefuseKeeps DEF Abandon
<1> QED
  BY <1>1, <1>2, CallsKeep, ClaimChecksKeep, CreateChecksKeep, DecisionChecksKeep,
        MakeActiveKeeps,
     PublishClaimKeeps, LinkEnvelopeKeeps, UnlinkTemporaryKeeps, ConfirmCreateKeeps,
     WithdrawEnvelopeKeeps,
     DecideBindKeeps, DecideRetireKeeps, ReadWitnessKeeps, PublishFenceKeeps, RetireActiveKeeps,
     RemoveEnvelopeKeeps, PublishWitnessKeeps, FinishRetireKeeps, PrepareErasureKeeps,
     OpenEnvelopeKeeps

\* The vault keeps what the other theorems rest on: one data key until the fence, the
\* fence after the decision, no data key with a receipt after the removal.
THEOREM VaultInvariant == Spec => []VaultInv
BY InitEstablishes, NextKeeps, PTL DEF Spec

\* Every file and process of the vault keeps its type, and no erasure is witnessed
\* without a fence (retire_new).
THEOREM VaultTypeCorrect == Spec => []TypeOK
<1>1. VaultInv => TypeOK
  BY DEF VaultInv
<1> QED BY <1>1, VaultInvariant, PTL

\* A bound key stays in place, unfenced, and every callback ran on it
\* (bind_embedding_output against retire_embedding_output and late creators).
THEOREM BoundKeysStay == Spec => []BoundKeyKept
<1>1. VaultInv => BoundKeyKept
  BY DEF VaultInv, TypeOK, Unfenced, Decisions, BoundKeyKept, Withdrawn
<1> QED BY <1>1, VaultInvariant, PTL

\* A data key some receipt stands for is an envelope in neither directory once its
\* erasure is witnessed, and has no second name in "active" (retire_new against
\* create_new).
THEOREM ErasuresHold == Spec => []ErasureHolds
<1>1. VaultInv => ErasureHolds
  BY DEF VaultInv, Gone, ErasureHolds
<1> QED BY <1>1, VaultInvariant, PTL

-----------------------------------------------------------------------------
(* The refinement: Fate and answers move as KeyLifecycle allows            *)

\* The fate of a key by the stages, before and after a step.
LEMMA FateIs ==
  ASSUME TypeOK
  PROVE  /\ erased => Fate = "erased"
         /\ fence /\ ~erased => Fate = "fenced"
         /\ ~fence /\ disposition \in Preparations => Fate = disposition
         /\ ~fence /\ disposition \notin Preparations /\ active = "first" => Fate = "live"
         /\ ~fence /\ disposition \notin Preparations /\ active # "first" => Fate = "absent"
BY DEF TypeOK, Fate, Withdrawn

\* The same after the step.
LEMMA FateWillBe ==
  ASSUME TypeOK'
  PROVE  /\ erased' => Fate' = "erased"
         /\ fence' /\ ~erased' => Fate' = "fenced"
         /\ ~fence' /\ disposition' \in Preparations => Fate' = disposition'
         /\ ~fence' /\ disposition' \notin Preparations /\ active' = "first" => Fate' = "live"
         /\ ~fence' /\ disposition' \notin Preparations /\ active' # "first" => Fate' = "absent"
BY DEF TypeOK, Fate, Withdrawn

\* The stages, and before the fence the first data key, are all the fate depends on.
LEMMA FateKept ==
  ASSUME TypeOK, TypeOK', fence' = fence, erased' = erased,
         \/ disposition' = disposition
         \/ disposition \notin Preparations /\ disposition' \notin Preparations,
         fence \/ (active' = "first" <=> active = "first")
  PROVE  Fate' = Fate
BY FateIs, FateWillBe DEF TypeOK

\* What a step of the vault is to its contract.
Allowed == Contract!NextKey \/ UNCHANGED Contract!lifecycleVars

\* An answer the fate supports is a step of the contract.
LEMMA AnswerAllowed ==
  ASSUME NEW answer \in Answers, answers' = answers \cup {answer}, Fate' = Fate,
         Fate \in Contract!Supports(answer)
  PROVE  Allowed
BY DEF Allowed, Contract!NextKey, Contract!GiveAnswer, Contract!Answers, Answers

\* A step that neither answers nor moves the fate stutters.
LEMMA SilenceAllowed ==
  ASSUME answers' = answers, Fate' = Fate
  PROVE  Allowed
BY DEF Allowed, Contract!lifecycleVars

\* Calls and checks that do not answer stutter.
LEMMA QuietAllowed ==
  ASSUME TypeOK, TypeOK', UNCHANGED <<stages, active, answers>>
  PROVE  Allowed
<1>1. Fate' = Fate
  BY FateKept DEF stages
<1> QED BY <1>1, SilenceAllowed

\* The first link makes the key; a link after the fence, or a second name, changes nothing.
LEMMA LinkEnvelopeAllowed ==
  ASSUME VaultInv, TypeOK', NEW p \in Procs, LinkEnvelope(p)
  PROVE  Allowed
<1>1. TypeOK /\ answers' = answers /\ UNCHANGED stages
  BY DEF VaultInv, LinkEnvelope, Refuse, Step
<1>2. CASE active' = active
  BY <1>1, <1>2, QuietAllowed
<1>3. CASE fence
  BY <1>1, <1>3, FateKept, SilenceAllowed DEF stages
<1>4. CASE active' # active /\ ~fence
  <2>1. active = "none" /\ ~minted /\ active' = "first"
    BY <1>4 DEF VaultInv, Unfenced, LinkEnvelope, content
  <2>2. disposition \notin Preparations
    BY <2>1 DEF VaultInv, Decisions
  <2>3. Fate = "absent" /\ Fate' = "live"
    BY <1>1, <1>4, <2>1, <2>2, FateIs, FateWillBe DEF stages
  <2> QED BY <1>1, <2>3 DEF Allowed, Contract!NextKey, Contract!CreateKey
<1> QED BY <1>2, <1>3, <1>4

\* A creator's receipt is given while the key is live or bound.
LEMMA CreatedAllowed ==
  ASSUME VaultInv, TypeOK', minted, ~fence, UNCHANGED <<stages, active>>,
         answers' = answers \cup {"created"}
  PROVE  Allowed
<1>1. TypeOK /\ active = "first"
  BY DEF VaultInv, Unfenced
<1>2. Fate' = Fate
  BY <1>1, FateKept DEF stages
<1>3. Fate \in {"live"} \cup Preparations
  BY <1>1, FateIs DEF TypeOK
<1>4. Contract!Supports("created") = {"live"} \cup Preparations
  BY DEF Contract!Supports
<1>5. "created" \in Answers
  BY DEF Answers
<1> QED BY <1>2, <1>3, <1>4, <1>5, AnswerAllowed

\* An erasure is answered once it is witnessed.
LEMMA ErasedAllowed ==
  ASSUME VaultInv, TypeOK', erased, UNCHANGED <<stages, active>>,
         answers' = answers \cup {"erased"}
  PROVE  Allowed
<1>1. Fate' = Fate /\ Fate = "erased"
  BY FateIs, FateKept DEF VaultInv, stages
<1>2. Contract!Supports("erased") = {"erased"} /\ "erased" \in Answers
  BY DEF Contract!Supports, Answers
<1> QED BY <1>1, <1>2, AnswerAllowed

\* The receipt of a creator, or the withdrawal of its envelope after the fence.
LEMMA CreatesAllowed ==
  ASSUME VaultInv, TypeOK', NEW p \in Procs, CheckCreate(p) \/ ConfirmCreate(p)
  PROVE  Allowed
<1>0. TypeOK /\ Knows(proc[p])
  BY DEF VaultInv
<1>1. CASE CheckCreate(p)
  <2>1. UNCHANGED <<stages, active>>
    BY <1>1 DEF CheckCreate, content
  <2>2. CASE answers' = answers
    BY <1>0, <2>1, <2>2, QuietAllowed
  <2>3. CASE answers' # answers
    <3>1. disposition \in Preparations /\ answers' = answers \cup {"created"}
      BY <1>1, <2>3 DEF CheckCreate, Refuse, Return, Step
    <3>2. minted /\ ~fence
      BY <3>1 DEF VaultInv, Decisions
    <3> QED BY <2>1, <3>1, <3>2, CreatedAllowed
  <2> QED BY <2>2, <2>3
<1>2. CASE ConfirmCreate(p)
  <2>1. CASE Withdrawn
    <3>1. fence /\ answers' = answers /\ UNCHANGED stages
      BY <1>0, <1>2, <2>1 DEF TypeOK, Withdrawn, ConfirmCreate, Step
    <3> QED BY <1>0, <3>1, FateKept, SilenceAllowed DEF stages
  <2>2. CASE ~Withdrawn
    <3>1. minted /\ ~fence /\ UNCHANGED <<stages, active>> /\ answers' = answers \cup {"created"}
      BY <1>0, <1>2, <2>2 DEF Knows, Withdrawn, ConfirmCreate, Return, content
    <3> QED BY <3>1, CreatedAllowed
  <2> QED BY <2>1, <2>2
<1> QED BY <1>1, <1>2

\* The link of the decision to bind is where the key is bound; the answer comes later.
LEMMA BindsAllowed ==
  ASSUME VaultInv, TypeOK', NEW p \in Procs, DecideBind(p) \/ ConfirmBind(p)
  PROVE  Allowed
<1>0. TypeOK /\ Knows(proc[p])
  BY DEF VaultInv
<1>1. CASE DecideBind(p)
  <2>0. proc[p].prep \in Preparations /\ kind = "output" /\ minted
    BY <1>0, <1>1 DEF Knows, DecideBind
  <2>1. fence' = fence /\ erased' = erased /\ active' = active /\ answers' = answers
    BY <1>1 DEF DecideBind, Step, content
  <2>2. CASE disposition = "none"
    <3>1. ~fence /\ active = "first"
      BY <2>0, <2>2 DEF VaultInv, Decisions, Unfenced
    <3>2. disposition \notin Preparations /\ disposition' = proc[p].prep
      BY <1>1, <2>2, PreparationsAssumption DEF DecideBind, Decided
    <3>3. Fate = "live" /\ Fate' = proc[p].prep
      BY <1>0, <2>0, <2>1, <3>1, <3>2, FateIs, FateWillBe
    <3> QED BY <2>0, <2>1, <3>3 DEF Allowed, Contract!NextKey, Contract!BindKey
  <2>3. CASE disposition # "none"
    <3>1. disposition' = disposition
      BY <1>1, <2>3 DEF DecideBind, Decided
    <3> QED BY <1>0, <2>1, <3>1, FateKept, SilenceAllowed
  <2> QED BY <2>2, <2>3
<1>2. CASE ConfirmBind(p)
  <2>1. UNCHANGED <<stages, active>>
    BY <1>2 DEF ConfirmBind, content
  <2>2. CASE answers' = answers
    BY <1>0, <2>1, <2>2, QuietAllowed
  <2>3. CASE answers' # answers
    <3>1. disposition \in Preparations /\ answers' = answers \cup {disposition}
      BY <1>0, <1>2, <2>3 DEF Knows, ConfirmBind, Refuse, Return
    <3>2. ~fence
      BY <3>1 DEF VaultInv, Decisions
    <3>3. Fate' = Fate /\ Fate = disposition
      BY <1>0, <2>1, <3>1, <3>2, FateIs, FateKept DEF stages
    <3>4. Contract!Supports(disposition) = {disposition}
      BY <3>1, PreparationsAssumption DEF Contract!Supports
    <3>5. disposition \in Answers
      BY <3>1 DEF Answers
    <3> QED BY <3>1, <3>3, <3>4, <3>5, AnswerAllowed
  <2> QED BY <2>2, <2>3
<1> QED BY <1>1, <1>2

\* The fence of a retirement, of either kind of key, and the fence prepare_erasure
\* publishes and answers.
LEMMA FencesAllowed ==
  ASSUME VaultInv, TypeOK', NEW p \in Procs, PublishFence(p) \/ PrepareErasure(p)
  PROVE  Allowed
<1>0. TypeOK /\ Knows(proc[p])
  BY DEF VaultInv
<1>1. /\ fence' = TRUE /\ erased' = erased /\ disposition' = disposition /\ active' = active
      /\ \/ answers' = answers
         \/ PrepareErasure(p) /\ answers' = answers \cup {"fenced"}
  BY DEF PublishFence, PrepareErasure, Step, Return, content
<1>2. CASE ~fence
  <2>1. ~erased
    BY <1>0, <1>2 DEF TypeOK
  <2>2. disposition \notin Preparations
    BY <1>0, PreparationsAssumption
    DEF Knows, VaultInv, TypeOK, Kinds, Decisions, PublishFence, PrepareErasure
  <2>3. Fate \in {"absent", "live"} /\ Fate' = "fenced"
    BY <1>0, <1>1, <1>2, <2>1, <2>2, FateIs, FateWillBe
  <2> QED BY <1>1, <2>3 DEF Allowed, Contract!NextKey, Contract!FenceKey
<1>3. CASE fence
  <2>1. Fate' = Fate
    BY <1>0, <1>1, <1>3, FateKept DEF TypeOK
  <2>2. Fate \in {"fenced", "erased"}
    BY <1>0, <1>3, FateIs DEF TypeOK
  <2>3. Contract!Supports("fenced") = {"fenced", "erased"} /\ "fenced" \in Answers
    BY DEF Contract!Supports, Answers
  <2> QED BY <1>1, <2>1, <2>2, <2>3, AnswerAllowed, SilenceAllowed
<1> QED BY <1>0, <1>2, <1>3 DEF TypeOK

\* Publishing the witness erases the key; publishing it again changes nothing.
LEMMA WitnessAllowed ==
  ASSUME VaultInv, TypeOK', NEW p \in Procs, PublishWitness(p)
  PROVE  Allowed
<1>1. /\ TypeOK /\ fence
      /\ fence' = fence /\ erased' = TRUE /\ answers' = answers /\ disposition' = disposition
  BY DEF VaultInv, Knows, PublishWitness, Step
<1>2. CASE erased
  BY <1>1, <1>2, FateIs, FateWillBe, SilenceAllowed
<1>3. CASE ~erased
  <2>1. Fate = "fenced" /\ Fate' = "erased"
    BY <1>1, <1>3, FateIs, FateWillBe
  <2> QED BY <1>1, <2>1 DEF Allowed, Contract!NextKey, Contract!EraseKey
<1> QED BY <1>2, <1>3

\* The rest of the retirement moves the files of a key that is fenced already.
LEMMA RetirementAllowed ==
  ASSUME VaultInv, TypeOK', NEW p \in Procs,
         DecideRetire(p) \/ ReadWitness(p) \/ RetireActive(p) \/ RemoveEnvelope(p) \/ FinishRetire(p)
  PROVE  Allowed
<1>0. TypeOK /\ Knows(proc[p])
  BY DEF VaultInv
<1>1. CASE DecideRetire(p)
  <2>1. /\ fence' = fence /\ erased' = erased /\ active' = active /\ answers' = answers
        /\ disposition' = IF disposition = "none" THEN "retire" ELSE disposition
    BY <1>1 DEF DecideRetire, Decided, Step, content
  <2>2. "none" \notin Preparations /\ "retire" \notin Preparations
    BY PreparationsAssumption
  <2> QED BY <1>0, <2>1, <2>2, FateKept, SilenceAllowed
<1>2. CASE ReadWitness(p)
  <2>1. CASE erased
    BY <1>2, <2>1, ErasedAllowed DEF ReadWitness, Return
  <2>2. CASE ~erased
    BY <1>0, <1>2, <2>2, QuietAllowed DEF ReadWitness, Step, content
  <2> QED BY <2>1, <2>2
<1>3. CASE RetireActive(p)
  <2>1. fence /\ UNCHANGED stages /\ answers' = answers
    BY <1>0, <1>3 DEF Knows, RetireActive, Step, Refuse
  <2> QED BY <1>0, <2>1, FateKept, SilenceAllowed DEF stages
<1>4. CASE RemoveEnvelope(p)
  BY <1>0, <1>4, QuietAllowed DEF RemoveEnvelope, Step
<1>5. CASE FinishRetire(p)
  <2>1. erased
    BY <1>0, <1>5 DEF Knows, FinishRetire
  <2> QED BY <1>5, <2>1, ErasedAllowed DEF FinishRetire, Return
<1> QED BY <1>1, <1>2, <1>3, <1>4, <1>5

\* Making the directory puts no data key in it.
LEMMA MakeActiveAllowed ==
  ASSUME VaultInv, TypeOK', NEW p \in Procs, MakeActive(p)
  PROVE  Allowed
<1>1. TypeOK /\ UNCHANGED stages /\ answers' = answers /\ (active' = "first" <=> active = "first")
  BY DEF VaultInv, MakeActive, Exists, Step
<1> QED BY <1>1, FateKept, SilenceAllowed DEF stages

\* Every other step reads, or writes what the contract does not see.
LEMMA OthersAllowed ==
  ASSUME VaultInv, TypeOK', NEW p \in Procs,
         \/ CallCreate(p) \/ CallRetire(p)
         \/ (\E prep \in Preparations : CallBind(p, prep))
         \/ (\E prep \in {"none"} \cup Preparations : CallOpen(p, prep))
         \/ ReadClaim(p) \/ CheckClaim(p) \/ Probe(p) \/ ReadEnvelope(p)
         \/ CheckBind(p) \/ CheckRetire(p) \/ ConfirmRetire(p)
         \/ PublishClaim(p) \/ UnlinkTemporary(p) \/ WithdrawEnvelope(p) \/ OpenEnvelope(p) \/ Abandon(p)
  PROVE  Allowed
<1>1. TypeOK /\ kind' = kind /\ disposition' = disposition /\ fence' = fence /\ erased' = erased
      /\ active' = active /\ answers' = answers
  BY DEF VaultInv, CallCreate, CallRetire, CallBind, CallOpen, ReadClaim, CheckClaim, Probe,
         ReadEnvelope, CheckBind, CheckRetire, ConfirmRetire, PublishClaim, UnlinkTemporary,
         WithdrawEnvelope, OpenEnvelope, Abandon, Step, Refuse, stages, content
<1> QED BY <1>1, FateKept, SilenceAllowed

\* Every step of the vault is one of its contract, or changes nothing it sees.
LEMMA StepsAllowed == VaultInv /\ VaultInv' /\ [Next]_vars => [Contract!NextKey]_Contract!lifecycleVars
<1>1. ASSUME VaultInv, VaultInv', Next PROVE Allowed
  <2>1. TypeOK'
    BY <1>1 DEF VaultInv
  <2>2. PICK p \in Procs :
          \/ CallCreate(p) \/ CallRetire(p)
          \/ (\E prep \in Preparations : CallBind(p, prep))
          \/ (\E prep \in {"none"} \cup Preparations : CallOpen(p, prep))
          \/ ReadClaim(p) \/ CheckClaim(p) \/ Probe(p) \/ ReadEnvelope(p)
          \/ CheckBind(p) \/ CheckRetire(p) \/ ConfirmRetire(p)
          \/ PublishClaim(p) \/ UnlinkTemporary(p) \/ WithdrawEnvelope(p) \/ OpenEnvelope(p) \/ Abandon(p)
          \/ CheckCreate(p) \/ ConfirmCreate(p) \/ LinkEnvelope(p) \/ MakeActive(p)
          \/ DecideBind(p) \/ ConfirmBind(p) \/ PublishFence(p) \/ PrepareErasure(p)
          \/ PublishWitness(p) \/ DecideRetire(p) \/ ReadWitness(p) \/ RetireActive(p)
          \/ RemoveEnvelope(p) \/ FinishRetire(p)
    BY <1>1 DEF Next
  <2> QED
    BY <1>1, <2>1, <2>2, OthersAllowed, CreatesAllowed, LinkEnvelopeAllowed, MakeActiveAllowed,
       BindsAllowed, FencesAllowed, WitnessAllowed, RetirementAllowed
<1>2. ASSUME VaultInv, UNCHANGED vars PROVE UNCHANGED Contract!lifecycleVars
  BY <1>2 DEF vars, Fate, Withdrawn, Contract!lifecycleVars
<1> QED BY <1>1, <1>2 DEF Allowed

\* No file of a new key is there: the contract's key is absent and nothing was answered.
LEMMA InitAllowed == Init => Contract!InitKey
BY PreparationsAssumption DEF Init, Fate, Withdrawn, Contract!InitKey

\* The vault of lock-free file-system calls implements the lifecycle its trait promises,
\* whatever processes use the key and wherever they stop.
THEOREM VaultImplementsLifecycle == Spec => ImplementsLifecycle
BY InitAllowed, StepsAllowed, VaultInvariant, PTL DEF Spec, ImplementsLifecycle,
      Contract!LifecycleSpec
=============================================================================
