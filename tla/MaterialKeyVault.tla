-------------------------- MODULE MaterialKeyVault --------------------------
(***************************************************************************)
(* The host vault: one material key on the file system, as                 *)
(* HostMaterialKeyVault keeps it.                                          *)
(*                                                                         *)
(* A key is a directory.  In it a stage (claim, output-disposition, fence, *)
(* erased) is a file published once and for all by a hard link that fails  *)
(* when the name is taken; the sealed data key, the envelope, lies in the  *)
(* subdirectory "active", which retirement renames to "retired-active".    *)
(* No lock is held: any number of processes run the operations below at    *)
(* once, each a sequence of file-system calls, and each may stop between   *)
(* any two of them.  Keys share nothing, so one key is modelled.           *)
(*                                                                         *)
(* A data key is known by whether it is the first one the directory ever   *)
(* held, the one a receipt stands for, or a later one.  A check that reads *)
(* several stages is one step: stages are only ever added, so reads that   *)
(* straddle a change pass as they would have at one instant, or refuse,    *)
(* which Abandon allows anywhere.                                          *)
(***************************************************************************)
EXTENDS Naturals, FiniteSets

CONSTANTS
    Procs,          \* the processes calling the vault
    Preparations    \* the result preparations a key may be bound to

ASSUME PreparationsAssumption ==
    Preparations \cap {"absent", "live", "fenced", "erased", "created", "none", "retire"} = {}

VARIABLES
    kind,           \* "ordinary" or "output": the authority every caller of this key holds
    claimed,        \* the claim stage
    active,         \* the directory "active": absent, or the data key in it, if any
    retired,        \* the directory "retired-active", likewise
    spare,          \* where a second name of the first data key lies, if anywhere
    disposition,    \* the output-disposition stage: none, retire, or the bound preparation
    fence,          \* the fence stage
    erased,         \* the erased stage
    minted,         \* whether some data key was ever installed
    opened,         \* the data keys some callback was run on
    answers,        \* every answer some call returned
    proc            \* what each process is doing

vars == <<kind, claimed, active, retired, spare, disposition, fence, erased, minted,
          opened, answers, proc>>

Kinds == {"ordinary", "output"}

\* A directory is absent, holds no envelope, or holds the envelope of a data key.
Directories == {"absent", "none", "first", "later"}

Holding == {"first", "later"}

Calls == {"create", "retire", "bind", "open"}

Points == {"claim", "make_active", "publish_claim", "claim_check",
           "create_check", "probe", "link", "unlink", "read", "confirm", "withdraw",
           "bind_check", "decide_bind", "bind_decided",
           "retire_check", "decide_retire", "retire_decided", "witnessed", "fence", "rename", "remove",
           "witness", "finish", "open_read"}

Idle == [op |-> "none", at |-> "idle", prep |-> "none"]

Answers == {"created", "fenced", "erased"} \cup Preparations

Exists(directory) == directory # "absent"

\* the directory after remove_file of the envelope in it
Emptied(directory) == IF Exists(directory) THEN "none" ELSE "absent"

Init ==
    /\ kind \in Kinds
    /\ claimed = FALSE
    /\ active = "absent"
    /\ retired = "absent"
    /\ spare = "none"
    /\ disposition = "none"
    /\ fence = FALSE
    /\ erased = FALSE
    /\ minted = FALSE
    /\ opened = {}
    /\ answers = {}
    /\ proc = [p \in Procs |-> Idle]

Go(p, point) == proc' = [proc EXCEPT ![p].at = point]

Stop(p) == proc' = [proc EXCEPT ![p] = Idle]

Return(p, answer) ==
    /\ Stop(p)
    /\ answers' = answers \cup {answer}

Refuse(p) == Stop(p) /\ UNCHANGED answers

Step(p, point) == Go(p, point) /\ UNCHANGED answers

stages == <<kind, claimed, disposition, fence, erased>>
content == <<active, retired, spare, minted, opened>>

\* retired: the key is fenced or erased
Withdrawn == fence \/ erased

\* The consistency output_disposition demands before it believes the stage.
OutputSane ==
    /\ erased => fence /\ ~Exists(active)
    /\ Exists(active) # Exists(retired)
    /\ Exists(retired) => fence
    /\ disposition \in Preparations => ~Withdrawn /\ Exists(active)

-----------------------------------------------------------------------------
(* claim: reserve the key for this authority, whatever stage it is in      *)

\* create_if_absent and create_embedding_output_if_absent begin with the claim.
CallCreate(p) ==
    /\ proc[p] = Idle
    /\ proc' = [proc EXCEPT ![p] = [op |-> "create", at |-> "claim", prep |-> "none"]]
    /\ UNCHANGED <<stages, content, answers>>

\* retire_embedding_output, and erase, which is for ordinary keys and wants the fence.
CallRetire(p) ==
    /\ proc[p] = Idle
    /\ kind = "ordinary" => claimed /\ fence
    /\ proc' = [proc EXCEPT ![p] = [op |-> "retire", at |-> "claim", prep |-> "none"]]
    /\ UNCHANGED <<stages, content, answers>>

ReadClaim(p) ==
    /\ proc[p].at = "claim"
    /\ Step(p, IF claimed THEN "publish_claim" ELSE "make_active")
    /\ UNCHANGED <<stages, content>>

\* create_dir: what another process made since is no error
MakeActive(p) ==
    /\ proc[p].at = "make_active"
    /\ active' = IF Exists(active) THEN active ELSE "none"
    /\ Step(p, "publish_claim")
    /\ UNCHANGED <<stages, retired, spare, minted, opened>>

PublishClaim(p) ==
    /\ proc[p].at = "publish_claim"
    /\ claimed' = TRUE
    /\ Step(p, "claim_check")
    /\ UNCHANGED <<kind, disposition, fence, erased, content>>

\* Exactly one of the two directories must be there.
CheckClaim(p) ==
    /\ proc[p].at = "claim_check"
    /\ IF Exists(active) = Exists(retired)
       THEN Refuse(p)
       ELSE Step(p, CASE proc[p].op = "create" -> "create_check"
                      [] kind = "output" -> "retire_check"
                      [] OTHER -> "witnessed")
    /\ UNCHANGED <<stages, content>>

-----------------------------------------------------------------------------
(* create_new                                                              *)

CheckCreate(p) ==
    /\ proc[p].at = "create_check"
    /\ \/ /\ kind = "output"
          /\ ~OutputSane \/ disposition = "retire"
          /\ Refuse(p)
       \/ /\ kind = "output"
          /\ OutputSane
          /\ disposition \in Preparations
          /\ IF active \in Holding THEN Return(p, "created") ELSE Refuse(p)
       \/ /\ kind = "output" => OutputSane /\ disposition = "none"
          /\ IF Withdrawn THEN Refuse(p) ELSE Step(p, "probe")
    /\ UNCHANGED <<stages, content>>

\* publish_active looks before it writes
Probe(p) ==
    /\ proc[p].at = "probe"
    /\ IF Exists(active) /\ ~Exists(retired) THEN Step(p, "link") ELSE Refuse(p)
    /\ UNCHANGED <<stages, content>>

\* hard_link gives the new envelope its name, unless the name is taken or the
\* directory has gone.  The envelope keeps its temporary name for now.
LinkEnvelope(p) ==
    /\ proc[p].at = "link"
    /\ \/ /\ ~Exists(active)
          /\ Refuse(p)
          /\ UNCHANGED content
       \/ /\ active = "none"
          /\ active' = IF minted THEN "later" ELSE "first"
          /\ spare' = IF minted THEN spare ELSE "active"
          /\ minted' = TRUE
          /\ Step(p, IF minted THEN "read" ELSE "unlink")
          /\ UNCHANGED <<retired, opened>>
       \/ /\ active \in Holding
          /\ Step(p, "read")
          /\ UNCHANGED content
    /\ UNCHANGED stages

\* remove_file of the temporary name, whose failure is ignored
UnlinkTemporary(p) ==
    /\ proc[p].at = "unlink"
    /\ spare' = IF spare = "active" THEN "none" ELSE spare
    /\ Step(p, "read")
    /\ UNCHANGED <<stages, active, retired, minted, opened>>

ReadEnvelope(p) ==
    /\ proc[p].at = "read"
    /\ IF active \in Holding THEN Step(p, "confirm") ELSE Refuse(p)
    /\ UNCHANGED <<stages, content>>

MutConfirmCreate(p) ==
    /\ proc[p].at = "confirm"
    /\ Return(p, "created")
    /\ UNCHANGED <<stages, content>>

\* A creator that finds the key withdrawn under it takes its envelope away,
\* wherever it lies: from "active" first,
ConfirmCreate(p) ==
    /\ proc[p].at = "confirm"
    /\ IF Withdrawn
       THEN /\ active' = Emptied(active)
            /\ Step(p, "withdraw")
            /\ UNCHANGED <<retired, spare, minted, opened>>
       ELSE /\ Return(p, "created")
            /\ UNCHANGED content
    /\ UNCHANGED stages

\* and then from "retired-active".
WithdrawEnvelope(p) ==
    /\ proc[p].at = "withdraw"
    /\ retired' = Emptied(retired)
    /\ Refuse(p)
    /\ UNCHANGED <<stages, active, spare, minted, opened>>

-----------------------------------------------------------------------------
(* bind_embedding_output                                                   *)

CallBind(p, prep) ==
    /\ proc[p] = Idle
    /\ kind = "output"
    /\ claimed
    /\ proc' = [proc EXCEPT ![p] = [op |-> "bind", at |-> "bind_check", prep |-> prep]]
    /\ UNCHANGED <<stages, content, answers>>

\* No decision may bless a missing envelope.
CheckBind(p) ==
    /\ proc[p].at = "bind_check"
    /\ IF OutputSane /\ ~Withdrawn /\ active \in Holding
       THEN Step(p, "decide_bind")
       ELSE Refuse(p)
    /\ UNCHANGED <<stages, content>>

\* The one name both deciders publish under: whoever links first decides.
Decided(choice) == IF disposition = "none" THEN choice ELSE disposition

DecideBind(p) ==
    /\ proc[p].at = "decide_bind"
    /\ disposition' = Decided(proc[p].prep)
    /\ Step(p, "bind_decided")
    /\ UNCHANGED <<kind, claimed, fence, erased, content>>

ConfirmBind(p) ==
    /\ proc[p].at = "bind_decided"
    /\ IF OutputSane /\ disposition = proc[p].prep
       THEN Return(p, disposition)
       ELSE Refuse(p)
    /\ UNCHANGED <<stages, content>>

-----------------------------------------------------------------------------
(* retire_new                                                              *)

\* output_retirement_decision: a bound output is never retired.
CheckRetire(p) ==
    /\ proc[p].at = "retire_check"
    /\ IF OutputSane /\ disposition \notin Preparations
       THEN Step(p, "decide_retire")
       ELSE Refuse(p)
    /\ UNCHANGED <<stages, content>>

DecideRetire(p) ==
    /\ proc[p].at = "decide_retire"
    /\ disposition' = Decided("retire")
    /\ Step(p, "retire_decided")
    /\ UNCHANGED <<kind, claimed, fence, erased, content>>

MutConfirmRetire(p) ==
    /\ proc[p].at = "retire_decided"
    /\ Step(p, "witnessed")
    /\ UNCHANGED <<stages, content>>

ConfirmRetire(p) ==
    /\ proc[p].at = "retire_decided"
    /\ IF OutputSane /\ disposition = "retire" THEN Step(p, "witnessed") ELSE Refuse(p)
    /\ UNCHANGED <<stages, content>>

\* An erasure witnessed before is answered again, after one more removal.
ReadWitness(p) ==
    /\ proc[p].at = "witnessed"
    /\ IF erased
       THEN /\ retired' = Emptied(retired)
            /\ Return(p, "erased")
            /\ UNCHANGED <<active, spare, minted, opened>>
       ELSE /\ Step(p, "fence")
            /\ UNCHANGED content
    /\ UNCHANGED stages

MutPublishFence(p) ==
    /\ proc[p].at = "fence"
    /\ Step(p, "rename")
    /\ UNCHANGED <<stages, content>>

PublishFence(p) ==
    /\ proc[p].at = "fence"
    /\ fence' = TRUE
    /\ Step(p, "rename")
    /\ UNCHANGED <<kind, claimed, disposition, erased, content>>

\* rename moves the directory with all it holds; it replaces an empty
\* directory and fails on any other.
RetireActive(p) ==
    /\ proc[p].at = "rename"
    /\ \/ /\ Exists(active)
          /\ retired \in {"absent", "none"} /\ spare # "retired"
          /\ retired' = active
          /\ active' = "absent"
          /\ spare' = IF spare = "active" THEN "retired" ELSE spare
          /\ Step(p, "remove")
          /\ UNCHANGED <<minted, opened>>
       \/ /\ ~Exists(active)
          /\ Exists(retired)
          /\ Step(p, "remove")
          /\ UNCHANGED content
       \/ /\ Exists(active) => retired \in Holding \/ spare = "retired"
          /\ ~Exists(active) => ~Exists(retired)
          /\ Refuse(p)
          /\ UNCHANGED content
    /\ UNCHANGED stages

MutRemoveEnvelope(p) ==
    /\ proc[p].at = "remove"
    /\ Step(p, "witness")
    /\ UNCHANGED <<stages, content>>

RemoveEnvelope(p) ==
    /\ proc[p].at = "remove"
    /\ retired' = Emptied(retired)
    /\ Step(p, "witness")
    /\ UNCHANGED <<stages, active, spare, minted, opened>>

PublishWitness(p) ==
    /\ proc[p].at = "witness"
    /\ erased' = TRUE
    /\ Step(p, "finish")
    /\ UNCHANGED <<kind, claimed, disposition, fence, content>>

FinishRetire(p) ==
    /\ proc[p].at = "finish"
    /\ retired' = Emptied(retired)
    /\ Return(p, "erased")
    /\ UNCHANGED <<stages, active, spare, minted, opened>>

\* prepare_erasure, for ordinary keys only
PrepareErasure(p) ==
    /\ proc[p] = Idle
    /\ kind = "ordinary"
    /\ claimed
    /\ fence' = TRUE
    /\ Return(p, "fenced")
    /\ UNCHANGED <<kind, claimed, disposition, erased, content>>

-----------------------------------------------------------------------------
(* unwrap, with_embedding_output_key and with_bound_embedding_output_key:   *)
(* the stages are read first, the envelope after them                       *)

MayOpen(prep) ==
    /\ claimed
    /\ IF kind = "ordinary"
       THEN prep = "none" /\ ~Withdrawn
       ELSE /\ OutputSane
            /\ disposition = prep
            /\ prep = "none" => ~Withdrawn

CallOpen(p, prep) ==
    /\ proc[p] = Idle
    /\ MayOpen(prep)
    /\ proc' = [proc EXCEPT ![p] = [op |-> "open", at |-> "open_read", prep |-> prep]]
    /\ UNCHANGED <<stages, content, answers>>

\* The callback runs on whatever data key lies in "active" now.
OpenEnvelope(p) ==
    /\ proc[p].at = "open_read"
    /\ opened' = opened \cup ({active} \cap Holding)
    /\ Refuse(p)
    /\ UNCHANGED <<stages, active, retired, spare, minted>>

\* An input-output error, or the end of the process, between any two calls.
Abandon(p) ==
    /\ proc[p] # Idle
    /\ Refuse(p)
    /\ UNCHANGED <<stages, content>>

Next ==
    \E p \in Procs :
        \/ CallCreate(p)
        \/ CallRetire(p)
        \/ ReadClaim(p)
        \/ MakeActive(p)
        \/ PublishClaim(p)
        \/ CheckClaim(p)
        \/ CheckCreate(p)
        \/ Probe(p)
        \/ LinkEnvelope(p)
        \/ UnlinkTemporary(p)
        \/ ReadEnvelope(p)
        \/ ConfirmCreate(p)
        \/ WithdrawEnvelope(p)
        \/ \E prep \in Preparations : CallBind(p, prep)
        \/ CheckBind(p)
        \/ DecideBind(p)
        \/ ConfirmBind(p)
        \/ CheckRetire(p)
        \/ DecideRetire(p)
        \/ ConfirmRetire(p)
        \/ ReadWitness(p)
        \/ PublishFence(p)
        \/ RetireActive(p)
        \/ RemoveEnvelope(p)
        \/ PublishWitness(p)
        \/ FinishRetire(p)
        \/ PrepareErasure(p)
        \/ \E prep \in {"none"} \cup Preparations : CallOpen(p, prep)
        \/ OpenEnvelope(p)
        \/ Abandon(p)

Spec == Init /\ [][Next]_vars

-----------------------------------------------------------------------------
(* What the vault must keep                                                *)

TypeOK ==
    /\ kind \in Kinds
    /\ claimed \in BOOLEAN
    /\ active \in Directories
    /\ retired \in Directories
    /\ spare \in {"none", "active", "retired"}
    /\ disposition \in {"none", "retire"} \cup Preparations
    /\ fence \in BOOLEAN
    /\ erased \in BOOLEAN
    /\ minted \in BOOLEAN
    /\ opened \subseteq Holding
    /\ answers \subseteq Answers
    /\ proc \in [Procs -> [op : Calls \cup {"none"}, at : Points \cup {"idle"},
                            prep : Preparations \cup {"none"}]]
    /\ erased => fence

\* A key bound to a preparation is never lost: the data key it had when its
\* result was sealed stays in place, unfenced, whatever creators and retirers
\* are still under way, and every callback so far ran on that data key.
BoundKeyKept ==
    disposition \in Preparations =>
        /\ active = "first" /\ ~Withdrawn
        /\ opened \subseteq {active}

\* A receipt of erasure holds for good: once the erased stage is published,
\* the data key some creator was given a receipt for is an envelope in neither
\* directory, and "active", from which every callback is served, holds no
\* second name of it either.  The temporary name of a creator that had not yet
\* removed it may have been carried into "retired-active" by the rename; no
\* operation reads it there, and none removes it (material_vault.rs,
\* publish_active and retire_new).
ErasureHolds ==
    erased /\ "created" \in answers =>
        /\ "first" \notin {active, retired}
        /\ spare # "active"

\* The vault as its contract sees it.  The key is live until the fence, not
\* until the decision to retire it: a creator may still be given its receipt.
Fate ==
    CASE erased -> "erased"
      [] fence /\ ~erased -> "fenced"
      [] ~Withdrawn /\ disposition \in Preparations -> disposition
      [] ~Withdrawn /\ disposition \notin Preparations /\ active = "first" -> "live"
      [] OTHER -> "absent"

Contract == INSTANCE KeyLifecycle WITH key <- Fate, answers <- answers

\* Each operation, a dozen file-system calls any process may stop between,
\* takes effect at one of them: the lock-free vault implements KeyLifecycle.
ImplementsLifecycle == Contract!LifecycleSpec
=============================================================================
