---------------------------- MODULE KeyLifecycle ----------------------------
(***************************************************************************)
(* What the host vault promises of one material key, whatever processes    *)
(* use it and however often they stop: the contract the documentation      *)
(* comments of MaterialKeyVault state, each operation in one step.         *)
(*                                                                         *)
(* A key is made once.  From then on it has one fate: it is bound to the   *)
(* preparation whose result it sealed and stays, or it is fenced and       *)
(* erased.  answers holds every answer some call has returned.             *)
(***************************************************************************)
CONSTANT Preparations   \* the result preparations a key may be bound to

VARIABLES
    key,        \* "absent", "live", "fenced", "erased", or the preparation it is bound to
    answers     \* the answers the vault has given about the key

lifecycleVars == <<key, answers>>

Fates == {"absent", "live", "fenced", "erased"} \cup Preparations

Answers == {"created", "fenced", "erased"} \cup Preparations

InitKey ==
    /\ key = "absent"
    /\ answers = {}

\* create_if_absent and create_embedding_output_if_absent
CreateKey ==
    /\ key = "absent"
    /\ key' = "live"
    /\ UNCHANGED answers

\* bind_embedding_output
BindKey(p) ==
    /\ key = "live"
    /\ key' = p
    /\ answers' \in {answers, answers \cup {p}}

\* prepare_erasure, and the decision of retire_embedding_output
FenceKey ==
    /\ key \in {"absent", "live"}
    /\ key' = "fenced"
    /\ answers' \in {answers, answers \cup {"fenced"}}

\* erase and retire_embedding_output
EraseKey ==
    /\ key = "fenced"
    /\ key' = "erased"
    /\ UNCHANGED answers

\* an answer is given only while it is true of the key
Supports(answer) ==
    CASE answer = "created" -> {"live"} \cup Preparations
      [] answer = "fenced" -> {"fenced", "erased"}
      [] answer = "erased" -> {"erased"}
      [] OTHER -> {answer}

GiveAnswer(answer) ==
    /\ key \in Supports(answer)
    /\ answers' = answers \cup {answer}
    /\ UNCHANGED key

NextKey ==
    \/ CreateKey
    \/ \E p \in Preparations : BindKey(p)
    \/ FenceKey
    \/ EraseKey
    \/ \E answer \in Answers : GiveAnswer(answer)

LifecycleSpec == InitKey /\ [][NextKey]_lifecycleVars
=============================================================================
