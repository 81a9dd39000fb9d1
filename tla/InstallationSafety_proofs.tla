---------------------- MODULE InstallationSafety_proofs ----------------------
(***************************************************************************)
(* The installation safety authority keeps its witness replayable, its     *)
(* tables on one signed history, its committed checkpoints stored, a       *)
(* restore held and its keys until their erasure is journalled, for any    *)
(* number of supervisors, backup sets and holds and from any history that  *)
(* was signed and committed.                                               *)
(*                                                                         *)
(* The argument: an entry is signed over a head that is in the journal, so *)
(* the journal is closed under predecessors whoever writes it.  The tables *)
(* only ever follow the successor of their head, whose state was computed  *)
(* from the state at that head, so whatever a signed state was accepted    *)
(* for is true of the tables.  An entry has one owner until it is          *)
(* journalled, and what takes a staged frame away either owns the entry,   *)
(* has its immutable file, or has first cancelled its reservation.         *)
(***************************************************************************)
EXTENDS InstallationSafety, TLAPS, SequenceTheorems, WellFoundedInduction

-----------------------------------------------------------------------------
(* What is signed                                                          *)

\* The fields of a backup set, of an archive and of a restore attempt.
IsSet(x) ==
    /\ x = [life |-> x.life, objs |-> x.objs, prep |-> x.prep, erasing |-> x.erasing,
            holds |-> x.holds]
    /\ x.life \in Lifecycles /\ x.objs \in Seq(Nat) /\ x.erasing \in BOOLEAN
    /\ x.holds \subseteq Holds

IsArchive(archive) ==
    archive = [s \in Sets |-> archive[s]] /\ \A s \in Sets : IsSet(archive[s])

IsAttempt(attempt) ==
    /\ attempt = [stage |-> attempt.stage, set |-> attempt.set, hold |-> attempt.hold]
    /\ attempt.stage \in Stages
    /\ attempt.stage # "none" => attempt.set \in Sets /\ attempt.hold \in Holds

IsState(st) == IsArchive(st.archive) /\ IsAttempt(st.attempt)

\* The preparation an entry binds, read back from the state it carries.
Bound(e) == signed[e].state.archive[signed[e].set].prep

\* An entry was accepted by the state of its predecessor and carries the next.
Legal(e) ==
    LET x == signed[e] IN
    /\ x.prev \in 0 .. e - 1 /\ x.event \in Events /\ x.set \in Sets
    /\ x.event \in {"ArchiveRestoreHoldAcquired", "RestoreAttemptPrepared"} => x.hold \in Holds
    /\ Accepts(StateOf(x.prev), x.event, x.set, x.hold, Bound(e))
    /\ x.state = NextState(StateOf(x.prev), x.event, x.set, x.hold, e, Bound(e))
    /\ IsState(x.state)

Starts(e, s) == signed[e].event = "BackupSetStarted" /\ signed[e].set = s

Erases(e, s) == signed[e].event = "PreparedArchiveKeyErasure" /\ signed[e].set = s

\* A set that a state knows was started, and one whose key it erases was to be erased,
\* by an entry that is journalled or by the one that carries the state.
Sourced(e) ==
    \A s \in Sets :
        /\ signed[e].state.archive[s].life # "none" =>
               \E b \in journal \cup {e} : Starts(b, s)
        /\ signed[e].state.archive[s].erasing =>
               \E b \in journal \cup {e} : Erases(b, s)

SignedInv ==
    /\ signed \in Seq(ToSet(signed))
    /\ journal \subseteq DOMAIN signed
    /\ {witness, db.head} \subseteq journal \cup {0}
    /\ \A e \in DOMAIN signed :
           Legal(e) /\ Sourced(e) /\ signed[e].prev \in journal \cup {0}
    /\ \A e, f \in DOMAIN signed : \A s \in Sets : Starts(e, s) /\ Starts(f, s) => e = f

-----------------------------------------------------------------------------
(* The tables and the files                                                *)

IsDb ==
    /\ db = [head |-> db.head, archive |-> db.archive, attempt |-> db.attempt,
             generation |-> db.generation, released |-> db.released, intents |-> db.intents]
    /\ IsState(db)

Gone(s) == db.archive[s].life \in {"archive_key_erased", "deleted"}

Reserved(e) == \E i \in db.intents : i.id = e

Stored(s) ==
    \A o \in ToSet(db.archive[s].objs) :
        /\ o \in journal /\ Checkpoint(o) /\ signed[o].set = s /\ ~Reserved(o)
        /\ Gone(s) \/ o \in staged \cup promoted

TablesInv ==
    /\ IsDb /\ TablesAreSigned /\ RestoreIsHeld
    /\ \A s \in Sets : Stored(s)
    /\ \A i \in db.intents : i.id \in DOMAIN signed /\ i.id # db.head
    /\ \A i, j \in db.intents : i.id = j.id => i = j

KeyErased(s) == \E b \in journal : Erases(b, s)

KeysInv ==
    /\ keys \subseteq Sets
    /\ \A e \in journal : \A s \in Sets :
           signed[e].state.archive[s].life = "none" \/ s \in keys \/ KeyErased(s)

-----------------------------------------------------------------------------
(* The supervisors                                                         *)

\* Steps at which a supervisor is alone with its entry; the entry is not yet
\* journalled; it is; it is to be promoted; the supervisor has a set.
Owning == {"signed", "permitted", "reserved", "staged", "abandon", "orphan", "journalled",
           "advanced"}
Early == {"signed", "permitted", "reserved", "staged", "abandon", "orphan"}
Late == {"journalled", "advanced", "replay"}
Promoting == {"promote", "copy", "unstage"}
OnSet == {"prepare", "intend", "erase", "record", "list", "delete", "ensure", "activate", "mark",
          "resume"}

IsProc(x) ==
    x = [pc |-> x.pc, set |-> x.set, hold |-> x.hold, prep |-> x.prep, head |-> x.head,
         entry |-> x.entry, gone |-> x.gone]

\* What a supervisor knows of its entry.
KnowsEntry(x) ==
    /\ IsProc(x) /\ x.head \in journal \cup {0}
    /\ x.pc \in Owning =>
           /\ x.entry \in DOMAIN signed /\ signed[x.entry].set = x.set
           /\ signed[x.entry].event = "ManagedBackupDeletionPrepared" => x.prep = Bound(x.entry)
    /\ x.pc \in {"reserved", "staged"} => Checkpoint(x.entry)
    /\ x.pc \in Early => x.entry \notin journal
    /\ x.pc \in Late \cup Promoting => x.entry \in journal
    /\ x.pc \in OnSet => x.set \in Sets

\* What it knows of keys: a permitted start has made its key.
KnowsKeys(p, x) ==
    /\ x.pc = "permitted" =>
           /\ permit = p /\ ~Checkpoint(x.entry)
           /\ signed[x.entry].event = "BackupSetStarted" => x.set \in keys \/ KeyErased(x.set)
    /\ x.pc = "erase" => KeyErased(x.set)

\* What it knows of files.
KnowsFiles(x) ==
    /\ x.pc = "signed" => ~Reserved(x.entry)
    /\ x.pc \in {"staged", "journalled", "advanced"} /\ Checkpoint(x.entry) /\ Reserved(x.entry) =>
           x.entry \in staged
    /\ x.pc \in Promoting => ~Reserved(x.entry)
    /\ x.pc = "unstage" => x.entry \in promoted \/ Gone(signed[x.entry].set)
    /\ x.pc = "clean" =>
           \A o \in x.gone : /\ o \in DOMAIN signed /\ ~Reserved(o)
                             /\ \A s \in Sets : o \notin ToSet(db.archive[s].objs)
    /\ x.pc = "delete" => \A o \in x.gone : o \in DOMAIN signed /\ Gone(signed[o].set)

\* No two are alone with one entry, and what a reconcile cleans away is not to be reserved.
Apart(x, y) ==
    /\ x.pc \in Owning /\ y.pc \in Owning => x.entry # y.entry
    /\ x.pc = "clean" /\ y.pc = "signed" => y.entry \notin x.gone
    /\ y.pc = "clean" /\ x.pc = "signed" => x.entry \notin y.gone

ProcInv ==
    /\ proc = [p \in Supervisors |-> proc[p]]
    /\ \A p \in Supervisors :
           KnowsEntry(proc[p]) /\ KnowsKeys(p, proc[p]) /\ KnowsFiles(proc[p])
    /\ \A p, q \in Supervisors : p # q => Apart(proc[p], proc[q])

SafetyInv == SignedInv /\ TablesInv /\ KeysInv /\ ProcInv

-----------------------------------------------------------------------------
(* States and what follows them                                            *)

\* What an event makes of the set it is about.
NextSet(x, event, h, id, prep) ==
    [life |-> CASE event = "BackupSetStarted" -> "streaming"
                [] event = "ArchiveSealingStarted" -> "sealing"
                [] event = "ArchiveSealed" -> "sealed"
                [] event = "ManagedBackupDeletionPrepared" -> "deletion_prepared"
                [] event = "ArchiveKeyErased" -> "archive_key_erased"
                [] event = "ManagedBackupDeleted" -> "deleted"
                [] OTHER -> x.life,
     objs |-> CASE event = "BackupSetStarted" -> <<>>
                [] event = "ArchiveCheckpointCommitted" -> Append(x.objs, id)
                [] OTHER -> x.objs,
     prep |-> CASE event = "BackupSetStarted" -> None
                [] event = "ManagedBackupDeletionPrepared" -> prep
                [] OTHER -> x.prep,
     erasing |-> CASE event = "BackupSetStarted" -> FALSE
                   [] event = "PreparedArchiveKeyErasure" -> TRUE
                   [] OTHER -> x.erasing,
     holds |-> CASE event = "BackupSetStarted" -> {}
                 [] event = "ArchiveRestoreHoldAcquired" -> x.holds \cup {h}
                 [] OTHER -> x.holds]

\* A set with one of its fields replaced.
LEMMA FieldReplaced ==
  ASSUME NEW x, NEW v, NEW w,
         x = [life |-> x.life, objs |-> x.objs, prep |-> x.prep, erasing |-> x.erasing,
              holds |-> x.holds]
  PROVE  /\ [x EXCEPT !.life = v] = [life |-> v, objs |-> x.objs, prep |-> x.prep,
                                     erasing |-> x.erasing, holds |-> x.holds]
         /\ [x EXCEPT !.objs = v] = [life |-> x.life, objs |-> v, prep |-> x.prep,
                                     erasing |-> x.erasing, holds |-> x.holds]
         /\ [x EXCEPT !.erasing = v] = [life |-> x.life, objs |-> x.objs, prep |-> x.prep,
                                        erasing |-> v, holds |-> x.holds]
         /\ [x EXCEPT !.holds = v] = [life |-> x.life, objs |-> x.objs, prep |-> x.prep,
                                      erasing |-> x.erasing, holds |-> v]
         /\ [x EXCEPT !.life = v, !.prep = w] = [life |-> v, objs |-> x.objs, prep |-> w,
                                                 erasing |-> x.erasing, holds |-> x.holds]
<1>1. [x EXCEPT !.life = v]
       = [life |-> v, objs |-> x.objs, prep |-> x.prep, erasing |-> x.erasing, holds |-> x.holds]
  OBVIOUS
<1>2. [x EXCEPT !.objs = v]
       = [life |-> x.life, objs |-> v, prep |-> x.prep, erasing |-> x.erasing, holds |-> x.holds]
  OBVIOUS
<1>3. [x EXCEPT !.erasing = v]
       = [life |-> x.life, objs |-> x.objs, prep |-> x.prep, erasing |-> v, holds |-> x.holds]
  OBVIOUS
<1>4. [x EXCEPT !.holds = v]
       = [life |-> x.life, objs |-> x.objs, prep |-> x.prep, erasing |-> x.erasing, holds |-> v]
  OBVIOUS
<1>5. [x EXCEPT !.life = v, !.prep = w]
       = [life |-> v, objs |-> x.objs, prep |-> w, erasing |-> x.erasing, holds |-> x.holds]
  <2>1. PICK y : y = [x EXCEPT !.life = v]
    OBVIOUS
  <2>2. /\ y = [life |-> y.life, objs |-> y.objs, prep |-> y.prep, erasing |-> y.erasing,
                holds |-> y.holds]
        /\ y.life = v /\ y.objs = x.objs /\ y.erasing = x.erasing /\ y.holds = x.holds
    BY <1>1, <2>1
  <2>3. [y EXCEPT !.prep = w] = [life |-> y.life, objs |-> y.objs, prep |-> w,
                                 erasing |-> y.erasing, holds |-> y.holds]
    BY <2>2
  <2>4. [x EXCEPT !.life = v, !.prep = w] = [y EXCEPT !.prep = w]
    BY <2>1
  <2> QED BY <2>2, <2>3, <2>4
<1> QED BY <1>1, <1>2, <1>3, <1>4, <1>5

\* The set of an event is the only one it changes.
LEMMA NextArchiveIs ==
  ASSUME NEW a, IsArchive(a), NEW s \in Sets, NEW event, NEW h, NEW id, NEW prep
  PROVE  NextArchive(a, event, s, h, id, prep) = [a EXCEPT ![s] = NextSet(a[s], event, h, id, prep)]
<1>0. s \in DOMAIN a
  BY DEF IsArchive
<1>1. a[s] = [life |-> a[s].life, objs |-> a[s].objs, prep |-> a[s].prep,
                 erasing |-> a[s].erasing, holds |-> a[s].holds]
  BY DEF IsArchive, IsSet
<1>2. CASE event = "BackupSetStarted"
  <2>1. PICK x : x = [life |-> "streaming", objs |-> <<>>, prep |-> None,
                    erasing |-> FALSE, holds |-> {}]
    OBVIOUS
  <2>2. NextSet(a[s], event, h, id, prep) = x
    BY <1>2, <2>1 DEF NextSet
  <2>3. NextArchive(a, event, s, h, id, prep) = [a EXCEPT ![s] = [NoSet EXCEPT !.life = "streaming"]]
    BY <1>2 DEF NextArchive
  <2>4. [NoSet EXCEPT !.life = "streaming"] = [life |-> "streaming", objs |-> <<>>, prep |-> None,
                    erasing |-> FALSE, holds |-> {}]
    <3>1. /\ NoSet = [life |-> NoSet.life, objs |-> NoSet.objs, prep |-> NoSet.prep,
                      erasing |-> NoSet.erasing, holds |-> NoSet.holds]
          /\ NoSet.objs = <<>> /\ NoSet.prep = None /\ NoSet.erasing = FALSE /\ NoSet.holds = {}
      BY DEF NoSet
    <3>2. [NoSet EXCEPT !.life = "streaming"]
            = [life |-> "streaming", objs |-> NoSet.objs, prep |-> NoSet.prep,
               erasing |-> NoSet.erasing, holds |-> NoSet.holds]
      BY <3>1, FieldReplaced
    <3> QED BY <3>1, <3>2, Zenon
  <2>5. [a EXCEPT ![s] = [NoSet EXCEPT !.life = "streaming"]] = [a EXCEPT ![s] = x]
    BY <2>1, <2>4
  <2> QED BY <2>1, <2>2, <2>3, <2>4, <2>5
<1>3. CASE event = "ArchiveCheckpointCommitted"
  <2>1. PICK x : x = [life |-> a[s].life, objs |-> Append(a[s].objs, id), prep |-> a[s].prep,
                    erasing |-> a[s].erasing, holds |-> a[s].holds]
    OBVIOUS
  <2>2. NextSet(a[s], event, h, id, prep) = x
    BY <1>3, <2>1 DEF NextSet
  <2>3. NextArchive(a, event, s, h, id, prep) = [a EXCEPT ![s].objs = Append(@, id)]
    BY <1>3 DEF NextArchive
  <2>4. [a[s] EXCEPT !.objs = Append(a[s].objs, id)] = [life |-> a[s].life, objs |-> Append(a[s].objs, id), prep |-> a[s].prep,
                    erasing |-> a[s].erasing, holds |-> a[s].holds]
    BY <1>1, FieldReplaced
  <2>5. [a EXCEPT ![s].objs = Append(@, id)] = [a EXCEPT ![s] = [a[s] EXCEPT !.objs = Append(a[s].objs, id)]]
    BY <1>0
  <2> QED BY <2>1, <2>2, <2>3, <2>4, <2>5
<1>4. CASE event = "ArchiveRestoreHoldAcquired"
  <2>1. PICK x : x = [life |-> a[s].life, objs |-> a[s].objs, prep |-> a[s].prep,
                    erasing |-> a[s].erasing, holds |-> a[s].holds \cup {h}]
    OBVIOUS
  <2>2. NextSet(a[s], event, h, id, prep) = x
    BY <1>4, <2>1 DEF NextSet
  <2>3. NextArchive(a, event, s, h, id, prep) = [a EXCEPT ![s].holds = @ \cup {h}]
    BY <1>4 DEF NextArchive
  <2>4. [a[s] EXCEPT !.holds = a[s].holds \cup {h}] = [life |-> a[s].life, objs |-> a[s].objs, prep |-> a[s].prep,
                    erasing |-> a[s].erasing, holds |-> a[s].holds \cup {h}]
    BY <1>1, FieldReplaced
  <2>5. [a EXCEPT ![s].holds = @ \cup {h}] = [a EXCEPT ![s] = [a[s] EXCEPT !.holds = a[s].holds \cup {h}]]
    BY <1>0
  <2> QED BY <2>1, <2>2, <2>3, <2>4, <2>5
<1>5. CASE event = "ArchiveSealingStarted"
  <2>1. PICK x : x = [life |-> "sealing", objs |-> a[s].objs, prep |-> a[s].prep,
                    erasing |-> a[s].erasing, holds |-> a[s].holds]
    OBVIOUS
  <2>2. NextSet(a[s], event, h, id, prep) = x
    BY <1>5, <2>1 DEF NextSet
  <2>3. NextArchive(a, event, s, h, id, prep) = [a EXCEPT ![s].life = "sealing"]
    BY <1>5 DEF NextArchive
  <2>4. [a[s] EXCEPT !.life = "sealing"] = [life |-> "sealing", objs |-> a[s].objs, prep |-> a[s].prep,
                    erasing |-> a[s].erasing, holds |-> a[s].holds]
    BY <1>1, FieldReplaced
  <2>5. [a EXCEPT ![s].life = "sealing"] = [a EXCEPT ![s] = [a[s] EXCEPT !.life = "sealing"]]
    BY <1>0
  <2> QED BY <2>1, <2>2, <2>3, <2>4, <2>5
<1>6. CASE event = "ArchiveSealed"
  <2>1. PICK x : x = [life |-> "sealed", objs |-> a[s].objs, prep |-> a[s].prep,
                    erasing |-> a[s].erasing, holds |-> a[s].holds]
    OBVIOUS
  <2>2. NextSet(a[s], event, h, id, prep) = x
    BY <1>6, <2>1 DEF NextSet
  <2>3. NextArchive(a, event, s, h, id, prep) = [a EXCEPT ![s].life = "sealed"]
    BY <1>6 DEF NextArchive
  <2>4. [a[s] EXCEPT !.life = "sealed"] = [life |-> "sealed", objs |-> a[s].objs, prep |-> a[s].prep,
                    erasing |-> a[s].erasing, holds |-> a[s].holds]
    BY <1>1, FieldReplaced
  <2>5. [a EXCEPT ![s].life = "sealed"] = [a EXCEPT ![s] = [a[s] EXCEPT !.life = "sealed"]]
    BY <1>0
  <2> QED BY <2>1, <2>2, <2>3, <2>4, <2>5
<1>7. CASE event = "ManagedBackupDeletionPrepared"
  <2>1. PICK x : x = [life |-> "deletion_prepared", objs |-> a[s].objs, prep |-> prep,
                    erasing |-> a[s].erasing, holds |-> a[s].holds]
    OBVIOUS
  <2>2. NextSet(a[s], event, h, id, prep) = x
    BY <1>7, <2>1 DEF NextSet
  <2>3. NextArchive(a, event, s, h, id, prep) = [a EXCEPT ![s].life = "deletion_prepared", ![s].prep = prep]
    BY <1>7 DEF NextArchive
  <2>4. [a[s] EXCEPT !.life = "deletion_prepared", !.prep = prep] = [life |-> "deletion_prepared", objs |-> a[s].objs, prep |-> prep,
                    erasing |-> a[s].erasing, holds |-> a[s].holds]
    BY <1>1, FieldReplaced
  <2>5. [a EXCEPT ![s].life = "deletion_prepared", ![s].prep = prep] = [a EXCEPT ![s] = [a[s] EXCEPT !.life = "deletion_prepared", !.prep = prep]]
    BY <1>0
  <2> QED BY <2>1, <2>2, <2>3, <2>4, <2>5
<1>8. CASE event = "PreparedArchiveKeyErasure"
  <2>1. PICK x : x = [life |-> a[s].life, objs |-> a[s].objs, prep |-> a[s].prep,
                    erasing |-> TRUE, holds |-> a[s].holds]
    OBVIOUS
  <2>2. NextSet(a[s], event, h, id, prep) = x
    BY <1>8, <2>1 DEF NextSet
  <2>3. NextArchive(a, event, s, h, id, prep) = [a EXCEPT ![s].erasing = TRUE]
    BY <1>8 DEF NextArchive
  <2>4. [a[s] EXCEPT !.erasing = TRUE] = [life |-> a[s].life, objs |-> a[s].objs, prep |-> a[s].prep,
                    erasing |-> TRUE, holds |-> a[s].holds]
    BY <1>1, FieldReplaced
  <2>5. [a EXCEPT ![s].erasing = TRUE] = [a EXCEPT ![s] = [a[s] EXCEPT !.erasing = TRUE]]
    BY <1>0
  <2> QED BY <2>1, <2>2, <2>3, <2>4, <2>5
<1>9. CASE event = "ArchiveKeyErased"
  <2>1. PICK x : x = [life |-> "archive_key_erased", objs |-> a[s].objs, prep |-> a[s].prep,
                    erasing |-> a[s].erasing, holds |-> a[s].holds]
    OBVIOUS
  <2>2. NextSet(a[s], event, h, id, prep) = x
    BY <1>9, <2>1 DEF NextSet
  <2>3. NextArchive(a, event, s, h, id, prep) = [a EXCEPT ![s].life = "archive_key_erased"]
    BY <1>9 DEF NextArchive
  <2>4. [a[s] EXCEPT !.life = "archive_key_erased"] = [life |-> "archive_key_erased", objs |-> a[s].objs, prep |-> a[s].prep,
                    erasing |-> a[s].erasing, holds |-> a[s].holds]
    BY <1>1, FieldReplaced
  <2>5. [a EXCEPT ![s].life = "archive_key_erased"] = [a EXCEPT ![s] = [a[s] EXCEPT !.life = "archive_key_erased"]]
    BY <1>0
  <2> QED BY <2>1, <2>2, <2>3, <2>4, <2>5
<1>10. CASE event = "ManagedBackupDeleted"
  <2>1. PICK x : x = [life |-> "deleted", objs |-> a[s].objs, prep |-> a[s].prep,
                    erasing |-> a[s].erasing, holds |-> a[s].holds]
    OBVIOUS
  <2>2. NextSet(a[s], event, h, id, prep) = x
    BY <1>10, <2>1 DEF NextSet
  <2>3. NextArchive(a, event, s, h, id, prep) = [a EXCEPT ![s].life = "deleted"]
    BY <1>10 DEF NextArchive
  <2>4. [a[s] EXCEPT !.life = "deleted"] = [life |-> "deleted", objs |-> a[s].objs, prep |-> a[s].prep,
                    erasing |-> a[s].erasing, holds |-> a[s].holds]
    BY <1>1, FieldReplaced
  <2>5. [a EXCEPT ![s].life = "deleted"] = [a EXCEPT ![s] = [a[s] EXCEPT !.life = "deleted"]]
    BY <1>0
  <2> QED BY <2>1, <2>2, <2>3, <2>4, <2>5
<1>11. CASE event \notin {"BackupSetStarted", "ArchiveCheckpointCommitted",
                          "ArchiveRestoreHoldAcquired", "ArchiveSealingStarted", "ArchiveSealed",
                          "ManagedBackupDeletionPrepared", "PreparedArchiveKeyErasure",
                          "ArchiveKeyErased", "ManagedBackupDeleted"}
  <2>1. NextArchive(a, event, s, h, id, prep) = a /\ NextSet(a[s], event, h, id, prep) = a[s]
    BY <1>1, <1>11 DEF NextArchive, NextSet
  <2>2. a = [a EXCEPT ![s] = a[s]]
    BY DEF IsArchive
  <2> QED BY <2>1, <2>2
<1> QED BY <1>2, <1>3, <1>4, <1>5, <1>6, <1>7, <1>8, <1>9, <1>10, <1>11

\* It is a set again.
LEMMA NextSetIs ==
  ASSUME NEW x, IsSet(x), NEW event, NEW h, NEW id \in Nat, NEW prep,
         event = "ArchiveRestoreHoldAcquired" => h \in Holds
  PROVE  IsSet(NextSet(x, event, h, id, prep))
<1> DEFINE y == NextSet(x, event, h, id, prep)
<1>1. /\ y = [life |-> y.life, objs |-> y.objs, prep |-> y.prep, erasing |-> y.erasing,
              holds |-> y.holds]
  BY DEF NextSet
<1>2. y.life \in Lifecycles
  BY DEF NextSet, IsSet, Lifecycles
<1>3. y.objs \in Seq(Nat)
  <2>1. x.objs \in Seq(Nat)
    BY DEF IsSet
  <2>2. CASE event = "BackupSetStarted"
    <3>1. y.objs = <<>>
      BY <2>2 DEF NextSet
    <3> HIDE DEF y
    <3> QED BY <3>1
  <2>3. CASE event = "ArchiveCheckpointCommitted"
    <3>1. y.objs = Append(x.objs, id)
      BY <2>3 DEF NextSet
    <3> HIDE DEF y
    <3> QED BY <2>1, <3>1
  <2>4. CASE event \notin {"BackupSetStarted", "ArchiveCheckpointCommitted"}
    <3>1. y.objs = x.objs
      BY <2>4 DEF NextSet
    <3> QED BY <2>1, <3>1
  <2> QED BY <2>2, <2>3, <2>4
<1>4. y.erasing \in BOOLEAN
  <2>1. CASE event = "BackupSetStarted"
    BY <2>1 DEF NextSet
  <2>2. CASE event = "PreparedArchiveKeyErasure"
    BY <2>2 DEF NextSet
  <2>3. CASE event \notin {"BackupSetStarted", "PreparedArchiveKeyErasure"}
    BY <2>3 DEF NextSet, IsSet
  <2> QED BY <2>1, <2>2, <2>3
<1>5. y.holds \subseteq Holds
  BY DEF NextSet, IsSet
<1> HIDE DEF y
<1>6. IsSet(y)
  BY <1>1, <1>2, <1>3, <1>4, <1>5 DEF IsSet
<1> QED BY <1>6 DEF y

\* An archive after an event.
LEMMA ArchiveAfter ==
  ASSUME NEW a, IsArchive(a), NEW event, NEW s \in Sets, NEW h, NEW id \in Nat, NEW prep,
         event = "ArchiveRestoreHoldAcquired" => h \in Holds,
         NEW b, b = NextArchive(a, event, s, h, id, prep)
  PROVE  /\ IsArchive(b) /\ b[s] = NextSet(a[s], event, h, id, prep)
         /\ \A r \in Sets : r # s => b[r] = a[r]
<1>1. PICK y : y = NextSet(a[s], event, h, id, prep)
  OBVIOUS
<1>2. IsSet(y)
  BY <1>1, NextSetIs DEF IsArchive
<1>3. b = [a EXCEPT ![s] = y]
  BY <1>1, NextArchiveIs
<1>4. a = [r \in Sets |-> a[r]] /\ \A r \in Sets : IsSet(a[r])
  BY DEF IsArchive
<1>5. b[s] = y /\ (\A r \in Sets : r # s => b[r] = a[r]) /\ b = [r \in Sets |-> b[r]]
  BY <1>3, <1>4
<1>6. \A r \in Sets : IsSet(b[r])
  BY <1>2, <1>4, <1>5
<1> QED BY <1>1, <1>5, <1>6 DEF IsArchive

\* The fields of a set after an event.
LEMMA SetAfter ==
  ASSUME NEW x, IsSet(x), NEW event, NEW h, NEW id, NEW prep,
         NEW y, y = NextSet(x, event, h, id, prep)
  PROVE  /\ event \notin {"BackupSetStarted", "ArchiveSealingStarted", "ArchiveSealed",
                          "ManagedBackupDeletionPrepared", "ArchiveKeyErased",
                          "ManagedBackupDeleted"} => y.life = x.life
         /\ event = "BackupSetStarted" => y.life = "streaming" /\ y.objs = <<>> /\ ~y.erasing
         /\ event = "ArchiveSealingStarted" => y.life = "sealing"
         /\ event = "ArchiveSealed" => y.life = "sealed"
         /\ event = "ManagedBackupDeletionPrepared" => y.life = "deletion_prepared"
         /\ event = "ArchiveKeyErased" => y.life = "archive_key_erased"
         /\ event = "ManagedBackupDeleted" => y.life = "deleted"
         /\ event = "ArchiveCheckpointCommitted" => y.objs = Append(x.objs, id)
         /\ event \notin {"BackupSetStarted", "ArchiveCheckpointCommitted"} => y.objs = x.objs
         /\ event = "ManagedBackupDeletionPrepared" => y.prep = prep
         /\ event \notin {"BackupSetStarted", "ManagedBackupDeletionPrepared"} => y.prep = x.prep
         /\ event \notin {"BackupSetStarted", "PreparedArchiveKeyErasure"} => y.erasing = x.erasing
         /\ event # "BackupSetStarted" => x.holds \subseteq y.holds
<1>1. /\ event \notin {"BackupSetStarted", "ArchiveSealingStarted", "ArchiveSealed",
                       "ManagedBackupDeletionPrepared", "ArchiveKeyErased",
                       "ManagedBackupDeleted"} => y.life = x.life
      /\ event = "BackupSetStarted" => y.life = "streaming"
      /\ event = "ArchiveSealingStarted" => y.life = "sealing"
      /\ event = "ArchiveSealed" => y.life = "sealed"
      /\ event = "ManagedBackupDeletionPrepared" => y.life = "deletion_prepared"
      /\ event = "ArchiveKeyErased" => y.life = "archive_key_erased"
      /\ event = "ManagedBackupDeleted" => y.life = "deleted"
  BY DEF NextSet
<1>2. /\ event = "BackupSetStarted" => y.objs = <<>>
      /\ event = "ArchiveCheckpointCommitted" => y.objs = Append(x.objs, id)
      /\ event \notin {"BackupSetStarted", "ArchiveCheckpointCommitted"} => y.objs = x.objs
  BY DEF NextSet
<1>3. /\ event = "ManagedBackupDeletionPrepared" => y.prep = prep
      /\ event \notin {"BackupSetStarted", "ManagedBackupDeletionPrepared"} => y.prep = x.prep
  BY DEF NextSet
<1>4. event = "BackupSetStarted" => ~y.erasing
  BY DEF NextSet
<1>5. event \notin {"BackupSetStarted", "PreparedArchiveKeyErasure"} => y.erasing = x.erasing
  BY DEF NextSet
<1>6. event # "BackupSetStarted" => x.holds \subseteq y.holds
  BY DEF NextSet
<1> QED BY <1>1, <1>2, <1>3, <1>4, <1>5, <1>6

\* What a head that accepts an event says of its set and of its attempt.
LEMMA AcceptsMeans ==
  ASSUME NEW st, NEW event \in Events, NEW s, NEW h, NEW prep, Accepts(st, event, s, h, prep)
  PROVE  /\ event = "BackupSetStarted" => st.archive[s].life = "none"
         /\ event \in {"ArchiveCheckpointCommitted", "ArchiveSealingStarted"} =>
                st.archive[s].life = "streaming"
         /\ event = "ArchiveRestoreHoldAcquired" => st.archive[s].life = "streaming"
         /\ event = "ArchiveSealingStarted" => st.archive[s].holds = {}
         /\ event = "ArchiveSealed" => st.archive[s].life = "sealing"
         /\ event = "ManagedBackupDeletionPrepared" => st.archive[s].life = "sealed"
         /\ event = "PreparedArchiveKeyErasure" =>
                st.archive[s].life = "deletion_prepared" /\ st.archive[s].prep = prep
         /\ event = "ArchiveKeyErased" => st.archive[s].life = "deletion_prepared"
         /\ event = "ManagedBackupDeleted" => st.archive[s].life = "archive_key_erased"
         /\ event = "RestoreAttemptPrepared" => st.attempt.stage = "none"
         /\ event = "SourceFreezeRecorded" => st.attempt.stage = "prepared"
         /\ event \in {"TargetActivationPlanned", "TargetInitialized", "SourceResumePrepared"} =>
                st.attempt.stage = "frozen"
BY DEF Accepts, Events

\* A restore attempt after an event.
LEMMA AttemptAfter ==
  ASSUME NEW t, IsAttempt(t), NEW event, NEW s \in Sets, NEW h,
         event = "RestoreAttemptPrepared" => h \in Holds,
         event \in {"SourceFreezeRecorded", "TargetInitialized", "SourceResumePrepared"} =>
             t.stage # "none",
         NEW u, u = NextAttempt(t, event, s, h)
  PROVE  /\ IsAttempt(u)
         /\ event = "RestoreAttemptPrepared" => u.set = s /\ u.hold = h
         /\ event # "RestoreAttemptPrepared" => u.set = t.set /\ u.hold = t.hold
         /\ event \notin {"RestoreAttemptPrepared", "SourceFreezeRecorded", "TargetInitialized",
                          "SourceResumePrepared"} => u = t
<1>1. t = [stage |-> t.stage, set |-> t.set, hold |-> t.hold] /\ t.stage \in Stages
  BY DEF IsAttempt
<1>2. CASE event = "RestoreAttemptPrepared"
  <2>1. u = [stage |-> "prepared", set |-> s, hold |-> h]
    BY <1>2 DEF NextAttempt
  <2> QED BY <1>2, <2>1 DEF IsAttempt, Stages
<1>3. ASSUME NEW g \in Stages, g # "none", u = [t EXCEPT !.stage = g], t.stage # "none"
      PROVE  IsAttempt(u) /\ u.set = t.set /\ u.hold = t.hold
  <2>1. u = [stage |-> g, set |-> t.set, hold |-> t.hold]
    BY <1>1, <1>3
  <2> QED BY <1>3, <2>1 DEF IsAttempt
<1>4. CASE event = "SourceFreezeRecorded"
  <2>1. u = [t EXCEPT !.stage = "frozen"] /\ "frozen" \in Stages
    BY <1>4 DEF NextAttempt, Stages
  <2> QED BY <1>3, <1>4, <2>1
<1>5. CASE event = "TargetInitialized"
  <2>1. u = [t EXCEPT !.stage = "initialized"] /\ "initialized" \in Stages
    BY <1>5 DEF NextAttempt, Stages
  <2> QED BY <1>3, <1>5, <2>1
<1>6. CASE event = "SourceResumePrepared"
  <2>1. u = [t EXCEPT !.stage = "resumed"] /\ "resumed" \in Stages
    BY <1>6 DEF NextAttempt, Stages
  <2> QED BY <1>3, <1>6, <2>1
<1>7. CASE event \notin {"RestoreAttemptPrepared", "SourceFreezeRecorded", "TargetInitialized",
                         "SourceResumePrepared"}
  BY <1>7 DEF NextAttempt
<1> QED BY <1>2, <1>4, <1>5, <1>6, <1>7

\* A state that is accepted for an event is followed by a state.
LEMMA StateAfter ==
  ASSUME NEW st, IsState(st), NEW event \in Events, NEW s \in Sets, NEW h, NEW id \in Nat, NEW prep,
         event \in {"ArchiveRestoreHoldAcquired", "RestoreAttemptPrepared"} => h \in Holds,
         Accepts(st, event, s, h, prep)
  PROVE  IsState(NextState(st, event, s, h, id, prep))
<1>1. PICK b, u : b = NextArchive(st.archive, event, s, h, id, prep)
                  /\ u = NextAttempt(st.attempt, event, s, h)
  OBVIOUS
<1>2. IsArchive(b)
  BY <1>1, ArchiveAfter DEF IsState
<1>3. IsAttempt(u)
  <2>1. event \in {"SourceFreezeRecorded", "TargetInitialized", "SourceResumePrepared"} =>
            st.attempt.stage # "none"
    <3>1. event = "SourceFreezeRecorded" => st.attempt.stage = "prepared"
      BY AcceptsMeans
    <3>2. event \in {"TargetActivationPlanned", "TargetInitialized", "SourceResumePrepared"} =>
              st.attempt.stage = "frozen"
      BY AcceptsMeans
    <3> QED BY <3>1, <3>2
  <2> QED BY <1>1, <2>1, AttemptAfter DEF IsState
<1> QED BY <1>1, <1>2, <1>3 DEF IsState, NextState

\* The preparation that an entry binds can be read back from the state it carries.
LEMMA BoundIs ==
  ASSUME NEW st, IsState(st), NEW event \in Events, NEW s \in Sets, NEW h, NEW id \in Nat, NEW prep,
         event = "ArchiveRestoreHoldAcquired" => h \in Holds,
         Accepts(st, event, s, h, prep),
         NEW n, n = NextState(st, event, s, h, id, prep)
  PROVE  /\ Accepts(st, event, s, h, n.archive[s].prep)
         /\ n = NextState(st, event, s, h, id, n.archive[s].prep)
         /\ event = "ManagedBackupDeletionPrepared" => prep = n.archive[s].prep
<1>1. PICK b, x, y : /\ b = NextArchive(st.archive, event, s, h, id, prep)
                     /\ x = st.archive[s] /\ y = n.archive[s].prep
  OBVIOUS
<1>2. n.archive = b /\ IsArchive(st.archive)
  BY <1>1 DEF NextState, IsState
<1>3. y = NextSet(x, event, h, id, prep).prep /\ IsSet(x)
  BY <1>1, <1>2, ArchiveAfter DEF IsArchive
<1>4. event = "ManagedBackupDeletionPrepared" => y = prep
  BY <1>3, SetAfter
<1>5. event = "PreparedArchiveKeyErasure" => y = prep
  <2> SUFFICES ASSUME event = "PreparedArchiveKeyErasure" PROVE y = prep
    OBVIOUS
  <2>1. x.prep = prep
    <3>1. st.archive[s].prep = prep
      BY AcceptsMeans
    <3> QED BY <1>1, <3>1
  <2> QED BY <1>3, <2>1, SetAfter
<1>6. Accepts(st, event, s, h, y)
  <2>1. CASE event = "PreparedArchiveKeyErasure"
    BY <1>5, <2>1
  <2>2. CASE event # "PreparedArchiveKeyErasure"
    BY <2>2 DEF Accepts, Events
  <2> QED BY <2>1, <2>2
<1>7. NextArchive(st.archive, event, s, h, id, y) = b
  <2>1. CASE event = "ManagedBackupDeletionPrepared"
    BY <1>1, <1>4, <2>1
  <2>2. CASE event # "ManagedBackupDeletionPrepared"
    BY <1>1, <2>2 DEF NextArchive
  <2> QED BY <2>1, <2>2
<1> QED BY <1>1, <1>4, <1>6, <1>7 DEF NextState

-----------------------------------------------------------------------------
(* What the steps of others leave true                                     *)

\* Signed entries and the journal are only added to.
Extends ==
    /\ \A e \in DOMAIN signed : e \in DOMAIN signed' /\ signed'[e] = signed[e]
    /\ journal \subseteq journal'

\* The positions of entries.
LEMMA Positions ==
  ASSUME SignedInv
  PROVE  /\ Len(signed) \in Nat /\ DOMAIN signed = 1 .. Len(signed)
         /\ DOMAIN signed \subseteq Nat \ {0} /\ journal \subseteq DOMAIN signed
         /\ journal \cup {0} \subseteq Nat
<1>1. signed \in Seq(ToSet(signed)) /\ journal \subseteq DOMAIN signed
  BY DEF SignedInv
<1>2. Len(signed) \in Nat /\ DOMAIN signed = 1 .. Len(signed)
  BY <1>1
<1> QED BY <1>1, <1>2

\* The state before everything.
LEMMA GenesisIs == IsState(Genesis) /\ \A s \in Sets : Genesis.archive[s] = NoSet
<1>1. IsSet(NoSet)
  <2>1. NoSet.life = "none" /\ NoSet.objs = <<>> /\ NoSet.holds = {}
        /\ NoSet = [life |-> NoSet.life, objs |-> NoSet.objs, prep |-> NoSet.prep,
                    erasing |-> NoSet.erasing, holds |-> NoSet.holds]
    BY DEF NoSet
  <2>2. NoSet.erasing \in BOOLEAN
    BY DEF NoSet
  <2>3. NoSet.objs \in Seq(Nat)
    BY <2>1
  <2> QED BY <2>1, <2>2, <2>3 DEF IsSet, Lifecycles
<1>2. Genesis.archive = [s \in Sets |-> NoSet] /\ Genesis.attempt = NoAttempt
  BY DEF Genesis
<1>3. IsArchive(Genesis.archive)
  BY <1>1, <1>2 DEF IsArchive
<1>4. IsAttempt(Genesis.attempt)
  BY <1>2 DEF IsAttempt, NoAttempt, Stages
<1> QED BY <1>2, <1>3, <1>4 DEF IsState

\* A head carries a state.
LEMMA HeadIs ==
  ASSUME SignedInv, NEW e \in DOMAIN signed \cup {0}
  PROVE  IsState(StateOf(e))
<1>1. CASE e = 0
  BY <1>1, GenesisIs DEF StateOf
<1>2. CASE e # 0
  BY <1>2 DEF SignedInv, Legal, StateOf
<1> QED BY <1>1, <1>2

\* What is signed stays signed as it is.
LEMMA SignedStays ==
  ASSUME SignedInv, Extends, NEW e \in DOMAIN signed
  PROVE  /\ signed'[e] = signed[e] /\ e \in DOMAIN signed' /\ StateOf(e)' = StateOf(e)
         /\ Bound(e)' = Bound(e) /\ (Checkpoint(e)' <=> Checkpoint(e))
         /\ \A s : (Starts(e, s)' <=> Starts(e, s)) /\ (Erases(e, s)' <=> Erases(e, s))
BY DEF Extends, StateOf, Bound, Checkpoint, Starts, Erases

\* So does the state at a head.
LEMMA HeadStays ==
  ASSUME SignedInv, Extends, NEW e \in DOMAIN signed \cup {0}
  PROVE  StateOf(e)' = StateOf(e)
BY SignedStays DEF StateOf

\* An entry that was legal, and whose sets were started, stays so.
LEMMA LegalStays ==
  ASSUME SignedInv, Extends, NEW e \in DOMAIN signed
  PROVE  Legal(e)' /\ Sourced(e)' /\ signed'[e].prev \in journal' \cup {0}
<1>1. Legal(e) /\ Sourced(e) /\ signed[e].prev \in journal \cup {0}
  BY DEF SignedInv
<1>2. PICK v : v = signed[e].prev
  OBVIOUS
<1>3. v \in DOMAIN signed \cup {0}
  BY <1>1, <1>2 DEF SignedInv
<1>4. StateOf(v)' = StateOf(v) /\ Bound(e)' = Bound(e) /\ signed'[e] = signed[e]
  BY <1>3, SignedStays, HeadStays
<1>5. Legal(e)'
  BY <1>1, <1>2, <1>4 DEF Legal
<1>6. Sourced(e)'
  <2> SUFFICES ASSUME NEW s \in Sets
               PROVE  /\ signed[e].state.archive[s].life # "none" =>
                             \E b \in journal' \cup {e} : Starts(b, s)'
                      /\ signed[e].state.archive[s].erasing =>
                             \E b \in journal' \cup {e} : Erases(b, s)'
    BY <1>4 DEF Sourced
  <2>1. \A b \in journal \cup {e} : /\ b \in journal' \cup {e}
                                    /\ (Starts(b, s) => Starts(b, s)')
                                    /\ (Erases(b, s) => Erases(b, s)')
    BY SignedStays, Positions DEF Extends
  <2> QED BY <1>1, <2>1 DEF Sourced
<1> QED BY <1>1, <1>4, <1>5, <1>6 DEF Extends

\* An erasure that is journalled stays journalled.
LEMMA ErasedStays ==
  ASSUME SignedInv, Extends, NEW s, KeyErased(s)
  PROVE  KeyErased(s)'
BY SignedStays, Positions DEF KeyErased, Extends

\* What a supervisor knows of its entry outlives the steps of others.
LEMMA KnowsEntryStays ==
  ASSUME SignedInv, Extends, NEW y, KnowsEntry(y), y.pc \in Early => y.entry \notin journal'
  PROVE  KnowsEntry(y)'
<1>1. y.pc \in Owning => Bound(y.entry)' = Bound(y.entry) /\ signed'[y.entry] = signed[y.entry]
                         /\ y.entry \in DOMAIN signed'
                         /\ (Checkpoint(y.entry)' <=> Checkpoint(y.entry))
  BY SignedStays DEF KnowsEntry
<1> QED BY <1>1 DEF KnowsEntry, Extends, Owning

\* What it knows of keys, while the permit is its own and others leave its key.
LEMMA KnowsKeysStays ==
  ASSUME SignedInv, Extends, NEW q, NEW y, KnowsEntry(y), KnowsKeys(q, y),
         y.pc = "permitted" => permit' = q /\ (y.set \in keys => y.set \in keys' \/ KeyErased(y.set)')
  PROVE  KnowsKeys(q, y)'
<1>1. y.pc = "permitted" => (Checkpoint(y.entry)' <=> Checkpoint(y.entry))
                            /\ signed'[y.entry] = signed[y.entry]
  BY SignedStays DEF KnowsEntry, Owning
<1>2. PICK s : s = y.set
  OBVIOUS
<1>3. KeyErased(s) => KeyErased(s)'
  BY ErasedStays
<1> QED BY <1>1, <1>2, <1>3 DEF KnowsKeys

\* What it knows of files, when the tables and its files stay.
LEMMA KnowsFilesStays ==
  ASSUME SignedInv, Extends, db' = db, NEW y, KnowsEntry(y), KnowsFiles(y),
         y.pc \in {"staged", "journalled", "advanced"} =>
             (y.entry \in staged /\ Reserved(y.entry) => y.entry \in staged'),
         y.pc = "unstage" => (y.entry \in promoted =>
                                  y.entry \in promoted' \/ Gone(signed[y.entry].set))
  PROVE  KnowsFiles(y)'
<1>1. y.pc \in Owning \cup Promoting =>
          (Checkpoint(y.entry)' <=> Checkpoint(y.entry)) /\ signed'[y.entry] = signed[y.entry]
  BY SignedStays, Positions DEF KnowsEntry
<1>2. ASSUME NEW e PROVE (Reserved(e)' <=> Reserved(e)) /\ (Gone(e)' <=> Gone(e))
  BY DEF Reserved, Gone
<1>3. y.pc = "delete" => \A o \in y.gone : o \in DOMAIN signed' /\ Gone(signed[o].set)'
                                          /\ signed'[o] = signed[o]
  BY <1>2, SignedStays DEF KnowsFiles
<1>4. y.pc = "clean" => \A o \in y.gone : o \in DOMAIN signed'
  BY SignedStays DEF KnowsFiles
<1>5. PICK g : g = signed[y.entry].set
  OBVIOUS
<1>6. y.pc = "unstage" => y.entry \in promoted' \/ Gone(g)'
  BY <1>2, <1>5 DEF KnowsFiles
<1> QED BY <1>1, <1>2, <1>3, <1>4, <1>5, <1>6 DEF KnowsFiles, Owning, Promoting

-----------------------------------------------------------------------------
(* How a step moves the supervisor that takes it                           *)

MovesProc(p, x) ==
    /\ proc' = [q \in Supervisors |-> proc'[q]] /\ proc'[p] = x
    /\ \A q \in Supervisors : q # p => proc'[q] = proc[q]

\* The same memory at another step.
At(x, y, c) ==
    /\ IsProc(x) /\ x.pc = c /\ x.set = y.set /\ x.hold = y.hold /\ x.prep = y.prep
    /\ x.head = y.head /\ x.entry = y.entry /\ x.gone = y.gone

\* Setting one supervisor moves it there.
LEMMA SetMovesProc ==
  ASSUME ProcInv, NEW p \in Supervisors, NEW x, proc' = [proc EXCEPT ![p] = x]
  PROVE  MovesProc(p, x)
<1>1. proc = [q \in Supervisors |-> proc[q]]
  BY DEF ProcInv
<1> QED BY <1>1 DEF MovesProc

\* A supervisor that goes on keeps its memory.
LEMMA GotoMoves ==
  ASSUME ProcInv, NEW p \in Supervisors, NEW c, Goto(p, c)
  PROVE  \E x : MovesProc(p, x) /\ At(x, proc[p], c)
<1>1. PICK y : y = proc[p]
  OBVIOUS
<1>2. IsProc(y)
  BY <1>1 DEF ProcInv, KnowsEntry
<1>3. PICK x : x = [y EXCEPT !.pc = c]
  OBVIOUS
<1>4. At(x, y, c)
  BY <1>2, <1>3 DEF At, IsProc
<1>5. proc' = [proc EXCEPT ![p] = x]
  BY <1>1, <1>3 DEF Goto
<1>6. MovesProc(p, x)
  BY <1>5, SetMovesProc
<1> QED BY <1>1, <1>4, <1>6

\* One that stops forgets everything.
LEMMA StopMoves ==
  ASSUME ProcInv, NEW p \in Supervisors, Stop(p)
  PROVE  MovesProc(p, Idle)
BY SetMovesProc DEF Stop

\* The memory of an idle supervisor.
LEMMA IdleIs ==
  /\ IsProc(Idle) /\ Idle.pc = "idle" /\ Idle.set = None /\ Idle.head = 0 /\ Idle.entry = 0
  /\ Idle.gone = {}
BY DEF Idle, IsProc

\* What has to be shown of the supervisors after a step of one.
LEMMA ProcStep ==
  ASSUME ProcInv, NEW p \in Supervisors, NEW x, MovesProc(p, x),
         KnowsEntry(x)', KnowsKeys(p, x)', KnowsFiles(x)',
         \A q \in Supervisors : \A y : q # p /\ y = proc[q] =>
             KnowsEntry(y)' /\ KnowsKeys(q, y)' /\ KnowsFiles(y)' /\ Apart(x, y)
  PROVE  ProcInv'
<1>1. ASSUME NEW q \in Supervisors
      PROVE  KnowsEntry(proc[q])' /\ KnowsKeys(q, proc[q])' /\ KnowsFiles(proc[q])'
  <2>1. PICK y : y = proc'[q]
    OBVIOUS
  <2>2. KnowsEntry(y)' /\ KnowsKeys(q, y)' /\ KnowsFiles(y)'
    <3>1. CASE q = p
      BY <2>1, <3>1 DEF MovesProc
    <3>2. CASE q # p
      BY <2>1, <3>2 DEF MovesProc
    <3> QED BY <3>1, <3>2
  <2> QED BY <2>1, <2>2
<1>2. ASSUME NEW q \in Supervisors, NEW r \in Supervisors, q # r
      PROVE  Apart(proc[q], proc[r])'
  <2>1. PICK y, z : y = proc'[q] /\ z = proc'[r]
    OBVIOUS
  <2>2. Apart(y, z)
    <3>1. CASE q = p
      BY <1>2, <2>1, <3>1 DEF MovesProc
    <3>2. CASE r = p
      <4>1. Apart(z, y)
        BY <1>2, <2>1, <3>2 DEF MovesProc
      <4> QED BY <4>1 DEF Apart
    <3>3. CASE q # p /\ r # p
      BY <1>2, <2>1, <3>3 DEF MovesProc, ProcInv
    <3> QED BY <3>1, <3>2, <3>3
  <2> QED BY <2>1, <2>2 DEF Apart
<1> QED BY <1>1, <1>2 DEF ProcInv, MovesProc

\* What a supervisor knows of another that it may meet.
LEMMA OtherKnows ==
  ASSUME ProcInv, NEW p \in Supervisors, NEW q \in Supervisors, q # p, NEW y, y = proc[q]
  PROVE  KnowsEntry(y) /\ KnowsKeys(q, y) /\ KnowsFiles(y) /\ Apart(proc[p], y)
BY DEF ProcInv

\* Steps at which a supervisor holds nothing that others could disturb.
Light(x) ==
    /\ IsProc(x) /\ x.head \in journal \cup {0}
    /\ x.pc \notin Owning \cup Late \cup Promoting \cup {"erase", "clean", "delete"}
    /\ x.pc \in OnSet => x.set \in Sets

\* There it knows all that it has to.
LEMMA LightKnows ==
  ASSUME NEW x, Light(x), NEW p
  PROVE  KnowsEntry(x) /\ KnowsKeys(p, x) /\ KnowsFiles(x) /\ \A y : Apart(x, y)
BY DEF Light, KnowsEntry, KnowsKeys, KnowsFiles, Apart, Owning, Late, Early, Promoting

\* An idle supervisor holds nothing.
LEMMA IdleLight == Light(Idle)
BY IdleIs DEF Light, Owning, Late, Promoting, OnSet

\* What the invariant reads.
seen == <<signed, journal, witness, db, keys, staged, promoted, permit>>

\* Nothing that the invariant reads changes, but one supervisor moves.
LEMMA QuietStep ==
  ASSUME SafetyInv, NEW p \in Supervisors, NEW x, MovesProc(p, x), UNCHANGED seen,
         KnowsEntry(x), KnowsKeys(p, x), KnowsFiles(x),
         \A q \in Supervisors : q # p => Apart(x, proc[q])
  PROVE  SafetyInv'
<1>1. ASSUME NEW q, NEW y, KnowsEntry(y), KnowsKeys(q, y), KnowsFiles(y)
      PROVE  KnowsEntry(y)' /\ KnowsKeys(q, y)' /\ KnowsFiles(y)'
  <2>1. KnowsEntry(y)'
    BY <1>1 DEF seen, KnowsEntry, Bound, Checkpoint
  <2>2. KnowsKeys(q, y)'
    BY <1>1 DEF seen, KnowsKeys, KeyErased, Erases, Checkpoint
  <2>3. KnowsFiles(y)'
    BY <1>1 DEF seen, KnowsFiles, Reserved, Gone, Checkpoint
  <2> QED BY <2>1, <2>2, <2>3
<1>2. ProcInv'
  BY <1>1, ProcStep, OtherKnows DEF SafetyInv
<1>3. Extends
  BY DEF Extends, seen
<1>4. SignedInv'
  <2>1. \A e \in DOMAIN signed' : Legal(e)' /\ Sourced(e)' /\ signed'[e].prev \in journal' \cup {0}
    BY <1>3, LegalStays DEF SafetyInv, seen
  <2> QED BY <2>1 DEF SafetyInv, SignedInv, seen, Starts
<1>5. TablesInv'
  BY DEF SafetyInv, TablesInv, seen, IsDb, TablesAreSigned, RestoreIsHeld, Stored, Reserved, Gone,
         StateOf, Checkpoint
<1>6. KeysInv'
  BY DEF SafetyInv, KeysInv, seen, KeyErased, Erases
<1> QED BY <1>2, <1>4, <1>5, <1>6 DEF SafetyInv

\* In particular, one that lets go of everything.
LEMMA LightStep ==
  ASSUME SafetyInv, NEW p \in Supervisors, NEW x, MovesProc(p, x), UNCHANGED seen, Light(x)
  PROVE  SafetyInv'
<1>1. KnowsEntry(x) /\ KnowsKeys(p, x) /\ KnowsFiles(x) /\ \A y : Apart(x, y)
  BY LightKnows
<1> QED BY <1>1, QuietStep

\* Or stops.
LEMMA StopStep ==
  ASSUME SafetyInv, NEW p \in Supervisors, Stop(p), UNCHANGED seen
  PROVE  SafetyInv'
<1>1. MovesProc(p, Idle)
  BY StopMoves DEF SafetyInv
<1> QED BY <1>1, IdleLight, LightStep

-----------------------------------------------------------------------------
(* Commands that read, and steps on the restore target                     *)

\* A head that is durable.
LEMMA WitnessIs ==
  ASSUME SafetyInv
  PROVE  /\ witness \in journal \cup {0} /\ witness \in DOMAIN signed \cup {0}
         /\ IsState(StateOf(witness))
<1>1. witness \in journal \cup {0} /\ witness \in DOMAIN signed \cup {0}
  BY DEF SafetyInv, SignedInv
<1> QED BY <1>1, HeadIs DEF SafetyInv

\* A supervisor with the set, the hold and the head that it begins with.
LEMMA Begins ==
  ASSUME SafetyInv, NEW p \in Supervisors, NEW x, proc' = [proc EXCEPT ![p] = x],
         IsProc(x), x.head \in {0, witness},
         x.pc \in {"prepare", "intend", "list", "ensure", "mark", "resume"} => x.set \in Sets,
         x.pc \in {"prepare", "intend", "list", "ensure", "mark", "resume", "pending", "target",
                   "manifest"},
         UNCHANGED seen
  PROVE  SafetyInv'
<1>1. MovesProc(p, x)
  BY SetMovesProc DEF SafetyInv
<1>2. Light(x)
  BY WitnessIs DEF Light, Owning, Late, Promoting, OnSet
<1> QED BY <1>1, <1>2, LightStep

\* prepare-deletion reads the archive it is about to bind.
LEMMA BackupPrepareDeletionKeeps ==
  ASSUME SafetyInv, NEW p \in Supervisors, BackupPrepareDeletion(p)
  PROVE  SafetyInv'
<1>1. PICK s \in Sets :
        /\ proc' = [proc EXCEPT ![p] = [Idle EXCEPT !.pc = "prepare", !.set = s,
                                                    !.prep = StateOf(witness).archive]]
        /\ UNCHANGED <<authority, archiveFiles, restoreFiles, permit>>
  BY DEF BackupPrepareDeletion
<1>2. PICK x : x = [Idle EXCEPT !.pc = "prepare", !.set = s, !.prep = StateOf(witness).archive]
  OBVIOUS
<1>3. IsProc(x) /\ x.pc = "prepare" /\ x.set = s /\ x.head = 0
  BY <1>2 DEF Idle, IsProc
<1>4. proc' = [proc EXCEPT ![p] = x] /\ UNCHANGED seen
  BY <1>1, <1>2 DEF seen, authority, archiveFiles
<1> QED BY <1>3, <1>4, Begins

\* A key that is to be erased has its erasure journalled.
LEMMA BackupEraseKeyKeeps ==
  ASSUME SafetyInv, NEW p \in Supervisors, BackupEraseKey(p)
  PROVE  SafetyInv'
<1>1. PICK s \in Sets, c \in {"erase", "intend"} :
        LET set == StateOf(witness).archive[s] IN
        /\ set.life = "deletion_prepared"
        /\ c = (IF set.erasing THEN "erase" ELSE "intend")
        /\ proc' = [proc EXCEPT ![p] = [Idle EXCEPT !.pc = c, !.set = s, !.prep = set.prep]]
        /\ UNCHANGED <<authority, archiveFiles, restoreFiles, permit>>
  BY DEF BackupEraseKey
<1>2. PICK x : x = [Idle EXCEPT !.pc = c, !.set = s, !.prep = StateOf(witness).archive[s].prep]
  OBVIOUS
<1>3. IsProc(x) /\ x.pc = c /\ x.set = s /\ x.head = 0
  BY <1>2 DEF Idle, IsProc
<1>4. proc' = [proc EXCEPT ![p] = x] /\ UNCHANGED seen
  BY <1>1, <1>2 DEF seen, authority, archiveFiles
<1>5. CASE ~StateOf(witness).archive[s].erasing
  <2>1. c = "intend"
    BY <1>1, <1>5
  <2> QED BY <1>3, <1>4, <2>1, Begins
<1>6. CASE StateOf(witness).archive[s].erasing
  <2>1. c = "erase"
    BY <1>1, <1>6
  <2>2. witness # 0
    <3> SUFFICES ASSUME witness = 0 PROVE FALSE
      OBVIOUS
    <3>1. StateOf(witness).archive[s] = NoSet
      BY GenesisIs DEF StateOf
    <3> QED BY <1>1, <3>1 DEF NoSet
  <2>3. witness \in journal /\ StateOf(witness) = signed[witness].state
    BY <2>2, WitnessIs DEF StateOf
  <2>4. KeyErased(s)
    <3>1. Sourced(witness)
      BY <2>3, Positions DEF SafetyInv, SignedInv
    <3> QED BY <1>6, <2>3, <3>1 DEF Sourced, KeyErased
  <2>5. KnowsEntry(x) /\ KnowsKeys(p, x) /\ KnowsFiles(x) /\ \A y : Apart(x, y)
    BY <1>3, <2>1, <2>4
       DEF KnowsEntry, KnowsKeys, KnowsFiles, Apart, Owning, Early, Late, Promoting
  <2>6. MovesProc(p, x)
    BY <1>4, SetMovesProc DEF SafetyInv
  <2> QED BY <1>4, <2>5, <2>6, QuietStep
<1> QED BY <1>5, <1>6

\* finalize-delete begins.
LEMMA BackupFinalizeDeleteKeeps ==
  ASSUME SafetyInv, NEW p \in Supervisors, BackupFinalizeDelete(p)
  PROVE  SafetyInv'
<1>1. PICK s \in Sets :
        /\ proc' = [proc EXCEPT ![p] = [Idle EXCEPT !.pc = "list", !.set = s,
                                          !.prep = StateOf(witness).archive[s].prep]]
        /\ UNCHANGED <<authority, archiveFiles, restoreFiles, permit>>
  BY DEF BackupFinalizeDelete
<1>2. PICK x : x = [Idle EXCEPT !.pc = "list", !.set = s,
                                !.prep = StateOf(witness).archive[s].prep]
  OBVIOUS
<1>3. IsProc(x) /\ x.pc = "list" /\ x.set = s /\ x.head = 0
  BY <1>2 DEF Idle, IsProc
<1>4. proc' = [proc EXCEPT ![p] = x] /\ UNCHANGED seen
  BY <1>1, <1>2 DEF seen, authority, archiveFiles
<1> QED BY <1>3, <1>4, Begins

\* The objects it lists belong to a set whose key is erased.
LEMMA ListPreparedKeeps ==
  ASSUME SafetyInv, NEW p \in Supervisors, ListPrepared(p)
  PROVE  SafetyInv'
<1>1. UNCHANGED seen /\ proc[p].pc = "list"
  BY DEF ListPrepared, seen, authority, archiveFiles
<1>2. CASE Stop(p)
  BY <1>1, <1>2, StopStep
<1>3. CASE ~Stop(p)
  <2>1. PICK y, s : y = proc[p] /\ s = y.set
    OBVIOUS
  <2>2. KnowsEntry(y) /\ s \in Sets
    BY <1>1, <2>1 DEF SafetyInv, ProcInv, KnowsEntry, OnSet
  <2>3. /\ db.archive[s].life = "archive_key_erased"
        /\ proc' = [proc EXCEPT ![p].pc = "delete", ![p].gone = ToSet(db.archive[s].objs)]
    BY <1>3, <2>1 DEF ListPrepared
  <2>4. PICK x : x = [y EXCEPT !.pc = "delete", !.gone = ToSet(db.archive[s].objs)]
    OBVIOUS
  <2>5. IsProc(x) /\ x.pc = "delete" /\ x.set = s /\ x.head = y.head
        /\ x.gone = ToSet(db.archive[s].objs)
    BY <2>1, <2>2, <2>4 DEF KnowsEntry, IsProc
  <2>6. proc' = [proc EXCEPT ![p] = x]
    BY <2>1, <2>3, <2>4
  <2>7. ASSUME NEW o \in x.gone PROVE o \in DOMAIN signed /\ Gone(signed[o].set)
    <3>1. Stored(s)
      BY <2>2 DEF SafetyInv, TablesInv
    <3>2. o \in journal /\ signed[o].set = s
      BY <2>5, <3>1 DEF Stored
    <3> QED BY <2>3, <3>2, Positions DEF SafetyInv, Gone
  <2>8. KnowsEntry(x) /\ KnowsKeys(p, x) /\ KnowsFiles(x) /\ \A z : Apart(x, z)
    BY <2>2, <2>5, <2>7
       DEF KnowsEntry, KnowsKeys, KnowsFiles, Apart, Owning, Early, Late, Promoting
  <2>9. MovesProc(p, x)
    BY <2>6, SetMovesProc DEF SafetyInv
  <2> QED BY <1>1, <2>8, <2>9, QuietStep
<1> QED BY <1>2, <1>3

\* An append that is given up is still its owner's.
LEMMA GiveUpKeeps ==
  ASSUME SafetyInv, NEW p \in Supervisors, GiveUp(p)
  PROVE  SafetyInv'
<1>1. UNCHANGED seen /\ proc[p].pc \in {"reserved", "staged"} /\ Goto(p, "abandon")
  BY DEF GiveUp, seen, authority, archiveFiles
<1>2. PICK y : y = proc[p]
  OBVIOUS
<1>3. PICK x : MovesProc(p, x) /\ At(x, y, "abandon")
  BY <1>1, <1>2, GotoMoves DEF SafetyInv
<1>4. KnowsEntry(y)
  BY <1>2 DEF SafetyInv, ProcInv
<1>5. KnowsEntry(x)
  BY <1>1, <1>2, <1>3, <1>4 DEF KnowsEntry, At, Owning, Early, Late, Promoting, OnSet
<1>6. KnowsKeys(p, x) /\ KnowsFiles(x)
  BY <1>3 DEF KnowsKeys, KnowsFiles, At, Promoting
<1>7. ASSUME NEW q \in Supervisors, q # p PROVE Apart(x, proc[q])
  <2>1. Apart(y, proc[q])
    BY <1>2, <1>7 DEF SafetyInv, ProcInv
  <2> QED BY <1>1, <1>2, <1>3, <2>1 DEF Apart, At, Owning
<1> QED BY <1>1, <1>3, <1>5, <1>6, <1>7, QuietStep

\* reconcile begins.
LEMMA ReconcileKeeps ==
  ASSUME SafetyInv, NEW p \in Supervisors, Reconcile(p)
  PROVE  SafetyInv'
<1>1. PICK x : x = [Idle EXCEPT !.pc = "pending", !.head = witness]
  OBVIOUS
<1>2. IsProc(x) /\ x.pc = "pending" /\ x.head = witness
  BY <1>1 DEF Idle, IsProc
<1>3. proc' = [proc EXCEPT ![p] = x] /\ UNCHANGED seen
  BY <1>1 DEF Reconcile, seen, authority, archiveFiles
<1> QED BY <1>2, <1>3, Begins

\* The receipt it reads is of a journalled entry.
LEMMA ReadReceiptKeeps ==
  ASSUME SafetyInv, NEW p \in Supervisors, ReadReceipt(p)
  PROVE  SafetyInv'
<1>1. UNCHANGED seen
  BY DEF ReadReceipt, seen, authority, archiveFiles
<1>2. CASE ~(witness # 0 /\ witness \in journal)
  BY <1>1, <1>2, StopStep DEF ReadReceipt
<1>3. CASE witness # 0 /\ witness \in journal
  <2>1. PICK y : y = proc[p]
    OBVIOUS
  <2>2. KnowsEntry(y)
    BY <2>1 DEF SafetyInv, ProcInv
  <2>3. PICK x : x = [y EXCEPT !.pc = "replay", !.entry = witness, !.set = signed[witness].set]
    OBVIOUS
  <2>4. IsProc(x) /\ x.pc = "replay" /\ x.entry = witness /\ x.head = y.head
    BY <2>2, <2>3 DEF KnowsEntry, IsProc
  <2>5. proc' = [proc EXCEPT ![p] = x]
    BY <1>3, <2>1, <2>3 DEF ReadReceipt
  <2>6. KnowsEntry(x) /\ KnowsKeys(p, x) /\ KnowsFiles(x) /\ \A z : Apart(x, z)
    BY <1>3, <2>2, <2>4
       DEF KnowsEntry, KnowsKeys, KnowsFiles, Apart, Owning, Early, Late, Promoting, OnSet
  <2>7. MovesProc(p, x)
    BY <2>5, SetMovesProc DEF SafetyInv
  <2> QED BY <1>1, <2>6, <2>7, QuietStep
<1> QED BY <1>2, <1>3

\* A step to where nothing is held.
LEMMA LightGoto ==
  ASSUME SafetyInv, NEW p \in Supervisors, NEW c, Goto(p, c), UNCHANGED seen,
         c \notin Owning \cup Late \cup Promoting \cup {"erase", "clean", "delete"},
         c \in OnSet => proc[p].set \in Sets
  PROVE  SafetyInv'
<1>1. PICK y : y = proc[p]
  OBVIOUS
<1>2. PICK x : MovesProc(p, x) /\ At(x, y, c)
  BY <1>1, GotoMoves DEF SafetyInv
<1>3. KnowsEntry(y)
  BY <1>1 DEF SafetyInv, ProcInv
<1>4. Light(x)
  BY <1>1, <1>2, <1>3 DEF Light, At, KnowsEntry
<1> QED BY <1>2, <1>4, LightStep

\* What is left of restore-prepare, once its attempt is in the witness.
LEMMA TargetBegins ==
  ASSUME SafetyInv, NEW p \in Supervisors, proc' = [proc EXCEPT ![p] = [Idle EXCEPT !.pc = "target"]],
         UNCHANGED seen
  PROVE  SafetyInv'
<1>1. PICK x : x = [Idle EXCEPT !.pc = "target"]
  OBVIOUS
<1>2. IsProc(x) /\ x.pc = "target" /\ x.head = 0
  BY <1>1 DEF Idle, IsProc
<1> QED BY <1>1, <1>2, Begins

\* The target directory is made.
LEMMA MakeTargetKeeps ==
  ASSUME SafetyInv, NEW p \in Supervisors, MakeTarget(p)
  PROVE  SafetyInv'
BY StopStep DEF MakeTarget, seen, authority, archiveFiles

\* The materialization of a target begins.
LEMMA RestoreMaterializeKeeps ==
  ASSUME SafetyInv, NEW p \in Supervisors, RestoreMaterialize(p)
  PROVE  SafetyInv'
<1>1. PICK x : x = [Idle EXCEPT !.pc = "manifest", !.set = StateOf(witness).attempt.set]
  OBVIOUS
<1>2. IsProc(x) /\ x.pc = "manifest" /\ x.head = 0
  BY <1>1 DEF Idle, IsProc
<1>3. proc' = [proc EXCEPT ![p] = x] /\ UNCHANGED seen
  BY <1>1 DEF RestoreMaterialize, seen, authority, archiveFiles
<1> QED BY <1>2, <1>3, Begins

\* It lists the objects of the set in the tables.
LEMMA ListRestoreKeeps ==
  ASSUME SafetyInv, NEW p \in Supervisors, ListRestore(p)
  PROVE  SafetyInv'
<1>1. UNCHANGED seen
  BY DEF ListRestore, seen, authority, archiveFiles
<1>2. CASE Stop(p)
  BY <1>1, <1>2, StopStep
<1>3. CASE ~Stop(p)
  <2>1. PICK y, g : y = proc[p] /\ g = ToSet(db.archive[proc[p].set].objs)
    OBVIOUS
  <2>2. KnowsEntry(y)
    BY <2>1 DEF SafetyInv, ProcInv
  <2>3. PICK x : x = [y EXCEPT !.pc = "input", !.gone = g]
    OBVIOUS
  <2>4. IsProc(x) /\ x.pc = "input" /\ x.head = y.head
    BY <2>2, <2>3 DEF KnowsEntry, IsProc
  <2>5. proc' = [proc EXCEPT ![p] = x]
    BY <1>3, <2>1, <2>3 DEF ListRestore
  <2>6. Light(x)
    BY <2>2, <2>4 DEF KnowsEntry, Light, Owning, Late, Promoting, OnSet
  <2>7. MovesProc(p, x)
    BY <2>5, SetMovesProc DEF SafetyInv
  <2> QED BY <1>1, <2>6, <2>7, LightStep
<1> QED BY <1>2, <1>3

\* It creates the input directory, or finds it there.
LEMMA CreateInputKeeps ==
  ASSUME SafetyInv, NEW p \in Supervisors, CreateInput(p)
  PROVE  SafetyInv'
<1>1. UNCHANGED seen
  BY DEF CreateInput, seen, authority, archiveFiles
<1>2. CASE Stop(p)
  BY <1>1, <1>2, StopStep
<1>3. CASE Goto(p, "restore")
  BY <1>1, <1>3, LightGoto DEF Owning, Late, Promoting, OnSet
<1> QED BY <1>2, <1>3 DEF CreateInput

\* It fills the target.
LEMMA RestoreObjectsKeeps ==
  ASSUME SafetyInv, NEW p \in Supervisors, RestoreObjects(p)
  PROVE  SafetyInv'
BY StopStep DEF RestoreObjects, seen, authority, archiveFiles

\* restore-activate goes on from the initialized attempt of the witness.
LEMMA EnsureBegins ==
  ASSUME SafetyInv, NEW p \in Supervisors, StateOf(witness).attempt.stage = "initialized",
         proc' = [proc EXCEPT ![p] =
             [Idle EXCEPT !.pc = "ensure", !.set = StateOf(witness).attempt.set,
                          !.hold = StateOf(witness).attempt.hold, !.head = witness]],
         UNCHANGED seen
  PROVE  SafetyInv'
<1>1. PICK x : x = [Idle EXCEPT !.pc = "ensure", !.set = StateOf(witness).attempt.set,
                          !.hold = StateOf(witness).attempt.hold, !.head = witness]
  OBVIOUS
<1>2. IsProc(x) /\ x.pc = "ensure" /\ x.head = witness /\ x.set = StateOf(witness).attempt.set
  BY <1>1 DEF Idle, IsProc
<1>3. x.set \in Sets
  BY <1>2, WitnessIs DEF IsState, IsAttempt
<1> QED BY <1>1, <1>2, <1>3, Begins

\* restore-refuse destroys the target.
LEMMA RestoreRefuseKeeps ==
  ASSUME SafetyInv, NEW p \in Supervisors, RestoreRefuse(p)
  PROVE  SafetyInv'
<1>1. PICK c : c = (IF refused THEN "resume" ELSE "mark")
  OBVIOUS
<1>2. PICK x : x = [Idle EXCEPT !.pc = c, !.set = StateOf(witness).attempt.set,
                          !.hold = StateOf(witness).attempt.hold, !.head = witness]
  OBVIOUS
<1>3. IsProc(x) /\ x.pc = c /\ x.head = witness /\ x.set = StateOf(witness).attempt.set
  BY <1>2 DEF Idle, IsProc
<1>4. StateOf(witness).attempt.stage = "frozen"
  BY DEF RestoreRefuse
<1>5. x.set \in Sets
  BY <1>3, <1>4, WitnessIs DEF IsState, IsAttempt
<1>6. proc' = [proc EXCEPT ![p] = x] /\ UNCHANGED seen
  BY <1>1, <1>2 DEF RestoreRefuse, seen, authority, archiveFiles
<1>7. c \in {"mark", "resume"}
  BY <1>1
<1> QED BY <1>3, <1>5, <1>6, <1>7, Begins

\* And marks it destroyed.
LEMMA MarkRefusedKeeps ==
  ASSUME SafetyInv, NEW p \in Supervisors, MarkRefused(p)
  PROVE  SafetyInv'
<1>1. UNCHANGED seen /\ proc[p].pc = "mark"
  BY DEF MarkRefused, seen, authority, archiveFiles
<1>2. CASE Stop(p)
  BY <1>1, <1>2, StopStep
<1>3. CASE Goto(p, "resume")
  <2>1. proc[p].set \in Sets
    BY <1>1 DEF SafetyInv, ProcInv, KnowsEntry, OnSet
  <2> QED BY <1>1, <1>3, <2>1, LightGoto DEF Owning, Late, Promoting, OnSet
<1> QED BY <1>2, <1>3 DEF MarkRefused

\* The immutable file of an object is created, and nothing is taken away.
LEMMA PromoteCreateKeeps ==
  ASSUME SafetyInv, NEW p \in Supervisors, PromoteCreate(p)
  PROVE  SafetyInv'
<1>1. UNCHANGED seen /\ proc[p].pc = "promote"
  BY DEF PromoteCreate, seen, authority
<1>2. CASE Stop(p)
  BY <1>1, <1>2, StopStep
<1>3. CASE Goto(p, "copy")
  <2>1. PICK y : y = proc[p]
    OBVIOUS
  <2>2. PICK x : MovesProc(p, x) /\ At(x, y, "copy")
    BY <1>3, <2>1, GotoMoves DEF SafetyInv
  <2>3. KnowsEntry(y) /\ KnowsFiles(y)
    BY <2>1 DEF SafetyInv, ProcInv
  <2>4. KnowsEntry(x) /\ KnowsKeys(p, x) /\ KnowsFiles(x) /\ \A z : Apart(x, z)
    BY <1>1, <2>1, <2>2, <2>3
       DEF At, KnowsEntry, KnowsKeys, KnowsFiles, Apart, Owning, Early, Late, Promoting, OnSet
  <2> QED BY <1>1, <2>2, <2>4, QuietStep
<1> QED BY <1>2, <1>3 DEF PromoteCreate

\* A step that changes nothing.
LEMMA StutterKeeps ==
  ASSUME SafetyInv, UNCHANGED vars
  PROVE  SafetyInv'
<1>1. UNCHANGED seen /\ proc' = proc
  BY DEF vars, authority, archiveFiles, seen
<1>2. ProcInv'
  BY <1>1 DEF SafetyInv, ProcInv, seen, KnowsEntry, Bound, KnowsKeys, KeyErased, Erases,
              Checkpoint, KnowsFiles, Reserved, Gone, Apart
<1>3. Extends
  BY <1>1 DEF Extends, seen
<1>4. SignedInv'
  <2>1. \A e \in DOMAIN signed' : Legal(e)' /\ Sourced(e)' /\ signed'[e].prev \in journal' \cup {0}
    BY <1>1, <1>3, LegalStays DEF SafetyInv, seen
  <2> QED BY <1>1, <2>1 DEF SafetyInv, SignedInv, seen, Starts
<1>5. TablesInv'
  BY <1>1 DEF SafetyInv, TablesInv, seen, IsDb, TablesAreSigned, RestoreIsHeld, Stored, Reserved,
              Gone, StateOf, Checkpoint
<1>6. KeysInv'
  BY <1>1 DEF SafetyInv, KeysInv, seen, KeyErased, Erases
<1> QED BY <1>2, <1>4, <1>5, <1>6 DEF SafetyInv

-----------------------------------------------------------------------------
(* Signing                                                                 *)

\* A set becomes known by its start, and its key is to be erased by an erasure.
Knew(st, n, event, s, r) ==
    /\ n.archive[r].life # "none" =>
           st.archive[r].life # "none" \/ (event = "BackupSetStarted" /\ r = s)
    /\ n.archive[r].erasing =>
           st.archive[r].erasing \/ (event = "PreparedArchiveKeyErasure" /\ r = s)

\* So it is whenever a state accepts an event.
LEMMA KnownBefore ==
  ASSUME NEW st, IsState(st), NEW event \in Events, NEW s \in Sets, NEW h, NEW id \in Nat, NEW prep,
         event = "ArchiveRestoreHoldAcquired" => h \in Holds,
         Accepts(st, event, s, h, prep),
         NEW n, n = NextState(st, event, s, h, id, prep), NEW r \in Sets
  PROVE  Knew(st, n, event, s, r)
<1>1. PICK b, x, y : /\ b = NextArchive(st.archive, event, s, h, id, prep)
                     /\ x = st.archive[s] /\ y = NextSet(x, event, h, id, prep)
  OBVIOUS
<1>2. n.archive = b /\ IsArchive(st.archive)
  BY <1>1 DEF NextState, IsState
<1>3. b[s] = y /\ IsSet(x) /\ (r # s => b[r] = st.archive[r])
  BY <1>1, <1>2, ArchiveAfter DEF IsArchive
<1>4. CASE r # s
  BY <1>2, <1>3, <1>4 DEF Knew
<1>5. CASE r = s
  <2>1. y.life # "none" => x.life # "none" \/ event = "BackupSetStarted"
    <3>1. event \notin {"BackupSetStarted", "ArchiveSealingStarted", "ArchiveSealed",
                        "ManagedBackupDeletionPrepared", "ArchiveKeyErased",
                        "ManagedBackupDeleted"} => y.life = x.life
      BY <1>1, <1>3, SetAfter
    <3>2. event = "ArchiveSealingStarted" => x.life = "streaming"
      BY <1>1, AcceptsMeans
    <3>3. event = "ArchiveSealed" => x.life = "sealing"
      BY <1>1, AcceptsMeans
    <3>4. event = "ManagedBackupDeletionPrepared" => x.life = "sealed"
      BY <1>1, AcceptsMeans
    <3>5. event = "ArchiveKeyErased" => x.life = "deletion_prepared"
      BY <1>1, AcceptsMeans
    <3>6. event = "ManagedBackupDeleted" => x.life = "archive_key_erased"
      BY <1>1, AcceptsMeans
    <3> QED BY <3>1, <3>2, <3>3, <3>4, <3>5, <3>6
  <2>2. y.erasing => x.erasing \/ event = "PreparedArchiveKeyErasure"
    <3>1. event = "BackupSetStarted" => ~y.erasing
      BY <1>1, <1>3, SetAfter
    <3>2. event \notin {"BackupSetStarted", "PreparedArchiveKeyErasure"} => y.erasing = x.erasing
      BY <1>1, <1>3, SetAfter
    <3> QED BY <3>1, <3>2
  <2> QED BY <1>1, <1>2, <1>3, <1>5, <2>1, <2>2 DEF Knew
<1> QED BY <1>4, <1>5

\* The invariant of the signed entries, when none is added.
LEMMA SignedKept ==
  ASSUME SignedInv, Extends, signed' = signed, journal' \subseteq DOMAIN signed,
         {witness', db'.head} \subseteq journal' \cup {0}
  PROVE  SignedInv'
<1>1. \A e \in DOMAIN signed' : Legal(e)' /\ Sourced(e)' /\ signed'[e].prev \in journal' \cup {0}
  BY LegalStays
<1> QED BY <1>1 DEF SignedInv, Starts

\* That of the tables, when they stay and no object they hold loses both its files.
LEMMA TablesStay ==
  ASSUME SignedInv, TablesInv, Extends, db' = db,
         \A s \in Sets : ~Gone(s) =>
             \A o \in ToSet(db.archive[s].objs) :
                 o \in staged \cup promoted => o \in staged' \cup promoted'
  PROVE  TablesInv'
<1>1. db.head \in DOMAIN signed \cup {0}
  BY DEF SignedInv
<1>2. PICK d : d = db.head
  OBVIOUS
<1>3. StateOf(d)' = StateOf(d)
  BY <1>1, <1>2, HeadStays
<1>4. TablesAreSigned'
  BY <1>2, <1>3 DEF TablesInv, TablesAreSigned
<1>5. RestoreIsHeld' /\ IsDb'
  BY DEF TablesInv, RestoreIsHeld, IsDb
<1>6. ASSUME NEW s \in Sets PROVE Stored(s)'
  <2>1. Stored(s)
    BY DEF TablesInv
  <2>2. ASSUME NEW o \in ToSet(db.archive[s].objs)
        PROVE  /\ o \in journal' /\ Checkpoint(o)' /\ signed'[o].set = s /\ ~Reserved(o)'
               /\ Gone(s)' \/ o \in staged' \cup promoted'
    <3>1. o \in journal /\ Checkpoint(o) /\ signed[o].set = s /\ ~Reserved(o)
          /\ (Gone(s) \/ o \in staged \cup promoted)
      BY <2>1 DEF Stored
    <3>2. o \in DOMAIN signed
      BY <3>1, Positions
    <3>3. (Checkpoint(o)' <=> Checkpoint(o)) /\ signed'[o] = signed[o]
      BY <3>2, SignedStays
    <3>4. (Reserved(o)' <=> Reserved(o)) /\ (Gone(s)' <=> Gone(s))
      BY DEF Reserved, Gone
    <3> QED BY <3>1, <3>3, <3>4 DEF Extends
  <2> QED BY <2>2 DEF Stored
<1>7. /\ \A i \in db'.intents : i.id \in DOMAIN signed' /\ i.id # db'.head
      /\ \A i, j \in db'.intents : i.id = j.id => i = j
  BY DEF TablesInv, Extends
<1> QED BY <1>4, <1>5, <1>6, <1>7 DEF TablesInv

\* That of the keys, when nothing is journalled and no key goes.
LEMMA KeysStay ==
  ASSUME SignedInv, KeysInv, Extends, journal' = journal, keys \subseteq keys', keys' \subseteq Sets
  PROVE  KeysInv'
<1>1. ASSUME NEW e \in journal, NEW s \in Sets
      PROVE  signed'[e].state.archive[s].life = "none" \/ s \in keys' \/ KeyErased(s)'
  <2>1. signed'[e] = signed[e]
    BY SignedStays, Positions
  <2> QED BY <2>1, ErasedStays DEF KeysInv
<1> QED BY <1>1 DEF KeysInv

\* One more entry, and the entries after it.
Appends(z, x, w, e) == z \in Seq(ToSet(z)) /\ w = Append(z, x) /\ e = Len(z) + 1

Longer(z, x, w, e) ==
    /\ w \in Seq(ToSet(w)) /\ DOMAIN w = DOMAIN z \cup {e} /\ e \notin DOMAIN z /\ w[e] = x
    /\ e \in Nat \ {0} /\ DOMAIN z = 1 .. e - 1
    /\ \A i \in DOMAIN z : w[i] = z[i]

\* What an appended entry leaves of the others.
LEMMA Appended ==
  ASSUME NEW z, NEW x, NEW w, NEW e, Appends(z, x, w, e)
  PROVE  Longer(z, x, w, e)
<1>0. z \in Seq(ToSet(z)) /\ w = Append(z, x) /\ e = Len(z) + 1
  BY DEF Appends
<1>1. Len(z) \in Nat /\ DOMAIN z = 1 .. Len(z) /\ e \in Nat
  BY <1>0
<1>2. z \in Seq(ToSet(z) \cup {x}) /\ w \in Seq(ToSet(z) \cup {x})
  <2>1. \A i \in 1 .. Len(z) : z[i] \in ToSet(z) \cup {x}
    BY <1>0, <1>1
  <2>2. z \in Seq(ToSet(z) \cup {x})
    BY <1>0, <1>1, <2>1
  <2> QED BY <1>0, <2>2
<1>3. Len(w) = e /\ w[e] = x /\ \A i \in 1 .. Len(z) : w[i] = z[i]
  BY <1>0, <1>1, <1>2
<1>4. DOMAIN w = 1 .. e
  BY <1>2, <1>3
<1>5. \A i \in 1 .. e : w[i] \in ToSet(w)
  BY <1>4 DEF ToSet
<1>6. w \in [1 .. e -> ToSet(w)]
  <2>1. w \in [1 .. e -> ToSet(z) \cup {x}]
    BY <1>2, <1>3, LenProperties
  <2> QED BY <1>5, <2>1
<1>7. w \in Seq(ToSet(w))
  BY <1>1, <1>6, SeqDef
<1> QED BY <1>0, <1>1, <1>3, <1>4, <1>7 DEF Longer

\* What a supervisor signs over a durable head is legal, and it is alone with it.
LEMMA SignKeeps ==
  ASSUME SafetyInv, NEW p \in Supervisors, NEW head \in journal \cup {0}, NEW event \in Events,
         NEW s \in Sets, NEW h, NEW prep,
         event \in {"ArchiveRestoreHoldAcquired", "RestoreAttemptPrepared"} => h \in Holds,
         event = "BackupSetStarted" => \A i \in DOMAIN signed : ~Starts(i, s),
         Sign(p, head, event, s, h, prep), UNCHANGED <<keys, staged, promoted>>
  PROVE  SafetyInv'
<1>1. PICK e, st, n : /\ e = Len(signed) + 1 /\ st = StateOf(head)
                      /\ n = NextState(st, event, s, h, e, prep)
  OBVIOUS
<1>2. PICK x : x = [prev |-> head, event |-> event, set |-> s, hold |-> h, state |-> n]
  OBVIOUS
<1>3. PICK y : y = [pc |-> "signed", set |-> s, hold |-> h, prep |-> prep, head |-> head,
                    entry |-> e, gone |-> {}]
  OBVIOUS
<1>4. /\ signed' = Append(signed, x) /\ proc' = [proc EXCEPT ![p] = y]
      /\ Accepts(st, event, s, h, prep) /\ UNCHANGED <<journal, witness, db, permit>>
  BY <1>1, <1>2, <1>3 DEF Sign
<1>5. SignedInv /\ TablesInv /\ KeysInv /\ ProcInv
  BY DEF SafetyInv
<1>6. /\ signed' \in Seq(ToSet(signed')) /\ DOMAIN signed' = DOMAIN signed \cup {e}
      /\ e \notin DOMAIN signed /\ signed'[e] = x /\ e \in Nat \ {0} /\ DOMAIN signed = 1 .. e - 1
      /\ \A i \in DOMAIN signed : signed'[i] = signed[i]
  <2>1. signed \in Seq(ToSet(signed))
    BY <1>5 DEF SignedInv
  <2>2. PICK z, w : z = signed /\ w = signed'
    OBVIOUS
  <2>3. Appends(z, x, w, e)
    BY <1>1, <1>4, <2>1, <2>2 DEF Appends
  <2> QED BY <2>2, <2>3, Appended DEF Longer
<1>7. Extends
  BY <1>4, <1>6 DEF Extends
<1>8. head \in DOMAIN signed \cup {0} /\ IsState(st) /\ StateOf(head)' = st
  BY <1>1, <1>5, <1>7, Positions, HeadIs, HeadStays
<1>9. /\ Accepts(st, event, s, h, n.archive[s].prep)
      /\ n = NextState(st, event, s, h, e, n.archive[s].prep)
      /\ event = "ManagedBackupDeletionPrepared" => prep = n.archive[s].prep
  <2>1. e \in Nat /\ n = NextState(st, event, s, h, e, prep) /\ Accepts(st, event, s, h, prep)
    BY <1>1, <1>4, <1>6
  <2>2. event = "ArchiveRestoreHoldAcquired" => h \in Holds
    OBVIOUS
  <2> QED BY <1>8, <2>1, <2>2, BoundIs
<1>10. IsState(n)
  BY <1>1, <1>4, <1>6, <1>8, StateAfter
<1>11. Bound(e)' = n.archive[s].prep
  BY <1>2, <1>6 DEF Bound
<1>12. Legal(e)'
  <2>1. /\ signed'[e].prev = head /\ signed'[e].event = event /\ signed'[e].set = s
        /\ signed'[e].hold = h /\ signed'[e].state = n
    BY <1>2, <1>6
  <2>2. head \in 0 .. e - 1
    BY <1>6, <1>8
  <2> QED BY <1>8, <1>9, <1>10, <1>11, <2>1, <2>2 DEF Legal
<1>13. Sourced(e)'
  <2> SUFFICES ASSUME NEW r \in Sets
               PROVE  /\ n.archive[r].life # "none" =>
                             \E b \in journal' \cup {e} : Starts(b, r)'
                      /\ n.archive[r].erasing =>
                             \E b \in journal' \cup {e} : Erases(b, r)'
    BY <1>2, <1>6 DEF Sourced
  <2>1. (event = "BackupSetStarted" /\ r = s => Starts(e, r)')
        /\ (event = "PreparedArchiveKeyErasure" /\ r = s => Erases(e, r)')
    BY <1>2, <1>6 DEF Starts, Erases
  <2>2. \A b \in journal : (Starts(b, r) => Starts(b, r)') /\ (Erases(b, r) => Erases(b, r)')
    BY <1>5, <1>7, SignedStays, Positions
  <2>3. /\ st.archive[r].life # "none" => \E b \in journal : Starts(b, r)
        /\ st.archive[r].erasing => \E b \in journal : Erases(b, r)
    <3>1. CASE head = 0
      <4>1. st.archive[r] = NoSet
        BY <1>1, <3>1, GenesisIs DEF StateOf
      <4>2. st.archive[r].life = "none"
        BY <4>1 DEF NoSet
      <4>3. ~st.archive[r].erasing
        BY <4>1 DEF NoSet
      <4> QED BY <4>2, <4>3
    <3>2. CASE head # 0
      <4>1. head \in journal /\ st = signed[head].state
        BY <1>1, <3>2 DEF StateOf
      <4>2. Sourced(head)
        BY <1>5, <1>8, <3>2 DEF SignedInv
      <4> QED BY <4>1, <4>2 DEF Sourced
    <3> QED BY <3>1, <3>2
  <2>4. Knew(st, n, event, s, r)
    <3>1. e \in Nat /\ n = NextState(st, event, s, h, e, prep) /\ Accepts(st, event, s, h, prep)
      BY <1>1, <1>4, <1>6
    <3>2. event = "ArchiveRestoreHoldAcquired" => h \in Holds
      OBVIOUS
    <3> QED BY <1>8, <3>1, <3>2, KnownBefore
  <2> QED BY <1>4, <2>1, <2>2, <2>3, <2>4 DEF Knew
<1>14. SignedInv'
  <2>1. ASSUME NEW i \in DOMAIN signed'
        PROVE  Legal(i)' /\ Sourced(i)' /\ signed'[i].prev \in journal' \cup {0}
    <3>1. CASE i = e
      <4>1. signed'[i].prev \in journal' \cup {0}
        BY <1>2, <1>4, <1>6, <3>1
      <4> QED BY <1>12, <1>13, <3>1, <4>1
    <3>2. CASE i # e
      BY <1>5, <1>6, <1>7, <2>1, <3>2, LegalStays
    <3> QED BY <3>1, <3>2
  <2>2. ASSUME NEW i \in DOMAIN signed', NEW j \in DOMAIN signed', NEW r \in Sets,
               Starts(i, r)', Starts(j, r)'
        PROVE  i = j
    <3>1. \A k \in DOMAIN signed : Starts(k, r)' <=> Starts(k, r)
      BY <1>5, <1>7, SignedStays
    <3>2. Starts(e, r)' => event = "BackupSetStarted" /\ s = r
      BY <1>2, <1>6 DEF Starts
    <3>3. \A k, l \in DOMAIN signed : Starts(k, r) /\ Starts(l, r) => k = l
      BY <1>5 DEF SignedInv
    <3> QED BY <1>6, <2>2, <3>1, <3>2, <3>3
  <2>3. journal' \subseteq DOMAIN signed' /\ {witness', db'.head} \subseteq journal' \cup {0}
    BY <1>4, <1>5, <1>6 DEF SignedInv
  <2> QED BY <1>6, <2>1, <2>2, <2>3 DEF SignedInv
<1>15. TablesInv'
  BY <1>4, <1>5, <1>7, TablesStay
<1>16. KeysInv'
  <2>1. keys \subseteq Sets
    BY <1>5 DEF KeysInv
  <2> QED BY <1>4, <1>5, <1>7, <2>1, KeysStay
<1>17. ProcInv'
  <2>1. MovesProc(p, y)
    BY <1>4, <1>5, SetMovesProc
  <2>2. /\ IsProc(y) /\ y.pc = "signed" /\ y.set = s /\ y.prep = prep /\ y.head = head
        /\ y.entry = e
    BY <1>3 DEF IsProc
  <2>3. e \notin journal
    BY <1>5, <1>6, Positions
  <2>4. KnowsEntry(y)'
    <3>1. signed'[e].set = s /\ signed'[e].event = event
      BY <1>2, <1>6
    <3>2. signed'[e].event = "ManagedBackupDeletionPrepared" => prep = Bound(e)'
      BY <1>9, <1>11, <3>1
    <3> QED BY <1>4, <1>6, <2>2, <2>3, <3>1, <3>2
            DEF KnowsEntry, Owning, Early, Late, Promoting, OnSet
  <2>5. ~Reserved(e)'
    BY <1>4, <1>5, <1>6 DEF Reserved, TablesInv
  <2>6. KnowsKeys(p, y)' /\ KnowsFiles(y)'
    BY <2>2, <2>5 DEF KnowsKeys, KnowsFiles, Promoting
  <2>7. ASSUME NEW q \in Supervisors, NEW z, q # p, z = proc[q]
        PROVE  KnowsEntry(z)' /\ KnowsKeys(q, z)' /\ KnowsFiles(z)' /\ Apart(y, z)
    <3>1. KnowsEntry(z) /\ KnowsKeys(q, z) /\ KnowsFiles(z)
      BY <1>5, <2>7, OtherKnows
    <3>2. KnowsEntry(z)'
      BY <1>4, <1>5, <1>7, <3>1, KnowsEntryStays DEF KnowsEntry
    <3>3. KnowsKeys(q, z)'
      BY <1>4, <1>5, <1>7, <3>1, KnowsKeysStays DEF KnowsKeys
    <3>4. KnowsFiles(z)'
      BY <1>4, <1>5, <1>7, <3>1, KnowsFilesStays
    <3>5. Apart(y, z)
      BY <1>6, <2>2, <3>1 DEF Apart, KnowsEntry, KnowsFiles
    <3> QED BY <3>2, <3>3, <3>4, <3>5
  <2> QED BY <1>5, <2>1, <2>4, <2>6, <2>7, ProcStep
<1> QED BY <1>14, <1>15, <1>16, <1>17 DEF SafetyInv

\* A command that opens the witness signs over a durable head.
LEMMA CommandKeeps ==
  ASSUME SafetyInv, NEW p \in Supervisors, NEW event \in Events, NEW s \in Sets, NEW h, NEW prep,
         event \in {"ArchiveRestoreHoldAcquired", "RestoreAttemptPrepared"} => h \in Holds,
         event = "BackupSetStarted" => \A i \in DOMAIN signed : ~Starts(i, s),
         Command(p, event, s, h, prep)
  PROVE  SafetyInv'
<1>1. PICK head : head = witness
  OBVIOUS
<1>2. head \in journal \cup {0}
  BY <1>1, WitnessIs
<1>3. Sign(p, head, event, s, h, prep) /\ UNCHANGED <<keys, staged, promoted>>
  BY <1>1 DEF Command, archiveFiles
<1> QED BY <1>2, <1>3, SignKeeps

\* The backup commands that sign at once.
LEMMA BackupSigns ==
  ASSUME SafetyInv, NEW p \in Supervisors,
         \/ Initialize(p) \/ BackupBegin(p) \/ BackupAppend(p) \/ BackupAcquireHold(p)
         \/ BackupBeginSealing(p) \/ BackupCommitSealed(p)
  PROVE  SafetyInv'
<1>1. ASSUME NEW event \in {"InstallationInitialized", "ArchiveCheckpointCommitted",
                            "ArchiveSealingStarted", "ArchiveSealed"},
             NEW s \in Sets, Command(p, event, s, None, None)
      PROVE  SafetyInv'
  <2>1. event \in Events
    BY DEF Events
  <2> QED BY <1>1, <2>1, CommandKeeps
<1>2. CASE Initialize(p)
  BY <1>1, <1>2 DEF Initialize
<1>3. CASE BackupBegin(p)
  <2>1. PICK s \in Sets :
          /\ \A i \in DOMAIN signed : signed[i].event = "BackupSetStarted" => signed[i].set # s
          /\ Command(p, "BackupSetStarted", s, None, None)
    BY <1>3 DEF BackupBegin
  <2>2. \A i \in DOMAIN signed : ~Starts(i, s)
    BY <2>1 DEF Starts
  <2>3. PICK event : event = "BackupSetStarted"
    OBVIOUS
  <2>4. event \in Events
    BY <2>3 DEF Events
  <2> QED BY <2>1, <2>2, <2>3, <2>4, CommandKeeps
<1>4. CASE BackupAppend(p)
  <2>1. keys \subseteq Sets
    BY DEF SafetyInv, KeysInv
  <2> QED BY <1>1, <1>4, <2>1 DEF BackupAppend
<1>5. CASE BackupAcquireHold(p)
  <2>1. PICK s \in Sets, h \in Holds : Command(p, "ArchiveRestoreHoldAcquired", s, h, None)
    BY <1>5 DEF BackupAcquireHold
  <2>2. PICK event : event = "ArchiveRestoreHoldAcquired"
    OBVIOUS
  <2>3. event \in Events
    BY <2>2 DEF Events
  <2> QED BY <2>1, <2>2, <2>3, CommandKeeps
<1>6. CASE BackupBeginSealing(p)
  BY <1>1, <1>6 DEF BackupBeginSealing
<1>7. CASE BackupCommitSealed(p)
  BY <1>1, <1>7 DEF BackupCommitSealed
<1> QED BY <1>2, <1>3, <1>4, <1>5, <1>6, <1>7

\* The later steps of a deletion, each of which signs over the witness of its moment.
LEMMA DeletionSigns ==
  ASSUME SafetyInv, NEW p \in Supervisors,
         SignDeletion(p) \/ SignErasure(p) \/ RecordKeyErased(p) \/ RecordDeleted(p)
  PROVE  SafetyInv'
<1>1. PICK head, s, prep : head = witness /\ s = proc[p].set /\ prep = proc[p].prep
  OBVIOUS
<1>2. PICK event, f : /\ event \in {"ManagedBackupDeletionPrepared", "PreparedArchiveKeyErasure",
                                    "ArchiveKeyErased", "ManagedBackupDeleted"}
                      /\ Sign(p, head, event, s, None, f)
  BY <1>1 DEF SignDeletion, SignErasure, RecordKeyErased, RecordDeleted
<1>3. UNCHANGED <<keys, staged, promoted>> /\ proc[p].pc \in OnSet
  BY DEF SignDeletion, SignErasure, RecordKeyErased, RecordDeleted, archiveFiles, OnSet
<1>4. s \in Sets
  BY <1>1, <1>3 DEF SafetyInv, ProcInv, KnowsEntry
<1>5. head \in journal \cup {0}
  BY <1>1, WitnessIs
<1>6. event \in Events
  BY <1>2 DEF Events
<1>7. event \notin {"ArchiveRestoreHoldAcquired", "RestoreAttemptPrepared", "BackupSetStarted"}
  BY <1>2
<1> QED BY <1>2, <1>3, <1>4, <1>5, <1>6, <1>7, SignKeeps

\* The steps of a restore whose attempt the head already holds.
LEMMA AttemptSigns ==
  ASSUME SafetyInv, NEW p \in Supervisors, NEW head \in journal \cup {0},
         NEW event \in {"SourceFreezeRecorded", "TargetActivationPlanned", "TargetInitialized"},
         Sign(p, head, event, StateOf(head).attempt.set, StateOf(head).attempt.hold, None),
         UNCHANGED <<keys, staged, promoted>>
  PROVE  SafetyInv'
<1>1. PICK s, h, st : st = StateOf(head) /\ s = st.attempt.set /\ h = st.attempt.hold
  OBVIOUS
<1>2. Sign(p, head, event, s, h, None)
  BY <1>1
<1>3. Accepts(st, event, s, h, None) /\ event \in Events
  BY <1>1, <1>2 DEF Sign, Events
<1>4. st.attempt.stage # "none"
  <2>1. event = "SourceFreezeRecorded" => st.attempt.stage = "prepared"
    BY <1>3, AcceptsMeans
  <2>2. event \in {"TargetActivationPlanned", "TargetInitialized", "SourceResumePrepared"} =>
            st.attempt.stage = "frozen"
    BY <1>3, AcceptsMeans
  <2> QED BY <2>1, <2>2
<1>5. IsState(st)
  BY <1>1, HeadIs, Positions DEF SafetyInv
<1>6. s \in Sets
  BY <1>1, <1>4, <1>5 DEF IsState, IsAttempt
<1> QED BY <1>2, <1>3, <1>6, SignKeeps

\* restore-freeze-source, restore-plan-activation and the first step of restore-activate.
LEMMA RestoreSigns ==
  ASSUME SafetyInv, NEW p \in Supervisors,
         \/ RestoreFreezeSource(p) \/ RestorePlanActivation(p)
         \/ Command(p, "TargetInitialized", StateOf(witness).attempt.set,
                    StateOf(witness).attempt.hold, None)
  PROVE  SafetyInv'
<1>1. PICK head : head = witness
  OBVIOUS
<1>2. PICK event \in {"SourceFreezeRecorded", "TargetActivationPlanned", "TargetInitialized"} :
         Sign(p, head, event, StateOf(head).attempt.set, StateOf(head).attempt.hold, None)
  BY <1>1 DEF RestoreFreezeSource, RestorePlanActivation, Command
<1>3. UNCHANGED <<keys, staged, promoted>>
  BY DEF RestoreFreezeSource, RestorePlanActivation, Command, archiveFiles
<1>4. head \in journal \cup {0}
  BY <1>1, WitnessIs
<1> QED BY <1>2, <1>3, <1>4, AttemptSigns

\* restore-prepare signs an attempt, or finds it in the witness.
LEMMA RestorePrepareKeeps ==
  ASSUME SafetyInv, NEW p \in Supervisors, RestorePrepare(p)
  PROVE  SafetyInv'
<1>1. PICK s \in Sets, h \in Holds :
        \/ Command(p, "RestoreAttemptPrepared", s, h, None)
        \/ /\ proc' = [proc EXCEPT ![p] = [Idle EXCEPT !.pc = "target"]]
           /\ UNCHANGED <<authority, archiveFiles, restoreFiles, permit>>
  BY DEF RestorePrepare
<1>2. CASE Command(p, "RestoreAttemptPrepared", s, h, None)
  <2>1. PICK event : event = "RestoreAttemptPrepared"
    OBVIOUS
  <2>2. event \in Events
    BY <2>1 DEF Events
  <2> QED BY <1>2, <2>1, <2>2, CommandKeeps
<1>3. CASE ~Command(p, "RestoreAttemptPrepared", s, h, None)
  <2>1. UNCHANGED seen
    BY <1>1, <1>3 DEF seen, authority, archiveFiles
  <2> QED BY <1>1, <1>3, <2>1, TargetBegins
<1> QED BY <1>2, <1>3

\* restore-activate begins.
LEMMA RestoreActivateKeeps ==
  ASSUME SafetyInv, NEW p \in Supervisors, RestoreActivate(p)
  PROVE  SafetyInv'
<1>1. CASE Command(p, "TargetInitialized", StateOf(witness).attempt.set,
                   StateOf(witness).attempt.hold, None)
  BY <1>1, RestoreSigns
<1>2. CASE ~Command(p, "TargetInitialized", StateOf(witness).attempt.set,
                    StateOf(witness).attempt.hold, None)
  <2>1. /\ StateOf(witness).attempt.stage = "initialized"
        /\ proc' = [proc EXCEPT ![p] =
             [Idle EXCEPT !.pc = "ensure", !.set = StateOf(witness).attempt.set,
                          !.hold = StateOf(witness).attempt.hold, !.head = witness]]
        /\ UNCHANGED seen
    BY <1>2 DEF RestoreActivate, seen, authority, archiveFiles
  <2> QED BY <2>1, EnsureBegins
<1> QED BY <1>1, <1>2

\* It goes on from the head it holds in memory.
LEMMA ActivateTargetKeeps ==
  ASSUME SafetyInv, NEW p \in Supervisors, ActivateTarget(p)
  PROVE  SafetyInv'
<1>1. PICK head, s, h : head = proc[p].head /\ s = proc[p].set /\ h = proc[p].hold
  OBVIOUS
<1>2. head \in journal \cup {0} /\ s \in Sets
  BY <1>1 DEF SafetyInv, ProcInv, KnowsEntry, ActivateTarget, OnSet
<1>3. ASSUME NEW event \in {"TargetActivating", "GenerationRegistered"},
             Sign(p, head, event, s, h, None)
      PROVE  SafetyInv'
  <2>1. event \in Events
    BY DEF Events
  <2>2. UNCHANGED <<keys, staged, promoted>>
    BY DEF ActivateTarget, archiveFiles
  <2> QED BY <1>2, <1>3, <2>1, <2>2, SignKeeps
<1>4. CASE Goto(p, "release") /\ UNCHANGED <<authority, permit>>
  <2>1. UNCHANGED seen
    BY <1>4 DEF ActivateTarget, archiveFiles, authority, seen
  <2> QED BY <1>4, <2>1, LightGoto DEF Owning, Late, Promoting, OnSet
<1> QED BY <1>1, <1>3, <1>4 DEF ActivateTarget

\* restore-refuse resumes the source.
LEMMA ResumeSourceKeeps ==
  ASSUME SafetyInv, NEW p \in Supervisors, ResumeSource(p)
  PROVE  SafetyInv'
<1>1. PICK head, s, h, event : /\ head = proc[p].head /\ s = proc[p].set /\ h = proc[p].hold
                               /\ event = "SourceResumePrepared"
  OBVIOUS
<1>2. head \in journal \cup {0} /\ s \in Sets
  BY <1>1 DEF SafetyInv, ProcInv, KnowsEntry, ResumeSource, OnSet
<1>3. event \in Events
  BY <1>1 DEF Events
<1>4. Sign(p, head, event, s, h, None) /\ UNCHANGED <<keys, staged, promoted>>
  BY <1>1 DEF ResumeSource, archiveFiles
<1> QED BY <1>1, <1>2, <1>3, <1>4, SignKeeps

-----------------------------------------------------------------------------
(* One transition, from the permit to the witness                          *)

\* What has to be shown of a step that leaves the tables alone.
LEMMA OthersStep ==
  ASSUME SafetyInv, NEW p \in Supervisors, NEW x, MovesProc(p, x), Extends, db' = db,
         KnowsEntry(x)', KnowsKeys(p, x)', KnowsFiles(x)',
         \A q \in Supervisors : \A y : q # p /\ y = proc[q] =>
             /\ Apart(x, y)
             /\ y.pc \in Early => y.entry \notin journal'
             /\ y.pc = "permitted" =>
                    permit' = q /\ (y.set \in keys => y.set \in keys' \/ KeyErased(y.set)')
             /\ y.pc \in {"staged", "journalled", "advanced"} =>
                    (y.entry \in staged /\ Reserved(y.entry) => y.entry \in staged')
             /\ y.pc = "unstage" =>
                    (y.entry \in promoted => y.entry \in promoted' \/ Gone(signed[y.entry].set))
  PROVE  ProcInv'
<1>1. SignedInv /\ ProcInv
  BY DEF SafetyInv
<1>2. ASSUME NEW q \in Supervisors, NEW y, q # p, y = proc[q]
      PROVE  KnowsEntry(y)' /\ KnowsKeys(q, y)' /\ KnowsFiles(y)' /\ Apart(x, y)
  <2>1. KnowsEntry(y) /\ KnowsKeys(q, y) /\ KnowsFiles(y)
    BY <1>1, <1>2, OtherKnows
  <2>2. KnowsEntry(y)'
    BY <1>1, <1>2, <2>1, KnowsEntryStays
  <2>3. KnowsKeys(q, y)'
    BY <1>1, <1>2, <2>1, KnowsKeysStays
  <2>4. KnowsFiles(y)'
    BY <1>1, <1>2, <2>1, KnowsFilesStays
  <2> QED BY <1>2, <2>2, <2>3, <2>4
<1> QED BY <1>1, <1>2, ProcStep

\* The permit has one holder.
LEMMA OneHolder ==
  ASSUME SafetyInv, NEW q \in Supervisors, proc[q].pc = "permitted"
  PROVE  permit = q /\ permit # None
BY NobodyAssumption DEF SafetyInv, ProcInv, KnowsKeys

\* An entry that is owned belongs to a backup set.
LEMMA OwnedSet ==
  ASSUME SafetyInv, NEW p \in Supervisors, proc[p].pc \in Owning
  PROVE  /\ proc[p].entry \in DOMAIN signed /\ proc[p].set = signed[proc[p].entry].set
         /\ proc[p].set \in Sets
<1>1. PICK e : e = proc[p].entry
  OBVIOUS
<1>2. e \in DOMAIN signed /\ proc[p].set = signed[e].set
  BY <1>1 DEF SafetyInv, ProcInv, KnowsEntry
<1>3. Legal(e)
  BY <1>2 DEF SafetyInv, SignedInv
<1> QED BY <1>1, <1>2, <1>3 DEF Legal

\* The permit is taken, and a start makes its key.
LEMMA AcquireKeeps ==
  ASSUME SafetyInv, NEW p \in Supervisors, Acquire(p)
  PROVE  SafetyInv'
<1>1. PICK y : y = proc[p]
  OBVIOUS
<1>2. /\ y.pc = "signed" /\ ~Checkpoint(y.entry) /\ permit = None /\ permit' = p
      /\ keys' = (IF signed[y.entry].event = "BackupSetStarted" THEN keys \cup {y.set} ELSE keys)
      /\ Goto(p, "permitted")
      /\ UNCHANGED <<signed, journal, witness, db, staged, promoted>>
  BY <1>1 DEF Acquire, Free, authority
<1>3. SignedInv /\ TablesInv /\ KeysInv /\ ProcInv
  BY DEF SafetyInv
<1>4. Extends
  BY <1>2 DEF Extends
<1>5. PICK x : MovesProc(p, x) /\ At(x, y, "permitted")
  BY <1>1, <1>2, <1>3, GotoMoves
<1>6. KnowsEntry(y) /\ y.set \in Sets
  BY <1>1, <1>2, <1>3, OwnedSet DEF ProcInv, Owning
<1>7. SignedInv'
  BY <1>2, <1>3, <1>4, SignedKept DEF SignedInv
<1>8. TablesInv'
  BY <1>2, <1>3, <1>4, TablesStay
<1>9. KeysInv'
  BY <1>2, <1>3, <1>4, <1>6, KeysStay DEF KeysInv
<1>10. KnowsEntry(x)
  BY <1>2, <1>5, <1>6 DEF At, KnowsEntry, Owning, Early, Late, Promoting, OnSet
<1>11. KnowsEntry(x)'
  <2>1. x.pc = "permitted" /\ x.entry = y.entry
    BY <1>5 DEF At
  <2>2. x.entry \notin journal'
    BY <1>2, <1>6, <2>1 DEF KnowsEntry, Early
  <2> QED BY <1>3, <1>4, <1>10, <2>2, KnowsEntryStays
<1>12. KnowsKeys(p, x)' /\ KnowsFiles(x)'
  BY <1>2, <1>5 DEF At, KnowsKeys, KnowsFiles, Promoting, Checkpoint
<1>13. ASSUME NEW q \in Supervisors, q # p, NEW z, z = proc[q]
       PROVE  /\ Apart(x, z) /\ z.pc # "permitted"
              /\ z.pc \in Early => z.entry \notin journal
  <2>1. Apart(y, z) /\ KnowsEntry(z)
    BY <1>1, <1>3, <1>13, OtherKnows
  <2>2. z.pc # "permitted"
    BY <1>2, <1>13, OneHolder
  <2> QED BY <1>2, <1>5, <2>1, <2>2 DEF Apart, At, Owning, KnowsEntry
<1>14. ProcInv'
  BY <1>2, <1>4, <1>5, <1>11, <1>12, <1>13, OthersStep
<1> QED BY <1>7, <1>8, <1>9, <1>14 DEF SafetyInv

\* A start that fails before the journal discards a key that no journalled state needs.
LEMMA FailBeforeJournalKeeps ==
  ASSUME SafetyInv, NEW p \in Supervisors, FailBeforeJournal(p)
  PROVE  SafetyInv'
<1>1. PICK y : y = proc[p]
  OBVIOUS
<1>2. /\ y.pc = "permitted" /\ Stop(p)
      /\ keys' = (IF signed[y.entry].event = "BackupSetStarted" THEN keys \ {y.set} ELSE keys)
      /\ UNCHANGED <<signed, journal, witness, db, staged, promoted>>
  BY <1>1 DEF FailBeforeJournal, authority
<1>3. SignedInv /\ TablesInv /\ KeysInv /\ ProcInv
  BY DEF SafetyInv
<1>4. Extends
  BY <1>2 DEF Extends
<1>5. MovesProc(p, Idle)
  BY <1>2, <1>3, StopMoves
<1>6. KnowsEntry(y) /\ y.entry \in DOMAIN signed /\ y.set = signed[y.entry].set /\ y.set \in Sets
      /\ y.entry \notin journal
  BY <1>1, <1>2, <1>3, OwnedSet DEF ProcInv, Owning, KnowsEntry, Early
<1>7. SignedInv'
  BY <1>2, <1>3, <1>4, SignedKept DEF SignedInv
<1>8. TablesInv'
  BY <1>2, <1>3, <1>4, TablesStay
<1>9. KeysInv'
  <2>1. ASSUME NEW f \in journal, NEW r \in Sets
        PROVE  signed[f].state.archive[r].life = "none" \/ r \in keys' \/ KeyErased(r)
    <3>1. signed[f].state.archive[r].life = "none" \/ r \in keys \/ KeyErased(r)
      BY <1>3 DEF KeysInv
    <3>2. CASE r \in keys => r \in keys'
      BY <3>1, <3>2
    <3>3. CASE r \in keys /\ r \notin keys'
      <4>1. r = y.set /\ Starts(y.entry, r)
        BY <1>2, <1>6, <3>3 DEF Starts
      <4>2. Sourced(f)
        BY <1>3, Positions DEF SignedInv
      <4>3. \A b \in journal : ~Starts(b, r)
        BY <1>3, <1>6, <4>1, Positions DEF SignedInv
      <4>4. signed[f].state.archive[r].life = "none"
        BY <4>2, <4>3 DEF Sourced
      <4> QED BY <4>4
    <3> QED BY <3>2, <3>3
  <2>2. \A r : KeyErased(r) => KeyErased(r)'
    BY <1>2 DEF KeyErased, Erases
  <2> QED BY <1>2, <1>3, <2>1, <2>2 DEF KeysInv
<1>11. KnowsEntry(Idle)' /\ KnowsKeys(p, Idle)' /\ KnowsFiles(Idle)' /\ \A z : Apart(Idle, z)
  BY IdleIs DEF KnowsEntry, KnowsKeys, KnowsFiles, Apart, Owning, Early, Late, Promoting, OnSet
<1>12. ASSUME NEW q \in Supervisors, q # p, NEW z, z = proc[q]
       PROVE  z.pc # "permitted" /\ (z.pc \in Early => z.entry \notin journal)
  <2>1. KnowsEntry(z)
    BY <1>3, <1>12, OtherKnows
  <2>2. z.pc # "permitted"
    BY <1>1, <1>2, <1>12, OneHolder
  <2> QED BY <2>1, <2>2 DEF KnowsEntry
<1>13. ProcInv'
  BY <1>2, <1>4, <1>5, <1>11, <1>12, OthersStep
<1> QED BY <1>7, <1>8, <1>9, <1>13 DEF SafetyInv

\* A supervisor that stops gives the permit back, and nobody else's.
LEMMA CrashKeeps ==
  ASSUME SafetyInv, NEW p \in Supervisors, Crash(p)
  PROVE  SafetyInv'
<1>1. /\ Stop(p) /\ permit' = (IF permit = p THEN None ELSE permit)
      /\ UNCHANGED <<signed, journal, witness, db, keys, staged, promoted>>
  BY DEF Crash, authority, archiveFiles
<1>2. SignedInv /\ TablesInv /\ KeysInv /\ ProcInv
  BY DEF SafetyInv
<1>3. Extends
  BY <1>1 DEF Extends
<1>4. MovesProc(p, Idle)
  BY <1>1, <1>2, StopMoves
<1>5. SignedInv'
  BY <1>1, <1>2, <1>3, SignedKept DEF SignedInv
<1>6. TablesInv'
  BY <1>1, <1>2, <1>3, TablesStay
<1>7. KeysInv'
  BY <1>1, <1>2, <1>3, KeysStay DEF KeysInv
<1>8. KnowsEntry(Idle)' /\ KnowsKeys(p, Idle)' /\ KnowsFiles(Idle)' /\ \A z : Apart(Idle, z)
  BY IdleIs DEF KnowsEntry, KnowsKeys, KnowsFiles, Apart, Owning, Early, Late, Promoting, OnSet
<1>9. ASSUME NEW q \in Supervisors, q # p, NEW z, z = proc[q]
      PROVE  (z.pc = "permitted" => permit' = q) /\ (z.pc \in Early => z.entry \notin journal)
  <2>1. KnowsEntry(z)
    BY <1>2, <1>9, OtherKnows
  <2>2. z.pc = "permitted" => permit' = q
    BY <1>1, <1>9, OneHolder
  <2> QED BY <2>1, <2>2 DEF KnowsEntry
<1>10. ProcInv'
  BY <1>1, <1>3, <1>4, <1>8, <1>9, OthersStep
<1> QED BY <1>5, <1>6, <1>7, <1>10 DEF SafetyInv

\* A key is erased only after its erasure was journalled.
LEMMA EraseKeyFileKeeps ==
  ASSUME SafetyInv, NEW p \in Supervisors, EraseKeyFile(p)
  PROVE  SafetyInv'
<1>1. PICK y : y = proc[p]
  OBVIOUS
<1>2. /\ y.pc = "erase" /\ keys' = keys \ {y.set} /\ Goto(p, "record")
      /\ UNCHANGED <<signed, journal, witness, db, staged, promoted, permit>>
  BY <1>1 DEF EraseKeyFile, authority
<1>3. SignedInv /\ TablesInv /\ KeysInv /\ ProcInv
  BY DEF SafetyInv
<1>4. Extends
  BY <1>2 DEF Extends
<1>5. PICK x : MovesProc(p, x) /\ At(x, y, "record")
  BY <1>1, <1>2, <1>3, GotoMoves
<1>6. KnowsEntry(y) /\ KeyErased(y.set) /\ y.set \in Sets
  BY <1>1, <1>2, <1>3 DEF ProcInv, KnowsEntry, KnowsKeys, OnSet
<1>7. \A r : KeyErased(r)' <=> KeyErased(r)
  BY <1>2 DEF KeyErased, Erases
<1>8. SignedInv'
  BY <1>2, <1>3, <1>4, SignedKept DEF SignedInv
<1>9. TablesInv'
  BY <1>2, <1>3, <1>4, TablesStay
<1>10. KeysInv'
  BY <1>2, <1>3, <1>6, <1>7 DEF KeysInv
<1>11. KnowsEntry(x)' /\ KnowsKeys(p, x)' /\ KnowsFiles(x)' /\ \A z : Apart(x, z)
  <2>1. IsProc(x) /\ x.pc = "record" /\ x.set \in Sets /\ x.head \in journal' \cup {0}
    BY <1>2, <1>5, <1>6 DEF At, KnowsEntry
  <2> QED BY <2>1
          DEF KnowsEntry, KnowsKeys, KnowsFiles, Apart, Owning, Early, Late, Promoting
<1>12. ASSUME NEW q \in Supervisors, q # p, NEW z, z = proc[q]
       PROVE  /\ z.pc = "permitted" =>
                     permit' = q /\ (z.set \in keys => z.set \in keys' \/ KeyErased(z.set)')
              /\ z.pc \in Early => z.entry \notin journal
  <2>1. KnowsEntry(z)
    BY <1>3, <1>12, OtherKnows
  <2>2. z.pc = "permitted" => permit' = q
    BY <1>2, <1>12, OneHolder
  <2>3. z.set \in keys => z.set \in keys' \/ KeyErased(z.set)
    BY <1>2, <1>6
  <2>4. PICK r : r = z.set
    OBVIOUS
  <2> QED BY <1>7, <2>1, <2>2, <2>3, <2>4 DEF KnowsEntry
<1>13. ProcInv'
  BY <1>2, <1>4, <1>5, <1>11, <1>12, OthersStep
<1> QED BY <1>8, <1>9, <1>10, <1>13 DEF SafetyInv

\* The state of an entry that is journalled needs no key but those that were there.
LEMMA JournalKeys ==
  ASSUME SafetyInv, NEW e \in DOMAIN signed, NEW r \in Sets,
         signed[e].event = "BackupSetStarted" => signed[e].set \in keys \/ KeyErased(signed[e].set)
  PROVE  signed[e].state.archive[r].life = "none" \/ r \in keys \/ KeyErased(r)
<1>1. PICK x, st, prep : x = signed[e] /\ st = StateOf(x.prev) /\ prep = Bound(e)
  OBVIOUS
<1>2. Legal(e) /\ x.prev \in journal \cup {0}
  BY <1>1 DEF SafetyInv, SignedInv
<1>3. /\ x.event \in Events /\ x.set \in Sets /\ Accepts(st, x.event, x.set, x.hold, prep)
      /\ x.state = NextState(st, x.event, x.set, x.hold, e, prep)
      /\ x.event \in {"ArchiveRestoreHoldAcquired", "RestoreAttemptPrepared"} => x.hold \in Holds
  BY <1>1, <1>2 DEF Legal
<1>4. x.prev \in DOMAIN signed \cup {0} /\ e \in Nat
  BY <1>2, Positions DEF SafetyInv
<1>5. IsState(st)
  BY <1>1, <1>4, HeadIs DEF SafetyInv
<1>6. PICK n, event, s, h : n = x.state /\ event = x.event /\ s = x.set /\ h = x.hold
  OBVIOUS
<1>7. Knew(st, n, event, s, r)
  <2>1. /\ event \in Events /\ s \in Sets /\ Accepts(st, event, s, h, prep)
        /\ n = NextState(st, event, s, h, e, prep)
        /\ event = "ArchiveRestoreHoldAcquired" => h \in Holds
    BY <1>3, <1>6
  <2> QED BY <1>4, <1>5, <2>1, KnownBefore
<1>8. n.archive[r].life # "none" =>
          st.archive[r].life # "none" \/ (event = "BackupSetStarted" /\ r = s)
  BY <1>7 DEF Knew
<1>9. st.archive[r].life # "none" => r \in keys \/ KeyErased(r)
  <2>1. CASE x.prev = 0
    <3>1. st.archive[r] = NoSet
      BY <1>1, <2>1, GenesisIs DEF StateOf
    <3> QED BY <3>1 DEF NoSet
  <2>2. CASE x.prev # 0
    <3>1. x.prev \in journal /\ st = signed[x.prev].state
      BY <1>1, <1>2, <2>2 DEF StateOf
    <3> QED BY <3>1 DEF SafetyInv, KeysInv
  <2> QED BY <2>1, <2>2
<1> QED BY <1>1, <1>6, <1>8, <1>9

\* An entry is journalled by the one that is alone with it.
LEMMA JournalKeeps ==
  ASSUME SafetyInv, NEW p \in Supervisors, Journal(p)
  PROVE  SafetyInv'
<1>1. PICK y, e : y = proc[p] /\ e = y.entry
  OBVIOUS
<1>2. /\ y.pc \in {"permitted", "staged"} /\ journal' = journal \cup {e} /\ Goto(p, "journalled")
      /\ UNCHANGED <<signed, witness, db, keys, staged, promoted, permit>>
  BY <1>1 DEF Journal, archiveFiles
<1>3. SignedInv /\ TablesInv /\ KeysInv /\ ProcInv
  BY DEF SafetyInv
<1>4. Extends
  BY <1>2 DEF Extends
<1>5. PICK x : MovesProc(p, x) /\ At(x, y, "journalled")
  BY <1>1, <1>2, <1>3, GotoMoves
<1>6. KnowsEntry(y) /\ KnowsKeys(p, y) /\ KnowsFiles(y)
  BY <1>1, <1>3 DEF ProcInv
<1>7. e \in DOMAIN signed /\ y.set = signed[e].set
  BY <1>1, <1>2, <1>6 DEF KnowsEntry, Owning
<1>8. SignedInv'
  BY <1>2, <1>3, <1>4, <1>7, SignedKept DEF SignedInv
<1>9. TablesInv'
  BY <1>2, <1>3, <1>4, TablesStay
<1>10. KeysInv'
  <2>1. signed[e].event = "BackupSetStarted" => signed[e].set \in keys \/ KeyErased(signed[e].set)
    <3>1. CASE y.pc = "permitted"
      BY <1>1, <1>6, <1>7, <3>1 DEF KnowsKeys
    <3>2. CASE y.pc = "staged"
      BY <1>1, <1>6, <3>2 DEF KnowsEntry, Checkpoint
    <3> QED BY <1>2, <3>1, <3>2
  <2>2. ASSUME NEW r \in Sets, NEW f \in journal'
        PROVE  signed[f].state.archive[r].life = "none" \/ r \in keys \/ KeyErased(r)
    <3>1. CASE f = e
      BY <1>7, <2>1, <3>1, JournalKeys
    <3>2. CASE f # e
      BY <1>2, <1>3, <3>2 DEF KeysInv
    <3> QED BY <3>1, <3>2
  <2>3. ASSUME NEW r PROVE KeyErased(r) => KeyErased(r)'
    BY <1>3, <1>4, ErasedStays
  <2> QED BY <1>2, <1>3, <2>2, <2>3 DEF KeysInv
<1>11. KnowsEntry(x)'
  <2>1. x.pc = "journalled" /\ x.entry = e /\ IsProc(x) /\ x.head = y.head /\ x.set = y.set
        /\ x.prep = y.prep
    BY <1>1, <1>5 DEF At
  <2>2. signed[e].event = "ManagedBackupDeletionPrepared" => x.prep = Bound(e)'
    BY <1>1, <1>2, <1>6, <2>1 DEF KnowsEntry, Owning, Bound
  <2> QED BY <1>2, <1>6, <1>7, <2>1, <2>2
          DEF KnowsEntry, Owning, Early, Late, Promoting, OnSet
<1>12. KnowsKeys(p, x)' /\ KnowsFiles(x)'
  <2>1. x.pc = "journalled" /\ x.entry = e
    BY <1>1, <1>5 DEF At
  <2>2. Checkpoint(e)' /\ Reserved(e)' => e \in staged'
    BY <1>1, <1>2, <1>6 DEF KnowsFiles, KnowsKeys, Checkpoint, Reserved
  <2> QED BY <2>1, <2>2 DEF KnowsKeys, KnowsFiles, Promoting
<1>13. ASSUME NEW q \in Supervisors, q # p, NEW z, z = proc[q]
       PROVE  /\ Apart(x, z) /\ (z.pc \in Early => z.entry \notin journal')
              /\ z.pc = "permitted" => permit' = q
  <2>1. Apart(y, z) /\ KnowsEntry(z)
    BY <1>1, <1>3, <1>13, OtherKnows
  <2>2. z.pc = "permitted" => permit' = q
    BY <1>2, <1>13, OneHolder
  <2>3. z.pc \in Early => z.entry # e
    BY <1>1, <1>2, <2>1 DEF Apart, Owning, Early
  <2> QED BY <1>2, <1>5, <2>1, <2>2, <2>3 DEF Apart, At, Owning, KnowsEntry
<1>14. ProcInv'
  BY <1>2, <1>4, <1>5, <1>11, <1>12, <1>13, OthersStep
<1> QED BY <1>8, <1>9, <1>10, <1>14 DEF SafetyInv

\* The witness advances to an entry that is journalled.
LEMMA AdvanceKeeps ==
  ASSUME SafetyInv, NEW p \in Supervisors, Advance(p)
  PROVE  SafetyInv'
<1>1. PICK y, e : y = proc[p] /\ e = y.entry
  OBVIOUS
<1>2. PICK x : x = [y EXCEPT !.pc = "advanced", !.head = e]
  OBVIOUS
<1>3. /\ y.pc = "journalled" /\ witness' = e /\ proc' = [proc EXCEPT ![p] = x]
      /\ UNCHANGED <<signed, journal, db, keys, staged, promoted, permit>>
  BY <1>1, <1>2 DEF Advance, archiveFiles
<1>4. SignedInv /\ TablesInv /\ KeysInv /\ ProcInv
  BY DEF SafetyInv
<1>5. Extends
  BY <1>3 DEF Extends
<1>6. KnowsEntry(y) /\ KnowsFiles(y)
  BY <1>1, <1>4 DEF ProcInv
<1>7. e \in journal
  BY <1>1, <1>3, <1>6 DEF KnowsEntry, Late
<1>8. IsProc(x) /\ x.pc = "advanced" /\ x.head = e /\ x.entry = e /\ x.set = y.set /\ x.prep = y.prep
  BY <1>1, <1>2, <1>6 DEF KnowsEntry, IsProc
<1>9. MovesProc(p, x)
  BY <1>3, <1>4, SetMovesProc
<1>10. SignedInv'
  BY <1>3, <1>4, <1>5, <1>7, SignedKept DEF SignedInv
<1>11. TablesInv'
  BY <1>3, <1>4, <1>5, TablesStay
<1>12. KeysInv'
  BY <1>3, <1>4, <1>5, KeysStay DEF KeysInv
<1>13. KnowsEntry(x)'
  <2>1. e \in DOMAIN signed /\ signed[e].set = y.set
    BY <1>1, <1>3, <1>6 DEF KnowsEntry, Owning
  <2>2. signed[e].event = "ManagedBackupDeletionPrepared" => x.prep = Bound(e)'
    BY <1>1, <1>3, <1>6, <1>8 DEF KnowsEntry, Owning, Bound
  <2> QED BY <1>3, <1>7, <1>8, <2>1, <2>2 DEF KnowsEntry, Owning, Early, Late, Promoting, OnSet
<1>14. KnowsKeys(p, x)' /\ KnowsFiles(x)'
  <2>1. Checkpoint(e)' /\ Reserved(e)' => e \in staged'
    BY <1>1, <1>3, <1>6 DEF KnowsFiles, Checkpoint, Reserved
  <2> QED BY <1>8, <2>1 DEF KnowsKeys, KnowsFiles, Promoting
<1>15. ASSUME NEW q \in Supervisors, q # p, NEW z, z = proc[q]
       PROVE  /\ Apart(x, z) /\ (z.pc \in Early => z.entry \notin journal)
              /\ z.pc = "permitted" => permit' = q
  <2>1. Apart(y, z) /\ KnowsEntry(z)
    BY <1>1, <1>4, <1>15, OtherKnows
  <2>2. z.pc = "permitted" => permit' = q
    BY <1>3, <1>15, OneHolder
  <2> QED BY <1>1, <1>3, <1>8, <2>1, <2>2 DEF Apart, Owning, KnowsEntry
<1>16. ProcInv'
  BY <1>3, <1>5, <1>9, <1>13, <1>14, <1>15, OthersStep
<1> QED BY <1>10, <1>11, <1>12, <1>16 DEF SafetyInv

-----------------------------------------------------------------------------
(* The files of the objects                                                *)

\* No object of the tables loses both its files, unless its set is gone, and no reserved
\* frame goes.
FilesKept(p) ==
    /\ \A o \in staged \ staged' :
           o \in promoted' \/ \A s \in Sets : o \in ToSet(db.archive[s].objs) => Gone(s)
    /\ \A o \in promoted \ promoted' : o \in DOMAIN signed /\ Gone(signed[o].set)
    /\ \A q \in Supervisors :
           q # p /\ proc[q].pc \in {"staged", "journalled", "advanced"} =>
               (proc[q].entry \in staged \ staged' => ~Reserved(proc[q].entry))

\* What has to be shown of a step that only touches frames and immutable files.
LEMMA FilesStep ==
  ASSUME SafetyInv, NEW p \in Supervisors, NEW x, MovesProc(p, x),
         UNCHANGED <<signed, journal, witness, db, keys, permit>>,
         KnowsEntry(x)', KnowsKeys(p, x)', KnowsFiles(x)',
         \A q \in Supervisors : q # p => Apart(x, proc[q]),
         FilesKept(p)
  PROVE  SafetyInv'
<1>1. SignedInv /\ TablesInv /\ KeysInv /\ ProcInv
  BY DEF SafetyInv
<1>2. Extends
  BY DEF Extends
<1>3. SignedInv'
  BY <1>1, <1>2, SignedKept DEF SignedInv
<1>4. TablesInv'
  <2>1. ASSUME NEW s \in Sets, ~Gone(s), NEW o \in ToSet(db.archive[s].objs),
               o \in staged \cup promoted
        PROVE  o \in staged' \cup promoted'
    <3>1. signed[o].set = s
      BY <1>1 DEF TablesInv, Stored
    <3> QED BY <2>1, <3>1 DEF FilesKept
  <2> QED BY <1>1, <1>2, <2>1, TablesStay
<1>5. KeysInv'
  BY <1>1, <1>2, KeysStay DEF KeysInv
<1>6. ASSUME NEW q \in Supervisors, NEW y, q # p, y = proc[q]
      PROVE  /\ Apart(x, y)
             /\ y.pc \in Early => y.entry \notin journal'
             /\ y.pc = "permitted" => permit' = q
             /\ y.pc \in {"staged", "journalled", "advanced"} =>
                    (y.entry \in staged /\ Reserved(y.entry) => y.entry \in staged')
             /\ y.pc = "unstage" =>
                    (y.entry \in promoted => y.entry \in promoted' \/ Gone(signed[y.entry].set))
  <2>1. KnowsEntry(y) /\ KnowsKeys(q, y)
    BY <1>1, <1>6, OtherKnows
  <2> QED BY <1>6, <2>1 DEF KnowsEntry, KnowsKeys, FilesKept
<1>7. ProcInv'
  BY <1>2, <1>6, OthersStep
<1> QED BY <1>3, <1>4, <1>5, <1>7 DEF SafetyInv

\* The step of the supervisor itself, when it stays alone with its entry.
LEMMA OwnApart ==
  ASSUME SafetyInv, NEW p \in Supervisors, NEW x, proc[p].pc \in Owning, x.entry = proc[p].entry,
         x.pc \notin {"clean", "signed"}, NEW q \in Supervisors, q # p
  PROVE  Apart(x, proc[q])
<1>1. Apart(proc[p], proc[q])
  BY DEF SafetyInv, ProcInv
<1> QED BY <1>1 DEF Apart

\* A frame is staged.
LEMMA StageKeeps ==
  ASSUME SafetyInv, NEW p \in Supervisors, Stage(p)
  PROVE  SafetyInv'
<1>1. PICK y : y = proc[p]
  OBVIOUS
<1>2. /\ y.pc = "reserved" /\ staged' = staged \cup {y.entry} /\ Goto(p, "staged")
      /\ UNCHANGED <<signed, journal, witness, db, keys, permit, promoted>>
  BY <1>1 DEF Stage, authority
<1>3. PICK x : MovesProc(p, x) /\ At(x, y, "staged")
  BY <1>1, <1>2, GotoMoves DEF SafetyInv
<1>4. KnowsEntry(y)
  BY <1>1 DEF SafetyInv, ProcInv
<1>5. KnowsEntry(x)
  BY <1>2, <1>3, <1>4 DEF At, KnowsEntry, Owning, Early, Late, Promoting, OnSet
<1>6. KnowsEntry(x)'
  BY <1>2, <1>5 DEF KnowsEntry, Bound, Checkpoint
<1>7. KnowsKeys(p, x)' /\ KnowsFiles(x)'
  BY <1>2, <1>3 DEF At, KnowsKeys, KnowsFiles, Promoting
<1>8. \A q \in Supervisors : q # p => Apart(x, proc[q])
  BY <1>1, <1>2, <1>3, OwnApart DEF At, Owning
<1>9. FilesKept(p)
  BY <1>2 DEF FilesKept
<1> QED BY <1>2, <1>3, <1>6, <1>7, <1>8, <1>9, FilesStep

\* A step after which the supervisor has stopped.
LEMMA StopFiles ==
  ASSUME SafetyInv, NEW p \in Supervisors, Stop(p),
         UNCHANGED <<signed, journal, witness, db, keys, permit>>,
         FilesKept(p)
  PROVE  SafetyInv'
<1>1. MovesProc(p, Idle)
  BY StopMoves DEF SafetyInv
<1>2. KnowsEntry(Idle)' /\ KnowsKeys(p, Idle)' /\ KnowsFiles(Idle)' /\ \A z : Apart(Idle, z)
  BY IdleIs DEF KnowsEntry, KnowsKeys, KnowsFiles, Apart, Owning, Early, Late, Promoting, OnSet
<1> QED BY <1>1, <1>2, FilesStep

\* The frame of an abandoned append is its owner's to remove.
LEMMA RemoveOrphanKeeps ==
  ASSUME SafetyInv, NEW p \in Supervisors, RemoveOrphan(p)
  PROVE  SafetyInv'
<1>1. PICK y : y = proc[p]
  OBVIOUS
<1>2. /\ y.pc = "orphan" /\ staged' = staged \ {y.entry} /\ Stop(p)
      /\ UNCHANGED <<signed, journal, witness, db, keys, permit, promoted>>
  BY <1>1 DEF RemoveOrphan, authority
<1>3. y.entry \notin journal
  BY <1>1, <1>2 DEF SafetyInv, ProcInv, KnowsEntry, Early
<1>4. \A s \in Sets : y.entry \notin ToSet(db.archive[s].objs)
  BY <1>3 DEF SafetyInv, TablesInv, Stored
<1>5. ASSUME NEW q \in Supervisors, q # p, proc[q].pc \in {"staged", "journalled", "advanced"}
      PROVE  proc[q].entry # y.entry
  <2>1. Apart(y, proc[q])
    BY <1>1, <1>5 DEF SafetyInv, ProcInv
  <2> QED BY <1>2, <1>5, <2>1 DEF Apart, Owning
<1>6. FilesKept(p)
  BY <1>2, <1>4, <1>5 DEF FilesKept
<1> QED BY <1>2, <1>6, StopFiles

\* An object is copied to its immutable file.
LEMMA PromoteCopyKeeps ==
  ASSUME SafetyInv, NEW p \in Supervisors, PromoteCopy(p)
  PROVE  SafetyInv'
<1>1. PICK y : y = proc[p]
  OBVIOUS
<1>2. /\ y.pc = "copy" /\ promoted' = promoted \cup {y.entry} /\ Goto(p, "unstage")
      /\ UNCHANGED <<signed, journal, witness, db, keys, permit, staged>>
  BY <1>1 DEF PromoteCopy, authority
<1>3. PICK x : MovesProc(p, x) /\ At(x, y, "unstage")
  BY <1>1, <1>2, GotoMoves DEF SafetyInv
<1>4. KnowsEntry(y) /\ KnowsFiles(y)
  BY <1>1 DEF SafetyInv, ProcInv
<1>5. KnowsEntry(x)
  BY <1>2, <1>3, <1>4 DEF At, KnowsEntry, Owning, Early, Late, Promoting, OnSet
<1>6. KnowsEntry(x)'
  BY <1>2, <1>5 DEF KnowsEntry, Bound, Checkpoint
<1>7. ~Reserved(x.entry)'
  BY <1>2, <1>3, <1>4 DEF At, KnowsFiles, Promoting, Reserved
<1>8. KnowsKeys(p, x)' /\ KnowsFiles(x)' /\ \A z : Apart(x, z)
  BY <1>2, <1>3, <1>7 DEF At, KnowsKeys, KnowsFiles, Apart, Owning
<1>9. FilesKept(p)
  BY <1>2 DEF FilesKept
<1> QED BY <1>2, <1>3, <1>6, <1>8, <1>9, FilesStep

\* Its staged frame goes once the immutable file is complete.
LEMMA PromoteFinishKeeps ==
  ASSUME SafetyInv, NEW p \in Supervisors, PromoteFinish(p)
  PROVE  SafetyInv'
<1>1. PICK y : y = proc[p]
  OBVIOUS
<1>2. /\ y.pc = "unstage" /\ staged' = staged \ {y.entry} /\ Stop(p)
      /\ UNCHANGED <<signed, journal, witness, db, keys, permit, promoted>>
  BY <1>1 DEF PromoteFinish, authority
<1>3. ~Reserved(y.entry) /\ (y.entry \in promoted \/ Gone(signed[y.entry].set))
  BY <1>1, <1>2 DEF SafetyInv, ProcInv, KnowsFiles, Promoting
<1>4. y.entry \in promoted' \/ \A s \in Sets : y.entry \in ToSet(db.archive[s].objs) => Gone(s)
  BY <1>2, <1>3 DEF SafetyInv, TablesInv, Stored
<1>5. FilesKept(p)
  BY <1>2, <1>3, <1>4 DEF FilesKept
<1> QED BY <1>2, <1>5, StopFiles

\* What reconcile cleans away is neither reserved nor in the tables.
LEMMA CleanStagingKeeps ==
  ASSUME SafetyInv, NEW p \in Supervisors, CleanStaging(p)
  PROVE  SafetyInv'
<1>1. PICK y : y = proc[p]
  OBVIOUS
<1>2. PICK x : x = [y EXCEPT !.pc = "read", !.gone = {}]
  OBVIOUS
<1>3. /\ y.pc = "clean" /\ staged' = staged \ y.gone /\ proc' = [proc EXCEPT ![p] = x]
      /\ UNCHANGED <<signed, journal, witness, db, keys, permit, promoted>>
  BY <1>1, <1>2 DEF CleanStaging, authority
<1>4. KnowsEntry(y) /\ KnowsFiles(y)
  BY <1>1 DEF SafetyInv, ProcInv
<1>5. IsProc(x) /\ x.pc = "read" /\ x.head = y.head
  BY <1>2, <1>4 DEF KnowsEntry, IsProc
<1>6. KnowsEntry(x)' /\ KnowsKeys(p, x)' /\ KnowsFiles(x)' /\ \A z : Apart(x, z)
  BY <1>3, <1>4, <1>5
     DEF KnowsEntry, KnowsKeys, KnowsFiles, Apart, Owning, Early, Late, Promoting, OnSet
<1>7. \A o \in y.gone : ~Reserved(o) /\ \A s \in Sets : o \notin ToSet(db.archive[s].objs)
  BY <1>3, <1>4 DEF KnowsFiles
<1>8. MovesProc(p, x)
  BY <1>3, SetMovesProc DEF SafetyInv
<1>9. FilesKept(p)
  BY <1>3, <1>7 DEF FilesKept
<1> QED BY <1>3, <1>6, <1>8, <1>9, FilesStep

\* finalize-delete removes objects of a set whose key is erased.
LEMMA DeleteObjectKeeps ==
  ASSUME SafetyInv, NEW p \in Supervisors, DeleteObject(p)
  PROVE  SafetyInv'
<1>1. PICK y : y = proc[p]
  OBVIOUS
<1>2. y.pc = "delete" /\ UNCHANGED <<signed, journal, witness, db, keys, permit, staged>>
  BY <1>1 DEF DeleteObject, authority
<1>3. CASE Stop(p) /\ UNCHANGED promoted
  <2>1. FilesKept(p)
    BY <1>2, <1>3 DEF FilesKept
  <2> QED BY <1>2, <1>3, <2>1, StopFiles
<1>4. CASE ~(Stop(p) /\ UNCHANGED promoted)
  <2>1. PICK o \in y.gone : /\ promoted' = promoted \ {o}
                            /\ proc' = [proc EXCEPT ![p].gone = @ \ {o}]
    BY <1>1, <1>4 DEF DeleteObject
  <2>2. PICK g, x : g = y.gone \ {o} /\ x = [y EXCEPT !.gone = g]
    OBVIOUS
  <2>3. KnowsEntry(y) /\ KnowsFiles(y)
    BY <1>1 DEF SafetyInv, ProcInv
  <2>4. IsProc(x) /\ x.pc = "delete" /\ x.head = y.head /\ x.set = y.set /\ x.gone = g
    BY <1>2, <2>2, <2>3 DEF KnowsEntry, IsProc
  <2>5. proc' = [proc EXCEPT ![p] = x]
    BY <1>1, <2>1, <2>2
  <2>6. \A i \in y.gone : i \in DOMAIN signed /\ Gone(signed[i].set)
    BY <1>2, <2>3 DEF KnowsFiles
  <2>7. KnowsEntry(x)'
    BY <1>2, <2>3, <2>4 DEF KnowsEntry, Owning, Early, Late, Promoting, OnSet
  <2>8. KnowsKeys(p, x)' /\ KnowsFiles(x)' /\ \A z : Apart(x, z)
    <3>1. \A i \in x.gone : i \in DOMAIN signed' /\ Gone(signed[i].set)'
      BY <1>2, <2>2, <2>4, <2>6 DEF Gone
    <3> QED BY <1>2, <2>4, <3>1 DEF KnowsKeys, KnowsFiles, Apart, Owning, Promoting
  <2>9. MovesProc(p, x)
    BY <2>5, SetMovesProc DEF SafetyInv
  <2>10. FilesKept(p)
    BY <1>2, <2>1, <2>6 DEF FilesKept
  <2> QED BY <1>2, <2>7, <2>8, <2>9, <2>10, FilesStep
<1> QED BY <1>3, <1>4

-----------------------------------------------------------------------------
(* The tables                                                              *)

\* What a change of the tables leaves to the other supervisors: no reservation comes or
\* object is committed under their hands.
OthersFree(p) ==
    \A q \in Supervisors : \A z : q # p /\ z = proc[q] =>
        /\ z.pc \in Owning \cup Promoting => (Reserved(z.entry)' => Reserved(z.entry))
        /\ z.pc = "clean" => \A o \in z.gone :
               /\ Reserved(o)' => Reserved(o)
               /\ \A s \in Sets : o \in ToSet(db'.archive[s].objs) =>
                                      o \in ToSet(db.archive[s].objs) \/ Reserved(o)

\* The sets whose key is erased stay so.
GoneStays == \A s \in Sets : Gone(s) => Gone(s)'

\* The set of an entry.
LEMMA EntrySet ==
  ASSUME SafetyInv, NEW e \in DOMAIN signed
  PROVE  signed[e].set \in Sets
BY DEF SafetyInv, SignedInv, Legal

\* What has to be shown of a step that changes the tables and leaves the files.
LEMMA TablesStep ==
  ASSUME SafetyInv, NEW p \in Supervisors, NEW x, MovesProc(p, x),
         UNCHANGED <<signed, journal, witness, keys, staged, promoted>>,
         permit' = permit \/ (permit \in {None, p} /\ permit' = None),
         TablesInv', db'.head \in journal \cup {0}, GoneStays, OthersFree(p),
         KnowsEntry(x)', KnowsKeys(p, x)', KnowsFiles(x)',
         \A q \in Supervisors : q # p => Apart(x, proc[q])
  PROVE  SafetyInv'
<1>1. SignedInv /\ KeysInv /\ ProcInv
  BY DEF SafetyInv
<1>2. Extends
  BY DEF Extends
<1>3. SignedInv'
  BY <1>1, <1>2, SignedKept DEF SignedInv
<1>4. KeysInv'
  BY <1>1, <1>2, KeysStay DEF KeysInv
<1>5. ASSUME NEW q \in Supervisors, NEW z, q # p, z = proc[q]
      PROVE  KnowsEntry(z)' /\ KnowsKeys(q, z)' /\ KnowsFiles(z)' /\ Apart(x, z)
  <2>1. KnowsEntry(z) /\ KnowsKeys(q, z) /\ KnowsFiles(z)
    BY <1>1, <1>5, OtherKnows
  <2>2. KnowsEntry(z)'
    BY <2>1 DEF KnowsEntry, Bound, Checkpoint
  <2>3. z.pc = "permitted" => permit' = q
    BY <1>5, OneHolder
  <2>4. KnowsKeys(q, z)'
    BY <1>1, <1>2, <2>1, <2>3, KnowsKeysStays
  <2>5. /\ z.pc \in Owning \cup Promoting => (Reserved(z.entry)' => Reserved(z.entry))
        /\ z.pc = "clean" => \A o \in z.gone :
               /\ Reserved(o)' => Reserved(o)
               /\ \A s \in Sets : o \in ToSet(db'.archive[s].objs) =>
                                      o \in ToSet(db.archive[s].objs) \/ Reserved(o)
    BY <1>5 DEF OthersFree
  <2>6. PICK g : g = signed[z.entry].set
    OBVIOUS
  <2>7. z.pc = "unstage" => z.entry \in promoted \/ Gone(g)'
    <3> SUFFICES ASSUME z.pc = "unstage", z.entry \notin promoted PROVE Gone(g)'
      OBVIOUS
    <3>1. Gone(g)
      BY <2>1, <2>6 DEF KnowsFiles
    <3>2. z.entry \in DOMAIN signed
      BY <1>1, <2>1, Positions DEF KnowsEntry, Promoting
    <3>3. g \in Sets
      BY <2>6, <3>2, EntrySet
    <3> QED BY <3>1, <3>3 DEF GoneStays
  <2>8. z.pc = "delete" => \A o \in z.gone : o \in DOMAIN signed /\ Gone(signed[o].set)'
    <3> SUFFICES ASSUME z.pc = "delete", NEW o \in z.gone
                 PROVE  o \in DOMAIN signed /\ Gone(signed[o].set)'
      OBVIOUS
    <3>1. PICK f : f = signed[o].set
      OBVIOUS
    <3>2. o \in DOMAIN signed /\ Gone(f)
      BY <2>1, <3>1 DEF KnowsFiles
    <3>3. f \in Sets
      BY <3>1, <3>2, EntrySet
    <3>4. Gone(f)'
      BY <3>2, <3>3 DEF GoneStays
    <3> QED BY <3>1, <3>2, <3>4
  <2>9. KnowsFiles(z)'
    <3>1. z.pc = "signed" => ~Reserved(z.entry)'
      BY <2>1, <2>5 DEF KnowsFiles, Owning
    <3>2. z.pc \in {"staged", "journalled", "advanced"} /\ Checkpoint(z.entry)' /\ Reserved(z.entry)' =>
              z.entry \in staged'
      BY <2>1, <2>5 DEF KnowsFiles, Owning, Checkpoint
    <3>3. z.pc \in Promoting => ~Reserved(z.entry)'
      BY <2>1, <2>5 DEF KnowsFiles
    <3>4. z.pc = "clean" =>
              \A o \in z.gone : /\ o \in DOMAIN signed' /\ ~Reserved(o)'
                                /\ \A s \in Sets : o \notin ToSet(db'.archive[s].objs)
      BY <2>1, <2>5 DEF KnowsFiles
    <3> QED BY <2>6, <2>7, <2>8, <3>1, <3>2, <3>3, <3>4 DEF KnowsFiles
  <2> QED BY <1>5, <2>2, <2>4, <2>9
<1>6. ProcInv'
  BY <1>1, <1>5, ProcStep
<1> QED BY <1>3, <1>4, <1>6 DEF SafetyInv

\* The tables with other reservations.
LEMMA IntentsChange ==
  ASSUME SafetyInv, NEW w, db' = [db EXCEPT !.intents = w],
         UNCHANGED <<signed, journal, staged, promoted>>,
         \A i \in w : i \in db.intents \/ i.id \in DOMAIN signed \ journal,
         \A i, j \in w : i.id = j.id => i = j
  PROVE  /\ TablesInv' /\ db'.head = db.head /\ db'.archive = db.archive /\ db'.intents = w
         /\ db'.head \in journal \cup {0} /\ GoneStays
<1>1. db = [head |-> db.head, archive |-> db.archive, attempt |-> db.attempt,
            generation |-> db.generation, released |-> db.released, intents |-> db.intents]
  BY DEF SafetyInv, TablesInv, IsDb
<1>2. /\ db'.head = db.head /\ db'.archive = db.archive /\ db'.attempt = db.attempt
      /\ db'.generation = db.generation /\ db'.released = db.released /\ db'.intents = w
      /\ db' = [head |-> db'.head, archive |-> db'.archive, attempt |-> db'.attempt,
                generation |-> db'.generation, released |-> db'.released, intents |-> db'.intents]
  BY <1>1
<1>3. IsDb'
  BY <1>2 DEF SafetyInv, TablesInv, IsDb, IsState
<1>4. TablesAreSigned' /\ RestoreIsHeld'
  BY <1>2 DEF SafetyInv, TablesInv, TablesAreSigned, RestoreIsHeld, StateOf
<1>5. ASSUME NEW s \in Sets PROVE Stored(s)' /\ (Gone(s)' <=> Gone(s))
  <2>1. Stored(s)
    BY DEF SafetyInv, TablesInv
  <2>2. \A o \in journal : Reserved(o)' => Reserved(o)
    BY <1>2 DEF Reserved
  <2> QED BY <1>2, <2>1, <2>2 DEF Stored, Gone, Checkpoint
<1>6. db.head \in journal \cup {0} /\ 0 \notin DOMAIN signed
  BY Positions DEF SafetyInv, SignedInv
<1>7. \A i \in db'.intents : i.id \in DOMAIN signed' /\ i.id # db'.head
  BY <1>2, <1>6 DEF SafetyInv, TablesInv
<1> QED BY <1>2, <1>3, <1>4, <1>5, <1>6, <1>7 DEF TablesInv, GoneStays

\* An append reserves its ordinal.
LEMMA ReserveKeeps ==
  ASSUME SafetyInv, NEW p \in Supervisors, Reserve(p)
  PROVE  SafetyInv'
<1>1. PICK y, e, n : y = proc[p] /\ e = y.entry /\ n = Intent(p)
  OBVIOUS
<1>2. /\ y.pc = "signed" /\ Checkpoint(e)
      /\ UNCHANGED <<signed, journal, witness, keys, staged, promoted, permit>>
  BY <1>1 DEF Reserve, archiveFiles
<1>3. CASE Stop(p) /\ UNCHANGED db
  BY <1>2, <1>3, StopStep DEF seen
<1>4. CASE ~(Stop(p) /\ UNCHANGED db)
  <2>1. PICK w : w = db.intents \cup {n}
    OBVIOUS
  <2>2. db' = [db EXCEPT !.intents = w] /\ Goto(p, "reserved")
    BY <1>1, <1>4, <2>1 DEF Reserve
  <2>3. PICK x : MovesProc(p, x) /\ At(x, y, "reserved")
    BY <1>1, <2>2, GotoMoves DEF SafetyInv
  <2>4. KnowsEntry(y) /\ e \in DOMAIN signed /\ e \notin journal /\ ~Reserved(e)
    BY <1>1, <1>2 DEF SafetyInv, ProcInv, KnowsEntry, KnowsFiles, Owning, Early
  <2>5. n.id = e
    BY <1>1 DEF Intent
  <2>6. \A i, j \in w : i.id = j.id => i = j
    BY <2>1, <2>4, <2>5 DEF Reserved, SafetyInv, TablesInv
  <2>7. \A i \in w : i \in db.intents \/ i.id \in DOMAIN signed \ journal
    BY <2>1, <2>4, <2>5
  <2>8. /\ TablesInv' /\ db'.archive = db.archive /\ db'.intents = w
        /\ db'.head \in journal \cup {0} /\ GoneStays
    BY <1>2, <2>2, <2>6, <2>7, IntentsChange
  <2>9. \A o : Reserved(o)' => Reserved(o) \/ o = e
    BY <2>1, <2>5, <2>8 DEF Reserved
  <2>10. ASSUME NEW q \in Supervisors, NEW z, q # p, z = proc[q]
         PROVE  /\ Apart(y, z) /\ (z.pc \in Owning \cup Promoting => z.entry # e)
                /\ z.pc = "clean" => e \notin z.gone
    <3>1. Apart(y, z) /\ KnowsEntry(z)
      BY <1>1, <2>10, OtherKnows DEF SafetyInv
    <3> QED BY <1>1, <1>2, <2>4, <3>1 DEF Apart, Owning, KnowsEntry
  <2>11. OthersFree(p)
    BY <2>8, <2>9, <2>10 DEF OthersFree
  <2>12. KnowsEntry(x)
    BY <1>1, <1>2, <2>3, <2>4 DEF At, KnowsEntry, Owning, Early, Late, Promoting, OnSet
  <2>13. KnowsEntry(x)'
    BY <1>2, <2>12 DEF KnowsEntry, Bound, Checkpoint
  <2>14. KnowsKeys(p, x)' /\ KnowsFiles(x)'
    BY <2>3 DEF At, KnowsKeys, KnowsFiles, Promoting
  <2>15. \A q \in Supervisors : q # p => Apart(x, proc[q])
    BY <1>1, <1>2, <2>3, OwnApart DEF At, Owning
  <2> QED BY <1>2, <2>3, <2>8, <2>11, <2>13, <2>14, <2>15, TablesStep
<1> QED BY <1>3, <1>4

\* Reservations that are given back.
LEMMA IntentsShrink ==
  ASSUME SafetyInv, NEW p \in Supervisors, NEW w, w \subseteq db.intents,
         db' = [db EXCEPT !.intents = w], UNCHANGED <<signed, journal, staged, promoted>>
  PROVE  /\ TablesInv' /\ db'.archive = db.archive /\ db'.intents = w
         /\ db'.head \in journal \cup {0} /\ GoneStays /\ OthersFree(p)
<1>1. /\ \A i \in w : i \in db.intents \/ i.id \in DOMAIN signed \ journal
      /\ \A i, j \in w : i.id = j.id => i = j
  BY DEF SafetyInv, TablesInv
<1>2. /\ TablesInv' /\ db'.archive = db.archive /\ db'.intents = w
      /\ db'.head \in journal \cup {0} /\ GoneStays
  BY <1>1, IntentsChange
<1>3. \A o : Reserved(o)' => Reserved(o)
  BY <1>2 DEF Reserved
<1>4. OthersFree(p)
  BY <1>2, <1>3 DEF OthersFree
<1> QED BY <1>2, <1>4

\* An append that was given up cancels its reservation.
LEMMA AbandonKeeps ==
  ASSUME SafetyInv, NEW p \in Supervisors, Abandon(p)
  PROVE  SafetyInv'
<1>1. PICK y : y = proc[p]
  OBVIOUS
<1>2. y.pc = "abandon" /\ UNCHANGED <<signed, journal, witness, keys, staged, promoted, permit>>
  BY <1>1 DEF Abandon, archiveFiles
<1>3. CASE Stop(p) /\ UNCHANGED db
  BY <1>2, <1>3, StopStep DEF seen
<1>4. CASE ~(Stop(p) /\ UNCHANGED db)
  <2>1. PICK w : w = db.intents \ {Intent(p)}
    OBVIOUS
  <2>2. db' = [db EXCEPT !.intents = w] /\ Goto(p, "orphan")
    BY <1>4, <2>1 DEF Abandon
  <2>3. PICK x : MovesProc(p, x) /\ At(x, y, "orphan")
    BY <1>1, <2>2, GotoMoves DEF SafetyInv
  <2>4. KnowsEntry(y)
    BY <1>1 DEF SafetyInv, ProcInv
  <2>5. TablesInv' /\ db'.head \in journal \cup {0} /\ GoneStays /\ OthersFree(p)
    BY <1>2, <2>1, <2>2, IntentsShrink
  <2>6. KnowsEntry(x)
    BY <1>2, <2>3, <2>4 DEF At, KnowsEntry, Owning, Early, Late, Promoting, OnSet
  <2>7. KnowsEntry(x)'
    BY <1>2, <2>6 DEF KnowsEntry, Bound, Checkpoint
  <2>8. KnowsKeys(p, x)' /\ KnowsFiles(x)'
    BY <2>3 DEF At, KnowsKeys, KnowsFiles, Promoting
  <2>9. \A q \in Supervisors : q # p => Apart(x, proc[q])
    BY <1>1, <1>2, <2>3, OwnApart DEF At, Owning
  <2> QED BY <1>2, <2>3, <2>5, <2>7, <2>8, <2>9, TablesStep
<1> QED BY <1>3, <1>4

\* reconcile cancels the reservations at the witnessed heads, and may then take their frames.
LEMMA CancelPendingKeeps ==
  ASSUME SafetyInv, NEW p \in Supervisors, CancelPending(p)
  PROVE  SafetyInv'
<1>1. PICK y : y = proc[p]
  OBVIOUS
<1>2. y.pc = "pending" /\ UNCHANGED <<signed, journal, witness, keys, staged, promoted, permit>>
  BY <1>1 DEF CancelPending, archiveFiles
<1>3. CASE Stop(p) /\ UNCHANGED db
  BY <1>2, <1>3, StopStep DEF seen
<1>4. CASE ~(Stop(p) /\ UNCHANGED db)
  <2>1. PICK archive, c : /\ archive = StateOf(proc[p].head).archive
                          /\ c = {i \in db.intents : /\ archive[i.set].life # "none"
                                                     /\ archive[i.set].objs = i.expected}
    OBVIOUS
  <2>2. PICK w, g : w = db.intents \ c /\ g = {i.id : i \in c}
    OBVIOUS
  <2>3. PICK x : x = [y EXCEPT !.pc = "clean", !.gone = g]
    OBVIOUS
  <2>4. /\ db' = [db EXCEPT !.intents = w]
        /\ proc' = [proc EXCEPT ![p].pc = "clean", ![p].gone = g]
    BY <1>4, <2>1, <2>2 DEF CancelPending
  <2>5. proc' = [proc EXCEPT ![p] = x]
    BY <1>1, <2>3, <2>4
  <2>6. MovesProc(p, x)
    BY <2>5, SetMovesProc DEF SafetyInv
  <2>7. KnowsEntry(y)
    BY <1>1 DEF SafetyInv, ProcInv
  <2>8. IsProc(x) /\ x.pc = "clean" /\ x.gone = g /\ x.head = y.head
    BY <2>3, <2>7 DEF KnowsEntry, IsProc
  <2>9. /\ TablesInv' /\ db'.head \in journal \cup {0} /\ GoneStays /\ OthersFree(p)
        /\ db'.intents = w /\ db'.archive = db.archive
    BY <1>2, <2>2, <2>4, IntentsShrink
  <2>10. ASSUME NEW o \in g
         PROVE  /\ Reserved(o) /\ o \in DOMAIN signed /\ ~Reserved(o)'
                /\ \A s \in Sets : o \notin ToSet(db.archive[s].objs)
    <3>1. PICK i \in c : i.id = o
      BY <2>2
    <3>2. i \in db.intents
      BY <2>1, <3>1
    <3>3. Reserved(o) /\ o \in DOMAIN signed
      BY <3>1, <3>2 DEF Reserved, SafetyInv, TablesInv
    <3>4. \A j \in db.intents : j.id = o => j = i
      BY <3>1, <3>2 DEF SafetyInv, TablesInv
    <3>5. ~Reserved(o)'
      BY <2>2, <2>9, <3>1, <3>4 DEF Reserved
    <3>6. \A s \in Sets : o \notin ToSet(db.archive[s].objs)
      BY <3>3 DEF SafetyInv, TablesInv, Stored
    <3> QED BY <3>3, <3>5, <3>6
  <2>11. KnowsEntry(x)' /\ KnowsKeys(p, x)'
    BY <1>2, <2>7, <2>8 DEF KnowsEntry, KnowsKeys, Owning, Early, Late, Promoting, OnSet
  <2>12. KnowsFiles(x)'
    BY <1>2, <2>8, <2>9, <2>10 DEF KnowsFiles, Promoting
  <2>13. ASSUME NEW q \in Supervisors, q # p PROVE Apart(x, proc[q])
    <3>1. proc[q].pc = "signed" => ~Reserved(proc[q].entry)
      BY DEF SafetyInv, ProcInv, KnowsFiles
    <3> QED BY <2>8, <2>10, <3>1 DEF Apart, Owning
  <2> QED BY <1>2, <2>6, <2>9, <2>11, <2>12, <2>13, TablesStep
<1> QED BY <1>3, <1>4

\* A step on the tables after which a supervisor holds nothing.
LEMMA LightTables ==
  ASSUME SafetyInv, NEW p \in Supervisors, NEW x, MovesProc(p, x), Light(x),
         UNCHANGED <<signed, journal, witness, keys, staged, promoted>>,
         permit' = permit \/ (permit \in {None, p} /\ permit' = None),
         TablesInv', db'.head \in journal \cup {0}, GoneStays, OthersFree(p)
  PROVE  SafetyInv'
<1>1. Light(x)'
  BY DEF Light
<1>2. KnowsEntry(x)' /\ KnowsKeys(p, x)' /\ KnowsFiles(x)' /\ \A z : Apart(x, z)
  BY <1>1 DEF Light, KnowsEntry, KnowsKeys, KnowsFiles, Apart, Owning, Late, Early, Promoting
<1> QED BY <1>2, TablesStep

\* The attempt or the released holds change, and nothing else in the tables.
LEMMA AttemptChange ==
  ASSUME SafetyInv, NEW p \in Supervisors, NEW t, NEW r, IsAttempt(t), db.released \subseteq r,
         db' = [head |-> db.head, archive |-> db.archive, attempt |-> t,
                generation |-> db.generation, released |-> r, intents |-> db.intents],
         t.set = db.attempt.set, t.hold = db.attempt.hold, db.attempt.stage # "none",
         LET st == StateOf(db.head) IN
             \/ t = st.attempt
             \/ st.attempt.stage = "frozen" /\ t = [st.attempt EXCEPT !.stage = "initialized"],
         UNCHANGED <<signed, journal, staged, promoted>>
  PROVE  TablesInv' /\ db'.head \in journal \cup {0} /\ GoneStays /\ OthersFree(p)
<1>2. /\ db'.head = db.head /\ db'.archive = db.archive /\ db'.attempt = t
      /\ db'.generation = db.generation /\ db'.released = r /\ db'.intents = db.intents
      /\ db' = [head |-> db'.head, archive |-> db'.archive, attempt |-> db'.attempt,
                generation |-> db'.generation, released |-> db'.released, intents |-> db'.intents]
  OBVIOUS
<1>3. IsDb'
  BY <1>2 DEF SafetyInv, TablesInv, IsDb, IsState
<1>4. PICK st : st = StateOf(db.head)
  OBVIOUS
<1>5. StateOf(db.head)' = st
  BY <1>2, <1>4 DEF StateOf
<1>6. TablesAreSigned'
  BY <1>2, <1>4, <1>5 DEF SafetyInv, TablesInv, TablesAreSigned
<1>7. RestoreIsHeld'
  BY <1>2 DEF SafetyInv, TablesInv, RestoreIsHeld
<1>8. \A o : Reserved(o)' <=> Reserved(o)
  BY <1>2 DEF Reserved
<1>9. ASSUME NEW s \in Sets PROVE Stored(s)' /\ (Gone(s)' <=> Gone(s))
  BY <1>2, <1>8 DEF SafetyInv, TablesInv, Stored, Gone, Checkpoint
<1>10. db.head \in journal \cup {0}
  BY DEF SafetyInv, SignedInv
<1>11. TablesInv'
  BY <1>2, <1>3, <1>6, <1>7, <1>9 DEF SafetyInv, TablesInv
<1>12. OthersFree(p)
  BY <1>2, <1>8 DEF OthersFree
<1> QED BY <1>2, <1>9, <1>10, <1>11, <1>12 DEF GoneStays

\* The replay of the terminal receipt writes the attempt ahead of the head.
LEMMA EnsureInitializedKeeps ==
  ASSUME SafetyInv, NEW p \in Supervisors, EnsureInitialized(p)
  PROVE  SafetyInv'
<1>1. /\ proc[p].pc = "ensure"
      /\ UNCHANGED <<signed, journal, witness, keys, staged, promoted, permit>>
  BY DEF EnsureInitialized, archiveFiles
<1>2. CASE Stop(p) /\ UNCHANGED db
  BY <1>1, <1>2, StopStep DEF seen
<1>3. CASE ~(Stop(p) /\ UNCHANGED db)
  <2>1. /\ db.attempt.stage \in {"frozen", "initialized"} /\ Goto(p, "activate")
        /\ db' = [db EXCEPT !.attempt.stage = "initialized"]
    BY <1>3 DEF EnsureInitialized
  <2>2. PICK a, t, r, st : /\ a = db.attempt /\ t = [a EXCEPT !.stage = "initialized"]
                           /\ r = db.released /\ st = StateOf(db.head)
    OBVIOUS
  <2>3. a = [stage |-> a.stage, set |-> a.set, hold |-> a.hold] /\ IsAttempt(a)
    BY <2>2 DEF SafetyInv, TablesInv, IsDb, IsState, IsAttempt
  <2>4. t = [stage |-> "initialized", set |-> a.set, hold |-> a.hold]
    BY <2>2, <2>3
  <2>5. IsAttempt(t) /\ t.set = a.set /\ t.hold = a.hold
    BY <2>1, <2>2, <2>3, <2>4 DEF IsAttempt, Stages
  <2>6. db' = [head |-> db.head, archive |-> db.archive, attempt |-> t,
               generation |-> db.generation, released |-> r, intents |-> db.intents]
    <3>1. db = [head |-> db.head, archive |-> db.archive, attempt |-> db.attempt,
                generation |-> db.generation, released |-> db.released, intents |-> db.intents]
      BY DEF SafetyInv, TablesInv, IsDb
    <3>2. db' = [db EXCEPT !.attempt = t]
      BY <2>1, <2>2
    <3>3. [db EXCEPT !.attempt = t] = [head |-> db.head, archive |-> db.archive, attempt |-> t,
                generation |-> db.generation, released |-> db.released, intents |-> db.intents]
      BY <3>1
    <3> QED BY <2>2, <3>2, <3>3
  <2>7. t = st.attempt \/ (st.attempt.stage = "frozen"
                           /\ t = [st.attempt EXCEPT !.stage = "initialized"])
    <3>1. \/ a = st.attempt
          \/ st.attempt.stage = "frozen" /\ a = [st.attempt EXCEPT !.stage = "initialized"]
      BY <2>2 DEF SafetyInv, TablesInv, TablesAreSigned
    <3>2. a.stage = "initialized" => t = a
      BY <2>3, <2>4
    <3>3. CASE a.stage = "initialized"
      BY <3>1, <3>2, <3>3
    <3>4. CASE a.stage = "frozen"
      <4>1. st.attempt = [stage |-> st.attempt.stage, set |-> st.attempt.set,
                          hold |-> st.attempt.hold]
        <5>1. db.head \in DOMAIN signed \cup {0}
          BY DEF SafetyInv, SignedInv
        <5>2. IsState(st)
          BY <2>2, <5>1, HeadIs DEF SafetyInv
        <5> QED BY <5>2 DEF IsState, IsAttempt
      <4>2. a = st.attempt
        BY <3>1, <3>4, <4>1
      <4> QED BY <2>2, <3>4, <4>2
    <3> QED BY <2>1, <2>2, <3>3, <3>4
  <2>8. TablesInv' /\ db'.head \in journal \cup {0} /\ GoneStays /\ OthersFree(p)
    <3>1. db.released \subseteq r /\ db.attempt.stage # "none"
      BY <2>1, <2>2
    <3>2. t.set = db.attempt.set /\ t.hold = db.attempt.hold
      BY <2>2, <2>5
    <3> QED BY <1>1, <2>2, <2>5, <2>6, <2>7, <3>1, <3>2, AttemptChange
  <2>9. PICK y : y = proc[p]
    OBVIOUS
  <2>10. PICK x : MovesProc(p, x) /\ At(x, y, "activate")
    BY <2>1, <2>9, GotoMoves DEF SafetyInv
  <2>11. KnowsEntry(y)
    BY <2>9 DEF SafetyInv, ProcInv
  <2>12. Light(x)
    BY <1>1, <2>9, <2>10, <2>11 DEF At, Light, KnowsEntry, Owning, Late, Promoting, OnSet
  <2> QED BY <1>1, <2>8, <2>10, <2>12, LightTables
<1> QED BY <1>2, <1>3

\* The hold of a terminal attempt is released.
LEMMA ReleaseHoldKeeps ==
  ASSUME SafetyInv, NEW p \in Supervisors, ReleaseHold(p)
  PROVE  SafetyInv'
<1>1. Stop(p) /\ UNCHANGED <<signed, journal, witness, keys, staged, promoted, permit>>
  BY DEF ReleaseHold, archiveFiles
<1>2. CASE UNCHANGED db
  BY <1>1, <1>2, StopStep DEF seen
<1>3. CASE db' # db
  <2>1. /\ db.attempt.stage \in {"initialized", "resumed"}
        /\ db' = [db EXCEPT !.released = @ \cup {db.attempt.hold}]
    BY <1>3 DEF ReleaseHold
  <2>2. PICK t, r, st : /\ t = db.attempt /\ r = db.released \cup {db.attempt.hold}
                        /\ st = StateOf(db.head)
    OBVIOUS
  <2>3. db' = [head |-> db.head, archive |-> db.archive, attempt |-> t,
               generation |-> db.generation, released |-> r, intents |-> db.intents]
    <3>1. db = [head |-> db.head, archive |-> db.archive, attempt |-> db.attempt,
                generation |-> db.generation, released |-> db.released, intents |-> db.intents]
      BY DEF SafetyInv, TablesInv, IsDb
    <3>2. db' = [db EXCEPT !.released = r]
      BY <2>1, <2>2
    <3>3. [db EXCEPT !.released = r] = [head |-> db.head, archive |-> db.archive,
                attempt |-> db.attempt, generation |-> db.generation, released |-> r,
                intents |-> db.intents]
      BY <3>1
    <3> QED BY <2>2, <3>2, <3>3
  <2>4. t = st.attempt \/ (st.attempt.stage = "frozen"
                           /\ t = [st.attempt EXCEPT !.stage = "initialized"])
    BY <2>2 DEF SafetyInv, TablesInv, TablesAreSigned
  <2>5. IsAttempt(t) /\ t.set = db.attempt.set /\ t.hold = db.attempt.hold
    BY <2>2 DEF SafetyInv, TablesInv, IsDb, IsState
  <2>6. db.released \subseteq r /\ db.attempt.stage # "none"
    BY <2>1, <2>2
  <2>7. TablesInv' /\ db'.head \in journal \cup {0} /\ GoneStays /\ OthersFree(p)
    BY <1>1, <2>2, <2>3, <2>4, <2>5, <2>6, AttemptChange
  <2>8. MovesProc(p, Idle)
    BY <1>1, StopMoves DEF SafetyInv
  <2> QED BY <1>1, <2>7, <2>8, IdleLight, LightTables
<1> QED BY <1>2, <1>3

-----------------------------------------------------------------------------
(* The guarded call                                                        *)

\* What the guarded call writes.
LEMMA CommitFields ==
  ASSUME SafetyInv, NEW e, NEW prep, SqlCommit(e, prep)
  PROVE  LET x == signed[e] IN
         /\ db'.head = e
         /\ db'.archive = NextArchive(db.archive, x.event, x.set, x.hold, e, prep)
         /\ db'.attempt = NextAttempt(db.attempt, x.event, x.set, x.hold)
         /\ db'.generation = (IF x.event = "GenerationRegistered" THEN "target" ELSE db.generation)
         /\ db'.released = db.released /\ db'.intents = {i \in db.intents : i.id # e}
         /\ db' = [head |-> db'.head, archive |-> db'.archive, attempt |-> db'.attempt,
                   generation |-> db'.generation, released |-> db'.released,
                   intents |-> db'.intents]
<1>1. db = [head |-> db.head, archive |-> db.archive, attempt |-> db.attempt,
            generation |-> db.generation, released |-> db.released, intents |-> db.intents]
  BY DEF SafetyInv, TablesInv, IsDb
<1>2. PICK b, u, g, w :
        /\ b = NextArchive(db.archive, signed[e].event, signed[e].set, signed[e].hold, e, prep)
        /\ u = NextAttempt(db.attempt, signed[e].event, signed[e].set, signed[e].hold)
        /\ g = (IF signed[e].event = "GenerationRegistered" THEN "target" ELSE db.generation)
        /\ w = {i \in db.intents : i.id # e}
  OBVIOUS
<1>3. db' = [db EXCEPT !.head = e, !.archive = b, !.attempt = u, !.generation = g, !.intents = w]
  BY <1>2 DEF SqlCommit
<1>4. db' = [head |-> e, archive |-> b, attempt |-> u, generation |-> g,
             released |-> db.released, intents |-> w]
  BY <1>1, <1>3
<1> QED BY <1>2, <1>4

\* The entry that the tables accept: its predecessor is their head, and it is legal for them.
LEMMA CommitFollows ==
  ASSUME SafetyInv, NEW e \in journal, NEW prep, Follows(e),
         signed[e].event = "ManagedBackupDeletionPrepared" => prep = Bound(e),
         NEW x, x = signed[e], NEW st, st = StateOf(db.head)
  PROVE  /\ x.event \in Events /\ x.set \in Sets
         /\ x.event \in {"ArchiveRestoreHoldAcquired", "RestoreAttemptPrepared"} => x.hold \in Holds
         /\ Accepts(st, x.event, x.set, x.hold, Bound(e))
         /\ x.state.attempt = NextAttempt(st.attempt, x.event, x.set, x.hold)
         /\ x.state.generation = (IF x.event = "GenerationRegistered" THEN "target"
                                  ELSE st.generation)
         /\ x.state.archive = NextArchive(st.archive, x.event, x.set, x.hold, e, prep)
         /\ IsState(x.state) /\ IsState(st) /\ e \in Nat /\ e \in DOMAIN signed
<1>1. e \in DOMAIN signed /\ e \in Nat
  BY Positions DEF SafetyInv
<1>2. Legal(e) /\ x.prev = db.head
  BY <1>1 DEF SafetyInv, SignedInv, Follows
<1>3. /\ x.event \in Events /\ x.set \in Sets
      /\ x.event \in {"ArchiveRestoreHoldAcquired", "RestoreAttemptPrepared"} => x.hold \in Holds
      /\ Accepts(st, x.event, x.set, x.hold, Bound(e)) /\ IsState(x.state)
      /\ x.state = NextState(st, x.event, x.set, x.hold, e, Bound(e))
  BY <1>2 DEF Legal
<1>4. IsState(st)
  <2>1. db.head \in DOMAIN signed \cup {0}
    BY DEF SafetyInv, SignedInv
  <2> QED BY <2>1, HeadIs DEF SafetyInv
<1>5. /\ x.state.attempt = NextAttempt(st.attempt, x.event, x.set, x.hold)
      /\ x.state.generation = (IF x.event = "GenerationRegistered" THEN "target"
                               ELSE st.generation)
      /\ x.state.archive = NextArchive(st.archive, x.event, x.set, x.hold, e, Bound(e))
  BY <1>3 DEF NextState
<1>6. NextArchive(st.archive, x.event, x.set, x.hold, e, Bound(e))
        = NextArchive(st.archive, x.event, x.set, x.hold, e, prep)
  <2>1. CASE x.event = "ManagedBackupDeletionPrepared"
    BY <2>1
  <2>2. CASE x.event # "ManagedBackupDeletionPrepared"
    BY <2>2 DEF NextArchive
  <2> QED BY <2>1, <2>2
<1> QED BY <1>1, <1>3, <1>4, <1>5, <1>6

\* The attempt after a call, in the tables and in the entry.
LEMMA CommitAttempt ==
  ASSUME NEW t, IsAttempt(t), NEW a, IsAttempt(a), NEW st, st.attempt = a,
         t = a \/ (a.stage = "frozen" /\ t = [a EXCEPT !.stage = "initialized"]),
         NEW event \in Events, NEW s \in Sets, NEW h, NEW prep, Accepts(st, event, s, h, prep),
         event = "RestoreAttemptPrepared" => h \in Holds,
         NEW u, u = NextAttempt(t, event, s, h), NEW b, b = NextAttempt(a, event, s, h)
  PROVE  /\ u = b \/ (b.stage = "frozen" /\ u = [b EXCEPT !.stage = "initialized"])
         /\ IsAttempt(u)
         /\ u.stage # "none" /\ event # "RestoreAttemptPrepared" =>
                t.stage # "none" /\ u.set = t.set /\ u.hold = t.hold
         /\ event = "RestoreAttemptPrepared" => u.set = s /\ u.hold = h
<1>1. a = [stage |-> a.stage, set |-> a.set, hold |-> a.hold]
  BY DEF IsAttempt
<1>2. /\ event = "RestoreAttemptPrepared" => a.stage = "none"
      /\ event = "SourceFreezeRecorded" => a.stage = "prepared"
      /\ event \in {"TargetInitialized", "SourceResumePrepared"} => a.stage = "frozen"
  <2>1. event = "RestoreAttemptPrepared" => a.stage = "none"
    BY AcceptsMeans
  <2>2. event = "SourceFreezeRecorded" => a.stage = "prepared"
    BY AcceptsMeans
  <2>3. event \in {"TargetActivationPlanned", "TargetInitialized", "SourceResumePrepared"} =>
            a.stage = "frozen"
    BY AcceptsMeans
  <2> QED BY <2>1, <2>2, <2>3
<1>3. t.stage = a.stage \/ (a.stage = "frozen" /\ t.stage = "initialized")
  BY <1>1
<1>4. event \in {"SourceFreezeRecorded", "TargetInitialized", "SourceResumePrepared"} =>
          t.stage # "none"
  BY <1>2, <1>3
<1>5. /\ IsAttempt(u)
      /\ event = "RestoreAttemptPrepared" => u.set = s /\ u.hold = h
      /\ event # "RestoreAttemptPrepared" => u.set = t.set /\ u.hold = t.hold
      /\ event \notin {"RestoreAttemptPrepared", "SourceFreezeRecorded", "TargetInitialized",
                       "SourceResumePrepared"} => u = t
  BY <1>4, AttemptAfter
<1>6. u = b \/ (b.stage = "frozen" /\ u = [b EXCEPT !.stage = "initialized"])
  <2>1. CASE t = a
    BY <2>1
  <2>2. CASE a.stage = "frozen" /\ t = [a EXCEPT !.stage = "initialized"]
    <3>1. event \notin {"RestoreAttemptPrepared", "SourceFreezeRecorded"}
      BY <1>2, <2>2
    <3>2. t = [stage |-> "initialized", set |-> a.set, hold |-> a.hold]
      BY <1>1, <2>2
    <3>3. CASE event = "TargetInitialized"
      <4>1. u = [t EXCEPT !.stage = "initialized"] /\ b = [a EXCEPT !.stage = "initialized"]
        BY <3>3 DEF NextAttempt
      <4> QED BY <1>1, <3>2, <4>1
    <3>4. CASE event = "SourceResumePrepared"
      <4>1. u = [t EXCEPT !.stage = "resumed"] /\ b = [a EXCEPT !.stage = "resumed"]
        BY <3>4 DEF NextAttempt
      <4> QED BY <1>1, <3>2, <4>1
    <3>5. CASE event \notin {"TargetInitialized", "SourceResumePrepared"}
      <4>1. u = t /\ b = a
        BY <3>1, <3>5 DEF NextAttempt
      <4> QED BY <2>2, <4>1
    <3> QED BY <3>3, <3>4, <3>5
  <2> QED BY <2>1, <2>2
<1>7. u.stage # "none" /\ event # "RestoreAttemptPrepared" => t.stage # "none"
  BY <1>4, <1>5
<1> QED BY <1>5, <1>6, <1>7

\* What an accepted event leaves of a set: it stays gone, it stays held, and only a
\* checkpoint gives it an object.
KeepsSet(x, y, event, id) ==
    /\ x.life \in {"archive_key_erased", "deleted"} => y.life \in {"archive_key_erased", "deleted"}
    /\ \A k \in x.holds : x.life = "streaming" /\ x.objs # <<>> =>
           k \in y.holds /\ y.life = "streaming" /\ y.objs # <<>>
    /\ event # "ArchiveCheckpointCommitted" => ToSet(y.objs) \subseteq ToSet(x.objs)
    /\ \A o \in ToSet(y.objs) : o \in ToSet(x.objs) \/ o = id

\* It does so whatever the event.
LEMMA CommitSet ==
  ASSUME NEW st, NEW event \in Events, NEW s, NEW h, NEW prep, Accepts(st, event, s, h, prep),
         NEW x, x = st.archive[s], IsSet(x), NEW id \in Nat, NEW f,
         NEW y, y = NextSet(x, event, h, id, f)
  PROVE  KeepsSet(x, y, event, id)
<1>1. event = "BackupSetStarted" => x.life = "none"
  BY AcceptsMeans
<1>2. /\ event = "ArchiveSealingStarted" => x.life = "streaming"
      /\ event = "ArchiveSealingStarted" => x.holds = {}
  <2>1. event = "ArchiveSealingStarted" => x.life = "streaming"
    BY AcceptsMeans
  <2>2. event = "ArchiveSealingStarted" => x.holds = {}
    BY AcceptsMeans
  <2> QED BY <2>1, <2>2
<1>3. event = "ArchiveSealed" => x.life = "sealing"
  BY AcceptsMeans
<1>4. event = "ManagedBackupDeletionPrepared" => x.life = "sealed"
  BY AcceptsMeans
<1>5. event = "ArchiveKeyErased" => x.life = "deletion_prepared"
  BY AcceptsMeans
<1>6. event = "ManagedBackupDeleted" => x.life = "archive_key_erased"
  BY AcceptsMeans
<1>7. /\ event \notin {"BackupSetStarted", "ArchiveSealingStarted", "ArchiveSealed",
                       "ManagedBackupDeletionPrepared", "ArchiveKeyErased",
                       "ManagedBackupDeleted"} => y.life = x.life
      /\ event = "ArchiveKeyErased" => y.life = "archive_key_erased"
      /\ event = "ManagedBackupDeleted" => y.life = "deleted"
  BY DEF NextSet
<1>8. /\ event = "ArchiveCheckpointCommitted" => y.objs = Append(x.objs, id)
      /\ event \notin {"BackupSetStarted", "ArchiveCheckpointCommitted"} => y.objs = x.objs
      /\ event = "BackupSetStarted" => y.objs = <<>>
  BY DEF NextSet
<1>9. event # "BackupSetStarted" => x.holds \subseteq y.holds
  BY SetAfter
<1>10. x.objs \in Seq(Nat)
  BY DEF IsSet
<1>11. PICK v : v = x.objs
  OBVIOUS
<1>12. v \in Seq(Nat) /\ Append(v, id) # <<>>
       /\ \A o \in ToSet(Append(v, id)) : o \in ToSet(v) \/ o = id
  <2>1. v \in Seq(Nat) /\ Len(v) \in Nat
    BY <1>10, <1>11
  <2>2. Len(Append(v, id)) = Len(v) + 1 /\ DOMAIN Append(v, id) = 1 .. Len(v) + 1
        /\ DOMAIN v = 1 .. Len(v)
    BY <2>1
  <2>3. \A i \in 1 .. Len(v) + 1 : Append(v, id)[i] = IF i = Len(v) + 1 THEN id ELSE v[i]
    BY <2>1
  <2>4. \A o \in ToSet(Append(v, id)) : o \in ToSet(v) \/ o = id
    BY <2>1, <2>2, <2>3 DEF ToSet
  <2>5. Append(v, id) # <<>>
    BY <2>1, AppendProperties
  <2> QED BY <2>1, <2>4, <2>5
<1>13. x.life \in {"archive_key_erased", "deleted"} => y.life \in {"archive_key_erased", "deleted"}
  BY <1>1, <1>2, <1>3, <1>4, <1>5, <1>7
<1>14. ASSUME NEW k \in x.holds, x.life = "streaming", x.objs # <<>>
       PROVE  k \in y.holds /\ y.life = "streaming" /\ y.objs # <<>>
  BY <1>1, <1>2, <1>3, <1>4, <1>5, <1>6, <1>7, <1>8, <1>9, <1>11, <1>12, <1>14
<1>15. ToSet(<<>>) = {}
  BY DEF ToSet
<1>16. event # "ArchiveCheckpointCommitted" => ToSet(y.objs) \subseteq ToSet(x.objs)
  BY <1>8, <1>15
<1>17. \A o \in ToSet(y.objs) : o \in ToSet(x.objs) \/ o = id
  BY <1>8, <1>11, <1>12, <1>16
<1> QED BY <1>13, <1>14, <1>16, <1>17 DEF KeepsSet

\* The tables follow the entry that follows their head.
LEMMA TablesFollow ==
  ASSUME SafetyInv, NEW p \in Supervisors, NEW e \in journal, NEW prep,
         SqlAccepts(e, prep), SqlCommit(e, prep),
         signed[e].event = "ManagedBackupDeletionPrepared" => prep = Bound(e),
         Checkpoint(e) /\ Reserved(e) => e \in staged,
         UNCHANGED <<signed, journal, staged, promoted>>
  PROVE  /\ TablesInv' /\ db'.head \in journal \cup {0} /\ GoneStays /\ OthersFree(p)
         /\ ~Reserved(e)'
<1>1. PICK x, st, event, s, h : /\ x = signed[e] /\ st = StateOf(db.head) /\ event = x.event
                                /\ s = x.set /\ h = x.hold
  OBVIOUS
<1>2. Follows(e) /\ TablesAllow(event, s, h, e, prep)
  BY <1>1 DEF SqlAccepts
<1>3. /\ event \in Events /\ s \in Sets
      /\ event \in {"ArchiveRestoreHoldAcquired", "RestoreAttemptPrepared"} => h \in Holds
      /\ Accepts(st, event, s, h, Bound(e))
      /\ x.state.attempt = NextAttempt(st.attempt, event, s, h)
      /\ x.state.generation = (IF event = "GenerationRegistered" THEN "target"
                               ELSE st.generation)
      /\ x.state.archive = NextArchive(st.archive, event, s, h, e, prep)
      /\ IsState(x.state) /\ IsState(st) /\ e \in Nat /\ e \in DOMAIN signed
  BY <1>1, <1>2, CommitFollows
<1>4. /\ db'.head = e /\ db'.archive = NextArchive(db.archive, event, s, h, e, prep)
      /\ db'.attempt = NextAttempt(db.attempt, event, s, h)
      /\ db'.generation = (IF event = "GenerationRegistered" THEN "target" ELSE db.generation)
      /\ db'.released = db.released /\ db'.intents = {i \in db.intents : i.id # e}
      /\ db' = [head |-> db'.head, archive |-> db'.archive, attempt |-> db'.attempt,
                generation |-> db'.generation, released |-> db'.released,
                intents |-> db'.intents]
  BY <1>1, CommitFields
<1>5. /\ db.archive = st.archive /\ db.generation = st.generation
      /\ \/ db.attempt = st.attempt
         \/ /\ st.attempt.stage = "frozen"
            /\ db.attempt = [st.attempt EXCEPT !.stage = "initialized"]
  BY <1>1 DEF SafetyInv, TablesInv, TablesAreSigned
<1>6. PICK a, b, t, u, n : /\ a = st.archive /\ b = db'.archive /\ t = db.attempt
                           /\ u = db'.attempt /\ n = x.state
  OBVIOUS
<1>7. b = n.archive /\ db'.generation = n.generation
  BY <1>3, <1>4, <1>5, <1>6
<1>8. IsArchive(a) /\ b = NextArchive(a, event, s, h, e, prep)
  BY <1>3, <1>4, <1>5, <1>6 DEF IsState
<1>9. /\ IsArchive(b) /\ b[s] = NextSet(a[s], event, h, e, prep)
      /\ \A r \in Sets : r # s => b[r] = a[r]
  BY <1>3, <1>8, ArchiveAfter
<1>10. ASSUME NEW r \in Sets PROVE KeepsSet(a[r], b[r], IF r = s THEN event ELSE "none", e)
  <2>1. CASE r # s
    BY <1>9, <2>1 DEF KeepsSet
  <2>2. CASE r = s
    <3>1. IsSet(a[s])
      BY <1>3, <1>8 DEF IsArchive
    <3>2. PICK y, z : y = a[s] /\ z = b[s]
      OBVIOUS
    <3>3. y = st.archive[s] /\ IsSet(y) /\ z = NextSet(y, event, h, e, prep)
      BY <1>6, <1>9, <3>1, <3>2
    <3>4. KeepsSet(y, z, event, e)
      BY <1>3, <3>3, CommitSet
    <3> QED BY <2>2, <3>2, <3>4
  <2> QED BY <2>1, <2>2
<1>11. /\ u = n.attempt \/ (n.attempt.stage = "frozen"
                            /\ u = [n.attempt EXCEPT !.stage = "initialized"])
       /\ IsAttempt(u)
       /\ u.stage # "none" /\ event # "RestoreAttemptPrepared" =>
              t.stage # "none" /\ u.set = t.set /\ u.hold = t.hold
       /\ event = "RestoreAttemptPrepared" => u.set = s /\ u.hold = h
  <2>1. PICK c, d, k : c = st.attempt /\ d = n.attempt /\ k = Bound(e)
    OBVIOUS
  <2>2. IsAttempt(t) /\ IsAttempt(c)
    BY <1>3, <1>6, <2>1 DEF SafetyInv, TablesInv, IsDb, IsState
  <2>3. /\ t = c \/ (c.stage = "frozen" /\ t = [c EXCEPT !.stage = "initialized"])
        /\ Accepts(st, event, s, h, k) /\ (event = "RestoreAttemptPrepared" => h \in Holds)
        /\ u = NextAttempt(t, event, s, h) /\ d = NextAttempt(c, event, s, h)
    BY <1>3, <1>4, <1>5, <1>6, <2>1
  <2>4. /\ u = d \/ (d.stage = "frozen" /\ u = [d EXCEPT !.stage = "initialized"])
        /\ IsAttempt(u)
        /\ u.stage # "none" /\ event # "RestoreAttemptPrepared" =>
               t.stage # "none" /\ u.set = t.set /\ u.hold = t.hold
        /\ event = "RestoreAttemptPrepared" => u.set = s /\ u.hold = h
    BY <1>3, <2>1, <2>2, <2>3, CommitAttempt
  <2> QED BY <2>1, <2>4
<1>12. StateOf(e)' = n /\ e # 0
  BY <1>1, <1>3, <1>6, Positions DEF StateOf, SafetyInv
<1>13. TablesAreSigned'
  BY <1>4, <1>6, <1>7, <1>11, <1>12 DEF TablesAreSigned
<1>14. IsDb'
  BY <1>4, <1>6, <1>9, <1>11 DEF IsDb, IsState
<1>15. \A o : Reserved(o)' => Reserved(o) /\ o # e
  BY <1>4 DEF Reserved
<1>16. GoneStays
  BY <1>5, <1>6, <1>10 DEF GoneStays, Gone, KeepsSet
<1>17. RestoreIsHeld'
  <2> SUFFICES ASSUME u.stage # "none", u.hold \notin db.released
               PROVE  u.hold \in b[u.set].holds /\ b[u.set].life = "streaming"
                      /\ b[u.set].objs # <<>>
    BY <1>4, <1>6 DEF RestoreIsHeld
  <2>1. /\ u.set \in Sets /\ u.hold \in a[u.set].holds
        /\ a[u.set].life = "streaming" /\ a[u.set].objs # <<>>
    <3>1. CASE event = "RestoreAttemptPrepared"
      <4>1. RestoreReady(s, h)
        BY <1>2, <3>1 DEF TablesAllow
      <4> QED BY <1>3, <1>5, <1>6, <1>11, <3>1, <4>1 DEF RestoreReady, ActiveHolds
    <3>2. CASE event # "RestoreAttemptPrepared"
      <4>1. t.stage # "none" /\ u.set = t.set /\ u.hold = t.hold
        BY <1>11, <3>2
      <4>2. u.set \in Sets
        BY <1>11 DEF IsAttempt
      <4> QED BY <1>5, <1>6, <4>1, <4>2 DEF SafetyInv, TablesInv, RestoreIsHeld
    <3> QED BY <3>1, <3>2
  <2> QED BY <1>10, <2>1 DEF KeepsSet
<1>18. event = "ArchiveCheckpointCommitted" => Reserved(e) /\ e \in staged
  <2> SUFFICES ASSUME event = "ArchiveCheckpointCommitted" PROVE Reserved(e) /\ e \in staged
    OBVIOUS
  <2>1. [id |-> e, set |-> s, expected |-> db.archive[s].objs] \in db.intents
    BY <1>2 DEF TablesAllow
  <2>2. Reserved(e)
    BY <2>1 DEF Reserved
  <2> QED BY <1>1, <2>2 DEF Checkpoint
<1>19. ASSUME NEW r \in Sets, NEW o \in ToSet(b[r].objs)
       PROVE  o \in ToSet(a[r].objs) \/ (o = e /\ r = s /\ event = "ArchiveCheckpointCommitted")
  BY <1>10, <1>19 DEF KeepsSet
<1>20. ASSUME NEW r \in Sets PROVE Stored(r)'
  <2>1. ASSUME NEW o \in ToSet(b[r].objs)
        PROVE  /\ o \in journal' /\ Checkpoint(o)' /\ signed'[o].set = r /\ ~Reserved(o)'
               /\ Gone(r)' \/ o \in staged' \cup promoted'
    <3>1. CASE o \in ToSet(a[r].objs)
      <4>1. /\ o \in journal /\ Checkpoint(o) /\ signed[o].set = r /\ ~Reserved(o)
            /\ Gone(r) \/ o \in staged \cup promoted
        BY <1>5, <1>6, <3>1 DEF SafetyInv, TablesInv, Stored
      <4> QED BY <1>15, <1>16, <4>1 DEF GoneStays, Checkpoint
    <3>2. CASE o = e /\ r = s /\ event = "ArchiveCheckpointCommitted"
      BY <1>1, <1>15, <1>18, <3>2 DEF Checkpoint
    <3> QED BY <1>19, <2>1, <3>1, <3>2
  <2> QED BY <1>6, <2>1 DEF Stored
<1>21. /\ \A i \in db'.intents : i.id \in DOMAIN signed' /\ i.id # db'.head
       /\ \A i, j \in db'.intents : i.id = j.id => i = j
  BY <1>4 DEF SafetyInv, TablesInv
<1>22. TablesInv'
  BY <1>13, <1>14, <1>17, <1>20, <1>21 DEF TablesInv
<1>23. OthersFree(p)
  BY <1>5, <1>6, <1>15, <1>18, <1>19 DEF OthersFree
<1> QED BY <1>4, <1>15, <1>16, <1>22, <1>23

\* The step of a supervisor with an entry that is committed.
LEMMA Promotes ==
  ASSUME SafetyInv, NEW p \in Supervisors, Goto(p, "promote"),
         proc[p].pc \in Late, NEW e, e = proc[p].entry,
         UNCHANGED <<signed, journal, witness, keys, staged, promoted>>,
         permit' = permit \/ (permit \in {None, p} /\ permit' = None),
         TablesInv', db'.head \in journal \cup {0}, GoneStays, OthersFree(p),
         ~Reserved(e)'
  PROVE  SafetyInv'
<1>1. PICK y : y = proc[p]
  OBVIOUS
<1>2. PICK x : MovesProc(p, x) /\ At(x, y, "promote")
  BY <1>1, GotoMoves DEF SafetyInv
<1>3. KnowsEntry(y)
  BY <1>1 DEF SafetyInv, ProcInv
<1>4. KnowsEntry(x)'
  BY <1>1, <1>2, <1>3 DEF At, KnowsEntry, Owning, Early, Late, Promoting, OnSet
<1>5. x.entry = e
  BY <1>1, <1>2 DEF At
<1>6. KnowsKeys(p, x)' /\ KnowsFiles(x)' /\ \A z : Apart(x, z)
  BY <1>2, <1>5 DEF At, KnowsKeys, KnowsFiles, Apart, Owning
<1> QED BY <1>2, <1>4, <1>6, TablesStep

\* The guarded call of the supervisor that signed, journalled and witnessed the entry.
LEMMA CommitKeeps ==
  ASSUME SafetyInv, NEW p \in Supervisors, Commit(p)
  PROVE  SafetyInv'
<1>1. PICK y, e, prep, event : /\ y = proc[p] /\ e = y.entry /\ prep = y.prep
                               /\ event = signed[e].event
  OBVIOUS
<1>2. /\ y.pc = "advanced" /\ permit \in {None, p} /\ permit' = None
      /\ UNCHANGED <<signed, journal, witness, keys, staged, promoted>>
  BY <1>1 DEF Commit, Free, archiveFiles
<1>3. KnowsEntry(y) /\ KnowsFiles(y)
  BY <1>1 DEF SafetyInv, ProcInv
<1>4. /\ e \in journal /\ e \in DOMAIN signed /\ signed[e].set = y.set
      /\ signed[e].event = "ManagedBackupDeletionPrepared" => prep = Bound(e)
      /\ Checkpoint(e) /\ Reserved(e) => e \in staged
  BY <1>1, <1>2, <1>3 DEF KnowsEntry, KnowsFiles, Owning, Late
<1>5. CASE Stop(p) /\ UNCHANGED db
  <2>1. TablesInv' /\ db'.head \in journal \cup {0} /\ GoneStays /\ OthersFree(p)
    <3>1. Extends
      BY <1>2 DEF Extends
    <3>2. TablesInv'
      BY <1>2, <1>5, <3>1, TablesStay DEF SafetyInv
    <3>3. db'.head \in journal \cup {0}
      BY <1>5 DEF SafetyInv, SignedInv
    <3>4. GoneStays /\ OthersFree(p)
      BY <1>5 DEF GoneStays, Gone, OthersFree, Reserved
    <3> QED BY <3>2, <3>3, <3>4
  <2>2. MovesProc(p, Idle)
    BY <1>5, StopMoves DEF SafetyInv
  <2> QED BY <1>2, <2>1, <2>2, IdleLight, LightTables
<1>6. CASE ~(Stop(p) /\ UNCHANGED db)
  <2>1. PICK c : c = AfterCommit(event)
    OBVIOUS
  <2>2. /\ SqlAccepts(e, prep) /\ SqlCommit(e, prep)
        /\ IF c = "idle" THEN Stop(p) ELSE Goto(p, c)
    BY <1>1, <1>6, <2>1 DEF Commit
  <2>3. /\ TablesInv' /\ db'.head \in journal \cup {0} /\ GoneStays /\ OthersFree(p)
        /\ ~Reserved(e)'
    BY <1>2, <1>4, <2>2, TablesFollow
  <2>4. CASE c = "idle"
    <3>1. MovesProc(p, Idle)
      BY <2>2, <2>4, StopMoves DEF SafetyInv
    <3> QED BY <1>2, <2>3, <3>1, IdleLight, LightTables
  <2>5. CASE c = "promote"
    <3>1. y.pc \in Late
      BY <1>2 DEF Late
    <3> QED BY <1>1, <1>2, <2>2, <2>3, <2>5, <3>1, Promotes
  <2>6. CASE c \notin {"idle", "promote"}
    <3>1. PICK x : MovesProc(p, x) /\ At(x, y, c)
      BY <1>1, <2>2, <2>6, GotoMoves DEF SafetyInv
    <3>2. c \in {"erase", "target", "activate", "release"}
          /\ (c = "erase" => event = "PreparedArchiveKeyErasure")
      BY <2>1, <2>6 DEF AfterCommit
    <3>3. y.set \in Sets
      BY <1>4, EntrySet
    <3>4. CASE c # "erase"
      <4>1. Light(x)
        BY <1>3, <3>1, <3>2, <3>3, <3>4 DEF At, Light, KnowsEntry, Owning, Late, Promoting
      <4> QED BY <1>2, <2>3, <3>1, <4>1, LightTables
    <3>5. CASE c = "erase"
      <4>1. PICK s : s = y.set
        OBVIOUS
      <4>2. Erases(e, s)
        BY <1>1, <1>4, <3>2, <3>5, <4>1 DEF Erases
      <4>3. KeyErased(s)'
        BY <1>2, <1>4, <4>2 DEF KeyErased, Erases
      <4>4. IsProc(x) /\ x.pc = "erase" /\ x.set = s /\ x.set \in Sets
            /\ x.head \in journal' \cup {0}
        BY <1>2, <1>3, <3>1, <3>3, <3>5, <4>1 DEF At, KnowsEntry
      <4>5. KnowsEntry(x)' /\ KnowsKeys(p, x)' /\ KnowsFiles(x)' /\ \A z : Apart(x, z)
        BY <4>3, <4>4
           DEF KnowsEntry, KnowsKeys, KnowsFiles, Apart, Owning, Early, Late, Promoting
      <4> QED BY <1>2, <2>3, <3>1, <4>5, TablesStep
    <3> QED BY <3>4, <3>5
  <2> QED BY <2>4, <2>5, <2>6
<1> QED BY <1>5, <1>6

\* The replay of the entry that the witness named when it was read.
LEMMA ReplayKeeps ==
  ASSUME SafetyInv, NEW p \in Supervisors, Replay(p)
  PROVE  SafetyInv'
<1>1. PICK y, e, prep : /\ y = proc[p] /\ e = y.entry /\ prep = Bound(e)
  OBVIOUS
<1>2. /\ y.pc = "replay"
      /\ UNCHANGED <<signed, journal, witness, keys, staged, promoted, permit>>
  BY <1>1 DEF Replay, archiveFiles
<1>3. KnowsEntry(y) /\ e \in journal /\ y.pc \in Late
  BY <1>1, <1>2 DEF SafetyInv, ProcInv, KnowsEntry, Late
<1>4. CASE Stop(p) /\ UNCHANGED db
  BY <1>2, <1>4, StopStep DEF seen
<1>5. CASE Goto(p, "promote") /\ UNCHANGED db /\ db.head = e
  <2>1. Extends
    BY <1>2 DEF Extends
  <2>2. TablesInv'
    BY <1>2, <1>5, <2>1, TablesStay DEF SafetyInv
  <2>3. db'.head \in journal \cup {0} /\ ~Reserved(e)'
    BY <1>5 DEF SafetyInv, SignedInv, TablesInv, Reserved
  <2>4. GoneStays /\ OthersFree(p)
    BY <1>5 DEF GoneStays, Gone, OthersFree, Reserved
  <2> QED BY <1>1, <1>2, <1>3, <1>5, <2>2, <2>3, <2>4, Promotes
<1>6. CASE /\ Replayable(e) /\ SqlAccepts(e, prep) /\ SqlCommit(e, prep)
           /\ IF Checkpoint(e) THEN Goto(p, "promote") ELSE Stop(p)
  <2>1. Checkpoint(e) => e \in staged
    BY <1>6 DEF Replayable
  <2>2. /\ TablesInv' /\ db'.head \in journal \cup {0} /\ GoneStays /\ OthersFree(p)
        /\ ~Reserved(e)'
    BY <1>1, <1>2, <1>3, <1>6, <2>1, TablesFollow
  <2>3. CASE Checkpoint(e)
    BY <1>1, <1>2, <1>3, <1>6, <2>2, <2>3, Promotes
  <2>4. CASE ~Checkpoint(e)
    <3>1. MovesProc(p, Idle)
      BY <1>6, <2>4, StopMoves DEF SafetyInv
    <3> QED BY <1>2, <2>2, <3>1, IdleLight, LightTables
  <2> QED BY <2>3, <2>4
<1> QED BY <1>1, <1>4, <1>5, <1>6 DEF Replay, Bound

-----------------------------------------------------------------------------
(* The history the supervisors find                                        *)

\* What a committed state says of its attempt, and of the sets whose key is erased.
Held(st) ==
    LET set == st.archive[st.attempt.set] IN
    st.attempt.stage # "none" =>
        st.attempt.hold \in set.holds /\ set.life = "streaming" /\ set.objs # <<>>

Erased(st) ==
    \A s \in Sets : st.archive[s].life \in {"archive_key_erased", "deleted"} =>
                        st.archive[s].erasing = TRUE

Prepares(st, event, s, h) ==
    event = "RestoreAttemptPrepared" =>
        /\ h \in st.archive[s].holds
        /\ st.archive[s].life = "streaming" /\ st.archive[s].objs # <<>>

\* A known set stays known, and only a checkpoint gives it an object.
GoesOn(st, n, event, s, id) ==
    /\ \A r \in Sets : st.archive[r].life # "none" => n.archive[r].life # "none"
    /\ \A r \in Sets : \A o \in ToSet(n.archive[r].objs) :
           \/ o \in ToSet(st.archive[r].objs)
           \/ o = id /\ r = s /\ event = "ArchiveCheckpointCommitted"

\* One committed entry after another.
LEMMA HistoryStep ==
  ASSUME NEW st, IsState(st), Held(st), Erased(st), NEW event \in Events, NEW s \in Sets, NEW h,
         NEW id \in Nat, NEW prep, Accepts(st, event, s, h, prep),
         event = "ArchiveRestoreHoldAcquired" => h \in Holds,
         Prepares(st, event, s, h),
         NEW n, n = NextState(st, event, s, h, id, prep)
  PROVE  /\ IsState(n) /\ Held(n) /\ Erased(n)
         /\ GoesOn(st, n, event, s, id)
<1>1. PICK a, b, t, u : /\ a = st.archive /\ b = n.archive /\ t = st.attempt /\ u = n.attempt
  OBVIOUS
<1>2. b = NextArchive(a, event, s, h, id, prep) /\ u = NextAttempt(t, event, s, h)
  BY <1>1 DEF NextState
<1>3. IsArchive(a) /\ IsAttempt(t)
  BY <1>1 DEF IsState
<1>4. event = "RestoreAttemptPrepared" => h \in Holds
  BY <1>1, <1>3 DEF IsArchive, IsSet, Prepares
<1>5. IsState(n)
  BY <1>4, StateAfter
<1>6. /\ b[s] = NextSet(a[s], event, h, id, prep)
      /\ \A r \in Sets : r # s => b[r] = a[r]
  BY <1>2, <1>3, ArchiveAfter
<1>7. PICK x, y : x = a[s] /\ y = b[s]
  OBVIOUS
<1>8. x = st.archive[s] /\ IsSet(x) /\ y = NextSet(x, event, h, id, prep)
  BY <1>1, <1>3, <1>6, <1>7 DEF IsArchive
<1>9. KeepsSet(x, y, event, id)
  BY <1>8, CommitSet
<1>10. ASSUME NEW r \in Sets PROVE KeepsSet(a[r], b[r], IF r = s THEN event ELSE "none", id)
  <2>1. CASE r # s
    BY <1>6, <2>1 DEF KeepsSet
  <2>2. CASE r = s
    BY <1>7, <1>9, <2>2
  <2> QED BY <2>1, <2>2
<1>11. Held(n)
  <2> SUFFICES ASSUME u.stage # "none"
               PROVE  u.hold \in b[u.set].holds /\ b[u.set].life = "streaming"
                      /\ b[u.set].objs # <<>>
    BY <1>1 DEF Held
  <2>1. /\ IsAttempt(u)
        /\ u.stage # "none" /\ event # "RestoreAttemptPrepared" =>
               t.stage # "none" /\ u.set = t.set /\ u.hold = t.hold
        /\ event = "RestoreAttemptPrepared" => u.set = s /\ u.hold = h
    BY <1>1, <1>2, <1>3, <1>4, CommitAttempt
  <2>2. /\ u.set \in Sets /\ u.hold \in a[u.set].holds
        /\ a[u.set].life = "streaming" /\ a[u.set].objs # <<>>
    <3>1. CASE event = "RestoreAttemptPrepared"
      BY <1>1, <2>1, <3>1 DEF Prepares
    <3>2. CASE event # "RestoreAttemptPrepared"
      <4>1. t.stage # "none" /\ u.set = t.set /\ u.hold = t.hold
        BY <2>1, <3>2
      <4>2. u.set \in Sets
        BY <2>1 DEF IsAttempt
      <4> QED BY <1>1, <4>1, <4>2 DEF Held
    <3> QED BY <3>1, <3>2
  <2> QED BY <1>10, <2>2 DEF KeepsSet
<1>12. y.life \in {"archive_key_erased", "deleted"} => y.erasing = TRUE
  <2>1. x.life \in {"archive_key_erased", "deleted"} => x.erasing = TRUE
    BY <1>8 DEF Erased
  <2>2. event = "ArchiveKeyErased" => x.erasing = TRUE
    <3>1. event = "ArchiveKeyErased" => x.erasing
      BY <1>8 DEF Accepts
    <3>2. x.erasing \in BOOLEAN
      BY <1>8 DEF IsSet
    <3> QED BY <3>1, <3>2, Zenon
  <2>3. event = "ManagedBackupDeleted" => x.life = "archive_key_erased"
    BY <1>8, AcceptsMeans
  <2>4. event = "BackupSetStarted" => y.life = "streaming"
    BY <1>8, SetAfter
  <2>5. y.life \in {"archive_key_erased", "deleted"} =>
            y.life = x.life \/ event \in {"ArchiveKeyErased", "ManagedBackupDeleted"}
    BY <1>8 DEF NextSet
  <2>6. event \notin {"BackupSetStarted", "PreparedArchiveKeyErasure"} => y.erasing = x.erasing
    BY <1>8, SetAfter
  <2>7. event = "PreparedArchiveKeyErasure" => y.erasing = TRUE
    BY <1>8 DEF NextSet
  <2> QED BY <2>1, <2>2, <2>3, <2>4, <2>5, <2>6, <2>7
<1>13. Erased(n)
  <2>1. ASSUME NEW r \in Sets, b[r].life \in {"archive_key_erased", "deleted"}
        PROVE  b[r].erasing = TRUE
    <3>1. CASE r = s
      BY <1>7, <1>12, <2>1, <3>1
    <3>2. CASE r # s
      BY <1>1, <1>6, <2>1, <3>2 DEF Erased
    <3> QED BY <3>1, <3>2
  <2> QED BY <1>1, <2>1 DEF Erased
<1>14. ASSUME NEW r \in Sets, a[r].life # "none" PROVE b[r].life # "none"
  <2>1. x.life # "none" => y.life # "none"
    BY <1>8 DEF NextSet
  <2> QED BY <1>6, <1>7, <1>14, <2>1
<1>15. ASSUME NEW r \in Sets, NEW o \in ToSet(b[r].objs)
       PROVE  o \in ToSet(a[r].objs) \/ (o = id /\ r = s /\ event = "ArchiveCheckpointCommitted")
  BY <1>10, <1>15 DEF KeepsSet
<1>16. GoesOn(st, n, event, s, id)
  BY <1>1, <1>14, <1>15 DEF GoesOn
<1> QED BY <1>5, <1>11, <1>13, <1>16

\* What is true of every entry of a committed history.
Told(n) ==
    LET st == signed[n].state IN
    /\ Legal(n) /\ Sourced(n) /\ Held(st) /\ Erased(st)
    /\ \A s \in Sets : \A o \in ToSet(st.archive[s].objs) :
           o \in 1 .. n /\ Checkpoint(o) /\ signed[o].set = s
    /\ \A m \in 1 .. n : \A s \in Sets :
           signed[m].state.archive[s].life # "none" => st.archive[s].life # "none"

\* It is true of an entry if it is of the one before.
LEMMA ToldNext ==
  ASSUME signed \in Seq(ToSet(signed)), Committed(signed), journal = DOMAIN signed,
         NEW n \in DOMAIN signed, n # 1 => Told(n - 1)
  PROVE  Told(n)
<1>1. n \in Nat \ {0} /\ DOMAIN signed = 1 .. Len(signed) /\ Len(signed) \in Nat
  BY DEF Committed
<1>2. PICK x, st, event, s, h, prep, z :
        /\ x = signed[n] /\ st = StateOf(n - 1) /\ event = x.event /\ s = x.set /\ h = x.hold
        /\ prep = Bound(n) /\ z = x.state
  OBVIOUS
<1>3. st = (IF n = 1 THEN Genesis ELSE signed[n - 1].state)
  BY <1>1, <1>2 DEF StateOf
<1>4. /\ x.prev = n - 1 /\ event \in Events /\ s \in Sets
      /\ Accepts(st, event, s, h, prep)
      /\ z = NextState(st, event, s, h, n, prep)
      /\ event = "ArchiveRestoreHoldAcquired" => h \in Holds
      /\ Prepares(st, event, s, h)
  BY <1>2, <1>3 DEF Committed, Bound, Prepares
<1>5. /\ IsState(st) /\ Held(st) /\ Erased(st)
      /\ \A r \in Sets : \A o \in ToSet(st.archive[r].objs) :
             o \in 1 .. n - 1 /\ Checkpoint(o) /\ signed[o].set = r
      /\ \A m \in 1 .. n - 1 : \A r \in Sets :
             signed[m].state.archive[r].life # "none" => st.archive[r].life # "none"
      /\ \A r \in Sets :
             /\ st.archive[r].life # "none" => \E e \in journal : Starts(e, r)
             /\ st.archive[r].erasing => \E e \in journal : Erases(e, r)
  <2>1. CASE n = 1
    <3>1. st = Genesis
      BY <1>3, <2>1
    <3>2. IsState(st) /\ \A r \in Sets : st.archive[r] = NoSet
      BY <3>1, GenesisIs
    <3>3. NoSet.life = "none" /\ NoSet.objs = <<>>
      BY DEF NoSet
    <3>4. ~NoSet.erasing
      BY DEF NoSet
    <3>5. st.attempt.stage = "none"
      BY <3>1 DEF Genesis, NoAttempt
    <3>6. Held(st)
      BY <3>5 DEF Held
    <3>7. Erased(st)
      BY <3>2, <3>3 DEF Erased
    <3>8. ToSet(<<>>) = {}
      BY DEF ToSet
    <3> QED BY <2>1, <3>2, <3>3, <3>4, <3>6, <3>7, <3>8
  <2>2. CASE n # 1
    <3>1. PICK m : m = n - 1
      OBVIOUS
    <3>2. m \in DOMAIN signed /\ st = signed[m].state /\ Told(m)
      BY <1>1, <1>3, <2>2, <3>1
    <3>3. IsState(st)
      BY <3>2 DEF Told, Legal
    <3>4. Sourced(m) /\ journal \cup {m} = journal
      BY <3>2 DEF Told
    <3>5. \A r \in Sets :
             /\ st.archive[r].life # "none" => \E e \in journal : Starts(e, r)
             /\ st.archive[r].erasing => \E e \in journal : Erases(e, r)
      BY <3>2, <3>4 DEF Sourced
    <3> QED BY <3>1, <3>2, <3>3, <3>5 DEF Told
  <2> QED BY <2>1, <2>2
<1>6. IsState(z) /\ Held(z) /\ Erased(z) /\ GoesOn(st, z, event, s, n)
  BY <1>1, <1>4, <1>5, HistoryStep
<1>7. Legal(n)
  <2>1. event \in {"ArchiveRestoreHoldAcquired", "RestoreAttemptPrepared"} => h \in Holds
    BY <1>4, <1>5 DEF IsState, IsArchive, IsSet, Prepares
  <2>2. x.prev \in 0 .. n - 1 /\ StateOf(x.prev) = st
    BY <1>1, <1>2, <1>4
  <2> QED BY <1>2, <1>4, <1>6, <2>1, <2>2 DEF Legal
<1>8. Sourced(n)
  <2> SUFFICES ASSUME NEW r \in Sets
               PROVE  /\ z.archive[r].life # "none" => \E e \in journal \cup {n} : Starts(e, r)
                      /\ z.archive[r].erasing => \E e \in journal \cup {n} : Erases(e, r)
    BY <1>2 DEF Sourced
  <2>1. Knew(st, z, event, s, r)
    BY <1>1, <1>4, <1>5, KnownBefore
  <2>2. (event = "BackupSetStarted" /\ r = s => Starts(n, r))
        /\ (event = "PreparedArchiveKeyErasure" /\ r = s => Erases(n, r))
    BY <1>2 DEF Starts, Erases
  <2> QED BY <1>5, <2>1, <2>2 DEF Knew
<1>9. ASSUME NEW r \in Sets, NEW o \in ToSet(z.archive[r].objs)
      PROVE  o \in 1 .. n /\ Checkpoint(o) /\ signed[o].set = r
  <2>1. CASE o \in ToSet(st.archive[r].objs)
    BY <1>1, <1>5, <2>1
  <2>2. CASE o = n /\ r = s /\ event = "ArchiveCheckpointCommitted"
    BY <1>1, <1>2, <2>2 DEF Checkpoint
  <2> QED BY <1>6, <1>9, <2>1, <2>2 DEF GoesOn
<1>10. \A m \in 1 .. n : \A r \in Sets :
           signed[m].state.archive[r].life # "none" => z.archive[r].life # "none"
  BY <1>1, <1>2, <1>5, <1>6 DEF GoesOn
<1> QED BY <1>2, <1>6, <1>7, <1>8, <1>9, <1>10 DEF Told

\* So it is true of all of them.
LEMMA ToldAll ==
  ASSUME signed \in Seq(ToSet(signed)), Committed(signed), journal = DOMAIN signed
  PROVE  \A n \in DOMAIN signed : Told(n)
<1> SUFFICES ASSUME NEW k \in DOMAIN signed, ~Told(k) PROVE FALSE
  OBVIOUS
<1> DEFINE T == {n \in DOMAIN signed : ~Told(n)}
<1>1. DOMAIN signed = 1 .. Len(signed) /\ Len(signed) \in Nat
  OBVIOUS
<1>2. T \subseteq Nat /\ T # {}
  BY <1>1
<1>3. PICK n \in T : \A m \in T : ~ (<<m, n>> \in OpToRel(<, Nat))
  <2> HIDE DEF T
  <2> QED BY <1>2, NatLessThanWellFounded, WFMin, Zenon
<1>4. ASSUME n # 1 PROVE Told(n - 1)
  <2>1. n \in 1 .. Len(signed) /\ n \in Nat
    BY <1>1
  <2>2. PICK m : m = n - 1
    OBVIOUS
  <2>3. m \in DOMAIN signed /\ m \in Nat /\ m < n
    BY <1>1, <1>4, <2>1, <2>2
  <2>4. m \notin T
    <3> SUFFICES ASSUME m \in T PROVE FALSE
      OBVIOUS
    <3> HIDE DEF T
    <3>1. ~ (m < n)
      BY <1>3, <2>1, <2>3, Zenon DEF OpToRel
    <3> QED BY <2>3, <3>1
  <2> QED BY <2>2, <2>3, <2>4
<1>5. Told(n)
  BY <1>4, ToldNext
<1> QED BY <1>5

\* The supervisors start from the files and the tables of the history.
LEMMA InitKeeps ==
  ASSUME Init
  PROVE  SafetyInv
<1>1. PICK history \in Histories :
        LET last == Len(history.past)
            st == IF last = 0 THEN Genesis ELSE history.past[last].state IN
        /\ signed = history.past /\ journal = 1 .. last /\ witness = last
        /\ db = [head |-> last, archive |-> st.archive, attempt |-> st.attempt,
                 generation |-> st.generation, released |-> {}, intents |-> {}]
        /\ keys = {s \in Sets : st.archive[s].life \notin
                                   {"none", "archive_key_erased", "deleted"}}
        /\ staged = history.torn
        /\ promoted = (UNION {ToSet(st.archive[s].objs) : s \in
                         {r \in Sets : st.archive[r].life # "deleted"}}) \ history.torn
        /\ proc = [p \in Supervisors |-> Idle]
  BY DEF Init
<1>2. signed \in Seq(ToSet(signed)) /\ Committed(signed)
  BY <1>1, HistoriesAssumption
<1>3. PICK last, st : last = Len(signed) /\ st = StateOf(last)
  OBVIOUS
<1>4. last \in Nat /\ DOMAIN signed = 1 .. last /\ journal = DOMAIN signed /\ witness = last
  BY <1>1, <1>2, <1>3
<1>5. st = (IF last = 0 THEN Genesis ELSE signed[last].state)
  BY <1>3 DEF StateOf
<1>6. \A n \in DOMAIN signed : Told(n)
  BY <1>2, <1>4, ToldAll
<1>7. /\ db = [head |-> last, archive |-> st.archive, attempt |-> st.attempt,
               generation |-> st.generation, released |-> {}, intents |-> {}]
      /\ keys = {s \in Sets : st.archive[s].life \notin
                                 {"none", "archive_key_erased", "deleted"}}
      /\ promoted = (UNION {ToSet(st.archive[s].objs) : s \in
                       {r \in Sets : st.archive[r].life # "deleted"}}) \ staged
      /\ proc = [p \in Supervisors |-> Idle]
  BY <1>1, <1>3, <1>5
<1>8. /\ db.head = last /\ db.archive = st.archive /\ db.attempt = st.attempt
      /\ db.generation = st.generation /\ db.released = {} /\ db.intents = {}
      /\ db = [head |-> db.head, archive |-> db.archive, attempt |-> db.attempt,
               generation |-> db.generation, released |-> db.released, intents |-> db.intents]
  BY <1>7
<1>9. SignedInv
  <2>1. {witness, db.head} \subseteq journal \cup {0}
    BY <1>4, <1>8
  <2>2. ASSUME NEW e \in DOMAIN signed
        PROVE  Legal(e) /\ Sourced(e) /\ signed[e].prev \in journal \cup {0}
    <3>1. Legal(e) /\ Sourced(e)
      BY <1>6 DEF Told
    <3>2. signed[e].prev \in 0 .. e - 1
      BY <3>1 DEF Legal
    <3> QED BY <1>4, <3>1, <3>2
  <2>3. ASSUME NEW e \in DOMAIN signed, NEW f \in DOMAIN signed, NEW s \in Sets,
               Starts(e, s), Starts(f, s)
        PROVE  e = f
    <3>1. ASSUME NEW i \in DOMAIN signed, NEW j \in DOMAIN signed, Starts(i, s), Starts(j, s)
          PROVE  ~(i < j)
      <4>1. \A m \in 1 .. j - 1 :
               signed[m].event = "BackupSetStarted" => signed[m].set # signed[j].set
        BY <1>2, <3>1 DEF Committed, Starts
      <4> QED BY <1>4, <3>1, <4>1 DEF Starts
    <3>2. ~(e < f) /\ ~(f < e)
      BY <2>3, <3>1
    <3> QED BY <1>4, <3>2
  <2> QED BY <1>2, <1>4, <2>1, <2>2, <2>3 DEF SignedInv
<1>10. last # 0 => last \in DOMAIN signed /\ st = signed[last].state /\ Told(last)
  BY <1>4, <1>5, <1>6
<1>11. last = 0 => /\ \A s \in Sets : st.archive[s].life = "none" /\ st.archive[s].objs = <<>>
                   /\ st.attempt.stage = "none"
  <2> SUFFICES ASSUME last = 0
               PROVE  /\ \A s \in Sets : st.archive[s].life = "none" /\ st.archive[s].objs = <<>>
                      /\ st.attempt.stage = "none"
    OBVIOUS
  <2>1. st = Genesis
    BY <1>5
  <2>2. \A s \in Sets : st.archive[s] = NoSet
    BY <2>1, GenesisIs
  <2>3. st.attempt.stage = "none"
    BY <2>1 DEF Genesis, NoAttempt
  <2> QED BY <2>2, <2>3 DEF NoSet
<1>12. IsState(st) /\ Held(st)
  <2>1. last \in DOMAIN signed \cup {0}
    BY <1>10
  <2>2. IsState(st)
    BY <1>3, <1>9, <2>1, HeadIs
  <2>3. Held(st)
    BY <1>10, <1>11 DEF Told, Held
  <2> QED BY <2>2, <2>3
<1>13. ToSet(<<>>) = {}
  BY DEF ToSet
<1>14. ASSUME NEW s \in Sets, NEW o \in ToSet(st.archive[s].objs)
       PROVE  o \in journal /\ Checkpoint(o) /\ signed[o].set = s
  <2>1. last # 0
    BY <1>11, <1>13, <1>14
  <2>2. o \in 1 .. last /\ Checkpoint(o) /\ signed[o].set = s
    BY <1>10, <1>14, <2>1 DEF Told
  <2> QED BY <1>4, <2>2
<1>15. TablesInv
  <2>1. IsDb
    BY <1>8, <1>12 DEF IsDb, IsState
  <2>2. TablesAreSigned
    BY <1>3, <1>8 DEF TablesAreSigned
  <2>3. RestoreIsHeld
    BY <1>8, <1>12 DEF RestoreIsHeld, Held
  <2>4. ASSUME NEW s \in Sets PROVE Stored(s)
    <3>1. ASSUME NEW o \in ToSet(st.archive[s].objs), st.archive[s].life # "deleted"
          PROVE  o \in staged \cup promoted
      <4>1. PICK G : G = {ToSet(st.archive[r].objs) : r \in {q \in Sets : st.archive[q].life # "deleted"}}
        OBVIOUS
      <4>2. promoted = (UNION G) \ staged
        BY <1>7, <4>1
      <4>3. ToSet(st.archive[s].objs) \in G
        BY <3>1, <4>1
      <4>4. o \in UNION G
        BY <3>1, <4>3
      <4> QED BY <4>2, <4>4
    <3> QED BY <1>8, <1>14, <3>1 DEF Stored, Reserved, Gone
  <2> QED BY <1>8, <2>1, <2>2, <2>3, <2>4 DEF TablesInv
<1>16. KeysInv
  <2>1. ASSUME NEW e \in journal, NEW s \in Sets, signed[e].state.archive[s].life # "none"
        PROVE  s \in keys \/ KeyErased(s)
    <3>1. e \in 1 .. last /\ last # 0
      BY <1>4
    <3>2. st.archive[s].life # "none"
      BY <1>10, <2>1, <3>1 DEF Told
    <3>3. CASE st.archive[s].life \in {"archive_key_erased", "deleted"}
      <4>1. st.archive[s].erasing = TRUE
        BY <1>10, <3>1, <3>3 DEF Told, Erased
      <4>2. Sourced(last) /\ journal \cup {last} = journal
        BY <1>4, <1>10, <3>1 DEF Told
      <4> QED BY <1>10, <3>1, <4>1, <4>2 DEF Sourced, KeyErased
    <3>4. CASE st.archive[s].life \notin {"archive_key_erased", "deleted"}
      BY <1>7, <3>2, <3>4
    <3> QED BY <3>3, <3>4
  <2> QED BY <1>7, <2>1 DEF KeysInv
<1>17. ProcInv
  <2>1. \A p \in Supervisors : proc[p] = Idle
    BY <1>7
  <2>2. \A p : KnowsEntry(Idle) /\ KnowsKeys(p, Idle) /\ KnowsFiles(Idle) /\ \A y : Apart(Idle, y)
    BY IdleLight, LightKnows
  <2> QED BY <1>7, <2>1, <2>2 DEF ProcInv
<1> QED BY <1>9, <1>15, <1>16, <1>17 DEF SafetyInv

-----------------------------------------------------------------------------
(* Every step                                                              *)

\* Whatever a supervisor does, the invariant stays.
LEMMA NextKeeps ==
  ASSUME SafetyInv, [Next]_vars
  PROVE  SafetyInv'
<1>1. CASE UNCHANGED vars
  BY <1>1, StutterKeeps
<1>2. ASSUME NEW p \in Supervisors, BackupCommand(p) PROVE SafetyInv'
  BY <1>2, BackupSigns, DeletionSigns, BackupPrepareDeletionKeeps, BackupEraseKeyKeeps,
     EraseKeyFileKeeps, BackupFinalizeDeleteKeeps, ListPreparedKeeps, DeleteObjectKeeps
     DEF BackupCommand
<1>3. ASSUME NEW p \in Supervisors, Transition(p) PROVE SafetyInv'
  BY <1>3, AcquireKeeps, FailBeforeJournalKeeps, JournalKeeps, AdvanceKeeps, CommitKeeps
     DEF Transition
<1>4. ASSUME NEW p \in Supervisors, AppendObject(p) PROVE SafetyInv'
  BY <1>4, ReserveKeeps, StageKeeps, GiveUpKeeps, AbandonKeeps, RemoveOrphanKeeps,
     PromoteCreateKeeps, PromoteCopyKeeps, PromoteFinishKeeps DEF AppendObject
<1>5. ASSUME NEW p \in Supervisors, Recovery(p) PROVE SafetyInv'
  BY <1>5, ReconcileKeeps, CancelPendingKeeps, CleanStagingKeeps, ReadReceiptKeeps, ReplayKeeps
     DEF Recovery
<1>6. ASSUME NEW p \in Supervisors, Restore(p) PROVE SafetyInv'
  BY <1>6, RestorePrepareKeeps, MakeTargetKeeps, RestoreSigns, RestoreMaterializeKeeps,
     ListRestoreKeeps, CreateInputKeeps, RestoreObjectsKeeps, RestoreActivateKeeps,
     EnsureInitializedKeeps, ActivateTargetKeeps, ReleaseHoldKeeps, RestoreRefuseKeeps,
     MarkRefusedKeeps, ResumeSourceKeeps DEF Restore
<1>7. ASSUME NEW p \in Supervisors, Crash(p) PROVE SafetyInv'
  BY <1>7, CrashKeeps
<1> QED BY <1>1, <1>2, <1>3, <1>4, <1>5, <1>6, <1>7 DEF Next

-----------------------------------------------------------------------------
(* Theorems                                                                *)

\* Whatever supervisors race, stop and reconcile, the signed entries, the tables, the keys and
\* the supervisors' memories fit together as SafetyInv says.
THEOREM AuthorityInOrder == Spec => []SafetyInv
<1>1. Init => SafetyInv
  BY InitKeeps
<1>2. SafetyInv /\ [Next]_vars => SafetyInv'
  BY NextKeeps
<1> QED BY <1>1, <1>2, PTL DEF Spec

\* Wherever the supervisors stop, the entry that the durable witness names and all that it
\* follows are files of the journal, and so is the head of the tables.
THEOREM WitnessReplayable == Spec => []WitnessIsJournalled
<1>1. SafetyInv => WitnessIsJournalled
  BY DEF SafetyInv, SignedInv, WitnessIsJournalled
<1> QED BY <1>1, AuthorityInOrder, PTL

\* The guarded tables are at every moment those of one signed history, even when supervisors
\* forked the witness.
THEOREM TablesFollowSigned == Spec => []TablesAreSigned
<1>1. SafetyInv => TablesAreSigned
  BY DEF SafetyInv, TablesInv
<1> QED BY <1>1, AuthorityInOrder, PTL

\* No clean-up of a cancelled, failed or reconciled append takes the file of a committed
\* checkpoint.
THEOREM CheckpointsKept == Spec => []CheckpointsAreStored
<1>1. SafetyInv => CheckpointsAreStored
  BY DEF SafetyInv, TablesInv, Stored, Gone, CheckpointsAreStored
<1> QED BY <1>1, AuthorityInOrder, PTL

\* Until the attempt of the tables has released its hold, the hold is on the set it restores,
\* which has its base and is neither sealed nor deleted.
THEOREM RestoresHeld == Spec => []RestoreIsHeld
<1>1. SafetyInv => RestoreIsHeld
  BY DEF SafetyInv, TablesInv
<1> QED BY <1>1, AuthorityInOrder, PTL

\* A set that the witness knows has its archive key until an erasure of that key was
\* journalled, so a start that fails discards no key a witnessed state needs
\* (FailBeforeJournal).  It does not say that the tables hold the preparation by then.
KeyErasureIsJournalled ==
    \A s \in Sets :
        \/ StateOf(witness).archive[s].life = "none"
        \/ s \in keys
        \/ \E e \in journal : signed[e].event = "PreparedArchiveKeyErasure"
                             /\ signed[e].set = s

\* A set that the witness knows has its archive key until an erasure of it was journalled.
THEOREM KeysErasedOnRecord == Spec => []KeyErasureIsJournalled
<1>1. ASSUME SafetyInv, NEW s \in Sets
      PROVE  \/ StateOf(witness).archive[s].life = "none" \/ s \in keys
             \/ \E e \in journal : signed[e].event = "PreparedArchiveKeyErasure"
                                   /\ signed[e].set = s
  <2>1. CASE witness = 0
    <3>1. StateOf(witness).archive[s] = NoSet
      BY <2>1, GenesisIs DEF StateOf
    <3> QED BY <3>1 DEF NoSet
  <2>2. CASE witness # 0
    <3>1. witness \in journal /\ StateOf(witness) = signed[witness].state
      BY <1>1, <2>2, WitnessIs DEF StateOf
    <3> QED BY <1>1, <3>1 DEF SafetyInv, KeysInv, KeyErased, Erases
  <2> QED BY <2>1, <2>2
<1>2. SafetyInv => KeyErasureIsJournalled
  BY <1>1 DEF KeyErasureIsJournalled
<1> QED BY <1>2, AuthorityInOrder, PTL
=============================================================================
