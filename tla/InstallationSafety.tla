------------------------- MODULE InstallationSafety -------------------------
(***************************************************************************)
(* The installation safety authority of vestrace: the signed journal, the  *)
(* durable witness and the guarded tables that every backup and restore    *)
(* command of the safety supervisor moves together.                        *)
(*                                                                         *)
(* A command opens the witness (and keeps the head it read in memory),     *)
(* signs the entry that follows that head, takes the installation permit,  *)
(* appends the entry to the journal, advances the witness and only then    *)
(* calls the guarded SQL function, whose checks decide whether the tables  *)
(* follow.  Several supervisors may run at once, and each may stop between *)
(* any two of these steps; reconcile replays the entry the durable witness *)
(* names.                                                                  *)
(*                                                                         *)
(* An entry is named by the position at which it was signed (every entry   *)
(* carries a fresh request id, so no two are equal); the digest chain is   *)
(* the prev field, and 0 stands for the genesis head.  The object that a   *)
(* checkpoint entry adds to a set has the name of that entry, and the head *)
(* of an archive is the sequence of its objects.                           *)
(***************************************************************************)
EXTENDS Integers, Sequences, FiniteSets, SequencesExt

CONSTANTS
  Supervisors,  \* processes of the safety-supervisor command
  Sets,         \* backup sets
  Holds,        \* restore holds
  Histories,    \* what had been signed and committed before they start, and
                \* the bound on what they sign: records [past, more, torn]
  None

VARIABLES
  signed,    \* every entry ever signed, in the order of signing
  limit,     \* the bound on their number
  journal,   \* the entries whose file is in the journal directory
  witness,   \* the entry of the durable witness record
  db,        \* the guarded tables
  keys,      \* the sets whose archive key envelope exists
  staged,    \* the objects whose frame is in the staging directory
  partial,   \* the objects whose immutable file is created, not yet copied
  promoted,  \* the objects whose immutable file is complete
  target,    \* the restore target directory
  refused,   \* the marker of a destroyed target exists
  source,    \* the source cluster: running, frozen or resumed
  permit,    \* the holder of the exclusive installation permit
  proc       \* the supervisors' memory

authority == <<signed, limit, journal, witness, db>>
archiveFiles == <<keys, staged, partial, promoted>>
restoreFiles == <<target, refused, source>>
vars == <<authority, archiveFiles, restoreFiles, permit, proc>>

-----------------------------------------------------------------------------
(* The signed state: WitnessStateV1 with its archive part.                 *)

Lifecycles == {"none", "streaming", "sealing", "sealed", "deletion_prepared",
               "archive_key_erased", "deleted"}

Stages == {"none", "prepared", "frozen", "initialized", "resumed"}

NoSet == [life |-> "none", objs |-> <<>>, prep |-> None, erasing |-> FALSE,
          holds |-> {}]

NoAttempt == [stage |-> "none", set |-> None, hold |-> None]

Genesis == [archive |-> [s \in Sets |-> NoSet], attempt |-> NoAttempt,
            planned |-> FALSE, activating |-> FALSE, generation |-> "source"]

StateOf(i) == IF i = 0 THEN Genesis ELSE signed[i].state

(* The archive after one event.  A deletion preparation binds the digest   *)
(* of the archive it was prepared from: the archive itself.                *)
NextArchive(archive, event, s, h, id, prep) ==
  CASE event = "BackupSetStarted" ->
         [archive EXCEPT ![s] = [NoSet EXCEPT !.life = "streaming"]]
    [] event = "ArchiveCheckpointCommitted" ->
         [archive EXCEPT ![s].objs = Append(@, id)]
    [] event = "ArchiveRestoreHoldAcquired" ->
         [archive EXCEPT ![s].holds = @ \cup {h}]
    [] event = "ArchiveSealingStarted" -> [archive EXCEPT ![s].life = "sealing"]
    [] event = "ArchiveSealed" -> [archive EXCEPT ![s].life = "sealed"]
    [] event = "ManagedBackupDeletionPrepared" ->
         [archive EXCEPT ![s].life = "deletion_prepared", ![s].prep = prep]
    [] event = "PreparedArchiveKeyErasure" -> [archive EXCEPT ![s].erasing = TRUE]
    [] event = "ArchiveKeyErased" ->
         [archive EXCEPT ![s].life = "archive_key_erased"]
    [] event = "ManagedBackupDeleted" -> [archive EXCEPT ![s].life = "deleted"]
    [] OTHER -> archive

(* The restore attempt after one event.  RestoreTerminalRecorded has two   *)
(* reasons here: TargetInitialized and SourceResumePrepared.               *)
NextAttempt(attempt, event, s, h) ==
  CASE event = "RestoreAttemptPrepared" ->
         [stage |-> "prepared", set |-> s, hold |-> h]
    [] event = "SourceFreezeRecorded" -> [attempt EXCEPT !.stage = "frozen"]
    [] event = "TargetInitialized" -> [attempt EXCEPT !.stage = "initialized"]
    [] event = "SourceResumePrepared" -> [attempt EXCEPT !.stage = "resumed"]
    [] OTHER -> attempt

NextState(st, event, s, h, id, prep) ==
  [archive |-> NextArchive(st.archive, event, s, h, id, prep),
   attempt |-> NextAttempt(st.attempt, event, s, h),
   planned |-> st.planned \/ event = "TargetActivationPlanned",
   activating |-> st.activating \/ event = "TargetActivating",
   generation |-> IF event = "GenerationRegistered" THEN "target"
                  ELSE st.generation]

(* What a head accepts: the domain's transition functions and              *)
(* WitnessHead::accept_signed.  Only the tables ever release a hold, so in *)
(* a signed state every hold is an active one.                             *)
Accepts(st, event, s, h, prep) ==
  LET set == st.archive[s] IN
  CASE event = "InstallationInitialized" -> TRUE
    [] event = "BackupSetStarted" -> set.life = "none"
    [] event = "ArchiveCheckpointCommitted" -> set.life = "streaming"
    [] event = "ArchiveRestoreHoldAcquired" ->
         set.life = "streaming" /\ set.objs # <<>> /\ h \notin set.holds
    [] event = "ArchiveSealingStarted" ->
         set.life = "streaming" /\ set.objs # <<>> /\ set.holds = {}
    [] event = "ArchiveSealed" -> set.life = "sealing" /\ set.holds = {}
    [] event = "ManagedBackupDeletionPrepared" ->
         set.life = "sealed" /\ set.holds = {}
    [] event = "PreparedArchiveKeyErasure" ->
         set.life = "deletion_prepared" /\ set.prep = prep /\ ~set.erasing
    [] event = "ArchiveKeyErased" ->
         set.life = "deletion_prepared" /\ set.erasing
    [] event = "ManagedBackupDeleted" -> set.life = "archive_key_erased"
    [] event = "RestoreAttemptPrepared" -> st.attempt.stage = "none"
    [] event = "SourceFreezeRecorded" -> st.attempt.stage = "prepared"
    [] event = "TargetActivationPlanned" ->
         st.attempt.stage = "frozen" /\ ~st.planned
    [] event = "TargetInitialized" -> st.attempt.stage = "frozen" /\ st.planned
    [] event = "SourceResumePrepared" -> st.attempt.stage = "frozen"
    [] event = "TargetActivating" ->
         st.attempt.stage = "initialized" /\ st.planned /\ ~st.activating
    [] event = "GenerationRegistered" ->
         st.activating /\ st.generation = "source"

Events == {"InstallationInitialized", "BackupSetStarted",
           "ArchiveCheckpointCommitted", "ArchiveRestoreHoldAcquired",
           "ArchiveSealingStarted", "ArchiveSealed",
           "ManagedBackupDeletionPrepared", "PreparedArchiveKeyErasure",
           "ArchiveKeyErased", "ManagedBackupDeleted",
           "RestoreAttemptPrepared", "SourceFreezeRecorded",
           "TargetActivationPlanned", "TargetInitialized",
           "SourceResumePrepared", "TargetActivating", "GenerationRegistered"}

Checkpoint(e) == signed[e].event = "ArchiveCheckpointCommitted"

-----------------------------------------------------------------------------
(* The guarded SQL functions.                                              *)

ActiveHolds(s) == db.archive[s].holds \ db.released

Intents(s) == {i \in db.intents : i.set = s}

MutRestoreReady(s, h) ==
  db.archive[s].life = "streaming" /\ db.archive[s].objs # <<>>

(* A restore attempt names a live base-complete set and a hold on it.      *)
RestoreReady(s, h) ==
  /\ db.archive[s].life = "streaming" /\ db.archive[s].objs # <<>>
  /\ h \in ActiveHolds(s)

(* The checks each guarded function makes on its own tables.               *)
TablesAllow(event, s, h, id, prep) ==
  LET set == db.archive[s] IN
  CASE event = "ArchiveCheckpointCommitted" ->
         [id |-> id, set |-> s, expected |-> set.objs] \in db.intents
    [] event = "ArchiveRestoreHoldAcquired" ->
         /\ set.life = "streaming" /\ set.objs # <<>>
         /\ \A r \in Sets : h \notin db.archive[r].holds
    [] event = "ArchiveSealingStarted" ->
         set.life = "streaming" /\ ActiveHolds(s) = {} /\ set.objs # <<>>
    [] event = "ArchiveSealed" ->
         set.life = "sealing" /\ ActiveHolds(s) = {} /\ Intents(s) = {}
    [] event = "ManagedBackupDeletionPrepared" ->
         set.life = "sealed" /\ ActiveHolds(s) = {}
    [] event = "PreparedArchiveKeyErasure" ->
         set.life = "deletion_prepared" /\ set.prep = prep
    [] event = "ArchiveKeyErased" ->
         set.life = "deletion_prepared" /\ set.prep = prep /\ set.erasing
    [] event = "ManagedBackupDeleted" -> set.life = "archive_key_erased"
    [] event = "RestoreAttemptPrepared" ->
         db.attempt.stage = "none" /\ RestoreReady(s, h)
    [] event = "SourceFreezeRecorded" -> db.attempt.stage = "prepared"
    [] event = "TargetInitialized" ->
         db.attempt.stage \in {"frozen", "initialized"}
    [] event = "SourceResumePrepared" ->
         db.attempt.stage \in {"frozen", "resumed"}
    [] OTHER -> TRUE

MutFollows(e) ==
  (db.head = 0) <=> (signed[e].event = "InstallationInitialized")

(* The pinned authority: the entry is the exact successor of the head the  *)
(* tables hold, and only initialization finds no head at all.              *)
Follows(e) ==
  /\ signed[e].prev = db.head
  /\ (db.head = 0) <=> (signed[e].event = "InstallationInitialized")

SqlAccepts(e, prep) ==
  LET x == signed[e] IN
  Follows(e) /\ TablesAllow(x.event, x.set, x.hold, e, prep)

SqlCommit(e, prep) ==
  LET x == signed[e] IN
  db' = [db EXCEPT
           !.head = e,
           !.archive = NextArchive(@, x.event, x.set, x.hold, e, prep),
           !.attempt = NextAttempt(@, x.event, x.set, x.hold),
           !.generation = IF x.event = "GenerationRegistered" THEN "target"
                          ELSE @,
           !.intents = {i \in @ : i.id # e}]

-----------------------------------------------------------------------------
(* The supervisors.                                                        *)

Idle == [pc |-> "idle", set |-> None, hold |-> None, prep |-> None,
         head |-> 0, entry |-> 0, gone |-> {}]

Goto(p, pc) == proc' = [proc EXCEPT ![p].pc = pc]
Stop(p) == proc' = [proc EXCEPT ![p] = Idle]
Free == permit = None

(* Sign the successor of the head a supervisor holds in memory.  A command *)
(* whose transition the head refuses ends with an error: Crash.            *)
Sign(p, head, event, s, h, prep) ==
  /\ Len(signed) < limit
  /\ Accepts(StateOf(head), event, s, h, prep)
  /\ LET id == Len(signed) + 1 IN
     /\ signed' = Append(signed,
          [prev |-> head, event |-> event, set |-> s, hold |-> h,
           state |-> NextState(StateOf(head), event, s, h, id, prep)])
     /\ proc' = [proc EXCEPT ![p] =
          [pc |-> "signed", set |-> s, hold |-> h, prep |-> prep,
           head |-> head, entry |-> id, gone |-> {}]]
  /\ UNCHANGED <<limit, journal, witness, db, permit>>

(* A command that opens the witness, signs and runs one transition.        *)
Command(p, event, s, h, prep) ==
  /\ proc[p].pc = "idle"
  /\ Sign(p, witness, event, s, h, prep)
  /\ UNCHANGED <<archiveFiles, restoreFiles>>

Initialize(p) ==
  \E s \in Sets :
    witness = 0 /\ Command(p, "InstallationInitialized", s, None, None)

(* A set id is a fresh UUID.                                               *)
BackupBegin(p) ==
  \E s \in Sets :
    /\ \A i \in DOMAIN signed :
         signed[i].event = "BackupSetStarted" => signed[i].set # s
    /\ Command(p, "BackupSetStarted", s, None, None)

(* Sealing the ciphertext needs the set's key before anything is signed.   *)
BackupAppend(p) ==
  \E s \in keys : Command(p, "ArchiveCheckpointCommitted", s, None, None)

BackupAcquireHold(p) ==
  \E s \in Sets, h \in Holds :
    Command(p, "ArchiveRestoreHoldAcquired", s, h, None)

BackupBeginSealing(p) ==
  \E s \in Sets : Command(p, "ArchiveSealingStarted", s, None, None)

BackupCommitSealed(p) ==
  \E s \in Sets : Command(p, "ArchiveSealed", s, None, None)

(* prepare-deletion and erase-key read the witness for the digest, and      *)
(* their transition then opens it again.                                   *)
BackupPrepareDeletion(p) ==
  \E s \in Sets :
    LET archive == StateOf(witness).archive IN
    /\ proc[p].pc = "idle"
    /\ archive[s].life = "sealed"
    /\ proc' = [proc EXCEPT ![p] =
                  [Idle EXCEPT !.pc = "prepare", !.set = s, !.prep = archive]]
    /\ UNCHANGED <<authority, archiveFiles, restoreFiles, permit>>

SignDeletion(p) ==
  /\ proc[p].pc = "prepare"
  /\ Sign(p, witness, "ManagedBackupDeletionPrepared", proc[p].set, None,
          proc[p].prep)
  /\ UNCHANGED <<archiveFiles, restoreFiles>>

(* An erasure intent that the witness already holds is not signed again.   *)
BackupEraseKey(p) ==
  \E s \in Sets :
    LET set == StateOf(witness).archive[s] IN
    /\ proc[p].pc = "idle"
    /\ set.life = "deletion_prepared"
    /\ proc' = [proc EXCEPT ![p] =
                  [Idle EXCEPT !.pc = IF set.erasing THEN "erase" ELSE "intend",
                               !.set = s, !.prep = set.prep]]
    /\ UNCHANGED <<authority, archiveFiles, restoreFiles, permit>>

SignErasure(p) ==
  /\ proc[p].pc = "intend"
  /\ Sign(p, witness, "PreparedArchiveKeyErasure", proc[p].set, None,
          proc[p].prep)
  /\ UNCHANGED <<archiveFiles, restoreFiles>>

EraseKeyFile(p) ==
  /\ proc[p].pc = "erase"
  /\ keys' = keys \ {proc[p].set}
  /\ Goto(p, "record")
  /\ UNCHANGED <<authority, staged, partial, promoted, restoreFiles, permit>>

RecordKeyErased(p) ==
  /\ proc[p].pc = "record"
  /\ Sign(p, witness, "ArchiveKeyErased", proc[p].set, None, proc[p].prep)
  /\ UNCHANGED <<archiveFiles, restoreFiles>>

(* finalize-delete: list under the permit, remove the files one by one.    *)
BackupFinalizeDelete(p) ==
  \E s \in Sets :
    LET set == StateOf(witness).archive[s] IN
    /\ proc[p].pc = "idle"
    /\ set.life = "archive_key_erased"
    /\ proc' = [proc EXCEPT ![p] =
                  [Idle EXCEPT !.pc = "list", !.set = s, !.prep = set.prep]]
    /\ UNCHANGED <<authority, archiveFiles, restoreFiles, permit>>

ListPrepared(p) ==
  LET set == db.archive[proc[p].set] IN
  /\ proc[p].pc = "list" /\ Free
  /\ IF set.life = "archive_key_erased" /\ set.prep = proc[p].prep
     THEN proc' = [proc EXCEPT ![p].pc = "delete",
                               ![p].gone = ToSet(set.objs)]
     ELSE Stop(p)
  /\ UNCHANGED <<authority, archiveFiles, restoreFiles, permit>>

(* A member whose file fails verification stops the command.               *)
DeleteObject(p) ==
  /\ proc[p].pc = "delete"
  /\ \E o \in proc[p].gone :
       /\ \A other \in proc[p].gone : o <= other
       /\ IF o \in partial
          THEN Stop(p) /\ UNCHANGED promoted
          ELSE /\ promoted' = promoted \ {o}
               /\ proc' = [proc EXCEPT ![p].gone = @ \ {o}]
  /\ UNCHANGED <<authority, keys, staged, partial, restoreFiles, permit>>

RecordDeleted(p) ==
  /\ proc[p].pc = "delete" /\ proc[p].gone = {}
  /\ Sign(p, witness, "ManagedBackupDeleted", proc[p].set, None, None)
  /\ UNCHANGED <<archiveFiles, restoreFiles>>

-----------------------------------------------------------------------------
(* One transition, from the permit to the tables.                          *)

(* Everything but a checkpoint runs under the permit from here on; a       *)
(* backup start creates the set's key first.                               *)
Acquire(p) ==
  /\ proc[p].pc = "signed" /\ ~Checkpoint(proc[p].entry) /\ Free
  /\ permit' = p
  /\ keys' = IF signed[proc[p].entry].event = "BackupSetStarted"
             THEN keys \cup {proc[p].set} ELSE keys
  /\ Goto(p, "permitted")
  /\ UNCHANGED <<authority, staged, partial, promoted, restoreFiles>>

(* An error before the journal: a backup start discards its key.           *)
FailBeforeJournal(p) ==
  /\ proc[p].pc = "permitted"
  /\ permit' = None
  /\ keys' = IF signed[proc[p].entry].event = "BackupSetStarted"
             THEN keys \ {proc[p].set} ELSE keys
  /\ Stop(p)
  /\ UNCHANGED <<authority, staged, partial, promoted, restoreFiles>>

Journal(p) ==
  /\ proc[p].pc \in {"permitted", "staged"}
  /\ journal' = journal \cup {proc[p].entry}
  /\ Goto(p, "journalled")
  /\ UNCHANGED <<signed, limit, witness, db, archiveFiles, restoreFiles,
                 permit>>

MutAdvance(p) ==
  /\ proc[p].pc \in {"permitted", "journalled"}
  /\ witness' = proc[p].entry
  /\ proc' = [proc EXCEPT ![p].pc = "advanced", ![p].head = proc[p].entry]
  /\ UNCHANGED <<signed, limit, journal, db, archiveFiles, restoreFiles,
                 permit>>

(* compare_and_advance compares with the head this process opened, which   *)
(* no other process can have changed: it always replaces the record.       *)
Advance(p) ==
  /\ proc[p].pc = "journalled"
  /\ witness' = proc[p].entry
  /\ proc' = [proc EXCEPT ![p].pc = "advanced", ![p].head = proc[p].entry]
  /\ UNCHANGED <<signed, limit, journal, db, archiveFiles, restoreFiles,
                 permit>>

(* What a command still has to do once the tables have followed.           *)
AfterCommit(event) ==
  CASE event = "ArchiveCheckpointCommitted" -> "promote"
    [] event = "PreparedArchiveKeyErasure" -> "erase"
    [] event = "RestoreAttemptPrepared" -> "target"
    [] event \in {"TargetInitialized", "TargetActivating"} -> "activate"
    [] event \in {"GenerationRegistered", "SourceResumePrepared"} -> "release"
    [] OTHER -> "idle"

(* The guarded call and the commit of the permit's transaction.  A         *)
(* checkpoint takes the permit only now.                                   *)
Commit(p) ==
  LET e == proc[p].entry
      next == AfterCommit(signed[e].event) IN
  /\ proc[p].pc = "advanced"
  /\ IF Checkpoint(e) THEN Free ELSE permit = p
  /\ permit' = None
  /\ IF SqlAccepts(e, proc[p].prep)
     THEN /\ SqlCommit(e, proc[p].prep)
          /\ IF next = "idle" THEN Stop(p) ELSE Goto(p, next)
     ELSE Stop(p) /\ UNCHANGED db
  /\ UNCHANGED <<signed, limit, journal, witness, archiveFiles,
                 restoreFiles>>

(* A supervisor that stops, or meets an I/O error, between two steps.      *)
Crash(p) ==
  /\ proc[p].pc # "idle"
  /\ Stop(p)
  /\ permit' = IF permit = p THEN None ELSE permit
  /\ UNCHANGED <<authority, archiveFiles, restoreFiles>>

-----------------------------------------------------------------------------
(* Appending an object: reserve in the tables, stage the frame, and only   *)
(* then journal; the permit is not held across the host's file work.       *)

Expected(p) == StateOf(proc[p].head).archive[proc[p].set].objs

Intent(p) == [id |-> proc[p].entry, set |-> proc[p].set,
              expected |-> Expected(p)]

(* One pending intent per ordinal of a set.                                *)
Reserve(p) ==
  /\ proc[p].pc = "signed" /\ Checkpoint(proc[p].entry) /\ Free
  /\ LET set == db.archive[proc[p].set] IN
     IF /\ set.life = "streaming" /\ set.objs = Expected(p)
        /\ \A i \in Intents(proc[p].set) :
             Len(i.expected) # Len(Expected(p))
     THEN db' = [db EXCEPT !.intents = @ \cup {Intent(p)}]
          /\ Goto(p, "reserved")
     ELSE Stop(p) /\ UNCHANGED db
  /\ UNCHANGED <<signed, limit, journal, witness, archiveFiles,
                 restoreFiles, permit>>

Stage(p) ==
  /\ proc[p].pc = "reserved"
  /\ staged' = staged \cup {proc[p].entry}
  /\ Goto(p, "staged")
  /\ UNCHANGED <<authority, keys, partial, promoted, restoreFiles, permit>>

(* A failure before the journal gives the reservation back.                *)
GiveUp(p) ==
  /\ proc[p].pc \in {"reserved", "staged"}
  /\ Goto(p, "abandon")
  /\ UNCHANGED <<authority, archiveFiles, restoreFiles, permit>>

MayAbandon(i) ==
  /\ i \in db.intents
  /\ db.archive[i.set].life = "streaming"
  /\ db.archive[i.set].objs = i.expected

Abandon(p) ==
  /\ proc[p].pc = "abandon" /\ Free
  /\ IF MayAbandon(Intent(p))
     THEN /\ db' = [db EXCEPT !.intents = @ \ {Intent(p)}]
          /\ Goto(p, "orphan")
     ELSE Stop(p) /\ UNCHANGED db
  /\ UNCHANGED <<signed, limit, journal, witness, archiveFiles,
                 restoreFiles, permit>>

RemoveOrphan(p) ==
  /\ proc[p].pc = "orphan"
  /\ staged' = staged \ {proc[p].entry}
  /\ Stop(p)
  /\ UNCHANGED <<authority, keys, partial, promoted, restoreFiles, permit>>

(* The immutable file is created anew, filled, and then the staged frame   *)
(* goes: an existing file refuses the promotion.                           *)
PromoteCreate(p) ==
  LET o == proc[p].entry IN
  /\ proc[p].pc = "promote"
  /\ IF o \in staged /\ o \notin partial \cup promoted
     THEN partial' = partial \cup {o} /\ Goto(p, "copy")
     ELSE Stop(p) /\ UNCHANGED partial
  /\ UNCHANGED <<authority, keys, staged, promoted, restoreFiles, permit>>

PromoteCopy(p) ==
  LET o == proc[p].entry IN
  /\ proc[p].pc = "copy"
  /\ partial' = partial \ {o}
  /\ promoted' = promoted \cup {o}
  /\ Goto(p, "unstage")
  /\ UNCHANGED <<authority, keys, staged, restoreFiles, permit>>

PromoteFinish(p) ==
  /\ proc[p].pc = "unstage"
  /\ staged' = staged \ {proc[p].entry}
  /\ Stop(p)
  /\ UNCHANGED <<authority, keys, partial, promoted, restoreFiles, permit>>

-----------------------------------------------------------------------------
(* reconcile.                                                              *)

Reconcile(p) ==
  /\ proc[p].pc = "idle"
  /\ proc' = [proc EXCEPT ![p] = [Idle EXCEPT !.pc = "pending",
                                              !.head = witness]]
  /\ UNCHANGED <<authority, archiveFiles, restoreFiles, permit>>

MutCancelPending(p) ==
  LET archive == StateOf(proc[p].head).archive IN
  /\ proc[p].pc = "pending" /\ Free
  /\ proc' = [proc EXCEPT ![p].pc = "clean",
       ![p].gone = {i.id : i \in {j \in db.intents :
                                   archive[j.set].objs = j.expected}}]
  /\ UNCHANGED <<authority, archiveFiles, restoreFiles, permit>>

(* The pending intents whose expected head is the witnessed one are        *)
(* abandoned together or not at all.                                       *)
CancelPending(p) ==
  LET archive == StateOf(proc[p].head).archive
      cancelled == {i \in db.intents : /\ archive[i.set].life # "none"
                                       /\ archive[i.set].objs = i.expected} IN
  /\ proc[p].pc = "pending" /\ Free
  /\ IF \A i \in cancelled : MayAbandon(i)
     THEN /\ db' = [db EXCEPT !.intents = @ \ cancelled]
          /\ proc' = [proc EXCEPT ![p].pc = "clean",
                                  ![p].gone = {i.id : i \in cancelled}]
     ELSE Stop(p) /\ UNCHANGED db
  /\ UNCHANGED <<signed, limit, journal, witness, archiveFiles,
                 restoreFiles, permit>>

CleanStaging(p) ==
  /\ proc[p].pc = "clean"
  /\ staged' = staged \ proc[p].gone
  /\ proc' = [proc EXCEPT ![p].pc = "read", ![p].gone = {}]
  /\ UNCHANGED <<authority, keys, partial, promoted, restoreFiles, permit>>

(* The durable receipt and its entry are read before the permit is taken.  *)
ReadReceipt(p) ==
  /\ proc[p].pc = "read"
  /\ IF witness # 0 /\ witness \in journal
     THEN proc' = [proc EXCEPT ![p].pc = "replay", ![p].entry = witness,
                               ![p].set = signed[witness].set]
     ELSE Stop(p)
  /\ UNCHANGED <<authority, archiveFiles, restoreFiles, permit>>

(* What a replay needs of the journal and of the host's files.             *)
Replayable(e) ==
  LET x == signed[e] IN
  /\ x.event # "InstallationInitialized" => x.prev \in journal
  /\ x.event = "BackupSetStarted" => x.set \in keys
  /\ Checkpoint(e) => e \in staged

Replay(p) ==
  LET e == proc[p].entry
      prep == signed[e].state.archive[signed[e].set].prep
      then == IF Checkpoint(e) THEN Goto(p, "promote") ELSE Stop(p) IN
  /\ proc[p].pc = "replay" /\ Free
  /\ \/ /\ Replayable(e) /\ SqlAccepts(e, prep)
        /\ SqlCommit(e, prep) /\ then
     \/ /\ Replayable(e) /\ ~SqlAccepts(e, prep) /\ db.head = e
        /\ then /\ UNCHANGED db
     \/ /\ ~(Replayable(e) /\ (SqlAccepts(e, prep) \/ db.head = e))
        /\ Stop(p) /\ UNCHANGED db
  /\ UNCHANGED <<signed, limit, journal, witness, archiveFiles,
                 restoreFiles, permit>>

-----------------------------------------------------------------------------
(* Restore.                                                                *)

(* restore-prepare: an attempt the witness already holds is not signed     *)
(* again; the target directory must not exist.                             *)
RestorePrepare(p) ==
  \E s \in Sets, h \in Holds :
    /\ target = "absent"
    /\ \/ Command(p, "RestoreAttemptPrepared", s, h, None)
       \/ /\ proc[p].pc = "idle"
          /\ StateOf(witness).attempt =
               [stage |-> "prepared", set |-> s, hold |-> h]
          /\ proc' = [proc EXCEPT ![p] = [Idle EXCEPT !.pc = "target"]]
          /\ UNCHANGED <<authority, archiveFiles, restoreFiles, permit>>

MakeTarget(p) ==
  /\ proc[p].pc = "target"
  /\ target' = IF target = "absent" THEN "empty" ELSE target
  /\ Stop(p)
  /\ UNCHANGED <<authority, archiveFiles, refused, source, permit>>

(* The quiescer runs once: its receipt stays in the source directory.      *)
RestoreFreezeSource(p) ==
  LET attempt == StateOf(witness).attempt IN
  /\ proc[p].pc = "idle"
  /\ Sign(p, witness, "SourceFreezeRecorded", attempt.set, attempt.hold, None)
  /\ source' = IF source = "running" THEN "frozen" ELSE source
  /\ UNCHANGED <<archiveFiles, target, refused>>

RestorePlanActivation(p) ==
  LET attempt == StateOf(witness).attempt IN
  Command(p, "TargetActivationPlanned", attempt.set, attempt.hold, None)

RestoreMaterialize(p) ==
  LET st == StateOf(witness) IN
  /\ proc[p].pc = "idle"
  /\ st.attempt.stage = "frozen" /\ st.planned
  /\ target \notin {"absent", "initialized"}
  /\ proc' = [proc EXCEPT ![p] = [Idle EXCEPT !.pc = "manifest",
                                              !.set = st.attempt.set]]
  /\ UNCHANGED <<authority, archiveFiles, restoreFiles, permit>>

(* The manifest needs the frozen attempt and a WAL member after the base   *)
(* that covers the freeze point.                                           *)
ListRestore(p) ==
  LET objs == db.archive[proc[p].set].objs IN
  /\ proc[p].pc = "manifest" /\ Free
  /\ IF db.attempt.stage = "frozen" /\ Len(objs) >= 2
     THEN proc' = [proc EXCEPT ![p].pc = "input", ![p].gone = ToSet(objs)]
     ELSE Stop(p)
  /\ UNCHANGED <<authority, archiveFiles, restoreFiles, permit>>

(* A target whose input directory exists is never filled again.            *)
CreateInput(p) ==
  /\ proc[p].pc = "input"
  /\ IF target = "empty"
     THEN target' = "input" /\ Goto(p, "restore")
     ELSE Stop(p) /\ UNCHANGED target
  /\ UNCHANGED <<authority, archiveFiles, refused, source, permit>>

RestoreObjects(p) ==
  /\ proc[p].pc = "restore"
  /\ target' = IF /\ target = "input" /\ proc[p].set \in keys
                  /\ proc[p].gone \subseteq promoted
               THEN "initialized" ELSE target
  /\ Stop(p)
  /\ UNCHANGED <<authority, archiveFiles, refused, source, permit>>

(* restore-activate goes on from the head it holds in memory.              *)
RestoreActivate(p) ==
  LET attempt == StateOf(witness).attempt IN
  /\ target = "initialized" /\ StateOf(witness).planned
  /\ \/ Command(p, "TargetInitialized", attempt.set, attempt.hold, None)
     \/ /\ proc[p].pc = "idle" /\ attempt.stage = "initialized"
        /\ proc' = [proc EXCEPT ![p] =
             [Idle EXCEPT !.pc = "ensure", !.set = attempt.set,
                          !.hold = attempt.hold, !.head = witness]]
        /\ UNCHANGED <<authority, archiveFiles, restoreFiles, permit>>

(* The replay of the terminal receipt writes the attempt and no head.      *)
EnsureInitialized(p) ==
  /\ proc[p].pc = "ensure" /\ Free
  /\ IF db.attempt.stage \in {"frozen", "initialized"}
     THEN db' = [db EXCEPT !.attempt.stage = "initialized"]
          /\ Goto(p, "activate")
     ELSE Stop(p) /\ UNCHANGED db
  /\ UNCHANGED <<signed, limit, journal, witness, archiveFiles,
                 restoreFiles, permit>>

ActivateTarget(p) ==
  LET head == proc[p].head
      Next1(event) == Sign(p, head, event, proc[p].set, proc[p].hold, None) IN
  /\ proc[p].pc = "activate"
  /\ \/ Next1("TargetActivating")
     \/ Next1("GenerationRegistered")
     \/ /\ StateOf(head).generation = "target"
        /\ Goto(p, "release")
        /\ UNCHANGED <<authority, permit>>
  /\ UNCHANGED <<archiveFiles, restoreFiles>>

(* The terminal receipt that the caller holds must be the one recorded.    *)
ReleaseHold(p) ==
  /\ proc[p].pc = "release" /\ Free
  /\ db' = IF /\ db.attempt.stage \in {"initialized", "resumed"}
              /\ db.attempt.stage = StateOf(proc[p].head).attempt.stage
           THEN [db EXCEPT !.released = @ \cup {db.attempt.hold}]
           ELSE db
  /\ Stop(p)
  /\ UNCHANGED <<signed, limit, journal, witness, archiveFiles,
                 restoreFiles, permit>>

(* restore-refuse destroys the target, then marks it destroyed; both       *)
(* before anything is signed.                                              *)
RestoreRefuse(p) ==
  LET attempt == StateOf(witness).attempt IN
  /\ proc[p].pc = "idle"
  /\ attempt.stage = "frozen"
  /\ refused \/ target # "absent"
  /\ target' = IF refused THEN target ELSE "absent"
  /\ proc' = [proc EXCEPT ![p] =
       [Idle EXCEPT !.pc = IF refused THEN "resume" ELSE "mark",
                    !.set = attempt.set, !.hold = attempt.hold,
                    !.head = witness]]
  /\ UNCHANGED <<authority, archiveFiles, refused, source, permit>>

MarkRefused(p) ==
  /\ proc[p].pc = "mark"
  /\ refused' = TRUE
  /\ IF refused THEN Stop(p) ELSE Goto(p, "resume")
  /\ UNCHANGED <<authority, archiveFiles, target, source, permit>>

ResumeSource(p) ==
  /\ proc[p].pc = "resume"
  /\ Sign(p, proc[p].head, "SourceResumePrepared", proc[p].set, proc[p].hold,
          None)
  /\ source' = "resumed"
  /\ UNCHANGED <<archiveFiles, target, refused>>

-----------------------------------------------------------------------------
(* The specification.                                                      *)

(* What had been signed: each entry follows the one before it, was accepted *)
(* by the state that one carries and by the tables, and carries the next;   *)
(* the id of a set was minted for it.                                       *)
Committed(past) ==
  \A n \in DOMAIN past :
    LET x == past[n]
        st == IF n = 1 THEN Genesis ELSE past[n - 1].state
        set == st.archive[x.set]
        prep == x.state.archive[x.set].prep IN
    /\ x.prev = n - 1 /\ x.event \in Events /\ x.set \in Sets
    /\ (n = 1) <=> (x.event = "InstallationInitialized")
    /\ Accepts(st, x.event, x.set, x.hold, prep)
    /\ x.state = NextState(st, x.event, x.set, x.hold, n, prep)
    /\ x.event = "BackupSetStarted" =>
         \A m \in 1 .. n - 1 :
           past[m].event = "BackupSetStarted" => past[m].set # x.set
    /\ x.event = "ArchiveRestoreHoldAcquired" => x.hold \in Holds
    /\ x.event = "RestoreAttemptPrepared" =>
         /\ x.hold \in set.holds
         /\ set.life = "streaming" /\ set.objs # <<>>

ASSUME HistoriesAssumption ==
  \A history \in Histories :
    /\ history.past \in Seq(ToSet(history.past)) /\ Committed(history.past)
    /\ history.more \in Nat
    /\ history.torn \subseteq DOMAIN history.past

ASSUME NobodyAssumption == None \notin Supervisors

(* Every entry of the history was journalled, witnessed and committed, its *)
(* files are where they belong, but for the torn objects, whose promotion  *)
(* was cut short, and no supervisor is running.                            *)
Init ==
  \E history \in Histories :
    LET last == Len(history.past)
        st == IF last = 0 THEN Genesis ELSE history.past[last].state
        objects(s) == ToSet(st.archive[s].objs) IN
    /\ signed = history.past
    /\ limit = last + history.more
    /\ journal = 1..last
    /\ witness = last
    /\ db = [head |-> last, archive |-> st.archive, attempt |-> st.attempt,
             generation |-> st.generation, released |-> {}, intents |-> {}]
    /\ keys = {s \in Sets : st.archive[s].life \notin
                               {"none", "archive_key_erased", "deleted"}}
    /\ staged = history.torn /\ partial = history.torn
    /\ promoted = (UNION {objects(s) : s \in
                     {r \in Sets : st.archive[r].life # "deleted"}}) \ history.torn
    /\ target = CASE st.attempt.stage = "none" -> "absent"
                  [] st.attempt.stage = "initialized" -> "initialized"
                  [] OTHER -> "empty"
    /\ refused = FALSE
    /\ source = IF st.attempt.stage \in {"none", "prepared"} THEN "running"
                ELSE "frozen"
    /\ permit = None
    /\ proc = [p \in Supervisors |-> Idle]

BackupCommand(p) ==
  \/ Initialize(p) \/ BackupBegin(p) \/ BackupAppend(p) \/ BackupAcquireHold(p)
  \/ BackupBeginSealing(p) \/ BackupCommitSealed(p)
  \/ BackupPrepareDeletion(p) \/ SignDeletion(p)
  \/ BackupEraseKey(p) \/ SignErasure(p) \/ EraseKeyFile(p) \/ RecordKeyErased(p)
  \/ BackupFinalizeDelete(p) \/ ListPrepared(p) \/ DeleteObject(p)
  \/ RecordDeleted(p)

Transition(p) ==
  \/ Acquire(p) \/ FailBeforeJournal(p) \/ Journal(p) \/ Advance(p) \/ Commit(p)

AppendObject(p) ==
  \/ Reserve(p) \/ Stage(p) \/ GiveUp(p) \/ Abandon(p) \/ RemoveOrphan(p)
  \/ PromoteCreate(p) \/ PromoteCopy(p) \/ PromoteFinish(p)

Recovery(p) ==
  \/ Reconcile(p) \/ CancelPending(p) \/ CleanStaging(p) \/ ReadReceipt(p)
  \/ Replay(p)

Restore(p) ==
  \/ RestorePrepare(p) \/ MakeTarget(p) \/ RestoreFreezeSource(p)
  \/ RestorePlanActivation(p) \/ RestoreMaterialize(p) \/ ListRestore(p)
  \/ CreateInput(p) \/ RestoreObjects(p) \/ RestoreActivate(p)
  \/ EnsureInitialized(p) \/ ActivateTarget(p) \/ ReleaseHold(p)
  \/ RestoreRefuse(p) \/ MarkRefused(p) \/ ResumeSource(p)

Next ==
  \E p \in Supervisors :
    \/ BackupCommand(p) \/ Transition(p) \/ AppendObject(p) \/ Recovery(p)
    \/ Restore(p) \/ Crash(p)

Spec == Init /\ [][Next]_vars

-----------------------------------------------------------------------------
(* Properties.                                                             *)

Entries == DOMAIN signed

(* The state keeps its shape: every file, key and reservation belongs to a *)
(* signed entry and every supervisor is at a step of a command.            *)
TypeOK ==
  /\ journal \subseteq Entries /\ witness \in {0} \cup Entries
  /\ db.head \in {0} \cup Entries
  /\ \A s \in Sets : /\ db.archive[s].life \in Lifecycles
                     /\ ToSet(db.archive[s].objs) \subseteq Entries
                     /\ db.archive[s].holds \subseteq Holds
  /\ db.attempt.stage \in Stages /\ db.released \subseteq Holds
  /\ \A i \in db.intents : i.id \in Entries /\ i.set \in Sets
  /\ keys \subseteq Sets
  /\ staged \cup partial \cup promoted \subseteq Entries
  /\ target \in {"absent", "empty", "input", "initialized"}
  /\ source \in {"running", "frozen", "resumed"}
  /\ refused \in BOOLEAN
  /\ permit \in Supervisors \cup {None}
  /\ \A e \in Entries : signed[e].event \in Events /\ signed[e].prev < e
  /\ \A p \in Supervisors : proc[p].entry \in {0} \cup Entries

(* Wherever the supervisors stop, reconcile can read what the durable      *)
(* witness names: its entry, and back to the beginning every predecessor,  *)
(* is a file of the journal, and so is the head of the tables.             *)
WitnessIsJournalled ==
  /\ {witness, db.head} \subseteq journal \cup {0}
  /\ \A e \in journal : signed[e].prev \in journal \cup {0}

(* The guarded tables are those of one signed history: whichever           *)
(* supervisors race, and even when the witness was forked, the archive,    *)
(* the restore attempt and the generation are the ones the entry at their  *)
(* head carries.  Only the replay of the target's terminal receipt writes  *)
(* the attempt ahead of that head.                                         *)
TablesAreSigned ==
  LET st == StateOf(db.head) IN
  /\ db.archive = st.archive
  /\ db.generation = st.generation
  /\ \/ db.attempt = st.attempt
     \/ /\ st.attempt.stage = "frozen"
        /\ db.attempt = [st.attempt EXCEPT !.stage = "initialized"]

(* A committed checkpoint has its frame on the host, staged or immutable,  *)
(* until the set's key is recorded as erased: no clean-up of a cancelled,  *)
(* failed or reconciled append takes the file of a committed one.          *)
CheckpointsAreStored ==
  \A s \in Sets :
    db.archive[s].life \notin {"archive_key_erased", "deleted"} =>
      ToSet(db.archive[s].objs) \subseteq staged \cup promoted

(* While the restore attempt of the tables has not released its hold, the  *)
(* hold is on the set it restores, and that set has its base and is        *)
(* neither sealed nor deleted.                                             *)
RestoreIsHeld ==
  LET attempt == db.attempt
      set == db.archive[attempt.set] IN
  attempt.stage # "none" /\ attempt.hold \notin db.released =>
    attempt.hold \in set.holds /\ set.life = "streaming" /\ set.objs # <<>>

(* No archive key is erased before the database blocker exists: a set the  *)
(* guarded tables know has its key until they hold its deletion            *)
(* preparation.  The design asks for this order; erase-key reads the       *)
(* preparation from the witness instead (backup_erase_key), which moves    *)
(* before the tables and whether or not they follow.                       *)
KeyErasedAfterBlocker ==
  \A s \in Sets :
    db.archive[s].life \in {"streaming", "sealing", "sealed"} => s \in keys
=============================================================================
