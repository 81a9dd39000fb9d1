------------------------ MODULE MCInstallationSafety ------------------------
(***************************************************************************)
(* Two supervisors of one installation, from the stages below.             *)
(***************************************************************************)
EXTENDS InstallationSafety, TLC

CONSTANTS TheSet, TheHold

(* One more event of the set, with the state that follows it; a deletion   *)
(* preparation binds the archive it finds.                                 *)
Then(past, event) ==
  LET n == Len(past)
      st == IF n = 0 THEN Genesis ELSE past[n].state IN
  Append(past,
    [prev |-> n, event |-> event, set |-> TheSet, hold |-> TheHold,
     state |-> NextState(st, event, TheSet, TheHold, n + 1, st.archive)])

Initialized == Then(<<>>, "InstallationInitialized")
Streaming == Then(Initialized, "BackupSetStarted")
Based == Then(Streaming, "ArchiveCheckpointCommitted")
Sealing == Then(Based, "ArchiveSealingStarted")
Sealed == Then(Sealing, "ArchiveSealed")
Prepared == Then(Sealed, "ManagedBackupDeletionPrepared")
Erasing == Then(Prepared, "PreparedArchiveKeyErasure")
Erased == Then(Erasing, "ArchiveKeyErased")
Held == Then(Based, "ArchiveRestoreHoldAcquired")
Attempted == Then(Held, "RestoreAttemptPrepared")
Covered == Then(Attempted, "ArchiveCheckpointCommitted")
Frozen == Then(Covered, "SourceFreezeRecorded")
Planned == Then(Frozen, "TargetActivationPlanned")
Restored == Then(Planned, "TargetInitialized")

(* Two more entries from every stage, and three where a deletion begins:   *)
(* its intent, its receipt and its end.                                    *)
Short == {<<>>, Initialized, Streaming, Sealing, Sealed, Erasing, Erased,
          Based, Held, Attempted, Frozen, Planned, Restored}
Long == {Prepared}

Started(pasts, n, objects) == [past : pasts, more : {n}, torn : {objects}]

(* Once the base (entry 3) was torn.                                       *)
Reached == UNION {Started(Short, 2, {}), Started(Long, 3, {}),
                  Started({Erased}, 2, {3})}

Symmetry == Permutations(Supervisors)
=============================================================================
