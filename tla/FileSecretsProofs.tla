------------------------- MODULE FileSecretsProofs -------------------------
(***************************************************************************)
(* Proofs that the secret-file installer keeps every destination whole and *)
(* recoverable, for every set of destinations and contents and any number  *)
(* of boots, crashes and failing calls.                                    *)
(***************************************************************************)
EXTENDS FileSecrets, TLAPS

PreparePc == {"recover", "sweep", "create", "write"}
CommitPc == {"backup", "publish", "sync"}
UndoPc == {"undo_commit", "undo_backup", "undo_stage", "undo_sync"}
TailPc == {"drop_backup", "settle"}

(* Recoverable, made inductive: a backup, when there is one, is the        *)
(* settled contents; otherwise the destination is.                         *)
Kept ==
  \A f \in Files : saved[f] # Absent =>
    /\ backup[f] = Absent => dest[f] = saved[f]
    /\ backup[f] # Absent => backup[f] = saved[f]

(* The loops take each file once: what is already done does not include    *)
(* the file at hand.                                                       *)
Progress ==
  /\ at \in {"recover", "sweep"} => cur \notin prepared
  /\ at \in {"create", "write"} => cur \in prepared
  /\ at \in PreparePc => backedUp = {} /\ committed = {}
  /\ at \in CommitPc \cup TailPc => group \subseteq prepared
  /\ at \in {"backup", "publish"} => cur \notin committed
  /\ at \in {"backup", "sync"} => backedUp \subseteq committed
  /\ at = "publish" => backedUp \subseteq committed \cup {cur}

(* Which staging and backup names exist while files are prepared and       *)
(* committed.                                                              *)
Names ==
  /\ at = "sweep" => backup[cur] = Absent
  /\ at = "create" => staging[cur] = Absent
  /\ at \in PreparePc \cup CommitPc \cup TailPc =>
       \A f \in prepared \ backedUp : backup[f] = Absent
  /\ at \in PreparePc \cup CommitPc =>
       \A f \in prepared : staging[f] = Partial => at = "write" /\ f = cur

(* Records a rollback has not reached yet still describe the disk: a       *)
(* backup flag means there is a backup, and a committed destination that   *)
(* replaced settled contents has one.                                      *)
Pending(f) ==
  \/ at \in PreparePc \cup CommitPc
  \/ at = "undo_commit" /\ f <= cur
  \/ at \in UndoPc /\ f < cur

Undoable ==
  /\ \A f \in backedUp :
       Pending(f) \/ (at = "undo_backup" /\ f = cur) => backup[f] # Absent
  /\ \A f \in committed :
       Pending(f) /\ saved[f] # Absent => backup[f] # Absent
  /\ at = "publish" /\ saved[cur] # Absent => backup[cur] # Absent

(* RecoveryExact, with the file that prepare has just recovered.           *)
Exact ==
  /\ RecoveryExact
  /\ at = "sweep" /\ saved[cur] # Absent => prior[cur] = saved[cur]

IInv == FilesTypeOK /\ Kept /\ Progress /\ Names /\ Undoable /\ Exact
----------------------------------------------------------------------------
(* Facts about the control operators. *)

(* FirstOf and LastOf choose a member of their set; the last one bounds it. *)
LEMMA Chosen ==
  ASSUME NEW S, NEW f
  PROVE  /\ f \in FirstOf(S) => f \in S
         /\ f \in LastOf(S) => f \in S /\ \A g \in S : g <= f
BY DEF FirstOf, LastOf

(* install_at returns into a running customer or an exit, whatever the      *)
(* result.                                                                  *)
LEMMA Returned ==
  ASSUME NEW result, Return(result)
  PROVE  at' \in {"running", "exited"} /\ cur' = 0 /\ outcome' = result
BY DEF Return

(* A rollback takes up the last of the remaining records or returns.        *)
LEMMA NextUndone ==
  ASSUME NEW rest, NEW result, NextUndo(rest, result)
  PROVE  /\ outcome' = result
         /\ \/ /\ at' = "undo_commit"
               /\ cur' \in rest
               /\ \A g \in rest : g <= cur'
            \/ at' \in {"running", "exited"} /\ cur' = 0
BY Returned, Chosen DEF NextUndo

(* The loops that prepare, commit and settle take a remaining file of the   *)
(* group or go on to the next phase.                                        *)
LEMMA NextPrepared ==
  ASSUME NEW done, NextPrepare(done)
  PROVE  /\ outcome' = outcome
         /\ \/ at' = "recover" /\ cur' \in group \ done
            \/ at' = "backup" /\ cur' \in group /\ group \subseteq done
BY Chosen DEF NextPrepare

(* Committing: the next file to back up, or the removal of the backups.      *)
LEMMA NextCommitted ==
  ASSUME NEW done, NextCommit(done)
  PROVE  /\ outcome' = outcome
         /\ \/ at' = "backup" /\ cur' \in group \ done
            \/ at' = "drop_backup" /\ cur' \in group
BY Chosen DEF NextCommit

(* Settling: the next backup to remove, or a successful return.              *)
LEMMA NextSettled ==
  ASSUME NEW done, NextSettle(done)
  PROVE  \/ at' = "drop_backup" /\ cur' \in group /\ outcome' = outcome
         \/ at' \in {"running", "exited"} /\ cur' = 0 /\ outcome' = "installed"
BY Chosen, Returned DEF NextSettle

(* A failing call before the tail starts the rollback of all records.       *)
LEMMA Aborted ==
  ASSUME NEW records, Abort(records)
  PROVE  /\ NextUndo(records, "install")
         /\ faults < MaxFaults /\ faults' = faults + 1
         /\ UNCHANGED <<dest, staging, backup, prepared, boots, required,
                        group, version, prior, saved>>
BY DEF Abort, Fault, disk, boot
----------------------------------------------------------------------------
(* The inductive invariant. *)

(* The invariant holds of any directory without leftovers.                  *)
LEMMA InitInv == FilesInit => IInv
<1> SUFFICES ASSUME FilesInit PROVE IInv
  OBVIOUS
<1> USE DEF FilesInit, InstallPc, PreparePc, CommitPc, UndoPc, TailPc
<1>1. DiskTypeOK
  BY DEF DiskTypeOK, Content
<1>2. ControlTypeOK
  BY FileSecretsAssumption DEF ControlTypeOK, Outcomes
<1>3. RecordsTypeOK
  BY DEF RecordsTypeOK
<1>4. Kept /\ Progress /\ Names /\ Undoable /\ Exact
  BY DEF Kept, Progress, Names, Undoable, Pending, Exact, RecoveryExact
<1> QED BY <1>1, <1>2, <1>3, <1>4 DEF IInv, FilesTypeOK

(* A failed call before the tail: the rollback starts from records that     *)
(* describe the disk.                                                       *)
LEMMA AbortInv ==
  ASSUME IInv, at \in PreparePc \cup CommitPc, Abort(prepared), UNCHANGED flags
  PROVE  IInv'
<1> USE FileSecretsAssumption
    DEF IInv, FilesTypeOK, Content, InstallPc, PreparePc, CommitPc, UndoPc, TailPc
<1>1. /\ outcome' = "install"
      /\ \/ at' = "undo_commit" /\ cur' \in prepared
         \/ at' \in {"running", "exited"} /\ cur' = 0
  BY Aborted, NextUndone
<1>2. UNCHANGED <<dest, staging, backup, prepared, boots, required, group,
                  version, prior, saved, staged, backedUp, committed>>
  BY Aborted DEF flags
<1>3. faults' \in 0..MaxFaults
  BY Aborted DEF ControlTypeOK
<1>4. FilesTypeOK'
  BY <1>1, <1>2, <1>3 DEF DiskTypeOK, ControlTypeOK, RecordsTypeOK, Outcomes
<1>5. Kept' /\ Progress' /\ Names' /\ Undoable' /\ Exact'
  BY <1>1, <1>2 DEF ControlTypeOK, RecordsTypeOK, Kept, Progress, Names,
     Undoable, Pending, Exact, RecoveryExact
<1> QED BY <1>4, <1>5

(* The rollback moves on to the record before this one.                     *)
LEMMA NextUndoInv ==
  ASSUME IInv, at \in UndoPc, NEW result \in Outcomes,
         NextUndo({f \in prepared : f < cur}, result),
         faults' \in 0..MaxFaults,
         UNCHANGED <<disk, boot, prepared, flags, boots, prior, saved>>
  PROVE  IInv'
<1> USE FileSecretsAssumption
    DEF IInv, FilesTypeOK, Content, InstallPc, PreparePc, CommitPc, UndoPc, TailPc,
        disk, boot, flags
<1>1. /\ outcome' = result
      /\ \/ at' = "undo_commit" /\ cur' \in prepared /\ cur' < cur
         \/ at' \in {"running", "exited"} /\ cur' = 0
  BY NextUndone
<1>2. FilesTypeOK'
  BY <1>1 DEF DiskTypeOK, ControlTypeOK, RecordsTypeOK
<1>3. Undoable'
  <2>1. ASSUME NEW f \in prepared, Pending(f)' PROVE Pending(f)
    <3>1. f \in Nat /\ cur \in Nat /\ cur' \in Nat
      <4>1. f \in Files
        BY DEF RecordsTypeOK
      <4>2. cur \in Files \cup {0} /\ cur' \in Files \cup {0}
        BY <1>2 DEF ControlTypeOK
      <4> QED BY <4>1, <4>2
    <3>2. at' = "undo_commit" /\ f <= cur' /\ cur' < cur
      BY <1>1, <2>1, <3>1 DEF Pending
    <3> QED BY <3>1, <3>2 DEF Pending
  <2>2. at' \notin {"undo_backup", "publish"}
    BY <1>1
  <2> QED BY <2>1, <2>2 DEF Undoable, RecordsTypeOK
<1>4. Kept' /\ Progress' /\ Names' /\ Exact'
  BY <1>1 DEF ControlTypeOK, RecordsTypeOK, Kept, Progress, Names, Exact,
     RecoveryExact
<1> QED BY <1>2, <1>3, <1>4

(* Every step of a boot, every failing call and every crash preserves it.   *)
LEMMA StepInv == IInv /\ [FilesNext]_filesVars => IInv'
<1> SUFFICES ASSUME IInv, [FilesNext]_filesVars PROVE IInv'
  OBVIOUS
<1> USE FileSecretsAssumption
    DEF IInv, FilesTypeOK, Content, InstallPc, PreparePc, CommitPc, UndoPc, TailPc,
        Outcomes, disk, flags, boot
<1>1. CASE BootWithoutFiles
  <2>1. DiskTypeOK' /\ ControlTypeOK'
    BY <1>1 DEF DiskTypeOK, ControlTypeOK, BootWithoutFiles, StartBoot
  <2>2. RecordsTypeOK'
    BY <1>1 DEF RecordsTypeOK, BootWithoutFiles, StartBoot
  <2>3. Kept'
    BY <1>1 DEF DiskTypeOK, ControlTypeOK, RecordsTypeOK, Kept,
       BootWithoutFiles, StartBoot
  <2>4. Progress'
    BY <1>1 DEF DiskTypeOK, ControlTypeOK, RecordsTypeOK, Progress,
       BootWithoutFiles, StartBoot
  <2>5. Names'
    BY <1>1 DEF DiskTypeOK, ControlTypeOK, RecordsTypeOK, Names,
       BootWithoutFiles, StartBoot
  <2>6. Undoable'
    BY <1>1 DEF DiskTypeOK, ControlTypeOK, RecordsTypeOK, Undoable, Pending,
       BootWithoutFiles, StartBoot
  <2>7. Exact'
    BY <1>1 DEF DiskTypeOK, ControlTypeOK, RecordsTypeOK, Exact,
       RecoveryExact, BootWithoutFiles, StartBoot
  <2> QED BY <2>1, <2>2, <2>3, <2>4, <2>5, <2>6, <2>7
<1>2. ASSUME NEW req \in BOOLEAN, LoadFails(req) PROVE IInv'
  <2>1. FilesTypeOK'
    BY <1>2 DEF DiskTypeOK, ControlTypeOK, RecordsTypeOK, LoadFails,
       StartBoot
  <2>2. Kept'
    BY <1>2 DEF DiskTypeOK, ControlTypeOK, RecordsTypeOK, Kept, LoadFails,
       StartBoot
  <2>3. Progress'
    BY <1>2 DEF DiskTypeOK, ControlTypeOK, RecordsTypeOK, Progress, LoadFails,
       StartBoot
  <2>4. Names'
    BY <1>2 DEF DiskTypeOK, ControlTypeOK, RecordsTypeOK, Names, LoadFails,
       StartBoot
  <2>5. Undoable'
    BY <1>2 DEF DiskTypeOK, ControlTypeOK, RecordsTypeOK, Undoable, Pending,
       LoadFails, StartBoot
  <2>6. Exact'
    BY <1>2 DEF DiskTypeOK, ControlTypeOK, RecordsTypeOK, Exact,
       RecoveryExact, LoadFails, StartBoot
  <2> QED BY <2>1, <2>2, <2>3, <2>4, <2>5, <2>6
<1>3. ASSUME NEW req \in BOOLEAN, NEW files \in (SUBSET Files) \ {{}},
            NEW v \in Versions, LoadGroup(req, files, v)
     PROVE  IInv'
  <2>1. cur' \in files
    BY <1>3, Chosen DEF LoadGroup
  <2>2. FilesTypeOK'
    BY <1>3, <2>1 DEF DiskTypeOK, ControlTypeOK, RecordsTypeOK, LoadGroup,
       StartBoot
  <2>3. Kept'
    BY <1>3 DEF Kept, LoadGroup
  <2>4. Progress'
    BY <1>3, <2>1 DEF Progress, LoadGroup, StartBoot
  <2>5. Names'
    BY <1>3 DEF Names, LoadGroup, StartBoot
  <2>6. Undoable'
    BY <1>3 DEF Undoable, Pending, LoadGroup, StartBoot
  <2>7. Exact'
    BY <1>3 DEF Exact, RecoveryExact, LoadGroup, StartBoot
  <2> QED BY <2>2, <2>3, <2>4, <2>5, <2>6, <2>7
<1>4. CASE PrepareRecover
  <2>1. FilesTypeOK'
    BY <1>4 DEF DiskTypeOK, ControlTypeOK, RecordsTypeOK, PrepareRecover
  <2>2. Kept'
    BY <1>4 DEF DiskTypeOK, ControlTypeOK, RecordsTypeOK, Kept, PrepareRecover
  <2>3. Progress'
    BY <1>4 DEF DiskTypeOK, ControlTypeOK, RecordsTypeOK, Progress,
       PrepareRecover
  <2>4. Names'
    BY <1>4 DEF DiskTypeOK, ControlTypeOK, RecordsTypeOK, Names,
       PrepareRecover
  <2>5. Undoable'
    BY <1>4 DEF ControlTypeOK, RecordsTypeOK, Progress, Undoable, Pending,
       PrepareRecover
  <2>6. Exact'
    BY <1>4 DEF DiskTypeOK, ControlTypeOK, RecordsTypeOK, Kept, Progress,
       Exact, RecoveryExact, PrepareRecover
  <2> QED BY <2>1, <2>2, <2>3, <2>4, <2>5, <2>6
<1>5. CASE PrepareSweep
  <2>1. FilesTypeOK'
    BY <1>5 DEF DiskTypeOK, ControlTypeOK, RecordsTypeOK, PrepareSweep
  <2>2. Kept'
    BY <1>5 DEF DiskTypeOK, ControlTypeOK, RecordsTypeOK, Kept, PrepareSweep
  <2>3. Progress'
    BY <1>5 DEF DiskTypeOK, ControlTypeOK, RecordsTypeOK, Progress,
       PrepareSweep
  <2>4. Names'
    BY <1>5 DEF DiskTypeOK, ControlTypeOK, RecordsTypeOK, Names, PrepareSweep
  <2>5. Undoable'
    BY <1>5 DEF DiskTypeOK, ControlTypeOK, RecordsTypeOK, Undoable, Pending,
       PrepareSweep
  <2>6. Exact'
    BY <1>5 DEF DiskTypeOK, ControlTypeOK, RecordsTypeOK, Exact,
       RecoveryExact, PrepareSweep
  <2> QED BY <2>1, <2>2, <2>3, <2>4, <2>5, <2>6
<1>6. CASE PrepareFails
  BY <1>6, AbortInv DEF ControlTypeOK, PrepareFails
<1>7. CASE WriteCreate
  <2>1. FilesTypeOK'
    BY <1>7 DEF DiskTypeOK, ControlTypeOK, RecordsTypeOK, Progress,
       WriteCreate
  <2>2. Kept'
    BY <1>7 DEF DiskTypeOK, ControlTypeOK, RecordsTypeOK, Kept, WriteCreate
  <2>3. Progress'
    BY <1>7 DEF DiskTypeOK, ControlTypeOK, RecordsTypeOK, Progress,
       WriteCreate
  <2>4. Names'
    BY <1>7 DEF DiskTypeOK, ControlTypeOK, RecordsTypeOK, Names, WriteCreate
  <2>5. Undoable'
    BY <1>7 DEF DiskTypeOK, ControlTypeOK, RecordsTypeOK, Undoable, Pending,
       WriteCreate
  <2>6. Exact'
    BY <1>7 DEF DiskTypeOK, ControlTypeOK, RecordsTypeOK, Exact,
       RecoveryExact, WriteCreate
  <2> QED BY <2>1, <2>2, <2>3, <2>4, <2>5, <2>6
<1>8. CASE WriteContents
  <2>1. FilesTypeOK'
    BY <1>8, NextPrepared DEF DiskTypeOK, ControlTypeOK, RecordsTypeOK,
       WriteContents
  <2>2. Kept'
    BY <1>8, NextPrepared DEF DiskTypeOK, ControlTypeOK, RecordsTypeOK, Kept,
       WriteContents
  <2>3. Progress'
    BY <1>8, NextPrepared DEF DiskTypeOK, ControlTypeOK, RecordsTypeOK,
       Progress, WriteContents
  <2>4. Names'
    BY <1>8, NextPrepared DEF DiskTypeOK, ControlTypeOK, RecordsTypeOK, Names,
       WriteContents
  <2>5. Undoable'
    BY <1>8, NextPrepared DEF DiskTypeOK, ControlTypeOK, RecordsTypeOK,
       Undoable, Pending, WriteContents
  <2>6. Exact'
    BY <1>8, NextPrepared DEF DiskTypeOK, ControlTypeOK, RecordsTypeOK, Exact,
       RecoveryExact, WriteContents
  <2> QED BY <2>1, <2>2, <2>3, <2>4, <2>5, <2>6
<1>9. CASE WriteFails
  BY <1>9, AbortInv DEF ControlTypeOK, WriteFails
<1>10. CASE CommitBackup
  <2>1. FilesTypeOK'
    BY <1>10 DEF DiskTypeOK, ControlTypeOK, RecordsTypeOK, Progress,
       CommitBackup
  <2>2. Kept'
    BY <1>10 DEF DiskTypeOK, ControlTypeOK, RecordsTypeOK, Kept, CommitBackup
  <2>3. Progress'
    BY <1>10 DEF ControlTypeOK, RecordsTypeOK, Progress, CommitBackup
  <2>4. Names'
    BY <1>10 DEF DiskTypeOK, ControlTypeOK, RecordsTypeOK, Names,
       CommitBackup
  <2>5. Exact'
    BY <1>10 DEF ControlTypeOK, RecordsTypeOK, Exact, RecoveryExact,
       CommitBackup
  <2>6. saved[cur] # Absent => backup'[cur] # Absent
    BY <1>10 DEF DiskTypeOK, ControlTypeOK, RecordsTypeOK, Kept, CommitBackup
  <2>7. \A f \in Files : backup[f] # Absent => backup'[f] # Absent
    BY <1>10 DEF DiskTypeOK, ControlTypeOK, RecordsTypeOK, CommitBackup
  <2>8. \/ backedUp' = backedUp
        \/ backedUp' = backedUp \cup {cur} /\ backup'[cur] # Absent
    BY <1>10 DEF DiskTypeOK, ControlTypeOK, RecordsTypeOK, CommitBackup
  <2>9. Undoable'
    BY <1>10, <2>6, <2>7, <2>8
    DEF RecordsTypeOK, Undoable, Pending, CommitBackup
  <2> QED BY <2>1, <2>2, <2>3, <2>4, <2>5, <2>9
<1>11. CASE CommitPublish
  <2>1. FilesTypeOK'
    BY <1>11 DEF DiskTypeOK, ControlTypeOK, RecordsTypeOK, Progress, Names,
       CommitPublish
  <2>2. Kept'
    BY <1>11 DEF DiskTypeOK, ControlTypeOK, RecordsTypeOK, Kept, Undoable,
       CommitPublish
  <2>3. Progress'
    BY <1>11 DEF DiskTypeOK, ControlTypeOK, RecordsTypeOK, Progress,
       CommitPublish
  <2>4. Names'
    BY <1>11 DEF DiskTypeOK, ControlTypeOK, RecordsTypeOK, Names,
       CommitPublish
  <2>5. Undoable'
    BY <1>11 DEF DiskTypeOK, ControlTypeOK, RecordsTypeOK, Undoable, Pending,
       CommitPublish
  <2>6. Exact'
    BY <1>11 DEF DiskTypeOK, ControlTypeOK, RecordsTypeOK, Exact,
       RecoveryExact, CommitPublish
  <2> QED BY <2>1, <2>2, <2>3, <2>4, <2>5, <2>6
<1>12. CASE CommitSync
  <2>1. FilesTypeOK'
    BY <1>12, NextCommitted DEF DiskTypeOK, ControlTypeOK, RecordsTypeOK,
       CommitSync
  <2>2. Kept'
    BY <1>12, NextCommitted DEF DiskTypeOK, ControlTypeOK, RecordsTypeOK,
       Kept, CommitSync
  <2>3. Progress'
    BY <1>12, NextCommitted DEF DiskTypeOK, ControlTypeOK, RecordsTypeOK,
       Progress, CommitSync
  <2>4. Names'
    BY <1>12, NextCommitted DEF DiskTypeOK, ControlTypeOK, RecordsTypeOK,
       Names, CommitSync
  <2>5. Undoable'
    BY <1>12, NextCommitted DEF DiskTypeOK, ControlTypeOK, RecordsTypeOK,
       Undoable, Pending, CommitSync
  <2>6. Exact'
    BY <1>12, NextCommitted DEF DiskTypeOK, ControlTypeOK, RecordsTypeOK,
       Exact, RecoveryExact, CommitSync
  <2> QED BY <2>1, <2>2, <2>3, <2>4, <2>5, <2>6
<1>13. CASE CommitFails
  BY <1>13, AbortInv DEF ControlTypeOK, CommitFails
<1>14. CASE UndoCommit
  <2>1. FilesTypeOK'
    BY <1>14 DEF DiskTypeOK, ControlTypeOK, RecordsTypeOK, UndoCommit
  <2>2. Kept'
    BY <1>14 DEF DiskTypeOK, ControlTypeOK, RecordsTypeOK, Kept, Undoable,
       Pending, UndoCommit
  <2>3. Progress'
    BY <1>14 DEF DiskTypeOK, ControlTypeOK, RecordsTypeOK, Progress,
       UndoCommit
  <2>4. Names'
    BY <1>14 DEF DiskTypeOK, ControlTypeOK, RecordsTypeOK, Names, UndoCommit
  <2>5. Undoable'
    BY <1>14 DEF DiskTypeOK, ControlTypeOK, RecordsTypeOK, Undoable, Pending,
       UndoCommit
  <2>6. Exact'
    BY <1>14 DEF DiskTypeOK, ControlTypeOK, RecordsTypeOK, Exact,
       RecoveryExact, UndoCommit
  <2> QED BY <2>1, <2>2, <2>3, <2>4, <2>5, <2>6
<1>15. CASE UndoBackup
  <2>1. FilesTypeOK'
    BY <1>15 DEF DiskTypeOK, ControlTypeOK, RecordsTypeOK, UndoBackup
  <2>2. Kept'
    BY <1>15 DEF DiskTypeOK, ControlTypeOK, RecordsTypeOK, Kept, Undoable,
       UndoBackup
  <2>3. Progress'
    BY <1>15 DEF DiskTypeOK, ControlTypeOK, RecordsTypeOK, Progress,
       UndoBackup
  <2>4. Names'
    BY <1>15 DEF DiskTypeOK, ControlTypeOK, RecordsTypeOK, Names, UndoBackup
  <2>5. Undoable'
    BY <1>15 DEF DiskTypeOK, ControlTypeOK, RecordsTypeOK, Undoable, Pending,
       UndoBackup
  <2>6. Exact'
    BY <1>15 DEF DiskTypeOK, ControlTypeOK, RecordsTypeOK, Exact,
       RecoveryExact, UndoBackup
  <2> QED BY <2>1, <2>2, <2>3, <2>4, <2>5, <2>6
<1>16. CASE UndoStage
  <2>1. FilesTypeOK'
    BY <1>16 DEF DiskTypeOK, ControlTypeOK, RecordsTypeOK, UndoStage
  <2>2. Kept'
    BY <1>16 DEF DiskTypeOK, ControlTypeOK, RecordsTypeOK, Kept, UndoStage
  <2>3. Progress'
    BY <1>16 DEF DiskTypeOK, ControlTypeOK, RecordsTypeOK, Progress, UndoStage
  <2>4. Names'
    BY <1>16 DEF DiskTypeOK, ControlTypeOK, RecordsTypeOK, Names, UndoStage
  <2>5. Undoable'
    BY <1>16 DEF DiskTypeOK, ControlTypeOK, RecordsTypeOK, Undoable, Pending,
       UndoStage
  <2>6. Exact'
    BY <1>16 DEF DiskTypeOK, ControlTypeOK, RecordsTypeOK, Exact,
       RecoveryExact, UndoStage
  <2> QED BY <2>1, <2>2, <2>3, <2>4, <2>5, <2>6
<1>17. CASE UndoSync
  BY <1>17, NextUndoInv DEF ControlTypeOK, UndoSync
<1>18. CASE UndoFails
  BY <1>18, NextUndoInv DEF ControlTypeOK, UndoFails, Fault
<1>19. CASE DropBackup
  <2>1. FilesTypeOK'
    BY <1>19 DEF DiskTypeOK, ControlTypeOK, RecordsTypeOK, DropBackup
  <2>2. Kept'
    BY <1>19 DEF DiskTypeOK, ControlTypeOK, RecordsTypeOK, Kept, Progress,
       Names, DropBackup
  <2>3. Progress'
    BY <1>19 DEF DiskTypeOK, ControlTypeOK, RecordsTypeOK, Progress,
       DropBackup
  <2>4. Names'
    BY <1>19 DEF DiskTypeOK, ControlTypeOK, RecordsTypeOK, Names, DropBackup
  <2>5. Undoable'
    BY <1>19 DEF DiskTypeOK, ControlTypeOK, RecordsTypeOK, Undoable, Pending,
       DropBackup
  <2>6. Exact'
    BY <1>19 DEF DiskTypeOK, ControlTypeOK, RecordsTypeOK, Exact,
       RecoveryExact, DropBackup
  <2> QED BY <2>1, <2>2, <2>3, <2>4, <2>5, <2>6
<1>20. CASE SettleSync
  <2>1. FilesTypeOK'
    BY <1>20, NextSettled DEF DiskTypeOK, ControlTypeOK, RecordsTypeOK,
       SettleSync
  <2>2. Kept'
    BY <1>20, NextSettled DEF DiskTypeOK, ControlTypeOK, RecordsTypeOK, Kept,
       SettleSync
  <2>3. Progress'
    BY <1>20, NextSettled DEF DiskTypeOK, ControlTypeOK, RecordsTypeOK,
       Progress, SettleSync
  <2>4. Names'
    BY <1>20, NextSettled DEF DiskTypeOK, ControlTypeOK, RecordsTypeOK, Names,
       SettleSync
  <2>5. Undoable'
    BY <1>20, NextSettled DEF DiskTypeOK, ControlTypeOK, RecordsTypeOK,
       Undoable, Pending, SettleSync
  <2>6. Exact'
    BY <1>20, NextSettled DEF DiskTypeOK, ControlTypeOK, RecordsTypeOK, Exact,
       RecoveryExact, SettleSync
  <2> QED BY <2>1, <2>2, <2>3, <2>4, <2>5, <2>6
<1>21. CASE SettleFails
  <2>1. FilesTypeOK'
    BY <1>21, Returned DEF DiskTypeOK, ControlTypeOK, RecordsTypeOK,
       SettleFails, Fault
  <2>2. Kept'
    BY <1>21, Returned DEF DiskTypeOK, ControlTypeOK, RecordsTypeOK, Kept,
       SettleFails, Fault
  <2>3. Progress'
    BY <1>21, Returned DEF DiskTypeOK, ControlTypeOK, RecordsTypeOK, Progress,
       SettleFails, Fault
  <2>4. Names'
    BY <1>21, Returned DEF DiskTypeOK, ControlTypeOK, RecordsTypeOK, Names,
       SettleFails, Fault
  <2>5. Undoable'
    BY <1>21, Returned DEF DiskTypeOK, ControlTypeOK, RecordsTypeOK, Undoable,
       Pending, SettleFails, Fault
  <2>6. Exact'
    BY <1>21, Returned DEF DiskTypeOK, ControlTypeOK, RecordsTypeOK, Exact,
       RecoveryExact, SettleFails, Fault
  <2> QED BY <2>1, <2>2, <2>3, <2>4, <2>5, <2>6
<1>22. CASE Stop
  <2>1. FilesTypeOK'
    BY <1>22 DEF DiskTypeOK, ControlTypeOK, RecordsTypeOK, Stop
  <2>2. Kept'
    BY <1>22 DEF DiskTypeOK, ControlTypeOK, RecordsTypeOK, Kept, Stop
  <2>3. Progress'
    BY <1>22 DEF DiskTypeOK, ControlTypeOK, RecordsTypeOK, Progress, Stop
  <2>4. Names'
    BY <1>22 DEF DiskTypeOK, ControlTypeOK, RecordsTypeOK, Names, Stop
  <2>5. Undoable'
    BY <1>22 DEF DiskTypeOK, ControlTypeOK, RecordsTypeOK, Undoable, Pending,
       Stop
  <2>6. Exact'
    BY <1>22 DEF DiskTypeOK, ControlTypeOK, RecordsTypeOK, Exact,
       RecoveryExact, Stop
  <2> QED BY <2>1, <2>2, <2>3, <2>4, <2>5, <2>6
<1>23. CASE UNCHANGED filesVars
  <2>1. FilesTypeOK'
    BY <1>23 DEF DiskTypeOK, ControlTypeOK, RecordsTypeOK, filesVars
  <2>2. Kept'
    BY <1>23 DEF DiskTypeOK, ControlTypeOK, RecordsTypeOK, Kept, filesVars
  <2>3. Progress'
    BY <1>23 DEF DiskTypeOK, ControlTypeOK, RecordsTypeOK, Progress, filesVars
  <2>4. Names'
    BY <1>23 DEF DiskTypeOK, ControlTypeOK, RecordsTypeOK, Names, filesVars
  <2>5. Undoable'
    BY <1>23 DEF DiskTypeOK, ControlTypeOK, RecordsTypeOK, Undoable, Pending,
       filesVars
  <2>6. Exact'
    BY <1>23 DEF DiskTypeOK, ControlTypeOK, RecordsTypeOK, Exact,
       RecoveryExact, filesVars
  <2> QED BY <2>1, <2>2, <2>3, <2>4, <2>5, <2>6
<1> QED
  BY <1>1, <1>2, <1>3, <1>4, <1>5, <1>6, <1>7, <1>8, <1>9, <1>10, <1>11,
     <1>12, <1>13, <1>14, <1>15, <1>16, <1>17, <1>18, <1>19, <1>20, <1>21,
     <1>22, <1>23 DEF FilesNext, Install
----------------------------------------------------------------------------
(* The inductive invariant holds throughout any sequence of boots.          *)
THEOREM Invariance == FilesSpec => []IInv
BY InitInv, StepInv, PTL DEF FilesSpec

(* The type invariant of the installer: control stays in the group, and the *)
(* records nest.                                                            *)
THEOREM TypeCorrect == FilesSpec => []FilesTypeOK
BY Invariance, PTL DEF IInv

(* file_secrets.rs:74-121: wherever the helper is killed, only complete     *)
(* contents ever reach a destination or a backup.                           *)
THEOREM NeverTorn == FilesSpec => []NoTornFile
<1>1. IInv => NoTornFile
  BY FileSecretsAssumption
     DEF IInv, FilesTypeOK, DiskTypeOK, Content, NoTornFile
<1> QED BY <1>1, Invariance, PTL

(* Settled contents survive any crash, fault and later group at the         *)
(* destination or in the backup that prepare puts back.                     *)
THEOREM AlwaysRecoverable == FilesSpec => []Recoverable
<1>1. IInv => Recoverable
  BY DEF IInv, Kept, Recoverable
<1> QED BY <1>1, Invariance, PTL

(* prepare (file_secrets.rs:124-176) restores exactly the settled contents. *)
THEOREM ExactRecovery == FilesSpec => []RecoveryExact
BY Invariance, PTL DEF IInv, Exact

(* O_EXCL and RENAME_NOREPLACE never meet a leftover name.                  *)
THEOREM NamesAreFree == FilesSpec => []NamesFree
<1>1. IInv => NamesFree
  BY DEF IInv, FilesTypeOK, ControlTypeOK, RecordsTypeOK, Progress, Names,
     NamesFree, InstallPc, PreparePc, CommitPc, TailPc
<1> QED BY <1>1, Invariance, PTL

(* Over any boots, crashes and failing calls, install_at neither loses a   *)
(* settled secret nor recovers another one.                                *)
THEOREM SecretsAlwaysKept == FilesSpec => []SecretsKept
BY TypeCorrect, AlwaysRecoverable, ExactRecovery, NamesAreFree, PTL
DEF SecretsKept
----------------------------------------------------------------------------
(* All or nothing. *)

(* The disk is as a record's flags describe it, in terms of what the       *)
(* destination held when the record was made.                              *)
Described(f) ==
  /\ f \notin staged => staging[f] = Absent
  /\ backup[f] = IF f \in backedUp THEN prior[f] ELSE Absent
  /\ f \notin backedUp => IF f \in committed THEN prior[f] = Absent ELSE dest[f] = prior[f]

Restored(f) == dest[f] = prior[f] /\ staging[f] = Absent /\ backup[f] = Absent

(* A rollback that has not failed: the records above the one at hand are   *)
(* undone, those below are still described, and the one at hand is undone  *)
(* up to its step.                                                         *)
UndoneUpTo ==
  /\ \A f \in prepared : (f < cur => Described(f)) /\ (f > cur => Restored(f))
  /\ cur \notin staged \/ at = "undo_sync" => staging[cur] = Absent
  /\ at = "undo_commit" => Described(cur)
  /\ at = "undo_backup" =>
       /\ backup[cur] = IF cur \in backedUp THEN prior[cur] ELSE Absent
       /\ cur \notin backedUp => dest[cur] = prior[cur]
  /\ at \in {"undo_stage", "undo_sync"} => dest[cur] = prior[cur] /\ backup[cur] = Absent

RollbackInv ==
  /\ at = "sweep" => dest[cur] = prior[cur]
  /\ at = "write" => cur \in staged
  /\ at = "publish" /\ cur \notin backedUp => prior[cur] = Absent
  /\ at \in PreparePc \cup CommitPc => \A f \in prepared : Described(f)
  /\ at \in UndoPc => cur \in prepared /\ outcome \in {"install", "rollback"}
  /\ at \in UndoPc /\ outcome = "install" => UndoneUpTo
  /\ RolledBackWhole

(* Every file of the group is staged with the delivered contents before    *)
(* the first is committed, and committed before the first backup goes.     *)
InstallInv ==
  /\ at \in PreparePc => \A f \in prepared \ {cur} : staging[f] = version
  /\ at \in CommitPc =>
       \A f \in group : IF f \in committed THEN dest[f] = version /\ staging[f] = Absent
                                           ELSE staging[f] = version
  /\ at = "sync" => cur \in committed
  /\ at \in TailPc =>
       \A f \in group :
         /\ dest[f] = version /\ staging[f] = Absent
         /\ f < cur \/ f \notin backedUp \/ (at = "settle" /\ f = cur) => backup[f] = Absent
  /\ InstalledWhole

WholeInv == RollbackInv /\ InstallInv

(* A failing call before the tail: every record describes the disk.        *)
LEMMA UndoStarts ==
  ASSUME IInv, WholeInv, at \in PreparePc \cup CommitPc, Abort(prepared), UNCHANGED flags
  PROVE  WholeInv'
<1> USE DEF PreparePc, CommitPc, UndoPc, TailPc, flags
<1>1. /\ NextUndo(prepared, "install")
      /\ UNCHANGED <<dest, staging, backup, prepared, version, group, prior, staged, backedUp,
                     committed>>
  BY Aborted
<1>2. \A f \in prepared : Described(f)
  BY DEF WholeInv, RollbackInv
<1>3. (\A f \in prepared : Described(f))'
  BY <1>1, <1>2 DEF Described
<1>4. CASE prepared = {}
  <2>1. at' \in {"running", "exited"} /\ outcome' = "install"
    BY <1>1, <1>4, Returned DEF NextUndo
  <2> QED
    BY <1>1, <1>4, <2>1
    DEF WholeInv, RollbackInv, InstallInv, RolledBackWhole, InstalledWhole
<1>5. CASE prepared # {}
  <2>1. /\ at' = "undo_commit" /\ cur' \in prepared /\ \A g \in prepared : g <= cur'
        /\ outcome' = "install"
    BY <1>1, <1>5, Chosen DEF NextUndo
  <2>2. \A g \in prepared : g \in Nat
    BY FileSecretsAssumption DEF IInv, FilesTypeOK, RecordsTypeOK
  <2>3. UndoneUpTo'
    BY <1>1, <1>3, <2>1, <2>2 DEF UndoneUpTo, Described
  <2> QED
    BY <1>1, <2>1, <2>3
    DEF WholeInv, RollbackInv, InstallInv, RolledBackWhole, InstalledWhole
<1> QED
  BY <1>4, <1>5

(* A rollback goes on to the next record below, or returns.  It still      *)
(* reports Install only if the record it leaves is undone.                 *)
LEMMA UndoGoesOn ==
  ASSUME IInv, WholeInv, at \in UndoPc, NEW result,
         NextUndo({f \in prepared : f < cur}, result),
         result = "rollback" \/ (at = "undo_sync" /\ result = outcome),
         UNCHANGED <<disk, prepared, boot, flags, prior>>
  PROVE  WholeInv'
<1> USE DEF PreparePc, CommitPc, UndoPc, TailPc, flags, disk, boot
<1>1. \A g \in prepared : g \in Nat
  BY FileSecretsAssumption DEF IInv, FilesTypeOK, RecordsTypeOK
<1>2. cur \in prepared /\ cur \in Nat
  BY <1>1 DEF WholeInv, RollbackInv
<1>3. outcome' = "install" => UndoneUpTo /\ at = "undo_sync"
  BY NextUndone DEF WholeInv, RollbackInv
<1>4. CASE {f \in prepared : f < cur} = {}
  <2>1. /\ at' \in {"running", "exited"} /\ outcome' = result /\ result # "installed"
        /\ \A f \in prepared : f = cur \/ f > cur
    BY <1>1, <1>2, <1>4, Returned DEF NextUndo, WholeInv, RollbackInv
  <2>2. RolledBackWhole'
    BY <1>2, <1>3, <2>1 DEF UndoneUpTo, Restored, RolledBackWhole
  <2> QED
    BY <2>1, <2>2 DEF WholeInv, RollbackInv, InstallInv, InstalledWhole
<1>5. CASE {f \in prepared : f < cur} # {}
  <2>1. /\ at' = "undo_commit" /\ cur' \in prepared /\ cur' < cur /\ outcome' = result
        /\ \A g \in prepared : g < cur => g <= cur'
    BY <1>5, Chosen DEF NextUndo
  <2>2. ASSUME outcome' = "install" PROVE UndoneUpTo'
    <3>1. ASSUME NEW f \in prepared, f < cur PROVE Described(f)'
      BY <1>3, <2>2, <3>1 DEF UndoneUpTo, Described
    <3>2. ASSUME NEW f \in prepared, f > cur' PROVE Restored(f)'
      <4>1. f = cur \/ f > cur
        BY <1>1, <1>2, <2>1, <3>2
      <4>2. Restored(f)
        BY <1>2, <1>3, <2>2, <4>1 DEF UndoneUpTo, Restored
      <4> QED
        BY <4>2 DEF Restored
    <3>3. ASSUME NEW f \in prepared'
          PROVE  (f < cur' => Described(f)') /\ (f > cur' => Restored(f)')
      <4>1. f \in prepared /\ f \in Nat /\ cur' \in Nat
        BY <1>1, <2>1
      <4>2. f < cur' => f < cur
        BY <1>2, <2>1, <4>1
      <4> QED
        BY <3>1, <3>2, <4>1, <4>2
    <3>4. PICK c \in prepared : c = cur' /\ c < cur
      BY <2>1
    <3>5. Described(c)'
      BY <3>1, <3>4
    <3>6. Described(cur)'
      BY <3>4, <3>5 DEF Described
    <3> QED
      BY <2>1, <3>3, <3>6 DEF UndoneUpTo, Described
  <2> QED
    BY <2>1, <2>2 DEF WholeInv, RollbackInv, InstallInv, RolledBackWhole, InstalledWhole
<1> QED
  BY <1>4, <1>5

(* The three loops of a successful installation: the next file is the      *)
(* first of what remains.                                                  *)
LEMMA LoopsGoOn ==
  ASSUME FilesTypeOK
  PROVE  /\ \A done : NextPrepare(done) =>
              \/ at' = "recover" /\ cur' \in group \ done
              \/ at' = "backup" /\ group \subseteq done
         /\ \A done : NextCommit(done) =>
              \/ at' = "backup" /\ cur' \in group \ done
              \/ /\ at' = "drop_backup" /\ group \subseteq done
                 /\ \A g \in group : cur' <= g
         /\ NextSettle(cur) =>
              \/ /\ at' = "drop_backup" /\ cur' \in group /\ cur' > cur
                 /\ \A g \in group : g > cur => cur' <= g
              \/ at' = "running" /\ outcome' = "installed" /\ \A g \in group : ~(g > cur)
BY DEF NextPrepare, NextCommit, NextSettle, FirstOf, Return

(* Every step keeps the records true to the disk, and so whole what they   *)
(* roll back or settle.                                                    *)
LEMMA WholeNext ==
  ASSUME IInv, WholeInv, [FilesNext]_filesVars
  PROVE  WholeInv'
<1> USE DEF PreparePc, CommitPc, UndoPc, TailPc
<1>0. /\ FilesTypeOK /\ Progress
      /\ \A f \in group : f \in Files /\ f \in Nat
      /\ prepared \subseteq group /\ staged \subseteq prepared
      /\ backedUp \subseteq prepared /\ committed \subseteq prepared
      /\ at \in InstallPc => cur \in group
  BY FileSecretsAssumption DEF IInv, FilesTypeOK, ControlTypeOK, RecordsTypeOK
<1>1. ASSUME StartBoot,
             \/ at' \in {"running", "exited"} /\ outcome' \in {"none", "load"}
             \/ at' = "recover"
      PROVE  WholeInv'
  BY <1>1 DEF StartBoot, WholeInv, RollbackInv, InstallInv, RolledBackWhole, InstalledWhole
<1>2. CASE PrepareRecover
  <2>1. /\ at = "recover" /\ at' = "sweep" /\ cur \notin prepared
        /\ UNCHANGED <<staging, cur, group, version, prepared, staged, backedUp, committed>>
        /\ \A f \in Files : f # cur => dest'[f] = dest[f] /\ backup'[f] = backup[f]
                                          /\ prior'[f] = prior[f]
        /\ prior'[cur] = dest'[cur]
    BY <1>0, <1>2 DEF PrepareRecover, boot, flags, FilesTypeOK, DiskTypeOK, Progress, InstallPc
  <2>2. \A f \in prepared : Described(f)'
    BY <1>0, <2>1 DEF WholeInv, RollbackInv, Described
  <2> QED
    BY <2>1, <2>2 DEF WholeInv, RollbackInv, InstallInv, RolledBackWhole, InstalledWhole
<1>3. CASE PrepareSweep
  <2>1. /\ at = "sweep" /\ at' = "create" /\ prepared' = prepared \cup {cur}
        /\ UNCHANGED <<dest, backup, prior, cur, group, version, staged, backedUp, committed>>
        /\ staging'[cur] = Absent /\ \A f \in Files : f # cur => staging'[f] = staging[f]
        /\ cur \notin prepared /\ cur \in Files /\ backedUp = {} /\ committed = {}
        /\ backup[cur] = Absent
    BY <1>0, <1>3 DEF PrepareSweep, boot, flags, FilesTypeOK, DiskTypeOK, Progress, InstallPc, IInv,
      Names
  <2>2. \A f \in prepared' : Described(f)'
    BY <1>0, <2>1 DEF WholeInv, RollbackInv, Described
  <2>3. \A f \in prepared' \ {cur'} : staging'[f] = version'
    BY <1>0, <2>1 DEF WholeInv, InstallInv
  <2> QED
    BY <2>1, <2>2, <2>3 DEF WholeInv, RollbackInv, InstallInv, RolledBackWhole, InstalledWhole
<1>4. CASE WriteCreate
  <2>1. /\ at = "create" /\ at' = "write" /\ staged' = staged \cup {cur}
        /\ UNCHANGED <<dest, backup, prior, cur, group, version, prepared, backedUp, committed>>
        /\ \A f \in Files : f # cur => staging'[f] = staging[f]
    BY <1>0, <1>4 DEF WriteCreate, boot, FilesTypeOK, DiskTypeOK, InstallPc
  <2>2. \A f \in prepared' : Described(f)'
    BY <1>0, <2>1 DEF WholeInv, RollbackInv, Described
  <2>3. \A f \in prepared' \ {cur'} : staging'[f] = version'
    BY <1>0, <2>1 DEF WholeInv, InstallInv
  <2> QED
    BY <2>1, <2>2, <2>3 DEF WholeInv, RollbackInv, InstallInv, RolledBackWhole, InstalledWhole
<1>5. CASE WriteContents
  <2>1. /\ at = "write" /\ cur \in Files /\ cur \in prepared /\ cur \in group
        /\ UNCHANGED <<dest, backup, prior, group, version, prepared, staged, backedUp, committed>>
        /\ staging'[cur] = version /\ \A f \in Files : f # cur => staging'[f] = staging[f]
        /\ committed = {}
        /\ \/ at' = "recover" /\ cur' \notin prepared
           \/ at' = "backup" /\ group \subseteq prepared
    BY <1>0, <1>5, LoopsGoOn DEF WriteContents, boot, flags, FilesTypeOK, DiskTypeOK, InstallPc,
      Progress
  <2>2. \A f \in prepared' : Described(f)'
    <3>1. cur \in staged
      BY <2>1 DEF WholeInv, RollbackInv
    <3> QED
      BY <1>0, <2>1, <3>1 DEF WholeInv, RollbackInv, Described
  <2>3. \A f \in prepared' : staging'[f] = version'
    BY <1>0, <2>1 DEF WholeInv, InstallInv
  <2> QED
    BY <2>1, <2>2, <2>3 DEF WholeInv, RollbackInv, InstallInv, RolledBackWhole, InstalledWhole
<1>6. CASE CommitBackup
  <2>1. /\ at = "backup" /\ at' = "publish" /\ cur \in Files /\ cur \in group
        /\ group \subseteq prepared /\ cur \notin committed
        /\ UNCHANGED <<staging, prior, cur, group, version, prepared, staged, committed>>
        /\ \A f \in Files : f # cur => dest'[f] = dest[f] /\ backup'[f] = backup[f]
                                       /\ (f \in backedUp' <=> f \in backedUp)
        /\ IF dest[cur] # Absent
           THEN dest'[cur] = Absent /\ backup'[cur] = dest[cur] /\ cur \in backedUp'
           ELSE UNCHANGED <<dest, backup, backedUp>>
    BY <1>0, <1>6 DEF CommitBackup, boot, FilesTypeOK, DiskTypeOK, InstallPc, Progress
  <2>2. Described(cur) /\ cur \notin backedUp
    BY <1>0, <2>1 DEF WholeInv, RollbackInv, IInv, Progress
  <2>3. \A f \in prepared' : Described(f)'
    BY <1>0, <2>1, <2>2 DEF WholeInv, RollbackInv, Described
  <2>4. \A f \in committed : f # cur
    BY <2>1
  <2> QED
    BY <1>0, <2>1, <2>2, <2>3, <2>4
    DEF WholeInv, RollbackInv, InstallInv, RolledBackWhole, InstalledWhole, Described
<1>7. CASE CommitPublish
  <2>1. /\ at = "publish" /\ at' = "sync" /\ cur \in Files /\ cur \in group
        /\ group \subseteq prepared /\ cur \notin committed
        /\ UNCHANGED <<backup, prior, cur, group, version, prepared, backedUp>>
        /\ staged' = staged \ {cur} /\ committed' = committed \cup {cur}
        /\ dest'[cur] = staging[cur] /\ staging'[cur] = Absent
        /\ \A f \in Files : f # cur => dest'[f] = dest[f] /\ staging'[f] = staging[f]
    BY <1>0, <1>7 DEF CommitPublish, boot, FilesTypeOK, DiskTypeOK, InstallPc, Progress
  <2>2. \A f \in prepared' : Described(f)'
    BY <1>0, <2>1 DEF WholeInv, RollbackInv, Described
  <2>3. \A f \in group : IF f \in committed' THEN dest'[f] = version /\ staging'[f] = Absent
                                             ELSE staging'[f] = version
    BY <1>0, <2>1 DEF WholeInv, InstallInv
  <2> QED
    BY <2>1, <2>2, <2>3 DEF WholeInv, RollbackInv, InstallInv, RolledBackWhole, InstalledWhole
<1>8. CASE CommitSync
  <2>0. /\ at = "sync" /\ NextCommit(committed)
        /\ UNCHANGED <<dest, staging, backup, prior, group, version, prepared, staged, backedUp,
                       committed>>
    BY <1>8 DEF CommitSync, disk, boot, flags
  <2>1. \/ at' = "backup"
        \/ /\ at' = "drop_backup" /\ group \subseteq committed
           /\ \A g \in group : cur' <= g
           /\ cur' \in group
    BY <1>0, <2>0 DEF NextCommit, FirstOf
  <2>2. \A f \in prepared' : Described(f)'
    BY <2>0 DEF WholeInv, RollbackInv, Described
  <2>3. \A f \in group : f \notin backedUp => backup[f] = Absent
    BY <1>0, <2>0 DEF WholeInv, RollbackInv, Described, Progress
  <2>4. at' = "drop_backup" => \A f \in group : ~(f < cur')
    BY <1>0, <2>1
  <2> QED
    BY <1>0, <2>0, <2>1, <2>2, <2>3, <2>4
    DEF WholeInv, RollbackInv, InstallInv, RolledBackWhole, InstalledWhole
<1>9. CASE PrepareFails \/ WriteFails \/ CommitFails
  BY <1>9, UndoStarts DEF PrepareFails, WriteFails, CommitFails
<1>10. CASE UndoCommit
  <2>1. /\ at = "undo_commit" /\ at' = "undo_backup"
        /\ UNCHANGED <<staging, backup, prior, cur, prepared, staged, backedUp, committed, outcome>>
        /\ \A f \in Files : f # cur => dest'[f] = dest[f]
        /\ IF cur \in committed THEN dest'[cur] = Absent ELSE dest'[cur] = dest[cur]
    BY <1>0, <1>10 DEF UndoCommit, flags, FilesTypeOK, DiskTypeOK, InstallPc
  <2>2. outcome = "install" => UndoneUpTo'
    BY <1>0, <2>1 DEF WholeInv, RollbackInv, UndoneUpTo, Described, Restored
  <2> QED
    BY <2>1, <2>2 DEF WholeInv, RollbackInv, InstallInv, RolledBackWhole, InstalledWhole
<1>11. CASE UndoBackup
  <2>1. /\ at = "undo_backup" /\ at' = "undo_stage"
        /\ UNCHANGED <<staging, prior, cur, prepared, staged, backedUp, committed, outcome>>
        /\ \A f \in Files : f # cur => dest'[f] = dest[f] /\ backup'[f] = backup[f]
        /\ IF cur \in backedUp THEN dest'[cur] = backup[cur] /\ backup'[cur] = Absent
                               ELSE dest'[cur] = dest[cur] /\ backup'[cur] = backup[cur]
    BY <1>0, <1>11 DEF UndoBackup, flags, FilesTypeOK, DiskTypeOK, InstallPc
  <2>2. outcome = "install" => UndoneUpTo'
    BY <1>0, <2>1 DEF WholeInv, RollbackInv, UndoneUpTo, Described, Restored
  <2> QED
    BY <2>1, <2>2 DEF WholeInv, RollbackInv, InstallInv, RolledBackWhole, InstalledWhole
<1>12. CASE UndoStage
  <2>1. /\ at = "undo_stage" /\ at' = "undo_sync"
        /\ UNCHANGED <<dest, backup, prior, cur, prepared, staged, backedUp, committed, outcome>>
        /\ \A f \in Files : f # cur => staging'[f] = staging[f]
        /\ IF cur \in staged THEN staging'[cur] = Absent ELSE staging'[cur] = staging[cur]
    BY <1>0, <1>12 DEF UndoStage, flags, FilesTypeOK, DiskTypeOK, InstallPc
  <2>2. outcome = "install" => UndoneUpTo'
    BY <1>0, <2>1 DEF WholeInv, RollbackInv, UndoneUpTo, Described, Restored
  <2> QED
    BY <2>1, <2>2 DEF WholeInv, RollbackInv, InstallInv, RolledBackWhole, InstalledWhole
<1>13. CASE UndoSync
  BY <1>13, UndoGoesOn DEF UndoSync
<1>14. CASE UndoFails
  BY <1>14, UndoGoesOn DEF UndoFails
<1>15. CASE DropBackup
  <2>1. /\ at = "drop_backup" /\ at' = "settle"
        /\ UNCHANGED <<dest, staging, prior, cur, group, version, prepared, staged, backedUp,
                       committed, outcome>>
        /\ \A f \in Files : f # cur => backup'[f] = backup[f]
        /\ IF cur \in backedUp THEN backup'[cur] = Absent ELSE backup'[cur] = backup[cur]
    BY <1>0, <1>15 DEF DropBackup, boot, flags, FilesTypeOK, DiskTypeOK, InstallPc
  <2> QED
    BY <1>0, <2>1 DEF WholeInv, RollbackInv, InstallInv, RolledBackWhole, InstalledWhole, InstallPc
<1>16. CASE SettleSync
  <2>1. /\ at = "settle" /\ NextSettle(cur) /\ cur \in group
        /\ UNCHANGED <<dest, staging, backup, prior, group, version, prepared, staged, backedUp,
                       committed>>
    BY <1>0, <1>16 DEF SettleSync, disk, boot, flags, InstallPc
  <2>2. \A f \in group : /\ dest[f] = version /\ staging[f] = Absent
                         /\ f <= cur \/ f \notin backedUp => backup[f] = Absent
    BY <1>0, <2>1 DEF WholeInv, InstallInv
  <2>3. CASE /\ at' = "drop_backup" /\ cur' \in group /\ cur' > cur
             /\ \A g \in group : g > cur => cur' <= g
    <3>1. \A f \in group : f < cur' => f <= cur
      BY <1>0, <2>1, <2>3
    <3> QED
      BY <2>1, <2>2, <2>3, <3>1
      DEF WholeInv, RollbackInv, InstallInv, RolledBackWhole, InstalledWhole
  <2>4. CASE at' = "running" /\ outcome' = "installed" /\ \A g \in group : ~(g > cur)
    <3>1. \A f \in group : f <= cur
      BY <1>0, <2>1, <2>4
    <3> QED
      BY <2>1, <2>2, <2>4, <3>1
      DEF WholeInv, RollbackInv, InstallInv, RolledBackWhole, InstalledWhole
  <2> QED
    BY <1>0, <2>1, <2>3, <2>4, LoopsGoOn
<1>17. CASE SettleFails \/ Stop
  <2>1. at' = "down" \/ (at' \in {"running", "exited"} /\ outcome' = "cleanup")
    BY <1>17, Returned DEF SettleFails, Stop
  <2> QED
    BY <2>1 DEF WholeInv, RollbackInv, InstallInv, RolledBackWhole, InstalledWhole
<1>18. CASE BootWithoutFiles \/ \E req \in BOOLEAN : LoadFails(req)
  BY <1>1, <1>18 DEF BootWithoutFiles, LoadFails
<1>19. CASE \E req \in BOOLEAN, files \in (SUBSET Files) \ {{}}, v \in Versions :
              LoadGroup(req, files, v)
  BY <1>1, <1>19 DEF LoadGroup
<1>20. CASE UNCHANGED filesVars
  BY <1>20
  DEF filesVars, disk, boot, flags, WholeInv, RollbackInv, InstallInv, UndoneUpTo, Described, Restored,
      RolledBackWhole, InstalledWhole
<1> QED
  BY <1>2, <1>3, <1>4, <1>5, <1>6, <1>7, <1>8, <1>9, <1>10, <1>11, <1>12, <1>13, <1>14, <1>15,
     <1>16, <1>17, <1>18, <1>19, <1>20
  DEF FilesNext, Install

(* All or nothing (install_at, file_secrets.rs:74-121): a group that       *)
(* reports success is installed whole with nothing left behind, and one    *)
(* that reports Install after a rollback is put back exactly as each       *)
(* prepare found it, whatever calls failed on the way.                     *)
THEOREM GroupsAreWhole == FilesSpec => []GroupWhole
<1>1. FilesInit => WholeInv
  BY DEF FilesInit, WholeInv, RollbackInv, InstallInv, RolledBackWhole, InstalledWhole,
     PreparePc, CommitPc, UndoPc, TailPc
<1>2. IInv /\ WholeInv /\ [FilesNext]_filesVars => WholeInv'
  BY WholeNext
<1>3. WholeInv => GroupWhole
  BY DEF WholeInv, RollbackInv, InstallInv, GroupWhole
<1> QED
  BY <1>1, <1>2, <1>3, Invariance, PTL DEF FilesSpec
============================================================================
