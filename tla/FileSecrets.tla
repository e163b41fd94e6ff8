---------------------------- MODULE FileSecrets ----------------------------
(***************************************************************************)
(* Installation of the customer's secret files before the customer command *)
(* starts (src/src/file_secrets.rs), as one boot of the helper after       *)
(* another drives it (hydrate_customer_secrets in src/src/job_secrets.rs). *)
(*                                                                         *)
(* Every system call that changes a directory is a step of its own, so a   *)
(* crash may fall between any two of them.  The directory entries survive  *)
(* a crash; the PreparedFile records do not.                               *)
(***************************************************************************)
EXTENDS Naturals

CONSTANTS
  Files,      \* destinations, numbered in the order of the BTreeMap
  Versions,   \* complete file contents
  Absent,     \* no directory entry
  Partial,    \* a staging file created but not completely written
  MaxBoots,   \* bound: boots of the helper
  MaxFaults   \* bound: system calls that fail

ASSUME FileSecretsAssumption ==
  /\ Files \subseteq Nat \ {0}
  /\ Absent \notin Versions
  /\ Partial \notin Versions
  /\ Absent # Partial
  /\ MaxBoots \in Nat
  /\ MaxFaults \in Nat

VARIABLES
  dest, staging, backup,        \* the directory entries of each destination
  at, cur,                      \* program counter and the file it works on
  required, group, version,     \* the boot's hint and its delivery
  prepared,                     \* PreparedFile records pushed so far
  staged, backedUp, committed,  \* their flags
  outcome,                      \* what install_at returned
  boots, faults,
  prior,                        \* history: contents when this boot prepared f
  saved                         \* history: contents f last settled on

disk == <<dest, staging, backup>>
flags == <<staged, backedUp, committed>>
boot == <<required, group, version>>
filesVars == <<disk, at, cur, boot, prepared, flags, outcome, boots, faults,
          prior, saved>>

Content == Versions \cup {Absent}
InstallPc == {"recover", "sweep", "create", "write", "backup", "publish",
              "sync", "undo_commit", "undo_backup", "undo_stage",
              "undo_sync", "drop_backup", "settle"}

\* "install" and "cleanup" are both Err(Install): the first is returned after
\* a rollback, the second from the cleanup loop that follows the commits.
Outcomes == {"none", "installed", "install", "cleanup", "rollback", "load"}

(* The type invariant, with the nesting of the PreparedFile records.       *)
DiskTypeOK ==
  /\ dest \in [Files -> Content]
  /\ staging \in [Files -> Content \cup {Partial}]
  /\ backup \in [Files -> Content]
  /\ prior \in [Files -> Content]
  /\ saved \in [Files -> Content]

ControlTypeOK ==
  /\ at \in InstallPc \cup {"down", "running", "exited"}
  /\ cur \in Files \cup {0}
  /\ at \in InstallPc => cur \in group
  /\ outcome \in Outcomes
  /\ boots \in 0..MaxBoots
  /\ faults \in 0..MaxFaults

RecordsTypeOK ==
  /\ required \in BOOLEAN
  /\ group \subseteq Files
  /\ version \in Versions
  /\ prepared \subseteq group
  /\ staged \subseteq prepared
  /\ backedUp \subseteq prepared
  /\ committed \subseteq prepared

FilesTypeOK == DiskTypeOK /\ ControlTypeOK /\ RecordsTypeOK

(* The file system is any set of regular files and no leftovers. *)
FilesInit ==
  /\ dest \in [Files -> Content]
  /\ staging = [f \in Files |-> Absent]
  /\ backup = [f \in Files |-> Absent]
  /\ at = "down"
  /\ cur = 0
  /\ required = FALSE
  /\ group = {}
  /\ version \in Versions
  /\ prepared = {}
  /\ staged = {}
  /\ backedUp = {}
  /\ committed = {}
  /\ outcome = "none"
  /\ boots = 0
  /\ faults = 0
  /\ prior = dest
  /\ saved = dest
----------------------------------------------------------------------------
(* Control: the loops of install_at take the files in map order, and the   *)
(* rollback takes them in reverse.                                         *)

FirstOf(S) == {f \in S : \A g \in S : f <= g}
LastOf(S) == {f \in S : \A g \in S : g <= f}

\* The customer starts unless a required delivery failed (exit 70).
Return(result) ==
  /\ outcome' = result
  /\ at' = IF result # "installed" /\ required THEN "exited" ELSE "running"
  /\ cur' = 0

\* Prepare the next file of the group, or start committing.
NextPrepare(done) ==
  /\ UNCHANGED outcome
  /\ \/ /\ group \ done # {}
        /\ cur' \in FirstOf(group \ done)
        /\ at' = "recover"
     \/ /\ group \ done = {}
        /\ cur' \in FirstOf(group)
        /\ at' = "backup"

\* Commit the next file, or start removing the backups.
NextCommit(done) ==
  /\ UNCHANGED outcome
  /\ \/ /\ group \ done # {}
        /\ cur' \in FirstOf(group \ done)
        /\ at' = "backup"
     \/ /\ group \ done = {}
        /\ cur' \in FirstOf(group)
        /\ at' = "drop_backup"

\* Mutant: success is reported once the first backup is gone.
NextSettleFirstOnly(done) == Return("installed")

\* Settle the next file, or report success.
NextSettle(done) ==
  LET rest == {f \in group : f > done} IN
  \/ /\ rest # {}
     /\ cur' \in FirstOf(rest)
     /\ at' = "drop_backup"
     /\ UNCHANGED outcome
  \/ /\ rest = {}
     /\ Return("installed")

\* Undo the next file in reverse order, or return the error.
NextUndo(rest, result) ==
  \/ /\ rest # {}
     /\ cur' \in LastOf(rest)
     /\ at' = "undo_commit"
     /\ outcome' = result
  \/ /\ rest = {}
     /\ Return(result)

\* A failing call leaves the disk alone and starts the rollback.
Fault ==
  /\ faults < MaxFaults
  /\ faults' = faults + 1

Abort(records) ==
  /\ Fault
  /\ NextUndo(records, "install")
  /\ UNCHANGED <<disk, prepared, boots, boot, prior, saved>>
----------------------------------------------------------------------------
(* A boot: no customer-secret hint or a delivery without files, a delivery *)
(* that fails before any file is touched, or a group of files to install.  *)

StartBoot ==
  /\ at = "down"
  /\ boots < MaxBoots
  /\ boots' = boots + 1
  /\ prepared' = {}
  /\ staged' = {}
  /\ backedUp' = {}
  /\ committed' = {}

BootWithoutFiles ==
  /\ StartBoot
  /\ at' = "running"
  /\ outcome' = "none"
  /\ required' = FALSE
  /\ group' = {}
  /\ UNCHANGED <<disk, cur, version, faults, prior, saved>>

LoadFails(req) ==
  /\ StartBoot
  /\ required' = req
  /\ group' = {}
  /\ outcome' = "load"
  /\ at' = IF req THEN "exited" ELSE "running"
  /\ UNCHANGED <<disk, cur, version, faults, prior, saved>>

LoadGroup(req, files, v) ==
  /\ StartBoot
  /\ required' = req
  /\ group' = files
  /\ version' = v
  /\ cur' \in FirstOf(files)
  /\ at' = "recover"
  /\ outcome' = "none"
  /\ prior' = dest
  /\ UNCHANGED <<disk, faults, saved>>

\* Mutant: an old backup is unlinked instead of renamed back.
PrepareRecoverDiscards ==
  /\ at = "recover"
  /\ backup' = [backup EXCEPT ![cur] = Absent]
  /\ prior' = [prior EXCEPT ![cur] = dest[cur]]
  /\ at' = "sweep"
  /\ UNCHANGED <<dest, staging, cur, boot, prepared, flags, outcome, boots,
                 faults, saved>>

(* PreparedFile::prepare: put an interrupted replacement's backup back,    *)
(* then remove its staging file.                                           *)
PrepareRecover ==
  /\ at = "recover"
  /\ IF backup[cur] # Absent
     THEN /\ dest' = [dest EXCEPT ![cur] = backup[cur]]
          /\ backup' = [backup EXCEPT ![cur] = Absent]
     ELSE UNCHANGED <<dest, backup>>
  /\ prior' = [prior EXCEPT ![cur] = dest'[cur]]
  /\ at' = "sweep"
  /\ UNCHANGED <<staging, cur, boot, prepared, flags, outcome, boots, faults,
                 saved>>

PrepareSweep ==
  /\ at = "sweep"
  /\ staging' = [staging EXCEPT ![cur] = Absent]
  /\ prepared' = prepared \cup {cur}
  /\ at' = "create"
  /\ UNCHANGED <<dest, backup, cur, boot, flags, outcome, boots, faults,
                 prior, saved>>

PrepareFails ==
  /\ at \in {"recover", "sweep"}
  /\ Abort(prepared)
  /\ UNCHANGED flags

(* PreparedFile::write: exclusive creation (O_EXCL), then the contents.    *)
WriteCreate ==
  /\ at = "create"
  /\ staging[cur] = Absent
  /\ staging' = [staging EXCEPT ![cur] = Partial]
  /\ staged' = staged \cup {cur}
  /\ at' = "write"
  /\ UNCHANGED <<dest, backup, cur, boot, prepared, backedUp, committed,
                 outcome, boots, faults, prior, saved>>

WriteContents ==
  /\ at = "write"
  /\ staging' = [staging EXCEPT ![cur] = version]
  /\ NextPrepare(prepared)
  /\ UNCHANGED <<dest, backup, boot, prepared, flags, boots, faults, prior,
                 saved>>

WriteFails ==
  /\ at \in {"create", "write"}
  /\ Abort(prepared)
  /\ UNCHANGED flags

(* PreparedFile::commit: move an existing file aside (RENAME_NOREPLACE),   *)
(* publish, sync.                                                          *)
CommitBackup ==
  /\ at = "backup"
  /\ dest[cur] # Absent => backup[cur] = Absent
  /\ IF dest[cur] # Absent
     THEN /\ backup' = [backup EXCEPT ![cur] = dest[cur]]
          /\ dest' = [dest EXCEPT ![cur] = Absent]
          /\ backedUp' = backedUp \cup {cur}
     ELSE UNCHANGED <<backup, dest, backedUp>>
  /\ at' = "publish"
  /\ UNCHANGED <<staging, cur, boot, prepared, staged, committed, outcome,
                 boots, faults, prior, saved>>

CommitPublish ==
  /\ at = "publish"
  /\ dest' = [dest EXCEPT ![cur] = staging[cur]]
  /\ staging' = [staging EXCEPT ![cur] = Absent]
  /\ staged' = staged \ {cur}
  /\ committed' = committed \cup {cur}
  /\ at' = "sync"
  /\ UNCHANGED <<backup, cur, boot, prepared, backedUp, outcome, boots,
                 faults, prior, saved>>

CommitSync ==
  /\ at = "sync"
  /\ NextCommit(committed)
  /\ UNCHANGED <<disk, boot, prepared, flags, boots, faults, prior, saved>>

CommitFails ==
  /\ at \in {"backup", "publish", "sync"}
  /\ Abort(prepared)
  /\ UNCHANGED flags

(* PreparedFile::rollback; a failing call skips the rest of this file.     *)
UndoCommit ==
  /\ at = "undo_commit"
  /\ dest' = IF cur \in committed THEN [dest EXCEPT ![cur] = Absent] ELSE dest
  /\ at' = "undo_backup"
  /\ UNCHANGED <<staging, backup, cur, boot, prepared, flags, outcome, boots,
                 faults, prior, saved>>

UndoBackup ==
  /\ at = "undo_backup"
  /\ IF cur \in backedUp
     THEN /\ dest' = [dest EXCEPT ![cur] = backup[cur]]
          /\ backup' = [backup EXCEPT ![cur] = Absent]
     ELSE UNCHANGED <<dest, backup>>
  /\ at' = "undo_stage"
  /\ UNCHANGED <<staging, cur, boot, prepared, flags, outcome, boots, faults,
                 prior, saved>>

UndoStage ==
  /\ at = "undo_stage"
  /\ staging' =
       IF cur \in staged THEN [staging EXCEPT ![cur] = Absent] ELSE staging
  /\ at' = "undo_sync"
  /\ UNCHANGED <<dest, backup, cur, boot, prepared, flags, outcome, boots,
                 faults, prior, saved>>

UndoSync ==
  /\ at = "undo_sync"
  /\ NextUndo({f \in prepared : f < cur}, outcome)
  /\ UNCHANGED <<disk, boot, prepared, flags, boots, faults, prior, saved>>

UndoFails ==
  /\ at \in {"undo_commit", "undo_backup", "undo_stage", "undo_sync"}
  /\ Fault
  /\ NextUndo({f \in prepared : f < cur}, "rollback")
  /\ UNCHANGED <<disk, boot, prepared, flags, boots, prior, saved>>

(* The tail of install_at: remove the backups.  A failure here returns an  *)
(* error without a rollback.                                               *)
DropBackup ==
  /\ at = "drop_backup"
  /\ backup' =
       IF cur \in backedUp THEN [backup EXCEPT ![cur] = Absent] ELSE backup
  /\ saved' = [saved EXCEPT ![cur] = dest[cur]]
  /\ at' = "settle"
  /\ UNCHANGED <<dest, staging, cur, boot, prepared, flags, outcome, boots,
                 faults, prior>>

SettleSync ==
  /\ at = "settle"
  /\ NextSettle(cur)
  /\ UNCHANGED <<disk, boot, prepared, flags, boots, faults, prior, saved>>

SettleFails ==
  /\ at \in {"drop_backup", "settle"}
  /\ Fault
  /\ Return("cleanup")
  /\ UNCHANGED <<disk, boot, prepared, flags, boots, prior, saved>>

(* The helper is killed, or the job ends: only the directories remain.     *)
Stop ==
  /\ at # "down"
  /\ at' = "down"
  /\ cur' = 0
  /\ UNCHANGED <<disk, boot, prepared, flags, outcome, boots, faults, prior,
                 saved>>

Install ==
  \/ PrepareRecover \/ PrepareSweep \/ PrepareFails
  \/ WriteCreate \/ WriteContents \/ WriteFails
  \/ CommitBackup \/ CommitPublish \/ CommitSync \/ CommitFails
  \/ UndoCommit \/ UndoBackup \/ UndoStage \/ UndoSync \/ UndoFails
  \/ DropBackup \/ SettleSync \/ SettleFails

FilesNext ==
  \/ BootWithoutFiles
  \/ \E req \in BOOLEAN : LoadFails(req)
  \/ \E req \in BOOLEAN, files \in (SUBSET Files) \ {{}}, v \in Versions :
       LoadGroup(req, files, v)
  \/ Install
  \/ Stop

FilesSpec == FilesInit /\ [][FilesNext]_filesVars
----------------------------------------------------------------------------
(* Properties. *)

(* The customer and the next boot never see a half-written secret: only    *)
(* complete contents reach a destination or a backup, wherever the helper  *)
(* is killed.                                                              *)
NoTornFile == \A f \in Files : Partial \notin {dest[f], backup[f]}

(* Whatever crashes, failed calls and later groups intervene, the contents *)
(* a destination last settled on are at the destination or in the backup   *)
(* that the next prepare puts back.                                        *)
Recoverable ==
  \A f \in Files : saved[f] # Absent => saved[f] \in {dest[f], backup[f]}

(* prepare undoes an interrupted replacement exactly: the contents a       *)
(* commit then moves aside, and a rollback puts back, are the settled      *)
(* ones.                                                                   *)
RecoveryExact ==
  at \in InstallPc \ {"drop_backup", "settle"} =>
    \A f \in prepared : saved[f] # Absent => prior[f] = saved[f]

(* The deterministic staging and backup names are free when O_EXCL and     *)
(* RENAME_NOREPLACE demand it, so leftovers never block an installation.   *)
NamesFree ==
  /\ at = "create" => staging[cur] = Absent
  /\ at = "backup" => backup[cur] = Absent

(* A successful installation is the whole group and leaves nothing behind. *)
InstalledWhole ==
  at = "running" /\ outcome = "installed" =>
    \A f \in group :
      dest[f] = version /\ staging[f] = Absent /\ backup[f] = Absent

(* An installation that reports Install after its rollback has put every   *)
(* prepared destination back as it found it, and keeps no staging file.    *)
RolledBackWhole ==
  at \in {"running", "exited"} /\ outcome = "install" =>
    \A f \in prepared :
      dest[f] = prior[f] /\ staging[f] = Absent /\ backup[f] = Absent

(* Secrets survive: over any boots, crashes and failing calls the settled  *)
(* contents are kept and recovered exactly, and no leftover of an earlier  *)
(* boot blocks the next (prepare, commit and rollback of file_secrets.rs). *)
SecretsKept == FilesTypeOK /\ Recoverable /\ RecoveryExact /\ NamesFree

(* All or nothing: a group that reports success is installed whole, one    *)
(* that reports Install after a rollback is put back whole (install_at).   *)
GroupWhole == InstalledWhole /\ RolledBackWhole
============================================================================
