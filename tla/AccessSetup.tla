---------------------------- MODULE AccessSetup ----------------------------
(***************************************************************************)
(* Runtime access setup, src/src/access.rs: the credential, the setup      *)
(* thread under its external watchdog, and the Tailscale bring-up with its *)
(* retries.  A setup step is one action whose outcome is chosen from what  *)
(* the step can answer.  Trees, auth-key files and daemons are named by    *)
(* the bring-up attempt that made them: every attempt has a fresh root.    *)
(***************************************************************************)
EXTENDS Naturals, FiniteSets, Sequences

CONSTANTS
  FetchAttempts,    \* PROVIDER_FETCH_ATTEMPTS
  BringUpAttempts,  \* BRING_UP_ATTEMPTS
  Boots             \* the bootstraps of the runs

ASSUME SetupAssumption ==
  /\ FetchAttempts \in Nat \ {0}
  /\ BringUpAttempts \in Nat \ {0}
  /\ Boots \subseteq [kind : {"none", "tailscale", "managed"},
                      signed : {"none", "ok", "broken"}, bound : BOOLEAN]

VARIABLES
  boot,         \* [kind, signed, bound]: the access block of the bootstrap
  environment,  \* the credential in the helper's environment
  credential,   \* what take_runtime_access_credential returned
  pc,           \* the setup thread
  caller,       \* "waiting", or what setup_runtime_access_within returned
  session,      \* "none", "open", "late" (answered to nobody), "stopped"
  late,         \* the signed setup deadline has passed
  fetches,      \* attempts made by the running retried_stage
  attempt,      \* attempts made by the bring_up stage
  trees,        \* roots that exist under /tmp
  keyFiles,     \* roots that hold the auth-key file
  sidecars,     \* attempts whose daemon (or Dropbear) runs
  ups,          \* attempts that ran `tailscale up`
  spent,        \* attempts whose `up` succeeded
  faults        \* history: faults of the host met so far

setupVars == <<boot, environment, credential, pc, caller, session, late, fetches,
               attempt, trees, keyFiles, sidecars, ups, spent, faults>>

Attempts == 0..(BringUpAttempts - 1)
NoSession == {"none", "stopped"}
Ended == {"done", "wedged"}

\* The codes of failures that no retry can improve.
FinalCodes == {"access_up_failed", "access_status_invalid", "access_status_unexpected"}

SetupInit ==
  /\ boot \in Boots
  /\ environment \in {"none", "ok", "other"}
  /\ credential = "none"
  /\ pc = "take"
  /\ caller = "waiting"
  /\ session = "none"
  /\ late = FALSE
  /\ fetches = 0
  /\ attempt = 0
  /\ trees = {}
  /\ keyFiles = {}
  /\ sidecars = {}
  /\ ups = {}
  /\ spent = {}
  /\ faults = {}
-----------------------------------------------------------------------------
(* The credential and the watchdog.                                        *)

\* The signed credential comes first.  A managed one that was consumed but
\* does not serialize leaves nothing to fall back to.
TakenCredential ==
  IF boot.signed = "ok" THEN "ok"
  ELSE IF boot.kind = "managed" /\ boot.signed = "broken" THEN "none"
  ELSE environment

TakeCredential ==
  /\ pc = "take"
  /\ credential' = TakenCredential
  /\ environment' = "none"
  /\ pc' = "spawn"
  /\ UNCHANGED <<boot, caller, session, late, fetches, attempt, trees, keyFiles,
                 sidecars, ups, spent, faults>>

\* run_with_external_deadline: no thread, no setup.
SpawnSetup ==
  /\ pc = "spawn"
  /\ \/ pc' = "entry" /\ UNCHANGED <<caller, faults>>
     \/ pc' = "done" /\ caller' = "access_setup_failed" /\ faults' = faults \cup {"thread"}
  /\ UNCHANGED <<boot, environment, credential, session, late, fetches, attempt, trees,
                 keyFiles, sidecars, ups, spent>>

\* The thread sends its result.  When the deadline has passed the session is
\* dropped, which stops it.
Deliver(r) ==
  /\ pc' = "done"
  /\ caller' = IF caller = "waiting" THEN r ELSE caller
  /\ session' = IF r # "session" THEN session
                ELSE IF caller = "waiting" THEN "open" ELSE "late"

\* Mutant: the bound is evaluated by the thread that does the work.
WatchdogCooperative ==
  /\ caller = "waiting"
  /\ pc \notin {"take", "spawn", "done", "wedged"}
  /\ caller' = "access_setup_timeout"
  /\ UNCHANGED <<boot, environment, credential, pc, session, late, fetches, attempt,
                 trees, keyFiles, sidecars, ups, spent, faults>>

Watchdog ==
  /\ caller = "waiting"
  /\ pc \notin {"take", "spawn", "done"}
  /\ caller' = "access_setup_timeout"
  /\ UNCHANGED <<boot, environment, credential, pc, session, late, fetches, attempt,
                 trees, keyFiles, sidecars, ups, spent, faults>>

PassDeadline ==
  /\ ~late
  /\ pc \notin {"take", "spawn", "done"}
  /\ late' = TRUE
  /\ UNCHANGED <<boot, environment, credential, pc, caller, session, fetches, attempt,
                 trees, keyFiles, sidecars, ups, spent, faults>>

\* A syscall on the PRoot-translated path never returns: the thread and all it
\* owns are leaked.
Wedge ==
  /\ pc \notin {"take", "spawn"} \cup Ended
  /\ pc' = "wedged"
  /\ faults' = faults \cup {"wedge"}
  /\ UNCHANGED <<boot, environment, credential, caller, session, late, fetches, attempt,
                 trees, keyFiles, sidecars, ups, spent>>

\* catch_unwind: unwinding drops the DaemonGuard; the root is not removed.
SetupPanics ==
  /\ boot.kind = "tailscale"
  /\ pc \notin {"take", "spawn"} \cup Ended
  /\ Deliver("access_setup_panicked")
  /\ sidecars' = sidecars \ {attempt}
  /\ faults' = faults \cup {"panic"}
  /\ UNCHANGED <<boot, environment, credential, late, fetches, attempt, trees, keyFiles,
                 ups, spent>>

\* setup_runtime_access_with_logger up to the provider's own setup.
Entry ==
  /\ pc = "entry"
  /\ IF boot.kind = "none" THEN Deliver(IF credential = "none" THEN "none"
                                        ELSE "access_setup_failed")
     ELSE IF credential # "ok" THEN Deliver("access_setup_failed")
     ELSE pc' = boot.kind /\ UNCHANGED <<caller, session>>
  /\ UNCHANGED <<boot, environment, credential, late, fetches, attempt, trees, keyFiles,
                 sidecars, ups, spent, faults>>
-----------------------------------------------------------------------------
(* Tailscale.                                                              *)

BindTailscale ==
  /\ pc = "tailscale"
  /\ IF ~boot.bound \/ late THEN Deliver("access_binding_invalid")
     ELSE pc' = "download" /\ UNCHANGED <<caller, session>>
  /\ UNCHANGED <<boot, environment, credential, late, fetches, attempt, trees, keyFiles,
                 sidecars, ups, spent, faults>>

\* download_artifact: the bytes are used only when size and digest are the
\* ones the bootstrap names.
DownloadOutcomes == IF late THEN {"failed"} ELSE {"ok", "failed"}

Download ==
  /\ pc = "download"
  /\ \E out \in DownloadOutcomes :
       IF out = "ok" THEN pc' = "root" /\ fetches' = 0 /\ UNCHANGED <<caller, session>>
       ELSE IF fetches + 1 >= FetchAttempts
            THEN Deliver("access_download_failed") /\ fetches' = 0
            ELSE fetches' = fetches + 1 /\ UNCHANGED <<pc, caller, session>>
  /\ UNCHANGED <<boot, environment, credential, late, attempt, trees, keyFiles, sidecars,
                 ups, spent, faults>>

\* retried_stage_until: a final error ends the loop.
AfterAttempt(c) ==
  IF attempt + 1 >= BringUpAttempts \/ c \in FinalCodes
  THEN Deliver(c) /\ UNCHANGED attempt
  ELSE pc' = "root" /\ attempt' = attempt + 1 /\ UNCHANGED <<caller, session>>

\* remove_dir_all of this attempt's root, best effort, with the key files
\* that are still there.
RemoveTree(keys, fs) ==
  \/ trees' = trees \ {attempt} /\ keyFiles' = keys \ {attempt} /\ faults' = fs
  \/ UNCHANGED trees /\ keyFiles' = keys /\ faults' = fs \cup {"unlink"}

\* Mutant: the daemon is left running when an attempt fails.
AttemptFailsOpen(c, keys, fs) ==
  /\ UNCHANGED sidecars
  /\ RemoveTree(keys, fs)
  /\ AfterAttempt(c)

\* setup_in_root returned Err(c): the DaemonGuard stops the daemon, then the
\* tree goes.
AttemptFails(c, keys, fs) ==
  /\ sidecars' = sidecars \ {attempt}
  /\ RemoveTree(keys, fs)
  /\ AfterAttempt(c)

\* private_root.  A directory whose mode cannot be set stays behind.
MakeRoot ==
  /\ pc = "root"
  /\ \/ /\ trees' = trees \cup {attempt}
        /\ pc' = "extract"
        /\ UNCHANGED <<attempt, caller, session, faults>>
     \/ /\ AfterAttempt("access_workspace_failed")
        /\ \/ UNCHANGED <<trees, faults>>
           \/ trees' = trees \cup {attempt} /\ faults' = faults \cup {"unlink"}
  /\ UNCHANGED <<boot, environment, credential, late, fetches, keyFiles, sidecars, ups, spent>>

\* extract_binaries answers both binaries, or a code that the stage records
\* and the propagated error loses.
ExtractOutcomes ==
  {"ok", "access_extract_open", "access_extract_read", "access_extract_layout",
   "access_extract_oversize", "access_extract_missing"}

Extract ==
  /\ pc = "extract"
  /\ \E out \in ExtractOutcomes :
       IF out = "ok"
       THEN pc' = "write" /\ fetches' = 0
            /\ UNCHANGED <<attempt, caller, session, trees, keyFiles, sidecars, faults>>
       ELSE IF fetches + 1 >= FetchAttempts
       THEN AttemptFails("access_extract_failed", keyFiles, faults) /\ fetches' = 0
       ELSE fetches' = fetches + 1
            /\ UNCHANGED <<pc, attempt, caller, session, trees, keyFiles, sidecars, faults>>
  /\ UNCHANGED <<boot, environment, credential, late, ups, spent>>

\* The binaries, the auth key and the state directory; the last may fail
\* after the key is on disk.
WriteFiles ==
  /\ pc = "write"
  /\ \/ pc' = "daemon" /\ keyFiles' = keyFiles \cup {attempt}
        /\ UNCHANGED <<attempt, caller, session, trees, sidecars, faults>>
     \/ \E keys \in {keyFiles, keyFiles \cup {attempt}} :
          AttemptFails("access_workspace_failed", keys, faults)
  /\ UNCHANGED <<boot, environment, credential, late, fetches, ups, spent>>

\* spawn_daemon, and the proxy port of an attachment with publications.
SpawnOutcomes ==
  {"ok", "access_sidecar_spawn_failed", "access_sidecar_exec_denied",
   "access_sidecar_exec_missing", "access_thread_spawn_failed"}

SpawnDaemon ==
  /\ pc = "daemon"
  /\ IF late THEN AttemptFails("access_deadline_exceeded", keyFiles, faults)
     ELSE \E out \in SpawnOutcomes :
            IF out = "ok"
            THEN pc' = "socket" /\ sidecars' = sidecars \cup {attempt}
                 /\ UNCHANGED <<attempt, caller, session, trees, keyFiles, faults>>
            ELSE AttemptFails(out, keyFiles, IF out = "access_thread_spawn_failed"
                                             THEN faults \cup {"thread"} ELSE faults)
  /\ UNCHANGED <<boot, environment, credential, late, fetches, ups, spent>>

\* sidecar_exit_error: the code of a daemon that ended while its socket was
\* awaited, by signal or by what it printed.
SidecarExit ==
  {"access_sidecar_syscall_blocked", "access_sidecar_crashed", "access_sidecar_exited"}

\* remove_file(auth_path), its failure ignored.
KeysAfterRemoval == {keyFiles, keyFiles \ {attempt}}

\* The socket wait: the daemon ended, the bound passed, or a probe in a child
\* answered with a status document.
SocketWait ==
  /\ pc = "socket"
  /\ \/ pc' = "up"
        /\ UNCHANGED <<attempt, caller, session, trees, keyFiles, sidecars, faults>>
     \/ \E c \in SidecarExit \cup {"access_sidecar_start_timeout"}, keys \in KeysAfterRemoval :
          AttemptFails(c, keys, faults)
     \/ AttemptFails("access_sidecar_failed", keyFiles, faults)
  /\ UNCHANGED <<boot, environment, credential, late, fetches, ups, spent>>

\* run_bounded(`up`): refused past the deadline, without a reader thread, or
\* by its exit status.  The file goes whatever happened, and its removal is
\* checked first.
UpOutcomes ==
  IF late THEN {"access_deadline_exceeded"}
  ELSE {"ok", "access_up_failed", "access_thread_spawn_failed"}

Up ==
  /\ pc = "up"
  /\ \E out \in UpOutcomes :
       LET fs == IF out = "access_thread_spawn_failed" THEN faults \cup {"thread"} ELSE faults
       IN /\ ups' = IF out = "access_deadline_exceeded" THEN ups ELSE ups \cup {attempt}
          /\ spent' = IF out = "ok" THEN spent \cup {attempt} ELSE spent
          /\ \/ AttemptFails("access_workspace_failed", keyFiles, fs \cup {"unlink"})
             \/ /\ out = "ok"
                /\ pc' = "status"
                /\ keyFiles' = keyFiles \ {attempt}
                /\ UNCHANGED <<attempt, caller, session, trees, sidecars, faults>>
             \/ out # "ok" /\ AttemptFails(out, keyFiles \ {attempt}, fs)
  /\ UNCHANGED <<boot, environment, credential, late, fetches>>

\* The status poll: the document decides, not the exit status.  A Starting
\* backend is read again; past its window it counts as unexpected.
StatusOutcomes ==
  IF late THEN {"access_deadline_exceeded"}
  ELSE {"running", "access_status_invalid", "access_status_unexpected",
        "access_thread_spawn_failed"}

Status ==
  /\ pc = "status"
  /\ \E out \in StatusOutcomes :
       IF out = "running"
       THEN Deliver("session")
            /\ UNCHANGED <<attempt, trees, keyFiles, sidecars, faults>>
       ELSE AttemptFails(out, keyFiles, IF out = "access_thread_spawn_failed"
                                        THEN faults \cup {"thread"} ELSE faults)
  /\ UNCHANGED <<boot, environment, credential, late, fetches, ups, spent>>
-----------------------------------------------------------------------------
(* The session's end.                                                      *)

\* DaemonProcess::stop, then the tree.
StopTailscale ==
  /\ boot.kind = "tailscale"
  /\ session \in {"open", "late"}
  /\ pc = "done"
  /\ session' = "stopped"
  /\ sidecars' = sidecars \ {attempt}
  /\ RemoveTree(keyFiles, faults)
  /\ UNCHANGED <<boot, environment, credential, pc, caller, late, fetches, attempt, ups, spent>>

\* A daemon that dies by itself is found by the supervision loop.
SidecarDies ==
  /\ pc = "done"
  /\ session = "open"
  /\ sidecars # {}
  /\ sidecars' = {}
  /\ UNCHANGED <<boot, environment, credential, pc, caller, session, late, fetches, attempt,
                 trees, keyFiles, ups, spent, faults>>

TailscaleStep ==
  \/ TakeCredential \/ SpawnSetup \/ Entry
  \/ BindTailscale \/ Download \/ MakeRoot \/ Extract \/ WriteFiles
  \/ SpawnDaemon \/ SocketWait \/ Up \/ Status
=============================================================================
