----------------------- MODULE AccessLifecycleProofs -----------------------
(***************************************************************************)
(* Proofs that setting up and stopping runtime access leaves nothing       *)
(* behind, that a session is whole when it is handed over, and that the    *)
(* connector and the endpoints report what happened, for any bootstraps,   *)
(* any retry budgets and any set of publications.                          *)
(***************************************************************************)
EXTENDS AccessLifecycle, SequenceTheorems, FiniteSetTheorems, TLAPS

(* The control points of the setup thread by provider, those at which no   *)
(* root of this attempt exists yet, those at which one must, and those at  *)
(* which no daemon runs.                                                   *)
TailscalePc == {"tailscale", "download", "root", "extract", "write", "daemon", "socket",
                "up", "status"}
ManagedPc == {"managed", "toolchain", "hostkey", "dropbear", "connector", "register", "join"}
BeforeRoot == {"take", "spawn", "entry", "tailscale", "download", "root", "managed"}
AfterRoot == (TailscalePc \cup ManagedPc) \ BeforeRoot
NoDaemon == BeforeRoot \cup {"extract", "write", "daemon", "toolchain", "hostkey", "dropbear"}
Pcs == TailscalePc \cup ManagedPc \cup {"take", "spawn", "entry"} \cup Ended

(* The types of the setup.                                                 *)
SetupTypes ==
  /\ boot \in Boots
  /\ environment \in {"none", "ok", "other"}
  /\ credential \in {"none", "ok", "other"}
  /\ pc \in Pcs
  /\ session \in {"none", "open", "late", "stopped"}
  /\ late \in BOOLEAN
  /\ fetches \in 0..(FetchAttempts - 1)
  /\ attempt \in Attempts
  /\ trees \subseteq Attempts
  /\ keyFiles \subseteq trees
  /\ sidecars \subseteq {attempt}
  /\ spent \subseteq ups
  /\ ups \subseteq Attempts

(* The provider's own steps run for that provider, and a session exists    *)
(* only after the thread has ended.                                        *)
KindInv ==
  /\ pc \in TailscalePc => boot.kind = "tailscale"
  /\ pc \in ManagedPc => boot.kind = "managed"
  /\ session # "none" => pc = "done"
  /\ session = "open" => caller = "session"

(* A daemon runs only from its start to the end of its attempt.            *)
DaemonInv ==
  /\ pc \in NoDaemon => sidecars = {}
  /\ (pc = "done" /\ session \in NoSession) => sidecars = {}

(* Where a root is, and where the auth key no longer is.                   *)
TreeInv ==
  /\ pc \in AfterRoot \/ session = "open" => attempt \in trees
  /\ pc = "status" \/ session = "open" => attempt \notin keyFiles
  /\ boot.kind = "managed" => keyFiles = {}
  /\ faults \cap {"unlink", "panic"} = {} =>
       /\ trees \subseteq {attempt}
       /\ pc \in BeforeRoot => trees = {}
       /\ (pc = "done" /\ session \in NoSession) => trees = {}

(* Without a fault, `up` has run once at most, and is not run again: the   *)
(* thread is past it, or the deadline is.                                  *)
UpInv ==
  faults = {} =>
    /\ \A a, b \in ups : a = b
    /\ (~late /\ pc \notin {"status", "done"}) => ups = {}

SetupInv == SetupTypes /\ KindInv /\ DaemonInv /\ TreeInv /\ UpInv
-----------------------------------------------------------------------------
(* Deliver ends the thread; only a session it hands over is one.           *)
LEMMA Delivered ==
  ASSUME NEW r, Deliver(r)
  PROVE  /\ pc' = "done"
         /\ r # "session" => session' = session
         /\ r = "session" => session' \in {"open", "late"}
         /\ session' = "open" /\ session # "open" => caller' = "session"
         /\ caller # "waiting" => caller' = caller
BY DEF Deliver

(* A failed attempt: the daemon is stopped, the root goes or is blamed on  *)
(* a fault, and then the thread ends or starts over with a fresh root.     *)
LEMMA AttemptEnds ==
  ASSUME SetupTypes, NEW c, NEW keys, NEW fs, c # "session", AttemptFails(c, keys, fs)
  PROVE  /\ sidecars' = sidecars \ {attempt}
         /\ \/ trees' = trees \ {attempt} /\ keyFiles' = keys \ {attempt} /\ faults' = fs
            \/ trees' = trees /\ keyFiles' = keys /\ faults' = fs \cup {"unlink"}
         /\ session' = session
         /\ \/ pc' = "done" /\ attempt' = attempt
            \/ /\ pc' = "root" /\ attempt' = attempt + 1 /\ caller' = caller
               /\ attempt + 1 < BringUpAttempts
               /\ c \notin FinalCodes
BY SetupAssumption DEF AttemptFails, RemoveTree, AfterAttempt, Deliver, SetupTypes, Attempts

(* A failed attempt keeps the invariant whatever it failed with, as long   *)
(* as the key it may have spent is not spent again.                        *)
LEMMA FailureKeeps ==
  ASSUME SetupInv, pc \in AfterRoot, pc \in TailscalePc,
         NEW c, NEW keys \in SUBSET trees, NEW fs, c # "session",
         AttemptFails(c, keys, fs), faults \subseteq fs,
         UNCHANGED <<boot, environment, credential, late>>,
         fetches' \in 0..(FetchAttempts - 1),
         spent' \subseteq ups', ups' \subseteq Attempts,
         fs = {} => /\ \A a, b \in ups' : a = b
                    /\ late \/ c \in FinalCodes \/ ups' = {}
  PROVE  SetupInv'
<1> DEFINE root == \/ trees' = trees \ {attempt} /\ keyFiles' = keys \ {attempt} /\ faults' = fs
                   \/ trees' = trees /\ keyFiles' = keys /\ faults' = fs \cup {"unlink"}
           next == \/ pc' = "done" /\ attempt' = attempt
                   \/ /\ pc' = "root" /\ attempt' = attempt + 1 /\ caller' = caller
                      /\ attempt + 1 < BringUpAttempts
                      /\ c \notin FinalCodes
<1>1. sidecars' = sidecars \ {attempt} /\ root /\ session' = session /\ next
  BY AttemptEnds DEF SetupInv
<1>2. session = "none" /\ boot.kind = "tailscale" /\ sidecars' = {} /\ session' = "none"
  <2>1. pc # "done"
    BY DEF TailscalePc
  <2>2. sidecars \subseteq {attempt}
    BY DEF SetupInv, SetupTypes
  <2> QED BY <1>1, <2>1, <2>2 DEF SetupInv, KindInv
<1>3. attempt \in Nat /\ attempt' \in Attempts
  BY <1>1, SetupAssumption DEF SetupInv, SetupTypes, Attempts
<1>4. pc' \in {"done", "root"}
  BY <1>1
<1>5. SetupTypes'
  <2>1. trees' \subseteq Attempts /\ keyFiles' \subseteq trees'
    BY <1>1 DEF SetupInv, SetupTypes
  <2> QED BY <2>1, <1>2, <1>3, <1>4 DEF SetupInv, SetupTypes, Pcs, Ended, TailscalePc
<1>6. KindInv'
  BY <1>2, <1>4 DEF KindInv, TailscalePc, ManagedPc
<1>7. DaemonInv'
  BY <1>2 DEF DaemonInv
<1>8. TreeInv'
  <2>1. pc' \notin AfterRoot /\ pc' # "status"
    BY <1>4 DEF AfterRoot, BeforeRoot, TailscalePc, ManagedPc
  <2>2. ASSUME faults' \cap {"unlink", "panic"} = {} PROVE trees' = {}
    <3>1. faults \cap {"unlink", "panic"} = {} /\ trees' = trees \ {attempt}
      BY <1>1, <2>2
    <3> QED BY <3>1 DEF SetupInv, TreeInv
  <2> QED BY <1>2, <2>1, <2>2 DEF TreeInv
<1>9. UpInv'
  <2> SUFFICES ASSUME faults' = {} PROVE /\ \A a, b \in ups' : a = b
                                         /\ late' \/ pc' = "done" \/ ups' = {}
    BY DEF UpInv
  <2>1. fs = {}
    BY <1>1
  <2> QED BY <2>1, <1>1
<1> QED BY <1>5, <1>6, <1>7, <1>8, <1>9 DEF SetupInv

(* A step that only moves the thread forward, at most answering the caller *)
(* with something that is no session, and changes no root, key, daemon or  *)
(* `up`.                                                                   *)
LEMMA ForwardKeeps ==
  ASSUME SetupInv, session = "none", session' = "none", pc' \in Pcs,
         boot' = boot, late' \in BOOLEAN, late => late',
         environment' \in {"none", "ok", "other"}, credential' \in {"none", "ok", "other"},
         fetches' \in 0..(FetchAttempts - 1),
         UNCHANGED <<attempt, trees, keyFiles, sidecars, ups, spent>>,
         faults \subseteq faults',
         pc' \in TailscalePc => boot.kind = "tailscale",
         pc' \in ManagedPc => boot.kind = "managed",
         pc' \in NoDaemon \cup {"done"} => sidecars = {},
         pc' \in AfterRoot => pc \in AfterRoot,
         pc' = "status" => pc = "status",
         pc' \in BeforeRoot => pc \in BeforeRoot,
         pc' = "done" /\ faults' \cap {"unlink", "panic"} = {} => trees = {},
         pc \in {"status", "done"} /\ faults' = {} => pc' \in {"status", "done"}
  PROVE  SetupInv'
<1>1. SetupTypes'
  BY DEF SetupInv, SetupTypes
<1>2. KindInv'
  BY DEF SetupInv, KindInv
<1>3. DaemonInv'
  BY DEF SetupInv, DaemonInv
<1>4. TreeInv'
  BY DEF SetupInv, TreeInv
<1>5. UpInv'
  <2> SUFFICES ASSUME faults' = {} PROVE /\ \A a, b \in ups' : a = b
                                         /\ (~late' /\ pc' \notin {"status", "done"}) => ups' = {}
    BY DEF UpInv
  <2>1. faults = {}
    OBVIOUS
  <2> QED BY <2>1 DEF SetupInv, UpInv
<1> QED BY <1>1, <1>2, <1>3, <1>4, <1>5 DEF SetupInv
-----------------------------------------------------------------------------
(* The steps up to the first root.                                         *)
LEMMA EarlyKeeps ==
  ASSUME SetupInv, TakeCredential \/ SpawnSetup \/ Entry \/ BindTailscale \/ Download
  PROVE  SetupInv'
<1> DEFINE bootOf == [kind : {"none", "tailscale", "managed"},
                      signed : {"none", "ok", "broken"}, bound : BOOLEAN]
<1>1. boot \in bootOf
  BY SetupAssumption DEF SetupInv, SetupTypes
<1>2. pc \in {"take", "spawn", "entry", "tailscale", "download"}
  BY DEF TakeCredential, SpawnSetup, Entry, BindTailscale, Download
<1>3. session = "none" /\ sidecars = {} /\ pc \in BeforeRoot
  BY <1>2 DEF SetupInv, KindInv, DaemonInv, NoDaemon, BeforeRoot
<1>4. pc' \in {"spawn", "entry", "done", "tailscale", "managed", "download", "root"} /\ session' = "none"
  BY <1>1, <1>2, <1>3 DEF TakeCredential, SpawnSetup, Entry, BindTailscale, Download, Deliver
<1>5. UNCHANGED <<boot, late, attempt, trees, keyFiles, sidecars, ups, spent>>
  BY DEF TakeCredential, SpawnSetup, Entry, BindTailscale, Download
<1>6. environment' \in {"none", "ok", "other"} /\ credential' \in {"none", "ok", "other"}
  BY <1>1 DEF TakeCredential, SpawnSetup, Entry, BindTailscale, Download, SetupInv, SetupTypes,
              TakenCredential
<1>7. fetches' \in 0..(FetchAttempts - 1) /\ faults \subseteq faults'
  BY SetupAssumption DEF TakeCredential, SpawnSetup, Entry, BindTailscale, Download, SetupInv, SetupTypes
<1>8. /\ pc' \in {"tailscale", "download", "root"} => boot.kind = "tailscale"
      /\ pc' = "managed" => boot.kind = "managed"
  BY <1>1, <1>2
  DEF TakeCredential, SpawnSetup, Entry, BindTailscale, Download, Deliver, SetupInv, KindInv, TailscalePc
<1>9. faults' \cap {"unlink", "panic"} = {} => trees = {}
  BY <1>3, <1>7 DEF SetupInv, TreeInv
<1>10. pc' \in Pcs /\ late' \in BOOLEAN
  BY <1>4, <1>5 DEF Pcs, Ended, TailscalePc, ManagedPc, SetupInv, SetupTypes
<1>11. pc' \notin AfterRoot /\ pc' # "status" /\ pc \notin {"status", "done"}
  BY <1>2, <1>4 DEF AfterRoot, BeforeRoot, TailscalePc, ManagedPc
<1>12. /\ pc' \in TailscalePc => boot.kind = "tailscale"
       /\ pc' \in ManagedPc => boot.kind = "managed"
  BY <1>4, <1>8 DEF TailscalePc, ManagedPc
<1> QED
  BY <1>3, <1>4, <1>5, <1>6, <1>7, <1>9, <1>10, <1>11, <1>12, ForwardKeeps

(* private_root.                                                           *)
LEMMA RootKeeps == ASSUME SetupInv, MakeRoot PROVE SetupInv'
<1>1. pc = "root" /\ session = "none" /\ sidecars = {} /\ boot.kind = "tailscale"
  BY DEF MakeRoot, SetupInv, KindInv, DaemonInv, NoDaemon, BeforeRoot, TailscalePc
<1>2. session' = "none" /\ sidecars' = {}
      /\ UNCHANGED <<boot, environment, credential, late, fetches, keyFiles, ups, spent>>
      /\ faults \subseteq faults' /\ trees' \in {trees, trees \cup {attempt}}
  BY <1>1 DEF MakeRoot, AfterAttempt, Deliver
<1>3. attempt \in Nat /\ attempt' \in Attempts
  BY SetupAssumption DEF SetupInv, SetupTypes, Attempts, MakeRoot, AfterAttempt
<1>4. \/ pc' = "extract" /\ attempt' = attempt /\ trees' = trees \cup {attempt} /\ faults' = faults
      \/ /\ pc' \in {"done", "root"}
         /\ \/ trees' = trees /\ faults' = faults
            \/ "unlink" \in faults'
  BY DEF MakeRoot, AfterAttempt, Deliver
<1>5. SetupTypes'
  BY <1>1, <1>2, <1>3, <1>4 DEF SetupInv, SetupTypes, Pcs, Ended, TailscalePc
<1>6. KindInv'
  BY <1>1, <1>2, <1>4 DEF KindInv, TailscalePc, ManagedPc
<1>7. DaemonInv'
  BY <1>2 DEF DaemonInv
<1>8. TreeInv'
  <2>1. CASE pc' = "extract"
    <3>1. attempt' = attempt /\ trees' = trees \cup {attempt} /\ faults' = faults
      BY <2>1, <1>4
    <3> QED BY <1>1, <1>2, <2>1, <3>1 DEF TreeInv, SetupInv, BeforeRoot
  <2>2. CASE pc' \in {"done", "root"}
    <3>1. pc' \notin AfterRoot /\ pc' # "status"
      BY <2>2 DEF AfterRoot, BeforeRoot, TailscalePc, ManagedPc
    <3>2. ASSUME faults' \cap {"unlink", "panic"} = {} PROVE trees' = {}
      BY <3>2, <1>1, <1>2, <1>4, <2>2 DEF SetupInv, TreeInv, BeforeRoot
    <3> QED BY <1>1, <1>2, <3>1, <3>2 DEF TreeInv
  <2> QED BY <2>1, <2>2, <1>4
<1>9. UpInv'
  BY <1>1, <1>2, <1>4 DEF SetupInv, UpInv
<1> QED BY <1>5, <1>6, <1>7, <1>8, <1>9 DEF SetupInv

(* extract_binaries with its retries.                                      *)
LEMMA ExtractKeeps == ASSUME SetupInv, Extract PROVE SetupInv'
<1>1. /\ pc = "extract" /\ session = "none" /\ sidecars = {} /\ boot.kind = "tailscale"
      /\ pc \in AfterRoot /\ pc \in TailscalePc
  BY DEF Extract, SetupInv, KindInv, DaemonInv, NoDaemon, BeforeRoot, AfterRoot, TailscalePc
<1>2. UNCHANGED <<boot, environment, credential, late, ups, spent>>
  BY DEF Extract
<1>3. fetches' \in 0..(FetchAttempts - 1)
  BY SetupAssumption DEF Extract, SetupInv, SetupTypes
<1>4. CASE AttemptFails("access_extract_failed", keyFiles, faults)
  <2>1. keyFiles \in SUBSET trees /\ spent \subseteq ups /\ ups \subseteq Attempts
    BY DEF SetupInv, SetupTypes
  <2>2. faults = {} => (\A a, b \in ups : a = b) /\ (late \/ ups = {})
    BY <1>1 DEF SetupInv, UpInv
  <2> QED BY <1>1, <1>2, <1>3, <1>4, <2>1, <2>2, FailureKeeps
<1>5. CASE /\ pc' \in {"extract", "write"}
           /\ UNCHANGED <<attempt, caller, session, trees, keyFiles, sidecars, faults>>
  <2>1. pc' \in Pcs /\ pc' \in TailscalePc /\ pc' \notin ManagedPc /\ pc' \notin BeforeRoot
        /\ pc' # "done" /\ pc' # "status"
    BY <1>5 DEF Pcs, TailscalePc, ManagedPc, BeforeRoot
  <2>2. late' \in BOOLEAN /\ environment' \in {"none", "ok", "other"} /\ credential' \in {"none", "ok", "other"}
    BY <1>2 DEF SetupInv, SetupTypes
  <2> QED BY <1>1, <1>2, <1>3, <1>5, <2>1, <2>2, ForwardKeeps
<1> QED BY <1>1, <1>4, <1>5 DEF Extract

(* The files of an attempt.                                                *)
LEMMA WriteKeeps == ASSUME SetupInv, WriteFiles PROVE SetupInv'
<1>1. /\ pc = "write" /\ session = "none" /\ sidecars = {} /\ boot.kind = "tailscale"
      /\ pc \in AfterRoot /\ pc \in TailscalePc /\ attempt \in trees
  BY DEF WriteFiles, SetupInv, KindInv, DaemonInv, TreeInv, NoDaemon, BeforeRoot, AfterRoot, TailscalePc
<1>2. UNCHANGED <<boot, environment, credential, late, fetches, ups, spent>>
  BY DEF WriteFiles
<1>3. ASSUME NEW keys \in {keyFiles, keyFiles \cup {attempt}},
             AttemptFails("access_workspace_failed", keys, faults)
      PROVE  SetupInv'
  <2>1. /\ keys \in SUBSET trees /\ spent \subseteq ups /\ ups \subseteq Attempts
        /\ fetches \in 0..(FetchAttempts - 1)
    BY <1>1 DEF SetupInv, SetupTypes
  <2>2. faults = {} => (\A a, b \in ups : a = b) /\ (late \/ ups = {})
    BY <1>1 DEF SetupInv, UpInv
  <2> QED BY <1>1, <1>2, <1>3, <2>1, <2>2, FailureKeeps
<1>4. CASE /\ pc' = "daemon" /\ keyFiles' = keyFiles \cup {attempt}
           /\ UNCHANGED <<attempt, caller, session, trees, sidecars, faults>>
  <2>1. SetupTypes'
    BY <1>1, <1>2, <1>4 DEF SetupInv, SetupTypes, Pcs, TailscalePc
  <2>2. KindInv'
    BY <1>1, <1>2, <1>4 DEF KindInv, TailscalePc, ManagedPc
  <2>3. DaemonInv'
    BY <1>1, <1>2, <1>4 DEF DaemonInv
  <2>4. TreeInv'
    BY <1>1, <1>2, <1>4 DEF SetupInv, TreeInv, BeforeRoot
  <2>5. UpInv'
    BY <1>1, <1>2, <1>4 DEF SetupInv, UpInv
  <2> QED BY <2>1, <2>2, <2>3, <2>4, <2>5 DEF SetupInv
<1> QED BY <1>1, <1>3, <1>4 DEF WriteFiles

(* spawn_daemon.                                                           *)
LEMMA SpawnKeeps == ASSUME SetupInv, SpawnDaemon PROVE SetupInv'
<1>1. /\ pc = "daemon" /\ session = "none" /\ sidecars = {} /\ boot.kind = "tailscale"
      /\ pc \in AfterRoot /\ pc \in TailscalePc /\ attempt \in trees
  BY DEF SpawnDaemon, SetupInv, KindInv, DaemonInv, TreeInv, NoDaemon, BeforeRoot, AfterRoot, TailscalePc
<1>2. UNCHANGED <<boot, environment, credential, late, fetches, ups, spent>>
  BY DEF SpawnDaemon
<1>3. ASSUME NEW c \in {"access_deadline_exceeded"} \cup SpawnOutcomes, c # "ok",
             NEW fs \in {faults, faults \cup {"thread"}}, AttemptFails(c, keyFiles, fs)
      PROVE  SetupInv'
  <2>1. /\ keyFiles \in SUBSET trees /\ spent \subseteq ups /\ ups \subseteq Attempts
        /\ fetches \in 0..(FetchAttempts - 1) /\ c # "session"
    BY <1>1 DEF SetupInv, SetupTypes, SpawnOutcomes
  <2>2. fs = {} => (\A a, b \in ups : a = b) /\ (late \/ ups = {})
    BY <1>1 DEF SetupInv, UpInv
  <2> QED BY <1>1, <1>2, <1>3, <2>1, <2>2, FailureKeeps
<1>4. CASE /\ pc' = "socket" /\ sidecars' = sidecars \cup {attempt}
           /\ UNCHANGED <<attempt, caller, session, trees, keyFiles, faults>>
  <2>1. SetupTypes'
    BY <1>1, <1>2, <1>4 DEF SetupInv, SetupTypes, Pcs, TailscalePc
  <2>2. KindInv'
    BY <1>1, <1>2, <1>4 DEF KindInv, TailscalePc, ManagedPc
  <2>3. DaemonInv'
    BY <1>1, <1>2, <1>4 DEF DaemonInv, NoDaemon, BeforeRoot
  <2>4. TreeInv'
    BY <1>1, <1>2, <1>4 DEF SetupInv, TreeInv, BeforeRoot
  <2>5. UpInv'
    BY <1>1, <1>2, <1>4 DEF SetupInv, UpInv
  <2> QED BY <2>1, <2>2, <2>3, <2>4, <2>5 DEF SetupInv
<1> QED
  <2>1. CASE late
    BY <2>1, <1>3 DEF SpawnDaemon
  <2>2. CASE ~late
    <3>1. PICK out \in SpawnOutcomes :
            IF out = "ok"
            THEN /\ pc' = "socket" /\ sidecars' = sidecars \cup {attempt}
                 /\ UNCHANGED <<attempt, caller, session, trees, keyFiles, faults>>
            ELSE AttemptFails(out, keyFiles, IF out = "access_thread_spawn_failed"
                                             THEN faults \cup {"thread"} ELSE faults)
      BY <2>2 DEF SpawnDaemon
    <3>2. CASE out = "ok"
      BY <3>1, <3>2, <1>4
    <3>3. CASE out # "ok"
      BY <3>1, <3>3, <1>3
    <3> QED BY <3>2, <3>3
  <2> QED BY <2>1, <2>2

(* The socket wait.                                                        *)
LEMMA SocketKeeps == ASSUME SetupInv, SocketWait PROVE SetupInv'
<1>1. /\ pc = "socket" /\ session = "none" /\ boot.kind = "tailscale"
      /\ pc \in AfterRoot /\ pc \in TailscalePc /\ attempt \in trees
  BY DEF SocketWait, SetupInv, KindInv, TreeInv, BeforeRoot, AfterRoot, TailscalePc
<1>2. UNCHANGED <<boot, environment, credential, late, fetches, ups, spent>>
  BY DEF SocketWait
<1>3. ASSUME NEW c \in SidecarExit \cup {"access_sidecar_start_timeout", "access_sidecar_failed"},
             NEW keys \in KeysAfterRemoval, AttemptFails(c, keys, faults)
      PROVE  SetupInv'
  <2>1. /\ keys \in SUBSET trees /\ spent \subseteq ups /\ ups \subseteq Attempts
        /\ fetches \in 0..(FetchAttempts - 1) /\ c # "session"
    BY <1>1 DEF SetupInv, SetupTypes, SidecarExit, KeysAfterRemoval
  <2>2. faults = {} => (\A a, b \in ups : a = b) /\ (late \/ ups = {})
    BY <1>1 DEF SetupInv, UpInv
  <2> QED BY <1>1, <1>2, <1>3, <2>1, <2>2, FailureKeeps
<1>4. CASE /\ pc' = "up"
           /\ UNCHANGED <<attempt, caller, session, trees, keyFiles, sidecars, faults>>
  <2>1. /\ pc' \in Pcs /\ pc' \in TailscalePc /\ pc' \notin ManagedPc /\ pc' \notin NoDaemon
        /\ pc' \notin BeforeRoot /\ pc' # "done" /\ pc' # "status"
    BY <1>4 DEF Pcs, TailscalePc, ManagedPc, NoDaemon, BeforeRoot
  <2>2. /\ late' \in BOOLEAN /\ environment' \in {"none", "ok", "other"}
        /\ credential' \in {"none", "ok", "other"} /\ fetches' \in 0..(FetchAttempts - 1)
    BY <1>2 DEF SetupInv, SetupTypes
  <2> QED BY <1>1, <1>2, <1>4, <2>1, <2>2, ForwardKeeps
<1> QED BY <1>3, <1>4 DEF SocketWait, KeysAfterRemoval

(* `tailscale up`: it runs with no `up` before it, unless a fault did.     *)
LEMMA UpKeeps == ASSUME SetupInv, Up PROVE SetupInv'
<1>1. /\ pc = "up" /\ session = "none" /\ boot.kind = "tailscale"
      /\ pc \in AfterRoot /\ pc \in TailscalePc /\ attempt \in trees /\ attempt \in Attempts
  BY DEF Up, SetupInv, SetupTypes, KindInv, TreeInv, BeforeRoot, AfterRoot, TailscalePc
<1>2. UNCHANGED <<boot, environment, credential, late, fetches>>
  BY DEF Up
<1>3. PICK out \in UpOutcomes :
       LET fs == IF out = "access_thread_spawn_failed" THEN faults \cup {"thread"} ELSE faults
       IN /\ ups' = IF out = "access_deadline_exceeded" THEN ups ELSE ups \cup {attempt}
          /\ spent' = IF out = "ok" THEN spent \cup {attempt} ELSE spent
          /\ \/ AttemptFails("access_workspace_failed", keyFiles, fs \cup {"unlink"})
             \/ /\ out = "ok"
                /\ pc' = "status"
                /\ keyFiles' = keyFiles \ {attempt}
                /\ UNCHANGED <<attempt, caller, session, trees, sidecars, faults>>
             \/ out # "ok" /\ AttemptFails(out, keyFiles \ {attempt}, fs)
  BY DEF Up
<1> DEFINE fs == IF out = "access_thread_spawn_failed" THEN faults \cup {"thread"} ELSE faults
<1>4. /\ keyFiles \in SUBSET trees /\ keyFiles \ {attempt} \in SUBSET trees
      /\ spent' \subseteq ups' /\ ups' \subseteq Attempts
      /\ fetches' \in 0..(FetchAttempts - 1)
  BY <1>1, <1>2, <1>3 DEF SetupInv, SetupTypes, UpOutcomes
<1>5. fs = {} => /\ \A a, b \in ups' : a = b
                 /\ late \/ out \in FinalCodes \/ out = "ok"
  <2> SUFFICES ASSUME fs = {} PROVE /\ \A a, b \in ups' : a = b
                                    /\ late \/ out \in FinalCodes \/ out = "ok"
    OBVIOUS
  <2>1. faults = {} /\ out # "access_thread_spawn_failed"
    OBVIOUS
  <2>2. CASE late
    BY <1>3, <2>1, <2>2 DEF UpOutcomes, SetupInv, UpInv
  <2>3. CASE ~late
    <3>1. ups = {}
      BY <1>1, <2>1, <2>3 DEF SetupInv, UpInv
    <3> QED BY <1>3, <2>1, <2>3, <3>1 DEF UpOutcomes, FinalCodes
  <2> QED BY <2>2, <2>3
<1>6. CASE AttemptFails("access_workspace_failed", keyFiles, fs \cup {"unlink"})
  BY <1>1, <1>2, <1>4, <1>6, FailureKeeps
<1>7. CASE out # "ok" /\ AttemptFails(out, keyFiles \ {attempt}, fs)
  <2>1. out # "session"
    BY DEF UpOutcomes
  <2>2. faults \subseteq fs
    OBVIOUS
  <2> HIDE DEF fs
  <2> QED BY <1>1, <1>2, <1>4, <1>5, <1>7, <2>1, <2>2, FailureKeeps
<1>8. CASE /\ out = "ok" /\ pc' = "status" /\ keyFiles' = keyFiles \ {attempt}
           /\ UNCHANGED <<attempt, caller, session, trees, sidecars, faults>>
  <2>1. SetupTypes'
    BY <1>1, <1>2, <1>4, <1>8 DEF SetupInv, SetupTypes, Pcs, TailscalePc
  <2>2. KindInv'
    BY <1>1, <1>2, <1>8 DEF KindInv, TailscalePc, ManagedPc
  <2>3. DaemonInv'
    BY <1>1, <1>2, <1>8 DEF DaemonInv, NoDaemon, BeforeRoot
  <2>4. TreeInv'
    BY <1>1, <1>2, <1>8 DEF SetupInv, TreeInv, BeforeRoot
  <2>5. UpInv'
    BY <1>5, <1>8 DEF UpInv
  <2> QED BY <2>1, <2>2, <2>3, <2>4, <2>5 DEF SetupInv
<1> QED BY <1>3, <1>6, <1>7, <1>8

(* The status poll, which hands over the session.                          *)
LEMMA StatusKeeps == ASSUME SetupInv, Status PROVE SetupInv'
<1>1. /\ pc = "status" /\ session = "none" /\ boot.kind = "tailscale"
      /\ pc \in AfterRoot /\ pc \in TailscalePc /\ attempt \in trees /\ attempt \notin keyFiles
  BY DEF Status, SetupInv, KindInv, TreeInv, BeforeRoot, AfterRoot, TailscalePc
<1>2. UNCHANGED <<boot, environment, credential, late, fetches, ups, spent>>
  BY DEF Status
<1>3. PICK out \in StatusOutcomes :
       IF out = "running"
       THEN Deliver("session") /\ UNCHANGED <<attempt, trees, keyFiles, sidecars, faults>>
       ELSE AttemptFails(out, keyFiles, IF out = "access_thread_spawn_failed"
                                        THEN faults \cup {"thread"} ELSE faults)
  BY DEF Status
<1>4. CASE out = "running"
  <2>1. /\ pc' = "done" /\ session' \in {"open", "late"}
        /\ session' = "open" => caller' = "session"
        /\ UNCHANGED <<attempt, trees, keyFiles, sidecars, faults>>
    BY <1>1, <1>3, <1>4 DEF Deliver
  <2>2. SetupTypes'
    BY <1>1, <1>2, <2>1 DEF SetupInv, SetupTypes, Pcs, Ended
  <2>3. KindInv'
    BY <1>1, <1>2, <2>1 DEF KindInv, TailscalePc, ManagedPc
  <2>4. DaemonInv'
    BY <2>1 DEF DaemonInv, NoDaemon, BeforeRoot, NoSession
  <2>5. TreeInv'
    BY <1>1, <1>2, <2>1 DEF SetupInv, TreeInv, BeforeRoot, AfterRoot, NoSession
  <2>6. UpInv'
    BY <1>1, <1>2, <2>1 DEF SetupInv, UpInv
  <2> QED BY <2>2, <2>3, <2>4, <2>5, <2>6 DEF SetupInv
<1>5. CASE out # "running"
  <2> DEFINE fs == IF out = "access_thread_spawn_failed" THEN faults \cup {"thread"} ELSE faults
  <2>1. /\ keyFiles \in SUBSET trees /\ spent \subseteq ups /\ ups \subseteq Attempts
        /\ fetches \in 0..(FetchAttempts - 1) /\ out # "session"
    BY <1>1 DEF SetupInv, SetupTypes, StatusOutcomes
  <2>2. fs = {} => (\A a, b \in ups : a = b) /\ (late \/ out \in FinalCodes)
    <3> SUFFICES ASSUME fs = {} PROVE (\A a, b \in ups : a = b) /\ (late \/ out \in FinalCodes)
      OBVIOUS
    <3>1. faults = {} /\ out # "access_thread_spawn_failed"
      OBVIOUS
    <3> QED BY <3>1, <1>5 DEF SetupInv, UpInv, StatusOutcomes, FinalCodes
  <2>3. AttemptFails(out, keyFiles, fs) /\ faults \subseteq fs
    BY <1>3, <1>5
  <2> HIDE DEF fs
  <2> QED BY <1>1, <1>2, <2>1, <2>2, <2>3, FailureKeeps
<1> QED BY <1>4, <1>5

(* Every step of the Tailscale bring-up keeps the invariant.               *)
LEMMA TailscaleKeeps == ASSUME SetupInv, TailscaleStep PROVE SetupInv'
BY EarlyKeeps, RootKeeps, ExtractKeeps, WriteKeeps, SpawnKeeps, SocketKeeps, UpKeeps, StatusKeeps
   DEF TailscaleStep

(* What the host may do to the thread, and the watchdog.                   *)
LEMMA HostKeeps ==
  ASSUME SetupInv, Wedge \/ SetupPanics \/ PassDeadline \/ SidecarDies \/ Watchdog
  PROVE  SetupInv'
<1>1. CASE Wedge
  <2>1. /\ session = "none" /\ session' = "none" /\ pc' = "wedged" /\ "wedge" \in faults'
        /\ faults \subseteq faults'
        /\ UNCHANGED <<boot, environment, credential, late, fetches, attempt, trees, keyFiles,
                       sidecars, ups, spent>>
    BY <1>1 DEF Wedge, SetupInv, KindInv, Ended
  <2>2. /\ pc' \in Pcs /\ pc' \notin TailscalePc /\ pc' \notin ManagedPc /\ pc' \notin NoDaemon
        /\ pc' # "done" /\ pc' \notin AfterRoot /\ pc' # "status" /\ pc' \notin BeforeRoot
    BY <2>1 DEF Pcs, Ended, TailscalePc, ManagedPc, NoDaemon, BeforeRoot, AfterRoot
  <2>3. /\ late' \in BOOLEAN /\ environment' \in {"none", "ok", "other"}
        /\ credential' \in {"none", "ok", "other"} /\ fetches' \in 0..(FetchAttempts - 1)
    BY <2>1 DEF SetupInv, SetupTypes
  <2> QED BY <2>1, <2>2, <2>3, ForwardKeeps
<1>2. CASE SetupPanics
  <2>1. /\ session = "none" /\ session' = "none" /\ pc' = "done" /\ boot.kind = "tailscale"
        /\ faults' = faults \cup {"panic"} /\ sidecars' = {}
        /\ UNCHANGED <<boot, environment, credential, late, fetches, attempt, trees, keyFiles,
                       ups, spent>>
    BY <1>2 DEF SetupPanics, Deliver, SetupInv, SetupTypes, KindInv, Ended
  <2>2. SetupTypes'
    BY <2>1 DEF SetupInv, SetupTypes, Pcs, Ended
  <2>3. KindInv'
    BY <2>1 DEF KindInv, TailscalePc, ManagedPc
  <2>4. DaemonInv'
    BY <2>1 DEF DaemonInv
  <2>5. TreeInv'
    BY <2>1 DEF SetupInv, TreeInv, AfterRoot, TailscalePc, ManagedPc
  <2>6. UpInv'
    BY <2>1 DEF UpInv
  <2> QED BY <2>2, <2>3, <2>4, <2>5, <2>6 DEF SetupInv
<1>3. CASE PassDeadline
  <2> USE <1>3 DEF PassDeadline
  <2>1. SetupTypes'
    BY DEF SetupInv, SetupTypes
  <2>2. KindInv' /\ DaemonInv' /\ TreeInv'
    BY DEF SetupInv, KindInv, DaemonInv, TreeInv
  <2>3. UpInv'
    BY DEF SetupInv, UpInv
  <2> QED BY <2>1, <2>2, <2>3 DEF SetupInv
<1>4. CASE SidecarDies
  <2> USE <1>4 DEF SidecarDies
  <2>1. SetupTypes'
    BY DEF SetupInv, SetupTypes
  <2>2. KindInv' /\ DaemonInv' /\ TreeInv'
    BY DEF SetupInv, KindInv, DaemonInv, TreeInv
  <2>3. UpInv'
    BY DEF SetupInv, UpInv
  <2> QED BY <2>1, <2>2, <2>3 DEF SetupInv
<1>5. CASE Watchdog
  <2> USE <1>5 DEF Watchdog
  <2>1. SetupTypes'
    BY DEF SetupInv, SetupTypes
  <2>2. KindInv' /\ DaemonInv' /\ TreeInv'
    BY DEF SetupInv, KindInv, DaemonInv, TreeInv
  <2>3. UpInv'
    BY DEF SetupInv, UpInv
  <2> QED BY <2>1, <2>2, <2>3 DEF SetupInv
<1> QED BY <1>1, <1>2, <1>3, <1>4, <1>5
-----------------------------------------------------------------------------
(* A managed setup that fails after its root was made, with its Dropbear   *)
(* stopped.                                                                *)
LEMMA ManagedFailureKeeps ==
  ASSUME SetupInv, pc \in AfterRoot, pc \in ManagedPc,
         NEW c, c # "session", NEW fs, faults \subseteq fs,
         RemoveTree(keyFiles, fs), Deliver(c), sidecars' = {},
         UNCHANGED <<boot, environment, credential, late, fetches, attempt, ups, spent>>
  PROVE  SetupInv'
<1>1. session = "none" /\ session' = "none" /\ pc' = "done" /\ boot.kind = "managed" /\ keyFiles = {}
  BY DEF Deliver, SetupInv, KindInv, TreeInv, ManagedPc
<1>2. /\ keyFiles' = {}
      /\ \/ trees' = trees \ {attempt} /\ faults' = fs
         \/ trees' = trees /\ faults' = fs \cup {"unlink"}
  BY <1>1 DEF RemoveTree
<1>3. SetupTypes'
  BY <1>1, <1>2 DEF SetupInv, SetupTypes, Pcs, Ended
<1>4. KindInv'
  BY <1>1 DEF KindInv, TailscalePc, ManagedPc
<1>5. DaemonInv'
  BY DEF DaemonInv
<1>6. TreeInv'
  BY <1>1, <1>2 DEF SetupInv, TreeInv, BeforeRoot, AfterRoot, TailscalePc, ManagedPc
<1>7. UpInv'
  BY <1>1, <1>2 DEF SetupInv, UpInv
<1> QED BY <1>3, <1>4, <1>5, <1>6, <1>7 DEF SetupInv

(* setup_deadline, validate_binding, private_root.                         *)
LEMMA BindKeeps == ASSUME SetupInv, BindManaged PROVE SetupInv'
<1>1. /\ pc = "managed" /\ session = "none" /\ boot.kind = "managed" /\ sidecars = {}
      /\ session' = "none"
  BY DEF BindManaged, Deliver, SetupInv, KindInv, DaemonInv, NoDaemon, BeforeRoot, ManagedPc
<1>2. UNCHANGED <<boot, environment, credential, late, fetches, attempt, keyFiles, sidecars, ups, spent>>
  BY DEF BindManaged, ManagedUnchanged
<1>3. \/ pc' = "toolchain" /\ trees' = trees \cup {attempt} /\ faults' = faults
      \/ pc' = "done" /\ trees' = trees /\ faults' = faults
      \/ pc' = "done" /\ trees' = trees \cup {attempt} /\ faults' = faults \cup {"unlink"}
  BY DEF BindManaged, Deliver
<1>4. SetupTypes'
  BY <1>1, <1>2, <1>3 DEF SetupInv, SetupTypes, Pcs, Ended, ManagedPc
<1>5. KindInv'
  BY <1>1, <1>2, <1>3 DEF KindInv, TailscalePc, ManagedPc
<1>6. DaemonInv'
  BY <1>1, <1>2 DEF DaemonInv
<1>7. TreeInv'
  BY <1>1, <1>2, <1>3 DEF SetupInv, TreeInv, BeforeRoot, AfterRoot, TailscalePc, ManagedPc
<1>8. UpInv'
  BY <1>1, <1>2, <1>3 DEF SetupInv, UpInv
<1> QED BY <1>4, <1>5, <1>6, <1>7, <1>8 DEF SetupInv

(* The steps of a managed setup; Join answers with a code that is no       *)
(* session.                                                                *)
LEMMA ManagedKeeps ==
  ASSUME SetupInv, ManagedStep, failure # "session" PROVE SetupInv'
<1>1. CASE BindManaged
  BY <1>1, BindKeeps
<1>2. CASE VerifyToolchain \/ PrepareHostKey \/ StartDropbear
  <2>1. /\ pc \in {"toolchain", "hostkey", "dropbear"} /\ session = "none"
        /\ pc \in AfterRoot /\ pc \in ManagedPc /\ sidecars = {} /\ boot.kind = "managed"
    BY <1>2 DEF VerifyToolchain, PrepareHostKey, StartDropbear, SetupInv, KindInv, DaemonInv,
                NoDaemon, BeforeRoot, AfterRoot, ManagedPc
  <2>2. UNCHANGED <<boot, environment, credential, late, fetches, attempt, ups, spent>>
    BY <1>2 DEF VerifyToolchain, PrepareHostKey, StartDropbear
  <2>3. ASSUME NEW c \in ToolchainCodes \cup {"access_dropbear_options_unsupported",
                              "access_sidecar_spawn_failed", "access_sidecar_failed"},
               ManagedFails(c), UNCHANGED sidecars
        PROVE  SetupInv'
    <3>1. c # "session"
      BY DEF ToolchainCodes
    <3> QED BY <3>1, <2>1, <2>2, <2>3, ManagedFailureKeeps DEF ManagedFails
  <2>4. CASE /\ pc' \in {"hostkey", "dropbear", "connector"}
             /\ pc' = "connector" \/ sidecars' = sidecars
             /\ sidecars' \subseteq {attempt}
             /\ UNCHANGED <<session, caller, trees, keyFiles, faults>>
    <3>1. SetupTypes'
      BY <2>1, <2>2, <2>4 DEF SetupInv, SetupTypes, Pcs, ManagedPc
    <3>2. KindInv'
      BY <2>1, <2>2, <2>4 DEF KindInv, TailscalePc, ManagedPc
    <3>3. DaemonInv'
      BY <2>1, <2>2, <2>4 DEF DaemonInv, NoDaemon, BeforeRoot
    <3>4. TreeInv'
      BY <2>1, <2>2, <2>4 DEF SetupInv, TreeInv, BeforeRoot
    <3>5. UpInv'
      BY <2>1, <2>2, <2>4 DEF SetupInv, UpInv
    <3> QED BY <3>1, <3>2, <3>3, <3>4, <3>5 DEF SetupInv
  <2>5. CASE VerifyToolchain
    BY <2>3, <2>4, <2>1, <2>5 DEF VerifyToolchain
  <2>6. CASE PrepareHostKey
    BY <2>3, <2>4, <2>1, <2>6 DEF PrepareHostKey, ToolchainCodes
  <2>7. CASE StartDropbear
    BY <2>3, <2>4, <2>1, <2>7 DEF StartDropbear
  <2> QED BY <1>2, <2>5, <2>6, <2>7
<1>3. CASE CapturePanics
  <2>1. /\ pc = "hostkey" /\ session = "none" /\ session' = "none" /\ pc' = "done"
        /\ sidecars = {} /\ faults' = faults \cup {"panic"}
        /\ UNCHANGED <<boot, environment, credential, late, fetches, attempt, trees, keyFiles,
                       sidecars, ups, spent>>
    BY <1>3 DEF CapturePanics, ManagedUnchanged, Deliver, SetupInv, KindInv, DaemonInv, NoDaemon
  <2>2. /\ pc' \in Pcs /\ pc' \notin TailscalePc /\ pc' \notin ManagedPc
        /\ pc' \notin AfterRoot /\ pc' # "status" /\ pc' \notin BeforeRoot
    BY <2>1 DEF Pcs, Ended, TailscalePc, ManagedPc, BeforeRoot, AfterRoot
  <2>3. /\ late' \in BOOLEAN /\ environment' \in {"none", "ok", "other"}
        /\ credential' \in {"none", "ok", "other"} /\ fetches' \in 0..(FetchAttempts - 1)
    BY <2>1 DEF SetupInv, SetupTypes
  <2> QED BY <2>1, <2>2, <2>3, ForwardKeeps
<1>4. CASE SpawnConnector \/ Join
  <2>1. /\ pc \in {"connector", "join"} /\ pc \in AfterRoot /\ pc \in ManagedPc
        /\ sidecars \subseteq {attempt} /\ session = "none" /\ boot.kind = "managed"
    BY <1>4 DEF SpawnConnector, Join, AfterRoot, BeforeRoot, ManagedPc, SetupInv, SetupTypes, KindInv
  <2>2. UNCHANGED <<boot, environment, credential, late, fetches, attempt, ups, spent>>
    BY <1>4 DEF SpawnConnector, Join
  <2>3. CASE Join
    <3>1. RemoveTree(keyFiles, faults) /\ Deliver(failure) /\ sidecars' = {}
      BY <2>1, <2>3 DEF Join, ManagedFails
    <3> QED BY <2>1, <2>2, <3>1, ManagedFailureKeeps
  <2>4. CASE /\ sidecars' = sidecars \ {attempt}
             /\ RemoveTree(keyFiles, faults \cup {"thread"})
             /\ Deliver("access_connector_start_failed")
    BY <2>1, <2>2, <2>4, ManagedFailureKeeps
  <2>5. CASE /\ pc' = "register"
             /\ UNCHANGED <<caller, session, trees, keyFiles, sidecars, faults>>
    <3>1. SetupTypes'
      BY <2>1, <2>2, <2>5 DEF SetupInv, SetupTypes, Pcs, ManagedPc
    <3>2. KindInv'
      BY <2>1, <2>2, <2>5 DEF KindInv, TailscalePc, ManagedPc
    <3>3. DaemonInv'
      BY <2>1, <2>2, <2>5 DEF DaemonInv, NoDaemon, BeforeRoot
    <3>4. TreeInv'
      BY <2>1, <2>2, <2>5 DEF SetupInv, TreeInv, BeforeRoot
    <3>5. UpInv'
      BY <2>1, <2>2, <2>5 DEF SetupInv, UpInv
    <3> QED BY <3>1, <3>2, <3>3, <3>4, <3>5 DEF SetupInv
  <2> QED BY <1>4, <2>3, <2>4, <2>5 DEF SpawnConnector
<1>5. CASE Receive \/ GiveUpRegistration
  <2>1. /\ pc = "register" /\ session = "none" /\ boot.kind = "managed" /\ keyFiles = {}
        /\ attempt \in trees
        /\ UNCHANGED <<boot, environment, credential, late, fetches, attempt, trees, keyFiles,
                       sidecars, ups, spent, faults>>
    BY <1>5 DEF Receive, GiveUpRegistration, ManagedUnchanged, SetupInv, KindInv, TreeInv, ManagedPc,
                AfterRoot, BeforeRoot
  <2>2. \/ pc' = "done" /\ session' \in {"open", "late"} /\ (session' = "open" => caller' = "session")
        \/ pc' \in {"register", "join"} /\ session' = "none"
    BY <1>5, <2>1 DEF Receive, GiveUpRegistration, Deliver
  <2>3. SetupTypes'
    BY <2>1, <2>2 DEF SetupInv, SetupTypes, Pcs, ManagedPc, Ended
  <2>4. KindInv'
    BY <2>1, <2>2 DEF KindInv, TailscalePc, ManagedPc
  <2>5. DaemonInv'
    BY <2>1, <2>2 DEF DaemonInv, NoDaemon, BeforeRoot, NoSession
  <2>6. TreeInv'
    BY <2>1, <2>2 DEF SetupInv, TreeInv, BeforeRoot, NoSession
  <2>7. UpInv'
    BY <2>1, <2>2 DEF SetupInv, UpInv
  <2> QED BY <2>3, <2>4, <2>5, <2>6, <2>7 DEF SetupInv
<1> QED BY <1>1, <1>2, <1>3, <1>4, <1>5 DEF ManagedStep

(* The end of a session.                                                   *)
LEMMA StopKeeps ==
  ASSUME SetupInv, StopTailscale \/ StopManaged PROVE SetupInv'
<1>1. /\ session \in {"open", "late"} /\ session' = "stopped" /\ pc = "done"
      /\ sidecars' = sidecars \ {attempt} /\ sidecars \subseteq {attempt}
      /\ RemoveTree(keyFiles, faults)
      /\ UNCHANGED <<boot, environment, credential, pc, caller, late, fetches, attempt, ups, spent>>
  BY DEF StopTailscale, StopManaged, SetupInv, SetupTypes, KindInv
<1>2. \/ trees' = trees \ {attempt} /\ keyFiles' = keyFiles \ {attempt} /\ faults' = faults
      \/ trees' = trees /\ keyFiles' = keyFiles /\ faults' = faults \cup {"unlink"}
  BY <1>1 DEF RemoveTree
<1>3. SetupTypes'
  BY <1>1, <1>2 DEF SetupInv, SetupTypes
<1>4. KindInv'
  BY <1>1 DEF SetupInv, KindInv
<1>5. DaemonInv'
  BY <1>1 DEF DaemonInv
<1>6. TreeInv'
  BY <1>1, <1>2 DEF SetupInv, TreeInv, BeforeRoot, AfterRoot, TailscalePc, ManagedPc
<1>7. UpInv'
  BY <1>1, <1>2 DEF SetupInv, UpInv
<1> QED BY <1>3, <1>4, <1>5, <1>6, <1>7 DEF SetupInv
-----------------------------------------------------------------------------
(* The connector.                                                          *)

(* What may be sent over the registration channel.                         *)
Events == Errors \cup {"registered"}
Conns == [at : {"off", "check", "connecting", "relaying", "waiting", "finished"} \cup Blocked,
          attempt : 0..AttemptCap, admitted : BOOLEAN, streak : 0..RefusalCap,
          sender : BOOLEAN, delay : Nat]

ConnTypes ==
  /\ conn \in Conns
  /\ conn.delay = 0 \/ (250 <= conn.delay /\ conn.delay <= 300250)
  /\ cancel \in BOOLEAN /\ expired \in BOOLEAN
  /\ events \in Seq(Events) /\ sent \in Seq(Events)
  /\ Len(sent) <= MaxEvents
  /\ latest \in {"none"} \cup Errors
  /\ failure # "session"

(* The thread exists from its spawn on, is silent before, and outlives     *)
(* neither a setup that failed nor a session that was stopped.             *)
ConnPlace ==
  /\ conn.at # "off" => boot.kind = "managed" /\ pc \in {"register", "join"} \cup Ended
  /\ (pc = "done" /\ session \in NoSession) => conn.at \in {"off", "finished"}
  /\ conn.at = "off" => sent = <<>>

(* The wait that follows refusals is the one of their number.              *)
ConnDelay ==
  conn.streak > 0 =>
    \E j \in Jitters :
      conn.delay = j + IF conn.admitted THEN RefusedDelay(conn.streak) ELSE ReconnectDelay(conn.attempt)

(* How many events were taken from the channel.                            *)
Taken == Len(sent) - Len(events)

(* The channel holds the end of what was sent; the setup remembers the     *)
(* last failure it took, and took no registration while it waits or joins. *)
Heard ==
  /\ Len(events) <= Len(sent)
  /\ \A i \in 1..Len(events) : events[i] = sent[Taken + i]
  /\ pc \in {"register", "join"} => \A i \in 1..Taken : sent[i] # "registered"
  /\ Taken = 0 => latest = "none"
  /\ Taken > 0 /\ sent[Taken] # "registered" => latest = sent[Taken]
  /\ (boot.kind = "managed" /\ session = "open") => Taken > 0 /\ sent[Taken] = "registered"
  /\ pc = "join" =>
       failure = IF Taken = 0 THEN "access_connector_registration_failed" ELSE sent[Taken]

(* A setup that gave up with time left gave up on a connector that had     *)
(* hung up.                                                                *)
GaveUp == (pc = "join" /\ late = FALSE) => events = <<>> /\ conn.sender = FALSE

ConnInv == ConnTypes /\ ConnPlace /\ ConnDelay /\ Heard /\ GaveUp

(* The powers of two that the delays use.                                  *)
LEMMA Powers == \A n \in 0..6 : Pow2(n) \in 1..64 /\ \A m \in 0..6 : m <= n => Pow2(m) <= Pow2(n)
<1>1. /\ Pow2(0) = 1 /\ Pow2(1) = 2 /\ Pow2(2) = 4 /\ Pow2(3) = 8
      /\ Pow2(4) = 16 /\ Pow2(5) = 32 /\ Pow2(6) = 64
  BY DEF Pow2
<1>2. \A n \in 0..6 : n = 0 \/ n = 1 \/ n = 2 \/ n = 3 \/ n = 4 \/ n = 5 \/ n = 6
  OBVIOUS
<1> QED BY <1>1, <1>2

(* reconnect_delay and refused_after_admission_delay stay within their     *)
(* limits, and the second never shrinks with the streak.                   *)
LEMMA Delays ==
  /\ \A n \in Nat : ReconnectDelay(n) \in Nat /\ 250 <= ReconnectDelay(n) /\ ReconnectDelay(n) <= 8000
  /\ \A n \in Nat : RefusedDelay(n) \in Nat /\ 8000 <= RefusedDelay(n) /\ RefusedDelay(n) <= 300000
  /\ \A m, n \in Nat : m <= n => RefusedDelay(m) <= RefusedDelay(n)
<1>1. ASSUME NEW n \in Nat
      PROVE  ReconnectDelay(n) \in Nat /\ 250 <= ReconnectDelay(n) /\ ReconnectDelay(n) <= 8000
  <2>1. AtMost(n, 5) \in 0..6
    BY DEF AtMost
  <2>2. Pow2(AtMost(n, 5)) \in 1..64
    BY <2>1, Powers
  <2> QED BY <2>2, SMT DEF ReconnectDelay, AtMost
<1> DEFINE exp(n) == AtMost(IF n = 0 THEN 0 ELSE n - 1, 6)
<1>2. ASSUME NEW n \in Nat PROVE exp(n) \in 0..6
  BY DEF AtMost
<1>3. ASSUME NEW m \in Nat, NEW n \in Nat, m <= n PROVE exp(m) <= exp(n)
  BY <1>3 DEF AtMost
<1>4. ASSUME NEW n \in Nat PROVE RefusedDelay(n) = AtMost(8000 * Pow2(exp(n)), 300000)
  BY SMT DEF RefusedDelay
<1> HIDE DEF exp
<1>5. ASSUME NEW p \in 1..64
      PROVE  /\ AtMost(8000 * p, 300000) \in Nat
             /\ 8000 <= AtMost(8000 * p, 300000) /\ AtMost(8000 * p, 300000) <= 300000
  BY SMT DEF AtMost
<1>6. ASSUME NEW p \in 1..64, NEW q \in 1..64, p <= q
      PROVE  AtMost(8000 * p, 300000) <= AtMost(8000 * q, 300000)
  BY <1>6, SMT DEF AtMost
<1>7. ASSUME NEW n \in Nat
      PROVE  RefusedDelay(n) \in Nat /\ 8000 <= RefusedDelay(n) /\ RefusedDelay(n) <= 300000
  <2>1. Pow2(exp(n)) \in 1..64
    BY <1>2, Powers, SMT
  <2> QED BY <1>4, <1>5, <2>1, SMT
<1>8. ASSUME NEW m \in Nat, NEW n \in Nat, m <= n PROVE RefusedDelay(m) <= RefusedDelay(n)
  <2>1. /\ Pow2(exp(n)) \in 1..64 /\ Pow2(exp(m)) \in 1..64
        /\ Pow2(exp(m)) <= Pow2(exp(n))
    BY <1>2, <1>3, <1>8, Powers, SMT
  <2> QED BY <1>4, <1>6, <2>1, SMT
<1> QED BY <1>1, <1>7, <1>8, SMT

(* Sending keeps the channel the end of the history.                       *)
LEMMA SendKeeps ==
  ASSUME ConnTypes, Heard, Room, NEW e \in Events, Send(e),
         UNCHANGED <<setupVars, latest, failure>>
  PROVE  /\ events' \in Seq(Events) /\ sent' \in Seq(Events) /\ Len(sent') <= MaxEvents
         /\ events' # events => conn.sender
         /\ Heard'
<1>1. CASE ~conn.sender
  <2>1. UNCHANGED <<events, sent>>
    BY <1>1 DEF Send
  <2> QED BY <2>1 DEF ConnTypes, Heard, Taken, setupVars
<1>2. CASE conn.sender
  <2>1. events' = Append(events, e) /\ sent' = Append(sent, e) /\ Len(sent) < MaxEvents
    BY <1>2 DEF Send, Room
  <2>2. events \in Seq(Events) /\ sent \in Seq(Events)
    BY DEF ConnTypes
  <2>3. /\ events' \in Seq(Events) /\ sent' \in Seq(Events)
        /\ Len(sent) \in Nat /\ Len(events) \in Nat
        /\ Len(sent') = Len(sent) + 1 /\ Len(events') = Len(events) + 1
        /\ \A i \in 1..Len(sent) : sent'[i] = sent[i]
        /\ \A i \in 1..Len(events) : events'[i] = events[i]
        /\ sent'[Len(sent) + 1] = e /\ events'[Len(events) + 1] = e
    BY <2>1, <2>2
  <2>4. Len(sent') <= MaxEvents
    BY <2>1, <2>3, EventsAssumption
  <2>5. /\ Taken' = Taken /\ Taken \in Nat /\ Taken <= Len(sent) /\ Len(events') <= Len(sent')
        /\ Taken + Len(events) = Len(sent)
    BY <2>3 DEF Taken, Heard
  <2>6. \A i \in 1..Len(events') : events'[i] = sent'[Taken' + i]
    <3> SUFFICES ASSUME NEW i \in 1..Len(events') PROVE events'[i] = sent'[Taken' + i]
      OBVIOUS
    <3>1. CASE i = Len(events) + 1
      BY <2>3, <2>5, <3>1
    <3>2. CASE i \in 1..Len(events)
      <4>1. Taken + i \in 1..Len(sent) /\ events[i] = sent[Taken + i]
        BY <2>3, <2>5, <3>2 DEF Heard
      <4> QED BY <2>3, <2>5, <3>2, <4>1
    <3> QED BY <2>3, <3>1, <3>2
  <2>7. \A i \in 1..Taken : sent'[i] = sent[i]
    BY <2>3, <2>5
  <2>8. Taken > 0 => Taken \in 1..Taken
    BY <2>5
  <2> QED BY <1>2, <2>3, <2>4, <2>5, <2>6, <2>7, <2>8 DEF Heard, setupVars
<1> QED BY <1>1, <1>2

(* The record of a connector that has ended, and of one that waits.        *)
LEMMA FinishedConn ==
  ASSUME conn \in Conns, conn' = [conn EXCEPT !.at = "finished", !.sender = FALSE]
  PROVE  /\ conn' \in Conns /\ conn'.at = "finished" /\ conn'.attempt = conn.attempt
         /\ conn'.admitted = conn.admitted /\ conn'.streak = conn.streak
         /\ conn'.delay = conn.delay /\ conn'.sender = FALSE
BY DEF Conns

(* The connector's record after an attempt that failed, which waits.       *)
LEMMA WaitingConn ==
  ASSUME conn \in Conns, NEW t \in 0..AttemptCap, NEW a \in BOOLEAN, NEW k \in 0..RefusalCap,
         NEW d \in Nat,
         conn' = [conn EXCEPT !.at = "waiting", !.attempt = t, !.admitted = a, !.streak = k,
                    !.delay = d]
  PROVE  /\ conn' \in Conns /\ conn'.at = "waiting" /\ conn'.attempt = t
         /\ conn'.admitted = a /\ conn'.streak = k /\ conn'.delay = d
         /\ conn'.sender = conn.sender
BY DEF Conns

(* A failed attempt of the connector.                                      *)
LEMMA AttemptFailedKeeps ==
  ASSUME ConnInv, Room, conn.at \in {"connecting", "relaying", "writing", "refusing"},
         NEW e \in Errors, NEW j \in Jitters, AttemptFailed(e, j),
         UNCHANGED <<setupVars, cancel, expired, latest, failure>>
  PROVE  ConnInv'
<1> DEFINE admitted == conn.admitted \/ e \in {"relay_failed", "protocol_failed"}
           refused == e = "http_refused_401"
           tries == AtMost(conn.attempt + 1, AttemptCap)
           streak == IF refused THEN AtMost(conn.streak + 1, RefusalCap) ELSE 0
           base == IF admitted /\ refused THEN RefusedDelay(streak) ELSE ReconnectDelay(tries)
           delay == j + base
<1>1. /\ Send(e)
      /\ \/ conn' = [conn EXCEPT !.at = "finished", !.sender = FALSE]
         \/ conn' = [conn EXCEPT !.at = "waiting", !.attempt = tries,
                        !.admitted = admitted, !.streak = streak, !.delay = delay]
  BY DEF AttemptFailed, ConnEnds
<1>2. conn \in Conns
  BY DEF ConnInv, ConnTypes
<1>3. /\ tries \in 0..AttemptCap /\ streak \in 0..RefusalCap /\ admitted \in BOOLEAN
      /\ tries \in Nat /\ streak \in Nat
  BY <1>2 DEF Conns, AtMost, AttemptCap, RefusalCap
<1>4. delay \in Nat /\ 250 <= delay /\ delay <= 300250
  <2>1. /\ ReconnectDelay(tries) \in Nat /\ 250 <= ReconnectDelay(tries) /\ ReconnectDelay(tries) <= 8000
        /\ RefusedDelay(streak) \in Nat /\ 8000 <= RefusedDelay(streak) /\ RefusedDelay(streak) <= 300000
    BY <1>3, Delays, SMT
  <2> HIDE DEF admitted, refused, tries, streak
  <2>2. base \in Nat /\ 250 <= base /\ base <= 300000
    BY <2>1, SMT
  <2> HIDE DEF base
  <2> QED BY <2>2, JitterAssumption, SMT
<1>4a. delay \in Nat
  BY <1>4, SMT
<1>5. /\ events' \in Seq(Events) /\ sent' \in Seq(Events) /\ Len(sent') <= MaxEvents /\ Heard'
      /\ events' # events => conn.sender
  BY <1>1, SendKeeps DEF ConnInv, Events
<1>6. streak > 0 => delay = j + IF admitted THEN RefusedDelay(streak) ELSE ReconnectDelay(tries)
  BY SMT
<1> HIDE DEF admitted, refused, tries, streak, base, delay
<1>7. /\ conn' \in Conns
      /\ conn'.delay = 0 \/ (250 <= conn'.delay /\ conn'.delay <= 300250)
  <2>1. conn.delay = 0 \/ (250 <= conn.delay /\ conn.delay <= 300250)
    BY SMT DEF ConnInv, ConnTypes
  <2>2. CASE conn' = [conn EXCEPT !.at = "finished", !.sender = FALSE]
    BY <1>2, <2>1, <2>2, FinishedConn, SMT
  <2>3. CASE conn' = [conn EXCEPT !.at = "waiting", !.attempt = tries,
                        !.admitted = admitted, !.streak = streak, !.delay = delay]
    <3>1. conn' \in Conns /\ conn'.delay = delay
      BY <1>2, <1>3, <1>4a, <2>3, WaitingConn, Zenon
    <3> QED BY <1>4, <3>1, SMT
  <2> QED BY <1>1, <2>2, <2>3
<1>8. ConnTypes'
  BY <1>5, <1>7, SMT DEF ConnInv, ConnTypes
<1>9. ConnPlace'
  <2>1. conn'.at \in {"finished", "waiting"}
    <3>1. CASE conn' = [conn EXCEPT !.at = "finished", !.sender = FALSE]
      BY <1>2, <3>1, FinishedConn
    <3>2. CASE conn' = [conn EXCEPT !.at = "waiting", !.attempt = tries,
                          !.admitted = admitted, !.streak = streak, !.delay = delay]
      BY <1>2, <1>3, <1>4a, <3>2, WaitingConn, Zenon
    <3> QED BY <1>1, <3>1, <3>2
  <2> QED BY <2>1, SMT DEF ConnInv, ConnPlace, setupVars
<1>10. ConnDelay'
  <2>1. CASE conn' = [conn EXCEPT !.at = "finished", !.sender = FALSE]
    BY <1>2, <2>1, FinishedConn, SMT DEF ConnInv, ConnDelay
  <2>2. CASE conn' = [conn EXCEPT !.at = "waiting", !.attempt = tries,
                        !.admitted = admitted, !.streak = streak, !.delay = delay]
    <3>1. /\ conn'.at = "waiting" /\ conn'.attempt = tries
          /\ conn'.admitted = admitted /\ conn'.streak = streak /\ conn'.delay = delay
      BY <1>2, <1>3, <1>4a, <2>2, WaitingConn, Zenon
    <3> QED BY <1>6, <3>1 DEF ConnDelay
  <2> QED BY <1>1, <2>1, <2>2
<1>11. GaveUp'
  <2>1. conn'.sender \in {conn.sender, FALSE}
    <3>1. CASE conn' = [conn EXCEPT !.at = "finished", !.sender = FALSE]
      BY <1>2, <3>1, FinishedConn
    <3>2. CASE conn' = [conn EXCEPT !.at = "waiting", !.attempt = tries,
                          !.admitted = admitted, !.streak = streak, !.delay = delay]
      BY <1>2, <1>3, <1>4a, <3>2, WaitingConn, Zenon
    <3> QED BY <1>1, <3>1, <3>2
  <2> QED BY <1>5, <2>1 DEF ConnInv, GaveUp, setupVars
<1> QED BY <1>5, <1>8, <1>9, <1>10, <1>11 DEF ConnInv

(* Any other change of the connector's place.                              *)
LEMMA MovedConn ==
  ASSUME conn \in Conns, NEW a \in {"check", "connecting", "relaying"} \cup Blocked,
         conn' = [conn EXCEPT !.at = a]
  PROVE  /\ conn' \in Conns /\ conn'.at = a /\ conn'.attempt = conn.attempt
         /\ conn'.admitted = conn.admitted /\ conn'.streak = conn.streak
         /\ conn'.delay = conn.delay /\ conn'.sender = conn.sender
BY DEF Conns, Blocked

(* The connector's record after a relay that ran and closed.               *)
LEMMA RelayedConn ==
  ASSUME conn \in Conns, NEW d \in Nat,
         conn' = [conn EXCEPT !.at = "waiting", !.sender = FALSE, !.attempt = 0,
                    !.admitted = TRUE, !.streak = 0, !.delay = d]
  PROVE  /\ conn' \in Conns /\ conn'.at = "waiting" /\ conn'.streak = 0 /\ conn'.delay = d
         /\ conn'.sender = FALSE
<1>1. conn' = [at |-> "waiting", attempt |-> 0, admitted |-> TRUE, streak |-> 0, sender |-> FALSE,
               delay |-> d]
  BY DEF Conns
<1>2. 0 \in 0..AttemptCap /\ 0 \in 0..RefusalCap
  BY DEF AttemptCap, RefusalCap
<1> QED BY <1>1, <1>2 DEF Conns

(* A connector that moves but keeps its count and its delay.               *)
LEMMA ConnMoves ==
  ASSUME ConnInv, conn.at \notin {"off", "finished"},
         conn' \in Conns, conn'.at # "off", conn'.attempt = conn.attempt,
         conn'.admitted = conn.admitted, conn'.streak = conn.streak, conn'.delay = conn.delay,
         UNCHANGED <<setupVars, cancel, expired, latest, failure>>,
         events' \in Seq(Events), sent' \in Seq(Events), Len(sent') <= MaxEvents, Heard',
         conn'.sender \in {conn.sender, FALSE}, events' # events => conn.sender
  PROVE  ConnInv'
<1>1. ConnTypes'
  BY SMT DEF ConnInv, ConnTypes
<1>2. ConnPlace'
  BY SMT DEF ConnInv, ConnPlace, setupVars
<1>3. ConnDelay'
  BY SMT DEF ConnInv, ConnDelay
<1>4. GaveUp'
  BY DEF ConnInv, GaveUp, setupVars
<1> QED BY <1>1, <1>2, <1>3, <1>4 DEF ConnInv

(* The connector and its relay leave the setup alone.                      *)
LEMMA ConnStepApart ==
  ASSUME ConnectorStep \/ RelayStep
  PROVE  setupVars' = setupVars /\ UNCHANGED <<cancel, expired, latest, failure>>
<1>1. CASE ConnCheck
  BY <1>1 DEF ConnCheck
<1>2. CASE ConnectFails
  BY <1>2 DEF ConnectFails
<1>3. CASE Refuse
  BY <1>3 DEF Refuse
<1>4. CASE Connected
  BY <1>4 DEF Connected
<1>5. CASE ConnCancelled
  BY <1>5 DEF ConnCancelled
<1>6. CASE ConnWaited
  BY <1>6 DEF ConnWaited
<1>7. CASE RelayFails
  BY <1>7 DEF RelayFails
<1>8. CASE RelayWrites
  BY <1>8 DEF RelayWrites
<1>9. CASE RelayWritten
  BY <1>9 DEF RelayWritten
<1>10. CASE RelayEnds
  BY <1>10 DEF RelayEnds
<1>11. CASE RelayLeft
  BY <1>11 DEF RelayLeft
<1> QED
  BY <1>1, <1>2, <1>3, <1>4, <1>5, <1>6, <1>7, <1>8, <1>9, <1>10, <1>11 DEF ConnectorStep, RelayStep

(* What the connector thread and its relay do keeps the invariant.         *)
LEMMA ConnStepKeeps == ASSUME ConnInv, ConnectorStep \/ RelayStep PROVE ConnInv'
<1>1. conn \in Conns /\ ConnTypes /\ Heard /\ setupVars' = setupVars /\ UNCHANGED <<cancel, expired, latest, failure>>
  BY ConnStepApart DEF ConnInv, ConnTypes
<1>2. ASSUME UNCHANGED <<events, sent>>, conn.at \notin {"off", "finished"},
             conn' = [conn EXCEPT !.at = "finished", !.sender = FALSE]
      PROVE  ConnInv'
  <2>1. Heard' /\ events' \in Seq(Events) /\ sent' \in Seq(Events) /\ Len(sent') <= MaxEvents
    BY <1>1, <1>2 DEF Heard, Taken, setupVars, ConnTypes
  <2>2. /\ conn' \in Conns /\ conn'.at = "finished" /\ conn'.attempt = conn.attempt
        /\ conn'.admitted = conn.admitted /\ conn'.streak = conn.streak
        /\ conn'.delay = conn.delay /\ conn'.sender = FALSE
    BY <1>1, <1>2, FinishedConn
  <2> QED BY <1>1, <1>2, <2>1, <2>2, ConnMoves
<1>3. ASSUME UNCHANGED <<events, sent>>, conn.at \notin {"off", "finished"},
             NEW a \in {"check", "connecting", "relaying"} \cup Blocked, conn' = [conn EXCEPT !.at = a]
      PROVE  ConnInv'
  <2>1. Heard' /\ events' \in Seq(Events) /\ sent' \in Seq(Events) /\ Len(sent') <= MaxEvents
    BY <1>1, <1>3 DEF Heard, Taken, setupVars, ConnTypes
  <2>2. /\ conn' \in Conns /\ conn'.at = a /\ conn'.attempt = conn.attempt
        /\ conn'.admitted = conn.admitted /\ conn'.streak = conn.streak
        /\ conn'.delay = conn.delay /\ conn'.sender = conn.sender
    BY <1>1, <1>3, MovedConn
  <2>3. conn'.at # "off"
    BY <1>3, <2>2 DEF Blocked
  <2> QED BY <1>1, <1>3, <2>1, <2>2, <2>3, ConnMoves
<1>4. CASE ConnCheck
  BY <1>2, <1>3, <1>4 DEF ConnCheck, ConnEnds
<1>5. CASE ConnCancelled \/ RelayLeft
  BY <1>2, <1>3, <1>5 DEF ConnCancelled, RelayLeft, ConnEnds, Blocked
<1>6. CASE ConnWaited \/ Refuse \/ RelayWrites \/ RelayWritten
  BY <1>3, <1>6 DEF ConnWaited, Refuse, RelayWrites, RelayWritten, Blocked
<1>7. CASE ConnectFails
  <2>1. PICK e \in ConnectErrors, j \in Jitters : AttemptFailed(e, j)
    BY <1>7 DEF ConnectFails
  <2>2. e \in Errors /\ Room /\ conn.at = "connecting"
    BY <1>7 DEF ConnectFails, ConnectErrors, Errors
  <2> QED BY <1>1, <2>1, <2>2, AttemptFailedKeeps
<1>8. CASE RelayFails
  <2>1. PICK e \in {"relay_failed", "protocol_failed"}, j \in Jitters : AttemptFailed(e, j)
    BY <1>8 DEF RelayFails
  <2>2. e \in Errors /\ Room /\ conn.at \in {"relaying", "writing", "refusing"}
    BY <1>8 DEF RelayFails, Errors
  <2> QED BY <1>1, <2>1, <2>2, AttemptFailedKeeps
<1>9. CASE Connected
  <2>1. /\ conn' = [conn EXCEPT !.at = "relaying"] /\ Send("registered") /\ Room
        /\ conn.at = "connecting" /\ "registered" \in Events
    BY <1>9 DEF Connected, Events
  <2>2. /\ events' \in Seq(Events) /\ sent' \in Seq(Events) /\ Len(sent') <= MaxEvents /\ Heard'
        /\ events' # events => conn.sender
    BY <1>1, <2>1, SendKeeps
  <2>3. /\ conn' \in Conns /\ conn'.at = "relaying" /\ conn'.attempt = conn.attempt
        /\ conn'.admitted = conn.admitted /\ conn'.streak = conn.streak
        /\ conn'.delay = conn.delay /\ conn'.sender = conn.sender
    BY <1>1, <2>1, MovedConn
  <2> QED BY <1>1, <2>1, <2>2, <2>3, ConnMoves
<1>10. CASE RelayEnds
  <2>1. PICK j \in Jitters :
          /\ conn.at \in {"relaying", "closing"} /\ UNCHANGED <<events, sent>>
          /\ conn' = [conn EXCEPT !.at = "waiting", !.sender = FALSE, !.attempt = 0,
                 !.admitted = TRUE, !.streak = 0, !.delay = j + ReconnectDelay(0)]
    BY <1>10 DEF RelayEnds
  <2> DEFINE d == j + ReconnectDelay(0)
  <2>2. d \in Nat /\ 250 <= d /\ d <= 300250
    <3>1. ReconnectDelay(0) \in Nat /\ 250 <= ReconnectDelay(0) /\ ReconnectDelay(0) <= 8000
      BY Delays, SMT
    <3>2. j \in 0..250
      BY JitterAssumption
    <3> QED BY <3>1, <3>2, SMT
  <2>3. /\ conn' \in Conns /\ conn'.at = "waiting" /\ conn'.streak = 0 /\ conn'.delay = d
        /\ conn'.sender = FALSE
    <3>1. d \in Nat
      BY <2>2, SMT
    <3>2. conn' = [conn EXCEPT !.at = "waiting", !.sender = FALSE, !.attempt = 0,
                 !.admitted = TRUE, !.streak = 0, !.delay = d]
      BY <2>1
    <3> HIDE DEF d
    <3> QED BY <1>1, <3>1, <3>2, RelayedConn, Zenon
  <2> HIDE DEF d
  <2>4. ConnTypes'
    BY <1>1, <2>1, <2>2, <2>3, SMT DEF ConnTypes
  <2>5. ConnPlace'
    BY <1>1, <2>1, <2>3, SMT DEF ConnInv, ConnPlace, setupVars
  <2>6. ConnDelay'
    BY <2>3, SMT DEF ConnDelay
  <2>7. Heard' /\ GaveUp'
    BY <1>1, <2>1, <2>3 DEF ConnInv, Heard, Taken, GaveUp, setupVars
  <2> QED BY <2>4, <2>5, <2>6, <2>7 DEF ConnInv
<1> QED
  BY <1>4, <1>5, <1>6, <1>7, <1>8, <1>9, <1>10 DEF ConnectorStep, RelayStep

(* A step of somebody else keeps the connector's invariant when it leaves  *)
(* the thread a place.                                                     *)
LEMMA ConnFrame ==
  ASSUME ConnInv, UNCHANGED connVars, boot' = boot,
         conn.at # "off" => pc' \in {"register", "join"} \cup Ended,
         pc' = "done" /\ session' \in NoSession => conn.at \in {"off", "finished"},
         boot.kind = "managed" /\ session' = "open" => session = "open",
         pc' = "join" => pc = "join" /\ (late' = FALSE => late = FALSE),
         pc' = "register" => pc = "register"
  PROVE  ConnInv'
<1>1. ConnTypes' /\ ConnDelay'
  BY SMT DEF ConnInv, ConnTypes, ConnDelay, connVars
<1>2. ConnPlace'
  BY DEF ConnInv, ConnPlace, connVars
<1>3. Heard' /\ GaveUp'
  BY DEF ConnInv, Heard, Taken, GaveUp, connVars
<1> QED BY <1>1, <1>2, <1>3 DEF ConnInv

(* The Tailscale steps never reach the managed ones, and only the status   *)
(* poll makes a session.                                                   *)
LEMMA TailscaleMoves ==
  ASSUME SetupInv, TailscaleStep
  PROVE  /\ boot' = boot /\ pc \notin {"register", "join"} \cup Ended /\ pc' \notin {"register", "join"}
         /\ session' # session => pc = "status"
<1> USE DEF Ended
<1>1. boot.kind \in {"none", "tailscale", "managed"}
  BY SetupAssumption DEF SetupInv, SetupTypes
<1>2. CASE TakeCredential \/ SpawnSetup \/ Entry \/ BindTailscale \/ Download
  BY <1>1, <1>2 DEF TakeCredential, SpawnSetup, Entry, BindTailscale, Download, Deliver
<1>3. CASE MakeRoot
  BY <1>3 DEF MakeRoot, AfterAttempt, Deliver
<1>4. CASE Extract
  BY <1>4 DEF Extract, AttemptFails, AfterAttempt, Deliver
<1>5. CASE WriteFiles
  BY <1>5 DEF WriteFiles, AttemptFails, AfterAttempt, Deliver
<1>6. CASE SpawnDaemon
  BY <1>6 DEF SpawnDaemon, SpawnOutcomes, AttemptFails, AfterAttempt, Deliver
<1>7. CASE SocketWait
  BY <1>7 DEF SocketWait, SidecarExit, AttemptFails, AfterAttempt, Deliver
<1>8. CASE Up
  BY <1>8 DEF Up, UpOutcomes, AttemptFails, AfterAttempt, Deliver
<1>9. CASE Status
  BY <1>9 DEF Status, StatusOutcomes, AttemptFails, AfterAttempt, Deliver
<1> QED BY <1>2, <1>3, <1>4, <1>5, <1>6, <1>7, <1>8, <1>9 DEF TailscaleStep

(* The steps of the setup, the host, the watchdog and the session's end    *)
(* that leave the connector alone.                                         *)
LEMMA ConnBeside ==
  ASSUME SetupInv, ConnInv, UNCHANGED connVars,
         TailscaleStep \/ Wedge \/ SetupPanics \/ PassDeadline \/ SidecarDies \/ Watchdog \/ StopTailscale
  PROVE  ConnInv'
<1>1. conn.at # "off" => boot.kind = "managed" /\ pc \in {"register", "join"} \cup Ended
  BY DEF ConnInv, ConnPlace
<1>2. CASE TailscaleStep
  <2>1. conn.at = "off"
    BY <1>1, <1>2, TailscaleMoves
  <2>2. pc = "status" => boot.kind = "tailscale"
    BY DEF SetupInv, KindInv, TailscalePc
  <2> QED BY <1>2, <2>1, <2>2, TailscaleMoves, ConnFrame
<1>3. CASE Wedge
  <2>1. pc' = "wedged" /\ UNCHANGED <<boot, session>>
    BY <1>3 DEF Wedge
  <2> QED BY <2>1, ConnFrame DEF Ended
<1>4. CASE SetupPanics
  <2>1. pc' = "done" /\ UNCHANGED <<boot, session>> /\ boot.kind = "tailscale"
    BY <1>4 DEF SetupPanics, Deliver
  <2>2. conn.at = "off"
    BY <1>1, <2>1
  <2> QED BY <2>1, <2>2, ConnFrame DEF Ended
<1>5. CASE PassDeadline \/ SidecarDies \/ Watchdog
  <2>1. UNCHANGED <<pc, boot, session>> /\ (late' = FALSE => late = FALSE)
    BY <1>5 DEF PassDeadline, SidecarDies, Watchdog
  <2> QED BY <2>1, ConnFrame DEF ConnInv, ConnPlace
<1>6. CASE StopTailscale
  <2>1. UNCHANGED <<pc, boot, late>> /\ boot.kind = "tailscale" /\ session' = "stopped"
    BY <1>6 DEF StopTailscale
  <2>2. conn.at = "off"
    BY <1>1, <2>1
  <2> QED BY <2>1, <2>2, ConnFrame
<1> QED BY <1>2, <1>3, <1>4, <1>5, <1>6

(* The managed setup, which starts the connector, listens to it and joins  *)
(* it.                                                                     *)
LEMMA ConnManaged == ASSUME SetupInv, ConnInv, ManagedStep PROVE ConnInv'
<1>1. conn.at # "off" => boot.kind = "managed" /\ pc \in {"register", "join"} \cup Ended
  BY DEF ConnInv, ConnPlace
<1>2. conn \in Conns /\ ConnTypes /\ Heard /\ ConnPlace /\ ConnDelay /\ GaveUp
  BY DEF ConnInv, ConnTypes
<1>3. CASE BindManaged \/ VerifyToolchain \/ PrepareHostKey \/ CapturePanics \/ StartDropbear
  <2>1. /\ pc \in {"managed", "toolchain", "hostkey", "dropbear"}
        /\ pc' \in {"toolchain", "hostkey", "dropbear", "connector", "done"}
        /\ UNCHANGED <<boot, session, connVars>>
    <3>1. CASE BindManaged
      BY <3>1 DEF BindManaged, ManagedUnchanged, Deliver
    <3>2. CASE VerifyToolchain
      BY <3>2 DEF VerifyToolchain, ToolchainCodes, ManagedFails, Deliver
    <3>3. CASE PrepareHostKey
      BY <3>3 DEF PrepareHostKey, ManagedFails, Deliver
    <3>4. CASE CapturePanics
      BY <3>4 DEF CapturePanics, ManagedUnchanged, Deliver
    <3>5. CASE StartDropbear
      BY <3>5 DEF StartDropbear, ManagedFails, Deliver
    <3> QED BY <1>3, <3>1, <3>2, <3>3, <3>4, <3>5
  <2>2. conn.at = "off"
    BY <1>1, <2>1 DEF Ended
  <2> QED BY <2>1, <2>2, ConnFrame
<1>4. CASE SpawnConnector
  <2>1. /\ pc = "connector" /\ boot' = boot /\ conn.at = "off" /\ session = "none"
        /\ boot.kind = "managed"
    BY <1>1, <1>4 DEF SpawnConnector, Ended, SetupInv, KindInv, ManagedPc
  <2>2. CASE Deliver("access_connector_start_failed") /\ UNCHANGED conn
    <3>1. pc' = "done" /\ session' = session /\ UNCHANGED connVars
      BY <1>4, <2>2 DEF SpawnConnector, Deliver, connVars
    <3> QED BY <2>1, <3>1, ConnFrame
  <2>3. CASE /\ pc' = "register" /\ session' = session
             /\ conn' = [conn EXCEPT !.at = "check", !.sender = TRUE]
    <3>1. UNCHANGED <<cancel, expired, events, latest, failure, sent>>
      BY <1>4 DEF SpawnConnector
    <3>2. /\ conn' \in Conns /\ conn'.at = "check" /\ conn'.delay = conn.delay
          /\ conn'.streak = conn.streak /\ conn'.admitted = conn.admitted
          /\ conn'.attempt = conn.attempt
      BY <1>2, <2>3 DEF Conns
    <3>3. ConnTypes' /\ ConnDelay'
      BY <1>2, <3>1, <3>2, SMT DEF ConnTypes, ConnDelay
    <3>4. ConnPlace'
      BY <2>1, <2>3, <3>2 DEF ConnPlace
    <3>5. Heard' /\ GaveUp'
      <4>1. sent = <<>> /\ Len(sent) = 0 /\ Len(events) \in Nat
        BY <1>2, <2>1 DEF ConnPlace, ConnTypes
      <4>2. Taken' = Taken /\ Taken = 0
        BY <1>2, <3>1, <4>1 DEF Heard, Taken
      <4>3. \A i \in 1..Taken : FALSE
        BY <4>2
      <4> QED BY <1>2, <2>1, <2>3, <3>1, <4>2, <4>3 DEF Heard, GaveUp
    <3> QED BY <3>3, <3>4, <3>5 DEF ConnInv
  <2> QED BY <1>4, <2>2, <2>3 DEF SpawnConnector
<1>5. CASE Receive
  <2>1. /\ pc = "register" /\ events # <<>> /\ events' = Tail(events) /\ boot' = boot
        /\ session = "none" /\ boot.kind = "managed"
        /\ UNCHANGED <<conn, cancel, expired, failure, sent>>
    BY <1>5 DEF Receive, ManagedUnchanged, SetupInv, KindInv, ManagedPc
  <2>2. events \in Seq(Events) /\ Len(events) \in Nat /\ Len(events) > 0
    BY <1>2, <2>1 DEF ConnTypes
  <2>3. /\ Tail(events) \in Seq(Events) /\ Len(Tail(events)) = Len(events) - 1
        /\ \A i \in DOMAIN Tail(events) : i + 1 \in DOMAIN events /\ Tail(events)[i] = events[i + 1]
        /\ Head(events) = events[1] /\ 1 \in DOMAIN events
        /\ Head(events) \in Events
    BY <2>1, <2>2
  <2>4. /\ Len(sent) \in Nat /\ Taken \in Nat /\ Taken' = Taken + 1 /\ Taken + 1 \in 1..Len(sent)
        /\ Head(events) = sent[Taken + 1] /\ Len(events') <= Len(sent')
    <3>1. sent \in Seq(Events) /\ Len(sent) \in Nat /\ Len(events) <= Len(sent)
          /\ \A i \in 1..Len(events) : events[i] = sent[Taken + i]
      BY <1>2 DEF ConnTypes, Heard
    <3> QED BY <2>1, <2>2, <2>3, <3>1 DEF Taken
  <2>5. \A i \in 1..Len(events') : events'[i] = sent'[Taken' + i]
    <3> SUFFICES ASSUME NEW i \in 1..Len(events') PROVE events'[i] = sent'[Taken' + i]
      OBVIOUS
    <3>1. i + 1 \in 1..Len(events) /\ events'[i] = events[i + 1]
      BY <2>1, <2>2, <2>3
    <3>2. events[i + 1] = sent[Taken + (i + 1)]
      BY <1>2, <3>1 DEF Heard
    <3>3. Taken + (i + 1) = Taken' + i
      BY <2>4
    <3> QED BY <2>1, <3>1, <3>2, <3>3
  <2>6. Taken' > 0 /\ Taken' # 0
    BY <2>4
  <2>7. CASE Head(events) = "registered"
    <3>1. pc' = "done" /\ session' \in {"open", "late"} /\ latest' = latest
      BY <1>5, <2>7 DEF Receive, Deliver
    <3>2. ConnTypes' /\ ConnDelay'
      BY <1>2, <2>1, <2>3, <3>1, SMT DEF ConnTypes, ConnDelay
    <3>3. ConnPlace' /\ GaveUp'
      BY <1>2, <2>1, <3>1 DEF ConnPlace, GaveUp, Ended, NoSession
    <3>4. sent'[Taken'] = "registered"
      BY <2>1, <2>4, <2>7
    <3>5. Heard'
      BY <2>4, <2>5, <2>6, <3>1, <3>4 DEF Heard
    <3> QED BY <3>2, <3>3, <3>5 DEF ConnInv
  <2>8. CASE Head(events) # "registered"
    <3>1. pc' = pc /\ session' = session /\ latest' = Head(events)
      BY <1>5, <2>8 DEF Receive
    <3>2. Head(events) \in Errors
      BY <2>3, <2>8 DEF Events
    <3>3. ConnTypes' /\ ConnDelay'
      BY <1>2, <2>1, <2>3, <3>1, <3>2, SMT DEF ConnTypes, ConnDelay
    <3>4. ConnPlace' /\ GaveUp'
      BY <1>2, <2>1, <3>1 DEF ConnPlace, GaveUp
    <3>5. sent'[Taken'] = latest'
      BY <2>1, <2>4, <3>1
    <3>6. \A i \in 1..Taken' : sent'[i] # "registered"
      <4>1. \A i \in 1..Taken : sent[i] # "registered"
        BY <1>2, <2>1 DEF Heard
      <4>2. \A i \in 1..(Taken + 1) : i \in 1..Taken \/ i = Taken + 1
        BY <2>4
      <4> QED BY <2>1, <2>4, <2>8, <4>1, <4>2
    <3>7. Heard'
      BY <2>1, <2>4, <2>5, <2>6, <3>1, <3>5, <3>6 DEF Heard
    <3> QED BY <3>3, <3>4, <3>7 DEF ConnInv
  <2> QED BY <2>7, <2>8
<1>6. CASE GiveUpRegistration
  <2>1. /\ pc = "register" /\ pc' = "join" /\ session' = session /\ boot' = boot
        /\ late' = late /\ (late = FALSE => events = <<>> /\ ~conn.sender)
        /\ failure' = RegistrationCode /\ cancel' = TRUE
        /\ UNCHANGED <<conn, expired, events, latest, sent>>
    BY <1>6 DEF GiveUpRegistration, ManagedUnchanged
  <2>2. RegistrationCode # "session"
    BY <1>2 DEF RegistrationCode, ConnTypes, Errors
  <2>3. /\ Taken' = Taken /\ Taken \in Nat
        /\ \A i \in 1..Taken : sent[i] # "registered"
        /\ Taken \in 1..Taken \/ Taken = 0
    <3>1. Len(sent) \in Nat /\ Len(events) \in Nat /\ Len(events) <= Len(sent)
      BY <1>2 DEF ConnTypes, Heard
    <3> QED BY <1>2, <2>1, <3>1 DEF Heard, Taken
  <2>4. failure' = IF Taken' = 0 THEN "access_connector_registration_failed" ELSE sent'[Taken']
    <3>1. CASE Taken = 0
      BY <1>2, <2>1, <2>3, <3>1 DEF RegistrationCode, Heard
    <3>2. CASE Taken # 0
      <4>1. latest = sent[Taken] /\ sent[Taken] \in Events /\ Taken > 0
        <5>1. Taken \in 1..Len(sent) /\ sent \in Seq(Events)
          BY <1>2, <2>3, <3>2 DEF Heard, Taken, ConnTypes
        <5> QED BY <1>2, <2>3, <3>2, <5>1 DEF Heard
      <4>2. latest # "none"
        BY <4>1 DEF Events, Errors
      <4> QED BY <2>1, <2>3, <3>2, <4>1, <4>2 DEF RegistrationCode
    <3> QED BY <3>1, <3>2
  <2>5. ConnTypes' /\ ConnDelay'
    BY <1>2, <2>1, <2>2, SMT DEF ConnTypes, ConnDelay
  <2>6. ConnPlace'
    BY <1>2, <2>1 DEF ConnPlace
  <2>7. GaveUp'
    BY <1>2, <2>1 DEF GaveUp, ConnTypes, Conns
  <2>8. Heard'
    BY <1>2, <2>1, <2>3, <2>4 DEF Heard
  <2> QED BY <2>5, <2>6, <2>7, <2>8 DEF ConnInv
<1>7. CASE Join
  <2>1. pc' = "done" /\ boot' = boot /\ session' = session /\ conn.at = "finished" /\ UNCHANGED connVars
    BY <1>2, <1>7 DEF Join, ManagedFails, Deliver, ConnTypes
  <2> QED BY <2>1, ConnFrame DEF Ended
<1> QED BY <1>3, <1>4, <1>5, <1>6, <1>7 DEF ManagedStep

(* The end of a managed session.                                           *)
LEMMA ConnStops == ASSUME SetupInv, ConnInv, StopConnector \/ StopManaged PROVE ConnInv'
<1>1. CASE StopConnector
  <2>1. /\ setupVars' = setupVars /\ cancel' = TRUE
        /\ UNCHANGED <<conn, expired, events, latest, failure, sent>>
    BY <1>1 DEF StopConnector
  <2>2. ConnTypes' /\ ConnDelay'
    BY <2>1, SMT DEF ConnInv, ConnTypes, ConnDelay
  <2>3. ConnPlace' /\ Heard' /\ GaveUp'
    BY <2>1 DEF ConnInv, ConnPlace, Heard, Taken, GaveUp, setupVars
  <2> QED BY <2>2, <2>3 DEF ConnInv
<1>2. CASE StopManaged
  <2>1. /\ UNCHANGED <<pc, boot, connVars>> /\ session' = "stopped" /\ conn.at = "finished"
    BY <1>2 DEF StopManaged
  <2>2. pc = "done"
    BY <1>2 DEF StopManaged, SetupInv, KindInv
  <2> QED BY <2>1, <2>2, ConnFrame DEF Ended
<1> QED BY <1>1, <1>2
-----------------------------------------------------------------------------
(* The endpoints.                                                          *)

SlotStates == [published : BOOLEAN, readiness : {"none", "up", "down"}, finished : BOOLEAN]
Blank == [published |-> FALSE, readiness |-> "none", finished |-> FALSE]

(* A slot v with its last report w, its handler h, in session p: one that  *)
(* nobody spoke of is as it was made; one that is still probed was last    *)
(* reported as what its readiness says; a published one is private as long *)
(* as the session is open, and none is before that.                        *)
SlotFits(v, w, h, p) ==
  /\ w = "none" => v = Blank
  /\ v.published = TRUE /\ v.finished = FALSE =>
       /\ v.readiness = "none" => w = "published"
       /\ v.readiness = "up" => w = "ready"
       /\ v.readiness = "down" => w = "degraded"
  /\ p = "open" /\ v.published = TRUE => h = "private"
  /\ p \in {"none", "late"} => w = "none"

EndpointInv ==
  /\ slot \in [Slots -> SlotStates]
  /\ said \in [Slots -> {"none", "published", "ready", "degraded"}]
  /\ handler \in [Slots -> Handlers]
  /\ due \in [Slots -> BOOLEAN]
  /\ \A s \in Slots : SlotFits(slot[s], said[s], handler[s], session)

(* One report of an endpoint, as ReportsAlternate wants it.                *)
ReportFits(s) ==
  said'[s] # said[s] =>
    /\ <<said[s], said'[s]>> \in ReportOrder
    /\ ~slot[s].finished
    /\ (said[s] = "published" /\ said'[s] = "degraded") => ProbeOf[s] = "exec"
    /\ (said[s] = "none" /\ said'[s] = "ready") => ProbeOf[s] = "none"
    /\ said'[s] # "degraded" => handler'[s] = "private"

(* Steps that say nothing.                                                 *)
LEMMA EndpointFrame ==
  ASSUME EndpointInv, UNCHANGED <<slot, due, said>>,
         \/ handler' = handler /\ (session' = session \/ session = "none")
         \/ handler' \in [Slots -> Handlers] /\ session' = "stopped"
  PROVE  EndpointInv' /\ \A s \in Slots : ReportFits(s)
<1>1. \A s \in Slots : ReportFits(s)
  BY DEF ReportFits
<1>2. CASE handler' \in [Slots -> Handlers] /\ session' = "stopped"
  <2>1. ASSUME NEW s \in Slots PROVE SlotFits(slot[s], said[s], handler'[s], "stopped")
    <3>1. SlotFits(slot[s], said[s], handler[s], session)
      BY DEF EndpointInv
    <3> QED BY <3>1 DEF SlotFits
  <2> QED BY <1>1, <1>2, <2>1 DEF EndpointInv
<1>3. CASE handler' = handler /\ session' = session
  BY <1>1, <1>3 DEF EndpointInv
<1>4. CASE handler' = handler /\ session = "none"
  <2>1. ASSUME NEW s \in Slots PROVE SlotFits(slot[s], said[s], handler[s], session')
    <3>1. SlotFits(slot[s], said[s], handler[s], "none")
      BY <1>4 DEF EndpointInv
    <3> QED BY <3>1 DEF SlotFits, Blank
  <2> QED BY <1>1, <1>4, <2>1 DEF EndpointInv
<1> QED BY <1>1, <1>2, <1>3, <1>4

(* The edits of a slot that publish_endpoints makes.                       *)
LEMMA SlotEdits ==
  ASSUME NEW r \in SlotStates
  PROVE  /\ [r EXCEPT !.finished = TRUE] \in SlotStates
         /\ [r EXCEPT !.finished = TRUE].published = r.published
         /\ [r EXCEPT !.finished = TRUE].finished = TRUE
         /\ [r EXCEPT !.published = TRUE] \in SlotStates
         /\ [r EXCEPT !.published = TRUE].readiness = r.readiness
         /\ [r EXCEPT !.published = TRUE].finished = r.finished
         /\ [r EXCEPT !.published = TRUE].published = TRUE
BY DEF SlotStates

(* publish_endpoints, on a session that just opened.                       *)
LEMMA PublishKeeps ==
  ASSUME EndpointInv, session = "open", session' = session,
         \A s \in Slots : said[s] = "none", PublishEndpoints
  PROVE  EndpointInv' /\ \A s \in Slots : ReportFits(s)
<1>1. PICK served \in [Slots -> BOOLEAN], left \in [Slots -> Handlers], readable \in [Slots -> BOOLEAN] :
    LET view(s) == Published(s, served[s], left[s], readable[s])
        todo(s) == ~slot[s].published /\ ~slot[s].finished
    IN /\ slot' = [s \in Slots |-> IF todo(s) THEN view(s).slot ELSE slot[s]]
       /\ said' = [s \in Slots |-> IF todo(s) THEN view(s).said ELSE said[s]]
       /\ handler' = [s \in Slots |-> IF todo(s) THEN left[s] ELSE handler[s]]
       /\ UNCHANGED due
  BY DEF PublishEndpoints
<1>2. ASSUME NEW s \in Slots
      PROVE  /\ slot[s] = Blank
             /\ slot'[s] = Published(s, served[s], left[s], readable[s]).slot
             /\ said'[s] = Published(s, served[s], left[s], readable[s]).said
             /\ handler'[s] = left[s]
  <2>1. slot[s] = Blank
    BY DEF EndpointInv, SlotFits
  <2>2. ~slot[s].published /\ ~slot[s].finished
    BY <2>1 DEF Blank
  <2> QED BY <1>1, <2>1, <2>2
<1>3. ASSUME NEW s \in Slots
      PROVE  /\ slot'[s] \in SlotStates
             /\ \/ slot'[s].published = FALSE /\ said'[s] = "degraded"
                \/ /\ slot'[s].published = TRUE /\ slot'[s].finished = TRUE
                   /\ said'[s] = "ready" /\ ProbeOf[s] = "none" /\ handler'[s] = "private"
                \/ /\ slot'[s].published = TRUE /\ slot'[s].readiness = "none"
                   /\ said'[s] = "published" /\ handler'[s] = "private"
  <2>1. PublishOne(served[s], left[s], readable[s]) = "ok" => left[s] = "private"
    BY DEF PublishOne, Verify, Handlers
  <2> DEFINE ok == PublishOne(served[s], left[s], readable[s]) = "ok"
  <2>2. slot[s] \in SlotStates /\ slot[s].published = FALSE /\ slot[s].readiness = "none"
    BY <1>2 DEF EndpointInv, Blank
  <2>3. CASE ~ok
    <3>1. slot'[s] = [slot[s] EXCEPT !.finished = TRUE] /\ said'[s] = "degraded"
      BY <1>2, <2>3 DEF Published
    <3>2. /\ [slot[s] EXCEPT !.finished = TRUE] \in SlotStates
          /\ [slot[s] EXCEPT !.finished = TRUE].published = slot[s].published
      BY <2>2, SlotEdits, Zenon
    <3>3. slot'[s] \in SlotStates /\ slot'[s].published = FALSE
      BY <2>2, <3>1, <3>2, Zenon
    <3> QED BY <3>1, <3>3
  <2>4. CASE ok /\ ProbeOf[s] = "none"
    <3>1. /\ slot'[s] = [published |-> TRUE, readiness |-> "up", finished |-> TRUE]
          /\ said'[s] = "ready" /\ handler'[s] = "private"
      BY <1>2, <2>1, <2>4 DEF Published
    <3>2. slot'[s] \in SlotStates
      BY <3>1 DEF SlotStates
    <3> QED BY <2>4, <3>1, <3>2
  <2>5. CASE ok /\ ProbeOf[s] # "none"
    <3>1. slot'[s] = [slot[s] EXCEPT !.published = TRUE] /\ said'[s] = "published"
      BY <1>2, <2>5 DEF Published
    <3>2. /\ [slot[s] EXCEPT !.published = TRUE] \in SlotStates
          /\ [slot[s] EXCEPT !.published = TRUE].published = TRUE
          /\ [slot[s] EXCEPT !.published = TRUE].readiness = slot[s].readiness
      BY <2>2, SlotEdits, Zenon
    <3>3. slot'[s] \in SlotStates /\ slot'[s].published = TRUE /\ slot'[s].readiness = "none"
      BY <2>2, <3>1, <3>2, Zenon
    <3> QED BY <1>2, <2>1, <2>5, <3>1, <3>3
  <2> QED BY <2>3, <2>4, <2>5
<1>4. /\ slot' \in [Slots -> SlotStates]
      /\ said' \in [Slots -> {"none", "published", "ready", "degraded"}]
  <2>1. ASSUME NEW s \in Slots
        PROVE  slot'[s] \in SlotStates /\ said'[s] \in {"none", "published", "ready", "degraded"}
    BY <1>3
  <2>2. /\ slot' = [s \in Slots |-> slot'[s]]
        /\ said' = [s \in Slots |-> said'[s]]
    BY <1>1
  <2> QED BY <2>1, <2>2
<1>5. handler' \in [Slots -> Handlers] /\ due' \in [Slots -> BOOLEAN]
  BY <1>1 DEF EndpointInv
<1>6. ASSUME NEW s \in Slots PROVE ReportFits(s)
  <2>1. ~slot[s].finished /\ said[s] = "none"
    BY <1>2 DEF Blank
  <2>2. \/ said'[s] = "degraded"
        \/ said'[s] = "ready" /\ ProbeOf[s] = "none" /\ handler'[s] = "private"
        \/ said'[s] = "published" /\ handler'[s] = "private"
    BY <1>3
  <2> QED BY <2>1, <2>2 DEF ReportFits, ReportOrder
<1>7. ASSUME NEW s \in Slots PROVE SlotFits(slot'[s], said'[s], handler'[s], "open")
  BY <1>3 DEF SlotFits, SlotStates
<1> QED BY <1>4, <1>5, <1>6, <1>7 DEF EndpointInv

(* endpoint_readiness_changes for one slot.                                *)
LEMMA ProbeKeeps ==
  ASSUME EndpointInv, session = "open", session' = session, NEW s \in Slots, ProbeEndpoint(s)
  PROVE  EndpointInv' /\ \A x \in Slots : ReportFits(x)
<1>1. /\ slot[s].published /\ ~slot[s].finished /\ handler' = handler
      /\ due' = [due EXCEPT ![s] = FALSE]
  BY DEF ProbeEndpoint
<1>2. PICK v \in Verdicts(s) :
       LET t == ReadinessTransition(slot[s].readiness, v)
       IN /\ slot' = [slot EXCEPT ![s].readiness = t.readiness, ![s].finished = @ \/ t.finished]
          /\ said' = IF t.said = "silent" THEN said ELSE [said EXCEPT ![s] = t.said]
  BY DEF ProbeEndpoint
<1> DEFINE t == ReadinessTransition(slot[s].readiness, v)
<1>3. slot[s] \in SlotStates /\ handler[s] = "private"
  <2>1. slot[s] \in SlotStates /\ SlotFits(slot[s], said[s], handler[s], "open")
    BY DEF EndpointInv
  <2> QED BY <1>1, <2>1 DEF SlotFits, SlotStates
<1>4. v \in {"pass", "fail", "unsupported"} /\ (v = "unsupported" <=> ProbeOf[s] = "exec")
  BY DEF Verdicts
<1>5. /\ said[s] = "published" <=> slot[s].readiness = "none"
      /\ said[s] = "ready" <=> slot[s].readiness = "up"
      /\ said[s] = "degraded" <=> slot[s].readiness = "down"
      /\ said[s] # "none"
  <2>1. SlotFits(slot[s], said[s], handler[s], "open")
    BY DEF EndpointInv
  <2> QED BY <1>1, <1>3, <2>1 DEF SlotFits, SlotStates, Blank
<1>6. /\ t.readiness \in {"none", "up", "down"} /\ t.finished \in BOOLEAN
      /\ t.said \in {"silent", "ready", "degraded"}
      /\ t.said = "silent" => t.readiness = slot[s].readiness /\ ~t.finished
      /\ t.said = "ready" => t.readiness = "up" /\ slot[s].readiness # "up" /\ ~t.finished
      /\ t.said = "degraded" =>
           \/ t.readiness = "down" /\ slot[s].readiness = "up" /\ ~t.finished
           \/ t.readiness = "down" /\ t.finished /\ ProbeOf[s] = "exec"
  <2>1. slot[s].readiness \in {"none", "up", "down"}
    BY <1>3 DEF SlotStates
  <2>2. CASE v = "pass"
    BY <2>1, <2>2 DEF ReadinessTransition
  <2>3. CASE v = "fail"
    BY <2>1, <2>3 DEF ReadinessTransition
  <2>4. CASE v = "unsupported"
    BY <2>1, <2>4, <1>4 DEF ReadinessTransition
  <2> QED BY <1>4, <2>2, <2>3, <2>4
<1>7. /\ slot' = [slot EXCEPT ![s].readiness = t.readiness, ![s].finished = @ \/ t.finished]
      /\ said' = IF t.said = "silent" THEN said ELSE [said EXCEPT ![s] = t.said]
  BY <1>2
<1> HIDE DEF t
<1>8. /\ slot' \in [Slots -> SlotStates]
      /\ \A x \in Slots \ {s} : slot'[x] = slot[x] /\ said'[x] = said[x]
      /\ slot'[s].published /\ slot'[s].readiness = t.readiness
      /\ slot'[s].finished <=> t.finished
  BY <1>1, <1>3, <1>6, <1>7 DEF EndpointInv, SlotStates
<1>9. /\ said' \in [Slots -> {"none", "published", "ready", "degraded"}]
      /\ said'[s] = IF t.said = "silent" THEN said[s] ELSE t.said
  BY <1>6, <1>7 DEF EndpointInv
<1>10. due' \in [Slots -> BOOLEAN]
  BY <1>1 DEF EndpointInv
<1>11. ReportFits(s)
  <2>1. said'[s] # said[s] =>
          \/ said'[s] = "ready" /\ said[s] \in {"published", "degraded"}
          \/ said'[s] = "degraded" /\ said[s] = "ready"
          \/ said'[s] = "degraded" /\ said[s] = "published" /\ ProbeOf[s] = "exec"
    <3>1. slot[s].readiness \in {"none", "up", "down"}
      BY <1>3 DEF SlotStates
    <3> QED BY <3>1, <1>5, <1>6, <1>9
  <2> QED BY <1>1, <1>3, <2>1 DEF ReportFits, ReportOrder
<1>12. \A x \in Slots : ReportFits(x)
  BY <1>8, <1>11 DEF ReportFits
<1>13. SlotFits(slot'[s], said'[s], handler'[s], "open")
  BY <1>1, <1>3, <1>5, <1>6, <1>8, <1>9 DEF SlotFits
<1>14. ASSUME NEW x \in Slots PROVE SlotFits(slot'[x], said'[x], handler'[x], "open")
  BY <1>1, <1>8, <1>13 DEF EndpointInv
<1> QED BY <1>1, <1>8, <1>9, <1>10, <1>12, <1>14 DEF EndpointInv
-----------------------------------------------------------------------------
(* The whole lifecycle.                                                    *)

LifecycleInv == SetupInv /\ ConnInv /\ EndpointInv

(* A bootstrap is what it is at the start: nothing made, nothing heard.    *)
LEMMA LifecycleStarts == LifecycleInit => LifecycleInv
<1> SUFFICES ASSUME LifecycleInit PROVE LifecycleInv
  OBVIOUS
<1>1. SetupInit /\ ConnInit /\ EndpointInit
  BY DEF LifecycleInit, ManagedInit
<1>2. SetupInv
  <2>1. SetupTypes
    <3>1. fetches \in 0..(FetchAttempts - 1) /\ attempt \in Attempts
      BY <1>1, SetupAssumption DEF SetupInit, Attempts
    <3>2. pc \in Pcs /\ late \in BOOLEAN /\ trees = {} /\ keyFiles = {} /\ sidecars = {}
      BY <1>1 DEF SetupInit, Pcs
    <3> QED BY <1>1, <3>1, <3>2 DEF SetupInit, SetupTypes
  <2>2. KindInv /\ DaemonInv /\ TreeInv /\ UpInv
    BY <1>1 DEF SetupInit, KindInv, DaemonInv, TreeInv, UpInv, TailscalePc, ManagedPc, BeforeRoot, AfterRoot
  <2> QED BY <2>1, <2>2 DEF SetupInv
<1>3. ConnInv
  <2>1. conn \in Conns /\ conn.delay = 0 /\ conn.at = "off" /\ conn.streak = 0
    BY <1>1 DEF ConnInit, Conns, AttemptCap, RefusalCap
  <2>2. events \in Seq(Events) /\ sent \in Seq(Events) /\ Len(sent) = 0
    BY <1>1 DEF ConnInit
  <2>3. ConnTypes
    <3>1. cancel \in BOOLEAN /\ expired \in BOOLEAN /\ latest = "none" /\ failure # "session"
      BY <1>1 DEF ConnInit
    <3>2. Len(sent) <= MaxEvents
      BY <2>2, EventsAssumption
    <3> HIDE <1>1
    <3> QED BY <2>1, <2>2, <3>1, <3>2, SMT DEF ConnTypes
  <2>4. ConnDelay
    BY <2>1, SMT DEF ConnDelay
  <2>5. ConnPlace /\ Heard /\ GaveUp
    <3>1. Taken = 0 /\ Len(events) = 0 /\ Len(sent) = 0
      BY <1>1 DEF ConnInit, Taken
    <3> QED BY <1>1, <2>1, <3>1 DEF ConnInit, SetupInit, ConnPlace, Heard, GaveUp
  <2> QED BY <2>3, <2>4, <2>5 DEF ConnInv
<1>4. EndpointInv
  <2>1. Blank \in SlotStates
    BY DEF Blank, SlotStates
  <2>2. slot = [s \in Slots |-> Blank]
    BY <1>1 DEF EndpointInit, Blank
  <2>3. \A s \in Slots : SlotFits(Blank, "none", "none", "none")
    BY DEF SlotFits, Blank
  <2> QED BY <1>1, <2>1, <2>2, <2>3 DEF EndpointInit, EndpointInv, SetupInit, Handlers
<1> QED BY <1>2, <1>3, <1>4 DEF LifecycleInv

(* Before the thread has ended there is no session.                        *)
LEMMA NoSessionYet == ASSUME SetupInv, pc # "done" PROVE session = "none"
BY DEF SetupInv, KindInv

(* Steps that move the setup and the connector leave the endpoints as they *)
(* are: they make a session, or leave it, or stop it.                      *)
LEMMA EndpointBeside ==
  ASSUME SetupInv, EndpointInv, UNCHANGED endpointVars,
         session' # session => session = "none" \/ session' = "stopped"
  PROVE  EndpointInv' /\ \A s \in Slots : ReportFits(s)
<1>1. UNCHANGED <<slot, due, said>> /\ handler' = handler /\ handler \in [Slots -> Handlers]
  BY DEF endpointVars, EndpointInv
<1>2. CASE session' = session \/ session = "none"
  BY <1>1, <1>2, EndpointFrame
<1>3. CASE session' = "stopped"
  BY <1>1, <1>3, EndpointFrame
<1> QED BY <1>2, <1>3

(* Only the credential's clock moves.                                      *)
LEMMA ExpireKeeps == ASSUME ConnInv, Expire PROVE ConnInv'
<1>1. UNCHANGED <<pc, session, boot, late, conn, cancel, events, latest, failure, sent>> /\ expired' = TRUE
  BY DEF Expire, setupVars
<1>2. ConnTypes' /\ ConnDelay'
  BY <1>1, SMT DEF ConnInv, ConnTypes, ConnDelay
<1>3. ConnPlace' /\ Heard' /\ GaveUp'
  BY <1>1 DEF ConnInv, ConnPlace, Heard, Taken, GaveUp
<1> QED BY <1>2, <1>3 DEF ConnInv

(* A step of the connector leaves the setup alone.                         *)
LEMMA SetupBeside == ASSUME SetupInv, UNCHANGED setupVars PROVE SetupInv'
<1>1. SetupTypes' /\ KindInv' /\ DaemonInv' /\ TreeInv' /\ UpInv'
  BY DEF setupVars, SetupInv, SetupTypes, KindInv, DaemonInv, TreeInv, UpInv
<1> QED BY <1>1 DEF SetupInv

(* A step of the endpoints leaves the connector alone.                     *)
LEMMA ConnAlone == ASSUME ConnInv, UNCHANGED allSetupVars PROVE ConnInv'
<1>1. UNCHANGED <<setupVars, connVars>>
  BY DEF allSetupVars
<1>2. UNCHANGED <<pc, session, boot, late, conn, cancel, expired, events, latest, failure, sent>>
  BY <1>1 DEF setupVars, connVars
<1>3. ConnTypes' /\ ConnDelay'
  BY <1>2, SMT DEF ConnInv, ConnTypes, ConnDelay
<1>4. ConnPlace' /\ Heard' /\ GaveUp'
  BY <1>2 DEF ConnInv, ConnPlace, Heard, Taken, GaveUp
<1> QED BY <1>3, <1>4 DEF ConnInv

(* The managed setup makes a session only of none.                         *)
LEMMA ManagedMoves == ASSUME SetupInv, ManagedStep PROVE session = "none"
<1>1. pc # "done"
  BY DEF ManagedStep, BindManaged, VerifyToolchain, PrepareHostKey, CapturePanics, StartDropbear,
         SpawnConnector, Receive, GiveUpRegistration, Join
<1> QED BY <1>1, NoSessionYet

(* Every step keeps the invariant, and reports as ReportsAlternate wants.  *)
LEMMA LifecycleSteps ==
  ASSUME LifecycleInv, [LifecycleNext]_lifecycleVars
  PROVE  LifecycleInv' /\ \A s \in Slots : ReportFits(s)
<1>1. SetupInv /\ ConnInv /\ EndpointInv
  BY DEF LifecycleInv
<1> USE <1>1
<1>2. CASE SetupThread
  <2>1. CASE TailscaleStep /\ UNCHANGED <<connVars, endpointVars>>
    <3>1. session' # session => session = "none"
      BY <2>1, TailscaleMoves, NoSessionYet
    <3> QED BY <2>1, <3>1, TailscaleKeeps, ConnBeside, EndpointBeside DEF LifecycleInv
  <2>2. CASE ManagedStep /\ UNCHANGED endpointVars
    <3>1. failure # "session" /\ session = "none"
      BY <2>2, ManagedMoves DEF ConnInv, ConnTypes
    <3> QED BY <2>2, <3>1, ManagedKeeps, ConnManaged, EndpointBeside DEF LifecycleInv
  <2> QED BY <1>2, <2>1, <2>2 DEF SetupThread
<1>3. CASE Host \/ WatchdogFires
  <2>1. CASE Expire /\ UNCHANGED endpointVars
    <3>1. UNCHANGED setupVars /\ session' = session
      BY <2>1 DEF Expire, setupVars
    <3> QED BY <2>1, <3>1, SetupBeside, ExpireKeeps, EndpointBeside DEF LifecycleInv
  <2>2. CASE /\ Wedge \/ SetupPanics \/ PassDeadline \/ SidecarDies \/ Watchdog
             /\ UNCHANGED <<connVars, endpointVars>>
    <3>1. session' = session
      BY <2>2 DEF Wedge, SetupPanics, PassDeadline, SidecarDies, Watchdog, Deliver
    <3> QED BY <2>2, <3>1, HostKeeps, ConnBeside, EndpointBeside DEF LifecycleInv
  <2> QED BY <1>3, <2>1, <2>2 DEF Host, WatchdogFires
<1>4. CASE Connector \/ Relay
  <2>1. (ConnectorStep \/ RelayStep) /\ UNCHANGED endpointVars
    BY <1>4 DEF Connector, Relay
  <2>2. UNCHANGED setupVars
    BY <2>1, ConnStepApart
  <2>3. session' = session
    BY <2>2 DEF setupVars
  <2> QED BY <2>1, <2>2, <2>3, SetupBeside, ConnStepKeeps, EndpointBeside DEF LifecycleInv
<1>5. CASE Publish
  <2>1. /\ session = "open" /\ \A s \in Slots : said[s] = "none"
        /\ PublishEndpoints /\ UNCHANGED allSetupVars
    BY <1>5 DEF Publish
  <2>2. UNCHANGED setupVars /\ session' = session
    BY <2>1 DEF allSetupVars, setupVars
  <2> QED BY <2>1, <2>2, SetupBeside, ConnAlone, PublishKeeps DEF LifecycleInv
<1>6. CASE Probing
  <2>1. session = "open" /\ UNCHANGED allSetupVars
    BY <1>6 DEF Probing
  <2>2. UNCHANGED setupVars /\ session' = session
    BY <2>1 DEF allSetupVars, setupVars
  <2>3. PICK s \in Slots : ProbeEndpoint(s) \/ ProbeFallsDue(s)
    BY <1>6 DEF Probing
  <2>4. CASE ProbeEndpoint(s)
    BY <2>1, <2>2, <2>4, SetupBeside, ConnAlone, ProbeKeeps DEF LifecycleInv
  <2>5. CASE ProbeFallsDue(s)
    <3>1. due' = [due EXCEPT ![s] = TRUE] /\ UNCHANGED <<slot, handler, said>>
      BY <2>5 DEF ProbeFallsDue
    <3>2. EndpointInv' /\ \A x \in Slots : ReportFits(x)
      BY <2>2, <3>1 DEF EndpointInv, ReportFits
    <3> QED BY <2>1, <2>2, <3>2, SetupBeside, ConnAlone DEF LifecycleInv
  <2> QED BY <2>3, <2>4, <2>5
<1>7. CASE StopSession
  <2>1. CASE StopTailscale /\ ResetServe /\ UNCHANGED connVars
    <3>1. handler' \in [Slots -> Handlers] /\ UNCHANGED <<slot, due, said>>
      BY <2>1 DEF ResetServe, Handlers
    <3>2. session' = "stopped"
      BY <2>1 DEF StopTailscale
    <3>3. EndpointInv' /\ \A s \in Slots : ReportFits(s)
      BY <3>1, <3>2, EndpointFrame
    <3> QED BY <2>1, <3>3, StopKeeps, ConnBeside DEF LifecycleInv
  <2>2. CASE StopManaged /\ UNCHANGED endpointVars
    <3>1. session' = "stopped"
      BY <2>2 DEF StopManaged
    <3> QED BY <2>2, <3>1, StopKeeps, ConnStops, EndpointBeside DEF LifecycleInv
  <2>3. CASE StopConnector /\ UNCHANGED endpointVars
    <3>1. UNCHANGED setupVars /\ session' = session
      BY <2>3 DEF StopConnector, setupVars
    <3> QED BY <2>3, <3>1, SetupBeside, ConnStops, EndpointBeside DEF LifecycleInv
  <2> QED BY <1>7, <2>1, <2>2, <2>3 DEF StopSession
<1>8. CASE UNCHANGED lifecycleVars
  <2>1. UNCHANGED <<allSetupVars, setupVars, endpointVars>> /\ session' = session
    BY <1>8 DEF lifecycleVars, allSetupVars, setupVars
  <2> QED BY <2>1, SetupBeside, ConnAlone, EndpointBeside DEF LifecycleInv
<1> QED BY <1>2, <1>3, <1>4, <1>5, <1>6, <1>7, <1>8 DEF LifecycleNext, Finished
-----------------------------------------------------------------------------
(* A set of naturals whose members are all equal counts one at most.       *)
LEMMA OneAtMost ==
  ASSUME NEW S, \A a, b \in S : a = b
  PROVE  Cardinality(S) <= 1
<1>1. CASE S = {}
  BY <1>1, FS_EmptySet
<1>2. CASE S # {}
  <2>1. PICK a \in S : S = {a}
    BY <1>2
  <2> QED BY <2>1, FS_Singleton
<1> QED BY <1>1, <1>2

(* What the invariant says of a state.                                     *)
LEMMA LifecycleSafe == LifecycleInv => SetupSafe
<1> SUFFICES ASSUME SetupInv, ConnInv PROVE SetupSafe
  BY DEF LifecycleInv
<1>1. LifecycleTypeOK
  <2>1. /\ environment \in {"none", "ok", "other"}
        /\ credential \in {"none", "ok", "other"}
        /\ session \in {"none", "open", "late", "stopped"}
        /\ late \in BOOLEAN
        /\ fetches \in 0..(FetchAttempts - 1)
        /\ attempt \in Attempts
        /\ trees \subseteq Attempts /\ keyFiles \subseteq trees /\ sidecars \subseteq Attempts
        /\ spent \subseteq ups /\ ups \subseteq Attempts
    BY DEF SetupInv, SetupTypes
  <2>2. cancel \in BOOLEAN /\ expired \in BOOLEAN /\ conn \in Conns /\ Len(sent) <= MaxEvents
    BY DEF ConnInv, ConnTypes
  <2>3. conn.attempt \in 0..AttemptCap /\ conn.streak \in 0..RefusalCap
    BY <2>2 DEF Conns
  <2>4. conn.delay = 0 \/ (250 <= conn.delay /\ conn.delay <= 300250)
    BY SMT DEF ConnInv, ConnTypes
  <2> QED BY <2>1, <2>2, <2>3, <2>4, SMT DEF LifecycleTypeOK
<1>2. NothingLeft
  BY DEF SetupInv, DaemonInv, TreeInv, ConnInv, ConnPlace, NothingLeft
<1>3. SessionWhole
  BY DEF SetupInv, SetupTypes, KindInv, TreeInv, SessionWhole
<1>4. UpOnce
  BY OneAtMost DEF SetupInv, UpInv, UpOnce
<1>5. RegistrationTold
  <2>1. (pc = "join" /\ ~late) => \A i \in DOMAIN sent : sent[i] # "registered"
    <3> SUFFICES ASSUME pc = "join", ~late PROVE \A i \in DOMAIN sent : sent[i] # "registered"
      OBVIOUS
    <3>1. events = <<>> /\ sent \in Seq(Events)
      BY DEF ConnInv, GaveUp, ConnTypes, SetupInv, SetupTypes
    <3>2. Taken = Len(sent) /\ DOMAIN sent = 1..Len(sent)
      BY <3>1 DEF Taken
    <3> QED BY <3>2 DEF ConnInv, Heard
  <2> QED BY <2>1 DEF ConnInv, Heard, Taken, RegistrationTold
<1> QED BY <1>1, <1>2, <1>3, <1>4, <1>5 DEF SetupSafe

(* Every state of the lifecycle satisfies the invariant.                   *)
THEOREM LifecycleIsInv == LifecycleSpec => []LifecycleInv
<1>1. LifecycleInit => LifecycleInv
  BY LifecycleStarts
<1>2. LifecycleInv /\ [LifecycleNext]_lifecycleVars => LifecycleInv'
  BY LifecycleSteps
<1> QED BY <1>1, <1>2, PTL DEF LifecycleSpec

(* Setup and stop leave nothing running and nothing on disk, a session is  *)
(* whole when it is handed over, `up` runs once unless the host failed,    *)
(* and a registration is told as it was heard, for any bootstraps, retry   *)
(* budgets and publications.                                               *)
THEOREM SetupIsSafe == LifecycleSpec => []SetupSafe
BY LifecycleIsInv, LifecycleSafe, PTL

(* A wait for refusals is of whole seconds before its jitter.              *)
LEMMA WholeSeconds == \A n \in Nat : \E m \in Nat : RefusedDelay(n) = 1000 * m
<1> SUFFICES ASSUME NEW n \in Nat PROVE \E m \in Nat : RefusedDelay(n) = 1000 * m
  OBVIOUS
<1> DEFINE x == AtMost(IF n = 0 THEN 0 ELSE n - 1, 6)
<1>1. x \in 0..6
  BY DEF AtMost
<1>2. RefusedDelay(n) = AtMost(8000 * Pow2(x), 300000)
  BY DEF RefusedDelay
<1> HIDE DEF x
<1>3. Pow2(x) \in Nat
  BY <1>1, Powers, SMT
<1>4. RefusedDelay(n) = 1000 * (8 * Pow2(x)) \/ RefusedDelay(n) = 1000 * 300
  BY <1>2, <1>3, SMT DEF AtMost
<1>5. 8 * Pow2(x) \in Nat /\ 300 \in Nat
  BY <1>3, SMT
<1> QED BY <1>4, <1>5

(* The step behind RefusalsBackOff.                                        *)
LEMMA RefusalStep ==
  ASSUME LifecycleInv, [LifecycleNext]_lifecycleVars,
         conn.admitted, conn'.streak >= conn.streak, conn.streak > 0,
         conn'.at = "waiting", conn.at = "connecting"
  PROVE  conn.delay \div 1000 <= conn'.delay \div 1000 /\ conn'.delay <= 300250
<1>1. conn \in Conns
  BY DEF LifecycleInv, ConnInv, ConnTypes
<1>1a. PICK i \in Jitters : conn.delay = i + RefusedDelay(conn.streak)
  BY DEF LifecycleInv, ConnInv, ConnDelay
<1>2. PICK e \in Errors, j \in Jitters : AttemptFailed(e, j)
  <2>1. conn' # conn
    OBVIOUS
  <2>2. pc # "connector"
    BY DEF LifecycleInv, ConnInv, ConnPlace, Ended
  <2>3. ConnectorStep \/ RelayStep
    BY <2>1, <2>2 DEF LifecycleNext, SetupThread, Host, WatchdogFires, Connector, Relay, Publish, Probing,
       StopSession, Finished, lifecycleVars, allSetupVars, connVars, ManagedStep, BindManaged,
       VerifyToolchain, PrepareHostKey, CapturePanics, StartDropbear, SpawnConnector, Receive,
       GiveUpRegistration, Join, Expire, StopConnector, StopManaged
  <2>4. conn'.at = "waiting" /\ conn.at = "connecting"
    OBVIOUS
  <2>5. ~ConnEnds
    BY <1>1, FinishedConn DEF ConnEnds
  <2>6. \A a \in {"check", "connecting", "relaying"} \cup Blocked : conn' # [conn EXCEPT !.at = a]
    BY <1>1, <2>4, MovedConn DEF Blocked
  <2>7. ConnectFails
    <3>1. ~(ConnCheck \/ ConnWaited \/ RelayFails \/ RelayWrites \/ RelayWritten \/ RelayEnds \/ RelayLeft)
      BY <2>4 DEF ConnCheck, ConnWaited, RelayFails, RelayWrites, RelayWritten, RelayEnds, RelayLeft
    <3>2. ~Refuse /\ ~Connected
      BY <2>6 DEF Refuse, Connected, Blocked
    <3>3. ~ConnCancelled
      BY <2>4, <2>5 DEF ConnCancelled
    <3> QED BY <2>3, <3>1, <3>2, <3>3 DEF ConnectorStep, RelayStep
  <2> QED BY <2>7 DEF ConnectFails, ConnectErrors, Errors
<1> DEFINE refused == e = "http_refused_401"
           admitted == conn.admitted \/ e \in {"relay_failed", "protocol_failed"}
           tries == AtMost(conn.attempt + 1, AttemptCap)
           streak == IF refused THEN AtMost(conn.streak + 1, RefusalCap) ELSE 0
           base == IF admitted /\ refused THEN RefusedDelay(streak) ELSE ReconnectDelay(tries)
           delay == j + base
<1>3. tries \in 0..AttemptCap /\ streak \in 0..RefusalCap /\ tries \in Nat /\ streak \in Nat
  BY <1>1 DEF Conns, AtMost, AttemptCap, RefusalCap
<1>4. conn' = [conn EXCEPT !.at = "waiting", !.attempt = tries, !.admitted = admitted, !.streak = streak,
                 !.delay = delay]
  <2>1. ~ConnEnds
    BY <1>1, FinishedConn DEF ConnEnds
  <2> QED BY <1>2, <2>1 DEF AttemptFailed
<1>5. RefusedDelay(streak) \in Nat /\ ReconnectDelay(tries) \in Nat /\ RefusedDelay(streak) <= 300000
  BY <1>3, Delays, SMT
<1>6. admitted \in BOOLEAN /\ delay \in Nat
  BY <1>1, <1>5, JitterAssumption DEF Conns
<1>7. conn.streak \in 0..7 /\ conn.streak \in Nat
  BY <1>1 DEF Conns, RefusalCap
<1>8. streak > 0 => refused /\ conn.streak <= streak
  BY <1>7 DEF AtMost, RefusalCap
<1>9. refused => delay = j + RefusedDelay(streak)
  OBVIOUS
<1> HIDE DEF admitted, tries, streak, base, delay, refused
<1>10. conn'.streak = streak /\ conn'.delay = delay
  BY <1>1, <1>3, <1>4, <1>6, WaitingConn, Zenon
<1>11. refused /\ conn.streak <= streak
  BY <1>3, <1>7, <1>8, <1>10
<1>12. PICK m, n \in Nat :
         /\ RefusedDelay(conn.streak) = 1000 * m /\ RefusedDelay(streak) = 1000 * n /\ m <= n
  <2>1. RefusedDelay(conn.streak) <= RefusedDelay(streak)
    BY <1>3, <1>7, <1>11, Delays, SMT
  <2>2. PICK m \in Nat : RefusedDelay(conn.streak) = 1000 * m
    BY <1>7, WholeSeconds
  <2>3. PICK n \in Nat : RefusedDelay(streak) = 1000 * n
    BY <1>3, WholeSeconds
  <2>4. m <= n
    BY <2>1, <2>2, <2>3, SMT
  <2> QED BY <2>2, <2>3, <2>4
<1>13. /\ (i + 1000 * m) \div 1000 = m /\ (j + 1000 * n) \div 1000 = n
       /\ j + RefusedDelay(streak) <= 300250
  <2>1. i \in 0..250 /\ j \in 0..250
    BY JitterAssumption
  <2> QED BY <1>5, <1>12, <2>1, SMT
<1> QED BY <1>1a, <1>9, <1>10, <1>11, <1>12, <1>13, SMT

(* While the gateway keeps refusing an admitted credential the waits never *)
(* get shorter but by their jitter, and stay within the ceiling and its    *)
(* jitter: connector_driver's streak and refused_after_admission_delay.    *)
THEOREM RefusalsNeverShrink == LifecycleSpec => RefusalsBackOff
<1>1. LifecycleInv /\ [LifecycleNext]_lifecycleVars =>
        [(conn.admitted /\ conn'.streak >= conn.streak /\ conn.streak > 0
            /\ conn'.at = "waiting" /\ conn.at = "connecting")
           => conn.delay \div 1000 <= conn'.delay \div 1000 /\ conn'.delay <= 300250]_lifecycleVars
  BY RefusalStep, SMT
<1> QED BY <1>1, LifecycleIsInv, PTL DEF LifecycleSpec, RefusalsBackOff

(* No report of an endpoint contradicts the one before it, whatever the    *)
(* session, the probes and the serve configuration do.                     *)
THEOREM ReportsDoAlternate == LifecycleSpec => ReportsAlternate
<1>1. LifecycleInv /\ [LifecycleNext]_lifecycleVars =>
        [\A s \in Slots : said'[s] # said[s] =>
           /\ <<said[s], said'[s]>> \in ReportOrder
           /\ ~slot[s].finished
           /\ (said[s] = "published" /\ said'[s] = "degraded") => ProbeOf[s] = "exec"
           /\ (said[s] = "none" /\ said'[s] = "ready") => ProbeOf[s] = "none"
           /\ said'[s] # "degraded" => handler'[s] = "private"]_endpointVars
  BY LifecycleSteps DEF ReportFits
<1> QED BY <1>1, LifecycleIsInv, PTL DEF LifecycleSpec, ReportsAlternate
=============================================================================
