-------------------------- MODULE SupervisedAccess --------------------------
(***************************************************************************)
(* The supervisor with a Runtime SSH access session beside the customer:   *)
(* the sidecar state machine of src/src/access/managed.rs, driven from the *)
(* supervision loop.  The two share the helper's process table: the        *)
(* sidecar is a child of the helper, and reap_descendants waits for any    *)
(* child.  A Tailscale session is the case MaxRespawns = 0; a job without  *)
(* access, or whose setup failed, has no session.                          *)
(***************************************************************************)
EXTENDS Supervisor

CONSTANT MaxRespawns   \* MAX_SIDECAR_RESPAWNS

ASSUME AccessAssumption == MaxRespawns \in Nat

VARIABLES
  sidecar,     \* SidecarState, and "stopped" after stop() or without a session
  respawns,    \* respawns_used
  due,         \* Down.retry_at has passed
  dropbear,    \* the sidecar process; "reaped" through its Child handle, or
               \* "stolen" by reap_descendants
  connector,   \* the connector thread
  report,      \* the last access stage reported
  deaths,      \* history: sidecar processes that died unasked
  crashes      \* history: Crashed events reported

access == <<sidecar, respawns, due, dropbear, connector, report, deaths, crashes>>
allVars == <<vars, access>>

(* The type invariant of the session. *)
AccessTypeOK ==
  /\ sidecar \in {"running", "down", "terminal", "stopped"}
  /\ respawns \in 0..MaxRespawns
  /\ due \in BOOLEAN
  /\ dropbear \in {"alive", "zombie", "reaped", "stolen"}
  /\ connector \in {"running", "finished"}
  /\ report \in {"none", "ready", "degraded", "stopped", "cleanup_failed"}
  /\ deaths \in Nat
  /\ crashes \in Nat

\* Setup succeeded, the sidecar listens and access was reported ready; or
\* there is no session.
AccessInit ==
  /\ Init
  /\ \/ /\ sidecar = "running" /\ dropbear = "alive" /\ connector = "running"
        /\ report = "ready"
     \/ /\ sidecar = "stopped" /\ dropbear = "reaped" /\ connector = "finished"
        /\ report = "none"
  /\ respawns = 0
  /\ due = FALSE
  /\ deaths = 0
  /\ crashes = 0
-----------------------------------------------------------------------------
(* sidecar_event, called once per pass of the supervision loop.            *)

NextRespawn(used) ==
  /\ sidecar' = IF used < MaxRespawns THEN "down" ELSE "terminal"
  /\ due' = FALSE

\* Mutant: the connector's end is not looked at.
ConnectorEndedUnseen ==
  /\ sidecar = "running"
  /\ connector = "finished"
  /\ UNCHANGED access

\* Running: the connector's end is final; a death that try_wait sees is
\* reported and a respawn scheduled.
ConnectorEnded ==
  /\ sidecar = "running"
  /\ connector = "finished"
  /\ sidecar' = "terminal"
  /\ report' = "degraded"
  /\ crashes' = crashes + 1
  /\ UNCHANGED <<respawns, due, dropbear, connector, deaths>>

\* Mutant: the state stays Running after a death is reported.
SidecarDeathSeenTwice ==
  /\ sidecar = "running"
  /\ connector = "running"
  /\ dropbear = "zombie"
  /\ report' = "degraded"
  /\ crashes' = crashes + 1
  /\ UNCHANGED <<sidecar, respawns, due, dropbear, connector, deaths>>

\* Mutant: the death is inferred without waiting for the process.
SidecarDeathUnreaped ==
  /\ sidecar = "running"
  /\ connector = "running"
  /\ dropbear = "zombie"
  /\ NextRespawn(respawns)
  /\ report' = "degraded"
  /\ crashes' = crashes + 1
  /\ UNCHANGED <<respawns, dropbear, connector, deaths>>

SidecarDeathSeen ==
  /\ sidecar = "running"
  /\ connector = "running"
  /\ dropbear = "zombie"
  /\ dropbear' = "reaped"
  /\ NextRespawn(respawns)
  /\ report' = "degraded"
  /\ crashes' = crashes + 1
  /\ UNCHANGED <<respawns, connector, deaths>>

\* try_wait().ok().flatten().is_none(): an error, here ECHILD for a process
\* that was reaped elsewhere, reads as still running.
SidecarSeemsAlive ==
  /\ sidecar = "running"
  /\ connector = "running"
  /\ dropbear \in {"alive", "stolen"}
  /\ UNCHANGED access

DownConnectorEnded ==
  /\ sidecar = "down"
  /\ connector = "finished"
  /\ sidecar' = "terminal"
  /\ UNCHANGED <<respawns, due, dropbear, connector, report, deaths, crashes>>

DownWaiting ==
  /\ sidecar = "down"
  /\ connector = "running"
  /\ ~due
  /\ UNCHANGED access

RespawnRecovers ==
  /\ sidecar = "down"
  /\ connector = "running"
  /\ due
  /\ respawns' = respawns + 1
  /\ dropbear' = "alive"
  /\ sidecar' = "running"
  /\ report' = "ready"
  /\ UNCHANGED <<due, connector, deaths, crashes>>

RespawnFails ==
  /\ sidecar = "down"
  /\ connector = "running"
  /\ due
  /\ respawns' = respawns + 1
  /\ NextRespawn(respawns + 1)
  /\ UNCHANGED <<dropbear, connector, report, deaths, crashes>>

SidecarEvent ==
  \/ sidecar \in {"terminal", "stopped"} /\ UNCHANGED access
  \/ ConnectorEnded \/ SidecarDeathSeen \/ SidecarSeemsAlive
  \/ DownConnectorEnded \/ DownWaiting \/ RespawnRecovers \/ RespawnFails
-----------------------------------------------------------------------------
(* The shared process table, the environment, and the end of the session.  *)

\* reap_descendants takes the sidecar's zombie with the customer's.
ReapSidecar ==
  /\ dropbear' = IF dropbear = "zombie" THEN "stolen" ELSE dropbear
  /\ UNCHANGED <<sidecar, respawns, due, connector, report, deaths, crashes>>

SidecarDies ==
  /\ dropbear = "alive"
  /\ sidecar # "stopped"
  /\ dropbear' = "zombie"
  /\ deaths' = deaths + 1
  /\ UNCHANGED <<vars, sidecar, respawns, due, connector, report, crashes>>

ConnectorFinishes ==
  /\ connector = "running"
  /\ sidecar # "stopped"
  /\ connector' = "finished"
  /\ UNCHANGED <<vars, sidecar, respawns, due, dropbear, report, deaths, crashes>>

RetryDue ==
  /\ sidecar = "down"
  /\ ~due
  /\ due' = TRUE
  /\ UNCHANGED <<vars, sidecar, respawns, dropbear, connector, report, deaths,
                 crashes>>

\* Mutant: a failed cleanup becomes the helper's exit status.
StopSessionExits ==
  /\ pc = "done"
  /\ sidecar # "stopped"
  /\ sidecar' = "stopped"
  /\ connector' = "finished"
  /\ dropbear' = "reaped"
  /\ IF dropbear = "stolen"
     THEN report' = "cleanup_failed" /\ result' = "70"
     ELSE report' = "stopped" /\ UNCHANGED result
  /\ UNCHANGED <<pc, forwarded, forced, restarts, failures, after, starts, policy,
                 left, pending, timer, uptime, reporting, processes, stopAt,
                 faults, respawns, due, deaths, crashes>>

\* stop(), after supervision: the connector is joined, the sidecar is
\* terminated and reaped, the root removed.  Any of the three may fail; on a
\* stolen child try_wait always does.
StopSession ==
  /\ pc = "done"
  /\ sidecar # "stopped"
  /\ sidecar' = "stopped"
  /\ connector' = "finished"
  /\ dropbear' = IF dropbear = "stolen" THEN "stolen" ELSE "reaped"
  /\ \/ report' = "cleanup_failed"
     \/ dropbear # "stolen" /\ report' = "stopped"
  /\ UNCHANGED <<vars, respawns, due, deaths, crashes>>

LoopPass == Top \/ PollForward \/ PollForwardFails \/ PollQuiet
Reaping == CleanupReap \/ CleanupDone
Elsewhere ==
  \/ RejectCommand \/ InstallAuthority \/ BeginChild \/ SpawnCustomer
  \/ SpawnFails \/ PollWait \/ PollWaitFails \/ CleanupTerm \/ CleanupKill
  \/ DecideFinal \/ DecideRestart \/ BackoffSignal \/ BackoffEnds

Loop ==
  \/ LoopPass /\ SidecarEvent
  \/ Reaping /\ ReapSidecar
  \/ Elsewhere /\ UNCHANGED access

AccessNext ==
  \/ Loop
  \/ Customer /\ UNCHANGED access
  \/ (\E s \in Signals : CaptureSignal(s)) /\ UNCHANGED access
  \/ Tick /\ UNCHANGED access
  \/ SidecarDies \/ ConnectorFinishes \/ RetryDue \/ StopSession

AccessSpec == AccessInit /\ [][AccessNext]_allVars

\* The loop keeps running, time passes, and SIGKILL takes effect; nothing is
\* assumed of a customer that has not been killed.  The backoff of a respawn
\* passes, and main goes on to stop the session.
AccessFairness ==
  /\ WF_allVars(Loop)
  /\ WF_allVars(Tick /\ UNCHANGED access)
  /\ WF_allVars(Leader \in doomed /\ LeaderEnds(Kill) /\ UNCHANGED access)
  /\ WF_allVars(RetryDue)
  /\ WF_allVars(StopSession)

FairAccessSpec == AccessSpec /\ AccessFairness
-----------------------------------------------------------------------------
(* Properties. *)

(* A death is reported at most once, and only a death or the end of the    *)
(* connector is reported: access.degraded never flaps for one cause.       *)
OneReportPerDeath ==
  crashes <= deaths + (IF connector = "finished" THEN 1 ELSE 0)

(* A respawn replaces a sidecar that is dead and reaped: two never compete *)
(* for the fixed port and no Child handle of a zombie is dropped.          *)
SingleSidecar == [][dropbear # "alive" /\ dropbear' = "alive"
                      => dropbear = "reaped"]_allVars

(* Once the session is stopped no sidecar process is left behind, even one *)
(* that outlived its connector.                                            *)
NoOrphanSidecar == sidecar = "stopped" => dropbear \in {"reaped", "stolen"}

(* The connector's end is noticed, by a report or by the end of the job.   *)
ConnectorEndNoticed ==
  connector = "finished" ~> sidecar \in {"terminal", "stopped"}

(* access.rs:276 "The sidecar or connector died; reported once per death", *)
(* access.rs:347 "a managed Dropbear death is respawned within its budget":*)
(* a session whose sidecar is dead does not stay Running for ever.         *)
DeathNoticed ==
  dropbear # "alive" /\ sidecar = "running" ~> sidecar # "running"

(* The session keeps to its budget, its states and one report per cause,   *)
(* and leaves no sidecar: sidecar_event_at, next_respawn, newly_crashed    *)
(* and stop.                                                               *)
SessionSafe == AccessTypeOK /\ OneReportPerDeath /\ NoOrphanSidecar
=============================================================================
