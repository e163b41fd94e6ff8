----------------------------- MODULE Supervisor -----------------------------
(***************************************************************************)
(* The customer process supervisor (supervise_with_reporter_and_           *)
(* environment in src/src/supervisor.rs): it starts the customer command   *)
(* in a process group of its own, forwards signals to that group, restarts *)
(* a failed command while the policy allows it, and cleans the group up    *)
(* before it restarts or returns.                                          *)
(*                                                                         *)
(* Four parties interleave: the supervisor's loop, the kernel delivering   *)
(* signals to the helper, the customer's processes, and the clock.  Time   *)
(* is a number of ticks of an unspecified length; every deadline of the    *)
(* code is a countdown.                                                    *)
(***************************************************************************)
EXTENDS Naturals, FiniteSets

CONSTANTS
  Signals,         \* SUPPORTED_SIGNALS
  Kill,            \* SIGKILL
  Codes,           \* nonzero exit codes of the customer
  Kids,            \* the customer's descendants
  MaxRestarts,     \* max_restarts of an attempt-limited policy
  Horizon,         \* ticks from supervision start to the schedule's end
  FinalRunway,     \* FINAL_RUNWAY
  StabilityReset,  \* STABILITY_RESET
  SignalGrace,     \* FORWARDED_SIGNAL_GRACE
  CleanupGrace,    \* CLEANUP_GRACE
  BackoffBase,     \* the first ceiling of deterministic_backoff
  BackoffCap,      \* its largest ceiling
  MaxExponent,     \* its largest exponent
  MaxFaults        \* bound: system calls that fail

None == "none"
Ok == "0"

ASSUME SupervisorAssumption ==
  /\ {None, Ok, "70", "126", Kill} \cap (Signals \cup Codes) = {}
  /\ Signals \cap Codes = {}
  /\ Kill \notin {None, Ok, "70", "126"}
  /\ {MaxRestarts, Horizon, SignalGrace, CleanupGrace, FinalRunway} \subseteq Nat
  /\ {StabilityReset, MaxExponent, MaxFaults} \subseteq Nat
  /\ BackoffBase \in Nat /\ BackoffBase >= 2
  /\ BackoffCap \in Nat /\ BackoffCap >= BackoffBase

VARIABLES
  pc,          \* the supervisor's control point
  policy,      \* EffectivePolicy.mode
  left,        \* ticks to EffectivePolicy.schedule_deadline
  pending,     \* PENDING_SIGNAL
  forwarded,   \* forwarded_signal
  forced,      \* forced_cleanup
  timer,       \* countdown of the current grace or delay
  uptime,      \* ticks the leader has run, up to StabilityReset
  restarts,    \* restart_count (process_attempt is always equal to it)
  failures,    \* consecutive_failures, up to MaxExponent
  reporting,   \* begin_child called and end_child not yet
  after,       \* what the cleanup was started for: "exit" or an error
  result,      \* SupervisorExit
  leader,      \* the customer's main process
  status,      \* what the leader ended with
  kid,         \* its descendants
  kidRun,      \* the restart count each descendant was forked under
  doomed,      \* processes that SIGKILL has reached
  starts,      \* history: successful spawns
  stopAt,      \* history: {the last start the first captured signal allows}
  faults

control == <<pc, forwarded, forced, restarts, failures, after, result, starts>>
processes == <<leader, status, kid, kidRun, doomed>>
vars == <<control, policy, left, pending, timer, uptime, reporting, processes,
          stopAt, faults>>

Policies == {"never", "attempts", "schedule_end"}
Statuses == {Ok} \cup Codes \cup Signals \cup {Kill}
Leader == "leader"

Pcs == {"install", "top", "begin", "spawn", "poll_signal", "poll_wait", "term",
        "await_term", "await_kill", "decide", "backoff", "done"}

(* The type invariant. *)
ControlTypeOK ==
  /\ pc \in Pcs
  /\ policy \in Policies
  /\ pending \in Signals \cup {None}
  /\ forwarded \in Signals \cup {None}
  /\ forced \in BOOLEAN
  /\ reporting \in BOOLEAN
  /\ after \in {"exit", "signal_forward_failed", "wait_failed"}
  /\ result \in Statuses \cup {None, "70", "126"}

CountTypeOK ==
  /\ left \in 0..Horizon
  /\ timer \in Nat
  /\ uptime \in 0..StabilityReset
  /\ restarts \in Nat
  /\ failures \in 0..MaxExponent
  /\ starts \in Nat
  /\ stopAt \subseteq Nat
  /\ faults \in 0..MaxFaults

ProcessTypeOK ==
  /\ leader \in {"none", "alive", "zombie", "reaped"}
  /\ status \in Statuses \cup {None}
  /\ kid \in [Kids -> {"none", "group", "escaped", "zombie"}]
  /\ kidRun \in [Kids -> Nat]
  /\ doomed \subseteq Kids \cup {Leader}

TypeOK == ControlTypeOK /\ CountTypeOK /\ ProcessTypeOK

Init ==
  /\ pc = "install"
  /\ policy \in Policies
  /\ left \in 0..Horizon
  /\ pending = None
  /\ forwarded = None
  /\ forced = FALSE
  /\ timer = 0
  /\ uptime = 0
  /\ restarts = 0
  /\ failures = 0
  /\ reporting = FALSE
  /\ after = "exit"
  /\ result = None
  /\ leader = "none"
  /\ status = None
  /\ kid = [k \in Kids |-> "none"]
  /\ kidRun = [k \in Kids |-> 0]
  /\ doomed = {}
  /\ starts = 0
  /\ stopAt = {}
  /\ faults = 0
-----------------------------------------------------------------------------
(* Helpers. *)

Least(a, b) == IF a <= b THEN a ELSE b
Down(n) == IF n = 0 THEN 0 ELSE n - 1

Alive == {k \in Kids : kid[k] \in {"group", "escaped"}}
InGroup == {k \in Kids : kid[k] = "group"}
Zombies == {k \in Kids : kid[k] = "zombie"}

\* process_group_exists: an unreaped zombie keeps the group in being.
GroupExists == leader \in {"alive", "zombie"} \/ InGroup \cup Zombies # {}

\* signal_process_group with SIGKILL; no customer can ignore it.
KillGroup ==
  doomed' = doomed \cup InGroup \cup (IF leader = "alive" THEN {Leader} ELSE {})

Fault ==
  /\ faults < MaxFaults
  /\ faults' = faults + 1

Finish(exit) ==
  /\ result' = exit
  /\ pc' = "done"
-----------------------------------------------------------------------------
(* The supervision loop. *)

\* An empty command, and install_process_authority, which drops any signal
\* captured before.
RejectCommand ==
  /\ pc = "install"
  /\ Finish("126")
  /\ UNCHANGED <<policy, left, pending, forwarded, forced, timer, uptime,
                 restarts, failures, reporting, after, processes, starts, stopAt,
                 faults>>

InstallAuthority ==
  /\ pc = "install"
  /\ \/ pc' = "top" /\ UNCHANGED <<result, faults>>
     \/ Fault /\ Finish("70")
  /\ pending' = None
  /\ UNCHANGED <<policy, left, forwarded, forced, timer, uptime, restarts,
                 failures, reporting, after, processes, starts, stopAt>>

\* take_signal at the top of the loop: a captured signal ends supervision.
Top ==
  /\ pc = "top"
  /\ IF pending # None
     THEN Finish(pending)
     ELSE pc' = "begin" /\ UNCHANGED result
  /\ pending' = None
  /\ UNCHANGED <<policy, left, forwarded, forced, timer, uptime, restarts,
                 failures, reporting, after, processes, starts, stopAt, faults>>

\* reporter.begin_child, before the spawn.
BeginChild ==
  /\ pc = "begin"
  /\ reporting' = TRUE
  /\ pc' = "spawn"
  /\ UNCHANGED <<policy, left, pending, forwarded, forced, timer, uptime,
                 restarts, failures, after, result, processes, starts, stopAt,
                 faults>>

SpawnCustomer ==
  /\ pc = "spawn"
  /\ leader' = "alive"
  /\ status' = None
  /\ starts' = starts + 1
  /\ uptime' = 0
  /\ forwarded' = None
  /\ forced' = FALSE
  /\ after' = "exit"
  /\ pc' = "poll_signal"
  /\ UNCHANGED <<policy, left, pending, timer, restarts, failures, reporting,
                 result, kid, kidRun, doomed, stopAt, faults>>

SpawnFails ==
  /\ pc = "spawn"
  /\ Fault
  /\ reporting' = FALSE
  /\ Finish("126")
  /\ UNCHANGED <<policy, left, pending, forwarded, forced, timer, uptime,
                 restarts, failures, after, processes, starts, stopAt>>

\* The first half of a poll: only the first signal is forwarded; a later one
\* is taken and dropped.  SIGKILL follows once the grace has run out.
PollForward ==
  /\ pc = "poll_signal"
  /\ pending # None
  /\ forwarded = None
  /\ forwarded' = pending
  /\ pending' = None
  /\ timer' = SignalGrace
  /\ pc' = "poll_wait"
  /\ UNCHANGED <<policy, left, forced, uptime, restarts, failures, reporting,
                 after, result, processes, starts, stopAt, faults>>

PollForwardFails ==
  /\ pc = "poll_signal"
  /\ pending # None
  /\ forwarded = None
  /\ Fault
  /\ pending' = None
  /\ after' = "signal_forward_failed"
  /\ pc' = "term"
  /\ UNCHANGED <<policy, left, forwarded, forced, timer, uptime, restarts,
                 failures, reporting, result, processes, starts, stopAt>>

\* Mutant: a forwarded signal is never followed by SIGKILL.
PollQuietNoKill ==
  /\ pc = "poll_signal"
  /\ pending = None \/ forwarded # None
  /\ pending' = None
  /\ pc' = "poll_wait"
  /\ UNCHANGED <<policy, left, forwarded, forced, timer, uptime, restarts,
                 failures, reporting, after, result, processes, starts, stopAt,
                 faults>>

PollQuiet ==
  /\ pc = "poll_signal"
  /\ pending = None \/ forwarded # None
  /\ pending' = None
  /\ IF forwarded # None /\ ~forced /\ timer = 0
     THEN KillGroup /\ forced' = TRUE
     ELSE UNCHANGED <<doomed, forced>>
  /\ pc' = "poll_wait"
  /\ UNCHANGED <<policy, left, forwarded, timer, uptime, restarts, failures,
                 reporting, after, result, leader, status, kid, kidRun, starts,
                 stopAt, faults>>

\* The second half: try_wait, and a sleep when the leader still runs.
PollWait ==
  /\ pc = "poll_wait"
  /\ \/ leader = "alive" /\ pc' = "poll_signal" /\ UNCHANGED leader
     \/ leader = "zombie" /\ pc' = "term" /\ leader' = "reaped"
  /\ UNCHANGED <<policy, left, pending, forwarded, forced, timer, uptime,
                 restarts, failures, reporting, after, result, status, kid,
                 kidRun, doomed, starts, stopAt, faults>>

PollWaitFails ==
  /\ pc = "poll_wait"
  /\ Fault
  /\ after' = "wait_failed"
  /\ pc' = "term"
  /\ UNCHANGED <<policy, left, pending, forwarded, forced, timer, uptime,
                 restarts, failures, reporting, result, processes, starts,
                 stopAt>>
-----------------------------------------------------------------------------
(* terminate_and_reap_group. *)

\* SIGTERM may be ignored: it adds nothing to what the processes may do.
CleanupTerm ==
  /\ pc = "term"
  /\ timer' = CleanupGrace
  /\ pc' = "await_term"
  /\ UNCHANGED <<policy, left, pending, forwarded, forced, uptime, restarts,
                 failures, reporting, after, result, processes, starts, stopAt,
                 faults>>

\* reap_descendants takes every zombie that has become a child of the helper:
\* all of them once no customer process is left to be their parent.
Reap ==
  /\ leader' = IF leader = "zombie" THEN "reaped" ELSE leader
  /\ \E R \in SUBSET Zombies :
       /\ leader # "alive" /\ Alive = {} => R = Zombies
       /\ leader = "alive" => R = {}
       /\ kid' = [k \in Kids |-> IF k \in R THEN "none" ELSE kid[k]]

CleanupReap ==
  /\ pc \in {"await_term", "await_kill"}
  /\ GroupExists
  /\ timer > 0
  /\ Reap
  /\ UNCHANGED <<control, policy, left, pending, timer, uptime, reporting,
                 status, kidRun, doomed, stopAt, faults>>

\* Mutant: the wait for SIGTERM to work has no deadline.
CleanupKillWaits ==
  /\ pc = "await_term"
  /\ ~GroupExists
  /\ timer' = CleanupGrace
  /\ pc' = "await_kill"
  /\ UNCHANGED <<policy, left, pending, forwarded, forced, uptime, restarts,
                 failures, reporting, after, result, processes, starts, stopAt,
                 faults>>

CleanupKill ==
  /\ pc = "await_term"
  /\ ~GroupExists \/ timer = 0
  /\ IF GroupExists THEN KillGroup ELSE UNCHANGED doomed
  /\ timer' = CleanupGrace
  /\ pc' = "await_kill"
  /\ UNCHANGED <<policy, left, pending, forwarded, forced, uptime, restarts,
                 failures, reporting, after, result, leader, status, kid,
                 kidRun, starts, stopAt, faults>>

\* Mutant: an incomplete cleanup is not noticed.
CleanupDoneUnverified ==
  /\ pc = "await_kill"
  /\ ~GroupExists \/ timer = 0
  /\ Reap
  /\ IF after # "exit"
     THEN Finish("70")
     ELSE pc' = "decide" /\ UNCHANGED result
  /\ reporting' = FALSE
  /\ UNCHANGED <<policy, left, pending, forwarded, forced, timer, uptime,
                 restarts, failures, after, status, kidRun, doomed, starts,
                 stopAt, faults>>

\* The last reap, the verdict, and end_child.  An incomplete cleanup, like
\* the error it was started for, ends supervision with 70.
CleanupDone ==
  /\ pc = "await_kill"
  /\ ~GroupExists \/ timer = 0
  /\ Reap
  /\ IF after # "exit" \/ GroupExists'
     THEN Finish("70")
     ELSE pc' = "decide" /\ UNCHANGED result
  /\ reporting' = FALSE
  /\ UNCHANGED <<policy, left, pending, forwarded, forced, timer, uptime,
                 restarts, failures, after, status, kidRun, doomed, starts,
                 stopAt, faults>>
-----------------------------------------------------------------------------
(* What follows the end of an attempt. *)

\* deterministic_backoff: equal jitter below a doubling, capped ceiling.
Ceiling(index) == Least(BackoffBase * 2^Least(index, MaxExponent), BackoffCap)
DeterministicBackoff(index) ==
  {d \in 0..BackoffCap : Ceiling(index) \div 2 <= d /\ d <= Ceiling(index)}

\* Mutant: one restart too many.
RestartAllowedOnceMore ==
  /\ policy # "never"
  /\ policy = "attempts" => restarts <= MaxRestarts
  /\ left > FinalRunway

\* restart_delay succeeds.
RestartAllowed ==
  /\ policy # "never"
  /\ policy = "attempts" => restarts < MaxRestarts
  /\ left > FinalRunway

FailureIndex == IF uptime >= StabilityReset THEN 0 ELSE failures

\* Mutant: a stop request is answered with the signal that was forwarded.
DecideFinalForwarded ==
  /\ pc = "decide"
  /\ forwarded # None \/ status = Ok \/ ~RestartAllowed
  /\ Finish(IF forwarded # None THEN forwarded ELSE status)
  /\ UNCHANGED <<policy, left, pending, forwarded, forced, timer, uptime,
                 restarts, failures, reporting, after, processes, starts,
                 stopAt, faults>>

\* A forwarded signal, a clean exit or an exhausted policy is final.
DecideFinal ==
  /\ pc = "decide"
  /\ forwarded # None \/ status = Ok \/ ~RestartAllowed
  /\ Finish(status)
  /\ UNCHANGED <<policy, left, pending, forwarded, forced, timer, uptime,
                 restarts, failures, reporting, after, processes, starts,
                 stopAt, faults>>

DecideRestart ==
  /\ pc = "decide"
  /\ forwarded = None /\ status # Ok /\ RestartAllowed
  /\ \E normal \in DeterministicBackoff(FailureIndex) :
       timer' = Least(normal, left - FinalRunway)
  /\ pc' = "backoff"
  /\ UNCHANGED <<policy, left, pending, forwarded, forced, uptime, restarts,
                 failures, reporting, after, result, processes, starts, stopAt,
                 faults>>

\* sleep_interruptibly: a signal ends supervision, else the next attempt.
BackoffSignal ==
  /\ pc = "backoff"
  /\ pending # None
  /\ timer > 0
  /\ Finish(pending)
  /\ pending' = None
  /\ UNCHANGED <<policy, left, forwarded, forced, timer, uptime, restarts,
                 failures, reporting, after, processes, starts, stopAt, faults>>

BackoffEnds ==
  /\ pc = "backoff"
  /\ timer = 0
  /\ failures' = IF uptime >= StabilityReset
                 THEN Least(1, MaxExponent)
                 ELSE Least(failures + 1, MaxExponent)
  /\ restarts' = restarts + 1
  /\ pc' = "top"
  /\ UNCHANGED <<policy, left, pending, forwarded, forced, timer, uptime,
                 reporting, after, result, processes, starts, stopAt, faults>>
-----------------------------------------------------------------------------
(* The environment: signals to the helper, the customer, the clock.        *)

\* capture_signal: a signal that arrives while one is pending is lost.  A
\* signal captured after the check at the top still lets that start happen.
CaptureSignal(s) ==
  /\ pc \notin {"install", "done"}
  /\ pending = None
  /\ pending' = s
  /\ stopAt' = IF stopAt # {} THEN stopAt
               ELSE {IF pc \in {"begin", "spawn"} THEN starts + 1 ELSE starts}
  /\ UNCHANGED <<control, policy, left, timer, uptime, reporting, processes,
                 faults>>

LeaderEnds(st) ==
  /\ leader = "alive"
  /\ leader' = "zombie"
  /\ status' = st
  /\ Leader \in doomed => st = Kill
  /\ doomed' = doomed \ {Leader}
  /\ UNCHANGED <<control, policy, left, pending, timer, uptime, reporting, kid,
                 kidRun, stopAt, faults>>

Fork(k) ==
  /\ (leader = "alive" /\ Leader \notin doomed) \/ InGroup \ doomed # {}
  /\ kid[k] = "none"
  /\ kid' = [kid EXCEPT ![k] = "group"]
  /\ kidRun' = [kidRun EXCEPT ![k] = restarts]
  /\ UNCHANGED <<control, policy, left, pending, timer, uptime, reporting,
                 leader, status, doomed, stopAt, faults>>

\* setsid: the descendant leaves the process group.
Escape(k) ==
  /\ kid[k] = "group"
  /\ k \notin doomed
  /\ kid' = [kid EXCEPT ![k] = "escaped"]
  /\ UNCHANGED <<control, policy, left, pending, timer, uptime, reporting,
                 leader, status, kidRun, doomed, stopAt, faults>>

\* A group member becomes a zombie of the group; an escaped one is adopted
\* and leaves nothing the group check sees.
KidEnds(k) ==
  /\ kid[k] \in {"group", "escaped"}
  /\ kid' = [kid EXCEPT ![k] = IF kid[k] = "group" THEN "zombie" ELSE "none"]
  /\ doomed' = doomed \ {k}
  /\ UNCHANGED <<control, policy, left, pending, timer, uptime, reporting,
                 leader, status, kidRun, stopAt, faults>>

Tick ==
  /\ pc # "done"
  /\ left' = Down(left)
  /\ timer' = Down(timer)
  /\ uptime' = IF pc \in {"poll_signal", "poll_wait"}
               THEN Least(uptime + 1, StabilityReset)
               ELSE uptime
  /\ UNCHANGED <<control, policy, pending, reporting, processes, stopAt, faults>>

Supervise ==
  \/ RejectCommand \/ InstallAuthority
  \/ Top \/ BeginChild \/ SpawnCustomer \/ SpawnFails
  \/ PollForward \/ PollForwardFails \/ PollQuiet \/ PollWait \/ PollWaitFails
  \/ CleanupTerm \/ CleanupReap \/ CleanupKill \/ CleanupDone
  \/ DecideFinal \/ DecideRestart \/ BackoffSignal \/ BackoffEnds

Customer ==
  \/ \E st \in Statuses : LeaderEnds(st)
  \/ \E k \in Kids : Fork(k) \/ Escape(k) \/ KidEnds(k)

Next ==
  \/ Supervise
  \/ Customer
  \/ \E s \in Signals : CaptureSignal(s)
  \/ Tick

Spec == Init /\ [][Next]_vars
-----------------------------------------------------------------------------
(* Properties. *)

(* Attempts never overlap: a live or unreaped member of the customer's     *)
(* process group always belongs to the current attempt, so a restarted     *)
(* customer never meets its predecessor.                                   *)
NoOverlap ==
  /\ \A k \in Kids : kid[k] \in {"group", "zombie"} => kidRun[k] = restarts
  /\ pc \in {"top", "begin", "spawn", "decide", "backoff"} => ~GroupExists

(* No start after a stop request: however a captured signal races with the *)
(* customer's death, the cleanup and the backoff, the only start that can  *)
(* follow it is the one already past the check at the top of the loop.     *)
NoStartAfterSignal == \A n \in stopAt : starts <= n

(* What the helper returns in the customer's name is exactly how the last  *)
(* customer ended or the signal that stopped a helper with no customer,    *)
(* and by then nothing of the group is left.                               *)
ExactExit ==
  pc = "done" /\ result \notin {"70", "126"} =>
    /\ result = status
       \/ (result \in Signals /\ stopAt # {} /\ forwarded = None)
    /\ ~GroupExists

(* A restart is never planned into the last FINAL_RUNWAY of the schedule:  *)
(* the remaining delay always fits before it.                              *)
RunwayKept == pc = "backoff" /\ timer > 0 => timer + FinalRunway <= left

(* Restarts are paid for with time, even under the policy without an       *)
(* attempt limit: there is no hot restart loop.                            *)
RestartsSpaced ==
  /\ starts <= Horizon - left + 1
  /\ policy = "never" => starts <= 1
  /\ policy = "attempts" => starts <= MaxRestarts + 1

(* The discovery and readiness state is bracketed around the customer: set *)
(* up before it can run, torn down before supervision moves on.            *)
ChildBracketed ==
  /\ leader = "alive" /\ pc # "done" => reporting
  /\ pc \in {"top", "decide", "backoff", "done"} => ~reporting

(* A captured signal ends supervision, whether it is returned, forwarded   *)
(* to a customer that ignores it, or dropped because one was forwarded.    *)
SignalStops == pending # None ~> pc = "done"

(* The end of a customer is always acted upon: supervision ends or a new   *)
(* attempt starts, even when descendants refuse to die.                    *)
EndHandled == leader \in {"zombie", "reaped"} ~> pc = "done" \/ leader = "alive"

(* A customer is only started alone, before any stop request and between   *)
(* begin_child and end_child: the top of supervise_with_reporter_and_      *)
(* environment and its group cleanup.                                      *)
StartsSafe == TypeOK /\ NoOverlap /\ NoStartAfterSignal /\ ChildBracketed

(* The restart policy keeps to the schedule: delays end before the final   *)
(* runway and restarts are paid for with time (restart_allowed and the     *)
(* backoff of supervisor.rs).                                              *)
ScheduleKept == RunwayKept /\ RestartsSpaced
=============================================================================
