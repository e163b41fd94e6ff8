-------------------------- MODULE SupervisorProofs --------------------------
(***************************************************************************)
(* Proofs of the supervisor's safety properties for any set of signals,    *)
(* descendants and exit codes, any restart policy and any number of        *)
(* restarts; that an access session never changes what the supervisor      *)
(* does; and of the session's own safety properties, for any respawn       *)
(* budget.                                                                 *)
(***************************************************************************)
EXTENDS SupervisedAccess, FiniteSetTheorems, TLAPS

(* Control points at which no customer runs, and those at which one may.   *)
IdlePc == {"install", "top", "begin", "spawn", "decide", "backoff"}
CleanupPc == {"term", "await_term", "await_kill"}
ChildPc == {"poll_signal", "poll_wait"} \cup CleanupPc

(* NoOverlap, with the initial control point.                              *)
Separate ==
  /\ \A k \in Kids : kid[k] \in {"group", "zombie"} => kidRun[k] = restarts
  /\ pc \in IdlePc => ~GroupExists

(* A stop request in flight: once a signal has been captured it is         *)
(* pending, forwarded to the running child, or the cause of the cleanup in *)
(* progress, until supervision ends; none of these leads to a new start.   *)
InFlight(n) ==
  \/ pc = "done" /\ starts <= n
  \/ pc \in {"begin", "spawn"} /\ pending # None /\ starts + 1 <= n
  \/ pc \notin {"begin", "spawn"} /\ pending # None /\ starts <= n
  \/ pc \in ChildPc \cup {"decide"} /\ forwarded # None /\ starts <= n
  \/ pc \in CleanupPc /\ after = "signal_forward_failed" /\ starts <= n

Stopping ==
  /\ pc = "install" => stopAt = {}
  /\ \A n \in stopAt : InFlight(n)
  /\ pc \notin {"install", "done"} /\ pending # None => stopAt # {}
  /\ pc \in IdlePc \ {"decide"} => forwarded = None

(* ChildBracketed, with the control points between begin_child and         *)
(* end_child.                                                              *)
Bracketed ==
  /\ pc \in {"spawn"} \cup ChildPc => reporting
  /\ pc \notin {"spawn"} \cup ChildPc => ~reporting

IInv == TypeOK /\ Separate /\ Stopping /\ Bracketed /\ RunwayKept /\ ExactExit
-----------------------------------------------------------------------------
(* The inductive invariant holds before the loop starts.                   *)
LEMMA InitInv == Init => IInv
<1> SUFFICES ASSUME Init PROVE IInv
  OBVIOUS
<1> USE SupervisorAssumption DEF Init, IdlePc, CleanupPc, ChildPc
<1>1. ControlTypeOK
  BY DEF ControlTypeOK, Pcs, Policies
<1>2. CountTypeOK
  BY DEF CountTypeOK
<1>3. ProcessTypeOK
  BY DEF ProcessTypeOK
<1>4. Separate
  BY DEF Separate, GroupExists, InGroup, Zombies
<1>5. Stopping /\ Bracketed /\ RunwayKept /\ ExactExit
  BY DEF Stopping, Bracketed, RunwayKept, ExactExit
<1> QED BY <1>1, <1>2, <1>3, <1>4, <1>5 DEF IInv, TypeOK

(* Every step of the loop, the customer, the kernel and the clock keeps it. *)
LEMMA StepInv == IInv /\ [Next]_vars => IInv'
<1> SUFFICES ASSUME IInv, [Next]_vars PROVE IInv'
  OBVIOUS
<1> USE SupervisorAssumption
    DEF IInv, TypeOK, Pcs, IdlePc, CleanupPc, ChildPc, control, processes
<1>1. CASE RejectCommand
  <2>1. TypeOK'
    BY <1>1 DEF ControlTypeOK, RejectCommand, Finish, Statuses, Policies,
       CountTypeOK, ProcessTypeOK
  <2>2. Separate' /\ Stopping' /\ Bracketed' /\ RunwayKept' /\ ExactExit'
    BY <1>1 DEF ControlTypeOK, CountTypeOK, ProcessTypeOK, Separate,
       GroupExists, InGroup, Zombies, RejectCommand, Finish, Stopping,
       InFlight, Bracketed, RunwayKept, ExactExit
  <2> QED BY <2>1, <2>2
<1>2. CASE InstallAuthority
  <2>1. TypeOK'
    BY <1>2 DEF ControlTypeOK, InstallAuthority, Finish, Fault, Statuses,
       Policies, CountTypeOK, ProcessTypeOK
  <2>2. Separate' /\ Stopping' /\ Bracketed' /\ RunwayKept' /\ ExactExit'
    BY <1>2 DEF ControlTypeOK, CountTypeOK, ProcessTypeOK, Separate,
       GroupExists, InGroup, Zombies, InstallAuthority, Finish, Fault,
       Stopping, InFlight, Bracketed, RunwayKept, ExactExit
  <2> QED BY <2>1, <2>2
<1>3. CASE Top
  <2>1. TypeOK'
    BY <1>3 DEF ControlTypeOK, Top, Finish, Statuses, Policies, CountTypeOK,
       ProcessTypeOK
  <2>2. Separate' /\ Stopping' /\ Bracketed' /\ RunwayKept' /\ ExactExit'
    BY <1>3 DEF ControlTypeOK, CountTypeOK, ProcessTypeOK, Separate,
       GroupExists, InGroup, Zombies, Top, Finish, Stopping, InFlight,
       Bracketed, RunwayKept, ExactExit
  <2> QED BY <2>1, <2>2
<1>4. CASE BeginChild
  <2>1. TypeOK'
    BY <1>4 DEF ControlTypeOK, BeginChild, Statuses, Policies, CountTypeOK,
       ProcessTypeOK
  <2>2. Separate' /\ Stopping' /\ Bracketed' /\ RunwayKept' /\ ExactExit'
    BY <1>4 DEF ControlTypeOK, CountTypeOK, ProcessTypeOK, Separate,
       GroupExists, InGroup, Zombies, BeginChild, Stopping, InFlight,
       Bracketed, RunwayKept, ExactExit
  <2> QED BY <2>1, <2>2
<1>5. CASE SpawnCustomer
  <2>1. ControlTypeOK'
    BY <1>5 DEF ControlTypeOK, SpawnCustomer, Statuses, Policies
  <2>2. CountTypeOK' /\ ProcessTypeOK'
    BY <1>5 DEF CountTypeOK, ControlTypeOK, SpawnCustomer, ProcessTypeOK,
       Statuses
  <2>3. Separate' /\ Stopping' /\ Bracketed' /\ RunwayKept' /\ ExactExit'
    BY <1>5 DEF ControlTypeOK, CountTypeOK, ProcessTypeOK, Separate,
       GroupExists, InGroup, Zombies, SpawnCustomer, Stopping, InFlight,
       Bracketed, RunwayKept, ExactExit
  <2> QED BY <2>1, <2>2, <2>3
<1>6. CASE SpawnFails
  <2>1. ControlTypeOK'
    BY <1>6 DEF ControlTypeOK, SpawnFails, Finish, Fault, Statuses, Policies
  <2>2. CountTypeOK' /\ ProcessTypeOK'
    BY <1>6 DEF CountTypeOK, ControlTypeOK, SpawnFails, Finish, Fault,
       ProcessTypeOK, Statuses
  <2>3. Separate' /\ Stopping' /\ Bracketed' /\ RunwayKept' /\ ExactExit'
    BY <1>6 DEF ControlTypeOK, CountTypeOK, ProcessTypeOK, Separate,
       GroupExists, InGroup, Zombies, SpawnFails, Finish, Fault, Stopping,
       InFlight, Bracketed, RunwayKept, ExactExit
  <2> QED BY <2>1, <2>2, <2>3
<1>7. CASE PollForward
  <2>1. TypeOK'
    BY <1>7 DEF ControlTypeOK, PollForward, Statuses, Policies, CountTypeOK,
       ProcessTypeOK
  <2>2. Separate' /\ Stopping' /\ Bracketed' /\ RunwayKept' /\ ExactExit'
    BY <1>7 DEF ControlTypeOK, CountTypeOK, ProcessTypeOK, Separate,
       GroupExists, InGroup, Zombies, PollForward, Stopping, InFlight,
       Bracketed, RunwayKept, ExactExit
  <2> QED BY <2>1, <2>2
<1>8. CASE PollForwardFails
  <2>1. TypeOK'
    BY <1>8 DEF ControlTypeOK, PollForwardFails, Fault, Statuses, Policies,
       CountTypeOK, ProcessTypeOK
  <2>2. Separate' /\ Stopping' /\ Bracketed' /\ RunwayKept' /\ ExactExit'
    BY <1>8 DEF ControlTypeOK, CountTypeOK, ProcessTypeOK, Separate,
       GroupExists, InGroup, Zombies, PollForwardFails, Fault, Stopping,
       InFlight, Bracketed, RunwayKept, ExactExit
  <2> QED BY <2>1, <2>2
<1>9. CASE PollQuiet
  <2>1. ControlTypeOK'
    BY <1>9 DEF ControlTypeOK, PollQuiet, KillGroup, Statuses, Policies,
       GroupExists, InGroup, Zombies, Alive
  <2>2. CountTypeOK' /\ ProcessTypeOK'
    BY <1>9 DEF CountTypeOK, ControlTypeOK, PollQuiet, KillGroup,
       GroupExists, InGroup, Zombies, Alive, ProcessTypeOK, Statuses
  <2>3. Separate' /\ Stopping' /\ Bracketed' /\ RunwayKept' /\ ExactExit'
    BY <1>9 DEF ControlTypeOK, CountTypeOK, ProcessTypeOK, Separate,
       GroupExists, InGroup, Zombies, PollQuiet, KillGroup, Alive, Stopping,
       InFlight, Bracketed, RunwayKept, ExactExit
  <2> QED BY <2>1, <2>2, <2>3
<1>10. CASE PollWait
  <2>1. TypeOK'
    BY <1>10 DEF ControlTypeOK, PollWait, Statuses, Policies, CountTypeOK,
       ProcessTypeOK
  <2>2. Separate' /\ Stopping' /\ Bracketed' /\ RunwayKept' /\ ExactExit'
    BY <1>10 DEF ControlTypeOK, CountTypeOK, ProcessTypeOK, Separate,
       GroupExists, InGroup, Zombies, PollWait, Stopping, InFlight,
       Bracketed, RunwayKept, ExactExit
  <2> QED BY <2>1, <2>2
<1>11. CASE PollWaitFails
  <2>1. TypeOK'
    BY <1>11 DEF ControlTypeOK, PollWaitFails, Fault, Statuses, Policies,
       CountTypeOK, ProcessTypeOK
  <2>2. Separate' /\ Stopping' /\ Bracketed' /\ RunwayKept' /\ ExactExit'
    BY <1>11 DEF ControlTypeOK, CountTypeOK, ProcessTypeOK, Separate,
       GroupExists, InGroup, Zombies, PollWaitFails, Fault, Stopping,
       InFlight, Bracketed, RunwayKept, ExactExit
  <2> QED BY <2>1, <2>2
<1>12. CASE CleanupTerm
  <2>1. TypeOK'
    BY <1>12 DEF ControlTypeOK, CleanupTerm, Statuses, Policies, CountTypeOK,
       ProcessTypeOK
  <2>2. Separate' /\ Stopping' /\ Bracketed' /\ RunwayKept' /\ ExactExit'
    BY <1>12 DEF ControlTypeOK, CountTypeOK, ProcessTypeOK, Separate,
       GroupExists, InGroup, Zombies, CleanupTerm, Stopping, InFlight,
       Bracketed, RunwayKept, ExactExit
  <2> QED BY <2>1, <2>2
<1>13. CASE CleanupReap
  <2>1. TypeOK'
    BY <1>13 DEF ControlTypeOK, CleanupReap, Reap, Statuses, Policies,
       GroupExists, InGroup, Zombies, Alive, CountTypeOK, ProcessTypeOK
  <2>2. Separate' /\ Stopping' /\ Bracketed' /\ RunwayKept' /\ ExactExit'
    BY <1>13 DEF ControlTypeOK, CountTypeOK, ProcessTypeOK, Separate,
       GroupExists, InGroup, Zombies, CleanupReap, Reap, Alive, Stopping,
       InFlight, Bracketed, RunwayKept, ExactExit
  <2> QED BY <2>1, <2>2
<1>14. CASE CleanupKill
  <2>1. TypeOK'
    BY <1>14 DEF ControlTypeOK, CleanupKill, KillGroup, Statuses, Policies,
       GroupExists, InGroup, Zombies, Alive, CountTypeOK, ProcessTypeOK
  <2>2. Separate' /\ Stopping' /\ Bracketed' /\ RunwayKept' /\ ExactExit'
    BY <1>14 DEF ControlTypeOK, CountTypeOK, ProcessTypeOK, Separate,
       GroupExists, InGroup, Zombies, CleanupKill, KillGroup, Alive,
       Stopping, InFlight, Bracketed, RunwayKept, ExactExit
  <2> QED BY <2>1, <2>2
<1>15. CASE CleanupDone
  <2>1. TypeOK'
    <3>1. ProcessTypeOK'
      BY <1>15 DEF CleanupDone, Reap, GroupExists, InGroup, Zombies, Alive, ProcessTypeOK
    <3>2. ControlTypeOK'
      BY <1>15 DEF CleanupDone, Finish, ControlTypeOK, Policies
    <3>3. CountTypeOK'
      BY <1>15 DEF CleanupDone, CountTypeOK
    <3> QED
      BY <3>1, <3>2, <3>3
  <2>2. Separate' /\ Stopping' /\ Bracketed' /\ RunwayKept' /\ ExactExit'
    BY <1>15 DEF ControlTypeOK, CountTypeOK, ProcessTypeOK, Separate,
       GroupExists, InGroup, Zombies, CleanupDone, Reap, Finish, Alive,
       Stopping, InFlight, Bracketed, RunwayKept, ExactExit
  <2> QED BY <2>1, <2>2
<1>16. CASE DecideFinal
  <2>1. TypeOK'
    BY <1>16 DEF ControlTypeOK, DecideFinal, Finish, Statuses, Policies,
       CountTypeOK, ProcessTypeOK
  <2>2. Separate' /\ Stopping' /\ Bracketed' /\ RunwayKept' /\ ExactExit'
    BY <1>16 DEF ControlTypeOK, CountTypeOK, ProcessTypeOK, Separate,
       GroupExists, InGroup, Zombies, DecideFinal, Finish, Stopping,
       InFlight, Bracketed, RunwayKept, ExactExit
  <2> QED BY <2>1, <2>2
<1>17. CASE DecideRestart
  <2>1. TypeOK'
    BY <1>17 DEF ControlTypeOK, DecideRestart, RestartAllowed,
       DeterministicBackoff, Least, Statuses, Policies, CountTypeOK,
       ProcessTypeOK
  <2>2. Separate' /\ Stopping' /\ Bracketed' /\ RunwayKept' /\ ExactExit'
    BY <1>17 DEF ControlTypeOK, CountTypeOK, ProcessTypeOK, Separate,
       GroupExists, InGroup, Zombies, DecideRestart, RestartAllowed,
       DeterministicBackoff, Least, Stopping, InFlight, Bracketed,
       RunwayKept, ExactExit
  <2> QED BY <2>1, <2>2
<1>18. CASE BackoffSignal
  <2>1. TypeOK'
    BY <1>18 DEF ControlTypeOK, BackoffSignal, Finish, Statuses, Policies,
       CountTypeOK, ProcessTypeOK
  <2>2. Separate' /\ Stopping' /\ Bracketed' /\ RunwayKept' /\ ExactExit'
    BY <1>18 DEF ControlTypeOK, CountTypeOK, ProcessTypeOK, Separate,
       GroupExists, InGroup, Zombies, BackoffSignal, Finish, Stopping,
       InFlight, Bracketed, RunwayKept, ExactExit
  <2> QED BY <2>1, <2>2
<1>19. CASE BackoffEnds
  <2>1. TypeOK'
    BY <1>19 DEF ControlTypeOK, BackoffEnds, Least, Statuses, Policies,
       CountTypeOK, ProcessTypeOK
  <2>2. Separate' /\ Stopping' /\ Bracketed' /\ RunwayKept' /\ ExactExit'
    BY <1>19 DEF ControlTypeOK, CountTypeOK, ProcessTypeOK, Separate,
       GroupExists, InGroup, Zombies, BackoffEnds, Least, Stopping, InFlight,
       Bracketed, RunwayKept, ExactExit
  <2> QED BY <2>1, <2>2
<1>20. ASSUME NEW st \in Statuses, LeaderEnds(st) PROVE IInv'
  <2>1. TypeOK'
    BY <1>20 DEF ControlTypeOK, LeaderEnds, Statuses, Policies, CountTypeOK,
       ProcessTypeOK
  <2>2. Separate' /\ Stopping' /\ Bracketed' /\ RunwayKept' /\ ExactExit'
    BY <1>20 DEF ControlTypeOK, CountTypeOK, ProcessTypeOK, Separate,
       GroupExists, InGroup, Zombies, LeaderEnds, Stopping, InFlight,
       Bracketed, RunwayKept, ExactExit
  <2> QED BY <2>1, <2>2
<1>21. ASSUME NEW k \in Kids, Fork(k) PROVE IInv'
  <2>1. TypeOK'
    BY <1>21 DEF ControlTypeOK, Fork, Statuses, Policies, GroupExists,
       InGroup, Zombies, Alive, CountTypeOK, ProcessTypeOK
  <2>2. Separate' /\ Stopping' /\ Bracketed' /\ RunwayKept' /\ ExactExit'
    BY <1>21 DEF ControlTypeOK, CountTypeOK, ProcessTypeOK, Separate,
       GroupExists, InGroup, Zombies, Fork, Alive, Stopping, InFlight,
       Bracketed, RunwayKept, ExactExit
  <2> QED BY <2>1, <2>2
<1>22. ASSUME NEW k \in Kids, Escape(k) PROVE IInv'
  <2>1. TypeOK'
    BY <1>22 DEF ControlTypeOK, Escape, Statuses, Policies, CountTypeOK,
       ProcessTypeOK
  <2>2. Separate' /\ Stopping' /\ Bracketed' /\ RunwayKept' /\ ExactExit'
    BY <1>22 DEF ControlTypeOK, CountTypeOK, ProcessTypeOK, Separate,
       GroupExists, InGroup, Zombies, Escape, Stopping, InFlight, Bracketed,
       RunwayKept, ExactExit
  <2> QED BY <2>1, <2>2
<1>23. ASSUME NEW k \in Kids, KidEnds(k) PROVE IInv'
  <2>1. TypeOK'
    BY <1>23 DEF ControlTypeOK, KidEnds, Statuses, Policies, CountTypeOK,
       ProcessTypeOK
  <2>2. Separate' /\ Stopping' /\ Bracketed' /\ RunwayKept' /\ ExactExit'
    BY <1>23 DEF ControlTypeOK, CountTypeOK, ProcessTypeOK, Separate,
       GroupExists, InGroup, Zombies, KidEnds, Stopping, InFlight, Bracketed,
       RunwayKept, ExactExit
  <2> QED BY <2>1, <2>2
<1>24. ASSUME NEW s \in Signals, CaptureSignal(s) PROVE IInv'
  <2>1. TypeOK'
    BY <1>24 DEF ControlTypeOK, CaptureSignal, Statuses, Policies,
       CountTypeOK, ProcessTypeOK
  <2>2. Separate' /\ Stopping' /\ Bracketed' /\ RunwayKept' /\ ExactExit'
    BY <1>24 DEF ControlTypeOK, CountTypeOK, ProcessTypeOK, Separate,
       GroupExists, InGroup, Zombies, CaptureSignal, Stopping, InFlight,
       Bracketed, RunwayKept, ExactExit
  <2> QED BY <2>1, <2>2
<1>25. CASE Tick
  <2>1. TypeOK'
    BY <1>25 DEF ControlTypeOK, Tick, Down, Least, Statuses, Policies,
       CountTypeOK, ProcessTypeOK
  <2>2. Separate' /\ Stopping' /\ Bracketed' /\ RunwayKept' /\ ExactExit'
    BY <1>25 DEF ControlTypeOK, CountTypeOK, ProcessTypeOK, Separate,
       GroupExists, InGroup, Zombies, Tick, Down, Least, Stopping, InFlight,
       Bracketed, RunwayKept, ExactExit
  <2> QED BY <2>1, <2>2
<1>26. CASE UNCHANGED vars
  <2>1. TypeOK'
    BY <1>26 DEF ControlTypeOK, vars, Statuses, Policies, CountTypeOK,
       ProcessTypeOK
  <2>2. Separate' /\ Stopping' /\ Bracketed' /\ RunwayKept' /\ ExactExit'
    BY <1>26 DEF ControlTypeOK, CountTypeOK, ProcessTypeOK, Separate,
       GroupExists, InGroup, Zombies, vars, Stopping, InFlight, Bracketed,
       RunwayKept, ExactExit
  <2> QED BY <2>1, <2>2
<1> QED
  BY <1>1, <1>2, <1>3, <1>4, <1>5, <1>6, <1>7, <1>8, <1>9, <1>10, <1>11,
     <1>12, <1>13, <1>14, <1>15, <1>16, <1>17, <1>18, <1>19, <1>20, <1>21,
     <1>22, <1>23, <1>24, <1>25, <1>26 DEF Next, Supervise, Customer
-----------------------------------------------------------------------------
(* The inductive invariant holds of every behaviour of the supervisor.     *)
THEOREM Invariance == Spec => []IInv
BY InitInv, StepInv, PTL DEF Spec

(* The type invariant of the supervisor.                                   *)
THEOREM TypeCorrect == Spec => []TypeOK
BY Invariance, PTL DEF IInv

(* A restarted customer never meets a live or unreaped member of its       *)
(* predecessor's process group (terminate_and_reap_group and the verdict   *)
(* that follows it).                                                       *)
THEOREM AttemptsNeverOverlap == Spec => []NoOverlap
<1>1. IInv => NoOverlap
  BY DEF IInv, Separate, NoOverlap, IdlePc
<1> QED BY <1>1, Invariance, PTL

(* However a captured signal races with the loop, the only start that can  *)
(* follow it is one already past the check at the top of the loop.         *)
THEOREM StopIsFinal == Spec => []NoStartAfterSignal
<1>1. IInv => NoStartAfterSignal
  BY DEF IInv, TypeOK, CountTypeOK, Stopping, InFlight, NoStartAfterSignal
<1> QED BY <1>1, Invariance, PTL

(* The helper returns exactly how the last customer ended, or the signal   *)
(* that stopped a helper without a customer, with the group gone.          *)
THEOREM ExitIsExact == Spec => []ExactExit
BY Invariance, PTL DEF IInv

(* No restart is planned into the final runway of the schedule.            *)
THEOREM RunwayIsKept == Spec => []RunwayKept
BY Invariance, PTL DEF IInv

(* begin_child and end_child bracket the life of every customer.           *)
THEOREM ChildrenBracketed == Spec => []ChildBracketed
<1>1. IInv => ChildBracketed
  BY DEF IInv, TypeOK, ControlTypeOK, Separate, Bracketed, ChildBracketed,
     GroupExists, Pcs, IdlePc, CleanupPc, ChildPc
<1> QED BY <1>1, Invariance, PTL

(* The supervisor starts a customer only alone, before a stop request and  *)
(* between begin_child and end_child.                                      *)
THEOREM StartsAreSafe == Spec => []StartsSafe
BY TypeCorrect, AttemptsNeverOverlap, StopIsFinal, ChildrenBracketed, PTL
DEF StartsSafe
-----------------------------------------------------------------------------
(* Restarts are paid for with time. *)

(* Before a start, and once a backoff has run out, one tick has passed for *)
(* each start so far; a start is ahead of the clock by one at most.  The   *)
(* attempts counted are those that were started, and a policy without      *)
(* restarts never enters a backoff.                                        *)
Unstarted == {"install", "top", "begin", "spawn"}

Paid ==
  /\ pc \in Unstarted => starts = restarts /\ starts <= Horizon - left
  /\ pc \notin Unstarted => starts <= restarts + 1 /\ starts <= Horizon - left + 1
  /\ pc \in ChildPc \cup {"decide", "backoff"} => starts = restarts + 1
  /\ pc = "backoff" /\ timer = 0 => starts <= Horizon - left
  /\ policy = "never" => restarts = 0 /\ pc # "backoff"
  /\ policy = "attempts" =>
       restarts <= MaxRestarts /\ (pc = "backoff" => restarts < MaxRestarts)

(* A power of two is positive: it counts the subsets of a set, the empty   *)
(* one among them.                                                         *)
LEMMA PowerPositive == \A n \in Nat : 2^n \in Nat /\ 2^n >= 1
<1> SUFFICES ASSUME NEW n \in Nat PROVE 2^n \in Nat /\ 2^n >= 1
  OBVIOUS
<1>1. IsFiniteSet(1..n) /\ Cardinality(1..n) = n
  BY FS_Interval
<1>2. IsFiniteSet(SUBSET (1..n)) /\ Cardinality(SUBSET (1..n)) = 2^n
  BY <1>1, FS_SUBSET
<1>3. Cardinality(SUBSET (1..n)) # 0
  BY <1>2, FS_EmptySet
<1>4. Cardinality(SUBSET (1..n)) \in Nat
  BY <1>2, FS_CardinalityType
<1> QED
  BY <1>2, <1>3, <1>4

(* Every delay of deterministic_backoff takes at least a tick.             *)
LEMMA DelayPositive ==
  ASSUME NEW index \in Nat, NEW d \in DeterministicBackoff(index)
  PROVE  d \in Nat /\ d >= 1
<1> DEFINE power == 2^Least(index, MaxExponent)
<1>1. Least(index, MaxExponent) \in Nat
  BY SupervisorAssumption DEF Least
<1>2. power \in Nat /\ power >= 1
  BY <1>1, PowerPositive
<1> HIDE DEF power
<1>3. BackoffBase * power \in Nat /\ BackoffBase * power >= 2
  <2>1. BackoffBase * power >= BackoffBase
    BY <1>2, SupervisorAssumption
  <2> QED
    BY <1>2, <2>1, SupervisorAssumption
<1>4. Ceiling(index) = Least(BackoffBase * power, BackoffCap)
  BY DEF Ceiling, power
<1>5. Ceiling(index) \in Nat /\ Ceiling(index) >= 2
  BY <1>3, <1>4, SupervisorAssumption DEF Least
<1>6. d \in Nat /\ Ceiling(index) \div 2 <= d
  BY SupervisorAssumption DEF DeterministicBackoff
<1> QED
  BY <1>5, <1>6

(* A tick of the clock pays for the restart that the backoff ends in.      *)
LEMMA PaidNext == IInv /\ Paid /\ [Next]_vars => Paid'
<1> SUFFICES ASSUME IInv, Paid, [Next]_vars PROVE Paid'
  OBVIOUS
<1> USE SupervisorAssumption DEF Paid, Unstarted, CleanupPc, ChildPc, control
<1>0. /\ pc \in Pcs /\ left \in 0..Horizon /\ timer \in Nat /\ restarts \in Nat /\ starts \in Nat
      /\ failures \in Nat /\ RunwayKept
  BY DEF IInv, TypeOK, ControlTypeOK, CountTypeOK
<1>1. CASE UNCHANGED <<pc, starts, restarts, left, timer, policy>>
  BY <1>1
<1>2. CASE RejectCommand \/ InstallAuthority \/ Top \/ BeginChild \/ SpawnFails
  BY <1>0, <1>2
  DEF RejectCommand, InstallAuthority, Top, BeginChild, SpawnFails, Finish
<1>3. CASE SpawnCustomer
  BY <1>0, <1>3 DEF SpawnCustomer
<1>4. CASE PollForward \/ PollForwardFails \/ PollQuiet \/ PollWait \/ PollWaitFails
  BY <1>0, <1>4 DEF PollForward, PollForwardFails, PollQuiet, PollWait, PollWaitFails
<1>5. CASE CleanupTerm \/ CleanupKill \/ CleanupDone
  BY <1>0, <1>5 DEF CleanupTerm, CleanupKill, CleanupDone, Finish
<1>6. CASE DecideFinal \/ BackoffSignal
  BY <1>0, <1>6 DEF DecideFinal, BackoffSignal, Finish
<1>7. CASE DecideRestart
  <2>1. FailureIndex \in Nat
    BY <1>0 DEF FailureIndex
  <2>2. PICK normal \in DeterministicBackoff(FailureIndex) :
          timer' = Least(normal, left - FinalRunway)
    BY <1>7 DEF DecideRestart
  <2>3. normal \in Nat /\ normal >= 1
    BY <2>1, <2>2, DelayPositive
  <2>4. left > FinalRunway
    BY <1>7 DEF DecideRestart, RestartAllowed
  <2>5. timer' # 0
    BY <1>0, <2>2, <2>3, <2>4 DEF Least
  <2> QED
    BY <1>0, <1>7, <2>5 DEF DecideRestart, RestartAllowed
<1>8. CASE BackoffEnds
  BY <1>0, <1>8 DEF BackoffEnds
<1>9. CASE Tick
  <2>1. /\ left' = Down(left) /\ timer' = Down(timer)
        /\ UNCHANGED <<pc, starts, restarts, policy>>
    BY <1>9 DEF Tick
  <2>2. left' \in Nat /\ left' <= left
    BY <1>0, <2>1 DEF Down
  <2>3. pc = "backoff" /\ timer > 0 /\ timer' = 0 => left' = left - 1
    BY <1>0, <2>1 DEF Down, RunwayKept
  <2> QED
    BY <1>0, <2>1, <2>2, <2>3 DEF Down
<1>10. CASE UNCHANGED vars \/ CleanupReap \/ Customer \/ \E s \in Signals : CaptureSignal(s)
  BY <1>1, <1>10 DEF vars, CleanupReap, Customer, LeaderEnds, Fork, Escape, KidEnds, CaptureSignal
<1> QED
  BY <1>2, <1>3, <1>4, <1>5, <1>6, <1>7, <1>8, <1>9, <1>10 DEF Next, Supervise

(* No hot restart loop: at most one start more than ticks have passed      *)
(* since supervision began, at most max_restarts restarts under a limited  *)
(* policy and none under "never" (restart_delay and deterministic_backoff, *)
(* supervisor.rs).                                                         *)
THEOREM StartsArePaid == Spec => []RestartsSpaced
<1>1. Init => Paid
  BY SupervisorAssumption DEF Init, Paid, Unstarted, ChildPc, CleanupPc
<1>2. IInv /\ Paid => RestartsSpaced
  BY SupervisorAssumption
  DEF Paid, Unstarted, RestartsSpaced, IInv, TypeOK, ControlTypeOK, CountTypeOK, Pcs, ChildPc,
      CleanupPc
<1> QED
  BY <1>1, <1>2, PaidNext, Invariance, PTL DEF Spec

(* The restart policy keeps to the schedule: delays end before the final   *)
(* runway, and restarts are paid for with time.                            *)
THEOREM ScheduleIsKept == Spec => []ScheduleKept
BY RunwayIsKept, StartsArePaid, PTL DEF ScheduleKept
-----------------------------------------------------------------------------
(* The session beside the supervisor.                                      *)

(* A session that waits for a respawn has reaped its sidecar and has       *)
(* budget left; a running one has reported every death but the latest.     *)
SessionInv ==
  /\ AccessTypeOK
  /\ sidecar = "down" => dropbear = "reaped" /\ respawns < MaxRespawns
  /\ sidecar = "down" => crashes <= deaths
  /\ sidecar = "running" /\ dropbear = "alive" => crashes <= deaths
  /\ sidecar = "running" /\ dropbear # "alive" => crashes + 1 <= deaths
  /\ OneReportPerDeath
  /\ NoOrphanSidecar
-----------------------------------------------------------------------------
(* Every step of the composition is a step of the supervisor or leaves it  *)
(* alone.                                                                  *)
LEMMA StepImplements == [AccessNext]_allVars => [Next]_vars
<1> SUFFICES ASSUME [AccessNext]_allVars PROVE [Next]_vars
  OBVIOUS
<1>1. CASE Loop
  BY <1>1 DEF Loop, LoopPass, Reaping, Elsewhere, Next, Supervise
<1>2. CASE Customer \/ (\E s \in Signals : CaptureSignal(s)) \/ Tick
  BY <1>2 DEF Next
<1>3. CASE SidecarDies \/ ConnectorFinishes \/ RetryDue \/ StopSession
  BY <1>3 DEF SidecarDies, ConnectorFinishes, RetryDue, StopSession
<1>4. CASE UNCHANGED allVars
  BY <1>4 DEF allVars
<1> QED BY <1>1, <1>2, <1>3, <1>4 DEF AccessNext

(* The composed specification implements the supervisor's: whatever the    *)
(* sidecar and the connector do, the customer is started, signalled,       *)
(* restarted and reported exactly as without them.                         *)
THEOREM AccessImplementsSupervisor == AccessSpec => Spec
<1>1. AccessInit => Init
  BY DEF AccessInit
<1> QED BY <1>1, StepImplements, PTL DEF AccessSpec, Spec

(* next_respawn waits for another try only while the budget lasts.         *)
LEMMA Respawned ==
  ASSUME NEW used, NextRespawn(used)
  PROVE  /\ sidecar' = IF used < MaxRespawns THEN "down" ELSE "terminal"
         /\ due' \in BOOLEAN
BY DEF NextRespawn

(* One pass of sidecar_event preserves the session's invariant.            *)
LEMMA EventInv == SessionInv /\ SidecarEvent => SessionInv'
<1> SUFFICES ASSUME SessionInv, SidecarEvent PROVE SessionInv'
  OBVIOUS
<1> USE AccessAssumption
    DEF SessionInv, AccessTypeOK, OneReportPerDeath, NoOrphanSidecar
<1>1. CASE UNCHANGED access
  BY <1>1 DEF access
<1>2. CASE ConnectorEnded
  BY <1>2 DEF ConnectorEnded
<1>3. CASE SidecarDeathSeen
  BY <1>3, Respawned DEF SidecarDeathSeen
<1>4. CASE DownConnectorEnded
  BY <1>4 DEF DownConnectorEnded
<1>5. CASE RespawnRecovers
  BY <1>5 DEF RespawnRecovers
<1>6. CASE RespawnFails
  BY <1>6, Respawned DEF RespawnFails
<1> QED
  BY <1>1, <1>2, <1>3, <1>4, <1>5, <1>6
  DEF SidecarEvent, SidecarSeemsAlive, DownWaiting

(* Every step of the composition preserves it.                             *)
LEMMA SessionStep == SessionInv /\ [AccessNext]_allVars => SessionInv'
<1> SUFFICES ASSUME SessionInv, [AccessNext]_allVars PROVE SessionInv'
  OBVIOUS
<1>1. CASE SidecarEvent
  BY <1>1, EventInv
<1> USE AccessAssumption
    DEF SessionInv, AccessTypeOK, OneReportPerDeath, NoOrphanSidecar
<1>2. CASE UNCHANGED access
  BY <1>2 DEF access
<1>3. CASE ReapSidecar
  BY <1>3 DEF ReapSidecar
<1>4. CASE SidecarDies
  BY <1>4 DEF SidecarDies
<1>5. CASE ConnectorFinishes
  BY <1>5 DEF ConnectorFinishes
<1>6. CASE RetryDue
  BY <1>6 DEF RetryDue
<1>7. CASE StopSession
  BY <1>7 DEF StopSession
<1> QED
  BY <1>1, <1>2, <1>3, <1>4, <1>5, <1>6, <1>7
  DEF AccessNext, Loop, allVars

(* The invariant of the session holds of every behaviour.                  *)
THEOREM SessionInvariance == AccessSpec => []SessionInv
<1>1. AccessInit => SessionInv
  <2> SUFFICES ASSUME AccessInit PROVE SessionInv
    OBVIOUS
  <2>1. due \in BOOLEAN
    BY DEF AccessInit
  <2>2. /\ \/ /\ sidecar = "running" /\ dropbear = "alive" /\ connector = "running"
              /\ report = "ready"
           \/ /\ sidecar = "stopped" /\ dropbear = "reaped" /\ connector = "finished"
              /\ report = "none"
        /\ respawns = 0 /\ deaths = 0 /\ crashes = 0
    BY DEF AccessInit
  <2> QED
    BY <2>1, <2>2, AccessAssumption
    DEF SessionInv, AccessTypeOK, OneReportPerDeath, NoOrphanSidecar
<1> QED BY <1>1, SessionStep, PTL DEF AccessSpec

(* One report per death (newly_crashed and sidecar_event_at).              *)
THEOREM DeathsReportedOnce == AccessSpec => []OneReportPerDeath
BY SessionInvariance, PTL DEF SessionInv

(* A stopped session leaves no sidecar process behind.                     *)
THEOREM NoOrphans == AccessSpec => []NoOrphanSidecar
BY SessionInvariance, PTL DEF SessionInv

(* A sidecar is only respawned over one that is dead and reaped.           *)
THEOREM OneSidecarAtATime == AccessSpec => SingleSidecar
<1>1. SessionInv /\ [AccessNext]_allVars =>
        [dropbear # "alive" /\ dropbear' = "alive" => dropbear = "reaped"]_allVars
  <2> SUFFICES ASSUME SessionInv, AccessNext,
                      dropbear # "alive", dropbear' = "alive"
               PROVE  dropbear = "reaped"
    OBVIOUS
  <2>1. RespawnRecovers
    BY DEF AccessNext, Loop, SidecarEvent, access, ConnectorEnded,
       SidecarDeathSeen, SidecarSeemsAlive, DownConnectorEnded, DownWaiting,
       RespawnFails, ReapSidecar, SidecarDies, ConnectorFinishes, RetryDue,
       StopSession, SessionInv, AccessTypeOK
  <2> QED BY <2>1 DEF RespawnRecovers, SessionInv
<1> QED BY <1>1, SessionInvariance, PTL DEF AccessSpec, SingleSidecar

(* The supervisor's guarantees hold with a session beside it.              *)
COROLLARY SupervisionWithAccess ==
  AccessSpec => [](NoOverlap /\ NoStartAfterSignal /\ ExactExit)
BY AccessImplementsSupervisor, AttemptsNeverOverlap, StopIsFinal, ExitIsExact,
   PTL

(* The session of managed.rs keeps to its budget and reports a cause once. *)
THEOREM SessionIsSafe == AccessSpec => []SessionSafe
BY SessionInvariance, PTL DEF SessionInv, SessionSafe
=============================================================================
