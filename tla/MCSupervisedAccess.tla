------------------------- MODULE MCSupervisedAccess -------------------------
(***************************************************************************)
(* Without a session: two signals, so that one can be captured while       *)
(* another is forwarded; one descendant of the customer, which may stay in *)
(* its process group or leave it; one tick for each grace; a schedule long *)
(* enough for a second restart, whose backoff the runway cuts short.       *)
(*                                                                         *)
(* Beside a session the customer has no descendants, one kind of signal    *)
(* arrives, the policy is a number of attempts and the schedule has room   *)
(* for one backoff: a restart brings a cleanup between two customers, and  *)
(* one respawn lets the sidecar die twice, or fail to return.              *)
(***************************************************************************)
EXTENDS SupervisedAccess

CONSTANTS term, hup, k1

MCSignals == {term, hup}
MCSignal == {term}
MCKids == {k1}

HasSession == report # "none"

MCInit == AccessInit /\ (HasSession => policy = "attempts" /\ left = FinalRunway + 1)

MCNext == AccessNext /\ (HasSession => kid' = kid /\ pending' # hup)

MCSpec == MCInit /\ [][MCNext]_allVars /\ AccessFairness
=============================================================================
