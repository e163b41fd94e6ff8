---------------------------- MODULE MappingLease ----------------------------
(***************************************************************************)
(* What the mapping lifecycle promises the owner of the gateway: at most   *)
(* one of its port mappings may exist at a time, none is asked for once    *)
(* the fate of an earlier one is in doubt, and a run that reports clean    *)
(* has left none behind.                                                   *)
(***************************************************************************)
CONSTANT Methods

VARIABLES
  held,      \* the methods whose mapping may exist in the gateway
  verdict    \* "open" while the run goes on, then what it reports

Init ==
  /\ held = {}
  /\ verdict = "open"

\* A create is sent: from here on its mapping may exist.
Take(m) ==
  /\ verdict = "open"
  /\ held = {}
  /\ held' = {m}
  /\ UNCHANGED verdict

\* The mapping is refused, deleted or expires.
Release ==
  /\ held' = {}
  /\ UNCHANGED verdict

Finish ==
  /\ verdict = "open"
  /\ \/ held = {} /\ verdict' = "clean"
     \/ verdict' = "uncertain"
  /\ UNCHANGED held

Next == Release \/ Finish \/ \E m \in Methods : Take(m)

Spec == Init /\ [][Next]_<<held, verdict>>
=============================================================================
