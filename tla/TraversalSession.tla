-------------------------- MODULE TraversalSession --------------------------
(***************************************************************************)
(* A network traversal grant, its validation and the time reserved for it  *)
(* (src/src/network_traversal/descriptor.rs and reserve.rs), and the clock *)
(* and the stop request that every collector reads.                        *)
(*                                                                         *)
(* A grant is a record.  What its byte-level checks decide (digests,       *)
(* identifiers, MAC shape, bindings to this helper and artifact) is one    *)
(* Boolean, bound; its numbers are kept, in ticks where they are times.       *)
(***************************************************************************)
EXTENDS Integers, FiniteSets, Sequences

CONSTANTS
  Grants,          \* the grants a bootstrap may carry
  JobExpiry,       \* job_expires_at_ms
  DeliveryReserve, \* EXISTING_DELIVERY_RESERVE_MS
  Overrun          \* how late a call returns after the deadline it was given

ASSUME SessionAssumption ==
  /\ JobExpiry \in Nat /\ DeliveryReserve \in Nat /\ Overrun \in Nat
  /\ \A g \in Grants :
       /\ {g.issued, g.deadline, g.expires} \subseteq Nat
       /\ g.b \in [{"experiment", "cleanupReserve", "datagrams", "bytes", "control",
                   "dialbacks", "leases", "cleanupDatagrams", "cleanupControl"} -> Nat]
       /\ g.mode \in {"observe", "mapping"}

\* The reserve covers the lateness of the last call before the cleanup.
ASSUME PromptAssumption == \A g \in Grants : Overrun < g.b.cleanupReserve

VARIABLES
  grant,     \* the grant of this bootstrap
  phase,     \* which collector runs: "reserve", then one of Phases
  now,       \* now_ms
  stop       \* cancellation, job expiry or shutdown was asked for

session == <<grant, phase, now, stop>>

Modes == {"observe", "mapping"}
Phases == Modes \cup {"reserve", "ended"}
Mutations == {"pcp", "natpmp", "upnp"}
-----------------------------------------------------------------------------
\* TraversalBudgets::validate, in the units of the model.
BudgetsValid(b) ==
  /\ b.experiment > 0 /\ b.cleanupReserve > 0
  /\ b.cleanupReserve < b.experiment
  /\ b.datagrams <= 64 /\ b.bytes <= 512 /\ b.control <= 12 /\ b.dialbacks <= 4
  /\ b.leases <= 2
  /\ b.cleanupDatagrams <= b.datagrams
  /\ b.cleanupControl <= b.control
  /\ b.datagrams > 0 => b.bytes > 0

\* The operations and the consent of TraversalDescriptorV1::validate: router
\* mutations, consent and cleanup allowances belong to the mapping mode alone.
ScopeValid(g) ==
  LET mutations == g.ops \cap Mutations IN
  /\ g.ops # {}
  /\ IF g.mode = "mapping"
     THEN /\ g.consent
          /\ g.b.leases > 0
          /\ g.b.cleanupDatagrams >= g.b.leases
          /\ g.b.cleanupControl >= g.b.leases
          /\ mutations # {}
     ELSE /\ mutations = {}
          /\ ~g.consent
          /\ g.b.leases = 0 /\ g.b.cleanupDatagrams = 0 /\ g.b.cleanupControl = 0

DescriptorValid(g) ==
  /\ g.bound
  /\ BudgetsValid(g.b)
  /\ g.issued < g.deadline /\ g.deadline <= g.expires
  /\ ScopeValid(g)

\* can_start: the experiment ends by the grant's deadline and the delivery
\* after it by the grant's and the job's expiry.
CanStart(g, t) ==
  /\ t + g.b.experiment <= g.deadline
  /\ t + g.b.experiment + DeliveryReserve <= g.expires
  /\ t + g.b.experiment + DeliveryReserve <= JobExpiry

\* reserve_traversal.
ReserveOutcome(g, t, cancelled) ==
  CASE ~DescriptorValid(g) \/ t < g.issued \/ t >= g.expires -> "refused"
    [] ~CanStart(g, t) \/ cancelled -> "skipped_budget"
    [] OTHER -> "reserved"

CollectorEnd == grant.issued + grant.b.experiment
ActiveEnd == CollectorEnd - grant.b.cleanupReserve
-----------------------------------------------------------------------------
\* The grant is met as soon as it is issued; the rest of the boot may have
\* taken the time that CanStart needs, which another grant stands for.
SessionInit ==
  /\ grant \in Grants
  /\ phase = "reserve"
  /\ now = grant.issued
  /\ stop = FALSE

Reserve ==
  /\ phase = "reserve"
  /\ phase' = IF ReserveOutcome(grant, now, stop) = "reserved"
              THEN grant.mode ELSE "ended"
  /\ UNCHANGED <<grant, now, stop>>

StopArrives ==
  /\ phase # "ended"
  /\ ~stop
  /\ stop' = TRUE
  /\ UNCHANGED <<grant, phase, now>>

\* A call given the deadline end returns between now and a little after it.
ReturnsBy(end) == now' \in now .. (end + Overrun)

\* ordinary(): work goes on until a stop or the end of the active time.
Ordinary == ~stop /\ now < ActiveEnd
=============================================================================
