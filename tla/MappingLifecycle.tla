-------------------------- MODULE MappingLifecycle --------------------------
(***************************************************************************)
(* run_mapping_lifecycle (src/src/network_traversal/lifecycle.rs) with the *)
(* PCP, NAT-PMP and UPnP adapters (mapping.rs, mapping/upnp.rs) and the    *)
(* gateway they talk to.                                                   *)
(*                                                                         *)
(* Each plan binds a listener, measures the path without a mapping,        *)
(* creates one, verifies it and deletes it.  A request or its answer may   *)
(* be lost; a lost create may be applied late.  A lifetime is one of       *)
(* "finite" (1..ceiling), "past" (over the ceiling, at most 120 seconds),  *)
(* "long" (over 120) and "zero".                                           *)
(***************************************************************************)
EXTENDS TraversalSession

CONSTANTS
  PlanLists,      \* sequences of [method, transport]
  MethodWindow,   \* METHOD_WINDOW_MS
  CreateMargin    \* the second that must be left before a create

ASSUME MappingAssumption ==
  /\ MethodWindow \in Nat /\ CreateMargin \in Nat
  /\ PlanLists \subseteq Seq([method : Mutations, transport : {"tcp", "udp"}])

VARIABLES
  step,      \* where run_mapping_lifecycle stands
  plans,     \* the plans asked for
  gw,        \* MappingGateway
  n,         \* how many plans are selected; the others are deferred
  k,         \* the plan being run
  acct,      \* Accounting
  row,       \* MappingMethodReport of the plan being run
  rows,      \* MappingRunReport.methods
  stopped,   \* MappingRunReport.stopped
  life,      \* the lifetime of the handle held between two steps
  mapped,    \* the plans whose mapping is in the gateway
  inflight,  \* the plans whose lost create may still be applied
  foreign,   \* another host's UPnP entry stands on the tuple of these plans
  known,     \* history: plans with a correlated grant
  asked      \* history: plans whose delete was transmitted

mapping == <<step, plans, gw, n, k, acct, row, rows, stopped, life, mapped,
             inflight, foreign, known, asked>>
mappingVars == <<session, mapping>>

Lifetimes == {"finite", "past", "long", "zero"}
Outcomes == {"succeeded", "failed", "unsupported_finite_lease",
             "unsupported_safe_ownership", "creation_outcome_unknown",
             "expiry_unknown"}
Cleanups == {"not_created", "confirmed_deleted", "delete_failed",
             "lease_expiry_pending", "creation_outcome_unknown", "expiry_unknown"}
Stops == {"none", "asked", "deadline", "budget", "invalid_binding",
          "unsupported", "cleanup_uncertain"}
Steps == {"discover", "begin", "bind", "baseline", "baseline_wait", "precreate", "create",
          "probe", "add", "confirm", "inline_delete", "verify", "verify_wait",
          "delete", "settle", "done"}
Evidence == {"none", "succeeded", "failed", "unverifiable", "no_egress"}

MappingRows == [method : Mutations, baseline : Evidence, create : Outcomes \cup {"none"},
         verification : Evidence, cleanup : Cleanups, stopped : Stops]

plan == plans[k]
UdpRouter(p) == p.method # "upnp"
Udp(p) == p.transport = "udp"
Count(b) == IF b THEN 1 ELSE 0
-----------------------------------------------------------------------------
(* Accounting.                                                             *)

AccountingNew(b) ==
  [datagrams |-> b.datagrams - b.cleanupDatagrams,
   control |-> b.control - b.cleanupControl,
   cleanupDatagrams |-> b.cleanupDatagrams,
   cleanupControl |-> b.cleanupControl,
   dialbacks |-> b.dialbacks]

CanCharge(a, d, c, x, cleanup) ==
  /\ x <= a.dialbacks
  /\ IF cleanup THEN d <= a.cleanupDatagrams /\ c <= a.cleanupControl
                ELSE d <= a.datagrams /\ c <= a.control

\* charge(): no refund on a lost reply, a cancellation or a failed send.
Charged(a, d, c, x, cleanup) ==
  IF cleanup
  THEN [a EXCEPT !.dialbacks = @ - x, !.cleanupDatagrams = @ - d, !.cleanupControl = @ - c]
  ELSE [a EXCEPT !.dialbacks = @ - x, !.datagrams = @ - d, !.control = @ - c]

\* fits(): the whole sequence of the first m plans, in allowances and time.
Fits(m) ==
  LET Sum(f(_)) == LET s[i \in 0..m] == IF i = 0 THEN 0 ELSE s[i-1] + f(plans[i]) IN s[m]
      controls(p) == 4 + (IF UdpRouter(p) THEN 1 ELSE 3)
      datagrams(p) == Count(UdpRouter(p)) + 2 * Count(Udp(p))
      deletes(p) == Count(UdpRouter(p))
  IN /\ Sum(controls) <= acct'.control
     /\ Sum(datagrams) <= acct'.datagrams
     /\ m <= acct'.cleanupControl
     /\ Sum(deletes) <= acct'.cleanupDatagrams
     /\ 2 * m <= acct'.dialbacks
     /\ m * MethodWindow <= ActiveEnd - now
     /\ Sum(datagrams) + Sum(deletes) > 0 => grant.b.bytes >= 60
-----------------------------------------------------------------------------
MappingInit ==
  /\ SessionInit
  /\ step = "discover"
  /\ plans \in PlanLists
  /\ gw = [reserved |-> FALSE, igd |-> FALSE, address |-> "none",
           datagrams |-> 0, control |-> 0]
  /\ n = 0 /\ k = 0
  /\ acct = [datagrams |-> 0, control |-> 0, cleanupDatagrams |-> 0, cleanupControl |-> 0,
             dialbacks |-> 0]
  /\ row = [method |-> "pcp", baseline |-> "none", create |-> "none",
            verification |-> "none", cleanup |-> "not_created", stopped |-> "none"]
  /\ rows = <<>>
  /\ stopped = "none"
  /\ life = "finite"
  /\ mapped = {} /\ inflight = {}
  /\ foreign \in SUBSET {i \in DOMAIN plans : plans[i].method = "upnp"}
  /\ known = {} /\ asked = {}

router == <<mapped, inflight, foreign, known, asked>>

\* The run returns its report; the collector's turn is over.
Finish(why) ==
  /\ step' = "done"
  /\ phase' = "ended"
  /\ stopped' = why

\* The plan's row is closed with a reason, and no later plan is run.
StopRow(why) ==
  /\ Finish(why)
  /\ row' = [row EXCEPT !.stopped = why]
  /\ rows' = Append(rows, row')

StopNow == IF stop THEN "asked" ELSE "deadline"

\* The caller hands over what discovery found and the traffic it spent.
GatewayRecords ==
  [reserved : BOOLEAN, igd : BOOLEAN, address : {"none", "observed", "other"},
   datagrams : Nat, control : Nat]

Discovered(g) ==
  /\ phase = "mapping" /\ step = "discover"
  /\ step' = "begin"
  /\ gw' = g
  /\ UNCHANGED <<session, plans, n, k, acct, row, rows, stopped, life, router>>

PlansOK ==
  /\ Len(plans) \in 1..3
  /\ \A i \in DOMAIN plans : plans[i].method \in grant.ops
                             /\ plans[i].transport \in grant.ops
  /\ Cardinality({plans[i] : i \in DOMAIN plans}) = Len(plans)
  /\ gw.reserved

\* The plan list, the reservation and the traffic discovery spent are checked
\* before anything is sent; plans that do not fit are deferred.
Begin ==
  /\ phase = "mapping" /\ step = "begin"
  /\ IF ~PlansOK
     THEN Finish("invalid_binding") /\ UNCHANGED <<n, k, acct>>
     ELSE IF ~CanCharge(AccountingNew(grant.b), gw.datagrams, gw.control, 0, FALSE)
     THEN Finish("budget") /\ UNCHANGED <<n, k, acct>>
     ELSE /\ acct' = Charged(AccountingNew(grant.b), gw.datagrams, gw.control, 0, FALSE)
          /\ n' = IF Fits(Len(plans)) THEN Len(plans) ELSE 1
          /\ k' = 1
          /\ IF Fits(n') THEN step' = "bind" /\ UNCHANGED <<stopped, phase>>
                         ELSE Finish("budget")
  /\ UNCHANGED <<plans, gw, grant, now, stop, row, rows, life, router>>

\* bind_fresh: a free port in the inbound range after at most 16 tries.
BindFresh == {"bound", "unsupported"}

Bind ==
  /\ step = "bind"
  /\ row' = [method |-> plan.method, baseline |-> "none", create |-> "none",
             verification |-> "none", cleanup |-> "not_created", stopped |-> "none"]
  /\ \/ ~Ordinary /\ Finish(StopNow)
     \/ /\ Ordinary
        /\ \E b \in BindFresh \cup {"invalid_binding"} :
             IF b # "bound" THEN Finish(b)
             ELSE step' = "baseline" /\ UNCHANGED <<phase, stopped>>
  /\ UNCHANGED <<plans, gw, grant, now, stop, n, k, acct, rows, life, router>>

(* path(): one dialback with an authenticated transcript, for the baseline *)
(* and again through the mapping.                                          *)
PathRefused(why) ==
  IF step \in {"baseline", "baseline_wait"}
  THEN StopRow(why)
  ELSE /\ row' = [row EXCEPT !.stopped = why]
       /\ step' = "delete"
       /\ UNCHANGED <<rows, stopped, phase>>

PathStart ==
  /\ step \in {"baseline", "verify"}
  /\ IF Ordinary /\ CanCharge(acct, Count(Udp(plan)), 2, 1, FALSE)
     THEN /\ acct' = Charged(acct, Count(Udp(plan)), 2, 1, FALSE)
          /\ step' = IF step = "baseline" THEN "baseline_wait" ELSE "verify_wait"
          /\ ReturnsBy(ActiveEnd)
          /\ UNCHANGED <<row, rows, stopped, phase>>
     ELSE /\ PathRefused(IF Ordinary THEN "budget" ELSE StopNow)
          /\ UNCHANGED <<acct, now>>
  /\ UNCHANGED <<plans, gw, grant, stop, n, k, life, router>>

\* proof_domain: which authority may speak of which stage, for which method.
ProofDomain(authority, stage, method) ==
  CASE /\ authority = "external_path"
       /\ \/ stage = "baseline" /\ method = "unassisted"
          \/ stage = "mapping_verify" /\ method \in Mutations -> "external_path"
    [] /\ authority = "device_router" /\ method \in Mutations
       /\ stage \in {"mapping_create", "mapping_cleanup"} -> "router_response"
    [] OTHER -> "invalid"

\* validate_scope: well formed, signed in its own domain, for this grant, and
\* not expired.
TranscriptInScope(t) ==
  /\ t.wellFormed
  /\ t.domain = ProofDomain(t.authority, t.stage, t.method)
  /\ t.domain # "invalid"
  /\ t.descriptor

\* What path() accepts for a check of a stage and a method.
TranscriptAccepted(t, stage, method) ==
  /\ TranscriptInScope(t)
  /\ t.authority = "external_path"
  /\ t.stage = stage /\ t.method = method
  /\ t.outcome # "none"
  /\ t.outcome = "succeeded" => t.echoed

Transcripts ==
  [wellFormed : BOOLEAN, descriptor : BOOLEAN, domain : {"external_path", "router_response"},
   authority : {"external_path", "device_router"}, stage : {"baseline", "mapping_verify"},
   method : Mutations \cup {"unassisted"}, outcome : Evidence, echoed : BOOLEAN]

\* The evidence a path check can end with.
PathEvidence(stage, method) ==
  {t.outcome : t \in {u \in Transcripts : TranscriptAccepted(u, stage, method)}}

BaselineEvidence == PathEvidence("baseline", "unassisted")
VerifyEvidence == [m \in Mutations |-> PathEvidence("mapping_verify", m)]

\* answer_challenge: how the listener's part of a check fails.  A peer that is
\* not the prober is refused, 16 times at most; a short or missing challenge
\* and a failed socket end the check.
ChallengeFaults == {"invalid_binding", "unsupported"}

\* After the call: a stop or the deadline wins over the evidence; a transcript
\* that is not accepted is an invalid binding; the runtime may fail.
PathFinish ==
  /\ step \in {"baseline_wait", "verify_wait"}
  /\ \/ /\ ~Ordinary /\ PathRefused(StopNow)
     \/ /\ Ordinary
        /\ \E why \in ChallengeFaults : PathRefused(why)
     \/ /\ Ordinary /\ step = "baseline_wait"
        /\ \E e \in BaselineEvidence :
             IF e \in {"succeeded", "failed"}
             THEN /\ row' = [row EXCEPT !.baseline = e]
                  /\ step' = "precreate"
                  /\ UNCHANGED <<rows, stopped, phase>>
             ELSE /\ Finish("unsupported")
                  /\ row' = [row EXCEPT !.baseline = e, !.stopped = "unsupported"]
                  /\ rows' = Append(rows, row')
     \/ /\ Ordinary /\ step = "verify_wait"
        /\ \E e \in VerifyEvidence[plan.method] : row' = [row EXCEPT !.verification = e]
        /\ step' = "delete"
        /\ UNCHANGED <<rows, stopped, phase>>
  /\ UNCHANGED <<plans, gw, grant, now, stop, n, k, acct, life, router>>

\* The rest of the sequence is checked again before the gateway is changed.
\* A PCP nonce may fail; UPnP needs a control descriptor.
PreCreate ==
  /\ step = "precreate"
  /\ \/ /\ ~Ordinary /\ StopRow(StopNow)
     \/ /\ Ordinary
        /\ IF \/ acct.cleanupControl = 0
              \/ acct.cleanupDatagrams < Count(UdpRouter(plan))
              \/ now + CreateMargin >= ActiveEnd
           THEN StopRow("budget")
           ELSE \/ plan.method = "pcp" /\ StopRow("unsupported")
                \/ plan.method = "upnp" /\ ~gw.igd /\ StopRow("unsupported")
                \/ /\ plan.method = "upnp" => gw.igd
                   /\ step' = IF UdpRouter(plan) THEN "create" ELSE "probe"
                   /\ UNCHANGED <<row, rows, stopped, phase>>
  /\ UNCHANGED <<plans, gw, grant, now, stop, n, k, acct, life, router>>
-----------------------------------------------------------------------------
(* BoundedControl::exchange: every request is fenced and charged before it *)
(* is sent; a delete is fenced by the end of the run only.                 *)
End(cleanup) == IF cleanup THEN CollectorEnd ELSE ActiveEnd

Sendable(cleanup) ==
  /\ now < End(cleanup)
  /\ cleanup \/ ~stop
  /\ CanCharge(acct, Count(UdpRouter(plan)), 1, 0, cleanup)

Send(cleanup) ==
  /\ Sendable(cleanup)
  /\ acct' = Charged(acct, Count(UdpRouter(plan)), 1, 0, cleanup)
  /\ ReturnsBy(End(cleanup))

NotSent(cleanup) == ~Sendable(cleanup) /\ UNCHANGED <<acct, now>>

\* The adapter returns its MappingEffect; a handle still to be cleaned up
\* leads to the verification and the explicit delete.
Effect(outcome, cleanup) ==
  /\ row' = [row EXCEPT !.create = outcome, !.cleanup = cleanup]
  /\ step' = "settle"

frame == <<plans, gw, grant, phase, stop, n, k, rows, stopped>>

\* What a request whose answer is lost did to the gateway.
LostCreate ==
  \/ UNCHANGED <<mapped, inflight>>
  \/ mapped' = mapped \cup {k} /\ UNCHANGED inflight
  \/ inflight' = inflight \cup {k} /\ UNCHANGED mapped

\* A finite grant: the handle is kept, verified when its external address is
\* the participant's and its port is in the inbound range, and deleted.  PCP
\* assigns the address; for the others it is what discovery found, or none.
AdoptFinite ==
  LET r == [row EXCEPT !.create = "succeeded", !.cleanup = "lease_expiry_pending"]
      addresses == IF plan.method = "pcp" THEN {"observed", "other"} ELSE {gw.address}
  IN /\ life' = "finite"
     /\ known' = known \cup {k}
     /\ \E address \in addresses :
          \/ /\ address # "none" /\ plan.method # "upnp"
             /\ row' = [r EXCEPT !.stopped = "invalid_binding"]
             /\ step' = "delete"
          \/ /\ address # "observed"
             /\ row' = [r EXCEPT !.verification = "unverifiable"]
             /\ step' = "delete"
          \/ /\ address = "observed"
             /\ row' = r
             /\ step' = "verify"

\* decode_pcp and decode_natpmp: a reply is readable or not, answers this
\* request or another, and carries a result, a lifetime, an address and a port.
MapReplies ==
  [readable : BOOLEAN, matches : BOOLEAN, header : BOOLEAN,
   result : {"success", "denied", "unsupported", "conflict", "failed"},
   lifetime : Lifetimes, address : BOOLEAN, port : BOOLEAN]

\* exchange_create and adopt_or_refuse: what a reply means.
CreateEffect(r) ==
  CASE ~r.readable \/ ~r.matches -> "lost"
    [] r.result # "success" -> "refused"
    [] ~r.header \/ ~r.address -> "untrusted"
    [] r.lifetime = "finite" -> IF r.port THEN "adopt" ELSE "untrusted"
    [] OTHER -> "delete"

\* The meanings, with the lifetime that goes with each.
CreateEffects == {<<CreateEffect(r), r.lifetime>> : r \in MapReplies}

\* map_pcp and map_nat_pmp: one request, one reply.
Create ==
  /\ step = "create"
  /\ \/ /\ NotSent(FALSE)                     \* fenced: reported as lost
        /\ Effect("creation_outcome_unknown", "expiry_unknown")
        /\ UNCHANGED <<life, router>>
     \/ /\ Send(FALSE)
        /\ UNCHANGED <<foreign, asked>>
        /\ \E e \in CreateEffects :
             CASE e[1] = "lost" ->
                    /\ Effect("creation_outcome_unknown", "expiry_unknown")
                    /\ LostCreate
                    /\ UNCHANGED <<life, known>>
               [] e[1] = "refused" ->
                    /\ Effect("failed", "not_created")
                    /\ UNCHANGED <<life, known, mapped, inflight>>
               [] e[1] = "untrusted" ->
                    /\ Effect("creation_outcome_unknown", "expiry_unknown")
                    /\ mapped' = mapped \cup {k}
                    /\ UNCHANGED <<life, known, inflight>>
               [] e[1] = "adopt" ->
                    /\ mapped' = mapped \cup {k}
                    /\ AdoptFinite
                    /\ UNCHANGED inflight
               [] OTHER ->                    \* refused, and deleted at once
                    /\ mapped' = mapped \cup {k}
                    /\ life' = e[2]
                    /\ known' = known \cup {k}
                    /\ step' = "inline_delete"
                    /\ UNCHANGED <<row, inflight>>
  /\ UNCHANGED frame
-----------------------------------------------------------------------------
(* map_upnp: the tuple is read, added and read again.                      *)

\* read_soap: what is kept of a SOAP reply; how it is read is in GatewayDocuments.
SoapViews ==
  [readable : BOOLEAN, response : {"none", "fault", "get", "add", "delete"},
   code : {"none", "absent", "permanent_only", "conflict", "other"},
   entry : {"ours", "other", "incomplete"}, enabled : BOOLEAN, lease : Lifetimes]

ClassifyProbe(v) ==
  CASE v.readable /\ v.response = "fault" /\ v.code = "absent" -> "absent"
    [] v.readable /\ v.response = "get" /\ v.code = "none" -> "present"
    [] OTHER -> "unreadable"

ClassifyAdd(v) ==
  CASE ~v.readable \/ (v.code # "none" /\ v.response \notin {"none", "fault"}) -> "unreadable"
    [] v.code \in {"permanent_only", "conflict"} -> v.code
    [] v.code # "none" -> "rejected"
    [] v.response = "add" -> "accepted"
    [] OTHER -> "unreadable"

ClassifyConfirm(v) ==
  CASE ~v.readable \/ v.response # "get" \/ v.code # "none" \/ v.entry = "incomplete" ->
         "unreadable"
    [] v.entry = "other" -> "not_ours"
    [] v.enabled /\ v.lease = "finite" -> "usable"
    [] OTHER -> "unusable"

InterpretDelete(v) ==
  CASE v.readable /\ \/ v.response = "delete" /\ v.code = "none"
                     \/ v.response = "fault" /\ v.code = "absent" -> "confirmed_deleted"
    [] v.readable /\ v.code # "none" -> "delete_failed"
    [] OTHER -> "expiry_unknown"

ProbeReplies == {ClassifyProbe(v) : v \in SoapViews}
AddReplies == {ClassifyAdd(v) : v \in SoapViews}
ConfirmReplies == {<<ClassifyConfirm(v), v.lease>> : v \in SoapViews}

\* Mutant: an unreadable probe counts as an absent entry.
ProbeOptimistic ==
  /\ step = "probe"
  /\ \/ /\ NotSent(FALSE)
        /\ Effect("unsupported_safe_ownership", "not_created")
     \/ /\ Send(FALSE)
        /\ step' = "add"
        /\ UNCHANGED row
  /\ UNCHANGED <<life, router, frame>>

\* The gateway answers the read truly, or its answer does not arrive readable.
Probe ==
  /\ step = "probe"
  /\ \/ /\ NotSent(FALSE)
        /\ Effect("unsupported_safe_ownership", "not_created")
     \/ /\ Send(FALSE)
        /\ \E v \in ProbeReplies :
             \/ v = "unreadable" /\ Effect("unsupported_safe_ownership", "not_created")
             \/ v = "present" /\ k \in foreign /\ Effect("failed", "not_created")
             \/ v = "absent" /\ k \notin foreign /\ step' = "add" /\ UNCHANGED row
  /\ UNCHANGED <<life, router, frame>>

\* A gateway may overwrite an entry that another host holds.
Add ==
  /\ step = "add"
  /\ \/ /\ NotSent(FALSE)
        /\ Effect("creation_outcome_unknown", "creation_outcome_unknown")
        /\ UNCHANGED router
     \/ /\ Send(FALSE)
        /\ UNCHANGED <<known, asked>>
        /\ \E v \in AddReplies :
             CASE v = "unreadable" ->
                    /\ Effect("creation_outcome_unknown", "creation_outcome_unknown")
                    /\ LostCreate
                    /\ foreign' = foreign \ (mapped' \cup inflight')
               [] v = "accepted" ->
                    /\ mapped' = mapped \cup {k}
                    /\ foreign' = foreign \ {k}
                    /\ step' = "confirm"
                    /\ UNCHANGED <<row, inflight>>
               [] OTHER ->
                    /\ Effect(IF v = "permanent_only" THEN "unsupported_finite_lease"
                              ELSE "failed", "not_created")
                    /\ UNCHANGED <<mapped, inflight, foreign>>
  /\ UNCHANGED <<life, frame>>

\* Only a read that shows this host's entry makes it owned.
Confirm ==
  /\ step = "confirm"
  /\ \/ /\ NotSent(FALSE)
        /\ Effect("creation_outcome_unknown", "creation_outcome_unknown")
        /\ UNCHANGED <<life, known>>
     \/ /\ Send(FALSE)
        /\ \E v \in ConfirmReplies :
             CASE v[1] = "usable" -> AdoptFinite
               [] v[1] = "unusable" ->        \* disabled, or not a finite lease
                    /\ life' = v[2]
                    /\ known' = known \cup {k}
                    /\ step' = "inline_delete"
                    /\ UNCHANGED row
               [] OTHER ->
                    /\ Effect("creation_outcome_unknown", "creation_outcome_unknown")
                    /\ UNCHANGED <<life, known>>
  /\ UNCHANGED <<mapped, inflight, foreign, asked, frame>>
-----------------------------------------------------------------------------
(* Deletes.  An inline delete of a refused grant comes from inside the     *)
(* create; the explicit one follows every adopted grant.                   *)

\* send_delete and delete_owned: the outcomes a create reports when its grant
\* was refused, by the lifetime and by what became of the delete.
RefusedOutcome(cleanup) ==
  CASE plan.method = "upnp" -> IF life = "finite" THEN "failed"
                               ELSE "unsupported_finite_lease"
    [] cleanup = "expiry_unknown" -> "expiry_unknown"
    [] life \in {"zero", "long"} -> "unsupported_finite_lease"
    [] cleanup = "confirmed_deleted" -> "succeeded"
    [] OTHER -> "failed"

\* send_delete on a PCP or NAT-PMP reply: only a matching success whose
\* lifetime is zero, from a gateway that did not restart, confirms.
DeleteEffect(r, rebooted) ==
  CASE ~r.readable \/ ~r.matches \/ ~r.header \/ rebooted -> "expiry_unknown"
    [] r.result = "success" /\ r.lifetime = "zero" -> "confirmed_deleted"
    [] OTHER -> "delete_failed"

DeleteEffects ==
  [upnp |-> {InterpretDelete(v) : v \in SoapViews},
   router |-> {DeleteEffect(r, b) : r \in MapReplies, b \in BOOLEAN}]

\* The gateway answers a delete: confirmed, rejected, or no usable answer.
\* An answer to a delete after the end of the run is not read.
Deleted(cleanup) ==
  /\ cleanup \in DeleteEffects[IF UdpRouter(plan) THEN "router" ELSE "upnp"]
  /\ \/ /\ cleanup = "confirmed_deleted"
        /\ now' < CollectorEnd
        /\ mapped' = mapped \ {k}
     \/ /\ cleanup = "delete_failed"
        /\ now' < CollectorEnd
        /\ UNCHANGED mapped
     \/ /\ cleanup = "expiry_unknown"
        /\ mapped' \in {mapped, mapped \ {k}}

InlineDelete ==
  /\ step = "inline_delete"
  /\ \/ /\ NotSent(TRUE)
        /\ Effect(RefusedOutcome("expiry_unknown"), "expiry_unknown")
        /\ UNCHANGED <<mapped, asked>>
     \/ /\ Send(TRUE)
        /\ asked' = asked \cup {k}
        /\ \E c \in Cleanups : Deleted(c) /\ Effect(RefusedOutcome(c), c)
  /\ UNCHANGED <<life, inflight, foreign, known, frame>>

\* Mutant: a stop request also fences the cleanup.
DeleteUnlessStopped ==
  /\ step = "delete"
  /\ step' = "settle"
  /\ \/ /\ NotSent(TRUE) \/ (stop /\ UNCHANGED <<acct, now>>)
        /\ UNCHANGED <<row, mapped, asked>>
     \/ /\ Send(TRUE) /\ ~stop
        /\ asked' = asked \cup {k}
        /\ \E c \in Cleanups : /\ Deleted(c)
                               /\ row' = [row EXCEPT !.cleanup = IF c = "confirmed_deleted"
                                            THEN c ELSE "delete_failed"]
  /\ UNCHANGED <<life, inflight, foreign, known, frame>>

\* The owned delete, attempted whatever stopped the plan.
Delete ==
  /\ step = "delete"
  /\ step' = "settle"
  /\ \/ /\ NotSent(TRUE)
        /\ UNCHANGED <<row, mapped, asked>>
     \/ /\ Send(TRUE)
        /\ asked' = asked \cup {k}
        /\ \E c \in Cleanups :
             /\ Deleted(c)
             /\ row' = [row EXCEPT !.cleanup = IF c = "confirmed_deleted"
                                               THEN c ELSE "delete_failed"]
  /\ UNCHANGED <<life, inflight, foreign, known, frame>>

Uncertain(r) == r.cleanup \notin {"not_created", "confirmed_deleted"}

\* Mutant: only a delete that failed suppresses the later plans.
SettleOnFailure ==
  /\ step = "settle"
  /\ rows' = Append(rows, row)
  /\ IF row.cleanup = "delete_failed" \/ row.stopped # "none"
     THEN Finish("cleanup_uncertain") /\ UNCHANGED k
     ELSE IF k < n
     THEN step' = "bind" /\ k' = k + 1 /\ UNCHANGED <<stopped, phase>>
     ELSE Finish("none") /\ UNCHANGED k
  /\ UNCHANGED <<plans, gw, grant, now, stop, n, acct, row, life, router>>

\* An uncertain mapping suppresses every later plan.
Settle ==
  /\ step = "settle"
  /\ rows' = Append(rows, row)
  /\ IF Uncertain(row) \/ row.stopped # "none"
     THEN /\ Finish(IF row.stopped # "none" THEN row.stopped ELSE "cleanup_uncertain")
          /\ UNCHANGED k
     ELSE IF k < n
     THEN step' = "bind" /\ k' = k + 1 /\ UNCHANGED <<stopped, phase>>
     ELSE Finish("none") /\ UNCHANGED k
  /\ UNCHANGED <<plans, gw, grant, now, stop, n, acct, row, life, router>>
-----------------------------------------------------------------------------
(* The gateway on its own.                                                 *)

\* A delayed create is applied after all, overwriting what stands there.
LateApply ==
  /\ \E i \in inflight :
       /\ inflight' = inflight \ {i}
       /\ mapped' = mapped \cup {i}
  /\ UNCHANGED <<session, step, plans, gw, n, k, acct, row, rows, stopped, life,
                 foreign, known, asked>>

\* A lease runs out, or the gateway restarts and forgets it.
Expire ==
  /\ mapped # {}
  /\ mapped' = {}
  /\ UNCHANGED <<session, step, plans, gw, n, k, acct, row, rows, stopped, life,
                 inflight, foreign, known, asked>>

MappingStep ==
  \/ Begin \/ Bind \/ PathStart \/ PathFinish \/ PreCreate \/ Create
  \/ Probe \/ Add \/ Confirm \/ InlineDelete \/ Delete \/ Settle

GatewayStep == LateApply \/ Expire

MappingNext ==
  \/ MappingStep
  \/ GatewayStep
  \/ \E g \in GatewayRecords : Discovered(g)
  \/ (Reserve \/ StopArrives) /\ UNCHANGED mapping

MappingSpec == MappingInit /\ [][MappingNext]_mappingVars
-----------------------------------------------------------------------------
(* Properties. *)

MappingTypeOK ==
  /\ step \in Steps /\ phase \in Phases /\ now \in Nat /\ stop \in BOOLEAN
  /\ n \in 0..3 /\ k \in 0..3
  /\ \A f \in DOMAIN acct : acct[f] \in Nat
  /\ row \in MappingRows
  /\ rows \in Seq(MappingRows) /\ Len(rows) <= 3
  /\ stopped \in Stops /\ life \in Lifetimes

(* A correlated grant is always followed by a delete on the wire before the *)
(* run reports: the cleanup block of run_mapping_lifecycle and the inline   *)
(* delete of a refused grant are not suppressed by a stop, by the end of    *)
(* the active time or by the allowances that ordinary traffic spent.        *)
DeleteOwed == step = "done" => known \subseteq asked

(* The type invariant, with DeleteOwed.                                     *)
MappingSafe == MappingTypeOK /\ DeleteOwed

(* An entry that another host holds on the tuple is never overwritten: the  *)
(* probe of map_upnp keeps AddPortMapping away from it, also when the       *)
(* probe's answer is lost or unreadable.                                    *)
ForeignUntouched == [][foreign' = foreign]_mappingVars

(* The lifecycle implements the lease discipline: one mapping at a time,    *)
(* none after an uncertain one, and a clean report only when the gateway    *)
(* holds nothing of ours.                                                   *)
Verdict ==
  IF step # "done" THEN "open"
  ELSE IF \E i \in DOMAIN rows : Uncertain(rows[i]) THEN "uncertain" ELSE "clean"

Lease == INSTANCE MappingLease WITH
           Methods <- 1..3, held <- mapped \cup inflight, verdict <- Verdict

LeaseSpec == Lease!Spec
=============================================================================
