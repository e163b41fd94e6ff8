----------------------------- MODULE Endpoints -----------------------------
(***************************************************************************)
(* Private endpoint publication, src/src/access/endpoint.rs: publication   *)
(* through `tailscale serve`, checked against the provider's own serve     *)
(* configuration, and the readiness probes of the supervision loop.        *)
(***************************************************************************)
EXTENDS Naturals

CONSTANTS
  Slots,    \* the declared publications
  ProbeOf   \* slot -> "none", "http", "tcp" or "exec"

VARIABLES
  slot,     \* EndpointSlot: [published, readiness, finished]
  due,      \* next_probe_at has passed
  handler,  \* the provider's serve handler of the port, as it really is
  said      \* the last event reported

endpointVars == <<slot, due, handler, said>>

EndpointInit ==
  /\ slot = [s \in Slots |-> [published |-> FALSE, readiness |-> "none", finished |-> FALSE]]
  /\ due = [s \in Slots |-> TRUE]
  /\ handler = [s \in Slots |-> "none"]
  /\ said = [s \in Slots |-> "none"]

\* What the serve configuration can say of a port: Handlers is what
\* `tailscale serve` left behind.
Handlers == {"none", "private", "public", "foreign"}

\* verify_private_publication, on a document that could be read or not.
Verify(h, readable) ==
  IF ~readable THEN "access_serve_status_invalid"
  ELSE CASE h = "public" -> "access_endpoint_public"
         [] h = "private" -> "ok"
         [] OTHER -> "access_serve_unexpected"

\* publish_one: the document is the authority, and it is read only after a
\* `serve` that succeeded.
PublishOne(served, h, readable) ==
  IF ~served THEN "access_serve_failed" ELSE Verify(h, readable)

\* One slot of publish_endpoints.  Without a probe it is ready at once.
Published(s, served, h, readable) ==
  IF PublishOne(served, h, readable) # "ok"
  THEN [slot |-> [slot[s] EXCEPT !.finished = TRUE], said |-> "degraded"]
  ELSE IF ProbeOf[s] = "none"
  THEN [slot |-> [published |-> TRUE, readiness |-> "up", finished |-> TRUE], said |-> "ready"]
  ELSE [slot |-> [slot[s] EXCEPT !.published = TRUE], said |-> "published"]

PublishEndpoints ==
  \E served \in [Slots -> BOOLEAN], left \in [Slots -> Handlers], readable \in [Slots -> BOOLEAN] :
    LET view(s) == Published(s, served[s], left[s], readable[s])
        todo(s) == ~slot[s].published /\ ~slot[s].finished
    IN /\ slot' = [s \in Slots |-> IF todo(s) THEN view(s).slot ELSE slot[s]]
       /\ said' = [s \in Slots |-> IF todo(s) THEN view(s).said ELSE said[s]]
       /\ handler' = [s \in Slots |-> IF todo(s) THEN left[s] ELSE handler[s]]
       /\ UNCHANGED due

\* run_probe: only an HTTP or TCP probe is executed.
Verdicts(s) == IF ProbeOf[s] = "exec" THEN {"unsupported"} ELSE {"pass", "fail"}

\* Mutant: a failure is reported whatever was known before.
ReadinessTransitionLoud(was, verdict) ==
  CASE verdict = "pass" -> [readiness |-> "up", finished |-> FALSE,
                            said |-> IF was = "up" THEN "silent" ELSE "ready"]
    [] verdict = "fail" -> [readiness |-> "down", finished |-> FALSE, said |-> "degraded"]
    [] OTHER -> [readiness |-> "down", finished |-> TRUE, said |-> "degraded"]

\* Only transitions report.
ReadinessTransition(was, verdict) ==
  CASE verdict = "pass" -> [readiness |-> "up", finished |-> FALSE,
                            said |-> IF was = "up" THEN "silent" ELSE "ready"]
    [] verdict = "fail" -> IF was = "up"
                           THEN [readiness |-> "down", finished |-> FALSE, said |-> "degraded"]
                           ELSE [readiness |-> was, finished |-> FALSE, said |-> "silent"]
    [] OTHER -> [readiness |-> "down", finished |-> TRUE, said |-> "degraded"]

\* endpoint_readiness_changes, for one slot that is due.
ProbeEndpoint(s) ==
  /\ slot[s].published /\ ~slot[s].finished /\ due[s]
  /\ ProbeOf[s] # "none"
  /\ \E v \in Verdicts(s) :
       LET t == ReadinessTransition(slot[s].readiness, v)
       IN /\ slot' = [slot EXCEPT ![s].readiness = t.readiness, ![s].finished = @ \/ t.finished]
          /\ said' = IF t.said = "silent" THEN said ELSE [said EXCEPT ![s] = t.said]
  /\ due' = [due EXCEPT ![s] = FALSE]
  /\ UNCHANGED handler

ProbeFallsDue(s) ==
  /\ ~due[s]
  /\ due' = [due EXCEPT ![s] = TRUE]
  /\ UNCHANGED <<slot, handler, said>>

\* reset_serve runs when something was published; the daemon's end takes the
\* rest with it.
ResetServe ==
  /\ handler' = [s \in Slots |-> "none"]
  /\ UNCHANGED <<slot, due, said>>
-----------------------------------------------------------------------------
(* What an endpoint's reports may say after one another: published once,   *)
(* then ready and degraded in turn, or a single degraded; nothing follows  *)
(* a failed publication or an unsupported probe.                           *)
ReportOrder ==
  {<<"none", "published">>, <<"none", "degraded">>, <<"none", "ready">>,
   <<"published", "ready">>, <<"published", "degraded">>,
   <<"ready", "degraded">>, <<"degraded", "ready">>}

(* No report of an endpoint contradicts the one before it, none follows its *)
(* last, and an endpoint whose probe never passed is degraded only for the  *)
(* lack of a probe: readiness_transition, publish_endpoints.                *)
ReportsAlternate ==
  [][\A s \in Slots : said'[s] # said[s] =>
       /\ <<said[s], said'[s]>> \in ReportOrder
       /\ ~slot[s].finished
       /\ (said[s] = "published" /\ said'[s] = "degraded") => ProbeOf[s] = "exec"
       /\ (said[s] = "none" /\ said'[s] = "ready") => ProbeOf[s] = "none"
       /\ said'[s] # "degraded" => handler'[s] = "private"]_endpointVars
=============================================================================
