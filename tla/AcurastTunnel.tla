---------------------------- MODULE AcurastTunnel ---------------------------
(***************************************************************************)
(* The one Acurast `tunnel_start` of a job, src/src/access/                *)
(* acurast_tunnel.rs over the client of src/src/tunnel_probe.rs: the       *)
(* attempt marker and its durability, the start call, and the poll of      *)
(* status and certificate.  The job may crash at any point and run again   *)
(* on what its disk kept.                                                  *)
(***************************************************************************)
EXTENDS Naturals

CONSTANT MaxJobs   \* bound: runs of the job on one root

VARIABLES
  step,      \* start_once of the running job
  marker,    \* "none", "cached" (created, not yet durable), "durable"
  starts,    \* history: tunnel_start requests sent
  tunnel,    \* the processor's tunnel: [status, cert]
  poll,      \* the last poll: "none", "starting" or "running"
  overdue,   \* SERVING_DEADLINE has passed
  outcome,   \* what start_once returned
  job        \* the job's number

tunnelVars == <<step, marker, starts, tunnel, poll, overdue, outcome, job>>

TunnelInit(first) ==
  /\ step = first
  /\ marker = "none"
  /\ starts = 0
  /\ tunnel = [status |-> "none", cert |-> FALSE]
  /\ poll = "none"
  /\ overdue = FALSE
  /\ outcome = "none"
  /\ job = 1

Returns(r) == outcome' = r /\ step' = "done"

\* build_spec on a P-256 identity: exactly one local port.
SpecOutcome(identity, ports) ==
  CASE ~identity -> "acurast_tunnel_identity_invalid"
    [] ports = 0 -> "acurast_tunnel_service_missing"
    [] ports > 1 -> "acurast_tunnel_multiple_services_unsupported"
    [] OTHER -> "ok"

BuildSpec ==
  /\ step = "spec"
  /\ \E identity \in BOOLEAN, ports \in 0..2 :
       IF SpecOutcome(identity, ports) = "ok" THEN step' = "client" /\ UNCHANGED outcome
       ELSE Returns(SpecOutcome(identity, ports))
  /\ UNCHANGED <<marker, starts, tunnel, poll, overdue, job>>

\* ProbeClient::new: a socket name that cannot be used costs no attempt.
NewClient ==
  /\ step = "client"
  /\ \/ step' = "spend" /\ UNCHANGED outcome
     \/ Returns("acurast_tunnel_bridge_unavailable")
  /\ UNCHANGED <<marker, starts, tunnel, poll, overdue, job>>

\* spend_attempt: create_new decides who may start.
CreateMarker ==
  /\ step = "spend"
  /\ IF marker # "none" THEN Returns("acurast_tunnel_attempt_already_spent") /\ UNCHANGED marker
     ELSE \/ marker' = "cached" /\ step' = "sync" /\ UNCHANGED outcome
          \/ Returns("acurast_tunnel_attempt_marker_failed") /\ UNCHANGED marker
  /\ UNCHANGED <<starts, tunnel, poll, overdue, job>>

\* sync_all of the file and of the root.
SyncMarker ==
  /\ step = "sync"
  /\ \/ marker' = "durable" /\ step' = "start" /\ UNCHANGED outcome
     \/ Returns("acurast_tunnel_attempt_marker_failed") /\ UNCHANGED marker
  /\ UNCHANGED <<starts, tunnel, poll, overdue, job>>

\* exchange and parse_reply_with of the bridge client: how a call can fail
\* before its answer is known.
TransportErrors == {"acurast_tunnel_bridge_unavailable", "acurast_tunnel_bridge_reply_malformed"}

\* classify_rpc_error: the two messages it knows, or the caller's own code.
RpcErrors(otherwise) == {"acurast_tunnel_wedged", "acurast_tunnel_already_active", otherwise}

\* tunnel_start: the processor starts a tunnel whether or not its answer
\* arrives, unless it refuses.
Start ==
  /\ step = "start"
  /\ starts' = starts + 1
  /\ \/ /\ tunnel' = [tunnel EXCEPT !.status = "starting"]
        /\ \/ step' = "poll" /\ UNCHANGED outcome
           \/ \E r \in TransportErrors \cup {"acurast_tunnel_url_missing"} : Returns(r)
     \/ /\ \E r \in RpcErrors("acurast_tunnel_start_failed")
                      \cup {"acurast_tunnel_spec_rejected"} \cup TransportErrors : Returns(r)
        /\ UNCHANGED tunnel
  /\ UNCHANGED <<marker, poll, overdue, job>>

\* The processor and its relay.
TunnelMoves ==
  /\ \/ tunnel.status = "starting" /\ \E s \in {"running", "failed", "stopped"} :
          tunnel' = [tunnel EXCEPT !.status = s]
     \/ tunnel.status = "running" /\ \E s \in {"failed", "stopped"} :
          tunnel' = [tunnel EXCEPT !.status = s]
     \/ tunnel.status \in {"starting", "running"} /\ ~tunnel.cert
          /\ tunnel' = [tunnel EXCEPT !.cert = TRUE]
  /\ UNCHANGED <<step, marker, starts, poll, overdue, outcome, job>>

Overdue ==
  /\ step \in {"poll", "cert"}
  /\ ~overdue
  /\ overdue' = TRUE
  /\ UNCHANGED <<step, marker, starts, tunnel, poll, outcome, job>>

\* Mutant: the deadline is not read while the tunnel is running.
PassEndsPatient(running) ==
  IF overdue /\ ~running
  THEN Returns("acurast_tunnel_start_timeout")
  ELSE step' = "poll" /\ UNCHANGED outcome

\* The end of one pass of the loop: past the deadline the last poll names it.
PassEnds(running) ==
  IF overdue
  THEN Returns(IF running THEN "acurast_tunnel_certificate_timeout" ELSE "acurast_tunnel_start_timeout")
  ELSE step' = "poll" /\ UNCHANGED outcome

\* tunnel_status.
PollStatus ==
  /\ step = "poll"
  /\ \/ \E r \in TransportErrors \cup RpcErrors("acurast_tunnel_status_unreadable") :
          Returns(r) /\ UNCHANGED poll
     \/ tunnel.status = "starting" /\ poll' = "starting" /\ PassEnds(FALSE)
     \/ tunnel.status \in {"running", "failed"} /\ poll' = tunnel.status
          /\ step' = "cert" /\ UNCHANGED outcome
     \/ tunnel.status \in {"none", "stopped"}
          /\ Returns("acurast_tunnel_stopped_unexpectedly") /\ UNCHANGED poll
  /\ UNCHANGED <<marker, starts, tunnel, overdue, job>>

\* tunnel_certPem.  After a failure an unreadable certificate counts as none.
PollCertificate ==
  /\ step = "cert"
  /\ \/ \E r \in TransportErrors \cup RpcErrors("acurast_tunnel_status_unreadable") :
          Returns(IF poll = "running" THEN r ELSE "acurast_tunnel_failed_before_certificate")
     \/ poll = "running" /\ tunnel.cert /\ Returns("acurast_tunnel_serving")
     \/ poll = "running" /\ ~tunnel.cert /\ PassEnds(TRUE)
     \/ poll = "failed" /\ Returns(IF tunnel.cert THEN "acurast_tunnel_failed_after_certificate"
                                   ELSE "acurast_tunnel_failed_before_certificate")
  /\ UNCHANGED <<marker, starts, tunnel, poll, overdue, job>>

\* AcurastTunnelServing::stop.
StopTunnel ==
  /\ step = "done"
  /\ outcome = "acurast_tunnel_serving"
  /\ \/ outcome' = "stopped" /\ tunnel' = [tunnel EXCEPT !.status = "stopped"]
     \/ \E r \in TransportErrors \cup RpcErrors("acurast_tunnel_stop_failed") :
          outcome' = r /\ UNCHANGED tunnel
  /\ UNCHANGED <<step, marker, starts, poll, overdue, job>>

\* A crash of the job or of its host; what was not synced may be lost.
Crash ==
  /\ job < MaxJobs
  /\ job' = job + 1
  /\ step' = "spec"
  /\ marker' \in IF marker = "cached" THEN {"none", "durable"} ELSE {marker}
  /\ poll' = "none"
  /\ overdue' = FALSE
  /\ outcome' = "none"
  /\ UNCHANGED <<starts, tunnel>>

Attempt == BuildSpec \/ NewClient \/ CreateMarker \/ SyncMarker \/ Start \/ PollStatus \/ PollCertificate

TunnelNext == Attempt \/ TunnelMoves \/ Overdue \/ StopTunnel \/ Crash

\* Each call has a timeout and the poll a deadline.
TunnelFairness == WF_tunnelVars(Attempt) /\ WF_tunnelVars(Overdue)
-----------------------------------------------------------------------------
(* `tunnel_start` is sent at most once in all the job's runs, and only     *)
(* behind a durable marker; a serving tunnel has its certificate; a        *)
(* timeout names what the last poll saw: spend_attempt, start_once.        *)
OneStart ==
  /\ starts <= 1
  /\ starts > 0 => marker = "durable"
  /\ outcome = "acurast_tunnel_serving" => tunnel.cert
  /\ outcome = "acurast_tunnel_certificate_timeout" => overdue /\ poll = "running"
  /\ outcome = "acurast_tunnel_start_timeout" => overdue /\ poll = "starting"

\* An attempt that polls, which SERVING_DEADLINE bounds.
AttemptPending == step \in {"poll", "cert"}
=============================================================================
