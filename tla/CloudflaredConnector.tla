------------------------ MODULE CloudflaredConnector ------------------------
(***************************************************************************)
(* ConnectorSupervision of src/src/access/cloudflared.rs: the supervision  *)
(* state machine of one `cloudflared` child, fed with its log events, its  *)
(* exits and clock ticks.  The supervisor that will own the child is not   *)
(* in the repository; it is modelled as the module's comments ask of it:   *)
(* it carries out each directive before it feeds the machine again, it     *)
(* feeds only events of the running child, and a child that printed its    *)
(* exit line is gone when the respawn falls due.                           *)
(***************************************************************************)
EXTENDS Naturals, Sequences

CONSTANTS
  MaxRespawns,   \* MAX_SIDECAR_RESPAWNS, the respawns on QUIC
  Conns          \* connection indexes of one child

ASSUME ConnectorAssumption == MaxRespawns \in Nat

VARIABLES
  state,      \* ConnectorState: [at, protocol, connections, code]
  orphaned,   \* the re-registration window: "no", "running", "over"
  respawns,   \* respawns_used
  due,        \* Down.retry_at has passed
  child,      \* the cloudflared process
  launches,   \* history: the protocols of the launches
  reports     \* the last code reported

connectorVars == <<state, orphaned, respawns, due, child, launches, reports>>

Live == {"starting", "registered"}

\* LaunchPlan::new, for what a plan is refused for.
PlanRefused(metrics, token) ==
  IF metrics # "loopback" THEN "ingress_connector_metrics_address_refused"
  ELSE IF token # "printable" THEN "ingress_connector_token_invalid"
  ELSE "ok"

At(s) == [state EXCEPT !.at = s, !.connections = {}]

ConnectorInit ==
  /\ \E m \in {"loopback", "other"}, t \in {"printable", "empty"} :
       LET refused == PlanRefused(m, t)
       IN /\ state = [at |-> IF refused = "ok" THEN "starting" ELSE "terminal",
                      protocol |-> "quic", connections |-> {},
                      code |-> IF refused = "ok" THEN "none" ELSE refused]
          /\ child = IF refused = "ok" THEN "alive" ELSE "dead"
          /\ launches = IF refused = "ok" THEN <<"quic">> ELSE <<>>
  /\ orphaned = "no"
  /\ respawns = 0
  /\ due = FALSE
  /\ reports = "none"

\* plan_respawn: QUIC while the budget lasts, once on HTTP/2, then Terminal.
PlanRespawn(code) ==
  /\ IF respawns > MaxRespawns
     THEN /\ state' = [At("terminal") EXCEPT !.code = "ingress_connector_respawn_budget_spent"]
          /\ reports' = "ingress_connector_respawn_budget_spent"
     ELSE /\ state' = [At("down") EXCEPT !.protocol = IF respawns < MaxRespawns
                                                      THEN "quic" ELSE "http2"]
          /\ reports' = code
  /\ due' = FALSE
  /\ orphaned' = "no"

\* The log lines of a child: the message, the connection it is about, and
\* which of its fields read.
Lines == [message : {"registered", "registering", "unregistered", "metrics_failed", "exiting", "other"},
          index : Conns, reads : {"all", "index", "none"}]

\* classify: a line whose fields do not read is no event at all.
Classify(line) ==
  CASE line.message \in {"registered", "registering"} /\ line.reads = "all" -> line.message
    [] line.message = "unregistered" /\ line.reads # "none" -> "unregistered"
    [] line.message \in {"metrics_failed", "exiting"} -> line.message
    [] OTHER -> "unclassified"

\* observe(Registered): the first connection, or one after an orphaned spell,
\* is reported.
Registered(i) ==
  /\ state.at \in Live
  /\ child = "alive"
  /\ i \notin state.connections
  /\ state' = [state EXCEPT !.at = "registered", !.connections = @ \cup {i}]
  /\ reports' = IF state.at = "starting" \/ state.connections = {}
                THEN "ingress_connector_registered" ELSE reports
  /\ orphaned' = "no"
  /\ UNCHANGED <<respawns, due, child, launches>>

\* observe(Unregistered): the loss of the last connection opens the window.
Unregistered(i) ==
  /\ state.at = "registered"
  /\ child = "alive"
  /\ i \in state.connections
  /\ state' = [state EXCEPT !.connections = @ \ {i}]
  /\ orphaned' = IF state.connections = {i} THEN "running" ELSE orphaned
  /\ UNCHANGED <<respawns, due, child, launches, reports>>

\* observe(MetricsListenerFailed): a respawn would repeat it.
MetricsListenerFailed ==
  /\ state.at \in Live
  /\ child = "alive"
  /\ state' = [At("terminal") EXCEPT !.code = "ingress_connector_metrics_listener_failed"]
  /\ reports' = "ingress_connector_metrics_listener_failed"
  /\ child' = "dead"
  /\ orphaned' = "no"
  /\ UNCHANGED <<respawns, due, launches>>

\* child_exited: the exit line, or the exit itself, of a running child.
ChildExited ==
  /\ state.at \in Live
  /\ child = "alive"
  /\ child' = "dead"
  /\ PlanRespawn("ingress_connector_exited")
  /\ UNCHANGED <<respawns, launches>>

\* observe: one line of the running child.
Observe(line) ==
  \/ Classify(line) = "registered" /\ Registered(line.index)
  \/ Classify(line) = "unregistered" /\ Unregistered(line.index)
  \/ Classify(line) = "metrics_failed" /\ MetricsListenerFailed
  \/ Classify(line) = "exiting" /\ ChildExited

\* stop() and its Drain: SIGTERM, DRAIN_GRACE, SIGKILL, reap.
Stop ==
  /\ state.at \in Live
  /\ state' = At("draining")
  /\ orphaned' = "no"
  /\ UNCHANGED <<respawns, due, child, launches, reports>>

Drained ==
  /\ state.at = "draining"
  /\ state' = At("terminal")
  /\ child' = "dead"
  /\ UNCHANGED <<orphaned, respawns, due, launches, reports>>

StopWhileDown ==
  /\ state.at = "down"
  /\ state' = At("terminal")
  /\ UNCHANGED <<orphaned, respawns, due, child, launches, reports>>

WindowEnds ==
  /\ orphaned = "running"
  /\ orphaned' = "over"
  /\ UNCHANGED <<state, respawns, due, child, launches, reports>>

RetryFallsDue ==
  /\ state.at = "down"
  /\ ~due
  /\ due' = TRUE
  /\ UNCHANGED <<state, orphaned, respawns, child, launches, reports>>

\* Mutant: the orphaned child is left to itself.
TickOrphanedKept ==
  /\ state.at = "registered"
  /\ orphaned = "over"
  /\ PlanRespawn("ingress_connector_unregistered")
  /\ UNCHANGED <<respawns, launches, child>>

\* tick past the window: ReportAndStop.
TickOrphaned ==
  /\ state.at = "registered"
  /\ orphaned = "over"
  /\ PlanRespawn("ingress_connector_unregistered")
  /\ child' = "dead"
  /\ UNCHANGED <<respawns, launches>>

\* tick past retry_at: Respawn.
TickRespawn ==
  /\ state.at = "down"
  /\ due
  /\ respawns' = respawns + 1
  /\ state' = At("starting")
  /\ child' = "alive"
  /\ launches' = Append(launches, state.protocol)
  /\ due' = FALSE
  /\ UNCHANGED <<orphaned, reports>>

Tick == TickOrphaned \/ TickRespawn

ConnectorNext ==
  \/ \E line \in Lines : Observe(line)
  \/ ChildExited \/ Stop \/ Drained \/ StopWhileDown
  \/ WindowEnds \/ RetryFallsDue \/ Tick

\* Clock and supervisor: windows end and ticks are fed.
ConnectorFairness ==
  WF_connectorVars(WindowEnds) /\ WF_connectorVars(RetryFallsDue) /\ WF_connectorVars(Tick)
    /\ WF_connectorVars(Drained)
-----------------------------------------------------------------------------
Ladder == [n \in 1..(MaxRespawns + 2) |-> IF n = MaxRespawns + 2 THEN "http2" ELSE "quic"]

(* The launches follow the ladder: the first and MaxRespawns more on QUIC, *)
(* one on HTTP/2, and never another; a new child is launched only when the *)
(* one before it is gone, an orphaned one included: plan_respawn, tick.    *)
LadderKept ==
  /\ Len(launches) <= MaxRespawns + 2
  /\ \A n \in 1..Len(launches) : launches[n] = Ladder[n]
  /\ (Len(launches) = 0 \/ Len(launches) = respawns + 1)
  /\ state.at = "down" => child = "dead"
  /\ child = "alive" => state.at \in Live \cup {"draining"}
  /\ orphaned # "no" => state.at = "registered" /\ state.connections = {}

\* A registered connector without a connection waits for one, for the
\* re-registration window of tick at most.
OrphanPending == state.at = "registered" /\ state.connections = {}
=============================================================================
