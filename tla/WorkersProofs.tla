---------------------------- MODULE WorkersProofs ---------------------------
(***************************************************************************)
(* The safety of the background jobs of Workers, job by job.  Each job has *)
(* an inductive invariant over its own variables; a step of WorkersSpec is *)
(* a step of the job it follows and leaves the others alone.               *)
(***************************************************************************)
EXTENDS Workers, SequenceTheorems, FiniteSetTheorems, WellFoundedInduction, TLAPS

-----------------------------------------------------------------------------
(* Lemmas about sequences and numbers that several jobs need.              *)

(* Every non-empty set of naturals has a least element: induction over the *)
(* naturals, with a set in the place of a predicate.                       *)
LEMMA LeastNumber ==
  ASSUME NEW T, T \subseteq Nat, T # {}
  PROVE  \E x \in T : \A y \in T : x <= y
<1> DEFINE Less == {p \in Nat \X Nat : p[1] < p[2]}
<1>1. OpToRel(<, Nat) = Less
  BY DEF OpToRel
<1> HIDE DEF Less
<1>2. IsWellFoundedOn(Less, Nat)
  BY <1>1, NatLessThanWellFounded, Zenon
<1>3. PICK x \in T : \A y \in T : ~ (<<y, x>> \in Less)
  BY <1>2, WFMin
<1>4. ASSUME NEW y \in T PROVE x <= y
  <2>1. x \in Nat /\ y \in Nat
    OBVIOUS
  <2>2. y < x => <<y, x>> \in Less
    BY <2>1 DEF Less
  <2> QED
    BY <1>3, <2>1, <2>2
<1> QED
  BY <1>4

(* What a sequence of S holds is in S.                                     *)
LEMMA Element ==
  ASSUME NEW S, NEW s \in Seq(S), NEW i \in 1..Len(s)
  PROVE  s[i] \in S
  OBVIOUS

(* What a sequence holds after an element is appended to it.               *)
LEMMA AppendKeeps ==
  ASSUME NEW S, NEW s \in Seq(S), NEW e \in S
  PROVE  /\ Append(s, e) \in Seq(S)
         /\ Len(Append(s, e)) = Len(s) + 1
         /\ \A i \in 1..Len(s) : Append(s, e)[i] = s[i]
         /\ Append(s, e)[Len(s) + 1] = e
  OBVIOUS
-----------------------------------------------------------------------------
(* CloudflaredConnector.                                                   *)

Protocols == {"quic", "http2"}
ConnectorCodes ==
  {"none", "ingress_connector_metrics_address_refused", "ingress_connector_token_invalid",
   "ingress_connector_respawn_budget_spent", "ingress_connector_metrics_listener_failed"}

ConnectorTypeOK ==
  /\ state \in [at : Live \cup {"draining", "down", "terminal"}, protocol : Protocols,
                connections : SUBSET Conns, code : ConnectorCodes]
  /\ launches \in Seq(Protocols)
  /\ respawns \in 0..(MaxRespawns + 1)

\* LadderKept needs the rung a respawn that is planned stands on.
ConnectorInv ==
  /\ ConnectorTypeOK
  /\ LadderKept
  /\ state.at # "terminal" => Len(launches) = respawns + 1
  /\ state.at = "down" =>
       /\ respawns <= MaxRespawns
       /\ state.protocol = IF respawns < MaxRespawns THEN "quic" ELSE "http2"

(* The connector starts on the first rung, or not at all.                  *)
LEMMA ConnectorStarts == ConnectorInit => ConnectorInv
<1> SUFFICES ASSUME ConnectorInit PROVE ConnectorInv
  OBVIOUS
<1> USE ConnectorAssumption
<1>1. PICK m \in {"loopback", "other"}, t \in {"printable", "empty"} :
        /\ state = [at |-> IF PlanRefused(m, t) = "ok" THEN "starting" ELSE "terminal",
                    protocol |-> "quic", connections |-> {},
                    code |-> IF PlanRefused(m, t) = "ok" THEN "none" ELSE PlanRefused(m, t)]
        /\ child = IF PlanRefused(m, t) = "ok" THEN "alive" ELSE "dead"
        /\ launches = IF PlanRefused(m, t) = "ok" THEN <<"quic">> ELSE <<>>
  BY DEF ConnectorInit
<1>2. respawns = 0 /\ orphaned = "no"
  BY DEF ConnectorInit
<1>3. CASE PlanRefused(m, t) = "ok"
  <2>1. /\ state = [at |-> "starting", protocol |-> "quic", connections |-> {}, code |-> "none"]
        /\ child = "alive" /\ launches = <<"quic">>
    BY <1>1, <1>3
  <2>2. launches \in Seq(Protocols) /\ Len(launches) = 1 /\ launches[1] = "quic"
    BY <2>1 DEF Protocols
  <2>3. Ladder[1] = "quic"
    BY DEF Ladder
  <2>4. ConnectorTypeOK
    BY <1>2, <2>1, <2>2 DEF ConnectorTypeOK, Live, Protocols, ConnectorCodes
  <2>5. LadderKept
    BY <1>2, <2>1, <2>2, <2>3 DEF LadderKept, Live
  <2> QED
    BY <1>2, <2>1, <2>2, <2>4, <2>5 DEF ConnectorInv
<1>4. CASE PlanRefused(m, t) # "ok"
  <2>1. /\ state = [at |-> "terminal", protocol |-> "quic", connections |-> {},
                    code |-> PlanRefused(m, t)]
        /\ child = "dead" /\ launches = <<>>
    BY <1>1, <1>4
  <2>2. PlanRefused(m, t) \in ConnectorCodes
    BY <1>4 DEF PlanRefused, ConnectorCodes
  <2>3. launches \in Seq(Protocols) /\ Len(launches) = 0
    BY <2>1
  <2>4. ConnectorTypeOK
    BY <1>2, <2>1, <2>2, <2>3 DEF ConnectorTypeOK, Protocols
  <2>5. LadderKept
    BY <1>2, <2>1, <2>3 DEF LadderKept, Live
  <2> QED
    BY <1>2, <2>1, <2>3, <2>4, <2>5 DEF ConnectorInv
<1> QED
  BY <1>3, <1>4

(* plan_respawn: what it plans is the next rung, and the machine is down   *)
(* or done.                                                                *)
LEMMA RespawnPlanned ==
  ASSUME ConnectorInv, NEW code, PlanRespawn(code), state.at \in Live, child' = "dead",
         UNCHANGED <<respawns, launches>>
  PROVE  ConnectorInv'
<1> USE ConnectorAssumption DEF ConnectorInv, Live
<1>1. /\ respawns \in 0..(MaxRespawns + 1)
      /\ state \in [at : Live \cup {"draining", "down", "terminal"}, protocol : Protocols,
                    connections : SUBSET Conns, code : ConnectorCodes]
  BY DEF ConnectorTypeOK
<1>2. CASE respawns > MaxRespawns
  <2>1. state' = [At("terminal") EXCEPT !.code = "ingress_connector_respawn_budget_spent"]
        /\ orphaned' = "no"
    BY <1>2 DEF PlanRespawn
  <2>2. state'.at = "terminal" /\ ConnectorTypeOK'
    BY <1>1, <2>1 DEF At, ConnectorTypeOK, ConnectorCodes
  <2> QED
    BY <2>1, <2>2 DEF LadderKept, Ladder
<1>3. CASE ~(respawns > MaxRespawns)
  <2>1. state' = [At("down") EXCEPT !.protocol = IF respawns < MaxRespawns THEN "quic" ELSE "http2"]
        /\ orphaned' = "no"
    BY <1>3 DEF PlanRespawn
  <2>2. /\ state'.at = "down" /\ ConnectorTypeOK'
        /\ state'.protocol = IF respawns < MaxRespawns THEN "quic" ELSE "http2"
    BY <1>1, <2>1 DEF At, ConnectorTypeOK, Protocols
  <2>3. respawns <= MaxRespawns
    BY <1>1, <1>3
  <2> QED
    BY <2>1, <2>2, <2>3 DEF LadderKept, Ladder
<1> QED
  BY <1>2, <1>3

(* Every step of the connector keeps it on the ladder.                     *)
LEMMA ConnectorKeeps == ConnectorInv /\ [ConnectorNext]_connectorVars => ConnectorInv'
<1> SUFFICES ASSUME ConnectorInv, [ConnectorNext]_connectorVars PROVE ConnectorInv'
  OBVIOUS
<1> USE ConnectorAssumption DEF Live
<1>0. /\ ConnectorTypeOK /\ LadderKept
      /\ respawns \in 0..(MaxRespawns + 1)
      /\ launches \in Seq(Protocols)
      /\ state \in [at : Live \cup {"draining", "down", "terminal"}, protocol : Protocols,
                    connections : SUBSET Conns, code : ConnectorCodes]
  BY DEF ConnectorInv, ConnectorTypeOK
<1>1. CASE UNCHANGED connectorVars
  BY <1>1 DEF connectorVars, ConnectorInv, ConnectorTypeOK, LadderKept, Ladder
<1>2. CASE \E line \in Lines : Registered(line.index)
  <2>1. PICK i \in Conns : Registered(i)
    BY <1>2 DEF Lines
  <2>2. /\ state' \in [at : {"registered"}, protocol : {state.protocol}, connections : SUBSET Conns,
                       code : ConnectorCodes]
        /\ UNCHANGED <<respawns, launches, child>> /\ orphaned' = "no" /\ state.at \in Live
    BY <1>0, <2>1 DEF Registered
  <2> QED
    BY <1>0, <2>2 DEF ConnectorInv, ConnectorTypeOK, LadderKept, Ladder
<1>3. CASE \E line \in Lines : Unregistered(line.index)
  <2>1. PICK i \in Conns : Unregistered(i)
    BY <1>3 DEF Lines
  <2>2. /\ state' \in [at : {"registered"}, protocol : {state.protocol}, connections : SUBSET Conns,
                       code : ConnectorCodes]
        /\ UNCHANGED <<respawns, launches, child>> /\ state.at = "registered"
    BY <1>0, <2>1 DEF Unregistered
  <2>3. orphaned' # "no" => state'.connections = {}
    BY <1>0, <2>1 DEF Unregistered, LadderKept
  <2> QED
    BY <1>0, <2>2, <2>3 DEF ConnectorInv, ConnectorTypeOK, LadderKept, Ladder
<1>4. CASE MetricsListenerFailed
  <2>1. /\ state'.at = "terminal" /\ ConnectorTypeOK' /\ orphaned' = "no" /\ child' = "dead"
        /\ UNCHANGED <<respawns, launches>>
    BY <1>0, <1>4 DEF MetricsListenerFailed, At, ConnectorTypeOK, ConnectorCodes
  <2> QED
    BY <1>0, <2>1 DEF ConnectorInv, LadderKept, Ladder
<1>5. CASE ChildExited
  BY <1>5, RespawnPlanned DEF ChildExited
<1>6. CASE TickOrphaned
  BY <1>6, RespawnPlanned DEF TickOrphaned
<1>7. CASE Stop
  <2>1. /\ state'.at = "draining" /\ ConnectorTypeOK' /\ orphaned' = "no" /\ state.at \in Live
        /\ UNCHANGED <<respawns, launches, child>>
    BY <1>0, <1>7 DEF Stop, At, ConnectorTypeOK
  <2> QED
    BY <1>0, <2>1 DEF ConnectorInv, LadderKept, Ladder
<1>8. CASE Drained \/ StopWhileDown
  <2>1. /\ state'.at = "terminal" /\ ConnectorTypeOK' /\ state.at \in {"draining", "down"}
        /\ child' = "dead" /\ UNCHANGED <<respawns, launches, orphaned>>
    BY <1>0, <1>8 DEF Drained, StopWhileDown, At, ConnectorTypeOK, LadderKept
  <2> QED
    BY <1>0, <2>1 DEF ConnectorInv, LadderKept, Ladder
<1>9. CASE WindowEnds \/ RetryFallsDue
  BY <1>0, <1>9 DEF WindowEnds, RetryFallsDue, ConnectorInv, ConnectorTypeOK, LadderKept, Ladder
<1>10. CASE TickRespawn
  <2>1. /\ state' = At("starting") /\ respawns' = respawns + 1 /\ child' = "alive"
        /\ launches' = Append(launches, state.protocol) /\ state.at = "down" /\ orphaned' = orphaned
    BY <1>10 DEF TickRespawn
  <2>2. /\ respawns \in Nat /\ respawns <= MaxRespawns /\ Len(launches) = respawns + 1
        /\ state.protocol = IF respawns < MaxRespawns THEN "quic" ELSE "http2"
    BY <1>0, <2>1 DEF ConnectorInv
  <2>3. /\ launches' \in Seq(Protocols) /\ Len(launches') = respawns + 2
        /\ \A n \in 1..Len(launches) : launches'[n] = launches[n]
        /\ launches'[respawns + 2] = state.protocol
    BY <1>0, <2>1, <2>2
  <2>4. ConnectorTypeOK' /\ state'.at = "starting"
    <3>1. /\ state'.at = "starting"
          /\ state' \in [at : Live \cup {"draining", "down", "terminal"}, protocol : Protocols,
                         connections : SUBSET Conns, code : ConnectorCodes]
      BY <1>0, <2>1 DEF At
    <3>2. respawns' \in 0..(MaxRespawns + 1)
      BY <2>1, <2>2
    <3> QED
      BY <2>3, <3>1, <3>2 DEF ConnectorTypeOK
  <2>5. ASSUME NEW n \in 1..Len(launches') PROVE launches'[n] = Ladder[n]
    <3>1. CASE n \in 1..Len(launches)
      BY <1>0, <2>3, <3>1 DEF LadderKept
    <3>2. CASE n = respawns + 2
      BY <2>2, <2>3, <3>2 DEF Ladder
    <3> QED
      BY <2>2, <2>3, <3>1, <3>2
  <2>6. orphaned' = "no"
    BY <1>0, <2>1 DEF LadderKept
  <2>7. LadderKept'
    <3>1. Len(launches') <= MaxRespawns + 2 /\ Len(launches') = respawns' + 1
      BY <2>1, <2>2, <2>3
    <3>2. \A n \in 1..Len(launches') : launches'[n] = Ladder'[n]
      BY <2>5 DEF Ladder
    <3> QED
      BY <2>4, <2>6, <3>1, <3>2 DEF LadderKept
  <2> QED
    BY <2>1, <2>2, <2>3, <2>4, <2>7 DEF ConnectorInv
<1> QED
  BY <1>1, <1>2, <1>3, <1>4, <1>5, <1>6, <1>7, <1>8, <1>9, <1>10 DEF ConnectorNext, Observe, Tick
-----------------------------------------------------------------------------
(* AcurastTunnel.                                                          *)

\* The failures a start reports, none of which OneStart is about.
TunnelFailures ==
  TransportErrors \cup RpcErrors("acurast_tunnel_start_failed")
    \cup RpcErrors("acurast_tunnel_status_unreadable") \cup RpcErrors("acurast_tunnel_stop_failed")
    \cup {"acurast_tunnel_url_missing", "acurast_tunnel_spec_rejected",
          "acurast_tunnel_identity_invalid", "acurast_tunnel_service_missing",
          "acurast_tunnel_multiple_services_unsupported", "acurast_tunnel_attempt_already_spent",
          "acurast_tunnel_attempt_marker_failed", "acurast_tunnel_stopped_unexpectedly",
          "acurast_tunnel_failed_before_certificate", "acurast_tunnel_failed_after_certificate",
          "stopped", "none"}

\* OneStart needs what the steps between the marker and the start may rely
\* on, and that an attempt under way has no outcome.
TunnelInv ==
  /\ tunnel \in [status : {"none", "starting", "running", "failed", "stopped"}, cert : BOOLEAN]
  /\ starts \in Nat
  /\ OneStart
  /\ step = "sync" => marker = "cached"
  /\ step = "start" => marker = "durable" /\ starts = 0
  /\ step # "done" => outcome = "none"

(* A failure is not one of the outcomes that claim something.              *)
LEMMA FailureClaimsNothing ==
  \A r \in TunnelFailures : /\ r # "acurast_tunnel_serving"
                            /\ r # "acurast_tunnel_certificate_timeout"
                            /\ r # "acurast_tunnel_start_timeout"
  BY DEF TunnelFailures, TransportErrors, RpcErrors

(* No job has started a tunnel yet.                                        *)
LEMMA TunnelStarts ==
  ASSUME NEW first, first \in {"spec", "done"}, TunnelInit(first)
  PROVE  TunnelInv
  BY DEF TunnelInit, TunnelInv, OneStart

(* A step that only fails changes nothing OneStart is about.               *)
LEMMA TunnelFails ==
  ASSUME TunnelInv, step # "done", outcome' \in TunnelFailures, step' = "done",
         UNCHANGED <<starts, marker, tunnel>>
  PROVE  TunnelInv'
  BY FailureClaimsNothing DEF TunnelInv, OneStart

(* Every step of the job, a crash included, keeps the one start.           *)
LEMMA TunnelKeeps == TunnelInv /\ [TunnelNext]_tunnelVars => TunnelInv'
<1> SUFFICES ASSUME TunnelInv, [TunnelNext]_tunnelVars PROVE TunnelInv'
  OBVIOUS
<1>0. /\ tunnel \in [status : {"none", "starting", "running", "failed", "stopped"}, cert : BOOLEAN]
      /\ starts \in Nat /\ OneStart
  BY DEF TunnelInv
<1>1. CASE UNCHANGED tunnelVars
  BY <1>1 DEF tunnelVars, TunnelInv, OneStart
<1>2. CASE BuildSpec
  <2>1. /\ step = "spec" /\ UNCHANGED <<marker, starts, tunnel, poll, overdue, job>>
        /\ \/ step' = "client" /\ UNCHANGED outcome
           \/ step' = "done" /\ outcome' \in TunnelFailures
    BY <1>2 DEF BuildSpec, SpecOutcome, Returns, TunnelFailures
  <2> QED
    BY <2>1, TunnelFails DEF TunnelInv, OneStart
<1>3. CASE NewClient
  <2>1. /\ step = "client" /\ UNCHANGED <<marker, starts, tunnel, poll, overdue, job>>
        /\ \/ step' = "spend" /\ UNCHANGED outcome
           \/ step' = "done" /\ outcome' \in TunnelFailures
    BY <1>3 DEF NewClient, Returns, TunnelFailures, TransportErrors
  <2> QED
    BY <2>1, TunnelFails DEF TunnelInv, OneStart
<1>4. CASE CreateMarker
  <2>1. /\ step = "spend" /\ UNCHANGED <<starts, tunnel, poll, overdue, job>>
        /\ \/ marker = "none" /\ marker' = "cached" /\ step' = "sync" /\ UNCHANGED outcome
           \/ step' = "done" /\ outcome' \in TunnelFailures /\ UNCHANGED marker
    BY <1>4 DEF CreateMarker, Returns, TunnelFailures
  <2> QED
    BY <1>0, <2>1, TunnelFails DEF TunnelInv, OneStart
<1>5. CASE SyncMarker
  <2>1. /\ step = "sync" /\ UNCHANGED <<starts, tunnel, poll, overdue, job>>
        /\ \/ marker' = "durable" /\ step' = "start" /\ UNCHANGED outcome
           \/ step' = "done" /\ outcome' \in TunnelFailures /\ UNCHANGED marker
    BY <1>5 DEF SyncMarker, Returns, TunnelFailures
  <2> QED
    BY <1>0, <2>1, TunnelFails DEF TunnelInv, OneStart
<1>6. CASE Start
  <2>1. /\ step = "start" /\ starts' = starts + 1 /\ UNCHANGED <<marker, poll, overdue, job>>
        /\ \/ step' = "poll" /\ UNCHANGED outcome
           \/ step' = "done" /\ outcome' \in TunnelFailures
    BY <1>6 DEF Start, Returns, TunnelFailures, TransportErrors, RpcErrors
  <2>2. tunnel' \in [status : {"none", "starting", "running", "failed", "stopped"}, cert : BOOLEAN]
    BY <1>0, <1>6 DEF Start
  <2>3. starts' = 1 /\ marker' = "durable"
    BY <2>1 DEF TunnelInv
  <2> QED
    BY <2>1, <2>2, <2>3, FailureClaimsNothing DEF TunnelInv, OneStart
<1>7. CASE TunnelMoves
  <2>1. /\ tunnel' \in [status : {"none", "starting", "running", "failed", "stopped"}, cert : BOOLEAN]
        /\ tunnel.cert => tunnel'.cert
    BY <1>0, <1>7 DEF TunnelMoves
  <2>2. UNCHANGED <<step, marker, starts, poll, overdue, outcome, job>>
    BY <1>7 DEF TunnelMoves
  <2> QED
    BY <2>1, <2>2 DEF TunnelInv, OneStart
<1>8. CASE Overdue
  BY <1>8 DEF Overdue, TunnelInv, OneStart
<1>9. CASE PollStatus
  <2>1. step = "poll" /\ UNCHANGED <<marker, starts, tunnel, overdue, job>>
    BY <1>9 DEF PollStatus
  <2>2. \/ step' = "done" /\ outcome' \in TunnelFailures
        \/ overdue /\ poll' = "starting" /\ step' = "done" /\ outcome' = "acurast_tunnel_start_timeout"
        \/ step' \in {"poll", "cert"} /\ UNCHANGED outcome
    BY <1>9 DEF PollStatus, PassEnds, Returns, TunnelFailures, TransportErrors, RpcErrors
  <2> QED
    BY <2>1, <2>2, TunnelFails DEF TunnelInv, OneStart
<1>10. CASE PollCertificate
  <2>1. step = "cert" /\ UNCHANGED <<marker, starts, tunnel, poll, overdue, job>>
    BY <1>10 DEF PollCertificate
  <2>2. \/ step' = "done" /\ outcome' \in TunnelFailures
        \/ overdue /\ poll = "running" /\ step' = "done" /\ outcome' = "acurast_tunnel_certificate_timeout"
        \/ tunnel.cert /\ step' = "done" /\ outcome' = "acurast_tunnel_serving"
        \/ step' = "poll" /\ UNCHANGED outcome
    BY <1>10 DEF PollCertificate, PassEnds, Returns, TunnelFailures, TransportErrors, RpcErrors
  <2> QED
    BY <2>1, <2>2, TunnelFails DEF TunnelInv, OneStart
<1>11. CASE StopTunnel
  <2>1. /\ step = "done" /\ UNCHANGED <<step, marker, starts, poll, overdue, job>>
        /\ outcome' \in TunnelFailures
    BY <1>11 DEF StopTunnel, TunnelFailures
  <2>2. tunnel' \in [status : {"none", "starting", "running", "failed", "stopped"}, cert : BOOLEAN]
    BY <1>0, <1>11 DEF StopTunnel
  <2> QED
    BY <2>1, <2>2, FailureClaimsNothing DEF TunnelInv, OneStart
<1>12. CASE Crash
  BY <1>12 DEF Crash, TunnelInv, OneStart
<1> QED
  BY <1>1, <1>2, <1>3, <1>4, <1>5, <1>6, <1>7, <1>8, <1>9, <1>10, <1>11, <1>12
  DEF TunnelNext, Attempt

(* A step of the jobs is, for the two ingress drivers, a step of theirs or *)
(* nothing.                                                                *)
LEMMA DriversMove ==
  [WorkersNext]_workerVars => [ConnectorNext]_connectorVars /\ [TunnelNext]_tunnelVars
  BY DEF WorkersNext, workerVars

(* The ingress drivers keep their budgets for every budget of respawns,    *)
(* any number of connections and any number of crashes: the launches of    *)
(* cloudflared follow the ladder and `tunnel_start` is sent at most once.  *)
THEOREM BudgetsAreKept == WorkersSpec => []BudgetsKept
<1>1. WorkersInit => ConnectorInv /\ TunnelInv
  <2> SUFFICES ASSUME WorkersInit PROVE ConnectorInv /\ TunnelInv
    OBVIOUS
  <2>1. ConnectorInit
    BY DEF WorkersInit
  <2>2. PICK first : first = (IF follows = "tunnel" THEN "spec" ELSE "done")
    OBVIOUS
  <2>3. TunnelInit(first)
    BY <2>2 DEF WorkersInit
  <2> QED
    BY <2>1, <2>2, <2>3, ConnectorStarts, TunnelStarts
<1>2. (ConnectorInv /\ TunnelInv) /\ [WorkersNext]_workerVars => (ConnectorInv /\ TunnelInv)'
  BY DriversMove, ConnectorKeeps, TunnelKeeps
<1>3. ConnectorInv /\ TunnelInv => BudgetsKept
  BY DEF ConnectorInv, TunnelInv, BudgetsKept
<1> QED
  BY <1>1, <1>2, <1>3, PTL DEF WorkersSpec
-----------------------------------------------------------------------------
(* PayloadDownload.                                                        *)

\* Two paths have their first k parts in common, and then the first one is
\* smaller or ends.
PartsAt(a, b, k) ==
  /\ k \in 0..Len(a) /\ k \in 0..Len(b)
  /\ \A j \in 1..k : a[j] = b[j]
  /\ k < Len(b)
  /\ k < Len(a) => a[k + 1] < b[k + 1]

(* PathBefore in the terms of the common prefix.                           *)
LEMMA BeforeParts ==
  ASSUME NEW a \in Paths, NEW b \in Paths
  PROVE  PathBefore(a, b) <=> \E k \in Nat : PartsAt(a, b, k)
<1> USE DEF Paths
<1>1. ASSUME NEW i \in 1..Len(a), i <= Len(b), a[i] < b[i], \A j \in 1..(i - 1) : a[j] = b[j]
      PROVE  \E k \in Nat : PartsAt(a, b, k)
  <2>1. i - 1 \in Nat /\ (i - 1) + 1 = i /\ Len(a) \in Nat /\ Len(b) \in Nat
    OBVIOUS
  <2>2. PartsAt(a, b, i - 1)
    BY <1>1, <2>1 DEF PartsAt
  <2> QED
    BY <2>1, <2>2
<1>2. ASSUME Len(a) < Len(b), SubSeq(b, 1, Len(a)) = a
      PROVE  \E k \in Nat : PartsAt(a, b, k)
  <2>1. \A j \in 1..Len(a) : b[j] = a[j]
    BY <1>2
  <2>2. PartsAt(a, b, Len(a))
    BY <1>2, <2>1 DEF PartsAt
  <2> QED
    BY <2>2
<1>3. ASSUME NEW k \in Nat, PartsAt(a, b, k)
      PROVE  PathBefore(a, b)
  <2>1. CASE k < Len(a)
    <3>1. k + 1 \in 1..Len(a) /\ k + 1 <= Len(b) /\ a[k + 1] < b[k + 1]
      BY <1>3, <2>1 DEF PartsAt
    <3>2. \A j \in 1..((k + 1) - 1) : a[j] = b[j]
      BY <1>3 DEF PartsAt
    <3> QED
      BY <3>1, <3>2 DEF PathBefore
  <2>2. CASE ~(k < Len(a))
    <3>1. k = Len(a) /\ k < Len(b) /\ \A j \in 1..Len(a) : a[j] = b[j]
      BY <1>3, <2>2 DEF PartsAt
    <3>2. /\ SubSeq(b, 1, Len(a)) \in Seq(Nat) /\ Len(SubSeq(b, 1, Len(a))) = Len(a)
          /\ \A j \in 1..Len(a) : SubSeq(b, 1, Len(a))[j] = a[j]
      <4>1. Len(a) \in Nat /\ Len(b) \in Nat /\ Len(a) <= Len(b) /\ \A j \in 1..Len(b) : b[j] \in Nat
        BY <3>1
      <4>2. SubSeq(b, 1, Len(a)) = [j \in 1..Len(a) |-> b[j]]
        BY <4>1
      <4>3. \A j \in 1..Len(a) : SubSeq(b, 1, Len(a))[j] = a[j]
        BY <3>1, <4>2
      <4>4. SubSeq(b, 1, Len(a)) \in Seq(Nat) /\ Len(SubSeq(b, 1, Len(a))) = Len(a)
        BY <4>1, SubSeqProperties
      <4> QED
        BY <4>3, <4>4
    <3>3. SubSeq(b, 1, Len(a)) = a
      BY <3>2, SeqEqual
    <3> QED
      BY <3>1, <3>3 DEF PathBefore
  <2> QED
    BY <2>1, <2>2
<1> QED
  BY <1>1, <1>2, <1>3 DEF PathBefore

(* The order of the inventory is strict.                                   *)
LEMMA BeforeStrict ==
  ASSUME NEW a \in Paths
  PROVE  ~PathBefore(a, a)
<1> SUFFICES ASSUME NEW k \in Nat, PartsAt(a, a, k) PROVE FALSE
  BY BeforeParts
<1>1. Len(a) \in Nat /\ \A i \in 1..Len(a) : a[i] \in Nat
  BY DEF Paths
<1> QED
  BY <1>1 DEF PartsAt

(* The order of the inventory is transitive.                               *)
LEMMA BeforeTransitive ==
  ASSUME NEW a \in Paths, NEW b \in Paths, NEW c \in Paths, PathBefore(a, b), PathBefore(b, c)
  PROVE  PathBefore(a, c)
<1>1. PICK k \in Nat : PartsAt(a, b, k)
  BY BeforeParts
<1>2. PICK l \in Nat : PartsAt(b, c, l)
  BY BeforeParts
<1>3. /\ Len(a) \in Nat /\ Len(b) \in Nat /\ Len(c) \in Nat
      /\ \A i \in 1..Len(a) : a[i] \in Nat
      /\ \A i \in 1..Len(b) : b[i] \in Nat
      /\ \A i \in 1..Len(c) : c[i] \in Nat
  BY DEF Paths
<1>4. CASE k <= l
  <2>1. k \in 0..Len(a) /\ k \in 0..Len(c) /\ k < Len(c)
    BY <1>1, <1>2, <1>3, <1>4 DEF PartsAt
  <2>2. \A j \in 1..k : a[j] = c[j]
    BY <1>1, <1>2, <1>3, <1>4 DEF PartsAt
  <2>3. ASSUME k < Len(a) PROVE a[k + 1] < c[k + 1]
    <3>1. k + 1 \in 1..Len(a) /\ k + 1 \in 1..Len(b) /\ k + 1 \in 1..Len(c) /\ a[k + 1] < b[k + 1]
      BY <1>1, <1>3, <2>1, <2>3 DEF PartsAt
    <3>2. b[k + 1] <= c[k + 1]
      <4>1. CASE k < l
        BY <1>2, <1>3, <3>1, <4>1 DEF PartsAt
      <4>2. CASE k = l
        BY <1>2, <1>3, <3>1, <4>2 DEF PartsAt
      <4> QED
        BY <1>4, <4>1, <4>2
    <3>3. a[k + 1] \in Nat /\ b[k + 1] \in Nat /\ c[k + 1] \in Nat
      BY <1>3, <3>1
    <3> QED
      BY <3>1, <3>2, <3>3
  <2>4. PartsAt(a, c, k)
    BY <2>1, <2>2, <2>3 DEF PartsAt
  <2> QED
    BY <2>4, BeforeParts
<1>5. CASE l < k
  <2>1. PartsAt(a, c, l)
    BY <1>1, <1>2, <1>3, <1>5 DEF PartsAt
  <2> QED
    BY <2>1, BeforeParts
<1> QED
  BY <1>4, <1>5

(* An inventory whose neighbours are in order is in order throughout:      *)
(* induction over the distance of two entries.                             *)
LEMMA InventoryOrdered ==
  ASSUME NEW ps \in Seq(Paths), \A i \in 1..(Len(ps) - 1) : PathBefore(ps[i], ps[i + 1])
  PROVE  \A i, j \in 1..Len(ps) : i < j => PathBefore(ps[i], ps[j])
<1> SUFFICES ASSUME NEW i \in 1..Len(ps),
                    NEW u \in 1..Len(ps), i < u, ~PathBefore(ps[i], ps[u])
             PROVE  FALSE
  OBVIOUS
<1> DEFINE T == {j \in 1..Len(ps) : i < j /\ ~PathBefore(ps[i], ps[j])}
<1>1. T \subseteq Nat /\ T # {}
  OBVIOUS
<1>2. PICK x \in T : \A y \in T : x <= y
  BY <1>1, LeastNumber
<1>3. x \in 1..Len(ps) /\ i < x /\ ~PathBefore(ps[i], ps[x])
  OBVIOUS
<1>4. x - 1 \in 1..(Len(ps) - 1) /\ x - 1 \notin T /\ (x - 1) + 1 = x
  BY <1>2, <1>3
<1>5. PathBefore(ps[x - 1], ps[x])
  BY <1>4
<1>6. CASE i = x - 1
  BY <1>3, <1>5, <1>6
<1>7. CASE i # x - 1
  <2>1. i < x - 1 /\ x - 1 \in 1..Len(ps)
    BY <1>3, <1>4, <1>7
  <2>2. PathBefore(ps[i], ps[x - 1])
    BY <1>4, <2>1
  <2>3. ps[i] \in Paths /\ ps[x - 1] \in Paths /\ ps[x] \in Paths
    BY <1>3, <2>1
  <2> QED
    BY <1>3, <1>5, <2>2, <2>3, BeforeTransitive
<1> QED
  BY <1>6, <1>7

\* What Negotiate checked before anything is asked for.
Negotiated == context.origin /\ context.bound /\ DescriptorValid(context.descriptor)

Requests == [start : Nat, issued : Nat, expires : Nat, prefix : Nat]

PayloadTypeOK ==
  /\ context \in PayloadContexts
  /\ wall \in Nat /\ tries \in Nat
  /\ sink \in Seq({"good", "bad"})
  /\ asked \in Seq(Requests)

\* The requests of the call, against the prefix written since.
AskedInv ==
  /\ Len(asked) <= tries /\ tries <= MaxAttempts
  /\ \A i \in 1..Len(asked) :
       /\ asked[i].expires <= context.until
       /\ asked[i].expires - asked[i].issued \in 1..Validity
       /\ asked[i].start = asked[i].prefix /\ asked[i].prefix < Size /\ asked[i].start <= Len(sink)
       /\ i > 1 => asked[i - 1].start <= asked[i].start

VerifiedInv ==
  verdict = "verified" =>
    /\ fetch = "over" /\ Negotiated
    /\ Len(sink) = Size
    /\ \A i \in 1..Size : sink[i] = "good"
    /\ wall < context.until

\* PayloadSafe needs where the loop stands: what was negotiated, that the
\* prefix only grows and is short of the artifact when a range is asked for.
PayloadInv ==
  /\ PayloadTypeOK
  /\ AskedInv
  /\ VerifiedInv
  /\ fetch \notin {"negotiate", "over"} => Negotiated
  /\ fetch # "over" => verdict = "none"
  /\ fetch \in {"negotiate", "identity"} => sink = <<>>
  /\ fetch \in {"attempt", "answer"} => Len(sink) < Size
  /\ Len(sink) <= Size

(* Nothing is asked for or written yet.                                    *)
LEMMA PayloadStarts ==
  ASSUME NEW Some, Some \subseteq PayloadContexts, NEW first, first \in {"negotiate", "over"},
         PayloadInit(Some, first)
  PROVE  PayloadInv
<1> USE PayloadAssumption
<1>1. /\ context \in PayloadContexts /\ fetch \in {"negotiate", "over"} /\ wall = 0 /\ tries = 0
      /\ sink = <<>> /\ asked = <<>> /\ verdict = "none"
  BY DEF PayloadInit
<1>2. Len(sink) = 0 /\ Len(asked) = 0
  BY <1>1
<1>3. PayloadTypeOK
  BY <1>1 DEF PayloadTypeOK
<1> QED
  BY <1>1, <1>2, <1>3 DEF PayloadInv, AskedInv, VerifiedInv

(* A step that writes no byte, sends no request and verifies nothing.      *)
LEMMA PayloadTurns ==
  ASSUME PayloadInv, fetch # "over", UNCHANGED <<context, sink, asked, tries>>, wall' \in Nat,
         fetch' # "over" => Negotiated /\ UNCHANGED verdict, verdict' # "verified",
         fetch' \notin {"negotiate", "identity"} \/ fetch \in {"negotiate", "identity"},
         fetch' \in {"attempt", "answer"} => Len(sink) < Size
  PROVE  PayloadInv'
<1>1. PayloadTypeOK'
  BY DEF PayloadInv, PayloadTypeOK
<1>2. AskedInv'
  BY DEF PayloadInv, AskedInv
<1>3. VerifiedInv'
  BY DEF VerifiedInv
<1>4. Negotiated' = Negotiated
  BY DEF Negotiated
<1> QED
  BY <1>1, <1>2, <1>3, <1>4 DEF PayloadInv

(* Every step of the call keeps it.                                        *)
LEMMA PayloadKeeps == PayloadInv /\ [PayloadNext]_payloadVars => PayloadInv'
<1> SUFFICES ASSUME PayloadInv, [PayloadNext]_payloadVars PROVE PayloadInv'
  OBVIOUS
<1> USE PayloadAssumption
<1>0. /\ PayloadTypeOK /\ AskedInv /\ Len(sink) \in Nat /\ Len(asked) \in Nat /\ context.until \in Nat
      /\ wall \in Nat /\ tries \in Nat
  BY DEF PayloadInv, PayloadTypeOK, PayloadContexts
<1>1. CASE UNCHANGED payloadVars
  BY <1>1 DEF payloadVars, PayloadInv, PayloadTypeOK, AskedInv, VerifiedInv, Negotiated
<1>2. CASE Negotiate
  <2>1. /\ fetch = "negotiate" /\ UNCHANGED <<context, sink, asked, tries, wall>>
        /\ \/ Negotiated /\ fetch' = "identity" /\ UNCHANGED verdict
           \/ fetch' = "over" /\ verdict' = "refused"
    BY <1>2 DEF Negotiate, Negotiated, Ended
  <2> QED
    BY <1>0, <2>1, PayloadTurns DEF PayloadInv
<1>3. CASE Identify
  <2>1. /\ fetch = "identity" /\ UNCHANGED <<context, sink, asked, tries, wall>>
        /\ \/ fetch' = "attempt" /\ UNCHANGED verdict
           \/ fetch' = "over" /\ verdict' = "binding"
    BY <1>3 DEF Identify, Ended
  <2>2. Negotiated /\ Len(sink) < Size /\ verdict = "none"
    BY <2>1 DEF PayloadInv
  <2> QED
    BY <1>0, <2>1, <2>2, PayloadTurns
<1>4. CASE Ask
  <2>1. fetch = "attempt" /\ UNCHANGED <<context, sink>>
    BY <1>4 DEF Ask
  <2>2. Negotiated /\ Len(sink) < Size /\ verdict = "none"
    BY <2>1 DEF PayloadInv
  <2>3. CASE tries = MaxAttempts \/ spent >= MaxElapsed \/ wall >= context.until
    <3>1. /\ UNCHANGED <<asked, tries, wall>> /\ fetch' = "over"
          /\ verdict' \in {"incomplete", "expired"}
      BY <1>4, <2>3 DEF Ask, Ended
    <3> QED
      BY <1>0, <2>1, <3>1, PayloadTurns
  <2>4. CASE ~(tries = MaxAttempts \/ spent >= MaxElapsed \/ wall >= context.until)
    <3>1. /\ request' = RequestAt(Len(sink), wall) /\ tries' = tries + 1 /\ Takes(1)
          /\ \/ /\ TransportOK(request', wall') = "ok" /\ asked' = Append(asked, request')
                /\ fetch' = "answer" /\ UNCHANGED verdict
             \/ fetch' = "over" /\ verdict' = TransportOK(request', wall') /\ UNCHANGED asked
      BY <1>4, <2>4 DEF Ask, Ended
    <3>2. wall' \in Nat
      BY <3>1 DEF Takes, WallClock
    <3>3. /\ request' \in Requests /\ request'.start = Len(sink) /\ request'.prefix = Len(sink)
          /\ request'.expires <= context.until
          /\ request'.expires <= wall + Validity /\ request'.issued = wall
      BY <1>0, <3>1 DEF RequestAt, Requests
    <3>4. tries' \in Nat /\ tries' <= MaxAttempts /\ Len(asked) <= tries
      BY <1>0, <2>4, <3>1 DEF AskedInv
    <3>5. CASE /\ TransportOK(request', wall') = "ok" /\ asked' = Append(asked, request')
               /\ fetch' = "answer" /\ UNCHANGED verdict
      <4>1. request'.expires - request'.issued \in 1..Validity
        <5>1. ~(wall' < request'.issued) /\ ~(wall' >= request'.expires)
          BY <3>5 DEF TransportOK
        <5>2. request'.issued \in Nat /\ request'.expires \in Nat
          BY <3>3 DEF Requests
        <5> QED
          BY <1>0, <3>2, <3>3, <5>1, <5>2
      <4>2. /\ asked' \in Seq(Requests) /\ Len(asked') = Len(asked) + 1
            /\ \A i \in 1..Len(asked) : asked'[i] = asked[i]
            /\ asked'[Len(asked) + 1] = request'
        BY <1>0, <3>3, <3>5 DEF PayloadTypeOK
      <4>3. PayloadTypeOK'
        BY <1>0, <2>1, <3>2, <3>4, <4>2 DEF PayloadTypeOK
      <4>4. ASSUME NEW i \in 1..Len(asked')
            PROVE  /\ asked'[i].expires <= context'.until
                   /\ asked'[i].expires - asked'[i].issued \in 1..Validity
                   /\ asked'[i].start = asked'[i].prefix /\ asked'[i].prefix < Size
                   /\ asked'[i].start <= Len(sink')
                   /\ i > 1 => asked'[i - 1].start <= asked'[i].start
        <5>1. CASE i \in 1..Len(asked)
          <6>1. i > 1 => i - 1 \in 1..Len(asked)
            BY <1>0, <5>1
          <6> QED
            BY <1>0, <2>1, <4>2, <5>1, <6>1 DEF AskedInv
        <5>2. CASE i = Len(asked) + 1
          <6>1. asked'[i] = request'
            BY <4>2, <5>2
          <6>2. i > 1 => i - 1 \in 1..Len(asked) /\ asked'[i - 1] = asked[i - 1]
            BY <1>0, <4>2, <5>2
          <6>3. i > 1 => asked[i - 1].start <= Len(sink)
            BY <1>0, <6>2 DEF AskedInv
          <6> QED
            BY <2>1, <2>2, <3>3, <4>1, <6>1, <6>2, <6>3
        <5> QED
          BY <1>0, <4>2, <5>1, <5>2
      <4>5. AskedInv'
        <5>1. Len(asked') <= tries' /\ tries' <= MaxAttempts
          BY <1>0, <3>1, <3>4, <4>2
        <5> QED
          BY <4>4, <5>1 DEF AskedInv
      <4>6. Negotiated' = Negotiated
        BY <2>1 DEF Negotiated
      <4> QED
        BY <2>1, <2>2, <3>5, <4>3, <4>5, <4>6 DEF PayloadInv, VerifiedInv
    <3>6. CASE fetch' = "over" /\ verdict' = TransportOK(request', wall') /\ UNCHANGED asked
      <4>1. verdict' # "verified"
        BY <3>6 DEF TransportOK
      <4>2. PayloadTypeOK'
        BY <1>0, <2>1, <3>2, <3>4, <3>6 DEF PayloadTypeOK
      <4>3. AskedInv'
        <5>1. Len(asked') <= tries' /\ tries' <= MaxAttempts
          BY <1>0, <3>1, <3>4, <3>6
        <5> QED
          BY <1>0, <2>1, <3>6, <5>1 DEF AskedInv
      <4> QED
        BY <2>1, <3>6, <4>1, <4>2, <4>3 DEF PayloadInv, VerifiedInv
    <3> QED
      BY <3>1, <3>5, <3>6
  <2> QED
    BY <2>3, <2>4
<1>5. CASE Answer
  <2>1. /\ fetch = "answer" /\ UNCHANGED <<context, sink, asked, tries>>
        /\ \/ fetch' \in {"attempt", "read"} /\ UNCHANGED verdict
           \/ fetch' = "over" /\ verdict' \in {"refused", "response"}
    BY <1>5 DEF Answer, Ended
  <2>2. wall' \in Nat
    BY <1>5 DEF Answer, Takes, WallClock
  <2>3. Negotiated /\ Len(sink) < Size /\ verdict = "none"
    BY <2>1 DEF PayloadInv
  <2> QED
    BY <2>1, <2>2, <2>3, PayloadTurns
<1>6. CASE Read
  <2>1. fetch = "read" /\ Len(sink) < Size /\ UNCHANGED <<context, tries, request, asked>>
    BY <1>6 DEF Read
  <2>2. Negotiated /\ verdict = "none"
    BY <2>1 DEF PayloadInv
  <2>3. wall' \in Nat
    BY <1>0, <1>6 DEF Read, Takes, WallClock
  <2>4. \/ UNCHANGED sink /\ fetch' = "attempt" /\ UNCHANGED verdict
        \/ UNCHANGED sink /\ fetch' = "over"
             /\ verdict' \in {"expired", "not_yet_valid", "incomplete", "write"}
        \/ \E b \in {"good", "bad"} : sink' = Append(sink, b) /\ UNCHANGED <<fetch, verdict>>
    BY <1>6 DEF Read, Ended, NextBytes
  <2>5. CASE UNCHANGED sink
    <3>1. \/ fetch' = "attempt" /\ UNCHANGED verdict
          \/ fetch' = "over" /\ verdict' \in {"expired", "not_yet_valid", "incomplete", "write"}
          \/ UNCHANGED <<fetch, verdict>>
      BY <2>4
    <3> QED
      BY <2>1, <2>2, <2>3, <2>5, <3>1, PayloadTurns
  <2>6. ASSUME NEW b \in {"good", "bad"}, sink' = Append(sink, b), UNCHANGED <<fetch, verdict>>
        PROVE  PayloadInv'
    <3>1. sink' \in Seq({"good", "bad"}) /\ Len(sink') = Len(sink) + 1
      BY <1>0, <2>6 DEF PayloadTypeOK
    <3>2. PayloadTypeOK'
      BY <1>0, <2>1, <2>3, <3>1 DEF PayloadTypeOK
    <3>3. ASSUME NEW i \in 1..Len(asked), asked[i].start <= Len(sink)
          PROVE  asked[i].start <= Len(sink')
      <4>1. asked[i] \in Requests
        BY <1>0 DEF PayloadTypeOK
      <4>2. asked[i].start \in Nat
        BY <4>1 DEF Requests
      <4> QED
        BY <1>0, <3>1, <3>3, <4>2
    <3>4. AskedInv'
      BY <1>0, <2>1, <3>3 DEF AskedInv
    <3>5. Len(sink') <= Size /\ Negotiated' = Negotiated
      BY <1>0, <2>1, <3>1 DEF Negotiated
    <3> QED
      BY <2>1, <2>2, <2>6, <3>2, <3>4, <3>5 DEF PayloadInv, VerifiedInv
  <2> QED
    BY <2>4, <2>5, <2>6
<1>7. CASE Finish
  <2>1. fetch = "read" /\ Len(sink) = Size /\ UNCHANGED <<context, wall, tries, sink, asked>>
    BY <1>7 DEF Finish
  <2>2. Negotiated
    BY <2>1 DEF PayloadInv
  <2>3. /\ fetch' = "over"
        /\ verdict' = "verified" => wall < context.until /\ ~\E i \in 1..Size : sink[i] = "bad"
    <3>1. PICK tail \in {"end", "more", "error", "unflushed"} :
            IF tail = "more" THEN Ended("response")
            ELSE IF tail = "error" THEN Ended("incomplete")
            ELSE IF wall >= context.until THEN Ended("expired")
            ELSE IF TransportOK(request, wall) = "not_yet_valid" THEN Ended("not_yet_valid")
            ELSE IF \E i \in 1..Size : sink[i] = "bad" THEN Ended("integrity")
            ELSE Ended(IF tail = "unflushed" THEN "write" ELSE "verified")
      BY <1>7 DEF Finish
    <3>2. CASE tail \in {"more", "error"} \/ wall >= context.until
               \/ TransportOK(request, wall) = "not_yet_valid" \/ \E i \in 1..Size : sink[i] = "bad"
      BY <3>1, <3>2 DEF Ended
    <3>3. CASE /\ ~(wall >= context.until)
               /\ ~\E i \in 1..Size : sink[i] = "bad"
      <4>1. wall < context.until
        BY <1>0, <3>3
      <4>2. fetch' = "over"
        BY <3>1 DEF Ended
      <4> QED
        BY <3>3, <4>1, <4>2
    <3> QED
      BY <3>2, <3>3
  <2>4. \A i \in 1..Size : sink[i] \in {"good", "bad"}
    BY <1>0, <2>1 DEF PayloadTypeOK
  <2>5. VerifiedInv'
    BY <2>1, <2>2, <2>3, <2>4 DEF VerifiedInv, Negotiated
  <2>6. PayloadTypeOK' /\ AskedInv'
    BY <1>0, <2>1 DEF PayloadTypeOK, AskedInv
  <2> QED
    BY <2>1, <2>3, <2>5, <2>6 DEF PayloadInv
<1>8. CASE CallFails
  <2>1. /\ fetch # "over" /\ fetch' = "over" /\ verdict' = "runtime"
        /\ UNCHANGED <<context, wall, tries, sink, asked>>
    BY <1>8 DEF CallFails, Ended
  <2> QED
    BY <1>0, <2>1, PayloadTurns
<1> QED
  BY <1>1, <1>2, <1>3, <1>4, <1>5, <1>6, <1>7, <1>8 DEF PayloadNext

(* CargoPayloadDescriptorV1::validate compares neighbours only, yet no two *)
(* entries of a valid inventory have one path.                             *)
LEMMA EntriesDistinct ==
  ASSUME NEW c \in PayloadContexts, DescriptorValid(c.descriptor)
  PROVE  \A i, j \in 1..Len(c.descriptor.entries) :
           i # j => c.descriptor.entries[i].path # c.descriptor.entries[j].path
<1>1. PICK es : es = c.descriptor.entries
  OBVIOUS
<1>2. es \in Seq([path : Paths, file : BOOLEAN, exec : BOOLEAN]) /\ Len(es) \in Nat
  BY <1>1 DEF PayloadContexts
<1>3. \A i \in 1..(Len(es) - 1) : PathBefore(es[i].path, es[i + 1].path)
  BY <1>1 DEF DescriptorValid
<1>4. PICK ps : ps = [i \in 1..Len(es) |-> es[i].path]
  OBVIOUS
<1>5. \A i \in 1..Len(es) : es[i].path \in Paths
  <2> TAKE i \in 1..Len(es)
  <2>1. es[i] \in [path : Paths, file : BOOLEAN, exec : BOOLEAN]
    BY <1>2, Element
  <2> QED
    BY <2>1
<1>6. ps \in Seq(Paths) /\ Len(ps) = Len(es) /\ \A i \in 1..Len(es) : ps[i] = es[i].path
  BY <1>2, <1>4, <1>5
<1>7. \A i \in 1..(Len(ps) - 1) : PathBefore(ps[i], ps[i + 1])
  BY <1>2, <1>3, <1>6
<1>8. \A i, j \in 1..Len(ps) : i < j => PathBefore(ps[i], ps[j])
  BY <1>6, <1>7, InventoryOrdered
<1>9. ASSUME NEW i \in 1..Len(es), NEW j \in 1..Len(es), i < j
      PROVE  es[i].path # es[j].path
  BY <1>5, <1>6, <1>8, <1>9, BeforeStrict
<1>10. ASSUME NEW i \in 1..Len(es), NEW j \in 1..Len(es), i # j
       PROVE  es[i].path # es[j].path
  <2>1. i < j \/ j < i
    BY <1>2, <1>10
  <2> QED
    BY <1>9, <2>1
<1> QED
  BY <1>1, <1>10

(* A valid descriptor has no file that is a directory of another entry,    *)
(* and only executable entry points.                                       *)
LEMMA EntriesSound ==
  ASSUME NEW d, DescriptorValid(d)
  PROVE  /\ \A i, j \in 1..Len(d.entries) :
              d.entries[i].file => d.entries[i].path \notin ImplicitDirectories(d.entries[j].path)
         /\ \A n \in 1..Len(d.entrypoints) :
              \E i \in 1..Len(d.entries) : d.entries[i].path = d.entrypoints[n] /\ d.entries[i].exec
<1>1. ASSUME NEW i \in 1..Len(d.entries), NEW j \in 1..Len(d.entries), d.entries[i].file
      PROVE  d.entries[i].path \notin ImplicitDirectories(d.entries[j].path)
  <2>1. PICK files : /\ files = {d.entries[n].path : n \in {m \in 1..Len(d.entries) : d.entries[m].file}}
                     /\ ImplicitDirectories(d.entries[j].path) \cap files = {}
    BY DEF DescriptorValid
  <2>2. d.entries[i].path \in files
    BY <1>1, <2>1
  <2> QED
    BY <2>1, <2>2
<1>2. ASSUME NEW n \in 1..Len(d.entrypoints)
      PROVE  \E i \in 1..Len(d.entries) : d.entries[i].path = d.entrypoints[n] /\ d.entries[i].exec
  BY DEF DescriptorValid
<1> QED
  BY <1>1, <1>2

(* The invariant says that a verified payload is what was asked for.       *)
LEMMA PayloadInvSafe == PayloadInv => PayloadSafe
<1> SUFFICES ASSUME PayloadInv PROVE PayloadSafe
  OBVIOUS
<1>1. AskedInv /\ VerifiedInv /\ context \in PayloadContexts
  BY DEF PayloadInv, PayloadTypeOK
<1>2. Negotiated =>
        LET es == context.descriptor.entries IN
        /\ \A i, j \in 1..Len(es) : i # j => es[i].path # es[j].path
        /\ \A i, j \in 1..Len(es) : es[i].file => es[i].path \notin ImplicitDirectories(es[j].path)
        /\ \A n \in 1..Len(context.descriptor.entrypoints) :
             \E i \in 1..Len(es) : es[i].path = context.descriptor.entrypoints[n] /\ es[i].exec
  BY <1>1, EntriesDistinct, EntriesSound DEF Negotiated
<1> QED
  BY <1>1, <1>2 DEF AskedInv, VerifiedInv, Negotiated, PayloadSafe

(* A step of the jobs is, for the download, a step of its or nothing.      *)
LEMMA DownloadMoves == [WorkersNext]_workerVars => [PayloadNext]_payloadVars
  BY DEF WorkersNext, workerVars

(* For every artifact, budget, validity and descriptor, and whatever the   *)
(* server, the network and the clock do, download_payload verifies only    *)
(* the artifact's own bytes under a held authorization, and every request  *)
(* asks, within its validity, for the bytes from where the prefix ends.    *)
THEOREM PayloadIsSafe == WorkersSpec => []PayloadSafe
<1>1. WorkersInit => PayloadInv
  <2> SUFFICES ASSUME WorkersInit PROVE PayloadInv
    OBVIOUS
  <2>1. CASE follows = "payload"
    <3>1. PayloadInit(Contexts, "negotiate")
      BY <2>1 DEF WorkersInit
    <3> QED
      BY <3>1, PayloadStarts, JobsAssumption
  <2>2. CASE follows # "payload"
    <3>1. PICK Some : Some = {CHOOSE c \in Contexts : TRUE}
      OBVIOUS
    <3>2. PayloadInit(Some, "over")
      BY <2>2, <3>1 DEF WorkersInit
    <3>3. Some \subseteq PayloadContexts
      BY <3>1, JobsAssumption
    <3> QED
      BY <3>2, <3>3, PayloadStarts
  <2> QED
    BY <2>1, <2>2
<1>2. PayloadInv /\ [WorkersNext]_workerVars => PayloadInv'
  BY DownloadMoves, PayloadKeeps
<1> QED
  BY <1>1, <1>2, PayloadInvSafe, PTL DEF WorkersSpec
-----------------------------------------------------------------------------
(* StateSnapshot.                                                          *)

Chunks == [declared : {1, 2}, size : {1, 2}, body : {"x", "y"}]
Manifests ==
  [sequence : Nat, prev : Nat, lineage : Lineages, chunks : Seq(Chunks), signer : Keys]

SnapshotTypeOK ==
  /\ source \in [Files -> Contents]
  /\ manifests \in Seq(Manifests)
  /\ writer \in [at : {"idle", "read", "store"}, lineage : Lineages, prev : 0..Len(manifests),
                 seen : [Files -> {1, 2}] \cup {<<>>}, chunks : Seq(Chunks)]
  /\ reader \in [at : {"idle", "check", "extract"}, manifest : Nat, altered : BOOLEAN, head : Nat,
                 next : Nat \ {0}]
  /\ staging \in [there : BOOLEAN, chunks : Seq(Chunks)]
  /\ restored \in [manifest : Nat, head : Nat, files : Seq(Chunks)]

\* Chunks whose header says what was read.
Exact(cs) == \A i \in 1..Len(cs) : cs[i].declared = cs[i].size

\* What was written: the chunks at hand, and every manifest a whole one.
WriterInv == Len(writer.chunks) <= 2 /\ Exact(writer.chunks)
ManifestsInv ==
  \A k \in 1..Len(manifests) : Len(manifests[k].chunks) = 2 /\ Exact(manifests[k].chunks)

\* A manifest of the trusted key that follows the head the reader trusts.
Trusted(k, h) ==
  /\ k \in 1..Len(manifests) /\ h \in 0..Len(manifests)
  /\ manifests[k].signer = "trusted"
  /\ h # 0 => manifests[k].prev = h /\ manifests[k].lineage = manifests[h].lineage

\* The sibling directory holds the chunks before the next one.
Unpacked ==
  /\ Len(staging.chunks) = reader.next - 1
  /\ Len(staging.chunks) <= Len(ChunksOf(reader.manifest))
  /\ \A i \in 1..Len(staging.chunks) : staging.chunks[i] = ChunksOf(reader.manifest)[i]

ReaderInv ==
  /\ reader.at # "idle" => Trusted(reader.manifest, reader.head)
  /\ reader.at = "check" => reader.next = 1
  /\ reader.at = "extract" => Unpacked

TargetInv ==
  /\ target = "restored" =>
       Trusted(restored.manifest, restored.head) /\ restored.files = ChunksOf(restored.manifest)
  /\ target # "restored" => restored = Nothing

\* SnapshotSafe speaks of what lies at the target; it needs what the writer
\* and the reader hold on the way there.
SnapshotInv ==
  SnapshotTypeOK /\ WriterInv /\ ManifestsInv /\ ReaderInv /\ TargetInv

(* The records the processes rest in are typed.                            *)
LEMMA RestingTyped ==
  /\ \A n \in Nat : Idle \in [at : {"idle", "read", "store"}, lineage : Lineages, prev : 0..n,
                              seen : [Files -> {1, 2}] \cup {<<>>}, chunks : Seq(Chunks)]
  /\ Resting \in [at : {"idle", "check", "extract"}, manifest : Nat, altered : BOOLEAN, head : Nat,
                  next : Nat \ {0}]
  /\ NoDirectory \in [there : BOOLEAN, chunks : Seq(Chunks)]
  /\ Nothing \in [manifest : Nat, head : Nat, files : Seq(Chunks)]
<1>1. <<>> \in Seq(Chunks)
  OBVIOUS
<1> QED
  BY <1>1 DEF Idle, Resting, NoDirectory, Nothing, Lineages

(* An earlier job left two whole manifests, or none.                       *)
LEMMA SnapshotStarts == SnapshotInit => SnapshotInv
<1> SUFFICES ASSUME SnapshotInit PROVE SnapshotInv
  OBVIOUS
<1>1. /\ writer = Idle /\ reader = Resting /\ staging = NoDirectory /\ restored = Nothing
      /\ target # "restored" /\ source \in [Files -> Contents]
  BY DEF SnapshotInit, Contents
<1>2. OldChunk \in Chunks /\ OldChunk.declared = OldChunk.size
  BY DEF OldChunk, Chunks
<1>3. PICK cs : cs = <<OldChunk, OldChunk>>
  OBVIOUS
<1>4. cs \in Seq(Chunks) /\ Len(cs) = 2 /\ cs[1] = OldChunk /\ cs[2] = OldChunk
  BY <1>2, <1>3
<1>5. Exact(cs)
  BY <1>2, <1>4 DEF Exact
<1>6. OldManifest \in Manifests /\ OldManifest.chunks = cs
  BY <1>3, <1>4 DEF OldManifest, Manifests, Lineages, Keys
<1>7. manifests = <<>> \/ manifests = <<OldManifest, OldManifest>>
  BY DEF SnapshotInit
<1>8. manifests \in Seq(Manifests) /\ \A k \in 1..Len(manifests) : manifests[k] = OldManifest
  <2>1. CASE manifests = <<>>
    BY <2>1
  <2>2. CASE manifests = <<OldManifest, OldManifest>>
    <3>1. PICK m \in Manifests : m = OldManifest
      BY <1>6
    <3>2. manifests = <<m, m>>
      BY <2>2, <3>1
    <3>3. manifests \in Seq(Manifests) /\ Len(manifests) = 2 /\ manifests[1] = m /\ manifests[2] = m
      BY <3>2
    <3> QED
      BY <3>1, <3>3
  <2> QED
    BY <1>7, <2>1, <2>2
<1>9. ManifestsInv
  BY <1>4, <1>5, <1>6, <1>8 DEF ManifestsInv
<1>10. SnapshotTypeOK
  BY <1>1, <1>8, RestingTyped DEF SnapshotTypeOK
<1>11. WriterInv
  BY <1>1 DEF WriterInv, Idle, Exact
<1>12. ReaderInv
  BY <1>1 DEF ReaderInv, Resting
<1>13. TargetInv
  BY <1>1 DEF TargetInv
<1> QED
  BY <1>9, <1>10, <1>11, <1>12, <1>13 DEF SnapshotInv

(* A manifest added at the end leaves the trusted ones as they are.        *)
LEMMA TrustKept ==
  ASSUME manifests \in Seq(Manifests), NEW m \in Manifests, manifests' = Append(manifests, m),
         NEW k, NEW h, Trusted(k, h)
  PROVE  /\ Len(manifests') = Len(manifests) + 1
         /\ \A i \in 1..Len(manifests) : manifests'[i] = manifests[i]
         /\ k \in 1..Len(manifests') /\ h \in 0..Len(manifests')
         /\ manifests'[k].signer = "trusted"
         /\ h # 0 => manifests'[k].prev = h /\ manifests'[k].lineage = manifests'[h].lineage
         /\ manifests'[k] = manifests[k]
<1>1. /\ Len(manifests') = Len(manifests) + 1 /\ Len(manifests) \in Nat
      /\ \A i \in 1..Len(manifests) : manifests'[i] = manifests[i]
  OBVIOUS
<1>2. k \in 1..Len(manifests) /\ h \in 0..Len(manifests)
  BY DEF Trusted
<1>3. k \in 1..Len(manifests') /\ h \in 0..Len(manifests') /\ (h # 0 => h \in 1..Len(manifests))
  BY <1>1, <1>2
<1> QED
  BY <1>1, <1>2, <1>3 DEF Trusted

(* A step that makes no manifest and leaves the reader and the target      *)
(* alone keeps their part.                                                 *)
LEMMA ReaderRests ==
  ASSUME SnapshotInv, UNCHANGED <<manifests, reader, staging, target, restored>>
  PROVE  ManifestsInv' /\ ReaderInv' /\ TargetInv'
  BY DEF SnapshotInv, ManifestsInv, ReaderInv, TargetInv, Trusted, Unpacked, ChunksOf, Exact

(* The chunks at hand stay exact, whatever was written to the source.      *)
LEMMA WriterKeeps ==
  ASSUME SnapshotInv, WriteStart \/ ArchiveFile \/ StoreChunk
  PROVE  SnapshotInv'
<1>0. /\ SnapshotTypeOK /\ WriterInv
      /\ writer \in [at : {"idle", "read", "store"}, lineage : Lineages, prev : 0..Len(manifests),
                     seen : [Files -> {1, 2}] \cup {<<>>}, chunks : Seq(Chunks)]
      /\ Len(manifests) \in Nat /\ source \in [Files -> Contents]
  BY DEF SnapshotInv, SnapshotTypeOK
<1>1. UNCHANGED <<source, manifests, reader, staging, target, restored>>
  BY DEF WriteStart, ArchiveFile, StoreChunk
<1>2. ManifestsInv' /\ ReaderInv' /\ TargetInv'
  BY <1>1, ReaderRests
<1>3. ASSUME writer' \in [at : {"idle", "read", "store"}, lineage : Lineages, prev : 0..Len(manifests),
                          seen : [Files -> {1, 2}] \cup {<<>>}, chunks : Seq(Chunks)],
             WriterInv'
      PROVE  SnapshotInv'
  BY <1>0, <1>1, <1>2, <1>3 DEF SnapshotInv, SnapshotTypeOK
<1>4. CASE writer' = Idle
  <2>1. WriterInv'
    BY <1>4 DEF WriterInv, Idle, Exact
  <2> QED
    BY <1>0, <1>3, <1>4, <2>1, RestingTyped
<1>5. \A f \in Files : source[f].size \in {1, 2} /\ source[f].body \in {"x", "y"}
  BY <1>0 DEF Contents
<1>6. CASE WriteStart
  <2>1. PICK prev \in 0..Len(manifests), lineage \in Lineages :
          writer' = [at |-> "read", lineage |-> lineage, prev |-> prev,
                     seen |-> [f \in Files |-> source[f].size], chunks |-> <<>>]
    BY <1>6 DEF WriteStart
  <2>2. [f \in Files |-> source[f].size] \in [Files -> {1, 2}] /\ <<>> \in Seq(Chunks)
    BY <1>5
  <2>3. WriterInv'
    BY <2>1 DEF WriterInv, Exact
  <2> QED
    BY <1>3, <2>1, <2>2, <2>3
<1>7. CASE ArchiveFile /\ writer' # Idle
  <2>1. PICK f \in Files : f = NextFile
    BY <1>7 DEF ArchiveFile
  <2>2. PICK c : c = [declared |-> writer.seen[f], size |-> source[f].size, body |-> source[f].body]
    OBVIOUS
  <2>3. /\ source[f].size = writer.seen[f] /\ Len(writer.chunks) + 1 \in Files
        /\ writer' = [writer EXCEPT !.at = "store", !.chunks = Append(@, c)]
    BY <1>7, <2>1, <2>2 DEF ArchiveFile, NextFile
  <2>4. c \in Chunks /\ c.declared = c.size
    BY <1>5, <2>2, <2>3 DEF Chunks
  <2>5. PICK cs \in Seq(Chunks) : cs = writer.chunks /\ Exact(cs)
    BY <1>0 DEF WriterInv
  <2>6. /\ Append(cs, c) \in Seq(Chunks) /\ Len(Append(cs, c)) = Len(cs) + 1 /\ Len(cs) \in Nat
        /\ \A i \in 1..Len(cs) : Append(cs, c)[i] = cs[i]
        /\ Append(cs, c)[Len(cs) + 1] = c
    BY <2>4
  <2>7. Exact(Append(cs, c))
    BY <2>4, <2>5, <2>6 DEF Exact
  <2>8. writer' = [writer EXCEPT !.at = "store", !.chunks = Append(cs, c)]
    BY <2>3, <2>5
  <2>9. writer'.chunks = Append(cs, c) /\ Len(Append(cs, c)) <= 2
    BY <1>0, <2>3, <2>5, <2>6, <2>8 DEF Files
  <2>10. WriterInv'
    BY <2>7, <2>9 DEF WriterInv
  <2> QED
    BY <1>0, <1>3, <2>6, <2>8, <2>10
<1>8. CASE StoreChunk /\ writer' # Idle
  <2>1. writer' = [writer EXCEPT !.at = "read"]
    BY <1>8 DEF StoreChunk
  <2>2. writer'.chunks = writer.chunks
    BY <1>0, <2>1
  <2> QED
    BY <1>0, <1>3, <2>1, <2>2 DEF WriterInv
<1> QED
  BY <1>4, <1>6, <1>7, <1>8

(* A manifest that is signed is a whole one.                               *)
LEMMA SignKeeps ==
  ASSUME SnapshotInv, SignManifest
  PROVE  SnapshotInv'
<1>0. /\ SnapshotTypeOK /\ WriterInv /\ ManifestsInv /\ ReaderInv /\ TargetInv
      /\ writer \in [at : {"idle", "read", "store"}, lineage : Lineages, prev : 0..Len(manifests),
                     seen : [Files -> {1, 2}] \cup {<<>>}, chunks : Seq(Chunks)]
      /\ manifests \in Seq(Manifests) /\ Len(manifests) \in Nat
  BY DEF SnapshotInv, SnapshotTypeOK
<1>1. writer' = Idle /\ UNCHANGED <<source, reader, staging, target, restored>>
  BY DEF SignManifest
<1>2. WriterInv'
  BY <1>1 DEF WriterInv, Idle, Exact
<1>3. CASE UNCHANGED manifests
  <2>1. ManifestsInv' /\ ReaderInv' /\ TargetInv'
    BY <1>1, <1>3, ReaderRests
  <2>2. SnapshotTypeOK'
    BY <1>0, <1>1, <1>3, RestingTyped DEF SnapshotTypeOK
  <2> QED
    BY <1>2, <2>1, <2>2 DEF SnapshotInv
<1>4. ASSUME NEW key \in Keys,
             manifests' = Append(manifests,
                            [sequence |-> Sequence(writer.prev), prev |-> writer.prev,
                             lineage |-> writer.lineage, chunks |-> writer.chunks, signer |-> key])
      PROVE  SnapshotInv'
  <2>1. Sequence(writer.prev) \in Nat
    <3>1. CASE writer.prev = 0
      BY <3>1 DEF Sequence
    <3>2. CASE writer.prev # 0
      <4>1. PICK p : p = writer.prev
        OBVIOUS
      <4>2. p \in 1..Len(manifests)
        BY <1>0, <3>2, <4>1
      <4>3. manifests[p] \in Manifests
        BY <1>0, <4>2, Element
      <4>4. manifests[p].sequence \in Nat
        BY <4>3 DEF Manifests
      <4> QED
        BY <3>2, <4>1, <4>4 DEF Sequence
    <3> QED
      BY <3>1, <3>2
  <2>2. PICK m : m = [sequence |-> Sequence(writer.prev), prev |-> writer.prev,
                      lineage |-> writer.lineage, chunks |-> writer.chunks, signer |-> key]
    OBVIOUS
  <2>3. m \in Manifests /\ m.chunks = writer.chunks
    BY <1>0, <2>1, <2>2 DEF Manifests
  <2>4. Len(m.chunks) = 2 /\ Exact(m.chunks)
    <3>1. Len(writer.chunks) \in Nat /\ Len(writer.chunks) <= 2 /\ Exact(writer.chunks)
      BY <1>0 DEF WriterInv
    <3>2. Len(writer.chunks) + 1 \notin 1..2
      BY DEF SignManifest, NextFile, Files
    <3>3. PICK n \in Nat : n = Len(writer.chunks)
      BY <3>1
    <3>4. n <= 2 /\ n + 1 \notin 1..2
      BY <3>1, <3>2, <3>3
    <3>5. n = 2
      BY <3>4
    <3> QED
      BY <2>3, <3>1, <3>3, <3>5
  <2>5. manifests' = Append(manifests, m)
    BY <1>4, <2>2
  <2>6. /\ manifests' \in Seq(Manifests) /\ Len(manifests') = Len(manifests) + 1
        /\ \A i \in 1..Len(manifests) : manifests'[i] = manifests[i]
        /\ manifests'[Len(manifests) + 1] = m
    BY <1>0, <2>3, <2>5
  <2>7. ManifestsInv'
    <3>1. ASSUME NEW k \in 1..Len(manifests')
          PROVE  Len(manifests'[k].chunks) = 2 /\ Exact(manifests'[k].chunks)
      <4>1. CASE k \in 1..Len(manifests)
        BY <1>0, <2>6, <4>1 DEF ManifestsInv
      <4>2. CASE k = Len(manifests) + 1
        BY <2>4, <2>6, <4>2
      <4> QED
        BY <1>0, <2>6, <4>1, <4>2
    <3> QED
      BY <3>1 DEF ManifestsInv, Exact
  <2>8. SnapshotTypeOK'
    <3>1. Len(manifests') \in Nat
      BY <1>0, <2>6
    <3> QED
      BY <1>0, <1>1, <2>6, <3>1, RestingTyped DEF SnapshotTypeOK
  <2>9. ReaderInv'
    <3>1. PICK k, h : k = reader.manifest /\ h = reader.head
      OBVIOUS
    <3>2. CASE reader.at = "idle"
      BY <1>1, <3>2 DEF ReaderInv
    <3>3. CASE reader.at # "idle"
      <4>1. Trusted(k, h)
        BY <1>0, <3>1, <3>3 DEF ReaderInv
      <4>2. Trusted(reader.manifest, reader.head)'
        BY <1>0, <1>1, <2>3, <2>5, <3>1, <4>1, TrustKept DEF Trusted
      <4>3. manifests'[k] = manifests[k]
        BY <1>0, <2>3, <2>5, <4>1, TrustKept
      <4>4. Unpacked => Unpacked'
        BY <1>1, <3>1, <4>3 DEF Unpacked, ChunksOf
      <4> QED
        BY <1>0, <1>1, <4>2, <4>4 DEF ReaderInv
    <3> QED
      BY <3>2, <3>3
  <2>10. TargetInv'
    <3>1. PICK k, h : k = restored.manifest /\ h = restored.head
      OBVIOUS
    <3>2. CASE target # "restored"
      BY <1>0, <1>1, <3>2 DEF TargetInv
    <3>3. CASE target = "restored"
      <4>1. Trusted(k, h)
        BY <1>0, <3>1, <3>3 DEF TargetInv
      <4>2. Trusted(restored.manifest, restored.head)'
        BY <1>0, <1>1, <2>3, <2>5, <3>1, <4>1, TrustKept DEF Trusted
      <4>3. manifests'[k] = manifests[k]
        BY <1>0, <2>3, <2>5, <4>1, TrustKept
      <4>4. ChunksOf(restored.manifest)' = ChunksOf(restored.manifest)
        BY <1>1, <3>1, <4>3 DEF ChunksOf
      <4> QED
        BY <1>0, <1>1, <3>3, <4>2, <4>4 DEF TargetInv
    <3> QED
      BY <3>2, <3>3
  <2> QED
    BY <1>2, <2>7, <2>8, <2>9, <2>10 DEF SnapshotInv
<1> QED
  BY <1>3, <1>4 DEF SignManifest

(* The restore unpacks the chunks of a trusted manifest, one after the     *)
(* other, and puts all of them in place or none.                           *)
LEMMA RestoreKeeps ==
  ASSUME SnapshotInv, RestoreStart \/ RestoreSteps
  PROVE  SnapshotInv'
<1>0. /\ SnapshotTypeOK /\ WriterInv /\ ManifestsInv /\ ReaderInv /\ TargetInv
      /\ reader \in [at : {"idle", "check", "extract"}, manifest : Nat, altered : BOOLEAN, head : Nat,
                     next : Nat \ {0}]
      /\ staging \in [there : BOOLEAN, chunks : Seq(Chunks)]
      /\ manifests \in Seq(Manifests) /\ Len(manifests) \in Nat
  BY DEF SnapshotInv, SnapshotTypeOK
<1>1. UNCHANGED <<source, manifests, writer>>
  BY DEF RestoreStart, RestoreSteps, CheckObjects, ExtractChunk, RenameIntoPlace
<1>2. WriterInv' /\ ManifestsInv'
  BY <1>0, <1>1 DEF WriterInv, ManifestsInv, Exact
<1>3. ASSUME reader' \in [at : {"idle", "check", "extract"}, manifest : Nat, altered : BOOLEAN,
                          head : Nat, next : Nat \ {0}],
             staging' \in [there : BOOLEAN, chunks : Seq(Chunks)],
             UNCHANGED <<target, restored>>, ReaderInv'
      PROVE  SnapshotInv'
  <2>1. SnapshotTypeOK'
    BY <1>0, <1>1, <1>3 DEF SnapshotTypeOK
  <2>2. TargetInv'
    BY <1>0, <1>1, <1>3 DEF TargetInv, Trusted, ChunksOf
  <2> QED
    BY <1>2, <1>3, <2>1, <2>2 DEF SnapshotInv
<1>4. CASE reader' = Resting /\ staging' \in {staging, NoDirectory} /\ UNCHANGED <<target, restored>>
  <2>1. ReaderInv'
    BY <1>4 DEF ReaderInv, Resting
  <2> QED
    BY <1>0, <1>3, <1>4, <2>1, RestingTyped
<1>5. CASE RestoreStart
  <2>1. PICK k \in 1..Len(manifests), altered \in BOOLEAN, head \in 0..Len(manifests) :
          /\ SignatureOK(k, altered)
          /\ head # 0 => SuccessorOK(head, manifests[k])
          /\ reader' = [at |-> "check", manifest |-> k, altered |-> altered, head |-> head, next |-> 1]
    BY <1>5 DEF RestoreStart
  <2>2. UNCHANGED <<staging, target, restored>>
    BY <1>5 DEF RestoreStart
  <2>3. /\ reader'.at = "check" /\ reader'.manifest = k /\ reader'.head = head
        /\ reader' \in [at : {"idle", "check", "extract"}, manifest : Nat, altered : BOOLEAN,
                        head : Nat, next : Nat \ {0}]
    BY <1>0, <2>1
  <2>4. manifests[k].signer = "trusted"
        /\ (head # 0 => manifests[k].prev = head /\ manifests[k].lineage = manifests[head].lineage)
    BY <2>1 DEF SignatureOK, SuccessorOK
  <2>5. Trusted(reader.manifest, reader.head)'
    BY <1>1, <2>3, <2>4 DEF Trusted
  <2>6. reader'.next = 1
    BY <2>1
  <2>7. ReaderInv'
    BY <2>3, <2>5, <2>6 DEF ReaderInv
  <2> QED
    BY <1>0, <1>3, <2>2, <2>3, <2>7
<1>6. CASE CheckObjects /\ reader' # Resting
  <2>1. /\ reader.at = "check" /\ reader' = [reader EXCEPT !.at = "extract"]
        /\ staging' = [there |-> TRUE, chunks |-> <<>>] /\ UNCHANGED <<target, restored>>
    BY <1>6 DEF CheckObjects
  <2>2. /\ reader'.at = "extract" /\ reader'.manifest = reader.manifest
        /\ reader'.head = reader.head /\ reader'.next = reader.next
        /\ reader' \in [at : {"idle", "check", "extract"}, manifest : Nat, altered : BOOLEAN,
                        head : Nat, next : Nat \ {0}]
    BY <1>0, <2>1
  <2>3. staging' \in [there : BOOLEAN, chunks : Seq(Chunks)] /\ Len(staging'.chunks) = 0
    BY <2>1
  <2>4. Trusted(reader.manifest, reader.head)
    BY <1>0, <2>1 DEF ReaderInv
  <2>5. Trusted(reader.manifest, reader.head)'
    BY <1>1, <2>2, <2>4 DEF Trusted
  <2>6. reader.next = 1
    BY <1>0, <2>1 DEF ReaderInv
  <2>7. Unpacked'
    BY <2>2, <2>3, <2>6 DEF Unpacked
  <2> QED
    BY <1>3, <2>1, <2>2, <2>3, <2>5, <2>7 DEF ReaderInv
<1>7. CASE ExtractChunk /\ reader' # Resting
  <2>1. PICK k : k = reader.manifest
    OBVIOUS
  <2>2. PICK c : c = ChunksOf(k)[reader.next]
    OBVIOUS
  <2>3. /\ reader.at = "extract" /\ reader.next <= Len(ChunksOf(k)) /\ Opens(c)
        /\ staging' = [staging EXCEPT !.chunks = Append(@, c)]
        /\ reader' = [reader EXCEPT !.next = @ + 1]
        /\ UNCHANGED <<target, restored>>
    BY <1>7, <2>1, <2>2 DEF ExtractChunk, Refuse, Opens
  <2>4. /\ reader'.at = "extract" /\ reader'.manifest = k /\ reader'.head = reader.head
        /\ reader'.next = reader.next + 1
        /\ reader' \in [at : {"idle", "check", "extract"}, manifest : Nat, altered : BOOLEAN,
                        head : Nat, next : Nat \ {0}]
    <3>1. reader.next + 1 \in Nat \ {0}
      BY <1>0
    <3>2. PICK n \in Nat \ {0} : n = reader.next + 1
      BY <3>1
    <3>3. reader' = [reader EXCEPT !.next = n]
      BY <2>3, <3>2
    <3> QED
      BY <1>0, <2>1, <2>3, <3>2, <3>3
  <2>5. Trusted(reader.manifest, reader.head) /\ Unpacked
    BY <1>0, <2>3 DEF ReaderInv
  <2>6. Trusted(reader.manifest, reader.head)'
    BY <1>1, <2>1, <2>4, <2>5 DEF Trusted
  <2>7. PICK cs \in Seq(Chunks) : cs = ChunksOf(k)
    <3>1. manifests[k] \in Manifests
      BY <1>0, <2>1, <2>5, Element DEF Trusted
    <3> QED
      BY <3>1 DEF Manifests, ChunksOf
  <2>8. PICK us \in Seq(Chunks) : us = staging.chunks
    BY <1>0
  <2>9. /\ Len(us) = reader.next - 1 /\ Len(us) \in Nat /\ Len(us) + 1 <= Len(cs)
        /\ \A i \in 1..Len(us) : us[i] = cs[i]
    BY <1>0, <2>1, <2>3, <2>5, <2>7, <2>8 DEF Unpacked
  <2>10. c = cs[Len(us) + 1] /\ c \in Chunks
    <3>1. Len(us) + 1 = reader.next /\ Len(us) + 1 \in 1..Len(cs)
      BY <1>0, <2>9
    <3> QED
      BY <2>2, <2>7, <3>1, Element
  <2>11. /\ Append(us, c) \in Seq(Chunks) /\ Len(Append(us, c)) = Len(us) + 1
         /\ \A i \in 1..Len(us) : Append(us, c)[i] = us[i]
         /\ Append(us, c)[Len(us) + 1] = c
    BY <2>10
  <2>12. /\ staging' \in [there : BOOLEAN, chunks : Seq(Chunks)]
         /\ staging'.chunks = Append(us, c)
    BY <1>0, <2>3, <2>8, <2>11
  <2>13. ChunksOf(reader.manifest)' = cs
    BY <1>1, <2>4, <2>7 DEF ChunksOf
  <2>14. \A i \in 1..Len(Append(us, c)) : Append(us, c)[i] = cs[i]
    BY <2>9, <2>10, <2>11
  <2>15. Len(Append(us, c)) = reader'.next - 1 /\ Len(Append(us, c)) <= Len(cs)
    BY <1>0, <2>4, <2>9, <2>11
  <2>16. Unpacked'
    BY <2>12, <2>13, <2>14, <2>15 DEF Unpacked
  <2> QED
    BY <1>3, <2>3, <2>4, <2>6, <2>12, <2>16 DEF ReaderInv
<1>8. CASE RenameIntoPlace /\ target' = "restored" /\ target # "restored"
  <2>1. /\ reader.at = "extract" /\ reader.next > Len(ChunksOf(reader.manifest))
        /\ restored' = [manifest |-> reader.manifest, head |-> reader.head, files |-> staging.chunks]
        /\ staging' = NoDirectory /\ reader' = Resting
    BY <1>8 DEF RenameIntoPlace
  <2>2. Trusted(reader.manifest, reader.head) /\ Unpacked
    BY <1>0, <2>1 DEF ReaderInv
  <2>3. /\ restored'.manifest = reader.manifest /\ restored'.head = reader.head
        /\ restored'.files = staging.chunks
        /\ restored' \in [manifest : Nat, head : Nat, files : Seq(Chunks)]
    BY <1>0, <2>1
  <2>4. PICK k : k = reader.manifest
    OBVIOUS
  <2>5. PICK cs \in Seq(Chunks) : cs = ChunksOf(k)
    <3>1. manifests[k] \in Manifests
      BY <1>0, <2>2, <2>4, Element DEF Trusted
    <3> QED
      BY <3>1 DEF Manifests, ChunksOf
  <2>6. PICK us \in Seq(Chunks) : us = staging.chunks
    BY <1>0
  <2>7. Len(us) = Len(cs) /\ \A i \in 1..Len(us) : us[i] = cs[i]
    BY <1>0, <2>1, <2>2, <2>4, <2>5, <2>6 DEF Unpacked
  <2>8. us = cs
    BY <2>7, SeqEqual
  <2>9. Trusted(restored.manifest, restored.head)'
    BY <1>1, <2>2, <2>3 DEF Trusted
  <2>10. (restored.files = ChunksOf(restored.manifest))'
    BY <1>1, <2>3, <2>4, <2>5, <2>6, <2>8 DEF ChunksOf
  <2>11. TargetInv'
    BY <1>8, <2>9, <2>10 DEF TargetInv
  <2>12. SnapshotTypeOK'
    BY <1>0, <1>1, <2>1, <2>3, RestingTyped DEF SnapshotTypeOK
  <2>13. ReaderInv'
    BY <2>1 DEF ReaderInv, Resting
  <2> QED
    BY <1>2, <2>11, <2>12, <2>13 DEF SnapshotInv
<1>9. CASE CheckObjects /\ reader' = Resting
  BY <1>4, <1>9, RestingTyped DEF CheckObjects, Resting
<1>10. CASE ExtractChunk /\ reader' = Resting
  <2>1. reader'.at = "idle"
    BY <1>10 DEF Resting
  <2>2. reader.at = "extract" /\ UNCHANGED <<target, restored>>
    BY <1>10 DEF ExtractChunk
  <2>3. reader' # [reader EXCEPT !.next = @ + 1]
    BY <1>0, <2>1, <2>2
  <2>4. Refuse
    BY <1>10, <2>3 DEF ExtractChunk
  <2> QED
    BY <1>4, <1>10, <2>2, <2>4 DEF Refuse
<1>11. CASE RenameIntoPlace /\ ~(target' = "restored" /\ target # "restored")
  <2>1. Refuse /\ UNCHANGED <<target, restored>>
    BY <1>11 DEF RenameIntoPlace
  <2> QED
    BY <1>4, <2>1 DEF Refuse
<1> QED
  BY <1>5, <1>6, <1>7, <1>8, <1>9, <1>10, <1>11 DEF RestoreSteps

(* Nor do a crash, a write to the source, a fault of the data plane or a   *)
(* stranger at the target.                                                 *)
LEMMA SnapshotKeeps == SnapshotInv /\ [SnapshotNext]_snapshotVars => SnapshotInv'
<1> SUFFICES ASSUME SnapshotInv, [SnapshotNext]_snapshotVars PROVE SnapshotInv'
  OBVIOUS
<1>0. SnapshotTypeOK /\ WriterInv /\ ManifestsInv /\ ReaderInv /\ TargetInv /\ Len(manifests) \in Nat
  BY DEF SnapshotInv, SnapshotTypeOK
<1>1. CASE UNCHANGED <<source, manifests, writer, reader, staging, target, restored>>
  <2>1. SnapshotTypeOK' /\ WriterInv'
    BY <1>0, <1>1 DEF SnapshotTypeOK, WriterInv, Exact
  <2> QED
    BY <1>1, <2>1, ReaderRests DEF SnapshotInv
<1>2. CASE UNCHANGED snapshotVars \/ DataPlaneFault
  BY <1>1, <1>2 DEF snapshotVars, DataPlaneFault
<1>3. CASE WriteSteps
  BY <1>3, WriterKeeps, SignKeeps DEF WriteSteps
<1>4. CASE RestoreStart \/ RestoreSteps
  BY <1>4, RestoreKeeps
<1>5. CASE SourceChanges
  <2>1. source' \in [Files -> Contents]
    <3>1. PICK f \in Files, c \in Contents : source' = [source EXCEPT ![f] = c]
      BY <1>5 DEF SourceChanges
    <3> QED
      BY <1>0, <3>1 DEF SnapshotTypeOK
  <2>2. UNCHANGED <<manifests, writer, reader, staging, target, restored>>
    BY <1>5 DEF SourceChanges
  <2>3. SnapshotTypeOK' /\ WriterInv'
    BY <1>0, <2>1, <2>2 DEF SnapshotTypeOK, WriterInv, Exact
  <2> QED
    BY <2>2, <2>3, ReaderRests DEF SnapshotInv
<1>6. CASE TargetTaken
  <2>1. /\ UNCHANGED <<source, manifests, writer, reader, staging, restored>>
        /\ target # "restored" /\ target' # "restored"
    BY <1>6 DEF TargetTaken
  <2>2. SnapshotTypeOK' /\ WriterInv' /\ ManifestsInv' /\ ReaderInv'
    BY <1>0, <2>1
    DEF SnapshotTypeOK, WriterInv, ManifestsInv, ReaderInv, Trusted, Unpacked, ChunksOf, Exact
  <2>3. TargetInv'
    BY <1>0, <2>1 DEF TargetInv
  <2> QED
    BY <2>2, <2>3 DEF SnapshotInv
<1>7. CASE SnapshotCrash /\ writer' = Idle /\ UNCHANGED reader
  <2>1. UNCHANGED <<source, manifests, reader, staging, target, restored>>
    BY <1>7 DEF SnapshotCrash
  <2>2. WriterInv'
    BY <1>7 DEF WriterInv, Idle, Exact
  <2>3. SnapshotTypeOK'
    BY <1>0, <1>7, <2>1, RestingTyped DEF SnapshotTypeOK
  <2> QED
    BY <2>1, <2>2, <2>3, ReaderRests DEF SnapshotInv
<1>8. CASE SnapshotCrash /\ reader' = Resting /\ UNCHANGED writer
  <2>1. UNCHANGED <<source, manifests, writer, staging, target, restored>>
    BY <1>8 DEF SnapshotCrash
  <2>2. ReaderInv'
    BY <1>8 DEF ReaderInv, Resting
  <2>3. SnapshotTypeOK'
    BY <1>0, <1>8, <2>1, RestingTyped DEF SnapshotTypeOK
  <2>4. WriterInv' /\ ManifestsInv' /\ TargetInv'
    BY <1>0, <2>1 DEF WriterInv, ManifestsInv, TargetInv, Trusted, ChunksOf, Exact
  <2> QED
    BY <2>2, <2>3, <2>4 DEF SnapshotInv
<1>9. CASE SnapshotCrash
  BY <1>7, <1>8, <1>9 DEF SnapshotCrash
<1> QED
  BY <1>2, <1>3, <1>4, <1>5, <1>6, <1>9 DEF SnapshotNext

(* The invariant says that what lies at the target is what was captured.   *)
LEMMA SnapshotInvSafe == SnapshotInv => SnapshotSafe
<1> SUFFICES ASSUME SnapshotInv PROVE SnapshotSafe
  OBVIOUS
<1>1. TargetInv /\ ManifestsInv
  BY DEF SnapshotInv
<1>2. CASE target # "restored"
  BY <1>1, <1>2 DEF TargetInv, SnapshotSafe
<1>3. CASE target = "restored"
  <2>1. PICK k, h : k = restored.manifest /\ h = restored.head
    OBVIOUS
  <2>2. Trusted(k, h) /\ restored.files = manifests[k].chunks
    BY <1>1, <1>3, <2>1 DEF TargetInv, ChunksOf
  <2>3. Len(manifests[k].chunks) = 2 /\ Exact(manifests[k].chunks)
    BY <1>1, <2>2 DEF ManifestsInv, Trusted
  <2> QED
    BY <1>3, <2>1, <2>2, <2>3 DEF SnapshotSafe, Trusted, Exact
<1> QED
  BY <1>2, <1>3

(* A step of the jobs is, for the snapshot, a step of its or nothing.      *)
LEMMA SnapshotMoves == [WorkersNext]_workerVars => [SnapshotNext]_snapshotVars
  BY DEF WorkersNext, workerVars

(* For any number of snapshots and of faults, restore puts in place every  *)
(* chunk of a manifest that the trusted key signed and that follows the    *)
(* trusted head, undamaged and in order, and never what others put there.  *)
THEOREM SnapshotIsSafe == WorkersSpec => []SnapshotSafe
<1>1. WorkersInit => SnapshotInv
  <2>1. WorkersInit => SnapshotInit
    BY DEF WorkersInit
  <2> QED
    BY <2>1, SnapshotStarts
<1>2. SnapshotInv /\ [WorkersNext]_workerVars => SnapshotInv'
  BY SnapshotMoves, SnapshotKeeps
<1> QED
  BY <1>1, <1>2, SnapshotInvSafe, PTL DEF WorkersSpec
-----------------------------------------------------------------------------
(* ProcessorFacts.                                                         *)

FactPlaces == {"waiting", "check", "begin", "collect", "complete", "network", "sign", "post",
               "ended", "lost"}
FactResults == {"none", "clock_unavailable", "refused", "authorization_expired",
                "envelope_unrepresentable", "oversize_refused", "signing_failed", "submitted",
                "ok", "delivery_failed"}

FactsTypeOK ==
  /\ now \in Nat
  /\ at \in [FactWorkers -> FactPlaces]
  /\ stamps \in [FactWorkers -> Seq(Nat)]
  /\ facts \in Seq(FactKinds)
  /\ signed \in [FactWorkers -> Nat]
  /\ posts \in [FactWorkers -> Seq(Nat)]
  /\ server \in [FactWorkers -> SUBSET Nat]
  /\ result \in [FactWorkers -> FactResults]
  /\ reported \in Seq(FactResults)

\* One worker: every body it posted is the one it signed, and it signs
\* before it posts.
WorkerInv(w) ==
  /\ grant[w] = Dormant => at[w] = "ended"
  /\ signed[w] > 0 => grant[w] # Dormant
  /\ at[w] # "ended" => result[w] = "none"
  /\ at[w] \notin {"post", "ended"} => posts[w] = <<>> /\ server[w] = {}
  /\ at[w] = "post" => fits[w] /\ Len(posts[w]) <= 1
  /\ posts[w] # <<>> => fits[w] /\ Len(posts[w]) <= 2
  /\ \A i \in 1..Len(posts[w]) : posts[w][i] = signed[w]
  /\ server[w] # {} => server[w] = {signed[w]} /\ posts[w] # <<>>
  /\ result[w] = "submitted" => signed[w] \in server[w]

\* The fact worker: what it may read was decided at its first stamp.
HonouredInv ==
  /\ at["facts"] = "sign" \/ signed["facts"] > 0 => fits["facts"]
  /\ grant["facts"] # Dormant =>
       /\ grant["facts"].kinds \in Seq(FactKinds)
       /\ \A k \in ToSet(grant["facts"].kinds) : KindProfile(k) = grant["facts"].profile
  /\ at["facts"] \in {"waiting", "check", "begin", "collect"} => facts = <<>>
  /\ at["facts"] \in {"collect", "complete"} \/ facts # <<>> =>
       stamps["facts"] # <<>> /\ ValidAt(grant["facts"], stamps["facts"][1])
  /\ facts # <<>> => grant["facts"] # Dormant /\ ToSet(facts) = ToSet(grant["facts"].kinds)

\* The coverage worker: its stamps are ordered and it reports when it ends.
CoverageInv ==
  /\ at["coverage"] # "ended" => reported = <<>>
  /\ Len(reported) <= 1
  /\ stamps["coverage"] # <<>> => stamps["coverage"][1] <= stamps["coverage"][2]

\* OneBody and GrantHonoured speak of what was posted and read; the
\* invariant adds where in its run a worker has done so.
FactsInv ==
  FactsTypeOK /\ (\A w \in FactWorkers : WorkerInv(w)) /\ HonouredInv /\ CoverageInv

\* No post was sent at or after the expiry of its grant.
SentInv ==
  /\ postedAt \in [FactWorkers -> SUBSET Nat]
  /\ \A w \in FactWorkers : /\ grant[w] # Dormant => grant[w].expires \in Nat
                            /\ \A t \in postedAt[w] : t < grant[w].expires

(* The workers hold a grant that was taken, or none.                       *)
LEMMA FactsStart ==
  ASSUME NEW Some, FactsInit(Some),
         \A g \in Some : /\ g["facts"].worker \in {"none", "facts"}
                         /\ g["facts"].worker = "facts" => g["facts"].kinds \in Seq(FactKinds)
  PROVE  FactsInv
<1>1. /\ now \in Nat /\ stamps = [w \in FactWorkers |-> <<>>] /\ facts = <<>>
      /\ at = [w \in FactWorkers |-> IF grant[w] = Dormant THEN "ended" ELSE "waiting"]
      /\ signed = [w \in FactWorkers |-> 0] /\ posts = [w \in FactWorkers |-> <<>>]
      /\ server = [w \in FactWorkers |-> {}] /\ result = [w \in FactWorkers |-> "none"]
      /\ reported = <<>>
  BY DEF FactsInit
<1>2. PICK g \in Some : grant = [w \in FactWorkers |-> IF g[w].worker # "none" /\ Taken(g[w])
                                                       THEN g[w] ELSE Dormant]
  BY DEF FactsInit
<1>3. FactsTypeOK
  BY <1>1 DEF FactsTypeOK, FactPlaces, FactResults
<1>4. \A w \in FactWorkers : WorkerInv(w)
  BY <1>1 DEF WorkerInv
<1>5. "facts" \in FactWorkers /\ "coverage" \in FactWorkers
  BY DEF FactWorkers
<1>6. ASSUME grant["facts"] # Dormant
      PROVE  /\ grant["facts"].kinds \in Seq(FactKinds)
             /\ \A k \in ToSet(grant["facts"].kinds) : KindProfile(k) = grant["facts"].profile
  <2>1. grant["facts"] = g["facts"] /\ g["facts"].worker # "none" /\ Taken(g["facts"])
    BY <1>2, <1>5, <1>6
  <2>2. g["facts"].worker = "facts"
    BY <1>2, <2>1
  <2> QED
    BY <1>2, <2>1, <2>2 DEF Taken, StructurallyValid
<1>7. HonouredInv
  BY <1>1, <1>5, <1>6 DEF HonouredInv
<1>8. CoverageInv
  BY <1>1, <1>5 DEF CoverageInv
<1> QED
  BY <1>3, <1>4, <1>7, <1>8 DEF FactsInv

(* Nothing is sent at the start.                                           *)
LEMMA NothingSent ==
  ASSUME NEW Some, FactsInit(Some),
         \A g \in Some : \A w \in FactWorkers : g[w].worker # "none" => g[w].expires \in Nat
  PROVE  SentInv
<1>1. PICK g \in Some : grant = [w \in FactWorkers |-> IF g[w].worker # "none" /\ Taken(g[w])
                                                       THEN g[w] ELSE Dormant]
  BY DEF FactsInit
<1>2. postedAt = [w \in FactWorkers |-> {}]
  BY DEF FactsInit
<1> QED
  BY <1>1, <1>2 DEF SentInv

(* A step at which a worker only moves on, or ends without a claim.        *)
LEMMA WorkerTurns ==
  ASSUME FactsTypeOK, \A v \in FactWorkers : WorkerInv(v), NEW w \in FactWorkers, NEW s \in FactPlaces,
         at' = [at EXCEPT ![w] = s], UNCHANGED <<grant, fits, signed, posts, server>>,
         at[w] # "ended", s # "post", at[w] = "post" => s = "ended",
         \/ s # "ended" /\ UNCHANGED result
         \/ s = "ended" /\ \E r \in FactResults \ {"submitted"} : result' = [result EXCEPT ![w] = r]
  PROVE  \A v \in FactWorkers : WorkerInv(v)'
<1> SUFFICES ASSUME NEW v \in FactWorkers PROVE WorkerInv(v)'
  OBVIOUS
<1>1. WorkerInv(v) /\ WorkerInv(w)
  OBVIOUS
<1>2. CASE v # w
  <2>1. at'[v] = at[v] /\ result'[v] = result[v]
    BY <1>2 DEF FactsTypeOK
  <2> QED
    BY <1>1, <2>1 DEF WorkerInv
<1>3. CASE v = w
  <2>1. at'[w] = s
    BY DEF FactsTypeOK
  <2>2. s = "ended" => result'[w] # "submitted"
    BY DEF FactsTypeOK
  <2>3. s # "ended" => result'[w] = result[w] /\ result[w] = "none"
    BY <1>1 DEF WorkerInv
  <2> QED
    BY <1>1, <1>3, <2>1, <2>2, <2>3 DEF WorkerInv
<1> QED
  BY <1>2, <1>3

(* The first stamp of the facts and the stamps of the coverage stay.       *)
StampsKept ==
  /\ stamps' \in [FactWorkers -> Seq(Nat)]
  /\ stamps'["coverage"] = stamps["coverage"]
  /\ stamps["facts"] # <<>> => stamps'["facts"] # <<>> /\ stamps'["facts"][1] = stamps["facts"][1]

(* A worker that ends without a claim.                                     *)
LEMMA WorkerEnds ==
  ASSUME FactsInv, NEW w \in FactWorkers, NEW r \in FactResults \ {"submitted"}, Ends(w, r),
         at[w] # "ended", UNCHANGED <<grant, fits, signed, posts, server, facts>>, now' \in Nat,
         StampsKept
  PROVE  FactsInv'
<1>0. /\ FactsTypeOK /\ HonouredInv /\ CoverageInv /\ "facts" \in FactWorkers /\ "coverage" \in FactWorkers
      /\ \A v \in FactWorkers : WorkerInv(v)
  BY DEF FactsInv, FactWorkers
<1>1. /\ at' = [at EXCEPT ![w] = "ended"] /\ result' = [result EXCEPT ![w] = r]
      /\ reported' = IF w = "coverage" THEN Append(reported, r) ELSE reported
  BY DEF Ends
<1>2. at' \in [FactWorkers -> FactPlaces] /\ result' \in [FactWorkers -> FactResults]
  BY <1>0, <1>1 DEF FactsTypeOK, FactPlaces
<1>3. reported' \in Seq(FactResults)
  BY <1>0, <1>1 DEF FactsTypeOK
<1>4. FactsTypeOK'
  BY <1>0, <1>2, <1>3 DEF FactsTypeOK, StampsKept
<1>5. \A v \in FactWorkers : WorkerInv(v)'
  <2>1. "ended" \in FactPlaces
    BY DEF FactPlaces
  <2> QED
    BY <1>0, <1>1, <2>1, WorkerTurns
<1>6. at'["facts"] = at["facts"] \/ at'["facts"] = "ended"
  BY <1>0, <1>1 DEF FactsTypeOK
<1>7. HonouredInv'
  BY <1>0, <1>6 DEF HonouredInv, StampsKept, ValidAt
<1>8. CoverageInv'
  <2>1. CASE w = "coverage"
    <3>1. reported = <<>> /\ at'["coverage"] = "ended"
      BY <1>0, <1>1, <2>1 DEF CoverageInv, FactsTypeOK
    <3>3. Len(reported') = 1
      <4>1. reported' = <<r>>
        BY <1>1, <2>1, <3>1
      <4> QED
        BY <4>1
    <3>4. Len(reported') <= 1
      BY <3>3
    <3> QED
      BY <1>0, <3>1, <3>4 DEF CoverageInv, StampsKept
  <2>2. CASE w # "coverage"
    <3>1. at'["coverage"] = at["coverage"] /\ reported' = reported
      BY <1>0, <1>1, <2>2 DEF FactsTypeOK
    <3> QED
      BY <1>0, <3>1 DEF CoverageInv, StampsKept
  <2> QED
    BY <2>1, <2>2
<1> QED
  BY <1>4, <1>5, <1>7, <1>8 DEF FactsInv

(* A worker that moves on.                                                 *)
LEMMA WorkerGoes ==
  ASSUME FactsInv, NEW w \in FactWorkers, NEW s \in FactPlaces \ {"post", "ended"}, Goes(w, s),
         at[w] \notin {"ended", "post"}, UNCHANGED <<grant, fits, signed, posts, server>>,
         now' \in Nat, stamps' \in [FactWorkers -> Seq(Nat)], facts' \in Seq(FactKinds),
         HonouredInv',
         stamps'["coverage"] # <<>> => stamps'["coverage"][1] <= stamps'["coverage"][2]
  PROVE  FactsInv'
<1>0. /\ FactsTypeOK /\ CoverageInv /\ "coverage" \in FactWorkers
      /\ \A v \in FactWorkers : WorkerInv(v)
  BY DEF FactsInv, FactWorkers
<1>1. at' = [at EXCEPT ![w] = s] /\ UNCHANGED <<result, reported>>
  BY DEF Goes
<1>2. FactsTypeOK'
  BY <1>0, <1>1 DEF FactsTypeOK
<1>3. \A v \in FactWorkers : WorkerInv(v)'
  BY <1>0, <1>1, WorkerTurns
<1>4. at["coverage"] = "ended" => at'["coverage"] = "ended"
  BY <1>0, <1>1 DEF FactsTypeOK
<1>5. CoverageInv'
  BY <1>0, <1>1, <1>4 DEF CoverageInv
<1> QED
  BY <1>2, <1>3, <1>5 DEF FactsInv

(* A step of the coverage worker leaves what the fact worker holds alone.  *)
LEMMA CoverageApart ==
  ASSUME FactsInv, NEW s, at' = [at EXCEPT !["coverage"] = s],
         UNCHANGED <<grant, fits, facts>>, signed'["facts"] = signed["facts"],
         stamps'["facts"] = stamps["facts"]
  PROVE  HonouredInv'
<1>1. at'["facts"] = at["facts"] /\ HonouredInv
  BY DEF FactsInv, FactsTypeOK, FactWorkers
<1> QED
  BY <1>1 DEF HonouredInv, ValidAt

(* Time passes within the bound.                                           *)
LEMMA LastsTyped ==
  ASSUME NEW most, Lasts(most)
  PROVE  now' \in Nat
  BY FactsAssumption DEF Lasts, Instants

(* The facts collected are the kinds that are due.                         *)
LEMMA CollectedKinds ==
  ASSUME NEW ks \in Seq(FactKinds), ToSet(grant["facts"].kinds) = ToSet(ks),
         NEW fs, fs = Due("android") \o Due("execution") \o Due("egress") \o Due("hardware")
  PROVE  fs \in Seq(FactKinds) /\ ToSet(fs) = ToSet(ks)
<1>1. ToSet(ks) \subseteq FactKinds
  BY DEF ToSet
<1>2. ASSUME NEW k \in FactKinds
      PROVE  /\ Due(k) \in Seq(FactKinds)
             /\ ToSet(Due(k)) = {k} \cap ToSet(ks)
  <2>1. CASE k \in ToSet(ks)
    <3>1. Due(k) = <<k>>
      BY <2>1 DEF Due
    <3> QED
      BY <2>1, <3>1 DEF ToSet
  <2>2. CASE k \notin ToSet(ks)
    <3>1. Due(k) = <<>>
      BY <2>2 DEF Due
    <3> QED
      BY <2>2, <3>1 DEF ToSet
  <2> QED
    BY <2>1, <2>2
<1>3. ASSUME NEW s \in Seq(FactKinds), NEW t \in Seq(FactKinds)
      PROVE  s \o t \in Seq(FactKinds) /\ ToSet(s \o t) = ToSet(s) \cup ToSet(t)
  <2>1. s \o t \in Seq(FactKinds)
    OBVIOUS
  <2>2. \A q : ToSet(q) = Range(q)
    BY DEF ToSet, Range
  <2> QED
    BY <2>1, <2>2, RangeConcatenation
<1>4. PICK a \in Seq(FactKinds) : a = Due("android") /\ ToSet(a) = {"android"} \cap ToSet(ks)
  BY <1>2 DEF FactKinds
<1>5. PICK b \in Seq(FactKinds) : b = Due("execution") /\ ToSet(b) = {"execution"} \cap ToSet(ks)
  BY <1>2 DEF FactKinds
<1>6. PICK c \in Seq(FactKinds) : c = Due("egress") /\ ToSet(c) = {"egress"} \cap ToSet(ks)
  BY <1>2 DEF FactKinds
<1>7. PICK d \in Seq(FactKinds) : d = Due("hardware") /\ ToSet(d) = {"hardware"} \cap ToSet(ks)
  BY <1>2 DEF FactKinds
<1>8. fs = ((a \o b) \o c) \o d
  BY <1>4, <1>5, <1>6, <1>7
<1>9. a \o b \in Seq(FactKinds) /\ ToSet(a \o b) = ToSet(a) \cup ToSet(b)
  BY <1>3
<1>10. (a \o b) \o c \in Seq(FactKinds) /\ ToSet((a \o b) \o c) = ToSet(a \o b) \cup ToSet(c)
  BY <1>3, <1>9
<1>11. ((a \o b) \o c) \o d \in Seq(FactKinds)
       /\ ToSet(((a \o b) \o c) \o d) = ToSet((a \o b) \o c) \cup ToSet(d)
  BY <1>3, <1>10
<1>12. ToSet(fs) = {"android", "execution", "egress", "hardware"} \cap ToSet(ks)
  BY <1>4, <1>5, <1>6, <1>7, <1>8, <1>9, <1>10, <1>11
<1> QED
  BY <1>1, <1>8, <1>11, <1>12 DEF FactKinds

(* Both workers are started, or one of them is lost.                       *)
LEMMA LaunchKeeps ==
  ASSUME FactsInv, Launch
  PROVE  FactsInv'
<1>0. /\ FactsTypeOK /\ HonouredInv /\ CoverageInv /\ "facts" \in FactWorkers /\ "coverage" \in FactWorkers
      /\ \A v \in FactWorkers : WorkerInv(v)
  BY DEF FactsInv, FactWorkers
<1>1. UNCHANGED <<now, setBack, running, grant, stamps, facts, fits, signed, posts, server, result, reported>>
  BY DEF Launch
<1>2. PICK started \in SUBSET {w \in FactWorkers : at[w] = "waiting"} :
        at' = [w \in FactWorkers |-> IF w \in started THEN "check"
                                     ELSE IF at[w] = "waiting" THEN "lost" ELSE at[w]]
  BY DEF Launch
<1>3. \A w \in FactWorkers : \/ at'[w] = at[w]
                             \/ at[w] = "waiting" /\ at'[w] \in {"check", "lost"}
  BY <1>2
<1>4. FactsTypeOK'
  <2>1. at' \in [FactWorkers -> FactPlaces]
    BY <1>0, <1>2 DEF FactsTypeOK, FactPlaces
  <2> QED
    BY <1>0, <1>1, <2>1 DEF FactsTypeOK
<1>5. ASSUME NEW w \in FactWorkers PROVE WorkerInv(w)'
  <2>1. WorkerInv(w)
    BY <1>0
  <2>2. CASE at'[w] = at[w]
    BY <1>1, <2>1, <2>2 DEF WorkerInv
  <2>3. CASE at[w] = "waiting" /\ at'[w] \in {"check", "lost"}
    BY <1>1, <2>1, <2>3 DEF WorkerInv
  <2> QED
    BY <1>3, <2>2, <2>3
<1>6. HonouredInv'
  <2>1. at'["facts"] = at["facts"] \/ (at["facts"] = "waiting" /\ at'["facts"] \in {"check", "lost"})
    BY <1>0, <1>3
  <2> QED
    BY <1>0, <1>1, <2>1 DEF HonouredInv, ValidAt
<1>7. CoverageInv'
  <2>1. at'["coverage"] = at["coverage"] \/ at["coverage"] = "waiting"
    BY <1>0, <1>3
  <2> QED
    BY <1>0, <1>1, <2>1 DEF CoverageInv
<1> QED
  BY <1>4, <1>5, <1>6, <1>7 DEF FactsInv

(* The fact worker up to its signature.                                    *)
LEMMA FactWorkerKeeps ==
  ASSUME FactsInv, CheckFacts \/ BeginFacts \/ CollectFacts \/ CompleteFacts
  PROVE  FactsInv'
<1>0. /\ FactsTypeOK /\ HonouredInv /\ CoverageInv /\ "facts" \in FactWorkers /\ "coverage" \in FactWorkers
      /\ WorkerInv("facts") /\ now \in Nat /\ at["facts"] \in FactPlaces
      /\ stamps \in [FactWorkers -> Seq(Nat)]
  BY DEF FactsInv, FactsTypeOK, FactWorkers
<1>1. UNCHANGED <<grant, fits, signed, posts, server>>
  BY DEF CheckFacts, BeginFacts, CollectFacts, CompleteFacts
<1>2. /\ {"refused"} \subseteq FactResults \ {"submitted"}
      /\ {"begin", "collect", "complete", "sign"} \subseteq FactPlaces \ {"post", "ended"}
  BY DEF FactResults, FactPlaces
<1>3. /\ StampsKept \/ stamps' # stamps
      /\ stamps["coverage"] # <<>> => stamps["coverage"][1] <= stamps["coverage"][2]
  BY <1>0 DEF StampsKept, CoverageInv
<1>4. ASSUME NEW s, Goes("facts", s) PROVE at'["facts"] = s
  BY <1>0, <1>4 DEF Goes, FactsTypeOK
<1>5. CASE CheckFacts
  <2>1. at["facts"] = "check" /\ now' \in Nat /\ UNCHANGED <<stamps, facts>>
    BY <1>5, LastsTyped DEF CheckFacts
  <2>2. CASE Ends("facts", "refused")
    BY <1>0, <1>1, <1>2, <1>3, <2>1, <2>2, WorkerEnds
  <2>3. CASE Goes("facts", "begin")
    <3>1. HonouredInv'
      BY <1>0, <1>1, <1>4, <2>1, <2>3 DEF HonouredInv, ValidAt
    <3>2. facts' \in Seq(FactKinds)
      BY <1>0, <2>1 DEF FactsTypeOK
    <3> QED
      BY <1>0, <1>1, <1>2, <1>3, <2>1, <2>3, <3>1, <3>2, WorkerGoes
  <2> QED
    BY <1>5, <2>2, <2>3 DEF CheckFacts
<1>6. CASE BeginFacts
  <2>1. at["facts"] = "begin" /\ now' = now /\ UNCHANGED facts
    BY <1>6 DEF BeginFacts
  <2>2. CASE Ends("facts", "refused") /\ UNCHANGED stamps
    BY <1>0, <1>1, <1>2, <1>3, <2>1, <2>2, WorkerEnds
  <2>3. CASE /\ ValidAt(grant["facts"], now) /\ stamps' = [stamps EXCEPT !["facts"] = <<now>>]
             /\ Goes("facts", "collect")
    <3>1. <<now>> \in Seq(Nat) /\ <<now>> # <<>> /\ <<now>>[1] = now
      BY <1>0
    <3>2. /\ stamps' \in [FactWorkers -> Seq(Nat)] /\ stamps'["facts"] = <<now>>
          /\ stamps'["coverage"] = stamps["coverage"]
      BY <1>0, <2>3, <3>1
    <3>3. stamps'["facts"] # <<>> /\ stamps'["facts"][1] = now
      BY <3>1, <3>2
    <3>4. facts = <<>>
      BY <1>0, <2>1 DEF HonouredInv
    <3>5. HonouredInv'
      BY <1>0, <1>1, <1>4, <2>1, <2>3, <3>3, <3>4 DEF HonouredInv, ValidAt
    <3>6. facts' \in Seq(FactKinds)
      BY <1>0, <2>1 DEF FactsTypeOK
    <3> QED
      BY <1>0, <1>1, <1>2, <1>3, <2>1, <2>3, <3>2, <3>5, <3>6, WorkerGoes
  <2> QED
    BY <1>6, <2>2, <2>3 DEF BeginFacts
<1>7. CASE CollectFacts
  <2>1. /\ at["facts"] = "collect" /\ now' \in Nat /\ UNCHANGED stamps /\ Goes("facts", "complete")
        /\ facts' = Due("android") \o Due("execution") \o Due("egress") \o Due("hardware")
    BY <1>7, LastsTyped DEF CollectFacts
  <2>2. grant["facts"] # Dormant /\ grant["facts"].kinds \in Seq(FactKinds)
    BY <1>0, <2>1 DEF WorkerInv, HonouredInv
  <2>3. facts' \in Seq(FactKinds) /\ ToSet(facts') = ToSet(grant["facts"].kinds)
    BY <2>1, <2>2, CollectedKinds
  <2>4. HonouredInv'
    BY <1>0, <1>1, <1>4, <2>1, <2>2, <2>3 DEF HonouredInv, ValidAt
  <2> QED
    BY <1>0, <1>1, <1>2, <1>3, <2>1, <2>3, <2>4, WorkerGoes
<1>8. CASE CompleteFacts
  <2>1. /\ at["facts"] = "complete" /\ now' = now /\ UNCHANGED facts
        /\ stamps' = [stamps EXCEPT !["facts"] = Append(stamps["facts"], now)]
    BY <1>8 DEF CompleteFacts
  <2>2. stamps["facts"] # <<>> /\ stamps["facts"] \in Seq(Nat)
    BY <1>0, <2>1 DEF HonouredInv
  <2>3. PICK q \in Seq(Nat) : q = stamps["facts"]
    BY <2>2
  <2>4. Append(q, now) \in Seq(Nat) /\ Append(q, now) # <<>> /\ Append(q, now)[1] = q[1]
    <3>1. now \in Nat /\ q # <<>> /\ 1 \in 1..Len(q)
      BY <1>0, <2>2, <2>3
    <3>2. Append(q, now) \in Seq(Nat) /\ Len(Append(q, now)) = Len(q) + 1 /\ Append(q, now)[1] = q[1]
      BY <3>1, AppendKeeps
    <3> QED
      BY <3>1, <3>2
  <2>5. /\ stamps' \in [FactWorkers -> Seq(Nat)] /\ stamps'["facts"] = Append(q, now)
        /\ stamps'["coverage"] = stamps["coverage"]
    BY <1>0, <2>1, <2>3, <2>4
  <2>6. StampsKept
    BY <2>3, <2>4, <2>5 DEF StampsKept
  <2>7. CASE Ends("facts", "refused")
    BY <1>0, <1>1, <1>2, <2>1, <2>6, <2>7, WorkerEnds
  <2>8. CASE fits["facts"] /\ Goes("facts", "sign")
    <3>1. HonouredInv'
      BY <1>0, <1>1, <1>4, <2>1, <2>6, <2>8 DEF HonouredInv, ValidAt, StampsKept
    <3>2. facts' \in Seq(FactKinds)
      BY <1>0, <2>1 DEF FactsTypeOK
    <3> QED
      BY <1>0, <1>1, <1>2, <1>3, <2>1, <2>5, <2>8, <3>1, <3>2, WorkerGoes
  <2> QED
    BY <1>8, <2>7, <2>8 DEF CompleteFacts
<1> QED
  BY <1>5, <1>6, <1>7, <1>8

(* The coverage worker up to its signature.                                *)
LEMMA CoverageWorkerKeeps ==
  ASSUME FactsInv, CheckCoverage \/ HardwareCapture \/ Network
  PROVE  FactsInv'
<1>0. /\ FactsTypeOK /\ CoverageInv /\ "facts" \in FactWorkers /\ "coverage" \in FactWorkers
      /\ now \in Nat /\ stamps \in [FactWorkers -> Seq(Nat)] /\ facts \in Seq(FactKinds)
      /\ signed'["facts"] = signed["facts"]
  BY DEF FactsInv, FactsTypeOK, FactWorkers, CheckCoverage, HardwareCapture, Network
<1>1. UNCHANGED <<grant, fits, signed, posts, server, facts>>
  BY DEF CheckCoverage, HardwareCapture, Network
<1>2. /\ {"authorization_expired", "envelope_unrepresentable"} \subseteq FactResults \ {"submitted"}
      /\ {"begin", "network", "sign"} \subseteq FactPlaces \ {"post", "ended"}
  BY DEF FactResults, FactPlaces
<1>3. stamps["coverage"] # <<>> => stamps["coverage"][1] <= stamps["coverage"][2]
  BY <1>0 DEF CoverageInv
<1>4. ASSUME NEW s \in {"begin", "network", "sign"}, Goes("coverage", s),
             at["coverage"] \in {"check", "begin", "network"}, now' \in Nat,
             stamps' \in [FactWorkers -> Seq(Nat)], stamps'["facts"] = stamps["facts"],
             stamps'["coverage"] # <<>> => stamps'["coverage"][1] <= stamps'["coverage"][2]
      PROVE  FactsInv'
  <2>1. HonouredInv'
    BY <1>0, <1>1, <1>4, CoverageApart DEF Goes
  <2> QED
    BY <1>0, <1>1, <1>2, <1>4, <2>1, WorkerGoes
<1>5. ASSUME NEW r \in {"authorization_expired", "envelope_unrepresentable"}, Ends("coverage", r),
             at["coverage"] \in {"check", "network"}, now' \in Nat, UNCHANGED stamps
      PROVE  FactsInv'
  <2>1. StampsKept
    BY <1>0, <1>5 DEF StampsKept
  <2> QED
    BY <1>0, <1>1, <1>2, <1>5, <2>1, WorkerEnds
<1>6. CASE CheckCoverage
  <2>1. at["coverage"] = "check" /\ now' = now /\ UNCHANGED stamps
    BY <1>6 DEF CheckCoverage
  <2>2. \/ Goes("coverage", "begin") \/ Goes("coverage", "network")
        \/ Ends("coverage", "authorization_expired")
    BY <1>6 DEF CheckCoverage
  <2> QED
    BY <1>0, <1>3, <1>4, <1>5, <2>1, <2>2
<1>7. CASE HardwareCapture
  <2>1. at["coverage"] = "begin" /\ Goes("coverage", "network")
    BY <1>7 DEF HardwareCapture
  <2>2. PICK c \in Instants : /\ now' = c
                              /\ stamps' = [stamps EXCEPT !["coverage"] = <<IF now < c THEN now ELSE c, c>>]
    BY <1>7 DEF HardwareCapture
  <2>3. c \in Nat
    BY <2>2, FactsAssumption DEF Instants
  <2>4. PICK b \in Nat : b = (IF now < c THEN now ELSE c)
    BY <1>0, <2>3
  <2>5. b <= c
    BY <1>0, <2>3, <2>4
  <2>6. <<b, c>> \in Seq(Nat) /\ <<b, c>>[1] = b /\ <<b, c>>[2] = c
    BY <2>3, <2>4
  <2>7. stamps' = [stamps EXCEPT !["coverage"] = <<b, c>>]
    BY <2>2, <2>4
  <2>8. /\ stamps' \in [FactWorkers -> Seq(Nat)] /\ stamps'["facts"] = stamps["facts"]
        /\ stamps'["coverage"] = <<b, c>>
    BY <1>0, <2>6, <2>7
  <2>9. stamps'["coverage"][1] <= stamps'["coverage"][2]
    BY <2>5, <2>6, <2>8
  <2> QED
    BY <1>4, <2>1, <2>2, <2>3, <2>8, <2>9
<1>8. CASE Network
  <2>1. at["coverage"] = "network" /\ UNCHANGED stamps
    BY <1>8 DEF Network
  <2>2. now' \in Nat
    BY <1>0, <1>8, LastsTyped DEF Network
  <2>3. Goes("coverage", "sign") \/ Ends("coverage", "envelope_unrepresentable")
    BY <1>8 DEF Network
  <2> QED
    BY <1>0, <1>3, <1>4, <1>5, <2>1, <2>2, <2>3
<1> QED
  BY <1>6, <1>7, <1>8

(* What holds of the other worker holds after a step of one.               *)
LEMMA OtherWorker ==
  ASSUME FactsInv, NEW w \in FactWorkers, NEW v \in FactWorkers, v # w, UNCHANGED <<grant, fits>>,
         NEW s, at' = [at EXCEPT ![w] = s], result'[v] = result[v], signed'[v] = signed[v],
         posts'[v] = posts[v], server'[v] = server[v]
  PROVE  WorkerInv(v)'
<1>1. WorkerInv(v) /\ at'[v] = at[v]
  BY DEF FactsInv, FactsTypeOK
<1> QED
  BY <1>1 DEF WorkerInv

(* A step of a worker that has read what it reads: only its place and      *)
(* what it signed and posted change.                                       *)
LEMMA WorkerDelivers ==
  ASSUME FactsInv, NEW w \in FactWorkers, NEW s \in {"post", "ended"}, at' = [at EXCEPT ![w] = s],
         at[w] \in {"sign", "post"}, UNCHANGED <<grant, fits, stamps, facts>>, now' \in Nat,
         signed' \in [FactWorkers -> Nat], posts' \in [FactWorkers -> Seq(Nat)],
         server' \in [FactWorkers -> SUBSET Nat], result' \in [FactWorkers -> FactResults],
         \A v \in FactWorkers : v # w => /\ result'[v] = result[v] /\ signed'[v] = signed[v]
                                         /\ posts'[v] = posts[v] /\ server'[v] = server[v],
         signed'[w] > 0 => at[w] = "sign" \/ signed[w] > 0,
         \/ s = "post" /\ reported' = reported
         \/ /\ s = "ended"
            /\ \E r \in FactResults : reported' = IF w = "coverage" THEN Append(reported, r) ELSE reported,
         WorkerInv(w)'
  PROVE  FactsInv'
<1>0. /\ FactsTypeOK /\ HonouredInv /\ CoverageInv /\ "facts" \in FactWorkers /\ "coverage" \in FactWorkers
  BY DEF FactsInv, FactWorkers
<1>1. at' \in [FactWorkers -> FactPlaces] /\ at'[w] = s
  BY <1>0 DEF FactsTypeOK, FactPlaces
<1>2. reported' \in Seq(FactResults)
  <2>1. reported \in Seq(FactResults)
    BY <1>0 DEF FactsTypeOK
  <2>2. \A r \in FactResults : Append(reported, r) \in Seq(FactResults)
    BY <2>1
  <2>3. reported' = reported \/ \E r \in FactResults : reported' = Append(reported, r)
    OBVIOUS
  <2> QED
    BY <2>1, <2>2, <2>3
<1>3. FactsTypeOK'
  BY <1>0, <1>1, <1>2 DEF FactsTypeOK
<1>4. \A v \in FactWorkers : WorkerInv(v)'
  BY OtherWorker
<1>5. HonouredInv'
  <2>1. CASE w = "facts"
    BY <1>0, <1>1, <2>1 DEF HonouredInv, ValidAt
  <2>2. CASE w # "facts"
    <3>1. at'["facts"] = at["facts"] /\ signed'["facts"] = signed["facts"]
      BY <1>0, <2>2 DEF FactsTypeOK
    <3> QED
      BY <1>0, <3>1 DEF HonouredInv, ValidAt
  <2> QED
    BY <2>1, <2>2
<1>6. CoverageInv'
  <2>1. CASE w = "coverage" /\ s = "ended"
    <3>1. PICK r \in FactResults : reported' = Append(reported, r)
      BY <2>1
    <3>2. reported = <<>> /\ at'["coverage"] = "ended"
      BY <1>0, <1>1, <2>1 DEF CoverageInv
    <3>3. reported' = <<r>>
      BY <3>1, <3>2
    <3>4. Len(reported') <= 1
      BY <3>3
    <3> QED
      BY <1>0, <3>2, <3>4 DEF CoverageInv
  <2>2. CASE ~(w = "coverage" /\ s = "ended")
    <3>1. reported' = reported
      BY <2>2
    <3>2. at["coverage"] = "ended" => at'["coverage"] = "ended"
      BY <1>0 DEF FactsTypeOK
    <3> QED
      BY <1>0, <3>1, <3>2 DEF CoverageInv
  <2> QED
    BY <2>1, <2>2
<1> QED
  BY <1>3, <1>4, <1>5, <1>6 DEF FactsInv

(* One signature, of a body that fits, before the first post.              *)
LEMMA SignatureKeeps ==
  ASSUME FactsInv, NEW w \in FactWorkers, Sign(w)
  PROVE  FactsInv'
<1>0. /\ FactsTypeOK /\ WorkerInv(w) /\ at[w] = "sign" /\ now' = now
      /\ UNCHANGED <<now, grant, stamps, facts, fits, posts, server>>
  BY DEF FactsInv, Sign
<1>1. /\ now \in Nat /\ signed \in [FactWorkers -> Nat] /\ posts \in [FactWorkers -> Seq(Nat)]
      /\ server \in [FactWorkers -> SUBSET Nat] /\ result \in [FactWorkers -> FactResults]
      /\ stamps \in [FactWorkers -> Seq(Nat)] /\ at \in [FactWorkers -> FactPlaces]
  BY <1>0 DEF FactsTypeOK
<1>2. "oversize_refused" \in FactResults \ {"submitted"} /\ "signing_failed" \in FactResults \ {"submitted"}
  BY DEF FactResults
<1>3. CASE Ends(w, "signing_failed") /\ UNCHANGED signed
  <2>1. StampsKept
    BY <1>0, <1>1 DEF StampsKept, FactWorkers
  <2> QED
    BY <1>0, <1>1, <1>2, <1>3, <2>1, WorkerEnds
<1>4. CASE /\ signed' = [signed EXCEPT ![w] = signed[w] + 1]
           /\ IF fits[w] THEN Goes(w, "post") ELSE Ends(w, "oversize_refused")
  <2>1. signed' \in [FactWorkers -> Nat] /\ signed'[w] = signed[w] + 1
    BY <1>1, <1>4
  <2>2. \A v \in FactWorkers : v # w => signed'[v] = signed[v]
    BY <1>1, <1>4
  <2>3. posts[w] = <<>> /\ server[w] = {} /\ grant[w] # Dormant /\ result[w] = "none"
    BY <1>0 DEF WorkerInv
  <2>4. Len(posts[w]) = 0
    BY <2>3
  <2>5. CASE fits[w] /\ Goes(w, "post")
    <3>1. at' = [at EXCEPT ![w] = "post"] /\ at'[w] = "post" /\ UNCHANGED <<result, reported>>
      BY <1>1, <2>5 DEF Goes
    <3>2. WorkerInv(w)'
      BY <1>0, <2>3, <2>4, <2>5, <3>1 DEF WorkerInv
    <3> QED
      BY <1>0, <1>1, <2>1, <2>2, <3>1, <3>2, WorkerDelivers
  <2>6. CASE Ends(w, "oversize_refused")
    <3>1. /\ at' = [at EXCEPT ![w] = "ended"] /\ at'[w] = "ended"
          /\ result' = [result EXCEPT ![w] = "oversize_refused"]
          /\ reported' = IF w = "coverage" THEN Append(reported, "oversize_refused") ELSE reported
      BY <1>1, <2>6 DEF Ends
    <3>2. /\ result' \in [FactWorkers -> FactResults] /\ result'[w] = "oversize_refused"
          /\ \A v \in FactWorkers : v # w => result'[v] = result[v]
      BY <1>1, <1>2, <3>1
    <3>3. WorkerInv(w)'
      BY <1>0, <2>3, <2>4, <3>1, <3>2 DEF WorkerInv
    <3> QED
      BY <1>0, <1>1, <1>2, <2>1, <2>2, <3>1, <3>2, <3>3, WorkerDelivers
  <2> QED
    BY <1>4, <2>5, <2>6
<1> QED
  BY <1>3, <1>4 DEF Sign

(* One more post of the body that was signed, taken by the server or not.  *)
LEMMA PostKeeps ==
  ASSUME FactsInv, NEW w \in FactWorkers, Post(w)
  PROVE  FactsInv'
<1>0. /\ FactsTypeOK /\ WorkerInv(w) /\ at[w] = "post"
      /\ UNCHANGED <<grant, stamps, facts, fits, signed>>
  BY DEF FactsInv, Post
<1>1. /\ now \in Nat /\ signed \in [FactWorkers -> Nat] /\ posts \in [FactWorkers -> Seq(Nat)]
      /\ server \in [FactWorkers -> SUBSET Nat] /\ result \in [FactWorkers -> FactResults]
      /\ stamps \in [FactWorkers -> Seq(Nat)] /\ at \in [FactWorkers -> FactPlaces]
  BY <1>0 DEF FactsTypeOK
<1>2. /\ ExpiredEnd(w) \in FactResults \ {"submitted"} /\ AfterPosts(w) \in FactResults \ {"submitted"}
      /\ "submitted" \in FactResults
  BY DEF FactResults, ExpiredEnd, AfterPosts
<1>3. CASE Ends(w, ExpiredEnd(w)) /\ UNCHANGED <<now, posts, server>>
  <2>1. StampsKept
    BY <1>0, <1>1 DEF StampsKept, FactWorkers
  <2>2. PICK r \in FactResults \ {"submitted"} : r = ExpiredEnd(w)
    BY <1>2
  <2> QED
    BY <1>0, <1>1, <1>3, <2>1, <2>2, WorkerEnds
<1>4. ASSUME posts' = [posts EXCEPT ![w] = Append(posts[w], signed[w])],
             NEW taken \in BOOLEAN, NEW told \in BOOLEAN,
             server' = IF taken THEN [server EXCEPT ![w] = server[w] \cup {signed[w]}] ELSE server,
             IF taken /\ told THEN Ends(w, "submitted")
             ELSE IF Len(posts[w]) = 1 THEN Ends(w, AfterPosts(w)) ELSE Goes(w, "post"),
             Lasts(AttemptMax)
      PROVE  FactsInv'
  <2>1. now' \in Nat
    BY <1>4, LastsTyped
  <2>2. PICK q \in Seq(Nat) : q = posts[w]
    BY <1>1
  <2>3. PICK n \in Nat : n = signed[w]
    BY <1>1
  <2>4. PICK p \in Seq(Nat) : p = Append(q, n)
    <3>1. q \in Seq(Nat) /\ n \in Nat
      BY <2>2, <2>3
    <3>2. Append(q, n) \in Seq(Nat)
      BY <3>1
    <3> QED
      BY <3>2
  <2>5. /\ posts' \in [FactWorkers -> Seq(Nat)] /\ posts'[w] = p
        /\ \A v \in FactWorkers : v # w => posts'[v] = posts[v]
    BY <1>1, <1>4, <2>2, <2>3, <2>4
  <2>6. /\ fits[w] /\ Len(q) <= 1 /\ \A i \in 1..Len(q) : q[i] = n
        /\ server[w] # {} => server[w] = {n}
        /\ grant[w] # Dormant /\ result[w] = "none"
    BY <1>0, <2>2, <2>3 DEF WorkerInv
  <2>7. Len(p) = Len(q) + 1 /\ Len(q) \in Nat /\ \A i \in 1..Len(p) : p[i] = n
    BY <2>3, <2>4, <2>6
  <2>8. p # <<>> /\ Len(p) <= 2
    BY <2>6, <2>7
  <2>9. /\ server' \in [FactWorkers -> SUBSET Nat]
        /\ \A v \in FactWorkers : v # w => server'[v] = server[v]
        /\ server'[w] = IF taken THEN server[w] \cup {n} ELSE server[w]
    <3>1. CASE taken
      <4>1. server[w] \cup {n} \in SUBSET Nat
        BY <1>1
      <4>2. server' = [server EXCEPT ![w] = server[w] \cup {n}]
        BY <1>4, <2>3, <3>1
      <4> QED
        BY <1>1, <3>1, <4>1, <4>2
    <3>2. CASE ~taken
      BY <1>1, <1>4, <3>2
    <3> QED
      BY <3>1, <3>2
  <2>10. (server'[w] # {} => server'[w] = {n}) /\ (taken => n \in server'[w])
    BY <2>6, <2>9
  <2>11. CASE Ends(w, "submitted") /\ taken
    <3>1. /\ at' = [at EXCEPT ![w] = "ended"] /\ at'[w] = "ended"
          /\ result' = [result EXCEPT ![w] = "submitted"]
          /\ reported' = IF w = "coverage" THEN Append(reported, "submitted") ELSE reported
      BY <1>1, <2>11 DEF Ends
    <3>2. /\ result' \in [FactWorkers -> FactResults]
          /\ \A v \in FactWorkers : v # w => result'[v] = result[v]
      BY <1>1, <1>2, <3>1
    <3>3. WorkerInv(w)'
      BY <1>0, <2>3, <2>5, <2>6, <2>7, <2>8, <2>10, <2>11, <3>1 DEF WorkerInv
    <3> QED
      BY <1>0, <1>1, <1>2, <2>1, <2>5, <2>9, <3>1, <3>2, <3>3, WorkerDelivers
  <2>12. CASE Ends(w, AfterPosts(w))
    <3>1. PICK r \in FactResults \ {"submitted"} : r = AfterPosts(w)
      BY <1>2
    <3>2. /\ at' = [at EXCEPT ![w] = "ended"] /\ at'[w] = "ended" /\ result' = [result EXCEPT ![w] = r]
          /\ reported' = IF w = "coverage" THEN Append(reported, r) ELSE reported
      BY <1>1, <2>12, <3>1 DEF Ends
    <3>3. /\ result' \in [FactWorkers -> FactResults] /\ result'[w] = r
          /\ \A v \in FactWorkers : v # w => result'[v] = result[v]
      BY <1>1, <3>1, <3>2
    <3>4. WorkerInv(w)'
      BY <1>0, <2>3, <2>5, <2>6, <2>7, <2>8, <2>10, <3>1, <3>2, <3>3 DEF WorkerInv
    <3> QED
      BY <1>0, <1>1, <2>1, <2>5, <2>9, <3>1, <3>2, <3>3, <3>4, WorkerDelivers
  <2>13. CASE Len(posts[w]) # 1 /\ Goes(w, "post")
    <3>1. at' = [at EXCEPT ![w] = "post"] /\ at'[w] = "post" /\ UNCHANGED <<result, reported>>
      BY <1>1, <2>13 DEF Goes
    <3>2. Len(p) <= 1
      <4>1. Len(q) # 1
        BY <2>2, <2>13
      <4>2. Len(q) <= 1 /\ Len(q) \in Nat /\ Len(p) = Len(q) + 1
        BY <2>6, <2>7
      <4>3. \A m \in Nat : \A l : m # 1 /\ m <= 1 /\ l = m + 1 => l <= 1
        OBVIOUS
      <4> HIDE <2>4
      <4> QED
        BY <4>1, <4>2, <4>3
    <3>3. WorkerInv(w)'
      BY <1>0, <2>3, <2>5, <2>6, <2>7, <2>8, <2>10, <3>1, <3>2 DEF WorkerInv
    <3> QED
      BY <1>0, <1>1, <2>1, <2>5, <2>9, <3>1, <3>3, WorkerDelivers
  <2> QED
    BY <1>4, <2>11, <2>12, <2>13
<1> QED
  BY <1>3, <1>4 DEF Post

(* Every step of either worker and of their surroundings keeps it.         *)
LEMMA FactsKeeps == FactsInv /\ [FactsNext]_factVars => FactsInv'
<1> SUFFICES ASSUME FactsInv, [FactsNext]_factVars PROVE FactsInv'
  OBVIOUS
<1>0. /\ FactsTypeOK /\ HonouredInv /\ CoverageInv /\ "facts" \in FactWorkers /\ "coverage" \in FactWorkers
      /\ \A v \in FactWorkers : WorkerInv(v)
  BY DEF FactsInv, FactWorkers
<1>1. /\ now \in Nat /\ at \in [FactWorkers -> FactPlaces] /\ stamps \in [FactWorkers -> Seq(Nat)]
      /\ facts \in Seq(FactKinds)
  BY <1>0 DEF FactsTypeOK
<1>2. ASSUME NEW w \in FactWorkers, Unreadable(w) PROVE FactsInv'
  <2>1. /\ at[w] # "ended" /\ Ends(w, "clock_unavailable") /\ now' = now
        /\ UNCHANGED <<grant, stamps, facts, fits, signed, posts, server>>
    BY <1>2 DEF Unreadable
  <2>2. StampsKept
    BY <1>0, <1>1, <2>1 DEF StampsKept
  <2>3. "clock_unavailable" \in FactResults \ {"submitted"}
    BY DEF FactResults
  <2> QED
    BY <1>1, <1>2, <2>1, <2>2, <2>3, WorkerEnds
<1>3. ASSUME NEW w \in FactWorkers, Panics(w) PROVE FactsInv'
  <2>1. /\ at[w] \in {"collect", "begin", "network"} /\ Goes(w, "lost") /\ at' = [at EXCEPT ![w] = "lost"]
        /\ UNCHANGED <<now, grant, stamps, facts, fits, signed, posts, server>>
    BY <1>3 DEF Panics, Goes
  <2>2. "lost" \in FactPlaces \ {"post", "ended"}
    BY DEF FactPlaces
  <2>3. at'["facts"] = at["facts"] \/ at'["facts"] = "lost"
    BY <1>0, <1>1, <2>1
  <2>4. HonouredInv'
    BY <1>0, <2>1, <2>3 DEF HonouredInv, ValidAt
  <2>5. stamps'["coverage"] # <<>> => stamps'["coverage"][1] <= stamps'["coverage"][2]
    BY <1>0, <2>1 DEF CoverageInv
  <2> QED
    BY <1>1, <1>3, <2>1, <2>2, <2>4, <2>5, WorkerGoes
<1>4. ASSUME now' \in Nat, UNCHANGED <<grant, at, stamps, facts, fits, signed, posts, server, result, reported>>
      PROVE  FactsInv'
  <2>1. FactsTypeOK'
    BY <1>0, <1>4 DEF FactsTypeOK
  <2>2. \A w \in FactWorkers : WorkerInv(w)'
    BY <1>0, <1>4 DEF WorkerInv
  <2>3. HonouredInv' /\ CoverageInv'
    BY <1>0, <1>4 DEF HonouredInv, CoverageInv, ValidAt
  <2> QED
    BY <2>1, <2>2, <2>3 DEF FactsInv
<1>5. CASE ClockSetBack
  <2>1. now' \in Nat
    BY <1>5, FactsAssumption DEF ClockSetBack, Instants
  <2> QED
    BY <1>4, <1>5, <2>1 DEF ClockSetBack
<1>6. CASE ProcessExits
  BY <1>1, <1>4, <1>6 DEF ProcessExits
<1>7. CASE UNCHANGED factVars
  BY <1>1, <1>4, <1>7 DEF factVars
<1>8. CASE FactSteps
  BY <1>0, <1>8, FactWorkerKeeps, SignatureKeeps, PostKeeps DEF FactSteps
<1>9. CASE CoverageSteps
  BY <1>0, <1>9, CoverageWorkerKeeps, SignatureKeeps, PostKeeps DEF CoverageSteps
<1> QED
  BY <1>2, <1>3, <1>5, <1>6, <1>7, <1>8, <1>9, LaunchKeeps DEF FactsNext

(* Only a post adds to what was sent, and it reads the clock first.        *)
LEMMA SentKeeps == FactsInv /\ SentInv /\ [FactsNext]_factVars => SentInv'
<1> SUFFICES ASSUME FactsInv, SentInv, [FactsNext]_factVars PROVE SentInv'
  OBVIOUS
<1>1. now \in Nat /\ \A w \in FactWorkers : at[w] = "post" => grant[w] # Dormant
  BY DEF FactsInv, FactsTypeOK, WorkerInv
<1>2. ASSUME UNCHANGED <<postedAt, grant>> PROVE SentInv'
  BY <1>2 DEF SentInv
<1>3. ASSUME NEW w \in FactWorkers, Post(w) PROVE SentInv'
  <2>1. at[w] = "post" /\ UNCHANGED grant
    BY <1>3 DEF Post
  <2>2. CASE now >= grant[w].expires
    BY <1>2, <1>3, <2>1, <2>2 DEF Post
  <2>3. CASE ~(now >= grant[w].expires)
    <3>1. postedAt' = [postedAt EXCEPT ![w] = @ \cup {now}]
      BY <1>3, <2>3 DEF Post
    <3>2. grant[w].expires \in Nat /\ now < grant[w].expires
      BY <1>1, <2>1, <2>3 DEF SentInv
    <3> QED BY <1>1, <2>1, <3>1, <3>2 DEF SentInv
  <2> QED BY <2>2, <2>3
<1>4. "facts" \in FactWorkers /\ "coverage" \in FactWorkers
  BY DEF FactWorkers
<1>5. CASE FactSteps
  BY <1>2, <1>3, <1>4, <1>5
     DEF FactSteps, CheckFacts, BeginFacts, CollectFacts, CompleteFacts, Sign
<1>6. CASE CoverageSteps
  BY <1>2, <1>3, <1>4, <1>6 DEF CoverageSteps, CheckCoverage, HardwareCapture, Network, Sign
<1> QED
  BY <1>2, <1>5, <1>6 DEF FactsNext, Launch, ClockSetBack, ProcessExits, Unreadable, Panics, factVars

(* The invariant says that a grant is spent once, and as it allows.        *)
LEMMA FactsInvSpent == FactsInv /\ SentInv => GrantsSpentOnce
<1> SUFFICES ASSUME FactsInv, SentInv PROVE GrantsSpentOnce
  OBVIOUS
<1>0. /\ FactsTypeOK /\ HonouredInv /\ CoverageInv
      /\ \A v \in FactWorkers : WorkerInv(v)
  BY DEF FactsInv
<1>1. ASSUME NEW w \in FactWorkers
      PROVE  /\ Len(posts[w]) <= 2
             /\ Cardinality(ToSet(posts[w])) <= 1
             /\ server[w] \subseteq ToSet(posts[w])
             /\ result[w] = "submitted" => signed[w] \in server[w]
             /\ posts[w] # <<>> => fits[w]
  <2>0. WorkerInv(w) /\ posts[w] \in Seq(Nat)
    BY <1>0 DEF FactsTypeOK
  <2>1. PICK q \in Seq(Nat) : q = posts[w]
    BY <2>0
  <2>2. \A i \in 1..Len(q) : q[i] = signed[w]
    BY <2>0, <2>1 DEF WorkerInv
  <2>3. ToSet(q) \subseteq {signed[w]}
    BY <2>2 DEF ToSet
  <2>4. Cardinality(ToSet(q)) <= 1
    <3>1. IsFiniteSet({signed[w]}) /\ Cardinality({signed[w]}) = 1
      BY FS_Singleton
    <3> QED
      BY <2>3, <3>1, FS_Subset
  <2>5. q # <<>> => signed[w] \in ToSet(q)
    <3>1. q # <<>> => 1 \in 1..Len(q)
      BY <2>1
    <3> QED
      BY <2>2, <3>1 DEF ToSet
  <2>6. Len(q) <= 2
    <3>1. q = <<>> => Len(q) = 0
      OBVIOUS
    <3> QED
      BY <2>0, <2>1, <3>1 DEF WorkerInv
  <2>7. server[w] \subseteq ToSet(q)
    BY <2>0, <2>1, <2>5 DEF WorkerInv
  <2> QED
    BY <2>0, <2>1, <2>4, <2>6, <2>7 DEF WorkerInv
<1>2. OneBody
  BY <1>0, <1>1 DEF OneBody, HonouredInv, CoverageInv, SentInv
<1>3. GrantHonoured
  BY <1>0 DEF GrantHonoured, HonouredInv, CoverageInv, WorkerInv
<1> QED
  BY <1>2, <1>3 DEF GrantsSpentOnce

(* The other jobs leave the fact workers alone.                            *)
LEMMA FactsMove == [WorkersNext]_workerVars => [FactsNext]_factVars
  BY DEF WorkersNext, workerVars

(* For every set of grants, every delay and every loss, and a clock that   *)
(* may be set back at any moment, a worker offers the server one signed    *)
(* body per grant, at most twice and each time before it expires, of what  *)
(* the grant allowed it to read.                                           *)
THEOREM GrantsAreSpentOnce == WorkersSpec => []GrantsSpentOnce
<1>1. WorkersInit => FactsInv /\ SentInv
  <2> SUFFICES ASSUME WorkersInit PROVE FactsInv /\ SentInv
    OBVIOUS
  <2>1. CASE FactsInit(Grants)
    BY <2>1, FactsStart, NothingSent, JobsAssumption
  <2>2. CASE FactsInit(NoGrants)
    <3>1. \A g \in NoGrants : g["facts"].worker = "none" /\ \A w \in FactWorkers : g[w].worker = "none"
      BY DEF NoGrants, Dormant, FactWorkers
    <3> QED
      BY <2>2, <3>1, FactsStart, NothingSent
  <2> QED
    BY <2>1, <2>2 DEF WorkersInit
<1>2. FactsInv /\ SentInv /\ [WorkersNext]_workerVars => FactsInv' /\ SentInv'
  BY FactsMove, FactsKeeps, SentKeeps
<1> QED
  BY <1>1, <1>2, FactsInvSpent, PTL DEF WorkersSpec
-----------------------------------------------------------------------------
(* NetworkSample.                                                          *)

LegIds == {"down1", "up1", "down10", "up10", "down100"}
Legs ==
  [id : LegIds, status : {"skipped", "unreachable", "failed", "succeeded"}, start : Nat, dur : Nat,
   whole : BOOLEAN]
UdpRecords ==
  [status : {"skipped", "unreachable", "succeeded"}, start : Nat, dur : Nat,
   sent : Seq({"in", "late"}), echoes : SUBSET Nat]

SampleTypeOK ==
  /\ part \in {"prepare", "udp", "legs", "receipt", "inbound", "over"}
  /\ part = "legs" => rung \in 1..5
  /\ rung \in Nat
  /\ elapsed \in 0..Budget
  /\ reach \in [addr4 : BOOLEAN, v4 : BOOLEAN, v6 : BOOLEAN, client : BOOLEAN]
  /\ sent \in Seq({"in", "late"})
  /\ echoed \in SUBSET Nat
  /\ udpAt \in [start : Nat, clock : Nat]
  /\ udp \in UdpRecords
  /\ legs \in Seq(Legs)
  /\ sampleMs \in Nat

\* The UDP record is one the contract admits, but for the stamps it sent at,
\* in a sample of this length.
UdpSound(u, duration) ==
  /\ u.echoes \subseteq 1..Len(u.sent)
  /\ u.status = "succeeded" => u.echoes # {}
  /\ u.status = "skipped" => u.sent = <<>>
  /\ u.dur <= UdpSeconds
  /\ u.start + u.dur <= duration

\* What a leg needs of the one it waits for.
Enough(leg, id, prior) ==
  /\ leg.id = prior
  /\ leg.status = "succeeded"
  /\ leg.dur > 0
  /\ IF id = "down100" THEN leg.dur < 4 ELSE leg.dur <= 2

\* A leg on its own, in a sample of this length.
LegAlone(u, leg, duration) ==
  /\ leg.dur <= LegTimeout[leg.id]
  /\ leg.start + leg.dur <= duration
  /\ leg.start >= u.start + u.dur
  /\ leg.status = "succeeded" => leg.whole
  /\ leg.status = "skipped" => leg.dur = 0 /\ ~leg.whole

\* A leg among the others: after the one before it, and after the one that
\* made it eligible.
LegPlaced(ls, n) ==
  /\ n < Len(ls) => ls[n].start + ls[n].dur <= ls[n + 1].start
  /\ Precursor[ls[n].id] # "none" =>
       \E m \in 1..(n - 1) : Enough(ls[m], ls[n].id, Precursor[ls[n].id])

LegsSound == \A n \in 1..Len(legs) : LegAlone(udp, legs[n], elapsed) /\ LegPlaced(legs, n)

\* Where the sample is: the UDP leg has the time it may take, and what
\* finished is as long as the clock says.
StageInv ==
  /\ part \in {"prepare", "udp"} => legs = <<>> /\ rung = 1 /\ echoed \subseteq 1..Len(sent)
  /\ part = "udp" => udpAt.start = elapsed /\ elapsed + UdpSeconds <= ReceiptBy
  /\ part \in {"inbound", "over"} => sampleMs = elapsed
  /\ reach.v4 \/ reach.v6 => reach.client
  /\ receipt = "agrees" =>
       part \in {"inbound", "over"} /\ reach.client /\ ShapeValid(udp, legs, sampleMs)
  /\ inbound # <<>> => part = "over" /\ BlockValid(inbound) /\ reach.client

\* SampleAdmitted is about a finished sample; the invariant says of every
\* leg, when it is recorded, that it ended by now.
SampleInv == SampleTypeOK /\ UdpSound(udp, elapsed) /\ LegsSound /\ StageInv

(* An empty sample, at the start or after a cancellation.                  *)
LEMMA NothingSampled ==
  ASSUME NEW t \in Nat
  PROVE  SkippedUdp(t) \in UdpRecords /\ UdpSound(SkippedUdp(t), t)
<1>1. <<>> \in Seq({"in", "late"}) /\ {} \in SUBSET Nat
  OBVIOUS
<1>2. SkippedUdp(t) \in UdpRecords
  BY <1>1 DEF SkippedUdp, UdpRecords
<1>3. UdpSound(SkippedUdp(t), t)
  BY DEF SkippedUdp, UdpSound, UdpSeconds
<1> QED
  BY <1>2, <1>3

(* The sample starts, or is over before it starts.                         *)
LEMMA SampleStarts ==
  ASSUME NEW first \in {"prepare", "over"}, SampleInit(first)
  PROVE  SampleInv
<1>1. /\ part = first /\ rung = 1 /\ elapsed = 0 /\ sent = <<>> /\ echoed = {}
      /\ udpAt = [start |-> 0, clock |-> 0] /\ udp = SkippedUdp(0) /\ legs = <<>>
      /\ receipt = "none" /\ sampleMs = 0 /\ inbound = <<>>
      /\ reach = [addr4 |-> FALSE, v4 |-> FALSE, v6 |-> FALSE, client |-> FALSE]
  BY DEF SampleInit
<1>2. udp \in UdpRecords /\ UdpSound(udp, 0)
  BY <1>1, NothingSampled
<1>3. SampleTypeOK
  <2>1. reach \in [addr4 : BOOLEAN, v4 : BOOLEAN, v6 : BOOLEAN, client : BOOLEAN]
    BY <1>1
  <2> QED
    BY <1>1, <1>2, <2>1 DEF SampleTypeOK, Budget
<1>4. LegsSound
  BY <1>1 DEF LegsSound
<1>5. StageInv
  BY <1>1 DEF StageInv
<1> QED
  BY <1>1, <1>2, <1>3, <1>4, <1>5 DEF SampleInv

(* What was sound of the legs is so of a longer sample.                    *)
LEMMA LegsStay ==
  ASSUME SampleTypeOK, LegsSound, elapsed' \in Nat, elapsed <= elapsed', UNCHANGED <<udp, legs>>
  PROVE  LegsSound'
<1> SUFFICES ASSUME NEW n \in 1..Len(legs)
             PROVE  (LegAlone(udp, legs[n], elapsed) /\ LegPlaced(legs, n))'
  BY DEF LegsSound
<1>1. LegAlone(udp, legs[n], elapsed) /\ LegPlaced(legs, n)
  BY DEF LegsSound
<1>2. PICK leg \in Legs : leg = legs[n]
  BY Element DEF SampleTypeOK
<1>3. leg.start \in Nat /\ leg.dur \in Nat /\ elapsed \in Nat
  BY <1>2 DEF Legs, SampleTypeOK, Budget
<1>4. LegAlone(udp, leg, elapsed')
  BY <1>1, <1>2, <1>3 DEF LegAlone
<1> QED
  BY <1>1, <1>2, <1>4

(* One more leg, which starts now.                                         *)
LEMMA LegAdded ==
  ASSUME SampleTypeOK, LegsSound, elapsed' \in Nat, elapsed <= elapsed', UNCHANGED udp,
         NEW leg \in Legs, legs' = Append(legs, leg), leg.start = elapsed,
         LegAlone(udp, leg, elapsed'), Eligible(leg.id)
  PROVE  legs' \in Seq(Legs) /\ LegsSound'
<1>0. legs \in Seq(Legs) /\ elapsed \in Nat
  BY DEF SampleTypeOK, Budget
<1>1. PICK q \in Seq(Legs) : q = Append(legs, leg)
  BY <1>0
<1>2. /\ Len(q) = Len(legs) + 1 /\ Len(legs) \in Nat /\ q[Len(legs) + 1] = leg
      /\ \A m \in 1..Len(legs) : q[m] = legs[m]
  BY <1>0, <1>1
<1>3. ASSUME NEW n \in 1..Len(legs)
      PROVE  LegAlone(udp, q[n], elapsed') /\ LegPlaced(q, n)
  <2>1. LegAlone(udp, legs[n], elapsed) /\ LegPlaced(legs, n) /\ q[n] = legs[n]
    BY <1>2 DEF LegsSound
  <2>2. PICK own \in Legs : own = legs[n]
    BY <1>0, Element
  <2>3. own.start \in Nat /\ own.dur \in Nat
    BY <2>2 DEF Legs
  <2>4. LegAlone(udp, own, elapsed')
    BY <1>0, <2>1, <2>2, <2>3 DEF LegAlone
  <2>5. own.start + own.dur <= leg.start
    BY <2>1, <2>2 DEF LegAlone
  <2>6. n < Len(q) => q[n].start + q[n].dur <= q[n + 1].start
    <3>1. CASE n = Len(legs)
      BY <1>2, <2>1, <2>2, <2>5, <3>1
    <3>2. CASE n < Len(legs)
      <4>1. n + 1 \in 1..Len(legs)
        BY <1>2, <3>2
      <4> QED
        BY <1>2, <2>1, <3>2, <4>1 DEF LegPlaced
    <3> QED
      BY <1>2, <3>1, <3>2
  <2>7. ASSUME Precursor[q[n].id] # "none"
        PROVE  \E m \in 1..(n - 1) : Enough(q[m], q[n].id, Precursor[q[n].id])
    <3>1. PICK m \in 1..(n - 1) : Enough(legs[m], legs[n].id, Precursor[legs[n].id])
      BY <2>1, <2>7 DEF LegPlaced
    <3>2. m \in 1..Len(legs)
      BY <1>2
    <3> QED
      BY <1>2, <2>1, <3>1, <3>2
  <2> QED
    BY <2>1, <2>2, <2>4, <2>6, <2>7 DEF LegPlaced
<1>4. LegPlaced(q, Len(legs) + 1)
  <2>1. ASSUME Precursor[leg.id] # "none"
        PROVE  \E m \in 1..Len(legs) : Enough(q[m], leg.id, Precursor[leg.id])
    <3>1. PICK m \in LegOf(Precursor[leg.id]) :
            /\ legs[m].status = "succeeded" /\ legs[m].dur > 0
            /\ IF leg.id = "down100" THEN legs[m].dur < 4 ELSE legs[m].dur <= 2
      BY <2>1 DEF Eligible
    <3>2. m \in 1..Len(legs) /\ legs[m].id = Precursor[leg.id]
      BY <3>1 DEF LegOf
    <3> QED
      BY <1>2, <3>1, <3>2 DEF Enough
  <2>2. (Len(legs) + 1) - 1 = Len(legs) /\ ~(Len(legs) + 1 < Len(q))
    BY <1>2
  <2> QED
    BY <1>2, <2>1, <2>2 DEF LegPlaced
<1>5. \A n \in 1..Len(q) : LegAlone(udp, q[n], elapsed') /\ LegPlaced(q, n)
  <2> SUFFICES ASSUME NEW n \in 1..Len(q) PROVE LegAlone(udp, q[n], elapsed') /\ LegPlaced(q, n)
    OBVIOUS
  <2>1. n \in 1..Len(legs) \/ n = Len(legs) + 1
    BY <1>2
  <2> QED
    BY <1>2, <1>3, <1>4, <2>1
<1>6. legs' = q
  BY <1>1
<1> QED
  BY <1>5, <1>6 DEF LegsSound

(* A leg that is recorded fits the time that was left for it.              *)
LEMMA LegRecorded ==
  ASSUME SampleTypeOK, UdpSound(udp, elapsed), NEW id \in LegIds, NEW d \in Nat, NEW leg, NEW later,
         \/ leg = Record(id, "skipped", 0, FALSE) /\ later = elapsed
         \/ /\ leg \in Transfers(id, d) /\ later = Capped(elapsed + d)
            /\ elapsed + LegTimeout[id] <= ReceiptBy
  PROVE  /\ leg \in Legs /\ leg.id = id /\ leg.start = elapsed
         /\ later \in 0..Budget /\ elapsed <= later
         /\ LegAlone(udp, leg, later)
<1>0. elapsed \in Nat /\ elapsed <= 30 /\ Budget = 30 /\ ReceiptBy = 29
  BY DEF SampleTypeOK, Budget, ReceiptBy
<1>1. LegTimeout[id] \in Nat
  BY DEF LegTimeout, LegIds
<1>2. later \in 0..Budget /\ elapsed <= later
  <2>1. later = elapsed \/ later = Capped(elapsed + d)
    OBVIOUS
  <2>2. Capped(elapsed + d) \in 0..30 /\ elapsed <= Capped(elapsed + d)
    BY <1>0 DEF Capped
  <2> QED
    BY <1>0, <2>1, <2>2
<1>3. /\ udp.start \in Nat /\ udp.dur \in Nat /\ udp.start + udp.dur <= elapsed
  BY DEF SampleTypeOK, UdpRecords, UdpSound
<1>4. ASSUME NEW status \in {"skipped", "unreachable", "failed", "succeeded"}, NEW dur \in Nat,
             NEW whole \in BOOLEAN, leg = Record(id, status, dur, whole), dur <= LegTimeout[id],
             elapsed + dur <= later, status = "succeeded" => whole, status = "skipped" => dur = 0 /\ ~whole
      PROVE  leg \in Legs /\ leg.id = id /\ leg.start = elapsed /\ LegAlone(udp, leg, later)
  <2>1. leg = [id |-> id, status |-> status, start |-> elapsed, dur |-> dur, whole |-> whole]
    BY <1>4 DEF Record
  <2>2. leg \in Legs /\ leg.id = id /\ leg.start = elapsed /\ leg.dur = dur /\ leg.status = status /\ leg.whole = whole
    BY <1>0, <2>1 DEF Legs
  <2> QED
    BY <1>3, <1>4, <2>2 DEF LegAlone
<1>5. CASE leg = Record(id, "skipped", 0, FALSE)
  <2>1. 0 <= LegTimeout[id] /\ elapsed + 0 <= later
    BY <1>0, <1>1, <1>2
  <2> QED
    BY <1>2, <1>4, <1>5, <2>1
<1>6. CASE /\ leg \in Transfers(id, d) /\ later = Capped(elapsed + d)
           /\ elapsed + LegTimeout[id] <= ReceiptBy
  <2>1. CASE leg = Record(id, "unreachable", 0, FALSE)
    <3>1. 0 <= LegTimeout[id] /\ elapsed + 0 <= later
      BY <1>0, <1>1, <1>2
    <3> QED
      BY <1>2, <1>4, <2>1, <3>1
  <2>2. CASE leg = Record(id, "failed", Earlier(d, LegTimeout[id]), FALSE)
    <3>1. PICK e \in Nat : e = Earlier(d, LegTimeout[id])
      BY <1>1 DEF Earlier
    <3>2. e <= d /\ e <= LegTimeout[id]
      BY <1>1, <3>1 DEF Earlier
    <3>3. elapsed + e <= later
      BY <1>0, <1>1, <1>6, <3>2 DEF Capped
    <3> QED
      BY <1>2, <1>4, <2>2, <3>1, <3>2, <3>3
  <2>3. CASE leg = Record(id, "succeeded", d, TRUE) /\ d <= LegTimeout[id]
    <3>1. elapsed + d <= later
      BY <1>0, <1>1, <1>6, <2>3 DEF Capped
    <3> QED
      BY <1>2, <1>4, <2>3, <3>1
  <2> QED
    BY <1>6, <2>1, <2>2, <2>3 DEF Transfers
<1> QED
  BY <1>5, <1>6

(* The ladder, one rung at a time.                                         *)
LEMMA LegKeeps ==
  ASSUME SampleInv, RunLeg
  PROVE  SampleInv'
<1>0. SampleTypeOK /\ UdpSound(udp, elapsed) /\ LegsSound /\ StageInv
  BY DEF SampleInv
<1>1. /\ part = "legs" /\ part' \in {"legs", "receipt"} /\ rung' = rung + 1
      /\ part' = IF rung = Len(LegLadder) THEN "receipt" ELSE part
      /\ UNCHANGED <<reach, sent, echoed, udpAt, udp, receipt, sampleMs, inbound>>
  BY DEF RunLeg
<1>2. rung \in 1..5 /\ Len(LegLadder) = 5
  BY <1>0, <1>1 DEF SampleTypeOK, LegLadder
<1>3. PICK id \in LegIds : id = LegLadder[rung]
  BY <1>2 DEF LegLadder, LegIds
<1>4. legs' \in Seq(Legs) /\ elapsed' \in 0..Budget /\ elapsed <= elapsed' /\ LegsSound'
  <2>0. legs \in Seq(Legs) /\ elapsed \in Nat /\ elapsed \in 0..Budget /\ Budget \in Nat
    BY <1>0 DEF SampleTypeOK, Budget
  <2>1. CASE UNCHANGED <<legs, elapsed>>
    BY <1>0, <1>1, <2>0, <2>1, LegsStay
  <2>2. ASSUME NEW d \in Nat, NEW leg, Eligible(id), legs' = Append(legs, leg),
               \/ leg = Record(id, "skipped", 0, FALSE) /\ elapsed' = elapsed
               \/ /\ leg \in Transfers(id, d) /\ elapsed' = Capped(elapsed + d)
                  /\ elapsed + LegTimeout[id] <= ReceiptBy
        PROVE  legs' \in Seq(Legs) /\ elapsed' \in 0..Budget /\ elapsed <= elapsed' /\ LegsSound'
    <3>1. /\ leg \in Legs /\ leg.id = id /\ leg.start = elapsed
          /\ elapsed' \in 0..Budget /\ elapsed <= elapsed'
          /\ LegAlone(udp, leg, elapsed')
      <4>1. PICK later : later = elapsed'
        OBVIOUS
      <4>2. \/ leg = Record(id, "skipped", 0, FALSE) /\ later = elapsed
            \/ /\ leg \in Transfers(id, d) /\ later = Capped(elapsed + d)
               /\ elapsed + LegTimeout[id] <= ReceiptBy
        BY <2>2, <4>1
      <4> QED
        BY <1>0, <4>1, <4>2, LegRecorded
    <3>2. elapsed' \in Nat
      BY <2>0, <3>1
    <3> QED
      BY <1>0, <1>1, <2>2, <3>1, <3>2, LegAdded
  <2>3. CASE /\ Eligible(id)
             /\ legs' = Append(legs, Record(id, "skipped", 0, FALSE))
             /\ UNCHANGED elapsed
    BY <2>2, <2>3
  <2>4. CASE /\ Eligible(id)
             /\ elapsed + LegTimeout[id] <= ReceiptBy
             /\ \E d \in IF reach.client THEN Durations ELSE {0} :
                  /\ elapsed' = Capped(elapsed + d)
                  /\ \E leg \in Transfers(id, d) : legs' = Append(legs, leg)
    <3>1. PICK d \in Nat : /\ elapsed' = Capped(elapsed + d)
                           /\ \E leg \in Transfers(id, d) : legs' = Append(legs, leg)
      BY <2>4, SampleAssumption
    <3>2. PICK leg \in Transfers(id, d) : legs' = Append(legs, leg)
      BY <3>1
    <3> QED
      BY <2>2, <2>4, <3>1, <3>2
  <2> QED
    BY <1>3, <2>1, <2>3, <2>4 DEF RunLeg
<1>5. SampleTypeOK'
  <2>1. part' = "legs" => rung' \in 1..5
    BY <1>1, <1>2
  <2> QED
    BY <1>0, <1>1, <1>2, <1>4, <2>1 DEF SampleTypeOK
<1>6. UdpSound(udp, elapsed)'
  BY <1>0, <1>1, <1>4 DEF UdpSound, SampleTypeOK, UdpRecords, Budget
<1>7. StageInv'
  BY <1>0, <1>1 DEF StageInv
<1> QED
  BY <1>4, <1>5, <1>6, <1>7 DEF SampleInv

(* The UDP leg: it is over by its stop, and the record is of its time.     *)
LEMMA UdpKeeps ==
  ASSUME SampleInv, Prepare \/ UdpWaits \/ UdpSends \/ UdpEchoes \/ UdpEnds
  PROVE  SampleInv'
<1>0. /\ SampleTypeOK /\ UdpSound(udp, elapsed) /\ LegsSound /\ StageInv
      /\ part \in {"prepare", "udp"} /\ UNCHANGED <<rung, legs, receipt, sampleMs, inbound>>
  BY DEF SampleInv, Prepare, UdpWaits, UdpSends, UdpEchoes, UdpEnds
<1>1. legs = <<>> /\ legs' = <<>> /\ receipt' # "agrees" /\ inbound' = <<>>
  BY <1>0 DEF StageInv
<1>2. LegsSound'
  BY <1>1 DEF LegsSound
<1>3. /\ elapsed \in Nat /\ elapsed <= 30 /\ rung \in Nat /\ sent \in Seq({"in", "late"})
      /\ echoed \in SUBSET Nat /\ udpAt \in [start : Nat, clock : Nat] /\ Budget = 30
      /\ ReceiptBy = 29 /\ UdpSeconds = 3
  BY <1>0 DEF SampleTypeOK, Budget, ReceiptBy, UdpSeconds
<1>10. rung' = 1 /\ rung' \in 1..5 /\ rung' \in Nat /\ sampleMs' \in Nat /\ legs' \in Seq(Legs)
  BY <1>0, <1>1 DEF StageInv, SampleTypeOK
<1>4. CASE Prepare
  <2>1. PICK d \in {0, 2, 27} : elapsed' = Capped(elapsed + d)
    BY <1>4 DEF Prepare, Budget, UdpSeconds
  <2>2. elapsed' \in Nat /\ elapsed' <= 30
    BY <1>3, <2>1 DEF Capped
  <2>3. /\ udp' = SkippedUdp(elapsed') /\ udpAt' = [start |-> elapsed', clock |-> 0]
        /\ part' = IF elapsed' + UdpSeconds <= ReceiptBy THEN "udp" ELSE "legs"
        /\ UNCHANGED <<sent, echoed>> /\ part = "prepare"
    BY <1>4 DEF Prepare
  <2>4. /\ reach' \in [addr4 : BOOLEAN, v4 : BOOLEAN, v6 : BOOLEAN, client : BOOLEAN]
        /\ reach'.v4 \/ reach'.v6 => reach'.client
    <3>1. PICK v4 \in BOOLEAN, v6 \in BOOLEAN, a \in BOOLEAN :
            reach' = [addr4 |-> a \/ v4, v4 |-> v4, v6 |-> v6, client |-> v4 \/ v6]
      BY <1>4 DEF Prepare
    <3> QED
      BY <3>1
  <2>5. udp' \in UdpRecords /\ UdpSound(udp, elapsed)'
    BY <2>2, <2>3, NothingSampled
  <2>6. SampleTypeOK'
    <3>1. udpAt' \in [start : Nat, clock : Nat]
      BY <2>2, <2>3
    <3>2. part' \in {"udp", "legs"} /\ elapsed' \in 0..Budget
      BY <1>3, <2>2, <2>3
    <3> QED
      BY <1>0, <1>10, <2>3, <2>4, <2>5, <3>1, <3>2 DEF SampleTypeOK
  <2>7. StageInv'
    BY <1>0, <1>1, <1>3, <2>3, <2>4 DEF StageInv
  <2> QED
    BY <1>2, <2>5, <2>6, <2>7 DEF SampleInv
<1>5. ASSUME UNCHANGED <<part, rung, elapsed, reach, udp>>, part = "udp",
             udpAt' \in [start : Nat, clock : Nat], udpAt'.start = udpAt.start,
             sent' \in Seq({"in", "late"}), echoed' \in SUBSET Nat, echoed' \subseteq 1..Len(sent')
      PROVE  SampleInv'
  <2>1. SampleTypeOK'
    BY <1>0, <1>1, <1>5 DEF SampleTypeOK
  <2>2. StageInv'
    BY <1>0, <1>1, <1>5 DEF StageInv
  <2>3. UdpSound(udp, elapsed)'
    BY <1>0, <1>5 DEF UdpSound
  <2> QED
    BY <1>2, <2>1, <2>2, <2>3 DEF SampleInv
<1>6. CASE UdpWaits
  <2>1. PICK d \in 1..3 : udpAt' = [udpAt EXCEPT !.clock = udpAt.clock + d]
    BY <1>6 DEF UdpWaits, UdpSeconds
  <2>2. udpAt' \in [start : Nat, clock : Nat] /\ udpAt'.start = udpAt.start
    BY <1>3, <2>1
  <2> QED
    BY <1>0, <1>3, <1>5, <1>6, <2>2 DEF UdpWaits, StageInv
<1>7. CASE UdpSends
  <2>1. PICK e \in {"in", "late"} : sent' = Append(sent, e)
    BY <1>7 DEF UdpSends
  <2>2. sent' \in Seq({"in", "late"}) /\ Len(sent') = Len(sent) + 1 /\ Len(sent) \in Nat
    <3>1. Append(sent, e) \in Seq({"in", "late"}) /\ Len(Append(sent, e)) = Len(sent) + 1
      BY <1>3, <2>1, AppendKeeps
    <3> QED
      BY <1>3, <2>1, <3>1
  <2>3. echoed' = echoed /\ echoed \subseteq 1..Len(sent)
    BY <1>0, <1>7 DEF UdpSends, StageInv
  <2>4. echoed' \subseteq 1..Len(sent')
    BY <2>2, <2>3
  <2> QED
    BY <1>3, <1>5, <1>7, <2>2, <2>3, <2>4 DEF UdpSends
<1>8. CASE UdpEchoes
  <2>1. PICK n \in 1..Len(sent) : echoed' = echoed \cup {n}
    BY <1>8 DEF UdpEchoes
  <2>2. echoed \subseteq 1..Len(sent) /\ sent' = sent /\ udpAt' = udpAt
    BY <1>0, <1>8 DEF UdpEchoes, StageInv
  <2>3. echoed' \in SUBSET Nat /\ echoed' \subseteq 1..Len(sent')
    BY <1>3, <2>1, <2>2
  <2> QED
    BY <1>3, <1>5, <1>8, <2>2, <2>3 DEF UdpEchoes
<1>9. CASE UdpEnds
  <2>1. /\ part = "udp" /\ part' = "legs" /\ sent' = <<>> /\ echoed' = {}
        /\ udpAt' = [start |-> 0, clock |-> 0] /\ UNCHANGED reach
        /\ elapsed' = Capped(elapsed + udpAt.clock)
    BY <1>9 DEF UdpEnds
  <2>2. /\ udpAt.start = elapsed /\ elapsed + 3 <= 29 /\ echoed \subseteq 1..Len(sent)
        /\ udpAt.clock \in Nat
    BY <1>0, <1>3, <2>1 DEF StageInv
  <2>3. PICK c \in Nat : c = udpAt.clock
    BY <2>2
  <2>4. PICK e \in Nat : e = Earlier(c, 3)
    BY DEF Earlier
  <2>5. e <= 3 /\ e <= c
    BY <2>4 DEF Earlier
  <2>6. elapsed' \in Nat /\ elapsed' <= 30 /\ elapsed + e <= elapsed'
    BY <1>3, <2>1, <2>2, <2>3, <2>5 DEF Capped
  <2>7. PICK u : /\ u = udp'
                 /\ u = [status |-> IF echoed # {} THEN "succeeded" ELSE "unreachable",
                         start |-> elapsed, dur |-> e, sent |-> sent, echoes |-> echoed]
    BY <1>3, <1>9, <2>2, <2>3, <2>4 DEF UdpEnds
  <2>8. /\ u.start = elapsed /\ u.dur = e /\ u.sent = sent /\ u.echoes = echoed
        /\ u.status = IF echoed # {} THEN "succeeded" ELSE "unreachable"
        /\ u \in UdpRecords
    BY <1>3, <2>4, <2>7 DEF UdpRecords
  <2>9. UdpSound(u, elapsed')
    BY <1>3, <2>2, <2>5, <2>6, <2>8 DEF UdpSound
  <2>10. SampleTypeOK'
    <3>1. udpAt' \in [start : Nat, clock : Nat] /\ sent' \in Seq({"in", "late"}) /\ echoed' \in SUBSET Nat
      BY <2>1
    <3>2. elapsed' \in 0..Budget /\ udp' \in UdpRecords
      BY <1>3, <2>6, <2>7, <2>8
    <3> QED
      BY <1>0, <1>10, <2>1, <3>1, <3>2 DEF SampleTypeOK
  <2>11. StageInv'
    BY <1>0, <1>1, <2>1 DEF StageInv
  <2> QED
    BY <1>2, <2>7, <2>9, <2>10, <2>11 DEF SampleInv
<1> QED
  BY <1>4, <1>6, <1>7, <1>8, <1>9

(* Where no more than one datagram was sent at the stop, the contract      *)
(* admits what the invariant says of the sample.                           *)
LEMMA ShapeSound ==
  ASSUME SampleTypeOK, UdpSound(udp, elapsed), LegsSound
  PROVE  ShapeValid(udp, legs, elapsed) \/ LateSends
<1>1. PICK late : late = {n \in 1..Len(udp.sent) : udp.sent[n] = "late"}
  OBVIOUS
<1>2. Cardinality(late) \in Nat
  <2>1. Len(udp.sent) \in Nat
    BY DEF SampleTypeOK, UdpRecords
  <2>2. IsFiniteSet(1..Len(udp.sent))
    BY <2>1, FS_Interval
  <2>3. IsFiniteSet(late)
    BY <1>1, <2>2, FS_Subset
  <2> QED
    BY <2>3, FS_CardinalityType
<1>3. CASE Cardinality(late) > 1
  BY <1>1, <1>3 DEF LateSends
<1>4. CASE Cardinality(late) <= 1
  <2>1. ASSUME NEW n \in 1..Len(legs)
        PROVE  LegAlone(udp, legs[n], elapsed) /\ LegPlaced(legs, n)
    BY DEF LegsSound
  <2> QED
    BY <1>1, <1>4, <2>1 DEF ShapeValid, UdpSound, LegAlone, LegPlaced, Enough
<1> QED
  BY <1>2, <1>3, <1>4

(* The receipt, and a sample that is given up.                             *)
LEMMA ReceiptKeeps ==
  ASSUME SampleInv, TakeReceipt \/ Cancelled
  PROVE  SampleInv'
<1>0. SampleTypeOK /\ UdpSound(udp, elapsed) /\ LegsSound /\ StageInv
  BY DEF SampleInv
<1>1. /\ elapsed \in Nat /\ elapsed <= 30 /\ Budget = 30 /\ ReceiptBy = 29
      /\ udp.start \in Nat /\ udp.dur \in Nat
  BY <1>0 DEF SampleTypeOK, Budget, ReceiptBy, UdpRecords
<1>2. CASE TakeReceipt
  <2>1. PICK d \in {0, 1} : elapsed' = IF elapsed <= ReceiptBy THEN Capped(elapsed + d) ELSE elapsed
    BY <1>2 DEF TakeReceipt
  <2>2. elapsed' \in Nat /\ elapsed <= elapsed' /\ elapsed' <= 30
    BY <1>1, <2>1 DEF Capped
  <2>3. /\ part = "receipt" /\ part' = "inbound" /\ sampleMs' = elapsed'
        /\ UNCHANGED <<rung, reach, sent, echoed, udpAt, udp, legs, inbound>>
    BY <1>2 DEF TakeReceipt
  <2>4. receipt' = "agrees" => reach.client /\ ShapeValid(udp, legs, sampleMs')
    <3>1. PICK r \in IF elapsed <= ReceiptBy THEN Receipts ELSE {"unavailable"} :
            receipt' = IF r = "agrees" /\ ShapeValid(udp, legs, sampleMs') THEN "agrees" ELSE "unavailable"
      BY <1>2 DEF TakeReceipt
    <3>2. r = "agrees" => reach.client
      BY <3>1 DEF Receipts
    <3> QED
      BY <3>1, <3>2
  <2>5. (receipt = "agrees" => reach.client /\ ShapeValid(udp, legs, sampleMs))'
    BY <2>3, <2>4 DEF ShapeValid
  <2>6. SampleTypeOK'
    BY <1>0, <1>1, <2>2, <2>3 DEF SampleTypeOK
  <2>7. UdpSound(udp, elapsed)'
    BY <1>0, <1>1, <2>2, <2>3 DEF UdpSound
  <2>8. LegsSound'
    BY <1>0, <2>2, <2>3, LegsStay
  <2>9. StageInv'
    BY <1>0, <2>3, <2>5 DEF StageInv
  <2> QED
    BY <2>6, <2>7, <2>8, <2>9 DEF SampleInv
<1>3. CASE Cancelled
  <2>1. /\ part \notin {"inbound", "over"} /\ part' = "inbound" /\ udp' = SkippedUdp(0) /\ legs' = <<>>
        /\ receipt' = "none" /\ sampleMs' = 30 /\ elapsed' = 30
        /\ UNCHANGED <<rung, reach, sent, echoed, udpAt, inbound>>
    BY <1>3 DEF Cancelled, Budget
  <2>2. udp' \in UdpRecords /\ UdpSound(udp', 0)
    BY <2>1, NothingSampled
  <2>3. UdpSound(udp, elapsed)'
    BY <2>1, <2>2 DEF UdpSound, SkippedUdp
  <2>4. SampleTypeOK'
    BY <1>0, <1>1, <2>1, <2>2 DEF SampleTypeOK
  <2>5. LegsSound'
    BY <2>1 DEF LegsSound
  <2>6. StageInv'
    BY <1>0, <2>1 DEF StageInv
  <2> QED
    BY <2>3, <2>4, <2>5, <2>6 DEF SampleInv
<1> QED
  BY <1>2, <1>3

(* The inbound check carries a block that validates, or none.              *)
LEMMA InboundKeeps ==
  ASSUME SampleInv, InboundCheck
  PROVE  SampleInv'
<1>0. SampleTypeOK /\ UdpSound(udp, elapsed) /\ LegsSound /\ StageInv
  BY DEF SampleInv
<1>1. /\ part = "inbound" /\ part' = "over"
      /\ UNCHANGED <<rung, elapsed, reach, sent, echoed, udpAt, udp, legs, receipt, sampleMs>>
  BY DEF InboundCheck
<1>2. ASSUME inbound' # <<>> PROVE BlockValid(inbound') /\ reach.client
  <2>1. PICK a \in Verdicts("v4"), b \in Verdicts("v6") :
          inbound' = IF BlockValid(a \o b) THEN a \o b ELSE <<>>
    BY <1>2 DEF InboundCheck
  <2>2. BlockValid(inbound')
    BY <1>2, <2>1
  <2>3. reach.v4 \/ reach.v6
    <3>1. ASSUME ~reach.v4, ~reach.v6 PROVE FALSE
      <4>1. reach["v4"] = reach.v4 /\ reach["v6"] = reach.v6
        OBVIOUS
      <4>2. a = <<>> /\ b = <<>>
        BY <3>1, <4>1 DEF Verdicts
      <4>3. <<>> \o <<>> = <<>>
        OBVIOUS
      <4> QED
        BY <1>2, <2>1, <4>2, <4>3
    <3> QED
      BY <3>1
  <2> QED
    BY <1>0, <2>2, <2>3 DEF StageInv
<1>3. (inbound # <<>> => BlockValid(inbound) /\ reach.client)'
  BY <1>1, <1>2 DEF BlockValid
<1>4. SampleTypeOK'
  BY <1>0, <1>1 DEF SampleTypeOK
<1>5. UdpSound(udp, elapsed)' /\ LegsSound'
  BY <1>0, <1>1 DEF UdpSound, LegsSound, LegAlone, LegPlaced, Enough
<1>6. StageInv'
  <2>1. (receipt = "agrees" => reach.client /\ ShapeValid(udp, legs, sampleMs))'
    BY <1>0, <1>1 DEF StageInv, ShapeValid
  <2> QED
    BY <1>0, <1>1, <1>3, <2>1 DEF StageInv
<1> QED
  BY <1>4, <1>5, <1>6 DEF SampleInv

(* Every stage of the sample keeps it.                                     *)
LEMMA SampleKeeps == SampleInv /\ [SampleNext]_sampleVars => SampleInv'
<1> SUFFICES ASSUME SampleInv, [SampleNext]_sampleVars PROVE SampleInv'
  OBVIOUS
<1>1. CASE UNCHANGED sampleVars
  <2>1. SampleTypeOK /\ UdpSound(udp, elapsed) /\ LegsSound /\ StageInv
    BY DEF SampleInv
  <2>2. SampleTypeOK'
    BY <1>1, <2>1 DEF sampleVars, SampleTypeOK
  <2>3. UdpSound(udp, elapsed)' /\ LegsSound'
    BY <1>1, <2>1 DEF sampleVars, UdpSound, LegsSound, LegAlone, LegPlaced, Enough
  <2>4. StageInv'
    BY <1>1, <2>1 DEF sampleVars, StageInv, ShapeValid, BlockValid
  <2> QED
    BY <2>2, <2>3, <2>4 DEF SampleInv
<1> QED
  BY <1>1, UdpKeeps, LegKeeps, ReceiptKeeps, InboundKeeps DEF SampleNext

(* The invariant says that a finished sample is admitted.                  *)
LEMMA SampleInvAdmitted == SampleInv => SampleAdmitted
<1> SUFFICES ASSUME SampleInv, part = "over" PROVE SampleAdmitted
  BY DEF SampleAdmitted
<1>0. SampleTypeOK /\ UdpSound(udp, elapsed) /\ LegsSound /\ StageInv
  BY DEF SampleInv
<1>1. sampleMs = elapsed /\ elapsed <= Budget
  BY <1>0 DEF StageInv, SampleTypeOK, Budget
<1>2. ShapeValid(udp, legs, sampleMs) \/ LateSends
  BY <1>0, <1>1, ShapeSound
<1> QED
  BY <1>0, <1>1, <1>2 DEF SampleAdmitted, StageInv

(* The other jobs leave the sample alone.                                  *)
LEMMA SampleMoves == [WorkersNext]_workerVars => [SampleNext]_sampleVars
  BY DEF WorkersNext, workerVars

(* Whatever the stages of a sample take, and whatever of it is skipped,    *)
(* stalled or cancelled, the contract admits what is left of it, and a     *)
(* receipt is carried only beside the legs it agrees with.                 *)
THEOREM SampleIsAdmitted == WorkersSpec => []SampleAdmitted
<1>1. WorkersInit => SampleInv
  <2> SUFFICES ASSUME WorkersInit PROVE SampleInv
    OBVIOUS
  <2>1. SampleInit("prepare") \/ SampleInit("over")
    BY DEF WorkersInit
  <2> QED
    BY <2>1, SampleStarts
<1>2. SampleInv /\ [WorkersNext]_workerVars => SampleInv'
  BY SampleMoves, SampleKeeps
<1> QED
  BY <1>1, <1>2, SampleInvAdmitted, PTL DEF WorkersSpec
-----------------------------------------------------------------------------
(* HostSamplers.                                                           *)

Asked == [beat : 1..MaxBeats, tree : BOOLEAN]

\* The channels hold one item at most, and no item waits for a dead thread.
Channels ==
  /\ requests = <<>> \/ \E r \in Asked : requests = <<r>>
  /\ replies = <<>>
     \/ \E r \in Asked : \E s : replies = <<[beat |-> r.beat, tree |-> r.tree, summary |-> s]>>
  /\ thread \in Asked \cup {Waiting, Dead}
  /\ thread = Dead => requests = <<>>

\* No read is on its way between the two threads.
Quiet == requests = <<>> /\ replies = <<>> /\ thread \in {Waiting, Dead}

\* What is on its way is one item.
Single ==
  /\ requests # <<>> => replies = <<>> /\ thread \in {Waiting, Dead}
  /\ replies # <<>> => thread \in {Waiting, Dead}

\* What is on its way was asked for by this beat.
Fresh ==
  /\ requests # <<>> => requests[1].beat = beat
  /\ replies # <<>> => replies[1].beat = beat
  /\ thread \notin {Waiting, Dead} => thread.beat = beat

\* SampleFresh is not inductive: whether the next reply is of this beat
\* depends on outstanding, which is FALSE only when nothing is on its way.
SamplerInv ==
  /\ beat \in 0..MaxBeats
  /\ caller \in {"idle", "drain", "send", "wait"}
  /\ outstanding \in BOOLEAN
  /\ caller # "idle" => beat \in 1..MaxBeats
  /\ Channels
  /\ Single
  /\ caller = "drain" => outstanding
  /\ caller \in {"send", "wait"} => ~outstanding
  /\ caller \in {"idle", "send"} /\ ~outstanding => Quiet
  /\ caller = "wait" => Fresh
  /\ caller = "idle" /\ sampled.beat # 0 => sampled.beat = beat

(* The markers are not requests of a beat. *)
LEMMA Markers == Waiting # Dead /\ Waiting \notin Asked /\ Dead \notin Asked
  BY SamplersAssumption DEF Waiting, Dead, Asked

(* The invariant holds at the start, with or without a thread. *)
LEMMA SamplersStart ==
  ASSUME NEW hosts, NEW beats \in 0..MaxBeats, SamplersInit(hosts, beats)
  PROVE  SamplerInv
<1>1. Quiet /\ Channels /\ Single
  BY Markers DEF SamplersInit, Quiet, Channels, Single
<1>2. sampled.beat = 0
  BY DEF SamplersInit, Unread
<1>3. beat \in 0..MaxBeats /\ caller = "idle" /\ outstanding = FALSE
  BY SamplersAssumption DEF SamplersInit
<1> QED
  BY <1>1, <1>2, <1>3 DEF SamplerInv

(* Every step of either thread keeps it. *)
LEMMA SamplersKeep == SamplerInv /\ [SamplersNext]_samplerVars => SamplerInv'
<1> SUFFICES ASSUME SamplerInv, [SamplersNext]_samplerVars PROVE SamplerInv'
  OBVIOUS
<1> USE Markers, SamplersAssumption DEF SamplerInv
<1>1. CASE Sample
  BY <1>1 DEF Sample, Channels, Single, Quiet, Fresh, Unread
<1>2. CASE Drain
  <2>1. CASE replies # <<>> /\ outstanding' = FALSE /\ replies' = <<>> /\ caller' = "send"
    BY <1>2, <2>1 DEF Drain, Channels, Single, Quiet, Fresh
  <2>2. CASE replies = <<>> /\ Fails(thread # Dead) /\ UNCHANGED <<replies, outstanding>>
    BY <1>2, <2>2 DEF Drain, Fails, Channels, Single, Quiet, Fresh, Unread
  <2> QED
    BY <1>2, <2>1, <2>2 DEF Drain
<1>3. CASE Send
  BY <1>3 DEF Send, Fails, Channels, Single, Quiet, Fresh, Unread, Asked
<1>4. CASE Receive
  <2>1. CASE replies # <<>> /\ sampled' = replies[1] /\ replies' = <<>> /\ caller' = "idle"
             /\ UNCHANGED <<worker, outstanding>>
    BY <1>4, <2>1 DEF Receive, Channels, Single, Quiet, Fresh
  <2>2. CASE replies = <<>> /\ Fails(thread # Dead) /\ outstanding' = (thread # Dead)
             /\ UNCHANGED replies
    BY <1>4, <2>2 DEF Receive, Fails, Channels, Single, Quiet, Fresh, Unread
  <2> QED
    BY <1>4, <2>1, <2>2 DEF Receive
<1>5. CASE TakeRequest
  BY <1>5 DEF TakeRequest, Channels, Single, Quiet, Fresh
<1>6. CASE ReplySummary
  BY <1>6 DEF ReplySummary, Channels, Single, Quiet, Fresh
<1>7. CASE ThreadDies
  BY <1>7 DEF ThreadDies, Channels, Single, Quiet, Fresh
<1>8. CASE UNCHANGED samplerVars
  BY <1>8 DEF samplerVars, Channels, Single, Quiet, Fresh
<1> QED
  BY <1>1, <1>2, <1>3, <1>4, <1>5, <1>6, <1>7, <1>8 DEF SamplersNext, SamplersCaller

(* The invariant says that one read is in flight and samples are fresh. *)
LEMMA SamplerInvFresh == SamplerInv => SampleFresh
<1> SUFFICES ASSUME SamplerInv PROVE InFlight <= 1
  BY DEF SamplerInv, SampleFresh
<1>1. Len(requests) = 0 \/ (Len(requests) = 1 /\ requests # <<>>)
  BY DEF SamplerInv, Channels
<1>2. Len(replies) = 0 \/ (Len(replies) = 1 /\ replies # <<>>)
  BY DEF SamplerInv, Channels
<1>3. (replies = <<>> => Len(replies) = 0) /\ (requests = <<>> => Len(requests) = 0)
  OBVIOUS
<1>4. Single
  BY DEF SamplerInv
<1>5. CASE requests # <<>>
  <2>1. Len(requests) = 1 /\ Len(replies) = 0 /\ thread \in {Waiting, Dead}
    BY <1>1, <1>3, <1>4, <1>5 DEF Single
  <2> QED
    BY <2>1 DEF InFlight
<1>6. CASE requests = <<>>
  <2>1. Len(requests) = 0
    BY <1>3, <1>6
  <2>2. Len(replies) = 0 \/ (Len(replies) = 1 /\ thread \in {Waiting, Dead})
    BY <1>2, <1>4 DEF Single
  <2>3. CASE Len(replies) = 0
    BY <2>1, <2>3 DEF InFlight
  <2>4. CASE Len(replies) = 1 /\ thread \in {Waiting, Dead}
    BY <2>1, <2>4 DEF InFlight
  <2> QED
    BY <2>2, <2>3, <2>4
<1> QED
  BY <1>5, <1>6

(* The other jobs leave the samplers alone.                                *)
LEMMA SamplersMove == [WorkersNext]_workerVars => [SamplersNext]_samplerVars
  BY DEF WorkersNext, workerVars

(* Worker::sample_within never returns the reading of an earlier beat, and *)
(* a read that hangs parks one thread, not one per beat: for every host    *)
(* and any number of beats.                                                *)
THEOREM SamplesAreFresh == WorkersSpec => []SampleFresh
<1>1. WorkersInit => SamplerInv
  <2> SUFFICES ASSUME WorkersInit PROVE SamplerInv
    OBVIOUS
  <2>1. 0 \in 0..MaxBeats /\ MaxBeats \in 0..MaxBeats
    BY SamplersAssumption
  <2>2. CASE SamplersInit(Hosts, 0)
    BY <2>1, <2>2, SamplersStart
  <2>3. CASE SamplersInit({CHOOSE h \in Hosts : TRUE}, MaxBeats)
    BY <2>1, <2>3, SamplersStart
  <2> QED
    BY <2>2, <2>3 DEF WorkersInit
<1>2. SamplerInv /\ [WorkersNext]_workerVars => SamplerInv'
  BY SamplersMove, SamplersKeep
<1> QED
  BY <1>1, <1>2, SamplerInvFresh, PTL DEF WorkersSpec
-----------------------------------------------------------------------------
(***************************************************************************)
(* GatewayDocuments: each reader keeps an invariant about the prefix of    *)
(* the text that it has read, and at the end the prefix is the text.       *)
(***************************************************************************)

(* The items of a set that have been read.                                 *)
ReadOf(S) == {i \in S : i < place}

(* The routes taken so far are those kept of the lines or messages read.   *)
Routings == {text.items[i].route : i \in DOMAIN text.items}

RouteInv ==
  /\ read \in [fault : {"none"}, routes : Seq(Routings), ended : BOOLEAN]
  /\ Len(read.routes) = Cardinality(ReadOf(KeptRoutes)) /\ Len(read.routes) <= MaxRoutes
  /\ \A i \in ReadOf(KeptRoutes) :
       read.routes[Cardinality({j \in KeptRoutes : j <= i})] = text.items[i].route
  /\ text.kind = "proc" => ReadOf(Items({"malformed"})) = {}
  /\ text.kind = "netlink" => /\ read.ended = (ReadOf(Items({"done"})) # {})
                              /\ Items({"done"}) # {}

(* The locations read so far agree.                                        *)
SsdpInv ==
  /\ read \in [fault : {"none"}, headers : Int, location : {"none"} \cup DOMAIN text.urls,
               igd : {"none", "igd", "other"}]
  /\ \A i \in ReadOf(Items({"location"})) : text.items[i].url = read.location

(* Each element open has its tag, in order; the service open is one of     *)
(* them and what it has said was said within it; the part open is another  *)
(* and its text was read since.                                            *)
TwoTexts(n) ==
  \E k, m \in Inside(n, place) : k # m /\ text.items[k].t = "text" /\ text.items[m].t = "text"

Told(n, name, words) ==
  \/ words = "none"
  \/ \E i \in Inside(n, place) :
       Tag(i, "open", name) /\ i + 2 < place /\ Spells(i, place, words)

InService(pos, s) ==
  /\ read.stack[s] = "service"
  /\ \A i \in DOMAIN read.stack : read.stack[i] = "service" => i = s
  /\ Inside(pos[s], place) \cap ServiceTags = {}
  /\ Told(pos[s], "serviceType", read.serviceType) /\ Told(pos[s], "controlURL", read.controlURL)

InPart(pos, s) ==
  /\ read.stack[s] = read.target
  /\ \A i \in DOMAIN read.stack : read.stack[i] \in Parts => i = s
  /\ \A b \in DOMAIN read.buffer :
       \E m \in Inside(pos[s], place) : Tag(m, "text", read.buffer[b])
  /\ \A a, b \in DOMAIN read.buffer : a # b => TwoTexts(pos[s])

OpenAt(pos) ==
  /\ pos \in [DOMAIN read.stack -> DOMAIN text.items]
  /\ \A i \in DOMAIN read.stack : pos[i] < place /\ Tag(pos[i], "open", read.stack[i])
  /\ \A i, j \in DOMAIN read.stack : i < j => pos[i] < pos[j]

ServiceAt(pos) ==
  IF read.service THEN \E s \in DOMAIN read.stack : InService(pos, s)
  ELSE \A i \in DOMAIN read.stack : read.stack[i] # "service"

PartAt(pos) ==
  IF read.target # "none" THEN \E s \in DOMAIN read.stack : InPart(pos, s)
  ELSE \A i \in DOMAIN read.stack : read.stack[i] \notin Parts

Found(c) ==
  \E e \in ServiceElements :
    /\ e[2] < place
    /\ Says(e, "serviceType", c.service)
    /\ Says(e, "controlURL", c.control)

KnownRead == {e \in KnownElements : e[2] < place}

Names == {text.items[i].name : i \in DOMAIN text.items} \cup {text.joins}
Words(N) == N \cup {"none"}

DeviceRecords(N) ==
  [fault : {"none"}, stack : Seq(N), target : Parts \cup {"none"}, buffer : Seq(N),
   service : BOOLEAN, serviceType : Words(N), controlURL : Words(N),
   out : Seq([service : ServiceKinds, control : Words(N)])]

Toks(t) == {i \in DOMAIN text.items : text.items[i].t = t}

DeviceInv ==
  /\ read \in DeviceRecords(Names)
  /\ ReadOf(Toks("odd")) = {}
  /\ Cardinality(ReadOf(Toks("open"))) = Cardinality(ReadOf(Toks("close"))) + Len(read.stack)
  /\ \E pos \in [DOMAIN read.stack -> DOMAIN text.items] : OpenAt(pos) /\ ServiceAt(pos) /\ PartAt(pos)
  /\ \A n \in DOMAIN read.out : Found(read.out[n])
  /\ Len(read.out) <= Cardinality(KnownRead)

(* A response or a field is held exactly when its one tag was read.        *)
SoapRecords(N) ==
  [fault : {"none"}, stack : Seq(N), capturing : Fields \cup {"none"}, buffer : Seq(N),
   response : {"none", "get", "add", "delete", "fault"}, view : [Fields -> Words(N)]]

TagsOf(names) == Tags({"open", "empty"}, names)

SoapInv ==
  /\ read \in SoapRecords(Names)
  /\ ReadOf(Toks("odd")) = {}
  /\ read.response # "none" => \E i : ReadOf(TagsOf(DOMAIN Responses)) = {i}
  /\ read.response = "none" => ReadOf(TagsOf(DOMAIN Responses)) = {}
  /\ \A f \in Fields :
       /\ read.view[f] = "none" /\ read.capturing # f => ReadOf(TagsOf({f})) = {}
       /\ (read.view[f] = "none") # (read.capturing # f) => \E i : ReadOf(TagsOf({f})) = {i}

PrefixInv ==
  /\ text.kind \in {"proc", "netlink"} => RouteInv
  /\ text.kind = "ssdp" => SsdpInv
  /\ text.kind = "device" => DeviceInv
  /\ text.kind = "soap" => SoapInv

TextTypes ==
  /\ place \in Nat \ {0}
  /\ \/ Classified(text)
     \/ /\ text.kind = "netlink" /\ text.file # "bounded"
        /\ Kinds(text.items, {"route", "done", "error", "short", "other"})
     \/ text = [kind |-> "over", items |-> <<>>] /\ place = 2
  /\ place <= Len(text.items) + 2

TextInv ==
  /\ TextTypes
  /\ place <= Len(text.items) + 1 /\ read.fault = "none" => PrefixInv
  /\ place <= Len(text.items) + 1 /\ text.kind = "ssdp" => read.fault # "ok"
  /\ TextsExact
-----------------------------------------------------------------------------
(* A set of items is finite, and reading one more adds it to those read.   *)
LEMMA ItemsRead ==
  ASSUME IsList(text.items), place \in Nat, place' = place + 1, UNCHANGED text,
         NEW S, S \subseteq DOMAIN text.items
  PROVE  /\ IsFiniteSet(S) /\ IsFiniteSet(ReadOf(S)) /\ Cardinality(ReadOf(S)) \in Nat
         /\ {i \in S : i < place'} = IF place \in S THEN ReadOf(S) \cup {place} ELSE ReadOf(S)
         /\ Cardinality({i \in S : i < place'})
              = IF place \in S THEN Cardinality(ReadOf(S)) + 1 ELSE Cardinality(ReadOf(S))
<1>1. S \subseteq 1..Len(text.items) /\ Len(text.items) \in Nat
  BY DEF IsList
<1>2. IsFiniteSet(S)
  <2>1. IsFiniteSet(1..Len(text.items))
    BY <1>1, FS_Interval
  <2> QED BY <1>1, <2>1, FS_Subset
<1>3. IsFiniteSet(ReadOf(S)) /\ Cardinality(ReadOf(S)) \in Nat
  BY <1>2, FS_Subset, FS_CardinalityType DEF ReadOf
<1>4. {i \in S : i < place'} = IF place \in S THEN ReadOf(S) \cup {place} ELSE ReadOf(S)
  BY <1>1 DEF ReadOf
<1>5. place \notin ReadOf(S)
  BY DEF ReadOf
<1>6. Cardinality(ReadOf(S) \cup {place}) = Cardinality(ReadOf(S)) + 1
  BY <1>3, <1>5, FS_AddElement
<1> QED
  BY <1>2, <1>3, <1>4, <1>6

(* The routes taken are those kept: the core of RouteInv.                  *)
RoutesTaken ==
  /\ read.routes \in Seq(Routings)
  /\ Len(read.routes) = Cardinality(ReadOf(KeptRoutes))
  /\ \A i \in ReadOf(KeptRoutes) :
       read.routes[Cardinality({j \in KeptRoutes : j <= i})] = text.items[i].route

(* A line or message that is not kept changes nothing.                     *)
LEMMA RoutePassed ==
  ASSUME IsList(text.items), place \in Nat, place' = place + 1, UNCHANGED text,
         RoutesTaken, place \notin KeptRoutes, read'.routes = read.routes
  PROVE  RoutesTaken'
<1>1. KeptRoutes' = KeptRoutes /\ Routings' = Routings /\ KeptRoutes \subseteq DOMAIN text.items
  BY DEF KeptRoutes, Items, Routings, KeptRoute
<1>2. ReadOf(KeptRoutes)' = ReadOf(KeptRoutes)
  BY <1>1, ItemsRead DEF ReadOf
<1> QED
  BY <1>1, <1>2 DEF RoutesTaken

(* One that is kept comes last.                                            *)
LEMMA RouteAdded ==
  ASSUME IsList(text.items), place \in DOMAIN text.items, place' = place + 1, UNCHANGED text,
         RoutesTaken, place \in KeptRoutes,
         read'.routes = Append(read.routes, text.items[place].route)
  PROVE  RoutesTaken' /\ Len(read'.routes) = Len(read.routes) + 1
<1> DEFINE K == KeptRoutes
           rank(i) == Cardinality({j \in K : j <= i})
<1>1. /\ KeptRoutes' = K /\ Routings' = Routings /\ K \subseteq DOMAIN text.items
      /\ text.items[place].route \in Routings
  BY DEF KeptRoutes, Items, Routings, KeptRoute
<1>2. place \in Nat
  BY DEF IsList
<1>3. /\ ReadOf(KeptRoutes)' = ReadOf(K) \cup {place}
      /\ Cardinality(ReadOf(KeptRoutes)') = Cardinality(ReadOf(K)) + 1
      /\ IsFiniteSet(K) /\ IsFiniteSet(ReadOf(K)) /\ Cardinality(ReadOf(K)) \in Nat
  <2>1. ReadOf(KeptRoutes)' = {i \in K : i < place'}
    BY <1>1 DEF ReadOf
  <2> QED BY <1>1, <1>2, <2>1, ItemsRead
<1>4. /\ read'.routes \in Seq(Routings) /\ Len(read'.routes) = Len(read.routes) + 1
      /\ \A k \in 1..Len(read.routes) : read'.routes[k] = read.routes[k]
      /\ read'.routes[Len(read.routes) + 1] = text.items[place].route
  BY <1>1, AppendKeeps DEF RoutesTaken
<1>5. rank(place) = Len(read.routes) + 1
  <2>1. {j \in K : j <= place} = ReadOf(K) \cup {place}
    BY <1>1, <1>2 DEF IsList, ReadOf
  <2>2. place \notin ReadOf(K)
    BY <1>2 DEF ReadOf
  <2> QED BY <1>3, <2>1, <2>2, FS_AddElement DEF RoutesTaken
<1>6. ASSUME NEW i \in ReadOf(K) PROVE rank(i) \in 1..Len(read.routes)
  <2>1. {j \in K : j <= i} \subseteq ReadOf(K) /\ i \in {j \in K : j <= i}
    BY <1>1, <1>2 DEF IsList, ReadOf
  <2>2. rank(i) <= Cardinality(ReadOf(K)) /\ rank(i) \in Nat /\ rank(i) # 0
    BY <1>3, <2>1, FS_Subset, FS_CardinalityType, FS_EmptySet
  <2> QED BY <1>3, <2>2 DEF RoutesTaken
<1>7. \A i \in ReadOf(KeptRoutes)' : read'.routes[rank(i)] = text.items[i].route
  BY <1>3, <1>4, <1>5, <1>6 DEF RoutesTaken
<1> QED
  BY <1>1, <1>3, <1>4, <1>7 DEF RoutesTaken

(* The lists of a text, whatever its kind.                                 *)
LEMMA TextList ==
  ASSUME TextTypes
  PROVE  /\ IsList(text.items) /\ Len(text.items) \in Nat /\ place \in Nat
         /\ text.kind = "proc" => /\ Kinds(text.items, {"skipped", "malformed", "route"})
                                  /\ Kinds(text.netlink, {"route", "done", "error", "short", "other"})
         /\ text.kind = "netlink" =>
              /\ text.file # "bounded"
              /\ Kinds(text.items, {"route", "done", "error", "short", "other"})
         /\ text.kind = "over" => place = 2 /\ Len(text.items) = 0
<1>1. place \in Nat
  BY DEF TextTypes
<1>2. CASE Classified(text)
  BY <1>1, <1>2 DEF Classified, Kinds, IsList
<1>3. CASE text.kind = "netlink" /\ text.file # "bounded"
           /\ Kinds(text.items, {"route", "done", "error", "short", "other"})
  BY <1>1, <1>3 DEF Kinds, IsList
<1>4. CASE text = [kind |-> "over", items |-> <<>>] /\ place = 2
  <2>1. Len(text.items) = 0 /\ DOMAIN text.items = 1..0
    BY <1>4
  <2> QED BY <1>1, <1>4, <2>1 DEF IsList
<1> QED
  BY <1>2, <1>3, <1>4 DEF TextTypes

(* A line of the file or a message of the dump keeps RouteInv.             *)
LEMMA RouteKeeps ==
  ASSUME TextTypes, text.kind \in {"proc", "netlink"}, RouteInv, ReadItem, read'.fault = "none"
  PROVE  RouteInv'
<1> DEFINE item == text.items[place]
<1>1. /\ IsList(text.items) /\ Len(text.items) \in Nat /\ place \in DOMAIN text.items
      /\ place' = place + 1 /\ UNCHANGED text /\ place \in Nat /\ DOMAIN text.items = 1..Len(text.items)
  <2>1. /\ IsList(text.items) /\ Len(text.items) \in Nat /\ place \in Nat
    BY TextList
  <2>2. place # 0
    BY DEF TextTypes
  <2> QED BY <2>1, <2>2 DEF ReadItem, IsList
<1>2. /\ read \in [fault : {"none"}, routes : Seq(Routings), ended : BOOLEAN]
      /\ RoutesTaken /\ Len(read.routes) <= MaxRoutes /\ Len(read.routes) \in Nat /\ MaxRoutes \in Nat
  BY DocumentAssumption DEF RouteInv, RoutesTaken
<1>3. ASSUME NEW ks, place \notin Items(ks)
      PROVE  ReadOf(Items(ks))' = ReadOf(Items(ks))
  <2>1. Items(ks)' = Items(ks) /\ Items(ks) \subseteq DOMAIN text.items
    BY <1>1 DEF Items
  <2> QED BY <1>1, <1>3, <2>1, ItemsRead DEF ReadOf
<1>4. /\ read' \in [fault : {"none"}, routes : Seq(Routings), ended : BOOLEAN]
      /\ RoutesTaken' /\ Len(read'.routes) <= MaxRoutes
      => read' \in [fault : {"none"}, routes : Seq(Routings'), ended : BOOLEAN]
  BY <1>1 DEF Routings
<1>5. CASE text.kind = "proc"
  <2>1. read' = ProcLine(read, item)
    BY <1>5 DEF ReadItem
  <2>2. item.kind \in {"skipped", "malformed", "route"}
    BY <1>1, <1>5, TextList DEF Kinds
  <2>3. place \in KeptRoutes <=> item.kind = "route"
    BY <1>1, <1>5 DEF KeptRoutes, Items
  <2>4. /\ read' \in [fault : {"none"}, routes : Seq(Routings), ended : BOOLEAN]
        /\ RoutesTaken' /\ Len(read'.routes) <= MaxRoutes /\ item.kind # "malformed"
    <3>1. CASE item.kind = "skipped"
      <4>1. read' = read
        BY <2>1, <3>1 DEF ProcLine
      <4> QED BY <1>1, <1>2, <2>3, <3>1, <4>1, RoutePassed
    <3>2. item.kind # "malformed"
      BY <1>2, <2>1 DEF ProcLine, Fault
    <3>3. CASE item.kind = "route"
      <4>1. Len(read.routes) # MaxRoutes /\ read' = [read EXCEPT !.routes = Append(@, item.route)]
        BY <1>2, <2>1, <3>3 DEF ProcLine, Fault
      <4>2. read'.routes = Append(read.routes, item.route) /\ item.route \in Routings
        BY <1>1, <1>2, <4>1 DEF Routings
      <4>3. RoutesTaken' /\ Len(read'.routes) = Len(read.routes) + 1
        BY <1>1, <1>2, <2>3, <3>3, <4>2, RouteAdded
      <4>4. Append(read.routes, item.route) \in Seq(Routings)
        BY <1>2, <4>2, AppendKeeps
      <4>5. read' \in [fault : {"none"}, routes : Seq(Routings), ended : BOOLEAN] /\ read'.ended = read.ended
        BY <1>2, <4>1, <4>4
      <4>6. Len(read'.routes) <= MaxRoutes
        BY <1>2, <4>1, <4>3
      <4> QED BY <1>2, <3>2, <4>3, <4>5, <4>6
    <3> QED BY <2>2, <3>1, <3>2, <3>3
  <2>5. ReadOf(Items({"malformed"}))' = {}
    <3>1. place \notin Items({"malformed"})
      BY <2>4 DEF Items
    <3> QED BY <1>3, <1>5, <3>1 DEF RouteInv
  <2> QED BY <1>1, <1>4, <1>5, <2>4, <2>5 DEF RouteInv, RoutesTaken
<1>6. CASE text.kind = "netlink"
  <2>1. read' = NetlinkMessage(read, item)
    BY <1>6 DEF ReadItem
  <2>2. item.kind \in {"route", "done", "error", "short", "other"}
    BY <1>1, <1>6, TextList DEF Kinds
  <2>3. place \in KeptRoutes <=> item.kind = "route" /\ KeptRoute(item) /\ ~read.ended
    <3>1. read.ended <=> \E j \in Items({"done"}) : j < place
      BY <1>2, <1>6 DEF RouteInv, ReadOf
    <3>2. item.kind = "route" => place \notin Items({"done"})
      BY DEF Items
    <3>3. Items({"done"}) \subseteq Nat
      BY <1>1 DEF Items
    <3>4. item.kind = "route" => (~read.ended <=> \A j \in Items({"done"}) : place < j)
      BY <1>1, <1>2, <3>1, <3>2, <3>3
    <3> QED BY <1>1, <1>6, <3>4 DEF KeptRoutes, Items
  <2>4. read'.fault = "none" /\ read.fault = "none"
    BY <1>2
  <2>5. /\ read' \in [fault : {"none"}, routes : Seq(Routings), ended : BOOLEAN]
        /\ RoutesTaken' /\ Len(read'.routes) <= MaxRoutes
        /\ read'.ended = (read.ended \/ item.kind = "done")
    <3>1. CASE read.ended \/ ~(item.kind = "route" /\ KeptRoute(item))
      <4>1. /\ read' \in [fault : {"none"}, routes : Seq(Routings), ended : BOOLEAN]
            /\ read'.routes = read.routes /\ read'.ended = (read.ended \/ item.kind = "done")
        BY <1>2, <2>1, <2>2, <2>4, <3>1 DEF NetlinkMessage, Fault
      <4>2. RoutesTaken'
        BY <1>1, <1>2, <2>3, <3>1, <4>1, RoutePassed
      <4> QED BY <1>2, <4>1, <4>2
    <3>2. CASE ~read.ended /\ item.kind = "route" /\ KeptRoute(item)
      <4>1. Len(read.routes) # MaxRoutes /\ read' = [read EXCEPT !.routes = Append(@, item.route)]
        BY <1>2, <2>1, <2>4, <3>2 DEF NetlinkMessage, Fault
      <4>2. read'.routes = Append(read.routes, item.route) /\ item.route \in Routings
        BY <1>1, <1>2, <4>1 DEF Routings
      <4>3. RoutesTaken' /\ Len(read'.routes) = Len(read.routes) + 1
        BY <1>1, <1>2, <2>3, <3>2, <4>2, RouteAdded
      <4>4. Append(read.routes, item.route) \in Seq(Routings)
        BY <1>2, <4>2, AppendKeeps
      <4>5. read' \in [fault : {"none"}, routes : Seq(Routings), ended : BOOLEAN] /\ read'.ended = read.ended
        BY <1>2, <4>1, <4>4
      <4>6. Len(read'.routes) <= MaxRoutes
        BY <1>2, <4>1, <4>3
      <4> QED BY <1>2, <3>2, <4>3, <4>5, <4>6
    <3> QED BY <3>1, <3>2
  <2>6. read'.ended = (ReadOf(Items({"done"}))' # {})
    <3>1. Items({"done"})' = Items({"done"}) /\ Items({"done"}) \subseteq DOMAIN text.items
      BY <1>1 DEF Items
    <3>2. read.ended = (ReadOf(Items({"done"})) # {}) /\ (place \in Items({"done"}) <=> item.kind = "done")
      BY <1>1, <1>6 DEF RouteInv, Items
    <3> QED BY <1>1, <1>2, <2>5, <3>1, <3>2, ItemsRead DEF ReadOf
  <2>7. Items({"done"})' # {}
    BY <1>1, <1>6 DEF RouteInv, Items
  <2> QED BY <1>1, <1>4, <1>6, <2>5, <2>6, <2>7 DEF RouteInv, RoutesTaken
<1> QED
  BY <1>5, <1>6

(* One more item is read of a text that goes on.                           *)
LEMMA OneMore ==
  ASSUME TextTypes, ReadItem
  PROVE  /\ IsList(text.items) /\ Len(text.items) \in Nat /\ place \in DOMAIN text.items
         /\ place' = place + 1 /\ UNCHANGED text /\ place \in Nat /\ DOMAIN text.items = 1..Len(text.items)
         /\ text.kind \in {"ssdp", "device", "soap"} => Classified(text)
<1>1. /\ IsList(text.items) /\ Len(text.items) \in Nat /\ place \in Nat /\ place # 0
  BY TextList DEF TextTypes
<1>2. text.kind \in {"ssdp", "device", "soap"} => Classified(text)
  BY DEF TextTypes
<1> QED
  BY <1>1, <1>2 DEF ReadItem, IsList

(* A header line keeps SsdpInv.                                            *)
LEMMA SsdpKeeps ==
  ASSUME TextTypes, text.kind = "ssdp", SsdpInv, ReadItem, read'.fault = "none"
  PROVE  SsdpInv'
<1> DEFINE item == text.items[place]
           L == Items({"location"})
<1>1. /\ IsList(text.items) /\ place \in DOMAIN text.items
      /\ place' = place + 1 /\ UNCHANGED text /\ place \in Nat
  BY OneMore
<1>2. /\ item.kind = "location" => item.url \in DOMAIN text.urls
      /\ item.kind = "target" => item.url \in {"igd", "other"}
      /\ "none" \notin DOMAIN text.urls
  BY <1>1, OneMore DEF Classified
<1>3. read' = SsdpLine(read, item)
  BY DEF ReadItem
<1>4. /\ read \in [fault : {"none"}, headers : Int, location : {"none"} \cup DOMAIN text.urls,
                   igd : {"none", "igd", "other"}]
      /\ \A i \in ReadOf(L) : text.items[i].url = read.location
  BY DEF SsdpInv
<1>5. /\ read' \in [fault : {"none"}, headers : Int, location : {"none"} \cup DOMAIN text.urls,
                    igd : {"none", "igd", "other"}]
      /\ IF item.kind = "location" THEN read.location \in {"none", item.url} /\ read'.location = item.url
         ELSE read'.location = read.location
  <2> DEFINE q == [read EXCEPT !.headers = @ + 1]
  <2>1. /\ q \in [fault : {"none"}, headers : Int, location : {"none"} \cup DOMAIN text.urls,
                   igd : {"none", "igd", "other"}]
        /\ q.location = read.location
    BY <1>4
  <2>2. \/ read' = Fault(read, "malformed") \/ read' = Fault(read, "bounded") \/ read' = Fault(q, "malformed")
        \/ item.kind = "location" /\ read.location \in {"none", item.url} /\ read' = [q EXCEPT !.location = item.url]
        \/ item.kind = "target" /\ read' = [q EXCEPT !.igd = item.url]
        \/ item.kind # "location" /\ read' = q
    BY <1>3 DEF SsdpLine
  <2>3. \A f \in {"malformed", "bounded"} : Fault(read, f).fault # "none" /\ Fault(q, f).fault # "none"
    BY <1>4, <2>1 DEF Fault
  <2> HIDE DEF q
  <2> QED BY <1>2, <2>1, <2>2, <2>3
<1>6. ReadOf(L)' = IF place \in L THEN ReadOf(L) \cup {place} ELSE ReadOf(L)
  <2>1. L' = L /\ L \subseteq DOMAIN text.items
    BY <1>1 DEF Items
  <2> QED BY <1>1, <2>1, ItemsRead DEF ReadOf
<1>7. place \in L <=> item.kind = "location"
  BY <1>1 DEF Items
<1>8. ReadOf(L) # {} => read.location # "none"
  <2> SUFFICES ASSUME NEW i \in ReadOf(L) PROVE read.location # "none"
    OBVIOUS
  <2>1. i \in DOMAIN text.items /\ text.items[i].kind = "location"
    BY DEF ReadOf, Items
  <2>2. text.items[i].url \in DOMAIN text.urls
    BY <2>1, OneMore DEF Classified
  <2> QED BY <1>2, <1>4, <2>2
<1>9. \A i \in ReadOf(L)' : text.items[i].url = read'.location
  BY <1>4, <1>5, <1>6, <1>7, <1>8
<1> QED
  BY <1>1, <1>5, <1>9 DEF SsdpInv

(* What is said of a URL that is accepted.                                 *)
LEMMA UrlAccepted ==
  ASSUME NEW u \in UrlClasses
  PROVE  /\ ValidateGatewayUrl(u) = "ok" =>
              u.gateway /\ u.http /\ u.port = "ok" /\ ~u.smuggles /\ ~u.dots
         /\ ResolveControl(u) = "ok" => (u.relative \/ u.gateway) /\ ~u.smuggles /\ ~u.dots
         /\ ValidateGatewayUrl(u) # "none"
<1>1. /\ ValidateGatewayUrl(u) = "ok" =>
           u.gateway /\ u.http /\ u.port = "ok" /\ ~u.smuggles /\ ~u.dots
      /\ ValidateGatewayUrl(u) # "none"
  BY DEF ValidateGatewayUrl, UrlClasses
<1>2. RejectControlSyntax(u) # "ok" /\ (RejectControlSyntax(u) = "none" => ~u.smuggles /\ ~u.dots)
  BY DEF RejectControlSyntax, UrlClasses
<1> QED
  BY <1>1, <1>2 DEF ResolveControl, UrlClasses

(* The text of an element is one of its pieces, unless there is none or    *)
(* several are joined.                                                     *)
LEMMA TrimmedText ==
  ASSUME NEW N, NEW b \in Seq(N), text.joins \in N
  PROVE  /\ Trimmed(b) \in Words(N)
         /\ \/ Trimmed(b) = "none"
            \/ \E i \in DOMAIN b : b[i] = Trimmed(b)
            \/ Trimmed(b) = text.joins /\ \E i, j \in DOMAIN b : i # j
         /\ Trimmed(<<>>) = "none"
<1>1. \A i \in DOMAIN b : b[i] \in N
  OBVIOUS
<1> DEFINE said == {i \in DOMAIN b : ~Blank(b[i])}
           c == CHOOSE i \in said : TRUE
<1>2. said # {} => c \in DOMAIN b
  OBVIOUS
<1>3. Trimmed(b) = IF said = {} THEN "none" ELSE IF \E i \in said : said = {i} THEN b[c] ELSE text.joins
  BY DEF Trimmed
<1>4. Trimmed(<<>>) = "none"
  <2>1. {i \in DOMAIN <<>> : ~Blank(<<>>[i])} = {}
    OBVIOUS
  <2> QED BY <2>1, Zenon DEF Trimmed
<1>5. said # {} /\ ~(\E i \in said : said = {i}) => \E i, j \in DOMAIN b : i # j
  OBVIOUS
<1> HIDE DEF said, c
<1> QED
  BY <1>1, <1>2, <1>3, <1>4, <1>5 DEF Words

(* The names a SOAP reader looks for.                                      *)
LEMMA SoapNames ==
  /\ DOMAIN Responses = {"GetResponse", "AddResponse", "DeleteResponse", "Fault"}
  /\ \A name \in DOMAIN Responses : Responses[name] \in {"get", "add", "delete", "fault"}
  /\ DOMAIN Responses \cap Fields = {} /\ "none" \notin Fields
  BY DEF Responses, Fields

(* The start of an element.                                                *)
LEMMA Noted ==
  ASSUME NEW N, NEW p \in SoapRecords(N), NEW name, NoteElement(p, name).fault = "none"
  PROVE  LET q == NoteElement(p, name) IN
         /\ q \in SoapRecords(N) /\ q.view = p.view /\ q.stack = p.stack
         /\ IF name \in DOMAIN Responses
            THEN p.response = "none" /\ q.response # "none" ELSE q.response = p.response
         /\ IF name \in Fields
            THEN p.capturing = "none" /\ q.capturing = name /\ q.buffer = <<>>
            ELSE q.capturing = p.capturing
<1> DEFINE q == NoteElement(p, name)
<1>1. CASE name \in DOMAIN Responses
  <2>1. p.response = "none" /\ q = [p EXCEPT !.response = Responses[name]]
    BY <1>1, SoapNames DEF NoteElement, Fault, SoapRecords
  <2> QED BY <1>1, <2>1, SoapNames DEF SoapRecords
<1>2. CASE name \in Fields
  <2>1. p.capturing = "none" /\ q = [p EXCEPT !.capturing = name, !.buffer = <<>>]
    BY <1>2, SoapNames DEF NoteElement, Fault, SoapRecords
  <2>2. <<>> \in Seq(N)
    OBVIOUS
  <2> QED BY <1>2, <2>1, <2>2, SoapNames DEF SoapRecords
<1>3. CASE name \notin DOMAIN Responses /\ name \notin Fields
  <2>1. q = p
    BY <1>3 DEF NoteElement
  <2> QED BY <1>3, <2>1
<1> QED
  BY <1>1, <1>2, <1>3

(* The end of a field.                                                     *)
LEMMA Committed ==
  ASSUME NEW N, NEW p \in SoapRecords(N), text.joins \in N, p.capturing \in Fields,
         Commit(p).fault = "none"
  PROVE  LET q == Commit(p) IN
         /\ q \in SoapRecords(N) /\ q.response = p.response /\ q.capturing = "none"
         /\ p.view[p.capturing] = "none" /\ q.view[p.capturing] # "none"
         /\ \A f \in Fields \ {p.capturing} : q.view[f] = p.view[f]
         /\ p.buffer # <<>>
<1> DEFINE words == Trimmed(p.buffer)
           r == [p EXCEPT !.capturing = "none", !.buffer = <<>>]
<1>1. words \in Words(N) /\ (p.buffer = <<>> => words = "none")
  BY TrimmedText DEF SoapRecords
<1>2. r \in SoapRecords(N) /\ r.view = p.view /\ r.response = p.response /\ r.capturing = "none" /\ r.fault = "none"
  <2>1. <<>> \in Seq(N)
    OBVIOUS
  <2> QED BY <2>1 DEF SoapRecords
<1>3. Fault(r, "malformed").fault # "none"
  BY <1>2 DEF Fault, SoapRecords
<1>4. /\ Commit(p) = [r EXCEPT !.view[p.capturing] = words]
      /\ p.view[p.capturing] = "none" /\ words \notin {"none", "bad"}
  BY <1>3 DEF Commit
<1> DEFINE v == [p.view EXCEPT ![p.capturing] = words]
<1>5. p.view \in [Fields -> Words(N)]
  BY DEF SoapRecords
<1>6. /\ v \in [Fields -> Words(N)] /\ v[p.capturing] = words
      /\ \A f \in Fields \ {p.capturing} : v[f] = p.view[f]
  BY <1>1, <1>5
<1>7. Commit(p) = [r EXCEPT !.view = v]
  BY <1>2, <1>4
<1> HIDE DEF words, r, v
<1>8. /\ [r EXCEPT !.view = v] \in SoapRecords(N) /\ [r EXCEPT !.view = v].view = v
      /\ [r EXCEPT !.view = v].response = r.response
      /\ [r EXCEPT !.view = v].capturing = r.capturing
  BY <1>2, <1>6 DEF SoapRecords
<1>9. words # "none" /\ p.buffer # <<>> /\ p.view[p.capturing] = "none"
  BY <1>1, <1>4
<1>10. v[p.capturing] # "none"
  BY <1>6, <1>9
<1> QED
  BY <1>2, <1>6, <1>7, <1>8, <1>9, <1>10

(* A stack without its top.                                                *)
LEMMA Popped ==
  ASSUME NEW N, NEW s \in Seq(N), s # <<>>
  PROVE  /\ Pop(s) \in Seq(N) /\ Len(Pop(s)) = Len(s) - 1 /\ Len(s) \in Nat \ {0}
         /\ \A i \in 1..(Len(s) - 1) : Pop(s)[i] = s[i]
<1> DEFINE n == Len(s) - 1
<1>1. Len(s) \in Nat \ {0} /\ n \in Nat
  BY EmptySeq
<1>2. \A i \in 1..n : s[i] \in N
  BY <1>1
<1>3. /\ SubSeq(s, 1, n) \in Seq(N)
      /\ Len(SubSeq(s, 1, n)) = IF 1 <= n THEN n - 1 + 1 ELSE 0
      /\ \A i \in 1..(n - 1 + 1) : SubSeq(s, 1, n)[i] = s[1 + i - 1]
  BY <1>1, <1>2, SubSeqProperties
<1>4. Pop(s) = SubSeq(s, 1, n)
  BY DEF Pop
<1>5. Len(SubSeq(s, 1, n)) = n /\ \A i \in 1..n : SubSeq(s, 1, n)[i] = s[i]
  <2> HIDE DEF n
  <2> QED BY <1>1, <1>3
<1> QED
  BY <1>1, <1>3, <1>4, <1>5

(* No odd token is passed over.                                            *)
LEMMA OddFaults == \A o \in DOMAIN OddToken : OddToken[o] # "none"
<1>1. DOMAIN OddToken = {"doctype", "entity", "attributes", "cdata", "instruction", "name",
                         "attribute", "comment"}
  BY DEF OddToken
<1> QED
  BY <1>1 DEF OddToken

(* One token of a SOAP reply: a response or a field begins, a field ends,  *)
(* or none of them does.                                                   *)
LEMMA SoapTurns ==
  ASSUME NEW N, NEW p \in SoapRecords(N), text.joins \in N, NEW token, token.name \in N, token.name # "none",
         token.t \in {"open", "empty", "close", "text", "comment", "odd"},
         token.t = "odd" => token.name \in DOMAIN OddToken,
         SoapToken(p, token).fault = "none"
  PROVE  LET q == SoapToken(p, token)
             tag == token.t \in {"open", "empty"}
         IN /\ q \in SoapRecords(N) /\ token.t # "odd"
            /\ IF tag /\ token.name \in DOMAIN Responses
               THEN p.response = "none" /\ q.response # "none" ELSE q.response = p.response
            /\ \/ /\ ~(tag /\ token.name \in Fields)
                  /\ q.view = p.view /\ q.capturing = p.capturing
               \/ /\ tag /\ token.name \in Fields
                  /\ p.capturing = "none" /\ q.capturing = token.name /\ q.view = p.view
               \/ /\ ~tag /\ p.capturing \in Fields /\ q.capturing = "none"
                  /\ p.view[p.capturing] = "none" /\ q.view[p.capturing] # "none"
                  /\ \A f \in Fields \ {p.capturing} : q.view[f] = p.view[f]
<1> DEFINE q == SoapToken(p, token)
           name == token.name
<1>1. CASE token.t = "comment"
  <2>1. q = p
    BY <1>1 DEF SoapToken
  <2> QED BY <1>1, <2>1
<1>2. CASE token.t = "odd"
  <2>1. q = [p EXCEPT !.fault = OddToken[name]]
    BY <1>2 DEF SoapToken, Fault
  <2>2. q.fault = OddToken[name]
    BY <2>1 DEF SoapRecords
  <2> QED BY <1>2, <2>2, OddFaults
<1>3. CASE token.t = "text"
  <2>1. q = SoapText(p, name)
    BY <1>3 DEF SoapToken
  <2>2. q = p \/ q = [p EXCEPT !.fault = "bounded"] \/ q = [p EXCEPT !.buffer = Append(@, name)]
    BY <2>1 DEF SoapText, Fault
  <2>3. Append(p.buffer, name) \in Seq(N)
    BY AppendKeeps DEF SoapRecords
  <2>4. q = p \/ q = [p EXCEPT !.buffer = Append(@, name)]
    BY <2>2 DEF SoapRecords
  <2>5. q \in SoapRecords(N) /\ q.response = p.response /\ q.view = p.view /\ q.capturing = p.capturing
    BY <2>3, <2>4 DEF SoapRecords
  <2> QED BY <1>3, <2>5
<1>4. CASE token.t = "open"
  <2> DEFINE r == NoteElement(p, name)
  <2>1. q = SoapOpen(p, name)
    BY <1>4 DEF SoapToken
  <2>2. q = r \/ q = Fault(r, "bounded") \/ q = [r EXCEPT !.stack = Append(@, name)]
    BY <2>1 DEF SoapOpen
  <2>3. r.fault = "none"
    BY <2>1 DEF SoapOpen
  <2>4. /\ r \in SoapRecords(N) /\ r.view = p.view
        /\ IF name \in DOMAIN Responses
           THEN p.response = "none" /\ r.response # "none" ELSE r.response = p.response
        /\ IF name \in Fields THEN p.capturing = "none" /\ r.capturing = name
           ELSE r.capturing = p.capturing
    BY <2>3, Noted
  <2> HIDE DEF r
  <2>5. Append(r.stack, name) \in Seq(N)
    BY <2>4, AppendKeeps DEF SoapRecords
  <2>6. q = r \/ q = [r EXCEPT !.stack = Append(@, name)]
    BY <2>2, <2>4 DEF Fault, SoapRecords
  <2>7. q \in SoapRecords(N) /\ q.view = r.view /\ q.response = r.response /\ q.capturing = r.capturing
    BY <2>4, <2>5, <2>6 DEF SoapRecords
  <2> QED BY <1>4, <2>4, <2>7
<1>5. CASE token.t = "empty"
  <2> DEFINE r == NoteElement(p, name)
  <2>1. q = IF r.fault = "none" /\ r.capturing = name THEN Commit(r) ELSE r
    BY <1>5 DEF SoapToken, SoapEmpty
  <2>2. r.fault = "none"
    BY <2>1
  <2>3. /\ r \in SoapRecords(N) /\ r.view = p.view
        /\ IF name \in DOMAIN Responses
           THEN p.response = "none" /\ r.response # "none" ELSE r.response = p.response
        /\ IF name \in Fields THEN p.capturing = "none" /\ r.capturing = name /\ r.buffer = <<>>
           ELSE r.capturing = p.capturing
    BY <2>2, Noted
  <2> HIDE DEF r
  <2>4. r.capturing \in Fields \cup {"none"}
    BY <2>3 DEF SoapRecords
  <2>5. ~(name \in Fields)
    BY <2>1, <2>2, <2>3, Committed
  <2>6. CASE r.capturing = name
    BY <2>4, <2>5, <2>6
  <2>7. CASE r.capturing # name
    BY <1>5, <2>1, <2>3, <2>5, <2>7
  <2> QED BY <2>6, <2>7
<1>6. CASE token.t = "close"
  <2> DEFINE r == [p EXCEPT !.stack = Pop(@)]
  <2>1. q = SoapClose(p, name)
    BY <1>6 DEF SoapToken
  <2>2. p.stack # <<>> /\ q = IF p.capturing = name THEN Commit(r) ELSE r
    BY <2>1 DEF SoapClose, Fault, SoapRecords
  <2>3. /\ r \in SoapRecords(N) /\ r.view = p.view /\ r.response = p.response
        /\ r.capturing = p.capturing
    BY <2>2, Popped DEF SoapRecords
  <2> HIDE DEF r
  <2>4. CASE p.capturing = name
    <3>1. r.capturing \in Fields
      BY <2>3, <2>4 DEF SoapRecords
    <3> QED BY <1>6, <2>2, <2>3, <2>4, <3>1, Committed
  <2>5. CASE p.capturing # name
    BY <1>6, <2>2, <2>3, <2>5
  <2> QED BY <2>4, <2>5
<1> QED
  BY <1>1, <1>2, <1>3, <1>4, <1>5, <1>6

(* A set of tokens, after one more is read.                                *)
LEMMA SetRead ==
  ASSUME TextTypes, ReadItem
  PROVE  /\ \A ts, names : ReadOf(Tags(ts, names))' = IF /\ text.items[place].t \in ts
                                                         /\ text.items[place].name \in names
                                                      THEN ReadOf(Tags(ts, names)) \cup {place}
                                                      ELSE ReadOf(Tags(ts, names))
         /\ \A t : ReadOf(Toks(t))' = IF text.items[place].t = t THEN ReadOf(Toks(t)) \cup {place}
                                      ELSE ReadOf(Toks(t))
         /\ \A t : /\ Cardinality(ReadOf(Toks(t))) \in Nat
                   /\ Cardinality(ReadOf(Toks(t))') = IF text.items[place].t = t
                                                      THEN Cardinality(ReadOf(Toks(t))) + 1
                                                      ELSE Cardinality(ReadOf(Toks(t)))
         /\ Names' = Names /\ text.items[place].name \in Names
<1>1. /\ IsList(text.items) /\ place \in DOMAIN text.items
      /\ place' = place + 1 /\ UNCHANGED text /\ place \in Nat
  BY OneMore
<1>2. ASSUME NEW ts, NEW names
      PROVE  ReadOf(Tags(ts, names))' = IF text.items[place].t \in ts /\ text.items[place].name \in names
                                        THEN ReadOf(Tags(ts, names)) \cup {place}
                                        ELSE ReadOf(Tags(ts, names))
  <2> DEFINE S == Tags(ts, names)
  <2>1. S' = S /\ S \subseteq DOMAIN text.items
    BY <1>1 DEF Tags
  <2>2. place \in S <=> text.items[place].t \in ts /\ text.items[place].name \in names
    BY <1>1 DEF Tags
  <2>3. ReadOf(S)' = {i \in S : i < place'}
    BY <2>1 DEF ReadOf
  <2> HIDE DEF S
  <2>4. {i \in S : i < place'} = IF place \in S THEN ReadOf(S) \cup {place} ELSE ReadOf(S)
    BY <1>1, <2>1, ItemsRead
  <2> QED BY <2>2, <2>3, <2>4 DEF S
<1>3. ASSUME NEW t
      PROVE  /\ ReadOf(Toks(t))' = IF text.items[place].t = t THEN ReadOf(Toks(t)) \cup {place}
                                   ELSE ReadOf(Toks(t))
             /\ Cardinality(ReadOf(Toks(t))) \in Nat
             /\ Cardinality(ReadOf(Toks(t))') = IF text.items[place].t = t
                                                THEN Cardinality(ReadOf(Toks(t))) + 1
                                                ELSE Cardinality(ReadOf(Toks(t)))
  <2> DEFINE S == Toks(t)
  <2>1. S' = S /\ S \subseteq DOMAIN text.items
    BY <1>1 DEF Toks
  <2>2. place \in S <=> text.items[place].t = t
    BY <1>1 DEF Toks
  <2>3. ReadOf(S)' = {i \in S : i < place'}
    BY <2>1 DEF ReadOf
  <2> HIDE DEF S
  <2>4. /\ {i \in S : i < place'} = IF place \in S THEN ReadOf(S) \cup {place} ELSE ReadOf(S)
        /\ Cardinality(ReadOf(S)) \in Nat
        /\ Cardinality({i \in S : i < place'})
             = IF place \in S THEN Cardinality(ReadOf(S)) + 1 ELSE Cardinality(ReadOf(S))
    BY <1>1, <2>1, ItemsRead
  <2> QED BY <2>2, <2>3, <2>4 DEF S
<1> QED
  BY <1>1, <1>2, <1>3 DEF Names

(* A token keeps SoapInv.                                                  *)
LEMMA SoapKeeps ==
  ASSUME TextTypes, text.kind = "soap", SoapInv, ReadItem, read'.fault = "none"
  PROVE  SoapInv'
<1> DEFINE item == text.items[place]
           tag == item.t \in {"open", "empty"}
           R == ReadOf(TagsOf(DOMAIN Responses))
           F(f) == ReadOf(TagsOf({f}))
<1>1. /\ place \in DOMAIN text.items /\ UNCHANGED text /\ Classified(text)
  BY OneMore
<1>2. /\ item.name # "none" /\ item.t \in {"open", "empty", "close", "text", "comment", "odd"}
      /\ item.t = "odd" => item.name \in DOMAIN OddToken
  BY <1>1 DEF Classified
<1>3. read' = SoapToken(read, item)
  BY DEF ReadItem
<1>4. /\ Names' = Names /\ item.name \in Names /\ read \in SoapRecords(Names)
      /\ text.joins \in Names
  BY SetRead DEF SoapInv, Names
<1>5. /\ read' \in SoapRecords(Names) /\ item.t # "odd"
      /\ IF tag /\ item.name \in DOMAIN Responses
         THEN read.response = "none" /\ read'.response # "none" ELSE read'.response = read.response
      /\ \/ /\ ~(tag /\ item.name \in Fields)
            /\ read'.view = read.view /\ read'.capturing = read.capturing
         \/ /\ tag /\ item.name \in Fields
            /\ read.capturing = "none" /\ read'.capturing = item.name /\ read'.view = read.view
         \/ /\ ~tag /\ read.capturing \in Fields /\ read'.capturing = "none"
            /\ read.view[read.capturing] = "none" /\ read'.view[read.capturing] # "none"
            /\ \A f \in Fields \ {read.capturing} : read'.view[f] = read.view[f]
  BY <1>2, <1>3, <1>4, SoapTurns
<1>6. ReadOf(Toks("odd"))' = {}
  BY <1>5, SetRead DEF SoapInv
<1>7. R' = IF tag /\ item.name \in DOMAIN Responses THEN R \cup {place} ELSE R
  BY SetRead DEF TagsOf
<1>8. /\ read'.response # "none" => \E i : R' = {i}
      /\ read'.response = "none" => R' = {}
  BY <1>5, <1>7 DEF SoapInv
<1>9. ASSUME NEW f \in Fields
      PROVE  /\ read'.view[f] = "none" /\ read'.capturing # f => F(f)' = {}
             /\ (read'.view[f] = "none") # (read'.capturing # f) => \E i : F(f)' = {i}
  <2>1. F(f)' = IF tag /\ item.name = f THEN F(f) \cup {place} ELSE F(f)
    BY SetRead DEF TagsOf
  <2>2. /\ read.view[f] = "none" /\ read.capturing # f => F(f) = {}
        /\ (read.view[f] = "none") # (read.capturing # f) => \E i : F(f) = {i}
    BY DEF SoapInv
  <2>3. f # "none"
    BY SoapNames
  <2> HIDE DEF F
  <2>4. CASE ~(tag /\ item.name \in Fields) /\ read'.view = read.view /\ read'.capturing = read.capturing
    BY <2>1, <2>2, <2>4
  <2>5. CASE /\ tag /\ item.name \in Fields
             /\ read.capturing = "none" /\ read'.capturing = item.name /\ read'.view = read.view
    BY <2>1, <2>2, <2>3, <2>5
  <2>6. CASE /\ ~tag /\ read.capturing \in Fields /\ read'.capturing = "none"
             /\ read.view[read.capturing] = "none" /\ read'.view[read.capturing] # "none"
             /\ \A g \in Fields \ {read.capturing} : read'.view[g] = read.view[g]
    BY <2>1, <2>2, <2>3, <2>6
  <2> QED BY <1>5, <2>4, <2>5, <2>6
<1> QED
  BY <1>4, <1>5, <1>6, <1>8, <1>9 DEF SoapInv

(* How a token moves the stack of a device document.                       *)
Same == read'.stack = read.stack
Pushed == /\ text.items[place].t = "open"
          /\ read'.stack = Append(read.stack, text.items[place].name)
Closing == /\ text.items[place].t = "close" /\ read.stack # <<>>
           /\ Top(read.stack) = text.items[place].name /\ read'.stack = Pop(read.stack)

(* The same place, and that of a tag just read.                            *)
Placed(pos) ==
  [i \in DOMAIN read'.stack |-> IF i \in DOMAIN read.stack THEN pos[i] ELSE place]

(* The stack of open tags after a tag, and where each was opened.          *)
LEMMA StackMoves ==
  ASSUME TextTypes, ReadItem, NEW N, text.items[place].name \in N,
         read.stack \in Seq(N), Same \/ Pushed \/ Closing
  PROVE  LET L == Len(read.stack) IN
         /\ L \in Nat /\ DOMAIN read.stack = 1..L /\ read'.stack \in Seq(N)
         /\ \A i \in DOMAIN read'.stack :
              \/ i \in 1..L /\ read'.stack[i] = read.stack[i]
              \/ Pushed /\ i = L + 1 /\ read'.stack[i] = text.items[place].name
         /\ \/ Same
            \/ /\ Pushed /\ DOMAIN read'.stack = 1..(L + 1) /\ Len(read'.stack) = L + 1
               /\ read'.stack[L + 1] = text.items[place].name
               /\ \A i \in 1..L : read'.stack[i] = read.stack[i]
            \/ /\ Closing /\ DOMAIN read'.stack = 1..(L - 1) /\ Len(read'.stack) = L - 1 /\ L # 0
               /\ read.stack[L] = text.items[place].name
               /\ \A i \in 1..(L - 1) : read'.stack[i] = read.stack[i]
<1>1. Len(read.stack) \in Nat /\ DOMAIN read.stack = 1..Len(read.stack)
  OBVIOUS
<1>2. CASE Same
  BY <1>1, <1>2 DEF Same
<1>3. CASE Pushed
  BY <1>1, <1>3, AppendKeeps DEF Pushed
<1>4. CASE Closing
  BY <1>1, <1>4, Popped DEF Closing, Top
<1> QED
  BY <1>2, <1>3, <1>4

(* What lies behind an item, after one more is read.                       *)
LEMMA InsideGrows ==
  ASSUME TextTypes, ReadItem, NEW n \in Nat
  PROVE  /\ n < place => Inside(n, place)' = Inside(n, place) \cup {place}
         /\ Inside(place, place)' = {} /\ Inside(n, place) \subseteq Inside(n, place)'
  BY OneMore DEF Inside

(* What was told stays told.                                               *)
LEMMA ToldStays ==
  ASSUME TextTypes, ReadItem, NEW n \in Nat, NEW name, NEW words, Told(n, name, words)
  PROVE  Told(n, name, words)'
<1>1. CASE words = "none"
  BY <1>1 DEF Told
<1>2. CASE words # "none"
  <2>1. PICK i \in Inside(n, place) : Tag(i, "open", name) /\ i + 2 < place /\ Spells(i, place, words)
    BY <1>2 DEF Told
  <2>2. i \in Nat /\ place \in Nat /\ place' = place + 1 /\ text' = text
    BY OneMore DEF Inside
  <2>3. i \in Inside(n, place)' /\ Inside(i, place) \subseteq Inside(i, place)' /\ i + 2 < place'
    BY <2>1, <2>2, InsideGrows
  <2>4. Tag(i, "open", name)' /\ \A m, t : Tag(m, "text", t)' = Tag(m, "text", t)
    BY <2>1, <2>2 DEF Tag
  <2>5. Spells(i, place, words)'
    BY <2>1, <2>2, <2>3, <2>4 DEF Spells
  <2> QED BY <2>3, <2>4, <2>5 DEF Told
<1> QED
  BY <1>1, <1>2

(* The tags that are open keep their places.                               *)
LEMMA PlacesKeep ==
  ASSUME TextTypes, ReadItem, NEW N, text.items[place].name \in N,
         read.stack \in Seq(N), Same \/ Pushed \/ Closing,
         NEW pos, OpenAt(pos), NEW new, new = Placed(pos)
  PROVE  OpenAt(new)' /\ new \in [DOMAIN read.stack -> DOMAIN text.items]'
<1> DEFINE L == Len(read.stack)
<1>1. /\ L \in Nat /\ DOMAIN read.stack = 1..L
      /\ \/ Same
         \/ /\ Pushed /\ DOMAIN read'.stack = 1..(L + 1)
            /\ read'.stack[L + 1] = text.items[place].name
            /\ \A i \in 1..L : read'.stack[i] = read.stack[i]
         \/ /\ Closing /\ DOMAIN read'.stack = 1..(L - 1)
            /\ \A i \in 1..(L - 1) : read'.stack[i] = read.stack[i]
  BY StackMoves
<1>2. place \in DOMAIN text.items /\ text' = text /\ place \in Nat /\ place' = place + 1
  BY OneMore
<1>3. /\ pos \in [1..L -> DOMAIN text.items]
      /\ \A i \in 1..L : pos[i] < place /\ Tag(pos[i], "open", read.stack[i])
      /\ \A i, j \in 1..L : i < j => pos[i] < pos[j]
  BY <1>1 DEF OpenAt
<1>4. \A i \in 1..L : pos[i] \in Nat
  <2>1. DOMAIN text.items \subseteq Nat
    BY OneMore
  <2> QED BY <1>3, <2>1
<1>5. ASSUME NEW i \in DOMAIN read'.stack
      PROVE  /\ new[i] \in DOMAIN text.items /\ new[i] < place'
             /\ Tag(new[i], "open", read'.stack[i])
             /\ i \in 1..L => new[i] = pos[i]
             /\ i \notin 1..L => new[i] = place /\ i = L + 1
  <2>1. CASE i \in 1..L
    <3>1. read'.stack[i] = read.stack[i] /\ new[i] = pos[i]
      BY <1>1, <2>1 DEF Same, Placed
    <3> QED BY <1>2, <1>3, <1>4, <2>1, <3>1
  <2>2. CASE i \notin 1..L
    <3>1. i = L + 1 /\ Pushed /\ read'.stack[i] = text.items[place].name
      BY <1>1, <2>2 DEF Same
    <3>2. new[i] = place
      BY <1>1, <2>2 DEF Placed
    <3> QED BY <1>2, <2>2, <3>1, <3>2 DEF Pushed, Tag
  <2> QED BY <2>1, <2>2
<1>6. new \in [DOMAIN read'.stack -> DOMAIN text.items]
  BY <1>5 DEF Placed
<1>7. ASSUME NEW i \in DOMAIN read'.stack, NEW j \in DOMAIN read'.stack, i < j
      PROVE  new[i] < new[j]
  <2>1. i \in Int /\ j \in Int /\ i <= L + 1 /\ j <= L + 1 /\ i >= 1 /\ j >= 1
    BY <1>1 DEF Same
  <2>2. i \in 1..L
    BY <1>1, <1>7, <2>1
  <2> QED BY <1>1, <1>2, <1>3, <1>4, <1>5, <1>7, <2>1, <2>2
<1> QED
  BY <1>2, <1>5, <1>6, <1>7 DEF OpenAt, Tag

(* A token that is no tag of a service leaves the service where it is; it  *)
(* may add to what was told.                                               *)
LEMMA ServiceStays ==
  ASSUME TextTypes, ReadItem, NEW N, text.items[place].name \in N,
         read.stack \in Seq(N), Same \/ Pushed \/ Closing,
         NEW pos, OpenAt(pos), ServiceAt(pos), NEW new, new = Placed(pos),
         place \notin ServiceTags, read'.service = read.service, read.service \in BOOLEAN,
         \A s \in DOMAIN read.stack :
           InService(pos, s) => /\ Told(pos[s], "serviceType", read.serviceType)'
                                /\ Told(pos[s], "controlURL", read.controlURL)'
  PROVE  ServiceAt(new)'
<1> DEFINE L == Len(read.stack)
           item == text.items[place]
<1>1. /\ L \in Nat /\ DOMAIN read.stack = 1..L
      /\ \A i \in DOMAIN read'.stack : \/ i \in 1..L /\ read'.stack[i] = read.stack[i]
                                       \/ Pushed /\ i = L + 1 /\ read'.stack[i] = item.name
      /\ \/ Same
         \/ /\ Pushed /\ DOMAIN read'.stack = 1..(L + 1)
            /\ read'.stack[L + 1] = item.name
            /\ \A i \in 1..L : read'.stack[i] = read.stack[i]
         \/ /\ Closing /\ DOMAIN read'.stack = 1..(L - 1) /\ L # 0 /\ read.stack[L] = item.name
            /\ \A i \in 1..(L - 1) : read'.stack[i] = read.stack[i]
  BY StackMoves
<1>2. place \in DOMAIN text.items /\ text' = text /\ DOMAIN text.items \subseteq Nat
  BY OneMore
<1>3. Pushed \/ Closing => item.name # "service"
  BY <1>2 DEF Pushed, Closing, ServiceTags, Tags
<1>4. ServiceTags' = ServiceTags
  BY <1>2 DEF ServiceTags, Tags
<1>5. CASE read.service
  <2>1. PICK s \in 1..L : InService(pos, s)
    BY <1>1, <1>5 DEF ServiceAt
  <2>2. s \in DOMAIN read'.stack /\ read'.stack[s] = "service" /\ new[s] = pos[s]
    <3>1. read.stack[s] = "service"
      BY <2>1 DEF InService
    <3>2. s \in DOMAIN read'.stack /\ read'.stack[s] = read.stack[s]
      BY <1>1, <1>3, <3>1 DEF Same
    <3> QED BY <1>1, <3>1, <3>2 DEF Placed
  <2>3. \A i \in DOMAIN read'.stack : read'.stack[i] = "service" => i = s
    <3> SUFFICES ASSUME NEW i \in DOMAIN read'.stack, read'.stack[i] = "service" PROVE i = s
      OBVIOUS
    <3>1. i \in 1..L /\ read.stack[i] = "service"
      BY <1>1, <1>3
    <3> QED BY <1>1, <2>1, <3>1 DEF InService
  <2>4. pos[s] \in Nat /\ pos[s] < place
    BY <1>1, <1>2, <2>1 DEF OpenAt
  <2>5. Inside(pos[s], place)' \cap ServiceTags' = {}
    <3>1. Inside(pos[s], place)' = Inside(pos[s], place) \cup {place}
      BY <2>4, InsideGrows
    <3> QED BY <1>4, <2>1, <3>1 DEF InService
  <2>6. Told(pos[s], "serviceType", read.serviceType)' /\ Told(pos[s], "controlURL", read.controlURL)'
    BY <1>1, <2>1
  <2>7. InService(new, s)'
    BY <2>2, <2>3, <2>5, <2>6 DEF InService
  <2> QED BY <1>5, <2>2, <2>7 DEF ServiceAt
<1>6. CASE ~read.service
  <2>1. \A i \in 1..L : read.stack[i] # "service"
    BY <1>1, <1>6 DEF ServiceAt
  <2>2. \A i \in DOMAIN read'.stack : read'.stack[i] # "service"
    <3> SUFFICES ASSUME NEW i \in DOMAIN read'.stack PROVE read'.stack[i] # "service"
      OBVIOUS
    <3> QED BY <1>1, <1>3, <2>1
  <2> QED BY <1>6, <2>2 DEF ServiceAt
<1> QED
  BY <1>5, <1>6

(* A token that neither opens nor closes a part leaves the part where it   *)
(* is; a text is put to its buffer.                                        *)
LEMMA PartStays ==
  ASSUME TextTypes, ReadItem, NEW N, text.items[place].name \in N,
         read.stack \in Seq(N), read.buffer \in Seq(N), Same \/ Pushed \/ Closing,
         NEW pos, OpenAt(pos), PartAt(pos), NEW new, new = Placed(pos),
         Pushed \/ Closing => text.items[place].name \notin Parts, read'.target = read.target,
         read.target \in Parts \cup {"none"},
         \/ read'.buffer = read.buffer
         \/ /\ text.items[place].t = "text"
            /\ read'.buffer = Append(read.buffer, text.items[place].name)
  PROVE  PartAt(new)'
<1> DEFINE L == Len(read.stack)
           item == text.items[place]
<1>1. /\ L \in Nat /\ DOMAIN read.stack = 1..L
      /\ \A i \in DOMAIN read'.stack : \/ i \in 1..L /\ read'.stack[i] = read.stack[i]
                                       \/ Pushed /\ i = L + 1 /\ read'.stack[i] = item.name
      /\ \/ Same
         \/ /\ Pushed /\ DOMAIN read'.stack = 1..(L + 1)
            /\ read'.stack[L + 1] = item.name
            /\ \A i \in 1..L : read'.stack[i] = read.stack[i]
         \/ /\ Closing /\ DOMAIN read'.stack = 1..(L - 1) /\ L # 0 /\ read.stack[L] = item.name
            /\ \A i \in 1..(L - 1) : read'.stack[i] = read.stack[i]
  BY StackMoves
<1>2. place \in DOMAIN text.items /\ text' = text /\ DOMAIN text.items \subseteq Nat
  BY OneMore
<1>3. CASE read.target # "none"
  <2>1. PICK s \in 1..L : InPart(pos, s)
    BY <1>1, <1>3 DEF PartAt
  <2>2. read.stack[s] \in Parts /\ read.stack[s] = read.target
    BY <2>1, <1>3 DEF InPart
  <2>3. s \in DOMAIN read'.stack /\ read'.stack[s] = read'.target /\ new[s] = pos[s]
    <3>1. s \in DOMAIN read'.stack /\ read'.stack[s] = read.stack[s]
      BY <1>1, <2>2 DEF Same
    <3> QED BY <1>1, <2>2, <3>1 DEF Placed
  <2>4. \A i \in DOMAIN read'.stack : read'.stack[i] \in Parts => i = s
    <3> SUFFICES ASSUME NEW i \in DOMAIN read'.stack, read'.stack[i] \in Parts PROVE i = s
      OBVIOUS
    <3>1. i \in 1..L /\ read.stack[i] \in Parts
      BY <1>1
    <3> QED BY <1>1, <2>1, <3>1 DEF InPart
  <2>5. pos[s] \in Nat /\ pos[s] < place
    BY <1>1, <1>2, <2>1 DEF OpenAt
  <2>6. Inside(pos[s], place)' = Inside(pos[s], place) \cup {place}
    BY <2>5, InsideGrows
  <2>7. ASSUME NEW b \in DOMAIN read'.buffer
        PROVE  \E m \in Inside(pos[s], place)' : Tag(m, "text", read'.buffer[b])
    <3>1. CASE b \in DOMAIN read.buffer /\ read'.buffer[b] = read.buffer[b]
      BY <2>1, <2>6, <3>1 DEF InPart
    <3>2. CASE item.t = "text" /\ read'.buffer[b] = item.name
      BY <2>6, <3>2 DEF Tag
    <3>3. (b \in DOMAIN read.buffer /\ read'.buffer[b] = read.buffer[b])
          \/ (item.t = "text" /\ read'.buffer[b] = item.name)
      <4>1. CASE read'.buffer = read.buffer
        BY <4>1
      <4>2. CASE item.t = "text" /\ read'.buffer = Append(read.buffer, item.name)
        BY <4>2, AppendKeeps
      <4> QED BY <4>1, <4>2
    <3> QED BY <3>1, <3>2, <3>3
  <2>8. ASSUME NEW a \in DOMAIN read'.buffer, NEW b \in DOMAIN read'.buffer, a # b
        PROVE  TwoTexts(pos[s])'
    <3>1. CASE read'.buffer = read.buffer
      <4>1. TwoTexts(pos[s])
        BY <2>1, <2>8, <3>1 DEF InPart
      <4> QED BY <1>2, <2>6, <4>1 DEF TwoTexts
    <3>2. CASE item.t = "text" /\ read'.buffer = Append(read.buffer, item.name)
      <4>1. PICK c \in DOMAIN read.buffer : TRUE
        BY <2>8, <3>2, AppendKeeps
      <4>2. PICK m \in Inside(pos[s], place) : text.items[m].t = "text"
        BY <2>1, <4>1 DEF InPart, Tag
      <4>3. m # place
        BY <1>2, <4>2 DEF Inside
      <4>4. m \in Inside(pos[s], place)' /\ place \in Inside(pos[s], place)'
        BY <2>6, <4>2
      <4> QED BY <1>2, <3>2, <4>2, <4>3, <4>4 DEF TwoTexts
    <3> QED BY <3>1, <3>2
  <2>9. InPart(new, s)'
    BY <1>2, <2>3, <2>4, <2>7, <2>8 DEF InPart, Tag, TwoTexts
  <2> QED BY <1>3, <2>3, <2>9 DEF PartAt
<1>4. CASE read.target = "none"
  <2>1. \A i \in 1..L : read.stack[i] \notin Parts
    BY <1>1, <1>4 DEF PartAt
  <2>2. \A i \in DOMAIN read'.stack : read'.stack[i] \notin Parts
    <3> SUFFICES ASSUME NEW i \in DOMAIN read'.stack PROVE read'.stack[i] \notin Parts
      OBVIOUS
    <3> QED BY <1>1, <2>1
  <2> QED BY <1>4, <2>2 DEF PartAt
<1> QED
  BY <1>3, <1>4

(* What a token leaves alone.                                              *)
KeepService(p, q) ==
  q.service = p.service /\ q.serviceType = p.serviceType /\ q.controlURL = p.controlURL
KeepPart(p, q) == q.target = p.target /\ q.buffer = p.buffer

(* One token of a device document, by what it does to the stack.           *)
TagRests(p, q, token) ==
  /\ q.stack = p.stack /\ q.out = p.out
  /\ token.t \in {"comment", "text", "empty"}
  /\ \/ /\ token.t = "empty" /\ token.name = "service"
        /\ ~p.service /\ ~q.service /\ KeepPart(p, q)
     \/ /\ ~(token.t = "empty" /\ token.name = "service")
        /\ KeepService(p, q) /\ q.target = p.target
        /\ \/ q.buffer = p.buffer
           \/ token.t = "text" /\ q.buffer = Append(p.buffer, token.name)

TagOpens(p, q, token) ==
  /\ q.stack = Append(p.stack, token.name) /\ q.out = p.out /\ token.t = "open"
  /\ \/ /\ token.name = "service" /\ ~p.service /\ q.service /\ KeepPart(p, q)
        /\ q.serviceType = "none" /\ q.controlURL = "none"
     \/ /\ token.name \in Parts /\ p.target = "none" /\ KeepService(p, q)
        /\ q.target = token.name /\ q.buffer = <<>>
     \/ token.name \notin Parts \cup {"service"} /\ KeepService(p, q) /\ KeepPart(p, q)

TagCloses(p, q, token) ==
  /\ p.stack # <<>> /\ Top(p.stack) = token.name /\ q.stack = Pop(p.stack) /\ token.t = "close"
  /\ \/ /\ token.name = "service" /\ ~q.service /\ KeepPart(p, q)
        /\ \/ q.out = p.out
           \/ /\ p.serviceType \in ServiceKinds /\ p.controlURL # "none"
              /\ q.out = Append(p.out, [service |-> p.serviceType, control |-> p.controlURL])
     \/ /\ token.name \in Parts /\ q.out = p.out /\ q.target = "none" /\ q.service = p.service
        /\ \/ q.serviceType = p.serviceType
           \/ token.name = "serviceType" /\ q.serviceType = Trimmed(p.buffer)
        /\ \/ q.controlURL = p.controlURL
           \/ token.name = "controlURL" /\ q.controlURL = Trimmed(p.buffer)
     \/ /\ token.name \notin Parts \cup {"service"} /\ q.out = p.out
        /\ KeepService(p, q) /\ KeepPart(p, q)

(* What an opening tag of a device document does to the reader.            *)
LEMMA DeviceOpens ==
  ASSUME NEW N, NEW p \in DeviceRecords(N), NEW token, token.name \in N, token.t = "open",
         StartTag(p, token.name).fault = "none"
  PROVE  LET q == StartTag(p, token.name) IN q \in DeviceRecords(N) /\ TagOpens(p, q, token)
<1> DEFINE name == token.name
           q == StartTag(p, name)
           e == IF name = "service" THEN EnterService(p) ELSE p
<1>1. Append(p.stack, name) \in Seq(N) /\ <<>> \in Seq(N)
  BY AppendKeeps DEF DeviceRecords
<1>2. /\ e \in DeviceRecords(N) /\ KeepPart(p, e) /\ e.stack = p.stack /\ e.out = p.out
      /\ name = "service" => e.service = TRUE /\ e.serviceType = "none" /\ e.controlURL = "none"
      /\ name # "service" => KeepService(p, e)
  <2>1. CASE name = "service"
    <3>1. e = [p EXCEPT !.service = TRUE, !.serviceType = "none", !.controlURL = "none"]
      BY <2>1 DEF EnterService
    <3> QED BY <2>1, <3>1 DEF DeviceRecords, Words, KeepPart
  <2>2. CASE name # "service"
    BY <2>2 DEF KeepPart, KeepService
  <2> QED BY <2>1, <2>2
<1>3. Fault(p, "malformed").fault # "none" /\ Fault(e, "malformed").fault # "none" /\ Fault(e, "bounded").fault # "none"
  BY <1>2 DEF Fault, DeviceRecords
<1>4. /\ ~(name = "service" /\ p.service) /\ ~(name \in Parts /\ p.target # "none")
      /\ q = IF name \in Parts THEN [e EXCEPT !.target = name, !.buffer = <<>>, !.stack = Append(@, name)]
             ELSE [e EXCEPT !.stack = Append(@, name)]
  BY <1>3 DEF StartTag
<1> HIDE DEF e
<1>5. CASE name \in Parts
  <2>1. q = [e EXCEPT !.target = name, !.buffer = <<>>, !.stack = Append(@, name)]
    BY <1>4, <1>5
  <2> DEFINE r == [e EXCEPT !.target = name]
             u == [r EXCEPT !.buffer = <<>>]
  <2>2. r \in DeviceRecords(N) /\ r.target = name /\ r.out = e.out /\ r.stack = e.stack /\ KeepService(e, r)
    BY <1>2, <1>5 DEF DeviceRecords, KeepService
  <2>3. u \in DeviceRecords(N) /\ u.target = name /\ u.buffer = <<>> /\ u.out = e.out /\ u.stack = e.stack /\ KeepService(e, u)
    BY <1>1, <2>2 DEF DeviceRecords, KeepService
  <2>4. q = [u EXCEPT !.stack = Append(e.stack, name)]
    BY <1>2, <2>1 DEF DeviceRecords
  <2>5. Append(e.stack, name) \in Seq(N)
    BY <1>1, <1>2
  <2> HIDE DEF u
  <2>6. /\ q \in DeviceRecords(N) /\ q.target = name /\ q.buffer = <<>> /\ q.out = e.out
        /\ q.stack = Append(e.stack, name) /\ KeepService(e, q)
    BY <2>3, <2>4, <2>5 DEF DeviceRecords, KeepService
  <2>7. name # "service"
    BY <1>5 DEF Parts
  <2> QED BY <1>2, <1>4, <1>5, <2>6, <2>7 DEF TagOpens, KeepService
<1>6. CASE name \notin Parts
  <2>1. q = [e EXCEPT !.stack = Append(@, name)]
    BY <1>4, <1>6
  <2>2. /\ q \in DeviceRecords(N) /\ q.out = e.out
        /\ q.stack = Append(e.stack, name) /\ KeepService(e, q) /\ KeepPart(e, q)
    BY <1>1, <1>2, <2>1 DEF DeviceRecords, KeepService, KeepPart
  <2> QED BY <1>2, <1>4, <1>6, <2>2 DEF TagOpens, KeepService, KeepPart
<1> QED
  BY <1>5, <1>6

(* What a closing tag of a device document does to the reader.             *)
LEMMA DeviceCloses ==
  ASSUME NEW N, NEW p \in DeviceRecords(N), text.joins \in N,
         NEW token, token.name \in N, token.t = "close",
         EndTag(p, token.name).fault = "none"
  PROVE  LET q == EndTag(p, token.name) IN q \in DeviceRecords(N) /\ TagCloses(p, q, token)
<1> DEFINE name == token.name
           q == EndTag(p, name)
           r == [p EXCEPT !.stack = Pop(@)]
           words == Trimmed(p.buffer)
<1>1. ~(p.stack = <<>> \/ Top(p.stack) # name)
  BY DEF EndTag, Fault, DeviceRecords
<1>2. q = IF name = "service" THEN FinishService(r)
          ELSE IF name \notin Parts THEN r
          ELSE IF words = "none" THEN [r EXCEPT !.target = "none", !.buffer = <<>>]
          ELSE [r EXCEPT !.target = "none", !.buffer = <<>>, ![name] = words]
  BY <1>1 DEF EndTag
<1>3. /\ r \in DeviceRecords(N) /\ r.stack = Pop(p.stack) /\ r.out = p.out
      /\ KeepService(p, r) /\ KeepPart(p, r)
  BY <1>1, Popped DEF DeviceRecords, KeepService, KeepPart
<1>4. words \in Words(N) /\ <<>> \in Seq(N)
  BY TrimmedText DEF DeviceRecords
<1> HIDE DEF r, words
<1>5. CASE name = "service"
  <2> DEFINE u == [r EXCEPT !.service = FALSE, !.serviceType = "none", !.controlURL = "none"]
             c == [service |-> r.serviceType, control |-> r.controlURL]
  <2>1. q = IF r.serviceType \notin ServiceKinds \/ r.controlURL = "none" THEN u
            ELSE IF Len(r.out) = MaxCandidates THEN Fault(u, "bounded")
            ELSE [u EXCEPT !.out = Append(@, c)]
    BY <1>2, <1>5 DEF FinishService
  <2>2. /\ u \in DeviceRecords(N) /\ u.stack = r.stack /\ u.out = r.out /\ u.service = FALSE /\ KeepPart(r, u)
    BY <1>3 DEF DeviceRecords, KeepPart, Words
  <2> HIDE DEF u
  <2>3. Fault(u, "bounded").fault # "none"
    BY <2>2 DEF Fault, DeviceRecords
  <2>4. CASE q = u
    BY <1>1, <1>3, <1>5, <2>2, <2>4 DEF TagCloses, KeepPart
  <2>5. CASE r.serviceType \in ServiceKinds /\ r.controlURL # "none" /\ q = [u EXCEPT !.out = Append(@, c)]
    <3>1. c \in [service : ServiceKinds, control : Words(N)]
      BY <1>3, <2>5 DEF DeviceRecords
    <3>2. Append(r.out, c) \in Seq([service : ServiceKinds, control : Words(N)])
      BY <1>3, <3>1, AppendKeeps DEF DeviceRecords
    <3> HIDE DEF c
    <3>3. /\ q \in DeviceRecords(N) /\ q.stack = u.stack /\ q.out = Append(r.out, c)
          /\ q.service = FALSE /\ KeepPart(u, q)
      BY <2>2, <2>5, <3>2 DEF DeviceRecords, KeepPart
    <3>4. c = [service |-> p.serviceType, control |-> p.controlURL]
      BY <1>3 DEF c, KeepService
    <3> QED BY <1>1, <1>3, <1>5, <2>2, <2>5, <3>3, <3>4 DEF TagCloses, KeepPart, KeepService
  <2> QED BY <2>1, <2>3, <2>4, <2>5
<1>6. CASE name \notin Parts \cup {"service"}
  <2>1. q = r
    BY <1>2, <1>6
  <2> QED BY <1>1, <1>3, <1>6, <2>1 DEF TagCloses
<1>7. CASE name \in Parts
  <2> DEFINE u == [r EXCEPT !.target = "none", !.buffer = <<>>]
  <2>1. name \in {"serviceType", "controlURL"} /\ name # "service"
    BY <1>7 DEF Parts
  <2>2. /\ u \in DeviceRecords(N) /\ u.stack = r.stack /\ u.out = r.out /\ u.target = "none" /\ KeepService(r, u)
    BY <1>3, <1>4 DEF DeviceRecords, KeepService
  <2>3. CASE q = u
    BY <1>1, <1>3, <1>7, <2>2, <2>3 DEF TagCloses, KeepService
  <2>4. CASE q = [u EXCEPT ![name] = words]
    <3> HIDE DEF u
    <3>1. CASE name = "serviceType"
      <4>1. q = [u EXCEPT !.serviceType = words]
        BY <2>4, <3>1
      <4>2. /\ q \in DeviceRecords(N) /\ q.stack = u.stack /\ q.out = u.out /\ q.target = "none"
            /\ q.service = u.service /\ q.serviceType = words /\ q.controlURL = u.controlURL
        BY <1>4, <2>2, <4>1 DEF DeviceRecords
      <4> QED BY <1>1, <1>3, <1>7, <2>2, <3>1, <4>2 DEF TagCloses, KeepService, words
    <3>2. CASE name = "controlURL"
      <4>1. q = [u EXCEPT !.controlURL = words]
        BY <2>4, <3>2
      <4>2. /\ q \in DeviceRecords(N) /\ q.stack = u.stack /\ q.out = u.out /\ q.target = "none"
            /\ q.service = u.service /\ q.controlURL = words /\ q.serviceType = u.serviceType
        BY <1>4, <2>2, <4>1 DEF DeviceRecords
      <4> QED BY <1>1, <1>3, <1>7, <2>2, <3>2, <4>2 DEF TagCloses, KeepService, words
    <3> QED BY <2>1, <3>1, <3>2
  <2>5. [r EXCEPT !.target = "none", !.buffer = <<>>, ![name] = words] = [u EXCEPT ![name] = words]
    OBVIOUS
  <2> QED BY <1>2, <1>7, <2>1, <2>3, <2>4, <2>5
<1> QED
  BY <1>5, <1>6, <1>7

(* Every token rests, opens or closes, or ends the reading.                *)
LEMMA DeviceTurns ==
  ASSUME NEW N, NEW p \in DeviceRecords(N), text.joins \in N, NEW token, token.name \in N,
         token.t \in {"open", "empty", "close", "text", "comment", "odd"},
         token.t = "odd" => token.name \in DOMAIN OddToken,
         DeviceToken(p, token).fault = "none"
  PROVE  LET q == DeviceToken(p, token) IN
         /\ q \in DeviceRecords(N) /\ token.t # "odd"
         /\ TagRests(p, q, token) \/ TagOpens(p, q, token) \/ TagCloses(p, q, token)
<1> DEFINE q == DeviceToken(p, token)
           name == token.name
<1>1. CASE token.t = "comment"
  <2>1. q = p
    BY <1>1 DEF DeviceToken
  <2> QED BY <1>1, <2>1 DEF TagRests, KeepService
<1>2. CASE token.t = "odd"
  <2>1. q = [p EXCEPT !.fault = OddToken[name]]
    BY <1>2 DEF DeviceToken, Fault
  <2>2. q.fault = OddToken[name]
    BY <2>1 DEF DeviceRecords
  <2> QED BY <1>2, <2>2, OddFaults
<1>3. CASE token.t = "text"
  <2>1. q = p \/ q = [p EXCEPT !.fault = "bounded"] \/ q = [p EXCEPT !.buffer = Append(@, name)]
    BY <1>3 DEF DeviceToken, DeviceText, Fault
  <2>2. q = p \/ q = [p EXCEPT !.buffer = Append(@, name)]
    BY <2>1 DEF DeviceRecords
  <2>3. Append(p.buffer, name) \in Seq(N)
    BY AppendKeeps DEF DeviceRecords
  <2>4. /\ q \in DeviceRecords(N) /\ q.stack = p.stack /\ q.out = p.out /\ q.target = p.target
        /\ KeepService(p, q) /\ (q.buffer = p.buffer \/ q.buffer = Append(p.buffer, name))
    BY <2>2, <2>3 DEF DeviceRecords, KeepService
  <2> QED BY <1>3, <2>4 DEF TagRests
<1>4. CASE token.t = "open"
  <2>1. q = StartTag(p, name)
    BY <1>4 DEF DeviceToken
  <2> QED BY <1>4, <2>1, DeviceOpens
<1>5. CASE token.t = "empty"
  <2>1. q = EmptyTag(p, name)
    BY <1>5 DEF DeviceToken
  <2>2. CASE name # "service"
    <3>1. q = p
      BY <2>1, <2>2 DEF EmptyTag
    <3> QED BY <1>5, <2>2, <3>1 DEF TagRests, KeepService
  <2>3. CASE name = "service"
    <3> DEFINE u == [p EXCEPT !.service = TRUE, !.serviceType = "none", !.controlURL = "none"]
    <3>1. ~p.service /\ q = [u EXCEPT !.service = FALSE]
      BY <2>1, <2>3 DEF EmptyTag, EnterService, Fault, DeviceRecords
    <3>2. u \in DeviceRecords(N) /\ u.stack = p.stack /\ u.out = p.out /\ KeepPart(p, u)
      BY DEF DeviceRecords, KeepPart, Words
    <3> HIDE DEF u
    <3>3. /\ q \in DeviceRecords(N) /\ q.stack = u.stack /\ q.out = u.out /\ KeepPart(u, q)
          /\ q.service = FALSE
      BY <3>1, <3>2 DEF DeviceRecords, KeepPart
    <3> QED BY <1>5, <2>3, <3>1, <3>2, <3>3 DEF TagRests, KeepPart
  <2> QED BY <2>2, <2>3
<1>6. CASE token.t = "close"
  <2>1. q = EndTag(p, name)
    BY <1>6 DEF DeviceToken
  <2> QED BY <1>6, <2>1, DeviceCloses
<1> QED
  BY <1>1, <1>2, <1>3, <1>4, <1>5, <1>6

(* What was found stays found.                                             *)
LEMMA FoundStays ==
  ASSUME TextTypes, ReadItem
  PROVE  /\ \A c : Found(c) => Found(c)'
         /\ IsFiniteSet(KnownElements) /\ KnownElements' = KnownElements
         /\ KnownRead \subseteq KnownRead'
<1>1. /\ text' = text /\ place' = place + 1 /\ place \in Nat /\ DOMAIN text.items \subseteq Nat
      /\ DOMAIN text.items = 1..Len(text.items) /\ Len(text.items) \in Nat
  BY OneMore
<1>2. /\ ServiceElements' = ServiceElements /\ KnownElements' = KnownElements
      /\ \A e, name, words : Says(e, name, words)' = Says(e, name, words)
  BY <1>1 DEF ServiceElements, KnownElements, Says, Spells, Tag, Tags, ServiceTags, Inside
<1>3. \A e \in ServiceElements : e[2] \in Nat
  BY <1>1, Zenon DEF ServiceElements
<1>4. \A c : Found(c) => Found(c)'
  BY <1>1, <1>2, <1>3 DEF Found
<1>5. KnownRead \subseteq KnownRead'
  BY <1>1, <1>2, <1>3 DEF KnownRead, KnownElements
<1>6. IsFiniteSet(KnownElements)
  <2>1. IsFiniteSet(DOMAIN text.items)
    BY <1>1, FS_Interval
  <2>2. IsFiniteSet((DOMAIN text.items) \X (DOMAIN text.items))
    BY <2>1, FS_Product
  <2>3. KnownElements \subseteq (DOMAIN text.items) \X (DOMAIN text.items)
    BY DEF KnownElements, ServiceElements
  <2> QED BY <2>2, <2>3, FS_Subset
<1> QED
  BY <1>2, <1>4, <1>5, <1>6

(* A service that closes is an element of its own, which said what was     *)
(* told since it was opened.                                               *)
LEMMA ServiceFound ==
  ASSUME TextTypes, ReadItem, text.items[place].t = "close", text.items[place].name = "service",
         NEW s \in Nat, s \in DOMAIN text.items, s < place, Tag(s, "open", "service"),
         Inside(s, place) \cap ServiceTags = {},
         NEW kind \in ServiceKinds, Told(s, "serviceType", kind),
         NEW url, url # "none", Told(s, "controlURL", url)
  PROVE  /\ Found([service |-> kind, control |-> url])'
         /\ Cardinality(KnownRead') >= Cardinality(KnownRead) + 1
         /\ Cardinality(KnownRead) \in Nat /\ Cardinality(KnownRead') \in Nat
<1> PICK pl : pl = place
  OBVIOUS
<1> DEFINE e == <<s, pl>>
<1>1. /\ text' = text /\ place' = place + 1 /\ place \in Nat /\ place \in DOMAIN text.items
  BY OneMore
<1>2. e \in ServiceElements /\ e[1] = s /\ e[2] = pl
  BY <1>1 DEF ServiceElements, Tag
<1>3. ASSUME NEW name, NEW words, Told(s, name, words), words # "none"
      PROVE  Says(e, name, words)
  BY <1>2, <1>3 DEF Told, Says
<1>4. kind # "none"
  BY DEF ServiceKinds
<1>5. Says(e, "serviceType", kind) /\ Says(e, "controlURL", url)
  BY <1>3, <1>4
<1>6. /\ ServiceElements' = ServiceElements /\ KnownElements' = KnownElements
      /\ \A f, name, words : Says(f, name, words)' = Says(f, name, words)
  BY <1>1 DEF ServiceElements, KnownElements, Says, Spells, Tag, Tags, ServiceTags, Inside
<1>7. Found([service |-> kind, control |-> url])'
  <2> DEFINE c == [service |-> kind, control |-> url]
  <2>1. c.service = kind /\ c.control = url
    OBVIOUS
  <2> HIDE DEF c
  <2>2. /\ e \in ServiceElements' /\ e[2] < place'
        /\ Says(e, "serviceType", c.service)' /\ Says(e, "controlURL", c.control)'
    BY <1>1, <1>2, <1>5, <1>6, <2>1
  <2>3. Found(c)'
    BY <2>2 DEF Found
  <2> QED BY <2>3 DEF c
<1>8. e \in KnownRead' /\ e \notin KnownRead
  BY <1>1, <1>2, <1>5, <1>6 DEF KnownRead, KnownElements
<1>9. IsFiniteSet(KnownRead) /\ IsFiniteSet(KnownRead') /\ KnownRead \cup {e} \subseteq KnownRead'
  <2>1. KnownRead \subseteq KnownElements /\ KnownRead' \subseteq KnownElements
    BY <1>6 DEF KnownRead
  <2> QED BY <1>8, <2>1, FoundStays, FS_Subset
<1>10. Cardinality(KnownRead \cup {e}) = Cardinality(KnownRead) + 1
  BY <1>8, <1>9, FS_AddElement
<1>11. Cardinality(KnownRead \cup {e}) <= Cardinality(KnownRead')
  BY <1>9, FS_Subset
<1> QED
  BY <1>7, <1>9, <1>10, <1>11, FS_CardinalityType

(* A part that closes has told, within its service, what its text says.    *)
LEMMA PartTold ==
  ASSUME TextTypes, ReadItem, NEW n \in Nat, NEW m \in DOMAIN text.items, n < m, m < place,
         NEW name, Tag(m, "open", name), NEW N, NEW b \in Seq(N), text.joins \in N,
         \A i \in DOMAIN b : \E k \in Inside(m, place) : Tag(k, "text", b[i]),
         \A i, j \in DOMAIN b : i # j => TwoTexts(m),
         NEW words, words = Trimmed(b)
  PROVE  Told(n, name, words)'
<1>1. /\ text' = text /\ place' = place + 1 /\ place \in Nat /\ DOMAIN text.items \subseteq Nat
  BY OneMore
<1>2. CASE words = "none"
  BY <1>2 DEF Told
<1>3. ASSUME NEW k \in Inside(m, place), Spells(m, place, words)
      PROVE  Told(n, name, words)'
  <2>1. k \in Nat /\ m \in Nat /\ m < k /\ k < place
    BY <1>1 DEF Inside
  <2>2. m \in Inside(n, place)' /\ Inside(m, place) \subseteq Inside(m, place)' /\ m + 2 < place'
    BY <1>1, <2>1 DEF Inside
  <2>3. Tag(m, "open", name)' /\ \A i, t : Tag(i, "text", t)' = Tag(i, "text", t)
    BY <1>1 DEF Tag
  <2>4. Spells(m, place, words)'
    BY <1>1, <1>3, <2>2, <2>3 DEF Spells
  <2> QED BY <2>2, <2>3, <2>4 DEF Told
<1>4. CASE \E i \in DOMAIN b : b[i] = words
  BY <1>3, <1>4 DEF Spells
<1>5. CASE words = text.joins /\ \E i, j \in DOMAIN b : i # j
  <2>1. TwoTexts(m)
    BY <1>5
  <2> QED BY <1>3, <1>5, <2>1 DEF Spells, TwoTexts
<1> QED
  BY <1>2, <1>4, <1>5, TrimmedText

(* What the service has told stays told when the token adds nothing.       *)
LEMMA ToldKept ==
  ASSUME TextTypes, ReadItem, NEW pos, OpenAt(pos), NEW s \in DOMAIN read.stack, InService(pos, s)
  PROVE  /\ read'.serviceType = read.serviceType => Told(pos[s], "serviceType", read.serviceType)'
         /\ read'.controlURL = read.controlURL => Told(pos[s], "controlURL", read.controlURL)'
<1>1. pos[s] \in Nat
  <2>1. DOMAIN text.items \subseteq Nat
    BY OneMore
  <2> QED BY <2>1 DEF OpenAt
<1>2. Told(pos[s], "serviceType", read.serviceType) /\ Told(pos[s], "controlURL", read.controlURL)
  BY DEF InService
<1>3. ASSUME NEW w, w = read.serviceType, read'.serviceType = read.serviceType
      PROVE  Told(pos[s], "serviceType", read.serviceType)'
  <2>1. Told(pos[s], "serviceType", w)
    BY <1>2, <1>3
  <2>2. Told(pos[s], "serviceType", w)'
    BY <1>1, <2>1, ToldStays
  <2>3. read'.serviceType = w
    BY <1>3
  <2> QED BY <2>2, <2>3 DEF Told
<1>4. ASSUME NEW w, w = read.controlURL, read'.controlURL = read.controlURL
      PROVE  Told(pos[s], "controlURL", read.controlURL)'
  <2>1. Told(pos[s], "controlURL", w)
    BY <1>2, <1>4
  <2>2. Told(pos[s], "controlURL", w)'
    BY <1>1, <2>1, ToldStays
  <2>3. read'.controlURL = w
    BY <1>4
  <2> QED BY <2>2, <2>3 DEF Told
<1> QED
  BY <1>3, <1>4

(* What was found and counted, when nothing is added.                      *)
LEMMA NothingFound ==
  ASSUME TextTypes, ReadItem, DeviceInv, read'.out = read.out
  PROVE  /\ \A n \in DOMAIN read'.out : Found(read.out[n])'
         /\ Len(read'.out) <= Cardinality(KnownRead')
<1>1. \A n \in DOMAIN read.out : Found(read.out[n])
  BY DEF DeviceInv
<1>2. \A n \in DOMAIN read'.out : Found(read.out[n])'
  <2> SUFFICES ASSUME NEW n \in DOMAIN read'.out PROVE Found(read.out[n])'
    OBVIOUS
  <2> PICK c : c = read.out[n]
    OBVIOUS
  <2>1. Found(c)'
    BY <1>1, FoundStays
  <2>2. read'.out[n] = c
    OBVIOUS
  <2> QED BY <2>1, <2>2 DEF Found
<1>3. KnownRead \subseteq KnownRead' /\ IsFiniteSet(KnownRead')
  <2>1. KnownRead' \subseteq KnownElements
    BY FoundStays DEF KnownRead
  <2> QED BY <2>1, FoundStays, FS_Subset
<1>4. Cardinality(KnownRead) <= Cardinality(KnownRead')
  BY <1>3, FS_Subset
<1>5. Cardinality(KnownRead) \in Nat /\ Cardinality(KnownRead') \in Nat
  BY <1>3, FS_Subset, FS_CardinalityType
<1>6. Len(read.out) <= Cardinality(KnownRead) /\ Len(read.out) \in Nat
  BY DEF DeviceInv, DeviceRecords
<1>7. Len(read'.out) <= Cardinality(KnownRead')
  BY <1>4, <1>5, <1>6
<1> QED
  BY <1>2, <1>7

(* A token keeps the places of what is open: one that rests,               *)
LEMMA RestsPlaced ==
  ASSUME TextTypes, ReadItem, text.items[place].name \in Names, read \in DeviceRecords(Names),
         TagRests(read, read', text.items[place]),
         NEW pos, OpenAt(pos), ServiceAt(pos), PartAt(pos), NEW new, new = Placed(pos)
  PROVE  ServiceAt(new)' /\ PartAt(new)'
<1> DEFINE item == text.items[place]
<1>1. Same /\ ~Pushed /\ ~Closing
  BY DEF TagRests, Same, Pushed, Closing
<1>2. /\ read.stack \in Seq(Names) /\ read.buffer \in Seq(Names) /\ read.service \in BOOLEAN
      /\ read.target \in Parts \cup {"none"}
  BY DEF DeviceRecords
<1>3. PartAt(new)'
  BY <1>1, <1>2, PartStays DEF TagRests, KeepPart
<1>4. CASE item.t = "empty" /\ item.name = "service"
  <2>1. ~read.service /\ ~read'.service /\ read'.stack = read.stack
    BY <1>4 DEF TagRests
  <2> QED BY <1>3, <2>1 DEF ServiceAt
<1>5. CASE ~(item.t = "empty" /\ item.name = "service")
  <2>1. KeepService(read, read')
    BY <1>5 DEF TagRests
  <2>2. place \notin ServiceTags
    BY <1>5 DEF TagRests, ServiceTags, Tags
  <2>3. ASSUME NEW s \in DOMAIN read.stack, InService(pos, s)
        PROVE  Told(pos[s], "serviceType", read.serviceType)' /\ Told(pos[s], "controlURL", read.controlURL)'
    BY <2>1, <2>3, ToldKept DEF KeepService
  <2> QED BY <1>1, <1>2, <1>3, <2>1, <2>2, <2>3, ServiceStays DEF KeepService
<1> QED
  BY <1>4, <1>5

(* one that opens,                                                         *)
LEMMA OpensPlaced ==
  ASSUME TextTypes, ReadItem, text.items[place].name \in Names, read \in DeviceRecords(Names),
         TagOpens(read, read', text.items[place]),
         NEW pos, OpenAt(pos), ServiceAt(pos), PartAt(pos), NEW new, new = Placed(pos)
  PROVE  ServiceAt(new)' /\ PartAt(new)'
<1> DEFINE item == text.items[place]
           L == Len(read.stack)
<1>1. Pushed /\ ~Closing
  BY DEF TagOpens, Pushed, Closing
<1>2. /\ read.stack \in Seq(Names) /\ read.buffer \in Seq(Names) /\ read.service \in BOOLEAN
      /\ read.target \in Parts \cup {"none"}
  BY DEF DeviceRecords
<1>3. /\ L \in Nat /\ DOMAIN read.stack = 1..L /\ DOMAIN read'.stack = 1..(L + 1)
      /\ read'.stack[L + 1] = item.name
      /\ \A i \in 1..L : read'.stack[i] = read.stack[i]
  BY <1>1, <1>2, AppendKeeps DEF Pushed
<1>4. L + 1 \in DOMAIN read'.stack /\ L + 1 \notin DOMAIN read.stack
  BY <1>3
<1>5. new[L + 1] = place
  BY <1>4 DEF Placed
<1>6. PartAt(new)'
  <2>1. CASE item.name \notin Parts
    <3>1. KeepPart(read, read')
      BY <2>1 DEF TagOpens
    <3> QED BY <1>1, <1>2, <2>1, <3>1, PartStays DEF KeepPart
  <2>2. CASE item.name \in Parts
    <3>1. read.target = "none" /\ read'.target = item.name /\ read'.buffer = <<>>
      BY <2>2 DEF TagOpens, Parts
    <3>2. \A i \in 1..L : read.stack[i] \notin Parts
      BY <1>3, <3>1 DEF PartAt
    <3>3. \A i \in DOMAIN read'.stack : read'.stack[i] \in Parts => i = L + 1
      BY <1>3, <3>2
    <3>4. DOMAIN read'.buffer = {}
      BY <3>1
    <3>5. item.name # "none"
      BY <2>2 DEF Parts
    <3>6. \E s \in DOMAIN read'.stack : InPart(new, s)'
      <4> PICK s : s = L + 1
        OBVIOUS
      <4>1. s \in DOMAIN read'.stack /\ read'.stack[s] = read'.target
        BY <1>3, <1>4, <3>1
      <4>2. InPart(new, s)'
        BY <3>3, <3>4, <4>1 DEF InPart
      <4> QED BY <4>1, <4>2
    <3> QED BY <3>1, <3>5, <3>6 DEF PartAt
  <2> QED BY <2>1, <2>2
<1>7. CASE item.name # "service"
  <2>1. KeepService(read, read')
    BY <1>7 DEF TagOpens
  <2>2. place \notin ServiceTags
    BY <1>7 DEF ServiceTags, Tags
  <2>3. ASSUME NEW s \in DOMAIN read.stack, InService(pos, s)
        PROVE  Told(pos[s], "serviceType", read.serviceType)' /\ Told(pos[s], "controlURL", read.controlURL)'
    BY <2>1, <2>3, ToldKept DEF KeepService
  <2> QED BY <1>1, <1>2, <1>6, <2>1, <2>2, <2>3, ServiceStays DEF KeepService
<1>8. CASE item.name = "service"
  <2>1. ~read.service /\ read'.service /\ read'.serviceType = "none" /\ read'.controlURL = "none"
    BY <1>8 DEF TagOpens, Parts
  <2>2. \A i \in 1..L : read.stack[i] # "service"
    BY <1>3, <2>1 DEF ServiceAt
  <2>3. \A i \in DOMAIN read'.stack : read'.stack[i] = "service" => i = L + 1
    BY <1>3, <2>2
  <2> PICK s : s = L + 1
    OBVIOUS
  <2>4. s \in DOMAIN read'.stack /\ read'.stack[s] = "service" /\ new[s] = place
    BY <1>3, <1>4, <1>5, <1>8
  <2>5. Inside(new[s], place)' = {}
    <3>1. place \in Nat /\ place' = place + 1 /\ text' = text /\ DOMAIN text.items \subseteq Nat
      BY OneMore
    <3> QED BY <2>4, <3>1 DEF Inside
  <2>6. Told(new[s], "serviceType", read.serviceType)' /\ Told(new[s], "controlURL", read.controlURL)'
    BY <2>1 DEF Told
  <2>7. InService(new, s)'
    BY <2>3, <2>4, <2>5, <2>6 DEF InService
  <2> QED BY <1>6, <2>1, <2>4, <2>7 DEF ServiceAt
<1> QED
  BY <1>7, <1>8

(* and one that closes.                                                    *)
LEMMA ClosesPlaced ==
  ASSUME TextTypes, ReadItem, text.items[place].name \in Names, read \in DeviceRecords(Names),
         TagCloses(read, read', text.items[place]),
         NEW pos, OpenAt(pos), ServiceAt(pos), PartAt(pos), NEW new, new = Placed(pos)
  PROVE  ServiceAt(new)' /\ PartAt(new)'
<1> DEFINE item == text.items[place]
           L == Len(read.stack)
<1>1. Closing /\ ~Pushed
  BY DEF TagCloses, Pushed, Closing
<1>2. /\ read.stack \in Seq(Names) /\ read.buffer \in Seq(Names) /\ read.service \in BOOLEAN
      /\ read.target \in Parts \cup {"none"}
  BY DEF DeviceRecords
<1>3. /\ L \in Nat \ {0} /\ DOMAIN read.stack = 1..L /\ DOMAIN read'.stack = 1..(L - 1)
      /\ read.stack[L] = item.name /\ L \in 1..L
      /\ \A i \in 1..(L - 1) : read'.stack[i] = read.stack[i]
  BY <1>1, <1>2, Popped DEF Closing, Top
<1>4. CASE item.name = "service"
  <2>1. ~read'.service /\ KeepPart(read, read')
    BY <1>4 DEF TagCloses, Parts
  <2>2. item.name \notin Parts
    BY <1>4 DEF Parts
  <2>3. PartAt(new)'
    BY <1>1, <1>2, <2>1, <2>2, PartStays DEF KeepPart
  <2>4. read.service
    BY <1>3, <1>4 DEF ServiceAt
  <2>5. \A i, j \in 1..L : read.stack[i] = "service" /\ read.stack[j] = "service" => i = j
    BY <1>3, <2>4 DEF ServiceAt, InService
  <2>6. \A i \in DOMAIN read'.stack : read'.stack[i] # "service"
    BY <1>3, <1>4, <2>5
  <2> QED BY <2>1, <2>3, <2>6 DEF ServiceAt
<1>5. CASE item.name \notin Parts \cup {"service"}
  <2>1. KeepService(read, read') /\ KeepPart(read, read')
    BY <1>5 DEF TagCloses
  <2>2. place \notin ServiceTags
    BY <1>5 DEF ServiceTags, Tags
  <2>3. ASSUME NEW s \in DOMAIN read.stack, InService(pos, s)
        PROVE  Told(pos[s], "serviceType", read.serviceType)' /\ Told(pos[s], "controlURL", read.controlURL)'
    BY <2>1, <2>3, ToldKept DEF KeepService
  <2>4. ServiceAt(new)'
    BY <1>1, <1>2, <2>1, <2>2, <2>3, ServiceStays DEF KeepService
  <2>5. PartAt(new)'
    BY <1>1, <1>2, <1>5, <2>1, PartStays DEF KeepPart
  <2> QED BY <2>4, <2>5
<1>6. CASE item.name \in Parts
  <2>1. /\ read'.target = "none" /\ read'.service = read.service
        /\ \/ read'.serviceType = read.serviceType
           \/ item.name = "serviceType" /\ read'.serviceType = Trimmed(read.buffer)
        /\ \/ read'.controlURL = read.controlURL
           \/ item.name = "controlURL" /\ read'.controlURL = Trimmed(read.buffer)
    BY <1>6 DEF TagCloses, Parts
  <2>2. InPart(pos, L) /\ read.target = item.name
    <3>1. PICK s \in 1..L : InPart(pos, s)
      BY <1>3, <1>6 DEF PartAt
    <3>2. s = L
      BY <1>3, <1>6, <3>1 DEF InPart
    <3> QED BY <1>3, <3>1, <3>2 DEF InPart
  <2>3. \A i \in DOMAIN read'.stack : read'.stack[i] \notin Parts
    BY <1>3, <2>2 DEF InPart
  <2>4. PartAt(new)'
    BY <2>1, <2>3 DEF PartAt
  <2>5. place \notin ServiceTags
    BY <1>6 DEF ServiceTags, Tags, Parts
  <2>6. ASSUME NEW s \in DOMAIN read.stack, InService(pos, s)
        PROVE  Told(pos[s], "serviceType", read.serviceType)' /\ Told(pos[s], "controlURL", read.controlURL)'
    <3>1. s \in 1..L /\ s # L /\ s < L
      BY <1>3, <1>6, <2>6 DEF InService, Parts
    <3>2. DOMAIN text.items \subseteq Nat
      BY OneMore
    <3>3. /\ pos[s] \in Nat /\ pos[L] \in DOMAIN text.items /\ pos[s] < pos[L] /\ pos[L] < place
          /\ Tag(pos[L], "open", item.name)
      BY <1>3, <3>1, <3>2 DEF OpenAt
    <3>4. /\ \A i \in DOMAIN read.buffer : \E k \in Inside(pos[L], place) : Tag(k, "text", read.buffer[i])
          /\ \A i, j \in DOMAIN read.buffer : i # j => TwoTexts(pos[L])
          /\ text.joins \in Names
      BY <2>2 DEF InPart, Names
    <3> PICK b \in Seq(Names) : b = read.buffer
      BY <1>2
    <3> PICK name : name = item.name
      OBVIOUS
    <3> PICK words : words = Trimmed(b)
      OBVIOUS
    <3>5. Told(pos[s], name, words)'
      BY <3>3, <3>4, PartTold
    <3>6. CASE item.name = "serviceType"
      <4>1. read'.controlURL = read.controlURL
            /\ (read'.serviceType = read.serviceType \/ read'.serviceType = words)
        BY <2>1, <3>6
      <4>2. Told(pos[s], "serviceType", words)'
        BY <3>5, <3>6
      <4> QED BY <2>6, <4>1, <4>2, ToldKept DEF Told
    <3>7. CASE item.name = "controlURL"
      <4>1. read'.serviceType = read.serviceType
            /\ (read'.controlURL = read.controlURL \/ read'.controlURL = words)
        BY <2>1, <3>7
      <4>2. Told(pos[s], "controlURL", words)'
        BY <3>5, <3>7
      <4> QED BY <2>6, <4>1, <4>2, ToldKept DEF Told
    <3> QED BY <1>6, <3>6, <3>7 DEF Parts
  <2>7. ServiceAt(new)'
    BY <1>1, <1>2, <2>1, <2>5, <2>6, ServiceStays
  <2> QED BY <2>4, <2>7
<1> QED
  BY <1>4, <1>5, <1>6

(* A token keeps DeviceInv.                                                *)
LEMMA DeviceKeeps ==
  ASSUME TextTypes, text.kind = "device", DeviceInv, ReadItem, read'.fault = "none"
  PROVE  DeviceInv'
<1> DEFINE item == text.items[place]
           L == Len(read.stack)
<1>1. /\ place \in DOMAIN text.items /\ UNCHANGED text /\ Classified(text) /\ DOMAIN text.items \subseteq Nat
  BY OneMore
<1>2. /\ item.t \in {"open", "empty", "close", "text", "comment", "odd"}
      /\ item.t = "odd" => item.name \in DOMAIN OddToken
  BY <1>1 DEF Classified
<1>3. read' = DeviceToken(read, item)
  BY DEF ReadItem
<1>4. /\ Names' = Names /\ item.name \in Names /\ read \in DeviceRecords(Names)
      /\ text.joins \in Names
  BY SetRead DEF DeviceInv, Names
<1>5. /\ read' \in DeviceRecords(Names) /\ item.t # "odd"
      /\ TagRests(read, read', item) \/ TagOpens(read, read', item) \/ TagCloses(read, read', item)
  BY <1>2, <1>3, <1>4, DeviceTurns
<1>6. ReadOf(Toks("odd"))' = {}
  BY <1>5, SetRead DEF DeviceInv
<1>7. /\ TagRests(read, read', item) => Same /\ item.t \notin {"open", "close"}
      /\ TagOpens(read, read', item) => Pushed /\ item.t = "open"
      /\ TagCloses(read, read', item) => Closing /\ item.t = "close"
  BY DEF TagRests, TagOpens, TagCloses, Same, Pushed, Closing
<1>8. read.stack \in Seq(Names) /\ L \in Nat /\ (Same \/ Pushed \/ Closing)
  BY <1>4, <1>5, <1>7 DEF DeviceRecords
<1>9. Cardinality(ReadOf(Toks("open"))') = Cardinality(ReadOf(Toks("close"))') + Len(read'.stack)
  <2>1. /\ Cardinality(ReadOf(Toks("open"))) = Cardinality(ReadOf(Toks("close"))) + L
        /\ Cardinality(ReadOf(Toks("open"))) \in Nat /\ Cardinality(ReadOf(Toks("close"))) \in Nat
    BY SetRead DEF DeviceInv
  <2>2. /\ Cardinality(ReadOf(Toks("open"))') = IF item.t = "open" THEN Cardinality(ReadOf(Toks("open"))) + 1
                                                ELSE Cardinality(ReadOf(Toks("open")))
        /\ Cardinality(ReadOf(Toks("close"))') = IF item.t = "close" THEN Cardinality(ReadOf(Toks("close"))) + 1
                                                 ELSE Cardinality(ReadOf(Toks("close")))
    BY SetRead
  <2>3. CASE TagRests(read, read', item)
    BY <1>7, <1>8, <2>1, <2>2, <2>3 DEF Same
  <2>4. CASE TagOpens(read, read', item)
    <3>1. Len(read'.stack) = L + 1 /\ item.t = "open"
      BY <1>4, <1>7, <1>8, <2>4, AppendKeeps DEF Pushed
    <3> QED BY <1>8, <2>1, <2>2, <3>1
  <2>5. CASE TagCloses(read, read', item)
    <3>1. Len(read'.stack) = L - 1 /\ item.t = "close"
      BY <1>7, <1>8, <2>5, Popped DEF Closing
    <3> QED BY <1>8, <2>1, <2>2, <3>1
  <2> QED BY <1>5, <2>3, <2>4, <2>5
<1> PICK pos \in [DOMAIN read.stack -> DOMAIN text.items] : OpenAt(pos) /\ ServiceAt(pos) /\ PartAt(pos)
  BY DEF DeviceInv
<1> PICK new : new = Placed(pos)
  OBVIOUS
<1>10. new \in [DOMAIN read.stack -> DOMAIN text.items]' /\ OpenAt(new)'
  BY <1>4, <1>8, PlacesKeep
<1>11. ServiceAt(new)' /\ PartAt(new)'
  BY <1>4, <1>5, RestsPlaced, OpensPlaced, ClosesPlaced
<1>12. /\ \A n \in DOMAIN read'.out : Found(read.out[n])'
       /\ Len(read'.out) <= Cardinality(KnownRead')
  <2>1. CASE read'.out = read.out
    BY <2>1, NothingFound
  <2>2. CASE read'.out # read.out
    <3> DEFINE c == [service |-> read.serviceType, control |-> read.controlURL]
               C == [service : ServiceKinds, control : Words(Names)]
    <3>1. /\ TagCloses(read, read', item) /\ item.name = "service"
          /\ read.serviceType \in ServiceKinds /\ read.controlURL # "none"
          /\ read'.out = Append(read.out, c)
      BY <1>5, <2>2 DEF TagRests, TagOpens, TagCloses, Parts
    <3>2. Closing /\ item.t = "close" /\ read.stack # <<>> /\ read.stack[L] = "service"
      BY <1>7, <3>1 DEF Closing, Top
    <3>3. L \in DOMAIN read.stack
      BY <1>8, <3>2, Popped
    <3>4. InService(pos, L)
      BY <3>2, <3>3 DEF ServiceAt, InService
    <3>5. /\ pos[L] \in Nat /\ pos[L] \in DOMAIN text.items /\ pos[L] < place /\ Tag(pos[L], "open", "service")
      BY <1>1, <3>2, <3>3 DEF OpenAt
    <3>6. /\ Inside(pos[L], place) \cap ServiceTags = {}
          /\ Told(pos[L], "serviceType", read.serviceType) /\ Told(pos[L], "controlURL", read.controlURL)
      BY <3>4 DEF InService
    <3> PICK l : l = pos[L]
      OBVIOUS
    <3> PICK kind \in ServiceKinds : kind = read.serviceType
      BY <3>1
    <3> PICK url : url = read.controlURL
      OBVIOUS
    <3>7. /\ Found([service |-> kind, control |-> url])'
          /\ Cardinality(KnownRead') >= Cardinality(KnownRead) + 1
          /\ Cardinality(KnownRead) \in Nat /\ Cardinality(KnownRead') \in Nat
      BY <3>1, <3>2, <3>5, <3>6, ServiceFound
    <3>8. read.out \in Seq(C) /\ c \in C /\ Len(read.out) <= Cardinality(KnownRead)
      BY <1>4, <3>1 DEF DeviceRecords, DeviceInv
    <3>9. /\ Len(read'.out) = Len(read.out) + 1 /\ Len(read.out) \in Nat
          /\ DOMAIN read'.out = 1..(Len(read.out) + 1) /\ DOMAIN read.out = 1..Len(read.out)
          /\ \A i \in 1..Len(read.out) : read'.out[i] = read.out[i]
          /\ read'.out[Len(read.out) + 1] = c
      <4> HIDE DEF c, C
      <4> QED BY <3>1, <3>8, AppendKeeps
    <3>10. Len(read'.out) <= Cardinality(KnownRead')
      BY <3>7, <3>8, <3>9
    <3>11. ASSUME NEW n \in DOMAIN read'.out PROVE Found(read.out[n])'
      <4>1. CASE n = Len(read.out) + 1
        <5>1. read'.out[n] = [service |-> kind, control |-> url]
          BY <3>9, <4>1
        <5> QED BY <3>7, <5>1 DEF Found
      <4>2. CASE n \in 1..Len(read.out)
        <5> PICK d : d = read.out[n]
          OBVIOUS
        <5>1. Found(d)
          BY <3>9, <4>2 DEF DeviceInv
        <5>2. Found(d)' /\ read'.out[n] = d
          BY <3>9, <4>2, <5>1, FoundStays
        <5> QED BY <5>2 DEF Found
      <4> QED BY <3>9, <4>1, <4>2
    <3> QED BY <3>10, <3>11
  <2> QED BY <2>1, <2>2
<1> QED
  BY <1>4, <1>5, <1>6, <1>9, <1>10, <1>11, <1>12 DEF DeviceInv

(* What is said of control URLs holds of every reply.                      *)
LEMMA UrlsAccepted ==
  ASSUME TextTypes, text.kind = "ssdp"
  PROVE  \A n \in DOMAIN text.urls :
           LET u == text.urls[n] IN
           ResolveControl(u) = "ok" => (u.relative \/ u.gateway) /\ ~u.smuggles /\ ~u.dots
<1>1. Classified(text)
  BY DEF TextTypes
<1>2. \A n \in DOMAIN text.urls : text.urls[n] \in UrlClasses
  BY <1>1 DEF Classified
<1> QED
  BY <1>2, UrlAccepted

(* Before the first item nothing has been read.                            *)
LEMMA NothingRead ==
  ASSUME IsList(text.items), place = 1, NEW S, S \subseteq DOMAIN text.items
  PROVE  ReadOf(S) = {} /\ Cardinality(ReadOf(S)) = 0
<1>1. ReadOf(S) = {}
  BY DEF ReadOf, IsList
<1> QED
  BY <1>1, FS_EmptySet

(* The invariant holds at the start of a text.                             *)
LEMMA TextStarts ==
  ASSUME NEW texts, \A t \in texts : Classified(t) \/ t = [kind |-> "over", items |-> <<>>],
         TextInit(texts)
  PROVE  TextInv
<1>1. CASE text = [kind |-> "over", items |-> <<>>]
  <2>1. text.kind = "over" /\ text.items = <<>> /\ Len(text.items) = 0 /\ place = 2
    BY <1>1 DEF TextInit
  <2>2. TextTypes
    BY <1>1, <2>1 DEF TextTypes
  <2>3. TextsExact
    BY <2>1 DEF TextsExact
  <2> QED BY <2>1, <2>2, <2>3 DEF TextInv
<1>2. CASE Classified(text)
  <2>1. text.kind \in {"proc", "ssdp", "device", "soap"} /\ IsList(text.items)
    BY <1>2 DEF Classified, Kinds
  <2>2. place = 1 /\ read = First(text) /\ Len(text.items) \in Nat /\ DOMAIN text.items = 1..Len(text.items)
    BY <2>1 DEF TextInit, IsList
  <2>3. TextTypes
    BY <1>2, <2>2 DEF TextTypes
  <2>4. TextsExact
    BY <2>1, <2>2, <2>3, UrlsAccepted DEF TextsExact, TextPending
  <2>5. text.kind = "ssdp" => read.fault # "ok"
    BY <2>2 DEF First, SsdpFirst
  <2>6. ASSUME NEW S, S \subseteq DOMAIN text.items
        PROVE  ReadOf(S) = {} /\ Cardinality(ReadOf(S)) = 0
    BY <2>1, <2>2, <2>6, NothingRead
  <2>7. ASSUME NEW N PROVE <<>> \in Seq(N) /\ Len(<<>>) = 0 /\ DOMAIN <<>> = {}
    OBVIOUS
  <2>8. CASE text.kind = "proc" /\ read.fault = "none"
    <3>1. read = [fault |-> "none", routes |-> <<>>, ended |-> FALSE]
      BY <2>2, <2>8 DEF First, Routed
    <3>2. KeptRoutes \subseteq DOMAIN text.items /\ Items({"malformed"}) \subseteq DOMAIN text.items
      BY DEF KeptRoutes, Items
    <3>3. read \in [fault : {"none"}, routes : Seq(Routings), ended : BOOLEAN] /\ Len(read.routes) = 0
      BY <2>7, <3>1
    <3>4. ReadOf(KeptRoutes) = {} /\ Cardinality(ReadOf(KeptRoutes)) = 0 /\ ReadOf(Items({"malformed"})) = {}
      BY <2>6, <3>2
    <3> QED BY <2>3, <2>4, <2>5, <2>8, <3>3, <3>4, DocumentAssumption DEF TextInv, PrefixInv, RouteInv
  <2>9. CASE text.kind = "ssdp"
    <3>1. read = [fault |-> "none", headers |-> 0, location |-> "none", igd |-> "none"]
      BY <2>2, <2>9 DEF First, SsdpFirst
    <3>2. ReadOf(Items({"location"})) = {}
      BY <2>6 DEF Items
    <3> QED BY <2>3, <2>4, <2>5, <2>9, <3>1, <3>2 DEF TextInv, PrefixInv, SsdpInv
  <2>10. CASE text.kind = "device" /\ read.fault = "none"
    <3>1. read = DeviceFirst
      BY <2>2, <2>10 DEF First, HttpBody, Fault, DeviceFirst
    <3>2. read \in DeviceRecords(Names) /\ DOMAIN read.stack = {} /\ Len(read.stack) = 0
          /\ DOMAIN read.out = {} /\ Len(read.out) = 0 /\ read.target = "none" /\ read.service = FALSE
      BY <2>7, <3>1 DEF DeviceFirst, DeviceRecords, Words
    <3>3. ReadOf(Toks("odd")) = {} /\ Cardinality(ReadOf(Toks("open"))) = 0 /\ Cardinality(ReadOf(Toks("close"))) = 0
      BY <2>6 DEF Toks
    <3>4. KnownRead = {}
      <4>1. \A e \in KnownElements : e[2] \in DOMAIN text.items
        BY DEF KnownElements, ServiceElements
      <4> QED BY <2>2, <4>1 DEF KnownRead
    <3>5. Cardinality(KnownRead) = 0
      BY <3>4, FS_EmptySet
    <3> DEFINE pos == [i \in {} |-> 1]
    <3>6. pos \in [DOMAIN read.stack -> DOMAIN text.items]
      BY <3>2
    <3> HIDE DEF pos
    <3>7. OpenAt(pos) /\ ServiceAt(pos) /\ PartAt(pos)
      BY <3>2, <3>6 DEF OpenAt, ServiceAt, PartAt
    <3>8. \E p \in [DOMAIN read.stack -> DOMAIN text.items] : OpenAt(p) /\ ServiceAt(p) /\ PartAt(p)
      BY <3>6, <3>7
    <3>9. \A n \in DOMAIN read.out : Found(read.out[n])
      BY <3>2
    <3>10. /\ Cardinality(ReadOf(Toks("open"))) = Cardinality(ReadOf(Toks("close"))) + Len(read.stack)
           /\ Len(read.out) <= Cardinality(KnownRead)
      BY <3>2, <3>3, <3>5
    <3>11. DeviceInv
      BY <3>2, <3>3, <3>8, <3>9, <3>10 DEF DeviceInv
    <3> QED BY <2>3, <2>4, <2>5, <2>10, <3>11 DEF TextInv, PrefixInv
  <2>11. CASE text.kind = "soap" /\ read.fault = "none"
    <3>1. read = SoapFirst
      BY <2>2, <2>11 DEF First, HttpBody, Fault, SoapFirst
    <3>2. read \in SoapRecords(Names) /\ read.response = "none" /\ read.capturing = "none"
          /\ \A f \in Fields : read.view[f] = "none"
      BY <2>7, <3>1 DEF SoapFirst, SoapRecords, Words
    <3>3. ReadOf(Toks("odd")) = {} /\ \A names : ReadOf(TagsOf(names)) = {}
      BY <2>6 DEF Toks, TagsOf, Tags
    <3>4. SoapInv
      BY <3>2, <3>3, SoapNames DEF SoapInv
    <3> QED BY <2>3, <2>4, <2>5, <2>11, <3>4 DEF TextInv, PrefixInv
  <2>12. CASE read.fault # "none"
    BY <2>3, <2>4, <2>5, <2>12 DEF TextInv
  <2> QED BY <2>1, <2>8, <2>9, <2>10, <2>11, <2>12
<1> QED
  BY <1>1, <1>2 DEF TextInit

(* One more item keeps the invariant.                                      *)
LEMMA ReadItemKeeps == ASSUME TextInv, ReadItem PROVE TextInv'
<1> DEFINE item == text.items[place]
<1>1. TextTypes /\ PrefixInv /\ TextsExact /\ place <= Len(text.items) + 1 /\ read.fault = "none"
  <2>1. TextTypes /\ TextsExact
    BY DEF TextInv
  <2>2. place <= Len(text.items) /\ read.fault = "none"
    BY DEF ReadItem
  <2>3. place <= Len(text.items) + 1
    BY <2>1, <2>2, OneMore
  <2> QED BY <2>1, <2>2, <2>3 DEF TextInv
<1>2. /\ Len(text.items) \in Nat /\ place \in Nat /\ place <= Len(text.items)
      /\ place' = place + 1 /\ text' = text
  BY <1>1, OneMore DEF ReadItem
<1>3. TextTypes'
  <2>1. ~(text = [kind |-> "over", items |-> <<>>] /\ place = 2)
    BY <1>2
  <2> QED BY <1>1, <1>2, <2>1 DEF TextTypes
<1>4. TextsExact'
  BY <1>1, <1>2 DEF TextsExact, TextPending
<1>5. ASSUME read'.fault = "none" PROVE PrefixInv'
  <2>1. ASSUME text.kind \in {"proc", "netlink"} PROVE RouteInv'
    BY <1>1, <1>5, <2>1, RouteKeeps DEF PrefixInv
  <2>2. ASSUME text.kind = "ssdp" PROVE SsdpInv'
    BY <1>1, <1>5, <2>2, SsdpKeeps DEF PrefixInv
  <2>3. ASSUME text.kind = "device" PROVE DeviceInv'
    BY <1>1, <1>5, <2>3, DeviceKeeps DEF PrefixInv
  <2>4. ASSUME text.kind = "soap" PROVE SoapInv'
    BY <1>1, <1>5, <2>4, SoapKeeps DEF PrefixInv
  <2> QED BY <1>2, <2>1, <2>2, <2>3, <2>4 DEF PrefixInv
<1>6. ASSUME text.kind = "ssdp" PROVE read'.fault # "ok"
  <2>1. read' = SsdpLine(read, item)
    BY <1>6 DEF ReadItem
  <2>2. read \in [fault : {"none"}, headers : Int, location : {"none"} \cup DOMAIN text.urls,
                  igd : {"none", "igd", "other"}]
    BY <1>1, <1>6 DEF PrefixInv, SsdpInv
  <2> QED BY <2>1, <2>2 DEF SsdpLine, Fault
<1> QED
  BY <1>2, <1>3, <1>4, <1>5, <1>6 DEF TextInv

(* So does the turn to netlink.                                            *)
LEMMA FallBackKeeps == ASSUME TextInv, FallBack PROVE TextInv'
<1>1. /\ text.kind = "proc" /\ read.fault \in {"unavailable", "malformed"}
      /\ Kinds(text.netlink, {"route", "done", "error", "short", "other"})
  BY TextList DEF FallBack, TextInv
<1>2. PICK items : items = text.netlink
  OBVIOUS
<1>3. /\ text' = [kind |-> "netlink", items |-> items, file |-> read.fault] /\ place' = 1
      /\ IsList(items) /\ Len(items) \in Nat /\ DOMAIN items = 1..Len(items)
      /\ Kinds(items, {"route", "done", "error", "short", "other"})
  BY <1>1, <1>2 DEF FallBack, Kinds, IsList
<1>4. text'.kind = "netlink" /\ text'.items = items /\ text'.file # "bounded"
  BY <1>1, <1>3
<1>5. TextTypes'
  BY <1>3, <1>4 DEF TextTypes
<1>6. TextsExact'
  BY <1>3, <1>4 DEF TextsExact, TextPending
<1>7. ASSUME read'.fault = "none" PROVE RouteInv'
  <2>1. read' = Routed /\ DumpFinished(items)
    BY <1>2, <1>7 DEF FallBack, Routed, DumpFaults
  <2>2. read' = [fault |-> "none", routes |-> <<>>, ended |-> FALSE]
    BY <2>1 DEF Routed
  <2>3. read' \in [fault : {"none"}, routes : Seq(Routings'), ended : BOOLEAN] /\ Len(read'.routes) = 0
        /\ read'.ended = FALSE
    BY <2>2
  <2>4. Items({"done"})' # {}
    BY <1>4, <2>1 DEF Items, DumpFinished
  <2>5. ReadOf(KeptRoutes)' = {} /\ ReadOf(Items({"done"}))' = {}
    BY <1>3, <1>4 DEF ReadOf, KeptRoutes, Items
  <2>6. Cardinality(ReadOf(KeptRoutes)') = 0
    BY <2>5, FS_EmptySet
  <2> QED BY <1>4, <2>3, <2>4, <2>5, <2>6, DocumentAssumption DEF RouteInv
<1> QED
  BY <1>4, <1>5, <1>6, <1>7 DEF TextInv, PrefixInv

(* At the end of a text all of it has been read.                           *)
LEMMA AllRead ==
  ASSUME IsList(text.items), Len(text.items) \in Nat, place = Len(text.items) + 1
  PROVE  /\ \A S : S \subseteq DOMAIN text.items => ReadOf(S) = S
         /\ KnownRead = KnownElements
<1>1. \A i \in DOMAIN text.items : i < place
  BY DEF IsList
<1>2. \A e \in KnownElements : e[2] \in DOMAIN text.items
  BY DEF KnownElements, ServiceElements
<1> QED
  BY <1>1, <1>2 DEF ReadOf, KnownRead

(* What was read of a whole table is exact.                                *)
LEMMA RoutesEnd ==
  ASSUME TextTypes, text.kind \in {"proc", "netlink"}, RouteInv, place = Len(text.items) + 1
  PROVE  RoutesExact
<1>1. IsList(text.items) /\ Len(text.items) \in Nat /\ (text.kind = "netlink" => text.file # "bounded")
  BY TextList
<1>2. ReadOf(KeptRoutes) = KeptRoutes /\ \A ks : ReadOf(Items(ks)) = Items(ks)
  <2>1. KeptRoutes \subseteq DOMAIN text.items /\ \A ks : Items(ks) \subseteq DOMAIN text.items
    BY DEF KeptRoutes, Items
  <2> QED BY <1>1, <2>1, AllRead
<1> QED
  BY <1>1, <1>2 DEF RouteInv, RoutesExact

(* So is the location that a whole reply agrees on.                        *)
LEMMA LocationEnd ==
  ASSUME TextTypes, text.kind = "ssdp", SsdpInv, place = Len(text.items) + 1,
         SsdpLocation(read, text.urls) = "ok"
  PROVE  LET u == text.urls[read.location] IN
         /\ \A i \in Items({"location"}) : text.items[i].url = read.location
         /\ u.gateway /\ u.http /\ u.port = "ok" /\ ~u.smuggles /\ ~u.dots
<1>1. IsList(text.items) /\ Len(text.items) \in Nat
  BY TextList
<1>2. ReadOf(Items({"location"})) = Items({"location"})
  <2>1. Items({"location"}) \subseteq DOMAIN text.items
    BY DEF Items
  <2> QED BY <1>1, <2>1, AllRead
<1>3. read.location # "none" /\ ValidateGatewayUrl(text.urls[read.location]) = "ok"
  BY DEF SsdpLocation
<1>4. Classified(text)
  BY DEF TextTypes
<1>5. \A n \in DOMAIN text.urls : text.urls[n] \in UrlClasses
  BY <1>4 DEF Classified
<1>6. read.location \in DOMAIN text.urls
  BY <1>3 DEF SsdpInv
<1> QED
  BY <1>2, <1>3, <1>5, <1>6, UrlAccepted DEF SsdpInv

(* The services of a document whose elements are all closed.               *)
LEMMA DeviceEnd ==
  ASSUME TextTypes, text.kind = "device", DeviceInv, place = Len(text.items) + 1, read.stack = <<>>
  PROVE  DeviceExact
<1>1. IsList(text.items) /\ Len(text.items) \in Nat
  BY TextList
<1>2. (\A t : ReadOf(Toks(t)) = Toks(t)) /\ KnownRead = KnownElements
  <2>1. \A t : Toks(t) \subseteq DOMAIN text.items
    BY DEF Toks
  <2> QED BY <1>1, <2>1, AllRead
<1>3. Toks("odd") = {}
  BY <1>2 DEF DeviceInv
<1>4. Cardinality(Toks("open")) = Cardinality(Toks("close"))
  <2>1. Len(read.stack) = 0
    OBVIOUS
  <2>2. Cardinality(Toks("close")) \in Nat
    <3>1. IsFiniteSet(1..Len(text.items)) /\ Toks("close") \subseteq 1..Len(text.items)
      BY <1>1, FS_Interval DEF Toks, IsList
    <3> QED BY <3>1, FS_Subset, FS_CardinalityType
  <2> QED BY <1>2, <2>1, <2>2 DEF DeviceInv
<1>5. ASSUME NEW n \in DOMAIN read.out
      PROVE  \E e \in ServiceElements :
               /\ Says(e, "serviceType", read.out[n].service)
               /\ Says(e, "controlURL", read.out[n].control)
  <2>1. Found(read.out[n])
    BY DEF DeviceInv
  <2> QED BY <2>1 DEF Found
<1>6. Len(read.out) <= Cardinality(KnownElements)
  BY <1>2 DEF DeviceInv
<1>7. \A i \in DOMAIN text.items : text.items[i].t # "odd"
  BY <1>3 DEF Toks
<1>8. Cardinality({i \in DOMAIN text.items : text.items[i].t = "open"})
        = Cardinality({i \in DOMAIN text.items : text.items[i].t = "close"})
  BY <1>4 DEF Toks
<1> QED
  BY <1>5, <1>6, <1>7, <1>8 DEF DeviceExact

(* The fields of a reply that ends outside of them.                        *)
LEMMA SoapEnd ==
  ASSUME TextTypes, text.kind = "soap", SoapInv, place = Len(text.items) + 1,
         read.capturing = "none"
  PROVE  SoapExact
<1>1. IsList(text.items) /\ Len(text.items) \in Nat
  BY TextList
<1>2. ReadOf(Toks("odd")) = Toks("odd") /\ \A names : ReadOf(TagsOf(names)) = TagsOf(names)
  <2>1. Toks("odd") \subseteq DOMAIN text.items /\ \A names : TagsOf(names) \subseteq DOMAIN text.items
    BY DEF Toks, TagsOf, Tags
  <2> QED BY <1>1, <2>1, AllRead
<1>3. \A i \in DOMAIN text.items : text.items[i].t # "odd"
  BY <1>2 DEF SoapInv, Toks
<1>4. \A x : Cardinality({x}) = 1
  BY FS_Singleton
<1>5. read.response # "none" => Cardinality(TagsOf(DOMAIN Responses)) = 1
  <2> SUFFICES ASSUME read.response # "none" PROVE Cardinality(TagsOf(DOMAIN Responses)) = 1
    OBVIOUS
  <2>1. \E i : ReadOf(TagsOf(DOMAIN Responses)) = {i}
    BY DEF SoapInv
  <2>2. ReadOf(TagsOf(DOMAIN Responses)) = TagsOf(DOMAIN Responses)
    BY <1>2
  <2> QED BY <1>4, <2>1, <2>2
<1>6. ASSUME NEW f \in Fields
      PROVE  Cardinality(TagsOf({f})) = IF read.view[f] = "none" THEN 0 ELSE 1
  <2>1. read.capturing # f
    BY SoapNames
  <2>2. CASE read.view[f] = "none"
    <3>1. TagsOf({f}) = {}
      BY <1>2, <2>1, <2>2 DEF SoapInv
    <3> QED BY <2>2, <3>1, FS_EmptySet
  <2>3. CASE read.view[f] # "none"
    <3>1. (read.view[f] = "none") # (read.capturing # f)
      BY <2>1, <2>3
    <3>2. \E i : TagsOf({f}) = {i}
      BY <1>2, <3>1 DEF SoapInv
    <3> QED BY <1>4, <2>3, <3>2
  <2> QED BY <2>2, <2>3
<1> QED
  BY <1>3, <1>5, <1>6 DEF SoapExact, TagsOf

(* The end of a text keeps the invariant: what it says as a whole is known *)
(* from what was read of it.                                               *)
LEMMA EndTextKeeps == ASSUME TextInv, EndText PROVE TextInv'
<1>1. TextTypes /\ TextsExact /\ IsList(text.items) /\ Len(text.items) \in Nat /\ place \in Nat
  BY TextList DEF TextInv
<1>2. /\ place <= Len(text.items) + 1 /\ place' = Len(text.items) + 2 /\ text' = text
      /\ read' = Closed(text, read)
  BY DEF EndText
<1>3. ~(text = [kind |-> "over", items |-> <<>>] /\ place = 2) /\ text.kind # "over"
  BY <1>1, <1>2, TextList
<1>4. TextTypes'
  BY <1>1, <1>2, <1>3 DEF TextTypes
<1>5. ~TextPending'
  BY <1>1, <1>2 DEF TextPending
<1>6. CASE read.fault # "none"
  <2>1. read' = read
    BY <1>2, <1>6 DEF Closed
  <2>2. text.kind = "netlink" => text.file # "bounded"
    BY <1>1, TextList
  <2>3. text.kind \in {"proc", "netlink"} => RoutesExact'
    BY <1>2, <1>6, <2>1, <2>2 DEF RoutesExact
  <2>4. text.kind = "ssdp" => LocationExact'
    BY <1>2, <2>1 DEF LocationExact, TextInv
  <2>5. DeviceExact' /\ SoapExact'
    BY <1>6, <2>1 DEF DeviceExact, SoapExact
  <2>6. TextsExact'
    BY <1>1, <1>2, <1>5, <2>3, <2>4, <2>5 DEF TextsExact
  <2> QED BY <1>1, <1>2, <1>4, <2>6 DEF TextInv
<1>7. CASE read.fault = "none"
  <2>1. place = Len(text.items) + 1 /\ PrefixInv
    BY <1>1, <1>2, <1>7 DEF EndText, TextInv
  <2>2. ASSUME text.kind \in {"proc", "netlink"} PROVE RoutesExact'
    <3>1. read' = read
      BY <1>2, <2>2 DEF Closed
    <3>2. RoutesExact
      BY <1>1, <2>1, <2>2, RoutesEnd DEF PrefixInv
    <3>3. KeptRoutes' = KeptRoutes /\ \A ks : Items(ks)' = Items(ks)
      BY <1>2 DEF KeptRoutes, KeptRoute, Items
    <3> QED BY <1>2, <3>1, <3>2, <3>3 DEF RoutesExact
  <2>3. ASSUME text.kind = "ssdp" PROVE LocationExact'
    <3>1. read' = Fault(read, SsdpLocation(read, text.urls))
      BY <1>2, <1>7, <2>3 DEF Closed
    <3>2. SsdpInv
      BY <2>1, <2>3 DEF PrefixInv
    <3>3. read'.fault = SsdpLocation(read, text.urls) /\ read'.location = read.location
      BY <3>1, <3>2 DEF Fault, SsdpInv
    <3>4. ASSUME read'.fault = "ok"
          PROVE  LET u == text.urls[read.location] IN
                 /\ \A i \in Items({"location"}) : text.items[i].url = read.location
                 /\ u.gateway /\ u.http /\ u.port = "ok" /\ ~u.smuggles /\ ~u.dots
      BY <1>1, <2>1, <2>3, <3>2, <3>3, <3>4, LocationEnd
    <3> QED BY <1>2, <3>3, <3>4 DEF LocationExact, Items
  <2>4. ASSUME text.kind = "device" PROVE DeviceExact'
    <3>1. DeviceInv
      BY <2>1, <2>4 DEF PrefixInv
    <3>2. CASE read.stack # <<>> \/ read.service
      <4>1. read' = Fault(read, "malformed")
        BY <1>2, <1>7, <2>4, <3>2 DEF Closed
      <4>2. read'.fault = "malformed"
        BY <3>1, <4>1 DEF Fault, DeviceInv, DeviceRecords
      <4> QED BY <4>2 DEF DeviceExact
    <3>3. CASE read.stack = <<>> /\ ~read.service
      <4>1. read' = read
        BY <1>2, <1>7, <2>4, <3>3 DEF Closed
      <4>2. DeviceExact
        BY <1>1, <2>1, <2>4, <3>1, <3>3, DeviceEnd
      <4> QED
        BY <1>2, <4>1, <4>2
        DEF DeviceExact, ServiceElements, KnownElements, Says, Spells, ServiceTags, Tags, Tag, Inside
    <3> QED BY <3>2, <3>3
  <2>5. ASSUME text.kind = "soap" PROVE SoapExact'
    <3>1. SoapInv
      BY <2>1, <2>5 DEF PrefixInv
    <3>2. CASE read.stack # <<>> \/ read.capturing # "none"
      <4>1. read' = Fault(read, "malformed")
        BY <1>2, <1>7, <2>5, <3>2 DEF Closed
      <4>2. read'.fault = "malformed"
        BY <3>1, <4>1 DEF Fault, SoapInv, SoapRecords
      <4> QED BY <4>2 DEF SoapExact
    <3>3. CASE read.stack = <<>> /\ read.capturing = "none"
      <4>1. read' = read
        BY <1>2, <1>7, <2>5, <3>3 DEF Closed
      <4>2. SoapExact
        BY <1>1, <2>1, <2>5, <3>1, <3>3, SoapEnd
      <4> QED BY <1>2, <4>1, <4>2 DEF SoapExact, Tags
    <3> QED BY <3>2, <3>3
  <2>6. TextsExact'
    BY <1>1, <1>2, <1>5, <2>2, <2>3, <2>4, <2>5 DEF TextsExact
  <2> QED BY <1>1, <1>2, <1>4, <2>6 DEF TextInv
<1> QED
  BY <1>6, <1>7

(* Nothing else changes a text.                                            *)
LEMMA TextRests == ASSUME TextInv, UNCHANGED textVars PROVE TextInv'
<1>1. text' = text /\ place' = place /\ read' = read
  BY DEF textVars
<1>2. TextTypes' /\ TextsExact'
  <2>1. TextTypes'
    BY <1>1 DEF TextInv, TextTypes
  <2>2. TextPending' = TextPending
    BY <1>1 DEF TextPending
  <2>3. RoutesExact' = RoutesExact
    BY <1>1 DEF RoutesExact, KeptRoutes, KeptRoute, Items
  <2>4. LocationExact' = LocationExact
    BY <1>1 DEF LocationExact, Items
  <2>5. DeviceExact' = DeviceExact
    BY <1>1 DEF DeviceExact, ServiceElements, KnownElements, Says, Spells, ServiceTags, Tags, Tag, Inside
  <2>6. SoapExact' = SoapExact
    BY <1>1 DEF SoapExact, Tags
  <2>7. TextsExact'
    BY <1>1, <2>2, <2>3, <2>4, <2>5, <2>6 DEF TextInv, TextsExact
  <2> QED BY <2>1, <2>7
<1>3. PrefixInv' = PrefixInv
  <2>1. RouteInv' = RouteInv
    BY <1>1 DEF RouteInv, Routings, ReadOf, KeptRoutes, KeptRoute, Items
  <2>2. SsdpInv' = SsdpInv
    BY <1>1 DEF SsdpInv, ReadOf, Items
  <2>3. DeviceInv' = DeviceInv
    BY <1>1
    DEF DeviceInv, DeviceRecords, Names, Words, ReadOf, Toks, OpenAt, ServiceAt, PartAt, InService,
        InPart, TwoTexts, Told, Found, KnownRead, ServiceElements, KnownElements, Says, Spells, ServiceTags, Tags, Tag,
        Inside
  <2>4. SoapInv' = SoapInv
    BY <1>1 DEF SoapInv, SoapRecords, Names, Words, ReadOf, Toks, TagsOf, Tags
  <2> QED BY <1>1, <2>1, <2>2, <2>3, <2>4 DEF PrefixInv
<1> QED
  BY <1>1, <1>2, <1>3 DEF TextInv

(* TextInv is inductive.                                                   *)
LEMMA TextKeeps == TextInv /\ [TextNext]_textVars => TextInv'
  BY ReadItemKeeps, FallBackKeeps, EndTextKeeps, TextRests DEF TextNext

(* The other jobs leave the text alone.                                    *)
LEMMA TextMoves == [WorkersNext]_workerVars => [TextNext]_textVars
  BY DEF WorkersNext, workerVars

(* What the readers of gateway.rs, igd.rs and upnp.rs take from a route    *)
(* table, an SSDP reply, a device document or a SOAP reply is what the     *)
(* text says as a whole: for every text, of any length, and any bounds on  *)
(* routes, headers, depth and candidates.                                  *)
THEOREM TextsAreExact == WorkersSpec => []TextsExact
<1>1. WorkersInit => TextInv
  <2> SUFFICES ASSUME WorkersInit PROVE TextInv
    OBVIOUS
  <2>1. CASE TextInit(Texts)
    BY <2>1, JobsAssumption, TextStarts
  <2>2. CASE TextInit({[kind |-> "over", items |-> <<>>]})
    BY <2>2, TextStarts
  <2> QED
    BY <2>1, <2>2 DEF WorkersInit
<1>2. TextInv /\ [WorkersNext]_workerVars => TextInv'
  BY TextMoves, TextKeeps
<1>3. TextInv => TextsExact
  BY DEF TextInv
<1> QED
  BY <1>1, <1>2, <1>3, PTL DEF WorkersSpec
-----------------------------------------------------------------------------
(***************************************************************************)
(* Loops that are written as recursive functions.                          *)
(***************************************************************************)

(* Induction up to a bound, with a set in the place of a predicate.        *)
LEMMA Upward ==
  ASSUME NEW n \in Nat, NEW T, 0 \in T, \A i \in 1..n : i - 1 \in T => i \in T
  PROVE  \A i \in 0..n : i \in T
<1> DEFINE F == {i \in 0..n : i \notin T}
<1> SUFFICES ASSUME F # {} PROVE FALSE
  OBVIOUS
<1>1. PICK x \in F : \A y \in F : x <= y
  <2>1. F \subseteq Nat
    OBVIOUS
  <2> QED BY <2>1, LeastNumber
<1>2. x \in 1..n /\ x - 1 \notin F /\ x - 1 \in 0..n
  BY <1>1
<1> QED
  BY <1>1, <1>2

(* f is the loop of n turns from b, whose turn i is g[<<i, _>>].           *)
Turns(f, n, b, g) == f = [i \in 0..n |-> IF i = 0 THEN b ELSE g[<<i, f[i - 1]>>]]

(* Every such loop runs.                                                   *)
LEMMA TurnsRun ==
  ASSUME NEW n \in Nat, NEW b, NEW g
  PROVE  \E f : Turns(f, n, b, g)
<1> DEFINE T == {m \in Nat : \E f : Turns(f, m, b, g)}
<1>1. 0 \in T
  <2>1. Turns([i \in 0..0 |-> b], 0, b, g)
    BY DEF Turns
  <2> QED BY <2>1
<1>2. ASSUME NEW m \in 1..n, m - 1 \in T PROVE m \in T
  <2>1. PICK f : Turns(f, m - 1, b, g)
    BY <1>2
  <2>2. \A i \in 0..(m - 1) : f[i] = IF i = 0 THEN b ELSE g[<<i, f[i - 1]>>]
    BY <2>1 DEF Turns
  <2> DEFINE h == [i \in 0..m |-> IF i = m THEN g[<<m, f[m - 1]>>] ELSE f[i]]
  <2>3. \A i \in 0..(m - 1) : h[i] = f[i]
    OBVIOUS
  <2>4. h[m] = g[<<m, f[m - 1]>>] /\ h = [i \in 0..m |-> h[i]]
    OBVIOUS
  <2> HIDE DEF h
  <2>5. ASSUME NEW i \in 0..m
        PROVE  h[i] = IF i = 0 THEN b ELSE g[<<i, h[i - 1]>>]
    <3>1. CASE i = m
      <4>1. i # 0 /\ i - 1 \in 0..(m - 1)
        BY <3>1
      <4> QED BY <2>3, <2>4, <3>1, <4>1
    <3>2. CASE i # m
      <4>1. i \in 0..(m - 1) /\ (i # 0 => i - 1 \in 0..(m - 1))
        BY <3>2
      <4> QED BY <2>2, <2>3, <4>1
    <3> QED BY <3>1, <3>2
  <2>6. Turns(h, m, b, g)
    BY <2>4, <2>5 DEF Turns
  <2> QED BY <2>6
<1> HIDE DEF T
<1>3. n \in T
  BY <1>1, <1>2, Upward
<1> QED
  BY <1>3 DEF T

(* A loop whose turns stay in S: f[i] is in S.                             *)
LEMMA TurnsStay ==
  ASSUME NEW n \in Nat, NEW S, NEW b \in S, NEW g \in [(1..n) \X S -> S], NEW f, Turns(f, n, b, g)
  PROVE  f \in [0..n -> S]
<1>1. f = [i \in 0..n |-> f[i]] /\ \A i \in 0..n : f[i] = IF i = 0 THEN b ELSE g[<<i, f[i - 1]>>]
  BY DEF Turns
<1> DEFINE T == {i \in 0..n : f[i] \in S}
<1>2. 0 \in T
  <2>1. 0 \in 0..n
    OBVIOUS
  <2>2. f[0] = b
    BY <1>1, <2>1
  <2> QED BY <2>1, <2>2
<1>3. ASSUME NEW i \in 1..n, i - 1 \in T PROVE i \in T
  <2>1. f[i - 1] \in S /\ i \in 0..n /\ f[i] = g[<<i, f[i - 1]>>]
    BY <1>1, <1>3
  <2>2. <<i, f[i - 1]>> \in (1..n) \X S
    BY <2>1
  <2> QED BY <2>1, <2>2
<1> HIDE DEF T
<1>4. \A i \in 0..n : i \in T
  BY <1>2, <1>3, Upward
<1> QED
  BY <1>1, <1>4 DEF T

(* The same loop, with its values in S.                                    *)
TurnsIn(f, n, S, b, g) ==
  f \in [0..n -> S] /\ \A i \in 0..n : f[i] = IF i = 0 THEN b ELSE g[<<i, f[i - 1]>>]

(* A loop whose turns stay in S runs in S.                                 *)
LEMMA TurnsHold ==
  ASSUME NEW n \in Nat, NEW S, NEW b \in S, NEW g \in [(1..n) \X S -> S]
  PROVE  \E f : TurnsIn(f, n, S, b, g)
<1>1. PICK f : Turns(f, n, b, g)
  BY TurnsRun
<1>2. f \in [0..n -> S]
  BY <1>1, TurnsStay
<1> QED
  BY <1>1, <1>2 DEF Turns, TurnsIn
-----------------------------------------------------------------------------
(***************************************************************************)
(* HostSamplers: what a read makes of a host.                              *)
(***************************************************************************)
SlotValues == {<<>>} \cup {<<m>> : m \in Int}

(* The zones read_summary takes are zones of the list.                     *)
LEMMA ZonesListed ==
  ASSUME NEW h, IsHost(h), h.kind = "thermal"
  PROVE  /\ ZonesTaken(h) \in Nat
         /\ \A i \in 1..ZonesTaken(h) :
              /\ h.zones[i].kind \in Groups \cup {"other", "denied", "unparsed"}
              /\ h.zones[i].millic \in Int
<1> DEFINE Z == [kind : Groups \cup {"other", "denied", "unparsed"}, millic : Int]
<1>1. h.zones \in Seq(Z)
  BY DEF IsHost
<1> HIDE DEF Z
<1>2. Len(h.zones) \in Nat /\ \A i \in 1..Len(h.zones) : h.zones[i] \in Z
  BY <1>1
<1>3. ZonesTaken(h) \in Nat /\ ZonesTaken(h) <= Len(h.zones)
  BY <1>2, SamplersAssumption DEF ZonesTaken
<1>4. 1..ZonesTaken(h) \subseteq 1..Len(h.zones)
  BY <1>2, <1>3
<1> QED
  BY <1>2, <1>3, <1>4 DEF Z

(* One zone raises its own slot.                                           *)
LEMMA RaiseStays ==
  ASSUME NEW slots \in [Groups -> SlotValues], NEW zone, zone.millic \in Int
  PROVE  /\ Raise(slots, zone) \in [Groups -> SlotValues]
         /\ \A g \in Groups :
              Raise(slots, zone)[g]
                = IF zone.kind = g /\ zone.millic > Sentinel
                     /\ (slots[g] = <<>> \/ slots[g][1] < zone.millic)
                  THEN <<zone.millic>> ELSE slots[g]
<1>1. <<zone.millic>> \in SlotValues
  BY DEF SlotValues
<1>2. CASE zone.kind \in Groups /\ zone.millic > Sentinel
  <2>1. PICK v : v = IF slots[zone.kind] = <<>> \/ slots[zone.kind][1] < zone.millic
                     THEN <<zone.millic>> ELSE slots[zone.kind]
    OBVIOUS
  <2>2. v \in SlotValues
    BY <1>1, <1>2, <2>1
  <2>3. Raise(slots, zone) = [slots EXCEPT ![zone.kind] = v]
    BY <1>2, <2>1 DEF Raise
  <2> QED BY <1>2, <2>1, <2>2, <2>3
<1>3. CASE ~(zone.kind \in Groups /\ zone.millic > Sentinel)
  BY <1>3 DEF Raise
<1> QED
  BY <1>2, <1>3

(* GroupMaxima is the loop of summarize.                                   *)
LEMMA MaximaLoop ==
  ASSUME NEW h, IsHost(h), h.kind = "thermal"
  PROVE  /\ GroupMaxima(h)[0] = [g \in Groups |-> <<>>]
         /\ \A i \in 1..ZonesTaken(h) : GroupMaxima(h)[i] = Raise(GroupMaxima(h)[i - 1], h.zones[i])
<1> DEFINE n == ZonesTaken(h)
           S == [Groups -> SlotValues]
           b == [g \in Groups |-> <<>>]
           P(f) == f = [i \in 0..n |-> IF i = 0 THEN b ELSE Raise(f[i - 1], h.zones[i])]
           t == [p \in (1..n) \X S |-> Raise(p[2], h.zones[p[1]])]
<1>1. n \in Nat /\ \A i \in 1..n : h.zones[i].millic \in Int
  BY ZonesListed
<1>2. GroupMaxima(h) = CHOOSE f : P(f)
  BY Zenon DEF GroupMaxima
<1>3. b \in S
  BY DEF SlotValues
<1>4. t \in [(1..n) \X S -> S]
  BY <1>1, RaiseStays
<1>5. \A i \in 1..n : \A s \in S : t[<<i, s>>] = Raise(s, h.zones[i])
  OBVIOUS
<1> HIDE DEF n, S, b, t
<1>6. PICK f : Turns(f, n, b, t)
  BY <1>1, TurnsRun
<1>7. f \in [0..n -> S]
  BY <1>1, <1>3, <1>4, <1>6, TurnsStay
<1>8. P(f)
  <2>1. \A i \in 0..n : f[i] = IF i = 0 THEN b ELSE t[<<i, f[i - 1]>>]
    BY <1>6 DEF Turns
  <2>2. \A i \in 0..n : i # 0 => i \in 1..n /\ i - 1 \in 0..n
    BY <1>1
  <2>3. \A i \in 0..n : f[i] = IF i = 0 THEN b ELSE Raise(f[i - 1], h.zones[i])
    BY <1>5, <1>7, <2>1, <2>2
  <2> QED BY <1>7, <2>3
<1>9. P(GroupMaxima(h))
  <2> HIDE DEF P
  <2> QED BY <1>2, <1>8, Zenon
<1>10. \A i \in 0..n : GroupMaxima(h)[i]
                        = IF i = 0 THEN b ELSE Raise(GroupMaxima(h)[i - 1], h.zones[i])
  BY <1>9
<1>11. 0 \in 0..n /\ \A i \in 1..n : i \in 0..n /\ i # 0
  BY <1>1
<1> QED
  BY <1>10, <1>11 DEF n, b

(* The temperatures of a group among the first zones, and its slot then.   *)
Warm(h, n, g) ==
  {h.zones[i].millic : i \in {j \in 1..n : h.zones[j].kind = g /\ h.zones[j].millic > Sentinel}}
SlotOf(slot, T) ==
  IF T = {} THEN slot = <<>> ELSE \E m \in T : slot = <<m>> /\ \A y \in T : y <= m

(* One more zone adds its own temperature.                                 *)
LEMMA WarmGrows ==
  ASSUME NEW h, NEW n \in Nat \ {0}, NEW g
  PROVE  Warm(h, n, g)
           = Warm(h, n - 1, g) \cup
             (IF h.zones[n].kind = g /\ h.zones[n].millic > Sentinel THEN {h.zones[n].millic} ELSE {})
<1>1. \A j : j \in 1..n <=> j \in 1..(n - 1) \/ j = n
  OBVIOUS
<1> QED
  BY <1>1 DEF Warm

(* Every slot holds the hottest of the zones so far.                       *)
LEMMA SlotsHottest ==
  ASSUME NEW h, IsHost(h), h.kind = "thermal", NEW g \in Groups
  PROVE  \A n \in 0..ZonesTaken(h) :
           /\ GroupMaxima(h)[n] \in [Groups -> SlotValues]
           /\ SlotOf(GroupMaxima(h)[n][g], Warm(h, n, g))
<1> DEFINE N == ZonesTaken(h)
           M == GroupMaxima(h)
           T == {n \in 0..N : M[n] \in [Groups -> SlotValues] /\ SlotOf(M[n][g], Warm(h, n, g))}
<1>1. /\ N \in Nat /\ \A i \in 1..N : h.zones[i].millic \in Int
      /\ M[0] = [x \in Groups |-> <<>>] /\ \A i \in 1..N : M[i] = Raise(M[i - 1], h.zones[i])
  BY ZonesListed, MaximaLoop
<1> HIDE DEF N, M
<1>2. 0 \in T
  <2>1. M[0] \in [Groups -> SlotValues] /\ M[0][g] = <<>>
    BY <1>1 DEF SlotValues
  <2>2. Warm(h, 0, g) = {}
    BY DEF Warm
  <2> QED BY <1>1, <2>1, <2>2 DEF SlotOf
<1>3. ASSUME NEW n \in 1..N, n - 1 \in T PROVE n \in T
  <2>1. PICK slots, z, W :
          slots = M[n - 1] /\ z = h.zones[n] /\ W = Warm(h, n - 1, g)
    OBVIOUS
  <2>2. slots \in [Groups -> SlotValues] /\ SlotOf(slots[g], W) /\ z.millic \in Int /\ Sentinel \in Int
    BY <1>1, <1>3, <2>1, SamplersAssumption
  <2>3. M[n] = Raise(slots, z) /\ n \in 0..N
    BY <1>1, <2>1
  <2>4. /\ M[n] \in [Groups -> SlotValues]
        /\ M[n][g] = IF z.kind = g /\ z.millic > Sentinel /\ (slots[g] = <<>> \/ slots[g][1] < z.millic)
                     THEN <<z.millic>> ELSE slots[g]
    BY <2>2, <2>3, RaiseStays
  <2>5. Warm(h, n, g) = W \cup (IF z.kind = g /\ z.millic > Sentinel THEN {z.millic} ELSE {})
    BY <1>1, <2>1, WarmGrows
  <2>6. W \subseteq Int
    <3>1. \A j \in 1..(n - 1) : h.zones[j].millic \in Int
      BY <1>1
    <3> QED BY <2>1, <3>1 DEF Warm
  <2>7. SlotOf(M[n][g], Warm(h, n, g))
    <3>1. CASE ~(z.kind = g /\ z.millic > Sentinel)
      BY <2>2, <2>4, <2>5, <3>1 DEF SlotOf
    <3>2. CASE z.kind = g /\ z.millic > Sentinel /\ W = {}
      <4>1. slots[g] = <<>>
        BY <2>2, <3>2 DEF SlotOf
      <4>2. M[n][g] = <<z.millic>> /\ Warm(h, n, g) = {z.millic}
        BY <2>4, <2>5, <3>2, <4>1
      <4> QED BY <2>2, <4>2 DEF SlotOf
    <3>3. CASE z.kind = g /\ z.millic > Sentinel /\ W # {}
      <4>1. PICK m \in W : slots[g] = <<m>> /\ \A y \in W : y <= m
        BY <2>2, <3>3 DEF SlotOf
      <4>2. slots[g] # <<>> /\ slots[g][1] = m /\ m \in Int
        BY <2>6, <4>1
      <4>3. Warm(h, n, g) = W \cup {z.millic}
        BY <2>5, <3>3
      <4>4. CASE m < z.millic
        <5>1. M[n][g] = <<z.millic>>
          BY <2>4, <3>3, <4>2, <4>4
        <5>2. \A y \in W \cup {z.millic} : y <= z.millic
          BY <2>2, <2>6, <4>1, <4>2, <4>4
        <5> QED BY <4>3, <5>1, <5>2 DEF SlotOf
      <4>5. CASE ~(m < z.millic)
        <5>1. M[n][g] = <<m>>
          BY <2>4, <3>3, <4>1, <4>2, <4>5
        <5>2. \A y \in W \cup {z.millic} : y <= m
          BY <2>2, <2>6, <4>1, <4>2, <4>5
        <5> QED BY <4>3, <5>1, <5>2 DEF SlotOf
      <4> QED BY <4>4, <4>5
    <3> QED BY <3>1, <3>2, <3>3
  <2> QED BY <2>3, <2>4, <2>7
<1> HIDE DEF T
<1>4. \A n \in 0..N : n \in T
  BY <1>1, <1>2, <1>3, Upward
<1> QED
  BY <1>4 DEF T, N, M

(* The summary of a thermal host is exact.                                 *)
LEMMA ThermalIsExact ==
  ASSUME NEW h, IsHost(h), h.kind = "thermal"
  PROVE  ThermalExact(h, ThermalSummary(h))
<1> DEFINE N == ZonesTaken(h)
           slots == GroupMaxima(h)[N]
           kinds(ks) == {i \in 1..N : h.zones[i].kind \in ks}
           all == kinds(Groups \cup {"other"})
           cut == kinds({"denied"})
<1>1. N \in Nat /\ h.unlisted \in Nat
  BY ZonesListed DEF IsHost
<1>2. CASE ~h.listed
  <2>1. ThermalSummary(h) = <<>>
    BY <1>2 DEF ThermalSummary
  <2> QED BY <2>1 DEF ThermalExact
<1>3. CASE h.listed
  <2>1. PICK s : s = [slots |-> [slots EXCEPT !["battery"] = IF @ # <<>> THEN @ ELSE slots["qcom_battery"]],
                      zones |-> Cardinality(all), denied |-> Cardinality(cut) + h.unlisted]
    OBVIOUS
  <2>2. ThermalSummary(h) = <<s>>
    BY <1>3, <2>1 DEF ThermalSummary
  <2>3. /\ slots \in [Groups -> SlotValues]
        /\ \A g \in Groups : SlotOf(slots[g], Measured(h, g))
    <3>1. N \in 0..N
      BY <1>1
    <3>2. "cpu" \in Groups
      BY DEF Groups
    <3> QED BY <3>1, <3>2, SlotsHottest DEF Measured, Warm
  <2>4. ASSUME NEW g \in Groups, Measured(h, g) # {}
        PROVE  slots[g] = <<Max(Measured(h, g))>>
    <3>1. PICK m \in Measured(h, g) : slots[g] = <<m>> /\ \A y \in Measured(h, g) : y <= m
      BY <2>3, <2>4 DEF SlotOf
    <3>2. Measured(h, g) \subseteq Int
      BY ZonesListed DEF Measured
    <3>3. Max(Measured(h, g)) = m
      BY <3>1, <3>2 DEF Max
    <3> QED BY <3>1, <3>3
  <2>5. ASSUME NEW g \in Groups, Measured(h, g) = {}
        PROVE  slots[g] = <<>>
    BY <2>3, <2>5 DEF SlotOf
  <2>6. "battery" \in Groups
    BY DEF Groups
  <2>7. /\ \A g \in Groups \ {"battery"} : s.slots[g] = slots[g]
        /\ slots["battery"] # <<>> => s.slots["battery"] = slots["battery"]
    BY <2>1, <2>3, <2>6
  <2>8. \A g \in Groups \ {"battery"} :
          s.slots[g] = IF Measured(h, g) = {} THEN <<>> ELSE <<Max(Measured(h, g))>>
    BY <2>4, <2>5, <2>7
  <2>9. Measured(h, "battery") # {} => s.slots["battery"] = <<Max(Measured(h, "battery"))>>
    <3>1. ASSUME Measured(h, "battery") # {} PROVE slots["battery"] = <<Max(Measured(h, "battery"))>>
      BY <2>4, <2>6, <3>1
    <3>2. \A x : <<x>> # <<>>
      OBVIOUS
    <3> QED BY <2>7, <3>1, <3>2
  <2>10. s.zones + s.denied <= N + h.unlisted
    <3>1. IsFiniteSet(1..N) /\ Cardinality(1..N) = N
      BY <1>1, FS_Interval
    <3>2. all \subseteq 1..N /\ cut \subseteq 1..N /\ all \cap cut = {}
      BY DEF Groups
    <3>3. IsFiniteSet(all) /\ IsFiniteSet(cut) /\ IsFiniteSet(all \cup cut)
          /\ Cardinality(all \cup cut) <= N
      BY <3>1, <3>2, FS_Subset
    <3> HIDE DEF all, cut
    <3>4. Cardinality(all \cup cut) = Cardinality(all) + Cardinality(cut)
      <4>1. Cardinality(all \cup cut) = Cardinality(all) + Cardinality(cut) - Cardinality(all \cap cut)
        BY <3>3, FS_Union
      <4>2. Cardinality(all \cap cut) = 0
        BY <3>2, FS_EmptySet
      <4> QED BY <3>3, <4>1, <4>2, FS_CardinalityType
    <3>5. Cardinality(all) \in Nat /\ Cardinality(cut) \in Nat
      BY <3>3, FS_CardinalityType
    <3> QED BY <1>1, <2>1, <3>3, <3>4, <3>5
  <2>11. {ThermalSummary(h)[i] : i \in DOMAIN ThermalSummary(h)} = {s}
    BY <2>2
  <2> QED BY <2>8, <2>9, <2>10, <2>11 DEF ThermalExact
<1> QED
  BY <1>2, <1>3

(* The processes read are of the table.                                    *)
LEMMA ProcessesListed ==
  ASSUME NEW h, IsHost(h), h.kind # "thermal"
  PROVE  /\ Len(h.table) \in Nat /\ DOMAIN h.table = 1..Len(h.table) /\ h.unlisted \in Nat
         /\ \A p \in DOMAIN h.table : h.table[p].peak \in Int
         /\ StatusRead(h) \subseteq 1..Len(h.table) /\ IsFiniteSet(StatusRead(h))
         /\ Cardinality(StatusRead(h)) \in Nat
         /\ Len(h.meminfo) \in Nat /\ DOMAIN h.meminfo = 1..Len(h.meminfo)
<1> DEFINE P == [parent : Int, group : Int, status : {"read", "gone", "denied"}, rss : Int, peak : Int]
<1>1. h.table \in Seq(P) /\ h.meminfo \in Seq(Int) /\ h.unlisted \in Nat
  BY DEF IsHost
<1> HIDE DEF P
<1>2. /\ Len(h.table) \in Nat /\ DOMAIN h.table = 1..Len(h.table) /\ \A p \in DOMAIN h.table : h.table[p] \in P
      /\ Len(h.meminfo) \in Nat /\ DOMAIN h.meminfo = 1..Len(h.meminfo)
  BY <1>1
<1>3. StatusRead(h) \subseteq 1..Len(h.table)
  BY <1>2 DEF StatusRead
<1>4. IsFiniteSet(StatusRead(h)) /\ Cardinality(StatusRead(h)) \in Nat
  <2>1. IsFiniteSet(1..Len(h.table))
    BY <1>2, FS_Interval
  <2> QED BY <1>3, <2>1, FS_Subset, FS_CardinalityType
<1> QED
  BY <1>1, <1>2, <1>3, <1>4 DEF P

(* The members after each round of tree.                                   *)
Children(h, S) == {p \in StatusRead(h) : h.table[p].parent \in S}
Founders(h) == {p \in StatusRead(h) : p = h.root \/ h.table[p].group = h.root}

(* Grown is the loop of tree.                                              *)
LEMMA GrownLoop ==
  ASSUME NEW h, IsHost(h), h.kind # "thermal"
  PROVE  /\ Grown(h)[0] = Founders(h)
         /\ \A i \in 1..Cardinality(StatusRead(h)) :
              Grown(h)[i] = Grown(h)[i - 1] \cup Children(h, Grown(h)[i - 1])
<1> DEFINE n == Cardinality(StatusRead(h))
           S == SUBSET StatusRead(h)
           b == {p \in StatusRead(h) : p = h.root \/ h.table[p].group = h.root}
           P(f) == f = [i \in 0..n |-> IF i = 0 THEN b
                                       ELSE f[i - 1] \cup {p \in StatusRead(h) : h.table[p].parent \in f[i - 1]}]
           t == [p \in (1..n) \X S |-> p[2] \cup Children(h, p[2])]
<1>1. n \in Nat
  BY ProcessesListed
<1>2. Grown(h) = CHOOSE f : P(f)
  BY Zenon DEF Grown
<1>3. b \in S
  OBVIOUS
<1>4. t \in [(1..n) \X S -> S]
  BY DEF Children
<1>5. \A i \in 1..n : \A s \in S : t[<<i, s>>] = s \cup Children(h, s)
  OBVIOUS
<1> HIDE DEF n, S, b, t
<1>6. PICK f : Turns(f, n, b, t)
  BY <1>1, TurnsRun
<1>7. f \in [0..n -> S]
  BY <1>1, <1>3, <1>4, <1>6, TurnsStay
<1>8. P(f)
  <2>1. \A i \in 0..n : f[i] = IF i = 0 THEN b ELSE t[<<i, f[i - 1]>>]
    BY <1>6 DEF Turns
  <2>2. \A i \in 0..n : i # 0 => i \in 1..n /\ i - 1 \in 0..n
    BY <1>1
  <2>3. \A i \in 0..n : f[i] = IF i = 0 THEN b ELSE f[i - 1] \cup Children(h, f[i - 1])
    BY <1>5, <1>7, <2>1, <2>2
  <2> QED BY <1>7, <2>3 DEF Children
<1>9. P(Grown(h))
  <2> HIDE DEF P
  <2> QED BY <1>2, <1>8, Zenon
<1>10. \A i \in 0..n : Grown(h)[i] = IF i = 0 THEN b ELSE Grown(h)[i - 1] \cup Children(h, Grown(h)[i - 1])
  BY <1>9 DEF Children
<1>11. 0 \in 0..n /\ \A i \in 1..n : i \in 0..n /\ i # 0
  BY <1>1
<1> QED
  BY <1>10, <1>11 DEF n, b, Founders

(* The rounds add only what every closed tree holds, and as long as they   *)
(* add anything they add one process each.                                 *)
LEMMA RoundsGrow ==
  ASSUME NEW h, IsHost(h), h.kind # "thermal"
  PROVE  \A i \in 0..Cardinality(StatusRead(h)) :
           LET G == Grown(h)[i] IN
           /\ G \subseteq StatusRead(h) /\ Founders(h) \subseteq G
           /\ \A R \in SUBSET StatusRead(h) : ClosedTree(h, R) => G \subseteq R
           /\ Children(h, G) \subseteq G \/ Cardinality(G) >= i
<1> DEFINE N == Cardinality(StatusRead(h))
           ok(G, i) == /\ G \subseteq StatusRead(h) /\ Founders(h) \subseteq G
                       /\ \A R \in SUBSET StatusRead(h) : ClosedTree(h, R) => G \subseteq R
                       /\ Children(h, G) \subseteq G \/ Cardinality(G) >= i
           T == {i \in 0..N : ok(Grown(h)[i], i)}
<1>1. /\ N \in Nat /\ IsFiniteSet(StatusRead(h)) /\ Grown(h)[0] = Founders(h)
      /\ \A i \in 1..N : Grown(h)[i] = Grown(h)[i - 1] \cup Children(h, Grown(h)[i - 1])
  BY ProcessesListed, GrownLoop
<1>2. \A S \in SUBSET StatusRead(h) : IsFiniteSet(S) /\ Cardinality(S) \in Nat
  BY <1>1, FS_Subset, FS_CardinalityType
<1>3. 0 \in T
  <2>1. Founders(h) \subseteq StatusRead(h)
    BY DEF Founders
  <2>2. \A R \in SUBSET StatusRead(h) : ClosedTree(h, R) => Founders(h) \subseteq R
    BY DEF Founders, ClosedTree
  <2>3. Cardinality(Founders(h)) >= 0
    BY <1>2, <2>1
  <2>4. 0 \in 0..N
    BY <1>1
  <2> QED BY <1>1, <2>1, <2>2, <2>3, <2>4
<1>4. ASSUME NEW i \in 1..N, i - 1 \in T PROVE i \in T
  <2>1. PICK A, B : A = Grown(h)[i - 1] /\ B = Grown(h)[i]
    OBVIOUS
  <2>2. ok(A, i - 1) /\ B = A \cup Children(h, A) /\ i \in 0..N
    BY <1>1, <1>4, <2>1
  <2>3. B \subseteq StatusRead(h) /\ Founders(h) \subseteq B
    BY <2>2 DEF Children
  <2>4. \A R \in SUBSET StatusRead(h) : ClosedTree(h, R) => B \subseteq R
    BY <2>2 DEF Children, ClosedTree
  <2>5. CASE Children(h, A) \subseteq A
    <3>1. B = A
      BY <2>2, <2>5
    <3> QED BY <2>1, <2>2, <2>3, <2>4, <2>5, <3>1
  <2>6. CASE ~(Children(h, A) \subseteq A)
    <3>1. Cardinality(A) >= i - 1 /\ A \subseteq B
      BY <2>2, <2>6
    <3>2. A # B
      BY <2>2, <2>6
    <3>3. IsFiniteSet(B) /\ Cardinality(A) < Cardinality(B) /\ Cardinality(A) \in Nat /\ Cardinality(B) \in Nat
      BY <1>2, <2>2, <2>3, <3>1, <3>2, FS_Subset
    <3>4. Cardinality(B) >= i
      BY <3>1, <3>3
    <3> QED BY <2>1, <2>2, <2>3, <2>4, <3>4
  <2> QED BY <2>5, <2>6
<1> HIDE DEF T
<1>5. \A i \in 0..N : i \in T
  BY <1>1, <1>3, <1>4, Upward
<1> QED
  BY <1>5 DEF T

(* So the tree is the least closed one.                                    *)
LEMMA TreeIsLeast ==
  ASSUME NEW h, IsHost(h), h.kind # "thermal"
  PROVE  Tree(h) = LeastTree(h) /\ Tree(h) \subseteq StatusRead(h)
<1> DEFINE N == Cardinality(StatusRead(h))
<1>1. N \in Nat /\ N \in 0..N /\ IsFiniteSet(StatusRead(h))
  BY ProcessesListed
<1>2. /\ Tree(h) \subseteq StatusRead(h) /\ Founders(h) \subseteq Tree(h)
      /\ \A R \in SUBSET StatusRead(h) : ClosedTree(h, R) => Tree(h) \subseteq R
      /\ Children(h, Tree(h)) \subseteq Tree(h) \/ Cardinality(Tree(h)) >= N
  BY <1>1, RoundsGrow DEF Tree
<1>3. Children(h, Tree(h)) \subseteq Tree(h)
  <2>1. CASE Cardinality(Tree(h)) >= N
    <3>1. Tree(h) = StatusRead(h)
      BY <1>1, <1>2, <2>1, FS_Subset, FS_CardinalityType
    <3> QED BY <3>1 DEF Children
  <2> QED BY <1>2, <2>1
<1>4. ClosedTree(h, Tree(h))
  BY <1>2, <1>3 DEF ClosedTree, Founders, Children
<1>5. PICK X : X = Tree(h)
  OBVIOUS
<1> DEFINE Q(S) == ClosedTree(h, S) /\ \A R \in SUBSET StatusRead(h) : ClosedTree(h, R) => S \subseteq R
<1>6. X \in SUBSET StatusRead(h) /\ Q(X)
  BY <1>2, <1>4, <1>5
<1>7. \A S \in SUBSET StatusRead(h) : Q(S) => S = X
  BY <1>6
<1>8. LeastTree(h) = CHOOSE S \in SUBSET StatusRead(h) : Q(S)
  BY Zenon DEF LeastTree
<1> HIDE DEF Q
<1>9. LeastTree(h) = X
  BY <1>6, <1>7, <1>8
<1> QED
  BY <1>2, <1>5, <1>9

(* Some peak of a set of processes is the highest.                         *)
LEMMA HighestPeak ==
  ASSUME NEW h, IsHost(h), h.kind # "thermal", NEW S, S \subseteq 1..Len(h.table)
  PROVE  LET V == {h.table[p].peak : p \in S} \cup {-1} IN
         \A y \in V : y <= Max(V)
<1> DEFINE N == Len(h.table)
           V(i) == {h.table[p].peak : p \in S \cap (1..i)} \cup {-1}
           T == {i \in 0..N : \E m \in V(i) : \A y \in V(i) : y <= m}
<1>1. N \in Nat /\ \A p \in 1..N : h.table[p].peak \in Int
  BY ProcessesListed
<1>2. 0 \in T
  <2>1. S \cap (1..0) = {} /\ 0 \in 0..N
    BY <1>1
  <2>2. V(0) = {-1}
    BY <2>1
  <2> QED BY <2>1, <2>2
<1>3. ASSUME NEW i \in 1..N, i - 1 \in T PROVE i \in T
  <2>1. PICK m \in V(i - 1) : \A y \in V(i - 1) : y <= m
    BY <1>3
  <2>2. V(i) = V(i - 1) \cup (IF i \in S THEN {h.table[i].peak} ELSE {})
    <3>1. S \cap (1..i) = (S \cap (1..(i - 1))) \cup (IF i \in S THEN {i} ELSE {})
      BY <1>1
    <3> QED BY <3>1
  <2>3. V(i - 1) \subseteq Int /\ h.table[i].peak \in Int
    BY <1>1
  <2> HIDE DEF V
  <2>4. \E k \in V(i) : \A y \in V(i) : y <= k
    <3>1. CASE i \in S /\ m < h.table[i].peak
      <4>1. \A y \in V(i) : y <= h.table[i].peak
        BY <2>1, <2>2, <2>3, <3>1
      <4> QED BY <2>2, <3>1, <4>1
    <3>2. CASE ~(i \in S /\ m < h.table[i].peak)
      <4>1. \A y \in V(i) : y <= m
        BY <2>1, <2>2, <2>3, <3>2
      <4> QED BY <2>1, <2>2, <4>1
    <3> QED BY <3>1, <3>2
  <2>5. i \in 0..N
    BY <1>1
  <2> QED BY <2>4, <2>5
<1> HIDE DEF T
<1>4. N \in T
  <2>1. \A i \in 0..N : i \in T
    BY <1>1, <1>2, <1>3, Upward
  <2>2. N \in 0..N
    BY <1>1
  <2> QED BY <2>1, <2>2
<1>5. \E m \in V(N) : \A y \in V(N) : y <= m
  BY <1>4 DEF T
<1>6. PICK W : W = {h.table[p].peak : p \in S} \cup {-1}
  OBVIOUS
<1>7. S \cap (1..N) = S
  OBVIOUS
<1>8. W = V(N) /\ W \subseteq Int
  BY <1>1, <1>6, <1>7
<1>9. \E m \in W : \A y \in W : m >= y
  BY <1>5, <1>8
<1>10. \A y \in W : y <= Max(W)
  BY <1>8, <1>9 DEF Max
<1> QED
  BY <1>6, <1>10

(* A null is counted.                                                      *)
LEMMA NullsCount ==
  ASSUME NEW vs, NEW n \in Nat, DOMAIN vs = 1..n
  PROVE  Nulls(vs) \in Nat /\ \A i \in 1..n : Wire(vs[i]) = -1 => Nulls(vs) > 0
<1> DEFINE S == {i \in DOMAIN vs : Wire(vs[i]) = -1}
<1>1. IsFiniteSet(1..n) /\ S \subseteq 1..n
  BY FS_Interval
<1>2. IsFiniteSet(S) /\ Cardinality(S) \in Nat
  BY <1>1, FS_Subset, FS_CardinalityType
<1>3. S # {} => Cardinality(S) # 0
  BY <1>2, FS_EmptySet
<1>4. Nulls(vs) = Cardinality(S)
  BY DEF Nulls
<1>5. \A i \in 1..n : Wire(vs[i]) = -1 => S # {}
  OBVIOUS
<1> HIDE DEF S
<1> QED
  BY <1>2, <1>3, <1>4, <1>5

(* The summary of /proc is exact.                                          *)
LEMMA MemoryIsExact ==
  ASSUME NEW h, IsHost(h), h.kind # "thermal", NEW tree
  PROVE  MemoryExact(h, MemorySummary(h, tree))
<1> DEFINE rss == RssOf(h, Tree(h))
           V == {h.table[p].peak : p \in Tree(h)} \cup {-1}
           rest == IF h.meminfo = <<>> THEN 1 ELSE Nulls(h.meminfo)
<1>1. PICK s : s = MemorySummary(h, tree)
  OBVIOUS
<1> SUFFICES ASSUME s.rss # -1 PROVE MemoryExact(h, s)
  BY <1>1 DEF MemoryExact
<1>2. PICK w : w = IF tree THEN ReadWorkload(h) ELSE <<-1, -1, 0>>
  OBVIOUS
<1>3. s.rss = w[1] /\ s.peak = w[2] /\ s.denied = w[3] + rest
  BY <1>1, <1>2 DEF MemorySummary
<1>4. w = <<Wire(rss), Wire(Max(V)), WalkDenied(h) + Nulls(<<rss, Max(V)>>)>>
  <2>1. w[1] # -1
    BY <1>3
  <2> QED BY <1>2, <2>1 DEF ReadWorkload
<1>5. /\ Tree(h) = LeastTree(h) /\ Tree(h) \subseteq StatusRead(h)
      /\ StatusRead(h) \subseteq 1..Len(h.table)
  BY TreeIsLeast, ProcessesListed
<1>6. s.rss = rss
  BY <1>3, <1>4 DEF Wire
<1>7. rest \in Nat /\ WalkDenied(h) \in Nat
  <2>1. Len(h.meminfo) \in Nat /\ DOMAIN h.meminfo = 1..Len(h.meminfo)
    BY ProcessesListed
  <2>2. Nulls(h.meminfo) \in Nat
    BY <2>1, NullsCount
  <2>3. /\ Len(h.table) \in Nat /\ DOMAIN h.table = 1..Len(h.table) /\ h.unlisted \in Nat
    BY ProcessesListed
  <2>4. PICK D : D = {p \in StatusReached(h) : h.table[p].status = "denied"}
    OBVIOUS
  <2>5. D \subseteq 1..Len(h.table)
    BY <2>3, <2>4 DEF StatusReached
  <2>6. Cardinality(D) \in Nat
    <3>1. IsFiniteSet(1..Len(h.table))
      BY <2>3, FS_Interval
    <3> QED BY <2>5, <3>1, FS_Subset, FS_CardinalityType
  <2> QED BY <2>2, <2>3, <2>4, <2>6 DEF WalkDenied
<1>8. s.peak = -1 => s.denied > 0
  <2>1. PICK vs : vs = <<rss, Max(V)>>
    OBVIOUS
  <2>2. DOMAIN vs = 1..2 /\ vs[2] = Max(V) /\ 2 \in Nat /\ 2 \in 1..2
    BY <2>1
  <2>3. Nulls(vs) \in Nat /\ (Wire(vs[2]) = -1 => Nulls(vs) > 0)
    BY <2>2, NullsCount
  <2>4. Nulls(<<rss, Max(V)>>) \in Nat /\ (Wire(Max(V)) = -1 => Nulls(<<rss, Max(V)>>) > 0)
    BY <2>1, <2>2, <2>3
  <2> HIDE DEF rss, V, rest
  <2> QED BY <1>3, <1>4, <1>7, <2>4
<1>9. ASSUME NEW p \in Tree(h), s.peak # -1
      PROVE  h.table[p].peak <= s.peak
  <2>1. \A y \in V : y <= Max(V)
    BY <1>5, HighestPeak
  <2>2. s.peak = Max(V)
    BY <1>3, <1>4, <1>9 DEF Wire
  <2> QED BY <2>1, <2>2
<1> QED
  BY <1>5, <1>6, <1>8, <1>9 DEF MemoryExact

(* What a summary says of a host is so.                                    *)
SaysHost(h, s) == IF h.kind = "thermal" THEN ThermalExact(h, s) ELSE MemoryExact(h, s)

(* The reply on its way and the sample returned are such summaries.        *)
SummaryInv ==
  /\ IsHost(host)
  /\ replies # <<>> => SaysHost(host, replies[1].summary)
  /\ sampled.beat # 0 => SaysHost(host, sampled.summary)

(* SummaryInv is inductive.                                                *)
LEMMA SummariesKeep == SummaryInv /\ [SamplersNext]_samplerVars => SummaryInv'
<1> SUFFICES ASSUME SummaryInv, [SamplersNext]_samplerVars PROVE SummaryInv'
  OBVIOUS
<1>1. host' = host /\ IsHost(host)
  BY DEF SamplersNext, SamplersCaller, Sample, Drain, Send, Receive, TakeRequest, ReplySummary,
         ThreadDies, samplerVars, SummaryInv
<1>2. CASE ReplySummary
  <2>1. PICK s : s = IF host.kind = "thermal" THEN ThermalSummary(host)
                     ELSE MemorySummary(host, thread.tree)
    OBVIOUS
  <2>2. SaysHost(host, s)
    BY <1>1, <2>1, ThermalIsExact, MemoryIsExact DEF SaysHost
  <2>3. replies' = <<[beat |-> thread.beat, tree |-> thread.tree, summary |-> s]>> /\ sampled' = sampled
    BY <1>2, <2>1 DEF ReplySummary
  <2>4. replies'[1].summary = s
    BY <2>3
  <2> QED BY <1>1, <2>2, <2>3, <2>4 DEF SummaryInv
<1>3. CASE ~ReplySummary
  <2>1. replies' = replies \/ replies' = <<>>
    BY <1>3 DEF SamplersNext, SamplersCaller, Sample, Drain, Send, Receive, TakeRequest, ThreadDies,
                samplerVars
  <2>2. sampled' = sampled \/ sampled' = Unread \/ (replies # <<>> /\ sampled' = replies[1])
    BY <1>3 DEF SamplersNext, SamplersCaller, Sample, Drain, Send, Receive, TakeRequest, ThreadDies,
                samplerVars, Fails
  <2>3. Unread.beat = 0
    BY DEF Unread
  <2> QED BY <1>1, <2>1, <2>2, <2>3 DEF SummaryInv
<1> QED
  BY <1>2, <1>3

(* Before the first sample there is none.                                  *)
LEMMA SummariesStart ==
  ASSUME NEW hosts, \A h \in hosts : IsHost(h), NEW beats, SamplersInit(hosts, beats)
  PROVE  SummaryInv
  BY DEF SamplersInit, SummaryInv, Unread
-----------------------------------------------------------------------------
(***************************************************************************)
(* HardwareReadings: the walk over a property area.                        *)
(***************************************************************************)

(* A property area.                                                        *)
IsArea(d) == d.kind = "walk" /\ IsDevice(d)

(* The least set that holds a node and what its nodes link to.             *)
LEMMA ReachedIsLeast ==
  ASSUME NEW d, IsArea(d), NEW n \in Nodes \cup {0}
  PROVE  /\ Reached(d, n) \subseteq Nodes /\ Linked(d, Reached(d, n))
         /\ n \in Nodes => n \in Reached(d, n)
         /\ n = 0 => Reached(d, n) = {}
         /\ \A S \in SUBSET Nodes : {n} \cap Nodes \subseteq S /\ Linked(d, S) => Reached(d, n) \subseteq S
<1>1. \A S \in SUBSET Nodes : {n} \cap Nodes \subseteq S /\ Linked(d, S) => Reached(d, n) \subseteq S
  BY DEF Reached
<1>2. Linked(d, Reached(d, n))
  <2> SUFFICES ASSUME NEW m \in Reached(d, n), NEW l \in {d.left[m], d.right[m]}, l # 0
               PROVE  l \in Reached(d, n)
    BY DEF Linked
  <2>1. m \in Nodes /\ l \in Nodes
    BY DEF Reached, IsArea, IsDevice
  <2>2. ASSUME NEW S \in SUBSET Nodes, {n} \cap Nodes \subseteq S, Linked(d, S)
        PROVE  l \in S
    <3>1. m \in S
      BY <2>2 DEF Reached
    <3> QED BY <2>2, <3>1 DEF Linked
  <2> QED BY <2>1, <2>2 DEF Reached
<1>3. n = 0 => Reached(d, n) = {}
  <2>1. {} \in SUBSET Nodes /\ Linked(d, {}) /\ (n = 0 => {n} \cap Nodes = {})
    BY ReadingsAssumption DEF Linked
  <2> QED BY <1>1, <2>1
<1> QED
  BY <1>1, <1>2, <1>3 DEF Reached

(* From a node the links lead to itself and on to the left and the right.  *)
LEMMA ReachedSplits ==
  ASSUME NEW d, IsArea(d), NEW n \in Nodes
  PROVE  /\ d.left[n] \in Nodes \cup {0} /\ d.right[n] \in Nodes \cup {0}
         /\ Reached(d, n) = {n} \cup Reached(d, d.left[n]) \cup Reached(d, d.right[n])
<1> DEFINE L == Reached(d, d.left[n])
           R == Reached(d, d.right[n])
<1>1. d.left[n] \in Nodes \cup {0} /\ d.right[n] \in Nodes \cup {0}
  BY DEF IsArea, IsDevice
<1>2. /\ L \subseteq Nodes /\ Linked(d, L) /\ R \subseteq Nodes /\ Linked(d, R)
      /\ d.left[n] \in L \cup {0} /\ d.right[n] \in R \cup {0}
  BY <1>1, ReachedIsLeast
<1>3. Reached(d, n) \subseteq Nodes /\ Linked(d, Reached(d, n)) /\ n \in Reached(d, n)
  BY ReachedIsLeast
<1>4. L \subseteq Reached(d, n) /\ R \subseteq Reached(d, n)
  <2>1. {d.left[n]} \cap Nodes \subseteq Reached(d, n) /\ {d.right[n]} \cap Nodes \subseteq Reached(d, n)
    BY <1>3, ReadingsAssumption DEF Linked
  <2> QED BY <1>1, <1>3, <2>1, ReachedIsLeast
<1>5. Linked(d, {n} \cup L \cup R)
  BY <1>2 DEF Linked
<1>6. Reached(d, n) \subseteq {n} \cup L \cup R
  <2>1. {n} \cup L \cup R \in SUBSET Nodes /\ {n} \cap Nodes \subseteq {n} \cup L \cup R
    BY <1>2
  <2> QED BY <1>5, <2>1, ReachedIsLeast
<1> QED
  BY <1>1, <1>3, <1>4, <1>6

(* Where the walk is: at a node the links lead to, and in a sorted area at *)
(* one from which every node of the name sought is still ahead, with fewer *)
(* nodes ahead at every visit.                                             *)
WalkInv ==
  device.kind = "walk" =>
    /\ IsArea(device)
    /\ stage \in {"walk", "over"} /\ (stage = "over" => found # "none")
    /\ found \in {"none", "found", "absent", "malformed"}
    /\ visits \in Nat /\ visits <= (IF found = "malformed" THEN MaxVisits + 1 ELSE MaxVisits)
    /\ node \in Reached(device, device.root) \cup {0}
    /\ found = "found" => node # 0 /\ device.name[node] = device.segment
    /\ found = "absent" => node = 0
    /\ Ordered(device) =>
         /\ found # "malformed"
         /\ \A m \in Reached(device, device.root) :
              device.name[m] = device.segment => m \in Reached(device, node)
         /\ found = "none" => visits + Cardinality(Reached(device, node)) <= Cardinality(Nodes)

(* Sets of nodes are counted.                                              *)
LEMMA NodesCount ==
  /\ Cardinality(Nodes) \in Nat /\ MaxVisits = Cardinality(Nodes) + 1
  /\ \A S \in SUBSET Nodes :
       IsFiniteSet(S) /\ Cardinality(S) \in Nat /\ Cardinality(S) <= Cardinality(Nodes)
  BY ReadingsAssumption, FS_Subset, FS_CardinalityType DEF MaxVisits

(* In a sorted area the walk goes to the side where the name must be.      *)
LEMMA StepAhead ==
  ASSUME IsArea(device), Ordered(device), NEW n \in Nodes, device.name[n] # device.segment,
         NEW k, k = IF device.segment < device.name[n] THEN device.left[n] ELSE device.right[n]
  PROVE  /\ \A m \in Reached(device, n) :
              device.name[m] = device.segment => m \in Reached(device, k)
         /\ Cardinality(Reached(device, k)) + 1 <= Cardinality(Reached(device, n))
<1> DEFINE L == Reached(device, device.left[n])
           R == Reached(device, device.right[n])
<1>1. /\ device.left[n] \in Nodes \cup {0} /\ device.right[n] \in Nodes \cup {0}
      /\ Reached(device, n) = {n} \cup L \cup R
  BY ReachedSplits
<1>2. /\ L \subseteq Nodes /\ R \subseteq Nodes /\ Reached(device, n) \subseteq Nodes
      /\ Reached(device, k) \in {L, R}
  BY <1>1, ReachedIsLeast
<1>3. /\ \A m \in Nodes : device.name[m] \in Int
      /\ device.segment \in Int
  BY DEF IsArea, IsDevice
<1>4. /\ \A m \in L : device.name[m] < device.name[n]
      /\ \A m \in R : device.name[m] > device.name[n]
  BY DEF Ordered
<1>5. \A m \in Reached(device, n) : device.name[m] = device.segment => m \in Reached(device, k)
  <2> SUFFICES ASSUME NEW m \in Reached(device, n), device.name[m] = device.segment
               PROVE  m \in Reached(device, k)
    OBVIOUS
  <2>1. CASE device.segment < device.name[n]
    <3>1. k = device.left[n] /\ m # n /\ m \notin R
      BY <1>2, <1>3, <1>4, <2>1
    <3> QED BY <1>1, <3>1
  <2>2. CASE ~(device.segment < device.name[n])
    <3>1. k = device.right[n] /\ m # n /\ m \notin L
      BY <1>2, <1>3, <1>4, <2>2
    <3> QED BY <1>1, <3>1
  <2> QED BY <2>1, <2>2
<1>6. n \notin L /\ n \notin R
  BY <1>3, <1>4
<1>7. PICK K : K = Reached(device, k)
  OBVIOUS
<1>8. n \notin K /\ K \cup {n} \subseteq Reached(device, n) /\ K \subseteq Nodes
  BY <1>1, <1>2, <1>6, <1>7
<1>9. Cardinality(K \cup {n}) = Cardinality(K) + 1 /\ IsFiniteSet(Reached(device, n))
  BY <1>2, <1>8, NodesCount, FS_AddElement
<1>10. Cardinality(K \cup {n}) <= Cardinality(Reached(device, n))
  BY <1>8, <1>9, FS_Subset
<1> QED
  BY <1>5, <1>7, <1>9, <1>10

(* One node keeps the invariant.                                           *)
LEMMA WalkKeeps == ASSUME WalkInv, Walk PROVE WalkInv'
<1> SUFFICES ASSUME device.kind = "walk" PROVE WalkInv'
  BY DEF Walk, WalkInv
<1>1. device' = device /\ stage' = stage /\ stage = "walk" /\ found = "none"
  BY DEF Walk
<1> DEFINE Home == Reached(device, device.root)
<1>2. /\ IsArea(device) /\ visits \in Nat /\ visits <= MaxVisits /\ node \in Home \cup {0}
      /\ device.root \in Nodes \cup {0}
  BY <1>1 DEF WalkInv, IsArea, IsDevice
<1>3. ASSUME Ordered(device)
      PROVE  /\ \A m \in Home : device.name[m] = device.segment => m \in Reached(device, node)
             /\ visits + Cardinality(Reached(device, node)) <= Cardinality(Nodes)
  BY <1>1, <1>3 DEF WalkInv
<1>4. /\ Home \subseteq Nodes /\ Linked(device, Home) /\ MaxVisits = Cardinality(Nodes) + 1
      /\ Cardinality(Nodes) \in Nat
  BY <1>2, ReachedIsLeast, NodesCount
<1>5. MaxVisits' = MaxVisits /\ IsArea(device)' /\ Ordered(device)' = Ordered(device)
      /\ \A n : Reached(device, n)' = Reached(device, n)
  BY <1>1, <1>2 DEF MaxVisits, IsArea, IsDevice, Ordered, Reached, Linked
<1>6. CASE node = 0
  <2>1. found' = "absent" /\ node' = node /\ visits' = visits
    BY <1>6 DEF Walk
  <2> QED BY <1>1, <1>2, <1>3, <1>4, <1>5, <1>6, <2>1 DEF WalkInv
<1>7. CASE node # 0
  <2>1. visits' = visits + 1 /\ node \in Nodes
    BY <1>2, <1>4, <1>7 DEF Walk
  <2>2. ASSUME Ordered(device) PROVE visits' <= Cardinality(Nodes)
    <3>1. Reached(device, node) \subseteq Nodes /\ node \in Reached(device, node)
      BY <1>2, <2>1, ReachedIsLeast
    <3>2. Cardinality(Reached(device, node)) \in Nat /\ Cardinality(Reached(device, node)) # 0
      BY <3>1, NodesCount, FS_EmptySet
    <3> QED BY <1>2, <1>3, <1>4, <2>1, <2>2, <3>2
  <2>3. CASE visits' > MaxVisits
    <3>1. found' = "malformed" /\ node' = node
      BY <1>7, <2>3 DEF Walk
    <3>2. ~Ordered(device)
      BY <1>2, <1>4, <2>1, <2>2, <2>3
    <3> QED BY <1>1, <1>2, <1>4, <1>5, <2>1, <3>1, <3>2 DEF WalkInv
  <2>4. CASE ~(visits' > MaxVisits) /\ device.name[node] = device.segment
    <3>1. found' = "found" /\ node' = node /\ visits' <= MaxVisits
      BY <1>2, <1>4, <1>7, <2>1, <2>4 DEF Walk
    <3> QED BY <1>1, <1>2, <1>3, <1>4, <1>5, <1>7, <2>1, <2>4, <3>1 DEF WalkInv
  <2>5. CASE ~(visits' > MaxVisits) /\ device.name[node] # device.segment
    <3>1. PICK k : k = IF device.segment < device.name[node] THEN device.left[node] ELSE device.right[node]
      OBVIOUS
    <3>2. found' = "none" /\ node' = k /\ visits' <= MaxVisits
      BY <1>1, <1>2, <1>4, <1>7, <2>1, <2>5, <3>1 DEF Walk
    <3>3. k \in Home \cup {0} /\ k \in Nodes \cup {0}
      BY <1>2, <1>4, <1>7, <3>1 DEF Linked
    <3>4. Reached(device, k) \subseteq Nodes /\ Reached(device, node) \subseteq Nodes
      BY <1>2, <2>1, <3>3, ReachedIsLeast
    <3>5. Cardinality(Reached(device, k)) \in Nat /\ Cardinality(Reached(device, node)) \in Nat
      BY <3>4, NodesCount
    <3>6. ASSUME Ordered(device)
          PROVE  /\ \A m \in Home : device.name[m] = device.segment => m \in Reached(device, k)
                 /\ visits' + Cardinality(Reached(device, k)) <= Cardinality(Nodes)
      <4>1. /\ \A m \in Reached(device, node) :
                 device.name[m] = device.segment => m \in Reached(device, k)
            /\ Cardinality(Reached(device, k)) + 1 <= Cardinality(Reached(device, node))
        BY <1>2, <2>1, <2>5, <3>1, <3>6, StepAhead
      <4> QED BY <1>2, <1>3, <1>4, <2>1, <3>5, <3>6, <4>1
    <3> QED BY <1>1, <1>2, <1>5, <2>1, <3>2, <3>3, <3>6 DEF WalkInv
  <2> QED BY <2>3, <2>4, <2>5
<1> QED
  BY <1>6, <1>7

(* The end of the walk, and what does not concern it.                      *)
LEMMA WalkRests ==
  ASSUME WalkInv, device' = device, visits' = visits, found' = found, node' = node,
         stage' = stage \/ (stage' = "over" /\ (device.kind = "walk" => found # "none"))
  PROVE  WalkInv'
<1>1. MaxVisits' = MaxVisits /\ IsArea(device)' = IsArea(device) /\ Ordered(device)' = Ordered(device)
      /\ (\A n : Reached(device, n)' = Reached(device, n))
  BY DEF MaxVisits, IsArea, IsDevice, Ordered, Reached, Linked
<1> QED
  BY <1>1 DEF WalkInv

(* WalkInv is inductive.                                                   *)
LEMMA WalksKeep == WalkInv /\ [ReadingsNext]_readingVars => WalkInv'
<1> SUFFICES ASSUME WalkInv, [ReadingsNext]_readingVars PROVE WalkInv'
  OBVIOUS
<1>1. CASE Walk
  BY <1>1, WalkKeeps
<1>2. CASE ReadIndex \/ ReadFile \/ FilesRead \/ Survey \/ Collect
  <2>1. device' = device /\ visits' = visits /\ found' = found /\ node' = node
    BY <1>2 DEF ReadIndex, ReadFile, FilesRead, Survey, Collect
  <2>2. stage \notin {"walk", "over"}
    BY <1>2 DEF ReadIndex, ReadFile, FilesRead, Survey, Collect
  <2>3. device.kind # "walk"
    BY <2>2 DEF WalkInv
  <2> QED BY <2>1, <2>3 DEF WalkInv
<1>3. CASE Walked
  BY <1>3, WalkRests DEF Walked
<1>4. CASE UNCHANGED readingVars
  BY <1>4, WalkRests DEF readingVars
<1> QED
  BY <1>1, <1>2, <1>3, <1>4 DEF ReadingsNext

(* A walk starts at the root, with every node ahead.                       *)
LEMMA WalkStarts ==
  ASSUME NEW devices, \A d \in devices : d.kind = "walk" => IsArea(d), ReadingsInit(devices)
  PROVE  WalkInv
<1> SUFFICES ASSUME device.kind = "walk" PROVE WalkInv
  BY DEF WalkInv
<1>1. /\ IsArea(device) /\ stage = "walk" /\ node = device.root /\ visits = 0 /\ found = "none"
      /\ device.root \in Nodes \cup {0}
  BY DEF ReadingsInit, IsArea, IsDevice
<1>2. Reached(device, device.root) \subseteq Nodes /\ device.root \in Reached(device, device.root) \cup {0}
  BY <1>1, ReachedIsLeast
<1>3. /\ Cardinality(Reached(device, device.root)) <= Cardinality(Nodes) /\ MaxVisits = Cardinality(Nodes) + 1
      /\ Cardinality(Nodes) \in Nat /\ Cardinality(Reached(device, device.root)) \in Nat
  BY <1>2, NodesCount
<1> QED
  BY <1>1, <1>2, <1>3 DEF WalkInv

(* The invariant says what WalkExact promises.                             *)
LEMMA WalkInvExact == WalkInv => WalkExact
<1> SUFFICES ASSUME WalkInv, stage = "over", device.kind = "walk"
             PROVE  /\ visits <= MaxVisits + 1
                    /\ found = "found" =>
                         node \in Reached(device, device.root) /\ device.name[node] = device.segment
                    /\ Ordered(device) =>
                         (found = "found")
                           = (\E n \in Reached(device, device.root) : device.name[n] = device.segment)
                    /\ found = "absent" => node = 0
  BY DEF WalkExact
<1>1. /\ IsArea(device) /\ found \in {"found", "absent", "malformed"}
      /\ visits \in Nat /\ visits <= (IF found = "malformed" THEN MaxVisits + 1 ELSE MaxVisits)
      /\ node \in Reached(device, device.root) \cup {0}
      /\ found = "found" => node # 0 /\ device.name[node] = device.segment
      /\ found = "absent" => node = 0
  BY DEF WalkInv
<1>2. visits <= MaxVisits + 1
  BY <1>1, NodesCount
<1>3. ASSUME Ordered(device)
      PROVE  (found = "found")
               = (\E n \in Reached(device, device.root) : device.name[n] = device.segment)
  <2>1. /\ found # "malformed"
        /\ \A m \in Reached(device, device.root) :
             device.name[m] = device.segment => m \in Reached(device, node)
    BY <1>3 DEF WalkInv
  <2>2. found = "absent" => Reached(device, node) = {}
    BY <1>1, ReachedIsLeast
  <2> QED BY <1>1, <2>1, <2>2
<1> QED
  BY <1>1, <1>2, <1>3

(* The other jobs leave the device alone.                                  *)
LEMMA ReadingsMove == [WorkersNext]_workerVars => [ReadingsNext]_readingVars
  BY DEF WorkersNext, workerVars
-----------------------------------------------------------------------------
(***************************************************************************)
(* HardwareReadings: the property files.                                   *)
(***************************************************************************)
PathNodes == [own : Nat, prefix : Nat, exact : Int]

(* Inherited is the loop of context_for.                                   *)
LEMMA InheritedLoop ==
  ASSUME NEW path \in Seq(PathNodes)
  PROVE  /\ Inherited(path)[0] = 0
         /\ \A i \in 1..Len(path) :
              Inherited(path)[i] = IF path[i].prefix # 0 THEN path[i].prefix
                                   ELSE IF path[i].own # 0 THEN path[i].own ELSE Inherited(path)[i - 1]
<1> DEFINE n == Len(path)
           S == Nat
           b == 0
           next(i, s) == IF path[i].prefix # 0 THEN path[i].prefix
                         ELSE IF path[i].own # 0 THEN path[i].own ELSE s
           P(f) == f = [i \in 0..n |-> IF i = 0 THEN b
                                       ELSE IF path[i].prefix # 0 THEN path[i].prefix
                                       ELSE IF path[i].own # 0 THEN path[i].own ELSE f[i - 1]]
           t == [p \in (1..n) \X S |-> next(p[1], p[2])]
<1>1. n \in Nat /\ \A i \in 1..n : path[i] \in PathNodes
  OBVIOUS
<1>2. Inherited(path) = CHOOSE f : P(f)
  BY Zenon DEF Inherited
<1>3. t \in [(1..n) \X S -> S] /\ b \in S
  BY <1>1 DEF PathNodes
<1>4. \A i \in 1..n : \A s \in S : t[<<i, s>>] = next(i, s)
  OBVIOUS
<1> HIDE DEF n, t, S, b, next
<1>5. PICK f : TurnsIn(f, n, S, b, t)
  BY <1>1, <1>3, TurnsHold
<1>6. P(f)
  <2>1. \A i \in 0..n : i # 0 => i \in 1..n /\ i - 1 \in 0..n
    BY <1>1
  <2>2. \A i \in 0..n : f[i] = IF i = 0 THEN b ELSE next(i, f[i - 1])
    BY <1>4, <1>5, <2>1 DEF TurnsIn
  <2> QED BY <1>5, <2>2 DEF next, TurnsIn
<1>7. P(Inherited(path))
  <2> HIDE DEF P
  <2> QED BY <1>2, <1>6, Zenon
<1>8. \A i \in 0..n : Inherited(path)[i] = IF i = 0 THEN b ELSE next(i, Inherited(path)[i - 1])
  BY <1>7 DEF next
<1>9. 0 \in 0..n /\ \A i \in 1..n : i \in 0..n /\ i # 0
  BY <1>1
<1> QED
  BY <1>8, <1>9 DEF n, b, next

(* A context that a node of the path names.                                *)
Named(path, c) == \E n \in 1..Len(path) : c \in {path[n].own, path[n].prefix, path[n].exact}

(* context_for answers with no context or with one that the path names.    *)
LEMMA ContextIsNamed ==
  ASSUME NEW path \in Seq(PathNodes), Len(path) > 0
  PROVE  ContextFor(path) \in Nat /\ (ContextFor(path) # 0 => Named(path, ContextFor(path)))
<1> DEFINE n == Len(path)
           I == Inherited(path)
           T == {i \in 0..n : I[i] \in Nat /\ (I[i] # 0 => Named(path, I[i]))}
<1>1. n \in Nat /\ n \in 1..n /\ n \in 0..n /\ 0 \in 0..n /\ \A i \in 1..n : path[i] \in PathNodes
  OBVIOUS
<1>2. /\ I[0] = 0
      /\ \A i \in 1..n : I[i] = IF path[i].prefix # 0 THEN path[i].prefix
                                ELSE IF path[i].own # 0 THEN path[i].own ELSE I[i - 1]
  BY InheritedLoop
<1> HIDE DEF I
<1>3. 0 \in T
  BY <1>1, <1>2
<1>4. ASSUME NEW i \in 1..n, i - 1 \in T PROVE i \in T
  <2>1. path[i].prefix \in Nat /\ path[i].own \in Nat
    BY <1>1 DEF PathNodes
  <2>2. Named(path, path[i].prefix) /\ Named(path, path[i].own)
    BY DEF Named
  <2>3. I[i - 1] \in Nat /\ (I[i - 1] # 0 => Named(path, I[i - 1])) /\ i \in 0..n
    BY <1>4
  <2> QED BY <1>2, <2>1, <2>2, <2>3
<1> HIDE DEF T
<1>5. n \in T
  BY <1>1, <1>3, <1>4, Upward
<1>6. path[n].exact \in Int /\ Named(path, path[n].exact)
  BY <1>1 DEF PathNodes, Named
<1>7. I[n] \in Nat /\ (I[n] # 0 => Named(path, I[n]))
  BY <1>5 DEF T
<1>8. ContextFor(path) = IF path[n].exact > 0 THEN path[n].exact ELSE I[n]
  BY DEF ContextFor, I
<1> QED
  BY <1>6, <1>7, <1>8

FileKinds == {"ok", "not_found", "unavailable", "permission_denied", "unsafe", "too_large"}
FileValues == {"value", "unusable", "absent", "malformed", "unsupported"}
Outcomes == [outcome : FileKinds, value : FileValues]
Passed == [outcome : FileKinds \cup {"unread"}, value : FileValues]

(* WorstFailure is the loop over the contexts, for the failures.           *)
LEMMA FailureLoop ==
  ASSUME NEW rs \in Seq(Outcomes)
  PROVE  /\ WorstFailure(rs)[0] = "not_found"
         /\ \A i \in 1..Len(rs) :
              WorstFailure(rs)[i] = IF rs[i].outcome = "ok" THEN WorstFailure(rs)[i - 1]
                                    ELSE StrongerFailure(WorstFailure(rs)[i - 1], rs[i].outcome)
<1> DEFINE n == Len(rs)
           S == FileKinds
           b == "not_found"
           next(i, s) == IF rs[i].outcome = "ok" THEN s ELSE StrongerFailure(s, rs[i].outcome)
           P(f) == f = [i \in 0..n |-> IF i = 0 THEN b
                                       ELSE IF rs[i].outcome = "ok" THEN f[i - 1]
                                       ELSE StrongerFailure(f[i - 1], rs[i].outcome)]
           t == [p \in (1..n) \X S |-> next(p[1], p[2])]
<1>1. n \in Nat /\ \A i \in 1..n : rs[i] \in Outcomes
  OBVIOUS
<1>2. WorstFailure(rs) = CHOOSE f : P(f)
  BY Zenon DEF WorstFailure
<1>3. t \in [(1..n) \X S -> S] /\ b \in S
  BY <1>1 DEF Outcomes, StrongerFailure, FileKinds
<1>4. \A i \in 1..n : \A s \in S : t[<<i, s>>] = next(i, s)
  OBVIOUS
<1> HIDE DEF n, t, S, b, next
<1>5. PICK f : TurnsIn(f, n, S, b, t)
  BY <1>1, <1>3, TurnsHold
<1>6. P(f)
  <2>1. \A i \in 0..n : i # 0 => i \in 1..n /\ i - 1 \in 0..n
    BY <1>1
  <2>2. \A i \in 0..n : f[i] = IF i = 0 THEN b ELSE next(i, f[i - 1])
    BY <1>4, <1>5, <2>1 DEF TurnsIn
  <2> QED BY <1>5, <2>2 DEF next, TurnsIn
<1>7. P(WorstFailure(rs))
  <2> HIDE DEF P
  <2> QED BY <1>2, <1>6, Zenon
<1>8. \A i \in 0..n : WorstFailure(rs)[i] = IF i = 0 THEN b ELSE next(i, WorstFailure(rs)[i - 1])
  BY <1>7 DEF next
<1>9. 0 \in 0..n /\ \A i \in 1..n : i \in 0..n /\ i # 0
  BY <1>1
<1> QED
  BY <1>8, <1>9 DEF n, b, next

(* AreasAnswer is the same loop over the answers.                          *)
LEMMA AnswerLoop ==
  ASSUME NEW rs \in Seq(Outcomes)
  PROVE  /\ AreasAnswer(rs)[0] = "absent"
         /\ \A i \in 1..Len(rs) :
              AreasAnswer(rs)[i] = IF rs[i].outcome = "ok" THEN AreaStep(AreasAnswer(rs)[i - 1], rs[i].value)
                                   ELSE AreasAnswer(rs)[i - 1]
<1> DEFINE n == Len(rs)
           S == FileValues
           b == "absent"
           next(i, s) == IF rs[i].outcome = "ok" THEN AreaStep(s, rs[i].value) ELSE s
           P(f) == f = [i \in 0..n |-> IF i = 0 THEN b
                                       ELSE IF rs[i].outcome = "ok" THEN AreaStep(f[i - 1], rs[i].value)
                                       ELSE f[i - 1]]
           t == [p \in (1..n) \X S |-> next(p[1], p[2])]
<1>1. n \in Nat /\ \A i \in 1..n : rs[i].value \in FileValues
  <2>1. n \in Nat /\ \A i \in 1..n : rs[i] \in Outcomes
    OBVIOUS
  <2> QED BY <2>1 DEF Outcomes
<1>2. AreasAnswer(rs) = CHOOSE f : P(f)
  BY Zenon DEF AreasAnswer
<1>3. t \in [(1..n) \X S -> S] /\ b \in S
  BY <1>1 DEF AreaStep, FileValues
<1>4. \A i \in 1..n : \A s \in S : t[<<i, s>>] = next(i, s)
  OBVIOUS
<1> HIDE DEF n, t, S, b, next
<1>5. PICK f : TurnsIn(f, n, S, b, t)
  BY <1>1, <1>3, TurnsHold
<1>6. P(f)
  <2>1. \A i \in 0..n : i # 0 => i \in 1..n /\ i - 1 \in 0..n
    BY <1>1
  <2>2. \A i \in 0..n : f[i] = IF i = 0 THEN b ELSE next(i, f[i - 1])
    BY <1>4, <1>5, <2>1 DEF TurnsIn
  <2> QED BY <1>5, <2>2 DEF next, TurnsIn
<1>7. P(AreasAnswer(rs))
  <2> HIDE DEF P
  <2> QED BY <1>2, <1>6, Zenon
<1>8. \A i \in 0..n : AreasAnswer(rs)[i] = IF i = 0 THEN b ELSE next(i, AreasAnswer(rs)[i - 1])
  BY <1>7 DEF next
<1>9. 0 \in 0..n /\ \A i \in 1..n : i \in 0..n /\ i # 0
  BY <1>1
<1> QED
  BY <1>8, <1>9 DEF n, b, next

(* What the first n files that were read hold.                             *)
Holds(rs, n, v) == \E i \in 1..n : rs[i].outcome = "ok" /\ rs[i].value = v

(* Whether the first of them that holds the field holds a value.           *)
Decides(rs, n) ==
  \E i \in 1..n : /\ rs[i].outcome = "ok" /\ rs[i].value = "value"
                  /\ \A j \in 1..(i - 1) : rs[j].outcome = "ok" => rs[j].value \notin {"value", "unusable"}

(* The answer so far: the first area that holds the field, else the worst. *)
LEMMA AnswersCascade ==
  ASSUME NEW rs \in Seq(Outcomes)
  PROVE  AreasAnswer(rs)[Len(rs)]
           = IF Decides(rs, Len(rs)) THEN "value"
             ELSE IF Holds(rs, Len(rs), "unusable") THEN "unusable"
             ELSE IF Holds(rs, Len(rs), "unsupported") THEN "unsupported"
             ELSE IF Holds(rs, Len(rs), "malformed") THEN "malformed" ELSE "absent"
<1> DEFINE N == Len(rs)
           A == AreasAnswer(rs)
           held(n) == Holds(rs, n, "value") \/ Holds(rs, n, "unusable")
           answer(n) == IF Decides(rs, n) THEN "value"
                        ELSE IF Holds(rs, n, "unusable") THEN "unusable"
                        ELSE IF Holds(rs, n, "unsupported") THEN "unsupported"
                        ELSE IF Holds(rs, n, "malformed") THEN "malformed" ELSE "absent"
           T == {n \in 0..N : A[n] = answer(n) /\ (held(n) <=> A[n] \in {"value", "unusable"})}
<1>1. N \in Nat /\ \A i \in 1..N : rs[i] \in Outcomes
  OBVIOUS
<1>2. /\ A[0] = "absent"
      /\ \A i \in 1..N : A[i] = IF rs[i].outcome = "ok" THEN AreaStep(A[i - 1], rs[i].value) ELSE A[i - 1]
  BY AnswerLoop
<1>3. 0 \in 0..N /\ N \in 0..N
  BY <1>1
<1> HIDE DEF N, A
<1>4. 0 \in T
  <2>1. ~Decides(rs, 0) /\ \A v : ~Holds(rs, 0, v)
    BY DEF Holds, Decides
  <2> QED BY <1>2, <1>3, <2>1
<1>5. ASSUME NEW n \in 1..N, n - 1 \in T PROVE n \in T
  <2>1. PICK r : r = rs[n]
    OBVIOUS
  <2>2. r.value \in FileValues /\ n \in 0..N
    BY <1>1, <2>1 DEF Outcomes
  <2>3. \A j : j \in 1..n <=> j \in 1..(n - 1) \/ j = n
    BY <1>1
  <2>4. \A v : Holds(rs, n, v) <=> Holds(rs, n - 1, v) \/ (r.outcome = "ok" /\ r.value = v)
    BY <2>1, <2>3 DEF Holds
  <2>5. Decides(rs, n) <=> Decides(rs, n - 1) \/ (r.outcome = "ok" /\ r.value = "value" /\ ~held(n - 1))
    BY <2>1, <2>3 DEF Decides, Holds
  <2>6. A[n - 1] = answer(n - 1) /\ (held(n - 1) <=> A[n - 1] \in {"value", "unusable"})
    BY <1>5
  <2>7. A[n] = IF r.outcome = "ok" THEN AreaStep(A[n - 1], r.value) ELSE A[n - 1]
    BY <1>2, <2>1
  <2>8. A[n] = answer(n) /\ (held(n) <=> A[n] \in {"value", "unusable"})
    <3>1. CASE r.outcome # "ok"
      <4>1. (\A v : Holds(rs, n, v) <=> Holds(rs, n - 1, v)) /\ (Decides(rs, n) <=> Decides(rs, n - 1))
        BY <2>4, <2>5, <3>1
      <4> QED BY <2>6, <2>7, <3>1, <4>1
    <3>2. CASE r.outcome = "ok" /\ held(n - 1)
      <4>1. A[n - 1] \in {"value", "unusable"} /\ A[n] = A[n - 1]
        BY <2>6, <2>7, <3>2 DEF AreaStep
      <4>2. Decides(rs, n) <=> Decides(rs, n - 1)
        BY <2>5, <3>2
      <4>3. held(n) /\ (A[n - 1] = "unusable" => Holds(rs, n, "unusable") /\ ~Decides(rs, n - 1))
        BY <2>4, <2>6, <3>2
      <4>4. A[n - 1] = "value" => Decides(rs, n - 1)
        BY <2>6
      <4> QED BY <4>1, <4>2, <4>3, <4>4
    <3>3. CASE r.outcome = "ok" /\ ~held(n - 1)
      <4>1. ~Decides(rs, n - 1) /\ A[n - 1] \notin {"value", "unusable"}
        <5>1. Decides(rs, n - 1) => Holds(rs, n - 1, "value")
          BY DEF Decides, Holds
        <5> QED BY <2>6, <3>3, <5>1
      <4>2. Decides(rs, n) <=> r.value = "value"
        BY <2>5, <3>3, <4>1
      <4>3. \A v : Holds(rs, n, v) <=> Holds(rs, n - 1, v) \/ r.value = v
        BY <2>4, <3>3
      <4>4. A[n - 1] = IF Holds(rs, n - 1, "unsupported") THEN "unsupported"
                       ELSE IF Holds(rs, n - 1, "malformed") THEN "malformed" ELSE "absent"
        BY <2>6, <3>3, <4>1
      <4>5. A[n] = IF r.value = "absent" \/ (A[n - 1] = "unsupported" /\ r.value = "malformed")
                   THEN A[n - 1] ELSE r.value
        BY <2>7, <3>3, <4>1 DEF AreaStep
      <4>6. CASE r.value \in {"value", "unusable"}
        BY <3>3, <4>2, <4>3, <4>5, <4>6
      <4>7. CASE r.value \in {"absent", "malformed", "unsupported"}
        BY <3>3, <4>2, <4>3, <4>4, <4>5, <4>7
      <4> QED BY <2>2, <4>6, <4>7 DEF FileValues
    <3> QED BY <3>1, <3>2, <3>3
  <2> QED BY <2>2, <2>8
<1> HIDE DEF T
<1>6. N \in T
  BY <1>1, <1>3, <1>4, <1>5, Upward
<1> QED
  BY <1>6 DEF T, A, N

(* Where nothing could be read, the worst failure.                         *)
LEMMA FailuresRank ==
  ASSUME NEW rs \in Seq(Outcomes), \A i \in 1..Len(rs) : rs[i].outcome # "ok"
  PROVE  LET failed == {FailureRank(rs[i].outcome) : i \in 1..Len(rs)}
         IN FailureStatus(WorstFailure(rs)[Len(rs)])
              = IF 3 \in failed THEN "unsupported"
                ELSE IF 2 \in failed THEN "permission_denied" ELSE "surface_hidden"
<1> DEFINE N == Len(rs)
           W == WorstFailure(rs)
           Bad == FileKinds \ {"ok"}
           T == {n \in 0..N :
                   /\ W[n] \in Bad
                   /\ \A i \in 1..n : FailureRank(rs[i].outcome) <= FailureRank(W[n])
                   /\ W[n] = "not_found" \/ \E i \in 1..n : W[n] = rs[i].outcome}
<1>1. N \in Nat /\ \A i \in 1..N : rs[i].outcome \in Bad
  <2>1. N \in Nat /\ \A i \in 1..N : rs[i] \in Outcomes
    OBVIOUS
  <2> QED BY <2>1 DEF Outcomes
<1>2. W[0] = "not_found" /\ \A i \in 1..N : W[i] = StrongerFailure(W[i - 1], rs[i].outcome)
  BY FailureLoop
<1>3. 0 \in 0..N /\ N \in 0..N
  BY <1>1
<1>4. /\ \A f \in Bad : FailureRank(f) \in 0..3
      /\ \A f \in Bad : FailureStatus(f) = IF FailureRank(f) = 3 THEN "unsupported"
                           ELSE IF FailureRank(f) = 2 THEN "permission_denied" ELSE "surface_hidden"
      /\ FailureRank("not_found") = 0 /\ "not_found" \in Bad
  BY DEF FailureRank, FailureStatus, FileKinds
<1> HIDE DEF N, W, Bad
<1>5. 0 \in T
  BY <1>2, <1>3, <1>4
<1>6. ASSUME NEW n \in 1..N, n - 1 \in T PROVE n \in T
  <2>1. PICK w, o : w = W[n - 1] /\ o = rs[n].outcome
    OBVIOUS
  <2>2. /\ w \in Bad /\ o \in Bad /\ FailureRank(w) \in 0..3 /\ FailureRank(o) \in 0..3
        /\ \A i \in 1..(n - 1) : rs[i].outcome \in Bad /\ FailureRank(rs[i].outcome) \in 0..3
    BY <1>1, <1>4, <1>6, <2>1
  <2>3. W[n] = IF FailureRank(o) > FailureRank(w) THEN o ELSE w
    BY <1>2, <2>1 DEF StrongerFailure
  <2>4. /\ \A i \in 1..(n - 1) : FailureRank(rs[i].outcome) <= FailureRank(w)
        /\ w = "not_found" \/ \E i \in 1..(n - 1) : w = rs[i].outcome
    BY <1>6, <2>1
  <2>5. (\A j : j \in 1..n <=> j \in 1..(n - 1) \/ j = n) /\ n \in 0..N /\ n \in 1..n
    BY <1>1
  <2>6. W[n] \in Bad /\ (W[n] = "not_found" \/ \E i \in 1..n : W[n] = rs[i].outcome)
    BY <2>1, <2>2, <2>3, <2>4, <2>5
  <2>7. FailureRank(w) <= FailureRank(W[n]) /\ FailureRank(o) <= FailureRank(W[n])
    BY <2>2, <2>3
  <2>8. FailureRank(W[n]) \in 0..3
    BY <1>4, <2>6
  <2>9. ASSUME NEW i \in 1..n PROVE FailureRank(rs[i].outcome) <= FailureRank(W[n])
    <3>1. CASE i = n
      BY <2>1, <2>7, <3>1
    <3>2. CASE i \in 1..(n - 1)
      BY <2>2, <2>4, <2>7, <2>8, <3>2
    <3> QED BY <2>5, <3>1, <3>2
  <2> QED BY <2>5, <2>6, <2>9
<1> HIDE DEF T
<1>7. N \in T
  BY <1>1, <1>3, <1>5, <1>6, Upward
<1>8. PICK w : w = W[N]
  OBVIOUS
<1>9. /\ w = "not_found" \/ \E i \in 1..N : w = rs[i].outcome
      /\ \A i \in 1..N : FailureRank(rs[i].outcome) <= FailureRank(w)
  BY <1>7, <1>8 DEF T
<1>10. PICK R : R = {FailureRank(rs[i].outcome) : i \in 1..N}
  OBVIOUS
<1>11. /\ FailureRank(w) = 0 \/ FailureRank(w) \in R
       /\ \A r \in R : r \in 0..3 /\ r <= FailureRank(w)
       /\ FailureRank(w) \in 0..3
  <2>1. w \in Bad
    BY <1>7, <1>8 DEF T
  <2> QED BY <1>1, <1>4, <1>9, <1>10, <2>1
<1>12. w \in Bad
  BY <1>7, <1>8 DEF T
<1>13. FailureStatus(w) = IF 3 \in R THEN "unsupported"
                          ELSE IF 2 \in R THEN "permission_denied" ELSE "surface_hidden"
  <2>1. /\ 3 \in R <=> FailureRank(w) = 3
        /\ ~(3 \in R) => (2 \in R <=> FailureRank(w) = 2)
    BY <1>11
  <2> QED BY <1>4, <1>12, <2>1
<1> QED
  BY <1>8, <1>10, <1>13 DEF N, W

(* What FilesExact asks of a reading f of the files rs of a device d.      *)
FilesSay(d, rs, f) ==
  LET ok == {i \in 1..Len(rs) : rs[i].outcome = "ok"}
      opened == {i \in 1..Len(rs) : rs[i].outcome # "unread"}
  IN /\ d.index.kind = "not_found" =>
          LET has(v) == \E i \in ok : rs[i].value = v
              first(i) == \A j \in ok : j < i => rs[j].value \notin {"value", "unusable"}
              failed == {FailureRank(rs[i].outcome) : i \in 1..Len(rs) \ ok}
          IN f = IF ok = {} THEN (IF 3 \in failed THEN "unsupported"
                                  ELSE IF 2 \in failed THEN "permission_denied" ELSE "surface_hidden")
                 ELSE IF \E i \in ok : first(i) /\ rs[i].value = "value" THEN "observed"
                 ELSE IF has("unusable") THEN "parse_error"
                 ELSE IF has("unsupported") THEN "unsupported"
                 ELSE IF has("malformed") THEN "parse_error" ELSE "not_present"
     /\ d.index.kind = "ok" =>
          /\ Cardinality(opened) <= MaxContexts /\ opened \subseteq d.valid
          /\ f = "observed" =>
               \E i \in opened :
                 /\ rs[i] = [outcome |-> "ok", value |-> "value"]
                 /\ \E n \in 1..Len(d.path) : i \in {d.path[n].own, d.path[n].prefix, d.path[n].exact}

(* Without an index the contexts answer together.                          *)
LEMMA FallbackSays ==
  ASSUME NEW rs \in Seq(Outcomes), NEW d, d.index.kind = "not_found"
  PROVE  FilesSay(d, rs, FallbackStatus(rs))
<1> DEFINE ok == {i \in 1..Len(rs) : rs[i].outcome = "ok"}
           failed == {FailureRank(rs[i].outcome) : i \in 1..Len(rs) \ ok}
           has(v) == \E i \in ok : rs[i].value = v
           first(i) == \A j \in ok : j < i => rs[j].value \notin {"value", "unusable"}
           valued == \E i \in ok : first(i) /\ rs[i].value = "value"
           told == IF ok = {} THEN (IF 3 \in failed THEN "unsupported"
                                    ELSE IF 2 \in failed THEN "permission_denied" ELSE "surface_hidden")
                   ELSE IF valued THEN "observed"
                   ELSE IF has("unusable") THEN "parse_error"
                   ELSE IF has("unsupported") THEN "unsupported"
                   ELSE IF has("malformed") THEN "parse_error" ELSE "not_present"
<1>1. CASE ok = {}
  <2>1. /\ \A i \in 1..Len(rs) : rs[i].outcome # "ok"
        /\ failed = {FailureRank(rs[i].outcome) : i \in 1..Len(rs)}
    BY <1>1
  <2>2. FallbackStatus(rs) = FailureStatus(WorstFailure(rs)[Len(rs)])
    BY <2>1 DEF FallbackStatus
  <2>3. PICK F : F = failed
    OBVIOUS
  <2>4. FallbackStatus(rs) = IF 3 \in F THEN "unsupported"
                             ELSE IF 2 \in F THEN "permission_denied" ELSE "surface_hidden"
    BY <2>1, <2>2, <2>3, FailuresRank
  <2>5. FallbackStatus(rs) = told
    BY <1>1, <2>3, <2>4
  <2> QED BY <2>5 DEF FilesSay
<1>2. CASE ok # {}
  <2>1. FallbackStatus(rs) = ValueStatus(AreasAnswer(rs)[Len(rs)])
    BY <1>2 DEF FallbackStatus
  <2>2. \A v : Holds(rs, Len(rs), v) <=> has(v)
    BY DEF Holds
  <2>3. Decides(rs, Len(rs)) <=> valued
    <3>1. Len(rs) \in Nat
      OBVIOUS
    <3>2. ASSUME NEW i \in 1..Len(rs)
          PROVE  first(i) <=> \A j \in 1..(i - 1) : rs[j].outcome = "ok" => rs[j].value \notin {"value", "unusable"}
      <4>1. \A j : j \in 1..(i - 1) <=> j \in 1..Len(rs) /\ j < i
        BY <3>1
      <4> QED BY <4>1
    <3> HIDE DEF first
    <3> QED BY <3>2 DEF Decides
  <2>4. FallbackStatus(rs) = IF valued THEN "observed"
                             ELSE IF has("unusable") THEN "parse_error"
                             ELSE IF has("unsupported") THEN "unsupported"
                             ELSE IF has("malformed") THEN "parse_error" ELSE "not_present"
    <3> HIDE DEF has, valued
    <3> QED BY <2>1, <2>2, <2>3, AnswersCascade DEF ValueStatus
  <2>5. FallbackStatus(rs) = told
    BY <1>2, <2>4
  <2> QED BY <2>5 DEF FilesSay
<1> QED
  BY <1>1, <1>2

(* The contexts that may be opened are no more than four, for those before *)
(* the last of them are fewer.                                             *)
LEMMA FewOpened ==
  ASSUME NEW W, NEW n \in Nat, W \subseteq 1..n, NEW C, C \subseteq W,
         \A c \in C : Cardinality({b \in W : b < c}) < MaxContexts
  PROVE  Cardinality(C) <= MaxContexts
<1>1. IsFiniteSet(W) /\ IsFiniteSet(C)
  <2>1. IsFiniteSet(1..n)
    BY FS_Interval
  <2> QED BY <2>1, FS_Subset
<1>2. CASE C = {}
  BY <1>2, FS_EmptySet DEF MaxContexts
<1>3. CASE C # {}
  <2> DEFINE K == {k \in 0..n : \A c \in C : c <= k}
  <2>1. n \in K
    BY FS_EmptySet
  <2>2. PICK k \in K : \A j \in K : k <= j
    <3>1. K \subseteq Nat /\ K # {}
      BY <2>1
    <3> HIDE DEF K
    <3> QED BY <3>1, LeastNumber
  <2>3. k \in C
    <3> SUFFICES ASSUME k \notin C PROVE FALSE
      OBVIOUS
    <3>1. \A c \in C : c \in 1..n /\ c <= k /\ c # k
      BY <2>2
    <3>2. PICK c : c \in C
      BY <1>3
    <3>3. k \in 1..n /\ k - 1 \in 0..n /\ \A x \in C : x <= k - 1
      BY <2>2, <3>1, <3>2
    <3>4. k - 1 \in K
      BY <3>3
    <3> QED BY <2>2, <3>3, <3>4
  <2> DEFINE B == {b \in W : b < k}
  <2>4. IsFiniteSet(B) /\ Cardinality(B) < MaxContexts /\ C \ {k} \subseteq B
    <3>1. B \subseteq W
      OBVIOUS
    <3>2. IsFiniteSet(B)
      BY <1>1, <3>1, FS_Subset
    <3>3. Cardinality(B) < MaxContexts
      BY <2>3
    <3>4. ASSUME NEW c \in C, c # k PROVE c < k
      BY <2>2, <3>4
    <3> QED BY <3>2, <3>3, <3>4
  <2> HIDE DEF B
  <2>5. IsFiniteSet(C \ {k}) /\ Cardinality(C \ {k}) <= Cardinality(B)
    BY <2>4, FS_Subset
  <2>6. Cardinality(C \ {k}) = Cardinality(C) - 1 /\ Cardinality(C) \in Nat /\ Cardinality(B) \in Nat
    BY <1>1, <2>3, <2>4, FS_RemoveElement, FS_CardinalityType
  <2> QED BY <2>4, <2>5, <2>6 DEF MaxContexts
<1> QED
  BY <1>2, <1>3

(* The files opened are of contexts that may be.                           *)
OpenedOnly(d, rs) ==
  d.index.kind = "ok" => \A i \in 1..Len(rs) : rs[i].outcome # "unread" => Opened(d, i)

(* With an index only the file of the context that the path names counts.  *)
LEMMA ContextSays ==
  ASSUME NEW rs \in Seq(Passed), NEW d, d.index.kind = "ok", OpenedOnly(d, rs),
         d.path \in Seq(PathNodes), Len(d.path) > 0, Len(d.files) \in Nat,
         NEW f, f = "observed" => f = ContextStatus(d, rs)
  PROVE  FilesSay(d, rs, f)
<1> DEFINE opened == {i \in 1..Len(rs) : rs[i].outcome # "unread"}
<1>1. \A i \in opened : /\ i \in NamedContexts(d)
                        /\ Cardinality({b \in NamedContexts(d) : b < i}) < MaxContexts
  BY DEF OpenedOnly, Opened
<1>2. NamedContexts(d) \subseteq d.valid /\ NamedContexts(d) \subseteq 1..Len(d.files)
  BY DEF NamedContexts
<1>3. Cardinality(opened) <= MaxContexts
  <2> HIDE DEF opened
  <2>1. opened \subseteq NamedContexts(d)
    BY <1>1
  <2> QED BY <1>1, <1>2, <2>1, FewOpened
<1>4. opened \subseteq d.valid
  BY <1>1, <1>2
<1>5. ASSUME f = "observed"
      PROVE  \E i \in opened : rs[i] = [outcome |-> "ok", value |-> "value"] /\ Named(d.path, i)
  <2>1. PICK c : c = ContextFor(d.path)
    OBVIOUS
  <2>2. c \in Nat /\ (c # 0 => Named(d.path, c))
    BY <2>1, ContextIsNamed
  <2>3. ContextStatus(d, rs) = "observed"
    BY <1>5
  <2>4. c # 0 /\ ~(c > Len(rs)) /\ c \in d.valid
    BY <2>1, <2>3 DEF ContextStatus
  <2>5. c \in 1..Len(rs)
    BY <2>2, <2>4
  <2>6. PICK r : r = rs[c]
    OBVIOUS
  <2>7. r \in Passed
    BY <2>5, <2>6
  <2>8. (IF r.outcome # "ok" THEN FailureStatus(r.outcome) ELSE ValueStatus(r.value)) = "observed"
    BY <2>1, <2>3, <2>4, <2>6 DEF ContextStatus
  <2>9. r.outcome = "ok" /\ r.value = "value"
    <3>1. FailureStatus(r.outcome) # "observed"
      BY DEF FailureStatus
    <3> QED BY <2>8, <3>1 DEF ValueStatus
  <2>10. rs[c] = [outcome |-> "ok", value |-> "value"] /\ c \in opened
    BY <2>5, <2>6, <2>7, <2>9 DEF Passed
  <2> QED BY <2>2, <2>4, <2>10
<1> QED
  BY <1>3, <1>4, <1>5 DEF FilesSay, Named

(* The property files are read within the budget and reported as they say. *)
FilesInv ==
  device.kind = "files" =>
    /\ IsDevice(device)
    /\ stage \in {"index", "files", "over"} /\ budget \in Nat /\ reads \in Seq(Passed)
    /\ OpenedOnly(device, reads)
    /\ device.index.kind # "ok" => reads \in Seq(Outcomes)
    /\ stage = "index" => reads = <<>>
    /\ stage = "files" => device.index.kind \in {"ok", "not_found"}
    /\ stage = "over" => FilesSay(device, reads, fact)

(* What a file costs is what it holds, within what is left.                *)
LEMMA ReadIsPaid ==
  ASSUME NEW file \in PropertyFiles, NEW left \in Nat
  PROVE  /\ ReadOutcome(file, left) \in FileKinds /\ file.value \in FileValues
         /\ (IF ReadOutcome(file, left) = "ok" THEN left - file.size ELSE left) \in Nat
         /\ ReadOutcome(file, left) = "ok" => file.kind = "ok"
         /\ file.kind = "ok" => ReadOutcome(file, left) \in {"ok", "too_large"}
         /\ ReadOutcome(file, left) = "not_found" <=> file.kind = "not_found"
<1>1. file.size \in Nat /\ file.value \in FileValues
      /\ file.kind \in {"ok", "not_found", "unavailable", "permission_denied", "unsafe"}
  BY DEF PropertyFiles, FileValues
<1>2. ReadOutcome(file, left) = "ok" => file.size <= left /\ file.kind = "ok"
  BY <1>1 DEF ReadOutcome
<1> QED
  BY <1>1, <1>2 DEF ReadOutcome, FileKinds

(* FilesInv is inductive.                                                  *)
LEMMA FilesKeep == FilesInv /\ [ReadingsNext]_readingVars => FilesInv'
<1> SUFFICES ASSUME FilesInv, [ReadingsNext]_readingVars, device.kind = "files" PROVE FilesInv'
  BY DEF FilesInv, ReadingsNext, ReadIndex, ReadFile, FilesRead, Walk, Walked, Survey, Collect, readingVars
<1>1. PICK d : d = device
  OBVIOUS
<1>2. /\ IsDevice(d) /\ d.kind = "files" /\ budget \in Nat /\ reads \in Seq(Passed)
      /\ stage \in {"index", "files", "over"} /\ OpenedOnly(d, reads)
      /\ d.index.kind # "ok" => reads \in Seq(Outcomes)
      /\ stage = "index" => reads = <<>>
      /\ stage = "files" => d.index.kind \in {"ok", "not_found"}
      /\ stage = "over" => FilesSay(d, reads, fact)
  BY <1>1 DEF FilesInv
<1>3. /\ d.index \in PropertyFiles /\ d.files \in Seq(PropertyFiles)
      /\ d.path \in Seq(PathNodes)
      /\ d.index.kind = "ok" => Len(d.path) > 0
  BY <1>2 DEF IsDevice, PathNodes
<1>4. device' = d
  BY <1>1 DEF ReadingsNext, ReadIndex, ReadFile, FilesRead, Walk, Walked, Survey, Collect, readingVars
<1>5. CASE ReadIndex
  <2>1. PICK o : o = ReadOutcome(d.index, budget)
    OBVIOUS
  <2>2. /\ o \in FileKinds /\ d.index.value \in FileValues
        /\ (IF o = "ok" THEN budget - d.index.size ELSE budget) \in Nat
        /\ o = "ok" => d.index.kind = "ok"
        /\ d.index.kind = "ok" => o \in {"ok", "too_large"}
        /\ o = "not_found" <=> d.index.kind = "not_found"
    BY <1>2, <1>3, <2>1, ReadIsPaid
  <2>3. reads' = reads /\ budget' \in Nat /\ reads = <<>>
    BY <1>1, <1>2, <1>5, <2>1, <2>2 DEF ReadIndex
  <2>4. CASE o = "not_found" \/ (o = "ok" /\ d.index.value = "value")
    <3>1. stage' = "files"
      BY <1>1, <1>5, <2>1, <2>4 DEF ReadIndex
    <3> QED BY <1>2, <1>4, <2>2, <2>3, <2>4, <3>1 DEF FilesInv
  <2>5. CASE ~(o = "not_found" \/ (o = "ok" /\ d.index.value = "value"))
    <3>1. /\ stage' = "over"
          /\ fact' = IF o = "ok" THEN ValueStatus(d.index.value) ELSE FailureStatus(o)
      BY <1>1, <1>5, <2>1, <2>5 DEF ReadIndex
    <3>2. d.index.kind # "not_found"
      BY <2>2, <2>5
    <3>3. fact' # "observed"
      <4>1. FailureStatus(o) # "observed"
        BY DEF FailureStatus
      <4>2. d.index.value # "value" => ValueStatus(d.index.value) # "observed"
        BY DEF ValueStatus
      <4> QED BY <2>5, <3>1, <4>1, <4>2
    <3>4. FilesSay(d, reads, fact')
      <4>1. CASE d.index.kind = "ok"
        <5>1. Len(d.files) \in Nat
          BY <1>3
        <5> QED BY <1>2, <1>3, <3>3, <4>1, <5>1, ContextSays
      <4>2. CASE d.index.kind # "ok"
        BY <3>2, <4>2 DEF FilesSay
      <4> QED BY <4>1, <4>2
    <3> QED BY <1>2, <1>4, <2>3, <3>1, <3>4 DEF FilesInv
  <2> QED BY <2>4, <2>5
<1>6. CASE ReadFile
  <2> DEFINE next == Len(reads) + 1
  <2>1. PICK file, o : /\ file = d.files[next]
                       /\ o = IF Opened(d, next) THEN ReadOutcome(file, budget) ELSE "unread"
    OBVIOUS
  <2>2. /\ reads' = Append(reads, [outcome |-> o, value |-> file.value])
        /\ budget' = IF o = "ok" THEN budget - file.size ELSE budget
        /\ Len(reads) < Len(d.files) /\ stage = "files" /\ stage' = stage
    BY <1>1, <1>6, <2>1 DEF ReadFile
  <2>3. Len(reads) \in Nat /\ Len(d.files) \in Nat
    BY <1>2, <1>3
  <2>4. next \in 1..Len(d.files)
    BY <2>2, <2>3
  <2>5. file \in PropertyFiles
    BY <1>3, <2>1, <2>4
  <2>6. /\ file.value \in FileValues /\ budget' \in Nat
        /\ o \in FileKinds \/ (o = "unread" /\ ~Opened(d, next))
    <3>1. CASE Opened(d, next)
      BY <1>2, <2>1, <2>2, <2>5, <3>1, ReadIsPaid
    <3>2. CASE ~Opened(d, next)
      BY <1>2, <2>1, <2>2, <2>5, <3>2 DEF PropertyFiles, FileValues
    <3> QED BY <3>1, <3>2
  <2>7. PICK r : r = [outcome |-> o, value |-> file.value]
    OBVIOUS
  <2>8. r \in Passed /\ (d.index.kind # "ok" => r \in Outcomes) /\ r.outcome = o
    BY <2>6, <2>7 DEF Passed, Outcomes, Opened
  <2>9. /\ reads' \in Seq(Passed) /\ Len(reads') = next
        /\ d.index.kind # "ok" => reads' \in Seq(Outcomes)
        /\ \A i \in 1..Len(reads) : reads'[i] = reads[i]
        /\ reads'[next] = r
    BY <1>2, <2>2, <2>3, <2>7, <2>8
  <2>10. OpenedOnly(d, reads')
    <3> SUFFICES ASSUME d.index.kind = "ok", NEW i \in 1..Len(reads'), reads'[i].outcome # "unread"
                 PROVE  Opened(d, i)
      BY DEF OpenedOnly
    <3>1. i \in 1..Len(reads) \/ i = next
      BY <2>3, <2>9
    <3>2. CASE i \in 1..Len(reads)
      BY <1>2, <2>9, <3>2 DEF OpenedOnly
    <3>3. CASE i = next
      BY <2>1, <2>8, <2>9, <3>3
    <3> QED BY <3>1, <3>2, <3>3
  <2> QED BY <1>2, <1>4, <2>2, <2>6, <2>9, <2>10 DEF FilesInv
<1>7. CASE FilesRead
  <2>1. /\ stage = "files" /\ stage' = "over" /\ reads' = reads /\ budget' = budget
        /\ fact' = IF d.index.kind = "ok" THEN ContextStatus(d, reads)
                   ELSE FallbackStatus(reads)
    BY <1>1, <1>7 DEF FilesRead
  <2>2. FilesSay(d, reads, fact')
    <3>1. CASE d.index.kind = "ok"
      <4>1. Len(d.files) \in Nat
        BY <1>3
      <4> QED BY <1>2, <1>3, <2>1, <3>1, <4>1, ContextSays
    <3>2. CASE d.index.kind # "ok"
      BY <1>2, <2>1, <3>2, FallbackSays
    <3> QED BY <3>1, <3>2
  <2> QED BY <1>2, <1>4, <2>1, <2>2 DEF FilesInv
<1>8. CASE UNCHANGED readingVars
  <2>1. stage' = stage /\ reads' = reads /\ budget' = budget /\ fact' = fact
    BY <1>8 DEF readingVars
  <2> QED BY <1>2, <1>4, <2>1 DEF FilesInv
<1>9. CASE Walk \/ Walked \/ Survey \/ Collect
  BY <1>2, <1>9 DEF Walk, Walked, Survey, Collect
<1> QED
  BY <1>5, <1>6, <1>7, <1>8, <1>9 DEF ReadingsNext

(* The collector starts with its whole budget.                             *)
LEMMA FilesStart ==
  ASSUME NEW devices, \A d \in devices : IsDevice(d), ReadingsInit(devices)
  PROVE  FilesInv
<1>1. <<>> \in Seq(Outcomes) /\ <<>> \in Seq(Passed) /\ \A i : i \notin 1..Len(<<>>)
  OBVIOUS
<1>2. \A d : OpenedOnly(d, <<>>)
  BY <1>1 DEF OpenedOnly
<1> QED
  BY <1>1, <1>2 DEF ReadingsInit, FilesInv, TotalCap

(* The invariant says what FilesExact promises.                            *)
LEMMA FilesInvExact == FilesInv => FilesExact
<1> SUFFICES ASSUME FilesInv, stage = "over", device.kind = "files" PROVE FilesExact
  BY DEF FilesExact
<1>1. budget >= 0 /\ FilesSay(device, reads, fact)
  BY DEF FilesInv
<1> QED
  BY <1>1 DEF FilesSay, FilesExact
-----------------------------------------------------------------------------
(***************************************************************************)
(* HardwareReadings: the execution surface.                                *)
(***************************************************************************)

(* What SurveyExact asks of a survey f of a device d.                      *)
SurveySays(d, f) ==
  \A x \in {"v4", "v6"} :
    (f.egress[x] = "success") = (d.url /\ d.resolved /\ x \in d.addresses /\ d.request[x] = "204")

(* A family succeeds by its own request alone.                             *)
LEMMA EgressSays ==
  ASSUME NEW d, NEW x \in {"v4", "v6"}
  PROVE  (Egress(d)[x] = "success") = (d.url /\ d.resolved /\ x \in d.addresses /\ d.request[x] = "204")
<1>1. Egress(d)[x] = IF ~d.url THEN "internal_error" ELSE IF ~d.resolved THEN "dns_failed" ELSE Family(d, x)
  BY DEF Egress
<1>2. (RequestOutcome(d.request[x]) = "success") = (d.request[x] = "204")
  BY DEF RequestOutcome
<1>3. (Family(d, x) = "success") = (x \in d.addresses /\ d.request[x] = "204")
  BY <1>2 DEF Family
<1> QED
  BY <1>1, <1>3

(* A survey is made in one step.                                           *)
SurveyInv ==
  device.kind = "surface" =>
    stage \in {"surface", "over"} /\ (stage = "over" => SurveySays(device, fact))

(* SurveyInv is inductive.                                                 *)
LEMMA SurveysKeep == SurveyInv /\ [ReadingsNext]_readingVars => SurveyInv'
<1> SUFFICES ASSUME SurveyInv, [ReadingsNext]_readingVars, device.kind = "surface" PROVE SurveyInv'
  BY DEF SurveyInv, ReadingsNext, ReadIndex, ReadFile, FilesRead, Walk, Walked, Survey, Collect, readingVars
<1>1. PICK d : d = device
  OBVIOUS
<1>2. device' = d
  BY <1>1 DEF ReadingsNext, ReadIndex, ReadFile, FilesRead, Walk, Walked, Survey, Collect, readingVars
<1>3. stage \in {"surface", "over"} /\ (stage = "over" => SurveySays(d, fact))
  BY <1>1 DEF SurveyInv
<1>4. CASE Survey
  <2>1. fact'.egress = Egress(d) /\ stage' = "over"
    BY <1>1, <1>4 DEF Survey
  <2>2. SurveySays(d, fact')
    BY <2>1, EgressSays DEF SurveySays
  <2> QED BY <1>2, <2>1, <2>2 DEF SurveyInv
<1>5. CASE UNCHANGED readingVars
  <2>1. stage' = stage /\ fact' = fact
    BY <1>5 DEF readingVars
  <2> QED BY <1>2, <1>3, <2>1 DEF SurveyInv
<1>6. CASE ReadIndex \/ ReadFile \/ FilesRead \/ Walk \/ Walked \/ Collect
  BY <1>3, <1>6 DEF ReadIndex, ReadFile, FilesRead, Walk, Walked, Collect
<1> QED
  BY <1>4, <1>5, <1>6 DEF ReadingsNext

(* The invariant says what SurveyExact promises.                           *)
LEMMA SurveyInvExact == SurveyInv => SurveyExact
  BY DEF SurveyInv, SurveyExact, SurveySays
-----------------------------------------------------------------------------
(***************************************************************************)
(* HardwareReadings: cpu lists.                                            *)
(***************************************************************************)
Pairs == Nat \X Nat

(* A list names cpus, and one that is well formed names some.              *)
LEMMA CpusListed ==
  ASSUME NEW tokens \in Seq(Cpus \X Cpus)
  PROVE  /\ Cardinality(Cpus) \in Nat /\ Cpus = 0..(Cardinality(Cpus) - 1)
         /\ ListedCpus(tokens) \subseteq Cpus
         /\ ~CpuListBad(tokens) => ListedCpus(tokens) # {}
<1> DEFINE N == Cardinality(Cpus)
<1>1. N \in Nat /\ Cpus = 0..(N - 1)
  BY ReadingsAssumption, FS_CardinalityType
<1>2. Len(tokens) \in Nat /\ \A i \in 1..Len(tokens) : tokens[i] \in Cpus \X Cpus
  OBVIOUS
<1> HIDE DEF N
<1>3. \A t \in Cpus \X Cpus : t[1]..t[2] \subseteq Cpus
  BY <1>1
<1>4. ListedCpus(tokens) \subseteq Cpus
  BY <1>2, <1>3 DEF ListedCpus
<1>5. ASSUME ~CpuListBad(tokens) PROVE ListedCpus(tokens) # {}
  <2>1. 1 \in 1..Len(tokens)
    BY <1>2, <1>5 DEF CpuListBad
  <2>2. tokens[1] \in Cpus \X Cpus /\ ~(tokens[1][2] < tokens[1][1])
    BY <1>2, <1>5, <2>1 DEF CpuListBad
  <2>3. tokens[1][1] \in tokens[1][1]..tokens[1][2]
    BY <1>1, <2>2
  <2> QED BY <2>1, <2>3 DEF ListedCpus
<1> QED
  BY <1>1, <1>4, <1>5 DEF N

(* Q is R with c at the end of its last range, or in a range of its own.   *)
Joined(R, c, Q) ==
  Len(Q) = Len(R) /\ \A k \in 1..Len(R) : Q[k] = IF k = Len(R) THEN <<R[k][1], c>> ELSE R[k]
Begun(R, c, Q) ==
  Len(Q) = Len(R) + 1 /\ \A k \in 1..(Len(R) + 1) : Q[k] = IF k = Len(R) + 1 THEN <<c, c>> ELSE R[k]

(* One cpu extends the last range or opens one.                            *)
LEMMA RangeExtends ==
  ASSUME NEW R \in Seq(Pairs), NEW c \in Nat
  PROVE  /\ ExtendRange(R, c) \in Seq(Pairs)
         /\ IF R # <<>> /\ R[Len(R)][2] + 1 = c
            THEN Joined(R, c, ExtendRange(R, c)) ELSE Begun(R, c, ExtendRange(R, c))
<1>1. Len(R) \in Nat /\ (\A k \in 1..Len(R) : R[k] \in Pairs) /\ <<c, c>> \in Pairs
  BY DEF Pairs
<1>2. CASE R # <<>> /\ R[Len(R)][2] + 1 = c
  <2>1. PICK v : v = <<R[Len(R)][1], c>>
    OBVIOUS
  <2>2. Len(R) \in 1..Len(R)
    BY <1>1, <1>2
  <2>3. v \in Pairs
    BY <1>1, <2>1, <2>2 DEF Pairs
  <2>4. ExtendRange(R, c) = [R EXCEPT ![Len(R)] = v]
    BY <1>2, <2>1 DEF ExtendRange
  <2>5. /\ [R EXCEPT ![Len(R)] = v] \in Seq(Pairs) /\ Len([R EXCEPT ![Len(R)] = v]) = Len(R)
        /\ \A k \in 1..Len(R) : [R EXCEPT ![Len(R)] = v][k] = IF k = Len(R) THEN v ELSE R[k]
    BY <2>2, <2>3, ExceptSeq
  <2> QED BY <1>2, <2>1, <2>4, <2>5 DEF Joined
<1>3. CASE ~(R # <<>> /\ R[Len(R)][2] + 1 = c)
  <2>1. ExtendRange(R, c) = Append(R, <<c, c>>)
    BY <1>3 DEF ExtendRange
  <2>2. PICK v : v = <<c, c>>
    OBVIOUS
  <2>3. /\ Append(R, v) \in Seq(Pairs) /\ Len(Append(R, v)) = Len(R) + 1
        /\ \A k \in 1..(Len(R) + 1) : Append(R, v)[k] = IF k = Len(R) + 1 THEN v ELSE R[k]
    <3>1. v \in Pairs
      BY <1>1, <2>2
    <3> QED BY <1>1, <3>1, AppendProperties
  <2> QED BY <1>3, <2>1, <2>2, <2>3 DEF Begun
<1> QED
  BY <1>2, <1>3

(* RangesBelow is the loop of parse_cpu_list.                              *)
LEMMA RangesLoop ==
  ASSUME NEW tokens \in Seq(Cpus \X Cpus)
  PROVE  /\ RangesBelow(tokens)[0] = <<>>
         /\ \A i \in 1..Cardinality(Cpus) :
              RangesBelow(tokens)[i] = IF i - 1 \in ListedCpus(tokens)
                                       THEN ExtendRange(RangesBelow(tokens)[i - 1], i - 1)
                                       ELSE RangesBelow(tokens)[i - 1]
<1> DEFINE n == Cardinality(Cpus)
           S == Seq(Pairs)
           b == <<>>
           next(i, s) == IF i - 1 \in ListedCpus(tokens) THEN ExtendRange(s, i - 1) ELSE s
           P(f) == f = [i \in 0..n |-> IF i = 0 THEN b
                                       ELSE IF i - 1 \in ListedCpus(tokens) THEN ExtendRange(f[i - 1], i - 1)
                                       ELSE f[i - 1]]
           t == [p \in (1..n) \X S |-> next(p[1], p[2])]
<1>1. n \in Nat
  BY CpusListed
<1>2. RangesBelow(tokens) = CHOOSE f : P(f)
  BY Zenon DEF RangesBelow
<1>3. t \in [(1..n) \X S -> S] /\ b \in S
  <2>1. \A i \in 1..n : i - 1 \in Nat
    BY <1>1
  <2>2. \A i \in 1..n : \A s \in S : next(i, s) \in S
    BY <2>1, RangeExtends
  <2> HIDE DEF next, S
  <2>3. t \in [(1..n) \X S -> S]
    BY <2>2
  <2> QED BY <2>3 DEF S
<1>4. \A i \in 1..n : \A s \in S : t[<<i, s>>] = next(i, s)
  OBVIOUS
<1> HIDE DEF n, t, S, b, next
<1>5. PICK f : TurnsIn(f, n, S, b, t)
  BY <1>1, <1>3, TurnsHold
<1>6. P(f)
  <2>1. \A i \in 0..n : i # 0 => i \in 1..n /\ i - 1 \in 0..n
    BY <1>1
  <2>2. \A i \in 0..n : f[i] = IF i = 0 THEN b ELSE next(i, f[i - 1])
    BY <1>4, <1>5, <2>1 DEF TurnsIn
  <2> QED BY <1>5, <2>2 DEF next, TurnsIn
<1>7. P(RangesBelow(tokens))
  <2> HIDE DEF P
  <2> QED BY <1>2, <1>6, Zenon
<1>8. \A i \in 0..n : RangesBelow(tokens)[i] = IF i = 0 THEN b ELSE next(i, RangesBelow(tokens)[i - 1])
  BY <1>7 DEF next
<1>9. 0 \in 0..n /\ \A i \in 1..n : i \in 0..n /\ i # 0
  BY <1>1
<1> QED
  BY <1>8, <1>9 DEF n, b, next

(* The ranges of the cpus of S below i: in order, apart from one another,  *)
(* and none of them can be made longer but the last one with i.            *)
Ranged(R, S, i) ==
  /\ R \in Seq(Pairs)
  /\ \A k \in 1..Len(R) :
       /\ R[k][1] <= R[k][2] /\ R[k][2] < i /\ R[k][1]..R[k][2] \subseteq S
       /\ R[k][1] - 1 \notin S /\ (R[k][2] + 1 < i => R[k][2] + 1 \notin S)
       /\ R[1][1] <= R[k][1]
  /\ \A k \in 1..(Len(R) - 1) : R[k][2] + 1 < R[k + 1][1]
  /\ \A c \in S : c < i => \E k \in 1..Len(R) : c \in R[k][1]..R[k][2]

(* A cpu that is not listed changes nothing.                               *)
LEMMA RangedPast ==
  ASSUME NEW R, NEW S, S \subseteq Nat, NEW i \in Nat, Ranged(R, S, i), i \notin S
  PROVE  Ranged(R, S, i + 1)
<1>1. Len(R) \in Nat /\ \A k \in 1..Len(R) : R[k][1] \in Nat /\ R[k][2] \in Nat
  <2>1. R \in Seq(Pairs)
    BY DEF Ranged
  <2>2. Len(R) \in Nat /\ \A k \in 1..Len(R) : R[k] \in Pairs
    BY <2>1
  <2> QED BY <2>2 DEF Pairs
<1>2. ASSUME NEW k \in 1..Len(R)
      PROVE  R[k][2] < i + 1 /\ (R[k][2] + 1 < i + 1 => R[k][2] + 1 \notin S)
  BY <1>1 DEF Ranged
<1>3. \A c \in S : c < i + 1 => c < i
  OBVIOUS
<1> QED
  BY <1>2, <1>3 DEF Ranged

(* A cpu next to the last range joins it.                                  *)
LEMMA RangedJoins ==
  ASSUME NEW R, NEW S, S \subseteq Nat, NEW i \in S, Ranged(R, S, i),
         R # <<>>, R[Len(R)][2] + 1 = i
  PROVE  Ranged(ExtendRange(R, i), S, i + 1)
<1>1. PICK Q : Q = ExtendRange(R, i)
  OBVIOUS
<1>2. R \in Seq(Pairs) /\ i \in Nat
  BY DEF Ranged
<1>3. PICK L : L = Len(R)
  OBVIOUS
<1>4. /\ Q \in Seq(Pairs) /\ Len(Q) = L /\ L \in Nat /\ L \in 1..L
      /\ \A k \in 1..L : Q[k] = IF k = L THEN <<R[k][1], i>> ELSE R[k]
      /\ \A k \in 1..L : R[k][1] \in Nat /\ R[k][2] \in Nat
  <2>1. Len(R) \in Nat /\ (\A k \in 1..Len(R) : R[k] \in Pairs)
    BY <1>2
  <2>2. L \in 1..L
    BY <1>2, <1>3, <2>1
  <2>3. Q \in Seq(Pairs) /\ Len(Q) = L
        /\ \A k \in 1..L : Q[k] = IF k = L THEN <<R[k][1], i>> ELSE R[k]
    <3>1. Q \in Seq(Pairs) /\ Joined(R, i, Q)
      BY <1>1, <1>2, RangeExtends
    <3> QED BY <1>3, <3>1 DEF Joined
  <2> QED BY <1>3, <2>1, <2>2, <2>3 DEF Pairs
<1>5. /\ \A k \in 1..L : Q[k][1] = R[k][1]
      /\ \A k \in 1..L : k # L => Q[k][2] = R[k][2]
      /\ Q[L][2] = i /\ R[L][2] + 1 = i
  <2>1. R[L][2] + 1 = i
    BY <1>3
  <2>2. L \in 1..L
    BY <1>4
  <2>3. Q[L] = <<R[L][1], i>> /\ \A k \in 1..L : k # L => Q[k] = R[k]
    BY <1>4, <2>2
  <2>4. Q[L][1] = R[L][1] /\ Q[L][2] = i
    BY <2>3
  <2> QED BY <2>1, <2>3, <2>4
<1>6. /\ \A k \in 1..L : /\ R[k][1] <= R[k][2] /\ R[k][2] < i /\ R[k][1]..R[k][2] \subseteq S
                         /\ R[k][1] - 1 \notin S /\ (R[k][2] + 1 < i => R[k][2] + 1 \notin S)
                         /\ R[1][1] <= R[k][1]
      /\ \A k \in 1..(L - 1) : R[k][2] + 1 < R[k + 1][1]
      /\ \A c \in S : c < i => \E k \in 1..L : c \in R[k][1]..R[k][2]
  BY <1>3 DEF Ranged
<1>7. ASSUME NEW k \in 1..L
      PROVE  /\ Q[k][1] <= Q[k][2] /\ Q[k][2] < i + 1 /\ Q[k][1]..Q[k][2] \subseteq S
             /\ Q[k][1] - 1 \notin S /\ (Q[k][2] + 1 < i + 1 => Q[k][2] + 1 \notin S)
             /\ Q[1][1] <= Q[k][1]
  <2>1. 1 \in 1..L
    BY <1>4
  <2>2. Q[1][1] <= Q[k][1] /\ Q[k][1] - 1 \notin S
    BY <1>5, <1>6, <2>1
  <2>3. CASE k = L
    <3>1. R[L][1]..R[L][2] \subseteq S /\ R[L][1] <= R[L][2]
      BY <1>4, <1>6
    <3>2. \A c \in R[L][1]..i : c = i \/ c \in R[L][1]..R[L][2]
      BY <1>2, <1>4, <1>5
    <3>3. Q[k][1]..Q[k][2] \subseteq S
      BY <1>5, <2>3, <3>1, <3>2
    <3> QED BY <1>2, <1>4, <1>5, <2>2, <2>3, <3>1, <3>3
  <2>4. CASE k # L
    <3>1. k \in 1..(L - 1) /\ k + 1 \in 1..L
      BY <1>4, <2>4
    <3>2. R[k][2] + 1 < R[k + 1][1] /\ R[k + 1][1] <= R[k + 1][2] /\ R[k + 1][2] < i
      BY <1>6, <3>1
    <3>3. R[k][2] + 1 < i
      <4>1. PICK x, y, z : x = R[k][2] /\ y = R[k + 1][1] /\ z = R[k + 1][2]
        OBVIOUS
      <4>2. x \in Nat /\ y \in Nat /\ z \in Nat
        BY <1>4, <3>1, <4>1
      <4>3. x + 1 < y /\ y <= z /\ z < i
        BY <3>2, <4>1
      <4>4. x + 1 < i
        BY <1>2, <4>2, <4>3
      <4> QED BY <4>1, <4>4
    <3> QED BY <1>2, <1>4, <1>5, <1>6, <2>2, <2>4, <3>3
  <2> QED BY <2>3, <2>4
<1>8. ASSUME NEW k \in 1..(L - 1) PROVE Q[k][2] + 1 < Q[k + 1][1]
  <2>1. k \in 1..L /\ k # L /\ k + 1 \in 1..L
    BY <1>4
  <2> QED BY <1>5, <1>6, <2>1
<1>9. ASSUME NEW c \in S, c < i + 1 PROVE \E k \in 1..L : c \in Q[k][1]..Q[k][2]
  <2>1. CASE c = i
    <3>1. i \in Q[L][1]..Q[L][2]
      <4>1. L \in 1..L
        BY <1>4
      <4>2. R[L][1] <= R[L][2] /\ R[L][1] \in Nat /\ R[L][2] \in Nat /\ Q[L][1] = R[L][1]
        BY <1>4, <1>5, <1>6, <4>1
      <4> QED BY <1>2, <1>5, <4>2
    <3> QED BY <1>4, <2>1, <3>1
  <2>2. CASE c # i
    <3>1. PICK k \in 1..L : c \in R[k][1]..R[k][2]
      BY <1>2, <1>6, <1>9, <2>2
    <3>2. c \in Q[k][1]..Q[k][2]
      BY <1>2, <1>4, <1>5, <3>1
    <3> QED BY <3>2
  <2> QED BY <2>1, <2>2
<1> QED
  BY <1>1, <1>4, <1>7, <1>8, <1>9 DEF Ranged

(* Any other opens a range of its own.                                     *)
LEMMA RangedOpens ==
  ASSUME NEW R, NEW S, S \subseteq Nat, NEW i \in S, Ranged(R, S, i),
         ~(R # <<>> /\ R[Len(R)][2] + 1 = i)
  PROVE  Ranged(ExtendRange(R, i), S, i + 1)
<1>1. PICK Q : Q = ExtendRange(R, i)
  OBVIOUS
<1>2. R \in Seq(Pairs) /\ i \in Nat
  BY DEF Ranged
<1>3. PICK L : L = Len(R)
  OBVIOUS
<1>4. /\ Q \in Seq(Pairs) /\ Len(Q) = L + 1 /\ L \in Nat
      /\ \A k \in 1..(L + 1) : Q[k] = IF k = L + 1 THEN <<i, i>> ELSE R[k]
      /\ \A k \in 1..L : R[k][1] \in Nat /\ R[k][2] \in Nat
  <2>1. Len(R) \in Nat /\ (\A k \in 1..Len(R) : R[k] \in Pairs)
    BY <1>2
  <2>2. Q \in Seq(Pairs) /\ Len(Q) = L + 1
        /\ \A k \in 1..(L + 1) : Q[k] = IF k = L + 1 THEN <<i, i>> ELSE R[k]
    <3>1. Q \in Seq(Pairs) /\ Begun(R, i, Q)
      BY <1>1, <1>2, RangeExtends
    <3> QED BY <1>3, <3>1 DEF Begun
  <2> QED BY <1>3, <2>1, <2>2 DEF Pairs
<1>5. /\ \A k \in 1..L : Q[k] = R[k]
      /\ Q[L + 1][1] = i /\ Q[L + 1][2] = i
  <2>1. L + 1 \in 1..(L + 1) /\ \A k \in 1..L : k \in 1..(L + 1) /\ k # L + 1
    BY <1>4
  <2> QED BY <1>4, <2>1
<1>6. /\ \A k \in 1..L : /\ R[k][1] <= R[k][2] /\ R[k][2] < i /\ R[k][1]..R[k][2] \subseteq S
                         /\ R[k][1] - 1 \notin S /\ (R[k][2] + 1 < i => R[k][2] + 1 \notin S)
                         /\ R[1][1] <= R[k][1]
      /\ \A k \in 1..(L - 1) : R[k][2] + 1 < R[k + 1][1]
      /\ \A c \in S : c < i => \E k \in 1..L : c \in R[k][1]..R[k][2]
  BY <1>3 DEF Ranged
<1>7. ASSUME NEW k \in 1..L PROVE R[k][2] + 1 < i
  <2>1. CASE k = L
    <3>1. R # <<>>
      BY <1>2, <1>3, <1>4
    <3> QED BY <1>2, <1>3, <1>4, <1>6, <2>1, <3>1
  <2>2. CASE k # L
    <3>1. k \in 1..(L - 1) /\ k + 1 \in 1..L
      BY <1>4, <2>2
    <3>2. R[k][2] + 1 < R[k + 1][1] /\ R[k + 1][1] <= R[k + 1][2] /\ R[k + 1][2] < i
      BY <1>6, <3>1
    <3>3. PICK x, y, z : x = R[k][2] /\ y = R[k + 1][1] /\ z = R[k + 1][2]
      OBVIOUS
    <3>4. x \in Nat /\ y \in Nat /\ z \in Nat
      BY <1>4, <3>1, <3>3
    <3>5. x + 1 < y /\ y <= z /\ z < i
      BY <3>2, <3>3
    <3>6. x + 1 < i
      BY <1>2, <3>4, <3>5
    <3> QED BY <3>3, <3>6
  <2> QED BY <2>1, <2>2
<1>8. i - 1 \notin S
  <2> SUFFICES ASSUME i - 1 \in S PROVE FALSE
    OBVIOUS
  <2>1. i - 1 < i
    BY <1>2
  <2>2. PICK k \in 1..L : i - 1 \in R[k][1]..R[k][2]
    BY <1>6, <2>1
  <2> QED BY <1>2, <1>4, <1>7, <2>2
<1>9. ASSUME NEW k \in 1..(L + 1)
      PROVE  /\ Q[k][1] <= Q[k][2] /\ Q[k][2] < i + 1 /\ Q[k][1]..Q[k][2] \subseteq S
             /\ Q[k][1] - 1 \notin S /\ (Q[k][2] + 1 < i + 1 => Q[k][2] + 1 \notin S)
             /\ Q[1][1] <= Q[k][1]
  <2>1. CASE k = L + 1
    <3>1. i..i \subseteq S
      BY <1>2
    <3>2. Q[1][1] <= i
      <4>1. CASE L = 0
        BY <1>2, <1>5, <4>1
      <4>2. CASE L # 0
        <5>1. 1 \in 1..L
          BY <1>4, <4>2
        <5>2. R[1][1] <= R[1][2] /\ R[1][2] < i /\ Q[1] = R[1]
          BY <1>5, <1>6, <5>1
        <5> QED BY <1>2, <1>4, <5>1, <5>2
      <4> QED BY <4>1, <4>2
    <3> QED BY <1>2, <1>5, <1>8, <2>1, <3>1, <3>2
  <2>2. CASE k # L + 1
    <3>1. k \in 1..L /\ 1 \in 1..L
      BY <1>4, <2>2
    <3>2. Q[k] = R[k] /\ Q[1] = R[1] /\ R[k][2] + 1 < i
      BY <1>5, <1>7, <3>1
    <3> QED BY <1>2, <1>4, <1>6, <3>1, <3>2
  <2> QED BY <2>1, <2>2
<1>10. ASSUME NEW k \in 1..(L + 1 - 1) PROVE Q[k][2] + 1 < Q[k + 1][1]
  <2>1. k \in 1..L
    BY <1>4
  <2>2. CASE k = L
    BY <1>5, <1>7, <2>1, <2>2
  <2>3. CASE k # L
    <3>1. k \in 1..(L - 1) /\ k + 1 \in 1..L
      BY <1>4, <2>1, <2>3
    <3> QED BY <1>5, <1>6, <2>1, <3>1
  <2> QED BY <2>2, <2>3
<1>11. ASSUME NEW c \in S, c < i + 1 PROVE \E k \in 1..(L + 1) : c \in Q[k][1]..Q[k][2]
  <2>1. CASE c = i
    <3>1. i \in Q[L + 1][1]..Q[L + 1][2] /\ L + 1 \in 1..(L + 1)
      BY <1>2, <1>4, <1>5
    <3> QED BY <2>1, <3>1
  <2>2. CASE c # i
    <3>1. PICK k \in 1..L : c \in R[k][1]..R[k][2]
      BY <1>2, <1>6, <1>11, <2>2
    <3>2. c \in Q[k][1]..Q[k][2] /\ k \in 1..(L + 1)
      BY <1>4, <1>5, <3>1
    <3> QED BY <3>2
  <2> QED BY <2>1, <2>2
<1> QED
  BY <1>1, <1>4, <1>9, <1>10, <1>11 DEF Ranged

(* So the loop ends with the ranges of all the cpus listed.                *)
LEMMA CpusRanged ==
  ASSUME NEW tokens \in Seq(Cpus \X Cpus)
  PROVE  Ranged(CpuRanges(tokens), ListedCpus(tokens), Cardinality(Cpus))
<1> DEFINE N == Cardinality(Cpus)
           S == ListedCpus(tokens)
           R == RangesBelow(tokens)
           T == {i \in 0..N : Ranged(R[i], S, i)}
<1>1. N \in Nat /\ S \subseteq Nat
  BY CpusListed
<1>2. R[0] = <<>> /\ \A i \in 1..N : R[i] = IF i - 1 \in S THEN ExtendRange(R[i - 1], i - 1) ELSE R[i - 1]
  BY RangesLoop
<1>3. 0 \in 0..N /\ N \in 0..N
  BY <1>1
<1> HIDE DEF N, S, R
<1>4. 0 \in T
  <2>1. Ranged(<<>>, S, 0)
    BY <1>1 DEF Ranged
  <2> QED BY <1>2, <1>3, <2>1
<1>5. ASSUME NEW i \in 1..N, i - 1 \in T PROVE i \in T
  <2>1. PICK c, Q : c = i - 1 /\ Q = R[i - 1]
    OBVIOUS
  <2>2. c \in Nat /\ i = c + 1 /\ i \in 0..N /\ Ranged(Q, S, c)
    BY <1>1, <1>5, <2>1
  <2>3. Ranged(IF c \in S THEN ExtendRange(Q, c) ELSE Q, S, c + 1)
    BY <1>1, <2>2, RangedPast, RangedJoins, RangedOpens
  <2> QED BY <1>2, <2>1, <2>2, <2>3
<1> HIDE DEF T
<1>6. N \in T
  BY <1>1, <1>3, <1>4, <1>5, Upward
<1> QED
  BY <1>6 DEF T, N, S, R, CpuRanges

(* What ReadingExact asks of the ranges R of cpus S, and of their first.   *)
RangesSay(S, R, first) ==
  /\ {R[i] : i \in 1..Len(R)}
       = {r \in Cpus \X Cpus : /\ r[1] <= r[2] /\ r[1]..r[2] \subseteq S
                               /\ r[1] - 1 \notin S /\ r[2] + 1 \notin S}
  /\ \A i \in 1..(Len(R) - 1) : R[i][2] < R[i + 1][1]
  /\ first = R[1][1]

(* They are the maximal ranges, in order, and the first cpu starts them.   *)
LEMMA RangesMaximal ==
  ASSUME NEW tokens \in Seq(Cpus \X Cpus), ~CpuListBad(tokens), NEW number
  PROVE  RangesSay(ListedCpus(tokens), CpuRanges(tokens), PolicyCpu(number, tokens))
<1>1. PICK S, R, N : S = ListedCpus(tokens) /\ R = CpuRanges(tokens) /\ N = Cardinality(Cpus)
  OBVIOUS
<1>2. /\ N \in Nat /\ Cpus = 0..(N - 1) /\ S \subseteq Cpus /\ S # {} /\ Ranged(R, S, N)
  BY <1>1, CpusListed, CpusRanged
<1>3. /\ \A k \in 1..Len(R) : /\ R[k][1] <= R[k][2] /\ R[k][2] < N /\ R[k][1]..R[k][2] \subseteq S
                              /\ R[k][1] - 1 \notin S /\ (R[k][2] + 1 < N => R[k][2] + 1 \notin S)
                              /\ R[1][1] <= R[k][1]
      /\ \A k \in 1..(Len(R) - 1) : R[k][2] + 1 < R[k + 1][1]
      /\ \A c \in S : c < N => \E k \in 1..Len(R) : c \in R[k][1]..R[k][2]
      /\ R \in Seq(Pairs)
  BY <1>2 DEF Ranged
<1>4. Len(R) \in Nat /\ \A k \in 1..Len(R) : R[k] \in Pairs
  BY <1>3
<1>5. \A k \in 1..Len(R) : R[k][1] \in Nat /\ R[k][2] \in Nat /\ R[k] = <<R[k][1], R[k][2]>>
  BY <1>4 DEF Pairs
<1>6. \A c \in S : \E k \in 1..Len(R) : c \in R[k][1]..R[k][2]
  <2>1. \A c \in S : c < N
    BY <1>2
  <2> QED BY <1>3, <2>1
<1> DEFINE Maximal == {r \in Cpus \X Cpus : /\ r[1] <= r[2] /\ r[1]..r[2] \subseteq S
                                            /\ r[1] - 1 \notin S /\ r[2] + 1 \notin S}
<1>7. ASSUME NEW k \in 1..Len(R) PROVE R[k] \in Maximal
  <2>1. PICK a, b : a = R[k][1] /\ b = R[k][2]
    OBVIOUS
  <2>2. /\ a \in Nat /\ b \in Nat /\ a <= b /\ b < N /\ a..b \subseteq S
        /\ a - 1 \notin S /\ (b + 1 < N => b + 1 \notin S) /\ R[k] = <<a, b>>
    BY <1>3, <1>5, <2>1
  <2>3. b + 1 \notin S
    BY <1>2, <2>2
  <2>4. a \in Cpus /\ b \in Cpus
    BY <1>2, <2>2
  <2>5. <<a, b>> \in Maximal
    BY <2>2, <2>3, <2>4
  <2> QED BY <2>2, <2>5
<1>8. ASSUME NEW r \in Maximal PROVE \E k \in 1..Len(R) : r = R[k]
  <2>1. PICK a, b : a = r[1] /\ b = r[2]
    OBVIOUS
  <2>2. /\ a \in Cpus /\ b \in Cpus /\ r = <<a, b>> /\ a <= b /\ a..b \subseteq S
        /\ a - 1 \notin S /\ b + 1 \notin S
    BY <2>1
  <2>3. a \in Nat /\ b \in Nat /\ a \in S
    BY <1>2, <2>2
  <2>4. PICK k \in 1..Len(R) : a \in R[k][1]..R[k][2]
    BY <1>6, <2>3
  <2>5. PICK x, y : x = R[k][1] /\ y = R[k][2]
    OBVIOUS
  <2>6. x \in Nat /\ y \in Nat /\ R[k] = <<x, y>> /\ x..y \subseteq S /\ y < N
        /\ (y + 1 < N => y + 1 \notin S) /\ x <= a /\ a <= y
    BY <1>3, <1>5, <2>3, <2>4, <2>5
  <2>7. x = a
    <3>1. x < a => a - 1 \in x..y
      BY <2>3, <2>6
    <3> QED BY <2>2, <2>3, <2>6, <3>1
  <2>8. ~(b < y)
    <3>1. b < y => b + 1 \in x..y
      BY <2>2, <2>3, <2>6
    <3> QED BY <2>2, <2>6, <3>1
  <2>9. ~(y < b)
    <3>1. y < b => y + 1 \in a..b
      BY <2>2, <2>3, <2>6
    <3>2. y < b => y + 1 \in S
      BY <2>2, <3>1
    <3>3. y < b => y + 1 < N
      BY <1>2, <2>2, <2>3, <2>6
    <3> QED BY <2>6, <3>2, <3>3
  <2>10. y = b
    BY <2>3, <2>6, <2>8, <2>9
  <2> QED BY <2>2, <2>6, <2>7, <2>10
<1>9. {R[i] : i \in 1..Len(R)} = Maximal
  <2> HIDE DEF Maximal
  <2> QED BY <1>7, <1>8
<1>10. ASSUME NEW k \in 1..(Len(R) - 1) PROVE R[k][2] < R[k + 1][1]
  <2>1. k \in 1..Len(R) /\ k + 1 \in 1..Len(R)
    BY <1>4
  <2>2. R[k][2] \in Nat /\ R[k + 1][1] \in Nat /\ R[k][2] + 1 < R[k + 1][1]
    BY <1>3, <1>5, <2>1
  <2> QED BY <2>2
<1>11. PolicyCpu(number, tokens) = R[1][1]
  <2>1. PICK c \in S : TRUE
    BY <1>2
  <2>2. 1 \in 1..Len(R)
    <3>1. PICK k \in 1..Len(R) : c \in R[k][1]..R[k][2]
      BY <1>6
    <3> QED BY <1>4
  <2>3. PICK m : m = R[1][1]
    OBVIOUS
  <2>4. m \in R[1][1]..R[1][2] /\ m \in Nat
    BY <1>3, <1>5, <2>2, <2>3
  <2>5. m \in S
    BY <1>3, <2>2, <2>4
  <2>6. ASSUME NEW y \in S PROVE m <= y
    <3>1. PICK k \in 1..Len(R) : y \in R[k][1]..R[k][2]
      BY <1>6
    <3>2. m <= R[k][1] /\ R[k][1] \in Nat /\ y \in Nat
      BY <1>2, <1>3, <1>5, <2>3
    <3>3. R[k][1] <= y
      BY <1>5, <3>1, <3>2
    <3> QED BY <2>4, <3>2, <3>3
  <2>7. \A x \in S : (\A y \in S : x <= y) => x = m
    <3>1. \A x \in S : x \in Nat
      BY <1>2
    <3> QED BY <2>4, <2>5, <2>6, <3>1
  <2>8. m = CHOOSE x \in S : \A y \in S : x <= y
    BY <2>5, <2>6, <2>7
  <2>9. PolicyCpu(number, tokens) = CHOOSE x \in S : \A y \in S : x <= y
    BY <1>1 DEF PolicyCpu
  <2> QED BY <2>3, <2>8, <2>9
<1> QED
  BY <1>1, <1>9, <1>10, <1>11 DEF RangesSay
-----------------------------------------------------------------------------
(***************************************************************************)
(* HardwareReadings: caches.                                               *)
(***************************************************************************)
CacheKeys == Int \X Int \X Int \X Int \X Int

(* The keys are ordered one field after the other.                         *)
LEMMA KeyBeforeIs ==
  ASSUME NEW a, NEW b
  PROVE  KeyBefore(a, b) <=> \/ a[1] < b[1]
                             \/ a[1] = b[1] /\ a[2] < b[2]
                             \/ a[1] = b[1] /\ a[2] = b[2] /\ a[3] < b[3]
                             \/ a[1] = b[1] /\ a[2] = b[2] /\ a[3] = b[3] /\ a[4] < b[4]
                             \/ a[1] = b[1] /\ a[2] = b[2] /\ a[3] = b[3] /\ a[4] = b[4] /\ a[5] < b[5]
<1>1. 1..5 = {1, 2, 3, 4, 5}
  OBVIOUS
<1>2. /\ 1..(1 - 1) = {} /\ 1..(2 - 1) = {1} /\ 1..(3 - 1) = {1, 2} /\ 1..(4 - 1) = {1, 2, 3}
      /\ 1..(5 - 1) = {1, 2, 3, 4}
  OBVIOUS
<1>3. KeyBefore(a, b) <=> \/ a[1] < b[1] /\ \A j \in 1..(1 - 1) : a[j] = b[j]
                          \/ a[2] < b[2] /\ \A j \in 1..(2 - 1) : a[j] = b[j]
                          \/ a[3] < b[3] /\ \A j \in 1..(3 - 1) : a[j] = b[j]
                          \/ a[4] < b[4] /\ \A j \in 1..(4 - 1) : a[j] = b[j]
                          \/ a[5] < b[5] /\ \A j \in 1..(5 - 1) : a[j] = b[j]
  BY <1>1 DEF KeyBefore
<1> QED
  BY <1>2, <1>3

(* It is a strict total order: the first field that differs decides.       *)
LEMMA KeysOrdered ==
  ASSUME NEW a \in CacheKeys, NEW b \in CacheKeys, NEW c \in CacheKeys
  PROVE  /\ ~KeyBefore(a, a)
         /\ KeyBefore(a, b) /\ KeyBefore(b, c) => KeyBefore(a, c)
         /\ a # b => KeyBefore(a, b) \/ KeyBefore(b, a)
<1>1. \A k \in CacheKeys : k[1] \in Int /\ k[2] \in Int /\ k[3] \in Int /\ k[4] \in Int /\ k[5] \in Int
  BY DEF CacheKeys
<1>2. a[1] = b[1] /\ a[2] = b[2] /\ a[3] = b[3] /\ a[4] = b[4] /\ a[5] = b[5] => a = b
  BY DEF CacheKeys
<1>3. ~KeyBefore(a, a)
  BY <1>1, KeyBeforeIs
<1>4. KeyBefore(a, b) /\ KeyBefore(b, c) => KeyBefore(a, c)
  <2>1. PICK a1, a2, a3, a4, a5 : a1 = a[1] /\ a2 = a[2] /\ a3 = a[3] /\ a4 = a[4] /\ a5 = a[5]
    OBVIOUS
  <2>2. PICK b1, b2, b3, b4, b5 : b1 = b[1] /\ b2 = b[2] /\ b3 = b[3] /\ b4 = b[4] /\ b5 = b[5]
    OBVIOUS
  <2>3. PICK c1, c2, c3, c4, c5 : c1 = c[1] /\ c2 = c[2] /\ c3 = c[3] /\ c4 = c[4] /\ c5 = c[5]
    OBVIOUS
  <2>4. /\ a1 \in Int /\ a2 \in Int /\ a3 \in Int /\ a4 \in Int /\ a5 \in Int
        /\ b1 \in Int /\ b2 \in Int /\ b3 \in Int /\ b4 \in Int /\ b5 \in Int
        /\ c1 \in Int /\ c2 \in Int /\ c3 \in Int /\ c4 \in Int /\ c5 \in Int
    BY <1>1, <2>1, <2>2, <2>3
  <2>5. /\ KeyBefore(a, b) <=>
             a1 < b1 \/ (a1 = b1 /\ (a2 < b2 \/ (a2 = b2 /\ (a3 < b3 \/ (a3 = b3 /\ (a4 < b4 \/ (a4 = b4 /\ a5 < b5)))))))
        /\ KeyBefore(b, c) <=>
             b1 < c1 \/ (b1 = c1 /\ (b2 < c2 \/ (b2 = c2 /\ (b3 < c3 \/ (b3 = c3 /\ (b4 < c4 \/ (b4 = c4 /\ b5 < c5)))))))
        /\ KeyBefore(a, c) <=>
             a1 < c1 \/ (a1 = c1 /\ (a2 < c2 \/ (a2 = c2 /\ (a3 < c3 \/ (a3 = c3 /\ (a4 < c4 \/ (a4 = c4 /\ a5 < c5)))))))
    BY <2>1, <2>2, <2>3, KeyBeforeIs
  <2> QED BY <2>4, <2>5
<1>5. a # b => KeyBefore(a, b) \/ KeyBefore(b, a)
  BY <1>1, <1>2, KeyBeforeIs
<1> QED
  BY <1>3, <1>4, <1>5

(* Distinct ranks below the number of elements fill it from the bottom.    *)
LEMMA RanksFill ==
  ASSUME NEW F, IsFiniteSet(F), NEW rank \in [F -> Nat], NEW M \in Nat,
         \A i, j \in F : rank[i] = rank[j] => i = j,
         \A i \in F : rank[i] < Cardinality(F)
  PROVE  /\ \A r \in 0..(Cardinality(F) - 1) : \E i \in F : rank[i] = r
         /\ Cardinality({i \in F : rank[i] < M}) = IF Cardinality(F) < M THEN Cardinality(F) ELSE M
<1>1. PICK n : n = Cardinality(F)
  OBVIOUS
<1>2. n \in Nat
  BY <1>1, FS_CardinalityType
<1>3. \A m \in Nat : IsFiniteSet(0..(m - 1)) /\ Cardinality(0..(m - 1)) = m
  BY FS_Interval
<1>4. rank \in [F -> 0..(n - 1)]
  BY <1>1, <1>2
<1>5. rank \in Injection(F, 0..(n - 1))
  BY <1>4 DEF Injection, IsInjective
<1>6. rank \in Surjection(F, 0..(n - 1))
  BY <1>1, <1>2, <1>3, <1>5, FS_Injection
<1>7. \A r \in 0..(n - 1) : \E i \in F : rank[i] = r
  BY <1>6 DEF Surjection
<1> DEFINE K == {i \in F : rank[i] < M}
           m == IF n < M THEN n ELSE M
           h == [i \in K |-> rank[i]]
<1>8. m \in Nat /\ \A r \in 0..(m - 1) : r \in 0..(n - 1) /\ r < M
  BY <1>2
<1>9. \A i \in K : rank[i] \in 0..(m - 1)
  BY <1>1, <1>2
<1>10. h \in Injection(K, 0..(m - 1))
  <2>1. h \in [K -> 0..(m - 1)]
    BY <1>9
  <2> QED BY <2>1 DEF Injection, IsInjective
<1>11. h \in Surjection(K, 0..(m - 1))
  <2>1. h \in [K -> 0..(m - 1)]
    BY <1>9
  <2>2. ASSUME NEW r \in 0..(m - 1) PROVE \E i \in K : h[i] = r
    <3>1. PICK i \in F : rank[i] = r
      BY <1>7, <1>8
    <3>2. i \in K /\ h[i] = r
      BY <1>8, <3>1
    <3> QED BY <3>2
  <2> QED BY <2>1, <2>2 DEF Surjection
<1> HIDE DEF K, h
<1>12. Cardinality(K) = Cardinality(0..(m - 1))
  BY <1>3, <1>8, <1>10, <1>11, FS_Injection
<1>13. Cardinality(K) = m
  BY <1>3, <1>8, <1>12
<1> QED
  BY <1>1, <1>7, <1>13 DEF K

Caches == [level : Int, type : Int, shared : Seq(Cpus \X Cpus), size : Int]

(* The key of a readable cache.                                            *)
LEMMA KeysAreTyped ==
  ASSUME NEW c \in Caches, CacheOK(c)
  PROVE  CacheKey(c) \in CacheKeys
<1>1. PICK S : S = ListedCpus(c.shared)
  OBVIOUS
<1>2. c.shared \in Seq(Cpus \X Cpus) /\ c.level \in Int /\ c.type \in Int
  BY DEF Caches
<1>3. S \subseteq Cpus /\ S # {} /\ Cpus \subseteq Nat
  <2>1. ~CpuListBad(c.shared)
    BY DEF CacheOK
  <2> QED BY <1>1, <1>2, <2>1, CpusListed
<1>4. Cardinality(S) \in Int
  <2>1. IsFiniteSet(S)
    BY <1>3, ReadingsAssumption, FS_Subset
  <2> QED BY <2>1, FS_CardinalityType
<1>5. \E x \in S : \A y \in S : x <= y
  BY <1>3, LeastNumber
<1>6. PICK m : m = CHOOSE x \in S : \A y \in S : x <= y
  OBVIOUS
<1>7. m \in Int
  <2>1. m \in S
    BY <1>5, <1>6
  <2> QED BY <1>3, <2>1
<1>8. ListPlace[S] \in Int
  BY <1>3, ReadingsAssumption
<1>9. CacheKey(c) = <<Cardinality(S), m, c.level, c.type, ListPlace[S]>>
  BY <1>1, <1>6 DEF CacheKey
<1> QED
  BY <1>2, <1>4, <1>7, <1>8, <1>9 DEF CacheKeys

(* The caches found first, one of each key.                                *)
LEMMA FirstsFound ==
  ASSUME NEW cs \in Seq(Caches)
  PROVE  /\ FirstOf(cs) \subseteq CachesOK(cs) /\ CachesOK(cs) \subseteq 1..Len(cs)
         /\ Len(cs) \in Nat /\ IsFiniteSet(FirstOf(cs)) /\ Cardinality(FirstOf(cs)) \in Nat
         /\ \A i \in CachesOK(cs) : CacheKey(cs[i]) \in CacheKeys
         /\ \A i \in CachesOK(cs) : \E j \in FirstOf(cs) : CacheKey(cs[j]) = CacheKey(cs[i])
         /\ \A i, j \in FirstOf(cs) : CacheKey(cs[i]) = CacheKey(cs[j]) => i = j
<1>1. Len(cs) \in Nat /\ \A i \in 1..Len(cs) : cs[i] \in Caches
  OBVIOUS
<1>2. FirstOf(cs) \subseteq CachesOK(cs) /\ CachesOK(cs) \subseteq 1..Len(cs)
  BY DEF FirstOf, CachesOK
<1>3. IsFiniteSet(FirstOf(cs))
  <2>1. IsFiniteSet(1..Len(cs))
    BY <1>1, FS_Interval
  <2>2. FirstOf(cs) \subseteq 1..Len(cs)
    BY <1>2
  <2> QED BY <2>1, <2>2, FS_Subset
<1>4. Cardinality(FirstOf(cs)) \in Nat
  BY <1>3, FS_CardinalityType
<1>5. \A i \in CachesOK(cs) : CacheKey(cs[i]) \in CacheKeys
  <2>1. \A i \in CachesOK(cs) : CacheOK(cs[i]) /\ cs[i] \in Caches
    BY <1>1, <1>2 DEF CachesOK
  <2> QED BY <2>1, KeysAreTyped
<1>6. ASSUME NEW i \in CachesOK(cs)
      PROVE  \E j \in FirstOf(cs) : CacheKey(cs[j]) = CacheKey(cs[i])
  <2> DEFINE Alike == {j \in CachesOK(cs) : CacheKey(cs[j]) = CacheKey(cs[i])}
  <2>1. Alike \subseteq Nat /\ i \in Alike
    BY <1>1, <1>2
  <2>2. Alike # {}
    BY <2>1
  <2>3. PICK j \in Alike : \A y \in Alike : j <= y
    BY <2>1, <2>2, LeastNumber
  <2>4. j \in CachesOK(cs) /\ j \in Nat /\ CacheKey(cs[j]) = CacheKey(cs[i])
    BY <2>1, <2>3
  <2>5. ASSUME NEW k \in CachesOK(cs), k < j PROVE CacheKey(cs[k]) # CacheKey(cs[j])
    <3>1. k \in Alike => j <= k
      BY <2>3
    <3>2. k \in Nat
      BY <1>1, <1>2
    <3> QED BY <2>4, <2>5, <3>1, <3>2
  <2>6. j \in FirstOf(cs)
    BY <2>4, <2>5 DEF FirstOf
  <2> QED BY <2>4, <2>6
<1>7. ASSUME NEW i \in FirstOf(cs), NEW j \in FirstOf(cs), CacheKey(cs[i]) = CacheKey(cs[j])
      PROVE  i = j
  <2>1. i \in CachesOK(cs) /\ j \in CachesOK(cs) /\ i \in Nat /\ j \in Nat
    BY <1>1, <1>2
  <2>2. ~(i < j) /\ ~(j < i)
    BY <1>7, <2>1 DEF FirstOf
  <2> QED BY <2>1, <2>2
<1> QED
  BY <1>1, <1>2, <1>3, <1>4, <1>5, <1>6, <1>7

(* Their ranks follow their keys.                                          *)
LEMMA RanksFollow ==
  ASSUME NEW cs \in Seq(Caches)
  PROVE  /\ \A i \in FirstOf(cs) : Rank(cs, i) \in Nat /\ Rank(cs, i) < Cardinality(FirstOf(cs))
         /\ \A i, j \in FirstOf(cs) :
              /\ Rank(cs, i) < Rank(cs, j) => KeyBefore(CacheKey(cs[i]), CacheKey(cs[j]))
              /\ Rank(cs, i) = Rank(cs, j) => i = j
<1> DEFINE F == FirstOf(cs)
           key(i) == CacheKey(cs[i])
           B(i) == {j \in F : KeyBefore(key(j), key(i))}
<1>1. /\ IsFiniteSet(F) /\ Cardinality(F) \in Nat /\ \A i \in F : key(i) \in CacheKeys
      /\ \A i, j \in F : key(i) = key(j) => i = j
  BY FirstsFound
<1>2. \A i : Rank(cs, i) = Cardinality(B(i))
  BY DEF Rank
<1> HIDE DEF F, key
<1>3. ASSUME NEW i \in F PROVE Rank(cs, i) \in Nat /\ Rank(cs, i) < Cardinality(F)
  <2>1. PICK D : D = B(i)
    OBVIOUS
  <2>2. D \subseteq F /\ i \notin D
    BY <1>1, <2>1, KeysOrdered
  <2>3. IsFiniteSet(D) /\ Cardinality(D) \in Nat
    BY <1>1, <2>2, FS_Subset, FS_CardinalityType
  <2>4. Cardinality(D) < Cardinality(F)
    <3>1. D # F
      BY <2>2
    <3>2. Cardinality(D) <= Cardinality(F) /\ (Cardinality(D) = Cardinality(F) => D = F)
      BY <1>1, <2>2, FS_Subset
    <3> QED BY <1>1, <2>3, <3>1, <3>2
  <2> QED BY <1>2, <2>1, <2>3, <2>4
<1>4. ASSUME NEW i \in F, NEW j \in F, KeyBefore(key(i), key(j))
      PROVE  Rank(cs, i) < Rank(cs, j)
  <2>1. PICK C, D : C = B(i) /\ D = B(j)
    OBVIOUS
  <2>2. C \subseteq D /\ D \subseteq F
    <3>1. ASSUME NEW k \in C PROVE k \in D
      <4>1. k \in F /\ KeyBefore(key(k), key(i))
        BY <2>1
      <4>2. key(k) \in CacheKeys /\ key(i) \in CacheKeys /\ key(j) \in CacheKeys
        BY <1>1, <4>1
      <4>3. KeyBefore(key(k), key(j))
        BY <1>4, <4>1, <4>2, KeysOrdered
      <4> QED BY <2>1, <4>1, <4>3
    <3> QED BY <2>1, <3>1
  <2>3. i \in D /\ i \notin C
    BY <1>1, <1>4, <2>1, KeysOrdered
  <2>4. IsFiniteSet(D) /\ Cardinality(D) \in Nat
    BY <1>1, <2>2, FS_Subset, FS_CardinalityType
  <2>5. IsFiniteSet(C) /\ Cardinality(C) \in Nat
    BY <2>2, <2>4, FS_Subset, FS_CardinalityType
  <2>6. Cardinality(C) <= Cardinality(D) /\ (Cardinality(C) = Cardinality(D) => C = D)
    BY <2>2, <2>4, FS_Subset
  <2>7. Cardinality(C) < Cardinality(D)
    BY <2>3, <2>4, <2>5, <2>6
  <2> QED BY <1>2, <2>1, <2>7
<1>5. ASSUME NEW i \in F, NEW j \in F
      PROVE  /\ Rank(cs, i) < Rank(cs, j) => KeyBefore(key(i), key(j))
             /\ Rank(cs, i) = Rank(cs, j) => i = j
  <2>1. key(i) \in CacheKeys /\ key(j) \in CacheKeys /\ Rank(cs, i) \in Nat /\ Rank(cs, j) \in Nat
    BY <1>1, <1>3
  <2>2. key(i) = key(j) \/ KeyBefore(key(i), key(j)) \/ KeyBefore(key(j), key(i))
    BY <2>1, KeysOrdered
  <2>3. /\ KeyBefore(key(i), key(j)) => Rank(cs, i) < Rank(cs, j)
        /\ KeyBefore(key(j), key(i)) => Rank(cs, j) < Rank(cs, i)
        /\ key(i) = key(j) => i = j
    BY <1>1, <1>4
  <2> QED BY <2>1, <2>2, <2>3
<1> QED
  BY <1>3, <1>5 DEF F, key

(* The caches kept are those of the lowest ranks.                          *)
LEMMA KeptRanked ==
  ASSUME NEW cs \in Seq(Caches)
  PROVE  /\ KeptCount(cs) = IF Cardinality(FirstOf(cs)) < MaxCaches THEN Cardinality(FirstOf(cs)) ELSE MaxCaches
         /\ KeptCount(cs) \in Nat /\ KeptCount(cs) <= MaxCaches /\ MaxCaches \in Nat \ {0}
         /\ \A r \in 1..KeptCount(cs) : KeptAt(cs, r) \in FirstOf(cs) /\ Rank(cs, KeptAt(cs, r)) = r - 1
<1>1. PICK F, n : F = FirstOf(cs) /\ n = Cardinality(F)
  OBVIOUS
<1>2. /\ IsFiniteSet(F) /\ n \in Nat
      /\ \A i \in F : Rank(cs, i) \in Nat /\ Rank(cs, i) < n
      /\ \A i, j \in F : Rank(cs, i) = Rank(cs, j) => i = j
      /\ MaxCaches \in Nat \ {0}
  BY <1>1, FirstsFound, RanksFollow, ReadingsAssumption
<1>3. PICK rank : rank = [i \in F |-> Rank(cs, i)]
  OBVIOUS
<1>4. /\ rank \in [F -> Nat] /\ \A i \in F : rank[i] = Rank(cs, i)
  BY <1>2, <1>3
<1>5. /\ \A i, j \in F : rank[i] = rank[j] => i = j
      /\ \A i \in F : rank[i] < n
  BY <1>2, <1>4
<1>6. /\ \A r \in 0..(n - 1) : \E i \in F : rank[i] = r
      /\ Cardinality({i \in F : rank[i] < MaxCaches}) = IF n < MaxCaches THEN n ELSE MaxCaches
  BY <1>1, <1>2, <1>4, <1>5, RanksFill
<1>7. {i \in F : rank[i] < MaxCaches} = {i \in F : Rank(cs, i) < MaxCaches}
  BY <1>4
<1>8. KeptCount(cs) = IF n < MaxCaches THEN n ELSE MaxCaches
  BY <1>1, <1>6, <1>7 DEF KeptCount
<1>9. KeptCount(cs) \in Nat /\ KeptCount(cs) <= MaxCaches /\ KeptCount(cs) <= n
  BY <1>2, <1>8
<1>10. ASSUME NEW r \in 1..KeptCount(cs)
       PROVE  KeptAt(cs, r) \in F /\ Rank(cs, KeptAt(cs, r)) = r - 1
  <2>1. r - 1 \in 0..(n - 1)
    BY <1>2, <1>9
  <2>2. \E i \in F : Rank(cs, i) = r - 1
    BY <1>4, <1>6, <2>1
  <2>3. KeptAt(cs, r) = CHOOSE i \in F : Rank(cs, i) = r - 1
    BY <1>1 DEF KeptAt
  <2> QED BY <2>2, <2>3
<1> QED
  BY <1>1, <1>2, <1>8, <1>9, <1>10

(* What ReadingExact asks of the reading f of the caches cs.               *)
CachesSay(cs, f) ==
  LET kept == f.kept
      readable == {cs[i] : i \in {j \in 1..Len(cs) : CacheOK(cs[j])}}
  IN /\ (f.status = "unread") = (readable = {} /\ cs # <<>>)
     /\ Len(kept) <= MaxCaches
     /\ readable # {} => kept # <<>>
     /\ \A i \in 1..(Len(kept) - 1) : KeyBefore(kept[i].key, kept[i + 1].key)
     /\ \A i \in 1..Len(kept) : SizeFirstRead(cs, kept[i])
     /\ \A c \in readable :
          LET key == CacheKey(c) IN
          (\E i \in 1..Len(kept) : kept[i].key = key)
            \/ (Len(kept) = MaxCaches /\ KeyBefore(kept[MaxCaches].key, key))

(* The caches kept are the nearest of those that can be read.              *)
LEMMA CachesAreExact ==
  ASSUME NEW cs \in Seq(Caches)
  PROVE  CachesSay(cs, CachesRead(cs))
<1>1. PICK F, n, m, kept, M :
        /\ F = FirstOf(cs) /\ n = Cardinality(F) /\ m = KeptCount(cs) /\ kept = CachesRead(cs).kept
        /\ M = MaxCaches
  OBVIOUS
<1>2. /\ F \subseteq CachesOK(cs) /\ CachesOK(cs) \subseteq 1..Len(cs)
      /\ Len(cs) \in Nat /\ IsFiniteSet(F) /\ n \in Nat
      /\ \A i \in CachesOK(cs) : \E j \in F : CacheKey(cs[j]) = CacheKey(cs[i])
  BY <1>1, FirstsFound
<1>3. /\ \A i \in F : Rank(cs, i) \in Nat /\ Rank(cs, i) < n
      /\ \A i, j \in F :
           /\ Rank(cs, i) < Rank(cs, j) => KeyBefore(CacheKey(cs[i]), CacheKey(cs[j]))
           /\ Rank(cs, i) = Rank(cs, j) => i = j
  BY <1>1, RanksFollow
<1>4. /\ m = IF n < M THEN n ELSE M
      /\ m \in Nat /\ m <= M /\ M \in Nat \ {0}
      /\ \A r \in 1..m : KeptAt(cs, r) \in F /\ Rank(cs, KeptAt(cs, r)) = r - 1
  BY <1>1, KeptRanked
<1>5. kept = [r \in 1..m |-> [key |-> CacheKey(cs[KeptAt(cs, r)]), size |-> cs[KeptAt(cs, r)].size]]
  BY <1>1 DEF CachesRead
<1>6. /\ DOMAIN kept = 1..m
      /\ \A r \in 1..m : kept[r].key = CacheKey(cs[KeptAt(cs, r)]) /\ kept[r].size = cs[KeptAt(cs, r)].size
  BY <1>5
<1>7. Len(kept) = m
  BY <1>4, <1>5
<1> DEFINE readable == {cs[i] : i \in {j \in 1..Len(cs) : CacheOK(cs[j])}}
<1>8. readable = {cs[i] : i \in CachesOK(cs)} /\ (readable = {} <=> CachesOK(cs) = {})
  BY DEF CachesOK
<1> HIDE DEF readable
<1>9. (CachesRead(cs).status = "unread") = (readable = {} /\ cs # <<>>)
  BY <1>8 DEF CachesRead
<1>10. readable # {} => kept # <<>>
  <2> SUFFICES ASSUME readable # {} PROVE m # 0
    BY <1>6, <1>7
  <2>1. F # {}
    BY <1>2, <1>8
  <2>2. n # 0
    BY <1>1, <1>2, <2>1, FS_EmptySet
  <2> QED BY <1>4, <2>2
<1>11. ASSUME NEW i \in 1..(m - 1) PROVE KeyBefore(kept[i].key, kept[i + 1].key)
  <2>1. i \in 1..m /\ i + 1 \in 1..m /\ i - 1 < (i + 1) - 1
    BY <1>4
  <2>2. PICK x, y : x = KeptAt(cs, i) /\ y = KeptAt(cs, i + 1)
    OBVIOUS
  <2>3. x \in F /\ y \in F /\ Rank(cs, x) < Rank(cs, y)
    BY <1>4, <2>1, <2>2
  <2> QED BY <1>3, <1>6, <2>1, <2>2, <2>3
<1>12. ASSUME NEW i \in 1..m PROVE SizeFirstRead(cs, kept[i])
  <2>1. PICK x : x = KeptAt(cs, i)
    OBVIOUS
  <2>2. x \in F /\ x \in 1..Len(cs) /\ x \in Nat /\ CacheOK(cs[x])
    <3>1. x \in F /\ x \in CachesOK(cs)
      BY <1>2, <1>4, <2>1
    <3>2. x \in 1..Len(cs) /\ CacheOK(cs[x])
      BY <3>1 DEF CachesOK
    <3> QED BY <1>2, <3>1, <3>2
  <2>3. ASSUME NEW j \in 1..(x - 1), CacheOK(cs[j]) PROVE CacheKey(cs[j]) # CacheKey(cs[x])
    <3>1. j \in 1..Len(cs) /\ j < x
      BY <1>2, <2>2
    <3>2. j \in CachesOK(cs)
      BY <2>3, <3>1 DEF CachesOK
    <3> QED BY <1>1, <2>2, <3>1, <3>2 DEF FirstOf
  <2> QED BY <1>6, <2>1, <2>2, <2>3 DEF SizeFirstRead
<1>13. ASSUME NEW c \in readable
       PROVE  \/ \E i \in 1..m : kept[i].key = CacheKey(c)
              \/ m = M /\ KeyBefore(kept[M].key, CacheKey(c))
  <2>1. PICK j \in F : CacheKey(cs[j]) = CacheKey(c)
    BY <1>2, <1>8
  <2>2. PICK r : r = Rank(cs, j)
    OBVIOUS
  <2>3. r \in Nat /\ r < n
    BY <1>3, <2>2
  <2>4. CASE r < M
    <3>1. r + 1 \in 1..m /\ (r + 1) - 1 = r
      BY <1>2, <1>4, <2>3, <2>4
    <3>2. KeptAt(cs, r + 1) = j
      BY <1>3, <1>4, <2>2, <3>1
    <3> QED BY <1>6, <2>1, <3>1, <3>2
  <2>5. CASE ~(r < M)
    <3>1. m = M /\ M \in 1..m /\ M - 1 < r
      BY <1>2, <1>4, <2>3, <2>5
    <3>2. PICK x : x = KeptAt(cs, M)
      OBVIOUS
    <3>3. x \in F /\ Rank(cs, x) < Rank(cs, j)
      BY <1>4, <2>2, <3>1, <3>2
    <3>4. KeyBefore(CacheKey(cs[x]), CacheKey(cs[j]))
      BY <1>3, <3>3
    <3> QED BY <1>6, <2>1, <3>1, <3>2, <3>4
  <2> QED BY <2>4, <2>5
<1> QED
  BY <1>1, <1>4, <1>7, <1>9, <1>10, <1>11, <1>12, <1>13 DEF CachesSay, readable

(* What is used of the root file system is part of it.                     *)
LEMMA RootIsExact ==
  ASSUME NEW s, s.blocks \in Nat, s.free \in Nat, s.size \in Nat, s.safe \in Nat
  PROVE  GuestRoot(s).total >= 0 /\ GuestRoot(s).used >= 0 => GuestRoot(s).used <= GuestRoot(s).total
<1>1. PICK b, f, z, u : b = s.blocks /\ f = s.free /\ z = s.size /\ u = s.blocks - s.free
  OBVIOUS
<1>2. b \in Nat /\ f \in Nat /\ z \in Nat /\ u = b - f
  BY <1>1
<1>3. /\ GuestRoot(s).total = IF b >= 0 /\ b * z <= s.safe THEN b * z ELSE -1
      /\ GuestRoot(s).used = IF u >= 0 /\ u * z <= s.safe THEN u * z ELSE -1
  BY <1>1 DEF GuestRoot
<1>4. b * z \in Int /\ u * z \in Int /\ f * z \in Nat
  BY <1>2
<1>5. b * z = u * z + f * z
  BY <1>2
<1>6. u * z <= b * z
  BY <1>4, <1>5
<1> QED
  BY <1>3, <1>4, <1>6

(* What ReadingExact asks of a reading f of a device d.                    *)
ReadingSays(d, f) ==
  /\ ~CpuListBad(d.tokens) => RangesSay(ListedCpus(d.tokens), f.ranges, f.cpu)
  /\ CachesSay(d.caches, f.caches)
  /\ f.root.total >= 0 /\ f.root.used >= 0 => f.root.used <= f.root.total

(* A hardware reading is made in one step.                                 *)
HardwareInv ==
  device.kind = "hardware" =>
    IsDevice(device) /\ stage \in {"hardware", "over"} /\ (stage = "over" => ReadingSays(device, fact))

(* HardwareInv is inductive.                                               *)
LEMMA HardwareKeeps == HardwareInv /\ [ReadingsNext]_readingVars => HardwareInv'
<1> SUFFICES ASSUME HardwareInv, [ReadingsNext]_readingVars, device.kind = "hardware" PROVE HardwareInv'
  BY DEF HardwareInv, ReadingsNext, ReadIndex, ReadFile, FilesRead, Walk, Walked, Survey, Collect, readingVars
<1>1. PICK d : d = device
  OBVIOUS
<1>2. device' = d
  BY <1>1 DEF ReadingsNext, ReadIndex, ReadFile, FilesRead, Walk, Walked, Survey, Collect, readingVars
<1>3. /\ IsDevice(d) /\ d.kind = "hardware"
      /\ stage \in {"hardware", "over"} /\ (stage = "over" => ReadingSays(d, fact))
  BY <1>1 DEF HardwareInv
<1>4. CASE Collect
  <2>1. /\ fact'.ranges = (IF CpuListBad(d.tokens) THEN <<>> ELSE CpuRanges(d.tokens))
        /\ fact'.cpu = PolicyCpu(d.policy, d.tokens)
        /\ fact'.caches = CachesRead(d.caches) /\ fact'.root = GuestRoot(d.statvfs)
        /\ stage' = "over"
    BY <1>1, <1>4 DEF Collect
  <2>2. /\ d.tokens \in Seq(Cpus \X Cpus) /\ d.caches \in Seq(Caches)
        /\ d.statvfs.blocks \in Nat /\ d.statvfs.free \in Nat /\ d.statvfs.size \in Nat
        /\ d.statvfs.safe \in Nat
    BY <1>3 DEF IsDevice, Caches
  <2>3. PICK f : f = fact'
    OBVIOUS
  <2>4. CachesSay(d.caches, f.caches)
    BY <2>1, <2>2, <2>3, CachesAreExact
  <2>5. f.root.total >= 0 /\ f.root.used >= 0 => f.root.used <= f.root.total
    BY <2>1, <2>2, <2>3, RootIsExact
  <2>6. ASSUME ~CpuListBad(d.tokens)
        PROVE  RangesSay(ListedCpus(d.tokens), f.ranges, f.cpu)
    <3>1. f.ranges = CpuRanges(d.tokens) /\ f.cpu = PolicyCpu(d.policy, d.tokens)
      BY <2>1, <2>3, <2>6
    <3> QED BY <2>2, <2>6, <3>1, RangesMaximal
  <2>7. ReadingSays(d, f)
    BY <2>4, <2>5, <2>6 DEF ReadingSays
  <2> QED BY <1>2, <1>3, <2>1, <2>3, <2>7 DEF HardwareInv
<1>5. CASE UNCHANGED readingVars
  <2>1. stage' = stage /\ fact' = fact
    BY <1>5 DEF readingVars
  <2> QED BY <1>2, <1>3, <2>1 DEF HardwareInv
<1>6. CASE ReadIndex \/ ReadFile \/ FilesRead \/ Walk \/ Walked \/ Survey
  BY <1>3, <1>6 DEF ReadIndex, ReadFile, FilesRead, Walk, Walked, Survey
<1> QED
  BY <1>4, <1>5, <1>6 DEF ReadingsNext

(* The invariant says what ReadingExact promises.                          *)
LEMMA HardwareInvExact == HardwareInv => ReadingExact
<1> SUFFICES ASSUME HardwareInv, stage = "over", device.kind = "hardware" PROVE ReadingExact
  BY DEF ReadingExact
<1>1. ReadingSays(device, fact)
  BY DEF HardwareInv
<1> QED
  BY <1>1 DEF ReadingSays, RangesSay, CachesSay, ReadingExact

(* Neither starts with a reading made.                                     *)
LEMMA OneStepStarts ==
  ASSUME NEW devices, \A d \in devices : IsDevice(d), ReadingsInit(devices)
  PROVE  SurveyInv /\ HardwareInv
<1>1. IsDevice(device) /\ (device.kind \in {"surface", "hardware"} => stage = device.kind)
  BY DEF ReadingsInit
<1> QED
  BY <1>1 DEF SurveyInv, HardwareInv
-----------------------------------------------------------------------------
(***************************************************************************)
(* The readings together: SummaryInv with SamplerInv, and one invariant    *)
(* for each kind of collector.                                             *)
(***************************************************************************)

(* sample_within of thermal.rs and memory.rs returns a sample of the beat  *)
(* that asked, and it says what the host shows: the hottest zone of each   *)
(* group, the memory of the smallest tree of processes.                    *)
THEOREM SamplesAreExact == WorkersSpec => []SamplesExact
<1>1. WorkersInit => SamplerInv /\ SummaryInv
  <2> SUFFICES ASSUME WorkersInit PROVE SamplerInv /\ SummaryInv
    OBVIOUS
  <2>1. 0 \in 0..MaxBeats /\ MaxBeats \in 0..MaxBeats
    BY SamplersAssumption
  <2>2. CASE SamplersInit(Hosts, 0)
    BY <2>1, <2>2, HostsAssumption, SamplersStart, SummariesStart
  <2>3. CASE SamplersInit({CHOOSE h \in Hosts : TRUE}, MaxBeats)
    <3>1. PICK hosts : hosts = {CHOOSE h \in Hosts : TRUE}
      OBVIOUS
    <3>2. \A h \in hosts : IsHost(h)
      BY <3>1, HostsAssumption
    <3>3. SamplersInit(hosts, MaxBeats)
      BY <2>3, <3>1
    <3> QED BY <2>1, <3>2, <3>3, SamplersStart, SummariesStart
  <2> QED
    BY <2>2, <2>3 DEF WorkersInit
<1>2. SamplerInv /\ SummaryInv /\ [WorkersNext]_workerVars => SamplerInv' /\ SummaryInv'
  BY SamplersMove, SamplersKeep, SummariesKeep
<1>3. SamplerInv /\ SummaryInv => SamplesExact
  BY SamplerInvFresh DEF SummaryInv, SaysHost, SamplesExact
<1> QED
  BY <1>1, <1>2, <1>3, PTL DEF WorkersSpec

(* One invariant for each kind of collector.                               *)
CollectorInv == FilesInv /\ WalkInv /\ SurveyInv /\ HardwareInv

(* A collector starts on one device, whatever its kind.                    *)
LEMMA CollectorStarts ==
  ASSUME NEW devices, \A d \in devices : IsDevice(d), ReadingsInit(devices)
  PROVE  CollectorInv
<1>1. \A d \in devices : d.kind = "walk" => IsArea(d)
  BY DEF IsArea
<1> QED
  BY <1>1, FilesStart, WalkStarts, OneStepStarts DEF CollectorInv

(* What the collectors of processor_facts.rs and coverage_hardware.rs      *)
(* report is what their files say: a property by all the contexts or by    *)
(* its own, within the byte budget; a walk over any linked area; maximal   *)
(* cpu ranges, the nearest caches, each family's own request.              *)
THEOREM CollectorsAreExact == WorkersSpec => []CollectorsExact
<1>1. WorkersInit => CollectorInv
  <2> SUFFICES ASSUME WorkersInit PROVE CollectorInv
    OBVIOUS
  <2>1. CASE ReadingsInit(Devices)
    BY <2>1, JobsAssumption, CollectorStarts
  <2>2. CASE ReadingsInit({[kind |-> "over"]})
    <3>1. \A d \in {[kind |-> "over"]} : IsDevice(d)
      BY DEF IsDevice
    <3> QED BY <2>2, <3>1, CollectorStarts
  <2> QED
    BY <2>1, <2>2 DEF WorkersInit
<1>2. CollectorInv /\ [WorkersNext]_workerVars => CollectorInv'
  BY ReadingsMove, FilesKeep, WalksKeep, SurveysKeep, HardwareKeeps DEF CollectorInv
<1>3. CollectorInv => CollectorsExact
  BY FilesInvExact, WalkInvExact, SurveyInvExact, HardwareInvExact DEF CollectorInv, CollectorsExact
<1> QED
  BY <1>1, <1>2, <1>3, PTL DEF WorkersSpec

(* Both together: every host and every device, of any size.                *)
THEOREM ReadingsAreExact == WorkersSpec => []ReadingsExact
<1>1. SamplesExact /\ CollectorsExact => ReadingsExact
  BY DEF ReadingsExact
<1> QED
  BY <1>1, SamplesAreExact, CollectorsAreExact, PTL
=============================================================================
