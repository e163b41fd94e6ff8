--------------------------- MODULE AccessLifecycle --------------------------
(***************************************************************************)
(* Access from the credential to the session's end: either provider's      *)
(* setup on its own thread, the watchdog of the caller, the connector, the *)
(* endpoints of a Tailscale session, and stop.                             *)
(***************************************************************************)
EXTENDS ManagedSetup, Endpoints

lifecycleVars == <<allSetupVars, endpointVars>>

LifecycleInit == ManagedInit /\ EndpointInit

SetupThread ==
  \/ TailscaleStep /\ UNCHANGED <<connVars, endpointVars>>
  \/ ManagedStep /\ UNCHANGED endpointVars

Host ==
  \/ (Wedge \/ SetupPanics \/ PassDeadline \/ SidecarDies) /\ UNCHANGED <<connVars, endpointVars>>
  \/ Expire /\ UNCHANGED endpointVars

WatchdogFires == Watchdog /\ UNCHANGED <<connVars, endpointVars>>

Connector == ConnectorStep /\ UNCHANGED endpointVars

CancelSeen == ConnCancelled /\ UNCHANGED endpointVars

Relay == RelayStep /\ UNCHANGED endpointVars

\* The supervisor publishes once, when setup has returned its session.
Publish ==
  /\ boot.kind = "tailscale"
  /\ session = "open"
  /\ \A s \in Slots : said[s] = "none"
  /\ PublishEndpoints
  /\ UNCHANGED allSetupVars

Probing ==
  /\ session = "open"
  /\ \E s \in Slots : ProbeEndpoint(s) \/ (slot[s].published /\ ProbeFallsDue(s))
  /\ UNCHANGED allSetupVars

StopSession ==
  \/ StopTailscale /\ ResetServe /\ UNCHANGED connVars
  \/ (StopConnector \/ StopManaged) /\ UNCHANGED endpointVars

Finished ==
  /\ pc \in Ended
  /\ caller # "waiting"
  /\ session \in NoSession
  /\ UNCHANGED lifecycleVars

LifecycleNext ==
  \/ SetupThread \/ Host \/ WatchdogFires \/ Connector \/ Relay \/ Publish \/ Probing \/ StopSession
  \/ Finished

\* The caller's recv_timeout ends whatever the thread does.  The thread and
\* the connector run unless the host blocks them (Wedge); a connection attempt
\* ends within CONNECT_TIMEOUT, but nothing ends an open relay or a write to a
\* peer that does not read.  Each turn of the relay's select! polls a set
\* cancellation as ready and picks among the ready branches at random, so a
\* relay that keeps turning sees it (SF).  A session handed to nobody is
\* dropped, which is part of the thread's own send.
Fairness ==
  /\ WF_lifecycleVars(WatchdogFires)
  /\ WF_lifecycleVars(SetupThread)
  /\ WF_lifecycleVars(Connector)
  /\ SF_lifecycleVars(CancelSeen)
  /\ WF_lifecycleVars(session = "late" /\ StopSession)

LifecycleSpec == LifecycleInit /\ [][LifecycleNext]_lifecycleVars /\ Fairness
-----------------------------------------------------------------------------
(* The type invariant. *)
LifecycleTypeOK ==
  /\ environment \in {"none", "ok", "other"}
  /\ credential \in {"none", "ok", "other"}
  /\ session \in {"none", "open", "late", "stopped"}
  /\ late \in BOOLEAN /\ cancel \in BOOLEAN /\ expired \in BOOLEAN
  /\ fetches \in 0..(FetchAttempts - 1)
  /\ attempt \in Attempts
  /\ trees \subseteq Attempts /\ keyFiles \subseteq trees /\ sidecars \subseteq Attempts
  /\ spent \subseteq ups /\ ups \subseteq Attempts
  /\ conn.attempt \in 0..AttemptCap /\ conn.streak \in 0..RefusalCap
  /\ conn.delay = 0 \/ (250 <= conn.delay /\ conn.delay <= 300250)
  /\ Len(sent) <= MaxEvents

\* What a setup or a session leaves behind when its thread has ended: no
\* sidecar, no connector, and no root unless its removal failed or the thread
\* unwound past it.  Only a wedged thread may keep its sidecar.
NothingLeft ==
  (pc = "done" /\ session \in NoSession) =>
    /\ sidecars = {}
    /\ conn.at \in {"off", "finished"}
    /\ faults \cap {"unlink", "panic"} = {} => trees = {}

\* A session the caller holds stands on its own tree, with the one-off auth
\* key gone from it, and it is the newest attempt's.
SessionWhole ==
  session = "open" =>
    /\ caller = "session"
    /\ attempt \in trees
    /\ attempt \notin keyFiles
    /\ sidecars \subseteq {attempt}

\* `up` is run again only after a fault of the host, never after a failure
\* that names the key or the tunnel.
UpOnce == Cardinality(ups) <= 1 \/ faults # {}

\* A managed session was registered.  A registration that failed returns the
\* code of the last attempt it took from the channel, whatever the connector
\* sent before or since, and the generic code when it took none; and it never
\* gave up with time left and a registration already sent.
RegistrationTold ==
  LET heard == Len(sent) - Len(events)   \* the channel is what was sent and not taken
  IN /\ (boot.kind = "managed" /\ session = "open") => heard > 0 /\ sent[heard] = "registered"
     /\ pc = "join" =>
          failure = IF heard = 0 THEN "access_connector_registration_failed" ELSE sent[heard]
     /\ (pc = "join" /\ ~late) => \A i \in DOMAIN sent : sent[i] # "registered"

(* Setup and stop leave nothing running and nothing on disk, a session is  *)
(* whole when it is handed over, and the one-off key is not spent twice:   *)
(* setup_in_root, retried_stage_until, DaemonGuard, run_with_external_     *)
(* deadline, wait_for_connector_registration.                              *)
SetupSafe == LifecycleTypeOK /\ NothingLeft /\ SessionWhole /\ UpOnce /\ RegistrationTold

\* No write of the connector blocks for ever.
PeersRead == []<>(conn.at \notin Blocked)

(* A caller always gets its answer, even from a wedged thread, and a       *)
(* session that came too late is stopped, unless its connector is blocked  *)
(* on a peer: run_with_external_deadline and the Drop of AccessSession.    *)
CallerAnswered ==
  /\ <>(caller # "waiting")
  /\ PeersRead => (session = "late" ~> session = "stopped")

(* A cancelled connector ends, so that stop() and a failed setup, which    *)
(* join it, return, when its peers take what it writes, and however much   *)
(* they send: wait_until_cancelled in the select! of every wait of         *)
(* managed.rs.  Whatever its peers do it comes to its end or to a write,   *)
(* which is where ConnectorWorker::stop may wait for ever.                 *)
CancelledConnectorEnds ==
  /\ PeersRead => ((cancel /\ conn.at # "off") ~> conn.at = "finished")
  /\ (cancel /\ conn.at # "off") ~> conn.at \in {"finished"} \cup Blocked

(* While the gateway keeps refusing an admitted credential the connector's *)
(* waits never get shorter by a whole second, so only the jitter shortens  *)
(* one, and they stay within the ceiling and its jitter:                   *)
(* refused_after_admission_delay, managed.rs.                              *)
RefusalsBackOff ==
  [][(conn.admitted /\ conn'.streak >= conn.streak /\ conn.streak > 0
        /\ conn'.at = "waiting" /\ conn.at = "connecting")
       => conn.delay \div 1000 <= conn'.delay \div 1000 /\ conn'.delay <= 300250]_lifecycleVars

(* What access.rs:891 says of the one-off key: any failure after the first *)
(* successful `up` is final.                                               *)
SpentKeyFinal == \A a \in spent : \A b \in ups : b <= a
=============================================================================
