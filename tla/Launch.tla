------------------------------- MODULE Launch -------------------------------
(***************************************************************************)
(* A whole boot: contact, the deliveries, and what                         *)
(* supervise_with_environment_access_and_processor_facts                   *)
(* (src/src/supervisor.rs) does around the supervision loop: the discovery *)
(* files, the access setup and its reports, the customer's environment     *)
(* (customer_environment.rs), and the teardown after the customer's end.   *)
(* The setup itself is AccessSetup, the loop Supervisor, the log worker    *)
(* Logging.                                                                *)
(***************************************************************************)
EXTENDS SecretDelivery, DiscoveryFile

CONSTANT Processors  \* inherited environments: the state of each inherited name

VARIABLES
  direct,    \* DirectPeerDiscovery: "none", "failed", "legacy" or "active"
  ready,     \* ApplicationReady: "none", "bound" or "unavailable"
  session,   \* an access session is up
  told,      \* the reports of this thread, by stage
  customer,  \* who set each name of the customer's environment
  repaired   \* the names of runtime.environment.normalized

launchVars == <<v1, direct, ready, session, told, customer, repaired>>
bootVars == <<vars, deliveryVars, launchVars>>

Conclusions == {"ready", "degraded", "skipped"}

LaunchInit ==
  /\ Init /\ DeliveryInit
  /\ v1 = ClosedFile /\ direct = "none" /\ ready = "none"
  /\ session = FALSE /\ told = <<>> /\ repaired = {}
  /\ customer = [n \in Names |-> "none"]

\* One step of the launching thread; the v1 file is the worker's otherwise.
GoOn(from, to) == GoTo(from, to) /\ UNCHANGED deliveryVars
Report(stages) == told' = told \o stages
Served == response.access # "none"

\* Mutant: without its v1 file a publishing job is launched in direct mode.
OpenFilesDirect(opened, made) ==
  /\ GoOn("files", "attach")
  /\ v1' = [ClosedFile EXCEPT !.open = response.access = "published" /\ opened]
  /\ direct' = IF ~made THEN "failed" ELSE IF v1'.open THEN "legacy" ELSE "active"
  /\ ready' = CASE values["LISKOV_APPLICATION_READINESS"] = "none" -> "none"
                [] values["LISKOV_APPLICATION_READINESS"] # "none" /\ made -> "bound"
                [] OTHER -> "unavailable"
  /\ UNCHANGED <<session, told, customer, repaired>>

\* DiscoveryFile::for_bootstrap, prepare_direct_peer, the readiness opt-in.
\* The intent to publish decides the mode, also when the v1 file fails.
OpenFiles(opened, made) ==
  /\ GoOn("files", "attach")
  /\ v1' = [ClosedFile EXCEPT !.open = response.access = "published" /\ opened]
  /\ direct' = IF ~made THEN "failed"
               ELSE IF response.access = "published" THEN "legacy" ELSE "active"
  /\ ready' = CASE values["LISKOV_APPLICATION_READINESS"] = "none" -> "none"
                [] values["LISKOV_APPLICATION_READINESS"] # "none" /\ made -> "bound"
                [] OTHER -> "unavailable"
  /\ UNCHANGED <<session, told, customer, repaired>>

\* The reporter, the logging controller, and the start of the setup.
Attach ==
  /\ GoOn("attach", "access")
  /\ Report(IF Served THEN <<"attach", "setup_started">> ELSE <<"attach">>)
  /\ UNCHANGED <<v1, direct, ready, session, customer, repaired>>

\* Mutant: a setup that ends with neither session nor error says nothing.
AccessConcludesSilently(outcome) ==
  /\ GoOn("access", "environ")
  /\ outcome = "ready" => Served
  /\ session' = (outcome = "ready")
  /\ Report(IF Served /\ outcome # "skipped" THEN <<outcome>> ELSE <<>>)
  /\ UNCHANGED <<v1, direct, ready, customer, repaired>>

\* setup_runtime_access_supervised returned a session, an error, or neither;
\* the endpoints a session then publishes are those of Endpoints.
AccessConcludes(outcome) ==
  /\ GoOn("access", "environ")
  /\ outcome = "ready" => Served
  /\ session' = (outcome = "ready")
  /\ Report(IF Served THEN <<outcome>> ELSE <<>>)
  /\ UNCHANGED <<v1, direct, ready, customer, repaired>>

\* discovery_environment: helper-owned names are the helper's or absent.
DiscoveryEnvironment(proxied) ==
  [n \in Names |->
     IF n \notin HelperOwned THEN values[n]
     ELSE IF \/ n = "LISKOV_RUNTIME_INSTANCE_ID"
             \/ n = "LISKOV_DISCOVERY_FILE" /\ v1.open
             \/ n = "LISKOV_PEER_DIRECTORY_FILE" /\ direct \in {"legacy", "active"}
             \/ n = "LISKOV_PEER_PROXY" /\ proxied
             \/ n = "LISKOV_APPLICATION_READINESS" /\ ready = "bound"
          THEN "helper" ELSE "none"]

\* normalize_customer_environment: what the guest cannot use.
Unusable(n, state) ==
  CASE n = "TMPDIR" -> state \in {"missing", "unwritable", "empty"}
    [] n = "LD_PRELOAD" -> state = "missing"
    [] n = "PATH" -> state \in {"absent", "empty"}
    [] n = "HOME" -> state = "absent"
    [] OTHER -> FALSE

\* customer_environment: the inherited names that are neither protected nor
\* the helper's, repaired, under the signed ones.
BuildEnvironment(inherited, proxied) ==
  LET runtime == DiscoveryEnvironment(proxied)
      changed == {n \in Repairable : runtime[n] = "none" /\ Unusable(n, inherited[n])}
  IN /\ GoOn("environ", "supervise")
     /\ proxied => session
     /\ customer' = [n \in Names |->
          CASE runtime[n] # "none" -> runtime[n]
            [] runtime[n] = "none" /\ n \in Protected \cup HelperOwned -> "none"
            [] n \in changed -> IF n = "LD_PRELOAD" THEN "none" ELSE "default"
            [] OTHER -> IF inherited[n] = "absent" THEN "none" ELSE "inherited"]
     /\ repaired' = changed
     /\ Report((IF changed = {} THEN <<>> ELSE <<"normalized">>) \o <<"process">>)
     /\ UNCHANGED <<v1, direct, ready, session>>

\* The supervision is over: the session is stopped, the log worker finished,
\* the reporter and then the files dropped.
Teardown(stopped) ==
  /\ pc = "supervise"
  /\ pc' = "exited" /\ exit' = [status |-> 0, stage |-> "supervise"]
  /\ session' = FALSE
  /\ Report(IF ~session THEN <<>> ELSE IF stopped THEN <<"stopped">> ELSE <<"degraded">>)
  /\ v1' = ClosedFile
  /\ UNCHANGED <<probing, evidence, clock, request, response, environment, deliveryVars,
                 direct, ready, customer, repaired>>

\* The diagnostic worker handles the answer to a health beat, or gives up on
\* its post.
DirectoryRefresh ==
  /\ pc = "supervise"
  /\ Refresh
  /\ UNCHANGED <<vars, deliveryVars, direct, ready, session, told, customer, repaired>>

Boot ==
  \/ Contact /\ UNCHANGED <<deliveryVars, launchVars>>
  \/ Deliver /\ UNCHANGED launchVars
  \/ \E opened, made \in BOOLEAN : OpenFiles(opened, made)
  \/ Attach
  \/ \E outcome \in Conclusions : AccessConcludes(outcome)
  \/ /\ pc = "environ"
     /\ \E inherited \in Processors, proxied \in BOOLEAN : BuildEnvironment(inherited, proxied)

\* Main returned.
Ended == pc = "exited" /\ UNCHANGED bootVars

LaunchNext ==
  \/ Boot \/ DirectoryRefresh \/ Ended
  \/ \E stopped \in BOOLEAN : Teardown(stopped)

\* Every call of the boot thread is bounded by a timeout.
LaunchSpec == LaunchInit /\ [][LaunchNext]_bootVars /\ WF_bootVars(Boot)
-----------------------------------------------------------------------------
(* Properties. *)

\* Signed values and secrets reach the customer as they are, over anything
\* inherited or defaulted; a helper-owned name is the helper's or absent, so
\* that no forged name switches the discovery mode, and the direct mode is
\* never active in a job that publishes; a protected name is there only when
\* a customer secret is delivered under it; and the report names the repairs.
EnvironmentSound ==
  pc = "supervise" =>
    /\ \A n \in Names \ HelperOwned : values[n] # "none" => customer[n] = values[n]
    /\ \A n \in HelperOwned : customer[n] \in {"helper", "none"}
    /\ \A n \in Protected : customer[n] \in {"none", "secret"}
    /\ direct = "active" => response.access # "published" /\ customer["LISKOV_DISCOVERY_FILE"] = "none"
    /\ ready = "bound" => values["LISKOV_APPLICATION_READINESS"] # "none" /\ direct # "failed"
    /\ customer["PATH"] # "none" /\ customer["HOME"] # "none"
    /\ {n \in Names : customer[n] = "default"} \subseteq repaired
    /\ ("normalized" \in ToSet(told)) = (repaired # {})

\* A served attachment gets exactly one conclusion after setup_started and
\* before the customer starts, one that is not served none; a session that
\* came up is answered for when the helper ends.
AccessTold ==
  LET access == {i \in DOMAIN told : told[i] \in Conclusions \cup {"setup_started", "stopped"}}
      last(stages) == \E i \in access : told[i] \in stages /\ \A j \in access : j <= i
  IN /\ ~Served => access = {}
     /\ pc = "supervise" /\ Served =>
          \E i, j \in access : /\ i < j /\ access = {i, j}
                               /\ told[i] = "setup_started" /\ told[j] \in Conclusions
     /\ pc = "supervise" => (session <=> last({"ready"}))
     /\ pc = "exited" /\ access # {} => last({"stopped", "degraded", "skipped"})

(* The customer starts only after a response bound to the request this     *)
(* process signed, with everything that response made mandatory, with      *)
(* secrets that are whole and this job's (DeliveryExact), in an            *)
(* environment where signed values and secrets win over inherited and      *)
(* defaulted ones, a helper-owned name is the helper's or absent, and a    *)
(* protected name is neither inherited nor signed (EnvironmentSound).      *)
StartGate == ContactGate /\ DeliveryExact /\ EnvironmentSound

(* "Runtime values cannot reintroduce those protected names"               *)
(* (src/README.md:165-166): the customer starts without them, whoever set  *)
(* them.  The signed map is checked for them (runtime_env.rs), the         *)
(* environment of the customer secrets is not (job_secrets.rs).            *)
ProtectedStayOut == pc = "supervise" => \A n \in Protected : customer[n] = "none"

(* The boot keeps within its retry policy, posts one signed request and    *)
(* reports its own failure once; a served access attachment is never left  *)
(* at setup_started; the v1 directory only moves forward (ContactSafe,     *)
(* AccessTold, DiscoveryCurrent).                                          *)
BootSafe == ContactSafe /\ DeliveryTypeOK /\ AccessTold /\ DiscoveryCurrent

(* The boot thread ends: it reaches supervision or exits.                  *)
BootEnds == <>(pc \in {"supervise", "exited"})
=============================================================================
