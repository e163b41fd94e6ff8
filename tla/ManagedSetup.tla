---------------------------- MODULE ManagedSetup ----------------------------
(***************************************************************************)
(* The built-in managed provider, src/src/access/managed.rs: setup of a    *)
(* loopback Dropbear and of the connector thread beside it, which reports  *)
(* its registration over a channel and reconnects until the credential     *)
(* expires or it is cancelled.  The tree and the Dropbear of a managed     *)
(* setup are those of attempt 0.                                           *)
(***************************************************************************)
EXTENDS AccessSetup

CONSTANTS
  MaxEvents,   \* bound: registration events waiting in the channel
  Jitters      \* the jitter of a delay, in milliseconds: a u16 modulo 251

ASSUME EventsAssumption == MaxEvents \in Nat
ASSUME JitterAssumption == Jitters \subseteq 0..250

VARIABLES
  conn,     \* the connector thread: [at, attempt, admitted, streak, sender, delay]
  cancel,   \* ConnectorWorker.cancel
  expired,  \* the credential has expired
  events,   \* the registration channel
  latest,   \* latest_failure of wait_for_connector_registration
  failure,  \* the code the failing setup will return
  sent      \* history: the events ever sent

connVars == <<conn, cancel, expired, events, latest, failure, sent>>
allSetupVars == <<setupVars, connVars>>

AttemptCap == 5    \* reconnect_delay looks no further
RefusalCap == 7    \* refused_after_admission_delay looks no further

\* Where the connector awaits a peer outside every select!, with the cancellation
\* not polled: a frame being forwarded or a ping answered, the close that follows
\* a wrong subprotocol, the close at the end of the SSH stream, and the shutdown
\* and close that follow the cancellation itself.
Blocked == {"writing", "refusing", "closing", "leaving"}

\* ConnectorAttemptError: "transport_failed" stands for every failure before the
\* upgrade but a 401 (timeout, other statuses, bad configuration), which the
\* driver does not tell apart.
Errors == {"http_refused_401", "transport_failed", "protocol_failed", "relay_failed"}

ConnInit ==
  /\ conn = [at |-> "off", attempt |-> 0, admitted |-> FALSE, streak |-> 0,
             sender |-> FALSE, delay |-> 0]
  /\ cancel = FALSE
  /\ expired = FALSE
  /\ events = <<>>
  /\ latest = "none"
  /\ failure = "none"
  /\ sent = <<>>

ManagedInit == SetupInit /\ ConnInit
-----------------------------------------------------------------------------
(* Setup.                                                                  *)

ManagedUnchanged ==
  UNCHANGED <<boot, environment, credential, late, fetches, attempt, keyFiles, ups, spent>>

\* setup_in_root returned Err(c): the root goes, best effort.
ManagedFails(c) ==
  /\ RemoveTree(keyFiles, faults)
  /\ Deliver(c)

\* setup_deadline, validate_binding (schema, fence, expiry, binding, keys and
\* their fingerprints), private_root.
BindManaged ==
  /\ pc = "managed"
  /\ \/ /\ late \/ ~boot.bound
        /\ Deliver("access_setup_failed")
        /\ UNCHANGED <<trees, faults>>
     \/ /\ ~late /\ boot.bound
        /\ \/ Deliver("access_setup_failed")
              /\ \/ UNCHANGED <<trees, faults>>
                 \/ trees' = trees \cup {attempt} /\ faults' = faults \cup {"unlink"}
           \/ pc' = "toolchain" /\ trees' = trees \cup {attempt}
              /\ UNCHANGED <<caller, session, faults>>
  /\ ManagedUnchanged
  /\ UNCHANGED <<sidecars, connVars>>

\* verify_toolchain_binary, for the helper and both Dropbear programs.
ToolchainCodes ==
  {"access_toolchain_digest_invalid", "access_toolchain_missing",
   "access_toolchain_invalid", "access_toolchain_digest_mismatch", "access_setup_failed"}

VerifyToolchain ==
  /\ pc = "toolchain"
  /\ \/ pc' = "hostkey" /\ UNCHANGED <<caller, session, trees, keyFiles, faults>>
     \/ \E c \in ToolchainCodes : ManagedFails(c)
  /\ UNCHANGED <<boot, environment, credential, late, fetches, attempt, ups, spent,
                 sidecars, connVars>>

\* The option check, the host key and its evidence, the authorized keys, the
\* endpoint.  Each command is killed at the setup deadline.
PrepareHostKey ==
  /\ pc = "hostkey"
  /\ \/ ~late /\ pc' = "dropbear" /\ UNCHANGED <<caller, session, trees, keyFiles, faults>>
     \/ \E c \in {"access_setup_failed", "access_dropbear_options_unsupported"} :
          ManagedFails(c)
  /\ UNCHANGED <<boot, environment, credential, late, fetches, attempt, ups, spent,
                 sidecars, connVars>>

\* run_capture's thread::spawn panics when the host refuses a thread.
CapturePanics ==
  /\ pc = "hostkey"
  /\ Deliver("access_setup_panicked")
  /\ faults' = faults \cup {"panic"}
  /\ ManagedUnchanged
  /\ UNCHANGED <<trees, sidecars, connVars>>

\* spawn_dropbear, check_dropbear_started, verify_dropbear_listener: a server
\* that does not answer with its banner is terminated.
StartDropbear ==
  /\ pc = "dropbear"
  /\ \/ /\ ~late
        /\ pc' = "connector"
        /\ sidecars' = sidecars \cup {attempt}
        /\ UNCHANGED <<caller, session, trees, keyFiles, faults>>
     \/ /\ \E c \in {"access_sidecar_spawn_failed", "access_sidecar_failed"} : ManagedFails(c)
        /\ UNCHANGED sidecars
  /\ UNCHANGED <<boot, environment, credential, late, fetches, attempt, ups, spent, connVars>>

\* spawn_connector; without a thread Dropbear is terminated.
SpawnConnector ==
  /\ pc = "connector"
  /\ \/ /\ pc' = "register"
        /\ conn' = [conn EXCEPT !.at = "check", !.sender = TRUE]
        /\ UNCHANGED <<caller, session, trees, keyFiles, sidecars, faults>>
     \/ /\ sidecars' = sidecars \ {attempt}
        /\ RemoveTree(keyFiles, faults \cup {"thread"})
        /\ Deliver("access_connector_start_failed")
        /\ UNCHANGED conn
  /\ UNCHANGED <<boot, environment, credential, late, fetches, attempt, ups, spent,
                 cancel, expired, events, latest, failure, sent>>

\* The code of the latest failed attempt, when one was heard of.
RegistrationCode == IF latest = "none" THEN "access_connector_registration_failed" ELSE latest

\* Mutant: the first failure heard of is kept.
ReceiveFirst ==
  /\ pc = "register"
  /\ ~late
  /\ events # <<>>
  /\ IF Head(events) = "registered"
     THEN Deliver("session") /\ UNCHANGED latest
     ELSE /\ latest' = IF latest = "none" THEN Head(events) ELSE latest
          /\ UNCHANGED <<pc, caller, session>>
  /\ events' = Tail(events)
  /\ ManagedUnchanged
  /\ UNCHANGED <<trees, sidecars, faults, conn, cancel, expired, failure, sent>>

\* wait_for_connector_registration takes the events in order.
Receive ==
  /\ pc = "register"
  /\ ~late
  /\ events # <<>>
  /\ IF Head(events) = "registered"
     THEN Deliver("session") /\ UNCHANGED latest
     ELSE latest' = Head(events) /\ UNCHANGED <<pc, caller, session>>
  /\ events' = Tail(events)
  /\ ManagedUnchanged
  /\ UNCHANGED <<trees, sidecars, faults, conn, cancel, expired, failure, sent>>

\* The deadline passed, or the connector hung up: cancel it and join it.
GiveUpRegistration ==
  /\ pc = "register"
  /\ late \/ (events = <<>> /\ ~conn.sender)
  /\ failure' = RegistrationCode
  /\ cancel' = TRUE
  /\ pc' = "join"
  /\ ManagedUnchanged
  /\ UNCHANGED <<caller, session, trees, sidecars, faults, conn, expired, events, latest, sent>>

\* connector.stop() has joined the thread; Dropbear is terminated.
Join ==
  /\ pc = "join"
  /\ conn.at = "finished"
  /\ sidecars' = sidecars \ {attempt}
  /\ ManagedFails(failure)
  /\ UNCHANGED <<boot, environment, credential, late, fetches, attempt, ups, spent, connVars>>

\* ManagedAccessSession::stop asks the connector to end ...
StopConnector ==
  /\ boot.kind = "managed"
  /\ session \in {"open", "late"}
  /\ ~cancel
  /\ cancel' = TRUE
  /\ UNCHANGED <<setupVars, conn, expired, events, latest, failure, sent>>

\* ... joins it, terminates Dropbear and removes the root.
StopManaged ==
  /\ boot.kind = "managed"
  /\ session \in {"open", "late"}
  /\ cancel
  /\ conn.at = "finished"
  /\ session' = "stopped"
  /\ sidecars' = sidecars \ {attempt}
  /\ RemoveTree(keyFiles, faults)
  /\ UNCHANGED <<boot, environment, credential, pc, caller, late, fetches, attempt, ups, spent,
                 connVars>>
-----------------------------------------------------------------------------
(* The connector thread.                                                   *)

Pow2(n) == 2 ^ n
AtMost(a, b) == IF a < b THEN a ELSE b

\* Milliseconds, before the jitter.
ReconnectDelay(attempts) == AtMost(250 * Pow2(AtMost(attempts, 5)), 8000)

\* Mutant: the exponent is not reduced by one and the ceiling is forgotten.
RefusedDelayWraps(streak) == 8000 * Pow2(streak % 4)

RefusedDelay(streak) ==
  AtMost(8000 * Pow2(AtMost(IF streak = 0 THEN 0 ELSE streak - 1, 6)), 300000)

\* The end of connector_driver drops the sender.
ConnEnds == conn' = [conn EXCEPT !.at = "finished", !.sender = FALSE]

Send(e) ==
  IF conn.sender THEN events' = Append(events, e) /\ sent' = Append(sent, e)
  ELSE UNCHANGED <<events, sent>>

Room == conn.sender => Len(sent) < MaxEvents

\* The loop condition.
ConnCheck ==
  /\ conn.at = "check"
  /\ IF cancel \/ expired THEN ConnEnds
     ELSE conn' = [conn EXCEPT !.at = "connecting"]
  /\ UNCHANGED <<setupVars, cancel, expired, events, latest, failure, sent>>

\* One failed attempt: reported, counted, and retried after a delay that
\* depends on whether the credential was ever admitted.
AttemptFailed(e, j) ==
  LET admitted == conn.admitted \/ e \in {"relay_failed", "protocol_failed"}
      refused == e = "http_refused_401"
      tries == AtMost(conn.attempt + 1, AttemptCap)
      streak == IF refused THEN AtMost(conn.streak + 1, RefusalCap) ELSE 0
  IN /\ Send(e)
     /\ IF cancel \/ expired THEN ConnEnds
        ELSE conn' = [conn EXCEPT !.at = "waiting", !.attempt = tries,
                        !.admitted = admitted, !.streak = streak,
                        !.delay = j + IF admitted /\ refused THEN RefusedDelay(streak)
                                      ELSE ReconnectDelay(tries)]

\* connect_once up to the upgrade.
ConnectErrors == {"http_refused_401", "transport_failed"}

ConnectFails ==
  /\ conn.at = "connecting"
  /\ Room
  /\ \E e \in ConnectErrors, j \in Jitters : AttemptFailed(e, j)
  /\ UNCHANGED <<setupVars, cancel, expired, latest, failure>>

\* The gateway named another subprotocol: close, then fail the attempt.
Refuse ==
  /\ conn.at = "connecting"
  /\ Room
  /\ conn' = [conn EXCEPT !.at = "refusing"]
  /\ UNCHANGED <<setupVars, cancel, expired, events, latest, failure, sent>>

Connected ==
  /\ conn.at = "connecting"
  /\ Room
  /\ conn' = [conn EXCEPT !.at = "relaying"]
  /\ Send("registered")
  /\ UNCHANGED <<setupVars, cancel, expired, latest, failure>>

\* wait_for_open_and_relay failed: a peer that hung up, a limit, a bad frame,
\* a write that failed; or the close after a wrong subprotocol is over.
RelayFails ==
  /\ conn.at \in {"relaying", "writing", "refusing"}
  /\ Room
  /\ \E e \in {"relay_failed", "protocol_failed"}, j \in Jitters :
       /\ e = "relay_failed" => conn.at # "refusing"
       /\ e = "protocol_failed" => conn.at # "writing"
       /\ AttemptFailed(e, j)
  /\ UNCHANGED <<setupVars, cancel, expired, latest, failure>>

\* A write starts: a frame to a peer, or the close at the end of the SSH stream.
RelayWrites ==
  /\ conn.at = "relaying"
  /\ \E a \in {"writing", "closing"} : conn' = [conn EXCEPT !.at = a]
  /\ UNCHANGED <<setupVars, cancel, expired, events, latest, failure, sent>>

\* The peer took the frame.
RelayWritten ==
  /\ conn.at = "writing"
  /\ conn' = [conn EXCEPT !.at = "relaying"]
  /\ UNCHANGED <<setupVars, cancel, expired, events, latest, failure, sent>>

\* A relay that ran and was closed by the peer, or whose close is over: the
\* sender is dropped, the attempts reset.
RelayEnds ==
  /\ conn.at \in {"relaying", "closing"}
  /\ \E j \in Jitters :
       conn' = [conn EXCEPT !.at = "waiting", !.sender = FALSE, !.attempt = 0,
                   !.admitted = TRUE, !.streak = 0, !.delay = j + ReconnectDelay(0)]
  /\ UNCHANGED <<setupVars, cancel, expired, events, latest, failure, sent>>

\* The shutdown and the close after the cancellation are over.
RelayLeft ==
  /\ conn.at = "leaving"
  /\ ConnEnds
  /\ UNCHANGED <<setupVars, cancel, expired, events, latest, failure, sent>>

\* Mutant: an open relay does not look at the cancellation.
ConnCancelledWaitOnly ==
  /\ cancel
  /\ conn.at \in {"connecting", "waiting"}
  /\ ConnEnds
  /\ UNCHANGED <<setupVars, cancel, expired, events, latest, failure, sent>>

\* The waits that poll the cancellation.  An open relay then says goodbye to its
\* peers; one that still connects to Dropbear ends at once.
ConnCancelled ==
  /\ cancel
  /\ \/ conn.at \in {"connecting", "relaying", "waiting"} /\ ConnEnds
     \/ conn.at = "relaying" /\ conn' = [conn EXCEPT !.at = "leaving"]
  /\ UNCHANGED <<setupVars, cancel, expired, events, latest, failure, sent>>

ConnWaited ==
  /\ conn.at = "waiting"
  /\ conn' = [conn EXCEPT !.at = "check"]
  /\ UNCHANGED <<setupVars, cancel, expired, events, latest, failure, sent>>

Expire ==
  /\ conn.at \notin {"off", "finished"}
  /\ ~expired
  /\ expired' = TRUE
  /\ UNCHANGED <<setupVars, conn, cancel, events, latest, failure, sent>>

ManagedStep ==
  \/ BindManaged \/ VerifyToolchain \/ PrepareHostKey \/ CapturePanics
  \/ StartDropbear \/ SpawnConnector \/ Receive \/ GiveUpRegistration \/ Join

\* What the thread does by itself.
ConnectorStep == ConnCheck \/ ConnectFails \/ Refuse \/ Connected \/ ConnCancelled \/ ConnWaited

\* What needs a peer: a relay lasts, and a write blocks, as long as the peers like.
RelayStep == RelayFails \/ RelayWrites \/ RelayWritten \/ RelayEnds \/ RelayLeft
=============================================================================
