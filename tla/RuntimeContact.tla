--------------------------- MODULE RuntimeContact ---------------------------
(***************************************************************************)
(* One boot of the helper, from main to the launch of the customer:        *)
(* optional pre-contact evidence, the bridge probe, signed first contact   *)
(* with its two retry loops (src/src/contact.rs), and the conclusions of   *)
(* the three deliveries that follow: the runtime environment, the customer *)
(* secrets and the logging configuration                                   *)
(* (src/src/bin/liskov-runtime-contact.rs).  How a delivery comes about is *)
(* SecretDelivery, what follows is Launch.                                 *)
(*                                                                         *)
(* Time is the clock of SystemRuntime, which both retry loops read.  The   *)
(* bridge and the core are the environment: a call takes any time up to    *)
(* its timeout and returns any answer the code tells apart.                *)
(***************************************************************************)
EXTENDS Naturals, Sequences

CONSTANTS
  MaxAttempts, MaxElapsed, InitialDelay, Interval,  \* RetryPolicy
  IdentityTime,  \* longest discovery: three bridge calls
  SignTime,      \* longest signer call
  HttpTime,      \* HTTP_ATTEMPT_TIMEOUT
  BodyTtl        \* RUNTIME_BOOTSTRAP_TTL_MS

ASSUME ContactAssumption ==
  /\ MaxAttempts \in Nat \ {0}
  /\ {MaxElapsed, InitialDelay, Interval} \subseteq Nat
  /\ {IdentityTime, SignTime, HttpTime} \subseteq Nat
  /\ BodyTtl \in Nat
  /\ MaxElapsed <= BodyTtl
  /\ SignTime <= BodyTtl

VARIABLES
  pc,
  probing,            \* --bridge-probe
  reporter,           \* the x.pc extension parsed
  started, terminal,  \* its AtomicBools
  sent,               \* history: evidence posted
  elapsed,            \* SystemRuntime::elapsed
  attempt, delay,     \* locals of the retry loop that runs
  nonce,              \* requests signed so far; the last is the one in use
  signedAt,           \* its issued_at_ms
  posted,             \* history: requests posted to the core
  response,           \* the bootstrap response the helper accepted
  environment,        \* what runtime_environment holds
  exit                \* exit status and the stage that chose it

evidence == <<reporter, started, terminal, sent>>
clock == <<elapsed, attempt, delay>>
request == <<nonce, signedAt, posted>>
vars == <<pc, probing, evidence, clock, request, response, environment, exit>>

Loops == {"identity", "post"}
Pcs == {"start", "socket", "probe", "open", "url", "identity",
        "identity_wait", "sign", "post", "post_wait", "connect", "env",
        "secrets", "logging", "files", "attach", "access", "environ",
        "supervise", "exited"}
Hints == {"none", "optional", "required"}

\* The answer to request 0 is one meant for an earlier process.
\* access "published": a Tailscale attachment with publications.
Responses ==
  [instance : 0..1, env : BOOLEAN, secrets : Hints, logging : BOOLEAN,
   access : {"none", "plain", "published"}]
NoResponse ==
  [instance |-> 0, env |-> FALSE, secrets |-> "none", logging |-> FALSE,
   access |-> "none"]

MaxClock == MaxElapsed + IdentityTime + SignTime + HttpTime

(* The type invariant.  It bounds the whole of first contact: no attempt   *)
(* count beyond the policy, and the clock past the ceiling only by the     *)
(* calls that may still follow the last admitted wait.                     *)
TypeOK ==
  /\ pc \in Pcs
  /\ {probing, reporter, started, terminal} \subseteq BOOLEAN
  /\ sent \in Seq({"started", "failed"})
  /\ elapsed \in 0..MaxClock
  /\ attempt \in 0..MaxAttempts
  /\ delay \in {InitialDelay, Interval}
  /\ nonce \in 0..1
  /\ signedAt \in 0..MaxClock
  /\ posted \subseteq 0..1
  /\ response \in Responses
  /\ environment \subseteq {"runtime", "secrets", "logging"}
  /\ exit \in [status : {0, 2, 70, 75}, stage : Pcs]

Init ==
  /\ pc = "start"
  /\ probing \in BOOLEAN
  /\ reporter \in BOOLEAN
  /\ started = FALSE
  /\ terminal = FALSE
  /\ sent = <<>>
  /\ elapsed = 0
  /\ attempt = 0
  /\ delay = InitialDelay
  /\ nonce = 0
  /\ signedAt = 0
  /\ posted = {}
  /\ response = NoResponse
  /\ environment = {}
  /\ exit = [status |-> 0, stage |-> "start"]
----------------------------------------------------------------------------
(* Pre-contact evidence: each report gets one HTTP attempt, whose outcome  *)
(* is ignored.                                                             *)

ReportStarted ==
  IF reporter /\ ~started
  THEN started' = TRUE /\ sent' = Append(sent, "started")
  ELSE UNCHANGED <<started, sent>>

ReportFailed ==
  IF reporter /\ ~terminal
  THEN terminal' = TRUE /\ sent' = Append(sent, "failed")
  ELSE UNCHANGED <<terminal, sent>>

\* Report the failure and leave main with this status.
Fail(status) ==
  /\ ReportFailed
  /\ exit' = [status |-> status, stage |-> pc]
  /\ pc' = "exited"
  /\ UNCHANGED <<probing, reporter, started, response, environment>>

Start ==
  /\ pc = "start"
  /\ ReportStarted
  /\ pc' = "socket"
  /\ UNCHANGED <<probing, reporter, terminal, clock, request, response,
                 environment, exit>>

GoTo(from, to) ==
  /\ pc = from
  /\ pc' = to
  /\ UNCHANGED <<probing, evidence, clock, request, response, environment,
                 exit>>

FailAt(from, status) ==
  /\ pc = from
  /\ Fail(status)
  /\ UNCHANGED <<clock, request>>

SocketNamed == GoTo("socket", IF probing THEN "probe" ELSE "open")
SocketMissing == FailAt("socket", 2)

ProbeClean == GoTo("probe", "open")
ProbeFails == FailAt("probe", 70)

\* establish_runtime_contact: the bridge comes before the core URL.
BridgeOpens == GoTo("open", "url")
BridgeUnusable == FailAt("open", 70)
CoreUrlValid == GoTo("url", "identity")
CoreUrlInvalid == FailAt("url", 2)
----------------------------------------------------------------------------
(* The two retry loops. *)

\* Where a loop waits for next_delay.
Waiting(loop) == IF loop = "identity" THEN "identity_wait" ELSE "post_wait"

Exhausted(n, now) == n >= MaxAttempts \/ now + delay > MaxElapsed

\* After a retryable failure: give up, or wait for next_delay.
Retry(loop, status) ==
  /\ attempt' = attempt + 1
  /\ UNCHANGED delay
  /\ \/ /\ Exhausted(attempt', elapsed')
        /\ Fail(status)
     \/ /\ ~Exhausted(attempt', elapsed')
        /\ pc' = Waiting(loop)
        /\ UNCHANGED <<probing, evidence, response, environment, exit>>

\* Mutant: every wait starts a new budget.
SleepNewBudget(loop) ==
  /\ pc = Waiting(loop)
  /\ elapsed' = 0
  /\ attempt' = 0
  /\ delay' = Interval
  /\ pc' = loop
  /\ UNCHANGED <<probing, evidence, request, response, environment, exit>>

Sleep(loop) ==
  /\ pc = Waiting(loop)
  /\ elapsed' = elapsed + delay
  /\ delay' = Interval
  /\ pc' = loop
  /\ UNCHANGED <<attempt, probing, evidence, request, response, environment,
                 exit>>

\* Locals of the next loop.
Leave(to) ==
  /\ pc' = to
  /\ attempt' = 0
  /\ delay' = InitialDelay

DiscoverIdentity(t) ==
  /\ pc = "identity"
  /\ elapsed' = elapsed + t
  /\ Leave("sign")
  /\ UNCHANGED <<probing, evidence, request, response, environment, exit>>

\* A bridge error, or a reply that does not name this processor yet.
IdentityUnavailable(t) ==
  /\ pc = "identity"
  /\ elapsed' = elapsed + t
  /\ Retry("identity", 70)
  /\ UNCHANGED request

IdentityInvalid(t) ==
  /\ pc = "identity"
  /\ elapsed' = elapsed + t
  /\ Fail(70)
  /\ UNCHANGED <<attempt, delay, request>>

\* The nonce and the issue time are fixed once, before the signer call.
SignRequest(t) ==
  /\ pc = "sign"
  /\ nonce' = nonce + 1
  /\ signedAt' = elapsed
  /\ elapsed' = elapsed + t
  /\ Leave("post")
  /\ UNCHANGED <<probing, evidence, posted, response, environment, exit>>

SignFails(t) ==
  /\ pc = "sign"
  /\ elapsed' = elapsed + t
  /\ Fail(70)
  /\ UNCHANGED <<attempt, delay, request>>

\* The core's verdict on a request it refused: an explicit flag wins, then a
\* "_not_found" code, then the status.
ResponseIsRetryable(flag, notFound, status) ==
  flag = "true" \/ (flag = "none" /\ (notFound \/ status))

AttemptContact(t) ==
  /\ pc = "post"
  /\ elapsed' = elapsed + t
  /\ posted' = posted \cup {nonce}
  /\ UNCHANGED <<nonce, signedAt>>

\* Contact returns, and its SystemRuntime and its request end with it.
LeaveContact(r) ==
  /\ pc = "post"
  /\ posted' = posted \cup {nonce}
  /\ response' = r
  /\ elapsed' = 0 /\ signedAt' = 0
  /\ Leave("connect")
  /\ UNCHANGED <<probing, evidence, nonce, environment, exit>>

\* Mutant: a response for another runtime instance is accepted.
ContactAcceptedUnbound(r) == LeaveContact(r)

ContactAccepted(r) ==
  /\ r.instance = nonce
  /\ LeaveContact(r)

\* An oversized, malformed or unbound response is final.
ContactInvalid(t) ==
  /\ AttemptContact(t)
  /\ Fail(70)
  /\ UNCHANGED <<attempt, delay>>

\* Mutant: the request is signed again for every attempt.
ContactUnavailableResigned(t) ==
  /\ pc = "post"
  /\ elapsed' = elapsed + t
  /\ posted' = posted \cup {nonce}
  /\ nonce' = nonce + 1
  /\ UNCHANGED signedAt
  /\ Retry("post", 75)

\* The transport failed.
ContactUnavailable(t) ==
  /\ AttemptContact(t)
  /\ Retry("post", 75)

ContactRefused(t, flag, notFound, status) ==
  /\ AttemptContact(t)
  /\ \/ /\ ResponseIsRetryable(flag, notFound, status)
        /\ Retry("post", 75)
     \/ /\ ~ResponseIsRetryable(flag, notFound, status)
        /\ Fail(70)
        /\ UNCHANGED <<attempt, delay>>
----------------------------------------------------------------------------
(* After contact. *)

BridgeReopens == GoTo("connect", "env")

\* The one failure main does not report.
BridgeLost ==
  /\ pc = "connect"
  /\ exit' = [status |-> 70, stage |-> pc]
  /\ pc' = "exited"
  /\ UNCHANGED <<probing, evidence, clock, request, response, environment>>

Grow(from, to, values) ==
  /\ pc = from
  /\ environment' = environment \cup values
  /\ pc' = to
  /\ UNCHANGED <<probing, evidence, clock, request, response, exit>>

LoadEnvironment ==
  Grow("env", "secrets", IF response.env THEN {"runtime"} ELSE {})

EnvironmentFails(status) ==
  /\ response.env
  /\ FailAt("env", status)

\* The delivery joins the environment only once its files are installed.
HydrateSecrets ==
  Grow("secrets", "logging",
       IF response.secrets = "none" THEN {} ELSE {"secrets"})

SecretsFail ==
  /\ response.secrets # "none"
  /\ \/ /\ response.secrets = "required"
        /\ FailAt("secrets", 70)
     \/ /\ response.secrets = "optional"
        /\ GoTo("secrets", "logging")

\* Best effort: customer execution goes on either way.
HydrateLogging(ok) ==
  Grow("logging", "files", IF ok THEN {"logging"} ELSE {})

\* From main to the runtime environment.
Contact ==
  \/ Start
  \/ SocketNamed \/ SocketMissing
  \/ ProbeClean \/ ProbeFails
  \/ BridgeOpens \/ BridgeUnusable
  \/ CoreUrlValid \/ CoreUrlInvalid
  \/ \E loop \in Loops : Sleep(loop)
  \/ \E t \in 0..IdentityTime :
       DiscoverIdentity(t) \/ IdentityUnavailable(t) \/ IdentityInvalid(t)
  \/ \E t \in 0..SignTime : SignRequest(t) \/ SignFails(t)
  \/ /\ pc = "post"
     /\ \/ \E r \in Responses : ContactAccepted(r)
        \/ \E t \in 0..HttpTime :
             \/ ContactInvalid(t)
             \/ ContactUnavailable(t)
             \/ \E flag \in {"true", "false", "none"}, notFound, status \in BOOLEAN :
                  ContactRefused(t, flag, notFound, status)
  \/ BridgeReopens \/ BridgeLost
  \/ \E status \in {70, 75} : EnvironmentFails(status)
----------------------------------------------------------------------------
(* Properties. *)

(* The customer starts only after a response bound to the request this     *)
(* process signed, and with everything that response made mandatory.       *)
ContactGate ==
  pc = "supervise" =>
    /\ nonce # 0
    /\ response.instance = nonce
    /\ response.env => "runtime" \in environment
    /\ response.secrets = "required" => "secrets" \in environment

(* README "signs once per process and reuses the exact serialized request  *)
(* for all HTTP attempts": whatever retries happen, the core sees one      *)
(* request, and never past its expiry when the attempt starts.             *)
OneLiveRequest ==
  /\ \A n, m \in posted : n = m
  /\ pc = "post" => nonce = 1 /\ elapsed <= signedAt + BodyTtl

(* Every boot that ends before supervision says so exactly once after the  *)
(* started report, except when the bridge is lost between contact and      *)
(* environment retrieval; a boot that reaches the customer never does.     *)
FailureEvidence ==
  /\ sent \in {<<>>, <<"started">>, <<"started", "failed">>}
  /\ pc = "supervise" => ~terminal
  /\ pc = "exited" /\ exit.stage \notin {"connect", "supervise"} => terminal = reporter

(* Within the attempts and the ceiling of contact.rs, one signed request   *)
(* is posted and a boot that fails leaves one terminal report.             *)
ContactSafe == TypeOK /\ OneLiveRequest /\ FailureEvidence
============================================================================
