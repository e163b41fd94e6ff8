# A TLA+ model of liskov-runtime-cargo

`liskov-runtime-contact` is the helper that boots a customer's command on an
untrusted processor: it signs a first contact with the Liskov core, receives
the runtime environment and the secrets, installs the secret files, opens an
optional Runtime SSH session, and then supervises the customer, restarting it
by policy and reporting diagnostics and logs until the job ends. Beside that it
runs bounded background jobs: fact and coverage workers, network samples and
traversal measurements, ingress tunnels, state snapshots, payload downloads.
This project models the parts of it where several actors, failures or restarts
meet, checks them with TLC on small instances, and proves the most important
invariants with TLAPS for every instance.

Paths are written from the root that holds the repository as `src/`, so the
Rust sources are under `src/src/` and the repository's own README is
`src/README.md`. `PROJECT.json` gives, for every definition that models code,
the lines it models.

## 1. Inventory

State, operations and hard behaviour of each component, what makes it correct,
and the module that models it.

| Component (source) | State | Operations | Hard behaviour | Correct when | Module |
|---|---|---|---|---|---|
| Secret file installer (`file_secrets.rs`) | destination, staging and backup entries per file; PreparedFile flags | prepare, write, commit, rollback, backup removal | death between any two system calls, over several boots; failures during the rollback | a settled secret is never lost, success and rollback are whole | FileSecrets |
| Customer supervisor (`supervisor.rs`) | pending and forwarded signal, process group, restart counters, deadlines | signal capture and forwarding, poll, cleanup, restart decision, backoff | signal against exit, cleanup and backoff; descendants that refuse to die or leave the group | attempts never overlap, a stop is final, the exit is exact, restarts obey the schedule | Supervisor |
| Access session (`access.rs`, `access/managed.rs`) | sidecar state, respawn budget, connector thread | sidecar_event, respawn, stop | shares the process table with the supervisor's `waitpid(-1)` | one report per death, one sidecar at a time, no effect on supervision | SupervisedAccess |
| Access setup and endpoints (`access.rs`, `access/*.rs`) | credential, workspaces, auth-key files, daemons, connector, serve configuration | fetch, bring-up with retries, spawn, register, relay, publish, probe, stop | a wedged setup thread, sessions that arrive after the watchdog, a one-off key, an endpoint changed outside | nothing is left running or on disk; the caller is always answered | AccessSetup, ManagedSetup, Endpoints, AccessLifecycle |
| Ingress drivers (`access/cloudflared.rs`, `access/acurast_tunnel.rs`, `tunnel_probe.rs`) | respawn ladder; durable attempt marker | events, exits, ticks; start, status, certificate | a job that crashes around its one start | budgets are kept | CloudflaredConnector, AcurastTunnel |
| Diagnostics (`diagnostics.rs`) | bounded queue, sequence counter, worker | report, sample, sign, post with retries, drop | worker behind the supervisor by several children; lost answers | a sequence number names one observation; the drop never blocks | Diagnostics |
| Direct peer discovery (`discovery/direct.rs`), application readiness (`application_ready.rs`) | generation, advertisement, directory file, failure flag; the ready file | begin_child, end_child, apply response; remove, sample | responses that outlive the child they were requested for | no child sees another child's directory, failure or readiness | Diagnostics |
| First contact and boot (`contact.rs`, `bin/liskov-runtime-contact.rs`, `precontact.rs`, `protocol.rs`) | retry clocks, the signed request, accepted response, evidence flags | probe, identity, sign, post, load, hydrate | two retry loops on one clock; answers bound to another process; many early returns | mandatory deliveries gate the start; every failure is reported once; the boot ends | RuntimeContact, Launch |
| Deliveries (`runtime_env.rs`, `job_secrets.rs`, `log_config_secret.rs`) | grant, payload, key tier | find the grant, fetch, decrypt, validate, apply | foreign, damaged or partial payloads; keys that change tier | only whole deliveries of this job are applied | SecretDelivery |
| Customer environment (`customer_environment.rs`) | the child's variables | protect, default, repair, report | names that several parties set | no inherited value beats a signed one, a secret or the helper's own | Launch |
| Discovery v1 file (`discovery.rs`) | one snapshot file | publish, refresh failure, remove | rename that fails half way; stale snapshots | the file only moves forward | DiscoveryFile |
| Provider logging (`logging.rs`) | two bounded queues, drop counters, pending records, retained batch, chain head | capture, emit, admit, flush, rebase, finish | four threads and a lossy sink; retained batches against new insertions | nothing leaves unsent and uncounted; customer first; exit not delayed | Logging |
| Network traversal (`network_traversal/`) | grant and budget, gateway, port mapping, NAT evidence | reserve, discover, create, verify, delete, observe | lost, late and repeated answers; a mapping whose fate is in doubt | a mapping that was created is deleted or said to be in doubt; a foreign one is untouched | TraversalSession, GatewayDiscovery, MappingLifecycle, UdpBehaviour, Traversal |
| Gateway texts (`gateway.rs`, `igd.rs`, `mapping/upnp.rs`) | - | read routes, SSDP replies, device and SOAP documents | odd, nested, repeated and truncated input | a reader accepts what its format says and no more | GatewayDocuments |
| Processor facts and coverage (`processor_facts*`, `coverage.rs`) | one-shot detached workers | authorize, collect, sign, post | a wall clock set back; process exit at any point | a grant is spent once and within its window | ProcessorFacts, HardwareReadings |
| Network sampling (`network_sample*`, `inbound_reachability.rs`) | bounded measurements | UDP stage, legs, receipt, inbound check | stalls past a budget | an admitted sample meets its contract | NetworkSample |
| State snapshot (`state_snapshot.rs`) | objects, signed manifest chain, restored tree | write, verify, restore | crashes, a changing source, a faulty data plane | a restore is whole or absent | StateSnapshot |
| Payload download (`payload_download.rs`, `payload_protocol*`) | partial file, descriptor, attempts | negotiate, request a range, verify | cuts, wrong ranges, expiry | only verified bytes are handed over | PayloadDownload |
| Host samplers (`thermal.rs`, `memory.rs`) | a reader thread behind two one-place channels | request, read, await | a read that outlives its beat | a value is of the beat it is reported for | HostSamplers |
| Tunnel probe binary, hand-off, hardware report, bridge and HTTP clients | none or private | one request and one answer, or pure | - | - | - |

How they interact. `main` runs the boot (first contact, environment, secrets,
logging configuration) on one thread, which then opens the discovery files,
sets up access under a watchdog, builds the customer's environment and enters
supervision. Supervision owns the customer's process group; once per pass of
its loop it drives the access session, and it brackets each child with
`begin_child`/`end_child` on the reporter, which clears readiness and discovery
state. The reporter and the log worker are threads fed through bounded queues
that the supervisor never waits on, except for the timed waits at the end. The
process table is shared: the supervisor reaps any child, the access session
waits for one of its own. The background jobs share nothing but the clock and
the process, which may exit under them.

## 2. Modules

`MC*.tla` gives a module's constants values for TLC and `*Proofs.tla` holds its
theorems. Definitions named as mutants in a comment (`\* Mutant: ...`) are
plausible bugs; each shows that one property depends on the code it says it
depends on. They are not part of any specification.

### Boot

**RuntimeContact** is the first half of a boot: evidence, probe, bridge, core
URL, identity and post loops, and the conclusions of the deliveries. A call
takes any time up to its timeout and returns any answer that the code tells
apart; `response_is_retryable` is translated with its three inputs.

**SecretDelivery** extends it with the deliveries. The signed environment is one
signed document; the customer secrets and the log configuration share the
two-request Lockbox protocol: find the grant, fetch the payload of the Lockbox
it names, decrypt with the key of the tier that the request named, validate
versions against ids and secrets against versions, apply. A secret carries, as
history, the job it really belongs to, which the helper cannot see.

**DiscoveryFile** is the v1 directory: creation, validation of a snapshot
(instances, names, order, endpoints), replacement by rename with each step
failing, removal.

**Launch** extends both to a whole boot, from `main` through the set-up around
supervision to the teardown: discovery files, access setup and its reports, the
customer's environment with its protected and helper-owned names, and what is
removed or reported when supervision returns. The setup itself is
AccessLifecycle, the loop Supervisor.

**FileSecrets.** `dest`, `staging`, `backup` are the directory entries of each
destination, `prepared` and the flags the `PreparedFile` records. One action
per system call (`PrepareRecover`, `WriteCreate`, `CommitBackup`,
`CommitPublish`, `UndoBackup`, `DropBackup`, ...), each with its failing
counterpart; `Stop` kills the helper anywhere. The records die with it, the
entries do not. File contents are versions; `Partial` is a created file that is
not completely written. `prior` and `saved` are history: the contents when this
boot prepared a file, and the contents it last settled on. `at` is the control
point of `install_at`. Boot and installer share nothing but the outcome of the
delivery, which Launch leaves open, so a behaviour of MCRuntimeContact follows
one of them.

### Supervision

**Supervisor.** `pc` is the control point of
`supervise_with_reporter_and_environment`: the top of the loop, the two halves
of a poll, the phases of `terminate_and_reap_group`, the decision and the
backoff. The kernel delivers signals (`CaptureSignal`), the customer's leader
and descendants end, fork and leave the group, and `Tick` runs every countdown.
An unreaped zombie keeps its group in being, as `kill(-pgid, 0)` sees it.
The jitter of `deterministic_backoff` is any value of its interval.

**SupervisedAccess** composes the supervisor with the sidecar state machine of
`access/managed.rs`. `SidecarEvent` runs in the same step as the passes of the
loop that call it, `ReapSidecar` in the same step as the reaping of
descendants, because `waitpid(-1)` takes the sidecar's zombie too
(`dropbear = "stolen"`). A Tailscale session is the case of no respawns; a job
without access has no session, and the loop is then that of Supervisor. A
respawn, which runs inline in the loop and delays it, is one step: how long it
delays the poll of the customer is not represented.

**Diagnostics** has the supervisor thread (children, beats, drop), the worker
(take, sample, sign, post, apply), the second producer behind
`DiagnosticHandle`, the direct-discovery files and generations, and the
readiness file. The worker may lag behind the supervisor by whole children.

**Logging** has the readers (a chunk is numbered, then offered), the emitters
(memory is reserved, then the record is offered), the worker of
`run_prioritized` with its drain, evidence, batching, retry and rebase, and the
supervisor's timed `finish`. A drop counter is the set of what it counts. The
sink is external: a chain that stores a batch at its head, answers, loses the
answer, reports a conflict, or recognises a batch it has; another writer may
advance it.

### Access

**AccessSetup** has the credential fetch, the setup thread under the caller's
watchdog, and the Tailscale bring-up with its retries. Trees, auth-key files
and daemons are named by the attempt that made them. **ManagedSetup** has the
loopback Dropbear, the connector thread that registers over a channel,
reconnects with backoff until it is cancelled or the credential expires, and the
relay of a channel. A write of the connector to a peer, a close among them, is a
state of its own (`Blocked`): it polls no cancellation and lasts as long as the
peer does not read. The jitter of a delay is any of `Jitters`. **Endpoints** has the publication through `tailscale serve`,
compared with the provider's own configuration, and the probes of the loop.
**AccessLifecycle** composes them: one of the providers from the credential to
`stop`, including a session that is ready only after the watchdog gave up.

**CloudflaredConnector** is the supervision machine of `cloudflared.rs`: log
events, exits and ticks give directives. Its owner is not in the repository and
is modelled as the module's comments ask of it (marked external).
**AcurastTunnel** is the one `tunnel_start` of a job: the marker, its
durability, the call and the poll; the job may crash anywhere and run again.

### Traversal

**TraversalSession** has the grant, its validation, the time reserved for it,
the clock and the stop request. **GatewayDiscovery** selects the gateway from
route tables and searches for its UPnP control point. **MappingLifecycle** is
`run_mapping_lifecycle` with the PCP, NAT-PMP and UPnP adapters and the gateway
they talk to: each plan binds, measures without a mapping, creates, verifies,
deletes; requests and answers are lost, a lost create may be applied late.
**MappingLease** is its abstract specification: at most one mapping of the
helper's may exist, none is asked for while the fate of an earlier one is in
doubt, and a run that reports clean has left none. `LeaseSpec`, the lease under
a refinement mapping, is a property of the traversal run. **UdpBehaviour** is
the collector of mapping and filtering evidence against any NAT of
`Nats`. **Traversal** composes them: one grant from reservation to report.

**GatewayDocuments** are the readers of route tables, SSDP replies, device
documents, URLs and SOAP replies. A text is a sequence of items classified by
what their bytes decide, and each reader is checked against a declarative
definition of what its format allows. What the pieces of a text that a comment
divides read as once they are joined is part of the text (`joins`).

### Background jobs

**ProcessorFacts** has the fact and coverage workers (grant, collection, one
signed body, at most two posts, under a clock that may be set back);
**HardwareReadings** what the collectors make of a device: property files under
one byte budget and the limit on opened contexts, the order in which areas
answer, a node-by-node search, the execution surface, the egress check and the
raw hardware reading, each against a reference definition.
**NetworkSample** is one authorized sample with its stages, budget, contract and
inbound check. **StateSnapshot** is the writer and reader over a data plane that
loses, cuts and changes objects. **PayloadDownload** is the negotiation and the
ranged, resumed download. **HostSamplers** is the reader thread behind two
channels of capacity one, the thermal groups and the memory walk. **Workers**
puts these jobs, the ingress drivers and the readers of texts into one
specification: a behaviour follows one of them, since they share no state.

## 3. Runs

| Run | Instance | What it shows |
|---|---|---|
| `supervision` | without a session 2 signals, 1 descendant, 1 restart, 1 failing call, horizon of 4 ticks, runway 1, backoff 1..4; beside a session 1 signal, no descendants, an attempt-limited policy with room for one backoff, 1 respawn | `StartsSafe` (`NoOverlap`, `NoStartAfterSignal`, `ChildBracketed`), `ExactExit`, `ScheduleKept` (`RunwayKept`, `RestartsSpaced`); `SignalStops` and `EndHandled` under fairness; `Spec`: the composition implements the supervisor alone; `SessionSafe` (`OneReportPerDeath`, `NoOrphanSidecar`), `SingleSidecar`, `ConnectorEndNoticed` |
| `diagnostics` | queue of 2, 2 tries, 2 children, 2 reports, 2 server times, 1 failing file call | `OneSequence`; `OfThisChild`: directory and failure are of the current child, and a beat never claims the readiness of a child before its own; `DirectoryForward`, `DropEnds` |
| `runtime_contact` | 3 attempts, ceiling 6, delays 1 and 2, calls of up to 3, 1 and 2; deliveries of up to two secrets, correct and with each field wrong in turn; v1 snapshots of three ages. Installer: 2 files, 2 contents, 3 boots, 2 failing calls, death anywhere. Deadlock is checked | `StartGate`: the customer starts only after a response bound to this process, with whole deliveries of this job and an environment in which signed values and secrets win over inherited ones and a helper-owned name is the helper's or absent; `BootSafe`: one live request, failure evidence, access reported, the v1 directory current; `SecretsKept`: settled contents are at the destination or in the backup, what a rollback would restore is what was settled, the names a step needs are free; `GroupWhole`: success and a reported rollback are whole; `BootEnds` |
| `logging` | 2 streams, 2 chunks, 1 provider record, queues of 2, batches of 2, 1 rebase, 1 foreign write, 1 failing encryption | `Accounted`: every line is pending, sent or counted and the queue memory is exact; `CustomerOrdered`: customer first, in order, once; `FinishEnds` |
| `traversal` | expiry 12, delivery reserve 4, overrun 1, 4 SSDP replies, 2 fetches, 1 rebinding, every NAT behaviour | `MappingSafe`: a create that may have taken effect is deleted or reported in doubt; `DiscoveryExact`; `BehaviourExact`: a claim about the NAT is so, and a complete collection makes it; `ForeignUntouched`; `LeaseSpec`: the refinement; `CollectorEnds` |
| `access_setup` | 2 fetches, 3 bring-ups, 2 connector events while somebody listens, jitters of 0 and 250 ms, 2 endpoint slots; deadlock is checked | `SetupSafe`: nothing left behind, sessions whole, `up` run again only after a fault of the host, registration or the last failure heard told; `CallerAnswered`; `CancelledConnectorEnds`: a cancelled connector ends if its peers read what it writes, and comes to its end or to such a write in any case; `RefusalsBackOff`: only the jitter shortens a wait; `ReportsAlternate` |
| `workers` | 3 respawns, 2 connections, 2 job runs, grants of 10 units, samples of up to 6 seconds, 2 packets, 2 nodes, 4 cpus, payloads of 2 bytes in 3 attempts, 3 beats, 3 zones, 3 processes | `BudgetsKept`; `GrantsSpentOnce`: one body for a grant, each post before its expiry; `SampleAdmitted`, `ReadingsExact`, `TextsExact`, `SnapshotSafe`; `PayloadSafe`: each request starts where the prefix ends, only verified bytes are kept; `JobsEnd` |

Each module's type invariant is a conjunct of its first invariant in the table;
where it carries a bound that matters (attempts and clock of `RuntimeContact`,
queues and pending records of `Logging`, respawns of `SupervisedAccess`) it
says so.

Five runs end in a violation. Each checks one sentence of the repository
against what the code does:

* `access_lost_death`: `src/src/access.rs:276` "reported once per death". The
  customer cleanup reaps the sidecar's zombie; the session then reads `ECHILD`
  as still running, and never reports or replaces the sidecar.
* `logging_evidence`: `src/README.md:109-110`, overflow produces drop evidence.
  The customer's evidence is inserted ahead of a provider batch that is being
  retried, and is popped in its place when that batch is accepted.
* `access_setup_spent_key`: `src/src/access.rs:891-892`, the key is "consumed by
  the first successful `up`, so any failure after that point is final". A key
  file that cannot be removed, or a thread that cannot be spawned, after `up`
  is not among the final codes, and the bring-up is retried with the spent key.
* `runtime_contact_protected`: `src/README.md:165-166` "Runtime values cannot
  reintroduce those protected names". The signed map is checked for them
  (`src/src/runtime_env.rs:289`), but the environment of the customer secrets is
  added as it is (`src/src/job_secrets.rs:223`), and a secret under a protected
  name reaches the customer.
* `sample_verdict_family`: `src/src/network_sample/transport.rs:444-445` "A verdict
  the prober signed for a family we did not ask over is not ours to carry". The
  filter below it compares the region only, and a block may carry a v6 verdict
  that answered the request made over v4.

Observations without a run, which the models contain and the properties are
stated around:

* Secret files: a failed removal of a backup keeps the new files
  (`src/src/file_secrets.rs:262`; line 3 says "A failed group restores every
  prior file"). A backup left by a crash is only put back by a later boot whose
  group contains the same file (lines 3-4 say "the next bootstrap").
* Supervision: a descendant that called `setsid` is neither signalled nor waited
  for (`src/README.md:144-145`). A beat queued for one child and sampled after
  its restart carries the readiness of the next (`src/src/diagnostics.rs:109`,
  `src/README.md:517-518`). A log worker whose queue is full when `finish` is
  called gets no `Finish`.
* Boot: the first post may start after the 60-second ceiling when identity
  discovery used it up (`src/README.md:227-228`, `src/src/contact.rs:205-216`). A
  bridge lost between contact and environment retrieval ends the boot without a
  terminal report (`src/src/bin/liskov-runtime-contact.rs:205-211`). A customer
  secret named `BLACKBOX_LOG_CONFIG` takes the place of the server's log
  configuration. A
  Lockbox response is bound to the job, the ids and the key, not to the nonce of
  the request, so an earlier answer to the same question is accepted. A stuck
  diagnostic worker keeps the v1 directory from being removed.
* Access: `ConnectorWorker::stop` joins the connector without a bound
  (`src/src/access/managed.rs:346-354`), and the connector's writes, closes and
  shutdown are outside its `select!` (lines 1230-1340). A gateway that keeps the
  connection and stops reading can so hold up a stop, or a setup that gives up,
  which is why `CancelledConnectorEnds` and the second half of `CallerAnswered`
  ask that the peers read.
* Traversal: a grant past the ceiling whose inline delete is confirmed is
  reported as a create that succeeded (`network_traversal/mapping.rs`). A UDP
  loop stalled past its stop may send twice and then fails as
  `envelope_unrepresentable`.
* Jobs: the delivery reserve of a coverage grant (`reserve.rs:12-14`,
  `coverage.rs:523`) does not include the inbound check and the signing, so an
  attempt can find the grant expired. The stop flag of the inbound listener is
  set only after the join (`inbound_reachability.rs:72`). A stored snapshot
  object is taken for present by its length alone, and its directory is not
  synced.

### Bounds

The bounds are the smallest at which the cases of interest meet. Two files
separate "all" from "some" in every loop of the installer; three boots allow an
interrupted recovery of an interrupted installation; two faults allow a failing
call in a rollback that a failing call started. One restart gives two attempts,
which is what overlap and stop-then-start need; the horizon lets a delay be cut
by the runway. Two children and a queue of two let the worker be a child
behind. Three attempts reach the attempt limit and the ceiling separately; two
secrets separate a repeated id from a repeated destination. Two records per
batch and two queue places let a retained batch, a newer record and a full queue
coexist. Three bring-ups allow a retry that itself fails and is
retried; two connector events let a failure be followed by another or by the
registration, and once a relay has ended the connector reports to nobody and is
not bounded by them; two endpoint slots let one be changed while the other is
ready. In the traversal run a PCP plan is followed by a NAT-PMP plan in one grant, so that
a doubtful create meets a later plan, a UPnP plan has a grant of its own, and the expiry falls inside a plan for
some overruns. In the workers run the wall clock passes a grant's lifetime and
may fall behind it, a stage's durations lie below, at and beyond its budget, and
a payload is cut after each of its bytes. In `Supervisor` the failure exponent
and the uptime saturate at the value beyond which the code does not tell them
apart. Beside a session the supervisor's own instance is smaller: the session
reads nothing of the policy, the schedule or the descendants, and one restart
brings the cleanup that shares the process table with it. No symmetry is used.

Deadlock is not checked where the system really stops: after supervision, after
the drop, after a report, at the end of a job. `Launch` and `AccessLifecycle`
have an explicit end step instead and are checked for deadlock.

### Fairness

* `SupervisedAccess`: the supervision loop keeps running (it only polls and
  sleeps for bounded times), time passes, and SIGKILL takes effect. Nothing is
  assumed of a customer that was not killed, and nothing makes a signal arrive.
  With a session, the respawn delay passes and `main` goes on to `stop()`.
* `Diagnostics` and `Logging`: only the supervisor thread, whose waits are
  timed. The worker, the bridge and the network may hang for ever.
* `Launch`: the boot thread takes steps, since each of its calls has a timeout;
  nothing of the customer or of the diagnostic worker.
* `AccessLifecycle`: the watchdog fires, the setup thread and the connector keep
  running (a setup step that hangs is a step of its own, after which the thread
  has none), and a session that arrives late is stopped by the thread that holds
  it. Of a cancelled connector strong fairness is assumed (`CancelSeen`): its
  `select!` is entered after each frame and picks a ready branch at random, and
  the poll of the cancellation is ready for good. Of the peers nothing is
  assumed; where a property needs them to read it says so (`PeersRead`).
* `Traversal`: the collectors are straight-line code whose calls return by the
  deadline they are given; the network owes nothing.
* `Workers`: each job's own steps, whose calls are bounded. Of the samplers only
  the supervisor's timed waits: the reader may hang for ever.

## 4. Proofs

TLAPS checks these for every value of the constants that satisfies the named
assumptions of the modules: any number of files, boots, faults, signals,
descendants, restarts, children, streams, chunks, plans and beats, any queue,
batch and budget, and any durations. TLC evaluates the assumptions in every run.
Most say no more than that a bound is a natural number or a list is a list. Eight
say something of the environment:

* `DeliveryAssumption`: the ids that a Lockbox lists and the fields of a
  payload have the shape that their decoders produce, and a payload that is
  intact, bound to the job outside and inside, holds secrets of that job. For
  the last the helper has only the Lockbox's word.
* `SnapshotAssumption`: the peers of a decoded discovery snapshot are a list.
* `PromptAssumption`: a call of the mapping lifecycle is late by less than the
  cleanup reserve. The sockets' timeouts aim at that; the code does not enforce
  it, and without it a delete could find its deadline past.
* `DiscoveryAssumption`: route metrics and interface indices are natural numbers
  and a service is one of the two kinds the code looks for.
* `BehaviourAssumption`: a NAT maps and filters in one of the classes of RFC
  4787 that the collector tells apart. It may lose its state at any time.
* `JobsAssumption`: a text is `Classified`, which gives each line, message,
  token and URL one of the outcomes that the code's own tests can have. Which
  they are, how many there are and in which order is left open. A device has
  the shape its files parse to (`IsDevice`): lists of files, caches and tokens,
  links from node to node or to none.
* `HostsAssumption`: likewise for the zones and processes of a host (`IsHost`).
* `ReadingsAssumption`: a property area has finitely many nodes, cpus are
  numbered from 0, and different cpu lists are written differently.

An invariant is seldom inductive as it stands. Below, after the theorems of each
module, is what its inductive invariant adds and why.

* **FileSecretsProofs**: `TypeCorrect`, `NeverTorn`, `AlwaysRecoverable`,
  `ExactRecovery`, `NamesAreFree`, together `SecretsAlwaysKept`. `Recoverable`
  says nothing of which file the installer is working on; `IInv` adds, for each
  phase, where the prior contents of a prepared file are, and that the backup
  and staging names are occupied only by what the flags of this boot or an
  unprepared leftover account for. `GroupsAreWhole` needs the order of the loops
  as well (`WholeInv`): every file is staged before the first is committed, all
  are committed before the first backup goes, and a rollback leaves behind it
  only files that are as they were.
* **SupervisorProofs**: `TypeCorrect`, `AttemptsNeverOverlap`, `StopIsFinal`,
  `ChildrenBracketed`, together `StartsAreSafe`; `ExitIsExact`; `RunwayIsKept`
  and `StartsArePaid`, together `ScheduleIsKept`. The invariant ties the control
  point to the leader's state, the captured signal to the number of starts it
  still allows, and the status to the leader that ended. That restarts cost time
  rests on a delay never being zero, and that on `PowerPositive`: a power of two
  is at least one, since it counts the subsets of a set.
  The same module composes: `AccessImplementsSupervisor` (every step with an
  access session beside it is a step or a stutter of `Supervisor`), and through
  it the supervisor's theorems with a session (`SupervisionWithAccess`);
  `DeathsReportedOnce`, `NoOrphans`, together `SessionIsSafe`, and
  `OneSidecarAtATime`, from an invariant that relates the session's state to its
  process and to the reports so far.
* **AccessLifecycleProofs**: `SetupIsSafe`, over the setup thread, the watchdog,
  the connector thread and the endpoint slots. `SetupInv` accounts for what an
  attempt has made at each of its steps: the kind of boot behind each control
  point (`KindInv`), the daemon and the tree it runs from (`DaemonInv`,
  `TreeInv`), and that `up` runs again only after a fault of the host (`UpInv`).
  `ConnInv` says where the connector stands, which delay it owes up to its
  jitter, and that what the setup thread has heard is what was sent less what is
  still in the channel (`Heard`), so that the failure it returns is the last; `EndpointInv`
  relates a slot to its worker, its health and what was published of it. The
  action properties `RefusalsNeverShrink` and `ReportsDoAlternate` follow from
  the same invariants.
* **DiagnosticsProofs**: `SequenceNamesOne`, from the order of numbers along the
  way of an observation: received before being posted, before being queued,
  before being offered, with the sequence number taken when the body is signed
  and kept over its retries. `BelongsToThisChild` and the action property
  `DirectoryMovesForward`, from invariants that bind what is on disk, in the
  failure flag and in the worker's hands to a generation: what is staged for an
  older one can no longer be committed.
* **LaunchProofs**: `StartIsGated` and `BootIsSafe`, over the whole boot.
  `BootInv` is the conjunction of what each stage hands to the next: clock and
  attempts of the two retry loops, the one signed request and the response bound
  to it, the reports sent so far, what a delivery asked for and applied, the
  accepted snapshot, the modes that response and environment chose, and which
  party set each name of the environment.
* **LoggingProofs**: `NothingIsLost` and `CustomerGoesFirst`. The retained batch
  is what `pending_records` begins with, except that the customer's late
  evidence shifts a provider batch by one (`BatchInv`): this is the defect of
  `logging_evidence`, and the proof has to carry it. Chunks and provider lines
  survive it, because what is popped in their place is evidence, and the records
  behind the batch are sent again. `OrderInv` orders queue, pending records and
  sink along the way of a chunk, and says which pending records may already be
  in the sink: those of the batch whose answer is awaited or was lost.
* **TraversalProofs**: `MappingIsSafe`, `ForeignIsUntouched` and the refinement
  `LeaseImplemented`. The invariant says, for each step of a plan, what the
  gateway may hold: nothing before the create, at most the mapping of the plan
  at hand after it, and something past the plan's end only when its row says
  uncertain, which ends the run; and that from the create to the delete the
  clock leaves room for the delete. `GatewayIsExact` proves two loops for every
  input. The loop over the route table is a loop of the specification, with an
  invariant on the prefix it has read. The loop over the services of a device is
  a recursive function; `LookedLoops` shows that it satisfies its recursion and
  `ControlSelected` follows it candidate by candidate. `BehaviourIsExact` needs,
  of each observation so far, that it failed or is what the NAT showed at some
  generation since the first mapping was seen (`SeenInv`), what the summaries
  can be made of (`OutInv`), and, for completeness, that without a rebinding no
  observation is missing (`CalmInv`).
* **WorkersProofs**: one invariant for each job, over its own variables, since a
  behaviour of `WorkersSpec` follows one job and leaves the others alone.
  `BudgetsAreKept` needs the rung on which a planned respawn stands and what may
  be relied on between the marker and the start; `PayloadIsSafe` that the prefix
  only grows, is short of the artifact when a range is asked for, and is no
  shorter than when it was;
  `SnapshotIsSafe` what writer and reader hold on the way to the target;
  `GrantsAreSpentOnce` that every body posted is the one signed, and
  that each instant of a post lies before the expiry (`SentInv`);
  `SampleIsAdmitted` that each leg, when it is recorded, ended by now;
  `SamplesAreFresh` that between the two channels and the reader there is at
  most one request, read or reply, of the current beat unless it is outstanding.
  `TextsAreExact` has one invariant for each reader, about the prefix it has read
  (`PrefixInv`); at the end the prefix is the text. Of a route table it says that
  each kept route stands at its rank among the kept ones (`RouteInv`). Of a device
  document it names the position of the tag of every open element, in order, and
  says that what the open service has been told was told after its own tag, that
  each service found is an element already closed, and that there are no more of
  them than known elements (`DeviceInv`). Of a SOAP reply it says that a response
  or field is held exactly when one tag of it was read (`SoapInv`).
  `SamplesAreExact` adds to `SamplesAreFresh` that the reply under way and the
  sample returned say what the host shows (`SummaryInv`); that a summary does is
  shown zone by zone (`SlotsHottest`) and round by round: a round of `tree` that
  adds nothing has reached the least closed set, and there are only as many
  rounds as processes (`RoundsGrow`, `TreeIsLeast`). `CollectorsAreExact` has one
  invariant for each kind of collector. The walk over a sorted area keeps every
  node of the name sought ahead, with fewer nodes ahead at each visit, so that the
  visits allowed suffice (`WalkInv`). For the files the budget left is natural and
  the answer over a prefix is given by its first area that holds the field, and
  else by the prefix as a set (`AnswersCascade`, `FailuresRank`); a context that is
  opened has fewer than four opened ones below it, so no more than four are. The ranges of the cpus below a number are maximal but for the
  last (`Ranged`). The ranks of distinct caches are distinct and fewer than the
  caches, so they are all the numbers from 0, and those kept are the lowest
  (`RanksFill`, `KeptRanked`). `ReadingsAreExact` is both.

Induction over data is not available in the form of the library's induction
theorems, which take a predicate. Where it is needed the proofs take the least
number of a set of counterexamples instead (`LeastNumber`, from the
well-foundedness of the naturals), which has a set in the place of the
predicate. `Upward` is induction up to a bound in that form, and with it
`TurnsHold` shows once that a loop written as a recursive function runs and
stays in a set; each loop of the readings is then an instance.

Only model-checked:

* every liveness property (`SignalStops`, `EndHandled`, `DropEnds`, `BootEnds`,
  `FinishEnds`, `CollectorEnds`, `JobsEnd`, `CallerAnswered` and the others):
  the prover has no ENABLED;
* the five runs that expect a violation, which exhibit a behaviour.

Where a theorem and a run name the same property, the run is its small instance.

## 5. Not modelled

Cryptography, canonical encoding and byte-level parsing are reduced to their
outcomes, except where a reader of gateway texts or of device files is the
subject. The wording, sizes and cadence of reports and records are left out, as
are fsync ordering below a system call (the tunnel marker and the snapshot
excepted) and the permissions of files.

* The bridge and HTTP clients are one request and one bounded answer: the
  environment of the other modules.
* `handoff.rs` writes one file, `hardware.rs` is a boot-time report without
  state, `probe.rs` gives one outcome, and the tunnel-probe binary makes a fixed
  sequence of the client calls that AcurastTunnel models.
* `network_traversal/auth.rs` and `result.rs` are codecs; what they decide is an
  outcome of the step that uses them.
* `run_inner` of `logging.rs`: only `OutputLogger::from_environment` starts it,
  and nothing in the helper calls that. Configuration parsing and redaction of
  the log provider are pure.
* The duration of a respawn in the supervision loop: it is one step.
* Path custody (`private_parent.rs`) and the expiry of a direct-discovery
  snapshot; the removal of the ready file when its last owner is dropped.

## 6. Plan

The modules were written by what is most likely to go wrong: secret files and
supervision first, then the threads around them, the boot, the traversal, the
access setup, and the independent jobs. Their safety was then proved in the same
order. Every invariant that a passing run checks is now also a theorem. What is
left is to bring into the model what section 5 leaves out, first the expiry of a
direct-discovery snapshot and the duration of a respawn.
