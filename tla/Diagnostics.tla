---------------------------- MODULE Diagnostics ----------------------------
(***************************************************************************)
(* Post-contact diagnostics (src/src/diagnostics.rs) with the two pieces   *)
(* of per-child state a health beat reads and writes: direct peer          *)
(* discovery (src/src/discovery/direct.rs) and application readiness       *)
(* (src/src/application_ready.rs).                                         *)
(*                                                                         *)
(* The supervisor thread enqueues observations and resets the per-child    *)
(* state around each customer; a worker thread signs and posts, one at a   *)
(* time, and may be many children behind.  The discovery mutex makes       *)
(* begin_child, end_child, request_attrs and the commit of a directory     *)
(* atomic; nothing else is.                                                *)
(***************************************************************************)
EXTENDS Naturals, Sequences

CONSTANTS
  Capacity,       \* DIAGNOSTIC_QUEUE_CAPACITY
  MaxTries,       \* MAX_DELIVERY_ATTEMPTS
  MaxChildren,    \* bound: children started
  MaxReports,     \* bound: observations offered to the queue
  MaxObserved,    \* bound: observedAtMs of a snapshot
  MaxFaults       \* bound: file operations that fail

ASSUME DiagnosticsAssumption ==
  /\ Capacity \in Nat \ {0}
  /\ MaxTries \in Nat \ {0}
  /\ {MaxChildren, MaxReports, MaxObserved, MaxFaults} \subseteq Nat

VARIABLES
  phase,          \* the supervisor thread
  child,          \* number of the current or last child
  queue,          \* the sync_channel
  reports,        \* observations offered so far; each is named by its number
  generation, childActive, lastSuccess, failure,   \* direct::State
  advertisement,  \* advertisement.json: "none", "valid" or "refused"
  directory,      \* directory.json
  nextDirect,     \* next-direct.json exists
  readyFile,      \* the child that wrote the ready file, 0 for none
  wpc, work,      \* the worker and the observation it handles
  request,        \* direct::Request of that observation
  readyBy,        \* the ready file it read, 0 for pending
  sequence,       \* DiagnosticReporter.sequence
  signed,         \* the sequence number in the signed body
  tries,          \* posts of the signed body
  observed,       \* observedAtMs of the snapshot being accepted
  received,       \* history: bodies the server has received
  failedFor,      \* history: generation of the request that set failure
  faults

supervisor == <<phase, child>>
peer == <<generation, childActive, lastSuccess, failure, advertisement,
          directory, nextDirect, failedFor>>
worker == <<wpc, work, request, readyBy, sequence, signed, tries,
            observed>>
vars == <<supervisor, queue, reports, peer, readyFile, worker, received, faults>>

NoFile == [gen |-> 0, observed |-> 0]
NoRequest == [kind |-> "none", gen |-> 0]
Shutdown == [kind |-> "shutdown", id |-> 0, child |-> 0]
Observations == [kind : {"health", "other"}, id : 1..MaxReports,
                 child : 0..MaxChildren]
Bodies == [id : 1..MaxReports, seq : Nat, child : 0..MaxChildren,
           ready : 0..MaxChildren, health : BOOLEAN]

(* The type invariant; the queue never outgrows the channel. *)
TypeOK ==
  /\ phase \in {"idle", "begun", "reset", "running", "dropping", "waiting",
                "exited"}
  /\ child \in 0..MaxChildren
  /\ queue \in Seq(Observations \cup {Shutdown}) /\ Len(queue) <= Capacity
  /\ reports \in 0..MaxReports
  /\ generation \in Nat
  /\ childActive \in BOOLEAN
  /\ lastSuccess \in 0..MaxObserved
  /\ failure \in BOOLEAN
  /\ advertisement \in {"none", "valid", "refused"}
  /\ directory \in [gen : Nat, observed : 0..MaxObserved]
  /\ nextDirect \in BOOLEAN
  /\ readyFile \in 0..MaxChildren
  /\ wpc \in {"recv", "attrs", "ready", "sign", "post", "stage", "commit",
              "stopped"}
  /\ work \in Observations \cup {Shutdown}
  /\ request \in [kind : {"none", "direct", "error_only"}, gen : Nat]
  /\ readyBy \in 0..MaxChildren
  /\ sequence \in Nat
  /\ signed \in Nat
  /\ tries \in 0..MaxTries
  /\ observed \in 0..MaxObserved
  /\ received \subseteq Bodies
  /\ failedFor \in Nat
  /\ faults \in 0..MaxFaults

Init ==
  /\ phase = "idle" /\ child = 0
  /\ queue = <<>> /\ reports = 0
  /\ generation = 0 /\ childActive = FALSE
  /\ lastSuccess = 0 /\ failure = FALSE
  /\ advertisement = "none"
  /\ directory = NoFile
  /\ nextDirect = FALSE
  /\ readyFile = 0
  /\ wpc = "recv" /\ work = Shutdown
  /\ request = NoRequest
  /\ readyBy = 0
  /\ sequence = 0 /\ signed = 0
  /\ tries = 0
  /\ observed = 0
  /\ received = {}
  /\ failedFor = 0
  /\ faults = 0

Fault ==
  /\ faults < MaxFaults
  /\ faults' = faults + 1
----------------------------------------------------------------------------
(* The supervisor thread: begin_child, the child, end_child, drop.         *)

\* DirectPeerDiscovery::begin_child; a failing removal leaves it inactive.
BeginPeer ==
  /\ phase = "idle"
  /\ child < MaxChildren
  /\ child' = child + 1
  /\ phase' = "begun"
  /\ generation' = generation + 1
  /\ \/ /\ advertisement' = "none"
        /\ directory' = NoFile
        /\ lastSuccess' = 0
        /\ failure' = FALSE
        /\ childActive' = TRUE
        /\ UNCHANGED faults
     \/ /\ Fault
        /\ childActive' = FALSE
        /\ advertisement' \in {"none", advertisement}
        /\ UNCHANGED <<directory, lastSuccess, failure>>
  /\ UNCHANGED <<queue, reports, nextDirect, readyFile, worker, received,
                 failedFor>>

\* ApplicationReady::begin_child; a failing removal is only logged.
BeginReady ==
  /\ phase = "begun"
  /\ phase' = "reset"
  /\ \/ readyFile' = 0 /\ UNCHANGED faults
     \/ Fault /\ UNCHANGED readyFile
  /\ UNCHANGED <<child, queue, reports, peer, worker, received>>

Spawn ==
  /\ phase = "reset"
  /\ phase' = "running"
  /\ UNCHANGED <<child, queue, reports, peer, readyFile, worker, received, faults>>

\* end_child, after the child is gone or its spawn has failed.
EndChild ==
  /\ phase \in {"reset", "running"}
  /\ phase' = "idle"
  /\ childActive' = FALSE
  /\ generation' = generation + 1
  /\ \/ advertisement' = "none" /\ UNCHANGED faults
     \/ Fault /\ UNCHANGED advertisement
  /\ UNCHANGED <<child, queue, reports, lastSuccess, failure, directory,
                 nextDirect, failedFor, readyFile, worker, received>>

\* try_send: an observation that finds the queue full, or the worker gone, is
\* dropped.  A handle (coverage producer) may report after the drop.
Report(kind) ==
  /\ kind = "health" => phase = "running"
  /\ reports < MaxReports
  /\ reports' = reports + 1
  /\ queue' = IF Len(queue) < Capacity /\ wpc # "stopped"
              THEN Append(queue, [kind |-> kind, id |-> reports + 1,
                                  child |-> child])
              ELSE queue
  /\ UNCHANGED <<supervisor, peer, readyFile, worker, received, faults>>

\* Drop: offer Shutdown without blocking, wait for at most the grace.
DropReporter ==
  /\ phase = "idle"
  /\ phase' = "dropping"
  /\ UNCHANGED <<child, queue, reports, peer, readyFile, worker, received, faults>>

OfferShutdown ==
  /\ phase = "dropping"
  /\ IF Len(queue) < Capacity /\ wpc # "stopped"
     THEN queue' = Append(queue, Shutdown) /\ phase' = "waiting"
     ELSE phase' = "exited" /\ UNCHANGED queue
  /\ UNCHANGED <<child, reports, peer, readyFile, worker, received, faults>>

\* Mutant: the acknowledgement is awaited without a limit.
ShutdownWaitForever ==
  /\ phase = "waiting"
  /\ wpc = "stopped"
  /\ phase' = "exited"
  /\ UNCHANGED <<child, queue, reports, peer, readyFile, worker, received, faults>>

\* recv_timeout returns: acknowledged or not.
ShutdownWaitEnds ==
  /\ phase = "waiting"
  /\ phase' = "exited"
  /\ UNCHANGED <<child, queue, reports, peer, readyFile, worker, received, faults>>
----------------------------------------------------------------------------
(* The child: it (re)writes or removes its input files at any time.        *)

ChildAdvertises(ad) ==
  /\ phase = "running"
  /\ advertisement' = ad
  /\ UNCHANGED <<supervisor, queue, reports, generation, childActive,
                 lastSuccess, failure, directory, nextDirect, failedFor,
                 readyFile, worker, received, faults>>

ChildReady ==
  /\ phase = "running"
  /\ readyFile' = child
  /\ UNCHANGED <<supervisor, queue, reports, peer, worker, received, faults>>
----------------------------------------------------------------------------
(* The worker thread: DiagnosticReporter::report, step by step.            *)

Idle ==
  /\ wpc' = "recv"
  /\ work' = Shutdown
  /\ request' = NoRequest
  /\ readyBy' = 0
  /\ tries' = 0
  /\ observed' = 0
  /\ signed' = 0

Receive ==
  /\ wpc = "recv"
  /\ queue # <<>>
  /\ queue' = Tail(queue)
  /\ work' = Head(queue)
  /\ wpc' = CASE Head(queue) = Shutdown -> "stopped"
              [] Head(queue).kind = "health" -> "attrs"
              [] OTHER -> "sign"
  /\ UNCHANGED <<supervisor, reports, peer, readyFile, request, readyBy,
                 sequence, signed, tries, observed, received, faults>>

\* request_attrs, under the mutex.
RequestFor ==
  /\ request' = CASE childActive /\ advertisement = "valid" ->
                       [kind |-> "direct", gen |-> generation]
                  [] childActive /\ advertisement = "refused" ->
                       [kind |-> "error_only", gen |-> generation]
                  [] OTHER -> NoRequest

RequestAttrs ==
  /\ wpc = "attrs"
  /\ RequestFor
  /\ wpc' = "ready"
  /\ UNCHANGED <<supervisor, queue, reports, peer, readyFile, work, readyBy,
                 sequence, signed, tries, observed, received, faults>>

ReadReadiness ==
  /\ wpc = "ready"
  /\ readyBy' = readyFile
  /\ wpc' = "sign"
  /\ UNCHANGED <<supervisor, queue, reports, peer, readyFile, work, request,
                 sequence, signed, tries, observed, received, faults>>

\* Mutant: the sequence advances once the observation is delivered.
SignReuses ==
  /\ wpc = "sign"
  /\ signed' = sequence
  /\ sequence' = sequence
  /\ wpc' = "post"
  /\ UNCHANGED <<work, request, readyBy, tries, observed>>
  /\ UNCHANGED <<supervisor, queue, reports, peer, readyFile, received, faults>>

\* The sequence advances before anything can fail; a clock, bridge or
\* encoding failure gives the observation up.
Sign ==
  /\ wpc = "sign"
  /\ sequence' = sequence + 1
  /\ \/ /\ signed' = sequence
        /\ wpc' = "post"
        /\ UNCHANGED <<work, request, readyBy, tries, observed>>
     \/ Idle
  /\ UNCHANGED <<supervisor, queue, reports, peer, readyFile, received, faults>>

Body == [id |-> work.id, seq |-> signed, child |-> work.child,
         ready |-> readyBy, health |-> work.kind = "health"]

\* A post without a usable answer: the server may still have the body.
PostFails ==
  /\ wpc = "post"
  /\ tries < MaxTries
  /\ tries' = tries + 1
  /\ received' \in {received, received \cup {Body}}
  /\ UNCHANGED <<supervisor, queue, reports, peer, readyFile, wpc, work, request,
                 readyBy, sequence, signed, observed, faults>>

\* set_failure, under the mutex: only for the child that made the request.
SetFailure ==
  IF request.kind # "none" /\ childActive /\ generation = request.gen
  THEN failure' = TRUE /\ failedFor' = request.gen
  ELSE UNCHANGED <<failure, failedFor>>

PostGivenUp ==
  /\ wpc = "post"
  /\ tries = MaxTries
  /\ SetFailure
  /\ Idle
  /\ UNCHANGED <<supervisor, queue, reports, generation, childActive, lastSuccess,
                 advertisement, directory, nextDirect, readyFile, sequence,
                 received, faults>>

\* A 2xx answer: nothing to accept, an answer that fails validation, or a
\* snapshot the server took at time o.  Only a direct request may get one.
PostAccepted ==
  /\ wpc = "post"
  /\ tries < MaxTries
  /\ received' = received \cup {Body}
  /\ \/ Idle /\ SetFailure
     \/ /\ request.kind = "direct"
        /\ \E o \in 1..MaxObserved : observed' = o
        /\ wpc' = "stage"
        /\ UNCHANGED <<work, request, readyBy, signed, tries, failure,
                       failedFor>>
  /\ UNCHANGED <<supervisor, queue, reports, generation, childActive, lastSuccess,
                 advertisement, directory, nextDirect, readyFile, sequence, faults>>

\* The snapshot is written to next-direct.json outside the mutex.  A file
\* left there by a failed rename makes the exclusive creation fail once.
StageDirectory ==
  /\ wpc = "stage"
  /\ \/ /\ ~nextDirect
        /\ nextDirect' = TRUE
        /\ wpc' = "commit"
        /\ UNCHANGED <<work, request, readyBy, signed, tries, observed,
                       failure, failedFor, faults>>
     \/ /\ nextDirect \/ faults < MaxFaults
        /\ faults' = IF nextDirect THEN faults ELSE faults + 1
        /\ nextDirect' = FALSE
        /\ SetFailure
        /\ Idle
  /\ UNCHANGED <<supervisor, queue, reports, generation, childActive, lastSuccess,
                 advertisement, directory, readyFile, sequence, received>>

\* Mutants of the check under the mutex: without the generation, without the
\* time of the snapshot.
CurrentAnyChild == childActive /\ observed > lastSuccess
CurrentAnyTime == childActive /\ generation = request.gen

Current ==
  /\ childActive
  /\ generation = request.gen
  /\ observed > lastSuccess

\* The commit: rename and adopt, or discard as stale.  A failing rename
\* returns early and leaves next-direct.json behind.
CommitDirectory ==
  /\ wpc = "commit"
  /\ \/ /\ Current
        /\ directory' = [gen |-> request.gen, observed |-> observed]
        /\ nextDirect' = FALSE
        /\ lastSuccess' = observed
        /\ failure' = FALSE
        /\ UNCHANGED <<failedFor, faults>>
     \/ /\ Current
        /\ Fault
        /\ SetFailure
        /\ UNCHANGED <<directory, nextDirect, lastSuccess>>
     \/ /\ ~Current
        /\ nextDirect' = FALSE
        /\ SetFailure
        /\ UNCHANGED <<directory, lastSuccess, faults>>
  /\ Idle
  /\ UNCHANGED <<supervisor, queue, reports, generation, childActive,
                 advertisement, readyFile, sequence, received>>

SupervisorStep ==
  \/ BeginPeer \/ BeginReady \/ Spawn \/ EndChild
  \/ DropReporter \/ OfferShutdown \/ ShutdownWaitEnds

WorkerStep ==
  \/ Receive \/ RequestAttrs \/ ReadReadiness \/ Sign
  \/ PostFails \/ PostGivenUp \/ PostAccepted
  \/ StageDirectory \/ CommitDirectory

Next ==
  \/ SupervisorStep
  \/ \E kind \in {"health", "other"} : Report(kind)
  \/ \E ad \in {"none", "valid", "refused"} : ChildAdvertises(ad)
  \/ ChildReady
  \/ WorkerStep

Spec == Init /\ [][Next]_vars

\* The supervisor thread finishes its drop; nothing is assumed of the worker,
\* which may be stuck in the bridge or in the network for good.
FairSpec == Spec /\ WF_vars(OfferShutdown) /\ WF_vars(ShutdownWaitEnds)
----------------------------------------------------------------------------
(* Properties. *)

(* One sequence: whatever is retried, given up or dropped by either        *)
(* producer, a sequence number names one observation and observations      *)
(* reach the server in the order they were queued.                         *)
OneSequence ==
  \A a, b \in received :
    /\ a.seq = b.seq <=> a.id = b.id
    /\ a.id < b.id => a.seq < b.seq
    /\ a.id = b.id => a = b

(* A running child only ever sees a directory that was requested with its  *)
(* own advertisement: a response that outlives its child is never written  *)
(* for the next one.                                                       *)
DirectoryOfThisChild ==
  childActive /\ directory # NoFile => directory.gen = generation

(* Within one child the directory only moves forward in server time: a     *)
(* delayed snapshot never replaces a newer one.                            *)
DirectoryForward ==
  [][directory # NoFile /\ directory'.gen = directory.gen
       => directory'.observed >= directory.observed]_vars

(* A failure reported for the running child came from one of its own       *)
(* requests, not from a beat of its predecessor.                           *)
FailureOfThisChild == childActive /\ failure => failedFor = generation

(* While file removal works, a beat never claims the readiness of an       *)
(* earlier child than the one it was queued for.  A beat handled after a   *)
(* restart may carry the readiness of the later child: write_attr reads    *)
(* the file when the worker gets to it.                                    *)
ReadyNotInherited ==
  faults = 0 => \A b \in received : b.ready # 0 => b.ready >= b.child

(* Dropping the reporter never holds up the exit of the helper, however    *)
(* full the queue and however stuck the worker.                            *)
DropEnds == phase = "dropping" ~> phase = "exited"

(* However far the worker lags behind the supervisor, the directory and    *)
(* the failure that a running child sees are of its own requests           *)
(* (commit_directory and set_failure of direct.rs), and no beat claims the *)
(* readiness of a child before its own (begin_child of                     *)
(* application_ready.rs).                                                  *)
OfThisChild == TypeOK /\ DirectoryOfThisChild /\ FailureOfThisChild /\ ReadyNotInherited
============================================================================
