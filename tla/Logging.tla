------------------------------ MODULE Logging ------------------------------
(***************************************************************************)
(* Shipping of customer output and provider logs (src/src/logging.rs): two *)
(* reader threads tee the customer's streams, emitters record what Runtime *)
(* SSH does, and one worker drains both bounded queues, customer first,    *)
(* into encrypted batches for the shared Blackbox sink.                    *)
(*                                                                         *)
(* The sink is external: a chain of records that accepts a batch only at   *)
(* its head.  Requests and answers may be lost, and an earlier process of  *)
(* the job may still write.  A drop counter is the set of what it counts;  *)
(* sizes are left out but for the queue memory, where a record weighs 1.   *)
(***************************************************************************)
EXTENDS Naturals, FiniteSets, Sequences, SequencesExt

CONSTANTS
  Streams,         \* the customer's captured streams
  QueueCapacity,   \* OUTPUT_QUEUE_CAPACITY
  QueueMemory,     \* RUNTIME_SSH_QUEUE_MEMORY_BYTES
  MaxBatch,        \* MAX_BATCH_RECORDS
  MaxRebase,       \* MAX_SEQUENCE_REBASE_ATTEMPTS
  MaxChunks,       \* bound: chunks the customer writes
  MaxLines,        \* bound: Runtime SSH records
  MaxForeign,      \* bound: writes of an earlier process
  MaxFaults        \* bound: encryptions that fail

ASSUME LoggingAssumption ==
  /\ Streams \cap {"customer", "ssh", "foreign", "finish"} = {}
  /\ {QueueCapacity, MaxBatch} \subseteq Nat \ {0}
  /\ {QueueMemory, MaxRebase, MaxChunks, MaxLines} \subseteq Nat
  /\ {MaxForeign, MaxFaults} \subseteq Nat

VARIABLES
  reading,             \* the chunk a reader holds, 0 for none
  readers,             \* some reader still has the customer queue open
  outputSequence,      \* next_output_sequence
  lines,               \* history: Runtime SSH records so far
  emitting,            \* records whose memory is reserved, not yet sent
  marked,              \* raw_window_marked
  customer, runtime,   \* the two queues
  queuedBytes,         \* queued_bytes
  dropped,             \* DroppedOutput of each origin
  counted,             \* history: everything ever dropped
  pc, then,            \* the worker, and what its drain was started for
  pending,             \* pending_records
  batch,               \* pending_batch
  next,                \* resolved.next_sequence, 0 while unresolved
  attempts,            \* of the current flush
  sink,                \* external: the records stored
  lost,                \* history: a stored batch went unacknowledged
  foreign,
  main,                \* the supervisor thread
  acknowledged,
  faults

capture == <<reading, outputSequence>>
emission == <<lines, emitting, marked>>
queues == <<customer, runtime, queuedBytes>>
drops == <<dropped, counted>>
shipping == <<pending, batch, next, attempts>>
remote == <<sink, lost, foreign>>
ending == <<readers, main, acknowledged>>
vars == <<capture, emission, queues, drops, pc, then, shipping, remote, ending,
          faults>>

Origins == {"customer", "runtime_ssh"}
Line(src, id) == [src |-> src, ids |-> {id}, evidence |-> FALSE]
Evidence(src, ids) == [src |-> src, ids |-> ids, evidence |-> TRUE]
Origin(r) == IF r.src = "ssh" THEN "runtime_ssh" ELSE "customer"
FinishWork == Line("finish", 0)
NoBatch == [start |-> 0, records |-> <<>>]

Count(origin, s) == Cardinality({i \in DOMAIN s : Origin(s[i]) = origin})

Pcs == {"poll", "runtime", "wait", "drain_customer", "drain_runtime",
        "drain_evidence", "final_evidence", "final_drops", "final", "flush",
        "post", "resume", "ended"}

(* The type invariant, with the bounds that keep the memory of an outage   *)
(* finite.                                                                 *)
TypeOK ==
  /\ \A s \in Streams : reading[s] \in 0..MaxChunks
  /\ outputSequence \in 0..MaxChunks /\ lines \in 0..MaxLines
  /\ Len(customer) <= QueueCapacity /\ Len(runtime) <= QueueCapacity
  /\ queuedBytes \in 0..QueueMemory
  /\ \A o \in Origins : dropped[o] \subseteq counted[o]
  /\ pc \in Pcs /\ then \in {"flush", "finish", "end"}
  /\ Count("customer", pending) <= MaxBatch
  /\ Count("runtime_ssh", pending) <= 3 * MaxBatch
  /\ Len(batch.records) <= MaxBatch
  /\ next \in Nat /\ attempts \in 0..MaxRebase
  /\ {marked, lost, readers, acknowledged} \subseteq BOOLEAN
  /\ main \in {"running", "waiting", "closed"}
  /\ foreign \in 0..MaxForeign /\ faults \in 0..MaxFaults

\* A worker that cannot derive its keys ends at once.
Init ==
  /\ reading = [s \in Streams |-> 0]
  /\ readers = TRUE
  /\ outputSequence = 0
  /\ lines = 0
  /\ emitting = {}
  /\ marked = FALSE
  /\ customer = <<>>
  /\ runtime = <<>>
  /\ queuedBytes = 0
  /\ dropped = [o \in Origins |-> {}]
  /\ counted = [o \in Origins |-> {}]
  /\ pc \in {"poll", "ended"}
  /\ then = "flush"
  /\ pending = <<>>
  /\ batch = NoBatch
  /\ next = 0
  /\ attempts = 0
  /\ sink = <<>>
  /\ lost = FALSE
  /\ foreign = 0
  /\ main = "running"
  /\ acknowledged = FALSE
  /\ faults = 0
-----------------------------------------------------------------------------
(* Capture: a reader numbers a chunk, writes it locally, and offers it to  *)
(* the worker; it never waits.                                             *)

Record(origin, id) ==
  /\ dropped' = [dropped EXCEPT ![origin] = @ \cup {id}]
  /\ counted' = [counted EXCEPT ![origin] = @ \cup {id}]

ReadChunk(s) ==
  /\ readers
  /\ reading[s] = 0
  /\ outputSequence < MaxChunks
  /\ outputSequence' = outputSequence + 1
  /\ reading' = [reading EXCEPT ![s] = outputSequence']
  /\ UNCHANGED <<emission, queues, drops, pc, then, shipping, remote, ending,
                 faults>>

\* try_send on a queue whose receiver the worker still holds.
Accepts(queue) == pc # "ended" /\ Len(queue) < QueueCapacity

\* admitted: the byte budget of the second allows it.
EnqueueChunk(s, admitted) ==
  /\ reading[s] # 0
  /\ reading' = [reading EXCEPT ![s] = 0]
  /\ IF admitted /\ Accepts(customer)
     THEN customer' = Append(customer, Line(s, reading[s])) /\ UNCHANGED drops
     ELSE Record("customer", reading[s]) /\ UNCHANGED customer
  /\ UNCHANGED <<outputSequence, emission, runtime, queuedBytes, pc, then,
                 shipping, remote, ending, faults>>

\* The readers are detached from the attempt and end with their pipes; it
\* matters once the supervisor has dropped its own sender.
ReadersEnd ==
  /\ readers
  /\ main = "closed"
  /\ \A s \in Streams : reading[s] = 0
  /\ readers' = FALSE
  /\ UNCHANGED <<capture, emission, queues, drops, pc, then, shipping, remote,
                 main, acknowledged, faults>>
-----------------------------------------------------------------------------
(* Runtime SSH records: the queue memory is reserved first, then the       *)
(* record is offered.                                                      *)

\* reserve_queue_bytes, or a counted drop.
Reserve(record, admitted) ==
  /\ lines' = record.id
  /\ IF admitted /\ queuedBytes < QueueMemory
     THEN /\ queuedBytes' = queuedBytes + 1
          /\ emitting' = emitting \cup {record}
          /\ UNCHANGED drops
     ELSE /\ Record("runtime_ssh", record.id)
          /\ UNCHANGED <<queuedBytes, emitting>>

\* lifecycle, stage and panic_report: outside the byte budget.
EmitCritical ==
  /\ lines < MaxLines
  /\ Reserve([id |-> lines + 1, critical |-> TRUE], TRUE)
  /\ UNCHANGED <<capture, marked, customer, runtime, pc, then, shipping, remote,
                 ending, faults>>

\* raw_tailscaled_line: before the expiry a line, after it one marker.
EmitRaw(admitted) ==
  /\ ~marked
  /\ lines < MaxLines
  /\ \/ /\ Reserve([id |-> lines + 1, critical |-> FALSE], admitted)
        /\ UNCHANGED marked
     \/ /\ marked' = TRUE
        /\ Reserve([id |-> lines + 1, critical |-> TRUE], TRUE)
  /\ UNCHANGED <<capture, customer, runtime, pc, then, shipping, remote, ending,
                 faults>>

SendRecord(record) ==
  /\ record \in emitting
  /\ emitting' = emitting \ {record}
  /\ IF Accepts(runtime)
     THEN /\ runtime' = Append(runtime, record)
          /\ UNCHANGED <<drops, queuedBytes>>
     ELSE /\ Record("runtime_ssh", record.id)
          /\ queuedBytes' = queuedBytes - 1
          /\ UNCHANGED runtime
  /\ UNCHANGED <<capture, lines, marked, customer, pc, then, shipping, remote,
                 ending, faults>>
-----------------------------------------------------------------------------
(* What the worker admits to pending_records.  An encryption may fail.     *)

Fault ==
  /\ faults < MaxFaults
  /\ faults' = faults + 1

\* Before the first Runtime SSH record.
InsertCustomer(r) ==
  LET at == SelectInSeq(pending, LAMBDA q : Origin(q) = "runtime_ssh") IN
  IF at = 0 THEN Append(pending, r) ELSE InsertAt(pending, at, r)

\* Mutant: a retained provider batch survives the insertion.
RebuildLaterSkipped == UNCHANGED batch

\* A provider batch that was not accepted is rebuilt later.
RebuildLater ==
  batch' = IF batch # NoBatch /\ Origin(Head(batch.records)) = "runtime_ssh"
           THEN NoBatch ELSE batch

AdmitChunk(r) ==
  \/ /\ Count("customer", pending) < MaxBatch
     /\ RebuildLater
     /\ pending' = InsertCustomer(r)
     /\ UNCHANGED <<drops, faults>>
  \/ /\ \/ Count("customer", pending) >= MaxBatch /\ UNCHANGED faults
        \/ Count("customer", pending) < MaxBatch /\ Fault
     /\ \E id \in r.ids : Record("customer", id)
     /\ UNCHANGED <<pending, batch>>

RuntimeCap(record) == IF record.critical THEN 3 * MaxBatch ELSE MaxBatch

\* The record leaves the queue and its memory before it is admitted.
AdmitRuntimeSsh ==
  LET record == Head(runtime)
      room == Count("runtime_ssh", pending) < RuntimeCap(record) IN
  /\ runtime # <<>>
  /\ runtime' = Tail(runtime)
  /\ queuedBytes' = queuedBytes - 1
  /\ \/ /\ room
        /\ pending' = Append(pending, Line("ssh", record.id))
        /\ UNCHANGED <<drops, faults>>
     \/ /\ (~room /\ UNCHANGED faults) \/ (room /\ Fault)
        /\ Record("runtime_ssh", record.id)
        /\ UNCHANGED pending

\* admit_drop_evidence_for: the counter is taken, then encrypted.
AdmitDropEvidence(origin) ==
  IF Count(origin, pending) >= MaxBatch \/ dropped[origin] = {}
  THEN UNCHANGED <<dropped, pending, faults>>
  ELSE /\ dropped' = [dropped EXCEPT ![origin] = {}]
       /\ \/ /\ pending' =
                  IF origin = "customer"
                  THEN InsertCustomer(Evidence("customer", dropped[origin]))
                  ELSE Append(pending, Evidence("ssh", dropped[origin]))
             /\ UNCHANGED faults
          \/ Fault /\ UNCHANGED pending
-----------------------------------------------------------------------------
(* run_prioritized and drain_prioritized. *)

Drain(for) ==
  /\ pc' = "drain_customer"
  /\ then' = for

\* The first receive of the loop, and the timed one at its end.
TakeChunk ==
  /\ pc \in {"poll", "wait"}
  /\ customer # <<>>
  /\ Head(customer) # FinishWork
  /\ customer' = Tail(customer)
  /\ AdmitChunk(Head(customer))
  /\ Drain("flush")
  /\ UNCHANGED <<capture, emission, runtime, queuedBytes, next, attempts,
                 remote, ending>>

TakeFinish ==
  /\ pc \in {"poll", "wait"}
  /\ customer # <<>>
  /\ Head(customer) = FinishWork
  /\ customer' = Tail(customer)
  /\ Drain("finish")
  /\ UNCHANGED <<capture, emission, runtime, queuedBytes, drops, shipping,
                 remote, ending, faults>>

NoChunk ==
  /\ pc \in {"poll", "wait"}
  /\ customer = <<>>
  /\ pc' = IF pc = "poll" THEN "runtime" ELSE "poll"
  /\ UNCHANGED <<capture, emission, queues, drops, then, shipping, remote,
                 ending, faults>>

\* Every sender is gone: what is pending is not flushed.
Disconnected ==
  /\ pc = "wait"
  /\ customer = <<>>
  /\ main = "closed" /\ ~readers
  /\ Drain("end")
  /\ UNCHANGED <<capture, emission, queues, drops, shipping, remote, ending,
                 faults>>

TakeRuntime ==
  /\ pc = "runtime"
  /\ AdmitRuntimeSsh
  /\ pc' = "flush"
  /\ then' = "flush"
  /\ UNCHANGED <<capture, emission, customer, batch, next, attempts, remote,
                 ending>>

NoRuntime ==
  /\ pc = "runtime"
  /\ runtime = <<>>
  /\ pc' = "wait"
  /\ UNCHANGED <<capture, emission, queues, drops, then, shipping, remote,
                 ending, faults>>

Room == Len(pending) < 2 * MaxBatch

DrainCustomer ==
  /\ pc = "drain_customer"
  /\ Room /\ customer # <<>>
  /\ customer' = Tail(customer)
  /\ IF Head(customer) = FinishWork
     THEN /\ then' = "finish"
          /\ pc' = "drain_runtime"
          /\ UNCHANGED <<drops, pending, batch, faults>>
     ELSE /\ AdmitChunk(Head(customer))
          /\ UNCHANGED <<pc, then>>
  /\ UNCHANGED <<capture, emission, runtime, queuedBytes, next, attempts,
                 remote, ending>>

DrainRuntime ==
  /\ pc = "drain_runtime"
  /\ Room
  /\ AdmitRuntimeSsh
  /\ UNCHANGED <<capture, emission, customer, pc, then, batch, next, attempts,
                 remote, ending>>

DrainNext ==
  /\ \/ pc = "drain_customer" /\ (~Room \/ customer = <<>>)
        /\ pc' = "drain_runtime"
     \/ pc = "drain_runtime" /\ (~Room \/ runtime = <<>>)
        /\ pc' = "drain_evidence"
  /\ UNCHANGED <<capture, emission, queues, drops, then, shipping, remote,
                 ending, faults>>

DrainEvidence ==
  /\ pc = "drain_evidence"
  /\ AdmitDropEvidence("runtime_ssh")
  /\ pc' = CASE then = "flush" -> "flush"
             [] then = "finish" -> "final_evidence"
             [] then = "end" -> "ended"
  /\ UNCHANGED <<capture, emission, queues, counted, then, batch, next,
                 attempts, remote, ending>>

\* finish_prioritized: the customer's evidence, the provider's, then flushes
\* until nothing is pending, one fails, or the grace is over.
FinalEvidence ==
  /\ \/ /\ pc = "final_evidence"
        /\ AdmitDropEvidence("customer")
        /\ pc' = "final_drops"
     \/ /\ pc = "final_drops"
        /\ AdmitDropEvidence("runtime_ssh")
        /\ pc' = "final"
  /\ UNCHANGED <<capture, emission, queues, counted, then, batch, next,
                 attempts, remote, ending>>

FinalFlush ==
  /\ pc = "final"
  /\ pending # <<>>
  /\ pc' = "flush"
  /\ UNCHANGED <<capture, emission, queues, drops, then, shipping, remote,
                 ending, faults>>

Acknowledge ==
  /\ pc = "final"
  /\ pc' = "ended"
  /\ acknowledged' = TRUE
  /\ UNCHANGED <<capture, emission, queues, drops, then, shipping, remote,
                 readers, main, faults>>
-----------------------------------------------------------------------------
(* flush_once: a batch that failed is kept and posted again unchanged.     *)

kept == <<pending, batch, next>>
local == <<capture, emission, queues, drops, then, readers, main, faults>>

FlushOk ==
  /\ attempts' = 0
  /\ pc' = IF then = "finish" THEN "final" ELSE "poll"
  /\ UNCHANGED acknowledged

FlushErr ==
  /\ attempts' = 0
  /\ pc' = IF then = "finish" THEN "ended" ELSE "poll"
  /\ acknowledged' = (acknowledged \/ then = "finish")

\* build_batch: records of one origin from the front.
Build(head) ==
  LET sizes == {n \in 1..Len(pending) :
                  /\ n <= MaxBatch
                  /\ \A i \in 1..n : Origin(pending[i]) = Origin(pending[1])} IN
  [start |-> head, records |-> SubSeq(pending, 1, Max(sizes))]

FlushIdle ==
  /\ pc = "flush"
  /\ batch = NoBatch /\ pending = <<>>
  /\ FlushOk
  /\ UNCHANGED <<local, kept, remote>>

\* Resolve the sink the first time, and build a batch unless one is kept.
FlushStart ==
  /\ pc = "flush"
  /\ batch # NoBatch \/ pending # <<>>
  /\ IF batch = NoBatch
     THEN /\ next' = IF next = 0 THEN Len(sink) + 1 ELSE next
          /\ batch' = Build(next')
     ELSE UNCHANGED <<next, batch>>
  /\ pc' = "post"
  /\ UNCHANGED <<local, pending, attempts, remote, acknowledged>>

ResolveFails ==
  /\ pc = "flush"
  /\ batch = NoBatch /\ pending # <<>> /\ next = 0
  /\ FlushErr
  /\ UNCHANGED <<local, kept, remote>>

\* Mutant: one record of the batch stays behind.
AcceptedShort(head) ==
  /\ next' = head
  /\ pending' = SubSeq(pending, Len(batch.records), Len(pending))
  /\ batch' = NoBatch
  /\ FlushOk
  /\ UNCHANGED local

\* The chain moved past the batch: as many records leave the front.
Accepted(head) ==
  /\ next' = head
  /\ pending' = SubSeq(pending, Len(batch.records) + 1, Len(pending))
  /\ batch' = NoBatch
  /\ FlushOk
  /\ UNCHANGED local

AtHead == batch.start = Len(sink) + 1
BatchEnd == batch.start + Len(batch.records) - 1
AlreadyStored ==
  BatchEnd <= Len(sink) /\ SubSeq(sink, batch.start, BatchEnd) = batch.records

\* The sink stores the batch; its answer holds the new chain head or not.
PostAccepted ==
  /\ pc = "post"
  /\ AtHead
  /\ sink' = sink \o batch.records
  /\ \/ Accepted(Len(sink') + 1)
     \/ pc' = "resume" /\ UNCHANGED <<local, shipping, acknowledged>>
  /\ UNCHANGED <<lost, foreign>>

\* A batch it already has may be answered like the first time.
PostReplayed ==
  /\ pc = "post"
  /\ AlreadyStored
  /\ Accepted(Len(sink) + 1)
  /\ UNCHANGED remote

\* Stored, but the answer is lost, malformed, or names a head within the batch.
PostUnanswered ==
  /\ pc = "post"
  /\ AtHead
  /\ sink' = sink \o batch.records
  /\ lost' = TRUE
  /\ FlushErr
  /\ UNCHANGED <<local, kept, foreign>>

PostFails ==
  /\ pc = "post"
  /\ FlushErr
  /\ UNCHANGED <<local, kept, remote>>

\* 409 sequence_conflict: rebuild at the head the sink names.
PostConflict ==
  /\ pc = "post"
  /\ ~AtHead
  /\ IF attempts < MaxRebase
     THEN /\ next' = Len(sink) + 1
          /\ batch' = Build(next')
          /\ attempts' = attempts + 1
          /\ UNCHANGED <<pc, acknowledged>>
     ELSE FlushErr /\ UNCHANGED <<next, batch>>
  /\ UNCHANGED <<local, pending, remote>>

\* resume_sink after an answer without a chain.
Resume ==
  /\ pc = "resume"
  /\ Accepted(Len(sink) + 1)
  /\ UNCHANGED remote

ResumeFails ==
  /\ pc = "resume"
  /\ lost' = TRUE
  /\ FlushErr
  /\ UNCHANGED <<local, kept, sink, foreign>>

\* An earlier process of the same job.
ForeignWrite ==
  /\ foreign < MaxForeign
  /\ foreign' = foreign + 1
  /\ sink' = Append(sink, Line("foreign", 0))
  /\ UNCHANGED <<local, pc, shipping, lost, acknowledged>>
-----------------------------------------------------------------------------
(* OutputLogger::finish on the supervisor thread: Finish is offered once,  *)
(* and the answer awaited for the grace at most.                           *)

Finish ==
  /\ main = "running"
  /\ IF Accepts(customer)
     THEN main' = "waiting" /\ customer' = Append(customer, FinishWork)
     ELSE main' = "closed" /\ UNCHANGED customer
  /\ UNCHANGED <<capture, emission, runtime, queuedBytes, drops, pc, then,
                 shipping, remote, readers, acknowledged, faults>>

\* Mutant: the supervisor waits for the answer.
FinishReturnsOnAnswer ==
  /\ main = "waiting"
  /\ acknowledged
  /\ main' = "closed"
  /\ UNCHANGED <<capture, emission, queues, drops, pc, then, shipping, remote,
                 readers, acknowledged, faults>>

FinishReturns ==
  /\ main = "waiting"
  /\ main' = "closed"
  /\ UNCHANGED <<capture, emission, queues, drops, pc, then, shipping, remote,
                 readers, acknowledged, faults>>
-----------------------------------------------------------------------------
Producers ==
  \/ \E s \in Streams :
       ReadChunk(s) \/ \E admitted \in BOOLEAN : EnqueueChunk(s, admitted)
  \/ ReadersEnd
  \/ EmitCritical
  \/ \E admitted \in BOOLEAN : EmitRaw(admitted)
  \/ \E record \in emitting : SendRecord(record)

Worker ==
  \/ TakeChunk \/ TakeFinish \/ NoChunk \/ Disconnected
  \/ TakeRuntime \/ NoRuntime
  \/ DrainCustomer \/ DrainRuntime \/ DrainNext \/ DrainEvidence
  \/ FinalEvidence \/ FinalFlush \/ Acknowledge
  \/ FlushIdle \/ FlushStart \/ ResolveFails
  \/ PostAccepted \/ PostReplayed \/ PostUnanswered \/ PostFails \/ PostConflict
  \/ Resume \/ ResumeFails

Next ==
  \/ Producers
  \/ Worker
  \/ ForeignWrite
  \/ Finish \/ FinishReturns

Spec == Init /\ [][Next]_vars

\* Only the supervisor thread, whose wait is timed; nothing is assumed of the
\* worker or of the network.
FairSpec == Spec /\ WF_vars(Finish) /\ WF_vars(FinishReturns)
-----------------------------------------------------------------------------
(* Properties. *)

Held(src) == {r.ids : r \in {q \in ToSet(customer) \cup ToSet(pending)
                                    \cup ToSet(sink) :
                               q.src \in src /\ ~q.evidence}}

(* Whatever is retained, rebuilt, rebased or discarded, a record that was  *)
(* taken from a stream or emitted is on its way, stored, or counted as     *)
(* dropped: none leaves pending_records unsent.                            *)
LinesAccounted ==
  /\ \A id \in 1..outputSequence :
       \/ \E s \in Streams : reading[s] = id
       \/ {id} \in Held(Streams)
       \/ id \in counted["customer"]
  /\ \A id \in 1..lines :
       \/ \E r \in emitting \cup ToSet(runtime) : r.id = id
       \/ {id} \in Held({"ssh"})
       \/ id \in counted["runtime_ssh"]

(* README "customer records are always serviced first": no provider record *)
(* is ahead of a customer record, and no provider batch is retained while  *)
(* customer output waits.                                                  *)
CustomerFirst ==
  /\ \A i, j \in 1..Len(pending) :
       i < j /\ Origin(pending[j]) = "customer" => Origin(pending[i]) = "customer"
  /\ batch # NoBatch /\ Origin(Head(batch.records)) = "runtime_ssh"
       => \A r \in ToSet(pending) : Origin(r) = "customer" => r.evidence

(* The sink never sees the output of one stream out of order: a record is  *)
(* repeated at worst, never overtaken, whatever the retries.               *)
InOrder ==
  \A i, j \in 1..Len(sink) :
    i < j /\ sink[i].src \in Streams /\ sink[i].src = sink[j].src
      => \A a \in sink[i].ids, b \in sink[j].ids :
           b < a => \E k \in 1..i : sink[k] = sink[j]

(* Customer output is stored once unless an accepted batch went            *)
(* unacknowledged; conflicts with another writer alone never repeat it.    *)
CustomerOnce ==
  ~lost => \A i, j \in 1..Len(sink) :
             i # j /\ sink[i].src \in Streams => sink[i] # sink[j]

(* The queue memory counter is exact: it bounds the records queued and     *)
(* about to be, and no failed send leaks from it.                          *)
QueueMemoryExact == queuedBytes = Len(runtime) + Cardinality(emitting)

(* README "the bounded 250-ms terminal flush never block[s]": finish       *)
(* returns whatever the queue, the worker and the sink do.                 *)
FinishEnds == <>(main = "closed")

(* README.md:109-110 "Queue or rate overflow produces only bounded         *)
(* encrypted dropped-byte and dropped-chunk evidence": what was counted as *)
(* dropped is still counted, or in evidence pending or stored.             *)
EvidenceKept ==
  faults = 0 =>
    \A id \in counted["customer"] :
      \/ id \in dropped["customer"]
      \/ \E r \in ToSet(pending) \cup ToSet(sink) :
           r.src = "customer" /\ id \in r.ids

(* Every record and every byte of the queues is accounted for:             *)
(* pending_records, the drop counters and queued_bytes of logging.rs.      *)
Accounted == TypeOK /\ LinesAccounted /\ QueueMemoryExact

(* Customer output goes first, in order and once: admit_chunk, flush_once  *)
(* and rebuild of logging.rs.                                              *)
CustomerOrdered == CustomerFirst /\ InOrder /\ CustomerOnce
=============================================================================
