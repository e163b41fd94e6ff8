------------------------- MODULE DiagnosticsProofs -------------------------
(***************************************************************************)
(* Proofs that a diagnostic worker, however far behind the supervisor,     *)
(* never reuses a sequence number and never writes into a child what was   *)
(* asked for by another, for every queue capacity, retry limit and number  *)
(* of children, reports and failing file operations.                       *)
(***************************************************************************)
EXTENDS Diagnostics, TLAPS

Busy == wpc \in {"attrs", "ready", "sign", "post", "stage", "commit"}
Posting == wpc \in {"post", "stage", "commit"}

(* What the supervisor thread has told the queue: observations are         *)
(* numbered in the order they were offered.                                *)
Numbered ==
  /\ \A i \in 1..Len(queue) : queue[i] # Shutdown => queue[i].id <= reports
  /\ \A i, j \in 1..Len(queue) :
       i < j /\ queue[i] # Shutdown /\ queue[j] # Shutdown => queue[i].id < queue[j].id

(* The observation at hand is older than every queued one, and newer than  *)
(* everything received, but for its own body.                              *)
AtHand ==
  /\ Busy => work \in Observations /\ work.id <= reports
  /\ Busy => \A i \in 1..Len(queue) : queue[i] # Shutdown => work.id < queue[i].id
  /\ wpc \in {"attrs", "ready"} => work.kind = "health"
  /\ Posting => signed < sequence

Received ==
  /\ \A b \in received : b.id <= reports /\ b.seq < sequence
  /\ \A b \in received : \A i \in 1..Len(queue) : queue[i] # Shutdown => b.id < queue[i].id
  /\ wpc \in {"attrs", "ready", "sign"} => \A b \in received : b.id < work.id
  /\ Posting => \A b \in received : (b.id < work.id /\ b.seq < signed) \/ b = Body

SequenceInv == Numbered /\ AtHand /\ Received /\ OneSequence

(* The per-child state of direct discovery: what is on disk and in the     *)
(* failure flag belongs to the generation that is active, and the time of  *)
(* the directory is the one the next snapshot is compared with.            *)
PeerInv ==
  /\ DirectoryOfThisChild
  /\ FailureOfThisChild
  /\ directory.gen = 0 => directory = NoFile
  /\ childActive => generation >= 1
  /\ request.kind # "none" => request.gen >= 1
  /\ childActive /\ directory # NoFile => directory.observed = lastSuccess

(* The youngest child that a queued beat can be of: between the two halves *)
(* of begin_child it is still the previous one.                            *)
Youngest == IF phase = "begun" THEN child - 1 ELSE child

\* The beats in the queue are of children up to c.
Queued(c) == \A i \in 1..Len(queue) : queue[i].kind = "health" => queue[i].child <= c

(* What the worker holds: the beat is of a child that has begun, and what  *)
(* it read of the ready file is not older.                                 *)
Held ==
  /\ Busy /\ work.kind = "health" => work.child <= Youngest
  /\ ~Busy \/ work.kind # "health" \/ wpc = "attrs" => readyBy = 0
  /\ faults = 0 /\ readyBy # 0 => readyBy >= work.child

ReadyInv ==
  /\ phase = "begun" => child >= 1
  /\ Queued(Youngest)
  /\ Held
  /\ faults = 0 => readyFile = 0 \/ readyFile >= Youngest
  /\ ReadyNotInherited
----------------------------------------------------------------------------
(* Facts about the constants and the worker's helpers. *)

(* The bounds are numbers. *)
LEMMA Bounds ==
  /\ Capacity \in Nat /\ Capacity >= 1 /\ MaxTries \in Nat /\ MaxTries >= 1
  /\ MaxChildren \in Nat /\ MaxReports \in Nat
  /\ MaxObserved \in Nat /\ MaxFaults \in Nat
BY DiagnosticsAssumption

(* The marker is not an observation. *)
LEMMA ShutdownApart ==
  /\ Shutdown \notin Observations
  /\ Shutdown.kind = "shutdown"
  /\ \A o \in Observations \cup {Shutdown} : o # Shutdown => o \in Observations
BY DEF Shutdown, Observations

(* A queue of any items: what taking the first and adding one leave. *)
LEMMA HeadTail ==
  ASSUME NEW S, NEW q \in Seq(S), q # <<>>
  PROVE  /\ Head(q) \in S /\ Head(q) = q[1]
         /\ Tail(q) \in Seq(S) /\ Len(q) \in Nat /\ Len(q) >= 1
         /\ Len(Tail(q)) = Len(q) - 1
         /\ \A i \in 1..Len(Tail(q)) : Tail(q)[i] = q[i + 1]
OBVIOUS

(* What a sequence holds after an element is appended to it. *)
LEMMA AppendTyped ==
  ASSUME NEW S, NEW q \in Seq(S), NEW x \in S
  PROVE  /\ Append(q, x) \in Seq(S) /\ Len(q) \in Nat
         /\ Len(Append(q, x)) = Len(q) + 1
         /\ \A i \in 1..Len(q) : Append(q, x)[i] = q[i]
         /\ Append(q, x)[Len(q) + 1] = x
OBVIOUS

(* Giving an observation up, or finishing it, leaves the worker receiving. *)
LEMMA Idled ==
  ASSUME Idle
  PROVE  /\ wpc' = "recv" /\ work' = Shutdown /\ request' = NoRequest
         /\ readyBy' = 0 /\ tries' = 0 /\ observed' = 0 /\ signed' = 0
BY DEF Idle

(* set_failure marks the active child only when it made the request. *)
LEMMA FailureSet ==
  ASSUME SetFailure
  PROVE  \/ UNCHANGED <<failure, failedFor>>
         \/ /\ request.kind # "none" /\ childActive /\ generation = request.gen
            /\ failure' = TRUE /\ failedFor' = request.gen
BY DEF SetFailure
----------------------------------------------------------------------------
(* The type invariant, in three parts: the flags, the queue, the rest. *)
FlagsOK == childActive \in BOOLEAN /\ failure \in BOOLEAN /\ nextDirect \in BOOLEAN
QueueOK == queue \in Seq(Observations \cup {Shutdown}) /\ Len(queue) <= Capacity
RestOK ==
  /\ phase \in {"idle", "begun", "reset", "running", "dropping", "waiting", "exited"}
  /\ child \in 0..MaxChildren
  /\ reports \in 0..MaxReports
  /\ generation \in Nat
  /\ lastSuccess \in 0..MaxObserved
  /\ advertisement \in {"none", "valid", "refused"}
  /\ directory \in [gen : Nat, observed : 0..MaxObserved]
  /\ readyFile \in 0..MaxChildren
  /\ wpc \in {"recv", "attrs", "ready", "sign", "post", "stage", "commit", "stopped"}
  /\ work \in Observations \cup {Shutdown}
  /\ request \in [kind : {"none", "direct", "error_only"}, gen : Nat]
  /\ readyBy \in 0..MaxChildren
  /\ sequence \in Nat
  /\ signed \in Nat
  /\ tries \in 0..MaxTries
  /\ observed \in 0..MaxObserved
  /\ failedFor \in Nat
  /\ faults \in 0..MaxFaults

(* TypeOK, part by part. *)
LEMMA TypeParts == TypeOK <=> FlagsOK /\ QueueOK /\ RestOK /\ received \subseteq Bodies
BY DEF TypeOK, FlagsOK, QueueOK, RestOK

(* The initial state is typed. *)
LEMMA InitType == Init => TypeOK
<1> SUFFICES ASSUME Init PROVE TypeOK
  OBVIOUS
<1>1. FlagsOK
  BY DEF Init, FlagsOK
<1>2. QueueOK
  BY Bounds DEF Init, QueueOK
<1>3. RestOK
  BY Bounds DEF Init, RestOK, NoFile, NoRequest
<1> QED
  BY <1>1, <1>2, <1>3, TypeParts DEF Init

(* The flags are only ever assigned truth values. *)
LEMMA FlagsNext ==
  ASSUME FlagsOK, Next
  PROVE  FlagsOK'
<1> USE DEF FlagsOK, peer
<1>1. CASE SupervisorStep
  BY <1>1 DEF SupervisorStep, BeginPeer, BeginReady, Spawn, EndChild, DropReporter,
    OfferShutdown, ShutdownWaitEnds
<1>2. CASE WorkerStep
  BY <1>2 DEF WorkerStep, Receive, RequestAttrs, ReadReadiness, Sign, PostFails,
    PostGivenUp, PostAccepted, StageDirectory, CommitDirectory, SetFailure
<1>3. CASE UNCHANGED <<childActive, failure, nextDirect>>
  BY <1>3
<1> QED
  BY <1>1, <1>2, <1>3 DEF Next, Report, ChildAdvertises, ChildReady

(* The queue takes an observation, or the marker, only when it has room. *)
LEMMA QueueNext ==
  ASSUME TypeOK, Next
  PROVE  QueueOK'
<1> USE Bounds DEF TypeOK, QueueOK
<1>1. ASSUME NEW kind \in {"health", "other"}, Report(kind)
      PROVE  QueueOK'
  <2>1. [kind |-> kind, id |-> reports + 1, child |-> child] \in Observations
    BY <1>1 DEF Report, Observations
  <2> QED
    BY <1>1, <2>1 DEF Report
<1>2. CASE OfferShutdown
  <2>1. Shutdown \in Observations \cup {Shutdown}
    OBVIOUS
  <2>2. /\ Append(queue, Shutdown) \in Seq(Observations \cup {Shutdown})
        /\ Len(Append(queue, Shutdown)) = Len(queue) + 1 /\ Len(queue) \in Nat
    BY ONLY <2>1, TypeOK, AppendTyped DEF TypeOK
  <2>3. CASE queue' = Append(queue, Shutdown) /\ Len(queue) < Capacity
    BY <2>2, <2>3
  <2> QED
    BY <1>2, <2>3 DEF OfferShutdown
<1>3. CASE Receive
  BY <1>3, HeadTail DEF Receive
<1>4. CASE UNCHANGED queue
  BY <1>4
<1> QED
  BY <1>1, <1>2, <1>3, <1>4 DEF Next, SupervisorStep, WorkerStep, BeginPeer, BeginReady,
    Spawn, EndChild, DropReporter, ShutdownWaitEnds, ChildAdvertises, ChildReady,
    RequestAttrs, ReadReadiness, Sign, PostFails, PostGivenUp, PostAccepted,
    StageDirectory, CommitDirectory

(* The supervisor thread keeps the rest of the state typed. *)
LEMMA SupervisorRest ==
  ASSUME TypeOK, SupervisorStep
  PROVE  RestOK'
<1> USE Bounds DEF TypeOK, RestOK, worker, peer
<1>1. CASE BeginPeer
  <2>1. directory' \in [gen : Nat, observed : 0..MaxObserved]
    BY <1>1 DEF BeginPeer, NoFile
  <2>2. advertisement' \in {"none", "valid", "refused"} /\ lastSuccess' \in 0..MaxObserved
    BY <1>1 DEF BeginPeer
  <2>3. faults' \in 0..MaxFaults
    BY <1>1 DEF BeginPeer, Fault
  <2> QED
    BY <1>1, <2>1, <2>2, <2>3 DEF BeginPeer
<1>2. CASE BeginReady
  BY <1>2 DEF BeginReady, Fault
<1>3. CASE EndChild
  <2>1. faults' \in 0..MaxFaults /\ advertisement' \in {"none", "valid", "refused"}
    BY <1>3 DEF EndChild, Fault
  <2> QED
    BY <1>3, <2>1 DEF EndChild
<1>4. CASE Spawn \/ DropReporter \/ OfferShutdown \/ ShutdownWaitEnds
  BY <1>4 DEF Spawn, DropReporter, OfferShutdown, ShutdownWaitEnds
<1> QED
  BY <1>1, <1>2, <1>3, <1>4 DEF SupervisorStep

(* The worker thread keeps the rest of the state typed. *)
LEMMA WorkerRest ==
  ASSUME TypeOK, WorkerStep
  PROVE  RestOK'
<1> USE Bounds DEF TypeOK, RestOK, supervisor, peer
<1>1. ASSUME Idle
      PROVE  /\ wpc' = "recv" /\ work' \in Observations \cup {Shutdown}
             /\ request' \in [kind : {"none", "direct", "error_only"}, gen : Nat]
             /\ readyBy' \in 0..MaxChildren /\ signed' \in Nat
             /\ tries' \in 0..MaxTries /\ observed' \in 0..MaxObserved
  BY <1>1, Idled DEF NoRequest
<1>2. ASSUME SetFailure
      PROVE  failedFor' \in Nat
  BY <1>2, FailureSet
<1>3. CASE Receive
  <2>1. Head(queue) \in Observations \cup {Shutdown}
    BY <1>3, HeadTail DEF Receive
  <2>2. wpc' \in {"stopped", "attrs", "sign"}
    BY <1>3 DEF Receive
  <2> QED
    BY <1>3, <2>1, <2>2 DEF Receive
<1>4. CASE RequestAttrs
  BY <1>4 DEF RequestAttrs, RequestFor, NoRequest
<1>5. CASE ReadReadiness
  BY <1>5 DEF ReadReadiness
<1>6. CASE Sign
  <2>1. CASE Idle
    BY <1>1, <1>6, <2>1 DEF Sign
  <2>2. CASE ~Idle
    BY <1>6, <2>2 DEF Sign
  <2> QED
    BY <2>1, <2>2
<1>7. CASE PostFails
  BY <1>7 DEF PostFails
<1>8. CASE PostGivenUp
  BY <1>1, <1>2, <1>8 DEF PostGivenUp
<1>9. CASE PostAccepted
  <2>1. CASE Idle /\ SetFailure
    BY <1>1, <1>2, <1>9, <2>1 DEF PostAccepted
  <2>2. CASE ~(Idle /\ SetFailure)
    <3>1. observed' \in 0..MaxObserved /\ wpc' = "stage"
      BY <1>9, <2>2 DEF PostAccepted
    <3> QED
      BY <1>9, <2>2, <3>1 DEF PostAccepted
  <2> QED
    BY <2>1, <2>2
<1>10. CASE StageDirectory
  <2>1. CASE Idle /\ SetFailure
    <3>1. faults' \in 0..MaxFaults
      BY <1>10, <2>1 DEF StageDirectory
    <3> QED
      BY <1>1, <1>2, <1>10, <2>1, <3>1 DEF StageDirectory
  <2>2. CASE ~(Idle /\ SetFailure)
    BY <1>10, <2>2 DEF StageDirectory
  <2> QED
    BY <2>1, <2>2
<1>11. CASE CommitDirectory
  <2>1. directory' \in [gen : Nat, observed : 0..MaxObserved] /\ lastSuccess' \in 0..MaxObserved
    BY <1>2, <1>11 DEF CommitDirectory
  <2>2. faults' \in 0..MaxFaults
    BY <1>2, <1>11 DEF CommitDirectory, Fault
  <2>3. failedFor' \in Nat
    BY <1>2, <1>11 DEF CommitDirectory
  <2> QED
    BY <1>1, <1>11, <2>1, <2>2, <2>3 DEF CommitDirectory
<1> QED
  BY <1>3, <1>4, <1>5, <1>6, <1>7, <1>8, <1>9, <1>10, <1>11 DEF WorkerStep

(* A body is made of the observation at hand, so every body received is    *)
(* one the types allow.                                                    *)
LEMMA BodyType ==
  ASSUME TypeOK, AtHand, Posting
  PROVE  Body \in Bodies
BY DEF TypeOK, AtHand, Posting, Busy, Body, Bodies, Observations

(* What the server receives is a body. *)
LEMMA ReceivedNext ==
  ASSUME TypeOK, AtHand, Next
  PROVE  received' \subseteq Bodies
<1>1. CASE PostFails
  BY <1>1, BodyType DEF PostFails, TypeOK, Posting
<1>2. CASE PostAccepted
  BY <1>2, BodyType DEF PostAccepted, TypeOK, Posting
<1>3. CASE UNCHANGED received
  BY <1>3 DEF TypeOK
<1> QED
  BY <1>1, <1>2, <1>3 DEF Next, SupervisorStep, WorkerStep, BeginPeer, BeginReady,
    Spawn, EndChild, Report, DropReporter, OfferShutdown, ShutdownWaitEnds,
    ChildAdvertises, ChildReady, Receive, RequestAttrs, ReadReadiness, Sign,
    PostGivenUp, StageDirectory, CommitDirectory

(* Every step of either thread keeps the types. *)
LEMMA TypeNext ==
  ASSUME TypeOK, AtHand, Next
  PROVE  TypeOK'
<1>1. FlagsOK' /\ QueueOK' /\ received' \subseteq Bodies
  BY FlagsNext, QueueNext, ReceivedNext, TypeParts
<1>2. RestOK'
  <2>1. CASE SupervisorStep \/ WorkerStep
    BY <2>1, SupervisorRest, WorkerRest
  <2>2. ASSUME NEW kind \in {"health", "other"}, Report(kind)
        PROVE  RestOK'
    BY <2>2, Bounds DEF Report, TypeOK, RestOK, supervisor, peer, worker
  <2>3. ASSUME NEW ad \in {"none", "valid", "refused"}, ChildAdvertises(ad)
        PROVE  RestOK'
    BY <2>3, Bounds DEF ChildAdvertises, TypeOK, RestOK, supervisor, worker
  <2>4. CASE ChildReady
    BY <2>4, Bounds DEF ChildReady, TypeOK, RestOK, supervisor, peer, worker
  <2> QED
    BY <2>1, <2>2, <2>3, <2>4 DEF Next
<1> QED
  BY <1>1, <1>2 DEF TypeOK, FlagsOK, QueueOK, RestOK
----------------------------------------------------------------------------
(* One sequence. *)
seqVars == <<queue, reports, wpc, work, readyBy, sequence, signed, received>>

(* The steps that touch none of the variables of the sequence argument. *)
LEMMA SequenceStutter ==
  ASSUME SequenceInv, UNCHANGED seqVars
  PROVE  SequenceInv'
BY DEF SequenceInv, seqVars, Numbered, AtHand, Received, OneSequence, Busy, Posting, Body

(* Observations and bodies are numbered by numbers. *)
LEMMA Ids ==
  ASSUME TypeOK
  PROVE  /\ reports \in Nat /\ sequence \in Nat /\ signed \in Nat
         /\ \A i \in 1..Len(queue) : queue[i] # Shutdown => queue[i].id \in Nat
         /\ \A b \in received : b.id \in Nat /\ b.seq \in Nat
         /\ work # Shutdown => work.id \in Nat
<1>1. \A i \in 1..Len(queue) : queue[i] \in Observations \cup {Shutdown}
  BY DEF TypeOK
<1>2. \A x \in Observations : x.id \in Nat
  BY Bounds DEF Observations
<1>3. \A b \in Bodies : b.id \in Nat /\ b.seq \in Nat
  BY Bounds DEF Bodies
<1>4. received \subseteq Bodies /\ work \in Observations \cup {Shutdown}
  BY DEF TypeOK
<1>5. reports \in Nat /\ sequence \in Nat /\ signed \in Nat
  BY Bounds DEF TypeOK
<1> QED
  BY <1>1, <1>2, <1>3, <1>4, <1>5

(* An observation that is offered gets the next number. *)
LEMMA ReportSequence ==
  ASSUME TypeOK, SequenceInv, NEW kind \in {"health", "other"}, Report(kind)
  PROVE  SequenceInv'
<1> DEFINE o == [kind |-> kind, id |-> reports + 1, child |-> child]
<1>1. o \in Observations \cup {Shutdown} /\ o.id = reports + 1
  BY Bounds DEF Report, TypeOK, Observations
<1>2. /\ UNCHANGED <<wpc, work, readyBy, sequence, signed, received>>
      /\ reports' = reports + 1 /\ reports \in Nat
  BY DEF Report, worker, TypeOK
<1>3. CASE UNCHANGED queue
  <2>0. \A i \in 1..Len(queue) : queue[i] # Shutdown => queue[i].id \in Nat
    BY Ids
  <2>1. Numbered'
    BY <1>2, <1>3, <2>0 DEF SequenceInv, Numbered
  <2>3. work # Shutdown => work.id \in Nat
    BY Ids
  <2>4. Busy => work \in Observations /\ work # Shutdown
    BY ShutdownApart DEF SequenceInv, AtHand
  <2>5. AtHand'
    BY <1>2, <1>3, <2>3, <2>4 DEF SequenceInv, AtHand, Busy, Posting
  <2>2. Received' /\ OneSequence'
    BY <1>2, <1>3, Ids DEF SequenceInv, Received, OneSequence, Posting, Body
  <2> QED
    BY <2>1, <2>2, <2>5 DEF SequenceInv
<1>4. CASE queue' = Append(queue, o)
  <2> HIDE DEF o
  <2>1. /\ Len(queue') = Len(queue) + 1 /\ Len(queue) \in Nat
        /\ \A i \in 1..Len(queue) : queue'[i] = queue[i]
        /\ queue'[Len(queue) + 1] = o
    <3>1. queue \in Seq(Observations \cup {Shutdown})
      BY DEF TypeOK
    <3> QED
      BY <1>1, <1>4, <3>1, AppendTyped
  <2>2. \A i \in 1..Len(queue') : i \in 1..Len(queue) \/ i = Len(queue) + 1
    BY <2>1
  <2>3. Numbered'
    <3>1. ASSUME NEW i \in 1..Len(queue'), queue'[i] # Shutdown
          PROVE  queue'[i].id <= reports'
      BY <1>1, <1>2, <2>1, <2>2, <3>1, Ids DEF SequenceInv, Numbered
    <3>2. ASSUME NEW i \in 1..Len(queue'), NEW j \in 1..Len(queue'), i < j,
                 queue'[i] # Shutdown, queue'[j] # Shutdown
          PROVE  queue'[i].id < queue'[j].id
      <4>1. i \in 1..Len(queue)
        BY <2>1, <3>2
      <4>2. CASE j \in 1..Len(queue)
        BY <2>1, <3>2, <4>1, <4>2 DEF SequenceInv, Numbered
      <4>3. CASE j = Len(queue) + 1
        BY <1>1, <1>2, <2>1, <3>2, <4>1, <4>3, Ids DEF SequenceInv, Numbered
      <4> QED
        BY <2>2, <4>2, <4>3
    <3> QED
      BY <3>1, <3>2 DEF Numbered
  <2>4. AtHand'
    <3>1. Busy => work \in Observations /\ work.id <= reports /\ work.id \in Nat
      BY Ids, ShutdownApart DEF SequenceInv, AtHand
    <3>2. ASSUME Busy, NEW i \in 1..Len(queue'), queue'[i] # Shutdown PROVE work.id < queue'[i].id
      <4>1. CASE i \in 1..Len(queue)
        BY <2>1, <3>2, <4>1 DEF SequenceInv, AtHand
      <4>2. CASE i = Len(queue) + 1
        BY <1>1, <1>2, <2>1, <3>1, <3>2, <4>2
      <4> QED
        BY <2>2, <4>1, <4>2
    <3>3. Busy => work.id <= reports'
      BY <1>2, <3>1
    <3> QED
      BY <1>2, <3>1, <3>2, <3>3 DEF SequenceInv, AtHand, Busy, Posting
  <2>5. Received'
    <3>1. ASSUME NEW b \in received, NEW i \in 1..Len(queue'), queue'[i] # Shutdown
          PROVE  b.id < queue'[i].id
      BY <1>1, <1>2, <2>1, <2>2, <3>1, Ids DEF SequenceInv, Received
    <3>2. \A b \in received : b.id <= reports' /\ b.seq < sequence'
      BY <1>2, Ids DEF SequenceInv, Received
    <3> QED
      BY <1>2, <3>1, <3>2 DEF SequenceInv, Received, Posting, Body
  <2>6. OneSequence'
    BY <1>2 DEF SequenceInv, OneSequence
  <2> QED
    BY <2>3, <2>4, <2>5, <2>6 DEF SequenceInv
<1> QED
  BY <1>3, <1>4 DEF Report

(* The marker of the drop is not numbered. *)
LEMMA ShutdownSequence ==
  ASSUME TypeOK, SequenceInv, OfferShutdown
  PROVE  SequenceInv'
<1>1. UNCHANGED <<reports, wpc, work, readyBy, sequence, signed, received>>
  BY DEF OfferShutdown, worker
<1>2. CASE UNCHANGED queue
  BY <1>1, <1>2, SequenceStutter DEF seqVars
<1>3. CASE queue' = Append(queue, Shutdown)
  <2>1. Shutdown \in Observations \cup {Shutdown}
    OBVIOUS
  <2>2. /\ Len(queue') = Len(queue) + 1 /\ Len(queue) \in Nat
        /\ \A i \in 1..Len(queue) : queue'[i] = queue[i]
        /\ queue'[Len(queue) + 1] = Shutdown
    BY <1>3, <2>1, AppendTyped DEF TypeOK
  <2> QED
    BY <1>1, <2>2
    DEF SequenceInv, Numbered, AtHand, Received, OneSequence, Busy, Posting, Body
<1> QED
  BY <1>2, <1>3 DEF OfferShutdown

(* Taking the first observation keeps it ahead of the rest of the queue. *)
LEMMA ReceiveSequence ==
  ASSUME TypeOK, SequenceInv, Receive
  PROVE  SequenceInv'
<1>1. /\ wpc = "recv" /\ queue # <<>>
      /\ work' = queue[1] /\ queue[1] \in Observations \cup {Shutdown}
      /\ Len(queue) \in Nat /\ Len(queue) >= 1 /\ Len(queue') = Len(queue) - 1
      /\ \A i \in 1..Len(queue') : queue'[i] = queue[i + 1]
      /\ UNCHANGED <<reports, readyBy, sequence, signed, received>>
  <2>1. queue \in Seq(Observations \cup {Shutdown}) /\ queue # <<>>
    BY DEF TypeOK, Receive
  <2>2. work' = Head(queue) /\ queue' = Tail(queue)
    BY DEF Receive
  <2>3. wpc = "recv" /\ UNCHANGED <<reports, readyBy, sequence, signed, received>>
    BY DEF Receive
  <2> QED
    BY <2>1, <2>2, <2>3, HeadTail
<1>2. \/ wpc' = "stopped"
      \/ /\ queue[1] # Shutdown /\ wpc' \in {"attrs", "sign"}
         /\ wpc' = "attrs" => queue[1].kind = "health"
  <2>1. Head(queue) = queue[1]
    BY <1>1, HeadTail DEF TypeOK
  <2> QED
    BY <2>1, ShutdownApart DEF Receive
<1>3. Numbered'
  <2>1. ASSUME NEW i \in 1..Len(queue') PROVE i + 1 \in 1..Len(queue) /\ queue'[i] = queue[i + 1]
    BY <1>1
  <2>2. ASSUME NEW i \in 1..Len(queue'), queue'[i] # Shutdown PROVE queue'[i].id <= reports'
    BY <1>1, <2>1, <2>2 DEF SequenceInv, Numbered
  <2>3. ASSUME NEW i \in 1..Len(queue'), NEW j \in 1..Len(queue'), i < j,
               queue'[i] # Shutdown, queue'[j] # Shutdown
        PROVE  queue'[i].id < queue'[j].id
    <3>1. i + 1 < j + 1
      BY <1>1, <2>3
    <3> QED
      BY <2>1, <2>3, <3>1 DEF SequenceInv, Numbered
  <2> QED
    BY <2>2, <2>3 DEF Numbered
<1>4. AtHand'
  <2>1. CASE wpc' = "stopped"
    BY <2>1 DEF AtHand, Busy, Posting
  <2>2. CASE queue[1] # Shutdown /\ wpc' \in {"attrs", "sign"}
    <3>1. work' \in Observations /\ work'.id <= reports'
      BY <1>1, <2>2, ShutdownApart DEF SequenceInv, Numbered
    <3>2. ASSUME NEW i \in 1..Len(queue'), queue'[i] # Shutdown PROVE work'.id < queue'[i].id
      <4>1. i + 1 \in 1..Len(queue) /\ 1 \in 1..Len(queue) /\ 1 < i + 1 /\ queue'[i] = queue[i + 1]
        BY <1>1
      <4> QED
        BY <1>1, <2>2, <3>2, <4>1 DEF SequenceInv, Numbered
    <3>3. wpc' = "attrs" => work'.kind = "health"
      BY <1>1, <1>2, <2>2
    <3> QED
      BY <2>2, <3>1, <3>2, <3>3 DEF AtHand, Busy, Posting
  <2> QED
    BY <1>2, <2>1, <2>2
<1>5. Received'
  BY <1>1, <1>2 DEF SequenceInv, Received, Posting
<1>6. OneSequence'
  BY <1>1 DEF SequenceInv, OneSequence
<1> QED
  BY <1>3, <1>4, <1>5, <1>6 DEF SequenceInv

(* Signing takes a number that no body has. *)
LEMMA SignSequence ==
  ASSUME TypeOK, SequenceInv, Sign
  PROVE  SequenceInv'
<1>1. /\ wpc = "sign" /\ sequence' = sequence + 1 /\ sequence \in Nat
      /\ UNCHANGED <<queue, reports, received>>
      /\ \A b \in received : b.seq \in Nat
  BY DEF Sign, TypeOK, Bodies
<1>2. CASE wpc' = "post" /\ signed' = sequence /\ UNCHANGED <<work, readyBy>>
  BY <1>1, <1>2 DEF SequenceInv, Numbered, AtHand, Received, OneSequence, Busy, Posting, Body
<1>3. CASE Idle
  BY <1>1, <1>3, Idled DEF SequenceInv, Numbered, AtHand, Received, OneSequence, Busy, Posting
<1> QED
  BY <1>2, <1>3 DEF Sign

(* A post delivers the body at hand, once or again. *)
LEMMA PostSequence ==
  ASSUME TypeOK, SequenceInv, PostFails \/ PostAccepted
  PROVE  SequenceInv'
<1>1. /\ wpc = "post" /\ received' \subseteq received \cup {Body}
      /\ UNCHANGED <<queue, reports, sequence>>
      /\ \/ wpc' \in {"post", "stage"} /\ UNCHANGED <<work, readyBy, signed>>
         \/ wpc' = "recv"
  BY Idled DEF PostFails, PostAccepted
<1>2. /\ Body.id = work.id /\ Body.seq = signed /\ work.id \in Nat /\ signed \in Nat
      /\ work.id <= reports /\ signed < sequence
      /\ \A i \in 1..Len(queue) : queue[i] # Shutdown => work.id < queue[i].id
      /\ \A b \in received : (b.id < work.id /\ b.seq < signed) \/ b = Body
      /\ \A b \in received : b.id \in Nat /\ b.seq \in Nat
  <2>1. Busy /\ Posting
    BY <1>1 DEF Busy, Posting
  <2>2. /\ work \in Observations /\ work.id <= reports /\ signed < sequence
        /\ \A i \in 1..Len(queue) : queue[i] # Shutdown => work.id < queue[i].id
        /\ \A b \in received : (b.id < work.id /\ b.seq < signed) \/ b = Body
    BY <2>1 DEF SequenceInv, AtHand, Received
  <2>3. Body.id = work.id /\ Body.seq = signed
    BY DEF Body
  <2> QED
    BY <2>2, <2>3, Ids, ShutdownApart
<1>3. OneSequence'
  BY <1>1, <1>2 DEF SequenceInv, OneSequence
<1>4. Numbered'
  BY <1>1 DEF SequenceInv, Numbered
<1>5. AtHand'
  BY <1>1, <1>2 DEF SequenceInv, AtHand, Busy, Posting
<1>6. Received'
  <2>1. CASE wpc' = "recv"
    BY <1>1, <1>2, <2>1 DEF SequenceInv, Received, Posting
  <2>2. CASE wpc' \in {"post", "stage"} /\ UNCHANGED <<work, readyBy, signed>>
    <3>1. Body' = Body
      BY <2>2 DEF Body
    <3> QED
      BY <1>1, <1>2, <2>2, <3>1 DEF SequenceInv, Received, Posting
  <2> QED
    BY <1>1, <2>1, <2>2
<1> QED
  BY <1>3, <1>4, <1>5, <1>6 DEF SequenceInv

(* The worker's other steps go on with the observation or leave it. *)
LEMMA OtherSequence ==
  ASSUME TypeOK, SequenceInv, UNCHANGED <<queue, reports, sequence, received>>,
         \/ wpc = "attrs" /\ wpc' = "ready" /\ UNCHANGED <<work, readyBy, signed>>
         \/ wpc = "ready" /\ wpc' = "sign" /\ UNCHANGED <<work, signed>>
         \/ Posting /\ Idle
         \/ Posting /\ wpc' = "commit" /\ UNCHANGED <<work, readyBy, signed>>
  PROVE  SequenceInv'
BY Idled DEF SequenceInv, Numbered, AtHand, Received, OneSequence, Busy, Posting, Body

(* Every step of either thread keeps the numbering. *)
LEMMA SequenceNext ==
  ASSUME TypeOK, SequenceInv, [Next]_vars
  PROVE  SequenceInv'
<1>1. CASE SupervisorStep
  <2>1. CASE OfferShutdown
    BY <2>1, ShutdownSequence
  <2>2. CASE ~OfferShutdown
    <3>1. UNCHANGED seqVars
      BY <1>1, <2>2 DEF SupervisorStep, BeginPeer, BeginReady, Spawn, EndChild,
        DropReporter, ShutdownWaitEnds, worker, seqVars
    <3> QED
      BY <3>1, SequenceStutter
  <2> QED
    BY <2>1, <2>2
<1>2. ASSUME NEW kind \in {"health", "other"}, Report(kind)
      PROVE  SequenceInv'
  BY <1>2, ReportSequence
<1>3. CASE UNCHANGED seqVars
  BY <1>3, SequenceStutter
<1>4. CASE WorkerStep
  <2>1. CASE Receive
    BY <2>1, ReceiveSequence
  <2>2. CASE Sign
    BY <2>2, SignSequence
  <2>3. CASE PostFails \/ PostAccepted
    BY <2>3, PostSequence
  <2>4. CASE RequestAttrs \/ ReadReadiness
    BY <2>4, OtherSequence DEF RequestAttrs, ReadReadiness
  <2>5. CASE PostGivenUp \/ StageDirectory \/ CommitDirectory
    BY <2>5, OtherSequence DEF PostGivenUp, StageDirectory, CommitDirectory, Posting
  <2> QED
    BY <1>4, <2>1, <2>2, <2>3, <2>4, <2>5 DEF WorkerStep
<1> QED
  BY <1>1, <1>2, <1>3, <1>4
  DEF Next, ChildAdvertises, ChildReady, worker, seqVars, vars

(* Types and the sequence argument hold together: the body of a post is    *)
(* well typed because the worker has an observation at hand.               *)
THEOREM TypeAndSequence == Spec => [](TypeOK /\ SequenceInv)
<1>1. Init => TypeOK /\ SequenceInv
  <2>1. Init => SequenceInv
    BY DEF Init, SequenceInv, Numbered, AtHand, Received, OneSequence, Busy, Posting
  <2> QED
    BY <2>1, InitType
<1>2. TypeOK /\ SequenceInv /\ [Next]_vars => (TypeOK /\ SequenceInv)'
  <2> SUFFICES ASSUME TypeOK, SequenceInv, [Next]_vars PROVE TypeOK' /\ SequenceInv'
    OBVIOUS
  <2>1. TypeOK'
    <3>1. CASE Next
      BY <3>1, TypeNext DEF SequenceInv
    <3>2. CASE UNCHANGED vars
      BY <3>2 DEF vars, supervisor, peer, worker, TypeOK
    <3> QED
      BY <3>1, <3>2
  <2> QED
    BY <2>1, SequenceNext
<1> QED
  BY <1>1, <1>2, PTL DEF Spec

(* A sequence number names one observation, whatever is retried or lost    *)
(* (DiagnosticReporter::report).                                           *)
THEOREM SequenceNamesOne == Spec => []OneSequence
<1>1. TypeOK /\ SequenceInv => OneSequence
  BY DEF SequenceInv
<1> QED
  BY <1>1, TypeAndSequence, PTL
----------------------------------------------------------------------------
(* The per-child state of direct discovery. *)
peerVars == <<generation, childActive, lastSuccess, failure, directory, failedFor, request>>

(* Every step keeps the per-child state of discovery. *)
LEMMA PeerNext ==
  ASSUME TypeOK, PeerInv, [Next]_vars
  PROVE  PeerInv'
<1> USE DEF PeerInv, DirectoryOfThisChild, FailureOfThisChild
<1>1. ASSUME SetFailure, UNCHANGED <<generation, childActive>>
      PROVE  FailureOfThisChild'
  BY <1>1, FailureSet
<1>2. CASE BeginPeer
  BY <1>2 DEF BeginPeer, NoFile, TypeOK, worker
<1>3. CASE EndChild
  BY <1>3 DEF EndChild, TypeOK, worker
<1>4. CASE RequestAttrs
  BY <1>4 DEF RequestAttrs, RequestFor, NoRequest, peer
<1>5. CASE Sign
  BY <1>5, Idled DEF Sign, NoRequest, peer
<1>6. CASE PostGivenUp \/ PostAccepted \/ StageDirectory
  <2>1. UNCHANGED <<generation, childActive, lastSuccess, directory>>
    BY <1>6 DEF PostGivenUp, PostAccepted, StageDirectory
  <2>2. request' = request \/ request' = NoRequest
    BY <1>6, Idled DEF PostGivenUp, PostAccepted, StageDirectory
  <2>3. FailureOfThisChild'
    BY <1>1, <1>6, <2>1 DEF PostGivenUp, PostAccepted, StageDirectory
  <2> QED
    BY <2>1, <2>2, <2>3 DEF NoRequest
<1>7. CASE CommitDirectory
  <2>1. UNCHANGED <<generation, childActive>> /\ request' = NoRequest
    BY <1>7, Idled DEF CommitDirectory
  <2>2. FailureOfThisChild'
    BY <1>1, <1>7, <2>1 DEF CommitDirectory
  <2>3. CASE Current /\ directory' = [gen |-> request.gen, observed |-> observed]
             /\ lastSuccess' = observed
    BY <2>1, <2>2, <2>3 DEF Current, NoRequest
  <2>4. CASE UNCHANGED <<directory, lastSuccess>>
    BY <2>1, <2>2, <2>4 DEF NoRequest
  <2> QED
    BY <1>7, <2>3, <2>4 DEF CommitDirectory
<1>8. CASE UNCHANGED peerVars
  BY <1>8 DEF peerVars
<1> QED
  BY <1>2, <1>3, <1>4, <1>5, <1>6, <1>7, <1>8
  DEF Next, SupervisorStep, WorkerStep, BeginReady, Spawn, Report, DropReporter,
    OfferShutdown, ShutdownWaitEnds, ChildAdvertises, ChildReady, Receive, ReadReadiness,
    PostFails, peer, worker, vars, peerVars

(* The per-child state of discovery holds always. *)
LEMMA PeerAlways == Spec => []PeerInv
<1>1. Init => PeerInv
  BY DEF Init, PeerInv, DirectoryOfThisChild, FailureOfThisChild, NoFile, NoRequest
<1>2. TypeOK /\ PeerInv /\ [Next]_vars => PeerInv'
  BY PeerNext
<1> QED
  BY <1>1, <1>2, TypeAndSequence, PTL DEF Spec

(* Within one child the directory never goes back in server time: the      *)
(* check under the mutex compares with the directory that is on disk       *)
(* (commit_directory of direct.rs).                                        *)
THEOREM DirectoryMovesForward == Spec => DirectoryForward
<1>1. ASSUME TypeOK, PeerInv, [Next]_vars, directory # NoFile,
             directory'.gen = directory.gen
      PROVE  directory'.observed >= directory.observed
  <2>1. directory.observed \in Nat
    BY <1>1, Bounds DEF TypeOK
  <2>2. CASE BeginPeer
    BY <1>1, <2>1, <2>2 DEF BeginPeer, PeerInv, NoFile
  <2>3. CASE CommitDirectory
    <3>1. CASE Current /\ directory' = [gen |-> request.gen, observed |-> observed]
      BY <1>1, <2>1, <3>1, Bounds DEF PeerInv, Current, TypeOK
    <3> QED
      BY <2>1, <2>3, <3>1 DEF CommitDirectory
  <2>4. CASE UNCHANGED directory
    BY <2>1, <2>4
  <2> QED
    BY <1>1, <2>2, <2>3, <2>4
    DEF Next, SupervisorStep, WorkerStep, BeginReady, Spawn, EndChild, Report, DropReporter,
      OfferShutdown, ShutdownWaitEnds, ChildAdvertises, ChildReady, Receive, RequestAttrs,
      ReadReadiness, Sign, PostFails, PostGivenUp, PostAccepted, StageDirectory, peer, vars
<1>2. TypeOK /\ PeerInv /\ [Next]_vars
        => [directory # NoFile /\ directory'.gen = directory.gen
              => directory'.observed >= directory.observed]_vars
  BY <1>1
<1> QED
  BY <1>2, TypeAndSequence, PeerAlways, PTL DEF Spec, DirectoryForward
----------------------------------------------------------------------------
(* Readiness. *)

(* A queue that takes one more item, or loses its first, holds no beat of  *)
(* a child that has not begun.                                             *)
LEMMA QueuedNext ==
  ASSUME TypeOK, NEW c \in Nat, Queued(c), Next,
         \A kind \in {"health", "other"} : Report(kind) /\ kind = "health" => child <= c
  PROVE  Queued(c)'
<1>1. ASSUME NEW kind \in {"health", "other"}, Report(kind)
      PROVE  Queued(c)'
  <2> DEFINE o == [kind |-> kind, id |-> reports + 1, child |-> child]
  <2>1. o \in Observations \cup {Shutdown} /\ (o.kind = "health" => o.child <= c)
    BY <1>1, Bounds DEF Report, TypeOK, Observations
  <2>2. CASE queue' = Append(queue, o)
    <3> HIDE DEF o
    <3>1. /\ Len(queue') = Len(queue) + 1 /\ Len(queue) \in Nat
          /\ \A i \in 1..Len(queue) : queue'[i] = queue[i]
          /\ queue'[Len(queue) + 1] = o
      BY <2>1, <2>2, AppendTyped DEF TypeOK
    <3> QED
      BY <2>1, <3>1 DEF Queued
  <2> QED
    BY <1>1, <2>2 DEF Report, Queued
<1>2. CASE OfferShutdown
  <2>1. CASE queue' = Append(queue, Shutdown)
    <3>1. Shutdown \in Observations \cup {Shutdown} /\ Shutdown.kind # "health"
      BY ShutdownApart
    <3>2. /\ Len(queue') = Len(queue) + 1 /\ Len(queue) \in Nat
          /\ \A i \in 1..Len(queue) : queue'[i] = queue[i]
          /\ queue'[Len(queue) + 1] = Shutdown
      BY <2>1, <3>1, AppendTyped DEF TypeOK
    <3> QED
      BY <3>1, <3>2 DEF Queued
  <2> QED
    BY <1>2, <2>1 DEF OfferShutdown, Queued
<1>3. CASE Receive
  <2>1. /\ Len(queue) \in Nat /\ Len(queue') = Len(queue) - 1
        /\ \A i \in 1..Len(queue') : queue'[i] = queue[i + 1]
    BY <1>3, HeadTail DEF Receive, TypeOK
  <2> QED
    BY <2>1 DEF Queued
<1>4. CASE UNCHANGED queue
  BY <1>4 DEF Queued
<1> QED
  BY <1>1, <1>2, <1>3, <1>4 DEF Next, SupervisorStep, WorkerStep, BeginPeer, BeginReady,
    Spawn, EndChild, DropReporter, ShutdownWaitEnds, ChildAdvertises, ChildReady,
    RequestAttrs, ReadReadiness, Sign, PostFails, PostGivenUp, PostAccepted,
    StageDirectory, CommitDirectory

(* The youngest child never goes back, and a beat is only reported for it. *)
LEMMA YoungestNext ==
  ASSUME TypeOK, phase = "begun" => child >= 1, Next
  PROVE  /\ Youngest \in Nat /\ Youngest' \in Nat /\ Youngest <= Youngest'
         /\ phase' = "begun" => child' >= 1
         /\ faults \in Nat /\ (faults' = 0 => faults = 0)
<1>1. child \in Nat /\ Youngest \in Nat /\ faults \in Nat
  BY Bounds DEF TypeOK, Youngest
<1>2. CASE BeginPeer
  BY <1>1, <1>2 DEF BeginPeer, Youngest, Fault
<1>3. CASE BeginReady
  BY <1>1, <1>3 DEF BeginReady, Youngest, Fault
<1>4. CASE SupervisorStep /\ ~BeginPeer /\ ~BeginReady
  BY <1>1, <1>4 DEF SupervisorStep, Spawn, EndChild, DropReporter, OfferShutdown,
    ShutdownWaitEnds, Youngest, Fault
<1>5. CASE UNCHANGED <<phase, child>> /\ faults' \in {faults, faults + 1}
  BY <1>1, <1>5 DEF Youngest
<1> QED
  BY <1>2, <1>3, <1>4, <1>5 DEF Next, WorkerStep, Report, ChildAdvertises, ChildReady,
    Receive, RequestAttrs, ReadReadiness, Sign, PostFails, PostGivenUp, PostAccepted,
    StageDirectory, CommitDirectory, Fault, supervisor

(* The ready file is never of a child older than the youngest, while its   *)
(* removal works.                                                          *)
LEMMA ReadyFileNext ==
  ASSUME TypeOK, ReadyInv, Next
  PROVE  faults' = 0 => readyFile' = 0 \/ readyFile' >= Youngest'
<1> SUFFICES ASSUME faults' = 0, readyFile' # 0 PROVE readyFile' >= Youngest'
  OBVIOUS
<1>1. /\ child \in Nat /\ readyFile \in Nat /\ faults \in Nat
      /\ faults = 0 /\ (readyFile = 0 \/ readyFile >= Youngest)
  BY YoungestNext, Bounds DEF ReadyInv, TypeOK
<1>2. CASE BeginPeer
  BY <1>1, <1>2 DEF BeginPeer, Youngest
<1>3. CASE BeginReady
  BY <1>1, <1>3 DEF BeginReady, Fault
<1>4. CASE ChildReady
  BY <1>1, <1>4 DEF ChildReady, supervisor, Youngest
<1>5. CASE SupervisorStep /\ ~BeginPeer /\ ~BeginReady
  BY <1>1, <1>5 DEF SupervisorStep, Spawn, EndChild, DropReporter, OfferShutdown,
    ShutdownWaitEnds, Youngest
<1>6. CASE UNCHANGED <<phase, child, readyFile>>
  BY <1>1, <1>6 DEF Youngest
<1> QED
  BY <1>2, <1>3, <1>4, <1>5, <1>6 DEF Next, WorkerStep, Report, ChildAdvertises,
    Receive, RequestAttrs, ReadReadiness, Sign, PostFails, PostGivenUp, PostAccepted,
    StageDirectory, CommitDirectory, supervisor

(* Every step keeps what the worker holds of a child. *)
LEMMA HeldNext ==
  ASSUME TypeOK, AtHand, ReadyInv, Next
  PROVE  Held'
<1>1. /\ Youngest \in Nat /\ Youngest' \in Nat /\ Youngest <= Youngest'
      /\ faults' = 0 => faults = 0
      /\ Held
      /\ Busy => work.child \in Nat
      /\ readyBy \in Nat /\ readyFile \in Nat
  <2>1. Busy => work.child \in Nat
    BY Bounds DEF AtHand, Observations
  <2>2. readyBy \in Nat /\ readyFile \in Nat
    BY Bounds DEF TypeOK
  <2> QED
    BY <2>1, <2>2, YoungestNext DEF ReadyInv
<1>2. CASE Receive
  <2>1. /\ wpc = "recv" /\ work' = queue[1] /\ Len(queue) \in Nat /\ Len(queue) >= 1
        /\ queue[1] \in Observations \cup {Shutdown}
    <3>1. queue \in Seq(Observations \cup {Shutdown}) /\ queue # <<>>
      BY <1>2 DEF TypeOK, Receive
    <3>2. work' = Head(queue) /\ wpc = "recv"
      BY <1>2 DEF Receive
    <3> QED
      BY <3>1, <3>2, HeadTail
  <2>2. queue[1].kind = "health" => queue[1].child <= Youngest /\ queue[1].child \in Nat
    BY <2>1, ShutdownApart, Bounds DEF ReadyInv, Queued, Observations
  <2>3. readyBy = 0 /\ readyBy' = 0
    BY <1>1, <1>2, <2>1 DEF Receive, Held, Busy
  <2> QED
    BY <1>1, <2>1, <2>2, <2>3 DEF Held
<1>3. CASE ReadReadiness
  <2>1. wpc = "ready" /\ wpc' = "sign" /\ work.kind = "health" /\ UNCHANGED work
        /\ readyBy' = readyFile /\ Youngest' = Youngest /\ faults' = faults
    BY <1>3 DEF ReadReadiness, AtHand, Youngest, supervisor
  <2>2. faults = 0 => readyFile = 0 \/ readyFile >= Youngest
    BY DEF ReadyInv
  <2> QED
    BY <1>1, <2>1, <2>2 DEF Held, Busy
<1>4. CASE RequestAttrs
  BY <1>1, <1>4 DEF RequestAttrs, Held, Busy
<1>5. CASE Idle
  BY <1>5, Idled DEF Held, Busy
<1>6. CASE UNCHANGED <<work, readyBy>> /\ wpc' = wpc
  BY <1>1, <1>6 DEF Held, Busy
<1>7. CASE UNCHANGED <<work, readyBy>> /\ wpc \in {"sign", "post", "stage"}
           /\ wpc' \in {"post", "stage", "commit"}
  BY <1>1, <1>7 DEF Held, Busy
<1> QED
  BY <1>2, <1>3, <1>4, <1>5, <1>6, <1>7
  DEF Next, SupervisorStep, WorkerStep, BeginPeer, BeginReady, Spawn, EndChild, Report,
    DropReporter, OfferShutdown, ShutdownWaitEnds, ChildAdvertises, ChildReady, Sign,
    PostFails, PostGivenUp, PostAccepted, StageDirectory, CommitDirectory, worker

(* A body is posted with the readiness the worker holds. *)
LEMMA ReadyBodies ==
  ASSUME TypeOK, ReadyInv, Next
  PROVE  ReadyNotInherited'
<1> SUFFICES ASSUME faults' = 0, NEW b \in received', b.ready # 0 PROVE b.ready >= b.child
  BY DEF ReadyNotInherited
<1>1. faults = 0
  BY YoungestNext DEF ReadyInv
<1>2. CASE b \in received
  BY <1>1, <1>2 DEF ReadyInv, ReadyNotInherited
<1>3. CASE b = Body
  BY <1>1, <1>3 DEF ReadyInv, Held, Body
<1>4. received' \subseteq received \cup {Body}
  BY DEF Next, SupervisorStep, WorkerStep, BeginPeer, BeginReady, Spawn, EndChild, Report,
    DropReporter, OfferShutdown, ShutdownWaitEnds, ChildAdvertises, ChildReady, Receive,
    RequestAttrs, ReadReadiness, Sign, PostFails, PostGivenUp, PostAccepted,
    StageDirectory, CommitDirectory
<1> QED
  BY <1>2, <1>3, <1>4

(* Every step keeps the readiness of a child apart from the next one. *)
LEMMA ReadyNext ==
  ASSUME TypeOK, AtHand, ReadyInv, [Next]_vars
  PROVE  ReadyInv'
<1>1. CASE Next
  <2>1. /\ Youngest \in Nat /\ Youngest' \in Nat /\ Youngest <= Youngest'
        /\ phase' = "begun" => child' >= 1
    BY <1>1, YoungestNext DEF ReadyInv
  <2>2. PICK c \in Nat : c = Youngest
    BY <2>1
  <2>3. \A kind \in {"health", "other"} : Report(kind) /\ kind = "health" => child <= c
    BY <2>2, Bounds DEF Report, Youngest, TypeOK
  <2>4. Queued(c)
    BY <2>2 DEF ReadyInv
  <2>5. Queued(c)'
    BY <1>1, <2>3, <2>4, QueuedNext
  <2>6. Queued(Youngest)'
    <3>1. QueueOK'
      BY <1>1, QueueNext
    <3>2. ASSUME NEW i \in 1..Len(queue'), queue'[i].kind = "health"
          PROVE  queue'[i].child <= Youngest'
      <4>1. queue'[i] \in Observations
        BY <3>1, <3>2, ShutdownApart DEF QueueOK
      <4>2. queue'[i].child \in Nat /\ queue'[i].child <= c
        BY <2>5, <3>2, <4>1, Bounds DEF Queued, Observations
      <4> QED
        BY <2>1, <2>2, <4>2
    <3> QED
      BY <3>2 DEF Queued
  <2>7. Held' /\ ReadyNotInherited'
    BY <1>1, HeldNext, ReadyBodies
  <2> QED
    BY <1>1, <2>1, <2>6, <2>7, ReadyFileNext DEF ReadyInv
<1>2. CASE UNCHANGED vars
  BY <1>2 DEF ReadyInv, Held, Queued, ReadyNotInherited, Youngest, Busy, vars, supervisor, worker
<1> QED
  BY <1>1, <1>2

(* The invariant of readiness holds always. *)
LEMMA ReadyAlways == Spec => []ReadyInv
<1>1. Init => ReadyInv
  BY DEF Init, ReadyInv, Held, Queued, ReadyNotInherited, Youngest, Busy
<1>2. TypeOK /\ SequenceInv /\ ReadyInv /\ [Next]_vars => ReadyInv'
  BY ReadyNext DEF SequenceInv
<1> QED
  BY <1>1, <1>2, TypeAndSequence, PTL DEF Spec

(* A worker any number of children behind writes and reports only what     *)
(* belongs to the child it is written for: directory, failure flag and     *)
(* readiness (direct.rs, application_ready.rs).                            *)
THEOREM BelongsToThisChild == Spec => []OfThisChild
<1>1. TypeOK /\ PeerInv /\ ReadyInv => OfThisChild
  BY DEF PeerInv, ReadyInv, OfThisChild
<1> QED
  BY <1>1, TypeAndSequence, PeerAlways, ReadyAlways, PTL
============================================================================
