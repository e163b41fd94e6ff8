--------------------------- MODULE LoggingProofs ---------------------------
(***************************************************************************)
(* Proofs about the shipping of logs, for every number of streams, every   *)
(* queue capacity, batch size and retry bound: nothing a stream or Runtime *)
(* SSH produced is lost unaccounted, and customer output goes first, in    *)
(* order, and once.                                                        *)
(***************************************************************************)
EXTENDS Logging, FiniteSetTheorems, SequenceTheorems, WellFoundedInduction, TLAPS

(* Numbers and lists. *)

(* A set of naturals that is not empty has a least element.                *)
LEMMA Least ==
  ASSUME NEW S \in SUBSET Nat, S # {}
  PROVE  Min(S) \in S /\ \A y \in S : Min(S) <= y
<1>1. IsWellFoundedOn(OpToRel(<, Nat), Nat)
  BY NatLessThanWellFounded
<1>2. PICK x \in S : \A y \in S : ~(<<y, x>> \in OpToRel(<, Nat))
  BY <1>1, WFMin, Zenon
<1>3. \A y \in S : ~(y < x)
  BY <1>2 DEF OpToRel
<1>4. \A y \in S : x <= y
  BY <1>3
<1> QED
  BY <1>4 DEF Min

(* One that is bounded has a greatest.                                     *)
LEMMA Greatest ==
  ASSUME NEW n \in Nat, NEW S \in SUBSET (0..n), S # {}
  PROVE  Max(S) \in S /\ \A y \in S : Max(S) >= y
<1> DEFINE T == {m \in Nat : \E x \in S : m = n - x}
<1>1. T \in SUBSET Nat /\ T # {}
  <2>1. PICK x \in S : TRUE
    OBVIOUS
  <2>2. n - x \in T
    BY <2>1
  <2> QED
    BY <2>2
<1>2. Min(T) \in T /\ \A y \in T : Min(T) <= y
  BY <1>1, Least
<1>3. PICK x \in S : Min(T) = n - x
  BY <1>2
<1>4. \A y \in S : x >= y
  <2>1. ASSUME NEW y \in S PROVE x >= y
    <3>1. n - y \in T
      BY <2>1
    <3>2. n - x <= n - y
      BY <1>2, <1>3, <3>1
    <3> HIDE DEF T
    <3> QED
      BY <3>2
  <2> QED
    BY <2>1
<1> QED
  BY <1>4 DEF Max

(* What the queues and the sink hold.                                      *)
Records ==
  [src : Streams \cup {"customer", "ssh", "foreign", "finish"}, ids : SUBSET Nat, evidence : BOOLEAN]
Emitted == [id : Nat, critical : BOOLEAN]
IsChunk(r) == r.src \in Streams /\ ~r.evidence /\ \E id \in Nat : r.ids = {id}

(* q is p with r at one place more; q is p without its first k.            *)
Inserted(p, q, at, r) ==
  /\ at \in 1..(Len(p) + 1) /\ q \in Seq(Records) /\ Len(q) = Len(p) + 1
  /\ q[at] = r
  /\ \A i \in 1..Len(p) : (i < at => q[i] = p[i]) /\ (i >= at => q[i + 1] = p[i])

Shifted(p, q, k) ==
  /\ k \in 0..Len(p) /\ q \in Seq(Records) /\ Len(q) = Len(p) - k
  /\ \A i \in 1..Len(q) : q[i] = p[i + k]

At(origin, s) == {i \in 1..Len(s) : Origin(s[i]) = origin}

(* A count is the number of such places.                                   *)
LEMMA CountAt ==
  ASSUME NEW origin, NEW s \in Seq(Records)
  PROVE  IsFiniteSet(At(origin, s)) /\ Count(origin, s) = Cardinality(At(origin, s)) /\ Count(origin, s) \in Nat
<1>1. DOMAIN s = 1..Len(s) /\ Len(s) \in Nat
  OBVIOUS
<1>2. 1 \in Int /\ Len(s) \in Int
  BY <1>1
<1>3. IsFiniteSet(1..Len(s))
  BY <1>2, FS_Interval, Zenon
<1>4. At(origin, s) \in SUBSET (1..Len(s))
  BY DEF At
<1>5. IsFiniteSet(At(origin, s))
  BY <1>3, <1>4, FS_Subset, Zenon
<1>6. Cardinality(At(origin, s)) \in Nat
  BY <1>5, FS_CardinalityType, Zenon
<1> QED
  BY <1>1, <1>5, <1>6 DEF Count, At

(* An insertion adds one to the count of its origin.                       *)
LEMMA CountInserted ==
  ASSUME NEW p \in Seq(Records), NEW q, NEW at, NEW r, Inserted(p, q, at, r), NEW origin
  PROVE  Count(origin, q) = Count(origin, p) + IF Origin(r) = origin THEN 1 ELSE 0
<1> DEFINE S == At(origin, p)
           T == At(origin, q) \ {at}
           f == [i \in S |-> IF i < at THEN i ELSE i + 1]
<1>0. /\ Len(p) \in Nat /\ at \in 1..(Len(p) + 1) /\ Len(q) = Len(p) + 1 /\ q[at] = r
      /\ \A i \in 1..Len(p) : (i < at => q[i] = p[i]) /\ (i >= at => q[i + 1] = p[i])
  BY DEF Inserted
<1>1. \A i \in S : f[i] \in T
  BY <1>0 DEF At
<1>2. f \in [S -> T]
  BY <1>1
<1>3. \A i, j \in S : f[i] = f[j] => i = j
  BY <1>0 DEF At
<1>4. \A t \in T : \E i \in S : f[i] = t
  <2>1. ASSUME NEW t \in T, t < at PROVE t \in S /\ f[t] = t
    BY <1>0, <2>1 DEF At
  <2>2. ASSUME NEW t \in T, t > at PROVE t - 1 \in S /\ f[t - 1] = t
    <3>1. t - 1 \in 1..Len(p) /\ t - 1 >= at /\ (t - 1) + 1 = t
      BY <1>0, <2>2 DEF At
    <3>2. q[t] = p[t - 1]
      BY <1>0, <3>1
    <3>3. t - 1 \in S
      BY <2>2, <3>1, <3>2 DEF At
    <3> QED
      BY <1>0, <3>1, <3>3
  <2>3. \A t \in T : t < at \/ t > at
    BY <1>0 DEF At
  <2> QED
    BY <2>1, <2>2, <2>3
<1>5. IsFiniteSet(S) /\ Count(origin, p) = Cardinality(S) /\ Count(origin, p) \in Nat
  BY CountAt
<1>6. q \in Seq(Records)
  BY DEF Inserted
<1>7. IsFiniteSet(At(origin, q)) /\ Count(origin, q) = Cardinality(At(origin, q)) /\ Count(origin, q) \in Nat
  BY <1>6, CountAt
<1>8. at \in At(origin, q) <=> Origin(r) = origin
  BY <1>0 DEF At
<1>9. Cardinality(T) = IF at \in At(origin, q) THEN Cardinality(At(origin, q)) - 1 ELSE Cardinality(At(origin, q))
  BY <1>7, FS_RemoveElement, Zenon
<1> HIDE DEF S, T, f
<1>10. f \in Injection(S, T) /\ f \in Surjection(S, T)
  BY <1>2, <1>3, <1>4 DEF Injection, Surjection, IsInjective
<1>11. ExistsBijection(S, T)
  BY <1>10 DEF ExistsBijection, Bijection
<1>12. Cardinality(T) = Cardinality(S)
  BY <1>5, <1>11, FS_Bijection, Zenon
<1> QED
  BY <1>5, <1>7, <1>8, <1>9, <1>12

(* What leaves at the front lowers no other count.                         *)
LEMMA CountShifted ==
  ASSUME NEW p \in Seq(Records), NEW q, NEW k, Shifted(p, q, k), NEW origin
  PROVE  Count(origin, q) <= Count(origin, p)
<1> DEFINE S == At(origin, q)
           T == At(origin, p)
           f == [i \in S |-> i + k]
<1>0. /\ Len(p) \in Nat /\ k \in 0..Len(p) /\ Len(q) = Len(p) - k
      /\ \A i \in 1..Len(q) : q[i] = p[i + k]
  BY DEF Shifted
<1>1. \A i \in S : f[i] \in T
  BY <1>0 DEF At
<1>2. f \in [S -> T]
  BY <1>1
<1>3. \A i, j \in S : f[i] = f[j] => i = j
  BY <1>0 DEF At
<1>4. q \in Seq(Records)
  BY DEF Shifted
<1>5. IsFiniteSet(T) /\ Count(origin, p) = Cardinality(T)
  BY CountAt
<1>6. Count(origin, q) = Cardinality(S)
  BY <1>4, CountAt
<1> HIDE DEF S, T, f
<1>7. f \in Injection(S, T)
  BY <1>2, <1>3 DEF Injection, IsInjective
<1>8. Cardinality(S) <= Cardinality(T)
  BY <1>5, <1>7, FS_Injection, Zenon
<1> QED
  BY <1>5, <1>6, <1>8

(* Two lists, one after the other.                                         *)
LEMMA JoinShape ==
  ASSUME NEW p \in Seq(Records), NEW q \in Seq(Records)
  PROVE  /\ p \o q \in Seq(Records) /\ Len(p) \in Nat /\ Len(q) \in Nat
         /\ Len(p \o q) = Len(p) + Len(q)
         /\ \A i \in 1..Len(p) : (p \o q)[i] = p[i]
         /\ \A i \in 1..Len(q) : (p \o q)[Len(p) + i] = q[i]
<1>1. /\ p \o q \in Seq(Records) /\ Len(p \o q) = Len(p) + Len(q)
      /\ \A i \in 1..(Len(p) + Len(q)) : (p \o q)[i] = IF i <= Len(p) THEN p[i] ELSE q[i - Len(p)]
  BY ConcatProperties, Zenon
<1>2. Len(p) \in Nat /\ Len(q) \in Nat
  OBVIOUS
<1> QED
  BY <1>1, <1>2

(* Append inserts at the end.                                              *)
LEMMA AppendShape ==
  ASSUME NEW p \in Seq(Records), NEW r \in Records
  PROVE  Inserted(p, Append(p, r), Len(p) + 1, r)
BY DEF Inserted

(* InsertAt inserts.                                                       *)
LEMMA InsertAtShape ==
  ASSUME NEW p \in Seq(Records), NEW r \in Records, NEW at \in 1..Len(p)
  PROVE  Inserted(p, InsertAt(p, at, r), at, r)
<1> DEFINE a == SubSeq(p, 1, at - 1)
           b == SubSeq(p, at, Len(p))
           c == <<r>>
           d == a \o c
<1>0. Len(p) \in Nat /\ DOMAIN p = 1..Len(p) /\ \A i \in 1..Len(p) : p[i] \in Records
  OBVIOUS
<1>1. /\ Len(p) \in Nat /\ a \in Seq(Records) /\ b \in Seq(Records) /\ c \in Seq(Records)
      /\ Len(a) = at - 1 /\ Len(b) = Len(p) - at + 1 /\ Len(c) = 1 /\ c[1] = r
  <2>1. a \in Seq(Records) /\ Len(a) = at - 1
    BY <1>0
  <2>2. b \in Seq(Records) /\ Len(b) = Len(p) - at + 1
    BY <1>0
  <2>3. c \in Seq(Records) /\ Len(c) = 1 /\ c[1] = r
    OBVIOUS
  <2> QED
    BY <1>0, <2>1, <2>2, <2>3
<1>2. \A i \in 1..(at - 1) : a[i] = p[i]
  BY <1>0
<1>3. \A i \in 1..(Len(p) - at + 1) : b[i] = p[i + at - 1]
  BY <1>0
<1> HIDE DEF a, b, c
<1>4. /\ d \in Seq(Records) /\ Len(d) = at /\ d[at] = r
      /\ \A i \in 1..(at - 1) : d[i] = a[i]
  <2>1. /\ d \in Seq(Records) /\ Len(d) = Len(a) + Len(c)
        /\ \A i \in 1..Len(a) : d[i] = a[i]
        /\ \A i \in 1..Len(c) : d[Len(a) + i] = c[i]
    BY <1>1, JoinShape, Zenon
  <2> HIDE DEF d
  <2>2. d[Len(a) + 1] = c[1]
    BY <1>1, <2>1
  <2> QED
    BY <1>1, <2>1, <2>2
<1> HIDE DEF d
<1>5. /\ d \o b \in Seq(Records) /\ Len(d \o b) = Len(p) + 1
      /\ \A i \in 1..at : (d \o b)[i] = d[i]
      /\ \A i \in 1..(Len(p) - at + 1) : (d \o b)[at + i] = b[i]
  <2>1. /\ d \o b \in Seq(Records) /\ Len(d \o b) = Len(d) + Len(b)
        /\ \A i \in 1..Len(d) : (d \o b)[i] = d[i]
        /\ \A i \in 1..Len(b) : (d \o b)[Len(d) + i] = b[i]
    BY <1>1, <1>4, JoinShape, Zenon
  <2>2. Len(d) = at /\ Len(b) = Len(p) - at + 1 /\ Len(p) \in Nat
    BY <1>1, <1>4
  <2>3. /\ \A i \in 1..at : (d \o b)[i] = d[i]
        /\ \A i \in 1..(Len(p) - at + 1) : (d \o b)[at + i] = b[i]
    BY <2>1, <2>2, Zenon
  <2>4. Len(d \o b) = Len(p) + 1
    BY <2>1, <2>2
  <2> QED
    BY <2>1, <2>3, <2>4
<1>6. InsertAt(p, at, r) = d \o b
  BY DEF InsertAt, a, b, c, d
<1>7. \A i \in 1..Len(p) : i < at => (d \o b)[i] = p[i]
  BY <1>1, <1>2, <1>4, <1>5
<1>8. ASSUME NEW i \in 1..Len(p), i >= at PROVE (d \o b)[i + 1] = p[i]
  <2>1. i - at + 1 \in 1..(Len(p) - at + 1) /\ at + (i - at + 1) = i + 1 /\ (i - at + 1) + at - 1 = i
    BY <1>1, <1>8
  <2>2. (d \o b)[at + (i - at + 1)] = b[i - at + 1]
    BY <1>5, <2>1
  <2>3. b[i - at + 1] = p[i]
    BY <1>3, <2>1
  <2> QED
    BY <2>1, <2>2, <2>3
<1>9. at \in 1..(Len(p) + 1) /\ (d \o b)[at] = r
  BY <1>1, <1>4, <1>5
<1> QED
  BY <1>5, <1>6, <1>7, <1>8, <1>9 DEF Inserted

(* A customer record is inserted before the first of Runtime SSH.          *)
LEMMA InsertShape ==
  ASSUME pending \in Seq(Records), NEW r \in Records
  PROVE  \E at : /\ Inserted(pending, InsertCustomer(r), at, r)
                 /\ \A i \in 1..Len(pending) : i < at => Origin(pending[i]) = "customer"
                 /\ at \in 1..Len(pending) => Origin(pending[at]) = "runtime_ssh"
<1> DEFINE I == {i \in 1..Len(pending) : Origin(pending[i]) = "runtime_ssh"}
           at == SelectInSeq(pending, LAMBDA q : Origin(q) = "runtime_ssh")
<1>0. Len(pending) \in Nat
  OBVIOUS
<1>1. at = IF I # {} THEN Min(I) ELSE 0
  BY DEF SelectInSeq
<1>2. \A i \in 1..Len(pending) : Origin(pending[i]) \in {"customer", "runtime_ssh"}
  BY DEF Origin
<1>3. CASE I = {}
  <2>1. InsertCustomer(r) = Append(pending, r)
    BY <1>1, <1>3 DEF InsertCustomer
  <2>2. Inserted(pending, InsertCustomer(r), Len(pending) + 1, r)
    BY <2>1, AppendShape
  <2> QED
    BY <1>0, <1>2, <1>3, <2>2
<1>4. CASE I # {}
  <2>1. I \in SUBSET Nat
    BY <1>0
  <2>2. Min(I) \in I /\ \A y \in I : Min(I) <= y
    BY <1>4, <2>1, Least
  <2> DEFINE m == Min(I)
  <2>3. m \in 1..Len(pending) /\ Origin(pending[m]) = "runtime_ssh"
    BY <2>2
  <2>4. \A i \in 1..Len(pending) : i < m => Origin(pending[i]) = "customer"
    <3>1. ASSUME NEW i \in 1..Len(pending), i < m PROVE Origin(pending[i]) = "customer"
      <4>1. i \notin I
        BY <2>2, <2>3, <3>1
      <4> QED
        BY <1>2, <4>1
    <3> QED
      BY <3>1
  <2>5. InsertCustomer(r) = InsertAt(pending, m, r)
    BY <1>1, <1>4, <2>3 DEF InsertCustomer
  <2> HIDE DEF m
  <2>6. Inserted(pending, InsertCustomer(r), m, r)
    BY <2>3, <2>5, InsertAtShape
  <2> QED
    BY <2>3, <2>4, <2>6
<1> QED
  BY <1>3, <1>4
-----------------------------------------------------------------------------
(* The queues. *)

(* The bounds are numbers, and no stream has the name of another source.   *)
LEMMA Bounds ==
  /\ QueueCapacity \in Nat /\ QueueCapacity > 0 /\ MaxBatch \in Nat /\ MaxBatch > 0
  /\ QueueMemory \in Nat /\ MaxRebase \in Nat /\ MaxChunks \in Nat /\ MaxLines \in Nat
  /\ MaxForeign \in Nat /\ MaxFaults \in Nat
  /\ "customer" \notin Streams /\ "ssh" \notin Streams /\ "foreign" \notin Streams /\ "finish" \notin Streams
BY LoggingAssumption

(* The customer's streams and their queue.                                 *)
CaptureInv ==
  /\ reading \in [Streams -> Nat] /\ outputSequence \in Nat /\ outputSequence <= MaxChunks
  /\ \A s \in Streams : reading[s] <= outputSequence
  /\ customer \in Seq(Records) /\ Len(customer) <= QueueCapacity
  /\ \A i \in 1..Len(customer) : customer[i] = FinishWork \/ IsChunk(customer[i])

(* The records of Runtime SSH, their queue and its memory.                 *)
EmissionInv ==
  /\ lines \in Nat /\ lines <= MaxLines
  /\ runtime \in Seq(Emitted) /\ Len(runtime) <= QueueCapacity
  /\ emitting \subseteq Emitted /\ IsFiniteSet(emitting)
  /\ \A r \in emitting : r.id <= lines
  /\ queuedBytes \in Nat /\ queuedBytes <= QueueMemory /\ QueueMemoryExact

(* The drop counters.                                                      *)
DropInv ==
  /\ dropped \in [Origins -> SUBSET Nat] /\ counted \in [Origins -> SUBSET Nat]
  /\ \A o \in Origins : dropped[o] \subseteq counted[o]

(* The worker, the supervisor thread and the counters of the model.        *)
ControlInv ==
  /\ pc \in Pcs /\ then \in {"flush", "finish", "end"}
  /\ pc \in {"final_evidence", "final_drops", "final"} => then = "finish"
  /\ attempts \in Nat /\ attempts <= MaxRebase
  /\ marked \in BOOLEAN /\ lost \in BOOLEAN /\ readers \in BOOLEAN /\ acknowledged \in BOOLEAN
  /\ main \in {"running", "waiting", "closed"}
  /\ foreign \in Nat /\ foreign <= MaxForeign /\ faults \in Nat /\ faults <= MaxFaults

(* A chunk is a record.                                                    *)
LEMMA LineTyped ==
  ASSUME NEW src \in Streams \cup {"customer", "ssh", "foreign", "finish"}, NEW id \in Nat
  PROVE  /\ Line(src, id) \in Records /\ Line(src, id).src = src /\ Line(src, id).ids = {id}
         /\ Line(src, id).evidence = FALSE
         /\ src \in Streams => IsChunk(Line(src, id))
BY DEF Line, Records, IsChunk

(* Customer output, from the streams to the end of its queue.              *)
LEMMA CaptureNext ==
  ASSUME CaptureInv, Next
  PROVE  CaptureInv'
<1> USE Bounds
<1>0. CASE UNCHANGED <<reading, outputSequence, customer>>
  BY <1>0 DEF CaptureInv
<1>1. ASSUME NEW s \in Streams, ReadChunk(s)
      PROVE  CaptureInv'
  BY <1>1 DEF CaptureInv, ReadChunk, queues
<1>2. ASSUME NEW x \in Records, x = FinishWork \/ IsChunk(x), UNCHANGED <<outputSequence>>,
             reading' \in [Streams -> Nat], \A s \in Streams : reading'[s] <= outputSequence,
             Accepts(customer), customer' = Append(customer, x)
      PROVE  CaptureInv'
  BY <1>2 DEF CaptureInv, Accepts
<1>3. ASSUME NEW s \in Streams, NEW admitted, EnqueueChunk(s, admitted)
      PROVE  CaptureInv'
  <2>1. /\ reading' \in [Streams -> Nat] /\ \A t \in Streams : reading'[t] <= outputSequence
        /\ UNCHANGED outputSequence
    BY <1>3 DEF CaptureInv, EnqueueChunk
  <2>2. Line(s, reading[s]) \in Records /\ IsChunk(Line(s, reading[s]))
    BY LineTyped DEF CaptureInv
  <2>3. CASE UNCHANGED customer
    BY <2>1, <2>3 DEF CaptureInv
  <2>4. CASE Accepts(customer) /\ customer' = Append(customer, Line(s, reading[s]))
    BY <1>2, <2>1, <2>2, <2>4
  <2> QED
    BY <1>3, <2>3, <2>4 DEF EnqueueChunk
<1>4. ASSUME customer # <<>>, customer' = Tail(customer), UNCHANGED <<reading, outputSequence>>
      PROVE  CaptureInv'
  BY <1>4 DEF CaptureInv
<1>5. CASE TakeChunk \/ TakeFinish \/ DrainCustomer
  BY <1>4, <1>5 DEF TakeChunk, TakeFinish, DrainCustomer, capture
<1>6. CASE Finish
  <2>1. FinishWork \in Records
    BY LineTyped DEF FinishWork
  <2> QED
    BY <1>0, <1>2, <1>6, <2>1 DEF Finish, capture, CaptureInv
<1>7. CASE \/ ReadersEnd \/ EmitCritical \/ (\E admitted \in BOOLEAN : EmitRaw(admitted))
           \/ (\E record \in emitting : SendRecord(record))
           \/ NoChunk \/ Disconnected \/ TakeRuntime \/ NoRuntime
           \/ DrainRuntime \/ DrainNext \/ DrainEvidence \/ FinalEvidence \/ FinalFlush \/ Acknowledge
  BY <1>0, <1>7 DEF ReadersEnd, EmitCritical, EmitRaw, SendRecord, NoChunk, Disconnected, TakeRuntime, NoRuntime,
       DrainRuntime, DrainNext, DrainEvidence, FinalEvidence, FinalFlush, Acknowledge, capture, queues
<1>8. CASE \/ FlushIdle \/ FlushStart \/ ResolveFails \/ PostAccepted \/ PostReplayed \/ PostUnanswered
           \/ PostFails \/ PostConflict \/ Resume \/ ResumeFails \/ ForeignWrite \/ FinishReturns
  BY <1>0, <1>8 DEF FlushIdle, FlushStart, ResolveFails, PostAccepted, PostReplayed, PostUnanswered, PostFails,
       PostConflict, Resume, ResumeFails, ForeignWrite, FinishReturns, Accepted, local, capture, queues
<1> QED
  BY <1>1, <1>3, <1>5, <1>6, <1>7, <1>8 DEF Next, Producers, Worker

(* The worker's program counter.                                           *)
LEMMA ControlNext ==
  ASSUME ControlInv, Next
  PROVE  ControlInv'
<1> USE Bounds DEF ControlInv, Pcs
<1>1. CASE \E s \in Streams : ReadChunk(s) \/ \E admitted \in BOOLEAN : EnqueueChunk(s, admitted)
  BY <1>1 DEF ReadChunk, EnqueueChunk, emission, shipping, remote, ending
<1>2. CASE ReadersEnd \/ Finish \/ FinishReturns
  <2>1. CASE ReadersEnd
    BY <2>1 DEF ReadersEnd, emission, shipping, remote
  <2>2. CASE Finish
    BY <2>2 DEF Finish, emission, shipping, remote
  <2>3. CASE FinishReturns
    BY <2>3 DEF FinishReturns, emission, shipping, remote
  <2> QED
    BY <1>2, <2>1, <2>2, <2>3
<1>3. CASE EmitCritical \/ (\E admitted \in BOOLEAN : EmitRaw(admitted)) \/ (\E record \in emitting : SendRecord(record))
  <2>1. EmitCritical => UNCHANGED <<marked, pc, then, shipping, remote, ending, faults>>
    BY Zenon DEF EmitCritical
  <2>2. (\E admitted \in BOOLEAN : EmitRaw(admitted)) =>
          (marked' = TRUE \/ UNCHANGED marked) /\ UNCHANGED <<pc, then, shipping, remote, ending, faults>>
    BY Zenon DEF EmitRaw
  <2>3. (\E record \in emitting : SendRecord(record)) =>
          UNCHANGED <<marked, pc, then, shipping, remote, ending, faults>>
    BY DEF SendRecord
  <2>4. marked' \in BOOLEAN
    BY <1>3, <2>1, <2>2, <2>3, Zenon DEF ControlInv
  <2>5. UNCHANGED <<pc, then, attempts, lost, foreign, readers, main, acknowledged, faults>>
    BY <1>3, <2>1, <2>2, <2>3 DEF shipping, remote, ending
  <2> QED
    BY <2>4, <2>5
<1>4. CASE TakeChunk \/ TakeFinish \/ NoChunk \/ Disconnected \/ NoRuntime
  BY <1>4 DEF TakeChunk, TakeFinish, NoChunk, Disconnected, NoRuntime, AdmitChunk, Fault, Drain, emission,
       shipping, remote, ending
<1>5. CASE TakeRuntime \/ DrainRuntime
  BY <1>5 DEF TakeRuntime, DrainRuntime, AdmitRuntimeSsh, Fault, emission, remote, ending
<1>6. CASE DrainCustomer \/ DrainNext
  BY <1>6 DEF DrainCustomer, DrainNext, AdmitChunk, Fault, emission, shipping, remote, ending
<1>7. CASE DrainEvidence \/ FinalEvidence
  BY <1>7 DEF DrainEvidence, FinalEvidence, AdmitDropEvidence, Fault, emission, remote, ending
<1>8. CASE FinalFlush \/ Acknowledge
  BY <1>8 DEF FinalFlush, Acknowledge, emission, shipping, remote, ending
<1>9. ASSUME FlushErr, UNCHANGED <<local, foreign>>, lost' = TRUE \/ UNCHANGED lost,
             pc \in {"flush", "post", "resume"}
      PROVE  ControlInv'
  <2>1. acknowledged' \in BOOLEAN
    BY <1>9, Zenon DEF FlushErr
  <2>2. attempts' = 0 /\ pc' = IF then = "finish" THEN "ended" ELSE "poll"
    BY <1>9, Zenon DEF FlushErr
  <2>3. lost' \in BOOLEAN
    BY <1>9, Zenon DEF ControlInv
  <2>4. UNCHANGED <<marked, readers, main, foreign, faults, then>>
    BY <1>9, Zenon DEF local, emission
  <2> QED
    BY <2>1, <2>2, <2>3, <2>4
<1>10. ASSUME FlushOk, UNCHANGED <<local, foreign, lost>>, pc \in {"flush", "post", "resume"}
       PROVE  ControlInv'
  BY <1>10 DEF FlushOk, local, emission
<1>11. ASSUME pc \in {"flush", "post"}, pc' \in {"post", "resume"}, attempts' \in 0..MaxRebase,
              UNCHANGED <<local, foreign, lost, acknowledged>>
       PROVE  ControlInv'
  BY <1>11 DEF local, emission
<1>12. CASE ForeignWrite
  BY <1>12 DEF ForeignWrite, local, emission, shipping
<1>14. attempts \in 0..MaxRebase /\ (attempts < MaxRebase => attempts + 1 \in 0..MaxRebase)
  OBVIOUS
<1> HIDE DEF ControlInv
<1>15. CASE FlushIdle \/ FlushStart \/ ResolveFails
  BY <1>9, <1>10, <1>11, <1>14, <1>15 DEF FlushIdle, FlushStart, ResolveFails, remote
<1>16. CASE PostAccepted \/ PostReplayed \/ Resume
  BY <1>10, <1>11, <1>14, <1>16 DEF PostAccepted, PostReplayed, Resume, Accepted, shipping, remote
<1>17. CASE PostUnanswered \/ PostFails \/ PostConflict \/ ResumeFails
  BY <1>9, <1>11, <1>14, <1>17 DEF PostUnanswered, PostFails, PostConflict, ResumeFails, remote
<1> QED
  BY <1>1, <1>2, <1>3, <1>4, <1>5, <1>6, <1>7, <1>8, <1>12, <1>15, <1>16, <1>17 DEF Next, Producers, Worker

(* What an emitter does: it takes the next id, and reserves memory for the *)
(* record or counts it as dropped.                                         *)
Emits(record) ==
  /\ lines < MaxLines /\ lines' = lines + 1 /\ record.id = lines + 1
  /\ \/ /\ queuedBytes < QueueMemory /\ queuedBytes' = queuedBytes + 1
        /\ emitting' = emitting \cup {record} /\ UNCHANGED drops
     \/ Record("runtime_ssh", record.id) /\ UNCHANGED <<queuedBytes, emitting>>

(* Both kinds of emitter do that and touch nothing else.                   *)
LEMMA EmitKinds ==
  ASSUME EmitCritical \/ \E admitted \in BOOLEAN : EmitRaw(admitted)
  PROVE  /\ \E critical \in BOOLEAN : Emits([id |-> lines + 1, critical |-> critical])
         /\ UNCHANGED <<capture, customer, runtime, pc, then, shipping, remote, ending, faults>>
<1>1. ASSUME NEW critical \in BOOLEAN, NEW admitted \in BOOLEAN, lines < MaxLines,
             Reserve([id |-> lines + 1, critical |-> critical], admitted)
      PROVE  Emits([id |-> lines + 1, critical |-> critical])
  <2> DEFINE record == [id |-> lines + 1, critical |-> critical]
  <2>1. record.id = lines + 1
    OBVIOUS
  <2> HIDE DEF record
  <2>2. Reserve(record, admitted)
    BY <1>1 DEF record
  <2>3. Emits(record)
    BY <1>1, <2>1, <2>2 DEF Reserve, Emits
  <2> QED
    BY <2>3 DEF record
<1>2. CASE EmitCritical
  <2>1. lines < MaxLines /\ Reserve([id |-> lines + 1, critical |-> TRUE], TRUE)
        /\ UNCHANGED <<capture, customer, runtime, pc, then, shipping, remote, ending, faults>>
    BY <1>2, Zenon DEF EmitCritical
  <2>2. TRUE \in BOOLEAN
    OBVIOUS
  <2> QED
    BY <1>1, <2>1, <2>2, Zenon
<1>3. ASSUME NEW admitted \in BOOLEAN, EmitRaw(admitted)
      PROVE  /\ \E critical \in BOOLEAN : Emits([id |-> lines + 1, critical |-> critical])
             /\ UNCHANGED <<capture, customer, runtime, pc, then, shipping, remote, ending, faults>>
  <2>1. lines < MaxLines /\ UNCHANGED <<capture, customer, runtime, pc, then, shipping, remote, ending, faults>>
    BY <1>3, Zenon DEF EmitRaw
  <2>2. \/ Reserve([id |-> lines + 1, critical |-> TRUE], TRUE)
        \/ Reserve([id |-> lines + 1, critical |-> FALSE], admitted)
    BY <1>3, Zenon DEF EmitRaw
  <2>3. TRUE \in BOOLEAN /\ FALSE \in BOOLEAN
    OBVIOUS
  <2> QED
    BY <1>1, <2>1, <2>2, <2>3, Zenon
<1> QED
  BY <1>2, <1>3

(* The records of Runtime SSH, up to the end of their queue.               *)
LEMMA EmissionNext ==
  ASSUME EmissionInv, Next
  PROVE  EmissionInv'
<1> USE Bounds
<1>0. CASE UNCHANGED <<lines, emitting, runtime, queuedBytes>>
  BY <1>0 DEF EmissionInv, QueueMemoryExact
<1>1. ASSUME NEW record \in Emitted, Emits(record), UNCHANGED runtime
      PROVE  EmissionInv'
  <2>1. CASE UNCHANGED <<queuedBytes, emitting>>
    <3>1. lines' = lines + 1 /\ lines < MaxLines
      BY <1>1 DEF Emits
    <3>2. \A r \in emitting : r.id \in Nat /\ r.id <= lines
      BY DEF EmissionInv, Emitted
    <3>3. \A r \in emitting' : r.id <= lines'
      BY <2>1, <3>1, <3>2 DEF EmissionInv
    <3> QED
      BY <1>1, <2>1, <3>1, <3>3 DEF EmissionInv, QueueMemoryExact
  <2>2. CASE queuedBytes < QueueMemory /\ queuedBytes' = queuedBytes + 1 /\ emitting' = emitting \cup {record}
    <3>1. record \notin emitting
      BY <1>1 DEF Emits, EmissionInv
    <3>2. IsFiniteSet(emitting')
          /\ Cardinality(emitting') = IF record \in emitting THEN Cardinality(emitting) ELSE Cardinality(emitting) + 1
      BY <2>2, FS_AddElement, Zenon DEF EmissionInv
    <3>3. Cardinality(emitting) \in Nat /\ Len(runtime) \in Nat
      BY FS_CardinalityType DEF EmissionInv
    <3>4. queuedBytes' = Len(runtime') + Cardinality(emitting')
      BY <1>1, <2>2, <3>1, <3>2, <3>3 DEF EmissionInv, QueueMemoryExact
    <3>5. \A r \in emitting' : r \in Emitted /\ r.id <= lines'
      BY <1>1, <2>2 DEF EmissionInv, Emits, Emitted
    <3> QED
      BY <1>1, <2>2, <3>2, <3>4, <3>5 DEF EmissionInv, QueueMemoryExact, Emits
  <2> QED
    BY <1>1, <2>1, <2>2 DEF Emits
<1>2. CASE EmitCritical \/ \E admitted \in BOOLEAN : EmitRaw(admitted)
  <2>1. PICK critical \in BOOLEAN : Emits([id |-> lines + 1, critical |-> critical])
    BY <1>2, EmitKinds
  <2>2. [id |-> lines + 1, critical |-> critical] \in Emitted
    BY DEF Emitted, EmissionInv
  <2> QED
    BY <1>1, <1>2, <2>1, <2>2, EmitKinds
<1>3. ASSUME NEW record \in emitting, SendRecord(record)
      PROVE  EmissionInv'
  <2>1. emitting' = emitting \ {record} /\ UNCHANGED lines
    BY <1>3 DEF SendRecord
  <2>2. IsFiniteSet(emitting')
        /\ Cardinality(emitting') = IF record \in emitting THEN Cardinality(emitting) - 1 ELSE Cardinality(emitting)
    BY <2>1, FS_RemoveElement, Zenon DEF EmissionInv
  <2>3. Cardinality(emitting) \in Nat /\ Cardinality(emitting') \in Nat /\ Len(runtime) \in Nat
    BY <2>2, FS_CardinalityType DEF EmissionInv
  <2>4. CASE Accepts(runtime) /\ runtime' = Append(runtime, record) /\ UNCHANGED queuedBytes
    <3>1. runtime' \in Seq(Emitted) /\ Len(runtime') = Len(runtime) + 1
      BY <1>3, <2>4 DEF EmissionInv
    <3> QED
      BY <2>1, <2>2, <2>3, <2>4, <3>1 DEF EmissionInv, QueueMemoryExact, Accepts
  <2>5. CASE UNCHANGED runtime /\ queuedBytes' = queuedBytes - 1
    BY <2>1, <2>2, <2>3, <2>5 DEF EmissionInv, QueueMemoryExact
  <2> QED
    BY <1>3, <2>4, <2>5 DEF SendRecord
<1>4. CASE TakeRuntime \/ DrainRuntime
  <2>1. /\ runtime # <<>> /\ runtime' = Tail(runtime) /\ queuedBytes' = queuedBytes - 1
        /\ UNCHANGED <<lines, emitting>>
    BY <1>4 DEF TakeRuntime, DrainRuntime, AdmitRuntimeSsh, emission
  <2>2. Cardinality(emitting) \in Nat
    BY FS_CardinalityType DEF EmissionInv
  <2>3. runtime' \in Seq(Emitted) /\ Len(runtime') = Len(runtime) - 1 /\ Len(runtime') \in Nat
    BY <2>1 DEF EmissionInv
  <2> QED
    BY <2>1, <2>2, <2>3 DEF EmissionInv, QueueMemoryExact
<1>5. CASE \/ (\E s \in Streams : ReadChunk(s) \/ \E admitted \in BOOLEAN : EnqueueChunk(s, admitted))
           \/ ReadersEnd \/ TakeChunk \/ TakeFinish \/ NoChunk \/ Disconnected \/ NoRuntime
           \/ DrainCustomer \/ DrainNext \/ DrainEvidence \/ FinalEvidence \/ FinalFlush \/ Acknowledge
           \/ Finish \/ FinishReturns
  BY <1>0, <1>5 DEF ReadChunk, EnqueueChunk, ReadersEnd, TakeChunk, TakeFinish, NoChunk, Disconnected, NoRuntime,
       DrainCustomer, DrainNext, DrainEvidence, FinalEvidence, FinalFlush, Acknowledge, Finish, FinishReturns,
       emission, queues
<1>6. CASE \/ FlushIdle \/ FlushStart \/ ResolveFails \/ PostAccepted \/ PostReplayed \/ PostUnanswered
           \/ PostFails \/ PostConflict \/ Resume \/ ResumeFails \/ ForeignWrite
  BY <1>0, <1>6 DEF FlushIdle, FlushStart, ResolveFails, PostAccepted, PostReplayed, PostUnanswered, PostFails,
       PostConflict, Resume, ResumeFails, ForeignWrite, Accepted, local, emission, queues
<1> QED
  BY <1>2, <1>3, <1>4, <1>5, <1>6 DEF Next, Producers, Worker

(* A record that cannot be kept is counted.                                *)
LEMMA RecordCounts ==
  ASSUME DropInv, NEW origin \in Origins, NEW id \in Nat, Record(origin, id)
  PROVE  DropInv' /\ id \in counted'[origin] /\ \A o \in Origins : counted[o] \subseteq counted'[o]
BY DEF DropInv, Record

(* What the worker counts when it takes a record from a queue.             *)
LEMMA AdmitCounts ==
  ASSUME DropInv, NEW r \in Records, AdmitChunk(r)
  PROVE  /\ DropInv' /\ \A o \in Origins : counted[o] \subseteq counted'[o]
         /\ \/ pending' = InsertCustomer(r)
            \/ UNCHANGED <<pending, batch>> /\ \E id \in r.ids : id \in counted'["customer"]
<1>0. "customer" \in Origins /\ r.ids \subseteq Nat
  BY DEF Origins, Records
<1>1. ASSUME NEW id \in r.ids, Record("customer", id)
      PROVE  /\ DropInv' /\ \A o \in Origins : counted[o] \subseteq counted'[o]
             /\ id \in counted'["customer"]
  BY <1>0, <1>1, RecordCounts
<1>2. CASE UNCHANGED drops /\ pending' = InsertCustomer(r)
  BY <1>2 DEF drops, DropInv
<1>3. CASE UNCHANGED <<pending, batch>> /\ \E id \in r.ids : Record("customer", id)
  BY <1>1, <1>3
<1> QED
  BY <1>2, <1>3 DEF AdmitChunk

(* The drop counters only grow, but for what evidence takes from them.     *)
LEMMA DropNext ==
  ASSUME DropInv, CaptureInv, EmissionInv, Next
  PROVE  DropInv' /\ \A o \in Origins : counted[o] \subseteq counted'[o]
<1> DEFINE Kept == DropInv' /\ \A o \in Origins : counted[o] \subseteq counted'[o]
<1>0. ASSUME UNCHANGED drops PROVE Kept
  BY <1>0 DEF drops, DropInv
<1>1. ASSUME NEW origin \in Origins, NEW id \in Nat, Record(origin, id) PROVE Kept
  BY <1>1, RecordCounts
<1>2. "customer" \in Origins /\ "runtime_ssh" \in Origins
  BY DEF Origins
<1> SUFFICES Kept
  OBVIOUS
<1> HIDE DEF Kept
<1>3. ASSUME NEW s \in Streams, NEW admitted, EnqueueChunk(s, admitted) PROVE Kept
  BY <1>0, <1>1, <1>2, <1>3 DEF EnqueueChunk, CaptureInv
<1>4. CASE EmitCritical \/ \E admitted \in BOOLEAN : EmitRaw(admitted)
  <2>1. PICK critical \in BOOLEAN : Emits([id |-> lines + 1, critical |-> critical])
    BY <1>4, EmitKinds
  <2> DEFINE record == [id |-> lines + 1, critical |-> critical]
  <2>2. record.id \in Nat
    BY DEF EmissionInv
  <2> HIDE DEF record
  <2>3. Emits(record)
    BY <2>1 DEF record
  <2> QED
    BY <1>0, <1>1, <1>2, <2>2, <2>3 DEF Emits
<1>5. ASSUME NEW record \in emitting, SendRecord(record) PROVE Kept
  <2>1. record.id \in Nat
    BY DEF EmissionInv, Emitted
  <2> QED
    BY <1>0, <1>1, <1>2, <1>5, <2>1 DEF SendRecord, drops
<1>6. ASSUME NEW r \in Records, AdmitChunk(r) PROVE Kept
  BY <1>6, AdmitCounts DEF Kept
<1>7. customer # <<>> => Head(customer) \in Records
  BY DEF CaptureInv
<1>8. CASE TakeChunk \/ DrainCustomer
  BY <1>0, <1>6, <1>7, <1>8 DEF TakeChunk, DrainCustomer
<1>9. CASE TakeRuntime \/ DrainRuntime
  <2>1. AdmitRuntimeSsh
    BY <1>9 DEF TakeRuntime, DrainRuntime
  <2>2. Head(runtime).id \in Nat
    <3>1. Head(runtime) \in Emitted
      BY <2>1 DEF AdmitRuntimeSsh, EmissionInv
    <3> QED
      BY <3>1 DEF Emitted
  <2> QED
    BY <1>0, <1>1, <1>2, <2>1, <2>2 DEF AdmitRuntimeSsh
<1>10. ASSUME NEW origin \in Origins, AdmitDropEvidence(origin), UNCHANGED counted PROVE Kept
  BY <1>10 DEF Kept, AdmitDropEvidence, DropInv
<1>11. CASE DrainEvidence \/ FinalEvidence
  BY <1>2, <1>10, <1>11 DEF DrainEvidence, FinalEvidence
<1>12. CASE \/ (\E s \in Streams : ReadChunk(s)) \/ ReadersEnd \/ TakeFinish \/ NoChunk \/ Disconnected \/ NoRuntime
            \/ DrainNext \/ FinalFlush \/ Acknowledge \/ Finish \/ FinishReturns
  BY <1>0, <1>12 DEF ReadChunk, ReadersEnd, TakeFinish, NoChunk, Disconnected, NoRuntime, DrainNext, FinalFlush,
       Acknowledge, Finish, FinishReturns
<1>13. CASE \/ FlushIdle \/ FlushStart \/ ResolveFails \/ PostAccepted \/ PostReplayed \/ PostUnanswered
            \/ PostFails \/ PostConflict \/ Resume \/ ResumeFails \/ ForeignWrite
  BY <1>0, <1>13 DEF FlushIdle, FlushStart, ResolveFails, PostAccepted, PostReplayed, PostUnanswered, PostFails,
       PostConflict, Resume, ResumeFails, ForeignWrite, Accepted, local
<1> QED
  BY <1>3, <1>4, <1>5, <1>8, <1>9, <1>11, <1>12, <1>13 DEF Next, Producers, Worker
-----------------------------------------------------------------------------
(* pending_records and pending_batch. *)

Pendable(r) == IsChunk(r) \/ (r.src = "customer" /\ r.evidence) \/ r.src = "ssh"

(* Customer records are at the front, and both kinds are bounded.          *)
PendingInv ==
  /\ pending \in Seq(Records)
  /\ \A i \in 1..Len(pending) : Pendable(pending[i])
  /\ \A i, j \in 1..Len(pending) :
       i < j /\ Origin(pending[j]) = "customer" => Origin(pending[i]) = "customer"
  /\ Count("customer", pending) <= MaxBatch /\ Count("runtime_ssh", pending) <= 3 * MaxBatch

(* After finish_prioritized admitted the customer's evidence.              *)
LateStage == then = "finish" /\ pc \in {"final_drops", "final", "flush", "post", "resume", "ended"}

Carries(k) ==
  /\ Len(batch.records) + k <= Len(pending)
  /\ \A i \in 1..Len(batch.records) : pending[i + k] = batch.records[i]

(* A retained batch is of one origin and is what pending_records begins    *)
(* with; but the customer's last evidence is inserted before a provider    *)
(* batch that stays.                                                       *)
BatchInv ==
  /\ batch \in [start : Nat, records : Seq(Records)] /\ Len(batch.records) <= MaxBatch
  /\ next \in Nat
  /\ pc \in {"post", "resume"} => batch # NoBatch
  /\ batch # NoBatch =>
       /\ batch.start >= 1 /\ Len(batch.records) >= 1
       /\ \A i \in 1..Len(batch.records) : Origin(batch.records[i]) = Origin(batch.records[1])
       /\ \/ Carries(0)
          \/ /\ Carries(1) /\ LateStage
             /\ Origin(batch.records[1]) = "runtime_ssh"
             /\ pending[1].evidence /\ Origin(pending[1]) = "customer"

(* A batch that is built is the front of pending_records.                  *)
LEMMA BuildShape ==
  ASSUME pending \in Seq(Records), pending # <<>>, NEW head \in Nat
  PROVE  /\ Build(head) \in [start : Nat, records : Seq(Records)] /\ Build(head).start = head
         /\ Len(Build(head).records) \in 1..MaxBatch /\ Len(Build(head).records) <= Len(pending)
         /\ \A i \in 1..Len(Build(head).records) :
              /\ Build(head).records[i] = pending[i]
              /\ Origin(Build(head).records[i]) = Origin(pending[1])
<1> DEFINE sizes == {n \in 1..Len(pending) :
                       /\ n <= MaxBatch
                       /\ \A i \in 1..n : Origin(pending[i]) = Origin(pending[1])}
           m == Max(sizes)
<1>0. Len(pending) \in Nat /\ Len(pending) >= 1 /\ \A i \in 1..Len(pending) : pending[i] \in Records
  OBVIOUS
<1>1. 1 \in sizes
  BY <1>0, Bounds
<1>2. sizes \in SUBSET (0..Len(pending)) /\ sizes # {}
  BY <1>0, <1>1
<1>3. m \in sizes
  BY <1>0, <1>2, Greatest
<1>4. m \in 1..Len(pending) /\ m <= MaxBatch /\ \A i \in 1..m : Origin(pending[i]) = Origin(pending[1])
  BY <1>3
<1>5. Build(head) = [start |-> head, records |-> SubSeq(pending, 1, m)]
  BY DEF Build
<1> HIDE DEF m
<1>6. /\ SubSeq(pending, 1, m) \in Seq(Records) /\ Len(SubSeq(pending, 1, m)) = m
      /\ \A i \in 1..m : SubSeq(pending, 1, m)[i] = pending[i]
  BY <1>0, <1>4
<1> QED
  BY <1>4, <1>5, <1>6, Bounds

(* The steps by what they do to the two.                                   *)
KeepsBatch ==
  /\ UNCHANGED <<pending, batch, next>> /\ (LateStage => LateStage')
  /\ pc' \in {"post", "resume"} => pc \in {"post", "resume"} \/ batch # NoBatch

AddsChunk ==
  /\ pc \in {"poll", "wait", "drain_customer"} /\ pc' = "drain_customer" /\ customer # <<>>
  /\ IsChunk(Head(customer)) /\ customer' = Tail(customer)
  /\ Count("customer", pending) < MaxBatch
  /\ RebuildLater /\ pending' = InsertCustomer(Head(customer)) /\ UNCHANGED <<next, sink, lost>>

AddsSsh ==
  /\ \E r \in Records : /\ r.src = "ssh" /\ pending' = Append(pending, r)
                        /\ Count("runtime_ssh", pending) < 3 * MaxBatch
  /\ UNCHANGED <<batch, next>> /\ (LateStage => LateStage')
  /\ pc \notin {"post", "resume"} /\ pc' \notin {"post", "resume"}

AddsEvidence ==
  /\ \E r \in Records : r.src = "customer" /\ r.evidence /\ pending' = InsertCustomer(r)
  /\ Count("customer", pending) < MaxBatch
  /\ UNCHANGED <<batch, next, then>>
  /\ pc = "final_evidence" /\ pc' = "final_drops" /\ then = "finish"

Ships ==
  /\ pc \in {"post", "resume"} /\ pc' \in {"final", "poll"}
  /\ next' = Len(sink') + 1 /\ batch' = NoBatch
  /\ pending' = SubSeq(pending, Len(batch.records) + 1, Len(pending))

Builds ==
  /\ pc \in {"flush", "post"} /\ pc' = "post"
  /\ UNCHANGED pending /\ (pending # <<>> \/ pc = "post")
  /\ next' \in {next, Len(sink) + 1} \ {0} /\ batch' = Build(next')

(* The queues hold what the worker admits.                                 *)
LEMMA ShipKinds ==
  ASSUME CaptureInv, EmissionInv, DropInv, ControlInv, PendingInv, Next
  PROVE  KeepsBatch \/ AddsChunk \/ AddsSsh \/ AddsEvidence \/ Ships \/ Builds
<1> USE Bounds
<1>0. ASSUME UNCHANGED <<shipping, pc, then>>
      PROVE  KeepsBatch
  BY <1>0 DEF KeepsBatch, shipping, LateStage
<1>1. CASE \/ (\E s \in Streams : ReadChunk(s) \/ \E admitted \in BOOLEAN : EnqueueChunk(s, admitted))
           \/ ReadersEnd \/ (\E record \in emitting : SendRecord(record)) \/ ForeignWrite \/ Finish \/ FinishReturns
  BY <1>0, <1>1 DEF ReadChunk, EnqueueChunk, ReadersEnd, SendRecord, ForeignWrite, Finish, FinishReturns, local
<1>2. CASE EmitCritical \/ \E admitted \in BOOLEAN : EmitRaw(admitted)
  BY <1>0, <1>2, EmitKinds
<1>3. ASSUME UNCHANGED <<pending, batch, next>>, pc' \notin {"post", "resume"}, ~LateStage
      PROVE  KeepsBatch
  BY <1>3 DEF KeepsBatch
<1>4. CASE TakeFinish \/ NoChunk \/ Disconnected \/ NoRuntime \/ DrainNext
  BY <1>3, <1>4 DEF TakeFinish, NoChunk, Disconnected, NoRuntime, DrainNext, Drain, LateStage, shipping
<1>5. ASSUME customer # <<>>, Head(customer) # FinishWork
      PROVE  IsChunk(Head(customer)) /\ Head(customer) \in Records
  BY <1>5 DEF CaptureInv
<1>6. CASE TakeChunk
  BY <1>3, <1>5, <1>6 DEF TakeChunk, AdmitChunk, Drain, AddsChunk, LateStage, remote
<1>7. CASE DrainCustomer
  BY <1>3, <1>5, <1>7 DEF DrainCustomer, AdmitChunk, AddsChunk, LateStage, remote
<1>9. Count("runtime_ssh", pending) \in Nat
  BY CountAt DEF PendingInv
<1>8. CASE TakeRuntime \/ DrainRuntime
  <2>1. /\ AdmitRuntimeSsh /\ UNCHANGED <<batch, next>> /\ ~LateStage
        /\ pc \notin {"post", "resume"} /\ pc' \notin {"post", "resume"}
    BY <1>8 DEF TakeRuntime, DrainRuntime, LateStage
  <2>2. Head(runtime) \in Emitted
    BY <2>1 DEF AdmitRuntimeSsh, EmissionInv
  <2>3. Line("ssh", Head(runtime).id) \in Records /\ Line("ssh", Head(runtime).id).src = "ssh"
    BY <2>2, LineTyped DEF Emitted
  <2>4. CASE UNCHANGED pending
    BY <1>3, <2>1, <2>4
  <2>5. CASE /\ Count("runtime_ssh", pending) < RuntimeCap(Head(runtime))
             /\ pending' = Append(pending, Line("ssh", Head(runtime).id))
    <3>1. Count("runtime_ssh", pending) < MaxBatch \/ Count("runtime_ssh", pending) < 3 * MaxBatch
      BY <2>5 DEF RuntimeCap
    <3>2. Count("runtime_ssh", pending) < 3 * MaxBatch
      BY <1>9, <3>1
    <3> QED
      BY <2>1, <2>3, <2>5, <3>2 DEF AddsSsh
  <2> QED
    BY <2>1, <2>4, <2>5 DEF AdmitRuntimeSsh
<1>10. ASSUME AdmitDropEvidence("runtime_ssh"), UNCHANGED <<batch, next>>, LateStage => LateStage',
              pc \notin {"post", "resume"}, pc' \notin {"post", "resume"}
       PROVE  KeepsBatch \/ AddsSsh
  <2> DEFINE r == Evidence("ssh", dropped["runtime_ssh"])
  <2>1. r \in Records /\ r.src = "ssh"
    BY DEF DropInv, Origins, Evidence, Records
  <2>2. CASE UNCHANGED pending
    BY <1>10, <2>2 DEF KeepsBatch
  <2>3. CASE pending' = Append(pending, r) /\ ~(Count("runtime_ssh", pending) >= MaxBatch)
    <3>1. Count("runtime_ssh", pending) < 3 * MaxBatch
      BY <1>9, <2>3
    <3> HIDE DEF r
    <3> QED
      BY <1>10, <2>1, <2>3, <3>1 DEF AddsSsh
  <2> HIDE DEF r
  <2>4. UNCHANGED pending \/ (pending' = Append(pending, r) /\ ~(Count("runtime_ssh", pending) >= MaxBatch))
    BY <1>10 DEF AdmitDropEvidence, r
  <2> QED
    BY <2>2, <2>3, <2>4
<1>11. CASE DrainEvidence
  <2>1. pc' \in {"flush", "final_evidence", "ended"} /\ ~LateStage
    BY <1>11 DEF DrainEvidence, ControlInv, LateStage
  <2> QED
    BY <1>10, <1>11, <2>1 DEF DrainEvidence
<1>12. CASE FinalEvidence /\ pc = "final_drops"
  <2>1. pc' = "final" /\ UNCHANGED then /\ AdmitDropEvidence("runtime_ssh") /\ UNCHANGED <<batch, next>>
    BY <1>12 DEF FinalEvidence
  <2> QED
    BY <1>10, <1>12, <2>1 DEF LateStage
<1>13. CASE FinalEvidence /\ pc = "final_evidence"
  <2>1. pc' = "final_drops" /\ UNCHANGED then /\ AdmitDropEvidence("customer") /\ UNCHANGED <<batch, next>>
    BY <1>13 DEF FinalEvidence
  <2>2. then = "finish"
    BY <1>13 DEF ControlInv
  <2> DEFINE r == Evidence("customer", dropped["customer"])
  <2>3. r \in Records /\ r.src = "customer" /\ r.evidence
    BY DEF DropInv, Origins, Evidence, Records
  <2> HIDE DEF r
  <2>4. CASE UNCHANGED pending
    BY <1>13, <2>1, <2>4 DEF KeepsBatch, LateStage
  <2>5. CASE pending' = InsertCustomer(r) /\ ~(Count("customer", pending) >= MaxBatch)
    <3>1. Count("customer", pending) \in Nat
      BY CountAt DEF PendingInv
    <3>2. Count("customer", pending) < MaxBatch
      BY <2>5, <3>1
    <3> QED
      BY <1>13, <2>1, <2>2, <2>3, <2>5, <3>2 DEF AddsEvidence
  <2>6. UNCHANGED pending \/ (pending' = InsertCustomer(r) /\ ~(Count("customer", pending) >= MaxBatch))
    BY <2>1 DEF AdmitDropEvidence, r
  <2> QED
    BY <2>4, <2>5, <2>6
<1>14. CASE FinalFlush \/ Acknowledge
  BY <1>14 DEF FinalFlush, Acknowledge, KeepsBatch, LateStage, shipping
<1>15. ASSUME pc \in {"flush", "post", "resume"}, UNCHANGED <<pending, batch, next, then>>, FlushErr \/ FlushOk
       PROVE  KeepsBatch
  <2>1. \/ pc' = (IF then = "finish" THEN "ended" ELSE "poll")
        \/ pc' = (IF then = "finish" THEN "final" ELSE "poll")
    BY <1>15, Zenon DEF FlushErr, FlushOk
  <2> QED
    BY <1>15, <2>1 DEF KeepsBatch, LateStage
<1>16. CASE FlushIdle \/ ResolveFails \/ PostUnanswered \/ PostFails \/ ResumeFails
  BY <1>15, <1>16 DEF FlushIdle, ResolveFails, PostUnanswered, PostFails, ResumeFails, kept, local
<1>17. CASE FlushStart
  <2>1. CASE batch = NoBatch
    <3>1. next' # 0
      <4>1. Len(sink) + 1 # 0 \/ next # 0
        OBVIOUS
      <4> QED
        BY <1>17, <2>1 DEF FlushStart
    <3> QED
      BY <1>17, <2>1, <3>1 DEF FlushStart, Builds
  <2>2. CASE batch # NoBatch
    BY <1>17, <2>2 DEF FlushStart, KeepsBatch, LateStage, local
  <2> QED
    BY <2>1, <2>2
<1>18. CASE PostConflict
  <2>1. CASE FlushErr /\ UNCHANGED <<next, batch>>
    BY <1>15, <1>18, <2>1 DEF PostConflict, local
  <2>2. CASE next' = Len(sink) + 1 /\ batch' = Build(next') /\ UNCHANGED pc
    BY <1>18, <2>2 DEF PostConflict, Builds
  <2> QED
    BY <1>18, <2>1, <2>2 DEF PostConflict
<1>19. ASSUME pc \in {"post", "resume"}, Accepted(Len(sink') + 1)
       PROVE  Ships
  BY <1>19 DEF Accepted, FlushOk, Ships
<1>20. CASE PostAccepted
  <2>1. CASE Accepted(Len(sink') + 1)
    BY <1>19, <1>20, <2>1 DEF PostAccepted
  <2>2. CASE pc' = "resume" /\ UNCHANGED <<local, shipping, acknowledged>>
    BY <1>20, <2>2 DEF PostAccepted, KeepsBatch, LateStage, local, shipping
  <2> QED
    BY <1>20, <2>1, <2>2 DEF PostAccepted
<1>21. CASE PostReplayed \/ Resume
  BY <1>19, <1>21 DEF PostReplayed, Resume, remote
<1> QED
  BY <1>1, <1>2, <1>4, <1>6, <1>7, <1>8, <1>11, <1>12, <1>13, <1>14, <1>16, <1>17, <1>18, <1>20, <1>21
     DEF Next, Producers, Worker, FinalEvidence

(* What the sink holds of a stream are chunks.                             *)
SinkInv ==
  /\ sink \in Seq(Records)
  /\ \A i \in 1..Len(sink) : sink[i].src \in Streams => IsChunk(sink[i])

(* The origin of a record.                                                 *)
LEMMA Origins2 ==
  ASSUME NEW r
  PROVE  /\ r.src = "ssh" => Origin(r) = "runtime_ssh"
         /\ r.src # "ssh" => Origin(r) = "customer"
         /\ Origin(r) = "customer" <=> r.src # "ssh"
         /\ IsChunk(r) => Origin(r) = "customer"
         /\ Origin(r) \in {"customer", "runtime_ssh"}
BY Bounds DEF Origin, IsChunk

(* A shipped batch leaves the front of the list.                           *)
LEMMA ShipShape ==
  ASSUME PendingInv, BatchInv, Ships
  PROVE  Shifted(pending, pending', Len(batch.records))
<1> DEFINE k == Len(batch.records)
<1>1. k \in Nat /\ k <= Len(pending) /\ Len(pending) \in Nat
  BY DEF PendingInv, BatchInv, Ships, Carries
<1>2. \A i \in 1..Len(pending) : pending[i] \in Records
  BY DEF PendingInv
<1>3. pending' = SubSeq(pending, k + 1, Len(pending))
  BY DEF Ships
<1> HIDE DEF k
<1>4. /\ pending' \in Seq(Records) /\ Len(pending') = Len(pending) - k
      /\ \A i \in 1..(Len(pending) - k) : pending'[i] = pending[i + k]
  BY <1>1, <1>2, <1>3
<1>5. k \in 0..Len(pending)
  BY <1>1
<1>6. Shifted(pending, pending', k)
  BY <1>4, <1>5 DEF Shifted
<1> QED
  BY <1>6 DEF k

(* A customer record inserted keeps the customer's records in front.       *)
LEMMA PendingInserted ==
  ASSUME PendingInv, NEW r \in Records, Pendable(r), Origin(r) = "customer",
         Count("customer", pending) < MaxBatch, pending' = InsertCustomer(r)
  PROVE  PendingInv'
<1>1. PICK at : /\ Inserted(pending, pending', at, r)
                /\ \A i \in 1..Len(pending) : i < at => Origin(pending[i]) = "customer"
                /\ at \in 1..Len(pending) => Origin(pending[at]) = "runtime_ssh"
  BY InsertShape DEF PendingInv
<1>2. Count("customer", pending') = Count("customer", pending) + 1
  <2>1. Count("customer", pending') = Count("customer", pending) + IF Origin(r) = "customer" THEN 1 ELSE 0
    BY <1>1, CountInserted DEF PendingInv
  <2> QED
    BY <2>1
<1>3. Count("runtime_ssh", pending') = Count("runtime_ssh", pending)
  <2>1. Count("runtime_ssh", pending') = Count("runtime_ssh", pending) + IF Origin(r) = "runtime_ssh" THEN 1 ELSE 0
    BY <1>1, CountInserted DEF PendingInv
  <2>2. Count("runtime_ssh", pending) \in Nat
    BY CountAt DEF PendingInv
  <2> QED
    BY <2>1, <2>2
<1>4. Count("customer", pending) \in Nat /\ Count("runtime_ssh", pending) \in Nat
  BY CountAt DEF PendingInv
<1>5. /\ Len(pending) \in Nat /\ at \in 1..(Len(pending) + 1) /\ Len(pending') = Len(pending) + 1
      /\ pending' \in Seq(Records) /\ pending'[at] = r
      /\ \A i \in 1..Len(pending) : /\ i < at => pending'[i] = pending[i]
                                    /\ i >= at => pending'[i + 1] = pending[i]
  BY <1>1 DEF Inserted, PendingInv
<1>6. \A j \in 1..Len(pending') : \/ j = at
                                  \/ j < at /\ j \in 1..Len(pending) /\ pending'[j] = pending[j]
                                  \/ j > at /\ j - 1 \in 1..Len(pending) /\ pending'[j] = pending[j - 1]
  <2>1. ASSUME NEW j \in 1..Len(pending'), j > at
        PROVE  j - 1 \in 1..Len(pending) /\ pending'[j] = pending[j - 1]
    <3>1. j - 1 \in 1..Len(pending) /\ j - 1 >= at /\ (j - 1) + 1 = j
      BY <1>5, <2>1
    <3> QED
      BY <1>5, <3>1
  <2>2. ASSUME NEW j \in 1..Len(pending'), j < at
        PROVE  j \in 1..Len(pending) /\ pending'[j] = pending[j]
    BY <1>5, <2>2
  <2> QED
    BY <1>5, <2>1, <2>2
<1>7. \A i \in 1..Len(pending') : Pendable(pending'[i])
  BY <1>5, <1>6 DEF PendingInv
<1>8. \A i \in 1..Len(pending) : i >= at => Origin(pending[i]) = "runtime_ssh"
  <2>1. ASSUME NEW i \in 1..Len(pending), i >= at PROVE Origin(pending[i]) = "runtime_ssh"
    <3>1. at \in 1..Len(pending) /\ Origin(pending[at]) = "runtime_ssh"
      BY <1>1, <1>5, <2>1
    <3>2. Origin(pending[i]) # "customer"
      BY <2>1, <3>1 DEF PendingInv
    <3> QED
      BY <3>2, Origins2
  <2> QED
    BY <2>1
<1>9. ASSUME NEW i \in 1..Len(pending'), NEW j \in 1..Len(pending'), i < j, Origin(pending'[j]) = "customer"
      PROVE  Origin(pending'[i]) = "customer"
  <2>1. j <= at
    <3>1. SUFFICES ASSUME j > at PROVE FALSE
      BY <1>5
    <3>2. j - 1 \in 1..Len(pending) /\ j - 1 >= at /\ pending'[j] = pending[j - 1]
      BY <1>5, <1>6, <3>1
    <3>3. Origin(pending[j - 1]) = "runtime_ssh"
      BY <1>8, <3>2
    <3> QED
      BY <1>9, <3>2, <3>3
  <2>2. i < at
    BY <1>5, <1>9, <2>1
  <2> QED
    BY <1>1, <1>5, <1>6, <2>2
<1> QED
  BY <1>2, <1>3, <1>4, <1>5, <1>7, <1>9, Bounds DEF PendingInv

(* A Runtime SSH record goes last.                                         *)
LEMMA PendingAppended ==
  ASSUME PendingInv, NEW r \in Records, r.src = "ssh",
         Count("runtime_ssh", pending) < 3 * MaxBatch, pending' = Append(pending, r)
  PROVE  PendingInv'
<1>1. Inserted(pending, pending', Len(pending) + 1, r)
  BY AppendShape DEF PendingInv
<1>2. Origin(r) = "runtime_ssh"
  BY Origins2
<1>3. Count("runtime_ssh", pending') = Count("runtime_ssh", pending) + 1
  <2>1. Count("runtime_ssh", pending') = Count("runtime_ssh", pending) + IF Origin(r) = "runtime_ssh" THEN 1 ELSE 0
    BY <1>1, CountInserted DEF PendingInv
  <2> QED
    BY <1>2, <2>1
<1>4. Count("customer", pending') = Count("customer", pending)
  <2>1. Count("customer", pending') = Count("customer", pending) + IF Origin(r) = "customer" THEN 1 ELSE 0
    BY <1>1, CountInserted DEF PendingInv
  <2>2. Count("customer", pending) \in Nat
    BY CountAt DEF PendingInv
  <2> QED
    BY <1>2, <2>1, <2>2
<1>5. Count("runtime_ssh", pending) \in Nat
  BY CountAt DEF PendingInv
<1>6. /\ Len(pending) \in Nat /\ Len(pending') = Len(pending) + 1 /\ pending' \in Seq(Records)
      /\ pending'[Len(pending) + 1] = r
      /\ \A i \in 1..Len(pending) : pending'[i] = pending[i]
  BY <1>1 DEF Inserted, PendingInv
<1>7. \A i \in 1..Len(pending') : Pendable(pending'[i])
  BY <1>6 DEF PendingInv, Pendable
<1>8. \A i, j \in 1..Len(pending') :
        i < j /\ Origin(pending'[j]) = "customer" => Origin(pending'[i]) = "customer"
  BY <1>2, <1>6 DEF PendingInv
<1>9. Count("runtime_ssh", pending') <= 3 * MaxBatch
  <2>1. 3 * MaxBatch \in Nat
    BY Bounds
  <2> HIDE DEF Count
  <2> QED
    BY <1>3, <1>5, <2>1
<1>10. Count("customer", pending') <= MaxBatch
  BY <1>4 DEF PendingInv
<1> QED
  BY <1>6, <1>7, <1>8, <1>9, <1>10 DEF PendingInv

(* The front leaves.                                                       *)
LEMMA PendingShifted ==
  ASSUME PendingInv, NEW k, Shifted(pending, pending', k)
  PROVE  PendingInv'
<1>1. /\ Count("customer", pending') <= Count("customer", pending)
      /\ Count("runtime_ssh", pending') <= Count("runtime_ssh", pending)
  BY CountShifted DEF PendingInv
<1>2. pending' \in Seq(Records)
  BY DEF Shifted
<1>3. /\ Count("customer", pending) \in Nat /\ Count("runtime_ssh", pending) \in Nat
      /\ Count("customer", pending') \in Nat /\ Count("runtime_ssh", pending') \in Nat
  BY <1>2, CountAt DEF PendingInv
<1>4. /\ Len(pending) \in Nat /\ k \in 0..Len(pending) /\ Len(pending') = Len(pending) - k
      /\ \A i \in 1..Len(pending') : i + k \in 1..Len(pending) /\ pending'[i] = pending[i + k]
  BY DEF Shifted, PendingInv
<1>5. \A i \in 1..Len(pending') : Pendable(pending'[i])
  BY <1>4 DEF PendingInv
<1>6. ASSUME NEW i \in 1..Len(pending'), NEW j \in 1..Len(pending'), i < j, Origin(pending'[j]) = "customer"
      PROVE  Origin(pending'[i]) = "customer"
  <2>1. i + k \in 1..Len(pending) /\ j + k \in 1..Len(pending) /\ i + k < j + k
    BY <1>4, <1>6
  <2> QED
    BY <1>4, <1>6, <2>1 DEF PendingInv
<1> QED
  BY <1>1, <1>2, <1>3, <1>5, <1>6, Bounds DEF PendingInv

(* The list of pending records.                                            *)
LEMMA PendingNext ==
  ASSUME CaptureInv, EmissionInv, DropInv, ControlInv, PendingInv, BatchInv, Next
  PROVE  PendingInv'
<1>1. CASE UNCHANGED pending
  BY <1>1 DEF PendingInv, Count
<1>2. CASE AddsChunk
  <2>1. Head(customer) \in Records
    BY <1>2 DEF AddsChunk, CaptureInv
  <2> QED
    BY <1>2, <2>1, PendingInserted, Origins2 DEF AddsChunk, Pendable
<1>3. CASE AddsEvidence
  <2>1. PICK r \in Records : r.src = "customer" /\ r.evidence /\ pending' = InsertCustomer(r)
    BY <1>3 DEF AddsEvidence
  <2>2. Origin(r) = "customer" /\ Pendable(r)
    BY <2>1, Origins2 DEF Pendable
  <2> QED
    BY <1>3, <2>1, <2>2, PendingInserted DEF AddsEvidence
<1>4. CASE AddsSsh
  BY <1>4, PendingAppended DEF AddsSsh
<1>5. CASE Ships
  BY <1>5, ShipShape, PendingShifted
<1> QED
  BY <1>1, <1>2, <1>3, <1>4, <1>5, ShipKinds DEF KeepsBatch, Builds

(* An inserted customer record leaves a customer batch at the front, and   *)
(* moves a provider batch by one.                                          *)
LEMMA InsertKeeps ==
  ASSUME PendingInv, NEW r \in Records, pending' = InsertCustomer(r), UNCHANGED batch,
         batch.records \in Seq(Records), Len(batch.records) >= 1, Carries(0),
         \A i \in 1..Len(batch.records) : Origin(batch.records[i]) = Origin(batch.records[1])
  PROVE  /\ Origin(batch.records[1]) = "customer" => Carries(0)'
         /\ Origin(batch.records[1]) = "runtime_ssh" => Carries(1)' /\ pending'[1] = r
<1>1. PICK at : /\ Inserted(pending, pending', at, r)
                /\ \A i \in 1..Len(pending) : i < at => Origin(pending[i]) = "customer"
                /\ at \in 1..Len(pending) => Origin(pending[at]) = "runtime_ssh"
  BY InsertShape DEF PendingInv
<1>2. /\ Len(pending) \in Nat /\ at \in 1..(Len(pending) + 1) /\ Len(pending') = Len(pending) + 1
      /\ pending'[at] = r
      /\ \A i \in 1..Len(pending) : /\ i < at => pending'[i] = pending[i]
                                    /\ i >= at => pending'[i + 1] = pending[i]
  BY <1>1 DEF Inserted, PendingInv
<1> DEFINE n == Len(batch.records)
<1>3. /\ n \in Nat /\ n >= 1 /\ n <= Len(pending)
      /\ \A i \in 1..n : i \in 1..Len(pending) /\ pending[i] = batch.records[i]
                         /\ Origin(pending[i]) = Origin(batch.records[1])
  BY <1>2 DEF Carries
<1>4. ASSUME Origin(batch.records[1]) = "customer" PROVE Carries(0)'
  <2>1. at > n
    <3>1. SUFFICES ASSUME at <= n PROVE FALSE
      BY <1>2, <1>3
    <3>2. at \in 1..n
      BY <1>2, <1>3, <3>1
    <3>3. Origin(pending[at]) = "customer" /\ Origin(pending[at]) = "runtime_ssh"
      BY <1>1, <1>3, <1>4, <3>2
    <3> QED
      BY <3>3
  <2>2. \A i \in 1..n : pending'[i] = batch.records[i]
    BY <1>2, <1>3, <2>1
  <2>3. n + 0 <= Len(pending') /\ \A i \in 1..n : i + 0 = i
    BY <1>2, <1>3
  <2>4. batch.records' = batch.records
    OBVIOUS
  <2> QED
    BY <2>2, <2>3, <2>4 DEF Carries
<1>5. ASSUME Origin(batch.records[1]) = "runtime_ssh" PROVE Carries(1)' /\ pending'[1] = r
  <2>1. at = 1
    <3>1. Origin(pending[1]) = "runtime_ssh" /\ 1 \in 1..Len(pending)
      BY <1>3, <1>5
    <3>2. ~(1 < at)
      BY <1>1, <3>1
    <3> QED
      BY <1>2, <3>2
  <2>2. \A i \in 1..n : pending'[i + 1] = batch.records[i]
    BY <1>2, <1>3, <2>1
  <2>3. n + 1 <= Len(pending')
    BY <1>2, <1>3
  <2>4. batch.records' = batch.records
    OBVIOUS
  <2> QED
    BY <1>2, <2>1, <2>2, <2>3, <2>4 DEF Carries
<1> QED
  BY <1>4, <1>5

(* The retained batch.                                                     *)
LEMMA BatchNext ==
  ASSUME CaptureInv, EmissionInv, DropInv, ControlInv, PendingInv, BatchInv,
         sink \in Seq(Records), sink' \in Seq(Records), Next
  PROVE  BatchInv'
<1>0. NoBatch \in [start : Nat, records : Seq(Records)] /\ Len(NoBatch.records) = 0 /\ NoBatch.start = 0
  BY DEF NoBatch
<1>1. CASE KeepsBatch
  <2>1. \A k : Carries(k)' = Carries(k)
    BY <1>1 DEF KeepsBatch, Carries
  <2> QED
    BY <1>1, <2>1 DEF KeepsBatch, BatchInv
<1>2. ASSUME batch' = NoBatch, pc' \notin {"post", "resume"}, next' \in Nat
      PROVE  BatchInv'
  BY <1>0, <1>2, Bounds DEF BatchInv
<1>3. ASSUME batch # NoBatch, UNCHANGED batch, pc' \notin {"post", "resume"}, UNCHANGED next,
             Carries(0)' \/ (/\ Carries(1)' /\ LateStage' /\ Origin(batch.records[1]) = "runtime_ssh"
                             /\ pending'[1].evidence /\ Origin(pending'[1]) = "customer")
      PROVE  BatchInv'
  BY <1>3 DEF BatchInv
<1>4. ASSUME batch = NoBatch, UNCHANGED batch, pc' \notin {"post", "resume"}, UNCHANGED next
      PROVE  BatchInv'
  BY <1>2, <1>4 DEF BatchInv
<1>5. batch # NoBatch => /\ batch.records \in Seq(Records) /\ Len(batch.records) >= 1
                         /\ \A i \in 1..Len(batch.records) : Origin(batch.records[i]) = Origin(batch.records[1])
                         /\ Head(batch.records) = batch.records[1]
                         /\ Origin(batch.records[1]) \in {"customer", "runtime_ssh"}
  BY Origins2 DEF BatchInv
<1>6. CASE AddsChunk
  <2>1. Head(customer) \in Records
    BY <1>6 DEF AddsChunk, CaptureInv
  <2>2. CASE batch' = NoBatch
    BY <1>2, <1>6, <2>2 DEF AddsChunk, BatchInv
  <2>3. CASE batch' # NoBatch
    <3>1. UNCHANGED batch /\ batch # NoBatch /\ Origin(batch.records[1]) = "customer"
      BY <1>5, <1>6, <2>3 DEF AddsChunk, RebuildLater
    <3>2. Carries(0)
      BY <3>1 DEF BatchInv
    <3>3. Carries(0)'
      BY <1>5, <1>6, <2>1, <3>1, <3>2, InsertKeeps DEF AddsChunk
    <3> QED
      BY <1>3, <1>6, <3>1, <3>3 DEF AddsChunk
  <2> QED
    BY <2>2, <2>3
<1>7. CASE AddsEvidence
  <2>1. PICK r \in Records : r.src = "customer" /\ r.evidence /\ pending' = InsertCustomer(r)
    BY <1>7 DEF AddsEvidence
  <2>2. UNCHANGED <<batch, next>> /\ pc' \notin {"post", "resume"} /\ LateStage' /\ ~LateStage
    BY <1>7 DEF AddsEvidence, LateStage
  <2>3. CASE batch # NoBatch
    <3>1. Carries(0)
      BY <2>2, <2>3 DEF BatchInv
    <3>2. /\ Origin(batch.records[1]) = "customer" => Carries(0)'
          /\ Origin(batch.records[1]) = "runtime_ssh" => Carries(1)' /\ pending'[1] = r
      BY <1>5, <2>1, <2>2, <2>3, <3>1, InsertKeeps
    <3>3. Origin(r) = "customer"
      BY <2>1, Origins2
    <3> QED
      BY <1>3, <1>5, <2>1, <2>2, <2>3, <3>2, <3>3
  <2> QED
    BY <1>4, <2>2, <2>3
<1>8. CASE AddsSsh
  <2>1. PICK r \in Records : pending' = Append(pending, r)
    BY <1>8 DEF AddsSsh
  <2>2. UNCHANGED <<batch, next>> /\ pc' \notin {"post", "resume"} /\ (LateStage => LateStage')
    BY <1>8 DEF AddsSsh
  <2>3. /\ Len(pending) \in Nat /\ Len(pending') = Len(pending) + 1
        /\ \A i \in 1..Len(pending) : pending'[i] = pending[i]
    BY <2>1 DEF PendingInv
  <2>4. CASE batch # NoBatch
    <3>1. Len(batch.records) \in Nat /\ Len(batch.records) >= 1
      BY <1>5, <2>4
    <3>2. ASSUME NEW k \in Nat, Carries(k) PROVE Carries(k)'
      <4>1. \A i \in 1..Len(batch.records) : i + k \in 1..Len(pending)
        BY <2>3, <3>1, <3>2 DEF Carries
      <4>2. \A i \in 1..Len(batch.records) : pending'[i + k] = batch.records[i]
        BY <2>3, <3>2, <4>1 DEF Carries
      <4>3. Len(batch.records) + k <= Len(pending')
        BY <2>3, <3>1, <3>2 DEF Carries
      <4> QED
        BY <2>2, <4>2, <4>3 DEF Carries
    <3>3. Carries(1) => pending'[1] = pending[1]
      BY <2>3, <3>1 DEF Carries
    <3>4. Carries(0) => Carries(0)'
      BY <3>2
    <3>5. Carries(1) => Carries(1)'
      BY <3>2
    <3> QED
      BY <1>3, <2>2, <2>4, <3>3, <3>4, <3>5 DEF BatchInv
  <2> QED
    BY <1>4, <2>2, <2>4
<1>9. CASE Ships
  <2>1. next' \in Nat
    BY <1>9 DEF Ships
  <2> QED
    BY <1>2, <1>9, <2>1 DEF Ships
<1>10. CASE Builds
  <2>1. pending # <<>>
    <3>1. CASE pc = "post"
      <4>1. batch # NoBatch /\ (Carries(0) \/ Carries(1))
        BY <3>1 DEF BatchInv
      <4>2. Len(pending) >= 1
        BY <1>5, <4>1 DEF Carries, PendingInv
      <4> QED
        BY <4>2
    <3> QED
      BY <1>10, <3>1 DEF Builds
  <2>2. next' \in Nat /\ next' # 0
    <3>1. Len(sink) + 1 \in Nat /\ next \in Nat
      BY DEF BatchInv
    <3> QED
      BY <1>10, <3>1 DEF Builds
  <2> DEFINE b == Build(next')
  <2>3. /\ b \in [start : Nat, records : Seq(Records)] /\ b.start = next'
        /\ Len(b.records) \in 1..MaxBatch /\ Len(b.records) <= Len(pending)
        /\ \A i \in 1..Len(b.records) : b.records[i] = pending[i] /\ Origin(b.records[i]) = Origin(pending[1])
    BY <2>1, <2>2, BuildShape DEF PendingInv
  <2> HIDE DEF b
  <2>4. batch' = b /\ UNCHANGED pending /\ Len(pending) \in Nat
    BY <1>10 DEF Builds, b, PendingInv
  <2>5. Len(b.records) \in Nat /\ Len(b.records) >= 1 /\ Len(b.records) <= MaxBatch
    BY <2>3, Bounds
  <2>6. b # NoBatch
    BY <1>0, <2>5
  <2>7. Carries(0)'
    BY <2>3, <2>4, <2>5 DEF Carries
  <2>8. \A i \in 1..Len(b.records) : Origin(b.records[i]) = Origin(b.records[1])
    BY <2>3, <2>5
  <2>9. b.start >= 1
    BY <2>2, <2>3
  <2> QED
    BY <2>2, <2>3, <2>4, <2>5, <2>6, <2>7, <2>8, <2>9 DEF BatchInv
<1> QED
  BY <1>1, <1>6, <1>7, <1>8, <1>9, <1>10, ShipKinds
-----------------------------------------------------------------------------
(* The sink. *)

(* A batch whose answer held no chain is in the sink.                      *)
ResumeInv ==
  pc = "resume" => \A i \in 1..Len(batch.records) : \E k \in 1..Len(sink) : sink[k] = batch.records[i]

(* The steps by what they do to the sink.                                  *)
Stores ==
  /\ pc = "post" /\ sink' = sink \o batch.records /\ UNCHANGED local
  /\ \/ Ships /\ UNCHANGED lost
     \/ /\ UNCHANGED <<pending, batch>>
        /\ (lost' = TRUE /\ pc' # "resume") \/ (pc' = "resume" /\ UNCHANGED lost)

Replays ==
  /\ Ships /\ UNCHANGED <<sink, lost>> /\ UNCHANGED local
  /\ pc = "resume" \/ AlreadyStored

Foreigns ==
  /\ sink' = Append(sink, Line("foreign", 0))
  /\ UNCHANGED local /\ UNCHANGED <<pc, pending, batch, lost>>

Quiet ==
  /\ UNCHANGED sink /\ ~Ships
  /\ pc' = "resume" => pc = "resume" /\ UNCHANGED <<pending, batch>>
  /\ lost' = TRUE \/ (UNCHANGED lost /\ (pc = "resume" => pc' = "resume"))

(* One of them is every step.                                              *)
LEMMA SinkKinds ==
  ASSUME BatchInv, ControlInv, Next
  PROVE  Stores \/ Replays \/ Foreigns \/ Quiet
<1>1. ASSUME UNCHANGED <<shipping, remote, pc>>
      PROVE  Quiet
  BY <1>1 DEF Quiet, Ships, shipping, remote
<1>2. CASE \/ (\E s \in Streams : ReadChunk(s) \/ \E admitted \in BOOLEAN : EnqueueChunk(s, admitted))
           \/ ReadersEnd \/ (\E record \in emitting : SendRecord(record)) \/ Finish \/ FinishReturns
  BY <1>1, <1>2 DEF ReadChunk, EnqueueChunk, ReadersEnd, SendRecord, Finish, FinishReturns
<1>3. CASE EmitCritical \/ \E admitted \in BOOLEAN : EmitRaw(admitted)
  BY <1>1, <1>3, EmitKinds
<1>4. ASSUME UNCHANGED remote, pc \notin {"post", "resume"}, pc' # "resume"
      PROVE  Quiet
  BY <1>4 DEF Quiet, Ships, remote
<1>5. CASE TakeChunk \/ TakeFinish \/ NoChunk \/ Disconnected \/ TakeRuntime \/ NoRuntime \/ DrainCustomer
           \/ DrainRuntime \/ DrainNext
  BY <1>4, <1>5 DEF TakeChunk, TakeFinish, NoChunk, Disconnected, TakeRuntime, NoRuntime, DrainCustomer,
       DrainRuntime, DrainNext, Drain
<1>6. CASE DrainEvidence \/ FinalEvidence \/ FinalFlush \/ Acknowledge
  <2>1. DrainEvidence => pc' \in {"flush", "final_evidence", "ended"}
    BY DEF DrainEvidence, ControlInv
  <2> QED
    BY <1>4, <1>6, <2>1 DEF DrainEvidence, FinalEvidence, FinalFlush, Acknowledge
<1>7. CASE FlushIdle \/ FlushStart \/ ResolveFails
  <2>1. FlushIdle \/ ResolveFails => pc' \in {"final", "poll", "ended"}
    BY Zenon DEF FlushIdle, ResolveFails, FlushOk, FlushErr
  <2> QED
    BY <1>4, <1>7, <2>1 DEF FlushIdle, FlushStart, ResolveFails
<1>8. FlushErr => pc' \in {"ended", "poll"}
  BY Zenon DEF FlushErr
<1>9. pc \in {"post", "resume"} => batch # NoBatch
  BY DEF BatchInv
<1>10. CASE PostFails
  BY <1>8, <1>9, <1>10 DEF PostFails, kept, remote, Quiet, Ships
<1>11. CASE ResumeFails
  BY <1>8, <1>9, <1>11 DEF ResumeFails, kept, Quiet, Ships
<1>12. CASE PostConflict
  BY <1>8, <1>9, <1>12 DEF PostConflict, remote, Quiet, Ships
<1>13. CASE PostUnanswered
  BY <1>8, <1>13 DEF PostUnanswered, kept, Stores
<1>14. ASSUME pc \in {"post", "resume"}, Accepted(Len(sink') + 1)
       PROVE  Ships /\ UNCHANGED local
  BY <1>14 DEF Accepted, FlushOk, Ships
<1>15. CASE PostAccepted
  <2>1. CASE Accepted(Len(sink') + 1)
    BY <1>14, <1>15, <2>1 DEF PostAccepted, Stores
  <2>2. CASE pc' = "resume" /\ UNCHANGED <<local, shipping, acknowledged>>
    BY <1>15, <2>2 DEF PostAccepted, Stores, shipping
  <2> QED
    BY <1>15, <2>1, <2>2 DEF PostAccepted
<1>16. CASE PostReplayed \/ Resume
  BY <1>14, <1>16 DEF PostReplayed, Resume, Replays, remote
<1>17. CASE ForeignWrite
  BY <1>17 DEF ForeignWrite, Foreigns, shipping
<1> QED
  BY <1>2, <1>3, <1>5, <1>6, <1>7, <1>10, <1>11, <1>12, <1>13, <1>15, <1>16, <1>17 DEF Next, Producers, Worker

(* The sink only grows; what a batch held is stored when it leaves.        *)
LEMMA SinkNext ==
  ASSUME SinkInv, ControlInv, PendingInv, BatchInv, ResumeInv, Next
  PROVE  /\ SinkInv' /\ ResumeInv' /\ Len(sink') >= Len(sink) /\ \A i \in 1..Len(sink) : sink'[i] = sink[i]
         /\ Ships => \A i \in 1..Len(batch.records) : \E k \in 1..Len(sink') : sink'[k] = batch.records[i]
<1> DEFINE n == Len(sink)
           m == Len(batch.records)
<1>0. /\ sink \in Seq(Records) /\ n \in Nat /\ batch.records \in Seq(Records) /\ m \in Nat
  BY DEF SinkInv, BatchInv
<1>1. \A i \in 1..m : batch.records[i].src \in Streams => IsChunk(batch.records[i])
  <2>1. ASSUME NEW i \in 1..m PROVE \E j \in 1..Len(pending) : batch.records[i] = pending[j]
    <3>1. batch # NoBatch
      BY <1>0, <2>1 DEF NoBatch
    <3>2. Carries(0) \/ Carries(1)
      BY <3>1 DEF BatchInv
    <3>3. Len(pending) \in Nat
      BY DEF PendingInv
    <3>4. CASE Carries(0)
      <4>1. i + 0 \in 1..Len(pending) /\ pending[i + 0] = batch.records[i]
        BY <1>0, <2>1, <3>3, <3>4 DEF Carries
      <4> QED
        BY <4>1
    <3>5. CASE Carries(1)
      <4>1. i + 1 \in 1..Len(pending) /\ pending[i + 1] = batch.records[i]
        BY <1>0, <2>1, <3>3, <3>5 DEF Carries
      <4> QED
        BY <4>1
    <3> QED
      BY <3>2, <3>4, <3>5
  <2>2. \A j \in 1..Len(pending) : pending[j].src \in Streams => IsChunk(pending[j])
    BY Bounds DEF PendingInv, Pendable
  <2> QED
    BY <2>1, <2>2
<1>2. CASE Stores
  <2>1. /\ sink' \in Seq(Records) /\ Len(sink') = n + m
        /\ \A i \in 1..n : sink'[i] = sink[i]
        /\ \A i \in 1..m : sink'[n + i] = batch.records[i]
    BY <1>0, <1>2, JoinShape, Zenon DEF Stores
  <2>2. \A i \in 1..m : n + i \in 1..Len(sink')
    BY <1>0, <2>1
  <2>3. \A i \in 1..m : \E k \in 1..Len(sink') : sink'[k] = batch.records[i]
    BY <2>1, <2>2, Zenon
  <2>4. \A i \in 1..Len(sink') : sink'[i].src \in Streams => IsChunk(sink'[i])
    <3>1. ASSUME NEW i \in 1..Len(sink'), i > n
          PROVE  i - n \in 1..m /\ sink'[i] = batch.records[i - n]
      <4>1. i - n \in 1..m /\ n + (i - n) = i
        BY <1>0, <2>1, <3>1
      <4> QED
        BY <2>1, <4>1
    <3>2. \A i \in 1..Len(sink') : i \in 1..n \/ i > n
      BY <1>0, <2>1
    <3> QED
      BY <1>1, <2>1, <3>1, <3>2 DEF SinkInv
  <2>5. pc' = "resume" => UNCHANGED batch
    BY <1>2 DEF Stores, Ships
  <2>6. SinkInv'
    BY <2>1, <2>4 DEF SinkInv
  <2>7. ResumeInv'
    BY <2>3, <2>5 DEF ResumeInv
  <2>8. Len(sink') >= Len(sink)
    BY <1>0, <2>1
  <2> QED
    BY <2>1, <2>3, <2>6, <2>7, <2>8
<1>3. CASE Foreigns
  <2> DEFINE r == Line("foreign", 0)
  <2>1. r \in Records /\ r.src = "foreign"
    BY LineTyped
  <2> HIDE DEF r
  <2>2. sink' = Append(sink, r) /\ UNCHANGED <<pc, batch>> /\ ~Ships
    BY <1>3 DEF Foreigns, r, Ships
  <2>3. /\ sink' \in Seq(Records) /\ Len(sink') = n + 1 /\ sink'[n + 1] = r
        /\ \A i \in 1..n : sink'[i] = sink[i]
    BY <1>0, <2>1, <2>2
  <2>4. \A i \in 1..Len(sink') : i \in 1..n \/ i = n + 1
    BY <1>0, <2>3
  <2>5. SinkInv'
    BY <2>1, <2>3, <2>4, Bounds DEF SinkInv
  <2>6. 1..n \subseteq 1..Len(sink')
    BY <1>0, <2>3
  <2>7. ResumeInv'
    BY <2>2, <2>3, <2>6 DEF ResumeInv
  <2> QED
    BY <1>0, <2>2, <2>3, <2>5, <2>7
<1>4. CASE Quiet
  BY <1>0, <1>4 DEF Quiet, SinkInv, ResumeInv
<1>5. CASE Replays
  <2>1. UNCHANGED sink /\ pc' # "resume"
    BY <1>5 DEF Replays, Ships
  <2>2. CASE pc = "resume"
    BY <1>0, <2>1, <2>2 DEF SinkInv, ResumeInv
  <2>3. CASE AlreadyStored
    <3>1. batch # NoBatch /\ batch.start \in Nat /\ batch.start >= 1
      BY <1>5 DEF Replays, Ships, BatchInv
    <3> DEFINE a == batch.start
               b == BatchEnd
    <3>2. b = a + m - 1 /\ b <= n /\ SubSeq(sink, a, b) = batch.records
      BY <2>3 DEF AlreadyStored, BatchEnd
    <3> HIDE DEF a, b
    <3>3. a \in Nat /\ a >= 1
      BY <3>1 DEF a
    <3>4. \A i \in 1..m : a + i - 1 \in 1..n /\ i \in 1..(b - a + 1)
      BY <1>0, <3>2, <3>3
    <3>5. \A i \in 1..(b - a + 1) : SubSeq(sink, a, b)[i] = sink[a + i - 1]
      BY <1>0, <3>2, <3>3
    <3>6. \A i \in 1..m : sink[a + i - 1] = batch.records[i]
      BY <3>2, <3>4, <3>5
    <3> QED
      BY <1>0, <2>1, <3>4, <3>6 DEF SinkInv, ResumeInv
  <2> QED
    BY <1>5, <2>2, <2>3 DEF Replays
<1> QED
  BY <1>2, <1>3, <1>4, <1>5, SinkKinds
-----------------------------------------------------------------------------
(* Nothing leaves unsent. *)

Has(s, src, id) == \E i \in 1..Len(s) : s[i].src \in src /\ ~s[i].evidence /\ s[i].ids = {id}

(* A step keeps a pending record pending, or it is in the sink after it.   *)
LEMMA PendingKept ==
  ASSUME CaptureInv, EmissionInv, DropInv, ControlInv, PendingInv, BatchInv, SinkInv, ResumeInv, Next,
         NEW src, NEW id, Has(pending, src, id)
  PROVE  Has(pending, src, id)' \/ Has(sink, src, id)'
<1>1. PICK i \in 1..Len(pending) : pending[i].src \in src /\ ~pending[i].evidence /\ pending[i].ids = {id}
  BY DEF Has
<1>2. Len(pending) \in Nat /\ pending \in Seq(Records)
  BY DEF PendingInv
<1>3. CASE UNCHANGED pending
  BY <1>1, <1>3 DEF Has
<1>4. ASSUME NEW r \in Records, NEW at, Inserted(pending, pending', at, r)
      PROVE  Has(pending, src, id)'
  <2>1. /\ at \in 1..(Len(pending) + 1) /\ Len(pending') = Len(pending) + 1
        /\ (i < at => pending'[i] = pending[i]) /\ (i >= at => pending'[i + 1] = pending[i])
    BY <1>4 DEF Inserted
  <2>2. i \in 1..Len(pending') /\ i + 1 \in 1..Len(pending')
    BY <1>2, <2>1
  <2>3. i < at \/ i >= at
    BY <2>1
  <2> QED
    BY <1>1, <2>1, <2>2, <2>3 DEF Has
<1>5. CASE AddsChunk
  <2>1. Head(customer) \in Records /\ pending' = InsertCustomer(Head(customer))
    BY <1>5 DEF AddsChunk, CaptureInv
  <2> QED
    BY <1>2, <1>4, <2>1, InsertShape
<1>6. CASE AddsEvidence
  BY <1>2, <1>4, <1>6, InsertShape DEF AddsEvidence
<1>7. CASE AddsSsh
  BY <1>2, <1>4, <1>7, AppendShape DEF AddsSsh
<1>8. CASE Ships
  <2> DEFINE m == Len(batch.records)
  <2>1. /\ m \in Nat /\ m <= Len(pending) /\ Len(pending') = Len(pending) - m
        /\ \A j \in 1..Len(pending') : pending'[j] = pending[j + m]
    <3>1. Shifted(pending, pending', m)
      BY <1>8, ShipShape
    <3> HIDE DEF m
    <3> QED
      BY <3>1 DEF Shifted
  <2>2. \A j \in 1..m : \E k \in 1..Len(sink') : sink'[k] = batch.records[j]
    BY <1>8, SinkNext
  <2>3. CASE i > m
    <3>1. i - m \in 1..Len(pending') /\ (i - m) + m = i
      BY <1>2, <2>1, <2>3
    <3>2. pending'[i - m] = pending[i]
      BY <2>1, <3>1
    <3> QED
      BY <1>1, <3>1, <3>2 DEF Has
  <2>4. ASSUME NEW j \in 1..m, pending[i] = batch.records[j]
        PROVE  Has(sink, src, id)'
    BY <1>1, <2>2, <2>4 DEF Has
  <2>5. CASE i <= m
    <3>1. batch # NoBatch
      BY <1>8 DEF BatchInv, Ships
    <3>2. CASE Carries(0)
      <4>1. i \in 1..m /\ i + 0 = i
        BY <2>1, <2>5
      <4>2. pending[i] = batch.records[i]
        BY <3>2, <4>1 DEF Carries
      <4> QED
        BY <2>4, <4>1, <4>2
    <3>3. CASE Carries(1) /\ pending[1].evidence
      <4>1. i # 1
        BY <1>1, <3>3
      <4>2. i - 1 \in 1..m /\ (i - 1) + 1 = i
        BY <2>1, <2>5, <4>1
      <4>3. pending[i] = batch.records[i - 1]
        BY <3>3, <4>2 DEF Carries
      <4> QED
        BY <2>4, <4>2, <4>3
    <3> QED
      BY <3>1, <3>2, <3>3 DEF BatchInv
  <2> QED
    BY <2>1, <2>3, <2>5
<1> QED
  BY <1>3, <1>5, <1>6, <1>7, <1>8, ShipKinds DEF KeepsBatch, Builds

(* What is stored stays stored.                                            *)
LEMMA SinkKept ==
  ASSUME ControlInv, PendingInv, BatchInv, SinkInv, ResumeInv, Next, NEW src, NEW id, Has(sink, src, id)
  PROVE  Has(sink, src, id)'
<1>1. /\ sink \in Seq(Records) /\ sink' \in Seq(Records) /\ Len(sink') >= Len(sink)
      /\ \A i \in 1..Len(sink) : sink'[i] = sink[i]
  BY SinkNext DEF SinkInv
<1>2. \A i \in 1..Len(sink) : i \in 1..Len(sink')
  BY <1>1
<1> QED
  BY <1>1, <1>2 DEF Has

(* A chunk a reader holds goes to the queue or is counted.                 *)
LEMMA ReadingMoves ==
  ASSUME CaptureInv, DropInv, Next, NEW s \in Streams, NEW id \in Nat, id # 0, reading[s] = id
  PROVE  reading'[s] = id \/ Has(customer, Streams, id)' \/ id \in counted'["customer"]
<1>0. CASE UNCHANGED reading
  BY <1>0
<1>1. ASSUME NEW t \in Streams, ReadChunk(t) PROVE reading'[s] = reading[s]
  BY <1>1 DEF ReadChunk, CaptureInv
<1>2. ASSUME NEW t \in Streams, NEW admitted, EnqueueChunk(t, admitted), t # s PROVE reading'[s] = reading[s]
  BY <1>2 DEF EnqueueChunk, CaptureInv
<1>3. ASSUME NEW admitted, EnqueueChunk(s, admitted)
      PROVE  Has(customer, Streams, id)' \/ id \in counted'["customer"]
  <2>1. CASE customer' = Append(customer, Line(s, id))
    <3>0. s \in Streams \cup {"customer", "ssh", "foreign", "finish"}
      OBVIOUS
    <3>1. Line(s, id) \in Records /\ Line(s, id).src = s /\ Line(s, id).ids = {id} /\ Line(s, id).evidence = FALSE
      BY <3>0, LineTyped
    <3> DEFINE x == Line(s, id)
    <3> HIDE DEF x
    <3>2. x \in Records /\ x.src = s /\ x.ids = {id} /\ ~x.evidence /\ customer' = Append(customer, x)
      BY <2>1, <3>1 DEF x
    <3>3. Len(customer') \in Nat /\ Len(customer') >= 1 /\ customer'[Len(customer')] = x
      BY <3>2 DEF CaptureInv
    <3>4. Len(customer') \in 1..Len(customer')
      BY <3>3
    <3> QED
      BY <3>2, <3>3, <3>4 DEF Has
  <2>2. CASE Record("customer", id)
    BY <2>2, RecordCounts DEF Origins
  <2> QED
    BY <1>3, <2>1, <2>2 DEF EnqueueChunk
<1>4. CASE \/ ReadersEnd \/ (\E record \in emitting : SendRecord(record))
           \/ TakeChunk \/ TakeFinish \/ NoChunk \/ Disconnected \/ TakeRuntime \/ NoRuntime
           \/ DrainCustomer \/ DrainRuntime \/ DrainNext \/ DrainEvidence \/ FinalEvidence \/ FinalFlush
           \/ Acknowledge \/ Finish \/ FinishReturns
  BY <1>0, <1>4 DEF ReadersEnd, SendRecord, TakeChunk, TakeFinish, NoChunk, Disconnected, TakeRuntime, NoRuntime,
       DrainCustomer, DrainRuntime, DrainNext, DrainEvidence, FinalEvidence, FinalFlush, Acknowledge, Finish,
       FinishReturns, capture
<1>5. CASE EmitCritical \/ \E admitted \in BOOLEAN : EmitRaw(admitted)
  BY <1>0, <1>5, EmitKinds DEF capture
<1>6. CASE \/ FlushIdle \/ FlushStart \/ ResolveFails \/ PostAccepted \/ PostReplayed \/ PostUnanswered
           \/ PostFails \/ PostConflict \/ Resume \/ ResumeFails \/ ForeignWrite
  BY <1>0, <1>6 DEF FlushIdle, FlushStart, ResolveFails, PostAccepted, PostReplayed, PostUnanswered, PostFails,
       PostConflict, Resume, ResumeFails, ForeignWrite, Accepted, local, capture
<1> QED
  BY <1>1, <1>2, <1>3, <1>4, <1>5, <1>6 DEF Next, Producers, Worker

(* A queued chunk becomes pending or is counted.                           *)
LEMMA QueueMoves ==
  ASSUME CaptureInv, DropInv, PendingInv, Next, NEW id, Has(customer, Streams, id)
  PROVE  \/ Has(customer, Streams, id)' \/ Has(pending, Streams, id)'
         \/ id \in counted'["customer"]
<1>0. PICK i \in 1..Len(customer) :
        customer[i].src \in Streams /\ ~customer[i].evidence /\ customer[i].ids = {id}
  BY DEF Has
<1>1. customer \in Seq(Records) /\ Len(customer) \in Nat
  BY DEF CaptureInv
<1>2. CASE UNCHANGED customer
  BY <1>0, <1>2 DEF Has
<1>3. ASSUME NEW x, customer' = Append(customer, x) PROVE Has(customer, Streams, id)'
  BY <1>0, <1>1, <1>3 DEF Has
<1>4. ASSUME customer # <<>>, customer' = Tail(customer), i # 1
      PROVE  Has(customer, Streams, id)'
  <2>1. i - 1 \in 1..Len(customer') /\ customer'[i - 1] = customer[i]
    BY <1>1, <1>4
  <2> QED
    BY <1>0, <2>1 DEF Has
<1>5. customer # <<>> => Head(customer) = customer[1] /\ Head(customer) \in Records
  BY <1>1
<1>6. ASSUME i = 1, customer # <<>>, AdmitChunk(Head(customer))
      PROVE  Has(pending, Streams, id)' \/ id \in counted'["customer"]
  <2> DEFINE r == Head(customer)
  <2>1. r \in Records /\ r.src \in Streams /\ ~r.evidence /\ r.ids = {id}
    BY <1>0, <1>5, <1>6
  <2> HIDE DEF r
  <2>2. CASE pending' = InsertCustomer(r)
    <3>1. PICK at : Inserted(pending, pending', at, r)
      BY <2>1, <2>2, InsertShape DEF PendingInv
    <3>2. at \in 1..Len(pending') /\ pending'[at] = r
      BY <3>1 DEF Inserted, PendingInv
    <3> QED
      BY <2>1, <3>2 DEF Has
  <2>3. CASE \E x \in r.ids : x \in counted'["customer"]
    BY <2>1, <2>3
  <2>4. AdmitChunk(r)
    BY <1>6 DEF r
  <2> QED
    BY <2>1, <2>2, <2>3, <2>4, AdmitCounts
<1>7. ASSUME customer # <<>>, Head(customer) = FinishWork PROVE i # 1
  <2>1. FinishWork.src = "finish"
    BY DEF FinishWork, Line
  <2> QED
    BY <1>0, <1>5, <1>7, <2>1, Bounds
<1>8. CASE TakeChunk
  BY <1>4, <1>6, <1>8 DEF TakeChunk
<1>9. CASE TakeFinish
  BY <1>4, <1>7, <1>9 DEF TakeFinish
<1>10. CASE DrainCustomer
  BY <1>4, <1>6, <1>7, <1>10 DEF DrainCustomer
<1>11. CASE Finish \/ \E s \in Streams : \E admitted \in BOOLEAN : EnqueueChunk(s, admitted)
  BY <1>2, <1>3, <1>11 DEF Finish, EnqueueChunk
<1>12. CASE \/ (\E s \in Streams : ReadChunk(s))
            \/ ReadersEnd \/ (\E record \in emitting : SendRecord(record))
            \/ NoChunk \/ Disconnected \/ TakeRuntime \/ NoRuntime
            \/ DrainRuntime \/ DrainNext \/ DrainEvidence \/ FinalEvidence \/ FinalFlush
            \/ Acknowledge \/ FinishReturns
  BY <1>2, <1>12 DEF ReadChunk, ReadersEnd, SendRecord, NoChunk, Disconnected, TakeRuntime, NoRuntime,
       DrainRuntime, DrainNext, DrainEvidence, FinalEvidence, FinalFlush, Acknowledge, FinishReturns, queues
<1>13. CASE EmitCritical \/ \E admitted \in BOOLEAN : EmitRaw(admitted)
  BY <1>2, <1>13, EmitKinds
<1>14. CASE \/ FlushIdle \/ FlushStart \/ ResolveFails \/ PostAccepted \/ PostReplayed \/ PostUnanswered
            \/ PostFails \/ PostConflict \/ Resume \/ ResumeFails \/ ForeignWrite
  BY <1>2, <1>14 DEF FlushIdle, FlushStart, ResolveFails, PostAccepted, PostReplayed, PostUnanswered, PostFails,
       PostConflict, Resume, ResumeFails, ForeignWrite, Accepted, local, queues
<1> QED
  BY <1>8, <1>9, <1>10, <1>11, <1>12, <1>13, <1>14 DEF Next, Producers, Worker

(* A record of Runtime SSH before pending_records.                         *)
Sending(id) == (\E r \in emitting : r.id = id) \/ (\E i \in 1..Len(runtime) : runtime[i].id = id)

(* A queued record of Runtime SSH becomes pending or is counted.           *)
LEMMA SendingMoves ==
  ASSUME EmissionInv, DropInv, PendingInv, Next, NEW id, Sending(id)
  PROVE  Sending(id)' \/ Has(pending, {"ssh"}, id)' \/ id \in counted'["runtime_ssh"]
<1>0. /\ runtime \in Seq(Emitted) /\ Len(runtime) \in Nat
      /\ \A r \in emitting : r.id \in Nat
      /\ \A i \in 1..Len(runtime) : runtime[i] \in Emitted /\ runtime[i].id \in Nat
  <2>1. runtime \in Seq(Emitted) /\ emitting \subseteq Emitted
    BY DEF EmissionInv
  <2>2. \A r \in Emitted : r.id \in Nat
    BY DEF Emitted
  <2>3. Len(runtime) \in Nat /\ \A i \in 1..Len(runtime) : runtime[i] \in Emitted
    BY <2>1
  <2> QED
    BY <2>1, <2>2, <2>3
<1>1. CASE UNCHANGED <<emitting, runtime>>
  BY <1>1 DEF Sending
<1>2. ASSUME NEW record, Emits(record), UNCHANGED runtime PROVE Sending(id)'
  <2>1. emitting \subseteq emitting'
    BY <1>2 DEF Emits
  <2> QED
    BY <1>2, <2>1 DEF Sending
<1>3. CASE EmitCritical \/ \E admitted \in BOOLEAN : EmitRaw(admitted)
  BY <1>2, <1>3, EmitKinds
<1>4. ASSUME NEW record \in emitting, SendRecord(record)
      PROVE  Sending(id)' \/ id \in counted'["runtime_ssh"]
  <2>1. emitting' = emitting \ {record}
    BY <1>4 DEF SendRecord
  <2>2. CASE runtime' = Append(runtime, record)
    <3>1. /\ Len(runtime') = Len(runtime) + 1 /\ runtime'[Len(runtime) + 1] = record
          /\ \A i \in 1..Len(runtime) : runtime'[i] = runtime[i]
      BY <1>0, <2>2
    <3>2. Len(runtime) + 1 \in 1..Len(runtime') /\ \A i \in 1..Len(runtime) : i \in 1..Len(runtime')
      BY <1>0, <3>1
    <3> QED
      BY <2>1, <3>1, <3>2 DEF Sending
  <2>3. CASE UNCHANGED runtime /\ Record("runtime_ssh", record.id)
    <3>1. record.id \in counted'["runtime_ssh"]
      BY <1>0, <2>3, RecordCounts DEF Origins
    <3> QED
      BY <2>1, <2>3, <3>1 DEF Sending
  <2> QED
    BY <1>4, <2>2, <2>3 DEF SendRecord
<1>5. CASE TakeRuntime \/ DrainRuntime
  <2>1. AdmitRuntimeSsh /\ UNCHANGED emitting
    BY <1>5 DEF TakeRuntime, DrainRuntime, emission
  <2>2. runtime # <<>> /\ runtime' = Tail(runtime)
    BY <2>1 DEF AdmitRuntimeSsh
  <2>3. Head(runtime) = runtime[1] /\ 1 \in 1..Len(runtime)
    BY <1>0, <2>2
  <2>4. ASSUME NEW i \in 1..Len(runtime), i # 1, runtime[i].id = id PROVE Sending(id)'
    <3>1. i - 1 \in 1..Len(runtime') /\ runtime'[i - 1] = runtime[i]
      BY <1>0, <2>2, <2>4
    <3> QED
      BY <2>4, <3>1 DEF Sending
  <2>5. ASSUME Head(runtime).id = id
        PROVE  Has(pending, {"ssh"}, id)' \/ id \in counted'["runtime_ssh"]
    <3>0. id \in Nat
      BY <1>0, <2>3, <2>5
    <3>1. CASE pending' = Append(pending, Line("ssh", id))
      <4>1. Line("ssh", id) \in Records /\ Line("ssh", id).src = "ssh" /\ Line("ssh", id).ids = {id}
            /\ Line("ssh", id).evidence = FALSE
        BY <3>0, LineTyped
      <4> DEFINE x == Line("ssh", id)
      <4> HIDE DEF x
      <4>2. x \in Records /\ x.src = "ssh" /\ x.ids = {id} /\ ~x.evidence /\ pending' = Append(pending, x)
        BY <3>1, <4>1 DEF x
      <4>3. Len(pending') \in Nat /\ Len(pending') >= 1 /\ pending'[Len(pending')] = x
        BY <4>2 DEF PendingInv
      <4>4. Len(pending') \in 1..Len(pending')
        BY <4>3
      <4> QED
        BY <4>2, <4>3, <4>4 DEF Has
    <3>2. CASE Record("runtime_ssh", id)
      BY <3>0, <3>2, RecordCounts DEF Origins
    <3> QED
      BY <2>1, <2>5, <3>1, <3>2 DEF AdmitRuntimeSsh
  <2>6. (\E r \in emitting : r.id = id) => Sending(id)'
    BY <2>1 DEF Sending
  <2> QED
    BY <2>3, <2>4, <2>5, <2>6 DEF Sending
<1>6. CASE \/ (\E s \in Streams : ReadChunk(s) \/ \E admitted \in BOOLEAN : EnqueueChunk(s, admitted))
           \/ ReadersEnd \/ TakeChunk \/ TakeFinish \/ NoChunk \/ Disconnected \/ NoRuntime
           \/ DrainCustomer \/ DrainNext \/ DrainEvidence \/ FinalEvidence \/ FinalFlush \/ Acknowledge
           \/ Finish \/ FinishReturns
  BY <1>1, <1>6 DEF ReadChunk, EnqueueChunk, ReadersEnd, TakeChunk, TakeFinish, NoChunk, Disconnected, NoRuntime,
       DrainCustomer, DrainNext, DrainEvidence, FinalEvidence, FinalFlush, Acknowledge, Finish, FinishReturns,
       emission, queues
<1>7. CASE \/ FlushIdle \/ FlushStart \/ ResolveFails \/ PostAccepted \/ PostReplayed \/ PostUnanswered
           \/ PostFails \/ PostConflict \/ Resume \/ ResumeFails \/ ForeignWrite
  BY <1>1, <1>7 DEF FlushIdle, FlushStart, ResolveFails, PostAccepted, PostReplayed, PostUnanswered, PostFails,
       PostConflict, Resume, ResumeFails, ForeignWrite, Accepted, local, emission, queues
<1> QED
  BY <1>3, <1>4, <1>5, <1>6, <1>7 DEF Next, Producers, Worker

(* Every chunk and every record is somewhere, or counted.                  *)
OutputInv ==
  \A id \in 1..outputSequence :
    \/ \E s \in Streams : reading[s] = id
    \/ Has(customer, Streams, id) \/ Has(pending, Streams, id) \/ Has(sink, Streams, id)
    \/ id \in counted["customer"]

EmittedInv ==
  \A id \in 1..lines :
    \/ Sending(id) \/ Has(pending, {"ssh"}, id) \/ Has(sink, {"ssh"}, id)
    \/ id \in counted["runtime_ssh"]

(* What holds in every state.                                              *)
ShippingInv ==
  /\ CaptureInv /\ EmissionInv /\ DropInv /\ ControlInv /\ PendingInv /\ BatchInv /\ SinkInv /\ ResumeInv
  /\ OutputInv /\ EmittedInv

(* A chunk that was read stays accounted for.                              *)
LEMMA OutputNext ==
  ASSUME ShippingInv, Next
  PROVE  OutputInv'
<1> USE DEF ShippingInv
<1>0. counted["customer"] \subseteq counted'["customer"]
  BY DropNext DEF Origins
<1>1. outputSequence \in Nat
  BY DEF CaptureInv
<1>2. ASSUME NEW id \in 1..outputSequence
      PROVE  \/ (\E s \in Streams : reading'[s] = id)
             \/ Has(customer, Streams, id)' \/ Has(pending, Streams, id)' \/ Has(sink, Streams, id)'
             \/ id \in counted'["customer"]
  <2>1. CASE \E s \in Streams : reading[s] = id
    <3>1. PICK s \in Streams : reading[s] = id
      BY <2>1
    <3>2. id \in Nat /\ id # 0
      BY <1>1
    <3> QED
      BY <3>1, <3>2, ReadingMoves
  <2>2. CASE Has(customer, Streams, id)
    BY <2>2, QueueMoves
  <2>3. CASE Has(pending, Streams, id)
    BY <2>3, PendingKept
  <2>4. CASE Has(sink, Streams, id)
    BY <2>4, SinkKept
  <2>5. CASE id \in counted["customer"]
    BY <1>0, <2>5
  <2> QED
    BY <2>1, <2>2, <2>3, <2>4, <2>5 DEF OutputInv
<1>3. \/ UNCHANGED outputSequence
      \/ outputSequence' = outputSequence + 1 /\ \E s \in Streams : reading'[s] = outputSequence'
  <2>1. ASSUME NEW s \in Streams, ReadChunk(s)
        PROVE  outputSequence' = outputSequence + 1 /\ reading'[s] = outputSequence'
    BY <2>1 DEF ReadChunk, CaptureInv
  <2>2. CASE \/ (\E s \in Streams : \E admitted \in BOOLEAN : EnqueueChunk(s, admitted)) \/ ReadersEnd
             \/ (\E record \in emitting : SendRecord(record))
             \/ TakeChunk \/ TakeFinish \/ NoChunk \/ Disconnected \/ TakeRuntime \/ NoRuntime
             \/ DrainCustomer \/ DrainRuntime \/ DrainNext \/ DrainEvidence \/ FinalEvidence \/ FinalFlush
             \/ Acknowledge \/ Finish \/ FinishReturns
    BY <2>2 DEF EnqueueChunk, ReadersEnd, SendRecord, TakeChunk, TakeFinish, NoChunk, Disconnected, TakeRuntime,
         NoRuntime, DrainCustomer, DrainRuntime, DrainNext, DrainEvidence, FinalEvidence, FinalFlush, Acknowledge,
         Finish, FinishReturns, capture
  <2>3. CASE EmitCritical \/ \E admitted \in BOOLEAN : EmitRaw(admitted)
    BY <2>3, EmitKinds DEF capture
  <2>4. CASE \/ FlushIdle \/ FlushStart \/ ResolveFails \/ PostAccepted \/ PostReplayed \/ PostUnanswered
             \/ PostFails \/ PostConflict \/ Resume \/ ResumeFails \/ ForeignWrite
    BY <2>4 DEF FlushIdle, FlushStart, ResolveFails, PostAccepted, PostReplayed, PostUnanswered, PostFails,
         PostConflict, Resume, ResumeFails, ForeignWrite, Accepted, local, capture
  <2> QED
    BY <2>1, <2>2, <2>3, <2>4 DEF Next, Producers, Worker
<1>4. \A id \in 1..outputSequence' : id \in 1..outputSequence \/ (id = outputSequence' /\ outputSequence' # outputSequence)
  BY <1>1, <1>3
<1> QED
  BY <1>2, <1>3, <1>4 DEF OutputInv

(* A record that was emitted stays accounted for.                          *)
LEMMA EmittedNext ==
  ASSUME ShippingInv, Next
  PROVE  EmittedInv'
<1> USE DEF ShippingInv
<1>0. counted["runtime_ssh"] \subseteq counted'["runtime_ssh"]
  BY DropNext DEF Origins
<1>1. lines \in Nat
  BY DEF EmissionInv
<1>2. ASSUME NEW id \in 1..lines
      PROVE  \/ Sending(id)' \/ Has(pending, {"ssh"}, id)' \/ Has(sink, {"ssh"}, id)'
             \/ id \in counted'["runtime_ssh"]
  <2>1. CASE Sending(id)
    BY <2>1, SendingMoves
  <2>2. CASE Has(pending, {"ssh"}, id)
    BY <2>2, PendingKept
  <2>3. CASE Has(sink, {"ssh"}, id)
    BY <2>3, SinkKept
  <2>4. CASE id \in counted["runtime_ssh"]
    BY <1>0, <2>4
  <2> QED
    BY <2>1, <2>2, <2>3, <2>4 DEF EmittedInv
<1>3. \/ UNCHANGED lines
      \/ lines' = lines + 1 /\ ((\E r \in emitting' : r.id = lines') \/ lines' \in counted'["runtime_ssh"])
  <2>1. CASE EmitCritical \/ \E admitted \in BOOLEAN : EmitRaw(admitted)
    <3>1. PICK critical \in BOOLEAN : Emits([id |-> lines + 1, critical |-> critical])
      BY <2>1, EmitKinds
    <3> DEFINE record == [id |-> lines + 1, critical |-> critical]
    <3>2. record.id = lines + 1
      OBVIOUS
    <3> HIDE DEF record
    <3>3. lines' = lines + 1 /\ Emits(record)
      BY <3>1 DEF Emits, record
    <3>4. Record("runtime_ssh", record.id) => record.id \in counted'["runtime_ssh"]
      BY <1>1, <3>2, RecordCounts DEF Origins
    <3> QED
      BY <3>2, <3>3, <3>4 DEF Emits
  <2>2. CASE \/ (\E s \in Streams : ReadChunk(s) \/ \E admitted \in BOOLEAN : EnqueueChunk(s, admitted))
             \/ ReadersEnd \/ (\E record \in emitting : SendRecord(record))
             \/ TakeChunk \/ TakeFinish \/ NoChunk \/ Disconnected \/ TakeRuntime \/ NoRuntime
             \/ DrainCustomer \/ DrainRuntime \/ DrainNext \/ DrainEvidence \/ FinalEvidence \/ FinalFlush
             \/ Acknowledge \/ Finish \/ FinishReturns
    BY <2>2 DEF ReadChunk, EnqueueChunk, ReadersEnd, SendRecord, TakeChunk, TakeFinish, NoChunk, Disconnected,
         TakeRuntime, NoRuntime, DrainCustomer, DrainRuntime, DrainNext, DrainEvidence, FinalEvidence, FinalFlush,
         Acknowledge, Finish, FinishReturns, emission
  <2>3. CASE \/ FlushIdle \/ FlushStart \/ ResolveFails \/ PostAccepted \/ PostReplayed \/ PostUnanswered
             \/ PostFails \/ PostConflict \/ Resume \/ ResumeFails \/ ForeignWrite
    BY <2>3 DEF FlushIdle, FlushStart, ResolveFails, PostAccepted, PostReplayed, PostUnanswered, PostFails,
         PostConflict, Resume, ResumeFails, ForeignWrite, Accepted, local, emission
  <2> QED
    BY <2>1, <2>2, <2>3 DEF Next, Producers, Worker
<1>4. \A id \in 1..lines' : id \in 1..lines \/ (id = lines' /\ lines' # lines)
  BY <1>1, <1>3
<1>5. ASSUME NEW id, id = lines', lines' # lines
      PROVE  Sending(id)' \/ id \in counted'["runtime_ssh"]
  BY <1>3, <1>5 DEF Sending
<1> QED
  BY <1>2, <1>4, <1>5 DEF EmittedInv

(* The invariant holds initially.                                          *)
LEMMA ShippingInit ==
  ASSUME Init
  PROVE  ShippingInv
<1> USE Bounds DEF Init
<1>1. CaptureInv /\ ResumeInv /\ OutputInv
  BY DEF CaptureInv, ResumeInv, OutputInv
<1>2. EmissionInv
  <2>1. IsFiniteSet({}) /\ Cardinality({}) = 0
    BY FS_EmptySet
  <2> QED
    BY <2>1 DEF EmissionInv, QueueMemoryExact
<1>3. DropInv /\ EmittedInv /\ SinkInv
  BY DEF DropInv, Origins, EmittedInv, SinkInv
<1>6. ControlInv
  <2>1. {marked, lost, readers, acknowledged} \subseteq BOOLEAN
    BY Zenon
  <2> QED
    BY <2>1 DEF ControlInv, Pcs
<1>4. PendingInv
  <2>1. Len(pending) = 0 /\ pending \in Seq(Records)
    OBVIOUS
  <2>2. At("customer", pending) = {} /\ At("runtime_ssh", pending) = {}
    BY <2>1 DEF At
  <2>3. Count("customer", pending) = 0 /\ Count("runtime_ssh", pending) = 0
    BY <2>1, <2>2, CountAt, FS_EmptySet
  <2> QED
    BY <2>1, <2>3 DEF PendingInv
<1>5. BatchInv
  BY DEF BatchInv, NoBatch
<1> QED
  BY <1>1, <1>2, <1>3, <1>4, <1>5, <1>6 DEF ShippingInv

(* Every step keeps it.                                                    *)
LEMMA ShippingNext ==
  ASSUME ShippingInv, [Next]_vars
  PROVE  ShippingInv'
<1>1. CASE Next
  <2>1. CaptureInv /\ EmissionInv /\ DropInv /\ ControlInv /\ PendingInv /\ BatchInv /\ SinkInv /\ ResumeInv
    BY DEF ShippingInv
  <2>2. CaptureInv' /\ EmissionInv' /\ DropInv' /\ ControlInv' /\ PendingInv'
    BY <1>1, <2>1, CaptureNext, EmissionNext, DropNext, ControlNext, PendingNext
  <2>3. SinkInv' /\ ResumeInv'
    BY <1>1, <2>1, SinkNext
  <2>4. BatchInv'
    BY <1>1, <2>1, <2>3, BatchNext DEF SinkInv
  <2>5. OutputInv' /\ EmittedInv'
    BY <1>1, OutputNext, EmittedNext
  <2> QED
    BY <2>2, <2>3, <2>4, <2>5 DEF ShippingInv
<1>2. CASE UNCHANGED vars
  <2> USE <1>2 DEF vars, capture, emission, queues, drops, shipping, remote, ending, ShippingInv
  <2>1. CaptureInv'
    BY DEF CaptureInv
  <2>2. EmissionInv'
    BY DEF EmissionInv, QueueMemoryExact
  <2>3. DropInv' /\ ControlInv'
    BY DEF DropInv, ControlInv
  <2>4. PendingInv'
    BY DEF PendingInv, Count
  <2>5. BatchInv'
    BY DEF BatchInv, Carries, LateStage
  <2>6. SinkInv' /\ ResumeInv'
    BY DEF SinkInv, ResumeInv
  <2>7. OutputInv'
    BY DEF OutputInv, Has
  <2>8. EmittedInv'
    BY DEF EmittedInv, Sending, Has
  <2> QED
    BY <2>1, <2>2, <2>3, <2>4, <2>5, <2>6, <2>7, <2>8
<1> QED
  BY <1>1, <1>2

(* It holds in every reachable state.                                      *)
LEMMA ShippingAlways == Spec => []ShippingInv
<1>1. Init => ShippingInv
  BY ShippingInit
<1>2. ShippingInv /\ [Next]_vars => ShippingInv'
  BY ShippingNext
<1> QED
  BY <1>1, <1>2, PTL DEF Spec

(* What a list has, Held has.                                              *)
LEMMA HasHeld ==
  ASSUME ShippingInv, NEW src, NEW id, Has(customer, src, id) \/ Has(pending, src, id) \/ Has(sink, src, id)
  PROVE  {id} \in Held(src)
<1>1. customer \in Seq(Records) /\ pending \in Seq(Records) /\ sink \in Seq(Records)
  BY DEF ShippingInv, CaptureInv, PendingInv, SinkInv
<1>2. ASSUME NEW s \in Seq(Records), Has(s, src, id)
      PROVE  \E q \in ToSet(s) : q.src \in src /\ ~q.evidence /\ q.ids = {id}
  BY <1>2 DEF Has, ToSet
<1>3. \E q \in ToSet(customer) \cup ToSet(pending) \cup ToSet(sink) : q.src \in src /\ ~q.evidence /\ q.ids = {id}
  BY <1>1, <1>2
<1> QED
  BY <1>3 DEF Held

(* Every chunk the customer wrote and every record of Runtime SSH is on    *)
(* its way, stored or counted as dropped; the queues, pending_records and  *)
(* the retained batch keep their bounds, and queued_bytes is exact.        *)
THEOREM NothingIsLost == Spec => []Accounted
<1>1. ASSUME ShippingInv PROVE TypeOK
  <2> USE <1>1, Bounds DEF ShippingInv
  <2>1. /\ \A s \in Streams : reading[s] \in 0..MaxChunks
        /\ outputSequence \in 0..MaxChunks /\ Len(customer) <= QueueCapacity
    BY DEF CaptureInv
  <2>2. lines \in 0..MaxLines /\ Len(runtime) <= QueueCapacity /\ queuedBytes \in 0..QueueMemory
    BY DEF EmissionInv
  <2>3. \A o \in Origins : dropped[o] \subseteq counted[o]
    BY DEF DropInv
  <2>4. /\ pc \in Pcs /\ then \in {"flush", "finish", "end"} /\ attempts \in 0..MaxRebase
        /\ main \in {"running", "waiting", "closed"}
        /\ foreign \in 0..MaxForeign /\ faults \in 0..MaxFaults
    BY DEF ControlInv
  <2>5. {marked, lost, readers, acknowledged} \subseteq BOOLEAN
    BY Zenon DEF ControlInv
  <2>6. Count("customer", pending) <= MaxBatch /\ Count("runtime_ssh", pending) <= 3 * MaxBatch
    BY DEF PendingInv
  <2>7. Len(batch.records) <= MaxBatch /\ next \in Nat
    BY DEF BatchInv
  <2> QED
    BY <2>1, <2>2, <2>3, <2>4, <2>5, <2>6, <2>7 DEF TypeOK
<1>2. ASSUME ShippingInv PROVE LinesAccounted
  <2>1. \A id \in 1..outputSequence :
          \/ \E s \in Streams : reading[s] = id
          \/ {id} \in Held(Streams)
          \/ id \in counted["customer"]
    BY <1>2, HasHeld DEF ShippingInv, OutputInv
  <2>2. \A id : Sending(id) => \E r \in emitting \cup ToSet(runtime) : r.id = id
    <3>1. runtime \in Seq(Emitted)
      BY <1>2 DEF ShippingInv, EmissionInv
    <3> QED
      BY <3>1 DEF Sending, ToSet
  <2>3. \A id \in 1..lines :
          \/ \E r \in emitting \cup ToSet(runtime) : r.id = id
          \/ {id} \in Held({"ssh"})
          \/ id \in counted["runtime_ssh"]
    BY <1>2, <2>2, HasHeld DEF ShippingInv, EmittedInv
  <2> QED
    BY <2>1, <2>3 DEF LinesAccounted
<1>3. ShippingInv => QueueMemoryExact
  BY DEF ShippingInv, EmissionInv
<1>4. ShippingInv => Accounted
  BY <1>1, <1>2, <1>3 DEF Accounted
<1> QED
  BY <1>4, ShippingAlways, PTL
-----------------------------------------------------------------------------
(* The order of the customer's output. *)

Below(s, src, n) == \A i \in 1..Len(s) : s[i].src = src => \A a \in s[i].ids : a < n

(* What is pending or stored of a stream is older than n.                  *)
Behind(src, n) == Below(pending, src, n) /\ Below(sink, src, n)

(* Along a stream, what is read later is newer than all before it.         *)
QueueOrder ==
  /\ \A j \in 1..Len(customer) : customer[j].src \in Streams =>
       \A b \in customer[j].ids :
         /\ Behind(customer[j].src, b)
         /\ \A i \in 1..Len(customer) : i < j /\ customer[i].src = customer[j].src => \A a \in customer[i].ids : a < b
  /\ \A s \in Streams : reading[s] # 0 => Behind(s, reading[s]) /\ Below(customer, s, reading[s])
  /\ \A s \in Streams : Behind(s, outputSequence + 1) /\ Below(customer, s, outputSequence + 1)

PendingOrder ==
  \A i, j \in 1..Len(pending) :
    i < j /\ pending[i].src \in Streams /\ pending[i].src = pending[j].src
      => \A a \in pending[i].ids, b \in pending[j].ids : a < b

(* A pending chunk older than a stored one is itself stored before it.     *)
ShippedOrder ==
  \A p \in 1..Len(pending), i \in 1..Len(sink) :
    sink[i].src \in Streams /\ sink[i].src = pending[p].src
      => \A a \in sink[i].ids, b \in pending[p].ids : b < a => \E k \in 1..i : sink[k] = pending[p]

(* Unless a batch went unacknowledged, only one that was just accepted is  *)
(* both pending and stored.                                                *)
ShippedOnce ==
  ~lost => \A p \in 1..Len(pending), i \in 1..Len(sink) :
             sink[i].src \in Streams /\ sink[i] = pending[p] => pc = "resume" /\ p <= Len(batch.records)

OrderInv == QueueOrder /\ PendingOrder /\ ShippedOrder /\ ShippedOnce /\ InOrder /\ CustomerOnce

(* The steps by what they do to the streams and their queue.               *)
Reads ==
  /\ \E t \in Streams : reading[t] = 0 /\ reading' = [reading EXCEPT ![t] = outputSequence + 1]
  /\ outputSequence' = outputSequence + 1 /\ UNCHANGED <<customer, pending, batch, sink, pc, lost>>

Enqueues ==
  /\ \E t \in Streams : /\ reading[t] # 0 /\ reading' = [reading EXCEPT ![t] = 0]
                        /\ customer' = Append(customer, Line(t, reading[t])) \/ UNCHANGED customer
  /\ UNCHANGED <<outputSequence, pending, batch, sink, pc, lost>>

Flows ==
  /\ UNCHANGED <<reading, outputSequence>>
  /\ UNCHANGED customer \/ customer' = Append(customer, FinishWork) \/ (customer # <<>> /\ customer' = Tail(customer))

(* One of them is every step.                                              *)
LEMMA CaptureKinds ==
  ASSUME Next
  PROVE  Reads \/ Enqueues \/ Flows
<1>1. ASSUME NEW t \in Streams, ReadChunk(t) PROVE Reads
  BY <1>1 DEF ReadChunk, Reads, queues, shipping, remote
<1>2. ASSUME NEW t \in Streams, NEW admitted, EnqueueChunk(t, admitted) PROVE Enqueues
  BY <1>2 DEF EnqueueChunk, Enqueues, shipping, remote
<1>3. CASE TakeChunk \/ TakeFinish \/ DrainCustomer \/ Finish
  BY <1>3 DEF TakeChunk, TakeFinish, DrainCustomer, Finish, Flows, capture
<1>4. CASE \/ ReadersEnd \/ (\E record \in emitting : SendRecord(record))
           \/ NoChunk \/ Disconnected \/ TakeRuntime \/ NoRuntime
           \/ DrainRuntime \/ DrainNext \/ DrainEvidence \/ FinalEvidence \/ FinalFlush
           \/ Acknowledge \/ FinishReturns
  BY <1>4 DEF ReadersEnd, SendRecord, NoChunk, Disconnected, TakeRuntime, NoRuntime, DrainRuntime, DrainNext,
       DrainEvidence, FinalEvidence, FinalFlush, Acknowledge, FinishReturns, queues, capture, Flows
<1>5. CASE EmitCritical \/ \E admitted \in BOOLEAN : EmitRaw(admitted)
  BY <1>5, EmitKinds DEF capture, Flows
<1>6. CASE \/ FlushIdle \/ FlushStart \/ ResolveFails \/ PostAccepted \/ PostReplayed \/ PostUnanswered
           \/ PostFails \/ PostConflict \/ Resume \/ ResumeFails \/ ForeignWrite
  BY <1>6 DEF FlushIdle, FlushStart, ResolveFails, PostAccepted, PostReplayed, PostUnanswered, PostFails,
       PostConflict, Resume, ResumeFails, ForeignWrite, Accepted, local, queues, capture, Flows
<1> QED
  BY <1>1, <1>2, <1>3, <1>4, <1>5, <1>6 DEF Next, Producers, Worker

(* Where the chunks of pending_records were: in the same order before, but *)
(* for the one from the queue, which is the last.                          *)
LEMMA PendingMoves ==
  ASSUME ShippingInv, Next
  PROVE  \E f :
           /\ \A i \in 1..Len(pending') : pending'[i].src \in Streams =>
                \/ f[i] \in 1..Len(pending) /\ pending[f[i]] = pending'[i]
                \/ /\ f[i] = 0 /\ AddsChunk /\ pending'[i] = Head(customer)
                   /\ \A j \in 1..Len(pending') : pending'[j].src \in Streams => j <= i
           /\ \A i, j \in 1..Len(pending') : i < j /\ f[i] # 0 /\ f[j] # 0 => f[i] < f[j]
<1> DEFINE Moved(f) ==
           /\ \A i \in 1..Len(pending') : pending'[i].src \in Streams =>
                \/ f[i] \in 1..Len(pending) /\ pending[f[i]] = pending'[i]
                \/ /\ f[i] = 0 /\ AddsChunk /\ pending'[i] = Head(customer)
                   /\ \A j \in 1..Len(pending') : pending'[j].src \in Streams => j <= i
           /\ \A i, j \in 1..Len(pending') : i < j /\ f[i] # 0 /\ f[j] # 0 => f[i] < f[j]
<1> SUFFICES \E f : Moved(f)
  OBVIOUS
<1>0. pending \in Seq(Records) /\ Len(pending) \in Nat
  BY DEF ShippingInv, PendingInv
<1>1. CASE UNCHANGED pending
  <2> DEFINE f == [i \in 1..Len(pending') |-> i]
  <2>1. Moved(f)
    BY <1>0, <1>1
  <2> QED
    BY <2>1
<1>2. ASSUME NEW r \in Records, NEW at, Inserted(pending, pending', at, r),
             r.src \in Streams => /\ AddsChunk /\ r = Head(customer)
                                  /\ \A j \in 1..Len(pending) : j >= at => pending[j].src \notin Streams
      PROVE  \E f : Moved(f)
  <2> DEFINE f == [i \in 1..Len(pending') |-> IF i < at THEN i ELSE IF i = at THEN 0 ELSE i - 1]
  <2>1. /\ at \in 1..(Len(pending) + 1) /\ Len(pending') = Len(pending) + 1 /\ pending'[at] = r
        /\ \A i \in 1..Len(pending) : /\ i < at => pending'[i] = pending[i]
                                      /\ i >= at => pending'[i + 1] = pending[i]
    BY <1>2 DEF Inserted
  <2>2. ASSUME NEW i \in 1..Len(pending'), i < at
        PROVE  f[i] \in 1..Len(pending) /\ pending[f[i]] = pending'[i]
    BY <1>0, <2>1, <2>2
  <2>3. ASSUME NEW i \in 1..Len(pending'), i > at
        PROVE  f[i] \in 1..Len(pending) /\ pending[f[i]] = pending'[i] /\ f[i] >= at
    <3>1. i - 1 \in 1..Len(pending) /\ i - 1 >= at /\ (i - 1) + 1 = i /\ f[i] = i - 1
      BY <1>0, <2>1, <2>3
    <3> QED
      BY <2>1, <3>1
  <2>4. at \in 1..Len(pending') /\ f[at] = 0
    BY <1>0, <2>1
  <2>5. ASSUME r.src \in Streams, NEW j \in 1..Len(pending'), pending'[j].src \in Streams
        PROVE  j <= at
    BY <1>2, <2>1, <2>3, <2>5
  <2>6. \A i \in 1..Len(pending') : i < at \/ i = at \/ i > at
    BY <2>1
  <2>7. \A i, j \in 1..Len(pending') : i < j /\ f[i] # 0 /\ f[j] # 0 => f[i] < f[j]
    BY <1>0, <2>1
  <2> HIDE DEF f
  <2>8. Moved(f)
    BY <1>2, <2>1, <2>2, <2>3, <2>4, <2>5, <2>6, <2>7
  <2> QED
    BY <2>8
<1>3. CASE AddsChunk
  <2>1. Head(customer) \in Records /\ pending' = InsertCustomer(Head(customer))
    BY <1>3 DEF AddsChunk, ShippingInv, CaptureInv
  <2> DEFINE r == Head(customer)
  <2> HIDE DEF r
  <2>2. r \in Records /\ pending' = InsertCustomer(r)
    BY <2>1 DEF r
  <2>3. PICK at : /\ Inserted(pending, pending', at, r)
                  /\ at \in 1..Len(pending) => Origin(pending[at]) = "runtime_ssh"
    BY <1>0, <2>2, InsertShape
  <2>4. \A j \in 1..Len(pending) : j >= at => pending[j].src \notin Streams
    <3>1. ASSUME NEW j \in 1..Len(pending), j >= at PROVE pending[j].src \notin Streams
      <4>1. at \in 1..Len(pending)
        BY <1>0, <2>3, <3>1 DEF Inserted
      <4>2. Origin(pending[at]) # "customer"
        BY <2>3, <4>1
      <4>3. Origin(pending[j]) # "customer"
        BY <3>1, <4>1, <4>2 DEF ShippingInv, PendingInv
      <4> QED
        BY <4>3, Origins2, Bounds
    <3> QED
      BY <3>1
  <2> QED
    BY <1>2, <1>3, <2>2, <2>3, <2>4 DEF r
<1>4. CASE AddsEvidence
  BY <1>0, <1>2, <1>4, InsertShape, Bounds DEF AddsEvidence
<1>5. CASE AddsSsh
  BY <1>0, <1>2, <1>5, AppendShape, Bounds DEF AddsSsh
<1>6. CASE Ships
  <2> DEFINE m == Len(batch.records)
             f == [i \in 1..Len(pending') |-> i + m]
  <2>1. /\ m \in Nat /\ m <= Len(pending) /\ Len(pending') = Len(pending) - m
        /\ \A j \in 1..Len(pending') : pending'[j] = pending[j + m]
    BY <1>6, ShipShape DEF Shifted, BatchInv, ShippingInv
  <2>2. Moved(f)
    BY <1>0, <2>1
  <2> QED
    BY <2>2
<1> HIDE DEF Moved
<1> QED
  BY <1>1, <1>3, <1>4, <1>5, <1>6, ShipKinds DEF KeepsBatch, Builds, ShippingInv

(* A chunk enters the sink from the front of pending_records.              *)
LEMMA SinkMoves ==
  ASSUME ShippingInv, Next
  PROVE  /\ \A i \in 1..Len(sink') : sink'[i].src \in Streams =>
              \/ i \in 1..Len(sink) /\ sink'[i] = sink[i]
              \/ /\ Stores /\ i > Len(sink) /\ i - Len(sink) \in 1..Len(batch.records)
                 /\ i - Len(sink) \in 1..Len(pending) /\ sink'[i] = pending[i - Len(sink)]
                 /\ \A j \in 1..(i - Len(sink)) : Len(sink) + j <= i /\ sink'[Len(sink) + j] = pending[j]
         /\ \A i \in 1..Len(sink) : i \in 1..Len(sink') /\ sink'[i] = sink[i]
<1> DEFINE n == Len(sink)
           m == Len(batch.records)
<1>0. /\ sink \in Seq(Records) /\ n \in Nat /\ batch.records \in Seq(Records) /\ m \in Nat /\ Len(pending) \in Nat
  BY DEF ShippingInv, SinkInv, BatchInv, PendingInv
<1>1. \A i \in 1..Len(sink) : i \in 1..Len(sink') /\ sink'[i] = sink[i]
  <2>1. Len(sink') >= Len(sink) /\ sink' \in Seq(Records) /\ \A i \in 1..Len(sink) : sink'[i] = sink[i]
    BY SinkNext DEF ShippingInv, SinkInv
  <2> QED
    BY <1>0, <2>1
<1>2. CASE UNCHANGED sink
  BY <1>1, <1>2
<1>3. CASE Foreigns
  <2> DEFINE r == Line("foreign", 0)
  <2>1. r \in Records /\ r.src = "foreign"
    BY LineTyped
  <2> HIDE DEF r
  <2>2. sink' = Append(sink, r)
    BY <1>3 DEF Foreigns, r
  <2>3. Len(sink') = n + 1 /\ sink'[n + 1] = r
    BY <1>0, <2>1, <2>2
  <2>4. \A i \in 1..Len(sink') : i \in 1..n \/ i = n + 1
    BY <1>0, <2>3
  <2> QED
    BY <1>1, <2>1, <2>3, <2>4, Bounds
<1>4. CASE Stores
  <2>1. /\ Len(sink') = n + m
        /\ \A i \in 1..m : sink'[n + i] = batch.records[i]
    BY <1>0, <1>4, JoinShape, Zenon DEF Stores
  <2>2. ASSUME NEW i \in 1..Len(sink'), sink'[i].src \in Streams, i \notin 1..n
        PROVE  /\ i > n /\ i - n \in 1..m /\ i - n \in 1..Len(pending) /\ sink'[i] = pending[i - n]
               /\ \A j \in 1..(i - n) : n + j <= i /\ sink'[n + j] = pending[j]
    <3>1. i > n /\ i - n \in 1..m /\ n + (i - n) = i
      BY <1>0, <2>1, <2>2
    <3>2. sink'[i] = batch.records[i - n]
      BY <2>1, <3>1
    <3>3. Origin(batch.records[i - n]) = "customer"
      BY <2>2, <3>2, Origins2, Bounds
    <3>4. batch # NoBatch
      BY <1>4 DEF Stores, ShippingInv, BatchInv
    <3>5. Carries(0)
      BY <3>1, <3>3, <3>4 DEF ShippingInv, BatchInv
    <3>6. m <= Len(pending) /\ \A j \in 1..m : pending[j] = batch.records[j]
      BY <1>0, <3>5 DEF Carries
    <3>7. \A j \in 1..(i - n) : n + j <= i /\ j \in 1..m
      BY <1>0, <3>1
    <3>8. i - n \in 1..Len(pending)
      BY <1>0, <3>1, <3>6
    <3> QED
      BY <2>1, <3>1, <3>2, <3>6, <3>7, <3>8
  <2> QED
    BY <1>1, <1>4, <2>2
<1> QED
  BY <1>2, <1>3, <1>4, SinkKinds DEF Replays, Quiet, ShippingInv

(* A bound on what is pending or stored of a stream stays one.             *)
LEMMA BehindKept ==
  ASSUME ShippingInv, Next, NEW src \in Streams, NEW n, Behind(src, n),
         AddsChunk /\ Head(customer).src = src => \A a \in Head(customer).ids : a < n
  PROVE  Behind(src, n)'
<1>1. Below(pending, src, n)'
  <2>1. \A i \in 1..Len(pending') : pending'[i].src \in Streams =>
          \/ \E j \in 1..Len(pending) : pending[j] = pending'[i]
          \/ AddsChunk /\ pending'[i] = Head(customer)
    BY PendingMoves
  <2> QED
    BY <2>1 DEF Behind, Below
<1>2. Below(sink, src, n)'
  <2>1. \A i \in 1..Len(sink') : sink'[i].src \in Streams =>
          \/ \E j \in 1..Len(sink) : sink[j] = sink'[i]
          \/ \E j \in 1..Len(pending) : pending[j] = sink'[i]
    BY SinkMoves
  <2> QED
    BY <2>1 DEF Behind, Below
<1> QED
  BY <1>1, <1>2 DEF Behind

(* The order of what is not pending yet.                                   *)
LEMMA QueueOrderNext ==
  ASSUME ShippingInv, QueueOrder, Next
  PROVE  QueueOrder'
<1>0. /\ customer \in Seq(Records) /\ Len(customer) \in Nat /\ reading \in [Streams -> Nat] /\ outputSequence \in Nat
      /\ \A s \in Streams : reading[s] <= outputSequence
  BY DEF ShippingInv, CaptureInv
<1>1. \A s, n : UNCHANGED <<pending, sink>> => Behind(s, n)' = Behind(s, n)
  BY DEF Behind, Below
<1>2. CASE Reads
  <2>1. PICK t \in Streams : reading' = [reading EXCEPT ![t] = outputSequence + 1]
    BY <1>2 DEF Reads
  <2>2. UNCHANGED <<customer, pending, sink>> /\ outputSequence' = outputSequence + 1
    BY <1>2 DEF Reads
  <2>3. \A s, n : Below(customer, s, n)' = Below(customer, s, n)
    BY <2>2 DEF Below
  <2>4. ASSUME NEW s \in Streams
        PROVE  Behind(s, outputSequence + 2) /\ Below(customer, s, outputSequence + 2)
    <3>1. ASSUME NEW x \in Seq(Records), Below(x, s, outputSequence + 1) PROVE Below(x, s, outputSequence + 2)
      <4>1. \A i \in 1..Len(x) : x[i] \in Records
        BY <3>1
      <4>2. \A i \in 1..Len(x) : x[i].ids \subseteq Nat
        BY <4>1 DEF Records
      <4> QED
        BY <1>0, <3>1, <4>2 DEF Below
    <3>2. pending \in Seq(Records) /\ sink \in Seq(Records)
      BY DEF ShippingInv, PendingInv, SinkInv
    <3> QED
      BY <1>0, <3>1, <3>2 DEF QueueOrder, Behind
  <2>5. \A s \in Streams : reading'[s] # 0 => Behind(s, reading'[s]) /\ Below(customer, s, reading'[s])
    BY <1>0, <2>1 DEF QueueOrder
  <2>6. outputSequence' + 1 = outputSequence + 2
    BY <1>0, <2>2
  <2>7. \A s \in Streams : Behind(s, outputSequence + 1)' /\ Below(customer, s, outputSequence + 1)'
    BY <2>2, <2>4, <2>6 DEF Behind, Below
  <2>8. \A s \in Streams : reading'[s] # 0 => Behind(s, reading[s])' /\ Below(customer, s, reading[s])'
    BY <2>2, <2>5 DEF Behind, Below
  <2>9. \A j \in 1..Len(customer') : customer'[j].src \in Streams =>
          \A b \in customer'[j].ids :
            /\ Behind(customer[j].src, b)'
            /\ \A i \in 1..Len(customer') : i < j /\ customer'[i].src = customer'[j].src => \A a \in customer'[i].ids : a < b
    BY <2>2 DEF QueueOrder, Behind, Below
  <2> QED
    BY <2>7, <2>8, <2>9 DEF QueueOrder
<1>3. CASE Enqueues
  <2>1. PICK t \in Streams : /\ reading[t] # 0 /\ reading' = [reading EXCEPT ![t] = 0]
                             /\ customer' = Append(customer, Line(t, reading[t])) \/ UNCHANGED customer
    BY <1>3 DEF Enqueues
  <2>2. UNCHANGED <<outputSequence, pending, sink>>
    BY <1>3 DEF Enqueues
  <2>3. \A s \in Streams : reading'[s] # 0 => reading'[s] = reading[s] /\ s # t
    BY <1>0, <2>1
  <2>4. ASSUME NEW s, NEW n, Behind(s, n) PROVE Behind(s, n)'
    BY <1>1, <2>2, <2>4
  <2> DEFINE b == reading[t]
             x == Line(t, b)
  <2>5. b \in Nat /\ b <= outputSequence
    BY <1>0
  <2> HIDE DEF b
  <2>6. x \in Records /\ x.src = t /\ x.ids = {b}
    BY <2>5, LineTyped
  <2> HIDE DEF x
  <2>7. Behind(t, b) /\ Below(customer, t, b)
    BY <2>1 DEF QueueOrder, b
  <2>8. CASE UNCHANGED customer
    <3>2. \A s \in Streams : reading'[s] # 0 => Behind(s, reading[s])' /\ Below(customer, s, reading[s])'
      BY <2>2, <2>3, <2>8 DEF QueueOrder, Behind, Below
    <3>3. \A s \in Streams : Behind(s, outputSequence + 1)' /\ Below(customer, s, outputSequence + 1)'
      BY <2>2, <2>8 DEF QueueOrder, Behind, Below
    <3>4. \A j \in 1..Len(customer') : customer'[j].src \in Streams =>
            \A c \in customer'[j].ids :
              /\ Behind(customer[j].src, c)'
              /\ \A i \in 1..Len(customer') : i < j /\ customer'[i].src = customer'[j].src => \A a \in customer'[i].ids : a < c
      BY <2>2, <2>8 DEF QueueOrder, Behind, Below
    <3> QED
      BY <3>2, <3>3, <3>4 DEF QueueOrder
  <2>9. CASE customer' = Append(customer, x)
    <3>1. /\ Len(customer') = Len(customer) + 1 /\ customer'[Len(customer) + 1] = x
          /\ \A i \in 1..Len(customer) : customer'[i] = customer[i]
      BY <1>0, <2>6, <2>9
    <3>2. \A i \in 1..Len(customer') : i \in 1..Len(customer) \/ i = Len(customer) + 1
      BY <1>0, <3>1
    <3>3. ASSUME NEW s, NEW n, Below(customer, s, n), s = t => b < n PROVE Below(customer, s, n)'
      BY <2>6, <3>1, <3>2, <3>3 DEF Below
    <3>4. ASSUME NEW s \in Streams, reading'[s] # 0
          PROVE  Behind(s, reading[s])' /\ Below(customer, s, reading[s])'
      <4> DEFINE n == reading[s]
      <4>1. n = reading'[s] /\ s # t /\ Behind(s, n) /\ Below(customer, s, n)
        BY <2>3, <3>4 DEF QueueOrder
      <4>2. ASSUME NEW c, c = n PROVE Behind(s, c)' /\ Below(customer, s, c)'
        BY <2>4, <3>3, <4>1, <4>2
      <4>3. PICK c : c = n
        OBVIOUS
      <4>4. c = reading'[s]
        BY <4>1, <4>3
      <4>5. Behind(s, c)' /\ Below(customer, s, c)'
        BY <4>2, <4>3
      <4> QED
        BY <4>4, <4>5
    <3>5. ASSUME NEW s \in Streams
          PROVE  Behind(s, outputSequence + 1)' /\ Below(customer, s, outputSequence + 1)'
      <4>1. PICK c : c = outputSequence + 1
        OBVIOUS
      <4>2. Behind(s, c) /\ Below(customer, s, c) /\ b < c
        BY <1>0, <2>5, <4>1 DEF QueueOrder
      <4>3. Behind(s, c)' /\ Below(customer, s, c)'
        BY <2>4, <3>3, <4>2
      <4>4. c = outputSequence' + 1
        BY <2>2, <4>1
      <4> QED
        BY <4>3, <4>4
    <3>6. ASSUME NEW j \in 1..Len(customer'), customer'[j].src \in Streams, NEW c \in customer'[j].ids
          PROVE  /\ Behind(customer[j].src, c)'
                 /\ \A i \in 1..Len(customer') : i < j /\ customer'[i].src = customer'[j].src => \A a \in customer'[i].ids : a < c
      <4>1. CASE j \in 1..Len(customer)
        <5>1. /\ Behind(customer[j].src, c)
              /\ \A i \in 1..Len(customer) : i < j /\ customer[i].src = customer[j].src => \A a \in customer[i].ids : a < c
          BY <3>1, <3>6, <4>1 DEF QueueOrder
        <5>2. Behind(customer[j].src, c)'
          BY <2>2, <3>1, <4>1, <5>1 DEF Behind, Below
        <5>3. \A i \in 1..Len(customer') : i < j => i \in 1..Len(customer)
          BY <1>0, <3>2, <4>1
        <5> QED
          BY <3>1, <4>1, <5>1, <5>2, <5>3
      <4>2. CASE j = Len(customer) + 1
        <5>1. customer'[j] = x /\ c = b /\ Behind(t, c) /\ Below(customer, t, c)
          BY <2>6, <2>7, <3>1, <3>6, <4>2
        <5>2. Behind(t, c)'
          BY <2>4, <5>1
        <5>3. Behind(customer[j].src, c)'
          BY <2>6, <5>1, <5>2
        <5>4. \A i \in 1..Len(customer') : i < j => i \in 1..Len(customer)
          BY <1>0, <3>2, <4>2
        <5> QED
          BY <2>6, <3>1, <5>1, <5>3, <5>4 DEF Below
      <4> QED
        BY <3>2, <4>1, <4>2
    <3> QED
      BY <3>4, <3>5, <3>6 DEF QueueOrder
  <2> QED
    BY <2>1, <2>8, <2>9 DEF x, b
<1>4. CASE Flows
  <2>0. UNCHANGED <<reading, outputSequence>>
    BY <1>4 DEF Flows
  <2>1. AddsChunk => customer # <<>> /\ customer' = Tail(customer)
    BY DEF AddsChunk
  <2>2. PICK d \in {0, 1} :
          /\ \A j \in 1..Len(customer') : customer'[j].src \in Streams =>
               j + d \in 1..Len(customer) /\ customer'[j] = customer[j + d]
          /\ AddsChunk => d = 1 /\ 1 \in 1..Len(customer) /\ Head(customer) = customer[1]
    <3>1. CASE UNCHANGED customer
      <4>1. ~AddsChunk
        <5>1. customer # <<>> => Len(Tail(customer)) = Len(customer) - 1
          BY <1>0
        <5> QED
          BY <1>0, <2>1, <3>1, <5>1
      <4>2. \A j \in 1..Len(customer') : j + 0 \in 1..Len(customer) /\ customer'[j] = customer[j + 0]
        BY <1>0, <3>1
      <4> QED
        BY <4>1, <4>2
    <3>2. CASE customer' = Append(customer, FinishWork)
      <4> DEFINE x == FinishWork
      <4>1. x.src = "finish" /\ x \in Records
        BY LineTyped DEF FinishWork
      <4> HIDE DEF x
      <4>2. customer' = Append(customer, x)
        BY <3>2 DEF x
      <4>3. /\ Len(customer') = Len(customer) + 1 /\ customer'[Len(customer) + 1] = x
            /\ \A i \in 1..Len(customer) : customer'[i] = customer[i]
        BY <1>0, <4>1, <4>2
      <4>4. ~AddsChunk
        <5>1. customer # <<>> => Len(Tail(customer)) = Len(customer) - 1
          BY <1>0
        <5> QED
          BY <1>0, <2>1, <4>3, <5>1
      <4>5. \A j \in 1..Len(customer') : j \in 1..Len(customer) \/ j = Len(customer) + 1
        BY <1>0, <4>3
      <4>6. \A j \in 1..Len(customer') : customer'[j].src \in Streams =>
              j + 0 \in 1..Len(customer) /\ customer'[j] = customer[j + 0]
        BY <1>0, <4>1, <4>3, <4>5, Bounds
      <4> QED
        BY <4>4, <4>6
    <3>3. CASE customer # <<>> /\ customer' = Tail(customer)
      <4>1. \A j \in 1..Len(customer') : j + 1 \in 1..Len(customer) /\ customer'[j] = customer[j + 1]
        BY <1>0, <3>3
      <4>2. 1 \in 1..Len(customer) /\ Head(customer) = customer[1]
        BY <1>0, <3>3
      <4> QED
        BY <4>1, <4>2
    <3> QED
      BY <1>4, <3>1, <3>2, <3>3 DEF Flows
  <2>3. ASSUME NEW s \in Streams, NEW n, Behind(s, n), Below(customer, s, n)
        PROVE  Behind(s, n)' /\ Below(customer, s, n)'
    <3>1. AddsChunk /\ Head(customer).src = s => \A a \in Head(customer).ids : a < n
      BY <2>2, <2>3 DEF Below
    <3>2. Behind(s, n)'
      BY <2>3, <3>1, BehindKept
    <3>3. Below(customer, s, n)'
      BY <2>2, <2>3 DEF Below
    <3> QED
      BY <3>2, <3>3
  <2>4. ASSUME NEW s \in Streams, reading'[s] # 0
        PROVE  Behind(s, reading[s])' /\ Below(customer, s, reading[s])'
    <3>1. PICK c : c = reading[s]
      OBVIOUS
    <3>2. c = reading'[s] /\ Behind(s, c) /\ Below(customer, s, c)
      BY <2>0, <2>4, <3>1 DEF QueueOrder
    <3>3. Behind(s, c)' /\ Below(customer, s, c)'
      BY <2>3, <3>2
    <3> QED
      BY <3>2, <3>3
  <2>5. ASSUME NEW s \in Streams
        PROVE  Behind(s, outputSequence + 1)' /\ Below(customer, s, outputSequence + 1)'
    <3>1. PICK c : c = outputSequence + 1
      OBVIOUS
    <3>2. c = outputSequence' + 1 /\ Behind(s, c) /\ Below(customer, s, c)
      BY <2>0, <3>1 DEF QueueOrder
    <3>3. Behind(s, c)' /\ Below(customer, s, c)'
      BY <2>3, <3>2
    <3> QED
      BY <3>2, <3>3
  <2>6. ASSUME NEW j \in 1..Len(customer'), customer'[j].src \in Streams, NEW c \in customer'[j].ids
        PROVE  /\ Behind(customer[j].src, c)'
               /\ \A i \in 1..Len(customer') : i < j /\ customer'[i].src = customer'[j].src => \A a \in customer'[i].ids : a < c
    <3>1. j + d \in 1..Len(customer) /\ customer'[j] = customer[j + d]
      BY <2>2, <2>6
    <3>2. PICK s \in Streams : s = customer'[j].src
      BY <2>6
    <3>3. /\ Behind(s, c)
          /\ \A i \in 1..Len(customer) : i < j + d /\ customer[i].src = s => \A a \in customer[i].ids : a < c
      BY <2>6, <3>1, <3>2 DEF QueueOrder
    <3>4. AddsChunk /\ Head(customer).src = s => \A a \in Head(customer).ids : a < c
      <4>1. AddsChunk => 1 < j + d
        BY <2>2
      <4> QED
        BY <2>2, <3>3, <4>1
    <3>5. Behind(s, c)'
      BY <3>3, <3>4, BehindKept
    <3>6. Behind(customer[j].src, c)'
      BY <3>2, <3>5
    <3>7. ASSUME NEW i \in 1..Len(customer'), i < j, customer'[i].src = customer'[j].src, NEW a \in customer'[i].ids
          PROVE  a < c
      <4>1. i + d \in 1..Len(customer) /\ customer'[i] = customer[i + d]
        BY <2>2, <2>6, <3>7
      <4>2. i + d < j + d
        BY <3>7
      <4> QED
        BY <3>2, <3>3, <3>7, <4>1, <4>2
    <3> QED
      BY <3>6, <3>7
  <2> QED
    BY <2>4, <2>5, <2>6 DEF QueueOrder
<1> QED
  BY <1>2, <1>3, <1>4, CaptureKinds

(* A chunk has one number.                                                 *)
LEMMA ChunkIds ==
  ASSUME ShippingInv
  PROVE  /\ \A i \in 1..Len(pending) : pending[i].src \in Streams =>
              \E x \in Nat : pending[i].ids = {x}
         /\ \A i \in 1..Len(sink) : sink[i].src \in Streams =>
              \E x \in Nat : sink[i].ids = {x}
<1>1. \A i \in 1..Len(pending) : pending[i].src \in Streams => IsChunk(pending[i])
  BY Bounds DEF ShippingInv, PendingInv, Pendable
<1>2. \A i \in 1..Len(sink) : sink[i].src \in Streams => IsChunk(sink[i])
  BY DEF ShippingInv, SinkInv
<1> QED
  BY <1>1, <1>2 DEF IsChunk

(* No chunk is pending twice.                                              *)
LEMMA ChunksDistinct ==
  ASSUME ShippingInv, PendingOrder, NEW p \in 1..Len(pending), NEW q \in 1..Len(pending),
         pending[p].src \in Streams, pending[p] = pending[q]
  PROVE  p = q
<1>1. PICK x \in Nat : pending[p].ids = {x}
  BY ChunkIds
<1>2. ~(x < x) /\ pending[q].ids = {x} /\ pending[q].src = pending[p].src
  BY <1>1
<1>3. ~(p < q) /\ ~(q < p)
  BY <1>1, <1>2 DEF PendingOrder
<1> QED
  BY <1>3

(* The chunk at the head of the queue is newer than its stream's others.   *)
LEMMA HeadNewest ==
  ASSUME ShippingInv, QueueOrder, AddsChunk, NEW b \in Head(customer).ids
  PROVE  Head(customer).src \in Streams /\ Behind(Head(customer).src, b)
<1>1. 1 \in 1..Len(customer) /\ Head(customer) = customer[1]
  BY DEF AddsChunk, ShippingInv, CaptureInv
<1>2. Head(customer).src \in Streams
  BY DEF AddsChunk, IsChunk
<1> QED
  BY <1>1, <1>2 DEF QueueOrder

(* The order of pending_records.                                           *)
LEMMA PendingOrderNext ==
  ASSUME ShippingInv, QueueOrder, PendingOrder, Next
  PROVE  PendingOrder'
<1>1. PICK f :
        /\ \A i \in 1..Len(pending') : pending'[i].src \in Streams =>
             \/ f[i] \in 1..Len(pending) /\ pending[f[i]] = pending'[i]
             \/ /\ f[i] = 0 /\ AddsChunk /\ pending'[i] = Head(customer)
                /\ \A j \in 1..Len(pending') : pending'[j].src \in Streams => j <= i
        /\ \A i, j \in 1..Len(pending') : i < j /\ f[i] # 0 /\ f[j] # 0 => f[i] < f[j]
  BY PendingMoves
<1>2. ASSUME NEW i \in 1..Len(pending'), NEW j \in 1..Len(pending'), i < j, pending'[i].src \in Streams,
             pending'[i].src = pending'[j].src, NEW a \in pending'[i].ids, NEW b \in pending'[j].ids
      PROVE  a < b
  <2>1. f[i] \in 1..Len(pending) /\ pending[f[i]] = pending'[i]
    BY <1>1, <1>2
  <2>2. CASE f[j] \in 1..Len(pending) /\ pending[f[j]] = pending'[j]
    <3>1. f[i] < f[j]
      BY <1>1, <1>2, <2>1, <2>2
    <3> QED
      BY <1>2, <2>1, <2>2, <3>1 DEF PendingOrder
  <2>3. CASE AddsChunk /\ pending'[j] = Head(customer)
    <3>1. Behind(pending'[j].src, b)
      BY <1>2, <2>3, HeadNewest
    <3> QED
      BY <1>2, <2>1, <3>1 DEF Behind, Below
  <2> QED
    BY <1>1, <1>2, <2>2, <2>3
<1> QED
  BY <1>2 DEF PendingOrder

(* The order of the two lists together.                                    *)
LEMMA ShippedOrderNext ==
  ASSUME ShippingInv, QueueOrder, PendingOrder, ShippedOrder, Next
  PROVE  ShippedOrder'
<1>0. Len(sink) \in Nat /\ Len(pending) \in Nat
  BY DEF ShippingInv, SinkInv, PendingInv
<1>1. \A p \in 1..Len(pending') : pending'[p].src \in Streams =>
        \/ \E q \in 1..Len(pending) : pending[q] = pending'[p]
        \/ AddsChunk /\ pending'[p] = Head(customer)
  BY PendingMoves
<1>2. \A i \in 1..Len(sink) : i \in 1..Len(sink') /\ sink'[i] = sink[i]
  BY SinkMoves
<1>3. ASSUME NEW p \in 1..Len(pending'), NEW i \in 1..Len(sink'), sink'[i].src \in Streams,
             sink'[i].src = pending'[p].src, NEW a \in sink'[i].ids, NEW b \in pending'[p].ids, b < a
      PROVE  \E k \in 1..i : sink'[k] = pending'[p]
  <2>1. CASE AddsChunk /\ pending'[p] = Head(customer)
    <3>1. Behind(pending'[p].src, b) /\ UNCHANGED sink
      BY <1>3, <2>1, HeadNewest DEF AddsChunk
    <3>2. a < b
      BY <1>3, <3>1 DEF Behind, Below
    <3>3. a \in Nat /\ b \in Nat
      <4>1. a \in Nat
        BY <1>3, <3>1, ChunkIds
      <4>2. Head(customer).ids \subseteq Nat
        <5>1. Head(customer) \in Records
          BY <2>1 DEF AddsChunk, ShippingInv, CaptureInv
        <5> QED
          BY <5>1 DEF Records
      <4> QED
        BY <1>3, <2>1, <4>1, <4>2
    <3> QED
      BY <1>3, <3>2, <3>3
  <2>2. ASSUME NEW q \in 1..Len(pending), pending[q] = pending'[p]
        PROVE  \E k \in 1..i : sink'[k] = pending'[p]
    <3>1. CASE i \in 1..Len(sink) /\ sink'[i] = sink[i]
      <4>1. PICK k \in 1..i : sink[k] = pending[q]
        BY <1>3, <2>2, <3>1 DEF ShippedOrder
      <4>2. k \in 1..Len(sink)
        BY <1>0, <3>1
      <4> QED
        BY <1>2, <2>2, <4>1, <4>2
    <3>2. CASE /\ i > Len(sink) /\ i - Len(sink) \in 1..Len(pending) /\ sink'[i] = pending[i - Len(sink)]
               /\ \A j \in 1..(i - Len(sink)) : Len(sink) + j <= i /\ sink'[Len(sink) + j] = pending[j]
      <4> DEFINE m == i - Len(sink)
      <4>1. m \in 1..Len(pending) /\ pending[m].src \in Streams /\ a \in pending[m].ids /\ pending[m].src = pending[q].src
            /\ b \in pending[q].ids
        BY <1>3, <2>2, <3>2
      <4>2. a \in Nat /\ b \in Nat
        BY <2>2, <4>1, ChunkIds
      <4>3. ~(m < q)
        <5>1. m < q => a < b
          BY <2>2, <4>1 DEF PendingOrder
        <5> QED
          BY <1>3, <4>2, <5>1
      <4>4. m # q
        BY <1>3, <4>1, <4>2, ChunkIds
      <4>5. q \in 1..m
        BY <1>0, <4>1, <4>3, <4>4
      <4>6. Len(sink) + q \in 1..i /\ sink'[Len(sink) + q] = pending[q]
        BY <1>0, <3>2, <4>5
      <4> QED
        BY <2>2, <4>6
    <3> QED
      BY <1>3, <3>1, <3>2, SinkMoves
  <2> QED
    BY <1>1, <1>3, <2>1, <2>2
<1> QED
  BY <1>3 DEF ShippedOrder

(* What is both pending and stored.                                        *)
LEMMA ShippedOnceNext ==
  ASSUME ShippingInv, QueueOrder, PendingOrder, ShippedOnce, Next
  PROVE  ShippedOnce'
<1>0. Len(sink) \in Nat /\ Len(pending) \in Nat /\ Len(batch.records) \in Nat
  BY DEF ShippingInv, SinkInv, PendingInv, BatchInv
<1>1. SUFFICES ASSUME ~lost', NEW p \in 1..Len(pending'), NEW i \in 1..Len(sink'), sink'[i].src \in Streams,
                      sink'[i] = pending'[p]
               PROVE  pc' = "resume" /\ p <= Len(batch'.records)
  BY DEF ShippedOnce
<1>2. ASSUME ~lost, NEW q \in 1..Len(pending), NEW k \in 1..Len(sink), sink[k].src \in Streams, sink[k] = pending[q]
      PROVE  pc = "resume" /\ q <= Len(batch.records)
  BY <1>2 DEF ShippedOnce
<1>3. \/ i \in 1..Len(sink) /\ sink'[i] = sink[i]
      \/ /\ Stores /\ i - Len(sink) \in 1..Len(batch.records)
         /\ i - Len(sink) \in 1..Len(pending) /\ sink'[i] = pending[i - Len(sink)]
  BY <1>1, SinkMoves
<1>4. CASE Quiet
  <2>1. UNCHANGED <<sink, lost>> /\ (pc = "resume" => pc' = "resume") /\ i \in 1..Len(sink) /\ sink[i] = pending'[p]
        /\ (pc' = "resume" => UNCHANGED <<pending, batch>>)
    BY <1>1, <1>4 DEF Quiet
  <2>2. \/ \E q \in 1..Len(pending) : pending[q] = pending'[p]
        \/ AddsChunk /\ pending'[p] = Head(customer)
    BY <1>1, PendingMoves
  <2>3. CASE AddsChunk /\ pending'[p] = Head(customer)
    <3>1. PICK x \in Nat : sink[i].ids = {x}
      BY <1>1, <2>1, ChunkIds
    <3>2. Behind(pending'[p].src, x)
      BY <2>1, <2>3, <3>1, HeadNewest
    <3>3. x < x
      BY <2>1, <3>1, <3>2 DEF Behind, Below
    <3> QED
      BY <3>1, <3>3
  <2>4. CASE \E q \in 1..Len(pending) : pending[q] = pending'[p]
    <3>1. pc = "resume"
      BY <1>1, <1>2, <2>1, <2>4
    <3>2. pc' = "resume" /\ UNCHANGED <<pending, batch>>
      BY <2>1, <3>1
    <3>3. p <= Len(batch.records)
      BY <1>1, <1>2, <2>1, <3>2
    <3> QED
      BY <3>2, <3>3
  <2> QED
    BY <2>2, <2>3, <2>4
<1>5. CASE Foreigns
  <2>1. UNCHANGED <<pc, pending, batch, lost>> /\ ~Stores
    BY <1>1, <1>5 DEF Foreigns, Stores, Ships
  <2> QED
    BY <1>1, <1>2, <1>3, <2>1
<1>6. ASSUME Ships
      PROVE  /\ p + Len(batch.records) \in 1..Len(pending)
             /\ pending'[p] = pending[p + Len(batch.records)] /\ ~(p + Len(batch.records) <= Len(batch.records))
  <2>1. /\ Len(pending') = Len(pending) - Len(batch.records)
        /\ pending'[p] = pending[p + Len(batch.records)]
    BY <1>1, <1>6, ShipShape DEF Shifted, ShippingInv
  <2> QED
    BY <1>0, <1>1, <2>1
<1>7. CASE Replays
  <2>1. UNCHANGED <<sink, lost>> /\ Ships
    BY <1>7 DEF Replays
  <2> QED
    BY <1>1, <1>2, <1>6, <2>1
<1>8. CASE Stores
  <2>1. pc = "post" /\ UNCHANGED lost
    BY <1>1, <1>8 DEF Stores
  <2>2. ASSUME NEW q \in 1..Len(pending), pending[q] = pending'[p]
        PROVE  q \in 1..Len(batch.records)
    <3>1. ~(i \in 1..Len(sink) /\ sink'[i] = sink[i])
      BY <1>1, <1>2, <2>1, <2>2
    <3>2. /\ i - Len(sink) \in 1..Len(batch.records)
          /\ i - Len(sink) \in 1..Len(pending) /\ sink'[i] = pending[i - Len(sink)]
      BY <1>3, <3>1
    <3>3. q = i - Len(sink)
      BY <1>1, <2>2, <3>2, ChunksDistinct
    <3> QED
      BY <3>2, <3>3
  <2>3. CASE Ships
    <3>1. p + Len(batch.records) \in 1..Len(batch.records)
      BY <1>6, <2>2, <2>3
    <3> QED
      BY <1>0, <1>6, <2>3, <3>1
  <2>4. CASE UNCHANGED <<pending, batch>> /\ pc' = "resume"
    <3>1. p \in 1..Len(batch.records)
      BY <1>1, <2>2, <2>4
    <3> QED
      BY <1>0, <2>4, <3>1
  <2> QED
    BY <1>1, <1>8, <2>3, <2>4 DEF Stores
<1> QED
  BY <1>4, <1>5, <1>7, <1>8, SinkKinds DEF ShippingInv

(* The order of the sink.                                                  *)
LEMMA SinkOrderNext ==
  ASSUME ShippingInv, PendingOrder, ShippedOrder, ShippedOnce, InOrder, CustomerOnce, Next
  PROVE  InOrder' /\ CustomerOnce'
<1>0. Len(sink) \in Nat /\ Len(pending) \in Nat
  BY DEF ShippingInv, SinkInv, PendingInv
<1> DEFINE Old(i) == i \in 1..Len(sink) /\ sink'[i] = sink[i]
           New(i) == Stores /\ i > Len(sink) /\ i - Len(sink) \in 1..Len(pending) /\ sink'[i] = pending[i - Len(sink)]
<1>1. \A i \in 1..Len(sink') : sink'[i].src \in Streams => Old(i) \/ New(i)
  BY SinkMoves
<1>2. \A i \in 1..Len(sink) : i \in 1..Len(sink') /\ sink'[i] = sink[i]
  BY SinkMoves
<1>3. ASSUME NEW i \in 1..Len(sink'), NEW j \in 1..Len(sink'), i < j, sink'[i].src \in Streams,
             sink'[i].src = sink'[j].src, NEW a \in sink'[i].ids, NEW b \in sink'[j].ids, b < a
      PROVE  \E k \in 1..i : sink'[k] = sink'[j]
  <2>1. ASSUME Old(i), \E k \in 1..i : sink[k] = sink'[j]
        PROVE  \E k \in 1..i : sink'[k] = sink'[j]
    <3>1. \A k \in 1..i : k \in 1..Len(sink)
      BY <1>0, <2>1
    <3> QED
      BY <1>2, <2>1, <3>1
  <2>2. CASE Old(i) /\ Old(j)
    <3>1. \E k \in 1..i : sink[k] = sink[j]
      BY <1>3, <2>2 DEF InOrder
    <3> QED
      BY <2>1, <2>2, <3>1
  <2>3. CASE Old(i) /\ New(j)
    <3>1. \E k \in 1..i : sink[k] = pending[j - Len(sink)]
      BY <1>3, <2>3 DEF ShippedOrder
    <3> QED
      BY <2>1, <2>3, <3>1
  <2>4. CASE New(i) /\ New(j)
    <3>1. i - Len(sink) < j - Len(sink)
      BY <1>0, <1>3, <2>4
    <3>2. a < b
      BY <1>3, <2>4, <3>1 DEF PendingOrder
    <3>3. a \in Nat /\ b \in Nat
      BY <1>3, <2>4, ChunkIds
    <3> QED
      BY <1>3, <3>2, <3>3
  <2>5. ~(New(i) /\ Old(j))
    BY <1>0, <1>3
  <2> QED
    BY <1>1, <1>3, <2>2, <2>3, <2>4, <2>5
<1>4. ASSUME ~lost', NEW i \in 1..Len(sink'), NEW j \in 1..Len(sink'), i # j, sink'[i].src \in Streams,
             sink'[i] = sink'[j]
      PROVE  FALSE
  <2>1. ~lost
    BY <1>4, SinkKinds DEF ShippingInv, Stores, Replays, Foreigns, Quiet
  <2>2. ~(Old(i) /\ Old(j))
    BY <1>4, <2>1 DEF CustomerOnce
  <2>3. ASSUME NEW k, NEW l, Old(k), New(l), sink'[k] = sink'[l], sink'[k].src \in Streams PROVE FALSE
    <3>1. pc # "resume"
      BY <2>3 DEF Stores
    <3> QED
      BY <2>1, <2>3, <3>1 DEF ShippedOnce
  <2>4. ~(New(i) /\ New(j))
    <3>1. SUFFICES ASSUME New(i), New(j) PROVE FALSE
      OBVIOUS
    <3>2. i - Len(sink) = j - Len(sink)
      BY <1>4, <3>1, ChunksDistinct
    <3> QED
      BY <1>0, <1>4, <3>1, <3>2
  <2> QED
    BY <1>1, <1>4, <2>2, <2>3, <2>4
<1> QED
  BY <1>3, <1>4 DEF InOrder, CustomerOnce

(* The order holds initially and every step keeps it.                      *)
LEMMA OrderAlways == Spec => []OrderInv
<1>1. ASSUME Init PROVE OrderInv
  <2>1. Len(customer) = 0 /\ Len(pending) = 0 /\ Len(sink) = 0 /\ \A s \in Streams : reading[s] = 0
    BY <1>1 DEF Init
  <2>2. QueueOrder
    BY <2>1 DEF QueueOrder, Behind, Below
  <2> QED
    BY <2>1, <2>2 DEF OrderInv, PendingOrder, ShippedOrder, ShippedOnce, InOrder, CustomerOnce
<1>2. ASSUME ShippingInv, OrderInv, [Next]_vars PROVE OrderInv'
  <2>1. CASE Next
    <3>1. QueueOrder /\ PendingOrder /\ ShippedOrder /\ ShippedOnce /\ InOrder /\ CustomerOnce
      BY <1>2 DEF OrderInv
    <3>2. QueueOrder' /\ PendingOrder' /\ ShippedOrder' /\ ShippedOnce'
      BY <1>2, <2>1, <3>1, QueueOrderNext, PendingOrderNext, ShippedOrderNext, ShippedOnceNext
    <3>3. InOrder' /\ CustomerOnce'
      BY <1>2, <2>1, <3>1, SinkOrderNext
    <3> QED
      BY <3>2, <3>3 DEF OrderInv
  <2>2. CASE UNCHANGED vars
    <3> USE <1>2, <2>2 DEF vars, capture, queues, shipping, remote, OrderInv
    <3>1. QueueOrder'
      BY DEF QueueOrder, Behind, Below
    <3>2. PendingOrder' /\ ShippedOrder' /\ ShippedOnce'
      BY DEF PendingOrder, ShippedOrder, ShippedOnce
    <3>3. InOrder' /\ CustomerOnce'
      BY DEF InOrder, CustomerOnce
    <3> QED
      BY <3>1, <3>2, <3>3
  <2> QED
    BY <1>2, <2>1, <2>2
<1> QED
  BY <1>1, <1>2, ShippingAlways, PTL DEF Spec

(* Customer output goes before the provider's, reaches the sink in the     *)
(* order it was read, and once unless an accepted batch went               *)
(* unacknowledged, whatever is retried, rebased, rebuilt or written by     *)
(* another process.                                                        *)
THEOREM CustomerGoesFirst == Spec => []CustomerOrdered
<1>1. ASSUME ShippingInv PROVE CustomerFirst
  <2>1. \A i, j \in 1..Len(pending) :
          i < j /\ Origin(pending[j]) = "customer" => Origin(pending[i]) = "customer"
    BY <1>1 DEF ShippingInv, PendingInv
  <2>2. ASSUME batch # NoBatch, Origin(Head(batch.records)) = "runtime_ssh", NEW r \in ToSet(pending),
               Origin(r) = "customer"
        PROVE  r.evidence
    <3>0. /\ pending \in Seq(Records) /\ Len(pending) \in Nat
          /\ batch.records \in Seq(Records) /\ Len(batch.records) >= 1 /\ Len(batch.records) \in Nat
      BY <1>1, <2>2 DEF ShippingInv, PendingInv, BatchInv
    <3>1. PICK j \in 1..Len(pending) : r = pending[j]
      BY <3>0 DEF ToSet
    <3>2. Origin(batch.records[1]) = "runtime_ssh"
      BY <2>2, <3>0
    <3>3. ASSUME NEW k \in {0, 1}, Carries(k) PROVE j <= k
      <4>1. k + 1 \in 1..Len(pending) /\ pending[1 + k] = batch.records[1] /\ 1 + k = k + 1
        BY <3>0, <3>3 DEF Carries
      <4>2. Origin(pending[k + 1]) # "customer"
        BY <3>2, <4>1
      <4>3. ~(k + 1 < j) /\ k + 1 # j
        BY <2>1, <2>2, <3>1, <4>1, <4>2
      <4> QED
        BY <3>1, <4>1, <4>3
    <3>4. ~Carries(0)
      BY <3>1, <3>3
    <3>5. Carries(1) /\ pending[1].evidence
      BY <1>1, <2>2, <3>4 DEF ShippingInv, BatchInv
    <3>6. j = 1
      BY <3>1, <3>3, <3>5
    <3> QED
      BY <3>1, <3>5, <3>6
  <2> QED
    BY <2>1, <2>2 DEF CustomerFirst
<1>2. ShippingInv /\ OrderInv => CustomerOrdered
  BY <1>1 DEF OrderInv, CustomerOrdered
<1> QED
  BY <1>2, ShippingAlways, OrderAlways, PTL
=============================================================================
