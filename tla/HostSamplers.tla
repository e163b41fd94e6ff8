---------------------------- MODULE HostSamplers ----------------------------
(***************************************************************************)
(* The thermal and memory samplers of src/src/thermal.rs and memory.rs:    *)
(* one reader thread behind two channels of capacity one, asked once per   *)
(* beat by a supervisor that waits a bounded time, and what a read makes   *)
(* of the host.  A read may hang for ever and the thread may die.          *)
(*                                                                         *)
(* A host is either a list of thermal zones [kind, millic], where the kind *)
(* is the group of the zone's type, "other", "denied" or "unparsed"; or    *)
(* /proc, where a process (numbered in the order of the listing, without   *)
(* the supervisor) has a parent, a group, its VmRSS and VmHWM (-1: no such *)
(* line) and how its status file answers.                                  *)
(***************************************************************************)
EXTENDS Integers, Sequences, FiniteSets, FiniteSetsExt

CONSTANTS
  Hosts,       \* the hosts a behaviour may run on
  MaxBeats,    \* bound on the samples asked for
  MaxZones,    \* MAX_ZONES
  MaxPids,     \* MAX_PROCESSES
  MaxWire,     \* i32::MAX
  Sentinel     \* SENSOR_SENTINEL_CEILING

ASSUME SamplersAssumption ==
  /\ MaxBeats \in Nat /\ MaxZones \in Nat /\ MaxWire \in Nat /\ Sentinel \in Int

VARIABLES
  host,
  beat,         \* samples asked for so far; a request is the number of its beat
  caller,       \* "idle", or where the supervisor is in sample_within
  worker,       \* the supervisor still holds its Worker
  outstanding,  \* Worker.outstanding
  requests,     \* the request channel
  thread,       \* the request being read, or Waiting or Dead
  replies,      \* the reply channel
  sampled       \* what the last sample returned

samplerVars == <<host, beat, caller, worker, outstanding, requests, thread, replies, sampled>>

Unread == [beat |-> 0, tree |-> FALSE, summary |-> <<>>]
Waiting == [beat |-> 0, tree |-> FALSE]
Dead == [beat |-> 0, tree |-> TRUE]
-----------------------------------------------------------------------------
(* thermal.rs *)
Groups == {"cpu", "gpu", "battery", "qcom_battery", "skin", "package", "ddr", "charger"}

\* raise of the zone's slot; a sentinel or a zone of no group raises none.
Raise(slots, zone) ==
  IF zone.kind \in Groups /\ zone.millic > Sentinel
  THEN [slots EXCEPT ![zone.kind] = IF @ = <<>> \/ @[1] < zone.millic THEN <<zone.millic>> ELSE @]
  ELSE slots

\* The zones that read_summary takes, the first of the listing.
ZonesTaken(h) == IF Len(h.zones) < MaxZones THEN Len(h.zones) ELSE MaxZones

\* The slots after each of these zones.
GroupMaxima(h) ==
  LET upTo[n \in 0..ZonesTaken(h)] ==
        IF n = 0 THEN [g \in Groups |-> <<>>] ELSE Raise(upTo[n - 1], h.zones[n])
  IN upTo

\* summarize over them.
ThermalSummary(h) ==
  LET slots == GroupMaxima(h)[ZonesTaken(h)]
      of(ks) == Cardinality({i \in 1..ZonesTaken(h) : h.zones[i].kind \in ks})
  IN IF ~h.listed THEN <<>>
     ELSE <<[slots |-> [slots EXCEPT !["battery"] = IF @ # <<>> THEN @ ELSE slots["qcom_battery"]],
             zones |-> of(Groups \cup {"other"}),
             denied |-> of({"denied"}) + h.unlisted]>>
-----------------------------------------------------------------------------
(* memory.rs *)
\* wire_kib: a value outside the wire's range is null.
Wire(v) == IF v \in 0..MaxWire THEN v ELSE -1
Nulls(vs) == Cardinality({i \in DOMAIN vs : Wire(vs[i]) = -1})

\* walk: the listing, then the status files in its order until the deadline.
StatusReached(h) == {p \in DOMAIN h.table : p <= h.reads}
OverBudget(h) == Len(h.table) > MaxPids \/ StatusReached(h) # DOMAIN h.table
StatusRead(h) == {p \in DOMAIN h.table : h.table[p].status = "read"}
WalkDenied(h) ==
  h.unlisted + (IF Len(h.table) > MaxPids THEN 0
                ELSE Cardinality({p \in StatusReached(h) : h.table[p].status = "denied"}))

\* tree: the root and its group, and then children until none is added.
Grown(h) ==
  LET ps == StatusRead(h)
      grown[n \in 0..Cardinality(ps)] ==
        IF n = 0 THEN {p \in ps : p = h.root \/ h.table[p].group = h.root}
        ELSE grown[n - 1] \cup {p \in ps : h.table[p].parent \in grown[n - 1]}
  IN grown
Tree(h) == Grown(h)[Cardinality(StatusRead(h))]

RssOf(h, ps) == MapThenSumSet(LAMBDA p : IF h.table[p].rss < 0 THEN 0 ELSE h.table[p].rss, ps)

\* read_workload: <<rss, peak, denials>>.
ReadWorkload(h) ==
  LET rss == RssOf(h, Tree(h))
      peak == Max({h.table[p].peak : p \in Tree(h)} \cup {-1})
  IN IF ~h.listed THEN <<-1, -1, 1>>
     ELSE IF OverBudget(h) THEN <<-1, -1, WalkDenied(h) + 1>>
     ELSE IF h.root \notin StatusRead(h) \/ h.table[h.root].rss < 0 THEN <<-1, -1, WalkDenied(h)>>
     ELSE <<Wire(rss), Wire(peak), WalkDenied(h) + Nulls(<<rss, peak>>)>>

\* read_summary_by; <<>> is a meminfo that cannot be read.
MemorySummary(h, tree) ==
  LET workload == IF tree THEN ReadWorkload(h) ELSE <<-1, -1, 0>>
  IN [device |-> [i \in DOMAIN h.meminfo |-> Wire(h.meminfo[i])],
      rss |-> workload[1], peak |-> workload[2],
      denied |-> workload[3] + (IF h.meminfo = <<>> THEN 1 ELSE Nulls(h.meminfo))]

\* What the listings and the files of a host parse to.
IsHost(h) ==
  /\ h.unlisted \in Nat
  /\ IF h.kind = "thermal"
     THEN h.zones \in Seq([kind : Groups \cup {"other", "denied", "unparsed"}, millic : Int])
     ELSE /\ h.meminfo \in Seq(Int)
          /\ h.table \in Seq([parent : Int, group : Int, status : {"read", "gone", "denied"},
                              rss : Int, peak : Int])

ASSUME HostsAssumption == Hosts # {} /\ \A h \in Hosts : IsHost(h)
-----------------------------------------------------------------------------
(* The sampler: both files have the same one. *)
SamplersInit(hosts, beats) ==
  /\ host \in hosts
  /\ beat = beats /\ caller = "idle" /\ outstanding = FALSE
  /\ worker \in BOOLEAN                        \* FALSE: the thread was not spawned
  /\ requests = <<>> /\ replies = <<>>
  /\ thread = IF worker THEN Waiting ELSE Dead
  /\ sampled = Unread

\* sample: a health beat asks for the customer's tree, an exit report does not.
Sample ==
  /\ caller = "idle" /\ beat < MaxBeats
  /\ beat' = beat + 1
  /\ sampled' = Unread
  /\ caller' = IF ~worker THEN "idle" ELSE IF outstanding THEN "drain" ELSE "send"
  /\ UNCHANGED <<host, worker, outstanding, requests, thread, replies>>

\* sample_within returns without a summary; a disconnected worker is dropped.
Fails(alive) == caller' = "idle" /\ worker' = alive /\ sampled' = Unread

\* try_recv: a late reply is dropped.
Drain ==
  /\ caller = "drain"
  /\ \/ /\ replies # <<>>
        /\ replies' = <<>> /\ outstanding' = FALSE /\ caller' = "send"
        /\ UNCHANGED <<worker, sampled>>
     \/ /\ replies = <<>>
        /\ Fails(thread # Dead)
        /\ UNCHANGED <<replies, outstanding>>
  /\ UNCHANGED <<host, beat, requests, thread>>

\* try_send
Send ==
  /\ caller = "send"
  /\ \/ /\ thread # Dead /\ requests = <<>>
        /\ \E tree \in BOOLEAN : requests' = <<[beat |-> beat, tree |-> tree]>>
        /\ caller' = "wait"
        /\ UNCHANGED <<worker, sampled>>
     \/ /\ thread = Dead \/ requests # <<>>
        /\ Fails(thread # Dead)
        /\ UNCHANGED requests
  /\ UNCHANGED <<host, beat, outstanding, thread, replies>>

\* recv_timeout: a reply, or the end of the budget, or a dead thread.
Receive ==
  /\ caller = "wait"
  /\ \/ /\ replies # <<>>
        /\ sampled' = replies[1] /\ replies' = <<>> /\ caller' = "idle"
        /\ UNCHANGED <<worker, outstanding>>
     \/ /\ replies = <<>>
        /\ Fails(thread # Dead)
        /\ outstanding' = (thread # Dead)
        /\ UNCHANGED replies
  /\ UNCHANGED <<host, beat, requests, thread>>

\* The thread takes a request, reads, and sends its reply when there is room.
TakeRequest ==
  /\ thread = Waiting /\ requests # <<>>
  /\ thread' = requests[1] /\ requests' = <<>>
  /\ UNCHANGED <<host, beat, caller, worker, outstanding, replies, sampled>>

ReplySummary ==
  /\ thread \notin {Waiting, Dead} /\ replies = <<>>
  /\ replies' = <<[beat |-> thread.beat, tree |-> thread.tree,
                  summary |-> IF host.kind = "thermal" THEN ThermalSummary(host)
                              ELSE MemorySummary(host, thread.tree)]>>
  /\ thread' = Waiting
  /\ UNCHANGED <<host, beat, caller, worker, outstanding, requests, sampled>>

\* The thread panics in a read: both channels are disconnected.
ThreadDies ==
  /\ thread \notin {Waiting, Dead}
  /\ thread' = Dead
  /\ UNCHANGED <<host, beat, caller, worker, outstanding, requests, replies, sampled>>

SamplersCaller == Drain \/ Send \/ Receive
SamplersNext == Sample \/ SamplersCaller \/ TakeRequest \/ ReplySummary \/ ThreadDies

\* The supervisor's waits are timed; the thread may hang in a read.
SamplersFairness == WF_samplerVars(SamplersCaller)
-----------------------------------------------------------------------------
(* A sample that is returned is of the beat that asked for it, whatever was *)
(* late or hung before, and at most one read is in flight, so that a hung   *)
(* sensor costs one thread: Worker::sample_within, thermal.rs, memory.rs.   *)
InFlight == Len(requests) + Len(replies) + (IF thread \in {Waiting, Dead} THEN 0 ELSE 1)
SampleFresh ==
  /\ sampled.beat # 0 /\ caller = "idle" => sampled.beat = beat
  /\ InFlight <= 1

\* A thermal group is the hottest of its zones that no sentinel replaces,
\* whatever their order; memory is that of the smallest set of processes
\* that holds the root and its group and every child of a member.
Measured(h, g) ==
  {h.zones[i].millic : i \in {j \in 1..ZonesTaken(h) : h.zones[j].kind = g /\ h.zones[j].millic > Sentinel}}
ThermalExact(h, summary) ==
  \A s \in {summary[i] : i \in DOMAIN summary} :
    /\ \A g \in Groups \ {"battery"} :
         s.slots[g] = IF Measured(h, g) = {} THEN <<>> ELSE <<Max(Measured(h, g))>>
    /\ Measured(h, "battery") # {} => s.slots["battery"] = <<Max(Measured(h, "battery"))>>
    /\ s.zones + s.denied <= ZonesTaken(h) + h.unlisted

\* A set of processes that holds the root, its group and every child of a
\* member.
ClosedTree(h, S) ==
  \A p \in StatusRead(h) :
    p = h.root \/ h.table[p].group = h.root \/ h.table[p].parent \in S => p \in S
LeastTree(h) ==
  CHOOSE S \in SUBSET StatusRead(h) :
    ClosedTree(h, S) /\ \A R \in SUBSET StatusRead(h) : ClosedTree(h, R) => S \subseteq R
MemoryExact(h, summary) ==
  summary.rss # -1 =>
    /\ summary.rss = RssOf(h, LeastTree(h))
    /\ summary.peak = -1 => summary.denied > 0
    /\ \A p \in LeastTree(h) : summary.peak # -1 => h.table[p].peak <= summary.peak

(* Samples are fresh and say what the host shows.                           *)
SamplesExact ==
  /\ SampleFresh
  /\ sampled.beat # 0 =>
       IF host.kind = "thermal" THEN ThermalExact(host, sampled.summary) ELSE MemoryExact(host, sampled.summary)

\* A supervisor inside sample_within.
SamplerPending == caller # "idle"
=============================================================================
