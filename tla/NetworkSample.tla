---------------------------- MODULE NetworkSample ---------------------------
(***************************************************************************)
(* One authorized network sample: collect_sample and collect_bounded of    *)
(* src/src/network_sample.rs over the transport of network_sample/         *)
(* transport.rs, the contract of network_sample_contract.rs it is checked  *)
(* against, and the inbound check that follows (inbound_reachability.rs).  *)
(* Time is in seconds.  A stage may be stalled past its own timeout, and   *)
(* the whole sample is cancelled at its budget.                            *)
(***************************************************************************)
EXTENDS Naturals, Sequences, FiniteSets

CONSTANTS
  Durations,   \* bound: the times a stage may take
  Packets      \* bound: datagrams of the UDP leg

ASSUME SampleAssumption == Durations \subseteq Nat

Budget == 30
UdpSeconds == 3
ReceiptBy == 29

\* The ladder of NetworkLegId, its timeouts and what each leg waits for.
LegLadder == <<"down1", "up1", "down10", "up10", "down100">>
LegTimeout == [down1 |-> 4, up1 |-> 4, down10 |-> 8, up10 |-> 8, down100 |-> 12]
Precursor == [down1 |-> "none", up1 |-> "none", down10 |-> "down1", up10 |-> "up1", down100 |-> "down10"]

VARIABLES
  part,      \* the stage: "prepare", "udp", "legs", "receipt", "inbound", "over"
  rung,      \* the rung of the ladder that is next
  elapsed,   \* elapsed_us, held at the budget
  reach,     \* [addr4, v4, v6, client]: what answered
  sent,      \* UDP: the datagrams sent, "in" time or "late"
  echoed,    \* UDP: the datagrams echoed
  udpAt,     \* UDP: [start, clock] of the leg
  udp,       \* the UDP record, "none" before it is made
  legs,      \* the legs recorded
  receipt,   \* "none", "unavailable" or the prober's [agrees]
  sampleMs,  \* duration_ms
  inbound    \* the verdicts carried, [family, over]; none: no block

sampleVars == <<part, rung, elapsed, reach, sent, echoed, udpAt, udp, legs, receipt,
                sampleMs, inbound>>

Capped(t) == IF t > Budget THEN Budget ELSE t
Earlier(a, b) == IF a < b THEN a ELSE b
SkippedUdp(t) == [status |-> "skipped", start |-> t, dur |-> 0, sent |-> <<>>, echoes |-> {}]

SampleInit(first) ==
  /\ part = first
  /\ rung = 1
  /\ elapsed = 0
  /\ reach = [addr4 |-> FALSE, v4 |-> FALSE, v6 |-> FALSE, client |-> FALSE]
  /\ sent = <<>>
  /\ echoed = {}
  /\ udpAt = [start |-> 0, clock |-> 0]
  /\ udp = SkippedUdp(0)
  /\ legs = <<>>
  /\ receipt = "none"
  /\ sampleMs = 0
  /\ inbound = <<>>

\* prepare: the lookups, then one health check per family; the UDP leg runs
\* only when three seconds and the receipt's one are left.
Prepare ==
  /\ part = "prepare"
  /\ \E d \in {0, 2, Budget - UdpSeconds}, v4, v6 \in BOOLEAN :
       /\ elapsed' = Capped(elapsed + d)
       /\ \E a \in BOOLEAN : reach' = [addr4 |-> a \/ v4, v4 |-> v4, v6 |-> v6, client |-> v4 \/ v6]
       /\ udp' = SkippedUdp(elapsed')
       /\ udpAt' = [start |-> elapsed', clock |-> 0]
       /\ part' = IF elapsed' + UdpSeconds <= ReceiptBy THEN "udp" ELSE "legs"
  /\ UNCHANGED <<rung, sent, echoed, legs, receipt, sampleMs, inbound>>

\* The UDP loop: time passes, possibly beyond its stop.
UdpWaits ==
  /\ part = "udp"
  /\ reach.addr4
  /\ udpAt.clock < UdpSeconds
  /\ \E d \in 1..UdpSeconds : udpAt' = [udpAt EXCEPT !.clock = @ + d]
  /\ UNCHANGED <<part, rung, elapsed, reach, sent, echoed, udp, legs, receipt, sampleMs, inbound>>

\* A datagram falls due.  The loop picks at random among what is ready, so
\* past its stop it may still send; sent_us is then held at the stop.
UdpSends ==
  /\ part = "udp"
  /\ reach.addr4
  /\ Len(sent) < Packets
  /\ udpAt.clock >= Len(sent)
  /\ sent' = Append(sent, IF udpAt.clock >= UdpSeconds THEN "late" ELSE "in")
  /\ UNCHANGED <<part, rung, elapsed, reach, echoed, udpAt, udp, legs, receipt, sampleMs, inbound>>

\* An echo counts once, of a datagram that was sent, whatever its order.
UdpEchoes ==
  /\ part = "udp"
  /\ \E n \in 1..Len(sent) : n \notin echoed /\ echoed' = echoed \cup {n}
  /\ UNCHANGED <<part, rung, elapsed, reach, sent, udpAt, udp, legs, receipt, sampleMs, inbound>>

\* The end of the UDP leg: its stop, a socket error, or no IPv4 address.
UdpEnds ==
  /\ part = "udp"
  /\ udp' = [status |-> IF echoed # {} THEN "succeeded" ELSE "unreachable",
             start |-> udpAt.start, dur |-> Earlier(udpAt.clock, UdpSeconds),
             sent |-> sent, echoes |-> echoed]
  /\ elapsed' = Capped(elapsed + udpAt.clock)
  /\ part' = "legs"
  /\ sent' = <<>>
  /\ echoed' = {}
  /\ udpAt' = [start |-> 0, clock |-> 0]
  /\ UNCHANGED <<rung, reach, legs, receipt, sampleMs, inbound>>

LegOf(id) == {n \in 1..Len(legs) : legs[n].id = id}

\* Whether a leg's precursor went well enough: four megabits for the ten
\* megabyte legs (two seconds of one megabyte), four seconds for the largest.
Eligible(id) ==
  Precursor[id] = "none"
    \/ \E n \in LegOf(Precursor[id]) :
         /\ legs[n].status = "succeeded"
         /\ legs[n].dur > 0
         /\ IF id = "down100" THEN legs[n].dur < 4 ELSE legs[n].dur <= 2

Record(id, status, dur, whole) ==
  [id |-> id, status |-> status, start |-> elapsed, dur |-> dur, whole |-> whole]

\* transfer: without a client nothing was tried; else the leg succeeds within
\* its timeout, or it fails, or it is dropped at the timeout with bytes in
\* flight, its duration held at the timeout even when it was stalled.
Transfers(id, d) ==
  IF ~reach.client THEN {Record(id, "unreachable", 0, FALSE)}
  ELSE {Record(id, "failed", Earlier(d, LegTimeout[id]), FALSE)}
         \cup {r \in {Record(id, "succeeded", d, TRUE)} : d <= LegTimeout[id]}

\* Mutant: a leg starts whenever the budget is not used up.
RunLegLate ==
  /\ part = "legs"
  /\ LET id == LegLadder[rung] IN
     \/ ~Eligible(id) /\ UNCHANGED <<legs, elapsed>>
     \/ /\ Eligible(id)
        /\ \E d \in IF reach.client THEN Durations ELSE {0} :
             /\ elapsed' = Capped(elapsed + d)
             /\ \E leg \in Transfers(id, d) : legs' = Append(legs, leg)
  /\ part' = IF rung = Len(LegLadder) THEN "receipt" ELSE part
  /\ rung' = rung + 1
  /\ UNCHANGED <<reach, sent, echoed, udpAt, udp, receipt, sampleMs, inbound>>

\* One rung of the ladder: its precursor was too slow, no time is left before
\* the receipt's second, or its transfer.
RunLeg ==
  /\ part = "legs"
  /\ LET id == LegLadder[rung] IN
     \/ ~Eligible(id) /\ UNCHANGED <<legs, elapsed>>
     \/ /\ Eligible(id)
        /\ elapsed + LegTimeout[id] > ReceiptBy
        /\ legs' = Append(legs, Record(id, "skipped", 0, FALSE))
        /\ UNCHANGED elapsed
     \/ /\ Eligible(id)
        /\ elapsed + LegTimeout[id] <= ReceiptBy
        /\ \E d \in IF reach.client THEN Durations ELSE {0} :
             /\ elapsed' = Capped(elapsed + d)
             /\ \E leg \in Transfers(id, d) : legs' = Append(legs, leg)
  /\ part' = IF rung = Len(LegLadder) THEN "receipt" ELSE part
  /\ rung' = rung + 1
  /\ UNCHANGED <<reach, sent, echoed, udpAt, udp, receipt, sampleMs, inbound>>

-----------------------------------------------------------------------------
\* NetworkSampleV1::validate, without its receipt: the shape and the times.
ShapeValid(u, ls, duration) ==
  /\ Cardinality({n \in 1..Len(u.sent) : u.sent[n] = "late"}) <= 1
  /\ u.echoes \subseteq 1..Len(u.sent)
  /\ u.status = "succeeded" => u.echoes # {}
  /\ u.status = "skipped" => u.sent = <<>>
  /\ u.dur <= UdpSeconds
  /\ u.start + u.dur <= duration
  /\ \A n \in 1..Len(ls) :
       /\ ls[n].dur <= LegTimeout[ls[n].id]
       /\ ls[n].start + ls[n].dur <= duration
       /\ ls[n].start >= u.start + u.dur
       /\ ls[n].status = "succeeded" => ls[n].whole
       /\ ls[n].status = "skipped" => ls[n].dur = 0 /\ ~ls[n].whole
       /\ n < Len(ls) => ls[n].start + ls[n].dur <= ls[n + 1].start
       /\ LET prior == Precursor[ls[n].id] IN
          prior # "none" =>
            \E m \in 1..(n - 1) : /\ ls[m].id = prior
                                  /\ ls[m].status = "succeeded"
                                  /\ ls[m].dur > 0
                                  /\ IF ls[n].id = "down100" THEN ls[m].dur < 4 ELSE ls[m].dur <= 2

\* receipt: what the prober accounts for against the legs, if it answers.
Receipts == IF reach.client THEN {"agrees", "differs", "unavailable"} ELSE {"unavailable"}

\* The receipt, the metrics, and the check that drops a receipt the legs do
\* not agree with: a transfer dropped at its timeout may still be counted.
TakeReceipt ==
  /\ part = "receipt"
  /\ \E d \in {0, 1} :
       /\ elapsed' = IF elapsed <= ReceiptBy THEN Capped(elapsed + d) ELSE elapsed
       /\ sampleMs' = elapsed'
  /\ \E r \in IF elapsed <= ReceiptBy THEN Receipts ELSE {"unavailable"} :
       receipt' = IF r = "agrees" /\ ShapeValid(udp, legs, sampleMs')
                  THEN "agrees" ELSE "unavailable"
  /\ part' = "inbound"
  /\ UNCHANGED <<rung, reach, sent, echoed, udpAt, udp, legs, inbound>>

\* collect_bounded: past the budget the sample is given up for an empty one.
Cancelled ==
  /\ part \notin {"inbound", "over"}
  /\ elapsed >= Budget \/ (part = "udp" /\ elapsed + udpAt.clock >= Budget) \/ part = "prepare"
  /\ udp' = SkippedUdp(0)
  /\ legs' = <<>>
  /\ receipt' = "none"
  /\ sampleMs' = Budget
  /\ elapsed' = Budget
  /\ part' = "inbound"
  /\ UNCHANGED <<rung, reach, sent, echoed, udpAt, inbound>>

\* InboundReachabilityV1::validate.
BlockValid(vs) ==
  /\ Len(vs) \in 1..2
  /\ \A n, m \in 1..Len(vs) : n # m => vs[n].family # vs[m].family

\* serve and answer: the listener signs the nonces that reach it until its
\* deadline; the request over a family is answered with a verdict of the
\* region, which names the family it is about, or with nothing usable.
Verdict(family, over) == <<[family |-> family, over |-> over]>>
Verdicts(f) == IF reach[f] THEN {<<>>, Verdict("v4", f), Verdict("v6", f)} ELSE {<<>>}

\* inbound_check: no port could be bound, or one request per family; a block
\* that does not validate is dropped.
InboundCheck ==
  /\ part = "inbound"
  /\ \/ inbound' = <<>>
     \/ \E a \in Verdicts("v4"), b \in Verdicts("v6") :
          inbound' = IF BlockValid(a \o b) THEN a \o b ELSE <<>>
  /\ part' = "over"
  /\ UNCHANGED <<rung, elapsed, reach, sent, echoed, udpAt, udp, legs, receipt, sampleMs>>

SampleNext ==
  \/ Prepare \/ UdpWaits \/ UdpSends \/ UdpEchoes \/ UdpEnds \/ RunLeg \/ TakeReceipt
  \/ Cancelled \/ InboundCheck

SampleFairness == WF_sampleVars(SampleNext)
-----------------------------------------------------------------------------
LateSends == Cardinality({n \in 1..Len(udp.sent) : udp.sent[n] = "late"}) > 1

(* A finished sample is one the contract admits, whatever stage was slow,  *)
(* stalled, skipped or cancelled, so that it cannot cost the coverage run  *)
(* its envelope; the one exception is a UDP loop stalled past its stop     *)
(* that then sends twice (both sends are stamped with the stop).  A        *)
(* receipt is carried only beside the legs it agrees with: collect_sample  *)
(* and NetworkSampleV1::validate.                                          *)
SampleAdmitted ==
  part = "over" =>
    /\ ShapeValid(udp, legs, sampleMs) \/ LateSends
    /\ sampleMs <= Budget
    /\ receipt = "agrees" => reach.client /\ ShapeValid(udp, legs, sampleMs)
    /\ inbound # <<>> => BlockValid(inbound) /\ reach.client

(* "A verdict the prober signed for a family we did not ask over is not    *)
(* ours to carry" (network_sample/transport.rs:444-445): each verdict in   *)
(* the block is about the family whose request it answered.                *)
VerdictsAskedFor == \A n \in 1..Len(inbound) : inbound[n].family = inbound[n].over

SamplePending == part # "over"
=============================================================================
