---------------------------- MODULE UdpBehaviour ----------------------------
(***************************************************************************)
(* collect_udp_behaviour (src/src/network_traversal/behaviour.rs): which   *)
(* mapping and filtering behaviour the NAT in front of the device shows to *)
(* a prober at A:p, A:q and B:p.                                           *)
(*                                                                         *)
(* The collection is a fixed order of observations; an observation is a    *)
(* request answered by a challenge and a proof answered by the tuple that  *)
(* the prober saw.  The NAT is external: its two behaviours are chosen at  *)
(* the start, packets may be lost and a mapping may be rebound.            *)
(***************************************************************************)
EXTENDS TraversalSession

CONSTANTS
  Nats,         \* the [mapping, filtering] behaviours a NAT may have
  Topologies,   \* [ap, aq, bp]: sets of the primitives each is qualified for
  MaxRebinds

Classes == {"endpoint_independent", "address_dependent", "address_and_port_dependent"}

ASSUME BehaviourAssumption ==
  /\ MaxRebinds \in Nat
  /\ Nats # {} /\ Nats \subseteq [mapping : Classes, filtering : Classes]
  /\ Topologies # {}

VARIABLES
  obs,       \* the next observation of Order, 0 before, Done after the last
  seen,      \* the results of the primitive being run
  sent,      \* Experiment.sent
  filterOut, \* UdpBehaviourReport.filtering
  mapOut,    \* UdpBehaviourReport.mapping
  topology,
  nat,       \* [mapping, filtering]
  gen,       \* how often the NAT rebound its mappings
  lossy      \* history: a packet was lost or an answer did not match

behaviour == <<obs, seen, sent, filterOut, mapOut, topology, nat, gen, lossy>>

Failures == {"unsupported_topology", "not_started", "not_authorized", "challenge_timeout",
             "timeout", "invalid_response", "rebinding", "budget_exhausted", "deadline",
             "cancelled", "runtime_unavailable"}
Rank == [c \in Classes |-> CASE c = "endpoint_independent" -> 0
                             [] c = "address_dependent" -> 1
                             [] OTHER -> 2]

\* filtering(): A:p, then answers from B:p and from A:q, then A:p again;
\* mapping(), on a fresh socket: A:p, A:q twice, B:p twice, A:p again.
Order == <<"f_ap", "f_bp", "f_aq", "f_end",
           "m_ap", "m_aq1", "m_aq2", "m_bp1", "m_bp2", "m_end">>
Filtering(o) == o \in {"f_ap", "f_bp", "f_aq", "f_end"}
Done == Len(Order) + 1

\* The endpoint that an observation contacts, and the one that answers it.
Contact(o) == CASE o \in {"m_aq1", "m_aq2"} -> "aq"
                [] o \in {"m_bp1", "m_bp2"} -> "bp"
                [] OTHER -> "ap"
Answer(o) == CASE o = "f_bp" -> "bp" [] o = "f_aq" -> "aq" [] OTHER -> Contact(o)

\* The tuple the NAT shows to an endpoint for a socket.
Tuple(socket, e) ==
  <<socket, gen, CASE nat.mapping = "endpoint_independent" -> "any"
                   [] nat.mapping = "address_dependent" -> IF e = "bp" THEN "b" ELSE "a"
                   [] OTHER -> e>>

\* Whether the NAT lets the answer in: it comes from the endpoint contacted,
\* or on the filtering socket, which has only contacted A:p, from another.
Admits(o) ==
  \/ Answer(o) = Contact(o)
  \/ nat.filtering = "endpoint_independent"
  \/ nat.filtering = "address_dependent" /\ Answer(o) = "aq"

\* A result is such a tuple, or <<failure>>.
IsTuple(r) == Len(r) = 3
-----------------------------------------------------------------------------
BehaviourInit ==
  /\ obs = 0
  /\ seen = [o \in {} |-> "not_started"]
  /\ sent = 0
  /\ filterOut = "not_started" /\ mapOut = "not_started"
  /\ topology \in Topologies
  /\ nat \in Nats
  /\ gen = 0
  /\ lossy = FALSE

Allowance == grant.b.datagrams - grant.b.cleanupDatagrams

\* The report is returned: an outcome not reached yet keeps its last value.
Report == obs' = Done /\ phase' = "ended"

\* The checks before the first packet.
Authorize ==
  /\ phase = "observe" /\ obs = 0
  /\ LET refused == IF "mapping" \notin topology.ap THEN "unsupported_topology"
                    ELSE IF "observe_mapping" \notin grant.ops THEN "not_authorized"
                    ELSE IF grant.b.bytes < 128 THEN "budget_exhausted"
                    ELSE IF stop THEN "cancelled"
                    ELSE "none"
     IN IF refused # "none"
        THEN Report /\ filterOut' = refused /\ mapOut' = refused
        ELSE /\ UNCHANGED <<mapOut, phase>>
             /\ IF "filtering" \notin topology.ap
                THEN filterOut' = "unsupported_topology" /\ obs' = 5
                ELSE IF "observe_filtering" \notin grant.ops
                THEN filterOut' = "not_authorized" /\ obs' = 5
                ELSE \/ obs' = 1 /\ UNCHANGED filterOut
                     \/ obs' = 5 /\ filterOut' = "runtime_unavailable"
  /\ UNCHANGED <<grant, now, stop, seen, sent, topology, nat, gen, lossy>>

\* alternate(): the second endpoint exists and is qualified for the primitive.
Qualified(o) ==
  (IF Filtering(o) THEN "filtering" ELSE "mapping") \in topology[Answer(o)]

\* What the slot of an endpoint holds after its observations.
Slot(s, os) ==
  LET failed == {o \in os : o \in DOMAIN s /\ ~IsTuple(s[o])} IN
  IF \E o \in os : o \notin DOMAIN s /\ failed = {} THEN <<"unsupported_topology">>
  ELSE IF failed # {} THEN s[CHOOSE o \in failed : TRUE]
  ELSE IF Cardinality({s[o] : o \in os}) > 1 THEN <<"rebinding">>
  ELSE s[CHOOSE o \in os : TRUE]

\* The end of filtering().
FilteringSummary(s) ==
  LET slot(o) == LET r == Slot(s, {o}) IN
                 IF IsTuple(r) /\ r # s["f_ap"] THEN <<"rebinding">> ELSE r
      bp == slot("f_bp")
      aq == slot("f_aq")
  IN IF bp = <<"rebinding">> \/ aq = <<"rebinding">> \/ s["f_end"] # s["f_ap"] THEN "rebinding"
     ELSE IF IsTuple(bp) THEN "endpoint_independent"
     ELSE IF bp # <<"timeout">> THEN bp[1]
     ELSE IF IsTuple(aq) THEN "address_dependent"
     ELSE IF aq = <<"timeout">> THEN "address_and_port_dependent"
     ELSE aq[1]

\* Mutant: the closing observation of A:p is not compared with the first.
MappingSummaryNoFinal(s) ==
  LET aq == Slot(s, {"m_aq1", "m_aq2"})
      bp == Slot(s, {"m_bp1", "m_bp2"})
  IN IF aq = <<"rebinding">> \/ bp = <<"rebinding">> THEN "rebinding"
     ELSE IF IsTuple(aq) /\ aq # s["m_ap"] THEN "address_and_port_dependent"
     ELSE IF IsTuple(aq) /\ IsTuple(bp)
     THEN IF bp # s["m_ap"] THEN "address_dependent" ELSE "endpoint_independent"
     ELSE IF IsTuple(aq) THEN bp[1] ELSE aq[1]

\* The end of mapping(); a slot that has no qualified endpoint gives way to
\* the other slot's error.
MappingSummary(s) ==
  LET aq == Slot(s, {"m_aq1", "m_aq2"})
      bp == Slot(s, {"m_bp1", "m_bp2"})
      error(r) == ~IsTuple(r) /\ r # <<"unsupported_topology">>
  IN IF aq = <<"rebinding">> \/ bp = <<"rebinding">> \/ s["m_end"] # s["m_ap"] THEN "rebinding"
     ELSE IF IsTuple(aq) /\ aq # s["m_ap"] THEN "address_and_port_dependent"
     ELSE IF IsTuple(aq) /\ IsTuple(bp)
     THEN IF bp # s["m_ap"] THEN "address_dependent" ELSE "endpoint_independent"
     ELSE IF error(aq) THEN aq[1]
     ELSE IF error(bp) THEN bp[1]
     ELSE "unsupported_topology"

\* Mutant: a failed observation of A:p is tried again.
ContinueRetry(o, s) ==
  IF o \in {"f_ap", "f_end", "m_ap", "m_end"} /\ ~IsTuple(s[o])
  THEN UNCHANGED <<obs, filterOut, mapOut, phase>>
  ELSE IF o = "f_end"
  THEN obs' = 5 /\ filterOut' = FilteringSummary(s) /\ UNCHANGED <<mapOut, phase>>
  ELSE IF o = "m_end"
  THEN Report /\ mapOut' = MappingSummary(s) /\ UNCHANGED filterOut
  ELSE obs' = obs + 1 /\ UNCHANGED <<filterOut, mapOut, phase>>

\* Where the collection goes after an observation.  A failed one of A:p ends
\* its primitive; a failed first of a pair skips the second.
Continue(o, s) ==
  LET next == IF o \in {"m_aq1", "m_bp1"} /\ ~IsTuple(s[o]) THEN obs + 2 ELSE obs + 1 IN
  IF o = "f_end" \/ (o = "f_ap" /\ ~IsTuple(s[o]))
  THEN /\ obs' = 5
       /\ filterOut' = IF IsTuple(s[o]) THEN FilteringSummary(s) ELSE s[o][1]
       /\ UNCHANGED <<mapOut, phase>>
  ELSE IF o = "m_end" \/ (o = "m_ap" /\ ~IsTuple(s[o]))
  THEN /\ Report
       /\ mapOut' = IF IsTuple(s[o]) THEN MappingSummary(s) ELSE s[o][1]
       /\ UNCHANGED filterOut
  ELSE obs' = next /\ UNCHANGED <<filterOut, mapOut, phase>>

\* observe(): two datagrams at most, one attempt, no refund.  A send that the
\* kernel refuses is an invalid_response here: the same, but for its name.
Observe ==
  /\ obs \in DOMAIN Order
  /\ LET o == Order[obs]
         socket == IF Filtering(o) THEN "filter" ELSE "map"
         ends(r, datagrams, lost) ==
           LET s == [x \in DOMAIN seen \cup {o} |-> IF x = o THEN r ELSE seen[x]] IN
           /\ Continue(o, s)
           /\ seen' = IF Filtering(o) /\ obs' = 5 THEN [x \in {} |-> <<"not_started">>] ELSE s
           /\ sent' = sent + datagrams
           /\ lossy' = (lossy \/ lost)
     IN /\ Contact(o) # "ap" \/ Answer(o) # "ap" => Qualified(o)
        /\ \/ /\ stop /\ ends(<<"cancelled">>, 0, FALSE) /\ UNCHANGED now
           \/ /\ ~stop /\ now >= ActiveEnd /\ ends(<<"deadline">>, 0, FALSE) /\ UNCHANGED now
           \/ /\ Ordinary /\ sent >= Allowance - 1
              /\ ends(<<"budget_exhausted">>, Allowance - sent, sent # Allowance) /\ UNCHANGED now
           \/ /\ Ordinary /\ sent < Allowance
              /\ \E r \in {"challenge_timeout", "invalid_response"} :
                   ends(<<r>>, 1, TRUE)
              /\ now' \in {now, now + 1}
           \/ /\ Ordinary /\ sent <= Allowance - 2
              /\ now' \in {now, now + 1}
              /\ IF now' >= ActiveEnd THEN ends(<<"deadline">>, 2, FALSE)
                 ELSE \/ ends(<<"timeout">>, 2, Admits(o))
                      \/ Admits(o) /\ ends(Tuple(socket, Contact(o)), 2, FALSE)
  /\ UNCHANGED <<grant, stop, topology, nat, gen>>

\* An endpoint that is not qualified is passed over.
PassOver ==
  /\ obs \in DOMAIN Order
  /\ LET o == Order[obs] IN
     /\ Answer(o) # "ap" /\ ~Qualified(o)
     /\ obs' = IF Filtering(o) THEN obs + 1 ELSE obs + 2
  /\ UNCHANGED <<session, seen, sent, filterOut, mapOut, topology, nat, gen, lossy>>

\* The second socket can not be bound.
MapSocketFails ==
  /\ obs = 5 /\ Ordinary
  /\ Report /\ mapOut' = "runtime_unavailable"
  /\ UNCHANGED <<grant, now, stop, seen, sent, filterOut, topology, nat, gen, lossy>>

\* External: the NAT forgets its mappings and makes new ones.
Rebind ==
  /\ obs \in DOMAIN Order
  /\ gen < MaxRebinds
  /\ gen' = gen + 1
  /\ UNCHANGED <<session, obs, seen, sent, filterOut, mapOut, topology, nat, lossy>>

BehaviourStep == Authorize \/ Observe \/ PassOver \/ MapSocketFails
-----------------------------------------------------------------------------
(* The classification never flatters the NAT: a mapping class is reported   *)
(* only when it is the NAT's, whatever was lost or rebound meanwhile, and a *)
(* filtering class is never more open than the NAT's and, when no packet    *)
(* was lost, is exactly it.  The datagrams sent stay within the allowance   *)
(* of the grant, of which failed sends get nothing back.                    *)
BehaviourSound ==
  /\ sent <= Allowance \/ sent = 0
  /\ obs = Done =>
       /\ mapOut \in Classes => mapOut = nat.mapping
       /\ filterOut \in Classes =>
            /\ Rank[filterOut] >= Rank[nat.filtering]
            /\ ~lossy => filterOut = nat.filtering

(* A collection that nothing disturbs classifies both behaviours.           *)
BehaviourComplete ==
  obs = Done /\ ~lossy /\ gen = 0 /\ ~stop /\ now < ActiveEnd /\ Allowance >= 20
    /\ "runtime_unavailable" \notin {filterOut, mapOut}
    /\ (\A e \in {"ap", "aq", "bp"} : topology[e] = {"mapping", "filtering"})
    /\ {"observe_mapping", "observe_filtering"} \subseteq grant.ops
    /\ grant.b.bytes >= 128
  => filterOut \in Classes /\ mapOut \in Classes

(* Both: what is claimed is true, and what can be told is told.             *)
BehaviourExact == BehaviourSound /\ BehaviourComplete
=============================================================================
