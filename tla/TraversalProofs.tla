--------------------------- MODULE TraversalProofs ---------------------------
(***************************************************************************)
(* Proofs about the mapping lifecycle inside a traversal run, for every    *)
(* grant, every list of plans and every behaviour of the gateway: another  *)
(* host's entry is never overwritten, every correlated grant is followed   *)
(* by a delete, and the lifecycle implements the lease discipline of       *)
(* MappingLease.  About the discovery before it, for every route table and *)
(* every device document: the gateway selected is the one the routes name. *)
(***************************************************************************)
EXTENDS Traversal, FiniteSetTheorems, WellFoundedInduction, TLAPS

(* Before a plan's create, while it is asked for, and once it may exist.   *)
Measuring == {"bind", "baseline", "baseline_wait", "precreate"}
Asking == {"create", "probe", "add"}
Owning == {"inline_delete", "verify", "verify_wait", "delete"}
Running == Measuring \cup Asking \cup Owning \cup {"confirm", "settle"}

Accounts == [datagrams : Nat, control : Nat, cleanupDatagrams : Nat, cleanupControl : Nat,
             dialbacks : Nat]

(* One collector runs at a time, and a mapping grant that runs is valid.   *)
PhaseInv ==
  /\ grant \in Grants /\ phase \in Phases /\ now \in Nat /\ stop \in BOOLEAN
  /\ step \in Running \cup {"begin", "discover", "done"}
  /\ fetches \in Nat
  /\ step \in Running \cup {"begin"} => phase = "mapping"
  /\ phase = "mapping" => DescriptorValid(grant)
  /\ obs \in DOMAIN Order => phase = "observe"
  /\ phase \in {"reserve", "observe"} => step = "discover"

(* The types, with the rows that have been closed so far.                  *)
PlansTyped ==
  /\ plans \in Seq([method : Mutations, transport : {"tcp", "udp"}])
  /\ gw.datagrams \in Nat /\ gw.control \in Nat
  /\ acct \in Accounts

RowsTyped ==
  /\ row \in MappingRows /\ rows \in Seq(MappingRows)
  /\ stopped \in Stops /\ life \in Lifetimes

Counted ==
  /\ n \in 0..3 /\ k \in 0..3 /\ Len(rows) <= 3
  /\ step \in Running => k >= 1 /\ k <= n /\ n <= Len(plans) /\ Len(rows) = k - 1
  /\ step \in {"discover", "begin"} => Len(rows) = 0

PlanInv == PlansTyped /\ RowsTyped /\ Counted

(* What may exist in the gateway is the mapping of the plan at hand, from  *)
(* the moment it is asked for; once a plan is settled or the run is done,  *)
(* a mapping that may be left has made its row uncertain.                  *)
Held == mapped \cup inflight

LeaseInv ==
  /\ Held \subseteq {k}
  /\ mapped = {} \/ inflight = {}
  /\ step \in Measuring \cup Asking \cup {"discover", "begin"} => Held = {}
  /\ step \in Owning \cup {"confirm"} => inflight = {}
  /\ step \in {"verify", "verify_wait", "delete"} => Uncertain(row)
  /\ step = "settle" /\ Held # {} => Uncertain(row)
  /\ step # "done" => \A i \in DOMAIN rows : ~Uncertain(rows[i])
  /\ step = "done" /\ Held # {} => \E i \in DOMAIN rows : Uncertain(rows[i])
  /\ step = "add" => k \notin foreign

(* A correlated grant is owed a delete, and until it is sent the run has   *)
(* the time and the allowance for it.                                      *)
OwedInv ==
  /\ known \subseteq asked \cup (IF step \in Owning THEN {k} ELSE {})
  /\ step \in Asking \cup Owning \cup {"confirm"} =>
       /\ now <= ActiveEnd + Overrun
       /\ 1 <= acct.cleanupControl
       /\ Count(UdpRouter(plan)) <= acct.cleanupDatagrams
-----------------------------------------------------------------------------
(* The kinds of step. *)

(* Discovery counts its document fetches. *)
LEMMA FetchesNext ==
  ASSUME DiscoveryStep, fetches \in Nat
  PROVE  fetches' \in Nat
BY DEF DiscoveryStep, ReadRoutes, SelectRoute, SelectGateway, Search, Reply, RepliesDone

(* The behaviour collector runs in its phase until it reports.             *)
LEMMA BehaviourPhase ==
  ASSUME BehaviourStep, obs \in DOMAIN Order => phase = "observe", now \in Nat
  PROVE  /\ UNCHANGED <<grant, stop>> /\ now' \in Nat
         /\ phase = "observe" /\ phase' \in {"observe", "ended"}
         /\ obs' \in DOMAIN Order => phase' = "observe"
<1>0. Done \notin DOMAIN Order /\ 5 \in DOMAIN Order
  BY DEF Done, Order
<1>1. CASE Authorize
  BY <1>0, <1>1 DEF Authorize, Report
<1>2. CASE Observe
  <2>1. /\ UNCHANGED <<grant, stop>> /\ now' \in {now, now + 1} /\ obs \in DOMAIN Order
    BY <1>2 DEF Observe
  <2>2. \E s : Continue(Order[obs], s)
    BY <1>2 DEF Observe
  <2>3. phase' = phase \/ (phase' = "ended" /\ obs' = Done)
    BY <2>2 DEF Continue, Report
  <2> QED
    BY <1>0, <2>1, <2>3
<1>3. CASE PassOver
  BY <1>3 DEF PassOver, session
<1>4. CASE MapSocketFails
  BY <1>0, <1>4 DEF MapSocketFails, Report
<1> QED
  BY <1>1, <1>2, <1>3, <1>4 DEF BehaviourStep
-----------------------------------------------------------------------------
(* The ends of the active time and of the run are times.                   *)
LEMMA Ends ==
  ASSUME grant \in Grants
  PROVE  /\ CollectorEnd \in Int /\ ActiveEnd \in Int
         /\ ActiveEnd + Overrun < CollectorEnd
<1>1. /\ grant.issued \in Nat /\ grant.b.experiment \in Nat /\ grant.b.cleanupReserve \in Nat
      /\ Overrun \in Nat /\ Overrun < grant.b.cleanupReserve
  BY SessionAssumption, PromptAssumption
<1> QED
  BY <1>1 DEF CollectorEnd, ActiveEnd

(* A call returns later, if at all.                                        *)
LEMMA CallReturns ==
  ASSUME grant \in Grants, now \in Nat, NEW cleanup \in BOOLEAN,
         UNCHANGED now \/ ReturnsBy(End(cleanup))
  PROVE  now' \in Nat /\ (now' = now \/ now' <= End(cleanup) + Overrun)
BY Ends, SessionAssumption DEF ReturnsBy, End

(* The lifecycle goes on, or ends the collector's turn.                    *)
LEMMA MappingPhase ==
  ASSUME MappingStep, step \in Running \cup {"begin"} => phase = "mapping", now \in Nat,
         grant \in Grants
  PROVE  /\ UNCHANGED <<grant, stop>> /\ now' \in Nat
         /\ phase = "mapping" /\ step \in Running \cup {"begin"}
         /\ \/ phase' = "ended" /\ step' = "done"
            \/ phase' = phase /\ step' \in Running
<1> USE DEF Running, Measuring, Asking, Owning
<1>1. CASE Begin
  BY <1>1 DEF Begin, Finish
<1>2. CASE Bind
  BY <1>2 DEF Bind, Finish
<1>3. CASE PathStart
  <2>1. now' \in Nat
    BY <1>3, CallReturns DEF PathStart, End
  <2> QED
    BY <1>3, <2>1 DEF PathStart, PathRefused, StopRow, Finish
<1>4. CASE PathFinish
  BY <1>4 DEF PathFinish, PathRefused, StopRow, Finish
<1>5. CASE PreCreate
  BY <1>5 DEF PreCreate, StopRow, Finish
<1>6. CASE Create \/ Probe \/ Add \/ Confirm \/ InlineDelete \/ Delete
  <2>1. /\ step \in Running /\ UNCHANGED <<grant, stop, phase>>
        /\ \E c \in BOOLEAN : NotSent(c) \/ Send(c)
    BY <1>6 DEF Create, Probe, Add, Confirm, InlineDelete, Delete, frame
  <2>2. now' \in Nat
    BY <2>1, CallReturns DEF NotSent, Send
  <2>3. step' \in Running
    BY <1>6 DEF Create, Probe, Add, Confirm, InlineDelete, Delete, Effect, AdoptFinite
  <2> QED
    BY <2>1, <2>2, <2>3
<1>7. CASE Settle
  BY <1>7 DEF Settle, Finish
<1> QED
  BY <1>1, <1>2, <1>3, <1>4, <1>5, <1>6, <1>7 DEF MappingStep

(* One collector at a time, through every step of any of them.             *)
LEMMA PhaseNext ==
  ASSUME PhaseInv, TraversalNext
  PROVE  PhaseInv'
<1> USE DEF Running, Measuring, Asking, Owning
<1>1. CASE MappingStep /\ UNCHANGED <<discovery, behaviour>>
  <2>1. UNCHANGED <<fetches, obs>>
    BY <1>1 DEF discovery, behaviour
  <2> QED
    BY <1>1, <2>1, MappingPhase DEF PhaseInv, Phases
<1>2. CASE GatewayStep /\ UNCHANGED <<discovery, behaviour>>
  BY <1>2 DEF GatewayStep, LateApply, Expire, session, discovery, behaviour, PhaseInv
<1>3. CASE (BehaviourStep \/ Rebind) /\ UNCHANGED <<mapping, discovery>>
  <2>1. UNCHANGED <<step, fetches>>
    BY <1>3 DEF mapping, discovery
  <2>2. CASE Rebind
    BY <2>1, <2>2 DEF Rebind, session, PhaseInv
  <2>3. CASE BehaviourStep
    BY <2>1, <2>3, BehaviourPhase DEF PhaseInv, Phases
  <2> QED
    BY <1>3, <2>2, <2>3
<1>4. CASE Discover
  BY <1>4, FetchesNext DEF Discover, mapping, behaviour, PhaseInv
<1>5. CASE HandOver
  <2>1. /\ fetches' = 0 /\ UNCHANGED <<obs, grant, now, stop>> /\ step = "discover"
        /\ phase = "mapping"
        /\ \/ phase' = "ended" /\ step' = step
           \/ phase' = phase /\ step' = "begin"
    BY <1>5 DEF HandOver, behaviour, mapping, Discovered, session
  <2> QED
    BY <2>1 DEF PhaseInv, Phases
<1>6. CASE StopArrives /\ UNCHANGED <<mapping, discovery, behaviour>>
  BY <1>6 DEF StopArrives, mapping, discovery, behaviour, PhaseInv
<1>7. CASE Reserve /\ UNCHANGED <<mapping, discovery, behaviour>>
  <2>1. /\ phase = "reserve" /\ UNCHANGED <<grant, now, stop, step, fetches, obs>>
        /\ phase' = IF ReserveOutcome(grant, now, stop) = "reserved"
                    THEN grant.mode ELSE "ended"
    BY <1>7 DEF Reserve, mapping, discovery, behaviour
  <2>2. grant.mode \in Modes
    BY SessionAssumption DEF PhaseInv, Modes
  <2>3. phase' \in Modes => DescriptorValid(grant)
    BY <2>1 DEF ReserveOutcome, Modes
  <2> QED
    BY <2>1, <2>2, <2>3 DEF PhaseInv, Phases, Modes
<1> QED
  BY <1>1, <1>2, <1>3, <1>4, <1>5, <1>6, <1>7 DEF TraversalNext
-----------------------------------------------------------------------------
(* The accounting and the rows. *)

(* An allowance that covers a charge stays a number, and ordinary traffic  *)
(* never draws on the cleanup allowance.                                   *)
LEMMA ChargeTyped ==
  ASSUME NEW a \in Accounts, NEW d \in Nat, NEW c \in Nat, NEW x \in Nat
  PROVE  /\ CanCharge(a, d, c, x, TRUE) => Charged(a, d, c, x, TRUE) \in Accounts
         /\ CanCharge(a, d, c, x, FALSE) =>
              /\ Charged(a, d, c, x, FALSE) \in Accounts
              /\ Charged(a, d, c, x, FALSE).cleanupDatagrams = a.cleanupDatagrams
              /\ Charged(a, d, c, x, FALSE).cleanupControl = a.cleanupControl
<1>1. /\ a.datagrams \in Nat /\ a.control \in Nat /\ a.dialbacks \in Nat
      /\ a.cleanupDatagrams \in Nat /\ a.cleanupControl \in Nat
  BY DEF Accounts
<1>2. ASSUME CanCharge(a, d, c, x, TRUE) PROVE Charged(a, d, c, x, TRUE) \in Accounts
  <2>1. x <= a.dialbacks /\ d <= a.cleanupDatagrams /\ c <= a.cleanupControl
    BY <1>2 DEF CanCharge
  <2>2. a.dialbacks - x \in Nat /\ a.cleanupDatagrams - d \in Nat /\ a.cleanupControl - c \in Nat
    BY <1>1, <2>1
  <2> QED
    BY <1>1, <2>2 DEF Accounts, Charged
<1>3. ASSUME CanCharge(a, d, c, x, FALSE)
      PROVE  /\ Charged(a, d, c, x, FALSE) \in Accounts
             /\ Charged(a, d, c, x, FALSE).cleanupDatagrams = a.cleanupDatagrams
             /\ Charged(a, d, c, x, FALSE).cleanupControl = a.cleanupControl
  <2>1. x <= a.dialbacks /\ d <= a.datagrams /\ c <= a.control
    BY <1>3 DEF CanCharge
  <2>2. a.dialbacks - x \in Nat /\ a.datagrams - d \in Nat /\ a.control - c \in Nat
    BY <1>1, <2>1
  <2> QED
    BY <1>1, <2>2 DEF Accounts, Charged
<1> QED
  BY <1>2, <1>3, Zenon

(* A valid budget can pay for its cleanup.                                 *)
LEMMA NewAccount ==
  ASSUME grant \in Grants, DescriptorValid(grant)
  PROVE  AccountingNew(grant.b) \in Accounts
<1>1. /\ grant.b.datagrams \in Nat /\ grant.b.control \in Nat /\ grant.b.dialbacks \in Nat
      /\ grant.b.cleanupDatagrams \in Nat /\ grant.b.cleanupControl \in Nat
  BY SessionAssumption
<1>2. grant.b.cleanupDatagrams <= grant.b.datagrams /\ grant.b.cleanupControl <= grant.b.control
  BY DEF DescriptorValid, BudgetsValid
<1> QED
  BY <1>1, <1>2 DEF AccountingNew, Accounts

(* A request that is sent, or not, leaves the accounting well typed.       *)
LEMMA RequestCharged ==
  ASSUME acct \in Accounts
  PROVE  /\ NotSent(TRUE) \/ Send(TRUE) => acct' \in Accounts
         /\ NotSent(FALSE) \/ Send(FALSE) =>
              /\ acct' \in Accounts
              /\ acct'.cleanupDatagrams = acct.cleanupDatagrams
              /\ acct'.cleanupControl = acct.cleanupControl
<1>1. Count(UdpRouter(plan)) \in Nat
  BY DEF Count
<1>2. 1 \in Nat /\ 0 \in Nat
  OBVIOUS
<1>3. NotSent(TRUE) \/ NotSent(FALSE) => acct' = acct
  BY Zenon DEF NotSent
<1>4. ASSUME Send(TRUE) PROVE acct' \in Accounts
  <2>1. /\ CanCharge(acct, Count(UdpRouter(plan)), 1, 0, TRUE)
        /\ acct' = Charged(acct, Count(UdpRouter(plan)), 1, 0, TRUE)
    BY <1>4, Zenon DEF Send, Sendable
  <2> QED
    BY <1>1, <1>2, <1>4, <2>1, ChargeTyped, Zenon
<1>5. ASSUME Send(FALSE)
      PROVE  /\ acct' \in Accounts
             /\ acct'.cleanupDatagrams = acct.cleanupDatagrams
             /\ acct'.cleanupControl = acct.cleanupControl
  <2>1. /\ CanCharge(acct, Count(UdpRouter(plan)), 1, 0, FALSE)
        /\ acct' = Charged(acct, Count(UdpRouter(plan)), 1, 0, FALSE)
    BY <1>5, Zenon DEF Send, Sendable
  <2> QED
    BY <1>1, <1>2, <1>5, <2>1, ChargeTyped, Zenon
<1> QED
  BY <1>3, <1>4, <1>5, Zenon

(* The evidence and the outcomes that are put into a row.                  *)
LEMMA EvidenceTyped ==
  /\ BaselineEvidence \subseteq Evidence
  /\ \A m \in Mutations : VerifyEvidence[m] \subseteq Evidence
  /\ \A e \in CreateEffects : e[2] \in Lifetimes
  /\ \A e \in ConfirmReplies : e[2] \in Lifetimes
<1>1. \A t \in Transcripts : t.outcome \in Evidence
  BY DEF Transcripts
<1>2. \A r \in MapReplies : r.lifetime \in Lifetimes
  BY DEF MapReplies
<1>3. \A v \in SoapViews : v.lease \in Lifetimes
  BY DEF SoapViews
<1>4. BaselineEvidence \subseteq Evidence
  BY <1>1 DEF BaselineEvidence, PathEvidence
<1>5. \A m \in Mutations : VerifyEvidence[m] \subseteq Evidence
  BY <1>1 DEF VerifyEvidence, PathEvidence
<1>6. \A e \in CreateEffects : e[2] \in Lifetimes
  BY <1>2 DEF CreateEffects
<1>7. \A e \in ConfirmReplies : e[2] \in Lifetimes
  BY <1>3 DEF ConfirmReplies
<1> QED
  BY <1>4, <1>5, <1>6, <1>7

(* A refused grant is reported with one of the outcomes.                   *)
LEMMA RefusedTyped == \A c : RefusedOutcome(c) \in Outcomes
BY DEF RefusedOutcome, Outcomes

(* The reasons to stop.                                                    *)
LEMMA StopTyped ==
  /\ StopNow \in Stops /\ BindFresh \cup {"invalid_binding"} \subseteq Stops \cup {"bound"}
  /\ ChallengeFaults \subseteq Stops /\ {"none", "budget", "unsupported"} \subseteq Stops
BY DEF StopNow, Stops, BindFresh, ChallengeFaults

(* A row that is closed is one more.                                       *)
LEMMA RowsAppended ==
  ASSUME NEW rs \in Seq(MappingRows), NEW r \in MappingRows
  PROVE  /\ Append(rs, r) \in Seq(MappingRows) /\ Len(Append(rs, r)) = Len(rs) + 1
         /\ \A i \in DOMAIN rs : i \in DOMAIN Append(rs, r) /\ Append(rs, r)[i] = rs[i]
         /\ Len(rs) + 1 \in DOMAIN Append(rs, r) /\ Append(rs, r)[Len(rs) + 1] = r
         /\ \A i \in DOMAIN Append(rs, r) : i \in DOMAIN rs \/ i = Len(rs) + 1
OBVIOUS

(* A row keeps its type whatever field is set.                             *)
LEMMA RowSet ==
  ASSUME NEW r \in MappingRows
  PROVE  /\ \A w \in Stops : [r EXCEPT !.stopped = w] \in MappingRows
         /\ \A e \in Evidence : [r EXCEPT !.baseline = e] \in MappingRows
         /\ \A e \in Evidence : [r EXCEPT !.verification = e] \in MappingRows
         /\ \A c \in Cleanups : [r EXCEPT !.cleanup = c] \in MappingRows
         /\ \A o \in Outcomes, c \in Cleanups :
              [r EXCEPT !.create = o, !.cleanup = c] \in MappingRows
         /\ \A e \in Evidence, w \in Stops :
              [r EXCEPT !.baseline = e, !.stopped = w] \in MappingRows
BY DEF MappingRows

(* Stopping a plan closes its row and ends the run.                        *)
LEMMA RowStopped ==
  ASSUME RowsTyped, NEW why \in Stops, StopRow(why)
  PROVE  /\ row' \in MappingRows /\ rows' \in Seq(MappingRows) /\ Len(rows') = Len(rows) + 1
         /\ stopped' = why /\ step' = "done"
BY RowSet, RowsAppended DEF RowsTyped, StopRow, Finish

(* A path check that is refused stops the plan or goes on to its delete.   *)
LEMMA PathStopped ==
  ASSUME RowsTyped, NEW why \in Stops, PathRefused(why)
  PROVE  /\ row' \in MappingRows
         /\ \/ /\ rows' \in Seq(MappingRows) /\ Len(rows') = Len(rows) + 1
               /\ stopped' = why /\ step' = "done"
            \/ UNCHANGED <<rows, stopped>> /\ step' = "delete"
BY RowSet, RowStopped DEF RowsTyped, PathRefused

(* The plan at hand is one of the list.                                    *)
LEMMA PlanTyped ==
  ASSUME PlansTyped, Counted, step \in Running
  PROVE  plan.method \in Mutations
<1>1. k \in 1..Len(plans)
  BY DEF PlansTyped, Counted
<1>2. \A S : plans \in Seq(S) => plans[k] \in S
  BY <1>1
<1>3. plans[k] \in [method : Mutations, transport : {"tcp", "udp"}]
  BY <1>2, Zenon DEF PlansTyped
<1> QED
  BY <1>3 DEF plan

(* A step of the lifecycle keeps the types and the count of rows.          *)
LEMMA PlanNext ==
  ASSUME PhaseInv, PlanInv, MappingStep
  PROVE  PlanInv'
<1> USE DEF Running, Measuring, Asking, Owning
<1>0. /\ UNCHANGED <<plans, gw>> /\ grant \in Grants
      /\ PlansTyped /\ RowsTyped /\ Counted
      /\ Len(rows) \in Nat
  <2>1. UNCHANGED <<plans, gw>>
    BY DEF MappingStep, Begin, Bind, PathStart, PathFinish, PreCreate, Create, Probe, Add, Confirm,
      InlineDelete, Delete, Settle, frame
  <2> QED
    BY <2>1 DEF PhaseInv, PlanInv, RowsTyped
<1>1. CASE Begin
  <2>1. AccountingNew(grant.b) \in Accounts
    BY <1>0, <1>1, NewAccount DEF PhaseInv, Begin
  <2>2. acct' \in Accounts
    <3>1. \/ acct' = acct
          \/ /\ CanCharge(AccountingNew(grant.b), gw.datagrams, gw.control, 0, FALSE)
             /\ acct' = Charged(AccountingNew(grant.b), gw.datagrams, gw.control, 0, FALSE)
      BY <1>1, Zenon DEF Begin
    <3>2. acct \in Accounts /\ gw.datagrams \in Nat /\ gw.control \in Nat /\ 0 \in Nat
      BY <1>0 DEF PlansTyped
    <3>3. CASE acct' = acct
      BY <3>2, <3>3
    <3>4. CASE acct' = Charged(AccountingNew(grant.b), gw.datagrams, gw.control, 0, FALSE)
      BY <2>1, <3>1, <3>2, <3>4, ChargeTyped, Zenon
    <3> QED
      BY <3>1, <3>3, <3>4, Zenon
  <2>3. /\ UNCHANGED <<row, rows, life>> /\ step = "begin" /\ step' \in {"done", "bind"}
        /\ stopped' = stopped \/ stopped' \in Stops
    BY <1>1 DEF Begin, Finish, Stops
  <2>4. \/ UNCHANGED <<n, k>> /\ step' = "done"
        \/ k' = 1 /\ n' \in {1, Len(plans)} /\ Len(plans) \in 1..3
    BY <1>1 DEF Begin, PlansOK, Finish
  <2>5. RowsTyped'
    BY <1>0, <2>3 DEF RowsTyped
  <2>6. Counted'
    <3>1. /\ n \in 0..3 /\ k \in 0..3 /\ Len(rows) = 0 /\ Len(rows') = 0 /\ Len(plans') = Len(plans)
      BY <1>0, <2>3 DEF Counted
    <3>2. CASE UNCHANGED <<n, k>> /\ step' = "done"
      BY <3>1, <3>2 DEF Counted
    <3>3. CASE k' = 1 /\ n' \in {1, Len(plans)} /\ Len(plans) \in 1..3
      BY <2>3, <3>1, <3>3 DEF Counted
    <3> QED
      BY <2>4, <3>2, <3>3
  <2> QED
    BY <1>0, <2>2, <2>5, <2>6 DEF PlanInv, PlansTyped
<1>2. CASE Bind
  <2>1. plan.method \in Mutations
    BY <1>0, <1>2, PlanTyped DEF Bind
  <2>2. row' \in MappingRows
    BY <1>2, <2>1 DEF Bind, MappingRows, Evidence, Cleanups, Stops
  <2>3. /\ UNCHANGED <<n, k, acct, rows, life>> /\ step = "bind"
        /\ stopped' = stopped \/ stopped' \in Stops
        /\ step' \in {"done", "baseline"}
    BY <1>2, StopTyped DEF Bind, Finish
  <2> QED
    BY <1>0, <2>2, <2>3 DEF PlanInv, PlansTyped, RowsTyped, Counted
<1>3. CASE PathStart
  <2>1. acct' \in Accounts
    <3>1. Count(Udp(plan)) \in Nat /\ 1 \in Nat /\ 2 \in Nat /\ acct \in Accounts
      BY <1>0 DEF Count, PlansTyped
    <3>2. \/ acct' = acct
          \/ /\ CanCharge(acct, Count(Udp(plan)), 2, 1, FALSE)
             /\ acct' = Charged(acct, Count(Udp(plan)), 2, 1, FALSE)
      BY <1>3, Zenon DEF PathStart
    <3>3. CASE acct' = acct
      BY <3>1, <3>3
    <3>4. CASE acct' = Charged(acct, Count(Udp(plan)), 2, 1, FALSE)
      BY <3>1, <3>2, <3>4, ChargeTyped, Zenon
    <3> QED
      BY <3>2, <3>3, <3>4, Zenon
  <2>2. /\ UNCHANGED <<n, k, life>> /\ step \in Running
        /\ \/ UNCHANGED <<row, rows, stopped>> /\ step' \in Running
           \/ \E why \in Stops : PathRefused(why)
    BY <1>3, StopTyped DEF PathStart
  <2>3. CASE UNCHANGED <<row, rows, stopped>> /\ step' \in Running
    BY <1>0, <2>1, <2>2, <2>3 DEF PlanInv, PlansTyped, RowsTyped, Counted
  <2>4. ASSUME NEW why \in Stops, PathRefused(why) PROVE PlanInv'
    BY <1>0, <2>1, <2>2, <2>4, PathStopped DEF PlanInv, PlansTyped, RowsTyped, Counted
  <2> QED
    BY <2>2, <2>3, <2>4
<1>4. CASE PathFinish
  <2>1. UNCHANGED <<n, k, life, acct>> /\ step \in Running
    BY <1>4 DEF PathFinish
  <2>2. plan.method \in Mutations
    BY <1>0, <2>1, PlanTyped
  <2>3. ASSUME NEW why \in Stops, PathRefused(why) PROVE PlanInv'
    BY <1>0, <2>1, <2>3, PathStopped DEF PlanInv, PlansTyped, RowsTyped, Counted
  <2>4. ASSUME row' \in MappingRows, UNCHANGED <<rows, stopped>>, step' \in Running PROVE PlanInv'
    BY <1>0, <2>1, <2>4 DEF PlanInv, PlansTyped, RowsTyped, Counted
  <2>5. ASSUME row' \in MappingRows, rows' = Append(rows, row'), stopped' \in Stops, step' = "done"
        PROVE  PlanInv'
    <3>1. rows' \in Seq(MappingRows) /\ Len(rows') = Len(rows) + 1
      BY <1>0, <2>5, RowsAppended DEF RowsTyped
    <3> QED
      BY <1>0, <2>1, <2>5, <3>1 DEF PlanInv, PlansTyped, RowsTyped, Counted
  <2>6. CASE \E why \in Stops : PathRefused(why)
    BY <2>3, <2>6
  <2>7. CASE ~\E why \in Stops : PathRefused(why)
    <3>1. \/ \E e \in Evidence :
               \/ row' = [row EXCEPT !.baseline = e] /\ step' = "precreate"
                  /\ UNCHANGED <<rows, stopped>>
               \/ row' = [row EXCEPT !.baseline = e, !.stopped = "unsupported"]
                  /\ rows' = Append(rows, row') /\ step' = "done" /\ stopped' = "unsupported"
               \/ row' = [row EXCEPT !.verification = e] /\ step' = "delete"
                  /\ UNCHANGED <<rows, stopped>>
      BY <1>4, <2>2, <2>7, StopTyped, EvidenceTyped DEF PathFinish, Finish
    <3>2. row' \in MappingRows
      <4>1. row \in MappingRows /\ "unsupported" \in Stops
        BY <1>0 DEF RowsTyped, Stops
      <4>2. \A e \in Evidence :
              /\ [row EXCEPT !.baseline = e] \in MappingRows
              /\ [row EXCEPT !.baseline = e, !.stopped = "unsupported"] \in MappingRows
              /\ [row EXCEPT !.verification = e] \in MappingRows
        BY <4>1, RowSet
      <4> QED
        BY <3>1, <4>2, Zenon
    <3> QED
      BY <2>4, <2>5, <3>1, <3>2, StopTyped
  <2> QED
    BY <2>6, <2>7
<1>5. CASE PreCreate
  <2>1. /\ UNCHANGED <<n, k, acct, life>> /\ step = "precreate"
        /\ \/ UNCHANGED <<row, rows, stopped>> /\ step' \in Running
           \/ \E why \in Stops : StopRow(why)
    BY <1>5, StopTyped DEF PreCreate
  <2>2. CASE UNCHANGED <<row, rows, stopped>> /\ step' \in Running
    BY <1>0, <2>1, <2>2 DEF PlanInv, PlansTyped, RowsTyped, Counted
  <2>3. ASSUME NEW why \in Stops, StopRow(why) PROVE PlanInv'
    BY <1>0, <2>1, <2>3, RowStopped DEF PlanInv, PlansTyped, RowsTyped, Counted
  <2> QED
    BY <2>1, <2>2, <2>3
<1>6. CASE Create \/ Probe \/ Add \/ Confirm \/ InlineDelete \/ Delete
  <2>1. acct' \in Accounts
    BY <1>0, <1>6, RequestCharged, Zenon
    DEF Create, Probe, Add, Confirm, InlineDelete, Delete, PlansTyped
  <2>2. UNCHANGED <<n, k, rows, stopped>> /\ step \in Running /\ step' \in Running
    BY <1>6 DEF Create, Probe, Add, Confirm, InlineDelete, Delete, frame, Effect, AdoptFinite
  <2>3. life' \in Lifetimes
    BY <1>0, <1>6, EvidenceTyped
    DEF Create, Probe, Add, Confirm, InlineDelete, Delete, AdoptFinite, RowsTyped, Lifetimes
  <2>4. row' \in MappingRows
    <3>1. ASSUME NEW o \in Outcomes, NEW c \in Cleanups, Effect(o, c) PROVE row' \in MappingRows
      BY <1>0, <3>1, RowSet DEF Effect, RowsTyped
    <3>2. ASSUME AdoptFinite PROVE row' \in MappingRows
      <4>1. PICK r \in MappingRows :
              r = [row EXCEPT !.create = "succeeded", !.cleanup = "lease_expiry_pending"]
        BY <1>0, RowSet DEF RowsTyped, Outcomes, Cleanups
      <4>2. row' \in {r, [r EXCEPT !.stopped = "invalid_binding"], [r EXCEPT !.verification = "unverifiable"]}
        BY <3>2, <4>1 DEF AdoptFinite
      <4>3. "invalid_binding" \in Stops /\ "unverifiable" \in Evidence
        BY DEF Stops, Evidence
      <4>4. /\ \A w \in Stops : [r EXCEPT !.stopped = w] \in MappingRows
            /\ \A e \in Evidence : [r EXCEPT !.verification = e] \in MappingRows
        BY RowSet
      <4>5. /\ [r EXCEPT !.stopped = "invalid_binding"] \in MappingRows
            /\ [r EXCEPT !.verification = "unverifiable"] \in MappingRows
        BY <4>3, <4>4
      <4> QED
        BY <4>2, <4>5
    <3>3. CASE Create
      BY <1>0, <1>6, <3>1, <3>2, <3>3 DEF Create, Outcomes, Cleanups, RowsTyped
    <3>4. CASE Probe \/ Add \/ Confirm
      BY <1>0, <3>1, <3>2, <3>4 DEF Probe, Add, Confirm, Outcomes, Cleanups, RowsTyped
    <3>5. CASE InlineDelete
      BY <3>1, <3>5, RefusedTyped DEF InlineDelete, Cleanups
    <3>6. CASE Delete
      BY <1>0, <3>6, RowSet DEF Delete, Cleanups, RowsTyped
    <3> QED
      BY <1>6, <3>3, <3>4, <3>5, <3>6
  <2> QED
    BY <1>0, <2>1, <2>2, <2>3, <2>4 DEF PlanInv, PlansTyped, RowsTyped, Counted
<1>7. CASE Settle
  <2>1. /\ rows' = Append(rows, row) /\ UNCHANGED <<n, acct, row, life>> /\ step = "settle"
        /\ \/ step' = "done" /\ UNCHANGED k
           \/ step' = "bind" /\ k' = k + 1 /\ k < n
        /\ stopped' = stopped \/ stopped' \in Stops
    BY <1>0, <1>7 DEF Settle, Finish, RowsTyped, MappingRows, Stops
  <2>2. rows' \in Seq(MappingRows) /\ Len(rows') = Len(rows) + 1
    BY <1>0, <2>1, RowsAppended DEF RowsTyped
  <2> QED
    BY <1>0, <2>1, <2>2 DEF PlanInv, PlansTyped, RowsTyped, Counted
<1> QED
  BY <1>1, <1>2, <1>3, <1>4, <1>5, <1>6, <1>7 DEF MappingStep
-----------------------------------------------------------------------------
(* The lease discipline. *)

(* An adopted grant is uncertain until it is deleted.                      *)
LEMMA AdoptedUncertain ==
  ASSUME RowsTyped, AdoptFinite
  PROVE  Uncertain(row') /\ step' \in {"verify", "delete"}
BY DEF RowsTyped, AdoptFinite, MappingRows, Uncertain

(* What the steps of a plan do to the gateway.                             *)
LEMMA LeaseNext ==
  ASSUME PlanInv, LeaseInv, MappingStep
  PROVE  LeaseInv' /\ foreign' = foreign
<1> USE DEF Running, Measuring, Asking, Owning, Held
<1>0. RowsTyped /\ row \in MappingRows /\ rows \in Seq(MappingRows)
  BY DEF PlanInv, RowsTyped
<1>1. CASE Begin
  <2>1. UNCHANGED <<mapped, inflight, foreign, rows>> /\ step = "begin" /\ step' \in {"done", "bind"}
    BY <1>1 DEF Begin, Finish, router
  <2> QED
    BY <2>1 DEF LeaseInv
<1>2. CASE Bind
  <2>1. UNCHANGED <<mapped, inflight, foreign, rows>> /\ step = "bind" /\ step' \in {"done", "baseline"}
    BY <1>2 DEF Bind, Finish, router
  <2> QED
    BY <2>1 DEF LeaseInv
<1>3. CASE PathStart \/ PathFinish
  <2>1. UNCHANGED <<mapped, inflight, foreign, k>>
    BY <1>3 DEF PathStart, PathFinish, router
  <2>2. CASE step \in {"baseline", "baseline_wait"}
    <3>1. \/ step' = "done"
          \/ step' \in {"baseline_wait", "precreate"} /\ rows' = rows
      BY <1>3, <2>2 DEF PathStart, PathFinish, PathRefused, StopRow, Finish
    <3> QED
      BY <2>1, <2>2, <3>1 DEF LeaseInv
  <2>3. CASE step \in {"verify", "verify_wait"}
    <3>1. /\ step' \in {"verify_wait", "delete"} /\ rows' = rows
          /\ \/ row' = row
             \/ \E w : row' = [row EXCEPT !.stopped = w]
             \/ \E e : row' = [row EXCEPT !.verification = e]
      BY <1>3, <2>3 DEF PathStart, PathFinish, PathRefused
    <3>2. Uncertain(row')
      BY <1>0, <2>3, <3>1 DEF LeaseInv, Uncertain, MappingRows
    <3> QED
      BY <2>1, <2>3, <3>1, <3>2 DEF LeaseInv
  <2> QED
    BY <1>3, <2>2, <2>3 DEF PathStart, PathFinish
<1>4. CASE PreCreate
  <2>1. /\ UNCHANGED <<mapped, inflight, foreign, k>> /\ step = "precreate"
        /\ step' = "done" \/ (step' \in {"create", "probe"} /\ rows' = rows)
    BY <1>4 DEF PreCreate, router, StopRow, Finish
  <2> QED
    BY <2>1 DEF LeaseInv
<1>5. CASE Create
  <2>1. /\ step = "create" /\ UNCHANGED <<k, rows, foreign>> /\ mapped = {} /\ inflight = {}
    BY <1>5 DEF Create, frame, router, LeaseInv
  <2>2. \/ /\ Effect("creation_outcome_unknown", "expiry_unknown")
           /\ \/ UNCHANGED <<mapped, inflight>>
              \/ mapped' = mapped \cup {k} /\ UNCHANGED inflight
              \/ inflight' = inflight \cup {k} /\ UNCHANGED mapped
        \/ Effect("failed", "not_created") /\ UNCHANGED <<mapped, inflight>>
        \/ mapped' = mapped \cup {k} /\ AdoptFinite /\ UNCHANGED inflight
        \/ mapped' = mapped \cup {k} /\ step' = "inline_delete" /\ UNCHANGED inflight
    BY <1>5 DEF Create, LostCreate, router
  <2>3. \A o, c : Effect(o, c) => step' = "settle" /\ (c = "expiry_unknown" => Uncertain(row'))
    BY <1>0 DEF Effect, Uncertain, MappingRows
  <2>4. AdoptFinite => Uncertain(row') /\ step' \in {"verify", "delete"}
    BY <1>0, AdoptedUncertain
  <2> QED
    BY <2>1, <2>2, <2>3, <2>4 DEF LeaseInv
<1>6. CASE Probe
  <2>1. /\ step = "probe" /\ UNCHANGED <<k, rows, mapped, inflight, foreign>>
        /\ step' = "settle" \/ (step' = "add" /\ k \notin foreign)
    BY <1>6 DEF Probe, frame, router, Effect
  <2> QED
    BY <2>1 DEF LeaseInv
<1>7. CASE Add
  <2>1. /\ step = "add" /\ UNCHANGED <<k, rows>> /\ mapped = {} /\ inflight = {} /\ k \notin foreign
    BY <1>7 DEF Add, frame, LeaseInv
  <2>2. \/ /\ Effect("creation_outcome_unknown", "creation_outcome_unknown")
           /\ \/ UNCHANGED <<mapped, inflight>>
              \/ mapped' = mapped \cup {k} /\ UNCHANGED inflight
              \/ inflight' = inflight \cup {k} /\ UNCHANGED mapped
           /\ foreign' = foreign \/ foreign' = foreign \ (mapped' \cup inflight')
        \/ \E o : Effect(o, "not_created") /\ UNCHANGED <<mapped, inflight, foreign>>
        \/ /\ mapped' = mapped \cup {k} /\ step' = "confirm" /\ UNCHANGED inflight
           /\ foreign' = foreign \ {k}
    BY <1>7 DEF Add, LostCreate, router
  <2>3. \A o, c : Effect(o, c) =>
          step' = "settle" /\ (c = "creation_outcome_unknown" => Uncertain(row'))
    BY <1>0 DEF Effect, Uncertain, MappingRows
  <2>4. foreign' = foreign
    BY <2>1, <2>2
  <2> QED
    BY <2>1, <2>2, <2>3, <2>4 DEF LeaseInv
<1>8. CASE Confirm
  <2>1. /\ step = "confirm" /\ UNCHANGED <<k, rows, mapped, inflight, foreign>> /\ inflight = {}
    BY <1>8 DEF Confirm, frame, LeaseInv
  <2>2. \/ Effect("creation_outcome_unknown", "creation_outcome_unknown")
        \/ AdoptFinite
        \/ step' = "inline_delete"
    BY <1>8 DEF Confirm
  <2>3. \A o, c : Effect(o, c) =>
          step' = "settle" /\ (c = "creation_outcome_unknown" => Uncertain(row'))
    BY <1>0 DEF Effect, Uncertain, MappingRows
  <2>4. AdoptFinite => Uncertain(row') /\ step' \in {"verify", "delete"}
    BY <1>0, AdoptedUncertain
  <2> QED
    BY <2>1, <2>2, <2>3, <2>4 DEF LeaseInv
<1>9. CASE InlineDelete \/ Delete
  <2>1. /\ step \in {"inline_delete", "delete"} /\ step' = "settle"
        /\ UNCHANGED <<k, rows, inflight, foreign>> /\ inflight = {} /\ mapped \subseteq {k}
    BY <1>9 DEF InlineDelete, Delete, Effect, frame, LeaseInv
  <2>2. \/ mapped' = {}
        \/ mapped' = mapped /\ Uncertain(row')
    <3>1. CASE InlineDelete
      <4>1. \E o, c : /\ row' = [row EXCEPT !.create = o, !.cleanup = c]
                      /\ \/ c \in {"delete_failed", "expiry_unknown"}
                         \/ c = "confirmed_deleted" /\ mapped' = mapped \ {k}
                      /\ mapped' \in {mapped, mapped \ {k}}
        BY <3>1 DEF InlineDelete, Effect, Deleted
      <4> QED
        BY <1>0, <2>1, <4>1 DEF Uncertain, MappingRows
    <3>2. CASE Delete
      <4>1. \/ row' = row /\ mapped' = mapped
            \/ \E c : /\ row' = [row EXCEPT !.cleanup = c]
                      /\ \/ c = "delete_failed"
                         \/ c = "confirmed_deleted" /\ mapped' = mapped \ {k}
                      /\ mapped' \in {mapped, mapped \ {k}}
        BY <3>2 DEF Delete, Deleted
      <4>2. Uncertain(row)
        BY <3>2 DEF Delete, LeaseInv
      <4> QED
        BY <1>0, <2>1, <4>1, <4>2 DEF Uncertain, MappingRows
    <3> QED
      BY <1>9, <3>1, <3>2
  <2> QED
    BY <2>1, <2>2 DEF LeaseInv
<1>10. CASE Settle
  <2>1. /\ UNCHANGED <<mapped, inflight, foreign, row>> /\ step = "settle"
        /\ rows' = Append(rows, row)
        /\ \/ step' = "done" /\ UNCHANGED k
           \/ step' = "bind" /\ ~Uncertain(row)
    BY <1>10 DEF Settle, Finish, router
  <2>2. \A i \in DOMAIN rows' : Uncertain(rows'[i]) => i = Len(rows) + 1
    BY <1>0, <2>1, RowsAppended DEF LeaseInv
  <2>3. Len(rows) + 1 \in DOMAIN rows' /\ rows'[Len(rows) + 1] = row
    BY <1>0, <2>1, RowsAppended
  <2> QED
    BY <2>1, <2>2, <2>3 DEF LeaseInv
<1> QED
  BY <1>1, <1>2, <1>3, <1>4, <1>5, <1>6, <1>7, <1>8, <1>9, <1>10 DEF MappingStep
-----------------------------------------------------------------------------
(* The delete that is owed. *)

(* While a delete is owed, it can be sent.                                 *)
LEMMA DeleteSendable ==
  ASSUME PhaseInv, PlansTyped, OwedInv, step \in Owning
  PROVE  Sendable(TRUE)
<1>1. now < CollectorEnd
  BY Ends, SessionAssumption DEF PhaseInv, OwedInv
<1>2. /\ 0 <= acct.dialbacks /\ Count(UdpRouter(plan)) <= acct.cleanupDatagrams
      /\ 1 <= acct.cleanupControl
  BY DEF PlansTyped, Accounts, OwedInv
<1>3. CanCharge(acct, Count(UdpRouter(plan)), 1, 0, TRUE)
  BY <1>2 DEF CanCharge
<1> QED
  BY <1>1, <1>3, Zenon DEF Sendable, End

(* Ordinary requests leave what the delete needs.                          *)
LEMMA RequestKeeps ==
  ASSUME PhaseInv, PlansTyped, OwedInv, step \in Asking \cup {"confirm"},
         NotSent(FALSE) \/ Send(FALSE), UNCHANGED <<plans, k, grant>>
  PROVE  /\ now' <= ActiveEnd' + Overrun
         /\ 1 <= acct'.cleanupControl
         /\ Count(UdpRouter(plan))' <= acct'.cleanupDatagrams
<1>1. /\ acct'.cleanupDatagrams = acct.cleanupDatagrams
      /\ acct'.cleanupControl = acct.cleanupControl
  BY RequestCharged, Zenon DEF PlansTyped
<1>2. UNCHANGED now \/ ReturnsBy(End(FALSE))
  BY Zenon DEF NotSent, Send
<1>3. ReturnsBy(End(FALSE)) => now' <= ActiveEnd + Overrun
  BY Ends, SessionAssumption DEF ReturnsBy, End, PhaseInv
<1>4. UNCHANGED <<ActiveEnd, plan>>
  BY DEF ActiveEnd, CollectorEnd, plan
<1> QED
  BY <1>1, <1>2, <1>3, <1>4 DEF OwedInv, UdpRouter

(* Every grant that is correlated is asked to be deleted next, or was.     *)
LEMMA OwedNext ==
  ASSUME PhaseInv, PlanInv, OwedInv, MappingStep
  PROVE  OwedInv'
<1> USE DEF Running, Measuring, Asking, Owning
<1>0. PlansTyped /\ grant \in Grants /\ now \in Nat /\ acct \in Accounts
  BY DEF PlanInv, PlansTyped, PhaseInv
<1>1. CASE Begin \/ Bind \/ Settle
  <2>1. /\ UNCHANGED <<known, asked>> /\ step \in {"begin", "bind", "settle"}
        /\ step' \in {"bind", "baseline", "done"}
    BY <1>1 DEF Begin, Bind, Settle, Finish, router
  <2> QED
    BY <2>1 DEF OwedInv
<1>2. CASE PathStart \/ PathFinish
  <2>1. UNCHANGED <<known, asked, plans, k, grant>>
    BY <1>2 DEF PathStart, PathFinish, router
  <2>2. CASE step \in {"baseline", "baseline_wait"}
    <3>1. step' \in {"baseline_wait", "precreate", "done"}
      BY <1>2, <2>2 DEF PathStart, PathFinish, PathRefused, StopRow, Finish
    <3> QED
      BY <2>1, <2>2, <3>1 DEF OwedInv
  <2>3. CASE step \in {"verify", "verify_wait"}
    <3>1. step' \in {"verify_wait", "delete"}
      BY <1>2, <2>3 DEF PathStart, PathFinish, PathRefused
    <3>2. /\ acct'.cleanupDatagrams = acct.cleanupDatagrams
          /\ acct'.cleanupControl = acct.cleanupControl
      <4>1. Count(Udp(plan)) \in Nat /\ 1 \in Nat /\ 2 \in Nat
        BY DEF Count
      <4>2. \/ acct' = acct
            \/ /\ CanCharge(acct, Count(Udp(plan)), 2, 1, FALSE)
               /\ acct' = Charged(acct, Count(Udp(plan)), 2, 1, FALSE)
        <5>1. PathFinish => acct' = acct
          BY DEF PathFinish
        <5>2. CASE PathStart
          BY <5>2, Zenon DEF PathStart
        <5> QED
          BY <1>2, <5>1, <5>2, Zenon
      <4>3. CASE acct' = acct
        BY <4>3
      <4>4. CASE acct' = Charged(acct, Count(Udp(plan)), 2, 1, FALSE)
        BY <1>0, <4>1, <4>2, <4>4, ChargeTyped, Zenon
      <4> QED
        BY <4>2, <4>3, <4>4, Zenon
    <3>3. now' = now \/ now' <= ActiveEnd + Overrun
      <4>1. PathStart => now' = now \/ ReturnsBy(ActiveEnd)
        BY DEF PathStart
      <4>2. PathFinish => now' = now
        BY DEF PathFinish
      <4> QED
        BY <1>0, <1>2, <4>1, <4>2, Ends, SessionAssumption DEF ReturnsBy
    <3>4. UNCHANGED <<ActiveEnd, plan>>
      BY <2>1 DEF ActiveEnd, CollectorEnd, plan
    <3> QED
      BY <2>1, <2>3, <3>1, <3>2, <3>3, <3>4 DEF OwedInv, UdpRouter
  <2> QED
    BY <1>2, <2>2, <2>3 DEF PathStart, PathFinish
<1>3. CASE PreCreate
  <2>1. /\ UNCHANGED <<known, asked, plans, k, grant, now, acct>> /\ step = "precreate"
        /\ \/ step' = "done"
           \/ /\ step' \in {"create", "probe"} /\ now < ActiveEnd
              /\ acct.cleanupControl # 0
              /\ ~(acct.cleanupDatagrams < Count(UdpRouter(plan)))
    BY <1>3 DEF PreCreate, StopRow, Finish, router, Ordinary
  <2>2. /\ acct.cleanupControl \in Nat /\ acct.cleanupDatagrams \in Nat
        /\ Count(UdpRouter(plan)) \in Nat
    BY <1>0 DEF Accounts, Count
  <2>3. now < ActiveEnd => now <= ActiveEnd + Overrun
    BY <1>0, Ends, SessionAssumption
  <2>4. UNCHANGED <<ActiveEnd, plan>>
    BY <2>1 DEF ActiveEnd, CollectorEnd, plan
  <2> QED
    BY <2>1, <2>2, <2>3, <2>4 DEF OwedInv, UdpRouter
<1>4. CASE Create \/ Probe \/ Add \/ Confirm
  <2>1. /\ NotSent(FALSE) \/ Send(FALSE)
        /\ step \in Asking \cup {"confirm"} /\ UNCHANGED <<plans, k, grant, asked>>
    BY <1>4, Zenon DEF Create, Probe, Add, Confirm, frame, router
  <2>2. known' = known \/ (known' = known \cup {k} /\ step' \in Owning)
    BY <1>4 DEF Create, Probe, Add, Confirm, AdoptFinite, router
  <2>3. /\ now' <= ActiveEnd' + Overrun
        /\ 1 <= acct'.cleanupControl
        /\ Count(UdpRouter(plan))' <= acct'.cleanupDatagrams
    BY <1>0, <2>1, RequestKeeps, Zenon
  <2> QED
    BY <2>1, <2>2, <2>3 DEF OwedInv
<1>5. CASE InlineDelete \/ Delete
  <2>1. step \in Owning
    BY <1>5 DEF InlineDelete, Delete
  <2>2. ~NotSent(TRUE)
    BY <1>0, <2>1, DeleteSendable, Zenon DEF NotSent
  <2>3. asked' = asked \cup {k} /\ step' = "settle" /\ known' = known
    BY <1>5, <2>2, Zenon DEF InlineDelete, Delete, Effect
  <2> QED
    BY <2>1, <2>3 DEF OwedInv
<1> QED
  BY <1>1, <1>2, <1>3, <1>4, <1>5 DEF MappingStep
-----------------------------------------------------------------------------
(* The whole run. *)

TraversalInv == PhaseInv /\ PlanInv /\ LeaseInv /\ OwedInv

(* The invariant holds before the grant is looked at.                      *)
LEMMA TraversalStart == TraversalInit => TraversalInv
<1> SUFFICES ASSUME TraversalInit PROVE TraversalInv
  OBVIOUS
<1> USE DEF TraversalInit, MappingInit, Running, Measuring, Asking, Owning
<1>0. 0 \notin DOMAIN Order
  BY DEF Order
<1>1. PhaseInv
  BY <1>0, SessionAssumption DEF PhaseInv, SessionInit, DiscoveryInit, BehaviourInit, Phases
<1>2. PlansTyped
  BY MappingAssumption DEF PlansTyped, Accounts
<1>3. RowsTyped
  BY DEF RowsTyped, MappingRows, Mutations, Evidence, Cleanups, Stops, Lifetimes
<1>4. Counted
  BY DEF Counted
<1>5. LeaseInv
  BY DEF LeaseInv, Held
<1>6. OwedInv
  BY DEF OwedInv
<1> QED
  BY <1>1, <1>2, <1>3, <1>4, <1>5, <1>6 DEF TraversalInv, PlanInv

(* A traversal step is one of the lifecycle, one of the gateway, the       *)
(* handing over of what discovery found, or leaves the lifecycle alone;    *)
(* the clock then moves only before the lifecycle begins.                  *)
LEMMA Kinds ==
  ASSUME PhaseInv, TraversalNext
  PROVE  \/ MappingStep
         \/ GatewayStep
         \/ \E g \in GatewayRecords : Discovered(g)
         \/ UNCHANGED mapping /\ (step = "discover" \/ UNCHANGED <<grant, now>>)
<1>1. CASE HandOver
  <2>1. ASSUME NEW reserved \in BOOLEAN, NEW address \in {"none", "observed", "other"}
        PROVE  [reserved |-> reserved, igd |-> found \in {"wan_ip", "wan_ppp"},
                address |-> address, datagrams |-> 1, control |-> fetches] \in GatewayRecords
    BY DEF GatewayRecords, PhaseInv
  <2>2. \/ UNCHANGED mapping /\ step = "discover"
        \/ \E g \in GatewayRecords : Discovered(g)
    BY <1>1, <2>1 DEF HandOver
  <2> QED
    BY <2>2
<1>2. CASE (BehaviourStep \/ Rebind) /\ UNCHANGED <<mapping, discovery>>
  <2>1. BehaviourStep => step = "discover"
    BY BehaviourPhase DEF PhaseInv
  <2>2. Rebind => UNCHANGED <<grant, now>>
    BY DEF Rebind, session
  <2> QED
    BY <1>2, <2>1, <2>2
<1> QED
  BY <1>1, <1>2 DEF TraversalNext, Discover, Reserve, StopArrives

(* What each kind of step does. *)
LEMMA TraversalKeeps == TraversalInv /\ [TraversalNext]_traversalVars => TraversalInv' /\ foreign' = foreign
<1> SUFFICES ASSUME TraversalInv, [TraversalNext]_traversalVars
             PROVE  TraversalInv' /\ foreign' = foreign
  OBVIOUS
<1> USE DEF Running, Measuring, Asking, Owning
<1>0. PhaseInv /\ PlanInv /\ LeaseInv /\ OwedInv
  BY DEF TraversalInv
<1>1. ASSUME UNCHANGED mapping, step = "discover" \/ UNCHANGED <<grant, now>>
      PROVE  PlanInv' /\ LeaseInv' /\ OwedInv' /\ foreign' = foreign
  <2>1. UNCHANGED <<step, plans, gw, n, k, acct, row, rows, stopped, life, mapped, inflight, foreign,
                    known, asked>>
    BY <1>1 DEF mapping
  <2>2. PlanInv'
    BY <1>0, <2>1 DEF PlanInv, PlansTyped, RowsTyped, Counted
  <2>3. LeaseInv'
    BY <1>0, <2>1 DEF LeaseInv, Held, Uncertain
  <2>4. OwedInv'
    BY <1>0, <1>1, <2>1 DEF OwedInv, plan, UdpRouter, ActiveEnd, CollectorEnd
  <2> QED
    BY <2>1, <2>2, <2>3, <2>4
<1>2. CASE UNCHANGED traversalVars
  <2>1. UNCHANGED <<mapping, grant, phase, now, stop, fetches, obs>>
    BY <1>2 DEF traversalVars, session, discovery, behaviour
  <2>2. PhaseInv'
    BY <1>0, <2>1 DEF PhaseInv, mapping
  <2> QED
    BY <1>1, <2>1, <2>2 DEF TraversalInv
<1>3. CASE TraversalNext
  <2>1. PhaseInv'
    BY <1>0, <1>3, PhaseNext
  <2>2. CASE MappingStep
    BY <1>0, <2>1, <2>2, PlanNext, LeaseNext, OwedNext DEF TraversalInv
  <2>3. CASE GatewayStep
    <3>1. /\ UNCHANGED <<step, plans, gw, n, k, acct, row, rows, stopped, life, foreign, known, asked,
                         grant, now>>
          /\ \/ \E i \in inflight : inflight' = inflight \ {i} /\ mapped' = mapped \cup {i}
             \/ mapped' = {} /\ inflight' = inflight
      BY <2>3 DEF GatewayStep, LateApply, Expire, session
    <3>2. PlanInv'
      BY <1>0, <3>1 DEF PlanInv, PlansTyped, RowsTyped, Counted
    <3>3. Held' \subseteq Held /\ (inflight = {} => inflight' = {}) /\ (mapped' = {} \/ inflight' = {})
      BY <1>0, <3>1 DEF LeaseInv, Held
    <3>4. LeaseInv'
      BY <1>0, <3>1, <3>3 DEF LeaseInv, Held, Uncertain
    <3>5. OwedInv'
      BY <1>0, <3>1 DEF OwedInv, plan, UdpRouter, ActiveEnd, CollectorEnd
    <3> QED
      BY <2>1, <3>1, <3>2, <3>4, <3>5 DEF TraversalInv
  <2>4. CASE \E g \in GatewayRecords : Discovered(g)
    <3>1. /\ UNCHANGED <<plans, n, k, acct, row, rows, stopped, life, mapped, inflight, foreign, known,
                         asked>>
          /\ step = "discover" /\ step' = "begin"
          /\ gw'.datagrams \in Nat /\ gw'.control \in Nat
      BY <2>4 DEF Discovered, router, GatewayRecords
    <3>2. PlanInv'
      BY <1>0, <3>1 DEF PlanInv, PlansTyped, RowsTyped, Counted
    <3>3. LeaseInv' /\ OwedInv'
      BY <1>0, <3>1 DEF LeaseInv, Held, Uncertain, OwedInv
    <3> QED
      BY <2>1, <3>1, <3>2, <3>3 DEF TraversalInv
  <2>5. CASE UNCHANGED mapping /\ (step = "discover" \/ UNCHANGED <<grant, now>>)
    BY <1>1, <2>1, <2>5 DEF TraversalInv
  <2> QED
    BY <1>0, <1>3, <2>2, <2>3, <2>4, <2>5, Kinds
<1> QED
  BY <1>2, <1>3

(* The invariant of a traversal run.                                       *)
THEOREM TraversalInvariance == TraversalSpec => []TraversalInv
BY TraversalStart, TraversalKeeps, PTL DEF TraversalSpec

(* A run of the mapping lifecycle is well typed, and no report is made     *)
(* before every correlated grant has been sent its delete: no stop, no     *)
(* deadline and no spent allowance suppresses the cleanup block of         *)
(* run_mapping_lifecycle or the inline delete.                             *)
THEOREM MappingIsSafe == TraversalSpec => []MappingSafe
<1>1. TraversalInv => MappingTypeOK
  <2> SUFFICES ASSUME TraversalInv PROVE MappingTypeOK
    OBVIOUS
  <2>1. step \in Steps /\ phase \in Phases /\ now \in Nat /\ stop \in BOOLEAN
    BY DEF TraversalInv, PhaseInv, Steps, Running, Measuring, Asking, Owning
  <2>2. \A f \in DOMAIN acct : acct[f] \in Nat
    BY DEF TraversalInv, PlanInv, PlansTyped, Accounts
  <2> QED
    BY <2>1, <2>2 DEF TraversalInv, PlanInv, RowsTyped, Counted, MappingTypeOK
<1>2. TraversalInv => DeleteOwed
  BY DEF TraversalInv, OwedInv, Owning, DeleteOwed
<1> QED
  BY <1>1, <1>2, TraversalInvariance, PTL DEF MappingSafe

(* An entry that another host holds on the tuple is never overwritten: the *)
(* probe keeps AddPortMapping away from it, also when its answer is lost.  *)
THEOREM ForeignIsUntouched == TraversalSpec => ForeignUntouched
<1>1. TraversalInv /\ [TraversalNext]_traversalVars => [foreign' = foreign]_mappingVars
  BY TraversalKeeps
<1> QED
  BY <1>1, TraversalInvariance, PTL DEF TraversalSpec, ForeignUntouched

(* A step of the lifecycle takes one mapping when none may exist, lets go  *)
(* of the only one, or leaves what may exist alone; only the last may end  *)
(* the run.                                                                *)
LEMMA LeaseMoves ==
  ASSUME MappingStep, PhaseInv, PlanInv, LeaseInv
  PROVE  \/ Held' = Held
         \/ Held = {} /\ Held' = {k} /\ step' # "done"
         \/ Held' = {} /\ step' # "done"
<1> USE DEF Running, Measuring, Asking, Owning
<1>1. CASE Begin \/ Bind \/ PathStart \/ PathFinish \/ PreCreate \/ Settle
  BY <1>1 DEF Begin, Bind, PathStart, PathFinish, PreCreate, Settle, router, Held
<1>2. CASE Probe \/ Confirm
  BY <1>2 DEF Probe, Confirm, router, Held
<1>3. CASE Create
  <2>1. mapped = {} /\ inflight = {}
    BY <1>3 DEF Create, LeaseInv, Held
  <2>2. step' # "done"
    BY <1>3 DEF Create, Effect, AdoptFinite
  <2>3. \/ UNCHANGED <<mapped, inflight>>
        \/ mapped' = mapped \cup {k} /\ UNCHANGED inflight
        \/ inflight' = inflight \cup {k} /\ UNCHANGED mapped
    BY <1>3 DEF Create, LostCreate, router
  <2> QED
    BY <2>1, <2>2, <2>3 DEF Held
<1>4. CASE Add
  <2>1. mapped = {} /\ inflight = {}
    BY <1>4 DEF Add, LeaseInv, Held
  <2>2. step' # "done"
    BY <1>4 DEF Add, Effect
  <2>3. \/ UNCHANGED <<mapped, inflight>>
        \/ mapped' = mapped \cup {k} /\ UNCHANGED inflight
        \/ inflight' = inflight \cup {k} /\ UNCHANGED mapped
    BY <1>4 DEF Add, LostCreate, router
  <2> QED
    BY <2>1, <2>2, <2>3 DEF Held
<1>5. CASE InlineDelete \/ Delete
  <2>1. inflight = {} /\ mapped \subseteq {k}
    BY <1>5 DEF InlineDelete, Delete, LeaseInv, Held
  <2>2. step' # "done" /\ UNCHANGED inflight /\ mapped' \in {mapped, mapped \ {k}}
    BY <1>5 DEF InlineDelete, Delete, Effect, Deleted
  <2> QED
    BY <2>1, <2>2 DEF Held
<1> QED
  BY <1>1, <1>2, <1>3, <1>4, <1>5 DEF MappingStep

(* Every step of a run is a step of the lease discipline or a stutter.     *)
LEMMA LeaseStep ==
  ASSUME TraversalInv, TraversalInv', [TraversalNext]_traversalVars
  PROVE  [Lease!Next]_<<mapped \cup inflight, Verdict>>
<1> USE DEF Held
<1>0. PhaseInv /\ PlanInv /\ LeaseInv /\ LeaseInv' /\ PhaseInv'
  BY DEF TraversalInv
<1>1. ASSUME UNCHANGED <<step, rows>> PROVE Verdict' = Verdict
  BY <1>1 DEF Verdict, Uncertain
<1>2. ASSUME step # "done", step' # "done" PROVE Verdict = "open" /\ Verdict' = "open"
  BY <1>2 DEF Verdict
<1>3. ASSUME step # "done", step' = "done", Held' = Held
      PROVE  Lease!Finish
  <2>1. Verdict = "open" /\ Verdict' \in {"clean", "uncertain"}
    BY <1>3 DEF Verdict
  <2>2. Held # {} => Verdict' = "uncertain"
    BY <1>0, <1>3 DEF Verdict, LeaseInv
  <2> QED
    BY <1>3, <2>1, <2>2 DEF Lease!Finish
<1>4. CASE UNCHANGED mapping \/ UNCHANGED traversalVars
  BY <1>1, <1>4 DEF mapping, traversalVars
<1>5. CASE \E g \in GatewayRecords : Discovered(g)
  BY <1>2, <1>5 DEF Discovered, router
<1>6. CASE GatewayStep
  <2>1. UNCHANGED <<step, rows>> /\ (Held' = Held \/ Held' = {})
    BY <1>0, <1>6 DEF GatewayStep, LateApply, Expire, LeaseInv
  <2> QED
    BY <1>1, <2>1 DEF Lease!Next, Lease!Release
<1>7. CASE MappingStep
  <2>1. step # "done"
    BY <1>0, <1>7, MappingPhase DEF PhaseInv, Running, Measuring, Asking, Owning
  <2>2. step \in Running \/ Held' = Held
    BY <1>7 DEF MappingStep, Begin, Bind, PathStart, PathFinish, PreCreate, Create, Probe, Add,
         Confirm, InlineDelete, Delete, Settle, router, Running, Measuring, Asking, Owning
  <2>3. CASE Held' = Held
    BY <1>2, <1>3, <2>1, <2>3 DEF Lease!Next
  <2>4. CASE step \in Running /\ Held = {} /\ Held' = {k} /\ step' # "done"
    <3>1. k \in 1..3
      BY <1>0, <2>4 DEF PlanInv, Counted
    <3>2. Lease!Take(k)
      BY <1>2, <2>1, <2>4 DEF Lease!Take
    <3> QED
      BY <3>1, <3>2 DEF Lease!Next
  <2>5. CASE Held' = {} /\ step' # "done"
    BY <1>2, <2>1, <2>5 DEF Lease!Next, Lease!Release
  <2> QED
    BY <1>0, <1>7, <2>2, <2>3, <2>4, <2>5, LeaseMoves
<1> QED
  BY <1>0, <1>4, <1>5, <1>6, <1>7, Kinds

(* The lifecycle implements the lease discipline: one mapping at a time,   *)
(* none after an uncertain one, and a clean report only when the gateway   *)
(* holds nothing of ours.                                                  *)
THEOREM LeaseImplemented == TraversalSpec => LeaseSpec
<1>1. TraversalInit => Lease!Init
  BY DEF TraversalInit, MappingInit, Lease!Init, Verdict
<1>2. TraversalInv /\ TraversalInv' /\ [TraversalNext]_traversalVars
        => [Lease!Next]_<<mapped \cup inflight, Verdict>>
  BY LeaseStep
<1> QED
  BY <1>1, <1>2, TraversalInvariance, PTL DEF TraversalSpec, LeaseSpec, Lease!Spec
-----------------------------------------------------------------------------
(* The gateway and its control point. *)

(* Every non-empty set of naturals has a least element.                    *)
LEMMA LeastNumber ==
  ASSUME NEW T, T \subseteq Nat, T # {}
  PROVE  \E x \in T : \A y \in T : x <= y
<1> DEFINE Less == {p \in Nat \X Nat : p[1] < p[2]}
<1>1. OpToRel(<, Nat) = Less
  BY DEF OpToRel
<1> HIDE DEF Less
<1>2. IsWellFoundedOn(Less, Nat)
  BY <1>1, NatLessThanWellFounded, Zenon
<1>3. PICK x \in T : \A y \in T : ~ (<<y, x>> \in Less)
  BY <1>2, WFMin
<1>4. ASSUME NEW y \in T PROVE x <= y
  <2>1. x \in Nat /\ y \in Nat
    OBVIOUS
  <2>2. y < x => <<y, x>> \in Less
    BY <2>1 DEF Less
  <2> QED
    BY <1>3, <2>1, <2>2
<1> QED
  BY <1>4

(* The state of select_control's loop after i candidates.                  *)
Loop(f, ss, m) ==
  f = [i \in 0..m |-> IF i = 0 THEN NothingSeen ELSE Look(f[i - 1], ss[i])]

(* One more candidate.                                                     *)
LEMMA LoopGrows ==
  ASSUME NEW ss, NEW m \in Nat, NEW g, Loop(g, ss, m)
  PROVE  \E h : Loop(h, ss, m + 1)
<1> DEFINE h == [i \in 0..(m + 1) |-> IF i <= m THEN g[i] ELSE Look(g[m], ss[m + 1])]
<1>1. \A i \in 0..m : g[i] = IF i = 0 THEN NothingSeen ELSE Look(g[i - 1], ss[i])
  BY DEF Loop
<1>2. \A i \in 0..m : h[i] = g[i]
  OBVIOUS
<1>3. h[m + 1] = Look(g[m], ss[m + 1])
  OBVIOUS
<1>4. ASSUME NEW i \in 0..(m + 1)
      PROVE  h[i] = IF i = 0 THEN NothingSeen ELSE Look(h[i - 1], ss[i])
  <2>1. CASE i = m + 1
    <3>1. i - 1 = m /\ m \in 0..m /\ i # 0
      BY <2>1
    <3>2. h[i - 1] = g[m]
      BY <1>2, <3>1
    <3> QED
      BY <1>3, <2>1, <3>1, <3>2
  <2>2. CASE i # m + 1
    <3>1. i \in 0..m /\ (i # 0 => i - 1 \in 0..m)
      BY <2>2
    <3> QED
      BY <1>1, <1>2, <3>1
  <2> QED
    BY <2>1, <2>2
<1>5. h = [i \in 0..(m + 1) |-> h[i]]
  OBVIOUS
<1> HIDE DEF h
<1> QED
  BY <1>4, <1>5 DEF Loop

(* The loop has a state after every number of candidates.                  *)
LEMMA LoopRuns ==
  ASSUME NEW ss, NEW c \in Nat
  PROVE  \E f : Loop(f, ss, c)
<1> SUFFICES ASSUME ~\E f : Loop(f, ss, c) PROVE FALSE
  OBVIOUS
<1> DEFINE T == {m \in Nat : ~\E f : Loop(f, ss, m)}
<1>1. PICK x \in T : \A y \in T : x <= y
  <2>1. T \subseteq Nat /\ T # {}
    OBVIOUS
  <2> QED
    BY <2>1, LeastNumber
<1>2. CASE x = 0
  <2>1. Loop([i \in 0..0 |-> NothingSeen], ss, 0)
    BY DEF Loop
  <2> QED
    BY <1>1, <1>2, <2>1
<1>3. CASE x # 0
  <2>1. x - 1 \in Nat /\ x - 1 \notin T /\ (x - 1) + 1 = x
    BY <1>1, <1>3
  <2>2. PICK m \in Nat : m = x - 1
    BY <2>1
  <2>3. PICK g : Loop(g, ss, m)
    BY <2>1, <2>2
  <2>4. \E h : Loop(h, ss, m + 1)
    BY <2>3, LoopGrows
  <2> QED
    BY <1>1, <2>1, <2>2, <2>4
<1> QED
  BY <1>2, <1>3

(* Looked is that loop.                                                    *)
LEMMA LookedLoops ==
  ASSUME NEW ss, Len(ss) \in Nat
  PROVE  Loop(Looked(ss), ss, Len(ss))
<1> DEFINE P(f) == f = [i \in 0..Len(ss) |-> IF i = 0 THEN NothingSeen ELSE Look(f[i - 1], ss[i])]
<1>1. Looked(ss) = CHOOSE f : P(f)
  BY Zenon DEF Looked
<1>2. PICK g : Loop(g, ss, Len(ss))
  BY LoopRuns
<1>3. P(g)
  BY <1>2, Zenon DEF Loop
<1> HIDE DEF P
<1>4. P(Looked(ss))
  BY <1>1, <1>3, Zenon
<1> QED
  BY <1>4, Zenon DEF P, Loop

\* What the loop has seen of the first i candidates.
Usable(ss, i, s) == \E j \in 1..i : ss[j].url = "ok" /\ ss[j].service = s
SeenTrue(p, ss, i) ==
  /\ p \in [ip : BOOLEAN, ppp : BOOLEAN, saw : SUBSET {"wrong_target", "malformed_port"},
            end : {"none", "malformed", "bounded"}]
  /\ p.ip => Usable(ss, i, "wan_ip")
  /\ p.ppp => Usable(ss, i, "wan_ppp")
  /\ ~p.ip /\ p.end = "none" => ~Usable(ss, i, "wan_ip")

(* One candidate after the others.                                         *)
LEMMA LookSees ==
  ASSUME NEW ss \in Seq(Services), NEW i \in 1..Len(ss), NEW p, SeenTrue(p, ss, i - 1)
  PROVE  SeenTrue(Look(p, ss[i]), ss, i)
<1>0. PICK s \in Services : s = ss[i]
  OBVIOUS
<1>1. /\ s.service \in {"wan_ip", "wan_ppp"}
      /\ s.url \in {"ok", "wrong_target", "malformed_port", "malformed", "bounded"}
  BY DEF Services
<1>2. \A v : Usable(ss, i, v) <=> Usable(ss, i - 1, v) \/ (s.url = "ok" /\ s.service = v)
  <2>1. \A j \in 1..i : j \in 1..(i - 1) \/ j = i
    OBVIOUS
  <2>2. i \in 1..i /\ \A j \in 1..(i - 1) : j \in 1..i
    OBVIOUS
  <2> QED
    BY <1>0, <2>1, <2>2 DEF Usable
<1>3. /\ p \in [ip : BOOLEAN, ppp : BOOLEAN, saw : SUBSET {"wrong_target", "malformed_port"},
                end : {"none", "malformed", "bounded"}]
      /\ p.ip => Usable(ss, i - 1, "wan_ip")
      /\ p.ppp => Usable(ss, i - 1, "wan_ppp")
      /\ ~p.ip /\ p.end = "none" => ~Usable(ss, i - 1, "wan_ip")
  BY DEF SeenTrue
<1> HIDE DEF Usable
<1>4. CASE p.ip \/ p.end # "none"
  <2>1. Look(p, s) = p
    BY <1>4 DEF Look
  <2> QED
    BY <1>0, <1>2, <1>3, <1>4, <2>1 DEF SeenTrue
<1>5. CASE ~p.ip /\ p.end = "none"
  <2>1. CASE s.url \in {"malformed", "bounded"}
    <3>1. Look(p, s) = [p EXCEPT !.end = s.url]
      BY <1>5, <2>1 DEF Look
    <3> QED
      BY <1>0, <1>2, <1>3, <1>5, <2>1, <3>1 DEF SeenTrue
  <2>2. CASE s.url \in {"wrong_target", "malformed_port"}
    <3>1. Look(p, s) = [p EXCEPT !.saw = p.saw \cup {s.url}]
      BY <1>5, <2>2 DEF Look
    <3>2. p.saw \cup {s.url} \in SUBSET {"wrong_target", "malformed_port"}
      BY <1>3, <2>2
    <3> QED
      BY <1>0, <1>2, <1>3, <1>5, <2>2, <3>1, <3>2 DEF SeenTrue
  <2>3. CASE s.url = "ok" /\ s.service = "wan_ip"
    <3>1. Look(p, s) = [p EXCEPT !.ip = TRUE]
      BY <1>5, <2>3 DEF Look
    <3> QED
      BY <1>0, <1>2, <1>3, <1>5, <2>3, <3>1 DEF SeenTrue
  <2>4. CASE s.url = "ok" /\ s.service = "wan_ppp"
    <3>1. Look(p, s) = [p EXCEPT !.ppp = TRUE]
      BY <1>5, <2>4 DEF Look
    <3>2. ~Usable(ss, i, "wan_ip") /\ Usable(ss, i, "wan_ppp")
      BY <1>2, <1>3, <1>5, <2>4
    <3> QED
      BY <1>0, <1>3, <1>5, <3>1, <3>2 DEF SeenTrue
  <2> QED
    BY <1>1, <2>1, <2>2, <2>3, <2>4
<1> QED
  BY <1>3, <1>4, <1>5

(* select_control returns an IP connection that is usable, or a PPP        *)
(* connection that is usable when no IP connection is.                     *)
LEMMA ControlSelected ==
  ASSUME NEW ss \in Seq(Services)
  PROVE  /\ SelectControl(ss) = "wan_ip" => Usable(ss, Len(ss), "wan_ip")
         /\ SelectControl(ss) = "wan_ppp" => Usable(ss, Len(ss), "wan_ppp") /\ ~Usable(ss, Len(ss), "wan_ip")
<1>0. Len(ss) \in Nat
  OBVIOUS
<1>1. PICK f : f = Looked(ss) /\ Loop(f, ss, Len(ss))
  BY <1>0, LookedLoops
<1>2. \A i \in 0..Len(ss) : f[i] = IF i = 0 THEN NothingSeen ELSE Look(f[i - 1], ss[i])
  BY <1>1 DEF Loop
<1>3. \A i \in 0..Len(ss) : SeenTrue(f[i], ss, i)
  <2> SUFFICES ASSUME NEW u \in 0..Len(ss), ~SeenTrue(f[u], ss, u) PROVE FALSE
    OBVIOUS
  <2> DEFINE T == {i \in 0..Len(ss) : ~SeenTrue(f[i], ss, i)}
  <2>1. PICK x \in T : \A y \in T : x <= y
    <3>1. T \subseteq Nat /\ T # {}
      OBVIOUS
    <3> QED
      BY <3>1, LeastNumber
  <2>2. CASE x = 0
    <3>1. f[0] = NothingSeen
      BY <1>0, <1>2
    <3>2. SeenTrue(NothingSeen, ss, 0)
      BY DEF SeenTrue, NothingSeen, Usable
    <3> QED
      BY <2>1, <2>2, <3>1, <3>2
  <2>3. CASE x # 0
    <3>1. x - 1 \in 0..Len(ss) /\ x - 1 \notin T /\ x \in 1..Len(ss)
      BY <2>1, <2>3
    <3>2. SeenTrue(f[x - 1], ss, x - 1)
      BY <3>1
    <3>3. f[x] = Look(f[x - 1], ss[x])
      BY <1>2, <2>1, <2>3
    <3>4. SeenTrue(Look(f[x - 1], ss[x]), ss, x)
      BY <3>1, <3>2, LookSees
    <3> QED
      BY <2>1, <3>3, <3>4
  <2> QED
    BY <2>2, <2>3
<1>4. PICK r : r = f[Len(ss)] /\ SeenTrue(r, ss, Len(ss))
  BY <1>0, <1>3
<1>5. SelectControl(ss) = CASE r.end # "none" -> r.end
       [] r.end = "none" /\ r.ip -> "wan_ip"
       [] r.end = "none" /\ ~r.ip /\ r.ppp -> "wan_ppp"
       [] OTHER -> IF "wrong_target" \in r.saw THEN "wrong_target"
                   ELSE IF "malformed_port" \in r.saw THEN "malformed_port" ELSE "none"
  BY <1>1, <1>4, Zenon DEF SelectControl
<1> HIDE DEF Usable
<1> QED
  BY <1>4, <1>5 DEF SeenTrue
-----------------------------------------------------------------------------
(* The usable default routes among the first m of a table, and what the    *)
(* loop of select_gateway has found of them in b and fl.                   *)
UsableRoutes(t, m) == {i \in 1..m : t[i].default /\ t[i].gateway # "bad"}
BestSoFar(t, m, b, fl) ==
  /\ b = 0 => UsableRoutes(t, m) = {} /\ "ambiguous" \notin fl
  /\ b # 0 =>
       /\ b \in UsableRoutes(t, m)
       /\ \A i \in UsableRoutes(t, m) : t[b].metric <= t[i].metric
       /\ "ambiguous" \in fl <=> \E i \in UsableRoutes(t, m) :
                                    t[i].metric = t[b].metric /\ t[i].gateway # t[b].gateway
       /\ "ambiguous" \notin fl => \A i \in UsableRoutes(t, m) :
                                     t[i].metric = t[b].metric => t[b].ifindex <= t[i].ifindex

(* One more route: what the loop does with it.                             *)
LEMMA RouteTaken ==
  ASSUME NEW t \in Seq(RouteRecords), NEW m \in Nat, m < Len(t),
         NEW b \in 0..m, NEW fl, BestSoFar(t, m, b, fl),
         NEW b2, NEW fl2,
         \/ /\ ~(t[m + 1].default /\ t[m + 1].gateway # "bad")
            /\ b2 = b /\ ("ambiguous" \in fl2 <=> "ambiguous" \in fl)
         \/ /\ t[m + 1].default /\ t[m + 1].gateway # "bad"
            /\ \/ b = 0 /\ b2 = m + 1 /\ fl2 = fl
               \/ b # 0 /\ t[m + 1].metric < t[b].metric /\ b2 = m + 1 /\ "ambiguous" \notin fl2
               \/ /\ b # 0 /\ t[m + 1].metric = t[b].metric /\ t[m + 1].gateway # t[b].gateway
                  /\ b2 = b /\ "ambiguous" \in fl2
               \/ /\ b # 0 /\ t[m + 1].metric = t[b].metric /\ t[m + 1].gateway = t[b].gateway
                  /\ t[m + 1].ifindex < t[b].ifindex /\ b2 = m + 1 /\ fl2 = fl
               \/ /\ b # 0 /\ t[m + 1].metric = t[b].metric /\ t[m + 1].gateway = t[b].gateway
                  /\ ~(t[m + 1].ifindex < t[b].ifindex) /\ b2 = b /\ fl2 = fl
               \/ b # 0 /\ t[m + 1].metric > t[b].metric /\ b2 = b /\ fl2 = fl
  PROVE  BestSoFar(t, m + 1, b2, fl2)
<1>0. m + 1 \in Nat /\ m + 1 \in 1..Len(t) /\ m + 1 # 0 /\ \A i \in 1..m : i \in 1..Len(t)
  OBVIOUS
<1>1. \A i \in 1..Len(t) : t[i] \in RouteRecords
  OBVIOUS
<1>2. \A i \in 1..Len(t) : t[i].metric \in Nat /\ t[i].ifindex \in Nat
  BY <1>1 DEF RouteRecords
<1> DEFINE U == UsableRoutes(t, m)
           V == UsableRoutes(t, m + 1)
<1>3. U \subseteq 1..Len(t) /\ m + 1 \notin U
  BY <1>0 DEF UsableRoutes
<1>4. V = IF t[m + 1].default /\ t[m + 1].gateway # "bad" THEN U \cup {m + 1} ELSE U
  <2>1. \A i : i \in 1..(m + 1) <=> i \in 1..m \/ i = m + 1
    OBVIOUS
  <2> QED
    BY <2>1 DEF UsableRoutes
<1>5. /\ b = 0 => U = {} /\ "ambiguous" \notin fl
      /\ b # 0 =>
           /\ b \in U
           /\ \A i \in U : t[b].metric <= t[i].metric
           /\ "ambiguous" \in fl <=> \E i \in U : t[i].metric = t[b].metric /\ t[i].gateway # t[b].gateway
           /\ "ambiguous" \notin fl => \A i \in U :
                                         t[i].metric = t[b].metric => t[b].ifindex <= t[i].ifindex
  BY DEF BestSoFar
<1>6. SUFFICES
        /\ b2 = 0 => V = {} /\ "ambiguous" \notin fl2
        /\ b2 # 0 =>
             /\ b2 \in V
             /\ \A i \in V : t[b2].metric <= t[i].metric
             /\ "ambiguous" \in fl2 <=> \E i \in V : t[i].metric = t[b2].metric /\ t[i].gateway # t[b2].gateway
             /\ "ambiguous" \notin fl2 => \A i \in V :
                                           t[i].metric = t[b2].metric => t[b2].ifindex <= t[i].ifindex
  BY DEF BestSoFar
<1> HIDE DEF U, V
<1>7. PICK x : x = m + 1
  OBVIOUS
<1>8. CASE ~(t[x].default /\ t[x].gateway # "bad")
  BY <1>4, <1>5, <1>7, <1>8
<1>9. CASE t[x].default /\ t[x].gateway # "bad" /\ b = 0
  BY <1>0, <1>2, <1>3, <1>4, <1>5, <1>7, <1>9
<1>10. CASE t[x].default /\ t[x].gateway # "bad" /\ b # 0
  <2>0. V = U \cup {x} /\ x \notin U /\ x # 0 /\ b \in U /\ x \in 1..Len(t) /\ U \subseteq 1..Len(t)
    BY <1>0, <1>3, <1>4, <1>5, <1>7, <1>10
  <2>1. \A i \in V : i \in U \/ i = x
    BY <2>0
  <2>2. /\ \A i \in U : t[b].metric <= t[i].metric
        /\ "ambiguous" \in fl <=> \E i \in U : t[i].metric = t[b].metric /\ t[i].gateway # t[b].gateway
        /\ "ambiguous" \notin fl => \A i \in U : t[i].metric = t[b].metric => t[b].ifindex <= t[i].ifindex
    BY <1>5, <1>10
  <2>3. \A i \in V : t[i].metric \in Nat /\ t[i].ifindex \in Nat
    BY <1>2, <2>0
  <2>4. b \in V /\ x \in V /\ U \subseteq V /\ x # 0
    BY <2>0
  <2>5. CASE t[x].metric < t[b].metric /\ b2 = x /\ "ambiguous" \notin fl2
    <3>1. \A i \in U : t[x].metric < t[i].metric
      BY <2>2, <2>3, <2>4, <2>5
    <3>2. \A i \in V : t[x].metric <= t[i].metric /\ (t[i].metric = t[x].metric => i = x)
      BY <2>1, <2>3, <2>4, <3>1
    <3>3. t[x].ifindex <= t[x].ifindex
      <4>1. PICK v \in Nat : v = t[x].ifindex
        BY <2>3, <2>4
      <4>2. v <= v
        OBVIOUS
      <4> QED
        BY <4>1, <4>2, Zenon
    <3>4. ~\E i \in V : t[i].metric = t[x].metric /\ t[i].gateway # t[x].gateway
      BY <3>2
    <3>5. \A i \in V : t[i].metric = t[x].metric => t[x].ifindex <= t[i].ifindex
      BY <3>2, <3>3
    <3> QED
      BY <2>4, <2>5, <3>2, <3>4, <3>5
  <2>6. CASE t[x].metric = t[b].metric /\ t[x].gateway # t[b].gateway /\ b2 = b /\ "ambiguous" \in fl2
    <3>1. \A i \in V : t[b].metric <= t[i].metric
      BY <2>1, <2>2, <2>3, <2>4, <2>6
    <3> QED
      BY <1>10, <2>4, <2>6, <3>1
  <2>7. CASE /\ t[x].metric = t[b].metric /\ t[x].gateway = t[b].gateway
             /\ t[x].ifindex < t[b].ifindex /\ b2 = x /\ fl2 = fl
    <3>1. \A i \in V : t[x].metric <= t[i].metric
      BY <2>1, <2>2, <2>3, <2>4, <2>7
    <3>2. "ambiguous" \in fl <=> \E i \in V : t[i].metric = t[x].metric /\ t[i].gateway # t[x].gateway
      BY <2>1, <2>2, <2>4, <2>7
    <3>3. ASSUME "ambiguous" \notin fl, NEW i \in V, t[i].metric = t[x].metric
          PROVE  t[x].ifindex <= t[i].ifindex
      <4>1. i \in U => t[b].ifindex <= t[i].ifindex
        BY <2>2, <2>7, <3>3
      <4> QED
        BY <2>1, <2>3, <2>4, <2>7, <4>1
    <3> QED
      BY <2>4, <2>7, <3>1, <3>2, <3>3
  <2>8. CASE /\ t[x].metric = t[b].metric /\ t[x].gateway = t[b].gateway
             /\ ~(t[x].ifindex < t[b].ifindex) /\ b2 = b /\ fl2 = fl
    <3>1. \A i \in V : t[b].metric <= t[i].metric
      BY <2>1, <2>2, <2>3, <2>4, <2>8
    <3>2. "ambiguous" \in fl <=> \E i \in V : t[i].metric = t[b].metric /\ t[i].gateway # t[b].gateway
      BY <2>1, <2>2, <2>4, <2>8
    <3>3. ASSUME "ambiguous" \notin fl, NEW i \in V, t[i].metric = t[b].metric
          PROVE  t[b].ifindex <= t[i].ifindex
      BY <2>1, <2>2, <2>3, <2>4, <2>8, <3>3
    <3> QED
      BY <1>10, <2>4, <2>8, <3>1, <3>2, <3>3
  <2>9. CASE t[x].metric > t[b].metric /\ b2 = b /\ fl2 = fl
    <3>1. \A i \in V : t[b].metric <= t[i].metric
      BY <2>1, <2>2, <2>3, <2>4, <2>9
    <3>2. t[x].metric # t[b].metric
      BY <2>3, <2>4, <2>9
    <3>3. \A i \in V : t[i].metric = t[b].metric => i \in U
      BY <2>1, <3>2
    <3> QED
      BY <1>10, <2>2, <2>4, <2>9, <3>1, <3>3
  <2> QED
    BY <1>7, <1>10, <2>5, <2>6, <2>7, <2>8, <2>9
<1> QED
  BY <1>8, <1>9, <1>10

(* A finite set has more than one element when two of them differ.         *)
LEMMA MoreThanOne ==
  ASSUME NEW S, IsFiniteSet(S)
  PROVE  Cardinality(S) > 1 <=> \E g, h \in S : g # h
<1>0. Cardinality(S) \in Nat
  BY FS_CardinalityType
<1>1. ASSUME NEW g \in S, NEW h \in S, g # h PROVE Cardinality(S) > 1
  <2>1. IsFiniteSet({g}) /\ Cardinality({g}) = 1 /\ h \notin {g}
    BY <1>1, FS_Singleton
  <2>2. Cardinality({g} \cup {h}) = IF h \in {g} THEN Cardinality({g}) ELSE Cardinality({g}) + 1
    BY <2>1, FS_AddElement, Zenon
  <2>3. {g} \cup {h} \subseteq S
    OBVIOUS
  <2>4. Cardinality({g} \cup {h}) <= Cardinality(S)
    BY <2>3, FS_Subset, Zenon
  <2>5. Cardinality({g} \cup {h}) = 2
    BY <2>1, <2>2
  <2> QED
    BY <1>0, <2>4, <2>5
<1>2. ASSUME \A g, h \in S : g = h PROVE ~(Cardinality(S) > 1)
  <2>1. CASE S = {}
    <3>1. Cardinality(S) = 0
      BY <2>1, FS_EmptySet, Zenon
    <3> QED
      BY <3>1
  <2>2. CASE S # {}
    <3>1. PICK g \in S : TRUE
      BY <2>2
    <3>2. S = {g}
      BY <1>2, <3>1
    <3>3. Cardinality(S) = 1
      BY <3>2, FS_Singleton, Zenon
    <3> QED
      BY <3>3
  <2> QED
    BY <2>1, <2>2
<1> QED
  BY <1>1, <1>2

(* Routes name more than one gateway when two of them differ.              *)
LEMMA ManyGateways ==
  ASSUME NEW S, IsFiniteSet(S), NEW t
  PROVE  Cardinality({t[i].gateway : i \in S}) > 1 <=> \E i, j \in S : t[i].gateway # t[j].gateway
<1> DEFINE G == {t[i].gateway : i \in S}
<1>1. [i \in S |-> t[i].gateway] \in Surjection(S, G)
  BY DEF Surjection
<1>2. (\E g, h \in G : g # h) <=> \E i, j \in S : t[i].gateway # t[j].gateway
  OBVIOUS
<1> HIDE DEF G
<1>3. IsFiniteSet(G)
  BY <1>1, FS_Surjection
<1>4. Cardinality(G) > 1 <=> \E g, h \in G : g # h
  BY <1>3, MoreThanOne
<1>5. Cardinality(G) > 1 <=> \E i, j \in S : t[i].gateway # t[j].gateway
  BY <1>2, <1>4
<1> QED
  BY <1>5 DEF G

(* What select_gateway knows at the end of the table.                      *)
AllUsable(t) == UsableRoutes(t, Len(t))
Lowest(t) == {i \in AllUsable(t) : \A j \in AllUsable(t) : t[i].metric <= t[j].metric}

(* What the loop has selected once it has read the whole table.            *)
LEMMA RoutesDone ==
  ASSUME NEW t \in Seq(RouteRecords), NEW b, NEW fl, BestSoFar(t, Len(t), b, fl)
  PROVE  /\ b = 0 <=> AllUsable(t) = {}
         /\ "ambiguous" \in fl <=> \E i, j \in Lowest(t) : t[i].gateway # t[j].gateway
         /\ "ambiguous" \notin fl /\ b # 0 =>
              b \in Lowest(t) /\ \A i \in Lowest(t) : t[b].ifindex <= t[i].ifindex
         /\ IsFiniteSet(Lowest(t))
<1> DEFINE usable == AllUsable(t)
           lowest == Lowest(t)
<1>0. /\ Len(t) \in Nat /\ usable = UsableRoutes(t, Len(t)) /\ usable \subseteq 1..Len(t)
      /\ lowest = {i \in usable : \A j \in usable : t[i].metric <= t[j].metric}
  BY DEF UsableRoutes, AllUsable, Lowest
<1> HIDE DEF usable, lowest
<1>1. \A i \in usable : t[i] \in RouteRecords
  BY <1>0
<1>2. \A i \in usable : t[i].metric \in Nat
  BY <1>1 DEF RouteRecords
<1>3. /\ b = 0 => usable = {} /\ "ambiguous" \notin fl
      /\ b # 0 =>
           /\ b \in usable
           /\ \A i \in usable : t[b].metric <= t[i].metric
           /\ "ambiguous" \in fl <=> \E i \in usable : t[i].metric = t[b].metric /\ t[i].gateway # t[b].gateway
           /\ "ambiguous" \notin fl => \A i \in usable :
                                         t[i].metric = t[b].metric => t[b].ifindex <= t[i].ifindex
  BY <1>0 DEF BestSoFar
<1>4. b # 0 => /\ b \in lowest
               /\ \A i \in usable : i \in lowest <=> t[i].metric = t[b].metric
  <2> SUFFICES ASSUME b # 0, NEW i \in usable
               PROVE  b \in lowest /\ (i \in lowest <=> t[i].metric = t[b].metric)
    BY <1>3
  <2>1. b \in lowest
    BY <1>0, <1>3
  <2>2. i \in lowest => t[i].metric <= t[b].metric /\ t[b].metric <= t[i].metric
    BY <1>0, <1>3
  <2>3. t[i].metric = t[b].metric => i \in lowest
    BY <1>0, <1>3
  <2> QED
    BY <1>2, <1>3, <2>1, <2>2, <2>3
<1>5. lowest \subseteq usable /\ usable \subseteq 1..Len(t)
  BY <1>0
<1>6. IsFiniteSet(lowest)
  <2>1. 1 \in Int /\ Len(t) \in Int
    BY <1>0
  <2>2. IsFiniteSet(1..Len(t))
    BY <2>1, FS_Interval
  <2> QED
    BY <1>5, <2>2, FS_Subset
<1> DEFINE Goal ==
      /\ b = 0 <=> usable = {}
      /\ "ambiguous" \in fl <=> \E i, j \in lowest : t[i].gateway # t[j].gateway
      /\ "ambiguous" \notin fl /\ b # 0 => b \in lowest /\ \A i \in lowest : t[b].ifindex <= t[i].ifindex
      /\ IsFiniteSet(lowest)
<1>9. ASSUME b = 0 PROVE Goal
  BY <1>3, <1>5, <1>6, <1>9
<1>10. ASSUME b # 0 PROVE Goal
  <2>1. usable # {}
    BY <1>3, <1>10
  <2>2. "ambiguous" \in fl => \E i, j \in lowest : t[i].gateway # t[j].gateway
    <3> SUFFICES ASSUME "ambiguous" \in fl PROVE \E i, j \in lowest : t[i].gateway # t[j].gateway
      OBVIOUS
    <3>1. PICK i \in usable : t[i].metric = t[b].metric /\ t[i].gateway # t[b].gateway
      BY <1>3, <1>10
    <3> QED
      BY <1>4, <1>10, <3>1
  <2>3. (\E i, j \in lowest : t[i].gateway # t[j].gateway) => "ambiguous" \in fl
    <3> SUFFICES ASSUME NEW i \in lowest, NEW j \in lowest, t[i].gateway # t[j].gateway
                 PROVE  "ambiguous" \in fl
      OBVIOUS
    <3>1. t[i].metric = t[b].metric /\ t[j].metric = t[b].metric /\ i \in usable /\ j \in usable
      BY <1>4, <1>5, <1>10
    <3>2. t[i].gateway # t[b].gateway \/ t[j].gateway # t[b].gateway
      OBVIOUS
    <3> QED
      BY <1>3, <1>10, <3>1, <3>2
  <2>4. "ambiguous" \notin fl => \A i \in lowest : t[b].ifindex <= t[i].ifindex
    BY <1>3, <1>4, <1>5, <1>10
  <2> QED
    BY <1>4, <1>6, <1>10, <2>1, <2>2, <2>3, <2>4
<1> QED
  BY <1>9, <1>10 DEF usable, lowest
-----------------------------------------------------------------------------
(* The state of a discovery: what its loop over the routes has found, what *)
(* its loop over the replies has fetched, and where a control point came   *)
(* from.                                                                   *)
SelectInv ==
  /\ table \in Seq(RouteRecords)
  /\ at \in Nat /\ at >= 1 /\ at <= Len(table) + 1
  /\ best \in 0..(at - 1)
  /\ BestSoFar(table, at - 1, best, flags)

DiscoveryInv ==
  /\ dstep \in {"routes", "select", "search", "replies", "done"}
  /\ dstep = "routes" => at = 1 /\ best = 0 /\ flags = {}
  /\ dstep = "select" => SelectInv
  /\ dstep # "done" => found = "none"
  /\ fetches \in Nat /\ fetches <= MaxFetches
  /\ document \in Seq(Services)
  /\ found = "wan_ip" => Usable(document, Len(document), "wan_ip")
  /\ found = "wan_ppp" => /\ Usable(document, Len(document), "wan_ppp")
                          /\ ~Usable(document, Len(document), "wan_ip")

(* Before the first route nothing is selected.                             *)
LEMMA NothingSelected ==
  ASSUME NEW t \in Seq(RouteRecords)
  PROVE  BestSoFar(t, 0, 0, {})
BY DEF BestSoFar, UsableRoutes

(* Reading the table keeps the invariant.                                  *)
LEMMA ReadKeeps == DiscoveryInv /\ ReadRoutes => DiscoveryInv'
<1> SUFFICES ASSUME DiscoveryInv, ReadRoutes PROVE DiscoveryInv'
  OBVIOUS
<1>1. dstep = "routes" /\ at = 1 /\ best = 0 /\ flags = {} /\ found = "none"
  BY DEF DiscoveryInv, ReadRoutes
<1>2. UNCHANGED <<at, best, flags, fetches, document>>
  BY DEF ReadRoutes
<1>3. CASE table' \in RouteTables /\ dstep' = "select" /\ UNCHANGED found
  <2>1. table' \in Seq(RouteRecords)
    BY <1>3, DiscoveryAssumption
  <2>2. PICK t \in Seq(RouteRecords) : t = table'
    BY <2>1
  <2>3. Len(t) \in Nat
    OBVIOUS
  <2>4. at' = 1 /\ best' = 0 /\ flags' = {}
    BY <1>1, <1>2
  <2>5. at' \in Nat /\ at' >= 1 /\ at' <= Len(t) + 1 /\ best' \in 0..(at' - 1) /\ at' - 1 = 0
    BY <2>3, <2>4
  <2>6. BestSoFar(t, 0, 0, {})
    BY NothingSelected
  <2>7. SelectInv'
    BY <2>1, <2>2, <2>4, <2>5, <2>6 DEF SelectInv
  <2> QED
    BY <1>1, <1>2, <1>3, <2>7 DEF DiscoveryInv
<1>4. CASE \E r \in {"cancelled", "bounded", "unsupported"} : Found(r)
  BY <1>1, <1>2, <1>4 DEF DiscoveryInv, Found
<1> QED
  BY <1>3, <1>4 DEF ReadRoutes

(* One turn of the loop over the routes keeps it.                          *)
LEMMA SelectKeeps == DiscoveryInv /\ SelectRoute => DiscoveryInv'
<1> SUFFICES ASSUME DiscoveryInv, SelectRoute PROVE DiscoveryInv'
  OBVIOUS
<1>0. /\ dstep = "select" /\ dstep' = "select" /\ at <= Len(table) /\ at' = at + 1 /\ found = "none"
      /\ UNCHANGED <<table, fetches, document, found>>
  BY DEF DiscoveryInv, SelectRoute
<1>1. SelectInv
  BY <1>0 DEF DiscoveryInv
<1>2. PICK t \in Seq(RouteRecords) : t = table
  BY <1>1 DEF SelectInv
<1>3. at \in Nat /\ at >= 1 /\ best \in 0..(at - 1) /\ BestSoFar(table, at - 1, best, flags)
  BY <1>1 DEF SelectInv
<1>4. PICK m \in Nat : m = at - 1
  BY <1>3
<1>5. m + 1 = at /\ m < Len(t) /\ best \in 0..m /\ Len(t) \in Nat
  BY <1>0, <1>2, <1>3, <1>4
<1>6. BestSoFar(t, m, best, flags)
  BY <1>2, <1>3, <1>4
<1>7. t[at] \in RouteRecords /\ (best # 0 => t[best] \in RouteRecords)
  BY <1>0, <1>2, <1>3, <1>5
<1>8. /\ t[at].default \in BOOLEAN /\ t[at].metric \in Nat /\ t[at].ifindex \in Nat
      /\ best # 0 => t[best].metric \in Nat /\ t[best].ifindex \in Nat
  BY <1>7 DEF RouteRecords
<1>9. PICK kept : /\ kept = CASE ~t[at].default -> <<best, flags>>
                              [] t[at].default /\ t[at].gateway = "bad" -> <<best, flags \cup {"invalid"}>>
                              [] OTHER -> NextRoute(t[at], best)
                  /\ best' = kept[1] /\ flags' = kept[2]
  BY <1>2, Zenon DEF SelectRoute
<1>10. \/ /\ ~(t[at].default /\ t[at].gateway # "bad")
          /\ best' = best /\ ("ambiguous" \in flags' <=> "ambiguous" \in flags)
       \/ /\ t[at].default /\ t[at].gateway # "bad"
          /\ \/ best = 0 /\ best' = at /\ flags' = flags
             \/ best # 0 /\ t[at].metric < t[best].metric /\ best' = at /\ "ambiguous" \notin flags'
             \/ /\ best # 0 /\ t[at].metric = t[best].metric /\ t[at].gateway # t[best].gateway
                /\ best' = best /\ "ambiguous" \in flags'
             \/ /\ best # 0 /\ t[at].metric = t[best].metric /\ t[at].gateway = t[best].gateway
                /\ t[at].ifindex < t[best].ifindex /\ best' = at /\ flags' = flags
             \/ /\ best # 0 /\ t[at].metric = t[best].metric /\ t[at].gateway = t[best].gateway
                /\ ~(t[at].ifindex < t[best].ifindex) /\ best' = best /\ flags' = flags
             \/ best # 0 /\ t[at].metric > t[best].metric /\ best' = best /\ flags' = flags
  <2>1. CASE ~t[at].default
    BY <1>9, <2>1
  <2>2. CASE t[at].default /\ t[at].gateway = "bad"
    BY <1>9, <2>2
  <2>3. CASE t[at].default /\ t[at].gateway # "bad"
    <3>1. kept = NextRoute(t[at], best)
      BY <1>9, <2>3
    <3>2. CASE best = 0
      BY <1>9, <2>3, <3>1, <3>2 DEF NextRoute
    <3>3. CASE best # 0 /\ t[at].metric < t[best].metric
      <4>1. kept = <<at, flags \ {"ambiguous"}>>
        BY <1>2, <1>8, <3>1, <3>3 DEF NextRoute
      <4> QED
        BY <1>9, <2>3, <3>3, <4>1
    <3>4. CASE best # 0 /\ t[at].metric = t[best].metric /\ t[at].gateway # t[best].gateway
      <4>1. kept = <<best, flags \cup {"ambiguous"}>>
        BY <1>2, <1>8, <3>1, <3>4 DEF NextRoute
      <4> QED
        BY <1>9, <2>3, <3>4, <4>1
    <3>5. CASE /\ best # 0 /\ t[at].metric = t[best].metric /\ t[at].gateway = t[best].gateway
               /\ t[at].ifindex < t[best].ifindex
      <4>1. kept = <<at, flags>>
        BY <1>2, <1>8, <3>1, <3>5 DEF NextRoute, InterfaceBefore
      <4> QED
        BY <1>9, <2>3, <3>5, <4>1
    <3>6. CASE /\ best # 0 /\ t[at].metric = t[best].metric /\ t[at].gateway = t[best].gateway
               /\ ~(t[at].ifindex < t[best].ifindex)
      <4>1. kept = <<best, flags>>
        BY <1>2, <1>8, <3>1, <3>6 DEF NextRoute, InterfaceBefore
      <4> QED
        BY <1>9, <2>3, <3>6, <4>1
    <3>7. CASE best # 0 /\ t[at].metric > t[best].metric
      <4>1. kept = <<best, flags>>
        BY <1>2, <1>8, <3>1, <3>7 DEF NextRoute, InterfaceBefore
      <4> QED
        BY <1>9, <2>3, <3>7, <4>1
    <3>8. best # 0 => \/ t[at].metric < t[best].metric
                      \/ t[at].metric = t[best].metric
                      \/ t[at].metric > t[best].metric
      BY <1>8
    <3> QED
      BY <3>2, <3>3, <3>4, <3>5, <3>6, <3>7, <3>8
  <2> QED
    BY <2>1, <2>2, <2>3
<1>11. PICK b2, fl2 : b2 = best' /\ fl2 = flags'
  OBVIOUS
<1>12. BestSoFar(t, m + 1, b2, fl2)
  BY <1>5, <1>6, <1>10, <1>11, RouteTaken
<1>13. best' = best \/ best' = at
  BY <1>10
<1>14. at' \in Nat /\ at' >= 1 /\ at' <= Len(t) + 1 /\ best' \in 0..(at' - 1) /\ at' - 1 = m + 1
  BY <1>0, <1>2, <1>3, <1>5, <1>13
<1>15. SelectInv'
  BY <1>0, <1>2, <1>11, <1>12, <1>14 DEF SelectInv
<1> QED
  BY <1>0, <1>15 DEF DiscoveryInv

(* So does the choice of the gateway,                                      *)
LEMMA GatewayKeeps == DiscoveryInv /\ SelectGateway => DiscoveryInv'
<1> SUFFICES ASSUME DiscoveryInv, SelectGateway PROVE DiscoveryInv'
  OBVIOUS
<1>1. /\ found = "none" /\ UNCHANGED <<fetches, document>>
      /\ \/ dstep' = "search" /\ found' = found
         \/ dstep' = "done" /\ found' \in {"invalid_gateway", "unsupported"}
  BY DEF DiscoveryInv, SelectGateway, Found
<1> QED
  BY <1>1 DEF DiscoveryInv

(* the search for devices,                                                 *)
LEMMA SearchKeeps == DiscoveryInv /\ Search => DiscoveryInv'
<1> SUFFICES ASSUME DiscoveryInv, Search PROVE DiscoveryInv'
  OBVIOUS
<1>1. /\ found = "none" /\ UNCHANGED <<fetches, document>>
      /\ \/ dstep' = "replies" /\ found' = found
         \/ dstep' = "done" /\ found' \in {"cancelled", "deadline"} \cup SsdpFaults
  BY DEF DiscoveryInv, Search, Found
<1> QED
  BY <1>1 DEF DiscoveryInv, SsdpFaults

(* the end of the replies,                                                 *)
LEMMA RepliesKeep == DiscoveryInv /\ RepliesDone => DiscoveryInv'
<1> SUFFICES ASSUME DiscoveryInv, RepliesDone PROVE DiscoveryInv'
  OBVIOUS
<1>1. /\ found = "none" /\ UNCHANGED <<fetches, document>> /\ dstep' = "done"
      /\ found' = CASE "wrong_target" \in flags -> "wrong_target"
                    [] "malformed_port" \in flags -> "malformed_port"
                    [] "malformed" \in flags -> "malformed"
                    [] OTHER -> "not_advertised"
  BY DEF DiscoveryInv, RepliesDone, Found
<1>2. found' # "wan_ip" /\ found' # "wan_ppp"
  BY <1>1
<1> QED
  BY <1>1, <1>2 DEF DiscoveryInv

(* one reply, with the document it leads to,                               *)
LEMMA ReplyKeeps == DiscoveryInv /\ Reply => DiscoveryInv'
<1> SUFFICES ASSUME DiscoveryInv, Reply PROVE DiscoveryInv'
  OBVIOUS
<1>1. dstep = "replies" /\ found = "none" /\ fetches \in Nat /\ fetches <= MaxFetches
  BY DEF DiscoveryInv, Reply
<1>2. /\ fetches' = fetches \/ (fetches < MaxFetches /\ fetches' = fetches + 1)
      /\ \/ /\ document' = document
            /\ \/ UNCHANGED <<dstep, found>>
               \/ dstep' = "done" /\ found' \notin {"wan_ip", "wan_ppp"}
         \/ \E d \in Documents :
              /\ document' = d
              /\ \/ UNCHANGED <<dstep, found>>
                 \/ dstep' = "done" /\ found' = SelectControl(d)
  <2>1. CASE stop /\ EndWith("cancelled") /\ UNCHANGED <<fetches, document>>
    BY <2>1 DEF EndWith, Found
  <2>2. CASE ~stop /\ now >= ActiveEnd /\ EndWith("deadline") /\ UNCHANGED <<fetches, document>>
    BY <2>2 DEF EndWith, Found
  <2>3. CASE /\ \/ \E r \in {"bounded", "malformed_port"} : EndWith(r)
                \/ \E r \in {"wrong_target", "malformed"} : Skip({r})
             /\ UNCHANGED <<fetches, document>>
    BY <2>3 DEF EndWith, Skip, Found
  <2>4. CASE EndWith("bounded") /\ UNCHANGED <<fetches, document>>
    BY <2>4 DEF EndWith, Found
  <2>5. CASE /\ fetches < MaxFetches /\ fetches' = fetches + 1
             /\ \E r \in GetFaults \cup {"redirect", "entity"} :
                  /\ IF r = "malformed" THEN Skip({r}) ELSE EndWith(r)
                  /\ UNCHANGED document
    BY <2>5 DEF EndWith, Skip, Found, GetFaults
  <2>6. CASE /\ fetches < MaxFetches /\ fetches' = fetches + 1
             /\ \E d \in Documents :
                  /\ document' = d
                  /\ LET c == SelectControl(d) IN
                     CASE c \in {"wan_ip", "wan_ppp", "malformed", "bounded"} -> EndWith(c)
                       [] c = "none" -> Skip({})
                       [] OTHER -> Skip({c})
    <3>1. PICK d \in Documents :
                  /\ document' = d
                  /\ LET c == SelectControl(d) IN
                     CASE c \in {"wan_ip", "wan_ppp", "malformed", "bounded"} -> EndWith(c)
                       [] c = "none" -> Skip({})
                       [] OTHER -> Skip({c})
      BY <2>6
    <3>2. PICK c : c = SelectControl(d)
      OBVIOUS
    <3>3. (CASE c \in {"wan_ip", "wan_ppp", "malformed", "bounded"} -> EndWith(c)
             [] c = "none" -> Skip({})
             [] OTHER -> Skip({c}))
      BY <3>1, <3>2
    <3>4. EndWith(c) \/ Skip({}) \/ Skip({c})
      BY <3>3
    <3>5. UNCHANGED <<dstep, found>> \/ (dstep' = "done" /\ found' = c)
      BY <3>4 DEF EndWith, Skip, Found
    <3> QED
      BY <2>6, <3>1, <3>2, <3>5
  <2> QED
    BY <2>1, <2>2, <2>3, <2>4, <2>5, <2>6 DEF Reply
<1>3. fetches' \in Nat /\ fetches' <= MaxFetches
  BY <1>1, <1>2, DiscoveryAssumption
<1>4. CASE /\ document' = document
           /\ \/ UNCHANGED <<dstep, found>>
              \/ dstep' = "done" /\ found' \notin {"wan_ip", "wan_ppp"}
  BY <1>1, <1>3, <1>4 DEF DiscoveryInv
<1>5. ASSUME NEW d \in Documents, document' = d,
             UNCHANGED <<dstep, found>> \/ (dstep' = "done" /\ found' = SelectControl(d))
      PROVE  DiscoveryInv'
  <2>1. d \in Seq(Services)
    BY DiscoveryAssumption
  <2>2. /\ SelectControl(d) = "wan_ip" => Usable(d, Len(d), "wan_ip")
        /\ SelectControl(d) = "wan_ppp" => Usable(d, Len(d), "wan_ppp") /\ ~Usable(d, Len(d), "wan_ip")
    BY <2>1, ControlSelected
  <2> QED
    BY <1>1, <1>3, <1>5, <2>1, <2>2 DEF DiscoveryInv
<1> QED
  BY <1>2, <1>4, <1>5

(* and the start of the mapping lifecycle.                                 *)
LEMMA HandOverKeeps == DiscoveryInv /\ HandOver => DiscoveryInv'
<1> SUFFICES ASSUME DiscoveryInv, HandOver PROVE DiscoveryInv'
  OBVIOUS
<1>1. /\ dstep' = "routes" /\ at' = 1 /\ best' = 0 /\ flags' = {}
      /\ fetches' = 0 /\ document' = <<>> /\ found' = "none"
  BY DEF HandOver
<1>2. <<>> \in Seq(Services) /\ 0 <= MaxFetches
  BY DiscoveryAssumption
<1> QED
  BY <1>1, <1>2 DEF DiscoveryInv

(* Every step keeps it.                                                    *)
LEMMA DiscoveryKeeps == DiscoveryInv /\ [TraversalNext]_traversalVars => DiscoveryInv'
<1> SUFFICES ASSUME DiscoveryInv, [TraversalNext]_traversalVars PROVE DiscoveryInv'
  OBVIOUS
<1>1. CASE UNCHANGED discovery
  <2>1. UNCHANGED <<dstep, table, at, best, flags, fetches, document, found>>
    BY <1>1 DEF discovery
  <2> QED
    BY <2>1 DEF DiscoveryInv, SelectInv
<1>2. CASE Discover
  BY <1>2, ReadKeeps, SelectKeeps, GatewayKeeps, SearchKeeps, ReplyKeeps, RepliesKeep
     DEF Discover, DiscoveryStep
<1>3. CASE HandOver
  BY <1>3, HandOverKeeps
<1> QED
  BY <1>1, <1>2, <1>3 DEF TraversalNext, traversalVars

(* What the invariant says at the end of the loop and of the discovery.    *)
LEMMA InvIsExact == DiscoveryInv => DiscoveryExact
<1> SUFFICES ASSUME DiscoveryInv PROVE DiscoveryExact
  OBVIOUS
<1> DEFINE usable == {i \in DOMAIN table : table[i].default /\ table[i].gateway # "bad"}
           lowest == {i \in usable : \A j \in usable : table[i].metric <= table[j].metric}
           gateways == {table[i].gateway : i \in lowest}
           ok(s) == {i \in DOMAIN document : document[i].service = s /\ document[i].url = "ok"}
<1>1. dstep = "select" /\ at > Len(table) =>
          /\ best = 0 <=> usable = {}
          /\ "ambiguous" \in flags <=> Cardinality(gateways) > 1
          /\ "ambiguous" \notin flags /\ best # 0 =>
               best \in lowest /\ \A i \in lowest : table[best].ifindex <= table[i].ifindex
  <2> SUFFICES ASSUME dstep = "select", at > Len(table)
               PROVE  /\ best = 0 <=> usable = {}
                      /\ "ambiguous" \in flags <=> Cardinality(gateways) > 1
                      /\ "ambiguous" \notin flags /\ best # 0 =>
                           best \in lowest /\ \A i \in lowest : table[best].ifindex <= table[i].ifindex
    OBVIOUS
  <2>1. SelectInv
    BY DEF DiscoveryInv
  <2>2. table \in Seq(RouteRecords) /\ Len(table) \in Nat /\ at \in Nat /\ at <= Len(table) + 1
    BY <2>1 DEF SelectInv
  <2>3. at - 1 = Len(table)
    BY <2>2
  <2>4. BestSoFar(table, Len(table), best, flags)
    BY <2>1, <2>3 DEF SelectInv
  <2>5. /\ best = 0 <=> AllUsable(table) = {}
        /\ "ambiguous" \in flags <=> \E i, j \in Lowest(table) : table[i].gateway # table[j].gateway
        /\ "ambiguous" \notin flags /\ best # 0 =>
             best \in Lowest(table) /\ \A i \in Lowest(table) : table[best].ifindex <= table[i].ifindex
        /\ IsFiniteSet(Lowest(table))
    BY <2>2, <2>4, RoutesDone
  <2>6. Cardinality({table[i].gateway : i \in Lowest(table)}) > 1
          <=> \E i, j \in Lowest(table) : table[i].gateway # table[j].gateway
    BY <2>5, ManyGateways
  <2>7. AllUsable(table) = usable
    BY <2>2 DEF AllUsable, UsableRoutes
  <2>8. Lowest(table) = lowest
    BY <2>7 DEF Lowest
  <2> QED
    BY <2>5, <2>6, <2>7, <2>8
<1>2. \A s : Usable(document, Len(document), s) <=> ok(s) # {}
  <2>1. DOMAIN document = 1..Len(document)
    BY DEF DiscoveryInv
  <2> QED
    BY <2>1 DEF Usable
<1>3. found = "wan_ip" => ok("wan_ip") # {}
  BY <1>2 DEF DiscoveryInv
<1>4. found = "wan_ppp" => ok("wan_ppp") # {} /\ ok("wan_ip") = {}
  BY <1>2 DEF DiscoveryInv
<1>5. fetches <= MaxFetches
  BY DEF DiscoveryInv
<1> QED
  BY <1>1, <1>3, <1>4, <1>5 DEF DiscoveryExact

(* The gateway that mappings are asked of is exactly the one select_gateway *)
(* must find, for every route table: one is selected when the usable        *)
(* default routes of lowest metric agree on it, and never otherwise.  A     *)
(* control point is a usable service of the document it came from, PPP only *)
(* when no IP service is usable, and the fetches stay in their allowance.   *)
THEOREM GatewayIsExact == TraversalSpec => []DiscoveryExact
<1>1. TraversalInit => DiscoveryInv
  <2>1. <<>> \in Seq(Services) /\ 0 <= MaxFetches
    BY DiscoveryAssumption
  <2> QED
    BY <2>1 DEF TraversalInit, DiscoveryInit, DiscoveryInv
<1> QED
  BY <1>1, DiscoveryKeeps, InvIsExact, PTL DEF TraversalSpec
-----------------------------------------------------------------------------
(* The behaviour collector.                                                *)

(* What the NAT shows of a socket to an endpoint, but for the generation.  *)
Key(e) == IF nat.mapping = "endpoint_independent" THEN "any"
          ELSE IF nat.mapping = "address_dependent" THEN IF e = "bp" THEN "b" ELSE "a"
          ELSE e
SocketOf(o) == IF Filtering(o) THEN "filter" ELSE "map"

(* The result r of observation o: a failure, of which a timeout that no    *)
(* loss explains says that the NAT refuses the answer, or what the NAT     *)
(* showed at the time it let the answer in.                                *)
Failed(r, o) == \E f \in Failures : r = <<f>> /\ (f = "timeout" /\ ~lossy => ~Admits(o))
Shown(r, o) == \E g \in Nat : g <= gen /\ r = <<SocketOf(o), g, Key(Contact(o))>> /\ Admits(o)

(* From the first observation of A:p on, nothing older is seen.            *)
SeenInv ==
  /\ \A o \in DOMAIN seen : Failed(seen[o], o) \/ Shown(seen[o], o)
  /\ obs \in 6..10 =>
       /\ "m_ap" \in DOMAIN seen /\ IsTuple(seen["m_ap"])
       /\ \A o \in DOMAIN seen : IsTuple(seen[o]) => seen["m_ap"][2] <= seen[o][2]

(* A class that was reported is the NAT's.                                 *)
OutInv ==
  /\ mapOut \in Classes => mapOut = nat.mapping
  /\ filterOut \in Classes =>
       /\ Rank[filterOut] >= Rank[nat.filtering]
       /\ ~lossy => filterOut = nat.filtering

(* Nothing disturbed the collection so far.                                *)
Calm ==
  /\ ~lossy /\ gen = 0 /\ ~stop /\ now < ActiveEnd /\ Allowance >= 20
  /\ \A e \in {"ap", "aq", "bp"} : topology[e] = {"mapping", "filtering"}
  /\ {"observe_mapping", "observe_filtering"} \subseteq grant.ops
  /\ grant.b.bytes >= 128

(* Then every observation up to this one is there, at two datagrams each,  *)
(* and each primitive that ended was told.                                 *)
CalmInv ==
  Calm =>
    /\ obs \in 1..10 => sent <= 2 * (obs - 1)
    /\ obs \in 2..4 => "f_ap" \in DOMAIN seen
    /\ obs \in 3..4 => "f_bp" \in DOMAIN seen
    /\ obs = 4 => "f_aq" \in DOMAIN seen
    /\ obs \in 7..10 => "m_aq1" \in DOMAIN seen
    /\ obs \in 8..10 => "m_aq2" \in DOMAIN seen
    /\ obs \in 9..10 => "m_bp1" \in DOMAIN seen
    /\ obs = 10 => "m_bp2" \in DOMAIN seen
    /\ \A o \in DOMAIN seen : IsTuple(seen[o]) \/ seen[o] = <<"timeout">>
    /\ obs >= 5 => filterOut \in Classes \cup {"runtime_unavailable"}
    /\ obs = 11 => mapOut \in Classes \cup {"runtime_unavailable"}

BehaviourTypes ==
  /\ obs \in 0..11 /\ gen \in Nat /\ sent \in Int /\ lossy \in BOOLEAN
  /\ nat \in [mapping : Classes, filtering : Classes]
  /\ sent <= Allowance \/ sent = 0
  /\ obs = 0 => sent = 0
  /\ obs \in {0, 5} => DOMAIN seen = {}
  /\ obs = 11 => phase = "ended"
  /\ obs = 7 => Qualified("m_aq2")
  /\ obs = 9 => Qualified("m_bp2")

BehaviourInv == BehaviourTypes /\ SeenInv /\ OutInv /\ CalmInv

(* The order of the observations.                                          *)
LEMMA OrderIs ==
  /\ DOMAIN Order = 1..10 /\ Done = 11
  /\ Order[1] = "f_ap" /\ Order[2] = "f_bp" /\ Order[3] = "f_aq" /\ Order[4] = "f_end"
  /\ Order[5] = "m_ap" /\ Order[6] = "m_aq1" /\ Order[7] = "m_aq2" /\ Order[8] = "m_bp1"
  /\ Order[9] = "m_bp2" /\ Order[10] = "m_end"
BY DEF Order, Done

(* The tuple of an observation.                                            *)
LEMMA TupleIs ==
  ASSUME nat \in [mapping : Classes, filtering : Classes], NEW w, NEW e
  PROVE  Tuple(w, e) = <<w, gen, Key(e)>>
BY DEF Tuple, Key, Classes

(* A slot holds a tuple that was seen, or a failure: a timeout is one that *)
(* was seen.                                                               *)
LEMMA SlotIs ==
  ASSUME NEW s, NEW os, os # {},
         \A o \in os \cap DOMAIN s : IsTuple(s[o]) \/ \E f \in Failures : s[o] = <<f>>
  PROVE  \/ \E o \in os \cap DOMAIN s : IsTuple(s[o]) /\ Slot(s, os) = s[o]
         \/ \E f \in Failures :
              /\ Slot(s, os) = <<f>>
              /\ f = "timeout" => \E o \in os \cap DOMAIN s : s[o] = <<"timeout">>
<1> DEFINE failed == {o \in os : o \in DOMAIN s /\ ~IsTuple(s[o])}
<1>1. CASE \E o \in os : o \notin DOMAIN s /\ failed = {}
  BY <1>1 DEF Slot, Failures
<1>2. CASE ~(\E o \in os : o \notin DOMAIN s /\ failed = {}) /\ failed # {}
  <2>1. PICK o \in failed : Slot(s, os) = s[o]
    BY <1>2 DEF Slot
  <2> QED BY <2>1
<1>3. CASE ~(\E o \in os : o \notin DOMAIN s /\ failed = {}) /\ failed = {}
  <2>1. CASE Slot(s, os) = <<"rebinding">>
    BY <2>1 DEF Failures
  <2>2. CASE Slot(s, os) # <<"rebinding">>
    <3>1. PICK o \in os : Slot(s, os) = s[o]
      BY <1>3, <2>2 DEF Slot
    <3> QED BY <1>3, <3>1
  <2> QED BY <2>1, <2>2
<1> QED BY <1>1, <1>2, <1>3

(* A slot whose observations all agree holds what they saw.                *)
LEMMA SlotAgrees ==
  ASSUME NEW s, NEW os, NEW t, os # {}, os \subseteq DOMAIN s, \A o \in os : s[o] = t
  PROVE  Slot(s, os) = t
<1>1. {s[o] : o \in os} = {t} /\ Cardinality({t}) = 1
  BY FS_Singleton
<1>2. CASE IsTuple(t)
  <2>1. {o \in os : o \in DOMAIN s /\ ~IsTuple(s[o])} = {}
    BY <1>2
  <2> QED BY <1>1, <2>1 DEF Slot
<1>3. CASE ~IsTuple(t)
  <2>1. {o \in os : o \in DOMAIN s /\ ~IsTuple(s[o])} = os
    BY <1>3
  <2> QED BY <2>1 DEF Slot
<1> QED BY <1>2, <1>3

(* A one-element sequence of a failure is no tuple and no class.           *)
LEMMA FailureIs ==
  \A f \in Failures : ~IsTuple(<<f>>) /\ <<f>>[1] = f /\ f \notin Classes
BY DEF IsTuple, Failures, Classes

(* A result of three parts is a tuple.                                     *)
LEMMA TripleIs ==
  \A a, b, c : IsTuple(<<a, b, c>>) /\ <<a, b, c>>[1] = a /\ <<a, b, c>>[2] = b /\ <<a, b, c>>[3] = c
BY DEF IsTuple

(* filtering() names a class only when the NAT showed it: what got in was  *)
(* let in, and what no loss explains was kept out.                         *)
LEMMA FilteringClass ==
  ASSUME nat \in [mapping : Classes, filtering : Classes], NEW s, NEW lost \in BOOLEAN,
         \A o \in {"f_bp", "f_aq"} : o \in DOMAIN s =>
           \/ IsTuple(s[o]) /\ Admits(o)
           \/ \E f \in Failures : s[o] = <<f>> /\ (f = "timeout" /\ ~lost => ~Admits(o)),
         FilteringSummary(s) \in Classes
  PROVE  /\ Rank[FilteringSummary(s)] >= Rank[nat.filtering]
         /\ ~lost => FilteringSummary(s) = nat.filtering
<1> DEFINE slotted(o) == LET r == Slot(s, {o}) IN
                         IF IsTuple(r) /\ r # s["f_ap"] THEN <<"rebinding">> ELSE r
<1>1. ASSUME NEW o \in {"f_bp", "f_aq"}
      PROVE  \/ IsTuple(slotted(o)) /\ Admits(o)
             \/ \E f \in Failures : slotted(o) = <<f>> /\ (f = "timeout" /\ ~lost => ~Admits(o))
  <2>1. \/ \E x \in {o} \cap DOMAIN s : IsTuple(s[x]) /\ Slot(s, {o}) = s[x]
        \/ \E f \in Failures :
              /\ Slot(s, {o}) = <<f>>
              /\ f = "timeout" => \E x \in {o} \cap DOMAIN s : s[x] = <<"timeout">>
    BY SlotIs
  <2>2. CASE \E x \in {o} \cap DOMAIN s : IsTuple(s[x]) /\ Slot(s, {o}) = s[x]
    <3>1. o \in DOMAIN s /\ IsTuple(s[o]) /\ Slot(s, {o}) = s[o]
      BY <2>2
    <3>2. Admits(o)
      BY <3>1, FailureIs
    <3>3. slotted(o) = s[o] \/ slotted(o) = <<"rebinding">>
      BY <3>1
    <3> QED BY <3>1, <3>2, <3>3 DEF Failures
  <2>3. CASE \E f \in Failures :
              /\ Slot(s, {o}) = <<f>>
              /\ f = "timeout" => \E x \in {o} \cap DOMAIN s : s[x] = <<"timeout">>
    <3>1. PICK f \in Failures :
              /\ Slot(s, {o}) = <<f>>
              /\ f = "timeout" => \E x \in {o} \cap DOMAIN s : s[x] = <<"timeout">>
      BY <2>3
    <3>2. slotted(o) = <<f>>
      BY <3>1, FailureIs
    <3>3. ASSUME f = "timeout", ~lost PROVE ~Admits(o)
      <4>1. o \in DOMAIN s /\ s[o] = <<"timeout">>
        BY <3>1, <3>3
      <4>2. ~IsTuple(s[o])
        BY <4>1, FailureIs DEF Failures
      <4>3. PICK h \in Failures : s[o] = <<h>> /\ (h = "timeout" /\ ~lost => ~Admits(o))
        BY <4>1, <4>2
      <4>4. <<"timeout">>[1] = <<h>>[1]
        BY <4>1, <4>3
      <4>5. h = "timeout"
        BY <4>4
      <4> QED BY <3>3, <4>3, <4>5
    <3> QED BY <3>2, <3>3
  <2> QED BY <2>1, <2>2, <2>3
<1> DEFINE bp == slotted("f_bp")
           aq == slotted("f_aq")
<1>2. FilteringSummary(s) =
        IF bp = <<"rebinding">> \/ aq = <<"rebinding">> \/ s["f_end"] # s["f_ap"] THEN "rebinding"
        ELSE IF IsTuple(bp) THEN "endpoint_independent"
        ELSE IF bp # <<"timeout">> THEN bp[1]
        ELSE IF IsTuple(aq) THEN "address_dependent"
        ELSE IF aq = <<"timeout">> THEN "address_and_port_dependent"
        ELSE aq[1]
  BY DEF FilteringSummary
<1>3. /\ Admits("f_bp") <=> nat.filtering = "endpoint_independent"
      /\ Admits("f_aq") <=> nat.filtering \in {"endpoint_independent", "address_dependent"}
  BY DEF Admits, Answer, Contact
<1>4. /\ IsTuple(bp) => Admits("f_bp")
      /\ bp = <<"timeout">> /\ ~lost => ~Admits("f_bp")
      /\ ~IsTuple(bp) => bp[1] \notin Classes
  <2>1. <<"timeout">>[1] = "timeout" /\ ~IsTuple(<<"timeout">>)
    BY FailureIs DEF Failures
  <2> HIDE DEF slotted
  <2> QED BY <1>1, <2>1, FailureIs
<1>5. /\ IsTuple(aq) => Admits("f_aq")
      /\ aq = <<"timeout">> /\ ~lost => ~Admits("f_aq")
      /\ ~IsTuple(aq) => aq[1] \notin Classes
  <2>1. <<"timeout">>[1] = "timeout" /\ ~IsTuple(<<"timeout">>)
    BY FailureIs DEF Failures
  <2> HIDE DEF slotted
  <2> QED BY <1>1, <2>1, FailureIs
<1>6. /\ Rank["endpoint_independent"] = 0 /\ Rank["address_dependent"] = 1
      /\ Rank["address_and_port_dependent"] = 2
  BY DEF Rank, Classes
<1>7. nat.filtering \in Classes /\ "rebinding" \notin Classes
  BY DEF Classes
<1> HIDE DEF bp, aq, slotted
<1>8. \/ FilteringSummary(s) = "endpoint_independent" /\ IsTuple(bp)
      \/ FilteringSummary(s) = "address_dependent" /\ IsTuple(aq) /\ bp = <<"timeout">>
      \/ FilteringSummary(s) = "address_and_port_dependent" /\ aq = <<"timeout">> /\ bp = <<"timeout">>
  BY <1>2, <1>4, <1>5, <1>7
<1> QED BY <1>3, <1>4, <1>5, <1>6, <1>7, <1>8 DEF Classes

(* The endpoints to which the NAT shows the same of a socket tell which    *)
(* mapping it has.                                                         *)
LEMMA KeysTell ==
  ASSUME nat \in [mapping : Classes, filtering : Classes]
  PROVE  /\ Key("aq") # Key("ap") <=> nat.mapping = "address_and_port_dependent"
         /\ Key("bp") # Key("ap") <=> nat.mapping # "endpoint_independent"
BY DEF Key, Classes

(* mapping() names a class only when the NAT showed it: its two            *)
(* observations of A:p agree, so nothing was rebound between them.         *)
LEMMA MappingClass ==
  ASSUME nat \in [mapping : Classes, filtering : Classes], NEW s, NEW g \in Nat, NEW h \in Nat,
         s["m_ap"] = <<"map", g, Key("ap")>>, s["m_end"] = <<"map", h, Key("ap")>>,
         \A o \in {"m_aq1", "m_aq2", "m_bp1", "m_bp2"} : o \in DOMAIN s =>
           \/ \E x \in Nat : g <= x /\ x <= h /\ s[o] = <<"map", x, Key(Contact(o))>>
           \/ \E f \in Failures : s[o] = <<f>>,
         MappingSummary(s) \in Classes
  PROVE  MappingSummary(s) = nat.mapping
<1> DEFINE aq == Slot(s, {"m_aq1", "m_aq2"})
           bp == Slot(s, {"m_bp1", "m_bp2"})
<1>1. ASSUME NEW os \in {{"m_aq1", "m_aq2"}, {"m_bp1", "m_bp2"}}, NEW e,
             \A o \in os : Contact(o) = e
      PROVE  \/ \E x \in Nat : g <= x /\ x <= h /\ Slot(s, os) = <<"map", x, Key(e)>>
             \/ \E f \in Failures : Slot(s, os) = <<f>>
  <2>1. \A o \in os \cap DOMAIN s : IsTuple(s[o]) \/ \E f \in Failures : s[o] = <<f>>
    BY TripleIs
  <2>2. CASE \E o \in os \cap DOMAIN s : IsTuple(s[o]) /\ Slot(s, os) = s[o]
    <3>1. PICK o \in os \cap DOMAIN s : IsTuple(s[o]) /\ Slot(s, os) = s[o]
      BY <2>2
    <3>2. o \in {"m_aq1", "m_aq2", "m_bp1", "m_bp2"} /\ Contact(o) = e
      BY <1>1, <3>1
    <3>3. \E x \in Nat : g <= x /\ x <= h /\ s[o] = <<"map", x, Key(Contact(o))>>
      BY <3>1, <3>2, FailureIs
    <3> QED BY <3>1, <3>2, <3>3
  <2>3. CASE \E f \in Failures : Slot(s, os) = <<f>>
    BY <2>3
  <2>4. os # {}
    OBVIOUS
  <2> QED BY <2>1, <2>2, <2>3, <2>4, SlotIs
<1>2. \/ \E x \in Nat : g <= x /\ x <= h /\ aq = <<"map", x, Key("aq")>>
      \/ \E f \in Failures : aq = <<f>>
  BY <1>1 DEF Contact
<1>3. \/ \E x \in Nat : g <= x /\ x <= h /\ bp = <<"map", x, Key("bp")>>
      \/ \E f \in Failures : bp = <<f>>
  BY <1>1 DEF Contact
<1>4. MappingSummary(s) =
        IF aq = <<"rebinding">> \/ bp = <<"rebinding">> \/ s["m_end"] # s["m_ap"] THEN "rebinding"
        ELSE IF IsTuple(aq) /\ aq # s["m_ap"] THEN "address_and_port_dependent"
        ELSE IF IsTuple(aq) /\ IsTuple(bp)
        THEN IF bp # s["m_ap"] THEN "address_dependent" ELSE "endpoint_independent"
        ELSE IF ~IsTuple(aq) /\ aq # <<"unsupported_topology">> THEN aq[1]
        ELSE IF ~IsTuple(bp) /\ bp # <<"unsupported_topology">> THEN bp[1]
        ELSE "unsupported_topology"
  BY DEF MappingSummary
<1> HIDE DEF aq, bp
<1>5. (~IsTuple(aq) => aq[1] \notin Classes) /\ (~IsTuple(bp) => bp[1] \notin Classes)
  BY <1>2, <1>3, TripleIs, FailureIs
<1>6. "rebinding" \notin Classes /\ "unsupported_topology" \notin Classes
  BY DEF Classes
<1>7. /\ s["m_end"] = s["m_ap"] /\ IsTuple(aq)
      /\ \/ aq # s["m_ap"] /\ MappingSummary(s) = "address_and_port_dependent"
         \/ aq = s["m_ap"] /\ IsTuple(bp) /\ bp # s["m_ap"] /\ MappingSummary(s) = "address_dependent"
         \/ aq = s["m_ap"] /\ IsTuple(bp) /\ bp = s["m_ap"] /\ MappingSummary(s) = "endpoint_independent"
  BY <1>4, <1>5, <1>6
<1>8. g = h
  <2>1. <<"map", g, Key("ap")>>[2] = <<"map", h, Key("ap")>>[2]
    BY <1>7
  <2> QED BY <2>1
<1>9. aq = <<"map", g, Key("aq")>> /\ (IsTuple(bp) => bp = <<"map", g, Key("bp")>>)
  <2>1. \A x \in Nat : g <= x /\ x <= h => x = g
    BY <1>8
  <2> QED BY <1>2, <1>3, <1>7, <2>1, FailureIs
<1>10. /\ aq = s["m_ap"] <=> Key("aq") = Key("ap")
       /\ IsTuple(bp) => (bp = s["m_ap"] <=> Key("bp") = Key("ap"))
  <2>1. \A x, y : <<"map", g, x>> = <<"map", g, y>> => x = y
    <3> TAKE x, y
    <3>1. <<"map", g, x>>[3] = x /\ <<"map", g, y>>[3] = y
      OBVIOUS
    <3> QED BY <3>1
  <2> QED BY <1>9, <2>1
<1>11. nat.mapping \in Classes
  OBVIOUS
<1> QED BY <1>7, <1>10, <1>11, KeysTell DEF Classes

(* Undisturbed, filtering() names a class.                                 *)
LEMMA FilteringTold ==
  ASSUME NEW s, NEW t, IsTuple(t), {"f_ap", "f_bp", "f_aq", "f_end"} \subseteq DOMAIN s,
         s["f_ap"] = t, s["f_end"] = t,
         s["f_bp"] \in {t, <<"timeout">>}, s["f_aq"] \in {t, <<"timeout">>}
  PROVE  FilteringSummary(s) \in Classes
<1>1. Slot(s, {"f_bp"}) = s["f_bp"] /\ Slot(s, {"f_aq"}) = s["f_aq"]
  BY SlotAgrees
<1>2. ~IsTuple(<<"timeout">>) /\ ~IsTuple(<<"rebinding">>) /\ <<"timeout">> # <<"rebinding">>
  <2>1. <<"timeout">>[1] # <<"rebinding">>[1]
    OBVIOUS
  <2> QED BY <2>1, FailureIs DEF Failures
<1> QED BY <1>1, <1>2 DEF FilteringSummary, Classes

(* Undisturbed, so does mapping().                                         *)
LEMMA MappingTold ==
  ASSUME NEW s, {"m_ap", "m_aq1", "m_aq2", "m_bp1", "m_bp2", "m_end"} \subseteq DOMAIN s,
         NEW ap, NEW aq, NEW bp, IsTuple(ap), IsTuple(aq), IsTuple(bp),
         s["m_ap"] = ap, s["m_end"] = ap, s["m_aq1"] = aq, s["m_aq2"] = aq,
         s["m_bp1"] = bp, s["m_bp2"] = bp
  PROVE  MappingSummary(s) \in Classes
<1>1. Slot(s, {"m_aq1", "m_aq2"}) = aq
  <2>1. {"m_aq1", "m_aq2"} # {} /\ {"m_aq1", "m_aq2"} \subseteq DOMAIN s
    OBVIOUS
  <2>2. \A o \in {"m_aq1", "m_aq2"} : s[o] = aq
    OBVIOUS
  <2> QED BY <2>1, <2>2, SlotAgrees, Zenon
<1>2. Slot(s, {"m_bp1", "m_bp2"}) = bp
  <2>1. {"m_bp1", "m_bp2"} # {} /\ {"m_bp1", "m_bp2"} \subseteq DOMAIN s
    OBVIOUS
  <2>2. \A o \in {"m_bp1", "m_bp2"} : s[o] = bp
    OBVIOUS
  <2> QED BY <2>1, <2>2, SlotAgrees, Zenon
<1>3. ~IsTuple(<<"rebinding">>)
  BY FailureIs DEF Failures
<1> QED BY <1>1, <1>2, <1>3 DEF MappingSummary, Classes
-----------------------------------------------------------------------------
(* The results of the primitive with one more, r, of observation o.        *)
With(o, r) == [x \in DOMAIN seen \cup {o} |-> IF x = o THEN r ELSE seen[x]]

(* What observe() may answer, and what it costs.                           *)
LEMMA ObserveMoves ==
  ASSUME BehaviourTypes, grant \in Grants, now \in Nat, stop \in BOOLEAN, Observe
  PROVE  /\ obs \in 1..10 /\ UNCHANGED <<grant, stop, topology, nat, gen>>
         /\ now' \in Nat /\ now <= now'
         /\ sent' \in Int /\ (sent' <= Allowance \/ sent' = 0)
         /\ lossy' \in BOOLEAN /\ (lossy => lossy')
         /\ Calm' => Calm
         /\ Calm' /\ sent <= 18 => sent' = sent + 2
         /\ \E r :
              /\ Continue(Order[obs], With(Order[obs], r))
              /\ seen' = IF Filtering(Order[obs]) /\ obs' = 5 THEN [x \in {} |-> <<"not_started">>]
                         ELSE With(Order[obs], r)
              /\ \/ r = <<SocketOf(Order[obs]), gen, Key(Contact(Order[obs]))>> /\ Admits(Order[obs])
                 \/ \E f \in Failures :
                      /\ r = <<f>>
                      /\ f = "timeout" /\ ~lossy' => ~Admits(Order[obs])
                      /\ Calm' /\ sent <= 18 => f = "timeout" /\ ~Admits(Order[obs])
<1> DEFINE o == Order[obs]
           After(r, d, lost) ==
             /\ Continue(o, With(o, r))
             /\ seen' = IF Filtering(o) /\ obs' = 5 THEN [x \in {} |-> <<"not_started">>] ELSE With(o, r)
             /\ sent' = sent + d
             /\ lossy' = (lossy \/ lost)
           Told(r) ==
             \/ r = <<SocketOf(o), gen, Key(Contact(o))>> /\ Admits(o)
             \/ \E f \in Failures :
                  /\ r = <<f>>
                  /\ f = "timeout" /\ ~lossy' => ~Admits(o)
                  /\ Calm' /\ sent <= 18 => f = "timeout" /\ ~Admits(o)
           Cost == /\ sent' \in Int /\ (sent' <= Allowance \/ sent' = 0)
                   /\ Calm' /\ sent <= 18 => sent' = sent + 2
<1>1. obs \in 1..10 /\ UNCHANGED <<grant, stop, topology, nat, gen>>
  BY OrderIs DEF Observe
<1>2. sent \in Int /\ Allowance \in Int /\ gen \in Nat /\ lossy \in BOOLEAN /\ ActiveEnd \in Int
  <2>1. sent \in Int /\ gen \in Nat /\ lossy \in BOOLEAN
    BY DEF BehaviourTypes
  <2>2. ActiveEnd \in Int
    BY Ends
  <2>3. grant.b.datagrams \in Nat /\ grant.b.cleanupDatagrams \in Nat
    BY SessionAssumption
  <2> QED BY <2>1, <2>2, <2>3 DEF Allowance
<1>3. /\ ActiveEnd' = ActiveEnd /\ Allowance' = Allowance
      /\ Calm' => ~lossy' /\ ~stop /\ now' < ActiveEnd /\ Allowance >= 20
  BY <1>1 DEF Calm, ActiveEnd, CollectorEnd, Allowance
<1>4. \/ stop /\ After(<<"cancelled">>, 0, FALSE) /\ UNCHANGED now
      \/ ~stop /\ now >= ActiveEnd /\ After(<<"deadline">>, 0, FALSE) /\ UNCHANGED now
      \/ /\ Ordinary /\ sent >= Allowance - 1
         /\ After(<<"budget_exhausted">>, Allowance - sent, sent # Allowance) /\ UNCHANGED now
      \/ /\ Ordinary /\ sent < Allowance
         /\ \E f \in {"challenge_timeout", "invalid_response"} : After(<<f>>, 1, TRUE)
         /\ now' \in {now, now + 1}
      \/ /\ Ordinary /\ sent <= Allowance - 2
         /\ now' \in {now, now + 1}
         /\ \/ now' >= ActiveEnd /\ After(<<"deadline">>, 2, FALSE)
            \/ now' < ActiveEnd /\ After(<<"timeout">>, 2, Admits(o))
            \/ now' < ActiveEnd /\ Admits(o) /\ After(Tuple(SocketOf(o), Contact(o)), 2, FALSE)
  <2>1. \/ stop /\ After(<<"cancelled">>, 0, FALSE) /\ UNCHANGED now
        \/ ~stop /\ now >= ActiveEnd /\ After(<<"deadline">>, 0, FALSE) /\ UNCHANGED now
        \/ /\ Ordinary /\ sent >= Allowance - 1
           /\ After(<<"budget_exhausted">>, Allowance - sent, sent # Allowance) /\ UNCHANGED now
        \/ /\ Ordinary /\ sent < Allowance
           /\ \E f \in {"challenge_timeout", "invalid_response"} : After(<<f>>, 1, TRUE)
           /\ now' \in {now, now + 1}
        \/ /\ Ordinary /\ sent <= Allowance - 2
           /\ now' \in {now, now + 1}
           /\ IF now' >= ActiveEnd THEN After(<<"deadline">>, 2, FALSE)
              ELSE \/ After(<<"timeout">>, 2, Admits(o))
                   \/ Admits(o) /\ After(Tuple(SocketOf(o), Contact(o)), 2, FALSE)
    BY Zenon DEF Observe, With, SocketOf
  <2>2. now' \in {now, now + 1} => (now' >= ActiveEnd \/ now' < ActiveEnd)
    BY <1>2
  <2> HIDE DEF After, o
  <2> QED BY <2>1, <2>2
<1>5. now' \in Nat /\ now <= now'
  BY <1>4
<1>6. ~lossy' => ~lossy
  BY <1>4
<1>7. lossy' \in BOOLEAN
  BY <1>4
<1>8. Calm' => Calm
  BY <1>1, <1>2, <1>3, <1>5, <1>6 DEF Calm, ActiveEnd, CollectorEnd, Allowance
<1>9. ASSUME NEW r, NEW d \in Int, NEW lost, After(r, d, lost), Told(r),
             sent + d <= Allowance \/ d = 0,
             Calm' /\ sent <= 18 => d = 2
      PROVE  /\ Cost
             /\ \E x : /\ Continue(o, With(o, x))
                       /\ seen' = IF Filtering(o) /\ obs' = 5 THEN [y \in {} |-> <<"not_started">>]
                                  ELSE With(o, x)
                       /\ Told(x)
  <2>1. Cost
    BY <1>2, <1>9 DEF BehaviourTypes
  <2> HIDE DEF Told, Cost
  <2> QED BY <1>9, <2>1
<1>10. 0 \in Int /\ 1 \in Int /\ 2 \in Int
  OBVIOUS
<1> HIDE DEF o
<1> SUFFICES /\ Cost
             /\ \E x : /\ Continue(o, With(o, x))
                       /\ seen' = IF Filtering(o) /\ obs' = 5 THEN [y \in {} |-> <<"not_started">>]
                                  ELSE With(o, x)
                       /\ Told(x)
  BY <1>1, <1>5, <1>6, <1>7, <1>8 DEF o
<1>11. CASE stop /\ After(<<"cancelled">>, 0, FALSE) /\ UNCHANGED now
  <2>1. ~Calm'
    BY <1>3, <1>11
  <2>2. Told(<<"cancelled">>)
    BY <2>1 DEF Failures
  <2> HIDE DEF Told, Cost, After
  <2> QED BY <1>10, <1>9, <1>11, <2>1, <2>2, Zenon
<1>12. CASE ~stop /\ now >= ActiveEnd /\ After(<<"deadline">>, 0, FALSE) /\ UNCHANGED now
  <2>1. ~Calm'
    BY <1>2, <1>3, <1>12
  <2>2. Told(<<"deadline">>)
    BY <2>1 DEF Failures
  <2> HIDE DEF Told, Cost, After
  <2> QED BY <1>10, <1>9, <1>12, <2>1, <2>2, Zenon
<1>13. CASE /\ Ordinary /\ sent >= Allowance - 1
            /\ After(<<"budget_exhausted">>, Allowance - sent, sent # Allowance) /\ UNCHANGED now
  <2>1. ~(Calm' /\ sent <= 18)
    BY <1>2, <1>3, <1>13
  <2>2. Told(<<"budget_exhausted">>)
    BY <2>1 DEF Failures
  <2>3. Allowance - sent \in Int /\ sent + (Allowance - sent) <= Allowance
    BY <1>2
  <2> HIDE DEF Told, Cost, After
  <2> QED BY <1>9, <1>13, <2>1, <2>2, <2>3
<1>14. CASE /\ Ordinary /\ sent < Allowance
            /\ \E f \in {"challenge_timeout", "invalid_response"} : After(<<f>>, 1, TRUE)
            /\ now' \in {now, now + 1}
  <2>1. PICK f \in {"challenge_timeout", "invalid_response"} : After(<<f>>, 1, TRUE)
    BY <1>14
  <2>2. ~Calm'
    BY <1>3, <2>1
  <2>3. Told(<<f>>)
    BY <2>2 DEF Failures
  <2>4. sent + 1 <= Allowance
    BY <1>2, <1>14
  <2> HIDE DEF Told, Cost, After
  <2> QED BY <1>10, <1>9, <2>1, <2>2, <2>3, <2>4, Zenon
<1>15. CASE /\ Ordinary /\ sent <= Allowance - 2
            /\ now' \in {now, now + 1}
            /\ \/ now' >= ActiveEnd /\ After(<<"deadline">>, 2, FALSE)
               \/ now' < ActiveEnd /\ After(<<"timeout">>, 2, Admits(o))
               \/ now' < ActiveEnd /\ Admits(o) /\ After(Tuple(SocketOf(o), Contact(o)), 2, FALSE)
  <2>1. sent + 2 <= Allowance
    BY <1>2, <1>15
  <2>2. CASE now' >= ActiveEnd /\ After(<<"deadline">>, 2, FALSE)
    <3>1. ~Calm'
      BY <1>2, <1>3, <1>5, <2>2
    <3>2. Told(<<"deadline">>)
      BY <3>1 DEF Failures
    <3> HIDE DEF Told, Cost, After
    <3> QED BY <1>10, <1>9, <2>1, <2>2, <3>2, Zenon
  <2>3. CASE After(<<"timeout">>, 2, Admits(o))
    <3>1. ~lossy' => ~Admits(o)
      BY <2>3
    <3>2. Told(<<"timeout">>)
      BY <1>3, <3>1 DEF Failures
    <3> HIDE DEF Told, Cost, After
    <3> QED BY <1>10, <1>9, <2>1, <2>3, <3>2, Zenon
  <2>4. CASE Admits(o) /\ After(Tuple(SocketOf(o), Contact(o)), 2, FALSE)
    <3>1. Told(Tuple(SocketOf(o), Contact(o)))
      BY <2>4, TupleIs DEF BehaviourTypes
    <3> HIDE DEF Told, Cost, After
    <3> QED BY <1>10, <1>9, <2>1, <2>4, <3>1, Zenon
  <2> HIDE DEF Told, Cost, After
  <2> QED BY <1>15, <2>2, <2>3, <2>4
<1> HIDE DEF Told, Cost, After
<1> QED BY <1>4, <1>11, <1>12, <1>13, <1>14, <1>15

(* An observation that was answered r.                                     *)
Answered(r) ==
  /\ obs \in 1..10 /\ UNCHANGED <<topology, nat, gen>>
  /\ lossy' \in BOOLEAN /\ (lossy => lossy')
  /\ Continue(Order[obs], With(Order[obs], r))
  /\ seen' = IF Filtering(Order[obs]) /\ obs' = 5 THEN [x \in {} |-> <<"not_started">>]
             ELSE With(Order[obs], r)
  /\ \/ r = <<SocketOf(Order[obs]), gen, Key(Contact(Order[obs]))>> /\ Admits(Order[obs])
     \/ \E f \in Failures : r = <<f>> /\ (f = "timeout" /\ ~lossy' => ~Admits(Order[obs]))

(* Where the collection goes after an observation.                         *)
LEMMA ContinueMoves ==
  ASSUME obs \in 1..10, NEW s, Continue(Order[obs], s)
  PROVE  \/ /\ obs = 4 \/ (obs = 1 /\ ~IsTuple(s["f_ap"]))
            /\ obs' = 5 /\ UNCHANGED <<mapOut, phase>>
            /\ filterOut' = IF IsTuple(s[Order[obs]]) THEN FilteringSummary(s) ELSE s[Order[obs]][1]
         \/ /\ obs = 10 \/ (obs = 5 /\ ~IsTuple(s["m_ap"]))
            /\ obs' = 11 /\ phase' = "ended" /\ UNCHANGED filterOut
            /\ mapOut' = IF IsTuple(s[Order[obs]]) THEN MappingSummary(s) ELSE s[Order[obs]][1]
         \/ /\ obs \notin {4, 10} /\ UNCHANGED <<filterOut, mapOut, phase>>
            /\ obs \in {1, 5} => IsTuple(s[Order[obs]])
            /\ \/ obs' = obs + 1
               \/ obs' = obs + 2 /\ obs \in {6, 8} /\ ~IsTuple(s[Order[obs]])
<1>1. /\ Order[obs] = "f_end" <=> obs = 4
      /\ Order[obs] = "f_ap" <=> obs = 1
      /\ Order[obs] = "m_end" <=> obs = 10
      /\ Order[obs] = "m_ap" <=> obs = 5
      /\ Order[obs] \in {"m_aq1", "m_bp1"} <=> obs \in {6, 8}
  BY OrderIs
<1> QED BY <1>1, OrderIs DEF Continue, Report

(* The results with one more.                                              *)
LEMMA WithIs ==
  ASSUME NEW o, NEW r
  PROVE  /\ DOMAIN With(o, r) = DOMAIN seen \cup {o} /\ With(o, r)[o] = r
         /\ \A x \in DOMAIN seen : x # o => With(o, r)[x] = seen[x]
BY DEF With

(* One more result fits as those before it do.                             *)
LEMMA EntryKeeps ==
  ASSUME BehaviourTypes, SeenInv, NEW r, Answered(r), NEW x \in DOMAIN With(Order[obs], r)
  PROVE  \/ Shown(With(Order[obs], r)[x], x)
         \/ \E f \in Failures : /\ With(Order[obs], r)[x] = <<f>>
                                /\ f = "timeout" /\ ~lossy' => ~Admits(x)
<1> DEFINE o == Order[obs]
<1>1. CASE x = o
  <2>1. With(o, r)[x] = r
    BY <1>1, WithIs
  <2>2. gen \in Nat /\ gen <= gen
    BY DEF BehaviourTypes
  <2>3. CASE r = <<SocketOf(o), gen, Key(Contact(o))>> /\ Admits(o)
    BY <1>1, <2>1, <2>2, <2>3 DEF Shown
  <2>4. CASE \E f \in Failures : r = <<f>> /\ (f = "timeout" /\ ~lossy' => ~Admits(o))
    <3>1. PICK f \in Failures : r = <<f>> /\ (f = "timeout" /\ ~lossy' => ~Admits(o))
      BY <2>4
    <3>2. With(o, r)[x] = <<f>> /\ (f = "timeout" /\ ~lossy' => ~Admits(x))
      BY <1>1, <2>1, <3>1
    <3> QED BY <3>2
  <2> QED BY <2>3, <2>4 DEF Answered
<1>2. CASE x # o
  <2>1. x \in DOMAIN seen /\ With(o, r)[x] = seen[x]
    BY <1>2 DEF With
  <2>2. CASE Shown(seen[x], x)
    BY <2>1, <2>2
  <2>3. CASE Failed(seen[x], x)
    <3>1. ~lossy' => ~lossy
      BY DEF Answered
    <3> QED BY <2>1, <2>3, <3>1 DEF Failed
  <2> QED BY <2>1, <2>2, <2>3 DEF SeenInv
<1> QED BY <1>1, <1>2

(* A result that fits is a tuple of the observation, or a failure.         *)
LEMMA ShownIs ==
  ASSUME NEW r, NEW o, gen \in Nat, Shown(r, o)
  PROVE  /\ IsTuple(r) /\ r[2] \in Nat /\ r[2] <= gen /\ Admits(o)
         /\ r = <<SocketOf(o), r[2], Key(Contact(o))>>
BY TripleIs DEF Shown

(* What is seen stays no newer than the NAT and no older than A:p.         *)
LEMMA SeenKeeps ==
  ASSUME BehaviourTypes, SeenInv, NEW r, Answered(r)
  PROVE  SeenInv'
<1> DEFINE o == Order[obs]
           s == With(o, r)
<1>1. obs \in 1..10 /\ gen' = gen /\ gen \in Nat
  BY DEF Answered, BehaviourTypes
<1>2. \A x : (Admits(x)' <=> Admits(x)) /\ Key(x)' = Key(x)
  BY DEF Admits, Key, Answered
<1>3. \A x \in DOMAIN seen' : (Failed(seen[x], x) \/ Shown(seen[x], x))'
  <2>1. CASE seen' = s
    <3> SUFFICES ASSUME NEW x \in DOMAIN s PROVE (Failed(seen[x], x) \/ Shown(seen[x], x))'
      BY <2>1
    <3>1. \/ Shown(s[x], x)
          \/ \E f \in Failures : s[x] = <<f>> /\ (f = "timeout" /\ ~lossy' => ~Admits(x))
      BY EntryKeeps
    <3> HIDE DEF s
    <3> QED BY <1>1, <1>2, <2>1, <3>1 DEF Shown, Failed
  <2>2. CASE DOMAIN seen' = {}
    BY <2>2
  <2> QED BY <2>1, <2>2 DEF Answered
<1>4. ASSUME obs' \in 6..10
      PROVE  /\ "m_ap" \in DOMAIN seen' /\ IsTuple(seen'["m_ap"])
             /\ \A x \in DOMAIN seen' : IsTuple(seen'[x]) => seen'["m_ap"][2] <= seen'[x][2]
  <2>1. /\ obs \in 5..9 /\ seen' = s /\ (obs = 5 => IsTuple(s[o]))
    BY <1>1, <1>4, ContinueMoves DEF Answered
  <2>2. \A x \in DOMAIN s : IsTuple(s[x]) => Shown(s[x], x)
    BY EntryKeeps, FailureIs
  <2>3. CASE obs = 5
    <3>1. o = "m_ap" /\ DOMAIN s = {"m_ap"}
      <4>1. o = "m_ap" /\ DOMAIN seen = {}
        BY <2>3, OrderIs DEF BehaviourTypes
      <4>2. DOMAIN s = DOMAIN seen \cup {o}
        BY DEF With
      <4> HIDE DEF s, o
      <4> QED BY <4>1, <4>2
    <3> HIDE DEF s
    <3>2. s["m_ap"][2] \in Nat
      BY <1>1, <2>1, <2>2, <2>3, <3>1, ShownIs
    <3> QED BY <2>1, <2>3, <3>1, <3>2
  <2>4. CASE obs \in 6..9
    <3>1. /\ "m_ap" \in DOMAIN seen /\ IsTuple(seen["m_ap"])
          /\ \A x \in DOMAIN seen : IsTuple(seen[x]) => seen["m_ap"][2] <= seen[x][2]
      BY <2>4 DEF SeenInv
    <3>2. o # "m_ap"
      BY <2>4, OrderIs
    <3>3. "m_ap" \in DOMAIN s /\ s["m_ap"] = seen["m_ap"]
      <4>1. DOMAIN s = DOMAIN seen \cup {o} /\ \A x \in DOMAIN seen : x # o => s[x] = seen[x]
        BY DEF With
      <4> HIDE DEF s, o
      <4> QED BY <3>1, <3>2, <4>1
    <3>4. s["m_ap"][2] \in Nat /\ s["m_ap"][2] <= gen
      BY <1>1, <2>2, <3>1, <3>3, ShownIs
    <3>5. ASSUME NEW x \in DOMAIN s, IsTuple(s[x]) PROVE s["m_ap"][2] <= s[x][2]
      <4>1. CASE x # o
        <5>1. /\ DOMAIN s = DOMAIN seen \cup {o}
              /\ \A y \in DOMAIN seen : y # o => s[y] = seen[y]
          BY DEF With
        <5> HIDE DEF s, o
        <5> QED BY <3>1, <3>3, <3>5, <4>1, <5>1
      <4>2. CASE x = o
        <5>1. s[x] = r
          BY <4>2 DEF With
        <5>2. IsTuple(r)
          BY <3>5, <5>1, Zenon
        <5>3. r = <<SocketOf(o), gen, Key(Contact(o))>>
          BY <5>2, FailureIs DEF Answered
        <5> QED BY <3>4, <5>1, <5>3
      <4> QED BY <4>1, <4>2
    <3> QED BY <2>1, <3>1, <3>3, <3>5
  <2> QED BY <2>1, <2>3, <2>4
<1> QED BY <1>3, <1>4 DEF SeenInv

(* A class reported is the NAT's.                                          *)
LEMMA OutKeeps ==
  ASSUME BehaviourTypes, SeenInv, OutInv, NEW r, Answered(r)
  PROVE  OutInv'
<1> DEFINE o == Order[obs]
           s == With(o, r)
<1>1. /\ obs \in 1..10 /\ nat' = nat /\ gen \in Nat /\ Continue(o, s)
      /\ lossy' \in BOOLEAN /\ (~lossy' => ~lossy)
      /\ nat \in [mapping : Classes, filtering : Classes]
  BY DEF Answered, BehaviourTypes
<1>2. o \in DOMAIN s /\ s[o] = r
  BY DEF With
<1>3. \A x \in DOMAIN s :
        \/ Shown(s[x], x)
        \/ \E f \in Failures : s[x] = <<f>> /\ (f = "timeout" /\ ~lossy' => ~Admits(x))
  BY EntryKeeps, Zenon
<1>4. ~IsTuple(s[o]) => s[o][1] \notin Classes
  BY <1>1, <1>2, <1>3, FailureIs, ShownIs
<1> HIDE DEF s
<1>5. CASE UNCHANGED <<filterOut, mapOut>>
  BY <1>1, <1>5 DEF OutInv
<1>6. CASE /\ obs' = 5 /\ UNCHANGED mapOut
           /\ filterOut' = IF IsTuple(s[o]) THEN FilteringSummary(s) ELSE s[o][1]
  <2>1. CASE ~IsTuple(s[o])
    BY <1>1, <1>4, <1>6, <2>1 DEF OutInv
  <2>2. CASE IsTuple(s[o])
    <3>1. \A x \in {"f_bp", "f_aq"} : x \in DOMAIN s =>
            \/ IsTuple(s[x]) /\ Admits(x)
            \/ \E f \in Failures : s[x] = <<f>> /\ (f = "timeout" /\ ~lossy' => ~Admits(x))
      BY <1>1, <1>3, ShownIs
    <3>2. FilteringSummary(s) \in Classes =>
            /\ Rank[FilteringSummary(s)] >= Rank[nat.filtering]
            /\ ~lossy' => FilteringSummary(s) = nat.filtering
      BY <1>1, <3>1, FilteringClass
    <3>3. filterOut' = FilteringSummary(s)
      BY <1>6, <2>2
    <3> QED BY <1>1, <1>6, <3>2, <3>3 DEF OutInv
  <2> QED BY <2>1, <2>2
<1>7. CASE /\ obs = 10 \/ (obs = 5 /\ ~IsTuple(s["m_ap"]))
           /\ UNCHANGED filterOut
           /\ mapOut' = IF IsTuple(s[o]) THEN MappingSummary(s) ELSE s[o][1]
  <2>1. CASE ~IsTuple(s[o])
    BY <1>1, <1>4, <1>7, <2>1 DEF OutInv
  <2>2. CASE IsTuple(s[o])
    <3>1. obs = 10 /\ o = "m_end" /\ mapOut' = MappingSummary(s)
      BY <1>7, <2>2, OrderIs
    <3>2. /\ "m_ap" \in DOMAIN seen /\ IsTuple(seen["m_ap"])
          /\ \A x \in DOMAIN seen : IsTuple(seen[x]) => seen["m_ap"][2] <= seen[x][2]
      BY <3>1 DEF SeenInv
    <3>3. /\ "m_ap" \in DOMAIN s /\ s["m_ap"] = seen["m_ap"]
          /\ \A x \in DOMAIN s : x # "m_end" => x \in DOMAIN seen /\ s[x] = seen[x]
      BY <3>1, <3>2 DEF s, With
    <3>4. s["m_end"] = <<"map", gen, Key("ap")>>
      <4>1. r = <<SocketOf(o), gen, Key(Contact(o))>>
        BY <1>2, <2>2, FailureIs DEF Answered
      <4> QED BY <1>2, <3>1, <4>1 DEF SocketOf, Contact, Filtering
    <3>5. \A x \in DOMAIN s : IsTuple(s[x]) => Shown(s[x], x)
      BY <1>3, FailureIs
    <3>6. /\ s["m_ap"][2] \in Nat
          /\ s["m_ap"] = <<"map", s["m_ap"][2], Key("ap")>>
      <4>1. Shown(s["m_ap"], "m_ap")
        BY <3>2, <3>3, <3>5
      <4>2. SocketOf("m_ap") = "map" /\ Contact("m_ap") = "ap"
        BY DEF SocketOf, Contact, Filtering
      <4> QED BY <1>1, <4>1, <4>2, ShownIs
    <3>7. ASSUME NEW x \in {"m_aq1", "m_aq2", "m_bp1", "m_bp2"}, x \in DOMAIN s
          PROVE  \/ \E g \in Nat : s["m_ap"][2] <= g /\ g <= gen /\ s[x] = <<"map", g, Key(Contact(x))>>
                 \/ \E f \in Failures : s[x] = <<f>>
      <4>1. CASE IsTuple(s[x])
        <5>1. Shown(s[x], x) /\ s["m_ap"][2] <= s[x][2]
          BY <3>2, <3>3, <3>5, <3>7, <4>1
        <5>2. SocketOf(x) = "map"
          BY <3>7 DEF SocketOf, Filtering
        <5>3. s[x][2] \in Nat /\ s[x][2] <= gen /\ s[x] = <<SocketOf(x), s[x][2], Key(Contact(x))>>
          BY <1>1, <5>1, ShownIs
        <5> QED BY <5>1, <5>2, <5>3
      <4>2. CASE ~IsTuple(s[x])
        BY <1>1, <1>3, <3>7, <4>2, ShownIs
      <4> QED BY <4>1, <4>2
    <3>8. MappingSummary(s) \in Classes => MappingSummary(s) = nat.mapping
      BY <1>1, <3>4, <3>6, <3>7, MappingClass
    <3> QED BY <1>1, <1>7, <3>1, <3>8 DEF OutInv
  <2> QED BY <2>1, <2>2
<1> QED BY <1>1, <1>5, <1>6, <1>7, ContinueMoves

(* An answer from the endpoint that was contacted is let in.               *)
LEMMA OwnAnswer ==
  \A o \in {"f_ap", "f_end", "m_ap", "m_aq1", "m_aq2", "m_bp1", "m_bp2", "m_end"} : Admits(o)
BY DEF Admits, Answer, Contact

(* Undisturbed, a result is what the NAT shows or the timeout of an answer *)
(* that it refuses.                                                        *)
LEMMA CalmEntry ==
  ASSUME BehaviourTypes, SeenInv, CalmInv, Calm, NEW x \in DOMAIN seen
  PROVE  \/ seen[x] = <<SocketOf(x), 0, Key(Contact(x))>>
         \/ seen[x] = <<"timeout">> /\ ~Admits(x)
<1>1. gen = 0 /\ ~lossy /\ (IsTuple(seen[x]) \/ seen[x] = <<"timeout">>)
  BY DEF Calm, CalmInv
<1>2. CASE Shown(seen[x], x)
  <2>1. seen[x][2] \in Nat /\ seen[x][2] <= 0 /\ seen[x] = <<SocketOf(x), seen[x][2], Key(Contact(x))>>
    BY <1>1, <1>2, ShownIs
  <2>2. seen[x][2] = 0
    BY <2>1
  <2> QED BY <2>1, <2>2
<1>3. CASE Failed(seen[x], x)
  <2>1. PICK f \in Failures : seen[x] = <<f>> /\ (f = "timeout" => ~Admits(x))
    BY <1>1, <1>3 DEF Failed
  <2>2. <<f>> = <<"timeout">>
    BY <1>1, <2>1, FailureIs
  <2>3. <<f>>[1] = f /\ <<"timeout">>[1] = "timeout"
    OBVIOUS
  <2>4. f = "timeout"
    BY <2>2, <2>3
  <2> QED BY <2>1, <2>4
<1> QED BY <1>2, <1>3 DEF SeenInv

(* Undisturbed, the collection gathers everything and names the classes.   *)
LEMMA CalmKeeps ==
  ASSUME BehaviourTypes, SeenInv, CalmInv, NEW r, Answered(r), Calm' => Calm,
         Calm' /\ sent <= 18 => sent' = sent + 2,
         Calm' /\ sent <= 18 =>
           \/ r = <<SocketOf(Order[obs]), 0, Key(Contact(Order[obs]))>>
           \/ r = <<"timeout">> /\ ~Admits(Order[obs])
  PROVE  CalmInv'
<1> DEFINE o == Order[obs]
           s == With(o, r)
<1> SUFFICES ASSUME Calm', Calm
             PROVE  CalmInv'
  BY DEF CalmInv
<1>1. obs \in 1..10 /\ Continue(o, s) /\ sent \in Int
  BY DEF Answered, BehaviourTypes
<1>2. sent <= 2 * (obs - 1) /\ sent <= 18
  BY <1>1 DEF CalmInv
<1>3. sent' = sent + 2 /\ sent' <= 2 * obs
  BY <1>1, <1>2
<1>4. r = <<SocketOf(o), 0, Key(Contact(o))>> \/ (r = <<"timeout">> /\ ~Admits(o))
  BY <1>2
<1>5. DOMAIN s = DOMAIN seen \cup {o} /\ s[o] = r /\ \A x \in DOMAIN seen : x # o => s[x] = seen[x]
  BY DEF With
<1>6. \A x \in DOMAIN s : \/ s[x] = <<SocketOf(x), 0, Key(Contact(x))>>
                          \/ s[x] = <<"timeout">> /\ ~Admits(x)
  <2> SUFFICES ASSUME NEW x \in DOMAIN s
               PROVE  \/ s[x] = <<SocketOf(x), 0, Key(Contact(x))>>
                      \/ s[x] = <<"timeout">> /\ ~Admits(x)
    OBVIOUS
  <2>1. CASE x = o
    BY <1>4, <1>5, <2>1
  <2>2. CASE x # o
    <3>1. x \in DOMAIN seen /\ s[x] = seen[x]
      BY <1>5, <2>2
    <3> QED BY <3>1, CalmEntry
  <2> QED BY <2>1, <2>2
<1>7. \A x \in DOMAIN s : IsTuple(s[x]) \/ s[x] = <<"timeout">>
  BY <1>6, TripleIs
<1>8. seen' = s \/ (obs' = 5 /\ DOMAIN seen' = {})
  BY DEF Answered
<1>9. \A x \in DOMAIN seen' : IsTuple(seen'[x]) \/ seen'[x] = <<"timeout">>
  BY <1>7, <1>8
<1>10. obs \in {1, 4, 5, 6, 7, 8, 9, 10} => IsTuple(s[o])
  <2>1. obs \in {1, 4, 5, 6, 7, 8, 9, 10} => Admits(o)
    BY OwnAnswer, OrderIs
  <2> QED BY <1>4, <1>5, <2>1, TripleIs
<1> HIDE DEF s
<1>11. /\ obs' = obs + 1
       /\ obs' = 5 => filterOut' = FilteringSummary(s)
       /\ obs' # 5 => filterOut' = filterOut
       /\ obs' = 11 => mapOut' = MappingSummary(s)
  BY <1>1, <1>10, OrderIs, ContinueMoves
<1>12. sent' <= 2 * (obs' - 1)
  BY <1>1, <1>3, <1>11
<1>13. ASSUME obs' = 5 PROVE filterOut' \in Classes
  <2>1. obs = 4 /\ o = "f_end"
    BY <1>1, <1>11, <1>13, OrderIs
  <2>2. {"f_ap", "f_bp", "f_aq", "f_end"} \subseteq DOMAIN s
    BY <1>5, <2>1 DEF CalmInv
  <2> DEFINE t == <<"filter", 0, Key("ap")>>
  <2>3. \A x \in {"f_ap", "f_bp", "f_aq", "f_end"} : SocketOf(x) = "filter" /\ Contact(x) = "ap"
    BY DEF SocketOf, Filtering, Contact
  <2>4. \A x \in {"f_ap", "f_bp", "f_aq", "f_end"} : s[x] = t \/ (s[x] = <<"timeout">> /\ ~Admits(x))
    BY <1>6, <2>2, <2>3
  <2>5. IsTuple(t)
    BY TripleIs
  <2> HIDE DEF t
  <2>6. s["f_ap"] = t /\ s["f_end"] = t
    BY <2>4, OwnAnswer
  <2>7. s["f_bp"] \in {t, <<"timeout">>} /\ s["f_aq"] \in {t, <<"timeout">>}
    BY <2>4
  <2> QED BY <1>11, <1>13, <2>2, <2>5, <2>6, <2>7, FilteringTold
<1>14. ASSUME obs' = 11 PROVE mapOut' \in Classes
  <2>1. obs = 10 /\ o = "m_end"
    BY <1>1, <1>11, <1>14, OrderIs
  <2> DEFINE all == {"m_ap", "m_aq1", "m_aq2", "m_bp1", "m_bp2", "m_end"}
  <2>2. all \subseteq DOMAIN s
    BY <1>5, <2>1 DEF CalmInv, SeenInv
  <2> DEFINE t(e) == <<"map", 0, Key(e)>>
  <2>3. \A x \in all : SocketOf(x) = "map"
    BY DEF SocketOf, Filtering
  <2>4. \A x \in all : s[x] = t(Contact(x))
    BY <1>6, <2>2, <2>3, OwnAnswer
  <2>5. IsTuple(t("ap")) /\ IsTuple(t("aq")) /\ IsTuple(t("bp"))
    BY TripleIs
  <2>6. /\ Contact("m_ap") = "ap" /\ Contact("m_end") = "ap" /\ Contact("m_aq1") = "aq"
        /\ Contact("m_aq2") = "aq" /\ Contact("m_bp1") = "bp" /\ Contact("m_bp2") = "bp"
    BY DEF Contact
  <2>7. /\ s["m_ap"] = t("ap") /\ s["m_end"] = t("ap") /\ s["m_aq1"] = t("aq")
        /\ s["m_aq2"] = t("aq") /\ s["m_bp1"] = t("bp") /\ s["m_bp2"] = t("bp")
    BY <2>4, <2>6
  <2> HIDE DEF t
  <2>8. MappingSummary(s) \in Classes
    BY <2>2, <2>5, <2>7, MappingTold
  <2> QED BY <1>11, <1>14, <2>8
<1>15. /\ obs' >= 5 => filterOut' \in Classes \cup {"runtime_unavailable"}
       /\ obs' = 11 => mapOut' \in Classes \cup {"runtime_unavailable"}
  <2>1. obs' > 5 => filterOut' = filterOut /\ obs >= 5
    BY <1>1, <1>11
  <2>2. obs >= 5 => filterOut \in Classes \cup {"runtime_unavailable"}
    BY DEF CalmInv
  <2> QED BY <1>1, <1>11, <1>13, <1>14, <2>1, <2>2
<1>16. /\ obs' \in 2..4 => "f_ap" \in DOMAIN seen'
       /\ obs' \in 3..4 => "f_bp" \in DOMAIN seen'
       /\ obs' = 4 => "f_aq" \in DOMAIN seen'
       /\ obs' \in 7..10 => "m_aq1" \in DOMAIN seen'
       /\ obs' \in 8..10 => "m_aq2" \in DOMAIN seen'
       /\ obs' \in 9..10 => "m_bp1" \in DOMAIN seen'
       /\ obs' = 10 => "m_bp2" \in DOMAIN seen'
  BY <1>1, <1>5, <1>8, <1>11, OrderIs DEF CalmInv
<1> QED BY <1>9, <1>12, <1>15, <1>16 DEF CalmInv

(* observe() keeps the invariant.                                          *)
LEMMA ObserveKeeps ==
  ASSUME PhaseInv, BehaviourInv, Observe
  PROVE  BehaviourInv'
<1>1. BehaviourTypes /\ SeenInv /\ OutInv /\ CalmInv /\ grant \in Grants /\ now \in Nat /\ stop \in BOOLEAN
  BY DEF BehaviourInv, PhaseInv
<1> DEFINE o == Order[obs]
<1>2. /\ obs \in 1..10 /\ UNCHANGED <<grant, stop, topology, nat, gen>>
      /\ sent' \in Int /\ (sent' <= Allowance \/ sent' = 0)
      /\ lossy' \in BOOLEAN /\ (lossy => lossy')
      /\ Calm' => Calm
      /\ Calm' /\ sent <= 18 => sent' = sent + 2
  BY <1>1, ObserveMoves
<1>3. PICK r :
        /\ Continue(o, With(o, r))
        /\ seen' = IF Filtering(o) /\ obs' = 5 THEN [x \in {} |-> <<"not_started">>] ELSE With(o, r)
        /\ \/ r = <<SocketOf(o), gen, Key(Contact(o))>> /\ Admits(o)
           \/ \E f \in Failures :
                /\ r = <<f>>
                /\ f = "timeout" /\ ~lossy' => ~Admits(o)
                /\ Calm' /\ sent <= 18 => f = "timeout" /\ ~Admits(o)
  BY <1>1, ObserveMoves
<1>4. Answered(r)
  BY <1>2, <1>3 DEF Answered
<1>5. Calm' /\ sent <= 18 =>
        r = <<SocketOf(o), 0, Key(Contact(o))>> \/ (r = <<"timeout">> /\ ~Admits(o))
  <2>1. Calm' => gen = 0
    BY <1>2 DEF Calm
  <2> HIDE DEF o
  <2> QED BY <1>3, <2>1
<1>6. SeenInv' /\ OutInv' /\ CalmInv'
  BY <1>1, <1>2, <1>4, <1>5, SeenKeeps, OutKeeps, CalmKeeps
<1>7. BehaviourTypes'
  <2>1. \/ obs' = 5 /\ obs \in {1, 4}
        \/ obs' = 11 /\ phase' = "ended"
        \/ obs' = obs + 1 /\ obs \notin {4, 10}
        \/ obs' = obs + 2 /\ obs \in {6, 8}
    BY <1>2, <1>3, ContinueMoves
  <2>2. obs' \in 0..11 /\ obs' # 0 /\ (obs' = 11 => phase' = "ended") /\ (obs' = 5 => obs \in {1, 4})
    BY <1>2, <2>1
  <2>3. obs' = 5 => DOMAIN seen' = {}
    BY <1>3, <2>2, OrderIs DEF Filtering
  <2>4. Allowance' = Allowance
    BY <1>2 DEF Allowance
  <2>5. Contact(o) # "ap" => Qualified(o)
    BY DEF Observe
  <2>6. (obs' = 7 => obs = 6) /\ (obs' = 9 => obs = 8)
    BY <1>2, <2>1
  <2>7. (obs = 6 => Qualified("m_aq2")) /\ (obs = 8 => Qualified("m_bp2"))
    BY <2>5, OrderIs DEF Qualified, Contact, Answer, Filtering
  <2>8. (obs' = 7 => Qualified("m_aq2")') /\ (obs' = 9 => Qualified("m_bp2")')
    BY <1>2, <2>6, <2>7 DEF Qualified
  <2> QED BY <1>1, <1>2, <2>2, <2>3, <2>4, <2>8 DEF BehaviourTypes
<1> QED BY <1>6, <1>7 DEF BehaviourInv

(* The checks before the first packet.                                     *)
LEMMA AuthorizeKeeps ==
  ASSUME PhaseInv, BehaviourInv, Authorize
  PROVE  BehaviourInv'
<1>1. BehaviourTypes /\ SeenInv /\ OutInv /\ CalmInv
  BY DEF BehaviourInv
<1>2. /\ obs = 0 /\ UNCHANGED <<grant, now, stop, seen, sent, topology, nat, gen, lossy>>
      /\ DOMAIN seen = {} /\ sent = 0
  BY <1>1 DEF Authorize, BehaviourTypes
<1>3. \/ /\ obs' = 11 /\ phase' = "ended"
         /\ \/ "mapping" \notin topology.ap \/ "observe_mapping" \notin grant.ops
            \/ grant.b.bytes < 128 \/ stop
         /\ mapOut' \in Failures /\ filterOut' \in Failures
      \/ /\ obs' = 1 /\ UNCHANGED <<mapOut, filterOut>>
      \/ /\ obs' = 5 /\ UNCHANGED mapOut /\ filterOut' \in Failures
         /\ \/ "filtering" \notin topology.ap \/ "observe_filtering" \notin grant.ops
            \/ filterOut' = "runtime_unavailable"
  BY OrderIs DEF Authorize, Report, Failures
<1>4. Allowance' = Allowance /\ (Calm' => Calm)
  BY <1>2 DEF Allowance, Calm, ActiveEnd, CollectorEnd
<1>5. BehaviourTypes'
  BY <1>1, <1>2, <1>3, <1>4 DEF BehaviourTypes
<1>6. SeenInv'
  BY <1>2, <1>3 DEF SeenInv
<1>7. \A f \in Failures : f \notin Classes
  BY DEF Failures, Classes
<1>8. OutInv'
  BY <1>1, <1>2, <1>3, <1>7 DEF OutInv
<1>9. CalmInv'
  <2> SUFFICES ASSUME Calm, Calm' PROVE CalmInv'
    BY <1>4 DEF CalmInv
  <2>1. /\ "mapping" \in topology.ap /\ "filtering" \in topology.ap /\ ~stop
        /\ "observe_mapping" \in grant.ops /\ "observe_filtering" \in grant.ops
        /\ grant.b.bytes >= 128
    BY DEF Calm
  <2>2. grant.b.bytes \in Nat
    BY SessionAssumption DEF PhaseInv
  <2>3. obs' = 1 \/ (obs' = 5 /\ filterOut' = "runtime_unavailable")
    BY <1>3, <2>1, <2>2
  <2> QED BY <1>2, <2>3 DEF CalmInv
<1> QED BY <1>5, <1>6, <1>8, <1>9 DEF BehaviourInv

(* An endpoint that is passed over disturbs the collection.                *)
LEMMA PassOverKeeps ==
  ASSUME PhaseInv, BehaviourInv, PassOver
  PROVE  BehaviourInv'
<1>1. BehaviourTypes /\ SeenInv /\ OutInv /\ CalmInv
  BY DEF BehaviourInv
<1>2. /\ obs \in 1..10
      /\ UNCHANGED <<session, seen, sent, filterOut, mapOut, topology, nat, gen, lossy>>
      /\ Answer(Order[obs]) # "ap" /\ ~Qualified(Order[obs])
      /\ obs' = IF Filtering(Order[obs]) THEN obs + 1 ELSE obs + 2
  BY OrderIs DEF PassOver
<1>3. UNCHANGED <<grant, phase, now, stop>>
  BY <1>2 DEF session
<1>4. obs \in {2, 3, 6, 8}
  BY <1>1, <1>2, OrderIs DEF Answer, Contact, BehaviourTypes
<1>5. (obs \in {2, 3} => obs' = obs + 1) /\ (obs \in {6, 8} => obs' = obs + 2)
  BY <1>2, <1>4, OrderIs DEF Filtering
<1>6. obs' \in {3, 4, 8, 10}
  BY <1>4, <1>5
<1>7. BehaviourTypes'
  BY <1>1, <1>2, <1>3, <1>6 DEF BehaviourTypes, Allowance
<1>8. SeenInv'
  <2>1. obs' \in 6..10 => obs \in 6..10
    BY <1>4, <1>5
  <2> QED BY <1>1, <1>2, <2>1 DEF SeenInv, Failed, Shown, Admits, Key
<1>9. OutInv'
  BY <1>1, <1>2 DEF OutInv
<1>10. ~Calm'
  <2>1. Calm' => Qualified(Order[obs])
    BY <1>2, <1>4, OrderIs DEF Calm, Qualified, Answer, Contact
  <2> QED BY <1>2, <2>1
<1> QED BY <1>7, <1>8, <1>9, <1>10 DEF BehaviourInv, CalmInv

(* Without a second socket, mapping says so.                               *)
LEMMA MapSocketKeeps ==
  ASSUME PhaseInv, BehaviourInv, MapSocketFails
  PROVE  BehaviourInv'
<1>1. BehaviourTypes /\ SeenInv /\ OutInv /\ CalmInv
  BY DEF BehaviourInv
<1>2. /\ obs = 5 /\ obs' = 11 /\ phase' = "ended" /\ mapOut' = "runtime_unavailable"
      /\ UNCHANGED <<grant, now, stop, seen, sent, filterOut, topology, nat, gen, lossy>>
      /\ DOMAIN seen = {}
  BY <1>1, OrderIs DEF MapSocketFails, Report, BehaviourTypes
<1>3. Allowance' = Allowance /\ (Calm' => Calm)
  BY <1>2 DEF Allowance, Calm, ActiveEnd, CollectorEnd
<1>4. BehaviourTypes' /\ SeenInv'
  BY <1>1, <1>2, <1>3 DEF BehaviourTypes, SeenInv
<1>5. OutInv'
  BY <1>1, <1>2 DEF OutInv, Classes
<1>6. CalmInv'
  BY <1>1, <1>2, <1>3 DEF CalmInv
<1> QED BY <1>4, <1>5, <1>6 DEF BehaviourInv

(* A NAT that rebinds has shown nothing newer.                             *)
LEMMA RebindKeeps ==
  ASSUME PhaseInv, BehaviourInv, Rebind
  PROVE  BehaviourInv'
<1>1. BehaviourTypes /\ SeenInv /\ OutInv
  BY DEF BehaviourInv
<1>2. /\ gen' = gen + 1 /\ UNCHANGED <<session, obs, seen, sent, filterOut, mapOut, topology, nat, lossy>>
      /\ gen \in Nat
  BY <1>1 DEF Rebind, BehaviourTypes
<1>3. UNCHANGED <<grant, phase>>
  BY <1>2 DEF session
<1>4. BehaviourTypes' /\ OutInv'
  BY <1>1, <1>2, <1>3 DEF BehaviourTypes, OutInv, Allowance, Qualified
<1>5. SeenInv'
  <2>1. \A x : (Admits(x)' <=> Admits(x)) /\ Key(x)' = Key(x)
    BY <1>2 DEF Admits, Key
  <2>2. ASSUME NEW x \in DOMAIN seen PROVE (Failed(seen[x], x) \/ Shown(seen[x], x))'
    <3>1. CASE Failed(seen[x], x)
      BY <1>2, <2>1, <3>1 DEF Failed
    <3>2. CASE Shown(seen[x], x)
      <4>1. PICK g \in Nat : g <= gen /\ seen[x] = <<SocketOf(x), g, Key(Contact(x))>> /\ Admits(x)
        BY <3>2 DEF Shown
      <4>2. g <= gen'
        BY <1>2, <4>1
      <4> QED BY <1>2, <2>1, <4>1, <4>2 DEF Shown
    <3> QED BY <1>1, <3>1, <3>2 DEF SeenInv
  <2> QED BY <1>1, <1>2, <2>2 DEF SeenInv
<1>6. ~Calm'
  BY <1>2 DEF Calm
<1> QED BY <1>4, <1>5, <1>6 DEF BehaviourInv, CalmInv

(* A step of another collector, of the clock or of the gateway.            *)
LEMMA BehaviourBeside ==
  ASSUME BehaviourInv, UNCHANGED behaviour, grant' = grant,
         obs # 0 => now' = now /\ (stop => stop'), obs = 11 => phase' = phase
  PROVE  BehaviourInv'
<1>1. BehaviourTypes /\ SeenInv /\ OutInv /\ CalmInv
  BY DEF BehaviourInv
<1>2. UNCHANGED <<obs, seen, sent, filterOut, mapOut, topology, nat, gen, lossy>>
  BY DEF behaviour
<1>3. BehaviourTypes' /\ OutInv'
  BY <1>1, <1>2 DEF BehaviourTypes, OutInv, Allowance, Qualified
<1>4. SeenInv'
  BY <1>1, <1>2 DEF SeenInv, Failed, Shown, Admits, Key
<1>5. CASE obs = 0
  BY <1>1, <1>2, <1>3, <1>4, <1>5 DEF BehaviourInv, CalmInv, BehaviourTypes
<1>6. CASE obs # 0
  <2>1. Calm' => Calm
    BY <1>2, <1>6 DEF Calm, ActiveEnd, CollectorEnd, Allowance
  <2>2. CalmInv'
    BY <1>1, <1>2, <2>1 DEF CalmInv
  <2> QED BY <1>3, <1>4, <2>2 DEF BehaviourInv
<1> QED BY <1>5, <1>6

(* Nothing has been sent, seen or told before the grant is looked at.      *)
LEMMA BehaviourStarts == TraversalInit => BehaviourInv
<1> SUFFICES ASSUME TraversalInit PROVE BehaviourInv
  OBVIOUS
<1>1. /\ obs = 0 /\ DOMAIN seen = {} /\ sent = 0 /\ filterOut = "not_started" /\ mapOut = "not_started"
      /\ nat \in [mapping : Classes, filtering : Classes] /\ gen = 0 /\ lossy = FALSE
  BY BehaviourAssumption DEF TraversalInit, BehaviourInit
<1>2. BehaviourTypes /\ SeenInv /\ CalmInv
  <2>1. BehaviourTypes
    <3>1. obs \in 0..11 /\ gen \in Nat /\ sent \in Int
      BY <1>1
    <3>2. lossy \in BOOLEAN
      BY <1>1
    <3>3. obs # 11 /\ obs # 7 /\ obs # 9
      BY <1>1
    <3> QED BY <1>1, <3>1, <3>2, <3>3, Zenon DEF BehaviourTypes
  <2>2. SeenInv
    BY <1>1 DEF SeenInv
  <2>3. CalmInv
    BY <1>1 DEF CalmInv
  <2> QED BY <2>1, <2>2, <2>3
<1>3. OutInv
  BY <1>1 DEF OutInv, Classes
<1> QED BY <1>2, <1>3 DEF BehaviourInv

(* Every step keeps it.                                                    *)
LEMMA BehaviourKeeps ==
  PhaseInv /\ BehaviourInv /\ [TraversalNext]_traversalVars => BehaviourInv'
<1> SUFFICES ASSUME PhaseInv, BehaviourInv, [TraversalNext]_traversalVars PROVE BehaviourInv'
  OBVIOUS
<1>1. obs # 0 => phase \in {"observe", "ended"}
  BY OrderIs DEF PhaseInv, BehaviourInv, BehaviourTypes
<1>2. obs = 11 => phase = "ended"
  BY DEF BehaviourInv, BehaviourTypes
<1>3. CASE (BehaviourStep \/ Rebind) /\ UNCHANGED <<mapping, discovery>>
  BY <1>3, AuthorizeKeeps, ObserveKeeps, PassOverKeeps, MapSocketKeeps, RebindKeeps DEF BehaviourStep
<1>4. CASE MappingStep /\ UNCHANGED <<discovery, behaviour>>
  <2>1. phase = "mapping" /\ grant' = grant
    BY <1>4, MappingPhase DEF PhaseInv
  <2> QED BY <1>1, <1>2, <1>4, <2>1, BehaviourBeside
<1>5. CASE GatewayStep /\ UNCHANGED <<discovery, behaviour>>
  <2>1. UNCHANGED <<grant, phase, now, stop>>
    BY <1>5 DEF GatewayStep, LateApply, Expire, session
  <2> QED BY <1>5, <2>1, BehaviourBeside
<1>6. CASE Discover \/ HandOver
  <2>1. phase = "mapping" /\ grant' = grant /\ UNCHANGED behaviour
    BY <1>6 DEF Discover, HandOver, Discovered, session
  <2> QED BY <1>1, <1>2, <2>1, BehaviourBeside
<1>7. CASE (Reserve \/ StopArrives) /\ UNCHANGED <<mapping, discovery, behaviour>>
  <2>1. UNCHANGED <<grant, now>> /\ phase # "ended" /\ (stop => stop')
    BY <1>7 DEF Reserve, StopArrives
  <2> QED BY <1>2, <1>7, <2>1, BehaviourBeside
<1>8. CASE UNCHANGED traversalVars
  <2>1. UNCHANGED <<grant, phase, now, stop, behaviour>>
    BY <1>8 DEF traversalVars, session
  <2> QED BY <2>1, BehaviourBeside
<1> QED BY <1>3, <1>4, <1>5, <1>6, <1>7, <1>8 DEF TraversalNext

(* What the invariant says of a report.                                    *)
LEMMA BehaviourTells == BehaviourInv => BehaviourExact
<1> SUFFICES ASSUME BehaviourInv PROVE BehaviourExact
  OBVIOUS
<1>1. BehaviourSound
  BY DEF BehaviourInv, BehaviourTypes, OutInv, BehaviourSound
<1>2. BehaviourComplete
  <2> SUFFICES ASSUME obs = Done, Calm, "runtime_unavailable" \notin {filterOut, mapOut}
               PROVE  filterOut \in Classes /\ mapOut \in Classes
    BY DEF BehaviourComplete, Calm
  <2> QED BY OrderIs DEF BehaviourInv, CalmInv
<1> QED BY <1>1, <1>2 DEF BehaviourExact

(* For any grants, NATs, topologies and number of rebindings: a mapping    *)
(* class that collect_udp_behaviour reports is the NAT's; a filtering      *)
(* class is never more open than the NAT's and is exactly it when nothing  *)
(* was lost; a collection that nothing disturbs names both; and the        *)
(* datagrams sent stay within the allowance of the grant.                  *)
THEOREM BehaviourIsExact == TraversalSpec => []BehaviourExact
<1>1. TraversalSpec => []PhaseInv
  <2>1. TraversalInv => PhaseInv
    BY DEF TraversalInv
  <2> QED BY <2>1, TraversalInvariance, PTL
<1> QED BY <1>1, BehaviourStarts, BehaviourKeeps, BehaviourTells, PTL DEF TraversalSpec
=============================================================================
