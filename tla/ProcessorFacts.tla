--------------------------- MODULE ProcessorFacts ---------------------------
(***************************************************************************)
(* The two detached workers the supervisor starts before the first         *)
(* customer attempt: the processor-fact worker (src/src/                   *)
(* processor_facts.rs, processor_facts/authorization.rs) and the coverage  *)
(* producer (src/src/coverage.rs).  Each spends one server grant: it       *)
(* checks it, reads, signs one body and posts it at most twice.  They      *)
(* share the wall clock, which may be set back under them, and the         *)
(* process, which may exit at any point.                                   *)
(*                                                                         *)
(* Time is in units of five seconds, one delivery attempt.                 *)
(***************************************************************************)
EXTENDS Naturals, Sequences, FiniteSets, SequencesExt

CONSTANTS
  Lifetime,      \* the longest lifetime of a grant
  Tolerance,     \* AUTHORIZATION_FUTURE_TOLERANCE_MS
  Reserve,       \* EXISTING_DELIVERY_RESERVE_MS
  SampleMax,     \* SAMPLE_BUDGET_MS
  InboundMax,    \* the longest inbound check: its requests end with their body
  AttemptMax,    \* RESULT_ATTEMPT_TIMEOUT
  MaxNow         \* bound: the last instant

ASSUME FactsAssumption == MaxNow \in Nat

FactWorkers == {"facts", "coverage"}
FactKinds == {"android", "execution", "egress", "hardware"}

VARIABLES
  now,        \* the wall clock
  setBack,    \* the clock was set back (bound: once)
  running,    \* the helper process
  grant,      \* the grant each worker holds
  at,         \* the step of each worker
  stamps,     \* [w -> <<started, completed>>] of its capture
  facts,      \* the facts collected, in the order collected
  fits,       \* [w -> the signed body is within the limit]
  signed,     \* [w -> signatures made]
  posts,      \* [w -> bodies posted, by the number of their signature]
  postedAt,   \* history: [w -> the instants at which it posted]
  server,     \* [w -> bodies the server took]
  result,     \* [w -> how the worker ended]
  reported    \* history: outcomes the coverage task reported

factVars == <<now, setBack, running, grant, at, stamps, facts, fits, signed,
              posts, postedAt, server, result, reported>>

Instants == 0..MaxNow

\* ProcessorFactKind::profile.
KindProfile(k) == IF k = "hardware" THEN "coverage-hardware-v1" ELSE "cargo-baseline-v1"

\* admitted_kind_count.
AdmittedKindCount(profile) ==
  CASE profile = "cargo-baseline-v1" -> 1..3
    [] profile = "coverage-hardware-v1" -> {1}
    [] OTHER -> {}

\* A grant of either kind: [worker, profile, kinds, issued, expires, well,
\* bound, helper, prober, native].
StructurallyValid(g) ==
  /\ g.well
  /\ g.expires > g.issued
  /\ g.expires - g.issued <= Lifetime
  /\ g.worker = "facts" =>
       /\ Len(g.kinds) \in AdmittedKindCount(g.profile)
       /\ \A k \in ToSet(g.kinds) : KindProfile(k) = g.profile
       /\ Cardinality(ToSet(g.kinds)) = Len(g.kinds)

\* valid_at: a grant may be a little ahead of this clock.
ValidAt(g, t) == g.expires > t /\ g.issued <= t + Tolerance

\* coverage_submit_url and ProcessorFactBinding::from_bootstrap: only the
\* bootstrap's own https origin.
OriginOK(g) == g.origin = "bootstrap"

\* take_processor_fact_authorization and take_coverage_authorization: the
\* bound identity of a coverage grant is the bootstrap's own.
Taken(g) ==
  /\ StructurallyValid(g)
  /\ OriginOK(g)
  /\ g.worker = "coverage" => g.bound

Dormant == [worker |-> "none"]

FactsInit(Grants) ==
  /\ now \in {0, 1}
  /\ setBack = FALSE
  /\ running = TRUE
  /\ \E g \in Grants : grant = [w \in FactWorkers |-> IF g[w].worker # "none" /\ Taken(g[w])
                                                  THEN g[w] ELSE Dormant]
  /\ at = [w \in FactWorkers |-> IF grant[w] = Dormant THEN "ended" ELSE "waiting"]
  /\ stamps = [w \in FactWorkers |-> <<>>]
  /\ facts = <<>>
  /\ fits \in [FactWorkers -> BOOLEAN]
  /\ signed = [w \in FactWorkers |-> 0]
  /\ posts = [w \in FactWorkers |-> <<>>]
  /\ postedAt = [w \in FactWorkers |-> {}]
  /\ server = [w \in FactWorkers |-> {}]
  /\ result = [w \in FactWorkers |-> "none"]
  /\ reported = <<>>
-----------------------------------------------------------------------------
Goes(w, step) == at' = [at EXCEPT ![w] = step] /\ UNCHANGED <<result, reported>>

\* The worker returns; the coverage task then reports its outcome, once.
Ends(w, r) ==
  /\ at' = [at EXCEPT ![w] = "ended"]
  /\ result' = [result EXCEPT ![w] = r]
  /\ reported' = IF w = "coverage" THEN Append(reported, r) ELSE reported

\* The time a step takes.
Lasts(most) == \E d \in 0..most : now + d \in Instants /\ now' = now + d

\* start_detached_fact_task of both tasks; a thread may fail to start and
\* nothing tells.
Launch ==
  /\ running
  /\ \E w \in FactWorkers : at[w] = "waiting"
  /\ \E started \in SUBSET {w \in FactWorkers : at[w] = "waiting"} :
       at' = [w \in FactWorkers |-> IF w \in started THEN "check"
                                ELSE IF at[w] = "waiting" THEN "lost" ELSE at[w]]
  /\ UNCHANGED <<now, setBack, running, grant, stamps, facts, fits, signed, posts,
                 postedAt, server, result, reported>>

\* FactClock::now_ms: a clock before 1970 reads as nothing.
Unreadable(w) ==
  /\ running
  /\ at[w] \in {"check", "begin", "complete", "post"}
  /\ Ends(w, "clock_unavailable")
  /\ UNCHANGED <<now, setBack, running, grant, stamps, facts, fits, signed, posts, postedAt, server>>

\* run_processor_fact_worker up to the helper's own digest.
CheckFacts ==
  /\ running
  /\ at["facts"] = "check"
  /\ IF ValidAt(grant["facts"], now) /\ grant["facts"].helper
     THEN Goes("facts", "begin") ELSE Ends("facts", "refused")
  /\ Lasts(1)
  /\ UNCHANGED <<setBack, running, grant, stamps, facts, fits, signed, posts, postedAt, server>>

\* The second reading: hashing took time.
BeginFacts ==
  /\ running
  /\ at["facts"] = "begin"
  /\ IF ValidAt(grant["facts"], now)
     THEN stamps' = [stamps EXCEPT !["facts"] = <<now>>] /\ Goes("facts", "collect")
     ELSE Ends("facts", "refused") /\ UNCHANGED stamps
  /\ UNCHANGED <<now, setBack, running, grant, facts, fits, signed, posts, postedAt, server>>

\* One kind of the catalog, if the grant names it.
Due(k) == IF k \in ToSet(grant["facts"].kinds) THEN <<k>> ELSE <<>>

\* The due kinds, in catalog order, whatever order the grant names them in.
CollectFacts ==
  /\ running
  /\ at["facts"] = "collect"
  /\ facts' = Due("android") \o Due("execution") \o Due("egress") \o Due("hardware")
  /\ Lasts(1)
  /\ Goes("facts", "complete")
  /\ UNCHANGED <<setBack, running, grant, stamps, fits, signed, posts, postedAt, server>>

\* The third reading, and the size the body will have once signed.
CompleteFacts ==
  /\ running
  /\ at["facts"] = "complete"
  /\ stamps' = [stamps EXCEPT !["facts"] = Append(@, now)]
  /\ IF fits["facts"] THEN Goes("facts", "sign") ELSE Ends("facts", "refused")
  /\ UNCHANGED <<now, setBack, running, grant, facts, fits, signed, posts, postedAt, server>>
-----------------------------------------------------------------------------
\* run_coverage_producer: the grant, then the traversal grant it may carry
\* (reserve_traversal).  A refused one ends the run; an admitted one collects
\* nothing in this build.
CheckCoverage ==
  /\ running
  /\ at["coverage"] = "check"
  /\ IF ValidAt(grant["coverage"], now) /\ grant["coverage"].traversal # "refused"
     THEN Goes("coverage", IF grant["coverage"].native THEN "begin" ELSE "network")
     ELSE Ends("coverage", "authorization_expired")
  /\ UNCHANGED <<now, setBack, running, grant, stamps, facts, fits, signed, posts, postedAt, server>>

\* The hardware capture of a native-image target: a clock set back between
\* its stamps gives a capture of no length.
HardwareCapture ==
  /\ running
  /\ at["coverage"] = "begin"
  /\ \E d \in 0..1 : \E completed \in {now + d} \cup (IF now > 0 THEN {now - 1} ELSE {}) :
       /\ completed \in Instants
       /\ now' = completed
       /\ setBack' = (setBack \/ completed < now)
       /\ stamps' = [stamps EXCEPT !["coverage"] =
                       <<IF now < completed THEN now ELSE completed, completed>>]
  /\ Goes("coverage", "network")
  /\ UNCHANGED <<running, grant, facts, fits, signed, posts, postedAt, server>>

\* The network stage: none asked, no clock, skipped near expiry, or a sample
\* and the inbound check after it.  A sample the contract refuses ends the run.
Network ==
  /\ running
  /\ at["coverage"] = "network"
  /\ \/ /\ grant["coverage"].prober
        /\ grant["coverage"].expires >= now + Reserve
        /\ Lasts(SampleMax + InboundMax)
        /\ Goes("coverage", "sign") \/ Ends("coverage", "envelope_unrepresentable")
     \/ Goes("coverage", "sign") /\ UNCHANGED now
  /\ UNCHANGED <<setBack, running, grant, stamps, facts, fits, signed, posts, postedAt, server>>
-----------------------------------------------------------------------------
\* BridgeFactSigner::sign_ed25519, and the size check of the signed body.
Sign(w) ==
  /\ running
  /\ at[w] = "sign"
  /\ \/ /\ signed' = [signed EXCEPT ![w] = @ + 1]
        /\ IF fits[w] THEN Goes(w, "post") ELSE Ends(w, "oversize_refused")
     \/ Ends(w, "signing_failed") /\ UNCHANGED signed
  /\ UNCHANGED <<now, setBack, running, grant, stamps, facts, fits, posts, postedAt, server>>

AfterPosts(w) == IF w = "facts" THEN "ok" ELSE "delivery_failed"
ExpiredEnd(w) == IF w = "facts" THEN "ok" ELSE "authorization_expired"

\* Mutant: the second attempt is signed afresh.
PostAfresh(w) ==
  /\ running
  /\ at[w] = "post"
  /\ IF now >= grant[w].expires
     THEN Ends(w, ExpiredEnd(w)) /\ UNCHANGED <<now, posts, postedAt, server, signed>>
     ELSE /\ postedAt' = [postedAt EXCEPT ![w] = @ \cup {now}]
          /\ signed' = [signed EXCEPT ![w] = @ + Len(posts[w])]
          /\ posts' = [posts EXCEPT ![w] = Append(@, signed'[w])]
          /\ \E taken, told \in BOOLEAN :
               /\ server' = IF taken THEN [server EXCEPT ![w] = @ \cup {signed'[w]}] ELSE server
               /\ IF taken /\ told THEN Ends(w, "submitted")
                  ELSE IF Len(posts[w]) = 1 THEN Ends(w, AfterPosts(w)) ELSE Goes(w, "post")
          /\ Lasts(AttemptMax)
  /\ UNCHANGED <<setBack, running, grant, stamps, facts, fits>>

\* Mutant: the second attempt relies on the reading of the first.
PostUnread(w) ==
  /\ running
  /\ at[w] = "post"
  /\ IF now >= grant[w].expires /\ posts[w] = <<>>
     THEN Ends(w, ExpiredEnd(w)) /\ UNCHANGED <<now, posts, postedAt, server>>
     ELSE /\ posts' = [posts EXCEPT ![w] = Append(@, signed[w])]
          /\ postedAt' = [postedAt EXCEPT ![w] = @ \cup {now}]
          /\ \E taken, told \in BOOLEAN :
               /\ server' = IF taken THEN [server EXCEPT ![w] = @ \cup {signed[w]}] ELSE server
               /\ IF taken /\ told THEN Ends(w, "submitted")
                  ELSE IF Len(posts[w]) = 1 THEN Ends(w, AfterPosts(w)) ELSE Goes(w, "post")
          /\ Lasts(AttemptMax)
  /\ UNCHANGED <<setBack, running, grant, stamps, facts, fits, signed>>

\* One pass of the delivery loop: a reading, then HttpsResultDelivery::deliver.
\* The server may take a body whose answer is lost or too long to read.
Post(w) ==
  /\ running
  /\ at[w] = "post"
  /\ IF now >= grant[w].expires
     THEN Ends(w, ExpiredEnd(w)) /\ UNCHANGED <<now, posts, postedAt, server>>
     ELSE /\ posts' = [posts EXCEPT ![w] = Append(@, signed[w])]
          /\ postedAt' = [postedAt EXCEPT ![w] = @ \cup {now}]
          /\ \E taken, told \in BOOLEAN :
               /\ server' = IF taken THEN [server EXCEPT ![w] = @ \cup {signed[w]}] ELSE server
               /\ IF taken /\ told THEN Ends(w, "submitted")
                  ELSE IF Len(posts[w]) = 1 THEN Ends(w, AfterPosts(w)) ELSE Goes(w, "post")
          /\ Lasts(AttemptMax)
  /\ UNCHANGED <<setBack, running, grant, stamps, facts, fits, signed>>

\* A panic of the worker's thread is caught and says nothing.
Panics(w) ==
  /\ running
  /\ at[w] \in {"collect", "begin", "network"}
  /\ at' = [at EXCEPT ![w] = "lost"]
  /\ UNCHANGED <<now, setBack, running, grant, stamps, facts, fits, signed, posts,
                 postedAt, server, result, reported>>

\* The wall clock is set back, once.
ClockSetBack ==
  /\ ~setBack
  /\ setBack' = TRUE
  /\ now' \in {t \in Instants : t < now}
  /\ UNCHANGED <<running, grant, at, stamps, facts, fits, signed, posts, postedAt, server,
                 result, reported>>

\* The supervisor returns and the process exits under its detached threads.
ProcessExits ==
  /\ running
  /\ running' = FALSE
  /\ UNCHANGED <<now, setBack, grant, at, stamps, facts, fits, signed, posts, postedAt, server,
                 result, reported>>

FactSteps == CheckFacts \/ BeginFacts \/ CollectFacts \/ CompleteFacts \/ Sign("facts") \/ Post("facts")
CoverageSteps == CheckCoverage \/ HardwareCapture \/ Network \/ Sign("coverage") \/ Post("coverage")

FactsNext ==
  \/ Launch \/ FactSteps \/ CoverageSteps \/ ClockSetBack \/ ProcessExits
  \/ \E w \in FactWorkers : Unreadable(w) \/ Panics(w)

\* Every call a worker makes has a timeout.
FactsFairness ==
  WF_factVars(Launch) /\ WF_factVars(FactSteps) /\ WF_factVars(CoverageSteps)
-----------------------------------------------------------------------------
(* One grant, one body: whatever is lost, late or repeated, the server is  *)
(* offered one signed body per grant, at most twice, each time before the  *)
(* grant expires by the clock of that moment; a fact body that does not  *)
(* fit is never signed; an outcome is reported at most once and only       *)
(* claims a submission the server took: the delivery loops of              *)
(* run_processor_fact_worker and run_coverage_producer.                    *)
OneBody ==
  /\ \A w \in FactWorkers :
       /\ Len(posts[w]) <= 2
       /\ Cardinality(ToSet(posts[w])) <= 1
       /\ \A t \in postedAt[w] : t < grant[w].expires
       /\ server[w] \subseteq ToSet(posts[w])
       /\ result[w] = "submitted" => signed[w] \in server[w]
       /\ posts[w] # <<>> => fits[w]
  /\ signed["facts"] > 0 => fits["facts"]
  /\ Len(reported) <= 1

(* What a worker reads, its grant allows: facts are collected only after a *)
(* reading at which the grant held, never of two profiles, and the stamps  *)
(* of a coverage capture are ordered even when the clock was set back.     *)
GrantHonoured ==
  /\ facts # <<>> =>
       /\ ValidAt(grant["facts"], stamps["facts"][1])
       /\ ToSet(facts) = ToSet(grant["facts"].kinds)
       /\ \A k \in ToSet(facts) : KindProfile(k) = grant["facts"].profile
  /\ stamps["coverage"] # <<>> => stamps["coverage"][1] <= stamps["coverage"][2]
  /\ \A w \in FactWorkers : signed[w] > 0 => grant[w] # Dormant

\* A worker that still has something to do in a running process.
WorkerPending == running /\ \E w \in FactWorkers : at[w] \notin {"ended", "lost"}
=============================================================================
