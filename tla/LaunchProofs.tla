---------------------------- MODULE LaunchProofs ----------------------------
(***************************************************************************)
(* Proofs about a whole boot, for every retry policy, every answer of the  *)
(* core, the secret service and the Lockbox, and every inherited           *)
(* environment: the customer starts only after a contact that is bound to  *)
(* this process, with whole deliveries and a sound environment.            *)
(***************************************************************************)
EXTENDS Launch, FiniteSetTheorems, SequenceTheorems, TLAPS

(* The stages of a boot, in order. *)
Opening == {"start", "socket", "probe", "open", "url", "identity", "identity_wait"}
Posting == {"post", "post_wait"}
Launching == {"files", "attach", "access", "environ", "supervise"}
Accepted == {"connect", "env", "secrets", "logging"} \cup Launching
Contacting == Opening \cup {"sign"} \cup Posting

(* The clock keeps within the ceiling plus the calls that may still follow *)
(* the last admitted wait, and no loop starts an attempt beyond the policy.*)
ClockInv ==
  /\ elapsed \in Nat /\ signedAt \in Nat /\ attempt \in Nat
  /\ elapsed <= MaxClock /\ signedAt <= MaxClock /\ attempt <= MaxAttempts
  /\ delay \in {InitialDelay, Interval}
  /\ pc \in Contacting => attempt < MaxAttempts
  /\ pc \in Opening => elapsed <= MaxElapsed
  /\ pc \in {"identity_wait", "post_wait"} => elapsed + delay <= MaxElapsed
  /\ pc = "sign" => elapsed <= MaxElapsed + IdentityTime
  /\ pc = "post" => /\ elapsed <= MaxElapsed + IdentityTime + SignTime
                    /\ elapsed <= signedAt + BodyTtl

(* One request is signed, before the first post, and the response that is  *)
(* accepted answers it.                                                    *)
RequestInv ==
  /\ pc \in Pcs
  /\ nonce \in 0..1 /\ posted \subseteq {1} /\ response \in Responses
  /\ environment \subseteq {"runtime", "secrets", "logging"}
  /\ pc \in Opening \cup {"sign"} => nonce = 0
  /\ pc \in Posting \cup Accepted => nonce = 1
  /\ pc \in Accepted => response.instance = 1
  /\ pc \in {"secrets", "logging"} \cup Launching => (response.env => "runtime" \in environment)
  /\ pc \in {"logging"} \cup Launching => (response.secrets = "required" => "secrets" \in environment)

(* What has been reported so far: nothing, the start, and a failure last.  *)
EvidenceInv ==
  /\ probing \in BOOLEAN /\ reporter \in BOOLEAN /\ started \in BOOLEAN /\ terminal \in BOOLEAN
  /\ exit \in [status : {0, 2, 70, 75}, stage : Pcs]
  /\ pc = "start" => ~started /\ sent = <<>>
  /\ pc # "exited" => ~terminal
  /\ pc \notin {"start", "exited"} => sent = IF reporter THEN <<"started">> ELSE <<>>
  /\ pc = "exited" =>
       \/ sent = (IF reporter THEN <<"started", "failed">> ELSE <<>>) /\ terminal = reporter
       \/ sent = (IF reporter THEN <<"started">> ELSE <<>>) /\ exit.stage \in {"connect", "supervise"}

ContactInv == ClockInv /\ RequestInv /\ EvidenceInv
-----------------------------------------------------------------------------
(* First contact. *)

(* What the steps of a boot do to the state of first contact: a step of    *)
(* contact, the end of a delivery, the way to supervision, or nothing.     *)
Moves ==
  {<<"files", "attach">>, <<"attach", "access">>, <<"access", "environ">>, <<"environ", "supervise">>}

Onward == \E m \in Moves : GoTo(m[1], m[2])

Conclude ==
  \/ LoadEnvironment \/ HydrateSecrets \/ SecretsFail
  \/ \E ok \in BOOLEAN : HydrateLogging(ok)

Exit ==
  /\ pc = "supervise"
  /\ pc' = "exited" /\ exit' = [status |-> 0, stage |-> "supervise"]
  /\ UNCHANGED <<probing, evidence, clock, request, response, environment>>

(* Every step of a boot is one of those.                                   *)
LEMMA BootKinds ==
  ASSUME LaunchNext
  PROVE  Contact \/ Conclude \/ Onward \/ Exit \/ UNCHANGED vars
<1>1. CASE Contact
  BY <1>1
<1>2. CASE Deliver
  <2>1. CASE BeginSecrets \/ NoSecrets \/ NoLogging \/ DeliveryFails
    BY <2>1 DEF BeginSecrets, NoSecrets, NoLogging, DeliveryFails, Conclude
  <2>2. CASE \E names \in SignedEnvs : LoadValues(names)
    BY <2>2 DEF LoadValues, Conclude
  <2>3. ASSUME NEW config, Bootstrapped(config) \/ NothingWanted(config)
        PROVE  Conclude \/ UNCHANGED vars
    BY <2>3 DEF Bootstrapped, NothingWanted, Conclude
  <2>4. CASE \E ambient \in {<<>>} \cup {<<l>> : l \in Lockboxes} : BeginLogging(ambient)
    BY <2>3, <2>4 DEF BeginLogging
  <2>5. CASE \E config \in Lockboxes : Found(config)
    BY <2>3, <2>5 DEF Found
  <2>6. CASE \E keys, primed \in Keys : SignDelivery(keys, primed)
    BY <2>6 DEF SignDelivery
  <2>7. CASE \E a \in Payloads : ApplySecrets(a) \/ ApplyLogConfig(a)
    BY <2>7 DEF ApplySecrets, ApplyLogConfig, Conclude
  <2> QED
    BY <1>2, <2>1, <2>2, <2>4, <2>5, <2>6, <2>7 DEF Deliver
<1>3. CASE \E opened, made \in BOOLEAN : OpenFiles(opened, made)
  <2>1. GoTo("files", "attach")
    BY <1>3 DEF OpenFiles, GoOn
  <2>2. <<"files", "attach">> \in Moves
    BY DEF Moves
  <2> QED
    BY <2>1, <2>2 DEF Onward
<1>4. CASE Attach
  <2>1. GoTo("attach", "access")
    BY <1>4 DEF Attach, GoOn
  <2>2. <<"attach", "access">> \in Moves
    BY DEF Moves
  <2> QED
    BY <2>1, <2>2 DEF Onward
<1>5. CASE \E outcome \in Conclusions : AccessConcludes(outcome)
  <2>1. GoTo("access", "environ")
    BY <1>5 DEF AccessConcludes, GoOn
  <2>2. <<"access", "environ">> \in Moves
    BY DEF Moves
  <2> QED
    BY <2>1, <2>2 DEF Onward
<1>6. CASE \E inherited \in Processors, proxied \in BOOLEAN : BuildEnvironment(inherited, proxied)
  <2>1. GoTo("environ", "supervise")
    BY <1>6 DEF BuildEnvironment, GoOn
  <2>2. <<"environ", "supervise">> \in Moves
    BY DEF Moves
  <2> QED
    BY <2>1, <2>2 DEF Onward
<1>7. CASE \E stopped \in BOOLEAN : Teardown(stopped)
  BY <1>7 DEF Teardown, Exit
<1>8. CASE DirectoryRefresh \/ Ended
  BY <1>8 DEF DirectoryRefresh, Ended, bootVars
<1> QED
  BY <1>1, <1>2, <1>3, <1>4, <1>5, <1>6, <1>7, <1>8 DEF LaunchNext, Boot

(* The policy of RetryPolicy and the timeouts are numbers.                 *)
LEMMA Policy ==
  /\ MaxAttempts \in Nat /\ MaxAttempts > 0
  /\ MaxElapsed \in Nat /\ InitialDelay \in Nat /\ Interval \in Nat
  /\ IdentityTime \in Nat /\ SignTime \in Nat /\ HttpTime \in Nat /\ BodyTtl \in Nat
  /\ MaxElapsed <= BodyTtl /\ SignTime <= BodyTtl
  /\ MaxClock \in Nat /\ MaxClock = MaxElapsed + IdentityTime + SignTime + HttpTime
BY ContactAssumption DEF MaxClock

(* The steps of contact that take no time on its clock.                    *)
Untimed ==
  /\ UNCHANGED <<clock, signedAt>>
  /\ \/ pc' \notin Contacting
     \/ pc \in Opening /\ pc' \in Opening \ {"identity_wait"}

(* The steps of contact by what they do to the clock.                      *)
LEMMA ContactKinds ==
  ASSUME Contact \/ Conclude \/ Onward \/ Exit
  PROVE  \/ Untimed
         \/ \E loop \in Loops : Sleep(loop)
         \/ \E t \in 0..IdentityTime :
              DiscoverIdentity(t) \/ IdentityUnavailable(t) \/ IdentityInvalid(t)
         \/ \E t \in 0..SignTime : SignRequest(t) \/ SignFails(t)
         \/ \E r \in Responses : ContactAccepted(r)
         \/ \E t \in 0..HttpTime : AttemptContact(t) /\ (Retry("post", 75) \/ (Fail(70) /\ UNCHANGED <<attempt, delay>>))
<1> USE DEF Untimed, Contacting, Opening, Posting, GoTo, FailAt, Fail
<1>1. CASE Start \/ SocketNamed \/ SocketMissing \/ ProbeClean \/ ProbeFails \/ BridgeOpens
           \/ BridgeUnusable \/ CoreUrlValid \/ CoreUrlInvalid
  BY <1>1 DEF Start, SocketNamed, SocketMissing, ProbeClean, ProbeFails, BridgeOpens, BridgeUnusable,
       CoreUrlValid, CoreUrlInvalid, request
<1>2. CASE BridgeReopens \/ BridgeLost \/ \E status \in {70, 75} : EnvironmentFails(status)
  BY <1>2 DEF BridgeReopens, BridgeLost, EnvironmentFails, request
<1>3. CASE Conclude \/ Exit
  BY <1>3 DEF Conclude, Exit, LoadEnvironment, HydrateSecrets, SecretsFail, HydrateLogging, Grow, request
<1>4. CASE Onward
  BY <1>4 DEF Onward, Moves, request
<1> HIDE DEF Untimed, Contacting, Opening, Posting, GoTo, FailAt, Fail
<1>5. ASSUME NEW t \in 0..HttpTime,
             \/ ContactInvalid(t) \/ ContactUnavailable(t)
             \/ \E flag \in {"true", "false", "none"}, notFound, status \in BOOLEAN :
                  ContactRefused(t, flag, notFound, status)
      PROVE  AttemptContact(t) /\ (Retry("post", 75) \/ (Fail(70) /\ UNCHANGED <<attempt, delay>>))
  BY <1>5, Zenon DEF ContactRefused, ContactInvalid, ContactUnavailable
<1>6. CASE \E t \in 0..HttpTime :
             \/ ContactInvalid(t) \/ ContactUnavailable(t)
             \/ \E flag \in {"true", "false", "none"}, notFound, status \in BOOLEAN :
                  ContactRefused(t, flag, notFound, status)
  BY <1>5, <1>6
<1>7. CASE Contact
  BY <1>1, <1>2, <1>6, <1>7, Zenon DEF Contact
<1> QED
  BY <1>3, <1>4, <1>7

(* The clock.                                                              *)
LEMMA ClockNext ==
  ASSUME ClockInv, LaunchNext
  PROVE  ClockInv'
<1> USE Policy DEF ClockInv, Contacting, Opening, Posting
<1>0. CASE UNCHANGED vars
  BY <1>0 DEF vars, clock, request
<1>1. CASE Untimed
  BY <1>1 DEF Untimed, clock
<1>2. CASE \E loop \in Loops : Sleep(loop)
  BY <1>2 DEF Sleep, Loops, Waiting, request
<1>3. ASSUME NEW t \in 0..IdentityTime, DiscoverIdentity(t) \/ IdentityInvalid(t)
      PROVE  ClockInv'
  BY <1>3 DEF DiscoverIdentity, IdentityInvalid, Fail, Leave, request
<1>4. ASSUME NEW t \in 0..IdentityTime, IdentityUnavailable(t)
      PROVE  ClockInv'
  BY <1>4 DEF IdentityUnavailable, Retry, Exhausted, Waiting, Fail, request
<1>5. ASSUME NEW t \in 0..SignTime, SignRequest(t) \/ SignFails(t)
      PROVE  ClockInv'
  BY <1>5 DEF SignRequest, SignFails, Fail, Leave, request
<1>6. ASSUME NEW r, ContactAccepted(r)
      PROVE  ClockInv'
  BY <1>6 DEF ContactAccepted, LeaveContact, Leave
<1>7. ASSUME NEW t \in 0..HttpTime, AttemptContact(t), Fail(70), UNCHANGED <<attempt, delay>>
      PROVE  ClockInv'
  BY <1>7 DEF AttemptContact, Fail
<1>8. ASSUME NEW t \in 0..HttpTime, AttemptContact(t), Retry("post", 75)
      PROVE  ClockInv'
  BY <1>8 DEF AttemptContact, Retry, Exhausted, Waiting, Fail
<1> HIDE DEF ClockInv
<1> QED
  BY <1>0, <1>1, <1>2, <1>3, <1>4, <1>5, <1>6, <1>7, <1>8, BootKinds, ContactKinds

(* The request and its response.                                           *)
LEMMA RequestNext ==
  ASSUME RequestInv, LaunchNext
  PROVE  RequestInv'
<1> USE DEF RequestInv, Accepted, Launching, Posting, Opening, Pcs, GoTo, FailAt, Fail
<1>0. CASE UNCHANGED vars
  BY <1>0 DEF vars, request
<1>1. CASE Start \/ SocketNamed \/ SocketMissing \/ ProbeClean \/ ProbeFails \/ BridgeOpens
           \/ BridgeUnusable \/ CoreUrlValid \/ CoreUrlInvalid
  BY <1>1 DEF Start, SocketNamed, SocketMissing, ProbeClean, ProbeFails, BridgeOpens, BridgeUnusable,
       CoreUrlValid, CoreUrlInvalid, request
<1>2. CASE BridgeReopens \/ BridgeLost \/ \E status \in {70, 75} : EnvironmentFails(status)
  BY <1>2 DEF BridgeReopens, BridgeLost, EnvironmentFails, request
<1>3. CASE Exit
  BY <1>3 DEF Exit, request
<1>4. CASE Onward
  BY <1>4 DEF Onward, Moves, request
<1>5. CASE Conclude
  BY <1>5 DEF Conclude, LoadEnvironment, HydrateSecrets, SecretsFail, HydrateLogging, Grow, request
<1>6. CASE \E loop \in Loops : Sleep(loop)
  BY <1>6 DEF Sleep, Loops, Waiting, request
<1>7. ASSUME NEW t, DiscoverIdentity(t) \/ IdentityInvalid(t) \/ IdentityUnavailable(t)
      PROVE  RequestInv'
  BY <1>7 DEF DiscoverIdentity, IdentityInvalid, IdentityUnavailable, Retry, Waiting, Leave, request
<1>8. ASSUME NEW t, SignRequest(t) \/ SignFails(t)
      PROVE  RequestInv'
  <2>1. CASE SignRequest(t)
    BY <2>1 DEF SignRequest, Leave
  <2>2. CASE SignFails(t)
    BY <2>2 DEF SignFails, request
  <2> QED
    BY <1>8, <2>1, <2>2
<1>9. ASSUME NEW r \in Responses, ContactAccepted(r)
      PROVE  RequestInv'
  BY <1>9 DEF ContactAccepted, LeaveContact, Leave
<1>10. ASSUME NEW t, AttemptContact(t), Retry("post", 75) \/ (Fail(70) /\ UNCHANGED <<attempt, delay>>)
       PROVE  RequestInv'
  BY <1>10 DEF AttemptContact, Retry, Waiting
<1> HIDE DEF RequestInv
<1>11. ASSUME NEW t \in 0..HttpTime,
             \/ ContactInvalid(t) \/ ContactUnavailable(t)
             \/ \E flag \in {"true", "false", "none"}, notFound, status \in BOOLEAN :
                  ContactRefused(t, flag, notFound, status)
       PROVE  RequestInv'
  <2>1. AttemptContact(t) /\ (Retry("post", 75) \/ (Fail(70) /\ UNCHANGED <<attempt, delay>>))
    BY <1>11, Zenon DEF ContactRefused, ContactInvalid, ContactUnavailable
  <2> QED
    BY <1>10, <2>1
<1>12. CASE Contact
  BY <1>1, <1>2, <1>6, <1>7, <1>8, <1>9, <1>11, <1>12, Zenon DEF Contact
<1> QED
  BY <1>0, <1>3, <1>4, <1>5, <1>12, BootKinds

(* A list of one, with one more.                                           *)
LEMMA AppendPair ==
  ASSUME NEW x, NEW y
  PROVE  Append(<<x>>, y) = <<x, y>>
<1> DEFINE s == Append(<<x>>, y)
           t == <<x, y>>
           S == {x, y}
<1>1. <<x>> \in Seq(S)
  OBVIOUS
<1>2. s \in Seq(S)
  BY <1>1
<1>3. t \in Seq(S)
  OBVIOUS
<1>4. Len(s) = 2
  BY <1>1
<1>5. Len(t) = 2
  OBVIOUS
<1>6. s[1] = x /\ s[2] = y
  BY <1>1
<1>7. t[1] = x /\ t[2] = y
  OBVIOUS
<1>8. \A i \in 1..Len(s) : s[i] = t[i]
  BY <1>4, <1>6, <1>7
<1> HIDE DEF s, t
<1>9. s = t
  BY <1>2, <1>3, <1>4, <1>5, <1>8, SeqEqual
<1> QED
  BY <1>9 DEF s, t

(* The reports.                                                            *)
LEMMA EvidenceNext ==
  ASSUME EvidenceInv, pc \in Pcs, LaunchNext
  PROVE  EvidenceInv'
<1> USE DEF EvidenceInv, GoTo, FailAt
<1>0. ASSUME UNCHANGED <<probing, evidence, exit>>, pc \notin {"start", "exited"},
             pc' \notin {"start", "exited"}
      PROVE  EvidenceInv'
  BY <1>0 DEF evidence
<1>1. ASSUME NEW status \in {2, 70, 75}, Fail(status), pc \notin {"start", "exited"}
      PROVE  EvidenceInv'
  <2>1. exit' \in [status : {0, 2, 70, 75}, stage : Pcs]
    BY <1>1 DEF Fail
  <2>2. /\ ReportFailed /\ ~terminal /\ reporter \in BOOLEAN
        /\ sent = IF reporter THEN <<"started">> ELSE <<>>
    BY <1>1 DEF Fail
  <2>3. Append(<<"started">>, "failed") = <<"started", "failed">>
    BY AppendPair
  <2>4. CASE reporter
    BY <1>1, <2>1, <2>2, <2>3, <2>4 DEF Fail, ReportFailed
  <2>5. CASE ~reporter
    BY <1>1, <2>1, <2>2, <2>5 DEF Fail, ReportFailed
  <2> QED
    BY <2>4, <2>5
<1>2. CASE Start
  <2>1. sent' = IF reporter THEN <<"started">> ELSE <<>>
    BY <1>2 DEF Start, ReportStarted
  <2> QED
    BY <1>2, <2>1 DEF Start, ReportStarted
<1> HIDE DEF EvidenceInv
<1>3. CASE SocketNamed \/ SocketMissing \/ ProbeClean \/ ProbeFails \/ BridgeOpens
           \/ BridgeUnusable \/ CoreUrlValid \/ CoreUrlInvalid \/ BridgeReopens
           \/ \E status \in {70, 75} : EnvironmentFails(status)
  BY <1>0, <1>1, <1>3 DEF SocketNamed, SocketMissing, ProbeClean, ProbeFails, BridgeOpens, BridgeUnusable,
       CoreUrlValid, CoreUrlInvalid, BridgeReopens, EnvironmentFails
<1>4. CASE BridgeLost \/ Exit
  <2>1. exit' \in [status : {0, 2, 70, 75}, stage : Pcs] /\ exit'.stage \in {"connect", "supervise"}
    BY <1>4 DEF BridgeLost, Exit, Pcs
  <2> QED
    BY <1>4, <2>1 DEF BridgeLost, Exit, EvidenceInv, evidence
<1>5. CASE Onward
  BY <1>0, <1>5 DEF Onward, Moves
<1>6. CASE Conclude
  BY <1>0, <1>1, <1>6 DEF Conclude, LoadEnvironment, HydrateSecrets, SecretsFail, HydrateLogging, Grow
<1>7. CASE \E loop \in Loops : Sleep(loop)
  BY <1>0, <1>7 DEF Sleep, Loops, Waiting
<1>8. ASSUME NEW loop \in Loops, NEW status \in {70, 75}, pc = loop, Retry(loop, status)
      PROVE  EvidenceInv'
  BY <1>0, <1>1, <1>8 DEF Retry, Waiting, Loops
<1>9. ASSUME NEW t, DiscoverIdentity(t) \/ IdentityInvalid(t) \/ IdentityUnavailable(t)
      PROVE  EvidenceInv'
  BY <1>0, <1>1, <1>8, <1>9 DEF DiscoverIdentity, IdentityInvalid, IdentityUnavailable, Leave, Loops
<1>10. ASSUME NEW t, SignRequest(t) \/ SignFails(t)
       PROVE  EvidenceInv'
  BY <1>0, <1>1, <1>10 DEF SignRequest, SignFails, Leave
<1>11. ASSUME NEW r \in Responses, ContactAccepted(r)
       PROVE  EvidenceInv'
  BY <1>0, <1>11 DEF ContactAccepted, LeaveContact, Leave
<1>12. ASSUME NEW t \in 0..HttpTime,
              \/ ContactInvalid(t) \/ ContactUnavailable(t)
              \/ \E flag \in {"true", "false", "none"}, notFound, status \in BOOLEAN :
                   ContactRefused(t, flag, notFound, status)
       PROVE  EvidenceInv'
  <2>1. AttemptContact(t) /\ (Retry("post", 75) \/ (Fail(70) /\ UNCHANGED <<attempt, delay>>))
    BY <1>12, Zenon DEF ContactRefused, ContactInvalid, ContactUnavailable
  <2> QED
    BY <1>1, <1>8, <2>1 DEF AttemptContact, Loops
<1>13. CASE Contact
  BY <1>2, <1>3, <1>4, <1>7, <1>9, <1>10, <1>11, <1>12, <1>13, Zenon DEF Contact
<1>14. CASE UNCHANGED vars
  BY <1>14 DEF vars, evidence, EvidenceInv
<1> QED
  BY <1>4, <1>5, <1>6, <1>13, <1>14, BootKinds

(* First contact starts in order.                                          *)
LEMMA ContactStart == Init => ContactInv
<1> SUFFICES ASSUME Init PROVE ContactInv
  OBVIOUS
<1> USE DEF Init, Opening, Posting, Pcs
<1>1. ClockInv
  BY Policy DEF ClockInv, Contacting
<1>2. NoResponse \in Responses
  BY DEF Responses, NoResponse, Hints
<1>3. RequestInv
  BY <1>2 DEF RequestInv, Accepted, Launching
<1>4. EvidenceInv
  BY DEF EvidenceInv
<1> QED
  BY <1>1, <1>3, <1>4 DEF ContactInv
-----------------------------------------------------------------------------
(* The deliveries. *)

(* A list without repetitions has as many values as places.                *)
LEMMA DistinctCount ==
  ASSUME NEW m \in Nat, NEW T, NEW f \in [1..m -> T],
         \A t \in T : \E i \in 1..m : f[i] = t,
         \A i, j \in 1..m : f[i] = f[j] => i = j
  PROVE  IsFiniteSet(T) /\ Cardinality(T) = m
<1>1. f \in Injection(1..m, T) /\ f \in Surjection(1..m, T)
  BY DEF Injection, Surjection, IsInjective
<1>0. 1 \in Int /\ m \in Int
  OBVIOUS
<1>2. IsFiniteSet(1..m) /\ Cardinality(1..m) = IF 1 > m THEN 0 ELSE m - 1 + 1
  BY <1>0, FS_Interval, Zenon
<1>3. Cardinality(1..m) = m
  BY <1>2
<1> QED
  BY <1>1, <1>2, <1>3, FS_Surjection

(* Without the log configuration among distinct ids, it is among none.     *)
LEMMA LogDropped ==
  ASSUME NEW ids \in Seq(SecretIds), \A i, j \in DOMAIN ids : ids[i] = ids[j] => i = j
  PROVE  /\ RemoveFirst(ids, LogId) \in Seq(SecretIds)
         /\ LogId \notin ToSet(RemoveFirst(ids, LogId))
<1> DEFINE at == SelectInSeq(ids, LAMBDA v : v = LogId)
<1>1. CASE ~\E i \in 1..Len(ids) : ids[i] = LogId
  BY <1>1 DEF RemoveFirst, ToSet
<1>2. CASE \E i \in 1..Len(ids) : ids[i] = LogId
  <2>1. PICK i \in 1..Len(ids) : ids[i] = LogId
    BY <1>2
  <2>2. {j \in 1..Len(ids) : ids[j] = LogId} = {i}
    BY <2>1
  <2>3. Min({i}) = i
    BY DEF Min
  <2>4. at = i
    BY <2>1, <2>2, <2>3 DEF SelectInSeq
  <2>5. RemoveFirst(ids, LogId) = SubSeq(ids, 1, i - 1) \o SubSeq(ids, i + 1, Len(ids))
    BY <1>2, <2>4 DEF RemoveFirst, RemoveAt
  <2> DEFINE a == SubSeq(ids, 1, i - 1)
             b == SubSeq(ids, i + 1, Len(ids))
  <2>6. /\ a \in Seq(SecretIds) /\ b \in Seq(SecretIds)
        /\ Len(a) = i - 1 /\ Len(b) = Len(ids) - i
    OBVIOUS
  <2>7. \A j \in 1..Len(a) : a[j] # LogId
    BY <2>1, <2>6
  <2>8. \A j \in 1..Len(b) : b[j] # LogId
    BY <2>1, <2>6
  <2> HIDE DEF a, b
  <2>9. \A j \in 1..Len(a \o b) : (a \o b)[j] # LogId
    BY <2>6, <2>7, <2>8
  <2>10. a \o b \in Seq(SecretIds) /\ DOMAIN (a \o b) = 1..Len(a \o b)
    BY <2>6
  <2> QED
    BY <2>5, <2>9, <2>10 DEF ToSet, a, b
<1> QED
  BY <1>1, <1>2

(* A payload that decrypts and is applied is whole and this job's.         *)
LEMMA PayloadWhole ==
  ASSUME NEW a \in Payloads, Decrypts(a), DistinctDestinations(a.secrets)
  PROVE  /\ {s.id : s \in ToSet(a.secrets)} = ToSet(delivery.config.ids)
         /\ \A s, t \in ToSet(a.secrets) : s # t => s.id # t.id /\ Destination(s) # Destination(t)
         /\ \A s \in ToSet(a.secrets) : s.job = "this"
<1> DEFINE m == Len(a.secrets)
           f == [i \in 1..m |-> a.secrets[i].id]
           g == [i \in 1..m |-> a.versions[i].id]
           S == {a.secrets[i].id : i \in 1..m}
           T == {a.versions[i].id : i \in 1..m}
<1>1. /\ m \in Nat /\ DOMAIN a.secrets = 1..m /\ DOMAIN a.versions = 1..m
      /\ \A i \in 1..m : a.secrets[i].job = "this"
  <2>1. Len(a.secrets) \in Nat /\ DOMAIN a.secrets = 1..Len(a.secrets)
    BY DeliveryAssumption
  <2>2. DOMAIN a.versions = 1..Len(a.versions)
    BY DeliveryAssumption
  <2>3. Len(a.versions) = m /\ a.bound /\ a.intact /\ a.inner
    BY DEF Decrypts, ValidDeliveries
  <2> QED
    BY <2>1, <2>2, <2>3, DeliveryAssumption
<1>2. \A i, j \in 1..m : a.secrets[i].id = a.secrets[j].id => i = j
  BY <1>1 DEF Decrypts, ValidDeliveries, DistinctIds
<1>3. \A i, j \in 1..m : a.versions[i].id = a.versions[j].id => i = j
  BY <1>1 DEF Decrypts, ValidVersions, DistinctIds
<1>4. S \subseteq T
  <2>1. ASSUME NEW i \in 1..m PROVE \E j \in 1..m : a.versions[j].id = a.secrets[i].id
    <3>1. PICK j \in 1..m : Metadata(a.versions[j]) = Metadata(a.secrets[i])
      BY <1>1 DEF Decrypts, ValidDeliveries
    <3>2. Metadata(a.versions[j]).id = a.versions[j].id /\ Metadata(a.secrets[i]).id = a.secrets[i].id
      BY DEF Metadata
    <3> QED
      BY <3>1, <3>2
  <2> QED
    BY <2>1
<1>5. f \in [1..m -> S]
  OBVIOUS
<1>6. \A t \in S : \E i \in 1..m : f[i] = t
  OBVIOUS
<1>7. g \in [1..m -> T]
  OBVIOUS
<1>8. \A t \in T : \E i \in 1..m : g[i] = t
  OBVIOUS
<1>9. \A i, j \in 1..m : f[i] = f[j] => i = j
  BY <1>2
<1>10. \A i, j \in 1..m : g[i] = g[j] => i = j
  BY <1>3
<1>11. S = T
  <2>1. m \in Nat
    BY <1>1
  <2> HIDE DEF f, g, S, T, m
  <2>2. IsFiniteSet(S) /\ Cardinality(S) = m
    BY <1>5, <1>6, <1>9, <2>1, DistinctCount, Zenon
  <2>3. IsFiniteSet(T) /\ Cardinality(T) = m
    BY <1>7, <1>8, <1>10, <2>1, DistinctCount, Zenon
  <2> QED
    BY <1>4, <2>2, <2>3, FS_Subset
<1>12. T = ToSet(delivery.config.ids)
  BY <1>1 DEF Decrypts, ValidVersions
<1>13. S = {s.id : s \in ToSet(a.secrets)}
  BY <1>1 DEF ToSet
<1>14. ASSUME NEW s \in ToSet(a.secrets), NEW t \in ToSet(a.secrets), s # t
       PROVE  s.id # t.id /\ Destination(s) # Destination(t)
  <2>1. PICK i \in 1..m : s = a.secrets[i]
    BY <1>1 DEF ToSet
  <2>2. PICK j \in 1..m : t = a.secrets[j]
    BY <1>1 DEF ToSet
  <2>3. i # j
    BY <1>14, <2>1, <2>2
  <2>4. Destination(a.secrets[i]) # Destination(a.secrets[j])
    BY <1>1, <2>3 DEF DistinctDestinations
  <2> QED
    BY <1>2, <2>1, <2>2, <2>3, <2>4
<1>15. \A s \in ToSet(a.secrets) : s.job = "this"
  BY <1>1 DEF ToSet
<1> QED
  BY <1>11, <1>12, <1>13, <1>14, <1>15

(* What a delivery has asked for and applied so far.                       *)
DeliverySteps == {"begin", "find", "find_post", "fetch", "fetch_post"}

AskedInv ==
  /\ delivery \in [step : DeliverySteps, tier : {"none", "p256", "secp256k1"},
                   config : [json : BOOLEAN, bound : BOOLEAN, ids : Seq(SecretIds)]]
  /\ pc \notin {"secrets", "logging", "exited"} => delivery.step = "begin"
  /\ pc = "secrets" /\ delivery.step # "begin" => response.secrets # "none"
  /\ pc = "secrets" /\ delivery.step \in {"fetch", "fetch_post"} => LogId \notin ToSet(delivery.config.ids)
  /\ pc = "secrets" /\ delivery.step = "fetch_post" => asked = ToSet(delivery.config.ids)
  /\ pc = "logging" /\ delivery.step # "begin" => response.logging /\ values[LogName] = "none"

AppliedInv ==
  /\ values \in [Names -> Sources]
  /\ pc \in Contacting \cup {"connect", "env"} => \A n \in Names : values[n] = "none"
  /\ pc \in Contacting \cup {"connect", "env", "secrets"} => delivered = {}
  /\ pc = "secrets" => \A n \in Names : values[n] \in {"none", "signed"}
  /\ \A n \in Protected : values[n] \in {"none", "secret"}
  /\ DeliveryExact

(* What is wanted of a Lockbox is a list of ids, in the secrets' request   *)
(* without the log configuration.                                          *)
LEMMA WantedIds ==
  ASSUME NEW ids \in Seq(SecretIds), pc = "secrets" => IsInjective(ids)
  PROVE  /\ Wanted(ids) \in Seq(SecretIds)
         /\ pc = "secrets" => LogId \notin ToSet(Wanted(ids))
<1>1. CASE pc = "secrets"
  <2>1. \A i, j \in DOMAIN ids : ids[i] = ids[j] => i = j
    BY <1>1 DEF IsInjective
  <2> QED
    BY <1>1, <2>1, LogDropped DEF Wanted
<1>2. CASE pc # "secrets"
  <2>1. LogId \in SecretIds
    BY DeliveryAssumption
  <2>2. <<LogId>> \in Seq(SecretIds)
    BY <2>1
  <2>3. <<>> \in Seq(SecretIds)
    OBVIOUS
  <2> QED
    BY <1>2, <2>2, <2>3 DEF Wanted
<1> QED
  BY <1>1, <1>2

(* No delivery is under way in the idle state.                             *)
LEMMA IdleTyped ==
  /\ Idle \in [step : DeliverySteps, tier : {"none", "p256", "secp256k1"},
               config : [json : BOOLEAN, bound : BOOLEAN, ids : Seq(SecretIds)]]
  /\ Idle.step = "begin"
<1>1. <<>> \in Seq(SecretIds)
  OBVIOUS
<1>2. Config(FALSE, <<>>) \in [json : BOOLEAN, bound : BOOLEAN, ids : Seq(SecretIds)]
  BY <1>1 DEF Config
<1> QED
  BY <1>2 DEF Idle, DeliverySteps

(* The steps of the launching thread.                                      *)
Launches ==
  \/ \E opened, made \in BOOLEAN : OpenFiles(opened, made)
  \/ Attach
  \/ \E outcome \in Conclusions : AccessConcludes(outcome)
  \/ \E inherited \in Processors, proxied \in BOOLEAN : BuildEnvironment(inherited, proxied)
  \/ \E stopped \in BOOLEAN : Teardown(stopped)

(* A step outside the deliveries is taken at another stage.                *)
LEMMA OutsideDelivery ==
  ASSUME LaunchNext
  PROVE  \/ Deliver /\ UNCHANGED launchVars
         \/ (DirectoryRefresh \/ Ended) /\ UNCHANGED <<vars, deliveryVars>>
         \/ /\ UNCHANGED <<deliveryVars, launchVars>>
            /\ pc \in Contacting \cup {"connect", "env"}
            /\ pc' \in Contacting \cup {"connect", "env", "exited"}
            /\ pc' # "exited" \/ UNCHANGED response
         \/ /\ Launches /\ UNCHANGED <<deliveryVars, response>>
            /\ pc \in Launching /\ pc' \in Launching \cup {"exited"}
<1> USE DEF Contacting, Opening, Posting, Launching, Launches
<1>1. CASE Contact /\ UNCHANGED <<deliveryVars, launchVars>>
  <2> USE DEF GoTo, FailAt, Fail
  <2>1. CASE Start \/ SocketNamed \/ SocketMissing \/ ProbeClean \/ ProbeFails \/ BridgeOpens
             \/ BridgeUnusable \/ CoreUrlValid \/ CoreUrlInvalid
    BY <1>1, <2>1 DEF Start, SocketNamed, SocketMissing, ProbeClean, ProbeFails, BridgeOpens, BridgeUnusable,
         CoreUrlValid, CoreUrlInvalid
  <2>2. CASE BridgeReopens \/ BridgeLost \/ \E status \in {70, 75} : EnvironmentFails(status)
    BY <1>1, <2>2 DEF BridgeReopens, BridgeLost, EnvironmentFails
  <2>3. CASE \E loop \in Loops : Sleep(loop)
    BY <1>1, <2>3 DEF Sleep, Loops, Waiting
  <2>4. CASE \E t \in 0..IdentityTime : DiscoverIdentity(t) \/ IdentityUnavailable(t) \/ IdentityInvalid(t)
    BY <1>1, <2>4 DEF DiscoverIdentity, IdentityUnavailable, IdentityInvalid, Retry, Waiting, Leave
  <2>5. CASE \E t \in 0..SignTime : SignRequest(t) \/ SignFails(t)
    BY <1>1, <2>5 DEF SignRequest, SignFails, Leave
  <2>6. CASE \E r \in Responses : ContactAccepted(r)
    BY <1>1, <2>6 DEF ContactAccepted, LeaveContact, Leave
  <2>7. CASE \E t \in 0..HttpTime : AttemptContact(t) /\ (Retry("post", 75) \/ (Fail(70) /\ UNCHANGED <<attempt, delay>>))
    BY <1>1, <2>7 DEF AttemptContact, Retry, Waiting
  <2>8. CASE \E t \in 0..HttpTime :
               \/ ContactInvalid(t) \/ ContactUnavailable(t)
               \/ \E flag \in {"true", "false", "none"}, notFound, status \in BOOLEAN :
                    ContactRefused(t, flag, notFound, status)
    <3> HIDE DEF GoTo, FailAt, Fail
    <3>1. \E t \in 0..HttpTime : AttemptContact(t) /\ (Retry("post", 75) \/ (Fail(70) /\ UNCHANGED <<attempt, delay>>))
      BY <2>8, Zenon DEF ContactRefused, ContactInvalid, ContactUnavailable
    <3> QED
      BY <2>7, <3>1
  <2> QED
    BY <1>1, <2>1, <2>2, <2>3, <2>4, <2>5, <2>6, <2>8, Zenon DEF Contact
<1>2. CASE \E opened, made \in BOOLEAN : OpenFiles(opened, made)
  BY <1>2 DEF OpenFiles, GoOn, GoTo
<1>3. CASE Attach
  BY <1>3 DEF Attach, GoOn, GoTo
<1>4. CASE \E outcome \in Conclusions : AccessConcludes(outcome)
  BY <1>4 DEF AccessConcludes, GoOn, GoTo
<1>5. CASE \E inherited \in Processors, proxied \in BOOLEAN : BuildEnvironment(inherited, proxied)
  BY <1>5 DEF BuildEnvironment, GoOn, GoTo
<1>6. CASE DirectoryRefresh \/ Ended
  BY <1>6 DEF DirectoryRefresh, Ended, bootVars
<1>7. CASE \E stopped \in BOOLEAN : Teardown(stopped)
  BY <1>7 DEF Teardown
<1> QED
  BY <1>1, <1>2, <1>3, <1>4, <1>5, <1>6, <1>7 DEF LaunchNext, Boot

(* What a delivery asks for.                                               *)
LEMMA AskedNext ==
  ASSUME AskedInv, LaunchNext
  PROVE  AskedInv'
<1> DEFINE Type == [step : DeliverySteps, tier : {"none", "p256", "secp256k1"},
                    config : [json : BOOLEAN, bound : BOOLEAN, ids : Seq(SecretIds)]]
<1>0. ASSUME delivery' \in Type, delivery'.step = "begin"
      PROVE  AskedInv'
  BY <1>0 DEF AskedInv
<1>1. ASSUME delivery' = Idle
      PROVE  AskedInv'
  BY <1>0, <1>1, IdleTyped
<1>2. ASSUME UNCHANGED delivery, delivery.step = "begin"
      PROVE  AskedInv'
  BY <1>0, <1>2 DEF AskedInv
<1>3. ASSUME UNCHANGED <<vars, deliveryVars>>
      PROVE  AskedInv'
  BY <1>3 DEF AskedInv, vars, deliveryVars
<1>4. CASE BeginSecrets
  <2>1. delivery' \in Type /\ delivery'.step = "find"
    BY <1>4 DEF BeginSecrets, AskedInv, DeliverySteps
  <2>2. pc' = "secrets" /\ response'.secrets # "none"
    BY <1>4 DEF BeginSecrets, vars
  <2> QED
    BY <2>1, <2>2 DEF AskedInv
<1>5. CASE NoSecrets
  <2>1. delivery.step = "begin"
    BY <1>5 DEF NoSecrets, HydrateSecrets, Grow, AskedInv
  <2> QED
    BY <1>2, <1>5, <2>1 DEF NoSecrets, deliveryVars
<1>6. CASE NoLogging
  BY <1>2, <1>6 DEF NoLogging, deliveryVars
<1>7. CASE \E names \in SignedEnvs : LoadValues(names)
  <2>1. delivery.step = "begin"
    BY <1>7 DEF LoadValues, LoadEnvironment, Grow, AskedInv
  <2> QED
    BY <1>2, <1>7, <2>1 DEF LoadValues
<1>8. CASE DeliveryFails \/ \E a \in Payloads : ApplySecrets(a) \/ ApplyLogConfig(a)
  BY <1>1, <1>8 DEF DeliveryFails, ApplySecrets, ApplyLogConfig
<1>9. ASSUME NEW config \in Lockboxes, Making, Bootstrapped(config) \/ NothingWanted(config),
             pc = "secrets" => IsInjective(config.ids) /\ delivery.step # "begin",
             pc = "logging" => response.logging /\ values[LogName] = "none"
      PROVE  AskedInv'
  <2>1. CASE NothingWanted(config)
    BY <1>1, <2>1 DEF NothingWanted
  <2>2. CASE Bootstrapped(config)
    <3>1. config \in [json : BOOLEAN, bound : BOOLEAN, ids : Seq(SecretIds)]
      BY DeliveryAssumption
    <3>2. /\ Wanted(config.ids) \in Seq(SecretIds)
          /\ pc = "secrets" => LogId \notin ToSet(Wanted(config.ids))
      BY <1>9, <3>1, WantedIds
    <3>3. /\ delivery' \in Type /\ delivery'.step = "fetch"
          /\ delivery'.config.ids = Wanted(config.ids)
      BY <2>2, <3>1, <3>2 DEF Bootstrapped, DeliverySteps
    <3>4. UNCHANGED <<pc, response, values>>
      BY <2>2 DEF Bootstrapped, vars
    <3>5. pc = "secrets" => response.secrets # "none"
      BY <1>9 DEF AskedInv
    <3> QED
      BY <1>9, <3>2, <3>3, <3>4, <3>5 DEF AskedInv, Making
  <2> QED
    BY <1>9, <2>1, <2>2
<1>10. CASE pc = "logging" /\ BeginLogging(<<>>)
  <2>1. delivery' \in Type /\ delivery'.step = "find"
    BY <1>10 DEF BeginLogging, AskedInv, DeliverySteps
  <2>2. pc' = "logging" /\ response'.logging /\ values'[LogName] = "none"
    BY <1>10 DEF BeginLogging, vars
  <2> QED
    BY <2>1, <2>2 DEF AskedInv
<1>11. ASSUME NEW config \in Lockboxes, pc = "logging", BeginLogging(<<config>>)
       PROVE  AskedInv'
  BY <1>9, <1>11 DEF BeginLogging, Making
<1>12. ASSUME NEW config \in Lockboxes, Found(config)
       PROVE  AskedInv'
  <2>1. Making /\ IsInjective(config.ids) /\ delivery.step # "begin"
    BY <1>12 DEF Found
  <2>2. pc = "logging" => response.logging /\ values[LogName] = "none"
    BY <2>1 DEF AskedInv
  <2> QED
    BY <1>9, <1>12, <2>1, <2>2 DEF Found
<1>13. ASSUME NEW keys, NEW primed, SignDelivery(keys, primed)
       PROVE  AskedInv'
  <2>1. /\ delivery' \in Type /\ delivery'.config = delivery.config
        /\ delivery.step = "find" => delivery'.step = "find_post"
        /\ delivery.step = "fetch" => delivery'.step = "fetch_post"
    BY <1>13 DEF SignDelivery, AskedInv, DeliverySteps
  <2>2. UNCHANGED <<pc, response, values>> /\ Making /\ delivery.step \in {"find", "fetch"}
    BY <1>13 DEF SignDelivery, vars
  <2>3. pc = "secrets" /\ delivery.step = "fetch" => asked' = ToSet(delivery.config.ids)
    BY <1>13 DEF SignDelivery
  <2>4. /\ pc = "secrets" => response.secrets # "none"
        /\ pc = "logging" => response.logging /\ values[LogName] = "none"
        /\ pc = "secrets" /\ delivery.step = "fetch" => LogId \notin ToSet(delivery.config.ids)
    BY <2>2 DEF AskedInv
  <2> QED
    BY <2>1, <2>2, <2>3, <2>4 DEF AskedInv, Making
<1>14. CASE Deliver
  BY <1>4, <1>5, <1>6, <1>7, <1>8, <1>10, <1>11, <1>12, <1>13, <1>14 DEF Deliver
<1>15. CASE UNCHANGED deliveryVars /\ pc \notin {"secrets", "logging", "exited"}
  <2>1. delivery.step = "begin"
    BY <1>15 DEF AskedInv
  <2> QED
    BY <1>2, <1>15, <2>1 DEF deliveryVars
<1> QED
  BY <1>3, <1>14, <1>15, OutsideDelivery DEF Contacting, Opening, Posting, Launching

(* What a delivery has applied.                                            *)
LEMMA AppliedNext ==
  ASSUME AppliedInv, AskedInv, LaunchNext
  PROVE  AppliedInv'
<1> USE DEF Contacting, Opening, Posting
<1>1. ASSUME UNCHANGED <<values, delivered, asked, response>>,
             \/ pc' = pc
             \/ pc' \in {"logging", "exited"} \cup Launching
      PROVE  AppliedInv'
  BY <1>1 DEF AppliedInv, DeliveryExact, Launching
<1>2. CASE UNCHANGED <<vars, deliveryVars>>
  BY <1>1, <1>2 DEF vars, deliveryVars
<1>3. CASE /\ UNCHANGED deliveryVars
           /\ pc \in Contacting \cup {"connect", "env"}
           /\ pc' \in Contacting \cup {"connect", "env", "exited"}
  <2>1. UNCHANGED <<values, delivered>> /\ delivered = {} /\ \A n \in Names : values[n] = "none"
    BY <1>3 DEF AppliedInv, deliveryVars
  <2>2. LogName \in Names
    BY DEF Names
  <2>3. DeliveryExact'
    BY <2>1, <2>2 DEF DeliveryExact
  <2> QED
    BY <1>3, <2>1, <2>3 DEF AppliedInv
<1>4. CASE UNCHANGED <<deliveryVars, response>> /\ pc' \in Launching \cup {"exited"}
  BY <1>1, <1>4 DEF deliveryVars
<1>5. CASE BeginSecrets \/ NoSecrets \/ NoLogging \/ DeliveryFails
  BY <1>1, <1>5 DEF BeginSecrets, NoSecrets, NoLogging, DeliveryFails, HydrateSecrets, HydrateLogging,
       SecretsFail, Grow, FailAt, Fail, GoTo, deliveryVars, vars, Launching
<1>6. ASSUME NEW config, Bootstrapped(config) \/ NothingWanted(config)
      PROVE  AppliedInv'
  BY <1>1, <1>6 DEF Bootstrapped, NothingWanted, HydrateSecrets, HydrateLogging, SecretsFail, Grow,
       FailAt, Fail, GoTo, vars, Launching
<1>7. ASSUME NEW ambient, BeginLogging(ambient)
      PROVE  AppliedInv'
  BY <1>1, <1>6, <1>7 DEF BeginLogging, vars
<1>8. ASSUME NEW config, Found(config)
      PROVE  AppliedInv'
  BY <1>6, <1>8 DEF Found
<1>9. ASSUME NEW names, LoadValues(names)
      PROVE  AppliedInv'
  <2>1. pc' = "secrets" /\ delivered = {} /\ UNCHANGED <<response, delivered>>
    BY <1>9 DEF LoadValues, LoadEnvironment, Grow, AppliedInv
  <2>2. values' \in [Names -> Sources] /\ \A n \in Names : values'[n] \in {"none", "signed"}
    BY <1>9 DEF LoadValues, Sources
  <2>3. \A n \in Protected : values'[n] \in {"none", "secret"}
    BY <1>9 DEF LoadValues, Protected, Names
  <2>4. LogName \in Names
    BY DEF Names
  <2>5. DeliveryExact'
    BY <2>1, <2>2, <2>4 DEF DeliveryExact
  <2> QED
    BY <2>1, <2>2, <2>3, <2>5 DEF AppliedInv
<1>10. ASSUME NEW keys, NEW primed, SignDelivery(keys, primed)
       PROVE  AppliedInv'
  <2>1. CASE pc = "secrets"
    <3>1. UNCHANGED <<values, delivered, response, pc>> /\ delivered = {}
      BY <1>10, <2>1 DEF SignDelivery, AppliedInv, vars
    <3> QED
      BY <2>1, <3>1 DEF AppliedInv, DeliveryExact
  <2>2. CASE pc # "secrets"
    BY <1>1, <1>10, <2>2 DEF SignDelivery, vars
  <2> QED
    BY <2>1, <2>2
<1>11. ASSUME NEW a \in Payloads, ApplySecrets(a)
       PROVE  AppliedInv'
  <2>1. /\ pc = "secrets" /\ pc' = "logging" /\ UNCHANGED <<response, asked>>
        /\ delivered' = ToSet(a.secrets)
        /\ Decrypts(a) /\ DistinctDestinations(a.secrets) /\ delivery.step = "fetch_post"
    BY <1>11 DEF ApplySecrets, HydrateSecrets, Grow
  <2>2. asked' = ToSet(delivery.config.ids) /\ LogId \notin asked'
    BY <2>1 DEF AskedInv
  <2>3. /\ {s.id : s \in ToSet(a.secrets)} = ToSet(delivery.config.ids)
        /\ \A s, t \in ToSet(a.secrets) : s # t => s.id # t.id /\ Destination(s) # Destination(t)
        /\ \A s \in ToSet(a.secrets) : s.job = "this"
    BY <2>1, PayloadWhole
  <2>4. \A s \in ToSet(a.secrets) : s.id # LogId
    BY <2>2, <2>3
  <2>5. /\ values' = [n \in Names |->
              IF \E s \in delivered' : Destination(s) = <<"env", n>> THEN "secret" ELSE values[n]]
        /\ \A n \in Names : values[n] \in {"none", "signed"}
    BY <1>11, <2>1 DEF ApplySecrets, AppliedInv
  <2>6. values' \in [Names -> Sources]
    BY <2>5 DEF Sources
  <2>7. \A n \in Names : values'[n] = "secret" <=> \E s \in delivered' : Destination(s) = <<"env", n>>
    BY <2>5
  <2>8. LogName \in Names /\ values'[LogName] # "server"
    BY <2>5 DEF Names
  <2>9. \A n \in Protected : values'[n] \in {"none", "secret"}
    BY <2>5 DEF AppliedInv, Protected, Names
  <2>10. DeliveryExact'
    BY <2>1, <2>2, <2>3, <2>4, <2>7, <2>8 DEF DeliveryExact
  <2> QED
    BY <2>1, <2>6, <2>9, <2>10 DEF AppliedInv
<1>12. ASSUME NEW a \in Payloads, ApplyLogConfig(a)
       PROVE  AppliedInv'
  <2>1. /\ pc = "logging" /\ pc' = "files" /\ UNCHANGED <<response, asked, delivered>>
        /\ values' = [values EXCEPT ![LogName] = "server"] /\ delivery.step = "fetch_post"
    BY <1>12 DEF ApplyLogConfig, HydrateLogging, Grow
  <2>2. response.logging /\ values[LogName] = "none"
    BY <2>1 DEF AskedInv
  <2>3. /\ LogName \in Names /\ values'[LogName] = "server" /\ values' \in [Names -> Sources]
        /\ \A n \in Names : n # LogName => values'[n] = values[n]
    BY <2>1 DEF AppliedInv, Names, Sources
  <2>4. \A n \in Names : values'[n] = "secret" <=> values[n] = "secret"
    BY <2>2, <2>3
  <2>5. {n \in Names : values'[n] = "secret"} = {n \in Names : values[n] = "secret"}
    BY <2>4
  <2>6. DeliveryExact'
    BY <2>1, <2>2, <2>5 DEF AppliedInv, DeliveryExact
  <2>7. \A n \in Protected : values'[n] \in {"none", "secret"}
    BY <2>3 DEF AppliedInv, Protected, Names, LogName
  <2> QED
    BY <2>1, <2>3, <2>6, <2>7 DEF AppliedInv
<1>13. CASE Deliver
  BY <1>5, <1>7, <1>8, <1>9, <1>10, <1>11, <1>12, <1>13 DEF Deliver
<1> QED
  BY <1>2, <1>3, <1>4, <1>13, OutsideDelivery

(* A delivery is made between contact and the launch, for one response.    *)
LEMMA DeliverStages ==
  ASSUME Deliver
  PROVE  /\ pc \in {"env", "secrets", "logging"}
         /\ pc' \in {"secrets", "logging", "files", "exited"}
         /\ UNCHANGED response
<1> USE DEF HydrateSecrets, HydrateLogging, SecretsFail, LoadEnvironment, Grow, FailAt, Fail, GoTo, vars
<1>1. CASE BeginSecrets \/ NoSecrets \/ NoLogging \/ DeliveryFails
  BY <1>1 DEF BeginSecrets, NoSecrets, NoLogging, DeliveryFails
<1>2. ASSUME NEW config, Making, Bootstrapped(config) \/ NothingWanted(config)
      PROVE  /\ pc \in {"env", "secrets", "logging"}
             /\ pc' \in {"secrets", "logging", "files", "exited"}
             /\ UNCHANGED response
  BY <1>2 DEF Making, Bootstrapped, NothingWanted
<1>3. CASE \E names \in SignedEnvs : LoadValues(names)
  BY <1>3 DEF LoadValues
<1>4. CASE \E keys, primed \in Keys : SignDelivery(keys, primed)
  BY <1>4 DEF SignDelivery, Making
<1>5. CASE \E a \in Payloads : ApplySecrets(a) \/ ApplyLogConfig(a)
  BY <1>5 DEF ApplySecrets, ApplyLogConfig
<1>6. CASE pc = "logging" /\ BeginLogging(<<>>)
  BY <1>6 DEF BeginLogging
<1>7. CASE pc = "logging" /\ \E config \in Lockboxes : BeginLogging(<<config>>)
  BY <1>2, <1>7 DEF BeginLogging, Making
<1>8. CASE \E config \in Lockboxes : Found(config)
  BY <1>2, <1>8 DEF Found
<1> QED
  BY <1>1, <1>3, <1>4, <1>5, <1>6, <1>7, <1>8 DEF Deliver
-----------------------------------------------------------------------------
(* The v1 directory. *)

(* The file is the last snapshot that was accepted, and it passed          *)
(* validate_snapshot.                                                      *)
FileInv ==
  /\ v1 \in [open : BOOLEAN, file : {NoSnapshot} \cup Snapshots, temp : BOOLEAN, last : Nat,
             failed : BOOLEAN, newest : Nat]
  /\ v1.file.observed = v1.last /\ v1.last = v1.newest
  /\ v1.file # NoSnapshot => v1.file \in Snapshots /\ v1.file.own /\ ValidateSnapshot(v1.file)

(* A file just created is in order.                                        *)
LEMMA FreshFile ==
  ASSUME NEW b \in BOOLEAN, v1' = [ClosedFile EXCEPT !.open = b]
  PROVE  FileInv'
BY DEF FileInv, ClosedFile, NoSnapshot

(* A refresh replaces the file by a newer one, or leaves it.               *)
LEMMA FileRefresh ==
  ASSUME FileInv, Refresh
  PROVE  FileInv'
<1> DEFINE Type == [open : BOOLEAN, file : {NoSnapshot} \cup Snapshots, temp : BOOLEAN, last : Nat,
                    failed : BOOLEAN, newest : Nat]
<1>0. v1 \in Type
  BY DEF FileInv
<1>1. ASSUME v1' \in Type, UNCHANGED <<v1.file, v1.last, v1.newest>>
      PROVE  FileInv'
  BY <1>1 DEF FileInv, ValidateSnapshot, ValidPeer
<1>2. CASE RefreshFails
  BY <1>0, <1>1, <1>2 DEF RefreshFails
<1>3. ASSUME NEW s \in Snapshots, NEW fault \in {"none", "create", "write"}, NEW removed \in BOOLEAN,
             AcceptResponse(s, fault, removed)
      PROVE  FileInv'
  <2>1. CASE v1' = [v1 EXCEPT !.failed = TRUE]
    BY <1>0, <1>1, <2>1
  <2>2. CASE \E b \in BOOLEAN : v1' = [v1 EXCEPT !.temp = b, !.failed = TRUE]
    BY <1>0, <1>1, <2>2
  <2>3. CASE /\ Acceptable(s)
             /\ v1' = [v1 EXCEPT !.file = s, !.last = s.observed, !.failed = FALSE,
                                 !.newest = IF @ < s.observed THEN s.observed ELSE @]
    <3>1. s.observed \in Nat
      BY SnapshotAssumption
    <3>2. v1.last = v1.newest /\ v1.last \in Nat /\ s.observed >= v1.last
      BY <1>0, <2>3 DEF FileInv, Acceptable
    <3>3. /\ v1'.file = s /\ v1'.last = s.observed
          /\ v1'.newest = IF v1.newest < s.observed THEN s.observed ELSE v1.newest
      BY <1>0, <2>3
    <3>4. v1'.newest = s.observed
      BY <3>1, <3>2, <3>3
    <3>5. v1' \in Type
      BY <1>0, <2>3, <3>1
    <3>6. s.own /\ ValidateSnapshot(s)
      BY <2>3 DEF Acceptable
    <3> QED
      BY <3>3, <3>4, <3>5, <3>6 DEF FileInv
  <2> QED
    BY <1>3, <2>1, <2>2, <2>3 DEF AcceptResponse
<1> QED
  BY <1>2, <1>3 DEF Refresh

(* So it is current and whole.                                             *)
LEMMA FileCurrent ==
  ASSUME FileInv
  PROVE  DiscoveryCurrent
<1> DEFINE p == v1.file.peers
           m == Len(p)
           T == {p[i].instance : i \in 1..m}
           f == [i \in 1..m |-> p[i].instance]
<1>1. ASSUME v1.file # NoSnapshot
      PROVE  Cardinality({p[i].instance : i \in DOMAIN p}) = Len(p)
  <2>1. m \in Nat /\ DOMAIN p = 1..m
    BY <1>1, SnapshotAssumption DEF FileInv
  <2>2. \A i, j \in 1..m : p[i].instance = p[j].instance => i = j
    BY <1>1, <2>1 DEF FileInv, ValidateSnapshot
  <2>3. \A i, j \in 1..m : f[i] = f[j] => i = j
    BY <2>2
  <2>4. f \in [1..m -> T]
    OBVIOUS
  <2>5. \A t \in T : \E i \in 1..m : f[i] = t
    OBVIOUS
  <2>6. {p[i].instance : i \in DOMAIN p} = T
    BY <2>1
  <2> HIDE DEF f, T, m
  <2>7. Cardinality(T) = m
    BY <2>1, <2>3, <2>4, <2>5, DistinctCount, Zenon
  <2> QED
    BY <2>6, <2>7 DEF m
<1>2. ASSUME v1.file # NoSnapshot, NEW i \in DOMAIN p, NEW k \in DOMAIN p[i].services,
             NEW j \in DOMAIN p[i].services[k].endpoints,
             p[i].services[k].endpoints[j].state \in {"ready", "published"}
      PROVE  p[i].services[k].endpoints[j].url = "tailnet"
  <2>1. ValidPeer(p[i])
    BY <1>2 DEF FileInv, ValidateSnapshot
  <2>2. ValidEndpoint(p[i].services[k].endpoints[j])
    BY <1>2, <2>1 DEF ValidPeer
  <2> QED
    BY <1>2, <2>2 DEF ValidEndpoint
<1>3. v1.file # NoSnapshot => v1.file.own
  BY DEF FileInv
<1>4. v1.file.observed = v1.last /\ v1.last = v1.newest
  BY DEF FileInv
<1> QED
  BY <1>1, <1>2, <1>3, <1>4 DEF DiscoveryCurrent
-----------------------------------------------------------------------------
(* The launch. *)

(* Before the discovery files are opened, nothing of the launch has begun. *)
Early == Contacting \cup {"connect", "env", "secrets", "logging", "files"}
Opened == {"attach", "access", "environ", "supervise"}

(* The modes that the response and the signed environment chose.           *)
ModeInv ==
  /\ v1.open => pc \in Opened /\ response.access = "published"
  /\ pc \in Opened => /\ direct = "active" => response.access # "published"
                      /\ ready = "bound" => /\ values["LISKOV_APPLICATION_READINESS"] # "none"
                                            /\ direct # "failed"

(* The modes are chosen once.                                              *)
LEMMA ModeNext ==
  ASSUME ModeInv, LaunchNext
  PROVE  ModeInv'
<1> USE DEF ModeInv, Opened
<1>1. CASE Deliver /\ UNCHANGED launchVars
  BY <1>1, DeliverStages DEF launchVars
<1>2. CASE (DirectoryRefresh \/ Ended) /\ UNCHANGED <<vars, deliveryVars>>
  <2>1. v1'.open => v1.open
    <3>1. CASE Ended
      BY <3>1 DEF Ended, bootVars, launchVars
    <3>2. CASE DirectoryRefresh
      BY <3>2 DEF DirectoryRefresh, Refresh, RefreshFails, AcceptResponse
    <3> QED
      BY <1>2, <3>1, <3>2
  <2>2. UNCHANGED <<pc, response, values, direct, ready>>
    BY <1>2 DEF DirectoryRefresh, Ended, bootVars, launchVars, vars, deliveryVars
  <2> QED
    BY <2>1, <2>2
<1>3. CASE /\ UNCHANGED <<deliveryVars, launchVars>>
           /\ pc \in Contacting \cup {"connect", "env"}
           /\ pc' \in Contacting \cup {"connect", "env", "exited"}
  BY <1>3 DEF launchVars, Contacting, Opening, Posting
<1>4. CASE Launches /\ UNCHANGED <<deliveryVars, response>>
  <2>1. ASSUME NEW opened \in BOOLEAN, NEW made \in BOOLEAN, OpenFiles(opened, made)
        PROVE  ModeInv'
    <3>1. pc' = "attach" /\ UNCHANGED <<response, values>>
      BY <1>4, <2>1 DEF OpenFiles, GoOn, GoTo, deliveryVars
    <3>2. v1'.open = (response.access = "published" /\ opened)
      BY <2>1 DEF OpenFiles, ClosedFile
    <3>3. direct' = "active" => response.access # "published"
      BY <2>1 DEF OpenFiles
    <3>4. ready' = "bound" => values["LISKOV_APPLICATION_READINESS"] # "none" /\ direct' # "failed"
      BY <2>1 DEF OpenFiles
    <3> QED
      BY <3>1, <3>2, <3>3, <3>4
  <2>2. CASE \/ Attach
             \/ \E outcome \in Conclusions : AccessConcludes(outcome)
             \/ \E inherited \in Processors, proxied \in BOOLEAN : BuildEnvironment(inherited, proxied)
    BY <1>4, <2>2 DEF Attach, AccessConcludes, BuildEnvironment, GoOn, GoTo, deliveryVars
  <2>3. CASE \E stopped \in BOOLEAN : Teardown(stopped)
    <3>1. v1'.open = FALSE /\ pc' = "exited"
      BY <2>3 DEF Teardown, ClosedFile
    <3> QED
      BY <3>1
  <2> QED
    BY <1>4, <2>1, <2>2, <2>3 DEF Launches
<1> QED
  BY <1>1, <1>2, <1>3, <1>4, OutsideDelivery

(* The directory through a whole boot.                                     *)
LEMMA FileNext ==
  ASSUME FileInv, LaunchNext
  PROVE  FileInv'
<1>0. ASSUME UNCHANGED v1
      PROVE  FileInv'
  BY <1>0 DEF FileInv, ValidateSnapshot, ValidPeer
<1>1. CASE UNCHANGED launchVars
  BY <1>0, <1>1 DEF launchVars
<1>2. CASE DirectoryRefresh
  BY <1>2, FileRefresh DEF DirectoryRefresh
<1>3. CASE Ended
  BY <1>1, <1>3 DEF Ended, bootVars
<1>4. CASE Launches
  <2>1. ASSUME NEW opened, NEW made, OpenFiles(opened, made)
        PROVE  FileInv'
    <3>1. v1' = [ClosedFile EXCEPT !.open = response.access = "published" /\ opened]
      BY <2>1 DEF OpenFiles
    <3>2. (response.access = "published" /\ opened) \in BOOLEAN
      OBVIOUS
    <3> QED
      BY <3>1, <3>2, FreshFile
  <2>2. ASSUME NEW stopped, Teardown(stopped)
        PROVE  FileInv'
    BY <2>2 DEF Teardown, FileInv, ClosedFile, NoSnapshot
  <2>3. CASE \/ Attach
             \/ \E outcome \in Conclusions : AccessConcludes(outcome)
             \/ \E inherited \in Processors, proxied \in BOOLEAN : BuildEnvironment(inherited, proxied)
    BY <1>0, <2>3 DEF Attach, AccessConcludes, BuildEnvironment
  <2> QED
    BY <1>4, <2>1, <2>2, <2>3 DEF Launches
<1> QED
  BY <1>1, <1>2, <1>3, <1>4, OutsideDelivery

(* What the launching thread has reported, stage by stage.                 *)
AccessStages == Conclusions \cup {"setup_started", "stopped"}
Stages == AccessStages \cup {"attach", "normalized", "process"}
AccessAt == {i \in DOMAIN told : told[i] \in AccessStages}

ToldInv ==
  /\ told \in Seq(Stages)
  /\ pc \in Early \cup {"attach"} => Len(told) = 0
  /\ pc \in Early \cup {"attach", "access"} => ~session
  /\ pc = "access" => /\ Len(told) = (IF Served THEN 2 ELSE 1)
                      /\ told[1] = "attach" /\ (Served => told[2] = "setup_started")
  /\ pc = "environ" => \A i \in DOMAIN told : told[i] # "normalized"
  /\ ~Served => AccessAt = {}
  /\ pc \in {"environ", "supervise"} /\ ~Served => ~session
  /\ pc \in {"environ", "supervise"} /\ Served =>
       /\ AccessAt = {2, 3} /\ told[2] = "setup_started" /\ told[3] \in Conclusions
       /\ session <=> told[3] = "ready"
  /\ pc = "exited" /\ AccessAt # {} =>
       \E i \in AccessAt : /\ told[i] \in {"stopped", "degraded", "skipped"}
                           /\ \A j \in AccessAt : j <= i

(* The reports a step adds come after the ones before.                     *)
LEMMA ReportExtends ==
  ASSUME NEW s \in Seq(Stages), told \in Seq(Stages), Report(s)
  PROVE  /\ told' \in Seq(Stages) /\ Len(told) \in Nat /\ Len(s) \in Nat
         /\ Len(told') = Len(told) + Len(s)
         /\ DOMAIN told = 1..Len(told) /\ DOMAIN told' = 1..(Len(told) + Len(s))
         /\ \A i \in 1..Len(told) : told'[i] = told[i]
         /\ \A i \in 1..(Len(told) + Len(s)) : i > Len(told) => told'[i] = s[i - Len(told)]
BY DEF Report

(* Reports of other things leave those about the access where they are.    *)
LEMMA AccessKept ==
  ASSUME NEW s \in Seq(Stages), told \in Seq(Stages), Report(s),
         \A i \in 1..Len(s) : s[i] \notin AccessStages
  PROVE  /\ AccessAt' = AccessAt
         /\ \A i \in AccessAt : told'[i] = told[i]
<1>1. \A i \in DOMAIN told' : i \in DOMAIN told \/ (i > Len(told) /\ told'[i] = s[i - Len(told)] /\ i - Len(told) \in 1..Len(s))
  BY ReportExtends
<1>2. \A i \in DOMAIN told : i \in DOMAIN told' /\ told'[i] = told[i]
  BY ReportExtends
<1> QED
  BY <1>1, <1>2 DEF AccessAt

(* A list of a few reports.                                                *)
LEMMA ShortLists ==
  /\ <<>> \in Seq(Stages) /\ Len(<<>>) = 0
  /\ \A x \in Stages : <<x>> \in Seq(Stages) /\ Len(<<x>>) = 1 /\ <<x>>[1] = x
  /\ \A x, y \in Stages : /\ <<x, y>> \in Seq(Stages) /\ Len(<<x, y>>) = 2
                          /\ <<x, y>>[1] = x /\ <<x, y>>[2] = y
OBVIOUS

(* One more report.                                                        *)
LEMMA ReportOne ==
  ASSUME NEW x \in Stages, told \in Seq(Stages), Report(<<x>>)
  PROVE  /\ told' \in Seq(Stages) /\ DOMAIN told' = 1..(Len(told) + 1)
         /\ told'[Len(told) + 1] = x
         /\ \A i \in 1..Len(told) : told'[i] = told[i]
<1> DEFINE s == <<x>>
<1>1. s \in Seq(Stages) /\ Len(s) = 1 /\ s[1] = x
  BY ShortLists
<1>2. Report(s)
  OBVIOUS
<1> HIDE DEF s
<1>3. /\ told' \in Seq(Stages) /\ Len(told) \in Nat
      /\ DOMAIN told' = 1..(Len(told) + Len(s))
      /\ \A i \in 1..Len(told) : told'[i] = told[i]
      /\ \A i \in 1..(Len(told) + Len(s)) : i > Len(told) => told'[i] = s[i - Len(told)]
  BY <1>1, <1>2, ReportExtends, Zenon
<1> QED
  BY <1>1, <1>3

(* None.                                                                   *)
LEMMA ReportNone ==
  ASSUME told \in Seq(Stages), Report(<<>>)
  PROVE  told' = told
BY ConcatEmptySeq, Zenon DEF Report

(* The reports of the environment.                                         *)
LEMMA Normalized ==
  /\ <<"normalized">> \o <<"process">> \in Seq({"normalized", "process"})
  /\ Len(<<"normalized">> \o <<"process">>) = 2
  /\ (<<"normalized">> \o <<"process">>)[1] = "normalized"
  /\ <<>> \o <<"process">> \in Seq({"process"})
  /\ Len(<<>> \o <<"process">>) = 1
<1> DEFINE a == <<"normalized">>
           b == <<"process">>
           S == {"normalized", "process"}
<1>1. a \in Seq(S) /\ Len(a) = 1 /\ a[1] = "normalized"
  OBVIOUS
<1>2. b \in Seq(S) /\ Len(b) = 1 /\ b \in Seq({"process"})
  OBVIOUS
<1> HIDE DEF a, b, S
<1>3. /\ a \o b \in Seq(S) /\ Len(a \o b) = Len(a) + Len(b)
      /\ \A i \in 1..(Len(a) + Len(b)) : (a \o b)[i] = IF i <= Len(a) THEN a[i] ELSE b[i - Len(a)]
  BY <1>1, <1>2, ConcatProperties, Zenon
<1>5. a \o b \in Seq(S) /\ Len(a \o b) = 2 /\ (a \o b)[1] = "normalized"
  BY <1>1, <1>2, <1>3
<1>4. <<>> \o b = b
  BY <1>2, ConcatEmptySeq, Zenon
<1> QED
  BY <1>2, <1>4, <1>5 DEF a, b, S

(* The reports of a boot.                                                  *)
LEMMA ToldNext ==
  ASSUME ToldInv, LaunchNext
  PROVE  ToldInv'
<1>0. told \in Seq(Stages) /\ Len(told) \in Nat /\ DOMAIN told = 1..Len(told)
  BY DEF ToldInv
<1>1. ASSUME UNCHANGED <<told, session>>, pc \in Early, pc' \in Early \cup {"attach", "exited"}
      PROVE  ToldInv'
  <2>1. told' \in Seq(Stages) /\ Len(told') = 0 /\ ~session'
    BY <1>1 DEF ToldInv
  <2>2. DOMAIN told' = 1..0
    BY <2>1
  <2>3. AccessAt' = {}
    BY <2>2 DEF AccessAt
  <2> QED
    BY <1>1, <2>1, <2>3 DEF ToldInv, Early, Contacting, Opening, Posting
<1>2. ASSUME UNCHANGED <<told, session, pc, response>>
      PROVE  ToldInv'
  BY <1>2 DEF ToldInv, AccessAt, Served
<1>3. CASE Deliver /\ UNCHANGED launchVars
  BY <1>1, <1>3, DeliverStages DEF launchVars, Early
<1>4. CASE (DirectoryRefresh \/ Ended) /\ UNCHANGED <<vars, deliveryVars>>
  BY <1>2, <1>4 DEF DirectoryRefresh, Ended, bootVars, launchVars, vars
<1>5. CASE /\ UNCHANGED <<deliveryVars, launchVars>>
           /\ pc \in Contacting \cup {"connect", "env"}
           /\ pc' \in Contacting \cup {"connect", "env", "exited"}
  BY <1>1, <1>5 DEF launchVars, Early
<1>6. ASSUME NEW opened, NEW made, OpenFiles(opened, made)
      PROVE  ToldInv'
  BY <1>1, <1>6 DEF OpenFiles, GoOn, GoTo, Early
<1>7. ASSUME Attach
      PROVE  ToldInv'
  <2>1. pc = "attach" /\ pc' = "access" /\ UNCHANGED <<response, session>>
    BY <1>7 DEF Attach, GoOn, GoTo
  <2>2. Len(told) = 0 /\ ~session'
    BY <2>1 DEF ToldInv
  <2> DEFINE s == IF Served THEN <<"attach", "setup_started">> ELSE <<"attach">>
  <2>3. /\ s \in Seq(Stages) /\ Len(s) = (IF Served THEN 2 ELSE 1)
        /\ s[1] = "attach" /\ (Served => s[2] = "setup_started")
    BY ShortLists DEF Stages, AccessStages
  <2>4. Report(s)
    BY <1>7 DEF Attach
  <2> HIDE DEF s
  <2>5. /\ told' \in Seq(Stages) /\ Len(told') = Len(s) /\ DOMAIN told' = 1..Len(s)
        /\ \A i \in 1..Len(s) : told'[i] = s[i]
    BY <1>0, <2>2, <2>3, <2>4, ReportExtends
  <2>6. Served' = Served
    BY <2>1 DEF Served
  <2>7. ~Served => AccessAt' = {}
    BY <2>3, <2>5 DEF AccessAt, AccessStages, Conclusions
  <2>8. /\ told'[1] = "attach" /\ (Served => told'[2] = "setup_started")
        /\ Len(told') = (IF Served THEN 2 ELSE 1)
    BY <2>3, <2>5
  <2> QED
    BY <2>1, <2>2, <2>5, <2>6, <2>7, <2>8 DEF ToldInv, Early, Contacting, Opening, Posting
<1>8. ASSUME NEW outcome \in Conclusions, AccessConcludes(outcome)
      PROVE  ToldInv'
  <2>1. /\ pc = "access" /\ pc' = "environ" /\ UNCHANGED response
        /\ session' = (outcome = "ready") /\ (outcome = "ready" => Served)
    BY <1>8 DEF AccessConcludes, GoOn, GoTo
  <2>2. Served' = Served
    BY <2>1 DEF Served
  <2>3. outcome \in Stages /\ outcome \in AccessStages
    BY DEF Stages, AccessStages
  <2>4. CASE Served
    <3>1. Len(told) = 2 /\ told[1] = "attach" /\ told[2] = "setup_started"
      BY <2>1, <2>4 DEF ToldInv
    <3>2. Report(<<outcome>>)
      BY <1>8, <2>4 DEF AccessConcludes
    <3>3. /\ told' \in Seq(Stages) /\ DOMAIN told' = 1..(Len(told) + 1)
          /\ told'[Len(told) + 1] = outcome /\ \A i \in 1..Len(told) : told'[i] = told[i]
      BY <1>0, <2>3, <3>2, ReportOne
    <3>4. told' \in Seq(Stages) /\ DOMAIN told' = 1..3 /\ told'[1] = "attach" /\ told'[2] = "setup_started"
      BY <3>1, <3>3
    <3>5. told'[3] = outcome
      BY <3>1, <3>3
    <3>6. AccessAt' = {2, 3}
      BY <2>3, <3>4, <3>5 DEF AccessAt, AccessStages, Conclusions
    <3>7. \A i \in DOMAIN told' : told'[i] # "normalized"
      BY <3>4, <3>5 DEF Conclusions
    <3> QED
      BY <2>1, <2>2, <2>4, <3>4, <3>5, <3>6, <3>7 DEF ToldInv, Early, Contacting, Opening, Posting
  <2>5. CASE ~Served
    <3>1. Len(told) = 1 /\ told[1] = "attach"
      BY <2>1, <2>5 DEF ToldInv
    <3>2. Report(<<>>)
      BY <1>8, <2>5 DEF AccessConcludes
    <3>3. told' \in Seq(Stages) /\ DOMAIN told' = 1..1 /\ told'[1] = "attach"
      BY <1>0, <3>1, <3>2, ReportNone
    <3>4. AccessAt' = {} /\ \A i \in DOMAIN told' : told'[i] # "normalized"
      BY <3>3 DEF AccessAt, AccessStages, Conclusions
    <3> QED
      BY <2>1, <2>2, <2>5, <3>3, <3>4 DEF ToldInv, Early, Contacting, Opening, Posting
  <2> QED
    BY <2>4, <2>5
<1>9. ASSUME NEW s \in Seq(Stages), Report(s), \A i \in 1..Len(s) : s[i] \notin AccessStages,
             pc = "environ", pc' = "supervise", UNCHANGED <<response, session>>
      PROVE  ToldInv'
  <2>1. AccessAt' = AccessAt /\ \A i \in AccessAt : told'[i] = told[i]
    BY <1>0, <1>9, AccessKept
  <2>2. told' \in Seq(Stages)
    BY <1>0, <1>9, ReportExtends
  <2>3. Served' = Served
    BY <1>9 DEF Served
  <2> QED
    BY <1>9, <2>1, <2>2, <2>3 DEF ToldInv, Early, Contacting, Opening, Posting
<1>10. ASSUME NEW inherited, NEW proxied, BuildEnvironment(inherited, proxied)
       PROVE  ToldInv'
  <2>1. PICK b \in BOOLEAN : Report((IF b THEN <<>> ELSE <<"normalized">>) \o <<"process">>)
    BY <1>10, Zenon DEF BuildEnvironment
  <2> DEFINE s == (IF b THEN <<>> ELSE <<"normalized">>) \o <<"process">>
  <2>2. s \in Seq(Stages) /\ \A i \in 1..Len(s) : s[i] \notin AccessStages
    <3>1. CASE b
      BY <3>1, Normalized DEF Stages, AccessStages, Conclusions
    <3>2. CASE ~b
      BY <3>2, Normalized DEF Stages, AccessStages, Conclusions
    <3> QED
      BY <3>1, <3>2
  <2>3. pc = "environ" /\ pc' = "supervise" /\ UNCHANGED <<response, session>>
    BY <1>10 DEF BuildEnvironment, GoOn, GoTo
  <2> QED
    BY <1>9, <2>1, <2>2, <2>3
<1>11. ASSUME NEW stopped \in BOOLEAN, Teardown(stopped)
       PROVE  ToldInv'
  <2>1. /\ pc = "supervise" /\ pc' = "exited" /\ UNCHANGED response /\ session' = FALSE
        /\ Report(IF ~session THEN <<>> ELSE IF stopped THEN <<"stopped">> ELSE <<"degraded">>)
    BY <1>11 DEF Teardown
  <2>2. Served' = Served
    BY <2>1 DEF Served
  <2>3. CASE ~session
    <3>1. Report(<<>>)
      BY <2>1, <2>3
    <3>2. told' \in Seq(Stages) /\ AccessAt' = AccessAt /\ \A i \in AccessAt : told'[i] = told[i]
      BY <1>0, <3>1, ReportNone DEF AccessAt
    <3>3. CASE Served
      <4>1. AccessAt = {2, 3} /\ told[3] \in {"degraded", "skipped"}
        BY <2>1, <2>3, <3>3 DEF ToldInv, Conclusions
      <4> QED
        BY <2>1, <2>2, <3>2, <3>3, <4>1 DEF ToldInv, Early, Contacting, Opening, Posting
    <3>4. CASE ~Served
      <4>1. AccessAt = {}
        BY <3>4 DEF ToldInv
      <4> QED
        BY <2>1, <2>2, <3>2, <3>4, <4>1 DEF ToldInv, Early, Contacting, Opening, Posting
    <3> QED
      BY <3>3, <3>4
  <2>4. CASE session
    <3>1. Served
      BY <2>1, <2>4 DEF ToldInv
    <3>2. PICK x \in {"stopped", "degraded"} : Report(<<x>>)
      BY <2>1, <2>4
    <3>3. x \in Stages /\ x \in AccessStages
      BY DEF Stages, AccessStages, Conclusions
    <3>4. /\ told' \in Seq(Stages) /\ DOMAIN told' = 1..(Len(told) + 1)
          /\ told'[Len(told) + 1] = x
      BY <1>0, <3>2, <3>3, ReportOne
    <3>5. Len(told) + 1 \in AccessAt' /\ \A j \in AccessAt' : j <= Len(told) + 1
      BY <1>0, <3>3, <3>4 DEF AccessAt
    <3>6. told'[Len(told) + 1] \in {"stopped", "degraded", "skipped"}
      BY <3>4
    <3> QED
      BY <2>1, <2>2, <3>1, <3>4, <3>5, <3>6 DEF ToldInv, Early, Contacting, Opening, Posting
  <2> QED
    BY <2>3, <2>4
<1> QED
  BY <1>3, <1>4, <1>5, <1>6, <1>7, <1>8, <1>10, <1>11, OutsideDelivery DEF Launches

(* The environment that customer_environment builds is sound.              *)
LEMMA EnvironmentBuilt ==
  ASSUME ModeInv, ToldInv, AppliedInv,
         NEW inherited, NEW proxied \in BOOLEAN, BuildEnvironment(inherited, proxied)
  PROVE  EnvironmentSound'
<1> DEFINE runtime == DiscoveryEnvironment(proxied)
           changed == {n \in Repairable : runtime[n] = "none" /\ Unusable(n, inherited[n])}
           s == (IF changed = {} THEN <<>> ELSE <<"normalized">>) \o <<"process">>
<1>1. /\ pc = "environ" /\ pc' = "supervise" /\ repaired' = changed /\ Report(s)
      /\ UNCHANGED <<response, values, direct, ready, v1>>
  <2>1. /\ GoOn("environ", "supervise") /\ repaired' = changed /\ Report(s)
        /\ UNCHANGED <<v1, direct, ready, session>>
    BY Zenon DEF BuildEnvironment
  <2> QED
    BY <2>1 DEF GoOn, GoTo, deliveryVars
<1>2. customer' = [n \in Names |->
          CASE runtime[n] # "none" -> runtime[n]
            [] runtime[n] = "none" /\ n \in Protected \cup HelperOwned -> "none"
            [] n \in changed -> IF n = "LD_PRELOAD" THEN "none" ELSE "default"
            [] OTHER -> IF inherited[n] = "absent" THEN "none" ELSE "inherited"]
  BY DEF BuildEnvironment
<1>3. /\ \A n \in Names \ HelperOwned : runtime[n] = values[n]
      /\ \A n \in HelperOwned : runtime[n] \in {"helper", "none"}
      /\ ~v1.open => runtime["LISKOV_DISCOVERY_FILE"] = "none"
  BY DEF DiscoveryEnvironment, Names, HelperOwned
<1>4. values \in [Names -> Sources] /\ \A n \in Protected : values[n] \in {"none", "secret"}
  BY DEF AppliedInv
<1>5. Protected \subseteq Names \ HelperOwned /\ HelperOwned \subseteq Names
  BY DEF Protected, Names, HelperOwned
<1>6. changed \subseteq Repairable /\ Repairable \subseteq Names \ (HelperOwned \cup Protected)
  BY DEF Repairable, Names, HelperOwned, Protected
<1>7. \A n \in Repairable : n \in changed <=> values[n] = "none" /\ Unusable(n, inherited[n])
  BY <1>3, <1>6
<1>0. \A n \in changed : runtime[n] = "none"
  OBVIOUS
<1> HIDE DEF runtime, changed
<1>8. \A n \in Names : runtime[n] # "none" => customer'[n] = runtime[n]
  BY <1>0, <1>2
<1>9. \A n \in Names : runtime[n] = "none" /\ n \in Protected \cup HelperOwned => customer'[n] = "none"
  BY <1>2, <1>6
<1>10. \A n \in Names : runtime[n] = "none" /\ n \in changed /\ n # "LD_PRELOAD" => customer'[n] = "default"
  BY <1>2, <1>6
<1>11. \A n \in Names : runtime[n] = "none" /\ n \notin changed =>
          customer'[n] = "none" \/ (customer'[n] = "inherited" /\ inherited[n] # "absent")
  BY <1>2
<1>12. \A n \in Names : /\ runtime[n] = "none" /\ n \notin changed /\ n \notin Protected \cup HelperOwned
                        /\ inherited[n] # "absent"
                        => customer'[n] = "inherited"
  BY <1>2
<1>13. \A n \in Names \ HelperOwned : values'[n] # "none" => customer'[n] = values'[n]
  BY <1>1, <1>3, <1>8
<1>14. \A n \in HelperOwned : customer'[n] \in {"helper", "none"}
  BY <1>3, <1>5, <1>8, <1>9
<1>15. \A n \in Protected : customer'[n] \in {"none", "secret"}
  BY <1>3, <1>4, <1>5, <1>8, <1>9
<1>16. direct' = "active" => response'.access # "published" /\ customer'["LISKOV_DISCOVERY_FILE"] = "none"
  <2>1. direct = "active" => response.access # "published" /\ ~v1.open
    BY <1>1 DEF ModeInv, Opened
  <2>2. "LISKOV_DISCOVERY_FILE" \in HelperOwned
    BY DEF HelperOwned
  <2> QED
    BY <1>1, <1>3, <1>5, <1>9, <2>1, <2>2
<1>17. ready' = "bound" => values'["LISKOV_APPLICATION_READINESS"] # "none" /\ direct' # "failed"
  BY <1>1 DEF ModeInv, Opened
<1>18. customer'["PATH"] # "none" /\ customer'["HOME"] # "none"
  <2>1. ASSUME NEW n \in {"PATH", "HOME"}
        PROVE  customer'[n] # "none"
    <3>1. /\ n \in Repairable /\ n \in Names /\ n \notin Protected \cup HelperOwned /\ n # "LD_PRELOAD"
          /\ inherited[n] = "absent" => Unusable(n, inherited[n])
      BY DEF Repairable, Names, HelperOwned, Protected, Unusable
    <3>2. runtime[n] = values[n]
      BY <1>3, <3>1
    <3>3. CASE runtime[n] # "none"
      BY <1>8, <3>1, <3>3
    <3>4. CASE runtime[n] = "none" /\ n \in changed
      BY <1>10, <3>1, <3>4
    <3>5. CASE runtime[n] = "none" /\ n \notin changed
      <4>1. inherited[n] # "absent"
        BY <1>7, <3>1, <3>2, <3>5
      <4> QED
        BY <1>12, <3>1, <3>5, <4>1
    <3> QED
      BY <3>3, <3>4, <3>5
  <2> QED
    BY <2>1
<1>19. {n \in Names : customer'[n] = "default"} \subseteq repaired'
  <2>1. \A n \in Names : runtime[n] # "default"
    BY <1>3, <1>4 DEF Sources
  <2> QED
    BY <1>1, <1>8, <1>11, <2>1
<1>20. ("normalized" \in ToSet(told')) = (repaired' # {})
  <2>1. told \in Seq(Stages) /\ \A i \in DOMAIN told : told[i] # "normalized"
    BY <1>1 DEF ToldInv
  <2>2. s \in Seq(Stages)
    BY Normalized DEF Stages
  <2>3. /\ changed = {} => \A i \in 1..Len(s) : s[i] # "normalized"
        /\ changed # {} => Len(s) = 2 /\ s[1] = "normalized"
    BY Normalized
  <2> HIDE DEF s
  <2>4. /\ told' \in Seq(Stages) /\ Len(told) \in Nat /\ Len(s) \in Nat
        /\ DOMAIN told = 1..Len(told) /\ DOMAIN told' = 1..(Len(told) + Len(s))
        /\ \A i \in 1..Len(told) : told'[i] = told[i]
        /\ \A i \in 1..(Len(told) + Len(s)) : i > Len(told) => told'[i] = s[i - Len(told)]
    BY <1>1, <2>1, <2>2, ReportExtends, Zenon
  <2>5. CASE changed = {}
    <3>1. \A i \in DOMAIN told' : told'[i] # "normalized"
      <4>1. ASSUME NEW i \in DOMAIN told' PROVE told'[i] # "normalized"
        <5>1. CASE i <= Len(told)
          BY <2>1, <2>4, <5>1
        <5>2. CASE i > Len(told)
          BY <2>3, <2>4, <2>5, <5>2
        <5> QED
          BY <2>4, <5>1, <5>2
      <4> QED
        BY <4>1
    <3> QED
      BY <1>1, <2>5, <3>1 DEF ToSet
  <2>6. CASE changed # {}
    <3>1. Len(told) + 1 \in DOMAIN told' /\ told'[Len(told) + 1] = "normalized"
      BY <2>3, <2>4, <2>6
    <3> QED
      BY <1>1, <2>6, <3>1 DEF ToSet
  <2> QED
    BY <2>5, <2>6
<1> QED
  BY <1>13, <1>14, <1>15, <1>16, <1>17, <1>18, <1>19, <1>20 DEF EnvironmentSound

(* And it stays so until the customer has ended.                           *)
LEMMA EnvironmentNext ==
  ASSUME EnvironmentSound, ModeInv, ToldInv, AppliedInv, LaunchNext
  PROVE  EnvironmentSound'
<1>1. CASE pc' # "supervise"
  BY <1>1 DEF EnvironmentSound
<1>2. CASE (DirectoryRefresh \/ Ended) /\ UNCHANGED <<vars, deliveryVars>>
  <2>1. UNCHANGED <<pc, response, values, direct, ready, customer, repaired, told>>
    BY <1>2 DEF DirectoryRefresh, Ended, bootVars, launchVars, vars, deliveryVars
  <2> QED
    BY <2>1 DEF EnvironmentSound
<1>3. CASE Launches
  <2>1. CASE \/ \E opened, made \in BOOLEAN : OpenFiles(opened, made)
             \/ Attach
             \/ \E outcome \in Conclusions : AccessConcludes(outcome)
             \/ \E stopped \in BOOLEAN : Teardown(stopped)
    BY <1>1, <2>1 DEF OpenFiles, Attach, AccessConcludes, Teardown, GoOn, GoTo
  <2> QED
    BY <1>3, <2>1, EnvironmentBuilt DEF Launches
<1> QED
  BY <1>1, <1>2, <1>3, OutsideDelivery, DeliverStages DEF Contacting, Opening, Posting
-----------------------------------------------------------------------------
(* The whole boot. *)

(* The inductive invariant: contact, the deliveries, the directory, the    *)
(* modes, the reports and the environment.                                 *)
BootInv ==
  /\ ContactInv /\ AskedInv /\ AppliedInv
  /\ FileInv /\ ModeInv /\ ToldInv /\ EnvironmentSound

(* A boot starts in order.                                                 *)
LEMMA BootStart == LaunchInit => BootInv
<1> SUFFICES ASSUME LaunchInit PROVE BootInv
  OBVIOUS
<1>1. ContactInv
  BY ContactStart DEF LaunchInit
<1>2. pc = "start" /\ delivery = Idle /\ delivered = {} /\ values = [n \in Names |-> "none"]
  BY DEF LaunchInit, Init, DeliveryInit
<1>3. AskedInv
  BY <1>2, IdleTyped DEF AskedInv
<1>4. AppliedInv
  BY <1>2 DEF AppliedInv, DeliveryExact, Sources, Names, Protected, LogName
<1>5. FileInv
  BY DEF LaunchInit, FileInv, ClosedFile, NoSnapshot
<1>6. ModeInv
  BY <1>2 DEF LaunchInit, ModeInv, ClosedFile, Opened
<1>7. ToldInv
  <2>1. told = <<>> /\ session = FALSE
    BY DEF LaunchInit
  <2>2. told \in Seq(Stages) /\ Len(told) = 0 /\ DOMAIN told = 1..0
    BY <2>1
  <2>3. AccessAt = {}
    BY <2>2 DEF AccessAt
  <2> QED
    BY <1>2, <2>1, <2>2, <2>3 DEF ToldInv
<1>8. EnvironmentSound
  BY <1>2 DEF EnvironmentSound
<1> QED
  BY <1>1, <1>3, <1>4, <1>5, <1>6, <1>7, <1>8 DEF BootInv

(* Every step of a boot keeps it so.                                       *)
LEMMA BootNext == BootInv /\ [LaunchNext]_bootVars => BootInv'
<1> SUFFICES ASSUME BootInv, [LaunchNext]_bootVars PROVE BootInv'
  OBVIOUS
<1>1. CASE LaunchNext
  <2>1. ContactInv'
    BY <1>1, ClockNext, RequestNext, EvidenceNext DEF BootInv, ContactInv, RequestInv
  <2>2. AskedInv' /\ AppliedInv'
    BY <1>1, AskedNext, AppliedNext DEF BootInv
  <2>3. FileInv' /\ ModeInv' /\ ToldInv' /\ EnvironmentSound'
    BY <1>1, FileNext, ModeNext, ToldNext, EnvironmentNext DEF BootInv
  <2> QED
    BY <2>1, <2>2, <2>3 DEF BootInv
<1>2. CASE UNCHANGED bootVars
  <2>2. ContactInv'
    BY <1>2 DEF BootInv, ContactInv, ClockInv, RequestInv, EvidenceInv, bootVars, vars, evidence, clock, request
  <2>3. AskedInv' /\ AppliedInv'
    BY <1>2 DEF BootInv, AskedInv, AppliedInv, DeliveryExact, bootVars, vars, deliveryVars
  <2>4. FileInv' /\ ModeInv'
    BY <1>2 DEF BootInv, FileInv, ModeInv, ValidateSnapshot, ValidPeer, bootVars, vars, deliveryVars, launchVars
  <2>5. ToldInv' /\ EnvironmentSound'
    BY <1>2 DEF BootInv, ToldInv, EnvironmentSound, AccessAt, Served, bootVars, vars, deliveryVars, launchVars
  <2> QED
    BY <2>2, <2>3, <2>4, <2>5 DEF BootInv
<1> QED
  BY <1>1, <1>2

(* What contact keeps is what ContactSafe and ContactGate ask for.         *)
LEMMA ContactKept ==
  ASSUME ContactInv
  PROVE  ContactGate /\ ContactSafe
<1>1. ContactGate
  BY DEF ContactInv, RequestInv, ContactGate, Accepted, Launching
<1>2. OneLiveRequest
  BY DEF ContactInv, RequestInv, ClockInv, OneLiveRequest, Posting
<1>3. sent \in {<<>>, <<"started">>, <<"started", "failed">>}
  BY DEF ContactInv, RequestInv, EvidenceInv, Pcs
<1>4. FailureEvidence
  BY <1>3 DEF ContactInv, EvidenceInv, FailureEvidence
<1>5. sent \in Seq({"started", "failed"})
  <2> DEFINE S == {"started", "failed"}
  <2>1. "started" \in S /\ "failed" \in S
    OBVIOUS
  <2>2. <<>> \in Seq(S)
    OBVIOUS
  <2>3. \A x, y \in S : <<x>> \in Seq(S) /\ <<x, y>> \in Seq(S)
    OBVIOUS
  <2> HIDE DEF S
  <2>4. sent \in Seq(S)
    BY <1>3, <2>1, <2>2, <2>3
  <2> QED
    BY <2>4 DEF S
<1>6. TypeOK
  <2>1. elapsed \in 0..MaxClock /\ signedAt \in 0..MaxClock /\ attempt \in 0..MaxAttempts
    BY Policy DEF ContactInv, ClockInv
  <2>2. posted \subseteq 0..1
    BY DEF ContactInv, RequestInv
  <2> QED
    BY <1>5, <2>1, <2>2 DEF TypeOK, ContactInv, ClockInv, RequestInv, EvidenceInv
<1> QED
  BY <1>1, <1>2, <1>4, <1>6 DEF ContactSafe

(* And the reports are those that AccessTold asks for.                     *)
LEMMA ToldKept ==
  ASSUME ToldInv
  PROVE  AccessTold
<1>1. ~Served => AccessAt = {}
  BY DEF ToldInv
<1>2. pc = "supervise" /\ Served =>
        \E i, j \in AccessAt : /\ i < j /\ AccessAt = {i, j}
                               /\ told[i] = "setup_started" /\ told[j] \in Conclusions
  BY DEF ToldInv
<1>3. pc = "supervise" =>
        (session <=> \E i \in AccessAt : told[i] \in {"ready"} /\ \A j \in AccessAt : j <= i)
  <2>1. CASE pc = "supervise" /\ Served
    <3>1. AccessAt = {2, 3} /\ told[2] = "setup_started" /\ (session <=> told[3] = "ready")
      BY <2>1 DEF ToldInv
    <3> QED
      BY <3>1
  <2>2. CASE pc = "supervise" /\ ~Served
    <3>1. AccessAt = {} /\ ~session
      BY <2>2 DEF ToldInv
    <3> QED
      BY <3>1
  <2> QED
    BY <2>1, <2>2
<1>4. pc = "exited" /\ AccessAt # {} =>
        \E i \in AccessAt : /\ told[i] \in {"stopped", "degraded", "skipped"}
                            /\ \A j \in AccessAt : j <= i
  BY DEF ToldInv
<1>5. AccessAt = {i \in DOMAIN told : told[i] \in Conclusions \cup {"setup_started", "stopped"}}
  BY DEF AccessAt, AccessStages
<1> QED
  BY <1>1, <1>2, <1>3, <1>4, <1>5 DEF AccessTold

(* The inductive invariant holds throughout.                               *)
LEMMA BootAlways == LaunchSpec => []BootInv
BY BootStart, BootNext, PTL DEF LaunchSpec

(* The customer is started only behind the gate: after a response bound to *)
(* the request this process signed, with everything that response made     *)
(* mandatory, with deliveries that are whole and this job's, and in an     *)
(* environment where every name has the value of its rightful owner        *)
(* (liskov-runtime-contact.rs, job_secrets.rs, log_config_secret.rs,       *)
(* customer_environment.rs).                                               *)
THEOREM StartIsGated == LaunchSpec => []StartGate
<1>1. BootInv => StartGate
  BY ContactKept DEF BootInv, StartGate, AppliedInv
<1> QED
  BY <1>1, BootAlways, PTL

(* A boot keeps within its retry policy, posts one signed request, reports *)
(* its own failure once, answers every served access attachment, and moves *)
(* the v1 directory only forward (contact.rs, supervisor.rs,               *)
(* discovery.rs).                                                          *)
THEOREM BootIsSafe == LaunchSpec => []BootSafe
<1>1. BootInv => BootSafe
  <2> SUFFICES ASSUME BootInv PROVE BootSafe
    OBVIOUS
  <2>1. ContactSafe /\ AccessTold /\ DiscoveryCurrent
    BY ContactKept, ToldKept, FileCurrent DEF BootInv
  <2>2. DeliveryTypeOK
    BY DEF BootInv, AskedInv, AppliedInv, DeliveryTypeOK, DeliverySteps
  <2> QED
    BY <2>1, <2>2 DEF BootSafe
<1> QED
  BY <1>1, BootAlways, PTL
=============================================================================
