-------------------------- MODULE PayloadDownload ---------------------------
(***************************************************************************)
(* The authenticated payload client: PayloadContext::negotiate and         *)
(* download_payload of src/src/payload_download.rs over the request proofs *)
(* of payload_protocol.rs and the descriptor of payload_protocol/          *)
(* descriptor.rs.  One call downloads one artifact in a bounded number of  *)
(* attempts, each a fresh signed range from the prefix already written;    *)
(* the server or the network may cut, change, delay or refuse any answer,  *)
(* and the wall clock may be set back.                                     *)
(*                                                                         *)
(* A byte is "good" when it is the artifact's byte at its place.           *)
(***************************************************************************)
EXTENDS Naturals, Sequences, FiniteSets

CONSTANTS
  Size,         \* artifact_size_bytes
  MaxAttempts,  \* PayloadTransferPolicy.max_attempts
  MaxElapsed,   \* PayloadTransferPolicy.max_elapsed
  Validity,     \* MAX_PAYLOAD_DOWNLOAD_VALIDITY_MS
  MaxWall       \* bound: the last instant

\* CargoPayloadDescriptorV1::validate refuses an empty artifact.
ASSUME PayloadAssumption ==
  /\ Size \in Nat \ {0}
  /\ MaxAttempts \in Nat /\ MaxElapsed \in Nat /\ Validity \in Nat /\ MaxWall \in Nat

VARIABLES
  context,    \* [authorized until, descriptor, bound, origin], as negotiated
  fetch,      \* "negotiate", "identity", "attempt", "answer", "read", "over"
  wall,       \* the wall clock
  spent,      \* monotonic time since the first attempt
  tries,      \* attempts made
  sink,       \* the bytes written: "good" or "bad"
  request,    \* the request of this attempt: [start, issued, expires], and
              \* as history the prefix: the bytes written when it was made
  asked,      \* history: the requests sent
  verdict     \* how the call ended

payloadVars == <<context, fetch, wall, spent, tries, sink, request, asked, verdict>>

WallClock == 0..MaxWall
Paths == Seq(Nat)
PayloadContexts ==
  [until : Nat, bound : BOOLEAN, origin : BOOLEAN,
   descriptor : [entries : Seq([path : Paths, file : BOOLEAN, exec : BOOLEAN]),
                 entrypoints : Seq(Paths)]]
NoRequest == [start |-> 0, issued |-> 0, expires |-> 0, prefix |-> 0]

\* The strict order of the inventory.  The code compares the paths' bytes;
\* here paths are sequences of parts, compared part by part.
PathBefore(a, b) ==
  \/ \E i \in 1..Len(a) : /\ i <= Len(b) /\ a[i] < b[i]
                          /\ \A j \in 1..(i - 1) : a[j] = b[j]
  \/ Len(a) < Len(b) /\ SubSeq(b, 1, Len(a)) = a

ImplicitDirectories(path) == {SubSeq(path, 1, n) : n \in 1..(Len(path) - 1)}

\* CargoPayloadDescriptorV1::validate.
DescriptorValid(d) ==
  LET executables == {d.entries[i].path : i \in {j \in 1..Len(d.entries) : d.entries[j].exec}}
      files == {d.entries[i].path : i \in {j \in 1..Len(d.entries) : d.entries[j].file}}
  IN /\ d.entries # <<>>
     /\ \A i \in 1..(Len(d.entries) - 1) : PathBefore(d.entries[i].path, d.entries[i + 1].path)
     /\ \A i \in 1..Len(d.entries) : ImplicitDirectories(d.entries[i].path) \cap files = {}
     /\ d.entrypoints # <<>>
     /\ \A i \in 1..(Len(d.entrypoints) - 1) : PathBefore(d.entrypoints[i], d.entrypoints[i + 1])
     /\ \A i \in 1..Len(d.entrypoints) : d.entrypoints[i] \in executables

PayloadInit(Contexts, first) ==
  /\ context \in Contexts
  /\ fetch = first
  /\ wall = 0
  /\ spent = 0
  /\ tries = 0
  /\ sink = <<>>
  /\ request = NoRequest
  /\ asked = <<>>
  /\ verdict = "none"
-----------------------------------------------------------------------------
Ended(v) == fetch' = "over" /\ verdict' = v

\* Time passes for a call; the wall clock may also be set back.
Takes(most) ==
  \E d \in 0..most :
    /\ spent' = IF spent + d > MaxElapsed THEN MaxElapsed ELSE spent + d
    /\ wall' \in {t \in WallClock : t = wall + d \/ (wall > 0 /\ t = wall - 1)}

\* PayloadContext::negotiate: the service origin, the binding against first
\* contact (bridge_job_ref included), the expiry, and the descriptor as the
\* digest names it.
Negotiate ==
  /\ fetch = "negotiate"
  /\ IF context.origin /\ context.bound /\ wall < context.until /\ DescriptorValid(context.descriptor)
     THEN fetch' = "identity" /\ UNCHANGED verdict
     ELSE Ended("refused")
  /\ UNCHANGED <<context, wall, spent, tries, sink, request, asked>>

\* download_payload up to its loop: the identity the bridge reports now.
Identify ==
  /\ fetch = "identity"
  /\ \E same \in BOOLEAN :
       IF same THEN fetch' = "attempt" /\ UNCHANGED verdict ELSE Ended("binding")
  /\ UNCHANGED <<context, wall, spent, tries, sink, request, asked>>

\* PayloadDownloadRequestV1::validate_transport: exactly what was signed, no
\* allowance for a clock that moved.
TransportOK(r, t) ==
  IF t < r.issued THEN "not_yet_valid" ELSE IF t >= r.expires THEN "expired" ELSE "ok"

\* Mutant: a retry asks for the whole artifact again.
RequestWhole(start, t) ==
  [start |-> 0, issued |-> t, prefix |-> Len(sink),
   expires |-> IF t + Validity < context.until THEN t + Validity ELSE context.until]

\* PayloadContext::request: never beyond the authorization.
RequestAt(start, t) ==
  [start |-> start, issued |-> t, prefix |-> Len(sink),
   expires |-> IF t + Validity < context.until THEN t + Validity ELSE context.until]

\* One attempt: within both budgets, a fresh nonce, the range from the
\* prefix on, signed and checked once more before it is sent.
Ask ==
  /\ fetch = "attempt"
  /\ IF tries = MaxAttempts \/ spent >= MaxElapsed THEN Ended("incomplete") /\ UNCHANGED <<wall, spent, tries, request, asked>>
     ELSE IF wall >= context.until THEN Ended("expired") /\ UNCHANGED <<wall, spent, tries, request, asked>>
     ELSE /\ request' = RequestAt(Len(sink), wall)
          /\ tries' = tries + 1
          /\ Takes(1)
          /\ IF TransportOK(request', wall') = "ok"
             THEN /\ asked' = Append(asked, request')
                  /\ fetch' = "answer" /\ UNCHANGED verdict
             ELSE Ended(TransportOK(request', wall')) /\ UNCHANGED asked
  /\ UNCHANGED <<context, sink>>

\* What http.get brings.  validate_response: the status of the range asked
\* for, its length and place, both digests, no encoding.
Answer ==
  /\ fetch = "answer"
  /\ \E a \in {"transport", "rejected", "retry_later", "forbidden", "other_range", "matching"} :
       /\ CASE a \in {"transport", "retry_later"} -> fetch' = "attempt" /\ UNCHANGED verdict
            [] a \in {"rejected", "forbidden"} -> Ended("refused")
            [] a = "other_range" -> Ended("response")
            [] a = "matching" -> fetch' = "read" /\ UNCHANGED verdict
       /\ Takes(1)
  /\ UNCHANGED <<context, tries, sink, request, asked>>

\* The byte that comes next: the artifact's at its place, or not.  Those of a
\* range that starts elsewhere than the prefix ends are out of place.
NextBytes == IF request.start = request.prefix THEN {"good", "bad"} ELSE {"bad"}

\* One turn of the read loop: expiry of the authorization ends the call, of
\* the request only this attempt; then bytes, the end, or an error.
Read ==
  /\ fetch = "read"
  /\ Len(sink) < Size
  /\ IF wall >= context.until THEN Ended("expired") /\ UNCHANGED <<wall, spent, sink>>
     ELSE IF TransportOK(request, wall) = "not_yet_valid" THEN Ended("not_yet_valid") /\ UNCHANGED <<wall, spent, sink>>
     ELSE IF TransportOK(request, wall) = "expired"
     THEN fetch' = "attempt" /\ UNCHANGED <<wall, spent, sink, verdict>>
     ELSE IF spent >= MaxElapsed THEN Ended("incomplete") /\ UNCHANGED <<wall, spent, sink>>
     ELSE /\ Takes(1)
          /\ \/ fetch' = "attempt" /\ UNCHANGED <<sink, verdict>>
             \/ \E b \in NextBytes : sink' = Append(sink, b) /\ UNCHANGED <<fetch, verdict>>
             \/ Ended("write") /\ UNCHANGED sink
  /\ UNCHANGED <<context, tries, request, asked>>

\* Mutant: the digest covers only the bytes of the last attempt.
FinishLastPart ==
  /\ fetch = "read"
  /\ Len(sink) = Size
  /\ Ended(IF \A i \in (request.start + 1)..Size : sink[i] = "good" THEN "verified" ELSE "integrity")
  /\ UNCHANGED <<context, wall, spent, tries, sink, request, asked>>

\* The end of the entity: nothing may follow it, the authorization must still
\* hold, and the digest is that of every byte written by this call.
Finish ==
  /\ fetch = "read"
  /\ Len(sink) = Size
  /\ \E tail \in {"end", "more", "error", "unflushed"} :
       IF tail = "more" THEN Ended("response")
       ELSE IF tail = "error" THEN Ended("incomplete")
       ELSE IF wall >= context.until THEN Ended("expired")
       ELSE IF TransportOK(request, wall) = "not_yet_valid" THEN Ended("not_yet_valid")
       ELSE IF \E i \in 1..Size : sink[i] = "bad" THEN Ended("integrity")
       ELSE Ended(IF tail = "unflushed" THEN "write" ELSE "verified")
  /\ UNCHANGED <<context, wall, spent, tries, sink, request, asked>>

\* The clock, the randomness or the bridge is unavailable.
CallFails ==
  /\ fetch \in {"identity", "attempt", "read"}
  /\ Ended("runtime")
  /\ UNCHANGED <<context, wall, spent, tries, sink, request, asked>>

PayloadNext == Negotiate \/ Identify \/ Ask \/ Answer \/ Read \/ Finish \/ CallFails

\* Every call to the bridge, the network and the sink returns.
PayloadFairness == WF_payloadVars(PayloadNext)
-----------------------------------------------------------------------------
(* A payload is verified only when every byte the call wrote, over all its *)
(* attempts, is the artifact's, while the authorization holds, and under a *)
(* descriptor with no file that is also a directory and only executable    *)
(* entry points; every request asks for the bytes from where the prefix    *)
(* written so far ends, outlives neither its validity nor the              *)
(* authorization, and there are never more than the budget:                *)
(* download_payload.                                                       *)
PayloadSafe ==
  /\ verdict = "verified" =>
       /\ Len(sink) = Size
       /\ \A i \in 1..Size : sink[i] = "good"
       /\ wall < context.until
       /\ context.origin /\ context.bound
       /\ LET es == context.descriptor.entries IN
          /\ \A i, j \in 1..Len(es) : i # j => es[i].path # es[j].path
          /\ \A i, j \in 1..Len(es) : es[i].file => es[i].path \notin ImplicitDirectories(es[j].path)
          /\ \A n \in 1..Len(context.descriptor.entrypoints) :
               \E i \in 1..Len(es) : es[i].path = context.descriptor.entrypoints[n] /\ es[i].exec
  /\ Len(asked) <= tries /\ tries <= MaxAttempts
  /\ \A i \in 1..Len(asked) :
       /\ asked[i].expires <= context.until
       /\ asked[i].expires - asked[i].issued \in 1..Validity
       /\ asked[i].start = asked[i].prefix /\ asked[i].prefix < Size
       /\ i > 1 => asked[i - 1].start <= asked[i].start

\* A download within its attempts.
DownloadPending == fetch # "over"
=============================================================================
