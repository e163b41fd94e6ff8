-------------------------- MODULE MCRuntimeContact --------------------------
(***************************************************************************)
(* The retry policy scaled down: three attempts and a ceiling of six       *)
(* ticks, so that either bound can be the one that ends a loop.            *)
(* Deliveries of up to two secrets, correct and with each field wrong in   *)
(* turn; v1 snapshots of three ages.                                       *)
(*                                                                         *)
(* A boot and the installer of its secret files share no state but the     *)
(* outcome of the delivery, which either model leaves open.  A behaviour   *)
(* follows one of the two: a boot, or, on a device whose boot found no     *)
(* socket, the installer over its boots.  Two destinations and two         *)
(* contents; three boots let an interrupted installation be followed by an *)
(* interrupted recovery and one more boot; two failing calls let a         *)
(* rollback fail too.                                                      *)
(***************************************************************************)
EXTENDS Launch, FileSecrets

CONSTANTS c1, c2

VARIABLE follows

MCFiles == 1..2
MCContents == {c1, c2}

MCSecretIds == {"a", "b", LogId}

MCSignedEnvs ==
  {{}, {"LISKOV_APPLICATION_READINESS", "LISKOV_PEER_PROXY", "TMPDIR"},
   {"LISKOV_BOOTSTRAP"}, {LogName, Lockbox, "PATH"}}

MCKeys ==
  {[p256 |-> a, secp256k1 |-> b] :
     a \in {"absent", "valid", "malformed"}, b \in {"absent", "valid"}}

MCLockboxes ==
  {Config(TRUE, <<"a", "b", LogId>>), Config(TRUE, <<"a">>), Config(TRUE, <<LogId>>),
   Config(TRUE, <<"a", "a">>), Config(FALSE, <<"a", LogId>>),
   [Config(TRUE, <<>>) EXCEPT !.json = FALSE]}

Secret(id, target, name) ==
  [id |-> id, version |-> "1", target |-> target, name |-> name, own |-> id = LogId,
   value |-> "text", job |-> "this"]
Payload(secrets, tier) ==
  [bound |-> TRUE, inner |-> TRUE, intact |-> TRUE, tier |-> tier,
   ids |-> [i \in DOMAIN secrets |-> secrets[i].id], versions |-> secrets, secrets |-> secrets]
Log == Secret(LogId, "env", LogName)
Groups ==
  {<<Log>>, <<Secret("a", "env", "APP")>>, <<Secret("a", "env", "LISKOV_BOOTSTRAP")>>,
   <<Secret("a", "env", LogName), Secret("b", "file", "f")>>,
   <<Secret("a", "env", "APP"), Secret("b", "env", "APP")>>}
Foreign(s) == [i \in DOMAIN s |-> [s[i] EXCEPT !.job = "other"]]
\* A correct payload, and one with each field wrong.
Variants(p) ==
  {p, [p EXCEPT !.intact = FALSE],
   [p EXCEPT !.bound = FALSE, !.secrets = Foreign(@)],
   [p EXCEPT !.inner = FALSE, !.secrets = Foreign(@)],
   [p EXCEPT !.versions = Tail(@)], [p EXCEPT !.secrets = Tail(@)],
   [p EXCEPT !.secrets = [i \in DOMAIN @ |-> @[1]]],
   [p EXCEPT !.secrets = [i \in DOMAIN @ |-> [@[i] EXCEPT !.version = "2"]]],
   [p EXCEPT !.secrets = [i \in DOMAIN @ |-> [@[i] EXCEPT !.value = "nul"]]]}
MCPayloads == UNION {Variants(Payload(g, t)) : g \in Groups, t \in {"p256", "secp256k1"}}

Valid == [n \in Names |-> "valid"]
MCProcessors ==
  {[n \in Names |-> "absent"], Valid,
   [Valid EXCEPT !["TMPDIR"] = "missing", !["LD_PRELOAD"] = "missing", !["PATH"] = "empty"]}

Peer(instance, url) ==
  [instance |-> instance, services |-> <<[name |-> "web", endpoints |-> <<[name |-> "e", state |-> "ready", url |-> url]>>]>>]
Snapshot(observed, peers) == [ok |-> TRUE, own |-> TRUE, fits |-> TRUE, observed |-> observed, peers |-> peers]
MCSnapshots ==
  {Snapshot(1, <<>>), Snapshot(2, <<Peer("p", "tailnet")>>),
   Snapshot(3, <<Peer("p", "absent")>>), Snapshot(3, <<Peer("p", "tailnet"), Peer("p", "tailnet")>>),
   [Snapshot(3, <<>>) EXCEPT !.own = FALSE]}
-----------------------------------------------------------------------------
mcVars == <<follows, bootVars, filesVars>>

MCInit ==
  /\ follows \in {"boot", "files"}
  /\ LaunchInit /\ (follows = "files" => ~probing /\ ~reporter)
  /\ FilesInit /\ (follows = "boot" => version = c1 /\ dest = [f \in Files |-> Absent])

MCNext ==
  /\ UNCHANGED follows
  /\ \/ LaunchNext /\ (follows = "files" => pc' \in {"socket", "exited"}) /\ UNCHANGED filesVars
     \/ follows = "files" /\ pc = "exited" /\ FilesNext /\ UNCHANGED bootVars

MCSpec == MCInit /\ [][MCNext]_mcVars /\ WF_bootVars(Boot)
=============================================================================
