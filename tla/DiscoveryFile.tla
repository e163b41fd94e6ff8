---------------------------- MODULE DiscoveryFile ----------------------------
(***************************************************************************)
(* The v1 service directory of src/src/discovery.rs: a file in a private   *)
(* directory that the diagnostic worker replaces by rename whenever a      *)
(* response carries a newer snapshot for this job.                         *)
(*                                                                         *)
(* A snapshot is [ok, own, observed, fits, peers]; a peer [instance,       *)
(* services], a service [name, endpoints], an endpoint [name, state, url]. *)
(***************************************************************************)
EXTENDS Naturals, Sequences, FiniteSets

CONSTANTS
  Snapshots,            \* the discovery blocks responses may carry
  MaxPeers, MaxServices, MaxEndpoints

ASSUME SnapshotAssumption ==
  \A s \in Snapshots : /\ s.observed \in Nat
                       /\ Len(s.peers) \in Nat /\ DOMAIN s.peers = 1..Len(s.peers)

VARIABLE v1   \* DiscoveryFile, and newest, a history of what was accepted

NoSnapshot == [observed |-> 0]
ClosedFile == [open |-> FALSE, file |-> NoSnapshot, temp |-> FALSE, last |-> 0, failed |-> FALSE, newest |-> 0]

NamedOnce(s) == \A i, j \in DOMAIN s : s[i].name = s[j].name => i = j
EndpointTotal(services) ==
  LET upTo[n \in 0..Len(services)] == IF n = 0 THEN 0 ELSE upTo[n - 1] + Len(services[n].endpoints)
  IN upTo[Len(services)]

\* An endpoint's url: an absent one is for a state that needs none.
ValidEndpoint(e) ==
  /\ e.state \in {"pending", "published", "ready", "degraded"}
  /\ \/ e.url = "tailnet"
     \/ e.url = "absent" /\ e.state \notin {"ready", "published"}

ValidPeer(p) ==
  /\ Len(p.services) <= MaxServices /\ NamedOnce(p.services)
  /\ EndpointTotal(p.services) <= MaxEndpoints
  /\ \A i \in DOMAIN p.services :
       /\ NamedOnce(p.services[i].endpoints)
       /\ \A j \in DOMAIN p.services[i].endpoints : ValidEndpoint(p.services[i].endpoints[j])

ValidateSnapshot(s) ==
  /\ Len(s.peers) <= MaxPeers
  /\ \A i, j \in DOMAIN s.peers : s.peers[i].instance = s.peers[j].instance => i = j
  /\ \A i \in DOMAIN s.peers : ValidPeer(s.peers[i])

\* Mutant: a snapshot older than the one in place is accepted.
AcceptableAnyTime(s) == s.ok /\ ValidateSnapshot(s) /\ s.own /\ s.fits

\* accept, up to the file.
Acceptable(s) ==
  s.ok /\ ValidateSnapshot(s) /\ s.own /\ s.observed >= v1.last /\ s.fits

\* accept_response: next.json is created anew, written, synced and renamed
\* (any of which is "write"); after a failure it is removed if it is there,
\* which may fail too.
AcceptResponse(s, fault, removed) ==
  /\ v1.open
  /\ LET created == fault # "create" /\ ~v1.temp
     IN v1' = CASE ~Acceptable(s) -> [v1 EXCEPT !.failed = TRUE]
                [] Acceptable(s) /\ created /\ fault = "none" ->
                     [v1 EXCEPT !.file = s, !.last = s.observed, !.failed = FALSE,
                                !.newest = IF @ < s.observed THEN s.observed ELSE @]
                [] OTHER -> [v1 EXCEPT !.temp = (created \/ v1.temp) /\ ~removed, !.failed = TRUE]

\* unavailable: the post itself failed.
RefreshFails == v1.open /\ v1' = [v1 EXCEPT !.failed = TRUE]

Refresh ==
  \/ v1.open /\ \E s \in Snapshots, fault \in {"none", "create", "write"}, removed \in BOOLEAN :
       AcceptResponse(s, fault, removed)
  \/ RefreshFails
-----------------------------------------------------------------------------
(* The file a customer reads is whole, of this job, the newest snapshot    *)
(* ever accepted and the one request_attrs reports, whatever failed on the *)
(* way; no peer is in it twice, and every endpoint that is said to be up   *)
(* has an address (DiscoveryFile::accept, validate_snapshot).              *)
DiscoveryCurrent ==
  /\ v1.file.observed = v1.last /\ v1.last = v1.newest
  /\ v1.file # NoSnapshot =>
       /\ v1.file.own
       /\ Cardinality({v1.file.peers[i].instance : i \in DOMAIN v1.file.peers}) = Len(v1.file.peers)
       /\ \A i \in DOMAIN v1.file.peers : \A k \in DOMAIN v1.file.peers[i].services :
            \A j \in DOMAIN v1.file.peers[i].services[k].endpoints :
              LET e == v1.file.peers[i].services[k].endpoints[j]
              IN e.state \in {"ready", "published"} => e.url = "tailnet"
=============================================================================
