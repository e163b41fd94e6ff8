------------------------------ MODULE Workers -------------------------------
(***************************************************************************)
(* The background jobs of the helper that share no state with one another  *)
(* or with the supervised customer: the two public-ingress drivers, the    *)
(* fact and coverage workers, the network sample and the device readings   *)
(* they take, the texts of the gateway, the state snapshot, the payload    *)
(* download and the host samplers.  A behaviour follows one of them; the   *)
(* others have nothing to do in it.                                        *)
(***************************************************************************)
EXTENDS CloudflaredConnector, AcurastTunnel, ProcessorFacts, NetworkSample,
        HardwareReadings, GatewayDocuments, StateSnapshot, PayloadDownload, HostSamplers

CONSTANTS Grants, Devices, Texts, Contexts   \* bounds: the inputs of the jobs

ASSUME JobsAssumption ==
  /\ Contexts # {} /\ Contexts \subseteq PayloadContexts
  /\ \A g \in Grants : /\ g["facts"].worker \in {"none", "facts"}
                       /\ g["facts"].worker = "facts" => g["facts"].kinds \in Seq(FactKinds)
                       /\ \A w \in FactWorkers : g[w].worker # "none" => g[w].expires \in Nat
  /\ \A t \in Texts : Classified(t)
  /\ \A d \in Devices : IsDevice(d)

VARIABLE follows    \* the job this behaviour follows

workerVars == <<follows, connectorVars, tunnelVars, factVars, sampleVars, readingVars,
                textVars, snapshotVars, payloadVars, samplerVars>>

Jobs == {"connector", "tunnel", "facts", "sample", "readings", "texts", "snapshot", "payload",
         "samplers"}

NoGrants == {[facts |-> Dormant, coverage |-> Dormant]}

WorkersInit ==
  /\ follows \in Jobs
  /\ IF follows = "connector" THEN ConnectorInit
     ELSE ConnectorInit /\ state.code = "ingress_connector_token_invalid" /\ child = "dead"
  /\ TunnelInit(IF follows = "tunnel" THEN "spec" ELSE "done")
  /\ IF follows = "facts" THEN FactsInit(Grants)
     ELSE FactsInit(NoGrants) /\ now = 0 /\ fits = [w \in FactWorkers |-> TRUE]
  /\ SampleInit(IF follows = "sample" THEN "prepare" ELSE "over")
  /\ ReadingsInit(IF follows = "readings" THEN Devices ELSE {[kind |-> "over"]})
  /\ TextInit(IF follows = "texts" THEN Texts ELSE {[kind |-> "over", items |-> <<>>]})
  /\ IF follows = "snapshot" THEN SnapshotInit
     ELSE SnapshotInit /\ target = "absent" /\ source = [f \in Files |-> [size |-> 1, body |-> "x"]]
  /\ IF follows = "payload" THEN PayloadInit(Contexts, "negotiate")
     ELSE PayloadInit({CHOOSE c \in Contexts : TRUE}, "over")
  /\ IF follows = "samplers" THEN SamplersInit(Hosts, 0)
     ELSE SamplersInit({CHOOSE h \in Hosts : TRUE}, MaxBeats) /\ ~worker

WorkersNext ==
  /\ UNCHANGED follows
  /\ \/ /\ follows = "connector"
        /\ ConnectorNext
        /\ UNCHANGED <<tunnelVars, factVars, sampleVars, readingVars, textVars, snapshotVars, payloadVars, samplerVars>>
     \/ /\ follows = "tunnel"
        /\ TunnelNext
        /\ UNCHANGED <<connectorVars, factVars, sampleVars, readingVars, textVars, snapshotVars, payloadVars, samplerVars>>
     \/ /\ follows = "facts"
        /\ FactsNext
        /\ UNCHANGED <<connectorVars, tunnelVars, sampleVars, readingVars, textVars, snapshotVars, payloadVars, samplerVars>>
     \/ /\ follows = "sample"
        /\ SampleNext
        /\ UNCHANGED <<connectorVars, tunnelVars, factVars, readingVars, textVars, snapshotVars, payloadVars, samplerVars>>
     \/ /\ follows = "readings"
        /\ ReadingsNext
        /\ UNCHANGED <<connectorVars, tunnelVars, factVars, sampleVars, textVars, snapshotVars, payloadVars, samplerVars>>
     \/ /\ follows = "texts"
        /\ TextNext
        /\ UNCHANGED <<connectorVars, tunnelVars, factVars, sampleVars, readingVars, snapshotVars, payloadVars, samplerVars>>
     \/ /\ follows = "snapshot"
        /\ SnapshotNext
        /\ UNCHANGED <<connectorVars, tunnelVars, factVars, sampleVars, readingVars, textVars, payloadVars, samplerVars>>
     \/ /\ follows = "payload"
        /\ PayloadNext
        /\ UNCHANGED <<connectorVars, tunnelVars, factVars, sampleVars, readingVars, textVars, snapshotVars, samplerVars>>
     \/ /\ follows = "samplers"
        /\ SamplersNext
        /\ UNCHANGED <<connectorVars, tunnelVars, factVars, sampleVars, readingVars, textVars, snapshotVars, payloadVars>>

WorkersSpec ==
  /\ WorkersInit /\ [][WorkersNext]_workerVars
  /\ ConnectorFairness /\ TunnelFairness /\ FactsFairness /\ SampleFairness
  /\ ReadingsFairness /\ TextFairness /\ SnapshotFairness /\ PayloadFairness
  /\ SamplersFairness

(* Both ingress drivers keep their budgets: LadderKept and OneStart. *)
BudgetsKept == LadderKept /\ OneStart

(* The fact workers spend a grant as it allows: OneBody, GrantHonoured. *)
GrantsSpentOnce == OneBody /\ GrantHonoured

(* What is read of the host and the device is exact: CollectorsExact of the *)
(* fact workers, SamplesExact of the samplers.                           *)
ReadingsExact == CollectorsExact /\ SamplesExact

(* None of the jobs waits for ever, whatever its peers, its clock and its  *)
(* files do: an orphaned connector is resolved in the end, and the poll of *)
(* a tunnel, a fact worker, a sample, a reading, a text, a restore, a      *)
(* download and a sample of the host end.                                  *)
JobsEnd ==
  []<>~(OrphanPending \/ AttemptPending \/ WorkerPending \/ SamplePending
        \/ ReadingPending \/ TextPending \/ RestorePending \/ DownloadPending
        \/ SamplerPending)
=============================================================================
