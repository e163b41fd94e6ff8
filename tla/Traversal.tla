------------------------------ MODULE Traversal ------------------------------
(***************************************************************************)
(* One traversal grant from its reservation to its report: an observing    *)
(* grant runs the UDP behaviour collector; a mapping grant finds the       *)
(* gateway and hands it to the mapping lifecycle.  The collectors share    *)
(* the clock, the stop request and the budget of the grant.                *)
(***************************************************************************)
EXTENDS MappingLifecycle, GatewayDiscovery, UdpBehaviour

traversalVars == <<session, mapping, discovery, behaviour>>

TraversalInit ==
  /\ MappingInit
  /\ DiscoveryInit
  /\ BehaviourInit
  /\ grant.mode # "mapping" => plans = CHOOSE p \in PlanLists : TRUE   \* not used
  /\ grant.mode # "observe" =>                                         \* not used
       /\ topology = CHOOSE t \in Topologies : TRUE
       /\ nat = CHOOSE x \in Nats : TRUE

\* A step of the discovery; the search and the documents take time.
Discover ==
  /\ phase = "mapping" /\ step = "discover"
  /\ DiscoveryStep
  /\ IF dstep \in {"search", "replies"} THEN now' \in {now, now + 1} ELSE UNCHANGED now
  /\ UNCHANGED <<grant, phase, stop, mapping, behaviour>>

\* Discovery returned: without a gateway the collector ends, else the caller
\* hands it to the lifecycle with the control point, if there is one.
HandOver ==
  /\ dstep = "done"
  /\ \/ /\ gateway = "none" \/ found = "cancelled"
        /\ phase = "mapping" /\ step = "discover"
        /\ phase' = "ended"
        /\ UNCHANGED <<grant, now, stop, mapping>>
     \/ /\ gateway # "none" /\ found # "cancelled"
        /\ \E reserved \in BOOLEAN, address \in {"none", "observed", "other"} :
             Discovered([reserved |-> reserved, igd |-> found \in {"wan_ip", "wan_ppp"},
                         address |-> address, datagrams |-> 1, control |-> fetches])
  /\ dstep' = "routes" /\ table' = <<>> /\ at' = 1 /\ best' = 0 /\ flags' = {}
  /\ gateway' = "none" /\ left' = 0 /\ fetches' = 0 /\ document' = <<>> /\ found' = "none"
  /\ UNCHANGED behaviour

TraversalNext ==
  \/ Reserve /\ UNCHANGED <<mapping, discovery, behaviour>>
  \/ StopArrives /\ UNCHANGED <<mapping, discovery, behaviour>>
  \/ Discover
  \/ HandOver
  \/ (MappingStep \/ GatewayStep) /\ UNCHANGED <<discovery, behaviour>>
  \/ (BehaviourStep \/ Rebind) /\ UNCHANGED <<mapping, discovery>>

TraversalSpec == TraversalInit /\ [][TraversalNext]_traversalVars

\* The collectors are straight-line code, and each call returns by the
\* deadline it was given.
FairTraversalSpec ==
  /\ TraversalSpec
  /\ WF_traversalVars(Reserve /\ UNCHANGED <<mapping, discovery, behaviour>>)
  /\ WF_traversalVars(Discover)
  /\ WF_traversalVars(HandOver)
  /\ WF_traversalVars(MappingStep /\ UNCHANGED <<discovery, behaviour>>)
  /\ WF_traversalVars(BehaviourStep /\ UNCHANGED <<mapping, discovery>>)
-----------------------------------------------------------------------------
(* Every grant is answered: whatever is lost, whatever stops it, each      *)
(* collector returns its report and the launch goes on.                    *)
CollectorEnds == <>(phase = "ended")
=============================================================================
