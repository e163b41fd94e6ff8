---- MODULE MCTraversal ----
EXTENDS Traversal

Budget(experiment, datagrams, bytes, control, dialbacks, leases) ==
  [experiment |-> experiment, cleanupReserve |-> 2, datagrams |-> datagrams,
   bytes |-> bytes, control |-> control, dialbacks |-> dialbacks, leases |-> leases,
   cleanupDatagrams |-> leases, cleanupControl |-> leases]

Grant(mode, ops, expires, b) ==
  [bound |-> TRUE, mode |-> mode, ops |-> ops, consent |-> mode = "mapping",
   issued |-> 0, deadline |-> 9, expires |-> expires, b |-> b]

MapOps == {"pcp", "natpmp", "upnp", "tcp", "udp"}
ObserveOps == {"observe_mapping", "observe_filtering"}

MCGrants == {
  Grant("mapping", MapOps, 12, Budget(8, 12, 60, 12, 4, 2)),
  Grant("mapping", MapOps, 12, Budget(8, 6, 60, 10, 2, 1)),
  Grant("observe", ObserveOps, 12, Budget(3, 20, 128, 0, 0, 0)),
  Grant("observe", ObserveOps, 12, Budget(3, 9, 128, 0, 0, 0)),
  Grant("observe", {"observe_mapping"}, 11, Budget(8, 20, 128, 0, 0, 0))}

P(m, t) == [method |-> m, transport |-> t]
MCPlanLists == {<<>>, <<P("pcp", "udp"), P("natpmp", "tcp")>>, <<P("upnp", "tcp")>>}

Routes == [default : {TRUE}, gateway : {"g1", "g2"}, metric : {1, 2}, ifindex : {1, 2}]
          \cup {[default |-> TRUE, gateway |-> "bad", metric |-> 1, ifindex |-> 1],
                [default |-> FALSE, gateway |-> "g1", metric |-> 0, ifindex |-> 1]}
MCRouteTables == UNION {[1..l -> Routes] : l \in 0..3}

S(s, u) == [service |-> s, url |-> u]
MCDocuments == {<<>>, <<S("wan_ppp", "ok"), S("wan_ip", "ok")>>,
  <<S("wan_ip", "wrong_target"), S("wan_ppp", "ok")>>, <<S("wan_ip", "malformed_port")>>,
  <<S("wan_ip", "malformed"), S("wan_ip", "ok")>>, <<S("wan_ppp", "ok"), S("wan_ip", "bounded")>>}

EI == "endpoint_independent"
AD == "address_dependent"
APD == "address_and_port_dependent"
MCNats == {[mapping |-> EI, filtering |-> APD], [mapping |-> AD, filtering |-> AD],
           [mapping |-> APD, filtering |-> EI]}

All == {"mapping", "filtering"}
MCTopologies == {[ap |-> All, aq |-> All, bp |-> All], [ap |-> All, aq |-> {"mapping"}, bp |-> All]}
====
