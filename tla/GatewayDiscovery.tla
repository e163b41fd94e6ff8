-------------------------- MODULE GatewayDiscovery --------------------------
(***************************************************************************)
(* The selection of the local gateway from the route table                 *)
(* (src/src/network_traversal/gateway.rs) and the search for its UPnP      *)
(* control point (igd.rs).                                                 *)
(*                                                                         *)
(* A route is [default, gateway, metric, ifindex], where the gateway       *)
(* "bad" stands for an address that acceptable_gateway refuses.  How the   *)
(* texts are read is in GatewayDocuments; here a source is the routes or   *)
(* the error it gives, and a document the services read of it, each with   *)
(* what resolve_control says of its URL.                                   *)
(***************************************************************************)
EXTENDS TraversalSession

CONSTANTS
  RouteTables,    \* the tables /proc/net/route or netlink can return
  Documents,      \* sequences of [service, url]: the services of a device
  MaxReplies,     \* IGD_SSDP_MAX_REPLIES
  MaxFetches      \* IGD_MAX_DOCUMENT_FETCHES

RouteRecords == [default : BOOLEAN, gateway : STRING, metric : Nat, ifindex : Nat]
Services == [service : {"wan_ip", "wan_ppp"},
             url : {"ok", "wrong_target", "malformed_port", "malformed", "bounded"}]

ASSUME DiscoveryAssumption ==
  /\ MaxReplies \in Nat /\ MaxFetches \in Nat
  /\ RouteTables \subseteq Seq(RouteRecords)
  /\ Documents \subseteq Seq(Services)

VARIABLES
  dstep,      \* "routes", "select", "search", "replies", "done"
  table,      \* the routes read
  at,         \* the next route of the table
  best,       \* the index of the best route so far, or 0
  gateway,    \* SelectedGateway, or "none"
  flags,      \* what the loops saw: saw_invalid, ambiguous, saw_wrong_target...
  left,       \* SSDP replies not yet looked at
  fetches,
  document,   \* the services of the document the control point came from
  found       \* GatewayDiscovery or IgdDiscovery

discovery == <<dstep, table, at, best, gateway, flags, left, fetches, document, found>>

GatewayResults == {"none", "invalid_gateway", "unsupported", "bounded", "cancelled"}
IgdResults == {"wan_ip", "wan_ppp", "not_advertised", "wrong_target", "malformed_port",
               "malformed", "entity", "bounded", "redirect", "deadline", "cancelled",
               "unsupported"}

DiscoveryInit ==
  /\ dstep = "routes"
  /\ table = <<>>
  /\ at = 1
  /\ best = 0
  /\ gateway = "none"
  /\ flags = {}
  /\ left = 0
  /\ fetches = 0
  /\ document = <<>>
  /\ found = "none"

\* A loop or a call ends the discovery with a result.
Found(result) == dstep' = "done" /\ found' = result
-----------------------------------------------------------------------------
(* discover_with_sources and discover_loaded.  A source that can not be    *)
(* read is unsupported.                                                    *)
ReadRoutes ==
  /\ dstep = "routes"
  /\ \/ stop /\ Found("cancelled") /\ UNCHANGED table
     \/ /\ ~stop
        /\ \/ table' \in RouteTables /\ dstep' = "select" /\ UNCHANGED found
           \/ (\E r \in {"bounded", "unsupported"} : Found(r)) /\ UNCHANGED table
  /\ UNCHANGED <<at, best, gateway, flags, left, fetches, document>>

\* interface_before compares index, then name; the name is left out.
InterfaceBefore(r, s) == r.ifindex < s.ifindex

\* Mutant: a lower metric does not clear the ambiguity of a higher one.
NextRouteSticky(r, b) ==
  CASE b = 0 \/ r.metric < table[b].metric -> <<at, flags>>
    [] r.metric = table[b].metric /\ r.gateway # table[b].gateway ->
         <<b, flags \cup {"ambiguous"}>>
    [] r.metric = table[b].metric /\ InterfaceBefore(r, table[b]) -> <<at, flags>>
    [] OTHER -> <<b, flags>>

\* One acceptable default route against the best so far.
NextRoute(r, b) ==
  IF b = 0 THEN <<at, flags>>
  ELSE CASE r.metric < table[b].metric -> <<at, flags \ {"ambiguous"}>>
         [] r.metric = table[b].metric /\ r.gateway # table[b].gateway ->
              <<b, flags \cup {"ambiguous"}>>
         [] r.metric = table[b].metric /\ r.gateway = table[b].gateway
              /\ InterfaceBefore(r, table[b]) -> <<at, flags>>
         [] OTHER -> <<b, flags>>

\* The loop of select_gateway.
SelectRoute ==
  /\ dstep = "select" /\ at <= Len(table)
  /\ at' = at + 1
  /\ LET r == table[at]
         kept == CASE ~r.default -> <<best, flags>>
                   [] r.default /\ r.gateway = "bad" -> <<best, flags \cup {"invalid"}>>
                   [] OTHER -> NextRoute(r, best)
     IN best' = kept[1] /\ flags' = kept[2]
  /\ UNCHANGED <<dstep, table, gateway, left, fetches, document, found>>

\* The end of select_gateway.
SelectGateway ==
  /\ dstep = "select" /\ at > Len(table)
  /\ IF "ambiguous" \notin flags /\ best # 0
     THEN dstep' = "search" /\ gateway' = table[best].gateway /\ UNCHANGED found
     ELSE /\ Found(IF best = 0 /\ "invalid" \in flags THEN "invalid_gateway" ELSE "unsupported")
          /\ UNCHANGED gateway
  /\ table' = <<>> /\ at' = 1 /\ best' = 0 /\ flags' = {}
  /\ UNCHANGED <<left, fetches, document>>
-----------------------------------------------------------------------------
(* discover_igd.                                                           *)

\* exchange_ssdp and bounded_http_get: how an exchange itself ends badly.
SsdpFaults == {"unsupported", "cancelled", "deadline", "bounded"}
GetFaults == {"unsupported", "cancelled", "deadline", "bounded", "malformed"}

\* search(): multicast M-SEARCH, the replies of the gateway alone.
Search ==
  /\ dstep = "search"
  /\ \/ stop /\ Found("cancelled") /\ UNCHANGED left
     \/ now >= ActiveEnd /\ ~stop /\ Found("deadline") /\ UNCHANGED left
     \/ Ordinary /\ (\E r \in SsdpFaults : Found(r)) /\ UNCHANGED left
     \/ Ordinary /\ left' \in 0..MaxReplies /\ dstep' = "replies" /\ UNCHANGED found
  /\ UNCHANGED <<table, at, best, gateway, flags, fetches, document>>

\* The loop of select_control: the first usable WANIPConnection ends it, and
\* so does a URL that is malformed or too long.
NothingSeen == [ip |-> FALSE, ppp |-> FALSE, saw |-> {}, end |-> "none"]
Look(p, s) ==
  IF p.ip \/ p.end # "none" THEN p
  ELSE CASE s.url \in {"malformed", "bounded"} -> [p EXCEPT !.end = s.url]
         [] s.url \in {"wrong_target", "malformed_port"} -> [p EXCEPT !.saw = @ \cup {s.url}]
         [] s.url = "ok" /\ s.service = "wan_ip" -> [p EXCEPT !.ip = TRUE]
         [] s.url = "ok" /\ s.service = "wan_ppp" -> [p EXCEPT !.ppp = TRUE]
Looked(services) ==
  LET f[i \in 0..Len(services)] == IF i = 0 THEN NothingSeen ELSE Look(f[i - 1], services[i])
  IN f

\* The end of select_control: an IP connection before a PPP connection.
SelectControl(services) ==
  LET r == Looked(services)[Len(services)]
  IN CASE r.end # "none" -> r.end
       [] r.end = "none" /\ r.ip -> "wan_ip"
       [] r.end = "none" /\ ~r.ip /\ r.ppp -> "wan_ppp"
       [] OTHER -> IF "wrong_target" \in r.saw THEN "wrong_target"
                   ELSE IF "malformed_port" \in r.saw THEN "malformed_port" ELSE "none"

Skip(flag) == flags' = flags \cup flag /\ UNCHANGED <<dstep, found>>
EndWith(result) == Found(result) /\ UNCHANGED flags

\* One reply: its location, the document behind it and the services in that.
Reply ==
  /\ dstep = "replies" /\ left > 0
  /\ left' = left - 1
  /\ \/ stop /\ EndWith("cancelled") /\ UNCHANGED <<fetches, document>>
     \/ ~stop /\ now >= ActiveEnd /\ EndWith("deadline") /\ UNCHANGED <<fetches, document>>
     \/ /\ Ordinary
        /\ \/ \E r \in {"bounded", "malformed_port"} : EndWith(r)
           \/ \E r \in {"wrong_target", "malformed"} : Skip({r})
        /\ UNCHANGED <<fetches, document>>
     \/ /\ Ordinary /\ fetches = MaxFetches
        /\ EndWith("bounded") /\ UNCHANGED <<fetches, document>>
     \/ /\ Ordinary /\ fetches < MaxFetches
        /\ fetches' = fetches + 1
        /\ \/ \E r \in GetFaults \cup {"redirect", "entity"} :
                /\ IF r = "malformed" THEN Skip({r}) ELSE EndWith(r)
                /\ UNCHANGED document
           \/ \E d \in Documents :
                /\ document' = d
                /\ LET c == SelectControl(d) IN
                   CASE c \in {"wan_ip", "wan_ppp", "malformed", "bounded"} -> EndWith(c)
                     [] c = "none" -> Skip({})
                     [] OTHER -> Skip({c})
  /\ UNCHANGED <<table, at, best, gateway>>

RepliesDone ==
  /\ dstep = "replies" /\ left = 0
  /\ Found(CASE "wrong_target" \in flags -> "wrong_target"
             [] "malformed_port" \in flags -> "malformed_port"
             [] "malformed" \in flags -> "malformed"
             [] OTHER -> "not_advertised")
  /\ UNCHANGED <<table, at, best, gateway, flags, left, fetches, document>>

DiscoveryStep ==
  ReadRoutes \/ SelectRoute \/ SelectGateway \/ Search \/ Reply \/ RepliesDone
-----------------------------------------------------------------------------
(* The gateway that mappings are asked of is the one the host routes        *)
(* through: it is selected exactly when the usable default routes of lowest *)
(* metric agree on one gateway, whatever the order of the table.  A control *)
(* point comes from the gateway itself, and is a PPP service only when no   *)
(* usable IP service precedes it; at most MaxFetches documents are fetched. *)
DiscoveryExact ==
  LET usable == {i \in DOMAIN table : table[i].default /\ table[i].gateway # "bad"}
      lowest == {i \in usable : \A j \in usable : table[i].metric <= table[j].metric}
      gateways == {table[i].gateway : i \in lowest}
      ok(s) == {i \in DOMAIN document : document[i].service = s /\ document[i].url = "ok"}
  IN /\ dstep = "select" /\ at > Len(table) =>
          /\ best = 0 <=> usable = {}
          /\ "ambiguous" \in flags <=> Cardinality(gateways) > 1
          /\ "ambiguous" \notin flags /\ best # 0 =>
               best \in lowest /\ \A i \in lowest : table[best].ifindex <= table[i].ifindex
     /\ found = "wan_ip" => ok("wan_ip") # {}
     /\ found = "wan_ppp" => ok("wan_ppp") # {} /\ ok("wan_ip") = {}
     /\ fetches <= MaxFetches
=============================================================================
