----------------------------- MODULE MCWorkers ------------------------------
EXTENDS Workers

FactGrants ==
  [worker : {"facts"}, profile : {"cargo-baseline-v1", "coverage-hardware-v1"},
   kinds : {<<"egress", "android">>, <<"hardware">>, <<"hardware", "android">>},
   issued : {0, 2}, expires : {3}, well : {TRUE}, helper : BOOLEAN, origin : {"bootstrap"},
   bound : {TRUE}, native : {FALSE}, prober : {FALSE}, traversal : {"none"}]

CoverageGrants ==
  [worker : {"coverage"}, profile : {"none"}, kinds : {<<>>}, issued : {0}, expires : {4, 10},
   well : {TRUE}, helper : {TRUE}, origin : {"bootstrap", "other"}, bound : BOOLEAN,
   native : BOOLEAN, prober : BOOLEAN, traversal : {"none", "refused"}]

MCGrants ==
  [facts : FactGrants, coverage : {Dormant}] \cup [facts : {Dormant}, coverage : CoverageGrants]
    \cup [facts : {CHOOSE g \in FactGrants : Taken(g)}, coverage : {CHOOSE g \in CoverageGrants : Taken(g)}]

\* Property files: missing, denied, unsafe, too large or readable with any
\* answer, in any order, at the byte limits, behind an index or without one;
\* contexts with refused names, and one more than may be opened.
UnreadableFiles == [kind : {"not_found", "unavailable", "permission_denied", "unsafe"}, size : {0}, value : {"absent"}]
Readable == [kind : {"ok"}, size : {1, 2, 3}, value : {"value", "unusable", "absent", "malformed", "unsupported"}]
Missing == [kind |-> "not_found", size |-> 0, value |-> "absent"]
Heavy == [kind |-> "ok", size |-> 2, value |-> "absent"]
Light == [kind |-> "ok", size |-> 1, value |-> "value"]
Denied == [kind |-> "permission_denied", size |-> 0, value |-> "absent"]

PathNode(own, prefix, exact) == [own |-> own, prefix |-> prefix, exact |-> exact]
Paths2 == {<<PathNode(a, b, -1), PathNode(c, d, e)>> : a, c \in {0, 1}, b, d \in {0, 2}, e \in {-1, 0, 5, 6}}
FileDevices ==
  [kind : {"files"}, index : {Missing}, path : {<<>>}, valid : {{}}, others : {{}},
   files : {<<a, f, b, f>> : a, b \in Readable \cup UnreadableFiles, f \in {Missing, Heavy}}]
  \cup [kind : {"files"}, index : {Light}, path : Paths2,
        valid : {1..5, 2..5, 1..4}, others : {{}, {3, 4}, 1..4},
        files : {<<Light, f, Heavy, Heavy, g>> : f \in {Heavy, Light, Denied}, g \in {Light, Heavy}}]
  \cup [kind : {"files"}, index : {Denied, [Light EXCEPT !.value = "unsupported"], [Light EXCEPT !.size = 3]},
        path : {<<PathNode(1, 0, 0)>>}, files : {<<Light>>}, valid : {{1}}, others : {{}}]

\* Property areas linked in any way.
WalkDevices ==
  [kind : {"walk"}, name : [Nodes -> 1..3], left : [Nodes -> Nodes \cup {0}],
   right : [Nodes -> Nodes \cup {0}], root : {1}, segment : {1, 2}]

SurfaceDevices ==
  [kind : {"surface"}, proc : {"ok", "permission_denied"},
   lines : {<<>>, <<[key |-> "Seccomp", value |-> "2"], [key |-> "NoNewPrivs", value |-> "2"]>>},
   url : BOOLEAN, resolved : BOOLEAN, addresses : SUBSET {"v4", "v6"},
   request : [{"v4", "v6"} -> {"204", "204_long", "204_cut", "refused", "slow", "500", "panic"}]]

Tokens == {0, 2} \X {0, 2, 3}
CacheDirs ==
  [level : {1, 2, 9}, type : {1}, shared : {<<>>, <<<<0, 0>>>>, <<<<0, 1>>>>}, size : {32}]
    \cup [level : {1}, type : {1, 2, 9}, shared : {<<<<0, 0>>>>}, size : {64}]
    \cup [level : {1}, type : {1}, shared : {<<<<0, 0>>, <<2, 2>>>>}, size : {32}]

\* The texts of the lists of four cpus in their order: "", "0", "0,2", "0,2-3"...
ListTexts ==
  <<{}, {0}, {0, 2}, {0, 2, 3}, {0, 3}, {0, 1}, {0, 1, 3}, {0, 1, 2}, {0, 1, 2, 3},
    {1}, {1, 3}, {1, 2}, {1, 2, 3}, {2}, {2, 3}, {3}>>
MCListPlace == [S \in SUBSET Cpus |-> CHOOSE i \in DOMAIN ListTexts : ListTexts[i] = S]

HardwareOf(tokens, caches, free) ==
  [kind |-> "hardware", tokens |-> tokens, policy |-> 3, caches |-> caches,
   statvfs |-> [blocks |-> 3, free |-> free, size |-> 2, safe |-> 6],
   mounts |-> <<[device |-> 1, point |-> "root", fs |-> "ext4"],
                [device |-> 1, point |-> "data", fs |-> "f2fs"]>>,
   lines |-> <<[key |-> "MemTotal", value |-> "8"], [key |-> "MemTotal", value |-> "bad"]>>,
   zones |-> <<[type |-> "bad", temp |-> "4"], [type |-> "cpu", temp |-> "bad"]>>]

HardwareDevices ==
  {HardwareOf(t, <<>>, f) : t \in {<<>>} \cup [1..1 -> Tokens] \cup [1..2 -> Tokens], f \in {1, 4}}
    \cup {HardwareOf(<<<<0, 1>>>>, cs, 1) : cs \in UNION {[1..n -> CacheDirs] : n \in 1..3}}

MCDevices == FileDevices \cup WalkDevices \cup SurfaceDevices \cup HardwareDevices

\* The texts of a gateway, and the kernel's route tables.
Route(g, m) == [default |-> TRUE, gateway |-> g, metric |-> m, ifindex |-> 1]
Line(kind) == [kind |-> kind, route |-> Route("g1", 1)]
Message(kind, main) ==
  [kind |-> kind, inet |-> TRUE, unicast |-> TRUE, main |-> main, attributes |-> TRUE,
   route |-> Route("g2", 2)]
Dumps ==
  LET ms == {Message(k, TRUE) : k \in {"route", "done", "error", "short", "other"}}
              \cup {Message("route", FALSE)}
  IN {<<>>, <<Message("route", TRUE), Message("route", TRUE), Message("route", TRUE), Message("done", TRUE)>>}
       \cup [1..2 -> ms] \cup {<<Message("route", TRUE), a, b>> : a, b \in ms}
RouteTexts ==
  {[kind |-> "proc", file |-> f, items |-> ls, netlink |-> d] :
     f \in {"none", "unavailable", "bounded"}, d \in Dumps,
     ls \in {<<>>, <<Line("skipped"), Line("route")>>, <<Line("route"), Line("malformed")>>,
             <<Line("route"), Line("route"), Line("skipped"), Line("route")>>}}

GoodUrl == [long |-> FALSE, smuggles |-> FALSE, dots |-> FALSE, parses |-> TRUE, port |-> "ok",
            http |-> TRUE, fragment |-> FALSE, gateway |-> TRUE, relative |-> FALSE, grows |-> FALSE]
Urls == [there |-> GoodUrl, path |-> [GoodUrl EXCEPT !.relative = TRUE, !.gateway = FALSE],
         elsewhere |-> [GoodUrl EXCEPT !.gateway = FALSE], port0 |-> [GoodUrl EXCEPT !.port = "zero"],
         cut |-> [GoodUrl EXCEPT !.parses = FALSE], up |-> [GoodUrl EXCEPT !.dots = TRUE]]
SsdpLines == [kind : {"location"}, url : DOMAIN Urls] \cup [kind : {"target"}, url : {"igd", "other"}]
               \cup [kind : {"folded", "bare", "other"}, url : {"none"}]
SsdpTexts == [kind : {"ssdp"}, urls : {Urls}, items : UNION {[1..n -> SsdpLines] : n \in 0..3}]

Replies ==
  [code : {"ok", "redirect", "bad"}, lines : {"ok", "bad"}, length : {"none", "long", "differs"}]
Whole == [code |-> "ok", lines |-> "ok", length |-> "none"]
T(t, name) == [t |-> t, name |-> name]
Element(name, t) == <<T("open", name), T("text", t), T("close", name)>>
\* A service, its parts in any order, twice, missing, outside, nested or cut.
Pieces == {<<>>, Element("serviceType", "wan_ip"), Element("serviceType", "wan_ppp"),
           Element("serviceType", "other"), Element("controlURL", "there"),
           Element("controlURL", "blank"), <<T("empty", "controlURL")>>}
Service(a, b) == <<T("open", "service")>> \o a \o b \o <<T("close", "service")>>
DeviceDocuments ==
  {Service(a, b) : a, b \in Pieces}
  \cup {a \o Service(b, c) \o Service(c, b) :
          a \in {<<>>, Element("serviceType", "wan_ip")}, c \in {Element("controlURL", "there")},
          b \in {<<>>, Element("serviceType", "wan_ppp"), Element("serviceType", "wan_ip")}}
  \cup {SubSeq(Service(Element("serviceType", "wan_ip"), Element("controlURL", "there")), 1, c) : c \in 0..7}
  \cup {<<T("odd", o)>> : o \in DOMAIN OddToken}
  \cup {Service(Service(<<>>, <<>>), <<>>), <<T("empty", "service")>>, <<T("close", "other")>>,
         <<T("open", "service"), T("empty", "service"), T("close", "service")>>,
         <<T("open", "serviceType"), T("open", "controlURL")>>, [i \in 1..4 |-> T("open", "other")],
         Service(<<T("open", "controlURL"), T("text", "long")>>, <<>>)}

\* A part whose text a comment or an element divides, and what it is read as.
Apart(name, by, t) == <<T("open", name), T("text", "there")>> \o by \o <<T("text", t), T("close", name)>>
Divided(name) ==
  {Service(Apart(name, by, t), Element(other, words)) :
     by \in {<<T("comment", "x")>>, <<T("empty", "other")>>}, t \in {"path", "blank"},
     other \in {"serviceType", "controlURL"}, words \in {"wan_ip", "there"}}

Envelope(r, fields) == <<T("open", r)>> \o fields \o <<T("close", r)>>
SoapDocuments ==
  {Envelope("GetResponse", Element("client", c) \o Element("protocol", p) \o Element("enabled", e)) :
     c, p \in {"ours", "other"}, e \in {"0", "1", "bad"}}
  \cup {Envelope("Fault", Element("errorCode", c)) : c \in {"absent", "bad", "blank", "long"}}
  \cup {Envelope(r, f) : r \in DOMAIN Responses, f \in {<<>>, Element("errorCode", "absent"),
           Element("client", "ours") \o Element("client", "other"), <<T("empty", "port")>>,
           <<T("comment", "x")>>, <<T("open", "client"), T("open", "port")>>, Envelope("Fault", <<>>)}}
  \cup {Envelope("GetResponse", Apart("client", <<T("comment", "x")>>, t)) : t \in {"path", "blank"}}
  \cup {<<T("open", "Fault")>>, <<T("odd", "doctype")>>, <<T("close", "Fault")>>, <<>>,
         Element("errorCode", "other"), [i \in 1..4 |-> T("open", "body")],
         <<T("empty", "Fault"), T("empty", "AddResponse")>>}

MCTexts ==
  RouteTexts \cup SsdpTexts
    \cup [kind : {"device"}, items : DeviceDocuments, http : {Whole}, joins : {"path"}]
    \cup [kind : {"device"}, items : Divided("serviceType") \cup Divided("controlURL"), http : {Whole},
          joins : {"wan_ip", "other", "path", "long"}]
    \cup [kind : {"soap"}, items : SoapDocuments, http : {Whole}, joins : {"ours", "bad", "long"}]
    \cup [kind : {"device", "soap"}, items : {<<>>}, http : Replies, joins : {"path"}]

\* Hosts: zones in any order around the sentinel and the limit, and process
\* trees with adopted, unreadable and circular members, at the wire's limit.
ThermalZones == [kind : {"cpu"}, millic : {-30, 5, 7}] \cup [kind : {"battery"}, millic : {-30, 5}]
                  \cup [kind : {"qcom_battery", "denied", "unparsed", "other"}, millic : {6}]
ThermalHosts ==
  [kind : {"thermal"}, listed : {TRUE}, unlisted : {1}, zones : UNION {[1..n -> ThermalZones] : n \in {0, 3}}]
    \cup [kind : {"thermal"}, listed : BOOLEAN, unlisted : {0},
          zones : {[i \in 1..4 |-> [kind |-> "cpu", millic |-> i]]}]

Process(p, parent, group, status, rss) ==
  [parent |-> parent, group |-> group, status |-> status, rss |-> rss, peak |-> rss + p]
Root(rss) == Process(0, 9, 1, "read", rss)
MemoryHost(table, r, meminfo, listed) ==
  [kind |-> "memory", listed |-> listed, unlisted |-> 0, root |-> 1, table |-> table,
   reads |-> r, meminfo |-> meminfo]
MemoryHosts ==
  {MemoryHost(<<Root(1), Process(0, a, g, s, 2), Process(1, b, 9, "read", 4)>>, 3, <<8, -1, 9, 0>>, TRUE) :
     a, b \in {1, 2, 3, 9}, g \in {1, 9}, s \in {"read", "gone", "denied"}}
  \cup {MemoryHost(<<Root(r), Process(0, 1, 1, s, q)>>, n, <<>>, l) :
          r \in {-1, 1}, q \in {-1, 8}, s \in {"read", "denied"}, n \in 0..2, l \in BOOLEAN}
  \cup {MemoryHost([p \in 1..4 |-> Root(1)], 4, <<>>, TRUE)}
MCSentinel == -30
MCHosts == ThermalHosts \cup MemoryHosts

File(path, exec) == [path |-> path, file |-> TRUE, exec |-> exec]
Plain ==
  [entries |-> <<[path |-> <<1>>, file |-> FALSE, exec |-> FALSE], File(<<1, 2>>, TRUE)>>,
   entrypoints |-> <<<<1, 2>>>>]
Descriptors ==
  {Plain,
   [entries |-> <<File(<<1>>, TRUE), File(<<1, 2>>, TRUE)>>, entrypoints |-> <<<<1>>>>],
   [entries |-> <<File(<<1>>, FALSE)>>, entrypoints |-> <<<<1>>>>],
   [entries |-> <<File(<<1>>, TRUE), File(<<1>>, TRUE)>>, entrypoints |-> <<<<1>>>>]}
MCContexts ==
  [until : {0, 2, 4}, descriptor : {Plain}, bound : BOOLEAN, origin : {TRUE}]
    \cup [until : {4}, descriptor : Descriptors, bound : {TRUE}, origin : BOOLEAN]
=============================================================================
