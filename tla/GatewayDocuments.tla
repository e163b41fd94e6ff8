-------------------------- MODULE GatewayDocuments --------------------------
(***************************************************************************)
(* How the texts a gateway or the kernel sends are read: route tables      *)
(* (src/src/network_traversal/gateway.rs), SSDP replies, device documents  *)
(* and their URLs (igd.rs), SOAP replies (mapping/upnp.rs).                *)
(*                                                                         *)
(* A text is a sequence of lines, messages or tokens, each classified by   *)
(* what its bytes decide, and a reader takes one item at a time.  The two  *)
(* XML readers take the tokens [t, name]: "open", "empty" and "close"      *)
(* tags, "text", "comment", and the "odd" ones that no reader accepts.     *)
(***************************************************************************)
EXTENDS Integers, FiniteSets, Sequences

CONSTANTS
  MaxRoutes,       \* ROUTE_TABLE_MAX_RECORDS
  MaxHeaders,      \* the 32 header lines of a reply
  MaxDepth,        \* IGD_XML_MAX_DEPTH, UPNP_XML_MAX_DEPTH
  MaxCandidates    \* IGD_MAX_SERVICE_CANDIDATES

ASSUME DocumentAssumption ==
  MaxRoutes \in Nat /\ MaxHeaders \in Nat /\ MaxDepth \in Nat /\ MaxCandidates \in Nat

VARIABLES
  text,     \* [kind, items, ...]: what is read
  place,    \* the next item; two past the items: the reading is over
  read      \* the state of the reader

textVars == <<text, place, read>>

Fault(p, f) == [p EXCEPT !.fault = f]
Top(s) == s[Len(s)]
Pop(s) == SubSeq(s, 1, Len(s) - 1)
-----------------------------------------------------------------------------
(* Route tables.                                                           *)

Routed == [fault |-> "none", routes |-> <<>>, ended |-> FALSE]

\* parse_proc_route_line: a line is a route or malformed; the header and the
\* empty lines are "skipped".
ProcLine(p, line) ==
  IF line.kind = "skipped" THEN p
  ELSE IF Len(p.routes) = MaxRoutes THEN Fault(p, "bounded")
  ELSE IF line.kind = "malformed" THEN Fault(p, "malformed")
  ELSE [p EXCEPT !.routes = Append(@, line.route)]

\* parse_route_message: only unicast routes of the main table are kept.
KeptRoute(m) == m.inet /\ m.unicast /\ m.main /\ m.attributes

\* parse_netlink_route_dump: one message of a dump that is known to end.
NetlinkMessage(p, m) ==
  IF p.ended THEN p
  ELSE IF m.kind = "done" THEN [p EXCEPT !.ended = TRUE]
  ELSE IF m.kind = "error" THEN Fault(p, "unavailable")
  ELSE IF m.kind = "route" /\ Len(p.routes) = MaxRoutes THEN Fault(p, "bounded")
  ELSE IF m.kind = "route" /\ KeptRoute(m) THEN [p EXCEPT !.routes = Append(@, m.route)]
  ELSE p

\* netlink_dump_finished: the end of the dump, with no message before it that
\* overruns what was received.
DumpFinished(messages) ==
  \E i \in DOMAIN messages :
    messages[i].kind = "done" /\ \A j \in 1..(i - 1) : messages[j].kind # "short"

\* dump_netlink: how a dump that does not finish may end.
DumpFaults == {"unavailable", "malformed", "bounded"}
-----------------------------------------------------------------------------
(* URLs, SSDP and HTTP replies.                                            *)

\* validate_gateway_url, in the order of its checks.
ValidateGatewayUrl(u) ==
  IF u.long THEN "bounded"
  ELSE IF u.smuggles THEN "wrong_target"
  ELSE IF ~u.parses THEN (IF u.port = "bad" THEN "malformed_port" ELSE "malformed")
  ELSE IF ~u.http THEN "wrong_target"
  ELSE IF u.fragment THEN "malformed"
  ELSE IF ~u.gateway THEN "wrong_target"
  ELSE IF u.port # "ok" THEN "malformed_port"
  ELSE IF u.dots THEN "wrong_target"
  ELSE IF u.grows THEN "bounded"
  ELSE "ok"

\* reject_control_syntax: before the URL is joined to the document's own.
RejectControlSyntax(u) ==
  IF u.long THEN "bounded"
  ELSE IF u.smuggles \/ u.dots THEN "wrong_target"
  ELSE IF u.port = "bad" THEN "malformed_port"
  ELSE "none"

\* resolve_control: a relative URL takes the scheme and the host of the
\* document, which is on the gateway.
ResolveControl(u) ==
  IF RejectControlSyntax(u) # "none" THEN RejectControlSyntax(u)
  ELSE IF u.relative THEN ValidateGatewayUrl([u EXCEPT !.http = TRUE, !.gateway = TRUE])
  ELSE ValidateGatewayUrl(u)

SsdpFirst == [fault |-> "none", headers |-> 0, location |-> "none", igd |-> "none"]

\* ssdp_location: one header line; two locations must agree, the last search
\* target counts.
SsdpLine(p, line) ==
  LET q == [p EXCEPT !.headers = @ + 1] IN
  IF line.kind \in {"folded", "status"} THEN Fault(p, "malformed")
  ELSE IF p.headers = MaxHeaders THEN Fault(p, "bounded")
  ELSE IF line.kind = "bare" THEN Fault(q, "malformed")
  ELSE IF line.kind = "location" /\ p.location \notin {"none", line.url} THEN Fault(q, "malformed")
  ELSE IF line.kind = "location" THEN [q EXCEPT !.location = line.url]
  ELSE IF line.kind = "target" THEN [q EXCEPT !.igd = line.url]
  ELSE q

\* The end of ssdp_location.
SsdpLocation(p, urls) ==
  IF p.location = "none" \/ p.igd # "igd" THEN "malformed" ELSE ValidateGatewayUrl(urls[p.location])

\* The header lines of parse_http_response and parse_http, and the length
\* they announce; a reply is read whole or not at all.
HttpBody(h) ==
  IF h.code = "redirect" THEN "redirect"
  ELSE IF h.code # "ok" \/ h.lines # "ok" THEN "malformed"
  ELSE IF h.length = "long" THEN "bounded"
  ELSE IF h.length = "differs" THEN "malformed"
  ELSE "ok"
-----------------------------------------------------------------------------
(* The two XML readers.                                                    *)

\* markup, read_name, read_attributes and decode_text: what is no tag, text
\* or comment ends the reading.
OddToken ==
  [doctype |-> "entity", entity |-> "entity", attributes |-> "bounded",
   cdata |-> "malformed", instruction |-> "malformed", name |-> "malformed",
   attribute |-> "malformed", comment |-> "malformed"]

Blank(words) == words = "blank"

\* The trimmed text of an element: what the pieces that a comment or a tag
\* parts read as once joined, which their bytes decide (text.joins).
Trimmed(pieces) ==
  LET said == {i \in DOMAIN pieces : ~Blank(pieces[i])} IN
  IF said = {} THEN "none"
  ELSE IF \E i \in said : said = {i} THEN pieces[CHOOSE i \in said : TRUE]
  ELSE text.joins

\* The buffer of an element, with the next piece, passes its limit.
Overruns(pieces, words) == words = "long" \/ (pieces # <<>> /\ text.joins = "long")

-----------------------------------------------------------------------------
(* parse_device_xml: the services of a device, each with its kind and URL. *)

Parts == {"serviceType", "controlURL"}
ServiceKinds == {"wan_ip", "wan_ppp"}

DeviceFirst ==
  [fault |-> "none", stack |-> <<>>, target |-> "none", buffer |-> <<>>, service |-> FALSE,
   serviceType |-> "none", controlURL |-> "none", out |-> <<>>]

EnterService(p) == [p EXCEPT !.service = TRUE, !.serviceType = "none", !.controlURL = "none"]

StartTag(p, name) ==
  LET q == IF name = "service" THEN EnterService(p) ELSE p IN
  IF name = "service" /\ p.service THEN Fault(p, "malformed")
  ELSE IF Len(p.stack) = MaxDepth THEN Fault(q, "bounded")
  ELSE IF name \in Parts /\ p.target # "none" THEN Fault(q, "malformed")
  ELSE IF name \in Parts
       THEN [q EXCEPT !.target = name, !.buffer = <<>>, !.stack = Append(@, name)]
  ELSE [q EXCEPT !.stack = Append(@, name)]

\* A tag that closes itself enters nothing.
EmptyTag(p, name) ==
  IF name # "service" THEN p
  ELSE IF p.service THEN Fault(p, "malformed")
  ELSE [EnterService(p) EXCEPT !.service = FALSE]

\* finish_service: only a service of a known kind that has a URL counts.
FinishService(p) ==
  LET q == [p EXCEPT !.service = FALSE, !.serviceType = "none", !.controlURL = "none"] IN
  IF p.serviceType \notin ServiceKinds \/ p.controlURL = "none" THEN q
  ELSE IF Len(p.out) = MaxCandidates THEN Fault(q, "bounded")
  ELSE [q EXCEPT !.out = Append(@, [service |-> p.serviceType, control |-> p.controlURL])]

EndTag(p, name) ==
  IF p.stack = <<>> \/ Top(p.stack) # name THEN Fault(p, "malformed")
  ELSE LET q == [p EXCEPT !.stack = Pop(@)]
           words == Trimmed(p.buffer)
       IN IF name = "service" THEN FinishService(q)
          ELSE IF name \notin Parts THEN q
          ELSE IF words = "none" THEN [q EXCEPT !.target = "none", !.buffer = <<>>]
          ELSE [q EXCEPT !.target = "none", !.buffer = <<>>, ![name] = words]

DeviceText(p, words) ==
  IF p.target = "none" THEN p
  ELSE IF Overruns(p.buffer, words) THEN Fault(p, "bounded")
  ELSE [p EXCEPT !.buffer = Append(@, words)]

DeviceToken(p, token) ==
  CASE token.t = "comment" -> p
    [] token.t = "odd" -> Fault(p, OddToken[token.name])
    [] token.t = "text" -> DeviceText(p, token.name)
    [] token.t = "open" -> StartTag(p, token.name)
    [] token.t = "empty" -> EmptyTag(p, token.name)
    [] OTHER -> EndTag(p, token.name)

-----------------------------------------------------------------------------
(* read_soap: one response or fault, each field at most once.              *)

Responses == [GetResponse |-> "get", AddResponse |-> "add", DeleteResponse |-> "delete",
              Fault |-> "fault"]
Fields == {"errorCode", "client", "port", "lease", "enabled", "protocol"}

SoapFirst ==
  [fault |-> "none", stack |-> <<>>, capturing |-> "none", buffer |-> <<>>,
   response |-> "none", view |-> [f \in Fields |-> "none"]]

\* note_element: a second response, or a field within a field, is malformed.
NoteElement(p, name) ==
  CASE name \in DOMAIN Responses ->
         IF p.response # "none" THEN Fault(p, "malformed")
         ELSE [p EXCEPT !.response = Responses[name]]
    [] name \in Fields ->
         IF p.capturing # "none" THEN Fault(p, "malformed")
         ELSE [p EXCEPT !.capturing = name, !.buffer = <<>>]
    [] OTHER -> p

\* commit: a field that repeats or does not parse is malformed.
Commit(p) ==
  LET words == Trimmed(p.buffer)
      q == [p EXCEPT !.capturing = "none", !.buffer = <<>>]
  IN IF p.view[p.capturing] # "none" \/ words \in {"none", "bad"}
     THEN Fault(q, "malformed")
     ELSE [q EXCEPT !.view[p.capturing] = words]

SoapOpen(p, name) ==
  LET q == NoteElement(p, name) IN
  IF q.fault # "none" THEN q
  ELSE IF Len(q.stack) = MaxDepth THEN Fault(q, "bounded")
  ELSE [q EXCEPT !.stack = Append(@, name)]

SoapEmpty(p, name) ==
  LET q == NoteElement(p, name) IN
  IF q.fault = "none" /\ q.capturing = name THEN Commit(q) ELSE q

SoapClose(p, name) ==
  IF p.stack = <<>> \/ Top(p.stack) # name THEN Fault(p, "malformed")
  ELSE IF p.capturing = name THEN Commit([p EXCEPT !.stack = Pop(@)])
  ELSE [p EXCEPT !.stack = Pop(@)]

SoapText(p, words) ==
  IF p.capturing = "none" THEN p
  ELSE IF Overruns(p.buffer, words) THEN Fault(p, "bounded")
  ELSE [p EXCEPT !.buffer = Append(@, words)]

SoapToken(p, token) ==
  CASE token.t = "comment" -> p
    [] token.t = "odd" -> Fault(p, OddToken[token.name])
    [] token.t = "text" -> SoapText(p, token.name)
    [] token.t = "open" -> SoapOpen(p, token.name)
    [] token.t = "empty" -> SoapEmpty(p, token.name)
    [] OTHER -> SoapClose(p, token.name)

-----------------------------------------------------------------------------
(* The reading of a text.                                                  *)

First(t) ==
  CASE t.kind = "proc" -> [Routed EXCEPT !.fault = t.file]
    [] t.kind = "netlink" -> Routed
    [] t.kind = "ssdp" -> SsdpFirst
    [] t.kind = "device" -> IF HttpBody(t.http) = "ok" THEN DeviceFirst
                            ELSE Fault(DeviceFirst, HttpBody(t.http))
    [] t.kind = "soap" -> IF HttpBody(t.http) = "ok" THEN SoapFirst
                          ELSE Fault(SoapFirst, HttpBody(t.http))
    [] OTHER -> [fault |-> "none"]

\* The outcomes of classifying lines, messages, URLs and tokens.  "none" is
\* the name of nothing.
IsList(s) == Len(s) \in Nat /\ DOMAIN s = 1..Len(s)
Kinds(s, kinds) == IsList(s) /\ \A i \in DOMAIN s : s[i].kind \in kinds
UrlClasses ==
  [long : BOOLEAN, smuggles : BOOLEAN, dots : BOOLEAN, parses : BOOLEAN, http : BOOLEAN,
   fragment : BOOLEAN, gateway : BOOLEAN, relative : BOOLEAN, grows : BOOLEAN,
   port : {"ok", "bad", "zero"}]
Classified(t) ==
  CASE t.kind = "proc" -> /\ Kinds(t.items, {"skipped", "malformed", "route"})
                          /\ Kinds(t.netlink, {"route", "done", "error", "short", "other"})
    [] t.kind = "ssdp" ->
         /\ Kinds(t.items, {"folded", "status", "bare", "location", "target", "other"})
         /\ "none" \notin DOMAIN t.urls /\ \A n \in DOMAIN t.urls : t.urls[n] \in UrlClasses
         /\ \A i \in DOMAIN t.items :
              /\ t.items[i].kind = "location" => t.items[i].url \in DOMAIN t.urls
              /\ t.items[i].kind = "target" => t.items[i].url \in {"igd", "other"}
    [] OTHER ->
         /\ t.kind \in {"device", "soap"} /\ IsList(t.items) /\ t.joins # "none"
         /\ \A i \in DOMAIN t.items :
              /\ t.items[i].name # "none"
              /\ t.items[i].t \in {"open", "empty", "close", "text", "comment", "odd"}
              /\ t.items[i].t = "odd" => t.items[i].name \in DOMAIN OddToken

TextInit(texts) ==
  /\ text \in texts
  /\ place = IF text.kind = "over" THEN 2 ELSE 1
  /\ read = First(text)

\* One line, message or token; a fault ends the reading.
ReadItem ==
  /\ place <= Len(text.items) /\ read.fault = "none"
  /\ LET item == text.items[place] IN
     read' = CASE text.kind = "proc" -> ProcLine(read, item)
               [] text.kind = "netlink" -> NetlinkMessage(read, item)
               [] text.kind = "ssdp" -> SsdpLine(read, item)
               [] text.kind = "device" -> DeviceToken(read, item)
               [] OTHER -> SoapToken(read, item)
  /\ place' = place + 1
  /\ UNCHANGED text

\* Mutant: a table that is too long is read from netlink as well.
FallBackBounded ==
  /\ text.kind = "proc" /\ read.fault # "none"
  /\ text' = [kind |-> "netlink", items |-> text.netlink, file |-> read.fault]
  /\ place' = 1
  /\ read' \in IF DumpFinished(text.netlink) THEN {Routed}
               ELSE {[Routed EXCEPT !.fault = f] : f \in DumpFaults}

\* discover_with_sources: netlink is asked when the file is missing or
\* malformed, never when it is merely too long.
FallBack ==
  /\ text.kind = "proc" /\ read.fault \in {"unavailable", "malformed"}
  /\ text' = [kind |-> "netlink", items |-> text.netlink, file |-> read.fault]
  /\ place' = 1
  /\ read' \in IF DumpFinished(text.netlink) THEN {Routed}
               ELSE {[Routed EXCEPT !.fault = f] : f \in DumpFaults}

\* What a reader says at the end of its text.
Closed(t, p) ==
  IF p.fault # "none" THEN p
  ELSE IF t.kind = "ssdp" THEN Fault(p, SsdpLocation(p, t.urls))
  ELSE IF t.kind = "device" /\ (p.stack # <<>> \/ p.service) THEN Fault(p, "malformed")
  ELSE IF t.kind = "soap" /\ (p.stack # <<>> \/ p.capturing # "none") THEN Fault(p, "malformed")
  ELSE p

EndText ==
  /\ place <= Len(text.items) + 1
  /\ place > Len(text.items) \/ read.fault # "none"
  /\ ~(text.kind = "proc" /\ read.fault \in {"unavailable", "malformed"})
  /\ read' = Closed(text, read)
  /\ place' = Len(text.items) + 2
  /\ UNCHANGED text

TextNext == ReadItem \/ FallBack \/ EndText
TextPending == place <= Len(text.items) + 1
TextFairness == WF_textVars(TextNext)
-----------------------------------------------------------------------------
(* What the readers promise, against the text as a whole.                  *)

Items(kinds) == {i \in DOMAIN text.items : text.items[i].kind \in kinds}
Inside(i, j) == {n \in DOMAIN text.items : i < n /\ n < j}
Tag(i, t, name) == text.items[i].t = t /\ text.items[i].name = name
Tags(ts, names) == {i \in DOMAIN text.items : text.items[i].t \in ts /\ text.items[i].name \in names}

KeptRoutes ==
  {i \in Items({"route"}) :
     text.kind = "netlink" =>
       KeptRoute(text.items[i]) /\ \A j \in Items({"done"}) : i < j}

\* A route table is the whole of one source: every route of a file that is
\* well formed throughout, or the main table's unicast routes of a dump up to
\* its end, each in its place; netlink is not asked because the file was too
\* long.
RoutesExact ==
  /\ text.kind = "netlink" => text.file # "bounded"
  /\ read.fault = "none" =>
       /\ IF text.kind = "proc" THEN Items({"malformed"}) = {} ELSE Items({"done"}) # {}
       /\ \A i \in KeptRoutes :
            read.routes[Cardinality({j \in KeptRoutes : j <= i})] = text.items[i].route
       /\ Len(read.routes) = Cardinality(KeptRoutes) /\ Len(read.routes) <= MaxRoutes

\* A location is followed only when every LOCATION of the reply says the same,
\* and only to the gateway that was asked.
LocationExact ==
  read.fault = "ok" =>
    LET u == text.urls[read.location] IN
    /\ \A i \in Items({"location"}) : text.items[i].url = read.location
    /\ u.gateway /\ u.http /\ u.port = "ok" /\ ~u.smuggles /\ ~u.dots

\* A service is an element with no other in it, and says what a text of a part
\* within it says, or two of its texts joined.
ServiceTags == Tags({"open", "empty", "close"}, {"service"})
ServiceElements ==
  {e \in (DOMAIN text.items) \X (DOMAIN text.items) :
     /\ e[1] < e[2] /\ Tag(e[1], "open", "service") /\ Tag(e[2], "close", "service")
     /\ Inside(e[1], e[2]) \cap ServiceTags = {}}
Spells(i, j, words) ==
  \/ \E m \in Inside(i, j) : Tag(m, "text", words)
  \/ /\ words = text.joins
     /\ \E k, m \in Inside(i, j) : k # m /\ text.items[k].t = "text" /\ text.items[m].t = "text"
Says(e, part, words) ==
  \E n \in Inside(e[1], e[2]) :
    Tag(n, "open", part) /\ n + 2 < e[2] /\ Spells(n, e[2], words)
KnownElements ==
  {e \in ServiceElements : \E kind \in ServiceKinds : Says(e, "serviceType", kind)}

\* A document is read as a whole: what is taken for a service is one element
\* whose own parts name a known kind and a URL, never parts of two.
DeviceExact ==
  read.fault = "none" =>
    /\ \A i \in DOMAIN text.items : text.items[i].t # "odd"
    /\ Cardinality({i \in DOMAIN text.items : text.items[i].t = "open"})
         = Cardinality({i \in DOMAIN text.items : text.items[i].t = "close"})
    /\ \A n \in DOMAIN read.out :
         \E e \in ServiceElements :
           /\ Says(e, "serviceType", read.out[n].service)
           /\ Says(e, "controlURL", read.out[n].control)
    /\ Len(read.out) <= Cardinality(KnownElements)

\* A reply is taken for an answer only when it holds one, and a field only
\* when no other says otherwise.
SoapExact ==
  read.fault = "none" =>
    /\ \A i \in DOMAIN text.items : text.items[i].t # "odd"
    /\ read.response # "none" => Cardinality(Tags({"open", "empty"}, DOMAIN Responses)) = 1
    /\ \A f \in Fields :
         Cardinality(Tags({"open", "empty"}, {f})) = IF read.view[f] = "none" THEN 0 ELSE 1

(* What a text was read for is what the text says as a whole, whatever is   *)
(* repeated, nested, cut or out of order in it; and a control URL that is   *)
(* accepted addresses the gateway.                                          *)
TextsExact ==
  /\ ~TextPending =>
       CASE text.kind \in {"proc", "netlink"} -> RoutesExact
         [] text.kind = "ssdp" -> LocationExact
         [] text.kind = "device" -> DeviceExact
         [] text.kind = "soap" -> SoapExact
         [] OTHER -> TRUE
  /\ text.kind = "ssdp" =>
       \A n \in DOMAIN text.urls :
         LET u == text.urls[n] IN
         ResolveControl(u) = "ok" => (u.relative \/ u.gateway) /\ ~u.smuggles /\ ~u.dots
=============================================================================
