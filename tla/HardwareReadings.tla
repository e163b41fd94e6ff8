-------------------------- MODULE HardwareReadings --------------------------
(***************************************************************************)
(* What the fact collectors make of a device: the Android property files   *)
(* of src/src/processor_facts.rs, read under one byte budget and searched  *)
(* node by node, its execution surface and egress check, and the raw       *)
(* hardware reading of src/src/processor_facts/coverage_hardware.rs.  A    *)
(* device is any content of those files; a text stands for what it says,   *)
(* or "bad".                                                               *)
(***************************************************************************)
EXTENDS Integers, Sequences, FiniteSets

CONSTANTS
  Nodes,      \* bound: 1..n, the trie nodes of a property area
  Cpus,       \* bound: 0..n, the cpu numbers of a list
  ListPlace,  \* where the text of a cpu list stands in the order of texts
  MaxCaches   \* MAX_CACHES

ASSUME ReadingsAssumption ==
  /\ IsFiniteSet(Nodes) /\ 0 \notin Nodes
  /\ IsFiniteSet(Cpus) /\ Cpus = 0..(Cardinality(Cpus) - 1)
  /\ ListPlace \in [SUBSET Cpus -> Int]
  /\ \A S, T \in SUBSET Cpus : ListPlace[S] = ListPlace[T] => S = T
  /\ MaxCaches \in Nat \ {0}

VARIABLES
  device,   \* what the device holds, by the kind of collector that reads it
  stage,    \* "index", "files", "walk", "surface", "hardware" or "over"
  budget,   \* PropertyReadBudget.remaining, in halves of a megabyte
  reads,    \* the outcomes of the property files read so far
  node,     \* find_area_node: the node it is at
  visits,   \* find_area_node: nodes visited
  found,    \* find_area_node: "none", "found", "absent" or "malformed"
  fact      \* the reading made

readingVars == <<device, stage, budget, reads, node, visits, found, fact>>

FileCap == 2        \* MAX_PROPERTY_FILE_BYTES
TotalCap == 8       \* MAX_PROPERTY_TOTAL_BYTES
MaxContexts == 4    \* MAX_PROPERTY_CONTEXT_FILES

\* SecurePropertyFileReader::read of a file [kind, size, value]: only a
\* plain root-owned file within both limits, and it pays for what it read.
ReadOutcome(file, left) ==
  IF file.kind # "ok" THEN file.kind
  ELSE IF file.size > FileCap \/ file.size > left THEN "too_large"
  ELSE "ok"

\* file_failure_availability, and the rank of stronger_file_failure.  A file
\* that was not opened leaves its fields hidden.
FailureStatus(f) ==
  CASE f \in {"not_found", "unavailable", "unread"} -> "surface_hidden"
    [] f = "permission_denied" -> "permission_denied"
    [] OTHER -> "unsupported"
FailureRank(f) ==
  CASE f = "not_found" -> 0 [] f = "unavailable" -> 1 [] f = "permission_denied" -> 2 [] OTHER -> 3

\* Mutant: the weaker failure is kept.
StrongerFailureLast(left, right) == right

StrongerFailure(left, right) == IF FailureRank(right) > FailureRank(left) THEN right ELSE left

\* Mutant: a text that cannot be normalized does not end the search.
AreaStepGoesOn(answered, answer) ==
  IF \/ answered = "value" \/ answer = "absent"
     \/ answered = "unsupported" /\ answer = "malformed"
  THEN answered ELSE answer

\* One area's answer for one field in collect_with_fallback_contexts.  An
\* area that holds the field ends the search, also with a text that
\* normalize_android_text refuses ("unusable"); else an unsupported area
\* outranks a malformed one.
AreaStep(answered, answer) ==
  IF \/ answered \in {"value", "unusable"} \/ answer = "absent"
     \/ answered = "unsupported" /\ answer = "malformed"
  THEN answered ELSE answer

\* collect_with_fallback_contexts for one field: after each of the files
\* read, the strongest failure and the answer of the readable ones.
WorstFailure(rs) ==
  LET f[i \in 0..Len(rs)] ==
        IF i = 0 THEN "not_found"
        ELSE IF rs[i].outcome = "ok" THEN f[i - 1] ELSE StrongerFailure(f[i - 1], rs[i].outcome)
  IN f
AreasAnswer(rs) ==
  LET f[i \in 0..Len(rs)] ==
        IF i = 0 THEN "absent"
        ELSE IF rs[i].outcome = "ok" THEN AreaStep(f[i - 1], rs[i].value) ELSE f[i - 1]
  IN f

\* normalize_android_value.
ValueStatus(value) ==
  CASE value = "value" -> "observed"
    [] value = "absent" -> "not_present"
    [] value = "unsupported" -> "unsupported"
    [] OTHER -> "parse_error"

FallbackStatus(rs) ==
  IF \E i \in 1..Len(rs) : rs[i].outcome = "ok" THEN ValueStatus(AreasAnswer(rs)[Len(rs)])
  ELSE FailureStatus(WorstFailure(rs)[Len(rs)])

\* PropertyInfoParser::context_for over the nodes met on the way down, each
\* [own, prefix, exact]: a context or 0.  The deepest one counts, a prefix
\* before its own node, and an exact entry of the last node before both.
\* exact is -1 where the node lists no such name.
Inherited(path) ==
  LET f[i \in 0..Len(path)] ==
        IF i = 0 THEN 0
        ELSE IF path[i].prefix # 0 THEN path[i].prefix
        ELSE IF path[i].own # 0 THEN path[i].own ELSE f[i - 1]
  IN f
ContextFor(path) ==
  IF path[Len(path)].exact > 0 THEN path[Len(path)].exact ELSE Inherited(path)[Len(path)]

\* collect_with_property_info: the files of the first four of the contexts
\* that the fields are in and whose names are valid are opened, in the order
\* of the names; without an index the four well-known ones.  Contexts are
\* numbered in that order, and a device has [valid, others]: the contexts
\* with a valid name, and those the other fields are in.
NamedContexts(d) == {c \in d.valid \cap 1..Len(d.files) : c \in d.others \/ c = ContextFor(d.path)}
Opened(d, c) ==
  d.index.kind = "ok" =>
    /\ c \in NamedContexts(d)
    /\ Cardinality({b \in NamedContexts(d) : b < c}) < MaxContexts

\* The status of one field: a name without a context is not present, a
\* context the index does not list is malformed, one with a name that
\* valid_property_context refuses unsupported; otherwise the file of its own
\* context decides.
ContextStatus(d, rs) ==
  LET context == ContextFor(d.path) IN
  IF context = 0 THEN "not_present"
  ELSE IF context > Len(rs) THEN "parse_error"
  ELSE IF context \notin d.valid THEN "unsupported"
  ELSE LET r == rs[context] IN
       IF r.outcome # "ok" THEN FailureStatus(r.outcome) ELSE ValueStatus(r.value)

\* collect_android_properties: the index file first; a denied or unsafe one,
\* or one of another version, ends it.
ReadIndex ==
  /\ stage = "index"
  /\ LET outcome == ReadOutcome(device.index, budget) IN
     /\ budget' = IF outcome = "ok" THEN budget - device.index.size ELSE budget
     /\ IF outcome = "not_found" \/ (outcome = "ok" /\ device.index.value = "value")
        THEN stage' = "files" /\ UNCHANGED fact
        ELSE /\ stage' = "over"
             /\ fact' = IF outcome = "ok" THEN ValueStatus(device.index.value)
                        ELSE FailureStatus(outcome)
  /\ UNCHANGED <<device, reads, node, visits, found>>

\* The next context's file, or it is passed over.
ReadFile ==
  /\ stage = "files"
  /\ Len(reads) < Len(device.files)
  /\ LET file == device.files[Len(reads) + 1]
         outcome == IF Opened(device, Len(reads) + 1) THEN ReadOutcome(file, budget) ELSE "unread"
     IN /\ reads' = Append(reads, [outcome |-> outcome, value |-> file.value])
        /\ budget' = IF outcome = "ok" THEN budget - file.size ELSE budget
  /\ UNCHANGED <<device, stage, node, visits, found, fact>>

\* With an index, each field is read from its context; without one, from the
\* well-known contexts in turn.
FilesRead ==
  /\ stage = "files"
  /\ Len(reads) = Len(device.files)
  /\ fact' = IF device.index.kind = "ok" THEN ContextStatus(device, reads)
             ELSE FallbackStatus(reads)
  /\ stage' = "over"
  /\ UNCHANGED <<device, budget, reads, node, visits, found>>
-----------------------------------------------------------------------------
MaxVisits == Cardinality(Nodes) + 1   \* used / PROPERTY_TRIE_NODE_BYTES + 1

\* find_area_node: one node; the file may link its nodes in any way.
Walk ==
  /\ stage = "walk"
  /\ found = "none"
  /\ IF node = 0 THEN found' = "absent" /\ UNCHANGED <<node, visits>>
     ELSE /\ visits' = visits + 1
          /\ IF visits' > MaxVisits THEN found' = "malformed" /\ UNCHANGED node
             ELSE IF device.name[node] = device.segment THEN found' = "found" /\ UNCHANGED node
             ELSE /\ node' = IF device.segment < device.name[node]
                             THEN device.left[node] ELSE device.right[node]
                  /\ UNCHANGED found
  /\ UNCHANGED <<device, stage, budget, reads, fact>>

Walked ==
  /\ stage = "walk"
  /\ found # "none"
  /\ stage' = "over"
  /\ UNCHANGED <<device, budget, reads, node, visits, found, fact>>
-----------------------------------------------------------------------------
\* parse_cpu_list: the cpus of the tokens; none, or a token the wrong way
\* round, is a parse error.
ListedCpus(tokens) == UNION {t[1]..t[2] : t \in {tokens[i] : i \in 1..Len(tokens)}}
CpuListBad(tokens) ==
  tokens = <<>> \/ \E i \in 1..Len(tokens) : tokens[i][2] < tokens[i][1]

\* One turn of its loop over the sorted cpus: extend the range or open one.
ExtendRange(ranges, cpu) ==
  IF ranges # <<>> /\ ranges[Len(ranges)][2] + 1 = cpu
  THEN [ranges EXCEPT ![Len(ranges)] = <<@[1], cpu>>]
  ELSE Append(ranges, <<cpu, cpu>>)

\* The ranges of the cpus below each number.
RangesBelow(tokens) ==
  LET f[i \in 0..Cardinality(Cpus)] ==
        IF i = 0 THEN <<>>
        ELSE IF i - 1 \in ListedCpus(tokens) THEN ExtendRange(f[i - 1], i - 1) ELSE f[i - 1]
  IN f
CpuRanges(tokens) == RangesBelow(tokens)[Cardinality(Cpus)]

\* collect_cache: level, type (Data, Instruction, Unified) and list decide; an
\* unread size does not.
CacheOK(c) == c.level \in 1..4 /\ c.type \in 1..3 /\ ~CpuListBad(c.shared)
CacheKey(c) ==
  LET cpus == ListedCpus(c.shared)
  IN <<Cardinality(cpus), CHOOSE x \in cpus : \A y \in cpus : x <= y, c.level, c.type, ListPlace[cpus]>>

\* The derived order of the key's fields.
KeyBefore(a, b) ==
  \E i \in 1..5 : a[i] < b[i] /\ \A j \in 1..(i - 1) : a[j] = b[j]

\* collect_caches: the first reading of each cache counts, from each core
\* outward; nothing readable is the first failure, not an empty list.
CachesOK(cs) == {i \in 1..Len(cs) : CacheOK(cs[i])}
FirstOf(cs) ==
  {i \in CachesOK(cs) : \A j \in CachesOK(cs) : j < i => CacheKey(cs[j]) # CacheKey(cs[i])}
Rank(cs, i) == Cardinality({j \in FirstOf(cs) : KeyBefore(CacheKey(cs[j]), CacheKey(cs[i]))})
KeptCount(cs) == Cardinality({i \in FirstOf(cs) : Rank(cs, i) < MaxCaches})
KeptAt(cs, r) == CHOOSE i \in FirstOf(cs) : Rank(cs, i) = r - 1
CachesRead(cs) ==
  [status |-> IF CachesOK(cs) = {} /\ cs # <<>> THEN "unread" ELSE "observed",
   kept |-> [r \in 1..KeptCount(cs) |->
               [key |-> CacheKey(cs[KeptAt(cs, r)]), size |-> cs[KeptAt(cs, r)].size]]]

\* collect_policy: a policy is named after its first cpu when its list is
\* unreadable, and that cpu's registers are read.
PolicyCpu(number, tokens) ==
  IF CpuListBad(tokens) THEN number
  ELSE CHOOSE x \in ListedCpus(tokens) : \A y \in ListedCpus(tokens) : x <= y

\* collect_guest_root: used is total less free, and a byte count out of range
\* is a parse error of its own reading.
GuestRoot(s) ==
  LET bytes(blocks) == IF blocks >= 0 /\ blocks * s.size <= s.safe THEN blocks * s.size ELSE -1
  IN [total |-> bytes(s.blocks), used |-> bytes(s.blocks - s.free)]

\* collect_filesystems: the last mount of a device or of /data is on top.
MountOn(mounts, field, value) ==
  LET on == {i \in 1..Len(mounts) : mounts[i][field] = value}
  IN IF on = {} THEN "not_present" ELSE mounts[CHOOSE i \in on : \A j \in on : j <= i].fs

\* collect_meminfo: the first line of a key counts; "bad" is not `N kB`.
MemInfo(lines, key) ==
  LET at == {i \in 1..Len(lines) : lines[i].key = key}
      value == lines[CHOOSE i \in at : \A j \in at : i <= j].value
  IN IF at = {} THEN "not_present" ELSE IF value = "bad" THEN "parse_error" ELSE value

\* collect_thermal_zones: a zone without a type has no entry, one without a
\* temperature is unread.
Zones(zs) ==
  LET typed == SelectSeq(zs, LAMBDA z : z.type # "bad")
  IN [i \in 1..Len(typed) |-> IF typed[i].temp = "bad" THEN "unread" ELSE typed[i].temp]

\* collect_coverage_hardware.
Collect ==
  /\ stage = "hardware"
  /\ fact' = [ranges |-> IF CpuListBad(device.tokens) THEN <<>> ELSE CpuRanges(device.tokens),
              cpu |-> PolicyCpu(device.policy, device.tokens),
              caches |-> CachesRead(device.caches),
              root |-> GuestRoot(device.statvfs),
              rootType |-> MountOn(device.mounts, "device", 1),
              dataType |-> MountOn(device.mounts, "point", "data"),
              memory |-> MemInfo(device.lines, "MemTotal"),
              zones |-> Zones(device.zones)]
  /\ stage' = "over"
  /\ UNCHANGED <<device, budget, reads, node, visits, found>>
-----------------------------------------------------------------------------
\* parse_proc_status: the last line of a key counts; Seccomp knows "2" too.
StatusLine(lines, key, known) ==
  LET at == {i \in 1..Len(lines) : lines[i].key = key}
      value == lines[CHOOSE i \in at : \A j \in at : j <= i].value
  IN IF at = {} THEN "not_present" ELSE IF value \in known THEN value ELSE "parse_error"

\* HttpsFamilyRequester::request: 204 is the one success, and a body over the
\* limit or cut short is not.
RequestOutcome(r) ==
  CASE r = "204" -> "success"
    [] r = "204_long" -> "response_too_large"
    [] r = "204_cut" -> "transport_or_tls_failed"
    [] r = "refused" -> "connection_failed"
    [] r = "slow" -> "timeout"
    [] OTHER -> "http_unexpected_status"

\* finish_family: no address, a panic of its thread, or its own request.
Family(d, f) ==
  IF f \notin d.addresses THEN "no_family_address"
  ELSE IF d.request[f] = "panic" THEN "internal_error" ELSE RequestOutcome(d.request[f])

\* collect_control_egress: both families in their own threads, joined.
Egress(d) ==
  [f \in {"v4", "v6"} |->
     IF ~d.url THEN "internal_error" ELSE IF ~d.resolved THEN "dns_failed" ELSE Family(d, f)]

\* collect_execution_surface and collect_control_egress.
Survey ==
  /\ stage = "surface"
  /\ fact' = [seccomp |-> IF device.proc # "ok" THEN device.proc
                          ELSE StatusLine(device.lines, "Seccomp", {"0", "1", "2"}),
              privs |-> IF device.proc # "ok" THEN device.proc
                        ELSE StatusLine(device.lines, "NoNewPrivs", {"0", "1"}),
              egress |-> Egress(device)]
  /\ stage' = "over"
  /\ UNCHANGED <<device, budget, reads, node, visits, found>>

\* The shapes that the files of a device parse to: property files behind an
\* index whose trie has a root, a property area whose nodes are linked to
\* others or to none, and cpu lists, caches and block counts.
PropertyFiles ==
  [kind : {"ok", "not_found", "unavailable", "permission_denied", "unsafe"}, size : Nat,
   value : {"value", "unusable", "absent", "malformed", "unsupported"}]
IsDevice(d) ==
  /\ d.kind = "files" =>
       /\ d.index \in PropertyFiles /\ d.files \in Seq(PropertyFiles)
       /\ d.path \in Seq([own : Nat, prefix : Nat, exact : Int])
       /\ d.valid \subseteq Nat /\ d.others \subseteq Nat
       /\ d.index.kind = "ok" => Len(d.path) > 0
  /\ d.kind = "walk" =>
       /\ d.name \in [Nodes -> Int] /\ d.segment \in Int
       /\ d.left \in [Nodes -> Nodes \cup {0}] /\ d.right \in [Nodes -> Nodes \cup {0}]
       /\ d.root \in Nodes \cup {0}
  /\ d.kind = "hardware" =>
       /\ d.tokens \in Seq(Cpus \X Cpus)
       /\ d.caches \in Seq([level : Int, type : Int, shared : Seq(Cpus \X Cpus), size : Int])
       /\ d.statvfs.blocks \in Nat /\ d.statvfs.free \in Nat /\ d.statvfs.size \in Nat
       /\ d.statvfs.safe \in Nat
  /\ d.kind \in {"files", "walk", "surface", "hardware", "over"}

\* A collector starts on a device: [kind, ...].
ReadingsInit(Devices) ==
  /\ device \in Devices
  /\ stage = IF device.kind = "files" THEN "index" ELSE device.kind
  /\ budget = TotalCap
  /\ reads = <<>>
  /\ node = IF device.kind = "walk" THEN device.root ELSE 0
  /\ visits = 0
  /\ found = "none"
  /\ fact = "none"

ReadingsNext == ReadIndex \/ ReadFile \/ FilesRead \/ Walk \/ Walked \/ Survey \/ Collect

ReadingsFairness == WF_readingVars(ReadingsNext)
-----------------------------------------------------------------------------
(* The property files: the budget is never overrun.  Without an index a    *)
(* field is reported by what the files hold together: the first that holds *)
(* it decides, observed or unusable; else the worst answer; with no        *)
(* readable file, the worst failure: collect_with_fallback_contexts.  With *)
(* an index no more than four files are opened, each under a valid name,   *)
(* and what is observed is in the file of a context on the field's own     *)
(* path: collect_with_property_info.                                       *)
FilesExact ==
  stage = "over" /\ device.kind = "files" =>
    LET ok == {i \in 1..Len(reads) : reads[i].outcome = "ok"}
        opened == {i \in 1..Len(reads) : reads[i].outcome # "unread"}
    IN /\ budget >= 0
       /\ device.index.kind = "not_found" =>
            LET has(v) == \E i \in ok : reads[i].value = v
                first(i) == \A j \in ok : j < i => reads[j].value \notin {"value", "unusable"}
                failed == {FailureRank(reads[i].outcome) : i \in 1..Len(reads) \ ok}
            IN fact = IF ok = {} THEN (IF 3 \in failed THEN "unsupported"
                                       ELSE IF 2 \in failed THEN "permission_denied" ELSE "surface_hidden")
                      ELSE IF \E i \in ok : first(i) /\ reads[i].value = "value" THEN "observed"
                      ELSE IF has("unusable") THEN "parse_error"
                      ELSE IF has("unsupported") THEN "unsupported"
                      ELSE IF has("malformed") THEN "parse_error" ELSE "not_present"
       /\ device.index.kind = "ok" =>
            /\ Cardinality(opened) <= MaxContexts /\ opened \subseteq device.valid
            /\ fact = "observed" =>
                 \E i \in opened :
                   /\ reads[i] = [outcome |-> "ok", value |-> "value"]
                   /\ \E n \in 1..Len(device.path) :
                        i \in {device.path[n].own, device.path[n].prefix, device.path[n].exact}

\* The nodes that the links lead to from node n, none from 0.
Linked(d, S) == \A m \in S : {d.left[m], d.right[m]} \subseteq S \cup {0}
Reached(d, n) ==
  {m \in Nodes : \A S \in SUBSET Nodes : {n} \cap Nodes \subseteq S /\ Linked(d, S) => m \in S}

\* A search tree: smaller names to the left of a node, greater to the right.
Ordered(d) ==
  \A n \in Nodes :
    /\ \A m \in Reached(d, d.left[n]) : d.name[m] < d.name[n]
    /\ \A m \in Reached(d, d.right[n]) : d.name[m] > d.name[n]

(* The walk over a property area: what it finds is the name it looked for, *)
(* in a sorted area it finds every name that is there, and links in a      *)
(* circle end as malformed rather than absent: find_area_node.             *)
WalkExact ==
  stage = "over" /\ device.kind = "walk" =>
    /\ visits <= MaxVisits + 1
    /\ found = "found" => node \in Reached(device, device.root) /\ device.name[node] = device.segment
    /\ Ordered(device) =>
         (found = "found") = (\E n \in Reached(device, device.root) : device.name[n] = device.segment)
    /\ found = "absent" => node = 0

\* The size of a cache is that of its first readable entry.
SizeFirstRead(cs, entry) ==
  \E i \in 1..Len(cs) :
    /\ CacheOK(cs[i]) /\ CacheKey(cs[i]) = entry.key /\ cs[i].size = entry.size
    /\ \A j \in 1..(i - 1) : CacheOK(cs[j]) => CacheKey(cs[j]) # entry.key

(* The raw hardware reading: a cpu list is written as the maximal ranges   *)
(* of the cpus it names, in order; the caches kept are the nearest to the  *)
(* cores, each with the size first read, and an unreadable directory is    *)
(* not an empty list; used never exceeds total: parse_cpu_list,            *)
(* collect_caches, collect_guest_root.                                     *)
ReadingExact ==
  stage = "over" /\ device.kind = "hardware" =>
    LET cpus == ListedCpus(device.tokens)
        maximal == {r \in Cpus \X Cpus : /\ r[1] <= r[2] /\ r[1]..r[2] \subseteq cpus
                                         /\ r[1] - 1 \notin cpus /\ r[2] + 1 \notin cpus}
        kept == fact.caches.kept
        readable == {device.caches[i] : i \in {j \in 1..Len(device.caches) : CacheOK(device.caches[j])}}
    IN /\ ~CpuListBad(device.tokens) =>
            /\ {fact.ranges[i] : i \in 1..Len(fact.ranges)} = maximal
            /\ \A i \in 1..(Len(fact.ranges) - 1) : fact.ranges[i][2] < fact.ranges[i + 1][1]
            /\ fact.cpu = fact.ranges[1][1]
       /\ (fact.caches.status = "unread") = (readable = {} /\ device.caches # <<>>)
       /\ Len(kept) <= MaxCaches
       /\ readable # {} => kept # <<>>
       /\ \A i \in 1..(Len(kept) - 1) : KeyBefore(kept[i].key, kept[i + 1].key)
       /\ \A i \in 1..Len(kept) : SizeFirstRead(device.caches, kept[i])
       /\ \A c \in readable :
            LET key == CacheKey(c) IN
            (\E i \in 1..Len(kept) : kept[i].key = key)
              \/ (Len(kept) = MaxCaches /\ KeyBefore(kept[MaxCaches].key, key))
       /\ fact.root.total >= 0 /\ fact.root.used >= 0 => fact.root.used <= fact.root.total

(* The surface: a family reports success only for a request of its own     *)
(* that came back whole, and one family never decides the other:           *)
(* collect_control_egress.                                                 *)
SurveyExact ==
  stage = "over" /\ device.kind = "surface" =>
    \A f \in {"v4", "v6"} :
      (fact.egress[f] = "success") =
        (device.url /\ device.resolved /\ f \in device.addresses /\ device.request[f] = "204")

(* The collectors are exact. *)
CollectorsExact == FilesExact /\ WalkExact /\ ReadingExact /\ SurveyExact

\* A collector that still reads, on circular links too.
ReadingPending == stage # "over"
=============================================================================
