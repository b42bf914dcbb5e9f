------------------------------- MODULE GeoLists -------------------------------
(***************************************************************************)
(* From the answers of the geo sources to the lines HAProxy looks an       *)
(* address up in: one run of fetcher.py and the checks of validation.py    *)
(* that read the list.  What happens around the file (backup, crashes,     *)
(* other threads, reload) is GeoActivation's.                              *)
(*                                                                         *)
(* An address is <<version, number>>.  Lines of CSV that do not parse, and *)
(* the texts' formats, are left out.                                       *)
(***************************************************************************)
EXTENDS Integers, FiniteSets, SequencesExt

CONSTANTS
  Bits,        \* length of an address, by version
  Sources,     \* what the sources may hold
  Locations,   \* geoname ids of the locations CSV and their countries
  Allowed,     \* ALLOWED_COUNTRY_CODES
  Anchors,     \* ANCHOR_IPS
  Private,     \* RFC1918_AND_LOOPBACK_CIDRS, as addresses
  MinEntries,  \* GEO_FAIL_OPEN_MIN_ENTRIES
  ChunkSizes   \* values of GEO_BUILD_CHUNK_SIZE, 0 for no chunks

Unknown == "XX"

(* The newline of a text, whose other symbols are whole lines: networks. *)
NL == [v |-> 0, len |-> 0, base |-> 0]

Pow2[k \in Nat] == IF k = 0 THEN 1 ELSE 2 * Pow2[k - 1]

Addresses == UNION {{v} \X (0..(Pow2[Bits[v]] - 1)) : v \in DOMAIN Bits}

(* A network is a version, a prefix length and its first address. *)
NetworksOfLength(v, l) ==
  {[v |-> v, len |-> l, base |-> k * Pow2[Bits[v] - l]] : k \in 0..(Pow2[l] - 1)}
Networks == UNION {UNION {NetworksOfLength(v, l) : l \in 0..Bits[v]} : v \in DOMAIN Bits}
Block(n) == {n.v} \X (n.base .. n.base + Pow2[Bits[n.v] - n.len] - 1)

ASSUME BitsAssumption == DOMAIN Bits \subseteq {4, 6} /\ \A v \in DOMAIN Bits : Bits[v] \in Nat
ASSUME AddressAssumption == Anchors \cup Private \subseteq Addresses
ASSUME NumbersAssumption == MinEntries \in Nat \ {0} /\ ChunkSizes \subseteq Nat
ASSUME SourcesAssumption == \A s \in Sources :
  /\ s.format \in {"blocks", "csv"}
  /\ s.ipv6Url \in BOOLEAN
  /\ \A e \in s.main \cup s.ipv6 : e.lo \in Addresses /\ e.hi \in Addresses

VARIABLES
  pc,        \* where the run is
  source,    \* what its sources hold
  received,  \* history: the entries that arrived
  lines,     \* geo_content
  failOpen,  \* fail_open
  list,      \* blocklist_content: the networks with a line in it
  text,      \* geo_content of write_maps: lines and newlines
  file,      \* geo_blocklist.map
  chunkSize, \* config.build_chunk_size
  chunk      \* the index at which the next chunk of lines begins

config == <<source, chunkSize>>
vars == <<config, pc, received, lines, failOpen, list, text, file, chunk>>

Init ==
  /\ pc = "fetch"
  /\ source \in Sources
  /\ chunkSize \in ChunkSizes
  /\ received = {} /\ lines = {}
  /\ failOpen = FALSE
  /\ list = {}
  /\ text = <<>> /\ file = <<>>
  /\ chunk = 0

-----------------------------------------------------------------------------
(* The largest networks that hold nothing but addresses of A: what the     *)
(* ipaddress module makes of a range (summarize_address_range) and of a    *)
(* list of networks (collapse_addresses).                                  *)
Summary(A) ==
  LET inside == {n \in Networks : Block(n) \subseteq A}
  IN  {n \in inside : \A m \in inside : Block(n) \subseteq Block(m) => m = n}

Between(lo, hi) == {a \in Addresses : a[1] = lo[1] /\ lo[2] <= a[2] /\ a[2] <= hi[2]}

(* Mutant: a range whose ends are exchanged is dropped. *)
RangeAsIs(lo, hi) == IF lo[1] # hi[1] THEN {} ELSE Summary(Between(lo, hi))

RangeToCidrs(lo, hi) ==
  IF lo[1] # hi[1] THEN {}
  ELSE IF lo[2] > hi[2] THEN Summary(Between(hi, lo)) ELSE Summary(Between(lo, hi))

(* A geoname id without a location is XX; CSVs of ranges name the country. *)
FormatGeoLine(geoname) ==
  IF geoname \in DOMAIN Locations THEN Locations[geoname] ELSE Unknown

Country(format, mark) == IF format = "blocks" THEN FormatGeoLine(mark) ELSE mark

(* The lines network<TAB>country, each with the entry it comes from. *)
LinesOf(e, country) ==
  {[net |-> n, country |-> country, entry |-> e] : n \in RangeToCidrs(e.lo, e.hi)}
BuildGeoMap(blocks) == UNION {LinesOf(e, FormatGeoLine(e.mark)) : e \in blocks}
ConvertRangeCsv(rows) == UNION {LinesOf(e, e.mark) : e \in rows}

ToMap(format, entries) ==
  IF format = "blocks" THEN BuildGeoMap(entries) ELSE ConvertRangeCsv(entries)

MergeGeoMapContents(content1, content2) == content1 \cup content2

(* Networks of different versions share no addresses: one summary of both. *)
BuildBlocklist(content) ==
  Summary(UNION {Block(l.net) : l \in {x \in content : x.country \notin Allowed}})

(* The longest prefix wins; every line of a blocklist has the value 1. *)
IsIpBlocked(networks, ip) ==
  \E n \in networks : ip \in Block(n) /\ \A m \in networks :
    ip \in Block(m) => m.len <= n.len

(* Mutant: one anchor that is not blocked will do. *)
SomeAnchorFree(networks) == Anchors = {} \/ \E ip \in Anchors : ~IsIpBlocked(networks, ip)

ValidateAnchors(networks) == \A ip \in Anchors : ~IsIpBlocked(networks, ip)

BuildWhitelist == Private \cup Anchors

(* splitlines of a text, in which every second symbol is a newline, and    *)
(* "\n".join of a part of its lines.                                       *)
SplitLines(t) == [i \in 1..((Len(t) + 1) \div 2) |-> t[2 * i - 1]]
Join(ls) ==
  [i \in 1..(2 * Len(ls) - (IF ls = <<>> THEN 0 ELSE 1)) |->
     IF i % 2 = 1 THEN ls[(i + 1) \div 2] ELSE NL]
EndsWithNewline(t) == t # <<>> /\ Last(t) = NL

Text(networks) ==
  LET ls == SetToSeq(networks) IN IF ls = <<>> THEN <<>> ELSE Join(ls) \o <<NL>>

-----------------------------------------------------------------------------
(* Every attempt of the main download fails: the run ends with it. *)
DownloadFails ==
  /\ pc = "fetch"
  /\ pc' = "failed"
  /\ UNCHANGED <<config, received, lines, failOpen, list, text, file, chunk>>

FetchMain ==
  /\ pc = "fetch"
  /\ received' = source.main
  /\ lines' = ToMap(source.format, source.main)
  /\ pc' = IF source.ipv6Url THEN "ipv6" ELSE "build"
  /\ UNCHANGED <<config, failOpen, list, text, file, chunk>>

FetchIpv6 ==
  /\ pc = "ipv6"
  /\ received' = received \cup source.ipv6
  /\ lines' = MergeGeoMapContents(lines, ToMap(source.format, source.ipv6))
  /\ pc' = "build"
  /\ UNCHANGED <<config, failOpen, list, text, file, chunk>>

(* "continuing with IPv4 only", but only if the sources are blocks and     *)
(* locations; with a single CSV each the exception goes up.                *)
Ipv6Fails ==
  /\ pc = "ipv6"
  /\ pc' = IF source.format = "blocks" THEN "build" ELSE "failed"
  /\ UNCHANGED <<config, received, lines, failOpen, list, text, file, chunk>>

(* An empty list is too short as well: at least one line is wanted. *)
TooFew == Cardinality(lines) < MinEntries

(* Mutant: fail-open is reported and the short list used all the same. *)
BuiltAnyway(open) == BuildBlocklist(lines)

BlocklistContent(open) == IF open THEN {} ELSE BuildBlocklist(lines)

Build ==
  /\ pc = "build"
  /\ failOpen' = TooFew
  /\ list' = BlocklistContent(TooFew)
  /\ pc' = "validate"
  /\ UNCHANGED <<config, received, lines, text, file, chunk>>

(* What the size is compared with is not in this module. *)
SizeCheckFails ==
  /\ pc = "validate" /\ ~failOpen
  /\ pc' = "failed"
  /\ UNCHANGED <<config, received, lines, failOpen, list, text, file, chunk>>

AnchorCheckFails ==
  /\ pc = "validate" /\ ~ValidateAnchors(list)
  /\ pc' = "failed"
  /\ UNCHANGED <<config, received, lines, failOpen, list, text, file, chunk>>

OpenMap ==
  /\ pc = "validate" /\ ValidateAnchors(list)
  /\ text' = Text(list)
  /\ file' = <<>> /\ chunk' = 0
  /\ pc' = "write"
  /\ UNCHANGED <<config, received, lines, failOpen, list>>

WriteAtOnce ==
  /\ pc = "write" /\ chunkSize = 0
  /\ file' = text
  /\ pc' = "done"
  /\ UNCHANGED <<config, received, lines, failOpen, list, text, chunk>>

ChunkEnd(ls, i) == IF i + chunkSize < Len(ls) THEN i + chunkSize ELSE Len(ls)

(* Mutant: no newline between two chunks. *)
JoinedChunk(ls, i) == Join(SubSeq(ls, i + 1, ChunkEnd(ls, i)))

(* The lines from i on, and the newline between them and the next chunk. *)
Chunk(ls, i) ==
  Join(SubSeq(ls, i + 1, ChunkEnd(ls, i)))
    \o (IF i + chunkSize < Len(ls) THEN <<NL>> ELSE <<>>)

WriteChunk ==
  /\ pc = "write" /\ chunkSize > 0
  /\ chunk < Len(SplitLines(text))
  /\ file' = file \o Chunk(SplitLines(text), chunk)
  /\ chunk' = chunk + chunkSize
  /\ UNCHANGED <<config, pc, received, lines, failOpen, list, text>>

CloseMap ==
  /\ pc = "write" /\ chunkSize > 0
  /\ chunk >= Len(SplitLines(text))
  /\ file' = IF EndsWithNewline(text) THEN Append(file, NL) ELSE file
  /\ pc' = "done"
  /\ UNCHANGED <<config, received, lines, failOpen, list, text, chunk>>

Next ==
  \/ DownloadFails \/ FetchMain
  \/ FetchIpv6 \/ Ipv6Fails
  \/ Build
  \/ SizeCheckFails \/ AnchorCheckFails
  \/ OpenMap \/ WriteAtOnce \/ WriteChunk \/ CloseMap

Spec == Init /\ [][Next]_vars

-----------------------------------------------------------------------------
TypeOK ==
  /\ pc \in {"fetch", "ipv6", "build", "validate", "write", "done", "failed"}
  /\ source \in Sources /\ chunkSize \in ChunkSizes
  /\ received \subseteq source.main \cup source.ipv6
  /\ lines \subseteq ToMap(source.format, received)
  /\ failOpen \in BOOLEAN
  /\ list \subseteq Networks /\ (failOpen => list = {})
  /\ Range(file) \cup Range(text) \subseteq Networks \cup {NL}
  /\ chunk \in Nat

(* src,map_ip(geo_blocklist.map) and src,map_ip(whitelist.map) in HAProxy. *)
Denied(a) ==
  /\ \E i \in DOMAIN file : file[i] # NL /\ a \in Block(file[i])
  /\ a \notin BuildWhitelist

(* What the sources that answered say of an address, range by range. *)
Within(a, e) ==
  /\ a[1] = e.lo[1] /\ a[1] = e.hi[1]
  /\ \/ e.lo[2] <= a[2] /\ a[2] <= e.hi[2]
     \/ e.hi[2] <= a[2] /\ a[2] <= e.lo[2]
Foreign(a) == \E e \in received : Within(a, e) /\ Country(source.format, e.mark) \notin Allowed

(***************************************************************************)
(* build_geo_blocklist_map: "losslessly aggregated".  Whatever the sources *)
(* hold, in whatever order their ranges' ends are, and whichever of them   *)
(* fail: HAProxy denies an address exactly if a source that answered puts  *)
(* it into a country that is not allowed, unless it is whitelisted or      *)
(* the list is too short (fail-open).  Where ranges overlap, the denied    *)
(* country wins.                                                           *)
(***************************************************************************)
DeniedByCountry ==
  pc = "done" => \A a \in Addresses :
    Denied(a) <=> Foreign(a) /\ a \notin BuildWhitelist /\ ~failOpen

(***************************************************************************)
(* test_write_maps_chunked_same_result.  At every moment the file is the   *)
(* beginning of the text, and in the end it is the text, whatever the size *)
(* of the chunks: no two lines run together where chunks meet.             *)
(***************************************************************************)
FileIsText ==
  pc \in {"write", "done"} => IsPrefix(file, text) /\ (pc = "done" => file = text)

(***************************************************************************)
(* validate_anchors: "Every anchor IP must NOT be blocked by the blocklist *)
(* map".  The check looks at the longest prefix only; still no line that   *)
(* gets into the file holds an anchor, whatever the length of its prefix.  *)
(***************************************************************************)
AnchorsAreNotListed ==
  pc \in {"write", "done"} => \A ip \in Anchors, i \in DOMAIN file :
    file[i] # NL => ip \notin Block(file[i])
=============================================================================
