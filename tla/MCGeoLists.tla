------------------------------ MODULE MCGeoLists ------------------------------
(* Instances of GeoLists for TLC. *)
EXTENDS GeoLists, TLC

EightAndFour == 4 :> 3 @@ 6 :> 2
V4(n) == <<4, n>>
V6(n) == <<6, n>>

Entry(lo, hi, mark) == [lo |-> lo, hi |-> hi, mark |-> mark]

(* Every range of a CSV, either way round, next to one of another country  *)
(* that it may overlap; an IPv6 source that is not configured, empty, or with one  *)
(* range, one of them across versions.                                     *)
CsvSources == {
  [format |-> "csv",
   main |-> {Entry(V4(x), V4(y), c), Entry(V4(3), V4(5), d)},
   ipv6Url |-> u, ipv6 |-> z] :
     x \in 0..7, y \in 0..7, c \in {"DE", "US"}, d \in {"DE", "US"},
     u \in BOOLEAN, z \in {{}, {Entry(V6(1), V6(3), "US")}, {Entry(V4(1), V6(3), "US")}}}

(* Blocks are networks; the third geoname id has no location.              *)
Ids == {"id1", "id2", "id3"}
BlockSources == {
  [format |-> "blocks",
   main |-> {Entry(V4(0), V4(3), g), Entry(V4(4), V4(5), h), Entry(V4(6), V4(6), i)},
   ipv6Url |-> TRUE,
   ipv6 |-> {Entry(V6(0), V6(1), j), Entry(V6(2), V6(3), g)}] :
     g \in Ids, h \in Ids, i \in Ids, j \in Ids}

AllSources == CsvSources \cup BlockSources
TwoLocations == "id1" :> "DE" @@ "id2" :> "US"
OnlyDE == {"DE"}
OneOfEach == {V4(6), V6(0)}
OnePrivate == {V4(1)}
=============================================================================
