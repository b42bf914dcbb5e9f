---------------------------- MODULE GeoListsProofs ----------------------------
(***************************************************************************)
(* Theorems about GeoLists, for addresses of any length, and any sources,  *)
(* locations, countries, anchors and sizes of chunks.                      *)
(***************************************************************************)
EXTENDS GeoLists, FiniteSetTheorems, SequenceTheorems, TLAPS

(* Every set of naturals that is not empty has a least element.            *)
LEMMA LeastNatural ==
  ASSUME NEW T, T \subseteq Nat, T # {}
  PROVE  \E x \in T : \A y \in T : x <= y
<1>1. \E x \in T : \A y \in T : <<y, x>> \notin OpToRel(<, Nat)
  BY NatLessThanWellFounded, WFMin
<1>2. \A x \in T, y \in T : y < x => <<y, x>> \in OpToRel(<, Nat)
  BY DEF OpToRel
<1>3. \E x \in T : \A y \in T : ~(y < x)
  BY <1>1, <1>2
<1>. QED BY <1>3

-----------------------------------------------------------------------------
(* The powers of two up to the n-th.                                       *)
PowersUpTo(n) ==
  {g \in [0..n -> Nat] : \A k \in 0..n : g[k] = IF k = 0 THEN 1 ELSE 2 * g[k - 1]}

LEMMA PowersExist == \A n \in Nat : PowersUpTo(n) # {}
<1> DEFINE T == {n \in Nat : PowersUpTo(n) = {}}
<1> SUFFICES ASSUME T # {} PROVE FALSE
  OBVIOUS
<1>1. PICK n \in T : \A m \in T : n <= m
  BY LeastNatural
<1>2. CASE n = 0
  <2>1. [k \in 0..0 |-> 1] \in PowersUpTo(0)
    BY DEF PowersUpTo
  <2>. QED BY <1>2, <2>1
<1>3. CASE n # 0
  <2>1. n - 1 \in Nat /\ n - 1 \notin T
    BY <1>1, <1>3
  <2>2. PICK g : g \in PowersUpTo(n - 1)
    BY <2>1
  <2> DEFINE h == [k \in 0..n |-> IF k = 0 THEN 1 ELSE 2 * g[k - 1]]
  <2>3. \A k \in 0..(n - 1) : g[k] \in Nat /\ g[k] = IF k = 0 THEN 1 ELSE 2 * g[k - 1]
    BY <2>2 DEF PowersUpTo
  <2>4. h \in [0..n -> Nat]
    BY <2>1, <2>3
  <2>5. \A k \in 0..(n - 1) : h[k] = g[k]
    BY <2>1, <2>3
  <2>6. \A k \in 0..n : h[k] = IF k = 0 THEN 1 ELSE 2 * h[k - 1]
    <3>. TAKE k \in 0..n
    <3>1. k # 0 => k - 1 \in 0..(n - 1)
      BY <2>1
    <3>2. h[k] = IF k = 0 THEN 1 ELSE 2 * g[k - 1]
      OBVIOUS
    <3>3. k # 0 => h[k - 1] = g[k - 1]
      BY <2>5, <3>1
    <3>. QED BY <3>2, <3>3
  <2>7. h \in PowersUpTo(n)
    BY <2>4, <2>6 DEF PowersUpTo
  <2>. QED BY <2>7
<1>. QED BY <1>2, <1>3

LEMMA PowersAgree ==
  ASSUME NEW m \in Nat, NEW n \in Nat, NEW g \in PowersUpTo(m), NEW h \in PowersUpTo(n),
         NEW k \in Nat, k <= m, k <= n
  PROVE  g[k] = h[k]
<1> DEFINE T == {i \in Nat : i <= k /\ g[i] # h[i]}
<1>1. ASSUME T # {} PROVE FALSE
  <2>1. PICK i \in T : \A j \in T : i <= j
    BY <1>1, LeastNatural
  <2>2. /\ g[i] = IF i = 0 THEN 1 ELSE 2 * g[i - 1]
        /\ h[i] = IF i = 0 THEN 1 ELSE 2 * h[i - 1]
    BY <2>1 DEF PowersUpTo
  <2>3. i # 0 => g[i - 1] = h[i - 1]
    BY <2>1
  <2>. QED BY <2>1, <2>2, <2>3
<1>. QED BY <1>1

LEMMA Pow2Def == \A k \in Nat : Pow2[k] = IF k = 0 THEN 1 ELSE 2 * Pow2[k - 1]
<1> DEFINE upTo == [n \in Nat |-> CHOOSE g : g \in PowersUpTo(n)]
           f == [k \in Nat |-> upTo[k][k]]
<1>1. \A n \in Nat : upTo[n] \in PowersUpTo(n)
  BY PowersExist
<1> HIDE DEF upTo
<1>2. \A k \in Nat : f[k] = IF k = 0 THEN 1 ELSE 2 * f[k - 1]
  <2>. TAKE k \in Nat
  <2>1. f[k] = IF k = 0 THEN 1 ELSE 2 * upTo[k][k - 1]
    BY <1>1 DEF PowersUpTo
  <2>2. k # 0 => upTo[k][k - 1] = upTo[k - 1][k - 1]
    BY <1>1, PowersAgree
  <2>. QED BY <2>1, <2>2
<1>3. f = [k \in Nat |-> IF k = 0 THEN 1 ELSE 2 * f[k - 1]]
  BY <1>2
<1> HIDE DEF f
<1>4. Pow2 = [k \in Nat |-> IF k = 0 THEN 1 ELSE 2 * Pow2[k - 1]]
  BY <1>3 DEF Pow2
<1>. QED BY <1>4

LEMMA Pow2Type == \A k \in Nat : Pow2[k] \in Nat \ {0}
<1> DEFINE T == {k \in Nat : Pow2[k] \notin Nat \ {0}}
<1>1. ASSUME T # {} PROVE FALSE
  <2>1. PICK k \in T : \A j \in T : k <= j
    BY <1>1, LeastNatural
  <2>2. k # 0 => Pow2[k - 1] \in Nat \ {0}
    BY <2>1
  <2>. QED BY <2>1, <2>2, Pow2Def
<1>. QED BY <1>1

(* A shorter prefix leaves more addresses.                                 *)
LEMMA Pow2Grows == \A j, k \in Nat : j < k => Pow2[j] < Pow2[k]
<1> SUFFICES ASSUME NEW j \in Nat PROVE \A k \in Nat : j < k => Pow2[j] < Pow2[k]
  OBVIOUS
<1> DEFINE T == {k \in Nat : j < k /\ ~(Pow2[j] < Pow2[k])}
<1>1. ASSUME T # {} PROVE FALSE
  <2>1. PICK k \in T : \A i \in T : k <= i
    BY <1>1, LeastNatural
  <2>2. Pow2[j] <= Pow2[k - 1] /\ k - 1 \in Nat
    BY <2>1, Pow2Type
  <2>. QED BY <2>1, <2>2, Pow2Def, Pow2Type
<1>. QED BY <1>1

-----------------------------------------------------------------------------
Size(n) == Pow2[Bits[n.v] - n.len]

LEMMA NetworkType ==
  ASSUME NEW n \in Networks
  PROVE  /\ n.v \in DOMAIN Bits /\ Bits[n.v] \in Nat /\ n.len \in 0..Bits[n.v]
         /\ n.base \in Nat /\ Size(n) \in Nat \ {0}
         /\ n = [v |-> n.v, len |-> n.len, base |-> n.base]
         /\ Block(n) = {n.v} \X (n.base .. n.base + Size(n) - 1)
<1>1. PICK v \in DOMAIN Bits : \E l \in 0..Bits[v] : n \in NetworksOfLength(v, l)
  BY DEF Networks
<1>2. PICK l \in 0..Bits[v] : n \in NetworksOfLength(v, l)
  BY <1>1
<1>3. PICK k \in 0..(Pow2[l] - 1) : n = [v |-> v, len |-> l, base |-> k * Pow2[Bits[v] - l]]
  BY <1>2 DEF NetworksOfLength
<1>4. Bits[v] \in Nat /\ l \in Nat /\ Bits[v] - l \in Nat
  BY BitsAssumption
<1>5. Pow2[Bits[v] - l] \in Nat \ {0} /\ k \in Nat
  BY <1>4, Pow2Type
<1>6. k * Pow2[Bits[v] - l] \in Nat
  <2>1. \A i, j \in Nat : i * j \in Nat
    OBVIOUS
  <2>. QED BY <1>5, <2>1
<1>. QED BY <1>3, <1>4, <1>5, <1>6 DEF Size, Block

LEMMA AddressType ==
  ASSUME NEW a \in Addresses
  PROVE  /\ a[1] \in DOMAIN Bits /\ Bits[a[1]] \in Nat
         /\ a[2] \in 0..(Pow2[Bits[a[1]]] - 1) /\ a[2] \in Nat
         /\ a = <<a[1], a[2]>>
<1>1. PICK v \in DOMAIN Bits : a \in {v} \X (0..(Pow2[Bits[v]] - 1))
  BY DEF Addresses
<1>. QED BY <1>1, BitsAssumption, Pow2Type

(* Every address is a network of its own.                                  *)
LEMMA HostNetwork ==
  ASSUME NEW a \in Addresses
  PROVE  \E n \in Networks : Block(n) = {a}
<1> DEFINE v == a[1]
           n == [v |-> v, len |-> Bits[v], base |-> a[2] * Pow2[Bits[v] - Bits[v]]]
<1>1. v \in DOMAIN Bits /\ Bits[v] \in Nat /\ a[2] \in 0..(Pow2[Bits[v]] - 1) /\ a[2] \in Nat
      /\ a = <<v, a[2]>>
  BY AddressType
<1>2. Pow2[Bits[v] - Bits[v]] = 1
  BY <1>1, Pow2Def
<1>3. n \in NetworksOfLength(v, Bits[v])
  BY <1>1 DEF NetworksOfLength
<1>4. n \in Networks
  BY <1>1, <1>3 DEF Networks
<1>5. n.base = a[2] /\ Pow2[Bits[n.v] - n.len] = 1
  BY <1>1, <1>2
<1>6. Block(n) = {v} \X (a[2] .. a[2])
  BY <1>1, <1>5 DEF Block
<1>7. Block(n) = {a}
  BY <1>1, <1>6
<1>. QED BY <1>4, <1>7

(* A network within another of the same or a smaller size is the same.     *)
LEMMA NoSmallerCover ==
  ASSUME NEW n \in Networks, NEW m \in Networks, Block(n) \subseteq Block(m), n.len <= m.len
  PROVE  m = n
<1>1. /\ n.v \in DOMAIN Bits /\ Bits[n.v] \in Nat /\ n.len \in 0..Bits[n.v]
      /\ n.base \in Nat /\ Size(n) \in Nat \ {0}
      /\ n = [v |-> n.v, len |-> n.len, base |-> n.base]
      /\ Block(n) = {n.v} \X (n.base .. n.base + Size(n) - 1)
  BY NetworkType
<1>2. /\ m.len \in 0..Bits[m.v] /\ m.base \in Nat /\ Size(m) \in Nat \ {0}
      /\ m = [v |-> m.v, len |-> m.len, base |-> m.base]
      /\ Block(m) = {m.v} \X (m.base .. m.base + Size(m) - 1)
  BY NetworkType
<1>3. /\ n.base \in n.base .. n.base + Size(n) - 1
      /\ n.base + Size(n) - 1 \in n.base .. n.base + Size(n) - 1
  BY <1>1
<1>4. <<n.v, n.base>> \in Block(m) /\ <<n.v, n.base + Size(n) - 1>> \in Block(m)
  BY <1>1, <1>3
<1>5. n.v = m.v /\ m.base <= n.base /\ n.base + Size(n) - 1 <= m.base + Size(m) - 1
  BY <1>1, <1>2, <1>4
<1>6. m.len = n.len
  <2>1. SUFFICES ASSUME n.len < m.len PROVE FALSE
    BY <1>1, <1>2
  <2>2. /\ Bits[n.v] - m.len \in Nat /\ Bits[n.v] - n.len \in Nat
        /\ Bits[n.v] - m.len < Bits[n.v] - n.len
    BY <1>1, <1>2, <1>5, <2>1
  <2>3. Size(m) < Size(n)
    BY <1>5, <2>2, Pow2Grows DEF Size
  <2>. QED BY <1>1, <1>2, <1>5, <2>3
<1>7. Size(m) = Size(n)
  BY <1>5, <1>6 DEF Size
<1>8. m.base = n.base
  BY <1>1, <1>2, <1>5, <1>7
<1>. QED BY <1>1, <1>2, <1>5, <1>6, <1>8

(***************************************************************************)
(* What summarize_address_range and collapse_addresses give covers exactly *)
(* the addresses they were given: the largest network around an address    *)
(* that leaves none of the others out is the one with the shortest prefix. *)
(***************************************************************************)
LEMMA SummaryCovers ==
  ASSUME NEW A, A \subseteq Addresses
  PROVE  /\ Summary(A) \subseteq Networks
         /\ \A n \in Summary(A) : Block(n) \subseteq A
         /\ \A a \in A : \E n \in Summary(A) : a \in Block(n)
<1>1. Summary(A) \subseteq Networks /\ \A n \in Summary(A) : Block(n) \subseteq A
  BY DEF Summary
<1>2. ASSUME NEW a \in A PROVE \E n \in Summary(A) : a \in Block(n)
  <2> DEFINE around == {n \in Networks : a \in Block(n) /\ Block(n) \subseteq A}
             lens == {l \in Nat : \E n \in around : n.len = l}
  <2>1. \E n \in around : n.len \in lens
    <3>1. PICK n \in Networks : Block(n) = {a}
      BY HostNetwork
    <3>2. n.len \in Nat
      BY NetworkType
    <3>. QED BY <3>1, <3>2
  <2>2. PICK l \in lens : \A k \in lens : l <= k
    BY <2>1, LeastNatural
  <2>3. PICK n \in around : n.len = l
    BY <2>2
  <2>4. ASSUME NEW m \in Networks, Block(m) \subseteq A, Block(n) \subseteq Block(m)
        PROVE  m = n
    <3>1. m \in around /\ m.len \in Nat
      BY <2>3, <2>4, NetworkType
    <3>2. n.len <= m.len
      BY <2>2, <2>3, <3>1
    <3>. QED BY <2>3, <2>4, <3>2, NoSmallerCover
  <2>. QED BY <2>3, <2>4 DEF Summary
<1>. QED BY <1>1, <1>2

(* There are finitely many networks, so every list of them has a text.     *)
LEMMA NetworksFinite == IsFiniteSet(Networks)
<1>1. ASSUME NEW v \in DOMAIN Bits, NEW l \in 0..Bits[v]
      PROVE  IsFiniteSet(NetworksOfLength(v, l))
  <2> DEFINE K == 0..(Pow2[l] - 1)
             net(k) == [v |-> v, len |-> l, base |-> k * Pow2[Bits[v] - l]]
             f == [k \in K |-> net(k)]
  <2>1. IsFiniteSet(K)
    <3>1. l \in Nat /\ Pow2[l] - 1 \in Int
      BY <1>1, BitsAssumption, Pow2Type
    <3>. QED BY <3>1, FS_Interval
  <2>2. NetworksOfLength(v, l) = {net(k) : k \in K}
    BY DEF NetworksOfLength
  <2> HIDE DEF net
  <2>3. f \in Surjection(K, {net(k) : k \in K})
    BY DEF Surjection
  <2>. QED BY <2>1, <2>2, <2>3, FS_Surjection
<1>2. ASSUME NEW v \in DOMAIN Bits
      PROVE  IsFiniteSet(UNION {NetworksOfLength(v, l) : l \in 0..Bits[v]})
  <2> DEFINE L == 0..Bits[v]
             f == [l \in L |-> NetworksOfLength(v, l)]
  <2>1. IsFiniteSet(L)
    BY BitsAssumption, FS_Interval
  <2>2. f \in Surjection(L, {NetworksOfLength(v, l) : l \in L})
    BY DEF Surjection
  <2>3. IsFiniteSet({NetworksOfLength(v, l) : l \in L})
    BY <2>1, <2>2, FS_Surjection
  <2>. QED BY <1>1, <2>3, FS_UNION
<1> DEFINE nets(v) == UNION {NetworksOfLength(v, l) : l \in 0..Bits[v]}
           V == DOMAIN Bits
           g == [v \in V |-> nets(v)]
<1>3. IsFiniteSet(V)
  <2>1. IsFiniteSet({4} \cup {6})
    BY FS_Singleton, FS_Union
  <2>2. V \in SUBSET ({4} \cup {6})
    BY BitsAssumption
  <2>. QED BY <2>1, <2>2, FS_Subset
<1>4. Networks = UNION {nets(v) : v \in V}
  BY DEF Networks
<1>5. \A v \in V : IsFiniteSet(nets(v))
  BY <1>2
<1> HIDE DEF nets
<1>6. g \in Surjection(V, {nets(v) : v \in V})
  BY DEF Surjection
<1>7. IsFiniteSet({nets(v) : v \in V})
  BY <1>3, <1>6, FS_Surjection
<1>. QED BY <1>4, <1>5, <1>7, FS_UNION

-----------------------------------------------------------------------------
(* A range covers the addresses between its ends, whichever comes first.   *)
LEMMA RangeCovers ==
  ASSUME NEW e, e.lo \in Addresses, e.hi \in Addresses
  PROVE  /\ RangeToCidrs(e.lo, e.hi) \subseteq Networks
         /\ \A n \in RangeToCidrs(e.lo, e.hi) : Block(n) \subseteq Addresses
         /\ \A a \in Addresses :
              Within(a, e) <=> \E n \in RangeToCidrs(e.lo, e.hi) : a \in Block(n)
<1> DEFINE lo == e.lo
           hi == e.hi
<1>1. /\ \A a \in Addresses : a[2] \in Nat
      /\ lo[2] \in Nat /\ hi[2] \in Nat
  BY AddressType
<1>2. CASE lo[1] # hi[1]
  BY <1>2 DEF RangeToCidrs, Within
<1>3. CASE lo[1] = hi[1] /\ lo[2] > hi[2]
  <2>1. RangeToCidrs(lo, hi) = Summary(Between(hi, lo)) /\ Between(hi, lo) \subseteq Addresses
    BY <1>3 DEF RangeToCidrs, Between
  <2>2. \A a \in Addresses : Within(a, e) <=> a \in Between(hi, lo)
    BY <1>1, <1>3 DEF Within, Between
  <2>. QED BY <2>1, <2>2, SummaryCovers
<1>4. CASE lo[1] = hi[1] /\ ~(lo[2] > hi[2])
  <2>1. RangeToCidrs(lo, hi) = Summary(Between(lo, hi)) /\ Between(lo, hi) \subseteq Addresses
    BY <1>4 DEF RangeToCidrs, Between
  <2>2. \A a \in Addresses : Within(a, e) <=> a \in Between(lo, hi)
    BY <1>1, <1>4 DEF Within, Between
  <2>. QED BY <2>1, <2>2, SummaryCovers
<1>. QED BY <1>2, <1>3, <1>4

(* The lines of a source are those of its entries, with their countries.   *)
LEMMA LinesOfEntries ==
  ASSUME NEW format \in {"blocks", "csv"}, NEW entries
  PROVE  ToMap(format, entries) = UNION {LinesOf(e, Country(format, e.mark)) : e \in entries}
BY DEF ToMap, BuildGeoMap, ConvertRangeCsv, Country

(***************************************************************************)
(* The list that is built from the entries that arrived covers exactly the *)
(* addresses that one of them puts into a country that is not allowed.     *)
(***************************************************************************)
LEMMA BlocklistCovers ==
  ASSUME NEW format \in {"blocks", "csv"}, NEW entries,
         \A e \in entries : e.lo \in Addresses /\ e.hi \in Addresses
  PROVE  LET built == BuildBlocklist(ToMap(format, entries)) IN
         /\ built \subseteq Networks
         /\ \A a \in Addresses :
              (\E n \in built : a \in Block(n)) <=>
              \E e \in entries : Within(a, e) /\ Country(format, e.mark) \notin Allowed
<1> DEFINE content == ToMap(format, entries)
           foreign == {l \in content : l.country \notin Allowed}
           A == UNION {Block(l.net) : l \in foreign}
<1>1. \A l \in content : \E e \in entries :
        l.net \in RangeToCidrs(e.lo, e.hi) /\ l.country = Country(format, e.mark)
  BY LinesOfEntries DEF LinesOf
<1>2. \A e \in entries : \A n \in RangeToCidrs(e.lo, e.hi) :
        \E l \in content : l.net = n /\ l.country = Country(format, e.mark)
  <2>. SUFFICES ASSUME NEW e \in entries, NEW n \in RangeToCidrs(e.lo, e.hi)
       PROVE \E l \in content : l.net = n /\ l.country = Country(format, e.mark)
    OBVIOUS
  <2> DEFINE l == [net |-> n, country |-> Country(format, e.mark), entry |-> e]
  <2>1. l \in LinesOf(e, Country(format, e.mark))
    BY DEF LinesOf
  <2>2. l \in content
    BY <2>1, LinesOfEntries
  <2>. QED BY <2>2
<1> HIDE DEF content
<1>3. \A a \in Addresses :
        a \in A <=> \E e \in entries : Within(a, e) /\ Country(format, e.mark) \notin Allowed
  <2>. SUFFICES ASSUME NEW a \in Addresses
       PROVE a \in A <=> \E e \in entries : Within(a, e) /\ Country(format, e.mark) \notin Allowed
    OBVIOUS
  <2>1. ASSUME a \in A
        PROVE  \E e \in entries : Within(a, e) /\ Country(format, e.mark) \notin Allowed
    <3>1. PICK l \in foreign : a \in Block(l.net)
      BY <2>1
    <3>2. PICK e \in entries : l.net \in RangeToCidrs(e.lo, e.hi) /\ l.country = Country(format, e.mark)
      BY <1>1
    <3>. QED BY <3>1, <3>2, RangeCovers
  <2>2. ASSUME NEW e \in entries, Within(a, e), Country(format, e.mark) \notin Allowed
        PROVE  a \in A
    <3>1. PICK n \in RangeToCidrs(e.lo, e.hi) : a \in Block(n)
      BY <2>2, RangeCovers
    <3>2. PICK l \in content : l.net = n /\ l.country = Country(format, e.mark)
      BY <1>2
    <3>. QED BY <2>2, <3>1, <3>2
  <2>. QED BY <2>1, <2>2
<1>4. A \subseteq Addresses
  <2>1. \A l \in foreign : Block(l.net) \subseteq Addresses
    BY <1>1, RangeCovers
  <2>. QED BY <2>1
<1>5. BuildBlocklist(content) = Summary(A)
  BY DEF BuildBlocklist
<1> HIDE DEF A
<1>6. /\ Summary(A) \subseteq Networks
      /\ \A a \in Addresses : (\E n \in Summary(A) : a \in Block(n)) <=> a \in A
  BY <1>4, SummaryCovers
<1>. QED BY <1>3, <1>5, <1>6 DEF content

-----------------------------------------------------------------------------
Symbols == Networks \cup {NL}

(* Every place of a text belongs to a line or to a newline.                *)
LEMMA OddOrEven ==
  ASSUME NEW j \in Nat
  PROVE  \E k \in Nat : j = 2 * k - 1 \/ j = 2 * k
<1>1. \E k \in Int : j = 2 * k - 1 \/ j = 2 * k
  <2>1. (j + 1) \div 2 \in Int
    OBVIOUS
  <2>2. j = 2 * ((j + 1) \div 2) - 1 \/ j = 2 * ((j + 1) \div 2)
    BY SMTT(30)
  <2>. QED BY <2>1, <2>2
<1>. QED BY <1>1

LEMMA NewlineIsNoNetwork == NL \notin Networks
BY NetworkType, BitsAssumption DEF NL

(* The lines of a text are the networks of the list, one by one.           *)
LEMMA LinesAreNetworks ==
  ASSUME NEW networks \in SUBSET Networks
  PROVE  /\ SetToSeq(networks) \in Seq(networks)
         /\ \A n \in networks : \E i \in 1..Len(SetToSeq(networks)) : SetToSeq(networks)[i] = n
<1> DEFINE k == Cardinality(networks)
           ls == SetToSeq(networks)
<1>1. IsFiniteSet(networks)
  BY NetworksFinite, FS_Subset
<1>2. k \in Nat /\ ExistsBijection(1..k, networks)
  BY <1>1, FS_CardinalityType
<1>3. \E f \in [1..k -> networks] : IsInjective(f)
  BY <1>2 DEF ExistsBijection, Bijection, Injection
<1>4. ls \in [1..k -> networks] /\ IsInjective(ls)
  BY <1>3 DEF SetToSeq
<1>5. ls \in Injection(1..k, networks)
  BY <1>4 DEF Injection
<1>6. Cardinality(1..k) = k
  BY <1>2, FS_Interval
<1>7. ls \in Surjection(1..k, networks)
  BY <1>1, <1>5, <1>6, FS_Injection
<1>8. ls \in Seq(networks) /\ Len(ls) = k
  BY <1>2, <1>4
<1>. QED BY <1>7, <1>8 DEF Surjection

(* "\n".join: lines at the odd places, newlines at the even ones.          *)
LEMMA JoinIs ==
  ASSUME NEW ls \in Seq(Networks), ls # <<>>
  PROVE  /\ Join(ls) \in Seq(Symbols)
         /\ Len(ls) \in Nat \ {0}
         /\ Len(Join(ls)) = 2 * Len(ls) - 1
         /\ \A i \in 1..Len(ls) : Join(ls)[2 * i - 1] = ls[i]
         /\ \A i \in 1..(Len(ls) - 1) : Join(ls)[2 * i] = NL
<1>1. Len(ls) \in Nat \ {0} /\ \A i \in 1..Len(ls) : ls[i] \in Networks
  BY EmptySeq, ElementOfSeq
<1> DEFINE n == 2 * Len(ls) - 1
<1>2. n \in Nat
  BY <1>1
<1>3. Join(ls) = [i \in 1..n |-> IF i % 2 = 1 THEN ls[(i + 1) \div 2] ELSE NL]
  BY <1>1 DEF Join
<1>4. \A i \in 1..n : i % 2 = 1 => (i + 1) \div 2 \in 1..Len(ls)
  BY <1>1
<1>5. \A i \in 1..n : Join(ls)[i] \in Symbols
  BY <1>1, <1>3, <1>4 DEF Symbols
<1>6. Join(ls) \in [1..n -> Symbols]
  BY <1>3, <1>5
<1>7. Join(ls) \in Seq(Symbols) /\ Len(Join(ls)) = n
  BY <1>2, <1>6
<1>8. ASSUME NEW i \in 1..Len(ls) PROVE Join(ls)[2 * i - 1] = ls[i]
  <2>1. 2 * i - 1 \in 1..n /\ (2 * i - 1) % 2 = 1 /\ (2 * i) \div 2 = i
    BY <1>1
  <2>2. ((2 * i - 1) + 1) \div 2 = i
    BY <1>1
  <2>. QED BY <1>3, <2>1, <2>2
<1>9. ASSUME NEW i \in 1..(Len(ls) - 1) PROVE Join(ls)[2 * i] = NL
  <2>1. 2 * i \in 1..n /\ (2 * i) % 2 # 1
    BY <1>1
  <2>. QED BY <1>3, <2>1
<1>. QED BY <1>1, <1>7, <1>8, <1>9

(* A text is its lines, each with a newline behind it.                     *)
LEMMA TextIs ==
  ASSUME NEW networks \in SUBSET Networks
  PROVE  LET ls == SetToSeq(networks)
             t  == Text(networks)
         IN  /\ ls \in Seq(Networks) /\ Len(ls) \in Nat
             /\ t \in Seq(Symbols) /\ Len(t) = 2 * Len(ls)
             /\ \A i \in 1..Len(ls) : t[2 * i - 1] = ls[i] /\ t[2 * i] = NL
             /\ SplitLines(t) = ls
<1> DEFINE ls == SetToSeq(networks)
           t  == Text(networks)
<1>1. ls \in Seq(Networks)
  BY LinesAreNetworks, SeqMonotonic
<1> HIDE DEF ls
<1>2. Len(ls) \in Nat /\ ls \in [1..Len(ls) -> Networks]
  BY <1>1, LenProperties
<1>3. t = IF ls = <<>> THEN <<>> ELSE Join(ls) \o <<NL>>
  BY DEF Text, ls
<1>4. /\ t \in Seq(Symbols) /\ Len(t) = 2 * Len(ls)
      /\ \A i \in 1..Len(ls) : t[2 * i - 1] = ls[i] /\ t[2 * i] = NL
  <2>1. CASE ls = <<>>
    BY <1>3, <2>1
  <2>2. CASE ls # <<>>
    <3>1. <<NL>> \in Seq(Symbols) /\ Len(<<NL>>) = 1 /\ <<NL>>[1] = NL
      BY DEF Symbols
    <3>2. /\ Join(ls) \in Seq(Symbols) /\ Len(ls) \in Nat \ {0}
          /\ Len(Join(ls)) = 2 * Len(ls) - 1
          /\ \A i \in 1..Len(ls) : Join(ls)[2 * i - 1] = ls[i]
          /\ \A i \in 1..(Len(ls) - 1) : Join(ls)[2 * i] = NL
      BY <1>1, <2>2, JoinIs
    <3>3. /\ t \in Seq(Symbols) /\ Len(t) = 2 * Len(ls)
          /\ \A i \in 1..(2 * Len(ls)) :
               t[i] = IF i <= 2 * Len(ls) - 1 THEN Join(ls)[i] ELSE <<NL>>[i - (2 * Len(ls) - 1)]
      BY <1>3, <2>2, <3>1, <3>2, ConcatProperties
    <3>4. ASSUME NEW i \in 1..Len(ls) PROVE t[2 * i - 1] = ls[i] /\ t[2 * i] = NL
      <4>1. t[2 * i - 1] = ls[i]
        <5>1. 2 * i - 1 \in 1..(2 * Len(ls)) /\ 2 * i - 1 <= 2 * Len(ls) - 1
          BY <3>2
        <5>2. t[2 * i - 1] = Join(ls)[2 * i - 1]
          BY <3>3, <5>1
        <5>. QED BY <3>2, <5>2
      <4>2. CASE i < Len(ls)
        <5>1. /\ 2 * i \in 1..(2 * Len(ls)) /\ 2 * i <= 2 * Len(ls) - 1
              /\ i \in 1..(Len(ls) - 1)
          BY <3>2, <4>2
        <5>2. t[2 * i] = Join(ls)[2 * i]
          BY <3>3, <5>1
        <5>3. t[2 * i] = NL
          BY <3>2, <5>1, <5>2
        <5>. QED BY <4>1, <5>3
      <4>3. CASE i = Len(ls)
        BY <3>1, <3>2, <3>3, <4>3
      <4>. QED BY <3>2, <4>1, <4>2, <4>3
    <3>. QED BY <3>3, <3>4
  <2>. QED BY <2>1, <2>2
<1> HIDE DEF t
<1>5. SplitLines(t) = ls
  <2>. \A k \in Nat : (2 * k + 1) \div 2 = k
    OBVIOUS
  <2>1. (Len(t) + 1) \div 2 = Len(ls)
    BY <1>2, <1>4
  <2>2. SplitLines(t) = [i \in 1..Len(ls) |-> ls[i]]
    BY <1>2, <1>4, <2>1 DEF SplitLines
  <2>. QED BY <1>2, <2>2
<1>. QED BY <1>1, <1>2, <1>4, <1>5 DEF ls, t
-----------------------------------------------------------------------------
(***************************************************************************)
(* The inductive invariant.  DeniedByCountry speaks of the file and of     *)
(* what the sources hold; what is in between has to be said step by step:  *)
(* the lines are those of the entries that arrived, the list is made from  *)
(* the lines, the text from the list, and the file is the text as far as   *)
(* the chunks before the next one go.                                      *)
(***************************************************************************)
LinesInv ==
  /\ source \in Sources /\ chunkSize \in ChunkSizes
  /\ received \subseteq source.main \cup source.ipv6
  /\ lines = ToMap(source.format, received)

ListInv ==
  /\ list \subseteq Networks /\ (failOpen => list = {})
  /\ failOpen \in BOOLEAN
  /\ pc \in {"validate", "write", "done"} =>
       list = IF failOpen THEN {} ELSE BuildBlocklist(lines)

TextInv ==
  /\ text \in Seq(Symbols)
  /\ pc \in {"write", "done"} => text = Text(list)

(* The symbols of a text whose lines are ls that were written before the   *)
(* chunk that begins with line i: behind the last one there is no newline. *)
Written(ls, i) ==
  IF i < Len(ls) THEN 2 * i ELSE IF ls = <<>> THEN 0 ELSE 2 * Len(ls) - 1

(* The file is the first n symbols of the text t. *)
Begins(t, n) ==
  /\ n <= Len(t)
  /\ Len(file) = n
  /\ \A j \in 1..n : file[j] = t[j]

FileInv ==
  /\ chunk \in Nat /\ file \in Seq(Symbols)
  /\ pc = "write" => Begins(text, Written(SplitLines(text), chunk))
  /\ pc = "write" /\ chunkSize = 0 => chunk = 0
  /\ pc = "done" => file = text

AnchorsInv == pc \in {"write", "done"} => ValidateAnchors(list)

ControlInv == pc \in {"fetch", "ipv6", "build", "validate", "write", "done", "failed"}

Inv == ControlInv /\ LinesInv /\ ListInv /\ AnchorsInv /\ TextInv /\ FileInv

-----------------------------------------------------------------------------
(* What a text that is its lines, each with a newline behind it, says of   *)
(* the lines ls.                                                           *)
IsTextOf(t, ls) ==
  /\ ls \in Seq(Networks)
  /\ t \in Seq(Symbols) /\ Len(t) = 2 * Len(ls)
  /\ \A i \in 1..Len(ls) : t[2 * i - 1] = ls[i] /\ t[2 * i] = NL

(* A chunk is the piece of the text that comes next: with the newline      *)
(* behind its last line, unless that is the last line of all.              *)
LEMMA ChunkIs ==
  ASSUME NEW ls, NEW t, IsTextOf(t, ls), chunkSize \in Nat \ {0},
         NEW i \in Nat, i < Len(ls)
  PROVE  LET c == Chunk(ls, i)
             n == Written(ls, i + chunkSize) - 2 * i
         IN  /\ c \in Seq(Symbols) /\ n \in Nat /\ Len(c) = n
             /\ Written(ls, i) = 2 * i
             /\ Written(ls, i + chunkSize) <= Len(t)
             /\ \A j \in 1..n : c[j] = t[2 * i + j]
<1> DEFINE e == ChunkEnd(ls, i)
           part == SubSeq(ls, i + 1, e)
           J == Join(part)
           c == Chunk(ls, i)
           n == Written(ls, i + chunkSize) - 2 * i
<1>1. /\ ls \in Seq(Networks) /\ Len(ls) \in Nat \ {0} /\ ls # <<>>
      /\ t \in Seq(Symbols) /\ Len(t) = 2 * Len(ls)
      /\ \A k \in 1..Len(ls) : t[2 * k - 1] = ls[k] /\ t[2 * k] = NL
  BY DEF IsTextOf
<1>2. e \in (i + 1)..Len(ls) /\ (i + chunkSize < Len(ls) => e = i + chunkSize)
      /\ (~(i + chunkSize < Len(ls)) => e = Len(ls))
  BY <1>1 DEF ChunkEnd
<1> HIDE DEF e
<1>3. /\ part \in Seq(Networks) /\ Len(part) = e - i /\ part # <<>>
      /\ \A k \in 1..(e - i) : part[k] = ls[i + k]
  <2>1. part \in Seq(Networks)
    BY <1>1, <1>2, SubSeqProperties
  <2>2. Len(part) = e - i
    BY <1>1, <1>2, SubSeqProperties
  <2>3. \A k \in 1..(e - i) : part[k] = ls[i + k]
    BY <1>1, <1>2, SubSeqProperties
  <2>. QED BY <1>2, <2>1, <2>2, <2>3
<1> HIDE DEF part
<1>4. /\ J \in Seq(Symbols) /\ Len(J) = 2 * (e - i) - 1
      /\ \A k \in 1..(e - i) : J[2 * k - 1] = part[k]
      /\ \A k \in 1..(e - i - 1) : J[2 * k] = NL
  BY <1>3, JoinIs
<1>5. ASSUME NEW j \in 1..(2 * (e - i) - 1)
      PROVE  J[j] = t[2 * i + j]
  <2>. j \in Nat
    BY <1>2
  <2>1. PICK k \in Nat : j = 2 * k - 1 \/ j = 2 * k
    BY OddOrEven
  <2>2. k \in 1..(e - i) /\ (j = 2 * k => k \in 1..(e - i - 1))
    BY <1>2, <2>1
  <2>3. i + k \in 1..Len(ls) /\ 2 * (i + k) - 1 = 2 * i + (2 * k - 1) /\ 2 * (i + k) = 2 * i + 2 * k
    BY <1>1, <1>2, <2>2
  <2>4. CASE j = 2 * k - 1
    BY <1>1, <1>3, <1>4, <2>2, <2>3, <2>4
  <2>5. CASE j = 2 * k
    BY <1>1, <1>4, <2>2, <2>3, <2>5
  <2>. QED BY <2>1, <2>4, <2>5
<1>6. c = J \o (IF i + chunkSize < Len(ls) THEN <<NL>> ELSE <<>>)
  BY DEF Chunk, e, part
<1>7. Written(ls, i) = 2 * i
  BY DEF Written
<1> HIDE DEF J
<1>8. CASE i + chunkSize < Len(ls)
  <2>1. Written(ls, i + chunkSize) = 2 * e /\ n = 2 * (e - i)
    BY <1>1, <1>2, <1>8 DEF Written
  <2>2. <<NL>> \in Seq(Symbols) /\ Len(<<NL>>) = 1 /\ <<NL>>[1] = NL
    BY DEF Symbols
  <2>3. /\ c \in Seq(Symbols) /\ Len(c) = 2 * (e - i)
        /\ \A j \in 1..(2 * (e - i)) :
             c[j] = IF j <= 2 * (e - i) - 1 THEN J[j] ELSE <<NL>>[j - (2 * (e - i) - 1)]
    BY <1>2, <1>4, <1>6, <1>8, <2>2, ConcatProperties
  <2>4. ASSUME NEW j \in 1..(2 * (e - i)) PROVE c[j] = t[2 * i + j]
    <3>1. CASE j \in 1..(2 * (e - i) - 1)
      <4>1. c[j] = J[j]
        BY <2>3, <3>1
      <4>. QED BY <1>5, <3>1, <4>1
    <3>2. CASE j = 2 * (e - i)
      <4>1. j - (2 * (e - i) - 1) = 1 /\ 2 * i + j = 2 * e
        BY <1>2, <3>2
      <4>2. c[j] = NL
        BY <1>2, <2>2, <2>3, <3>2, <4>1
      <4>3. e \in 1..Len(ls)
        BY <1>1, <1>2
      <4>4. t[2 * e] = NL
        BY <1>1, <4>3
      <4>. QED BY <4>1, <4>2, <4>4
    <3>. QED BY <1>2, <3>1, <3>2
  <2>5. 2 * (e - i) \in Nat /\ 2 * e <= Len(t)
    BY <1>1, <1>2
  <2>. QED BY <1>7, <2>1, <2>3, <2>4, <2>5
<1>9. CASE ~(i + chunkSize < Len(ls))
  <2>1. Written(ls, i + chunkSize) = 2 * e - 1
    BY <1>1, <1>2, <1>9 DEF Written
  <2>2. n = 2 * (e - i) - 1 /\ n \in Nat /\ 2 * e - 1 <= Len(t)
    BY <1>1, <1>2, <2>1
  <2>3. c = J
    BY <1>4, <1>6, <1>9, ConcatEmptySeq
  <2>. QED BY <1>4, <1>5, <1>7, <2>1, <2>2, <2>3
<1>. QED BY <1>8, <1>9

-----------------------------------------------------------------------------
LEMMA SourceType ==
  ASSUME LinesInv
  PROVE  /\ source.format \in {"blocks", "csv"}
         /\ chunkSize \in Nat
         /\ \A e \in source.main \cup source.ipv6 : e.lo \in Addresses /\ e.hi \in Addresses
         /\ \A e \in received : e.lo \in Addresses /\ e.hi \in Addresses
BY SourcesAssumption, NumbersAssumption DEF LinesInv

(* In the text of the list every second symbol is a newline.               *)
LEMMA TextOfList ==
  ASSUME ListInv, TextInv, pc \in {"write", "done"}
  PROVE  /\ IsTextOf(text, SplitLines(text)) /\ Len(SplitLines(text)) \in Nat
         /\ SplitLines(text) = SetToSeq(list)
BY TextIs DEF ListInv, TextInv, IsTextOf

LEMMA InvInit == Init => Inv
<1>. SUFFICES ASSUME Init PROVE Inv
  OBVIOUS
<1>1. ControlInv /\ ListInv
  BY DEF Init, ControlInv, ListInv
<1>2. <<>> \in Seq(Symbols)
  BY EmptySeq
<1>3. TextInv /\ FileInv /\ AnchorsInv
  BY <1>2 DEF Init, TextInv, FileInv, AnchorsInv
<1>4. source \in Sources /\ received = {} /\ lines = {} /\ chunkSize \in ChunkSizes
  BY DEF Init
<1>5. ToMap(source.format, {}) = {}
  BY <1>4, SourcesAssumption, LinesOfEntries
<1>6. LinesInv
  BY <1>4, <1>5 DEF LinesInv
<1>. QED BY <1>1, <1>3, <1>6 DEF Inv

LEMMA LinesStep == Inv /\ Next => LinesInv'
<1>. SUFFICES ASSUME Inv, Next PROVE LinesInv'
  OBVIOUS
<1>. USE DEF Inv
<1>1. source.format \in {"blocks", "csv"}
  BY SourceType
<1>2. CASE FetchMain
  BY <1>2 DEF FetchMain, config, LinesInv
<1>3. CASE FetchIpv6
  <2>1. /\ received' = received \cup source.ipv6 /\ source' = source /\ chunkSize' = chunkSize
        /\ lines' = lines \cup ToMap(source.format, source.ipv6)
    BY <1>3 DEF FetchIpv6, config, MergeGeoMapContents
  <2>2. ToMap(source.format, received \cup source.ipv6)
          = ToMap(source.format, received) \cup ToMap(source.format, source.ipv6)
    BY <1>1, LinesOfEntries
  <2>. QED BY <2>1, <2>2 DEF LinesInv
<1>4. CASE UNCHANGED <<config, received, lines>>
  BY <1>4 DEF config, LinesInv
<1>5. Next => FetchMain \/ FetchIpv6 \/ UNCHANGED <<config, received, lines>>
  BY DEF Next, DownloadFails, FetchMain, FetchIpv6, Ipv6Fails, Build, SizeCheckFails,
         AnchorCheckFails, OpenMap, WriteAtOnce, WriteChunk, CloseMap
<1>. QED BY <1>2, <1>3, <1>4, <1>5

LEMMA ListStep == Inv /\ Next => ControlInv' /\ ListInv'
<1>. SUFFICES ASSUME Inv, Next PROVE ControlInv' /\ ListInv'
  OBVIOUS
<1>. USE DEF Inv
<1>1. ControlInv'
  BY DEF ControlInv, Next, DownloadFails, FetchMain, FetchIpv6, Ipv6Fails, Build, SizeCheckFails,
         AnchorCheckFails, OpenMap, WriteAtOnce, WriteChunk, CloseMap
<1>2. CASE Build
  <2>1. BuildBlocklist(lines) \subseteq Networks
    <3>1. \A e \in received : e.lo \in Addresses /\ e.hi \in Addresses
      BY SourceType
    <3>. QED BY <3>1, SourceType, BlocklistCovers DEF LinesInv
  <2>2. /\ failOpen' = TooFew /\ TooFew \in BOOLEAN /\ lines' = lines
        /\ list' = IF TooFew THEN {} ELSE BuildBlocklist(lines)
    BY <1>2 DEF Build, BlocklistContent, TooFew
  <2>. QED BY <1>1, <2>1, <2>2 DEF ListInv
<1>3. CASE UNCHANGED <<lines, failOpen, list>> /\ (pc' \in {"validate", "write", "done"} => pc \in {"validate", "write", "done"})
  BY <1>1, <1>3 DEF ListInv
<1>4. CASE UNCHANGED <<failOpen, list>> /\ pc' \notin {"validate", "write", "done"}
  BY <1>1, <1>4 DEF ListInv
<1>5. CASE FetchMain \/ FetchIpv6
  BY <1>4, <1>5 DEF FetchMain, FetchIpv6
<1>6. CASE DownloadFails \/ Ipv6Fails \/ SizeCheckFails \/ AnchorCheckFails
  BY <1>4, <1>6 DEF DownloadFails, Ipv6Fails, SizeCheckFails, AnchorCheckFails
<1>7. CASE OpenMap \/ WriteAtOnce \/ WriteChunk \/ CloseMap
  BY <1>3, <1>7 DEF OpenMap, WriteAtOnce, WriteChunk, CloseMap
<1>. QED BY <1>2, <1>5, <1>6, <1>7 DEF Next

LEMMA AnchorsStep == Inv /\ Next => AnchorsInv'
<1>. SUFFICES ASSUME Inv, Next PROVE AnchorsInv'
  OBVIOUS
<1>. USE DEF Inv
<1>1. CASE OpenMap
  BY <1>1 DEF OpenMap, AnchorsInv, ValidateAnchors, IsIpBlocked
<1>2. CASE WriteAtOnce \/ WriteChunk \/ CloseMap
  <2>1. list' = list /\ pc \in {"write", "done"}
    BY <1>2 DEF WriteAtOnce, WriteChunk, CloseMap
  <2>. QED BY <2>1 DEF AnchorsInv, ValidateAnchors, IsIpBlocked
<1>3. CASE DownloadFails \/ FetchMain \/ FetchIpv6 \/ Ipv6Fails \/ Build \/ SizeCheckFails \/ AnchorCheckFails
  <2>1. pc' \notin {"write", "done"}
    BY <1>3 DEF DownloadFails, FetchMain, FetchIpv6, Ipv6Fails, Build, SizeCheckFails, AnchorCheckFails
  <2>. QED BY <2>1 DEF AnchorsInv
<1>. QED BY <1>1, <1>2, <1>3 DEF Next

LEMMA TextStep == Inv /\ Next => TextInv'
<1>. SUFFICES ASSUME Inv, Next PROVE TextInv'
  OBVIOUS
<1>. USE DEF Inv
<1>1. CASE OpenMap
  <2>1. text' = Text(list) /\ list' = list
    BY <1>1 DEF OpenMap
  <2>2. Text(list) \in Seq(Symbols)
    BY TextIs DEF ListInv
  <2>. QED BY <2>1, <2>2 DEF TextInv
<1>2. CASE UNCHANGED <<list, text>> /\ (pc' \in {"write", "done"} => pc \in {"write", "done"})
  BY <1>2 DEF TextInv
<1>3. CASE UNCHANGED text /\ pc' \notin {"write", "done"}
  BY <1>3 DEF TextInv
<1>4. CASE DownloadFails \/ FetchMain \/ FetchIpv6 \/ Ipv6Fails \/ Build \/ SizeCheckFails \/ AnchorCheckFails
  BY <1>3, <1>4 DEF DownloadFails, FetchMain, FetchIpv6, Ipv6Fails, Build, SizeCheckFails, AnchorCheckFails
<1>5. CASE WriteAtOnce \/ WriteChunk \/ CloseMap
  BY <1>2, <1>5 DEF WriteAtOnce, WriteChunk, CloseMap
<1>. QED BY <1>1, <1>4, <1>5 DEF Next

LEMMA FileStep == Inv /\ Next => FileInv'
<1>. SUFFICES ASSUME Inv, Next PROVE FileInv'
  OBVIOUS
<1>. USE DEF Inv
<1>1. chunk \in Nat /\ chunkSize \in Nat /\ file \in Seq(Symbols) /\ text \in Seq(Symbols)
  BY SourceType DEF FileInv, TextInv
<1> DEFINE ls == SplitLines(text)
<1>2. CASE UNCHANGED <<file, text, chunk>> /\ pc' \notin {"write", "done"}
  BY <1>2 DEF FileInv
<1>3. CASE OpenMap
  <2>1. file' = <<>> /\ chunk' = 0 /\ pc' = "write"
    BY <1>3 DEF OpenMap
  <2>2. IsTextOf(text', SplitLines(text')) /\ Len(SplitLines(text')) \in Nat
    <3>1. ListInv' /\ TextInv'
      BY ListStep, TextStep
    <3>2. text' = Text(list') /\ list' \subseteq Networks
      BY <2>1, <3>1 DEF ListInv, TextInv
    <3>. QED BY <3>2, TextIs DEF IsTextOf
  <2>3. Written(SplitLines(text'), 0) = 0
    <3>1. SplitLines(text') \in Seq(Networks)
      BY <2>2 DEF IsTextOf
    <3>2. 0 < Len(SplitLines(text')) \/ SplitLines(text') = <<>>
      BY <2>2, <3>1, EmptySeq
    <3>. QED BY <3>2 DEF Written
  <2>4. Begins(text, Written(SplitLines(text), chunk))'
    <3>1. 0 <= Len(text')
      BY <2>2 DEF IsTextOf
    <3>. QED BY <2>1, <2>3, <3>1 DEF Begins
  <2>5. file' \in Seq(Symbols)
    BY <2>1
  <2>. QED BY <2>1, <2>4, <2>5 DEF FileInv
<1>4. CASE WriteAtOnce
  BY <1>1, <1>4 DEF WriteAtOnce, FileInv
<1>5. CASE WriteChunk
  <2> DEFINE n == Written(ls, chunk + chunkSize)
             c == Chunk(ls, chunk)
  <2>1. /\ pc = "write" /\ pc' = "write" /\ text' = text /\ chunkSize' = chunkSize
        /\ chunkSize \in Nat \ {0} /\ chunk < Len(ls)
        /\ file' = file \o c /\ chunk' = chunk + chunkSize
    BY <1>1, <1>5 DEF WriteChunk, config
  <2>2. IsTextOf(text, ls)
    BY <2>1, TextOfList
  <2>3. Begins(text, Written(ls, chunk))
    BY <2>1 DEF FileInv
  <2> HIDE DEF ls
  <2>4. /\ c \in Seq(Symbols) /\ n - 2 * chunk \in Nat /\ Len(c) = n - 2 * chunk
        /\ Written(ls, chunk) = 2 * chunk
        /\ n <= Len(text)
        /\ \A j \in 1..(n - 2 * chunk) : c[j] = text[2 * chunk + j]
    BY <1>1, <2>1, <2>2, ChunkIs
  <2>5. Len(file) = 2 * chunk /\ \A j \in 1..(2 * chunk) : file[j] = text[j]
    BY <2>3, <2>4 DEF Begins
  <2>6. n \in Nat
    <3>1. Len(ls) \in Nat
      BY <2>1, TextOfList DEF ls
    <3>. QED BY <1>1, <3>1 DEF Written
  <2> HIDE DEF c, n
  <2>7. /\ file' \in Seq(Symbols) /\ Len(file') = n
        /\ \A j \in 1..n : file'[j] = IF j <= 2 * chunk THEN file[j] ELSE c[j - 2 * chunk]
    <3>1. Len(file) + Len(c) = n
      BY <1>1, <2>4, <2>5, <2>6
    <3>2. /\ file \o c \in Seq(Symbols) /\ Len(file \o c) = n
          /\ \A j \in 1..n : (file \o c)[j] = IF j <= Len(file) THEN file[j] ELSE c[j - Len(file)]
      BY <1>1, <2>4, <3>1, ConcatProperties
    <3>. QED BY <2>1, <2>5, <3>2
  <2>8. \A j \in 1..n : file'[j] = text[j]
    <3>. TAKE j \in 1..n
    <3>1. CASE j <= 2 * chunk
      BY <1>1, <2>5, <2>7, <3>1
    <3>2. CASE ~(j <= 2 * chunk)
      <4>1. j - 2 * chunk \in 1..(n - 2 * chunk) /\ 2 * chunk + (j - 2 * chunk) = j
        BY <1>1, <2>4, <2>6, <3>2
      <4>2. c[j - 2 * chunk] = text[2 * chunk + (j - 2 * chunk)]
        BY <2>4, <4>1
      <4>. QED BY <2>7, <3>2, <4>1, <4>2
    <3>. QED BY <3>1, <3>2
  <2>9. Written(SplitLines(text), chunk)' = n
    BY <2>1 DEF n, ls
  <2>10. Begins(text, Written(SplitLines(text), chunk))'
    BY <2>1, <2>4, <2>7, <2>8, <2>9 DEF Begins
  <2>. QED BY <1>1, <2>1, <2>7, <2>10 DEF FileInv
<1>6. CASE CloseMap
  <2>1. /\ pc = "write" /\ pc' = "done" /\ text' = text /\ chunk' = chunk
        /\ chunk >= Len(ls)
        /\ file' = IF EndsWithNewline(text) THEN Append(file, NL) ELSE file
    BY <1>6 DEF CloseMap
  <2>2. IsTextOf(text, ls) /\ Len(ls) \in Nat
    BY <2>1, TextOfList
  <2>3. Begins(text, Written(ls, chunk))
    BY <2>1 DEF FileInv
  <2> HIDE DEF ls
  <2>4. /\ ls \in Seq(Networks) /\ Len(text) = 2 * Len(ls)
        /\ \A i \in 1..Len(ls) : text[2 * i] = NL
    BY <2>2 DEF IsTextOf
  <2>5. file' = text
    <3>1. CASE ls = <<>>
      <4>1. Len(text) = 0 /\ text = <<>>
        BY <1>1, <2>4, <3>1, EmptySeq
      <4>2. Len(file) = 0 /\ file = <<>>
        BY <1>1, <2>1, <2>2, <2>3, <3>1, EmptySeq DEF Written, Begins
      <4>. QED BY <2>1, <4>1, <4>2 DEF EndsWithNewline
    <3>2. CASE ls # <<>>
      <4>1. Len(ls) \in Nat \ {0}
        BY <2>2, <2>4, <3>2, EmptySeq
      <4>2. Written(ls, chunk) = 2 * Len(ls) - 1
        BY <1>1, <2>1, <3>2, <4>1 DEF Written
      <4>3. Len(file) = 2 * Len(ls) - 1 /\ \A j \in 1..(2 * Len(ls) - 1) : file[j] = text[j]
        BY <2>3, <4>2 DEF Begins
      <4>4. text[Len(text)] = NL /\ text # <<>>
        BY <2>4, <4>1
      <4>5. file' = Append(file, NL)
        BY <2>1, <4>4 DEF EndsWithNewline, Last
      <4>6. /\ file' \in Seq(Symbols) /\ Len(file') = 2 * Len(ls)
            /\ file'[2 * Len(ls)] = NL
            /\ \A j \in 1..(2 * Len(ls) - 1) : file'[j] = file[j]
        <5>1. NL \in Symbols
          BY DEF Symbols
        <5>. QED BY <1>1, <4>1, <4>3, <4>5, <5>1, AppendProperties
      <4>7. ASSUME NEW j \in 1..(2 * Len(ls)) PROVE file'[j] = text[j]
        <5>1. CASE j = 2 * Len(ls)
          BY <2>4, <4>4, <4>6, <5>1
        <5>2. CASE j \in 1..(2 * Len(ls) - 1)
          BY <4>3, <4>6, <5>2
        <5>. QED BY <4>1, <5>1, <5>2
      <4>. QED BY <1>1, <2>4, <4>6, <4>7, SeqEqual
    <3>. QED BY <3>1, <3>2
  <2>. QED BY <1>1, <2>1, <2>5 DEF FileInv
<1>7. CASE DownloadFails \/ FetchMain \/ FetchIpv6 \/ Ipv6Fails \/ Build \/ SizeCheckFails \/ AnchorCheckFails
  BY <1>2, <1>7 DEF DownloadFails, FetchMain, FetchIpv6, Ipv6Fails, Build, SizeCheckFails, AnchorCheckFails
<1>. QED BY <1>3, <1>4, <1>5, <1>6, <1>7 DEF Next

LEMMA Invariance == Spec => []Inv
<1>1. Inv /\ UNCHANGED vars => Inv'
  BY DEF vars, config, Inv, ControlInv, LinesInv, ListInv, TextInv, FileInv, Begins,
         AnchorsInv, ValidateAnchors, IsIpBlocked
<1>2. Inv /\ [Next]_vars => Inv'
  BY <1>1, LinesStep, ListStep, AnchorsStep, TextStep, FileStep DEF Inv
<1>. QED BY InvInit, <1>2, PTL DEF Spec

-----------------------------------------------------------------------------
(* The symbols of a text that are no newlines are the networks of the list. *)
LEMMA TextHolds ==
  ASSUME NEW networks \in SUBSET Networks
  PROVE  /\ \A i \in DOMAIN Text(networks) :
              Text(networks)[i] # NL => Text(networks)[i] \in networks
         /\ \A n \in networks : \E i \in DOMAIN Text(networks) :
              Text(networks)[i] = n /\ n # NL
<1> DEFINE ls == SetToSeq(networks)
           t  == Text(networks)
<1>1. /\ ls \in Seq(networks)
      /\ \A n \in networks : \E i \in 1..Len(ls) : ls[i] = n
  BY LinesAreNetworks
<1>2. /\ Len(ls) \in Nat /\ t \in Seq(Symbols) /\ Len(t) = 2 * Len(ls)
      /\ \A i \in 1..Len(ls) : t[2 * i - 1] = ls[i] /\ t[2 * i] = NL
  BY TextIs
<1> HIDE DEF ls, t
<1>3. DOMAIN t = 1..(2 * Len(ls))
  BY <1>2
<1>4. \A i \in 1..Len(ls) : ls[i] \in networks
  BY <1>1
<1>5. ASSUME NEW i \in DOMAIN t, t[i] # NL PROVE t[i] \in networks
  <2>1. i \in 1..(2 * Len(ls)) /\ i \in Nat
    BY <1>2, <1>3
  <2>2. PICK k \in Nat : i = 2 * k - 1 \/ i = 2 * k
    BY <2>1, OddOrEven
  <2>3. k \in 1..Len(ls)
    BY <1>2, <2>1, <2>2
  <2>. QED BY <1>2, <1>4, <1>5, <2>2, <2>3
<1>6. ASSUME NEW n \in networks PROVE \E i \in DOMAIN t : t[i] = n /\ n # NL
  <2>1. PICK i \in 1..Len(ls) : ls[i] = n
    BY <1>1
  <2>2. 2 * i - 1 \in DOMAIN t /\ t[2 * i - 1] = n
    BY <1>2, <1>3, <2>1
  <2>. QED BY <2>2, NewlineIsNoNetwork
<1>. QED BY <1>5, <1>6 DEF t

(* The longest of the networks that hold an address exists: if it is not   *)
(* there, no network holds the address.                                    *)
LEMMA NoLongestNone ==
  ASSUME NEW networks \in SUBSET Networks, NEW ip, ~IsIpBlocked(networks, ip)
  PROVE  \A n \in networks : ip \notin Block(n)
<1> DEFINE holding == {n \in networks : ip \in Block(n)}
           T == {Bits[n.v] - n.len : n \in holding}
<1>1. \A n \in holding : n.v = ip[1] /\ n.v \in DOMAIN Bits /\ n.len \in 0..Bits[n.v]
  BY NetworkType DEF Block
<1>2. T \subseteq Nat
  BY <1>1, BitsAssumption
<1>3. ASSUME holding # {} PROVE FALSE
  <2>1. T # {}
    BY <1>3
  <2>2. PICK x \in T : \A y \in T : x <= y
    BY <1>2, <2>1, LeastNatural
  <2>3. PICK n \in holding : x = Bits[n.v] - n.len
    BY <2>2
  <2>4. \A m \in holding : m.len <= n.len
    <3>. TAKE m \in holding
    <3>1. Bits[n.v] - n.len <= Bits[m.v] - m.len
      BY <2>2, <2>3
    <3>. QED BY <1>1, <3>1, BitsAssumption
  <2>. QED BY <2>4 DEF IsIpBlocked
<1>. QED BY <1>3

(***************************************************************************)
(* Every variable keeps its type, at every length of address and for all   *)
(* sources.                                                                *)
(***************************************************************************)
THEOREM TypeCorrect == Spec => []TypeOK
<1>1. Inv => TypeOK
  <2>. SUFFICES ASSUME Inv PROVE TypeOK
    OBVIOUS
  <2>1. DOMAIN file = 1..Len(file) /\ DOMAIN text = 1..Len(text)
        /\ (\A i \in 1..Len(file) : file[i] \in Symbols)
        /\ (\A i \in 1..Len(text) : text[i] \in Symbols)
    BY DEF Inv, TextInv, FileInv
  <2>2. Range(file) \cup Range(text) \subseteq Networks \cup {NL}
    BY <2>1 DEF Range, Symbols
  <2>. QED BY <2>2 DEF Inv, ControlInv, LinesInv, ListInv, FileInv, TypeOK
<1>. QED BY <1>1, Invariance, PTL

(***************************************************************************)
(* Losslessly aggregated: HAProxy denies exactly the addresses that a      *)
(* source which answered puts into a country that is not allowed.          *)
(***************************************************************************)
THEOREM DeniesByCountry == Spec => []DeniedByCountry
<1>1. Inv => DeniedByCountry
  <2>. SUFFICES ASSUME Inv, pc = "done", NEW a \in Addresses
       PROVE  Denied(a) <=> Foreign(a) /\ a \notin BuildWhitelist /\ ~failOpen
    BY DEF DeniedByCountry
  <2> DEFINE listed == \E n \in list : a \in Block(n)
  <2>1. /\ list \in SUBSET Networks /\ failOpen \in BOOLEAN /\ file = Text(list)
        /\ list = IF failOpen THEN {} ELSE BuildBlocklist(ToMap(source.format, received))
    BY DEF Inv, ListInv, TextInv, FileInv, LinesInv
  <2>2. (\E i \in DOMAIN file : file[i] # NL /\ a \in Block(file[i])) <=> listed
    BY <2>1, TextHolds
  <2>3. ~failOpen => (listed <=> Foreign(a))
    <3>1. \A e \in received : e.lo \in Addresses /\ e.hi \in Addresses
      BY SourceType DEF Inv
    <3>2. source.format \in {"blocks", "csv"}
      BY SourceType DEF Inv
    <3>3. (\E n \in BuildBlocklist(ToMap(source.format, received)) : a \in Block(n)) <=> Foreign(a)
      BY <3>1, <3>2, BlocklistCovers DEF Foreign
    <3>. QED BY <2>1, <3>3
  <2>4. failOpen => ~listed
    BY <2>1
  <2>. QED BY <2>2, <2>3, <2>4 DEF Denied
<1>. QED BY <1>1, Invariance, PTL

(***************************************************************************)
(* Whatever the size of the chunks, the file is a beginning of the text    *)
(* while it is written, and the text when it is closed.                    *)
(***************************************************************************)
THEOREM WritesText == Spec => []FileIsText
<1>1. Inv => FileIsText
  <2>. SUFFICES ASSUME Inv, pc \in {"write", "done"}
       PROVE  IsPrefix(file, text) /\ (pc = "done" => file = text)
    BY DEF FileIsText
  <2>1. file \in Seq(Symbols) /\ text \in Seq(Symbols) /\ Len(file) \in Nat
    BY DEF Inv, FileInv, TextInv
  <2>2. CASE pc = "write"
    <3>1. Len(file) <= Len(text) /\ \A j \in 1..Len(file) : file[j] = text[j]
      BY <2>2 DEF Inv, FileInv, Begins
    <3>2. SubSeq(file, 1, Len(file)) = SubSeq(text, 1, Len(file))
      BY <2>1, <3>1
    <3>. QED BY <2>2, <3>1, <3>2 DEF IsPrefix
  <2>3. CASE pc = "done"
    <3>1. file = text
      BY <2>3 DEF Inv, FileInv
    <3>. QED BY <2>1, <3>1 DEF IsPrefix
  <2>. QED BY <2>2, <2>3
<1>. QED BY <1>1, Invariance, PTL

(***************************************************************************)
(* No line of the file holds an anchor, at any moment of its writing.      *)
(***************************************************************************)
THEOREM AnchorsStayOut == Spec => []AnchorsAreNotListed
<1>1. Inv => AnchorsAreNotListed
  <2>. SUFFICES ASSUME Inv, pc \in {"write", "done"}, NEW ip \in Anchors,
                       NEW i \in DOMAIN file, file[i] # NL
       PROVE  ip \notin Block(file[i])
    BY DEF AnchorsAreNotListed
  <2>1. list \in SUBSET Networks /\ text = Text(list) /\ ValidateAnchors(list)
    BY DEF Inv, ListInv, TextInv, AnchorsInv
  <2>2. i \in DOMAIN text /\ file[i] = text[i]
    <3>1. file \in Seq(Symbols) /\ text \in Seq(Symbols)
      BY DEF Inv, FileInv, TextInv
    <3>. QED BY <3>1 DEF Inv, FileInv, Begins
  <2>3. file[i] \in list
    BY <2>1, <2>2, TextHolds
  <2>4. \A n \in list : ip \notin Block(n)
    BY <2>1, NoLongestNone DEF ValidateAnchors
  <2>. QED BY <2>3, <2>4
<1>. QED BY <1>1, Invariance, PTL
=============================================================================
