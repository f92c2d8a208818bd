---------------------------- MODULE PleCacheProofs ----------------------------
(***************************************************************************)
(* The page cache, proved for any pages, hash, sets and ways, any workers, *)
(* row lists and tile, any finite set of readers, and any bound on the     *)
(* gathers, the prefetches and the failed reads.                           *)
(***************************************************************************)
EXTENDS PleCache, TLAPS, FiniteSetTheorems, WellFoundedInduction

-----------------------------------------------------------------------------
(* Numbers and finite sets. *)

\* A nonempty set of naturals has a least element.
LEMMA LeastOf == ASSUME NEW T, T \subseteq Nat, T # {} PROVE \E x \in T : \A y \in T : x <= y
<1> DEFINE R == OpToRel(<, Nat)
<1>1. IsWellFoundedOn(R, Nat)
  BY NatLessThanWellFounded
<1>2. \A x, y \in Nat : x < y => <<x, y>> \in R
  BY DEF OpToRel
<1> HIDE DEF R
<1>3. PICK x \in T : \A y \in T : ~(<<y, x>> \in R)
  BY <1>1, WFMin
<1>4. \A y \in T : ~(y < x)
  BY <1>2, <1>3
<1>5. \A y \in T : x <= y
  BY <1>4
<1> QED BY <1>5

\* A nonempty set of naturals with a bound has a greatest one.
LEMMA GreatestOf ==
  ASSUME NEW n \in Nat, NEW T, T \subseteq 0..n, T # {} PROVE \E x \in T : \A y \in T : y <= x
<1> DEFINE U == {n - x : x \in T}
<1>1. U \subseteq Nat /\ U # {}
  <2>1. ASSUME NEW x \in T PROVE n - x \in Nat
    <3>1. x \in 0..n
      OBVIOUS
    <3> QED BY <3>1
  <2> QED BY <2>1
<1> HIDE DEF U
<1>2. PICK u \in U : \A v \in U : u <= v
  BY <1>1, LeastOf
<1>3. PICK x \in T : u = n - x
  BY <1>2 DEF U
<1>4. ASSUME NEW y \in T PROVE y <= x
  <2>1. n - y \in U
    BY DEF U
  <2>2. n - x <= n - y
    BY <1>2, <1>3, <2>1
  <2>3. x \in Nat /\ y \in Nat
    BY <1>3
  <2> QED BY <2>2, <2>3
<1> QED BY <1>4

\* A set with 0 in it that is closed under successor up to n has all of 0..n.
LEMMA CountUp ==
  ASSUME NEW N \in Nat, NEW T, 0 \in T, \A i \in 1..N : i - 1 \in T => i \in T
  PROVE  \A i \in 0..N : i \in T
<1> DEFINE B == {i \in 0..N : i \notin T}
<1>1. SUFFICES ASSUME B # {} PROVE FALSE
  OBVIOUS
<1>2. PICK x \in B : \A y \in B : x <= y
  <2>1. B \subseteq Nat
    OBVIOUS
  <2> HIDE DEF B
  <2> QED BY <1>1, <2>1, LeastOf
<1>3. x # 0 /\ x \in 0..N /\ x \notin T
  BY <1>2
<1>4. x \in 1..N /\ x - 1 \in 0..N /\ x - 1 < x
  BY <1>3
<1>5. x - 1 \in T
  BY <1>2, <1>4
<1> QED BY <1>3, <1>4, <1>5


\* Max and Min of a set of naturals are in it, if it is bounded.
LEMMA MaxIn ==
  ASSUME NEW n \in Nat, NEW T, T \subseteq 0..n, T # {} PROVE Max(T) \in T /\ \A y \in T : y <= Max(T)
<1>1. PICK x \in T : \A y \in T : y <= x
  BY GreatestOf
<1>2. x \in T /\ \A y \in T : x >= y
  BY <1>1
<1> QED BY <1>2 DEF Max

LEMMA MinIn == ASSUME NEW T, T \subseteq Nat, T # {} PROVE Min(T) \in T /\ \A y \in T : Min(T) <= y
<1>1. PICK x \in T : \A y \in T : x <= y
  BY LeastOf
<1> QED BY <1>1 DEF Min

LEMMA MinPair ==
  ASSUME NEW a \in Nat, NEW b \in Nat
  PROVE  /\ Min({a, b}) \in Nat /\ Min({a, b}) <= a /\ Min({a, b}) <= b
         /\ \A n \in Nat : n < Min({a, b}) <=> n < a /\ n < b
<1>1. Min({a, b}) \in {a, b} /\ \A y \in {a, b} : Min({a, b}) <= y
  <2>1. {a, b} \subseteq Nat /\ {a, b} # {}
    OBVIOUS
  <2> QED BY <2>1, MinIn
<1> QED BY <1>1

LEMMA MaxZero == ASSUME NEW a \in Nat, NEW b \in Nat, b <= a PROVE Max({0, a - b}) = a - b
<1>1. {0, a - b} \subseteq 0..a /\ {0, a - b} # {}
  OBVIOUS
<1>2. Max({0, a - b}) \in {0, a - b} /\ \A y \in {0, a - b} : y <= Max({0, a - b})
  BY <1>1, MaxIn
<1> QED BY <1>2

\* A one-to-one image has the size of the set.
LEMMA Renamed ==
  ASSUME NEW S, NEW T, NEW f \in [S -> T], IsFiniteSet(S),
         \A x, y \in S : f[x] = f[y] => x = y, \A t \in T : \E x \in S : f[x] = t
  PROVE  IsFiniteSet(T) /\ Cardinality(T) = Cardinality(S)
<1>1. f \in Injection(S, T) /\ f \in Surjection(S, T)
  BY DEF Injection, Surjection, IsInjective
<1>2. ExistsBijection(S, T)
  BY <1>1 DEF ExistsBijection, Bijection
<1> QED BY <1>2, FS_Bijection

LEMMA DisjointUnion ==
  ASSUME NEW S, NEW T, IsFiniteSet(S), IsFiniteSet(T), S \cap T = {}
  PROVE  IsFiniteSet(S \cup T) /\ Cardinality(S \cup T) = Cardinality(S) + Cardinality(T)
<1>1. Cardinality(S) \in Nat /\ Cardinality(T) \in Nat /\ Cardinality(S \cap T) = 0
  BY FS_CardinalityType, FS_EmptySet
<1>2. IsFiniteSet(S \cup T) /\ Cardinality(S \cup T) = Cardinality(S) + Cardinality(T) - Cardinality(S \cap T)
  BY FS_Union
<1> QED BY <1>1, <1>2

LEMMA PartRemoved ==
  ASSUME NEW S, NEW T, IsFiniteSet(S), T \subseteq S
  PROVE  /\ IsFiniteSet(S \ T) /\ IsFiniteSet(T) /\ Cardinality(T) <= Cardinality(S)
         /\ Cardinality(S \ T) = Cardinality(S) - Cardinality(T)
<1>1. IsFiniteSet(T) /\ Cardinality(T) <= Cardinality(S)
  BY FS_Subset
<1>2. S \cap T = T
  OBVIOUS
<1>3. IsFiniteSet(S \ T) /\ Cardinality(S \ T) = Cardinality(S) - Cardinality(S \cap T)
  BY FS_Difference
<1> QED BY <1>1, <1>2, <1>3

-----------------------------------------------------------------------------
(* The layout and the order of the slots. *)

LEMMA Layout ==
  /\ Sets * Ways \in Nat \ {0} /\ Slots \subseteq 1..(Sets * Ways) /\ IsFiniteSet(Slots)
  /\ Cardinality(Slots) = Sets * Ways /\ NoSlot \notin Slots
  /\ \A p \in Pages : WaysOf(p) \subseteq Slots
<1>1. Sets \in Nat /\ Ways \in Nat /\ Sets >= 1 /\ Ways >= 1
  BY LayoutKnown
<1>2. Sets * Ways \in Nat /\ Sets * Ways >= 1
  BY <1>1
<1>3. ASSUME NEW p \in Pages PROVE WaysOf(p) \subseteq Slots
  <2> DEFINE k == SetOf[p]
  <2>1. k \in Nat /\ 1 <= k /\ k <= Sets
    BY LayoutKnown
  <2> HIDE DEF k
  <2>2. k * Ways \in Nat /\ (k - 1) * Ways \in Nat /\ (Sets - k) * Ways \in Nat
    <3>1. k - 1 \in Nat /\ Sets - k \in Nat
      BY <1>1, <2>1
    <3> QED BY <1>1, <2>1, <3>1
  <2>3. Sets * Ways = k * Ways + (Sets - k) * Ways
    BY <1>1, <2>1
  <2>4. k * Ways <= Sets * Ways
    BY <1>2, <2>2, <2>3
  <2>5. WaysOf(p) = ((k - 1) * Ways + 1)..(k * Ways)
    BY DEF WaysOf, k
  <2> DEFINE lo == (k - 1) * Ways
             hi == k * Ways
             all == Sets * Ways
  <2>6. lo \in Nat /\ hi <= all /\ hi \in Nat /\ all \in Nat /\ WaysOf(p) = (lo + 1)..hi /\ Slots = 1..all
    BY <1>2, <2>2, <2>4, <2>5 DEF Slots
  <2> HIDE DEF lo, hi, all
  <2> QED BY <2>6
<1>4. IsFiniteSet(1..(Sets * Ways)) /\ Cardinality(1..(Sets * Ways)) = Sets * Ways
  <2> DEFINE all == Sets * Ways
  <2>1. all \in Nat /\ all >= 1 /\ all \in Int /\ 1 \in Int
    BY <1>2
  <2> HIDE DEF all
  <2>2. IsFiniteSet(1..all) /\ Cardinality(1..all) = IF 1 > all THEN 0 ELSE all - 1 + 1
    BY <2>1, FS_Interval
  <2>3. IsFiniteSet(1..all) /\ Cardinality(1..all) = all
    BY <2>1, <2>2
  <2> QED BY <2>3 DEF all
<1> QED BY <1>2, <1>3, <1>4 DEF Slots, NoSlot

\* The orders of the slots.
Orders == {o \in [Slots -> Slots] : \A s \in Slots : \E i \in Slots : o[i] = s}

LEMMA LenOf == ASSUME NEW n \in Nat, NEW S, NEW o \in [1..n -> S] PROVE o \in Seq(S) /\ Len(o) = n
<1>1. o \in Seq(S)
  OBVIOUS
<1>2. Len(o) \in Nat /\ DOMAIN o = 1..Len(o) /\ DOMAIN o = 1..n
  BY <1>1
<1>3. Len(o) = n
  BY <1>2
<1> QED BY <1>1, <1>3

LEMMA TouchKeeps == ASSUME NEW o \in Orders, NEW s \in Slots PROVE Touch(o, s) \in Orders
<1> DEFINE all == Sets * Ways
<1>1. all \in Nat /\ all >= 1 /\ Slots = 1..all
  BY Layout DEF Slots
<1> HIDE DEF all
<1>2. o \in [1..all -> Slots] /\ DOMAIN o = 1..all /\ Len(o) = all
  <2>1. o \in [1..all -> Slots]
    BY <1>1 DEF Orders
  <2> QED BY <1>1, <2>1, LenOf
<1> DEFINE at == CHOOSE i \in DOMAIN o : o[i] = s
           v(i) == CASE i < at -> o[i] [] i = all -> s [] OTHER -> o[i + 1]
<1>3. at \in 1..all /\ o[at] = s
  <2>1. \E i \in DOMAIN o : o[i] = s
    BY <1>1, <1>2 DEF Orders
  <2> QED BY <1>2, <2>1
<1>4. Touch(o, s) = [i \in 1..all |-> v(i)]
  BY <1>2 DEF Touch
<1> HIDE DEF at
<1>5. ASSUME NEW i \in 1..all
      PROVE  v(i) \in Slots /\ (i < at => v(i) = o[i]) /\ (i = all => v(i) = s) /\ (i >= at /\ i < all => v(i) = o[i + 1])
  <2>1. CASE i < at
    BY <1>1, <1>2, <1>3, <2>1
  <2>2. CASE i >= at /\ i = all
    BY <1>1, <1>2, <1>3, <2>2
  <2>3. CASE i >= at /\ i < all
    <3>1. i + 1 \in 1..all
      BY <1>1, <2>3
    <3> QED BY <1>1, <1>2, <1>3, <2>3, <3>1
  <2> QED BY <1>1, <1>3, <2>1, <2>2, <2>3
<1> DEFINE t == [i \in 1..all |-> v(i)]
<1>6. t \in [Slots -> Slots] /\ \A i \in 1..all : t[i] = v(i)
  BY <1>1, <1>5
<1> HIDE DEF v, t
<1>7. ASSUME NEW x \in Slots PROVE \E i \in Slots : t[i] = x
  <2>1. CASE x = s
    <3>1. all \in 1..all /\ t[all] = s
      BY <1>1, <1>5, <1>6
    <3> QED BY <1>1, <2>1, <3>1
  <2>2. CASE x # s
    <3>1. PICK j \in 1..all : o[j] = x
      BY <1>1 DEF Orders
    <3>2. j # at
      BY <1>3, <2>2, <3>1
    <3>3. CASE j < at
      BY <1>1, <1>5, <1>6, <3>1, <3>3
    <3>4. CASE j > at
      <4>1. j - 1 \in 1..all /\ j - 1 >= at /\ j - 1 < all /\ (j - 1) + 1 = j
        BY <1>1, <1>3, <3>4
      <4>2. t[j - 1] = o[j]
        BY <1>5, <1>6, <4>1
      <4> QED BY <1>1, <3>1, <4>1, <4>2
    <3> QED BY <1>1, <1>3, <3>2, <3>3, <3>4
  <2> QED BY <2>1, <2>2
<1>8. Touch(o, s) = t
  BY <1>4 DEF t
<1> QED BY <1>6, <1>7, <1>8 DEF Orders

\* What TypeOK says of an order.
LEMMA OrderFacts ==
  ASSUME NEW o \in Orders PROVE Len(o) = Cardinality(Slots) /\ ToSet(o) = Slots /\ DOMAIN o = Slots
<1> DEFINE all == Sets * Ways
<1>1. all \in Nat /\ all >= 1 /\ Slots = 1..all /\ Cardinality(Slots) = all
  BY Layout DEF Slots
<1> HIDE DEF all
<1>2. o \in [1..all -> Slots] /\ DOMAIN o = 1..all /\ Len(o) = all
  <2>1. o \in [1..all -> Slots]
    BY <1>1 DEF Orders
  <2> QED BY <1>1, <2>1, LenOf
<1>3. ToSet(o) = Slots
  BY <1>1, <1>2 DEF Orders, ToSet
<1> QED BY <1>1, <1>2, <1>3

-----------------------------------------------------------------------------
(* Rows. *)

RowSet == {<<p>> : p \in Pages} \cup Pages \X Pages

LEMMA RowFacts ==
  ASSUME NEW row \in RowSet
  PROVE  /\ Len(row) \in {1, 2} /\ DOMAIN row = 1..Len(row) /\ row[1] \in Pages
         /\ Len(row) = 2 => row[2] \in Pages
<1>1. CASE row \in {<<p>> : p \in Pages}
  <2>1. PICK p \in Pages : row = <<p>>
    BY <1>1
  <2> QED BY <2>1
<1>2. CASE row \in Pages \X Pages
  <2>1. PICK p \in Pages, q \in Pages : row = <<p, q>>
    BY <1>2
  <2> QED BY <2>1
<1> QED BY <1>1, <1>2 DEF RowSet

-----------------------------------------------------------------------------
(* Counting references. *)

On(h, s) == {l \in h : l.slot = s}
Kept(rc) == rc.tile \cup rc.got
Pairs(r, X) == {<<r, l>> : l \in X}
Triples(r, i, X) == {<<r, i, l>> : l \in X}

\* Filling, InFlight and Awaiting, of any readers and streams.
FillSet(rd, s) == UNION {Pairs(r, On(Kept(rd[r]), s)) : r \in Readers}
FlightSet(st, s) == UNION {UNION {Triples(r, i, On(st[r][i], s)) : i \in DOMAIN st[r]} : r \in Readers}
AwaitSet(rd, s) == {r \in Readers : rd[r].want = s}

LEMMA SetsAre ==
  ASSUME NEW s
  PROVE  Filling(s) = FillSet(reader, s) /\ InFlight(s) = FlightSet(stream, s) /\ Awaiting(s) = AwaitSet(reader, s)
BY DEF Filling, InFlight, Awaiting, FillSet, FlightSet, AwaitSet, Pairs, Triples, On, Kept

LEMMA PairsSize ==
  ASSUME NEW r, NEW X
  PROVE  /\ IsFiniteSet(X) <=> IsFiniteSet(Pairs(r, X))
         /\ IsFiniteSet(X) => Cardinality(Pairs(r, X)) = Cardinality(X)
<1> DEFINE P == Pairs(r, X)
           f == [l \in X |-> <<r, l>>]
           g == [x \in P |-> x[2]]
<1>1. f \in [X -> P] /\ (\A x, y \in X : f[x] = f[y] => x = y) /\ \A t \in P : \E x \in X : f[x] = t
  BY DEF Pairs
<1>2. g \in [P -> X] /\ (\A x, y \in P : g[x] = g[y] => x = y) /\ \A t \in X : \E x \in P : g[x] = t
  <2>1. ASSUME NEW x \in P PROVE x[2] \in X /\ x = <<r, x[2]>>
    <3>1. PICK l \in X : x = <<r, l>>
      BY DEF Pairs
    <3> QED BY <3>1
  <2>2. ASSUME NEW l \in X PROVE <<r, l>> \in P /\ <<r, l>>[2] = l
    BY DEF Pairs
  <2> HIDE DEF P
  <2>3. g \in [P -> X] /\ \A x \in P : g[x] = x[2]
    BY <2>1
  <2> HIDE DEF g
  <2>4. ASSUME NEW x \in P, NEW y \in P, g[x] = g[y] PROVE x = y
    BY <2>1, <2>3, <2>4, Zenon
  <2>5. ASSUME NEW l \in X PROVE \E x \in P : g[x] = l
    <3>1. <<r, l>> \in P /\ g[<<r, l>>] = l
      BY <2>2, <2>3
    <3> QED BY <3>1
  <2> QED BY <2>3, <2>4, <2>5
<1> HIDE DEF f, g, P
<1>3. IsFiniteSet(X) => IsFiniteSet(P) /\ Cardinality(P) = Cardinality(X)
  BY <1>1, Renamed
<1>4. IsFiniteSet(P) => IsFiniteSet(X)
  BY <1>2, Renamed
<1> QED BY <1>3, <1>4 DEF P

LEMMA TriplesSize ==
  ASSUME NEW r, NEW i, NEW X
  PROVE  /\ IsFiniteSet(X) <=> IsFiniteSet(Triples(r, i, X))
         /\ IsFiniteSet(X) => Cardinality(Triples(r, i, X)) = Cardinality(X)
<1> DEFINE P == Triples(r, i, X)
           f == [l \in X |-> <<r, i, l>>]
           g == [x \in P |-> x[3]]
<1>1. f \in [X -> P] /\ (\A x, y \in X : f[x] = f[y] => x = y) /\ \A t \in P : \E x \in X : f[x] = t
  BY DEF Triples
<1>2. g \in [P -> X] /\ (\A x, y \in P : g[x] = g[y] => x = y) /\ \A t \in X : \E x \in P : g[x] = t
  <2>1. ASSUME NEW x \in P PROVE x[3] \in X /\ x = <<r, i, x[3]>>
    <3>1. PICK l \in X : x = <<r, i, l>>
      BY DEF Triples
    <3> QED BY <3>1
  <2>2. ASSUME NEW l \in X PROVE <<r, i, l>> \in P /\ <<r, i, l>>[3] = l
    BY DEF Triples
  <2> HIDE DEF P
  <2>3. g \in [P -> X] /\ \A x \in P : g[x] = x[3]
    BY <2>1
  <2> HIDE DEF g
  <2>4. ASSUME NEW x \in P, NEW y \in P, g[x] = g[y] PROVE x = y
    BY <2>1, <2>3, <2>4, Zenon
  <2>5. ASSUME NEW l \in X PROVE \E x \in P : g[x] = l
    <3>1. <<r, i, l>> \in P /\ g[<<r, i, l>>] = l
      BY <2>2, <2>3
    <3> QED BY <3>1
  <2> QED BY <2>3, <2>4, <2>5
<1> HIDE DEF f, g, P
<1>3. IsFiniteSet(X) => IsFiniteSet(P) /\ Cardinality(P) = Cardinality(X)
  BY <1>1, Renamed
<1>4. IsFiniteSet(P) => IsFiniteSet(X)
  BY <1>2, Renamed
<1> QED BY <1>3, <1>4 DEF P

LEMMA FillMember ==
  ASSUME NEW rd, NEW s, NEW x
  PROVE  x \in FillSet(rd, s) <=> \E r \in Readers : \E l \in Kept(rd[r]) : l.slot = s /\ x = <<r, l>>
<1>1. ASSUME x \in FillSet(rd, s)
      PROVE  \E r \in Readers : \E l \in Kept(rd[r]) : l.slot = s /\ x = <<r, l>>
  <2>1. PICK r \in Readers : x \in Pairs(r, On(Kept(rd[r]), s))
    BY <1>1 DEF FillSet
  <2> QED BY <2>1 DEF Pairs, On
<1>2. ASSUME NEW r \in Readers, NEW l \in Kept(rd[r]), l.slot = s, x = <<r, l>>
      PROVE  x \in FillSet(rd, s)
  <2>1. x \in Pairs(r, On(Kept(rd[r]), s))
    BY <1>2 DEF Pairs, On
  <2> QED BY <2>1 DEF FillSet
<1> QED BY <1>1, <1>2

LEMMA FlightMember ==
  ASSUME NEW st, NEW s, NEW x
  PROVE  x \in FlightSet(st, s) <=>
           \E r \in Readers : \E i \in DOMAIN st[r] : \E l \in st[r][i] : l.slot = s /\ x = <<r, i, l>>
<1>1. ASSUME x \in FlightSet(st, s)
      PROVE  \E r \in Readers : \E i \in DOMAIN st[r] : \E l \in st[r][i] : l.slot = s /\ x = <<r, i, l>>
  <2>1. PICK r \in Readers : x \in UNION {Triples(r, i, On(st[r][i], s)) : i \in DOMAIN st[r]}
    BY <1>1 DEF FlightSet
  <2>2. PICK i \in DOMAIN st[r] : x \in Triples(r, i, On(st[r][i], s))
    BY <2>1
  <2> QED BY <2>2 DEF Triples, On
<1>2. ASSUME NEW r \in Readers, NEW i \in DOMAIN st[r], NEW l \in st[r][i], l.slot = s, x = <<r, i, l>>
      PROVE  x \in FlightSet(st, s)
  <2>1. x \in Triples(r, i, On(st[r][i], s))
    BY <1>2 DEF Triples, On
  <2>2. x \in UNION {Triples(r, j, On(st[r][j], s)) : j \in DOMAIN st[r]}
    BY <2>1
  <2> QED BY <2>2 DEF FlightSet
<1> QED BY <1>1, <1>2

\* The leases of reader r grow by B, or shrink by B.
Grown(rd, rd2, r, B) ==
  /\ \A q \in Readers \ {r} : Kept(rd2[q]) = Kept(rd[q])
  /\ Kept(rd2[r]) = Kept(rd[r]) \cup B /\ Kept(rd[r]) \cap B = {}
Shrunk(rd, rd2, r, B) ==
  /\ \A q \in Readers \ {r} : Kept(rd2[q]) = Kept(rd[q])
  /\ Kept(rd2[r]) = Kept(rd[r]) \ B /\ B \subseteq Kept(rd[r])

LEMMA FillGrows ==
  ASSUME NEW rd, NEW rd2, NEW r \in Readers, NEW s, NEW B, Grown(rd, rd2, r, B),
         IsFiniteSet(FillSet(rd, s)), IsFiniteSet(On(B, s))
  PROVE  /\ IsFiniteSet(FillSet(rd2, s))
         /\ Cardinality(FillSet(rd2, s)) = Cardinality(FillSet(rd, s)) + Cardinality(On(B, s))
<1> USE DEF Grown
<1> DEFINE P == Pairs(r, On(B, s))
<1>1. FillSet(rd2, s) = FillSet(rd, s) \cup P
  <2>1. ASSUME NEW x \in FillSet(rd2, s) PROVE x \in FillSet(rd, s) \cup P
    <3>0. PICK q \in Readers : \E l \in Kept(rd2[q]) : l.slot = s /\ x = <<q, l>>
      BY FillMember
    <3>1. PICK l \in Kept(rd2[q]) : l.slot = s /\ x = <<q, l>>
      BY <3>0
    <3>2. CASE l \in Kept(rd[q])
      BY <3>1, <3>2, FillMember
    <3>3. CASE l \notin Kept(rd[q])
      BY <3>1, <3>3 DEF Pairs, On
    <3> QED BY <3>2, <3>3
  <2>2. ASSUME NEW x \in FillSet(rd, s) PROVE x \in FillSet(rd2, s)
    <3>0. PICK q \in Readers : \E l \in Kept(rd[q]) : l.slot = s /\ x = <<q, l>>
      BY FillMember
    <3>1. PICK l \in Kept(rd[q]) : l.slot = s /\ x = <<q, l>>
      BY <3>0
    <3>2. l \in Kept(rd2[q])
      BY <3>1
    <3> QED BY <3>1, <3>2, FillMember
  <2>3. ASSUME NEW x \in P PROVE x \in FillSet(rd2, s)
    <3>1. PICK l \in B : l.slot = s /\ x = <<r, l>>
      BY DEF Pairs, On
    <3>2. l \in Kept(rd2[r])
      BY <3>1
    <3> QED BY <3>1, <3>2, FillMember
  <2> HIDE DEF P
  <2> QED BY <2>1, <2>2, <2>3
<1>2. FillSet(rd, s) \cap P = {}
  <2>1. ASSUME NEW x \in FillSet(rd, s), x \in P PROVE FALSE
    <3>0. PICK q \in Readers : \E l \in Kept(rd[q]) : l.slot = s /\ x = <<q, l>>
      BY FillMember
    <3>1. PICK l \in Kept(rd[q]) : l.slot = s /\ x = <<q, l>>
      BY <3>0
    <3>2. PICK m \in B : x = <<r, m>>
      BY <2>1 DEF Pairs, On
    <3>3. q = r /\ l = m
      BY <3>1, <3>2
    <3> QED BY <3>1, <3>2, <3>3
  <2> HIDE DEF P
  <2> QED BY <2>1
<1>3. IsFiniteSet(P) /\ Cardinality(P) = Cardinality(On(B, s))
  BY PairsSize
<1> HIDE DEF P
<1>4. /\ IsFiniteSet(FillSet(rd, s) \cup P)
      /\ Cardinality(FillSet(rd, s) \cup P) = Cardinality(FillSet(rd, s)) + Cardinality(P)
  BY <1>2, <1>3, DisjointUnion
<1> QED BY <1>1, <1>3, <1>4

LEMMA FillShrinks ==
  ASSUME NEW rd, NEW rd2, NEW r \in Readers, NEW s, NEW B, Shrunk(rd, rd2, r, B),
         IsFiniteSet(FillSet(rd, s))
  PROVE  /\ IsFiniteSet(FillSet(rd2, s)) /\ IsFiniteSet(On(B, s))
         /\ Cardinality(On(B, s)) <= Cardinality(FillSet(rd, s))
         /\ Cardinality(FillSet(rd2, s)) = Cardinality(FillSet(rd, s)) - Cardinality(On(B, s))
<1> USE DEF Shrunk
<1> DEFINE P == Pairs(r, On(B, s))
<1>1. FillSet(rd2, s) = FillSet(rd, s) \ P
  <2>1. ASSUME NEW x \in FillSet(rd2, s) PROVE x \in FillSet(rd, s) /\ x \notin P
    <3>0. PICK q \in Readers : \E l \in Kept(rd2[q]) : l.slot = s /\ x = <<q, l>>
      BY FillMember
    <3>1. PICK l \in Kept(rd2[q]) : l.slot = s /\ x = <<q, l>>
      BY <3>0
    <3>2. l \in Kept(rd[q]) /\ ~(q = r /\ l \in B)
      BY <3>1
    <3>3. x \notin P
      BY <3>1, <3>2 DEF Pairs, On
    <3>4. x \in FillSet(rd, s)
      BY <3>1, <3>2, FillMember
    <3> QED BY <3>3, <3>4
  <2>2. ASSUME NEW x \in FillSet(rd, s), x \notin P PROVE x \in FillSet(rd2, s)
    <3>0. PICK q \in Readers : \E l \in Kept(rd[q]) : l.slot = s /\ x = <<q, l>>
      BY FillMember
    <3>1. PICK l \in Kept(rd[q]) : l.slot = s /\ x = <<q, l>>
      BY <3>0
    <3>2. l \in Kept(rd2[q])
      BY <2>2, <3>1 DEF Pairs, On
    <3> QED BY <3>1, <3>2, FillMember
  <2> HIDE DEF P
  <2> QED BY <2>1, <2>2
<1>2. P \subseteq FillSet(rd, s)
  <2>1. ASSUME NEW x \in P PROVE x \in FillSet(rd, s)
    <3>1. PICK l \in B : l.slot = s /\ x = <<r, l>>
      BY DEF Pairs, On
    <3>2. l \in Kept(rd[r])
      BY <3>1
    <3> QED BY <3>1, <3>2, FillMember
  <2> HIDE DEF P
  <2> QED BY <2>1
<1> HIDE DEF P
<1>3. /\ IsFiniteSet(FillSet(rd, s) \ P) /\ IsFiniteSet(P) /\ Cardinality(P) <= Cardinality(FillSet(rd, s))
      /\ Cardinality(FillSet(rd, s) \ P) = Cardinality(FillSet(rd, s)) - Cardinality(P)
  BY <1>2, PartRemoved
<1>4. IsFiniteSet(On(B, s)) /\ Cardinality(P) = Cardinality(On(B, s))
  BY <1>3, PairsSize DEF P
<1> QED BY <1>1, <1>3, <1>4

LEMMA FillSame ==
  ASSUME NEW rd, NEW rd2, NEW s, \A q \in Readers : Kept(rd2[q]) = Kept(rd[q])
  PROVE  FillSet(rd2, s) = FillSet(rd, s)
<1>1. \A x : x \in FillSet(rd2, s) <=> x \in FillSet(rd, s)
  BY FillMember
<1> QED BY <1>1

\* A tile goes to the stream of r.
LEMMA FlightGrows ==
  ASSUME NEW st \in [Readers -> Seq(SUBSET Lease)], NEW r \in Readers, NEW h \in SUBSET Lease, NEW s,
         IsFiniteSet(FlightSet(st, s)), IsFiniteSet(On(h, s))
  PROVE  LET st2 == [st EXCEPT ![r] = Append(st[r], h)]
         IN  /\ IsFiniteSet(FlightSet(st2, s))
             /\ Cardinality(FlightSet(st2, s)) = Cardinality(FlightSet(st, s)) + Cardinality(On(h, s))
<1> DEFINE st2 == [st EXCEPT ![r] = Append(st[r], h)]
           n == Len(st[r])
           P == Triples(r, n + 1, On(h, s))
<1>1. /\ n \in Nat /\ DOMAIN st[r] = 1..n /\ DOMAIN st2[r] = 1..(n + 1)
      /\ st2[r][n + 1] = h /\ \A i \in 1..n : i \in 1..(n + 1) /\ st2[r][i] = st[r][i]
  <2>1. st[r] \in Seq(SUBSET Lease)
    OBVIOUS
  <2>2. st2[r] = Append(st[r], h)
    OBVIOUS
  <2> QED BY <2>1, <2>2
<1>2. \A q \in Readers \ {r} : st2[q] = st[q]
  OBVIOUS
<1> HIDE DEF st2, n
<1>3. ASSUME NEW x \in FlightSet(st2, s) PROVE x \in FlightSet(st, s) \cup P
  <2>1. PICK q \in Readers : \E i \in DOMAIN st2[q] : \E l \in st2[q][i] : l.slot = s /\ x = <<q, i, l>>
    BY FlightMember
  <2>2. PICK i \in DOMAIN st2[q] : \E l \in st2[q][i] : l.slot = s /\ x = <<q, i, l>>
    BY <2>1
  <2>3. PICK l \in st2[q][i] : l.slot = s /\ x = <<q, i, l>>
    BY <2>2
  <2>4. CASE q = r /\ i = n + 1
    BY <1>1, <2>3, <2>4 DEF Triples, On
  <2>5. CASE ~(q = r /\ i = n + 1)
    <3>1. i \in DOMAIN st[q] /\ st2[q][i] = st[q][i]
      BY <1>1, <1>2, <2>5
    <3> QED BY <2>3, <3>1, FlightMember
  <2> QED BY <2>4, <2>5
<1>4. ASSUME NEW x \in FlightSet(st, s) PROVE x \in FlightSet(st2, s) /\ x \notin P
  <2>1. PICK q \in Readers : \E i \in DOMAIN st[q] : \E l \in st[q][i] : l.slot = s /\ x = <<q, i, l>>
    BY FlightMember
  <2>2. PICK i \in DOMAIN st[q] : \E l \in st[q][i] : l.slot = s /\ x = <<q, i, l>>
    BY <2>1
  <2>3. PICK l \in st[q][i] : l.slot = s /\ x = <<q, i, l>>
    BY <2>2
  <2>4. i \in DOMAIN st2[q] /\ st2[q][i] = st[q][i] /\ ~(q = r /\ i = n + 1)
    <3>1. CASE q = r
      BY <1>1, <3>1
    <3>2. CASE q # r
      BY <1>2, <3>2
    <3> QED BY <3>1, <3>2
  <2>5. x \notin P
    BY <2>3, <2>4 DEF Triples, On
  <2>6. x \in FlightSet(st2, s)
    BY <2>3, <2>4, FlightMember
  <2> QED BY <2>5, <2>6
<1>5. ASSUME NEW x \in P PROVE x \in FlightSet(st2, s)
  <2>1. PICK l \in h : l.slot = s /\ x = <<r, n + 1, l>>
    BY DEF Triples, On
  <2>2. n + 1 \in DOMAIN st2[r] /\ l \in st2[r][n + 1]
    BY <1>1, <2>1
  <2> QED BY <2>1, <2>2, FlightMember
<1>6. IsFiniteSet(P) /\ Cardinality(P) = Cardinality(On(h, s))
  BY TriplesSize
<1> HIDE DEF P
<1>7. FlightSet(st2, s) = FlightSet(st, s) \cup P /\ FlightSet(st, s) \cap P = {}
  BY <1>3, <1>4, <1>5
<1>8. /\ IsFiniteSet(FlightSet(st, s) \cup P)
      /\ Cardinality(FlightSet(st, s) \cup P) = Cardinality(FlightSet(st, s)) + Cardinality(P)
  BY <1>6, <1>7, DisjointUnion
<1> QED BY <1>6, <1>7, <1>8 DEF st2

\* The first tile of the stream of r is released, and the others move up.
LEMMA FlightShrinks ==
  ASSUME NEW st \in [Readers -> Seq(SUBSET Lease)], NEW r \in Readers, st[r] # <<>>, NEW s,
         IsFiniteSet(FlightSet(st, s))
  PROVE  LET st2 == [st EXCEPT ![r] = Tail(st[r])]
             h == Head(st[r])
         IN  /\ IsFiniteSet(FlightSet(st2, s)) /\ IsFiniteSet(On(h, s))
             /\ Cardinality(On(h, s)) <= Cardinality(FlightSet(st, s))
             /\ Cardinality(FlightSet(st2, s)) = Cardinality(FlightSet(st, s)) - Cardinality(On(h, s))
<1> DEFINE st2 == [st EXCEPT ![r] = Tail(st[r])]
           h == Head(st[r])
           n == Len(st[r])
           P == Triples(r, 1, On(h, s))
           S == FlightSet(st, s) \ P
           T == FlightSet(st2, s)
           f == [x \in S |-> <<x[1], IF x[1] = r THEN x[2] - 1 ELSE x[2], x[3]>>]
<1>1. /\ n \in Nat /\ n >= 1 /\ DOMAIN st[r] = 1..n /\ DOMAIN st2[r] = 1..(n - 1)
      /\ st[r][1] = h /\ \A i \in 1..(n - 1) : st2[r][i] = st[r][i + 1]
  <2>1. st[r] \in Seq(SUBSET Lease)
    OBVIOUS
  <2>2. st2[r] = Tail(st[r])
    OBVIOUS
  <2>3. n \in Nat /\ n >= 1 /\ DOMAIN st[r] = 1..n /\ st[r][1] = h
    BY <2>1
  <2>4. Len(Tail(st[r])) = n - 1 /\ Tail(st[r]) \in Seq(SUBSET Lease) /\ \A i \in 1..(n - 1) : Tail(st[r])[i] = st[r][i + 1]
    BY <2>1, <2>3
  <2> QED BY <2>2, <2>3, <2>4
<1>2. \A q \in Readers \ {r} : st2[q] = st[q]
  OBVIOUS
<1> HIDE DEF st2, h, n
<1>3. P \subseteq FlightSet(st, s)
  <2>1. ASSUME NEW x \in P PROVE x \in FlightSet(st, s)
    <3>1. PICK l \in h : l.slot = s /\ x = <<r, 1, l>>
      BY DEF Triples, On
    <3>2. 1 \in DOMAIN st[r] /\ l \in st[r][1]
      BY <1>1, <3>1
    <3> QED BY <3>1, <3>2, FlightMember
  <2> HIDE DEF P
  <2> QED BY <2>1
\* Where a triple of S comes from, and where it goes.
<1>4. ASSUME NEW x \in S
      PROVE  /\ x = <<x[1], x[2], x[3]>> /\ x[1] \in Readers /\ x[2] \in DOMAIN st[x[1]] /\ x[3] \in st[x[1]][x[2]]
             /\ x[3].slot = s /\ (x[1] = r => x[2] \in 2..n)
  <2>1. PICK q \in Readers : \E i \in DOMAIN st[q] : \E l \in st[q][i] : l.slot = s /\ x = <<q, i, l>>
    BY FlightMember
  <2>2. PICK i \in DOMAIN st[q] : \E l \in st[q][i] : l.slot = s /\ x = <<q, i, l>>
    BY <2>1
  <2>3. PICK l \in st[q][i] : l.slot = s /\ x = <<q, i, l>>
    BY <2>2
  <2>4. q = r => i # 1
    <3>1. SUFFICES ASSUME q = r, i = 1 PROVE x \in P
      OBVIOUS
    <3> QED BY <1>1, <2>3, <3>1 DEF Triples, On
  <2>5. q = r => i \in 2..n
    BY <1>1, <2>4
  <2> QED BY <2>3, <2>5
<1> HIDE DEF P
<1>5. ASSUME NEW x \in S PROVE f[x] \in T
  <2>1. CASE x[1] = r
    <3>1. f[x] = <<r, x[2] - 1, x[3]>>
      BY <2>1
    <3>2. x[2] - 1 \in 1..(n - 1) /\ (x[2] - 1) + 1 = x[2]
      BY <1>1, <1>4, <2>1
    <3>3. x[2] - 1 \in DOMAIN st2[r] /\ x[3] \in st2[r][x[2] - 1]
      BY <1>1, <1>4, <2>1, <3>2
    <3> QED BY <1>4, <3>1, <3>3, FlightMember
  <2>2. CASE x[1] # r
    <3>1. f[x] = <<x[1], x[2], x[3]>>
      BY <2>2
    <3>2. st2[x[1]] = st[x[1]]
      BY <1>2, <1>4, <2>2
    <3> QED BY <1>4, <3>1, <3>2, FlightMember
  <2> QED BY <2>1, <2>2
<1>6. ASSUME NEW x \in S, NEW y \in S, f[x] = f[y] PROVE x = y
  <2>1. /\ f[x] = <<x[1], IF x[1] = r THEN x[2] - 1 ELSE x[2], x[3]>>
        /\ f[y] = <<y[1], IF y[1] = r THEN y[2] - 1 ELSE y[2], y[3]>>
    OBVIOUS
  <2>2. x[1] = y[1] /\ x[3] = y[3] /\ (IF x[1] = r THEN x[2] - 1 ELSE x[2]) = (IF y[1] = r THEN y[2] - 1 ELSE y[2])
    BY <1>6, <2>1
  <2>3. x[2] = y[2]
    <3>1. CASE x[1] = r
      <4>1. x[2] \in 2..n /\ y[2] \in 2..n /\ x[2] - 1 = y[2] - 1
        BY <1>4, <2>2, <3>1
      <4> QED BY <1>1, <4>1
    <3>2. CASE x[1] # r
      BY <2>2, <3>2
    <3> QED BY <3>1, <3>2
  <2> QED BY <1>4, <2>2, <2>3
<1>7. ASSUME NEW t \in T PROVE \E x \in S : f[x] = t
  <2>1. PICK q \in Readers : \E i \in DOMAIN st2[q] : \E l \in st2[q][i] : l.slot = s /\ t = <<q, i, l>>
    BY FlightMember
  <2>2. PICK i \in DOMAIN st2[q] : \E l \in st2[q][i] : l.slot = s /\ t = <<q, i, l>>
    BY <2>1
  <2>3. PICK l \in st2[q][i] : l.slot = s /\ t = <<q, i, l>>
    BY <2>2
  <2>4. CASE q = r
    <3> DEFINE x == <<r, i + 1, l>>
    <3>1. i \in 1..(n - 1) /\ i + 1 \in 1..n /\ i + 1 # 1 /\ (i + 1) - 1 = i
      BY <1>1, <2>4
    <3>2. l \in st[r][i + 1] /\ i + 1 \in DOMAIN st[r]
      BY <1>1, <2>3, <2>4, <3>1
    <3>3. x \in FlightSet(st, s)
      BY <2>3, <3>2, FlightMember
    <3>4. x \notin P
      BY <3>1 DEF P, Triples
    <3>5. x \in S /\ f[x] = <<r, i, l>>
      BY <3>1, <3>3, <3>4
    <3> QED BY <2>3, <2>4, <3>5
  <2>5. CASE q # r
    <3>1. st2[q] = st[q]
      BY <1>2, <2>5
    <3>2. t \in FlightSet(st, s)
      BY <2>3, <3>1, FlightMember
    <3>3. t \notin P
      BY <2>3, <2>5 DEF P, Triples
    <3>4. t \in S /\ f[t] = t
      BY <2>3, <2>5, <3>2, <3>3
    <3> QED BY <3>4
  <2> QED BY <2>4, <2>5
<1>8. f \in [S -> T]
  <2> DEFINE g(x) == <<x[1], IF x[1] = r THEN x[2] - 1 ELSE x[2], x[3]>>
  <2>1. \A x \in S : g(x) \in T
    <3>1. ASSUME NEW x \in S PROVE g(x) \in T
      <4>1. f[x] = g(x)
        OBVIOUS
      <4> HIDE DEF f, g
      <4> QED BY <1>5, <4>1
    <3> HIDE DEF g
    <3> QED BY <3>1
  <2>2. f = [x \in S |-> g(x)]
    OBVIOUS
  <2> HIDE DEF g, f, S, T
  <2> QED BY <2>1, <2>2
<1>9. IsFiniteSet(S) /\ IsFiniteSet(P) /\ Cardinality(P) <= Cardinality(FlightSet(st, s))
      /\ Cardinality(S) = Cardinality(FlightSet(st, s)) - Cardinality(P)
  BY <1>3, PartRemoved
<1> HIDE DEF f, S
<1>10. IsFiniteSet(T) /\ Cardinality(T) = Cardinality(S)
  <2> HIDE DEF T
  <2> QED BY <1>6, <1>7, <1>8, <1>9, Renamed
<1>11. IsFiniteSet(On(h, s)) /\ Cardinality(P) = Cardinality(On(h, s))
  BY <1>9, TriplesSize DEF P
<1> QED BY <1>9, <1>10, <1>11 DEF st2, h

AwaitsMore(rd, rd2, r, s) ==
  rd[r].want # s /\ rd2[r].want = s /\ \A q \in Readers \ {r} : rd2[q].want = rd[q].want

LEMMA AwaitGrows ==
  ASSUME NEW rd, NEW rd2, NEW r \in Readers, NEW s, AwaitsMore(rd, rd2, r, s)
  PROVE  Cardinality(AwaitSet(rd2, s)) = Cardinality(AwaitSet(rd, s)) + 1
<1>1. IsFiniteSet(AwaitSet(rd, s))
  BY FewReaders, FS_Subset DEF AwaitSet
<1>2. AwaitSet(rd2, s) = AwaitSet(rd, s) \cup {r} /\ r \notin AwaitSet(rd, s)
  BY DEF AwaitSet, AwaitsMore
<1> QED BY <1>1, <1>2, FS_AddElement

LEMMA AwaitSame ==
  ASSUME NEW rd, NEW rd2, NEW s, \A q \in Readers : rd2[q].want = s <=> rd[q].want = s
  PROVE  AwaitSet(rd2, s) = AwaitSet(rd, s)
BY DEF AwaitSet

LEMMA AwaitFinite ==
  ASSUME NEW rd, NEW s
  PROVE  /\ IsFiniteSet(AwaitSet(rd, s)) /\ Cardinality(AwaitSet(rd, s)) \in Nat
         /\ \A r \in Readers : rd[r].want = s => Cardinality(AwaitSet(rd, s)) >= 1
<1>1. IsFiniteSet(AwaitSet(rd, s))
  BY FewReaders, FS_Subset DEF AwaitSet
<1>2. Cardinality(AwaitSet(rd, s)) \in Nat
  BY <1>1, FS_CardinalityType
<1>3. ASSUME NEW r \in Readers, rd[r].want = s PROVE Cardinality(AwaitSet(rd, s)) # 0
  <2>1. AwaitSet(rd, s) # {}
    BY <1>3 DEF AwaitSet
  <2> QED BY <1>1, <2>1, FS_EmptySet
<1> QED BY <1>1, <1>2, <1>3

\* RefsExact, of any slots, readers and streams.
RefsV(sl, rd, st) ==
  \A s \in Slots :
    /\ IsFiniteSet(FillSet(rd, s)) /\ IsFiniteSet(FlightSet(st, s))
    /\ sl[s].refs = Cardinality(FillSet(rd, s)) + Cardinality(FlightSet(st, s)) + Cardinality(AwaitSet(rd, s))

LEMMA RefsParts ==
  ASSUME NEW sl, NEW rd, NEW st, RefsV(sl, rd, st), NEW s \in Slots
  PROVE  /\ IsFiniteSet(FillSet(rd, s)) /\ IsFiniteSet(FlightSet(st, s)) /\ IsFiniteSet(AwaitSet(rd, s))
         /\ Cardinality(FillSet(rd, s)) \in Nat /\ Cardinality(FlightSet(st, s)) \in Nat
         /\ Cardinality(AwaitSet(rd, s)) \in Nat
         /\ sl[s].refs = Cardinality(FillSet(rd, s)) + Cardinality(FlightSet(st, s)) + Cardinality(AwaitSet(rd, s))
         /\ sl[s].refs \in Nat
<1>1. IsFiniteSet(FillSet(rd, s)) /\ IsFiniteSet(FlightSet(st, s))
      /\ sl[s].refs = Cardinality(FillSet(rd, s)) + Cardinality(FlightSet(st, s)) + Cardinality(AwaitSet(rd, s))
  BY DEF RefsV
<1>2. Cardinality(FillSet(rd, s)) \in Nat /\ Cardinality(FlightSet(st, s)) \in Nat
  BY <1>1, FS_CardinalityType
<1>3. IsFiniteSet(AwaitSet(rd, s)) /\ Cardinality(AwaitSet(rd, s)) \in Nat
  BY AwaitFinite
<1>4. sl[s].refs \in Nat
  BY <1>1, <1>2, <1>3
<1> QED BY <1>1, <1>2, <1>3, <1>4

\* A slot that nothing refers to serves no lease and no gather.
LEMMA Unreferenced ==
  ASSUME NEW sl, NEW rd, NEW st, RefsV(sl, rd, st), NEW s \in Slots, sl[s].refs = 0
  PROVE  /\ \A r \in Readers : rd[r].want # s /\ \A l \in Kept(rd[r]) : l.slot # s
         /\ \A r \in Readers : \A i \in DOMAIN st[r] : \A l \in st[r][i] : l.slot # s
<1> DEFINE a == Cardinality(FillSet(rd, s))
           b == Cardinality(FlightSet(st, s))
           c == Cardinality(AwaitSet(rd, s))
<1>1. a \in Nat /\ b \in Nat /\ c \in Nat /\ a + b + c = 0
  BY RefsParts
<1> HIDE DEF a, b, c
<1>2. a = 0 /\ b = 0 /\ c = 0
  BY <1>1
<1>3. FillSet(rd, s) = {} /\ FlightSet(st, s) = {} /\ AwaitSet(rd, s) = {}
  BY <1>2, RefsParts, FS_EmptySet DEF a, b, c
<1>4. ASSUME NEW r \in Readers, NEW l \in Kept(rd[r]) PROVE l.slot # s
  <2>1. l.slot = s => <<r, l>> \in FillSet(rd, s)
    BY FillMember
  <2> QED BY <1>3, <2>1
<1>5. ASSUME NEW r \in Readers, NEW i \in DOMAIN st[r], NEW l \in st[r][i] PROVE l.slot # s
  <2>1. l.slot = s => <<r, i, l>> \in FlightSet(st, s)
    BY FlightMember
  <2> QED BY <1>3, <2>1
<1>6. ASSUME NEW r \in Readers PROVE rd[r].want # s
  BY <1>3 DEF AwaitSet
<1> QED BY <1>4, <1>5, <1>6

LEMMA Referenced ==
  ASSUME NEW sl, NEW rd, NEW st, RefsV(sl, rd, st), NEW s \in Slots, NEW r \in Readers, rd[r].want = s
  PROVE  sl[s].refs >= 1
<1> DEFINE a == Cardinality(FillSet(rd, s))
           b == Cardinality(FlightSet(st, s))
           c == Cardinality(AwaitSet(rd, s))
<1>1. a \in Nat /\ b \in Nat /\ c \in Nat /\ c >= 1 /\ sl[s].refs = a + b + c
  BY RefsParts, AwaitFinite
<1> HIDE DEF a, b, c
<1> QED BY <1>1

LEMMA RefsKept ==
  ASSUME NEW sl, NEW sl2, NEW rd, NEW rd2, NEW st, RefsV(sl, rd, st),
         \A s \in Slots : sl2[s].refs = sl[s].refs,
         \A q \in Readers : Kept(rd2[q]) = Kept(rd[q]) /\ rd2[q].want = rd[q].want
  PROVE  RefsV(sl2, rd2, st)
<1>1. ASSUME NEW s \in Slots PROVE FillSet(rd2, s) = FillSet(rd, s) /\ AwaitSet(rd2, s) = AwaitSet(rd, s)
  BY FillSame, AwaitSame
<1> QED BY <1>1 DEF RefsV

\* A gather refers to the slot of the page it waits for.
LEMMA RefsTaken ==
  ASSUME NEW sl, NEW sl2, NEW rd, NEW rd2, NEW st, RefsV(sl, rd, st), NEW v \in Slots, NEW r \in Readers,
         sl2[v].refs = sl[v].refs + 1, \A s \in Slots \ {v} : sl2[s].refs = sl[s].refs,
         \A q \in Readers : Kept(rd2[q]) = Kept(rd[q]),
         rd[r].want = NoSlot, rd2[r].want = v, \A q \in Readers \ {r} : rd2[q].want = rd[q].want
  PROVE  RefsV(sl2, rd2, st)
<1>1. ASSUME NEW s \in Slots PROVE FillSet(rd2, s) = FillSet(rd, s)
  BY FillSame
<1>2. ASSUME NEW s \in Slots, s # v PROVE AwaitSet(rd2, s) = AwaitSet(rd, s)
  BY <1>2, Layout, AwaitSame
<1>3. Cardinality(AwaitSet(rd2, v)) = Cardinality(AwaitSet(rd, v)) + 1
  <2>1. AwaitsMore(rd, rd2, r, v)
    BY Layout DEF AwaitsMore
  <2> QED BY <2>1, AwaitGrows
<1>4. ASSUME NEW s \in Slots
      PROVE  sl2[s].refs = Cardinality(FillSet(rd2, s)) + Cardinality(FlightSet(st, s)) + Cardinality(AwaitSet(rd2, s))
  <2> DEFINE a == Cardinality(FillSet(rd, s))
             b == Cardinality(FlightSet(st, s))
             c == Cardinality(AwaitSet(rd, s))
             d == Cardinality(AwaitSet(rd2, s))
  <2>1. a \in Nat /\ b \in Nat /\ c \in Nat /\ sl[s].refs = a + b + c
    BY RefsParts
  <2>2. Cardinality(FillSet(rd2, s)) = a
    BY <1>1
  <2>3. IF s = v THEN d = c + 1 /\ sl2[s].refs = sl[s].refs + 1 ELSE d = c /\ sl2[s].refs = sl[s].refs
    BY <1>2, <1>3
  <2> HIDE DEF a, b, c, d
  <2>4. sl2[s].refs = a + b + d
    BY <2>1, <2>3
  <2> QED BY <2>2, <2>4 DEF b, d
<1>5. ASSUME NEW s \in Slots PROVE IsFiniteSet(FillSet(rd2, s)) /\ IsFiniteSet(FlightSet(st, s))
  BY <1>1, RefsParts
<1> QED BY <1>4, <1>5 DEF RefsV

\* The gather gives that reference back.
LEMMA RefsDropped ==
  ASSUME NEW sl, NEW sl2, NEW rd, NEW rd2, NEW st, RefsV(sl, rd, st), NEW v \in Slots, NEW r \in Readers,
         sl2[v].refs = sl[v].refs - 1, \A s \in Slots \ {v} : sl2[s].refs = sl[s].refs,
         \A q \in Readers : Kept(rd2[q]) = Kept(rd[q]),
         rd[r].want = v, rd2[r].want = NoSlot, \A q \in Readers \ {r} : rd2[q].want = rd[q].want
  PROVE  RefsV(sl2, rd2, st)
<1>1. ASSUME NEW s \in Slots PROVE FillSet(rd2, s) = FillSet(rd, s)
  BY FillSame
<1>2. ASSUME NEW s \in Slots, s # v PROVE AwaitSet(rd2, s) = AwaitSet(rd, s)
  BY <1>2, Layout, AwaitSame
<1>3. Cardinality(AwaitSet(rd, v)) = Cardinality(AwaitSet(rd2, v)) + 1
  <2>1. AwaitsMore(rd2, rd, r, v)
    BY Layout DEF AwaitsMore
  <2> QED BY <2>1, AwaitGrows
<1>4. ASSUME NEW s \in Slots
      PROVE  sl2[s].refs = Cardinality(FillSet(rd2, s)) + Cardinality(FlightSet(st, s)) + Cardinality(AwaitSet(rd2, s))
  <2> DEFINE a == Cardinality(FillSet(rd, s))
             b == Cardinality(FlightSet(st, s))
             c == Cardinality(AwaitSet(rd, s))
             d == Cardinality(AwaitSet(rd2, s))
  <2>1. a \in Nat /\ b \in Nat /\ c \in Nat /\ d \in Nat /\ sl[s].refs = a + b + c
    BY RefsParts, AwaitFinite
  <2>2. Cardinality(FillSet(rd2, s)) = a
    BY <1>1
  <2>3. IF s = v THEN c = d + 1 /\ sl2[s].refs = sl[s].refs - 1 ELSE d = c /\ sl2[s].refs = sl[s].refs
    BY <1>2, <1>3
  <2> HIDE DEF a, b, c, d
  <2>4. sl2[s].refs = a + b + d
    BY <2>1, <2>3
  <2> QED BY <2>2, <2>4 DEF b, d
<1>5. ASSUME NEW s \in Slots PROVE IsFiniteSet(FillSet(rd2, s)) /\ IsFiniteSet(FlightSet(st, s))
  BY <1>1, RefsParts
<1> QED BY <1>4, <1>5 DEF RefsV

\* The gather's reference becomes that of its lease.
LEMMA RefsLeased ==
  ASSUME NEW sl, NEW sl2, NEW rd, NEW rd2, NEW st, RefsV(sl, rd, st), NEW v \in Slots, NEW r \in Readers, NEW m,
         \A s \in Slots : sl2[s].refs = sl[s].refs, m.slot = v, m \notin Kept(rd[r]),
         Kept(rd2[r]) = Kept(rd[r]) \cup {m}, \A q \in Readers \ {r} : Kept(rd2[q]) = Kept(rd[q]),
         rd[r].want = v, rd2[r].want = NoSlot, \A q \in Readers \ {r} : rd2[q].want = rd[q].want
  PROVE  RefsV(sl2, rd2, st)
<1> DEFINE B == {m}
<1>1. ASSUME NEW s \in Slots
      PROVE  IsFiniteSet(On(B, s)) /\ Cardinality(On(B, s)) = IF s = v THEN 1 ELSE 0
  <2>1. CASE s = v
    <3>1. On(B, s) = {m}
      BY <2>1 DEF On
    <3> QED BY <2>1, <3>1, FS_Singleton
  <2>2. CASE s # v
    <3>1. On(B, s) = {}
      BY <2>2 DEF On
    <3> QED BY <2>2, <3>1, FS_EmptySet
  <2> QED BY <2>1, <2>2
<1>2. ASSUME NEW s \in Slots
      PROVE  /\ IsFiniteSet(FillSet(rd2, s))
             /\ Cardinality(FillSet(rd2, s)) = Cardinality(FillSet(rd, s)) + Cardinality(On(B, s))
  <2>1. IsFiniteSet(FillSet(rd, s)) /\ Grown(rd, rd2, r, B)
    BY RefsParts DEF Grown
  <2> HIDE DEF B
  <2> QED BY <1>1, <2>1, FillGrows
<1>3. ASSUME NEW s \in Slots, s # v PROVE AwaitSet(rd2, s) = AwaitSet(rd, s)
  BY <1>3, Layout, AwaitSame
<1>4. Cardinality(AwaitSet(rd, v)) = Cardinality(AwaitSet(rd2, v)) + 1
  <2>1. AwaitsMore(rd2, rd, r, v)
    BY Layout DEF AwaitsMore
  <2> QED BY <2>1, AwaitGrows
<1>5. ASSUME NEW s \in Slots
      PROVE  sl2[s].refs = Cardinality(FillSet(rd2, s)) + Cardinality(FlightSet(st, s)) + Cardinality(AwaitSet(rd2, s))
  <2> DEFINE a == Cardinality(FillSet(rd, s))
             a2 == Cardinality(FillSet(rd2, s))
             b == Cardinality(FlightSet(st, s))
             c == Cardinality(AwaitSet(rd, s))
             d == Cardinality(AwaitSet(rd2, s))
  <2>1. a \in Nat /\ b \in Nat /\ c \in Nat /\ d \in Nat /\ sl2[s].refs = a + b + c
    BY RefsParts, AwaitFinite
  <2>2. IF s = v THEN c = d + 1 /\ a2 = a + 1 ELSE d = c /\ a2 = a
    <3>1. a2 = a + IF s = v THEN 1 ELSE 0
      BY <1>1, <1>2
    <3>2. IF s = v THEN c = d + 1 ELSE d = c
      BY <1>3, <1>4
    <3> HIDE DEF a, a2, b, c, d
    <3> QED BY <2>1, <3>1, <3>2
  <2> HIDE DEF a, a2, b, c, d
  <2>3. sl2[s].refs = a2 + b + d
    BY <2>1, <2>2
  <2> QED BY <2>3 DEF a2, b, d
<1>6. ASSUME NEW s \in Slots PROVE IsFiniteSet(FlightSet(st, s))
  BY RefsParts
<1> QED BY <1>2, <1>5, <1>6 DEF RefsV

\* Each slot gains, or loses, a reference for each lease of B on it.
Adds(sl, sl2, B) == \A s \in Slots : sl2[s].refs = sl[s].refs + LeasesOn(s, B)
GivesBack(sl, sl2, B) == \A s \in Slots : sl2[s].refs = Max({0, sl[s].refs - LeasesOn(s, B)})

\* A tile takes its leases.
LEMMA RefsAcquired ==
  ASSUME NEW sl, NEW sl2, NEW rd, NEW rd2, NEW st, RefsV(sl, rd, st), NEW r \in Readers, NEW B, IsFiniteSet(B),
         Adds(sl, sl2, B), Grown(rd, rd2, r, B), \A q \in Readers : rd2[q].want = rd[q].want
  PROVE  RefsV(sl2, rd2, st)
<1>1. ASSUME NEW s \in Slots
      PROVE  IsFiniteSet(On(B, s)) /\ Cardinality(On(B, s)) = LeasesOn(s, B) /\ Cardinality(On(B, s)) \in Nat
  <2>1. IsFiniteSet(On(B, s))
    BY FS_Subset DEF On
  <2> QED BY <2>1, FS_CardinalityType DEF On, LeasesOn
<1>2. ASSUME NEW s \in Slots
      PROVE  /\ IsFiniteSet(FillSet(rd2, s))
             /\ Cardinality(FillSet(rd2, s)) = Cardinality(FillSet(rd, s)) + Cardinality(On(B, s))
  <2>1. IsFiniteSet(FillSet(rd, s))
    BY RefsParts
  <2> QED BY <1>1, <2>1, FillGrows
<1>3. ASSUME NEW s \in Slots PROVE AwaitSet(rd2, s) = AwaitSet(rd, s)
  BY AwaitSame
<1>5. ASSUME NEW s \in Slots
      PROVE  sl2[s].refs = Cardinality(FillSet(rd2, s)) + Cardinality(FlightSet(st, s)) + Cardinality(AwaitSet(rd2, s))
  <2> DEFINE a == Cardinality(FillSet(rd, s))
             a2 == Cardinality(FillSet(rd2, s))
             b == Cardinality(FlightSet(st, s))
             c == Cardinality(AwaitSet(rd, s))
             e == Cardinality(On(B, s))
  <2>1. a \in Nat /\ b \in Nat /\ c \in Nat /\ e \in Nat /\ sl2[s].refs = (a + b + c) + e /\ a2 = a + e
    BY <1>1, <1>2, RefsParts DEF Adds
  <2> HIDE DEF a, a2, b, c, e
  <2>3. sl2[s].refs = a2 + b + c
    BY <2>1
  <2> QED BY <1>3, <2>3 DEF a2, b, c
<1>6. ASSUME NEW s \in Slots PROVE IsFiniteSet(FlightSet(st, s))
  BY RefsParts
<1> QED BY <1>2, <1>5, <1>6 DEF RefsV

\* A tile, or the first page of a row, gives its leases back: no reference is
\* below the leases that go.
LEMMA RefsReturned ==
  ASSUME NEW sl, NEW sl2, NEW rd, NEW rd2, NEW st, RefsV(sl, rd, st), NEW r \in Readers, NEW B,
         GivesBack(sl, sl2, B), Shrunk(rd, rd2, r, B), \A q \in Readers : rd2[q].want = rd[q].want
  PROVE  RefsV(sl2, rd2, st) /\ \A s \in Slots : sl2[s].refs <= sl[s].refs
<1>2. ASSUME NEW s \in Slots
      PROVE  /\ IsFiniteSet(FillSet(rd2, s)) /\ IsFiniteSet(On(B, s))
             /\ Cardinality(On(B, s)) <= Cardinality(FillSet(rd, s))
             /\ Cardinality(FillSet(rd2, s)) = Cardinality(FillSet(rd, s)) - Cardinality(On(B, s))
  <2>1. IsFiniteSet(FillSet(rd, s)) /\ Shrunk(rd, rd2, r, B)
    BY RefsParts DEF Shrunk
  <2> QED BY <2>1, FillShrinks
<1>3. ASSUME NEW s \in Slots PROVE AwaitSet(rd2, s) = AwaitSet(rd, s)
  BY AwaitSame
<1>5. ASSUME NEW s \in Slots
      PROVE  /\ sl2[s].refs = Cardinality(FillSet(rd2, s)) + Cardinality(FlightSet(st, s)) + Cardinality(AwaitSet(rd2, s))
             /\ sl2[s].refs <= sl[s].refs
  <2> DEFINE a == Cardinality(FillSet(rd, s))
             a2 == Cardinality(FillSet(rd2, s))
             b == Cardinality(FlightSet(st, s))
             c == Cardinality(AwaitSet(rd, s))
             e == Cardinality(On(B, s))
             x == sl[s].refs
  <2>1. a \in Nat /\ b \in Nat /\ c \in Nat /\ x = a + b + c /\ x \in Nat
    BY RefsParts
  <2>2. e \in Nat /\ e <= a /\ a2 = a - e
    BY <1>2, FS_CardinalityType
  <2>3. LeasesOn(s, B) = e
    BY DEF LeasesOn, On
  <2>4. sl2[s].refs = Max({0, x - e})
    BY <2>3 DEF GivesBack
  <2> HIDE DEF a, a2, b, c, e, x
  <2>5. e <= x
    BY <2>1, <2>2
  <2>6. sl2[s].refs = x - e
    BY <2>1, <2>2, <2>4, <2>5, MaxZero
  <2>7. sl2[s].refs = a2 + b + c
    BY <2>1, <2>2, <2>6
  <2>8. sl2[s].refs <= x
    BY <2>1, <2>2, <2>6
  <2> QED BY <1>3, <2>7, <2>8 DEF a2, b, c, x
<1>6. ASSUME NEW s \in Slots PROVE IsFiniteSet(FlightSet(st, s))
  BY RefsParts
<1> QED BY <1>2, <1>5, <1>6 DEF RefsV

\* The leases of a tile go to the stream.
LEMMA RefsSent ==
  ASSUME NEW sl, NEW rd, NEW rd2, NEW st \in [Readers -> Seq(SUBSET Lease)], RefsV(sl, rd, st), NEW r \in Readers,
         NEW B \in SUBSET Lease, Kept(rd[r]) = B, Kept(rd2[r]) = {},
         \A q \in Readers \ {r} : Kept(rd2[q]) = Kept(rd[q]),
         \A q \in Readers : rd2[q].want = rd[q].want
  PROVE  RefsV(sl, rd2, [st EXCEPT ![r] = Append(st[r], B)])
<1> DEFINE st2 == [st EXCEPT ![r] = Append(st[r], B)]
<1>2. ASSUME NEW s \in Slots
      PROVE  /\ IsFiniteSet(FillSet(rd2, s)) /\ IsFiniteSet(On(B, s))
             /\ Cardinality(On(B, s)) <= Cardinality(FillSet(rd, s))
             /\ Cardinality(FillSet(rd2, s)) = Cardinality(FillSet(rd, s)) - Cardinality(On(B, s))
  <2>1. IsFiniteSet(FillSet(rd, s)) /\ Shrunk(rd, rd2, r, B)
    BY RefsParts DEF Shrunk
  <2>2. r \in Readers
    OBVIOUS
  <2> QED BY ONLY <2>1, <2>2, FillShrinks
<1>3. ASSUME NEW s \in Slots
      PROVE  /\ IsFiniteSet(FlightSet(st2, s))
             /\ Cardinality(FlightSet(st2, s)) = Cardinality(FlightSet(st, s)) + Cardinality(On(B, s))
  <2>1. IsFiniteSet(FlightSet(st, s))
    BY RefsParts
  <2> QED BY <1>2, <2>1, FlightGrows
<1> HIDE DEF st2
<1>4. ASSUME NEW s \in Slots PROVE AwaitSet(rd2, s) = AwaitSet(rd, s)
  BY AwaitSame
<1>5. ASSUME NEW s \in Slots
      PROVE  sl[s].refs = Cardinality(FillSet(rd2, s)) + Cardinality(FlightSet(st2, s)) + Cardinality(AwaitSet(rd2, s))
  <2> DEFINE a == Cardinality(FillSet(rd, s))
             a2 == Cardinality(FillSet(rd2, s))
             b == Cardinality(FlightSet(st, s))
             b2 == Cardinality(FlightSet(st2, s))
             c == Cardinality(AwaitSet(rd, s))
             e == Cardinality(On(B, s))
             x == sl[s].refs
  <2>1. a \in Nat /\ b \in Nat /\ c \in Nat /\ x = a + b + c
    BY RefsParts
  <2>2. e \in Nat /\ a2 = a - e /\ b2 = b + e
    BY <1>2, <1>3, FS_CardinalityType
  <2> HIDE DEF a, a2, b, b2, c, e, x
  <2>3. x = a2 + b2 + c
    BY <2>1, <2>2
  <2> QED BY <1>4, <2>3 DEF a2, b2, c, x
<1>6. RefsV(sl, rd2, st2)
  BY <1>2, <1>3, <1>5 DEF RefsV
<1> QED BY <1>6 DEF st2

\* The callback of the stream gives back the leases of the first tile.
LEMMA RefsReleased ==
  ASSUME NEW sl, NEW sl2, NEW rd, NEW st \in [Readers -> Seq(SUBSET Lease)], RefsV(sl, rd, st), NEW r \in Readers,
         st[r] # <<>>, GivesBack(sl, sl2, Head(st[r]))
  PROVE  RefsV(sl2, rd, [st EXCEPT ![r] = Tail(st[r])]) /\ \A s \in Slots : sl2[s].refs <= sl[s].refs
<1> DEFINE st2 == [st EXCEPT ![r] = Tail(st[r])]
           B == Head(st[r])
<1>3. ASSUME NEW s \in Slots
      PROVE  /\ IsFiniteSet(FlightSet(st2, s)) /\ IsFiniteSet(On(B, s))
             /\ Cardinality(On(B, s)) <= Cardinality(FlightSet(st, s))
             /\ Cardinality(FlightSet(st2, s)) = Cardinality(FlightSet(st, s)) - Cardinality(On(B, s))
  <2>1. IsFiniteSet(FlightSet(st, s))
    BY RefsParts
  <2> QED BY <2>1, FlightShrinks
<1>4. \A s \in Slots : sl2[s].refs = Max({0, sl[s].refs - LeasesOn(s, B)})
  BY DEF GivesBack
<1> HIDE DEF st2, B
<1>5. ASSUME NEW s \in Slots
      PROVE  /\ sl2[s].refs = Cardinality(FillSet(rd, s)) + Cardinality(FlightSet(st2, s)) + Cardinality(AwaitSet(rd, s))
             /\ sl2[s].refs <= sl[s].refs
  <2> DEFINE a == Cardinality(FillSet(rd, s))
             b == Cardinality(FlightSet(st, s))
             b2 == Cardinality(FlightSet(st2, s))
             c == Cardinality(AwaitSet(rd, s))
             e == Cardinality(On(B, s))
             x == sl[s].refs
  <2>1. a \in Nat /\ b \in Nat /\ c \in Nat /\ x = a + b + c /\ x \in Nat
    BY RefsParts
  <2>2. e \in Nat /\ e <= b /\ b2 = b - e
    BY <1>3, FS_CardinalityType
  <2>3. LeasesOn(s, B) = e
    BY DEF LeasesOn, On
  <2>4. sl2[s].refs = Max({0, x - e})
    BY <1>4, <2>3
  <2> HIDE DEF a, b, b2, c, e, x
  <2>5. e <= x
    BY <2>1, <2>2
  <2>6. sl2[s].refs = x - e
    BY <2>1, <2>2, <2>4, <2>5, MaxZero
  <2>7. sl2[s].refs = a + b2 + c
    BY <2>1, <2>2, <2>6
  <2>8. sl2[s].refs <= x
    BY <2>1, <2>2, <2>6
  <2> QED BY <2>7, <2>8 DEF a, b2, c, x
<1>6. RefsV(sl2, rd, st2)
  <2>1. \A s \in Slots : IsFiniteSet(FillSet(rd, s))
    BY RefsParts
  <2> QED BY <1>3, <1>5, <2>1 DEF RefsV
<1> QED BY <1>5, <1>6 DEF st2

-----------------------------------------------------------------------------
(* The inductive invariant. *)

SlotRec == [page : Pages \cup {NoPage}, st : {"empty", "loading", "ready", "error"}, refs : Nat, awaited : BOOLEAN]
WorkerRec == [pc : {"run", "asleep", "read", "gone"}, slot : Slots \cup {NoSlot}]
PCs == {"idle", "fill", "page", "blocked", "ready", "await", "woken", "drop", "enqueue", "abort"}
ReaderRec == [pc : PCs, rows : Seq(RowSet), n : 0..Tile, tile : SUBSET Lease, got : SUBSET Lease,
              want : Slots \cup {NoSlot}, failed : BOOLEAN]

CacheTypes ==
  /\ slots \in [Slots -> SlotRec] /\ data \in [Slots -> Pages \cup {Torn}] /\ lru \in Orders
  /\ queue \in Seq(Slots) /\ worker \in [Workers -> WorkerRec]

\* A page is in a way of its set, and a page that is ready has been read.
Placed ==
  \A s \in Slots :
    /\ slots[s].st # "empty" => slots[s].page \in Pages /\ s \in WaysOf(slots[s].page)
    /\ slots[s].st = "empty" => slots[s].refs = 0
    /\ slots[s].st = "ready" => data[s] = slots[s].page

OneEntry ==
  \A s, t \in Slots : slots[s].page = slots[t].page /\ Entry(slots[s].page, s) /\ Entry(slots[t].page, t) => s = t

\* Every slot that is loading is queued or read, once.
Loads ==
  /\ \A i, j \in DOMAIN queue : queue[i] = queue[j] => i = j
  /\ \A i \in DOMAIN queue : slots[queue[i]].st = "loading"
  /\ \A w \in Workers : worker[w].pc = "read" =>
       /\ worker[w].slot \in Slots /\ slots[worker[w].slot].st = "loading"
       /\ \A i \in DOMAIN queue : queue[i] # worker[w].slot
       /\ \A v \in Workers : worker[v].pc = "read" /\ worker[v].slot = worker[w].slot => v = w
  /\ \A s \in Slots : slots[s].st = "loading" =>
       (\E i \in DOMAIN queue : queue[i] = s) \/ (\E w \in Workers : worker[w].pc = "read" /\ worker[w].slot = s)

CacheInv == CacheTypes /\ Placed /\ OneEntry /\ Loads

LEMMA SlotFields ==
  ASSUME NEW x \in SlotRec
  PROVE  /\ x.page \in Pages \cup {NoPage} /\ x.st \in {"empty", "loading", "ready", "error"} /\ x.refs \in Nat
         /\ x.awaited \in BOOLEAN
BY DEF SlotRec

\* Slots whose pages and states stay, and that no new reference brings back.
Quiet(new, old) ==
  /\ new \in [Slots -> SlotRec]
  /\ \A s \in Slots :
       /\ new[s].st = old[s].st /\ new[s].page = old[s].page
       /\ old[s].st \in {"empty", "error"} /\ old[s].refs = 0 => new[s].refs = 0

LEMMA QuietCache ==
  ASSUME CacheInv, Quiet(slots', slots), lru' \in Orders, UNCHANGED <<data, queue, worker>> PROVE CacheInv'
<1>1. CacheTypes'
  BY DEF CacheInv, CacheTypes, Quiet
<1>2. Placed'
  BY DEF CacheInv, Placed, Quiet
<1>3. OneEntry'
  <2>1. ASSUME NEW s \in Slots, Entry(slots[s].page, s)' PROVE Entry(slots[s].page, s)
    BY <2>1 DEF Quiet, Entry
  <2>2. \A s \in Slots : slots'[s].page = slots[s].page
    BY DEF Quiet
  <2> QED BY <2>1, <2>2 DEF CacheInv, OneEntry
<1>4. Loads'
  <2>1. \A s \in Slots : slots'[s].st = slots[s].st
    BY DEF Quiet
  <2>2. \A i \in DOMAIN queue : queue[i] \in Slots
    BY DEF CacheInv, CacheTypes
  <2> QED BY <2>1, <2>2 DEF CacheInv, Loads
<1> QED BY <1>1, <1>2, <1>3, <1>4 DEF CacheInv

\* A page is matched by one slot only.
LEMMA MatchFacts ==
  ASSUME CacheInv, NEW p \in Pages
  PROVE  /\ \A s \in Matches(p) : s \in Slots /\ s \in WaysOf(p) /\ Entry(p, s) /\ slots[s].page = p
         /\ \A s, t \in Matches(p) : s = t
         /\ Matches(p) = {} => \A s \in Slots : ~Entry(p, s)
<1>1. ASSUME NEW s \in Matches(p) PROVE s \in Slots /\ s \in WaysOf(p) /\ Entry(p, s) /\ slots[s].page = p
  BY Layout DEF Matches, Entry
<1>2. ASSUME NEW s \in Matches(p), NEW t \in Matches(p) PROVE s = t
  BY <1>1 DEF CacheInv, OneEntry
<1>3. ASSUME NEW s \in Slots, Entry(p, s) PROVE s \in Matches(p)
  BY <1>3 DEF CacheInv, Placed, Entry, Matches
<1> QED BY <1>1, <1>2, <1>3

LEMMA VictimFacts ==
  ASSUME CacheInv, NEW p \in Pages, Fresh(p) \cup Evictable(p) # {}
  PROVE  /\ Victim(p) \in Slots /\ Victim(p) \in WaysOf(p)
         /\ slots[Victim(p)].st # "loading" /\ slots[Victim(p)].refs = 0
<1>1. WaysOf(p) \subseteq Slots
  BY Layout
<1>2. \A s \in Fresh(p) \cup Evictable(p) : s \in Slots /\ s \in WaysOf(p) /\ slots[s].st # "loading" /\ slots[s].refs = 0
  BY <1>1 DEF Fresh, Evictable, CacheInv, Placed
<1>3. CASE Fresh(p) # {}
  <2> DEFINE all == Sets * Ways
  <2>1. all \in Nat /\ Slots = 1..all
    BY Layout DEF Slots
  <2>2. Fresh(p) \subseteq 0..all
    <3> HIDE DEF all
    <3> QED BY <1>2, <2>1
  <2> HIDE DEF all
  <2>3. Max(Fresh(p)) \in Fresh(p)
    BY <1>3, <2>1, <2>2, MaxIn
  <2>4. Victim(p) = Max(Fresh(p))
    BY <1>3 DEF Victim
  <2> QED BY <1>2, <2>3, <2>4
<1>4. CASE Fresh(p) = {}
  <2> DEFINE T == {i \in DOMAIN lru : lru[i] \in Evictable(p)}
  <2>1. lru \in Orders /\ DOMAIN lru = Slots
    BY OrderFacts DEF CacheInv, CacheTypes
  <2>2. PICK s \in Evictable(p) : TRUE
    BY <1>4
  <2>3. PICK i \in Slots : lru[i] = s
    BY <1>2, <2>1, <2>2 DEF Orders
  <2>4. T # {} /\ T \subseteq Nat
    BY <2>1, <2>2, <2>3 DEF Slots
  <2>5. Min(T) \in T
    <3> HIDE DEF T
    <3> QED BY <2>4, MinIn
  <2>6. Victim(p) = lru[Min(T)]
    BY <1>4 DEF Victim
  <2> QED BY <1>2, <2>5, <2>6
<1> QED BY <1>3, <1>4

LEMMA HitCache == ASSUME CacheInv, NEW p \in Pages, NEW hold \in Nat, Hit(p, hold) PROVE CacheInv'
<1>1. PICK s \in Matches(p) :
        /\ slots' = [slots EXCEPT ![s].refs = @ + hold] /\ lru' = Touch(lru, s) /\ UNCHANGED <<data, queue, worker>>
  BY DEF Hit
<1>2. s \in Slots /\ Entry(p, s)
  BY MatchFacts
<1>3. slots \in [Slots -> SlotRec] /\ lru \in Orders
  BY DEF CacheInv, CacheTypes
<1>4. lru' \in Orders
  BY <1>1, <1>2, <1>3, TouchKeeps
<1>5. Quiet(slots', slots)
  <2>1. slots' \in [Slots -> SlotRec]
    BY <1>1, <1>2, <1>3 DEF SlotRec
  <2>2. ASSUME NEW t \in Slots
        PROVE  /\ slots'[t].st = slots[t].st /\ slots'[t].page = slots[t].page
               /\ slots[t].st \in {"empty", "error"} /\ slots[t].refs = 0 => slots'[t].refs = 0
    BY <1>1, <1>2, <1>3 DEF SlotRec, Entry
  <2> QED BY <2>1, <2>2 DEF Quiet
<1> QED BY <1>1, <1>4, <1>5, QuietCache

LEMMA RecycleCache == ASSUME CacheInv, NEW p \in Pages, NEW hold \in Nat, Recycle(p, hold) PROVE CacheInv'
<1> DEFINE v == Victim(p)
<1>1. v \in Slots /\ v \in WaysOf(p) /\ slots[v].st # "loading" /\ slots[v].refs = 0
  BY VictimFacts DEF Recycle
<1>2. /\ slots' = [slots EXCEPT ![v] = [slots[v] EXCEPT !.page = p, !.st = "loading", !.refs = hold]]
      /\ lru' = Touch(lru, v) /\ queue' = Append(queue, v) /\ data' = data
  BY DEF Recycle
<1>3. /\ worker' \in [Workers -> WorkerRec]
      /\ \A w \in Workers : worker'[w].slot = worker[w].slot /\ (worker'[w].pc = "read" <=> worker[w].pc = "read")
  <2>1. worker \in [Workers -> WorkerRec]
    BY DEF CacheInv, CacheTypes
  <2>2. CASE worker' = worker
    BY <2>1, <2>2
  <2>3. CASE worker' # worker
    <3>1. PICK w \in Workers : worker[w].pc = "asleep" /\ worker' = [worker EXCEPT ![w].pc = "run"]
      BY <2>3 DEF Recycle
    <3> QED BY <2>1, <3>1 DEF WorkerRec
  <2> QED BY <2>2, <2>3
<1>4. Matches(p) = {}
  BY DEF Recycle
<1>5. slots \in [Slots -> SlotRec] /\ lru \in Orders /\ queue \in Seq(Slots) /\ data \in [Slots -> Pages \cup {Torn}]
  BY DEF CacheInv, CacheTypes
<1> HIDE DEF v
<1>6. /\ slots' \in [Slots -> SlotRec]
      /\ slots'[v].page = p /\ slots'[v].st = "loading" /\ \A s \in Slots \ {v} : slots'[s] = slots[s]
  <2> DEFINE x == slots[v]
             y == [x EXCEPT !.page = p, !.st = "loading", !.refs = hold]
  <2>1. x \in SlotRec
    BY <1>1, <1>5
  <2> HIDE DEF x
  <2>2. y \in SlotRec /\ y.page = p /\ y.st = "loading"
    BY <2>1 DEF SlotRec
  <2>3. slots' = [slots EXCEPT ![v] = y]
    BY <1>2 DEF x
  <2> HIDE DEF y
  <2> QED BY <1>1, <1>5, <2>2, <2>3
<1>7. CacheTypes'
  <2>1. lru' \in Orders
    BY <1>1, <1>2, <1>5, TouchKeeps
  <2> QED BY <1>1, <1>2, <1>3, <1>5, <1>6, <2>1 DEF CacheTypes
<1>8. Placed'
  <2>1. ASSUME NEW s \in Slots
        PROVE  /\ slots'[s].st # "empty" => slots'[s].page \in Pages /\ s \in WaysOf(slots'[s].page)
               /\ slots'[s].st = "empty" => slots'[s].refs = 0
               /\ slots'[s].st = "ready" => data'[s] = slots'[s].page
    <3>1. CASE s = v
      BY <1>1, <1>6, <3>1
    <3>2. CASE s # v
      BY <1>2, <1>6, <3>2 DEF CacheInv, Placed
    <3> QED BY <3>1, <3>2
  <2> QED BY <2>1 DEF Placed, WaysOf
<1>9. OneEntry'
  <2>1. \A s \in Slots : ~Entry(p, s)
    BY <1>4, MatchFacts
  <2>2. ASSUME NEW s \in Slots \ {v}, Entry(slots[s].page, s)' PROVE Entry(slots[s].page, s) /\ slots[s].page # p
    BY <1>6, <2>1, <2>2 DEF Entry
  <2> QED BY <1>6, <2>2 DEF CacheInv, OneEntry
<1>10. Loads'
  <2> DEFINE n == Len(queue)
  <2>1. /\ n \in Nat /\ DOMAIN queue = 1..n /\ DOMAIN queue' = 1..(n + 1) /\ queue'[n + 1] = v
        /\ \A i \in 1..n : queue'[i] = queue[i] /\ queue[i] \in Slots
    BY <1>1, <1>2, <1>5
  <2> HIDE DEF n
  <2>2. \A i \in 1..n : queue[i] # v
    BY <1>1, <2>1 DEF CacheInv, Loads
  <2>3. \A i \in 1..(n + 1) : i # n + 1 => i \in 1..n
    BY <2>1
  <2>4. \A i, j \in DOMAIN queue' : queue'[i] = queue'[j] => i = j
    BY <2>1, <2>2, <2>3 DEF CacheInv, Loads
  <2>5. \A i \in DOMAIN queue' : slots'[queue'[i]].st = "loading"
    BY <1>6, <2>1, <2>2, <2>3 DEF CacheInv, Loads
  <2>6. ASSUME NEW w \in Workers, worker'[w].pc = "read"
        PROVE  /\ worker'[w].slot \in Slots /\ slots'[worker'[w].slot].st = "loading"
               /\ \A i \in DOMAIN queue' : queue'[i] # worker'[w].slot
               /\ \A u \in Workers : worker'[u].pc = "read" /\ worker'[u].slot = worker'[w].slot => u = w
    <3>1. /\ worker[w].slot \in Slots /\ slots[worker[w].slot].st = "loading"
          /\ \A i \in DOMAIN queue : queue[i] # worker[w].slot
          /\ \A u \in Workers : worker[u].pc = "read" /\ worker[u].slot = worker[w].slot => u = w
      BY <1>3, <2>6 DEF CacheInv, Loads
    <3>2. worker[w].slot # v
      BY <1>1, <3>1
    <3>3. \A i \in DOMAIN queue' : queue'[i] # worker'[w].slot
      BY <1>3, <2>1, <2>3, <3>1, <3>2
    <3> QED BY <1>3, <1>6, <3>1, <3>2, <3>3
  <2>7. ASSUME NEW s \in Slots, slots'[s].st = "loading"
        PROVE  (\E i \in DOMAIN queue' : queue'[i] = s) \/ (\E w \in Workers : worker'[w].pc = "read" /\ worker'[w].slot = s)
    <3>1. CASE s = v
      <4>1. n + 1 \in DOMAIN queue'
        BY <2>1
      <4> QED BY <2>1, <3>1, <4>1
    <3>2. CASE s # v
      <4>1. (\E i \in DOMAIN queue : queue[i] = s) \/ (\E w \in Workers : worker[w].pc = "read" /\ worker[w].slot = s)
        BY <1>6, <2>7, <3>2 DEF CacheInv, Loads
      <4>2. \A i \in 1..n : i \in 1..(n + 1)
        BY <2>1
      <4> QED BY <1>3, <2>1, <4>1, <4>2
    <3> QED BY <3>1, <3>2
  <2> QED BY <2>4, <2>5, <2>6, <2>7 DEF Loads
<1> QED BY <1>7, <1>8, <1>9, <1>10 DEF CacheInv

\* A worker that sleeps, wakes or ends holds no slot.
LEMMA RestCache ==
  ASSUME CacheInv, UNCHANGED <<slots, data, lru, queue>>, worker' \in [Workers -> WorkerRec],
         \A w \in Workers : worker'[w].slot = worker[w].slot /\ (worker'[w].pc = "read" <=> worker[w].pc = "read")
  PROVE  CacheInv'
<1>1. CacheTypes'
  BY DEF CacheInv, CacheTypes
<1>2. Placed'
  BY DEF CacheInv, Placed
<1>3. OneEntry'
  BY DEF CacheInv, OneEntry, Entry
<1>4. Loads'
  BY DEF CacheInv, Loads
<1> QED BY <1>1, <1>2, <1>3, <1>4 DEF CacheInv

LEMMA TakesCache == ASSUME CacheInv, NEW w \in Workers, WorkerTakes(w) PROVE CacheInv'
<1> DEFINE h == Head(queue)
           n == Len(queue)
<1>1. /\ worker[w].pc = "run" /\ queue # <<>> /\ worker' = [worker EXCEPT ![w] = [pc |-> "read", slot |-> h]]
      /\ queue' = Tail(queue) /\ data' = [data EXCEPT ![h] = Torn] /\ UNCHANGED <<slots, lru>>
  BY DEF WorkerTakes
<1>2. slots \in [Slots -> SlotRec] /\ queue \in Seq(Slots) /\ data \in [Slots -> Pages \cup {Torn}] /\ worker \in [Workers -> WorkerRec]
  BY DEF CacheInv, CacheTypes
<1>3. /\ n \in Nat /\ n >= 1 /\ DOMAIN queue = 1..n /\ DOMAIN queue' = 1..(n - 1) /\ queue' \in Seq(Slots)
      /\ queue[1] = h /\ h \in Slots /\ \A i \in 1..(n - 1) : queue'[i] = queue[i + 1]
  <2>1. n \in Nat /\ n >= 1 /\ DOMAIN queue = 1..n /\ queue[1] = h /\ h \in Slots
    BY <1>1, <1>2
  <2>2. Len(Tail(queue)) = n - 1 /\ Tail(queue) \in Seq(Slots) /\ \A i \in 1..(n - 1) : Tail(queue)[i] = queue[i + 1]
    BY <1>2, <2>1
  <2> QED BY <1>1, <2>1, <2>2
<1> HIDE DEF h, n
<1>4. worker' \in [Workers -> WorkerRec] /\ worker'[w] = [pc |-> "read", slot |-> h] /\ \A u \in Workers \ {w} : worker'[u] = worker[u]
  BY <1>1, <1>2, <1>3 DEF WorkerRec
<1>5. slots[h].st = "loading"
  BY <1>3 DEF CacheInv, Loads
<1>6. CacheTypes'
  <2>1. data' \in [Slots -> Pages \cup {Torn}]
    BY <1>1, <1>2, <1>3
  <2> QED BY <1>1, <1>3, <1>4, <2>1 DEF CacheInv, CacheTypes
<1>7. Placed'
  <2>1. \A s \in Slots : s # h => data'[s] = data[s]
    BY <1>1, <1>2
  <2> QED BY <1>1, <1>5, <2>1 DEF CacheInv, Placed
<1>8. OneEntry'
  BY <1>1 DEF CacheInv, OneEntry, Entry
<1>9. Loads'
  <2>1. \A i \in 1..(n - 1) : i + 1 \in 1..n /\ i + 1 # 1 /\ queue'[i] = queue[i + 1]
    BY <1>3
  <2>2. ASSUME NEW i \in DOMAIN queue', NEW j \in DOMAIN queue', queue'[i] = queue'[j] PROVE i = j
    <3>1. i + 1 = j + 1
      BY <1>3, <2>1, <2>2 DEF CacheInv, Loads
    <3> QED BY <1>3, <3>1
  <2>3. \A i \in DOMAIN queue' : slots'[queue'[i]].st = "loading"
    BY <1>1, <1>3, <2>1 DEF CacheInv, Loads
  <2>4. \A i \in DOMAIN queue' : queue'[i] # h
    BY <1>3, <2>1 DEF CacheInv, Loads
  <2>5. ASSUME NEW u \in Workers, u # w, worker'[u].pc = "read"
        PROVE  /\ worker'[u].slot \in Slots /\ slots'[worker'[u].slot].st = "loading" /\ worker'[u].slot # h
               /\ \A i \in DOMAIN queue' : queue'[i] # worker'[u].slot
               /\ \A v \in Workers : worker'[v].pc = "read" /\ worker'[v].slot = worker'[u].slot => v = u
    <3>1. /\ worker[u].slot \in Slots /\ slots[worker[u].slot].st = "loading"
          /\ \A i \in DOMAIN queue : queue[i] # worker[u].slot
          /\ \A v \in Workers : worker[v].pc = "read" /\ worker[v].slot = worker[u].slot => v = u
      BY <1>4, <2>5 DEF CacheInv, Loads
    <3>2. worker[u].slot # h
      BY <1>3, <3>1
    <3>3. \A i \in DOMAIN queue' : queue'[i] # worker[u].slot
      BY <1>3, <2>1, <3>1
    <3> QED BY <1>1, <1>4, <2>5, <3>1, <3>2, <3>3
  <2>6. ASSUME NEW u \in Workers, worker'[u].pc = "read"
        PROVE  /\ worker'[u].slot \in Slots /\ slots'[worker'[u].slot].st = "loading"
               /\ \A i \in DOMAIN queue' : queue'[i] # worker'[u].slot
               /\ \A v \in Workers : worker'[v].pc = "read" /\ worker'[v].slot = worker'[u].slot => v = u
    <3>1. CASE u = w
      BY <1>1, <1>3, <1>4, <1>5, <2>4, <2>5, <3>1
    <3>2. CASE u # w
      BY <2>5, <2>6, <3>2
    <3> QED BY <3>1, <3>2
  <2>7. ASSUME NEW s \in Slots, slots'[s].st = "loading"
        PROVE  (\E i \in DOMAIN queue' : queue'[i] = s) \/ (\E u \in Workers : worker'[u].pc = "read" /\ worker'[u].slot = s)
    <3>1. CASE s = h
      BY <1>4, <3>1
    <3>2. CASE s # h
      <4>1. (\E i \in DOMAIN queue : queue[i] = s) \/ (\E u \in Workers : worker[u].pc = "read" /\ worker[u].slot = s)
        BY <1>1, <2>7 DEF CacheInv, Loads
      <4>2. ASSUME NEW i \in DOMAIN queue, queue[i] = s PROVE \E j \in DOMAIN queue' : queue'[j] = s
        <5>1. i - 1 \in 1..(n - 1) /\ (i - 1) + 1 = i
          BY <1>3, <3>2, <4>2
        <5> QED BY <1>3, <4>2, <5>1
      <4>3. ASSUME NEW u \in Workers, worker[u].pc = "read", worker[u].slot = s
            PROVE  \E v \in Workers : worker'[v].pc = "read" /\ worker'[v].slot = s
        BY <1>1, <1>4, <4>3
      <4> QED BY <4>1, <4>2, <4>3
    <3> QED BY <3>1, <3>2
  <2> QED BY <2>2, <2>3, <2>6, <2>7 DEF Loads
<1> QED BY <1>6, <1>7, <1>8, <1>9 DEF CacheInv

\* A read that ends, well or not.
LEMMA EndsCache ==
  ASSUME CacheInv, NEW w \in Workers, worker[w].pc = "read", NEW res \in {"ready", "error"},
         slots' = [slots EXCEPT ![worker[w].slot].st = res],
         data' = IF res = "ready" THEN [data EXCEPT ![worker[w].slot] = slots[worker[w].slot].page] ELSE data,
         worker' = [worker EXCEPT ![w] = [pc |-> "run", slot |-> NoSlot]], UNCHANGED <<lru, queue>>
  PROVE  CacheInv'
<1> DEFINE s == worker[w].slot
<1>1. slots \in [Slots -> SlotRec] /\ queue \in Seq(Slots) /\ data \in [Slots -> Pages \cup {Torn}] /\ worker \in [Workers -> WorkerRec]
  BY DEF CacheInv, CacheTypes
<1>2. /\ s \in Slots /\ slots[s].st = "loading" /\ \A i \in DOMAIN queue : queue[i] # s
      /\ \A v \in Workers : worker[v].pc = "read" /\ worker[v].slot = s => v = w
  BY DEF CacheInv, Loads
<1>3. slots' = [slots EXCEPT ![s].st = res] /\ data' = IF res = "ready" THEN [data EXCEPT ![s] = slots[s].page] ELSE data
  OBVIOUS
<1> HIDE DEF s
<1>4. slots[s].page \in Pages /\ s \in WaysOf(slots[s].page)
  BY <1>2 DEF CacheInv, Placed
<1>5. /\ slots' \in [Slots -> SlotRec] /\ \A t \in Slots \ {s} : slots'[t] = slots[t]
      /\ slots'[s].st = res /\ slots'[s].page = slots[s].page /\ slots'[s].refs = slots[s].refs
  BY <1>1, <1>2, <1>3 DEF SlotRec
<1>6. /\ data' \in [Slots -> Pages \cup {Torn}] /\ \A t \in Slots \ {s} : data'[t] = data[t]
      /\ res = "ready" => data'[s] = slots[s].page
  BY <1>1, <1>2, <1>3, <1>4
<1>7. worker' \in [Workers -> WorkerRec] /\ worker'[w].pc = "run" /\ \A u \in Workers \ {w} : worker'[u] = worker[u]
  BY <1>1 DEF WorkerRec
<1>8. CacheTypes'
  BY <1>5, <1>6, <1>7 DEF CacheInv, CacheTypes
<1>9. Placed'
  <2>1. ASSUME NEW t \in Slots
        PROVE  /\ slots'[t].st # "empty" => slots'[t].page \in Pages /\ t \in WaysOf(slots'[t].page)
               /\ slots'[t].st = "empty" => slots'[t].refs = 0
               /\ slots'[t].st = "ready" => data'[t] = slots'[t].page
    <3>1. CASE t = s
      BY <1>4, <1>5, <1>6, <3>1
    <3>2. CASE t # s
      BY <1>5, <1>6, <3>2 DEF CacheInv, Placed
    <3> QED BY <3>1, <3>2
  <2> QED BY <2>1 DEF Placed, WaysOf
<1>10. OneEntry'
  <2>1. ASSUME NEW t \in Slots, Entry(slots[t].page, t)' PROVE Entry(slots[t].page, t) /\ slots'[t].page = slots[t].page
    <3>1. CASE t = s
      BY <1>2, <1>5, <2>1, <3>1 DEF Entry
    <3>2. CASE t # s
      BY <1>5, <2>1, <3>2 DEF Entry
    <3> QED BY <3>1, <3>2
  <2> QED BY <2>1 DEF CacheInv, OneEntry
<1>11. Loads'
  <2>1. \A i \in DOMAIN queue : queue[i] \in Slots /\ queue[i] # s /\ slots'[queue[i]] = slots[queue[i]]
    BY <1>1, <1>2, <1>5
  <2>2. ASSUME NEW u \in Workers, worker'[u].pc = "read"
        PROVE  /\ worker'[u].slot \in Slots /\ slots'[worker'[u].slot].st = "loading"
               /\ \A i \in DOMAIN queue' : queue'[i] # worker'[u].slot
               /\ \A v \in Workers : worker'[v].pc = "read" /\ worker'[v].slot = worker'[u].slot => v = u
    <3>1. u # w /\ worker'[u] = worker[u]
      BY <1>7, <2>2
    <3>2. /\ worker[u].slot \in Slots /\ slots[worker[u].slot].st = "loading"
          /\ \A i \in DOMAIN queue : queue[i] # worker[u].slot
          /\ \A v \in Workers : worker[v].pc = "read" /\ worker[v].slot = worker[u].slot => v = u
      BY <2>2, <3>1 DEF CacheInv, Loads
    <3>3. worker[u].slot # s
      BY <1>2, <2>2, <3>1
    <3> QED BY <1>5, <1>7, <3>1, <3>2, <3>3
  <2>3. ASSUME NEW t \in Slots, slots'[t].st = "loading"
        PROVE  (\E i \in DOMAIN queue' : queue'[i] = t) \/ (\E u \in Workers : worker'[u].pc = "read" /\ worker'[u].slot = t)
    <3>1. t # s /\ slots[t].st = "loading"
      BY <1>5, <2>3
    <3>2. (\E i \in DOMAIN queue : queue[i] = t) \/ (\E u \in Workers : worker[u].pc = "read" /\ worker[u].slot = t)
      BY <3>1 DEF CacheInv, Loads
    <3>3. \A u \in Workers : worker[u].slot = t => u # w
      BY <3>1 DEF s
    <3> QED BY <1>7, <3>2, <3>3
  <2>4. \A i, j \in DOMAIN queue : queue[i] = queue[j] => i = j
    BY DEF CacheInv, Loads
  <2>5. \A i \in DOMAIN queue : slots[queue[i]].st = "loading"
    BY DEF CacheInv, Loads
  <2>6. \A i \in DOMAIN queue' : slots'[queue'[i]].st = "loading"
    BY <2>1, <2>5
  <2>7. \A i, j \in DOMAIN queue' : queue'[i] = queue'[j] => i = j
    BY <2>4
  <2> QED BY <2>2, <2>3, <2>6, <2>7 DEF Loads
<1> QED BY <1>8, <1>9, <1>10, <1>11 DEF CacheInv

-----------------------------------------------------------------------------
(* The readers. *)

Wanting == {"ready", "await", "woken"}
Middle == Wanting \cup {"page", "blocked", "drop"}

\* A row that is begun has its first page, of two; the tile has the rows before it.
ReaderOK(rc) ==
  /\ rc \in ReaderRec
  /\ rc.pc = "idle" => rc = Idle
  /\ rc.pc # "idle" => rc.rows # <<>>
  /\ rc.pc = "fill" => rc.n = 0 /\ rc.tile = {}
  /\ rc.pc \in {"fill", "enqueue", "abort"} => rc.got = {}
  /\ rc.pc \in Middle => rc.n < Tile /\ rc.n < Len(rc.rows)
  /\ rc.want # NoSlot <=> rc.pc \in Wanting
  /\ rc.got # {} => Len(rc.rows[rc.n + 1]) = 2 /\ \E l \in Lease : rc.got = {l} /\ l.place = <<rc.n + 1, 1>>
  /\ \A l \in rc.tile : l.place[1] <= rc.n

ReadersV(rd) == rd \in [Readers -> ReaderRec] /\ \A r \in Readers : ReaderOK(rd[r])

NextOf(rc) == rc.rows[rc.n + 1][(IF rc.got = {} THEN 0 ELSE 1) + 1]

\* The slot a gather waits for holds the page it asked for.
WantsV(sl, rd) ==
  \A r \in Readers : rd[r].want # NoSlot =>
    rd[r].want \in Slots /\ sl[rd[r].want].st # "empty" /\ sl[rd[r].want].page = NextOf(rd[r])

\* LeasesIntact.
Intact(sl, dt, l) == sl[l.slot].st = "ready" /\ sl[l.slot].page = l.page /\ dt[l.slot] = l.page
LeasesV(sl, dt, rd, st) ==
  \A r \in Readers :
    /\ \A l \in Kept(rd[r]) : Intact(sl, dt, l)
    /\ \A i \in DOMAIN st[r] : \A l \in st[r][i] : Intact(sl, dt, l)

\* While a failed read is referred to, every gather under way has met a failure.
FaultsV(sl, rd, flt) ==
  /\ \A r \in Readers : rd[r].failed => r \in flt
  /\ (\E s \in Slots : sl[s].st = "error" /\ sl[s].refs > 0) =>
       \A r \in Readers : rd[r].pc # "idle" => r \in flt

LinksV(sl, dt, rd, st, flt) ==
  WantsV(sl, rd) /\ LeasesV(sl, dt, rd, st) /\ RefsV(sl, rd, st) /\ FaultsV(sl, rd, flt)

EngineInv ==
  /\ engine \in {"open", "drain", "stop", "freed"}
  /\ engine # "open" => \A r \in Readers : reader[r].pc = "idle"
  /\ engine \in {"stop", "freed"} => \A r \in Readers : stream[r] = <<>>
  /\ engine = "freed" => \A w \in Workers : worker[w].pc = "gone"

PleInv ==
  /\ CacheInv /\ ReadersV(reader) /\ stream \in [Readers -> Seq(SUBSET Lease)]
  /\ LinksV(slots, data, reader, stream, faulted) /\ EngineInv

LEMMA IdleReader == ReaderOK(Idle) /\ Kept(Idle) = {} /\ Idle.want = NoSlot /\ Idle.failed = FALSE /\ Idle.pc = "idle"
<1>1. Idle \in ReaderRec
  BY TileKnown DEF Idle, ReaderRec, PCs
<1> QED BY <1>1 DEF Idle, ReaderOK, Kept, Middle, Wanting

LEMMA ReaderFields ==
  ASSUME NEW rc \in ReaderRec
  PROVE  /\ rc.pc \in PCs /\ rc.rows \in Seq(RowSet) /\ rc.n \in 0..Tile /\ rc.tile \subseteq Lease /\ rc.got \subseteq Lease
         /\ rc.want \in Slots \cup {NoSlot} /\ rc.failed \in BOOLEAN
BY DEF ReaderRec

\* The page that comes next is one.
LEMMA NextFacts ==
  ASSUME NEW rc, ReaderOK(rc), rc.pc \in Middle
  PROVE  /\ rc.rows[rc.n + 1] \in RowSet /\ NextOf(rc) \in Pages /\ rc.n + 1 \in 1..Tile
         /\ rc.n + 1 \in 1..Len(rc.rows)
         /\ rc.got = {} => NextOf(rc) = rc.rows[rc.n + 1][1]
         /\ rc.got # {} => NextOf(rc) = rc.rows[rc.n + 1][2]
<1>1. rc.rows \in Seq(RowSet) /\ rc.n \in 0..Tile /\ rc.n < Tile /\ rc.n < Len(rc.rows)
  BY ReaderFields DEF ReaderOK
<1>2. rc.n + 1 \in 1..Len(rc.rows) /\ rc.n + 1 \in 1..Tile /\ Len(rc.rows) \in Nat
  BY <1>1, TileKnown
<1>3. rc.rows[rc.n + 1] \in RowSet
  BY <1>1, <1>2
<1>4. rc.got # {} => Len(rc.rows[rc.n + 1]) = 2
  BY DEF ReaderOK
<1>5. rc.got = {} => NextOf(rc) = rc.rows[rc.n + 1][1]
  BY DEF NextOf
<1>6. rc.got # {} => NextOf(rc) = rc.rows[rc.n + 1][2]
  BY DEF NextOf
<1>7. NextOf(rc) \in Pages
  BY <1>3, <1>4, <1>5, <1>6, RowFacts
<1> QED BY <1>2, <1>3, <1>5, <1>6, <1>7

\* Readers that differ in their program counters only, and not in being idle.
SameBody(rd2, rd) ==
  \A q \in Readers :
    /\ rd2[q].rows = rd[q].rows /\ rd2[q].n = rd[q].n /\ rd2[q].tile = rd[q].tile /\ rd2[q].got = rd[q].got
    /\ rd2[q].want = rd[q].want /\ rd2[q].failed = rd[q].failed /\ (rd2[q].pc = "idle" <=> rd[q].pc = "idle")

LEMMA BodyLinks ==
  ASSUME NEW sl, NEW dt, NEW rd, NEW rd2, NEW st, NEW flt, LinksV(sl, dt, rd, st, flt), SameBody(rd2, rd)
  PROVE  LinksV(sl, dt, rd2, st, flt)
<1>1. ASSUME NEW q \in Readers
      PROVE  /\ Kept(rd2[q]) = Kept(rd[q]) /\ rd2[q].want = rd[q].want /\ NextOf(rd2[q]) = NextOf(rd[q])
             /\ rd2[q].failed = rd[q].failed /\ (rd2[q].pc = "idle" <=> rd[q].pc = "idle")
  BY DEF SameBody, Kept, NextOf
<1>2. WantsV(sl, rd2)
  BY <1>1 DEF LinksV, WantsV
<1>3. LeasesV(sl, dt, rd2, st)
  BY <1>1 DEF LinksV, LeasesV
<1>4. RefsV(sl, rd2, st)
  <2>1. RefsV(sl, rd, st) /\ \A s \in Slots : sl[s].refs = sl[s].refs
    BY DEF LinksV
  <2> QED BY <1>1, <2>1, RefsKept
<1>5. FaultsV(sl, rd2, flt)
  BY <1>1 DEF LinksV, FaultsV
<1> QED BY <1>2, <1>3, <1>4, <1>5 DEF LinksV

LEMMA WokenRec ==
  ASSUME NEW rc, ReaderOK(rc), NEW pc, \/ rc.pc = "blocked" /\ pc = "page"
                                       \/ rc.pc = "await" /\ pc = "woken"
  PROVE  LET x == [rc EXCEPT !.pc = pc]
         IN  /\ ReaderOK(x) /\ x.rows = rc.rows /\ x.n = rc.n /\ x.tile = rc.tile /\ x.got = rc.got
             /\ x.want = rc.want /\ x.failed = rc.failed /\ x.pc # "idle" /\ rc.pc # "idle"
<1> DEFINE x == [rc EXCEPT !.pc = pc]
<1>1. rc \in ReaderRec /\ pc \in PCs
  BY DEF ReaderOK, PCs
<1>2. /\ x \in ReaderRec /\ x.pc = pc /\ x.rows = rc.rows /\ x.n = rc.n /\ x.tile = rc.tile /\ x.got = rc.got
      /\ x.want = rc.want /\ x.failed = rc.failed
  BY <1>1 DEF ReaderRec
<1>3. pc \notin {"idle", "fill", "enqueue", "abort"} /\ rc.pc # "idle" /\ rc.pc \in Middle /\ pc \in Middle
  BY DEF Middle, Wanting
<1>4. pc \in Wanting <=> rc.pc \in Wanting
  BY DEF Wanting
<1> HIDE DEF x
<1>5. ReaderOK(x)
  BY <1>2, <1>3, <1>4 DEF ReaderOK
<1>6. x.pc # "idle"
  BY <1>2, <1>3
<1> QED BY <1>2, <1>3, <1>5, <1>6 DEF x

LEMMA WokenReaders == ASSUME NEW rd, ReadersV(rd) PROVE ReadersV(Woken(rd)) /\ SameBody(Woken(rd), rd)
<1> DEFINE wk == Woken(rd)
<1>1. ASSUME NEW q \in Readers
      PROVE  /\ ReaderOK(wk[q])
             /\ wk[q].rows = rd[q].rows /\ wk[q].n = rd[q].n /\ wk[q].tile = rd[q].tile /\ wk[q].got = rd[q].got
             /\ wk[q].want = rd[q].want /\ wk[q].failed = rd[q].failed /\ (wk[q].pc = "idle" <=> rd[q].pc = "idle")
  <2>1. ReaderOK(rd[q])
    BY DEF ReadersV
  <2>2. CASE rd[q].pc = "blocked"
    <3>1. wk[q] = [rd[q] EXCEPT !.pc = "page"]
      BY <2>2 DEF Woken
    <3> HIDE DEF wk
    <3> QED BY <2>1, <2>2, <3>1, WokenRec
  <2>3. CASE rd[q].pc = "await"
    <3>1. wk[q] = [rd[q] EXCEPT !.pc = "woken"]
      BY <2>3 DEF Woken
    <3> HIDE DEF wk
    <3> QED BY <2>1, <2>3, <3>1, WokenRec
  <2>4. CASE rd[q].pc \notin {"blocked", "await"}
    <3>1. wk[q] = rd[q]
      BY <2>4 DEF Woken
    <3> QED BY <2>1, <3>1
  <2> QED BY <2>2, <2>3, <2>4
<1>2. wk = [q \in Readers |-> wk[q]]
  BY DEF Woken
<1> HIDE DEF wk
<1>3. wk \in [Readers -> ReaderRec]
  BY <1>1, <1>2 DEF ReaderOK
<1> QED BY <1>1, <1>3 DEF ReadersV, SameBody, wk

\* Whatever a broadcast wakes.
LEMMA Wakes ==
  ASSUME NEW sl, NEW dt, NEW rd, NEW st, NEW flt, ReadersV(rd), LinksV(sl, dt, rd, st, flt), NEW rd2 \in {rd, Woken(rd)}
  PROVE  ReadersV(rd2) /\ LinksV(sl, dt, rd2, st, flt) /\ \A q \in Readers : rd2[q].pc = "idle" <=> rd[q].pc = "idle"
<1>1. CASE rd2 = rd
  BY <1>1
<1>2. CASE rd2 = Woken(rd)
  <2>1. ReadersV(rd2) /\ SameBody(rd2, rd)
    BY <1>2, WokenReaders
  <2> QED BY <2>1, BodyLinks DEF SameBody
<1> QED BY <1>1, <1>2

\* What a slot that is referred to keeps.
Stays(sl, dt, sl2, dt2) ==
  \A s \in Slots : sl[s].refs # 0 =>
    /\ sl2[s].page = sl[s].page /\ (sl[s].st # "empty" => sl2[s].st # "empty")
    /\ sl[s].st = "ready" => sl2[s].st = "ready" /\ dt2[s] = dt[s]

LEMMA LeaseTypes ==
  ASSUME NEW rd, NEW st \in [Readers -> Seq(SUBSET Lease)], ReadersV(rd), NEW r \in Readers
  PROVE  /\ \A l \in Kept(rd[r]) : l \in Lease
         /\ \A i \in DOMAIN st[r] : \A l \in st[r][i] : l \in Lease
         /\ \A l \in Lease : l.slot \in Slots /\ l.page \in Pages
<1>1. rd[r] \in ReaderRec
  BY DEF ReadersV
<1>2. \A l \in Kept(rd[r]) : l \in Lease
  BY <1>1, ReaderFields DEF Kept
<1>3. st[r] \in Seq(SUBSET Lease)
  OBVIOUS
<1>4. \A i \in DOMAIN st[r] : st[r][i] \in SUBSET Lease
  BY <1>3
<1> QED BY <1>2, <1>4 DEF Lease

LEMMA LinksFrame ==
  ASSUME NEW sl, NEW dt, NEW sl2, NEW dt2, NEW rd, NEW st \in [Readers -> Seq(SUBSET Lease)], NEW flt,
         ReadersV(rd), LinksV(sl, dt, rd, st, flt), Stays(sl, dt, sl2, dt2)
  PROVE  WantsV(sl2, rd) /\ LeasesV(sl2, dt2, rd, st)
<1>1. WantsV(sl, rd) /\ LeasesV(sl, dt, rd, st) /\ RefsV(sl, rd, st)
  BY DEF LinksV
<1>2. ASSUME NEW s \in Slots, sl[s].refs = 0
      PROVE  /\ \A r \in Readers : rd[r].want # s /\ \A l \in Kept(rd[r]) : l.slot # s
             /\ \A r \in Readers : \A i \in DOMAIN st[r] : \A l \in st[r][i] : l.slot # s
  BY <1>1, <1>2, Unreferenced
<1>3. WantsV(sl2, rd)
  <2>1. ASSUME NEW r \in Readers, rd[r].want # NoSlot
        PROVE  rd[r].want \in Slots /\ sl2[rd[r].want].st # "empty" /\ sl2[rd[r].want].page = NextOf(rd[r])
    <3>1. rd[r].want \in Slots /\ sl[rd[r].want].st # "empty" /\ sl[rd[r].want].page = NextOf(rd[r])
      BY <1>1, <2>1 DEF WantsV
    <3>2. sl[rd[r].want].refs # 0
      BY <1>2, <3>1
    <3> QED BY <3>1, <3>2 DEF Stays
  <2> QED BY <2>1 DEF WantsV
<1>4. ASSUME NEW r \in Readers, NEW l \in Kept(rd[r]) PROVE Intact(sl2, dt2, l)
  <2>1. Intact(sl, dt, l) /\ l.slot \in Slots
    BY <1>1, LeaseTypes DEF LeasesV
  <2>2. sl[l.slot].refs # 0
    BY <1>2, <2>1
  <2> QED BY <2>1, <2>2 DEF Intact, Stays
<1>5. ASSUME NEW r \in Readers, NEW i \in DOMAIN st[r], NEW l \in st[r][i] PROVE Intact(sl2, dt2, l)
  <2>1. Intact(sl, dt, l) /\ l.slot \in Slots
    BY <1>1, LeaseTypes DEF LeasesV
  <2>2. sl[l.slot].refs # 0
    BY <1>2, <2>1
  <2> QED BY <2>1, <2>2 DEF Intact, Stays
<1> QED BY <1>3, <1>4, <1>5 DEF LeasesV

\* Slots whose references do not change, and that make no new failure.
LEMMA LinksSame ==
  ASSUME NEW sl, NEW dt, NEW sl2, NEW dt2, NEW rd, NEW st \in [Readers -> Seq(SUBSET Lease)], NEW flt,
         ReadersV(rd), LinksV(sl, dt, rd, st, flt), Stays(sl, dt, sl2, dt2),
         \A s \in Slots : sl2[s].refs = sl[s].refs /\ (sl2[s].st = "error" /\ sl[s].refs # 0 => sl[s].st = "error")
  PROVE  LinksV(sl2, dt2, rd, st, flt)
<1>1. WantsV(sl2, rd) /\ LeasesV(sl2, dt2, rd, st)
  BY LinksFrame
<1>2. RefsV(sl, rd, st)
  BY DEF LinksV
<1>3. RefsV(sl2, rd, st)
  BY <1>2, RefsKept
<1>4. \A s \in Slots : sl[s].refs \in Nat
  BY <1>2, RefsParts
<1>5. ASSUME NEW s \in Slots, sl2[s].st = "error", sl2[s].refs > 0 PROVE sl[s].st = "error" /\ sl[s].refs > 0
  BY <1>4, <1>5
<1>6. FaultsV(sl2, rd, flt)
  BY <1>5 DEF LinksV, FaultsV
<1> QED BY <1>1, <1>3, <1>6 DEF LinksV

-----------------------------------------------------------------------------
(* The workers. *)

LEMMA RestInv ==
  ASSUME PleInv, NEW w \in Workers, WorkerWaits(w) \/ WorkerStops(w) PROVE PleInv'
<1>1. worker \in [Workers -> WorkerRec]
  BY DEF PleInv, CacheInv, CacheTypes
<1>2. /\ \E pc \in {"asleep", "gone"} : worker' = [worker EXCEPT ![w].pc = pc]
      /\ worker[w].pc = "run" /\ UNCHANGED <<slots, data, lru, queue, reader, stream, engine, used, faulted>>
  BY DEF WorkerWaits, WorkerStops
<1>3. PICK pc \in {"asleep", "gone"} : worker' = [worker EXCEPT ![w].pc = pc]
  BY <1>2
<1>4. /\ worker' \in [Workers -> WorkerRec]
      /\ \A u \in Workers : worker'[u].slot = worker[u].slot /\ (worker'[u].pc = "read" <=> worker[u].pc = "read")
  BY <1>1, <1>2, <1>3 DEF WorkerRec
<1>5. CacheInv'
  BY <1>2, <1>4, RestCache DEF PleInv
<1>6. EngineInv'
  <2>1. engine # "freed"
    BY <1>2 DEF PleInv, EngineInv
  <2> QED BY <1>2, <2>1 DEF PleInv, EngineInv
<1> QED BY <1>2, <1>5, <1>6 DEF PleInv

LEMMA TakesInv == ASSUME PleInv, NEW w \in Workers, WorkerTakes(w) PROVE PleInv'
<1> DEFINE h == Head(queue)
<1>1. /\ queue # <<>> /\ data' = [data EXCEPT ![h] = Torn]
      /\ UNCHANGED <<slots, lru, reader, stream, engine, used, faulted>> /\ engine # "freed"
  BY DEF WorkerTakes
<1>2. CacheInv'
  BY TakesCache DEF PleInv
<1>3. h \in Slots /\ slots[h].st = "loading" /\ data \in [Slots -> Pages \cup {Torn}]
  <2>1. queue \in Seq(Slots) /\ data \in [Slots -> Pages \cup {Torn}]
    BY DEF PleInv, CacheInv, CacheTypes
  <2>2. 1 \in DOMAIN queue /\ queue[1] = h /\ h \in Slots
    BY <1>1, <2>1
  <2> QED BY <2>1, <2>2 DEF PleInv, CacheInv, Loads
<1> HIDE DEF h
<1>4. Stays(slots, data, slots', data')
  BY <1>1, <1>3 DEF Stays
<1>5. LinksV(slots', data', reader, stream, faulted)
  BY <1>1, <1>4, LinksSame DEF PleInv
<1>6. EngineInv'
  BY <1>1 DEF PleInv, EngineInv
<1> QED BY <1>1, <1>2, <1>5, <1>6 DEF PleInv

LEMMA ReadSucceedsInv == ASSUME PleInv, NEW w \in Workers, ReadSucceeds(w) PROVE PleInv'
<1> DEFINE s == worker[w].slot
<1>1. /\ worker[w].pc = "read" /\ data' = [data EXCEPT ![s] = slots[s].page] /\ slots' = [slots EXCEPT ![s].st = "ready"]
      /\ reader' \in {reader, Woken(reader)} /\ worker' = [worker EXCEPT ![w] = [pc |-> "run", slot |-> NoSlot]]
      /\ UNCHANGED <<lru, queue, stream, engine, used, faulted>>
  BY DEF ReadSucceeds, WakeLoaded
<1>2. CacheInv'
  BY <1>1, EndsCache DEF PleInv
<1>3. s \in Slots /\ slots[s].st = "loading" /\ slots \in [Slots -> SlotRec] /\ data \in [Slots -> Pages \cup {Torn}]
  BY <1>1 DEF PleInv, CacheInv, CacheTypes, Loads
<1> HIDE DEF s
<1>4. /\ \A t \in Slots : t # s => slots'[t] = slots[t] /\ data'[t] = data[t]
      /\ slots'[s].st = "ready" /\ slots'[s].page = slots[s].page /\ slots'[s].refs = slots[s].refs
  BY <1>1, <1>3 DEF SlotRec
<1>5. Stays(slots, data, slots', data')
  BY <1>3, <1>4 DEF Stays
<1>6. \A t \in Slots : slots'[t].refs = slots[t].refs /\ (slots'[t].st = "error" /\ slots[t].refs # 0 => slots[t].st = "error")
  BY <1>4
<1>7. LinksV(slots', data', reader, stream, faulted)
  BY <1>5, <1>6, LinksSame DEF PleInv
<1>8. ReadersV(reader') /\ LinksV(slots', data', reader', stream, faulted)
      /\ \A q \in Readers : reader'[q].pc = "idle" <=> reader[q].pc = "idle"
  BY <1>1, <1>7, Wakes DEF PleInv
<1>9. EngineInv'
  <2>1. engine # "freed"
    BY <1>1 DEF PleInv, EngineInv
  <2> QED BY <1>1, <1>8, <2>1 DEF PleInv, EngineInv
<1> QED BY <1>1, <1>2, <1>8, <1>9 DEF PleInv

LEMMA ReadFailsInv == ASSUME PleInv, NEW w \in Workers, ReadFails(w) PROVE PleInv'
<1> DEFINE s == worker[w].slot
<1>1. /\ worker[w].pc = "read" /\ data' = data /\ slots' = [slots EXCEPT ![s].st = "error"]
      /\ reader' \in {reader, Woken(reader)} /\ worker' = [worker EXCEPT ![w] = [pc |-> "run", slot |-> NoSlot]]
      /\ faulted' = faulted \cup {r \in Readers : reader[r].pc # "idle"}
      /\ UNCHANGED <<lru, queue, stream, engine>>
  BY DEF ReadFails, WakeLoaded
<1>2. CacheInv'
  BY <1>1, EndsCache DEF PleInv
<1>3. s \in Slots /\ slots[s].st = "loading" /\ slots \in [Slots -> SlotRec]
  BY <1>1 DEF PleInv, CacheInv, CacheTypes, Loads
<1> HIDE DEF s
<1>4. /\ \A t \in Slots : t # s => slots'[t] = slots[t]
      /\ slots'[s].st = "error" /\ slots'[s].page = slots[s].page /\ slots'[s].refs = slots[s].refs
  BY <1>1, <1>3 DEF SlotRec
<1>5. Stays(slots, data, slots', data')
  BY <1>1, <1>3, <1>4 DEF Stays
<1>6. \A t \in Slots : slots'[t].refs = slots[t].refs
  BY <1>4
<1>7. LinksV(slots', data', reader, stream, faulted')
  <2>1. WantsV(slots', reader) /\ LeasesV(slots', data', reader, stream)
    BY <1>5, LinksFrame DEF PleInv
  <2>2. RefsV(slots', reader, stream)
    BY <1>6, RefsKept DEF PleInv, LinksV
  <2>3. FaultsV(slots', reader, faulted')
    BY <1>1 DEF PleInv, LinksV, FaultsV
  <2> QED BY <2>1, <2>2, <2>3 DEF LinksV
<1>8. ReadersV(reader') /\ LinksV(slots', data', reader', stream, faulted')
      /\ \A q \in Readers : reader'[q].pc = "idle" <=> reader[q].pc = "idle"
  BY <1>1, <1>7, Wakes DEF PleInv
<1>9. EngineInv'
  <2>1. engine # "freed"
    BY <1>1 DEF PleInv, EngineInv
  <2> QED BY <1>1, <1>8, <2>1 DEF PleInv, EngineInv
<1> QED BY <1>1, <1>2, <1>8, <1>9 DEF PleInv

LEMMA WorkerInv == ASSUME PleInv, NEW w \in Workers, Worker(w) PROVE PleInv'
BY RestInv, TakesInv, ReadSucceedsInv, ReadFailsInv DEF Worker

-----------------------------------------------------------------------------
(* Requests for pages. *)

\* Slot v holds page p, with hold references more.
Requested(sl, sl2, dt, p, v, hold) ==
  /\ v \in Slots /\ sl2[v].refs = sl[v].refs + hold /\ \A s \in Slots \ {v} : sl2[s] = sl[s]
  /\ sl2[v].page = p /\ sl2[v].st # "empty" /\ Stays(sl, dt, sl2, dt)
  /\ sl2[v].st = "error" => sl[v].st = "error" /\ sl[v].refs # 0

LEMMA RequestEffect ==
  ASSUME CacheInv, NEW p \in Pages, NEW hold \in Nat, Hit(p, hold) \/ Recycle(p, hold)
  PROVE  CacheInv' /\ data' = data /\ Requested(slots, slots', data, p, SlotOf(p), hold)
<1>0. slots \in [Slots -> SlotRec]
  BY DEF CacheInv, CacheTypes
<1>1. CASE Hit(p, hold)
  <2>1. PICK s \in Matches(p) :
          /\ slots' = [slots EXCEPT ![s].refs = @ + hold] /\ lru' = Touch(lru, s) /\ UNCHANGED <<data, queue, worker>>
    BY <1>1 DEF Hit
  <2>2. s \in Slots /\ Entry(p, s) /\ slots[s].page = p /\ SlotOf(p) = s
    <3>1. SlotOf(p) \in Matches(p)
      BY <2>1 DEF SlotOf
    <3> QED BY <2>1, <3>1, MatchFacts
  <2>3. /\ slots'[s].refs = slots[s].refs + hold /\ slots'[s].st = slots[s].st /\ slots'[s].page = slots[s].page
        /\ \A t \in Slots \ {s} : slots'[t] = slots[t]
    BY <1>0, <2>1, <2>2 DEF SlotRec
  <2>4. CacheInv'
    BY <1>1, HitCache
  <2>5. slots[s].st # "empty" /\ (slots[s].st = "error" => slots[s].refs # 0)
    BY <2>2 DEF Entry
  <2>6. Requested(slots, slots', data, p, s, hold)
    BY <2>2, <2>3, <2>5 DEF Requested, Stays
  <2> QED BY <2>1, <2>2, <2>4, <2>6
<1>2. CASE Recycle(p, hold)
  <2> DEFINE v == Victim(p)
  <2>1. v \in Slots /\ slots[v].refs = 0
    BY <1>2, VictimFacts DEF Recycle
  <2>2. /\ slots' = [slots EXCEPT ![v] = [slots[v] EXCEPT !.page = p, !.st = "loading", !.refs = hold]]
        /\ data' = data
    BY <1>2 DEF Recycle
  <2>3. SlotOf(p) = v
    BY <1>2 DEF Recycle, SlotOf
  <2> HIDE DEF v
  <2>4. /\ slots'[v].refs = hold /\ slots'[v].st = "loading" /\ slots'[v].page = p
        /\ \A t \in Slots \ {v} : slots'[t] = slots[t]
    <3> DEFINE x == slots[v]
               y == [x EXCEPT !.page = p, !.st = "loading", !.refs = hold]
    <3>1. x \in SlotRec
      BY <1>0, <2>1
    <3> HIDE DEF x
    <3>2. y.page = p /\ y.st = "loading" /\ y.refs = hold
      BY <3>1 DEF SlotRec
    <3>3. slots' = [slots EXCEPT ![v] = y]
      BY <2>2 DEF x
    <3> HIDE DEF y
    <3> QED BY <1>0, <2>1, <3>2, <3>3
  <2>5. CacheInv'
    BY <1>2, RecycleCache
  <2>6. Requested(slots, slots', data, p, v, hold)
    BY <2>1, <2>4 DEF Requested, Stays
  <2> QED BY <2>2, <2>3, <2>5, <2>6
<1> QED BY <1>1, <1>2

LEMMA PrefetchInv == ASSUME PleInv, NEW r \in Readers, NEW p \in Pages, Prefetch(r, p) PROVE PleInv'
<1>1. /\ Hit(p, 0) \/ Recycle(p, 0)
      /\ engine = "open" /\ UNCHANGED <<reader, stream, engine, faulted>>
  BY DEF Prefetch
<1>2. CacheInv /\ 0 \in Nat
  BY DEF PleInv
<1> DEFINE v == SlotOf(p)
<1>3. CacheInv' /\ data' = data /\ Requested(slots, slots', data, p, v, 0)
  BY <1>1, <1>2, RequestEffect
<1> HIDE DEF v
<1>4. RefsV(slots, reader, stream)
  BY DEF PleInv, LinksV
<1>5. slots[v].refs \in Nat
  BY <1>3, <1>4, RefsParts DEF Requested
<1>6. \A s \in Slots : slots'[s].refs = slots[s].refs /\ (slots'[s].st = "error" /\ slots[s].refs # 0 => slots[s].st = "error")
  <2>1. slots'[v].refs = slots[v].refs
    BY <1>3, <1>5 DEF Requested
  <2> QED BY <1>3, <2>1 DEF Requested
<1>7. Stays(slots, data, slots', data)
  BY <1>3 DEF Requested
<1>8. LinksV(slots', data, reader, stream, faulted)
  BY <1>6, <1>7, LinksSame DEF PleInv
<1>9. EngineInv'
  BY <1>1 DEF EngineInv
<1> QED BY <1>1, <1>3, <1>8, <1>9 DEF PleInv

\* One reader is replaced.
Replaced(rd2, rd, r, x) == ReadersV(rd2) /\ rd2[r] = x /\ \A q \in Readers \ {r} : rd2[q] = rd[q]

LEMMA OneReader ==
  ASSUME NEW rd, ReadersV(rd), NEW r \in Readers, NEW x, ReaderOK(x)
  PROVE  Replaced([rd EXCEPT ![r] = x], rd, r, x)
BY DEF ReadersV, ReaderOK, Replaced

\* A gather is under way only while the engine is open.
LEMMA GatherOpen == ASSUME PleInv, NEW r \in Readers, reader[r].pc # "idle" PROVE engine = "open"
BY DEF PleInv, EngineInv

LEMMA OpenStays == ASSUME engine = "open", engine' = engine PROVE EngineInv'
BY DEF EngineInv

LEMMA RequestInv == ASSUME PleInv, NEW r \in Readers, RequestPage(r) PROVE PleInv'
<1> DEFINE rc == reader[r]
           p == NextPage(r)
           v == SlotOf(p)
           x == [rc EXCEPT !.pc = "ready", !.want = v]
<1>1. /\ rc.pc = "page" /\ (Hit(p, 1) \/ Recycle(p, 1)) /\ reader' = [reader EXCEPT ![r] = x]
      /\ UNCHANGED <<stream, engine, used, faulted>>
  BY DEF RequestPage
<1>2. ReadersV(reader) /\ ReaderOK(rc) /\ rc \in ReaderRec /\ CacheInv /\ LinksV(slots, data, reader, stream, faulted)
      /\ stream \in [Readers -> Seq(SUBSET Lease)]
  BY DEF PleInv, ReadersV
<1>3. p = NextOf(rc)
  BY DEF NextPage, NextOf, Row, Begun
<1> HIDE DEF p, v, rc
<1>4. p \in Pages
  BY <1>1, <1>2, <1>3, NextFacts DEF Middle
<1>5. CacheInv' /\ data' = data /\ Requested(slots, slots', data, p, v, 1)
  BY <1>1, <1>2, <1>4, RequestEffect DEF v
<1>6. v \in Slots /\ v # NoSlot /\ rc.want = NoSlot
  BY <1>1, <1>2, <1>5, Layout DEF Requested, ReaderOK, Wanting
<1>7. /\ x \in ReaderRec /\ x.pc = "ready" /\ x.want = v /\ x.rows = rc.rows /\ x.n = rc.n /\ x.tile = rc.tile
      /\ x.got = rc.got /\ x.failed = rc.failed
  BY <1>2, <1>6 DEF ReaderRec, PCs
<1> HIDE DEF x
<1>8. ReaderOK(x) /\ Kept(x) = Kept(rc) /\ NextOf(x) = p
  <2>1. rc.n < Tile /\ rc.n < Len(rc.rows) /\ rc.rows # <<>>
    BY <1>1, <1>2 DEF ReaderOK, Middle
  <2>2. ReaderOK(x)
    BY <1>1, <1>2, <1>6, <1>7, <2>1 DEF ReaderOK, Wanting
  <2> QED BY <1>3, <1>7, <2>2 DEF Kept, NextOf
<1>9. ReadersV(reader') /\ reader'[r] = x /\ \A q \in Readers \ {r} : reader'[q] = reader[q]
  <2>1. Replaced([reader EXCEPT ![r] = x], reader, r, x)
    BY <1>2, <1>8, OneReader
  <2>2. Replaced(reader', reader, r, x)
    BY <1>1, <2>1, Zenon
  <2> QED BY <2>2 DEF Replaced
<1>10. WantsV(slots', reader) /\ LeasesV(slots', data, reader, stream)
  BY <1>2, <1>5, LinksFrame DEF Requested
<1>11. WantsV(slots', reader')
  BY <1>5, <1>6, <1>7, <1>8, <1>9, <1>10 DEF WantsV, Requested
<1>12. \A q \in Readers : Kept(reader'[q]) = Kept(reader[q])
  BY <1>8, <1>9 DEF rc
<1>13. LeasesV(slots', data, reader', stream)
  BY <1>10, <1>12 DEF LeasesV
<1>14. RefsV(slots', reader', stream)
  <2>1. RefsV(slots, reader, stream)
    BY <1>2 DEF LinksV
  <2>2. /\ slots'[v].refs = slots[v].refs + 1 /\ \A s \in Slots \ {v} : slots'[s].refs = slots[s].refs
        /\ reader[r].want = NoSlot /\ reader'[r].want = v /\ \A q \in Readers \ {r} : reader'[q].want = reader[q].want
    BY <1>5, <1>6, <1>7, <1>9 DEF Requested, rc
  <2> QED BY <1>6, <1>12, <2>1, <2>2, RefsTaken
<1>15. FaultsV(slots', reader', faulted)
  <2>1. FaultsV(slots, reader, faulted) /\ RefsV(slots, reader, stream)
    BY <1>2 DEF LinksV
  <2>2. \A q \in Readers : reader'[q].failed = reader[q].failed /\ (reader'[q].pc # "idle" => reader[q].pc # "idle")
    BY <1>1, <1>7, <1>9 DEF rc
  <2>3. ASSUME NEW s \in Slots, slots'[s].st = "error", slots'[s].refs > 0
        PROVE  slots[s].st = "error" /\ slots[s].refs > 0
    <3>1. slots[s].refs \in Nat
      BY <2>1, RefsParts
    <3>2. slots[s].st = "error" /\ slots[s].refs # 0
      <4>1. CASE s = v
        BY <1>5, <2>3, <4>1 DEF Requested
      <4>2. CASE s # v
        BY <1>5, <2>3, <3>1, <4>2 DEF Requested
      <4> QED BY <4>1, <4>2
    <3> QED BY <3>1, <3>2
  <2> QED BY <2>1, <2>2, <2>3 DEF FaultsV
<1>16. EngineInv'
  BY <1>1, GatherOpen, OpenStays DEF rc
<1> QED BY <1>1, <1>5, <1>9, <1>11, <1>13, <1>14, <1>15, <1>16 DEF PleInv, LinksV

-----------------------------------------------------------------------------
(* Steps that change the program counter of a gather. *)

\* Reader r moves to pc.
LEMMA MoveReader ==
  ASSUME NEW rc, ReaderOK(rc), NEW pc \in PCs \ {"idle", "fill"}, rc.pc # "idle",
         pc \in {"enqueue", "abort"} => rc.got = {}, pc \in Middle => rc.pc \in Middle,
         pc \in Wanting <=> rc.pc \in Wanting
  PROVE  LET x == [rc EXCEPT !.pc = pc]
         IN  /\ ReaderOK(x) /\ x.rows = rc.rows /\ x.n = rc.n /\ x.tile = rc.tile /\ x.got = rc.got
             /\ x.want = rc.want /\ x.failed = rc.failed /\ x.pc = pc
<1> DEFINE x == [rc EXCEPT !.pc = pc]
<1>1. rc \in ReaderRec /\ pc \in PCs
  BY DEF ReaderOK
<1>2. /\ x \in ReaderRec /\ x.pc = pc /\ x.rows = rc.rows /\ x.n = rc.n /\ x.tile = rc.tile /\ x.got = rc.got
      /\ x.want = rc.want /\ x.failed = rc.failed
  BY <1>1 DEF ReaderRec
<1> HIDE DEF x
<1>3. ReaderOK(x)
  BY <1>2 DEF ReaderOK
<1> QED BY <1>2, <1>3 DEF x

\* A step that only moves reader r keeps what binds the readers to the cache.
LEMMA MoveLinks ==
  ASSUME PleInv, NEW r \in Readers, NEW pc \in PCs \ {"idle", "fill"}, reader[r].pc # "idle",
         pc \in {"enqueue", "abort"} => reader[r].got = {}, pc \in Middle => reader[r].pc \in Middle,
         pc \in Wanting <=> reader[r].pc \in Wanting, reader' = Goto(r, pc)
  PROVE  ReadersV(reader') /\ LinksV(slots, data, reader', stream, faulted)
<1> DEFINE rc == reader[r]
           x == [rc EXCEPT !.pc = pc]
<1>1. ReadersV(reader) /\ ReaderOK(rc) /\ LinksV(slots, data, reader, stream, faulted)
  BY DEF PleInv, ReadersV
<1>2. /\ ReaderOK(x) /\ x.rows = rc.rows /\ x.n = rc.n /\ x.tile = rc.tile /\ x.got = rc.got
      /\ x.want = rc.want /\ x.failed = rc.failed /\ x.pc = pc
  BY <1>1, MoveReader
<1>3. reader' = [reader EXCEPT ![r] = x]
  BY DEF Goto
<1> HIDE DEF x
<1>4. Replaced(reader', reader, r, x)
  <2>1. Replaced([reader EXCEPT ![r] = x], reader, r, x)
    BY <1>1, <1>2, OneReader
  <2> QED BY <1>3, <2>1, Zenon
<1>5. SameBody(reader', reader)
  BY <1>2, <1>4 DEF Replaced, SameBody
<1> QED BY <1>1, <1>4, <1>5, BodyLinks DEF Replaced

LEMMA NoSlotInv == ASSUME PleInv, NEW r \in Readers, NoSlotFor(r) PROVE PleInv'
<1> DEFINE pc == IF reader[r].tile = {} THEN "blocked" ELSE IF reader[r].got # {} THEN "drop" ELSE "enqueue"
<1>1. /\ reader[r].pc = "page" /\ reader' = Goto(r, pc)
      /\ UNCHANGED <<slots, data, lru, queue, worker, stream, engine, used, faulted>>
  BY DEF NoSlotFor
<1>2. /\ pc \in PCs \ {"idle", "fill"} /\ reader[r].pc # "idle" /\ (pc \in {"enqueue", "abort"} => reader[r].got = {})
      /\ (pc \in Middle => reader[r].pc \in Middle) /\ (pc \in Wanting <=> reader[r].pc \in Wanting)
  BY <1>1 DEF PCs, Middle, Wanting
<1> HIDE DEF pc
<1>3. ReadersV(reader') /\ LinksV(slots, data, reader', stream, faulted)
  BY <1>1, <1>2, MoveLinks
<1>4. EngineInv'
  BY <1>1, <1>2, GatherOpen, OpenStays
<1>5. CacheInv'
  BY <1>1 DEF PleInv, CacheInv, CacheTypes, Placed, OneEntry, Entry, Loads
<1> QED BY <1>1, <1>3, <1>4, <1>5 DEF PleInv

LEMMA GatherFailsInv == ASSUME PleInv, NEW r \in Readers, GatherFails(r) PROVE PleInv'
<1>1. /\ reader[r].pc \in {"fill", "enqueue"} /\ reader' = Goto(r, "abort")
      /\ UNCHANGED <<slots, data, lru, queue, worker, stream, engine, used, faulted>>
  BY DEF GatherFails
<1>2. reader[r].got = {}
  BY <1>1 DEF PleInv, ReadersV, ReaderOK
<1> DEFINE pc == "abort"
<1>3. /\ pc \in PCs \ {"idle", "fill"} /\ reader[r].pc # "idle" /\ (pc \in {"enqueue", "abort"} => reader[r].got = {})
      /\ (pc \in Middle => reader[r].pc \in Middle) /\ (pc \in Wanting <=> reader[r].pc \in Wanting)
      /\ reader' = Goto(r, pc)
  BY <1>1, <1>2 DEF PCs, Middle, Wanting
<1> HIDE DEF pc
<1>4. ReadersV(reader') /\ LinksV(slots, data, reader', stream, faulted)
  BY <1>3, MoveLinks
<1>5. EngineInv'
  BY <1>1, <1>3, GatherOpen, OpenStays
<1>6. CacheInv'
  BY <1>1 DEF PleInv, CacheInv, CacheTypes, Placed, OneEntry, Entry, Loads
<1> QED BY <1>1, <1>4, <1>5, <1>6 DEF PleInv

\* Slots that differ in being awaited only.
LEMMA FlagSlots ==
  ASSUME PleInv, NEW s \in Slots, NEW b \in BOOLEAN
  PROVE  LET sl == [slots EXCEPT ![s].awaited = b]
         IN  /\ sl \in [Slots -> SlotRec]
             /\ \A t \in Slots : sl[t].st = slots[t].st /\ sl[t].page = slots[t].page /\ sl[t].refs = slots[t].refs
<1> DEFINE x == slots[s]
           y == [x EXCEPT !.awaited = b]
           sl == [slots EXCEPT ![s].awaited = b]
<1>1. slots \in [Slots -> SlotRec] /\ x \in SlotRec
  BY DEF PleInv, CacheInv, CacheTypes
<1>2. y \in SlotRec /\ y.st = x.st /\ y.page = x.page /\ y.refs = x.refs
  <2> HIDE DEF x
  <2> QED BY <1>1 DEF SlotRec
<1>3. sl = [slots EXCEPT ![s] = y]
  OBVIOUS
<1> HIDE DEF y, sl
<1>4. sl \in [Slots -> SlotRec] /\ sl[s] = y /\ \A t \in Slots \ {s} : sl[t] = slots[t]
  BY <1>1, <1>2, <1>3
<1>5. \A t \in Slots : sl[t].st = slots[t].st /\ sl[t].page = slots[t].page /\ sl[t].refs = slots[t].refs
  BY <1>2, <1>4
<1> QED BY <1>4, <1>5 DEF sl

LEMMA SleepInv == ASSUME PleInv, NEW r \in Readers, SleepForPage(r) PROVE PleInv'
<1> DEFINE s == reader[r].want
           b == slots[s].awaited \/ reader[r].pc = "ready"
           pc == "await"
<1>1. /\ reader[r].pc \in {"ready", "woken"} /\ slots' = [slots EXCEPT ![s].awaited = b] /\ reader' = Goto(r, "await")
      /\ UNCHANGED <<data, lru, queue, worker, stream, engine, used, faulted>>
  BY DEF SleepForPage
<1>2. s \in Slots /\ b \in BOOLEAN
  <2>1. s # NoSlot
    BY <1>1 DEF PleInv, ReadersV, ReaderOK, Wanting
  <2>2. s \in Slots
    BY <2>1 DEF PleInv, LinksV, WantsV
  <2> QED BY <2>2
<1> HIDE DEF s, b
<1>3. /\ slots' \in [Slots -> SlotRec]
      /\ \A t \in Slots : slots'[t].st = slots[t].st /\ slots'[t].page = slots[t].page /\ slots'[t].refs = slots[t].refs
  BY <1>1, <1>2, FlagSlots
<1>4. CacheInv'
  <2>1. Quiet(slots', slots) /\ lru' \in Orders
    BY <1>1, <1>3 DEF Quiet, PleInv, CacheInv, CacheTypes
  <2> QED BY <1>1, <2>1, QuietCache DEF PleInv
<1>5. /\ pc \in PCs \ {"idle", "fill"} /\ reader[r].pc # "idle" /\ (pc \in {"enqueue", "abort"} => reader[r].got = {})
      /\ (pc \in Middle => reader[r].pc \in Middle) /\ (pc \in Wanting <=> reader[r].pc \in Wanting)
      /\ reader' = Goto(r, pc)
  BY <1>1 DEF PCs, Middle, Wanting
<1> HIDE DEF pc
<1>6. ReadersV(reader') /\ LinksV(slots, data, reader', stream, faulted)
  BY <1>5, MoveLinks
<1>7. LinksV(slots', data, reader', stream, faulted)
  <2>1. Stays(slots, data, slots', data)
    BY <1>3 DEF Stays
  <2>2. stream \in [Readers -> Seq(SUBSET Lease)]
    BY DEF PleInv
  <2> QED BY <1>3, <1>6, <2>1, <2>2, LinksSame
<1>8. EngineInv'
  BY <1>1, <1>5, GatherOpen, OpenStays
<1> QED BY <1>1, <1>4, <1>6, <1>7, <1>8 DEF PleInv

LEMMA GatherInv == ASSUME PleInv, NEW r \in Readers, NEW list \in RowLists, Gather(r, list) PROVE PleInv'
<1> DEFINE x == [Idle EXCEPT !.pc = "fill", !.rows = list]
<1>1. /\ reader[r].pc = "idle" /\ engine = "open" /\ reader' = [reader EXCEPT ![r] = x]
      /\ faulted' = (faulted \ {r}) \cup (IF \E s \in Slots : Held(s) THEN {r} ELSE {})
      /\ UNCHANGED <<slots, data, lru, queue, worker, stream, engine>>
  BY DEF Gather
<1>2. ReadersV(reader) /\ reader[r] = Idle /\ LinksV(slots, data, reader, stream, faulted)
  BY <1>1 DEF PleInv, ReadersV, ReaderOK
<1>3. list \in Seq(RowSet) /\ list # <<>>
  BY RowsSpanPages DEF RowSet
<1>4. /\ x \in ReaderRec /\ x.pc = "fill" /\ x.rows = list /\ x.n = 0 /\ x.tile = {} /\ x.got = {} /\ x.want = NoSlot
      /\ x.failed = FALSE
  <2> DEFINE z == Idle
  <2>1. z \in ReaderRec /\ z.n = 0 /\ z.tile = {} /\ z.got = {} /\ z.want = NoSlot /\ z.failed = FALSE
    BY IdleReader DEF ReaderOK, Idle
  <2>2. x = [z EXCEPT !.pc = "fill", !.rows = list]
    OBVIOUS
  <2> HIDE DEF z, x
  <2>3. "fill" \in PCs
    BY DEF PCs
  <2> QED BY <1>3, <2>1, <2>2, <2>3 DEF ReaderRec
<1> HIDE DEF x
<1>5. ReaderOK(x)
  BY <1>4, <1>3 DEF ReaderOK, Middle, Wanting
<1>6. Replaced(reader', reader, r, x)
  <2>1. Replaced([reader EXCEPT ![r] = x], reader, r, x)
    BY <1>2, <1>5, OneReader
  <2> QED BY <1>1, <2>1, Zenon
<1>7. \A q \in Readers : Kept(reader'[q]) = Kept(reader[q]) /\ reader'[q].want = reader[q].want
  BY <1>2, <1>4, <1>6, IdleReader DEF Replaced, Kept
<1>8. WantsV(slots, reader')
  BY <1>2, <1>4, <1>6 DEF LinksV, WantsV, Replaced
<1>9. LeasesV(slots, data, reader', stream)
  BY <1>2, <1>7 DEF LinksV, LeasesV
<1>10. RefsV(slots, reader', stream)
  <2>1. RefsV(slots, reader, stream) /\ \A s \in Slots : slots[s].refs = slots[s].refs
    BY <1>2 DEF LinksV
  <2> QED BY <1>7, <2>1, RefsKept
<1>11. FaultsV(slots, reader', faulted')
  <2>1. FaultsV(slots, reader, faulted)
    BY <1>2 DEF LinksV
  <2>2. \A q \in Readers \ {r} : q \in faulted => q \in faulted'
    BY <1>1
  <2>3. (\E s \in Slots : slots[s].st = "error" /\ slots[s].refs > 0) => r \in faulted'
    BY <1>1 DEF Held
  <2>4. ~reader'[r].failed
    BY <1>4, <1>6 DEF Replaced
  <2> QED BY <1>6, <2>1, <2>2, <2>3, <2>4 DEF FaultsV, Replaced
<1>12. CacheInv'
  BY <1>1 DEF PleInv, CacheInv, CacheTypes, Placed, OneEntry, Entry, Loads
<1>13. EngineInv'
  BY <1>1, OpenStays
<1> QED BY <1>1, <1>6, <1>8, <1>9, <1>10, <1>11, <1>12, <1>13 DEF PleInv, LinksV, Replaced

-----------------------------------------------------------------------------
(* The page a gather waits for is there, or has failed. *)

LEMMA AwakeSlots ==
  ASSUME PleInv, NEW r \in Readers, reader[r].pc \in {"ready", "woken"}
  PROVE  /\ reader[r].want \in Slots /\ reader[r].want # NoSlot /\ Awake(r) \in [Slots -> SlotRec]
         /\ \A t \in Slots : /\ Awake(r)[t].st = slots[t].st /\ Awake(r)[t].page = slots[t].page
                             /\ Awake(r)[t].refs = slots[t].refs
<1> DEFINE s == reader[r].want
           b == slots[s].awaited /\ reader[r].pc # "woken"
<1>1. s # NoSlot
  BY DEF PleInv, ReadersV, ReaderOK, Wanting
<1>2. s \in Slots /\ b \in BOOLEAN
  BY <1>1 DEF PleInv, LinksV, WantsV
<1>3. Awake(r) = [slots EXCEPT ![s].awaited = b]
  BY DEF Awake
<1> HIDE DEF s, b
<1>4. /\ Awake(r) \in [Slots -> SlotRec]
      /\ \A t \in Slots : /\ Awake(r)[t].st = slots[t].st /\ Awake(r)[t].page = slots[t].page
                          /\ Awake(r)[t].refs = slots[t].refs
  BY <1>2, <1>3, FlagSlots
<1> QED BY <1>1, <1>2, <1>4 DEF s

\* The reader after its page came.
LEMMA LeasedReader ==
  ASSUME NEW rc, ReaderOK(rc), rc.pc \in {"ready", "woken"}, rc.want \in Slots
  PROVE  LET m == [place |-> <<rc.n + 1, (IF rc.got = {} THEN 0 ELSE 1) + 1>>, page |-> NextOf(rc), slot |-> rc.want]
             got == rc.got \cup {m}
             whole == (IF rc.got = {} THEN 0 ELSE 1) + 1 = Len(rc.rows[rc.n + 1])
             n == rc.n + (IF whole THEN 1 ELSE 0)
             x == [rc EXCEPT !.want = NoSlot, !.n = n, !.tile = rc.tile \cup (IF whole THEN got ELSE {}),
                             !.got = IF whole THEN {} ELSE got,
                             !.pc = IF n < Min({Tile, Len(rc.rows)}) THEN "page" ELSE "enqueue"]
         IN  /\ ReaderOK(x) /\ Kept(x) = Kept(rc) \cup {m} /\ m \notin Kept(rc) /\ x.want = NoSlot
             /\ x.failed = rc.failed /\ x.pc # "idle"
<1> DEFINE begun == IF rc.got = {} THEN 0 ELSE 1
           len == Len(rc.rows[rc.n + 1])
           m == [place |-> <<rc.n + 1, begun + 1>>, page |-> NextOf(rc), slot |-> rc.want]
           got == rc.got \cup {m}
           whole == begun + 1 = len
           n == rc.n + (IF whole THEN 1 ELSE 0)
           tile == rc.tile \cup (IF whole THEN got ELSE {})
           got2 == IF whole THEN {} ELSE got
           pc == IF n < Min({Tile, Len(rc.rows)}) THEN "page" ELSE "enqueue"
           x == [rc EXCEPT !.want = NoSlot, !.n = n, !.tile = tile, !.got = got2, !.pc = pc]
<1>1. rc \in ReaderRec /\ rc.pc \in Middle /\ rc.n < Tile /\ rc.n < Len(rc.rows) /\ rc.rows # <<>>
  BY DEF ReaderOK, Middle, Wanting
<1>2. /\ rc.rows \in Seq(RowSet) /\ rc.n \in 0..Tile /\ rc.tile \subseteq Lease /\ rc.got \subseteq Lease
      /\ Tile \in Nat /\ Len(rc.rows) \in Nat /\ rc.n \in Nat
  BY <1>1, ReaderFields, TileKnown
<1>3. rc.rows[rc.n + 1] \in RowSet /\ NextOf(rc) \in Pages /\ rc.n + 1 \in 1..Tile
  BY <1>1, NextFacts
<1>4. len \in {1, 2}
  BY <1>3, RowFacts
<1>5. begun \in {0, 1} /\ (rc.got = {} <=> begun = 0) /\ (rc.got # {} => len = 2)
  BY DEF ReaderOK
<1>6. m \in Lease /\ m.place = <<rc.n + 1, begun + 1>>
  <2>1. <<rc.n + 1, begun + 1>> \in (1..Tile) \X {1, 2}
    BY <1>3, <1>5
  <2>2. m = [place |-> <<rc.n + 1, begun + 1>>, page |-> NextOf(rc), slot |-> rc.want]
    OBVIOUS
  <2> HIDE DEF begun
  <2> QED BY <1>3, <2>1, <2>2 DEF Lease
<1> HIDE DEF m
<1>7. n \in 0..Tile /\ n \in Nat /\ (n = rc.n + 1 \/ n = rc.n) /\ (whole <=> n = rc.n + 1)
  <2> HIDE DEF whole
  <2> QED BY <1>1, <1>2
<1>8. pc \in {"page", "enqueue"} /\ (pc = "page" <=> n < Tile /\ n < Len(rc.rows))
  <2> HIDE DEF n
  <2> QED BY <1>2, <1>7, MinPair
<1>9. tile \subseteq Lease /\ got2 \subseteq Lease
  BY <1>2, <1>6
<1>10. /\ x \in ReaderRec /\ x.pc = pc /\ x.rows = rc.rows /\ x.n = n /\ x.tile = tile /\ x.got = got2
       /\ x.want = NoSlot /\ x.failed = rc.failed
  <2>1. pc \in PCs
    BY <1>8 DEF PCs
  <2> HIDE DEF pc, n, tile, got2
  <2> QED BY <1>1, <1>7, <1>9, <2>1 DEF ReaderRec
<1>11. rc.got # {} => whole
  <2> HIDE DEF begun, len
  <2> QED BY <1>5
<1>12. \A l \in rc.got : l.place = <<rc.n + 1, 1>>
  BY DEF ReaderOK
<1>13. m \notin rc.tile /\ m \notin rc.got
  <2>1. m.place[1] = rc.n + 1 /\ m.place[2] = begun + 1
    BY <1>6
  <2>2. m \notin rc.tile
    <3>1. \A l \in rc.tile : l.place[1] <= rc.n
      BY DEF ReaderOK
    <3>2. ~(rc.n + 1 <= rc.n)
      BY <1>2
    <3> QED BY <2>1, <3>1, <3>2
  <2>3. m \notin rc.got
    <3>1. m \in rc.got => begun + 1 = 1
      BY <1>12, <2>1
    <3>2. m \in rc.got => begun = 1
      OBVIOUS
    <3> QED BY <3>1, <3>2
  <2> QED BY <2>2, <2>3
<1>14. \A l \in tile : l.place[1] <= n
  <2>1. ASSUME NEW l \in tile PROVE l.place[1] <= n
    <3>1. CASE l \in rc.tile
      <4>1. l.place[1] <= rc.n /\ l.place[1] \in Nat
        <5>1. l \in Lease
          BY <1>2, <3>1
        <5> QED BY <3>1, <5>1 DEF ReaderOK, Lease
      <4> HIDE DEF n
      <4> QED BY <1>2, <1>7, <4>1
    <3>2. CASE l \notin rc.tile
      <4>1. whole /\ l \in got
        BY <3>2
      <4>2. l.place[1] = rc.n + 1
        BY <1>6, <1>12, <4>1
      <4> HIDE DEF n, whole
      <4> QED BY <1>2, <1>7, <4>1, <4>2
    <3> QED BY <3>1, <3>2
  <2> QED BY <2>1
<1>15. got2 # {} => Len(rc.rows[n + 1]) = 2 /\ \E l \in Lease : got2 = {l} /\ l.place = <<n + 1, 1>>
  <2>1. SUFFICES ASSUME got2 # {} PROVE Len(rc.rows[n + 1]) = 2 /\ \E l \in Lease : got2 = {l} /\ l.place = <<n + 1, 1>>
    OBVIOUS
  <2>2. ~whole /\ n = rc.n
    BY <1>2, <2>1
  <2>3. rc.got = {} /\ begun = 0 /\ len = 2
    <3> HIDE DEF begun, len, n, got2
    <3> QED BY <1>4, <1>5, <1>11, <2>2
  <2>4. got2 = {m} /\ m.place = <<n + 1, 1>> /\ Len(rc.rows[n + 1]) = 2
    BY <1>6, <2>2, <2>3
  <2> HIDE DEF n, got2
  <2> QED BY <1>6, <2>4
<1>16. pc = "enqueue" => got2 = {}
  <2>1. ~whole => n = rc.n
    BY <1>2
  <2>2. pc = "enqueue" => whole
    <3> HIDE DEF pc, n, whole
    <3> QED BY <1>1, <1>8, <2>1
  <2> HIDE DEF pc, whole
  <2> QED BY <2>2
<1>17. tile \cup got2 = rc.tile \cup rc.got \cup {m}
  <2> HIDE DEF whole
  <2>1. CASE whole
    BY <2>1
  <2>2. CASE ~whole
    BY <2>2
  <2> QED BY <2>1, <2>2
<1> HIDE DEF begun, len, m, got, whole, n, tile, got2, pc, x
<1>18. ReaderOK(x)
  BY <1>1, <1>8, <1>10, <1>14, <1>15, <1>16 DEF ReaderOK, Middle, Wanting
<1>19. Kept(x) = Kept(rc) \cup {m} /\ m \notin Kept(rc)
  BY <1>10, <1>13, <1>17 DEF Kept
<1>20. x.pc # "idle"
  BY <1>8, <1>10
<1> QED BY <1>10, <1>18, <1>19, <1>20 DEF begun, len, m, got, whole, n, tile, got2, pc, x

LEMMA PageReadyInv == ASSUME PleInv, NEW r \in Readers, PageReady(r) PROVE PleInv'
<1> DEFINE rc == reader[r]
           s == rc.want
           begun == IF rc.got = {} THEN 0 ELSE 1
           m == [place |-> <<rc.n + 1, begun + 1>>, page |-> NextOf(rc), slot |-> s]
           got == rc.got \cup {m}
           whole == begun + 1 = Len(rc.rows[rc.n + 1])
           n == rc.n + (IF whole THEN 1 ELSE 0)
           x == [rc EXCEPT !.want = NoSlot, !.n = n, !.tile = rc.tile \cup (IF whole THEN got ELSE {}),
                           !.got = IF whole THEN {} ELSE got,
                           !.pc = IF n < Min({Tile, Len(rc.rows)}) THEN "page" ELSE "enqueue"]
<1>1. /\ rc.pc \in {"ready", "woken"} /\ slots[s].st = "ready" /\ slots' = Awake(r) /\ reader' = [reader EXCEPT ![r] = x]
      /\ UNCHANGED <<data, lru, queue, worker, stream, engine, used, faulted>>
  BY DEF PageReady, NextPage, NextOf, Row, Begun, Capacity
<1>2. /\ ReadersV(reader) /\ ReaderOK(rc) /\ LinksV(slots, data, reader, stream, faulted) /\ CacheInv
      /\ stream \in [Readers -> Seq(SUBSET Lease)]
  BY DEF PleInv, ReadersV
<1>3. /\ s \in Slots /\ s # NoSlot /\ slots' \in [Slots -> SlotRec]
      /\ \A t \in Slots : slots'[t].st = slots[t].st /\ slots'[t].page = slots[t].page /\ slots'[t].refs = slots[t].refs
  BY <1>1, AwakeSlots
<1>4. m.slot = s /\ m.page = NextOf(rc)
  OBVIOUS
<1>5. /\ ReaderOK(x) /\ Kept(x) = Kept(rc) \cup {m} /\ m \notin Kept(rc) /\ x.want = NoSlot
      /\ x.failed = rc.failed /\ x.pc # "idle"
  <2>1. ReaderOK(rc) /\ rc.pc \in {"ready", "woken"} /\ rc.want \in Slots
    BY <1>1, <1>2, <1>3
  <2> HIDE DEF rc
  <2> QED BY ONLY <2>1, LeasedReader
<1>6. slots[s].page = NextOf(rc) /\ data[s] = slots[s].page
  <2>1. slots[s].page = NextOf(rc)
    BY <1>2, <1>3 DEF LinksV, WantsV
  <2>2. data[s] = slots[s].page
    BY <1>1, <1>2, <1>3 DEF CacheInv, Placed
  <2> QED BY <2>1, <2>2
<1> HIDE DEF m, x
<1>7. Replaced(reader', reader, r, x)
  <2>1. Replaced([reader EXCEPT ![r] = x], reader, r, x)
    BY <1>2, <1>5, OneReader
  <2> QED BY <1>1, <2>1, Zenon
<1> HIDE DEF s
<1>8. Stays(slots, data, slots', data)
  BY <1>3 DEF Stays
<1>9. WantsV(slots', reader) /\ LeasesV(slots', data, reader, stream)
  BY <1>2, <1>8, LinksFrame
<1>10. WantsV(slots', reader')
  BY <1>5, <1>7, <1>9 DEF WantsV, Replaced
<1>11. Intact(slots', data, m)
  BY <1>1, <1>3, <1>4, <1>6 DEF Intact
<1>12. LeasesV(slots', data, reader', stream)
  <2>1. ASSUME NEW q \in Readers, NEW l \in Kept(reader'[q]) PROVE Intact(slots', data, l)
    <3>1. CASE q = r /\ l = m
      BY <1>11, <3>1
    <3>2. CASE ~(q = r /\ l = m)
      <4>1. l \in Kept(reader[q])
        BY <1>5, <1>7, <3>2 DEF Replaced
      <4> QED BY <1>9, <4>1 DEF LeasesV
    <3> QED BY <3>1, <3>2
  <2> QED BY <1>9, <2>1 DEF LeasesV
<1>13. RefsV(slots', reader', stream)
  <2>1. RefsV(slots, reader, stream)
    BY <1>2 DEF LinksV
  <2>2. /\ m.slot = s /\ m \notin Kept(reader[r]) /\ Kept(reader'[r]) = Kept(reader[r]) \cup {m}
        /\ \A q \in Readers \ {r} : Kept(reader'[q]) = Kept(reader[q])
        /\ reader[r].want = s /\ reader'[r].want = NoSlot /\ \A q \in Readers \ {r} : reader'[q].want = reader[q].want
    BY <1>4, <1>5, <1>7 DEF Replaced, s
  <2>3. \A t \in Slots : slots'[t].refs = slots[t].refs
    BY <1>3
  <2> QED BY <1>3, <2>1, <2>2, <2>3, RefsLeased
<1>14. FaultsV(slots', reader', faulted)
  <2>1. FaultsV(slots, reader, faulted)
    BY <1>2 DEF LinksV
  <2>2. \A q \in Readers : reader'[q].failed = reader[q].failed /\ (reader'[q].pc # "idle" => reader[q].pc # "idle")
    BY <1>1, <1>5, <1>7 DEF Replaced
  <2> QED BY <1>3, <2>1, <2>2 DEF FaultsV
<1>15. CacheInv'
  <2>1. Quiet(slots', slots) /\ lru' \in Orders
    BY <1>1, <1>2, <1>3 DEF Quiet, CacheInv, CacheTypes
  <2> QED BY <1>1, <1>2, <2>1, QuietCache
<1>16. EngineInv'
  BY <1>1, GatherOpen, OpenStays
<1> QED BY <1>1, <1>2, <1>7, <1>10, <1>12, <1>13, <1>14, <1>15, <1>16 DEF PleInv, LinksV, Replaced

\* The last part of a step that gives references back: the waiters are woken.
LEMMA WakeStep ==
  ASSUME PleInv, NEW r \in Readers, NEW rd, ReadersV(rd), reader[r].pc # "idle",
         LinksV(slots', data, rd, stream', faulted), reader' = WakeSetWaiters(rd),
         CacheInv', stream' \in [Readers -> Seq(SUBSET Lease)], UNCHANGED <<data, engine, faulted>>
  PROVE  PleInv'
<1>1. reader' \in {rd, Woken(rd)}
  BY DEF WakeSetWaiters
<1>2. ReadersV(reader') /\ LinksV(slots', data, reader', stream', faulted)
  BY <1>1, Wakes
<1>3. EngineInv'
  BY GatherOpen, OpenStays
<1> QED BY <1>2, <1>3 DEF PleInv

LEMMA PageFailedInv == ASSUME PleInv, NEW r \in Readers, PageFailed(r) PROVE PleInv'
<1> DEFINE rc == reader[r]
           s == rc.want
           pc == IF rc.got # {} THEN "drop" ELSE "abort"
           x == [rc EXCEPT !.want = NoSlot, !.failed = TRUE, !.pc = pc]
           rd == [reader EXCEPT ![r] = x]
           sl == Awake(r)
<1>1. /\ rc.pc \in {"ready", "woken"} /\ slots[s].st = "error" /\ slots' = [sl EXCEPT ![s].refs = @ - 1]
      /\ reader' = WakeSetWaiters(rd)
      /\ UNCHANGED <<data, lru, queue, worker, stream, engine, used, faulted>>
  BY DEF PageFailed
<1>2. /\ ReadersV(reader) /\ ReaderOK(rc) /\ LinksV(slots, data, reader, stream, faulted) /\ CacheInv
      /\ stream \in [Readers -> Seq(SUBSET Lease)] /\ rc \in ReaderRec
  BY DEF PleInv, ReadersV
<1>3. /\ s \in Slots /\ s # NoSlot /\ sl \in [Slots -> SlotRec]
      /\ \A t \in Slots : sl[t].st = slots[t].st /\ sl[t].page = slots[t].page /\ sl[t].refs = slots[t].refs
  BY <1>1, AwakeSlots
<1>4. slots[s].refs \in Nat /\ slots[s].refs >= 1
  <2>1. RefsV(slots, reader, stream)
    BY <1>2 DEF LinksV
  <2> QED BY <1>3, <2>1, Referenced, RefsParts
<1>5. r \in faulted
  <2>1. FaultsV(slots, reader, faulted)
    BY <1>2 DEF LinksV
  <2>2. slots[s].refs > 0
    BY <1>4
  <2> QED BY <1>1, <1>3, <2>1, <2>2 DEF FaultsV
<1> HIDE DEF sl
<1>6. /\ slots' \in [Slots -> SlotRec] /\ slots'[s].refs = slots[s].refs - 1
      /\ \A t \in Slots : slots'[t].st = slots[t].st /\ slots'[t].page = slots[t].page
      /\ \A t \in Slots \ {s} : slots'[t].refs = slots[t].refs
  <2> DEFINE y == sl[s]
             k == slots[s].refs - 1
             z == [y EXCEPT !.refs = k]
  <2>1. y \in SlotRec /\ k \in Nat /\ y.refs - 1 = k
    BY <1>3, <1>4
  <2>2. slots' = [sl EXCEPT ![s] = z]
    BY <1>1, <2>1
  <2> HIDE DEF y, k
  <2>3. z \in SlotRec /\ z.refs = k /\ z.st = y.st /\ z.page = y.page
    BY <2>1 DEF SlotRec
  <2> HIDE DEF z
  <2>4. slots' \in [Slots -> SlotRec] /\ slots'[s] = z /\ \A t \in Slots \ {s} : slots'[t] = sl[t]
    BY <1>3, <2>2, <2>3
  <2> QED BY <1>3, <2>3, <2>4 DEF k, y
<1> HIDE DEF s
<1>7. /\ x \in ReaderRec /\ x.want = NoSlot /\ x.failed = TRUE /\ x.pc = pc /\ x.rows = rc.rows /\ x.n = rc.n
      /\ x.tile = rc.tile /\ x.got = rc.got
  <2>1. pc \in PCs
    BY DEF PCs
  <2> HIDE DEF pc, rc
  <2> QED BY <1>2, <2>1 DEF ReaderRec
<1>8. ReaderOK(x) /\ Kept(x) = Kept(rc)
  <2>1. rc.n < Tile /\ rc.n < Len(rc.rows) /\ rc.rows # <<>>
    BY <1>1, <1>2 DEF ReaderOK, Middle, Wanting
  <2>2. pc \in {"drop", "abort"} /\ (pc = "abort" => rc.got = {})
    OBVIOUS
  <2> HIDE DEF x, pc, rc
  <2>3. ReaderOK(x)
    BY <1>2, <1>7, <2>1, <2>2 DEF ReaderOK, Middle, Wanting
  <2> QED BY <1>7, <2>3 DEF Kept
<1> HIDE DEF x
<1>9. Replaced(rd, reader, r, x)
  BY <1>2, <1>8, OneReader
<1> HIDE DEF rd
<1>10. Stays(slots, data, slots', data)
  BY <1>6 DEF Stays
<1>11. WantsV(slots', reader) /\ LeasesV(slots', data, reader, stream)
  BY <1>2, <1>10, LinksFrame
<1>12. \A q \in Readers : Kept(rd[q]) = Kept(reader[q])
  BY <1>8, <1>9 DEF Replaced
<1>13. WantsV(slots', rd)
  BY <1>7, <1>9, <1>11 DEF WantsV, Replaced
<1>14. LeasesV(slots', data, rd, stream)
  BY <1>11, <1>12 DEF LeasesV
<1>15. RefsV(slots', rd, stream)
  <2>1. RefsV(slots, reader, stream)
    BY <1>2 DEF LinksV
  <2>2. reader[r].want = s /\ rd[r].want = NoSlot /\ \A q \in Readers \ {r} : rd[q].want = reader[q].want
    BY <1>7, <1>9 DEF Replaced, s
  <2> QED BY <1>3, <1>6, <1>12, <2>1, <2>2, RefsDropped
<1>16. FaultsV(slots', rd, faulted)
  <2>1. FaultsV(slots, reader, faulted) /\ RefsV(slots, reader, stream)
    BY <1>2 DEF LinksV
  <2>2. \A q \in Readers : (rd[q].failed => q = r \/ reader[q].failed) /\ (rd[q].pc # "idle" => reader[q].pc # "idle")
    BY <1>1, <1>9 DEF Replaced
  <2>3. ASSUME NEW t \in Slots, slots'[t].st = "error", slots'[t].refs > 0 PROVE slots[t].st = "error" /\ slots[t].refs > 0
    <3>1. CASE t = s
      BY <1>1, <1>4, <3>1
    <3>2. CASE t # s
      BY <1>6, <2>3, <3>2
    <3> QED BY <3>1, <3>2
  <2> QED BY <1>5, <2>1, <2>2, <2>3 DEF FaultsV
<1>17. CacheInv'
  <2>1. \A t \in Slots : slots[t].st \in {"empty", "error"} /\ slots[t].refs = 0 => slots'[t].refs = 0
    BY <1>4, <1>6
  <2>2. Quiet(slots', slots) /\ lru' \in Orders
    BY <1>1, <1>2, <1>6, <2>1 DEF Quiet, CacheInv, CacheTypes
  <2> QED BY <1>1, <1>2, <2>2, QuietCache
<1>18. LinksV(slots', data, rd, stream', faulted)
  BY <1>1, <1>13, <1>14, <1>15, <1>16 DEF LinksV
<1>19. ReadersV(rd) /\ stream' \in [Readers -> Seq(SUBSET Lease)] /\ reader[r].pc # "idle" /\ UNCHANGED <<data, engine, faulted>>
  BY <1>1, <1>2, <1>9 DEF Replaced
<1> QED BY <1>1, <1>17, <1>18, <1>19, WakeStep

-----------------------------------------------------------------------------
(* Leases that are given back. *)

LEMMA NewRefs ==
  ASSUME NEW y \in SlotRec, NEW k
  PROVE  LET z == [y EXCEPT !.refs = k]
         IN  z.refs = k /\ z.st = y.st /\ z.page = y.page /\ (k \in Nat => z \in SlotRec)
BY DEF SlotRec

LEMMA UnrefFields ==
  ASSUME PleInv, NEW h, NEW s \in Slots
  PROVE  /\ Unref(h)[s].refs = Max({0, slots[s].refs - LeasesOn(s, h)})
         /\ Unref(h)[s].st = slots[s].st /\ Unref(h)[s].page = slots[s].page
         /\ Unref(h)[s].refs \in Nat => Unref(h)[s] \in SlotRec
<1> DEFINE y == slots[s]
           k == Max({0, slots[s].refs - LeasesOn(s, h)})
<1>1. y \in SlotRec
  BY DEF PleInv, CacheInv, CacheTypes
<1>2. Unref(h)[s] = [y EXCEPT !.refs = k]
  BY DEF Unref
<1> HIDE DEF k
<1>3. /\ Unref(h)[s].refs = k /\ Unref(h)[s].st = y.st /\ Unref(h)[s].page = y.page
      /\ k \in Nat => Unref(h)[s] \in SlotRec
  <2> HIDE DEF y
  <2> QED BY <1>1, <1>2, NewRefs
<1> QED BY <1>3 DEF k, y

\* What the release of h leaves of the cache.
LEMMA UnrefCache ==
  ASSUME PleInv, NEW h, slots' = Unref(h), UNCHANGED <<data, lru, queue, worker>>,
         \A s \in Slots : slots'[s].refs \in Nat /\ slots'[s].refs <= slots[s].refs
  PROVE  CacheInv' /\ Stays(slots, data, slots', data)
<1>1. \A s \in Slots : slots'[s].st = slots[s].st /\ slots'[s].page = slots[s].page /\ slots'[s] \in SlotRec
  BY UnrefFields
<1>2. slots' \in [Slots -> SlotRec]
  <2>1. slots' = [s \in Slots |-> slots'[s]]
    BY DEF Unref
  <2> QED BY <1>1, <2>1
<1>3. Quiet(slots', slots)
  <2>1. \A s \in Slots : slots[s].refs = 0 => slots'[s].refs = 0
    OBVIOUS
  <2> QED BY <1>1, <1>2, <2>1 DEF Quiet
<1>4. lru' \in Orders /\ CacheInv
  BY DEF PleInv, CacheInv, CacheTypes
<1>5. CacheInv'
  BY <1>3, <1>4, QuietCache
<1>6. Stays(slots, data, slots', data)
  BY <1>1 DEF Stays
<1> QED BY <1>5, <1>6

\* No failure begins to be referred to when references go.
LEMMA FewerFaults ==
  ASSUME NEW sl, NEW sl2, NEW rd, NEW rd2, NEW flt, FaultsV(sl, rd, flt),
         \A s \in Slots : /\ sl2[s].refs \in Nat /\ sl[s].refs \in Nat /\ sl2[s].refs <= sl[s].refs
                          /\ sl2[s].st = "error" => sl[s].st = "error",
         \A q \in Readers : (rd2[q].failed => rd[q].failed) /\ (rd2[q].pc # "idle" => rd[q].pc # "idle")
  PROVE  FaultsV(sl2, rd2, flt)
<1>1. ASSUME NEW s \in Slots, sl2[s].st = "error", sl2[s].refs > 0 PROVE sl[s].st = "error" /\ sl[s].refs > 0
  BY <1>1
<1> QED BY <1>1 DEF FaultsV

\* Reader r returns B, a part of its leases, and becomes x.
LEMMA ReturnStep ==
  ASSUME PleInv, NEW r \in Readers, NEW x, NEW rd, NEW B, ReaderOK(x), Replaced(rd, reader, r, x), reader[r].pc # "idle",
         B \subseteq Kept(reader[r]), Kept(x) = Kept(reader[r]) \ B, x.want = NoSlot, reader[r].want = NoSlot,
         x.failed => reader[r].failed, slots' = Unref(B), reader' = WakeSetWaiters(rd),
         UNCHANGED <<data, lru, queue, worker, stream, engine, faulted>>
  PROVE  PleInv'
<1>1. /\ ReadersV(reader) /\ LinksV(slots, data, reader, stream, faulted) /\ stream \in [Readers -> Seq(SUBSET Lease)]
      /\ RefsV(slots, reader, stream) /\ FaultsV(slots, reader, faulted)
  BY DEF PleInv, LinksV
<1>2. RefsV(slots', rd, stream) /\ \A s \in Slots : slots'[s].refs <= slots[s].refs
  <2>1. GivesBack(slots, slots', B)
    BY UnrefFields DEF GivesBack
  <2>2. Shrunk(reader, rd, r, B)
    BY DEF Replaced, Shrunk
  <2>3. \A q \in Readers : rd[q].want = reader[q].want
    BY DEF Replaced
  <2> QED BY <1>1, <2>1, <2>2, <2>3, RefsReturned
<1>3. \A s \in Slots : slots'[s].refs \in Nat /\ slots[s].refs \in Nat
  BY <1>1, <1>2, RefsParts
<1>4. CacheInv' /\ Stays(slots, data, slots', data)
  BY <1>2, <1>3, UnrefCache
<1>5. WantsV(slots', reader) /\ LeasesV(slots', data, reader, stream)
  BY <1>1, <1>4, LinksFrame
<1>6. WantsV(slots', rd)
  BY <1>5 DEF WantsV, Replaced
<1>7. LeasesV(slots', data, rd, stream)
  <2>1. \A q \in Readers : \A l \in Kept(rd[q]) : l \in Kept(reader[q])
    BY DEF Replaced
  <2> QED BY <1>5, <2>1 DEF LeasesV
<1>8. FaultsV(slots', rd, faulted)
  <2>1. \A s \in Slots : slots'[s].st = "error" => slots[s].st = "error"
    BY UnrefFields
  <2>2. \A q \in Readers : (rd[q].failed => reader[q].failed) /\ (rd[q].pc # "idle" => reader[q].pc # "idle")
    BY DEF Replaced
  <2> QED BY <1>1, <1>2, <1>3, <2>1, <2>2, FewerFaults
<1>9. LinksV(slots', data, rd, stream', faulted)
  BY <1>2, <1>6, <1>7, <1>8 DEF LinksV
<1>10. ReadersV(rd) /\ stream' \in [Readers -> Seq(SUBSET Lease)]
  BY <1>1 DEF Replaced
<1> QED BY <1>4, <1>9, <1>10, WakeStep

LEMMA DropInv == ASSUME PleInv, NEW r \in Readers, DropFirst(r) PROVE PleInv'
<1> DEFINE rc == reader[r]
           pc == IF rc.failed THEN "abort" ELSE "enqueue"
           x == [rc EXCEPT !.got = {}, !.pc = pc]
           rd == [reader EXCEPT ![r] = x]
           B == rc.got
<1>1. /\ rc.pc = "drop" /\ slots' = Unref(B) /\ reader' = WakeSetWaiters(rd)
      /\ UNCHANGED <<data, lru, queue, worker, stream, engine, faulted>>
  BY DEF DropFirst
<1>2. ReadersV(reader) /\ ReaderOK(rc) /\ rc \in ReaderRec
  BY DEF PleInv, ReadersV
<1>3. /\ x \in ReaderRec /\ x.want = rc.want /\ x.failed = rc.failed /\ x.pc = pc /\ x.rows = rc.rows /\ x.n = rc.n
      /\ x.tile = rc.tile /\ x.got = {}
  <2>1. pc \in PCs
    BY DEF PCs
  <2> HIDE DEF pc, rc
  <2> QED BY <1>2, <2>1 DEF ReaderRec
<1>4. pc \in {"abort", "enqueue"}
  OBVIOUS
<1> HIDE DEF x, pc
<1>5. ReaderOK(x) /\ x.want = NoSlot /\ rc.want = NoSlot
  BY <1>1, <1>2, <1>3, <1>4 DEF ReaderOK, Middle, Wanting
<1>6. rc.tile \cap rc.got = {}
  <2>1. \A l \in rc.got : l.place = <<rc.n + 1, 1>>
    BY <1>2 DEF ReaderOK
  <2>2. \A l \in rc.tile : l.place[1] <= rc.n
    BY <1>2 DEF ReaderOK
  <2>3. rc.n \in Nat
    BY <1>2, ReaderFields, TileKnown
  <2>4. ~(rc.n + 1 <= rc.n)
    BY <2>3
  <2> HIDE DEF rc
  <2> QED BY <2>1, <2>2, <2>4
<1>7. B \subseteq Kept(rc) /\ Kept(x) = Kept(rc) \ B
  BY <1>3, <1>6 DEF Kept
<1>8. Replaced(rd, reader, r, x)
  BY <1>2, <1>5, OneReader
<1>9. x.failed => rc.failed
  BY <1>3
<1> HIDE DEF rd, B
<1> QED BY <1>1, <1>5, <1>7, <1>8, <1>9, ReturnStep

LEMMA AbortInv == ASSUME PleInv, NEW r \in Readers, Abort(r) PROVE PleInv'
<1> DEFINE rc == reader[r]
           x == Idle
           rd == [reader EXCEPT ![r] = x]
           B == rc.tile
<1>1. /\ rc.pc = "abort" /\ slots' = Unref(B) /\ reader' = WakeSetWaiters(rd)
      /\ UNCHANGED <<data, lru, queue, worker, stream, engine, faulted>>
  BY DEF Abort
<1>2. ReadersV(reader) /\ ReaderOK(rc)
  BY DEF PleInv, ReadersV
<1>3. rc.got = {} /\ rc.want = NoSlot
  BY <1>1, <1>2 DEF ReaderOK, Wanting
<1>4. ReaderOK(x) /\ x.want = NoSlot /\ ~x.failed /\ Kept(x) = {}
  BY IdleReader
<1> HIDE DEF x
<1>5. B \subseteq Kept(rc) /\ Kept(x) = Kept(rc) \ B
  BY <1>3, <1>4 DEF Kept
<1>6. Replaced(rd, reader, r, x)
  BY <1>2, <1>4, OneReader
<1> HIDE DEF rd, B
<1> QED BY <1>1, <1>3, <1>4, <1>5, <1>6, ReturnStep

\* The callback of the stream returns the leases of a tile.
LEMMA StreamReleasesInv == ASSUME PleInv, NEW r \in Readers, StreamReleases(r) PROVE PleInv'
<1> DEFINE B == Head(stream[r])
           st2 == [stream EXCEPT ![r] = Tail(stream[r])]
<1>1. /\ stream[r] # <<>> /\ slots' = Unref(B) /\ stream' = st2 /\ reader' = WakeSetWaiters(reader)
      /\ UNCHANGED <<data, lru, queue, worker, engine, faulted>>
  BY DEF StreamReleases
<1>2. /\ ReadersV(reader) /\ LinksV(slots, data, reader, stream, faulted) /\ stream \in [Readers -> Seq(SUBSET Lease)]
      /\ RefsV(slots, reader, stream) /\ FaultsV(slots, reader, faulted)
  BY DEF PleInv, LinksV
<1>3. RefsV(slots', reader, st2) /\ \A s \in Slots : slots'[s].refs <= slots[s].refs
  <2>1. GivesBack(slots, slots', B)
    BY <1>1, UnrefFields DEF GivesBack
  <2> QED BY <1>1, <1>2, <2>1, RefsReleased
<1>4. stream[r] \in Seq(SUBSET Lease) /\ stream[r] # <<>>
  BY <1>1, <1>2
<1>5. Tail(stream[r]) \in Seq(SUBSET Lease) /\ Len(Tail(stream[r])) = Len(stream[r]) - 1
  BY <1>4
<1>6. st2 \in [Readers -> Seq(SUBSET Lease)]
  BY <1>2, <1>5
<1>7. \A q \in Readers : \A i \in DOMAIN st2[q] : \E j \in DOMAIN stream[q] : st2[q][i] = stream[q][j]
  <2>1. ASSUME NEW i \in DOMAIN Tail(stream[r]) PROVE i + 1 \in DOMAIN stream[r] /\ Tail(stream[r])[i] = stream[r][i + 1]
    BY <1>4
  <2>2. st2[r] = Tail(stream[r]) /\ \A q \in Readers \ {r} : st2[q] = stream[q]
    BY <1>2
  <2> HIDE DEF st2
  <2> QED BY <2>1, <2>2
<1> HIDE DEF B, st2
<1>8. \A s \in Slots : slots'[s].refs \in Nat /\ slots[s].refs \in Nat
  BY <1>2, <1>3, RefsParts
<1>9. CacheInv' /\ Stays(slots, data, slots', data)
  BY <1>1, <1>3, <1>8, UnrefCache
<1>10. WantsV(slots', reader) /\ LeasesV(slots', data, reader, stream)
  BY <1>2, <1>9, LinksFrame
<1>11. LeasesV(slots', data, reader, st2)
  BY <1>7, <1>10 DEF LeasesV
<1>12. FaultsV(slots', reader, faulted)
  <2>1. \A s \in Slots : slots'[s].st = "error" => slots[s].st = "error"
    BY <1>1, UnrefFields
  <2> QED BY <1>2, <1>3, <1>8, <2>1, FewerFaults
<1>13. LinksV(slots', data, reader, st2, faulted)
  BY <1>3, <1>10, <1>11, <1>12 DEF LinksV
<1>14. /\ ReadersV(reader') /\ LinksV(slots', data, reader', st2, faulted)
       /\ \A q \in Readers : reader'[q].pc = "idle" <=> reader[q].pc = "idle"
  <2>1. reader' \in {reader, Woken(reader)}
    BY <1>1 DEF WakeSetWaiters
  <2> QED BY <1>2, <1>13, <2>1, Wakes
<1>15. EngineInv'
  <2>1. engine \notin {"stop", "freed"} /\ engine \in {"open", "drain", "stop", "freed"}
    BY <1>1 DEF PleInv, EngineInv
  <2>2. engine # "open" => \A q \in Readers : reader[q].pc = "idle"
    BY DEF PleInv, EngineInv
  <2> QED BY <1>1, <1>14, <2>1, <2>2 DEF EngineInv
<1> QED BY <1>1, <1>6, <1>9, <1>14, <1>15 DEF PleInv

\* The reader that has sent its tile.
LEMMA SentReader ==
  ASSUME NEW rc, ReaderOK(rc), rc.pc = "enqueue"
  PROVE  LET rest == SubSeq(rc.rows, rc.n + 1, Len(rc.rows))
             x == IF rest = <<>> THEN Idle ELSE [rc EXCEPT !.pc = "fill", !.rows = rest, !.n = 0, !.tile = {}]
         IN  ReaderOK(x) /\ Kept(x) = {} /\ x.want = NoSlot /\ (x.failed => rc.failed)
<1> DEFINE rest == SubSeq(rc.rows, rc.n + 1, Len(rc.rows))
           x == [rc EXCEPT !.pc = "fill", !.rows = rest, !.n = 0, !.tile = {}]
<1>1. rc \in ReaderRec /\ rc.rows \in Seq(RowSet) /\ rc.n \in Nat /\ rc.want = NoSlot /\ rc.got = {}
  <2>1. rc \in ReaderRec
    BY DEF ReaderOK
  <2>2. rc.rows \in Seq(RowSet) /\ rc.n \in Nat
    BY <2>1, ReaderFields, TileKnown
  <2> QED BY <2>1, <2>2 DEF ReaderOK, Wanting
<1>2. rest \in Seq(RowSet)
  <2>1. \A i \in (rc.n + 1)..Len(rc.rows) : rc.rows[i] \in RowSet
    BY <1>1
  <2>2. rc.n + 1 \in 1..(Len(rc.rows) + 1) \/ rc.n + 1 > Len(rc.rows)
    BY <1>1
  <2> QED BY <1>1, <2>1, <2>2
<1> HIDE DEF rest
<1>3. 0 \in 0..Tile
  BY TileKnown
<1>4. /\ x \in ReaderRec /\ x.pc = "fill" /\ x.rows = rest /\ x.n = 0 /\ x.tile = {} /\ x.got = {}
      /\ x.want = NoSlot /\ x.failed = rc.failed
  BY <1>1, <1>2, <1>3 DEF ReaderRec, PCs
<1> HIDE DEF x
<1>5. CASE rest # <<>>
  <2>1. ReaderOK(x)
    BY <1>4, <1>5 DEF ReaderOK, Middle, Wanting
  <2>2. Kept(x) = {}
    BY <1>4 DEF Kept
  <2> QED BY <1>4, <1>5, <2>1, <2>2 DEF x, rest
<1>6. CASE rest = <<>>
  BY <1>6, IdleReader DEF rest
<1> QED BY <1>5, <1>6

LEMMA EnqueueInv == ASSUME PleInv, NEW r \in Readers, Enqueue(r) PROVE PleInv'
<1> DEFINE rc == reader[r]
           rest == SubSeq(rc.rows, rc.n + 1, Len(rc.rows))
           x == IF rest = <<>> THEN Idle ELSE [rc EXCEPT !.pc = "fill", !.rows = rest, !.n = 0, !.tile = {}]
           B == rc.tile
           st2 == [stream EXCEPT ![r] = Append(stream[r], B)]
<1>1. /\ rc.pc = "enqueue" /\ stream' = st2 /\ reader' = [reader EXCEPT ![r] = x]
      /\ UNCHANGED <<slots, data, lru, queue, worker, engine, faulted>>
  BY DEF Enqueue
<1>2. /\ ReadersV(reader) /\ LinksV(slots, data, reader, stream, faulted) /\ stream \in [Readers -> Seq(SUBSET Lease)]
      /\ ReaderOK(rc) /\ CacheInv
  BY DEF PleInv, ReadersV
<1>3. ReaderOK(x) /\ Kept(x) = {} /\ x.want = NoSlot /\ (x.failed => rc.failed)
  BY <1>1, <1>2, SentReader
<1>4. B \in SUBSET Lease /\ Kept(rc) = B /\ rc.want = NoSlot
  <2>1. rc \in ReaderRec /\ rc.got = {} /\ rc.want = NoSlot
    BY <1>1, <1>2 DEF ReaderOK, Wanting
  <2> QED BY <2>1, ReaderFields DEF Kept
<1>5. Replaced(reader', reader, r, x)
  <2> HIDE DEF x
  <2>1. Replaced([reader EXCEPT ![r] = x], reader, r, x)
    BY <1>2, <1>3, OneReader
  <2> QED BY <1>1, <2>1, Zenon
<1> HIDE DEF x, rest
<1>6. st2 \in [Readers -> Seq(SUBSET Lease)] /\ st2[r] = Append(stream[r], B) /\ \A q \in Readers \ {r} : st2[q] = stream[q]
  BY <1>2, <1>4
<1>7. RefsV(slots, reader', st2)
  <2>1. RefsV(slots, reader, stream)
    BY <1>2 DEF LinksV
  <2>2. Kept(reader'[r]) = {} /\ \A q \in Readers \ {r} : Kept(reader'[q]) = Kept(reader[q])
    BY <1>3, <1>5 DEF Replaced
  <2>3. \A q \in Readers : reader'[q].want = reader[q].want
    BY <1>3, <1>4, <1>5 DEF Replaced
  <2> HIDE DEF B
  <2> QED BY <1>2, <1>4, <2>1, <2>2, <2>3, RefsSent
<1>8. LeasesV(slots, data, reader', st2)
  <2>1. LeasesV(slots, data, reader, stream)
    BY <1>2 DEF LinksV
  <2>2. \A q \in Readers : \A l \in Kept(reader'[q]) : Intact(slots, data, l)
    BY <1>3, <1>5, <2>1 DEF LeasesV, Replaced
  <2>3. ASSUME NEW i \in DOMAIN st2[r] PROVE st2[r][i] = B \/ \E j \in DOMAIN stream[r] : st2[r][i] = stream[r][j]
    <3>1. stream[r] \in Seq(SUBSET Lease) /\ i \in DOMAIN Append(stream[r], B)
      BY <1>2, <1>6
    <3> HIDE DEF B, st2
    <3> QED BY <1>6, <3>1
  <2>4. \A l \in B : Intact(slots, data, l)
    BY <1>4, <2>1 DEF LeasesV
  <2>5. \A q \in Readers : \A i \in DOMAIN st2[q] : \A l \in st2[q][i] : Intact(slots, data, l)
    <3>1. \A i \in DOMAIN st2[r] : \A l \in st2[r][i] : Intact(slots, data, l)
      <4> HIDE DEF B, st2
      <4> QED BY <2>1, <2>3, <2>4 DEF LeasesV
    <3>2. \A q \in Readers \ {r} : \A i \in DOMAIN st2[q] : \A l \in st2[q][i] : Intact(slots, data, l)
      <4> HIDE DEF B, st2
      <4> QED BY <1>6, <2>1 DEF LeasesV
    <3> HIDE DEF B, st2
    <3> QED BY <3>1, <3>2
  <2> HIDE DEF B, st2
  <2> QED BY <2>2, <2>5 DEF LeasesV
<1> HIDE DEF B, st2
<1>9. WantsV(slots, reader')
  <2>1. WantsV(slots, reader)
    BY <1>2 DEF LinksV
  <2> QED BY <1>3, <1>5, <2>1 DEF WantsV, Replaced
<1>10. FaultsV(slots, reader', faulted)
  <2>1. FaultsV(slots, reader, faulted) /\ RefsV(slots, reader, stream)
    BY <1>2 DEF LinksV
  <2>2. \A q \in Readers : (reader'[q].failed => reader[q].failed) /\ (reader'[q].pc # "idle" => reader[q].pc # "idle")
    BY <1>1, <1>3, <1>5 DEF Replaced
  <2> QED BY <2>1, <2>2 DEF FaultsV
<1>11. LinksV(slots', data', reader', stream', faulted')
  BY <1>1, <1>7, <1>8, <1>9, <1>10 DEF LinksV
<1>12. CacheInv'
  <2>1. slots' = slots /\ data' = data /\ lru' = lru /\ queue' = queue /\ worker' = worker
    BY <1>1
  <2> QED BY <1>2, <2>1 DEF CacheInv, CacheTypes, Placed, OneEntry, Loads, Entry
<1>13. EngineInv'
  <2>1. engine = "open"
    BY <1>1, GatherOpen
  <2> QED BY <1>1, <2>1, OpenStays
<1>14. ReadersV(reader') /\ stream' \in [Readers -> Seq(SUBSET Lease)]
  BY <1>1, <1>5, <1>6 DEF Replaced
<1> QED BY <1>11, <1>12, <1>13, <1>14 DEF PleInv

-----------------------------------------------------------------------------
(* The rows that are ready. *)

LEMMA LookupFacts ==
  ASSUME NEW p \in Pages, ReadySlot(p) # {}
  PROVE  Lookup(p) \in Slots /\ slots[Lookup(p)].st = "ready" /\ slots[Lookup(p)].page = p
<1>1. Lookup(p) \in ReadySlot(p)
  BY DEF Lookup
<1>2. WaysOf(p) \subseteq Slots
  BY Layout
<1> HIDE DEF Lookup
<1> QED BY <1>1, <1>2 DEF ReadySlot

\* A gather that fills a tile has rows left, and the prefix it finds ready is
\* no longer than the tile.
LEMMA PrefixFacts ==
  ASSUME PleInv, NEW r \in Readers, reader[r].pc = "fill"
  PROVE  /\ reader[r].rows \in Seq(RowSet) /\ Capacity(r) \in Nat /\ Capacity(r) <= Tile
         /\ Capacity(r) <= Len(reader[r].rows)
         /\ \A n \in Nat : n < Capacity(r) => n < Tile /\ n < Len(reader[r].rows)
         /\ ReadyRows(r) \in 0..Capacity(r) /\ \A i \in 1..ReadyRows(r) : RowReady(reader[r].rows[i])
<1> DEFINE rows == reader[r].rows
           c == Capacity(r)
           ready == {k \in 0..c : \A i \in 1..k : RowReady(rows[i])}
<1>1. reader[r] \in ReaderRec
  BY DEF PleInv, ReadersV
<1>2. rows \in Seq(RowSet) /\ Len(rows) \in Nat /\ Tile \in Nat
  BY <1>1, ReaderFields, TileKnown
<1>3. c \in Nat /\ c <= Tile /\ c <= Len(rows) /\ \A n \in Nat : n < c <=> n < Tile /\ n < Len(rows)
  <2>1. c = Min({Tile, Len(rows)})
    BY DEF Capacity
  <2> HIDE DEF c, rows
  <2> QED BY <1>2, <2>1, MinPair
<1>4. ReadyRows(r) = IF Batch THEN Max(ready) ELSE 0
  BY DEF ReadyRows
<1> HIDE DEF c, rows
<1>5. 0 \in ready /\ ready \subseteq 0..c
  BY <1>3
<1>6. ReadyRows(r) \in ready
  <2>1. Max(ready) \in ready
    <3> HIDE DEF ready
    <3> QED BY <1>3, <1>5, MaxIn
  <2> HIDE DEF ready
  <2> QED BY <1>4, <1>5, <2>1
<1>7. ReadyRows(r) \in 0..c /\ \A i \in 1..ReadyRows(r) : RowReady(rows[i])
  BY <1>6
<1> QED BY <1>2, <1>3, <1>7 DEF c, rows

\* The leases on them are well formed and their pages are there.
LEMMA PlaceFacts ==
  ASSUME PleInv, NEW r \in Readers, reader[r].rows \in Seq(RowSet), NEW k \in Nat, k <= Tile, k <= Len(reader[r].rows),
         \A i \in 1..k : RowReady(reader[r].rows[i]), NEW x \in Places(r, k)
  PROVE  /\ LeaseAt(r, x) \in Lease /\ LeaseAt(r, x).place[1] <= k /\ Intact(slots, data, LeaseAt(r, x))
         /\ slots[LeaseAt(r, x).slot].st = "ready"
<1> DEFINE i == x[1]
           j == x[2]
           row == reader[r].rows[i]
           p == row[j]
           l == LeaseAt(r, x)
<1>1. x \in (1..k) \X {1, 2} /\ x[2] <= Len(reader[r].rows[x[1]])
  BY DEF Places
<1>2. i \in 1..k /\ j \in {1, 2} /\ j <= Len(row) /\ x = <<i, j>>
  BY <1>1
<1>3. i \in 1..Len(reader[r].rows) /\ i \in 1..Tile /\ i <= k
  BY <1>2, TileKnown
<1>4. row \in RowSet /\ RowReady(row)
  BY <1>2, <1>3
<1> HIDE DEF i, j, row
<1>5. j \in DOMAIN row /\ p \in Pages
  <2>1. /\ Len(row) \in {1, 2} /\ DOMAIN row = 1..Len(row) /\ row[1] \in Pages
        /\ Len(row) = 2 => row[2] \in Pages
    BY <1>4, RowFacts
  <2>2. CASE j = 1
    BY <2>1, <2>2
  <2>3. CASE j = 2
    BY <1>2, <2>1, <2>3
  <2> QED BY <1>2, <2>2, <2>3
<1>6. ReadySlot(p) # {}
  BY <1>4, <1>5 DEF RowReady
<1>7. Lookup(p) \in Slots /\ slots[Lookup(p)].st = "ready" /\ slots[Lookup(p)].page = p
  <2> HIDE DEF p
  <2> QED BY <1>5, <1>6, LookupFacts
<1>8. l = [place |-> x, page |-> p, slot |-> Lookup(p)]
  BY DEF LeaseAt, row, i, j
<1> HIDE DEF p, l
<1>9. l.place = x /\ l.page = p /\ l.slot = Lookup(p)
  BY <1>8
<1>10. x \in (1..Tile) \X {1, 2}
  BY <1>2, <1>3
<1>11. l \in Lease
  BY <1>5, <1>7, <1>8, <1>10 DEF Lease
<1>12. data[Lookup(p)] = p
  BY <1>7 DEF PleInv, CacheInv, Placed
<1>13. l.place[1] <= k
  BY <1>2, <1>3, <1>9
<1> QED BY <1>7, <1>9, <1>11, <1>12, <1>13 DEF l, Intact

LEMMA LeasesFinite == ASSUME NEW r, NEW k \in Nat PROVE IsFiniteSet(ReadyLeases(r, k))
<1> DEFINE P == Places(r, k)
           L == ReadyLeases(r, k)
           f == [x \in P |-> LeaseAt(r, x)]
<1>1. IsFiniteSet(1..k) /\ IsFiniteSet({1, 2})
  <2>1. IsFiniteSet(1..k)
    BY FS_Interval
  <2>2. IsFiniteSet({1}) /\ {1, 2} = {1} \cup {2}
    BY FS_Singleton
  <2> QED BY <2>1, <2>2, FS_AddElement
<1>2. IsFiniteSet((1..k) \X {1, 2})
  BY <1>1, FS_Product
<1>3. IsFiniteSet(P)
  BY <1>2, FS_Subset DEF Places
<1>4. L = {LeaseAt(r, x) : x \in P}
  BY DEF ReadyLeases
<1> HIDE DEF P, L
<1>5. f \in Surjection(P, L)
  BY <1>4 DEF Surjection
<1> HIDE DEF f
<1> QED BY <1>3, <1>5, FS_Surjection DEF L

\* The states of the loop that touches the rows.
LEMMA TouchesExist ==
  ASSUME NEW rows, NEW N \in Nat, NEW o \in Orders,
         \A i \in 1..N : \A q \in Orders : TouchRow(q, rows[i]) \in Orders
  PROVE  \E c \in [0..N -> Orders] : c[0] = o /\ \A i \in 1..N : c[i] = TouchRow(c[i - 1], rows[i])
<1> DEFINE P(n, c) == c \in [0..n -> Orders] /\ c[0] = o /\ \A i \in 1..n : c[i] = TouchRow(c[i - 1], rows[i])
           T == {n \in 0..N : \E c : P(n, c)}
<1>1. 0 \in T
  <2> DEFINE z == [i \in 0..0 |-> o]
  <2>1. z \in [0..0 -> Orders] /\ z[0] = o /\ 1..0 = {}
    OBVIOUS
  <2>2. P(0, z)
    BY <2>1
  <2> HIDE DEF P, z
  <2> QED BY <2>2
<1>2. ASSUME NEW n \in 1..N, n - 1 \in T PROVE n \in T
  <2>1. PICK c : P(n - 1, c)
    BY <1>2
  <2> DEFINE new == TouchRow(c[n - 1], rows[n])
             d == [i \in 0..n |-> IF i = n THEN new ELSE c[i]]
  <2>2. n \in Nat /\ n > 0 /\ n - 1 \in 0..(n - 1)
    OBVIOUS
  <2>3. c[n - 1] \in Orders /\ new \in Orders
    BY <2>1, <2>2
  <2> HIDE DEF new
  <2>4. d \in [0..n -> Orders] /\ d[0] = o
    BY <2>1, <2>2, <2>3
  <2>5. ASSUME NEW i \in 1..n PROVE d[i] = TouchRow(d[i - 1], rows[i])
    <3>1. i \in 0..n /\ i - 1 \in 0..n /\ i - 1 # n
      BY <2>2
    <3>2. CASE i = n
      BY <3>1, <3>2 DEF new
    <3>3. CASE i # n
      <4>1. i \in 1..(n - 1)
        BY <2>2, <3>3
      <4> QED BY <2>1, <3>1, <3>3, <4>1
    <3> QED BY <3>2, <3>3
  <2>6. P(n, d)
    BY <2>4, <2>5
  <2>7. n \in 0..N
    OBVIOUS
  <2> HIDE DEF d, P
  <2> QED BY <2>6, <2>7
<1> HIDE DEF P
<1>3. N \in T
  <2> HIDE DEF T
  <2>1. \A i \in 1..N : i - 1 \in T => i \in T
    BY <1>2
  <2>2. \A i \in 0..N : i \in T
    BY <1>1, <2>1, CountUp
  <2> QED BY <2>2
<1>4. PICK c : P(N, c)
  BY <1>3
<1> QED BY <1>4 DEF P

LEMMA TouchRowsKeeps ==
  ASSUME lru \in Orders, NEW rows, NEW k \in Nat, \A i \in 1..k : \A q \in Orders : TouchRow(q, rows[i]) \in Orders
  PROVE  TouchRows(rows, k) \in Orders
<1> DEFINE F(c) == [i \in 0..k |-> IF i = 0 THEN lru ELSE TouchRow(c[i - 1], rows[i])]
           c == CHOOSE f : f = F(f)
<1>1. \E f : f = F(f)
  <2>1. PICK f \in [0..k -> Orders] : f[0] = lru /\ \A i \in 1..k : f[i] = TouchRow(f[i - 1], rows[i])
    BY TouchesExist
  <2>2. \A i \in 0..k : f[i] = IF i = 0 THEN lru ELSE TouchRow(f[i - 1], rows[i])
    <3>1. \A i \in 0..k : i # 0 => i \in 1..k
      OBVIOUS
    <3> QED BY <2>1, <3>1
  <2>3. f = F(f)
    BY <2>1, <2>2
  <2> QED BY <2>3
<1>2. c = F(c)
  BY <1>1
<1>3. TouchRows(rows, k) = c[k]
  BY DEF TouchRows
<1> HIDE DEF c
<1>4. c[0] = lru /\ \A i \in 1..k : c[i] = TouchRow(c[i - 1], rows[i])
  <2>1. \A i \in 0..k : c[i] = IF i = 0 THEN lru ELSE TouchRow(c[i - 1], rows[i])
    BY <1>2
  <2>2. 0 \in 0..k /\ \A i \in 1..k : i \in 0..k /\ i # 0
    OBVIOUS
  <2> QED BY <2>1, <2>2
<1> DEFINE T == {i \in 0..k : c[i] \in Orders}
<1>5. 0 \in T
  BY <1>4
<1>6. ASSUME NEW i \in 1..k, i - 1 \in T PROVE i \in T
  BY <1>4, <1>6
<1>7. \A i \in 0..k : i \in T
  <2> HIDE DEF T
  <2> QED BY <1>5, <1>6, CountUp
<1> QED BY <1>3, <1>7

\* The touches keep the order one of all slots.
LEMMA PrefixTouched ==
  ASSUME lru \in Orders, NEW rows \in Seq(RowSet), NEW k \in Nat, k <= Len(rows), \A i \in 1..k : RowReady(rows[i])
  PROVE  TouchRows(rows, k) \in Orders
<1>1. ASSUME NEW i \in 1..k, NEW q \in Orders PROVE TouchRow(q, rows[i]) \in Orders
  <2> DEFINE row == rows[i]
             a == Lookup(row[1])
             b == Lookup(row[2])
  <2>1. row \in RowSet /\ RowReady(row)
    BY <1>1
  <2> HIDE DEF row
  <2>2. /\ Len(row) \in {1, 2} /\ DOMAIN row = 1..Len(row) /\ row[1] \in Pages
        /\ Len(row) = 2 => row[2] \in Pages
    BY <2>1, RowFacts
  <2>3. ReadySlot(row[1]) # {} /\ (Len(row) = 2 => ReadySlot(row[2]) # {})
    <3>1. 1 \in DOMAIN row /\ (Len(row) = 2 => 2 \in DOMAIN row)
      BY <2>2
    <3> QED BY <2>1, <3>1 DEF RowReady
  <2>4. a \in Slots /\ (Len(row) = 2 => b \in Slots)
    BY <2>2, <2>3, LookupFacts
  <2>5. TouchRow(q, row) = IF Len(row) = 1 THEN Touch(q, a) ELSE Touch(Touch(q, a), b)
    BY DEF TouchRow
  <2> HIDE DEF a, b
  <2>6. Touch(q, a) \in Orders
    BY <1>1, <2>4, TouchKeeps
  <2>7. Len(row) = 2 => Touch(Touch(q, a), b) \in Orders
    BY <2>4, <2>6, TouchKeeps
  <2>8. TouchRow(q, row) \in Orders
    BY <2>2, <2>5, <2>6, <2>7
  <2> QED BY <2>8 DEF row
<1> QED BY <1>1, TouchRowsKeeps

\* Slots that gain the references of the leases L.
LEMMA RefFields ==
  ASSUME PleInv, NEW L, IsFiniteSet(L), NEW s \in Slots
  PROVE  /\ Ref(L)[s].refs = slots[s].refs + LeasesOn(s, L)
         /\ Ref(L)[s].st = slots[s].st /\ Ref(L)[s].page = slots[s].page /\ Ref(L)[s] \in SlotRec
<1> DEFINE y == slots[s]
           k == y.refs + LeasesOn(s, L)
<1>1. y \in SlotRec
  BY DEF PleInv, CacheInv, CacheTypes
<1>2. LeasesOn(s, L) \in Nat
  <2> DEFINE M == {l \in L : l.slot = s}
  <2>1. IsFiniteSet(M)
    BY FS_Subset
  <2> HIDE DEF M
  <2>2. Cardinality(M) \in Nat
    BY <2>1, FS_CardinalityType
  <2> QED BY <2>2 DEF M, LeasesOn
<1>3. k \in Nat
  BY <1>1, <1>2, SlotFields
<1>4. Ref(L)[s] = [y EXCEPT !.refs = k]
  BY DEF Ref
<1> HIDE DEF k, y
<1>5. LET z == [y EXCEPT !.refs = k] IN z.refs = k /\ z.st = y.st /\ z.page = y.page /\ (k \in Nat => z \in SlotRec)
  BY <1>1, NewRefs
<1> QED BY <1>3, <1>4, <1>5 DEF k, y

LEMMA NoneOn == ASSUME NEW L, NEW s, \A l \in L : l.slot # s PROVE LeasesOn(s, L) = 0
<1>1. {l \in L : l.slot = s} = {}
  OBVIOUS
<1> QED BY <1>1, FS_EmptySet DEF LeasesOn

\* The reader that has leased its first k rows.
Fills(rc, k, L, pc) ==
  /\ ReaderOK(rc) /\ rc.pc = "fill" /\ k \in 0..Tile /\ L \in SUBSET Lease /\ \A l \in L : l.place[1] <= k
  /\ pc \in {"enqueue", "page"} /\ (pc = "page" => k < Tile /\ k < Len(rc.rows))

WithTile(rc, k, L, pc) == [rc EXCEPT !.n = k, !.tile = L, !.pc = pc]

LEMMA FilledReader ==
  ASSUME NEW rc, NEW k, NEW L, NEW pc, Fills(rc, k, L, pc)
  PROVE  LET x == WithTile(rc, k, L, pc)
         IN  ReaderOK(x) /\ Kept(x) = L /\ x.want = NoSlot /\ x.failed = rc.failed /\ x.pc = pc
<1> DEFINE x == WithTile(rc, k, L, pc)
<1> USE DEF Fills
<1>1. rc \in ReaderRec /\ rc.got = {} /\ rc.want = NoSlot /\ rc.rows # <<>>
  BY DEF ReaderOK, Wanting
<1>2. pc \in PCs
  BY DEF PCs
<1>3. /\ x \in ReaderRec /\ x.n = k /\ x.tile = L /\ x.pc = pc /\ x.got = {} /\ x.want = NoSlot
      /\ x.rows = rc.rows /\ x.failed = rc.failed
  BY <1>1, <1>2 DEF ReaderRec, WithTile
<1> HIDE DEF x
<1>4. ReaderOK(x)
  BY <1>1, <1>3 DEF ReaderOK, Middle, Wanting
<1>5. Kept(x) = L
  BY <1>3 DEF Kept
<1> QED BY <1>3, <1>4, <1>5 DEF x

LEMMA AcquireInv == ASSUME PleInv, NEW r \in Readers, AcquireReady(r) PROVE PleInv'
<1> DEFINE rc == reader[r]
           k == ReadyRows(r)
           L == ReadyLeases(r, k)
           whole == k = Capacity(r)
           first == rc.rows[k + 1][1]
           half == Batch /\ ~whole /\ ReadySlot(first) # {}
           order == TouchRows(rc.rows, k)
           pc == IF whole THEN "enqueue" ELSE "page"
           x == WithTile(rc, k, L, pc)
<1>1. /\ rc.pc = "fill" /\ slots' = Ref(L) /\ lru' = (IF half THEN Touch(order, Lookup(first)) ELSE order)
      /\ reader' = [reader EXCEPT ![r] = x]
      /\ UNCHANGED <<data, queue, worker, stream, engine, faulted>>
  BY DEF AcquireReady, WithTile
<1>2. /\ ReadersV(reader) /\ LinksV(slots, data, reader, stream, faulted) /\ stream \in [Readers -> Seq(SUBSET Lease)]
      /\ ReaderOK(rc) /\ CacheInv
  BY DEF PleInv, ReadersV
<1>3. /\ rc.rows \in Seq(RowSet) /\ Capacity(r) \in Nat /\ Capacity(r) <= Tile /\ Capacity(r) <= Len(rc.rows)
      /\ \A n \in Nat : n < Capacity(r) => n < Tile /\ n < Len(rc.rows)
      /\ k \in 0..Capacity(r) /\ \A i \in 1..k : RowReady(rc.rows[i])
  BY <1>1, PrefixFacts
<1> HIDE DEF k
<1>4. /\ k \in Nat /\ k \in 0..Tile /\ k <= Len(rc.rows) /\ k <= Tile
      /\ ~whole => k < Tile /\ k < Len(rc.rows)
  <2>1. k <= Tile /\ k <= Len(rc.rows)
    BY <1>3, TileKnown
  <2>2. k # Capacity(r) => k < Capacity(r)
    BY <1>3
  <2> QED BY <1>3, <2>1, <2>2, TileKnown
<1>5. \A l \in L : l \in Lease /\ l.place[1] <= k /\ Intact(slots, data, l) /\ slots[l.slot].st = "ready"
  <2>1. \A y \in Places(r, k) : /\ LeaseAt(r, y) \in Lease /\ LeaseAt(r, y).place[1] <= k
                                /\ Intact(slots, data, LeaseAt(r, y)) /\ slots[LeaseAt(r, y).slot].st = "ready"
    BY <1>3, <1>4, PlaceFacts
  <2>2. \A l \in L : \E y \in Places(r, k) : l = LeaseAt(r, y)
    BY DEF ReadyLeases
  <2> HIDE DEF L
  <2> QED BY <2>1, <2>2
<1>6. IsFiniteSet(L)
  BY <1>4, LeasesFinite
<1>7. lru' \in Orders
  <2>1. lru \in Orders
    BY <1>2 DEF CacheInv, CacheTypes
  <2>2. order \in Orders
    BY <1>3, <1>4, <2>1, PrefixTouched
  <2>3. half => Lookup(first) \in Slots
    <3>1. SUFFICES ASSUME half PROVE Lookup(first) \in Slots
      OBVIOUS
    <3>2. k + 1 \in 1..Len(rc.rows)
      BY <1>3, <1>4, <3>1
    <3>3. rc.rows[k + 1] \in RowSet
      BY <1>3, <3>2
    <3>4. first \in Pages /\ ReadySlot(first) # {}
      BY <3>1, <3>3, RowFacts
    <3> HIDE DEF first
    <3> QED BY <3>4, LookupFacts
  <2> HIDE DEF order, first, half
  <2> QED BY <1>1, <2>2, <2>3, TouchKeeps
<1>8. ReaderOK(x) /\ Kept(x) = L /\ x.want = NoSlot /\ x.failed = rc.failed /\ x.pc = pc /\ pc # "idle"
  <2>1. pc \in {"enqueue", "page"} /\ (pc = "page" => k < Tile /\ k < Len(rc.rows))
    BY <1>4
  <2>2. L \in SUBSET Lease /\ \A l \in L : l.place[1] <= k
    BY <1>5
  <2>3. ReaderOK(rc) /\ rc.pc = "fill" /\ k \in 0..Tile
    BY <1>1, <1>2, <1>4
  <2>4. Fills(rc, k, L, pc) /\ pc # "idle"
    BY <2>1, <2>2, <2>3 DEF Fills
  <2> HIDE DEF pc, L, rc
  <2> QED BY <2>4, FilledReader
<1> HIDE DEF L, x, pc
<1>9. Replaced(reader', reader, r, x)
  <2>1. Replaced([reader EXCEPT ![r] = x], reader, r, x)
    BY <1>2, <1>8, OneReader
  <2> QED BY <1>1, <2>1, Zenon
<1>10. Kept(rc) = {} /\ rc.want = NoSlot
  BY <1>1, <1>2 DEF ReaderOK, Wanting, Kept
<1>11. \A s \in Slots : /\ slots'[s].refs = slots[s].refs + LeasesOn(s, L)
                        /\ slots'[s].st = slots[s].st /\ slots'[s].page = slots[s].page /\ slots'[s] \in SlotRec
  BY <1>1, <1>6, RefFields
<1>12. \A s \in Slots : slots[s].st # "ready" => slots'[s].refs = slots[s].refs
  <2>1. ASSUME NEW s \in Slots, slots[s].st # "ready" PROVE slots'[s].refs = slots[s].refs
    <3>1. LeasesOn(s, L) = 0
      BY <1>5, <2>1, NoneOn
    <3>2. slots[s].refs \in Nat
      BY <1>2, RefsParts DEF LinksV
    <3> QED BY <1>11, <3>1, <3>2
  <2> QED BY <2>1
<1>13. CacheInv'
  <2>1. slots' \in [Slots -> SlotRec]
    <3>1. slots' = [s \in Slots |-> slots'[s]]
      BY <1>1 DEF Ref
    <3> QED BY <1>11, <3>1
  <2>2. \A s \in Slots : slots[s].st \in {"empty", "error"} => slots'[s].refs = slots[s].refs
    BY <1>12
  <2>3. Quiet(slots', slots)
    BY <1>11, <2>1, <2>2 DEF Quiet
  <2> QED BY <1>1, <1>2, <1>7, <2>3, QuietCache
<1>14. Stays(slots, data, slots', data)
  BY <1>11 DEF Stays
<1>15. WantsV(slots', reader) /\ LeasesV(slots', data, reader, stream)
  BY <1>2, <1>14, LinksFrame
<1>16. WantsV(slots', reader')
  BY <1>8, <1>9, <1>15 DEF WantsV, Replaced
<1>17. \A l \in L : Intact(slots', data, l)
  <2>1. \A l \in L : l.slot \in Slots
    BY <1>5 DEF Lease
  <2> QED BY <1>5, <1>11, <2>1 DEF Intact
<1>18. LeasesV(slots', data, reader', stream)
  <2>1. \A q \in Readers : \A l \in Kept(reader'[q]) : Intact(slots', data, l)
    BY <1>8, <1>9, <1>15, <1>17 DEF LeasesV, Replaced
  <2> QED BY <1>15, <2>1 DEF LeasesV
<1>19. RefsV(slots', reader', stream)
  <2>1. RefsV(slots, reader, stream)
    BY <1>2 DEF LinksV
  <2>2. Grown(reader, reader', r, L) /\ \A q \in Readers : reader'[q].want = reader[q].want
    BY <1>8, <1>9, <1>10 DEF Replaced, Grown
  <2>3. Adds(slots, slots', L)
    BY <1>11 DEF Adds
  <2> QED BY <1>6, <2>1, <2>2, <2>3, RefsAcquired
<1>20. FaultsV(slots', reader', faulted)
  <2>1. FaultsV(slots, reader, faulted)
    BY <1>2 DEF LinksV
  <2>2. \A q \in Readers : reader'[q].failed = reader[q].failed /\ (reader'[q].pc # "idle" => reader[q].pc # "idle")
    BY <1>1, <1>8, <1>9 DEF Replaced
  <2>3. \A s \in Slots : slots'[s].st = "error" => slots[s].st = "error" /\ slots'[s].refs = slots[s].refs
    BY <1>11, <1>12
  <2> QED BY <2>1, <2>2, <2>3 DEF FaultsV
<1>21. EngineInv'
  BY <1>1, GatherOpen, OpenStays
<1> QED BY <1>1, <1>2, <1>9, <1>13, <1>16, <1>18, <1>19, <1>20, <1>21 DEF PleInv, LinksV, Replaced

-----------------------------------------------------------------------------
(* The invariant holds. *)

\* Readers that hold nothing and empty streams refer to no slot.
LEMMA NothingHeld ==
  ASSUME NEW rd, NEW st, \A r \in Readers : Kept(rd[r]) = {} /\ rd[r].want = NoSlot /\ DOMAIN st[r] = {},
         NEW s \in Slots
  PROVE  FillSet(rd, s) = {} /\ FlightSet(st, s) = {} /\ AwaitSet(rd, s) = {}
<1>1. \A x : x \notin FillSet(rd, s)
  BY FillMember
<1>2. \A x : x \notin FlightSet(st, s)
  BY FlightMember
<1>3. AwaitSet(rd, s) = {}
  BY Layout DEF AwaitSet
<1> QED BY <1>1, <1>2, <1>3

LEMMA NoReferences ==
  ASSUME NEW sl, NEW rd, NEW st, \A s \in Slots : sl[s].refs = 0,
         \A r \in Readers : Kept(rd[r]) = {} /\ rd[r].want = NoSlot /\ DOMAIN st[r] = {}
  PROVE  RefsV(sl, rd, st)
<1>1. ASSUME NEW s \in Slots PROVE FillSet(rd, s) = {} /\ FlightSet(st, s) = {} /\ AwaitSet(rd, s) = {}
  BY NothingHeld
<1>2. IsFiniteSet({}) /\ Cardinality({}) = 0
  BY FS_EmptySet
<1>3. 0 = 0 + 0 + 0
  OBVIOUS
<1> QED BY <1>1, <1>2, <1>3 DEF RefsV

LEMMA ClosesInv == ASSUME PleInv, EngineCloses PROVE PleInv'
<1>1. /\ UNCHANGED <<slots, data, lru, queue, worker, reader, stream, faulted>> /\ engine' = "drain"
      /\ \A r \in Readers : reader[r].pc = "idle"
  BY DEF EngineCloses
<1>2. CacheInv'
  <2>1. worker \in [Workers -> WorkerRec] /\ CacheInv
    BY DEF PleInv, CacheInv, CacheTypes
  <2> QED BY <1>1, <2>1, RestCache
<1>3. EngineInv'
  BY <1>1 DEF EngineInv
<1> QED BY <1>1, <1>2, <1>3 DEF PleInv

LEMMA StopInv == ASSUME PleInv, Stop PROVE PleInv'
<1>1. /\ engine = "drain" /\ \A r \in Readers : stream[r] = <<>>
      /\ UNCHANGED <<slots, data, lru, queue, reader, stream, faulted>> /\ engine' = "stop"
      /\ worker' = [w \in Workers |-> [worker[w] EXCEPT !.pc = IF worker[w].pc = "asleep" THEN "run" ELSE worker[w].pc]]
  BY DEF Stop
<1>2. worker \in [Workers -> WorkerRec] /\ CacheInv
  BY DEF PleInv, CacheInv, CacheTypes
<1>3. ASSUME NEW w \in Workers
      PROVE  /\ worker'[w] \in WorkerRec /\ worker'[w].slot = worker[w].slot
             /\ worker'[w].pc = "read" <=> worker[w].pc = "read"
  <2> DEFINE x == worker[w]
             pc == IF x.pc = "asleep" THEN "run" ELSE x.pc
  <2>1. x \in WorkerRec
    BY <1>2
  <2>2. worker'[w] = [x EXCEPT !.pc = pc]
    BY <1>1
  <2>3. x.pc \in {"run", "asleep", "read", "gone"}
    BY <2>1 DEF WorkerRec
  <2>4. pc \in {"run", "asleep", "read", "gone"} /\ (pc = "read" <=> x.pc = "read")
    BY <2>3
  <2> HIDE DEF x, pc
  <2>5. [x EXCEPT !.pc = pc] \in WorkerRec /\ [x EXCEPT !.pc = pc].slot = x.slot /\ [x EXCEPT !.pc = pc].pc = pc
    BY <2>1, <2>4 DEF WorkerRec
  <2> QED BY <2>2, <2>4, <2>5 DEF x
<1>4. worker' \in [Workers -> WorkerRec]
  <2>1. worker' = [w \in Workers |-> worker'[w]]
    BY <1>1
  <2> QED BY <1>3, <2>1
<1>5. CacheInv'
  BY <1>1, <1>2, <1>3, <1>4, RestCache
<1>6. EngineInv'
  <2>1. \A r \in Readers : reader[r].pc = "idle"
    BY <1>1 DEF PleInv, EngineInv
  <2> QED BY <1>1, <2>1 DEF EngineInv
<1> QED BY <1>1, <1>5, <1>6 DEF PleInv

LEMMA FreedInv == ASSUME PleInv, Freed PROVE PleInv'
<1>1. /\ UNCHANGED <<slots, data, lru, queue, worker, reader, stream, faulted>> /\ engine' = "freed" /\ engine = "stop"
      /\ \A w \in Workers : worker[w].pc = "gone"
  BY DEF Freed
<1>2. CacheInv'
  <2>1. worker \in [Workers -> WorkerRec] /\ CacheInv
    BY DEF PleInv, CacheInv, CacheTypes
  <2> QED BY <1>1, <2>1, RestCache
<1>3. EngineInv'
  BY <1>1 DEF PleInv, EngineInv
<1> QED BY <1>1, <1>2, <1>3 DEF PleInv

LEMMA StutterInv == ASSUME PleInv, UNCHANGED vars PROVE PleInv'
<1>1. UNCHANGED <<slots, data, lru, queue, worker, reader, stream, engine, faulted>>
  BY DEF vars
<1>2. CacheInv'
  <2>1. worker \in [Workers -> WorkerRec] /\ CacheInv
    BY DEF PleInv, CacheInv, CacheTypes
  <2> QED BY <1>1, <2>1, RestCache
<1>3. EngineInv'
  BY <1>1 DEF PleInv, EngineInv
<1> QED BY <1>1, <1>2, <1>3 DEF PleInv

LEMMA InitInv == ASSUME Init PROVE PleInv
<1>1. /\ slots = [s \in Slots |-> [page |-> NoPage, st |-> "empty", refs |-> 0, awaited |-> FALSE]]
      /\ data = [s \in Slots |-> Torn] /\ lru = [s \in Slots |-> s] /\ queue = <<>>
      /\ worker = [w \in Workers |-> [pc |-> "run", slot |-> NoSlot]] /\ reader = [r \in Readers |-> Idle]
      /\ stream = [r \in Readers |-> <<>>] /\ engine = "open"
  BY DEF Init
<1>2. CacheTypes
  <2>1. lru \in Orders
    BY <1>1 DEF Orders
  <2>2. slots \in [Slots -> SlotRec]
    BY <1>1 DEF SlotRec
  <2>3. data \in [Slots -> Pages \cup {Torn}] /\ worker \in [Workers -> WorkerRec] /\ queue \in Seq(Slots)
    BY <1>1 DEF WorkerRec
  <2> QED BY <2>1, <2>2, <2>3 DEF CacheTypes
<1>3. \A s \in Slots : slots[s].st = "empty" /\ slots[s].refs = 0
  BY <1>1
<1>4. Placed
  BY <1>3 DEF Placed
<1>5. OneEntry
  BY <1>3 DEF OneEntry, Entry
<1>6. Loads
  <2>1. DOMAIN queue = {}
    BY <1>1
  <2>2. \A w \in Workers : worker[w].pc # "read"
    BY <1>1
  <2> QED BY <1>3, <2>1, <2>2 DEF Loads
<1>7. \A r \in Readers : reader[r] = Idle /\ stream[r] = <<>>
  BY <1>1
<1>8. ReadersV(reader)
  <2>1. Idle \in ReaderRec /\ ReaderOK(Idle)
    BY IdleReader DEF ReaderOK
  <2> QED BY <1>1, <2>1 DEF ReadersV
<1>9. \A r \in Readers : Kept(reader[r]) = {} /\ reader[r].want = NoSlot /\ ~reader[r].failed /\ DOMAIN stream[r] = {}
  BY <1>7, IdleReader
<1>10. WantsV(slots, reader) /\ LeasesV(slots, data, reader, stream)
  BY <1>9 DEF WantsV, LeasesV
<1>11. RefsV(slots, reader, stream)
  BY <1>3, <1>9, NoReferences
<1>12. FaultsV(slots, reader, faulted)
  <2>1. \A s \in Slots : slots[s].st # "error"
    BY <1>3
  <2> QED BY <1>9, <2>1 DEF FaultsV
<1>13. EngineInv
  BY <1>1 DEF EngineInv
<1>14. stream \in [Readers -> Seq(SUBSET Lease)]
  BY <1>1
<1> QED BY <1>2, <1>4, <1>5, <1>6, <1>8, <1>10, <1>11, <1>12, <1>13, <1>14 DEF PleInv, CacheInv, LinksV

LEMMA ReaderInv == ASSUME PleInv, NEW r \in Readers, Reader(r) PROVE PleInv'
BY AcquireInv, RequestInv, NoSlotInv, SleepInv, PageReadyInv, PageFailedInv, DropInv, EnqueueInv, AbortInv DEF Reader

LEMMA CallsInv == ASSUME PleInv, NEW r \in Readers, Calls(r) PROVE PleInv'
BY GatherFailsInv, PrefetchInv, GatherInv DEF Calls

LEMMA NextInv == ASSUME PleInv, [Next]_vars PROVE PleInv'
<1>1. ASSUME NEW w \in Workers, Worker(w) PROVE PleInv'
  BY <1>1, WorkerInv
<1>2. ASSUME NEW r \in Readers, Reader(r) PROVE PleInv'
  BY <1>2, ReaderInv
<1>3. ASSUME NEW r \in Readers, Calls(r) PROVE PleInv'
  BY <1>3, CallsInv
<1>4. ASSUME NEW r \in Readers, StreamReleases(r) PROVE PleInv'
  BY <1>4, StreamReleasesInv
<1>5. CASE EngineCloses
  BY <1>5, ClosesInv
<1>6. CASE Close
  BY <1>6, StopInv, FreedInv DEF Close
<1>7. CASE UNCHANGED vars
  BY <1>7, StutterInv
<1> QED BY <1>1, <1>2, <1>3, <1>4, <1>5, <1>6, <1>7 DEF Next

\* Between the critical sections of the store's mutex the cache is consistent:
\* pages lie in ways of their sets, one copy each; every slot that loads is
\* queued or read once; every reference is a lease or a waiting gather; every
\* lease is on the bytes of its page; and a failure that is still referred to
\* has been met by every gather under way.
THEOREM CacheInvariant == Spec => []PleInv
<1>1. Init => PleInv
  BY InitInv
<1>2. PleInv /\ [Next]_vars => PleInv'
  BY NextInv
<1> QED BY <1>1, <1>2, PTL DEF Spec

-----------------------------------------------------------------------------
(* What follows from it. *)

\* LeasesHonoured: while a gather or its kernel holds a lease, no eviction,
\* retry or late read touches the bytes under it, and the reference counts are
\* exactly the leases and the waiting gathers, so that every path out of a
\* gather returns what it took.
THEOREM LeasesHonouredHolds == Spec => []LeasesHonoured
<1>1. ASSUME PleInv PROVE LeasesIntact
  <2>1. LeasesV(slots, data, reader, stream)
    BY <1>1 DEF PleInv, LinksV
  <2>2. ASSUME NEW r \in Readers, NEW h \in Holdings(r), NEW l \in h PROVE Intact(slots, data, l)
    <3>1. h \in {reader[r].tile, reader[r].got} \/ h \in ToSet(stream[r])
      BY DEF Holdings
    <3>2. CASE h \in {reader[r].tile, reader[r].got}
      BY <2>1, <2>2, <3>2 DEF LeasesV, Kept
    <3>3. CASE h \in ToSet(stream[r])
      <4>1. PICK i \in DOMAIN stream[r] : h = stream[r][i]
        BY <3>3 DEF ToSet
      <4> QED BY <2>1, <2>2, <4>1 DEF LeasesV
    <3> QED BY <3>1, <3>2, <3>3
  <2> QED BY <2>2 DEF LeasesIntact, Intact
<1>2. ASSUME PleInv PROVE RefsExact
  <2>1. RefsV(slots, reader, stream)
    BY <1>2 DEF PleInv, LinksV
  <2> QED BY <2>1, SetsAre DEF RefsV, RefsExact
<1>3. PleInv => LeasesHonoured
  BY <1>1, <1>2 DEF LeasesHonoured
<1> QED BY <1>3, CacheInvariant, PTL

\* A sequence without repetitions is no longer than its range.
LEMMA QueueFits == ASSUME CacheInv PROVE Len(queue) <= Cardinality(Slots)
<1> DEFINE n == Len(queue)
<1>1. queue \in Seq(Slots) /\ \A i, j \in DOMAIN queue : queue[i] = queue[j] => i = j
  BY DEF CacheInv, CacheTypes, Loads
<1>2. n \in Nat /\ queue \in [1..n -> Slots]
  BY <1>1
<1>3. \A i, j \in 1..n : queue[i] = queue[j] => i = j
  BY <1>1
<1> HIDE DEF n
<1>4. queue \in Injection(1..n, Slots)
  BY <1>2, <1>3 DEF Injection, IsInjective
<1>5. Cardinality(1..n) <= Cardinality(Slots)
  BY <1>4, Layout, FS_Injection
<1>6. Cardinality(1..n) = n
  <2>1. 1 \in Int /\ n \in Int
    BY <1>2
  <2>2. Cardinality(1..n) = IF 1 > n THEN 0 ELSE n - 1 + 1
    BY <2>1, FS_Interval
  <2> QED BY <1>2, <2>2
<1> QED BY <1>5, <1>6 DEF n

LEMMA TypesFollow == ASSUME PleInv PROVE TypeOK
<1>1. CacheTypes /\ CacheInv /\ ReadersV(reader) /\ stream \in [Readers -> Seq(SUBSET Lease)] /\ EngineInv
  BY DEF PleInv, CacheInv
<1>2. \A s \in Slots : /\ slots[s].page \in Pages \cup {NoPage} /\ slots[s].refs \in Nat
                       /\ slots[s].st \in {"empty", "loading", "ready", "error"}
                       /\ slots[s].awaited \in BOOLEAN
  BY <1>1, SlotFields DEF CacheTypes
<1>3. data \in [Slots -> Pages \cup {Torn}] /\ queue \in Seq(Slots) /\ Len(queue) <= Cardinality(Slots)
  BY <1>1, QueueFits DEF CacheTypes
<1>4. Len(lru) = Cardinality(Slots) /\ ToSet(lru) = Slots
  BY <1>1, OrderFacts DEF CacheTypes
<1>5. worker \in [Workers -> [pc : {"run", "asleep", "read", "gone"}, slot : Slots \cup {NoSlot}]]
  BY <1>1 DEF CacheTypes, WorkerRec
<1>6. ASSUME NEW r \in Readers
      PROVE  /\ reader[r].pc \in {"idle", "fill", "page", "blocked", "ready", "await", "woken", "drop",
                                  "enqueue", "abort"}
             /\ reader[r].n \in 0..Tile /\ reader[r].tile \subseteq Lease
             /\ reader[r].got \in {{}} \cup {{l} : l \in Lease}
             /\ stream[r] \in Seq(SUBSET Lease)
  <2>1. ReaderOK(reader[r]) /\ reader[r] \in ReaderRec /\ stream[r] \in Seq(SUBSET Lease)
    BY <1>1 DEF ReadersV
  <2>2. reader[r].pc \in PCs /\ reader[r].n \in 0..Tile /\ reader[r].tile \subseteq Lease
    BY <2>1, ReaderFields
  <2>3. reader[r].got # {} => \E l \in Lease : reader[r].got = {l}
    BY <2>1 DEF ReaderOK
  <2>4. reader[r].got \in {{}} \cup {{l} : l \in Lease}
    BY <2>3
  <2> QED BY <2>1, <2>2, <2>4 DEF PCs
<1>7. engine \in {"open", "drain", "stop", "freed"}
  BY <1>1 DEF EngineInv
<1> QED BY <1>2, <1>3, <1>4, <1>5, <1>6, <1>7 DEF TypeOK

\* A set with at most one element, and with one exactly when A.
LEMMA OneOrNone ==
  ASSUME NEW S, NEW A \in BOOLEAN, A <=> S # {}, \A x, y \in S : x = y
  PROVE  Cardinality(S) = IF A THEN 1 ELSE 0
<1>1. CASE S = {}
  BY <1>1, FS_EmptySet
<1>2. CASE S # {}
  <2>1. PICK x : x \in S
    BY <1>2
  <2>2. S = {x}
    BY <2>1
  <2> QED BY <1>2, <2>2, FS_Singleton
<1> QED BY <1>1, <1>2

LEMMA ReadsFollow == ASSUME CacheInv PROVE ReadsOwnSlot
<1>1. ASSUME NEW s \in Slots
      PROVE  Cardinality({i \in DOMAIN queue : queue[i] = s})
               + Cardinality({w \in Workers : worker[w].pc = "read" /\ worker[w].slot = s})
             = IF slots[s].st = "loading" THEN 1 ELSE 0
  <2> DEFINE Q == {i \in DOMAIN queue : queue[i] = s}
             W == {w \in Workers : worker[w].pc = "read" /\ worker[w].slot = s}
             A == Q # {}
             B == W # {}
  <2>0. Loads
    BY DEF CacheInv
  <2>1. \A i, j \in Q : i = j
    BY <2>0 DEF Loads
  <2>2. \A v, w \in W : v = w
    BY <2>0 DEF Loads
  <2>3. Q # {} => W = {}
    BY <2>0 DEF Loads
  <2>4. slots[s].st = "loading" <=> Q # {} \/ W # {}
    BY <2>0 DEF Loads
  <2>5. Cardinality(Q) = IF A THEN 1 ELSE 0
    <3> HIDE DEF Q
    <3> QED BY <2>1, OneOrNone
  <2>6. Cardinality(W) = IF B THEN 1 ELSE 0
    <3> HIDE DEF W
    <3> QED BY <2>2, OneOrNone
  <2>7. Cardinality(Q) + Cardinality(W) = IF slots[s].st = "loading" THEN 1 ELSE 0
    <3> HIDE DEF Q, W
    <3> QED BY <2>3, <2>4, <2>5, <2>6
  <2> QED BY <2>7
<1> QED BY <1>1 DEF ReadsOwnSlot

\* LoadsSound: the queue of loads never overflows and no load is lost or done
\* twice, a page has one copy in the cache, a gather fails only on a read that
\* failed while it ran or that another still referred to, and the store is
\* freed with no callback, lease or worker left.
THEOREM LoadsSoundHolds == Spec => []LoadsSound
<1>1. ASSUME PleInv PROVE OneCopy
  BY <1>1 DEF PleInv, CacheInv, OneEntry, OneCopy
<1>2. ASSUME PleInv PROVE FailureIsFresh
  BY <1>2 DEF PleInv, LinksV, FaultsV, FailureIsFresh
<1>3. ASSUME PleInv PROVE FreedUnused
  <2>1. SUFFICES ASSUME engine = "freed"
                 PROVE  /\ \A r \in Readers : stream[r] = <<>>
                        /\ \A s \in Slots : slots[s].refs = 0
                        /\ \A w \in Workers : worker[w].pc = "gone"
    BY DEF FreedUnused
  <2>2. \A r \in Readers : reader[r].pc = "idle" /\ stream[r] = <<>>
    BY <1>3, <2>1 DEF PleInv, EngineInv
  <2>3. \A r \in Readers : reader[r] = Idle
    BY <1>3, <2>2 DEF PleInv, ReadersV, ReaderOK
  <2>4. \A r \in Readers : Kept(reader[r]) = {} /\ reader[r].want = NoSlot /\ DOMAIN stream[r] = {}
    BY <2>2, <2>3, IdleReader
  <2>5. RefsV(slots, reader, stream)
    BY <1>3 DEF PleInv, LinksV
  <2>6. \A s \in Slots : slots[s].refs = 0
    <3>1. ASSUME NEW s \in Slots PROVE slots[s].refs = 0
      <4>1. FillSet(reader, s) = {} /\ FlightSet(stream, s) = {} /\ AwaitSet(reader, s) = {}
        BY <2>4, NothingHeld
      <4>2. slots[s].refs = Cardinality(FillSet(reader, s)) + Cardinality(FlightSet(stream, s)) + Cardinality(AwaitSet(reader, s))
        BY <2>5 DEF RefsV
      <4> QED BY <4>1, <4>2, FS_EmptySet
    <3> QED BY <3>1
  <2> QED BY <1>3, <2>1, <2>2, <2>6 DEF PleInv, EngineInv
<1>4. PleInv => LoadsSound
  <2>1. PleInv => TypeOK /\ ReadsOwnSlot
    BY TypesFollow, ReadsFollow DEF PleInv
  <2> QED BY <1>1, <1>2, <1>3, <2>1 DEF LoadsSound
<1> QED BY <1>4, CacheInvariant, PTL
=============================================================================
