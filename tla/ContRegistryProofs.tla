------------------------- MODULE ContRegistryProofs -------------------------
(***************************************************************************)
(* The continuation registry, proved for any protocols, id lists, banks,   *)
(* leases, limits and clocks: the vector and its cached index stay sound   *)
(* through the index arithmetic of publish(), remove_idx() and prune(),    *)
(* pins keep what they promise, the time windows agree, and every          *)
(* operation is a step of ContTable.                                       *)
(*                                                                         *)
(* The operators of the registry are functions of a registry value, so the *)
(* lemmas are about values reg; the last part applies them to Reg.         *)
(***************************************************************************)
EXTENDS ContRegistry, FiniteSetTheorems, SequenceTheorems, WellFoundedInduction, TLAPS

-----------------------------------------------------------------------------
(* Naturals. *)

\* A nonempty set of naturals has a least element.
LEMMA LeastOf == ASSUME NEW T, T \subseteq Nat, T # {} PROVE \E x \in T : \A y \in T : x <= y
<1> DEFINE R == OpToRel(<, Nat)
<1>1. IsWellFoundedOn(R, Nat)
  BY NatLessThanWellFounded
<1>2. \A x, y \in Nat : x < y => <<x, y>> \in R
  BY DEF OpToRel
<1> HIDE DEF R
<1>3. PICK x \in T : \A y \in T : ~(<<y, x>> \in R)
  BY <1>1, WFMin
<1>4. \A y \in T : ~(y < x)
  BY <1>2, <1>3
<1>5. \A y \in T : x <= y
  BY <1>4
<1> QED BY <1>5

\* A nonempty set of naturals with a bound has a greatest one.
LEMMA GreatestOf ==
  ASSUME NEW n \in Nat, NEW T, T \subseteq 0..n, T # {} PROVE \E x \in T : \A y \in T : y <= x
<1> DEFINE U == {n - x : x \in T}
<1>1. U \subseteq Nat /\ U # {}
  <2>1. ASSUME NEW x \in T PROVE n - x \in Nat
    <3>1. x \in 0..n
      OBVIOUS
    <3> QED BY <3>1
  <2> QED BY <2>1
<1> HIDE DEF U
<1>2. PICK u \in U : \A v \in U : u <= v
  BY <1>1, LeastOf
<1>3. PICK x \in T : u = n - x
  BY <1>2 DEF U
<1>4. ASSUME NEW y \in T PROVE y <= x
  <2>1. n - y \in U
    BY DEF U
  <2>2. n - x <= n - y
    BY <1>2, <1>3, <2>1
  <2>3. x \in Nat /\ y \in Nat
    BY <1>3
  <2> QED BY <2>2, <2>3
<1> QED BY <1>4

\* A set with 0 in it that is closed under successor up to n has all of 0..n.
LEMMA CountUp ==
  ASSUME NEW N \in Nat, NEW T, 0 \in T, \A i \in 1..N : i - 1 \in T => i \in T
  PROVE  \A i \in 0..N : i \in T
<1> DEFINE B == {i \in 0..N : i \notin T}
<1>1. SUFFICES ASSUME B # {} PROVE FALSE
  OBVIOUS
<1>2. PICK x \in B : \A y \in B : x <= y
  <2>1. B \subseteq Nat
    OBVIOUS
  <2> HIDE DEF B
  <2> QED BY <1>1, <2>1, LeastOf
<1>3. x # 0 /\ x \in 0..N /\ x \notin T
  BY <1>2
<1>4. x \in 1..N /\ x - 1 \in 0..N /\ x - 1 < x
  BY <1>3
<1>5. x - 1 \in T
  BY <1>2, <1>4
<1> QED BY <1>3, <1>4, <1>5

-----------------------------------------------------------------------------
(* The loop of prune(). *)

\* The states the loop goes through, when they stay in a set Q.
Passes(c, reg, Q) ==
  /\ c \in [0..Len(reg.recs) -> Q] /\ c[0] = reg
  /\ \A k \in 1..Len(reg.recs) : c[k] = PruneStep(c[k - 1])

LEMMA PassesExist ==
  ASSUME NEW reg, Len(reg.recs) \in Nat, NEW Q, reg \in Q, \A r \in Q : PruneStep(r) \in Q
  PROVE  \E c : Passes(c, reg, Q)
<1> DEFINE N == Len(reg.recs)
           P(n, c) == c \in [0..n -> Q] /\ c[0] = reg /\ \A k \in 1..n : c[k] = PruneStep(c[k - 1])
           T == {n \in 0..N : \E c : P(n, c)}
<1>1. 0 \in T
  <2> DEFINE z == [k \in 0..0 |-> reg]
  <2>1. z \in [0..0 -> Q] /\ z[0] = reg /\ 1..0 = {}
    OBVIOUS
  <2>2. P(0, z)
    BY <2>1
  <2> HIDE DEF P, z
  <2> QED BY <2>2
<1>2. ASSUME NEW n \in 1..N, n - 1 \in T PROVE n \in T
  <2>1. PICK c : P(n - 1, c)
    BY <1>2
  <2> DEFINE d == [k \in 0..n |-> IF k = n THEN PruneStep(c[n - 1]) ELSE c[k]]
  <2>2. n \in Nat /\ n > 0 /\ n - 1 \in 0..(n - 1)
    OBVIOUS
  <2>3. c[n - 1] \in Q /\ PruneStep(c[n - 1]) \in Q
    BY <2>1, <2>2
  <2>4. d \in [0..n -> Q] /\ d[0] = reg
    BY <2>1, <2>2, <2>3
  <2>5. ASSUME NEW k \in 1..n PROVE d[k] = PruneStep(d[k - 1])
    <3>1. k \in 0..n /\ k - 1 \in 0..n /\ k - 1 # n
      BY <2>2
    <3>2. CASE k = n
      BY <3>1, <3>2
    <3>3. CASE k # n
      <4>1. k \in 1..(n - 1)
        BY <2>2, <3>3
      <4> QED BY <2>1, <3>1, <3>3, <4>1
    <3> QED BY <3>2, <3>3
  <2>6. P(n, d)
    BY <2>4, <2>5
  <2>7. n \in 0..N
    OBVIOUS
  <2> HIDE DEF d, P
  <2> QED BY <2>6, <2>7
<1> HIDE DEF P
<1>3. N \in T
  <2> HIDE DEF T
  <2>1. \A i \in 1..N : i - 1 \in T => i \in T
    BY <1>2
  <2>2. \A i \in 0..N : i \in T
    BY <1>1, <2>1, CountUp
  <2> QED BY <2>2
<1>4. PICK c : P(N, c)
  BY <1>3
<1> QED BY <1>4 DEF P, Passes

\* prune() returns the last of them.
LEMMA PrunePasses ==
  ASSUME NEW reg, Len(reg.recs) \in Nat, NEW Q, reg \in Q, \A r \in Q : PruneStep(r) \in Q
  PROVE  \E c : Passes(c, reg, Q) /\ prune(reg) = c[Len(reg.recs)]
<1> DEFINE N == Len(reg.recs)
           F(c) == [k \in 0..N |-> IF k = 0 THEN reg ELSE PruneStep(c[k - 1])]
           c == CHOOSE f : f = F(f)
<1>1. \E f : f = F(f)
  <2>1. PICK f : Passes(f, reg, Q)
    BY PassesExist
  <2>2. f \in [0..N -> Q] /\ \A k \in 0..N : f[k] = IF k = 0 THEN reg ELSE PruneStep(f[k - 1])
    <3>1. \A k \in 0..N : k # 0 => k \in 1..N
      OBVIOUS
    <3> QED BY <2>1, <3>1 DEF Passes
  <2>3. f = F(f)
    BY <2>2
  <2> QED BY <2>3
<1>2. c = F(c)
  BY <1>1
<1>3. prune(reg) = c[N]
  BY DEF prune
<1> HIDE DEF c
<1>4. /\ c = [k \in 0..N |-> c[k]] /\ c[0] = reg
      /\ \A k \in 1..N : c[k] = PruneStep(c[k - 1])
  <2>1. c = [k \in 0..N |-> IF k = 0 THEN reg ELSE PruneStep(c[k - 1])]
    BY <1>2
  <2>2. \A k \in 0..N : c[k] = IF k = 0 THEN reg ELSE PruneStep(c[k - 1])
    BY <2>1, Zenon
  <2>3. c = [k \in 0..N |-> c[k]]
    BY <2>1, <2>2, Zenon
  <2>4. 0 \in 0..N /\ \A k \in 1..N : k \in 0..N /\ k # 0
    OBVIOUS
  <2> HIDE DEF N
  <2> QED BY <2>2, <2>3, <2>4, Zenon
<1> HIDE DEF F
<1>5. \A k \in 0..N : c[k] \in Q
  <2> DEFINE T == {k \in 0..N : c[k] \in Q}
  <2>1. 0 \in T
    <3>1. 0 \in 0..N /\ c[0] \in Q
      <4>1. 0 \in 0..N
        OBVIOUS
      <4> QED BY <1>4, <4>1, Zenon
    <3> QED BY <3>1
  <2>2. ASSUME NEW k \in 1..N, k - 1 \in T PROVE k \in T
    <3>1. c[k] = PruneStep(c[k - 1])
      BY <1>4, Zenon
    <3>2. c[k - 1] \in Q
      BY <2>2, Zenon
    <3>3. k \in 0..N
      OBVIOUS
    <3>4. c[k] \in Q
      BY <3>1, <3>2, Zenon
    <3> QED BY <3>3, <3>4, Zenon
  <2> HIDE DEF T
  <2>3. \A k \in 0..N : k \in T
    BY <2>1, <2>2, CountUp
  <2> QED BY <2>3 DEF T
<1>6. c \in [0..N -> Q]
  BY <1>4, <1>5
<1> QED BY <1>3, <1>4, <1>6 DEF Passes

-----------------------------------------------------------------------------
(* The vector. *)

\* VectorSound, of a vector and its cached index.
SlotOK(recs, sl) ==
  /\ sl \in 0..Len(recs)
  /\ \A i \in 1..Len(recs) : (Live(recs[i]) /\ recs[i].owner = Serial) <=> sl = i
OneLive(recs) ==
  \A i, j \in 1..Len(recs) : Live(recs[i]) /\ Live(recs[j]) /\ recs[i].owner = recs[j].owner => i = j
Sorted(recs) ==
  \A i, j \in 1..Len(recs) : i < j => recs[i].record_id > recs[j].record_id
VecOK(recs, sl) == recs \in Seq(RecordType) /\ SlotOK(recs, sl) /\ OneLive(recs) /\ Sorted(recs)

Content(recs) == {recs[i] : i \in 1..Len(recs)}

Replay(x) == [x EXCEPT !.state = "replay"]

\* The vector after some records were demoted.
Aged(new, old) ==
  /\ new \in Seq(RecordType) /\ Len(new) = Len(old)
  /\ \A i \in 1..Len(old) : new[i] \in {old[i], Replay(old[i])}

LEMMA FieldTypes ==
  ASSUME NEW x \in RecordType
  PROVE  /\ x.record_id \in 1..MaxRid /\ x.record_id \in Nat /\ x.state \in {"live", "replay"} /\ x.owner \in Owners
         /\ x.ref \in 1..MaxRef /\ x.publish_time \in 0..MaxTime /\ x.publish_time \in Nat
         /\ x.hard_refs \in Nat /\ x.pin_expiry \in 0..(MaxTime + PinDeadline) /\ x.pin_expiry \in Nat
BY LimitsAssumption DEF RecordType

LEMMA ReplayFields ==
  ASSUME NEW x \in RecordType
  PROVE  /\ Replay(x) \in RecordType /\ ~Live(Replay(x))
         /\ Replay(x).record_id = x.record_id /\ Replay(x).owner = x.owner
         /\ Replay(x).protocol = x.protocol /\ Replay(x).ref = x.ref /\ Replay(x).call_ids = x.call_ids
         /\ Replay(x).publish_time = x.publish_time /\ Replay(x).hard_refs = x.hard_refs
         /\ Replay(x).pin_expiry = x.pin_expiry
BY DEF RecordType, Replay, Live

\* Demotion keeps the vector sound when the index is cleared with its record.
LEMMA AgedOK ==
  ASSUME NEW old, NEW sl, VecOK(old, sl), NEW new, Aged(new, old), NEW s,
         s = IF sl # 0 /\ ~Live(new[sl]) THEN 0 ELSE sl
  PROVE  VecOK(new, s)
<1>0. /\ old \in Seq(RecordType) /\ new \in Seq(RecordType) /\ Len(new) = Len(old)
      /\ sl \in 0..Len(old) /\ Len(old) \in Nat
  BY DEF VecOK, SlotOK, Aged
<1>1. ASSUME NEW i \in 1..Len(old)
      PROVE  /\ new[i].record_id = old[i].record_id /\ new[i].owner = old[i].owner
             /\ Live(new[i]) => new[i] = old[i]
  <2>1. old[i] \in RecordType /\ new[i] \in {old[i], Replay(old[i])}
    BY <1>0, <1>1 DEF Aged
  <2> QED BY <2>1, ReplayFields
<1>2. OneLive(new)
  BY <1>0, <1>1 DEF OneLive, VecOK
<1>3. Sorted(new)
  BY <1>0, <1>1 DEF Sorted, VecOK
<1>4. s \in 0..Len(new)
  BY <1>0
<1>5. ASSUME NEW i \in 1..Len(new) PROVE (Live(new[i]) /\ new[i].owner = Serial) <=> s = i
  <2>1. (Live(old[i]) /\ old[i].owner = Serial) <=> sl = i
    BY <1>0 DEF VecOK, SlotOK
  <2>2. i # 0 /\ i \in 1..Len(old)
    BY <1>0
  <2>3. CASE Live(new[i])
    BY <1>1, <2>1, <2>2, <2>3
  <2>4. CASE ~Live(new[i])
    BY <2>2, <2>4
  <2> QED BY <2>3, <2>4
<1> QED BY <1>0, <1>2, <1>3, <1>4, <1>5 DEF VecOK, SlotOK

\* A step of the loop, or of publish(), demotes one record.
LEMMA DemoteOK ==
  ASSUME NEW reg, VecOK(reg.recs, reg.sl), reg = [recs |-> reg.recs, sl |-> reg.sl],
         NEW i \in 1..Len(reg.recs), NEW d, d = demote_idx(reg, i)
  PROVE  /\ VecOK(d.recs, d.sl) /\ Aged(d.recs, reg.recs) /\ ~Live(d.recs[i])
         /\ d = [recs |-> d.recs, sl |-> d.sl]
         /\ \A j \in 1..Len(reg.recs) : j # i => d.recs[j] = reg.recs[j]
         /\ ~Live(reg.recs[i]) => d = reg
<1>0. reg.recs \in Seq(RecordType) /\ Len(reg.recs) \in Nat /\ reg.sl \in 0..Len(reg.recs)
  BY DEF VecOK, SlotOK
<1>1. CASE ~Live(reg.recs[i])
  <2>1. d = reg
    BY <1>1 DEF demote_idx
  <2> QED BY <1>0, <1>1, <2>1 DEF Aged
<1>2. CASE Live(reg.recs[i])
  <2>1. /\ d.recs = [reg.recs EXCEPT ![i].state = "replay"]
        /\ d.sl = IF reg.sl = i THEN None ELSE reg.sl
        /\ d = [recs |-> d.recs, sl |-> d.sl]
    BY <1>2 DEF demote_idx
  <2>2. d.recs = [reg.recs EXCEPT ![i] = Replay(reg.recs[i])]
    BY <1>0, <2>1 DEF Replay
  <2>3. reg.recs[i] \in RecordType /\ Replay(reg.recs[i]) \in RecordType
    BY <1>0, ReplayFields
  <2>4. /\ d.recs \in Seq(RecordType) /\ Len(d.recs) = Len(reg.recs) /\ d.recs[i] = Replay(reg.recs[i])
        /\ \A j \in 1..Len(reg.recs) : j # i => d.recs[j] = reg.recs[j]
    BY <1>0, <2>2, <2>3
  <2>5. Aged(d.recs, reg.recs)
    BY <2>4 DEF Aged
  <2>6. ~Live(d.recs[i])
    BY <2>3, <2>4, ReplayFields
  <2>7. d.sl = IF reg.sl # 0 /\ ~Live(d.recs[reg.sl]) THEN 0 ELSE reg.sl
    <3>1. CASE reg.sl = i
      BY <2>1, <2>6, <3>1 DEF None
    <3>2. CASE reg.sl = 0
      BY <2>1, <3>2 DEF None
    <3>3. CASE reg.sl # i /\ reg.sl # 0
      <4>1. Live(reg.recs[reg.sl]) /\ d.recs[reg.sl] = reg.recs[reg.sl]
        BY <1>0, <2>4, <3>3 DEF VecOK, SlotOK
      <4> QED BY <2>1, <3>3, <4>1
    <3> QED BY <3>1, <3>2, <3>3
  <2> DEFINE o == reg.recs
             l == reg.sl
             n == d.recs
             s == d.sl
  <2>8. VecOK(n, s)
    <3>1. VecOK(o, l) /\ Aged(n, o) /\ s = IF l # 0 /\ ~Live(n[l]) THEN 0 ELSE l
      BY <2>5, <2>7
    <3> HIDE DEF o, l, n, s
    <3> QED BY <3>1, AgedOK
  <2> QED BY <1>2, <2>1, <2>4, <2>5, <2>6, <2>8
<1> QED BY <1>1, <1>2

\* expire() demotes the records past the TTL.
LEMMA ExpireOK ==
  ASSUME NEW reg, VecOK(reg.recs, reg.sl), reg = [recs |-> reg.recs, sl |-> reg.sl], NEW t \in Nat,
         NEW e, e = expire(reg, t)
  PROVE  /\ VecOK(e.recs, e.sl) /\ Aged(e.recs, reg.recs) /\ e = [recs |-> e.recs, sl |-> e.sl]
         /\ \A i \in 1..Len(reg.recs) :
              Live(e.recs[i]) => (Ttl > 0 => t - reg.recs[i].publish_time <= Ttl)
<1>0. reg.recs \in Seq(RecordType) /\ Len(reg.recs) \in Nat /\ reg.sl \in 0..Len(reg.recs)
      /\ DOMAIN reg.recs = 1..Len(reg.recs) /\ Ttl \in Nat
  BY LimitsAssumption DEF VecOK, SlotOK
<1> DEFINE old == {i \in LiveIdx(reg.recs) : t - reg.recs[i].publish_time > Ttl}
<1>1. CASE Ttl <= 0
  <2>1. e = reg
    BY <1>1 DEF expire
  <2> QED BY <1>0, <1>1, <2>1 DEF Aged
<1>2. CASE ~(Ttl <= 0)
  <2>1. /\ e.recs = [i \in DOMAIN reg.recs |-> IF i \in old THEN [reg.recs[i] EXCEPT !.state = "replay"]
                                               ELSE reg.recs[i]]
        /\ e.sl = IF reg.sl \in old THEN None ELSE reg.sl
        /\ e = [recs |-> e.recs, sl |-> e.sl]
    BY <1>2 DEF expire
  <2>2. old \subseteq 1..Len(reg.recs) /\ \A i \in old : Live(reg.recs[i])
    BY <1>0 DEF LiveIdx
  <2>3. \A i \in 1..Len(reg.recs) : i \notin old /\ Live(reg.recs[i]) => t - reg.recs[i].publish_time <= Ttl
    <3> SUFFICES ASSUME NEW i \in 1..Len(reg.recs), i \notin old, Live(reg.recs[i])
                 PROVE  t - reg.recs[i].publish_time <= Ttl
      OBVIOUS
    <3>1. reg.recs[i].publish_time \in Nat
      BY <1>0, FieldTypes
    <3>2. i \in LiveIdx(reg.recs)
      BY <1>0 DEF LiveIdx
    <3>3. ~(t - reg.recs[i].publish_time > Ttl)
      BY <3>2
    <3> QED BY <1>0, <3>1, <3>3
  <2> HIDE DEF old
  <2>4. \A i \in 1..Len(reg.recs) : e.recs[i] = IF i \in old THEN Replay(reg.recs[i]) ELSE reg.recs[i]
    BY <1>0, <2>1 DEF Replay
  <2>5. \A i \in 1..Len(reg.recs) : reg.recs[i] \in RecordType /\ Replay(reg.recs[i]) \in RecordType
    BY <1>0, ReplayFields
  <2>6. e.recs \in Seq(RecordType) /\ Len(e.recs) = Len(reg.recs)
    <3>1. e.recs = [i \in 1..Len(reg.recs) |-> IF i \in old THEN Replay(reg.recs[i]) ELSE reg.recs[i]]
      BY <1>0, <2>1 DEF Replay
    <3> DEFINE n == Len(reg.recs)
               g(i) == IF i \in old THEN Replay(reg.recs[i]) ELSE reg.recs[i]
    <3>2. n \in Nat /\ \A i \in 1..n : g(i) \in RecordType
      BY <1>0, <2>5
    <3> HIDE DEF n, g
    <3>3. [i \in 1..n |-> g(i)] \in Seq(RecordType) /\ Len([i \in 1..n |-> g(i)]) = n
      BY <3>2
    <3> QED BY <3>1, <3>3 DEF n, g
  <2>7. Aged(e.recs, reg.recs)
    BY <2>4, <2>6 DEF Aged
  <2>8. \A i \in old : ~Live(e.recs[i])
    BY <1>0, <2>2, <2>4, ReplayFields
  <2>9. e.sl = IF reg.sl # 0 /\ ~Live(e.recs[reg.sl]) THEN 0 ELSE reg.sl
    <3>1. CASE reg.sl \in old
      BY <2>1, <2>2, <2>8, <3>1 DEF None
    <3>2. CASE reg.sl \notin old /\ reg.sl # 0
      <4>1. Live(reg.recs[reg.sl]) /\ e.recs[reg.sl] = reg.recs[reg.sl]
        BY <1>0, <2>4, <3>2 DEF VecOK, SlotOK
      <4> QED BY <2>1, <3>2, <4>1
    <3>3. CASE reg.sl = 0
      BY <2>1, <3>3 DEF None
    <3> QED BY <3>1, <3>2, <3>3
  <2> DEFINE o == reg.recs
             l == reg.sl
             n == e.recs
             s == e.sl
  <2>10. VecOK(n, s)
    <3>1. VecOK(o, l) /\ Aged(n, o) /\ s = IF l # 0 /\ ~Live(n[l]) THEN 0 ELSE l
      BY <2>7, <2>9
    <3> HIDE DEF o, l, n, s
    <3> QED BY <3>1, AgedOK
  <2>11. \A i \in 1..Len(reg.recs) : Live(e.recs[i]) => (Ttl > 0 => t - reg.recs[i].publish_time <= Ttl)
    BY <2>3, <2>4, <2>8
  <2> QED BY <2>1, <2>7, <2>10, <2>11
<1> QED BY <1>1, <1>2

\* Cutting one element out of a sequence.
LEMMA CutSeq ==
  ASSUME NEW S, NEW s \in Seq(S), NEW i \in 1..Len(s), NEW q,
         q = SubSeq(s, 1, i - 1) \o SubSeq(s, i + 1, Len(s))
  PROVE  /\ q \in Seq(S) /\ Len(q) = Len(s) - 1
         /\ \A k \in 1..(Len(s) - 1) : q[k] = IF k < i THEN s[k] ELSE s[k + 1]
<1> DEFINE a == SubSeq(s, 1, i - 1)
           b == SubSeq(s, i + 1, Len(s))
           n == Len(s)
<1>0. n \in Nat /\ i \in Int /\ i >= 1 /\ i <= n /\ \A k \in 1..n : s[k] \in S
  OBVIOUS
<1>1. a \in Seq(S) /\ Len(a) = i - 1 /\ \A k \in 1..(i - 1) : a[k] = s[k]
  <2> DEFINE hi == i - 1
  <2>1. hi \in Int /\ \A k \in 1..hi : s[k] \in S
    BY <1>0
  <2>2. hi - 1 + 1 = hi /\ \A k \in 1..hi : 1 + k - 1 = k
    BY <1>0
  <2>3. Len(a) = (IF 1 <= hi THEN hi - 1 + 1 ELSE 0)
        /\ a \in Seq(S) /\ \A k \in 1..(hi - 1 + 1) : a[k] = s[1 + k - 1]
    <3> HIDE DEF hi
    <3> SUFFICES /\ Len(SubSeq(s, 1, hi)) = (IF 1 <= hi THEN hi - 1 + 1 ELSE 0)
                 /\ SubSeq(s, 1, hi) \in Seq(S)
                 /\ \A k \in 1..(hi - 1 + 1) : SubSeq(s, 1, hi)[k] = s[1 + k - 1]
      BY DEF hi
    <3> QED BY <2>1, SubSeqProperties
  <2> QED BY <1>0, <2>2, <2>3
<1>2. b \in Seq(S) /\ Len(b) = n - i /\ \A k \in 1..(n - i) : b[k] = s[i + k]
  <2> DEFINE lo == i + 1
  <2>1. lo \in Int /\ \A k \in lo..n : s[k] \in S
    BY <1>0
  <2>2. n - lo + 1 = n - i /\ \A k \in 1..(n - i) : lo + k - 1 = i + k
    BY <1>0
  <2>3. Len(b) = (IF lo <= n THEN n - lo + 1 ELSE 0)
        /\ b \in Seq(S) /\ \A k \in 1..(n - lo + 1) : b[k] = s[lo + k - 1]
    <3>1. n \in Int
      BY <1>0
    <3> HIDE DEF lo, n
    <3> SUFFICES /\ Len(SubSeq(s, lo, n)) = (IF lo <= n THEN n - lo + 1 ELSE 0)
                 /\ SubSeq(s, lo, n) \in Seq(S)
                 /\ \A k \in 1..(n - lo + 1) : SubSeq(s, lo, n)[k] = s[lo + k - 1]
      BY DEF lo, n
    <3> QED BY <2>1, <3>1, SubSeqProperties
  <2> HIDE DEF b
  <2>4. Len(b) = n - i
    <3> HIDE DEF n
    <3>1. CASE lo <= n
      <4>1. Len(b) = n - lo + 1
        BY <2>3, <3>1
      <4> QED BY <2>2, <4>1
    <3>2. CASE ~(lo <= n)
      <4>1. Len(b) = 0
        BY <2>3, <3>2
      <4>2. n - i = 0
        BY <1>0, <3>2
      <4> QED BY <4>1, <4>2
    <3> QED BY <3>1, <3>2
  <2> HIDE DEF lo, n
  <2> QED BY <2>2, <2>3, <2>4
<1> HIDE DEF a, b
<1>3. q = a \o b
  BY DEF a, b
<1>4. /\ q \in Seq(S) /\ Len(q) = Len(a) + Len(b)
      /\ \A k \in 1..(Len(a) + Len(b)) : q[k] = IF k <= Len(a) THEN a[k] ELSE b[k - Len(a)]
  <2>1. a \in Seq(S) /\ b \in Seq(S)
    BY <1>1, <1>2
  <2>2. /\ a \o b \in Seq(S) /\ Len(a \o b) = Len(a) + Len(b)
        /\ \A k \in 1..(Len(a) + Len(b)) : (a \o b)[k] = IF k <= Len(a) THEN a[k] ELSE b[k - Len(a)]
    BY ONLY <2>1, ConcatProperties
  <2> QED BY ONLY <1>3, <2>2, Zenon
<1>5. Len(q) = n - 1 /\ Len(a) + Len(b) = n - 1
  <2> HIDE DEF n
  <2> DEFINE la == Len(a)
             lb == Len(b)
             lq == Len(q)
  <2>1. n \in Nat /\ i \in Int /\ la = i - 1 /\ lb = n - i /\ lq = la + lb
    BY <1>0, <1>1, <1>2, <1>4
  <2> HIDE DEF la, lb, lq
  <2>2. lq = n - 1 /\ la + lb = n - 1
    BY ONLY <2>1
  <2> QED BY <2>2 DEF la, lb, lq
<1>6. ASSUME NEW k \in 1..(n - 1) PROVE q[k] = IF k < i THEN s[k] ELSE s[k + 1]
  <2>1. q[k] = IF k <= i - 1 THEN a[k] ELSE b[k - (i - 1)]
    BY <1>1, <1>4, <1>5
  <2>2. CASE k < i
    <3>1. k \in 1..(i - 1) /\ k <= i - 1
      BY <1>0, <2>2
    <3> QED BY <1>1, <2>1, <2>2, <3>1
  <2>3. CASE ~(k < i)
    <3>1. k - (i - 1) \in 1..(n - i) /\ ~(k <= i - 1) /\ i + (k - (i - 1)) = k + 1
      BY <1>0, <2>3
    <3> QED BY <1>2, <2>1, <2>3, <3>1
  <2> QED BY <2>2, <2>3
<1> QED BY <1>4, <1>5, <1>6

\* Removing a record that is not live keeps the vector sound: the cached
\* index moves with the record it names.
LEMMA RemoveOK ==
  ASSUME NEW recs, NEW sl, VecOK(recs, sl), NEW i \in 1..Len(recs), ~Live(recs[i]),
         NEW d, d = remove_idx([recs |-> recs, sl |-> sl], i)
  PROVE  /\ VecOK(d.recs, d.sl) /\ d = [recs |-> d.recs, sl |-> d.sl]
         /\ Len(d.recs) = Len(recs) - 1
         /\ Content(d.recs) \subseteq Content(recs)
         /\ Content(recs) \subseteq Content(d.recs) \cup {recs[i]}
<1>0. recs \in Seq(RecordType) /\ Len(recs) \in Nat /\ sl \in 0..Len(recs) /\ sl # i /\ i \in Nat
  BY DEF VecOK, SlotOK
<1> DEFINE q == SubSeq(recs, 1, i - 1) \o SubSeq(recs, i + 1, Len(recs))
           s == IF sl > i THEN sl - 1 ELSE sl
           n == Len(recs)
<1>1. d = [recs |-> q, sl |-> s]
  <2>1. demote_idx([recs |-> recs, sl |-> sl], i) = [recs |-> recs, sl |-> sl]
    BY DEF demote_idx
  <2> DEFINE g == [recs |-> recs, sl |-> sl]
             t == CASE sl = i -> None [] sl > i -> sl - 1 [] OTHER -> sl
  <2>2. d = [recs |-> q, sl |-> t]
    <3>1. g.recs = recs /\ g.sl = sl
      OBVIOUS
    <3>2. demote_idx(g, i) = g /\ d = remove_idx(g, i)
      BY <2>1
    <3> HIDE DEF g
    <3> QED BY ONLY <3>1, <3>2, Zenon DEF remove_idx, q, t
  <2>3. s = t
    BY <1>0
  <2> HIDE DEF q, s, t
  <2> QED BY <2>2, <2>3
<1>2. /\ q \in Seq(RecordType) /\ Len(q) = n - 1
      /\ \A k \in 1..(n - 1) : q[k] = IF k < i THEN recs[k] ELSE recs[k + 1]
  <2> HIDE DEF n
  <2> SUFFICES /\ q \in Seq(RecordType) /\ Len(q) = Len(recs) - 1
      /\ \A k \in 1..(Len(recs) - 1) : q[k] = IF k < i THEN recs[k] ELSE recs[k + 1]
    BY DEF n
  <2>1. q = SubSeq(recs, 1, i - 1) \o SubSeq(recs, i + 1, Len(recs))
    OBVIOUS
  <2> HIDE DEF q
  <2> QED BY <1>0, <2>1, CutSeq
<1> HIDE DEF q
<1> DEFINE at(k) == IF k < i THEN k ELSE k + 1
<1>3. n \in Nat /\ i \in 1..n
  BY <1>0
<1> HIDE DEF n
<1>4. \A k \in 1..(n - 1) : at(k) \in 1..n /\ at(k) # i /\ q[k] = recs[at(k)]
  BY <1>2, <1>3
<1>5. \A k, j \in 1..(n - 1) : (at(k) = at(j) => k = j) /\ (k < j => at(k) < at(j))
  BY <1>3
<1>6. \A j \in 1..n : j # i => \E k \in 1..(n - 1) : at(k) = j
  <2> SUFFICES ASSUME NEW j \in 1..n, j # i PROVE \E k \in 1..(n - 1) : at(k) = j
    OBVIOUS
  <2>1. CASE j < i
    <3>1. j \in 1..(n - 1) /\ at(j) = j
      BY <1>3, <2>1
    <3> QED BY <3>1
  <2>2. CASE ~(j < i)
    <3>1. (j - 1) \in 1..(n - 1) /\ at(j - 1) = j
      BY <1>3, <2>2
    <3> QED BY <3>1
  <2> QED BY <2>1, <2>2
<1>7. s \in 0..(n - 1) /\ \A k \in 1..(n - 1) : sl = at(k) <=> s = k
  <2>1. sl \in 0..n
    BY <1>0 DEF n
  <2> QED BY <1>0, <1>3, <2>1
<1> HIDE DEF at, s
<1>8. \A k \in 1..n : (Live(recs[k]) /\ recs[k].owner = Serial) <=> sl = k
  BY DEF VecOK, SlotOK, n
<1>9. SlotOK(q, s)
  BY <1>2, <1>4, <1>7, <1>8 DEF SlotOK
<1>10. OneLive(q)
  <2>1. \A k, j \in 1..n : Live(recs[k]) /\ Live(recs[j]) /\ recs[k].owner = recs[j].owner => k = j
    BY DEF VecOK, OneLive, n
  <2>2. ASSUME NEW k \in 1..(n - 1), NEW j \in 1..(n - 1), Live(q[k]), Live(q[j]), q[k].owner = q[j].owner
        PROVE  k = j
    <3>1. at(k) \in 1..n /\ at(j) \in 1..n /\ q[k] = recs[at(k)] /\ q[j] = recs[at(j)]
      BY <1>4
    <3>2. at(k) = at(j)
      BY <2>1, <2>2, <3>1
    <3> QED BY <1>5, <3>2
  <2>3. Len(q) = n - 1
    BY <1>2
  <2> QED BY <2>2, <2>3 DEF OneLive
<1>11. Sorted(q)
  <2>1. \A k, j \in 1..n : k < j => recs[k].record_id > recs[j].record_id
    BY DEF VecOK, Sorted, n
  <2>2. ASSUME NEW k \in 1..(n - 1), NEW j \in 1..(n - 1), k < j PROVE q[k].record_id > q[j].record_id
    <3>1. at(k) \in 1..n /\ at(j) \in 1..n /\ q[k] = recs[at(k)] /\ q[j] = recs[at(j)]
      BY <1>4
    <3>2. at(k) < at(j)
      BY <1>5, <2>2
    <3> QED BY <2>1, <3>1, <3>2
  <2>3. Len(q) = n - 1
    BY <1>2
  <2> QED BY <2>2, <2>3 DEF Sorted
<1>12. VecOK(q, s)
  BY <1>2, <1>9, <1>10, <1>11 DEF VecOK
<1>13. Content(q) \subseteq Content(recs)
  BY <1>2, <1>4 DEF Content, n
<1>14. Content(recs) \subseteq Content(q) \cup {recs[i]}
  <2> SUFFICES ASSUME NEW j \in 1..n, j # i PROVE recs[j] \in Content(q)
    BY DEF Content, n
  <2>1. PICK k \in 1..(n - 1) : at(k) = j
    BY <1>6
  <2>2. q[k] = recs[j] /\ k \in 1..Len(q)
    BY <1>2, <1>4, <2>1
  <2> QED BY <2>2 DEF Content
<1> QED BY <1>1, <1>2, <1>12, <1>13, <1>14 DEF n

-----------------------------------------------------------------------------
(* What prune() leaves. *)

Regs == [recs : Seq(RecordType), sl : Nat]

\* What the loop wants: the limit is kept, or nothing may go.
Settled(recs) == Len(recs) <= MaxRecords \/ \A x \in Content(recs) : Live(x) \/ x.hard_refs > 0

\* Only records that are neither live nor pinned are missing from new.
Pruned(new, old) ==
  /\ new \in Regs /\ VecOK(new.recs, new.sl) /\ Content(new.recs) \subseteq Content(old.recs)
  /\ \A x \in Content(old.recs) : x \in Content(new.recs) \/ (~Live(x) /\ x.hard_refs = 0)

LEMMA RegEta ==
  ASSUME NEW reg \in Regs
  PROVE  /\ reg = [recs |-> reg.recs, sl |-> reg.sl] /\ reg.recs \in Seq(RecordType)
         /\ reg.sl \in Nat /\ Len(reg.recs) \in Nat
BY DEF Regs

LEMMA VecReg ==
  ASSUME NEW d, d = [recs |-> d.recs, sl |-> d.sl], VecOK(d.recs, d.sl) PROVE d \in Regs
<1>1. d.recs \in Seq(RecordType) /\ d.sl \in 0..Len(d.recs) /\ Len(d.recs) \in Nat
  BY DEF VecOK, SlotOK
<1>2. d.sl \in Nat
  BY <1>1
<1> QED BY <1>1, <1>2 DEF Regs

LEMMA ContentTypes ==
  ASSUME NEW recs \in Seq(RecordType)
  PROVE  /\ \A x \in Content(recs) : x \in RecordType
         /\ \A i \in 1..Len(recs) : recs[i] \in Content(recs) /\ recs[i] \in RecordType
         /\ \A x \in Content(recs) : \E i \in 1..Len(recs) : x = recs[i]
         /\ DOMAIN recs = 1..Len(recs) /\ Len(recs) \in Nat
BY DEF Content

LEMMA PruneStepOK ==
  ASSUME NEW reg \in Regs, VecOK(reg.recs, reg.sl), NEW p, p = PruneStep(reg)
  PROVE  /\ Pruned(p, reg)
         /\ (Settled(reg.recs) /\ p = reg) \/ Len(p.recs) = Len(reg.recs) - 1
<1> DEFINE e == Evictable(reg.recs)
           recs == reg.recs
           sl == reg.sl
<1>0. /\ reg = [recs |-> recs, sl |-> sl] /\ recs \in Seq(RecordType) /\ Len(recs) \in Nat
      /\ DOMAIN recs = 1..Len(recs) /\ VecOK(recs, sl) /\ MaxRecords \in Nat
      /\ \A i \in 1..Len(recs) : recs[i].hard_refs \in Nat
  BY RegEta, FieldTypes, ContentTypes, LimitsAssumption
<1>1. p = IF Len(recs) <= MaxRecords \/ e = {} THEN reg
          ELSE remove_idx(reg, CHOOSE i \in e : \A j \in e : j <= i)
  BY DEF PruneStep
<1>2. /\ e \subseteq 1..Len(recs)
      /\ \A i \in 1..Len(recs) : i \in e <=> ~Live(recs[i]) /\ recs[i].hard_refs = 0
  BY <1>0 DEF Evictable
<1> HIDE DEF e
<1>3. CASE Len(recs) <= MaxRecords \/ e = {}
  <2>1. p = reg
    BY <1>1, <1>3
  <2>2. Pruned(p, reg)
    BY <2>1 DEF Pruned
  <2>3. Settled(recs)
    <3>1. CASE Len(recs) <= MaxRecords
      BY <3>1 DEF Settled
    <3>2. CASE e = {}
      <4>1. \A i \in 1..Len(recs) : Live(recs[i]) \/ recs[i].hard_refs > 0
        BY <1>0, <1>2, <3>2
      <4> QED BY <4>1 DEF Settled, Content
    <3> QED BY <1>3, <3>1, <3>2
  <2> QED BY <2>1, <2>2, <2>3
<1>4. CASE ~(Len(recs) <= MaxRecords \/ e = {})
  <2> DEFINE i == CHOOSE k \in e : \A j \in e : j <= k
  <2>1. i \in e
    <3>1. \A k \in 1..Len(recs) : k \in 0..Len(recs)
      OBVIOUS
    <3>2. e \subseteq 0..Len(recs) /\ e # {} /\ Len(recs) \in Nat
      BY <1>0, <1>2, <1>4, <3>1
    <3> HIDE DEF recs
    <3>3. \E k \in e : \A j \in e : j <= k
      BY <3>2, GreatestOf
    <3> QED BY <3>3
  <2>2. p = remove_idx([recs |-> recs, sl |-> sl], i)
    BY <1>0, <1>1, <1>4
  <2> HIDE DEF i
  <2>3. i \in 1..Len(recs) /\ ~Live(recs[i]) /\ recs[i].hard_refs = 0
    BY <1>2, <2>1
  <2> HIDE DEF recs, sl
  <2>4. /\ VecOK(p.recs, p.sl) /\ p = [recs |-> p.recs, sl |-> p.sl]
        /\ Len(p.recs) = Len(recs) - 1
        /\ Content(p.recs) \subseteq Content(recs)
        /\ Content(recs) \subseteq Content(p.recs) \cup {recs[i]}
    BY <1>0, <2>2, <2>3, RemoveOK
  <2>5. p \in Regs
    BY <2>4, VecReg
  <2>6. Pruned(p, reg)
    BY <2>3, <2>4, <2>5 DEF Pruned, recs
  <2> QED BY <2>4, <2>6 DEF recs
<1> QED BY <1>3, <1>4

LEMMA PrunedTransitive ==
  ASSUME NEW a, NEW b, NEW c, Pruned(b, a), Pruned(c, b) PROVE Pruned(c, a)
BY DEF Pruned

\* The loop only drops what is neither live nor pinned, keeps the vector
\* sound, and stops only when it should.
LEMMA PruneOK ==
  ASSUME NEW reg \in Regs, VecOK(reg.recs, reg.sl), NEW p, p = prune(reg)
  PROVE  Pruned(p, reg) /\ Settled(p.recs)
<1> DEFINE Q == {r \in Regs : Pruned(r, reg)}
           n == Len(reg.recs)
<1>0. n \in Nat /\ MaxRecords \in Nat
  BY RegEta, LimitsAssumption
<1>1. reg \in Q
  BY DEF Pruned
<1>2. ASSUME NEW r \in Q PROVE PruneStep(r) \in Q
  <2> DEFINE s == PruneStep(r)
  <2>1. Pruned(r, reg) /\ r \in Regs /\ VecOK(r.recs, r.sl)
    BY DEF Pruned
  <2>2. Pruned(s, r)
    BY <2>1, PruneStepOK
  <2>3. Pruned(s, reg) /\ s \in Regs
    BY <2>1, <2>2, PrunedTransitive DEF Pruned
  <2> QED BY <2>3
<1>3. PICK c : Passes(c, reg, Q) /\ prune(reg) = c[n]
  <2> HIDE DEF Q
  <2> QED BY <1>0, <1>1, <1>2, PrunePasses
<1>4. c \in [0..n -> Q] /\ c[0] = reg /\ \A k \in 1..n : c[k] = PruneStep(c[k - 1])
  BY <1>3 DEF Passes
<1>5. \A k \in 0..n : c[k] \in Regs /\ Pruned(c[k], reg) /\ VecOK(c[k].recs, c[k].sl) /\ Len(c[k].recs) \in Nat
  <2> SUFFICES ASSUME NEW k \in 0..n
               PROVE  c[k] \in Regs /\ Pruned(c[k], reg) /\ VecOK(c[k].recs, c[k].sl) /\ Len(c[k].recs) \in Nat
    OBVIOUS
  <2>1. c[k] \in Q
    BY <1>4
  <2> QED BY <2>1, RegEta DEF Pruned
<1> HIDE DEF Q
<1> DEFINE T == {k \in 0..n : Settled(c[k].recs) \/ Len(c[k].recs) <= n - k}
<1>6. 0 \in T
  <2>1. 0 \in 0..n /\ Len(reg.recs) <= n - 0
    BY <1>0
  <2> QED BY <1>4, <2>1
<1>7. ASSUME NEW k \in 1..n, k - 1 \in T PROVE k \in T
  <2> DEFINE r == c[k - 1]
             s == c[k]
  <2>1. k \in 0..n /\ k - 1 \in 0..n
    BY <1>0
  <2>2. r \in Regs /\ VecOK(r.recs, r.sl) /\ s = PruneStep(r) /\ Len(r.recs) \in Nat
    BY <1>4, <1>5, <2>1
  <2>3. Settled(r.recs) \/ Len(r.recs) <= n - (k - 1)
    BY <1>7
  <2> HIDE DEF r, s
  <2>4. (Settled(r.recs) /\ s = r) \/ Len(s.recs) = Len(r.recs) - 1
    BY <2>2, PruneStepOK
  <2>5. Settled(s.recs) \/ Len(s.recs) <= n - k
    <3>1. CASE Settled(r.recs) /\ s = r
      BY <3>1
    <3>2. CASE Len(s.recs) = Len(r.recs) - 1 /\ Len(r.recs) <= n - (k - 1)
      BY <1>0, <2>2, <3>2
    <3>3. CASE Len(s.recs) = Len(r.recs) - 1 /\ Settled(r.recs)
      <4>1. r.recs \in Seq(RecordType) /\ s = PruneStep(r)
        BY <2>2, RegEta
      <4>2. CASE Len(r.recs) <= MaxRecords
        <5>1. s = r
          BY <4>1, <4>2 DEF PruneStep
        <5> QED BY <3>3, <5>1
      <4>3. CASE \A x \in Content(r.recs) : Live(x) \/ x.hard_refs > 0
        <5>1. Pruned(s, r)
          BY <2>2, PruneStepOK
        <5>2. \A x \in Content(s.recs) : Live(x) \/ x.hard_refs > 0
          BY <4>3, <5>1 DEF Pruned
        <5> QED BY <5>2 DEF Settled
      <4> QED BY <3>3, <4>2, <4>3 DEF Settled
    <3> QED BY <2>3, <2>4, <3>1, <3>2, <3>3
  <2> QED BY <2>1, <2>5 DEF s
<1>8. n \in T
  <2> HIDE DEF T
  <2>1. \A i \in 0..n : i \in T
    BY <1>0, <1>6, <1>7, CountUp
  <2> QED BY <1>0, <2>1
<1>9. Settled(c[n].recs)
  <2>1. CASE Len(c[n].recs) <= n - n
    <3>1. Len(c[n].recs) <= MaxRecords
      <4>1. Len(c[n].recs) \in Nat /\ n - n = 0
        BY <1>0, <1>5
      <4> QED BY <1>0, <2>1, <4>1
    <3> QED BY <3>1 DEF Settled
  <2> QED BY <1>8, <2>1
<1> QED BY <1>0, <1>3, <1>5, <1>9

-----------------------------------------------------------------------------
(* What publish() does. *)

\* A new live record in front shifts the cached index by one, or takes it.
LEMMA InsertOK ==
  ASSUME NEW recs, NEW sl, VecOK(recs, sl), NEW x \in RecordType, Live(x),
         \A i \in 1..Len(recs) : recs[i].record_id < x.record_id /\ (Live(recs[i]) => recs[i].owner # x.owner),
         NEW new, new = <<x>> \o recs,
         NEW s, s = IF x.owner = Serial THEN 1 ELSE IF sl = None THEN None ELSE sl + 1
  PROVE  VecOK(new, s) /\ Content(new) = Content(recs) \cup {x}
<1> DEFINE n == Len(recs)
<1>0. recs \in Seq(RecordType) /\ n \in Nat /\ sl \in 0..n
  BY DEF VecOK, SlotOK
<1>1. /\ new \in Seq(RecordType) /\ Len(new) = n + 1
      /\ new[1] = x /\ \A i \in 1..n : new[i + 1] = recs[i]
  <2>1. <<x>> \in Seq(RecordType) /\ Len(<<x>>) = 1 /\ <<x>>[1] = x
    OBVIOUS
  <2> DEFINE a == <<x>>
  <2>2. a \in Seq(RecordType) /\ Len(a) = 1 /\ a[1] = x /\ new = a \o recs
    BY <2>1
  <2> HIDE DEF a
  <2>3. /\ a \o recs \in Seq(RecordType) /\ Len(a \o recs) = Len(a) + Len(recs)
        /\ \A k \in 1..(Len(a) + Len(recs)) : (a \o recs)[k] = IF k <= Len(a) THEN a[k] ELSE recs[k - Len(a)]
    BY ONLY <1>0, <2>2, ConcatProperties
  <2>4. Len(new) = 1 + n /\ \A k \in 1..(1 + n) : new[k] = IF k <= 1 THEN a[k] ELSE recs[k - 1]
    BY <2>2, <2>3
  <2> HIDE DEF n
  <2>5. 1 + n = n + 1 /\ 1 \in 1..(1 + n) /\ 1 <= 1
        /\ \A i \in 1..n : i + 1 \in 1..(1 + n) /\ ~(i + 1 <= 1) /\ (i + 1) - 1 = i
    BY <1>0
  <2> QED BY <2>2, <2>3, <2>4, <2>5
<1>2. \A k \in 1..(n + 1) : k = 1 \/ (k - 1 \in 1..n /\ new[k] = recs[k - 1] /\ k > 1)
  <2> SUFFICES ASSUME NEW k \in 1..(n + 1), k # 1 PROVE k - 1 \in 1..n /\ new[k] = recs[k - 1] /\ k > 1
    OBVIOUS
  <2> HIDE DEF n
  <2>1. k - 1 \in 1..n /\ (k - 1) + 1 = k /\ k > 1
    BY <1>0
  <2> QED BY <1>1, <2>1
<1>3. \A i \in 1..n : recs[i].record_id < x.record_id /\ recs[i].record_id \in Nat
                      /\ (Live(recs[i]) => recs[i].owner # x.owner)
  BY <1>0, FieldTypes
<1>4. \A i \in 1..n : (Live(recs[i]) /\ recs[i].owner = Serial) <=> sl = i
  BY DEF VecOK, SlotOK
<1>5. x.record_id \in Nat
  BY FieldTypes
<1>6. \A i, j \in 1..n : /\ Live(recs[i]) /\ Live(recs[j]) /\ recs[i].owner = recs[j].owner => i = j
                         /\ i < j => recs[i].record_id > recs[j].record_id
  BY DEF VecOK, OneLive, Sorted
<1> HIDE DEF n
<1>7. SlotOK(new, s)
  <2>1. s \in 0..Len(new)
    BY <1>0, <1>1 DEF None
  <2>2. ASSUME NEW k \in 1..Len(new) PROVE (Live(new[k]) /\ new[k].owner = Serial) <=> s = k
    <3>0. k \in 1..(n + 1)
      BY <1>1
    <3>1. CASE k = 1
      <4>1. sl + 1 # 1 \/ sl = 0
        BY <1>0
      <4> QED BY <1>0, <1>1, <3>1, <4>1 DEF None
    <3>2. CASE k # 1
      <4>1. k - 1 \in 1..n /\ new[k] = recs[k - 1] /\ k > 1
        BY <1>2, <3>0, <3>2
      <4>2. (Live(new[k]) /\ new[k].owner = Serial) <=> sl = k - 1
        BY <1>4, <4>1
      <4>3. CASE x.owner = Serial
        <5>1. s = 1
          BY <4>3
        <5> QED BY <1>3, <3>2, <4>1, <4>3, <5>1
      <4>4. CASE x.owner # Serial
        <5>1. s = k <=> sl = k - 1
          BY <1>0, <3>0, <4>1, <4>4 DEF None
        <5> QED BY <4>2, <5>1
      <4> QED BY <4>3, <4>4
    <3> QED BY <3>1, <3>2
  <2> QED BY <2>1, <2>2 DEF SlotOK
<1>8. OneLive(new)
  <2> SUFFICES ASSUME NEW k \in 1..(n + 1), NEW j \in 1..(n + 1), Live(new[k]), Live(new[j]),
                      new[k].owner = new[j].owner
               PROVE  k = j
    BY <1>1 DEF OneLive
  <2>1. CASE k = 1 /\ j = 1
    BY <2>1
  <2>2. CASE k = 1 /\ j # 1
    BY <1>1, <1>2, <1>3, <2>2
  <2>3. CASE k # 1 /\ j = 1
    BY <1>1, <1>2, <1>3, <2>3
  <2>4. CASE k # 1 /\ j # 1
    <3>1. k - 1 = j - 1
      BY <1>2, <1>6, <2>4
    <3> QED BY <1>0, <3>1
  <2> QED BY <2>1, <2>2, <2>3, <2>4
<1>9. Sorted(new)
  <2> SUFFICES ASSUME NEW k \in 1..(n + 1), NEW j \in 1..(n + 1), k < j
               PROVE  new[k].record_id > new[j].record_id
    BY <1>1 DEF Sorted
  <2>0. j # 1 /\ j - 1 \in 1..n /\ new[j] = recs[j - 1]
    <3>1. j # 1
      BY <1>0
    <3> QED BY <1>2, <3>1
  <2>1. CASE k = 1
    BY <1>1, <1>3, <1>5, <2>0, <2>1
  <2>2. CASE k # 1
    <3>1. k - 1 \in 1..n /\ new[k] = recs[k - 1]
      BY <1>2, <2>2
    <3>2. k - 1 < j - 1
      BY ONLY <1>0, k \in 1..(n + 1), j \in 1..(n + 1), k < j
    <3> QED BY <1>6, <2>0, <3>1, <3>2
  <2> QED BY <2>1, <2>2
<1>10. VecOK(new, s)
  BY <1>1, <1>7, <1>8, <1>9 DEF VecOK
<1>11. Content(new) \subseteq Content(recs) \cup {x}
  <2> SUFFICES ASSUME NEW k \in 1..(n + 1) PROVE new[k] \in Content(recs) \cup {x}
    BY <1>1 DEF Content
  <2> QED BY <1>1, <1>2 DEF Content, n
<1>12. Content(recs) \cup {x} \subseteq Content(new)
  <2>1. 1 \in 1..(n + 1) /\ \A i \in 1..n : i + 1 \in 1..(n + 1)
    BY <1>0
  <2>2. x \in Content(new)
    BY <1>1, <2>1 DEF Content
  <2>3. ASSUME NEW i \in 1..n PROVE recs[i] \in Content(new)
    <3>1. i + 1 \in 1..Len(new) /\ new[i + 1] = recs[i]
      BY <1>1, <2>1
    <3> QED BY <3>1 DEF Content
  <2> QED BY <2>2, <2>3 DEF Content, n
<1> QED BY <1>10, <1>11, <1>12

\* A record after its owner published again.
Sup(z, owner) == IF Live(z) /\ z.owner = owner THEN Replay(z) ELSE z

\* Demoting the record found leaves the owner without a live one.
LEMMA SupersededOK ==
  ASSUME NEW reg \in Regs, VecOK(reg.recs, reg.sl), NEW owner \in Owners, NEW d,
         d = IF Superseded(reg, owner) = None THEN reg ELSE demote_idx(reg, Superseded(reg, owner))
  PROVE  /\ d \in Regs /\ VecOK(d.recs, d.sl) /\ Len(d.recs) = Len(reg.recs)
         /\ \A i \in 1..Len(reg.recs) : d.recs[i] = Sup(reg.recs[i], owner)
<1> DEFINE s == Superseded(reg, owner)
           recs == reg.recs
           n == Len(recs)
<1>0. /\ reg = [recs |-> recs, sl |-> reg.sl] /\ recs \in Seq(RecordType) /\ n \in Nat /\ reg.sl \in 0..n
      /\ DOMAIN recs = 1..n
  BY RegEta, ContentTypes DEF VecOK, SlotOK
<1>1. /\ s \in 0..n
      /\ s = 0 => \A i \in 1..n : ~(Live(recs[i]) /\ recs[i].owner = owner)
      /\ s # 0 => Live(recs[s]) /\ recs[s].owner = owner
  <2>1. CASE owner = Serial
    <3>1. s = reg.sl
      BY <2>1 DEF Superseded
    <3>2. \A i \in 1..n : (Live(recs[i]) /\ recs[i].owner = Serial) <=> reg.sl = i
      BY DEF VecOK, SlotOK
    <3>3. \A i \in 1..n : i # 0
      BY <1>0
    <3>4. reg.sl # 0 => reg.sl \in 1..n
      BY <1>0
    <3> HIDE DEF s, n
    <3> QED BY <1>0, <2>1, <3>1, <3>2, <3>3, <3>4
  <2>2. CASE owner # Serial
    <3> DEFINE hits == {i \in LiveIdx(recs) : recs[i].owner = owner}
    <3>1. s = IF hits = {} THEN None ELSE CHOOSE i \in hits : \A j \in hits : i <= j
      BY <2>2 DEF Superseded
    <3>2. hits \subseteq Nat /\ \A i \in 1..n : i \in hits <=> Live(recs[i]) /\ recs[i].owner = owner
      BY <1>0 DEF LiveIdx
    <3>3. hits \subseteq 1..n
      BY <1>0 DEF LiveIdx
    <3> HIDE DEF hits, s
    <3>4. CASE hits = {}
      <4>1. s = 0 /\ 0 \in 0..n
        BY <1>0, <3>1, <3>4 DEF None
      <4> QED BY <3>2, <3>4, <4>1
    <3>5. CASE hits # {}
      <4>1. \E i \in hits : \A j \in hits : i <= j
        BY <3>2, <3>5, LeastOf
      <4>2. s \in hits
        BY <3>1, <3>5, <4>1
      <4>3. s \in 1..n
        BY <3>3, <4>2
      <4>4. s \in 0..n /\ s # 0
        BY <1>0, <4>3
      <4> QED BY <3>2, <4>2, <4>3, <4>4
    <3> QED BY <3>4, <3>5
  <2> QED BY <2>1, <2>2
<1>2. d = IF s = 0 THEN reg ELSE demote_idx(reg, s)
  BY DEF None
<1> HIDE DEF s
<1>3. CASE s = 0
  <2>1. d = reg
    BY <1>2, <1>3
  <2>2. \A i \in 1..n : Sup(recs[i], owner) = recs[i]
    BY <1>1, <1>3 DEF Sup
  <2> QED BY <2>1, <2>2
<1>4. CASE s # 0
  <2>1. s \in 1..n
    BY <1>0, <1>1, <1>4
  <2>2. d = demote_idx(reg, s) /\ Live(recs[s]) /\ recs[s].owner = owner
    BY <1>1, <1>2, <1>4
  <2>3. /\ VecOK(d.recs, d.sl) /\ Aged(d.recs, recs) /\ ~Live(d.recs[s])
        /\ d = [recs |-> d.recs, sl |-> d.sl]
        /\ \A j \in 1..n : j # s => d.recs[j] = recs[j]
    BY <1>0, <2>1, <2>2, DemoteOK
  <2>4. d \in Regs /\ Len(d.recs) = n
    BY <2>3, VecReg DEF Aged
  <2>5. ASSUME NEW i \in 1..n PROVE d.recs[i] = Sup(recs[i], owner)
    <3>1. CASE i = s
      <4>1. d.recs[s] = Replay(recs[s])
        BY <2>1, <2>2, <2>3 DEF Aged
      <4> QED BY <2>2, <3>1, <4>1 DEF Sup
    <3>2. CASE i # s
      <4>1. ~(Live(recs[i]) /\ recs[i].owner = owner)
        BY <2>1, <2>2, <3>2 DEF VecOK, OneLive
      <4> QED BY <2>3, <3>2, <4>1 DEF Sup
    <3> QED BY <3>1, <3>2
  <2> QED BY <2>3, <2>4, <2>5
<1> QED BY <1>3, <1>4

LEMMA SupFields ==
  ASSUME NEW z \in RecordType, NEW o
  PROVE  /\ Sup(z, o) \in RecordType /\ Sup(z, o).record_id = z.record_id /\ Sup(z, o).owner = z.owner
         /\ Sup(z, o).hard_refs = z.hard_refs /\ Sup(z, o).pin_expiry = z.pin_expiry
         /\ Live(Sup(z, o)) <=> Live(z) /\ z.owner # o
BY ReplayFields DEF Sup

\* Every id in C was given out before nx.
Fresh(C, nx) == \A x \in C : x.record_id < nx

\* p is reg with the record x of owner added.
Added(p, reg, x, owner) ==
  /\ p \in Regs /\ VecOK(p.recs, p.sl) /\ Settled(p.recs) /\ x \in Content(p.recs)
  /\ \A y \in Content(p.recs) : y = x \/ \E z \in Content(reg.recs) : y = Sup(z, owner)
  /\ \A z \in Content(reg.recs) : \/ Sup(z, owner) \in Content(p.recs)
                                  \/ ~Live(Sup(z, owner)) /\ z.hard_refs = 0

\* publish() adds one live record, demotes the one it supersedes and drops
\* only records that are neither live nor pinned.
LEMMA PublishOK ==
  ASSUME NEW reg \in Regs, VecOK(reg.recs, reg.sl), NEW rid, NEW proto, NEW ids, NEW owner \in Owners,
         NEW ref, NEW t, NewRecord(rid, proto, ids, owner, ref, t) \in RecordType,
         Fresh(Content(reg.recs), rid)
  PROVE  Added(publish(reg, rid, proto, ids, owner, ref, t), reg,
               NewRecord(rid, proto, ids, owner, ref, t), owner)
<1> DEFINE x == NewRecord(rid, proto, ids, owner, ref, t)
           p == publish(reg, rid, proto, ids, owner, ref, t)
<1>a. x \in RecordType /\ \A z \in Content(reg.recs) : z.record_id < rid
  BY DEF Fresh
<1>b. x = NewRecord(rid, proto, ids, owner, ref, t) /\ p = publish(reg, rid, proto, ids, owner, ref, t)
  OBVIOUS
<1> HIDE DEF x, p
<1> DEFINE d == IF Superseded(reg, owner) = None THEN reg ELSE demote_idx(reg, Superseded(reg, owner))
           new == <<x>> \o d.recs
           s == IF owner = Serial THEN 1 ELSE IF d.sl = None THEN None ELSE d.sl + 1
           g == [recs |-> new, sl |-> s]
<1>1. p = prune(g)
  BY <1>b DEF publish
<1>2. /\ d \in Regs /\ VecOK(d.recs, d.sl) /\ Len(d.recs) = Len(reg.recs)
      /\ \A i \in 1..Len(reg.recs) : d.recs[i] = Sup(reg.recs[i], owner)
  <2>1. d = IF Superseded(reg, owner) = None THEN reg ELSE demote_idx(reg, Superseded(reg, owner))
    OBVIOUS
  <2> HIDE DEF d
  <2> QED BY <2>1, SupersededOK
<1> HIDE DEF d
<1>3. x.record_id = rid /\ x.owner = owner /\ Live(x) /\ x.hard_refs = 0
  BY <1>b DEF NewRecord, Live
<1>4. reg.recs \in Seq(RecordType)
  BY RegEta
<1>5. /\ \A y \in Content(d.recs) : \E z \in Content(reg.recs) : y = Sup(z, owner)
      /\ \A z \in Content(reg.recs) : Sup(z, owner) \in Content(d.recs)
  BY <1>2 DEF Content
<1>6. \A y \in Content(d.recs) : y.record_id < x.record_id /\ (Live(y) => y.owner # x.owner)
  <2> SUFFICES ASSUME NEW z \in Content(reg.recs), NEW y, y = Sup(z, owner)
               PROVE  y.record_id < x.record_id /\ (Live(y) => y.owner # x.owner)
    BY <1>5
  <2>1. z \in RecordType
    BY <1>4, ContentTypes
  <2> QED BY <1>a, <1>3, <2>1, SupFields
<1>7. VecOK(new, s) /\ Content(new) = Content(d.recs) \cup {x}
  <2> DEFINE recs == d.recs
             sl == d.sl
  <2>1. \A i \in 1..Len(recs) : recs[i].record_id < x.record_id /\ (Live(recs[i]) => recs[i].owner # x.owner)
    BY <1>6 DEF Content
  <2>2. VecOK(recs, sl) /\ new = <<x>> \o recs
        /\ s = IF x.owner = Serial THEN 1 ELSE IF sl = None THEN None ELSE sl + 1
    BY <1>2, <1>3
  <2> HIDE DEF recs, sl, new, s
  <2>3. VecOK(new, s) /\ Content(new) = Content(recs) \cup {x}
    <3>1. Live(x) /\ x \in RecordType
      BY <1>a, <1>3
    <3> QED BY ONLY <2>1, <2>2, <3>1, InsertOK
  <2> QED BY <2>3 DEF recs
<1>8. g.recs = new /\ g.sl = s /\ g = [recs |-> g.recs, sl |-> g.sl]
  OBVIOUS
<1> HIDE DEF new, s, g
<1>9. g \in Regs /\ VecOK(g.recs, g.sl)
  BY <1>7, <1>8, VecReg
<1>10. Pruned(p, g) /\ Settled(p.recs)
  BY <1>1, <1>9, PruneOK
<1>11. p \in Regs /\ VecOK(p.recs, p.sl)
  BY <1>10 DEF Pruned
<1>12. x \in Content(p.recs)
  BY <1>3, <1>7, <1>8, <1>10 DEF Pruned
<1>13. \A y \in Content(p.recs) : y = x \/ \E z \in Content(reg.recs) : y = Sup(z, owner)
  BY <1>5, <1>7, <1>8, <1>10 DEF Pruned
<1>14. ASSUME NEW z \in Content(reg.recs)
       PROVE  Sup(z, owner) \in Content(p.recs) \/ (~Live(Sup(z, owner)) /\ z.hard_refs = 0)
  <2>1. Sup(z, owner) \in Content(g.recs) /\ z \in RecordType
    BY <1>4, <1>5, <1>7, <1>8, ContentTypes
  <2> QED BY <1>10, <2>1, SupFields DEF Pruned
<1>15. Added(p, reg, x, owner)
  BY <1>10, <1>11, <1>12, <1>13, <1>14 DEF Added
<1> QED BY <1>b, <1>15

-----------------------------------------------------------------------------
(* Records and the leases that pin them: C is the content of a vector, pn  *)
(* and at what pin and pinned_at say.                                      *)

Holders(pn, r) == {l \in Leases : pn[l] = r}

RefsExact(C, pn) == \A x \in C : x.hard_refs = Cardinality(Holders(pn, x.record_id))
PinsKnown(C, pn) == \A l \in Leases : pn[l] # None => \E x \in C : x.record_id = pn[l]
Covered(C, pn, at, t) ==
  \A x \in C : \A l \in Leases :
    pn[l] = x.record_id => at[l] <= t /\ (PinDeadline > 0 => at[l] + PinDeadline <= x.pin_expiry)
PinsOK(C, nx, pn, at, t) == Fresh(C, nx) /\ RefsExact(C, pn) /\ PinsKnown(C, pn) /\ Covered(C, pn, at, t)

\* Two records have the same id only if they are one.
LEMMA UniqueIds ==
  ASSUME NEW recs, NEW sl, VecOK(recs, sl)
  PROVE  /\ \A i, j \in 1..Len(recs) : recs[i].record_id = recs[j].record_id => i = j
         /\ \A x, y \in Content(recs) : x.record_id = y.record_id => x = y
<1>0. recs \in Seq(RecordType) /\ Len(recs) \in Nat /\ \A i \in 1..Len(recs) : recs[i].record_id \in Nat
  BY FieldTypes DEF VecOK
<1>1. ASSUME NEW i \in 1..Len(recs), NEW j \in 1..Len(recs), recs[i].record_id = recs[j].record_id PROVE i = j
  <2>1. \A a, b \in 1..Len(recs) : a < b => recs[a].record_id > recs[b].record_id
    BY DEF VecOK, Sorted
  <2>2. ~(i < j)
    BY <1>0, <1>1, <2>1
  <2>3. ~(j < i)
    BY <1>0, <1>1, <2>1
  <2>4. i \in Nat /\ j \in Nat
    BY <1>0
  <2> QED BY <2>2, <2>3, <2>4
<1> QED BY <1>1 DEF Content

LEMMA HoldersFinite ==
  ASSUME NEW pn, NEW r
  PROVE  /\ IsFiniteSet(Holders(pn, r)) /\ Cardinality(Holders(pn, r)) \in Nat
         /\ Cardinality(Holders(pn, r)) = 0 <=> Holders(pn, r) = {}
<1>1. Holders(pn, r) \subseteq Leases
  BY DEF Holders
<1>2. IsFiniteSet(Holders(pn, r))
  BY <1>1, LeasesAssumption, FS_Subset
<1> QED BY <1>2, FS_CardinalityType, FS_EmptySet

\* D keeps of C the ids, counts and deadlines, and every pinned record.
Keeps(D, C) ==
  /\ \A y \in D : \E z \in C : y.record_id = z.record_id /\ y.hard_refs = z.hard_refs /\ y.pin_expiry = z.pin_expiry
  /\ \A z \in C : z.hard_refs = 0 \/ \E y \in D : y.record_id = z.record_id

LEMMA KeepsOK ==
  ASSUME NEW C, NEW D, Keeps(D, C), NEW nx, NEW pn, NEW at, NEW t, PinsOK(C, nx, pn, at, t)
  PROVE  PinsOK(D, nx, pn, at, t)
<1>1. Fresh(D, nx) /\ RefsExact(D, pn) /\ Covered(D, pn, at, t)
  BY DEF Keeps, PinsOK, Fresh, RefsExact, Covered
<1>2. PinsKnown(D, pn)
  <2> SUFFICES ASSUME NEW l \in Leases, pn[l] # None PROVE \E y \in D : y.record_id = pn[l]
    BY DEF PinsKnown
  <2>1. PICK z \in C : z.record_id = pn[l]
    BY DEF PinsOK, PinsKnown
  <2>2. l \in Holders(pn, z.record_id)
    BY <2>1 DEF Holders
  <2>3. z.hard_refs # 0
    BY <2>2, HoldersFinite DEF PinsOK, RefsExact
  <2> QED BY <2>1, <2>3 DEF Keeps
<1> QED BY <1>1, <1>2 DEF PinsOK

LEMMA AgedKeeps ==
  ASSUME NEW old \in Seq(RecordType), NEW new, Aged(new, old) PROVE Keeps(Content(new), Content(old))
<1>1. ASSUME NEW i \in 1..Len(old)
      PROVE  new[i].record_id = old[i].record_id /\ new[i].hard_refs = old[i].hard_refs
             /\ new[i].pin_expiry = old[i].pin_expiry
  <2>1. old[i] \in RecordType /\ new[i] \in {old[i], Replay(old[i])}
    BY DEF Aged
  <2> QED BY <2>1, ReplayFields
<1>2. Len(new) = Len(old)
  BY DEF Aged
<1> QED BY <1>1, <1>2 DEF Keeps, Content

\* The first hit of find_idx is a record with the id.
LEMMA FindIdx ==
  ASSUME NEW recs \in Seq(RecordType), NEW proto, NEW id, NEW i, i = find_idx(recs, proto, id), i # None
  PROVE  i \in 1..Len(recs) /\ recs[i].protocol = proto /\ InList(id, recs[i].call_ids)
<1> DEFINE hits == {k \in DOMAIN recs : recs[k].protocol = proto /\ InList(id, recs[k].call_ids)}
<1>1. i = IF hits = {} THEN None ELSE CHOOSE k \in hits : \A j \in hits : k <= j
  BY DEF find_idx
<1>2. hits \subseteq Nat
  OBVIOUS
<1>3. hits # {}
  BY <1>1
<1>4. \A k \in hits : k \in 1..Len(recs) /\ recs[k].protocol = proto /\ InList(id, recs[k].call_ids)
  OBVIOUS
<1> HIDE DEF hits
<1>5. \E k \in hits : \A j \in hits : k <= j
  BY <1>2, <1>3, LeastOf
<1>6. i \in hits
  BY <1>1, <1>3, <1>5
<1> QED BY <1>4, <1>6

\* A change that leaves id, owner and state of every record alone.
SameShape(new, old) ==
  /\ new \in Seq(RecordType) /\ Len(new) = Len(old)
  /\ \A i \in 1..Len(old) : /\ new[i].record_id = old[i].record_id /\ new[i].owner = old[i].owner
                            /\ new[i].state = old[i].state

LEMMA SameShapeOK ==
  ASSUME NEW old, NEW sl, VecOK(old, sl), NEW new, SameShape(new, old) PROVE VecOK(new, sl)
<1>1. SlotOK(new, sl)
  BY DEF VecOK, SlotOK, SameShape, Live
<1>2. OneLive(new)
  BY DEF VecOK, OneLive, SameShape, Live
<1>3. Sorted(new)
  BY DEF VecOK, Sorted, SameShape
<1> QED BY <1>1, <1>2, <1>3 DEF VecOK, SameShape

\* One more pin of a record nobody's lease l held before.
LEMMA PinCount ==
  ASSUME NEW pn \in [Leases -> Nat], NEW l \in Leases, pn[l] = 0, NEW r \in Nat, r # 0
  PROVE  /\ Cardinality(Holders([pn EXCEPT ![l] = r], r)) = Cardinality(Holders(pn, r)) + 1
         /\ \A q \in Nat : q # 0 /\ q # r => Holders([pn EXCEPT ![l] = r], q) = Holders(pn, q)
<1>1. Holders([pn EXCEPT ![l] = r], r) = Holders(pn, r) \cup {l} /\ l \notin Holders(pn, r)
  BY DEF Holders
<1>2. IsFiniteSet(Holders(pn, r))
  BY HoldersFinite
<1>3. Cardinality(Holders(pn, r) \cup {l}) = Cardinality(Holders(pn, r)) + 1
  BY <1>1, <1>2, FS_AddElement
<1>4. \A q \in Nat : q # 0 /\ q # r => Holders([pn EXCEPT ![l] = r], q) = Holders(pn, q)
  BY DEF Holders
<1> QED BY <1>1, <1>3, <1>4

LEMMA UnpinCount ==
  ASSUME NEW pn \in [Leases -> Nat], NEW l \in Leases, NEW r \in Nat, r # 0, pn[l] = r
  PROVE  /\ Cardinality(Holders([pn EXCEPT ![l] = 0], r)) = Cardinality(Holders(pn, r)) - 1
         /\ Cardinality(Holders(pn, r)) # 0
         /\ \A q \in Nat : q # 0 /\ q # r => Holders([pn EXCEPT ![l] = 0], q) = Holders(pn, q)
<1>1. Holders([pn EXCEPT ![l] = 0], r) = Holders(pn, r) \ {l} /\ l \in Holders(pn, r)
  BY DEF Holders
<1>2. IsFiniteSet(Holders(pn, r)) /\ Cardinality(Holders(pn, r)) # 0
  BY <1>1, HoldersFinite
<1>3. Cardinality(Holders(pn, r) \ {l}) = Cardinality(Holders(pn, r)) - 1
  BY <1>1, <1>2, FS_RemoveElement
<1>4. \A q \in Nat : q # 0 /\ q # r => Holders([pn EXCEPT ![l] = 0], q) = Holders(pn, q)
  BY DEF Holders
<1> QED BY <1>1, <1>2, <1>3, <1>4

-----------------------------------------------------------------------------
(* The inductive invariant: the vector is sound, ids are given out in      *)
(* order, and references and deadlines account for every pin.              *)

RestOK ==
  /\ next_record_id \in 1..(MaxRid + 1) /\ now \in 0..MaxTime /\ native \in [Owners -> 0..MaxRef]
  /\ pin \in [Leases -> 0..MaxRid] /\ pinned_at \in [Leases -> 0..MaxTime]

RegInv ==
  /\ VecOK(records, serial_live) /\ RestOK
  /\ PinsOK(Content(records), next_record_id, pin, pinned_at, now)

LEMMA RegInvFacts ==
  ASSUME RegInv
  PROVE  /\ Reg \in Regs /\ Reg.recs = records /\ Reg.sl = serial_live /\ records \in Seq(RecordType)
         /\ Reg = [recs |-> Reg.recs, sl |-> Reg.sl] /\ serial_live \in 0..Len(records)
         /\ VecOK(Reg.recs, Reg.sl) /\ Len(records) \in Nat /\ DOMAIN records = 1..Len(records)
         /\ next_record_id \in Nat /\ now \in Nat /\ now \in 0..MaxTime
         /\ pin \in [Leases -> Nat] /\ pinned_at \in [Leases -> Nat]
         /\ MaxTime \in Nat /\ MaxRid \in Nat /\ MaxRef \in Nat /\ PinDeadline \in Nat
<1>1. Reg.recs = records /\ Reg.sl = serial_live /\ Reg = [recs |-> Reg.recs, sl |-> Reg.sl]
  BY DEF Reg
<1>2. VecOK(Reg.recs, Reg.sl) /\ records \in Seq(RecordType) /\ serial_live \in 0..Len(records)
  BY <1>1 DEF RegInv, VecOK, SlotOK
<1>3. Reg \in Regs
  BY <1>1, <1>2, VecReg
<1>4. MaxTime \in Nat /\ MaxRid \in Nat /\ MaxRef \in Nat /\ PinDeadline \in Nat
  BY LimitsAssumption
<1>5. next_record_id \in Nat /\ now \in Nat /\ now \in 0..MaxTime
  BY <1>4 DEF RegInv, RestOK
<1>6. pin \in [Leases -> Nat] /\ pinned_at \in [Leases -> Nat]
  BY <1>4 DEF RegInv, RestOK
<1> QED BY <1>1, <1>2, <1>3, <1>4, <1>5, <1>6

LEMMA InitInv == Init => RegInv
<1> SUFFICES ASSUME Init PROVE RegInv
  OBVIOUS
<1>1. records = <<>> /\ serial_live = 0 /\ Len(records) = 0 /\ 1..0 = {} /\ records \in Seq(RecordType)
  BY DEF Init, None
<1>2. VecOK(records, serial_live) /\ Content(records) = {}
  BY <1>1 DEF VecOK, SlotOK, OneLive, Sorted, Content
<1>3. RestOK
  <2>1. 0 \in 0..MaxRid /\ 0 \in 0..MaxTime /\ 0 \in 0..MaxRef /\ 1 \in 1..(MaxRid + 1)
    BY LimitsAssumption
  <2> QED BY <2>1 DEF Init, RestOK, None
<1>4. PinsOK({}, next_record_id, pin, pinned_at, now)
  BY DEF Init, PinsOK, Fresh, RefsExact, PinsKnown, Covered
<1> QED BY <1>2, <1>3, <1>4 DEF RegInv

\* A publication, in terms of records.
LEMMA PublishFacts ==
  ASSUME RegInv, NEW o \in Owners, NEW p \in Protocols, NEW ids \in IdLists, Publish(o, p, ids),
         NEW x, x = NewRecord(next_record_id, p, ids, o, native[o], now)
  PROVE  /\ VecOK(records', serial_live') /\ Settled(records') /\ x \in Content(records') /\ x \in RecordType
         /\ x.record_id = next_record_id /\ x.owner = o /\ Live(x) /\ x.hard_refs = 0
         /\ \A y \in Content(records') : y = x \/ \E z \in Content(records) : y = Sup(z, o)
         /\ \A z \in Content(records) : \/ Sup(z, o) \in Content(records')
                                        \/ ~Live(Sup(z, o)) /\ z.hard_refs = 0
<1> DEFINE q == publish(Reg, next_record_id, p, ids, o, native[o], now)
<1>1. next_record_id <= MaxRid /\ native[o] # 0 /\ records' = q.recs /\ serial_live' = q.sl
  BY DEF Publish, SetReg
<1>2. x \in RecordType
  <2>1. next_record_id \in 1..MaxRid /\ native[o] \in 1..MaxRef /\ now \in 0..MaxTime
        /\ 0 \in 0..(MaxTime + PinDeadline)
    <3>1. next_record_id \in 1..(MaxRid + 1) /\ native[o] \in 0..MaxRef
      BY DEF RegInv, RestOK
    <3> QED BY <1>1, <3>1, RegInvFacts
  <2> QED BY <2>1 DEF NewRecord, RecordType
<1>3. x.record_id = next_record_id /\ x.owner = o /\ Live(x) /\ x.hard_refs = 0
  BY DEF NewRecord, Live
<1>4. Fresh(Content(Reg.recs), next_record_id)
  BY RegInvFacts DEF RegInv, PinsOK
<1>5. Reg \in Regs /\ VecOK(Reg.recs, Reg.sl) /\ Reg.recs = records
  BY RegInvFacts
<1>6. Added(q, Reg, x, o)
  BY <1>2, <1>4, <1>5, PublishOK
<1> HIDE DEF q
<1> QED BY <1>1, <1>2, <1>3, <1>5, <1>6 DEF Added

LEMMA PublishInv ==
  ASSUME RegInv, NEW o \in Owners, NEW p \in Protocols, NEW ids \in IdLists, Publish(o, p, ids)
  PROVE  RegInv'
<1> DEFINE x == NewRecord(next_record_id, p, ids, o, native[o], now)
           C == Content(records)
           D == Content(records')
           nx == next_record_id
<1>1. /\ VecOK(records', serial_live') /\ x \in D /\ x \in RecordType
      /\ x.record_id = nx /\ x.hard_refs = 0
      /\ \A y \in D : y = x \/ \E z \in C : y = Sup(z, o)
      /\ \A z \in C : Sup(z, o) \in D \/ (~Live(Sup(z, o)) /\ z.hard_refs = 0)
  <2>1. x = NewRecord(next_record_id, p, ids, o, native[o], now)
    OBVIOUS
  <2> HIDE DEF x
  <2> QED BY <2>1, PublishFacts
<1>2. nx' = nx + 1 /\ UNCHANGED <<now, native, pin, pinned_at>> /\ nx <= MaxRid /\ nx \in Nat
  BY RegInvFacts DEF Publish
<1>3. PinsOK(C, nx, pin, pinned_at, now)
  BY DEF RegInv
<1>4. \A z \in C : z \in RecordType /\ z.record_id < nx /\ z.record_id \in Nat
  BY <1>3, RegInvFacts, ContentTypes, FieldTypes DEF PinsOK, Fresh
<1> HIDE DEF x, C, D
<1> DEFINE E == D \ {x}
<1>5. Keeps(E, C)
  <2>1. ASSUME NEW y \in E
        PROVE  \E z \in C : y.record_id = z.record_id /\ y.hard_refs = z.hard_refs /\ y.pin_expiry = z.pin_expiry
    BY <1>1, <1>4, SupFields
  <2>2. ASSUME NEW z \in C, z.hard_refs # 0 PROVE \E y \in E : y.record_id = z.record_id
    <3>1. Sup(z, o) \in D /\ Sup(z, o).record_id = z.record_id
      BY <1>1, <1>4, <2>2, SupFields
    <3>2. Sup(z, o) # x
      BY <1>1, <1>2, <1>4, <3>1
    <3> QED BY <3>1, <3>2
  <2> QED BY <2>1, <2>2 DEF Keeps
<1>6. PinsOK(E, nx, pin, pinned_at, now)
  BY <1>3, <1>5, KeepsOK
<1>7. \A l \in Leases : pin[l] # nx
  <2> SUFFICES ASSUME NEW l \in Leases, pin[l] = nx PROVE FALSE
    OBVIOUS
  <2>1. nx # 0
    BY DEF RegInv, RestOK
  <2>2. PICK z \in C : z.record_id = nx
    BY <1>3, <2>1 DEF PinsOK, PinsKnown, None
  <2> QED BY <1>2, <1>4, <2>2
<1>8. Holders(pin, nx) = {}
  BY <1>7 DEF Holders
<1>9. Cardinality(Holders(pin, nx)) = 0
  BY <1>8, HoldersFinite
<1>10. D = E \cup {x}
  BY <1>1
<1>11. PinsOK(D, nx + 1, pin, pinned_at, now)
  <2>1. Fresh(D, nx + 1)
    <3> SUFFICES ASSUME NEW y \in D PROVE y.record_id < nx + 1
      BY DEF Fresh
    <3>1. CASE y = x
      BY <1>1, <1>2, <3>1
    <3>2. CASE y # x
      <4>1. y.record_id \in Nat
        BY <1>1, <1>4, <3>2, SupFields
      <4>2. y.record_id < nx
        BY <1>6, <3>2 DEF PinsOK, Fresh
      <4> QED BY <1>2, <4>1, <4>2
    <3> QED BY <3>1, <3>2
  <2>2. RefsExact(D, pin)
    BY <1>1, <1>6, <1>9, <1>10 DEF PinsOK, RefsExact
  <2>3. PinsKnown(D, pin)
    BY <1>6, <1>10 DEF PinsOK, PinsKnown
  <2>4. Covered(D, pin, pinned_at, now)
    BY <1>1, <1>6, <1>7, <1>10 DEF PinsOK, Covered
  <2> QED BY <2>1, <2>2, <2>3, <2>4 DEF PinsOK
<1>12. RestOK'
  <2>1. nx' \in 1..(MaxRid + 1)
    BY <1>2, RegInvFacts DEF RegInv, RestOK
  <2> QED BY <1>2, <2>1 DEF RegInv, RestOK
<1>13. PinsOK(D, nx', pin', pinned_at', now')
  BY <1>2, <1>11
<1> QED BY <1>1, <1>12, <1>13 DEF RegInv, D

\* Demotion and expiry.
LEMMA LapseFacts ==
  ASSUME RegInv, demote_serial \/ Query
  PROVE  /\ Aged(records', records) /\ VecOK(records', serial_live')
         /\ UNCHANGED <<next_record_id, now, native, pin, pinned_at>>
<1>1. CASE demote_serial
  <2> DEFINE d == demote_idx(Reg, serial_live)
  <2>1. serial_live \in 1..Len(records) /\ records' = d.recs /\ serial_live' = d.sl
    BY <1>1, RegInvFacts DEF demote_serial, SetReg, None
  <2>2. d = demote_idx(Reg, serial_live)
    OBVIOUS
  <2> HIDE DEF d
  <2>3. VecOK(d.recs, d.sl) /\ Aged(d.recs, Reg.recs)
    BY <2>1, <2>2, RegInvFacts, DemoteOK
  <2> QED BY <1>1, <2>1, <2>3, RegInvFacts DEF demote_serial
<1>2. CASE Query
  <2> DEFINE d == expire(Reg, now)
  <2>1. records' = d.recs /\ serial_live' = d.sl
    BY <1>2 DEF Query, SetReg
  <2>2. d = expire(Reg, now)
    OBVIOUS
  <2> HIDE DEF d
  <2>3. VecOK(d.recs, d.sl) /\ Aged(d.recs, Reg.recs)
    BY <2>2, RegInvFacts, ExpireOK
  <2> QED BY <1>2, <2>1, <2>3, RegInvFacts DEF Query
<1> QED BY <1>1, <1>2

LEMMA LapseInv == ASSUME RegInv, demote_serial \/ Query PROVE RegInv'
<1>1. /\ Aged(records', records) /\ VecOK(records', serial_live')
      /\ UNCHANGED <<next_record_id, now, native, pin, pinned_at>>
  BY LapseFacts
<1> DEFINE C == Content(records)
           D == Content(records')
<1>2. Keeps(D, C)
  BY <1>1, RegInvFacts, AgedKeeps
<1>3. PinsOK(C, next_record_id, pin, pinned_at, now)
  BY DEF RegInv
<1> HIDE DEF C, D
<1>4. PinsOK(D, next_record_id, pin, pinned_at, now)
  BY <1>2, <1>3, KeepsOK
<1>5. PinsOK(D, next_record_id', pin', pinned_at', now')
  BY <1>1, <1>4
<1> QED BY <1>1, <1>5 DEF RegInv, RestOK, D

\* A pin: some records expired, leaving e, and record i of those that did
\* not got one reference more.
PinStep(l, e, i) ==
  /\ Aged(e, records) /\ VecOK(e, serial_live') /\ Live(e[i]) /\ pin[l] = None
  /\ SameShape(records', e) /\ \A j \in 1..Len(e) : j # i => records'[j] = e[j]
  /\ records'[i].hard_refs = e[i].hard_refs + 1
  /\ PinDeadline > 0 => records'[i].pin_expiry >= e[i].pin_expiry
                        /\ records'[i].pin_expiry >= now + PinDeadline
  /\ pin' = [pin EXCEPT ![l] = e[i].record_id]
  /\ pinned_at' = [pinned_at EXCEPT ![l] = now]
  /\ UNCHANGED <<next_record_id, now, native>>

\* pin_live() does that.
LEMMA PinFacts ==
  ASSUME RegInv, NEW l \in Leases, NEW p \in Protocols, NEW id, PinLive(l, p, id)
  PROVE  \E e : \E i \in 1..Len(records) : PinStep(l, e, i)
<1> DEFINE g == expire(Reg, now)
           e == g.recs
           i == find_idx(e, p, id)
           x == e[i]
           y == [x EXCEPT !.hard_refs = @ + 1,
                   !.pin_expiry = IF PinDeadline > 0 THEN Max2(@, now + PinDeadline) ELSE @]
<1>1. /\ pin[l] = None /\ i # None /\ Live(x)
      /\ pin' = [pin EXCEPT ![l] = x.record_id] /\ pinned_at' = [pinned_at EXCEPT ![l] = now]
      /\ UNCHANGED <<next_record_id, now, native>>
  BY DEF PinLive
<1>2. SetReg([g EXCEPT !.recs = [@ EXCEPT ![i] = y]])
  BY DEF PinLive
<1>3. VecOK(e, g.sl) /\ Aged(e, records) /\ g = [recs |-> e, sl |-> g.sl]
  <2>1. g = expire(Reg, now)
    OBVIOUS
  <2> HIDE DEF g
  <2>2. VecOK(g.recs, g.sl) /\ Aged(g.recs, Reg.recs) /\ g = [recs |-> g.recs, sl |-> g.sl]
    BY <2>1, RegInvFacts, ExpireOK
  <2> QED BY <2>2, RegInvFacts
<1>4. e \in Seq(RecordType) /\ Len(e) = Len(records) /\ Len(e) \in Nat
  BY <1>3, RegInvFacts DEF VecOK, Aged
<1>5. i \in 1..Len(e)
  <2>1. i = find_idx(e, p, id)
    OBVIOUS
  <2> HIDE DEF i, e
  <2> QED BY <1>1, <1>4, <2>1, FindIdx
<1> HIDE DEF i
<1>6. x \in RecordType
  BY <1>4, <1>5
<1>7. records' = [e EXCEPT ![i] = y] /\ serial_live' = g.sl
  <2>1. [g EXCEPT !.recs = [@ EXCEPT ![i] = y]] = [recs |-> [e EXCEPT ![i] = y], sl |-> g.sl]
    <3> DEFINE sl == g.sl
               rr == g.recs
    <3>1. g = [recs |-> rr, sl |-> sl]
      BY <1>3
    <3> HIDE DEF g, y, rr, sl
    <3>2. [g EXCEPT !.recs = [@ EXCEPT ![i] = y]] = [recs |-> [rr EXCEPT ![i] = y], sl |-> sl]
      BY <3>1
    <3> QED BY <3>2 DEF rr, sl
  <2> QED BY <1>2, <2>1 DEF SetReg
<1> HIDE DEF e, g
<1>8. /\ y.record_id = x.record_id /\ y.owner = x.owner /\ y.state = x.state
      /\ y.hard_refs = x.hard_refs + 1
      /\ y.pin_expiry = (IF PinDeadline > 0 THEN Max2(x.pin_expiry, now + PinDeadline) ELSE x.pin_expiry)
      /\ y = [record_id |-> x.record_id, state |-> x.state, owner |-> x.owner, protocol |-> x.protocol,
              ref |-> x.ref, call_ids |-> x.call_ids, publish_time |-> x.publish_time,
              hard_refs |-> x.hard_refs + 1,
              pin_expiry |-> IF PinDeadline > 0 THEN Max2(x.pin_expiry, now + PinDeadline) ELSE x.pin_expiry]
  <2> DEFINE h == x.hard_refs + 1
             w == IF PinDeadline > 0 THEN Max2(x.pin_expiry, now + PinDeadline) ELSE x.pin_expiry
  <2>1. y = [x EXCEPT !.hard_refs = h, !.pin_expiry = w]
    OBVIOUS
  <2> HIDE DEF x, y, h, w
  <2>2. /\ y.record_id = x.record_id /\ y.owner = x.owner /\ y.state = x.state
        /\ y.hard_refs = h /\ y.pin_expiry = w
        /\ y = [record_id |-> x.record_id, state |-> x.state, owner |-> x.owner, protocol |-> x.protocol,
                ref |-> x.ref, call_ids |-> x.call_ids, publish_time |-> x.publish_time,
                hard_refs |-> h, pin_expiry |-> w]
    BY <1>6, <2>1 DEF RecordType
  <2> QED BY <2>2 DEF h, w
<1>9. /\ x.hard_refs \in Nat /\ x.pin_expiry \in 0..(MaxTime + PinDeadline) /\ x.pin_expiry \in Nat
      /\ now \in 0..MaxTime /\ PinDeadline \in Nat /\ MaxTime \in Nat
  BY <1>6, FieldTypes, RegInvFacts
<1> DEFINE m == Max2(x.pin_expiry, now + PinDeadline)
           v == x.pin_expiry
<1>10. m \in 0..(MaxTime + PinDeadline) /\ m >= v /\ m >= now + PinDeadline
  <2> HIDE DEF x
  <2> QED BY <1>9 DEF Max2
<1> HIDE DEF m, y
<1>11. y \in RecordType
  <2> DEFINE h == x.hard_refs + 1
             w == IF PinDeadline > 0 THEN m ELSE v
  <2>1. h \in Nat
    BY <1>9
  <2>2. w \in 0..(MaxTime + PinDeadline)
    BY <1>9, <1>10
  <2>3. y = [record_id |-> x.record_id, state |-> x.state, owner |-> x.owner, protocol |-> x.protocol,
             ref |-> x.ref, call_ids |-> x.call_ids, publish_time |-> x.publish_time,
             hard_refs |-> h, pin_expiry |-> w]
    BY <1>8 DEF m
  <2> HIDE DEF h, w, x
  <2> QED BY <1>6, <2>1, <2>2, <2>3 DEF RecordType
<1>12. PinDeadline > 0 => y.pin_expiry >= v /\ y.pin_expiry >= now + PinDeadline
  BY <1>8, <1>10 DEF m
<1>13. /\ records' \in Seq(RecordType) /\ Len(records') = Len(e) /\ records'[i] = y
       /\ \A j \in 1..Len(e) : j # i => records'[j] = e[j]
  BY <1>4, <1>5, <1>7, <1>11
<1>14. SameShape(records', e)
  <2> SUFFICES ASSUME NEW j \in 1..Len(e)
               PROVE  records'[j].record_id = e[j].record_id /\ records'[j].owner = e[j].owner
                      /\ records'[j].state = e[j].state
    BY <1>13 DEF SameShape
  <2> QED BY <1>8, <1>13
<1>15. records'[i].hard_refs = e[i].hard_refs + 1
       /\ (PinDeadline > 0 => records'[i].pin_expiry >= e[i].pin_expiry /\ records'[i].pin_expiry >= now + PinDeadline)
  BY <1>8, <1>12, <1>13
<1>16. i \in 1..Len(records) /\ VecOK(e, serial_live')
  BY <1>3, <1>4, <1>5, <1>7
<1> QED BY <1>1, <1>3, <1>13, <1>14, <1>15, <1>16 DEF PinStep

LEMMA PinInv ==
  ASSUME RegInv, NEW l \in Leases, NEW p \in Protocols, NEW id, PinLive(l, p, id) PROVE RegInv'
<1>0. PICK e : \E k \in 1..Len(records) : PinStep(l, e, k)
  BY PinFacts
<1>00. PICK i \in 1..Len(records) : PinStep(l, e, i)
  BY <1>0
<1>1. /\ Aged(e, records) /\ VecOK(e, serial_live') /\ Live(e[i]) /\ pin[l] = None
      /\ SameShape(records', e) /\ \A j \in 1..Len(e) : j # i => records'[j] = e[j]
      /\ records'[i].hard_refs = e[i].hard_refs + 1
      /\ PinDeadline > 0 => records'[i].pin_expiry >= e[i].pin_expiry
                            /\ records'[i].pin_expiry >= now + PinDeadline
      /\ pin' = [pin EXCEPT ![l] = e[i].record_id]
      /\ pinned_at' = [pinned_at EXCEPT ![l] = now]
      /\ UNCHANGED <<next_record_id, now, native>>
  BY <1>00 DEF PinStep
<1> DEFINE C == Content(e)
           D == Content(records')
           n == Len(e)
           r == e[i].record_id
           nx == next_record_id
<1>2. n = Len(records) /\ Len(records') = n /\ n \in Nat /\ e \in Seq(RecordType) /\ records' \in Seq(RecordType)
  BY <1>1, RegInvFacts DEF Aged, SameShape, VecOK
<1>3. VecOK(records', serial_live')
  BY <1>1, SameShapeOK
<1>4. PinsOK(C, nx, pin, pinned_at, now)
  <2>1. Keeps(Content(e), Content(records))
    BY <1>1, RegInvFacts, AgedKeeps
  <2> QED BY <2>1, KeepsOK DEF RegInv
<1>5. \A j \in 1..n : /\ records'[j] \in D /\ e[j] \in C
                      /\ records'[j].record_id = e[j].record_id
                      /\ e[j].record_id \in Nat /\ e[j].record_id # 0 /\ e[j].record_id \in 1..MaxRid
                      /\ e[j].hard_refs \in Nat
  BY <1>1, <1>2, FieldTypes DEF SameShape, Content
<1>6. i \in 1..n /\ r \in Nat /\ r # 0 /\ r \in 1..MaxRid
  BY <1>2, <1>5
<1>7. \A j \in 1..n : j # i => e[j].record_id # r
  BY <1>1, <1>6, UniqueIds
<1>8. pin \in [Leases -> Nat] /\ pinned_at \in [Leases -> Nat] /\ pin[l] = 0 /\ pin' = [pin EXCEPT ![l] = r]
      /\ now \in Nat /\ PinDeadline \in Nat
  BY <1>1, RegInvFacts DEF None
<1> HIDE DEF C, r
<1>9. /\ Cardinality(Holders(pin', r)) = Cardinality(Holders(pin, r)) + 1
      /\ \A q \in Nat : q # 0 /\ q # r => Holders(pin', q) = Holders(pin, q)
  BY <1>6, <1>8, PinCount
<1>10. Fresh(D, nx)
  <2> SUFFICES ASSUME NEW j \in 1..n PROVE records'[j].record_id < nx
    BY <1>2 DEF Fresh, Content
  <2> QED BY <1>4, <1>5 DEF PinsOK, Fresh
<1>11. RefsExact(D, pin')
  <2> SUFFICES ASSUME NEW j \in 1..n
               PROVE  records'[j].hard_refs = Cardinality(Holders(pin', records'[j].record_id))
    BY <1>2 DEF RefsExact, Content
  <2>1. e[j].hard_refs = Cardinality(Holders(pin, e[j].record_id))
    BY <1>4, <1>5 DEF PinsOK, RefsExact
  <2>2. CASE j = i
    BY <1>1, <1>5, <1>9, <2>1, <2>2 DEF r
  <2>3. CASE j # i
    <3>1. records'[j] = e[j]
      BY <1>1, <2>3
    <3>2. Holders(pin', e[j].record_id) = Holders(pin, e[j].record_id)
      BY <1>5, <1>7, <1>9, <2>3
    <3> QED BY <2>1, <3>1, <3>2
  <2> QED BY <2>2, <2>3
<1>12. PinsKnown(D, pin')
  <2> SUFFICES ASSUME NEW k \in Leases, pin'[k] # None PROVE \E x \in D : x.record_id = pin'[k]
    BY DEF PinsKnown
  <2>1. CASE k = l
    <3>1. pin'[k] = r
      BY <1>8, <2>1
    <3>2. records'[i] \in D /\ records'[i].record_id = r
      BY <1>5, <1>6 DEF r
    <3> QED BY <3>1, <3>2
  <2>2. CASE k # l
    <3>1. pin'[k] = pin[k]
      BY <1>8, <2>2
    <3>2. PICK z \in C : z.record_id = pin[k]
      BY <1>4, <3>1 DEF PinsOK, PinsKnown
    <3>3. PICK j \in 1..n : z = e[j]
      BY <3>2 DEF C, Content
    <3>4. records'[j] \in D /\ records'[j].record_id = pin'[k]
      BY <1>5, <3>1, <3>2, <3>3
    <3> QED BY <3>4
  <2> QED BY <2>1, <2>2
<1>13. Covered(D, pin', pinned_at', now)
  <2> SUFFICES ASSUME NEW j \in 1..n, NEW k \in Leases, pin'[k] = records'[j].record_id
               PROVE  pinned_at'[k] <= now
                      /\ (PinDeadline > 0 => pinned_at'[k] + PinDeadline <= records'[j].pin_expiry)
    BY <1>2 DEF Covered, Content
  <2>0. e[j].pin_expiry \in Nat /\ records'[j].pin_expiry \in Nat
    BY <1>2, FieldTypes
  <2>1. CASE k = l
    <3>1. pinned_at'[k] = now /\ pin'[k] = r
      BY <1>1, <1>8, <2>1
    <3>2. j = i
      BY <1>5, <1>7, <3>1
    <3> QED BY <1>1, <1>8, <2>0, <3>1, <3>2
  <2>2. CASE k # l
    <3>1. pinned_at'[k] = pinned_at[k] /\ pin[k] = e[j].record_id
      BY <1>1, <1>5, <1>8, <2>2
    <3>2. pinned_at[k] <= now /\ (PinDeadline > 0 => pinned_at[k] + PinDeadline <= e[j].pin_expiry)
      BY <1>4, <1>5, <3>1 DEF PinsOK, Covered
    <3>3. CASE j = i
      <4> DEFINE a == e[i].pin_expiry
                 b == records'[i].pin_expiry
                 c == pinned_at[k]
      <4>1. a \in Nat /\ b \in Nat /\ c \in Nat /\ PinDeadline \in Nat
            /\ (PinDeadline > 0 => b >= a) /\ (PinDeadline > 0 => c + PinDeadline <= a)
        BY <1>1, <1>8, <2>0, <3>2, <3>3
      <4> HIDE DEF a, b, c
      <4>2. PinDeadline > 0 => c + PinDeadline <= b
        BY ONLY <4>1
      <4> QED BY <3>1, <3>2, <3>3, <4>2 DEF b, c
    <3>4. CASE j # i
      BY <1>1, <3>1, <3>2, <3>4
    <3> QED BY <3>3, <3>4
  <2> QED BY <2>1, <2>2
<1>14. PinsOK(D, nx', pin', pinned_at', now')
  BY <1>1, <1>10, <1>11, <1>12, <1>13 DEF PinsOK
<1>15. RestOK'
  <2>1. r \in 0..MaxRid /\ now \in 0..MaxTime
    BY <1>6, RegInvFacts
  <2>2. pin' \in [Leases -> 0..MaxRid] /\ pinned_at' \in [Leases -> 0..MaxTime]
    BY <1>1, <1>8, <2>1 DEF RegInv, RestOK
  <2> QED BY <1>1, <2>2 DEF RegInv, RestOK
<1> QED BY <1>3, <1>14, <1>15 DEF RegInv

\* Dropping a lease takes one reference off the record it pinned.
LEMMA UnpinFacts ==
  ASSUME RegInv, NEW l \in Leases, Unpin(l)
  PROVE  /\ pin[l] # None /\ SameShape(records', records)
         /\ \A j \in 1..Len(records) :
              /\ records'[j].pin_expiry = records[j].pin_expiry
              /\ records[j].record_id = pin[l] => records[j].hard_refs # 0
              /\ records'[j].hard_refs = IF records[j].record_id = pin[l] THEN records[j].hard_refs - 1
                                         ELSE records[j].hard_refs
         /\ pin' = [pin EXCEPT ![l] = None] /\ pinned_at' = [pinned_at EXCEPT ![l] = 0]
         /\ UNCHANGED <<serial_live, next_record_id, now, native>>
<1> DEFINE n == Len(records)
           r == pin[l]
           f(j) == IF records[j].record_id = r THEN [records[j] EXCEPT !.hard_refs = @ - 1] ELSE records[j]
<1>0. records \in Seq(RecordType) /\ n \in Nat /\ DOMAIN records = 1..n /\ r \in Nat
      /\ pin \in [Leases -> Nat]
  BY RegInvFacts
<1>1. /\ r # 0 /\ pin' = [pin EXCEPT ![l] = None] /\ pinned_at' = [pinned_at EXCEPT ![l] = 0]
      /\ UNCHANGED <<serial_live, next_record_id, now, native>>
  BY DEF Unpin, None
<1>2. \A j \in 1..n : records[j].hard_refs \in Nat /\ records[j] \in RecordType
  BY <1>0, FieldTypes
<1>3. \A j \in 1..n : records[j].record_id = r => records[j].hard_refs # 0
  <2> SUFFICES ASSUME NEW j \in 1..n, records[j].record_id = r PROVE records[j].hard_refs # 0
    OBVIOUS
  <2>1. records[j].hard_refs = Cardinality(Holders(pin, r))
    BY DEF RegInv, PinsOK, RefsExact, Content
  <2>2. l \in Holders(pin, r)
    BY DEF Holders
  <2> QED BY <2>1, <2>2, HoldersFinite
<1>4. records' = [j \in 1..n |-> f(j)]
  <2>1. records' = [j \in DOMAIN records |->
                      IF j \in {k \in DOMAIN records : records[k].record_id = r} /\ records[j].hard_refs > 0
                      THEN [records[j] EXCEPT !.hard_refs = @ - 1] ELSE records[j]]
    BY DEF Unpin
  <2>2. \A j \in 1..n : (j \in {k \in DOMAIN records : records[k].record_id = r} /\ records[j].hard_refs > 0)
                        <=> records[j].record_id = r
    BY <1>0, <1>2, <1>3
  <2> QED BY <1>0, <2>1, <2>2
<1>5. ASSUME NEW j \in 1..n
      PROVE  /\ f(j) \in RecordType /\ f(j).record_id = records[j].record_id /\ f(j).owner = records[j].owner
             /\ f(j).state = records[j].state /\ f(j).pin_expiry = records[j].pin_expiry
             /\ f(j).hard_refs = IF records[j].record_id = r THEN records[j].hard_refs - 1 ELSE records[j].hard_refs
  <2> DEFINE x == records[j]
             h == records[j].hard_refs - 1
  <2>1. x \in RecordType /\ x.hard_refs \in Nat /\ (x.record_id = r => x.hard_refs # 0)
    BY <1>2, <1>3
  <2>2. CASE x.record_id = r
    <3>1. h \in Nat
      BY <2>1, <2>2
    <3>2. f(j) = [x EXCEPT !.hard_refs = h]
      BY <2>2
    <3> HIDE DEF h, x, f
    <3>3. /\ f(j) \in RecordType /\ f(j).record_id = x.record_id /\ f(j).owner = x.owner
          /\ f(j).state = x.state /\ f(j).pin_expiry = x.pin_expiry /\ f(j).hard_refs = h
      BY <2>1, <3>1, <3>2 DEF RecordType
    <3> QED BY <2>2, <3>3 DEF h, x
  <2>3. CASE x.record_id # r
    <3>1. f(j) = x
      BY <2>3
    <3> QED BY <2>1, <2>3, <3>1
  <2> QED BY <2>2, <2>3
<1> HIDE DEF f
<1>6. records' \in Seq(RecordType) /\ Len(records') = n /\ \A j \in 1..n : records'[j] = f(j)
  BY <1>0, <1>4, <1>5
<1>7. SameShape(records', records)
  BY <1>5, <1>6 DEF SameShape
<1> QED BY <1>1, <1>3, <1>5, <1>6, <1>7 DEF None

LEMMA UnpinInv == ASSUME RegInv, NEW l \in Leases, Unpin(l) PROVE RegInv'
<1> DEFINE n == Len(records)
           r == pin[l]
           D == Content(records')
           C == Content(records)
           nx == next_record_id
<1>1. /\ r # 0 /\ SameShape(records', records)
      /\ \A j \in 1..n : /\ records'[j].pin_expiry = records[j].pin_expiry
                         /\ records'[j].hard_refs = IF records[j].record_id = r THEN records[j].hard_refs - 1
                                                    ELSE records[j].hard_refs
      /\ pin' = [pin EXCEPT ![l] = 0] /\ pinned_at' = [pinned_at EXCEPT ![l] = 0]
      /\ UNCHANGED <<serial_live, next_record_id, now, native>>
  BY UnpinFacts DEF None
<1>2. /\ Len(records') = n /\ n \in Nat /\ records \in Seq(RecordType) /\ records' \in Seq(RecordType)
      /\ pin \in [Leases -> Nat] /\ pinned_at \in [Leases -> Nat] /\ now \in Nat /\ r \in Nat
  BY <1>1, RegInvFacts DEF SameShape
<1>3. VecOK(records', serial_live')
  BY <1>1, SameShapeOK DEF RegInv
<1>4. PinsOK(C, nx, pin, pinned_at, now)
  BY DEF RegInv
<1>5. \A j \in 1..n : /\ records'[j] \in D /\ records[j] \in C /\ records'[j].record_id = records[j].record_id
                      /\ records[j].record_id \in Nat /\ records[j].record_id # 0
  BY <1>1, <1>2, FieldTypes DEF SameShape, Content
<1>6. /\ Cardinality(Holders(pin', r)) = Cardinality(Holders(pin, r)) - 1
      /\ \A q \in Nat : q # 0 /\ q # r => Holders(pin', q) = Holders(pin, q)
  <2> HIDE DEF r
  <2>1. pin[l] = r
    BY DEF r
  <2> QED BY <1>1, <1>2, <2>1, UnpinCount
<1> HIDE DEF r
<1>7. Fresh(D, nx)
  <2> SUFFICES ASSUME NEW j \in 1..n PROVE records'[j].record_id < nx
    BY <1>2 DEF Fresh, Content
  <2> QED BY <1>4, <1>5 DEF PinsOK, Fresh
<1>8. RefsExact(D, pin')
  <2> SUFFICES ASSUME NEW j \in 1..n
               PROVE  records'[j].hard_refs = Cardinality(Holders(pin', records'[j].record_id))
    BY <1>2 DEF RefsExact, Content
  <2>1. records[j].hard_refs = Cardinality(Holders(pin, records[j].record_id))
    BY <1>4, <1>5 DEF PinsOK, RefsExact
  <2> QED BY <1>1, <1>5, <1>6, <2>1
<1>9. PinsKnown(D, pin')
  <2> SUFFICES ASSUME NEW k \in Leases, pin'[k] # None PROVE \E x \in D : x.record_id = pin'[k]
    BY DEF PinsKnown
  <2>1. k # l /\ pin'[k] = pin[k]
    BY <1>1, <1>2 DEF None
  <2>2. PICK z \in C : z.record_id = pin[k]
    BY <1>4, <2>1 DEF PinsOK, PinsKnown
  <2>3. PICK j \in 1..n : z = records[j]
    BY <2>2 DEF Content
  <2>4. records'[j] \in D /\ records'[j].record_id = pin'[k]
    BY <1>5, <2>1, <2>2, <2>3
  <2> QED BY <2>4
<1>10. Covered(D, pin', pinned_at', now)
  <2> SUFFICES ASSUME NEW j \in 1..n, NEW k \in Leases, pin'[k] = records'[j].record_id
               PROVE  pinned_at'[k] <= now
                      /\ (PinDeadline > 0 => pinned_at'[k] + PinDeadline <= records'[j].pin_expiry)
    BY <1>2 DEF Covered, Content
  <2>1. k # l
    BY <1>1, <1>2, <1>5
  <2>2. pin[k] = records[j].record_id /\ pinned_at'[k] = pinned_at[k]
    BY <1>1, <1>2, <1>5, <2>1
  <2>3. pinned_at[k] <= now /\ (PinDeadline > 0 => pinned_at[k] + PinDeadline <= records[j].pin_expiry)
    BY <1>4, <1>5, <2>2 DEF PinsOK, Covered
  <2> QED BY <1>1, <2>2, <2>3
<1>11. PinsOK(D, nx', pin', pinned_at', now')
  BY <1>1, <1>7, <1>8, <1>9, <1>10 DEF PinsOK
<1>12. RestOK'
  <2>1. 0 \in 0..MaxRid /\ 0 \in 0..MaxTime
    BY RegInvFacts
  <2>2. pin' \in [Leases -> 0..MaxRid] /\ pinned_at' \in [Leases -> 0..MaxTime]
    BY <1>1, <2>1 DEF RegInv, RestOK
  <2> QED BY <1>1, <2>2 DEF RegInv, RestOK
<1> QED BY <1>3, <1>11, <1>12 DEF RegInv

LEMMA TickInv == ASSUME RegInv, Tick PROVE RegInv'
<1>1. /\ now' \in Instants /\ now' > now
      /\ UNCHANGED <<records, serial_live, next_record_id, native, pin, pinned_at>>
  BY DEF Tick
<1>2. now' \in 0..MaxTime /\ now \in Nat
  BY <1>1, RegInvFacts, LimitsAssumption
<1>3. PinsOK(Content(records), next_record_id, pin, pinned_at, now)
  BY DEF RegInv
<1>4. Covered(Content(records), pin, pinned_at, now')
  <2> SUFFICES ASSUME NEW x \in Content(records), NEW l \in Leases, pin[l] = x.record_id
               PROVE  pinned_at[l] <= now' /\ (PinDeadline > 0 => pinned_at[l] + PinDeadline <= x.pin_expiry)
    BY DEF Covered
  <2>1. pinned_at[l] <= now /\ (PinDeadline > 0 => pinned_at[l] + PinDeadline <= x.pin_expiry)
    BY <1>3 DEF PinsOK, Covered
  <2>2. pinned_at[l] \in Nat
    BY RegInvFacts
  <2> QED BY <1>1, <1>2, <2>1, <2>2
<1>5. PinsOK(Content(records), next_record_id, pin, pinned_at, now')
  BY <1>3, <1>4 DEF PinsOK
<1>6. RestOK'
  BY <1>1, <1>2 DEF RegInv, RestOK
<1>7. VecOK(records', serial_live')
  BY <1>1 DEF RegInv
<1>8. PinsOK(Content(records'), next_record_id', pin', pinned_at', now')
  BY <1>1, <1>5
<1> QED BY <1>6, <1>7, <1>8 DEF RegInv

LEMMA AdvanceInv == ASSUME RegInv, NEW o \in Owners, Advance(o) PROVE RegInv'
<1>1. /\ native[o] < MaxRef /\ native' = [native EXCEPT ![o] = @ + 1]
      /\ UNCHANGED <<records, serial_live, next_record_id, now, pin, pinned_at>>
  BY DEF Advance
<1>2. native \in [Owners -> 0..MaxRef]
  BY DEF RegInv, RestOK
<1>3. native[o] + 1 \in 0..MaxRef
  BY <1>1, <1>2, RegInvFacts
<1>4. native' \in [Owners -> 0..MaxRef]
  BY <1>1, <1>2, <1>3
<1>5. VecOK(records', serial_live') /\ PinsOK(Content(records'), next_record_id', pin', pinned_at', now')
  BY <1>1 DEF RegInv
<1> QED BY <1>1, <1>4, <1>5 DEF RegInv, RestOK

LEMMA StutterInv == ASSUME RegInv, UNCHANGED vars PROVE RegInv'
<1>1. UNCHANGED <<records, serial_live, next_record_id, now, native, pin, pinned_at>>
  BY DEF vars
<1>2. VecOK(records', serial_live') /\ PinsOK(Content(records'), next_record_id', pin', pinned_at', now')
  BY <1>1 DEF RegInv
<1> QED BY <1>1, <1>2 DEF RegInv, RestOK

LEMMA StepInv == RegInv /\ [Next]_vars => RegInv'
<1> SUFFICES ASSUME RegInv, [Next]_vars PROVE RegInv'
  OBVIOUS
<1>1. ASSUME NEW o \in Owners, NEW p \in Protocols, NEW ids \in IdLists, Publish(o, p, ids) PROVE RegInv'
  BY <1>1, PublishInv
<1>2. CASE demote_serial \/ Query
  BY <1>2, LapseInv
<1>3. ASSUME NEW l \in Leases, NEW p \in Protocols, NEW id \in Ids, PinLive(l, p, id) PROVE RegInv'
  BY <1>3, PinInv
<1>4. ASSUME NEW l \in Leases, Unpin(l) PROVE RegInv'
  BY <1>4, UnpinInv
<1>5. ASSUME NEW o \in Owners, Advance(o) PROVE RegInv'
  BY <1>5, AdvanceInv
<1>6. CASE Tick
  BY <1>6, TickInv
<1>7. CASE UNCHANGED vars
  BY <1>7, StutterInv
<1> QED BY <1>1, <1>2, <1>3, <1>4, <1>5, <1>6, <1>7 DEF Next

\* The invariant of every registry: the base of what follows.
THEOREM RegistryInvariant == Spec => []RegInv
<1>1. Init => RegInv
  BY InitInv
<1>2. RegInv /\ [Next]_vars => RegInv'
  BY StepInv
<1> QED BY <1>1, <1>2, PTL DEF Spec

-----------------------------------------------------------------------------
(* Safety. *)

LEMMA InvVector == RegInv => VectorSound
<1> SUFFICES ASSUME RegInv PROVE VectorSound
  OBVIOUS
<1>0. records \in Seq(RecordType) /\ DOMAIN records = 1..Len(records) /\ VecOK(records, serial_live)
  BY RegInvFacts DEF RegInv
<1>1. TypeOK
  BY RegInvFacts DEF TypeOK, RegInv, RestOK
<1>2. SerialSlot
  BY <1>0 DEF SerialSlot, VecOK, SlotOK
<1>3. BankSlot
  BY <1>0 DEF BankSlot, LiveIdx, VecOK, OneLive
<1>4. NewestFirst
  BY <1>0 DEF NewestFirst, VecOK, Sorted
<1> QED BY <1>1, <1>2, <1>3, <1>4 DEF VectorSound

\* The vector of cont.rs is well formed after every operation: serial_live
\* names the live serial record and no other, an owner has at most one live
\* record, and the newest record comes first.
THEOREM VectorSoundHolds == Spec => []VectorSound
BY RegistryInvariant, InvVector, PTL

LEMMA InvProtects == RegInv => PinProtects
<1> SUFFICES ASSUME RegInv, NEW l \in Leases, NEW i \in DOMAIN records,
                    pin[l] = records[i].record_id, Live(records[i]), records[i].owner \in Banks,
                    now < pinned_at[l] + PinDeadline
             PROVE  /\ bank_protected(records, records[i].owner, TRUE, records[i].ref, now)
                    /\ bank_protected(records, records[i].owner, FALSE, 0, now)
  BY DEF PinProtects
<1> DEFINE r == records[i]
<1>0. r \in RecordType /\ r \in Content(records)
  BY RegInvFacts, ContentTypes
<1>1. r.ref # 0 /\ r.hard_refs \in Nat /\ r.pin_expiry \in Nat
  BY <1>0, FieldTypes
<1>2. r.hard_refs > 0
  <2>1. l \in Holders(pin, r.record_id)
    BY DEF Holders
  <2>2. r.hard_refs = Cardinality(Holders(pin, r.record_id))
    BY <1>0 DEF RegInv, PinsOK, RefsExact
  <2> QED BY <1>1, <2>1, <2>2, HoldersFinite
<1>3. pinned_at[l] <= now /\ (PinDeadline > 0 => pinned_at[l] + PinDeadline <= r.pin_expiry)
  BY <1>0 DEF RegInv, PinsOK, Covered
<1>4. pinned_at[l] \in Nat /\ now \in Nat /\ PinDeadline \in Nat
  BY RegInvFacts
<1>5. PinDeadline > 0 /\ now < r.pin_expiry
  <2> DEFINE a == pinned_at[l]
             e == r.pin_expiry
  <2>1. /\ a \in Nat /\ e \in Nat /\ now \in Nat /\ PinDeadline \in Nat /\ now < a + PinDeadline
        /\ a <= now /\ (PinDeadline > 0 => a + PinDeadline <= e)
    BY <1>1, <1>3, <1>4
  <2> HIDE DEF a, e
  <2>2. PinDeadline > 0 /\ now < e
    BY ONLY <2>1
  <2> QED BY <2>2 DEF e
<1>6. Pinned(r, now)
  BY <1>2, <1>5 DEF Pinned
<1> QED BY <1>1, <1>6 DEF bank_protected, BankRecordMatches

\* A lease that pinned a live bank record keeps the bank from eviction for
\* its whole deadline, whatever other leases pin and unpin meanwhile.
THEOREM PinProtectsHolds == Spec => []PinProtects
BY RegistryInvariant, InvProtects, PTL

\* Where the live records of a step come from.
LEMMA LiveOrigin ==
  ASSUME RegInv, [Next]_vars, NEW y \in Content(records'), Live(y)
  PROVE  \/ y.record_id = next_record_id
         \/ \E z \in Content(records) : z.record_id = y.record_id /\ Live(z)
<1> DEFINE Goal == \/ y.record_id = next_record_id
                   \/ \E z \in Content(records) : z.record_id = y.record_id /\ Live(z)
<1>0. records \in Seq(RecordType) /\ \A z \in Content(records) : z \in RecordType
  BY RegInvFacts, ContentTypes
<1>1. ASSUME NEW o \in Owners, NEW p \in Protocols, NEW ids \in IdLists, Publish(o, p, ids) PROVE Goal
  <2> DEFINE x == NewRecord(next_record_id, p, ids, o, native[o], now)
  <2>1. x.record_id = next_record_id /\ (y = x \/ \E z \in Content(records) : y = Sup(z, o))
    BY <1>1, PublishFacts
  <2>2. CASE y = x
    BY <2>1, <2>2
  <2>3. ASSUME NEW z \in Content(records), y = Sup(z, o) PROVE Goal
    BY <1>0, <2>3, SupFields
  <2> QED BY <2>1, <2>2, <2>3
<1>2. ASSUME NEW e, Aged(e, records), NEW k \in 1..Len(records), Live(e[k])
      PROVE  e[k] \in Content(records) /\ Live(e[k])
  <2>1. e[k] \in {records[k], Replay(records[k])} /\ records[k] \in RecordType /\ records[k] \in Content(records)
    BY <1>0, <1>2, ContentTypes DEF Aged
  <2> QED BY <1>2, <2>1, ReplayFields
<1>3. ASSUME demote_serial \/ Query PROVE Goal
  <2>1. Aged(records', records)
    BY <1>3, LapseFacts
  <2>2. PICK k \in 1..Len(records) : y = records'[k]
    BY <2>1 DEF Aged, Content
  <2> QED BY <1>2, <2>1, <2>2
<1>4. ASSUME NEW l \in Leases, NEW p \in Protocols, NEW id \in Ids, PinLive(l, p, id) PROVE Goal
  <2>1. PICK e : \E i \in 1..Len(records) : PinStep(l, e, i)
    BY <1>4, PinFacts
  <2>2. Aged(e, records) /\ SameShape(records', e)
    BY <2>1 DEF PinStep
  <2>3. Len(records') = Len(records) /\ Len(e) = Len(records)
    BY <2>2 DEF Aged, SameShape
  <2>4. PICK k \in 1..Len(records) : y = records'[k]
    BY <2>3 DEF Content
  <2>5. y.record_id = e[k].record_id /\ Live(e[k])
    BY <2>2, <2>3, <2>4 DEF SameShape, Live
  <2> QED BY <1>2, <2>2, <2>5
<1>5. ASSUME NEW l \in Leases, Unpin(l) PROVE Goal
  <2>1. SameShape(records', records)
    BY <1>5, UnpinFacts
  <2>2. PICK k \in 1..Len(records) : y = records'[k]
    BY <2>1 DEF SameShape, Content
  <2>3. y.record_id = records[k].record_id /\ Live(records[k])
    BY <2>1, <2>2 DEF SameShape, Live
  <2> QED BY <2>3 DEF Content
<1>6. ASSUME UNCHANGED records PROVE Goal
  BY <1>6
<1>7. ASSUME NEW o \in Owners, Advance(o) PROVE UNCHANGED records
  BY <1>7 DEF Advance
<1>8. Tick \/ UNCHANGED vars => UNCHANGED records
  BY DEF Tick, vars
<1> HIDE DEF Goal
<1>9. Goal
  BY <1>1, <1>3, <1>4, <1>5, <1>6, <1>7, <1>8 DEF Next
<1> QED BY <1>9 DEF Goal

\* A record that stopped being live, or was pruned, never becomes live
\* again; only publish() makes live records.
THEOREM NoRevivalHolds == Spec => NoRevival
<1> DEFINE Step == \A j \in DOMAIN records' :
                     Live(records'[j]) =>
                       \/ records'[j].record_id = next_record_id
                       \/ \E i \in DOMAIN records : /\ records[i].record_id = records'[j].record_id
                                                    /\ Live(records[i])
<1>1. ASSUME RegInv, RegInv', [Next]_vars PROVE [Step]_vars
  <2>1. DOMAIN records = 1..Len(records)
    BY <1>1, RegInvFacts
  <2>2. DOMAIN records' = 1..Len(records')
    BY <1>1 DEF RegInv, VecOK
  <2> SUFFICES ASSUME NEW j \in 1..Len(records'), Live(records'[j])
               PROVE  \/ records'[j].record_id = next_record_id
                      \/ \E i \in 1..Len(records) : /\ records[i].record_id = records'[j].record_id
                                                    /\ Live(records[i])
    BY <2>1, <2>2
  <2> DEFINE y == records'[j]
  <2>3. y \in Content(records') /\ Live(y)
    BY DEF Content
  <2> HIDE DEF y
  <2>4. y.record_id = next_record_id \/ \E z \in Content(records) : z.record_id = y.record_id /\ Live(z)
    BY <1>1, <2>3, LiveOrigin
  <2> QED BY <2>4 DEF y, Content
<1>2. Init => RegInv
  BY InitInv
<1>3. RegInv /\ [Next]_vars => RegInv'
  BY StepInv
<1>4. (Spec => [][Step]_vars) => (Spec => NoRevival)
  BY DEF NoRevival
<1> HIDE DEF Step
<1>5. Spec => [][Step]_vars
  BY <1>1, <1>2, <1>3, PTL DEF Spec
<1> QED BY <1>4, <1>5

\* publish() leaves the vector over its limit only when every record in it
\* is live or pinned.
THEOREM PruneCompleteHolds == Spec => PruneComplete
<1> DEFINE Step == next_record_id' # next_record_id =>
                     \/ Len(records') <= MaxRecords
                     \/ \A i \in DOMAIN records' : Live(records'[i]) \/ records'[i].hard_refs > 0
<1>1. ASSUME RegInv, RegInv', [Next]_vars PROVE [Step]_vars
  <2>1. ASSUME NEW o \in Owners, NEW p \in Protocols, NEW ids \in IdLists, Publish(o, p, ids) PROVE Step
    <3>1. Settled(records')
      BY <1>1, <2>1, PublishFacts
    <3>2. DOMAIN records' = 1..Len(records')
      BY <1>1 DEF RegInv, VecOK
    <3> QED BY <3>1, <3>2 DEF Settled, Content
  <2>2. CASE UNCHANGED next_record_id
    BY <2>2
  <2>3. demote_serial \/ Query \/ Tick \/ UNCHANGED vars => UNCHANGED next_record_id
    BY DEF demote_serial, Query, Tick, vars
  <2>4. ASSUME NEW l \in Leases, NEW p \in Protocols, NEW id \in Ids, PinLive(l, p, id)
        PROVE  UNCHANGED next_record_id
    BY <2>4 DEF PinLive
  <2>5. ASSUME NEW l \in Leases, Unpin(l) PROVE UNCHANGED next_record_id
    BY <2>5 DEF Unpin
  <2>6. ASSUME NEW o \in Owners, Advance(o) PROVE UNCHANGED next_record_id
    BY <2>6 DEF Advance
  <2> HIDE DEF Step
  <2> QED BY <1>1, <2>1, <2>2, <2>3, <2>4, <2>5, <2>6 DEF Next
<1>2. Init => RegInv
  BY InitInv
<1>3. RegInv /\ [Next]_vars => RegInv'
  BY StepInv
<1>4. (Spec => [][Step]_vars) => (Spec => PruneComplete)
  BY DEF PruneComplete
<1> HIDE DEF Step
<1>5. Spec => [][Step]_vars
  BY <1>1, <1>2, <1>3, PTL DEF Spec
<1> QED BY <1>4, <1>5

-----------------------------------------------------------------------------
(* The vector implements ContTable: what it stands for in the table.       *)

RidsIn(recs) == {x.record_id : x \in Content(recs)}
LiveRidOf(recs, sl, o) ==
  LET hits == {i \in LiveIdx(recs) : recs[i].owner = o}
      at(i) == IF i = None THEN None ELSE recs[i].record_id
  IN  IF o = Serial THEN at(sl) ELSE IF hits = {} THEN None ELSE at(CHOOSE i \in hits : TRUE)
RefsAt(recs, r) == recs[CHOOSE i \in DOMAIN recs : recs[i].record_id = r].hard_refs
LiveMap(recs, sl) == [o \in Owners |-> LiveRidOf(recs, sl, o)]
RefsMap(recs) == [r \in RidsIn(recs) |-> RefsAt(recs, r)]

LEMMA LiveRidIs ==
  ASSUME NEW recs, NEW sl, VecOK(recs, sl), NEW o
  PROVE  /\ \A x \in Content(recs) : Live(x) /\ x.owner = o => LiveRidOf(recs, sl, o) = x.record_id
         /\ \/ LiveRidOf(recs, sl, o) = 0
            \/ \E x \in Content(recs) : Live(x) /\ x.owner = o /\ x.record_id = LiveRidOf(recs, sl, o)
<1> DEFINE n == Len(recs)
           v == LiveRidOf(recs, sl, o)
<1>0. recs \in Seq(RecordType) /\ n \in Nat /\ sl \in 0..n /\ DOMAIN recs = 1..n
  BY DEF VecOK, SlotOK
<1>1. /\ \A i \in 1..n : (Live(recs[i]) /\ recs[i].owner = Serial) <=> sl = i
      /\ \A i, j \in 1..n : Live(recs[i]) /\ Live(recs[j]) /\ recs[i].owner = recs[j].owner => i = j
  BY DEF VecOK, SlotOK, OneLive
<1>2. /\ \A i \in 1..n : Live(recs[i]) /\ recs[i].owner = o => v = recs[i].record_id
      /\ v = 0 \/ \E i \in 1..n : Live(recs[i]) /\ recs[i].owner = o /\ v = recs[i].record_id
  <2>1. CASE o = Serial
    <3>1. v = IF sl = 0 THEN 0 ELSE recs[sl].record_id
      BY <2>1 DEF LiveRidOf, None
    <3>2. sl # 0 => sl \in 1..n
      BY <1>0
    <3>3. 0 \notin 1..n
      BY <1>0
    <3> HIDE DEF v, n
    <3> QED BY <1>1, <2>1, <3>1, <3>2, <3>3
  <2>2. CASE o # Serial
    <3> DEFINE hits == {i \in LiveIdx(recs) : recs[i].owner = o}
               c == CHOOSE i \in hits : TRUE
    <3>1. v = IF hits = {} THEN 0 ELSE IF c = 0 THEN 0 ELSE recs[c].record_id
      BY <2>2 DEF LiveRidOf, None
    <3>2. \A i \in 1..n : i \in hits <=> Live(recs[i]) /\ recs[i].owner = o
      BY <1>0 DEF LiveIdx
    <3>3. hits \subseteq 1..n
      BY <1>0 DEF LiveIdx
    <3>4. hits # {} => c \in hits
      OBVIOUS
    <3>5. 0 \notin 1..n
      BY <1>0
    <3> HIDE DEF v, n, hits, c
    <3>6. CASE hits = {}
      BY <3>1, <3>2, <3>6
    <3>7. CASE hits # {}
      <4>1. c \in 1..n /\ v = recs[c].record_id /\ Live(recs[c]) /\ recs[c].owner = o
        BY <3>1, <3>2, <3>3, <3>4, <3>5, <3>7
      <4> QED BY <1>1, <4>1
    <3> QED BY <3>6, <3>7
  <2> QED BY <2>1, <2>2
<1> HIDE DEF v
<1> QED BY <1>2 DEF Content, v

LEMMA RefsAtIs ==
  ASSUME NEW recs, NEW sl, VecOK(recs, sl)
  PROVE  \A x \in Content(recs) : RefsAt(recs, x.record_id) = x.hard_refs
<1> SUFFICES ASSUME NEW k \in 1..Len(recs) PROVE RefsAt(recs, recs[k].record_id) = recs[k].hard_refs
  BY DEF Content
<1>1. DOMAIN recs = 1..Len(recs)
  BY DEF VecOK
<1> DEFINE c == CHOOSE i \in 1..Len(recs) : recs[i].record_id = recs[k].record_id
<1>2. c \in 1..Len(recs) /\ recs[c].record_id = recs[k].record_id
  OBVIOUS
<1>3. RefsAt(recs, recs[k].record_id) = recs[c].hard_refs
  BY <1>1 DEF RefsAt
<1> HIDE DEF c
<1>4. c = k
  BY <1>2, UniqueIds
<1> QED BY <1>3, <1>4

\* A change that keeps ids, and keeps or lapses liveness.
LEMMA AgedMaps ==
  ASSUME NEW old, NEW osl, VecOK(old, osl), NEW new, NEW nsl, VecOK(new, nsl), Aged(new, old)
  PROVE  /\ RidsIn(new) = RidsIn(old) /\ RefsMap(new) = RefsMap(old)
         /\ \A o \in Owners : LiveMap(new, nsl)[o] \in {0, LiveMap(old, osl)[o]}
<1>1. \A i \in 1..Len(old) : /\ new[i].record_id = old[i].record_id /\ new[i].hard_refs = old[i].hard_refs
                             /\ new[i].owner = old[i].owner /\ (Live(new[i]) => new[i] = old[i])
  <2> SUFFICES ASSUME NEW i \in 1..Len(old)
               PROVE  /\ new[i].record_id = old[i].record_id /\ new[i].hard_refs = old[i].hard_refs
                      /\ new[i].owner = old[i].owner /\ (Live(new[i]) => new[i] = old[i])
    OBVIOUS
  <2>1. old[i] \in RecordType /\ new[i] \in {old[i], Replay(old[i])}
    BY DEF Aged, VecOK
  <2> QED BY <2>1, ReplayFields
<1>2. Len(new) = Len(old)
  BY DEF Aged
<1>3. RidsIn(new) = RidsIn(old)
  BY <1>1, <1>2 DEF RidsIn, Content
<1>4. \A r \in RidsIn(old) : RefsAt(new, r) = RefsAt(old, r)
  <2> SUFFICES ASSUME NEW i \in 1..Len(old) PROVE RefsAt(new, old[i].record_id) = RefsAt(old, old[i].record_id)
    BY DEF RidsIn, Content
  <2>1. RefsAt(old, old[i].record_id) = old[i].hard_refs
    BY RefsAtIs DEF Content
  <2>2. RefsAt(new, new[i].record_id) = new[i].hard_refs
    BY <1>2, RefsAtIs DEF Content
  <2> QED BY <1>1, <2>1, <2>2
<1>5. RefsMap(new) = RefsMap(old)
  BY <1>3, <1>4 DEF RefsMap
<1>6. ASSUME NEW o \in Owners PROVE LiveRidOf(new, nsl, o) \in {0, LiveRidOf(old, osl, o)}
  <2>1. CASE LiveRidOf(new, nsl, o) = 0
    BY <2>1
  <2>2. CASE LiveRidOf(new, nsl, o) # 0
    <3>1. PICK x \in Content(new) : Live(x) /\ x.owner = o /\ x.record_id = LiveRidOf(new, nsl, o)
      BY <2>2, LiveRidIs
    <3>2. x \in Content(old)
      BY <1>1, <1>2, <3>1 DEF Content
    <3>3. LiveRidOf(old, osl, o) = x.record_id
      BY <3>1, <3>2, LiveRidIs
    <3> QED BY <3>1, <3>3
  <2> QED BY <2>1, <2>2
<1> QED BY <1>3, <1>5, <1>6 DEF LiveMap

\* One that changes only counts and deadlines.
LEMMA SameShapeMaps ==
  ASSUME NEW old, NEW sl, VecOK(old, sl), NEW new, VecOK(new, sl), SameShape(new, old)
  PROVE  /\ RidsIn(new) = RidsIn(old) /\ LiveMap(new, sl) = LiveMap(old, sl)
         /\ \A i \in 1..Len(old) : /\ RefsMap(new)[old[i].record_id] = new[i].hard_refs
                                   /\ RefsMap(old)[old[i].record_id] = old[i].hard_refs
<1>1. \A i \in 1..Len(old) : /\ new[i].record_id = old[i].record_id /\ new[i].owner = old[i].owner
                             /\ Live(new[i]) <=> Live(old[i])
  BY DEF SameShape, Live
<1>2. Len(new) = Len(old)
  BY DEF SameShape
<1>3. RidsIn(new) = RidsIn(old)
  BY <1>1, <1>2 DEF RidsIn, Content
<1>4. ASSUME NEW i \in 1..Len(old)
      PROVE  /\ RefsMap(new)[old[i].record_id] = new[i].hard_refs
             /\ RefsMap(old)[old[i].record_id] = old[i].hard_refs
  <2>1. RefsAt(old, old[i].record_id) = old[i].hard_refs
    BY RefsAtIs DEF Content
  <2>2. RefsAt(new, new[i].record_id) = new[i].hard_refs
    BY <1>2, RefsAtIs DEF Content
  <2>3. old[i].record_id \in RidsIn(old)
    BY DEF RidsIn, Content
  <2> QED BY <1>1, <1>3, <2>1, <2>2, <2>3 DEF RefsMap
<1>5. ASSUME NEW o \in Owners PROVE LiveRidOf(new, sl, o) = LiveRidOf(old, sl, o)
  <2>1. CASE LiveRidOf(new, sl, o) # 0
    <3>1. PICK x \in Content(new) : Live(x) /\ x.owner = o /\ x.record_id = LiveRidOf(new, sl, o)
      BY <2>1, LiveRidIs
    <3>2. PICK i \in 1..Len(old) : x = new[i]
      BY <1>2, <3>1 DEF Content
    <3>3. old[i] \in Content(old) /\ Live(old[i]) /\ old[i].owner = o /\ old[i].record_id = x.record_id
      BY <1>1, <3>1, <3>2 DEF Content
    <3> QED BY <3>1, <3>3, LiveRidIs
  <2>2. CASE LiveRidOf(old, sl, o) # 0
    <3>1. PICK x \in Content(old) : Live(x) /\ x.owner = o /\ x.record_id = LiveRidOf(old, sl, o)
      BY <2>2, LiveRidIs
    <3>2. PICK i \in 1..Len(old) : x = old[i]
      BY <3>1 DEF Content
    <3>3. new[i] \in Content(new) /\ Live(new[i]) /\ new[i].owner = o /\ new[i].record_id = x.record_id
      BY <1>1, <1>2, <3>1, <3>2 DEF Content
    <3> QED BY <3>1, <3>3, LiveRidIs
  <2> QED BY <2>1, <2>2
<1> QED BY <1>3, <1>4, <1>5 DEF LiveMap

\* The refinement mapping, in those terms.
LEMMA MapNow ==
  ASSUME DOMAIN records = 1..Len(records)
  PROVE  /\ RecordIds = RidsIn(records) /\ [o \in Owners |-> LiveRid(o)] = LiveMap(records, serial_live)
         /\ [r \in RecordIds |-> RefsOf(r)] = RefsMap(records)
<1>1. RecordIds = RidsIn(records)
  BY DEF RecordIds, RidsIn, Content
<1>2. \A o : LiveRid(o) = LiveRidOf(records, serial_live, o)
  BY DEF LiveRid, LiveRidOf, RidAt
<1>3. \A r : RefsOf(r) = RefsAt(records, r)
  BY DEF RefsOf, RefsAt
<1> QED BY <1>1, <1>2, <1>3 DEF LiveMap, RefsMap

LEMMA MapNext ==
  ASSUME DOMAIN records' = 1..Len(records')
  PROVE  /\ RecordIds' = RidsIn(records') /\ [o \in Owners |-> LiveRid(o)]' = LiveMap(records', serial_live')
         /\ [r \in RecordIds |-> RefsOf(r)]' = RefsMap(records')
<1>1. RecordIds' = RidsIn(records')
  BY DEF RecordIds, RidsIn, Content
<1>2. \A o : LiveRid(o)' = LiveRidOf(records', serial_live', o)
  BY DEF LiveRid, LiveRidOf, RidAt
<1>3. \A r : RefsOf(r)' = RefsAt(records', r)
  BY DEF RefsOf, RefsAt
<1> QED BY <1>1, <1>2, <1>3 DEF LiveMap, RefsMap

LEMMA TableInit == Init => Table!TInit
<1> SUFFICES ASSUME Init PROVE Table!TInit
  OBVIOUS
<1>0. RegInv
  BY InitInv
<1>1. records = <<>> /\ serial_live = 0 /\ next_record_id = 1 /\ pin = [l \in Leases |-> 0]
      /\ Len(records) = 0 /\ 1..0 = {} /\ DOMAIN records = 1..Len(records)
  BY DEF Init, None
<1>2. Content(records) = {} /\ RidsIn(records) = {}
  BY <1>1 DEF Content, RidsIn
<1>3. RefsMap(records) = [r \in {} |-> 0]
  BY <1>2 DEF RefsMap
<1>4. LiveMap(records, serial_live) = [o \in Owners |-> 0]
  <2>1. \A o : LiveRidOf(records, serial_live, o) = 0
    BY <1>0, <1>2, LiveRidIs DEF RegInv
  <2> QED BY <2>1 DEF LiveMap
<1> QED BY <1>1, <1>2, <1>3, <1>4, MapNow DEF Table!TInit, Table!None

\* Expiry and demotion: the owners whose record lapsed.
LEMMA TableLapse == ASSUME RegInv, RegInv', demote_serial \/ Query PROVE Table!TNext
<1>1. /\ Aged(records', records) /\ VecOK(records', serial_live') /\ VecOK(records, serial_live)
      /\ UNCHANGED <<next_record_id, pin>>
      /\ DOMAIN records = 1..Len(records) /\ DOMAIN records' = 1..Len(records')
  BY LapseFacts, RegInvFacts DEF RegInv, VecOK
<1> DEFINE a == LiveMap(records, serial_live)
           b == LiveMap(records', serial_live')
           S == {o \in Owners : b[o] # a[o]}
<1>2. /\ RidsIn(records') = RidsIn(records) /\ RefsMap(records') = RefsMap(records)
      /\ \A o \in Owners : b[o] \in {0, a[o]}
  BY <1>1, AgedMaps
<1>3. b = [o \in Owners |-> b[o]]
  BY DEF LiveMap
<1>4. /\ RecordIds = RidsIn(records) /\ [o \in Owners |-> LiveRid(o)] = a
      /\ [r \in RecordIds |-> RefsOf(r)] = RefsMap(records)
      /\ RecordIds' = RidsIn(records') /\ [o \in Owners |-> LiveRid(o)]' = b
      /\ [r \in RecordIds |-> RefsOf(r)]' = RefsMap(records')
  BY <1>1, MapNow, MapNext
<1> HIDE DEF a, b
<1>5. b = [o \in Owners |-> IF o \in S THEN 0 ELSE a[o]]
  BY <1>2, <1>3
<1>6. Table!TLapse(S)
  <2> HIDE DEF S
  <2> QED BY <1>1, <1>2, <1>4, <1>5 DEF Table!TLapse, Table!Lapsed, Table!None
<1>7. S \in SUBSET Owners
  OBVIOUS
<1> QED BY <1>6, <1>7 DEF Table!TNext

LEMMA TableUnpin == ASSUME RegInv, RegInv', NEW l \in Leases, Unpin(l) PROVE Table!TNext
<1> DEFINE n == Len(records)
           r == pin[l]
           f == RefsMap(records)
           g == RefsMap(records')
<1>1. /\ r # 0 /\ SameShape(records', records)
      /\ \A j \in 1..n : records'[j].hard_refs = IF records[j].record_id = r THEN records[j].hard_refs - 1
                                                 ELSE records[j].hard_refs
      /\ pin' = [pin EXCEPT ![l] = 0] /\ UNCHANGED <<serial_live, next_record_id>>
  BY UnpinFacts DEF None
<1>2. VecOK(records, serial_live) /\ VecOK(records', serial_live)
      /\ DOMAIN records = 1..Len(records) /\ DOMAIN records' = 1..Len(records')
  BY <1>1, RegInvFacts DEF RegInv, VecOK
<1>3. /\ RidsIn(records') = RidsIn(records)
      /\ LiveMap(records', serial_live') = LiveMap(records, serial_live)
      /\ \A j \in 1..n : g[records[j].record_id] = records'[j].hard_refs /\ f[records[j].record_id] = records[j].hard_refs
  BY <1>1, <1>2, SameShapeMaps
<1>4. f = [q \in RidsIn(records) |-> f[q]] /\ g = [q \in RidsIn(records) |-> g[q]]
  BY <1>3 DEF RefsMap
<1>5. /\ RecordIds = RidsIn(records) /\ [o \in Owners |-> LiveRid(o)] = LiveMap(records, serial_live)
      /\ [q \in RecordIds |-> RefsOf(q)] = f
      /\ RecordIds' = RidsIn(records') /\ [o \in Owners |-> LiveRid(o)]' = LiveMap(records', serial_live')
      /\ [q \in RecordIds |-> RefsOf(q)]' = g
  BY <1>2, MapNow, MapNext
<1> HIDE DEF f, g
<1>6. \A q \in RidsIn(records) : g[q] = IF q = r THEN f[q] - 1 ELSE f[q]
  <2> SUFFICES ASSUME NEW j \in 1..n, NEW q, q = records[j].record_id PROVE g[q] = IF q = r THEN f[q] - 1 ELSE f[q]
    BY DEF RidsIn, Content
  <2> QED BY <1>1, <1>3
<1>7. g = [f EXCEPT ![r] = f[r] - 1]
  <2> HIDE DEF r
  <2> QED BY <1>4, <1>6
<1>8. Table!TUnpin(l)
  BY <1>1, <1>3, <1>5, <1>7 DEF Table!TUnpin, Table!None
<1> QED BY <1>8 DEF Table!TNext

LEMMA TablePin ==
  ASSUME RegInv, RegInv', NEW l \in Leases, NEW p \in Protocols, NEW id \in Ids, PinLive(l, p, id)
  PROVE  Table!TNext
<1>0. PICK e : \E k \in 1..Len(records) : PinStep(l, e, k)
  BY PinFacts
<1>00. PICK i \in 1..Len(records) : PinStep(l, e, i)
  BY <1>0
<1> DEFINE r == e[i].record_id
           o == e[i].owner
           a == LiveMap(records, serial_live)
           b == LiveMap(e, serial_live')
           f == RefsMap(records)
           g == RefsMap(records')
           S == {q \in Owners : b[q] # a[q]}
<1>1. /\ Aged(e, records) /\ VecOK(e, serial_live') /\ Live(e[i]) /\ pin[l] = 0 /\ SameShape(records', e)
      /\ \A j \in 1..Len(e) : j # i => records'[j] = e[j]
      /\ records'[i].hard_refs = e[i].hard_refs + 1 /\ pin' = [pin EXCEPT ![l] = r]
      /\ UNCHANGED next_record_id
  BY <1>00 DEF PinStep, None
<1>2. /\ VecOK(records, serial_live) /\ VecOK(records', serial_live') /\ Len(e) = Len(records)
      /\ DOMAIN records = 1..Len(records) /\ DOMAIN records' = 1..Len(records') /\ i \in 1..Len(e)
      /\ e[i] \in RecordType /\ e[i] \in Content(e)
  BY <1>1, RegInvFacts DEF RegInv, VecOK, Aged, Content
<1>3. /\ RidsIn(e) = RidsIn(records) /\ RefsMap(e) = f /\ \A q \in Owners : b[q] \in {0, a[q]}
  BY <1>1, <1>2, AgedMaps
<1>4. /\ RidsIn(records') = RidsIn(e) /\ LiveMap(records', serial_live') = b
      /\ \A j \in 1..Len(e) : g[e[j].record_id] = records'[j].hard_refs /\ RefsMap(e)[e[j].record_id] = e[j].hard_refs
  BY <1>1, <1>2, SameShapeMaps
<1>5. o \in Owners /\ b[o] = r /\ r # 0 /\ b = [q \in Owners |-> b[q]]
  <2>1. o \in Owners /\ r # 0
    BY <1>2, FieldTypes
  <2>2. LiveRidOf(e, serial_live', o) = r
    BY <1>1, <1>2, LiveRidIs
  <2> QED BY <2>1, <2>2 DEF LiveMap
<1>6. f = [q \in RidsIn(records) |-> f[q]] /\ g = [q \in RidsIn(records) |-> g[q]]
  BY <1>3, <1>4 DEF RefsMap
<1>7. /\ RecordIds = RidsIn(records) /\ [q \in Owners |-> LiveRid(q)] = a
      /\ [q \in RecordIds |-> RefsOf(q)] = f
      /\ RecordIds' = RidsIn(records') /\ [q \in Owners |-> LiveRid(q)]' = LiveMap(records', serial_live')
      /\ [q \in RecordIds |-> RefsOf(q)]' = g
  BY <1>2, MapNow, MapNext
<1>8. \A j \in 1..Len(e) : e[j].record_id = r => j = i
  BY <1>1, <1>2, UniqueIds
<1> HIDE DEF a, b, f, g, r, o
<1>9. \A q \in RidsIn(records) : g[q] = IF q = r THEN f[q] + 1 ELSE f[q]
  <2> SUFFICES ASSUME NEW j \in 1..Len(e), NEW q, q = e[j].record_id PROVE g[q] = IF q = r THEN f[q] + 1 ELSE f[q]
    <3>1. \A q \in RidsIn(e) : \E j \in 1..Len(e) : q = e[j].record_id
      BY DEF RidsIn, Content
    <3> QED BY <1>3, <3>1
  <2>1. g[q] = records'[j].hard_refs /\ f[q] = e[j].hard_refs
    BY <1>3, <1>4
  <2>2. CASE j = i
    BY <1>1, <2>1, <2>2 DEF r
  <2>3. CASE j # i
    BY <1>1, <1>8, <2>1, <2>3
  <2> QED BY <2>2, <2>3
<1>10. g = [f EXCEPT ![r] = f[r] + 1]
  BY <1>6, <1>9
<1>11. a[o] = r
  BY <1>3, <1>5
<1>12. b = [q \in Owners |-> IF q \in S THEN 0 ELSE a[q]] /\ o \notin S /\ S \in SUBSET Owners
  BY <1>3, <1>5, <1>11
<1> HIDE DEF S
<1>13. Table!TPin(l, o, S)
  BY <1>1, <1>3, <1>4, <1>5, <1>7, <1>10, <1>11, <1>12 DEF Table!TPin, Table!Lapsed, Table!None
<1> QED BY <1>5, <1>12, <1>13 DEF Table!TNext

LEMMA TablePublish ==
  ASSUME RegInv, RegInv', NEW o \in Owners, NEW p \in Protocols, NEW ids \in IdLists, Publish(o, p, ids)
  PROVE  Table!TNext
<1> DEFINE x == NewRecord(next_record_id, p, ids, o, native[o], now)
           C == Content(records)
           D == Content(records')
           K == RidsIn(records)
           L == RidsIn(records')
           a == LiveMap(records, serial_live)
           b == LiveMap(records', serial_live')
           f == RefsMap(records)
           g == RefsMap(records')
           nx == next_record_id
           drop == (K \cup {nx}) \ L
<1>1. /\ x \in D /\ x.record_id = nx /\ x.owner = o /\ Live(x) /\ x.hard_refs = 0
      /\ \A y \in D : y = x \/ \E z \in C : y = Sup(z, o)
      /\ \A z \in C : Sup(z, o) \in D \/ (~Live(Sup(z, o)) /\ z.hard_refs = 0)
  <2>1. x = NewRecord(next_record_id, p, ids, o, native[o], now)
    OBVIOUS
  <2> HIDE DEF x
  <2> QED BY <2>1, PublishFacts
<1>2. /\ VecOK(records, serial_live) /\ VecOK(records', serial_live')
      /\ DOMAIN records = 1..Len(records) /\ DOMAIN records' = 1..Len(records')
      /\ nx <= MaxRid /\ nx' = nx + 1 /\ pin' = pin /\ nx # 0
  BY RegInvFacts DEF RegInv, VecOK, Publish, RestOK
<1>3. \A z \in C : z \in RecordType /\ z.record_id # nx /\ z.record_id # 0
  <2>1. \A z \in C : z \in RecordType /\ z.record_id < nx
    BY RegInvFacts, ContentTypes DEF RegInv, PinsOK, Fresh
  <2>2. nx \in Nat
    BY RegInvFacts
  <2> QED BY <2>1, <2>2, FieldTypes
<1>4. /\ RecordIds = K /\ [q \in Owners |-> LiveRid(q)] = a /\ [q \in RecordIds |-> RefsOf(q)] = f
      /\ RecordIds' = L /\ [q \in Owners |-> LiveRid(q)]' = b /\ [q \in RecordIds |-> RefsOf(q)]' = g
  BY <1>2, MapNow, MapNext
<1>5. /\ \A z \in C : z.record_id \in K /\ f[z.record_id] = z.hard_refs
      /\ \A y \in D : y.record_id \in L /\ g[y.record_id] = y.hard_refs
      /\ \A q \in K : \E z \in C : q = z.record_id
      /\ \A q \in L : \E y \in D : q = y.record_id
      /\ g = [q \in L |-> g[q]]
  <2>1. \A z \in C : RefsAt(records, z.record_id) = z.hard_refs
    BY <1>2, RefsAtIs
  <2>2. \A y \in D : RefsAt(records', y.record_id) = y.hard_refs
    BY <1>2, RefsAtIs
  <2> QED BY <2>1, <2>2 DEF RefsMap, RidsIn
<1>6. /\ \A q \in Owners : \A z \in C : Live(z) /\ z.owner = q => a[q] = z.record_id
      /\ \A q \in Owners : a[q] = 0 \/ \E z \in C : Live(z) /\ z.owner = q /\ z.record_id = a[q]
  BY <1>2, LiveRidIs DEF LiveMap
<1>7. /\ \A q \in Owners : \A y \in D : Live(y) /\ y.owner = q => b[q] = y.record_id
      /\ \A q \in Owners : b[q] = 0 \/ \E y \in D : Live(y) /\ y.owner = q /\ y.record_id = b[q]
      /\ b = [q \in Owners |-> b[q]] /\ a = [q \in Owners |-> a[q]]
  BY <1>2, LiveRidIs DEF LiveMap
<1> HIDE DEF x, C, D, K, L, a, b, f, g
<1>8. \A q \in Owners : b[q] = IF q = o THEN nx ELSE a[q]
  <2> SUFFICES ASSUME NEW q \in Owners, q # o PROVE b[q] = a[q]
    BY <1>1, <1>7
  <2>1. CASE b[q] # 0
    <3>1. PICK y \in D : Live(y) /\ y.owner = q /\ y.record_id = b[q]
      BY <1>7, <2>1
    <3>2. PICK z \in C : y = Sup(z, o)
      BY <1>1, <3>1
    <3>3. Live(z) /\ z.owner = q /\ z.record_id = b[q]
      BY <1>3, <3>1, <3>2, SupFields
    <3> QED BY <1>6, <3>3
  <2>2. CASE a[q] # 0
    <3>1. PICK z \in C : Live(z) /\ z.owner = q /\ z.record_id = a[q]
      BY <1>6, <2>2
    <3>2. Sup(z, o) = z
      BY <3>1 DEF Sup
    <3>3. z \in D
      BY <1>1, <3>1, <3>2
    <3> QED BY <1>7, <3>1, <3>3
  <2> QED BY <2>1, <2>2
<1>9. b = [a EXCEPT ![o] = nx]
  BY <1>7, <1>8
<1>10. L \subseteq K \cup {nx} /\ L = (K \cup {nx}) \ drop /\ drop \subseteq K \cup {nx}
  <2>1. ASSUME NEW q \in L PROVE q \in K \cup {nx}
    <3>1. PICK y \in D : q = y.record_id
      BY <1>5
    <3>2. CASE y = x
      BY <1>1, <3>1, <3>2
    <3>3. ASSUME NEW z \in C, y = Sup(z, o) PROVE q \in K
      BY <1>3, <1>5, <3>1, <3>3, SupFields
    <3> QED BY <1>1, <3>2, <3>3
  <2> QED BY <2>1
<1>11. ASSUME NEW q \in drop PROVE (\A w \in Owners : b[w] # q) /\ (q \in K => f[q] = 0)
  <2>0. q \notin L /\ q # nx /\ q \in K
    BY <1>1, <1>5
  <2>1. PICK z \in C : q = z.record_id
    BY <1>5, <2>0
  <2>2. Sup(z, o) \notin D
    BY <1>3, <1>5, <2>0, <2>1, SupFields
  <2>3. f[q] = 0
    BY <1>1, <1>5, <2>1, <2>2
  <2>4. ASSUME NEW w \in Owners, b[w] = q PROVE FALSE
    <3>1. q # 0
      BY <1>3, <2>1
    <3>2. PICK y \in D : y.record_id = q
      BY <1>7, <2>4, <3>1
    <3> QED BY <1>5, <2>0, <3>2
  <2> QED BY <2>3, <2>4
<1>12. g = [q \in (K \cup {nx}) \ drop |-> IF q = nx THEN 0 ELSE f[q]]
  <2>1. ASSUME NEW q \in L PROVE g[q] = IF q = nx THEN 0 ELSE f[q]
    <3>1. PICK y \in D : q = y.record_id
      BY <1>5
    <3>2. CASE y = x
      BY <1>1, <1>5, <3>1, <3>2
    <3>3. ASSUME NEW z \in C, y = Sup(z, o) PROVE g[q] = f[q] /\ q # nx
      BY <1>3, <1>5, <3>1, <3>3, SupFields
    <3> QED BY <1>1, <3>2, <3>3
  <2> QED BY <1>5, <1>10, <2>1
<1> HIDE DEF drop
<1>13. Table!TPublish(o, drop)
  <2> DEFINE nl == [a EXCEPT ![o] = nx]
  <2>1. \A q \in drop : (\A w \in Owners : nl[w] # q) /\ (q \in K => f[q] = 0)
    BY <1>9, <1>11
  <2> HIDE DEF nl
  <2>2. \A q \in drop : Table!Forgettable(q, nl)
    BY <1>4, <2>1 DEF Table!Forgettable
  <2>3. nl = [a EXCEPT ![o] = nx] /\ b = nl
    BY <1>9 DEF nl
  <2> QED BY <1>2, <1>4, <1>10, <1>12, <2>2, <2>3 DEF Table!TPublish
<1>14. drop \in SUBSET (RecordIds \cup {next_record_id})
  BY <1>4, <1>10
<1> QED BY <1>13, <1>14 DEF Table!TNext

LEMMA TableStep == RegInv /\ RegInv' /\ [Next]_vars => [Table!TNext]_Table!tvars
<1> SUFFICES ASSUME RegInv, RegInv', [Next]_vars PROVE [Table!TNext]_Table!tvars
  OBVIOUS
<1>1. ASSUME NEW o \in Owners, NEW p \in Protocols, NEW ids \in IdLists, Publish(o, p, ids) PROVE Table!TNext
  BY <1>1, TablePublish
<1>2. ASSUME demote_serial \/ Query PROVE Table!TNext
  BY <1>2, TableLapse
<1>3. ASSUME NEW l \in Leases, NEW p \in Protocols, NEW id \in Ids, PinLive(l, p, id) PROVE Table!TNext
  BY <1>3, TablePin
<1>4. ASSUME NEW l \in Leases, Unpin(l) PROVE Table!TNext
  BY <1>4, TableUnpin
<1>5. ASSUME UNCHANGED <<records, serial_live, next_record_id, pin>> PROVE UNCHANGED Table!tvars
  <2>1. DOMAIN records = 1..Len(records) /\ DOMAIN records' = 1..Len(records')
    BY <1>5, RegInvFacts
  <2>2. /\ RecordIds = RidsIn(records) /\ [q \in Owners |-> LiveRid(q)] = LiveMap(records, serial_live)
        /\ [q \in RecordIds |-> RefsOf(q)] = RefsMap(records)
    BY <2>1, MapNow
  <2>3. /\ RecordIds' = RidsIn(records') /\ [q \in Owners |-> LiveRid(q)]' = LiveMap(records', serial_live')
        /\ [q \in RecordIds |-> RefsOf(q)]' = RefsMap(records')
    BY <2>1, MapNext
  <2> QED BY <1>5, <2>2, <2>3 DEF Table!tvars
<1>6. ASSUME NEW o \in Owners, Advance(o) PROVE UNCHANGED <<records, serial_live, next_record_id, pin>>
  BY <1>6 DEF Advance
<1>7. Tick \/ UNCHANGED vars => UNCHANGED <<records, serial_live, next_record_id, pin>>
  BY DEF Tick, vars
<1> QED BY <1>1, <1>2, <1>3, <1>4, <1>5, <1>6, <1>7 DEF Next

\* Every operation on the vector, its pruning loop, index arithmetic and
\* clock included, is a step of the abstract table.
THEOREM RegistryImplementsTable == Spec => ImplementsTable
<1>1. Init => RegInv /\ Table!TInit
  BY InitInv, TableInit
<1>2. RegInv /\ [Next]_vars => RegInv'
  BY StepInv
<1>3. RegInv /\ RegInv' /\ [Next]_vars => [Table!TNext]_Table!tvars
  BY TableStep
<1>4. Spec => Table!TInit /\ [][Table!TNext]_Table!tvars
  BY <1>1, <1>2, <1>3, PTL DEF Spec
<1> QED BY <1>4 DEF ImplementsTable, Table!TSpec

LEMMA InvPromise == RegInv => PinPromise
<1> SUFFICES ASSUME RegInv PROVE PinPromise
  OBVIOUS
<1>1. DOMAIN records = 1..Len(records) /\ VecOK(records, serial_live)
  BY RegInvFacts DEF RegInv
<1>2. RecordIds = RidsIn(records) /\ [q \in RecordIds |-> RefsOf(q)] = RefsMap(records)
  BY <1>1, MapNow
<1>3. \A z \in Content(records) : /\ z.record_id \in RidsIn(records) /\ RefsMap(records)[z.record_id] = z.hard_refs
                                  /\ z.hard_refs = Cardinality(Holders(pin, z.record_id))
  <2>1. \A z \in Content(records) : RefsAt(records, z.record_id) = z.hard_refs
    BY <1>1, RefsAtIs
  <2> QED BY <2>1 DEF RefsMap, RidsIn, RegInv, PinsOK, RefsExact
<1>4. \A q \in RecordIds : RefsMap(records)[q] = Cardinality({l \in Leases : pin[l] = q})
  <2> SUFFICES ASSUME NEW z \in Content(records)
               PROVE  RefsMap(records)[z.record_id] = Cardinality({l \in Leases : pin[l] = z.record_id})
    BY <1>2 DEF RidsIn
  <2> QED BY <1>3 DEF Holders
<1>5. Table!RefsAreHolders
  <2>1. \A q \in RecordIds : [w \in RecordIds |-> RefsOf(w)][q] = Cardinality({l \in Leases : pin[l] = q})
    BY <1>2, <1>4
  <2>2. \A T : Table!Cardinality(T) = Cardinality(T)
    BY DEF Table!Cardinality, Cardinality
  <2> QED BY <2>1, <2>2 DEF Table!RefsAreHolders
<1>6. Table!HeldAreKnown
  BY <1>2, <1>3 DEF Table!HeldAreKnown, Table!None, RegInv, PinsOK, PinsKnown, None
<1> QED BY <1>5, <1>6 DEF PinPromise, Table!PinPromise

\* The hard references of a record are exactly the leases that pinned it,
\* and what a lease pinned is never pruned.
THEOREM PinPromiseHolds == Spec => []PinPromise
BY RegistryInvariant, InvPromise, PTL

-----------------------------------------------------------------------------
(* The time windows. *)

LEMMA DivBounds ==
  ASSUME NEW a \in Nat, NEW b \in Nat, b > 0
  PROVE  a \div b \in Nat /\ (a \div b) * b <= a /\ a < (a \div b) * b + b
OBVIOUS

\* Waiting Retry(left) seconds and a millisecond is waiting at least left;
\* waiting a second less is not enough, unless it is the least answer of 1.
LEMMA RetryCovers ==
  ASSUME NEW left \in Nat
  PROVE  /\ Retry(left) \in Nat /\ Retry(left) > 0 /\ Millisecond \in Nat
         /\ left <= Retry(left) * TickHz + Millisecond
         /\ Retry(left) > 1 => left > (Retry(left) - 1) * TickHz
<1> DEFINE a == left * 1000 + 999 * TickHz
           b == 1000 * TickHz
           q == a \div b
           ms == Millisecond
<1>0. TickHz \in Nat /\ TickHz > 0
  BY LimitsAssumption
<1>1. a \in Nat /\ b \in Nat /\ b > 0
  BY <1>0
<1>2. q \in Nat /\ q * b <= a /\ a < q * b + b
  <2> HIDE DEF a, b
  <2> QED BY <1>1, DivBounds
<1>3. Retry(left) = IF 1 > q THEN 1 ELSE q
  BY DEF Retry, Max2
<1>9. ms \in Nat /\ TickHz < ms * 1000 + 1000
  BY <1>0, DivBounds DEF Millisecond
<1> HIDE DEF q, ms
<1> DEFINE m == q * TickHz
<1>4. q * b = 1000 * m /\ m \in Nat /\ (q - 1) * TickHz = m - TickHz
  BY <1>0, <1>2
<1>5. left <= m + ms /\ left > m - TickHz
  <2>1. 1000 * m <= a /\ a < 1000 * m + b /\ m \in Nat
    BY <1>2, <1>4
  <2> HIDE DEF m
  <2> QED BY <1>0, <1>9, <2>1
<1>6. q >= 1 \/ q = 0
  BY <1>2
<1>7. CASE q = 0
  <2>1. m = 0
    BY <1>0, <1>7
  <2>2. left <= ms /\ Retry(left) = 1
    BY <1>3, <1>5, <1>7, <1>9, <2>1
  <2> QED BY <1>0, <1>9, <2>2 DEF ms
<1>8. CASE q >= 1
  <2>1. Retry(left) = q
    BY <1>2, <1>3, <1>8
  <2> QED BY <1>2, <1>4, <1>5, <1>8, <1>9, <2>1 DEF ms
<1> QED BY <1>6, <1>7, <1>8

\* A window or a pin that is not over leaves something to wait for.
LEMMA LeftPositive ==
  ASSUME NEW rec \in RecordType, NEW w \in Nat, NEW t \in Nat, NEW left, NEW pl, NEW wl,
         wl = IF w > 0 THEN w - (t - rec.publish_time) ELSE 0,
         pl = IF Pinned(rec, t) THEN rec.pin_expiry - t ELSE 0,
         left = Max2(wl, pl), wl > 0 \/ Pinned(rec, t)
  PROVE  left \in Nat /\ left > 0 /\ left >= wl /\ left >= pl /\ wl \in Int /\ pl \in Nat
<1> DEFINE pt == rec.publish_time
           pe == rec.pin_expiry
           A == Pinned(rec, t)
<1>0. pt \in Nat /\ pe \in Nat /\ (A => t < pe)
  BY FieldTypes DEF Pinned
<1>1. /\ wl = (IF w > 0 THEN w - (t - pt) ELSE 0) /\ pl = (IF A THEN pe - t ELSE 0)
      /\ (wl > 0 \/ A) /\ left = IF wl > pl THEN wl ELSE pl
  BY DEF Max2
<1> HIDE DEF A, pt, pe
<1>2. wl \in Int /\ pl \in Nat
  <2>1. CASE A
    BY <1>0, <1>1, <2>1
  <2>2. CASE ~A
    BY <1>0, <1>1, <2>2
  <2> QED BY <2>1, <2>2
<1>3. CASE A
  <2>1. pl > 0
    BY <1>0, <1>1, <1>3
  <2> QED BY <1>1, <1>2, <2>1
<1>4. CASE ~A
  <2>1. pl = 0 /\ wl > 0
    BY <1>1, <1>4
  <2> QED BY <1>1, <1>2, <2>1
<1> QED BY <1>3, <1>4

\* What is left of a window and of a pin is over after that wait.
LEMMA WaitEnds ==
  ASSUME NEW rec \in RecordType, NEW w \in Nat, NEW t \in Nat, NEW left, NEW pl, NEW wl,
         wl = IF w > 0 THEN w - (t - rec.publish_time) ELSE 0,
         pl = IF Pinned(rec, t) THEN rec.pin_expiry - t ELSE 0,
         left = Max2(wl, pl), wl > 0 \/ Pinned(rec, t),
         NEW u \in Nat, u >= t + left
  PROVE  /\ ~Pinned(rec, u)
         /\ w > 0 => w - (u - rec.publish_time) <= 0 /\ ~(u - rec.publish_time < w)
<1> DEFINE pt == rec.publish_time
           pe == rec.pin_expiry
           pd(v) == Pinned(rec, v)
<1>0. pt \in Nat /\ pe \in Nat /\ PinDeadline \in Nat
  BY FieldTypes, LimitsAssumption
<1>1. (pd(t) => t < pe) /\ (pd(u) /\ u >= t => pd(t)) /\ (pd(u) => u < pe)
  <2>1. (pd(t) => t < pe) /\ (pd(u) => u < pe)
    BY DEF Pinned
  <2>2. ASSUME pd(u), u >= t PROVE pd(t)
    <3>1. t < pe
      BY <1>0, <2>1, <2>2
    <3> QED BY <2>2, <3>1 DEF Pinned
  <2> QED BY <2>1, <2>2
<1>2. /\ wl = (IF w > 0 THEN w - (t - pt) ELSE 0) /\ pl = (IF pd(t) THEN pe - t ELSE 0)
      /\ (wl > 0 \/ pd(t)) /\ left = IF wl > pl THEN wl ELSE pl
  BY DEF Max2
<1> DEFINE A == pd(t)
           B == pd(u)
<1>3. /\ wl = (IF w > 0 THEN w - (t - pt) ELSE 0) /\ pl = (IF A THEN pe - t ELSE 0)
      /\ (wl > 0 \/ A) /\ left = (IF wl > pl THEN wl ELSE pl)
      /\ (A => t < pe) /\ (B /\ u >= t => A) /\ (B => u < pe) /\ u \in Nat /\ t \in Nat /\ w \in Nat
      /\ pt \in Nat /\ pe \in Nat /\ u >= t + left
  BY <1>0, <1>1, <1>2
<1> HIDE DEF A, B, pt, pe, pd
<1>5. left \in Nat /\ left > 0 /\ left >= wl /\ left >= pl /\ wl \in Int /\ pl \in Nat
  BY LeftPositive
<1>6. ~B
  <2> SUFFICES ASSUME B PROVE FALSE
    OBVIOUS
  <2>1. u >= t
    BY <1>3, <1>5
  <2>2. A /\ u < pe
    BY <1>3, <2>1
  <2>3. pl = pe - t
    BY <1>3, <2>2
  <2> QED BY <1>3, <1>5, <2>2, <2>3
<1>7. ASSUME w > 0 PROVE w - (u - pt) <= 0 /\ ~(u - pt < w)
  <2>1. wl = w - (t - pt)
    BY <1>3, <1>7
  <2> QED BY <1>3, <1>5, <2>1
<1> QED BY <1>6, <1>7 DEF B, pd, pt

\* Before that wait is over, the window or the pin that lasts longer is not.
LEMMA WaitNeeded ==
  ASSUME NEW rec \in RecordType, NEW w \in Nat, NEW t \in Nat, NEW left, NEW pl, NEW wl,
         wl = IF w > 0 THEN w - (t - rec.publish_time) ELSE 0,
         pl = IF Pinned(rec, t) THEN rec.pin_expiry - t ELSE 0,
         left = Max2(wl, pl), wl > 0 \/ Pinned(rec, t),
         NEW u \in Nat, u < t + left
  PROVE  Pinned(rec, u) \/ (w > 0 /\ w - (u - rec.publish_time) > 0 /\ u - rec.publish_time < w)
<1> DEFINE pt == rec.publish_time
           pe == rec.pin_expiry
           A == Pinned(rec, t)
           B == Pinned(rec, u)
<1>1. pt \in Nat /\ pe \in Nat
  BY FieldTypes
<1>2. A /\ u < pe => B
  BY DEF Pinned
<1>3. /\ wl = (IF w > 0 THEN w - (t - pt) ELSE 0) /\ pl = (IF A THEN pe - t ELSE 0)
      /\ (wl > 0 \/ A) /\ left = (IF wl > pl THEN wl ELSE pl) /\ u < t + left
  BY DEF Max2
<1>4. left \in Nat /\ left > 0 /\ wl \in Int /\ pl \in Nat
  BY LeftPositive
<1> HIDE DEF A, B, pt, pe
<1>5. CASE wl > pl
  <2>1. w > 0 /\ left = w - (t - pt)
    BY <1>3, <1>4, <1>5
  <2>2. w - (u - pt) > 0 /\ u - pt < w
    BY <1>1, <1>3, <2>1
  <2> QED BY <2>1, <2>2 DEF pt
<1>6. CASE ~(wl > pl)
  <2>1. left = pl /\ pl > 0
    BY <1>3, <1>4, <1>6
  <2>2. A /\ left = pe - t
    BY <1>3, <2>1
  <2>3. u < pe
    BY <1>1, <1>3, <2>2
  <2> QED BY <1>2, <2>2, <2>3 DEF B
<1> QED BY <1>5, <1>6

\* The serial record of an expired registry is the one cached before.
LEMMA ExpiredSlot ==
  ASSUME RegInv, NEW t \in Nat, NEW e, e = expire(Reg, t)
  PROVE  /\ VecOK(e.recs, e.sl) /\ e.recs \in Seq(RecordType)
         /\ e.sl # 0 => /\ e.sl = serial_live /\ serial_live \in 1..Len(records)
                        /\ e.recs[e.sl] = records[serial_live]
<1>1. VecOK(e.recs, e.sl) /\ Aged(e.recs, records)
  BY RegInvFacts, ExpireOK
<1>2. e.recs \in Seq(RecordType) /\ Len(e.recs) = Len(records) /\ Len(records) \in Nat
  BY <1>1, RegInvFacts DEF Aged
<1>3. ASSUME e.sl # 0
      PROVE  e.sl = serial_live /\ serial_live \in 1..Len(records) /\ e.recs[e.sl] = records[serial_live]
  <2> DEFINE i == e.sl
  <2>1. i \in 1..Len(records)
    BY <1>1, <1>2, <1>3 DEF VecOK, SlotOK
  <2>2. Live(e.recs[i]) /\ e.recs[i].owner = Serial
    BY <1>1, <1>2, <2>1 DEF VecOK, SlotOK
  <2>3. e.recs[i] \in {records[i], Replay(records[i])} /\ records[i] \in RecordType
    BY <1>1, <2>1, RegInvFacts DEF Aged
  <2>4. e.recs[i] = records[i]
    BY <2>2, <2>3, ReplayFields
  <2>5. serial_live = i
    BY <2>1, <2>2, <2>4 DEF RegInv, VecOK, SlotOK
  <2> QED BY <2>1, <2>4, <2>5
<1> QED BY <1>1, <1>2, <1>3

LEMMA InvHold == ASSUME RegInv PROVE HoldRetryHonest
<1>a. SUFFICES ASSUME NEW p \in Protocols, NEW ids \in IdLists \cup {<<>>}, NEW r,
                    r = serial_hold(expire(Reg, now), p, ids, now), r > 0 \/ r > 1
             PROVE  /\ serial_hold(expire(Reg, now + r * TickHz + Millisecond), p, ids,
                                   now + r * TickHz + Millisecond) = 0
                    /\ r > 1 => serial_hold(Reg, p, ids, now + (r - 1) * TickHz) > 0
  BY DEF HoldRetryHonest
<1> DEFINE e == expire(Reg, now)
           u == now + r * TickHz + Millisecond
           v == now + (r - 1) * TickHz
           g == expire(Reg, u)
           rec == records[serial_live]
           w == Min2(HoldShed, Grace)
           wl == IF w > 0 THEN w - (now - rec.publish_time) ELSE 0
           pl == IF Pinned(rec, now) THEN rec.pin_expiry - now ELSE 0
           left == Max2(wl, pl)
           mine == rec.protocol = p /\ ids # <<>> /\ set_eq(rec.call_ids, ids)
<1>0. w \in Nat /\ now \in Nat /\ TickHz \in Nat
  BY RegInvFacts, LimitsAssumption DEF Min2
<1>1. /\ e.sl # 0 => /\ e.sl = serial_live /\ serial_live \in 1..Len(records) /\ e.recs[e.sl] = rec
  BY <1>0, ExpiredSlot
<1>2. e.sl # 0 /\ ~mine /\ (wl > 0 \/ Pinned(rec, now)) /\ r = Retry(left) /\ serial_live \in 1..Len(records)
  <2>1. e.sl # 0
    <3>1. e.sl = 0 => serial_hold(e, p, ids, now) = 0
      BY DEF serial_hold, None
    <3> QED BY <1>a, <3>1
  <2>2. e.sl = serial_live /\ serial_live \in 1..Len(records) /\ e.recs[e.sl] = rec
    BY <1>1, <2>1
  <2> HIDE DEF e, rec
  <2>7. r = serial_hold(e, p, ids, now) /\ (r > 0 \/ r > 1)
    BY <1>a DEF e
  <2>3. serial_hold(e, p, ids, now) = IF mine \/ (wl <= 0 /\ ~Pinned(rec, now)) THEN 0 ELSE Retry(left)
    BY <2>1, <2>2 DEF serial_hold, None
  <2>4. ~(mine \/ (wl <= 0 /\ ~Pinned(rec, now)))
    BY <2>3, <2>7
  <2>5. rec.publish_time \in Nat
    BY <2>2, RegInvFacts, FieldTypes DEF rec
  <2>6. wl \in Int
    <3> DEFINE pt == rec.publish_time
    <3>1. pt \in Nat
      BY <2>5
    <3> HIDE DEF pt, w
    <3>2. (IF w > 0 THEN w - (now - pt) ELSE 0) \in Int
      BY <1>0, <3>1
    <3> QED BY <3>2 DEF pt
  <2> HIDE DEF wl, mine
  <2> QED BY <2>1, <2>2, <2>3, <2>4, <2>6, <2>7
<1>3. rec \in RecordType
  BY <1>2, RegInvFacts
<1>4. wl > 0 \/ Pinned(rec, now)
  BY <1>2
<1> HIDE DEF rec, w, mine
<1>5. left \in Nat /\ left > 0
  <2>1. /\ wl = (IF w > 0 THEN w - (now - rec.publish_time) ELSE 0) /\ left = Max2(wl, pl)
        /\ pl = (IF Pinned(rec, now) THEN rec.pin_expiry - now ELSE 0)
    OBVIOUS
  <2> HIDE DEF wl, pl, left
  <2> QED BY <1>0, <1>3, <1>4, <2>1, LeftPositive
<1>6. /\ r \in Nat /\ Millisecond \in Nat /\ left <= r * TickHz + Millisecond
      /\ r > 1 => left > (r - 1) * TickHz
  <2> HIDE DEF left
  <2>1. r = Retry(left)
    BY <1>2
  <2> QED BY <1>5, <2>1, RetryCovers
<1>7. /\ u \in Nat /\ u >= now + left
      /\ r > 1 => v \in Nat /\ v < now + left
  <2> DEFINE m == r * TickHz
             n == (r - 1) * TickHz
  <2>1. m \in Nat /\ left <= m + Millisecond /\ left \in Nat
    BY <1>0, <1>5, <1>6
  <2>2. r > 1 => n \in Nat /\ left > n
    <3> SUFFICES ASSUME r > 1 PROVE n \in Nat /\ left > n
      OBVIOUS
    <3>1. r - 1 \in Nat
      BY <1>6
    <3> QED BY <1>0, <1>6, <3>1
  <2> HIDE DEF m, n, left
  <2>3. now + m + Millisecond \in Nat /\ now + m + Millisecond >= now + left
    BY <1>0, <1>6, <2>1
  <2>4. r > 1 => now + n \in Nat /\ now + n < now + left
    BY <1>0, <2>1, <2>2
  <2> QED BY <2>3, <2>4 DEF m, n
<1> HIDE DEF u, v, e
<1>8. ~Pinned(rec, u) /\ (w > 0 => w - (u - rec.publish_time) <= 0)
  <2>1. /\ wl = (IF w > 0 THEN w - (now - rec.publish_time) ELSE 0) /\ left = Max2(wl, pl)
        /\ pl = (IF Pinned(rec, now) THEN rec.pin_expiry - now ELSE 0)
    OBVIOUS
  <2> HIDE DEF wl, pl, left
  <2> QED BY <1>0, <1>3, <1>4, <1>7, <2>1, WaitEnds
<1>11. r > 1 => Pinned(rec, v) \/ (w > 0 /\ w - (v - rec.publish_time) > 0)
  <2> SUFFICES ASSUME r > 1 PROVE Pinned(rec, v) \/ (w > 0 /\ w - (v - rec.publish_time) > 0)
    OBVIOUS
  <2>1. /\ wl = (IF w > 0 THEN w - (now - rec.publish_time) ELSE 0) /\ left = Max2(wl, pl)
        /\ pl = (IF Pinned(rec, now) THEN rec.pin_expiry - now ELSE 0)
    OBVIOUS
  <2> HIDE DEF wl, pl, left
  <2> QED BY <1>0, <1>3, <1>4, <1>7, <2>1, WaitNeeded
<1>9. g.sl # 0 => g.sl = serial_live /\ g.recs[g.sl] = rec
  BY <1>7, ExpiredSlot DEF rec
<1> HIDE DEF g
<1>10. serial_hold(g, p, ids, u) = 0
  <2>1. CASE g.sl = 0
    BY <2>1 DEF serial_hold, None
  <2>2. CASE g.sl # 0
    <3> DEFINE wu == IF w > 0 THEN w - (u - rec.publish_time) ELSE 0
               pu == IF Pinned(rec, u) THEN rec.pin_expiry - u ELSE 0
    <3>1. serial_hold(g, p, ids, u)
            = IF mine \/ (wu <= 0 /\ ~Pinned(rec, u)) THEN 0 ELSE Retry(Max2(wu, pu))
      BY <1>9, <2>2 DEF serial_hold, None, mine, w
    <3>2. wu <= 0
      BY <1>8
    <3> HIDE DEF wu, pu
    <3> QED BY <1>8, <3>1, <3>2
  <2> QED BY <2>1, <2>2
<1>12. ASSUME r > 1 PROVE serial_hold(Reg, p, ids, v) > 0
  <2> DEFINE wv == IF w > 0 THEN w - (v - rec.publish_time) ELSE 0
             pv == IF Pinned(rec, v) THEN rec.pin_expiry - v ELSE 0
             lv == Max2(wv, pv)
  <2>1. Reg.sl = serial_live /\ Reg.recs = records /\ serial_live # 0
    BY <1>2 DEF Reg
  <2>2. serial_hold(Reg, p, ids, v) = IF mine \/ (wv <= 0 /\ ~Pinned(rec, v)) THEN 0 ELSE Retry(lv)
    BY <2>1 DEF serial_hold, None, mine, w, rec
  <2>3. wv > 0 \/ Pinned(rec, v)
    BY <1>11, <1>12
  <2>4. v \in Nat
    BY <1>7, <1>12
  <2>5. lv \in Nat /\ wv \in Int
    <3>1. /\ wv = (IF w > 0 THEN w - (v - rec.publish_time) ELSE 0) /\ lv = Max2(wv, pv)
          /\ pv = (IF Pinned(rec, v) THEN rec.pin_expiry - v ELSE 0)
      OBVIOUS
    <3> HIDE DEF wv, pv, lv
    <3> QED BY <1>0, <1>3, <2>3, <2>4, <3>1, LeftPositive
  <2> HIDE DEF wv, pv, lv
  <2>6. serial_hold(Reg, p, ids, v) = Retry(lv)
    BY <1>2, <2>2, <2>3, <2>5
  <2> QED BY <2>5, <2>6, RetryCovers
<1> QED BY <1>10, <1>12 DEF g, u, v

LEMMA InvBank == ASSUME RegInv PROVE BankRetryHonest
<1> SUFFICES ASSUME NEW b \in Banks, NEW known \in BOOLEAN, NEW r,
                    r = bank_hold_retry(records, b, known, native[b], now), r > 0 \/ r > 1
             PROVE  /\ ~bank_protected(records, b, known, native[b], now + r * TickHz + Millisecond)
                    /\ r > 1 => bank_protected(records, b, known, native[b], now + (r - 1) * TickHz)
  BY DEF BankRetryHonest
<1> DEFINE ref == native[b]
           u == now + r * TickHz + Millisecond
           v == now + (r - 1) * TickHz
           M(i) == BankRecordMatches(records[i], b, known, ref)
           hits == {i \in DOMAIN records : M(i)}
           k == CHOOSE i \in hits : \A j \in hits : i <= j
           rec == records[k]
           wl == IF Grace > 0 THEN Grace - (now - rec.publish_time) ELSE 0
           pl == IF Pinned(rec, now) THEN rec.pin_expiry - now ELSE 0
           left == Max2(wl, pl)
<1>0. Grace \in Nat /\ now \in Nat /\ TickHz \in Nat /\ DOMAIN records = 1..Len(records) /\ Len(records) \in Nat
  BY RegInvFacts, LimitsAssumption
<1>1. bank_protected(records, b, known, ref, now) /\ r = Retry(left)
  <2>1. r = IF bank_protected(records, b, known, ref, now) THEN Retry(left) ELSE 0
    BY DEF bank_hold_retry
  <2> HIDE DEF left
  <2> QED BY <2>1
<1>2. \A i, j \in 1..Len(records) : M(i) /\ M(j) => i = j
  <2>1. \A i, j \in 1..Len(records) :
           Live(records[i]) /\ Live(records[j]) /\ records[i].owner = records[j].owner => i = j
    BY DEF RegInv, VecOK, OneLive
  <2> QED BY <2>1 DEF BankRecordMatches
<1>3. PICK i \in 1..Len(records) :
        /\ M(i)
        /\ (Grace > 0 /\ now - records[i].publish_time < Grace) \/ Pinned(records[i], now)
  BY <1>0, <1>1 DEF bank_protected
<1>4. k = i
  <2>1. hits \subseteq Nat /\ i \in hits /\ \A j \in hits : j = i
    BY <1>0, <1>2, <1>3
  <2> HIDE DEF hits
  <2>2. \E x \in hits : \A j \in hits : x <= j
    BY <2>1, LeastOf
  <2> QED BY <2>1, <2>2
<1> HIDE DEF k
<1>5. rec \in RecordType /\ rec.publish_time \in Nat
  BY <1>4, RegInvFacts, FieldTypes
<1>6. wl > 0 \/ Pinned(rec, now)
  <2>1. CASE Pinned(rec, now)
    BY <2>1
  <2>2. CASE Grace > 0 /\ now - rec.publish_time < Grace
    <3> DEFINE pt == rec.publish_time
    <3>1. pt \in Nat /\ now - pt < Grace /\ Grace > 0 /\ wl = Grace - (now - pt)
      BY <1>5, <2>2
    <3> HIDE DEF pt, wl
    <3>2. wl > 0
      BY <1>0, <3>1
    <3> QED BY <3>2
  <2> QED BY <1>3, <1>4, <2>1, <2>2
<1> HIDE DEF rec
<1>7. left \in Nat /\ left > 0
  <2>1. /\ wl = (IF Grace > 0 THEN Grace - (now - rec.publish_time) ELSE 0) /\ left = Max2(wl, pl)
        /\ pl = (IF Pinned(rec, now) THEN rec.pin_expiry - now ELSE 0)
    OBVIOUS
  <2> HIDE DEF wl, pl, left
  <2> QED BY <1>0, <1>5, <1>6, <2>1, LeftPositive
<1>8. /\ u \in Nat /\ u >= now + left
      /\ r > 1 => v \in Nat /\ v < now + left
  <2> DEFINE m == r * TickHz
             n == (r - 1) * TickHz
  <2>1. /\ r \in Nat /\ Millisecond \in Nat /\ left <= m + Millisecond /\ left \in Nat
        /\ r > 1 => left > n
    <3> HIDE DEF left
    <3>1. r = Retry(left)
      BY <1>1
    <3> QED BY <1>7, <3>1, RetryCovers
  <2>2. m \in Nat /\ (r > 1 => n \in Nat)
    <3>1. r > 1 => r - 1 \in Nat
      BY <2>1
    <3> QED BY <1>0, <2>1, <3>1
  <2> HIDE DEF m, n, left
  <2>3. now + m + Millisecond \in Nat /\ now + m + Millisecond >= now + left
    BY <1>0, <2>1, <2>2
  <2>4. r > 1 => now + n \in Nat /\ now + n < now + left
    BY <1>0, <2>1, <2>2
  <2> QED BY <2>3, <2>4 DEF m, n
<1> HIDE DEF u, v
<1>9. ~Pinned(rec, u) /\ (Grace > 0 => ~(u - rec.publish_time < Grace))
  <2>1. /\ wl = (IF Grace > 0 THEN Grace - (now - rec.publish_time) ELSE 0) /\ left = Max2(wl, pl)
        /\ pl = (IF Pinned(rec, now) THEN rec.pin_expiry - now ELSE 0)
    OBVIOUS
  <2> HIDE DEF wl, pl, left
  <2> QED BY <1>0, <1>5, <1>6, <1>8, <2>1, WaitEnds
<1>10. ~bank_protected(records, b, known, ref, u)
  <2> SUFFICES ASSUME NEW j \in 1..Len(records), M(j),
                      (Grace > 0 /\ u - records[j].publish_time < Grace) \/ Pinned(records[j], u)
               PROVE  FALSE
    BY <1>0 DEF bank_protected
  <2>1. j = i
    BY <1>2, <1>3
  <2>2. records[j] = rec
    BY <1>4, <2>1 DEF rec
  <2> QED BY <1>9, <2>2
<1>11. ASSUME r > 1 PROVE bank_protected(records, b, known, ref, v)
  <2>1. /\ wl = (IF Grace > 0 THEN Grace - (now - rec.publish_time) ELSE 0) /\ left = Max2(wl, pl)
        /\ pl = (IF Pinned(rec, now) THEN rec.pin_expiry - now ELSE 0)
    OBVIOUS
  <2>2. Pinned(rec, v) \/ (Grace > 0 /\ v - rec.publish_time < Grace)
    <3> HIDE DEF wl, pl, left
    <3> QED BY <1>0, <1>5, <1>6, <1>8, <1>11, <2>1, WaitNeeded
  <2>3. records[i] = rec
    BY <1>4 DEF rec
  <2> QED BY <1>0, <1>3, <2>2, <2>3 DEF bank_protected
<1> QED BY <1>10, <1>11 DEF u, v

LEMMA InvResolved == RegInv => ResolvedNotHeld
<1> SUFFICES ASSUME RegInv, NEW p \in Protocols, NEW ids \in IdLists, NEW e, e = expire(Reg, now),
                    resolve_serial(e, p, ids, native[Serial])
             PROVE  serial_hold(e, p, ids, now) = 0
  BY DEF ResolvedNotHeld
<1> DEFINE i == find_idx(e.recs, p, ids[1])
<1>0. now \in Nat
  BY RegInvFacts
<1>1. VecOK(e.recs, e.sl) /\ e.recs \in Seq(RecordType)
  BY <1>0, ExpiredSlot
<1>2. /\ ids # <<>> /\ i # None /\ Live(e.recs[i]) /\ e.recs[i].owner = Serial
      /\ set_eq(e.recs[i].call_ids, ids)
  BY DEF resolve_serial, Claimed, None
<1>3. i \in 1..Len(e.recs) /\ e.recs[i].protocol = p
  <2> DEFINE q == e.recs
             h == ids[1]
  <2>1. q \in Seq(RecordType) /\ i = find_idx(q, p, h) /\ i # None
    BY <1>1, <1>2
  <2> HIDE DEF q, h, i
  <2>2. i \in 1..Len(q) /\ q[i].protocol = p
    BY <2>1, FindIdx
  <2> QED BY <2>2 DEF q
<1> HIDE DEF i
<1>4. e.sl = i
  BY <1>1, <1>2, <1>3 DEF VecOK, SlotOK
<1> QED BY <1>2, <1>3, <1>4 DEF serial_hold, None

\* On a clock of any resolution, the Retry-After a hold answers with names
\* the second in which the hold ends, up to the millisecond the rounding of
\* cont.rs may drop, and no hold keeps away the conversation it is held for.
THEOREM WindowsAgreeHolds == Spec => []WindowsAgree
<1>1. RegInv => WindowsAgree
  BY InvHold, InvBank, InvResolved DEF WindowsAgree
<1> QED BY <1>1, RegistryInvariant, PTL
=============================================================================
