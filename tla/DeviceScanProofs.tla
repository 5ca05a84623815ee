---------------------------- MODULE DeviceScanProofs ----------------------------
(***************************************************************************)
(* Proofs about DeviceScan, for any devices, any number of turns and any   *)
(* comings and goings on the bus: what is opened is the entry that was     *)
(* picked, and a serial port a scan does not look for is a last resort.    *)
(*                                                                         *)
(* Over USB and UART an entry is looked up by its port.  An FTDI device is *)
(* looked up by its place among those of its pair, in lists that were made *)
(* once and then put one behind the other: the heart of the proof is that  *)
(* the place counted in the long list is the place in the short one.       *)
(***************************************************************************)
EXTENDS DeviceScan, FiniteSetTheorems, SequenceTheorems, TLAPS

-----------------------------------------------------------------------------
(* Lists of a finite set.                                                  *)

\* A set of naturals has a least one.
LEMMA Least ==
    ASSUME NEW T \in SUBSET Nat, T # {}
    PROVE  \E m \in T : \A k \in T : m <= k
<1>. DEFINE R == OpToRel(<, Nat)
<1>1. IsWellFoundedOn(R, Nat)
  BY NatLessThanWellFounded
<1>2. \A k, m \in Nat : k < m => <<k, m>> \in R
  BY DEF OpToRel
<1>. HIDE DEF R
<1>3. \E m \in T : \A k \in T : ~ (<<k, m>> \in R)
  BY <1>1, WFMin
<1>4. PICK m \in T : \A k \in T : ~ (<<k, m>> \in R)
  BY <1>3, Zenon
<1>5. \A k \in T : ~ (k < m)
  <2>. TAKE k \in T
  <2>1. k \in Nat /\ m \in Nat
    OBVIOUS
  <2>. QED
    BY <1>2, <1>4, <2>1, Zenon
<1>. QED
  BY <1>5

\* A list without repetition of a finite set.
LEMMA ListTypes ==
    ASSUME NEW S, IsFiniteSet(S), NEW s \in SetToSeqs(S)
    PROVE  /\ Cardinality(S) \in Nat
           /\ s \in [1 .. Cardinality(S) -> S] /\ s \in Seq(S)
           /\ Len(s) = Cardinality(S) /\ DOMAIN s = 1 .. Len(s)
           /\ \A i, j \in DOMAIN s : i # j => s[i] # s[j]
<1>1. Cardinality(S) \in Nat
  BY FS_CardinalityType
<1>2. /\ s \in [1 .. Cardinality(S) -> S]
      /\ \A i, j \in 1 .. Cardinality(S) : i # j => s[i] # s[j]
  BY DEF SetToSeqs
<1>. QED
  BY <1>1, <1>2, SeqDef

\* Devices of different ports can be put in order of serial number, then port.
LEMMA OrderExists ==
    ASSUME NEW S \in SUBSET Devices, IsFiniteSet(S),
           \A d, e \in S : d # e => d.port # e.port
    PROVE  \E s \in SetToSeqs(S) : InOrder(s)
<1>. DEFINE n       == Cardinality(S)
            Less(x) == {y \in S : Before(y, x)}
            rank    == [x \in S |-> Cardinality(Less(x)) + 1]
<1>1. n \in Nat
  BY FS_CardinalityType
<1>2. \A x \in S : x.port \in Nat /\ x.sn \in Nat
  BY DevicesAssumption
<1>3. \A x, y \in S : x # y => Before(x, y) \/ Before(y, x)
  BY <1>2 DEF Before
<1>4. \A x, y, z \in S : Before(x, y) /\ Before(y, z) => Before(x, z)
  BY <1>2 DEF Before
<1>5. \A x \in S : ~Before(x, x)
  BY <1>2 DEF Before
<1>6. ASSUME NEW x \in S
      PROVE  Cardinality(Less(x)) \in 0 .. n - 1
  <2>1. Less(x) \subseteq S /\ Less(x) # S
    BY <1>5
  <2>2. IsFiniteSet(Less(x)) /\ Cardinality(Less(x)) <= n /\ Cardinality(Less(x)) # n
    BY <2>1, FS_Subset
  <2>3. Cardinality(Less(x)) \in Nat
    BY <2>2, FS_CardinalityType
  <2>. QED
    BY <1>1, <2>2, <2>3
<1>7. ASSUME NEW x \in S, NEW y \in S, Before(x, y)
      PROVE  Cardinality(Less(x)) < Cardinality(Less(y))
  <2>1. Less(x) \subseteq Less(y) /\ Less(x) # Less(y)
    BY <1>4, <1>5, <1>7
  <2>2. IsFiniteSet(Less(y))
    BY FS_Subset
  <2>3. Cardinality(Less(x)) <= Cardinality(Less(y))
        /\ Cardinality(Less(x)) # Cardinality(Less(y))
    BY <2>1, <2>2, FS_Subset
  <2>. QED
    BY <1>6, <2>3
<1>8. /\ \A x \in S : rank[x] \in 1 .. n
      /\ \A x, y \in S : Before(x, y) => rank[x] < rank[y]
  <2>. HIDE DEF n, Less
  <2>. QED
    BY <1>1, <1>6, <1>7
<1>9. rank \in Injection(S, 1 .. n)
  <2>1. rank \in [S -> 1 .. n]
    BY <1>8
  <2>2. \A x, y \in S : rank[x] = rank[y] => x = y
    <3>. HIDE DEF n, rank
    <3>. QED
      BY <1>3, <1>8
  <2>. HIDE DEF n, rank
  <2>. QED
    BY <2>1, <2>2 DEF Injection, IsInjective
<1>. HIDE DEF rank, Less
<1>10. rank \in Surjection(S, 1 .. n)
  <2>1. IsFiniteSet(1 .. n) /\ Cardinality(1 .. n) = n
    BY <1>1, FS_Interval
  <2>. QED
    BY <1>9, <2>1, FS_Injection
<1>11. \A k \in 1 .. n : \E x \in S : rank[x] = k
  BY <1>10 DEF Surjection
<1>. DEFINE s == [k \in 1 .. n |-> CHOOSE x \in S : rank[x] = k]
<1>12. \A k \in 1 .. n : s[k] \in S /\ rank[s[k]] = k
  BY <1>11
<1>13. s \in [1 .. n -> S] /\ DOMAIN s = 1 .. n
  BY <1>12
<1>. HIDE DEF s
<1>14. s \in SetToSeqs(S)
  BY <1>12, <1>13 DEF SetToSeqs
<1>15. InOrder(s)
  <2>. SUFFICES ASSUME NEW i \in 1 .. n, NEW j \in 1 .. n, i < j
                PROVE  Before(s[i], s[j])
    BY <1>13 DEF InOrder
  <2>1. s[i] # s[j] /\ ~Before(s[j], s[i])
    <3>. HIDE DEF n
    <3>. QED
      BY <1>1, <1>8, <1>12
  <2>. QED
    BY <1>3, <1>12, <2>1
<1>. QED
  BY <1>14, <1>15
-----------------------------------------------------------------------------
(* One list behind the other.                                              *)

\* The lists h[i] are those of g up to the i-th, one behind the other.
Joins(h, g, n) ==
    /\ h[1] = g[1]
    /\ \A i \in 2 .. n : h[i] = h[i - 1] \o g[i]

\* Any number of lists can be joined.
LEMMA JoinExists ==
    ASSUME NEW S, NEW n \in Nat \ {0}, NEW g \in [1 .. n -> Seq(S)]
    PROVE  \E h \in [1 .. n -> Seq(S)] : Joins(h, g, n)
<1>. DEFINE Good(m) == \E h \in [1 .. m -> Seq(S)] : Joins(h, g, m)
            Bad     == {m \in 1 .. n : ~Good(m)}
<1>1. CASE Bad = {}
  BY <1>1
<1>2. CASE Bad # {}
  <2>0. Bad \in SUBSET Nat
    OBVIOUS
  <2>1. PICK m \in Bad : \A k \in Bad : m <= k
    <3>. HIDE DEF Bad
    <3>. QED
      BY <1>2, <2>0, Least
  <2>2. m \in 1 .. n /\ ~Good(m)
    OBVIOUS
  <2>3. m # 1
    <3>1. [i \in 1 .. 1 |-> g[1]] \in [1 .. 1 -> Seq(S)]
      OBVIOUS
    <3>2. Joins([i \in 1 .. 1 |-> g[1]], g, 1)
      BY DEF Joins
    <3>. QED
      BY <2>2, <3>1, <3>2
  <2>4. m - 1 \in 1 .. n /\ m - 1 \notin Bad
    BY <2>1, <2>2, <2>3
  <2>5. PICK h \in [1 .. m - 1 -> Seq(S)] : Joins(h, g, m - 1)
    BY <2>4
  <2>. DEFINE more == [i \in 1 .. m |-> IF i = m THEN h[m - 1] \o g[m] ELSE h[i]]
  <2>6. more \in [1 .. m -> Seq(S)]
    <3>1. h[m - 1] \o g[m] \in Seq(S)
      BY <2>2, <2>4, ConcatProperties
    <3>2. \A i \in 1 .. m : i # m => i \in 1 .. m - 1
      BY <2>2
    <3>. QED
      BY <3>1, <3>2
  <2>7. Joins(more, g, m)
    <3>1. more[1] = g[1]
      <4>1. more[1] = h[1]
        BY <2>2, <2>3
      <4>. QED
        BY <2>5, <4>1 DEF Joins
    <3>2. ASSUME NEW i \in 2 .. m
          PROVE  more[i] = more[i - 1] \o g[i]
      <4>1. more[i - 1] = h[i - 1]
        BY <2>2, <3>2
      <4>2. more[i] = IF i = m THEN h[m - 1] \o g[m] ELSE h[i]
        BY <2>2, <3>2
      <4>3. i # m => h[i] = h[i - 1] \o g[i]
        <5>1. i # m => i \in 2 .. m - 1
          BY <2>2, <3>2
        <5>. QED
          BY <2>5, <5>1 DEF Joins
      <4>. HIDE DEF more
      <4>. QED
        BY <4>1, <4>2, <4>3
    <3>. HIDE DEF more
    <3>. QED
      BY <3>1, <3>2 DEF Joins
  <2>. QED
    BY <2>2, <2>6, <2>7
<1>. QED
  BY <1>1, <1>2

\* FlattenSeq joins them.
LEMMA FlattenJoins ==
    ASSUME NEW S, NEW n \in Nat \ {0}, NEW g \in [1 .. n -> Seq(S)]
    PROVE  \E h \in [1 .. n -> Seq(S)] : Joins(h, g, n) /\ FlattenSeq(g) = h[n]
<1>. DEFINE turn1(f) == [i \in 1 .. n |-> IF i = 1 THEN g[i] ELSE f[i - 1] \o g[i]]
            flatten  == CHOOSE f : f = turn1(f)
<1>1. Len(g) = n
  BY SeqDef
<1>2. FlattenSeq(g) = flatten[n]
  BY <1>1 DEF FlattenSeq
<1>3. PICK h \in [1 .. n -> Seq(S)] : Joins(h, g, n)
  BY JoinExists
<1>4. h = turn1(h)
  <2>1. ASSUME NEW i \in 1 .. n
        PROVE  h[i] = IF i = 1 THEN g[i] ELSE h[i - 1] \o g[i]
    <3>1. i # 1 => i \in 2 .. n
      OBVIOUS
    <3>. QED
      BY <1>3, <3>1 DEF Joins
  <2>. QED
    BY <2>1
<1>5. flatten = turn1(flatten)
  BY <1>4, Zenon
<1>. HIDE DEF flatten
<1>6. \A i \in 1 .. n : flatten[i] = IF i = 1 THEN g[i] ELSE flatten[i - 1] \o g[i]
  BY <1>5
<1>7. \A i \in 1 .. n : flatten[i] = h[i]
  <2>. DEFINE Bad == {i \in 1 .. n : flatten[i] # h[i]}
  <2>. SUFFICES ASSUME Bad # {}
                PROVE  FALSE
    OBVIOUS
  <2>0. Bad \in SUBSET Nat
    OBVIOUS
  <2>1. PICK m \in Bad : \A k \in Bad : m <= k
    <3>. HIDE DEF Bad
    <3>. QED
      BY <2>0, Least
  <2>2. m \in 1 .. n /\ flatten[m] # h[m]
    OBVIOUS
  <2>3. m # 1
    BY <1>3, <1>6, <2>2 DEF Joins
  <2>4. m - 1 \in 1 .. n /\ m \in 2 .. n /\ m - 1 \notin Bad
    BY <2>1, <2>2, <2>3
  <2>5. flatten[m - 1] = h[m - 1]
    BY <2>4
  <2>6. h[m] = h[m - 1] \o g[m]
    BY <1>3, <2>4 DEF Joins
  <2>7. flatten[m] = flatten[m - 1] \o g[m]
    BY <1>6, <2>2, <2>3
  <2>. QED
    BY <2>2, <2>5, <2>6, <2>7
<1>8. FlattenSeq(g) = h[n]
  BY <1>2, <1>7
<1>. QED
  BY <1>3, <1>8
\* Entry k of l is an entry of one of the first m lists of g, and those of its
\* pair before it are the ones before it in that list.
Placed(l, g, m) ==
    \A k \in 1 .. Len(l) : \E i \in 1 .. m, off \in Nat :
        /\ k - off \in 1 .. Len(g[i]) /\ l[k] = g[i][k - off]
        /\ \A j \in 1 .. k : l[j].vp = l[k].vp <=> j > off

\* Lists of different pairs.
OfPairs(g, p, n) ==
    /\ \A i \in 1 .. n, j \in 1 .. n : i # j => p[i] # p[j]
    /\ \A i \in 1 .. n : \A j \in 1 .. Len(g[i]) : g[i][j].vp = p[i]

\* One more list of another pair keeps the places.
LEMMA PlacedMore ==
    ASSUME NEW n \in Nat, NEW g \in [1 .. n -> Seq(Devices)], NEW p, OfPairs(g, p, n),
           NEW m \in 2 .. n, NEW l \in Seq(Devices), Placed(l, g, m - 1)
    PROVE  Placed(l \o g[m], g, m)
<1>1. PICK s \in Seq(Devices) : s = g[m]
  OBVIOUS
<1>2. PICK L \in Nat, K \in Nat : L = Len(l) /\ K = Len(s)
  BY <1>1, LenProperties
<1>3. PICK t \in Seq(Devices) : t = l \o s
  BY <1>1, ConcatProperties
<1>4. /\ Len(t) = L + K
      /\ \A k \in 1 .. L : t[k] = l[k]
      /\ \A k \in L + 1 .. L + K : t[k] = s[k - L] /\ k - L \in 1 .. K
  BY <1>1, <1>2, <1>3, ConcatProperties
<1>5. ASSUME NEW k \in 1 .. L
      PROVE  \E i \in 1 .. m, off \in Nat :
                /\ k - off \in 1 .. Len(g[i]) /\ t[k] = g[i][k - off]
                /\ \A j \in 1 .. k : t[j].vp = t[k].vp <=> j > off
  <2>1. PICK i \in 1 .. m - 1, off \in Nat :
           /\ k - off \in 1 .. Len(g[i]) /\ l[k] = g[i][k - off]
           /\ \A j \in 1 .. k : l[j].vp = l[k].vp <=> j > off
    BY <1>2 DEF Placed
  <2>2. i \in 1 .. m
    BY <2>1
  <2>3. t[k] = l[k] /\ \A j \in 1 .. k : t[j] = l[j]
    BY <1>2, <1>4
  <2>. QED
    BY <2>1, <2>2, <2>3
<1>6. ASSUME NEW k \in L + 1 .. L + K
      PROVE  \E i \in 1 .. m, off \in Nat :
                /\ k - off \in 1 .. Len(g[i]) /\ t[k] = g[i][k - off]
                /\ \A j \in 1 .. k : t[j].vp = t[k].vp <=> j > off
  <2>0. m \in 1 .. n /\ \A j \in 1 .. K : s[j].vp = p[m]
    <3>1. m \in 1 .. n
      OBVIOUS
    <3>2. \A j \in 1 .. Len(g[m]) : g[m][j].vp = p[m]
      BY <3>1, Zenon DEF OfPairs
    <3>. QED
      BY <1>1, <1>2, <3>1, <3>2
  <2>1. t[k] = s[k - L] /\ k - L \in 1 .. K /\ t[k].vp = p[m]
    BY <1>4, <2>0
  <2>2. ASSUME NEW j \in 1 .. L
        PROVE  t[j].vp # p[m]
    <3>1. PICK i \in 1 .. m - 1, off \in Nat :
             j - off \in 1 .. Len(g[i]) /\ l[j] = g[i][j - off]
      BY <1>2 DEF Placed
    <3>2. l[j].vp = p[i] /\ p[i] # p[m]
      BY <3>1 DEF OfPairs
    <3>. QED
      BY <1>4, <3>2
  <2>3. ASSUME NEW j \in L + 1 .. k
        PROVE  t[j].vp = p[m]
    <3>1. j \in L + 1 .. L + K
      BY <1>2
    <3>2. t[j] = s[j - L] /\ j - L \in 1 .. K
      BY <1>4, <3>1
    <3>. QED
      BY <2>0, <3>2
  <2>4. \A j \in 1 .. k : t[j].vp = t[k].vp <=> j > L
    <3>. TAKE j \in 1 .. k
    <3>1. j \in 1 .. L \/ j \in L + 1 .. k
      BY <1>2
    <3>. QED
      BY <1>2, <2>1, <2>2, <2>3, <3>1
  <2>5. k - L \in 1 .. Len(g[m]) /\ t[k] = g[m][k - L] /\ m \in 1 .. m /\ L \in Nat
    BY <1>1, <1>2, <2>1
  <2>. QED
    BY <2>4, <2>5
<1>7. \A k \in 1 .. L + K : k \in 1 .. L \/ k \in L + 1 .. L + K
  BY <1>2
<1>8. Placed(t, g, m)
  BY <1>4, <1>5, <1>6, <1>7 DEF Placed
<1>. QED
  BY <1>1, <1>3, <1>8

\* So every entry of lists put one behind the other keeps its place.
LEMMA PlacedFlatten ==
    ASSUME NEW n \in Nat \ {0}, NEW g \in [1 .. n -> Seq(Devices)], NEW p, OfPairs(g, p, n)
    PROVE  FlattenSeq(g) \in Seq(Devices) /\ Placed(FlattenSeq(g), g, n)
<1>1. PICK h \in [1 .. n -> Seq(Devices)] : Joins(h, g, n) /\ FlattenSeq(g) = h[n]
  BY FlattenJoins
<1>2. \A m \in 1 .. n : Placed(h[m], g, m)
  <2>. DEFINE Bad == {m \in 1 .. n : ~Placed(h[m], g, m)}
  <2>. SUFFICES ASSUME Bad # {}
                PROVE  FALSE
    OBVIOUS
  <2>0. Bad \in SUBSET Nat
    OBVIOUS
  <2>1. PICK m \in Bad : \A k \in Bad : m <= k
    <3>. HIDE DEF Bad
    <3>. QED
      BY <2>0, Least
  <2>2. m \in 1 .. n /\ ~Placed(h[m], g, m)
    OBVIOUS
  <2>3. CASE m = 1
    <3>1. PICK s \in Seq(Devices) : s = g[1] /\ s = h[1]
      BY <1>1, <2>2, <2>3 DEF Joins
    <3>2. 1 \in 1 .. n /\ \A k \in 1 .. Len(s) : s[k].vp = p[1]
      <4>1. 1 \in 1 .. n
        OBVIOUS
      <4>2. \A j \in 1 .. Len(g[1]) : g[1][j].vp = p[1]
        BY <4>1, Zenon DEF OfPairs
      <4>. QED
        BY <3>1, <4>1, <4>2
    <3>3. \A k \in 1 .. Len(s) : \A j \in 1 .. k : j \in 1 .. Len(s) /\ j > 0
      BY LenProperties
    <3>4. Placed(s, g, 1)
      <4>1. ASSUME NEW k \in 1 .. Len(s)
            PROVE  \E i \in 1 .. 1, off \in Nat :
                      /\ k - off \in 1 .. Len(g[i]) /\ s[k] = g[i][k - off]
                      /\ \A j \in 1 .. k : s[j].vp = s[k].vp <=> j > off
        <5>1. k - 0 \in 1 .. Len(g[1]) /\ s[k] = g[1][k - 0]
          BY <3>1
        <5>2. \A j \in 1 .. k : s[j].vp = s[k].vp <=> j > 0
          BY <3>2, <3>3
        <5>. QED
          BY <5>1, <5>2
      <4>. QED
        BY <4>1 DEF Placed
    <3>. QED
      BY <2>2, <2>3, <3>1, <3>4
  <2>4. CASE m # 1
    <3>1. m - 1 \in 1 .. n /\ m \in 2 .. n /\ m - 1 \notin Bad
      BY <2>1, <2>2, <2>4
    <3>2. Placed(h[m - 1], g, m - 1) /\ h[m - 1] \in Seq(Devices)
      BY <3>1
    <3>3. h[m] = h[m - 1] \o g[m]
      BY <1>1, <3>1 DEF Joins
    <3>. QED
      BY <2>2, <3>1, <3>2, <3>3, PlacedMore
  <2>. QED
    BY <2>3, <2>4
<1>. QED
  BY <1>1, <1>2

\* The place IndexOf counts is the place in the list of the pair.
LEMMA PlacedIndex ==
    ASSUME NEW n \in Nat, NEW g \in [1 .. n -> Seq(Devices)], NEW l \in Seq(Devices),
           Placed(l, g, n), NEW k \in 1 .. Len(l)
    PROVE  \E i \in 1 .. n : IndexOf(l, k) \in 1 .. Len(g[i]) /\ l[k] = g[i][IndexOf(l, k)]
<1>1. PICK i \in 1 .. n, off \in Nat :
         /\ k - off \in 1 .. Len(g[i]) /\ l[k] = g[i][k - off]
         /\ \A j \in 1 .. k : l[j].vp = l[k].vp <=> j > off
  BY DEF Placed
<1>2. k \in Nat /\ Len(g[i]) \in Nat
  BY LenProperties
<1>3. {j \in 1 .. k : l[j].vp = l[k].vp} = off + 1 .. k
  BY <1>1, <1>2
<1>4. Cardinality(off + 1 .. k) = k - off
  BY <1>1, <1>2, FS_Interval
<1>5. IndexOf(l, k) = k - off
  BY <1>3, <1>4 DEF IndexOf
<1>. QED
  BY <1>1, <1>5
-----------------------------------------------------------------------------
(* The invariant.                                                          *)

\* No two devices are there under one name.
Apart == \A d, e \in plugged : d # e => d.port # e.port

\* A list that is kept has devices of its pair only.
Caches == \A vp \in Pairs : cache[vp] # None =>
              \A j \in DOMAIN cache[vp] : cache[vp][j].vp = vp

\* Entry k of l stands, in the list c keeps for its pair, where IndexOf says.
Kept(c, l, k) ==
    /\ c[l[k].vp] # None
    /\ IndexOf(l, k) \in DOMAIN c[l[k].vp]
    /\ c[l[k].vp][IndexOf(l, k)] = l[k]

\* So does every entry the user sees.
Shown == peri = "ftdi" /\ pc \in {"choose", "open"} =>
             \A k \in DOMAIN list : Kept(cache, list, k)

\* Nothing is open before the call ends, and a scan that goes on saw nothing.
NotYet == /\ ret = "open" => pc = "done"
          /\ peri = "uart" /\ pc = "scan" => ~seen

ScanInv ==
    /\ TypeOK /\ Apart /\ Caches /\ Shown /\ NotYet
    /\ OpenedIsPicked /\ FallbackIsLast

\* The devices there are can be listed in an order.
LEMMA PluggedFinite ==
    ASSUME TypeOK, NEW S \in SUBSET plugged
    PROVE  IsFiniteSet(S) /\ S \in SUBSET Devices
<1>1. S \subseteq Devices
  BY DEF TypeOK
<1>. QED
  BY <1>1, DevicesAssumption, FS_Subset

\* The list of a pair has devices of that pair, whether it is kept or made now.
LEMMA DevsType ==
    ASSUME TypeOK, Apart, Caches, NEW vp \in Pairs
    PROVE  /\ Devs(vp) \in Seq(Devices) /\ Devs(vp) # None
           /\ \A j \in 1 .. Len(Devs(vp)) : Devs(vp)[j].vp = vp
           /\ cache[vp] # None => Devs(vp) = cache[vp]
<1>1. CASE cache[vp] # None
  <2>1. Devs(vp) = cache[vp]
    BY <1>1 DEF Devs
  <2>2. cache[vp] \in Seq(Devices)
    BY <1>1 DEF TypeOK
  <2>3. \A j \in 1 .. Len(cache[vp]) : cache[vp][j].vp = vp
    BY <1>1, <2>2 DEF Caches
  <2>. QED
    BY <1>1, <2>1, <2>2, <2>3
<1>2. CASE cache[vp] = None
  <2>1. OfPair(vp) \in SUBSET plugged
    BY DEF OfPair
  <2>2. IsFiniteSet(OfPair(vp)) /\ OfPair(vp) \in SUBSET Devices
    BY <2>1, PluggedFinite
  <2>3. \E s \in SetToSeqs(OfPair(vp)) : InOrder(s)
    <3>1. \A d, e \in OfPair(vp) : d # e => d.port # e.port
      BY <2>1 DEF Apart
    <3>. QED
      BY <2>2, <3>1, OrderExists
  <2>4. Devs(vp) \in SetToSeqs(OfPair(vp))
    BY <1>2, <2>3 DEF Devs
  <2>5. PICK s \in SetToSeqs(OfPair(vp)) : s = Devs(vp)
    BY <2>4
  <2>6. s \in Seq(OfPair(vp)) /\ s \in Seq(Devices)
    <3>1. s \in Seq(OfPair(vp))
      BY <2>2, ListTypes
    <3>. QED
      BY <2>2, <3>1
  <2>7. \A j \in 1 .. Len(s) : s[j] \in OfPair(vp)
    BY <2>6
  <2>8. s # None
    BY <2>6, DevicesAssumption
  <2>. QED
    BY <1>2, <2>5, <2>6, <2>7, <2>8 DEF OfPair
<1>. QED
  BY <1>1, <1>2

\* What is kept stays, and what is filled in is kept.
LEMMA FilledType ==
    ASSUME TypeOK, Apart, Caches, NEW vps \in SUBSET Pairs
    PROVE  /\ Filled(vps) \in [Pairs -> Seq(Devices) \cup {None}]
           /\ \A vp \in Pairs : Filled(vps)[vp] # None =>
                 \A j \in DOMAIN Filled(vps)[vp] : Filled(vps)[vp][j].vp = vp
           /\ \A vp \in vps : Filled(vps)[vp] = Devs(vp) /\ Devs(vp) # None
<1>1. \A vp \in Pairs : Filled(vps)[vp] = IF vp \in vps THEN Devs(vp) ELSE cache[vp]
  BY DEF Filled
<1>2. \A vp \in Pairs : Filled(vps)[vp] \in Seq(Devices) \cup {None}
  <2>. TAKE vp \in Pairs
  <2>1. Devs(vp) \in Seq(Devices)
    BY DevsType
  <2>2. cache[vp] \in Seq(Devices) \cup {None}
    BY DEF TypeOK
  <2>. QED
    BY <1>1, <2>1, <2>2
<1>3. ASSUME NEW vp \in Pairs, Filled(vps)[vp] # None,
             NEW j \in DOMAIN Filled(vps)[vp]
      PROVE  Filled(vps)[vp][j].vp = vp
  <2>1. CASE vp \in vps
    <3>1. Devs(vp) \in Seq(Devices) /\ \A i \in 1 .. Len(Devs(vp)) : Devs(vp)[i].vp = vp
      BY DevsType
    <3>2. Filled(vps)[vp] = Devs(vp)
      BY <1>1, <2>1
    <3>. QED
      BY <1>3, <3>1, <3>2
  <2>2. CASE vp \notin vps
    BY <1>1, <1>3, <2>2 DEF Caches
  <2>. QED
    BY <2>1, <2>2
<1>4. ASSUME NEW vp \in vps
      PROVE  Filled(vps)[vp] = Devs(vp) /\ Devs(vp) # None
  BY <1>1, DevsType
<1>5. Filled(vps) \in [Pairs -> Seq(Devices) \cup {None}]
  BY <1>2 DEF Filled
<1>. QED
  BY <1>3, <1>4, <1>5

-----------------------------------------------------------------------------
(* The steps.                                                              *)

\* What an FTDI scan puts together: each entry is at its place in what is kept then.
LEMMA ScanList ==
    ASSUME TypeOK, Apart, Caches, NEW S \in SUBSET Pairs, IsFiniteSet(S),
           NEW pairs \in SetToSeqs(S), NEW l,
           l = FlattenSeq([i \in DOMAIN pairs |-> Devs(pairs[i])])
    PROVE  /\ Range(pairs) \in SUBSET Pairs
           /\ l \in Seq(Devices)
           /\ \A k \in DOMAIN l : Kept(Filled(Range(pairs)), l, k)
<1>1. /\ pairs \in Seq(S) /\ Len(pairs) \in Nat /\ DOMAIN pairs = 1 .. Len(pairs)
      /\ \A i, j \in 1 .. Len(pairs) : i # j => pairs[i] # pairs[j]
  BY ListTypes
<1>2. PICK n \in Nat : n = Len(pairs)
  BY <1>1
<1>3. \A i \in 1 .. n : pairs[i] \in Pairs
  BY <1>1, <1>2
<1>4. PICK g \in [1 .. n -> Seq(Devices)] : g = [i \in 1 .. n |-> Devs(pairs[i])]
  BY <1>3, DevsType
<1>5. l = FlattenSeq(g)
  BY <1>1, <1>2, <1>4
<1>6. Range(pairs) \in SUBSET Pairs /\ \A i \in 1 .. n : pairs[i] \in Range(pairs)
  BY <1>1, <1>2, <1>3 DEF Range
<1>7. OfPairs(g, pairs, n)
  <2>1. \A i \in 1 .. n : g[i] = Devs(pairs[i])
    BY <1>4
  <2>2. \A i \in 1 .. n : \A j \in 1 .. Len(g[i]) : g[i][j].vp = pairs[i]
    BY <1>3, <2>1, DevsType
  <2>. QED
    BY <1>1, <1>2, <2>2 DEF OfPairs
<1>8. CASE n = 0
  <2>1. Len(g) = 0 /\ g = <<>>
    BY <1>8
  <2>2. l = <<>>
    BY <1>5, <2>1 DEF FlattenSeq
  <2>3. l \in Seq(Devices) /\ DOMAIN l = {}
    BY <2>2
  <2>. QED
    BY <1>6, <2>3
<1>9. CASE n # 0
  <2>1. l \in Seq(Devices) /\ Placed(l, g, n)
    BY <1>5, <1>7, <1>9, PlacedFlatten
  <2>2. ASSUME NEW k \in DOMAIN l
        PROVE  Kept(Filled(Range(pairs)), l, k)
    <3>1. k \in 1 .. Len(l)
      BY <2>1
    <3>2. PICK i \in 1 .. n :
             IndexOf(l, k) \in 1 .. Len(g[i]) /\ l[k] = g[i][IndexOf(l, k)]
      BY <2>1, <3>1, PlacedIndex
    <3>3. l[k].vp = pairs[i]
      BY <1>7, <3>2, Zenon DEF OfPairs
    <3>4. Filled(Range(pairs))[pairs[i]] = Devs(pairs[i]) /\ Devs(pairs[i]) # None
      BY <1>6, FilledType
    <3>5. Devs(pairs[i]) = g[i] /\ g[i] \in Seq(Devices)
      BY <1>4
    <3>6. DOMAIN g[i] = 1 .. Len(g[i])
      BY <3>5
    <3>. QED
      BY <3>2, <3>3, <3>4, <3>5, <3>6 DEF Kept
  <2>. QED
    BY <1>6, <2>1, <2>2
<1>. QED
  BY <1>8, <1>9

\* A scan that ends shows its list or fails.
LEMMA OfferKeeps ==
    ASSUME ScanInv, pc = "scan", NEW l \in Seq(Devices),
           Offer(l) \/ (Fail /\ UNCHANGED list),
           UNCHANGED <<peri, plugged, changes, said, asked, turn, typed>>,
           cache' \in [Pairs -> Seq(Devices) \cup {None}], Caches', seen' \in BOOLEAN,
           peri = "ftdi" => \A k \in DOMAIN l : Kept(cache', l, k),
           peri = "uart" /\ seen' => \A i \in DOMAIN l : Matches(l[i])
    PROVE  ScanInv'
<1>. USE DEF ScanInv
<1>1. Requests' = Requests
  BY DEF Requests
<1>2. Apart'
  BY DEF Apart
<1>3. CASE list' = l /\ l # <<>> /\ pc' = "choose" /\ UNCHANGED <<opened, ret>>
  <2>1. TypeOK'
    BY <1>1, <1>3 DEF TypeOK
  <2>2. ret # "open"
    BY DEF NotYet
  <2>3. Shown'
    <3>1. peri = "ftdi" => \A k \in DOMAIN l : Kept(cache', l, k)
      OBVIOUS
    <3>. QED
      BY <1>3, <3>1 DEF Shown, Kept, IndexOf
  <2>4. NotYet' /\ OpenedIsPicked'
    BY <1>3, <2>2 DEF NotYet, OpenedIsPicked
  <2>5. FallbackIsLast'
    <3>1. \A d : Matches(d)' = Matches(d)
      BY DEF Matches
    <3>. QED
      BY <1>3, <3>1 DEF FallbackIsLast, Matches
  <2>. QED
    BY <1>2, <2>1, <2>3, <2>4, <2>5
<1>4. CASE Fail /\ UNCHANGED list
  <2>1. TypeOK'
    BY <1>1, <1>4 DEF TypeOK, Fail
  <2>2. Shown' /\ NotYet' /\ OpenedIsPicked' /\ FallbackIsLast'
    BY <1>4 DEF Fail, Shown, NotYet, OpenedIsPicked, FallbackIsLast
  <2>. QED
    BY <1>2, <2>1, <2>2
<1>. QED
  BY <1>3, <1>4 DEF Offer

\* A scan of the USB bus.
LEMMA ScanUsbKeeps ==
    ASSUME ScanInv, ScanUsb
    PROVE  ScanInv'
<1>1. PICK l \in SetToSeqs(Found) : Offer(l)
  BY DEF ScanUsb
<1>2. Found \in SUBSET plugged
  BY DEF Found
<1>3. IsFiniteSet(Found) /\ Found \in SUBSET Devices
  BY <1>2, PluggedFinite DEF ScanInv
<1>4. l \in Seq(Devices)
  <2>1. l \in Seq(Found)
    BY <1>3, ListTypes
  <2>. QED
    BY <1>3, <2>1
<1>5. /\ pc = "scan" /\ peri = "usb"
      /\ UNCHANGED <<peri, plugged, changes, cache, said, asked, turn, seen, typed>>
  BY DEF ScanUsb
<1>6. cache' \in [Pairs -> Seq(Devices) \cup {None}] /\ seen' \in BOOLEAN
  BY <1>5 DEF ScanInv, TypeOK
<1>7. Caches'
  BY <1>5 DEF ScanInv, Caches
<1>. QED
  BY <1>1, <1>4, <1>5, <1>6, <1>7, OfferKeeps

\* A turn of a scan for serial ports.
LEMMA ScanUartKeeps ==
    ASSUME ScanInv, ScanUart
    PROVE  ScanInv'
<1>1. /\ pc = "scan" /\ peri = "uart"
      /\ UNCHANGED <<peri, plugged, changes, cache, said, asked, typed>>
      /\ seen' = (seen \/ Found # {})
  BY DEF ScanUart
<1>2. cache' \in [Pairs -> Seq(Devices) \cup {None}] /\ seen' \in BOOLEAN
  BY <1>1 DEF ScanInv, TypeOK
<1>3. Caches'
  BY <1>1 DEF ScanInv, Caches
<1>4. ~seen
  BY <1>1 DEF ScanInv, NotYet
<1>5. CASE plugged = {}
  <2>1. Fail /\ UNCHANGED <<turn, list>>
    BY <1>5 DEF ScanUart
  <2>2. <<>> \in Seq(Devices) /\ DOMAIN <<>> = {}
    OBVIOUS
  <2>. QED
    BY <1>1, <1>2, <1>3, <2>1, <2>2, OfferKeeps
<1>6. CASE plugged # {} /\ Enough
  <2>1. PICK S \in {Found, plugged} :
           /\ S = IF Found # {} THEN Found ELSE plugged
           /\ (\E l \in SetToSeqs(S) : Offer(l)) /\ UNCHANGED turn
    BY <1>6 DEF ScanUart
  <2>2. PICK l \in SetToSeqs(S) : Offer(l)
    BY <2>1
  <2>3. S \in SUBSET plugged
    BY <2>1 DEF Found
  <2>4. IsFiniteSet(S) /\ S \in SUBSET Devices
    BY <2>3, PluggedFinite DEF ScanInv
  <2>5. l \in Seq(S) /\ l \in Seq(Devices)
    <3>1. l \in Seq(S)
      BY <2>4, ListTypes
    <3>. QED
      BY <2>4, <3>1
  <2>6. seen' => \A i \in DOMAIN l : Matches(l[i])
    <3>. SUFFICES ASSUME seen', NEW i \in DOMAIN l
                  PROVE  Matches(l[i])
      OBVIOUS
    <3>1. Found # {} /\ S = Found
      BY <1>1, <1>4, <2>1
    <3>2. l[i] \in Found
      BY <2>5, <3>1
    <3>. QED
      BY <3>2 DEF Found
  <2>. QED
    BY <1>1, <1>2, <1>3, <2>1, <2>2, <2>5, <2>6, OfferKeeps
<1>7. CASE plugged # {} /\ ~Enough
  <2>1. turn' = turn + 1 /\ UNCHANGED <<pc, list, opened, ret>>
    BY <1>7 DEF ScanUart, NextTurn
  <2>2. Found = {} /\ turn + 1 # Turns
    BY <1>7 DEF Enough
  <2>3. turn' \in 0 .. Turns - 1
    BY <2>1, <2>2, DevicesAssumption DEF ScanInv, TypeOK
  <2>4. Requests' = Requests
    BY <1>1 DEF Requests
  <2>5. TypeOK'
    BY <1>1, <1>2, <2>1, <2>3, <2>4 DEF ScanInv, TypeOK, Picked, Entry
  <2>6. Apart'
    BY <1>1 DEF ScanInv, Apart
  <2>7. Shown' /\ NotYet' /\ OpenedIsPicked' /\ FallbackIsLast'
    BY <1>1, <1>4, <2>1, <2>2
       DEF ScanInv, Shown, NotYet, OpenedIsPicked, FallbackIsLast
  <2>. QED
    BY <1>3, <2>5, <2>6, <2>7 DEF ScanInv
<1>. QED
  BY <1>5, <1>6, <1>7

\* A scan of the FTDI controllers.
LEMMA ScanFtdiKeeps ==
    ASSUME ScanInv, ScanFtdi
    PROVE  ScanInv'
<1>1. /\ pc = "scan" /\ peri = "ftdi"
      /\ UNCHANGED <<peri, plugged, changes, said, asked, turn, seen, typed>>
  BY DEF ScanFtdi
<1>2. PICK S \in {Known, {asked}} : S = IF asked = None THEN Known ELSE {asked}
  OBVIOUS
<1>3. S \in SUBSET Pairs /\ IsFiniteSet(S)
  <2>1. CASE asked = None
    BY <1>2, <2>1, DevicesAssumption DEF Pairs
  <2>2. CASE asked # None
    <3>1. asked \in Pairs
      BY <1>1, <2>2 DEF ScanInv, TypeOK, Requests
    <3>. QED
      BY <1>2, <2>2, <3>1, FS_Singleton
  <2>. QED
    BY <2>1, <2>2
<1>4. seen' \in BOOLEAN
  BY <1>1 DEF ScanInv, TypeOK
<1>5. PICK pairs \in SetToSeqs(S) :
         IF \A i \in DOMAIN pairs : Sorted(pairs[i])
         THEN /\ cache' = Filled(Range(pairs))
              /\ LET l == FlattenSeq([i \in DOMAIN pairs |-> Devs(pairs[i])])
                 IN  Offer(l) \/ (Gone(l) /\ Fail /\ UNCHANGED list)
         ELSE /\ \E n \in 0 .. Len(pairs) - 1 :
                   /\ ~Sorted(pairs[n + 1])
                   /\ \A i \in 1 .. n : Sorted(pairs[i])
                   /\ cache' = Filled({pairs[i] : i \in 1 .. n})
              /\ Fail /\ UNCHANGED list
  BY <1>2 DEF ScanFtdi
<1>6. ASSUME NEW vps \in SUBSET Pairs, cache' = Filled(vps)
      PROVE  cache' \in [Pairs -> Seq(Devices) \cup {None}] /\ Caches'
  BY <1>6, FilledType DEF ScanInv, Caches
<1>7. CASE \A i \in DOMAIN pairs : Sorted(pairs[i])
  <2>1. PICK l : l = FlattenSeq([i \in DOMAIN pairs |-> Devs(pairs[i])])
    OBVIOUS
  <2>2. cache' = Filled(Range(pairs)) /\ (Offer(l) \/ (Fail /\ UNCHANGED list))
    BY <1>5, <1>7, <2>1, Zenon
  <2>3. /\ Range(pairs) \in SUBSET Pairs /\ l \in Seq(Devices)
        /\ \A k \in DOMAIN l : Kept(Filled(Range(pairs)), l, k)
    BY <1>3, <2>1, ScanList, Zenon DEF ScanInv
  <2>4. \A k \in DOMAIN l : Kept(cache', l, k)
    BY <2>2, <2>3, Zenon
  <2>. QED
    BY <1>1, <1>4, <1>6, <2>2, <2>3, <2>4, OfferKeeps
<1>8. CASE ~ \A i \in DOMAIN pairs : Sorted(pairs[i])
  <2>1. PICK n \in 0 .. Len(pairs) - 1 : cache' = Filled({pairs[i] : i \in 1 .. n})
    BY <1>5, <1>8
  <2>2. Fail /\ UNCHANGED list
    BY <1>5, <1>8
  <2>3. {pairs[i] : i \in 1 .. n} \in SUBSET Pairs
    <3>1. pairs \in Seq(S) /\ Len(pairs) \in Nat
      BY <1>3, ListTypes
    <3>2. \A i \in 1 .. n : pairs[i] \in S
      BY <3>1
    <3>. QED
      BY <1>3, <3>2
  <2>4. <<>> \in Seq(Devices) /\ DOMAIN <<>> = {}
    OBVIOUS
  <2>. QED
    BY <1>1, <1>4, <1>6, <2>1, <2>2, <2>3, <2>4, OfferKeeps
<1>. QED
  BY <1>7, <1>8

\* A call that ends leaves what is kept of the devices, and what it opened.
LEMMA EndKeeps ==
    ASSUME ScanInv, pc' = "done", ret' \in {"open", "failed"},
           UNCHANGED <<peri, plugged, changes, said, asked, turn, seen>>,
           list' \in Seq(Devices), typed' \in Int, opened' \in Devices \cup {None},
           cache' \in [Pairs -> Seq(Devices) \cup {None}], Caches', OpenedIsPicked'
    PROVE  ScanInv'
<1>1. Requests' = Requests
  BY DEF Requests
<1>2. TypeOK'
  BY <1>1 DEF ScanInv, TypeOK
<1>3. Apart' /\ Shown' /\ NotYet' /\ FallbackIsLast'
  BY DEF ScanInv, Apart, Shown, NotYet, FallbackIsLast
<1>. QED
  BY <1>2, <1>3 DEF ScanInv

\* What is not touched keeps its type.
LEMMA CacheStays ==
    ASSUME ScanInv, UNCHANGED cache
    PROVE  cache' \in [Pairs -> Seq(Devices) \cup {None}] /\ Caches'
BY DEF ScanInv, TypeOK, Caches

\* The caller asks for devices.
LEMMA AskKeeps ==
    ASSUME ScanInv, NEW request \in Requests, NEW line \in BOOLEAN, Ask(request, line)
    PROVE  ScanInv'
<1>1. /\ pc' = "scan" /\ said' = request /\ asked' \in {None, request}
      /\ turn' = 0 /\ seen' = FALSE /\ list' = <<>> /\ typed' = 1
      /\ opened' = None /\ ret' = "none"
      /\ UNCHANGED <<peri, plugged, changes, cache>>
  BY DEF Ask
<1>2. Requests' = Requests /\ None \in Requests
  BY <1>1 DEF Requests
<1>3. 0 \in 0 .. Turns - 1
  BY DevicesAssumption
<1>4. TypeOK'
  <2>1. <<>> \in Seq(Devices) /\ 1 \in Int
    OBVIOUS
  <2>2. {said', asked'} \subseteq Requests' /\ turn' \in 0 .. Turns - 1
    BY <1>1, <1>2, <1>3
  <2>. QED
    BY <1>1, <2>1, <2>2 DEF ScanInv, TypeOK
<1>5. Apart' /\ Caches' /\ Shown' /\ NotYet' /\ OpenedIsPicked' /\ FallbackIsLast'
  BY <1>1 DEF ScanInv, Apart, Caches, Shown, NotYet, OpenedIsPicked, FallbackIsLast
<1>. QED
  BY <1>4, <1>5 DEF ScanInv

\* The user types a number.
LEMMA ChooseKeeps ==
    ASSUME ScanInv, NEW count \in 0 .. Len(list) + 1, Choose(count)
    PROVE  ScanInv'
<1>1. /\ pc = "choose" /\ typed' = count
      /\ UNCHANGED <<peri, plugged, changes, cache, said, asked, turn, seen, list>>
  BY DEF Choose
<1>2. list \in Seq(Devices) /\ count \in Int
  BY DEF ScanInv, TypeOK
<1>3. cache' \in [Pairs -> Seq(Devices) \cup {None}] /\ Caches'
  BY <1>1, CacheStays
<1>4. CASE Fail
  <2>1. pc' = "done" /\ ret' = "failed" /\ opened' = None
    BY <1>4 DEF Fail
  <2>2. OpenedIsPicked'
    BY <2>1 DEF OpenedIsPicked
  <2>. QED
    BY <1>1, <1>2, <1>3, <2>1, <2>2, EndKeeps
<1>5. CASE Entry(count) \in DOMAIN list /\ pc' = "open" /\ UNCHANGED <<opened, ret>>
  <2>1. Requests' = Requests
    BY <1>1 DEF Requests
  <2>2. Picked' = Entry(count) /\ (DOMAIN list)' = DOMAIN list
    BY <1>1 DEF Picked, Entry
  <2>3. TypeOK'
    BY <1>1, <1>2, <1>3, <1>5, <2>1, <2>2 DEF ScanInv, TypeOK
  <2>4. Shown'
    BY <1>1 DEF ScanInv, Shown, Kept, IndexOf
  <2>5. Apart' /\ NotYet' /\ OpenedIsPicked' /\ FallbackIsLast'
    BY <1>1, <1>5 DEF ScanInv, Apart, NotYet, OpenedIsPicked, FallbackIsLast
  <2>. QED
    BY <1>3, <2>3, <2>4, <2>5 DEF ScanInv
<1>. QED
  BY <1>4, <1>5 DEF Choose

\* The entry is looked up and opened.
LEMMA OpenKeeps ==
    ASSUME ScanInv, Open
    PROVE  ScanInv'
<1>1. /\ pc = "open" /\ OpenEntry
      /\ UNCHANGED <<peri, plugged, changes, cache, said, asked, turn, seen, list, typed>>
  BY DEF Open
<1>2. /\ list \in Seq(Devices) /\ typed \in Int /\ plugged \subseteq Devices
      /\ Picked \in DOMAIN list /\ peri \in Peripherals
  BY <1>1 DEF ScanInv, TypeOK
<1>3. PICK p \in 1 .. Len(list) : p = Picked
  BY <1>2
<1>4. PICK d \in Devices : d = list[p]
  BY <1>2
<1>5. typed \in DOMAIN list => p = typed
  BY <1>2, <1>3 DEF Picked, Entry
<1>6. cache' \in [Pairs -> Seq(Devices) \cup {None}] /\ Caches'
  BY <1>1, CacheStays
<1>7. ASSUME Fail
      PROVE  ScanInv'
  <2>1. pc' = "done" /\ ret' = "failed" /\ opened' = None
    BY <1>7 DEF Fail
  <2>2. OpenedIsPicked'
    BY <2>1 DEF OpenedIsPicked
  <2>. QED
    BY <1>1, <1>2, <1>6, <2>1, <2>2, EndKeeps
<1>8. ASSUME NEW x \in Devices \cup {None}, Opens(x),
             x # None => IF peri = "ftdi" THEN x = d ELSE x.port = d.port
      PROVE  ScanInv'
  <2>1. pc' = "done" /\ ret' = "open" /\ opened' = x
    BY <1>8 DEF Opens
  <2>2. OpenedIsPicked'
    BY <1>1, <1>4, <1>5, <1>8, <2>1 DEF OpenedIsPicked
  <2>. QED
    BY <1>1, <1>2, <1>6, <2>1, <2>2, EndKeeps
<1>. DEFINE here == {e \in plugged : e.port = d.port}
<1>9. here # {} => (CHOOSE x \in here : TRUE) \in here
  OBVIOUS
<1>10. CASE peri = "uart"
  <2>1. Opens(IF here = {} THEN None ELSE CHOOSE x \in here : TRUE)
    BY <1>1, <1>3, <1>4, <1>10, Zenon DEF OpenEntry
  <2>2. PICK x : x = IF here = {} THEN None ELSE CHOOSE y \in here : TRUE
    OBVIOUS
  <2>3. Opens(x)
    BY <2>1, <2>2
  <2>4. x = None \/ x \in here
    BY <1>9, <2>2
  <2>5. x \in Devices \cup {None} /\ (x # None => x.port = d.port)
    BY <1>2, <2>4
  <2>. QED
    BY <1>8, <1>10, <2>3, <2>5
<1>11. CASE peri = "usb"
  <2>1. IF here # {} THEN Opens(CHOOSE x \in here : TRUE) ELSE Fail
    BY <1>1, <1>3, <1>4, <1>11, Zenon DEF OpenEntry
  <2>2. CASE here # {}
    <3>1. PICK x \in here : x = CHOOSE y \in here : TRUE
      BY <1>9, <2>2
    <3>2. Opens(x)
      BY <2>1, <2>2, <3>1
    <3>3. x \in Devices /\ x.port = d.port
      BY <1>2
    <3>. QED
      BY <1>8, <1>11, <3>2, <3>3
  <2>. QED
    BY <1>7, <2>1, <2>2
<1>12. CASE peri = "ftdi"
  <2>1. OpenNth(d.vp, IndexOf(list, p))
    BY <1>1, <1>3, <1>4, <1>12, Zenon DEF OpenEntry
  <2>2. Kept(cache, list, p)
    BY <1>1, <1>2, <1>3, <1>12 DEF ScanInv, Shown
  <2>3. Devs(d.vp) = cache[d.vp]
    BY <1>4, <2>2 DEF Kept, Devs
  <2>4. Devs(d.vp)[IndexOf(list, p)] = d
    BY <1>4, <2>2, <2>3 DEF Kept
  <2>5. Opens(d) \/ Fail
    BY <2>1, <2>4 DEF OpenNth
  <2>. QED
    BY <1>7, <1>8, <1>12, <2>5
<1>. QED
  BY <1>2, <1>10, <1>11, <1>12 DEF Peripherals

\* A device is opened by its place, without a list.
LEMMA OpenIndexKeeps ==
    ASSUME ScanInv, NEW vp \in Pairs, NEW n \in 1 .. 2, OpenIndex(vp, n)
    PROVE  ScanInv'
<1>1. /\ list' = <<>> /\ UNCHANGED <<peri, plugged, changes, said, asked, turn, seen, typed>>
      /\ cache' = IF Sorted(vp) THEN Filled({vp}) ELSE cache
      /\ IF Sorted(vp) THEN OpenNth(vp, n) ELSE Fail
  BY DEF OpenIndex
<1>2. cache' \in [Pairs -> Seq(Devices) \cup {None}] /\ Caches'
  <2>1. CASE Sorted(vp)
    <3>1. cache' = Filled({vp}) /\ {vp} \in SUBSET Pairs
      BY <1>1, <2>1
    <3>. QED
      BY <3>1, FilledType DEF ScanInv, Caches
  <2>2. CASE ~Sorted(vp)
    BY <1>1, <2>2, CacheStays
  <2>. QED
    BY <2>1, <2>2
<1>3. plugged \subseteq Devices /\ typed \in Int
  BY DEF ScanInv, TypeOK
<1>4. /\ pc' = "done" /\ ret' \in {"open", "failed"}
      /\ opened' \in Devices \cup {None}
  BY <1>1, <1>3 DEF OpenNth, Opens, Fail
<1>5. OpenedIsPicked' /\ list' \in Seq(Devices) /\ typed' \in Int
  BY <1>1, <1>3 DEF OpenedIsPicked
<1>. QED
  BY <1>1, <1>2, <1>4, <1>5, EndKeeps

\* A device comes or goes.
LEMMA ChangeKeeps ==
    ASSUME ScanInv, NEW d \in Devices, Unplug(d) \/ Plug(d)
    PROVE  ScanInv'
<1>1. /\ plugged' \subseteq Devices /\ changes' \in 0 .. MaxChanges
      /\ UNCHANGED <<peri, cache, pc, said, asked, turn, seen, list, typed, opened, ret>>
  BY DevicesAssumption DEF ScanInv, TypeOK, Unplug, Plug, Change, scanVars
<1>2. Apart'
  BY DEF ScanInv, Apart, Unplug, Plug, Change
<1>3. Requests' = Requests /\ Picked' = Picked /\ (DOMAIN list)' = DOMAIN list
  BY <1>1 DEF Requests, Picked, Entry
<1>4. TypeOK'
  BY <1>1, <1>3 DEF ScanInv, TypeOK
<1>5. Caches' /\ NotYet' /\ OpenedIsPicked'
  BY <1>1 DEF ScanInv, Caches, NotYet, OpenedIsPicked
<1>7. Shown'
  BY <1>1 DEF ScanInv, Shown, Kept, IndexOf
<1>6. FallbackIsLast'
  BY <1>1 DEF ScanInv, FallbackIsLast, Matches
<1>. QED
  BY <1>2, <1>4, <1>5, <1>6, <1>7 DEF ScanInv

-----------------------------------------------------------------------------
(* The theorems.                                                           *)

\* Nothing is listed at the start.
LEMMA InitInv == Init => ScanInv
<1>. SUFFICES ASSUME Init PROVE ScanInv
  OBVIOUS
<1>1. 0 \in 0 .. Turns - 1 /\ 0 \in 0 .. MaxChanges
  BY DevicesAssumption
<1>2. TypeOK
  <2>1. None \in Requests /\ <<>> \in Seq(Devices) /\ 1 \in Int
    BY DEF Requests
  <2>2. cache \in [Pairs -> Seq(Devices) \cup {None}]
    BY DEF Init
  <2>. QED
    BY <1>1, <2>1, <2>2 DEF Init, TypeOK
<1>3. Apart /\ Caches /\ Shown /\ NotYet /\ OpenedIsPicked /\ FallbackIsLast
  BY DEF Init, Apart, Caches, Shown, NotYet, OpenedIsPicked, FallbackIsLast
<1>. QED
  BY <1>2, <1>3 DEF ScanInv

\* Every step of a caller, a user or the bus keeps the invariant.
LEMMA NextInv == ScanInv /\ [Next]_vars => ScanInv'
<1>. SUFFICES ASSUME ScanInv, [Next]_vars PROVE ScanInv'
  OBVIOUS
<1>1. CASE UNCHANGED vars
  <2>1. UNCHANGED <<peri, plugged, changes, cache, pc, said, asked, turn, seen, list,
                    typed, opened, ret>>
    BY <1>1 DEF vars, scanVars
  <2>2. Requests' = Requests /\ Picked' = Picked /\ (DOMAIN list)' = DOMAIN list
    BY <2>1 DEF Requests, Picked, Entry
  <2>3. TypeOK'
    BY <2>1, <2>2 DEF ScanInv, TypeOK
  <2>4. Apart' /\ Caches' /\ NotYet' /\ OpenedIsPicked'
    BY <2>1 DEF ScanInv, Apart, Caches, NotYet, OpenedIsPicked
  <2>6. Shown'
    BY <2>1 DEF ScanInv, Shown, Kept, IndexOf
  <2>5. FallbackIsLast'
    BY <2>1 DEF ScanInv, FallbackIsLast, Matches
  <2>. QED
    BY <2>3, <2>4, <2>5, <2>6 DEF ScanInv
<1>2. CASE Next
  <2>1. ASSUME NEW request \in Requests, NEW line \in BOOLEAN, Ask(request, line)
        PROVE  ScanInv'
    BY <2>1, AskKeeps
  <2>2. CASE Scan
    BY <2>2, ScanUsbKeeps, ScanUartKeeps, ScanFtdiKeeps DEF Scan
  <2>3. ASSUME NEW count \in 0 .. Len(list) + 1, Choose(count)
        PROVE  ScanInv'
    BY <2>3, ChooseKeeps
  <2>4. CASE Open
    BY <2>4, OpenKeeps
  <2>5. ASSUME NEW vp \in Pairs, NEW n \in 1 .. 2, OpenIndex(vp, n)
        PROVE  ScanInv'
    BY <2>5, OpenIndexKeeps
  <2>6. ASSUME NEW d \in Devices, Unplug(d) \/ Plug(d)
        PROVE  ScanInv'
    BY <2>6, ChangeKeeps
  <2>. QED
    BY <1>2, <2>1, <2>2, <2>3, <2>4, <2>5, <2>6 DEF Next
<1>. QED
  BY <1>1, <1>2

\* For any devices and any comings and goings, the invariant holds.
THEOREM ScanInvariant == Spec => []ScanInv
BY InitInv, NextInv, PTL DEF Spec

\* The variables have their types, and a list that is shown has entries
\* (peripheral.py:84-201).
THEOREM TypeCorrect == Spec => []TypeOK
<1>1. ScanInv => TypeOK
  BY DEF ScanInv
<1>. QED
  BY <1>1, ScanInvariant, PTL

\* What is opened is the entry the user pointed at, however many devices and pairs
\* there are, whatever came or went since it was listed, and however old the list
\* of an FTDI pair is (peripheral.py:120-126, 170, 184-199; ftditool.py:87-129).
THEOREM OpenedIsPickedHolds == Spec => []OpenedIsPicked
<1>1. ScanInv => OpenedIsPicked
  BY DEF ScanInv
<1>. QED
  BY <1>1, ScanInvariant, PTL

\* A serial port that was not looked for is offered only when no turn of the scan
\* saw one that was, for any number of turns (peripheral.py:133-154).
THEOREM FallbackIsLastHolds == Spec => []FallbackIsLast
<1>1. ScanInv => FallbackIsLast
  BY DEF ScanInv
<1>. QED
  BY <1>1, ScanInvariant, PTL

=============================================================================
