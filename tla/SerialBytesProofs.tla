--------------------------- MODULE SerialBytesProofs ---------------------------
(***************************************************************************)
(* Proofs about SerialBytes, for any responses and packets, on a line of   *)
(* any length: types, what a parsed response is worth, and that the bytes  *)
(* are the queue of frames of FrameChannel.                                *)
(*                                                                         *)
(* What the host reads, however much and however often it stalls, leaves   *)
(* the end of one frame and whole frames behind it (TakeLeaves).  So the   *)
(* invariant has to follow one frame only: the one whose start byte the    *)
(* wait took, from there to the end of the wait (FrameInv).                *)
(***************************************************************************)
EXTENDS SerialBytes, SequenceTheorems, WellFoundedInduction, TLAPS

-----------------------------------------------------------------------------
(* The invariant.                                                          *)

\* The wait read the head of f: all of it, or on a polled line filler for
\* its end, and then it waits for no more than the payload.
Inside(f) ==
    /\ f.type \in Framed /\ f.type \in Accepts[wait] /\ head.type = f.type
    /\ head.len <= Len(part)
    /\ ~stalled => head.len = Len(f.payload) /\ part = f.payload
    /\ stalled  => /\ bus # "uart" /\ head.len <= Len(f.payload)
                   /\ Contains(part, START) => Channel!Holds(f)

\* What the wait returned for f.
Answer(f) ==
    /\ last.type = f.type
    /\ ~stalled => last.payload = f.payload
    /\ bus = "uart" => /\ Len(last.payload) <= Len(f.payload)
                       /\ last.payload = SubSeq(f.payload, 1, Len(last.payload))

FrameInv ==
    /\ pc \in {"idle", "start"} /\ sync => ~Contains(part, START)
    /\ pc \in {"head", "payload"} /\ sync => cur # <<>>
    /\ pc # "idle" => last = Pending
    /\ pc \in {"start", "head"} => ~stalled
    /\ pc = "start" => cur = <<>>
    /\ cur # <<>> => cur = <<cur[1]>> /\ cur[1].type # Noise
    /\ cur # <<>> /\ pc = "head"    => part = Tail(Cells(cur[1]))
    /\ cur # <<>> /\ pc = "payload" => Inside(cur[1])
    /\ cur # <<>> /\ pc = "idle" /\ last.end = "ok" => Answer(cur[1])

-----------------------------------------------------------------------------
(* Sequences of cells, one behind the other.                               *)

\* A set of naturals has a least one.
LEMMA Least ==
    ASSUME NEW T \in SUBSET Nat, T # {}
    PROVE  \E m \in T : \A k \in T : m <= k
<1>. DEFINE R == OpToRel(<, Nat)
<1>1. IsWellFoundedOn(R, Nat)
  BY NatLessThanWellFounded
<1>2. \A k, m \in Nat : k < m => <<k, m>> \in R
  BY DEF OpToRel
<1>. HIDE DEF R
<1>3. PICK m \in T : \A k \in T : ~ (<<k, m>> \in R)
  BY <1>1, WFMin, Zenon
<1>4. m \in Nat /\ \A k \in T : k \in Nat
  OBVIOUS
<1>5. \A k \in T : ~ (k < m)
  BY <1>2, <1>3, <1>4, Zenon
<1>. QED
  BY <1>4, <1>5

\* h[i] is the first i sequences of g, joined.
Joins(h, g, n) ==
    h[1] = g[1] /\ \A i \in 2 .. n : h[i] = h[i - 1] \o g[i]

\* There is such an h: the least i it could not be had for is one behind one it can.
LEMMA JoinExists ==
    ASSUME NEW S, NEW n \in Nat \ {0}, NEW g \in [1 .. n -> Seq(S)]
    PROVE  \E h \in [1 .. n -> Seq(S)] : Joins(h, g, n)
<1>. DEFINE Good(m) == \E h \in [1 .. m -> Seq(S)] : Joins(h, g, m)
            Bad     == {m \in 1 .. n : ~Good(m)}
<1>. SUFFICES ASSUME Bad # {}
              PROVE  FALSE
  OBVIOUS
<1>1. Bad \in SUBSET Nat
  OBVIOUS
<1>2. PICK m \in Bad : \A k \in Bad : m <= k
  <2>. HIDE DEF Bad
  <2>. QED
    BY <1>1, Least
<1>3. m \in 1 .. n /\ ~Good(m)
  OBVIOUS
<1>4. m # 1
  <2>1. [i \in 1 .. 1 |-> g[1]] \in [1 .. 1 -> Seq(S)]
    OBVIOUS
  <2>2. Joins([i \in 1 .. 1 |-> g[1]], g, 1)
    BY DEF Joins
  <2>. QED
    BY <1>3, <2>1, <2>2
<1>5. m - 1 \in 1 .. n /\ m - 1 \notin Bad
  <2>1. m - 1 \in 1 .. n /\ ~ (m <= m - 1)
    BY <1>3, <1>4
  <2>. HIDE DEF Bad
  <2>. QED
    BY <1>2, <2>1
<1>6. PICK h \in [1 .. m - 1 -> Seq(S)] : Joins(h, g, m - 1)
  BY <1>5
<1>7. PICK last2 \in Seq(S) : last2 = h[m - 1] \o g[m]
  <2>1. m - 1 \in 1 .. m - 1
    BY <1>5
  <2>2. h[m - 1] \in Seq(S) /\ g[m] \in Seq(S)
    BY <1>3, <1>6, <2>1
  <2>. QED
    BY <2>2, ConcatProperties
<1>. DEFINE more == [i \in 1 .. m |-> IF i = m THEN last2 ELSE h[i]]
<1>8. more \in [1 .. m -> Seq(S)] /\ more[1] = h[1]
  <2>1. \A i \in 1 .. m : i # m => i \in 1 .. m - 1
    BY <1>3
  <2>. QED
    BY <1>3, <1>4, <2>1
<1>9. ASSUME NEW i \in 2 .. m
      PROVE  more[i] = more[i - 1] \o g[i]
  <2>1. more[i - 1] = h[i - 1] /\ more[i] = IF i = m THEN last2 ELSE h[i]
    BY <1>3
  <2>2. i # m => i \in 2 .. m - 1
    BY <1>3
  <2>3. i # m => h[i] = h[i - 1] \o g[i]
    BY <1>6, <2>2 DEF Joins
  <2>. HIDE DEF more
  <2>. QED
    BY <1>7, <2>1, <2>3
<1>10. Joins(more, g, m)
  <2>. HIDE DEF more
  <2>. QED
    BY <1>6, <1>8, <1>9 DEF Joins
<1>. QED
  BY <1>3, <1>8, <1>10

\* FlattenSeq joins them.
LEMMA FlattenJoins ==
    ASSUME NEW S, NEW n \in Nat \ {0}, NEW g \in [1 .. n -> Seq(S)]
    PROVE  \E h \in [1 .. n -> Seq(S)] : Joins(h, g, n) /\ FlattenSeq(g) = h[n]
<1>. DEFINE turn(f) == [i \in 1 .. n |-> IF i = 1 THEN g[i] ELSE f[i - 1] \o g[i]]
            flatten == CHOOSE f : f = turn(f)
<1>1. Len(g) = n
  BY SeqDef
<1>2. FlattenSeq(g) = flatten[n]
  BY <1>1 DEF FlattenSeq
<1>3. PICK h \in [1 .. n -> Seq(S)] : Joins(h, g, n)
  BY JoinExists
<1>4. h = turn(h)
  <2>1. ASSUME NEW i \in 1 .. n
        PROVE  h[i] = IF i = 1 THEN g[i] ELSE h[i - 1] \o g[i]
    <3>1. i # 1 => i \in 2 .. n
      OBVIOUS
    <3>. QED
      BY <1>3, <3>1 DEF Joins
  <2>. QED
    BY <2>1
<1>5. flatten = turn(flatten)
  BY <1>4, Zenon
<1>. HIDE DEF flatten
<1>6. \A i \in 1 .. n : flatten[i] = IF i = 1 THEN g[i] ELSE flatten[i - 1] \o g[i]
  BY <1>5
<1>7. flatten[n] = h[n]
  <2>. DEFINE Bad == {i \in 1 .. n : flatten[i] # h[i]}
  <2>. SUFFICES ASSUME Bad # {}
                PROVE  FALSE
    <3>1. n \in 1 .. n
      OBVIOUS
    <3>. QED
      BY <3>1
  <2>1. Bad \in SUBSET Nat
    OBVIOUS
  <2>2. PICK m \in Bad : \A k \in Bad : m <= k
    <3>. HIDE DEF Bad
    <3>. QED
      BY <2>1, Least
  <2>3. m \in 1 .. n /\ flatten[m] # h[m]
    OBVIOUS
  <2>4. m # 1
    BY <1>3, <1>6, <2>3 DEF Joins
  <2>5. m - 1 \in 1 .. n /\ m \in 2 .. n /\ m - 1 \notin Bad
    BY <2>2, <2>3, <2>4
  <2>6. flatten[m - 1] = h[m - 1]
    BY <2>5
  <2>7. h[m] = h[m - 1] \o g[m] /\ flatten[m] = flatten[m - 1] \o g[m]
    BY <1>3, <1>6, <2>3, <2>4, <2>5 DEF Joins
  <2>. QED
    BY <2>3, <2>6, <2>7
<1>. QED
  BY <1>2, <1>3, <1>7

\* The library's facts on sequences, of cells.
LEMMA Joined ==
    ASSUME NEW a \in Seq(Nat), NEW b \in Seq(Nat)
    PROVE  /\ a \o b \in Seq(Nat) /\ Len(a \o b) = Len(a) + Len(b)
           /\ Len(a) \in Nat /\ Len(b) \in Nat
           /\ \A i \in 1 .. Len(a) + Len(b) :
                 (a \o b)[i] = IF i <= Len(a) THEN a[i] ELSE b[i - Len(a)]
BY ConcatProperties, LenProperties

\* Joining is associative.
LEMMA JoinedTwice ==
    ASSUME NEW a \in Seq(Nat), NEW b \in Seq(Nat), NEW c \in Seq(Nat)
    PROVE  (a \o b) \o c = a \o (b \o c)
BY ConcatAssociative

\* A frame is a byte at least.
LEMMA CellsType ==
    ASSUME NEW f \in Frames
    PROVE  /\ f.type \in Framed \cup Signals /\ f.payload \in Seq(Nat)
           /\ f.type \in Signals => f.payload = <<>>
           /\ Cells(f) \in Seq(Nat) /\ Len(Cells(f)) \in Nat \ {0}
<1>1. /\ f.type \in Framed \cup Signals /\ f.payload \in Seq(Nat)
      /\ f.type \in Signals => f.payload = <<>>
  <2>1. CASE f \in [type : Signals, payload : {<<>>}]
    BY <2>1, EmptySeq
  <2>2. CASE f \in [type : {FPType.CMD}, payload : Responses]
    BY <2>2, CellsAssumption DEF Framed, FPType, Signals, Noise
  <2>3. CASE f \in [type : {FPType.DATA}, payload : Packets]
    BY <2>3, CellsAssumption DEF Framed, FPType, Signals, Noise
  <2>. QED
    BY <2>1, <2>2, <2>3 DEF Frames
<1>2. Cells(f) \in Seq(Nat) /\ Len(Cells(f)) \in Nat \ {0}
  <2>1. CASE f.type \in Framed
    <3>1. <<START, f.type, Len(f.payload), Junk>> \in Seq(Nat)
          /\ Len(<<START, f.type, Len(f.payload), Junk>>) = 4
      BY <1>1, <2>1, LenProperties DEF START, Junk, Framed, FPType
    <3>2. Cells(f) = <<START, f.type, Len(f.payload), Junk>> \o f.payload
      <4>1. f.type # FPType.PINGR /\ f.type # Noise
        BY <2>1 DEF Framed, FPType, Noise
      <4>. QED
        BY <2>1, <4>1, Zenon DEF Cells
    <3>. QED
      BY <1>1, <3>1, <3>2, ConcatProperties, LenProperties
  <2>2. CASE f.type = FPType.PINGR
    <3>1. f.type \notin Framed /\ f.type # Noise
      BY <2>2 DEF Framed, FPType, Noise
    <3>2. Cells(f) = <<START, f.type, Junk, Junk, Junk>>
      BY <2>2, <3>1, Zenon DEF Cells
    <3>. QED
      BY <2>2, <3>2 DEF START, Junk, FPType
  <2>3. CASE f.type = Noise
    <3>1. f.type \notin Framed /\ f.type # FPType.PINGR
      BY <2>3 DEF Framed, FPType, Noise
    <3>2. Cells(f) = <<Junk>>
      BY <2>3, <3>1, Zenon DEF Cells
    <3>. QED
      BY <3>2 DEF Junk
  <2>4. CASE f.type \in {FPType.ACK, FPType.ABORT}
    <3>1. f.type \notin Framed /\ f.type # FPType.PINGR /\ f.type # Noise
      BY <2>4 DEF Framed, FPType, Noise
    <3>2. Cells(f) = <<START, f.type>>
      BY <3>1, Zenon DEF Cells
    <3>. QED
      BY <2>4, <3>2 DEF START, FPType
  <2>. QED
    BY <1>1, <2>1, <2>2, <2>3, <2>4 DEF Signals
<1>. QED
  BY <1>1, <1>2

\* No frames, no cells; any frames, a sequence of cells.
LEMMA FlatType ==
    /\ Flat(<<>>) = <<>>
    /\ \A s \in Seq(Frames) : Flat(s) \in Seq(Nat)
<1>1. Flat(<<>>) = <<>>
  <2>1. DOMAIN <<>> = {}
    OBVIOUS
  <2>2. [i \in DOMAIN <<>> |-> Cells(<<>>[i])] = <<>>
    BY <2>1
  <2>. QED
    BY <2>2 DEF Flat, FlattenSeq
<1>2. ASSUME NEW s \in Seq(Frames)
      PROVE  Flat(s) \in Seq(Nat)
  <2>1. CASE s = <<>>
    BY <1>1, <2>1, EmptySeq
  <2>2. CASE s # <<>>
    <3>1. PICK n \in Nat \ {0} : n = Len(s)
      BY <2>2, EmptySeq
    <3>2. DOMAIN s = 1 .. n /\ \A i \in 1 .. n : s[i] \in Frames
      BY <3>1
    <3>3. PICK g \in [1 .. n -> Seq(Nat)] : g = [i \in 1 .. n |-> Cells(s[i])]
      BY <3>2, CellsType
    <3>4. Flat(s) = FlattenSeq(g)
      BY <3>2, <3>3 DEF Flat
    <3>5. PICK h \in [1 .. n -> Seq(Nat)] : FlattenSeq(g) = h[n]
      BY FlattenJoins
    <3>. QED
      BY <3>4, <3>5
  <2>. QED
    BY <2>1, <2>2
<1>. QED
  BY <1>1, <1>2

\* The cells of the first frame, then those of the others.
LEMMA FlatHead ==
    ASSUME NEW s \in Seq(Frames), s # <<>>
    PROVE  Flat(s) = Cells(s[1]) \o Flat(Tail(s))
<1>1. PICK n \in Nat \ {0} : n = Len(s)
  BY EmptySeq
<1>2. DOMAIN s = 1 .. n /\ \A i \in 1 .. n : s[i] \in Frames
  BY <1>1
<1>3. PICK g \in [1 .. n -> Seq(Nat)] : g = [i \in 1 .. n |-> Cells(s[i])]
  BY <1>2, CellsType
<1>4. Flat(s) = FlattenSeq(g)
  BY <1>2, <1>3 DEF Flat
<1>5. PICK h \in [1 .. n -> Seq(Nat)] : Joins(h, g, n) /\ FlattenSeq(g) = h[n]
  BY FlattenJoins
<1>6. g[1] = Cells(s[1]) /\ h[1] = g[1] /\ g[1] \in Seq(Nat)
  BY <1>3, <1>5 DEF Joins
<1>7. PICK t \in Seq(Frames) : t = Tail(s)
  BY HeadTailProperties
<1>8. Len(t) = n - 1 /\ \A i \in 1 .. n - 1 : t[i] = s[i + 1]
  BY <1>1, <1>7, HeadTailProperties
<1>9. CASE n = 1
  <2>1. t = <<>>
    BY <1>8, <1>9, EmptySeq
  <2>2. Flat(t) = <<>>
    BY <2>1, FlatType
  <2>3. g[1] \o <<>> = g[1]
    BY <1>6, ConcatEmptySeq
  <2>. QED
    BY <1>4, <1>5, <1>6, <1>7, <1>9, <2>2, <2>3
<1>10. CASE n # 1
  <2>1. n - 1 \in Nat \ {0}
    BY <1>10
  <2>2. DOMAIN t = 1 .. n - 1
    BY <1>8
  <2>3. PICK d \in [1 .. n - 1 -> Seq(Nat)] : d = [i \in 1 .. n - 1 |-> Cells(t[i])]
    <3>1. \A i \in 1 .. n - 1 : t[i] \in Frames
      BY <1>8
    <3>. QED
      BY <3>1, CellsType
  <2>4. Flat(t) = FlattenSeq(d)
    BY <2>2, <2>3 DEF Flat
  <2>5. PICK e \in [1 .. n - 1 -> Seq(Nat)] : Joins(e, d, n - 1) /\ FlattenSeq(d) = e[n - 1]
    BY <2>1, FlattenJoins
  <2>6. \A i \in 1 .. n - 1 : g[i + 1] = d[i]
    <3>. TAKE i \in 1 .. n - 1
    <3>1. i + 1 \in 1 .. n
      OBVIOUS
    <3>. QED
      BY <1>3, <1>8, <2>3, <3>1
  <2>9. \A i \in 1 .. n - 1 : e[i] \in Seq(Nat) /\ d[i] \in Seq(Nat)
    OBVIOUS
  <2>. DEFINE Bad == {i \in 1 .. n - 1 : h[i + 1] # g[1] \o e[i]}
  <2>7. Bad = {}
    <3>. SUFFICES ASSUME Bad # {}
                  PROVE  FALSE
      OBVIOUS
    <3>1. Bad \in SUBSET Nat
      OBVIOUS
    <3>2. PICK m \in Bad : \A k \in Bad : m <= k
      <4>. HIDE DEF Bad
      <4>. QED
        BY <3>1, Least
    <3>3. m \in 1 .. n - 1 /\ h[m + 1] # g[1] \o e[m]
      OBVIOUS
    <3>4. h[m + 1] = h[m] \o d[m]
      <4>1. m + 1 \in 2 .. n /\ (m + 1) - 1 = m
        BY <3>3
      <4>2. h[m + 1] = h[(m + 1) - 1] \o g[m + 1]
        BY <1>5, <4>1 DEF Joins
      <4>. QED
        BY <2>6, <3>3, <4>1, <4>2
    <3>5. m # 1
      BY <1>6, <2>5, <3>3, <3>4 DEF Joins
    <3>6. m - 1 \in 1 .. n - 1 /\ m \in 2 .. n - 1 /\ ~ (m <= m - 1)
      BY <3>3, <3>5
    <3>7. h[m] = g[1] \o e[m - 1]
      <4>1. m - 1 \notin Bad
        <5>. HIDE DEF Bad
        <5>. QED
          BY <3>2, <3>6
      <4>2. (m - 1) + 1 = m
        BY <3>3
      <4>3. h[(m - 1) + 1] = g[1] \o e[m - 1]
        BY <3>6, <4>1
      <4>. QED
        BY <4>2, <4>3
    <3>8. e[m] = e[m - 1] \o d[m]
      BY <2>5, <3>6 DEF Joins
    <3>9. (g[1] \o e[m - 1]) \o d[m] = g[1] \o (e[m - 1] \o d[m])
      <4>1. e[m - 1] \in Seq(Nat) /\ d[m] \in Seq(Nat)
        BY <2>9, <3>3, <3>6
      <4>. QED
        BY <1>6, <4>1, JoinedTwice
    <3>. QED
      BY <3>3, <3>4, <3>7, <3>8, <3>9
  <2>8. h[n] = g[1] \o e[n - 1]
    <3>1. n - 1 \in 1 .. n - 1 /\ (n - 1) + 1 = n
      BY <2>1
    <3>. QED
      BY <2>7, <3>1
  <2>. QED
    BY <1>4, <1>5, <1>6, <1>7, <2>4, <2>5, <2>8
<1>. QED
  BY <1>9, <1>10

\* From the n-th frame on.
From(s, n) == SubSeq(s, n, Len(s))

\* What is left of a sequence from its n-th on.
LEMMA FromType ==
    ASSUME NEW S, NEW s \in Seq(S), NEW n \in 1 .. Len(s) + 1
    PROVE  /\ From(s, n) \in Seq(S) /\ Len(From(s, n)) = Len(s) - n + 1
           /\ \A i \in 1 .. Len(s) - n + 1 : From(s, n)[i] = s[n + i - 1]
           /\ From(s, 1) = s /\ From(s, Len(s) + 1) = <<>>
           /\ n <= Len(s) => /\ From(s, n) # <<>> /\ From(s, n)[1] = s[n]
                             /\ Tail(From(s, n)) = From(s, n + 1)
<1>1. PICK l \in Nat : l = Len(s)
  OBVIOUS
<1>2. \A i \in n .. l : s[i] \in S
  BY <1>1
<1>3. /\ From(s, n) \in Seq(S) /\ Len(From(s, n)) = l - n + 1
      /\ \A i \in 1 .. l - n + 1 : From(s, n)[i] = s[n + i - 1]
  BY <1>1, <1>2, SubSeqProperties DEF From
<1>4. From(s, 1) = s /\ From(s, Len(s) + 1) = <<>>
  BY <1>1, SubSeqFull, SubSeqEmpty DEF From
<1>5. ASSUME n <= l
      PROVE  /\ From(s, n) # <<>> /\ From(s, n)[1] = s[n]
             /\ Tail(From(s, n)) = From(s, n + 1)
  <2>1. n \in 1 .. Len(s) /\ l \in n .. Len(s) /\ n + 1 - 1 = n
    BY <1>1, <1>5
  <2>2. Tail(SubSeq(s, n, l)) = SubSeq(s, n + 1, l)
    BY <2>1, HeadTailOfSubSeq
  <2>3. 1 \in 1 .. l - n + 1 /\ Len(From(s, n)) # 0
    BY <1>1, <1>3, <1>5
  <2>. QED
    BY <1>1, <1>3, <2>1, <2>2, <2>3, EmptySeq DEF From
<1>. QED
  BY <1>1, <1>3, <1>4, <1>5

\* Behind the first j cells.
LEMMA CellsFrom ==
    ASSUME NEW c \in Seq(Nat), NEW j \in 0 .. Len(c)
    PROVE  /\ From(c, j + 1) \in Seq(Nat) /\ Len(From(c, j + 1)) = Len(c) - j
           /\ \A i \in 1 .. Len(c) - j : From(c, j + 1)[i] = c[j + i]
<1>1. PICK l \in Nat : l = Len(c) /\ j \in 0 .. l
  BY LenProperties
<1>2. PICK n \in 1 .. Len(c) + 1 : n = j + 1 /\ l - n + 1 = l - j
  <2>1. j + 1 \in 1 .. Len(c) + 1 /\ l - (j + 1) + 1 = l - j
    BY <1>1
  <2>. QED
    BY <2>1
<1>3. \A i \in 1 .. l - j : n + i - 1 = j + i
  BY <1>1, <1>2
<1>4. /\ From(c, n) \in Seq(Nat) /\ Len(From(c, n)) = Len(c) - n + 1
      /\ \A i \in 1 .. Len(c) - n + 1 : From(c, n)[i] = c[n + i - 1]
  BY FromType
<1>5. \A i \in 1 .. l - j : From(c, n)[i] = c[j + i]
  BY <1>1, <1>2, <1>3, <1>4
<1>. QED
  BY <1>1, <1>2, <1>4, <1>5

\* The cells of the n-th frame, then those of the frames behind it.
LEMMA FlatFrom ==
    ASSUME NEW s \in Seq(Frames), NEW n \in 1 .. Len(s)
    PROVE  /\ Flat(From(s, n)) = Cells(s[n]) \o Flat(From(s, n + 1))
           /\ Flat(From(s, n + 1)) \in Seq(Nat)
<1>1. n \in 1 .. Len(s) + 1 /\ n + 1 \in 1 .. Len(s) + 1
  OBVIOUS
<1>2. /\ From(s, n) \in Seq(Frames) /\ From(s, n + 1) \in Seq(Frames)
      /\ From(s, n) # <<>> /\ From(s, n)[1] = s[n] /\ Tail(From(s, n)) = From(s, n + 1)
  BY <1>1, FromType
<1>. QED
  BY <1>2, FlatHead, FlatType

\* What is in front of the n-th frame has a cell at least for each frame there.
LEMMA FlatSplit ==
    ASSUME NEW s \in Seq(Frames)
    PROVE  \A n \in 1 .. Len(s) + 1 :
              \E u \in Seq(Nat) : Len(u) >= n - 1 /\ Flat(s) = u \o Flat(From(s, n))
<1>. DEFINE Good(n) == \E u \in Seq(Nat) :
                          Len(u) >= n - 1 /\ Flat(s) = u \o Flat(From(s, n))
            Bad     == {n \in 1 .. Len(s) + 1 : ~Good(n)}
<1>0. PICK l \in Nat : l = Len(s)
  OBVIOUS
<1>. SUFFICES ASSUME Bad # {}
              PROVE  FALSE
  OBVIOUS
<1>1. Bad \in SUBSET Nat
  OBVIOUS
<1>2. PICK m \in Bad : \A k \in Bad : m <= k
  <2>. HIDE DEF Bad
  <2>. QED
    BY <1>1, Least
<1>3. m \in 1 .. l + 1 /\ ~Good(m)
  BY <1>0
<1>4. m # 1
  <2>1. Flat(s) \in Seq(Nat) /\ From(s, 1) = s
    BY FlatType, SubSeqFull DEF From
  <2>2. Flat(s) = <<>> \o Flat(From(s, 1)) /\ <<>> \in Seq(Nat) /\ Len(<<>>) = 0
    BY <2>1, ConcatEmptySeq, EmptySeq
  <2>3. Good(1)
    <3>1. Len(<<>>) >= 1 - 1
      BY <2>2
    <3>. QED
      BY <2>2, <3>1, Zenon
  <2>. HIDE DEF Good
  <2>. QED
    BY <1>3, <2>3
<1>5. m - 1 \in 1 .. l /\ ~ (m <= m - 1) /\ (m - 1) + 1 = m
  BY <1>0, <1>3, <1>4
<1>6. Good(m - 1)
  <2>1. m - 1 \notin Bad
    <3>. HIDE DEF Bad
    <3>. QED
      BY <1>2, <1>5
  <2>2. m - 1 \in 1 .. Len(s) + 1
    BY <1>0, <1>5
  <2>. HIDE DEF Good
  <2>. QED
    BY <2>1, <2>2
<1>7. PICK u \in Seq(Nat) : Len(u) >= m - 2 /\ Flat(s) = u \o Flat(From(s, m - 1))
  <2>1. (m - 1) - 1 = m - 2
    BY <1>5
  <2>. QED
    BY <1>6, <2>1
<1>8. /\ Flat(From(s, m - 1)) = Cells(s[m - 1]) \o Flat(From(s, m))
      /\ Flat(From(s, m)) \in Seq(Nat)
  <2>1. m - 1 \in 1 .. Len(s)
    BY <1>0, <1>5
  <2>2. /\ Flat(From(s, m - 1)) = Cells(s[m - 1]) \o Flat(From(s, (m - 1) + 1))
        /\ Flat(From(s, (m - 1) + 1)) \in Seq(Nat)
    BY <2>1, FlatFrom
  <2>. QED
    BY <1>5, <2>2
<1>9. PICK c \in Seq(Nat) : c = Cells(s[m - 1]) /\ Len(c) \in Nat \ {0}
  <2>1. s[m - 1] \in Frames
    BY <1>0, <1>5
  <2>. QED
    BY <2>1, CellsType
<1>10. u \o (c \o Flat(From(s, m))) = (u \o c) \o Flat(From(s, m))
  BY <1>8, JoinedTwice
<1>11. u \o c \in Seq(Nat) /\ Len(u \o c) >= m - 1
  <2>1. u \o c \in Seq(Nat) /\ Len(u \o c) = Len(u) + Len(c) /\ Len(u) \in Nat
    BY ConcatProperties, LenProperties
  <2>. QED
    BY <1>5, <1>7, <1>9, <2>1
<1>12. Good(m)
  BY <1>7, <1>8, <1>9, <1>10, <1>11
<1>. QED
  BY <1>3, <1>12

-----------------------------------------------------------------------------
(* What a read leaves.                                                     *)

\* The n-th of the frames on the line is begun, and j of its cells are read; n is
\* 0 if the host is still inside the frame before them.
Begins(k, n, j) ==
    /\ chan' = From(chan, n + 1)
    /\ IF n = 0
       THEN /\ k <= Len(part) /\ j = k
            /\ part' = From(part, k + 1)
       ELSE /\ Len(part) + n <= k
            /\ j \in 1 .. Len(Cells(chan[n])) /\ j <= k - Len(part) - n + 1
            /\ part' = From(Cells(chan[n]), j + 1)

\* Of the frames that are still whole there is a greatest number.
LEMMA MaxIsOne ==
    ASSUME NEW n \in Nat, NEW T \in SUBSET (0 .. n), T # {}
    PROVE  Max(T) \in T /\ \A t \in T : t <= Max(T)
<1>. DEFINE U == {m \in Nat : \E t \in T : m = n - t}
<1>1. U \in SUBSET Nat /\ U # {}
  <2>1. PICK t \in T : TRUE
    OBVIOUS
  <2>2. n - t \in Nat
    BY <2>1
  <2>. QED
    BY <2>1, <2>2
<1>2. PICK m \in U : \A k \in U : m <= k
  <2>. HIDE DEF U
  <2>. QED
    BY <1>1, Least
<1>3. PICK x \in T : m = n - x
  BY <1>2
<1>4. ASSUME NEW y \in T
      PROVE  x >= y
  <2>1. n - y \in U
    OBVIOUS
  <2>2. m <= n - y
    BY <1>2, <2>1
  <2>. QED
    BY <1>3, <2>2
<1>5. \E z \in T : \A y \in T : z >= y
  BY <1>3, <1>4
<1>. QED
  BY <1>5, Zenon DEF Max

\* k cells of a, c and t that end j cells into c leave the end of c, and t.
LEMMA WhatIsLeft ==
    ASSUME NEW a \in Seq(Nat), NEW c \in Seq(Nat), NEW t \in Seq(Nat),
           NEW j \in 0 .. Len(c)
    PROVE  SubSeq(LastOnes(a \o (c \o t), Len(c) - j + Len(t)), 1, Len(c) - j) = From(c, j + 1)
<1>1. PICK la \in Nat, lc \in Nat, lt \in Nat : la = Len(a) /\ lc = Len(c) /\ lt = Len(t)
  BY LenProperties
<1>2. PICK ct \in Seq(Nat) : ct = c \o t /\ Len(ct) = lc + lt /\ \A i \in 1 .. lc : ct[i] = c[i]
  <2>1. \A i \in 1 .. lc : i \in 1 .. lc + lt /\ i <= lc
    OBVIOUS
  <2>. QED
    BY <1>1, <2>1, Joined
<1>3. PICK w \in Seq(Nat) : /\ w = a \o ct /\ Len(w) = la + (lc + lt)
                            /\ \A i \in 1 .. lc : w[la + i] = c[i]
  <2>1. a \o ct \in Seq(Nat) /\ Len(a \o ct) = la + (lc + lt)
    BY <1>1, <1>2, Joined
  <2>2. \A i \in 1 .. la + (lc + lt) : (a \o ct)[i] = IF i <= la THEN a[i] ELSE ct[i - la]
    BY <1>1, <1>2, Joined
  <2>3. ASSUME NEW i \in 1 .. lc
        PROVE  (a \o ct)[la + i] = c[i]
    <3>1. la + i \in 1 .. la + (lc + lt) /\ ~ (la + i <= la) /\ la + i - la = i
      OBVIOUS
    <3>2. PICK m \in 1 .. la + (lc + lt) : m = la + i /\ ~ (m <= la) /\ m - la = i
      BY <3>1
    <3>3. (a \o ct)[m] = IF m <= la THEN a[m] ELSE ct[m - la]
      BY <2>2
    <3>. QED
      BY <1>2, <3>2, <3>3
  <2>. QED
    BY <2>1, <2>3
<1>4. j \in Nat /\ j <= lc
  BY <1>1
<1>5. PICK q \in Seq(Nat) : /\ q = LastOnes(w, lc - j + lt)
                            /\ \A i \in 1 .. lc - j : q[i] = c[j + i]
  <2>1. LastOnes(w, lc - j + lt) = From(w, la + j + 1)
    <3>1. Len(w) - (lc - j + lt) + 1 = la + j + 1
      BY <1>3, <1>4
    <3>. QED
      BY <1>3, <3>1 DEF LastOnes, From
  <2>2. la + j + 1 \in 1 .. Len(w) + 1 /\ Len(w) - (la + j + 1) + 1 = lc - j + lt
    BY <1>3, <1>4
  <2>3. /\ From(w, la + j + 1) \in Seq(Nat)
        /\ \A i \in 1 .. Len(w) - (la + j + 1) + 1 : From(w, la + j + 1)[i] = w[la + j + 1 + i - 1]
    BY <2>2, FromType
  <2>4. ASSUME NEW i \in 1 .. lc - j
        PROVE  From(w, la + j + 1)[i] = c[j + i]
    <3>1. i \in 1 .. Len(w) - (la + j + 1) + 1 /\ la + j + 1 + i - 1 = la + (j + i)
          /\ j + i \in 1 .. lc
      BY <1>4, <2>2
    <3>. QED
      BY <1>3, <2>3, <3>1
  <2>. QED
    BY <2>1, <2>3, <2>4
<1>6. /\ SubSeq(q, 1, lc - j) \in Seq(Nat) /\ Len(SubSeq(q, 1, lc - j)) = lc - j
      /\ \A i \in 1 .. lc - j : SubSeq(q, 1, lc - j)[i] = q[i]
  <2>1. 1 \in Int /\ lc - j \in Int /\ lc - j - 1 + 1 = lc - j
        /\ (IF 1 <= lc - j THEN lc - j - 1 + 1 ELSE 0) = lc - j
    BY <1>4
  <2>2. \A i \in 1 .. lc - j : q[i] \in Nat /\ 1 + i - 1 = i
    <3>. TAKE i \in 1 .. lc - j
    <3>1. j + i \in 1 .. lc /\ c[j + i] \in Nat
      BY <1>1, <1>4
    <3>. QED
      BY <1>5, <3>1
  <2>3. /\ SubSeq(q, 1, lc - j) \in Seq(Nat)
        /\ Len(SubSeq(q, 1, lc - j)) = IF 1 <= lc - j THEN lc - j - 1 + 1 ELSE 0
        /\ \A i \in 1 .. lc - j - 1 + 1 : SubSeq(q, 1, lc - j)[i] = q[1 + i - 1]
    BY <2>1, <2>2, SubSeqProperties
  <2>. QED
    BY <2>1, <2>2, <2>3
<1>7. /\ From(c, j + 1) \in Seq(Nat) /\ Len(From(c, j + 1)) = lc - j
      /\ \A i \in 1 .. lc - j : From(c, j + 1)[i] = c[j + i]
  BY <1>1, CellsFrom
<1>8. SubSeq(q, 1, lc - j) = From(c, j + 1)
  <2>1. \A i \in 1 .. lc - j : SubSeq(q, 1, lc - j)[i] = From(c, j + 1)[i]
    BY <1>5, <1>6, <1>7
  <2>. QED
    BY <1>6, <1>7, <2>1, SeqEqual
<1>. QED
  BY <1>1, <1>2, <1>3, <1>5, <1>8

\* Whatever is read leaves the end of the frame the host is inside and whole frames.
LEMMA TakeLeaves ==
    ASSUME chan \in Seq(Frames), part \in Seq(Nat),
           NEW k \in Nat, k <= Len(Stream), Take(k)
    PROVE  \E n \in 0 .. Len(chan), j \in Nat : Begins(k, n, j)
<1>1. PICK l \in Nat, p \in Nat : l = Len(chan) /\ p = Len(part)
  BY LenProperties
<1>2. PICK F \in Seq(Nat) : F = Flat(chan)
  BY FlatType
<1>3. Stream \in Seq(Nat) /\ Len(Stream) = p + Len(F) /\ Len(F) \in Nat
  BY <1>1, <1>2, Joined DEF Stream
<1>4. PICK left \in Nat : left = Len(Stream) - k
  <2>1. Len(Stream) - k \in Nat
    BY <1>3
  <2>. QED
    BY <2>1
<1>5. ASSUME NEW n \in 0 .. l
      PROVE  LastOnes(chan, n) = From(chan, l - n + 1)
  BY <1>1 DEF LastOnes, From
<1>. DEFINE T == {n \in 0 .. Len(chan) : Len(Flat(LastOnes(chan, n))) <= left}
<1>6. T \in SUBSET (0 .. l) /\ T # {}
  <2>1. LastOnes(chan, 0) = <<>>
    <3>1. From(chan, l + 1) = <<>> /\ l - 0 + 1 = l + 1 /\ 0 \in 0 .. l
      BY <1>1, SubSeqEmpty DEF From
    <3>. QED
      BY <1>5, <3>1
  <2>2. 0 \in T
    BY <1>1, <2>1, FlatType, EmptySeq
  <2>. QED
    BY <1>1, <2>2
<1>7. PICK whole \in T : whole = Max(T) /\ \A t \in T : t <= whole
  <2>. HIDE DEF T
  <2>. QED
    BY <1>6, MaxIsOne
<1>8. PICK n \in 0 .. l : n = l - whole /\ whole \in 0 .. l
  <2>1. whole \in 0 .. l
    BY <1>6
  <2>2. l - whole \in 0 .. l
    BY <2>1
  <2>. QED
    BY <2>1, <2>2
<1>9. /\ chan' = LastOnes(chan, whole)
      /\ part' = SubSeq(LastOnes(Stream, left), 1, left - Len(Flat(chan')))
  BY <1>3, <1>4, <1>7 DEF Take
<1>10. chan' = From(chan, n + 1) /\ chan' \in Seq(Frames)
  <2>1. l - whole + 1 = n + 1 /\ n + 1 \in 1 .. l + 1
    BY <1>8
  <2>2. chan' = From(chan, n + 1)
    BY <1>5, <1>8, <1>9, <2>1
  <2>. QED
    BY <1>1, <2>1, <2>2, FromType
<1>11. PICK rest \in Seq(Nat), r \in Nat : rest = Flat(chan') /\ r = Len(rest)
  BY <1>10, FlatType, LenProperties
<1>12. r <= left
  BY <1>7, <1>9, <1>11
<1>13. \A m \in 0 .. l : m > whole => Len(Flat(From(chan, l - m + 1))) > left
  <2>. TAKE m \in 0 .. l
  <2>1. m > whole => m \notin T
    BY <1>7
  <2>2. From(chan, l - m + 1) = LastOnes(chan, m)
    BY <1>5
  <2>3. Len(Flat(LastOnes(chan, m))) \in Nat
    <3>1. l - m + 1 \in 1 .. Len(chan) + 1
      BY <1>1
    <3>2. From(chan, l - m + 1) \in Seq(Frames)
      BY <3>1, FromType
    <3>. QED
      BY <2>2, <3>2, FlatType, LenProperties
  <2>. QED
    BY <1>1, <2>1, <2>2, <2>3
<1>. HIDE DEF T
<1>14. CASE n = 0
  <2>1. chan' = chan /\ rest = F /\ left - r = p - k /\ k \in 0 .. p /\ left = p - k + r
    <3>1. From(chan, 0 + 1) = chan
      BY SubSeqFull DEF From
    <3>2. chan' = chan /\ rest = F
      BY <1>2, <1>10, <1>11, <1>14, <3>1
    <3>3. left = p + r - k
      BY <1>3, <1>4, <1>11, <3>2
    <3>. QED
      BY <1>12, <3>2, <3>3
  <2>2. <<>> \in Seq(Nat) /\ <<>> \o Stream = Stream /\ Stream = part \o F
    BY <1>2, <1>3, EmptySeq, ConcatEmptySeq DEF Stream
  <2>3. part' = From(part, k + 1)
    <3>1. k \in 0 .. Len(part)
      BY <1>1, <2>1
    <3>2. SubSeq(LastOnes(<<>> \o (part \o F), Len(part) - k + Len(F)), 1, Len(part) - k)
            = From(part, k + 1)
      BY <2>2, <3>1, WhatIsLeft, Zenon
    <3>3. Len(part) - k + Len(F) = left /\ Len(part) - k = left - Len(Flat(chan'))
      BY <1>1, <1>11, <2>1
    <3>. QED
      BY <1>9, <2>2, <3>2, <3>3
  <2>4. Begins(k, 0, k)
    BY <1>1, <1>10, <1>14, <2>1, <2>3 DEF Begins
  <2>. QED
    BY <1>1, <2>4
<1>15. CASE n # 0
  <2>1. n \in 1 .. Len(chan) /\ n \in 1 .. Len(chan) + 1
    BY <1>1, <1>15
  <2>2. PICK c \in Seq(Nat), e \in Nat \ {0} : c = Cells(chan[n]) /\ e = Len(c)
    <3>1. chan[n] \in Frames
      BY <2>1
    <3>. QED
      BY <3>1, CellsType
  <2>3. Flat(From(chan, n)) = c \o rest
    BY <1>10, <1>11, <2>1, <2>2, FlatFrom
  <2>4. PICK u \in Seq(Nat), v \in Nat : v = Len(u) /\ v >= n - 1 /\ F = u \o (c \o rest)
    <3>1. PICK u \in Seq(Nat) : Len(u) >= n - 1 /\ F = u \o Flat(From(chan, n))
      BY <1>2, <2>1, FlatSplit
    <3>. QED
      BY <2>3, <3>1, LenProperties
  <2>5. PICK b \in Seq(Nat) : b = c \o rest /\ Len(b) = e + r
    BY <1>11, <2>2, Joined
  <2>6. e + r > left
    <3>1. whole + 1 \in 0 .. l /\ l - (whole + 1) + 1 = n /\ whole + 1 > whole
      BY <1>8, <1>15
    <3>2. Len(Flat(From(chan, l - (whole + 1) + 1))) > left
      BY <1>13, <3>1
    <3>. QED
      BY <2>3, <2>5, <3>1, <3>2
  <2>7. Len(F) = v + (e + r)
    <3>1. Len(u \o b) = Len(u) + Len(b)
      BY Joined
    <3>. QED
      BY <2>4, <2>5, <3>1
  <2>8. PICK a \in Seq(Nat) : a = part \o u /\ Len(a) = p + v /\ Stream = a \o (c \o rest)
    <3>1. part \o u \in Seq(Nat) /\ Len(part \o u) = p + v
      BY <1>1, <2>4, Joined
    <3>2. (part \o u) \o b = part \o (u \o b)
      BY JoinedTwice
    <3>. QED
      BY <1>2, <2>4, <2>5, <3>1, <3>2 DEF Stream
  <2>9. PICK j \in Nat : /\ j = k - p - v /\ j \in 1 .. e /\ left = e - j + r
                         /\ left - r = e - j /\ p + n <= k /\ j <= k - p - n + 1
    <3>1. left = p + (v + (e + r)) - k
      BY <1>3, <1>4, <2>7
    <3>2. k - p - v >= 1 /\ k - p - v \in Nat
      BY <2>6, <3>1
    <3>3. k - p - v <= e
      BY <1>12, <3>1
    <3>. QED
      <4>1. k - p - v \in 1 .. e
        BY <3>2, <3>3
      <4>2. left = e - (k - p - v) + r /\ left - r = e - (k - p - v)
        BY <3>1
      <4>3. p + n <= k /\ k - p - v <= k - p - n + 1
        BY <2>1, <2>4, <3>2
      <4>. QED
        BY <3>2, <4>1, <4>2, <4>3
  <2>10. part' = From(c, j + 1)
    <3>1. j \in 0 .. Len(c)
      BY <2>2, <2>9
    <3>2. SubSeq(LastOnes(a \o (c \o rest), Len(c) - j + Len(rest)), 1, Len(c) - j)
            = From(c, j + 1)
      BY <3>1, WhatIsLeft
    <3>3. Len(c) - j + Len(rest) = left /\ Len(c) - j = left - Len(Flat(chan'))
      BY <1>11, <2>2, <2>9
    <3>. QED
      BY <1>9, <2>8, <3>2, <3>3
  <2>11. Begins(k, n, j)
    BY <1>1, <1>10, <1>15, <2>2, <2>9, <2>10 DEF Begins
  <2>. QED
    BY <1>1, <2>11
<1>. QED
  BY <1>14, <1>15

\* What is behind the first frames of what is behind a sequence.
LEMMA FromJoined ==
    ASSUME NEW c \in Seq(Frames), NEW s \in Seq(Frames), NEW n \in 0 .. Len(s)
    PROVE  /\ From(c \o s, Len(c) + n + 1) = From(s, n + 1)
           /\ From(s, n + 1) \in Seq(Frames) /\ Len(From(s, n + 1)) = Len(s) - n
<1>1. PICK lc \in Nat, ls \in Nat : lc = Len(c) /\ ls = Len(s) /\ n \in 0 .. ls
  BY LenProperties
<1>2. PICK w \in Seq(Frames) : /\ w = c \o s /\ Len(w) = lc + ls
                               /\ \A i \in 1 .. lc + ls :
                                     w[i] = IF i <= lc THEN c[i] ELSE s[i - lc]
  <2>1. /\ c \o s \in Seq(Frames) /\ Len(c \o s) = Len(c) + Len(s)
        /\ \A i \in 1 .. Len(c) + Len(s) :
              (c \o s)[i] = IF i <= Len(c) THEN c[i] ELSE s[i - Len(c)]
    BY ConcatProperties, Zenon
  <2>. QED
    BY <1>1, <2>1
<1>3. PICK m \in 1 .. Len(w) + 1 : m = lc + n + 1 /\ Len(w) - m + 1 = ls - n
  <2>1. lc + n + 1 \in 1 .. Len(w) + 1 /\ Len(w) - (lc + n + 1) + 1 = ls - n
    BY <1>1, <1>2
  <2>. QED
    BY <2>1
<1>4. PICK o \in 1 .. Len(s) + 1 : o = n + 1 /\ ls - o + 1 = ls - n
  <2>1. n + 1 \in 1 .. Len(s) + 1 /\ ls - (n + 1) + 1 = ls - n
    BY <1>1
  <2>. QED
    BY <2>1
<1>5. /\ From(w, m) \in Seq(Frames) /\ Len(From(w, m)) = ls - n
      /\ \A i \in 1 .. ls - n : From(w, m)[i] = w[m + i - 1]
  <2>1. /\ From(w, m) \in Seq(Frames) /\ Len(From(w, m)) = Len(w) - m + 1
        /\ \A i \in 1 .. Len(w) - m + 1 : From(w, m)[i] = w[m + i - 1]
    BY FromType, Zenon
  <2>. QED
    BY <1>3, <2>1
<1>6. /\ From(s, o) \in Seq(Frames) /\ Len(From(s, o)) = ls - n
      /\ \A i \in 1 .. ls - n : From(s, o)[i] = s[o + i - 1]
  <2>1. /\ From(s, o) \in Seq(Frames) /\ Len(From(s, o)) = Len(s) - o + 1
        /\ \A i \in 1 .. Len(s) - o + 1 : From(s, o)[i] = s[o + i - 1]
    BY FromType, Zenon
  <2>. QED
    BY <1>1, <1>4, <2>1
<1>7. ASSUME NEW i \in 1 .. ls - n
      PROVE  From(w, m)[i] = From(s, o)[i]
  <2>1. PICK j \in 1 .. lc + ls : j = m + i - 1 /\ ~ (j <= lc) /\ j - lc = o + i - 1
    <3>1. m + i - 1 \in 1 .. lc + ls /\ ~ (m + i - 1 <= lc) /\ m + i - 1 - lc = o + i - 1
      BY <1>1, <1>3, <1>4
    <3>. QED
      BY <3>1
  <2>2. w[j] = IF j <= lc THEN c[j] ELSE s[j - lc]
    BY <1>2
  <2>3. From(w, m)[i] = w[m + i - 1] /\ From(s, o)[i] = s[o + i - 1]
    BY <1>5, <1>6
  <2>. QED
    BY <2>1, <2>2, <2>3
<1>8. From(w, m) = From(s, o)
  BY <1>5, <1>6, <1>7, SeqEqual
<1>. QED
  BY <1>1, <1>2, <1>3, <1>4, <1>6, <1>8

\* In front of the line is what is left of the frame the host is inside.
LEMMA StreamType ==
    ASSUME chan \in Seq(Frames), part \in Seq(Nat)
    PROVE  /\ Stream \in Seq(Nat) /\ Len(Stream) = Len(part) + Len(Flat(chan))
           /\ Len(Flat(chan)) \in Nat /\ Len(part) \in Nat /\ Len(Stream) \in Nat
           /\ Len(part) <= Len(Stream)
           /\ \A i \in 1 .. Len(part) : Stream[i] = part[i]
<1>1. Flat(chan) \in Seq(Nat)
  BY FlatType
<1>2. PICK p \in Nat, q \in Nat : p = Len(part) /\ q = Len(Flat(chan))
  BY <1>1, LenProperties
<1>3. /\ Stream \in Seq(Nat) /\ Len(Stream) = p + q
      /\ \A i \in 1 .. p + q : Stream[i] = IF i <= p THEN part[i] ELSE Flat(chan)[i - p]
  BY <1>1, <1>2, Joined DEF Stream
<1>4. \A i \in 1 .. p : i \in 1 .. p + q /\ i <= p
  BY <1>2
<1>. QED
  BY <1>1, <1>2, <1>3, <1>4

\* What a read leaves is a line again.
LEMMA TakeType ==
    ASSUME chan \in Seq(Frames), part \in Seq(Nat),
           NEW k \in Nat, k <= Len(Stream), Take(k)
    PROVE  chan' \in Seq(Frames) /\ part' \in Seq(Nat)
<1>1. PICK n \in 0 .. Len(chan), j \in Nat : Begins(k, n, j)
  BY TakeLeaves
<1>2. chan' \in Seq(Frames)
  <2>1. From(chan, n + 1) \in Seq(Frames)
    BY FromJoined, EmptySeq, Zenon
  <2>. QED
    BY <1>1, <2>1 DEF Begins
<1>3. CASE n = 0
  <2>1. k \in 0 .. Len(part) /\ part' = From(part, k + 1)
    BY <1>1, <1>3, LenProperties DEF Begins
  <2>. QED
    BY <1>2, <2>1, CellsFrom
<1>4. CASE n # 0
  <2>1. chan[n] \in Frames
    BY <1>4
  <2>2. PICK c \in Seq(Nat) : c = Cells(chan[n])
    BY <2>1, CellsType
  <2>3. j \in 0 .. Len(c) /\ part' = From(c, j + 1)
    BY <1>1, <1>4, <2>2 DEF Begins
  <2>. QED
    BY <1>2, <2>2, <2>3, CellsFrom
<1>. QED
  BY <1>3, <1>4

\* The waits, what each takes and reads.
LEMMA Waits ==
    ASSUME NEW w \in DOMAIN Accepts
    PROVE  /\ w \in {"ping", "ack", "cmd", "data"}
           /\ Needed[w] = (IF w = "ping" THEN 4 ELSE IF w = "ack" THEN 1 ELSE 3)
           /\ Accepts[w] = (IF w = "ping" THEN {167} ELSE IF w = "ack" THEN {161}
                            ELSE IF w = "cmd" THEN {164} ELSE {165, 164})
BY DEF Accepts, Needed, FPType

\* What a read of m cells returns of the line, when k have arrived.
LEMMA Returns ==
    ASSUME Stream \in Seq(Nat), NEW m \in Nat, NEW k \in 0 .. m, k <= Len(Stream)
    PROVE  /\ Returned(k, m) \in Seq(Nat)
           /\ Len(Returned(k, m)) = IF bus = "uart" THEN k ELSE m
           /\ \A i \in 1 .. k : Returned(k, m)[i] = Stream[i]
           /\ bus # "uart" => \A i \in k + 1 .. m : Returned(k, m)[i] = Filler
<1>1. PICK got \in Seq(Nat) : /\ got = SubSeq(Stream, 1, k) /\ Len(got) = k
                              /\ \A i \in 1 .. k : got[i] = Stream[i]
  <2>1. \A i \in 1 .. k : Stream[i] \in Nat
    BY LenProperties, ElementOfSeq
  <2>2. /\ SubSeq(Stream, 1, k) \in Seq(Nat)
        /\ Len(SubSeq(Stream, 1, k)) = IF 1 <= k THEN k - 1 + 1 ELSE 0
        /\ \A i \in 1 .. k - 1 + 1 : SubSeq(Stream, 1, k)[i] = Stream[1 + i - 1]
    BY <2>1, SubSeqProperties
  <2>3. (IF 1 <= k THEN k - 1 + 1 ELSE 0) = k /\ k - 1 + 1 = k
        /\ \A i \in 1 .. k : 1 + i - 1 = i
    OBVIOUS
  <2>4. \A i \in 1 .. k : SubSeq(Stream, 1, k)[i] = Stream[i]
    BY <2>2, <2>3
  <2>. QED
    BY <2>2, <2>3, <2>4
<1>2. PICK fill \in Seq(Nat) : /\ fill = [i \in 1 .. m - k |-> Filler] /\ Len(fill) = m - k
                               /\ \A i \in 1 .. m - k : fill[i] = Filler
  <2>1. PICK o \in Nat : o = m - k
    OBVIOUS
  <2>2. PICK fill \in [1 .. o -> Nat] : fill = [i \in 1 .. o |-> Filler]
    BY DEF Filler
  <2>3. fill \in Seq(Nat) /\ Len(fill) = o
    BY SeqDef
  <2>. QED
    BY <2>1, <2>2, <2>3
<1>3. CASE bus = "uart"
  <2>1. Returned(k, m) = got \o <<>>
    BY <1>1, <1>3 DEF Returned
  <2>2. got \o <<>> = got
    BY ConcatEmptySeq
  <2>. QED
    BY <1>1, <1>3, <2>1, <2>2
<1>4. CASE bus # "uart"
  <2>1. Returned(k, m) = got \o fill
    BY <1>1, <1>2, <1>4 DEF Returned
  <2>2. /\ got \o fill \in Seq(Nat) /\ Len(got \o fill) = m
        /\ \A i \in 1 .. m : (got \o fill)[i] = IF i <= k THEN got[i] ELSE fill[i - k]
    <3>1. Len(got) + Len(fill) = m
      BY <1>1, <1>2
    <3>. QED
      BY <1>1, <3>1, Joined
  <2>3. \A i \in 1 .. k : Returned(k, m)[i] = Stream[i]
    BY <1>1, <2>1, <2>2
  <2>4. \A i \in k + 1 .. m : Returned(k, m)[i] = Filler
    <3>. TAKE i \in k + 1 .. m
    <3>1. i \in 1 .. m /\ ~ (i <= k)
      OBVIOUS
    <3>2. PICK o \in 1 .. m - k : o = i - k
      OBVIOUS
    <3>. QED
      BY <1>2, <2>1, <2>2, <3>1, <3>2
  <2>. QED
    BY <1>4, <2>1, <2>2, <2>3, <2>4
<1>. QED
  BY <1>3, <1>4

-----------------------------------------------------------------------------
(* Types.                                                                  *)

\* The head of a packet is that of a packet.
LEMMA HeadType ==
    ASSUME TypeOK, NEW k \in Nat, k <= Len(Stream), ReadHead(k)
    PROVE  head' \in [type : Framed, len : Nat]
<1>1. wait \in DOMAIN Accepts /\ wait \in {"cmd", "data"} /\ k <= Needed[wait] /\ Accepted(k)
      /\ head' = [type |-> Got(k)[1], len |-> Got(k)[2]]
  BY DEF ReadHead, TypeOK
<1>2. Needed[wait] = 3 /\ Accepts[wait] \subseteq Framed
  BY <1>1, Waits DEF Framed, FPType
<1>3. Stream \in Seq(Nat)
  BY StreamType DEF TypeOK
<1>4. Returned(k, 3) \in Seq(Nat)
  <2>1. 3 \in Nat /\ k \in 0 .. 3
    BY <1>1, <1>2
  <2>. QED
    BY <1>3, <2>1, Returns
<1>5. Got(k) = Returned(k, 3) /\ Len(Got(k)) = 3 /\ Got(k)[1] \in Framed
  BY <1>1, <1>2 DEF Got, Accepted
<1>6. Got(k)[2] \in Nat
  <2>1. 2 \in 1 .. 3
    OBVIOUS
  <2>. QED
    BY <1>4, <1>5, <2>1, ElementOfSeq
<1>. QED
  BY <1>1, <1>5, <1>6

\* What the wait ends with.
LEMMA OverType ==
    ASSUME NEW end \in {"ok", "timeout", "broken"}, NEW type, NEW payload \in Seq(Nat),
           sync \in BOOLEAN, Over(end, type, payload)
    PROVE  /\ pc' = "idle" /\ head' \in [type : Framed, len : Nat]
           /\ last'.end \in {"none", "ok", "timeout", "broken"} /\ last'.payload \in Seq(Nat)
           /\ sync' \in BOOLEAN
<1>1. NoHead \in [type : Framed, len : Nat]
  BY DEF NoHead, Framed
<1>2. /\ pc' = "idle" /\ head' = NoHead
      /\ last' = [end |-> end, type |-> type, payload |-> payload]
      /\ sync' = (sync /\ ~Contains(part', START))
  BY DEF Over
<1>3. (sync /\ ~Contains(part', START)) \in BOOLEAN
  OBVIOUS
<1>. QED
  BY <1>1, <1>2, <1>3

\* The state of a host and a line that was read further.
LEMMA TypeStep ==
    ASSUME TypeOK, [Next]_vars
    PROVE  TypeOK'
<1>. USE DEF TypeOK
<1>1. ASSUME NEW w \in DOMAIN Accepts, Ask(w)
      PROVE  TypeOK'
  <2>1. last' = [end |-> "none", type |-> Noise, payload |-> <<>>] /\ cur' = <<>>
        /\ <<>> \in Seq(Nat) /\ <<>> \in Seq(Frames)
    BY <1>1, EmptySeq DEF Ask, Pending
  <2>2. last'.end = "none" /\ last'.payload = <<>>
    BY <2>1
  <2>3. /\ pc' = "start" /\ wait' = w /\ stalled' = FALSE
        /\ bus' = bus /\ head' = head /\ part' = part /\ chan' = chan /\ sync' = sync
    BY <1>1 DEF Ask
  <2>. QED
    BY <2>1, <2>2, <2>3
<1>2. ASSUME FindStart
      PROVE  TypeOK'
  <2>1. chan' \in Seq(Frames) /\ part' \in Seq(Nat)
    <3>1. Len(Stream) >= 1
      BY <1>2, StreamType, EmptySeq DEF FindStart
    <3>. QED
      BY <1>2, <3>1, TakeType DEF FindStart
  <2>2. cur' \in Seq(Frames)
    <3>1. CASE part = <<>>
      <4>1. chan # <<>>
        <5>1. Flat(<<>>) = <<>>
          BY FlatType
        <5>2. <<>> \o <<>> = <<>>
          BY EmptySeq, ConcatEmptySeq
        <5>. QED
          BY <1>2, <3>1, <5>1, <5>2 DEF FindStart, Stream
      <4>2. chan[1] \in Frames
        BY <4>1, EmptySeq
      <4>. QED
        BY <1>2, <3>1, <4>2 DEF FindStart
    <3>2. CASE part # <<>>
      BY <1>2, <3>2, EmptySeq DEF FindStart
    <3>. QED
      BY <3>1, <3>2
  <2>. QED
    BY <1>2, <2>1, <2>2 DEF FindStart
<1>3. ASSUME SkipByte
      PROVE  TypeOK'
  <2>1. chan' \in Seq(Frames) /\ part' \in Seq(Nat)
    <3>1. Len(Stream) >= 1
      BY <1>3, StreamType, EmptySeq DEF SkipByte
    <3>. QED
      BY <1>3, <3>1, TakeType DEF SkipByte
  <2>. QED
    BY <1>3, <2>1 DEF SkipByte, hostVars
<1>4. ASSUME TimedOut
      PROVE  TypeOK'
  <2>1. /\ pc' = "idle" /\ head' \in [type : Framed, len : Nat]
        /\ last'.end \in {"none", "ok", "timeout", "broken"} /\ last'.payload \in Seq(Nat)
        /\ sync' \in BOOLEAN
    BY <1>4, OverType, EmptySeq DEF TimedOut
  <2>. QED
    BY <1>4, <2>1 DEF TimedOut
<1>5. ASSUME Nack
      PROVE  TypeOK'
  <2>1. /\ pc' = "idle" /\ head' \in [type : Framed, len : Nat]
        /\ last'.end \in {"none", "ok", "timeout", "broken"} /\ last'.payload \in Seq(Nat)
        /\ sync' \in BOOLEAN
    BY <1>5, OverType, EmptySeq DEF Nack, Raise
  <2>. QED
    BY <1>5, <2>1 DEF Nack
<1>6. ASSUME NEW k \in 0 .. Len(Stream), NEW n, Reading(k, n)
      PROVE  chan' \in Seq(Frames) /\ part' \in Seq(Nat) /\ stalled' \in BOOLEAN
  <2>1. k \in Nat /\ k <= Len(Stream)
    BY <1>6, StreamType
  <2>2. chan' \in Seq(Frames) /\ part' \in Seq(Nat)
    BY <1>6, <2>1, TakeType DEF Reading
  <2>. QED
    BY <1>6, <2>2 DEF Reading
<1>7. ASSUME NEW k \in 0 .. Len(Stream), RejectHead(k)
      PROVE  TypeOK'
  <2>1. chan' \in Seq(Frames) /\ part' \in Seq(Nat) /\ stalled' \in BOOLEAN
    BY <1>6, <1>7 DEF RejectHead, ReadingHead
  <2>2. /\ pc' = "idle" /\ head' \in [type : Framed, len : Nat]
        /\ last'.end \in {"none", "ok", "timeout", "broken"} /\ last'.payload \in Seq(Nat)
        /\ sync' \in BOOLEAN
    BY <1>7, OverType, EmptySeq DEF RejectHead, Raise
  <2>. QED
    BY <1>7, <2>1, <2>2 DEF RejectHead
<1>8. ASSUME NEW k \in 0 .. Len(Stream), ReadSignal(k)
      PROVE  TypeOK'
  <2>1. chan' \in Seq(Frames) /\ part' \in Seq(Nat) /\ stalled' \in BOOLEAN
    BY <1>6, <1>8 DEF ReadSignal, ReadingHead
  <2>2. /\ pc' = "idle" /\ head' \in [type : Framed, len : Nat]
        /\ last'.end \in {"none", "ok", "timeout", "broken"} /\ last'.payload \in Seq(Nat)
        /\ sync' \in BOOLEAN
    BY <1>8, OverType, EmptySeq DEF ReadSignal
  <2>. QED
    BY <1>8, <2>1, <2>2 DEF ReadSignal
<1>9. ASSUME NEW k \in 0 .. Len(Stream), ReadHead(k)
      PROVE  TypeOK'
  <2>1. chan' \in Seq(Frames) /\ part' \in Seq(Nat) /\ stalled' \in BOOLEAN
    BY <1>6, <1>9 DEF ReadHead, ReadingHead
  <2>2. k \in Nat /\ k <= Len(Stream)
    BY StreamType
  <2>3. head' \in [type : Framed, len : Nat]
    BY <1>9, <2>2, HeadType
  <2>. QED
    BY <1>9, <2>1, <2>3 DEF ReadHead
<1>10. ASSUME NEW k \in 0 .. Len(Stream), ReadPayload(k)
      PROVE  TypeOK'
  <2>1. chan' \in Seq(Frames) /\ part' \in Seq(Nat) /\ stalled' \in BOOLEAN
    BY <1>6, <1>10 DEF ReadPayload
  <2>2. head.len \in Nat /\ k \in 0 .. head.len /\ k <= Len(Stream) /\ Stream \in Seq(Nat)
    BY <1>10, StreamType DEF ReadPayload
  <2>3. Returned(k, head.len) \in Seq(Nat)
    BY <2>2, Returns
  <2>4. /\ pc' = "idle" /\ head' \in [type : Framed, len : Nat]
        /\ last'.end \in {"none", "ok", "timeout", "broken"} /\ last'.payload \in Seq(Nat)
        /\ sync' \in BOOLEAN
    BY <1>10, <2>3, OverType DEF ReadPayload
  <2>. QED
    BY <1>10, <2>1, <2>4 DEF ReadPayload
<1>11. ASSUME NEW f \in Frames, DevSend(f)
       PROVE  TypeOK'
  <2>1. Append(chan, f) \in Seq(Frames)
    BY AppendProperties
  <2>. QED
    BY <1>11, <2>1 DEF DevSend, hostVars
<1>12. CASE UNCHANGED vars
  BY <1>12 DEF vars, hostVars
<1>. QED
  BY <1>1, <1>2, <1>3, <1>4, <1>5, <1>7, <1>8, <1>9, <1>10, <1>11, <1>12
     DEF Next, HostStep, Read

\* Types, whatever the device sends and however slowly.
THEOREM TypeCorrect == Spec => []TypeOK
<1>1. Init => TypeOK
  <2>. SUFFICES ASSUME Init
                PROVE  TypeOK
    OBVIOUS
  <2>1. <<>> \in Seq(Nat) /\ <<>> \in Seq(Frames)
    BY EmptySeq
  <2>2. NoHead \in [type : Framed, len : Nat] /\ "ack" \in DOMAIN Accepts
    BY DEF NoHead, Framed, Accepts
  <2>. QED
    BY <2>1, <2>2 DEF Init, TypeOK, Pending
<1>. QED
  BY <1>1, TypeStep, PTL DEF Spec

-----------------------------------------------------------------------------
(* The cells of a frame, and a read inside it.                             *)

\* A few cells in a row.
LEMMA FewCells ==
    ASSUME NEW a \in Nat, NEW b \in Nat, NEW c \in Nat, NEW d \in Nat, NEW e \in Nat
    PROVE  /\ <<a>> \in Seq(Nat) /\ Len(<<a>>) = 1 /\ <<a>>[1] = a
           /\ <<a, b>> \in Seq(Nat) /\ <<a, b>>[1] = a /\ Tail(<<a, b>>) = <<b>>
           /\ <<a, b, c, d>> \in Seq(Nat) /\ Len(<<a, b, c, d>>) = 4
           /\ <<a, b, c, d>>[1] = a /\ <<a, b, c, d>>[2] = b
           /\ <<a, b, c, d>>[3] = c /\ <<a, b, c, d>>[4] = d
           /\ <<a, b, c, d, e>> \in Seq(Nat) /\ <<a, b, c, d, e>>[1] = a
           /\ Tail(<<a, b, c, d, e>>) = <<b, c, d, e>>
OBVIOUS

\* What is behind the first is all from the second on.
LEMMA TailFrom ==
    ASSUME NEW c \in Seq(Nat), Len(c) \in Nat \ {0}
    PROVE  Tail(c) = From(c, 2)
<1>1. PICK o \in 1 .. Len(c) + 1 : o = 1 /\ o <= Len(c) /\ o + 1 = 2
  OBVIOUS
<1>2. From(c, 1) = c /\ Tail(From(c, o)) = From(c, o + 1)
  BY <1>1, FromType
<1>. QED
  BY <1>1, <1>2

\* Behind the start byte of a packet: its type, its length, a CRC, its payload.
LEMMA BehindPacket ==
    ASSUME NEW f \in Frames, f.type \in Framed
    PROVE  \E t \in Seq(Nat) :
              /\ t = From(Cells(f), 2) /\ Len(t) = 3 + Len(f.payload)
              /\ t[1] = f.type /\ t[2] = Len(f.payload) /\ t[3] = Junk
              /\ \A i \in 1 .. Len(f.payload) : t[3 + i] = f.payload[i]
              /\ Cells(f)[1] = START
<1>1. PICK p \in Seq(Nat), l \in Nat : p = f.payload /\ l = Len(p)
  BY CellsType, LenProperties
<1>2. PICK h \in Seq(Nat) : /\ h = <<START, f.type, l, Junk>> /\ Len(h) = 4
                            /\ h[1] = START /\ h[2] = f.type /\ h[3] = l /\ h[4] = Junk
  <2>1. START \in Nat /\ f.type \in Nat /\ Junk \in Nat
    BY DEF START, Junk, Framed, FPType
  <2>2. /\ <<START, f.type, l, Junk>> \in Seq(Nat) /\ Len(<<START, f.type, l, Junk>>) = 4
        /\ <<START, f.type, l, Junk>>[1] = START /\ <<START, f.type, l, Junk>>[2] = f.type
        /\ <<START, f.type, l, Junk>>[3] = l /\ <<START, f.type, l, Junk>>[4] = Junk
    BY <2>1, FewCells, Zenon
  <2>. QED
    BY <2>2, Zenon
<1>3. Cells(f) = h \o p
  <2>1. f.type # FPType.PINGR /\ f.type # Noise
    BY DEF Framed, FPType, Noise
  <2>. QED
    BY <1>1, <1>2, <2>1, Zenon DEF Cells
<1>4. PICK c \in Seq(Nat) : /\ c = Cells(f) /\ Len(c) = 4 + l
                            /\ \A i \in 1 .. 4 + l : c[i] = IF i <= 4 THEN h[i] ELSE p[i - 4]
  <2>1. /\ h \o p \in Seq(Nat) /\ Len(h \o p) = Len(h) + Len(p)
        /\ \A i \in 1 .. Len(h) + Len(p) :
              (h \o p)[i] = IF i <= Len(h) THEN h[i] ELSE p[i - Len(h)]
    BY Joined
  <2>. QED
    BY <1>1, <1>2, <1>3, <2>1
<1>5. PICK t \in Seq(Nat) : /\ t = From(c, 2) /\ Len(t) = 3 + l
                            /\ \A i \in 1 .. 3 + l : t[i] = c[1 + i]
  <2>1. PICK j \in 0 .. Len(c) : j = 1 /\ Len(c) - j = 3 + l /\ j + 1 = 2
    BY <1>4
  <2>2. /\ From(c, j + 1) \in Seq(Nat) /\ Len(From(c, j + 1)) = Len(c) - j
        /\ \A i \in 1 .. Len(c) - j : From(c, j + 1)[i] = c[j + i]
    BY CellsFrom
  <2>. QED
    BY <2>1, <2>2
<1>6. t[1] = h[2] /\ t[2] = h[3] /\ t[3] = h[4] /\ c[1] = h[1]
  <2>1. t[1] = c[2] /\ t[2] = c[3] /\ t[3] = c[4]
    BY <1>5
  <2>. QED
    BY <1>4, <2>1
<1>7. ASSUME NEW i \in 1 .. l
      PROVE  t[3 + i] = p[i]
  <2>1. PICK m \in 1 .. 3 + l : m = 3 + i
    OBVIOUS
  <2>2. PICK o \in 1 .. 4 + l : o = 1 + m /\ ~ (o <= 4) /\ o - 4 = i
    BY <2>1
  <2>3. c[o] = IF o <= 4 THEN h[o] ELSE p[o - 4]
    BY <1>4
  <2>4. t[m] = c[1 + m]
    BY <1>5
  <2>. QED
    BY <2>1, <2>2, <2>3, <2>4
<1>. QED
  BY <1>1, <1>2, <1>4, <1>5, <1>6, <1>7

\* Behind the start byte of a signal: its type.
LEMMA BehindSignal ==
    ASSUME NEW f \in Frames, f.type \in Signals, f.type # Noise
    PROVE  /\ Cells(f)[1] = START
           /\ f.type = FPType.PINGR => Tail(Cells(f)) = <<f.type, Junk, Junk, Junk>>
           /\ f.type # FPType.PINGR => Tail(Cells(f)) = <<f.type>>
           /\ From(Cells(f), 2) = Tail(Cells(f))
<1>0. START \in Nat /\ f.type \in Nat /\ Junk \in Nat
  BY DEF START, Junk, Signals, FPType, Noise
<1>1. CASE f.type = FPType.PINGR
  <2>1. f.type \notin Framed
    BY <1>1 DEF Framed, FPType
  <2>2. Cells(f) = <<START, f.type, Junk, Junk, Junk>>
    BY <1>1, <2>1, Zenon DEF Cells
  <2>3. Cells(f)[1] = START /\ Tail(Cells(f)) = <<f.type, Junk, Junk, Junk>>
    BY <1>0, <2>2, FewCells
  <2>. QED
    BY <1>1, <1>0, <2>3, CellsType, TailFrom
<1>2. CASE f.type # FPType.PINGR
  <2>1. f.type \notin Framed
    BY DEF Framed, FPType, Signals, Noise
  <2>2. Cells(f) = <<START, f.type>>
    BY <1>2, <2>1, Zenon DEF Cells
  <2>3. Cells(f)[1] = START /\ Tail(Cells(f)) = <<f.type>>
    BY <1>0, <2>2, FewCells
  <2>. QED
    BY <1>2, <1>0, <2>3, CellsType, TailFrom
<1>. QED
  BY <1>1, <1>2

\* What is behind the first byte of a frame, and where it can hold a start byte.
LEMMA BehindStart ==
    ASSUME NEW f \in Frames, f.type # Noise
    PROVE  \E t \in Seq(Nat) :
              /\ t = Tail(Cells(f)) /\ t = From(Cells(f), 2) /\ Cells(f)[1] = START
              /\ t[1] = f.type /\ Len(t) >= 1
              /\ f.type = FPType.PINGR => Len(t) = 4
              /\ f.type = FPType.ACK   => Len(t) = 1
              /\ f.type \in Framed =>
                    /\ Len(t) = 3 + Len(f.payload)
                    /\ t[2] = Len(f.payload) /\ From(t, 4) = f.payload
              /\ Contains(t, START) => Channel!Holds(f)
<1>1. CASE f.type \in Framed
  <2>1. PICK p \in Seq(Nat), l \in Nat : p = f.payload /\ l = Len(p)
    BY CellsType, LenProperties
  <2>2. PICK t \in Seq(Nat) :
           /\ t = From(Cells(f), 2) /\ Len(t) = 3 + l /\ Cells(f)[1] = START
           /\ t[1] = f.type /\ t[2] = l /\ t[3] = Junk
           /\ \A i \in 1 .. l : t[3 + i] = p[i]
    BY <1>1, <2>1, BehindPacket
  <2>3. t = Tail(Cells(f))
    BY <2>2, CellsType, TailFrom
  <2>4. From(t, 4) = p
    <3>1. PICK j \in 0 .. Len(t) : j = 3 /\ Len(t) - j = l /\ j + 1 = 4
      BY <2>1, <2>2
    <3>2. /\ From(t, j + 1) \in Seq(Nat) /\ Len(From(t, j + 1)) = Len(t) - j
          /\ \A i \in 1 .. Len(t) - j : From(t, j + 1)[i] = t[j + i]
      BY CellsFrom
    <3>3. \A i \in 1 .. l : From(t, 4)[i] = p[i]
      BY <2>2, <3>1, <3>2
    <3>. QED
      BY <2>1, <3>1, <3>2, <3>3, SeqEqual
  <2>5. ASSUME Contains(t, START)
        PROVE  Channel!Holds(f)
    <3>1. PICK i \in 1 .. 3 + l : t[i] = START
      BY <2>2, <2>5 DEF Contains
    <3>2. f.type # START /\ Junk # START
      BY <1>1 DEF Framed, FPType, START, Junk
    <3>3. CASE i <= 3
      <4>1. i = 1 \/ i = 2 \/ i = 3
        BY <3>3
      <4>2. l = START
        BY <2>2, <3>1, <3>2, <4>1
      <4>. QED
        BY <2>1, <4>2 DEF Channel!Holds
    <3>4. CASE i > 3
      <4>1. PICK o \in 1 .. l : i = 3 + o
        <5>1. i - 3 \in 1 .. l /\ i = 3 + (i - 3)
          BY <3>4
        <5>. QED
          BY <5>1
      <4>2. t[3 + o] = p[o] /\ DOMAIN p = 1 .. l
        BY <2>1, <2>2, LenProperties
      <4>3. p[o] = START /\ o \in DOMAIN p
        BY <3>1, <4>1, <4>2
      <4>. QED
        BY <2>1, <4>3 DEF Channel!Holds
    <3>. QED
      BY <3>3, <3>4
  <2>. QED
    BY <1>1, <2>1, <2>2, <2>3, <2>4, <2>5 DEF Framed, FPType
<1>2. CASE f.type \notin Framed
  <2>1. f.type \in Signals
    BY <1>2, CellsType
  <2>2. f.type \notin {START, Junk} /\ f.type \in Nat /\ START # Junk
    BY <2>1 DEF START, Junk, Signals, FPType, Noise
  <2>3. /\ Cells(f)[1] = START /\ From(Cells(f), 2) = Tail(Cells(f))
        /\ f.type = FPType.PINGR => Tail(Cells(f)) = <<f.type, Junk, Junk, Junk>>
        /\ f.type # FPType.PINGR => Tail(Cells(f)) = <<f.type>>
    BY <2>1, BehindSignal
  <2>4. CASE f.type = FPType.PINGR
    <3>1. Junk \in Nat
      BY DEF Junk
    <3>2. PICK t \in Seq(Nat) : /\ t = <<f.type, Junk, Junk, Junk>> /\ Len(t) = 4
                               /\ t[1] = f.type /\ t[2] = Junk /\ t[3] = Junk /\ t[4] = Junk
      <4>1. /\ <<f.type, Junk, Junk, Junk>> \in Seq(Nat)
            /\ Len(<<f.type, Junk, Junk, Junk>>) = 4
            /\ <<f.type, Junk, Junk, Junk>>[1] = f.type /\ <<f.type, Junk, Junk, Junk>>[2] = Junk
            /\ <<f.type, Junk, Junk, Junk>>[3] = Junk /\ <<f.type, Junk, Junk, Junk>>[4] = Junk
        BY <2>2, <3>1, FewCells, Zenon
      <4>. QED
        BY <4>1, Zenon
    <3>3. f.type # FPType.ACK
      BY <2>4 DEF FPType
    <3>4. ~Contains(t, START)
      <4>1. ASSUME NEW i \in 1 .. 4
            PROVE  t[i] # START
        <5>1. i = 1 \/ i = 2 \/ i = 3 \/ i = 4
          OBVIOUS
        <5>. QED
          BY <2>2, <3>2, <5>1
      <4>. QED
        BY <3>2, <4>1 DEF Contains
    <3>5. t = Tail(Cells(f)) /\ t = From(Cells(f), 2)
      BY <2>3, <2>4, <3>2, Zenon
    <3>6. Len(t) >= 1
      BY <3>2
    <3>. QED
      BY <3>6, <1>2, <2>3, <2>4, <3>2, <3>3, <3>4, <3>5, Zenon
  <2>5. CASE f.type # FPType.PINGR
    <3>1. PICK t \in Seq(Nat) : t = <<f.type>> /\ Len(t) = 1 /\ t[1] = f.type
      BY <2>2, FewCells
    <3>2. ~Contains(t, START)
      BY <2>2, <3>1 DEF Contains
    <3>3. t = Tail(Cells(f)) /\ t = From(Cells(f), 2)
      BY <2>3, <2>5, <3>1, Zenon
    <3>4. Len(t) >= 1
      BY <3>1
    <3>. QED
      BY <3>4, <1>2, <2>3, <2>5, <3>1, <3>2, <3>3, Zenon
  <2>. QED
    BY <2>4, <2>5
<1>. QED
  BY <1>1, <1>2

\* What is at the end of a sequence is in it.
LEMMA EndHolds ==
    ASSUME NEW s \in Seq(Nat), NEW j \in 0 .. Len(s), Contains(From(s, j + 1), START)
    PROVE  /\ Contains(s, START)
           /\ j >= 1 => Contains(From(s, 2), START)
<1>1. PICK l \in Nat : l = Len(s) /\ j \in 0 .. l
  BY LenProperties
<1>2. /\ Len(From(s, j + 1)) = l - j
      /\ \A i \in 1 .. l - j : From(s, j + 1)[i] = s[j + i]
  BY <1>1, CellsFrom
<1>3. PICK i \in 1 .. l - j : From(s, j + 1)[i] = START
  BY <1>2 DEF Contains
<1>4. PICK m \in 1 .. l : m = j + i /\ s[m] = START
  <2>1. j + i \in 1 .. l
    BY <1>1
  <2>. QED
    BY <1>2, <1>3, <2>1
<1>5. ASSUME j >= 1
      PROVE  Contains(From(s, 2), START)
  <2>1. PICK o \in 0 .. Len(s) : o = 1 /\ o + 1 = 2 /\ Len(s) - o = l - 1
    BY <1>1, <1>5
  <2>2. /\ Len(From(s, o + 1)) = Len(s) - o
        /\ \A q \in 1 .. Len(s) - o : From(s, o + 1)[q] = s[o + q]
    BY CellsFrom
  <2>3. PICK q \in 1 .. l - 1 : m = o + q
    <3>1. m - 1 \in 1 .. l - 1 /\ m = o + (m - 1)
      BY <1>1, <1>4, <1>5, <2>1
    <3>. QED
      BY <3>1
  <2>4. From(s, 2)[q] = START
    BY <1>4, <2>1, <2>2, <2>3
  <2>. QED
    BY <2>1, <2>2, <2>4 DEF Contains
<1>. QED
  BY <1>1, <1>4, <1>5 DEF Contains

\* A read that ends inside the frame the host is inside.
LEMMA ReadOn ==
    ASSUME chan \in Seq(Frames), part \in Seq(Nat), NEW k \in 0 .. Len(part), Take(k)
    PROVE  /\ chan' = chan /\ part' = From(part, k + 1) /\ Len(part') = Len(part) - k
           /\ Contains(part', START) => Contains(part, START)
<1>1. k \in Nat /\ k <= Len(Stream) /\ Len(part) \in Nat
  BY StreamType
<1>2. PICK n \in 0 .. Len(chan), j \in Nat : Begins(k, n, j)
  BY <1>1, TakeLeaves
<1>3. n = 0
  BY <1>1, <1>2 DEF Begins
<1>4. From(chan, 1) = chan
  BY SubSeqFull DEF From
<1>5. chan' = chan /\ part' = From(part, k + 1)
  BY <1>2, <1>3, <1>4 DEF Begins
<1>. QED
  BY <1>5, CellsFrom, EndHolds

\* Any read: of frames it begun, the last is left half read.
LEMMA ReadAcross ==
    ASSUME chan \in Seq(Frames), part \in Seq(Nat),
           NEW k \in Nat, k <= Len(Stream), Take(k)
    PROVE  \E n \in 0 .. Len(chan) :
              /\ chan' = From(chan, n + 1)
              /\ n = 0 => (Contains(part', START) => Contains(part, START))
              /\ n # 0 => (Contains(part', START) => Channel!Holds(chan[n]))
<1>1. PICK n \in 0 .. Len(chan), j \in Nat : Begins(k, n, j)
  BY TakeLeaves
<1>2. CASE n = 0
  <2>1. k \in 0 .. Len(part)
    BY <1>1, <1>2, LenProperties DEF Begins
  <2>2. Contains(part', START) => Contains(part, START)
    BY <2>1, ReadOn
  <2>. QED
    BY <1>1, <1>2, <2>2 DEF Begins
<1>3. CASE n # 0
  <2>1. PICK f \in Frames : f = chan[n]
    BY <1>3
  <2>2. PICK c \in Seq(Nat) : c = Cells(f) /\ Len(c) \in Nat \ {0}
    BY CellsType
  <2>3. j \in 1 .. Len(c) /\ j \in 0 .. Len(c) /\ part' = From(c, j + 1)
    BY <1>1, <1>3, <2>1, <2>2 DEF Begins
  <2>4. ASSUME Contains(part', START)
        PROVE  Channel!Holds(f)
    <3>1. Contains(From(c, 2), START)
      BY <2>3, <2>4, EndHolds
    <3>2. f.type # Noise
      <4>. SUFFICES ASSUME f.type = Noise
                    PROVE  FALSE
        OBVIOUS
      <4>1. f.type \notin Framed /\ f.type # FPType.PINGR
        BY DEF Framed, FPType, Noise
      <4>2. c = <<Junk>>
        BY <2>2, <4>1, Zenon DEF Cells
      <4>3. Junk \in Nat
        BY DEF Junk
      <4>4. Len(<<Junk>>) = 1
        BY <4>3, FewCells
      <4>5. PICK o \in 0 .. Len(c) : o = 1 /\ o + 1 = 2 /\ Len(c) - o = 0
        BY <4>2, <4>4
      <4>6. Len(From(c, o + 1)) = Len(c) - o
        BY CellsFrom
      <4>7. Len(From(c, 2)) = 0
        BY <4>5, <4>6
      <4>. QED
        BY <3>1, <4>7 DEF Contains
    <3>. QED
      BY <2>2, <3>1, <3>2, BehindStart
  <2>. QED
    BY <1>1, <1>3, <2>1, <2>4 DEF Begins
<1>. QED
  BY <1>2, <1>3

\* The first byte of the line: of the frame the host is inside, or of the next.
LEMMA FirstByte ==
    ASSUME chan \in Seq(Frames), part \in Seq(Nat), Stream # <<>>, Take(1)
    PROVE  /\ part # <<>> => /\ chan' = chan /\ Stream[1] = part[1] /\ Len(part) \in Nat \ {0}
                             /\ Contains(part', START) => Contains(part, START)
           /\ part = <<>> => /\ chan # <<>> /\ chan[1] \in Frames /\ chan' = Tail(chan)
                             /\ Stream[1] = Cells(chan[1])[1]
                             /\ part' = Tail(Cells(chan[1]))
<1>1. ASSUME part # <<>>
      PROVE  /\ chan' = chan /\ Stream[1] = part[1] /\ Len(part) \in Nat \ {0}
             /\ Contains(part', START) => Contains(part, START)
  <2>1. Len(part) \in Nat \ {0}
    BY <1>1, EmptySeq, LenProperties
  <2>2. 1 \in 0 .. Len(part) /\ 1 \in 1 .. Len(part)
    BY <2>1
  <2>3. chan' = chan /\ (Contains(part', START) => Contains(part, START))
    BY <2>2, ReadOn
  <2>4. Stream[1] = part[1]
    BY <2>2, StreamType
  <2>. QED
    BY <2>1, <2>3, <2>4
<1>2. ASSUME part = <<>>
      PROVE  /\ chan # <<>> /\ chan[1] \in Frames /\ chan' = Tail(chan)
             /\ Stream[1] = Cells(chan[1])[1]
             /\ part' = Tail(Cells(chan[1]))
  <2>1. Flat(chan) \in Seq(Nat) /\ Stream = Flat(chan)
    <3>1. Flat(chan) \in Seq(Nat)
      BY FlatType
    <3>2. <<>> \o Flat(chan) = Flat(chan)
      BY <3>1, ConcatEmptySeq
    <3>. QED
      BY <1>2, <3>1, <3>2 DEF Stream
  <2>2. chan # <<>>
    BY <2>1, FlatType
  <2>3. PICK l \in Nat \ {0} : l = Len(chan)
    BY <2>2, EmptySeq, LenProperties
  <2>4. PICK f \in Frames : f = chan[1]
    BY <2>3
  <2>5. PICK c \in Seq(Nat) : c = Cells(f) /\ Len(c) \in Nat \ {0}
    BY CellsType
  <2>6. Stream[1] = c[1]
    <3>1. Flat(chan) = c \o Flat(Tail(chan))
      BY <2>2, <2>4, <2>5, FlatHead
    <3>2. PICK t \in Seq(Nat) : t = Flat(Tail(chan))
      BY <2>2, HeadTailProperties, FlatType
    <3>3. \A i \in 1 .. Len(c) + Len(t) : (c \o t)[i] = IF i <= Len(c) THEN c[i] ELSE t[i - Len(c)]
      BY Joined
    <3>4. 1 \in 1 .. Len(c) + Len(t) /\ 1 <= Len(c)
      BY <2>5, LenProperties
    <3>. QED
      BY <2>1, <3>1, <3>2, <3>3, <3>4
  <2>7. 1 \in Nat /\ 1 <= Len(Stream) /\ Len(part) = 0
    <3>1. Stream \in Seq(Nat) /\ Stream # <<>>
      BY <2>1
    <3>2. Len(Stream) \in Nat \ {0}
      BY <3>1, EmptySeq, LenProperties
    <3>. QED
      BY <1>2, <3>2, EmptySeq
  <2>8. PICK n \in 0 .. Len(chan), j \in Nat : Begins(1, n, j)
    BY <2>7, TakeLeaves
  <2>9. n = 1 /\ j = 1
    <3>1. n # 0
      BY <2>7, <2>8 DEF Begins
    <3>2. n <= 1 /\ j <= 1 - n + 1 /\ j >= 1
      BY <2>7, <2>8, <3>1 DEF Begins
    <3>. QED
      BY <3>1, <3>2
  <2>10. chan' = From(chan, 2) /\ part' = From(c, 2)
    BY <2>4, <2>5, <2>8, <2>9 DEF Begins
  <2>11. chan' = Tail(chan)
    <3>1. PICK o \in 1 .. Len(chan) + 1 : o = 1 /\ o <= Len(chan) /\ o + 1 = 2
      BY <2>3
    <3>2. From(chan, 1) = chan /\ Tail(From(chan, o)) = From(chan, o + 1)
      BY <3>1, FromType
    <3>. QED
      BY <2>10, <3>1, <3>2
  <2>. QED
    BY <2>2, <2>4, <2>5, <2>6, <2>10, <2>11, TailFrom
<1>. QED
  BY <1>1, <1>2

\* A byte that is no start byte is one between frames.
LEMMA StartsWith ==
    ASSUME NEW f \in Frames
    PROVE  /\ f.type # Noise => Cells(f)[1] = START
           /\ f.type = Noise => Cells(f)[1] # START /\ Tail(Cells(f)) = <<>>
<1>1. f.type # Noise => Cells(f)[1] = START
  BY BehindStart
<1>2. ASSUME f.type = Noise
      PROVE  Cells(f)[1] # START /\ Tail(Cells(f)) = <<>>
  <2>1. f.type \notin Framed /\ f.type # FPType.PINGR
    BY <1>2 DEF Framed, FPType, Noise
  <2>2. Cells(f) = <<Junk>>
    BY <1>2, <2>1, Zenon DEF Cells
  <2>3. <<Junk>>[1] # START /\ Tail(<<Junk>>) = <<>>
    BY DEF Junk, START
  <2>. QED
    BY <2>2, <2>3
<1>. QED
  BY <1>1, <1>2

-----------------------------------------------------------------------------
(* The invariant is one.                                                   *)

\* A frame of a type the wait takes has as many cells as the wait reads.
LEMMA AcceptedTail ==
    ASSUME NEW w \in DOMAIN Accepts, NEW f \in Frames, f.type \in Accepts[w]
    PROVE  /\ f.type # Noise /\ Needed[w] <= Len(Tail(Cells(f)))
           /\ w \in {"ping", "ack"} => Len(Tail(Cells(f))) = Needed[w] /\ f.payload = <<>>
           /\ w \in {"cmd", "data"} => f.type \in Framed
<1>1. w \in {"ping", "ack", "cmd", "data"}
      /\ Needed[w] = (IF w = "ping" THEN 4 ELSE IF w = "ack" THEN 1 ELSE 3)
      /\ Accepts[w] = (IF w = "ping" THEN {167} ELSE IF w = "ack" THEN {161}
                       ELSE IF w = "cmd" THEN {164} ELSE {165, 164})
  BY Waits
<1>2. f.type # Noise
  BY <1>1 DEF Noise
<1>3. PICK t \in Seq(Nat) : /\ t = Tail(Cells(f))
                            /\ f.type = FPType.PINGR => Len(t) = 4
                            /\ f.type = FPType.ACK   => Len(t) = 1
                            /\ f.type \in Framed => Len(t) = 3 + Len(f.payload)
  BY <1>2, BehindStart
<1>4. CASE w = "ping"
  <2>1. f.type = FPType.PINGR /\ f.type \in Signals
    BY <1>1, <1>4 DEF FPType, Signals
  <2>2. f.payload = <<>>
    BY <2>1, CellsType
  <2>3. Len(Tail(Cells(f))) = Needed[w] /\ Needed[w] \in Nat
    BY <1>1, <1>3, <1>4, <2>1
  <2>4. Needed[w] <= Len(Tail(Cells(f)))
    BY <2>3
  <2>5. w \notin {"cmd", "data"}
    BY <1>4
  <2>. QED
    BY <1>2, <2>2, <2>3, <2>4, <2>5
<1>5. CASE w = "ack"
  <2>1. f.type = FPType.ACK /\ f.type \in Signals
    BY <1>1, <1>5 DEF FPType, Signals
  <2>2. f.payload = <<>>
    BY <2>1, CellsType
  <2>3. Len(Tail(Cells(f))) = Needed[w] /\ Needed[w] \in Nat
    BY <1>1, <1>3, <1>5, <2>1
  <2>4. Needed[w] <= Len(Tail(Cells(f)))
    BY <2>3
  <2>5. w \notin {"cmd", "data"}
    BY <1>5
  <2>. QED
    BY <1>2, <2>2, <2>3, <2>4, <2>5
<1>6. CASE w \in {"cmd", "data"}
  <2>1. f.type \in Framed
    BY <1>1, <1>6 DEF FPType, Framed
  <2>2. Len(f.payload) \in Nat
    BY CellsType, LenProperties
  <2>. QED
    BY <1>1, <1>2, <1>3, <1>6, <2>1, <2>2
<1>. QED
  BY <1>1, <1>4, <1>5, <1>6

\* The read behind the start byte of f that is not refused: it is f's type the
\* wait takes, and of a polled line there may be filler behind it.
LEMMA HeadRead ==
    ASSUME TypeOK, FrameInv, pc = "head", cur # <<>>,
           NEW k \in Nat, k <= Len(Stream), k <= Needed[wait], Accepted(k)
    PROVE  /\ cur[1] \in Frames /\ cur[1].type \in Accepts[wait] /\ cur = <<cur[1]>>
           /\ part = Tail(Cells(cur[1])) /\ ~stalled
           /\ k \in 1 .. Len(part) /\ Needed[wait] <= Len(part) /\ Needed[wait] \in Nat
           /\ Got(k)[1] = cur[1].type
           /\ Got(k) \in Seq(Nat) /\ Len(Got(k)) = Needed[wait]
           /\ k < Needed[wait] => bus # "uart"
           /\ \A i \in 1 .. Needed[wait] : Got(k)[i] = IF i <= k THEN part[i] ELSE 0
<1>1. cur = <<cur[1]>> /\ part = Tail(Cells(cur[1])) /\ cur[1].type # Noise /\ ~stalled
  BY DEF FrameInv
<1>2. PICK f \in Frames : f = cur[1]
  <2>1. cur \in Seq(Frames) /\ Len(cur) \in Nat \ {0}
    BY EmptySeq, LenProperties DEF TypeOK
  <2>. QED
    BY <2>1
<1>3. /\ part \in Seq(Nat) /\ part[1] = f.type /\ Len(part) \in Nat \ {0}
  <2>1. PICK t \in Seq(Nat) : t = Tail(Cells(f)) /\ t[1] = f.type /\ Len(t) >= 1
    BY <1>1, <1>2, BehindStart
  <2>. QED
    BY <1>1, <1>2, <2>1, LenProperties
<1>4. wait \in DOMAIN Accepts
  BY DEF TypeOK
<1>5. /\ Needed[wait] \in {1, 3, 4} /\ 0 \notin Accepts[wait]
  <2>1. wait \in {"ping", "ack", "cmd", "data"}
      /\ Needed[wait] = (IF wait = "ping" THEN 4 ELSE IF wait = "ack" THEN 1 ELSE 3)
      /\ Accepts[wait] = (IF wait = "ping" THEN {167} ELSE IF wait = "ack" THEN {161}
                         ELSE IF wait = "cmd" THEN {164} ELSE {165, 164})
    BY <1>4, Waits
  <2>. QED
    BY <2>1
<1>6. PICK m \in Nat : m = Needed[wait] /\ k \in 0 .. m /\ 1 \in 1 .. m
  BY <1>5
<1>7. /\ Stream \in Seq(Nat) /\ \A i \in 1 .. Len(part) : Stream[i] = part[i]
  BY StreamType DEF TypeOK
<1>8. /\ Returned(k, m) \in Seq(Nat)
      /\ Len(Returned(k, m)) = IF bus = "uart" THEN k ELSE m
      /\ \A i \in 1 .. k : Returned(k, m)[i] = Stream[i]
      /\ bus # "uart" => \A i \in k + 1 .. m : Returned(k, m)[i] = Filler
  BY <1>6, <1>7, Returns
<1>9. Got(k) = Returned(k, m) /\ Len(Got(k)) = m /\ Got(k)[1] \in Accepts[wait]
  BY <1>6 DEF Got, Accepted
<1>10. k < m => bus # "uart"
  BY <1>8, <1>9
<1>11. k >= 1
  <2>. SUFFICES ASSUME k = 0
                PROVE  FALSE
    OBVIOUS
  <2>1. Returned(k, m)[1] = Filler
    BY <1>6, <1>8, <1>10
  <2>. QED
    BY <1>5, <1>9, <2>1 DEF Filler
<1>12. Got(k)[1] = f.type
  BY <1>3, <1>7, <1>8, <1>9, <1>11
<1>13. f.type \in Accepts[wait] /\ m <= Len(part)
  BY <1>1, <1>2, <1>4, <1>6, <1>9, <1>12, AcceptedTail
<1>14. ASSUME NEW i \in 1 .. m
       PROVE  Got(k)[i] = IF i <= k THEN part[i] ELSE 0
  <2>1. CASE i <= k
    <3>1. i \in 1 .. k /\ i \in 1 .. Len(part)
      BY <1>3, <1>6, <1>13, <2>1
    <3>2. Returned(k, m)[i] = Stream[i] /\ Stream[i] = part[i]
      BY <1>7, <1>8, <3>1, Zenon
    <3>. QED
      BY <1>9, <2>1, <3>2
  <2>2. CASE ~ (i <= k)
    <3>1. i \in k + 1 .. m /\ k < m
      BY <2>2
    <3>. QED
      BY <1>8, <1>9, <1>10, <2>2, <3>1 DEF Filler
  <2>. QED
    BY <2>1, <2>2
<1>15. \A i \in 1 .. Needed[wait] : Got(k)[i] = IF i <= k THEN part[i] ELSE 0
  BY <1>6, <1>14
<1>16. k \in 1 .. Len(part)
  BY <1>3, <1>6, <1>11, <1>13
<1>. QED
  BY <1>1, <1>2, <1>6, <1>8, <1>9, <1>10, <1>12, <1>13, <1>15, <1>16

\* A wait that ends leaves no start byte behind, or says so.
LEMMA OverKeeps ==
    ASSUME NEW end \in {"ok", "timeout", "broken"}, NEW type, NEW payload,
           TypeOK, FrameInv, Over(end, type, payload), cur' = cur,
           end = "ok" => (cur # <<>> => Answer(cur[1])')
    PROVE  FrameInv'
<1>1. /\ pc' = "idle" /\ last'.end = end
      /\ sync' = (sync /\ ~Contains(part', START))
  BY DEF Over
<1>2. cur # <<>> => cur = <<cur[1]>> /\ cur[1].type # Noise
  BY DEF FrameInv
<1>3. sync' => ~Contains(part', START)
  BY <1>1
<1>4. cur' # <<>> /\ pc' = "idle" /\ last'.end = "ok" => Answer(cur[1])'
  BY <1>1
<1>. QED
  BY <1>1, <1>2, <1>3, <1>4 DEF FrameInv

\* What the read of a payload returns.
LEMMA PayloadRead ==
    ASSUME TypeOK, FrameInv, pc = "payload", cur # <<>>,
           NEW k \in Nat, k <= Len(Stream), k <= head.len
    PROVE  /\ cur[1] \in Frames /\ cur = <<cur[1]>> /\ Inside(cur[1])
           /\ k \in 0 .. Len(part)
           /\ Len(Returned(k, head.len)) <= Len(cur[1].payload)
           /\ ~stalled /\ k = head.len => Returned(k, head.len) = cur[1].payload
                                          /\ k = Len(part) /\ part = cur[1].payload
           /\ bus = "uart" => Returned(k, head.len)
                                = SubSeq(cur[1].payload, 1, Len(Returned(k, head.len)))
<1>1. cur = <<cur[1]>> /\ Inside(cur[1])
  BY DEF FrameInv
<1>2. PICK f \in Frames : f = cur[1]
  <2>1. cur \in Seq(Frames) /\ Len(cur) \in Nat \ {0}
    BY EmptySeq, LenProperties DEF TypeOK
  <2>. QED
    BY <2>1
<1>3. PICK p \in Seq(Nat), l \in Nat : p = f.payload /\ l = Len(p)
  BY CellsType, LenProperties
<1>4. PICK m \in Nat : m = head.len /\ k \in 0 .. m
  BY DEF TypeOK
<1>5. /\ m <= Len(part) /\ part \in Seq(Nat) /\ Len(part) \in Nat
      /\ ~stalled => m = l /\ part = p
      /\ stalled => bus # "uart" /\ m <= l
  BY <1>1, <1>2, <1>3, <1>4, LenProperties DEF Inside, TypeOK
<1>6. /\ Stream \in Seq(Nat) /\ \A i \in 1 .. Len(part) : Stream[i] = part[i]
  BY StreamType DEF TypeOK
<1>7. /\ Returned(k, m) \in Seq(Nat)
      /\ Len(Returned(k, m)) = IF bus = "uart" THEN k ELSE m
      /\ \A i \in 1 .. k : Returned(k, m)[i] = Stream[i]
  BY <1>4, <1>6, Returns
<1>8. k \in 0 .. Len(part)
  BY <1>4, <1>5
<1>9. Len(Returned(k, m)) <= l
  BY <1>4, <1>5, <1>7
<1>10. ASSUME ~stalled
       PROVE  \A i \in 1 .. k : Returned(k, m)[i] = p[i]
  <2>. TAKE i \in 1 .. k
  <2>1. i \in 1 .. Len(part)
    BY <1>4, <1>5
  <2>2. Returned(k, m)[i] = Stream[i] /\ Stream[i] = part[i]
    BY <1>6, <1>7, <2>1, Zenon
  <2>. QED
    BY <1>5, <1>10, <2>2
<1>11. ASSUME ~stalled, k = m
       PROVE  Returned(k, m) = p /\ k = Len(part) /\ part = p
  <2>1. Len(Returned(k, m)) = l /\ k = l
    BY <1>5, <1>7, <1>11
  <2>2. Returned(k, m) = p
    BY <1>3, <1>7, <1>10, <1>11, <2>1, SeqEqual
  <2>. QED
    BY <1>3, <1>5, <1>11, <2>1, <2>2
<1>12. ASSUME bus = "uart"
       PROVE  Returned(k, m) = SubSeq(p, 1, Len(Returned(k, m)))
  <2>1. ~stalled /\ Len(Returned(k, m)) = k /\ k <= l
    BY <1>4, <1>5, <1>7, <1>12
  <2>2. PICK q \in Seq(Nat) : q = SubSeq(p, 1, k) /\ Len(q) = k /\ \A i \in 1 .. k : q[i] = p[i]
    <3>1. \A i \in 1 .. k : p[i] \in Nat /\ 1 + i - 1 = i
      <4>. TAKE i \in 1 .. k
      <4>1. i \in 1 .. l
        BY <2>1
      <4>. QED
        BY <1>3, <4>1
    <3>2. /\ SubSeq(p, 1, k) \in Seq(Nat)
          /\ Len(SubSeq(p, 1, k)) = IF 1 <= k THEN k - 1 + 1 ELSE 0
          /\ \A i \in 1 .. k - 1 + 1 : SubSeq(p, 1, k)[i] = p[1 + i - 1]
      BY <3>1, SubSeqProperties
    <3>3. (IF 1 <= k THEN k - 1 + 1 ELSE 0) = k /\ k - 1 + 1 = k
      BY <1>4
    <3>4. \A i \in 1 .. k : SubSeq(p, 1, k)[i] = p[i]
      BY <3>1, <3>2, <3>3
    <3>. QED
      BY <3>2, <3>3, <3>4
  <2>3. Returned(k, m) = q
    BY <1>7, <1>10, <2>1, <2>2, SeqEqual
  <2>. QED
    BY <2>1, <2>2, <2>3
<1>. QED
  BY <1>1, <1>2, <1>3, <1>4, <1>8, <1>9, <1>11, <1>12

\* The rest of an ACK or a ping response.
LEMMA SignalStep ==
    ASSUME TypeOK, FrameInv, NEW k \in Nat, k <= Len(Stream), ReadSignal(k)
    PROVE  FrameInv'
<1>1. /\ wait \in {"ping", "ack"} /\ k <= Needed[wait] /\ pc = "head" /\ Accepted(k)
      /\ Over("ok", Got(k)[1], <<>>) /\ cur' = cur /\ bus' = bus
  BY DEF ReadSignal, ReadingHead
<1>2. ASSUME cur # <<>>
      PROVE  Answer(cur[1])'
  <2>1. cur[1] \in Frames /\ cur[1].type \in Accepts[wait] /\ Got(k)[1] = cur[1].type
    BY <1>1, <1>2, HeadRead
  <2>2. cur[1].payload = <<>>
    BY <1>1, <2>1, AcceptedTail DEF TypeOK
  <2>3. last' = [end |-> "ok", type |-> Got(k)[1], payload |-> <<>>]
    BY <1>1 DEF Over
  <2>4. last'.type = cur'[1].type /\ last'.payload = cur'[1].payload /\ cur'[1].payload = <<>>
    BY <1>1, <2>1, <2>2, <2>3
  <2>5. Len(<<>>) = 0 /\ SubSeq(<<>>, 1, 0) = <<>>
    OBVIOUS
  <2>6. Len(last'.payload) <= Len(cur'[1].payload)
        /\ last'.payload = SubSeq(cur'[1].payload, 1, Len(last'.payload))
    BY <2>4, <2>5
  <2>. QED
    BY <2>4, <2>6 DEF Answer
<1>. QED
  BY <1>1, <1>2, OverKeeps

\* The rest of the head of a packet.
LEMMA HeadStep ==
    ASSUME TypeOK, FrameInv, NEW k \in Nat, k <= Len(Stream), ReadHead(k)
    PROVE  /\ FrameInv'
           /\ cur # <<>> => chan' = chan
<1>1. /\ wait \in {"cmd", "data"} /\ k <= Needed[wait] /\ pc = "head" /\ Accepted(k)
      /\ head' = [type |-> Got(k)[1], len |-> Got(k)[2]]
      /\ pc' = "payload" /\ Take(k) /\ stalled' = (stalled \/ k < Needed[wait])
      /\ cur' = cur /\ bus' = bus /\ wait' = wait /\ last' = last /\ sync' = sync
  BY DEF ReadHead, ReadingHead, Reading
<1>2. ASSUME cur # <<>>
      PROVE  Inside(cur[1])' /\ chan' = chan
  <2>1. /\ cur[1] \in Frames /\ cur[1].type \in Accepts[wait]
        /\ part = Tail(Cells(cur[1])) /\ ~stalled
        /\ k \in 1 .. Len(part) /\ Needed[wait] <= Len(part) /\ Needed[wait] \in Nat
        /\ Got(k)[1] = cur[1].type
        /\ k < Needed[wait] => bus # "uart"
        /\ \A i \in 1 .. Needed[wait] : Got(k)[i] = IF i <= k THEN part[i] ELSE 0
    BY <1>1, <1>2, HeadRead
  <2>2. PICK f \in Frames : f = cur[1] /\ f = cur'[1]
    BY <1>1, <2>1
  <2>3. Needed[wait] = 3 /\ wait \in DOMAIN Accepts
    BY <1>1, Waits DEF TypeOK
  <2>4. f.type \in Framed /\ f.type # Noise
    BY <1>1, <2>1, <2>2, <2>3, AcceptedTail
  <2>5. PICK p \in Seq(Nat), l \in Nat : p = f.payload /\ l = Len(p)
    BY CellsType, LenProperties
  <2>6. PICK t \in Seq(Nat) :
           /\ t = part /\ Len(t) = 3 + l /\ t[2] = l /\ From(t, 4) = p
           /\ Contains(t, START) => Channel!Holds(f)
    BY <2>1, <2>2, <2>4, <2>5, BehindStart
  <2>7. /\ chan' = chan /\ part' = From(t, k + 1) /\ Len(part') = 3 + l - k
        /\ Contains(part', START) => Channel!Holds(f)
    <3>1. k \in 0 .. Len(part)
      BY <2>1
    <3>2. /\ chan' = chan /\ part' = From(part, k + 1) /\ Len(part') = Len(part) - k
          /\ Contains(part', START) => Contains(part, START)
      BY <1>1, <3>1, ReadOn DEF TypeOK
    <3>. QED
      BY <2>6, <3>2
  <2>8. k \in 1 .. 3 /\ (k < 3 => stalled') /\ (k = 3 => ~stalled')
    <3>1. (k < Needed[wait] => stalled') /\ (~ (k < Needed[wait]) => ~stalled')
      BY <1>1, <2>1, Zenon
    <3>2. k \in 1 .. 3
      BY <1>1, <2>1, <2>3
    <3>3. (k < 3 => k < Needed[wait]) /\ (k = 3 => ~ (k < Needed[wait]))
      BY <2>3, <3>2
    <3>. QED
      BY <3>1, <3>2, <3>3
  <2>9. Got(k)[2] = IF 2 <= k THEN l ELSE 0
    <3>1. 2 \in 1 .. 3
      OBVIOUS
    <3>. QED
      BY <2>1, <2>3, <2>6, <3>1
  <2>10. head'.type = f.type /\ head'.len = IF 2 <= k THEN l ELSE 0
    BY <1>1, <2>1, <2>2, <2>9
  <2>11. head'.len <= Len(part')
    BY <2>5, <2>7, <2>8, <2>10
  <2>12. ASSUME k = 3
         PROVE  head'.len = l /\ part' = p /\ ~stalled'
    <3>1. k + 1 = 4 /\ 2 <= k
      BY <2>12
    <3>2. part' = p
      BY <2>6, <2>7, <3>1
    <3>. QED
      BY <2>8, <2>10, <2>12, <3>1, <3>2
  <2>13. ASSUME k < 3
         PROVE  stalled' /\ bus' # "uart" /\ head'.len <= l
    <3>1. bus' # "uart"
      BY <1>1, <2>1, <2>3, <2>13
    <3>2. head'.len <= l
      BY <2>5, <2>10
    <3>. QED
      BY <2>8, <2>13, <3>1, <3>2
  <2>14. Inside(f)'
    <3>1. f.type \in Accepts[wait']
      BY <1>1, <2>1, <2>2
    <3>. QED
      BY <2>4, <2>5, <2>7, <2>8, <2>10, <2>11, <2>12, <2>13, <3>1 DEF Inside
  <2>15. Inside(cur[1])'
    BY <2>2, <2>14 DEF Inside
  <2>. QED
    BY <2>7, <2>15
<1>3. cur # <<>> => cur = <<cur[1]>> /\ cur[1].type # Noise
  BY DEF FrameInv
<1>4. last' = Pending
  BY <1>1 DEF FrameInv
<1>5. sync' => cur' # <<>>
  BY <1>1 DEF FrameInv
<1>6. FrameInv'
  <2>1. pc' \notin {"idle", "start", "head"}
    BY <1>1
  <2>2. cur' # <<>> => Inside(cur[1])' /\ cur' = <<cur'[1]>> /\ cur'[1].type # Noise
    BY <1>1, <1>2, <1>3
  <2>. QED
    BY <1>4, <1>5, <2>1, <2>2 DEF FrameInv
<1>. QED
  BY <1>2, <1>6

\* The payload.
LEMMA PayloadStep ==
    ASSUME TypeOK, FrameInv, NEW k \in Nat, k <= Len(Stream), ReadPayload(k)
    PROVE  FrameInv'
<1>1. /\ k <= head.len /\ pc = "payload" /\ stalled' = (stalled \/ k < head.len)
      /\ Over("ok", head.type, Returned(k, head.len)) /\ cur' = cur /\ bus' = bus
  BY DEF ReadPayload, Reading
<1>2. ASSUME cur # <<>>
      PROVE  Answer(cur[1])'
  <2>1. /\ Inside(cur[1])
        /\ Len(Returned(k, head.len)) <= Len(cur[1].payload)
        /\ ~stalled /\ k = head.len => Returned(k, head.len) = cur[1].payload
        /\ bus = "uart" => Returned(k, head.len)
                             = SubSeq(cur[1].payload, 1, Len(Returned(k, head.len)))
    BY <1>1, <1>2, PayloadRead
  <2>2. last' = [end |-> "ok", type |-> head.type, payload |-> Returned(k, head.len)]
    BY <1>1 DEF Over
  <2>3. last'.type = head.type /\ last'.payload = Returned(k, head.len)
    BY <2>2
  <2>4. ~stalled' => ~stalled /\ k = head.len
    <3>1. ~stalled' => ~stalled /\ ~ (k < head.len)
      BY <1>1, Zenon
    <3>2. head.len \in Nat
      BY DEF TypeOK
    <3>. QED
      BY <1>1, <3>1, <3>2
  <2>5. head.type = cur[1].type
    BY <2>1 DEF Inside
  <2>. QED
    BY <1>1, <2>1, <2>3, <2>4, <2>5 DEF Answer
<1>. QED
  BY <1>1, <1>2, OverKeeps

\* The start byte: of the next frame, or, if the host is astray, any.
LEMMA StartStep ==
    ASSUME TypeOK, FrameInv, FindStart
    PROVE  /\ FrameInv'
           /\ IF part = <<>> THEN chan # <<>> /\ cur' = <<chan[1]>> /\ chan' = Tail(chan)
                             ELSE ~sync /\ cur' = <<>> /\ chan' = chan
<1>1. /\ pc = "start" /\ pc' = "head" /\ Stream # <<>> /\ Stream[1] = START /\ Take(1)
      /\ cur' = IF part = <<>> THEN <<chan[1]>> ELSE <<>>
      /\ bus' = bus /\ last' = last /\ stalled' = stalled /\ sync' = sync
  BY DEF FindStart
<1>2. last' = Pending /\ ~stalled'
  BY <1>1 DEF FrameInv
<1>3. CASE part = <<>>
  <2>1. /\ chan # <<>> /\ chan[1] \in Frames /\ chan' = Tail(chan)
        /\ Stream[1] = Cells(chan[1])[1] /\ part' = Tail(Cells(chan[1]))
    BY <1>1, <1>3, FirstByte DEF TypeOK
  <2>2. chan[1].type # Noise
    BY <1>1, <2>1, StartsWith
  <2>3. cur' = <<chan[1]>> /\ cur' # <<>> /\ cur'[1] = chan[1]
    BY <1>1, <1>3
  <2>4. FrameInv'
    BY <1>1, <1>2, <2>1, <2>2, <2>3 DEF FrameInv
  <2>. QED
    BY <1>3, <2>1, <2>3, <2>4
<1>4. CASE part # <<>>
  <2>1. /\ chan' = chan /\ Stream[1] = part[1] /\ Len(part) \in Nat \ {0}
    BY <1>1, <1>4, FirstByte DEF TypeOK
  <2>2. Contains(part, START)
    BY <1>1, <2>1 DEF Contains
  <2>3. ~sync
    BY <1>1, <2>2 DEF FrameInv
  <2>4. FrameInv'
    BY <1>1, <1>2, <1>4, <2>3 DEF FrameInv
  <2>. QED
    BY <1>1, <1>4, <2>1, <2>3, <2>4
<1>. QED
  BY <1>3, <1>4

\* A byte that is none: between the frames, or, inside one that was left, any.
LEMMA SkipStep ==
    ASSUME TypeOK, FrameInv, SkipByte
    PROVE  /\ FrameInv'
           /\ IF part = <<>> THEN chan # <<>> /\ chan[1].type = Noise /\ chan' = Tail(chan)
                             ELSE chan' = chan
<1>1. pc = "start" /\ Stream # <<>> /\ Stream[1] # START /\ Take(1)
  BY DEF SkipByte
<1>2. /\ bus' = bus /\ pc' = pc /\ wait' = wait /\ head' = head /\ cur' = cur
      /\ last' = last /\ stalled' = stalled /\ sync' = sync
  BY DEF SkipByte, hostVars
<1>3. ASSUME sync => ~Contains(part', START)
      PROVE  FrameInv'
  BY <1>1, <1>2, <1>3 DEF FrameInv
<1>4. CASE part = <<>>
  <2>1. /\ chan # <<>> /\ chan[1] \in Frames /\ chan' = Tail(chan)
        /\ Stream[1] = Cells(chan[1])[1] /\ part' = Tail(Cells(chan[1]))
    BY <1>1, <1>4, FirstByte DEF TypeOK
  <2>2. chan[1].type = Noise /\ part' = <<>>
    BY <1>1, <2>1, StartsWith
  <2>3. ~Contains(part', START)
    BY <2>2, EmptySeq DEF Contains
  <2>. QED
    BY <1>3, <1>4, <2>1, <2>2, <2>3
<1>5. CASE part # <<>>
  <2>1. chan' = chan /\ (Contains(part', START) => Contains(part, START))
    BY <1>1, <1>5, FirstByte DEF TypeOK
  <2>2. sync => ~Contains(part', START)
    BY <1>1, <2>1 DEF FrameInv
  <2>. QED
    BY <1>3, <1>5, <2>1, <2>2
<1>. QED
  BY <1>4, <1>5

\* A line the host waits at the start of holds no start byte it should not.
LEMMA FrameStep ==
    ASSUME TypeOK, FrameInv, [Next]_vars
    PROVE  FrameInv'
<1>1. ASSUME NEW w \in DOMAIN Accepts, Ask(w)
      PROVE  FrameInv'
  BY <1>1 DEF Ask, FrameInv
<1>2. ASSUME TimedOut
      PROVE  FrameInv'
  BY <1>2, OverKeeps DEF TimedOut
<1>3. ASSUME Nack
      PROVE  FrameInv'
  BY <1>3, OverKeeps DEF Nack, Raise
<1>4. ASSUME NEW k \in 0 .. Len(Stream), RejectHead(k)
      PROVE  FrameInv'
  BY <1>4, OverKeeps DEF RejectHead, Raise
<1>5. ASSUME NEW k \in 0 .. Len(Stream), ReadSignal(k) \/ ReadHead(k) \/ ReadPayload(k)
      PROVE  FrameInv'
  <2>1. k \in Nat /\ k <= Len(Stream)
    BY StreamType DEF TypeOK
  <2>. QED
    BY <1>5, <2>1, SignalStep, HeadStep, PayloadStep
<1>6. ASSUME NEW f \in Frames, DevSend(f)
      PROVE  FrameInv'
  <2>1. /\ bus' = bus /\ pc' = pc /\ wait' = wait /\ head' = head /\ cur' = cur
        /\ last' = last /\ stalled' = stalled /\ sync' = sync /\ part' = part
    BY <1>6 DEF DevSend, hostVars
  <2>. QED
    BY <2>1 DEF FrameInv, Inside, Answer
<1>7. CASE UNCHANGED vars
  BY <1>7 DEF vars, hostVars, FrameInv, Inside, Answer
<1>. QED
  BY <1>1, <1>2, <1>3, <1>4, <1>5, <1>6, <1>7, StartStep, SkipStep DEF Next, HostStep, Read

\* Where the host and the line are with respect to the frame the wait took, however
\* the device stalls, and the wait times out (uart.py:85-111, 149-164).
THEOREM FrameFollowed == Spec => []FrameInv
<1>1. Init => FrameInv
  <2>. SUFFICES ASSUME Init
                PROVE  FrameInv
    OBVIOUS
  <2>1. ~Contains(<<>>, START) /\ last.end = "none"
    BY EmptySeq DEF Contains, Init, Pending
  <2>. QED
    BY <2>1 DEF Init, FrameInv
<1>. QED
  BY <1>1, FrameStep, TypeCorrect, PTL DEF Spec

\* What the host parses of a response that did not stall has the status and value
\* the device sent, on every bus.  Over a UART one that stalled keeps its status and
\* has its value or 0 (uart.py:93-111, protocol.py:26-34).  Of one that stalled over
\* SPI or I2C the theorem says nothing: its filler is read as a success (spi.py:69).
THEOREM HonestResponse == Spec => []ResponseHonest
<1>1. ASSUME TypeOK, FrameInv
      PROVE  ResponseHonest
  <2>. DEFINE r == parse_response_payload(last.payload)
              d == parse_response_payload(cur[1].payload)
  <2>. SUFFICES ASSUME last.end = "ok", cur # <<>>
                PROVE  /\ ~stalled => r = d
                       /\ r.ok /\ bus = "uart" => r.status = d.status /\ r.value \in {d.value, 0}
    BY DEF ResponseHonest
  <2>1. pc = "idle"
    BY <1>1 DEF FrameInv, Pending
  <2>2. Answer(cur[1])
    BY <1>1, <2>1 DEF FrameInv
  <2>3. PICK p \in Seq(Nat), l \in Nat : p = cur[1].payload /\ l = Len(p)
    <3>1. cur[1] \in Frames
      <4>1. cur \in Seq(Frames) /\ Len(cur) \in Nat \ {0}
        BY <1>1, EmptySeq, LenProperties DEF TypeOK
      <4>. QED
        BY <4>1
    <3>. QED
      BY <3>1, CellsType, LenProperties
  <2>4. PICK q \in Seq(Nat), k \in Nat : q = last.payload /\ k = Len(q)
    BY <1>1, LenProperties DEF TypeOK
  <2>5. ~stalled => r = d
    BY <2>2 DEF Answer
  <2>6. ASSUME r.ok, bus = "uart"
        PROVE  r.status = d.status /\ r.value \in {d.value, 0}
    <3>1. k <= l /\ q = SubSeq(p, 1, k)
      BY <2>2, <2>3, <2>4, <2>6 DEF Answer
    <3>2. \A i \in 1 .. k : q[i] = p[i]
      BY <2>3, <2>4, <3>1
    <3>3. k >= 2
      BY <2>4, <2>6 DEF parse_response_payload
    <3>4. q[2] = p[2] /\ (k >= 3 => q[3] = p[3])
      BY <2>4, <3>2, <3>3
    <3>5. r.status = q[2] /\ r.value = IF k >= 3 THEN q[3] ELSE 0
      BY <2>4, <3>3 DEF parse_response_payload
    <3>6. d.status = p[2] /\ (k >= 3 => d.value = p[3])
      BY <2>3, <2>4, <3>1, <3>3 DEF parse_response_payload
    <3>. QED
      BY <3>4, <3>5, <3>6
  <2>. QED
    BY <2>5, <2>6
<1>. QED
  BY <1>1, TypeCorrect, FrameFollowed, PTL

-----------------------------------------------------------------------------
(* The bytes are a queue of frames.                                        *)

\* With no frame it is inside, the line is what it has not begun.
LEMMA LineNow ==
    ASSUME TypeOK
    PROVE  /\ pc \in {"idle", "start"} \/ cur = <<>> => Line = chan
           /\ pc # "idle" => Waiting = wait /\ Waiting # "none"
<1>1. pc \in {"idle", "start"} \/ cur = <<>> => Line = chan
  <2>1. <<>> \o chan = chan
    BY ConcatEmptySeq DEF TypeOK
  <2>. QED
    BY <2>1 DEF Line
<1>2. pc # "idle" => Waiting = wait /\ Waiting # "none"
  <2>1. wait \in {"ping", "ack", "cmd", "data"}
    BY Waits DEF TypeOK
  <2>. QED
    BY <2>1 DEF Waiting
<1>. QED
  BY <1>1, <1>2

\* The frame the host is inside is the first on the line.
LEMMA LineInside ==
    ASSUME TypeOK, pc \in {"head", "payload"}, cur # <<>>, cur = <<cur[1]>>
    PROVE  /\ Line # <<>> /\ Head(Line) = cur[1] /\ Tail(Line) = chan
           /\ Len(Line) = 1 + Len(chan) /\ Line[1] = cur[1] /\ cur[1] \in Frames
           /\ \A n \in 1 .. Len(chan) : Line[n + 1] = chan[n]
           /\ \A n \in 0 .. Len(chan) : Channel!Skipping(n + 1) = From(chan, n + 1)
<1>1. PICK c \in Seq(Frames), s \in Seq(Frames), l \in Nat :
         c = cur /\ s = chan /\ l = Len(s) /\ Len(c) = 1 /\ c[1] \in Frames
  <2>1. cur \in Seq(Frames) /\ chan \in Seq(Frames)
    BY DEF TypeOK
  <2>2. Len(cur) = 1
    OBVIOUS
  <2>3. cur[1] \in Frames
    BY <2>1, <2>2
  <2>. QED
    BY <2>1, <2>2, <2>3, LenProperties
<1>2. PICK w \in Seq(Frames) :
         /\ w = Line /\ Len(w) = 1 + l /\ w = c \o s
         /\ \A i \in 1 .. 1 + l : w[i] = IF i <= 1 THEN c[i] ELSE s[i - 1]
  <2>1. /\ c \o s \in Seq(Frames) /\ Len(c \o s) = Len(c) + Len(s)
        /\ \A i \in 1 .. Len(c) + Len(s) :
              (c \o s)[i] = IF i <= Len(c) THEN c[i] ELSE s[i - Len(c)]
    BY ConcatProperties, Zenon
  <2>2. Line = c \o s
    BY <1>1 DEF Line
  <2>. QED
    BY <1>1, <2>1, <2>2
<1>3. w[1] = c[1] /\ w # <<>> /\ Head(w) = w[1]
  <2>1. 1 \in 1 .. 1 + l
    BY <1>1
  <2>2. w # <<>>
    BY <1>1, <1>2, EmptySeq
  <2>. QED
    BY <1>2, <2>1, <2>2, HeadTailProperties
<1>4. ASSUME NEW n \in 1 .. l
      PROVE  w[n + 1] = s[n]
  <2>1. PICK m \in 1 .. 1 + l : m = n + 1 /\ ~ (m <= 1) /\ m - 1 = n
    <3>1. n + 1 \in 1 .. 1 + l /\ ~ (n + 1 <= 1) /\ n + 1 - 1 = n
      BY <1>1
    <3>. QED
      BY <3>1
  <2>. QED
    BY <1>2, <2>1
<1>5. Tail(w) = s
  <2>1. Tail(w) \in Seq(Frames) /\ Len(Tail(w)) = l /\ \A i \in 1 .. l : Tail(w)[i] = w[i + 1]
    BY <1>1, <1>2, <1>3, HeadTailProperties
  <2>. QED
    BY <1>1, <1>4, <2>1, SeqEqual
<1>6. ASSUME NEW n \in 0 .. l
      PROVE  Channel!Skipping(n + 1) = From(s, n + 1)
  <2>1. From(c \o s, Len(c) + n + 1) = From(s, n + 1)
    BY <1>1, FromJoined
  <2>2. Len(c) + n + 1 = n + 1 + 1
    BY <1>1
  <2>3. Channel!Skipping(n + 1) = From(w, n + 1 + 1)
    BY <1>2 DEF Channel!Skipping, From
  <2>. QED
    BY <1>2, <2>1, <2>2, <2>3
<1>. QED
  BY <1>1, <1>2, <1>3, <1>4, <1>5, <1>6

\* A wait that ends inside a frame of a type it takes, after a stall.
LEMMA SpoilMaps ==
    ASSUME TypeOK, TypeOK', pc \in {"head", "payload"}, cur # <<>>, cur = <<cur[1]>>,
           pc' = "idle", chan' = chan, stalled', cur[1].type \in Accepts[wait],
           sync' = (sync /\ ~Contains(part', START)),
           Contains(part', START) => Channel!Holds(cur[1]),
           \/ last' = [end |-> "broken", type |-> Noise, payload |-> <<>>]
           \/ /\ last'.end = "ok" /\ last'.type = cur[1].type
              /\ Channel!Remnant(last'.payload, cur[1].payload)
    PROVE  Channel!Spoil
<1>1. Waiting' = "none" /\ Line' = chan
  BY DEF Waiting, Line
<1>2. Waiting = wait /\ Waiting # "none"
  BY LineNow
<1>3. Line # <<>> /\ Head(Line) = cur[1] /\ Tail(Line) = chan
  BY LineInside
<1>4. sync' \in {sync, sync /\ ~Channel!Holds(cur[1])}
  BY Zenon DEF TypeOK
<1>5. stalled' = TRUE
  BY DEF TypeOK
<1>6. [Channel!Pending EXCEPT !.end = "broken"] = [end |-> "broken", type |-> Noise, payload |-> <<>>]
  BY DEF Channel!Pending
<1>. QED
  BY <1>1, <1>2, <1>3, <1>4, <1>5, <1>6 DEF Channel!Spoil

\* A wait that ends inside a frame of another type: what it read behind it is gone too.
LEMMA RejectMaps ==
    ASSUME TypeOK, TypeOK', pc \in {"head", "payload"}, cur # <<>>, cur = <<cur[1]>>,
           pc' = "idle", NEW n \in 0 .. Len(chan), chan' = From(chan, n + 1),
           stalled => stalled', cur[1].type \notin Accepts[wait],
           sync' = (sync /\ ~Contains(part', START)),
           n = 0 => (Contains(part', START) => Channel!Holds(cur[1])),
           n # 0 => (Contains(part', START) => Channel!Holds(chan[n])),
           last' = [end |-> "broken", type |-> Noise, payload |-> <<>>]
    PROVE  Channel!Reject
<1>1. Waiting' = "none" /\ Line' = chan'
  BY DEF Waiting, Line
<1>2. Waiting = wait /\ Waiting # "none"
  BY LineNow
<1>3. /\ Line # <<>> /\ Head(Line) = cur[1] /\ Line[1] = cur[1] /\ Len(Line) = 1 + Len(chan)
      /\ \A m \in 1 .. Len(chan) : Line[m + 1] = chan[m]
      /\ \A m \in 0 .. Len(chan) : Channel!Skipping(m + 1) = From(chan, m + 1)
  BY LineInside
<1>4. PICK o \in 1 .. Len(Line) : o = n + 1
  <2>1. Len(chan) \in Nat
    BY LenProperties DEF TypeOK
  <2>2. n + 1 \in 1 .. Len(Line)
    BY <1>3, <2>1
  <2>. QED
    BY <2>2
<1>5. Line' = Channel!Skipping(o)
  BY <1>1, <1>3, <1>4
<1>6. Contains(part', START) => Channel!Holds(Line[o])
  <2>1. CASE n = 0
    BY <1>3, <1>4, <2>1
  <2>2. CASE n # 0
    <3>1. n \in 1 .. Len(chan)
      BY <2>2
    <3>. QED
      BY <1>3, <1>4, <2>2, <3>1
  <2>. QED
    BY <2>1, <2>2
<1>7. sync' \in {sync, sync /\ ~Channel!Holds(Line[o])}
  BY <1>6, Zenon DEF TypeOK
<1>8. stalled' \in {stalled, TRUE}
  BY DEF TypeOK
<1>9. [Channel!Pending EXCEPT !.end = "broken"] = [end |-> "broken", type |-> Noise, payload |-> <<>>]
  BY DEF Channel!Pending
<1>. QED
  BY <1>1, <1>2, <1>3, <1>5, <1>7, <1>8, <1>9 DEF Channel!Reject

\* A wait that ends inside a frame of a type it takes, with no stall.
LEMMA ReceiveMaps ==
    ASSUME TypeOK, TypeOK', pc \in {"head", "payload"}, cur # <<>>, cur = <<cur[1]>>,
           pc' = "idle", chan' = chan, ~stalled, ~stalled', cur[1].type \in Accepts[wait],
           sync' = sync,
           last' = [end |-> "ok", type |-> cur[1].type, payload |-> cur[1].payload]
    PROVE  Channel!Receive
<1>1. Waiting' = "none" /\ Line' = chan
  BY DEF Waiting, Line
<1>2. Waiting = wait /\ Waiting # "none"
  BY LineNow
<1>3. Line # <<>> /\ Head(Line) = cur[1] /\ Tail(Line) = chan
  BY LineInside
<1>4. stalled' = stalled
  BY DEF TypeOK
<1>. QED
  BY <1>1, <1>2, <1>3, <1>4 DEF Channel!Receive, Channel!Got

\* A host that is inside no frame it began at its start reads on.
LEMMA AstrayMaps ==
    ASSUME TypeOK, TypeOK', ~sync, sync' => sync, cur = <<>>, cur' = <<>>,
           NEW n \in 0 .. Len(chan), chan' = From(chan, n + 1)
    PROVE  Channel!Astray
<1>1. Line = chan
  BY LineNow
<1>2. Line' = chan'
  <2>1. <<>> \o chan' = chan'
    BY ConcatEmptySeq DEF TypeOK
  <2>. QED
    BY <2>1 DEF Line
<1>3. Line' = Channel!Skipping(n)
  BY <1>1, <1>2 DEF Channel!Skipping, From
<1>. QED
  BY <1>1, <1>3 DEF Channel!Astray

\* A wait that ends and took no frame.
LEMMA MissMaps ==
    ASSUME TypeOK, TypeOK', pc # "idle", pc' = "idle", chan' = chan, Line = chan,
           sync' = sync, stalled => stalled',
           \/ last' = [end |-> "timeout", type |-> Noise, payload |-> <<>>]
           \/ last' = [end |-> "broken", type |-> Noise, payload |-> <<>>] /\ stalled'
    PROVE  Channel!Miss
<1>1. Waiting' = "none" /\ Line' = Line
  BY DEF Waiting, Line
<1>2. Waiting # "none"
  BY LineNow
<1>3. stalled' \in {stalled, TRUE}
  BY DEF TypeOK
<1>4. /\ [Channel!Pending EXCEPT !.end = "broken"]  = [end |-> "broken", type |-> Noise, payload |-> <<>>]
      /\ [Channel!Pending EXCEPT !.end = "timeout"] = [end |-> "timeout", type |-> Noise, payload |-> <<>>]
  BY DEF Channel!Pending
<1>. QED
  BY <1>1, <1>2, <1>3, <1>4 DEF Channel!Miss

\* A start byte in what is left of the frame the host is inside is one of the frame.
LEMMA InsideHolds ==
    ASSUME TypeOK, FrameInv, pc \in {"head", "payload"}, cur # <<>>
    PROVE  /\ cur = <<cur[1]>> /\ cur[1] \in Frames /\ cur[1].type # Noise
           /\ Contains(part, START) => Channel!Holds(cur[1])
<1>1. cur = <<cur[1]>> /\ cur[1].type # Noise
  BY DEF FrameInv
<1>2. PICK f \in Frames : f = cur[1]
  <2>1. cur \in Seq(Frames) /\ Len(cur) \in Nat \ {0}
    BY EmptySeq, LenProperties DEF TypeOK
  <2>. QED
    BY <2>1
<1>3. CASE pc = "head"
  <2>1. part = Tail(Cells(f))
    BY <1>2, <1>3 DEF FrameInv
  <2>. QED
    BY <1>1, <1>2, <2>1, BehindStart
<1>4. CASE pc = "payload"
  <2>1. Inside(f)
    BY <1>2, <1>4 DEF FrameInv
  <2>2. ASSUME ~stalled, Contains(part, START)
        PROVE  Channel!Holds(f)
    <3>1. PICK i \in 1 .. Len(part) : part[i] = START
      BY <2>2 DEF Contains
    <3>2. part = f.payload /\ f.payload \in Seq(Nat)
      BY <2>1, <2>2, CellsType DEF Inside
    <3>3. i \in DOMAIN f.payload
      BY <3>1, <3>2, LenProperties
    <3>. QED
      BY <3>1, <3>2, <3>3 DEF Channel!Holds
  <2>. QED
    BY <1>1, <1>2, <2>1, <2>2 DEF Inside
<1>. QED
  BY <1>1, <1>3, <1>4

\* A start byte, or none, is a frame begun, or a byte between frames.
LEMMA SearchMaps ==
    ASSUME TypeOK, TypeOK', FrameInv, FindStart \/ SkipByte
    PROVE  Channel!SkipNoise \/ UNCHANGED Channel!vars
<1>1. CASE FindStart
  <2>1. /\ pc = "start" /\ pc' = "head"
        /\ bus' = bus /\ wait' = wait /\ last' = last /\ stalled' = stalled /\ sync' = sync
    BY <1>1 DEF FindStart
  <2>2. Line = chan
    BY <2>1, LineNow
  <2>3. Line' = cur' \o chan'
    BY <2>1 DEF Line
  <2>4. Line' = chan
    <3>1. CASE part = <<>>
      <4>1. chan # <<>> /\ cur' = <<chan[1]>> /\ chan' = Tail(chan) /\ chan \in Seq(Frames)
        BY <1>1, <3>1, StartStep DEF TypeOK
      <4>2. PICK t \in Seq(Frames), l \in Nat : t = Tail(chan) /\ l = Len(t) /\ Len(chan) = l + 1
        BY <4>1, HeadTailProperties, LenProperties
      <4>3. PICK c \in Seq(Frames) : c = <<chan[1]>> /\ Len(c) = 1 /\ c[1] = chan[1]
        <5>1. cur' \in Seq(Frames)
          BY DEF TypeOK
        <5>. QED
          BY <4>1, <5>1
      <4>4. /\ c \o t \in Seq(Frames) /\ Len(c \o t) = Len(c) + Len(t)
            /\ \A i \in 1 .. Len(c) + Len(t) :
                  (c \o t)[i] = IF i <= Len(c) THEN c[i] ELSE t[i - Len(c)]
        BY ConcatProperties, Zenon
      <4>5. ASSUME NEW i \in 1 .. l + 1
            PROVE  (c \o t)[i] = chan[i]
        <5>1. CASE i = 1
          BY <4>2, <4>3, <4>4, <5>1
        <5>2. CASE i # 1
          <6>1. PICK m \in 1 .. l : m = i - 1 /\ i = m + 1
            <7>1. i - 1 \in 1 .. l /\ i = (i - 1) + 1
              BY <5>2
            <7>. QED
              BY <7>1
          <6>2. t[m] = chan[m + 1]
            BY <4>1, <4>2, HeadTailProperties
          <6>3. (c \o t)[i] = t[m]
            BY <4>2, <4>3, <4>4, <6>1
          <6>. QED
            BY <6>1, <6>2, <6>3
        <5>. QED
          BY <5>1, <5>2
      <4>6. c \o t = chan
        BY <4>1, <4>2, <4>3, <4>4, <4>5, SeqEqual
      <4>. QED
        BY <2>3, <4>1, <4>2, <4>3, <4>6
    <3>2. CASE part # <<>>
      <4>1. cur' = <<>> /\ chan' = chan
        BY <1>1, <3>2, StartStep
      <4>2. <<>> \o chan = chan
        BY ConcatEmptySeq DEF TypeOK
      <4>. QED
        BY <2>3, <4>1, <4>2
    <3>. QED
      BY <3>1, <3>2
  <2>5. Waiting' = Waiting
    BY <2>1 DEF Waiting
  <2>. QED
    BY <2>1, <2>2, <2>4, <2>5 DEF Channel!vars
<1>2. CASE SkipByte
  <2>1. pc = "start" /\ bus' = bus /\ pc' = pc /\ wait' = wait
        /\ last' = last /\ stalled' = stalled /\ sync' = sync
    BY <1>2 DEF SkipByte, hostVars
  <2>2. Line = chan /\ Line' = chan' /\ Waiting' = Waiting /\ Waiting # "none"
    BY <2>1, LineNow DEF Line, Waiting
  <2>3. CASE part = <<>>
    <3>1. chan # <<>> /\ chan[1].type = Noise /\ chan' = Tail(chan)
      BY <1>2, <2>3, SkipStep
    <3>2. Head(chan) = chan[1]
      BY <3>1, HeadTailProperties DEF TypeOK
    <3>3. Channel!SkipNoise
      BY <2>1, <2>2, <3>1, <3>2 DEF Channel!SkipNoise
    <3>. QED
      BY <3>3
  <2>4. CASE part # <<>>
    <3>1. chan' = chan
      BY <1>2, <2>4, SkipStep
    <3>. QED
      BY <2>1, <2>2, <3>1 DEF Channel!vars
  <2>. QED
    BY <2>3, <2>4
<1>. QED
  BY <1>1, <1>2

\* A deadline takes no frame.
LEMMA TimeoutMaps ==
    ASSUME TypeOK, TypeOK', FrameInv, TimedOut
    PROVE  Channel!Miss
<1>1. /\ pc = "start" /\ pc' = "idle" /\ chan' = chan /\ part' = part /\ stalled' = stalled
      /\ last' = [end |-> "timeout", type |-> Noise, payload |-> <<>>]
      /\ sync' = (sync /\ ~Contains(part', START))
  BY DEF TimedOut, Over
<1>2. sync => ~Contains(part', START)
  BY <1>1 DEF FrameInv
<1>3. sync' = sync
  BY <1>1, <1>2, Zenon DEF TypeOK
<1>4. Line = chan
  BY <1>1, LineNow
<1>. QED
  BY <1>1, <1>3, <1>4, MissMaps

\* A bus that breaks a read costs the frame it is inside, and no other.
LEMMA NackMaps ==
    ASSUME TypeOK, TypeOK', FrameInv, Nack
    PROVE  Channel!Miss \/ Channel!Spoil \/ Channel!Reject
<1>1. /\ pc # "idle" /\ pc' = "idle" /\ chan' = chan /\ part' = part /\ stalled'
      /\ last' = [end |-> "broken", type |-> Noise, payload |-> <<>>]
      /\ sync' = (sync /\ ~Contains(part', START))
  BY DEF Nack, Raise, Over
<1>2. CASE pc = "start" \/ cur = <<>>
  <2>1. sync => ~Contains(part', START)
    BY <1>1, <1>2 DEF FrameInv, TypeOK
  <2>2. sync' = sync
    BY <1>1, <2>1, Zenon DEF TypeOK
  <2>3. Line = chan
    BY <1>2, LineNow
  <2>. QED
    BY <1>1, <2>2, <2>3, MissMaps
<1>3. CASE pc # "start" /\ cur # <<>>
  <2>1. pc \in {"head", "payload"}
    BY <1>1, <1>3 DEF TypeOK
  <2>2. cur = <<cur[1]>> /\ (Contains(part', START) => Channel!Holds(cur[1]))
    BY <1>1, <1>3, <2>1, InsideHolds
  <2>3. CASE cur[1].type \in Accepts[wait]
    BY <1>1, <1>3, <2>1, <2>2, <2>3, SpoilMaps
  <2>4. CASE cur[1].type \notin Accepts[wait]
    <3>1. PICK n \in 0 .. Len(chan) : n = 0 /\ chan' = From(chan, n + 1)
      <4>1. 0 \in 0 .. Len(chan) /\ From(chan, 1) = chan
        BY LenProperties, SubSeqFull DEF TypeOK, From
      <4>. QED
        BY <1>1, <4>1
    <3>. QED
      BY <1>1, <1>3, <2>1, <2>2, <2>4, <3>1, RejectMaps
  <2>. QED
    BY <2>3, <2>4
<1>. QED
  BY <1>2, <1>3

\* A head that is refused is that of a frame that stalled, or of one of another type.
LEMMA RefusedMaps ==
    ASSUME TypeOK, TypeOK', FrameInv, NEW k \in Nat, k <= Len(Stream), RejectHead(k)
    PROVE  Channel!Spoil \/ Channel!Reject \/ Channel!Astray
<1>1. /\ pc = "head" /\ pc' = "idle" /\ Take(k) /\ cur' = cur
      /\ stalled' = (stalled \/ k < Needed[wait])
      /\ ~Accepted(Min({k, Needed[wait]}))
      /\ last' = [end |-> "broken", type |-> Noise, payload |-> <<>>]
      /\ sync' = (sync /\ ~Contains(part', START))
  BY DEF RejectHead, ReadingHead, Reading, Raise, Over
<1>2. PICK n \in 0 .. Len(chan) :
         /\ chan' = From(chan, n + 1)
         /\ n = 0 => (Contains(part', START) => Contains(part, START))
         /\ n # 0 => (Contains(part', START) => Channel!Holds(chan[n]))
  BY <1>1, ReadAcross DEF TypeOK
<1>3. CASE cur = <<>>
  <2>1. ~sync /\ (sync' => sync)
    BY <1>1, <1>3 DEF FrameInv
  <2>. QED
    BY <1>1, <1>2, <1>3, <2>1, AstrayMaps
<1>4. CASE cur # <<>>
  <2>1. /\ cur = <<cur[1]>> /\ cur[1] \in Frames /\ cur[1].type # Noise
        /\ Contains(part, START) => Channel!Holds(cur[1])
    BY <1>1, <1>4, InsideHolds
  <2>2. CASE cur[1].type \in Accepts[wait]
    <3>1. PICK f \in Frames : f = cur[1] /\ f.type \in Accepts[wait] /\ part = Tail(Cells(f))
      BY <1>1, <1>4, <2>1, <2>2 DEF FrameInv
    <3>2. PICK m \in Nat \ {0} : m = Needed[wait] /\ m <= Len(part)
      <4>1. wait \in DOMAIN Accepts
        BY DEF TypeOK
      <4>2. Needed[wait] \in Nat \ {0}
        BY <4>1, Waits
      <4>. QED
        BY <3>1, <4>1, <4>2, AcceptedTail
    <3>3. /\ Stream \in Seq(Nat) /\ Len(part) <= Len(Stream) /\ Len(Stream) \in Nat
          /\ Len(part) \in Nat /\ \A i \in 1 .. Len(part) : Stream[i] = part[i]
      BY StreamType DEF TypeOK
    <3>4. k < m
      <4>. SUFFICES ASSUME ~ (k < m)
                    PROVE  FALSE
        OBVIOUS
      <4>1. Min({k, m}) = m
        BY DEF Min
      <4>2. m \in 0 .. m /\ m <= Len(Stream)
        BY <3>2, <3>3
      <4>3. /\ Len(Returned(m, m)) = m
            /\ \A i \in 1 .. m : Returned(m, m)[i] = Stream[i]
        BY <3>3, <4>2, Returns
      <4>4. 1 \in 1 .. m /\ 1 \in 1 .. Len(part)
        BY <3>2, <3>3
      <4>5. part[1] = f.type
        BY <2>1, <3>1, BehindStart
      <4>6. Got(m) = Returned(m, m)
        BY <3>2 DEF Got
      <4>7. Len(Got(m)) = m /\ Got(m)[1] = f.type
        BY <3>3, <4>3, <4>4, <4>5, <4>6
      <4>8. Accepted(m)
        BY <3>1, <3>2, <4>7 DEF Accepted
      <4>. QED
        BY <1>1, <3>2, <4>1, <4>8
    <3>5. stalled'
      BY <1>1, <3>2, <3>4, Zenon
    <3>6. k \in 0 .. Len(part)
      BY <3>2, <3>3, <3>4
    <3>7. chan' = chan /\ (Contains(part', START) => Contains(part, START))
      BY <1>1, <3>6, ReadOn DEF TypeOK
    <3>. QED
      BY <1>1, <1>4, <2>1, <2>2, <3>5, <3>7, SpoilMaps
  <2>3. CASE cur[1].type \notin Accepts[wait]
    <3>1. stalled => stalled'
      BY <1>1, Zenon
    <3>. QED
      BY <1>1, <1>2, <1>4, <2>1, <2>3, <3>1, RejectMaps
  <2>. QED
    BY <2>2, <2>3
<1>. QED
  BY <1>3, <1>4

\* An ACK or a ping response: all of it, or it stalled.
LEMMA SignalMaps ==
    ASSUME TypeOK, TypeOK', FrameInv, NEW k \in Nat, k <= Len(Stream), ReadSignal(k)
    PROVE  Channel!Receive \/ Channel!Spoil \/ Channel!Astray
<1>1. /\ wait \in {"ping", "ack"} /\ k <= Needed[wait] /\ Accepted(k)
      /\ pc = "head" /\ pc' = "idle" /\ Take(k) /\ cur' = cur
      /\ stalled' = (stalled \/ k < Needed[wait])
      /\ last' = [end |-> "ok", type |-> Got(k)[1], payload |-> <<>>]
      /\ sync' = (sync /\ ~Contains(part', START))
  BY DEF ReadSignal, ReadingHead, Reading, Over
<1>2. CASE cur = <<>>
  <2>1. PICK n \in 0 .. Len(chan) : chan' = From(chan, n + 1)
    BY <1>1, ReadAcross DEF TypeOK
  <2>2. ~sync /\ (sync' => sync)
    BY <1>1, <1>2 DEF FrameInv
  <2>. QED
    BY <1>1, <1>2, <2>1, <2>2, AstrayMaps
<1>3. CASE cur # <<>>
  <2>1. /\ cur[1] \in Frames /\ cur[1].type \in Accepts[wait] /\ cur = <<cur[1]>>
        /\ part = Tail(Cells(cur[1])) /\ ~stalled
        /\ k \in 1 .. Len(part) /\ Got(k)[1] = cur[1].type /\ Needed[wait] \in Nat
    BY <1>1, <1>3, HeadRead
  <2>2. cur[1].payload = <<>> /\ Len(part) = Needed[wait]
    BY <1>1, <2>1, AcceptedTail DEF TypeOK
  <2>3. Contains(part, START) => Channel!Holds(cur[1])
    BY <1>1, <1>3, InsideHolds
  <2>4. /\ chan' = chan /\ Len(part') = Len(part) - k
        /\ Contains(part', START) => Contains(part, START)
    <3>1. k \in 0 .. Len(part)
      BY <2>1
    <3>. QED
      BY <1>1, <3>1, ReadOn DEF TypeOK
  <2>5. last' = [end |-> "ok", type |-> cur[1].type, payload |-> cur[1].payload]
    BY <1>1, <2>1, <2>2
  <2>6. CASE k = Needed[wait]
    <3>1. ~ (k < Needed[wait]) /\ Len(part') = 0
      BY <2>1, <2>2, <2>4, <2>6
    <3>2. ~stalled' /\ ~Contains(part', START)
      <4>1. ~stalled'
        BY <1>1, <2>1, <3>1, Zenon
      <4>. QED
        BY <3>1, <4>1 DEF Contains
    <3>3. sync' = sync
      BY <1>1, <3>2, Zenon DEF TypeOK
    <3>. QED
      BY <1>1, <1>3, <2>1, <2>4, <2>5, <3>2, <3>3, ReceiveMaps
  <2>7. CASE k # Needed[wait]
    <3>1. stalled'
      <4>1. k < Needed[wait]
        BY <1>1, <2>1, <2>7
      <4>. QED
        BY <1>1, <4>1, Zenon
    <3>2. last'.end = "ok" /\ last'.type = cur[1].type /\ last'.payload = <<>>
      BY <2>2, <2>5
    <3>3. Channel!Remnant(<<>>, <<>>)
      BY DEF Channel!Remnant
    <3>4. Channel!Remnant(last'.payload, cur[1].payload)
      BY <2>2, <3>2, <3>3
    <3>. QED
      BY <1>1, <1>3, <2>1, <2>3, <2>4, <3>1, <3>2, <3>4, SpoilMaps
  <2>. QED
    BY <2>6, <2>7
<1>. QED
  BY <1>2, <1>3

\* The head of a packet takes nothing from the line yet.
LEMMA HeadMaps ==
    ASSUME TypeOK, TypeOK', FrameInv, NEW k \in Nat, k <= Len(Stream), ReadHead(k)
    PROVE  Channel!Stall \/ Channel!Astray \/ UNCHANGED Channel!vars
<1>1. /\ pc = "head" /\ pc' = "payload" /\ Take(k)
      /\ cur' = cur /\ bus' = bus /\ wait' = wait /\ last' = last /\ sync' = sync
  BY DEF ReadHead, ReadingHead, Reading
<1>2. CASE cur = <<>>
  <2>1. PICK n \in 0 .. Len(chan) : chan' = From(chan, n + 1)
    BY <1>1, ReadAcross DEF TypeOK
  <2>2. ~sync /\ (sync' => sync)
    BY <1>1, <1>2 DEF FrameInv
  <2>. QED
    BY <1>1, <1>2, <2>1, <2>2, AstrayMaps
<1>3. CASE cur # <<>>
  <2>1. chan' = chan
    BY <1>3, HeadStep
  <2>2. Line' = Line /\ Waiting' = Waiting
    BY <1>1, <2>1 DEF Line, Waiting
  <2>3. Waiting # "none"
    BY <1>1, LineNow
  <2>4. ~stalled
    BY <1>1 DEF FrameInv
  <2>5. CASE stalled'
    <3>1. stalled' = TRUE
      BY <2>5 DEF TypeOK
    <3>. QED
      BY <1>1, <2>2, <2>3, <3>1 DEF Channel!Stall
  <2>6. CASE ~stalled'
    <3>1. stalled' = stalled
      BY <2>4, <2>6 DEF TypeOK
    <3>. QED
      BY <1>1, <2>2, <3>1 DEF Channel!vars
  <2>. QED
    BY <2>5, <2>6
<1>. QED
  BY <1>2, <1>3

\* The payload: all of it, or what is left of it after a stall.
LEMMA PayloadMaps ==
    ASSUME TypeOK, TypeOK', FrameInv, NEW k \in Nat, k <= Len(Stream), ReadPayload(k)
    PROVE  Channel!Receive \/ Channel!Spoil \/ Channel!Astray
<1>1. /\ k <= head.len /\ pc = "payload" /\ pc' = "idle" /\ Take(k) /\ cur' = cur
      /\ stalled' = (stalled \/ k < head.len)
      /\ last' = [end |-> "ok", type |-> head.type, payload |-> Returned(k, head.len)]
      /\ sync' = (sync /\ ~Contains(part', START))
  BY DEF ReadPayload, Reading, Over
<1>2. CASE cur = <<>>
  <2>1. PICK n \in 0 .. Len(chan) : chan' = From(chan, n + 1)
    BY <1>1, ReadAcross DEF TypeOK
  <2>2. ~sync /\ (sync' => sync)
    BY <1>1, <1>2 DEF FrameInv
  <2>. QED
    BY <1>1, <1>2, <2>1, <2>2, AstrayMaps
<1>3. CASE cur # <<>>
  <2>1. /\ cur[1] \in Frames /\ cur = <<cur[1]>> /\ Inside(cur[1])
        /\ k \in 0 .. Len(part)
        /\ Len(Returned(k, head.len)) <= Len(cur[1].payload)
        /\ ~stalled /\ k = head.len => Returned(k, head.len) = cur[1].payload
                                       /\ k = Len(part)
        /\ bus = "uart" => Returned(k, head.len)
                             = SubSeq(cur[1].payload, 1, Len(Returned(k, head.len)))
    BY <1>1, <1>3, PayloadRead
  <2>2. cur[1].type \in Accepts[wait] /\ head.type = cur[1].type
    BY <2>1 DEF Inside
  <2>3. Contains(part, START) => Channel!Holds(cur[1])
    BY <1>1, <1>3, InsideHolds
  <2>4. /\ chan' = chan /\ Len(part') = Len(part) - k
        /\ Contains(part', START) => Contains(part, START)
    BY <1>1, <2>1, ReadOn DEF TypeOK
  <2>5. CASE ~stalled'
    <3>1. ~stalled /\ k = head.len
      <4>1. ~stalled /\ ~ (k < head.len)
        BY <1>1, <2>5, Zenon
      <4>. QED
        BY <1>1, <4>1 DEF TypeOK
    <3>2. last' = [end |-> "ok", type |-> cur[1].type, payload |-> cur[1].payload]
      BY <1>1, <2>1, <2>2, <3>1
    <3>3. ~Contains(part', START)
      <4>1. Len(part') = 0
        BY <2>1, <2>4, <3>1
      <4>. QED
        BY <4>1 DEF Contains
    <3>4. sync' = sync
      BY <1>1, <3>3, Zenon DEF TypeOK
    <3>. QED
      BY <1>1, <1>3, <2>1, <2>2, <2>4, <2>5, <3>1, <3>2, <3>4, ReceiveMaps
  <2>6. CASE stalled'
    <3>1. last'.end = "ok" /\ last'.type = cur[1].type /\ last'.payload = Returned(k, head.len)
      BY <1>1, <2>2
    <3>2. Channel!Remnant(last'.payload, cur[1].payload)
      BY <2>1, <3>1 DEF Channel!Remnant
    <3>. QED
      BY <1>1, <1>3, <2>1, <2>2, <2>3, <2>4, <2>6, <3>1, <3>2, SpoilMaps
  <2>. QED
    BY <2>5, <2>6
<1>. QED
  BY <1>2, <1>3

\* A frame the device sends is the last on the line.
LEMMA SendMaps ==
    ASSUME TypeOK, FrameInv, NEW f \in Frames, DevSend(f)
    PROVE  Channel!Send(f)
<1>1. /\ chan' = Append(chan, f)
      /\ pc' = pc /\ wait' = wait /\ cur' = cur /\ last' = last /\ stalled' = stalled
      /\ sync' = sync
  BY DEF DevSend, hostVars
<1>2. Line' = Append(Line, f)
  <2>1. CASE pc \in {"head", "payload"}
    <3>1. PICK c \in Seq(Frames), s \in Seq(Frames) : c = cur /\ s = chan
      BY DEF TypeOK
    <3>2. c \o Append(s, f) = Append(c \o s, f)
      <4>0. <<f>> \in Seq(Frames)
        OBVIOUS
      <4>1. PICK z \in Seq(Frames) : z = <<f>>
        BY <4>0, Zenon
      <4>2. Append(s, f) = s \o z /\ c \o s \in Seq(Frames)
        BY <4>1, AppendIsConcat, ConcatProperties
      <4>3. Append(c \o s, f) = (c \o s) \o z
        BY <4>1, <4>2, AppendIsConcat
      <4>4. (c \o s) \o z = c \o (s \o z)
        BY ConcatAssociative
      <4>. QED
        BY <4>2, <4>3, <4>4
    <3>. QED
      BY <1>1, <2>1, <3>1, <3>2 DEF Line
  <2>2. CASE pc \notin {"head", "payload"}
    BY <1>1, <2>2 DEF Line
  <2>. QED
    BY <2>1, <2>2
<1>3. Waiting' = Waiting
  BY <1>1 DEF Waiting
<1>. QED
  BY <1>1, <1>2, <1>3 DEF Channel!Send

\* The byte stream is a queue of frames, which is what SerialLink takes it for: with
\* noise between them, stalls inside them, waits that expire or ask for the wrong
\* type, the next frame is found again (uart.py:85-111, 149-164).
THEOREM BytesAreFrames == Spec => ImplementsChannel
<1>1. Init => Channel!Init
  <2>. SUFFICES ASSUME Init
                PROVE  Channel!Init
    OBVIOUS
  <2>1. Line = <<>> /\ Waiting = "none" /\ last = Channel!Pending /\ (bus # "uart") \in BOOLEAN
    BY DEF Init, Line, Waiting, Pending, Channel!Pending
  <2>. QED
    BY <2>1 DEF Init, Channel!Init
<1>2. ASSUME TypeOK, TypeOK', FrameInv, [Next]_vars
      PROVE  [Channel!Next]_Channel!vars
  <2>1. bus' = bus
    BY <1>2 DEF Next, HostStep, Read, Ask, FindStart, SkipByte, TimedOut, Nack, RejectHead,
                ReadSignal, ReadHead, ReadPayload, DevSend, hostVars, vars
  <2>2. Channel!Step => [Channel!Next]_Channel!vars
    BY <2>1 DEF Channel!Next
  <2>3. ASSUME NEW w \in DOMAIN Accepts, Ask(w)
        PROVE  Channel!Step
    <3>1. /\ pc = "idle" /\ pc' = "start" /\ wait' = w /\ last' = Pending /\ stalled' = FALSE
          /\ chan' = chan /\ sync' = sync
      BY <2>3 DEF Ask
    <3>2. Line' = Line /\ Waiting = "none" /\ Waiting' = w
      BY <3>1 DEF Line, Waiting
    <3>3. Channel!Ask(w)
      BY <3>1, <3>2 DEF Channel!Ask, Pending, Channel!Pending
    <3>. QED
      BY <3>3 DEF Channel!Step
  <2>4. CASE FindStart \/ SkipByte
    BY <1>2, <2>2, <2>4, SearchMaps DEF Channel!Step
  <2>5. CASE TimedOut
    BY <1>2, <2>2, <2>5, TimeoutMaps DEF Channel!Step
  <2>6. CASE Nack
    BY <1>2, <2>2, <2>6, NackMaps DEF Channel!Step
  <2>7. ASSUME NEW k \in 0 .. Len(Stream),
               RejectHead(k) \/ ReadSignal(k) \/ ReadHead(k) \/ ReadPayload(k)
        PROVE  [Channel!Next]_Channel!vars
    <3>1. k \in Nat /\ k <= Len(Stream)
      BY <1>2, StreamType DEF TypeOK
    <3>2. \/ Channel!Spoil \/ Channel!Reject \/ Channel!Receive \/ Channel!Stall
          \/ Channel!Astray \/ UNCHANGED Channel!vars
      BY <1>2, <2>7, <3>1, RefusedMaps, SignalMaps, HeadMaps, PayloadMaps
    <3>. QED
      BY <2>2, <3>2 DEF Channel!Step
  <2>8. ASSUME NEW f \in Frames, DevSend(f)
        PROVE  Channel!Step
    BY <1>2, <2>8, SendMaps DEF Channel!Step
  <2>9. CASE UNCHANGED vars
    <3>1. UNCHANGED Channel!vars
      BY <2>9 DEF vars, hostVars, Line, Waiting, Channel!vars
    <3>. QED
      BY <3>1
  <2>. QED
    BY <1>2, <2>2, <2>3, <2>4, <2>5, <2>6, <2>7, <2>8, <2>9 DEF Next, HostStep, Read
<1>. QED
  BY <1>1, <1>2, TypeCorrect, FrameFollowed, PTL DEF Spec, ImplementsChannel, Channel!Spec

=============================================================================
