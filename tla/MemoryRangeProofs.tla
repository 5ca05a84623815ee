-------------------------- MODULE MemoryRangeProofs --------------------------
(***************************************************************************)
(* The address arithmetic of memorytool.py is set arithmetic on addresses, *)
(* for blocks anywhere and of any length, also cut after cut; align_up     *)
(* covers what it rounds, for any sector size.                             *)
(*                                                                         *)
(* What AndNot and SubAll compute by recursion is shown for every input    *)
(* by the least counterexample: of the inputs where a claim fails, a set   *)
(* of naturals, the least one is a step away from one where it holds.      *)
(***************************************************************************)
EXTENDS RangeCuts, SequenceTheorems, WellFoundedInduction, TLAPS

\* A block built from its two ends is one.
LEMMA BlockType ==
    ASSUME NEW s \in Nat, NEW e \in Nat, s <= e
    PROVE  Block(s, e) \in Blocks
BY DEF Block, Blocks

\* __contains__ is set inclusion, for a block that is not empty.
THEOREM ContainsIsSubset ==
    ASSUME NEW a \in Blocks, NEW b \in Blocks, b.start < b.end
    PROVE  Contains(a, b) <=> Points(b) \subseteq Points(a)
<1>1. Contains(a, b) => Points(b) \subseteq Points(a)
  BY DEF Contains, Points, Blocks
<1>2. ASSUME Points(b) \subseteq Points(a)
      PROVE  Contains(a, b)
  <2>1. b.start \in Points(b) /\ b.end - 1 \in Points(b)
    BY DEF Points, Blocks
  <2>2. b.start \in Points(a) /\ b.end - 1 \in Points(a)
    BY <1>2, <2>1
  <2>. QED
    BY <2>2 DEF Contains, Points, Blocks
<1>. QED
  BY <1>1, <1>2

\* One piece that is the whole difference is a correct answer.
LEMMA OnePiece ==
    ASSUME NEW a, NEW b, NEW x \in Blocks,
           Points(x) = Points(a) \ Points(b), Contains(a, x)
    PROVE  Leaves(<<x>>, a, b)
<1>1. DOMAIN <<x>> = {1} /\ <<x>>[1] = x
  OBVIOUS
<1>2. PointsOf(<<x>>) = Points(x)
  BY <1>1 DEF PointsOf
<1>. QED
  BY <1>1, <1>2 DEF Leaves

\* Two pieces that do not overlap and together are the difference, as well.
LEMMA TwoPieces ==
    ASSUME NEW a, NEW b, NEW x \in Blocks, NEW y \in Blocks,
           Points(x) \cup Points(y) = Points(a) \ Points(b),
           Points(x) \cap Points(y) = {}, Contains(a, x), Contains(a, y)
    PROVE  Leaves(<<x, y>>, a, b)
<1>1. DOMAIN <<x, y>> = {1, 2} /\ <<x, y>>[1] = x /\ <<x, y>>[2] = y
  OBVIOUS
<1>2. PointsOf(<<x, y>>) = Points(x) \cup Points(y)
  BY <1>1 DEF PointsOf
<1>. QED
  BY <1>1, <1>2 DEF Leaves

\* __sub__ is set difference: what it returns covers the addresses of a that
\* are not in b and no others, in pieces inside a that do not overlap.
THEOREM SubIsDifference ==
    ASSUME NEW a \in Blocks, NEW b \in Blocks
    PROVE  Leaves(Sub(a, b), a, b)
<1>0. /\ a.start \in Nat /\ a.end \in Nat /\ a.start <= a.end
      /\ b.start \in Nat /\ b.end \in Nat /\ b.start <= b.end
  BY DEF Blocks
<1> DEFINE low == Block(a.start, b.start)
           high == Block(b.end, a.end)
<1>1. CASE a.start > b.end \/ a.end < b.start
  <2>1. Sub(a, b) = <<a>>
    BY <1>1 DEF Sub
  <2>2. Points(a) = Points(a) \ Points(b) /\ Contains(a, a)
    BY <1>0, <1>1 DEF Points, Contains
  <2>. QED
    BY <2>1, <2>2, OnePiece
<1>2. CASE a.start < b.start /\ b.start <= a.end /\ a.end <= b.end
  <2>1. Sub(a, b) = <<low>>
    BY <1>0, <1>2 DEF Sub
  <2>2. low \in Blocks
    BY <1>0, <1>2, BlockType
  <2>3. Points(low) = Points(a) \ Points(b) /\ Contains(a, low)
    BY <1>0, <1>2 DEF Points, Contains, Block
  <2> HIDE DEF low
  <2>. QED
    BY <2>1, <2>2, <2>3, OnePiece
<1>3. CASE a.start < b.start /\ b.start <= a.end /\ b.end < a.end
  <2>1. Sub(a, b) = <<low, high>>
    BY <1>0, <1>3 DEF Sub
  <2>2. low \in Blocks /\ high \in Blocks
    BY <1>0, <1>3, BlockType
  <2>3. Points(low) \cup Points(high) = Points(a) \ Points(b)
    BY <1>0, <1>3 DEF Points, Block
  <2>4. Points(low) \cap Points(high) = {} /\ Contains(a, low) /\ Contains(a, high)
    BY <1>0, <1>3 DEF Points, Block, Contains
  <2> HIDE DEF low, high
  <2>. QED
    BY <2>1, <2>2, <2>3, <2>4, TwoPieces
<1>4. CASE b.start <= a.start /\ a.start <= b.end /\ b.end < a.end
  <2>1. Sub(a, b) = <<high>>
    BY <1>0, <1>4 DEF Sub
  <2>2. high \in Blocks
    BY <1>0, <1>4, BlockType
  <2>3. Points(high) = Points(a) \ Points(b) /\ Contains(a, high)
    BY <1>0, <1>4 DEF Points, Contains, Block
  <2> HIDE DEF high
  <2>. QED
    BY <2>1, <2>2, <2>3, OnePiece
<1>5. CASE b.start <= a.start /\ a.start <= b.end /\ a.end <= b.end
            /\ ~(a.end < b.start)
  <2>1. Sub(a, b) = <<>>
    BY <1>0, <1>5 DEF Sub
  <2>2. Points(a) \ Points(b) = {}
    BY <1>0, <1>5 DEF Points
  <2>. QED
    BY <2>1, <2>2 DEF Leaves, PointsOf
<1>6. \/ a.start > b.end \/ a.end < b.start
      \/ a.start < b.start /\ b.start <= a.end /\ a.end <= b.end
      \/ a.start < b.start /\ b.start <= a.end /\ b.end < a.end
      \/ b.start <= a.start /\ a.start <= b.end /\ b.end < a.end
      \/ b.start <= a.start /\ a.start <= b.end /\ a.end <= b.end /\ ~(a.end < b.start)
  BY <1>0
<1>. QED
  BY <1>1, <1>2, <1>3, <1>4, <1>5, <1>6

-----------------------------------------------------------------------------
(* Rounding up.                                                            *)

\* A set of naturals has a least one.
LEMMA Least ==
    ASSUME NEW T \in SUBSET Nat, T # {}
    PROVE  \E m \in T : \A k \in T : m <= k
<1>. DEFINE R == OpToRel(<, Nat)
<1>1. IsWellFoundedOn(R, Nat)
  BY NatLessThanWellFounded
<1>2. \A k, m \in Nat : k < m => <<k, m>> \in R
  BY DEF OpToRel
<1>. HIDE DEF R
<1>3. \E m \in T : \A k \in T : ~ (<<k, m>> \in R)
  BY <1>1, WFMin
<1>4. PICK m \in T : \A k \in T : ~ (<<k, m>> \in R)
  BY <1>3, Zenon
<1>5. \A k \in T : ~ (k < m)
  <2>. TAKE k \in T
  <2>1. k \in Nat /\ m \in Nat
    OBVIOUS
  <2>. QED
    BY <1>2, <1>4, <2>1, Zenon
<1>. QED
  BY <1>5

\* One row of AndNot's table, from a row above it.
Row(f, y) ==
    [n \in Nat |->
        IF y = 0 THEN 0
        ELSE 2 * f[y \div 2][n \div 2] + (IF y % 2 > n % 2 THEN 1 ELSE 0)]

Numbers == [Nat -> Nat]

\* A row of numbers makes a row of numbers.
LEMMA RowType ==
    ASSUME NEW y \in Nat, NEW f, y # 0 => f[y \div 2] \in Numbers
    PROVE  Row(f, y) \in Numbers
<1>1. ASSUME NEW n \in Nat, y # 0
      PROVE  2 * f[y \div 2][n \div 2] + (IF y % 2 > n % 2 THEN 1 ELSE 0) \in Nat
  <2>1. n \div 2 \in Nat
    OBVIOUS
  <2>2. f[y \div 2][n \div 2] \in Nat
    BY <1>1, <2>1 DEF Numbers
  <2>. QED
    BY <2>2
<1>. QED
  BY <1>1 DEF Row, Numbers

\* The table up to row m.
Table(h, m) == h \in [0 .. m -> Numbers] /\ \A y \in 0 .. m : h[y] = Row(h, y)

\* Half of a number that is not 0 is less.
LEMMA Half ==
    ASSUME NEW y \in Nat
    PROVE  /\ y \div 2 \in Nat /\ y % 2 \in 0 .. 1 /\ y = 2 * (y \div 2) + (y % 2)
           /\ y # 0 => y \div 2 \in 0 .. y - 1
OBVIOUS

\* There is a table up to any row,
LEMMA TableExists == \A m \in Nat : \E h : Table(h, m)
<1>. DEFINE Bad == {m \in Nat : ~ \E h : Table(h, m)}
<1>. SUFFICES ASSUME Bad # {}
              PROVE  FALSE
  OBVIOUS
<1>1. Bad \in SUBSET Nat
  OBVIOUS
<1>2. PICK m \in Bad : \A k \in Bad : m <= k
  <2>. HIDE DEF Bad
  <2>. QED
    BY <1>1, Least
<1>3. m \in Nat /\ ~ \E h : Table(h, m)
  OBVIOUS
<1>4. m # 0 => \E h : Table(h, m - 1)
  <2>1. m # 0 => m - 1 \in Nat /\ m - 1 \notin Bad
    BY <1>2, <1>3
  <2>. QED
    BY <2>1
<1>5. PICK h : m # 0 => Table(h, m - 1)
  BY <1>4
<1>6. m # 0 => h[m \div 2] \in Numbers
  <2>1. m # 0 => m \div 2 \in 0 .. m - 1
    BY <1>3, Half
  <2>. QED
    BY <1>5, <2>1 DEF Table
<1>7. PICK row \in Numbers : row = Row(h, m)
  BY <1>3, <1>6, RowType
<1>. DEFINE more == [y \in 0 .. m |-> IF y = m THEN row ELSE h[y]]
<1>8. more \in [0 .. m -> Numbers]
  <2>1. \A y \in 0 .. m : y # m => m # 0 /\ y \in 0 .. m - 1
    BY <1>3
  <2>. QED
    BY <1>5, <2>1 DEF Table
<1>9. ASSUME NEW y \in 0 .. m
      PROVE  more[y] = Row(more, y)
  <2>1. y # 0 => more[y \div 2] = h[y \div 2]
    <3>1. y # 0 => y \div 2 \in 0 .. m /\ y \div 2 # m
      BY <1>3, Half
    <3>. QED
      BY <3>1
  <2>2. Row(more, y) = Row(h, y)
    <3>. HIDE DEF more
    <3>. QED
      BY <2>1, Zenon DEF Row
  <2>3. y # m => h[y] = Row(h, y)
    <3>1. y # m => m # 0 /\ y \in 0 .. m - 1
      BY <1>3
    <3>. QED
      BY <1>5, <3>1 DEF Table
  <2>. QED
    BY <1>7, <2>2, <2>3
<1>10. Table(more, m)
  <2>. HIDE DEF more
  <2>. QED
    BY <1>8, <1>9 DEF Table
<1>. QED
  BY <1>3, <1>10

\* and two tables agree.
LEMMA TableUnique ==
    ASSUME NEW m \in Nat, NEW k \in Nat, NEW h, NEW g, Table(h, m), Table(g, k)
    PROVE  \A y \in Nat : y <= m /\ y <= k => h[y] = g[y]
<1>. DEFINE Bad == {y \in Nat : y <= m /\ y <= k /\ h[y] # g[y]}
<1>. SUFFICES ASSUME Bad # {}
              PROVE  FALSE
  OBVIOUS
<1>1. Bad \in SUBSET Nat
  OBVIOUS
<1>2. PICK y \in Bad : \A z \in Bad : y <= z
  <2>. HIDE DEF Bad
  <2>. QED
    BY <1>1, Least
<1>3. y \in Nat /\ y <= m /\ y <= k /\ h[y] # g[y]
  OBVIOUS
<1>4. y # 0 => y \div 2 \notin Bad /\ y \div 2 \in 0 .. y - 1
  <2>1. y # 0 => y \div 2 \in 0 .. y - 1
    BY <1>3, Half
  <2>2. y # 0 => ~ (y <= y \div 2)
    BY <1>3, <2>1
  <2>. QED
    BY <1>2, <2>1, <2>2
<1>5. y # 0 => h[y \div 2] = g[y \div 2]
  BY <1>3, <1>4
<1>6. h[y] = Row(h, y) /\ g[y] = Row(g, y)
  BY <1>3 DEF Table
<1>7. Row(h, y) = Row(g, y)
  BY <1>5, Zenon DEF Row
<1>. QED
  BY <1>3, <1>6, <1>7

\* What AndNot computes.
LEMMA AndNotDef ==
    ASSUME NEW x \in Nat, NEW m \in Nat
    PROVE  /\ AndNot(x, m) \in Nat
           /\ AndNot(x, m) =
                IF x = 0 THEN 0
                ELSE 2 * AndNot(x \div 2, m \div 2) + (IF x % 2 > m % 2 THEN 1 ELSE 0)
<1>. DEFINE turn(f) == [y \in Nat |-> Row(f, y)]
            clear   == CHOOSE f : f = turn(f)
            some(y) == CHOOSE h : Table(h, y)
            all     == [y \in Nat |-> some(y)[y]]
<1>1. \A y \in Nat : Table(some(y), y)
  BY TableExists
<1>. HIDE DEF some
<1>2. \A y \in Nat : all[y] \in Numbers
  BY <1>1 DEF Table
<1>3. ASSUME NEW y \in Nat
      PROVE  all[y] = Row(all, y)
  <2>1. all[y] = Row(some(y), y)
    BY <1>1 DEF Table
  <2>2. y # 0 => some(y)[y \div 2] = all[y \div 2]
    <3>1. y # 0 => y \div 2 \in Nat /\ y \div 2 <= y /\ y \div 2 <= y \div 2
      BY Half
    <3>2. y # 0 => Table(some(y), y) /\ Table(some(y \div 2), y \div 2)
      BY <1>1, <3>1
    <3>3. y # 0 => some(y)[y \div 2] = some(y \div 2)[y \div 2]
      BY <3>1, <3>2, TableUnique
    <3>. QED
      BY <3>1, <3>3
  <2>3. Row(some(y), y) = Row(all, y)
    <3>. HIDE DEF all
    <3>. QED
      BY <2>2, Zenon DEF Row
  <2>. QED
    BY <2>1, <2>3
<1>4. all = turn(all)
  <2>1. DOMAIN all = Nat
    OBVIOUS
  <2>. QED
    BY <1>3
<1>5. clear = turn(clear)
  <2>. HIDE DEF all
  <2>. QED
    BY <1>4, Zenon
<1>6. \A a, b : AndNot(a, b) = clear[a][b]
  BY Zenon DEF AndNot, Row
<1>. HIDE DEF clear, all
<1>7. \A y \in Nat : clear[y] = Row(clear, y)
  BY <1>5
<1>8. \A y \in Nat : clear[y] \in Numbers
  <2>. DEFINE Bad == {y \in Nat : clear[y] \notin Numbers}
  <2>. SUFFICES ASSUME Bad # {}
                PROVE  FALSE
    OBVIOUS
  <2>1. Bad \in SUBSET Nat
    OBVIOUS
  <2>2. PICK y \in Bad : \A z \in Bad : y <= z
    <3>. HIDE DEF Bad
    <3>. QED
      BY <2>1, Least
  <2>3. y \in Nat /\ clear[y] \notin Numbers
    OBVIOUS
  <2>4. y # 0 => y \div 2 \in Nat /\ ~ (y <= y \div 2)
    BY <2>3, Half
  <2>5. y # 0 => clear[y \div 2] \in Numbers
    BY <2>2, <2>4
  <2>6. Row(clear, y) \in Numbers
    BY <2>3, <2>5, RowType
  <2>. QED
    BY <1>7, <2>3, <2>6
<1>9. x \div 2 \in Nat /\ m \div 2 \in Nat
  BY Half
<1>10. clear[x][m] \in Nat
  BY <1>8 DEF Numbers
<1>11. clear[x][m] = IF x = 0 THEN 0
                    ELSE 2 * clear[x \div 2][m \div 2] + (IF x % 2 > m % 2 THEN 1 ELSE 0)
  <2>1. clear[x] = Row(clear, x)
    BY <1>7
  <2>. QED
    BY <2>1 DEF Row
<1>. QED
  BY <1>6, <1>10, <1>11

\* A number is its half and its lowest bit,
LEMMA Halves ==
    ASSUME NEW y \in Nat
    PROVE  \E q \in Nat, r \in 0 .. 1 : y = 2 * q + r /\ (y # 0 => q < y)
<1>1. PICK q \in Nat : q = y \div 2
  BY Half
<1>2. PICK r \in 0 .. 1 : r = y % 2
  BY Half
<1>3. y = 2 * q + r
  BY <1>1, <1>2, Half
<1>. QED
  BY <1>3

\* and AndNot goes from the half to the whole.
LEMMA AndNotStep ==
    ASSUME NEW q \in Nat, NEW r \in 0 .. 1, NEW t \in Nat, NEW s \in 0 .. 1
    PROVE  AndNot(2 * q + r, 2 * t + s) = 2 * AndNot(q, t) + (IF r > s THEN 1 ELSE 0)
<1>1. PICK x \in Nat, m \in Nat : x = 2 * q + r /\ m = 2 * t + s
  OBVIOUS
<1>2. x \div 2 = q /\ x % 2 = r /\ m \div 2 = t /\ m % 2 = s
  BY <1>1
<1>3. AndNot(x, m) = IF x = 0 THEN 0
                     ELSE 2 * AndNot(q, t) + (IF r > s THEN 1 ELSE 0)
  BY <1>2, AndNotDef
<1>4. x = 0 => AndNot(q, t) = 0 /\ ~ (r > s)
  <2>1. x = 0 => q = 0 /\ r = 0
    BY <1>1
  <2>2. q = 0 => AndNot(q, t) = 0
    BY AndNotDef
  <2>. QED
    BY <2>1, <2>2
<1>. QED
  BY <1>1, <1>3, <1>4

\* Bits are only taken away, and no more of them than m has.
LEMMA AndNotBounds ==
    \A x, m \in Nat : AndNot(x, m) <= x /\ x - m <= AndNot(x, m)
<1>. DEFINE Bad == {x \in Nat : \E m \in Nat : ~ (AndNot(x, m) <= x /\ x - m <= AndNot(x, m))}
<1>. SUFFICES ASSUME Bad # {}
              PROVE  FALSE
  OBVIOUS
<1>1. Bad \in SUBSET Nat
  OBVIOUS
<1>2. PICK x \in Bad : \A y \in Bad : x <= y
  <2>. HIDE DEF Bad
  <2>. QED
    BY <1>1, Least
<1>3. PICK m \in Nat : ~ (AndNot(x, m) <= x /\ x - m <= AndNot(x, m))
  OBVIOUS
<1>4. x \in Nat
  OBVIOUS
<1>5. AndNot(x, m) = 0 \/ x # 0
  BY <1>4, AndNotDef
<1>6. x # 0
  BY <1>3, <1>5
<1>7. PICK q \in Nat, r \in 0 .. 1 : x = 2 * q + r /\ q < x
  <2>. HIDE DEF Bad
  <2>. QED
    BY <1>4, <1>6, Halves
<1>8. PICK t \in Nat, s \in 0 .. 1 : m = 2 * t + s
  BY Halves
<1>9. q \notin Bad
  BY <1>2, <1>4, <1>7
<1>10. PICK v \in Nat : v = AndNot(q, t)
  BY AndNotDef
<1>11. v <= q /\ q - t <= v
  BY <1>9, <1>10
<1>12. AndNot(x, m) = 2 * v + (IF r > s THEN 1 ELSE 0)
  <2>. HIDE DEF Bad
  <2>1. AndNot(2 * q + r, 2 * t + s) = 2 * AndNot(q, t) + (IF r > s THEN 1 ELSE 0)
    BY AndNotStep
  <2>. QED
    BY <1>7, <1>8, <1>10, <2>1
<1>13. AndNot(x, m) <= x /\ x - m <= AndNot(x, m)
  <2>. HIDE DEF Bad
  <2>1. CASE r > s
    BY <1>7, <1>8, <1>11, <1>12, <2>1
  <2>2. CASE ~ (r > s)
    BY <1>7, <1>8, <1>11, <1>12, <2>2
  <2>. QED
    BY <2>1, <2>2
<1>. QED
  BY <1>3, <1>13

\* Nothing is left of a number without its own bits.
LEMMA AndNotSelf == \A x \in Nat : AndNot(x, x) = 0
<1>. DEFINE Bad == {x \in Nat : AndNot(x, x) # 0}
<1>. SUFFICES ASSUME Bad # {}
              PROVE  FALSE
  OBVIOUS
<1>1. Bad \in SUBSET Nat
  OBVIOUS
<1>2. PICK x \in Bad : \A y \in Bad : x <= y
  <2>. HIDE DEF Bad
  <2>. QED
    BY <1>1, Least
<1>3. x \in Nat /\ AndNot(x, x) # 0
  OBVIOUS
<1>4. AndNot(x, x) = IF x = 0 THEN 0
                     ELSE 2 * AndNot(x \div 2, x \div 2) + (IF x % 2 > x % 2 THEN 1 ELSE 0)
  BY <1>3, AndNotDef
<1>5. x # 0 /\ AndNot(x \div 2, x \div 2) # 0
  <2>1. x # 0 /\ AndNot(x, x) = 2 * AndNot(x \div 2, x \div 2) + 0
    BY <1>3, <1>4, Half
  <2>. QED
    BY <1>3, <2>1
<1>6. x \div 2 \in Bad /\ ~ (x <= x \div 2)
  BY <1>3, <1>5, Half
<1>. QED
  BY <1>2, <1>6

\* Without the bits below a power of two a number is a multiple of it.
LEMMA AndNotPower ==
    \A base \in Nat \ {0} : PowerOfTwo(base) =>
        \A x \in Nat : \E k \in Nat : AndNot(x, base - 1) = k * base
<1>. DEFINE Good(b) == \A x \in Nat : \E k \in Nat : AndNot(x, b - 1) = k * b
            Bad     == {b \in Nat : b # 0 /\ PowerOfTwo(b) /\ ~ Good(b)}
<1>. SUFFICES ASSUME Bad # {}
              PROVE  FALSE
  OBVIOUS
<1>1. Bad \in SUBSET Nat
  OBVIOUS
<1>2. PICK b \in Bad : \A c \in Bad : b <= c
  <2>. HIDE DEF Bad
  <2>. QED
    BY <1>1, Least
<1>3. b \in Nat /\ b # 0 /\ PowerOfTwo(b) /\ ~ Good(b)
  OBVIOUS
<1>4. PICK c \in Nat, r \in 0 .. 1 : b = 2 * c + r /\ c < b
  <2>. HIDE DEF Bad
  <2>. QED
    BY <1>3, Halves
<1>5. AndNot(b, b - 1) = b
  BY <1>3 DEF PowerOfTwo
<1>6. CASE r = 1
  <2>1. b - 1 = 2 * c + 0
    BY <1>3, <1>4, <1>6
  <2>2. AndNot(c, c) = 0
    BY AndNotSelf
  <2>3. AndNot(b, b - 1) = 2 * AndNot(c, c) + 1
    BY <1>4, <1>6, <2>1, AndNotStep
  <2>4. b = 1
    BY <1>5, <2>2, <2>3
  <2>5. ASSUME NEW x \in Nat
        PROVE  \E k \in Nat : AndNot(x, b - 1) = k * b
    <3>1. PICK k \in Nat : k = AndNot(x, 0)
      BY AndNotDef
    <3>2. b - 1 = 0 /\ k = k * b
      BY <2>4
    <3>. QED
      BY <3>1, <3>2
  <2>. QED
    BY <1>3, <2>5
<1>7. CASE r = 0
  <2>1. PICK d \in Nat : c = d + 1
    BY <1>3, <1>4, <1>7
  <2>2. b - 1 = 2 * d + 1 /\ c - 1 = d
    BY <1>4, <1>7, <2>1
  <2>3. PICK v \in Nat : v = AndNot(c, d)
    BY <2>1, AndNotDef
  <2>4. AndNot(b, b - 1) = 2 * v
    BY <1>4, <1>7, <2>2, <2>3, AndNotStep
  <2>5. AndNot(c, c - 1) = c
    BY <1>4, <1>5, <1>7, <2>2, <2>3, <2>4
  <2>6. c \notin Bad
    <3>1. ~ (b <= c)
      BY <1>3, <1>4
    <3>. QED
      BY <1>2, <3>1
  <2>7. Good(c)
    <3>1. c # 0 /\ PowerOfTwo(c)
      BY <2>1, <2>5 DEF PowerOfTwo
    <3>. QED
      BY <2>6, <3>1
  <2>8. ASSUME NEW x \in Nat
        PROVE  \E k \in Nat : AndNot(x, b - 1) = k * b
    <3>1. PICK q \in Nat, s \in 0 .. 1 : x = 2 * q + s
      <4>. HIDE DEF Bad, Good
      <4>. QED
        BY Halves
    <3>2. PICK k \in Nat : AndNot(q, c - 1) = k * c
      BY <2>7
    <3>. HIDE DEF Bad, Good
    <3>3. AndNot(x, b - 1) = 2 * (k * c)
      <4>1. AndNot(2 * q + s, 2 * d + 1) = 2 * AndNot(q, d) + (IF s > 1 THEN 1 ELSE 0)
        <5>1. PICK one \in 0 .. 1 : one = 1
          OBVIOUS
        <5>2. AndNot(2 * q + s, 2 * d + one) = 2 * AndNot(q, d) + (IF s > one THEN 1 ELSE 0)
          BY AndNotStep
        <5>. QED
          BY <5>1, <5>2
      <4>2. ~ (s > 1) /\ AndNot(q, d) = k * c
        BY <2>2, <3>2
      <4>. QED
        BY <2>2, <3>1, <4>1, <4>2
    <3>4. 2 * (k * c) = k * b
      BY <1>4, <1>7
    <3>. QED
      BY <3>3, <3>4
  <2>. QED
    BY <1>3, <2>8
<1>. QED
  BY <1>4, <1>6, <1>7

\* What align_up promises, for any length and any sector size but 0
\* (memorytool.py:82-84).
THEOREM AlignUpCovers ==
    ASSUME NEW number \in Nat, NEW base \in Nat \ {0}
    PROVE  /\ AlignUp(number, base) \in Nat
           /\ number <= AlignUp(number, base) /\ AlignUp(number, base) < number + base
           /\ PowerOfTwo(base) =>
                \E k \in 0 .. AlignUp(number, base) : AlignUp(number, base) = k * base
<1>1. PICK x \in Nat : x = number + base - 1
  OBVIOUS
<1>2. PICK m \in Nat : m = base - 1
  OBVIOUS
<1>3. AlignUp(number, base) = AndNot(x, m)
  BY <1>1, <1>2 DEF AlignUp
<1>4. PICK v \in Nat : v = AndNot(x, m)
  BY AndNotDef
<1>5. v <= x /\ x - m <= v
  BY <1>4, AndNotBounds
<1>6. number <= v /\ v < number + base
  BY <1>1, <1>2, <1>5
<1>7. ASSUME PowerOfTwo(base)
      PROVE  \E k \in 0 .. v : v = k * base
  <2>1. PICK k \in Nat : v = k * base
    BY <1>2, <1>4, <1>7, AndNotPower
  <2>2. k <= k * base
    OBVIOUS
  <2>. QED
    BY <2>1, <2>2
<1>. QED
  BY <1>3, <1>4, <1>6, <1>7

-----------------------------------------------------------------------------
(* Cutting again and again.                                                *)

\* list is blocks inside w that do not overlap and have the addresses of S.
Pieces(list, w, S) ==
    /\ list \in Seq(Blocks)
    /\ PointsOf(list) = S
    /\ \A i, j \in DOMAIN list : i # j => Points(list[i]) \cap Points(list[j]) = {}
    /\ \A i \in DOMAIN list : Contains(w, list[i])

\* What __sub__ returns is a list of blocks.
LEMMA SubType ==
    ASSUME NEW a \in Blocks, NEW b \in Blocks
    PROVE  Sub(a, b) \in Seq(Blocks)
<1>1. \A i \in DOMAIN Sub(a, b) : Sub(a, b)[i] \in Blocks
  BY SubIsDifference DEF Leaves
<1>2. \/ Sub(a, b) = <<>>
      \/ \E x : Sub(a, b) = <<x>>
      \/ \E x, y : Sub(a, b) = <<x, y>>
  BY DEF Sub
<1>3. ASSUME NEW x, Sub(a, b) = <<x>>
      PROVE  Sub(a, b) \in Seq(Blocks)
  <2>1. DOMAIN <<x>> = {1} /\ <<x>>[1] = x
    OBVIOUS
  <2>2. x \in Blocks
    BY <1>1, <1>3, <2>1
  <2>. QED
    BY <1>3, <2>2
<1>4. ASSUME NEW x, NEW y, Sub(a, b) = <<x, y>>
      PROVE  Sub(a, b) \in Seq(Blocks)
  <2>1. DOMAIN <<x, y>> = {1, 2} /\ <<x, y>>[1] = x /\ <<x, y>>[2] = y
    OBVIOUS
  <2>2. x \in Blocks /\ y \in Blocks
    BY <1>1, <1>4, <2>1
  <2>. QED
    BY <1>4, <2>2
<1>5. Sub(a, b) = <<>> => Sub(a, b) \in Seq(Blocks)
  OBVIOUS
<1>. QED
  BY <1>2, <1>3, <1>4, <1>5

\* The pieces of two lists that do not meet.
LEMMA PiecesConcat ==
    ASSUME NEW w, NEW S, NEW T, NEW l, NEW m, Pieces(l, w, S), Pieces(m, w, T),
           S \cap T = {}
    PROVE  Pieces(l \o m, w, S \cup T)
<1>1. PICK L \in Nat, M \in Nat : L = Len(l) /\ M = Len(m)
  BY DEF Pieces
<1>2. /\ l \in Seq(Blocks) /\ DOMAIN l = 1 .. L
      /\ m \in Seq(Blocks) /\ DOMAIN m = 1 .. M
  BY <1>1 DEF Pieces
<1>3. PICK t \in Seq(Blocks) : t = l \o m
  <2>1. l \o m \in Seq(Blocks)
    BY <1>2, ConcatProperties
  <2>. QED
    BY <2>1
<1>4. /\ DOMAIN t = 1 .. L + M
      /\ \A i \in 1 .. L : t[i] = l[i]
      /\ \A i \in L + 1 .. L + M : t[i] = m[i - L] /\ i - L \in 1 .. M
  BY <1>1, <1>2, <1>3, ConcatProperties
<1>5. \A i \in 1 .. L + M : i \in 1 .. L \/ i \in L + 1 .. L + M
  OBVIOUS
<1>6. /\ \A i \in 1 .. L : Points(t[i]) \subseteq S /\ Contains(w, t[i])
      /\ \A i \in L + 1 .. L + M : Points(t[i]) \subseteq T /\ Contains(w, t[i])
  BY <1>2, <1>4 DEF Pieces, PointsOf
<1>7. PointsOf(t) = S \cup T
  <2>1. PointsOf(t) \subseteq S \cup T
    BY <1>4, <1>5, <1>6 DEF PointsOf
  <2>2. ASSUME NEW a \in S
        PROVE  a \in PointsOf(t)
    <3>1. PICK i \in 1 .. L : a \in Points(l[i])
      BY <1>2 DEF Pieces, PointsOf
    <3>2. i \in DOMAIN t /\ a \in Points(t[i])
      BY <1>4, <3>1
    <3>. QED
      BY <3>2 DEF PointsOf
  <2>3. ASSUME NEW a \in T
        PROVE  a \in PointsOf(t)
    <3>1. PICK i \in 1 .. M : a \in Points(m[i])
      BY <1>2 DEF Pieces, PointsOf
    <3>2. L + i \in L + 1 .. L + M /\ (L + i) - L = i
      OBVIOUS
    <3>3. L + i \in DOMAIN t /\ a \in Points(t[L + i])
      BY <1>4, <3>1, <3>2
    <3>. QED
      BY <3>3 DEF PointsOf
  <2>. QED
    BY <2>1, <2>2, <2>3
<1>8. ASSUME NEW i \in 1 .. L + M, NEW j \in 1 .. L + M, i # j
      PROVE  Points(t[i]) \cap Points(t[j]) = {}
  <2>1. CASE i \in 1 .. L /\ j \in 1 .. L
    BY <1>2, <1>4, <1>8, <2>1 DEF Pieces
  <2>2. CASE i \in L + 1 .. L + M /\ j \in L + 1 .. L + M
    <3>1. i - L \in 1 .. M /\ j - L \in 1 .. M /\ i - L # j - L
      BY <1>8, <2>2
    <3>2. Points(m[i - L]) \cap Points(m[j - L]) = {}
      BY <1>2, <3>1 DEF Pieces
    <3>. QED
      BY <1>4, <2>2, <3>2
  <2>3. CASE i \in 1 .. L /\ j \in L + 1 .. L + M
    BY <1>6, <2>3
  <2>4. CASE i \in L + 1 .. L + M /\ j \in 1 .. L
    BY <1>6, <2>4
  <2>. QED
    BY <1>5, <2>1, <2>2, <2>3, <2>4
<1>9. \A i \in DOMAIN t : Contains(w, t[i])
  BY <1>4, <1>5, <1>6
<1>10. Pieces(t, w, S \cup T)
  BY <1>4, <1>7, <1>8, <1>9 DEF Pieces
<1>. QED
  BY <1>3, <1>10

\* One cut of one piece.
LEMMA SubPieces ==
    ASSUME NEW w \in Blocks, NEW a \in Blocks, NEW b \in Blocks, Contains(w, a)
    PROVE  Pieces(Sub(a, b), w, Points(a) \ Points(b))
<1>1. Leaves(Sub(a, b), a, b) /\ Sub(a, b) \in Seq(Blocks)
  BY SubIsDifference, SubType
<1>2. \A x \in Blocks : Contains(a, x) => Contains(w, x)
  BY DEF Contains, Blocks
<1>. QED
  BY <1>1, <1>2 DEF Pieces, Leaves

\* The addresses of the first i pieces.
Upto(list, i) == UNION {Points(list[j]) : j \in 1 .. i}

\* The lists SubAll makes one after the other.
Rests(h, list, b, n) ==
    \A i \in 0 .. n : h[i] = IF i = 0 THEN <<>> ELSE h[i - 1] \o Sub(list[i], b)

\* There are such lists, and they have what is left of the pieces so far.
LEMMA RestsExist ==
    ASSUME NEW w \in Blocks, NEW list, Pieces(list, w, PointsOf(list)), NEW b \in Blocks
    PROVE  \A n \in Nat : n <= Len(list) =>
              \E h : /\ DOMAIN h = 0 .. n /\ Rests(h, list, b, n)
                     /\ Pieces(h[n], w, Upto(list, n) \ Points(b))
<1>. DEFINE Good(n) == \E h : /\ DOMAIN h = 0 .. n /\ Rests(h, list, b, n)
                              /\ Pieces(h[n], w, Upto(list, n) \ Points(b))
            Bad     == {n \in Nat : n <= Len(list) /\ ~ Good(n)}
<1>. SUFFICES ASSUME Bad # {}
              PROVE  FALSE
  OBVIOUS
<1>1. Bad \in SUBSET Nat
  OBVIOUS
<1>2. PICK n \in Bad : \A k \in Bad : n <= k
  <2>. HIDE DEF Bad
  <2>. QED
    BY <1>1, Least
<1>3. n \in Nat /\ n <= Len(list) /\ ~ Good(n)
  OBVIOUS
<1>4. n # 0
  <2>1. Pieces(<<>>, w, {})
    BY DEF Pieces, PointsOf
  <2>2. Upto(list, 0) \ Points(b) = {}
    BY DEF Upto
  <2>3. PICK h : h = [i \in 0 .. 0 |-> <<>>]
    OBVIOUS
  <2>4. DOMAIN h = 0 .. 0 /\ h[0] = <<>> /\ Rests(h, list, b, 0)
    BY <2>3 DEF Rests
  <2>5. Good(0)
    BY <2>1, <2>2, <2>4
  <2>. QED
    BY <1>3, <2>5
<1>5. Good(n - 1)
  <2>1. n - 1 \in Nat /\ n - 1 <= Len(list) /\ n - 1 \notin Bad
    <3>1. Len(list) \in Nat
      BY DEF Pieces
    <3>2. n - 1 \in Nat /\ n - 1 <= Len(list) /\ ~ (n <= n - 1)
      BY <1>3, <1>4, <3>1
    <3>. QED
      BY <1>2, <3>2
  <2>. QED
    BY <2>1
<1>6. PICK h : /\ DOMAIN h = 0 .. n - 1 /\ Rests(h, list, b, n - 1)
               /\ Pieces(h[n - 1], w, Upto(list, n - 1) \ Points(b))
  BY <1>5
<1>. HIDE DEF Bad, Good
<1>7. /\ n \in DOMAIN list /\ DOMAIN list = 1 .. Len(list) /\ list[n] \in Blocks
      /\ Contains(w, list[n])
  <2>1. list \in Seq(Blocks) /\ Len(list) \in Nat
    BY DEF Pieces
  <2>2. n \in DOMAIN list /\ DOMAIN list = 1 .. Len(list) /\ list[n] \in Blocks
    BY <1>3, <1>4, <2>1
  <2>. QED
    BY <2>2 DEF Pieces
<1>8. PICK more : more = [i \in 0 .. n |-> IF i = n THEN h[n - 1] \o Sub(list[n], b)
                                           ELSE h[i]]
  OBVIOUS
<1>9. /\ DOMAIN more = 0 .. n /\ more[n] = h[n - 1] \o Sub(list[n], b)
      /\ \A i \in 0 .. n - 1 : more[i] = h[i]
  BY <1>3, <1>8
<1>10. Rests(more, list, b, n)
  <2>1. ASSUME NEW i \in 0 .. n
        PROVE  more[i] = IF i = 0 THEN <<>> ELSE more[i - 1] \o Sub(list[i], b)
    <3>1. CASE i = n
      <4>1. n - 1 \in 0 .. n - 1
        BY <1>3, <1>4
      <4>. QED
        BY <1>4, <1>9, <3>1, <4>1
    <3>2. CASE i # n
      <4>1. i \in 0 .. n - 1 /\ (i # 0 => i - 1 \in 0 .. n - 1)
        BY <1>3, <3>2
      <4>. QED
        BY <1>6, <1>9, <4>1 DEF Rests
    <3>. QED
      BY <3>1, <3>2
  <2>. QED
    BY <2>1 DEF Rests
<1>11. Upto(list, n) = Upto(list, n - 1) \cup Points(list[n])
  <2>1. \A j \in 1 .. n : j = n \/ j \in 1 .. n - 1
    BY <1>3
  <2>2. n \in 1 .. n /\ \A j \in 1 .. n - 1 : j \in 1 .. n
    BY <1>3, <1>4
  <2>. QED
    BY <2>1, <2>2 DEF Upto
<1>12. Upto(list, n - 1) \cap Points(list[n]) = {}
  <2>1. \A j \in 1 .. n - 1 : j \in DOMAIN list /\ j # n
    BY <1>3, <1>7
  <2>2. \A j \in 1 .. n - 1 : Points(list[j]) \cap Points(list[n]) = {}
    BY <1>7, <2>1 DEF Pieces
  <2>. QED
    BY <2>2 DEF Upto
<1>13. Pieces(more[n], w, Upto(list, n) \ Points(b))
  <2>1. Pieces(Sub(list[n], b), w, Points(list[n]) \ Points(b))
    BY <1>7, SubPieces
  <2>2. Upto(list, n) \ Points(b) =
          (Upto(list, n - 1) \ Points(b)) \cup (Points(list[n]) \ Points(b))
    BY <1>11
  <2>3. (Upto(list, n - 1) \ Points(b)) \cap (Points(list[n]) \ Points(b)) = {}
    BY <1>12
  <2>. QED
    BY <1>6, <1>9, <2>1, <2>2, <2>3, PiecesConcat
<1>14. Good(n)
  BY <1>9, <1>10, <1>13 DEF Good
<1>. QED
  BY <1>3, <1>14

\* A cut of all the pieces leaves pieces.
LEMMA SubAllPieces ==
    ASSUME NEW w \in Blocks, NEW list, NEW b \in Blocks, Pieces(list, w, PointsOf(list))
    PROVE  Pieces(SubAll(list, b), w, PointsOf(list) \ Points(b))
<1>1. PICK n \in Nat : n = Len(list) /\ DOMAIN list = 1 .. n
  BY DEF Pieces
<1>2. PICK h : /\ DOMAIN h = 0 .. n /\ Rests(h, list, b, n)
               /\ Pieces(h[n], w, Upto(list, n) \ Points(b))
  <2>1. n <= Len(list)
    BY <1>1
  <2>2. \E h : /\ DOMAIN h = 0 .. n /\ Rests(h, list, b, n)
               /\ Pieces(h[n], w, Upto(list, n) \ Points(b))
    BY <2>1, RestsExist, Zenon
  <2>. QED
    BY <2>2
<1>3. Upto(list, n) = PointsOf(list)
  BY <1>1 DEF Upto, PointsOf
<1>. DEFINE turn(f) == [i \in 0 .. n |->
                          IF i = 0 THEN <<>> ELSE f[i - 1] \o Sub(list[i], b)]
            rest    == CHOOSE f : f = turn(f)
<1>4. SubAll(list, b) = rest[n]
  BY <1>1 DEF SubAll
<1>5. PICK g : g = turn(h)
  OBVIOUS
<1>6. \A i \in 0 .. n : g[i] = h[i]
  BY <1>2, <1>5 DEF Rests
<1>7. g = turn(g)
  <2>1. \A i \in 0 .. n : i # 0 => i - 1 \in 0 .. n
    OBVIOUS
  <2>2. \A i \in 0 .. n : turn(h)[i] = turn(g)[i]
    BY <1>6, <2>1
  <2>3. turn(h) = turn(g)
    BY <2>2
  <2>. QED
    BY <1>5, <2>3
<1>8. rest = turn(rest)
  BY <1>7, Zenon
<1>. HIDE DEF rest
<1>9. \A i \in 0 .. n : rest[i] = IF i = 0 THEN <<>> ELSE rest[i - 1] \o Sub(list[i], b)
  BY <1>8
<1>10. \A i \in 0 .. n : rest[i] = h[i]
  <2>. DEFINE Bad == {i \in 0 .. n : rest[i] # h[i]}
  <2>. SUFFICES ASSUME Bad # {}
                PROVE  FALSE
    OBVIOUS
  <2>1. Bad \in SUBSET Nat
    OBVIOUS
  <2>2. PICK i \in Bad : \A k \in Bad : i <= k
    <3>. HIDE DEF Bad
    <3>. QED
      BY <2>1, Least
  <2>3. i \in 0 .. n /\ rest[i] # h[i]
    OBVIOUS
  <2>4. i # 0
    BY <1>2, <1>9, <2>3 DEF Rests
  <2>5. i - 1 \in 0 .. n /\ i - 1 \notin Bad
    BY <2>2, <2>3, <2>4
  <2>6. rest[i - 1] = h[i - 1]
    BY <2>5
  <2>. QED
    BY <1>2, <1>9, <2>3, <2>4, <2>6 DEF Rests
<1>. QED
  BY <1>2, <1>3, <1>4, <1>10

\* The pieces that are left, after any cuts.
CutInv ==
    /\ whole \in Blocks /\ cuts \subseteq Blocks
    /\ Pieces(left, whole, Points(whole) \ UNION {Points(b) : b \in cuts})

\* A cut keeps them exact.
LEMMA CutKeeps ==
    ASSUME CutInv, [CutNext]_cutVars
    PROVE  CutInv'
<1>1. CASE UNCHANGED cutVars
  BY <1>1 DEF CutInv, cutVars, Pieces, PointsOf
<1>2. CASE CutNext
  <2>1. PICK b \in Ranges : Cut(b)
    BY <1>2 DEF CutNext
  <2>2. b \in Blocks
    BY RangesAssumption
  <2>3. whole' = whole /\ cuts' = cuts \cup {b} /\ left' = SubAll(left, b)
    BY <2>1 DEF Cut
  <2>4. PICK S : S = UNION {Points(c) : c \in cuts}
    OBVIOUS
  <2>5. Pieces(left, whole, PointsOf(left)) /\ PointsOf(left) = Points(whole) \ S
    BY <2>4 DEF CutInv, Pieces
  <2>6. Pieces(SubAll(left, b), whole, PointsOf(left) \ Points(b))
    BY <2>2, <2>5, SubAllPieces DEF CutInv
  <2>7. UNION {Points(c) : c \in cuts \cup {b}} = S \cup Points(b)
    BY <2>4
  <2>8. PointsOf(left) \ Points(b) = Points(whole) \ (S \cup Points(b))
    BY <2>5
  <2>9. Pieces(SubAll(left, b), whole, Points(whole) \ UNION {Points(c) : c \in cuts \cup {b}})
    BY <2>6, <2>7, <2>8
  <2>. QED
    BY <2>2, <2>3, <2>9 DEF CutInv, Pieces, PointsOf
<1>. QED
  BY <1>1, <1>2

\* The pieces are exact after any number of cuts of blocks of any length.
LEMMA CutInvariant == CutSpec => []CutInv
<1>1. ASSUME CutInit
      PROVE  CutInv
  <2>1. whole \in Blocks /\ cuts = {} /\ left = <<whole>>
    BY <1>1, RangesAssumption DEF CutInit
  <2>2. DOMAIN <<whole>> = {1} /\ <<whole>>[1] = whole /\ <<whole>> \in Seq(Blocks)
    BY <2>1
  <2>3. PointsOf(<<whole>>) = Points(whole)
    BY <2>2 DEF PointsOf
  <2>4. Contains(whole, whole)
    BY <2>1 DEF Contains, Blocks
  <2>5. Points(whole) = Points(whole) \ UNION {Points(c) : c \in {}}
    OBVIOUS
  <2>. QED
    BY <2>1, <2>2, <2>3, <2>4, <2>5 DEF CutInv, Pieces
<1>2. CutInv /\ [CutNext]_cutVars => CutInv'
  BY CutKeeps
<1>. QED
  BY <1>1, <1>2, PTL DEF CutSpec

\* __sub__, applied over and over, leaves exactly the addresses that were in none
\* of the blocks taken away, for any blocks and any number of cuts
\* (memorytool.py:49-72).
THEOREM SubExactHolds == CutSpec => []SubExact
<1>1. CutInv => SubExact
  <2>1. CutInv => \A i \in DOMAIN left : left[i] \in Blocks
    BY DEF CutInv, Pieces
  <2>. QED
    BY <2>1 DEF CutInv, Pieces, SubExact
<1>. QED
  BY <1>1, CutInvariant, PTL

\* No byte of a piece is left out when its length is rounded up to whole sectors, and
\* no sector is added, for any length and sector size (memorytool.py:82-84).
THEOREM AlignCoversHolds == CutSpec => []AlignCovers
<1>1. CutInv => AlignCovers
  <2>. SUFFICES ASSUME CutInv, NEW i \in DOMAIN left, NEW base \in Bases
                PROVE  LET number  == left[i].length
                           aligned == AlignUp(number, base)
                       IN  /\ number <= aligned /\ aligned < number + base
                           /\ PowerOfTwo(base) => \E k \in 0 .. aligned : aligned = k * base
    BY DEF AlignCovers
  <2>1. left[i] \in Blocks
    BY DEF CutInv, Pieces
  <2>2. left[i].length \in Nat /\ base \in Nat \ {0}
    BY <2>1, RangesAssumption DEF Blocks
  <2>. QED
    BY <2>2, AlignUpCovers
<1>. QED
  BY <1>1, CutInvariant, PTL

=============================================================================
