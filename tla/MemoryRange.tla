----------------------------- MODULE MemoryRange -----------------------------
(***************************************************************************)
(* Address arithmetic of memorytool.py: half-open blocks start .. end - 1, *)
(* and the range questions McuBoot asks with them.                         *)
(***************************************************************************)
EXTENDS Integers, Sequences

\* A block the constructor refused (ValueError), and a range not known (None).
None == [start |-> 0, end |-> 0, length |-> 0]

Block(start, end) == [start |-> start, end |-> end, length |-> end - start]

\* The constructor; 0 is as good as no argument (if end or length).
MemoryBlock(start, end, length) ==
    IF end = 0 /\ length = 0
    THEN None
    ELSE [start  |-> start,
          end    |-> IF length # 0 THEN start + length ELSE end,
          length |-> IF end # 0 THEN end - start ELSE length]

Contains(self, other) == other.start >= self.start /\ other.end <= self.end

\* Mutant of Sub: what is behind other is forgotten.
SubKeepsFront(self, other) ==
    IF self.start > other.end \/ self.end < other.start
    THEN <<self>>
    ELSE IF self.start < other.start
    THEN <<Block(self.start, other.start)>>
    ELSE <<>>

\* self - other, as a list of blocks.
Sub(self, other) ==
    IF self.start > other.end \/ self.end < other.start
    THEN <<self>>
    ELSE IF self.start < other.start /\ other.start <= self.end
    THEN IF self.end > other.end
         THEN <<Block(self.start, other.start), Block(other.end, self.end)>>
         ELSE <<Block(self.start, other.start)>>
    ELSE IF self.start <= other.end /\ other.end < self.end
    THEN IF self.start < other.start
         THEN <<Block(self.start, other.start), Block(other.end, self.end)>>
         ELSE <<Block(other.end, self.end)>>
    ELSE <<>>

\* is_in_memory and is_in_flash: a block of unknown range holds everything
\* (if self.flash is also false of a block whose __len__ is 0).
IsIn(block, range) == range.length = 0 \/ Contains(range, block)

\* x & ~m of two naturals, bit by bit from the lowest.
AndNot(x, m) ==
    LET clear[y \in Nat] == [n \in Nat |->
            IF y = 0 THEN 0
            ELSE 2 * clear[y \div 2][n \div 2] + (IF y % 2 > n % 2 THEN 1 ELSE 0)]
    IN  clear[x][m]

\* Mutant of AlignUp: align_down.
AlignDown(number, base) == IF base = 0 THEN 0 ELSE AndNot(number, base - 1)

\* Flash.align_up: (number + base - 1) & ~(base - 1), for any base.
AlignUp(number, base) ==
    IF base = 0 THEN 0 ELSE AndNot(number + base - 1, base - 1)

-----------------------------------------------------------------------------
(* The reference: a block is the set of its addresses.                     *)

Blocks == {b \in [start : Nat, end : Nat, length : Int] :
              b.start <= b.end /\ b.length = b.end - b.start}

Points(b) == b.start .. b.end - 1

PointsOf(list) == UNION {Points(list[i]) : i \in DOMAIN list}

\* list is what is left of a without b: exactly those addresses, in pieces
\* that are blocks inside a and do not overlap.
Leaves(list, a, b) ==
    /\ PointsOf(list) = Points(a) \ Points(b)
    /\ \A i \in DOMAIN list : list[i] \in Blocks /\ Contains(a, list[i])
    /\ \A i, j \in DOMAIN list : i # j => Points(list[i]) \cap Points(list[j]) = {}

=============================================================================
