------------------------------- MODULE RangeCuts -------------------------------
(***************************************************************************)
(* What Sub leaves of a block when other blocks are taken away from it one *)
(* after the other, each from all the pieces there are by then, as a       *)
(* caller does who frees one range after another; and what AlignUp makes   *)
(* of the lengths of the pieces.                                           *)
(***************************************************************************)
EXTENDS MemoryRange

CONSTANTS
    Ranges,  \* the blocks there are to cut, and to cut away
    Bases    \* sector sizes

ASSUME RangesAssumption == Ranges \subseteq Blocks /\ Bases \subseteq Nat \ {0}

VARIABLES whole, cuts, left

cutVars == <<whole, cuts, left>>

\* Every piece of list minus b.
SubAll(list, b) ==
    LET rest[i \in 0 .. Len(list)] ==
          IF i = 0 THEN <<>> ELSE rest[i - 1] \o Sub(list[i], b)
    IN  rest[Len(list)]

Cut(b) ==
    /\ b \notin cuts
    /\ cuts' = cuts \cup {b}
    /\ left' = SubAll(left, b)
    /\ UNCHANGED whole

CutInit == whole \in Ranges /\ cuts = {} /\ left = <<whole>>

CutNext == \E b \in Ranges : Cut(b)

CutSpec == CutInit /\ [][CutNext]_cutVars

\* __sub__, applied over and over, leaves exactly the addresses of the first
\* block that are in none of the others, in pieces that do not overlap and are
\* ones __contains__ finds in the first block.
SubExact ==
    /\ PointsOf(left) = Points(whole) \ UNION {Points(b) : b \in cuts}
    /\ \A i, j \in DOMAIN left : i # j => Points(left[i]) \cap Points(left[j]) = {}
    /\ \A i \in DOMAIN left : left[i] \in Blocks /\ Contains(whole, left[i])

\* A number with one bit set: what is & of it and one less is 0.
PowerOfTwo(base) == AndNot(base, base - 1) = base

\* Rounding the length of a piece up never leaves a byte of it out nor adds a whole
\* sector, for any sector size a device may report, and ends on a sector when that
\* is a power of two (memorytool.py:82-84, mboot.py:1013).
AlignCovers ==
    \A i \in DOMAIN left, base \in Bases :
        LET number  == left[i].length
            aligned == AlignUp(number, base)
        IN  /\ number <= aligned /\ aligned < number + base
            /\ PowerOfTwo(base) => \E k \in 0 .. aligned : aligned = k * base

=============================================================================
