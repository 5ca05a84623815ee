---------------------------- MODULE MCMemoryRange ----------------------------
(* RangeCuts over every block of a small address space that is not empty. *)
EXTENDS RangeCuts

CONSTANT Top  \* bound: the highest end of a block

MCRanges == {Block(b[1], b[2]) : b \in {p \in (0 .. Top) \X (0 .. Top) : p[1] < p[2]}}
MCBases  == 1 .. 4 * Top

ASSUME PowersAreFound == \A base \in MCBases : PowerOfTwo(base) <=> base \in {2^k : k \in 0 .. Top}
=============================================================================
