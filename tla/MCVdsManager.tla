---------------------------- MODULE MCVdsManager ----------------------------
(* Two regions of one block each; the buffer ids of VDS are alike.         *)
EXTENDS VdsManager, TLC

CONSTANTS r1, r2, h1, h2

MCBlocks == [r \in Regions |-> 1]
Alike == Permutations({h1, h2}) \cup Permutations({r1, r2})
=============================================================================
