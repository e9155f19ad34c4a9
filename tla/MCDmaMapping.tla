---------------------------- MODULE MCDmaMapping ----------------------------
(* A clean buffer and one that crosses 64K.  One with another flaw would   *)
(* only ever fail its check, as these may.  Mapping ids are alike, and so  *)
(* are frames.                                                             *)
EXTENDS DmaMapping, TLC

CONSTANTS clean, crossing, m1, m2, f1, f2

MCFlaws == [b \in Buffers |-> IF b = crossing THEN {"crosses"} ELSE {}]

Alike == Permutations({m1, m2}) \cup Permutations({f1, f2})
=============================================================================
