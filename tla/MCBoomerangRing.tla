-------------------------- MODULE MCBoomerangRing --------------------------
(* Instances of BoomerangRing for TLC.                                     *)
EXTENDS BoomerangRing
=============================================================================
