-------------------------------- MODULE MCArp --------------------------------
(* The ARP cache for TLC: three addresses, two of which share a bucket. *)
EXTENDS Arp, TLC

CONSTANTS ip1, ip2, ip3, s1, s2

MCHash == (ip1 :> 1) @@ (ip2 :> 1) @@ (ip3 :> 2)

\* The stations are interchangeable.
MCSymmetry == Permutations({s1, s2})
=============================================================================
