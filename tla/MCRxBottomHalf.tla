--------------------------- MODULE MCRxBottomHalf ---------------------------
(* Instances of RxBottomHalf for TLC.                                      *)
EXTENDS RxBottomHalf
=============================================================================
