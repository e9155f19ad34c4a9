--------------------------- MODULE MCTxCompletion ---------------------------
(* Instances of TxCompletion for TLC.                                      *)
EXTENDS TxCompletion
=============================================================================
