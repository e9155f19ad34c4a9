------------------------------ MODULE MCStartup ------------------------------
(* Instance for TLC: one line of each controller and one software vector. *)
EXTENDS Startup
=============================================================================
