--------------------------- MODULE MCManagedMain ---------------------------
(***************************************************************************)
(* ManagedMain for TLC: two engine commands, one saved configuration,    *)
(* and delays of 5 and 10 seconds (5, 10, 20, 40, 60 in the code).         *)
(***************************************************************************)
EXTENDS ManagedMain
=============================================================================
