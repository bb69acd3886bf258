----------------------------- MODULE MCPathStore ----------------------------
(***************************************************************************)
(* PathStore for TLC: two ships, three blocks of two points.               *)
(***************************************************************************)
EXTENDS PathStore
=============================================================================
