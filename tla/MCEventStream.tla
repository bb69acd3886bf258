--------------------------- MODULE MCEventStream ---------------------------
(***************************************************************************)
(* EventStream for TLC: one thread that logs, which close() races to the   *)
(* wake handle, and two slots.                                             *)
(***************************************************************************)
EXTENDS EventStream, TLC
=============================================================================
