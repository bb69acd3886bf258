-------------------------- MODULE MCDatabaseOutput --------------------------
(***************************************************************************)
(* DatabaseOutput for TLC.                                                 *)
(***************************************************************************)
EXTENDS DatabaseOutput, TLC
=============================================================================
