---------------------------- MODULE MCSampleFIFO ----------------------------
(***************************************************************************)
(* SampleFIFO for TLC: three blocks of two bytes, pushes of up to three    *)
(* bytes, so that pushes wrap, straddle blocks and find the FIFO full.     *)
(***************************************************************************)
EXTENDS SampleFIFO
=============================================================================
