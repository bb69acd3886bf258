---------------------------- MODULE MCCSVState ----------------------------
(* CSVState for TLC: targets are interchangeable.                          *)
EXTENDS CSVState, TLC

Symmetry == Permutations(Key)
=============================================================================
