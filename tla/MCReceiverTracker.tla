------------------------- MODULE MCReceiverTracker -------------------------
(***************************************************************************)
(* ReceiverTracker for TLC: two receivers, two slots.         *)
(***************************************************************************)
EXTENDS ReceiverTracker, TLC

Symmetry == Permutations(Receiver) \cup Permutations(Mmsi) \cup Permutations(Slot)
=============================================================================
