----------------------------- MODULE MCSlotTable ----------------------------
(***************************************************************************)
(* SlotTable for TLC: four slots, five keys in two buckets, so that chains  *)
(* hold several slots and claims recycle the head, the middle and the end  *)
(* of a chain.                                                             *)
(***************************************************************************)
EXTENDS SlotTable, SequencesExt

(* setup() pushes the slots one by one on an empty list.                   *)
EmptyTable ==
  [slots |-> [i \in SlotIds |-> [lru_prev |-> NIL, lru_next |-> NIL,
                                 h_prev |-> NIL, h_next |-> NIL, key |-> 0]],
   buckets |-> [b \in Buckets |-> NIL], head |-> NIL, tail |-> NIL, count |-> 0]

ASSUME SetupPushesAll ==
  setup = FoldLeft(lruPushFront, EmptyTable, [i \in 1 .. nrecords |-> i - 1])
=============================================================================
