------------------------------- MODULE LRUMap -------------------------------
(***************************************************************************)
(* What the ship, aircraft and CSV-state tables promise their users: a map *)
(* of bounded size from keys to record slots that forgets the key used     *)
(* longest ago.  A key keeps its slot for as long as it is in the map, and *)
(* a full map gives the slot of the forgotten key to the new one.          *)
(***************************************************************************)
EXTENDS Naturals, Sequences, SequencesExt

CONSTANTS Key, SlotIds

VARIABLES
  order,    \* the keys, newest first
  slot      \* the slot of each of them

vars == <<order, slot>>

Init == order = <<>> /\ slot = <<>>

Live == ToSet(order)

Touch(k) ==
  /\ \E i \in DOMAIN order : order[i] = k /\ order' = <<k>> \o RemoveAt(order, i)
  /\ UNCHANGED slot

(* There is a slot nobody has.                                             *)
Add(k) ==
  /\ k \notin Live
  /\ \E s \in SlotIds \ {slot[j] : j \in Live} :
       slot' = [j \in Live \cup {k} |-> IF j = k THEN s ELSE slot[j]]
  /\ order' = <<k>> \o order

(* There is none: the oldest key goes and leaves its slot.                 *)
Replace(k) ==
  /\ k \notin Live
  /\ {slot[j] : j \in Live} = SlotIds
  /\ order' = <<k>> \o Front(order)
  /\ slot' = [j \in (Live \ {Last(order)}) \cup {k} |->
                IF j = k THEN slot[Last(order)] ELSE slot[j]]

Next == \E k \in Key : Touch(k) \/ Add(k) \/ Replace(k)

Spec == Init /\ [][Next]_vars
=============================================================================
