-------------------------- MODULE MCNMEAAssembly --------------------------
(***************************************************************************)
(* Two messages of one channel, one of a second channel, and two in a      *)
(* group with one id but different counts, so with one key: it leaves the  *)
(* count out, and a sentence's number may be larger than its count.        *)
(***************************************************************************)
EXTENDS NMEAAssembly

Header4(channel, group, id, count) ==
    [talker |-> "AI", channel |-> channel, group |-> group, id |-> id, count |-> count]

MCMessage == [long  |-> Header4("A", 0, 1, 3),
              next  |-> Header4("A", 0, 2, 2),
              other |-> Header4("B", 0, 1, 2),
              group |-> Header4("A", 1, 2, 2),
              grown |-> Header4("A", 1, 2, 3)]

MCMayBeDamaged == {"grown"}
=============================================================================
