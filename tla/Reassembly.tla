---------------------------- MODULE Reassembly ----------------------------
(***************************************************************************)
(* What the reassembly of multi-sentence AIS messages promises, whatever   *)
(* is lost, repeated, reordered or interleaved on the way.  Of each key    *)
(* (the fields by which sentences are matched) it holds the sentences      *)
(* since the last first one, and only as long as each was the successor    *)
(* of the one before: a repeated sentence or a gap ends the attempt.  What *)
(* it holds of a key may be forgotten at any time.  A message goes out     *)
(* when its last sentence completes such a run, consists of exactly that   *)
(* run, and uses it up: no sentence is part of two messages.               *)
(***************************************************************************)
EXTENDS Integers, Sequences

CONSTANTS Keys,       \* what sentences are matched by
          Sentence    \* records with a key, a count and a number

VARIABLES held,       \* [key -> the sentences held of it]
          sent        \* the sentences of the message that goes out, or <<>>

vars == <<held, sent>>

Init == held = [k \in Keys |-> <<>>] /\ sent = <<>>

\* What the sentences of a key become when one more arrives.
Extended(run, s) ==
    IF s.number = 1 THEN <<s>>
    ELSE IF run # <<>> /\ s.number = Len(run) + 1 THEN Append(run, s)
    ELSE <<>>

\* A step takes what is held from old to new.

Forgetting(old, new, S) ==
    /\ new = [k \in Keys |-> new[k]]
    /\ \A k \in S : new[k] \in {old[k], <<>>}

Receive(old, new, s) ==
    /\ \E before \in {old[s.key], <<>>} :
          LET run == Extended(before, s)
          IN  IF Len(run) = s.count
                THEN new[s.key] = <<>> /\ sent' \in {run, <<>>}
                ELSE new[s.key] = run /\ sent' = <<>>
    /\ Forgetting(old, new, Keys \ {s.key})

Forget(old, new) == sent' = <<>> /\ Forgetting(old, new, Keys)

Next == \E new \in {held'} : \E old \in {held} :
          Forget(old, new) \/ \E s \in Sentence : Receive(old, new, s)

Spec == Init /\ [][Next]_vars
=============================================================================
