------------------------------- MODULE Tracks -------------------------------
(***************************************************************************)
(* What the path store promises: for every ship a track, a time-ordered    *)
(* sequence of points each of which covers a span of time.  A report       *)
(* extends the newest point or becomes a new one.  Making room for it may  *)
(* drop older points of any track, but never changes, reorders or          *)
(* duplicates one, and never moves it to another ship.                     *)
(***************************************************************************)
EXTENDS Integers, Sequences, SequencesExt

CONSTANT Ship

VARIABLE track

Init == track = [s \in Ship |-> <<>>]

(* a is b without some of its points: at[i] is where a[i] was.             *)
Thinned(a, b) ==
  \E at \in [DOMAIN a -> DOMAIN b] :
    /\ \A i, j \in DOMAIN a : i < j => at[i] < at[j]
    /\ \A i \in DOMAIN a : a[i] = b[at[i]]

(* A step takes the tracks from old to new.                                *)

Extended(old, new, s) ==
  /\ old[s] # <<>> /\ new[s] # <<>>
  /\ Last(new[s]).end >= Last(old[s]).end
  /\ new = [old EXCEPT ![s] = Front(@) \o <<[Last(@) EXCEPT !.end = Last(new[s]).end]>>]

Reported(old, new, s) ==
  /\ DOMAIN new = Ship /\ new[s] # <<>>
  /\ Last(new[s]).time = Last(new[s]).end
  /\ old[s] # <<>> => Last(new[s]).time >= Last(old[s]).end
  /\ Thinned(Front(new[s]), old[s])
  /\ \A x \in Ship \ {s} : Thinned(new[x], old[x])

Wiped(old, new, s) == new = [old EXCEPT ![s] = <<>>]

Step(old, new) ==
  \E s \in Ship : Wiped(old, new, s) \/ Extended(old, new, s) \/ Reported(old, new, s)

Next == \E new \in {track'} : \E old \in {track} : Step(old, new)

Spec == Init /\ [][Next]_track
=============================================================================
