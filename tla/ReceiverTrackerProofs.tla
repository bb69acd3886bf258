----------------------- MODULE ReceiverTrackerProofs -----------------------
(***************************************************************************)
(* Theorems about ReceiverTracker for any number of receivers, ships,      *)
(* records and messages, any length and interval of the history, and any   *)
(* lag between a message's stamp and its processing.                       *)
(***************************************************************************)
EXTENDS ReceiverTracker, SequenceTheorems, FiniteSetTheorems, FunctionTheorems,
        WellFoundedInduction, TLAPS

(* The parts of the inductive invariant.                                   *)

(* A ship is in the table once, and no two ships have the same record.     *)
OneRecordEach == IsInjective(order) /\ IsInjective(slot)

(* Nothing is from the future, and a message in a thread's hands is not    *)
(* older than the lag.                                                     *)
Clocked ==
  /\ \A s \in Slot : ships[s] =< clock
  /\ \A m \in Mmsi : seen[m] =< clock
  /\ \A r \in Receiver : rx[r] # None => rx[r].time =< clock /\ clock =< rx[r].time + MaxLag

(* A ship that was processed later has a signal, and comes after every     *)
(* position of the ones behind it, that is at most the lag older.          *)
NearlyOrdered ==
  \A i, j \in DOMAIN order : i =< j =>
    /\ ships[slot[order[j]]] =< ships[slot[order[i]]] + MaxLag
    /\ seen[order[j]] =< ships[slot[order[i]]] + MaxLag

(* A position that the horizon is not past is on its ship's track, but for *)
(* the lag, as long as others have not taken the track's blocks: a message *)
(* that was overtaken may be the first of a new track.                     *)
PositionsKept ==
  \A m \in Mmsi : seen[m] > evict_horizon + MaxLag /\ m \notin overwritten =>
    m \in Table!Live /\ paths[slot[m]] # None /\ seen[m] =< paths[slot[m]].end + MaxLag

Ordered(h) ==
  \A k \in 1 .. ((h.end - h.start + N) % N) :
    h.time[(h.start + k - 1) % N] < h.time[(h.start + k) % N]

(* So are the rings that are in a file, whose ships are all different.     *)
BackupSound ==
  /\ saving # None => Ordered(saving)
  /\ backup # None =>
       /\ Ordered(backup.ring)
       /\ \A i, j \in DOMAIN backup.rows : backup.rows[i].mmsi = backup.rows[j].mmsi => i = j
       /\ \A i \in DOMAIN backup.rows : backup.rows[i].last =< clock
       /\ Len(backup.rows) =< Cardinality(Slot)

IInv ==
  /\ TypeOK /\ OneRecordEach /\ Clocked /\ NearlyOrdered /\ TrackOwned /\ PositionsKept
  /\ RingOrdered /\ BackupSound

(* The tracks without those that are lost to others, and the ships that    *)
(* have lost theirs and not got a new one.                                 *)
Left(lost) == [x \in Slot |-> IF x \in lost THEN None ELSE paths[x]]

LosersAfter(m, position, lost) ==
  {k \in ToSet(order') : k \in overwritten \/ slot'[k] \in lost}
    \ (IF position THEN {m} ELSE {})

-----------------------------------------------------------------------------
(* The table.                                                              *)

LEMMA RemoveAtProperties ==
  ASSUME NEW S, NEW s \in Seq(S), NEW p \in 1 .. Len(s)
  PROVE  /\ RemoveAt(s, p) \in Seq(S) /\ Len(RemoveAt(s, p)) = Len(s) - 1
         /\ \A i \in 1 .. (Len(s) - 1) : RemoveAt(s, p)[i] = s[IF i < p THEN i ELSE i + 1]
<1> DEFINE n == Len(s)
           a == SubSeq(s, 1, p - 1)
           b == SubSeq(s, p + 1, n)
<1>1. n \in Nat /\ p \in Nat /\ p - 1 \in Int /\ p + 1 \in Int /\ n \in Int
  BY LenProperties
<1>2. /\ \A i \in 1 .. (p - 1) : s[i] \in S
      /\ \A i \in (p + 1) .. n : s[i] \in S
  <2>1. /\ \A i \in 1 .. (p - 1) : i \in 1 .. n
        /\ \A i \in (p + 1) .. n : i \in 1 .. n
    BY <1>1
  <2> QED
    BY <2>1, ElementOfSeq
<1>3. /\ a \in Seq(S) /\ Len(a) = IF 1 <= p - 1 THEN p - 1 - 1 + 1 ELSE 0
      /\ \A i \in 1 .. (p - 1 - 1 + 1) : a[i] = s[1 + i - 1]
  BY <1>1, <1>2, SubSeqProperties
<1>4. /\ b \in Seq(S) /\ Len(b) = IF p + 1 <= n THEN n - (p + 1) + 1 ELSE 0
      /\ \A i \in 1 .. (n - (p + 1) + 1) : b[i] = s[p + 1 + i - 1]
  BY <1>1, <1>2, SubSeqProperties
<1> HIDE DEF a, b, n
<1>5. Len(a) = p - 1 /\ Len(b) = n - p
  BY <1>1, <1>3, <1>4 DEF n
<1>6. /\ a \o b \in Seq(S) /\ Len(a \o b) = Len(a) + Len(b)
      /\ \A i \in 1 .. Len(a) + Len(b) : (a \o b)[i] = IF i <= Len(a) THEN a[i] ELSE b[i - Len(a)]
  BY <1>3, <1>4, ConcatProperties
<1>7. ASSUME NEW i \in 1 .. (n - 1)
      PROVE  (a \o b)[i] = s[IF i < p THEN i ELSE i + 1]
  <2>1. (a \o b)[i] = IF i <= p - 1 THEN a[i] ELSE b[i - (p - 1)]
    BY <1>1, <1>5, <1>6
  <2>2. CASE i < p
    <3>1. i \in 1 .. (p - 1 - 1 + 1) /\ 1 + i - 1 = i /\ i <= p - 1
      BY <1>1, <2>2
    <3> QED
      BY <1>3, <2>1, <2>2, <3>1
  <2>3. CASE ~(i < p)
    <3>1. /\ i - (p - 1) \in 1 .. (n - (p + 1) + 1) /\ p + 1 + (i - (p - 1)) - 1 = i + 1
          /\ ~(i <= p - 1)
      BY <1>1, <2>3
    <3> QED
      BY <1>4, <2>1, <2>3, <3>1
  <2> QED
    BY <2>2, <2>3
<1>8. RemoveAt(s, p) = a \o b /\ Len(a) + Len(b) = n - 1
  <2>1. RemoveAt(s, p) = a \o b
    BY DEF RemoveAt, a, b, n
  <2>2. n \in Nat /\ p \in 1 .. n
    BY <1>1 DEF n
  <2> QED
    BY <1>5, <2>1, <2>2
<1> QED
  BY <1>6, <1>7, <1>8 DEF n

(* t is s with m in front instead of what was at p: nothing if p is behind *)
(* the last element.                                                       *)
Promoted(s, t, m, p) ==
  /\ Len(t) = IF p =< Len(s) THEN Len(s) ELSE Len(s) + 1
  /\ t[1] = m
  /\ \A i \in 2 .. Len(t) : t[i] = s[IF i =< p THEN i - 1 ELSE i]

LEMMA Prepended ==
  ASSUME NEW S, NEW s \in Seq(S), NEW m \in S
  PROVE  /\ <<m>> \o s \in Seq(S) /\ Len(<<m>> \o s) = Len(s) + 1
         /\ (<<m>> \o s)[1] = m
         /\ \A i \in 2 .. (Len(s) + 1) : (<<m>> \o s)[i] = s[i - 1]
<1>1. <<m>> \in Seq(S) /\ Len(<<m>>) = 1 /\ <<m>>[1] = m
  OBVIOUS
<1>2. Len(s) \in Nat
  BY LenProperties
<1>3. /\ <<m>> \o s \in Seq(S) /\ Len(<<m>> \o s) = Len(<<m>>) + Len(s)
      /\ \A i \in 1 .. Len(<<m>>) + Len(s) :
           (<<m>> \o s)[i] = IF i <= Len(<<m>>) THEN <<m>>[i] ELSE s[i - Len(<<m>>)]
  BY <1>1, ConcatProperties
<1> DEFINE t == <<m>> \o s
<1> HIDE DEF t
<1>4. /\ t \in Seq(S) /\ Len(t) = 1 + Len(s)
      /\ \A i \in 1 .. 1 + Len(s) : t[i] = IF i <= 1 THEN m ELSE s[i - 1]
  BY <1>1, <1>3 DEF t
<1> QED
  BY <1>2, <1>4 DEF t

LEMMA PromotedFromInside ==
  ASSUME NEW S, NEW s \in Seq(S), NEW m \in S, NEW p \in 1 .. Len(s)
  PROVE  /\ <<m>> \o RemoveAt(s, p) \in Seq(S)
         /\ Promoted(s, <<m>> \o RemoveAt(s, p), m, p)
<1> DEFINE r == RemoveAt(s, p)
           t == <<m>> \o r
<1>1. Len(s) \in Nat
  BY LenProperties
<1>2. /\ r \in Seq(S) /\ Len(r) = Len(s) - 1
      /\ \A i \in 1 .. (Len(s) - 1) : r[i] = s[IF i < p THEN i ELSE i + 1]
  BY RemoveAtProperties
<1> HIDE DEF r
<1>3. /\ t \in Seq(S) /\ Len(t) = Len(r) + 1 /\ t[1] = m
      /\ \A i \in 2 .. (Len(r) + 1) : t[i] = r[i - 1]
  BY <1>2, Prepended
<1> HIDE DEF t
<1>4. Len(t) = Len(s)
  BY <1>1, <1>2, <1>3
<1>5. ASSUME NEW i \in 2 .. Len(t)
      PROVE  t[i] = s[IF i =< p THEN i - 1 ELSE i]
  <2>1. i - 1 \in 1 .. (Len(s) - 1) /\ i - 1 + 1 = i /\ (i - 1 < p <=> i =< p)
    BY <1>1, <1>4
  <2>2. t[i] = r[i - 1]
    BY <1>1, <1>2, <1>3, <1>4
  <2>3. r[i - 1] = s[IF i - 1 < p THEN i - 1 ELSE i - 1 + 1]
    BY <1>2, <2>1
  <2> QED
    BY <2>1, <2>2, <2>3
<1>6. Promoted(s, t, m, p)
  BY <1>1, <1>3, <1>4, <1>5 DEF Promoted
<1> QED
  BY <1>3, <1>6 DEF t, r

LEMMA PromotedFromOutside ==
  ASSUME NEW S, NEW s \in Seq(S), NEW m \in S
  PROVE  /\ <<m>> \o s \in Seq(S)
         /\ Promoted(s, <<m>> \o s, m, Len(s) + 1)
<1> DEFINE t == <<m>> \o s
<1>1. Len(s) \in Nat
  BY LenProperties
<1>2. /\ t \in Seq(S) /\ Len(t) = Len(s) + 1 /\ t[1] = m
      /\ \A i \in 2 .. (Len(s) + 1) : t[i] = s[i - 1]
  BY Prepended
<1> HIDE DEF t
<1>3. Promoted(s, t, m, Len(s) + 1)
  BY <1>1, <1>2 DEF Promoted
<1> QED
  BY <1>2, <1>3 DEF t

(* What such a promotion leaves: nobody twice, nobody overtaken.           *)
OnlyAt(s, m, p) == \A a \in DOMAIN s : s[a] = m => a = p

OrderKept(s, t, m, p) ==
  /\ IsInjective(t)
  /\ ToSet(t) = {m} \cup {s[a] : a \in DOMAIN s \ {p}}
  /\ 1 \in DOMAIN t /\ t[1] = m
  /\ \A i, j \in DOMAIN t \ {1} : i =< j =>
       \E a, b \in DOMAIN s \ {p} : a =< b /\ t[i] = s[a] /\ t[j] = s[b]

LEMMA PromotedKeepsOrder ==
  ASSUME NEW S, NEW s \in Seq(S), NEW t \in Seq(S), NEW m \in S, NEW p \in 1 .. (Len(s) + 1),
         Promoted(s, t, m, p), IsInjective(s), OnlyAt(s, m, p)
  PROVE  OrderKept(s, t, m, p)
<1> DEFINE n == Len(s)
           f(i) == IF i =< p THEN i - 1 ELSE i
<1>1. n \in Nat /\ DOMAIN s = 1 .. n /\ DOMAIN t = 1 .. Len(t) /\ Len(t) \in Nat
  BY LenProperties
<1>2. Len(t) = IF p =< n THEN n ELSE n + 1
  BY DEF Promoted
<1>3. ASSUME NEW i \in 2 .. Len(t)
      PROVE  f(i) \in DOMAIN s /\ f(i) # p /\ t[i] = s[f(i)] /\ t[i] # m
  <2>1. f(i) \in DOMAIN s /\ f(i) # p
    BY <1>1, <1>2
  <2>2. t[i] = s[f(i)]
    BY DEF Promoted
  <2>3. t[i] # m
    <3> HIDE DEF f
    <3> QED
      BY <2>1, <2>2 DEF OnlyAt
  <2> QED
    BY <2>1, <2>2, <2>3
<1>4. 1 \in DOMAIN t /\ t[1] = m /\ DOMAIN t \ {1} = 2 .. Len(t)
  BY <1>1, <1>2 DEF Promoted
<1>5. ASSUME NEW i \in 2 .. Len(t), NEW j \in 2 .. Len(t), i =< j
      PROVE  \E a, b \in DOMAIN s \ {p} : a =< b /\ t[i] = s[a] /\ t[j] = s[b]
  <2>1. f(i) =< f(j)
    BY <1>1, <1>5
  <2>2. f(i) \in DOMAIN s \ {p} /\ f(j) \in DOMAIN s \ {p} /\ t[i] = s[f(i)] /\ t[j] = s[f(j)]
    BY <1>3
  <2> HIDE DEF f
  <2> QED
    BY <2>1, <2>2
<1>6. IsInjective(t)
  <2> SUFFICES ASSUME NEW i \in DOMAIN t, NEW j \in DOMAIN t, t[i] = t[j]
               PROVE  i = j
    BY DEF IsInjective
  <2>1. CASE i \in 2 .. Len(t) /\ j \in 2 .. Len(t)
    <3>1. f(i) = f(j)
      BY <1>3, <2>1 DEF IsInjective
    <3>2. f(i) # p /\ f(j) # p
      BY <1>3, <2>1
    <3> QED
      BY <2>1, <3>1, <3>2
  <2>2. CASE i = 1 \/ j = 1
    BY <1>1, <1>3, <1>4, <2>2
  <2> QED
    BY <1>1, <2>1, <2>2
<1>7. ToSet(t) = {m} \cup {s[a] : a \in DOMAIN s \ {p}}
  <2>1. ASSUME NEW a \in DOMAIN s \ {p}
        PROVE  \E i \in DOMAIN t : t[i] = s[a]
    <3> DEFINE i == IF a < p THEN a + 1 ELSE a
    <3>1. i \in 2 .. Len(t) /\ f(i) = a /\ i \in DOMAIN t
      BY <1>1, <1>2, <2>1
    <3>2. t[i] = s[a]
      BY <1>3, <3>1
    <3> QED
      BY <3>1, <3>2
  <2>2. ASSUME NEW i \in DOMAIN t
        PROVE  t[i] \in {m} \cup {s[a] : a \in DOMAIN s \ {p}}
    <3>1. CASE i = 1
      BY <1>4, <3>1
    <3>2. CASE i \in 2 .. Len(t)
      <4>1. f(i) \in DOMAIN s \ {p} /\ t[i] = s[f(i)]
        BY <1>3, <3>2
      <4> HIDE DEF f
      <4> QED
        BY <4>1
    <3> QED
      BY <1>4, <3>1, <3>2
  <2> QED
    BY <1>4, <2>1, <2>2 DEF ToSet
<1> QED
  BY <1>4, <1>5, <1>6, <1>7 DEF OrderKept

(* What a claim leaves: the ship in front with a record nobody else has,   *)
(* the others as they were, and a horizon no ship that went is beyond.     *)
Claimed(m) ==
  /\ order' \in Seq(Mmsi) /\ IsInjective(order')
  /\ slot' \in [ToSet(order') -> Slot] /\ IsInjective(slot')
  /\ 1 \in DOMAIN order' /\ order'[1] = m
  /\ \A i, j \in DOMAIN order' \ {1} : i =< j =>
       \E a, b \in DOMAIN order : a =< b /\ order'[i] = order[a] /\ order'[j] = order[b]
  /\ \A k \in ToSet(order') \ {m} :
       k \in ToSet(order) /\ slot'[k] = slot[k] /\ slot'[k] # slot'[m]
  /\ m \in ToSet(order) => slot'[m] = slot[m]
  /\ evict_horizon' \in Time /\ evict_horizon =< evict_horizon'
  /\ \A k \in ToSet(order) \ ToSet(order') : ships[slot[k]] =< evict_horizon'

LEMMA LiveIsOrder == Table!Live = ToSet(order)
BY DEF Table!Live, ToSet, Table!ToSet

LEMMA LiveNow == Table!Live' = ToSet(order')
BY DEF Table!Live, ToSet, Table!ToSet

LEMMA TableTyped ==
  ASSUME TypeOK, OneRecordEach
  PROVE  /\ order \in Seq(Mmsi) /\ IsInjective(order)
         /\ slot \in [ToSet(order) -> Slot] /\ IsInjective(slot)
         /\ ships \in [Slot -> Time] /\ evict_horizon \in Time
         /\ DOMAIN order = 1 .. Len(order) /\ Len(order) \in Nat
         /\ \A i \in DOMAIN order : order[i] \in Mmsi /\ order[i] \in ToSet(order)
<1>1. order \in Seq(Mmsi)
  BY DEF TypeOK
<1>2. DOMAIN order = 1 .. Len(order) /\ Len(order) \in Nat
  BY <1>1, LenProperties
<1>3. \A i \in DOMAIN order : order[i] \in Mmsi /\ order[i] \in ToSet(order)
  BY <1>1, <1>2, ElementOfSeq DEF ToSet
<1> QED
  BY <1>1, <1>2, <1>3 DEF TypeOK, OneRecordEach

LEMMA TouchClaims ==
  ASSUME TypeOK, OneRecordEach, NEW m \in Mmsi, Table!Touch(m), UNCHANGED evict_horizon
  PROVE  Claimed(m)
<1>1. /\ order \in Seq(Mmsi) /\ IsInjective(order)
      /\ slot \in [ToSet(order) -> Slot] /\ IsInjective(slot)
      /\ evict_horizon \in Time
      /\ DOMAIN order = 1 .. Len(order) /\ Len(order) \in Nat
  BY TableTyped
<1>2. PICK p \in DOMAIN order : order[p] = m /\ order' = <<m>> \o RemoveAt(order, p)
  BY DEF Table!Touch, Table!RemoveAt, RemoveAt
<1>3. order' \in Seq(Mmsi) /\ Promoted(order, order', m, p)
  <2>1. p \in 1 .. Len(order)
    BY <1>1
  <2>2. /\ <<m>> \o RemoveAt(order, p) \in Seq(Mmsi)
        /\ Promoted(order, <<m>> \o RemoveAt(order, p), m, p)
    BY <1>1, <2>1, PromotedFromInside
  <2> QED
    BY <1>2, <2>2, Zenon
<1>4. OnlyAt(order, m, p)
  BY <1>1, <1>2 DEF IsInjective, OnlyAt
<1>5. /\ IsInjective(order')
      /\ ToSet(order') = {m} \cup {order[a] : a \in DOMAIN order \ {p}}
      /\ 1 \in DOMAIN order' /\ order'[1] = m
      /\ \A i, j \in DOMAIN order' \ {1} : i =< j =>
           \E a, b \in DOMAIN order \ {p} : a =< b /\ order'[i] = order[a] /\ order'[j] = order[b]
  <2>1. p \in 1 .. (Len(order) + 1)
    BY <1>1
  <2>2. OrderKept(order, order', m, p)
    BY <1>1, <1>3, <1>4, <2>1, PromotedKeepsOrder, Zenon
  <2> QED
    BY <2>2 DEF OrderKept
<1>6. ToSet(order') = ToSet(order)
  <2>1. ToSet(order') = {m} \cup {order[a] : a \in DOMAIN order \ {p}}
    BY <1>5
  <2>2. ToSet(order) = {order[a] : a \in DOMAIN order}
    BY DEF ToSet
  <2> QED
    BY <1>2, <2>1, <2>2
<1>7. slot' = slot /\ evict_horizon' = evict_horizon
  BY DEF Table!Touch
<1>8. \A k \in ToSet(order') \ {m} :
        k \in ToSet(order) /\ slot'[k] = slot[k] /\ slot'[k] # slot'[m]
  <2>1. DOMAIN slot = ToSet(order) /\ m \in ToSet(order)
    BY <1>1, <1>2 DEF ToSet
  <2> QED
    BY <1>1, <1>6, <1>7, <2>1 DEF IsInjective
<1>9. /\ \A i, j \in DOMAIN order' \ {1} : i =< j =>
           \E a, b \in DOMAIN order : a =< b /\ order'[i] = order[a] /\ order'[j] = order[b]
  BY <1>5
<1>10. slot' \in [ToSet(order') -> Slot] /\ IsInjective(slot')
  BY <1>1, <1>6, <1>7
<1>11. evict_horizon' \in Time /\ evict_horizon =< evict_horizon'
  BY <1>1, <1>7, TrackerSizes DEF Time
<1> QED
  BY <1>3, <1>5, <1>6, <1>7, <1>8, <1>9, <1>10, <1>11 DEF Claimed

(* A key that comes into the table, with the record s of no one left in it.*)
LEMMA NewcomerClaims ==
  ASSUME TypeOK, OneRecordEach, NEW m \in Mmsi, m \notin ToSet(order),
         NEW p \in 1 .. (Len(order) + 1), order' \in Seq(Mmsi), Promoted(order, order', m, p),
         NEW s \in Slot,
         \A a \in DOMAIN order : slot[order[a]] = s => a = p,
         slot' = [k \in ToSet(order') |-> IF k = m THEN s ELSE slot[k]],
         p \in DOMAIN order => slot[order[p]] = s,
         evict_horizon' = IF ships[s] > evict_horizon THEN ships[s] ELSE evict_horizon
  PROVE  Claimed(m)
<1>1. /\ order \in Seq(Mmsi) /\ IsInjective(order)
      /\ slot \in [ToSet(order) -> Slot] /\ IsInjective(slot)
      /\ ships \in [Slot -> Time] /\ evict_horizon \in Time
      /\ DOMAIN order = 1 .. Len(order) /\ Len(order) \in Nat
      /\ \A a \in DOMAIN order : order[a] \in ToSet(order)
  BY TableTyped
<1>2. OnlyAt(order, m, p)
  BY <1>1 DEF OnlyAt
<1>3. /\ IsInjective(order')
      /\ ToSet(order') = {m} \cup {order[a] : a \in DOMAIN order \ {p}}
      /\ 1 \in DOMAIN order' /\ order'[1] = m
      /\ \A i, j \in DOMAIN order' \ {1} : i =< j =>
           \E a, b \in DOMAIN order \ {p} : a =< b /\ order'[i] = order[a] /\ order'[j] = order[b]
  <2>1. OrderKept(order, order', m, p)
    BY <1>1, <1>2, PromotedKeepsOrder, Zenon
  <2> QED
    BY <2>1 DEF OrderKept
<1>4. ASSUME NEW k \in ToSet(order') \ {m}
      PROVE  \E a \in DOMAIN order \ {p} : k = order[a]
  BY <1>3
<1>5. ASSUME NEW k \in ToSet(order') \ {m}
      PROVE  k \in ToSet(order) /\ slot'[k] = slot[k] /\ slot'[k] # s /\ slot[k] \in Slot
  <2>1. PICK a \in DOMAIN order \ {p} : k = order[a]
    BY <1>4
  <2>2. k \in ToSet(order) /\ slot[k] # s
    BY <1>1, <2>1
  <2>3. slot'[k] = slot[k]
    OBVIOUS
  <2> QED
    BY <1>1, <2>2, <2>3
<1>6. m \in ToSet(order') /\ slot'[m] = s
  BY <1>3
<1>7. slot' \in [ToSet(order') -> Slot]
  BY <1>5, <1>6
<1>8. IsInjective(slot')
  <2> SUFFICES ASSUME NEW j \in ToSet(order'), NEW k \in ToSet(order'), slot'[j] = slot'[k]
               PROVE  j = k
    BY <1>7 DEF IsInjective
  <2>1. CASE j = m \/ k = m
    BY <1>5, <1>6, <2>1
  <2>2. CASE j # m /\ k # m
    BY <1>1, <1>5, <2>2 DEF IsInjective
  <2> QED
    BY <2>1, <2>2
<1>9. evict_horizon' \in Time /\ evict_horizon =< evict_horizon' /\ ships[s] =< evict_horizon'
  <2>1. ships[s] \in Time
    BY <1>1
  <2> QED
    BY <1>1, <2>1, TrackerSizes DEF Time
<1>10. ASSUME NEW k \in ToSet(order) \ ToSet(order')
       PROVE  ships[slot[k]] =< evict_horizon'
  <2>1. PICK a \in DOMAIN order : k = order[a]
    BY DEF ToSet
  <2>2. a = p
    BY <1>3, <2>1
  <2> QED
    BY <1>9, <2>1, <2>2
<1>11. \A i, j \in DOMAIN order' \ {1} : i =< j =>
         \E a, b \in DOMAIN order : a =< b /\ order'[i] = order[a] /\ order'[j] = order[b]
  BY <1>3
<1>12. \A k \in ToSet(order') \ {m} :
         k \in ToSet(order) /\ slot'[k] = slot[k] /\ slot'[k] # slot'[m]
  BY <1>5, <1>6
<1> QED
  BY <1>3, <1>7, <1>8, <1>9, <1>10, <1>11, <1>12 DEF Claimed

LEMMA LastProperties ==
  ASSUME TypeOK, OneRecordEach, order # <<>>
  PROVE  /\ Len(order) \in DOMAIN order /\ Len(order) \in 1 .. Len(order)
         /\ Table!Last(order) = order[Len(order)]
         /\ Table!Front(order) = RemoveAt(order, Len(order))
<1>1. order \in Seq(Mmsi)
  BY DEF TypeOK
<1>2. Len(order) \in Nat \ {0} /\ DOMAIN order = 1 .. Len(order)
  BY <1>1, EmptySeq, LenProperties
<1>3. SubSeq(order, Len(order) + 1, Len(order)) = <<>>
  BY <1>2, SubSeqEmpty
<1>4. SubSeq(order, 1, Len(order) - 1) \in Seq(Mmsi)
  <2>1. \A i \in 1 .. (Len(order) - 1) : order[i] \in Mmsi
    <3>1. \A i \in 1 .. (Len(order) - 1) : i \in 1 .. Len(order)
      BY <1>2
    <3> QED
      BY <1>1, <3>1, ElementOfSeq
  <2> QED
    BY <1>2, <2>1, SubSeqProperties
<1>5. RemoveAt(order, Len(order)) = SubSeq(order, 1, Len(order) - 1)
  BY <1>3, <1>4, ConcatEmptySeq, Zenon DEF RemoveAt
<1> QED
  BY <1>2, <1>5 DEF Table!Last, Table!Front

LEMMA ClaimMade ==
  ASSUME TypeOK, OneRecordEach, NEW m \in Mmsi, claimShip(m)
  PROVE  Claimed(m)
<1>1. /\ order \in Seq(Mmsi) /\ IsInjective(order)
      /\ slot \in [ToSet(order) -> Slot] /\ IsInjective(slot)
      /\ ships \in [Slot -> Time] /\ evict_horizon \in Time
      /\ DOMAIN order = 1 .. Len(order) /\ Len(order) \in Nat
      /\ \A a \in DOMAIN order : order[a] \in ToSet(order)
  BY TableTyped
<1> DEFINE h == IF ships[slot'[m]] > evict_horizon THEN ships[slot'[m]] ELSE evict_horizon
<1>2. CASE Table!Touch(m) /\ UNCHANGED evict_horizon
  BY <1>2, TouchClaims
<1>3. CASE Table!Add(m) /\ evict_horizon' = h
  <2>1. m \notin ToSet(order)
    BY <1>3, LiveIsOrder DEF Table!Add
  <2>2. PICK s \in Slot \ {slot[j] : j \in ToSet(order)} :
          slot' = [j \in ToSet(order) \cup {m} |-> IF j = m THEN s ELSE slot[j]]
    BY <1>3, LiveIsOrder DEF Table!Add
  <2>3. order' = <<m>> \o order
    BY <1>3 DEF Table!Add
  <2>4. order' \in Seq(Mmsi) /\ Promoted(order, order', m, Len(order) + 1)
    BY <1>1, <2>3, PromotedFromOutside
  <2>5. ToSet(order') = ToSet(order) \cup {m}
    <3>1. OnlyAt(order, m, Len(order) + 1)
      BY <1>1, <2>1 DEF OnlyAt
    <3>2. Len(order) + 1 \in 1 .. (Len(order) + 1)
      BY <1>1
    <3>3. OrderKept(order, order', m, Len(order) + 1)
      BY <1>1, <2>4, <3>1, <3>2, PromotedKeepsOrder, Zenon
    <3>4. DOMAIN order \ {Len(order) + 1} = DOMAIN order
      BY <1>1
    <3> QED
      BY <3>3, <3>4 DEF OrderKept, ToSet
  <2>6. slot'[m] = s
    BY <2>2
  <2>7. slot' = [k \in ToSet(order') |-> IF k = m THEN s ELSE slot[k]]
    BY <2>2, <2>5, Zenon
  <2>8. \A a \in DOMAIN order : slot[order[a]] # s
    BY <1>1, <2>2
  <2>9. Len(order) + 1 \in 1 .. (Len(order) + 1) /\ Len(order) + 1 \notin DOMAIN order
    BY <1>1
  <2>10. evict_horizon' = IF ships[s] > evict_horizon THEN ships[s] ELSE evict_horizon
    BY <1>3, <2>6
  <2> QED
    BY <2>1, <2>4, <2>7, <2>8, <2>9, <2>10, NewcomerClaims
<1>4. CASE Table!Replace(m) /\ evict_horizon' = h
  <2> DEFINE p == Len(order)
             s == slot[order[p]]
  <2>1. m \notin ToSet(order) /\ {slot[j] : j \in ToSet(order)} = Slot
    BY <1>4, LiveIsOrder DEF Table!Replace
  <2>2. order # <<>>
    <3>1. order = <<>> => ToSet(order) = {}
      BY DEF ToSet
    <3> QED
      BY <2>1, <3>1, TrackerSizes
  <2>3. /\ p \in DOMAIN order /\ p \in 1 .. Len(order)
        /\ Table!Last(order) = order[p] /\ Table!Front(order) = RemoveAt(order, p)
    BY <2>2, LastProperties
  <2>4. /\ order' = <<m>> \o RemoveAt(order, p)
        /\ slot' = [j \in (ToSet(order) \ {order[p]}) \cup {m} |-> IF j = m THEN s ELSE slot[j]]
    BY <1>4, <2>3, LiveIsOrder DEF Table!Replace
  <2>5. order' \in Seq(Mmsi) /\ Promoted(order, order', m, p)
    BY <1>1, <2>3, <2>4, PromotedFromInside
  <2>6. p \in 1 .. (Len(order) + 1)
    BY <1>1, <2>3
  <2>7. ToSet(order') = (ToSet(order) \ {order[p]}) \cup {m}
    <3>1. OnlyAt(order, m, p)
      BY <1>1, <2>1 DEF OnlyAt
    <3>3. OrderKept(order, order', m, p)
      BY <1>1, <2>5, <2>6, <3>1, PromotedKeepsOrder, Zenon
    <3>4. {order[a] : a \in DOMAIN order \ {p}} = ToSet(order) \ {order[p]}
      <4> HIDE DEF p
      <4> QED
        BY <1>1, <2>3 DEF ToSet, IsInjective
    <3> QED
      BY <3>3, <3>4 DEF OrderKept
  <2>8. slot'[m] = s /\ s \in Slot
    BY <1>1, <2>3, <2>4
  <2>9. slot' = [k \in ToSet(order') |-> IF k = m THEN s ELSE slot[k]]
    BY <2>4, <2>7, Zenon
  <2>10. \A a \in DOMAIN order : slot[order[a]] = s => a = p
    <3> HIDE DEF p
    <3> QED
      BY <1>1, <2>3 DEF IsInjective
  <2>11. evict_horizon' = IF ships[s] > evict_horizon THEN ships[s] ELSE evict_horizon
    BY <1>4, <2>8
  <2> HIDE DEF p, s
  <2>12. slot[order[p]] = s
    BY DEF s
  <2> QED
    BY <2>1, <2>5, <2>6, <2>8, <2>9, <2>10, <2>11, <2>12, NewcomerClaims
<1> QED
  BY <1>2, <1>3, <1>4 DEF claimShip

LEMMA TableFits ==
  ASSUME NEW o \in Seq(Mmsi), IsInjective(o),
         NEW f \in [ToSet(o) -> Slot], IsInjective(f)
  PROVE  Len(o) =< Cardinality(Slot)
<1> DEFINE S == 1 .. Len(o)
           g == [i \in S |-> f[o[i]]]
<1>1. Len(o) \in Nat /\ DOMAIN o = S
  BY LenProperties
<1>2. ASSUME NEW i \in S
      PROVE  o[i] \in ToSet(o) /\ f[o[i]] \in Slot
  BY <1>1 DEF ToSet
<1>3. g \in Injection(S, Slot)
  <2>1. g \in [S -> Slot]
    BY <1>2
  <2>2. \A i, j \in S : g[i] = g[j] => i = j
    BY <1>1, <1>2 DEF IsInjective
  <2> QED
    BY <2>1, <2>2 DEF Injection, IsInjective
<1>4. Cardinality(S) =< Cardinality(Slot)
  <2> HIDE DEF g, S
  <2> QED
    BY <1>3, FS_Injection, TrackerSizes
<1>5. Cardinality(S) = Len(o)
  <2>1. 1 \in Int /\ Len(o) \in Int
    BY <1>1
  <2>2. Cardinality(S) = IF 1 > Len(o) THEN 0 ELSE Len(o) - 1 + 1
    BY <2>1, FS_Interval
  <2> QED
    BY <1>1, <2>2
<1> QED
  BY <1>4, <1>5

-----------------------------------------------------------------------------
(* A history's ring, whose places are start + k for k up to its length.    *)

Place(h, k) == (h.start + k) % N
Span(h) == (h.end - h.start + N) % N

LEMMA Wrapped ==
  ASSUME NEW b \in Nat \ {0}, NEW x \in 0 .. (2 * b - 1)
  PROVE  (x < b => x % b = x) /\ (~(x < b) => x % b = x - b)
OBVIOUS

LEMMA RingTyped ==
  ASSUME NEW h \in Ring
  PROVE  /\ N \in Nat /\ N >= 2
         /\ h.start \in 0 .. (N - 1) /\ h.end \in 0 .. (N - 1)
         /\ h.time \in [0 .. (N - 1) -> Time] /\ Time \subseteq Nat
BY TrackerSizes DEF Ring, Time

LEMMA PlaceIs ==
  ASSUME NEW h \in Ring, NEW k \in 0 .. N
  PROVE  /\ h.start + k < N => Place(h, k) = h.start + k
         /\ ~(h.start + k < N) => Place(h, k) = (h.start + k) - N
<1>1. N \in Nat \ {0} /\ h.start + k \in 0 .. (2 * N - 1)
  BY RingTyped
<1> QED
  BY <1>1, Wrapped, Zenon DEF Place

LEMMA SpanIs ==
  ASSUME NEW h \in Ring
  PROVE  Span(h) = IF h.end < h.start THEN h.end - h.start + N ELSE h.end - h.start
<1>1. N \in Nat \ {0} /\ h.end - h.start + N \in 0 .. (2 * N - 1)
  BY RingTyped
<1>2. /\ h.end - h.start + N < N => Span(h) = h.end - h.start + N
      /\ ~(h.end - h.start + N < N) => Span(h) = (h.end - h.start + N) - N
  BY <1>1, Wrapped, Zenon DEF Span
<1> QED
  BY <1>1, <1>2, RingTyped

LEMMA OrderedPlaces ==
  ASSUME NEW h \in Ring
  PROVE  Ordered(h) <=> \A k \in 1 .. Span(h) : h.time[Place(h, k - 1)] < h.time[Place(h, k)]
<1>1. Span(h) \in Int
  BY RingTyped, SpanIs
<1>2. \A k \in 1 .. Span(h) : h.start + k - 1 = h.start + (k - 1)
  BY <1>1, RingTyped
<1> QED
  BY <1>2 DEF Ordered, Span, Place

LEMMA IntervalTyped == \A t \in Time : Interval(t) \in Time
<1>1. ASSUME NEW t \in Nat, NEW d \in Nat \ {0}
      PROVE  t \div d \in Nat /\ t \div d =< t
  OBVIOUS
<1> QED
  BY <1>1, TrackerSizes DEF Interval, Time

LEMMA ClearedOrdered ==
  ASSUME NEW t \in Time
  PROVE  Cleared(t) \in Ring /\ Ordered(Cleared(t))
<1>1. N \in Nat /\ N >= 2 /\ 0 \in Time /\ Interval(t) \in Time
  BY IntervalTyped, TrackerSizes DEF Time
<1>2. Cleared(t) \in Ring
  BY <1>1 DEF Cleared, Ring
<1>3. Cleared(t).start = 0 /\ Cleared(t).end = 0
  BY DEF Cleared
<1>4. Span(Cleared(t)) = 0
  BY <1>2, <1>3, SpanIs
<1>5. \A k \in 1 .. Span(Cleared(t)) :
        Cleared(t).time[Place(Cleared(t), k - 1)] < Cleared(t).time[Place(Cleared(t), k)]
  BY <1>4
<1> QED
  BY <1>2, <1>5, OrderedPlaces

LEMMA EndPlace ==
  ASSUME NEW h \in Ring
  PROVE  Span(h) \in 0 .. (N - 1) /\ Place(h, Span(h)) = h.end
<1>1. N \in Nat /\ h.start \in 0 .. (N - 1) /\ h.end \in 0 .. (N - 1)
  BY RingTyped
<1>2. Span(h) = IF h.end < h.start THEN h.end - h.start + N ELSE h.end - h.start
  BY SpanIs
<1>3. Span(h) \in 0 .. (N - 1) /\ Span(h) \in 0 .. N
  BY <1>1, <1>2
<1>4. /\ h.start + Span(h) < N => Place(h, Span(h)) = h.start + Span(h)
      /\ ~(h.start + Span(h) < N) => Place(h, Span(h)) = (h.start + Span(h)) - N
  BY <1>3, PlaceIs, Zenon
<1> QED
  BY <1>1, <1>2, <1>3, <1>4

(* The place e behind the end is the start's if the ring is full, and else *)
(* nobody's.                                                               *)
LEMMA BehindTheEnd ==
  ASSUME NEW h \in Ring, NEW e, e = (h.end + 1) % N
  PROVE  /\ e \in 0 .. (N - 1)
         /\ h.start = e <=> Span(h) = N - 1
         /\ \A j \in 0 .. Span(h) : Place(h, j) = e => j = 0 /\ h.start = e
         /\ Place(h, Span(h) + 1) = e
<1> DEFINE s == h.start
           f == h.end
           L == Span(h)
<1>1. N \in Nat /\ N >= 2 /\ s \in 0 .. (N - 1) /\ f \in 0 .. (N - 1)
  BY RingTyped
<1>2. (f + 1 < N => (f + 1) % N = f + 1) /\ (~(f + 1 < N) => (f + 1) % N = (f + 1) - N)
  <2>1. N \in Nat \ {0} /\ f + 1 \in 0 .. (2 * N - 1)
    BY <1>1
  <2> QED
    BY <2>1, Wrapped, Zenon
<1>3. L = IF f < s THEN f - s + N ELSE f - s
  BY SpanIs
<1>4. ASSUME NEW j \in 0 .. N
      PROVE  (s + j < N => Place(h, j) = s + j) /\ (~(s + j < N) => Place(h, j) = (s + j) - N)
  BY PlaceIs, Zenon
<1> HIDE DEF s, f, L
<1>5. (f + 1 < N => e = f + 1) /\ (~(f + 1 < N) => e = (f + 1) - N)
  BY <1>2, Zenon DEF f
<1>6. L \in 0 .. (N - 1)
  BY <1>1, <1>3
<1>7. e \in 0 .. (N - 1) /\ (s = e <=> L = N - 1)
  BY <1>1, <1>3, <1>5
<1>8. ASSUME NEW j \in 0 .. L, Place(h, j) = e
      PROVE  j = 0 /\ s = e
  <2>1. j \in 0 .. N
    BY <1>1, <1>6
  <2>2. (s + j < N => e = s + j) /\ (~(s + j < N) => e = (s + j) - N)
    BY <1>4, <1>8, <2>1, Zenon
  <2> QED
    BY <1>1, <1>3, <1>5, <1>6, <2>2
<1>9. Place(h, L + 1) = e
  <2>1. L + 1 \in 0 .. N
    BY <1>1, <1>6
  <2>2. (s + (L + 1) < N => Place(h, L + 1) = s + (L + 1))
        /\ (~(s + (L + 1) < N) => Place(h, L + 1) = (s + (L + 1)) - N)
    BY <1>4, <2>1, Zenon
  <2> QED
    BY <1>1, <1>3, <1>5, <1>6, <2>2
<1> QED
  BY <1>7, <1>8, <1>9 DEF s, L

(* From a ring that starts x places later, the same places.                *)
LEMMA PlaceLater ==
  ASSUME NEW h \in Ring, NEW g \in Ring, NEW x \in {0, 1}, g.start = Place(h, x),
         NEW k \in 0 .. (N - x)
  PROVE  Place(g, k) = Place(h, k + x)
<1> DEFINE s == h.start
           r == g.start
<1>1. N \in Nat /\ N >= 2 /\ s \in 0 .. (N - 1) /\ r \in 0 .. (N - 1)
  BY RingTyped
<1>2. k \in 0 .. N /\ k + x \in 0 .. N /\ x \in 0 .. N /\ k \in Int /\ x \in Int
  BY <1>1
<1>3. (s + x < N => r = s + x) /\ (~(s + x < N) => r = (s + x) - N)
  BY <1>2, PlaceIs
<1>4. (r + k < N => Place(g, k) = r + k) /\ (~(r + k < N) => Place(g, k) = (r + k) - N)
  BY <1>2, PlaceIs, Zenon
<1>5. (s + (k + x) < N => Place(h, k + x) = s + (k + x))
      /\ (~(s + (k + x) < N) => Place(h, k + x) = (s + (k + x)) - N)
  BY <1>2, PlaceIs, Zenon
<1> HIDE DEF s, r
<1> QED
  BY <1>1, <1>2, <1>3, <1>4, <1>5

LEMMA PlacesDiffer ==
  ASSUME NEW h \in Ring, NEW j \in 0 .. (N - 1), NEW k \in 0 .. (N - 1), j < k
  PROVE  Place(h, j) # Place(h, k)
<1> DEFINE s == h.start
<1>1. N \in Nat /\ s \in 0 .. (N - 1) /\ j \in 0 .. N /\ k \in 0 .. N
  BY RingTyped
<1>2. /\ (s + j < N => Place(h, j) = s + j) /\ (~(s + j < N) => Place(h, j) = (s + j) - N)
      /\ (s + k < N => Place(h, k) = s + k) /\ (~(s + k < N) => Place(h, k) = (s + k) - N)
  BY <1>1, PlaceIs, Zenon
<1> HIDE DEF s
<1> QED
  BY <1>1, <1>2

LEMMA OpenedOrdered ==
  ASSUME NEW h \in Ring, NEW t \in Time, Ordered(h)
  PROVE  Opened(h, t) \in Ring /\ Ordered(Opened(h, t))
<1> DEFINE e == (h.end + 1) % N
           w == (h.start + 1) % N
           g == [start |-> IF h.start = e THEN w ELSE h.start,
                 end |-> e, time |-> [h.time EXCEPT ![e] = Interval(t)]]
           L == Span(h)
<1>1. /\ N \in Nat /\ N >= 2
      /\ h.start \in 0 .. (N - 1) /\ h.end \in 0 .. (N - 1)
      /\ h.time \in [0 .. (N - 1) -> Time] /\ Time \subseteq Nat
      /\ Interval(t) \in Time
  BY RingTyped, IntervalTyped
<1>2. /\ e \in 0 .. (N - 1)
      /\ h.start = e <=> L = N - 1
      /\ \A j \in 0 .. L : Place(h, j) = e => j = 0 /\ h.start = e
      /\ Place(h, L + 1) = e
  BY BehindTheEnd
<1>3. w = Place(h, 1) /\ h.start = Place(h, 0) /\ w \in 0 .. (N - 1)
  <2>1. w = Place(h, 1)
    BY DEF Place
  <2>2. 0 \in 0 .. N /\ 1 \in 0 .. N
    BY <1>1
  <2>3. h.start = Place(h, 0)
    BY <1>1, <2>2, PlaceIs
  <2>4. Place(h, 1) \in 0 .. (N - 1)
    BY <1>1, <2>2, PlaceIs
  <2> QED
    BY <2>1, <2>3, <2>4
<1>4. L \in 0 .. (N - 1) /\ Place(h, L) = h.end
  BY EndPlace
<1> HIDE DEF e, w, L
<1>5. CASE Newest(h) < Interval(t)
  <2> DEFINE x == IF h.start = e THEN 1 ELSE 0    \* the places given up
  <2>1. Opened(h, t) = g
    BY <1>5, Zenon DEF Opened, e, w
  <2>2. g \in Ring
    BY <1>1, <1>2, <1>3 DEF Ring
  <2>3. /\ g.start = Place(h, x) /\ g.end = e /\ g.time[e] = Interval(t)
        /\ \A i \in 0 .. (N - 1) : i # e => g.time[i] = h.time[i]
    BY <1>1, <1>2, <1>3
  <2>4. x \in {0, 1} /\ (x = 1 <=> h.start = e)
    OBVIOUS
  <2> HIDE DEF g, x
  <2>5. \A k \in 0 .. (N - x) : Place(g, k) = Place(h, k + x)
    BY <2>2, <2>3, <2>4, PlaceLater
  <2>6. Span(g) = (L + 1) - x
    <3> DEFINE n == Span(g)
    <3>1. n \in 0 .. (N - 1) /\ Place(g, n) = e
      BY <2>2, <2>3, EndPlace
    <3>2. n =< N - x
      BY <1>1, <2>4, <3>1
    <3> HIDE DEF n
    <3>3. Place(h, n + x) = e
      BY <1>1, <2>4, <2>5, <3>1, <3>2
    <3>4. n + x > L
      <4>1. n + x \in Nat
        BY <2>4, <3>1
      <4>2. ASSUME n + x =< L
            PROVE  FALSE
        <5>1. n + x = 0 /\ h.start = e
          BY <1>2, <1>4, <3>3, <4>1, <4>2
        <5> QED
          BY <2>4, <3>1, <5>1
      <4> QED
        BY <1>4, <4>1, <4>2
    <3>5. ASSUME n + x > L + 1
          PROVE  FALSE
      <4>1. (L + 1) - x \in 0 .. (N - x) /\ (L + 1) - x < n /\ ((L + 1) - x) + x = L + 1
        BY <1>1, <1>4, <2>4, <3>1, <3>5
      <4>2. Place(g, (L + 1) - x) = e
        BY <1>2, <2>5, <4>1
      <4>3. (L + 1) - x \in 0 .. (N - 1)
        BY <1>1, <1>4, <2>4, <3>1, <4>1
      <4> QED
        BY <2>2, <3>1, <4>1, <4>2, <4>3, PlacesDiffer, Zenon
    <3> QED
      BY <1>4, <2>4, <3>1, <3>4, <3>5 DEF n
  <2>7. ASSUME NEW k \in 1 .. Span(g)
        PROVE  g.time[Place(g, k - 1)] < g.time[Place(g, k)]
    <3> DEFINE j == k - 1 + x
    <3>1. j \in 0 .. L /\ k - 1 \in 0 .. (N - x) /\ k \in 0 .. (N - x) /\ k + x = j + 1
          /\ (j = 0 => x = 0)
      BY <1>1, <1>4, <2>4, <2>6
    <3>2. Place(g, k - 1) = Place(h, j) /\ Place(g, k) = Place(h, j + 1)
      BY <2>5, <3>1
    <3> HIDE DEF j
    <3>3. Place(h, j) # e
      BY <1>2, <2>4, <3>1
    <3>4. \A i \in 0 .. L : Place(h, i) \in 0 .. (N - 1)
      <4>1. \A i \in 0 .. L : i \in 0 .. N /\ i \in Int /\ i < N
        BY <1>1, <1>4
      <4> QED
        BY <1>1, <4>1, PlaceIs
    <3>5. g.time[Place(g, k - 1)] = h.time[Place(h, j)]
      BY <2>3, <3>1, <3>2, <3>3, <3>4
    <3>6. CASE j = L
      BY <1>2, <1>4, <1>5, <2>3, <3>2, <3>5, <3>6 DEF Newest
    <3>7. CASE j # L
      <4>1. j + 1 \in 1 .. L /\ j + 1 \in 0 .. L /\ (j + 1) - 1 = j /\ j + 1 # 0
        BY <1>4, <3>1, <3>7
      <4>2. h.time[Place(h, j)] < h.time[Place(h, j + 1)]
        <5>1. \A i \in 1 .. L : h.time[Place(h, i - 1)] < h.time[Place(h, i)]
          BY OrderedPlaces DEF L
        <5> QED
          BY <4>1, <5>1
      <4>3. Place(h, j + 1) # e
        BY <1>2, <4>1
      <4>4. g.time[Place(g, k)] = h.time[Place(h, j + 1)]
        BY <2>3, <3>2, <3>4, <4>1, <4>3
      <4> QED
        BY <3>5, <4>2, <4>4
    <3> QED
      BY <3>6, <3>7
  <2> QED
    BY <2>1, <2>2, <2>7, OrderedPlaces
<1>6. CASE ~(Newest(h) < Interval(t))
  BY <1>6, Zenon DEF Opened
<1> QED
  BY <1>5, <1>6

-----------------------------------------------------------------------------
(* The backup's rows.                                                      *)

LEMMA FunctionIsSeq ==
  ASSUME NEW S, NEW n \in Nat, NEW f \in [1 .. n -> S]
  PROVE  f \in Seq(S) /\ Len(f) = n
<1>1. f \in Seq(S)
  BY SeqDef
<1>2. Len(f) \in Nat /\ 1 .. Len(f) = 1 .. n
  BY <1>1, LenProperties
<1> QED
  BY <1>1, <1>2

LEMMA ReverseProperties ==
  ASSUME NEW S, NEW s \in Seq(S)
  PROVE  /\ Reverse(s) \in Seq(S) /\ Len(Reverse(s)) = Len(s)
         /\ \A i \in 1 .. Len(s) : Reverse(s)[i] = s[(Len(s) - i) + 1]
         /\ IsInjective(s) => IsInjective(Reverse(s))
<1> DEFINE n == Len(s)
<1>1. n \in Nat /\ DOMAIN s = 1 .. n
  BY LenProperties
<1>2. \A i \in 1 .. n : (n - i) + 1 \in 1 .. n
  BY <1>1
<1>3. Reverse(s) = [i \in 1 .. n |-> s[(n - i) + 1]]
  BY DEF Reverse
<1>4. \A i \in 1 .. n : Reverse(s)[i] = s[(n - i) + 1]
  BY <1>3
<1>5. Reverse(s) \in [1 .. n -> S]
  <2>1. \A i \in 1 .. n : s[(n - i) + 1] \in S
    BY <1>2, ElementOfSeq
  <2> QED
    BY <1>3, <2>1
<1>6. Reverse(s) \in Seq(S) /\ Len(Reverse(s)) = n
  BY <1>1, <1>5, FunctionIsSeq
<1>7. ASSUME IsInjective(s), NEW i \in 1 .. n, NEW j \in 1 .. n, Reverse(s)[i] = Reverse(s)[j]
      PROVE  i = j
  <2>1. (n - i) + 1 = (n - j) + 1
    BY <1>1, <1>2, <1>4, <1>7 DEF IsInjective
  <2> QED
    BY <1>1, <2>1
<1>8. IsInjective(s) => IsInjective(Reverse(s))
  BY <1>5, <1>7 DEF IsInjective
<1> QED
  BY <1>4, <1>6, <1>8

(* Time runs as the rows do, and no ship has two of them.                  *)
RowsSound(rows) ==
  /\ rows \in Seq(Row)
  /\ \A i, j \in DOMAIN rows : rows[i].mmsi = rows[j].mmsi => i = j
  /\ \A i \in DOMAIN rows : rows[i].last =< clock
  /\ Len(rows) =< Cardinality(Slot)

LEMMA ShipRowsSound ==
  ASSUME TypeOK, OneRecordEach, Clocked
  PROVE  RowsSound(ShipRows)
<1> DEFINE n == Len(order)
           old == Reverse(order)
<1>1. /\ order \in Seq(Mmsi) /\ IsInjective(order)
      /\ slot \in [ToSet(order) -> Slot] /\ IsInjective(slot)
      /\ ships \in [Slot -> Time]
      /\ n \in Nat
      /\ \A i \in DOMAIN order : order[i] \in Mmsi /\ order[i] \in ToSet(order)
      /\ DOMAIN order = 1 .. n
  BY TableTyped
<1>2. /\ old \in Seq(Mmsi) /\ Len(old) = n /\ IsInjective(old)
      /\ \A i \in 1 .. n : old[i] = order[(n - i) + 1]
  BY <1>1, ReverseProperties
<1>3. DOMAIN old = 1 .. n
  BY <1>2, LenProperties
<1>4. \A i \in 1 .. n : old[i] \in Mmsi /\ slot[old[i]] \in Slot
  <2>1. \A i \in 1 .. n : (n - i) + 1 \in 1 .. n
    BY <1>1
  <2> QED
    BY <1>1, <1>2, <2>1
<1> HIDE DEF old, n
<1>5. ShipRows = [i \in 1 .. n |-> [mmsi |-> old[i], last |-> ships[slot[old[i]]]]]
  BY <1>3 DEF ShipRows, old
<1>6. ShipRows \in [1 .. n -> Row]
  BY <1>1, <1>4, <1>5 DEF Row
<1>7. ShipRows \in Seq(Row) /\ Len(ShipRows) = n /\ DOMAIN ShipRows = 1 .. n
  BY <1>1, <1>6, FunctionIsSeq
<1>8. \A i \in 1 .. n : ShipRows[i].mmsi = old[i] /\ ShipRows[i].last = ships[slot[old[i]]]
  BY <1>5
<1>9. \A i, j \in 1 .. n : ShipRows[i].mmsi = ShipRows[j].mmsi => i = j
  BY <1>2, <1>3, <1>8 DEF IsInjective
<1>10. \A i \in 1 .. n : ShipRows[i].last =< clock
  BY <1>4, <1>8 DEF Clocked
<1>11. n =< Cardinality(Slot)
  BY <1>1, TableFits DEF n
<1> QED
  BY <1>7, <1>9, <1>10, <1>11 DEF RowsSound

(* What the table is after a restart.                                      *)
Restored ==
  /\ order' \in Seq(Mmsi) /\ IsInjective(order')
  /\ slot' \in [ToSet(order') -> Slot] /\ IsInjective(slot')
  /\ ships' \in [Slot -> Time]
  /\ \A s \in Slot : ships'[s] =< clock
  /\ \A i, j \in DOMAIN order' : i =< j => ships'[slot'[order'[j]]] =< ships'[slot'[order'[i]]]

LEMMA FreshRestores ==
  ASSUME TypeOK, Fresh
  PROVE  Restored
<1>1. order' = <<>> /\ slot' = <<>> /\ ships' = [s \in Slot |-> 0]
  BY DEF Fresh
<1>2. DOMAIN <<>> = {} /\ ToSet(<<>>) = {} /\ <<>> \in Seq(Mmsi) /\ <<>> \in [{} -> Slot]
  BY DEF ToSet
<1>3. 0 \in Time /\ 0 =< clock
  BY TrackerSizes DEF TypeOK, Time
<1>4. IsInjective(<<>>)
  BY <1>2 DEF IsInjective
<1>5. /\ ToSet(order') = {} /\ DOMAIN order' = {}
      /\ order' \in Seq(Mmsi) /\ slot' \in [{} -> Slot]
      /\ IsInjective(order') /\ IsInjective(slot')
  BY <1>1, <1>2, <1>4
<1>6. ships' \in [Slot -> Time] /\ \A s \in Slot : ships'[s] =< clock
  BY <1>1, <1>3
<1> QED
  BY <1>5, <1>6 DEF Restored

(* Induction over the naturals, for a set in place of a predicate.         *)
LEMMA LeastElement ==
  ASSUME NEW T \in SUBSET Nat, T # {}
  PROVE  \E x \in T : \A y \in T : x =< y
<1> DEFINE R == {e \in Nat \X Nat : e[1] < e[2]}
<1>1. IsWellFoundedOn(R, Nat)
  BY NatLessThanWellFounded DEF OpToRel
<1>2. \A x, y \in Nat : y < x => <<y, x>> \in R
  OBVIOUS
<1> HIDE DEF R
<1>3. PICK x \in T : \A y \in T : <<y, x>> \notin R
  BY <1>1, WFMin, Zenon
<1>4. \A y \in T : ~(y < x)
  BY <1>2, <1>3
<1> QED
  BY <1>3, <1>4

LEMMA InductionOnNat ==
  ASSUME NEW S, 0 \in S, \A n \in Nat : n \in S => n + 1 \in S
  PROVE  Nat \subseteq S
<1> SUFFICES ASSUME ~(Nat \subseteq S)
             PROVE  FALSE
  OBVIOUS
<1>1. PICK x \in Nat \ S : \A y \in Nat \ S : x =< y
  BY LeastElement
<1>2. x - 1 \in Nat
  BY <1>1
<1>3. x - 1 \in S
  BY <1>1, <1>2
<1> QED
  BY <1>1, <1>2, <1>3

(* Rows each of which is no older than the one before are sorted: if two   *)
(* were not, there would be a first pair of them, and it would be adjacent.*)
LEMMA ChronologicalThroughout ==
  ASSUME NEW rows \in Seq(Row), Chronological(rows),
         NEW i \in 1 .. Len(rows), NEW j \in 1 .. Len(rows), i =< j
  PROVE  rows[i].last =< rows[j].last
<1> DEFINE n == Len(rows)
           S == {k \in Nat : k \in i .. n => rows[i].last =< rows[k].last}
<1>1. n \in Nat /\ \A k \in 1 .. n : rows[k].last \in Nat
  <2>1. n \in Nat
    BY LenProperties
  <2>2. \A k \in 1 .. n : rows[k] \in Row
    BY ElementOfSeq
  <2> QED
    BY <2>1, <2>2, TrackerSizes DEF Row, Time
<1>2. 0 \in S
  BY <1>1
<1>3. ASSUME NEW k \in Nat, k \in S
      PROVE  k + 1 \in S
  <2> SUFFICES ASSUME k + 1 \in i .. n
               PROVE  rows[i].last =< rows[k + 1].last
    OBVIOUS
  <2>1. CASE k + 1 = i
    BY <1>1, <2>1
  <2>2. CASE k + 1 # i
    <3>1. k \in i .. n /\ k \in 1 .. (n - 1) /\ k \in 1 .. n /\ k + 1 \in 1 .. n
      BY <1>1, <2>2
    <3>2. rows[i].last =< rows[k].last
      BY <1>3, <3>1
    <3>3. rows[k].last =< rows[k + 1].last
      BY <3>1 DEF Chronological
    <3> QED
      BY <1>1, <3>1, <3>2, <3>3
  <2> QED
    BY <2>1, <2>2
<1> HIDE DEF S
<1>4. Nat \subseteq S
  BY <1>2, <1>3, InductionOnNat
<1> QED
  BY <1>1, <1>4 DEF S

LEMMA LoadRestores ==
  ASSUME TypeOK, NEW rows, RowsSound(rows), LoadShips(rows)
  PROVE  Restored
<1>1. CASE ~Chronological(rows)
  BY <1>1, FreshRestores DEF LoadShips
<1>2. CASE Chronological(rows)
  <2> DEFINE n == Len(rows)
             keys == [i \in DOMAIN rows |-> rows[i].mmsi]
             at(s) == {i \in DOMAIN rows : slot'[rows[i].mmsi] = s}
  <2>1. /\ order' = Reverse(keys)
        /\ slot' \in {f \in [ToSet(order') -> Slot] : IsInjective(f)}
        /\ ships' = [s \in Slot |-> IF at(s) = {} THEN 0 ELSE rows[CHOOSE i \in at(s) : TRUE].last]
    BY <1>2, Zenon DEF LoadShips
  <2>2. /\ rows \in Seq(Row) /\ n \in Nat /\ DOMAIN rows = 1 .. n
        /\ \A i \in 1 .. n : rows[i].mmsi \in Mmsi /\ rows[i].last \in Time
    <3>1. rows \in Seq(Row)
      BY DEF RowsSound
    <3>2. n \in Nat /\ DOMAIN rows = 1 .. n
      BY <3>1, LenProperties
    <3>3. \A i \in 1 .. n : rows[i] \in Row
      BY <3>1, <3>2, ElementOfSeq
    <3> QED
      BY <3>1, <3>2, <3>3 DEF Row
  <2>3. keys \in [1 .. n -> Mmsi]
    BY <2>2
  <2>4. keys \in Seq(Mmsi) /\ Len(keys) = n /\ DOMAIN keys = 1 .. n
    BY <2>2, <2>3, FunctionIsSeq
  <2>5. IsInjective(keys)
    BY <2>2, <2>4 DEF RowsSound, IsInjective
  <2>6. \A i \in 1 .. n : keys[i] = rows[i].mmsi
    BY <2>2
  <2> HIDE DEF keys
  <2>7. /\ order' \in Seq(Mmsi) /\ Len(order') = n /\ IsInjective(order')
        /\ \A i \in 1 .. n : order'[i] = keys[(n - i) + 1]
    <3>1. /\ Reverse(keys) \in Seq(Mmsi) /\ Len(Reverse(keys)) = n /\ IsInjective(Reverse(keys))
          /\ \A i \in 1 .. n : Reverse(keys)[i] = keys[(n - i) + 1]
      BY <2>4, <2>5, ReverseProperties
    <3> QED
      BY <2>1, <3>1
  <2>8. DOMAIN order' = 1 .. n
    BY <2>7, LenProperties
  <2>9. slot' \in [ToSet(order') -> Slot] /\ IsInjective(slot')
    BY <2>1
  <2>10. \A i \in 1 .. n : rows[i].mmsi \in ToSet(order') /\ slot'[rows[i].mmsi] \in Slot
    <3>1. \A i \in 1 .. n : (n - i) + 1 \in 1 .. n /\ (n - ((n - i) + 1)) + 1 = i
      BY <2>2
    <3>2. \A i \in 1 .. n : rows[i].mmsi = order'[(n - i) + 1]
      BY <2>6, <2>7, <3>1
    <3>3. \A i \in 1 .. n : rows[i].mmsi \in ToSet(order')
      BY <2>8, <3>1, <3>2 DEF ToSet
    <3> QED
      BY <2>9, <3>3
  <2>11. ASSUME NEW i \in 1 .. n
         PROVE  ships'[slot'[rows[i].mmsi]] = rows[i].last
    <3> DEFINE s == slot'[rows[i].mmsi]
    <3>1. s \in Slot /\ i \in at(s)
      BY <2>2, <2>10
    <3>2. \A j \in at(s) : j = i
      <4>1. \A j \in 1 .. n : slot'[rows[j].mmsi] = slot'[rows[i].mmsi] => rows[j].mmsi = rows[i].mmsi
        BY <2>9, <2>10 DEF IsInjective
      <4> QED
        BY <2>2, <4>1 DEF RowsSound
    <3>3. (CHOOSE j \in at(s) : TRUE) = i
      <4>1. at(s) = {i}
        BY <3>1, <3>2
      <4> QED
        BY <4>1
    <3>4. at(s) # {}
      BY <3>1
    <3> HIDE DEF at, s
    <3>5. ships'[s] = rows[i].last
      BY <2>1, <3>1, <3>3, <3>4
    <3> QED
      BY <3>5 DEF s
  <2>12. ASSUME NEW s \in Slot
         PROVE  ships'[s] \in Time /\ ships'[s] =< clock
    <3>1. CASE at(s) = {}
      <4>1. ships'[s] = 0
        BY <2>1, <3>1
      <4> QED
        BY <4>1, TrackerSizes DEF TypeOK, Time
    <3>2. CASE at(s) # {}
      <4>1. PICK i \in 1 .. n : slot'[rows[i].mmsi] = s
        BY <2>2, <3>2
      <4>2. ships'[s] = rows[i].last
        BY <2>11, <4>1
      <4> QED
        BY <2>2, <4>2 DEF RowsSound
    <3> QED
      BY <3>1, <3>2
  <2>13. ASSUME NEW i \in 1 .. n, NEW j \in 1 .. n, i =< j
         PROVE  rows[i].last =< rows[j].last
    BY <1>2, <2>2, <2>13, ChronologicalThroughout
  <2>14. ASSUME NEW i \in DOMAIN order', NEW j \in DOMAIN order', i =< j
         PROVE  ships'[slot'[order'[j]]] =< ships'[slot'[order'[i]]]
    <3> DEFINE a == (n - j) + 1
               b == (n - i) + 1
    <3>1. a \in 1 .. n /\ b \in 1 .. n /\ a =< b
      BY <2>2, <2>8, <2>14
    <3>2. order'[j] = rows[a].mmsi /\ order'[i] = rows[b].mmsi
      BY <2>6, <2>7, <2>8, <3>1
    <3> HIDE DEF a, b
    <3> QED
      BY <2>11, <2>13, <3>1, <3>2
  <2>15. ships' \in [Slot -> Time]
    <3> DEFINE v(s) == IF at(s) = {} THEN 0 ELSE rows[CHOOSE i \in at(s) : TRUE].last
    <3>1. ships' = [s \in Slot |-> v(s)]
      BY <2>1
    <3>2. \A s \in Slot : v(s) \in Time
      <4> HIDE DEF v
      <4>1. \A s \in Slot : ships'[s] = v(s)
        BY <3>1
      <4> QED
        BY <2>12, <4>1
    <3> HIDE DEF v
    <3> QED
      BY <3>1, <3>2
  <2> QED
    BY <2>7, <2>9, <2>12, <2>14, <2>15 DEF Restored
<1> QED
  BY <1>1, <1>2

-----------------------------------------------------------------------------
(* The steps.                                                              *)

LEMMA Claims ==
  ASSUME TypeOK, OneRecordEach, NEW r \in Receiver, DBReceive(r)
  PROVE  \E m \in Mmsi, position \in BOOLEAN, lost \in SUBSET Slot :
           /\ Claimed(m)
           /\ rx[r] \in [pc : {"stamped", "stored"}, time : Time] /\ slot'[m] \in Slot
           /\ rx' = [rx EXCEPT ![r].pc = "stored"]
           /\ ships' = [ships EXCEPT ![slot'[m]] = rx[r].time]
           /\ paths' = [Left(lost) EXCEPT ![slot'[m]] = PathAfter(m, slot'[m], position, rx[r].time)]
           /\ seen' = [seen EXCEPT ![m] = IF position /\ rx[r].time > @ THEN rx[r].time ELSE @]
           /\ overwritten' = LosersAfter(m, position, lost) /\ (~position => lost = {})
<1>1. PICK m \in Mmsi, position \in BOOLEAN, lost \in SUBSET Slot :
        /\ claimShip(m)
        /\ rx' = [rx EXCEPT ![r].pc = "stored"]
        /\ ships' = [ships EXCEPT ![slot'[m]] = rx[r].time]
        /\ paths' = [Left(lost) EXCEPT ![slot'[m]] = PathAfter(m, slot'[m], position, rx[r].time)]
        /\ seen' = [seen EXCEPT ![m] = IF position /\ rx[r].time > @ THEN rx[r].time ELSE @]
        /\ overwritten' = LosersAfter(m, position, lost) /\ (~position => lost = {})
  <2>1. PICK m \in Mmsi, position \in BOOLEAN : \E lost \in MadeRoom(position) :
          /\ claimShip(m)
          /\ rx' = [rx EXCEPT ![r].pc = "stored"]
          /\ ships' = [ships EXCEPT ![slot'[m]] = rx[r].time]
          /\ paths' = [Left(lost) EXCEPT ![slot'[m]] = PathAfter(m, slot'[m], position, rx[r].time)]
          /\ seen' = [seen EXCEPT ![m] = IF position /\ rx[r].time > @ THEN rx[r].time ELSE @]
          /\ overwritten' = LosersAfter(m, position, lost)
    BY Zenon DEF DBReceive, Left, LosersAfter
  <2>2. \A lost \in MadeRoom(position) : lost \in SUBSET Slot /\ (~position => lost = {})
    BY DEF MadeRoom
  <2> QED
    BY <2>1, <2>2, Zenon
<1>2. Claimed(m)
  BY <1>1, ClaimMade
<1>3. rx[r] \in [pc : {"stamped", "stored"}, time : Time]
  BY DEF DBReceive, TypeOK
<1>4. slot'[m] \in Slot
  <2>1. m \in ToSet(order')
    BY <1>2 DEF Claimed, ToSet
  <2> QED
    BY <1>2, <2>1 DEF Claimed
<1> QED
  BY <1>1, <1>2, <1>3, <1>4, Zenon

LEMMA PathTyped ==
  ASSUME TypeOK, NEW m \in Mmsi, NEW s \in Slot, NEW position \in BOOLEAN, NEW t \in Time
  PROVE  PathAfter(m, s, position, t) \in {None} \cup [owner : Mmsi, end : Time]
<1> DEFINE kept == IF m \in Table!Live THEN paths[s] ELSE None
<1>1. kept \in {None} \cup [owner : Mmsi, end : Time]
  BY DEF TypeOK
<1>2. PathAfter(m, s, position, t) =
        IF ~position THEN kept
        ELSE IF kept # None
             THEN [kept EXCEPT !.end = IF t > @ THEN t ELSE @]
             ELSE [owner |-> m, end |-> t]
  BY Zenon DEF PathAfter
<1> HIDE DEF kept
<1>3. kept # None => [kept EXCEPT !.end = IF t > @ THEN t ELSE @] \in [owner : Mmsi, end : Time]
  BY <1>1
<1>4. [owner |-> m, end |-> t] \in [owner : Mmsi, end : Time]
  OBVIOUS
<1> QED
  BY <1>1, <1>2, <1>3, <1>4

LEMMA DBReceiveTyped ==
  ASSUME TypeOK, OneRecordEach, NEW r \in Receiver, DBReceive(r)
  PROVE  TypeOK' /\ OneRecordEach'
<1>1. PICK m \in Mmsi, position \in BOOLEAN, lost \in SUBSET Slot :
        /\ Claimed(m)
        /\ rx[r] \in [pc : {"stamped", "stored"}, time : Time] /\ slot'[m] \in Slot
        /\ rx' = [rx EXCEPT ![r].pc = "stored"]
        /\ ships' = [ships EXCEPT ![slot'[m]] = rx[r].time]
        /\ paths' = [Left(lost) EXCEPT ![slot'[m]] = PathAfter(m, slot'[m], position, rx[r].time)]
        /\ seen' = [seen EXCEPT ![m] = IF position /\ rx[r].time > @ THEN rx[r].time ELSE @]
        /\ overwritten' = LosersAfter(m, position, lost) /\ (~position => lost = {})
  BY Claims
<1> DEFINE s == slot'[m]
           t == rx[r].time
           P == PathAfter(m, s, position, t)
<1>2. s \in Slot /\ t \in Time
  BY <1>1
<1>3. /\ order' \in Seq(Mmsi) /\ IsInjective(order')
      /\ slot' \in [ToSet(order') -> Slot] /\ IsInjective(slot')
      /\ evict_horizon' \in Time
  BY <1>1 DEF Claimed
<1>4. Len(order') =< Cardinality(Slot)
  BY <1>3, TableFits
<1>5. P \in {None} \cup [owner : Mmsi, end : Time]
  BY <1>2, PathTyped
<1> HIDE DEF s, t, P
<1>6. ships' \in [Slot -> Time]
  BY <1>1, <1>2 DEF TypeOK, s, t
<1>7. paths' \in [Slot -> {None} \cup [owner : Mmsi, end : Time]]
  <2>1. paths' = [Left(lost) EXCEPT ![s] = P]
    BY <1>1 DEF s, t, P
  <2>2. Left(lost) \in [Slot -> {None} \cup [owner : Mmsi, end : Time]]
    BY DEF Left, TypeOK
  <2> QED
    BY <1>2, <1>5, <2>1, <2>2
<1>8. rx' \in [Receiver -> {None} \cup [pc : {"stamped", "stored"}, time : Time]]
  <2>1. [rx[r] EXCEPT !.pc = "stored"] \in [pc : {"stamped", "stored"}, time : Time]
    BY <1>1
  <2>2. rx' = [rx EXCEPT ![r] = [rx[r] EXCEPT !.pc = "stored"]]
    BY <1>1
  <2> QED
    BY <2>1, <2>2 DEF TypeOK
<1>9. seen' \in [Mmsi -> Time]
  <2>1. seen' = [seen EXCEPT ![m] = IF position /\ t > seen[m] THEN t ELSE seen[m]]
    BY <1>1 DEF t
  <2> QED
    BY <1>2, <2>1 DEF TypeOK
<1>10. UNCHANGED <<clock, history, messages, saving, backup>>
  BY DEF DBReceive
<1>11. overwritten' \subseteq Table!Live'
  BY <1>1, LiveNow DEF LosersAfter
<1> QED
  BY <1>3, <1>4, <1>6, <1>7, <1>8, <1>9, <1>10, <1>11 DEF TypeOK, OneRecordEach

LEMMA RestartTyped ==
  ASSUME TypeOK, BackupSound, Restart
  PROVE  TypeOK' /\ Restored
<1>1. Restored /\ history' \in Ring
  <2>1. CASE backup = None
    <3>1. Fresh /\ history' = Cleared(clock)
      BY <2>1, Zenon DEF Restart
    <3> QED
      BY <3>1, FreshRestores, ClearedOrdered DEF TypeOK
  <2>2. CASE backup # None
    <3>1. LoadShips(backup.rows) /\ history' = backup.ring
      BY <2>2, Zenon DEF Restart
    <3>2. backup \in [ring : Ring, rows : Seq(Row)]
      BY <2>2 DEF TypeOK
    <3>3. RowsSound(backup.rows)
      BY <2>2, <3>2 DEF BackupSound, RowsSound
    <3> QED
      BY <3>1, <3>2, <3>3, LoadRestores
  <2> QED
    BY <2>1, <2>2
<1>2. 0 \in Time
  BY TrackerSizes DEF Time
<1>3. /\ paths' = [s \in Slot |-> None] /\ evict_horizon' = 0 /\ rx' = [r \in Receiver |-> None]
      /\ saving' = None /\ seen' = [m \in Mmsi |-> 0] /\ overwritten' = {}
      /\ UNCHANGED <<clock, messages, backup>>
  BY DEF Restart
<1>4. /\ order' \in Seq(Mmsi) /\ Len(order') =< Cardinality(Slot)
      /\ slot' \in [ToSet(order') -> Slot] /\ ships' \in [Slot -> Time]
  BY <1>1, TableFits DEF Restored
<1>5. /\ paths' \in [Slot -> {None} \cup [owner : Mmsi, end : Time]]
      /\ rx' \in [Receiver -> {None} \cup [pc : {"stamped", "stored"}, time : Time]]
      /\ seen' \in [Mmsi -> Time] /\ evict_horizon' \in Time /\ saving' \in {None} \cup Ring
      /\ overwritten' \subseteq Table!Live'
  BY <1>2, <1>3
<1>6. clock' \in Time /\ messages' \in 0 .. MaxMessages
      /\ backup' \in {None} \cup [ring : Ring, rows : Seq(Row)]
  BY <1>3 DEF TypeOK
<1> QED
  BY <1>1, <1>4, <1>5, <1>6 DEF TypeOK

LEMMA TypeStep ==
  /\ TypeOK /\ OneRecordEach /\ Clocked /\ RingOrdered /\ BackupSound /\ [Next]_vars
  => TypeOK' /\ OneRecordEach'
<1> SUFFICES ASSUME TypeOK, OneRecordEach, Clocked, RingOrdered, BackupSound, [Next]_vars
             PROVE  TypeOK' /\ OneRecordEach'
  OBVIOUS
<1>1. ASSUME NEW r \in Receiver, Stamp(r)
      PROVE  TypeOK' /\ OneRecordEach'
  <2>1. messages' \in 0 .. MaxMessages
    BY <1>1, TrackerSizes DEF Stamp, TypeOK
  <2>2. rx' \in [Receiver -> {None} \cup [pc : {"stamped", "stored"}, time : Time]]
    BY <1>1 DEF Stamp, TypeOK
  <2> QED
    BY <1>1, <2>1, <2>2 DEF Stamp, TypeOK, OneRecordEach, db, Table!Live, Table!ToSet
<1>2. ASSUME NEW r \in Receiver, DBReceive(r)
      PROVE  TypeOK' /\ OneRecordEach'
  BY <1>2, DBReceiveTyped
<1>3. ASSUME NEW r \in Receiver, HistoryReceive(r)
      PROVE  TypeOK' /\ OneRecordEach'
  <2>1. rx[r].time \in Time /\ history \in Ring /\ Ordered(history)
    BY <1>3 DEF HistoryReceive, TypeOK, RingOrdered, Ordered
  <2>2. history' \in Ring
    BY <1>3, <2>1, OpenedOrdered DEF HistoryReceive
  <2>3. rx' \in [Receiver -> {None} \cup [pc : {"stamped", "stored"}, time : Time]]
    BY <1>3 DEF HistoryReceive, TypeOK
  <2> QED
    BY <1>3, <2>2, <2>3 DEF HistoryReceive, TypeOK, OneRecordEach, db, Table!Live, Table!ToSet
<1>4. CASE Tick
  <2>1. clock' \in Time
    BY <1>4, TrackerSizes DEF Tick, TypeOK, Time
  <2> QED
    BY <1>4, <2>1 DEF Tick, TypeOK, OneRecordEach, db, Table!Live, Table!ToSet
<1>5. CASE SaveHistory
  <2>1. saving' \in {None} \cup Ring
    BY <1>5 DEF SaveHistory, TypeOK
  <2> QED
    BY <1>5, <2>1 DEF SaveHistory, TypeOK, OneRecordEach, db, Table!Live, Table!ToSet
<1>6. CASE SaveShips
  <2>1. backup' \in {None} \cup [ring : Ring, rows : Seq(Row)] /\ saving' \in {None} \cup Ring
    <3>1. ShipRows \in Seq(Row) /\ saving \in Ring
      BY <1>6, ShipRowsSound DEF SaveShips, TypeOK, RowsSound
    <3> QED
      BY <1>6, <3>1 DEF SaveShips
  <2>2. UNCHANGED <<clock, db, history, rx, messages, seen, overwritten>>
    BY <1>6 DEF SaveShips
  <2> QED
    BY <2>1, <2>2 DEF TypeOK, OneRecordEach, db, Table!Live, Table!ToSet
<1>7. CASE SaveFails
  BY <1>7 DEF SaveFails, TypeOK, OneRecordEach, db, Table!Live, Table!ToSet
<1>8. CASE Restart
  BY <1>8, RestartTyped DEF Restored, OneRecordEach
<1>9. CASE UNCHANGED vars
  BY <1>9 DEF vars, TypeOK, OneRecordEach, db, Table!Live, Table!ToSet
<1> QED
  BY <1>1, <1>2, <1>3, <1>4, <1>5, <1>6, <1>7, <1>8, <1>9 DEF Next

LEMMA ClockedStep ==
  TypeOK /\ OneRecordEach /\ Clocked /\ BackupSound /\ [Next]_vars => Clocked'
<1> SUFFICES ASSUME TypeOK, OneRecordEach, Clocked, BackupSound, [Next]_vars
             PROVE  Clocked'
  OBVIOUS
<1>t. /\ clock \in Nat /\ MaxLag \in Nat /\ ships \in [Slot -> Nat] /\ seen \in [Mmsi -> Nat]
      /\ rx \in [Receiver -> {None} \cup [pc : {"stamped", "stored"}, time : Time]]
      /\ \A t \in Time : t \in Nat
  BY TrackerSizes DEF TypeOK, Time
<1>1. ASSUME NEW r \in Receiver, Stamp(r)
      PROVE  Clocked'
  <2>1. rx' = [rx EXCEPT ![r] = [pc |-> "stamped", time |-> clock]] /\ UNCHANGED <<clock, ships, seen>>
    BY <1>1 DEF Stamp, db
  <2>2. \A q \in Receiver : rx'[q] = rx[q] \/ rx'[q].time = clock
    BY <1>t, <2>1
  <2> QED
    BY <1>t, <2>1, <2>2 DEF Clocked
<1>2. ASSUME NEW r \in Receiver, DBReceive(r)
      PROVE  Clocked'
  <2>1. PICK m \in Mmsi, position \in BOOLEAN, lost \in SUBSET Slot :
          /\ Claimed(m)
          /\ rx[r] \in [pc : {"stamped", "stored"}, time : Time] /\ slot'[m] \in Slot
          /\ rx' = [rx EXCEPT ![r].pc = "stored"]
          /\ ships' = [ships EXCEPT ![slot'[m]] = rx[r].time]
          /\ paths' = [Left(lost) EXCEPT ![slot'[m]] = PathAfter(m, slot'[m], position, rx[r].time)]
          /\ seen' = [seen EXCEPT ![m] = IF position /\ rx[r].time > @ THEN rx[r].time ELSE @]
          /\ overwritten' = LosersAfter(m, position, lost) /\ (~position => lost = {})
    BY <1>2, Claims
  <2>2. rx[r].time =< clock /\ clock' = clock /\ rx[r] # None
    BY <1>2 DEF DBReceive, Clocked
  <2>3. \A s \in Slot : ships'[s] =< clock
    BY <1>t, <2>1, <2>2 DEF Clocked
  <2>4. \A q \in Mmsi : seen'[q] =< clock
    BY <1>t, <2>1, <2>2 DEF Clocked
  <2>5. \A q \in Receiver : rx'[q] # None => rx[q] # None /\ rx'[q].time = rx[q].time
    <3>1. rx' = [rx EXCEPT ![r] = [rx[r] EXCEPT !.pc = "stored"]]
      BY <2>1
    <3>2. rx'[r] = [rx[r] EXCEPT !.pc = "stored"] /\ rx'[r].time = rx[r].time
      BY <1>t, <2>1, <3>1
    <3>3. \A q \in Receiver : q # r => rx'[q] = rx[q]
      BY <1>t, <3>1
    <3> QED
      BY <2>2, <3>2, <3>3
  <2>6. \A q \in Receiver : rx'[q] # None => rx'[q].time =< clock /\ clock =< rx'[q].time + MaxLag
    BY <2>5 DEF Clocked
  <2> QED
    BY <2>2, <2>3, <2>4, <2>6 DEF Clocked
<1>3. ASSUME NEW r \in Receiver, HistoryReceive(r)
      PROVE  Clocked'
  <2>1. rx' = [rx EXCEPT ![r] = None] /\ UNCHANGED <<clock, ships, seen>>
    BY <1>3 DEF HistoryReceive, db
  <2>2. \A q \in Receiver : rx'[q] = rx[q] \/ rx'[q] = None
    BY <1>t, <2>1
  <2> QED
    BY <2>1, <2>2 DEF Clocked
<1>4. CASE Tick
  <2>1. /\ clock' = clock + 1 /\ UNCHANGED <<ships, rx, seen>>
        /\ \A r \in Receiver : rx[r] # None => clock + 1 - rx[r].time =< MaxLag
    BY <1>4 DEF Tick, db
  <2>2. \A r \in Receiver : rx[r] # None => rx[r].time \in Nat
    BY <1>t
  <2>3. \A r \in Receiver : rx[r] # None =>
          rx[r].time =< clock + 1 /\ clock + 1 =< rx[r].time + MaxLag
    BY <1>t, <2>1, <2>2 DEF Clocked
  <2>4. (\A s \in Slot : ships[s] =< clock + 1) /\ (\A m \in Mmsi : seen[m] =< clock + 1)
    BY <1>t DEF Clocked
  <2> QED
    BY <2>1, <2>3, <2>4 DEF Clocked
<1>5. CASE SaveHistory \/ SaveShips \/ SaveFails \/ UNCHANGED vars
  <2>1. UNCHANGED <<clock, ships, rx, seen>>
    BY <1>5 DEF SaveHistory, SaveShips, SaveFails, vars, db
  <2> QED
    BY <2>1 DEF Clocked
<1>6. CASE Restart
  <2>1. \A s \in Slot : ships'[s] =< clock
    BY <1>6, RestartTyped DEF Restored
  <2>2. seen' = [m \in Mmsi |-> 0] /\ rx' = [r \in Receiver |-> None] /\ clock' = clock
    BY <1>6 DEF Restart
  <2> QED
    BY <1>t, <2>1, <2>2 DEF Clocked
<1> QED
  BY <1>1, <1>2, <1>3, <1>4, <1>5, <1>6 DEF Next

LEMMA NearlyOrderedStep ==
  TypeOK /\ OneRecordEach /\ Clocked /\ NearlyOrdered /\ BackupSound /\ [Next]_vars
  => NearlyOrdered'
<1> SUFFICES ASSUME TypeOK, OneRecordEach, Clocked, NearlyOrdered, BackupSound, [Next]_vars
             PROVE  NearlyOrdered'
  OBVIOUS
<1>t. /\ clock \in Nat /\ MaxLag \in Nat /\ ships \in [Slot -> Nat] /\ seen \in [Mmsi -> Nat]
      /\ \A t \in Time : t \in Nat
  BY TrackerSizes DEF TypeOK, Time
<1>1. ASSUME NEW r \in Receiver, DBReceive(r)
      PROVE  NearlyOrdered'
  <2>1. PICK m \in Mmsi, position \in BOOLEAN, lost \in SUBSET Slot :
          /\ Claimed(m)
          /\ rx[r] \in [pc : {"stamped", "stored"}, time : Time] /\ slot'[m] \in Slot
          /\ rx' = [rx EXCEPT ![r].pc = "stored"]
          /\ ships' = [ships EXCEPT ![slot'[m]] = rx[r].time]
          /\ paths' = [Left(lost) EXCEPT ![slot'[m]] = PathAfter(m, slot'[m], position, rx[r].time)]
          /\ seen' = [seen EXCEPT ![m] = IF position /\ rx[r].time > @ THEN rx[r].time ELSE @]
          /\ overwritten' = LosersAfter(m, position, lost) /\ (~position => lost = {})
    BY <1>1, Claims
  <2> DEFINE t == rx[r].time
             s == slot'[m]
  <2>2. t \in Nat /\ clock =< t + MaxLag /\ clock' = clock /\ s \in Slot
    BY <1>1, <1>t, <2>1 DEF DBReceive, Clocked
  <2>3. Clocked'
    BY ClockedStep
  <2>4. /\ order' \in Seq(Mmsi) /\ slot' \in [ToSet(order') -> Slot] /\ order'[1] = m
        /\ IsInjective(order') /\ 1 \in DOMAIN order'
        /\ \A i, j \in DOMAIN order' \ {1} : i =< j =>
             \E a, b \in DOMAIN order : a =< b /\ order'[i] = order[a] /\ order'[j] = order[b]
        /\ \A k \in ToSet(order') \ {m} : slot'[k] = slot[k] /\ slot'[k] # s
    BY <2>1 DEF Claimed
  <2>5. ships'[s] = t
    BY <1>t, <2>1
  <2>6. \A k \in ToSet(order') \ {m} : ships'[slot'[k]] = ships[slot[k]] /\ seen'[k] = seen[k]
    <3>1. \A x \in Slot : x # s => ships'[x] = ships[x]
      BY <1>t, <2>1
    <3>2. \A k \in Mmsi : k # m => seen'[k] = seen[k]
      BY <1>t, <2>1
    <3>3. \A k \in ToSet(order') : k \in Mmsi /\ slot'[k] \in Slot
      <4>1. \A i \in DOMAIN order' : order'[i] \in Mmsi
        BY <2>4, LenProperties, ElementOfSeq
      <4> QED
        BY <2>4, <4>1 DEF ToSet
    <3> QED
      BY <2>4, <3>1, <3>2, <3>3
  <2>7. \A i \in DOMAIN order' : order'[i] \in ToSet(order') /\ order'[i] \in Mmsi /\ slot'[order'[i]] \in Slot
    <3>1. \A i \in DOMAIN order' : order'[i] \in Mmsi
      BY <2>4, LenProperties, ElementOfSeq
    <3>2. \A i \in DOMAIN order' : order'[i] \in ToSet(order')
      BY DEF ToSet
    <3> QED
      BY <2>4, <3>1, <3>2
  <2>8. \A i \in DOMAIN order' \ {1} : order'[i] # m
    BY <2>4 DEF IsInjective
  <2>9. DOMAIN order' \subseteq Nat \ {0}
    BY <2>4, LenProperties
  <2> HIDE DEF s, t
  <2>10. ASSUME NEW i \in DOMAIN order', NEW j \in DOMAIN order', i =< j
         PROVE  /\ ships'[slot'[order'[j]]] =< ships'[slot'[order'[i]]] + MaxLag
                /\ seen'[order'[j]] =< ships'[slot'[order'[i]]] + MaxLag
    <3>1. CASE i = 1
      <4>1. ships'[slot'[order'[i]]] = t
        BY <2>4, <2>5, <3>1 DEF s
      <4>2. ships'[slot'[order'[j]]] =< clock /\ seen'[order'[j]] =< clock
        BY <2>2, <2>3, <2>7 DEF Clocked
      <4>3. ships'[slot'[order'[j]]] \in Nat /\ seen'[order'[j]] \in Nat
        <5>1. ships' \in [Slot -> Nat]
          BY <1>t, <2>1
        <5>2. seen' \in [Mmsi -> Nat]
          BY <1>t, <2>1
        <5> QED
          BY <2>7, <5>1, <5>2
      <4> QED
        BY <1>t, <2>2, <4>1, <4>2, <4>3
    <3>2. CASE i # 1
      <4>1. j # 1
        BY <2>9, <2>10, <3>2
      <4>2. PICK a, b \in DOMAIN order : a =< b /\ order'[i] = order[a] /\ order'[j] = order[b]
        BY <2>4, <2>10, <3>2, <4>1
      <4>3. /\ ships[slot[order[b]]] =< ships[slot[order[a]]] + MaxLag
            /\ seen[order[b]] =< ships[slot[order[a]]] + MaxLag
        BY <4>2 DEF NearlyOrdered
      <4>4. order'[i] \in ToSet(order') \ {m} /\ order'[j] \in ToSet(order') \ {m}
        BY <2>7, <2>8, <3>2, <4>1
      <4> QED
        BY <2>6, <4>2, <4>3, <4>4
    <3> QED
      BY <3>1, <3>2
  <2> QED
    BY <2>10 DEF NearlyOrdered
<1>2. CASE \/ \E r \in Receiver : Stamp(r) \/ HistoryReceive(r)
           \/ Tick \/ SaveHistory \/ SaveShips \/ SaveFails \/ UNCHANGED vars
  <2>1. UNCHANGED <<order, slot, ships, seen>>
    BY <1>2 DEF Stamp, HistoryReceive, Tick, SaveHistory, SaveShips, SaveFails, vars, db
  <2> QED
    BY <2>1 DEF NearlyOrdered
<1>3. CASE Restart
  <2>1. Restored
    BY <1>3, RestartTyped
  <2>2. seen' = [m \in Mmsi |-> 0]
    BY <1>3 DEF Restart
  <2>3. \A i \in DOMAIN order' : order'[i] \in Mmsi /\ ships'[slot'[order'[i]]] \in Nat
    <3>1. order' \in Seq(Mmsi) /\ slot' \in [ToSet(order') -> Slot] /\ ships' \in [Slot -> Time]
      BY <2>1 DEF Restored
    <3>2. \A i \in DOMAIN order' : order'[i] \in Mmsi
      BY <3>1, LenProperties, ElementOfSeq
    <3>3. \A i \in DOMAIN order' : order'[i] \in ToSet(order')
      BY DEF ToSet
    <3> QED
      BY <1>t, <3>1, <3>2, <3>3
  <2>4. \A i \in DOMAIN order' : seen'[order'[i]] = 0
    BY <2>2, <2>3
  <2>5. \A i, j \in DOMAIN order' : i =< j =>
          ships'[slot'[order'[j]]] =< ships'[slot'[order'[i]]]
    BY <2>1 DEF Restored
  <2> QED
    BY <1>t, <2>3, <2>4, <2>5 DEF NearlyOrdered
<1> QED
  BY <1>1, <1>2, <1>3 DEF Next

(* What addToPath() makes of the track that the claimed record has kept.   *)
LEMMA PathGrows ==
  ASSUME TypeOK, NEW m \in Mmsi, NEW s \in Slot, NEW position \in BOOLEAN, NEW t \in Time,
         NEW kept, kept = IF m \in ToSet(order) THEN paths[s] ELSE None,
         NEW P, P = PathAfter(m, s, position, t)
  PROVE  /\ ~position => P = kept
         /\ position => P # None /\ P.end >= t
         /\ kept # None => P # None /\ P.owner = kept.owner /\ P.end >= kept.end
         /\ kept = None /\ P # None => P.owner = m
<1>1. kept \in {None} \cup [owner : Mmsi, end : Time]
  BY DEF TypeOK
<1>2. P = IF ~position THEN kept
          ELSE IF kept # None
               THEN [kept EXCEPT !.end = IF t > @ THEN t ELSE @]
               ELSE [owner |-> m, end |-> t]
  BY LiveIsOrder, Zenon DEF PathAfter
<1>3. \A x \in Time : x \in Nat
  BY TrackerSizes DEF Time
<1>4. [owner |-> m, end |-> t] # None
  BY DEF None
<1>5. ASSUME kept # None
      PROVE  /\ kept \in [owner : Mmsi, end : Time] /\ kept.end \in Nat
             /\ [kept EXCEPT !.end = IF t > @ THEN t ELSE @] \in [owner : Mmsi, end : Time]
             /\ [kept EXCEPT !.end = IF t > @ THEN t ELSE @].owner = kept.owner
             /\ [kept EXCEPT !.end = IF t > @ THEN t ELSE @].end =
                  IF t > kept.end THEN t ELSE kept.end
  BY <1>1, <1>3, <1>5
<1>6. None \notin [owner : Mmsi, end : Time]
  BY DEF None
<1>7. CASE ~position
  <2>1. P = kept
    BY <1>2, <1>7
  <2> QED
    BY <1>3, <1>5, <1>7, <2>1
<1>8. CASE position /\ kept = None
  <2>1. P = [owner |-> m, end |-> t]
    BY <1>2, <1>8
  <2>2. P # None /\ P.owner = m /\ P.end >= t
    BY <1>3, <1>4, <2>1
  <2> QED
    BY <1>8, <2>2, Zenon
<1>9. CASE position /\ kept # None
  <2>1. P = [kept EXCEPT !.end = IF t > @ THEN t ELSE @]
    BY <1>2, <1>9
  <2>2. P # None /\ P.owner = kept.owner
    BY <1>5, <1>6, <1>9, <2>1
  <2>3. P.end >= t /\ P.end >= kept.end
    <3>1. P.end = IF t > kept.end THEN t ELSE kept.end
      BY <1>5, <1>9, <2>1
    <3>2. t \in Nat /\ kept.end \in Nat
      BY <1>3, <1>5, <1>9
    <3> DEFINE e == kept.end
               f == P.end
    <3>3. e \in Nat /\ f = IF t > e THEN t ELSE e
      BY <3>1, <3>2
    <3> HIDE DEF e, f
    <3>4. f >= t /\ f >= e
      BY <3>2, <3>3
    <3> QED
      BY <3>4 DEF e, f
  <2> QED
    BY <1>9, <2>2, <2>3, Zenon
<1> QED
  BY <1>7, <1>8, <1>9

(* The tracks after a claim: a ship's that stays in the table is its own,  *)
(* and only the claimant's is changed.                                     *)
LEMMA PathsClaimed ==
  ASSUME TypeOK, OneRecordEach, NEW m \in Mmsi, Claimed(m), slot'[m] \in Slot,
         NEW lost,
         \A s \in Slot : s # slot'[m] => paths'[s] = IF s \in lost THEN None ELSE paths[s]
  PROVE  /\ m \in ToSet(order')
         /\ m \in ToSet(order) => slot[m] = slot'[m]
         /\ \A k \in ToSet(order') \ {m} :
              /\ k \in ToSet(order) /\ slot'[k] = slot[k]
              /\ slot'[k] \in Slot
              /\ paths'[slot'[k]] = IF slot'[k] \in lost THEN None ELSE paths[slot[k]]
<1>1. /\ slot' \in [ToSet(order') -> Slot]
      /\ 1 \in DOMAIN order' /\ order'[1] = m
      /\ \A k \in ToSet(order') \ {m} :
           k \in ToSet(order) /\ slot'[k] = slot[k] /\ slot'[k] # slot'[m]
      /\ m \in ToSet(order) => slot'[m] = slot[m]
  BY DEF Claimed
<1>2. m \in ToSet(order')
  BY <1>1 DEF ToSet
<1> QED
  BY <1>1, <1>2

LEMMA TrackOwnedStep ==
  TypeOK /\ OneRecordEach /\ BackupSound /\ TrackOwned /\ [Next]_vars => TrackOwned'
<1> SUFFICES ASSUME TypeOK, OneRecordEach, BackupSound, TrackOwned, [Next]_vars
             PROVE  TrackOwned'
  OBVIOUS
<1>t. /\ \A k \in ToSet(order) : paths[slot[k]] # None => paths[slot[k]].owner = k
      /\ Table!Live' = ToSet(order')
  BY LiveIsOrder DEF TrackOwned, Table!Live, ToSet, Table!ToSet
<1>1. ASSUME NEW r \in Receiver, DBReceive(r)
      PROVE  TrackOwned'
  <2>1. PICK m \in Mmsi, position \in BOOLEAN, lost \in SUBSET Slot :
          /\ Claimed(m)
          /\ rx[r] \in [pc : {"stamped", "stored"}, time : Time] /\ slot'[m] \in Slot
          /\ rx' = [rx EXCEPT ![r].pc = "stored"]
          /\ ships' = [ships EXCEPT ![slot'[m]] = rx[r].time]
          /\ paths' = [Left(lost) EXCEPT ![slot'[m]] = PathAfter(m, slot'[m], position, rx[r].time)]
          /\ seen' = [seen EXCEPT ![m] = IF position /\ rx[r].time > @ THEN rx[r].time ELSE @]
          /\ overwritten' = LosersAfter(m, position, lost) /\ (~position => lost = {})
    BY <1>1, Claims
  <2> DEFINE t == rx[r].time
             P == PathAfter(m, slot'[m], position, t)
             kept == IF m \in ToSet(order) THEN paths[slot'[m]] ELSE None
  <2>2. t \in Time
    BY <2>1
  <2>3. /\ m \in ToSet(order') /\ paths'[slot'[m]] = P
        /\ m \in ToSet(order) => slot[m] = slot'[m]
        /\ \A k \in ToSet(order') \ {m} :
             /\ k \in ToSet(order) /\ slot'[k] = slot[k]
             /\ slot'[k] \in Slot
             /\ paths'[slot'[k]] = IF slot'[k] \in lost THEN None ELSE paths[slot[k]]
    <3>1. paths' = [Left(lost) EXCEPT ![slot'[m]] = P] /\ Claimed(m) /\ slot'[m] \in Slot
      BY <2>1
    <3> HIDE DEF t, P
    <3>2. /\ paths'[slot'[m]] = P
          /\ \A s \in Slot : s # slot'[m] => paths'[s] = IF s \in lost THEN None ELSE paths[s]
      BY <3>1 DEF Left
    <3> QED
      BY <3>1, <3>2, PathsClaimed
  <2>4. /\ kept # None => P # None /\ P.owner = kept.owner
        /\ kept = None /\ P # None => P.owner = m
    <3> HIDE DEF t
    <3> QED
      BY <2>1, <2>2, PathGrows
  <2>5. kept # None => kept.owner = m
    BY <1>t, <2>3
  <2> HIDE DEF t, P, kept
  <2>6. paths'[slot'[m]] # None => paths'[slot'[m]].owner = m
    BY <2>3, <2>4, <2>5
  <2>7. \A k \in ToSet(order') \ {m} : paths'[slot'[k]] # None => paths'[slot'[k]].owner = k
    BY <1>t, <2>3
  <2> QED
    BY <1>t, <2>6, <2>7 DEF TrackOwned
<1>2. CASE \/ \E r \in Receiver : Stamp(r) \/ HistoryReceive(r)
           \/ Tick \/ SaveHistory \/ SaveShips \/ SaveFails \/ UNCHANGED vars
  <2>1. UNCHANGED <<order, slot, paths>>
    BY <1>2 DEF Stamp, HistoryReceive, Tick, SaveHistory, SaveShips, SaveFails, vars, db
  <2> QED
    BY <1>t, <2>1 DEF TrackOwned
<1>3. CASE Restart
  <2>1. slot' \in [ToSet(order') -> Slot]
    BY <1>3, RestartTyped DEF Restored
  <2>2. paths' = [s \in Slot |-> None]
    BY <1>3 DEF Restart
  <2> QED
    BY <1>t, <2>1, <2>2 DEF TrackOwned
<1> QED
  BY <1>1, <1>2, <1>3 DEF Next

LEMMA PositionsKeptStep ==
  /\ TypeOK /\ OneRecordEach /\ Clocked /\ BackupSound /\ NearlyOrdered /\ PositionsKept
  /\ [Next]_vars
  => PositionsKept'
<1> SUFFICES ASSUME TypeOK, OneRecordEach, Clocked, BackupSound, NearlyOrdered, PositionsKept,
                    [Next]_vars
             PROVE  PositionsKept'
  OBVIOUS
<1>t. /\ MaxLag \in Nat /\ ships \in [Slot -> Nat] /\ seen \in [Mmsi -> Nat]
      /\ evict_horizon \in Nat /\ slot \in [ToSet(order) -> Slot]
      /\ \A t \in Time : t \in Nat
      /\ Table!Live = ToSet(order) /\ Table!Live' = ToSet(order')
  BY TrackerSizes, LiveIsOrder DEF TypeOK, Time, Table!Live, ToSet, Table!ToSet
<1>1. ASSUME NEW r \in Receiver, DBReceive(r)
      PROVE  PositionsKept'
  <2>1. PICK m \in Mmsi, position \in BOOLEAN, lost \in SUBSET Slot :
          /\ Claimed(m)
          /\ rx[r] \in [pc : {"stamped", "stored"}, time : Time] /\ slot'[m] \in Slot
          /\ rx' = [rx EXCEPT ![r].pc = "stored"]
          /\ ships' = [ships EXCEPT ![slot'[m]] = rx[r].time]
          /\ paths' = [Left(lost) EXCEPT ![slot'[m]] = PathAfter(m, slot'[m], position, rx[r].time)]
          /\ seen' = [seen EXCEPT ![m] = IF position /\ rx[r].time > @ THEN rx[r].time ELSE @]
          /\ overwritten' = LosersAfter(m, position, lost) /\ (~position => lost = {})
    BY <1>1, Claims
  <2> DEFINE t == rx[r].time
             P == PathAfter(m, slot'[m], position, t)
             kept == IF m \in ToSet(order) THEN paths[slot'[m]] ELSE None
  <2>2. t \in Time /\ t \in Nat
    BY <1>t, <2>1
  <2>3. /\ m \in ToSet(order') /\ paths'[slot'[m]] = P
        /\ m \in ToSet(order) => slot[m] = slot'[m]
        /\ \A k \in ToSet(order') \ {m} :
             /\ k \in ToSet(order) /\ slot'[k] = slot[k]
             /\ slot'[k] \in Slot
             /\ paths'[slot'[k]] = IF slot'[k] \in lost THEN None ELSE paths[slot[k]]
    <3>1. paths' = [Left(lost) EXCEPT ![slot'[m]] = P] /\ Claimed(m) /\ slot'[m] \in Slot
      BY <2>1
    <3> HIDE DEF t, P
    <3>2. /\ paths'[slot'[m]] = P
          /\ \A s \in Slot : s # slot'[m] => paths'[s] = IF s \in lost THEN None ELSE paths[s]
      BY <3>1 DEF Left
    <3> QED
      BY <3>1, <3>2, PathsClaimed
  <2>4. /\ P \in {None} \cup [owner : Mmsi, end : Time]
        /\ ~position => P = kept
        /\ position => P # None /\ P.end >= t
    <3> HIDE DEF t
    <3> QED
      BY <2>1, <2>2, PathTyped, PathGrows
  <2>5. /\ evict_horizon' \in Nat /\ evict_horizon =< evict_horizon'
        /\ \A k \in ToSet(order) \ ToSet(order') : ships[slot[k]] =< evict_horizon'
    BY <1>t, <2>1 DEF Claimed
  <2>6. /\ \A k \in Mmsi : k # m => seen'[k] = seen[k]
        /\ seen'[m] = IF position /\ t > seen[m] THEN t ELSE seen[m]
    BY <1>t, <2>1
  <2>7. \A k \in Mmsi : seen[k] > evict_horizon + MaxLag /\ k \notin overwritten =>
          k \in ToSet(order) /\ paths[slot[k]] # None /\ seen[k] =< paths[slot[k]].end + MaxLag
    BY <1>t DEF PositionsKept
  <2>8. \A k \in ToSet(order) : ships[slot[k]] \in Nat /\ seen[k] =< ships[slot[k]] + MaxLag
    <3>1. \A i \in DOMAIN order : i \in Nat /\ order[i] \in ToSet(order)
      BY TableTyped
    <3>2. \A i \in DOMAIN order : seen[order[i]] =< ships[slot[order[i]]] + MaxLag
      BY <3>1 DEF NearlyOrdered
    <3> QED
      BY <1>t, <3>2 DEF ToSet
  <2>10. seen'[m] =< t + MaxLag
    <3>1. seen[m] =< clock /\ clock =< t + MaxLag /\ clock \in Nat
      BY <1>1, TrackerSizes DEF DBReceive, Clocked, TypeOK, Time
    <3> HIDE DEF t
    <3> QED
      BY <1>t, <2>2, <2>6, <3>1
  <2>11. overwritten \subseteq ToSet(order) /\ overwritten' = LosersAfter(m, position, lost)
    BY <1>t, <2>1 DEF TypeOK
  <2> HIDE DEF t, P, kept
  <2>9. ASSUME NEW k \in Mmsi, seen'[k] > evict_horizon' + MaxLag, k \notin overwritten'
        PROVE  k \in ToSet(order') /\ paths'[slot'[k]] # None /\ seen'[k] =< paths'[slot'[k]].end + MaxLag
    <3>1. CASE k # m
      <4>1. seen'[k] = seen[k] /\ seen[k] \in Nat
        BY <1>t, <2>6, <3>1
      <4>2. seen[k] > evict_horizon + MaxLag
        BY <1>t, <2>5, <2>9, <4>1
      <4>3. k \in ToSet(order)
        BY <2>7, <2>11, <4>2
      <4>4. k \in ToSet(order')
        <5>1. SUFFICES ASSUME k \notin ToSet(order')
                       PROVE  FALSE
          OBVIOUS
        <5>2. ships[slot[k]] =< evict_horizon'
          BY <2>5, <4>3, <5>1
        <5>3. seen[k] =< ships[slot[k]] + MaxLag /\ ships[slot[k]] \in Nat
          BY <2>8, <4>3
        <5> QED
          BY <1>t, <2>5, <2>9, <4>1, <5>2, <5>3
      <4>5. k \notin overwritten /\ slot'[k] \notin lost
        BY <2>9, <2>11, <3>1, <4>4 DEF LosersAfter
      <4>6. paths[slot[k]] # None /\ seen[k] =< paths[slot[k]].end + MaxLag
        BY <2>7, <4>2, <4>5
      <4> QED
        BY <2>3, <3>1, <4>1, <4>4, <4>5, <4>6
    <3>2. CASE k = m /\ position
      <4>1. P # None /\ P.end >= t /\ P.end \in Nat
        BY <1>t, <2>4, <3>2
      <4>2. seen'[m] =< P.end + MaxLag
        <5> DEFINE e == P.end
        <5>1. e \in Nat /\ e >= t
          BY <4>1
        <5>2. seen' \in [Mmsi -> Nat]
          BY <1>t, <2>1, <2>2 DEF t
        <5>3. seen'[m] \in Nat
          BY <5>2
        <5> HIDE DEF e
        <5>4. seen'[m] =< e + MaxLag
          BY <1>t, <2>2, <2>10, <5>1, <5>3
        <5> QED
          BY <5>4 DEF e
      <4> QED
        BY <2>3, <3>2, <4>1, <4>2
    <3>3. CASE k = m /\ ~position
      <4>1. seen'[m] = seen[m] /\ seen[m] \in Nat
        BY <1>t, <2>6, <3>3
      <4>2. seen[m] > evict_horizon + MaxLag
        BY <1>t, <2>5, <2>9, <3>3, <4>1
      <4>3. m \notin overwritten
        BY <2>3, <2>9, <2>11, <3>3 DEF LosersAfter
      <4>4. kept # None /\ seen[m] =< kept.end + MaxLag
        BY <2>3, <2>7, <4>2, <4>3 DEF kept
      <4>5. P = kept
        BY <2>4, <3>3
      <4> QED
        BY <2>3, <3>3, <4>1, <4>4, <4>5
    <3> QED
      BY <3>1, <3>2, <3>3
  <2> QED
    BY <1>t, <2>9 DEF PositionsKept
<1>2. CASE \/ \E r \in Receiver : Stamp(r) \/ HistoryReceive(r)
           \/ Tick \/ SaveHistory \/ SaveShips \/ SaveFails \/ UNCHANGED vars
  <2>1. UNCHANGED <<order, slot, paths, evict_horizon, seen, overwritten>>
    BY <1>2 DEF Stamp, HistoryReceive, Tick, SaveHistory, SaveShips, SaveFails, vars, db
  <2> QED
    BY <1>t, <2>1 DEF PositionsKept
<1>3. CASE Restart
  <2>1. seen' = [m \in Mmsi |-> 0] /\ evict_horizon' = 0
    BY <1>3 DEF Restart
  <2>2. \A m \in Mmsi : ~(seen'[m] > evict_horizon' + MaxLag)
    BY <1>t, <2>1
  <2> QED
    BY <2>2 DEF PositionsKept
<1> QED
  BY <1>1, <1>2, <1>3 DEF Next

LEMMA RingsStep ==
  TypeOK /\ OneRecordEach /\ Clocked /\ RingOrdered /\ BackupSound /\ [Next]_vars
  => RingOrdered' /\ BackupSound'
<1> SUFFICES ASSUME TypeOK, OneRecordEach, Clocked, RingOrdered, BackupSound, [Next]_vars
             PROVE  RingOrdered' /\ BackupSound'
  OBVIOUS
<1> DEFINE Backed(b, t) ==
             /\ Ordered(b.ring)
             /\ \A i, j \in DOMAIN b.rows : b.rows[i].mmsi = b.rows[j].mmsi => i = j
             /\ \A i \in DOMAIN b.rows : b.rows[i].last =< t
             /\ Len(b.rows) =< Cardinality(Slot)
<1>s. /\ RingOrdered <=> Ordered(history)
      /\ RingOrdered' <=> Ordered(history')
      /\ BackupSound <=> (saving # None => Ordered(saving)) /\ (backup # None => Backed(backup, clock))
      /\ BackupSound' <=>
           (saving' # None => Ordered(saving')) /\ (backup' # None => Backed(backup', clock'))
  BY Zenon DEF RingOrdered, Ordered, BackupSound
<1>1. ASSUME NEW r \in Receiver, HistoryReceive(r)
      PROVE  RingOrdered' /\ BackupSound'
  <2>1. rx[r].time \in Time /\ history \in Ring /\ Ordered(history)
    BY <1>1, <1>s DEF HistoryReceive, TypeOK
  <2>2. Ordered(history')
    BY <1>1, <2>1, OpenedOrdered DEF HistoryReceive
  <2>3. UNCHANGED <<clock, saving, backup>>
    BY <1>1 DEF HistoryReceive
  <2> QED
    BY <1>s, <2>2, <2>3, Zenon
<1>2. CASE \/ \E r \in Receiver : Stamp(r) \/ DBReceive(r)
           \/ UNCHANGED vars
  <2>1. UNCHANGED <<clock, history, saving, backup>>
    BY <1>2 DEF Stamp, DBReceive, vars
  <2> QED
    BY <1>s, <2>1, Zenon
<1>3. CASE Tick
  <2>1. clock' = clock + 1 /\ UNCHANGED <<history, saving, backup>>
    BY <1>3 DEF Tick
  <2>2. backup # None => Backed(backup, clock + 1)
    <3>1. SUFFICES ASSUME backup # None
                   PROVE  Backed(backup, clock + 1)
      OBVIOUS
    <3>2. \A i \in DOMAIN backup.rows : backup.rows[i].last \in Nat
      <4> DEFINE rows == backup.rows
      <4>1. rows \in Seq(Row)
        BY <3>1 DEF TypeOK
      <4> HIDE DEF rows
      <4>2. \A i \in DOMAIN rows : rows[i] \in Row
        BY <4>1, LenProperties, ElementOfSeq
      <4>3. \A i \in DOMAIN rows : rows[i].last \in Nat
        BY <4>2, TrackerSizes DEF Row, Time
      <4> QED
        BY <4>3 DEF rows
    <3>3. clock \in Nat
      BY TrackerSizes DEF TypeOK, Time
    <3>4. Backed(backup, clock)
      BY <1>s, <3>1
    <3>5. \A i \in DOMAIN backup.rows : backup.rows[i].last =< clock + 1
      BY <3>2, <3>3, <3>4
    <3> QED
      BY <3>4, <3>5
  <2> HIDE DEF Backed
  <2> QED
    BY <1>s, <2>1, <2>2, Zenon
<1>4. CASE SaveHistory
  <2>1. saving' = history /\ UNCHANGED <<clock, history, backup>>
    BY <1>4 DEF SaveHistory
  <2> HIDE DEF Backed
  <2> QED
    BY <1>s, <2>1, Zenon
<1>5. CASE SaveShips
  <2>1. /\ saving # None /\ backup' = [ring |-> saving, rows |-> ShipRows] /\ saving' = None
        /\ UNCHANGED <<clock, history>>
    BY <1>5 DEF SaveShips
  <2>2. RowsSound(ShipRows) /\ Ordered(saving)
    BY <1>s, <2>1, ShipRowsSound
  <2>3. backup'.ring = saving /\ backup'.rows = ShipRows
    BY <2>1
  <2>4. Backed(backup', clock)
    BY <2>2, <2>3, Zenon DEF RowsSound
  <2> HIDE DEF Backed
  <2> QED
    BY <1>s, <2>1, <2>4, Zenon
<1>6. CASE SaveFails
  <2>1. saving' = None /\ UNCHANGED <<clock, history, backup>>
    BY <1>6 DEF SaveFails
  <2> HIDE DEF Backed
  <2> QED
    BY <1>s, <2>1, Zenon
<1>7. CASE Restart
  <2>1. /\ backup = None => history' = Cleared(clock)
        /\ backup # None => history' = backup.ring
    BY <1>7, Zenon DEF Restart
  <2>2. saving' = None /\ UNCHANGED <<clock, backup>>
    BY <1>7 DEF Restart
  <2>3. backup = None => Ordered(history')
    BY <2>1, ClearedOrdered DEF TypeOK
  <2>4. backup # None => Ordered(history')
    BY <1>s, <2>1, Zenon
  <2> HIDE DEF Backed
  <2> QED
    BY <1>s, <2>2, <2>3, <2>4, Zenon
<1> QED
  BY <1>1, <1>2, <1>3, <1>4, <1>5, <1>6, <1>7 DEF Next

LEMMA Invariance == Spec => []IInv
<1>1. Init => IInv
  <2> SUFFICES ASSUME Init
               PROVE  IInv
    OBVIOUS
  <2>1. /\ clock = 1 /\ order = <<>> /\ slot = <<>> /\ ships = [s \in Slot |-> 0]
        /\ paths = [s \in Slot |-> None] /\ evict_horizon = 0 /\ history = Cleared(clock)
        /\ rx = [r \in Receiver |-> None] /\ messages = 0 /\ saving = None /\ backup = None
        /\ seen = [m \in Mmsi |-> 0] /\ overwritten = {}
    BY DEF Init
  <2>2. /\ clock \in Time /\ 0 \in Time /\ clock \in Nat /\ MaxLag \in Nat /\ MaxMessages \in Nat
    BY <2>1, TrackerSizes DEF Time
  <2>3. /\ ToSet(order) = {} /\ DOMAIN order = {} /\ DOMAIN slot = {}
        /\ order \in Seq(Mmsi) /\ slot \in [{} -> Slot] /\ Len(order) = 0
    BY <2>1 DEF ToSet
  <2>4. 0 =< Cardinality(Slot)
    BY TrackerSizes, FS_CardinalityType
  <2>5. history \in Ring /\ Ordered(history)
    BY <2>1, <2>2, ClearedOrdered
  <2>6. TypeOK
    <3>1. /\ paths \in [Slot -> {None} \cup [owner : Mmsi, end : Time]]
          /\ rx \in [Receiver -> {None} \cup [pc : {"stamped", "stored"}, time : Time]]
          /\ seen \in [Mmsi -> Time] /\ ships \in [Slot -> Time] /\ messages \in 0 .. MaxMessages
          /\ saving \in {None} \cup Ring
          /\ backup \in {None} \cup [ring : Ring, rows : Seq(Row)]
          /\ evict_horizon \in Time /\ overwritten \subseteq Table!Live
      BY <2>1, <2>2
    <3> QED
      BY <2>2, <2>3, <2>4, <2>5, <3>1 DEF TypeOK
  <2>7. OneRecordEach
    BY <2>3 DEF OneRecordEach, IsInjective
  <2>8. Clocked
    BY <2>1, <2>2 DEF Clocked
  <2>9. NearlyOrdered
    BY <2>3 DEF NearlyOrdered
  <2>10. TrackOwned
    BY <2>3, LiveIsOrder DEF TrackOwned
  <2>11. PositionsKept
    <3>1. \A m \in Mmsi : ~(seen[m] > evict_horizon + MaxLag)
      BY <2>1, <2>2
    <3> QED
      BY <3>1 DEF PositionsKept
  <2>12. RingOrdered
    BY <2>5 DEF RingOrdered, Ordered
  <2>13. BackupSound
    BY <2>1 DEF BackupSound
  <2> QED
    BY <2>6, <2>7, <2>8, <2>9, <2>10, <2>11, <2>12, <2>13 DEF IInv
<1>2. IInv /\ [Next]_vars => IInv'
  <2> SUFFICES ASSUME IInv, [Next]_vars
               PROVE  IInv'
    OBVIOUS
  <2>1. /\ TypeOK /\ OneRecordEach /\ Clocked /\ NearlyOrdered /\ TrackOwned /\ PositionsKept
        /\ RingOrdered /\ BackupSound
    BY DEF IInv
  <2> QED
    BY <2>1, TypeStep, ClockedStep, NearlyOrderedStep, TrackOwnedStep, PositionsKeptStep,
       RingsStep DEF IInv
<1> QED
  BY <1>1, <1>2, PTL DEF Spec

(* Where the scan for a ship of the table ends.                            *)
LEMMA ScanEnds ==
  ASSUME NEW m \in ToSet(order),
         NEW j, j = CHOOSE a \in DOMAIN order : order[a] = m
  PROVE  j \in DOMAIN order /\ order[j] = m
<1>1. \E a \in DOMAIN order : order[a] = m
  BY DEF ToSet
<1> QED
  BY <1>1

LEMMA RecentFromOrder == IInv => RecentComplete
<1> SUFFICES ASSUME IInv, NEW cutoff \in Time, NEW m \in ToSet(order),
                    ships[slot[m]] >= cutoff + MaxLag
             PROVE  m \in Recent(cutoff)
  BY LiveIsOrder DEF RecentComplete
<1> DEFINE j == CHOOSE a \in DOMAIN order : order[a] = m
<1>1. j \in DOMAIN order /\ order[j] = m
  BY ScanEnds
<1> HIDE DEF j
<1>2. /\ MaxLag \in Nat /\ cutoff \in Nat /\ ships \in [Slot -> Nat]
      /\ slot \in [ToSet(order) -> Slot]
  BY TrackerSizes DEF IInv, TypeOK, Time
<1>3. ASSUME NEW i \in DOMAIN order, i =< j
      PROVE  ships[slot[order[i]]] >= cutoff
  <2>1. ships[slot[m]] =< ships[slot[order[i]]] + MaxLag
    BY <1>1, <1>3 DEF IInv, NearlyOrdered
  <2>2. order[i] \in ToSet(order)
    BY DEF ToSet
  <2> QED
    BY <1>2, <2>1, <2>2
<1> QED
  BY <1>3, LiveIsOrder DEF Recent, j

LEMMA ReplayFromPositions == IInv => ReplayComplete
<1> SUFFICES ASSUME IInv, NEW since \in evict_horizon .. MaxTime, NEW m \in Mmsi,
                    seen[m] > since + MaxLag, m \notin overwritten
             PROVE  m \in Replay(since)
  BY DEF ReplayComplete
<1>1. /\ MaxLag \in Nat /\ evict_horizon \in Nat /\ since \in Nat /\ seen \in [Mmsi -> Nat]
      /\ ships \in [Slot -> Nat] /\ slot \in [ToSet(order) -> Slot]
      /\ paths \in [Slot -> {None} \cup [owner : Mmsi, end : Time]]
      /\ \A t \in Time : t \in Nat
  BY TrackerSizes DEF IInv, TypeOK, Time
<1> DEFINE from == IF since > evict_horizon THEN since ELSE evict_horizon
<1>2. from = since
  BY <1>1
<1>3. m \in ToSet(order) /\ paths[slot[m]] # None /\ seen[m] =< paths[slot[m]].end + MaxLag
  <2>1. seen[m] > evict_horizon + MaxLag
    BY <1>1
  <2> QED
    BY <2>1, LiveIsOrder DEF IInv, PositionsKept
<1>4. paths[slot[m]].end >= since
  <2> DEFINE e == paths[slot[m]].end
  <2>1. e \in Nat /\ seen[m] =< e + MaxLag
    BY <1>1, <1>3
  <2> HIDE DEF e
  <2>2. e >= since
    BY <1>1, <2>1
  <2> QED
    BY <2>2 DEF e
<1> DEFINE j == CHOOSE a \in DOMAIN order : order[a] = m
<1>5. j \in DOMAIN order /\ order[j] = m
  BY <1>3, ScanEnds
<1> HIDE DEF j
<1>6. ASSUME NEW i \in DOMAIN order, i =< j
      PROVE  ships[slot[order[i]]] >= since
  <2>1. seen[m] =< ships[slot[order[i]]] + MaxLag
    BY <1>5, <1>6 DEF IInv, NearlyOrdered
  <2>2. order[i] \in ToSet(order)
    BY DEF ToSet
  <2> QED
    BY <1>1, <2>1, <2>2
<1>7. m \in Recent(since)
  BY <1>3, <1>6, LiveIsOrder DEF Recent, j
<1> HIDE DEF from
<1>8. m \in Recent(from) /\ paths[slot[m]] # None /\ paths[slot[m]].end >= from
  BY <1>2, <1>3, <1>4, <1>7
<1> QED
  BY <1>8 DEF Replay, from

-----------------------------------------------------------------------------
(* The theorems.                                                           *)

(* The table, its records, the rings and the backup file have their types  *)
(* in every state; above all, a ring's start and end stay inside it and no *)
(* more ships are in the table than there are records.                     *)
THEOREM TypeCorrect == Spec => []TypeOK
<1>1. IInv => TypeOK
  BY DEF IInv
<1> QED
  BY <1>1, Invariance, PTL

(* A recycled record never shows the ship that has it the track of the one *)
(* that had it before (DB.h, claimShip() and PathStore::wipe()).           *)
THEOREM TracksStayOwned == Spec => []TrackOwned
<1>1. IInv => TrackOwned
  BY DEF IInv
<1> QED
  BY <1>1, Invariance, PTL

(* A history's intervals run in order from its start to its end, although  *)
(* messages arrive out of order, and after it was saved and loaded.        *)
THEOREM RingStaysOrdered == Spec => []RingOrdered
<1>1. IInv => RingOrdered
  BY DEF IInv
<1> QED
  BY <1>1, Invariance, PTL

(* forEachRecent() may stop at the first ship that is too old: what it     *)
(* loses is at most the receivers' lag from the cutoff.                    *)
THEOREM RecentIsComplete == Spec => []RecentComplete
BY Invariance, RecentFromOrder, PTL

(* A replay whose window starts behind the horizon misses no ship with a   *)
(* position in it, whatever records were recycled and whatever was loaded, *)
(* unless other ships' points have overwritten its track.                  *)
THEOREM ReplayIsComplete == Spec => []ReplayComplete
BY Invariance, ReplayFromPositions, PTL

=============================================================================
