--------------------------- MODULE SlotTableProofs ---------------------------
(***************************************************************************)
(* Theorems about SlotTable for any number of slots and buckets and any    *)
(* keys.                                                                   *)
(***************************************************************************)
EXTENDS SlotTable, SequenceTheorems, FiniteSetTheorems, WellFoundedInduction, TLAPS

(* The lists, seen from outside: the slots in their order, from 0 on.      *)
Positions == 0 .. (nrecords - 1)

Injective(L) == \A i, j \in DOMAIN L : L[i] = L[j] => i = j

(* The LRU list is the slots of L, all of them.                            *)
LruIs(t, L) ==
  /\ L \in [Positions -> SlotIds] /\ Injective(L)
  /\ \A h \in SlotIds : \E i \in Positions : L[i] = h
  /\ t.head = L[0] /\ t.tail = L[nrecords - 1]
  /\ \A i \in Positions :
       /\ t.slots[L[i]].lru_next = IF i = nrecords - 1 THEN NIL ELSE L[i + 1]
       /\ t.slots[L[i]].lru_prev = IF i = 0 THEN NIL ELSE L[i - 1]

(* The chain of a bucket is the m slots of C.                              *)
ChainIs(t, b, m, C) ==
  /\ C \in [0 .. (m - 1) -> SlotIds] /\ Injective(C)
  /\ t.buckets[b] = IF m = 0 THEN NIL ELSE C[0]
  /\ \A i \in 0 .. (m - 1) :
       /\ t.slots[C[i]].h_next = IF i = m - 1 THEN NIL ELSE C[i + 1]
       /\ t.slots[C[i]].h_prev = IF i = 0 THEN BucketRef(b) ELSE C[i - 1]

Belongs(t, h, b) == t.slots[h].key # 0 /\ bucket(t.slots[h].key) = b

(* The chains hold what has a key, of the slots in S.                      *)
ChainOver(t, b, S, m, C) ==
  /\ ChainIs(t, b, m, C)
  /\ \A h \in SlotIds : (\E i \in 0 .. (m - 1) : C[i] = h) <=> h \in S /\ Belongs(t, h, b)

ChainsOver(t, S) ==
  \A b \in Buckets : \E m \in 0 .. nrecords : \E C \in [0 .. (m - 1) -> SlotIds] :
    ChainOver(t, b, S, m, C)

(* The slots with a key come first.                                        *)
KeyedBefore(t, L) == \A i \in Positions : t.slots[L[i]].key # 0 <=> i < t.count

Listed(t) == \E L \in [Positions -> SlotIds] : LruIs(t, L) /\ KeyedBefore(t, L)

(* The inductive invariant, of the table.                                  *)
Sound(t) == t \in Table /\ Listed(t) /\ ChainsOver(t, SlotIds)

-----------------------------------------------------------------------------
(* Numbers and types.                                                      *)

LEMMA Sizes ==
  /\ nrecords \in Nat \ {0} /\ nbuckets \in Nat \ {0} /\ Key \subseteq Nat \ {0}
  /\ 0 \in SlotIds /\ nrecords - 1 \in SlotIds /\ NIL \notin SlotIds
  /\ \A h \in SlotIds : h \in Nat /\ h < nrecords /\ ~IsBucketRef(h)
  /\ \A b \in Buckets : /\ BucketRef(b) - nrecords = b /\ IsBucketRef(BucketRef(b))
                        /\ BucketRef(b) # NIL /\ BucketRef(b) \notin SlotIds
BY TableSizes DEF SlotIds, NIL, IsBucketRef, BucketRef, Buckets

LEMMA BucketOf ==
  ASSUME NEW k \in Key
  PROVE  bucket(k) \in Buckets
BY Sizes DEF bucket, Buckets

LEMMA TableTyped ==
  ASSUME NEW t \in Table
  PROVE  /\ t.slots \in [SlotIds -> Slot] /\ t.buckets \in [Buckets -> SlotIds \cup {NIL}]
         /\ t.head \in SlotIds \cup {NIL} /\ t.tail \in SlotIds \cup {NIL}
         /\ t.count \in 0 .. nrecords
         /\ t = [slots |-> t.slots, buckets |-> t.buckets, head |-> t.head,
                 tail |-> t.tail, count |-> t.count]
BY DEF Table

LEMMA SlotTyped ==
  ASSUME NEW t \in Table, NEW h \in SlotIds
  PROVE  /\ t.slots[h].lru_prev \in SlotIds \cup {NIL}
         /\ t.slots[h].lru_next \in SlotIds \cup {NIL}
         /\ t.slots[h].h_prev \in SlotIds \cup {NIL} \cup {BucketRef(b) : b \in Buckets}
         /\ t.slots[h].h_next \in SlotIds \cup {NIL}
         /\ t.slots[h].key \in Key \cup {0}
<1>1. t.slots[h] \in Slot
  BY TableTyped
<1> QED
  BY <1>1 DEF Slot

-----------------------------------------------------------------------------
(* One field of one slot is set.                                           *)

SlotBecomes(u, t, h, r) == u = [t EXCEPT !.slots = [t.slots EXCEPT ![h] = r]]

SlotIsSet(u, t, h, r) ==
  /\ u \in Table /\ u.head = t.head /\ u.tail = t.tail
  /\ u.buckets = t.buckets /\ u.count = t.count
  /\ \A x \in SlotIds : u.slots[x] = IF x = h THEN r ELSE t.slots[x]

LEMMA SlotSet ==
  ASSUME NEW t \in Table, NEW h \in SlotIds, NEW r \in Slot, NEW u, SlotBecomes(u, t, h, r)
  PROVE  SlotIsSet(u, t, h, r)
<1> DEFINE s == [t.slots EXCEPT ![h] = r]
<1>1. t.slots \in [SlotIds -> Slot]
  BY TableTyped
<1>2. s \in [SlotIds -> Slot] /\ \A x \in SlotIds : s[x] = IF x = h THEN r ELSE t.slots[x]
  BY <1>1
<1> HIDE DEF s
<1>3. u = [t EXCEPT !.slots = s]
  BY DEF SlotBecomes, s
<1>4. /\ u.slots = s /\ u.head = t.head /\ u.tail = t.tail
      /\ u.buckets = t.buckets /\ u.count = t.count
  BY <1>3, TableTyped
<1>5. u = [slots |-> s, buckets |-> t.buckets, head |-> t.head, tail |-> t.tail,
           count |-> t.count]
  BY <1>3, TableTyped
<1>6. u \in Table
  BY <1>2, <1>5, TableTyped DEF Table
<1> QED
  BY <1>2, <1>4, <1>6 DEF SlotIsSet

(* What setting a field leaves: the parts of the table not in the slots.   *)
Around(u, t) == /\ u \in Table /\ u.head = t.head /\ u.tail = t.tail
                /\ u.buckets = t.buckets /\ u.count = t.count

LruPrevIs(u, t, h, v) ==
  /\ Around(u, t)
  /\ \A x \in SlotIds :
       /\ u.slots[x].lru_prev = IF x = h THEN v ELSE t.slots[x].lru_prev
       /\ u.slots[x].lru_next = t.slots[x].lru_next
       /\ u.slots[x].h_prev = t.slots[x].h_prev
       /\ u.slots[x].h_next = t.slots[x].h_next
       /\ u.slots[x].key = t.slots[x].key

LruNextIs(u, t, h, v) ==
  /\ Around(u, t)
  /\ \A x \in SlotIds :
       /\ u.slots[x].lru_prev = t.slots[x].lru_prev
       /\ u.slots[x].lru_next = IF x = h THEN v ELSE t.slots[x].lru_next
       /\ u.slots[x].h_prev = t.slots[x].h_prev
       /\ u.slots[x].h_next = t.slots[x].h_next
       /\ u.slots[x].key = t.slots[x].key

HPrevIs(u, t, h, v) ==
  /\ Around(u, t)
  /\ \A x \in SlotIds :
       /\ u.slots[x].lru_prev = t.slots[x].lru_prev
       /\ u.slots[x].lru_next = t.slots[x].lru_next
       /\ u.slots[x].h_prev = IF x = h THEN v ELSE t.slots[x].h_prev
       /\ u.slots[x].h_next = t.slots[x].h_next
       /\ u.slots[x].key = t.slots[x].key

HNextIs(u, t, h, v) ==
  /\ Around(u, t)
  /\ \A x \in SlotIds :
       /\ u.slots[x].lru_prev = t.slots[x].lru_prev
       /\ u.slots[x].lru_next = t.slots[x].lru_next
       /\ u.slots[x].h_prev = t.slots[x].h_prev
       /\ u.slots[x].h_next = IF x = h THEN v ELSE t.slots[x].h_next
       /\ u.slots[x].key = t.slots[x].key

KeyIs(u, t, h, v) ==
  /\ Around(u, t)
  /\ \A x \in SlotIds :
       /\ u.slots[x].lru_prev = t.slots[x].lru_prev
       /\ u.slots[x].lru_next = t.slots[x].lru_next
       /\ u.slots[x].h_prev = t.slots[x].h_prev
       /\ u.slots[x].h_next = t.slots[x].h_next
       /\ u.slots[x].key = IF x = h THEN v ELSE t.slots[x].key

EndsAre(u, t, h, g) ==
  /\ u \in Table /\ u.head = h /\ u.tail = g /\ u.slots = t.slots
  /\ u.buckets = t.buckets /\ u.count = t.count

BucketIs(u, t, b, v) ==
  /\ u \in Table /\ u.head = t.head /\ u.tail = t.tail
  /\ u.slots = t.slots /\ u.count = t.count
  /\ \A x \in Buckets : u.buckets[x] = IF x = b THEN v ELSE t.buckets[x]

CountIs(u, t, n) ==
  /\ u \in Table /\ u.head = t.head /\ u.tail = t.tail
  /\ u.slots = t.slots /\ u.buckets = t.buckets /\ u.count = n

LEMMA LruPrevSet ==
  ASSUME NEW t \in Table, NEW h \in SlotIds,
         NEW v \in SlotIds \cup {NIL},
         NEW u, u = [t EXCEPT !.slots[h].lru_prev = v]
  PROVE  LruPrevIs(u, t, h, v)
<1> DEFINE r == [t.slots[h] EXCEPT !.lru_prev = v]
<1>1. t.slots[h] \in Slot
  BY TableTyped
<1>2. /\ r \in Slot
      /\ r.lru_prev = v
      /\ r.lru_next = t.slots[h].lru_next
      /\ r.h_prev = t.slots[h].h_prev
      /\ r.h_next = t.slots[h].h_next
      /\ r.key = t.slots[h].key
  BY <1>1 DEF Slot
<1>3. SlotBecomes(u, t, h, r)
  BY DEF SlotBecomes
<1> HIDE DEF r
<1>4. SlotIsSet(u, t, h, r)
  BY <1>2, <1>3, SlotSet, Zenon
<1> QED
  BY <1>2, <1>4 DEF SlotIsSet, Around, LruPrevIs

LEMMA LruNextSet ==
  ASSUME NEW t \in Table, NEW h \in SlotIds,
         NEW v \in SlotIds \cup {NIL},
         NEW u, u = [t EXCEPT !.slots[h].lru_next = v]
  PROVE  LruNextIs(u, t, h, v)
<1> DEFINE r == [t.slots[h] EXCEPT !.lru_next = v]
<1>1. t.slots[h] \in Slot
  BY TableTyped
<1>2. /\ r \in Slot
      /\ r.lru_prev = t.slots[h].lru_prev
      /\ r.lru_next = v
      /\ r.h_prev = t.slots[h].h_prev
      /\ r.h_next = t.slots[h].h_next
      /\ r.key = t.slots[h].key
  BY <1>1 DEF Slot
<1>3. SlotBecomes(u, t, h, r)
  BY DEF SlotBecomes
<1> HIDE DEF r
<1>4. SlotIsSet(u, t, h, r)
  BY <1>2, <1>3, SlotSet, Zenon
<1> QED
  BY <1>2, <1>4 DEF SlotIsSet, Around, LruNextIs

LEMMA HPrevSet ==
  ASSUME NEW t \in Table, NEW h \in SlotIds,
         NEW v \in SlotIds \cup {NIL} \cup {BucketRef(b) : b \in Buckets},
         NEW u, u = [t EXCEPT !.slots[h].h_prev = v]
  PROVE  HPrevIs(u, t, h, v)
<1> DEFINE r == [t.slots[h] EXCEPT !.h_prev = v]
<1>1. t.slots[h] \in Slot
  BY TableTyped
<1>2. /\ r \in Slot
      /\ r.lru_prev = t.slots[h].lru_prev
      /\ r.lru_next = t.slots[h].lru_next
      /\ r.h_prev = v
      /\ r.h_next = t.slots[h].h_next
      /\ r.key = t.slots[h].key
  BY <1>1 DEF Slot
<1>3. SlotBecomes(u, t, h, r)
  BY DEF SlotBecomes
<1> HIDE DEF r
<1>4. SlotIsSet(u, t, h, r)
  BY <1>2, <1>3, SlotSet, Zenon
<1> QED
  BY <1>2, <1>4 DEF SlotIsSet, Around, HPrevIs

LEMMA HNextSet ==
  ASSUME NEW t \in Table, NEW h \in SlotIds,
         NEW v \in SlotIds \cup {NIL},
         NEW u, u = [t EXCEPT !.slots[h].h_next = v]
  PROVE  HNextIs(u, t, h, v)
<1> DEFINE r == [t.slots[h] EXCEPT !.h_next = v]
<1>1. t.slots[h] \in Slot
  BY TableTyped
<1>2. /\ r \in Slot
      /\ r.lru_prev = t.slots[h].lru_prev
      /\ r.lru_next = t.slots[h].lru_next
      /\ r.h_prev = t.slots[h].h_prev
      /\ r.h_next = v
      /\ r.key = t.slots[h].key
  BY <1>1 DEF Slot
<1>3. SlotBecomes(u, t, h, r)
  BY DEF SlotBecomes
<1> HIDE DEF r
<1>4. SlotIsSet(u, t, h, r)
  BY <1>2, <1>3, SlotSet, Zenon
<1> QED
  BY <1>2, <1>4 DEF SlotIsSet, Around, HNextIs

LEMMA KeySet ==
  ASSUME NEW t \in Table, NEW h \in SlotIds,
         NEW v \in Key,
         NEW u, u = [t EXCEPT !.slots[h].key = v]
  PROVE  KeyIs(u, t, h, v)
<1> DEFINE r == [t.slots[h] EXCEPT !.key = v]
<1>1. t.slots[h] \in Slot
  BY TableTyped
<1>2. /\ r \in Slot
      /\ r.lru_prev = t.slots[h].lru_prev
      /\ r.lru_next = t.slots[h].lru_next
      /\ r.h_prev = t.slots[h].h_prev
      /\ r.h_next = t.slots[h].h_next
      /\ r.key = v
  BY <1>1 DEF Slot
<1>3. SlotBecomes(u, t, h, r)
  BY DEF SlotBecomes
<1> HIDE DEF r
<1>4. SlotIsSet(u, t, h, r)
  BY <1>2, <1>3, SlotSet, Zenon
<1> QED
  BY <1>2, <1>4 DEF SlotIsSet, Around, KeyIs

LEMMA EndsSet ==
  ASSUME NEW t \in Table, NEW h \in SlotIds, NEW g \in SlotIds,
         NEW u, u = [t EXCEPT !.head = h, !.tail = g]
  PROVE  EndsAre(u, t, h, g)
<1> DEFINE w == [t EXCEPT !.head = h]
<1>1. w = [slots |-> t.slots, buckets |-> t.buckets, head |-> h, tail |-> t.tail,
           count |-> t.count]
  BY TableTyped
<1>2. u = [w EXCEPT !.tail = g]
  OBVIOUS
<1> HIDE DEF w
<1>3. u = [slots |-> t.slots, buckets |-> t.buckets, head |-> h, tail |-> g,
           count |-> t.count]
  BY <1>1, <1>2
<1> QED
  BY <1>3, TableTyped DEF Table, EndsAre

LEMMA BucketSet ==
  ASSUME NEW t \in Table, NEW b \in Buckets, NEW v \in SlotIds \cup {NIL},
         NEW u, u = [t EXCEPT !.buckets[b] = v]
  PROVE  BucketIs(u, t, b, v)
<1> DEFINE d == [t.buckets EXCEPT ![b] = v]
<1>1. d \in [Buckets -> SlotIds \cup {NIL}]
      /\ \A x \in Buckets : d[x] = IF x = b THEN v ELSE t.buckets[x]
  BY TableTyped
<1>2. u = [slots |-> t.slots, buckets |-> d, head |-> t.head, tail |-> t.tail,
           count |-> t.count]
  BY TableTyped
<1> HIDE DEF d
<1> QED
  BY <1>1, <1>2, TableTyped DEF Table, BucketIs

LEMMA CountSet ==
  ASSUME NEW t \in Table, NEW n \in 0 .. nrecords, NEW u, u = [t EXCEPT !.count = n]
  PROVE  CountIs(u, t, n)
<1>1. u = [slots |-> t.slots, buckets |-> t.buckets, head |-> t.head, tail |-> t.tail,
           count |-> n]
  BY TableTyped
<1> QED
  BY <1>1, TableTyped DEF Table, CountIs

-----------------------------------------------------------------------------
(* The operations on the lists, field by field.                            *)

LruPushes(u, t, h) ==
  /\ u \in Table /\ u.head = h /\ u.tail = t.tail
  /\ u.buckets = t.buckets /\ u.count = t.count
  /\ \A x \in SlotIds :
       /\ u.slots[x].lru_next = IF x = h THEN t.head ELSE t.slots[x].lru_next
       /\ u.slots[x].lru_prev = IF x = h THEN NIL ELSE IF x = t.head THEN h
                                ELSE t.slots[x].lru_prev
       /\ u.slots[x].h_prev = t.slots[x].h_prev
       /\ u.slots[x].h_next = t.slots[x].h_next
       /\ u.slots[x].key = t.slots[x].key

LEMMA LruPushed ==
  ASSUME NEW t \in Table, NEW h \in SlotIds, t.head # NIL, t.tail # NIL, t.head # h
  PROVE  LruPushes(lruPushFront(t, h), t, h)
<1> DEFINE g == t.head
           z == t.tail
           o1   == [t EXCEPT !.slots[h].lru_prev = NIL]
           own  == [o1 EXCEPT !.slots[h].lru_next = g]
           back == [own EXCEPT !.slots[g].lru_prev = h]
           u == [back EXCEPT !.head = h, !.tail = z]
<1>1. lruPushFront(t, h) = u
  BY DEF lruPushFront
<1>2. /\ g \in SlotIds /\ z \in SlotIds /\ g # h
      /\ NIL \in SlotIds \cup {NIL} /\ h \in SlotIds \cup {NIL} /\ g \in SlotIds \cup {NIL}
  BY TableTyped
<1> HIDE DEF g, z
<1>3. LruPrevIs(o1, t, h, NIL)
  BY <1>2, LruPrevSet, Zenon
<1>a. o1 \in Table
  BY <1>3 DEF LruPrevIs, Around
<1> HIDE DEF o1
<1>4. LruNextIs(own, o1, h, g)
  BY <1>2, <1>a, LruNextSet, Zenon
<1>b. own \in Table
  BY <1>4 DEF LruNextIs, Around
<1> HIDE DEF own
<1>5. LruPrevIs(back, own, g, h)
  BY <1>2, <1>b, LruPrevSet, Zenon
<1>c. back \in Table
  BY <1>5 DEF LruPrevIs, Around
<1> HIDE DEF back
<1>6. EndsAre(u, back, h, z)
  BY <1>2, <1>c, EndsSet, Zenon
<1> HIDE DEF u
<1> QED
  BY <1>1, <1>2, <1>3, <1>4, <1>5, <1>6
     DEF g, z, LruPushes, LruPrevIs, LruNextIs, EndsAre, Around

LruUnlinks(u, t, h) ==
  LET p == t.slots[h].lru_prev
      n == t.slots[h].lru_next
  IN  /\ u \in Table /\ u.head = t.head /\ u.tail = (IF n = NIL THEN p ELSE t.tail)
      /\ u.buckets = t.buckets /\ u.count = t.count
      /\ \A x \in SlotIds :
           /\ u.slots[x].lru_next = IF x = p THEN n ELSE t.slots[x].lru_next
           /\ u.slots[x].lru_prev = IF x = n THEN p ELSE t.slots[x].lru_prev
           /\ u.slots[x].h_prev = t.slots[x].h_prev
           /\ u.slots[x].h_next = t.slots[x].h_next
           /\ u.slots[x].key = t.slots[x].key

TailIs(u, t, g) ==
  /\ u \in Table /\ u.head = t.head /\ u.tail = g /\ u.slots = t.slots
  /\ u.buckets = t.buckets /\ u.count = t.count

LEMMA TailSet ==
  ASSUME NEW t \in Table, NEW g \in SlotIds, NEW u, u = [t EXCEPT !.tail = g]
  PROVE  TailIs(u, t, g)
<1>1. u = [slots |-> t.slots, buckets |-> t.buckets, head |-> t.head, tail |-> g,
           count |-> t.count]
  BY TableTyped
<1> QED
  BY <1>1, TableTyped DEF Table, TailIs

LEMMA LruUnlinked ==
  ASSUME NEW t \in Table, NEW h \in SlotIds, t.slots[h].lru_prev # NIL
  PROVE  LruUnlinks(lruUnlink(t, h), t, h)
<1> DEFINE p == t.slots[h].lru_prev
           n == t.slots[h].lru_next
           fwd == [t EXCEPT !.slots[p].lru_next = n]
<1>1. lruUnlink(t, h) = IF n # NIL THEN [fwd EXCEPT !.slots[n].lru_prev = p]
                                   ELSE [fwd EXCEPT !.tail = p]
  BY DEF lruUnlink
<1>2. /\ p \in SlotIds /\ n \in SlotIds \cup {NIL} /\ p \in SlotIds \cup {NIL}
  BY SlotTyped
<1>0. LruUnlinks(lruUnlink(t, h), t, h) <=>
        LET u == lruUnlink(t, h)
        IN  /\ u \in Table /\ u.head = t.head /\ u.tail = (IF n = NIL THEN p ELSE t.tail)
            /\ u.buckets = t.buckets /\ u.count = t.count
            /\ \A x \in SlotIds :
                 /\ u.slots[x].lru_next = IF x = p THEN n ELSE t.slots[x].lru_next
                 /\ u.slots[x].lru_prev = IF x = n THEN p ELSE t.slots[x].lru_prev
                 /\ u.slots[x].h_prev = t.slots[x].h_prev
                 /\ u.slots[x].h_next = t.slots[x].h_next
                 /\ u.slots[x].key = t.slots[x].key
  BY DEF LruUnlinks
<1> HIDE DEF p, n
<1>3. LruNextIs(fwd, t, p, n)
  BY <1>2, LruNextSet, Zenon
<1>4. fwd \in Table
  BY <1>3 DEF LruNextIs, Around
<1> HIDE DEF fwd
<1>5. CASE n # NIL
  <2> DEFINE u == [fwd EXCEPT !.slots[n].lru_prev = p]
  <2>1. n \in SlotIds /\ lruUnlink(t, h) = u
    BY <1>1, <1>2, <1>5
  <2>2. LruPrevIs(u, fwd, n, p)
    BY <1>2, <1>4, <2>1, LruPrevSet, Zenon
  <2> HIDE DEF u
  <2> QED
    BY <1>0, <1>3, <1>5, <2>1, <2>2 DEF LruNextIs, LruPrevIs, Around
<1>6. CASE n = NIL
  <2> DEFINE u == [fwd EXCEPT !.tail = p]
  <2>1. lruUnlink(t, h) = u
    BY <1>1, <1>6
  <2>2. TailIs(u, fwd, p)
    BY <1>2, <1>4, TailSet, Zenon
  <2> HIDE DEF u
  <2>3. NIL \notin SlotIds
    BY Sizes
  <2> QED
    BY <1>0, <1>3, <1>6, <2>1, <2>2, <2>3 DEF LruNextIs, TailIs, Around
<1> QED
  BY <1>5, <1>6

HashPushes(u, t, b, h) ==
  LET n == t.buckets[b]
  IN  /\ u \in Table /\ u.head = t.head /\ u.tail = t.tail /\ u.count = t.count
      /\ \A x \in Buckets : u.buckets[x] = IF x = b THEN h ELSE t.buckets[x]
      /\ \A x \in SlotIds :
           /\ u.slots[x].h_next = IF x = h THEN n ELSE t.slots[x].h_next
           /\ u.slots[x].h_prev = IF x = h THEN BucketRef(b) ELSE IF x = n THEN h
                                  ELSE t.slots[x].h_prev
           /\ u.slots[x].lru_prev = t.slots[x].lru_prev
           /\ u.slots[x].lru_next = t.slots[x].lru_next
           /\ u.slots[x].key = t.slots[x].key

LEMMA HashPushed ==
  ASSUME NEW t \in Table, NEW h \in SlotIds, NEW b \in Buckets, t.buckets[b] # h
  PROVE  HashPushes(hashPushFront(t, b, h), t, b, h)
<1> DEFINE n == t.buckets[b]
           c == BucketRef(b)
           o1   == [t EXCEPT !.slots[h].h_prev = c]
           own  == [o1 EXCEPT !.slots[h].h_next = n]
           back == IF n = NIL THEN own ELSE [own EXCEPT !.slots[n].h_prev = h]
           u == [back EXCEPT !.buckets[b] = h]
<1>1. hashPushFront(t, b, h) = u
  BY DEF hashPushFront
<1>2. /\ n \in SlotIds \cup {NIL} /\ n # h /\ h \in SlotIds \cup {NIL} /\ NIL \notin SlotIds
      /\ h \in SlotIds \cup {NIL} \cup {BucketRef(d) : d \in Buckets}
      /\ c \in SlotIds \cup {NIL} \cup {BucketRef(d) : d \in Buckets}
  BY TableTyped, Sizes
<1>0. HashPushes(u, t, b, h) <=>
        /\ u \in Table /\ u.head = t.head /\ u.tail = t.tail /\ u.count = t.count
        /\ \A x \in Buckets : u.buckets[x] = IF x = b THEN h ELSE t.buckets[x]
        /\ \A x \in SlotIds :
             /\ u.slots[x].h_next = IF x = h THEN n ELSE t.slots[x].h_next
             /\ u.slots[x].h_prev = IF x = h THEN c ELSE IF x = n THEN h
                                    ELSE t.slots[x].h_prev
             /\ u.slots[x].lru_prev = t.slots[x].lru_prev
             /\ u.slots[x].lru_next = t.slots[x].lru_next
             /\ u.slots[x].key = t.slots[x].key
  <2> HIDE DEF u
  <2> QED
    BY DEF HashPushes
<1> HIDE DEF n, c
<1>3. HPrevIs(o1, t, h, c)
  BY <1>2, HPrevSet, Zenon
<1>a. o1 \in Table
  BY <1>3 DEF HPrevIs, Around
<1> HIDE DEF o1
<1>4. HNextIs(own, o1, h, n)
  BY <1>2, <1>a, HNextSet, Zenon
<1>b. own \in Table
  BY <1>4 DEF HNextIs, Around
<1>5. /\ Around(back, own)
      /\ \A x \in SlotIds :
           /\ back.slots[x].lru_prev = own.slots[x].lru_prev
           /\ back.slots[x].lru_next = own.slots[x].lru_next
           /\ back.slots[x].h_prev = IF x = n THEN h ELSE own.slots[x].h_prev
           /\ back.slots[x].h_next = own.slots[x].h_next
           /\ back.slots[x].key = own.slots[x].key
  <2> HIDE DEF own
  <2>1. CASE n = NIL
    <3>1. back = own
      BY <2>1
    <3> HIDE DEF back
    <3> QED
      BY <1>2, <1>b, <2>1, <3>1 DEF Around
  <2>2. CASE n # NIL
    <3> DEFINE w == [own EXCEPT !.slots[n].h_prev = h]
    <3>1. back = w /\ n \in SlotIds
      BY <1>2, <2>2
    <3>2. HPrevIs(w, own, n, h)
      BY <1>2, <1>b, <3>1, HPrevSet, Zenon
    <3> HIDE DEF w, back
    <3> QED
      BY <3>1, <3>2 DEF HPrevIs
  <2> QED
    BY <2>1, <2>2
<1>c. back \in Table
  BY <1>5 DEF Around
<1> HIDE DEF own, back
<1>6. BucketIs(u, back, b, h)
  BY <1>2, <1>c, BucketSet, Zenon
<1> HIDE DEF u
<1> QED
  BY <1>0, <1>1, <1>2, <1>3, <1>4, <1>5, <1>6
     DEF HPrevIs, HNextIs, BucketIs, Around

HashUnlinks(u, t, h) ==
  LET p == t.slots[h].h_prev
      n == t.slots[h].h_next
  IN  /\ u \in Table /\ u.head = t.head /\ u.tail = t.tail /\ u.count = t.count
      /\ \A x \in Buckets : u.buckets[x] = IF p = BucketRef(x) THEN n ELSE t.buckets[x]
      /\ \A x \in SlotIds :
           /\ u.slots[x].h_next = IF x = h THEN NIL ELSE IF x = p THEN n
                                  ELSE t.slots[x].h_next
           /\ u.slots[x].h_prev = IF x = h THEN NIL ELSE IF x = n THEN p
                                  ELSE t.slots[x].h_prev
           /\ u.slots[x].lru_prev = t.slots[x].lru_prev
           /\ u.slots[x].lru_next = t.slots[x].lru_next
           /\ u.slots[x].key = t.slots[x].key

LEMMA HashUnlinked ==
  ASSUME NEW t \in Table, NEW h \in SlotIds, t.slots[h].h_prev # NIL
  PROVE  HashUnlinks(hashUnlink(t, h), t, h)
<1> DEFINE p == t.slots[h].h_prev
           n == t.slots[h].h_next
           fwd  == IF IsBucketRef(p) THEN [t EXCEPT !.buckets[p - nrecords] = n]
                                     ELSE [t EXCEPT !.slots[p].h_next = n]
           back == IF n = NIL THEN fwd ELSE [fwd EXCEPT !.slots[n].h_prev = p]
           o1 == [back EXCEPT !.slots[h].h_prev = NIL]
           u == [o1 EXCEPT !.slots[h].h_next = NIL]
<1>1. hashUnlink(t, h) = u
  BY DEF hashUnlink
<1>2. /\ n \in SlotIds \cup {NIL}
      /\ p \in SlotIds \cup {BucketRef(b) : b \in Buckets} /\ NIL \notin SlotIds
      /\ p \in SlotIds \cup {NIL} \cup {BucketRef(d) : d \in Buckets}
      /\ NIL \in SlotIds \cup {NIL} \cup {BucketRef(d) : d \in Buckets}
      /\ NIL \in SlotIds \cup {NIL}
  BY SlotTyped, Sizes
<1>0. HashUnlinks(u, t, h) <=>
        /\ u \in Table /\ u.head = t.head /\ u.tail = t.tail /\ u.count = t.count
        /\ \A x \in Buckets : u.buckets[x] = IF p = BucketRef(x) THEN n ELSE t.buckets[x]
        /\ \A x \in SlotIds :
             /\ u.slots[x].h_next = IF x = h THEN NIL ELSE IF x = p THEN n
                                    ELSE t.slots[x].h_next
             /\ u.slots[x].h_prev = IF x = h THEN NIL ELSE IF x = n THEN p
                                    ELSE t.slots[x].h_prev
             /\ u.slots[x].lru_prev = t.slots[x].lru_prev
             /\ u.slots[x].lru_next = t.slots[x].lru_next
             /\ u.slots[x].key = t.slots[x].key
  <2> HIDE DEF u
  <2> QED
    BY DEF HashUnlinks
<1> HIDE DEF n, p
<1>3. /\ fwd \in Table /\ fwd.head = t.head /\ fwd.tail = t.tail /\ fwd.count = t.count
      /\ \A x \in Buckets : fwd.buckets[x] = IF p = BucketRef(x) THEN n ELSE t.buckets[x]
      /\ \A x \in SlotIds :
           /\ fwd.slots[x].h_next = IF x = p THEN n ELSE t.slots[x].h_next
           /\ fwd.slots[x].h_prev = t.slots[x].h_prev
           /\ fwd.slots[x].lru_prev = t.slots[x].lru_prev
           /\ fwd.slots[x].lru_next = t.slots[x].lru_next
           /\ fwd.slots[x].key = t.slots[x].key
  <2>1. CASE IsBucketRef(p)
    <3> DEFINE b == p - nrecords
               w == [t EXCEPT !.buckets[b] = n]
    <3>1. fwd = w /\ p \notin SlotIds
      BY <2>1, Sizes
    <3>2. b \in Buckets /\ p = BucketRef(b)
      BY <1>2, <3>1, Sizes
    <3>3. \A x \in Buckets : p = BucketRef(x) <=> x = b
      BY <3>2, Sizes
    <3> HIDE DEF b
    <3>4. BucketIs(w, t, b, n)
      BY <1>2, <3>2, BucketSet, Zenon
    <3> HIDE DEF w, fwd
    <3> QED
      BY <3>1, <3>3, <3>4 DEF BucketIs
  <2>2. CASE ~IsBucketRef(p)
    <3> DEFINE w == [t EXCEPT !.slots[p].h_next = n]
    <3>1. fwd = w
      BY <2>2
    <3>2. p \in SlotIds /\ \A x \in Buckets : p # BucketRef(x)
      BY <1>2, <2>2, Sizes
    <3>3. HNextIs(w, t, p, n)
      BY <1>2, <3>2, HNextSet, Zenon
    <3> HIDE DEF w, fwd
    <3> QED
      BY <3>1, <3>2, <3>3 DEF HNextIs, Around
  <2> QED
    BY <2>1, <2>2
<1>a. fwd \in Table
  BY <1>3
<1> HIDE DEF fwd
<1>4. /\ Around(back, fwd)
      /\ \A x \in SlotIds :
           /\ back.slots[x].lru_prev = fwd.slots[x].lru_prev
           /\ back.slots[x].lru_next = fwd.slots[x].lru_next
           /\ back.slots[x].h_prev = IF x = n THEN p ELSE fwd.slots[x].h_prev
           /\ back.slots[x].h_next = fwd.slots[x].h_next
           /\ back.slots[x].key = fwd.slots[x].key
  <2>1. CASE n = NIL
    <3>1. back = fwd
      BY <2>1
    <3> HIDE DEF back
    <3> QED
      BY <1>2, <1>a, <2>1, <3>1 DEF Around
  <2>2. CASE n # NIL
    <3> DEFINE w == [fwd EXCEPT !.slots[n].h_prev = p]
    <3>1. back = w /\ n \in SlotIds
      BY <1>2, <2>2
    <3>2. HPrevIs(w, fwd, n, p)
      BY <1>2, <1>a, <3>1, HPrevSet, Zenon
    <3> HIDE DEF w, back
    <3> QED
      BY <3>1, <3>2 DEF HPrevIs
  <2> QED
    BY <2>1, <2>2
<1>b. back \in Table
  BY <1>4 DEF Around
<1> HIDE DEF back
<1>5. HPrevIs(o1, back, h, NIL)
  BY <1>2, <1>b, HPrevSet, Zenon
<1>c. o1 \in Table
  BY <1>5 DEF HPrevIs, Around
<1> HIDE DEF o1
<1>6. HNextIs(u, o1, h, NIL)
  BY <1>2, <1>c, HNextSet, Zenon
<1> HIDE DEF u
<1> QED
  BY <1>0, <1>1, <1>3, <1>4, <1>5, <1>6 DEF HPrevIs, HNextIs, Around

(* A slot other than the head is moved to the front.                       *)
Touches(u, t, h) ==
  LET p == t.slots[h].lru_prev
      n == t.slots[h].lru_next
  IN  /\ u \in Table /\ u.head = h /\ u.tail = (IF n = NIL THEN p ELSE t.tail)
      /\ u.buckets = t.buckets /\ u.count = t.count
      /\ \A x \in SlotIds :
           /\ u.slots[x].lru_next = IF x = h THEN t.head ELSE IF x = p THEN n
                                    ELSE t.slots[x].lru_next
           /\ u.slots[x].lru_prev = IF x = h THEN NIL ELSE IF x = t.head THEN h
                                    ELSE IF x = n THEN p ELSE t.slots[x].lru_prev
           /\ u.slots[x].h_prev = t.slots[x].h_prev
           /\ u.slots[x].h_next = t.slots[x].h_next
           /\ u.slots[x].key = t.slots[x].key

LEMMA Touched ==
  ASSUME NEW t \in Table, NEW h \in SlotIds,
         t.slots[h].lru_prev # NIL, t.head # NIL, t.tail # NIL, t.head # h
  PROVE  Touches(touchSlot(t, h), t, h)
<1> DEFINE w == lruUnlink(t, h)
           u == lruPushFront(w, h)
<1>1. touchSlot(t, h) = u
  BY DEF touchSlot
<1>2. LruUnlinks(w, t, h)
  BY LruUnlinked, Zenon
<1> HIDE DEF w
<1>3. w \in Table /\ w.head # NIL /\ w.tail # NIL /\ w.head # h
  BY <1>2 DEF LruUnlinks
<1>4. LruPushes(u, w, h)
  BY <1>3, LruPushed, Zenon
<1> HIDE DEF u
<1>5. Touches(u, t, h)
  BY <1>2, <1>4 DEF LruUnlinks, LruPushes, Touches
<1> QED
  BY <1>1, <1>5

-----------------------------------------------------------------------------
(* The LRU list as a whole.                                                *)

ToFront(L, j) ==
  [i \in Positions |-> IF i = 0 THEN L[j] ELSE IF i =< j THEN L[i - 1] ELSE L[i]]

LEMMA ToFrontLists ==
  ASSUME NEW L \in [Positions -> SlotIds], Injective(L),
         \A h \in SlotIds : \E i \in Positions : L[i] = h,
         NEW j \in Positions
  PROVE  /\ ToFront(L, j) \in [Positions -> SlotIds] /\ Injective(ToFront(L, j))
         /\ \A h \in SlotIds : \E i \in Positions : ToFront(L, j)[i] = h
<1> DEFINE M == ToFront(L, j)
<1>0. /\ \A i \in Positions : i \in Nat /\ i =< nrecords - 1 /\ (i # 0 => i - 1 \in Positions)
      /\ 0 \in Positions /\ nrecords \in Nat
      /\ \A i \in Nat : i =< nrecords - 1 => i \in Positions
  BY Sizes DEF Positions
<1>1. \A i \in Positions : M[i] = IF i = 0 THEN L[j] ELSE IF i =< j THEN L[i - 1] ELSE L[i]
  BY DEF ToFront
<1>a. \A i \in Positions : M[i] \in SlotIds
  BY <1>0, <1>1
<1>2. M \in [Positions -> SlotIds]
  BY <1>1, <1>a DEF ToFront
<1> HIDE DEF M
<1>3. \A a, b \in Positions : L[a] = L[b] => a = b
  BY DEF Injective
<1>4. \A a, b \in Positions : M[a] = M[b] => a = b
  <2> SUFFICES ASSUME NEW a \in Positions, NEW b \in Positions, M[a] = M[b]
               PROVE  a = b
    OBVIOUS
  <2> DEFINE at(i) == IF i = 0 THEN j ELSE IF i =< j THEN i - 1 ELSE i
  <2>0. ASSUME NEW i \in Positions
        PROVE  at(i) \in Positions /\ M[i] = L[at(i)]
    <3>1. at(i) \in Positions
      BY <1>0
    <3>2. M[i] = L[at(i)]
      BY <1>1
    <3> QED
      BY <3>1, <3>2
  <2>1. at(a) \in Positions /\ at(b) \in Positions /\ M[a] = L[at(a)] /\ M[b] = L[at(b)]
    BY <2>0
  <2>2. at(a) = at(b)
    BY <1>3, <2>1, Zenon
  <2>3. a \in Nat /\ b \in Nat /\ j \in Nat
    BY <1>0
  <2> QED
    BY <2>2, <2>3
<1>5. \A h \in SlotIds : \E i \in Positions : M[i] = h
  <2> SUFFICES ASSUME NEW h \in SlotIds
               PROVE  \E i \in Positions : M[i] = h
    OBVIOUS
  <2>1. PICK i \in Positions : L[i] = h
    OBVIOUS
  <2>0. i \in Nat /\ j \in Nat /\ i =< nrecords - 1 /\ j =< nrecords - 1
    BY <1>0
  <2>2. CASE i = j
    BY <1>0, <1>1, <2>1, <2>2
  <2>3. CASE i < j
    <3>1. i + 1 \in Positions
      BY <1>0, <2>0, <2>3
    <3>2. M[i + 1] = L[i]
      BY <1>1, <2>0, <2>3, <3>1
    <3> QED
      BY <2>1, <3>1, <3>2
  <2>4. CASE j < i
    <3>1. M[i] = L[i]
      BY <1>1, <2>0, <2>4
    <3> QED
      BY <2>1, <3>1
  <2> QED
    BY <2>0, <2>2, <2>3, <2>4
<1>6. Injective(M)
  BY <1>2, <1>4 DEF Injective
<1> QED
  BY <1>2, <1>5, <1>6 DEF M

LEMMA ToFrontLinks ==
  ASSUME NEW t \in Table, NEW L \in [Positions -> SlotIds], LruIs(t, L),
         NEW j \in Positions, j # 0, NEW u, Touches(u, t, L[j])
  PROVE  LruIs(u, ToFront(L, j))
<1> DEFINE M == ToFront(L, j)
           h == L[j]
           p == L[j - 1]
           n == IF j = nrecords - 1 THEN NIL ELSE L[j + 1]
           g == L[0]
<1>0. /\ nrecords \in Nat \ {0} /\ j \in Nat /\ 0 < j /\ j =< nrecords - 1
      /\ j - 1 \in Positions /\ 0 \in Positions
      /\ j # nrecords - 1 => j + 1 \in Positions
      /\ \A i \in Positions : L[i] \in SlotIds /\ L[i] # NIL
  BY Sizes DEF Positions
<1>1. /\ M \in [Positions -> SlotIds] /\ Injective(M)
      /\ \A x \in SlotIds : \E i \in Positions : M[i] = x
  BY ToFrontLists, Zenon DEF LruIs
<1>2. \A i \in Positions : M[i] = IF i = 0 THEN h ELSE IF i =< j THEN L[i - 1] ELSE L[i]
  BY DEF ToFront
<1>3. \A a, b \in Positions : L[a] = L[b] => a = b
  BY DEF Injective, LruIs
<1>4. \A i \in Positions :
        /\ t.slots[L[i]].lru_next = IF i = nrecords - 1 THEN NIL ELSE L[i + 1]
        /\ t.slots[L[i]].lru_prev = IF i = 0 THEN NIL ELSE L[i - 1]
  BY DEF LruIs
<1>5. t.slots[h].lru_prev = p /\ t.slots[h].lru_next = n
      /\ t.head = g /\ t.tail = L[nrecords - 1]
  BY <1>0, <1>4 DEF LruIs
<1>6. /\ u.head = h /\ u.tail = (IF n = NIL THEN p ELSE t.tail)
      /\ \A x \in SlotIds :
           /\ u.slots[x].lru_next = IF x = h THEN g ELSE IF x = p THEN n
                                    ELSE t.slots[x].lru_next
           /\ u.slots[x].lru_prev = IF x = h THEN NIL ELSE IF x = g THEN h
                                    ELSE IF x = n THEN p ELSE t.slots[x].lru_prev
  BY <1>5 DEF Touches
<1> HIDE DEF M
<1>7. u.head = M[0] /\ u.tail = M[nrecords - 1]
  <2>1. nrecords - 1 \in Positions
    BY <1>0 DEF Positions
  <2> QED
    BY <1>0, <1>2, <1>5, <1>6, <2>1
<1>8. ASSUME NEW i \in Positions
      PROVE  /\ u.slots[M[i]].lru_next = IF i = nrecords - 1 THEN NIL ELSE M[i + 1]
             /\ u.slots[M[i]].lru_prev = IF i = 0 THEN NIL ELSE M[i - 1]
  <2>0. /\ i \in Nat /\ i =< nrecords - 1
        /\ i # nrecords - 1 => i + 1 \in Positions
        /\ i # 0 => i - 1 \in Positions
    BY <1>0 DEF Positions
  <2>1. CASE i = 0
    BY <1>0, <1>2, <1>6, <2>0, <2>1
  <2>2. CASE 0 < i /\ i =< j
    <3> DEFINE x == L[i - 1]
    <3>1. M[i] = x /\ x \in SlotIds /\ x # h /\ x # n /\ (x = p <=> i = j) /\ (x = g <=> i = 1)
      BY <1>0, <1>2, <1>3, <2>0, <2>2
    <3>2. t.slots[x].lru_next = L[i]
      BY <1>0, <1>4, <2>0, <2>2
    <3>3. t.slots[x].lru_prev = IF i = 1 THEN NIL ELSE L[i - 2]
      BY <1>0, <1>4, <2>0, <2>2
    <3>4. i # nrecords - 1 => M[i + 1] = IF i = j THEN L[i + 1] ELSE L[i]
      BY <1>0, <1>2, <2>0, <2>2
    <3>5. M[i - 1] = IF i = 1 THEN h ELSE L[i - 2]
      BY <1>0, <1>2, <2>0, <2>2
    <3> HIDE DEF x
    <3>6. u.slots[x].lru_next = IF i = j THEN n ELSE L[i]
      BY <1>6, <3>1, <3>2
    <3>7. u.slots[x].lru_prev = IF i = 1 THEN h ELSE L[i - 2]
      BY <1>6, <3>1, <3>3
    <3> QED
      BY <1>0, <2>0, <2>2, <3>1, <3>4, <3>5, <3>6, <3>7
  <2>3. CASE j < i
    <3> DEFINE x == L[i]
    <3>1. M[i] = x /\ x \in SlotIds /\ x # h /\ x # p /\ x # g /\ (x = n <=> i = j + 1)
      BY <1>0, <1>2, <1>3, <2>0, <2>3
    <3>2. u.slots[x].lru_next = IF i = nrecords - 1 THEN NIL ELSE L[i + 1]
      BY <1>4, <1>6, <3>1
    <3>3. u.slots[x].lru_prev = IF i = j + 1 THEN p ELSE L[i - 1]
      BY <1>0, <1>4, <1>6, <2>0, <2>3, <3>1
    <3>4. i # nrecords - 1 => M[i + 1] = L[i + 1]
      BY <1>0, <1>2, <2>0, <2>3
    <3>5. M[i - 1] = IF i = j + 1 THEN p ELSE L[i - 1]
      BY <1>0, <1>2, <2>0, <2>3
    <3> QED
      BY <2>0, <2>3, <3>1, <3>2, <3>3, <3>4, <3>5
  <2> QED
    BY <1>0, <2>0, <2>1, <2>2, <2>3
<1>9. LruIs(u, M)
  BY <1>1, <1>7, <1>8 DEF LruIs
<1> QED
  BY <1>9 DEF M

-----------------------------------------------------------------------------
(* The chains as a whole.                                                  *)

LEMMA NoRepeats ==
  ASSUME NEW m \in Nat, NEW C \in [0 .. (m - 1) -> SlotIds], Injective(C)
  PROVE  m =< nrecords
<1>0. ASSUME NEW k \in Nat
      PROVE  IsFiniteSet(0 .. (k - 1)) /\ Cardinality(0 .. (k - 1)) = k
  <2>1. 0 \in Int /\ k - 1 \in Int
    OBVIOUS
  <2>2. /\ IsFiniteSet(0 .. (k - 1))
        /\ Cardinality(0 .. (k - 1)) = IF 0 > k - 1 THEN 0 ELSE (k - 1) - 0 + 1
    BY <2>1, FS_Interval, Zenon
  <2>3. (IF 0 > k - 1 THEN 0 ELSE (k - 1) - 0 + 1) = k
    OBVIOUS
  <2> QED
    BY <2>2, <2>3
<1>1. /\ IsFiniteSet(0 .. (m - 1)) /\ Cardinality(0 .. (m - 1)) = m
      /\ IsFiniteSet(SlotIds) /\ Cardinality(SlotIds) = nrecords
  BY <1>0, Sizes DEF SlotIds
<1> SUFFICES ASSUME nrecords < m
             PROVE  FALSE
  BY Sizes
<1>2. \E x, y \in 0 .. (m - 1) : x # y /\ C[x] = C[y]
  BY <1>1, FS_PigeonHole
<1> QED
  BY <1>2 DEF Injective

LEMMA ChainsCarry ==
  ASSUME NEW t, NEW u, NEW S, ChainsOver(t, S), u.buckets = t.buckets,
         \A x \in SlotIds : /\ u.slots[x].h_prev = t.slots[x].h_prev
                            /\ u.slots[x].h_next = t.slots[x].h_next
                            /\ x \in S => u.slots[x].key = t.slots[x].key
  PROVE  ChainsOver(u, S)
<1> SUFFICES ASSUME NEW b \in Buckets
             PROVE  \E m \in 0 .. nrecords : \E C \in [0 .. (m - 1) -> SlotIds] :
                      ChainOver(u, b, S, m, C)
  BY DEF ChainsOver
<1>0. PICK m \in 0 .. nrecords : \E C \in [0 .. (m - 1) -> SlotIds] : ChainOver(t, b, S, m, C)
  BY DEF ChainsOver
<1>1. PICK C \in [0 .. (m - 1) -> SlotIds] : ChainOver(t, b, S, m, C)
  BY <1>0
<1>2. ChainIs(u, b, m, C)
  BY <1>1 DEF ChainOver, ChainIs
<1>3. \A x \in SlotIds : x \in S => (Belongs(u, x, b) <=> Belongs(t, x, b))
  BY DEF Belongs
<1>4. ChainOver(u, b, S, m, C)
  BY <1>1, <1>2, <1>3 DEF ChainOver
<1> QED
  BY <1>4

(* A chain that neither loses a slot nor has one next to it changed.       *)
LEMMA ChainKept ==
  ASSUME NEW t, NEW u, NEW b \in Buckets, NEW S, NEW m \in Nat, NEW C, ChainIs(t, b, m, C),
         u.buckets[b] = t.buckets[b],
         \A i \in 0 .. (m - 1) : /\ u.slots[C[i]].h_prev = t.slots[C[i]].h_prev
                                 /\ u.slots[C[i]].h_next = t.slots[C[i]].h_next
  PROVE  ChainIs(u, b, m, C)
BY DEF ChainIs

LEMMA ChainCut ==
  ASSUME NEW t \in Table, NEW b \in Buckets, NEW m \in 1 .. nrecords,
         NEW C \in [0 .. (m - 1) -> SlotIds], ChainIs(t, b, m, C),
         NEW j \in 0 .. (m - 1), NEW u, HashUnlinks(u, t, C[j])
  PROVE  ChainIs(u, b, m - 1, [i \in 0 .. (m - 2) |-> IF i < j THEN C[i] ELSE C[i + 1]])
<1> DEFINE D == [i \in 0 .. (m - 2) |-> IF i < j THEN C[i] ELSE C[i + 1]]
           h == C[j]
           p == IF j = 0 THEN BucketRef(b) ELSE C[j - 1]
           n == IF j = m - 1 THEN NIL ELSE C[j + 1]
<1>0. /\ m \in Nat /\ 0 < m /\ j \in Nat /\ j =< m - 1
      /\ \A i \in 0 .. (m - 1) : C[i] \in SlotIds /\ C[i] # NIL
      /\ \A x \in SlotIds : x # BucketRef(b)
      /\ BucketRef(b) # NIL /\ (m - 1) - 1 = m - 2
  BY Sizes
<1>1. \A i \in 0 .. (m - 2) : D[i] = IF i < j THEN C[i] ELSE C[i + 1]
  OBVIOUS
<1>2. D \in [0 .. (m - 2) -> SlotIds]
  BY <1>0
<1>3. \A a, c \in 0 .. (m - 1) : C[a] = C[c] => a = c
  BY DEF Injective, ChainIs
<1>4. \A i \in 0 .. (m - 1) :
        /\ t.slots[C[i]].h_next = IF i = m - 1 THEN NIL ELSE C[i + 1]
        /\ t.slots[C[i]].h_prev = IF i = 0 THEN BucketRef(b) ELSE C[i - 1]
  BY DEF ChainIs
<1>5. t.slots[h].h_prev = p /\ t.slots[h].h_next = n /\ t.buckets[b] = C[0]
  BY <1>0, <1>4 DEF ChainIs
<1>6. /\ u.buckets[b] = IF p = BucketRef(b) THEN n ELSE C[0]
      /\ \A x \in SlotIds :
           /\ u.slots[x].h_next = IF x = h THEN NIL ELSE IF x = p THEN n
                                  ELSE t.slots[x].h_next
           /\ u.slots[x].h_prev = IF x = h THEN NIL ELSE IF x = n THEN p
                                  ELSE t.slots[x].h_prev
  BY <1>5 DEF HashUnlinks
<1> HIDE DEF D
<1>7. Injective(D)
  <2>1. \A a, c \in 0 .. (m - 2) : D[a] = D[c] => a = c
    <3> SUFFICES ASSUME NEW a \in 0 .. (m - 2), NEW c \in 0 .. (m - 2), D[a] = D[c]
                 PROVE  a = c
      OBVIOUS
    <3> DEFINE at(i) == IF i < j THEN i ELSE i + 1
    <3>1. /\ at(a) \in 0 .. (m - 1) /\ at(c) \in 0 .. (m - 1)
          /\ D[a] = C[at(a)] /\ D[c] = C[at(c)]
      BY <1>0, <1>1
    <3>2. at(a) = at(c)
      BY <1>3, <3>1, Zenon
    <3> QED
      BY <1>0, <3>2
  <2> QED
    BY <1>2, <2>1 DEF Injective
<1>8. u.buckets[b] = IF m - 1 = 0 THEN NIL ELSE D[0]
  <2>1. CASE j = 0
    BY <1>0, <1>1, <1>6, <2>1
  <2>2. CASE j # 0
    <3>1. p \in SlotIds /\ D[0] = C[0] /\ m - 1 # 0
      BY <1>0, <1>1, <2>2
    <3> QED
      BY <1>0, <1>6, <3>1
  <2> QED
    BY <2>1, <2>2
<1>9. ASSUME NEW i \in 0 .. (m - 2)
      PROVE  /\ u.slots[D[i]].h_next = IF i = m - 2 THEN NIL ELSE D[i + 1]
             /\ u.slots[D[i]].h_prev = IF i = 0 THEN BucketRef(b) ELSE D[i - 1]
  <2>0. i \in Nat /\ i =< m - 2
    BY <1>0
  <2>1. CASE i < j
    <3> DEFINE x == C[i]
    <3>1. D[i] = x /\ x \in SlotIds /\ x # h /\ x # n /\ (x = p <=> i = j - 1)
      BY <1>0, <1>1, <1>3, <2>0, <2>1
    <3>a. t.slots[x].h_next = C[i + 1]
      BY <1>0, <1>4, <2>0, <2>1
    <3>b. t.slots[x].h_prev = IF i = 0 THEN BucketRef(b) ELSE C[i - 1]
      BY <1>0, <1>4, <2>0, <2>1
    <3> HIDE DEF x
    <3>2. u.slots[x].h_next = IF i = j - 1 THEN n ELSE C[i + 1]
      BY <1>6, <3>1, <3>a
    <3>3. u.slots[x].h_prev = IF i = 0 THEN BucketRef(b) ELSE C[i - 1]
      BY <1>6, <3>1, <3>b
    <3>4. i # m - 2 => D[i + 1] = IF i = j - 1 THEN C[i + 2] ELSE C[i + 1]
      BY <1>0, <1>1, <2>0, <2>1
    <3>5. i # 0 => D[i - 1] = C[i - 1]
      BY <1>0, <1>1, <2>0, <2>1
    <3> QED
      BY <1>0, <2>0, <2>1, <3>1, <3>2, <3>3, <3>4, <3>5
  <2>2. CASE j =< i
    <3> DEFINE x == C[i + 1]
    <3>1. D[i] = x /\ x \in SlotIds /\ x # h /\ x # p /\ (x = n <=> i = j)
      BY <1>0, <1>1, <1>3, <2>0, <2>2
    <3>a. t.slots[x].h_next = IF i = m - 2 THEN NIL ELSE C[i + 2]
      BY <1>0, <1>4, <2>0, <2>2
    <3>b. t.slots[x].h_prev = C[i]
      BY <1>0, <1>4, <2>0, <2>2
    <3> HIDE DEF x
    <3>2. u.slots[x].h_next = IF i = m - 2 THEN NIL ELSE C[i + 2]
      BY <1>6, <3>1, <3>a
    <3>3. u.slots[x].h_prev = IF i = j THEN p ELSE C[i]
      BY <1>6, <3>1, <3>b
    <3>4. i # m - 2 => D[i + 1] = C[i + 2]
      BY <1>0, <1>1, <2>0, <2>2
    <3>5. i # 0 => D[i - 1] = IF i = j THEN C[j - 1] ELSE C[i]
      BY <1>0, <1>1, <2>0, <2>2
    <3> QED
      BY <1>0, <2>0, <2>2, <3>1, <3>2, <3>3, <3>4, <3>5
  <2> QED
    BY <1>0, <2>0, <2>1, <2>2
<1>10. ChainIs(u, b, m - 1, D)
  BY <1>0, <1>2, <1>7, <1>8, <1>9 DEF ChainIs
<1> QED
  BY <1>10 DEF D

(* A slot of a table whose chains hold it is on the one of its key.        *)
LEMMA OnItsChain ==
  ASSUME NEW t \in Table, ChainsOver(t, SlotIds), NEW h \in SlotIds, t.slots[h].key # 0
  PROVE  \E m \in 1 .. nrecords : \E C \in [0 .. (m - 1) -> SlotIds] : \E j \in 0 .. (m - 1) :
           /\ ChainOver(t, bucket(t.slots[h].key), SlotIds, m, C)
           /\ C[j] = h
<1> DEFINE b == bucket(t.slots[h].key)
<1>1. b \in Buckets
  BY SlotTyped, BucketOf
<1>2. Belongs(t, h, b)
  BY DEF Belongs
<1> HIDE DEF b
<1>3. PICK m \in 0 .. nrecords : \E C \in [0 .. (m - 1) -> SlotIds] :
        ChainOver(t, b, SlotIds, m, C)
  BY <1>1 DEF ChainsOver
<1>4. PICK C \in [0 .. (m - 1) -> SlotIds] : ChainOver(t, b, SlotIds, m, C)
  BY <1>3
<1>5. PICK j \in 0 .. (m - 1) : C[j] = h
  BY <1>2, <1>4 DEF ChainOver
<1>6. m \in 1 .. nrecords
  BY Sizes
<1> QED
  BY <1>4, <1>5, <1>6 DEF b

LEMMA HasPrevious ==
  ASSUME NEW t \in Table, ChainsOver(t, SlotIds), NEW h \in SlotIds, t.slots[h].key # 0
  PROVE  t.slots[h].h_prev # NIL
<1>1. PICK m \in 1 .. nrecords : \E C \in [0 .. (m - 1) -> SlotIds] : \E j \in 0 .. (m - 1) :
        ChainOver(t, bucket(t.slots[h].key), SlotIds, m, C) /\ C[j] = h
  BY OnItsChain, Zenon
<1>2. PICK C \in [0 .. (m - 1) -> SlotIds] : \E j \in 0 .. (m - 1) :
        ChainOver(t, bucket(t.slots[h].key), SlotIds, m, C) /\ C[j] = h
  BY <1>1
<1>3. PICK j \in 0 .. (m - 1) :
        ChainOver(t, bucket(t.slots[h].key), SlotIds, m, C) /\ C[j] = h
  BY <1>2
<1>4. bucket(t.slots[h].key) \in Buckets
  BY SlotTyped, BucketOf
<1>5. j # 0 => C[j - 1] \in SlotIds
  BY Sizes
<1>6. t.slots[h].h_prev = IF j = 0 THEN BucketRef(bucket(t.slots[h].key)) ELSE C[j - 1]
  BY <1>3 DEF ChainOver, ChainIs
<1> QED
  BY <1>4, <1>5, <1>6, Sizes

LEMMA ChainsLose ==
  ASSUME NEW t \in Table, ChainsOver(t, SlotIds), NEW h \in SlotIds, t.slots[h].key # 0,
         NEW u, HashUnlinks(u, t, h)
  PROVE  ChainsOver(u, SlotIds \ {h})
<1> DEFINE c == bucket(t.slots[h].key)
           p == t.slots[h].h_prev
           n == t.slots[h].h_next
<1>1. PICK m \in 1 .. nrecords : \E C \in [0 .. (m - 1) -> SlotIds] : \E j \in 0 .. (m - 1) :
        ChainOver(t, c, SlotIds, m, C) /\ C[j] = h
  BY OnItsChain, Zenon
<1>2. PICK C \in [0 .. (m - 1) -> SlotIds] : \E j \in 0 .. (m - 1) :
        ChainOver(t, c, SlotIds, m, C) /\ C[j] = h
  BY <1>1
<1>3. PICK j \in 0 .. (m - 1) : ChainOver(t, c, SlotIds, m, C) /\ C[j] = h
  BY <1>2
<1>4. c \in Buckets
  BY SlotTyped, BucketOf
<1>5. \A x \in SlotIds : \A b \in Buckets : Belongs(u, x, b) <=> Belongs(t, x, b)
  BY DEF HashUnlinks, Belongs
<1>6. \A x \in SlotIds : Belongs(t, x, c) <=> \E i \in 0 .. (m - 1) : C[i] = x
  BY <1>3 DEF ChainOver
<1>7. /\ p = IF j = 0 THEN BucketRef(c) ELSE C[j - 1]
      /\ n = IF j = m - 1 THEN NIL ELSE C[j + 1]
  BY <1>3 DEF ChainOver, ChainIs
<1>8. /\ p \in SlotIds => Belongs(t, p, c)
      /\ n \in SlotIds => Belongs(t, n, c)
      /\ Belongs(t, h, c)
      /\ p \notin SlotIds => p = BucketRef(c)
  <2>1. j # 0 => j - 1 \in 0 .. (m - 1)
    BY Sizes
  <2>2. j # m - 1 => j + 1 \in 0 .. (m - 1)
    BY Sizes
  <2>3. BucketRef(c) \notin SlotIds /\ NIL \notin SlotIds
    BY <1>4, Sizes
  <2>4. Belongs(t, h, c)
    BY DEF Belongs
  <2> HIDE DEF p, n, c
  <2> QED
    BY <1>6, <1>7, <2>1, <2>2, <2>3, <2>4
<1>9. ASSUME NEW b \in Buckets, b # c
      PROVE  \E k \in 0 .. nrecords : \E D \in [0 .. (k - 1) -> SlotIds] :
               ChainOver(u, b, SlotIds \ {h}, k, D)
  <2>1. PICK k \in 0 .. nrecords : \E D \in [0 .. (k - 1) -> SlotIds] :
          ChainOver(t, b, SlotIds, k, D)
    BY DEF ChainsOver
  <2>2. PICK D \in [0 .. (k - 1) -> SlotIds] : ChainOver(t, b, SlotIds, k, D)
    BY <2>1
  <2>3. \A x \in SlotIds : Belongs(t, x, b) => ~Belongs(t, x, c)
    BY <1>9 DEF Belongs
  <2>4. \A i \in 0 .. (k - 1) : D[i] \in SlotIds /\ Belongs(t, D[i], b)
    BY <2>2 DEF ChainOver
  <2>5. \A i \in 0 .. (k - 1) : D[i] # h /\ D[i] # p /\ D[i] # n
    BY <1>8, <2>3, <2>4
  <2>6. \A i \in 0 .. (k - 1) : /\ u.slots[D[i]].h_prev = t.slots[D[i]].h_prev
                                /\ u.slots[D[i]].h_next = t.slots[D[i]].h_next
    BY <2>4, <2>5 DEF HashUnlinks
  <2>7. p # BucketRef(b)
    <3>1. BucketRef(b) \notin SlotIds /\ BucketRef(b) # BucketRef(c)
      BY <1>4, <1>9, Sizes
    <3> QED
      BY <1>8, <3>1
  <2>8. u.buckets[b] = t.buckets[b]
    BY <2>7 DEF HashUnlinks
  <2>9. ChainIs(t, b, k, D) /\ k \in Nat
    BY <2>2, Sizes DEF ChainOver
  <2>10. ChainIs(u, b, k, D)
    BY <2>6, <2>8, <2>9, ChainKept, Zenon
  <2>11. ~Belongs(t, h, b)
    BY <1>8, <2>3
  <2>12. ChainOver(u, b, SlotIds \ {h}, k, D)
    BY <1>5, <2>2, <2>10, <2>11 DEF ChainOver
  <2> QED
    BY <2>12
<1>10. \E k \in 0 .. nrecords : \E D \in [0 .. (k - 1) -> SlotIds] :
         ChainOver(u, c, SlotIds \ {h}, k, D)
  <2> DEFINE D == [i \in 0 .. (m - 2) |-> IF i < j THEN C[i] ELSE C[i + 1]]
  <2>1. HashUnlinks(u, t, C[j]) /\ ChainIs(t, c, m, C) /\ c \in Buckets
    BY <1>3, <1>4 DEF ChainOver
  <2> HIDE DEF c
  <2>2. ChainIs(u, c, m - 1, D)
    BY <2>1, ChainCut, Zenon
  <2>3. m - 1 \in 0 .. nrecords /\ (m - 1) - 1 = m - 2
    BY Sizes
  <2>4. D \in [0 .. ((m - 1) - 1) -> SlotIds]
    BY <2>2 DEF ChainIs
  <2>5. \A i \in 0 .. (m - 2) : D[i] = IF i < j THEN C[i] ELSE C[i + 1]
    OBVIOUS
  <2> HIDE DEF D
  <2>6. ASSUME NEW x \in SlotIds
        PROVE  (\E i \in 0 .. (m - 2) : D[i] = x) <=> x # h /\ \E i \in 0 .. (m - 1) : C[i] = x
    <3>0. \A a, e \in 0 .. (m - 1) : C[a] = C[e] => a = e
      BY <2>1 DEF ChainIs, Injective
    <3>1. ASSUME NEW i \in 0 .. (m - 2), D[i] = x
          PROVE  x # h /\ \E a \in 0 .. (m - 1) : C[a] = x
      <4> DEFINE a == IF i < j THEN i ELSE i + 1
      <4>1. a \in 0 .. (m - 1) /\ a # j /\ C[a] = x
        BY <2>5, <3>1
      <4> QED
        BY <1>3, <3>0, <4>1
    <3>2. ASSUME NEW a \in 0 .. (m - 1), C[a] = x, x # h
          PROVE  \E i \in 0 .. (m - 2) : D[i] = x
      <4> DEFINE i == IF a < j THEN a ELSE a - 1
      <4>1. a # j
        BY <1>3, <3>2
      <4>2. i \in 0 .. (m - 2)
        BY <4>1
      <4>3. D[i] = x
        BY <2>5, <3>2, <4>1, <4>2
      <4> QED
        BY <4>2, <4>3
    <3> QED
      BY <3>1, <3>2
  <2>7. \A x \in SlotIds : Belongs(u, x, c) <=> \E i \in 0 .. (m - 1) : C[i] = x
    BY <1>5, <1>6, <2>1
  <2>8. ChainOver(u, c, SlotIds \ {h}, m - 1, D)
    BY <2>2, <2>3, <2>6, <2>7 DEF ChainOver
  <2> QED
    BY <2>3, <2>4, <2>8
<1> HIDE DEF c
<1>11. \A b \in Buckets : \E k \in 0 .. nrecords : \E D \in [0 .. (k - 1) -> SlotIds] :
         ChainOver(u, b, SlotIds \ {h}, k, D)
  BY <1>9, <1>10
<1> QED
  BY <1>11 DEF ChainsOver

LEMMA ChainGrown ==
  ASSUME NEW t \in Table, NEW b \in Buckets, NEW m \in 0 .. nrecords,
         NEW C \in [0 .. (m - 1) -> SlotIds], ChainIs(t, b, m, C),
         NEW h \in SlotIds, \A i \in 0 .. (m - 1) : C[i] # h,
         NEW u, HashPushes(u, t, b, h)
  PROVE  /\ ChainIs(u, b, m + 1, [i \in 0 .. m |-> IF i = 0 THEN h ELSE C[i - 1]])
         /\ m + 1 =< nrecords
<1> DEFINE D == [i \in 0 .. m |-> IF i = 0 THEN h ELSE C[i - 1]]
           n == IF m = 0 THEN NIL ELSE C[0]
<1>0. /\ m \in Nat /\ (m + 1) - 1 = m /\ m + 1 \in Nat /\ m + 1 # 0
      /\ \A i \in 0 .. (m - 1) : C[i] \in SlotIds /\ C[i] # NIL
      /\ NIL \notin SlotIds
  BY Sizes
<1>1. \A i \in 0 .. m : D[i] = IF i = 0 THEN h ELSE C[i - 1]
  OBVIOUS
<1>2. D \in [0 .. ((m + 1) - 1) -> SlotIds]
  BY <1>0
<1>3. \A a, c \in 0 .. (m - 1) : C[a] = C[c] => a = c
  BY DEF Injective, ChainIs
<1>4. \A i \in 0 .. (m - 1) :
        /\ t.slots[C[i]].h_next = IF i = m - 1 THEN NIL ELSE C[i + 1]
        /\ t.slots[C[i]].h_prev = IF i = 0 THEN BucketRef(b) ELSE C[i - 1]
  BY DEF ChainIs
<1>5. t.buckets[b] = n
  BY DEF ChainIs
<1>6. /\ u.buckets[b] = h
      /\ \A x \in SlotIds :
           /\ u.slots[x].h_next = IF x = h THEN n ELSE t.slots[x].h_next
           /\ u.slots[x].h_prev = IF x = h THEN BucketRef(b) ELSE IF x = n THEN h
                                  ELSE t.slots[x].h_prev
  BY <1>5 DEF HashPushes
<1> HIDE DEF D
<1>7. Injective(D)
  <2>1. \A a, c \in 0 .. m : D[a] = D[c] => a = c
    <3> SUFFICES ASSUME NEW a \in 0 .. m, NEW c \in 0 .. m, D[a] = D[c]
                 PROVE  a = c
      OBVIOUS
    <3>1. CASE a = 0 \/ c = 0
      <4>1. \A i \in 0 .. m : i # 0 => i - 1 \in 0 .. (m - 1) /\ D[i] = C[i - 1]
        BY <1>0, <1>1
      <4>2. \A i \in 0 .. m : D[i] = h => i = 0
        BY <4>1
      <4>3. D[0] = h
        BY <1>0, <1>1
      <4> QED
        BY <3>1, <4>2, <4>3
    <3>2. CASE a # 0 /\ c # 0
      <4>1. /\ a - 1 \in 0 .. (m - 1) /\ c - 1 \in 0 .. (m - 1)
            /\ D[a] = C[a - 1] /\ D[c] = C[c - 1]
        BY <1>0, <1>1, <3>2
      <4>2. a - 1 = c - 1
        BY <1>3, <4>1
      <4> QED
        BY <1>0, <4>2
    <3> QED
      BY <3>1, <3>2
  <2> QED
    BY <1>0, <1>2, <2>1 DEF Injective
<1>8. u.buckets[b] = IF m + 1 = 0 THEN NIL ELSE D[0]
  <2>1. 0 \in 0 .. m
    BY <1>0
  <2>2. D[0] = h
    BY <1>1, <2>1
  <2> QED
    BY <1>0, <1>6, <2>2
<1>9. ASSUME NEW i \in 0 .. m
      PROVE  /\ u.slots[D[i]].h_next = IF i = m THEN NIL ELSE D[i + 1]
             /\ u.slots[D[i]].h_prev = IF i = 0 THEN BucketRef(b) ELSE D[i - 1]
  <2>1. CASE i = 0
    <3>1. D[i] = h /\ (m # 0 => D[1] = C[0])
      BY <1>0, <1>1, <2>1
    <3> QED
      BY <1>0, <1>6, <2>1, <3>1
  <2>2. CASE i # 0
    <3> DEFINE x == C[i - 1]
    <3>0. i - 1 \in 0 .. (m - 1) /\ i \in Nat /\ i =< m
      BY <1>0, <2>2
    <3>1. D[i] = x /\ x \in SlotIds /\ x # h /\ (x = n <=> i = 1)
      BY <1>0, <1>1, <1>3, <2>2, <3>0
    <3>2. t.slots[x].h_next = IF i = m THEN NIL ELSE C[i]
      BY <1>0, <1>4, <3>0
    <3>3. t.slots[x].h_prev = IF i = 1 THEN BucketRef(b) ELSE C[i - 2]
      <4>1. t.slots[x].h_prev = IF i - 1 = 0 THEN BucketRef(b)
                                             ELSE C[(i - 1) - 1]
        BY <1>4, <3>0
      <4>2. (i - 1 = 0 <=> i = 1) /\ (i - 1) - 1 = i - 2
        BY <3>0
      <4> HIDE DEF x
      <4> QED
        BY <4>1, <4>2
    <3> HIDE DEF x
    <3>4. u.slots[x].h_next = IF i = m THEN NIL ELSE C[i]
      BY <1>6, <3>1, <3>2
    <3>5. u.slots[x].h_prev = IF i = 1 THEN h ELSE C[i - 2]
      BY <1>6, <3>1, <3>3
    <3>6. i # m => D[i + 1] = C[i]
      BY <1>0, <1>1, <3>0
    <3>7. D[i - 1] = IF i = 1 THEN h ELSE C[i - 2]
      BY <1>0, <1>1, <2>2, <3>0
    <3> QED
      BY <2>2, <3>1, <3>4, <3>5, <3>6, <3>7
  <2> QED
    BY <2>1, <2>2
<1>10. ChainIs(u, b, m + 1, D)
  BY <1>0, <1>2, <1>7, <1>8, <1>9 DEF ChainIs
<1>11. m + 1 =< nrecords
  BY <1>0, <1>2, <1>7, NoRepeats, Zenon
<1> QED
  BY <1>10, <1>11 DEF D

LEMMA FirstBelongs ==
  ASSUME NEW t, NEW S, ChainsOver(t, S), NEW b \in Buckets, t.buckets[b] # NIL
  PROVE  t.buckets[b] \in S /\ Belongs(t, t.buckets[b], b)
<1>1. PICK m \in 0 .. nrecords : \E C \in [0 .. (m - 1) -> SlotIds] : ChainOver(t, b, S, m, C)
  BY DEF ChainsOver
<1>2. PICK C \in [0 .. (m - 1) -> SlotIds] : ChainOver(t, b, S, m, C)
  BY <1>1
<1>3. m # 0
  BY <1>2 DEF ChainOver, ChainIs
<1>4. 0 \in 0 .. (m - 1)
  BY <1>3, Sizes
<1>5. t.buckets[b] = C[0] /\ C[0] \in SlotIds
  BY <1>2, <1>3, <1>4 DEF ChainOver, ChainIs
<1> QED
  BY <1>2, <1>4, <1>5 DEF ChainOver

LEMMA ChainsGain ==
  ASSUME NEW t \in Table, NEW h \in SlotIds, ChainsOver(t, SlotIds \ {h}),
         NEW b \in Buckets, Belongs(t, h, b), NEW u, HashPushes(u, t, b, h)
  PROVE  ChainsOver(u, SlotIds)
<1>1. \A x \in SlotIds : \A c \in Buckets : Belongs(u, x, c) <=> Belongs(t, x, c)
  BY DEF HashPushes, Belongs
<1>2. \A c \in Buckets : Belongs(t, h, c) <=> c = b
  BY DEF Belongs
<1> SUFFICES ASSUME NEW c \in Buckets
             PROVE  \E k \in 0 .. nrecords : \E D \in [0 .. (k - 1) -> SlotIds] :
                      ChainOver(u, c, SlotIds, k, D)
  BY DEF ChainsOver
<1>3. PICK m \in 0 .. nrecords : \E C \in [0 .. (m - 1) -> SlotIds] :
        ChainOver(t, c, SlotIds \ {h}, m, C)
  BY DEF ChainsOver
<1>4. PICK C \in [0 .. (m - 1) -> SlotIds] : ChainOver(t, c, SlotIds \ {h}, m, C)
  BY <1>3
<1>5. \A i \in 0 .. (m - 1) : C[i] \in SlotIds /\ C[i] # h /\ Belongs(t, C[i], c)
  BY <1>4 DEF ChainOver
<1>6. CASE c # b
  <2>1. \A i \in 0 .. (m - 1) : C[i] # t.buckets[b]
    <3>1. t.buckets[b] # NIL => Belongs(t, t.buckets[b], b)
      BY FirstBelongs, Zenon
    <3>2. \A i \in 0 .. (m - 1) : C[i] # NIL /\ ~Belongs(t, C[i], b)
      BY <1>5, <1>6, Sizes DEF Belongs
    <3> QED
      BY <3>1, <3>2
  <2>2. \A i \in 0 .. (m - 1) : /\ u.slots[C[i]].h_prev = t.slots[C[i]].h_prev
                                /\ u.slots[C[i]].h_next = t.slots[C[i]].h_next
    BY <1>5, <2>1 DEF HashPushes
  <2>3. u.buckets[c] = t.buckets[c]
    BY <1>6 DEF HashPushes
  <2>4. ChainIs(t, c, m, C) /\ m \in Nat
    BY <1>4, Sizes DEF ChainOver
  <2>5. ChainIs(u, c, m, C)
    BY <2>2, <2>3, <2>4, ChainKept, Zenon
  <2>6. ChainOver(u, c, SlotIds, m, C)
    BY <1>1, <1>2, <1>4, <1>6, <2>5 DEF ChainOver
  <2> QED
    BY <2>6
<1>7. CASE c = b
  <2> DEFINE D == [i \in 0 .. m |-> IF i = 0 THEN h ELSE C[i - 1]]
  <2>1. ChainIs(t, c, m, C) /\ HashPushes(u, t, c, h)
    BY <1>4, <1>7 DEF ChainOver
  <2>2. \A i \in 0 .. (m - 1) : C[i] # h
    BY <1>5
  <2>3. ChainIs(u, c, m + 1, D) /\ m + 1 =< nrecords
    BY <2>1, <2>2, ChainGrown, Zenon
  <2>4. /\ m + 1 \in 0 .. nrecords /\ (m + 1) - 1 = m
        /\ \A i \in 0 .. m : D[i] = IF i = 0 THEN h ELSE C[i - 1]
    BY <2>3, Sizes
  <2>5. D \in [0 .. ((m + 1) - 1) -> SlotIds]
    BY <2>3 DEF ChainIs
  <2> HIDE DEF D
  <2>6. ASSUME NEW x \in SlotIds
        PROVE  (\E i \in 0 .. m : D[i] = x) <=> x = h \/ \E i \in 0 .. (m - 1) : C[i] = x
    <3>1. 0 \in 0 .. m /\ D[0] = h
      BY <2>4, Sizes
    <3>2. \A i \in 0 .. (m - 1) : i + 1 \in 0 .. m /\ D[i + 1] = C[i]
      BY <2>4, Sizes
    <3>3. \A i \in 0 .. m : i # 0 => i - 1 \in 0 .. (m - 1) /\ D[i] = C[i - 1]
      BY <2>4, Sizes
    <3> QED
      BY <3>1, <3>2, <3>3
  <2>7. ChainOver(u, c, SlotIds, m + 1, D)
    BY <1>1, <1>2, <1>4, <1>7, <2>3, <2>4, <2>6 DEF ChainOver
  <2> QED
    BY <2>4, <2>5, <2>7
<1> QED
  BY <1>6, <1>7

-----------------------------------------------------------------------------
(* Induction over the naturals, for a set in place of a predicate.         *)

LEMMA LeastElement ==
  ASSUME NEW T \in SUBSET Nat, T # {}
  PROVE  \E x \in T : \A y \in T : x =< y
<1> DEFINE R == {e \in Nat \X Nat : e[1] < e[2]}
<1>1. IsWellFoundedOn(R, Nat)
  BY NatLessThanWellFounded DEF OpToRel
<1>2. \A x, y \in Nat : y < x => <<y, x>> \in R
  OBVIOUS
<1> HIDE DEF R
<1>3. PICK x \in T : \A y \in T : <<y, x>> \notin R
  BY <1>1, WFMin, Zenon
<1>4. \A y \in T : ~(y < x)
  BY <1>2, <1>3
<1> QED
  BY <1>3, <1>4

LEMMA InductionOnNat ==
  ASSUME NEW S, 0 \in S, \A n \in Nat : n \in S => n + 1 \in S
  PROVE  Nat \subseteq S
<1> SUFFICES ASSUME ~(Nat \subseteq S)
             PROVE  FALSE
  OBVIOUS
<1>1. PICK x \in Nat \ S : \A y \in Nat \ S : x =< y
  BY LeastElement
<1>2. x - 1 \in Nat
  BY <1>1
<1>3. x - 1 \in S
  BY <1>1, <1>2
<1> QED
  BY <1>1, <1>2, <1>3

-----------------------------------------------------------------------------
(* Walking down a list meets its slots and then NIL.                       *)

Walks(at, first, next) ==
  at = [i \in 0 .. nrecords |->
          IF i = 0 THEN first ELSE IF at[i - 1] = NIL THEN NIL ELSE next[at[i - 1]]]

(* What the walk down a list of the m slots of C is.                       *)
Met(at, m, C) == at = [i \in 0 .. nrecords |-> IF i < m THEN C[i] ELSE NIL]

LEMMA WalkExists ==
  ASSUME NEW first, NEW next, NEW m \in 0 .. nrecords, NEW C \in [0 .. (m - 1) -> SlotIds],
         first = (IF m = 0 THEN NIL ELSE C[0]),
         \A i \in 0 .. (m - 1) : next[C[i]] = IF i = m - 1 THEN NIL ELSE C[i + 1]
  PROVE  Walks([i \in 0 .. nrecords |-> IF i < m THEN C[i] ELSE NIL], first, next)
<1> DEFINE f == [i \in 0 .. nrecords |-> IF i < m THEN C[i] ELSE NIL]
<1>0. m \in Nat /\ nrecords \in Nat /\ \A i \in 0 .. (m - 1) : C[i] # NIL
  BY Sizes
<1>1. \A i \in 0 .. nrecords : f[i] = IF i < m THEN C[i] ELSE NIL
  OBVIOUS
<1>2. ASSUME NEW i \in 0 .. nrecords
      PROVE  (IF i < m THEN C[i] ELSE NIL) =
               IF i = 0 THEN first ELSE IF f[i - 1] = NIL THEN NIL ELSE next[f[i - 1]]
  <2> HIDE DEF f
  <2>1. CASE i = 0
    BY <1>0, <2>1
  <2>2. CASE i # 0
    <3>1. i - 1 \in 0 .. nrecords /\ i - 1 \in Nat
      BY <1>0, <2>2
    <3>2. CASE m < i
      BY <1>0, <1>1, <2>2, <3>1, <3>2
    <3>3. CASE i =< m
      <4>1. i - 1 \in 0 .. (m - 1)
        BY <1>0, <3>1, <3>3
      <4>2. f[i - 1] = C[i - 1] /\ C[i - 1] # NIL
        BY <1>0, <1>1, <3>1, <3>3, <4>1
      <4>3. next[C[i - 1]] = IF i = m THEN NIL ELSE C[i]
        BY <1>0, <4>1
      <4> QED
        BY <1>0, <2>2, <3>3, <4>2, <4>3
    <3> QED
      BY <1>0, <3>2, <3>3
  <2> QED
    BY <2>1, <2>2
<1>3. f = [i \in 0 .. nrecords |-> f[i]]
  OBVIOUS
<1>4. \A i \in 0 .. nrecords :
        f[i] = IF i = 0 THEN first ELSE IF f[i - 1] = NIL THEN NIL ELSE next[f[i - 1]]
  BY <1>2
<1> HIDE DEF f
<1>5. Walks(f, first, next)
  BY <1>3, <1>4, Zenon DEF Walks
<1> QED
  BY <1>5 DEF f

LEMMA WalkUnique ==
  ASSUME NEW first, NEW next, NEW f, NEW g, Walks(f, first, next), Walks(g, first, next)
  PROVE  f = g
<1> DEFINE S == {n \in Nat : n =< nrecords => f[n] = g[n]}
<1>0. nrecords \in Nat
  BY Sizes
<1>1. /\ DOMAIN f = 0 .. nrecords /\ f = [i \in 0 .. nrecords |-> f[i]]
      /\ g = [i \in 0 .. nrecords |-> g[i]]
      /\ \A i \in 0 .. nrecords :
           f[i] = IF i = 0 THEN first ELSE IF f[i - 1] = NIL THEN NIL ELSE next[f[i - 1]]
      /\ \A i \in 0 .. nrecords :
           g[i] = IF i = 0 THEN first ELSE IF g[i - 1] = NIL THEN NIL ELSE next[g[i - 1]]
  BY DEF Walks
<1>2. 0 \in S
  <2>1. 0 \in 0 .. nrecords
    BY <1>0
  <2>2. f[0] = first /\ g[0] = first
    BY <1>1, <2>1, Zenon
  <2> QED
    BY <2>2
<1>3. \A n \in Nat : n \in S => n + 1 \in S
  <2> SUFFICES ASSUME NEW n \in Nat, n \in S, n + 1 =< nrecords
               PROVE  f[n + 1] = g[n + 1]
    OBVIOUS
  <2>1. n + 1 \in 0 .. nrecords /\ n + 1 # 0 /\ (n + 1) - 1 = n /\ f[n] = g[n]
    BY <1>0
  <2> DEFINE k == n + 1
  <2>2. k \in 0 .. nrecords /\ k # 0 /\ f[k - 1] = g[k - 1]
    BY <2>1
  <2> HIDE DEF k
  <2>3. f[k] = IF f[k - 1] = NIL THEN NIL ELSE next[f[k - 1]]
    BY <1>1, <2>2, Zenon
  <2>4. g[k] = IF g[k - 1] = NIL THEN NIL ELSE next[g[k - 1]]
    BY <1>1, <2>2, Zenon
  <2>5. f[k] = g[k]
    BY <2>2, <2>3, <2>4, Zenon
  <2> QED
    BY <2>5 DEF k
<1> HIDE DEF S
<1>4. Nat \subseteq S
  BY <1>2, <1>3, InductionOnNat
<1>5. \A i \in 0 .. nrecords : f[i] = g[i]
  BY <1>0, <1>4 DEF S
<1> QED
  BY <1>1, <1>5

LruWalk(at, t) ==
  at = [i \in 0 .. nrecords |->
          IF i = 0 THEN t.head
          ELSE IF at[i - 1] = NIL THEN NIL ELSE t.slots[at[i - 1]].lru_next]

LruRuns(t, m, C) ==
  /\ C \in [0 .. (m - 1) -> SlotIds]
  /\ t.head = IF m = 0 THEN NIL ELSE C[0]
  /\ \A i \in 0 .. (m - 1) : t.slots[C[i]].lru_next = IF i = m - 1 THEN NIL ELSE C[i + 1]

LEMMA LruNext ==
  ASSUME NEW t, NEW m \in 0 .. nrecords, NEW C, LruRuns(t, m, C)
  PROVE  Met(LruAt(t), m, C)
<1> DEFINE f == [i \in 0 .. nrecords |-> IF i < m THEN C[i] ELSE NIL]
           g == CHOOSE at : LruWalk(at, t)
           X == SlotIds \cup {g[i] : i \in 0 .. nrecords}
           next == [x \in X |-> t.slots[x].lru_next]
<1>0. /\ C \in [0 .. (m - 1) -> SlotIds]
      /\ t.head = (IF m = 0 THEN NIL ELSE C[0])
      /\ \A i \in 0 .. (m - 1) : t.slots[C[i]].lru_next = IF i = m - 1 THEN NIL ELSE C[i + 1]
  BY DEF LruRuns
<1>1. \A i \in 0 .. nrecords : f[i] \in SlotIds \cup {NIL}
  BY <1>0, Sizes
<1>2. \A x \in X : next[x] = t.slots[x].lru_next
  OBVIOUS
<1>3. SlotIds \subseteq X /\ \A i \in 0 .. nrecords : g[i] \in X
  OBVIOUS
<1>4. \A i \in 0 .. nrecords : i # 0 => i - 1 \in 0 .. nrecords
  BY Sizes
<1>5. LruAt(t) = g
  BY DEF LruAt, LruWalk
<1>6. f = [i \in 0 .. nrecords |-> f[i]]
  OBVIOUS
<1> HIDE DEF g, X, next
<1>7. \A i \in 0 .. (m - 1) : next[C[i]] = IF i = m - 1 THEN NIL ELSE C[i + 1]
  BY <1>0, <1>2, <1>3
<1>8. Walks(f, t.head, next)
  BY <1>0, <1>7, WalkExists, Zenon
<1> HIDE DEF f
<1>9. \A i \in 0 .. nrecords :
        f[i] = IF i = 0 THEN t.head ELSE IF f[i - 1] = NIL THEN NIL ELSE next[f[i - 1]]
  BY <1>8 DEF Walks
<1>10. \A i \in 0 .. nrecords :
         f[i] = IF i = 0 THEN t.head
                ELSE IF f[i - 1] = NIL THEN NIL ELSE t.slots[f[i - 1]].lru_next
  BY <1>1, <1>2, <1>3, <1>4, <1>9
<1>11. LruWalk(f, t)
  BY <1>6, <1>10, Zenon DEF LruWalk
<1>12. LruWalk(g, t)
  BY <1>11, Zenon DEF g
<1>13. g = [i \in 0 .. nrecords |-> g[i]]
  BY <1>12, Zenon DEF LruWalk
<1>14. \A i \in 0 .. nrecords :
         g[i] = IF i = 0 THEN t.head
                ELSE IF g[i - 1] = NIL THEN NIL ELSE t.slots[g[i - 1]].lru_next
  BY <1>12 DEF LruWalk
<1>15. \A i \in 0 .. nrecords :
         g[i] = IF i = 0 THEN t.head ELSE IF g[i - 1] = NIL THEN NIL ELSE next[g[i - 1]]
  BY <1>2, <1>3, <1>4, <1>14
<1>16. Walks(g, t.head, next)
  BY <1>13, <1>15, Zenon DEF Walks
<1>17. f = g
  BY <1>8, <1>16, WalkUnique, Zenon
<1> QED
  BY <1>5, <1>17 DEF f, Met

ChainWalk(at, t, b) ==
  at = [i \in 0 .. nrecords |->
          IF i = 0 THEN t.buckets[b]
          ELSE IF at[i - 1] = NIL THEN NIL ELSE t.slots[at[i - 1]].h_next]

ChainRuns(t, b, m, C) ==
  /\ C \in [0 .. (m - 1) -> SlotIds]
  /\ t.buckets[b] = IF m = 0 THEN NIL ELSE C[0]
  /\ \A i \in 0 .. (m - 1) : t.slots[C[i]].h_next = IF i = m - 1 THEN NIL ELSE C[i + 1]

LEMMA ChainNext ==
  ASSUME NEW t, NEW b, NEW m \in 0 .. nrecords, NEW C, ChainRuns(t, b, m, C)
  PROVE  Met(ChainAt(t, b), m, C)
<1> DEFINE f == [i \in 0 .. nrecords |-> IF i < m THEN C[i] ELSE NIL]
           g == CHOOSE at : ChainWalk(at, t, b)
           X == SlotIds \cup {g[i] : i \in 0 .. nrecords}
           next == [x \in X |-> t.slots[x].h_next]
<1>0. /\ C \in [0 .. (m - 1) -> SlotIds]
      /\ t.buckets[b] = (IF m = 0 THEN NIL ELSE C[0])
      /\ \A i \in 0 .. (m - 1) : t.slots[C[i]].h_next = IF i = m - 1 THEN NIL ELSE C[i + 1]
  BY DEF ChainRuns
<1>1. \A i \in 0 .. nrecords : f[i] \in SlotIds \cup {NIL}
  BY <1>0, Sizes
<1>2. \A x \in X : next[x] = t.slots[x].h_next
  OBVIOUS
<1>3. SlotIds \subseteq X /\ \A i \in 0 .. nrecords : g[i] \in X
  OBVIOUS
<1>4. \A i \in 0 .. nrecords : i # 0 => i - 1 \in 0 .. nrecords
  BY Sizes
<1>5. ChainAt(t, b) = g
  BY DEF ChainAt, ChainWalk
<1>6. f = [i \in 0 .. nrecords |-> f[i]]
  OBVIOUS
<1> HIDE DEF g, X, next
<1>7. \A i \in 0 .. (m - 1) : next[C[i]] = IF i = m - 1 THEN NIL ELSE C[i + 1]
  BY <1>0, <1>2, <1>3
<1>8. Walks(f, t.buckets[b], next)
  BY <1>0, <1>7, WalkExists, Zenon
<1> HIDE DEF f
<1>9. \A i \in 0 .. nrecords :
        f[i] = IF i = 0 THEN t.buckets[b] ELSE IF f[i - 1] = NIL THEN NIL ELSE next[f[i - 1]]
  BY <1>8 DEF Walks
<1>10. \A i \in 0 .. nrecords :
         f[i] = IF i = 0 THEN t.buckets[b]
                ELSE IF f[i - 1] = NIL THEN NIL ELSE t.slots[f[i - 1]].h_next
  BY <1>1, <1>2, <1>3, <1>4, <1>9
<1>11. ChainWalk(f, t, b)
  BY <1>6, <1>10, Zenon DEF ChainWalk
<1>12. ChainWalk(g, t, b)
  BY <1>11, Zenon DEF g
<1>13. g = [i \in 0 .. nrecords |-> g[i]]
  BY <1>12, Zenon DEF ChainWalk
<1>14. \A i \in 0 .. nrecords :
         g[i] = IF i = 0 THEN t.buckets[b]
                ELSE IF g[i - 1] = NIL THEN NIL ELSE t.slots[g[i - 1]].h_next
  BY <1>12 DEF ChainWalk
<1>15. \A i \in 0 .. nrecords :
         g[i] = IF i = 0 THEN t.buckets[b] ELSE IF g[i - 1] = NIL THEN NIL ELSE next[g[i - 1]]
  BY <1>2, <1>3, <1>4, <1>14
<1>16. Walks(g, t.buckets[b], next)
  BY <1>13, <1>15, Zenon DEF Walks
<1>17. f = g
  BY <1>8, <1>16, WalkUnique, Zenon
<1> QED
  BY <1>5, <1>17 DEF f, Met

LEMMA LruAtIs ==
  ASSUME NEW t, NEW L, LruIs(t, L), NEW at, at = LruAt(t)
  PROVE  at[nrecords] = NIL /\ \A i \in Positions : at[i] = L[i]
<1>1. nrecords \in 0 .. nrecords /\ 0 .. (nrecords - 1) = Positions /\ nrecords # 0
  BY Sizes DEF Positions
<1>2. t.head = (IF nrecords = 0 THEN NIL ELSE L[0])
  BY <1>1 DEF LruIs
<1>3. \A i \in 0 .. (nrecords - 1) :
        t.slots[L[i]].lru_next = IF i = nrecords - 1 THEN NIL ELSE L[i + 1]
  BY <1>1 DEF LruIs
<1>4. L \in [0 .. (nrecords - 1) -> SlotIds]
  BY <1>1 DEF LruIs
<1> HIDE DEF Positions
<1>5. LruAt(t) = [i \in 0 .. nrecords |-> IF i < nrecords THEN L[i] ELSE NIL]
  <2> DEFINE m == nrecords
  <2>1. m \in 0 .. nrecords /\ LruRuns(t, m, L)
    BY <1>1, <1>2, <1>3, <1>4 DEF LruRuns
  <2> HIDE DEF m
  <2>2. Met(LruAt(t), m, L)
    BY <2>1, LruNext, Zenon
  <2> QED
    BY <2>2 DEF m, Met
<1>6. \A i \in 0 .. nrecords : at[i] = IF i < nrecords THEN L[i] ELSE NIL
  BY <1>5
<1>7. ~(nrecords < nrecords) /\ \A i \in Positions : i < nrecords /\ i \in 0 .. nrecords
  BY Sizes DEF Positions
<1> QED
  BY <1>1, <1>6, <1>7

LEMMA ChainAtIs ==
  ASSUME NEW t, NEW b, NEW m \in 0 .. nrecords, NEW C, ChainIs(t, b, m, C),
         NEW at, at = ChainAt(t, b)
  PROVE  at = [i \in 0 .. nrecords |-> IF i < m THEN C[i] ELSE NIL]
<1>1. ChainRuns(t, b, m, C)
  BY DEF ChainIs, ChainRuns
<1>2. Met(ChainAt(t, b), m, C)
  BY <1>1, ChainNext, Zenon
<1> QED
  BY <1>2 DEF Met

-----------------------------------------------------------------------------
(* The calls.                                                              *)

LEMMA FindsKeyed ==
  ASSUME NEW t \in Table, ChainsOver(t, SlotIds), NEW k \in Key, find(t, k) # NIL
  PROVE  find(t, k) \in SlotIds /\ t.slots[find(t, k)].key = k
<1> DEFINE b == bucket(k)
           at == ChainAt(t, b)
           hits == {i \in 0 .. nrecords : at[i] # NIL /\ t.slots[at[i]].key = k}
           least == CHOOSE i \in hits : \A j \in hits : i =< j
<1>1. find(t, k) = IF hits = {} THEN NIL ELSE at[least]
  BY DEF find
<1>2. b \in Buckets
  BY BucketOf
<1> HIDE DEF b
<1>3. PICK m \in 0 .. nrecords : \E C \in [0 .. (m - 1) -> SlotIds] :
        ChainOver(t, b, SlotIds, m, C)
  BY <1>2 DEF ChainsOver
<1>4. PICK C \in [0 .. (m - 1) -> SlotIds] : ChainOver(t, b, SlotIds, m, C)
  BY <1>3
<1>5. at = [i \in 0 .. nrecords |-> IF i < m THEN C[i] ELSE NIL]
  BY <1>4, ChainAtIs DEF ChainOver
<1> HIDE DEF at
<1>6. \A i \in 0 .. nrecords : at[i] \in SlotIds \cup {NIL}
  BY <1>5, Sizes
<1>7. hits # {} /\ hits \in SUBSET Nat
  BY <1>1, Sizes
<1> HIDE DEF hits
<1>8. \E i \in hits : \A j \in hits : i =< j
  BY <1>7, LeastElement
<1>9. least \in hits
  BY <1>8
<1>10. find(t, k) = at[least]
  BY <1>1, <1>7
<1> HIDE DEF least
<1> QED
  BY <1>6, <1>9, <1>10 DEF hits

(* What is left in place by a touch.                                       *)
KeptBut(u, t) ==
  /\ u \in Table /\ u.buckets = t.buckets /\ u.count = t.count
  /\ \A x \in SlotIds : /\ u.slots[x].h_prev = t.slots[x].h_prev
                        /\ u.slots[x].h_next = t.slots[x].h_next
                        /\ u.slots[x].key = t.slots[x].key

LEMMA Moved ==
  ASSUME NEW t \in Table, NEW L \in [Positions -> SlotIds], LruIs(t, L), NEW j \in Positions
  PROVE  /\ LruIs(touchSlot(t, L[j]), ToFront(L, j))
         /\ KeptBut(touchSlot(t, L[j]), t)
<1>0. /\ 0 \in Positions /\ nrecords - 1 \in Positions
      /\ j # 0 => j - 1 \in Positions
  BY Sizes DEF Positions
<1>a. /\ \A i \in Positions : L[i] \in SlotIds /\ L[i] # NIL
      /\ t.head = L[0] /\ t.tail = L[nrecords - 1]
  BY Sizes DEF LruIs
<1>1. CASE j = 0
  <2>1. touchSlot(t, L[j]) = t
    BY <1>0, <1>a, <1>1 DEF touchSlot
  <2>2. \A i \in Positions : (IF i = 0 THEN L[j] ELSE IF i =< j THEN L[i - 1] ELSE L[i]) = L[i]
    BY <1>1 DEF Positions
  <2>3. ToFront(L, j) = L
    BY <2>2 DEF ToFront
  <2> QED
    BY <2>1, <2>3 DEF KeptBut
<1>2. CASE j # 0
  <2> DEFINE h == L[j]
             u == touchSlot(t, h)
  <2>1. t.slots[h].lru_prev = L[j - 1]
    BY <1>0, <1>a, <1>2 DEF LruIs
  <2>2. t.head # h
    BY <1>0, <1>a, <1>2 DEF LruIs, Injective
  <2>3. /\ h \in SlotIds /\ t.slots[h].lru_prev # NIL
        /\ t.head # NIL /\ t.tail # NIL /\ t.head # h
    BY <1>0, <1>a, <1>2, <2>1, <2>2
  <2>4. Touches(u, t, h)
    <3> HIDE DEF h
    <3> QED
      BY <2>3, Touched, Zenon
  <2> HIDE DEF u
  <2>5. LruIs(u, ToFront(L, j))
    BY <1>2, <2>4, ToFrontLinks, Zenon
  <2>6. KeptBut(u, t)
    BY <2>4 DEF Touches, KeptBut
  <2> QED
    BY <2>5, <2>6 DEF u
<1> QED
  BY <1>1, <1>2

LEMMA KeyedAgain ==
  ASSUME NEW t \in Table, NEW L \in [Positions -> SlotIds], NEW j \in Positions, NEW u,
         KeptBut(u, t), LruIs(u, ToFront(L, j)),
         t.slots[L[j]].key # 0, 0 < t.count,
         \A i \in Positions : i # j => (t.slots[L[i]].key # 0 <=>
                                          IF i < j THEN i + 1 < t.count ELSE i < t.count)
  PROVE  KeyedBefore(u, ToFront(L, j)) /\ Listed(u)
<1> DEFINE M == ToFront(L, j)
<1>1. \A i \in Positions : M[i] = IF i = 0 THEN L[j] ELSE IF i =< j THEN L[i - 1] ELSE L[i]
  BY DEF ToFront
<1>2. t.count \in Nat /\ nrecords \in Nat
  BY TableTyped, Sizes
<1> HIDE DEF M
<1>3. ASSUME NEW i \in Positions
      PROVE  t.slots[M[i]].key # 0 <=> i < t.count
  <2>0. i \in Nat /\ j \in Nat /\ (i # 0 => i - 1 \in Positions)
    BY <1>2 DEF Positions
  <2>1. CASE i = 0
    BY <1>1, <1>2, <2>0, <2>1
  <2>2. CASE i # 0 /\ i =< j
    <3>1. M[i] = L[i - 1]
      BY <1>1, <2>2
    <3>2. i - 1 \in Positions /\ i - 1 # j /\ i - 1 < j /\ (i - 1) + 1 = i
      BY <2>0, <2>2
    <3> QED
      BY <3>1, <3>2
  <2>3. CASE j < i
    <3>1. M[i] = L[i]
      BY <1>1, <2>0, <2>3
    <3> QED
      BY <2>0, <2>3, <3>1
  <2> QED
    BY <2>0, <2>1, <2>2, <2>3
<1>4. LruIs(u, M) /\ M \in [Positions -> SlotIds]
  BY DEF LruIs, M
<1>5. \A i \in Positions : u.slots[M[i]].key # 0 <=> i < u.count
  BY <1>3, <1>4 DEF KeptBut
<1> QED
  BY <1>4, <1>5 DEF Listed, KeyedBefore, M

LEMMA TouchDone ==
  ASSUME NEW t, t \in Table, ChainsOver(t, SlotIds), NEW L \in [Positions -> SlotIds],
         LruIs(t, L), KeyedBefore(t, L), NEW j \in Positions, t.slots[L[j]].key # 0
  PROVE  /\ LruIs(touchSlot(t, L[j]), ToFront(L, j)) /\ KeptBut(touchSlot(t, L[j]), t)
         /\ KeyedBefore(touchSlot(t, L[j]), ToFront(L, j))
         /\ Sound(touchSlot(t, L[j]))
<1> DEFINE h == L[j]
<1>0. t \in Table
  OBVIOUS
<1>1. LruIs(t, L) /\ \A i \in Positions : t.slots[L[i]].key # 0 <=> i < t.count
  BY DEF KeyedBefore
<1>2. L[j] = h /\ t.slots[h].key # 0
  OBVIOUS
<1> DEFINE u == touchSlot(t, h)
<1>3. LruIs(u, ToFront(L, j)) /\ KeptBut(u, t)
  BY <1>0, <1>1, <1>2, Moved
<1> HIDE DEF u
<1>4. j < t.count
  BY <1>1, <1>2
<1>5. KeyedBefore(u, ToFront(L, j)) /\ Listed(u)
  <2>1. t.count \in Nat
    BY <1>0, TableTyped, Sizes
  <2>2. \A i \in Positions : i # j =>
          (t.slots[L[i]].key # 0 <=> IF i < j THEN i + 1 < t.count ELSE i < t.count)
    <3> SUFFICES ASSUME NEW i \in Positions, i # j
                 PROVE  t.slots[L[i]].key # 0 <=> IF i < j THEN i + 1 < t.count ELSE i < t.count
      OBVIOUS
    <3>1. t.slots[L[i]].key # 0 <=> i < t.count
      BY <1>1
    <3>2. i \in Nat /\ j \in Nat
      BY DEF Positions
    <3>3. i < j => i < t.count /\ i + 1 < t.count
      BY <1>4, <2>1, <3>2
    <3> QED
      BY <3>1, <3>3
  <2>3. t.slots[L[j]].key # 0 /\ 0 < t.count
    BY <1>2, <1>4, <2>1 DEF Positions
  <2> QED
    BY <1>0, <1>3, <2>2, <2>3, KeyedAgain
<1>6. ChainsOver(u, SlotIds)
  <2>1. /\ ChainsOver(t, SlotIds) /\ u.buckets = t.buckets
        /\ \A x \in SlotIds : /\ u.slots[x].h_prev = t.slots[x].h_prev
                              /\ u.slots[x].h_next = t.slots[x].h_next
                              /\ x \in SlotIds => u.slots[x].key = t.slots[x].key
    BY <1>3 DEF KeptBut
  <2> QED
    BY <2>1, ChainsCarry
<1>7. Sound(u)
  BY <1>3, <1>5, <1>6 DEF Sound, KeptBut
<1> QED
  BY <1>3, <1>5, <1>7 DEF u

LEMMA TouchKeeps ==
  ASSUME NEW t, Sound(t), NEW h \in SlotIds, t.slots[h].key # 0
  PROVE  Sound(touchSlot(t, h))
<1>1. PICK L \in [Positions -> SlotIds] : LruIs(t, L) /\ KeyedBefore(t, L)
  BY DEF Sound, Listed
<1>2. PICK j \in Positions : L[j] = h
  BY <1>1 DEF LruIs
<1>3. t \in Table /\ ChainsOver(t, SlotIds) /\ t.slots[L[j]].key # 0
  BY <1>2 DEF Sound
<1> QED
  BY <1>1, <1>2, <1>3, TouchDone

(* The slot at the tail, out of its chain if it was on one.                *)
Frees(u, t, h) ==
  /\ u \in Table /\ u.head = t.head /\ u.tail = t.tail
  /\ u.count = IF t.slots[h].key # 0 THEN t.count ELSE t.count + 1
  /\ \A x \in SlotIds : /\ u.slots[x].lru_prev = t.slots[x].lru_prev
                        /\ u.slots[x].lru_next = t.slots[x].lru_next
                        /\ u.slots[x].key = t.slots[x].key
  /\ ChainsOver(u, SlotIds \ {h})

LEMMA Freed ==
  ASSUME NEW t \in Table, ChainsOver(t, SlotIds), NEW h \in SlotIds,
         t.slots[h].key = 0 => t.count < nrecords
  PROVE  Frees(IF t.slots[h].key # 0 THEN hashUnlink(t, h) ELSE [t EXCEPT !.count = t.count + 1],
               t, h)
<1>1. CASE t.slots[h].key # 0
  <2> DEFINE u == hashUnlink(t, h)
  <2>1. t.slots[h].h_prev # NIL
    BY <1>1, HasPrevious
  <2>2. HashUnlinks(u, t, h)
    BY <2>1, HashUnlinked, Zenon
  <2> HIDE DEF u
  <2>3. ChainsOver(u, SlotIds \ {h})
    BY <1>1, <2>2, ChainsLose, Zenon
  <2>4. Frees(u, t, h)
    BY <1>1, <2>2, <2>3 DEF HashUnlinks, Frees
  <2> QED
    BY <1>1, <2>4 DEF u
<1>2. CASE t.slots[h].key = 0
  <2> DEFINE n == t.count + 1
             u == [t EXCEPT !.count = n]
  <2>1. n \in 0 .. nrecords
    BY <1>2, TableTyped, Sizes
  <2> HIDE DEF n
  <2>2. CountIs(u, t, n)
    BY <2>1, CountSet, Zenon
  <2> HIDE DEF u
  <2>3. \A b \in Buckets : ~Belongs(t, h, b)
    BY <1>2 DEF Belongs
  <2>4. ChainsOver(t, SlotIds \ {h})
    BY <2>3 DEF ChainsOver, ChainOver
  <2>5. ChainsOver(u, SlotIds \ {h})
    BY <2>2, <2>4, ChainsCarry DEF CountIs
  <2>6. Frees(u, t, h)
    BY <1>2, <2>2, <2>5 DEF CountIs, Frees, n
  <2> QED
    BY <1>2, <2>6 DEF u, n
<1> QED
  BY <1>1, <1>2

(* A create takes the tail, gives it the key and puts it in front.         *)
Creates(u, t, L, k) ==
  /\ u \in Table /\ LruIs(u, ToFront(L, nrecords - 1))
  /\ u.count = IF t.slots[t.tail].key # 0 THEN t.count ELSE t.count + 1
  /\ \A x \in SlotIds : u.slots[x].key = IF x = t.tail THEN k ELSE t.slots[x].key

LEMMA Created ==
  ASSUME NEW t, t \in Table, ChainsOver(t, SlotIds), NEW k \in Key,
         NEW L \in [Positions -> SlotIds], LruIs(t, L), KeyedBefore(t, L)
  PROVE  /\ Creates(createKey(t, k), t, L, k)
         /\ KeyedBefore(createKey(t, k), ToFront(L, nrecords - 1))
         /\ Sound(createKey(t, k))
<1> DEFINE h == t.tail
           z == nrecords - 1
           b == bucket(k)
           freed == IF t.slots[h].key # 0 THEN hashUnlink(t, h)
                                          ELSE [t EXCEPT !.count = t.count + 1]
           keyed == [freed EXCEPT !.slots[h].key = k]
           pushed == hashPushFront(keyed, b, h)
           u == touchSlot(pushed, h)
<1>0. createKey(t, k) = u
  BY DEF createKey
<1>1. t \in Table /\ ChainsOver(t, SlotIds)
  OBVIOUS
<1>2. LruIs(t, L) /\ \A i \in Positions : t.slots[L[i]].key # 0 <=> i < t.count
  BY DEF KeyedBefore
<1>3. z \in Positions /\ h = L[z] /\ h \in SlotIds
  BY <1>2, Sizes DEF LruIs, Positions
<1>4. t.count \in Nat /\ t.count =< nrecords /\ nrecords \in Nat
  BY <1>1, TableTyped, Sizes
<1>5. t.slots[h].key = 0 => t.count < nrecords
  BY <1>2, <1>3, <1>4
<1>6. t.slots[h].key # 0 => t.count = nrecords
  BY <1>2, <1>3, <1>4
<1>7. b \in Buckets /\ k # 0
  BY BucketOf, Sizes
<1> HIDE DEF h, b
<1>8. Frees(freed, t, h)
  BY <1>1, <1>3, <1>5, Freed, Zenon
<1> HIDE DEF freed
<1>9. freed \in Table /\ ChainsOver(freed, SlotIds \ {h})
  BY <1>8 DEF Frees
<1>10. KeyIs(keyed, freed, h, k)
  BY <1>3, <1>9, KeySet, Zenon
<1> HIDE DEF keyed
<1>11. ChainsOver(keyed, SlotIds \ {h})
  BY <1>9, <1>10, ChainsCarry DEF KeyIs, Around
<1>12. keyed \in Table /\ Belongs(keyed, h, b)
  BY <1>3, <1>7, <1>10 DEF KeyIs, Around, Belongs, b
<1>13. keyed.buckets[b] # h
  <2>1. CASE keyed.buckets[b] = NIL
    BY <1>3, <2>1, Sizes
  <2>2. CASE keyed.buckets[b] # NIL
    <3>1. keyed.buckets[b] \in SlotIds \ {h}
      BY <1>7, <1>11, <2>2, FirstBelongs, Zenon
    <3> QED
      BY <3>1
  <2> QED
    BY <2>1, <2>2
<1>14. HashPushes(pushed, keyed, b, h)
  BY <1>3, <1>7, <1>12, <1>13, HashPushed, Zenon
<1> HIDE DEF pushed
<1>15. ChainsOver(pushed, SlotIds)
  BY <1>3, <1>7, <1>11, <1>12, <1>14, ChainsGain, Zenon
<1>16. /\ pushed \in Table /\ pushed.head = t.head /\ pushed.tail = t.tail
       /\ pushed.count = IF t.slots[h].key # 0 THEN t.count ELSE t.count + 1
       /\ \A x \in SlotIds : /\ pushed.slots[x].lru_prev = t.slots[x].lru_prev
                             /\ pushed.slots[x].lru_next = t.slots[x].lru_next
                             /\ pushed.slots[x].key = IF x = h THEN k ELSE t.slots[x].key
  BY <1>8, <1>10, <1>14 DEF HashPushes, KeyIs, Around, Frees
<1>17. LruIs(pushed, L)
  BY <1>2, <1>16 DEF LruIs
<1>18. LruIs(u, ToFront(L, z)) /\ KeptBut(u, pushed)
  BY <1>3, <1>16, <1>17, Moved
<1> HIDE DEF u
<1>19. KeyedBefore(u, ToFront(L, z)) /\ Listed(u)
  <2>1. ASSUME NEW i \in Positions, i # z
        PROVE  pushed.slots[L[i]].key # 0 <=>
                 IF i < z THEN i + 1 < pushed.count ELSE i < pushed.count
    <3>1. L[i] # h /\ L[i] \in SlotIds
      BY <1>2, <1>3, <2>1 DEF LruIs, Injective
    <3>2. pushed.slots[L[i]].key # 0 <=> i < t.count
      BY <1>2, <1>16, <3>1
    <3>3. i \in Nat /\ i < z
      BY <1>4, <2>1 DEF Positions
    <3>4. CASE t.slots[h].key # 0
      BY <1>4, <1>6, <1>16, <3>2, <3>3, <3>4
    <3>5. CASE t.slots[h].key = 0
      BY <1>4, <1>16, <3>2, <3>3, <3>5
    <3> QED
      BY <3>4, <3>5
  <2>2. 0 < pushed.count
    <3>1. nrecords # 0
      BY Sizes
    <3> QED
      BY <1>4, <1>6, <1>16, <3>1
  <2>3. pushed.slots[L[z]].key # 0
    BY <1>3, <1>7, <1>16
  <2> QED
    BY <1>3, <1>16, <1>18, <2>1, <2>2, <2>3, KeyedAgain
<1>20. ChainsOver(u, SlotIds)
  BY <1>15, <1>18, ChainsCarry DEF KeptBut
<1>21. Sound(u)
  BY <1>18, <1>19, <1>20 DEF Sound, KeptBut
<1>22. Creates(u, t, L, k)
  BY <1>16, <1>18 DEF KeptBut, Creates, h
<1> QED
  BY <1>0, <1>19, <1>21, <1>22

LEMMA CreateKeeps ==
  ASSUME NEW t, Sound(t), NEW k \in Key
  PROVE  Sound(createKey(t, k))
<1>1. PICK L \in [Positions -> SlotIds] : LruIs(t, L) /\ KeyedBefore(t, L)
  BY DEF Sound, Listed
<1>2. t \in Table /\ ChainsOver(t, SlotIds)
  BY DEF Sound
<1> QED
  BY <1>1, <1>2, Created

LEMMA SetupSound == Sound(setup)
<1> DEFINE s == [i \in SlotIds |-> [lru_prev |-> IF i = nrecords - 1 THEN NIL ELSE i + 1,
                                    lru_next |-> IF i = 0 THEN NIL ELSE i - 1,
                                    h_prev |-> NIL, h_next |-> NIL, key |-> 0]]
           d == [b \in Buckets |-> NIL]
           L == [i \in Positions |-> (nrecords - 1) - i]
           C == [i \in 0 .. (0 - 1) |-> 0]
<1>0. setup = [slots |-> s, buckets |-> d, head |-> nrecords - 1, tail |-> 0, count |-> 0]
  BY DEF setup
<1>1. \A i \in SlotIds : /\ s[i].lru_prev = IF i = nrecords - 1 THEN NIL ELSE i + 1
                         /\ s[i].lru_next = IF i = 0 THEN NIL ELSE i - 1
                         /\ s[i].h_prev = NIL /\ s[i].h_next = NIL /\ s[i].key = 0
  OBVIOUS
<1>2. s \in [SlotIds -> Slot]
  <2>1. ASSUME NEW i \in SlotIds
        PROVE  [lru_prev |-> IF i = nrecords - 1 THEN NIL ELSE i + 1,
                lru_next |-> IF i = 0 THEN NIL ELSE i - 1,
                h_prev |-> NIL, h_next |-> NIL, key |-> 0] \in Slot
    <3>1. /\ (IF i = nrecords - 1 THEN NIL ELSE i + 1) \in SlotIds \cup {NIL}
          /\ (IF i = 0 THEN NIL ELSE i - 1) \in SlotIds \cup {NIL}
      BY Sizes DEF SlotIds
    <3> QED
      BY <3>1 DEF Slot
  <2> QED
    BY <2>1
<1>3. d \in [Buckets -> SlotIds \cup {NIL}] /\ \A b \in Buckets : d[b] = NIL
  OBVIOUS
<1> HIDE DEF s, d
<1>4. /\ setup.slots = s /\ setup.buckets = d /\ setup.head = nrecords - 1
      /\ setup.tail = 0 /\ setup.count = 0
  BY <1>0
<1>5. setup \in Table
  BY <1>0, <1>2, <1>3, Sizes DEF Table
<1> USE DEF Positions
<1>6. /\ L \in [Positions -> SlotIds] /\ \A i \in Positions : L[i] = (nrecords - 1) - i
      /\ Injective(L)
  BY Sizes DEF SlotIds, Injective
<1>7. \A h \in SlotIds : \E i \in Positions : L[i] = h
  <2> SUFFICES ASSUME NEW h \in SlotIds
               PROVE  \E i \in Positions : L[i] = h
    OBVIOUS
  <2>1. (nrecords - 1) - h \in Positions /\ (nrecords - 1) - ((nrecords - 1) - h) = h
    BY Sizes DEF SlotIds
  <2> QED
    BY <1>6, <2>1
<1> HIDE DEF L
<1>8. \A i \in Positions :
        /\ s[L[i]].lru_next = IF i = nrecords - 1 THEN NIL ELSE L[i + 1]
        /\ s[L[i]].lru_prev = IF i = 0 THEN NIL ELSE L[i - 1]
        /\ s[L[i]].key = 0
  <2> SUFFICES ASSUME NEW i \in Positions
               PROVE  /\ s[L[i]].lru_next = IF i = nrecords - 1 THEN NIL ELSE L[i + 1]
                      /\ s[L[i]].lru_prev = IF i = 0 THEN NIL ELSE L[i - 1]
                      /\ s[L[i]].key = 0
    OBVIOUS
  <2>1. /\ i \in Nat /\ i =< nrecords - 1 /\ nrecords \in Nat
        /\ L[i] = (nrecords - 1) - i /\ L[i] \in SlotIds
    BY <1>6, Sizes
  <2>2. i # nrecords - 1 => L[i + 1] = L[i] - 1
    BY <1>6, <2>1
  <2>3. i # 0 => L[i - 1] = L[i] + 1
    BY <1>6, <2>1
  <2>4. (L[i] = 0 <=> i = nrecords - 1) /\ (L[i] = nrecords - 1 <=> i = 0)
    BY <2>1
  <2>5. /\ s[L[i]].lru_prev = IF L[i] = nrecords - 1 THEN NIL ELSE L[i] + 1
        /\ s[L[i]].lru_next = IF L[i] = 0 THEN NIL ELSE L[i] - 1
        /\ s[L[i]].key = 0
    BY <1>1, <2>1
  <2> QED
    BY <2>2, <2>3, <2>4, <2>5
<1>9. nrecords - 1 = L[0] /\ 0 = L[nrecords - 1]
  BY <1>6, Sizes
<1>10. LruIs(setup, L)
  BY <1>4, <1>6, <1>7, <1>8, <1>9 DEF LruIs
<1>11. \A i \in Positions : setup.slots[L[i]].key # 0 <=> i < setup.count
  BY <1>4, <1>8
<1>12. Listed(setup)
  BY <1>6, <1>10, <1>11 DEF Listed, KeyedBefore
<1>13. ChainsOver(setup, SlotIds)
  <2>1. C \in [0 .. (0 - 1) -> SlotIds] /\ Injective(C)
    BY DEF Injective
  <2> HIDE DEF C
  <2>2. ASSUME NEW b \in Buckets
        PROVE  ChainOver(setup, b, SlotIds, 0, C)
    <3>1. ChainIs(setup, b, 0, C)
      BY <1>3, <1>4, <2>1 DEF ChainIs
    <3>2. \A h \in SlotIds : ~Belongs(setup, h, b)
      BY <1>1, <1>4 DEF Belongs
    <3> QED
      BY <3>1, <3>2 DEF ChainOver
  <2>3. 0 \in 0 .. nrecords
    BY Sizes
  <2> QED
    BY <2>1, <2>2, <2>3 DEF ChainsOver
<1> QED
  BY <1>5, <1>12, <1>13 DEF Sound

LEMMA SoundIsClean ==
  ASSUME Sound(table)
  PROVE  ValidateClean
<1>0. table \in Table /\ nrecords \in Nat \ {0} /\ nrecords - 1 \in Positions
  BY Sizes DEF Sound, Positions
<1>1. PICK L \in [Positions -> SlotIds] :
        LruIs(table, L) /\ \A i \in Positions : table.slots[L[i]].key # 0 <=> i < table.count
  BY DEF Sound, Listed, KeyedBefore
<1> DEFINE at == LruAt(table)
<1>2. at[nrecords] = NIL /\ \A i \in Positions : at[i] = L[i]
  BY <1>1, LruAtIs
<1> HIDE DEF at
<1>3. at[nrecords] = NIL /\ \A i \in 0 .. (nrecords - 1) : at[i] = L[i]
  BY <1>2 DEF Positions
<1>4. LruListed
  <2>1. {at[i] : i \in 0 .. (nrecords - 1)} = SlotIds
    BY <1>1, <1>3 DEF LruIs, Positions
  <2>2. at[nrecords - 1] = table.tail
    BY <1>0, <1>1, <1>3 DEF LruIs, Positions
  <2>3. ASSUME NEW i \in 0 .. (nrecords - 1)
        PROVE  table.slots[at[i]].lru_prev = IF i = 0 THEN NIL ELSE at[i - 1]
    <3>1. i # 0 => i - 1 \in 0 .. (nrecords - 1)
      BY <1>0
    <3>2. table.slots[L[i]].lru_prev = IF i = 0 THEN NIL ELSE L[i - 1]
      BY <1>1 DEF LruIs, Positions
    <3> QED
      BY <1>3, <3>1, <3>2
  <2> QED
    BY <1>3, <2>1, <2>2, <2>3 DEF LruListed, at
<1>5. KeyedFirst
  BY <1>1, <1>3 DEF KeyedFirst, Positions, at
<1>6. Chained
  <2> SUFFICES ASSUME NEW b \in Buckets
               PROVE  LET on == {i \in 0 .. (nrecords - 1) : ChainAt(table, b)[i] # NIL}
                      IN  /\ ChainAt(table, b)[nrecords] = NIL
                          /\ {ChainAt(table, b)[i] : i \in on} =
                               {h \in SlotIds : /\ table.slots[h].key # 0
                                                /\ bucket(table.slots[h].key) = b}
                          /\ \A i \in on : table.slots[ChainAt(table, b)[i]].h_prev =
                                             IF i = 0 THEN BucketRef(b)
                                                      ELSE ChainAt(table, b)[i - 1]
    BY DEF Chained
  <2> DEFINE c == ChainAt(table, b)
             on == {i \in 0 .. (nrecords - 1) : c[i] # NIL}
  <2>1. PICK m \in 0 .. nrecords : \E C \in [0 .. (m - 1) -> SlotIds] :
          ChainOver(table, b, SlotIds, m, C)
    BY DEF Sound, ChainsOver
  <2>2. PICK C \in [0 .. (m - 1) -> SlotIds] : ChainOver(table, b, SlotIds, m, C)
    BY <2>1
  <2>4. \A i \in 0 .. (m - 1) :
          /\ table.slots[C[i]].h_next = IF i = m - 1 THEN NIL ELSE C[i + 1]
          /\ table.slots[C[i]].h_prev = IF i = 0 THEN BucketRef(b) ELSE C[i - 1]
    BY <2>2 DEF ChainOver, ChainIs
  <2>5. c = [i \in 0 .. nrecords |-> IF i < m THEN C[i] ELSE NIL]
    BY <2>2, ChainAtIs DEF ChainOver
  <2> HIDE DEF c
  <2>6. \A i \in 0 .. nrecords : c[i] = IF i < m THEN C[i] ELSE NIL
    BY <2>5
  <2>a. m \in Nat /\ m =< nrecords /\ \A i \in 0 .. (m - 1) : C[i] # NIL
    BY Sizes
  <2>b. \A i \in 0 .. (nrecords - 1) : c[i] # NIL <=> i < m
    BY <1>0, <2>6, <2>a
  <2>7. on = 0 .. (m - 1)
    BY <1>0, <2>a, <2>b
  <2>8. \A i \in 0 .. (m - 1) : c[i] = C[i]
    BY <1>0, <2>6
  <2> HIDE DEF on
  <2>9. c[nrecords] = NIL
    BY <1>0, <2>6
  <2>10. {c[i] : i \in on} = {h \in SlotIds : /\ table.slots[h].key # 0
                                              /\ bucket(table.slots[h].key) = b}
    BY <2>2, <2>7, <2>8 DEF ChainOver, Belongs
  <2>11. ASSUME NEW i \in on
         PROVE  table.slots[c[i]].h_prev = IF i = 0 THEN BucketRef(b) ELSE c[i - 1]
    <3>1. i \in 0 .. (m - 1) /\ (i # 0 => i - 1 \in 0 .. (m - 1))
      BY <2>7
    <3> QED
      BY <2>4, <2>8, <3>1
  <2> QED
    BY <2>9, <2>10, <2>11 DEF on, c
<1> QED
  BY <1>0, <1>4, <1>5, <1>6 DEF ValidateClean, TypeOK

-----------------------------------------------------------------------------
(* What validate() looks for is never there, for any number of slots and   *)
(* buckets and any keys: after every sequence of claims the LRU list is    *)
(* one list of all slots, each chain one list of the slots of its bucket,  *)
(* both consistent in both directions, and count is what has a key.        *)
THEOREM ListsSurvive == Spec => []ValidateClean
<1>1. Init => Sound(table)
  BY SetupSound DEF Init
<1>2. Sound(table) /\ [Next]_table => Sound(table)'
  <2> SUFFICES ASSUME Sound(table), [Next]_table
               PROVE  Sound(table')
    BY DEF Sound, Listed, LruIs, KeyedBefore, ChainsOver, ChainOver, ChainIs, Belongs
  <2>1. CASE UNCHANGED table
    BY <2>1
  <2>2. ASSUME NEW k \in Key, touch(k)
        PROVE  Sound(table')
    <3> DEFINE h == find(table, k)
    <3>1. table \in Table /\ ChainsOver(table, SlotIds) /\ h # NIL /\ k # 0
      BY <2>2, Sizes DEF Sound, touch
    <3>2. h \in SlotIds /\ table.slots[h].key = k
      BY <3>1, FindsKeyed
    <3>3. table' = touchSlot(table, h)
      BY <2>2 DEF touch
    <3> HIDE DEF h
    <3> QED
      BY <3>1, <3>2, <3>3, TouchKeeps
  <2>3. ASSUME NEW k \in Key, create(k)
        PROVE  Sound(table')
    BY <2>3, CreateKeeps DEF create
  <2> QED
    BY <2>1, <2>2, <2>3 DEF Next
<1>3. Sound(table) => ValidateClean
  BY SoundIsClean
<1> QED
  BY <1>1, <1>2, <1>3, PTL DEF Spec


-----------------------------------------------------------------------------
(* The table as its users see it.                                          *)

Distinct(t) == \A x, y \in SlotIds : t.slots[x].key = t.slots[y].key /\ t.slots[x].key # 0 => x = y

LEMMA FindsAll ==
  ASSUME NEW t \in Table, ChainsOver(t, SlotIds), NEW x \in SlotIds, NEW k \in Key,
         t.slots[x].key = k
  PROVE  find(t, k) # NIL
<1> DEFINE b == bucket(k)
           at == ChainAt(t, b)
           hits == {i \in 0 .. nrecords : at[i] # NIL /\ t.slots[at[i]].key = k}
           least == CHOOSE i \in hits : \A j \in hits : i =< j
<1>1. find(t, k) = IF hits = {} THEN NIL ELSE at[least]
  BY DEF find
<1>2. b \in Buckets /\ Belongs(t, x, b)
  BY BucketOf, Sizes DEF Belongs
<1> HIDE DEF b
<1>3. PICK m \in 0 .. nrecords : \E C \in [0 .. (m - 1) -> SlotIds] :
        ChainOver(t, b, SlotIds, m, C)
  BY <1>2 DEF ChainsOver
<1>4. PICK C \in [0 .. (m - 1) -> SlotIds] : ChainOver(t, b, SlotIds, m, C)
  BY <1>3
<1>5. at = [i \in 0 .. nrecords |-> IF i < m THEN C[i] ELSE NIL]
  BY <1>4, ChainAtIs DEF ChainOver
<1> HIDE DEF at
<1>6. PICK i \in 0 .. (m - 1) : C[i] = x
  BY <1>2, <1>4 DEF ChainOver
<1>7. i \in 0 .. nrecords /\ at[i] = x /\ x # NIL
  BY <1>5, <1>6, Sizes
<1>8. i \in hits
  BY <1>7
<1>9. hits \in SUBSET Nat
  BY Sizes
<1> HIDE DEF hits
<1>10. \E e \in hits : \A j \in hits : e =< j
  BY <1>8, <1>9, LeastElement
<1>11. least \in hits
  BY <1>10
<1>12. find(t, k) = at[least]
  BY <1>1, <1>8
<1> HIDE DEF least
<1> QED
  BY <1>11, <1>12 DEF hits

LEMMA FindIs ==
  ASSUME NEW t \in Table, ChainsOver(t, SlotIds), Distinct(t), NEW x \in SlotIds,
         t.slots[x].key # 0
  PROVE  find(t, t.slots[x].key) = x
<1> DEFINE k == t.slots[x].key
<1>1. k \in Key
  BY SlotTyped
<1>2. t.slots[x].key = k
  OBVIOUS
<1> HIDE DEF k
<1>3. find(t, k) # NIL
  BY <1>1, <1>2, FindsAll, Zenon
<1>4. find(t, k) \in SlotIds /\ t.slots[find(t, k)].key = k
  BY <1>1, <1>3, FindsKeyed, Zenon
<1>5. find(t, k) = x
  BY <1>1, <1>2, <1>4, Sizes DEF Distinct
<1> QED
  BY <1>5 DEF k

LEMMA FunctionIsSeq ==
  ASSUME NEW S, NEW n \in Nat, NEW f \in [1 .. n -> S]
  PROVE  f \in Seq(S) /\ Len(f) = n
<1>1. f \in Seq(S)
  BY SeqDef
<1>2. Len(f) \in Nat /\ 1 .. Len(f) = 1 .. n
  BY <1>1, LenProperties
<1> QED
  BY <1>1, <1>2

(* The keys in the order of the LRU list.                                  *)
LEMMA OrderIs ==
  ASSUME NEW t \in Table, NEW L \in [Positions -> SlotIds], LruIs(t, L), KeyedBefore(t, L)
  PROVE  /\ Order(t) \in Seq(Key) /\ Len(Order(t)) = t.count
         /\ \A i \in 1 .. t.count : /\ i - 1 \in Positions
                                    /\ Order(t)[i] = t.slots[L[i - 1]].key
<1> DEFINE at == LruAt(t)
           n == t.count
           Ends(e) == /\ \A i \in 0 .. (e - 1) : at[i] # NIL /\ t.slots[at[i]].key # 0
                      /\ at[e] # NIL => t.slots[at[e]].key = 0
           last == CHOOSE e \in 0 .. nrecords : Ends(e)
           v == [i \in 1 .. last |-> at[i - 1]]
<1>1. Visited(t) = v
  BY DEF Visited
<1>2. n \in Nat /\ n =< nrecords /\ nrecords \in Nat
  BY TableTyped, Sizes
<1>3. at[nrecords] = NIL /\ \A i \in Positions : at[i] = L[i] /\ L[i] # NIL
  BY LruAtIs, Sizes
<1>4. \A i \in Positions : t.slots[L[i]].key # 0 <=> i < n
  BY DEF KeyedBefore
<1> HIDE DEF at, n
<1>5. \A i \in 0 .. nrecords : i # nrecords => i \in Positions
  BY <1>2 DEF Positions
<1>6. Ends(n)
  <2>1. \A i \in 0 .. (n - 1) : i \in Positions /\ i < n
    BY <1>2 DEF Positions
  <2>2. \A i \in 0 .. (n - 1) : at[i] # NIL /\ t.slots[at[i]].key # 0
    BY <1>3, <1>4, <2>1
  <2>3. CASE n = nrecords
    BY <1>3, <2>2, <2>3
  <2>4. CASE n # nrecords
    <3>1. n \in Positions /\ ~(n < n)
      BY <1>2, <1>5, <2>4
    <3> QED
      BY <1>3, <1>4, <2>2, <3>1
  <2> QED
    BY <2>3, <2>4
<1>7. ASSUME NEW e \in 0 .. nrecords, Ends(e)
      PROVE  e = n
  <2>1. CASE e < n
    <3>1. e \in Positions
      BY <1>2, <2>1 DEF Positions
    <3> QED
      BY <1>3, <1>4, <1>7, <2>1, <3>1
  <2>2. CASE n < e
    <3>1. n \in 0 .. (e - 1) /\ n \in Positions /\ ~(n < n)
      BY <1>2, <2>2 DEF Positions
    <3>2. t.slots[at[n]].key # 0
      BY <1>7, <3>1
    <3> QED
      BY <1>3, <1>4, <3>1, <3>2
  <2> QED
    BY <1>2, <2>1, <2>2
<1>8. n \in 0 .. nrecords
  BY <1>2
<1> HIDE DEF Ends
<1>9. last = n
  BY <1>6, <1>7, <1>8
<1> HIDE DEF last
<1>10. \A i \in 1 .. n : i - 1 \in Positions /\ v[i] = L[i - 1]
  <2>1. \A i \in 1 .. n : i - 1 \in Positions
    BY <1>2 DEF Positions
  <2> QED
    BY <1>3, <1>9, <2>1
<1>11. v \in [1 .. n -> SlotIds]
  BY <1>3, <1>9, <1>10
<1> HIDE DEF v
<1>12. v \in Seq(SlotIds) /\ Len(v) = n
  BY <1>2, <1>11, FunctionIsSeq, Zenon
<1> DEFINE o == [i \in 1 .. n |-> t.slots[v[i]].key]
<1>13. Order(t) = o
  BY <1>1, <1>12 DEF Order
<1>14. \A i \in 1 .. n : o[i] = t.slots[L[i - 1]].key /\ o[i] \in Key
  <2>1. \A i \in 1 .. n : o[i] = t.slots[L[i - 1]].key
    BY <1>10
  <2>2. ASSUME NEW i \in 1 .. n
        PROVE  t.slots[L[i - 1]].key \in Key
    <3>1. i - 1 \in Positions /\ i - 1 < n /\ L[i - 1] \in SlotIds
      BY <1>2, <1>10
    <3>2. t.slots[L[i - 1]].key # 0
      BY <1>4, <3>1
    <3> QED
      BY <3>1, <3>2, SlotTyped
  <2> QED
    BY <2>1, <2>2
<1>15. o \in [1 .. n -> Key]
  BY <1>14
<1> HIDE DEF o
<1>16. o \in Seq(Key) /\ Len(o) = n
  BY <1>2, <1>15, FunctionIsSeq, Zenon
<1> QED
  BY <1>10, <1>13, <1>14, <1>16 DEF n


LEMMA SlotSeen ==
  ASSUME NEW t \in Table, ChainsOver(t, SlotIds), Distinct(t)
  PROVE  /\ KeysOf(t) \subseteq Key
         /\ \A k \in KeysOf(t) : \E x \in SlotIds : t.slots[x].key = k
         /\ \A x \in SlotIds : t.slots[x].key # 0 =>
              /\ t.slots[x].key \in KeysOf(t) /\ SlotOf(t)[t.slots[x].key] = x
         /\ KeysOf(t) # {} => SlotOf(t) = [k \in KeysOf(t) |-> SlotOf(t)[k]]
<1>1. \A x \in SlotIds : t.slots[x].key \in Key \cup {0}
  BY SlotTyped
<1>2. KeysOf(t) \subseteq Key /\ \A k \in KeysOf(t) : \E x \in SlotIds : t.slots[x].key = k
  BY <1>1 DEF KeysOf
<1>3. KeysOf(t) # {} => SlotOf(t) = [k \in KeysOf(t) |-> find(t, k)]
  BY DEF SlotOf
<1>4. KeysOf(t) # {} => SlotOf(t) = [k \in KeysOf(t) |-> SlotOf(t)[k]]
  BY <1>3
<1>5. ASSUME NEW x \in SlotIds, t.slots[x].key # 0
      PROVE  t.slots[x].key \in KeysOf(t) /\ SlotOf(t)[t.slots[x].key] = x
  <2>1. t.slots[x].key \in KeysOf(t)
    BY <1>5 DEF KeysOf
  <2>2. find(t, t.slots[x].key) = x
    BY <1>5, FindIs
  <2> QED
    BY <1>3, <2>1, <2>2
<1> QED
  BY <1>2, <1>4, <1>5

(* Two tables that say the same of every key are seen the same.            *)
LEMMA SlotsSeen ==
  ASSUME NEW u \in Table, ChainsOver(u, SlotIds), Distinct(u), NEW K, K = KeysOf(u), K # {},
         NEW f, f = [k \in K |-> f[k]],
         \A x \in SlotIds : u.slots[x].key # 0 => f[u.slots[x].key] = x
  PROVE  SlotOf(u) = f
<1>1. \A k \in K : \E x \in SlotIds : u.slots[x].key = k /\ u.slots[x].key # 0
  BY SlotSeen, Sizes
<1>2. \A k \in K : SlotOf(u)[k] = f[k]
  BY <1>1, SlotSeen
<1>3. SlotOf(u) = [k \in K |-> SlotOf(u)[k]]
  BY SlotSeen
<1> QED
  BY <1>2, <1>3

LEMMA LiveIs ==
  ASSUME NEW t \in Table, NEW L \in [Positions -> SlotIds], LruIs(t, L), KeyedBefore(t, L)
  PROVE  Map!ToSet(Order(t)) = KeysOf(t)
<1> DEFINE o == Order(t)
           n == t.count
<1>1. /\ o \in Seq(Key) /\ Len(o) = n
      /\ \A i \in 1 .. n : i - 1 \in Positions /\ o[i] = t.slots[L[i - 1]].key
  BY OrderIs
<1>2. n \in Nat /\ DOMAIN o = 1 .. n /\ \A i \in 1 .. n : o[i] \in Key
  BY <1>1, LenProperties
<1> HIDE DEF o, n
<1>3. ASSUME NEW i \in 1 .. n
      PROVE  o[i] \in KeysOf(t)
  BY <1>1, <1>2, Sizes DEF KeysOf
<1>4. ASSUME NEW k \in KeysOf(t)
      PROVE  \E i \in 1 .. n : o[i] = k
  <2>1. PICK x \in SlotIds : t.slots[x].key = k /\ k # 0
    BY DEF KeysOf
  <2>2. PICK j \in Positions : L[j] = x
    BY DEF LruIs
  <2>3. j < n
    BY <2>1, <2>2 DEF KeyedBefore, n
  <2>4. j + 1 \in 1 .. n /\ (j + 1) - 1 = j
    BY <1>2, <2>3 DEF Positions
  <2> QED
    BY <1>1, <2>1, <2>2, <2>4
<1>5. Map!ToSet(o) = {o[i] : i \in 1 .. n}
  BY <1>2 DEF Map!ToSet
<1> QED
  BY <1>3, <1>4, <1>5 DEF o

LEMMA RemoveAtProperties ==
  ASSUME NEW S, NEW s \in Seq(S), NEW p \in 1 .. Len(s)
  PROVE  /\ Map!RemoveAt(s, p) \in Seq(S) /\ Len(Map!RemoveAt(s, p)) = Len(s) - 1
         /\ \A i \in 1 .. (Len(s) - 1) : Map!RemoveAt(s, p)[i] = s[IF i < p THEN i ELSE i + 1]
<1> DEFINE n == Len(s)
           a == SubSeq(s, 1, p - 1)
           b == SubSeq(s, p + 1, n)
<1>1. n \in Nat /\ p \in Nat /\ p - 1 \in Int /\ p + 1 \in Int /\ n \in Int
  BY LenProperties
<1>2. /\ \A i \in 1 .. (p - 1) : s[i] \in S
      /\ \A i \in (p + 1) .. n : s[i] \in S
  <2>1. /\ \A i \in 1 .. (p - 1) : i \in 1 .. n
        /\ \A i \in (p + 1) .. n : i \in 1 .. n
    BY <1>1
  <2> QED
    BY <2>1, ElementOfSeq
<1>3. /\ a \in Seq(S) /\ Len(a) = IF 1 <= p - 1 THEN p - 1 - 1 + 1 ELSE 0
      /\ \A i \in 1 .. (p - 1 - 1 + 1) : a[i] = s[1 + i - 1]
  BY <1>1, <1>2, SubSeqProperties
<1>4. /\ b \in Seq(S) /\ Len(b) = IF p + 1 <= n THEN n - (p + 1) + 1 ELSE 0
      /\ \A i \in 1 .. (n - (p + 1) + 1) : b[i] = s[p + 1 + i - 1]
  BY <1>1, <1>2, SubSeqProperties
<1> HIDE DEF a, b, n
<1>5. Len(a) = p - 1 /\ Len(b) = n - p
  BY <1>1, <1>3, <1>4 DEF n
<1>6. /\ a \o b \in Seq(S) /\ Len(a \o b) = Len(a) + Len(b)
      /\ \A i \in 1 .. Len(a) + Len(b) : (a \o b)[i] = IF i <= Len(a) THEN a[i] ELSE b[i - Len(a)]
  BY <1>3, <1>4, ConcatProperties
<1>7. ASSUME NEW i \in 1 .. (n - 1)
      PROVE  (a \o b)[i] = s[IF i < p THEN i ELSE i + 1]
  <2>1. (a \o b)[i] = IF i <= p - 1 THEN a[i] ELSE b[i - (p - 1)]
    BY <1>1, <1>5, <1>6
  <2>2. CASE i < p
    <3>1. i \in 1 .. (p - 1 - 1 + 1) /\ 1 + i - 1 = i /\ i <= p - 1
      BY <1>1, <2>2
    <3> QED
      BY <1>3, <2>1, <2>2, <3>1
  <2>3. CASE ~(i < p)
    <3>1. /\ i - (p - 1) \in 1 .. (n - (p + 1) + 1) /\ p + 1 + (i - (p - 1)) - 1 = i + 1
          /\ ~(i <= p - 1)
      BY <1>1, <2>3
    <3> QED
      BY <1>4, <2>1, <2>3, <3>1
  <2> QED
    BY <2>2, <2>3
<1>8. Map!RemoveAt(s, p) = a \o b /\ Len(a) + Len(b) = n - 1
  <2>1. Map!RemoveAt(s, p) = a \o b
    BY DEF Map!RemoveAt, a, b, n
  <2>2. n \in Nat /\ p \in 1 .. n
    BY <1>1 DEF n
  <2> QED
    BY <1>5, <2>1, <2>2
<1> QED
  BY <1>6, <1>7, <1>8 DEF n


(* A key put in front of some others.                                      *)
LEMMA InFront ==
  ASSUME NEW S, NEW k \in S, NEW s \in Seq(S), NEW o \in Seq(S), Len(o) = Len(s) + 1,
         o[1] = k, \A i \in 1 .. Len(s) : o[i + 1] = s[i]
  PROVE  o = <<k>> \o s
<1> DEFINE w == <<k>>
<1>1. w \in Seq(S) /\ Len(w) = 1 /\ w[1] = k
  OBVIOUS
<1> HIDE DEF w
<1>2. Len(s) \in Nat
  BY LenProperties
<1>3. /\ w \o s \in Seq(S) /\ Len(w \o s) = Len(w) + Len(s)
      /\ \A i \in 1 .. Len(w) + Len(s) : (w \o s)[i] = IF i <= Len(w) THEN w[i] ELSE s[i - Len(w)]
  BY <1>1, ConcatProperties
<1>4. ASSUME NEW i \in 1 .. Len(o)
      PROVE  o[i] = (w \o s)[i]
  <2>1. CASE i = 1
    BY <1>1, <1>2, <1>3, <2>1
  <2>2. CASE i # 1
    <3>1. i - 1 \in 1 .. Len(s) /\ (i - 1) + 1 = i /\ i \in 1 .. Len(w) + Len(s) /\ ~(i <= Len(w))
      BY <1>1, <1>2, <2>2
    <3>2. o[i] = s[i - 1]
      BY <3>1
    <3> QED
      BY <1>1, <1>3, <3>1, <3>2
  <2> QED
    BY <2>1, <2>2
<1>5. Len(o) = Len(w \o s)
  BY <1>1, <1>2, <1>3
<1>6. o = w \o s
  BY <1>3, <1>4, <1>5, SeqEqual
<1> QED
  BY <1>6 DEF w

LEMMA TouchSeen ==
  ASSUME NEW t \in Table, ChainsOver(t, SlotIds), Distinct(t), NEW L \in [Positions -> SlotIds],
         LruIs(t, L), KeyedBefore(t, L), NEW j \in Positions, NEW k \in Key,
         t.slots[L[j]].key = k, NEW u, u = touchSlot(t, L[j])
  PROVE  /\ j + 1 \in 1 .. Len(Order(t)) /\ Order(t)[j + 1] = k
         /\ Order(u) = <<k>> \o Map!RemoveAt(Order(t), j + 1)
         /\ SlotOf(u) = SlotOf(t) /\ Distinct(u)
<1> DEFINE o == Order(t)
           p == Order(u)
           n == t.count
           M == ToFront(L, j)
           r == Map!RemoveAt(o, j + 1)
<1>0. t.slots[L[j]].key # 0
  BY Sizes
<1>1. LruIs(u, M) /\ KeptBut(u, t) /\ KeyedBefore(u, M) /\ Sound(u)
  BY <1>0, TouchDone
<1>2. /\ o \in Seq(Key) /\ Len(o) = n
      /\ \A i \in 1 .. n : i - 1 \in Positions /\ o[i] = t.slots[L[i - 1]].key
  BY OrderIs
<1>3. u \in Table /\ M \in [Positions -> SlotIds] /\ u.count = n
  BY <1>1 DEF LruIs, KeptBut
<1>a. \A i \in Positions : M[i] = IF i = 0 THEN L[j] ELSE IF i =< j THEN L[i - 1] ELSE L[i]
  BY DEF ToFront
<1>b. n \in Nat /\ j \in Nat /\ j < n
  BY <1>0, TableTyped, Sizes DEF KeyedBefore, Positions
<1> HIDE DEF o, n, M
<1>4. /\ p \in Seq(Key) /\ Len(p) = n
      /\ \A i \in 1 .. n : p[i] = u.slots[M[i - 1]].key
  BY <1>1, <1>3, OrderIs
<1> HIDE DEF p
<1>5. \A x \in SlotIds : u.slots[x].key = t.slots[x].key
  BY <1>1 DEF KeptBut
<1>6. \A i \in 1 .. n : p[i] = t.slots[M[i - 1]].key
  BY <1>2, <1>3, <1>4, <1>5
<1>7. j + 1 \in 1 .. n /\ (j + 1) - 1 = j /\ o[j + 1] = k
  BY <1>2, <1>b
<1>8. /\ r \in Seq(Key) /\ Len(r) = n - 1
      /\ \A i \in 1 .. (n - 1) : r[i] = o[IF i < j + 1 THEN i ELSE i + 1]
  BY <1>2, <1>7, RemoveAtProperties
<1> HIDE DEF r
<1>9. p[1] = k
  <2>1. 1 \in 1 .. n /\ 1 - 1 = 0 /\ 0 \in Positions
    BY <1>b, Sizes DEF Positions
  <2> QED
    BY <1>6, <1>a, <2>1
<1>10. ASSUME NEW i \in 1 .. (n - 1)
       PROVE  p[i + 1] = r[i]
  <2>1. /\ i + 1 \in 1 .. n /\ (i + 1) - 1 = i /\ i # 0 /\ i \in 1 .. n
    BY <1>b
  <2>2. i \in Positions
    BY <1>2, <2>1
  <2>3. p[i + 1] = t.slots[M[i]].key
    BY <1>6, <2>1
  <2>4. M[i] = IF i =< j THEN L[i - 1] ELSE L[i]
    BY <1>a, <2>1, <2>2
  <2>5. r[i] = IF i =< j THEN o[i] ELSE o[i + 1]
    BY <1>8, <1>b
  <2>6. o[i] = t.slots[L[i - 1]].key /\ o[i + 1] = t.slots[L[i]].key
    BY <1>2, <2>1
  <2> QED
    BY <2>3, <2>4, <2>5, <2>6
<1>11. p = <<k>> \o r
  <2>1. Len(p) = Len(r) + 1
    BY <1>4, <1>8, <1>b
  <2> QED
    BY <1>4, <1>8, <1>9, <1>10, <2>1, InFront
<1>12. Distinct(u)
  BY <1>5 DEF Distinct
<1>13. KeysOf(u) = KeysOf(t)
  BY <1>5 DEF KeysOf
<1>14. SlotOf(u) = SlotOf(t)
  <2>1. KeysOf(t) # {}
    BY <1>0 DEF KeysOf
  <2>2. SlotOf(t) = [c \in KeysOf(t) |-> SlotOf(t)[c]]
    BY <2>1, SlotSeen
  <2>3. \A x \in SlotIds : u.slots[x].key # 0 => SlotOf(t)[u.slots[x].key] = x
    BY <1>5, SlotSeen
  <2> QED
    BY <1>1, <1>3, <1>12, <1>13, <2>1, <2>2, <2>3, SlotsSeen DEF Sound
<1> QED
  BY <1>2, <1>7, <1>11, <1>12, <1>14 DEF o, p, r


(* What a create of k in slot h, which had c, is to the users.              *)
CreateShows(u, t, k, h, c) ==
  /\ k \notin KeysOf(t) /\ Distinct(u) /\ h \in SlotIds
  /\ SlotOf(u) = [j \in (KeysOf(t) \ {c}) \cup {k} |-> IF j = k THEN h ELSE SlotOf(t)[j]]
  /\ c = 0 => /\ \A j \in KeysOf(t) : SlotOf(t)[j] # h
              /\ Order(u) = <<k>> \o Order(t)
  /\ c # 0 => /\ {SlotOf(t)[j] : j \in KeysOf(t)} = SlotIds
              /\ Map!Last(Order(t)) = c /\ SlotOf(t)[c] = h
              /\ Order(u) = <<k>> \o Map!Front(Order(t))

LEMMA CreateSeen ==
  ASSUME NEW t \in Table, ChainsOver(t, SlotIds), Distinct(t), NEW L \in [Positions -> SlotIds],
         LruIs(t, L), KeyedBefore(t, L), NEW k \in Key, find(t, k) = NIL,
         NEW u, u = createKey(t, k), NEW h, h = t.tail, NEW c, c = t.slots[h].key
  PROVE  CreateShows(u, t, k, h, c)
<1> DEFINE o == Order(t)
           p == Order(u)
           n == t.count
           z == nrecords - 1
           M == ToFront(L, z)
<1>1. /\ Creates(u, t, L, k) /\ KeyedBefore(u, M) /\ Sound(u)
  BY Created
<1>2. /\ z \in Positions /\ z \in Nat /\ h = L[z] /\ h \in SlotIds
      /\ \A i \in Positions : i \in Nat /\ i =< z
      /\ \A i \in Nat : i =< z => i \in Positions
  BY Sizes DEF LruIs, Positions
<1>3. /\ u.count = IF c # 0 THEN n ELSE n + 1
      /\ \A x \in SlotIds : u.slots[x].key = IF x = h THEN k ELSE t.slots[x].key
      /\ u \in Table
  BY <1>1 DEF Creates
<1>4. \A x \in SlotIds : t.slots[x].key # k
  BY FindsAll
<1>5. \A i \in Positions : M[i] = IF i = 0 THEN h ELSE L[i - 1]
  BY <1>2 DEF ToFront
<1>6. LruIs(u, M) /\ M \in [Positions -> SlotIds]
  BY <1>1 DEF LruIs, Creates
<1>7. /\ o \in Seq(Key) /\ Len(o) = n
      /\ \A i \in 1 .. n : i - 1 \in Positions /\ o[i] = t.slots[L[i - 1]].key
  BY OrderIs
<1>8. n \in Nat /\ n =< nrecords /\ nrecords = z + 1 /\ (c # 0 <=> n = nrecords)
  <2>1. n \in Nat /\ n =< nrecords /\ nrecords \in Nat
    BY TableTyped, Sizes
  <2>2. c # 0 <=> z < n
    BY <1>2 DEF KeyedBefore
  <2> QED
    BY <2>1, <2>2
<1> HIDE DEF o, n, z, M
<1>9. /\ p \in Seq(Key) /\ Len(p) = u.count
      /\ \A i \in 1 .. u.count : i - 1 \in Positions /\ p[i] = u.slots[M[i - 1]].key
  BY <1>1, <1>3, <1>6, OrderIs
<1> HIDE DEF p
<1>10. p[1] = k
  <2>0. u.count \in Nat /\ 1 =< u.count
    <3>1. CASE c # 0
      BY <1>2, <1>3, <1>8, <3>1
    <3>2. CASE c = 0
      BY <1>3, <1>8, <3>2
    <3> QED
      BY <3>1, <3>2
  <2>1. 1 \in 1 .. u.count /\ 1 - 1 = 0
    BY <2>0
  <2>2. p[1] = u.slots[M[0]].key /\ M[0] = h
    BY <1>2, <1>5, <1>9, <2>1
  <2> QED
    BY <1>2, <1>3, <2>2
<1>11. ASSUME NEW i \in 1 .. (u.count - 1)
       PROVE  i \in 1 .. n /\ p[i + 1] = o[i]
  <2>1. u.count \in Nat /\ i + 1 \in 1 .. u.count /\ (i + 1) - 1 = i /\ i # 0 /\ i \in 1 .. n
    BY <1>3, <1>8
  <2>2. i \in Positions /\ p[i + 1] = u.slots[M[i]].key
    BY <1>9, <2>1
  <2>3. M[i] = L[i - 1] /\ i - 1 \in Positions
    BY <1>5, <1>7, <2>1, <2>2
  <2>4. L[i - 1] # h /\ L[i - 1] \in SlotIds
    <3>1. i - 1 # z
      BY <1>2, <2>2
    <3>2. \A a, b \in Positions : L[a] = L[b] => a = b
      BY DEF LruIs, Injective
    <3> QED
      BY <1>2, <2>3, <3>1, <3>2
  <2>5. p[i + 1] = t.slots[L[i - 1]].key
    BY <1>3, <2>2, <2>3, <2>4
  <2> QED
    BY <1>7, <2>1, <2>5
<1>12. k \notin KeysOf(t) /\ k # 0
  BY <1>4, Sizes DEF KeysOf
<1>13. Distinct(u)
  BY <1>3, <1>4 DEF Distinct
<1>14. KeysOf(u) = (KeysOf(t) \ {c}) \cup {k}
  <2>1. \A x \in SlotIds : x # h /\ t.slots[x].key # 0 => t.slots[x].key # c
    BY <1>2 DEF Distinct
  <2>2. ASSUME NEW e \in KeysOf(u)
        PROVE  e \in (KeysOf(t) \ {c}) \cup {k}
    <3>1. PICK x \in SlotIds : u.slots[x].key = e /\ e # 0
      BY DEF KeysOf
    <3> QED
      BY <1>3, <2>1, <3>1 DEF KeysOf
  <2>3. ASSUME NEW e \in KeysOf(t), e # c
        PROVE  e \in KeysOf(u)
    <3>1. PICK x \in SlotIds : t.slots[x].key = e /\ e # 0
      BY DEF KeysOf
    <3>2. u.slots[x].key = e
      BY <1>3, <2>3, <3>1
    <3> QED
      BY <3>1, <3>2 DEF KeysOf
  <2>4. k \in KeysOf(u)
    BY <1>2, <1>3, <1>12 DEF KeysOf
  <2> QED
    BY <2>2, <2>3, <2>4
<1>15. SlotOf(u) = [j \in (KeysOf(t) \ {c}) \cup {k} |-> IF j = k THEN h ELSE SlotOf(t)[j]]
  <2> DEFINE K == (KeysOf(t) \ {c}) \cup {k}
             f == [j \in K |-> IF j = k THEN h ELSE SlotOf(t)[j]]
  <2>1. K = KeysOf(u) /\ K # {} /\ f = [j \in K |-> f[j]]
    BY <1>14
  <2>2. \A j \in K : f[j] = IF j = k THEN h ELSE SlotOf(t)[j]
    OBVIOUS
  <2> HIDE DEF f, K
  <2>3. ASSUME NEW x \in SlotIds, u.slots[x].key # 0
        PROVE  f[u.slots[x].key] = x
    <3>1. u.slots[x].key \in K
      BY <2>1, <2>3 DEF KeysOf
    <3>2. CASE x = h
      BY <1>3, <2>2, <3>1, <3>2
    <3>3. CASE x # h
      <4>1. u.slots[x].key = t.slots[x].key /\ t.slots[x].key # k
        BY <1>3, <1>4, <3>3
      <4>2. SlotOf(t)[t.slots[x].key] = x
        BY <2>3, <4>1, SlotSeen
      <4> QED
        BY <2>2, <3>1, <4>1, <4>2
    <3> QED
      BY <3>2, <3>3
  <2>4. SlotOf(u) = f
    BY <1>1, <1>3, <1>13, <2>1, <2>3, SlotsSeen DEF Sound
  <2> QED
    BY <2>4 DEF f, K
<1>16. ASSUME c = 0
       PROVE  /\ \A j \in KeysOf(t) : SlotOf(t)[j] # h
              /\ p = <<k>> \o o
  <2>1. ASSUME NEW j \in KeysOf(t)
        PROVE  SlotOf(t)[j] # h
    <3>1. PICK x \in SlotIds : t.slots[x].key = j
      BY SlotSeen
    <3>2. j # 0
      BY DEF KeysOf
    <3>3. SlotOf(t)[j] = x
      BY <3>1, <3>2, SlotSeen
    <3> QED
      BY <1>16, <3>1, <3>2, <3>3
  <2>2. Len(p) = Len(o) + 1 /\ \A i \in 1 .. Len(o) : p[i + 1] = o[i]
    BY <1>3, <1>7, <1>8, <1>9, <1>11, <1>16
  <2>3. p = <<k>> \o o
    BY <1>7, <1>9, <1>10, <2>2, InFront
  <2> QED
    BY <2>1, <2>3
<1>17. ASSUME c # 0
       PROVE  /\ {SlotOf(t)[j] : j \in KeysOf(t)} = SlotIds
              /\ Map!Last(o) = c /\ SlotOf(t)[c] = h
              /\ p = <<k>> \o Map!Front(o)
  <2>0. n = z + 1 /\ u.count = n /\ n \in Nat
    BY <1>3, <1>8, <1>17
  <2>1. \A x \in SlotIds : t.slots[x].key # 0
    <3> SUFFICES ASSUME NEW x \in SlotIds
                 PROVE  t.slots[x].key # 0
      OBVIOUS
    <3>1. PICK i \in Positions : L[i] = x
      BY DEF LruIs
    <3>2. i < n
      BY <1>2, <2>0
    <3> QED
      BY <3>1, <3>2 DEF KeyedBefore, n
  <2>2. {SlotOf(t)[j] : j \in KeysOf(t)} = SlotIds
    <3>1. ASSUME NEW j \in KeysOf(t)
          PROVE  SlotOf(t)[j] \in SlotIds
      <4>1. PICK x \in SlotIds : t.slots[x].key = j
        BY SlotSeen
      <4> QED
        BY <2>1, <4>1, SlotSeen
    <3>2. ASSUME NEW x \in SlotIds
          PROVE  t.slots[x].key \in KeysOf(t) /\ SlotOf(t)[t.slots[x].key] = x
      BY <2>1, SlotSeen
    <3> QED
      BY <3>1, <3>2
  <2>3. Map!Last(o) = c
    <3>1. n \in 1 .. n /\ n - 1 = z
      BY <1>2, <2>0
    <3>2. o[n] = c
      BY <1>2, <1>7, <3>1
    <3> QED
      BY <1>7, <3>2 DEF Map!Last
  <2>4. SlotOf(t)[c] = h
    BY <1>2, <1>17, SlotSeen
  <2>5. p = <<k>> \o Map!Front(o)
    <3> DEFINE s == SubSeq(o, 1, n - 1)
    <3>1. Map!Front(o) = s
      BY <1>7 DEF Map!Front
    <3>2. \A i \in 1 .. (n - 1) : o[i] \in Key
      BY <1>7, <2>0, ElementOfSeq
    <3>3. /\ s \in Seq(Key) /\ Len(s) = n - 1 /\ \A i \in 1 .. (n - 1) : s[i] = o[i]
      <4>1. 1 \in Int /\ n - 1 \in Int
        BY <2>0
      <4>2. /\ s \in Seq(Key) /\ Len(s) = (IF 1 <= n - 1 THEN n - 1 - 1 + 1 ELSE 0)
            /\ \A i \in 1 .. (n - 1) - 1 + 1 : s[i] = o[1 + i - 1]
        BY <3>2, <4>1, SubSeqProperties
      <4> HIDE DEF s
      <4> QED
        BY <1>2, <2>0, <4>2
    <3> HIDE DEF s
    <3>4. Len(p) = Len(s) + 1 /\ \A i \in 1 .. Len(s) : p[i + 1] = s[i]
      BY <1>9, <1>11, <2>0, <3>3
    <3>5. p = <<k>> \o s
      BY <1>9, <1>10, <3>3, <3>4, InFront
    <3> QED
      BY <3>1, <3>5
  <2> QED
    BY <2>2, <2>3, <2>4, <2>5
<1> QED
  BY <1>2, <1>12, <1>13, <1>15, <1>16, <1>17 DEF o, p, CreateShows


(* No sequence of claims gives two slots the same key.                     *)
Held(t) == Sound(t) /\ Distinct(t)

LEMMA SetupHeld == Held(setup)
<1>1. Sound(setup)
  BY SetupSound
<1>2. \A x \in SlotIds : setup.slots[x].key = 0
  BY DEF setup
<1> QED
  BY <1>1, <1>2 DEF Held, Distinct

(* A step of the table is a step of the map: a claim of a key it has, of a *)
(* new key while a slot is free, or of a new key for the oldest one.       *)
LEMMA StepIsSeen ==
  ASSUME Held(table), Next
  PROVE  Held(table') /\ Map!Next
<1>1. PICK L \in [Positions -> SlotIds] : LruIs(table, L) /\ KeyedBefore(table, L)
  BY DEF Held, Sound, Listed
<1>2. table \in Table /\ ChainsOver(table, SlotIds) /\ Distinct(table)
  BY DEF Held, Sound
<1>3. Map!ToSet(Order(table)) = KeysOf(table)
  BY <1>1, <1>2, LiveIs
<1>4. Map!Live = KeysOf(table)
  BY <1>3 DEF Map!Live
<1>5. ASSUME NEW k \in Key, touch(k)
      PROVE  Held(table') /\ Map!Touch(k)
  <2> DEFINE h == find(table, k)
  <2>1. h # NIL /\ table' = touchSlot(table, h)
    BY <1>5 DEF touch
  <2>2. h \in SlotIds /\ table.slots[h].key = k /\ k # 0
    BY <1>2, <2>1, FindsKeyed, Sizes
  <2> HIDE DEF h
  <2>3. PICK j \in Positions : L[j] = h
    BY <1>1, <2>2 DEF LruIs
  <2>4. table' = touchSlot(table, L[j]) /\ table.slots[L[j]].key = k
    BY <2>1, <2>2, <2>3
  <2>5. /\ j + 1 \in 1 .. Len(Order(table)) /\ Order(table)[j + 1] = k
        /\ Order(table') = <<k>> \o Map!RemoveAt(Order(table), j + 1)
        /\ SlotOf(table') = SlotOf(table) /\ Distinct(table')
    BY <1>1, <1>2, <2>4, TouchSeen
  <2>6. Sound(table')
    BY <2>1, <2>2, TouchKeeps DEF Held
  <2>7. DOMAIN Order(table) = 1 .. Len(Order(table))
    BY <1>1, <1>2, OrderIs, LenProperties
  <2>8. Map!Touch(k)
    BY <2>5, <2>7 DEF Map!Touch
  <2> QED
    BY <2>5, <2>6, <2>8 DEF Held
<1>6. ASSUME NEW k \in Key, create(k)
      PROVE  Held(table') /\ (Map!Add(k) \/ Map!Replace(k))
  <2> DEFINE h == table.tail
             c == table.slots[h].key
             f == [j \in (KeysOf(table) \ {c}) \cup {k} |-> IF j = k THEN h ELSE SlotOf(table)[j]]
  <2>1. /\ find(table, k) = NIL /\ table' = createKey(table, k)
        /\ h = table.tail /\ c = table.slots[h].key
    BY <1>6 DEF create
  <2> HIDE DEF h, c
  <2>a. CreateShows(table', table, k, h, c)
    BY <1>1, <1>2, <2>1, CreateSeen
  <2>2. /\ k \notin KeysOf(table) /\ Distinct(table') /\ h \in SlotIds
        /\ SlotOf(table') = f
        /\ c = 0 => /\ \A j \in KeysOf(table) : SlotOf(table)[j] # h
                    /\ Order(table') = <<k>> \o Order(table)
        /\ c # 0 => /\ {SlotOf(table)[j] : j \in KeysOf(table)} = SlotIds
                    /\ Map!Last(Order(table)) = c /\ SlotOf(table)[c] = h
                    /\ Order(table') = <<k>> \o Map!Front(Order(table))
    BY <2>a DEF CreateShows
  <2>3. Sound(table')
    BY <2>1, CreateKeeps DEF Held
  <2>4. CASE c = 0
    <3>1. KeysOf(table) \ {c} = KeysOf(table)
      BY <2>4 DEF KeysOf
    <3>2. SlotOf(table') =
            [j \in KeysOf(table) \cup {k} |-> IF j = k THEN h ELSE SlotOf(table)[j]]
      BY <2>2, <3>1
    <3>3. h \in SlotIds \ {SlotOf(table)[j] : j \in KeysOf(table)}
      BY <2>2, <2>4
    <3>4. Map!Add(k)
      BY <1>4, <2>2, <2>4, <3>2, <3>3 DEF Map!Add
    <3> QED
      BY <2>2, <2>3, <3>4 DEF Held
  <2>5. CASE c # 0
    <3>1. SlotOf(table') = [j \in (KeysOf(table) \ {Map!Last(Order(table))}) \cup {k} |->
                              IF j = k THEN SlotOf(table)[Map!Last(Order(table))]
                                       ELSE SlotOf(table)[j]]
      BY <2>2, <2>5
    <3>2. Map!Replace(k)
      BY <1>4, <2>2, <2>5, <3>1 DEF Map!Replace
    <3> QED
      BY <2>2, <2>3, <3>2 DEF Held
  <2> QED
    BY <2>4, <2>5
<1> QED
  BY <1>5, <1>6 DEF Next, Map!Next

LEMMA InitIsSeen == Init => Map!Init
<1> SUFFICES ASSUME Init
             PROVE  Map!Init
  OBVIOUS
<1>1. setup \in Table /\ \E L \in [Positions -> SlotIds] : LruIs(setup, L) /\ KeyedBefore(setup, L)
  BY SetupSound DEF Sound, Listed
<1>2. setup.count = 0 /\ \A x \in SlotIds : setup.slots[x].key = 0
  BY DEF setup
<1>3. Order(setup) \in Seq(Key) /\ Len(Order(setup)) = 0
  BY <1>1, <1>2, OrderIs
<1>4. Order(setup) = <<>>
  BY <1>3, EmptySeq
<1>5. KeysOf(setup) = {}
  BY <1>2 DEF KeysOf
<1>6. SlotOf(setup) = <<>>
  BY <1>5 DEF SlotOf
<1> QED
  BY <1>4, <1>6 DEF Init, Map!Init

-----------------------------------------------------------------------------
(* Through forEach() and find() the table is a least recently used map,    *)
(* whatever its size and the claims: a create evicts the key claimed       *)
(* longest ago and no other, and no key changes its slot while it is in.   *)
THEOREM TableIsLRUMap == Spec => RefinesLRUMap
<1>1. Init => Held(table)
  BY SetupHeld DEF Init
<1>2. Held(table) /\ [Next]_table => Held(table)' /\ [Map!Next]_<<Order(table), SlotOf(table)>>
  <2> SUFFICES ASSUME Held(table), [Next]_table
               PROVE  Held(table)' /\ [Map!Next]_<<Order(table), SlotOf(table)>>
    OBVIOUS
  <2>1. CASE Next
    <3>1. Held(table') /\ Map!Next
      BY <2>1, StepIsSeen
    <3>2. Held(table') => Held(table)'
      BY DEF Held, Sound, Listed, LruIs, KeyedBefore, ChainsOver, ChainOver, ChainIs, Belongs,
             Distinct
    <3> QED
      BY <3>1, <3>2
  <2>2. CASE UNCHANGED table
    <3>1. Held(table')
      BY <2>2
    <3>2. Held(table') => Held(table)'
      BY DEF Held, Sound, Listed, LruIs, KeyedBefore, ChainsOver, ChainOver, ChainIs, Belongs,
             Distinct
    <3>3. Order(table') = Order(table) /\ SlotOf(table') = SlotOf(table)
      BY <2>2
    <3> QED
      BY <3>1, <3>2, <3>3
  <2> QED
    BY <2>1, <2>2
<1>3. Init => Map!Init
  BY InitIsSeen
<1> QED
  BY <1>1, <1>2, <1>3, PTL DEF Spec, RefinesLRUMap, Map!Spec, Map!vars

=============================================================================
