------------------------------ MODULE SlotTable -----------------------------
(***************************************************************************)
(* Tracking/SlotTable.h: a record table of fixed size with LRU recycling   *)
(* and hashed lookup, under the ship database, the aircraft database and   *)
(* the CSV state.  All structure is in two kinds of doubly linked lists,   *)
(* threaded through the same slots: the LRU list, which holds every slot,  *)
(* and a hash chain per bucket, which holds the slots that have a key.     *)
(* Every user holds its own mutex around a call, so a call is one step.    *)
(***************************************************************************)
EXTENDS Integers, Sequences

CONSTANTS nrecords, nbuckets,
          Key           \* keys other than 0, which marks a slot never claimed

ASSUME TableSizes ==
  /\ nrecords \in Nat \ {0} /\ nbuckets \in Nat \ {0}
  /\ Key \subseteq Nat \ {0}

NIL == -1
SlotIds == 0 .. (nrecords - 1)
Buckets == 0 .. (nbuckets - 1)

(* h_prev holds a slot or BUCKET_BIT | bucket: here a number beyond the    *)
(* slots.                                                                  *)
BucketRef(b) == nrecords + b
IsBucketRef(p) == p >= nrecords

bucket(k) == k % nbuckets

Slot == [lru_prev : SlotIds \cup {NIL}, lru_next : SlotIds \cup {NIL},
         h_prev : SlotIds \cup {NIL} \cup {BucketRef(b) : b \in Buckets},
         h_next : SlotIds \cup {NIL}, key : Key \cup {0}]

Table == [slots : [SlotIds -> Slot], buckets : [Buckets -> SlotIds \cup {NIL}],
          head : SlotIds \cup {NIL}, tail : SlotIds \cup {NIL}, count : 0 .. nrecords]

-----------------------------------------------------------------------------
(* The lists.  Each operator takes the table and returns it changed.       *)

lruPushFront(t, h) ==
  LET own  == [t EXCEPT !.slots[h].lru_prev = NIL, !.slots[h].lru_next = t.head]
      back == IF t.head = NIL THEN own ELSE [own EXCEPT !.slots[t.head].lru_prev = h]
  IN  [back EXCEPT !.head = h, !.tail = IF t.tail = NIL THEN h ELSE t.tail]

lruUnlink(t, h) ==
  LET p == t.slots[h].lru_prev
      n == t.slots[h].lru_next
      fwd == IF p # NIL THEN [t EXCEPT !.slots[p].lru_next = n] ELSE [t EXCEPT !.head = n]
  IN  IF n # NIL THEN [fwd EXCEPT !.slots[n].lru_prev = p] ELSE [fwd EXCEPT !.tail = p]

hashPushFront(t, b, h) ==
  LET n == t.buckets[b]
      own  == [t EXCEPT !.slots[h].h_prev = BucketRef(b), !.slots[h].h_next = n]
      back == IF n = NIL THEN own ELSE [own EXCEPT !.slots[n].h_prev = h]
  IN  [back EXCEPT !.buckets[b] = h]

(* Mutant: the next slot of the chain still points back at the one gone.   *)
hashUnlink_OneWay(t, h) ==
  LET p == t.slots[h].h_prev
      n == t.slots[h].h_next
      fwd == IF IsBucketRef(p) THEN [t EXCEPT !.buckets[p - nrecords] = n]
                               ELSE [t EXCEPT !.slots[p].h_next = n]
  IN  [fwd EXCEPT !.slots[h].h_prev = NIL, !.slots[h].h_next = NIL]

(* The chain is left without knowing the old key.                          *)
hashUnlink(t, h) ==
  LET p == t.slots[h].h_prev
      n == t.slots[h].h_next
      fwd  == IF IsBucketRef(p) THEN [t EXCEPT !.buckets[p - nrecords] = n]
                                ELSE [t EXCEPT !.slots[p].h_next = n]
      back == IF n = NIL THEN fwd ELSE [fwd EXCEPT !.slots[n].h_prev = p]
  IN  [back EXCEPT !.slots[h].h_prev = NIL, !.slots[h].h_next = NIL]

-----------------------------------------------------------------------------
(* The calls.                                                              *)

(* The slots met i steps down a list.                                      *)
ChainAt(t, b) ==
  LET at[i \in 0 .. nrecords] ==
        IF i = 0 THEN t.buckets[b]
        ELSE IF at[i - 1] = NIL THEN NIL ELSE t.slots[at[i - 1]].h_next
  IN  at

LruAt(t) ==
  LET at[i \in 0 .. nrecords] ==
        IF i = 0 THEN t.head
        ELSE IF at[i - 1] = NIL THEN NIL ELSE t.slots[at[i - 1]].lru_next
  IN  at

(* The first slot of the chain with the key.                               *)
find(t, k) ==
  LET at   == ChainAt(t, bucket(k))
      hits == {i \in 0 .. nrecords : at[i] # NIL /\ t.slots[at[i]].key = k}
  IN  IF hits = {} THEN NIL ELSE at[CHOOSE i \in hits : \A j \in hits : i =< j]

touchSlot(t, h) == IF h = t.head THEN t ELSE lruPushFront(lruUnlink(t, h), h)

(* Mutant: the slot claimed stays where the next claim takes it.           *)
createKey_NotTouched(t, k) ==
  LET h == t.tail
      freed == IF t.slots[h].key # 0 THEN hashUnlink(t, h) ELSE [t EXCEPT !.count = t.count + 1]
      keyed == [freed EXCEPT !.slots[h].key = k]
  IN  hashPushFront(keyed, bucket(k), h)

createKey(t, k) ==
  LET h == t.tail
      freed == IF t.slots[h].key # 0 THEN hashUnlink(t, h) ELSE [t EXCEPT !.count = t.count + 1]
      keyed == [freed EXCEPT !.slots[h].key = k]
  IN  touchSlot(hashPushFront(keyed, bucket(k), h), h)

-----------------------------------------------------------------------------
VARIABLE table

(* setup(): the slots pushed one after the other, so the last is in front. *)
setup ==
  [slots |-> [i \in SlotIds |-> [lru_prev |-> IF i = nrecords - 1 THEN NIL ELSE i + 1,
                                 lru_next |-> IF i = 0 THEN NIL ELSE i - 1,
                                 h_prev |-> NIL, h_next |-> NIL, key |-> 0]],
   buckets |-> [b \in Buckets |-> NIL],
   head |-> nrecords - 1, tail |-> 0, count |-> 0]

Init == table = setup

(* A user claims a key (DB::claimShip, PlaneDB::claimPlane, CSV): touch if *)
(* it is found, create if not.                                             *)
touch(k) ==
  /\ find(table, k) # NIL
  /\ table' = touchSlot(table, find(table, k))

create(k) ==
  /\ find(table, k) = NIL
  /\ table' = createKey(table, k)

Next == \E k \in Key : touch(k) \/ create(k)

Spec == Init /\ [][Next]_table

-----------------------------------------------------------------------------
(* Properties.                                                             *)

TypeOK == table \in Table

(* The LRU list is a list of all slots, consistent both ways.              *)
LruListed ==
  LET at == LruAt(table)
  IN  /\ {at[i] : i \in 0 .. (nrecords - 1)} = SlotIds
      /\ at[nrecords] = NIL /\ at[nrecords - 1] = table.tail
      /\ \A i \in 0 .. (nrecords - 1) :
           table.slots[at[i]].lru_prev = IF i = 0 THEN NIL ELSE at[i - 1]

(* The slots with a key come first in it, and count says how many.         *)
KeyedFirst ==
  LET at == LruAt(table)
  IN  \A i \in 0 .. (nrecords - 1) : table.slots[at[i]].key # 0 <=> i < table.count

(* Every chain is consistent both ways and holds the slots of its bucket.  *)
Chained ==
  \A b \in Buckets :
    LET at == ChainAt(table, b)
        on == {i \in 0 .. (nrecords - 1) : at[i] # NIL}
    IN  /\ at[nrecords] = NIL
        /\ {at[i] : i \in on} =
             {h \in SlotIds : table.slots[h].key # 0 /\ bucket(table.slots[h].key) = b}
        /\ \A i \in on : table.slots[at[i]].h_prev = IF i = 0 THEN BucketRef(b) ELSE at[i - 1]

(* What validate() looks for (SlotTable.h:114-184) is never there: both    *)
(* families of lists survive every sequence of claims.                     *)
ValidateClean == TypeOK /\ LruListed /\ KeyedFirst /\ Chained

(* What forEach() visits: the keyed slots from the front of the LRU.       *)
Visited(t) ==
  LET at   == LruAt(t)
      last == CHOOSE n \in 0 .. nrecords :
                /\ \A i \in 0 .. (n - 1) : at[i] # NIL /\ t.slots[at[i]].key # 0
                /\ at[n] # NIL => t.slots[at[n]].key = 0
  IN  [i \in 1 .. last |-> at[i - 1]]

(* The table as its users see it, through forEach() and find().            *)
Order(t) == LET v == Visited(t) IN [i \in 1 .. Len(v) |-> t.slots[v[i]].key]

KeysOf(t) == {t.slots[h].key : h \in SlotIds} \ {0}

SlotOf(t) == IF KeysOf(t) = {} THEN <<>> ELSE [k \in KeysOf(t) |-> find(t, k)]

(* So seen, the table is a least recently used map: a create evicts the    *)
(* key claimed longest ago and no other, and no key changes its slot,      *)
(* which users hold on to across calls.                                    *)
Map == INSTANCE LRUMap WITH order <- Order(table), slot <- SlotOf(table)

RefinesLRUMap == Map!Spec
=============================================================================
