--------------------------- MODULE DatabaseProofs ---------------------------
(***************************************************************************)
(* Theorems about DatabaseOutput, for any number of receivers and          *)
(* messages, any sizes of the queue and any number of hours, and about     *)
(* CSVState, for any number of targets, rows, messages and starts, whether *)
(* or not writes may fail.                                                 *)
(***************************************************************************)
EXTENDS DatabaseOutput, CSVState, SequenceTheorems, FiniteSetTheorems, FunctionTheorems,
        WellFoundedInduction, TLAPS

Sorted(s) == \A i, j \in DOMAIN s : i < j => s[i] < s[j]
Below(s, t) == \A i \in DOMAIN s, j \in DOMAIN t : s[i] < t[j]

(* The parts of the inductive invariant.                                   *)

(* Only the open bucket may be empty or without an hour, and it is empty   *)
(* only before the first message.                                          *)
Used(b) == b.hour \in Hours /\ b.msgs > 0
BucketsUsed ==
  /\ \A i \in DOMAIN pending : Used(pending[i])
  /\ \A i \in DOMAIN buckets : Used(buckets[i])
  /\ current.msgs > 0 => current.hour \in Hours
  /\ current.msgs = 0 => /\ pending = <<>> /\ buckets = <<>>
                        /\ \A h \in Hours : count[h] = 0 /\ row[h] = 0
  /\ buckets # <<>> => At("stats")

(* What was taken out of the queue is older than what is in it.            *)
InOrder ==
  /\ NewestKept /\ Len(queue) =< received
  /\ Sorted(table) /\ Sorted(batch) /\ Below(table, batch)
  /\ \A i \in DOMAIN table : table[i] =< received - Len(queue)
  /\ \A i \in DOMAIN batch : batch[i] =< received - Len(queue)
  /\ batch # <<>> => At("write")

(* Without trouble the table, the batch and the queue are all there was.   *)
Unbroken ==
  ~trouble =>
    /\ Len(table) + Len(batch) + Len(queue) = received
    /\ \A i \in DOMAIN table : table[i] = i
    /\ \A i \in DOMAIN batch : batch[i] = Len(table) + i

(* A bucket s[i] of the hour holds the whole hour, and is its only one.    *)
Whole(s, h) ==
  \A i \in DOMAIN s : s[i].hour = h =>
    s[i].msgs = count[h] /\ \A j \in DOMAIN s : s[j].hour = h => j = i
Once(s, h) == \A i, j \in DOMAIN s : s[i].hour = h /\ s[j].hour = h => i = j
None(s, h) == \A i \in DOMAIN s : s[i].hour # h

(* The hour's messages are counted in the open bucket, else in a closed    *)
(* one, else in the one being written, else in the row.                    *)
Hourly(h) ==
  /\ Once(buckets, h)
  /\ current.hour = h => current.msgs = count[h] /\ None(pending, h)
  /\ current.hour # h =>
       /\ Whole(pending, h)
       /\ None(pending, h) => Whole(buckets, h)
       /\ None(pending, h) /\ None(buckets, h) => row[h] = count[h]

IInv ==
  /\ TypeOK /\ BucketsUsed
  /\ InOrder /\ Unbroken
  /\ \A h \in Hours \ spoiled : Hourly(h)

-----------------------------------------------------------------------------
(* Sequences.                                                              *)

LEMMA Sizes ==
  /\ MAX_QUEUE_SIZE \in Nat \ {0} /\ Half \in Nat \ {0} /\ Quarter \in Nat \ {0}
  /\ Quarter =< MAX_QUEUE_SIZE /\ MaxHour \in Nat \ {0}
BY DatabaseBounds

LEMMA Picked ==
  ASSUME NEW T, NEW s \in Seq(T), NEW n \in Nat, NEW S \in SUBSET DOMAIN s,
         NEW at \in Picks(n, S), NEW r, r = [i \in DOMAIN at |-> s[at[i]]]
  PROVE  /\ r \in Seq(T) /\ Len(r) = n
         /\ \A i \in DOMAIN r : at[i] \in S /\ r[i] = s[at[i]]
         /\ \A i, j \in DOMAIN r : i < j => at[i] < at[j]
<1>1. at \in [1 .. n -> S] /\ \A i, j \in 1 .. n : i < j => at[i] < at[j]
  BY DEF Picks
<1>2. \A i \in 1 .. n : s[at[i]] \in T
  BY <1>1, ElementOfSeq
<1>3. r \in [1 .. n -> T]
  BY <1>1, <1>2
<1> QED
  BY <1>1, <1>3

LEMMA PickedSorted ==
  ASSUME NEW s \in Seq(Nat), Sorted(s), NEW n \in Nat, NEW S \in SUBSET DOMAIN s,
         NEW at \in Picks(n, S), NEW r, r = [i \in DOMAIN at |-> s[at[i]]]
  PROVE  Sorted(r)
<1>1. /\ \A i \in DOMAIN r : at[i] \in S /\ r[i] = s[at[i]]
      /\ \A i, j \in DOMAIN r : i < j => at[i] < at[j]
  BY Picked
<1> QED
  BY <1>1 DEF Sorted

LEMMA ConcatSorted ==
  ASSUME NEW s \in Seq(Nat), NEW t \in Seq(Nat), Sorted(s), Sorted(t), Below(s, t)
  PROVE  Sorted(s \o t)
<1>1. /\ s \o t \in Seq(Nat) /\ Len(s \o t) = Len(s) + Len(t)
      /\ \A i \in 1 .. Len(s) + Len(t) :
           (s \o t)[i] = IF i <= Len(s) THEN s[i] ELSE t[i - Len(s)]
  BY ConcatProperties
<1> SUFFICES ASSUME NEW i \in DOMAIN (s \o t), NEW j \in DOMAIN (s \o t), i < j
             PROVE  (s \o t)[i] < (s \o t)[j]
  BY DEF Sorted
<1>2. i \in 1 .. Len(s) + Len(t) /\ j \in 1 .. Len(s) + Len(t)
  BY <1>1
<1>3. CASE j =< Len(s)
  BY <1>1, <1>2, <1>3 DEF Sorted
<1>4. CASE i =< Len(s) /\ ~(j =< Len(s))
  <2>1. i \in DOMAIN s /\ j - Len(s) \in DOMAIN t
    BY <1>2, <1>4
  <2> QED
    BY <1>1, <1>2, <1>4, <2>1 DEF Below
<1>5. CASE ~(i =< Len(s))
  <2>1. i - Len(s) \in DOMAIN t /\ j - Len(s) \in DOMAIN t /\ i - Len(s) < j - Len(s)
    BY <1>2, <1>5
  <2> QED
    BY <1>1, <1>2, <1>5, <2>1 DEF Sorted
<1> QED
  BY <1>2, <1>3, <1>4, <1>5

LEMMA Removed ==
  ASSUME NEW T, NEW s \in Seq(T), NEW n \in Nat
  PROVE  /\ SubSeq(s, n + 1, Len(s)) \in Seq(T)
         /\ n =< Len(s) => /\ Len(SubSeq(s, n + 1, Len(s))) = Len(s) - n
                          /\ \A i \in 1 .. Len(s) - n : SubSeq(s, n + 1, Len(s))[i] = s[n + i]
<1>1. /\ n + 1 \in 1 .. Len(s) + 1 => Len(s) \in n .. Len(s)
      /\ n > Len(s) => SubSeq(s, n + 1, Len(s)) = <<>>
  BY SubSeqProperties
<1>2. CASE n =< Len(s)
  <2>1. \A i \in n + 1 .. Len(s) : s[i] \in T
    BY ElementOfSeq
  <2> QED
    BY <1>2, <2>1, SubSeqProperties
<1> QED
  BY <1>1, <1>2

-----------------------------------------------------------------------------
(* Types.                                                                  *)

Workers == [pc : {"wait", "connect", "ensure", "copy", "stats", "write", "done", "ended"},
            rested : BOOLEAN]

LEMMA GoesTo ==
  ASSUME NEW pc \in {"wait", "connect", "ensure", "copy", "stats", "write", "done", "ended"},
         Goto(pc)
  PROVE  worker' \in Workers
BY DEF Goto, Workers

LEMMA ReceiveTyped ==
  ASSUME TypeOK, NEW r \in Receivers, Receive(r)
  PROVE  TypeOK'
<1>1. rx[r] \in Hours
  BY DEF Receive, TypeOK, Hours
<1>2. current' \in Buckets /\ pending' \in Seq(Buckets)
  <2>1. current' \in Buckets
    <3>1. CASE current.hour = rx[r]
      <4>1. current \in [hour : 0 .. MaxHour, msgs : Nat]
        BY DEF TypeOK, Buckets
      <4>2. current' = [current EXCEPT !.msgs = @ + 1]
        BY <3>1 DEF Receive, Accumulate
      <4> QED
        BY <4>1, <4>2 DEF Buckets
    <3>2. CASE current.hour # rx[r]
      <4>1. current' = [hour |-> rx[r], msgs |-> 1]
        BY <3>2 DEF Receive, Accumulate
      <4> QED
        BY <1>1, <4>1 DEF Buckets, Hours
    <3> QED
      BY <3>1, <3>2
  <2>2. Append(pending, current) \in Seq(Buckets)
    BY DEF TypeOK
  <2> QED
    BY <2>1, <2>2 DEF Receive, Accumulate, TypeOK
<1>3. count' \in [Hours -> Nat] /\ spoiled' \subseteq Hours
  <2>1. /\ count \in [Hours -> Nat] /\ spoiled \subseteq Hours
        /\ count' = [count EXCEPT ![rx[r]] = @ + 1]
        /\ spoiled' = spoiled \/ spoiled' = spoiled \cup {rx[r]}
    BY Zenon DEF Receive, Accumulate, TypeOK
  <2> QED
    BY <1>1, <2>1
<1>4. queue' \in Seq(Nat) /\ received' \in Nat
  <2>1. Room \in Seq(Nat)
    BY Sizes, Removed DEF Room, TypeOK
  <2> QED
    BY <2>1 DEF Receive, TypeOK
<1>5. rx' \in [Receivers -> 0 .. MaxHour]
  BY Sizes DEF Receive, TypeOK
<1>6. trouble' \in BOOLEAN
  BY Zenon DEF Receive, Full, TypeOK
<1> QED
  BY <1>2, <1>3, <1>4, <1>5, <1>6 DEF Receive, TypeOK, clock, link

LEMMA RequeueTyped ==
  ASSUME TypeOK, Requeue
  PROVE  pending' \in Seq(Buckets)
<1>1. PICK at \in Picks(Cardinality(NotCurrent), NotCurrent) :
        pending' = pending \o [i \in DOMAIN at |-> buckets[at[i]]]
  BY DEF Requeue
<1>2. buckets \in Seq(Buckets) /\ pending \in Seq(Buckets)
  BY DEF TypeOK
<1>3. NotCurrent \in SUBSET DOMAIN buckets /\ Cardinality(NotCurrent) \in Nat
  <2>1. NotCurrent \in SUBSET DOMAIN buckets
    BY DEF NotCurrent
  <2>2. IsFiniteSet(1 .. Len(buckets)) /\ DOMAIN buckets = 1 .. Len(buckets)
    BY <1>2, FS_Interval
  <2> QED
    BY <2>1, <2>2, FS_Subset, FS_CardinalityType
<1>4. [i \in DOMAIN at |-> buckets[at[i]]] \in Seq(Buckets)
  BY <1>2, <1>3, Picked
<1> QED
  BY <1>1, <1>2, <1>4

LEMMA WroteTyped ==
  ASSUME TypeOK, NEW landed \in Seq(Nat), NEW fails \in BOOLEAN, Wrote(landed, fails),
         up' \in BOOLEAN, trouble' \in BOOLEAN
  PROVE  TypeOK'
<1>1. table' \in Seq(Nat) /\ batch' \in Seq(Nat)
  BY DEF Wrote, TypeOK
<1>2. worker' \in Workers
  BY GoesTo DEF Wrote
<1> QED
  BY <1>1, <1>2 DEF Wrote, TypeOK, inbox, Workers

(* The batch that landed: all, none or some of it.                         *)
LEMMA WriteWrote ==
  ASSUME TypeOK, Committed \/ Replayed \/ BatchLost
  PROVE  /\ At("write")
         /\ \E n \in Nat : \E at \in Picks(n, DOMAIN batch), fails \in BOOLEAN :
              Wrote(Landed(at), fails) /\ (~trouble' => Landed(at) = batch)
         /\ up' \in BOOLEAN /\ trouble' \in BOOLEAN /\ (trouble => trouble')
<1> DEFINE all == [i \in 1 .. Len(batch) |-> i]
           none == [i \in 1 .. 0 |-> i]
<1>1. batch \in Seq(Nat) /\ Len(batch) \in Nat
  BY DEF TypeOK
<1>2. all \in Picks(Len(batch), DOMAIN batch) /\ Landed(all) = batch
  <2>1. all \in [1 .. Len(batch) -> DOMAIN batch]
    BY <1>1
  <2> QED
    BY <1>1, <2>1 DEF Picks, Landed
<1>3. none \in Picks(0, DOMAIN batch) /\ Landed(none) = <<>>
  BY <1>1 DEF Picks, Landed
<1>4. up \in BOOLEAN /\ trouble \in BOOLEAN
  BY Zenon DEF TypeOK
<1>5. CASE Committed
  BY <1>1, <1>2, <1>4, <1>5 DEF Committed
<1>6. CASE Replayed
  <2>1. PICK n \in 0 .. (Len(batch) - 1) :
          \E at \in Picks(n, DOMAIN batch) : Wrote(Landed(at), n = 0)
    BY <1>6 DEF Replayed
  <2>2. n \in Nat /\ (n = 0) \in BOOLEAN
    OBVIOUS
  <2> QED
    BY <1>4, <1>6, <2>1, <2>2 DEF Replayed
<1>7. CASE BatchLost
  <2>1. At("write") /\ up' \in BOOLEAN /\ trouble'
    BY <1>7 DEF BatchLost
  <2>2. CASE Wrote(<<>>, TRUE)
    BY <1>3, <2>1, <2>2
  <2>3. CASE Wrote(batch, TRUE)
    BY <1>1, <1>2, <2>1, <2>3
  <2>4. CASE \E n \in 0 .. (Len(batch) - 1) : \E at \in Picks(n, 1 .. (Len(batch) - 1)) :
               Wrote(Landed(at), TRUE)
    <3>1. PICK n \in 0 .. (Len(batch) - 1) :
            \E at \in Picks(n, 1 .. (Len(batch) - 1)) : Wrote(Landed(at), TRUE)
      BY <2>4
    <3>2. PICK at \in Picks(n, 1 .. (Len(batch) - 1)) : Wrote(Landed(at), TRUE)
      BY <3>1
    <3>3. n \in Nat /\ at \in Picks(n, DOMAIN batch)
      BY <1>1, <3>1, <3>2 DEF Picks
    <3> QED
      BY <2>1, <3>2, <3>3
  <2>5. CASE \E n \in 0 .. Len(batch) : \E at \in Picks(n, DOMAIN batch) :
               Wrote(Landed(at), \A i \in DOMAIN at : at[i] = Len(batch))
    <3>1. PICK n \in 0 .. Len(batch) : \E at \in Picks(n, DOMAIN batch) :
            Wrote(Landed(at), \A i \in DOMAIN at : at[i] = Len(batch))
      BY <2>5
    <3>2. PICK at \in Picks(n, DOMAIN batch) :
            Wrote(Landed(at), \A i \in DOMAIN at : at[i] = Len(batch))
      BY <3>1
    <3> DEFINE fails == \A i \in DOMAIN at : at[i] = Len(batch)
    <3>3. n \in Nat /\ fails \in BOOLEAN
      BY <1>1
    <3>4. Wrote(Landed(at), fails)
      BY <3>2
    <3> HIDE DEF fails
    <3> QED
      BY <2>1, <3>3, <3>4
  <2> QED
    BY <1>7, <2>1, <2>2, <2>3, <2>4, <2>5 DEF BatchLost
<1> QED
  BY <1>5, <1>6, <1>7

LEMMA TypeStep == TypeOK /\ BucketsUsed /\ [Next]_vars => TypeOK'
<1> SUFFICES ASSUME TypeOK, BucketsUsed, [Next]_vars
             PROVE  TypeOK'
  OBVIOUS
<1> USE DEF clock, inbox, link
<1>1. ASSUME NEW r \in Receivers, Stamp(r) \/ Receive(r)
      PROVE  TypeOK'
  <2>1. CASE Stamp(r)
    BY <2>1 DEF Stamp, TypeOK, Hours
  <2> QED
    BY <1>1, <2>1, ReceiveTyped
<1>2. CASE Tick
  BY <1>2, Sizes DEF Tick, TypeOK, Hours
<1>3. CASE DatabaseChanges \/ Stop
  BY <1>3 DEF DatabaseChanges, Stop, TypeOK
<1>4. CASE Rested \/ Hurry \/ IsConnected \/ NoConnection \/ Ensure \/ EndCycle
  <2>1. worker' \in Workers
    <3>1. CASE Rested
      BY <3>1 DEF Rested, Workers
    <3>2. CASE EndCycle
      BY <3>2, GoesTo DEF EndCycle
    <3> QED
      BY <1>4, <3>1, <3>2, GoesTo DEF Hurry, IsConnected, NoConnection, Ensure
  <2>2. UNCHANGED <<clock, inbox, queue, current, pending, batch, buckets, connected, terminate,
                    table, row, spoiled, trouble>> /\ failing' \in BOOLEAN
    BY <1>4 DEF Rested, Hurry, IsConnected, NoConnection, Ensure, EndCycle, TypeOK
  <2> QED
    BY <2>1, <2>2 DEF TypeOK, Workers
<1>5. CASE Connect
  <2>1. worker' \in Workers
    BY <1>5, GoesTo DEF Connect
  <2>2. current' \in Buckets
    <3>1. current \in [hour : 0 .. MaxHour, msgs : Nat] /\ hour \in 0 .. MaxHour
      BY DEF TypeOK, Buckets, Hours
    <3>2. current' = [current EXCEPT !.hour = hour]
      BY <1>5 DEF Connect, Relabel
    <3> QED
      BY <3>1, <3>2 DEF Buckets
  <2>3. spoiled' \subseteq Hours
    <3>1. current.msgs \in Nat
      BY DEF TypeOK, Buckets
    <3> QED
      BY <1>5, <3>1 DEF Connect, Relabel, TypeOK, BucketsUsed
  <2> QED
    BY <1>5, <2>1, <2>2, <2>3 DEF Connect, TypeOK, Workers
<1>6. CASE CopyStats
  <2>1. worker' \in Workers
    BY <1>6, GoesTo DEF CopyStats
  <2>2. buckets' \in Seq(Buckets) /\ pending' \in Seq(Buckets)
    <3>1. <<current>> \in Seq(Buckets) /\ <<>> \in Seq(Buckets) /\ pending \in Seq(Buckets)
      BY DEF TypeOK
    <3> QED
      BY <1>6, <3>1 DEF CopyStats
  <2> QED
    BY <1>6, <2>1, <2>2 DEF CopyStats, TypeOK, Workers
<1>7. CASE WriteStats
  <2>1. Head(buckets).msgs \in Nat /\ Tail(buckets) \in Seq(Buckets)
    <3>1. Head(buckets) \in Buckets /\ Tail(buckets) \in Seq(Buckets)
      BY <1>7 DEF WriteStats, TypeOK
    <3> QED
      BY <3>1 DEF Buckets
  <2>2. row' \in [Hours -> Nat]
    BY <1>7, <2>1 DEF WriteStats, TypeOK
  <2> QED
    BY <1>7, <2>1, <2>2 DEF WriteStats, TypeOK
<1>8. CASE StatsRefused
  <2>1. pending' \in Seq(Buckets)
    BY <1>8, RequeueTyped DEF StatsRefused
  <2>2. spoiled' \subseteq Hours
    <3>1. \A i \in DOMAIN pending : pending[i].hour \in Hours
      BY DEF BucketsUsed, Used
    <3> QED
      BY <1>8, <3>1 DEF StatsRefused, TypeOK
  <2> QED
    <3>1. buckets' \in Seq(Buckets)
      BY <1>8 DEF StatsRefused
    <3>2. UNCHANGED <<clock, inbox, queue, current, worker, batch, link, terminate, table, row,
                      trouble>>
      BY <1>8, Zenon DEF StatsRefused
    <3> QED
      BY <2>1, <2>2, <3>1, <3>2 DEF TypeOK
<1>9. CASE SwapQueue
  <2>1. worker' \in Workers
    BY <1>9, GoesTo DEF SwapQueue
  <2>2. failing' \in BOOLEAN
    BY <1>9, Zenon DEF SwapQueue
  <2>3. batch' \in Seq(Nat) /\ queue' \in Seq(Nat)
    BY <1>9 DEF SwapQueue, TakeQueue, TypeOK
  <2> QED
    BY <1>9, <2>1, <2>2, <2>3 DEF SwapQueue, TypeOK, Workers
<1>10. CASE Committed \/ Replayed \/ BatchLost
  <2>1. up' \in BOOLEAN /\ trouble' \in BOOLEAN
    BY <1>10, WriteWrote
  <2>2. PICK n \in Nat : \E at \in Picks(n, DOMAIN batch), fails \in BOOLEAN :
               Wrote(Landed(at), fails) /\ (~trouble' => Landed(at) = batch)
    BY <1>10, WriteWrote
  <2>3. PICK at \in Picks(n, DOMAIN batch), fails \in BOOLEAN : Wrote(Landed(at), fails)
    BY <2>2
  <2>4. Landed(at) \in Seq(Nat)
    <3>1. batch \in Seq(Nat)
      BY DEF TypeOK
    <3> QED
      BY <3>1, Picked DEF Landed
  <2> QED
    BY <2>1, <2>3, <2>4, WroteTyped
<1>11. CASE UNCHANGED vars
  BY <1>11 DEF vars, TypeOK
<1> QED
  BY <1>1, <1>2, <1>3, <1>4, <1>5, <1>6, <1>7, <1>8, <1>9, <1>10, <1>11 DEF Next, Worker, Post

-----------------------------------------------------------------------------
(* The order of the messages.                                              *)

(* Whatever the queue drops, what it keeps are the newest.                 *)
LEMMA RoomMade ==
  ASSUME TypeOK, NewestKept
  PROVE  /\ Room \in Seq(Nat) /\ Len(Room) < MAX_QUEUE_SIZE /\ Len(Room) =< Len(queue)
         /\ \A i \in 1 .. Len(Room) : Room[i] = received - Len(Room) + i
         /\ ~Full => Room = queue
<1>1. /\ queue \in Seq(Nat) /\ received \in Nat /\ Len(queue) \in Nat
      /\ Len(queue) =< MAX_QUEUE_SIZE
      /\ \A i \in 1 .. Len(queue) : queue[i] = received - Len(queue) + i
  BY DEF TypeOK, NewestKept
<1>2. CASE Full
  <2>1. Len(queue) = MAX_QUEUE_SIZE
    BY <1>1, <1>2, Sizes DEF Full
  <2>2. /\ Room \in Seq(Nat) /\ Len(Room) = Len(queue) - Quarter
        /\ \A i \in 1 .. Len(queue) - Quarter : Room[i] = queue[Quarter + i]
    BY <1>1, <1>2, <2>1, Sizes, Removed DEF Room
  <2> QED
    BY <1>1, <1>2, <2>1, <2>2, Sizes
<1>3. CASE ~Full
  BY <1>1, <1>3, Sizes DEF Room, Full
<1> QED
  BY <1>2, <1>3

LEMMA ReceiveOrdered ==
  ASSUME TypeOK, InOrder, Unbroken, NEW r \in Receivers, Receive(r)
  PROVE  InOrder' /\ Unbroken'
<1>1. /\ Room \in Seq(Nat) /\ Len(Room) < MAX_QUEUE_SIZE /\ Len(Room) =< Len(queue)
      /\ \A i \in 1 .. Len(Room) : Room[i] = received - Len(Room) + i
      /\ ~Full => Room = queue
  BY RoomMade DEF InOrder
<1>2. /\ queue' = Append(Room, received + 1) /\ received' = received + 1
      /\ UNCHANGED <<table, batch, worker>> /\ (~trouble' => ~trouble /\ ~Full)
  BY DEF Receive
<1>3. /\ Len(queue') = Len(Room) + 1 /\ received \in Nat /\ queue' \in Seq(Nat)
      /\ \A i \in 1 .. Len(queue') : queue'[i] = received' - Len(queue') + i
  <2>1. received \in Nat
    BY DEF TypeOK
  <2>2. /\ Len(queue') = Len(Room) + 1 /\ queue' \in Seq(Nat) /\ Len(Room) \in Nat
        /\ \A i \in 1 .. Len(Room) : queue'[i] = Room[i]
        /\ queue'[Len(Room) + 1] = received + 1
    BY <1>1, <1>2, <2>1, AppendProperties
  <2>3. ASSUME NEW i \in 1 .. Len(Room) + 1
        PROVE  queue'[i] = received' - Len(queue') + i
    <3>1. CASE i \in 1 .. Len(Room)
      BY <1>1, <1>2, <2>1, <2>2, <3>1
    <3>2. CASE i = Len(Room) + 1
      BY <1>2, <2>1, <2>2, <3>2
    <3> QED
      BY <2>2, <3>1, <3>2
  <2> QED
    BY <2>1, <2>2, <2>3
<1>4. received - Len(queue) =< received' - Len(queue') /\ Len(queue') =< received'
  BY <1>1, <1>2, <1>3 DEF TypeOK, InOrder
<1>5. NewestKept'
  BY <1>1, <1>3, Sizes DEF NewestKept
<1>6. InOrder'
  <2>1. /\ table \in Seq(Nat) /\ batch \in Seq(Nat)
        /\ received - Len(queue) \in Int /\ received' - Len(queue') \in Int
    BY <1>2, <1>3 DEF TypeOK
  <2>2. ASSUME NEW x \in Nat, x =< received - Len(queue)
        PROVE  x =< received' - Len(queue')
    BY <1>4, <2>1, <2>2
  <2>3. \A i \in DOMAIN table : table[i] =< received' - Len(queue')
    <3>1. \A i \in DOMAIN table : table[i] \in Nat
      BY <2>1
    <3> QED
      BY <2>2, <3>1 DEF InOrder
  <2>4. \A i \in DOMAIN batch : batch[i] =< received' - Len(queue')
    <3>1. \A i \in DOMAIN batch : batch[i] \in Nat
      BY <2>1
    <3> QED
      BY <2>2, <3>1 DEF InOrder
  <2> QED
    BY <1>2, <1>4, <1>5, <2>3, <2>4 DEF InOrder, Sorted, Below, At
<1>7. Unbroken'
  BY <1>1, <1>2, <1>3 DEF Unbroken, TypeOK
<1> QED
  BY <1>6, <1>7

LEMMA SwapOrdered ==
  ASSUME TypeOK, InOrder, Unbroken, SwapQueue
  PROVE  InOrder' /\ Unbroken'
<1>1. /\ batch' = queue /\ queue' = <<>> /\ UNCHANGED <<table, received, trouble>>
      /\ batch = <<>>
      /\ queue # <<>> => At("write")'
  BY DEF SwapQueue, TakeQueue, inbox, InOrder, At, Goto
<1>2. /\ table \in Seq(Nat) /\ queue \in Seq(Nat) /\ received \in Nat /\ Len(queue) \in Nat
      /\ \A i \in DOMAIN table : table[i] \in Nat /\ table[i] =< received - Len(queue)
      /\ \A i \in DOMAIN queue : queue[i] = received - Len(queue) + i
  BY ElementOfSeq DEF TypeOK, InOrder, NewestKept
<1>3. Sorted(queue) /\ Below(table, queue)
  BY <1>2 DEF Sorted, Below
<1>4. Len(queue') = 0 /\ received' - Len(queue') = received
  BY <1>1, <1>2
<1>5. /\ \A i \in DOMAIN table : table[i] =< received
      /\ \A i \in DOMAIN queue : queue[i] =< received
  BY <1>2
<1>6. NewestKept'
  BY <1>1, <1>4, Sizes DEF NewestKept
<1>7. InOrder'
  BY <1>1, <1>2, <1>3, <1>4, <1>5, <1>6 DEF InOrder, Sorted, Below
<1>8. Unbroken'
  BY <1>1, <1>2 DEF Unbroken
<1> QED
  BY <1>7, <1>8

LEMMA WroteOrdered ==
  ASSUME TypeOK, InOrder, Unbroken, Committed \/ Replayed \/ BatchLost
  PROVE  InOrder' /\ Unbroken'
<1>1. trouble \in BOOLEAN /\ (trouble => trouble')
  BY WriteWrote, Zenon DEF TypeOK
<1>2. PICK n \in Nat : \E at \in Picks(n, DOMAIN batch), fails \in BOOLEAN :
             Wrote(Landed(at), fails) /\ (~trouble' => Landed(at) = batch)
  BY WriteWrote
<1>3. PICK at \in Picks(n, DOMAIN batch), fails \in BOOLEAN :
        Wrote(Landed(at), fails) /\ (~trouble' => Landed(at) = batch)
  BY <1>2
<1> DEFINE landed == Landed(at)
<1>4. table' = table \o landed /\ batch' = <<>> /\ UNCHANGED <<queue, received>>
  BY <1>3 DEF Wrote, inbox
<1>5. batch \in Seq(Nat) /\ table \in Seq(Nat) /\ received \in Nat
  BY DEF TypeOK
<1>6. /\ landed \in Seq(Nat) /\ Sorted(landed)
      /\ \A i \in DOMAIN landed : at[i] \in DOMAIN batch /\ landed[i] = batch[at[i]]
  <2>1. landed = [i \in DOMAIN at |-> batch[at[i]]] /\ Sorted(batch)
    BY DEF Landed, InOrder
  <2> HIDE DEF landed
  <2>2. /\ landed \in Seq(Nat)
        /\ \A i \in DOMAIN landed : at[i] \in DOMAIN batch /\ landed[i] = batch[at[i]]
    BY <1>3, <1>5, <2>1, Picked
  <2>3. Sorted(landed)
    BY <1>3, <1>5, <2>1, PickedSorted
  <2> QED
    BY <2>2, <2>3
<1> HIDE DEF landed
<1>7. Below(table, landed)
  BY <1>6 DEF Below, InOrder
<1>8. \A i \in DOMAIN landed : landed[i] =< received - Len(queue)
  BY <1>6 DEF InOrder
<1>9. /\ Len(table \o landed) = Len(table) + Len(landed)
      /\ \A i \in 1 .. Len(table) + Len(landed) :
           (table \o landed)[i] = IF i <= Len(table) THEN table[i] ELSE landed[i - Len(table)]
      /\ table \o landed \in Seq(Nat)
  BY <1>5, <1>6, ConcatProperties
<1>10. InOrder'
  <2>1. Sorted(table')
    BY <1>4, <1>5, <1>6, <1>7, ConcatSorted DEF InOrder
  <2>2. \A i \in DOMAIN table' : table'[i] =< received - Len(queue)
    <3>1. ASSUME NEW i \in 1 .. Len(table) + Len(landed)
          PROVE  table'[i] =< received - Len(queue)
      <4>1. CASE i =< Len(table)
        <5>1. table'[i] = table[i] /\ i \in DOMAIN table
          BY <1>4, <1>5, <1>6, <1>9, <4>1
        <5> QED
          BY <5>1 DEF InOrder
      <4>2. CASE ~(i =< Len(table))
        <5>1. i - Len(table) \in DOMAIN landed
          BY <1>5, <1>6, <4>2
        <5> QED
          BY <1>4, <1>5, <1>6, <1>8, <1>9, <4>2, <5>1
      <4> QED
        BY <4>1, <4>2
    <3> QED
      BY <1>4, <1>9, <3>1
  <2>3. Sorted(batch') /\ Below(table', batch') /\ batch' = <<>>
    BY <1>4 DEF Sorted, Below
  <2> QED
    BY <1>4, <2>1, <2>2, <2>3 DEF InOrder, NewestKept
<1>11. Unbroken'
  <2> SUFFICES ASSUME ~trouble'
               PROVE  /\ Len(table') + Len(batch') + Len(queue') = received'
                      /\ \A i \in DOMAIN table' : table'[i] = i
                      /\ \A i \in DOMAIN batch' : batch'[i] = Len(table') + i
    BY DEF Unbroken
  <2>1. ~trouble /\ landed = batch
    BY <1>1, <1>3 DEF landed
  <2>2. /\ Len(table) + Len(batch) + Len(queue) = received
        /\ \A i \in DOMAIN table : table[i] = i
        /\ \A i \in DOMAIN batch : batch[i] = Len(table) + i
    BY <2>1 DEF Unbroken
  <2>3. ASSUME NEW i \in 1 .. Len(table) + Len(landed)
        PROVE  table'[i] = i
    <3>1. CASE i =< Len(table)
      BY <1>4, <1>5, <1>9, <2>2, <3>1
    <3>2. CASE ~(i =< Len(table))
      <4>1. i - Len(table) \in DOMAIN batch
        BY <1>5, <1>6, <2>1, <3>2
      <4> QED
        BY <1>4, <1>5, <1>9, <2>1, <2>2, <3>2, <4>1
    <3> QED
      BY <3>1, <3>2
  <2> QED
    <3>1. Len(table') = Len(table) + Len(batch) /\ Len(batch') = 0 /\ Len(queue') = Len(queue)
      BY <1>4, <1>9, <2>1
    <3>2. DOMAIN table' = 1 .. Len(table) + Len(landed) /\ DOMAIN batch' = {}
      BY <1>4, <1>9
    <3>3. Len(table) \in Nat /\ Len(batch) \in Nat /\ Len(queue) \in Nat
      BY DEF TypeOK
    <3>4. Len(table') + Len(batch') + Len(queue') = received'
      BY <1>4, <2>2, <3>1, <3>3
    <3> QED
      BY <2>3, <3>2, <3>4
<1> QED
  BY <1>10, <1>11

LEMMA OrderStep == TypeOK /\ InOrder /\ Unbroken /\ [Next]_vars => InOrder' /\ Unbroken'
<1> SUFFICES ASSUME TypeOK, InOrder, Unbroken, [Next]_vars
             PROVE  InOrder' /\ Unbroken'
  OBVIOUS
<1>1. ASSUME UNCHANGED <<table, batch, queue, received>>, trouble => trouble',
             worker' = worker \/ ~At("write")
      PROVE  InOrder' /\ Unbroken'
  <2>1. batch # <<>> => At("write")'
    BY <1>1 DEF InOrder, At
  <2>2. InOrder'
    BY <1>1, <2>1 DEF InOrder, NewestKept, Sorted, Below
  <2>3. Unbroken'
    BY <1>1 DEF Unbroken
  <2> QED
    BY <2>2, <2>3
<1>2. ASSUME NEW r \in Receivers, Stamp(r) \/ Receive(r)
      PROVE  InOrder' /\ Unbroken'
  <2>1. CASE Stamp(r)
    BY <1>1, <2>1 DEF Stamp
  <2> QED
    BY <1>2, <2>1, ReceiveOrdered
<1>3. CASE Tick \/ DatabaseChanges \/ Stop \/ WriteStats \/ StatsRefused \/ UNCHANGED vars
  <2>1. /\ UNCHANGED <<table, batch, queue, received, worker>>
        /\ trouble' = trouble \/ trouble'
    BY <1>3 DEF Tick, DatabaseChanges, Stop, WriteStats, StatsRefused, vars, inbox
  <2>2. trouble => trouble'
    BY <2>1
  <2> QED
    BY <1>1, <2>1, <2>2
<1>4. CASE Rested \/ Hurry \/ Connect \/ IsConnected \/ NoConnection \/ Ensure \/ CopyStats
           \/ EndCycle
  <2>1. UNCHANGED <<table, batch, queue, received, trouble>> /\ ~At("write")
    BY <1>4 DEF Rested, Hurry, Hurried, Connect, IsConnected, NoConnection, Ensure, CopyStats,
                EndCycle, At, inbox
  <2> QED
    BY <1>1, <2>1
<1>5. CASE SwapQueue
  BY <1>5, SwapOrdered
<1>6. CASE Committed \/ Replayed \/ BatchLost
  BY <1>6, WroteOrdered
<1> QED
  BY <1>2, <1>3, <1>4, <1>5, <1>6 DEF Next, Worker, Post

-----------------------------------------------------------------------------
(* The statistics.                                                         *)

(* What StatsRefused puts back: the buckets that are not current, each     *)
(* once.                                                                   *)
LEMMA PutBack ==
  ASSUME TypeOK, Requeue
  PROVE  \E kept \in Seq(Buckets) :
           /\ pending' = pending \o kept
           /\ \A i \in DOMAIN kept : \E k \in DOMAIN buckets :
                kept[i] = buckets[k] /\ buckets[k].hour # current.hour
           /\ \A h \in Hours : Once(buckets, h) => Once(kept, h)
           /\ \A k \in DOMAIN buckets : buckets[k].hour # current.hour =>
                \E i \in DOMAIN kept : kept[i] = buckets[k]
<1> DEFINE S == NotCurrent
           n == Cardinality(S)
<1>1. PICK at \in Picks(n, S) : pending' = pending \o [i \in DOMAIN at |-> buckets[at[i]]]
  BY DEF Requeue
<1> DEFINE kept == [i \in DOMAIN at |-> buckets[at[i]]]
<1>2. buckets \in Seq(Buckets) /\ DOMAIN buckets = 1 .. Len(buckets) /\ Len(buckets) \in Nat
  BY DEF TypeOK
<1>3. S \in SUBSET DOMAIN buckets /\ IsFiniteSet(S) /\ n \in Nat
  <2>1. S \in SUBSET DOMAIN buckets
    BY DEF NotCurrent
  <2>2. IsFiniteSet(1 .. Len(buckets))
    BY <1>2, FS_Interval
  <2> QED
    BY <1>2, <2>1, <2>2, FS_Subset, FS_CardinalityType
<1> HIDE DEF S, n
<1>4. at \in [1 .. n -> S] /\ \A i, j \in 1 .. n : i < j => at[i] < at[j]
  BY DEF Picks
<1>5. \A i, j \in 1 .. n : at[i] = at[j] => i = j
  <2> SUFFICES ASSUME NEW i \in 1 .. n, NEW j \in 1 .. n, at[i] = at[j]
               PROVE  i = j
    OBVIOUS
  <2>1. at[i] \in Int /\ at[j] \in Int
    BY <1>2, <1>3, <1>4
  <2> QED
    BY <1>3, <1>4, <2>1
<1>6. \A k \in S : \E i \in 1 .. n : at[i] = k
  <2>1. at \in Injection(1 .. n, S)
    BY <1>4, <1>5, Fun_IsInj
  <2>2. Cardinality(1 .. n) = n
    BY <1>3, FS_Interval
  <2>3. at \in Surjection(1 .. n, S)
    BY <1>3, <2>1, <2>2, FS_Injection DEF n
  <2> QED
    BY <2>3 DEF Surjection
<1>7. /\ kept \in Seq(Buckets) /\ DOMAIN kept = 1 .. n
      /\ \A i \in 1 .. n : at[i] \in DOMAIN buckets /\ kept[i] = buckets[at[i]]
  BY <1>2, <1>3, <1>4, Picked
<1>8. \A i \in DOMAIN kept : \E k \in DOMAIN buckets :
        kept[i] = buckets[k] /\ buckets[k].hour # current.hour
  BY <1>4, <1>7 DEF S, NotCurrent
<1>9. \A h \in Hours : Once(buckets, h) => Once(kept, h)
  BY <1>5, <1>7 DEF Once
<1>10. \A k \in DOMAIN buckets : buckets[k].hour # current.hour =>
         \E i \in DOMAIN kept : kept[i] = buckets[k]
  BY <1>6, <1>7 DEF S, NotCurrent
<1> QED
  BY <1>1, <1>7, <1>8, <1>9, <1>10

LEMMA ReceiveCounted ==
  ASSUME TypeOK, BucketsUsed, NEW r \in Receivers, Receive(r)
  PROVE  BucketsUsed'
<1>1. /\ rx[r] \in Hours
      /\ UNCHANGED <<buckets, worker, row>>
      /\ current \in Buckets /\ pending \in Seq(Buckets)
  BY DEF Receive, TypeOK, Hours
<1>2. current'.msgs > 0 /\ current'.hour \in Hours /\ current'.msgs \in Nat
  <2>1. current.msgs \in Nat
    BY <1>1 DEF Buckets
  <2>2. CASE current.hour = rx[r]
    <3>1. current' = [current EXCEPT !.msgs = @ + 1]
      BY <2>2 DEF Receive, Accumulate
    <3>2. current'.msgs = current.msgs + 1 /\ current'.hour = rx[r]
      BY <1>1, <2>2, <3>1 DEF Buckets
    <3> QED
      BY <1>1, <2>1, <3>2
  <2>3. CASE current.hour # rx[r]
    BY <1>1, <2>3 DEF Receive, Accumulate
  <2> QED
    BY <2>2, <2>3
<1>3. \A i \in DOMAIN pending' : Used(pending'[i])
  <2>1. CASE current.hour # rx[r] /\ current.msgs > 0
    <3>1. pending' = Append(pending, current) /\ Used(current)
      BY <2>1 DEF Receive, Accumulate, BucketsUsed, Used
    <3> QED
      BY <1>1, <3>1, AppendProperties DEF BucketsUsed
  <2>2. CASE ~(current.hour # rx[r] /\ current.msgs > 0)
    BY <2>2 DEF Receive, Accumulate, BucketsUsed
  <2> QED
    BY <2>1, <2>2
<1> QED
  BY <1>1, <1>2, <1>3 DEF BucketsUsed, Used, At

LEMMA CountStep == TypeOK /\ BucketsUsed /\ [Next]_vars => BucketsUsed'
<1> SUFFICES ASSUME TypeOK, BucketsUsed, [Next]_vars
             PROVE  BucketsUsed'
  OBVIOUS
<1>1. current \in Buckets /\ pending \in Seq(Buckets) /\ buckets \in Seq(Buckets)
  BY DEF TypeOK
<1>2. ASSUME UNCHANGED <<current, pending, buckets, count, row>>,
             worker' = worker \/ buckets = <<>>
      PROVE  BucketsUsed'
  BY <1>2 DEF BucketsUsed, Used, At
<1>3. ASSUME NEW r \in Receivers, Stamp(r) \/ Receive(r)
      PROVE  BucketsUsed'
  <2>1. CASE Stamp(r)
    BY <1>2, <2>1 DEF Stamp, inbox
  <2> QED
    BY <1>3, <2>1, ReceiveCounted
<1>4. CASE Tick \/ DatabaseChanges \/ Stop \/ UNCHANGED vars
  BY <1>2, <1>4 DEF Tick, DatabaseChanges, Stop, vars, inbox
<1>5. CASE Rested \/ Hurry \/ IsConnected \/ NoConnection \/ Ensure \/ EndCycle \/ SwapQueue
  <2>1. UNCHANGED <<current, pending, buckets, count, row>> /\ buckets = <<>>
    BY <1>5 DEF Rested, Hurry, Hurried, IsConnected, NoConnection, Ensure, EndCycle, SwapQueue,
                At, inbox, BucketsUsed
  <2> QED
    BY <1>2, <2>1
<1>6. CASE Committed \/ Replayed \/ BatchLost
  <2>1. At("write") /\ UNCHANGED <<current, pending, buckets, count, row>>
    BY <1>6 DEF Committed, Replayed, BatchLost, Wrote, inbox
  <2> QED
    BY <1>2, <2>1 DEF BucketsUsed, At
<1>7. CASE Connect
  <2>1. UNCHANGED <<pending, buckets, count, row>> /\ buckets = <<>>
    BY <1>7 DEF Connect, At, inbox, BucketsUsed
  <2>2. current'.msgs = current.msgs /\ current'.hour \in Hours
    <3>1. current' = [current EXCEPT !.hour = hour] /\ hour \in Hours
      BY <1>7 DEF Connect, Relabel, TypeOK
    <3> QED
      BY <1>1, <3>1 DEF Buckets
  <2> QED
    BY <2>1, <2>2 DEF BucketsUsed, Used
<1>8. CASE CopyStats
  <2>1. /\ UNCHANGED <<current, count, row>> /\ pending' = <<>> /\ At("stats")'
        /\ buckets' = pending \o (IF current.msgs > 0 THEN <<current>> ELSE <<>>)
    BY <1>8 DEF CopyStats, Goto, At, inbox
  <2>2. CASE current.msgs > 0
    <3>1. /\ Used(current) /\ \A i \in DOMAIN pending : Used(pending[i])
          /\ buckets' = Append(pending, current)
      BY <1>1, <2>1, <2>2 DEF BucketsUsed, Used
    <3>2. \A i \in DOMAIN buckets' : Used(buckets'[i])
      BY <1>1, <3>1, AppendProperties
    <3>3. \A i \in DOMAIN pending' : Used(pending'[i])
      BY <2>1
    <3>4. current.msgs # 0 /\ current.hour \in Hours
      BY <1>1, <2>2, <3>1 DEF Buckets, Used
    <3> QED
      BY <2>1, <3>2, <3>3, <3>4 DEF BucketsUsed, Used
  <2>3. CASE ~(current.msgs > 0)
    <3>1. current.msgs = 0 /\ pending = <<>>
      BY <1>1, <2>3 DEF Buckets, BucketsUsed
    <3>2. buckets' = <<>>
      BY <1>1, <2>1, <2>3, <3>1
    <3> QED
      BY <2>1, <3>1, <3>2 DEF BucketsUsed, Used
  <2> QED
    BY <2>2, <2>3
<1>9. CASE WriteStats
  <2>1. /\ UNCHANGED <<current, pending, count, worker>> /\ buckets # <<>>
        /\ buckets' = Tail(buckets)
    BY <1>9 DEF WriteStats, inbox
  <2>2. \A i \in DOMAIN buckets' : Used(buckets'[i])
    BY <1>1, <2>1, HeadTailProperties DEF BucketsUsed
  <2> QED
    BY <2>1, <2>2 DEF BucketsUsed, Used, At
<1>10. CASE StatsRefused
  <2>1. /\ UNCHANGED <<current, count, row, worker>> /\ buckets # <<>>
        /\ buckets' = <<>> /\ Requeue
    BY <1>10 DEF StatsRefused, inbox
  <2>2. PICK kept \in Seq(Buckets) :
          /\ pending' = pending \o kept
          /\ \A i \in DOMAIN kept : \E k \in DOMAIN buckets : kept[i] = buckets[k]
    BY <2>1, PutBack
  <2>3. \A i \in DOMAIN pending' : Used(pending'[i])
    <3>1. \A i \in DOMAIN kept : Used(kept[i])
      BY <2>2 DEF BucketsUsed
    <3>2. \A i \in DOMAIN pending : Used(pending[i])
      BY DEF BucketsUsed
    <3>3. ASSUME NEW i \in 1 .. Len(pending) + Len(kept)
          PROVE  Used(pending'[i])
      <4>1. CASE i =< Len(pending)
        BY <1>1, <2>2, <3>2, <4>1, ConcatProperties
      <4>2. CASE ~(i =< Len(pending))
        <5>1. i - Len(pending) \in DOMAIN kept /\ pending'[i] = kept[i - Len(pending)]
          BY <1>1, <2>2, <4>2, ConcatProperties
        <5> QED
          BY <3>1, <5>1
      <4> QED
        BY <4>1, <4>2
    <3> QED
      BY <1>1, <2>2, <3>3, ConcatProperties
  <2> QED
    BY <2>1, <2>3 DEF BucketsUsed, Used
<1> QED
  BY <1>3, <1>4, <1>5, <1>6, <1>7, <1>8, <1>9, <1>10 DEF Next, Worker, Post

LEMMA ReceiveHourly ==
  ASSUME TypeOK, BucketsUsed, NEW r \in Receivers, Receive(r),
         NEW h \in Hours \ spoiled', Hourly(h)
  PROVE  Hourly(h)'
<1> DEFINE g == rx[r]
<1>1. /\ g \in Hours /\ current \in Buckets /\ pending \in Seq(Buckets)
      /\ current.msgs \in Nat /\ count \in [Hours -> Nat]
      /\ buckets' = buckets /\ row' = row
      /\ count' = [count EXCEPT ![g] = @ + 1]
  <2>1. /\ rx[r] # 0 /\ buckets' = buckets /\ row' = row
        /\ count' = [count EXCEPT ![g] = @ + 1]
    BY DEF Receive, Accumulate
  <2>2. /\ (rx[r] # 0 => rx[r] \in Hours) /\ current \in Buckets /\ pending \in Seq(Buckets)
        /\ count \in [Hours -> Nat]
    BY DEF TypeOK, Hours
  <2>3. current.msgs \in Nat
    BY <2>2 DEF Buckets
  <2> QED
    BY <2>1, <2>2, <2>3
<1>2. /\ h # g => count'[h] = count[h]
      /\ count'[g] = count[g] + 1 /\ count[g] \in Nat
  BY <1>1
<1>3. CASE current.hour = g
  <2>1. current' = [current EXCEPT !.msgs = @ + 1] /\ pending' = pending
    BY <1>3 DEF Receive, Accumulate
  <2>2. current'.hour = current.hour /\ current'.msgs = current.msgs + 1
    BY <1>1, <2>1 DEF Buckets
  <2>3. CASE h = g
    BY <1>1, <1>2, <1>3, <2>1, <2>2, <2>3 DEF Hourly, Once, None
  <2>4. CASE h # g
    BY <1>1, <1>2, <1>3, <2>1, <2>2, <2>4 DEF Hourly, Once, None, Whole
  <2> QED
    BY <2>3, <2>4
<1>4. CASE current.hour # g
  <2>1. /\ current'.hour = g /\ current'.msgs = 1
        /\ h = g => count[g] = 0
    BY <1>1, <1>2, <1>4 DEF Receive, Accumulate
  <2>2. CASE current.msgs > 0
    <3>1. pending' = Append(pending, current)
      BY <1>4, <2>2 DEF Receive, Accumulate
    <3>2. /\ DOMAIN pending' = 1 .. Len(pending) + 1 /\ Len(pending) \in Nat
          /\ DOMAIN pending = 1 .. Len(pending)
          /\ \A i \in 1 .. Len(pending) : pending'[i] = pending[i]
          /\ pending'[Len(pending) + 1] = current
      BY <1>1, <3>1
    <3>3. CASE h = g
      <4>1. None(pending, h)
        <5>1. \A i \in DOMAIN pending : pending[i].msgs # 0
          BY DEF BucketsUsed, Used
        <5> QED
          BY <1>4, <2>1, <3>3, <5>1 DEF Hourly, Whole, None
      <4>2. None(pending', h)
        BY <1>4, <3>2, <3>3, <4>1 DEF None
      <4> QED
        BY <1>1, <1>2, <2>1, <3>3, <4>2 DEF Hourly, Once, None
    <3>4. CASE h = current.hour
      <4>1. None(pending, h) /\ current.msgs = count[h]
        BY <3>4 DEF Hourly
      <4>2. Len(pending) + 1 \in DOMAIN pending' /\ count'[h] = count[h]
        BY <1>2, <1>4, <3>2, <3>4
      <4>3. \A i \in DOMAIN pending' : pending'[i].hour = h => i = Len(pending) + 1
        BY <3>2, <4>1 DEF None
      <4>4. Whole(pending, h)' /\ ~None(pending', h)
        BY <3>2, <3>4, <4>1, <4>2, <4>3 DEF Whole, None
      <4> QED
        BY <1>1, <1>4, <2>1, <3>4, <4>4 DEF Hourly, Once, None
    <3>5. CASE h # g /\ h # current.hour
      <4>1. /\ Whole(pending, h)
            /\ None(pending, h) => Whole(buckets, h)
            /\ None(pending, h) /\ None(buckets, h) => row[h] = count[h]
        BY <3>5 DEF Hourly
      <4>2. Whole(pending, h)' /\ (None(pending', h) => None(pending, h))
        BY <1>2, <3>2, <3>5, <4>1 DEF Whole, None
      <4>3. Whole(buckets, h) => Whole(buckets, h)'
        BY <1>1, <1>2, <3>5 DEF Whole
      <4> QED
        BY <1>1, <1>2, <2>1, <3>5, <4>1, <4>2, <4>3 DEF Hourly, Once, None
    <3> QED
      BY <3>3, <3>4, <3>5
  <2>3. CASE ~(current.msgs > 0)
    <3>1. /\ current.msgs = 0 /\ pending = <<>> /\ buckets = <<>> /\ pending' = <<>>
          /\ row[h] = 0 /\ count[h] = 0
      BY <1>1, <1>4, <2>3 DEF BucketsUsed, Receive, Accumulate
    <3> QED
      BY <1>1, <1>2, <2>1, <3>1 DEF Hourly, Once, None, Whole
  <2> QED
    BY <2>2, <2>3
<1> QED
  BY <1>3, <1>4

LEMMA ConnectHourly ==
  ASSUME TypeOK, BucketsUsed, Connect, NEW h \in Hours \ spoiled', Hourly(h)
  PROVE  Hourly(h)'
<1>1. /\ current \in [hour : 0 .. MaxHour, msgs : Nat]
      /\ current' = [current EXCEPT !.hour = hour]
      /\ UNCHANGED <<pending, buckets, count, row>>
  BY DEF TypeOK, Connect, Relabel, inbox, Buckets
<1>2. current'.hour = hour /\ current'.msgs = current.msgs /\ current.msgs \in Nat
  BY <1>1
<1>3. CASE current.msgs = 0
  <2>1. pending = <<>> /\ buckets = <<>> /\ row[h] = 0 /\ count[h] = 0
    BY <1>3 DEF BucketsUsed
  <2> QED
    BY <1>1, <1>2, <1>3, <2>1 DEF Hourly, Once, None, Whole
<1>4. CASE current.msgs > 0 /\ current.hour # hour
  <2>1. h # current.hour /\ h # hour
    BY <1>4 DEF Connect, Relabel
  <2> QED
    BY <1>1, <1>2, <2>1 DEF Hourly, Once, None, Whole
<1>5. CASE current.hour = hour
  BY <1>1, <1>2, <1>5 DEF Hourly, Once, None, Whole
<1> QED
  BY <1>2, <1>3, <1>4, <1>5

LEMMA CopyHourly ==
  ASSUME TypeOK, BucketsUsed, CopyStats, NEW h \in Hours, Hourly(h)
  PROVE  Hourly(h)'
<1>1. /\ buckets = <<>> /\ pending' = <<>> /\ UNCHANGED <<current, count, row>>
      /\ buckets' = pending \o (IF current.msgs > 0 THEN <<current>> ELSE <<>>)
      /\ current \in Buckets /\ pending \in Seq(Buckets)
  BY DEF TypeOK, CopyStats, BucketsUsed, inbox, At
<1>2. /\ \A i \in DOMAIN pending : i \in DOMAIN buckets' /\ buckets'[i] = pending[i]
      /\ \A i \in DOMAIN buckets' :
           i \in DOMAIN pending \/ (i = Len(pending) + 1 /\ buckets'[i] = current)
  <2>1. DOMAIN pending = 1 .. Len(pending) /\ Len(pending) \in Nat
    BY <1>1
  <2>2. CASE current.msgs > 0
    <3>1. buckets' = Append(pending, current)
      BY <1>1, <2>2
    <3>2. /\ DOMAIN buckets' = 1 .. Len(pending) + 1
          /\ \A i \in 1 .. Len(pending) : buckets'[i] = pending[i]
          /\ buckets'[Len(pending) + 1] = current
      BY <1>1, <3>1, AppendProperties
    <3>3. \A i \in 1 .. Len(pending) + 1 : i \in 1 .. Len(pending) \/ i = Len(pending) + 1
      BY <2>1
    <3>4. \A i \in 1 .. Len(pending) : i \in 1 .. Len(pending) + 1
      BY <2>1
    <3> QED
      BY <2>1, <3>2, <3>3, <3>4, Zenon
  <2>3. CASE ~(current.msgs > 0)
    <3>1. buckets' = pending
      BY <1>1, <2>3, ConcatEmptySeq
    <3> QED
      BY <3>1
  <2> QED
    BY <2>2, <2>3
<1>3. CASE h = current.hour
  <2>1. None(pending, h) /\ current.msgs = count[h]
    BY <1>3 DEF Hourly
  <2>2. Once(buckets', h)
    BY <1>2, <2>1 DEF Once, None
  <2> QED
    BY <1>1, <1>3, <2>1, <2>2 DEF Hourly, None, Once
<1>4. CASE h # current.hour
  <2>1. /\ Whole(pending, h)
        /\ None(pending, h) => row[h] = count[h]
    BY <1>1, <1>4 DEF Hourly, None
  <2>2. Whole(buckets, h)' /\ (None(buckets', h) => None(pending, h))
    BY <1>1, <1>2, <1>4, <2>1 DEF Whole, None
  <2>3. Once(buckets', h) /\ Whole(pending, h)'
    BY <1>1, <2>2 DEF Once, Whole
  <2> QED
    BY <1>1, <1>4, <2>1, <2>2, <2>3 DEF Hourly, None, Once
<1> QED
  BY <1>3, <1>4

LEMMA WriteHourly ==
  ASSUME TypeOK, BucketsUsed, WriteStats, NEW h \in Hours, Hourly(h)
  PROVE  Hourly(h)'
<1>1. /\ buckets # <<>> /\ buckets \in Seq(Buckets) /\ UNCHANGED <<current, count, pending>>
      /\ buckets' = Tail(buckets) /\ row \in [Hours -> Nat]
      /\ row' = [row EXCEPT ![Head(buckets).hour] = Head(buckets).msgs]
  BY DEF TypeOK, WriteStats, inbox
<1>2. /\ DOMAIN buckets = 1 .. Len(buckets) /\ DOMAIN buckets' = 1 .. (Len(buckets) - 1)
      /\ Len(buckets) \in Nat /\ Len(buckets) > 0 /\ Head(buckets) = buckets[1]
      /\ \A i \in DOMAIN buckets' : buckets'[i] = buckets[i + 1]
  BY <1>1
<1>3. /\ Once(buckets, h) => Once(buckets', h)
      /\ Whole(buckets, h) => Whole(buckets, h)'
  <2>1. \A i \in DOMAIN buckets' : i + 1 \in DOMAIN buckets
    BY <1>2
  <2>2. \A i, j \in DOMAIN buckets' : i + 1 = j + 1 => i = j
    BY <1>2
  <2>3. Once(buckets, h) => Once(buckets', h)
    BY <1>2, <2>1, <2>2 DEF Once
  <2>4. Whole(buckets, h) => Whole(buckets, h)'
    <3> SUFFICES ASSUME Whole(buckets, h), NEW i \in DOMAIN buckets', buckets'[i].hour = h
                 PROVE  /\ buckets'[i].msgs = count'[h]
                        /\ \A j \in DOMAIN buckets' : buckets'[j].hour = h => j = i
      BY DEF Whole
    <3>1. i + 1 \in DOMAIN buckets /\ buckets[i + 1].hour = h
      BY <1>2, <2>1
    <3> QED
      BY <1>1, <1>2, <2>1, <2>2, <3>1 DEF Whole
  <2> QED
    BY <2>3, <2>4
<1>4. CASE h = current.hour
  BY <1>1, <1>3, <1>4 DEF Hourly, None, Once
<1>5. CASE h # current.hour
  <2>1. ASSUME None(pending, h), None(buckets', h)
        PROVE  row'[h] = count[h]
    <3>1. CASE buckets[1].hour = h
      BY <1>1, <1>2, <1>5, <2>1, <3>1 DEF Hourly, Whole
    <3>2. CASE buckets[1].hour # h
      <4>1. None(buckets, h)
        <5>1. \A i \in DOMAIN buckets : i = 1 \/ (i - 1) \in DOMAIN buckets'
          BY <1>2
        <5> QED
          BY <1>2, <2>1, <3>2, <5>1 DEF None
      <4> QED
        BY <1>1, <1>2, <1>5, <2>1, <3>2, <4>1 DEF Hourly
    <3> QED
      BY <3>1, <3>2
  <2>2. Whole(pending, h)'
    BY <1>1, <1>5 DEF Hourly, Whole
  <2> QED
    BY <1>1, <1>3, <1>5, <2>1, <2>2 DEF Hourly, None, Once
<1> QED
  BY <1>4, <1>5

LEMMA RefusedHourly ==
  ASSUME TypeOK, BucketsUsed, StatsRefused, NEW h \in Hours \ spoiled', Hourly(h)
  PROVE  Hourly(h)'
<1>1. /\ Requeue /\ buckets' = <<>> /\ UNCHANGED <<current, count, row>>
      /\ pending \in Seq(Buckets) /\ buckets \in Seq(Buckets)
  BY DEF TypeOK, StatsRefused, inbox
<1>2. PICK kept \in Seq(Buckets) :
        /\ pending' = pending \o kept
        /\ \A i \in DOMAIN kept : \E k \in DOMAIN buckets :
             kept[i] = buckets[k] /\ buckets[k].hour # current.hour
        /\ Once(buckets, h) => Once(kept, h)
        /\ \A k \in DOMAIN buckets : buckets[k].hour # current.hour =>
             \E i \in DOMAIN kept : kept[i] = buckets[k]
  BY <1>1, PutBack
<1>3. /\ Len(pending) \in Nat /\ Len(kept) \in Nat
      /\ DOMAIN pending = 1 .. Len(pending) /\ DOMAIN kept = 1 .. Len(kept)
      /\ DOMAIN pending' = 1 .. Len(pending) + Len(kept)
      /\ \A i \in 1 .. Len(pending) + Len(kept) :
           pending'[i] = IF i <= Len(pending) THEN pending[i] ELSE kept[i - Len(pending)]
  BY <1>1, <1>2, ConcatProperties
<1>4. None(pending, h) \/ None(kept, h)
  <2> SUFFICES ASSUME NEW i \in DOMAIN pending, pending[i].hour = h,
                      NEW j \in DOMAIN kept, kept[j].hour = h
               PROVE  FALSE
    BY DEF None
  <2>1. PICK k \in DOMAIN buckets : kept[j] = buckets[k] /\ buckets[k].hour # current.hour
    BY <1>2
  <2>2. h \in {buckets[x].hour : x \in NotCurrent} \cap {pending[x].hour : x \in DOMAIN pending}
    BY <2>1 DEF NotCurrent
  <2> QED
    BY <2>2 DEF StatsRefused
<1>5. ASSUME NEW i \in DOMAIN pending'
      PROVE  \/ i \in DOMAIN pending /\ pending'[i] = pending[i]
             \/ i - Len(pending) \in DOMAIN kept /\ pending'[i] = kept[i - Len(pending)]
  BY <1>3
<1>6. Once(buckets', h) /\ Whole(buckets, h)' /\ None(buckets', h)
  BY <1>1 DEF Once, Whole, None
<1>7. CASE h = current.hour
  <2>1. None(kept, h)
    BY <1>2, <1>7 DEF None
  <2>2. None(pending', h)
    BY <1>5, <1>7, <2>1 DEF Hourly, None
  <2> QED
    BY <1>1, <1>6, <1>7, <2>2 DEF Hourly, None, Once
<1>8. CASE h # current.hour
  <2>1. CASE None(kept, h)
    <3>1. Whole(pending, h)'
      <4>1. Whole(pending, h)
        BY <1>8 DEF Hourly
      <4>2. \A i \in DOMAIN pending' : pending'[i].hour = h =>
              i \in DOMAIN pending /\ pending'[i] = pending[i]
        BY <1>5, <2>1 DEF None
      <4> QED
        BY <1>1, <4>1, <4>2 DEF Whole
    <3>2. None(pending', h) => None(pending, h)
      BY <1>3 DEF None
    <3>3. None(buckets, h)
      BY <1>2, <1>8, <2>1 DEF None
    <3> QED
      BY <1>1, <1>6, <1>8, <3>1, <3>2, <3>3 DEF Hourly, None, Once
  <2>2. CASE ~None(kept, h)
    <3>1. None(pending, h) /\ Whole(buckets, h)
      BY <1>4, <1>8, <2>2 DEF Hourly
    <3>2. Once(kept, h)
      BY <1>2 DEF Hourly
    <3>3. \A i \in DOMAIN kept : kept[i].hour = h => kept[i].msgs = count[h]
      BY <1>2, <3>1 DEF Whole
    <3>4. \A i \in DOMAIN pending' : pending'[i].hour = h =>
            i - Len(pending) \in DOMAIN kept /\ pending'[i] = kept[i - Len(pending)]
      BY <1>5, <3>1 DEF None
    <3>5. Whole(pending, h)'
      <4>1. \A i, j \in DOMAIN pending' : i - Len(pending) = j - Len(pending) => i = j
        BY <1>3
      <4>2. \A i, j \in DOMAIN pending' :
              pending'[i].hour = h /\ pending'[j].hour = h => i = j
        BY <3>2, <3>4, <4>1 DEF Once
      <4>3. \A i \in DOMAIN pending' : pending'[i].hour = h => pending'[i].msgs = count'[h]
        BY <1>1, <3>3, <3>4
      <4> QED
        BY <4>2, <4>3 DEF Whole
    <3>6. ~None(pending', h)
      <4>1. PICK i \in DOMAIN kept : kept[i].hour = h
        BY <2>2 DEF None
      <4>2. i + Len(pending) \in DOMAIN pending' /\ pending'[i + Len(pending)] = kept[i]
        BY <1>3
      <4> QED
        BY <4>1, <4>2 DEF None
    <3> QED
      BY <1>1, <1>6, <1>8, <3>5, <3>6 DEF Hourly, None, Once
  <2> QED
    BY <2>1, <2>2
<1> QED
  BY <1>7, <1>8

LEMMA HourStep ==
  ASSUME TypeOK, BucketsUsed, \A h \in Hours \ spoiled : Hourly(h), [Next]_vars
  PROVE  (\A h \in Hours \ spoiled : Hourly(h))'
<1>1. spoiled \subseteq spoiled'
  BY DEF Next, Stamp, Receive, Accumulate, Tick, DatabaseChanges, Stop, Worker, Rested, Hurry, Post,
         Connect, Relabel, IsConnected, NoConnection, Ensure, CopyStats, WriteStats, StatsRefused,
         SwapQueue, Committed, Replayed, BatchLost, Wrote, EndCycle, vars
<1> SUFFICES ASSUME NEW h \in Hours \ spoiled'
             PROVE  Hourly(h)'
  OBVIOUS
<1>2. Hourly(h)
  BY <1>1
<1>3. ASSUME UNCHANGED <<current, pending, buckets, count, row>>
      PROVE  Hourly(h)'
  BY <1>2, <1>3 DEF Hourly, Once, None, Whole
<1>4. ASSUME NEW r \in Receivers, Stamp(r) \/ Receive(r)
      PROVE  Hourly(h)'
  <2>1. CASE Stamp(r)
    BY <1>3, <2>1 DEF Stamp
  <2> QED
    BY <1>2, <1>4, <2>1, ReceiveHourly
<1>5. CASE Tick \/ DatabaseChanges \/ Stop \/ Rested \/ Hurry \/ IsConnected \/ NoConnection
           \/ Ensure \/ SwapQueue \/ EndCycle \/ UNCHANGED vars
  BY <1>3, <1>5 DEF Tick, DatabaseChanges, Stop, Rested, Hurry, IsConnected, NoConnection, Ensure,
                    SwapQueue, EndCycle, vars, inbox
<1>6. CASE Committed \/ Replayed \/ BatchLost
  BY <1>3, <1>6 DEF Committed, Replayed, BatchLost, Wrote, inbox
<1>7. CASE Connect
  BY <1>2, <1>7, ConnectHourly
<1>8. CASE CopyStats
  BY <1>2, <1>8, CopyHourly
<1>9. CASE WriteStats
  BY <1>2, <1>9, WriteHourly
<1>10. CASE StatsRefused
  BY <1>2, <1>10, RefusedHourly
<1> QED
  BY <1>4, <1>5, <1>6, <1>7, <1>8, <1>9, <1>10 DEF Next, Worker, Post

-----------------------------------------------------------------------------
(* The theorems.                                                           *)

LEMMA Invariance == Spec => []IInv
<1>1. Init => IInv
  <2> SUFFICES ASSUME Init
               PROVE  IInv
    OBVIOUS
  <2>1. /\ up \in BOOLEAN /\ connected = up /\ failing = ~up
        /\ 1 \in Hours /\ 1 \in 0 .. MaxHour /\ 0 \in 0 .. MaxHour
    <3>1. 1 \in Hours /\ 1 \in 0 .. MaxHour /\ 0 \in 0 .. MaxHour
      BY Sizes DEF Hours
    <3> QED
      BY <3>1, Zenon DEF Init
  <2>2. failing \in BOOLEAN
    BY <2>1, Zenon
  <2>3. current \in Buckets
    BY <2>1 DEF Init, Buckets
  <2>4. TypeOK
    <3>1. /\ connected \in BOOLEAN /\ terminate \in BOOLEAN /\ trouble \in BOOLEAN
          /\ worker = [pc |-> "done", rested |-> FALSE] /\ hour = 1
      BY <2>1, Zenon DEF Init
    <3>2. /\ rx \in [Receivers -> 0 .. MaxHour] /\ row \in [Hours -> Nat]
          /\ count \in [Hours -> Nat] /\ received \in Nat /\ spoiled \subseteq Hours
      BY <2>1 DEF Init
    <3>3. /\ queue \in Seq(Nat) /\ batch \in Seq(Nat) /\ table \in Seq(Nat)
          /\ pending \in Seq(Buckets) /\ buckets \in Seq(Buckets)
      BY DEF Init
    <3> QED
      BY <2>1, <2>2, <2>3, <3>1, <3>2, <3>3 DEF TypeOK
  <2>5. BucketsUsed
    BY DEF Init, BucketsUsed, At
  <2>6. InOrder /\ Unbroken
    BY Sizes DEF Init, InOrder, Unbroken, NewestKept, Sorted, Below
  <2>7. \A h \in Hours \ spoiled : Hourly(h)
    BY DEF Init, Hourly, Once, None, Whole
  <2> QED
    BY <2>4, <2>5, <2>6, <2>7 DEF IInv
<1>2. IInv /\ [Next]_vars => IInv'
  <2> SUFFICES ASSUME IInv, [Next]_vars
               PROVE  IInv'
    OBVIOUS
  <2>1. /\ TypeOK /\ BucketsUsed /\ InOrder /\ Unbroken
        /\ \A h \in Hours \ spoiled : Hourly(h)
    BY DEF IInv
  <2> QED
    BY <2>1, TypeStep, CountStep, OrderStep, HourStep DEF IInv
<1> QED
  BY <1>1, <1>2, PTL DEF Spec

(* Every bucket on its way to the statistics has an hour and a message.     *)
StatsHaveHours ==
  \A b \in ToSet(pending) \cup ToSet(buckets) : b.hour \in Hours /\ b.msgs > 0

(* The worker, the queue and the two tables keep their types, and a bucket *)
(* without an hour, or with nothing in it, never gets into the statistics, *)
(* whenever the worker connects (DatabaseOutput.cpp:377-383, 610-619).     *)
THEOREM TypeCorrect == Spec => [](TypeOK /\ StatsHaveHours)
<1>1. IInv => TypeOK /\ StatsHaveHours
  <2> SUFFICES ASSUME IInv
               PROVE  TypeOK /\ StatsHaveHours
    OBVIOUS
  <2>1. TypeOK /\ BucketsUsed
    BY DEF IInv
  <2>2. \A i \in DOMAIN pending : pending[i].hour \in Hours /\ pending[i].msgs > 0
    BY <2>1 DEF BucketsUsed, Used
  <2>3. \A i \in DOMAIN buckets : buckets[i].hour \in Hours /\ buckets[i].msgs > 0
    BY <2>1 DEF BucketsUsed, Used
  <2> QED
    BY <2>1, <2>2, <2>3 DEF StatsHaveHours, ToSet
<1> QED
  BY <1>1, Invariance, PTL

(* What waits in the queue are the newest messages without a gap, never    *)
(* more than MAX_QUEUE_SIZE of them, for any share of the queue that an    *)
(* overflow drops (DatabaseOutput.cpp:723-730).                            *)
THEOREM OnlyOldestDropped == Spec => []NewestKept
<1>1. IInv => NewestKept
  BY DEF IInv, InOrder
<1> QED
  BY <1>1, Invariance, PTL

(* No message is written twice or out of order, whatever is rolled back,   *)
(* replayed or lost with a connection; and none is lost while the database *)
(* works and the queue has room (DatabaseOutput.cpp:399-497).              *)
THEOREM OnceInOrder == Spec => []WrittenOnce
<1>1. IInv => WrittenOnce
  <2> SUFFICES ASSUME IInv
               PROVE  WrittenOnce
    OBVIOUS
  <2> DEFINE out == table \o batch
             all == table \o batch \o queue
  <2>1. /\ TypeOK /\ InOrder /\ Unbroken
        /\ table \in Seq(Nat) /\ batch \in Seq(Nat) /\ queue \in Seq(Nat) /\ received \in Nat
        /\ Len(table) \in Nat /\ Len(batch) \in Nat /\ Len(queue) \in Nat
        /\ \A i \in DOMAIN queue : queue[i] = received - Len(queue) + i
    BY DEF IInv, TypeOK, InOrder, NewestKept
  <2>2. Sorted(out) /\ out \in Seq(Nat)
    BY <2>1, ConcatSorted DEF InOrder
  <2>3. Sorted(queue)
    BY <2>1 DEF Sorted
  <2>4. /\ Len(out) = Len(table) + Len(batch)
        /\ \A i \in 1 .. Len(table) + Len(batch) :
             out[i] = IF i <= Len(table) THEN table[i] ELSE batch[i - Len(table)]
    BY <2>1, ConcatProperties
  <2>5. ASSUME NEW i \in DOMAIN out
        PROVE  out[i] \in Nat /\ out[i] =< received - Len(queue)
    <3>1. i \in 1 .. Len(table) + Len(batch)
      BY <2>2, <2>4
    <3>2. CASE i =< Len(table)
      BY <2>1, <2>2, <2>4, <3>1, <3>2 DEF InOrder
    <3>3. CASE ~(i =< Len(table))
      <4>1. i - Len(table) \in DOMAIN batch
        BY <2>1, <3>1, <3>3
      <4> QED
        BY <2>1, <2>2, <2>4, <3>1, <3>3, <4>1 DEF InOrder
    <3> QED
      BY <3>2, <3>3
  <2>6. Below(out, queue)
    <3> SUFFICES ASSUME NEW i \in DOMAIN out, NEW j \in DOMAIN queue
                 PROVE  out[i] < queue[j]
      BY DEF Below
    <3>1. j \in Nat \ {0} /\ queue[j] = received - Len(queue) + j
      BY <2>1
    <3>2. out[i] \in Nat /\ out[i] =< received - Len(queue)
      BY <2>5
    <3> HIDE DEF out
    <3> QED
      BY <2>1, <3>1, <3>2
  <2>7. /\ all = out \o queue /\ all \in Seq(Nat) /\ Len(all) = Len(out) + Len(queue)
        /\ \A i \in 1 .. Len(out) + Len(queue) :
             all[i] = IF i <= Len(out) THEN out[i] ELSE queue[i - Len(out)]
    BY <2>1, <2>2, ConcatProperties
  <2>8. Sorted(all)
    BY <2>1, <2>2, <2>3, <2>6, <2>7, ConcatSorted
  <2>9. \A i \in 1 .. (Len(all) - 1) : all[i] < all[i + 1]
    <3> HIDE DEF all
    <3>1. Len(all) \in Nat /\ DOMAIN all = 1 .. Len(all)
      BY <2>7
    <3>2. \A i \in 1 .. (Len(all) - 1) : i \in DOMAIN all /\ i + 1 \in DOMAIN all /\ i < i + 1
      BY <3>1
    <3> QED
      BY <2>8, <3>2, Zenon DEF Sorted
  <2>10. ASSUME ~trouble
         PROVE  all = [i \in 1 .. received |-> i]
    <3>1. /\ Len(table) + Len(batch) + Len(queue) = received
          /\ \A i \in DOMAIN table : table[i] = i
          /\ \A i \in DOMAIN batch : batch[i] = Len(table) + i
      BY <2>1, <2>10 DEF Unbroken
    <3> HIDE DEF all, out
    <3>2. Len(all) = received /\ Len(out) = Len(table) + Len(batch)
      BY <2>1, <2>4, <2>7, <3>1
    <3>3. ASSUME NEW i \in 1 .. received
          PROVE  all[i] = i
      <4>1. CASE i =< Len(table)
        <5>1. all[i] = out[i] /\ out[i] = table[i] /\ i \in DOMAIN table
          <6>1. /\ i \in 1 .. Len(table) /\ i \in 1 .. Len(table) + Len(batch)
                /\ i \in 1 .. Len(out) + Len(queue) /\ i <= Len(out)
            BY <2>1, <3>1, <3>2, <4>1
          <6>2. all[i] = out[i]
            BY <2>7, <6>1
          <6>3. out[i] = table[i]
            BY <2>4, <4>1, <6>1
          <6> QED
            BY <2>1, <6>1, <6>2, <6>3
        <5> QED
          BY <3>1, <5>1
      <4>2. CASE ~(i =< Len(table)) /\ i =< Len(out)
        <5>1. i - Len(table) \in DOMAIN batch
          BY <2>1, <3>2, <4>2
        <5>2. all[i] = out[i] /\ out[i] = batch[i - Len(table)]
          BY <2>1, <2>4, <2>7, <3>1, <3>2, <4>2
        <5> QED
          BY <2>1, <3>1, <5>1, <5>2
      <4>3. CASE ~(i =< Len(out))
        <5>1. i - Len(out) \in DOMAIN queue
          BY <2>1, <3>1, <3>2, <4>3
        <5>2. all[i] = queue[i - Len(out)]
          BY <2>1, <2>7, <3>1, <3>2, <4>3
        <5> QED
          BY <2>1, <3>1, <3>2, <5>1, <5>2
      <4> QED
        BY <4>1, <4>2, <4>3
    <3>4. all \in [1 .. received -> Nat]
      <4>1. all \in Seq(Nat) /\ Len(all) = received
        BY <2>7, <3>2
      <4>2. all \in [1 .. Len(all) -> Nat]
        BY <4>1, LenProperties
      <4> QED
        BY <4>1, <4>2
    <3> QED
      BY <3>3, <3>4
  <2> QED
    BY <2>9, <2>10 DEF WrittenOnce
<1> QED
  BY <1>1, Invariance, PTL

(* An hour with no bucket on its way has its row exact, whatever failed,   *)
(* was put back or written again in between -- but for the hours that had  *)
(* more than one bucket (DatabaseOutput.cpp:329-397).                      *)
THEOREM RowsExact == Spec => []StatsExact
<1>1. IInv => StatsExact
  <2> SUFFICES ASSUME IInv, NEW h \in Hours \ (spoiled \cup {current.hour}),
                      \A b \in ToSet(pending) \cup ToSet(buckets) : b.hour # h
               PROVE  row[h] = count[h]
    BY DEF StatsExact
  <2>1. None(pending, h) /\ None(buckets, h)
    BY DEF None, ToSet
  <2> QED
    BY <2>1 DEF IInv, Hourly
<1> QED
  BY <1>1, Invariance, PTL

-----------------------------------------------------------------------------
(* CSVState.                                                               *)

(* The parts of the inductive invariant.                                   *)

(* A run that has nothing to fold in would find its table again, in order. *)
Restorable ==
    (phase # "off" \/ exit = "clean") /\ ~damaged /\ NothingToFold
      => LoadedOrder(OnDisk) = order

(* An orderly exit leaves nothing to fold in.                              *)
LeftFolded == phase = "off" /\ exit = "clean" => NothingToFold

CsvIInv == CsvTypeOK /\ CleanOnDisk /\ Restorable /\ LeftFolded

-----------------------------------------------------------------------------
(* Induction over the naturals, for a set in place of a predicate, and the *)
(* extremes of sets of positions.                                          *)

LEMMA LeastElement ==
  ASSUME NEW T \in SUBSET Nat, T # {}
  PROVE  \E x \in T : \A y \in T : x =< y
<1> DEFINE R == {e \in Nat \X Nat : e[1] < e[2]}
<1>1. IsWellFoundedOn(R, Nat)
  BY NatLessThanWellFounded DEF OpToRel
<1>2. \A x, y \in Nat : y < x => <<y, x>> \in R
  OBVIOUS
<1> HIDE DEF R
<1>3. PICK x \in T : \A y \in T : <<y, x>> \notin R
  BY <1>1, WFMin, Zenon
<1>4. \A y \in T : ~(y < x)
  BY <1>2, <1>3
<1> QED
  BY <1>3, <1>4

LEMMA InductionOnNat ==
  ASSUME NEW S, 0 \in S, \A n \in Nat : n \in S => n + 1 \in S
  PROVE  Nat \subseteq S
<1> SUFFICES ASSUME ~(Nat \subseteq S)
             PROVE  FALSE
  OBVIOUS
<1>1. PICK x \in Nat \ S : \A y \in Nat \ S : x =< y
  BY LeastElement
<1>2. x - 1 \in Nat
  BY <1>1
<1>3. x - 1 \in S
  BY <1>1, <1>2
<1> QED
  BY <1>1, <1>2, <1>3

LEMMA MinProperties ==
  ASSUME NEW T \in SUBSET Nat, T # {}
  PROVE  Min(T) \in T /\ \A y \in T : Min(T) =< y
<1>1. \E x \in T : \A y \in T : x =< y
  BY LeastElement
<1> QED
  BY <1>1 DEF Min

LEMMA MaxProperties ==
  ASSUME NEW n \in Nat, NEW T \in SUBSET (0 .. n), T # {}
  PROVE  Max(T) \in T /\ \A y \in T : Max(T) >= y
<1> DEFINE U == {n - x : x \in T}
<1>1. U \in SUBSET Nat /\ U # {}
  <2>1. \A x \in T : n - x \in Nat
    OBVIOUS
  <2> QED
    BY <2>1
<1>2. PICK u \in U : \A v \in U : u =< v
  BY <1>1, LeastElement
<1>3. PICK x \in T : u = n - x
  BY <1>2
<1>4. ASSUME NEW y \in T
      PROVE  x >= y
  <2>1. n - y \in U
    OBVIOUS
  <2>2. n - x =< n - y /\ x \in 0 .. n /\ y \in 0 .. n
    BY <1>2, <1>3, <2>1
  <2> QED
    BY <2>2
<1>5. \E z \in T : \A y \in T : z >= y
  BY <1>4
<1> QED
  BY <1>5 DEF Max

-----------------------------------------------------------------------------
(* What is read back.                                                      *)

LEMMA LastRowIs ==
  ASSUME NEW lines \in Seq(Line), NEW k, NEW i \in 1 .. Len(lines), lines[i].key = k,
         \A j \in 1 .. Len(lines) : lines[j].key = k => j =< i
  PROVE  LastRow(lines, k) = lines[i].row
<1> DEFINE T == {j \in 1 .. Len(lines) : lines[j].key = k}
<1>1. Len(lines) \in Nat
  BY LenProperties
<1>2. T \in SUBSET (0 .. Len(lines)) /\ i \in T
  BY <1>1
<1>3. \A j \in T : j =< i
  OBVIOUS
<1> DEFINE last == SelectLastInSeq(lines, LAMBDA l : l.key = k)
<1>4. last = IF T # {} THEN Max(T) ELSE 0
  BY DEF SelectLastInSeq
<1> HIDE DEF T
<1>5. Max(T) \in T /\ \A j \in T : Max(T) >= j
  BY <1>1, <1>2, MaxProperties
<1>6. Max(T) = i
  <2>1. Max(T) =< i /\ Max(T) >= i /\ Max(T) \in 0 .. Len(lines) /\ i \in 0 .. Len(lines)
    BY <1>2, <1>3, <1>5
  <2> QED
    BY <1>1, <2>1
<1>7. last = i /\ i # 0
  BY <1>1, <1>2, <1>4, <1>6
<1> HIDE DEF last
<1>8. LastRow(lines, k) = IF last = 0 THEN 0 ELSE lines[last].row
  BY DEF LastRow, last
<1> QED
  BY <1>7, <1>8

LEMMA LastRowExists ==
  ASSUME NEW lines \in Seq(Line), NEW k, \E j \in 1 .. Len(lines) : lines[j].key = k
  PROVE  \E i \in 1 .. Len(lines) :
           /\ lines[i].key = k /\ LastRow(lines, k) = lines[i].row
           /\ \A j \in 1 .. Len(lines) : lines[j].key = k => j =< i
<1> DEFINE T == {j \in 1 .. Len(lines) : lines[j].key = k}
<1>1. Len(lines) \in Nat
  BY LenProperties
<1>2. T \in SUBSET (0 .. Len(lines)) /\ T # {}
  BY <1>1
<1> DEFINE i == Max(T)
<1>3. i \in T /\ \A j \in T : i >= j
  BY <1>1, <1>2, MaxProperties, Zenon
<1> HIDE DEF i
<1>4. /\ i \in 1 .. Len(lines) /\ lines[i].key = k
      /\ \A j \in 1 .. Len(lines) : lines[j].key = k => j =< i
  BY <1>1, <1>3
<1>5. LastRow(lines, k) = lines[i].row
  BY <1>4, LastRowIs
<1> QED
  BY <1>4, <1>5

LEMMA NoLastRow ==
  ASSUME NEW lines \in Seq(Line), NEW k, \A j \in 1 .. Len(lines) : lines[j].key # k
  PROVE  LastRow(lines, k) = 0
<1> DEFINE last == SelectLastInSeq(lines, LAMBDA l : l.key = k)
<1>1. last = 0
  BY DEF SelectLastInSeq
<1> QED
  BY <1>1 DEF LastRow

LEMMA LastRowTyped ==
  ASSUME NEW lines \in Seq(Line), NEW k
  PROVE  LastRow(lines, k) \in Nat
<1>1. CASE \E j \in 1 .. Len(lines) : lines[j].key = k
  <2>1. PICK i \in 1 .. Len(lines) : LastRow(lines, k) = lines[i].row
    BY <1>1, LastRowExists
  <2>2. lines[i] \in Line
    BY ElementOfSeq
  <2> QED
    BY <2>1, <2>2 DEF Line
<1>2. CASE \A j \in 1 .. Len(lines) : lines[j].key # k
  BY <1>2, NoLastRow
<1> QED
  BY <1>1, <1>2

(* More lines: the later ones win.                                         *)
LEMMA LastRowAppended ==
  ASSUME NEW s \in Seq(Line), NEW t \in Seq(Line), NEW k
  PROVE  LastRow(s \o t, k) = IF \E j \in 1 .. Len(t) : t[j].key = k THEN LastRow(t, k)
                                                                   ELSE LastRow(s, k)
<1>1. Len(s) \in Nat /\ Len(t) \in Nat
  BY LenProperties
<1> DEFINE b == s \o t
<1>2. /\ b \in Seq(Line) /\ Len(b) = Len(s) + Len(t)
      /\ \A i \in 1 .. Len(s) + Len(t) : b[i] = IF i <= Len(s) THEN s[i] ELSE t[i - Len(s)]
  BY ConcatProperties
<1> HIDE DEF b
<1>3. \A i \in 1 .. Len(s) : i \in 1 .. Len(b) /\ b[i] = s[i]
  BY <1>1, <1>2
<1>4. \A i \in 1 .. Len(t) : Len(s) + i \in 1 .. Len(b) /\ b[Len(s) + i] = t[i]
  <2> TAKE i \in 1 .. Len(t)
  <2>1. Len(s) + i \in 1 .. Len(s) + Len(t) /\ ~(Len(s) + i <= Len(s)) /\ (Len(s) + i) - Len(s) = i
    BY <1>1
  <2> QED
    BY <1>2, <2>1
<1>5. CASE \E j \in 1 .. Len(t) : t[j].key = k
  <2>1. PICK i \in 1 .. Len(t) :
           /\ t[i].key = k /\ LastRow(t, k) = t[i].row
           /\ \A j \in 1 .. Len(t) : t[j].key = k => j =< i
    BY <1>5, LastRowExists
  <2>2. ASSUME NEW j \in 1 .. Len(b), b[j].key = k
        PROVE  j =< Len(s) + i
    <3>1. CASE j <= Len(s)
      BY <1>1, <3>1
    <3>2. CASE ~(j <= Len(s))
      <4>1. j - Len(s) \in 1 .. Len(t) /\ j \in 1 .. Len(s) + Len(t)
        BY <1>1, <1>2, <3>2
      <4>2. t[j - Len(s)].key = k
        BY <1>2, <2>2, <3>2, <4>1
      <4>3. j - Len(s) =< i
        BY <2>1, <4>1, <4>2
      <4> QED
        BY <1>1, <4>1, <4>3
    <3> QED
      BY <3>1, <3>2
  <2>3. Len(s) + i \in 1 .. Len(b) /\ b[Len(s) + i] = t[i]
    BY <1>4
  <2>4. LastRow(b, k) = b[Len(s) + i].row
    BY <1>2, <2>1, <2>2, <2>3, LastRowIs
  <2> QED
    BY <1>5, <2>1, <2>3, <2>4 DEF b
<1>6. CASE ~ \E j \in 1 .. Len(t) : t[j].key = k
  <2>1. ASSUME NEW j \in 1 .. Len(b), b[j].key = k
        PROVE  j \in 1 .. Len(s) /\ s[j].key = k
    <3>1. CASE j <= Len(s)
      BY <1>1, <1>2, <2>1, <3>1
    <3>2. CASE ~(j <= Len(s))
      <4>1. j - Len(s) \in 1 .. Len(t) /\ j \in 1 .. Len(s) + Len(t)
        BY <1>1, <1>2, <3>2
      <4>2. t[j - Len(s)].key = k
        BY <1>2, <2>1, <3>2, <4>1
      <4> QED
        BY <1>6, <4>1, <4>2
    <3> QED
      BY <3>1, <3>2
  <2>2. CASE \E j \in 1 .. Len(s) : s[j].key = k
    <3>1. PICK i \in 1 .. Len(s) :
             /\ s[i].key = k /\ LastRow(s, k) = s[i].row
             /\ \A j \in 1 .. Len(s) : s[j].key = k => j =< i
      BY <2>2, LastRowExists
    <3>2. i \in 1 .. Len(b) /\ b[i] = s[i]
      BY <1>3
    <3>3. \A j \in 1 .. Len(b) : b[j].key = k => j =< i
      BY <2>1, <3>1
    <3>4. LastRow(b, k) = b[i].row
      BY <1>2, <3>1, <3>2, <3>3, LastRowIs
    <3> QED
      BY <1>6, <3>1, <3>2, <3>4 DEF b
  <2>3. CASE \A j \in 1 .. Len(s) : s[j].key # k
    <3>1. LastRow(s, k) = 0
      BY <2>3, NoLastRow
    <3>2. LastRow(b, k) = 0
      BY <1>2, <2>1, <2>3, NoLastRow
    <3> QED
      BY <1>6, <3>1, <3>2 DEF b
  <2> QED
    BY <2>2, <2>3
<1> QED
  BY <1>5, <1>6

-----------------------------------------------------------------------------
(* Loops over a sequence that start from base and take one step for each   *)
(* element.                                                                *)

Iterates(f, n, base, step, s) ==
    f = [i \in 0 .. n |-> IF i = 0 THEN base ELSE step[<<f[i - 1], s[i]>>]]

LEMMA IterationExists ==
  ASSUME NEW S, NEW T, NEW base \in S, NEW step \in [S \X T -> S], NEW s \in Seq(T)
  PROVE  \E f \in [0 .. Len(s) -> S] : Iterates(f, Len(s), base, step, s)
<1>1. Len(s) \in Nat /\ \A i \in 1 .. Len(s) : s[i] \in T
  BY LenProperties, ElementOfSeq
<1> DEFINE Can == {n \in Nat : n =< Len(s) =>
                     \E f \in [0 .. n -> S] : Iterates(f, n, base, step, s)}
<1>2. 0 \in Can
  <2> DEFINE f == [i \in 0 .. 0 |-> base]
  <2>1. f \in [0 .. 0 -> S] /\ Iterates(f, 0, base, step, s)
    BY DEF Iterates
  <2> QED
    BY <2>1
<1>3. ASSUME NEW n \in Nat, n \in Can
      PROVE  n + 1 \in Can
  <2> SUFFICES ASSUME n + 1 =< Len(s)
               PROVE  \E f \in [0 .. n + 1 -> S] : Iterates(f, n + 1, base, step, s)
    OBVIOUS
  <2>1. PICK f \in [0 .. n -> S] : Iterates(f, n, base, step, s)
    BY <1>1, <1>3
  <2>2. n + 1 \in 1 .. Len(s) /\ n \in 0 .. n
    BY <1>1
  <2>3. step[<<f[n], s[n + 1]>>] \in S
    BY <1>1, <2>1, <2>2
  <2> DEFINE g == [i \in 0 .. n + 1 |-> IF i = n + 1 THEN step[<<f[n], s[n + 1]>>] ELSE f[i]]
  <2>4. \A i \in 0 .. n + 1 : i = n + 1 \/ i \in 0 .. n
    OBVIOUS
  <2>5. g \in [0 .. n + 1 -> S]
    BY <2>1, <2>3, <2>4
  <2>6. ASSUME NEW i \in 0 .. n + 1
        PROVE  g[i] = IF i = 0 THEN base ELSE step[<<g[i - 1], s[i]>>]
    <3>1. CASE i = n + 1
      <4>1. i # 0 /\ i - 1 = n /\ n \in 0 .. n + 1 /\ n # n + 1
        BY <3>1
      <4>2. g[n] = f[n] /\ g[i] = step[<<f[n], s[n + 1]>>]
        BY <3>1, <4>1
      <4> QED
        BY <3>1, <4>1, <4>2
    <3>2. CASE i # n + 1
      <4>1. i \in 0 .. n
        BY <2>4, <3>2
      <4>2. g[i] = f[i] /\ f[i] = IF i = 0 THEN base ELSE step[<<f[i - 1], s[i]>>]
        BY <2>1, <3>2, <4>1 DEF Iterates
      <4>3. CASE i # 0
        <5>1. i - 1 \in 0 .. n + 1 /\ i - 1 # n + 1
          BY <4>1, <4>3
        <5>2. g[i - 1] = f[i - 1]
          BY <5>1
        <5> QED
          BY <4>2, <4>3, <5>2
      <4> QED
        BY <4>2, <4>3
    <3> QED
      BY <3>1, <3>2
  <2>7. Iterates(g, n + 1, base, step, s)
    <3>1. g = [i \in 0 .. n + 1 |-> g[i]]
      OBVIOUS
    <3> HIDE DEF g
    <3> QED
      BY <2>6, <3>1 DEF Iterates
  <2> QED
    BY <2>5, <2>7
<1> HIDE DEF Can
<1>4. Nat \subseteq Can
  BY <1>2, <1>3, InductionOnNat
<1>5. Len(s) \in Can /\ Len(s) =< Len(s)
  BY <1>1, <1>4
<1> QED
  BY <1>5 DEF Can

-----------------------------------------------------------------------------
(* The table as a list of keys.                                            *)

Tables == {keys \in Seq(Key) : Len(keys) =< Capacity /\ IsInjective(keys)}

LEMMA RemoveAtProperties ==
  ASSUME NEW S, NEW s \in Seq(S), NEW p \in 1 .. Len(s)
  PROVE  /\ RemoveAt(s, p) \in Seq(S) /\ Len(RemoveAt(s, p)) = Len(s) - 1
         /\ \A i \in 1 .. (Len(s) - 1) : RemoveAt(s, p)[i] = s[IF i < p THEN i ELSE i + 1]
<1> DEFINE n == Len(s)
           a == SubSeq(s, 1, p - 1)
           b == SubSeq(s, p + 1, n)
<1>1. n \in Nat /\ p \in Nat /\ p - 1 \in Int /\ p + 1 \in Int /\ n \in Int
  BY LenProperties
<1>2. /\ \A i \in 1 .. (p - 1) : s[i] \in S
      /\ \A i \in (p + 1) .. n : s[i] \in S
  <2>1. /\ \A i \in 1 .. (p - 1) : i \in 1 .. n
        /\ \A i \in (p + 1) .. n : i \in 1 .. n
    BY <1>1
  <2> QED
    BY <2>1, ElementOfSeq
<1>3. /\ a \in Seq(S) /\ Len(a) = IF 1 <= p - 1 THEN p - 1 - 1 + 1 ELSE 0
      /\ \A i \in 1 .. (p - 1 - 1 + 1) : a[i] = s[1 + i - 1]
  BY <1>1, <1>2, SubSeqProperties
<1>4. /\ b \in Seq(S) /\ Len(b) = IF p + 1 <= n THEN n - (p + 1) + 1 ELSE 0
      /\ \A i \in 1 .. (n - (p + 1) + 1) : b[i] = s[p + 1 + i - 1]
  BY <1>1, <1>2, SubSeqProperties
<1> HIDE DEF a, b, n
<1>5. Len(a) = p - 1 /\ Len(b) = n - p
  BY <1>1, <1>3, <1>4 DEF n
<1>6. /\ a \o b \in Seq(S) /\ Len(a \o b) = Len(a) + Len(b)
      /\ \A i \in 1 .. Len(a) + Len(b) : (a \o b)[i] = IF i <= Len(a) THEN a[i] ELSE b[i - Len(a)]
  BY <1>3, <1>4, ConcatProperties
<1>7. ASSUME NEW i \in 1 .. (n - 1)
      PROVE  (a \o b)[i] = s[IF i < p THEN i ELSE i + 1]
  <2>1. (a \o b)[i] = IF i <= p - 1 THEN a[i] ELSE b[i - (p - 1)]
    <3>1. Len(a) + Len(b) = n - 1
      BY <1>1, <1>5
    <3>2. (a \o b)[i] = IF i <= Len(a) THEN a[i] ELSE b[i - Len(a)]
      BY <1>6, <3>1
    <3> QED
      BY <1>5, <3>2
  <2>2. CASE i < p
    <3>1. i \in 1 .. (p - 1 - 1 + 1) /\ 1 + i - 1 = i /\ i <= p - 1
      BY <1>1, <2>2
    <3> QED
      BY <1>3, <2>1, <2>2, <3>1
  <2>3. CASE ~(i < p)
    <3>1. /\ i - (p - 1) \in 1 .. (n - (p + 1) + 1) /\ p + 1 + (i - (p - 1)) - 1 = i + 1
          /\ ~(i <= p - 1)
      BY <1>1, <2>3
    <3> QED
      BY <1>4, <2>1, <2>3, <3>1
  <2> QED
    BY <2>2, <2>3
<1>8. RemoveAt(s, p) = a \o b /\ Len(a) + Len(b) = n - 1
  <2>1. RemoveAt(s, p) = a \o b
    BY DEF RemoveAt, a, b, n
  <2>2. n \in Nat /\ p \in 1 .. n
    BY <1>1 DEF n
  <2> QED
    BY <1>5, <2>1, <2>2
<1> QED
  BY <1>6, <1>7, <1>8 DEF n

LEMMA Prepended ==
  ASSUME NEW S, NEW s \in Seq(S), NEW m \in S
  PROVE  /\ <<m>> \o s \in Seq(S) /\ Len(<<m>> \o s) = Len(s) + 1
         /\ (<<m>> \o s)[1] = m
         /\ \A i \in 2 .. (Len(s) + 1) : (<<m>> \o s)[i] = s[i - 1]
<1>1. <<m>> \in Seq(S) /\ Len(<<m>>) = 1 /\ <<m>>[1] = m
  OBVIOUS
<1>2. Len(s) \in Nat
  BY LenProperties
<1>3. /\ <<m>> \o s \in Seq(S) /\ Len(<<m>> \o s) = Len(<<m>>) + Len(s)
      /\ \A i \in 1 .. Len(<<m>>) + Len(s) :
           (<<m>> \o s)[i] = IF i <= Len(<<m>>) THEN <<m>>[i] ELSE s[i - Len(<<m>>)]
  BY <1>1, ConcatProperties
<1> DEFINE t == <<m>> \o s
<1> HIDE DEF t
<1>4. /\ t \in Seq(S) /\ Len(t) = 1 + Len(s)
      /\ \A i \in 1 .. 1 + Len(s) : t[i] = IF i <= 1 THEN m ELSE s[i - 1]
  BY <1>1, <1>3 DEF t
<1> QED
  BY <1>2, <1>4 DEF t

(* What remains when the key goes, or the last one: nothing twice, and     *)
(* only what was there.                                                    *)
Rest(keys, k) == IF k \in ToSet(keys) THEN RemoveFirst(keys, k)
                 ELSE IF Len(keys) >= Capacity THEN Front(keys) ELSE keys

LEMMA RestProperties ==
  ASSUME NEW keys \in Tables, NEW k \in Key
  PROVE  /\ Rest(keys, k) \in Seq(Key) /\ Len(Rest(keys, k)) < Capacity
         /\ Len(Rest(keys, k)) =< Len(keys)
         /\ IsInjective(Rest(keys, k))
         /\ \A i \in 1 .. Len(Rest(keys, k)) : Rest(keys, k)[i] \in ToSet(keys) \ {k}
<1>1. /\ keys \in Seq(Key) /\ Len(keys) \in Nat /\ DOMAIN keys = 1 .. Len(keys)
      /\ Len(keys) =< Capacity /\ IsInjective(keys)
  BY LenProperties DEF Tables
<1>2. Capacity \in Nat \ {0}
  BY CsvSizes
<1> DEFINE n == Len(keys)
           r == Rest(keys, k)
<1>3. CASE k \in ToSet(keys)
  <2> DEFINE T == {i \in 1 .. n : keys[i] = k}
             p == Min(T)
  <2>1. T \in SUBSET Nat /\ T # {}
    BY <1>1, <1>3 DEF ToSet
  <2>2. p \in T
    BY <2>1, MinProperties, Zenon
  <2>3. r = RemoveAt(keys, p)
    <3>1. RemoveFirst(keys, k) = RemoveAt(keys, SelectInSeq(keys, LAMBDA v : v = k))
      BY <2>1 DEF RemoveFirst
    <3>2. SelectInSeq(keys, LAMBDA v : v = k) = p
      BY <2>1 DEF SelectInSeq
    <3> QED
      BY <1>3, <3>1, <3>2 DEF Rest
  <2> HIDE DEF p
  <2>4. p \in 1 .. n /\ keys[p] = k
    BY <2>2
  <2> HIDE DEF T, r
  <2>5. /\ r \in Seq(Key) /\ Len(r) = n - 1
        /\ \A i \in 1 .. (n - 1) : r[i] = keys[IF i < p THEN i ELSE i + 1]
    BY <1>1, <2>3, <2>4, RemoveAtProperties
  <2>6. \A i \in 1 .. (n - 1) : /\ (IF i < p THEN i ELSE i + 1) \in 1 .. n
                                /\ (IF i < p THEN i ELSE i + 1) # p
    BY <1>1, <2>4
  <2>7. \A i \in 1 .. (n - 1) : r[i] \in ToSet(keys) /\ r[i] # k
    <3> TAKE i \in 1 .. (n - 1)
    <3>1. r[i] = keys[IF i < p THEN i ELSE i + 1]
      BY <2>5
    <3>2. /\ (IF i < p THEN i ELSE i + 1) \in DOMAIN keys
          /\ (IF i < p THEN i ELSE i + 1) # p /\ p \in DOMAIN keys
      BY <1>1, <2>4, <2>6
    <3> QED
      BY <1>1, <2>4, <3>1, <3>2 DEF IsInjective, ToSet
  <2>8. ASSUME NEW i \in 1 .. (n - 1), NEW j \in 1 .. (n - 1), r[i] = r[j]
        PROVE  i = j
    <3>1. (IF i < p THEN i ELSE i + 1) = (IF j < p THEN j ELSE j + 1)
      BY <1>1, <2>5, <2>6, <2>8 DEF IsInjective
    <3> QED
      BY <1>1, <2>4, <3>1
  <2>9. DOMAIN r = 1 .. (n - 1)
    BY <2>5, LenProperties
  <2>10. IsInjective(r)
    BY <2>8, <2>9 DEF IsInjective
  <2> QED
    BY <1>1, <1>2, <2>5, <2>7, <2>10 DEF r
<1>4. CASE k \notin ToSet(keys) /\ Len(keys) >= Capacity
  <2>1. r = SubSeq(keys, 1, n - 1)
    BY <1>4 DEF Rest, Front
  <2>2. \A i \in 1 .. (n - 1) : i \in DOMAIN keys /\ keys[i] \in Key
    BY <1>1, ElementOfSeq
  <2> HIDE DEF r
  <2>3. /\ r \in Seq(Key) /\ Len(r) = IF 1 <= n - 1 THEN n - 1 - 1 + 1 ELSE 0
        /\ \A i \in 1 .. (n - 1 - 1 + 1) : r[i] = keys[1 + i - 1]
    <3>1. 1 \in Int /\ n - 1 \in Int
      BY <1>1
    <3> QED
      BY <2>1, <2>2, <3>1, SubSeqProperties
  <2>m. n \in Nat /\ n >= 1 /\ n =< Capacity
    BY <1>1, <1>2, <1>4
  <2> HIDE DEF n
  <2>4. Len(r) = n - 1
    BY <2>m, <2>3
  <2>5. \A i \in 1 .. (n - 1) : r[i] = keys[i]
    <3>1. \A i \in 1 .. (n - 1) : i \in 1 .. (n - 1 - 1 + 1) /\ 1 + i - 1 = i
      BY <2>m
    <3> QED
      BY <2>3, <3>1
  <2>6. \A i \in 1 .. (n - 1) : r[i] \in ToSet(keys) /\ r[i] # k
    BY <1>4, <2>2, <2>5 DEF ToSet
  <2>7. DOMAIN r = 1 .. (n - 1)
    BY <2>3, <2>4, LenProperties
  <2>8. IsInjective(r)
    BY <1>1, <2>2, <2>5, <2>7 DEF IsInjective
  <2>9. Len(r) < Capacity /\ Len(r) =< n
    BY <1>2, <2>m, <2>4
  <2>10. \A i \in 1 .. Len(r) : r[i] \in ToSet(keys) \ {k}
    BY <2>4, <2>6
  <2> QED
    BY <2>3, <2>8, <2>9, <2>10 DEF r, n
<1>5. CASE k \notin ToSet(keys) /\ ~(Len(keys) >= Capacity)
  <2>1. r = keys
    BY <1>5 DEF Rest
  <2>2. \A i \in 1 .. n : keys[i] \in ToSet(keys) /\ keys[i] # k
    BY <1>1, <1>5 DEF ToSet
  <2> QED
    BY <1>1, <1>2, <1>5, <2>1, <2>2
<1> QED
  BY <1>3, <1>4, <1>5

LEMMA UsedProperties ==
  ASSUME NEW keys \in Tables, NEW k \in Key
  PROVE  /\ Touched(keys, k) \in Tables
         /\ k \in ToSet(Touched(keys, k)) /\ ToSet(Touched(keys, k)) \subseteq ToSet(keys) \cup {k}
<1> DEFINE r == Rest(keys, k)
           t == <<k>> \o r
<1>1. Touched(keys, k) = t
  BY DEF Touched, Rest
<1>2. /\ r \in Seq(Key) /\ Len(r) < Capacity /\ IsInjective(r)
      /\ \A i \in 1 .. Len(r) : r[i] \in ToSet(keys) \ {k}
  BY RestProperties
<1>3. Len(r) \in Nat /\ Capacity \in Nat /\ DOMAIN r = 1 .. Len(r)
  BY <1>2, LenProperties, CsvSizes
<1> HIDE DEF r
<1>4. /\ t \in Seq(Key) /\ Len(t) = Len(r) + 1 /\ t[1] = k
      /\ \A i \in 2 .. (Len(r) + 1) : t[i] = r[i - 1]
  BY <1>2, Prepended
<1> HIDE DEF t
<1>5. DOMAIN t = 1 .. (Len(r) + 1)
  BY <1>4, LenProperties
<1>6. \A i \in 1 .. (Len(r) + 1) : i = 1 \/ (i \in 2 .. (Len(r) + 1) /\ i - 1 \in 1 .. Len(r))
  BY <1>3
<1>7. \A i \in 1 .. (Len(r) + 1) : t[i] = k \/ t[i] \in ToSet(keys)
  BY <1>2, <1>4, <1>6
<1>8. ASSUME NEW i \in 1 .. (Len(r) + 1), NEW j \in 1 .. (Len(r) + 1), t[i] = t[j]
      PROVE  i = j
  <2>1. CASE i = 1 \/ j = 1
    BY <1>2, <1>4, <1>6, <1>8, <2>1
  <2>2. CASE i # 1 /\ j # 1
    <3>1. r[i - 1] = r[j - 1] /\ i - 1 \in DOMAIN r /\ j - 1 \in DOMAIN r
      BY <1>3, <1>4, <1>6, <1>8, <2>2
    <3>2. i - 1 = j - 1
      BY <1>2, <3>1 DEF IsInjective
    <3> QED
      BY <1>3, <3>2
  <2> QED
    BY <2>1, <2>2
<1>9. IsInjective(t)
  BY <1>5, <1>8 DEF IsInjective
<1>10. Len(t) =< Capacity
  BY <1>2, <1>3, <1>4
<1>11. 1 \in DOMAIN t
  BY <1>3, <1>5
<1> QED
  BY <1>1, <1>4, <1>5, <1>7, <1>9, <1>10, <1>11 DEF Tables, ToSet

(* The table after each of the lines.                                      *)
Loading(lines) ==
    CHOOSE keys : keys = [n \in 0 .. Len(lines) |->
                            IF n = 0 THEN <<>> ELSE Touched(keys[n - 1], lines[n].key)]

LEMMA LoadingProperties ==
  ASSUME NEW lines \in Seq(Line)
  PROVE  /\ Loading(lines)[0] = <<>>
         /\ \A n \in 1 .. Len(lines) :
              Loading(lines)[n] = Touched(Loading(lines)[n - 1], lines[n].key)
<1>1. Len(lines) \in Nat /\ \A i \in 1 .. Len(lines) : lines[i] \in Line
  BY LenProperties, ElementOfSeq
<1> DEFINE step == [e \in Tables \X Line |-> Touched(e[1], e[2].key)]
<1>2. step \in [Tables \X Line -> Tables]
  <2> SUFFICES ASSUME NEW keys \in Tables, NEW l \in Line
               PROVE  Touched(keys, l.key) \in Tables
    OBVIOUS
  <2>1. l.key \in Key
    BY DEF Line
  <2> QED
    BY <2>1, UsedProperties
<1>3. <<>> \in Tables
  <2>1. <<>> \in Seq(Key) /\ Len(<<>>) = 0 /\ IsInjective(<<>>)
    BY DEF IsInjective
  <2> QED
    BY <2>1, CsvSizes DEF Tables
<1>4. \A keys \in Tables, l \in Line : step[<<keys, l>>] = Touched(keys, l.key)
  OBVIOUS
<1> HIDE DEF step
<1>5. PICK f \in [0 .. Len(lines) -> Tables] : Iterates(f, Len(lines), <<>>, step, lines)
  BY <1>2, <1>3, IterationExists
<1>6. f = [n \in 0 .. Len(lines) |-> IF n = 0 THEN <<>> ELSE Touched(f[n - 1], lines[n].key)]
  <2>1. ASSUME NEW n \in 0 .. Len(lines)
        PROVE  f[n] = IF n = 0 THEN <<>> ELSE Touched(f[n - 1], lines[n].key)
    <3>1. f[n] = IF n = 0 THEN <<>> ELSE step[<<f[n - 1], lines[n]>>]
      BY <1>5 DEF Iterates
    <3>2. CASE n # 0
      <4>1. f[n - 1] \in Tables /\ lines[n] \in Line
        BY <1>1, <1>5, <3>2
      <4> QED
        BY <1>4, <3>1, <4>1
    <3> QED
      BY <3>1, <3>2
  <2> QED
    BY <1>5, <2>1
<1> DEFINE g == Loading(lines)
<1>7. g = [n \in 0 .. Len(lines) |-> IF n = 0 THEN <<>> ELSE Touched(g[n - 1], lines[n].key)]
  BY <1>6 DEF Loading
<1> HIDE DEF g
<1>8. g[0] = <<>> /\ \A n \in 1 .. Len(lines) : g[n] = Touched(g[n - 1], lines[n].key)
  <2>1. 0 \in 0 .. Len(lines) /\ \A n \in 1 .. Len(lines) : n \in 0 .. Len(lines) /\ n # 0
    BY <1>1
  <2> QED
    BY <1>7, <2>1
<1> QED
  BY <1>8 DEF g

LEMMA LoadedOrderIs ==
  ASSUME NEW lines
  PROVE  LoadedOrder(lines) = Loading(lines)[Len(lines)]
BY DEF LoadedOrder, Loading

LEMMA LoadedTyped ==
  ASSUME NEW lines \in Seq(Line)
  PROVE  LoadedOrder(lines) \in Tables
<1>1. Len(lines) \in Nat /\ \A i \in 1 .. Len(lines) : lines[i].key \in Key
  <2>1. Len(lines) \in Nat /\ \A i \in 1 .. Len(lines) : lines[i] \in Line
    BY LenProperties, ElementOfSeq
  <2> QED
    BY <2>1 DEF Line
<1> DEFINE f == Loading(lines)
           Fine == {n \in Nat : n =< Len(lines) => f[n] \in Tables}
<1>2. f[0] = <<>> /\ \A n \in 1 .. Len(lines) : f[n] = Touched(f[n - 1], lines[n].key)
  BY LoadingProperties
<1> HIDE DEF f
<1>3. 0 \in Fine
  <2>1. <<>> \in Seq(Key) /\ Len(<<>>) = 0 /\ IsInjective(<<>>)
    BY DEF IsInjective
  <2>2. 0 =< Capacity
    BY CsvSizes
  <2>3. <<>> \in Tables
    BY <2>1, <2>2 DEF Tables
  <2> QED
    BY <1>2, <2>3
<1>4. ASSUME NEW n \in Nat, n \in Fine
      PROVE  n + 1 \in Fine
  <2> SUFFICES ASSUME n + 1 =< Len(lines)
               PROVE  f[n + 1] \in Tables
    OBVIOUS
  <2>1. n + 1 \in 1 .. Len(lines) /\ n =< Len(lines) /\ n + 1 - 1 = n
    BY <1>1
  <2>2. f[n] \in Tables /\ f[n + 1] = Touched(f[n], lines[n + 1].key) /\ lines[n + 1].key \in Key
    BY <1>1, <1>2, <1>4, <2>1
  <2> QED
    BY <2>2, UsedProperties
<1> HIDE DEF Fine
<1>5. Nat \subseteq Fine
  BY <1>3, <1>4, InductionOnNat
<1>6. f[Len(lines)] \in Tables
  BY <1>1, <1>5 DEF Fine
<1> QED
  BY <1>6, LoadedOrderIs DEF f

(* Lines with the keys of a table, last one first, bring it back.          *)
LEMMA SnapshotRestores ==
  ASSUME NEW keys \in Tables, NEW lines \in Seq(Line), Len(lines) = Len(keys),
         \A i \in 1 .. Len(lines) : lines[i].key = keys[(Len(keys) - i) + 1]
  PROVE  LoadedOrder(lines) = keys
<1> DEFINE N == Len(keys)
<1>1. /\ keys \in Seq(Key) /\ N \in Nat /\ DOMAIN keys = 1 .. N /\ IsInjective(keys)
      /\ N =< Capacity
  BY LenProperties DEF Tables
<1> DEFINE f == Loading(lines)
           Fine == {n \in Nat : n =< N => f[n] = SubSeq(keys, N - n + 1, N)}
<1>2. f[0] = <<>> /\ \A n \in 1 .. N : f[n] = Touched(f[n - 1], lines[n].key)
  BY LoadingProperties
<1> HIDE DEF f, N
<1>3. 0 \in Fine
  <2>1. N - 0 + 1 = N + 1 /\ N + 1 \in Int /\ N \in Int /\ N < N + 1
    BY <1>1
  <2>2. SubSeq(keys, N + 1, N) = <<>>
    BY <2>1, SubSeqEmpty
  <2> QED
    BY <1>2, <2>1, <2>2
<1>4. ASSUME NEW n \in Nat, n \in Fine
      PROVE  n + 1 \in Fine
  <2> SUFFICES ASSUME n + 1 =< N
               PROVE  f[n + 1] = SubSeq(keys, N - (n + 1) + 1, N)
    OBVIOUS
  <2> DEFINE m == N - n
             s == SubSeq(keys, m + 1, N)
  <2>1. /\ m \in 1 .. N /\ N \in m .. N /\ N - (n + 1) + 1 = m /\ N - n + 1 = m + 1
        /\ n + 1 \in 1 .. N /\ n + 1 - 1 = n /\ n =< N /\ (N - (n + 1)) + 1 = m
        /\ m + 1 \in Int /\ N \in Int
    BY <1>1
  <2>2. f[n + 1] = Touched(s, keys[m])
    <3>1. lines[n + 1].key = keys[m]
      BY <1>1, <2>1 DEF N
    <3>2. f[n] = s
      BY <1>4, <2>1
    <3>3. n + 1 \in 1 .. N /\ n + 1 - 1 = n
      BY <2>1
    <3>4. f[n + 1] = Touched(f[n], lines[n + 1].key)
      BY <1>2, <3>3
    <3> QED
      BY <3>1, <3>2, <3>4
  <2> HIDE DEF m
  <2>3. \A i \in (m + 1) .. N : keys[i] \in Key
    <3>1. \A i \in (m + 1) .. N : i \in 1 .. N
      BY <2>1
    <3> QED
      BY <1>1, <3>1, ElementOfSeq DEF N
  <2>4. /\ s \in Seq(Key) /\ Len(s) = IF m + 1 <= N THEN N - (m + 1) + 1 ELSE 0
        /\ \A i \in 1 .. N - (m + 1) + 1 : s[i] = keys[m + 1 + i - 1]
    <3> DEFINE a == m + 1
    <3>1. a \in Int /\ N \in Int /\ \A i \in a .. N : keys[i] \in Key
      BY <2>1, <2>3
    <3> HIDE DEF a, s
    <3>2. /\ SubSeq(keys, a, N) \in Seq(Key)
          /\ Len(SubSeq(keys, a, N)) = IF a <= N THEN N - a + 1 ELSE 0
          /\ \A i \in 1 .. N - a + 1 : SubSeq(keys, a, N)[i] = keys[a + i - 1]
      BY <3>1, SubSeqProperties
    <3> QED
      BY <3>2 DEF a, s
  <2>5. SubSeq(keys, m, N) = <<keys[m]>> \o s
    BY <1>1, <2>1, SubSeqRecursiveFirst DEF N
  <2> HIDE DEF s
  <2>6. Len(s) = N - m /\ DOMAIN s = 1 .. (N - m) /\ \A i \in 1 .. (N - m) : s[i] = keys[m + i]
    <3>1. Len(s) = N - m /\ DOMAIN s = 1 .. Len(s)
      BY <1>1, <2>1, <2>4, LenProperties
    <3>2. \A i \in 1 .. (N - m) : i \in 1 .. N - (m + 1) + 1 /\ m + 1 + i - 1 = m + i
      BY <1>1, <2>1
    <3> QED
      BY <2>4, <3>1, <3>2
  <2>7. keys[m] \notin ToSet(s)
    <3> SUFFICES ASSUME NEW i \in 1 .. (N - m), s[i] = keys[m]
                 PROVE  FALSE
      BY <2>6 DEF ToSet
    <3>1. m + i \in 1 .. N /\ m \in 1 .. N /\ m + i # m
      BY <1>1, <2>1
    <3>2. keys[m + i] = keys[m]
      BY <2>6
    <3>3. \A a, b \in 1 .. N : keys[a] = keys[b] => a = b
      BY <1>1 DEF IsInjective
    <3> QED
      BY <3>1, <3>2, <3>3
  <2>8. ~(Len(s) >= Capacity)
    BY <1>1, <2>1, <2>6, CsvSizes
  <2>9. Touched(s, keys[m]) = <<keys[m]>> \o s
    BY <2>7, <2>8 DEF Touched
  <2> QED
    BY <2>1, <2>2, <2>5, <2>9
<1> HIDE DEF Fine
<1>5. Nat \subseteq Fine
  BY <1>3, <1>4, InductionOnNat
<1>6. f[N] = SubSeq(keys, 1, N)
  <2>1. N - N + 1 = 1 /\ N =< N
    BY <1>1
  <2> QED
    BY <1>1, <1>5, <2>1 DEF Fine
<1>7. SubSeq(keys, 1, N) = keys
  BY <1>1, SubSeqFull DEF N
<1> QED
  BY <1>6, <1>7, LoadedOrderIs DEF f, N

-----------------------------------------------------------------------------
(* The rows to be drained.                                                 *)

LEMMA Appended1 ==
  ASSUME NEW S, NEW s \in Seq(S), NEW e \in S
  PROVE  Append(s, e) \in Seq(S) /\ ToSet(Append(s, e)) = ToSet(s) \cup {e}
<1> DEFINE t == Append(s, e)
<1>1. /\ t \in Seq(S) /\ Len(t) = Len(s) + 1 /\ t[Len(s) + 1] = e
      /\ \A i \in 1 .. Len(s) : t[i] = s[i]
  BY AppendProperties
<1> HIDE DEF t
<1>2. DOMAIN t = 1 .. (Len(s) + 1) /\ DOMAIN s = 1 .. Len(s) /\ Len(s) \in Nat
  BY <1>1, LenProperties
<1>3. 1 .. (Len(s) + 1) = (1 .. Len(s)) \cup {Len(s) + 1}
  BY <1>2
<1>4. ToSet(t) = {t[i] : i \in 1 .. Len(s)} \cup {t[Len(s) + 1]}
  BY <1>2, <1>3 DEF ToSet
<1>5. {t[i] : i \in 1 .. Len(s)} = ToSet(s)
  BY <1>1, <1>2 DEF ToSet
<1> QED
  BY <1>1, <1>4, <1>5 DEF t

Listing ==
    CHOOSE keys : keys = [n \in 0 .. Len(dirty_slots) |->
                            IF n = 0 THEN <<>>
                            ELSE IF dirty_slots[n] \in dirty \ ToSet(keys[n - 1])
                                 THEN Append(keys[n - 1], dirty_slots[n])
                            ELSE keys[n - 1]]

LEMMA ListingProperties ==
  ASSUME dirty_slots \in Seq(Key)
  PROVE  /\ Listing[0] = <<>>
         /\ \A n \in 1 .. Len(dirty_slots) :
              Listing[n] = IF dirty_slots[n] \in dirty \ ToSet(Listing[n - 1])
                           THEN Append(Listing[n - 1], dirty_slots[n]) ELSE Listing[n - 1]
<1> DEFINE N == Len(dirty_slots)
           next(s, k) == IF k \in dirty \ ToSet(s) THEN Append(s, k) ELSE s
           step == [e \in Seq(Key) \X Key |-> next(e[1], e[2])]
<1>1. N \in Nat /\ \A i \in 1 .. N : dirty_slots[i] \in Key
  BY LenProperties, ElementOfSeq
<1>2. step \in [Seq(Key) \X Key -> Seq(Key)]
  BY AppendProperties
<1>3. \A s \in Seq(Key), k \in Key : step[<<s, k>>] = next(s, k)
  OBVIOUS
<1> HIDE DEF step, N
<1>4. PICK f \in [0 .. N -> Seq(Key)] : Iterates(f, N, <<>>, step, dirty_slots)
  <2>1. <<>> \in Seq(Key)
    OBVIOUS
  <2> QED
    BY <1>1, <1>2, <2>1, IterationExists DEF N
<1> HIDE DEF next
<1>5. f = [n \in 0 .. N |-> IF n = 0 THEN <<>> ELSE next(f[n - 1], dirty_slots[n])]
  <2>1. ASSUME NEW n \in 0 .. N
        PROVE  f[n] = IF n = 0 THEN <<>> ELSE next(f[n - 1], dirty_slots[n])
    <3>1. f[n] = IF n = 0 THEN <<>> ELSE step[<<f[n - 1], dirty_slots[n]>>]
      BY <1>4 DEF Iterates
    <3>2. CASE n # 0
      <4>1. f[n - 1] \in Seq(Key) /\ dirty_slots[n] \in Key
        BY <1>1, <1>4, <3>2
      <4> QED
        BY <1>3, <3>1, <4>1
    <3> QED
      BY <3>1, <3>2
  <2> QED
    BY <1>4, <2>1
<1>6. Listing = [n \in 0 .. N |-> IF n = 0 THEN <<>> ELSE next(Listing[n - 1], dirty_slots[n])]
  BY <1>5 DEF Listing, next, N
<1> DEFINE g == Listing
<1> HIDE DEF g
<1>7. g = [n \in 0 .. N |-> IF n = 0 THEN <<>> ELSE next(g[n - 1], dirty_slots[n])]
  BY <1>6 DEF g
<1>8. g[0] = <<>> /\ \A n \in 1 .. N : g[n] = next(g[n - 1], dirty_slots[n])
  <2>1. 0 \in 0 .. N /\ \A n \in 1 .. N : n \in 0 .. N /\ n # 0
    BY <1>1
  <2> QED
    BY <1>7, <2>1
<1> QED
  BY <1>8 DEF g, next, N

(* Each row that is dirty, and no other.                                   *)
LEMMA PendingProperties ==
  ASSUME CsvTypeOK
  PROVE  Pending \in Seq(Key) /\ ToSet(Pending) = dirty
<1> DEFINE N == Len(dirty_slots)
           f == Listing
           Seen(n) == {dirty_slots[i] : i \in 1 .. n}
           Fine == {n \in Nat : n =< N => f[n] \in Seq(Key) /\ ToSet(f[n]) = dirty \cap Seen(n)}
<1>1. dirty_slots \in Seq(Key) /\ ToSet(dirty_slots) = dirty
  BY DEF CsvTypeOK
<1>2. N \in Nat /\ DOMAIN dirty_slots = 1 .. N /\ \A i \in 1 .. N : dirty_slots[i] \in Key
  BY <1>1, LenProperties, ElementOfSeq
<1>3. /\ f[0] = <<>>
      /\ \A n \in 1 .. N : f[n] = IF dirty_slots[n] \in dirty \ ToSet(f[n - 1])
                                  THEN Append(f[n - 1], dirty_slots[n]) ELSE f[n - 1]
  BY <1>1, ListingProperties
<1>4. Pending = f[N]
  BY DEF Pending, Listing
<1> HIDE DEF f, N
<1>5. 0 \in Fine
  <2>1. <<>> \in Seq(Key) /\ ToSet(<<>>) = {} /\ Seen(0) = {}
    BY DEF ToSet
  <2> QED
    BY <1>3, <2>1
<1>6. ASSUME NEW n \in Nat, n \in Fine
      PROVE  n + 1 \in Fine
  <2> SUFFICES ASSUME n + 1 =< N
               PROVE  f[n + 1] \in Seq(Key) /\ ToSet(f[n + 1]) = dirty \cap Seen(n + 1)
    OBVIOUS
  <2>1. n + 1 \in 1 .. N /\ n =< N /\ n + 1 - 1 = n /\ 1 .. (n + 1) = (1 .. n) \cup {n + 1}
    BY <1>2
  <2> DEFINE k == dirty_slots[n + 1]
  <2>2. Seen(n + 1) = Seen(n) \cup {k}
    BY <2>1
  <2>3. f[n + 1] = IF k \in dirty \ ToSet(f[n]) THEN Append(f[n], k) ELSE f[n]
    BY <1>3, <2>1
  <2>4. f[n] \in Seq(Key) /\ ToSet(f[n]) = dirty \cap Seen(n) /\ k \in Key
    BY <1>2, <1>6, <2>1
  <2> HIDE DEF k, Seen
  <2>5. Append(f[n], k) \in Seq(Key) /\ ToSet(Append(f[n], k)) = ToSet(f[n]) \cup {k}
    BY <2>4, Appended1
  <2> QED
    BY <2>2, <2>3, <2>4, <2>5
<1> HIDE DEF Fine
<1>7. Nat \subseteq Fine
  BY <1>5, <1>6, InductionOnNat
<1>8. f[N] \in Seq(Key) /\ ToSet(f[N]) = dirty \cap Seen(N)
  <2>1. N \in Fine /\ N =< N
    BY <1>2, <1>7
  <2> HIDE DEF Seen
  <2> QED
    BY <2>1 DEF Fine
<1>9. Seen(N) = dirty
  BY <1>1, <1>2 DEF ToSet
<1> QED
  BY <1>4, <1>8, <1>9

-----------------------------------------------------------------------------
(* Lines.                                                                  *)

LEMMA FunctionIsSeq ==
  ASSUME NEW S, NEW n \in Nat, NEW f \in [1 .. n -> S]
  PROVE  f \in Seq(S) /\ Len(f) = n
<1>1. f \in Seq(S)
  BY SeqDef
<1>2. Len(f) \in Nat /\ 1 .. Len(f) = 1 .. n
  BY <1>1, LenProperties
<1> QED
  BY <1>1, <1>2

LEMMA LinesProperties ==
  ASSUME rows \in [Key -> Nat], NEW keys \in Seq(Key)
  PROVE  /\ Lines(keys) \in Seq(Line) /\ Len(Lines(keys)) = Len(keys)
         /\ \A i \in 1 .. Len(keys) : /\ Lines(keys)[i].key = keys[i]
                                      /\ Lines(keys)[i].row = rows[keys[i]]
<1>1. Len(keys) \in Nat /\ DOMAIN keys = 1 .. Len(keys) /\ \A i \in 1 .. Len(keys) : keys[i] \in Key
  BY LenProperties, ElementOfSeq
<1>2. Lines(keys) = [i \in 1 .. Len(keys) |-> [key |-> keys[i], row |-> rows[keys[i]]]]
  BY <1>1 DEF Lines
<1>3. \A i \in 1 .. Len(keys) : [key |-> keys[i], row |-> rows[keys[i]]] \in Line
  BY <1>1 DEF Line
<1>4. Lines(keys) \in [1 .. Len(keys) -> Line]
  BY <1>2, <1>3
<1>5. Lines(keys) \in Seq(Line) /\ Len(Lines(keys)) = Len(keys)
  BY <1>1, <1>4, FunctionIsSeq
<1> QED
  BY <1>2, <1>5

(* Lines of rows as they are now, of some of the keys.                     *)
Current(lines, keys) ==
    /\ lines \in Seq(Line)
    /\ \A i \in 1 .. Len(lines) : lines[i].key \in keys /\ lines[i].row = rows[lines[i].key]

LEMMA PrefixesCurrent ==
  ASSUME rows \in [Key -> Nat], NEW keys \in Seq(Key), NEW lines \in Prefixes(Lines(keys))
  PROVE  Current(lines, ToSet(keys))
<1> DEFINE all == Lines(keys)
<1>1. /\ all \in Seq(Line) /\ Len(all) = Len(keys)
      /\ \A i \in 1 .. Len(keys) : all[i].key = keys[i] /\ all[i].row = rows[keys[i]]
  BY LinesProperties
<1>2. PICK l \in 0 .. Len(all) : lines = SubSeq(all, 1, l)
  BY DEF Prefixes
<1> HIDE DEF all
<1>3. Len(all) \in Nat /\ l \in Int /\ DOMAIN keys = 1 .. Len(keys)
  BY <1>1, LenProperties
<1>4. \A i \in 1 .. l : i \in 1 .. Len(all) /\ all[i] \in Line
  <2>1. \A i \in 1 .. l : i \in 1 .. Len(all)
    BY <1>3
  <2> QED
    BY <1>1, <2>1, ElementOfSeq
<1>5. /\ lines \in Seq(Line) /\ Len(lines) = IF 1 <= l THEN l - 1 + 1 ELSE 0
      /\ \A i \in 1 .. l - 1 + 1 : lines[i] = all[1 + i - 1]
  <2>1. 1 \in Int /\ l \in Int
    BY <1>3
  <2> QED
    BY <1>2, <1>4, <2>1, SubSeqProperties
<1>6. Len(lines) = l /\ \A i \in 1 .. l : lines[i] = all[i]
  <2>1. l - 1 + 1 = l /\ \A i \in 1 .. l : 1 + i - 1 = i
    BY <1>3
  <2> QED
    BY <1>2, <1>3, <1>5, <2>1
<1>7. \A i \in 1 .. l : keys[i] \in ToSet(keys)
  BY <1>1, <1>3, <1>4 DEF ToSet
<1>8. ASSUME NEW i \in 1 .. Len(lines)
      PROVE  lines[i].key \in ToSet(keys) /\ lines[i].row = rows[lines[i].key]
  <2>1. i \in 1 .. l /\ i \in 1 .. Len(keys) /\ lines[i] = all[i]
    BY <1>1, <1>4, <1>6
  <2> QED
    BY <1>1, <1>7, <2>1
<1> QED
  BY <1>5, <1>8 DEF Current

LEMMA LinesCurrent ==
  ASSUME rows \in [Key -> Nat], NEW keys \in Seq(Key)
  PROVE  /\ Current(Lines(keys), ToSet(keys))
         /\ \A k \in ToSet(keys) : \E i \in 1 .. Len(Lines(keys)) : Lines(keys)[i].key = k
<1> DEFINE all == Lines(keys)
<1>1. DOMAIN keys = 1 .. Len(keys)
  BY LenProperties
<1>2. /\ all \in Seq(Line) /\ Len(all) = Len(keys)
      /\ \A i \in 1 .. Len(keys) : all[i].key = keys[i] /\ all[i].row = rows[keys[i]]
  BY LinesProperties
<1> HIDE DEF all
<1>3. \A i \in 1 .. Len(keys) : keys[i] \in ToSet(keys)
  BY <1>1 DEF ToSet
<1>4. Current(all, ToSet(keys))
  BY <1>2, <1>3 DEF Current
<1>5. \A k \in ToSet(keys) : \E i \in 1 .. Len(all) : all[i].key = k
  BY <1>1, <1>2 DEF ToSet
<1> QED
  BY <1>4, <1>5 DEF all

(* Lines of current rows after others: what is among them is read back as  *)
(* it is now, the rest as before.                                          *)
LEMMA CurrentAppended ==
  ASSUME NEW lines \in Seq(Line), NEW keys, NEW more, Current(more, keys), NEW k
  PROVE  \/ LastRow(lines \o more, k) = rows[k]
         \/ /\ \A i \in 1 .. Len(more) : more[i].key # k
            /\ LastRow(lines \o more, k) = LastRow(lines, k)
<1>1. LastRow(lines \o more, k) = IF \E j \in 1 .. Len(more) : more[j].key = k
                                  THEN LastRow(more, k) ELSE LastRow(lines, k)
  BY LastRowAppended DEF Current
<1>2. CASE \E j \in 1 .. Len(more) : more[j].key = k
  <2>1. PICK i \in 1 .. Len(more) : more[i].key = k /\ LastRow(more, k) = more[i].row
    BY <1>2, LastRowExists DEF Current
  <2> QED
    BY <1>1, <1>2, <2>1 DEF Current
<1> QED
  BY <1>1, <1>2

LEMMA SnapshotProperties ==
  ASSUME CsvTypeOK
  PROVE  /\ Snapshot \in Seq(Line) /\ Current(Snapshot, Live)
         /\ \A k \in Live : \E i \in 1 .. Len(Snapshot) : Snapshot[i].key = k
         /\ LoadedOrder(Snapshot) = order
<1> DEFINE n == Len(order)
           r == Reverse(order)
<1>1. order \in Seq(Key) /\ order \in Tables /\ rows \in [Key -> Nat]
  BY DEF CsvTypeOK, Tables
<1>2. n \in Nat /\ DOMAIN order = 1 .. n /\ \A i \in 1 .. n : order[i] \in Key
  BY <1>1, LenProperties, ElementOfSeq
<1>3. \A i \in 1 .. n : (n - i) + 1 \in 1 .. n
  BY <1>2
<1>4. r = [i \in 1 .. n |-> order[(n - i) + 1]]
  BY DEF Reverse
<1>5. r \in [1 .. n -> Key]
  BY <1>2, <1>3, <1>4
<1>6. r \in Seq(Key) /\ Len(r) = n
  BY <1>2, <1>5, FunctionIsSeq
<1>7. ToSet(r) = Live
  <2>1. \A i \in 1 .. n : (n - ((n - i) + 1)) + 1 = i
    BY <1>2
  <2>2. \A i \in 1 .. n : order[i] = r[(n - i) + 1]
    BY <1>3, <1>4, <2>1
  <2>3. DOMAIN r = 1 .. n
    BY <1>4
  <2>4. \A i \in 1 .. n : r[i] = order[(n - i) + 1]
    BY <1>4
  <2> HIDE DEF r
  <2> QED
    BY <1>2, <1>3, <2>2, <2>3, <2>4 DEF ToSet, Live
<1>8. \A i \in 1 .. n : r[i] = order[(n - i) + 1]
  BY <1>4
<1> HIDE DEF r
<1>9. /\ Lines(r) \in Seq(Line) /\ Len(Lines(r)) = n
      /\ \A i \in 1 .. n : Lines(r)[i].key = order[(n - i) + 1]
  BY <1>1, <1>6, <1>8, LinesProperties
<1>10. /\ Current(Lines(r), Live)
       /\ \A k \in Live : \E i \in 1 .. Len(Lines(r)) : Lines(r)[i].key = k
  BY <1>1, <1>6, <1>7, LinesCurrent
<1>11. LoadedOrder(Lines(r)) = order
  BY <1>1, <1>9, SnapshotRestores
<1> QED
  BY <1>9, <1>10, <1>11 DEF Snapshot, r

LEMMA Folds ==
  ASSUME CsvTypeOK, NEW saved \in BOOLEAN, Folded(saved)
  PROVE  /\ CsvTypeOK /\ bytes' = FALSE /\ dirty' = {} /\ dirty_slots' = <<>>
         /\ order' = order /\ rows' = rows /\ journal' = NoFile
         /\ main' \in Seq(Line)
         /\ damaged' = ~saved
         /\ saved => OnDisk' = Snapshot
<1>1. /\ main' = (IF saved THEN Snapshot ELSE main) /\ journal' = NoFile /\ bytes' = FALSE
      /\ dirty' = {} /\ dirty_slots' = <<>> /\ order' = order /\ rows' = rows
      /\ damaged' = ~saved
  BY DEF Folded, NothingDirty
<1>2. Snapshot \in Seq(Line) /\ main \in Seq(Line)
  BY SnapshotProperties DEF CsvTypeOK
<1>3. Snapshot \o <<>> = Snapshot
  BY <1>2, ConcatEmptySeq
<1>4. OnDisk' = main' \o <<>>
  BY <1>1 DEF OnDisk, NoFile
<1> QED
  BY <1>1, <1>2, <1>3, <1>4

-----------------------------------------------------------------------------
(* The invariant is kept.                                                  *)

Journals == [exists : BOOLEAN, lines : Seq(Line)]

LEMMA EmptyIsTyped ==
  /\ <<>> \in Seq(Key) /\ ToSet(<<>>) = {}
  /\ NoFile \in Journals
<1>1. ToSet(<<>>) = {}
  BY DEF ToSet
<1>2. <<>> \in Seq(Line)
  OBVIOUS
<1> QED
  BY <1>1, <1>2 DEF NoFile, Journals

LEMMA AppendedTyped ==
  ASSUME CsvTypeOK, NEW more \in Seq(Line)
  PROVE  /\ Appended(more) \in Journals
         /\ main \o Appended(more).lines = OnDisk \o more
         /\ OnDisk \in Seq(Line)
<1>1. main \in Seq(Line) /\ journal.lines \in Seq(Line)
  BY DEF CsvTypeOK
<1>2. journal.lines \o more \in Seq(Line) /\ main \o journal.lines \in Seq(Line)
  BY <1>1, ConcatProperties
<1>3. Appended(more).lines = journal.lines \o more
  BY DEF Appended
<1>4. (main \o journal.lines) \o more = main \o (journal.lines \o more)
  <2> DEFINE m == main
             j == journal.lines
  <2>1. m \in Seq(Line) /\ j \in Seq(Line)
    BY <1>1
  <2> HIDE DEF m, j
  <2>2. (m \o j) \o more = m \o (j \o more)
    BY <2>1, ConcatAssociative
  <2> QED
    BY <2>2 DEF m, j
<1> QED
  BY <1>2, <1>3, <1>4 DEF Appended, Journals, OnDisk

(* Compacting leaves nothing to fold in, and, unless the snapshot could    *)
(* not be written, the table on the disk.                                  *)
LEMMA Compacting ==
  ASSUME CsvTypeOK, compactState
  PROVE  /\ bytes' = FALSE /\ dirty_slots' = <<>> /\ dirty' = {}
         /\ order' = order /\ rows' = rows
         /\ main' \in Seq(Line) /\ journal' \in Journals /\ damaged' \in BOOLEAN
         /\ ~damaged' => \/ OnDisk' = Snapshot
                         \/ ~damaged /\ NothingToFold /\ UNCHANGED files
<1>1. CASE NothingToFold /\ UNCHANGED <<targets, bytes, files, damaged>>
  <2>1. bytes = FALSE /\ dirty_slots = <<>> /\ dirty = {}
    BY <1>1, EmptyIsTyped DEF CsvTypeOK, NothingToFold
  <2>2. /\ bytes' = bytes /\ dirty_slots' = dirty_slots /\ dirty' = dirty /\ order' = order
        /\ rows' = rows /\ main' = main /\ journal' = journal /\ damaged' = damaged
    BY <1>1 DEF targets, files
  <2> QED
    BY <1>1, <2>1, <2>2 DEF CsvTypeOK, Journals, files
<1>2. ASSUME NEW saved \in {TRUE, ~DiskMayFail}, Folded(saved)
      PROVE  /\ bytes' = FALSE /\ dirty_slots' = <<>> /\ dirty' = {}
             /\ order' = order /\ rows' = rows
             /\ main' \in Seq(Line) /\ journal' \in Journals /\ damaged' \in BOOLEAN
             /\ ~damaged' => OnDisk' = Snapshot
  <2>1. saved \in BOOLEAN
    BY CsvSizes
  <2> QED
    BY <1>2, <2>1, Folds, EmptyIsTyped
<1> QED
  BY <1>1, <1>2 DEF compactState

LEMMA Merging ==
  ASSUME CsvTypeOK, NEW k \in Key, mergeState(k)
  PROVE  /\ order' \in Tables /\ Live' \subseteq Live \cup {k}
         /\ rows' \in [Key -> Nat] /\ Evicted(k) \cap Live' = {}
         /\ \A j \in Live' \ {k} : rows'[j] = rows[j]
         /\ k \in dirty' /\ dirty' = (dirty \ Evicted(k)) \cup {k} /\ dirty' \subseteq Live'
         /\ dirty_slots' \in Seq(Key) /\ ToSet(dirty_slots') = dirty'
         /\ messages' \in Nat
<1> DEFINE E == Evicted(k)
           d == dirty_slots
           inherited == [i \in DOMAIN d |-> IF d[i] \in E THEN k ELSE d[i]]
<1>1. /\ messages' = messages + 1 /\ order' = Touched(order, k)
      /\ rows' = [j \in Key |-> IF j = k THEN messages' ELSE IF j \in E THEN 0 ELSE rows[j]]
      /\ dirty_slots' = IF k \in dirty THEN inherited ELSE Append(inherited, k)
      /\ dirty' = (dirty \ E) \cup {k}
  BY DEF mergeState
<1>2. /\ order \in Tables /\ rows \in [Key -> Nat] /\ messages \in Nat
      /\ d \in Seq(Key) /\ ToSet(d) = dirty /\ dirty \subseteq Live
  BY DEF CsvTypeOK, Tables
<1>3. /\ order' \in Tables
      /\ k \in Live' /\ Live' \subseteq Live \cup {k}
  BY <1>1, <1>2, UsedProperties DEF Live
<1>4. E = Live \ Live'
  BY <1>1 DEF Evicted, Live
<1> HIDE DEF E
<1>5. messages' \in Nat /\ rows' \in [Key -> Nat]
  BY <1>1, <1>2
<1>6. Live' \subseteq Key
  <2>1. order' \in Seq(Key)
    BY <1>3 DEF Tables
  <2>2. DOMAIN order' = 1 .. Len(order')
    BY <2>1, LenProperties
  <2>3. \A i \in DOMAIN order' : order'[i] \in Key
    BY <2>1, <2>2, ElementOfSeq
  <2> QED
    BY <2>3 DEF Live, ToSet
<1>7. \A j \in Live' \ {k} : rows'[j] = rows[j]
  BY <1>1, <1>4, <1>6
<1>8. dirty' \subseteq Live' /\ k \in dirty'
  BY <1>1, <1>2, <1>3, <1>4
<1>9. inherited \in Seq(Key)
  <2>1. DOMAIN d = 1 .. Len(d) /\ Len(d) \in Nat /\ \A i \in 1 .. Len(d) : d[i] \in Key
    BY <1>2, LenProperties, ElementOfSeq
  <2>2. inherited \in [1 .. Len(d) -> Key]
    BY <2>1
  <2> QED
    BY <2>1, <2>2, FunctionIsSeq
<1>10. ToSet(inherited) \cup {k} = (dirty \ E) \cup {k}
  <2>1. DOMAIN inherited = DOMAIN d
    OBVIOUS
  <2>2. \A i \in DOMAIN d : inherited[i] = IF d[i] \in E THEN k ELSE d[i]
    OBVIOUS
  <2> HIDE DEF inherited
  <2>3. ToSet(inherited) \subseteq (dirty \ E) \cup {k}
    BY <1>2, <2>1, <2>2 DEF ToSet
  <2>4. dirty \ E \subseteq ToSet(inherited)
    BY <1>2, <2>1, <2>2 DEF ToSet
  <2> QED
    BY <2>3, <2>4
<1>11. k \in dirty => k \in ToSet(inherited)
  <2> SUFFICES ASSUME k \in dirty
               PROVE  k \in ToSet(inherited)
    OBVIOUS
  <2>1. PICK i \in DOMAIN d : d[i] = k
    BY <1>2 DEF ToSet
  <2>2. inherited[i] = k /\ i \in DOMAIN inherited
    BY <2>1
  <2> QED
    BY <2>2 DEF ToSet
<1> HIDE DEF inherited
<1>12. dirty_slots' \in Seq(Key) /\ ToSet(dirty_slots') = (dirty \ E) \cup {k}
  <2>1. Append(inherited, k) \in Seq(Key) /\ ToSet(Append(inherited, k)) = ToSet(inherited) \cup {k}
    BY <1>9, Appended1
  <2>2. CASE k \in dirty
    BY <1>1, <1>9, <1>10, <1>11, <2>2
  <2>3. CASE k \notin dirty
    BY <1>1, <1>10, <2>1, <2>3
  <2> QED
    BY <2>2, <2>3
<1> QED
  BY <1>1, <1>3, <1>4, <1>5, <1>7, <1>8, <1>12 DEF E

(* The four parts of the type invariant.                                   *)
TableTyped ==
    /\ order \in Tables /\ rows \in [Key -> Nat]
    /\ dirty \subseteq Live /\ dirty_slots \in Seq(Key) /\ ToSet(dirty_slots) = dirty

FilesTyped == main \in Seq(Line) /\ journal \in Journals

FlagsTyped ==
    /\ bytes \in BOOLEAN /\ damaged \in BOOLEAN
    /\ phase \in {"off", "loaded", "on"} /\ exit \in {"clean", "killed"}

CountsTyped == messages \in Nat /\ starts \in Nat

LEMMA TypeParts ==
  CsvTypeOK <=> TableTyped /\ FilesTyped /\ FlagsTyped /\ CountsTyped
BY DEF CsvTypeOK, TableTyped, FilesTyped, FlagsTyped, CountsTyped, Tables, Journals

LEMMA TableStep ==
  ASSUME CsvTypeOK, CsvNext
  PROVE  TableTyped'
<1> USE DEF TableTyped
<1>0. TableTyped
  BY TypeParts
<1>1. ASSUME NEW k \in Key, mergeState(k)
      PROVE  TableTyped'
  BY <1>1, Merging
<1>2. CASE NothingDirty
  BY <1>0, <1>2, EmptyIsTyped DEF NothingDirty, Live
<1>3. CASE UNCHANGED targets
  BY <1>0, <1>3 DEF targets, Live
<1>4. CASE compactState
  BY <1>0, <1>4, Compacting, EmptyIsTyped DEF Live
<1>5. CASE connectDB
  <2>1. main \in Seq(Line) /\ journal.lines \in Seq(Line)
    BY DEF CsvTypeOK
  <2>2. OnDisk \in Seq(Line)
    BY <2>1, ConcatProperties DEF OnDisk
  <2>3. order' \in Tables
    BY <1>5, <2>2, LoadedTyped DEF connectDB
  <2>4. \A k \in Key : LastRow(OnDisk, k) \in Nat
    BY <2>2, LastRowTyped
  <2>5. rows' \in [Key -> Nat] /\ dirty' = {} /\ dirty_slots' = <<>>
    BY <1>5, <2>4 DEF connectDB
  <2> QED
    BY <2>3, <2>5, EmptyIsTyped
<1> QED
  BY <1>1, <1>2, <1>3, <1>4, <1>5
     DEF CsvNext, Drain, DrainFails, Compact, MaintainAtStart, Close, Kill, KillInDrain, KillInCompact

LEMMA FilesStep ==
  ASSUME CsvTypeOK, CsvNext
  PROVE  FilesTyped'
<1> USE DEF FilesTyped
<1>0. FilesTyped /\ rows \in [Key -> Nat]
  BY TypeParts DEF CsvTypeOK
<1>1. CASE UNCHANGED files
  BY <1>0, <1>1 DEF files
<1>2. CASE compactState
  BY <1>2, Compacting
<1>3. ASSUME NEW more \in Seq(Line), journal' = Appended(more), main' = main
      PROVE  FilesTyped'
  BY <1>0, <1>3, AppendedTyped
<1>4. CASE Drain
  <2>1. Lines(Pending) \in Seq(Line)
    BY <1>0, PendingProperties, LinesProperties
  <2> QED
    BY <1>3, <1>4, <2>1 DEF Drain
<1>5. ASSUME NEW written \in Prefixes(Lines(Pending)), journal' = Appended(written), main' = main
      PROVE  FilesTyped'
  <2>1. written \in Seq(Line)
    BY <1>0, PendingProperties, PrefixesCurrent DEF Current
  <2> QED
    BY <1>3, <1>5, <2>1
<1>6. CASE KillInCompact
  BY <1>0, <1>6, SnapshotProperties DEF KillInCompact
<1> QED
  BY <1>1, <1>2, <1>4, <1>5, <1>6
     DEF CsvNext, mergeState, DrainFails, Compact, connectDB, MaintainAtStart, Close, Kill,
         KillInDrain, files

LEMMA FlagsStep ==
  ASSUME CsvTypeOK, CsvNext
  PROVE  FlagsTyped' /\ CountsTyped'
<1> USE DEF FlagsTyped, CountsTyped
<1>0. FlagsTyped /\ CountsTyped
  BY TypeParts
<1>1. ASSUME NEW k \in Key, mergeState(k)
      PROVE  FlagsTyped' /\ CountsTyped'
  BY <1>0, <1>1 DEF mergeState
<1>2. CASE Drain \/ DrainFails
  BY <1>0, <1>2 DEF Drain, DrainFails
<1>3. CASE Compact \/ MaintainAtStart \/ Close
  <2>1. compactState
    BY <1>3 DEF Compact, MaintainAtStart, Close
  <2>2. bytes' \in BOOLEAN /\ damaged' \in BOOLEAN
    BY <2>1, Compacting
  <2> QED
    BY <1>0, <1>3, <2>2 DEF Compact, MaintainAtStart, Close
<1>4. CASE connectDB
  <2>1. journal.exists \in BOOLEAN
    BY DEF CsvTypeOK
  <2>2. starts' = starts + 1 /\ phase' = "loaded" /\ bytes' = journal.exists /\ damaged' = FALSE
        /\ exit' = exit /\ messages' = messages
    BY <1>4 DEF connectDB
  <2>3. bytes' \in BOOLEAN
    BY <2>1, <2>2, Zenon
  <2>4. phase' \in {"off", "loaded", "on"} /\ starts' \in Nat
    BY <1>0, <2>2
  <2> QED
    BY <1>0, <2>2, <2>3, <2>4
<1>5. CASE Kill \/ KillInDrain \/ KillInCompact
  BY <1>0, <1>5 DEF Kill, KillInDrain, KillInCompact, Killed
<1> QED
  BY <1>1, <1>2, <1>3, <1>4, <1>5 DEF CsvNext

LEMMA CsvTypeStep ==
  ASSUME CsvTypeOK, [CsvNext]_csv_vars
  PROVE  CsvTypeOK'
<1>1. CASE CsvNext
  <2>1. TableTyped' /\ FilesTyped' /\ FlagsTyped' /\ CountsTyped'
    BY <1>1, TableStep, FilesStep, FlagsStep
  <2> QED
    BY <2>1 DEF CsvTypeOK, TableTyped, FilesTyped, FlagsTyped, CountsTyped, Tables, Journals
<1>2. CASE UNCHANGED csv_vars
  BY <1>2 DEF csv_vars, targets, files, CsvTypeOK, Live
<1> QED
  BY <1>1, <1>2

LEMMA SnapshotRows ==
  ASSUME CsvTypeOK, NEW k \in Live
  PROVE  LastRow(Snapshot, k) = rows[k]
<1>1. /\ Snapshot \in Seq(Line) /\ Current(Snapshot, Live)
      /\ \E i \in 1 .. Len(Snapshot) : Snapshot[i].key = k
  BY SnapshotProperties
<1>2. PICK i \in 1 .. Len(Snapshot) :
        Snapshot[i].key = k /\ LastRow(Snapshot, k) = Snapshot[i].row
  BY <1>1, LastRowExists
<1> QED
  BY <1>1, <1>2 DEF Current

LEMMA CleanOnDiskStep ==
  ASSUME CsvTypeOK, CleanOnDisk, [CsvNext]_csv_vars
  PROVE  CleanOnDisk'
<1> SUFFICES ASSUME ~damaged', NEW k \in Live' \ dirty'
             PROVE  LastRow(OnDisk', k) = rows'[k]
  BY DEF CleanOnDisk
<1> USE DEF CleanOnDisk
<1>0. /\ rows \in [Key -> Nat] /\ order \in Seq(Key)
      /\ main \in Seq(Line) /\ journal.lines \in Seq(Line)
  BY DEF CsvTypeOK
<1>1. ASSUME NEW m \in Key, mergeState(m)
      PROVE  LastRow(OnDisk', k) = rows'[k]
  <2>1. /\ Live' \subseteq Live \cup {m} /\ m \in dirty' /\ dirty' = (dirty \ Evicted(m)) \cup {m}
        /\ Evicted(m) \cap Live' = {} /\ \A j \in Live' \ {m} : rows'[j] = rows[j]
    BY <1>1, Merging
  <2>2. k \in Live \ dirty /\ rows'[k] = rows[k]
    BY <2>1
  <2>3. OnDisk' = OnDisk /\ damaged' = damaged
    BY <1>1 DEF mergeState, files, OnDisk
  <2> QED
    BY <2>2, <2>3
<1>2. CASE Drain
  <2> DEFINE more == Lines(Pending)
  <2>1. Pending \in Seq(Key) /\ ToSet(Pending) = dirty
    BY PendingProperties
  <2>2. /\ Current(more, dirty)
        /\ \A j \in dirty : \E i \in 1 .. Len(more) : more[i].key = j
    BY <1>0, <2>1, LinesCurrent
  <2> HIDE DEF more
  <2>3. OnDisk' = OnDisk \o more /\ OnDisk \in Seq(Line)
    <3>1. more \in Seq(Line) /\ main' = main /\ journal' = Appended(more)
      BY <1>2, <2>2 DEF Drain, Current, more
    <3> QED
      BY <3>1, AppendedTyped DEF OnDisk
  <2>4. order' = order /\ rows' = rows /\ damaged' = damaged
    BY <1>2 DEF Drain, NothingDirty
  <2>5. k \in Live
    BY <2>4 DEF Live
  <2>6. \/ LastRow(OnDisk \o more, k) = rows[k]
        \/ /\ \A i \in 1 .. Len(more) : more[i].key # k
           /\ LastRow(OnDisk \o more, k) = LastRow(OnDisk, k)
    BY <2>2, <2>3, CurrentAppended
  <2> QED
    BY <2>2, <2>3, <2>4, <2>5, <2>6
<1>3. CASE DrainFails
  BY <1>3 DEF DrainFails
<1>4. CASE compactState
  <2>1. order' = order /\ rows' = rows /\ dirty' = {}
    BY <1>4, Compacting
  <2>2. k \in Live
    BY <2>1 DEF Live
  <2>3. CASE OnDisk' = Snapshot
    BY <2>1, <2>2, <2>3, SnapshotRows
  <2>4. CASE ~damaged /\ NothingToFold /\ UNCHANGED files
    <3>1. dirty = {} /\ OnDisk' = OnDisk
      BY <2>4, EmptyIsTyped DEF NothingToFold, CsvTypeOK, files, OnDisk
    <3> QED
      BY <2>1, <2>2, <2>4, <3>1
  <2> QED
    BY <1>4, <2>3, <2>4, Compacting
<1>5. CASE connectDB
  <2>1. /\ OnDisk' = OnDisk
        /\ rows' = [j \in Key |-> IF j \in ToSet(order') THEN LastRow(OnDisk, j) ELSE 0]
        /\ order' = LoadedOrder(OnDisk)
    BY <1>5 DEF connectDB, files, OnDisk
  <2>2. order' \in Seq(Key)
    <3>1. OnDisk \in Seq(Line)
      BY <1>0, ConcatProperties DEF OnDisk
    <3> QED
      BY <2>1, <3>1, LoadedTyped DEF Tables
  <2>3. k \in ToSet(order') /\ k \in Key
    <3>1. k \in ToSet(order') /\ DOMAIN order' = 1 .. Len(order')
      BY <2>2, LenProperties DEF Live
    <3> QED
      BY <2>2, <3>1, ElementOfSeq DEF ToSet
  <2> QED
    BY <2>1, <2>3
<1>6. CASE UNCHANGED <<targets, files, damaged>>
  BY <1>6 DEF targets, files, Live, OnDisk
<1>7. CASE KillInDrain
  <2>1. PICK written \in Prefixes(Lines(Pending)) : journal' = Appended(written)
    BY <1>7 DEF KillInDrain
  <2>2. Current(written, ToSet(Pending)) /\ written \in Seq(Line)
    BY <1>0, PendingProperties, PrefixesCurrent DEF Current
  <2>3. main' = main /\ order' = order /\ rows' = rows /\ dirty' = dirty /\ damaged' = damaged
    BY <1>7 DEF KillInDrain, targets
  <2>4. OnDisk' = OnDisk \o written /\ OnDisk \in Seq(Line)
    BY <2>1, <2>2, <2>3, AppendedTyped DEF OnDisk
  <2>5. k \in Live \ dirty
    BY <2>3 DEF Live
  <2>6. LastRow(OnDisk \o written, k) = rows[k] \/ LastRow(OnDisk \o written, k) = LastRow(OnDisk, k)
    BY <2>2, <2>4, CurrentAppended
  <2> QED
    BY <2>3, <2>4, <2>5, <2>6
<1>8. CASE KillInCompact
  <2>1. /\ main' = Snapshot /\ journal' = journal /\ order' = order /\ rows' = rows
        /\ dirty' = dirty /\ damaged' = damaged
    BY <1>8 DEF KillInCompact, targets
  <2>2. k \in Live \ dirty
    BY <2>1 DEF Live
  <2>3. Snapshot \in Seq(Line)
    BY SnapshotProperties
  <2> DEFINE lines == journal.lines
  <2>4. OnDisk' = Snapshot \o lines /\ OnDisk = main \o lines
    BY <2>1 DEF OnDisk
  <2>5. lines \in Seq(Line)
    BY <1>0
  <2> HIDE DEF lines
  <2>6. /\ LastRow(Snapshot \o lines, k) =
             IF \E j \in 1 .. Len(lines) : lines[j].key = k THEN LastRow(lines, k)
                                                          ELSE LastRow(Snapshot, k)
        /\ LastRow(main \o lines, k) =
             IF \E j \in 1 .. Len(lines) : lines[j].key = k THEN LastRow(lines, k)
                                                          ELSE LastRow(main, k)
    BY <1>0, <2>3, <2>5, LastRowAppended
  <2>7. LastRow(Snapshot, k) = rows[k] /\ LastRow(main \o lines, k) = rows[k]
    BY <2>1, <2>2, <2>4, SnapshotRows
  <2> QED
    BY <2>1, <2>4, <2>6, <2>7
<1> QED
  BY <1>1, <1>2, <1>3, <1>4, <1>5, <1>6, <1>7, <1>8
     DEF CsvNext, Compact, MaintainAtStart, Close, Kill, csv_vars

(* Whatever makes rows wait or writes to the journal also leaves something *)
(* to fold in.                                                             *)
LEMMA RestorableStep ==
  ASSUME CsvTypeOK, Restorable, [CsvNext]_csv_vars
  PROVE  Restorable'
<1> SUFFICES ASSUME phase' # "off" \/ exit' = "clean", ~damaged', NothingToFold'
             PROVE  LoadedOrder(OnDisk') = order'
  BY DEF Restorable
<1> USE DEF Restorable
<1>1. ASSUME NEW m \in Key, mergeState(m)
      PROVE  FALSE
  <2>1. m \in dirty' /\ ToSet(dirty_slots') = dirty'
    BY <1>1, Merging
  <2>2. dirty_slots' = <<>>
    BY DEF NothingToFold
  <2> QED
    BY <2>1, <2>2, EmptyIsTyped
<1>2. ~Drain /\ ~DrainFails
  BY DEF Drain, DrainFails, NothingToFold
<1>3. ~Kill /\ ~KillInDrain /\ ~KillInCompact
  BY DEF Kill, KillInDrain, KillInCompact, Killed
<1>4. ASSUME compactState, phase # "off"
      PROVE  LoadedOrder(OnDisk') = order'
  <2>1. order' = order
    BY <1>4, Compacting
  <2>2. CASE OnDisk' = Snapshot
    BY <2>1, <2>2, SnapshotProperties
  <2>3. CASE ~damaged /\ NothingToFold /\ UNCHANGED files
    BY <1>4, <2>1, <2>3 DEF files, OnDisk
  <2> QED
    BY <1>4, <2>2, <2>3, Compacting
<1>5. CASE connectDB
  BY <1>5 DEF connectDB, files, OnDisk
<1>6. CASE UNCHANGED csv_vars
  BY <1>6 DEF csv_vars, targets, files, NothingToFold, OnDisk
<1> QED
  BY <1>1, <1>2, <1>3, <1>4, <1>5, <1>6 DEF CsvNext, Compact, MaintainAtStart, Close

LEMMA LeftFoldedStep ==
  ASSUME CsvTypeOK, LeftFolded, [CsvNext]_csv_vars
  PROVE  LeftFolded'
<1> SUFFICES ASSUME phase' = "off", exit' = "clean"
             PROVE  NothingToFold'
  BY DEF LeftFolded
<1>1. CASE Close
  BY <1>1, Compacting DEF Close, NothingToFold
<1>2. CASE UNCHANGED csv_vars
  BY <1>2 DEF csv_vars, targets, LeftFolded, NothingToFold
<1>3. ~Compact /\ ~connectDB /\ ~MaintainAtStart /\ ~Drain /\ ~DrainFails
  BY DEF Compact, connectDB, MaintainAtStart, Drain, DrainFails
<1>4. ~Kill /\ ~KillInDrain /\ ~KillInCompact /\ \A m \in Key : ~mergeState(m)
  BY DEF Kill, KillInDrain, KillInCompact, Killed, mergeState
<1> QED
  BY <1>1, <1>2, <1>3, <1>4 DEF CsvNext

LEMMA InitSound == CsvInit => CsvIInv
<1> SUFFICES ASSUME CsvInit
             PROVE  CsvIInv
  OBVIOUS
<1>1. /\ order = <<>> /\ rows = [k \in Key |-> 0] /\ dirty = {} /\ dirty_slots = <<>>
      /\ bytes = FALSE /\ main = <<>> /\ journal = NoFile /\ phase = "off" /\ exit = "clean"
      /\ messages = 0 /\ starts = 0 /\ damaged = FALSE
  BY DEF CsvInit
<1>2. <<>> \in Seq(Line) /\ <<>> \in Tables /\ Len(<<>>) = 0
  <2>1. <<>> \in Seq(Key) /\ Len(<<>>) = 0 /\ IsInjective(<<>>)
    BY DEF IsInjective
  <2>2. 0 =< Capacity
    BY CsvSizes
  <2> QED
    BY <2>1, <2>2 DEF Tables
<1>3. Live = {} /\ OnDisk = <<>>
  <2>1. <<>> \o <<>> = <<>>
    BY <1>2, ConcatEmptySeq
  <2> QED
    BY <1>1, <2>1, EmptyIsTyped DEF Live, OnDisk, NoFile
<1>4. CsvTypeOK
  <2>1. TableTyped
    BY <1>1, <1>2, <1>3, EmptyIsTyped DEF TableTyped
  <2>2. FilesTyped /\ FlagsTyped /\ CountsTyped
    BY <1>1, <1>2, EmptyIsTyped DEF FilesTyped, FlagsTyped, CountsTyped
  <2> QED
    BY <2>1, <2>2, TypeParts
<1>5. CleanOnDisk
  BY <1>3 DEF CleanOnDisk
<1>6. Restorable
  <2>1. LoadedOrder(<<>>) = <<>>
    <3> DEFINE e == <<>>
    <3>1. e \in Seq(Line) /\ e \in Tables /\ Len(e) = 0
      BY <1>2
    <3> HIDE DEF e
    <3>2. \A i \in 1 .. Len(e) : e[i].key = e[(Len(e) - i) + 1]
      BY <3>1
    <3>3. LoadedOrder(e) = e
      BY <3>1, <3>2, SnapshotRestores
    <3> QED
      BY <3>3 DEF e
  <2> QED
    BY <1>1, <1>3, <2>1 DEF Restorable
<1>7. LeftFolded
  BY <1>1 DEF LeftFolded, NothingToFold
<1> QED
  BY <1>4, <1>5, <1>6, <1>7 DEF CsvIInv

LEMMA CsvInvariance == CsvSpec => []CsvIInv
<1>1. CsvIInv /\ [CsvNext]_csv_vars => CsvIInv'
  BY CsvTypeStep, CleanOnDiskStep, RestorableStep, LeftFoldedStep DEF CsvIInv
<1> QED
  BY <1>1, InitSound, PTL DEF CsvSpec

-----------------------------------------------------------------------------
(* The theorems.                                                           *)

(* Every variable keeps its type: the table never has more rows than slots *)
(* nor a target twice, and the slots listed for a drain are those of the   *)
(* dirty rows, whoever had them before.                                    *)
THEOREM CsvTypeCorrect == CsvSpec => []CsvTypeOK
BY CsvInvariance, PTL DEF CsvIInv

(* A row that is not waiting to be written is on the disk as it is in the  *)
(* table at every moment the process may be killed at, between the two     *)
(* writes of a compaction and in the middle of a drain too.                *)
THEOREM CleanIsOnDisk == CsvSpec => []CleanOnDisk
BY CsvInvariance, PTL DEF CsvIInv

(* A start after an orderly exit finds the whole table, in its order.      *)
THEOREM RestartIsExact == CsvSpec => RestartExact
<1> DEFINE Exact == connectDB /\ exit = "clean" /\ ~damaged
                      => order' = order /\ \A k \in Live : rows'[k] = rows[k]
<1>1. CsvIInv /\ [CsvNext]_csv_vars => [Exact]_csv_vars
  <2> SUFFICES ASSUME CsvIInv, connectDB, exit = "clean", ~damaged
               PROVE  order' = order /\ \A k \in Live : rows'[k] = rows[k]
    OBVIOUS
  <2>1. NothingToFold /\ dirty = {}
    <3>1. phase = "off"
      BY DEF connectDB
    <3>2. NothingToFold
      BY <3>1 DEF CsvIInv, LeftFolded
    <3> QED
      BY <3>2, EmptyIsTyped DEF CsvIInv, CsvTypeOK, NothingToFold
  <2>2. order' = order
    BY <2>1 DEF CsvIInv, Restorable, connectDB
  <2>3. ASSUME NEW k \in Live
        PROVE  rows'[k] = rows[k]
    <3>1. LastRow(OnDisk, k) = rows[k]
      BY <2>1 DEF CsvIInv, CleanOnDisk
    <3>2. k \in Key
      <4>1. order \in Seq(Key) /\ DOMAIN order = 1 .. Len(order)
        BY LenProperties DEF CsvIInv, CsvTypeOK
      <4> QED
        BY <4>1, ElementOfSeq DEF Live, ToSet
    <3>3. k \in ToSet(order')
      BY <2>2 DEF Live
    <3> QED
      BY <3>1, <3>2, <3>3 DEF connectDB
  <2> QED
    BY <2>2, <2>3
<1>2. [][Exact]_csv_vars <=> RestartExact
  BY DEF RestartExact
<1> QED
  BY <1>1, <1>2, CsvInvariance, PTL DEF CsvSpec

=============================================================================
