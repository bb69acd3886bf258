--------------------------- MODULE DatabaseOutput ---------------------------
(***************************************************************************)
(* DBMS/DatabaseOutput.cpp: the message log.  Receivers put messages in a  *)
(* bounded queue and count them in the bucket of their hour, both under    *)
(* queue_mutex; one worker thread connects, writes the hourly statistics   *)
(* and then the queued messages, and starts over.  The database may go and *)
(* come back at any moment, and refuse single rows.                        *)
(*                                                                         *)
(* The k-th message queued is written as k.  A bucket keeps its hour and   *)
(* the number of messages; a row of the statistics holds the last such     *)
(* number written to it (the statement is an upsert).  The backends differ *)
(* in how they fail; CSV, which has no transactions, skips the rows it     *)
(* cannot write, which is Replayed.                                        *)
(***************************************************************************)
EXTENDS Integers, Sequences, FiniteSets, SequencesExt

CONSTANTS
  Receivers,
  MAX_QUEUE_SIZE, Half, Quarter,    \* with the / 2 and / 4 of it the code uses
  MaxHour,       \* bound: the last hour
  MaxMessages    \* bound: messages received

ASSUME DatabaseBounds ==
  /\ MAX_QUEUE_SIZE \in Nat /\ Half \in 1 .. MAX_QUEUE_SIZE /\ Quarter \in 1 .. MAX_QUEUE_SIZE
  /\ MaxHour \in Nat \ {0} /\ MaxMessages \in Nat

VARIABLES
  hour,        \* the system clock
  up,          \* the database can be reached and has its tables
  rx,          \* per receiver: the hour its message was stamped in, 0 without one
  received,    \* messages queued so far
  queue,       \* message_queue
  current,     \* stats_current
  pending,     \* stats_pending
  worker,      \* where the thread is, and whether it slept before it came there
  batch,       \* the messages post() is writing
  buckets,     \* the statistics postStats() is writing
  connected,
  failing,     \* conn_fails > 0
  terminate,
  table,       \* ais_message, in the order of writing
  row,         \* ais_stats_hourly: messages per hour, 0 without a row
  count,       \* history variable: messages received per hour
  spoiled,     \* history variable: hours with more than one bucket, see StatsExact
  trouble      \* history variable: the database failed, or the queue was full

clock == <<hour, up>>
inbox == <<rx, received, count>>
link == <<connected, failing>>
vars == <<clock, inbox, queue, current, pending, worker, batch, buckets, link, terminate,
          table, row, spoiled, trouble>>

Hours == 1 .. MaxHour
Buckets == [hour : 0 .. MaxHour, msgs : Nat]

TypeOK ==
  /\ hour \in Hours /\ up \in BOOLEAN
  /\ rx \in [Receivers -> 0 .. MaxHour] /\ received \in Nat
  /\ queue \in Seq(Nat) /\ batch \in Seq(Nat) /\ table \in Seq(Nat)
  /\ current \in Buckets /\ pending \in Seq(Buckets) /\ buckets \in Seq(Buckets)
  /\ worker \in [pc : {"wait", "connect", "ensure", "copy", "stats", "write", "done", "ended"},
                 rested : BOOLEAN]
  /\ {connected, failing, terminate, trouble} \subseteq BOOLEAN
  /\ row \in [Hours -> Nat] /\ count \in [Hours -> Nat]
  /\ spoiled \subseteq Hours

(* setup(): a first attempt to connect, before the worker starts.          *)
Init ==
  /\ hour = 1 /\ up \in BOOLEAN
  /\ connected = up /\ failing = ~up
  /\ current = [hour |-> IF up THEN hour ELSE 0, msgs |-> 0] /\ pending = <<>>
  /\ rx = [r \in Receivers |-> 0] /\ received = 0
  /\ queue = <<>> /\ batch = <<>> /\ buckets = <<>> /\ table = <<>>
  /\ worker = [pc |-> "done", rested |-> FALSE] /\ terminate = FALSE
  /\ row = [h \in Hours |-> 0] /\ count = [h \in Hours |-> 0]
  /\ spoiled = {} /\ trouble = FALSE

(* The ways to pick n elements of a set of positions, in order.            *)
Picks(n, S) == {at \in [1 .. n -> S] : \A i, j \in 1 .. n : i < j => at[i] < at[j]}

-----------------------------------------------------------------------------
(* The receivers.                                                          *)

(* The message is stamped; until it has the lock the hour may change and   *)
(* another receiver overtake.                                              *)
Stamp(r) ==
  /\ rx[r] = 0 /\ ~terminate
  /\ received + Cardinality({q \in Receivers : rx[q] # 0}) < MaxMessages
  /\ rx' = [rx EXCEPT ![r] = hour]
  /\ UNCHANGED <<clock, received, count, queue, current, pending, worker, batch, buckets, link,
                 terminate, table, row, spoiled, trouble>>

(* accumulateStats(): a message of another hour closes the bucket.         *)
Accumulate(h) ==
  /\ current' = IF current.hour = h THEN [current EXCEPT !.msgs = @ + 1]
                                    ELSE [hour |-> h, msgs |-> 1]
  /\ pending' = IF current.hour # h /\ current.msgs > 0 THEN Append(pending, current)
                                                        ELSE pending
  /\ count' = [count EXCEPT ![h] = @ + 1]
  /\ spoiled' = IF current.hour # h /\ count[h] > 0 THEN spoiled \cup {h} ELSE spoiled

Full == Len(queue) >= MAX_QUEUE_SIZE

(* Mutant: the newest quarter goes.                                        *)
Room_DropsNewest ==
  IF Full THEN SubSeq(queue, 1, Len(queue) - Quarter) ELSE queue
(* A full queue loses its oldest quarter.                                  *)
Room == IF Full THEN SubSeq(queue, Quarter + 1, Len(queue)) ELSE queue

(* Receive(), the part under the lock.                                     *)
Receive(r) ==
  /\ rx[r] # 0
  /\ rx' = [rx EXCEPT ![r] = 0]
  /\ received' = received + 1
  /\ Accumulate(rx[r])
  /\ queue' = Append(Room, received + 1)
  /\ trouble' = (trouble \/ Full)
  /\ UNCHANGED <<clock, worker, batch, buckets, link, terminate, table, row>>

-----------------------------------------------------------------------------
(* The environment.                                                        *)

Tick ==
  /\ hour < MaxHour
  /\ hour' = hour + 1
  /\ UNCHANGED <<up, inbox, queue, current, pending, worker, batch, buckets, link, terminate,
                 table, row, spoiled, trouble>>

DatabaseChanges ==
  /\ up' = ~up
  /\ trouble' = TRUE
  /\ UNCHANGED <<hour, inbox, queue, current, pending, worker, batch, buckets, link, terminate,
                 table, row, spoiled>>

(* stopWorker(), from the destructor: the receivers are gone by then.      *)
Stop ==
  /\ ~terminate /\ \A r \in Receivers : rx[r] = 0
  /\ terminate' = TRUE
  /\ UNCHANGED <<clock, inbox, queue, current, pending, worker, batch, buckets, link, table, row,
                 spoiled, trouble>>

-----------------------------------------------------------------------------
(* The worker.                                                             *)

At(pc) == worker.pc = pc
Goto(pc) == worker' = [pc |-> pc, rested |-> FALSE]

Hurried == At("wait") /\ (terminate \/ Len(queue) >= Half)

(* Mutant: only what hurries ends the wait.                                *)
Rested_NeverAlone ==
  /\ Hurried
  /\ worker' = [pc |-> "connect", rested |-> TRUE]
  /\ UNCHANGED <<clock, inbox, queue, current, pending, batch, buckets, link, terminate, table,
                 row, spoiled, trouble>>

(* The wait is over: INTERVAL, or the retry delay after a failure, ...     *)
Rested ==
  /\ At("wait")
  /\ worker' = [pc |-> "connect", rested |-> TRUE]
  /\ UNCHANGED <<clock, inbox, queue, current, pending, batch, buckets, link, terminate, table,
                 row, spoiled, trouble>>

(* ... or the queue is half full, or the output is stopped.                *)
Hurry ==
  /\ Hurried
  /\ Goto("connect")
  /\ UNCHANGED <<clock, inbox, queue, current, pending, batch, buckets, link, terminate, table,
                 row, spoiled, trouble>>

(* tryConnect() gives the bucket the present hour, without the lock.       *)
Relabel ==
  /\ current' = [current EXCEPT !.hour = hour]
  /\ spoiled' = IF current.msgs > 0 /\ current.hour # hour THEN spoiled \cup {current.hour, hour}
                                                          ELSE spoiled

Connect ==
  /\ At("connect") /\ ~connected /\ up
  /\ connected' = TRUE /\ failing' = FALSE
  /\ Relabel
  /\ Goto("ensure")
  /\ UNCHANGED <<clock, inbox, queue, pending, batch, buckets, terminate, table, row, trouble>>

IsConnected ==
  /\ At("connect") /\ connected
  /\ Goto("ensure")
  /\ UNCHANGED <<clock, inbox, queue, current, pending, batch, buckets, link, terminate, table,
                 row, spoiled, trouble>>

(* tryConnect() or ensureConnection() fails, and the cycle with it.        *)
NoConnection ==
  /\ (At("connect") /\ ~connected) \/ At("ensure")
  /\ ~up
  /\ failing' = TRUE
  /\ Goto("done")
  /\ UNCHANGED <<clock, inbox, queue, current, pending, batch, buckets, connected, terminate,
                 table, row, spoiled, trouble>>

(* ensureConnection(): the connection is there, again, or its loss has not *)
(* been noticed.                                                           *)
Ensure ==
  /\ At("ensure")
  /\ Goto("copy")
  /\ UNCHANGED <<clock, inbox, queue, current, pending, batch, buckets, link, terminate, table,
                 row, spoiled, trouble>>

(* postStats(): the closed buckets and a copy of the current one.          *)
CopyStats ==
  /\ At("copy")
  /\ buckets' = pending \o (IF current.msgs > 0 THEN <<current>> ELSE <<>>)
  /\ pending' = <<>>
  /\ Goto("stats")
  /\ UNCHANGED <<clock, inbox, queue, current, batch, link, terminate, table, row, spoiled,
                 trouble>>

WriteStats ==
  /\ At("stats") /\ buckets # <<>> /\ up
  /\ row' = [row EXCEPT ![Head(buckets).hour] = Head(buckets).msgs]
  /\ buckets' = Tail(buckets)
  /\ UNCHANGED <<clock, inbox, queue, current, pending, worker, batch, link, terminate, table,
                 spoiled, trouble>>

NotCurrent == {i \in DOMAIN buckets : buckets[i].hour # current.hour}

(* Mutant: the statistics that could not be written are gone.              *)
Requeue_Dropped == pending' = pending
(* What could not be written waits for the next cycle, but for the bucket  *)
(* that is still open.                                                     *)
Requeue ==
  \E at \in Picks(Cardinality(NotCurrent), NotCurrent) :
    pending' = pending \o [i \in DOMAIN at |-> buckets[at[i]]]

StatsRefused ==
  /\ At("stats") /\ buckets # <<>>
  /\ Requeue
  /\ buckets' = <<>>
  /\ spoiled' = spoiled \cup ({buckets[i].hour : i \in NotCurrent}
                              \cap {pending[i].hour : i \in DOMAIN pending})
  /\ UNCHANGED <<clock, inbox, queue, current, worker, batch, link, terminate, table, row, trouble>>

(* Mutant: the queue is copied.                                            *)
TakeQueue_Copied == batch' = queue /\ UNCHANGED queue
TakeQueue == batch' = queue /\ queue' = <<>>

SwapQueue ==
  /\ At("stats") /\ buckets = <<>>
  /\ TakeQueue
  /\ Goto(IF queue = <<>> THEN "done" ELSE "write")
  /\ failing' = (failing /\ queue # <<>>)
  /\ UNCHANGED <<clock, inbox, current, pending, buckets, connected, terminate, table, row,
                 spoiled, trouble>>

(* The end of a batch of which some rows landed.                           *)
Wrote(rows, fails) ==
  /\ table' = table \o rows
  /\ batch' = <<>>
  /\ failing' = fails
  /\ Goto("done")
  /\ UNCHANGED <<hour, inbox, queue, current, pending, buckets, connected, terminate, row, spoiled>>

Committed ==
  /\ At("write") /\ up
  /\ Wrote(batch, FALSE)
  /\ UNCHANGED <<up, trouble>>

Landed(at) == [i \in DOMAIN at |-> batch[at[i]]]

(* Some rows are refused: rolled back and replayed one by one.             *)
Replayed ==
  /\ At("write") /\ up
  /\ \E n \in 0 .. (Len(batch) - 1) : \E at \in Picks(n, DOMAIN batch) :
       Wrote(Landed(at), n = 0)
  /\ trouble' = TRUE /\ UNCHANGED up

(* The database is gone before the transaction begins, at its end -- with  *)
(* or without the rows -- or during the replay, between two rows or with   *)
(* the last one under way.  The batch is not kept.                         *)
BatchLost ==
  /\ At("write")
  /\ \/ Wrote(<<>>, TRUE)
     \/ up /\ Wrote(batch, TRUE)
     \/ /\ up
        /\ \E n \in 0 .. (Len(batch) - 1) : \E at \in Picks(n, 1 .. (Len(batch) - 1)) :
             Wrote(Landed(at), TRUE)
     \/ /\ up
        /\ \E n \in 0 .. Len(batch) : \E at \in Picks(n, DOMAIN batch) :
             Wrote(Landed(at), \A i \in DOMAIN at : at[i] = Len(batch))
  /\ up' = FALSE /\ trouble' = TRUE

(* while (!terminate), and the break at the end of the loop.               *)
EndCycle ==
  /\ At("done")
  /\ Goto(IF terminate THEN "ended" ELSE "wait")
  /\ UNCHANGED <<clock, inbox, queue, current, pending, batch, buckets, link, terminate, table,
                 row, spoiled, trouble>>

-----------------------------------------------------------------------------
Post ==
  \/ Connect \/ IsConnected \/ NoConnection \/ Ensure
  \/ CopyStats \/ WriteStats \/ StatsRefused
  \/ SwapQueue \/ Committed \/ Replayed \/ BatchLost
Worker == Rested \/ Hurry \/ Post \/ EndCycle

Next ==
  \/ \E r \in Receivers : Stamp(r) \/ Receive(r)
  \/ Tick \/ DatabaseChanges \/ Stop
  \/ Worker

(* The worker's thread runs; nobody has to receive, stop it or repair the  *)
(* database.                                                               *)
Spec == Init /\ [][Next]_vars /\ WF_vars(Worker)

-----------------------------------------------------------------------------
(* Properties.                                                             *)

(* A message is written at most once and in the order of arrival, whatever *)
(* is rolled back and replayed; as long as the database works and keeps    *)
(* pace, none is lost between the queue, the batch and the table.          *)
WrittenOnce ==
  LET all == table \o batch \o queue
  IN  /\ \A i \in 1 .. (Len(all) - 1) : all[i] < all[i + 1]
      /\ ~trouble => all = [i \in 1 .. received |-> i]

(* A slow or missing database costs the oldest messages only: what waits   *)
(* are the newest, without a gap, and never more than fit.                 *)
NewestKept ==
  /\ Len(queue) =< MAX_QUEUE_SIZE
  /\ \A i \in DOMAIN queue : queue[i] = received - Len(queue) + i

(* Once an hour has no bucket on its way, its row counts every message of  *)
(* the hour, however often the database was gone -- but for the hours that *)
(* had more than one bucket: a late message after the change of the hour,  *)
(* a copy of the bucket put back behind the bucket itself, and the hour of *)
(* a late connection.                                                      *)
StatsExact ==
  \A h \in Hours \ (spoiled \cup {current.hour}) :
    (\A b \in ToSet(pending) \cup ToSet(buckets) : b.hour # h) => row[h] = count[h]

(* With the database back for good, what is queued is written or refused,  *)
(* unless the output is stopped.                                           *)
Drained == (<>[]up) => ((queue # <<>>) ~> (queue = <<>> \/ At("ended")))

(* DatabaseOutput.h: "a failing database never stops the receiver: retries *)
(* back off to 5 min".                                                     *)
RetriesBackOff == (At("connect") /\ failing /\ ~terminate) => worker.rested

=============================================================================
