-------------------------- MODULE ReceiverTracker --------------------------
(***************************************************************************)
(* Tracking/ReceiverTracker.h: the ship database with the history behind   *)
(* it, fed by the threads of several receivers, saved by the backup thread *)
(* and restored when the process starts again.  A message is stamped with  *)
(* the system clock by its receiver, goes through DB::Receive under the    *)
(* database's mutex and then, outside of it, through History::Receive      *)
(* under the history's own; two receivers may overtake each other before   *)
(* each lock.                                                              *)
(*                                                                         *)
(* The table of ships is the LRU map that SlotTable implements.  Of a      *)
(* track (Tracks, PathStore) only the newest point is kept; whose track    *)
(* the store gives up to make room for a report is a choice here, and      *)
(* PathStore's subject.                                                    *)
(***************************************************************************)
EXTENDS Integers, Sequences, FiniteSets, SequencesExt

CONSTANTS Receiver, Mmsi, Slot,
          N, INTERVAL,     \* History<N, INTERVAL>
          MaxTime,         \* bound: the last second
          MaxLag,          \* bound: how long a stamped message is on its way
          MaxMessages      \* bound: messages stamped, over all lives of the process

ASSUME TrackerSizes ==
  /\ IsFiniteSet(Slot) /\ Slot # {}
  /\ N \in Nat /\ N >= 2 /\ INTERVAL \in Nat \ {0}
  /\ MaxTime \in Nat \ {0} /\ MaxLag \in Nat /\ MaxMessages \in Nat

VARIABLES
  clock,
  order, slot,      \* the table: its keys, newest first, and their slots
  ships,            \* the records: last_signal
  paths,            \* per slot: whose the newest point is, and its end()
  evict_horizon,
  history,
  rx,               \* the receivers' threads
  messages,         \* stamped so far
  saving,           \* the backup thread: the history in the .tmp file
  backup,           \* the backup file
  seen,             \* history variable: each ship's latest position report
  overwritten       \* history variable: the ships that lost their track to others

db == <<order, slot, ships, paths, evict_horizon>>
vars == <<clock, db, history, rx, messages, saving, backup, seen, overwritten>>

None == [none |-> TRUE]
Time == 0 .. MaxTime
Interval(t) == t \div INTERVAL
Row == [mmsi : Mmsi, last : Time]
Ring == [start : 0 .. (N - 1), end : 0 .. (N - 1), time : [0 .. (N - 1) -> Time]]

Table == INSTANCE LRUMap WITH Key <- Mmsi, SlotIds <- Slot

TypeOK ==
  /\ clock \in Time
  /\ order \in Seq(Mmsi) /\ Len(order) =< Cardinality(Slot)
  /\ slot \in [ToSet(order) -> Slot]
  /\ ships \in [Slot -> Time]
  /\ paths \in [Slot -> {None} \cup [owner : Mmsi, end : Time]]
  /\ evict_horizon \in Time
  /\ history \in Ring
  /\ rx \in [Receiver -> {None} \cup [pc : {"stamped", "stored"}, time : Time]]
  /\ messages \in 0 .. MaxMessages
  /\ saving \in {None} \cup Ring
  /\ backup \in {None} \cup [ring : Ring, rows : Seq(Row)]
  /\ seen \in [Mmsi -> Time]
  /\ overwritten \subseteq Table!Live

-----------------------------------------------------------------------------
(* History: a ring of intervals, of whose statistics only the time is kept.*)

Cleared(t) == [start |-> 0, end |-> 0,
               time |-> [i \in 0 .. (N - 1) |-> IF i = 0 THEN Interval(t) ELSE 0]]

Newest(h) == h.time[h.end]

(* Mutant: a message of any other interval opens one.                      *)
Opened_AnyOther(h, t) ==
  LET end == (h.end + 1) % N
  IN  IF Newest(h) # Interval(t)
      THEN [start |-> IF h.start = end THEN (h.start + 1) % N ELSE h.start,
            end |-> end, time |-> [h.time EXCEPT ![end] = Interval(t)]]
      ELSE h

(* A message of a later interval opens it; an earlier one does not.        *)
Opened(h, t) ==
  LET end == (h.end + 1) % N
  IN  IF Newest(h) < Interval(t)
      THEN [start |-> IF h.start = end THEN (h.start + 1) % N ELSE h.start,
            end |-> end, time |-> [h.time EXCEPT ![end] = Interval(t)]]
      ELSE h

-----------------------------------------------------------------------------
Fresh ==
  /\ order' = <<>> /\ slot' = <<>>
  /\ ships' = [s \in Slot |-> 0]

(* setup() and Clear() of a process that starts.                           *)
Init ==
  /\ clock = 1
  /\ order = <<>> /\ slot = <<>>
  /\ ships = [s \in Slot |-> 0]
  /\ paths = [s \in Slot |-> None]
  /\ evict_horizon = 0
  /\ history = Cleared(clock)
  /\ rx = [r \in Receiver |-> None] /\ messages = 0
  /\ saving = None /\ backup = None
  /\ seen = [m \in Mmsi |-> 0] /\ overwritten = {}

(* Message::Stamp(), on a receiver's thread.  Whose message it is and      *)
(* whether it has a position is settled where it is first looked at.       *)
Stamp(r) ==
  /\ rx[r] = None /\ messages < MaxMessages
  /\ messages' = messages + 1
  /\ rx' = [rx EXCEPT ![r] = [pc |-> "stamped", time |-> clock]]
  /\ UNCHANGED <<clock, db, history, saving, backup, seen, overwritten>>

(* Mutant: a ship that is known already keeps its place.                   *)
claimShip_NotTouched(m) ==
  \/ m \in Table!Live /\ UNCHANGED <<order, slot, evict_horizon>>
  \/ /\ Table!Add(m) \/ Table!Replace(m)
     /\ evict_horizon' = IF ships[slot'[m]] > evict_horizon THEN ships[slot'[m]]
                                                            ELSE evict_horizon

(* Mutant: the horizon is left where it is.                                *)
claimShip_HorizonStays(m) ==
  /\ Table!Touch(m) \/ Table!Add(m) \/ Table!Replace(m)
  /\ UNCHANGED evict_horizon

(* claimShip(): a recycled record still holds the evicted ship, whose last *)
(* signal moves the horizon.                                               *)
claimShip(m) ==
  \/ Table!Touch(m) /\ UNCHANGED evict_horizon
  \/ /\ Table!Add(m) \/ Table!Replace(m)
     /\ evict_horizon' = IF ships[slot'[m]] > evict_horizon THEN ships[slot'[m]]
                                                            ELSE evict_horizon

(* Mutant: a recycled slot keeps its track.                                *)
PathAfter_NotWiped(m, s, position, t) ==
  IF ~position THEN paths[s]
  ELSE IF paths[s] # None
       THEN [paths[s] EXCEPT !.end = IF t > @ THEN t ELSE @]
       ELSE [owner |-> m, end |-> t]

(* paths.wipe() of a claimed slot, and addToPath(): the track's time does  *)
(* not run backwards.                                                      *)
PathAfter(m, s, position, t) ==
  LET kept == IF m \in Table!Live THEN paths[s] ELSE None
  IN  IF ~position THEN kept
      ELSE IF kept # None
           THEN [kept EXCEPT !.end = IF t > @ THEN t ELSE @]
           ELSE [owner |-> m, end |-> t]

(* A new point may need the block of others, even the newest of a ship.    *)
(* Those go last: a ship's points are overwritten from the oldest on.      *)
MadeRoom(position) == IF position THEN SUBSET Slot ELSE {{}}

(* DB::Receive(), the part under the lock.                                 *)
DBReceive(r) ==
  /\ rx[r] # None /\ rx[r].pc = "stamped"
  /\ \E m \in Mmsi, position \in BOOLEAN : \E lost \in MadeRoom(position) :
       /\ claimShip(m)
       /\ LET s == slot'[m]
              t == rx[r].time
              left == [x \in Slot |-> IF x \in lost THEN None ELSE paths[x]]
          IN  /\ rx' = [rx EXCEPT ![r].pc = "stored"]
              /\ ships' = [ships EXCEPT ![s] = t]
              /\ paths' = [left EXCEPT ![s] = PathAfter(m, s, position, t)]
              /\ seen' = [seen EXCEPT ![m] = IF position /\ t > @ THEN t ELSE @]
              /\ overwritten' = {k \in ToSet(order') : k \in overwritten \/ slot'[k] \in lost}
                                   \ (IF position THEN {m} ELSE {})
  /\ UNCHANGED <<clock, history, messages, saving, backup>>

(* History::Receive(), after the database's lock is given up.              *)
HistoryReceive(r) ==
  /\ rx[r] # None /\ rx[r].pc = "stored"
  /\ history' = Opened(history, rx[r].time)
  /\ rx' = [rx EXCEPT ![r] = None]
  /\ UNCHANGED <<clock, db, messages, saving, backup, seen, overwritten>>

(* A second passes; a message is on its way for MaxLag of them at most.    *)
Tick ==
  /\ clock < MaxTime
  /\ \A r \in Receiver : rx[r] # None => clock + 1 - rx[r].time =< MaxLag
  /\ clock' = clock + 1
  /\ UNCHANGED <<db, history, rx, messages, saving, backup, seen, overwritten>>

-----------------------------------------------------------------------------
(* BackupManager::save() through ReceiverTracker::save(): the histories    *)
(* first, then the ships, each under its own lock.                         *)

SaveHistory ==
  /\ saving = None
  /\ saving' = history
  /\ UNCHANGED <<clock, db, history, rx, messages, backup, seen, overwritten>>

(* DB::Save() writes the ships from the oldest to the newest.              *)
ShipRows ==
  LET old == Reverse(order)
  IN  [i \in DOMAIN old |-> [mmsi |-> old[i], last |-> ships[slot[old[i]]]]]

(* The .tmp file is complete and synced; rename() makes it the backup.     *)
SaveShips ==
  /\ saving # None
  /\ backup' = [ring |-> saving, rows |-> ShipRows]
  /\ saving' = None
  /\ UNCHANGED <<clock, db, history, rx, messages, seen, overwritten>>

SaveFails ==
  /\ saving # None
  /\ saving' = None
  /\ UNCHANGED <<clock, db, history, rx, messages, backup, seen, overwritten>>

Chronological(rows) == \A i \in 1 .. (Len(rows) - 1) : rows[i].last =< rows[i + 1].last

(* Mutant: the oldest ship ends up in front.                               *)
LoadShips_OldestFirst(rows) ==
  IF Chronological(rows)
  THEN /\ order' = [i \in DOMAIN rows |-> rows[i].mmsi]
       /\ slot' \in {f \in [ToSet(order') -> Slot] : IsInjective(f)}
       /\ ships' = [s \in Slot |->
                      LET is == {i \in DOMAIN rows : slot'[rows[i].mmsi] = s}
                      IN  IF is = {} THEN 0 ELSE rows[CHOOSE i \in is : TRUE].last]
  ELSE Fresh

(* DB::Load(): every ship gets a record again, or none does when one is    *)
(* older than the ship before it.                                          *)
LoadShips(rows) ==
  IF Chronological(rows)
  THEN /\ order' = Reverse([i \in DOMAIN rows |-> rows[i].mmsi])
       /\ slot' \in {f \in [ToSet(order') -> Slot] : IsInjective(f)}
       /\ ships' = [s \in Slot |->
                      LET is == {i \in DOMAIN rows : slot'[rows[i].mmsi] = s}
                      IN  IF is = {} THEN 0 ELSE rows[CHOOSE i \in is : TRUE].last]
  ELSE Fresh

(* The process dies -- with whatever its threads had in hand -- and is     *)
(* started again: setup(), then load().                                    *)
Restart ==
  /\ IF backup = None
       THEN Fresh /\ history' = Cleared(clock)
       ELSE /\ LoadShips(backup.rows)
            /\ history' = backup.ring
  /\ paths' = [s \in Slot |-> None]
  /\ evict_horizon' = 0
  /\ rx' = [r \in Receiver |-> None]
  /\ saving' = None
  /\ seen' = [m \in Mmsi |-> 0] /\ overwritten' = {}
  /\ UNCHANGED <<clock, messages, backup>>

Next ==
  \/ \E r \in Receiver : Stamp(r) \/ DBReceive(r) \/ HistoryReceive(r)
  \/ Tick
  \/ SaveHistory \/ SaveShips \/ SaveFails
  \/ Restart

Spec == Init /\ [][Next]_vars

-----------------------------------------------------------------------------
(* Queries, under the database's mutex.                                    *)

(* forEachRecent(): from the newest on, until one is older than the cutoff.*)
Recent(cutoff) ==
  {m \in Table!Live :
     \A i \in DOMAIN order :
       i =< (CHOOSE j \in DOMAIN order : order[j] = m) => ships[slot[order[i]]] >= cutoff}

(* getReplayObjectJSON() without a lookback; since is clamped to the       *)
(* horizon.                                                                *)
Replay(since) ==
  LET from == IF since > evict_horizon THEN since ELSE evict_horizon
  IN  {m \in Recent(from) : paths[slot[m]] # None /\ paths[slot[m]].end >= from}

-----------------------------------------------------------------------------
(* Properties.                                                             *)

(* Stopping at the first ship that is too old loses only ships within the  *)
(* messages' lag of the cutoff, although receivers overtake each other and *)
(* the table is ordered by processing, not by time.                        *)
RecentComplete ==
  \A cutoff \in Time : \A m \in Table!Live :
    ships[slot[m]] >= cutoff + MaxLag => m \in Recent(cutoff)

(* No vessel is missing from a scene that is served but those whose track  *)
(* other ships' points have overwritten (PathStore.h:273, which does not   *)
(* move the horizon): a ship that reported a position later than the start *)
(* of the window, by more than the lag, is in the answer, or its record    *)
(* was recycled and the horizon is past it.                                *)
ReplayComplete ==
  \A since \in evict_horizon .. MaxTime : \A m \in Mmsi :
    seen[m] > since + MaxLag /\ m \notin overwritten => m \in Replay(since)

(* The horizon stands for every vessel that a scene misses (DB.h:71).      *)
SceneComplete ==
  \A since \in evict_horizon .. MaxTime : \A m \in Mmsi :
    seen[m] > since + MaxLag => m \in Replay(since)

(* A slot's track belongs to the ship that has the slot.                   *)
TrackOwned ==
  \A m \in Table!Live : paths[slot[m]] # None => paths[slot[m]].owner = m

(* From start to end the ring's intervals are in order and none is there   *)
(* twice, whatever overtakes and whatever is restored.                     *)
RingOrdered ==
  \A k \in 1 .. ((history.end - history.start + N) % N) :
    history.time[(history.start + k - 1) % N] < history.time[(history.start + k) % N]

(* ReceiverTracker.cpp:94 puts a refused backup down to a "format change": *)
(* a file the same program wrote is accepted.                              *)
BackupAccepted == backup # None => Chronological(backup.rows)

=============================================================================
