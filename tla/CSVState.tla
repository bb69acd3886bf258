----------------------------- MODULE CSVState -----------------------------
(***************************************************************************)
(* The table of targets of the CSV database output (DBMS/CSV.cpp): rows in *)
(* memory, a clean file, and a journal of the rows changed since.  The     *)
(* journal is appended to from time to time; a compaction writes the clean *)
(* file anew and removes the journal.  All of it happens on one thread,    *)
(* but the process may be killed between any two writes, and a write may   *)
(* fail.                                                                   *)
(*                                                                         *)
(* A row is the number of the last message merged into it, which stands    *)
(* for all its columns.  Keys are listed where the code lists slots: a key *)
(* that takes over the slot of an evicted one takes over its entries.      *)
(* When to drain and when to compact depends on the clock and on sizes,    *)
(* and is left open.                                                       *)
(***************************************************************************)
EXTENDS Integers, Sequences, SequencesExt

CONSTANTS Key,            \* the targets' numbers
          Capacity,       \* rows of the table
          MaxMerged,      \* bound: messages merged
          MaxStarts,      \* bound: starts of the process
          DiskMayFail     \* whether writes may fail

ASSUME CsvSizes ==
    /\ Capacity \in Nat \ {0} /\ MaxMerged \in Nat /\ MaxStarts \in Nat
    /\ DiskMayFail \in BOOLEAN

VARIABLES
    order,        \* keys in the table, the one heard last first
    rows,         \* [key -> number of its last message]
    dirty,        \* keys whose row changed since it was last written
    dirty_slots,  \* the keys of the slots to be drained, in the order listed
    bytes,        \* state_log.bytes > 0: a compaction has something to fold in
    main,         \* the lines of the clean file
    journal,      \* the journal: whether there is one, its lines
    phase,        \* "off", "loaded" (connectDB has returned) or "on"
    exit,         \* how the last run ended: "clean" or "killed"
    messages, starts,
    damaged       \* history: a write failed and its rows count as written

targets == <<order, rows, dirty, dirty_slots>>
files == <<main, journal>>
csv_vars == <<targets, bytes, files, phase, exit, messages, starts, damaged>>

Line == [key : Key, row : Nat]

NoFile == [exists |-> FALSE, lines |-> <<>>]

Live == ToSet(order)

Lines(keys) == [i \in DOMAIN keys |-> [key |-> keys[i], row |-> rows[keys[i]]]]

Appended(lines) == [exists |-> TRUE, lines |-> journal.lines \o lines]

CsvInit ==
    /\ order = <<>> /\ rows = [k \in Key |-> 0]
    /\ dirty = {} /\ dirty_slots = <<>>
    /\ bytes = FALSE
    /\ main = <<>> /\ journal = NoFile
    /\ phase = "off" /\ exit = "clean"
    /\ messages = 0 /\ starts = 0
    /\ damaged = FALSE

-----------------------------------------------------------------------------
(* A key that is used comes to the front; a full table loses its last one  *)
(* to a new key.                                                           *)

Touched(keys, k) ==
    <<k>> \o (IF k \in ToSet(keys) THEN RemoveFirst(keys, k)
              ELSE IF Len(keys) >= Capacity THEN Front(keys) ELSE keys)

\* The key whose slot the new key k takes over.
Evicted(k) == Live \ ToSet(Touched(order, k))

mergeState(k) ==
    /\ phase = "on" /\ messages < MaxMerged
    /\ messages' = messages + 1
    /\ order' = Touched(order, k)
    /\ rows' = [j \in Key |-> IF j = k THEN messages' ELSE IF j \in Evicted(k) THEN 0 ELSE rows[j]]
    /\ LET inherited == [i \in DOMAIN dirty_slots |->
                           IF dirty_slots[i] \in Evicted(k) THEN k ELSE dirty_slots[i]]
       IN  dirty_slots' = IF k \in dirty THEN inherited ELSE Append(inherited, k)
    /\ dirty' = (dirty \ Evicted(k)) \cup {k}
    /\ UNCHANGED <<bytes, files, phase, exit, starts, damaged>>

\* The listed rows, each where it is listed first: the second time the row is
\* not dirty any more.
Pending ==
    LET keys[n \in 0 .. Len(dirty_slots)] ==
          IF n = 0 THEN <<>>
          ELSE IF dirty_slots[n] \in dirty \ ToSet(keys[n - 1])
               THEN Append(keys[n - 1], dirty_slots[n])
          ELSE keys[n - 1]
    IN  keys[Len(dirty_slots)]

(* Mutant: the marks of the rows are left.                                 *)
NothingDirty_MarksStay == dirty_slots' = <<>> /\ UNCHANGED <<order, rows, dirty>>

NothingDirty == dirty' = {} /\ dirty_slots' = <<>> /\ UNCHANGED <<order, rows>>

\* flushed(): one line per changed row.
Drain ==
    /\ phase = "on" /\ dirty_slots # <<>>
    /\ journal' = Appended(Lines(Pending))
    /\ bytes' = TRUE
    /\ NothingDirty
    /\ UNCHANGED <<main, phase, exit, messages, starts, damaged>>

\* A failed append is not noticed by flushed(); if not even the file could be
\* opened, the journal does not count as written to.
DrainFails ==
    /\ DiskMayFail
    /\ phase = "on" /\ dirty_slots # <<>>
    /\ \/ UNCHANGED <<journal, bytes>>
       \/ /\ \E written \in Prefixes(Lines(Pending)) : journal' = Appended(written)
          /\ bytes' = TRUE
    /\ NothingDirty
    /\ damaged' = TRUE
    /\ UNCHANGED <<main, phase, exit, messages, starts>>

(* Mutant: newest first, as forEach() visits them.                         *)
Snapshot_NewestFirst == Lines(order)

\* compactState(): oldest first, so that loading restores the order.
Snapshot == Lines(Reverse(order))

NothingToFold == ~bytes /\ dirty_slots = <<>>

(* Mutant: the journal is not removed.                                     *)
Folded_KeepsJournal(saved) ==
    /\ main' = IF saved THEN Snapshot ELSE main
    /\ UNCHANGED journal
    /\ bytes' = FALSE
    /\ NothingDirty
    /\ damaged' = ~saved

Folded(saved) ==
    /\ main' = IF saved THEN Snapshot ELSE main
    /\ journal' = NoFile
    /\ bytes' = FALSE
    /\ NothingDirty
    /\ damaged' = ~saved

compactState ==
    \/ NothingToFold /\ UNCHANGED <<targets, bytes, files, damaged>>
    \/ ~NothingToFold /\ \E saved \in {TRUE, ~DiskMayFail} : Folded(saved)

\* The safety valve in flushed(), and the change of the day.
Compact ==
    /\ phase = "on" /\ ~NothingToFold
    /\ compactState
    /\ UNCHANGED <<phase, exit, messages, starts>>

-----------------------------------------------------------------------------
(* A start loads the clean file, then the journal, into an empty table,    *)
(* and compacts.                                                           *)

LastRow(lines, k) ==
    LET last == SelectLastInSeq(lines, LAMBDA l : l.key = k)
    IN  IF last = 0 THEN 0 ELSE lines[last].row

OnDisk == main \o journal.lines

LoadedOrder(lines) ==
    LET keys[n \in 0 .. Len(lines)] ==
          IF n = 0 THEN <<>> ELSE Touched(keys[n - 1], lines[n].key)
    IN  keys[Len(lines)]

connectDB ==
    /\ phase = "off" /\ starts < MaxStarts
    /\ starts' = starts + 1
    /\ phase' = "loaded"
    /\ order' = LoadedOrder(OnDisk)
    /\ rows' = [k \in Key |-> IF k \in ToSet(order') THEN LastRow(OnDisk, k) ELSE 0]
    /\ dirty' = {} /\ dirty_slots' = <<>>
    /\ bytes' = journal.exists
    /\ damaged' = FALSE
    /\ UNCHANGED <<files, exit, messages>>

\* maintain() in tryConnect().
MaintainAtStart ==
    /\ phase = "loaded"
    /\ compactState
    /\ phase' = "on"
    /\ UNCHANGED <<exit, messages, starts>>

\* ~CSV(): stopWorker() and maintain().
Close ==
    /\ phase = "on"
    /\ compactState
    /\ phase' = "off" /\ exit' = "clean"
    /\ UNCHANGED <<messages, starts>>

Killed == phase # "off" /\ phase' = "off" /\ exit' = "killed"

Kill == Killed /\ UNCHANGED <<targets, bytes, files, messages, starts, damaged>>

\* ... with some of the lines of a drain on the disk
KillInDrain ==
    /\ Killed /\ phase = "on" /\ dirty_slots # <<>>
    /\ \E written \in Prefixes(Lines(Pending)) : journal' = Appended(written)
    /\ UNCHANGED <<targets, bytes, main, messages, starts, damaged>>

\* ... after the snapshot was renamed, before the journal was removed
KillInCompact ==
    /\ Killed /\ ~NothingToFold
    /\ main' = Snapshot
    /\ UNCHANGED <<targets, bytes, journal, messages, starts, damaged>>

CsvNext ==
    \/ \E k \in Key : mergeState(k)
    \/ Drain \/ DrainFails \/ Compact
    \/ connectDB \/ MaintainAtStart \/ Close
    \/ Kill \/ KillInDrain \/ KillInCompact

CsvSpec == CsvInit /\ [][CsvNext]_csv_vars

-----------------------------------------------------------------------------
\* The table is bounded and has no key twice; exactly the slots of dirty rows
\* wait for a drain (mergeState, when it takes over a slot that waits).
CsvTypeOK ==
    /\ order \in Seq(Key) /\ Len(order) <= Capacity /\ IsInjective(order)
    /\ rows \in [Key -> Nat]
    /\ dirty \subseteq Live
    /\ dirty_slots \in Seq(Key) /\ ToSet(dirty_slots) = dirty
    /\ main \in Seq(Line) /\ journal \in [exists : BOOLEAN, lines : Seq(Line)]
    /\ bytes \in BOOLEAN /\ damaged \in BOOLEAN
    /\ phase \in {"off", "loaded", "on"} /\ exit \in {"clean", "killed"}
    /\ messages \in Nat /\ starts \in Nat

\* Whatever moment the process is killed at, a row that is not waiting to be
\* written is read back as it was, unless a write failed: the last line of the
\* target in the two files is its row (Drain, compactState, loadStateFile).
CleanOnDisk ==
    ~damaged => \A k \in Live \ dirty : LastRow(OnDisk, k) = rows[k]

\* After an orderly exit the next start finds every row, and the targets in
\* the order in which they were heard (maintain() in ~CSV, loadStateFile).
RestartExact ==
    [][connectDB /\ exit = "clean" /\ ~damaged
         => order' = order /\ \A k \in Live : rows'[k] = rows[k]]_csv_vars

\* "The LRU is in last-heard order" (CSV.cpp:515), on which the hourly count
\* of vessels relies; "upsert restores LRU order" (CSV.cpp:173).
LastHeardOrder ==
    \A i, j \in DOMAIN order : i < j => rows[order[i]] >= rows[order[j]]
=============================================================================
