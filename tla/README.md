# AIS-catcher in TLA+

TLA+ specifications of the parts of AIS-catcher whose correctness depends on
the order of events: threads that share flags, buffers that fill up, tables
that recycle their records, files that outlive the process. Every definition is
translated from the C++ under `src/Source`; `PROJECT.json` maps each one to the
lines it stands for. TLC checks small instances, and the TLA+ proof system
checks theorems for every value of the constants.

    tlc  -workers 2 -config ManagedMain.cfg MCManagedMain     # one run
    tlapm EngineProofs.tla                                    # a module's proofs

## 1. The system

A *receiver* takes samples from a device, demodulates and decodes them, and
hands messages down a chain of synchronous calls (`Library/Stream.h`) to
outputs and to the *tracker* behind the web viewer. An *engine* is a set of
receivers with their outputs. In command-line mode the process runs one engine;
in *managed mode* (`-E`) a control server lets an operator start, stop,
reconfigure and restart engines while the web viewer lives on.

| component | state | operations | who shares it |
|---|---|---|---|
| **Managed mode** `Control/ManagedMain`, `ControlCore`, `ControlServer`; `Application/Engine`, `Main` | desired and reported engine state, retry delay, command sequence, dirty flag, `engine_busy`, `stop`, `stop_process`, the file | start, stop, restart, save, scan; engine set-up, run, detach, failure, retry | loop thread, control HTTP thread, signal handler, device threads |
| **Sample FIFO** `Library/FIFO.h`, `Device/FileRAW` | ring of blocks, count of filled blocks, end of input | push, wait, front, pop, halt | reader, decoder and engine thread |
| **Slot table** `Tracking/SlotTable.h` | LRU list and hash chains threaded through fixed slots | setup, find, create, touch, forEach | under the owner's lock |
| **Path store** `Tracking/PathStore.h` | blocks of points in three tiers, one list per ship | add, wipe, compaction, eviction | under the database's lock |
| **Ship database** `Tracking/DB`, `Ships` | slot table of ships, path store, eviction horizon | receive, sweep, listings, replay, save, load | receivers' threads, HTTP threads, backup thread |
| **Histories** `Tracking/History.h`, `Statistics.h`, `StaticHistory.h` | rings of counts per second, minute, hour, day; changes of static data | receive, save, load, poll | the same, each under its own lock |
| **Backup** `Web/BackupManager` | the backup file and its `.tmp` | periodic save, save at exit, load | its own thread, the loop thread |
| **Decoders** `Marine/AIS`, `NMEA`, `N2K`, `Message`; `Aviation/*` | bit state machine; queues of sentences that wait for their other parts | one bit, one sentence, one frame | one receiver's thread each |
| **Database output** `DBMS/*` | a queue of messages, statistics per hour, connection state; for CSV a table of targets with a clean file and a journal | receive, write by a worker thread, requeue, flush at the end; drain, compact, recover | receivers, worker thread |
| **Servers** `IO/TCPServer`, `HTTPServer`, `SocketUtil` | connection slots with buffers, a command queue with a wake handle, subscribers of event streams | accept, read, write, time-out, subscribe, post | server thread, posting threads |
| **Network clients** `IO/Protocol`, `Network`, `HTTPClient`, `MsgOut` | connection state of TCP, TLS, MQTT and WebSocket layers; posts not yet sent | connect, send, reconnect, post | receivers, worker threads |
| **Devices** `Device/*` | connection, streaming flag, a FIFO | open, play, stop, close | reader and decoder threads |
| **Configuration** `Application/Config`, `CommandLine`, `DeviceManager`, `Receiver` | settings, claimed devices | read, apply | one thread at a time |
| **Signal processing** `DSP/*`, `Decoder/V2` | filter and demodulator states | one block of samples | one thread |
| **Library** `Library/Logger`, `JSON/*`, `Utilities/*` | the logger's buffer and listeners; parser state | log, subscribe; conversions | every thread |

How the components meet:

* device thread -> FIFO -> decoder thread -> decoder -> outputs and tracker:
  direct calls on the decoder thread from the FIFO on;
* several receivers call the *same* tracker and outputs, each from its own
  thread: the locks in there are the only order between them;
* a message is stamped with the clock by its receiver *before* it gets any
  lock, and passes through `DB::Receive` and then `History::Receive`, each under
  a lock of its own;
* the engine loop polls flags (`stop`, `isActive()`); anyone may call
  `StopRequest()`, and the signal handler sets two flags one after the other;
* the viewer outlives the engines and holds references into the one it is
  attached to; `detach()` has to remove them on every way out of a run;
* the control server's thread changes `ControlCore` under `mtx` and, outside of
  it, writes the file and requests stops.

What is hard, and what would make each part correct:

* *managed mode*: an operator's request, a signal, the end of a device and a
  retry all meet in one flag that the loop both clears and writes. No request
  may be lost, no engine may run that nobody wants, scans must not touch a
  device in use, the viewer must not keep references into a dead engine, a
  saved configuration must reach it, and what is requested must happen.
* *FIFO*: bytes arrive complete, in order and not overwritten while the decoder
  holds them; stopping never hangs; the end of the input is seen after the data.
* *slot table, path store*: intrusive lists in fixed memory; every slot and
  point on the lists it should be on, through every recycling, and towards the
  user nothing but a bounded map, and per-ship tracks.
* *tracker*: the order of processing is not the order of the times; listings,
  replays, rings and backups must cope. A recycled record leaks nothing.
* *decoders*: bits and sentences lost, repeated and interleaved; what was sent
  undisturbed goes out once and as it was, and nothing is stored out of bounds.
* *outputs and servers*: peers that are slow, vanish, or come back; bounded
  buffers; nothing sent twice, dropped silently or blocked for ever.

`PROJECT.json` lists every component with what is and is not modelled, and
under `hazards` the places in the code where these things can go wrong.

## 2. Modules

| module | models | state in the code |
|---|---|---|
| `ControlCore` | the critical sections of `ControlCore` as operators on a record | the fields under `mtx` |
| `ManagedMain` | the loop of `Managed::serve` with one engine session, `ControlServer`'s dispatch, `consoleHandler`, device threads | `loop`, `op` and `handler` are program counters; the other variables carry the source's names |
| `SampleFIFO` | `FIFO`, with `RAWFile`'s reader and decoder threads on a pipe and the engine that stops them | `head`, `tail`, `blocks_filled`, `last_input`, `_data`, `streaming`, `eoi`, `done` |
| `LRUMap` | *abstract*: a bounded map that forgets the key used longest ago | |
| `SlotTable` | `SlotTable<T>` with its two kinds of threaded lists | `first`, `last`, buckets, `prev`, `next`, `h_prev`, `h_next` |
| `Tracks` | *abstract*: per-ship sequences of points that are extended, appended to, thinned or wiped | |
| `PathStore` | `PathStore` with tiers, compaction, eviction | `pts`, `blocks`, `anchors`, lists |
| `ReceiverTracker` | `DB::Receive` and `claimShip`, one `History` ring, save, crash, load, listings and replay; receivers as threads | `order` and `slot` are an `LRUMap`; `ships`, `paths`, `evict_horizon`, `history`, the backup file |
| `EventStream` | the control server's log stream: `Logger`, `TCPServer::post` and `Run`, `Wakeup`, `HTTPServer`'s subscribers | `cmds`, `pending`, `pipe`, `topics`, `scratch`, connection slots with their generation, `sse` |
| `Reassembly` | *abstract*: what putting sentences together promises under loss, repetition and interleaving | |
| `NMEAAssembly` | `NMEA::assembleAIS`, `search`, `clean`, the JSON array and the line as their callers | `queue`, `tag_error`, `cfg_crc_check` |
| `AISDecoder` | `AIS::Decoder`, one channel, with a transmitter that sends frames, noise, and fades | `state`, `position`, `one_seq_count`, `prev`, `lastBit`, the bits of `msg` |
| `DatabaseOutput` | the message log and hourly statistics: receivers, worker thread, database | `message_queue`, `stats_current`, `stats_pending`, `conn_fails`, `terminate`, the two tables |
| `CSVState` | the CSV backend's table of targets: `mergeState`, drain, compaction, recovery | the LRU order, `dirty`, `dirty_slots`, clean file, journal |
| `EngineProofs` (of `ManagedMain` and `SampleFIFO`), `NMEAAssemblyProofs`, `AISDecoderProofs`, `DatabaseProofs` (of `DatabaseOutput` and `CSVState`), `ReceiverTrackerProofs`, `EventStreamProofs`, `SlotTableProofs`, `PathStoreProofs` | theorems about the modules they extend | |
| `MC...` | instances for TLC | |

**Composition.** `ManagedMain` runs `ControlCore`'s critical sections from two
threads. `ReceiverTracker` builds the tracker from the abstract `LRUMap` (which
`SlotTable` is shown to implement) and reduces a track to the owner and end of
its newest point, all that eligibility for a replay looks at. That the path
store may lose that point is shown in `PathStore`; here any report with a
position may cost any ships their tracks (`MadeRoom`), and `overwritten`
remembers whose.
`EventStream` composes the logger, the command queue, the wake handle and the
HTTP server, each of which is correct or not only together with the others.

**Granularity.** An action is one critical section, one access to a shared
atomic, one write to a file or socket, or a stretch of code no other thread can
observe. So `stop = stop || !isActive()` is two actions (`MainLoop`,
`StoreActive`), `consoleHandler` is two, `restartEngine()` four,
`Wakeup::notify()` and `drain()` two each, while a call of `PathStore::add`,
always under `DB::mtx`, is one, and so is one sentence for `NMEAAssembly` and
one sample for `AISDecoder`, which each belong to one thread. A process can be
killed between any two writes of a drain or a compaction of `CSVState`.

**Data.** A configuration is the number of its version; a byte is its position
in the input; a message of the log stream or the database is the number under
which it was stored; a message of the tracker is its time, ship and whether it
has a position; a ship is its last signal; a row of the CSV table is the number
of the last message merged into it. A point keeps its time and duration, and
whether a report is `significant()`, which depends on coordinates, is left open.
Ages of sentences saturate where no test distinguishes them any more. A payload
of `AISDecoder` is a short sequence of bits, its check bits an operator of which
only the width matters; `cannotBeValid()` becomes a longest length per type.

**Abstracted nondeterminism.** A persisted field may fail to be written, each
step of starting an engine may throw, reading a configuration may throw before
or after it is applied, an engine may have run long enough to be healthy or
not, a device may end at any time, a timed wait may time out at any time, a
peer may come, ask, leave or fall silent at any time, a database may go and
come back between any two statements and refuse a row, a commit may be done
though its answer is lost, a write to disk may fail.

## 3. What is checked

| run | instance | what it shows |
|---|---|---|
| `managed` | two engine commands, one saved configuration, any number of scans, one signal, delays 5 and 10 | the operator's stop is not lost (`StopNotLost`), the delay after an unexpected stop is respected, scans and sessions exclude each other, the viewer is detached whenever it serves without an engine and never works with an old configuration unnoticed; stops, starts and termination signals are honoured eventually (`StopHonoured`, `StartServed`, `ShutdownServed`) |
| `fifo` | three blocks of two bytes, pushes of one to three bytes, eleven bytes; lossless or not, text or not | what the decoder holds is intact, everything is drained before the end is reported, a halted FIFO stays halted, no thread is stuck |
| `slots` | four slots, two buckets, five keys | `validate()` would find nothing, and the table implements `LRUMap` |
| `paths` | two ships, three blocks of two points, times 0 and 1, one ship reporting late | `check()` would find nothing, and the store implements `Tracks` |
| `tracker` | two receivers, three ships, two records, seconds 1 to 3, four messages up to one second on their way, saves and restarts at any time | listings lose nothing but the lag, a replay misses no ship but those the horizon owns up to or whose track others overwrote, no ship inherits a track, the ring stays in order |
| `events` | one logging thread and `close()`, two slots, two messages, two connections | every subscriber gets every message, up to the gap described below; nobody gets what was meant for an earlier peer of the slot; streams outlive the idle sweep; a lost wake delays but does not stop; dead subscribers are reaped |
| `nmea` | five messages of two and three sentences, two of them in one group and of one key; numbers up to three, whatever the count; arrays that mix any of them; a queue of three, one second | what goes out is a gapless run of one key, used once; an undisturbed message does go out; flagged as damaged if one of its own sentences was, and not for another line's |
| `decoder` | payloads of two to six bits of two types, two check bits, at most 15 bits stored, six bits of noise in a row, frames fading at any bit | a frame that begins while the decoder looks for training is delivered once, unchanged, and leaves it ready; nothing is stored out of bounds |
| `csv` | three targets, two rows, six messages, three starts, writes that fail, kills | what does not wait is on disk; an orderly exit loses neither a row nor the order |
| `database` | two receivers, a queue of three, two hours, four messages, a database that goes and comes | each message is written at most once and in order, an overflow costs the oldest only, rows of the statistics are exact, a queue drains once the database is back |
| `tracker_backup_refused`, `database_retry_spins` | as above | section 4 |

**Why the bounds are enough.** *managed*: a command can meet one that is being
carried out and one that follows it; one saved configuration gives an old and a
new file; the delay can be nothing, the first, and the doubled one at its
limit. Sessions are not bounded: the loop may start, fail and retry for ever.
*fifo*: six bytes of capacity and pushes that are not multiples of the block
make the tail wrap unaligned, fill the FIFO with a partial block, and leave a
partial block at the end. *slots*: chains get up to three long, a recycled slot
is at the head, in the middle and at the tail of its chain, and the last slot of
the table is claimed and recycled. *paths*: three blocks are one per tier and
one to recycle; pressure on RT with and without history, and a compaction that
overwrites the block it links to, all occur. *tracker*: with fewer records than
ships every claim of a third ship evicts, the ring of two intervals wraps in
three seconds, and four messages are enough for two receivers to overtake each
other before and after a restart. *events*: two slots and two connections give a
slot that is reused while frames for its earlier peer are queued, and two
subscribers at a time; two messages fall before, into and after a subscription.
The loop of the server and the ping are not bounded. *nmea*: a queue of three
(64) evicts parts of a message of three, a second (3 s) tells fresh from late;
sentences arrive without bound, and a group of which one message has more
sentences than the other gives numbers above a count. *decoder*: six bits of noise put the decoder
into any state of training and into the start flag; a frame that fades puts it
anywhere in the data; the payloads need stuffing inside, across the check bits
and right before the closing flag, and one type has its longest length.
*csv*: a third target evicts, a slot is reused while it waits, and a second and
third start recover from what a kill left. *database*: the queue is full with
the batch in the worker's hands, half full and a quarter full differ, and the
second hour opens with messages of the first on their way.

Named bounds are constants of the modules: `MaxCommands`, `MaxSaves`,
`MaxBytes`, `MaxTime`, `Late`, `MaxLag`, `MaxMessages`, `MaxLogs`,
`MaxAccepts`, `MaxStarts`, `MaxHour`, `MaxNoise`. `Half` and `Quarter` are
`MAX_QUEUE_SIZE / 2` and `/ 4`, constants so that both are above zero for a
queue of three.

**Deadlock** is checked in the slot, path, tracker, NMEA and decoder runs, where
something can always happen. Managed mode, the FIFO, the server and the worker
end, and the CSV table runs out of messages and starts, so theirs switch it off;
that they end, and not stop short, is what the liveness properties say.

**Refinement.** `SlotTable` refines `LRUMap` with `order` what `forEach()`
visits and `slot` what `find()` returns, so the check goes through the
program's own readers. `PathStore` refines `Tracks` by walking each ship's list
from its oldest point to its newest. `NMEAAssembly` refines
`Reassembly`: what is held of a key is what the queue has of it from a first
part on.

**Fairness.** *ManagedMain*: weak fairness of the loop thread, of a request
that has begun (the control server has one thread that does nothing else), and
of the second half of the signal handler; strong fairness where the loop takes
`scan_mtx`, since scans come one per request with the mutex free in between.
The operator, the devices and the first half of the handler owe nothing.
*SampleFIFO*: weak fairness of the three threads; the pipe owes no data, but
`poll()` returns every 250 ms, so a reader told to stop does; the engine looks
at `isActive()` in every round of its loop, so a device that is done is stopped.
The condition variable with a timeout (`cv_ready`, `waitForCommand`) may wake
at any time; the one without (`cv_has_space`) wakes only when it is notified,
and that notification is modelled. *EventStream*: weak fairness of the server
thread, of the one-second timeout of `poll()`, of a `notify()` that has begun
and of `join()`; strong fairness of the ping, which is due every twenty seconds
but only looked at after a round. Nobody owes a log message, a connection or a
`close()`. *DatabaseOutput*: weak fairness of the worker; the receivers, the
operator and the database owe nothing, so `Drained` presupposes a database that
stays back. The other modules state safety only.

Each property of a passing run has a mutant in `PROJECT.json`: a change of the
model that a slip in the code would be, under which the property fails. They
stand beside the definition they replace. The type invariants of `EventStream`,
`NMEAAssembly`, `ReceiverTracker`, `DatabaseOutput` and `AISDecoder` are not
part of the runs; they hold there, and are written down for proofs.

## 4. What the code does otherwise than it says

Two runs are expected to end with a violation; each shows a disagreement
between the code and a comment or message of the program.

* `tracker_backup_refused`. The database saves its ships in the order of
  processing and loads them only in the order of their times. Two receivers
  that overtake each other over the change of a second are enough for a backup
  that the same program refuses; the log blames a "format change".
* `database_retry_spins`. The wait between two attempts ends at once when the
  queue is half full, which a missing database cannot change; "retries back off
  to 5 min" no longer holds from then on.

Six more statements stand in the modules as definitions no run lists, because
TLC refutes them; add one to the module's configuration to see the trace.

* `ManagedMain!ShutdownEndsRun` (`Engine.h:37`). `ManagedMain.cpp:141` clears
  `stop` after `stop_process` was tested; a signal in between leaves a new
  engine running. `Engine.cpp:229` reads `stop`, polls the devices and stores
  the result over a request that came meanwhile. `StopNotLost` says that a stop
  survives the first, and excepts the second, which the history variable
  `erased` records. Of a termination signal, which nothing looks at a second
  time, `ShutdownServed` says what remains: one that finds a run anywhere but
  between that look and that store ends it, and one that finds the loop between
  two runs, before its test of `stop_process`, ends the process without another.
* `PathStore!NewestSurvives` (`PathStore.h:237`). "A ship's newest point always
  survives" a compaction, but not the first one under pressure when there is no
  history and no free block: `moveToHistory()` has nowhere to put it. History is
  overwritten whole blocks at a time, a ship's newest point with the rest.
* `ReceiverTracker!SceneComplete` (`DB.h:71`). Only the recycling of a record
  moves the eviction horizon; a track overwritten under pressure
  (`PathStore.h:273`) does not, so a replay may miss a vessel without owning up
  to it. `ReplayComplete` excepts these vessels, and says that nothing else is
  missing.
* `EventStream!WakeNotLost` (`SocketUtil.h:279`). `drain()` resets `pending`
  before it empties the pipe, so it can read away the byte of a `notify()` in
  between and leave `pending` set; from then on no `notify()` writes a byte, and
  each command waits for the timeout of `poll()`. `LostWakeHarmless` says that
  this is all that happens.
* `EventStream!BacklogGapless` (`HTTPServer.h`, comment on `upgradeSSE`). A
  message stored after the copy of the log buffer whose thread reads the topics
  before they are published is in neither the backlog nor the queue.
  `StreamComplete` excepts exactly these, recorded in `passed_by`.
* `CSVState!LastHeardOrder` (`CSV.cpp:515`, `:173`). The journal is written in
  the order in which rows became dirty, which recovery takes for the order in
  which they were heard; after a kill the table's order, on which eviction and
  the hourly count of vessels rely, may differ. `RestartExact` holds, since an
  orderly exit compacts.

Smaller exceptions, each written into a property:

* A restart given while an engine starts, after it read its configuration and
  before it reports to be running, changes nothing; `StopHonoured` speaks of
  running engines.
* `Front()` reads `blocks_filled` without the lock; `Halt()` after a successful
  `Wait()` leaves it at -1 and the decoder sends a block of negative size.
  `HaltIsFinal` shows that its pop does no harm. A `Wait()` that timed out just
  before the last bytes arrived can end the device with a block left
  (`ended_wait` in `EndDrained`).
* A failed snapshot of the CSV table still removes the journal and clears
  `dirty`, and a failed append counts as written (`damaged`). A kill between
  the rename of a snapshot and the removal of the journal lets older lines win
  over newer ones for rows that are dirty again.
* An hour of the statistics can have two buckets, of which the later row
  replaces the other: when a message of the hour before arrives after the change
  (two receivers), when a copy of the open bucket is put back behind the
  complete one, or when connecting sets the hour outside the lock. `StatsExact`
  excepts these hours (`spoiled`).
* A batch whose transaction cannot be begun is gone, and what is queued after
  the last flush of a terminating worker is not written (`trouble`,
  `At("ended")`).
* Of two interleaved messages of one talker and channel the one that would be
  complete later is lost: completing the other erases what waits of every other
  id. `UndisturbedSent` presupposes that none is interleaved.
* The error flag is not cleared between the sentences of one JSON array, so a
  damaged sentence also flags a message that is completed later in its array
  (`NMEA.cpp:111`, `:627`). `ErrorExact` allows this (`tainted`) and no other
  leak.
* A frame that begins while the decoder is not looking for training may be lost,
  and its closing flag may be taken for the opening one of the next:
  `FrameReceived` is about frames that begin in `TRAINING`, and says that the
  decoder is back there at their last bit. Sixteen right check bits without any
  payload count as a message; `validate()` refuses it afterwards.

## 5. What is proved

`EngineProofs` proves, for all retry delays with
`0 < RETRY_DELAY_FIRST <= RETRY_DELAY_MAX` and any number of commands and saves,
the safety invariants of `ManagedMain`:

| theorem | property |
|---|---|
| `TypeCorrect` | `TypeOK`; with it, the retry delay never exceeds its maximum |
| `StopIsNotLost` | `StopNotLost` |
| `SignalReachesRun` | `SignalStands`: a termination signal that finds a run stands until the run is over, the safety half of `ShutdownServed` |
| `ScanExcluded` | `NoScanDuringSession` |
| `ViewerIsDetached` | `ViewerDetached` |
| `ViewerConfigIsFresh` | `ViewerConfigFresh` |
| `BackoffIsRespected` | `BackoffRespected` |

Assumptions: `RetryDelays` and `Bounds`, both evaluated by TLC.

The argument is one inductive invariant, `IInv`, at the end of `ManagedMain`.
Most properties are not inductive as they stand:

* `SignalStands` begins one step before a run, after the flag was cleared for it,
  and follows the signal through every way out of the run to the next look at
  `stop_process`, so that neither the store of `Engine.cpp:229` nor the next
  reset comes in between.
* `NoScanDuringSession` holds because of the bracket around the device:
  `SessionBracketed` ties `engine_busy` to the loop's position, places the
  device strictly inside, and says a scan has seen the flag clear under the lock.
* `ViewerDetached` needs that `detach()` reaches the viewer, which it does only
  through the engine's own link: `DetachReachesViewer`.
* `ViewerConfigFresh` speaks of a serving viewer; a stopped one starts to serve
  with what it has: `ChangeFlagged`.
* `BackoffRespected` needs where an owed delay is on its way from the end of
  the run to the wait, and that a command that cuts the wait short has been
  counted: `DelayOwed`.

Each conjunct has its own lemma (`TypeStep`, `StopNotLostStep`, ...), split by
the actions that can disturb it; `CoreTyped`, `DesiredAfter` and
`UnexpectedStopOwesDelay` state what the critical sections of `ControlCore`
do, so that no proof of a step expands them. `StopNotLost` is inductive given
`TypeOK`.

In its second half `EngineProofs` proves of `SampleFIFO`, for every block size,
number of blocks, push size and length of the input with which a push fits into
an empty FIFO (`FIFOSizes`):

| theorem | property |
|---|---|
| `FifoTypeCorrect` | `FifoTypeOK`: the count of filled blocks stays in -1 to `N_BLOCKS`, head and tail stay in the ring |
| `HaltStaysFinal` | `HaltIsFinal` |
| `HeldStaysIntact` | `HeldIntact` |
| `EndIsDrained` | `EndDrained` |

`FifoTypeOK` is inductive. The step that matters is `StoreFits`: a push that
found space by the blocks it *needs* (counting a partial tail block) adds no
more than that to the blocks that are *ready*; it rests on `DivisionOfNext`,
the arithmetic of the two roundings. `HaltIsFinal` needs that a share of blocks
taken from a FIFO halted meanwhile is negative, so that its pop does nothing.
The two properties about the bytes need to know where each one is: `Linked`
says that tail, head and count fit together and that the bytes between head and
tail are consecutive positions of the input, `Padded` and `Ended` what the last
partial block and the end of the input add. A push then stores behind what
the decoder holds, by the same `StoreFits`, and never onto it.

`AISDecoderProofs` proves, for every limit above zero, every width and choice of
the check bits, any payloads that fit, and a training of at least
`MIN_TRAINING_BITS + 4` bits (`DecoderSizes`; a transmitter sends 24, the code
asks for 4):

| theorem | property |
|---|---|
| `TypeCorrect` | `TypeOK` |
| `StaysInBounds` | `InBounds`: no bit is stored past the end of the message |
| `FramesAreReceived` | `FrameReceived`: a frame is sent on once and unchanged |

The invariant of the bound is `InBounds` with the type of the stored bits and of the state.
Each change of state empties the message (`NextStateInBounds`); the one step
that stores adds at most one bit, and the last test of `Run()` gives up in the
very step in which the limit is reached (`ContinueInBounds`), so no length of
its own is needed for any type of message.

`FramesAreReceived` needs to know, at every bit of a frame, what the decoder
makes of it so far, whatever state the noise left behind: `OnAir` is one of four
phases. In the training (`InTraining`) the first three bits may lead to a false
start, after which each bit counts one, so that a training of
`MIN_TRAINING_BITS + 4` is long enough; in the first flag (`InFlag`) the decoder
leaves the training at the first bit or at the third, depending on how the
training ended, and is level with the flag from then on; in the payload
(`InData`) the message is what was sent so far, the counter is the transmitter's
own, and after five ones a zero is on its way that is not stored; in the last
flag (`InEnd`) six bits that do not belong to the message are stored before its
end is seen. One lemma takes a bit through each phase. `NotCut` is why nothing
is given up on the way: the limits leave room for exactly these bits.
`Stuffed` is a recursive function from the end of the payload, so that what is
still to be sent is a value of it; `SendsExists` shows that it is defined.

`NMEAAssemblyProofs` proves, for any messages of at least two sentences and at
most `MaxNumber`, any `MaxNumber` up to the limit of the queue, and any age
(`Headers`):

| theorem | property |
|---|---|
| `TypeCorrect` | `TypeOK`: the queue holds no last part of a message |
| `UndisturbedIsSent` | `UndisturbedSent` |
| `ErrorIsExact` | `ErrorExact` |
| `IsReassembly` | `ImplementsReassembly` |

The invariant of the queue is `Sound`: older parts come first, and the parts of
one key have numbers that rise by one. The second is true although `search()`
looks at the newest part only, because of the first: `clean()` throws away whole
keys or what is too old, and what is too old is at the front, so a run of one
key only ever loses its beginning (`KeptRuns`), as it does when the queue
overflows (`TailIs`). A run that has its first part is therefore all of it, and a
completed one has `count` parts if and only if it has its first
(`PartsFound`). `Selection` says what a selection from the queue is (which
positions, in which order), by induction over the positions, so that no other
proof looks at the recursion.

The refinement maps what is held of a key to its run if that has a first part
and to nothing if not. Each action is then a `Forget` of runs that `clean()` or
the limit took, with, for `Wait` and `Complete`, a `Receive` that makes a run
longer or sends it (`ForgetStep`, `ReceiveStep`). `UndisturbedSent` needs to know
where the followed message is: `Following` says that the queue has all its parts
so far and no later one of that key, each among the sentences pushed since the
first came in and none older than that, so that neither the limit nor age
reaches them.

`DatabaseProofs` proves, for any number of receivers, messages and hours
and any size of the queue (`DatabaseBounds`):

| theorem | property |
|---|---|
| `TypeCorrect` | `TypeOK`, and `StatsHaveHours`: each bucket queued or taken for writing has an hour and counts a message |
| `OnlyOldestDropped` | `NewestKept`: among others, the queue never exceeds its size |
| `OnceInOrder` | `WrittenOnce` |
| `RowsExact` | `StatsExact` |

`InOrder` orders the table, the batch and the queue, in that order, by the
numbers of the messages; `Unbroken` adds that without trouble they are all
there is. `Hourly` follows the messages of one hour from the open bucket to the
closed ones, to the one being written and to the row, each of which is the
whole hour when the ones before it have none of it. What a worker puts back or
writes is named by positions in the batch (`Picks`), which says what a selection
keeps without following the loop that makes it.

`ReceiverTrackerProofs` proves, for any number of receivers, ships, records and
messages, any ring and any lag (`TrackerSizes`):

| theorem | property |
|---|---|
| `TypeCorrect` | `TypeOK` |
| `TracksStayOwned` | `TrackOwned` |
| `RingStaysOrdered` | `RingOrdered` |
| `RecentIsComplete` | `RecentComplete` |
| `ReplayIsComplete` | `ReplayComplete` |

`OneRecordEach` is the invariant of the table: no ship twice, no record shared;
that every claim keeps it is `ClaimMade`, by the three steps of `LRUMap`.
`NearlyOrdered` bounds how far the order of processing departs from that of the
times, by the lag of what is on its way (`Clocked`), which is what the listing's
early stop relies on (`ScanEnds`). `PositionsKept` says that a position the
horizon has not passed is still on its ship's track, unless others overwrote it;
the eviction of a record moves the horizon as far as the positions it takes. `BackupSound` carries order and uniqueness
through the file: `ChronologicalThroughout` is the induction from "each row not
older than the one before", which the loader checks, to a sorted file.

`EventStreamProofs` proves, for any number of logging threads, slots, messages
and connections:

| theorem | property |
|---|---|
| `TypeCorrect` | `TypeOK`: among others, the wake pipe never holds more than two bytes |
| `StreamIsComplete` | `StreamComplete` |
| `IncarnationsApart` | `OwnIncarnation` |
| `StreamsAreKept` | `StreamKept` |

`Coalesced` limits the notifications under way to one until the flag is
cleared. `InFlightOnce` says that a message is in one thread's hands, once in
the queue, or once among the commands being executed, `SentTwice` that
what is still in flight was sent at most once (with the backlog) and nothing
more than twice. `HandlesCurrent` keeps a handle's generation at or behind its
slot's; with `Published`, whoever is subscribed is seen by the producers, which
is why `NoneMissing` survives a new message. `SlotsSound` says that who asked
for the stream is exempt from the sweep, waits for no other answer and is the
only one with frames.

`DatabaseProofs` also proves, of `CSVState`, for any capacity and any number of targets, messages
and starts, whether or not the disk may fail (`CsvSizes`):

| theorem | property |
|---|---|
| `CsvTypeCorrect` | `CsvTypeOK`: the slots listed are those of the dirty rows |
| `CleanIsOnDisk` | `CleanOnDisk` |
| `RestartIsExact` | `RestartExact` |

`CleanOnDisk` is inductive given `CsvTypeOK`: a drain writes each dirty row and no
other (`PendingProperties`), and lines put behind others win
(`LastRowAppended`), also over a snapshot that was written without the journal
being removed. `RestartExact` needs two more parts: `Restorable`, a run with
nothing to fold in would load its own table, and `LeftFolded`, an orderly exit
leaves nothing. `SnapshotRestores` shows that loading a snapshot line by line
rebuilds the order.

`SlotTableProofs` proves, for any number of slots and buckets and any keys
(`TableSizes`):

| theorem | property |
|---|---|
| `ListsSurvive` | `ValidateClean` |
| `TableIsLRUMap` | `RefinesLRUMap` |

The pointers say what follows a slot, the properties what a walk down a list
meets. `Sound`, the inductive invariant, has the lists themselves: an
enumeration `L` of the slots (`LruIs`) and, for each bucket, an enumeration `C`
of its slots (`ChainOver`) that the pointers follow in both directions. Each
list operation is first described by what it does to every field of every slot
(`LruPushed`, `LruUnlinked`, `HashPushed`, `HashUnlinked`), then by what it does
to an enumeration: a touch rotates `L` (`ToFrontLinks`), a recycled slot is cut
out of its chain wherever it stands (`ChainCut`) and put in front of another
(`ChainGrown`), the chains of other buckets untouched. No two slots of a chain
are the same, so no chain is longer than the table (`NoRepeats`), and the walks
of `find` and `forEach` end where their list does (`LruAtIs`, `ChainAtIs`).

The refinement reads the same lists as `forEach()` and `find()` do: `order` is
the keys along `L` up to the first free slot (`OrderIs`), `slot` the slot that
bears a key (`SlotSeen`). Its invariant, `Held`, adds to `Sound` that no two
slots bear the same key: `find` sees every slot of its key's bucket
(`FindsAll`), and a create only follows a find that found nothing. A claim of a
key that is there is a `Touch` (`TouchSeen`: the key leaves its place for the
front); a create is an `Add` while a slot is free and a `Replace` of the last
key of `order` when none is (`CreateSeen`).

`PathStoreProofs` proves, for any number of ships, blocks and points per block,
any limits of time and any order of reports (`StoreSizes`):

| theorem | property |
|---|---|
| `TracksIntact` | `CheckClean`: what `check()` looks for is never there |
| `StoreKeepsTracks` | `RefinesTracks`: the store implements `Tracks` |

Again the links say little about a list as a whole. `Linked` says it by a set of
nodes and a rank that rises along the links, which rules out circles and is kept
by the changes to a list: a node taken out (`LinksRemoved`), one that takes
another's place (`LinksReplaced`), one put at either end. `LinkedTiers` gives
each tier its set of blocks, `LinkedTracks` each ship its set of points;
`Ready`, between two calls, joins to them that a block in use has points
(`Filled`), that a block's count is that of its live points (`LiveOk`) and that
no point lasts longer than the latest report, nor a ship's newest than the
ship's (`Times`, `EndsBy`), which is why a report that is late is not put before
the newest point.

What happens inside a call goes through states that are not `Ready`: the
predicates have a parameter for each exception. While a block is compacted, the
points moved into history still look live where they were (`X`), until the block
is emptied; the counts of a block about to be emptied are left alone (`E`); a
block taken from one tier and not yet put in another is in `G`; and `e` is the
one block of a tier that may still be without points. `CompactStep` is one point
of a compaction: it may find the history full and overwrite the oldest block
(`Evicted`), which takes points of any ship with it, the neighbours of the point
that is being moved included. `SlotsCompacted`, `DroppedTo` and `WipedReady` are
the inductions over a block and over a track. `ListEnumerated` leads back from
`Linked` to the walk along the links that `CheckClean` is about.

For the refinement a compaction must be compared, point by point, with the
tracks before the report that caused it, although the slots it moves points
between are used again meanwhile. The rank that `Linked` gives the points of a
track does it: `Origins` keeps the rank of a point equal to its position in the
track as the report found it, and its span to what stood there. A point moved
into history takes its rank along, an overwritten one takes its rank away, and
as ranks rise along the links the track left is the old one thinned
(`Tracks`' `Thinned`, whose map is the ranks). An extension changes the last
element of one track and nothing else; a wipe ends with an empty one, the other
ships' points untouched; and a report always finds a block (`ReportTaken`):
with none free, one of the three tiers has a block to give up.

**Induction.** The library's induction theorems quantify over operators, which
the provers cannot instantiate. `LeastElement` and `InductionOnNat`, with a set
in place of the predicate, follow from the well-foundedness of the naturals and
are enough for sequences; `IterationExists` gives the recursive functions of
`CSVState` their values, as `SendsExists` does for `AISDecoder` and
`WalkExists` for `SlotTable`, `UptoExists` for `NMEAAssembly`, `ChainFromExists`
and `Repeats` for `PathStore`. Folds and
`SelectSeq` of the libraries stay opaque, which is why `LRUMap`,
`DatabaseOutput`, `CSVState`, `NMEAAssembly` and `AISDecoder` say with positions
and recursive functions what they could say with these.

Only model-checked: the liveness properties (`StopHonoured`, `StartServed`,
`ShutdownServed`, `NoThreadStuck`, `EndIsReported`, `LostWakeHarmless`, `DeadReaped`, `Drained`),
which are out of the prover's reach.

## 6. What is not modelled

* *Signal processing*: floating-point filters; no order of events to get wrong.
* *Pure conversions*: JSON, formatting, geodesy, decoding of message fields.
* *Hardware*: the SDR libraries' calls. Their use of the FIFO is `RAWFile`'s.
* *Regular and WAV files* in `RAWFile` (padding of every read, looping).
* *Password, wizard, schema, sessions and routes* of the two HTTP servers, but
  for the change of the password, which ends the streams.
* *`status_epoch` and uptime* in `ControlCore`, which no decision depends on
  except "up for `RETRY_HEALTHY_UPTIME`", left open as a choice.
* *Event streams*: more than one topic, resuming with `since`, mounted parts,
  exceptions in the server's thread. The callback of a listener that is being
  removed may still run, as in the code, which does not wait for it. The
  sequence number and the buffer of the log are one step, though two in the code.
  A write that fails closes the connection at once; here the next round's read
  does.
* *NMEA*: the framing of lines, binary and N2K input, and messages of one
  sentence, which do not touch the queue; in a JSON array, where they set the
  error flag, they are `JSONSingle`.
* *Managed mode*: a control server that cannot be started; the loop is never
  entered then.
* *Bit decoder*: signal levels and time stamps, the `DecoderSignals` that reset
  the other decoders of a channel, the fields of a message.
* *Database*: vessels per hour, retention and other maintenance, exceptions; the
  CSV backend's daily files and its journal of statistics.
* *Histories*: the counts; only the intervals' order is kept.
* *Generated and browser code*, packaging, the Python binding.

## 7. Plan

In this order, each with its instance and mutants:

1. `ShipRecord`: expiry of a ship's fields by message type (`Ships.cpp`,
   `DB::tick`): no field outlives every message type that could refresh it.
2. `MessageHistory`, `StaticHistory`: duplicate suppression under late copies
   (the age in `findAge` is unsigned, so a message older than the newest entry
   wipes the history); whether a poller of changes sees each one.
3. `Protocol`: the stack of reconnecting layers (TCP, TLS, MQTT, WebSocket);
   `HTTPClient` and its posting thread.
4. `BackupManager` and `writeFileAtomic` with crashes between their steps;
   `ControlCore`'s engine field over restarts of the process: it is written
   after the change in memory, and giving up clears `desired` but not the field.
5. `PlaneDB`, Beast framing, device life cycles (`RTLTCP`, `SpyServer`,
   `Serial`).

Abstract specifications worth stating beside `LRUMap`, `Tracks` and
`Reassembly`: a lossy ordered channel (FIFO, network clients), and a write-ahead
log with counted losses (database output).
