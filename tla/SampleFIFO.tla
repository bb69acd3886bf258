----------------------------- MODULE SampleFIFO -----------------------------
(***************************************************************************)
(* The FIFO between the thread that reads a device and the thread that     *)
(* decodes (Library/FIFO.h), with the two threads of RAWFile reading a     *)
(* pipe (Device/FileRAW.cpp) and the engine thread that stops it.  The     *)
(* same FIFO serves RTLSDR, RTLTCP, SpyServer, SDRPLAY, SoapySDR and ZMQ.  *)
(*                                                                         *)
(* The k-th byte the FIFO accepts is written as the number k, so what the  *)
(* consumer holds says whether it was lost, reordered or overwritten.      *)
(* cv_has_space has no timeout, so its notifications are modelled;         *)
(* cv_ready is waited for with one.                                        *)
(***************************************************************************)
EXTENDS Integers

CONSTANTS BLOCK_SIZE, N_BLOCKS,
          MaxPush,    \* the reader's buffer: the most one Push() carries
          MaxBytes    \* bound: bytes the input has

(* A push fits into an empty FIFO wherever its tail is, as BUFFER_SIZE_IQ  *)
(* with two blocks and BUFFER_SIZE_TXT with 2 * BUFFER_SIZE_TXT do; a      *)
(* larger one would wait for ever.                                         *)
ASSUME FIFOSizes ==
  /\ BLOCK_SIZE \in Nat \ {0} /\ N_BLOCKS \in Nat \ {0}
  /\ MaxPush \in Nat \ {0} /\ MaxBytes \in Nat
  /\ ((BLOCK_SIZE + MaxPush - 2) \div BLOCK_SIZE) + 1 =< N_BLOCKS

VARIABLES
  head, tail, blocks_filled, last_input,    \* under fifo_mutex
  data,         \* _data: 0, or the number of the byte stored
  streaming,    \* Device::streaming
  eoi, done,    \* RAWFile's flags between its threads and isStreaming()
  lossless,     \* default_wait
  is_text,      \* the format: text is not padded
  reader,       \* ReadAsync(): where it is, and the size it is pushing
  total,        \* its count of bytes read
  runner,       \* Run(): where it is, and the blocks it holds
  main,         \* the engine thread
  accepted,     \* history: bytes the FIFO took
  received,     \* history: bytes handed to Send() and popped
  ended_wait    \* history: last_input as Wait() last returned empty-handed

fifo == <<head, tail, blocks_filled, last_input, data>>
flags == <<streaming, eoi, done>>
setup == <<lossless, is_text>>
fifo_vars == <<fifo, flags, setup, reader, total, runner, main, accepted, received, ended_wait>>

Capacity == N_BLOCKS * BLOCK_SIZE
Index == 0 .. (Capacity - 1)

FifoTypeOK ==
  /\ head \in Index /\ tail \in Index
  /\ blocks_filled \in -1 .. N_BLOCKS
  /\ last_input \in BOOLEAN
  /\ data \in [Index -> Nat]
  /\ streaming \in BOOLEAN /\ eoi \in BOOLEAN /\ done \in BOOLEAN
  /\ lossless \in BOOLEAN /\ is_text \in BOOLEAN
  /\ reader \in [pc : {"read", "push", "blocked", "pad", "push_pad", "blocked_pad",
                       "finish", "eoi", "ended"}, sz : Nat]
  /\ total \in Nat
  /\ runner \in [pc : {"check", "wait", "waiting", "front", "send", "empty", "ended"},
                 n : -1 .. N_BLOCKS]
  /\ main \in {"run", "stop", "halt", "join_reader", "join_runner", "stopped"}
  /\ accepted \in Nat /\ received \in Nat /\ ended_wait \in BOOLEAN

(* RAWFile::Play(), for a pipe.                                            *)
FifoInit ==
  /\ head = 0 /\ tail = 0 /\ blocks_filled = 0 /\ last_input = FALSE
  /\ data = [i \in Index |-> 0]
  /\ streaming = TRUE /\ eoi = FALSE /\ done = FALSE
  /\ lossless \in BOOLEAN /\ is_text \in BOOLEAN
  /\ reader = [pc |-> "read", sz |-> 0] /\ total = 0
  /\ runner = [pc |-> "check", n |-> 0]
  /\ main = "run"
  /\ accepted = 0 /\ received = 0 /\ ended_wait = FALSE

-----------------------------------------------------------------------------
(* FIFO::Push() of sz bytes.                                               *)

BlocksReady(sz) == ((tail % BLOCK_SIZE) + sz) \div BLOCK_SIZE
BlocksNeeded(sz) == (((tail % BLOCK_SIZE) + sz - 1) \div BLOCK_SIZE) + 1
(* Mutant: the partial tail block is not counted.                          *)
HasSpace_PartialIgnored(sz) == blocks_filled + BlocksReady(sz) =< N_BLOCKS
HasSpace(sz) == blocks_filled + BlocksNeeded(sz) =< N_BLOCKS

(* Mutant: the tail is not wrapped.                                        *)
Store_TailNotWrapped(sz) ==
  /\ data' = [i \in Index |-> LET k == (i - tail + Capacity) % Capacity
                              IN  IF k < sz THEN accepted + k + 1 ELSE data[i]]
  /\ tail' = tail + sz
  /\ blocks_filled' = blocks_filled + BlocksReady(sz)
  /\ accepted' = accepted + sz

Store(sz) ==
  /\ data' = [i \in Index |-> LET k == (i - tail + Capacity) % Capacity
                              IN  IF k < sz THEN accepted + k + 1 ELSE data[i]]
  /\ tail' = (tail + sz) % Capacity
  /\ blocks_filled' = blocks_filled + BlocksReady(sz)
  /\ accepted' = accepted + sz

(* Mutant: a halted FIFO is not looked at again after the wait.            *)
Push_NoSecondLook(from, blocked, after) ==
  /\ reader.pc = from
  /\ \/ /\ HasSpace(reader.sz)
        /\ Store(reader.sz)
        /\ reader' = [pc |-> after, sz |-> 0]
     \/ /\ blocks_filled # -1 /\ ~HasSpace(reader.sz)
        /\ reader' = IF lossless THEN [reader EXCEPT !.pc = blocked]
                                 ELSE [pc |-> after, sz |-> 0]
        /\ UNCHANGED <<data, tail, blocks_filled, accepted>>
  /\ UNCHANGED <<head, last_input, flags, setup, total, runner, main, received, ended_wait>>

(* From "push" (or "push_pad"), each time the lock is taken: by the call   *)
(* and after every notification.  A halted FIFO takes nothing; a full one  *)
(* blocks a lossless reader and drops the bytes of any other.              *)
Push(from, blocked, after) ==
  /\ reader.pc = from
  /\ \/ /\ blocks_filled = -1
        /\ reader' = [pc |-> after, sz |-> 0]
        /\ UNCHANGED <<data, tail, blocks_filled, accepted>>
     \/ /\ blocks_filled # -1 /\ HasSpace(reader.sz)
        /\ Store(reader.sz)
        /\ reader' = [pc |-> after, sz |-> 0]
     \/ /\ blocks_filled # -1 /\ ~HasSpace(reader.sz)
        /\ reader' = IF lossless THEN [reader EXCEPT !.pc = blocked]
                                 ELSE [pc |-> after, sz |-> 0]
        /\ UNCHANGED <<data, tail, blocks_filled, accepted>>
  /\ UNCHANGED <<head, last_input, flags, setup, total, runner, main, received, ended_wait>>

(* cv_has_space.notify_one(): the reader is the only one who waits on it.  *)
SpaceNotified ==
  CASE reader.pc = "blocked"     -> [reader EXCEPT !.pc = "push"]
    [] reader.pc = "blocked_pad" -> [reader EXCEPT !.pc = "push_pad"]
    [] OTHER                     -> reader

-----------------------------------------------------------------------------
(* RAWFile::ReadAsync(), the poll() loop on stdin.                         *)

Read ==
  /\ reader.pc = "read" /\ streaming
  /\ \E sz \in 1 .. MaxPush :
       /\ total + sz =< MaxBytes
       /\ reader' = [pc |-> "push", sz |-> sz]
       /\ total' = total + sz
  /\ UNCHANGED <<fifo, flags, setup, runner, main, accepted, received, ended_wait>>

(* The pipe is closed, read() fails, or the device is to stop.             *)
ReadEnds ==
  /\ reader.pc = "read"
  /\ reader' = [reader EXCEPT !.pc = "pad"]
  /\ UNCHANGED <<fifo, flags, setup, total, runner, main, accepted, received, ended_wait>>

PushRead == Push("push", "blocked", "read")

(* Mutant: the tail is not padded.                                         *)
Pad_Omitted ==
  /\ reader.pc = "pad"
  /\ reader' = [reader EXCEPT !.pc = "finish"]
  /\ UNCHANGED <<fifo, flags, setup, total, runner, main, accepted, received, ended_wait>>

(* Zeros up to a whole block; text is left as it is.                       *)
Pad ==
  /\ reader.pc = "pad"
  /\ LET rem == total % BLOCK_SIZE
     IN  reader' = IF rem > 0 /\ ~is_text
                   THEN [pc |-> "push_pad", sz |-> BLOCK_SIZE - rem]
                   ELSE [reader EXCEPT !.pc = "finish"]
  /\ UNCHANGED <<fifo, flags, setup, total, runner, main, accepted, received, ended_wait>>

PushPad == Push("push_pad", "blocked_pad", "finish")

PushFinished ==
  /\ reader.pc = "finish"
  /\ last_input' = TRUE
  /\ reader' = [reader EXCEPT !.pc = "eoi"]
  /\ UNCHANGED <<head, tail, blocks_filled, data, flags, setup, total, runner, main,
                 accepted, received, ended_wait>>

SetEoi ==
  /\ reader.pc = "eoi"
  /\ eoi' = TRUE
  /\ reader' = [reader EXCEPT !.pc = "ended"]
  /\ UNCHANGED <<fifo, streaming, done, setup, total, runner, main, accepted, received, ended_wait>>

ReaderStep == PushRead \/ Pad \/ PushPad \/ PushFinished \/ SetEoi

-----------------------------------------------------------------------------
(* RAWFile::Run().                                                         *)

isStreaming == streaming /\ ~done

CheckStreaming ==
  /\ runner.pc = "check"
  /\ runner' = [runner EXCEPT !.pc = IF isStreaming THEN "wait" ELSE "ended"]
  /\ UNCHANGED <<fifo, flags, setup, reader, total, main, accepted, received, ended_wait>>

(* Mutant: the end of the input counts as data.                            *)
WaitReturns_AlsoAtTheEnd ==
  /\ runner' = [runner EXCEPT !.pc = IF blocks_filled > 0 \/ last_input THEN "front" ELSE "empty"]
  /\ ended_wait' = (last_input /\ ~(blocks_filled > 0))

(* FIFO::Wait(): at once if there is anything to say, else a timed wait.   *)
WaitReturns ==
  /\ runner' = [runner EXCEPT !.pc = IF blocks_filled > 0 THEN "front" ELSE "empty"]
  /\ ended_wait' = (last_input /\ ~(blocks_filled > 0))

Wait ==
  /\ runner.pc = "wait"
  /\ IF blocks_filled = 0 /\ ~last_input
       THEN runner' = [runner EXCEPT !.pc = "waiting"] /\ UNCHANGED ended_wait
       ELSE WaitReturns
  /\ UNCHANGED <<fifo, flags, setup, reader, total, main, accepted, received>>

(* Notified or timed out: what it finds decides.                           *)
Wake ==
  /\ runner.pc = "waiting"
  /\ WaitReturns
  /\ UNCHANGED <<fifo, flags, setup, reader, total, main, accepted, received>>

(* FIFO::Front(requested = -1), which takes no lock: what lies before the  *)
(* wrap, and no more than blocks_filled as it is now.                      *)
ToWrap == (Capacity - head) \div BLOCK_SIZE

Front ==
  /\ runner.pc = "front"
  /\ runner' = [pc |-> "send", n |-> IF blocks_filled < ToWrap THEN blocks_filled ELSE ToWrap]
  /\ UNCHANGED <<fifo, flags, setup, reader, total, main, accepted, received, ended_wait>>

(* Send() is over and Pop(n) follows.                                      *)
Popped == IF blocks_filled < runner.n THEN blocks_filled ELSE runner.n

(* Mutant: the reader is not told that there is space again.               *)
Pop_NotNotified ==
  /\ runner.pc = "send"
  /\ runner' = [pc |-> "check", n |-> 0]
  /\ received' = received + (IF runner.n > 0 THEN runner.n * BLOCK_SIZE ELSE 0)
  /\ IF Popped > 0
       THEN /\ head' = (head + Popped * BLOCK_SIZE) % Capacity
            /\ blocks_filled' = blocks_filled - Popped
       ELSE UNCHANGED <<head, blocks_filled>>
  /\ UNCHANGED <<tail, last_input, data, flags, setup, reader, total, main, accepted, ended_wait>>

Pop ==
  /\ runner.pc = "send"
  /\ runner' = [pc |-> "check", n |-> 0]
  /\ received' = received + (IF runner.n > 0 THEN runner.n * BLOCK_SIZE ELSE 0)
  /\ IF Popped > 0
       THEN /\ head' = (head + Popped * BLOCK_SIZE) % Capacity
            /\ blocks_filled' = blocks_filled - Popped
            /\ reader' = SpaceNotified
       ELSE UNCHANGED <<head, blocks_filled, reader>>
  /\ UNCHANGED <<tail, last_input, data, flags, setup, total, main, accepted, ended_wait>>

(* Send() throws: the thread logs, calls StopRequest() and ends.           *)
SendThrows ==
  /\ runner.pc = "send"
  /\ runner' = [pc |-> "ended", n |-> 0]
  /\ UNCHANGED <<fifo, flags, setup, reader, total, main, accepted, received, ended_wait>>

Empty ==
  /\ runner.pc = "empty"
  /\ done' = (done \/ (eoi /\ isStreaming))
  /\ runner' = [runner EXCEPT !.pc = "check"]
  /\ UNCHANGED <<fifo, streaming, eoi, setup, reader, total, main, accepted, received, ended_wait>>

RunnerStep == CheckStreaming \/ Wait \/ Wake \/ Front \/ Pop \/ Empty

-----------------------------------------------------------------------------
(* The engine thread: at any time, or because the device is no longer      *)
(* active, it stops the receiver (RAWFile::Stop()).                        *)

StopEngine ==
  /\ main = "run"
  /\ main' = "stop"
  /\ UNCHANGED <<fifo, flags, setup, reader, total, runner, accepted, received, ended_wait>>

DeviceStop ==
  /\ main = "stop"
  /\ streaming' = FALSE
  /\ main' = "halt"
  /\ UNCHANGED <<fifo, eoi, done, setup, reader, total, runner, accepted, received, ended_wait>>

Halt ==
  /\ main = "halt"
  /\ blocks_filled' = -1
  /\ reader' = SpaceNotified
  /\ main' = "join_reader"
  /\ UNCHANGED <<head, tail, last_input, data, flags, setup, total, runner,
                 accepted, received, ended_wait>>

Join ==
  /\ \/ main = "join_reader" /\ reader.pc = "ended" /\ main' = "join_runner"
     \/ main = "join_runner" /\ runner.pc = "ended" /\ main' = "stopped"
  /\ UNCHANGED <<fifo, flags, setup, reader, total, runner, accepted, received, ended_wait>>

MainStep == DeviceStop \/ Halt \/ Join

FifoNext ==
  \/ Read \/ ReadEnds \/ ReaderStep
  \/ SendThrows \/ RunnerStep
  \/ StopEngine \/ MainStep

(* The threads run.  The pipe owes no data; poll() returns to the loop     *)
(* every 250 ms, so a reader that should stop does; and the engine looks   *)
(* at isActive() every 50 ms, so it stops a device that is done.           *)
FifoFairness ==
  /\ WF_fifo_vars(ReaderStep) /\ WF_fifo_vars(RunnerStep) /\ WF_fifo_vars(MainStep)
  /\ WF_fifo_vars(~streaming /\ ReadEnds)
  /\ WF_fifo_vars(~isStreaming /\ StopEngine)

FifoSpec == FifoInit /\ [][FifoNext]_fifo_vars /\ FifoFairness

-----------------------------------------------------------------------------
(* Properties.                                                             *)

(* What Send() is given is what comes next in the input, in order, and     *)
(* stays so until it returns: Push() never writes into blocks the consumer *)
(* holds (FIFO.h:153), Pop() never gives back a block not yet sent.        *)
HeldIntact ==
  runner.pc = "send" =>
    \A i \in 0 .. (runner.n * BLOCK_SIZE - 1) :
      data[(head + i) % Capacity] = received + i + 1

(* Once halted, a FIFO stays halted until the next Init(): a Push() that   *)
(* was waiting does not revive it (the comment at FIFO.h:168-169).         *)
HaltIsFinal == [][blocks_filled = -1 => blocks_filled' = -1]_fifo_vars

(* The device reports its end only when the decoder has had every whole    *)
(* block; with padding (and no drops) that is every byte.  A Wait() that   *)
(* timed out just before the last bytes came is the exception.             *)
EndDrained ==
  done /\ ended_wait =>
    /\ accepted - received < BLOCK_SIZE
    /\ lossless /\ ~is_text => received = accepted

(* RAWFile::Stop() joins both threads: a blocked Push() and a waiting      *)
(* Run() are released by Halt().                                           *)
StopTerminates == main = "stop" ~> main = "stopped"

(* A Push() that waits for space gets out, by Pop() or by Halt(), as long  *)
(* as there is a decoder to take blocks out: no notification is missed.    *)
BlockedReaderReleased ==
  reader.pc \in {"blocked", "blocked_pad"} ~>
    (reader.pc \notin {"blocked", "blocked_pad"} \/ runner.pc = "ended")

(* No thread is stuck: neither the two while they run nor the one that     *)
(* stops them.                                                             *)
NoThreadStuck == StopTerminates /\ BlockedReaderReleased

(* The end of the input ends the device, unless it is stopped first or the *)
(* decoder has died.                                                       *)
EndIsReported == eoi ~> (done \/ ~streaming \/ runner.pc = "ended")

=============================================================================
