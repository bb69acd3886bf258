---------------------------- MODULE EventStream ----------------------------
(***************************************************************************)
(* The log stream of the control server: threads that log                  *)
(* (Library/Logger.cpp), the command queue and wake handle between them    *)
(* and the server thread (IO/TCPServer.cpp, IO/SocketUtil.h), and the      *)
(* subscribers that thread serves (IO/HTTPServer.h).                       *)
(*                                                                         *)
(* Only the server thread touches a connection, so its steps are atomic    *)
(* between two points at which it meets another thread: the pipe, the      *)
(* queue, the log buffer and the topics.  A peer's arrival, request and    *)
(* disappearance are choices made where the server thread looks.  The      *)
(* k-th message stored is written as k: the log buffer holds 1..stored.    *)
(* A stream has the one topic "log", and a browser sends nothing after the *)
(* request that opened it (EventSource).                                   *)
(***************************************************************************)
EXTENDS Integers, Sequences, FiniteSets, Functions

CONSTANTS
  Producers,    \* threads that log
  MAX_CONN,
  MaxLogs,      \* bound: messages logged; the log buffer holds them all
  MaxAccepts    \* bound: connections accepted

ASSUME StreamBounds == MAX_CONN \in Nat \ {0} /\ MaxLogs \in Nat /\ MaxAccepts \in Nat

VARIABLES
  stored,       \* messages in message_buffer_, under the logger's mutex
  listening,    \* the server's callback is in log_listeners_
  thread,       \* what a logging thread, or close(), does next: [pc, msg]
  cmds,         \* the command queue, under cmd_mtx
  pending,      \* Wakeup::pending
  pipe,         \* bytes in the self-pipe
  wake_valid,   \* Wakeup::init() succeeded
  stop,         \* TCPServer::stop
  topics,       \* "log" is published to producers
  loop,         \* the server thread: where it is, what poll() reported, the slot served
  scratch,      \* cmd_scratch: the commands being executed
  client,       \* the connection in each slot
  sse           \* subscribers: handles [slot, gen]

shared == <<stored, listening, cmds, pending, pipe, wake_valid, stop, topics>>
vars == <<shared, thread, loop, scratch, client, sse>>

Closer == "close()"
Threads == Producers \cup {Closer}
Slots == 1 .. MAX_CONN
Messages == 1 .. MaxLogs
Requests == {"none", "page", "stream", "password"}

(* A connection, with a history of its present peer: whether it asked for  *)
(* the stream, what it was sent, and the messages that were not posted     *)
(* while it was subscribing.                                               *)
Connections ==
  [open : BOOLEAN, gen : Nat, request : Requests,
   no_timeout : BOOLEAN, close_after_send : BOOLEAN,
   asked : BOOLEAN, got : Seq(Messages), passed_by : SUBSET Messages]

TypeOK ==
  /\ stored \in 0 .. MaxLogs
  /\ thread \in [Threads -> [pc : {"idle", "listeners", "topics", "push", "cas", "write",
                                   "unlisten", "stop", "join", "closed"},
                             msg : 0 .. MaxLogs]]
  /\ cmds \in Seq(Messages) /\ scratch \in Seq(Messages)
  /\ pipe \in 0 .. 2    \* coalesced: a burst does not fill it
  /\ {listening, pending, wake_valid, stop, topics} \subseteq BOOLEAN
  /\ loop \in [pc : {"check", "poll", "flag", "empty", "swap", "execute", "accept", "read",
                     "process", "backlog", "publish", "write", "ended"},
               sock : BOOLEAN, slot : Slots]
  /\ client \in [Slots -> Connections]
  /\ sse \subseteq [slot : Slots, gen : Nat]

NoConnection(gen) ==
  [open |-> FALSE, gen |-> gen, request |-> "none", no_timeout |-> FALSE,
   close_after_send |-> FALSE, asked |-> FALSE, got |-> <<>>, passed_by |-> {}]

(* TCPServer::start() and ControlServer::start().                          *)
Init ==
  /\ stored = 0 /\ listening = TRUE /\ cmds = <<>> /\ scratch = <<>>
  /\ pending = FALSE /\ pipe = 0 /\ wake_valid \in BOOLEAN /\ stop = FALSE /\ topics = FALSE
  /\ thread = [t \in Threads |-> [pc |-> IF t = Closer THEN "unlisten" ELSE "idle", msg |-> 0]]
  /\ loop = [pc |-> "check", sock |-> FALSE, slot |-> 1]
  /\ client = [s \in Slots |-> NoConnection(0)] /\ sse = {}

-----------------------------------------------------------------------------
(* The logging threads.                                                    *)

(* A thread holds its message until it has posted it.                      *)
Goto(t, pc) ==
  thread' = [thread EXCEPT ![t] = [pc |-> pc, msg |-> IF pc \in {"topics", "push"} THEN @.msg ELSE 0]]

(* Logger::log(): storeMessage().                                          *)
Log(p) ==
  /\ thread[p].pc = "idle" /\ stored < MaxLogs
  /\ stored' = stored + 1
  /\ thread' = [thread EXCEPT ![p] = [pc |-> "listeners", msg |-> stored + 1]]
  /\ UNCHANGED <<listening, cmds, pending, pipe, wake_valid, stop, topics, loop, scratch, client,
                 sse>>

(* notifyListeners(): the copy of the listeners.                           *)
CopyListeners(p) ==
  /\ thread[p].pc = "listeners"
  /\ Goto(p, IF listening THEN "topics" ELSE "idle")
  /\ UNCHANGED <<shared, loop, scratch, client, sse>>

(* The slot whose subscriber is in the list but not yet published.         *)
Subscribing == IF loop.pc \in {"backlog", "publish"} THEN {loop.slot} ELSE {}

(* sendSSE(), outside the logger's mutex.                                  *)
ReadTopics(p) ==
  /\ thread[p].pc = "topics"
  /\ Goto(p, IF topics THEN "push" ELSE "idle")
  /\ client' = [s \in Slots |-> IF ~topics /\ s \in Subscribing
                                THEN [client[s] EXCEPT !.passed_by = @ \cup {thread[p].msg}]
                                ELSE client[s]]
  /\ UNCHANGED <<shared, loop, scratch, sse>>

(* post(): the queue, then notify() below.                                 *)
Push(p) ==
  /\ thread[p].pc = "push"
  /\ cmds' = Append(cmds, thread[p].msg)
  /\ Goto(p, "cas")
  /\ UNCHANGED <<stored, listening, pending, pipe, wake_valid, stop, topics, loop, scratch, client,
                 sse>>

(* Where a thread goes on after notify().                                  *)
AfterNotify(t) == IF t = Closer THEN "join" ELSE "idle"

(* notify(): compare_exchange, then the byte; without a pipe there is none.*)
NotifyFlag(t) ==
  /\ thread[t].pc = "cas"
  /\ pending' = TRUE
  /\ Goto(t, IF pending \/ ~wake_valid THEN AfterNotify(t) ELSE "write")
  /\ UNCHANGED <<stored, listening, cmds, pipe, wake_valid, stop, topics, loop, scratch, client,
                 sse>>

NotifyByte(t) ==
  /\ thread[t].pc = "write"
  /\ pipe' = pipe + 1
  /\ Goto(t, AfterNotify(t))
  /\ UNCHANGED <<stored, listening, cmds, pending, wake_valid, stop, topics, loop, scratch, client,
                 sse>>

(* ControlServer::close(): removeLogListener(), then stopThread().         *)
RemoveListener ==
  /\ thread[Closer].pc = "unlisten"
  /\ listening' = FALSE
  /\ Goto(Closer, "stop")
  /\ UNCHANGED <<stored, cmds, pending, pipe, wake_valid, stop, topics, loop, scratch, client,
                 sse>>

SetStop ==
  /\ thread[Closer].pc = "stop"
  /\ stop' = TRUE
  /\ Goto(Closer, "cas")
  /\ UNCHANGED <<stored, listening, cmds, pending, pipe, wake_valid, topics, loop, scratch, client,
                 sse>>

Join ==
  /\ thread[Closer].pc = "join" /\ loop.pc = "ended"
  /\ Goto(Closer, "closed")
  /\ UNCHANGED <<shared, loop, scratch, client, sse>>

-----------------------------------------------------------------------------
(* The server thread: connections and subscribers.                         *)

Open == {s \in Slots : client[s].open}
Handle(s) == [slot |-> s, gen |-> client[s].gen]

(* Mutant: the generation is not compared.                                 *)
IsLive_AnyIncarnation(h) == client[h.slot].open
IsLive(h) == client[h.slot].open /\ h.gen = client[h.slot].gen

Live == {h \in sse : IsLive(h)}
Streams == {h.slot : h \in Live}

(* Close() of every slot in S.  The flags it leaves alone are read of open *)
(* slots only, and set by Start().                                         *)
CloseSlots(S) ==
  [s \in Slots |-> IF s \in S THEN NoConnection(client[s].gen) ELSE client[s]]

(* SendFrame() of some messages to the streams in S.  A peer that is gone, *)
(* or too far behind for its buffer, is closed instead.                    *)
SendFrames(S, msgs) ==
  \E failed \in SUBSET S :
    client' = [s \in Slots |-> IF s \in S \ failed THEN [client[s] EXCEPT !.got = @ \o msgs]
                              ELSE CloseSlots(failed)[s]]

(* Mutant: nothing is published until the next upgrade.                    *)
CleanupSSE_ClearsTopics ==
  /\ sse' = Live
  /\ topics' = IF Live = sse THEN topics ELSE FALSE

(* cleanupSSE(): topics are published again when somebody left.            *)
CleanupSSE ==
  /\ sse' = Live
  /\ topics' = IF Live = sse THEN topics ELSE Live # {}

At(pc) == loop.pc = pc
Continue(pc) == loop' = [loop EXCEPT !.pc = pc]

-----------------------------------------------------------------------------
(* The server thread: one pass of Run().                                   *)

(* SleepAndWait() returns.  A readable pipe is reported whatever ended it. *)
PollReturns(sock) ==
  /\ At("poll")
  /\ loop' = [loop EXCEPT !.pc = IF pipe > 0 THEN "flag" ELSE "swap", !.sock = sock]
  /\ UNCHANGED <<shared, thread, scratch, client, sse>>

PollWakes == pipe > 0 /\ PollReturns(FALSE)

(* A peer connected, sent something or left.                               *)
PollSocket == PollReturns(TRUE)

(* Mutant: with a wake handle poll() waits without a timeout.              *)
PollTimesOut_OnlyWithoutWake == ~wake_valid /\ PollReturns(FALSE)
(* After 1 s, or 50 ms without the wake handle.                            *)
PollTimesOut == PollReturns(FALSE)

(* while (!stop), before each poll().                                      *)
CheckStop ==
  /\ At("check")
  /\ Continue(IF stop THEN "ended" ELSE "poll")
  /\ UNCHANGED <<shared, thread, scratch, client, sse>>

(* drain(): the flag, then the pipe.                                       *)
DrainFlag ==
  /\ At("flag")
  /\ pending' = FALSE
  /\ Continue("empty")
  /\ UNCHANGED <<stored, listening, cmds, pipe, wake_valid, stop, topics, thread, scratch, client,
                 sse>>

DrainPipe ==
  /\ At("empty")
  /\ pipe' = 0
  /\ Continue("swap")
  /\ UNCHANGED <<stored, listening, cmds, pending, wake_valid, stop, topics, thread, scratch, client,
                 sse>>

(* drainCommands(): the swap under cmd_mtx, then each command in turn.     *)
SwapQueue ==
  /\ At("swap")
  /\ scratch' = cmds /\ cmds' = <<>>
  /\ Continue("execute")
  /\ UNCHANGED <<stored, listening, pending, pipe, wake_valid, stop, topics, thread, client, sse>>

(* onCommand().                                                            *)
Execute ==
  /\ At("execute") /\ scratch # <<>>
  /\ CleanupSSE
  /\ SendFrames(Streams, <<Head(scratch)>>)
  /\ scratch' = Tail(scratch)
  /\ UNCHANGED <<stored, listening, cmds, pending, pipe, wake_valid, stop, thread, loop>>

Executed ==
  /\ At("execute") /\ scratch = <<>>
  /\ loop' = [loop EXCEPT !.pc = IF loop.sock THEN "accept" ELSE "process", !.sock = FALSE]
  /\ UNCHANGED <<shared, thread, scratch, client, sse>>

(* acceptClients(): one connection, into the first free slot or refused;   *)
(* Start() makes it a new incarnation.                                     *)
Accept ==
  /\ At("accept")
  /\ \E s \in Slots \ Open :
       /\ \A free \in Slots \ Open : s =< free
       /\ SumFunction([t \in Slots |-> client[t].gen]) < MaxAccepts
       /\ client' = [client EXCEPT ![s] = [NoConnection(client[s].gen + 1) EXCEPT !.open = TRUE]]
  /\ Continue("read")
  /\ UNCHANGED <<shared, thread, scratch, sse>>

AcceptNone ==
  /\ At("accept")
  /\ Continue("read")
  /\ UNCHANGED <<shared, thread, scratch, client, sse>>

(* readClients(): some peers left, others sent a request.                  *)
Read ==
  /\ At("read")
  /\ \E gone \in SUBSET Open :
       \E asks \in [{s \in Open \ gone : ~client[s].asked /\ client[s].request = "none"} -> Requests] :
         client' = [s \in Slots |-> IF s \in DOMAIN asks THEN [client[s] EXCEPT !.request = asks[s]]
                                   ELSE CloseSlots(gone)[s]]
  /\ Continue("process")
  /\ UNCHANGED <<shared, thread, scratch, sse>>

(* The slots with a request processClients() has yet to serve.             *)
Asking(kind) ==
  {s \in Open : ~client[s].close_after_send /\ client[s].request = kind}

(* A request answered at once, with Connection: close (without it, it      *)
(* changes nothing here).                                                  *)
ServePage ==
  /\ At("process")
  /\ \E s \in Asking("page") :
       client' = [client EXCEPT ![s].request = "none", ![s].close_after_send = TRUE]
  /\ UNCHANGED <<shared, thread, loop, scratch, sse>>

(* POST /api/password: closeAllSSE().                                      *)
ServePassword ==
  /\ At("process")
  /\ \E s \in Asking("password") :
       client' = [CloseSlots(Streams) EXCEPT ![s].request = "none"]
  /\ sse' = {} /\ topics' = FALSE
  /\ UNCHANGED <<stored, listening, cmds, pending, pipe, wake_valid, stop, thread, loop, scratch>>

(* Mutant: the idle sweep is not told.                                     *)
StartStream_Timeout(c) == [c EXCEPT !.request = "none", !.close_after_send = FALSE, !.asked = TRUE]
(* SSEConnection::Start().                                                 *)
StartStream(c) ==
  [c EXCEPT !.request = "none", !.no_timeout = TRUE, !.close_after_send = FALSE, !.asked = TRUE]

(* GET /api/stream: upgradeSSE() up to the backlog.                        *)
ServeStream ==
  /\ At("process")
  /\ \E s \in Asking("stream") :
       /\ client' = [client EXCEPT ![s] = StartStream(@)]
       /\ sse' = Live \cup {Handle(s)}
       /\ topics' = IF Live = sse THEN topics ELSE Live # {}    \* by cleanupSSE()
       /\ loop' = [loop EXCEPT !.pc = "backlog", !.slot = s]
  /\ UNCHANGED <<stored, listening, cmds, pending, pipe, wake_valid, stop, thread, scratch>>

(* The snapshot of the log buffer is sent.                                 *)
SendBacklog ==
  /\ At("backlog")
  /\ SendFrames({loop.slot}, [m \in 1 .. stored |-> m])
  /\ Continue("publish")
  /\ UNCHANGED <<shared, thread, scratch, sse>>

(* republishTopics().                                                      *)
Publish ==
  /\ At("publish")
  /\ topics' = (sse # {})
  /\ loop' = [loop EXCEPT !.pc = "process", !.slot = 1]
  /\ UNCHANGED <<stored, listening, cmds, pending, pipe, wake_valid, stop, thread, scratch,
                 client, sse>>

Processed ==
  /\ At("process")
  /\ \A kind \in Requests \ {"none"} : Asking(kind) = {}
  /\ Continue("write")

EndProcessing ==
  /\ Processed
  /\ UNCHANGED <<shared, thread, scratch, client, sse>>

(* Mutant: the list is not cleaned up.                                     *)
Ping_KeepsDead ==
  /\ Processed
  /\ SendFrames(Streams, <<>>)
  /\ UNCHANGED <<shared, thread, scratch, sse>>

(* Every 20 s: Ping() each subscriber, then cleanupSSE().                  *)
Ping ==
  /\ Processed
  /\ SendFrames(Streams, <<>>)
  /\ sse' = {h \in Live : client'[h.slot].open}
  /\ topics' = IF sse' = sse THEN topics ELSE sse' # {}
  /\ UNCHANGED <<stored, listening, cmds, pending, pipe, wake_valid, stop, thread, scratch>>

(* writeClients() closes what was only waiting for its buffer to drain;    *)
(* then cleanUp() what may have been idle for 30 s.                        *)
WriteAndSweep ==
  /\ At("write")
  /\ \E S \in SUBSET {s \in Open : client[s].close_after_send \/ ~client[s].no_timeout} :
       client' = CloseSlots(S)
  /\ Continue("check")
  /\ UNCHANGED <<shared, thread, scratch, sse>>

-----------------------------------------------------------------------------
LoopStep ==
  \/ CheckStop \/ DrainFlag \/ DrainPipe \/ SwapQueue \/ Execute \/ Executed
  \/ Accept \/ AcceptNone \/ Read
  \/ ServePage \/ ServePassword \/ ServeStream \/ SendBacklog \/ Publish \/ EndProcessing
  \/ WriteAndSweep

Logging ==
  \E p \in Producers : Log(p) \/ CopyListeners(p) \/ ReadTopics(p) \/ Push(p)
Notifying == \E t \in Threads : NotifyFlag(t) \/ NotifyByte(t)
Closing == RemoveListener \/ SetStop \/ Join

Next ==
  \/ LoopStep \/ PollWakes \/ PollSocket \/ PollTimesOut \/ Ping
  \/ Logging \/ Notifying \/ Closing

(* The server thread and the threads inside log() run; poll() has a        *)
(* timeout, and the ping comes round.  No thread needs to log, no peer to  *)
(* do anything, and nobody has to close the server.                        *)
Fairness ==
  /\ WF_vars(LoopStep) /\ WF_vars(PollTimesOut) /\ SF_vars(Ping)
  /\ WF_vars(Notifying) /\ WF_vars(Join)

Spec == Init /\ [][Next]_vars /\ Fairness

-----------------------------------------------------------------------------
(* Properties.                                                             *)

Carried == {thread[p].msg : p \in {q \in Producers : thread[q].pc \in {"listeners", "topics", "push"}}}
Queued == Range(cmds) \cup Range(scratch)
Missing(s) == (1 .. stored) \ (Range(client[s].got) \cup Queued \cup Carried)
Served == Streams \ (IF At("backlog") THEN {loop.slot} ELSE {})

(* A subscriber has, or is about to be sent, every message in the log      *)
(* buffer, those logged while it subscribed and those of other producers   *)
(* included, and none more than the twice the comment on upgradeSSE()      *)
(* allows; excepted are those whose producer read the topics just before   *)
(* they were published.                                                    *)
StreamComplete ==
  \A s \in Served :
    /\ listening => Missing(s) \subseteq client[s].passed_by
    /\ \A m \in Messages : Cardinality({i \in DOMAIN client[s].got : client[s].got[i] = m}) =< 2

(* A peer is sent messages only if it asked for the stream itself: nothing *)
(* goes to whoever got the slot of a subscriber that left.                 *)
OwnIncarnation == \A s \in Open : client[s].got # <<>> => client[s].asked

(* A stream ends because its peer left or fell behind, or a logout closed  *)
(* it: the idle sweep, and the end of the request that opened it, spare it.*)
StreamKept ==
  [][At("write") => \A s \in Open : client[s].asked => client'[s].open]_vars

(* What was posted is executed, whatever happened to the wake handle, but  *)
(* for what is in the queue when the server stops.                         *)
PostedHandled == (cmds # <<>>) ~> (cmds = <<>> \/ stop)

(* close() gets its thread back: stopThread() ends the loop whether or not *)
(* its wake reaches poll().                                                *)
StopTerminates == stop ~> thread[Closer].pc = "closed"

(* A wake that gets lost delays the server's thread but never stops it.    *)
LostWakeHarmless == PostedHandled /\ StopTerminates

(* A subscriber whose connection is gone does not stay in the list, where  *)
(* it would keep producers building frames for nobody.                     *)
DeadReaped == (sse # Live) ~> (sse = Live \/ loop.pc = "ended")

(* SocketUtil.h: "a notify() racing the drain then leaves its byte for the *)
(* next poll rather than being lost".                                      *)
WakeNotLost ==
  (At("poll") /\ wake_valid /\ cmds # <<>> /\ \A t \in Threads : thread[t].pc \notin {"cas", "write"})
    => pipe > 0

(* HTTPServer.h: "A producer posting while this runs lands in both the     *)
(* backlog snapshot and the command queue".                                *)
BacklogGapless == \A s \in Served : listening => Missing(s) = {}

=============================================================================
