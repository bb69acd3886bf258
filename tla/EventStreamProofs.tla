-------------------------- MODULE EventStreamProofs -------------------------
(***************************************************************************)
(* Theorems about EventStream for any number of logging threads, slots,    *)
(* messages and connections.                                               *)
(***************************************************************************)
EXTENDS EventStream, SequenceTheorems, FiniteSetTheorems, TLAPS

(* The parts of the inductive invariant.                                   *)

(* A notification is under way at most once until the flag is cleared, so  *)
(* that at most one byte is added to the ones that are being drained.      *)
Coalesced ==
  /\ \A t, u \in Threads : thread[t].pc = "write" /\ thread[u].pc = "write" => t = u
  /\ \A t \in Threads : thread[t].pc = "write" =>
       pending /\ (pipe = 0 \/ (At("empty") /\ pipe = 1))
  /\ pipe =< 1 \/ (At("empty") /\ pending /\ pipe = 2)
  /\ pipe > 0 => pending \/ At("empty")
  /\ At("flag") \/ At("empty") => pipe > 0

(* A message is in one thread's hands, or in the queue once, or among the  *)
(* commands being executed once.                                           *)
InHand == {p \in Producers : thread[p].pc \in {"listeners", "topics", "push"}}
InFlight == Carried \cup Queued

InFlightOnce ==
  /\ \A p, q \in InHand : thread[p].msg = thread[q].msg => p = q
  /\ IsInjective(cmds) /\ IsInjective(scratch) /\ Range(cmds) \cap Range(scratch) = {}
  /\ Carried \cap Queued = {}
  /\ InFlight \subseteq 1 .. stored
  /\ ~At("execute") => scratch = <<>>

(* Who asked for the stream has no other request and is not swept.         *)
SlotSound(c) ==
  /\ c.got # <<>> => c.asked
  /\ c.asked => c.request = "none" /\ c.no_timeout /\ ~c.close_after_send

SlotsSound ==
  /\ \A s \in Slots : SlotSound(client[s])
  /\ At("backlog") => client[loop.slot].asked /\ client[loop.slot].got = <<>>

(* A handle is never ahead of its slot, and the peer it is for asked.      *)
HandlesCurrent ==
  \A h \in sse : h.gen =< client[h.slot].gen /\ (IsLive(h) => client[h.slot].asked)

(* Producers see the topics of every subscriber but the one being added.   *)
Published == \A h \in Live : topics \/ h.slot \in Subscribing

Once(g, m) == \A i, j \in DOMAIN g : g[i] = m /\ g[j] = m => i = j
Twice(g, m) == \A i, j, k \in DOMAIN g : g[i] = m /\ g[j] = m /\ g[k] = m => i = j \/ j = k \/ i = k

(* A message that is still to come was sent at most once.                  *)
SentTwice ==
  \A s \in Slots :
    /\ Range(client[s].got) \subseteq 1 .. stored
    /\ \A m \in Messages : Twice(client[s].got, m)
    /\ \A m \in InFlight : Once(client[s].got, m)

(* The first half of StreamComplete.                                       *)
NoneMissing == \A s \in Served : listening => Missing(s) \subseteq client[s].passed_by

IInv ==
  /\ TypeOK /\ Coalesced /\ InFlightOnce /\ SlotsSound /\ HandlesCurrent /\ Published
  /\ SentTwice /\ NoneMissing

-----------------------------------------------------------------------------
(* The threads.                                                            *)

ThreadState ==
  [pc : {"idle", "listeners", "topics", "push", "cas", "write", "unlisten", "stop", "join",
         "closed"},
   msg : 0 .. MaxLogs]

LEMMA ThreadsTyped ==
  TypeOK => thread \in [Threads -> ThreadState] /\ \A p \in Producers : p \in Threads
BY DEF TypeOK, ThreadState, Threads

LEMMA GotoMoves ==
  ASSUME TypeOK, NEW t \in Threads, NEW pc, Goto(t, pc),
         pc \in {"idle", "listeners", "topics", "push", "cas", "write", "unlisten", "stop", "join",
                 "closed"}
  PROVE  /\ thread' \in [Threads -> ThreadState]
         /\ thread'[t].pc = pc
         /\ pc \in {"topics", "push"} => thread'[t].msg = thread[t].msg
         /\ \A u \in Threads : u # t => thread'[u] = thread[u]
<1> DEFINE msg == IF pc \in {"topics", "push"} THEN thread[t].msg ELSE 0
<1>1. thread[t].msg \in 0 .. MaxLogs /\ MaxLogs \in Nat
  BY ThreadsTyped, StreamBounds DEF ThreadState
<1>2. thread' = [thread EXCEPT ![t] = [pc |-> pc, msg |-> msg]]
  BY Zenon DEF Goto
<1>3. [pc |-> pc, msg |-> msg] \in ThreadState
  BY <1>1 DEF ThreadState
<1>4. [pc |-> pc, msg |-> msg].pc = pc /\ [pc |-> pc, msg |-> msg].msg = msg
  OBVIOUS
<1> DEFINE x == [pc |-> pc, msg |-> msg]
<1> HIDE DEF x
<1>5. thread' = [thread EXCEPT ![t] = x] /\ x \in ThreadState /\ x.pc = pc /\ x.msg = msg
  BY <1>2, <1>3, <1>4 DEF x
<1>6. thread' \in [Threads -> ThreadState] /\ thread'[t] = x
      /\ \A u \in Threads : u # t => thread'[u] = thread[u]
  BY <1>5, ThreadsTyped
<1> QED
  BY <1>5, <1>6

(* Which steps move a thread at all.                                       *)
LoopOrPoll == LoopStep \/ PollWakes \/ PollSocket \/ PollTimesOut \/ Ping

LEMMA LoopLeavesThreads == LoopOrPoll => UNCHANGED thread
BY DEF LoopOrPoll, LoopStep, PollWakes, PollSocket, PollTimesOut, PollReturns, Ping, CheckStop,
   DrainFlag, DrainPipe, SwapQueue, Execute, Executed, Accept, AcceptNone, Read, ServePage,
   ServePassword, ServeStream, SendBacklog, Publish, EndProcessing, WriteAndSweep

LEMMA ThreadsLeaveLoop ==
  Logging \/ Notifying \/ Closing => UNCHANGED <<loop, scratch, sse, topics, wake_valid>>
BY DEF Logging, Notifying, Closing, Log, CopyListeners, ReadTopics, Push, NotifyFlag, NotifyByte,
   RemoveListener, SetStop, Join, shared

-----------------------------------------------------------------------------
(* The connections.                                                        *)

LEMMA NoConnectionTyped ==
  ASSUME NEW gen \in Nat
  PROVE  NoConnection(gen) \in Connections /\ SlotSound(NoConnection(gen))
         /\ [NoConnection(gen) EXCEPT !.open = TRUE] \in Connections
         /\ SlotSound([NoConnection(gen) EXCEPT !.open = TRUE])
<1>1. <<>> \in Seq(Messages)
  OBVIOUS
<1>2. NoConnection(gen) \in Connections /\ [NoConnection(gen) EXCEPT !.open = TRUE] \in Connections
  BY <1>1 DEF NoConnection, Connections, Requests
<1> QED
  BY <1>2 DEF NoConnection, SlotSound

(* What one step does to one slot, when msgs are sent.                     *)
Moves(c, d, msgs) ==
  \/ d = c
  \/ d = NoConnection(c.gen)
  \/ ~c.open /\ d = [NoConnection(c.gen + 1) EXCEPT !.open = TRUE]
  \/ ~c.asked /\ \E q \in Requests : d = [c EXCEPT !.request = q]
  \/ ~c.asked /\ d = [c EXCEPT !.request = "none", !.close_after_send = TRUE]
  \/ ~c.asked /\ d = StartStream(c)
  \/ c.asked /\ d = [c EXCEPT !.got = c.got \o msgs]
  \/ \E m \in Messages : d = [c EXCEPT !.passed_by = c.passed_by \cup {m}]

LEMMA MovesSoundly ==
  ASSUME NEW c \in Connections, SlotSound(c), NEW d, NEW msgs \in Seq(Messages), Moves(c, d, msgs)
  PROVE  /\ d \in Connections /\ SlotSound(d)
         /\ d.gen = c.gen => (d.open => c.open) /\ (d.open /\ c.asked => d.asked)
         /\ d.gen >= c.gen /\ (d.gen # c.gen => ~c.open /\ d.gen = c.gen + 1)
<1>1. c.gen \in Nat /\ c.gen + 1 \in Nat
  BY DEF Connections
<1>2. CASE d = c
  <2>1. c.gen >= c.gen
    BY <1>1
  <2> QED
    BY <1>2, <2>1, Zenon
<1>3. CASE d = NoConnection(c.gen)
  <2>1. d.gen = c.gen /\ d.open = FALSE
    BY <1>3 DEF NoConnection
  <2>2. d.gen >= c.gen
    BY <1>1, <2>1
  <2>3. d \in Connections /\ SlotSound(d)
    BY <1>1, <1>3, NoConnectionTyped
  <2> QED
    BY <2>1, <2>2, <2>3, Zenon
<1>4. CASE ~c.open /\ d = [NoConnection(c.gen + 1) EXCEPT !.open = TRUE]
  <2>1. d.gen = c.gen + 1 /\ d.gen >= c.gen /\ d.gen # c.gen
    BY <1>1, <1>4 DEF NoConnection
  <2> QED
    BY <1>1, <1>4, <2>1, NoConnectionTyped
<1>5. CASE ~c.asked /\ \E q \in Requests : d = [c EXCEPT !.request = q]
  <2>1. d \in Connections /\ d.gen = c.gen /\ d.open = c.open /\ d.asked = c.asked /\ d.got = c.got
    BY <1>5 DEF Connections
  <2> QED
    BY <1>1, <1>5, <2>1 DEF SlotSound
<1>6. CASE ~c.asked /\ d = [c EXCEPT !.request = "none", !.close_after_send = TRUE]
  <2>1. d \in Connections /\ d.gen = c.gen /\ d.open = c.open /\ d.asked = c.asked /\ d.got = c.got
    BY <1>6 DEF Connections, Requests
  <2> QED
    BY <1>1, <1>6, <2>1 DEF SlotSound
<1>7. CASE ~c.asked /\ d = StartStream(c)
  <2>1. d \in Connections /\ d.gen = c.gen /\ d.open = c.open /\ d.asked = TRUE /\ d.got = c.got
        /\ d.request = "none" /\ d.no_timeout = TRUE /\ d.close_after_send = FALSE
    BY <1>7 DEF Connections, Requests, StartStream
  <2> QED
    BY <1>1, <1>7, <2>1 DEF SlotSound
<1>8. CASE c.asked /\ d = [c EXCEPT !.got = c.got \o msgs]
  <2>2. c.got \o msgs \in Seq(Messages)
    BY ConcatProperties DEF Connections
  <2> DEFINE g == c.got \o msgs
  <2> HIDE DEF g
  <2>3. d = [c EXCEPT !.got = g] /\ g \in Seq(Messages)
    BY <1>8, <2>2 DEF g
  <2>4. d \in Connections /\ d.gen = c.gen /\ d.open = c.open /\ d.asked = c.asked
        /\ d.request = c.request /\ d.no_timeout = c.no_timeout
        /\ d.close_after_send = c.close_after_send
    BY <2>3 DEF Connections
  <2> QED
    BY <1>1, <1>8, <2>4 DEF SlotSound
<1>9. CASE \E m \in Messages : d = [c EXCEPT !.passed_by = c.passed_by \cup {m}]
  <2>1. d \in Connections /\ d.gen = c.gen /\ d.open = c.open /\ d.asked = c.asked
        /\ d.request = c.request /\ d.no_timeout = c.no_timeout
        /\ d.close_after_send = c.close_after_send /\ d.got = c.got
    BY <1>9 DEF Connections
  <2> QED
    BY <1>1, <2>1 DEF SlotSound
<1> QED
  BY <1>2, <1>3, <1>4, <1>5, <1>6, <1>7, <1>8, <1>9 DEF Moves

LEMMA StreamsAsked ==
  ASSUME TypeOK, HandlesCurrent, NEW s \in Streams
  PROVE  s \in Slots /\ client[s].open /\ client[s].asked
BY DEF TypeOK, HandlesCurrent, Streams, Live, IsLive

LEMMA FramesSent ==
  ASSUME TypeOK, NEW S, S \subseteq Slots, NEW msgs, SendFrames(S, msgs)
  PROVE  /\ client' = [s \in Slots |-> client'[s]]
         /\ \A s \in Slots :
              \/ s \notin S /\ client'[s] = client[s]
              \/ s \in S /\ client'[s] = NoConnection(client[s].gen)
              \/ s \in S /\ client'[s] = [client[s] EXCEPT !.got = client[s].got \o msgs]
<1>1. PICK failed \in SUBSET S :
        client' = [s \in Slots |-> IF s \in S \ failed THEN [client[s] EXCEPT !.got = @ \o msgs]
                                   ELSE CloseSlots(failed)[s]]
  BY DEF SendFrames
<1>2. client' = [s \in Slots |-> IF s \in S \ failed
                                 THEN [client[s] EXCEPT !.got = client[s].got \o msgs]
                                 ELSE CloseSlots(failed)[s]]
  BY <1>1, Zenon
<1>3. \A s \in Slots :
        CloseSlots(failed)[s] = IF s \in failed THEN NoConnection(client[s].gen) ELSE client[s]
  BY DEF CloseSlots
<1> DEFINE g(s) == [client[s] EXCEPT !.got = client[s].got \o msgs]
<1> HIDE DEF g
<1>4. \A s \in Slots : client'[s] = IF s \in S \ failed THEN g(s) ELSE CloseSlots(failed)[s]
  BY <1>2, Zenon DEF g
<1>5. \A s \in Slots :
        \/ s \notin S /\ client'[s] = client[s]
        \/ s \in S /\ client'[s] = NoConnection(client[s].gen)
        \/ s \in S /\ client'[s] = g(s)
  BY <1>3, <1>4
<1>6. client' = [s \in Slots |-> client'[s]]
  BY <1>2
<1> QED
  BY <1>5, <1>6 DEF g

(* The snapshot that is sent first.                                        *)
Snapshot == [m \in 1 .. stored |-> m]

LEMMA SnapshotProperties ==
  ASSUME TypeOK
  PROVE  /\ Snapshot \in Seq(Messages) /\ Len(Snapshot) = stored
         /\ DOMAIN Snapshot = 1 .. stored
         /\ \A m \in 1 .. stored : Snapshot[m] = m
<1>1. stored \in Nat /\ stored =< MaxLogs /\ MaxLogs \in Nat
  BY StreamBounds DEF TypeOK
<1>2. Snapshot \in [1 .. stored -> Messages]
  BY <1>1 DEF Snapshot, Messages
<1>3. Snapshot \in Seq(Messages)
  BY <1>1, <1>2, SeqDef
<1>4. DOMAIN Snapshot = 1 .. stored /\ \A m \in 1 .. stored : Snapshot[m] = m
  BY DEF Snapshot
<1>5. Len(Snapshot) \in Nat /\ DOMAIN Snapshot = 1 .. Len(Snapshot)
  BY <1>3, LenProperties
<1>6. Len(Snapshot) = stored
  BY <1>1, <1>4, <1>5
<1> QED
  BY <1>3, <1>4, <1>6

LEMMA HeadSent ==
  ASSUME TypeOK, scratch # <<>>
  PROVE  /\ Head(scratch) \in Messages /\ <<Head(scratch)>> \in Seq(Messages)
         /\ Tail(scratch) \in Seq(Messages)
<1>1. scratch \in Seq(Messages)
  BY DEF TypeOK
<1>2. Head(scratch) \in Messages /\ Tail(scratch) \in Seq(Messages)
  BY <1>1, HeadTailProperties
<1> QED
  BY <1>2

(* What the server thread sends to a slot.                                 *)
Sending(s) ==
  IF Execute THEN <<Head(scratch)>>
  ELSE IF At("backlog") /\ s = loop.slot THEN Snapshot ELSE <<>>

LEMMA SendingTyped ==
  ASSUME TypeOK, NEW s \in Slots
  PROVE  Sending(s) \in Seq(Messages)
<1>1. Execute => <<Head(scratch)>> \in Seq(Messages)
  BY HeadSent DEF Execute
<1>2. <<>> \in Seq(Messages)
  OBVIOUS
<1> QED
  BY <1>1, <1>2, SnapshotProperties DEF Sending

(* Every action moves the slots as Moves() says.                           *)
SlotsMove ==
  /\ client' = [s \in Slots |-> client'[s]]
  /\ \A s \in Slots : Moves(client[s], client'[s], Sending(s))

LEMMA StayMoves ==
  ASSUME TypeOK, UNCHANGED client
  PROVE  SlotsMove
<1>1. client = [s \in Slots |-> client[s]]
  BY DEF TypeOK
<1>2. \A s \in Slots : client'[s] = client[s]
  OBVIOUS
<1>3. client' = [s \in Slots |-> client'[s]]
  BY <1>1
<1> QED
  BY <1>2, <1>3, Zenon DEF SlotsMove, Moves

LEMMA SendMoves ==
  ASSUME TypeOK, NEW S, S \subseteq Slots, NEW msgs,
         \A s \in S : client[s].asked /\ Sending(s) = msgs, SendFrames(S, msgs)
  PROVE  SlotsMove
<1>1. /\ client' = [s \in Slots |-> client'[s]]
      /\ \A s \in Slots :
           \/ s \notin S /\ client'[s] = client[s]
           \/ s \in S /\ client'[s] = NoConnection(client[s].gen)
           \/ s \in S /\ client'[s] = [client[s] EXCEPT !.got = client[s].got \o msgs]
  BY FramesSent
<1> QED
  BY <1>1, Zenon DEF SlotsMove, Moves

LEMMA InHandTyped ==
  ASSUME TypeOK, InFlightOnce, NEW p \in InHand
  PROVE  p \in Producers /\ thread[p].msg \in InFlight /\ thread[p].msg \in 1 .. stored
         /\ thread[p].msg \in Messages /\ thread[p].msg \in Carried
<1>1. p \in Producers /\ thread[p].msg \in Carried
  BY DEF InHand, Carried
<1>2. thread[p].msg \in 1 .. stored
  BY <1>1 DEF InFlightOnce, InFlight
<1>3. stored \in Nat /\ stored =< MaxLogs /\ MaxLogs \in Nat
  BY StreamBounds DEF TypeOK
<1> QED
  BY <1>1, <1>2, <1>3 DEF InFlight, Messages

LEMMA SlotsMoved ==
  TypeOK /\ InFlightOnce /\ SlotsSound /\ HandlesCurrent /\ [Next]_vars => SlotsMove
<1> SUFFICES ASSUME TypeOK, InFlightOnce, SlotsSound, HandlesCurrent, [Next]_vars
             PROVE  SlotsMove
  OBVIOUS
<1>t. /\ client \in [Slots -> Connections] /\ client = [s \in Slots |-> client[s]]
      /\ \A s \in Slots : SlotSound(client[s])
  BY DEF TypeOK, SlotsSound
<1>s. Streams \subseteq Slots /\ \A s \in Streams : client[s].asked
  BY StreamsAsked
<1>a. \A kind \in {"page", "stream", "password"} : \A s \in Asking(kind) :
        s \in Slots /\ client[s].request = kind /\ ~client[s].asked
  BY <1>t DEF Asking, Open, SlotSound
<1>c. \A S : \A s \in Slots :
        CloseSlots(S)[s] = client[s] \/ CloseSlots(S)[s] = NoConnection(client[s].gen)
  BY DEF CloseSlots
<1>1. ASSUME NEW p \in Producers, ReadTopics(p)
      PROVE  SlotsMove
  <2> DEFINE marked(s) == ~topics /\ s \in Subscribing
             msg == thread[p].msg
  <2>1. client' = [s \in Slots |->
                     IF marked(s) THEN [client[s] EXCEPT !.passed_by = client[s].passed_by \cup {msg}]
                     ELSE client[s]]
    BY <1>1, Zenon DEF ReadTopics
  <2>2. msg \in Messages
    <3>1. p \in InHand
      BY <1>1 DEF ReadTopics, InHand
    <3> QED
      BY <3>1, InHandTyped
  <2> HIDE DEF marked, msg
  <2>3. \A s \in Slots :
          \/ client'[s] = client[s]
          \/ client'[s] = [client[s] EXCEPT !.passed_by = client[s].passed_by \cup {msg}]
    BY <2>1
  <2>4. client' = [s \in Slots |-> client'[s]]
    BY <2>1
  <2> QED
    BY <2>2, <2>3, <2>4, Zenon DEF SlotsMove, Moves
<1>2. CASE Execute
  <2>1. SendFrames(Streams, <<Head(scratch)>>) /\ \A s \in Streams : Sending(s) = <<Head(scratch)>>
    BY <1>2 DEF Execute, Sending
  <2> QED
    BY <1>s, <2>1, SendMoves
<1>3. CASE Accept
  <2>1. PICK s \in Slots \ Open :
          client' = [client EXCEPT ![s] = [NoConnection(client[s].gen + 1) EXCEPT !.open = TRUE]]
    BY <1>3 DEF Accept
  <2>2. s \in Slots /\ ~client[s].open
    BY <2>1 DEF Open
  <2> DEFINE d == [NoConnection(client[s].gen + 1) EXCEPT !.open = TRUE]
  <2> HIDE DEF d
  <2>3. client' = [client EXCEPT ![s] = d]
    BY <2>1 DEF d
  <2>4. client'[s] = d /\ \A u \in Slots : u # s => client'[u] = client[u]
    BY <1>t, <2>2, <2>3
  <2>5. client' = [u \in Slots |-> client'[u]]
    BY <1>t, <2>3
  <2> QED
    BY <2>2, <2>4, <2>5, Zenon DEF SlotsMove, Moves, d
<1>4. CASE Read
  <2>1. PICK gone \in SUBSET Open :
          \E asks \in [{s \in Open \ gone : ~client[s].asked /\ client[s].request = "none"}
                         -> Requests] :
            client' = [s \in Slots |-> IF s \in DOMAIN asks
                                       THEN [client[s] EXCEPT !.request = asks[s]]
                                       ELSE CloseSlots(gone)[s]]
    BY <1>4 DEF Read
  <2> DEFINE A == {s \in Open \ gone : ~client[s].asked /\ client[s].request = "none"}
  <2>2. PICK asks \in [A -> Requests] :
          client' = [s \in Slots |-> IF s \in DOMAIN asks
                                     THEN [client[s] EXCEPT !.request = asks[s]]
                                     ELSE CloseSlots(gone)[s]]
    BY <2>1
  <2>3. \A s \in DOMAIN asks : ~client[s].asked /\ asks[s] \in Requests
    OBVIOUS
  <2>4. client' = [s \in Slots |-> client'[s]]
    BY <2>2
  <2> DEFINE d(s) == [client[s] EXCEPT !.request = asks[s]]
  <2> HIDE DEF d
  <2>5. \A s \in Slots :
          \/ s \in DOMAIN asks /\ client'[s] = d(s)
          \/ client'[s] = CloseSlots(gone)[s]
    BY <2>2, Zenon DEF d
  <2>6. ASSUME NEW s \in Slots
        PROVE  Moves(client[s], client'[s], Sending(s))
    <3>1. CASE s \in DOMAIN asks /\ client'[s] = d(s)
      <4>1. ~client[s].asked /\ asks[s] \in Requests /\ client'[s] = [client[s] EXCEPT !.request = asks[s]]
        BY <2>3, <3>1 DEF d
      <4> QED
        BY <4>1, Zenon DEF Moves
    <3>2. CASE client'[s] = CloseSlots(gone)[s]
      BY <1>c, <3>2, Zenon DEF Moves
    <3> QED
      BY <2>5, <3>1, <3>2
  <2> QED
    BY <2>4, <2>6, Zenon DEF SlotsMove
<1>5. CASE ServePage
  <2>1. PICK s \in Asking("page") :
          client' = [client EXCEPT ![s].request = "none", ![s].close_after_send = TRUE]
    BY <1>5 DEF ServePage
  <2>2. s \in Slots /\ ~client[s].asked
    BY <1>a
  <2> DEFINE d == [client[s] EXCEPT !.request = "none", !.close_after_send = TRUE]
  <2>3. client' = [client EXCEPT ![s] = d]
    BY <1>t, <2>1, <2>2
  <2> HIDE DEF d
  <2>4. client'[s] = d /\ \A u \in Slots : u # s => client'[u] = client[u]
    BY <1>t, <2>2, <2>3
  <2>5. client' = [u \in Slots |-> client'[u]]
    BY <1>t, <2>3
  <2> QED
    BY <2>2, <2>4, <2>5, Zenon DEF SlotsMove, Moves, d
<1>6. CASE ServePassword
  <2>1. PICK s \in Asking("password") :
          client' = [CloseSlots(Streams) EXCEPT ![s].request = "none"]
    BY <1>6 DEF ServePassword
  <2>2. s \in Slots /\ ~client[s].asked /\ s \notin Streams
    BY <1>a, <1>s
  <2> DEFINE f == CloseSlots(Streams)
             d == [client[s] EXCEPT !.request = "none"]
  <2>3. f[s] = client[s] /\ f = [u \in Slots |-> f[u]]
    BY <2>2 DEF CloseSlots
  <2>4. \A u \in Slots : f[u] = client[u] \/ f[u] = NoConnection(client[u].gen)
    BY <1>c
  <2> HIDE DEF f
  <2>5. client' = [f EXCEPT ![s] = [f[s] EXCEPT !.request = "none"]]
    BY <2>1, Zenon DEF f
  <2>6. client' = [f EXCEPT ![s] = d]
    BY <2>3, <2>5, Zenon
  <2> HIDE DEF d
  <2>7. client'[s] = d /\ \A u \in Slots : u # s => client'[u] = f[u]
    BY <2>2, <2>3, <2>6
  <2>8. client' = [u \in Slots |-> client'[u]]
    BY <2>3, <2>6
  <2>9. "none" \in Requests
    BY DEF Requests
  <2> QED
    BY <2>2, <2>4, <2>7, <2>8, <2>9, Zenon DEF SlotsMove, Moves, d
<1>7. CASE ServeStream
  <2>1. PICK s \in Asking("stream") : client' = [client EXCEPT ![s] = StartStream(@)]
    BY <1>7 DEF ServeStream
  <2>2. s \in Slots /\ ~client[s].asked
    BY <1>a
  <2> DEFINE d == StartStream(client[s])
  <2>3. client' = [client EXCEPT ![s] = d]
    BY <2>1
  <2> HIDE DEF d
  <2>4. client'[s] = d /\ \A u \in Slots : u # s => client'[u] = client[u]
    BY <1>t, <2>2, <2>3
  <2>5. client' = [u \in Slots |-> client'[u]]
    BY <1>t, <2>3
  <2> QED
    BY <2>2, <2>4, <2>5, Zenon DEF SlotsMove, Moves, d
<1>8. CASE SendBacklog
  <2>1. At("backlog") /\ SendFrames({loop.slot}, Snapshot)
    BY <1>8 DEF SendBacklog, Snapshot
  <2>2. /\ {loop.slot} \subseteq Slots
        /\ \A s \in {loop.slot} : client[s].asked /\ Sending(s) = Snapshot
    BY <2>1 DEF TypeOK, SlotsSound, Sending, Execute, At
  <2> QED
    BY <2>1, <2>2, SendMoves
<1>9. CASE Ping
  <2>1. SendFrames(Streams, <<>>) /\ \A s \in Streams : Sending(s) = <<>>
    BY <1>9 DEF Ping, Processed, Sending, Execute, At
  <2> QED
    BY <1>s, <2>1, SendMoves
<1>10. CASE WriteAndSweep
  <2>1. PICK S : client' = CloseSlots(S)
    BY <1>10 DEF WriteAndSweep
  <2>2. client' = [s \in Slots |-> client'[s]]
    BY <2>1 DEF CloseSlots
  <2> QED
    BY <1>c, <2>1, <2>2, Zenon DEF SlotsMove, Moves
<1>11. CASE UNCHANGED client
  BY <1>11, StayMoves
<1>12. \/ \E p \in Producers : ReadTopics(p)
       \/ Execute \/ Accept \/ Read \/ ServePage \/ ServePassword \/ ServeStream \/ SendBacklog
       \/ Ping \/ WriteAndSweep \/ UNCHANGED client
  BY DEF Next, vars, LoopStep, Logging, Notifying, Closing, PollWakes, PollSocket, PollTimesOut,
     PollReturns, CheckStop, DrainFlag, DrainPipe, SwapQueue, Executed, AcceptNone, Publish,
     EndProcessing, Log, CopyListeners, Push, NotifyFlag, NotifyByte, RemoveListener, SetStop, Join
<1> QED
  BY <1>1, <1>2, <1>3, <1>4, <1>5, <1>6, <1>7, <1>8, <1>9, <1>10, <1>11, <1>12

-----------------------------------------------------------------------------
(* The server thread's way through a pass.                                 *)

LoopState ==
  [pc : {"check", "poll", "flag", "empty", "swap", "execute", "accept", "read", "process",
         "backlog", "publish", "write", "ended"},
   sock : BOOLEAN, slot : Slots]

Goes(from, to) == loop' \in LoopState /\ loop.pc = from /\ loop'.pc = to

LEMMA Continues ==
  ASSUME TypeOK, NEW from, At(from), NEW pc, Continue(pc),
         pc \in {"check", "poll", "flag", "empty", "swap", "execute", "accept", "read", "process",
                 "backlog", "publish", "write", "ended"}
  PROVE  Goes(from, pc) /\ loop'.slot = loop.slot
BY DEF TypeOK, LoopState, Goes, At, Continue

LEMMA LoopGoes ==
  ASSUME TypeOK, [Next]_vars
  PROVE  /\ loop' \in LoopState
         /\ Logging \/ Notifying \/ Closing \/ UNCHANGED vars => loop' = loop
         /\ CheckStop => Goes("check", "poll") \/ Goes("check", "ended")
         /\ PollWakes \/ PollSocket \/ PollTimesOut =>
              \/ pipe > 0 /\ Goes("poll", "flag")
              \/ ~(pipe > 0) /\ Goes("poll", "swap")
         /\ DrainFlag => Goes("flag", "empty")
         /\ DrainPipe => Goes("empty", "swap")
         /\ SwapQueue => Goes("swap", "execute")
         /\ Execute => loop.pc = "execute" /\ loop' = loop
         /\ Executed => Goes("execute", "accept") \/ Goes("execute", "process")
         /\ Accept \/ AcceptNone => Goes("accept", "read")
         /\ Read => Goes("read", "process")
         /\ ServePage \/ ServePassword => loop.pc = "process" /\ loop' = loop
         /\ ServeStream => Goes("process", "backlog")
         /\ SendBacklog => Goes("backlog", "publish") /\ loop'.slot = loop.slot
         /\ Publish => Goes("publish", "process")
         /\ EndProcessing \/ Ping => Goes("process", "write")
         /\ WriteAndSweep => Goes("write", "check")
<1>t. loop \in LoopState /\ 1 \in Slots
  BY StreamBounds DEF TypeOK, LoopState, Slots
<1>1. Logging \/ Notifying \/ Closing \/ UNCHANGED vars => loop' = loop
  BY ThreadsLeaveLoop DEF vars
<1>2. CheckStop => Goes("check", "poll") \/ Goes("check", "ended")
  <2> SUFFICES ASSUME CheckStop PROVE Goes("check", "poll") \/ Goes("check", "ended")
    OBVIOUS
  <2>1. At("check") /\ (Continue("ended") \/ Continue("poll"))
    BY DEF CheckStop
  <2> QED
    BY <2>1, Continues
<1>3. ASSUME PollWakes \/ PollSocket \/ PollTimesOut
      PROVE  \/ pipe > 0 /\ Goes("poll", "flag")
             \/ ~(pipe > 0) /\ Goes("poll", "swap")
  <2>1. PICK sock \in BOOLEAN : PollReturns(sock)
    BY <1>3 DEF PollWakes, PollSocket, PollTimesOut
  <2>2. /\ loop.pc = "poll"
        /\ loop' = [loop EXCEPT !.pc = IF pipe > 0 THEN "flag" ELSE "swap", !.sock = sock]
    BY <2>1 DEF PollReturns, At
  <2>3. CASE pipe > 0
    <3>1. loop' = [loop EXCEPT !.pc = "flag", !.sock = sock]
      BY <2>2, <2>3, Zenon
    <3> QED
      BY <1>t, <2>2, <2>3, <3>1 DEF Goes, LoopState
  <2>4. CASE ~(pipe > 0)
    <3>1. loop' = [loop EXCEPT !.pc = "swap", !.sock = sock]
      BY <2>2, <2>4, Zenon
    <3> QED
      BY <1>t, <2>2, <2>4, <3>1 DEF Goes, LoopState
  <2> QED
    BY <2>3, <2>4
<1>4. /\ DrainFlag => Goes("flag", "empty")
      /\ DrainPipe => Goes("empty", "swap")
      /\ SwapQueue => Goes("swap", "execute")
  BY Continues DEF DrainFlag, DrainPipe, SwapQueue
<1>5. Execute => loop.pc = "execute" /\ loop' = loop
  BY DEF Execute, At
<1>6. ASSUME Executed
      PROVE  Goes("execute", "accept") \/ Goes("execute", "process")
  <2>1. /\ loop.pc = "execute"
        /\ \E pc \in {"accept", "process"} : loop' = [loop EXCEPT !.pc = pc, !.sock = FALSE]
    <3>1. CASE loop.sock
      <4>1. loop' = [loop EXCEPT !.pc = "accept", !.sock = FALSE]
        BY <1>6, <3>1, Zenon DEF Executed
      <4> QED
        BY <1>6, <4>1 DEF Executed, At
    <3>2. CASE ~loop.sock
      <4>1. loop' = [loop EXCEPT !.pc = "process", !.sock = FALSE]
        BY <1>6, <3>2, Zenon DEF Executed
      <4> QED
        BY <1>6, <4>1 DEF Executed, At
    <3> QED
      BY <3>1, <3>2
  <2> QED
    BY <1>t, <2>1 DEF Goes, LoopState
<1>7. /\ Accept \/ AcceptNone => Goes("accept", "read")
      /\ Read => Goes("read", "process")
      /\ SendBacklog => Goes("backlog", "publish") /\ loop'.slot = loop.slot
      /\ EndProcessing \/ Ping => Goes("process", "write")
      /\ WriteAndSweep => Goes("write", "check")
  BY Continues DEF Accept, AcceptNone, Read, SendBacklog, EndProcessing, Ping, Processed,
     WriteAndSweep
<1>8. ServePage \/ ServePassword => loop.pc = "process" /\ loop' = loop
  BY DEF ServePage, ServePassword, At
<1>9. ASSUME ServeStream
      PROVE  Goes("process", "backlog")
  <2>1. At("process") /\ \E s \in Slots : loop' = [loop EXCEPT !.pc = "backlog", !.slot = s]
    BY <1>9 DEF ServeStream, Asking, Open
  <2> QED
    BY <1>t, <2>1 DEF Goes, LoopState, At
<1>10. Publish => Goes("publish", "process")
  BY <1>t DEF Publish, Goes, LoopState, At
<1>11. loop' \in LoopState
  BY <1>t, <1>1, <1>2, <1>3, <1>4, <1>5, <1>6, <1>7, <1>8, <1>9, <1>10
  DEF Next, LoopStep, Goes
<1> QED
  BY <1>1, <1>2, <1>3, <1>4, <1>5, <1>6, <1>7, <1>8, <1>9, <1>10, <1>11, Zenon

-----------------------------------------------------------------------------
(* Messages on their way.                                                  *)

LEMMA Appended ==
  ASSUME NEW S, NEW s \in Seq(S), NEW x \in S
  PROVE  /\ Append(s, x) \in Seq(S) /\ Range(Append(s, x)) = Range(s) \cup {x}
         /\ IsInjective(s) /\ x \notin Range(s) => IsInjective(Append(s, x))
<1> DEFINE t == Append(s, x)
           n == Len(s)
<1>1. n \in Nat /\ DOMAIN s = 1 .. n
  BY LenProperties
<1>2. t \in Seq(S) /\ Len(t) = n + 1 /\ (\A i \in 1 .. n : t[i] = s[i]) /\ t[n + 1] = x
  BY AppendProperties
<1>3. DOMAIN t = 1 .. (n + 1)
  BY <1>2, LenProperties
<1> HIDE DEF t, n
<1>4. \A i \in DOMAIN t : (i \in DOMAIN s /\ t[i] = s[i]) \/ (i = n + 1 /\ t[i] = x)
  BY <1>1, <1>2, <1>3
<1>5. \A i \in DOMAIN s : i \in DOMAIN t /\ t[i] = s[i]
  BY <1>1, <1>2, <1>3
<1>6. n + 1 \in DOMAIN t /\ t[n + 1] = x
  BY <1>1, <1>2, <1>3
<1>7. Range(t) = Range(s) \cup {x}
  BY <1>4, <1>5, <1>6 DEF Range
<1>8. IsInjective(s) /\ x \notin Range(s) => IsInjective(t)
  BY <1>4 DEF Range, IsInjective
<1> QED
  BY <1>2, <1>7, <1>8 DEF t

LEMMA Detached ==
  ASSUME NEW S, NEW s \in Seq(S), s # <<>>
  PROVE  /\ Head(s) \in S /\ Tail(s) \in Seq(S)
         /\ Range(s) = Range(Tail(s)) \cup {Head(s)}
         /\ IsInjective(s) => IsInjective(Tail(s)) /\ Head(s) \notin Range(Tail(s))
<1> DEFINE t == Tail(s)
           n == Len(s)
<1>1. n \in Nat \ {0} /\ DOMAIN s = 1 .. n
  BY EmptySeq, LenProperties
<1>2. Head(s) \in S /\ t \in Seq(S)
  BY HeadTailProperties
<1>3. Head(s) = s[1] /\ Len(t) = n - 1 /\ \A i \in 1 .. Len(t) : t[i] = s[i + 1]
  BY HeadTailProperties
<1>4. DOMAIN t = 1 .. (n - 1)
  BY <1>2, <1>3, LenProperties
<1> HIDE DEF t, n
<1>5. \A i \in DOMAIN t : i \in Nat /\ i + 1 \in DOMAIN s /\ i + 1 # 1 /\ t[i] = s[i + 1]
  BY <1>1, <1>3, <1>4
<1>6. \A i \in DOMAIN s : i = 1 \/ (i - 1 \in DOMAIN t /\ t[i - 1] = s[i])
  <2>1. \A i \in DOMAIN s : i = 1 \/ (i - 1 \in DOMAIN t /\ (i - 1) + 1 = i)
    BY <1>1, <1>4
  <2> QED
    BY <1>5, <2>1
<1>7. 1 \in DOMAIN s
  BY <1>1
<1>8. Range(s) = Range(t) \cup {Head(s)}
  BY <1>3, <1>5, <1>6, <1>7 DEF Range
<1>9. IsInjective(s) => Head(s) \notin Range(t)
  BY <1>3, <1>5, <1>7 DEF Range, IsInjective
<1>10. ASSUME IsInjective(s), NEW i \in DOMAIN t, NEW j \in DOMAIN t, t[i] = t[j]
       PROVE  i = j
  <2>1. i + 1 = j + 1 /\ i \in Nat /\ j \in Nat
    BY <1>5, <1>10 DEF IsInjective
  <2> QED
    BY <2>1
<1>11. IsInjective(s) => IsInjective(t)
  BY <1>10 DEF IsInjective
<1> QED
  BY <1>2, <1>8, <1>9, <1>11 DEF t

(* Nothing is logged, posted or executed, and a thread may let go of a     *)
(* message.                                                                *)
LEMMA LetGo ==
  ASSUME InFlightOnce, UNCHANGED <<stored, cmds, scratch>>, ~At("execute")' => scratch = <<>>,
         InHand' \subseteq InHand, \A p \in InHand' : thread'[p].msg = thread[p].msg
  PROVE  /\ InFlightOnce' /\ InFlight' \subseteq InFlight
         /\ \A p \in InHand : InHand' = InHand \ {p} => InFlight' = InFlight \ {thread[p].msg}
         /\ InHand' = InHand => InFlight' = InFlight
<1>1. /\ Carried = {thread[p].msg : p \in InHand}
      /\ Carried' = {thread'[p].msg : p \in InHand'}
  BY DEF Carried, InHand
<1>2. Queued' = Queued
  BY DEF Queued
<1>3. Carried' \subseteq Carried
  BY <1>1
<1>4. InFlightOnce'
  BY <1>1, <1>2, <1>3 DEF InFlightOnce, InFlight
<1>5. \A p \in InHand : InHand' = InHand \ {p} => InFlight' = InFlight \ {thread[p].msg}
  BY <1>1, <1>2 DEF InFlightOnce, InFlight
<1> QED
  BY <1>1, <1>2, <1>3, <1>4, <1>5 DEF InFlight

(* What a step does to the messages on their way: one is logged; a thread  *)
(* finds no listener, or no topics, and lets its message go; one is sent;  *)
(* or they stay.                                                           *)
FlightMoves ==
  \/ stored' = stored + 1 /\ InFlight' = InFlight \cup {stored + 1} /\ UNCHANGED <<client, sse, loop>>
  \/ ~listening /\ InFlight' \subseteq InFlight /\ UNCHANGED <<stored, client, sse, loop>>
  \/ /\ \E p \in InHand : ReadTopics(p) /\ InFlight' = InFlight \ {thread[p].msg}
     /\ ~topics /\ UNCHANGED <<stored, sse, loop>>
  \/ Execute /\ InFlight' = InFlight \ {Head(scratch)} /\ UNCHANGED <<stored, loop>>
  \/ InFlight' = InFlight /\ UNCHANGED stored

LEMMA LogFlies ==
  ASSUME TypeOK, InFlightOnce, NEW p \in Producers, Log(p)
  PROVE  InFlightOnce' /\ FlightMoves
<1> DEFINE x == [pc |-> "listeners", msg |-> stored + 1]
<1>1. /\ thread' = [thread EXCEPT ![p] = x] /\ stored' = stored + 1 /\ thread[p].pc = "idle"
      /\ UNCHANGED <<cmds, scratch, client, loop, sse>>
  BY DEF Log
<1>2. x.pc = "listeners" /\ x.msg = stored + 1
  OBVIOUS
<1> HIDE DEF x
<1>3. p \in Threads /\ thread'[p] = x /\ \A q \in Producers : q # p => thread'[q] = thread[q]
  BY <1>1, ThreadsTyped
<1>4. p \notin InHand /\ InHand' = InHand \cup {p}
  BY <1>1, <1>2, <1>3 DEF InHand
<1>5. thread'[p].msg = stored + 1 /\ \A q \in InHand : q # p /\ thread'[q].msg = thread[q].msg
  BY <1>2, <1>3, <1>4 DEF InHand
<1>6. /\ Carried = {thread[q].msg : q \in InHand}
      /\ Carried' = {thread'[q].msg : q \in InHand'}
  BY DEF Carried, InHand
<1>7. Queued' = Queued /\ Carried' = Carried \cup {stored + 1}
  BY <1>1, <1>4, <1>5, <1>6 DEF Queued
<1>8. stored \in Nat /\ InFlight \subseteq 1 .. stored
  BY DEF TypeOK, InFlightOnce
<1>9. InFlight' = InFlight \cup {stored + 1} /\ stored + 1 \notin InFlight
  BY <1>7, <1>8 DEF InFlight
<1>10. InFlight' \subseteq 1 .. stored'
  BY <1>1, <1>8, <1>9
<1>11. Carried' \cap Queued' = {}
  BY <1>7, <1>9 DEF InFlightOnce, InFlight
<1>12. \A q \in InHand : thread[q].msg # stored + 1
  BY <1>6, <1>9 DEF InFlight
<1>13. \A q, u \in InHand' : thread'[q].msg = thread'[u].msg => q = u
  BY <1>4, <1>5, <1>12 DEF InFlightOnce
<1>14. ~At("execute")' => scratch' = <<>>
  BY <1>1 DEF InFlightOnce, At
<1>15. InFlightOnce'
  BY <1>1, <1>10, <1>11, <1>13, <1>14 DEF InFlightOnce
<1> QED
  BY <1>1, <1>9, <1>15 DEF FlightMoves

(* A thread steps on with its message, or without it.                      *)
LEMMA GotoFlies ==
  ASSUME TypeOK, InFlightOnce, NEW t \in Threads, NEW pc, Goto(t, pc),
         UNCHANGED <<stored, cmds, scratch, loop>>,
         pc \in {"idle", "topics", "push", "cas", "write", "stop", "join", "closed"},
         pc \in {"topics", "push"} => t \in InHand
  PROVE  /\ InFlightOnce' /\ InFlight' \subseteq InFlight
         /\ t \in InHand /\ pc \in {"topics", "push"} => InFlight' = InFlight
         /\ t \in InHand /\ pc \notin {"topics", "push"} => InFlight' = InFlight \ {thread[t].msg}
         /\ t \notin InHand => InFlight' = InFlight
<1>1. /\ thread'[t].pc = pc
      /\ pc \in {"topics", "push"} => thread'[t].msg = thread[t].msg
      /\ \A u \in Threads : u # t => thread'[u] = thread[u]
  BY GotoMoves
<1>2. \A p \in Producers : p \in Threads
  BY ThreadsTyped
<1>3. /\ t \in InHand /\ pc \in {"topics", "push"} => InHand' = InHand
      /\ t \in InHand /\ pc \notin {"topics", "push"} => InHand' = InHand \ {t}
      /\ t \notin InHand => InHand' = InHand
  BY <1>1, <1>2 DEF InHand
<1>4. \A p \in InHand' : thread'[p].msg = thread[p].msg
  BY <1>1, <1>2, <1>3 DEF InHand
<1>5. ~At("execute")' => scratch = <<>>
  BY DEF InFlightOnce, At
<1>6. InHand' \subseteq InHand
  BY <1>3
<1> QED
  BY <1>3, <1>4, <1>5, <1>6, LetGo

LEMMA PushFlies ==
  ASSUME TypeOK, InFlightOnce, NEW p \in Producers, Push(p)
  PROVE  InFlightOnce' /\ FlightMoves
<1> DEFINE m == thread[p].msg
<1>1. /\ thread[p].pc = "push" /\ cmds' = Append(cmds, m) /\ Goto(p, "cas")
      /\ UNCHANGED <<stored, scratch, client, loop, sse>>
  BY DEF Push
<1>2. p \in Threads /\ p \in InHand
  BY <1>1, ThreadsTyped DEF InHand
<1>3. /\ thread'[p].pc = "cas"
      /\ \A u \in Threads : u # p => thread'[u] = thread[u]
  BY <1>1, <1>2, GotoMoves
<1>4. InHand' = InHand \ {p} /\ \A q \in InHand' : thread'[q].msg = thread[q].msg
  BY <1>2, <1>3, ThreadsTyped DEF InHand
<1>5. m \in Messages /\ m \in Carried
  BY <1>2, InHandTyped
<1>6. /\ Carried = {thread[q].msg : q \in InHand}
      /\ Carried' = {thread'[q].msg : q \in InHand'}
  BY DEF Carried, InHand
<1> HIDE DEF m
<1>7. \A q \in InHand : q # p => thread[q].msg # m
  BY <1>2 DEF InFlightOnce, m
<1>8. Carried' = Carried \ {m}
  BY <1>2, <1>4, <1>6, <1>7 DEF m
<1>9. m \notin Range(cmds) /\ m \notin Range(scratch)
  BY <1>5 DEF InFlightOnce, Queued
<1>10. Range(cmds') = Range(cmds) \cup {m} /\ IsInjective(cmds')
  BY <1>1, <1>5, <1>9, Appended DEF TypeOK, InFlightOnce
<1>11. Queued' = Queued \cup {m}
  BY <1>1, <1>10 DEF Queued
<1>12. InFlight' = InFlight
  BY <1>5, <1>8, <1>11 DEF InFlight
<1>13. Carried' \cap Queued' = {}
  BY <1>8, <1>11 DEF InFlightOnce
<1>14. Range(cmds') \cap Range(scratch') = {} /\ IsInjective(scratch')
  BY <1>1, <1>9, <1>10 DEF InFlightOnce
<1>15. \A q, u \in InHand' : thread'[q].msg = thread'[u].msg => q = u
  BY <1>4 DEF InFlightOnce
<1>16. (~At("execute")' => scratch' = <<>>) /\ InFlight' \subseteq 1 .. stored'
  BY <1>1, <1>12 DEF InFlightOnce, At
<1>17. InFlightOnce'
  BY <1>10, <1>13, <1>14, <1>15, <1>16 DEF InFlightOnce
<1> QED
  BY <1>1, <1>12, <1>17 DEF FlightMoves

LEMMA QueueFlies ==
  ASSUME TypeOK, InFlightOnce, [Next]_vars, SwapQueue \/ Execute
  PROVE  InFlightOnce' /\ FlightMoves
<1>1. /\ UNCHANGED <<stored, thread>>
      /\ InHand' = InHand /\ Carried' = Carried
  BY DEF SwapQueue, Execute, InHand, Carried
<1>2. CASE SwapQueue
  <2>1. scratch' = cmds /\ cmds' = <<>>
    BY <1>2 DEF SwapQueue
  <2>2. loop'.pc = "execute" /\ loop.pc = "swap"
    BY <1>2, LoopGoes DEF Goes
  <2>3. scratch = <<>>
    BY <2>2 DEF InFlightOnce, At
  <2>4. Range(<<>>) = {} /\ IsInjective(<<>>)
    BY DEF Range, IsInjective
  <2>5. Queued' = Queued
    BY <2>1, <2>3, <2>4 DEF Queued
  <2>6. InFlight' = InFlight
    BY <1>1, <2>5 DEF InFlight
  <2>7. InFlightOnce'
    BY <1>1, <2>1, <2>2, <2>4, <2>5, <2>6 DEF InFlightOnce, At
  <2> QED
    BY <1>1, <2>6, <2>7 DEF FlightMoves
<1>3. CASE Execute
  <2>1. scratch # <<>> /\ scratch' = Tail(scratch) /\ UNCHANGED <<cmds, loop>> /\ At("execute")
    BY <1>3 DEF Execute
  <2> DEFINE m == Head(scratch)
  <2>2. /\ Range(scratch) = Range(scratch') \cup {m}
        /\ IsInjective(scratch') /\ m \notin Range(scratch')
    BY <2>1, Detached DEF TypeOK, InFlightOnce
  <2> HIDE DEF m
  <2>3. Queued' = Queued \ {m} /\ m \in Queued
    BY <2>1, <2>2 DEF Queued, InFlightOnce
  <2>4. InFlight' = InFlight \ {m}
    BY <1>1, <2>3 DEF InFlight, InFlightOnce
  <2>5. InFlightOnce'
    BY <1>1, <2>1, <2>2, <2>3, <2>4 DEF InFlightOnce, At
  <2> QED
    BY <1>1, <1>3, <2>1, <2>4, <2>5 DEF FlightMoves, m
<1> QED
  BY <1>2, <1>3

LEMMA FlightStep ==
  ASSUME TypeOK, InFlightOnce, [Next]_vars
  PROVE  InFlightOnce' /\ FlightMoves
<1>t. \A p \in Producers : p \in Threads
  BY ThreadsTyped
<1>1. ASSUME NEW p \in Producers, Log(p)
      PROVE  InFlightOnce' /\ FlightMoves
  BY <1>1, LogFlies
<1>2. ASSUME NEW p \in Producers, CopyListeners(p)
      PROVE  InFlightOnce' /\ FlightMoves
  <2>1. /\ p \in Threads /\ p \in InHand /\ UNCHANGED <<stored, cmds, scratch, loop, client, sse>>
    BY <1>t, <1>2 DEF CopyListeners, InHand, shared
  <2>2. CASE listening
    <3>1. Goto(p, "topics")
      BY <1>2, <2>2, Zenon DEF CopyListeners
    <3>2. InFlightOnce' /\ InFlight' = InFlight
      BY <2>1, <3>1, GotoFlies
    <3> QED
      BY <2>1, <3>2 DEF FlightMoves
  <2>3. CASE ~listening
    <3>1. Goto(p, "idle")
      BY <1>2, <2>3, Zenon DEF CopyListeners
    <3>2. InFlightOnce' /\ InFlight' \subseteq InFlight
      BY <2>1, <3>1, GotoFlies
    <3> QED
      BY <2>1, <2>3, <3>2, Zenon DEF FlightMoves
  <2> QED
    BY <2>2, <2>3
<1>3. ASSUME NEW p \in Producers, ReadTopics(p)
      PROVE  InFlightOnce' /\ FlightMoves
  <2>1. /\ p \in Threads /\ p \in InHand /\ UNCHANGED <<stored, cmds, scratch, loop, sse>>
    BY <1>t, <1>3 DEF ReadTopics, InHand, shared
  <2>2. CASE topics
    <3>1. Goto(p, "push")
      BY <1>3, <2>2, Zenon DEF ReadTopics
    <3>2. InFlightOnce' /\ InFlight' = InFlight
      BY <2>1, <3>1, GotoFlies
    <3> QED
      BY <2>1, <3>2 DEF FlightMoves
  <2>3. CASE ~topics
    <3>1. Goto(p, "idle")
      BY <1>3, <2>3, Zenon DEF ReadTopics
    <3>2. InFlightOnce' /\ InFlight' = InFlight \ {thread[p].msg}
      BY <2>1, <3>1, GotoFlies
    <3> QED
      BY <1>3, <2>1, <2>3, <3>2, Zenon DEF FlightMoves
  <2> QED
    BY <2>2, <2>3
<1>4. ASSUME NEW p \in Producers, Push(p)
      PROVE  InFlightOnce' /\ FlightMoves
  BY <1>4, PushFlies
<1>5. CASE Notifying \/ Closing
  <2>1. PICK t \in Threads, pc \in {"idle", "cas", "write", "stop", "join", "closed"} :
          /\ Goto(t, pc) /\ thread[t].pc \in {"cas", "write", "unlisten", "stop", "join"}
          /\ UNCHANGED <<stored, cmds, scratch, loop>>
    <3>1. CASE Notifying
      <4>1. PICK t \in Threads : NotifyFlag(t) \/ NotifyByte(t)
        BY <3>1 DEF Notifying
      <4>2. /\ \/ Goto(t, "join") \/ Goto(t, "idle") \/ Goto(t, "write")
            /\ thread[t].pc \in {"cas", "write"} /\ UNCHANGED <<stored, cmds, scratch, loop>>
        BY <4>1 DEF NotifyFlag, NotifyByte, AfterNotify
      <4> QED
        BY <4>2
    <3>2. CASE Closing
      <4>1. Closer \in Threads
        BY DEF Threads
      <4>2. /\ \/ Goto(Closer, "stop") \/ Goto(Closer, "cas") \/ Goto(Closer, "closed")
            /\ thread[Closer].pc \in {"unlisten", "stop", "join"}
            /\ UNCHANGED <<stored, cmds, scratch, loop>>
        BY <3>2 DEF Closing, RemoveListener, SetStop, Join, shared
      <4> QED
        BY <4>1, <4>2
    <3> QED
      BY <1>5, <3>1, <3>2
  <2>2. t \notin InHand
    BY <2>1 DEF InHand
  <2>3. InFlightOnce' /\ InFlight' = InFlight
    BY <2>1, <2>2, GotoFlies
  <2> QED
    BY <2>1, <2>3 DEF FlightMoves
<1>6. CASE SwapQueue \/ Execute
  BY <1>6, QueueFlies
<1>7. CASE \/ PollWakes \/ PollSocket \/ PollTimesOut \/ Ping \/ CheckStop \/ DrainFlag \/ DrainPipe
           \/ Executed \/ Accept \/ AcceptNone \/ Read \/ ServePage \/ ServePassword \/ ServeStream
           \/ SendBacklog \/ Publish \/ EndProcessing \/ WriteAndSweep \/ UNCHANGED vars
  <2>1. UNCHANGED <<stored, cmds, scratch, thread>>
    BY <1>7 DEF PollWakes, PollSocket, PollTimesOut, PollReturns, Ping, CheckStop, DrainFlag,
       DrainPipe, Executed, Accept, AcceptNone, Read, ServePage, ServePassword, ServeStream,
       SendBacklog, Publish, EndProcessing, WriteAndSweep, vars, shared
  <2>2. ~At("execute")' => scratch = <<>>
    <3>1. CASE Executed
      BY <3>1 DEF Executed
    <3>2. CASE ~Executed
      <4>1. At("execute") => At("execute")'
        BY <1>7, <3>2, LoopGoes DEF Goes, At
      <4> QED
        BY <4>1 DEF InFlightOnce
    <3> QED
      BY <3>1, <3>2
  <2>3. InHand' = InHand
    BY <2>1 DEF InHand
  <2>4. InFlightOnce' /\ InFlight' = InFlight
    BY <2>1, <2>2, <2>3, LetGo
  <2> QED
    BY <2>1, <2>4 DEF FlightMoves
<1> QED
  BY <1>1, <1>2, <1>3, <1>4, <1>5, <1>6, <1>7 DEF Next, LoopStep, Logging

-----------------------------------------------------------------------------
(* The wake handle.                                                        *)

LEMMA CoalescedStep ==
  TypeOK /\ Coalesced /\ [Next]_vars => Coalesced' /\ pipe' \in 0 .. 2
<1> SUFFICES ASSUME TypeOK, Coalesced, [Next]_vars
             PROVE  Coalesced' /\ pipe' \in 0 .. 2
  OBVIOUS
<1>t. pipe \in 0 .. 2 /\ pending \in BOOLEAN
  BY DEF TypeOK
<1>p. \A p \in Producers : p \in Threads
  BY ThreadsTyped
(* A thread that is not at the byte does not come there but by the flag.   *)
<1>1. ASSUME UNCHANGED <<pending, pipe, loop>>,
             \A u \in Threads : thread'[u].pc = "write" => thread[u].pc = "write"
      PROVE  Coalesced' /\ pipe' \in 0 .. 2
  BY <1>1, <1>t DEF Coalesced, At
<1>2. ASSUME NEW t \in Threads, NEW pc \in {"idle", "topics", "push", "cas", "stop", "join", "closed"},
             Goto(t, pc), UNCHANGED <<pending, pipe, loop>>
      PROVE  Coalesced' /\ pipe' \in 0 .. 2
  <2>1. \A u \in Threads : thread'[u].pc = "write" => thread[u].pc = "write"
    BY <1>2, GotoMoves
  <2> QED
    BY <1>1, <1>2, <2>1
<1>3. ASSUME NEW p \in Producers, Log(p)
      PROVE  Coalesced' /\ pipe' \in 0 .. 2
  <2> DEFINE x == [pc |-> "listeners", msg |-> stored + 1]
  <2>1. thread' = [thread EXCEPT ![p] = x] /\ x.pc = "listeners"
        /\ UNCHANGED <<pending, pipe, loop>>
    BY <1>3 DEF Log
  <2> HIDE DEF x
  <2>2. \A u \in Threads : thread'[u] = x \/ thread'[u] = thread[u]
    BY <2>1, ThreadsTyped
  <2> QED
    BY <1>1, <2>1, <2>2
<1>4. ASSUME NEW p \in Producers, CopyListeners(p) \/ ReadTopics(p) \/ Push(p)
      PROVE  Coalesced' /\ pipe' \in 0 .. 2
  <2>1. /\ \E pc \in {"topics", "idle", "push", "cas"} : Goto(p, pc)
        /\ UNCHANGED <<pending, pipe, loop>>
    BY <1>4 DEF CopyListeners, ReadTopics, Push, shared
  <2> QED
    BY <1>2, <1>p, <2>1
<1>5. CASE Closing
  <2>1. /\ \E pc \in {"stop", "cas", "closed"} : Goto(Closer, pc)
        /\ UNCHANGED <<pending, pipe, loop>>
    BY <1>5 DEF Closing, RemoveListener, SetStop, Join, shared
  <2>2. Closer \in Threads
    BY DEF Threads
  <2> QED
    BY <1>2, <2>1, <2>2
<1>6. ASSUME NEW t \in Threads, NotifyFlag(t)
      PROVE  Coalesced' /\ pipe' \in 0 .. 2
  <2>1. pending' = TRUE /\ UNCHANGED <<pipe, loop>>
    BY <1>6 DEF NotifyFlag
  <2>2. CASE Goto(t, "write") /\ ~pending
    <3>1. thread'[t].pc = "write" /\ \A u \in Threads : u # t => thread'[u] = thread[u]
      BY <2>2, GotoMoves
    <3>2. \A u \in Threads : thread[u].pc # "write"
      BY <2>2 DEF Coalesced
    <3>3. \A u \in Threads : thread'[u].pc = "write" => u = t
      BY <3>1, <3>2
    <3>4. pipe = 0 \/ (At("empty") /\ pipe = 1)
      BY <1>t, <2>2 DEF Coalesced
    <3> QED
      BY <1>t, <2>1, <3>3, <3>4 DEF Coalesced, At
  <2>3. CASE \E pc \in {"join", "idle"} : Goto(t, pc)
    <3>1. \A u \in Threads : thread'[u].pc = "write" => thread[u].pc = "write"
      BY <2>3, GotoMoves
    <3> QED
      BY <1>t, <2>1, <3>1 DEF Coalesced, At
  <2>4. (Goto(t, "write") /\ ~pending) \/ \E pc \in {"join", "idle"} : Goto(t, pc)
    <3>1. CASE pending \/ ~wake_valid
      <4>1. Goto(t, AfterNotify(t))
        BY <1>6, <3>1, Zenon DEF NotifyFlag
      <4> QED
        BY <4>1 DEF AfterNotify
    <3>2. CASE ~(pending \/ ~wake_valid)
      <4>1. Goto(t, "write")
        BY <1>6, <3>2, Zenon DEF NotifyFlag
      <4> QED
        BY <3>2, <4>1
    <3> QED
      BY <3>1, <3>2
  <2> QED
    BY <2>2, <2>3, <2>4
<1>7. ASSUME NEW t \in Threads, NotifyByte(t)
      PROVE  Coalesced' /\ pipe' \in 0 .. 2
  <2>1. /\ thread[t].pc = "write" /\ pipe' = pipe + 1 /\ UNCHANGED <<pending, loop>>
        /\ \E pc \in {"join", "idle"} : Goto(t, pc)
    BY <1>7 DEF NotifyByte, AfterNotify
  <2>2. /\ thread'[t].pc # "write"
        /\ \A u \in Threads : u # t => thread'[u] = thread[u]
    BY <2>1, GotoMoves
  <2>3. \A u \in Threads : thread'[u].pc # "write"
    BY <2>1, <2>2 DEF Coalesced
  <2>4. pending /\ (pipe = 0 \/ (At("empty") /\ pipe = 1))
    BY <2>1 DEF Coalesced
  <2> QED
    BY <1>t, <2>1, <2>3, <2>4 DEF Coalesced, At
<1>8. CASE PollWakes \/ PollSocket \/ PollTimesOut
  <2>1. UNCHANGED <<pending, pipe, thread>>
    BY <1>8 DEF PollWakes, PollSocket, PollTimesOut, PollReturns, shared
  <2>2. \/ pipe > 0 /\ loop.pc = "poll" /\ loop'.pc = "flag"
        \/ ~(pipe > 0) /\ loop.pc = "poll" /\ loop'.pc = "swap"
    BY <1>8, LoopGoes DEF Goes
  <2> QED
    BY <1>t, <2>1, <2>2 DEF Coalesced, At
<1>9. CASE DrainFlag
  <2>1. pending' = FALSE /\ UNCHANGED <<pipe, thread>> /\ loop.pc = "flag" /\ loop'.pc = "empty"
    BY <1>9, LoopGoes DEF DrainFlag, Goes
  <2>2. pipe = 1 /\ \A t \in Threads : thread[t].pc # "write"
    BY <1>t, <2>1 DEF Coalesced, At
  <2> QED
    BY <2>1, <2>2 DEF Coalesced, At
<1>10. CASE DrainPipe
  <2>1. pipe' = 0 /\ UNCHANGED <<pending, thread>> /\ loop.pc = "empty" /\ loop'.pc = "swap"
    BY <1>10, LoopGoes DEF DrainPipe, Goes
  <2> QED
    BY <2>1 DEF Coalesced, At
<1>11. CASE \/ CheckStop \/ SwapQueue \/ Execute \/ Executed \/ Accept \/ AcceptNone \/ Read
            \/ ServePage \/ ServePassword \/ ServeStream \/ SendBacklog \/ Publish \/ EndProcessing
            \/ WriteAndSweep \/ Ping \/ UNCHANGED vars
  <2>1. UNCHANGED <<pending, pipe, thread>>
    BY <1>11 DEF CheckStop, SwapQueue, Execute, Executed, Accept, AcceptNone, Read, ServePage,
       ServePassword, ServeStream, SendBacklog, Publish, EndProcessing, WriteAndSweep, Ping, vars,
       shared
  <2>2. loop' = loop \/ (loop.pc \notin {"flag", "empty"} /\ loop'.pc \notin {"flag", "empty"})
    BY <1>11, LoopGoes DEF Goes
  <2> QED
    BY <1>t, <2>1, <2>2 DEF Coalesced, At
<1> QED
  BY <1>3, <1>4, <1>5, <1>6, <1>7, <1>8, <1>9, <1>10, <1>11
  DEF Next, LoopStep, Logging, Notifying

-----------------------------------------------------------------------------
(* The types.                                                              *)

LEMMA QueuesTyped ==
  ASSUME TypeOK, InFlightOnce, [Next]_vars
  PROVE  cmds' \in Seq(Messages) /\ scratch' \in Seq(Messages)
<1>t. cmds \in Seq(Messages) /\ scratch \in Seq(Messages)
  BY DEF TypeOK
<1>1. ASSUME NEW p \in Producers, Push(p)
      PROVE  cmds' \in Seq(Messages) /\ scratch' \in Seq(Messages)
  <2>1. p \in InHand /\ cmds' = Append(cmds, thread[p].msg) /\ scratch' = scratch
    BY <1>1 DEF Push, InHand
  <2>2. thread[p].msg \in Messages
    BY <2>1, InHandTyped
  <2> QED
    BY <1>t, <2>1, <2>2, AppendProperties
<1>2. CASE SwapQueue
  BY <1>t, <1>2 DEF SwapQueue
<1>3. CASE Execute
  <2>1. scratch # <<>> /\ scratch' = Tail(scratch) /\ cmds' = cmds
    BY <1>3 DEF Execute
  <2> QED
    BY <1>t, <2>1, HeadSent
<1>4. CASE UNCHANGED <<cmds, scratch>>
  BY <1>t, <1>4
<1> QED
  BY <1>1, <1>2, <1>3, <1>4
  DEF Next, vars, shared, LoopStep, Logging, Notifying, Closing, PollWakes, PollSocket,
      PollTimesOut, PollReturns, CheckStop, DrainFlag, DrainPipe, Executed, Accept, AcceptNone,
      Read, ServePage, ServePassword, ServeStream, SendBacklog, Publish, EndProcessing, Ping,
      WriteAndSweep, Log, CopyListeners, ReadTopics, NotifyFlag, NotifyByte, RemoveListener,
      SetStop, Join

LEMMA ThreadsStayTyped ==
  ASSUME TypeOK, [Next]_vars
  PROVE  thread' \in [Threads -> ThreadState] /\ stored' \in 0 .. MaxLogs
<1>t. thread \in [Threads -> ThreadState] /\ stored \in 0 .. MaxLogs /\ MaxLogs \in Nat
      /\ \A p \in Producers : p \in Threads
  BY ThreadsTyped, StreamBounds DEF TypeOK
<1>1. ASSUME NEW p \in Producers, Log(p)
      PROVE  thread' \in [Threads -> ThreadState] /\ stored' \in 0 .. MaxLogs
  <2> DEFINE x == [pc |-> "listeners", msg |-> stored + 1]
  <2>1. thread' = [thread EXCEPT ![p] = x] /\ stored' = stored + 1 /\ stored < MaxLogs
    BY <1>1 DEF Log
  <2>2. stored' \in 0 .. MaxLogs /\ stored + 1 \in 0 .. MaxLogs
    BY <1>t, <2>1
  <2>3. x \in ThreadState
    BY <2>2 DEF ThreadState
  <2> HIDE DEF x
  <2> QED
    BY <1>t, <2>1, <2>2, <2>3
<1>2. ASSUME NEW t \in Threads,
             NEW pc \in {"idle", "topics", "push", "cas", "write", "stop", "join", "closed"},
             Goto(t, pc), UNCHANGED stored
      PROVE  thread' \in [Threads -> ThreadState] /\ stored' \in 0 .. MaxLogs
  BY <1>t, <1>2, GotoMoves
<1>3. ASSUME NEW p \in Producers, CopyListeners(p) \/ ReadTopics(p) \/ Push(p)
      PROVE  thread' \in [Threads -> ThreadState] /\ stored' \in 0 .. MaxLogs
  <2>1. /\ \E pc \in {"topics", "idle", "push", "cas"} : Goto(p, pc)
        /\ UNCHANGED stored
    BY <1>3 DEF CopyListeners, ReadTopics, Push, shared
  <2> QED
    BY <1>2, <1>t, <2>1
<1>4. CASE Closing
  <2>1. /\ \E pc \in {"stop", "cas", "closed"} : Goto(Closer, pc)
        /\ UNCHANGED stored
    BY <1>4 DEF Closing, RemoveListener, SetStop, Join, shared
  <2>2. Closer \in Threads
    BY DEF Threads
  <2> QED
    BY <1>2, <2>1, <2>2
<1>5. CASE Notifying
  <2>1. PICK t \in Threads : NotifyFlag(t) \/ NotifyByte(t)
    BY <1>5 DEF Notifying
  <2>2. /\ \E pc \in {"join", "idle", "write"} : Goto(t, pc)
        /\ UNCHANGED stored
    BY <2>1 DEF NotifyFlag, NotifyByte, AfterNotify
  <2> QED
    BY <1>2, <2>2
<1>6. CASE UNCHANGED <<thread, stored>>
  BY <1>t, <1>6
<1>7. LoopOrPoll \/ UNCHANGED vars => UNCHANGED <<thread, stored>>
  BY LoopLeavesThreads DEF vars, shared, LoopOrPoll, LoopStep, PollWakes, PollSocket,
      PollTimesOut, PollReturns, CheckStop, DrainFlag, DrainPipe, SwapQueue, Execute, Executed,
      Accept, AcceptNone, Read, ServePage, ServePassword, ServeStream, SendBacklog, Publish,
      EndProcessing, Ping, WriteAndSweep
<1> QED
  BY <1>1, <1>3, <1>4, <1>5, <1>6, <1>7 DEF Next, Logging, LoopOrPoll

LEMMA StreamServed ==
  ASSUME TypeOK, SlotsSound, ServeStream
  PROVE  \E s \in Slots :
           /\ ~client[s].asked /\ client[s].got = <<>>
           /\ client'[s] = StartStream(client[s])
           /\ \A u \in Slots : u # s => client'[u] = client[u]
           /\ sse' = Live \cup {Handle(s)}
           /\ topics' = IF Live = sse THEN topics ELSE Live # {}
           /\ loop.pc = "process" /\ loop'.pc = "backlog" /\ loop'.slot = s
<1>1. PICK s \in Asking("stream") :
        /\ client' = [client EXCEPT ![s] = StartStream(@)]
        /\ sse' = Live \cup {Handle(s)}
        /\ topics' = IF Live = sse THEN topics ELSE Live # {}
        /\ loop' = [loop EXCEPT !.pc = "backlog", !.slot = s]
  BY DEF ServeStream
<1>2. s \in Slots /\ client[s].request = "stream"
  BY DEF Asking, Open
<1>3. ~client[s].asked /\ client[s].got = <<>>
  BY <1>2 DEF SlotsSound, SlotSound
<1> DEFINE d == StartStream(client[s])
<1>4. client' = [client EXCEPT ![s] = d]
  BY <1>1
<1> HIDE DEF d
<1>5. client'[s] = d /\ \A u \in Slots : u # s => client'[u] = client[u]
  BY <1>2, <1>4 DEF TypeOK
<1>6. loop.pc = "process" /\ loop'.pc = "backlog" /\ loop'.slot = s
  BY <1>1 DEF TypeOK, ServeStream, At
<1> QED
  BY <1>1, <1>2, <1>3, <1>5, <1>6, Zenon DEF d

(* Nobody becomes a subscriber but by asking.                              *)
LEMMA SubscribersLeave ==
  ASSUME [Next]_vars, ~ServeStream
  PROVE  sse' \subseteq sse
BY DEF Next, vars, shared, LoopStep, Logging, Notifying, Closing, PollWakes, PollSocket,
   PollTimesOut, PollReturns, CheckStop, DrainFlag, DrainPipe, SwapQueue, Execute, Executed,
   Accept, AcceptNone, Read, ServePage, ServePassword, SendBacklog, Publish, EndProcessing, Ping,
   WriteAndSweep, Log, CopyListeners, ReadTopics, Push, NotifyFlag, NotifyByte, RemoveListener,
   SetStop, Join, CleanupSSE, Live

LEMMA FlagsTyped ==
  ASSUME TypeOK, [Next]_vars
  PROVE  {listening', pending', wake_valid', stop', topics'} \subseteq BOOLEAN
<1>t. listening \in BOOLEAN /\ pending \in BOOLEAN /\ wake_valid \in BOOLEAN /\ stop \in BOOLEAN
      /\ topics \in BOOLEAN
  BY DEF TypeOK
<1>1. listening' = listening \/ listening' = FALSE
  BY DEF Next, vars, shared, LoopStep, Logging, Notifying, Closing, PollWakes, PollSocket,
   PollTimesOut, PollReturns, CheckStop, DrainFlag, DrainPipe, SwapQueue, Execute, Executed,
   Accept, AcceptNone, Read, ServePage, ServePassword, ServeStream, SendBacklog, Publish,
   EndProcessing, Ping, WriteAndSweep, Log, CopyListeners, ReadTopics, Push, NotifyFlag,
   NotifyByte, RemoveListener, SetStop, Join
<1>2. pending' = pending \/ pending' = FALSE \/ pending' = TRUE
  BY DEF Next, vars, shared, LoopStep, Logging, Notifying, Closing, PollWakes, PollSocket,
   PollTimesOut, PollReturns, CheckStop, DrainFlag, DrainPipe, SwapQueue, Execute, Executed,
   Accept, AcceptNone, Read, ServePage, ServePassword, ServeStream, SendBacklog, Publish,
   EndProcessing, Ping, WriteAndSweep, Log, CopyListeners, ReadTopics, Push, NotifyFlag,
   NotifyByte, RemoveListener, SetStop, Join
<1>3. UNCHANGED wake_valid /\ (stop' = stop \/ stop' = TRUE)
  BY DEF Next, vars, shared, LoopStep, Logging, Notifying, Closing, PollWakes, PollSocket,
   PollTimesOut, PollReturns, CheckStop, DrainFlag, DrainPipe, SwapQueue, Execute, Executed,
   Accept, AcceptNone, Read, ServePage, ServePassword, ServeStream, SendBacklog, Publish,
   EndProcessing, Ping, WriteAndSweep, Log, CopyListeners, ReadTopics, Push, NotifyFlag,
   NotifyByte, RemoveListener, SetStop, Join
<1>4. topics' \in BOOLEAN
  <2>1. CASE Execute
    BY <1>t, <2>1 DEF Execute, CleanupSSE
  <2>2. CASE ServePassword
    BY <2>2 DEF ServePassword
  <2>3. CASE ServeStream
    BY <1>t, <2>3 DEF ServeStream
  <2>4. CASE Publish
    BY <2>4 DEF Publish
  <2>5. CASE Ping
    BY <1>t, <2>5 DEF Ping
  <2>6. CASE UNCHANGED topics
    BY <1>t, <2>6
  <2> QED
    BY <2>1, <2>2, <2>3, <2>4, <2>5, <2>6
    DEF Next, vars, shared, LoopStep, Logging, Notifying, Closing, PollWakes, PollSocket,
      PollTimesOut, PollReturns, CheckStop, DrainFlag, DrainPipe, SwapQueue, Executed,
      Accept, AcceptNone, Read, ServePage, SendBacklog, EndProcessing, WriteAndSweep, Log,
      CopyListeners, ReadTopics, Push, NotifyFlag, NotifyByte, RemoveListener, SetStop, Join
<1> QED
  BY <1>t, <1>1, <1>2, <1>3, <1>4

LEMMA TypeStep ==
  TypeOK /\ Coalesced /\ InFlightOnce /\ SlotsSound /\ HandlesCurrent /\ [Next]_vars => TypeOK'
<1> SUFFICES ASSUME TypeOK, Coalesced, InFlightOnce, SlotsSound, HandlesCurrent, [Next]_vars
             PROVE  TypeOK'
  OBVIOUS
<1>1. thread' \in [Threads -> ThreadState] /\ stored' \in 0 .. MaxLogs
  BY ThreadsStayTyped
<1>2. cmds' \in Seq(Messages) /\ scratch' \in Seq(Messages)
  BY QueuesTyped
<1>3. pipe' \in 0 .. 2
  BY CoalescedStep
<1>4. {listening', pending', wake_valid', stop', topics'} \subseteq BOOLEAN
  BY FlagsTyped
<1>5. loop' \in LoopState
  BY LoopGoes
<1>6. client' \in [Slots -> Connections]
  <2>1. SlotsMove
    BY SlotsMoved
  <2>2. \A s \in Slots : client[s] \in Connections /\ SlotSound(client[s])
    BY DEF TypeOK, SlotsSound
  <2>3. \A s \in Slots : client'[s] \in Connections
    BY <2>1, <2>2, SendingTyped, MovesSoundly DEF SlotsMove
  <2> QED
    BY <2>1, <2>3 DEF SlotsMove
<1>7. sse' \subseteq [slot : Slots, gen : Nat]
  <2>1. sse \subseteq [slot : Slots, gen : Nat] /\ client \in [Slots -> Connections]
    BY DEF TypeOK
  <2>2. CASE ServeStream
    <3>1. PICK s \in Slots : sse' = Live \cup {Handle(s)}
      BY <2>2, StreamServed
    <3>2. Handle(s) \in [slot : Slots, gen : Nat]
      BY <2>1 DEF Handle, Connections
    <3> QED
      BY <2>1, <3>1, <3>2 DEF Live
  <2>3. CASE ~ServeStream
    BY <2>1, <2>3, SubscribersLeave
  <2> QED
    BY <2>2, <2>3
<1> QED
  BY <1>1, <1>2, <1>3, <1>4, <1>5, <1>6, <1>7 DEF TypeOK, ThreadState, LoopState

-----------------------------------------------------------------------------
(* The subscribers.                                                        *)

(* A slot's next peer is never taken for the one a handle was for.         *)
LEMMA HandleStays ==
  ASSUME TypeOK, InFlightOnce, SlotsSound, HandlesCurrent, [Next]_vars, NEW h \in sse
  PROVE  h.gen =< client'[h.slot].gen /\ (IsLive(h)' => client'[h.slot].asked /\ IsLive(h))
<1> DEFINE c == client[h.slot]
           d == client'[h.slot]
           msgs == Sending(h.slot)
<1>1. h.slot \in Slots /\ h.gen \in Nat
  BY DEF TypeOK
<1>2. c \in Connections /\ SlotSound(c) /\ Moves(c, d, msgs) /\ msgs \in Seq(Messages)
  BY <1>1, SlotsMoved, SendingTyped DEF TypeOK, SlotsSound, SlotsMove
<1>3. h.gen =< c.gen /\ (c.open /\ h.gen = c.gen => c.asked)
  BY DEF HandlesCurrent, IsLive
<1> HIDE DEF c, d, msgs
<1>4. /\ d \in Connections
      /\ d.gen = c.gen => (d.open => c.open) /\ (d.open /\ c.asked => d.asked)
      /\ d.gen >= c.gen
  BY <1>2, MovesSoundly
<1>5. c.gen \in Nat /\ d.gen \in Nat
  BY <1>2, <1>4 DEF Connections
<1>6. h.gen =< d.gen
  BY <1>1, <1>3, <1>4, <1>5
<1>7. h.gen = d.gen => d.gen = c.gen /\ h.gen = c.gen
  BY <1>1, <1>3, <1>4, <1>5
<1>8. d.open /\ h.gen = d.gen => d.asked /\ c.open /\ h.gen = c.gen
  BY <1>3, <1>4, <1>7
<1> QED
  BY <1>6, <1>8 DEF IsLive, c, d

LEMMA HandlesCurrentStep ==
  TypeOK /\ InFlightOnce /\ SlotsSound /\ HandlesCurrent /\ [Next]_vars => HandlesCurrent'
<1> SUFFICES ASSUME TypeOK, InFlightOnce, SlotsSound, HandlesCurrent, [Next]_vars
             PROVE  HandlesCurrent'
  OBVIOUS
<1>1. \A s \in Slots : client[s] \in Connections /\ SlotSound(client[s])
                       /\ Moves(client[s], client'[s], Sending(s))
  BY SlotsMoved DEF TypeOK, SlotsSound, SlotsMove
<1>2. ASSUME NEW h \in sse
      PROVE  h.gen =< client'[h.slot].gen /\ (IsLive(h)' => client'[h.slot].asked)
  BY HandleStays
<1>3. CASE ServeStream
  <2>1. PICK s \in Slots : sse' = Live \cup {Handle(s)} /\ client'[s] = StartStream(client[s])
    BY <1>3, StreamServed
  <2>2. Handle(s).slot = s /\ Handle(s).gen = client[s].gen
    BY DEF Handle
  <2>3. client'[s].gen = client[s].gen /\ client'[s].asked = TRUE /\ client[s].gen \in Nat
    BY <1>1, <2>1 DEF StartStream, Connections
  <2>4. \A h \in Live : h \in sse
    BY DEF Live
  <2>5. Handle(s).gen =< client'[Handle(s).slot].gen /\ client'[Handle(s).slot].asked
    BY <2>2, <2>3
  <2>6. \A h \in sse' : h.gen =< client'[h.slot].gen /\ (IsLive(h)' => client'[h.slot].asked)
    BY <1>2, <2>1, <2>4, <2>5
  <2> QED
    BY <2>6 DEF HandlesCurrent
<1>4. CASE ~ServeStream
  <2>1. \A h \in sse' : h \in sse
    BY <1>4, SubscribersLeave
  <2>2. \A h \in sse' : h.gen =< client'[h.slot].gen /\ (IsLive(h)' => client'[h.slot].asked)
    BY <1>2, <2>1
  <2> QED
    BY <2>2 DEF HandlesCurrent
<1> QED
  BY <1>3, <1>4

LEMMA SlotsSoundStep ==
  TypeOK /\ InFlightOnce /\ SlotsSound /\ HandlesCurrent /\ [Next]_vars => SlotsSound'
<1> SUFFICES ASSUME TypeOK, InFlightOnce, SlotsSound, HandlesCurrent, [Next]_vars
             PROVE  SlotsSound'
  OBVIOUS
<1>1. \A s \in Slots : client[s] \in Connections /\ SlotSound(client[s])
                       /\ Moves(client[s], client'[s], Sending(s))
  BY SlotsMoved DEF TypeOK, SlotsSound, SlotsMove
<1>2. \A s \in Slots : SlotSound(client'[s])
  BY <1>1, SendingTyped, MovesSoundly
<1>3. ASSUME loop'.pc = "backlog"
      PROVE  client'[loop'.slot].asked /\ client'[loop'.slot].got = <<>>
  <2>1. CASE ServeStream
    <3>1. PICK s \in Slots :
            client[s].got = <<>> /\ client'[s] = StartStream(client[s]) /\ loop'.slot = s
      BY <2>1, StreamServed
    <3>2. client'[s].asked = TRUE /\ client'[s].got = client[s].got
      BY <1>1, <3>1 DEF StartStream, Connections
    <3> QED
      BY <3>1, <3>2
  <2>2. CASE ~ServeStream
    <3>1. Logging \/ Notifying \/ Closing \/ UNCHANGED vars
      BY <1>3, <2>2, LoopGoes DEF Goes, Next, LoopStep
    <3>2. loop' = loop
      BY <3>1, LoopGoes
    <3>3. loop.slot \in Slots /\ client[loop.slot].asked /\ client[loop.slot].got = <<>>
      BY <1>3, <3>2 DEF SlotsSound, At, TypeOK
    <3>4. client' = client \/ \E p \in Producers : ReadTopics(p)
      BY <3>1 DEF Logging, Notifying, Closing, vars, shared, Log, CopyListeners, Push, NotifyFlag,
         NotifyByte, RemoveListener, SetStop, Join
    <3>5. ASSUME NEW p \in Producers, ReadTopics(p)
          PROVE  client'[loop.slot].asked = client[loop.slot].asked
                 /\ client'[loop.slot].got = client[loop.slot].got
      <4> DEFINE c == client[loop.slot]
                 m == thread[p].msg
      <4>1. client'[loop.slot] = IF ~topics /\ loop.slot \in Subscribing
                                 THEN [c EXCEPT !.passed_by = c.passed_by \cup {m}] ELSE c
        BY <3>3, <3>5, Zenon DEF ReadTopics
      <4>2. c \in Connections
        BY <1>1, <3>3
      <4> HIDE DEF c
      <4>3. /\ [c EXCEPT !.passed_by = c.passed_by \cup {m}].asked = c.asked
            /\ [c EXCEPT !.passed_by = c.passed_by \cup {m}].got = c.got
        BY <4>2 DEF Connections
      <4> QED
        BY <4>1, <4>3 DEF c
    <3> QED
      BY <3>2, <3>3, <3>4, <3>5
  <2> QED
    BY <2>1, <2>2
<1> QED
  BY <1>2, <1>3 DEF SlotsSound, At

LEMMA LiveStays ==
  ASSUME TypeOK, InFlightOnce, SlotsSound, HandlesCurrent, [Next]_vars, NEW h \in Live', h \in sse
  PROVE  h \in Live
BY HandleStays DEF Live

LEMMA PublishedStep ==
  TypeOK /\ InFlightOnce /\ SlotsSound /\ HandlesCurrent /\ Published /\ [Next]_vars => Published'
<1> SUFFICES ASSUME TypeOK, InFlightOnce, SlotsSound, HandlesCurrent, Published, [Next]_vars,
                    NEW h \in Live'
             PROVE  topics' \/ h.slot \in Subscribing'
  BY DEF Published
<1>1. h \in sse'
  BY DEF Live
<1>2. h \in sse => h \in Live
  BY LiveStays
<1>3. ASSUME loop.pc \notin {"backlog", "publish"}
      PROVE  Live # {} => topics
  BY <1>3 DEF Published, Subscribing
<1>4. CASE Execute
  <2>1. sse' = Live /\ topics' = IF Live = sse THEN topics ELSE Live # {}
    BY <1>4 DEF Execute, CleanupSSE
  <2>2. loop.pc = "execute"
    BY <1>4 DEF Execute, At
  <2> QED
    BY <1>1, <1>3, <2>1, <2>2
<1>5. CASE ServePassword
  BY <1>1, <1>5 DEF ServePassword
<1>6. CASE ServeStream
  <2>1. PICK s \in Slots :
          /\ sse' = Live \cup {Handle(s)}
          /\ topics' = IF Live = sse THEN topics ELSE Live # {}
          /\ loop.pc = "process" /\ loop'.pc = "backlog" /\ loop'.slot = s
    BY <1>6, StreamServed
  <2>2. CASE h \in Live
    BY <1>3, <2>1, <2>2
  <2>3. CASE h = Handle(s)
    BY <2>1, <2>3 DEF Handle, Subscribing
  <2> QED
    BY <1>1, <2>1, <2>2, <2>3
<1>7. CASE Publish
  <2>1. topics' = (sse # {}) /\ sse' = sse
    BY <1>7 DEF Publish
  <2> QED
    BY <1>1, <2>1
<1>8. CASE Ping
  <2>1. sse' \subseteq Live /\ topics' = IF sse' = sse THEN topics ELSE sse' # {}
    BY <1>8 DEF Ping
  <2>2. loop.pc = "process"
    BY <1>8 DEF Ping, Processed, At
  <2> QED
    BY <1>1, <1>3, <2>1, <2>2
<1>9. CASE ~(Execute \/ ServePassword \/ ServeStream \/ Publish \/ Ping)
  <2>1. UNCHANGED topics
    BY <1>9 DEF Next, vars, shared, LoopStep, Logging, Notifying, Closing, PollWakes, PollSocket,
       PollTimesOut, PollReturns, CheckStop, DrainFlag, DrainPipe, SwapQueue, Executed, Accept,
       AcceptNone, Read, ServePage, SendBacklog, EndProcessing, WriteAndSweep, Log, CopyListeners,
       ReadTopics, Push, NotifyFlag, NotifyByte, RemoveListener, SetStop, Join
  <2>2. h \in Live
    BY <1>1, <1>2, <1>9, SubscribersLeave
  <2>3. topics \/ h.slot \in Subscribing
    BY <2>2 DEF Published
  <2>4. Subscribing \subseteq Subscribing'
    <3>1. \/ loop' = loop \/ loop.pc \notin {"backlog", "publish"}
          \/ loop'.pc = "publish" /\ loop'.slot = loop.slot
      BY <1>9, LoopGoes DEF Goes, Next, LoopStep
    <3> QED
      BY <3>1 DEF Subscribing
  <2> QED
    BY <2>1, <2>3, <2>4
<1> QED
  BY <1>4, <1>5, <1>6, <1>7, <1>8, <1>9

-----------------------------------------------------------------------------
(* What the subscribers are sent.                                          *)

LEMMA AppendedCounts ==
  ASSUME NEW S, NEW g \in Seq(S), NEW x \in S
  PROVE  /\ Range(g \o <<x>>) = Range(g) \cup {x}
         /\ Once(g, x) => Twice(g \o <<x>>, x)
         /\ \A m : m # x => /\ Once(g, m) => Once(g \o <<x>>, m)
                            /\ Twice(g, m) => Twice(g \o <<x>>, m)
<1> DEFINE t == g \o <<x>>
           n == Len(g)
<1>1. n \in Nat /\ DOMAIN g = 1 .. n
  BY LenProperties
<1>2. t = Append(g, x)
  BY AppendIsConcat
<1>3. t \in Seq(S) /\ Len(t) = n + 1 /\ (\A i \in 1 .. n : t[i] = g[i]) /\ t[n + 1] = x
  BY <1>2, AppendProperties
<1>4. DOMAIN t = 1 .. (n + 1)
  BY <1>3, LenProperties
<1> HIDE DEF t, n
<1>5. Range(t) = Range(g) \cup {x}
  <2>1. Range(Append(g, x)) = Range(g) \cup {x}
    BY Appended
  <2> QED
    BY <1>2, <2>1
<1>6. \A i \in DOMAIN t : i = n + 1 \/ (i \in DOMAIN g /\ t[i] = g[i])
  BY <1>1, <1>3, <1>4
<1>7. ASSUME Once(g, x), NEW i \in DOMAIN t, NEW j \in DOMAIN t, NEW k \in DOMAIN t,
             t[i] = x, t[j] = x, t[k] = x
      PROVE  i = j \/ j = k \/ i = k
  BY <1>6, <1>7 DEF Once
<1>8. \A m : m # x => \A i \in DOMAIN t : t[i] = m => i \in DOMAIN g /\ g[i] = m
  BY <1>3, <1>6
<1>9. \A m : m # x => (Once(g, m) => Once(t, m)) /\ (Twice(g, m) => Twice(t, m))
  BY <1>8 DEF Once, Twice
<1>10. Once(g, x) => Twice(t, x)
  BY <1>7 DEF Twice
<1> QED
  BY <1>5, <1>9, <1>10 DEF t

(* What a slot has been sent is kept, lost with the peer, or added to; and *)
(* a peer that stays keeps what it was passed by.                          *)
LEMMA GotMoves ==
  ASSUME NEW c \in Connections, NEW d, NEW msgs \in Seq(Messages), Moves(c, d, msgs)
  PROVE  /\ d.got = c.got \/ d.got = <<>> \/ d.got = c.got \o msgs
         /\ c.open /\ d.open => Range(c.got) \subseteq Range(d.got) /\ c.passed_by \subseteq d.passed_by
<1>t. c.got \in Seq(Messages)
  BY DEF Connections
<1>1. CASE d = c
  BY <1>1, Zenon
<1>2. CASE d = NoConnection(c.gen)
  BY <1>2 DEF NoConnection
<1>3. CASE ~c.open /\ d = [NoConnection(c.gen + 1) EXCEPT !.open = TRUE]
  BY <1>3 DEF NoConnection
<1>4. CASE \/ \E q \in Requests : d = [c EXCEPT !.request = q]
           \/ d = [c EXCEPT !.request = "none", !.close_after_send = TRUE]
           \/ d = StartStream(c)
  <2>1. d.got = c.got /\ d.passed_by = c.passed_by
    BY <1>4 DEF Connections, StartStream
  <2> QED
    BY <2>1, Zenon
<1>5. CASE d = [c EXCEPT !.got = c.got \o msgs]
  <2> DEFINE g == c.got \o msgs
  <2>1. Range(g) = Range(c.got) \cup Range(msgs)
    BY <1>t, RangeConcatenation
  <2> HIDE DEF g
  <2>2. d = [c EXCEPT !.got = g]
    BY <1>5 DEF g
  <2>3. d.got = g /\ d.passed_by = c.passed_by
    BY <2>2 DEF Connections
  <2> QED
    BY <2>1, <2>3, Zenon DEF g
<1>6. CASE \E m \in Messages : d = [c EXCEPT !.passed_by = c.passed_by \cup {m}]
  <2>1. d.got = c.got /\ c.passed_by \subseteq d.passed_by
    BY <1>6 DEF Connections
  <2> QED
    BY <2>1, Zenon
<1> QED
  BY <1>1, <1>2, <1>3, <1>4, <1>5, <1>6, Zenon DEF Moves

(* Only a message that is logged comes to be on its way.                   *)
LEMMA FlightGrows ==
  ASSUME TypeOK, FlightMoves
  PROVE  /\ 1 .. stored \subseteq 1 .. stored'
         /\ \A m \in InFlight' : m \in InFlight \/ m \notin 1 .. stored
         /\ \A m \in 1 .. stored' : m \in 1 .. stored \/ m \in InFlight'
<1>1. stored \in Nat
  BY DEF TypeOK
<1>2. CASE stored' = stored + 1 /\ InFlight' = InFlight \cup {stored + 1}
  BY <1>1, <1>2
<1>3. CASE stored' = stored /\ InFlight' \subseteq InFlight
  BY <1>3
<1> QED
  BY <1>2, <1>3 DEF FlightMoves

LEMMA ExecuteFlies ==
  ASSUME TypeOK, InFlightOnce, Execute
  PROVE  /\ Head(scratch) \in InFlight /\ Head(scratch) \in Messages
         /\ InFlight' = InFlight \ {Head(scratch)}
<1>1. /\ UNCHANGED <<stored, thread>>
      /\ InHand' = InHand /\ Carried' = Carried
  BY DEF Execute, InHand, Carried
<1>2. scratch # <<>> /\ scratch' = Tail(scratch) /\ UNCHANGED cmds
  BY DEF Execute
<1> DEFINE m == Head(scratch)
<1>3. /\ Range(scratch) = Range(scratch') \cup {m}
      /\ m \notin Range(scratch') /\ m \in Messages
  BY <1>2, Detached DEF TypeOK, InFlightOnce
<1> HIDE DEF m
<1>4. Queued' = Queued \ {m} /\ m \in Queued
  BY <1>2, <1>3 DEF Queued, InFlightOnce
<1>5. InFlight' = InFlight \ {m} /\ m \in InFlight
  BY <1>1, <1>4 DEF InFlight, InFlightOnce
<1> QED
  BY <1>3, <1>5 DEF m

LEMMA SentTwiceStep ==
  /\ TypeOK /\ InFlightOnce /\ SlotsSound /\ HandlesCurrent /\ SentTwice /\ [Next]_vars
  => SentTwice'
<1> SUFFICES ASSUME TypeOK, InFlightOnce, SlotsSound, HandlesCurrent, SentTwice, [Next]_vars
             PROVE  SentTwice'
  OBVIOUS
<1>1. /\ 1 .. stored \subseteq 1 .. stored'
      /\ \A m \in InFlight' : m \in InFlight \/ m \notin 1 .. stored
  BY FlightStep, FlightGrows
<1>2. ASSUME NEW s \in Slots
      PROVE  /\ Range(client'[s].got) \subseteq 1 .. stored'
             /\ \A m \in Messages : Twice(client'[s].got, m)
             /\ \A m \in InFlight' : Once(client'[s].got, m)
  <2> DEFINE g == client[s].got
             e == client'[s].got
  <2>1. g \in Seq(Messages)
    BY DEF TypeOK, Connections
  <2>2. e = g \/ e = <<>> \/ e = g \o Sending(s)
    <3>1. client[s] \in Connections /\ Moves(client[s], client'[s], Sending(s))
      BY SlotsMoved DEF TypeOK, SlotsMove
    <3> QED
      BY <3>1, SendingTyped, GotMoves
  <2>3. /\ Range(g) \subseteq 1 .. stored /\ \A m \in Messages : Twice(g, m)
        /\ \A m \in InFlight : Once(g, m)
    BY DEF SentTwice
  <2>4. At("backlog") /\ s = loop.slot => g = <<>>
    BY DEF SlotsSound
  <2> HIDE DEF g, e
  <2>5. \A m : m \notin 1 .. stored => Once(g, m)
    BY <2>3 DEF Once, Range
  <2>6. CASE e = g
    <3>1. \A m \in InFlight' : Once(g, m)
      BY <1>1, <2>3, <2>5
    <3> QED
      BY <1>1, <2>3, <2>6, <3>1 DEF e
  <2>7. CASE e = <<>>
    <3>1. Range(<<>>) = {} /\ \A m : Once(<<>>, m) /\ Twice(<<>>, m)
      BY DEF Range, Once, Twice
    <3> QED
      BY <2>7, <3>1, Zenon DEF e
  <2>8. CASE Execute /\ e = g \o <<Head(scratch)>>
    <3> DEFINE x == Head(scratch)
    <3>1. x \in InFlight /\ x \in Messages /\ InFlight' = InFlight \ {x}
      BY <2>8, ExecuteFlies
    <3>2. /\ Range(e) = Range(g) \cup {x}
          /\ Once(g, x) => Twice(e, x)
          /\ \A m : m # x => (Once(g, m) => Once(e, m)) /\ (Twice(g, m) => Twice(e, m))
      BY <2>1, <2>8, <3>1, AppendedCounts
    <3> HIDE DEF x
    <3>3. x \in 1 .. stored
      BY <3>1 DEF InFlightOnce
    <3>4. Range(e) \subseteq 1 .. stored'
      BY <1>1, <2>3, <3>2, <3>3
    <3>5. \A m \in Messages : Twice(e, m)
      BY <2>3, <3>1, <3>2
    <3>6. \A m \in InFlight' : Once(e, m)
      BY <2>3, <3>1, <3>2
    <3> QED
      BY <3>4, <3>5, <3>6 DEF e
  <2>9. CASE At("backlog") /\ s = loop.slot /\ e = g \o Snapshot
    <3>1. e = Snapshot
      BY <2>4, <2>9, SnapshotProperties, ConcatEmptySeq
    <3>2. DOMAIN Snapshot = 1 .. stored /\ \A m \in 1 .. stored : Snapshot[m] = m
      BY SnapshotProperties
    <3>3. Range(e) \subseteq 1 .. stored
      BY <3>1, <3>2 DEF Range
    <3>4. \A m : Once(e, m) /\ Twice(e, m)
      BY <3>1, <3>2 DEF Once, Twice
    <3> QED
      BY <1>1, <3>3, <3>4 DEF e
  <2>10. CASE e = g \o <<>>
    <3>1. e = g
      BY <2>1, <2>10, ConcatEmptySeq
    <3> QED
      BY <2>6, <3>1
  <2> QED
    BY <2>2, <2>6, <2>7, <2>8, <2>9, <2>10 DEF Sending
<1> QED
  BY <1>2 DEF SentTwice

LEMMA MissingIs ==
  \A s : Missing(s) = (1 .. stored) \ (Range(client[s].got) \cup InFlight)
BY DEF Missing, InFlight

LEMMA ServedStays ==
  ASSUME TypeOK, InFlightOnce, SlotsSound, HandlesCurrent, [Next]_vars, NEW s \in Served'
  PROVE  /\ s \in Slots /\ client'[s].open /\ ~(At("backlog")' /\ s = loop'.slot)
         /\ \/ SendBacklog /\ s = loop.slot
            \/ s \in Served /\ \E h \in Live : h.slot = s
<1>1. PICK h \in Live' : h.slot = s
  BY DEF Served, Streams
<1>2. h \in sse' /\ client'[s].open
  BY <1>1 DEF Live, IsLive
<1>3. ~(At("backlog")' /\ s = loop'.slot)
  BY DEF Served
<1>4. h \in sse
  <2>1. CASE ServeStream
    <3>1. PICK u \in Slots : sse' = Live \cup {Handle(u)} /\ loop'.pc = "backlog" /\ loop'.slot = u
      BY <2>1, StreamServed
    <3>2. h # Handle(u)
      BY <1>1, <1>3, <3>1 DEF Handle, At
    <3> QED
      BY <1>2, <3>1, <3>2 DEF Live
  <2>2. CASE ~ServeStream
    BY <1>2, <2>2, SubscribersLeave
  <2> QED
    BY <2>1, <2>2
<1>5. h \in Live
  BY <1>4, LiveStays
<1>6. s \in Slots /\ s \in Streams
  BY <1>1, <1>4, <1>5 DEF TypeOK, Streams
<1>7. At("backlog") /\ s = loop.slot => SendBacklog
  <2>1. At("backlog") /\ ~SendBacklog => loop' = loop
    BY LoopGoes DEF At, Goes, Next, LoopStep
  <2> QED
    BY <1>3, <2>1 DEF At
<1> QED
  BY <1>1, <1>2, <1>3, <1>5, <1>6, <1>7 DEF Served

LEMMA NoneMissingStep ==
  /\ TypeOK /\ InFlightOnce /\ SlotsSound /\ HandlesCurrent /\ Published /\ SentTwice
  /\ NoneMissing /\ [Next]_vars
  => NoneMissing'
<1> SUFFICES ASSUME TypeOK, InFlightOnce, SlotsSound, HandlesCurrent, Published, SentTwice,
                    NoneMissing, [Next]_vars,
                    NEW s \in Served', listening', NEW m \in Missing(s)'
             PROVE  m \in client'[s].passed_by
  BY DEF NoneMissing
<1>1. m \in 1 .. stored' /\ m \notin Range(client'[s].got) /\ m \notin InFlight'
  BY DEF Missing, InFlight
<1>2. listening
  BY DEF TypeOK, Next, vars, shared, LoopStep, Logging, Notifying, Closing, PollWakes, PollSocket,
   PollTimesOut, PollReturns, CheckStop, DrainFlag, DrainPipe, SwapQueue, Execute, Executed,
   Accept, AcceptNone, Read, ServePage, ServePassword, ServeStream, SendBacklog, Publish,
   EndProcessing, Ping, WriteAndSweep, Log, CopyListeners, ReadTopics, Push, NotifyFlag,
   NotifyByte, RemoveListener, SetStop, Join
<1>3. FlightMoves /\ m \in 1 .. stored
  BY <1>1, FlightStep, FlightGrows
<1>4. /\ s \in Slots /\ client'[s].open
      /\ \/ SendBacklog /\ s = loop.slot
         \/ s \in Served /\ \E h \in Live : h.slot = s
  BY ServedStays
<1>5. CASE SendBacklog /\ s = loop.slot
  <2>1. SendFrames({s}, Snapshot) /\ {s} \subseteq Slots /\ client[s].got = <<>>
    BY <1>4, <1>5 DEF SendBacklog, Snapshot, SlotsSound
  <2>2. \/ client'[s] = NoConnection(client[s].gen)
        \/ client'[s] = [client[s] EXCEPT !.got = client[s].got \o Snapshot]
    <3> DEFINE S == {s}
    <3>1. s \in S /\ SendFrames(S, Snapshot) /\ S \subseteq Slots
      BY <2>1
    <3> HIDE DEF S
    <3>2. \A u \in Slots :
            \/ u \notin S /\ client'[u] = client[u]
            \/ u \in S /\ client'[u] = NoConnection(client[u].gen)
            \/ u \in S /\ client'[u] = [client[u] EXCEPT !.got = client[u].got \o Snapshot]
      BY <3>1, FramesSent, Zenon
    <3> QED
      BY <1>4, <3>1, <3>2, Zenon
  <2>3. client'[s] # NoConnection(client[s].gen)
    BY <1>4 DEF NoConnection
  <2>4. client[s].got \o Snapshot = Snapshot
    BY <2>1, SnapshotProperties, ConcatEmptySeq
  <2>5. client'[s] = [client[s] EXCEPT !.got = Snapshot]
    BY <2>2, <2>3, <2>4
  <2>6. client'[s].got = Snapshot
    <3> HIDE DEF Snapshot
    <3> QED
      BY <1>4, <2>5 DEF TypeOK, Connections
  <2>7. m \in Range(Snapshot)
    BY <1>3, SnapshotProperties DEF Range
  <2> QED
    BY <1>1, <2>6, <2>7
<1>6. CASE s \in Served /\ \E h \in Live : h.slot = s
  <2>1. PICK h \in Live : h.slot = s
    BY <1>6
  <2>2. client[s].open /\ s \in Streams
    BY <2>1 DEF Live, IsLive, Streams
  <2>3. Range(client[s].got) \subseteq Range(client'[s].got)
        /\ client[s].passed_by \subseteq client'[s].passed_by
    <3>1. client[s] \in Connections /\ Moves(client[s], client'[s], Sending(s))
      BY <1>4, SlotsMoved DEF TypeOK, SlotsMove
    <3> QED
      BY <1>4, <2>2, <3>1, SendingTyped, GotMoves
  <2>4. CASE m \notin InFlight
    <3>1. m \in Missing(s)
      BY <1>1, <1>3, <2>3, <2>4, MissingIs
    <3> QED
      BY <1>2, <1>6, <2>3, <3>1 DEF NoneMissing
  <2>5. CASE m \in InFlight
    <3>1. CASE \E p \in InHand : ReadTopics(p) /\ ~topics /\ InFlight' = InFlight \ {thread[p].msg}
      <4>1. PICK p \in InHand :
              ReadTopics(p) /\ ~topics /\ InFlight' = InFlight \ {thread[p].msg}
        BY <3>1
      <4>2. m = thread[p].msg /\ s \in Subscribing
        BY <1>1, <2>1, <2>5, <4>1 DEF Published
      <4> DEFINE c == client[s]
      <4>3. client'[s] = [c EXCEPT !.passed_by = c.passed_by \cup {m}]
        BY <1>4, <4>1, <4>2, Zenon DEF ReadTopics
      <4>4. c \in Connections
        BY <1>4 DEF TypeOK
      <4> HIDE DEF c
      <4> QED
        BY <4>3, <4>4 DEF Connections
    <3>2. CASE Execute /\ InFlight' = InFlight \ {Head(scratch)}
      <4>1. m = Head(scratch)
        BY <1>1, <2>5, <3>2
      <4>2. SendFrames(Streams, <<m>>) /\ Streams \subseteq Slots
        BY <3>2, <4>1, StreamsAsked DEF Execute
      <4>3. \/ client'[s] = NoConnection(client[s].gen)
            \/ client'[s] = [client[s] EXCEPT !.got = client[s].got \o <<m>>]
        BY <1>4, <2>2, <4>2, FramesSent
      <4>4. client'[s] # NoConnection(client[s].gen)
        BY <1>4 DEF NoConnection
      <4>5. client[s].got \in Seq(Messages) /\ m \in Messages /\ client[s] \in Connections
        BY <1>4, <3>2, <4>1, ExecuteFlies DEF TypeOK, Connections
      <4> DEFINE g == client[s].got \o <<m>>
      <4>6. m \in Range(g)
        BY <4>5, AppendedCounts
      <4> HIDE DEF g
      <4>7. client'[s] = [client[s] EXCEPT !.got = g]
        BY <4>3, <4>4 DEF g
      <4>8. client'[s].got = g
        BY <4>5, <4>7 DEF Connections
      <4> QED
        BY <1>1, <4>6, <4>8
    <3> QED
      BY <1>1, <1>2, <1>3, <2>5, <3>1, <3>2 DEF FlightMoves, TypeOK
  <2> QED
    BY <2>4, <2>5
<1> QED
  BY <1>4, <1>5, <1>6

LEMMA Invariance == Init /\ [][Next]_vars => []IInv
<1>1. Init => IInv
  <2> SUFFICES ASSUME Init
               PROVE  IInv
    OBVIOUS
  <2>1. /\ stored = 0 /\ listening = TRUE /\ cmds = <<>> /\ scratch = <<>>
        /\ pending = FALSE /\ pipe = 0 /\ wake_valid \in BOOLEAN /\ stop = FALSE /\ topics = FALSE
        /\ thread = [t \in Threads |-> [pc |-> IF t = Closer THEN "unlisten" ELSE "idle", msg |-> 0]]
        /\ loop = [pc |-> "check", sock |-> FALSE, slot |-> 1]
        /\ client = [s \in Slots |-> NoConnection(0)] /\ sse = {}
    BY DEF Init
  <2>2. \A t \in Threads : /\ thread[t] \in ThreadState
                           /\ thread[t].pc \in {"unlisten", "idle"}
    <3>1. MaxLogs \in Nat
      BY StreamBounds
    <3>2. \A t \in Threads : \/ thread[t] = [pc |-> "unlisten", msg |-> 0]
                             \/ thread[t] = [pc |-> "idle", msg |-> 0]
      BY <2>1
    <3> QED
      BY <3>1, <3>2 DEF ThreadState
  <2>3. thread \in [Threads -> ThreadState]
    BY <2>1, <2>2
  <2>4. loop \in LoopState
    BY <2>1, StreamBounds DEF LoopState, Slots
  <2>5. \A s \in Slots : /\ client[s] = NoConnection(0) /\ client[s] \in Connections
                         /\ SlotSound(client[s])
    BY <2>1, NoConnectionTyped
  <2>6. TypeOK
    <3>1. /\ stored \in 0 .. MaxLogs /\ pipe \in 0 .. 2
          /\ cmds \in Seq(Messages) /\ scratch \in Seq(Messages)
          /\ sse \subseteq [slot : Slots, gen : Nat]
      BY <2>1, StreamBounds
    <3>3. {listening, pending, wake_valid, stop, topics} \subseteq BOOLEAN
      BY <2>1
    <3>2. client \in [Slots -> Connections]
      BY <2>1, <2>5
    <3> QED
      BY <2>3, <2>4, <3>1, <3>2, <3>3 DEF TypeOK, ThreadState, LoopState
  <2>7. Coalesced
    BY <2>1, <2>2 DEF Coalesced, At
  <2>8. InFlightOnce
    <3>1. InHand = {}
      BY <2>2, ThreadsTyped, <2>6 DEF InHand
    <3>2. Carried = {}
      BY <3>1 DEF Carried, InHand
    <3>3. Range(<<>>) = {} /\ IsInjective(<<>>)
      BY DEF Range, IsInjective
    <3>4. Queued = {}
      BY <2>1, <3>3 DEF Queued
    <3> QED
      BY <2>1, <3>1, <3>2, <3>3, <3>4 DEF InFlightOnce, InFlight
  <2>9. SlotsSound
    BY <2>1, <2>5 DEF SlotsSound, At
  <2>10. HandlesCurrent /\ Published
    BY <2>1 DEF HandlesCurrent, Published, Live
  <2>11. SentTwice
    <3>1. \A s \in Slots : client[s].got = <<>>
      BY <2>5 DEF NoConnection
    <3>2. Range(<<>>) = {} /\ \A m : Once(<<>>, m) /\ Twice(<<>>, m)
      BY DEF Range, Once, Twice
    <3> QED
      BY <3>1, <3>2 DEF SentTwice
  <2>12. NoneMissing
    BY <2>1 DEF NoneMissing, Served, Streams, Live
  <2> QED
    BY <2>6, <2>7, <2>8, <2>9, <2>10, <2>11, <2>12 DEF IInv
<1>2. IInv /\ [Next]_vars => IInv'
  <2> SUFFICES ASSUME IInv, [Next]_vars
               PROVE  IInv'
    OBVIOUS
  <2>1. /\ TypeOK /\ Coalesced /\ InFlightOnce /\ SlotsSound /\ HandlesCurrent /\ Published
        /\ SentTwice /\ NoneMissing
    BY DEF IInv
  <2>2. InFlightOnce'
    BY <2>1, FlightStep
  <2> QED
    BY <2>1, <2>2, TypeStep, CoalescedStep, SlotsSoundStep, HandlesCurrentStep, PublishedStep,
       SentTwiceStep, NoneMissingStep DEF IInv
<1> QED
  BY <1>1, <1>2, PTL

LEMMA AtMostTwo ==
  ASSUME NEW S, IsFiniteSet(S), \A i, j, k \in S : i = j \/ j = k \/ i = k
  PROVE  Cardinality(S) =< 2
<1>1. Cardinality(S) \in Nat /\ Cardinality({}) = 0
  BY FS_CardinalityType, FS_EmptySet
<1>2. CASE S = {}
  BY <1>1, <1>2
<1>3. ASSUME NEW a \in S
      PROVE  Cardinality(S) =< 2
  <2> DEFINE T == S \ {a}
  <2>1. IsFiniteSet(T) /\ Cardinality(T) = Cardinality(S) - 1
    BY FS_RemoveElement
  <2>2. CASE T = {}
    BY <1>1, <2>1, <2>2
  <2>3. ASSUME NEW b \in T
        PROVE  Cardinality(S) =< 2
    <3>1. Cardinality(T \ {b}) = Cardinality(T) - 1
      BY <2>1, FS_RemoveElement
    <3>2. T \ {b} = {}
      OBVIOUS
    <3> HIDE DEF T
    <3> QED
      BY <1>1, <2>1, <3>1, <3>2
  <2> QED
    BY <2>2, <2>3
<1> QED
  BY <1>2, <1>3

LEMMA CompleteFromParts == IInv => StreamComplete
<1> SUFFICES ASSUME IInv, NEW s \in Served
             PROVE  /\ listening => Missing(s) \subseteq client[s].passed_by
                    /\ \A m \in Messages :
                         Cardinality({i \in DOMAIN client[s].got : client[s].got[i] = m}) =< 2
  BY DEF StreamComplete
<1>1. listening => Missing(s) \subseteq client[s].passed_by
  BY DEF IInv, NoneMissing
<1>2. s \in Slots
  BY StreamsAsked DEF IInv, Served
<1> DEFINE g == client[s].got
<1>3. g \in Seq(Messages) /\ \A m \in Messages : Twice(g, m)
  BY <1>2 DEF IInv, TypeOK, Connections, SentTwice
<1> HIDE DEF g
<1>4. ASSUME NEW m \in Messages
      PROVE  Cardinality({i \in DOMAIN g : g[i] = m}) =< 2
  <2> DEFINE S == {i \in DOMAIN g : g[i] = m}
  <2>1. Len(g) \in Nat /\ DOMAIN g = 1 .. Len(g)
    BY <1>3, LenProperties
  <2>2. IsFiniteSet(DOMAIN g)
    BY <2>1, FS_Interval
  <2>3. IsFiniteSet(S)
    BY <2>2, FS_Subset
  <2>4. \A i, j, k \in S : i = j \/ j = k \/ i = k
    BY <1>3 DEF Twice
  <2> HIDE DEF S
  <2>5. Cardinality(S) =< 2
    BY <2>3, <2>4, AtMostTwo
  <2> QED
    BY <2>5 DEF S
<1> QED
  BY <1>1, <1>4 DEF g

-----------------------------------------------------------------------------
(* The theorems.                                                           *)

(* Everything keeps its type; above all, however many threads log in a     *)
(* burst, no more than two bytes are ever in the wake handle's pipe.       *)
THEOREM TypeCorrect == Spec => []TypeOK
<1>1. IInv => TypeOK
  BY DEF IInv
<1> QED
  BY <1>1, Invariance, PTL DEF Spec

(* A subscriber has or will get every message of the log, those logged     *)
(* while it subscribed included, and none more than twice.                 *)
THEOREM StreamIsComplete == Spec => []StreamComplete
BY Invariance, CompleteFromParts, PTL DEF Spec

(* A peer that did not ask for the stream is sent none of it, whoever had  *)
(* its slot before.                                                        *)
THEOREM IncarnationsApart == Spec => []OwnIncarnation
<1>1. IInv => OwnIncarnation
  BY DEF IInv, SlotsSound, SlotSound, OwnIncarnation, Open
<1> QED
  BY <1>1, Invariance, PTL DEF Spec

(* No sweep and no emptied buffer ends a stream.                           *)
THEOREM StreamsAreKept == Spec => StreamKept
<1> DEFINE Kept == At("write") => \A s \in Open : client[s].asked => client'[s].open
<1>1. IInv /\ [Next]_vars => [Kept]_vars
  <2> SUFFICES ASSUME IInv, [Next]_vars, ~UNCHANGED vars, At("write"), NEW s \in Open,
                      client[s].asked
               PROVE  client'[s].open
    OBVIOUS
  <2>1. s \in Slots /\ client[s].open /\ client[s] \in Connections
        /\ client[s].no_timeout /\ ~client[s].close_after_send
    BY DEF Open, IInv, TypeOK, SlotsSound, SlotSound
  <2>2. CASE WriteAndSweep
    <3>1. PICK S \in SUBSET {u \in Open : client[u].close_after_send \/ ~client[u].no_timeout} :
            client' = CloseSlots(S)
      BY <2>2 DEF WriteAndSweep
    <3>2. s \notin S
      BY <2>1, <3>1
    <3>3. client'[s] = client[s]
      BY <2>1, <3>1, <3>2 DEF CloseSlots
    <3> QED
      BY <2>1, <3>3
  <2>3. CASE ~WriteAndSweep
    <3>1. Logging \/ Notifying \/ Closing
      BY <2>3, LoopGoes DEF IInv, At, Goes, Next, LoopStep
    <3>2. client' = client \/ \E p \in Producers : ReadTopics(p)
      BY <3>1 DEF Logging, Notifying, Closing, shared, Log, CopyListeners, Push, NotifyFlag,
         NotifyByte, RemoveListener, SetStop, Join
    <3>3. ASSUME NEW p \in Producers, ReadTopics(p)
          PROVE  client'[s] = client[s]
      <4>1. s \notin Subscribing
        BY DEF At, Subscribing
      <4> QED
        BY <2>1, <3>3, <4>1 DEF ReadTopics
    <3> QED
      BY <2>1, <3>2, <3>3
  <2> QED
    BY <2>2, <2>3
<1>2. [][Kept]_vars <=> StreamKept
  BY DEF StreamKept
<1> QED
  BY <1>1, <1>2, Invariance, PTL DEF Spec

=============================================================================
