---------------------------- MODULE EngineProofs ----------------------------
(***************************************************************************)
(* How the engine is run and how it is fed.  Of ManagedMain: the safety of *)
(* managed mode, for any retry delays and any number of commands and saved *)
(* configurations.  Of SampleFIFO, further down: theorems for every block  *)
(* size, number of blocks, push size and length of the input.              *)
(***************************************************************************)
EXTENDS ManagedMain, SampleFIFO, TLAPS

(* The critical sections of ControlCore keep its fields in their types; in *)
(* particular no retry delay grows beyond RETRY_DELAY_MAX.                 *)
LEMMA NextDelayBounded ==
  ASSUME NEW d \in 0 .. RETRY_DELAY_MAX, NEW healthy \in BOOLEAN
  PROVE  NextDelay(d, healthy) \in 1 .. RETRY_DELAY_MAX
BY RetryDelays DEF NextDelay

LEMMA CoreTyped ==
  ASSUME NEW c \in Core
  PROVE  /\ StartLocked(c) \in Core
         /\ StopLocked(c) \in Core
         /\ RestartLocked(c) \in Core
         /\ ReportRunning(c) \in Core
         /\ EngineFailed(c) \in Core
         /\ ConsumeRetryDelay(c) \in Core
         /\ \A healthy \in BOOLEAN : ReportStopped(c, healthy) \in Core
<1>0. 0 \in 0 .. RETRY_DELAY_MAX
  BY RetryDelays
<1>1. ResetRetry(c) \in Core
  BY <1>0 DEF Core, ResetRetry
<1>2. /\ StartLocked(c) \in Core
      /\ StopLocked(c) \in Core
      /\ RestartLocked(c) \in Core
  BY <1>1 DEF Core, StartLocked, StopLocked, RestartLocked
<1>3. /\ ReportRunning(c) \in Core
      /\ EngineFailed(c) \in Core
      /\ ConsumeRetryDelay(c) \in Core
  BY DEF Core, ReportRunning, EngineFailed, ConsumeRetryDelay
<1>4. ASSUME NEW healthy \in BOOLEAN
      PROVE  ReportStopped(c, healthy) \in Core
  <2> DEFINE s == [c EXCEPT !.state = "Stopped"]
             d == NextDelay(c.retry_delay, healthy /\ c.state = "Running")
  <2>1. s \in Core /\ c.retry_delay \in 0 .. RETRY_DELAY_MAX
    BY DEF Core
  <2>2. (healthy /\ c.state = "Running") \in BOOLEAN
    OBVIOUS
  <2>3. d \in 1 .. RETRY_DELAY_MAX
    BY <2>1, <2>2, NextDelayBounded
  <2>4. d \in 0 .. RETRY_DELAY_MAX
    BY <2>3, RetryDelays
  <2>5. ResetRetry(s) \in Core
    BY <2>1, <1>0 DEF Core, ResetRetry
  <2>6. [s EXCEPT !.retry_delay = d, !.auto_retry = TRUE, !.retry_pending = TRUE] \in Core
    BY <2>1, <2>4 DEF Core
  <2>7. c.restart_pending => ReportStopped(c, healthy) \in Core
    BY <2>1 DEF ReportStopped, Core
  <2>8. ~c.restart_pending /\ StopsUnexpectedly(c) => ReportStopped(c, healthy) \in Core
    BY <2>6 DEF ReportStopped
  <2>9. [ResetRetry(s) EXCEPT !.desired = FALSE] \in Core
    BY <2>5 DEF Core
  <2> QED
    BY <2>1, <2>7, <2>8, <2>9 DEF ReportStopped
<1> QED
  BY <1>2, <1>3, <1>4

(* What the critical sections do to the desired state.                     *)
LEMMA DesiredAfter ==
  ASSUME NEW c \in Core
  PROVE  /\ StartLocked(c).desired
         /\ ~StopLocked(c).desired
         /\ RestartLocked(c).desired
         /\ ReportRunning(c).desired = c.desired
         /\ ConsumeRetryDelay(c).desired = c.desired
         /\ EngineFailed(c).desired = c.desired
BY DEF Core, StartLocked, StopLocked, RestartLocked, ResetRetry, ReportRunning,
       ConsumeRetryDelay, EngineFailed

(* An unexpected stop leaves the engine desired and a positive delay       *)
(* pending.                                                                *)
LEMMA UnexpectedStopOwesDelay ==
  ASSUME NEW c \in Core, StopsUnexpectedly(c), NEW healthy \in BOOLEAN
  PROVE  LET r == ReportStopped(c, healthy)
         IN  r.desired /\ r.retry_pending /\ r.retry_delay > 0
<1> DEFINE d == NextDelay(c.retry_delay, healthy /\ c.state = "Running")
           s == [c EXCEPT !.state = "Stopped"]
<1>1. d > 0
  <2>1. c.retry_delay \in 0 .. RETRY_DELAY_MAX /\ (healthy /\ c.state = "Running") \in BOOLEAN
    BY DEF Core
  <2>2. d \in 1 .. RETRY_DELAY_MAX
    BY <2>1, NextDelayBounded
  <2> QED
    BY <2>2, RetryDelays
<1>2. ReportStopped(c, healthy) = [s EXCEPT !.retry_delay = d, !.auto_retry = TRUE,
                                            !.retry_pending = TRUE]
  BY DEF ReportStopped, StopsUnexpectedly
<1>3. s \in Core /\ s.desired
  BY DEF Core, StopsUnexpectedly
<1> HIDE DEF d, s
<1> QED
  BY <1>1, <1>2, <1>3 DEF Core

-----------------------------------------------------------------------------
(* Types, one variable at a time: few steps change any one of them.        *)

Requests == [pc : {"idle", "lock", "persist", "request", "dirty", "scan", "skip"},
             cmd : Commands, running : BOOLEAN]
Viewers == [serving : BOOLEAN, attached : BOOLEAN, cfg : Nat]

LEMMA TypeStep == TypeOK /\ [Next]_vars => TypeOK'
<1>0. SUFFICES ASSUME TypeOK, [Next]_vars
               PROVE  TypeOK'
  OBVIOUS
<1> USE DEF Next, Operator, OperatorStep, LoopStep, vars, shared, loopVars, Goto,
    Command, CommandLocked, CommandPersists, CommandRequests, SaveConfig, MarkDirty,
    ScanBegins, ScanEnds, Accepting, NoRequest, ScanLocked,
    SignalStop, SignalStopProcess, ThreadStopRequest,
    Check, Consume, ReadSequence, EndWait, ConsumeConfig, Reload, Idle,
    ClearStop, Recheck, BeginSession, Prepare, ReadConfig, SetupDevice, Attach, Play,
    ReportsRunning, MainLoop, StoreActive, Detach, DetachedViewer, ServeAgain,
    ReportsFailed, ReportsStopped, DestroyEngine, EndSession, Close, NoEngine, Defaults
<1>1. core' \in Core
  <2>1. core \in Core
    BY <1>0 DEF TypeOK
  <2> QED
    BY <1>0, <2>1, CoreTyped
<1>2. command_seq' \in Nat /\ seen_seq' \in Nat
  <2>1. command_seq \in Nat /\ seen_seq \in Nat
    BY <1>0 DEF TypeOK
  <2>2. command_seq' \in {command_seq, command_seq + 1}
    BY <1>0
  <2>3. seen_seq' \in {seen_seq, command_seq, 0}
    BY <1>0
  <2> QED
    BY <2>1, <2>2, <2>3
<1>4. file' \in [engine : BOOLEAN, cfg : Nat]
  <2>1. file \in [engine : BOOLEAN, cfg : Nat]
    BY <1>0 DEF TypeOK
  <2>2. CASE file' = [file EXCEPT !.engine = (op.cmd # "stop")]
    BY <2>1, <2>2
  <2>3. CASE file' \in [engine : BOOLEAN, cfg : {file.cfg + 1}]
    BY <2>1, <2>3
  <2>4. CASE file' = file
    BY <2>1, <2>4
  <2> QED
    BY <1>0, <2>2, <2>3, <2>4
<1>5. stop' \in BOOLEAN
  BY <1>0 DEF TypeOK
<1>6. stop_process' \in BOOLEAN /\ config_dirty' \in BOOLEAN
  BY <1>0 DEF TypeOK
<1>7. engine_busy' \in BOOLEAN /\ device' \in BOOLEAN
  BY <1>0 DEF TypeOK
<1>8. owed' \in BOOLEAN
  BY <1>0 DEF TypeOK, StopsUnexpectedly
<1>9. loop' \in Loop
  BY <1>0 DEF TypeOK, Loop
<1>10. engine' \in [cfg : Nat, linked : BOOLEAN]
  <2>1. engine \in [cfg : Nat, linked : BOOLEAN] /\ file.cfg \in Nat
    BY <1>0 DEF TypeOK
  <2>2. CASE engine' = engine
    BY <2>1, <2>2
  <2>5. CASE engine' = NoEngine
    BY <2>5
  <2>3. CASE engine' = [engine EXCEPT !.cfg = file.cfg]
    BY <2>1, <2>3
  <2>4. CASE engine' = [engine EXCEPT !.linked = TRUE]
    BY <2>1, <2>4
  <2> QED
    BY <1>0, <2>2, <2>3, <2>4, <2>5
<1>11. viewer' \in Viewers
  <2>1. viewer \in Viewers /\ file.cfg \in Nat
    BY <1>0 DEF TypeOK, Viewers
  <2>2. CASE ConsumeConfig \/ Prepare
    <3>1. CASE viewer' = [viewer EXCEPT !.serving = FALSE, !.cfg = 0]
      BY <2>1, <3>1 DEF Viewers
    <3>2. CASE viewer' = viewer
      BY <2>1, <3>2
    <3> QED
      BY <2>2, <3>1, <3>2
  <2>3. CASE Reload
    BY <2>1, <2>3 DEF Viewers
  <2>4. CASE ReadConfig
    BY <2>1, <2>4 DEF Viewers
  <2>5. CASE Attach \/ Detach \/ DestroyEngine
    BY <2>1, <2>5 DEF Viewers
  <2>6. CASE ServeAgain \/ Close
    BY <2>1, <2>6 DEF Viewers
  <2>7. CASE UNCHANGED viewer
    BY <2>1, <2>7
  <2> QED
    BY <1>0, <2>2, <2>3, <2>4, <2>5, <2>6, <2>7
<1>12. op' \in Requests
  <2>1. op \in Requests
    BY <1>0 DEF TypeOK, Requests
  <2>2. CASE \E cmd \in Commands : Command(cmd)
    BY <2>1, <2>2 DEF Requests
  <2>3. CASE CommandLocked
    <3>1. CASE op' = NoRequest
      BY <3>1 DEF Requests, Commands
    <3>2. CASE op' = [op EXCEPT !.pc = "persist"]
      BY <2>1, <3>2 DEF Requests
    <3>3. CASE op' = [op EXCEPT !.pc = "persist", !.running = (core.state = "Running")]
      BY <2>1, <3>3 DEF Requests
    <3> QED
      BY <2>3, <3>1, <3>2, <3>3
  <2>4. CASE CommandPersists \/ SaveConfig \/ ScanBegins
    BY <2>1, <2>4 DEF Requests
  <2>5. CASE op' = NoRequest
    BY <2>5 DEF Requests, Commands
  <2>6. CASE UNCHANGED op
    BY <2>1, <2>6
  <2> QED
    BY <1>0, <2>2, <2>3, <2>4, <2>5, <2>6
<1>13. handler' \in {"none", "stopped", "done"}
  BY <1>0 DEF TypeOK
<1>14. erased' \in BOOLEAN
  <2>1. erased' = erased \/ erased' = FALSE \/ erased' = (erased \/ (stop /\ ~stop'))
    BY <1>0
  <2> QED
    BY <1>0, <2>1 DEF TypeOK
<1>15. signalled' \in BOOLEAN
  <2>1. signalled' = signalled \/ signalled' = FALSE \/ signalled' = FindsRun
    BY <1>0
  <2> QED
    BY <1>0, <2>1 DEF TypeOK, FindsRun
<1> QED
  BY <1>1, <1>2, <1>4, <1>5, <1>6, <1>7, <1>8, <1>9, <1>10, <1>11, <1>12, <1>13,
     <1>14, <1>15 DEF TypeOK, Requests, Viewers

-----------------------------------------------------------------------------
(* A stop command is not lost.  The critical sections matter through the   *)
(* desired state only; a stop that has cleared it has yet to persist and   *)
(* to request, and only ClearStop and StoreActive write FALSE to `stop`:   *)
(* the first outside InRun, the second noting what it overwrites.          *)
LEMMA StopNotLostStep == TypeOK /\ StopNotLost /\ [Next]_vars => StopNotLost'
<1> SUFFICES ASSUME TypeOK, StopNotLost, [Next]_vars
             PROVE  StopNotLost'
  OBVIOUS
<1>0. core \in Core
  BY DEF TypeOK
<1> USE DEF StopNotLost, StopOnItsWay, InRun, Goto, shared, loopVars
<1>1. CASE \E cmd \in Commands : Command(cmd)
  BY <1>1 DEF Command, Accepting
<1>2. CASE CommandLocked
  <2>1. CASE op.cmd = "start" \/ op.cmd = "restart"
    BY <1>0, <1>2, <2>1, DesiredAfter DEF CommandLocked
  <2>2. CASE op.cmd = "stop"
    <3>1. op' = [op EXCEPT !.pc = "persist"]
      BY <1>2, <2>2 DEF CommandLocked
    <3>2. op'.pc = "persist" /\ op'.cmd = "stop"
      BY <2>2, <3>1 DEF TypeOK
    <3> QED
      BY <3>2
  <2> QED
    BY <1>2, <2>1, <2>2 DEF CommandLocked
<1>3. CASE CommandPersists \/ CommandRequests \/ MarkDirty \/ ScanEnds
  <2>1. CASE CommandPersists
    BY <2>1 DEF CommandPersists, TypeOK
  <2>2. CASE CommandRequests
    BY <2>2 DEF CommandRequests, TypeOK
  <2> QED
    BY <1>3, <2>1, <2>2 DEF MarkDirty, ScanEnds
<1>4. CASE SaveConfig \/ ScanBegins
  BY <1>4 DEF SaveConfig, ScanBegins, Accepting
<1>5. CASE SignalStop \/ SignalStopProcess \/ ThreadStopRequest
  BY <1>5 DEF SignalStop, SignalStopProcess, ThreadStopRequest
<1>6. CASE Consume \/ ReportsRunning \/ ReportsFailed \/ ReportsStopped
  BY <1>0, <1>6, DesiredAfter DEF Consume, ReportsRunning, ReportsFailed, ReportsStopped
<1>7. CASE Check \/ ReadSequence \/ EndWait \/ ConsumeConfig \/ Reload \/ Idle
  BY <1>7 DEF Check, ReadSequence, EndWait, ConsumeConfig, Reload, Idle
<1>8. CASE ClearStop \/ Recheck \/ StoreActive \/ MainLoop
  BY <1>8 DEF ClearStop, Recheck, StoreActive, MainLoop
<1>9. CASE BeginSession \/ Prepare \/ ReadConfig \/ SetupDevice \/ Attach \/ Play
  BY <1>9 DEF BeginSession, Prepare, ReadConfig, SetupDevice, Attach, Play
<1>10. CASE Detach \/ ServeAgain \/ DestroyEngine \/ EndSession \/ Close
  BY <1>10 DEF Detach, ServeAgain, DestroyEngine, EndSession, Close
<1>11. CASE UNCHANGED vars
  BY <1>11 DEF vars
<1> QED
  BY <1>1, <1>2, <1>3, <1>4, <1>5, <1>6, <1>7, <1>8, <1>9, <1>10, <1>11
     DEF Next, Operator, OperatorStep, LoopStep

(* A termination signal that found a run.  The main loop does not come to  *)
(* its store while `stop` is set, and the next round forgets the signal    *)
(* before it clears `stop`.                                                *)
LEMMA SignalStandsStep == TypeOK /\ SignalStands /\ [Next]_vars => SignalStands'
<1> SUFFICES ASSUME TypeOK, SignalStands, [Next]_vars
             PROVE  SignalStands'
  OBVIOUS
<1> USE DEF SignalStands, FindsRun, InRun, Goto, shared, loopVars
<1>1. CASE Operator
  <2>1. UNCHANGED <<loop, signalled>>
    BY <1>1 DEF Operator, OperatorStep, Command, CommandLocked, CommandPersists,
       CommandRequests, SaveConfig, MarkDirty, ScanBegins, ScanEnds
  <2>2. stop => stop'
    <3>1. CASE CommandRequests
      BY <3>1, Zenon DEF CommandRequests
    <3>2. CASE UNCHANGED stop
      BY <3>2
    <3>3. CommandRequests \/ UNCHANGED stop
      BY <1>1 DEF Operator, OperatorStep, Command, CommandLocked, CommandPersists,
         SaveConfig, MarkDirty, ScanBegins, ScanEnds
    <3> QED
      BY <3>1, <3>2, <3>3
  <2> QED
    BY <2>1, <2>2
<1>2. CASE SignalStop \/ SignalStopProcess \/ ThreadStopRequest
  <2>1. CASE SignalStop
    <3>1. stop' = TRUE /\ loop' = loop
      BY <2>1 DEF SignalStop
    <3>2. signalled' => FindsRun
      <4> HIDE DEF FindsRun
      <4> QED
        BY <2>1, Zenon DEF SignalStop
    <3> QED
      BY <3>1, <3>2
  <2>2. CASE SignalStopProcess \/ ThreadStopRequest
    <3>1. UNCHANGED <<loop, signalled>> /\ (stop => stop')
      BY <2>2 DEF SignalStopProcess, ThreadStopRequest
    <3> QED
      BY <3>1
  <2> QED
    BY <1>2, <2>1, <2>2
<1>3. CASE ClearStop \/ Recheck \/ StoreActive \/ MainLoop \/ ReportsStopped
  BY <1>3 DEF ClearStop, Recheck, StoreActive, MainLoop, ReportsStopped
<1>4. CASE Consume \/ Check \/ ReadSequence \/ EndWait \/ ConsumeConfig \/ Reload \/ Idle
  BY <1>4 DEF Consume, Check, ReadSequence, EndWait, ConsumeConfig, Reload, Idle
<1>5. CASE BeginSession \/ Prepare \/ ReadConfig \/ SetupDevice \/ Attach \/ Play
           \/ ReportsRunning
  BY <1>5 DEF BeginSession, Prepare, ReadConfig, SetupDevice, Attach, Play, ReportsRunning
<1>6. CASE Detach \/ ServeAgain \/ ReportsFailed \/ DestroyEngine \/ EndSession \/ Close
  BY <1>6 DEF Detach, ServeAgain, ReportsFailed, DestroyEngine, EndSession, Close
<1>7. CASE UNCHANGED vars
  BY <1>7 DEF vars
<1> QED
  BY <1>1, <1>2, <1>3, <1>4, <1>5, <1>6, <1>7 DEF Next, LoopStep

-----------------------------------------------------------------------------
(* The session brackets the device, so no scan runs beside it.             *)
LEMMA SessionBracketedStep ==
  TypeOK /\ SessionBracketed /\ [Next]_vars => SessionBracketed'
<1> SUFFICES ASSUME TypeOK, SessionBracketed, [Next]_vars
             PROVE  SessionBracketed'
  OBVIOUS
<1> USE DEF SessionBracketed, InSession, ScanLocked, Goto, shared, loopVars
<1>1. CASE Operator
  <2>1. UNCHANGED <<loop, device, engine_busy>>
    BY <1>1 DEF Operator, OperatorStep, Command, CommandLocked, CommandPersists,
       CommandRequests, SaveConfig, MarkDirty, ScanBegins, ScanEnds
  <2>2. CASE ScanBegins
    BY <2>1, <2>2 DEF ScanBegins, TypeOK
  <2>3. CASE ~ScanBegins
    <3>1. op' # op => op'.pc # "scan"
      <4>1. CASE \E cmd \in Commands : Command(cmd)
        BY <4>1 DEF Command, TypeOK
      <4>2. CASE CommandLocked
        <5>1. \/ op' = NoRequest
              \/ op' = [op EXCEPT !.pc = "persist"]
              \/ op' = [op EXCEPT !.pc = "persist", !.running = (core.state = "Running")]
          BY <4>2 DEF CommandLocked
        <5>2. CASE op' = [op EXCEPT !.pc = "persist"]
          BY <5>2 DEF TypeOK
        <5>3. CASE op' = [op EXCEPT !.pc = "persist", !.running = (core.state = "Running")]
          BY <5>3 DEF TypeOK
        <5> QED
          BY <5>1, <5>2, <5>3 DEF NoRequest
      <4>3. CASE CommandPersists \/ SaveConfig
        BY <4>3 DEF CommandPersists, SaveConfig, TypeOK
      <4>4. CASE CommandRequests \/ MarkDirty \/ ScanEnds
        BY <4>4 DEF CommandRequests, MarkDirty, ScanEnds, NoRequest
      <4> QED
        BY <1>1, <2>3, <4>1, <4>2, <4>3, <4>4 DEF Operator, OperatorStep
    <3> QED
      BY <2>1, <3>1
  <2> QED
    BY <2>2, <2>3
<1>2. CASE SignalStop \/ SignalStopProcess \/ ThreadStopRequest
  BY <1>2 DEF SignalStop, SignalStopProcess, ThreadStopRequest
<1>3. CASE BeginSession \/ EndSession
  BY <1>3 DEF BeginSession, EndSession
<1>4. CASE Prepare \/ DestroyEngine
  BY <1>4 DEF Prepare, DestroyEngine
<1>5. CASE Check \/ Consume \/ ReadSequence \/ EndWait \/ ConsumeConfig \/ Reload \/ Idle
           \/ ClearStop \/ Recheck \/ Close
  BY <1>5 DEF Check, Consume, ReadSequence, EndWait, ConsumeConfig, Reload, Idle,
     ClearStop, Recheck, Close
<1>6. CASE ReadConfig \/ SetupDevice \/ Attach \/ Play \/ ReportsRunning \/ MainLoop \/ StoreActive
  BY <1>6 DEF ReadConfig, SetupDevice, Attach, Play, ReportsRunning, MainLoop, StoreActive
<1>7. CASE Detach \/ ServeAgain \/ ReportsFailed \/ ReportsStopped
  BY <1>7 DEF Detach, ServeAgain, ReportsFailed, ReportsStopped
<1>8. CASE UNCHANGED vars
  BY <1>8 DEF vars
<1> QED
  BY <1>1, <1>2, <1>3, <1>4, <1>5, <1>6, <1>7, <1>8 DEF Next, LoopStep

-----------------------------------------------------------------------------
(* The viewer's references into the engine: run() links the viewer before  *)
(* it attaches it, so detach() reaches it on every path.                   *)
LEMMA ViewerDetachedStep ==
  TypeOK /\ DetachReachesViewer /\ ViewerDetached /\ [Next]_vars
    => DetachReachesViewer' /\ ViewerDetached'
<1> SUFFICES ASSUME TypeOK, DetachReachesViewer, ViewerDetached, [Next]_vars
             PROVE  DetachReachesViewer' /\ ViewerDetached'
  OBVIOUS
<1> USE DEF DetachReachesViewer, ViewerDetached, Goto, shared, loopVars
<1>1. CASE Operator \/ SignalStop \/ SignalStopProcess \/ ThreadStopRequest
  <2>1. UNCHANGED <<loop, engine, viewer>>
    BY <1>1 DEF Operator, OperatorStep, Command, CommandLocked, CommandPersists,
       CommandRequests, SaveConfig, MarkDirty, ScanBegins, ScanEnds,
       SignalStop, SignalStopProcess, ThreadStopRequest
  <2> QED
    BY <2>1
<1>2. CASE ConsumeConfig \/ Reload \/ Prepare \/ ReadConfig \/ ServeAgain \/ Close
  <2>1. viewer'.attached = viewer.attached /\ engine'.linked = engine.linked
    BY <1>2 DEF ConsumeConfig, Reload, Prepare, ReadConfig, ServeAgain, Close, TypeOK
  <2> QED
    BY <1>2, <2>1 DEF ConsumeConfig, Reload, Prepare, ReadConfig, ServeAgain, Close
<1>3. CASE SetupDevice
  BY <1>3 DEF SetupDevice, TypeOK
<1>4. CASE Attach
  BY <1>4 DEF Attach, TypeOK
<1>5. CASE Detach \/ DestroyEngine
  <2>1. ~viewer'.attached
    BY <1>5 DEF Detach, DestroyEngine, DetachedViewer, TypeOK
  <2> QED
    BY <1>5, <2>1 DEF Detach, DestroyEngine
<1>6. CASE BeginSession
  BY <1>6 DEF BeginSession
<1>7. CASE Check \/ Consume \/ ReadSequence \/ EndWait \/ Idle \/ ClearStop \/ Recheck \/ EndSession
  BY <1>7 DEF Check, Consume, ReadSequence, EndWait, Idle, ClearStop, Recheck, EndSession
<1>8. CASE Play \/ ReportsRunning \/ MainLoop \/ StoreActive \/ ReportsFailed \/ ReportsStopped
  BY <1>8 DEF Play, ReportsRunning, MainLoop, StoreActive, ReportsFailed, ReportsStopped
<1>9. CASE UNCHANGED vars
  BY <1>9 DEF vars
<1> QED
  BY <1>1, <1>2, <1>3, <1>4, <1>5, <1>6, <1>7, <1>8, <1>9 DEF Next, LoopStep

-----------------------------------------------------------------------------
(* A saved configuration stays flagged until the viewer has it or has been *)
(* reset.                                                                  *)
LEMMA ChangeFlaggedStep == TypeOK /\ ChangeFlagged /\ [Next]_vars => ChangeFlagged'
<1> SUFFICES ASSUME TypeOK, ChangeFlagged, [Next]_vars
             PROVE  ChangeFlagged'
  OBVIOUS
<1> USE DEF ChangeFlagged, Goto, shared, loopVars
<1>1. CASE SaveConfig
  BY <1>1 DEF SaveConfig, TypeOK
<1>2. CASE MarkDirty
  BY <1>2 DEF MarkDirty
<1>3. CASE CommandPersists
  BY <1>3 DEF CommandPersists, TypeOK
<1>4. CASE ScanBegins \/ ScanEnds \/ CommandLocked \/ CommandRequests
           \/ \E cmd \in Commands : Command(cmd)
  <2>1. UNCHANGED <<file, viewer, config_dirty>> /\ op.pc # "dirty"
    BY <1>4 DEF ScanBegins, ScanEnds, CommandLocked, CommandRequests, Command, Accepting
  <2> QED
    BY <2>1
<1>5. CASE ConsumeConfig \/ Prepare
  BY <1>5 DEF ConsumeConfig, Prepare, TypeOK
<1>6. CASE Reload \/ ReadConfig
  <2>1. viewer'.cfg \in {viewer.cfg, file.cfg} /\ UNCHANGED <<file, config_dirty, op>>
    BY <1>6 DEF Reload, ReadConfig, TypeOK
  <2> QED
    BY <2>1
<1>7. CASE Attach \/ Detach \/ ServeAgain \/ DestroyEngine \/ Close
  <2>1. viewer'.cfg = viewer.cfg /\ UNCHANGED <<file, config_dirty, op>>
    BY <1>7 DEF Attach, Detach, ServeAgain, DestroyEngine, Close, DetachedViewer, TypeOK
  <2> QED
    BY <2>1
<1>8. CASE UNCHANGED <<file, viewer, config_dirty, op>>
  BY <1>8
<1>9. CASE SignalStop \/ SignalStopProcess \/ ThreadStopRequest \/ UNCHANGED vars
  BY <1>8, <1>9 DEF SignalStop, SignalStopProcess, ThreadStopRequest, vars
<1>10. CASE Check \/ Consume \/ ReadSequence \/ EndWait \/ Idle \/ ClearStop \/ Recheck
            \/ BeginSession \/ SetupDevice \/ Play \/ ReportsRunning \/ MainLoop
            \/ StoreActive \/ ReportsFailed \/ ReportsStopped \/ EndSession
  BY <1>8, <1>10 DEF Check, Consume, ReadSequence, EndWait, Idle, ClearStop, Recheck,
     BeginSession, SetupDevice, Play, ReportsRunning, MainLoop, StoreActive, ReportsFailed,
     ReportsStopped, EndSession
<1> QED
  BY <1>1, <1>2, <1>3, <1>4, <1>5, <1>6, <1>7, <1>9, <1>10
     DEF Next, Operator, OperatorStep, LoopStep

-----------------------------------------------------------------------------
(* An unexpected stop leads through the retry wait.                        *)
LEMMA DelayOwedStep == TypeOK /\ DelayOwed /\ [Next]_vars => DelayOwed'
<1> SUFFICES ASSUME TypeOK, DelayOwed, [Next]_vars
             PROVE  DelayOwed'
  OBVIOUS
<1>0. core \in Core
  BY DEF TypeOK
<1> USE DEF DelayOwed, Goto, shared, loopVars
<1>1. CASE CommandLocked \/ \E cmd \in Commands : Command(cmd)
  <2>1. ~owed'
    BY <1>1 DEF CommandLocked, Command
  <2> QED
    BY <2>1
<1>2. CASE CommandPersists \/ CommandRequests \/ SaveConfig \/ MarkDirty \/ ScanBegins \/ ScanEnds
  <2>1. UNCHANGED <<core, command_seq, stop_process, loop, seen_seq, owed>>
    BY <1>2 DEF CommandPersists, CommandRequests, SaveConfig, MarkDirty, ScanBegins, ScanEnds
  <2> QED
    BY <2>1
<1>3. CASE SignalStop \/ SignalStopProcess \/ ThreadStopRequest
  BY <1>3 DEF SignalStop, SignalStopProcess, ThreadStopRequest
<1>4. CASE Check \/ ReadSequence
  BY <1>4 DEF Check, ReadSequence
<1>5. CASE Consume
  BY <1>0, <1>5, DesiredAfter DEF Consume, RetryDelay, Core
<1>6. CASE EndWait
  BY <1>6 DEF EndWait
<1>7. CASE ConsumeConfig \/ Reload \/ Idle
  BY <1>7 DEF ConsumeConfig, Reload, Idle
<1>8. CASE ReportsStopped
  <2>1. ~owed /\ loop' = "destroy" /\ (owed' => StopsUnexpectedly(core))
    BY <1>8 DEF ReportsStopped
  <2>2. PICK healthy \in BOOLEAN : core' = ReportStopped(core, healthy)
    BY <1>8 DEF ReportsStopped
  <2> QED
    BY <1>0, <2>1, <2>2, UnexpectedStopOwesDelay
<1>9. CASE DestroyEngine \/ EndSession \/ Close
  BY <1>9 DEF DestroyEngine, EndSession, Close
<1>10. CASE ClearStop \/ Recheck \/ BeginSession \/ Prepare \/ ReadConfig \/ SetupDevice
            \/ Attach \/ Play \/ ReportsRunning \/ MainLoop \/ StoreActive \/ Detach
            \/ ServeAgain \/ ReportsFailed
  <2>1. ~owed /\ UNCHANGED owed
    BY <1>10 DEF ClearStop, Recheck, BeginSession, Prepare, ReadConfig, SetupDevice, Attach,
       Play, ReportsRunning, MainLoop, StoreActive, Detach, ServeAgain, ReportsFailed
  <2> QED
    BY <2>1
<1>11. CASE UNCHANGED vars
  BY <1>11 DEF vars
<1> QED
  BY <1>1, <1>2, <1>3, <1>4, <1>5, <1>6, <1>7, <1>8, <1>9, <1>10, <1>11
     DEF Next, Operator, OperatorStep, LoopStep

-----------------------------------------------------------------------------
LEMMA InitIInv == Init => IInv
<1> SUFFICES ASSUME Init
             PROVE  IInv
  OBVIOUS
<1> USE DEF Init, InitialCore, NoEngine, NoRequest, Defaults
<1>1. core \in Core
  <2>1. 0 \in 0 .. RETRY_DELAY_MAX /\ file.engine \in BOOLEAN
    BY RetryDelays
  <2> QED
    BY <2>1 DEF Core
<1>2. TypeOK
  <2>1. file \in [engine : BOOLEAN, cfg : Nat] /\ file.cfg \in Nat
    OBVIOUS
  <2>2. viewer \in [serving : BOOLEAN, attached : BOOLEAN, cfg : Nat]
    BY <2>1
  <2>3. /\ op \in [pc : {"idle", "lock", "persist", "request", "dirty", "scan", "skip"},
                  cmd : Commands, running : BOOLEAN]
        /\ engine \in [cfg : Nat, linked : BOOLEAN]
    BY DEF Commands
  <2> QED
    BY <1>1, <2>1, <2>2, <2>3 DEF TypeOK, Loop
<1> QED
  BY <1>2 DEF IInv, StopNotLost, SignalStands, InRun, SessionBracketed, InSession,
     DetachReachesViewer, ViewerDetached, ChangeFlagged, DelayOwed

LEMMA InductiveIInv == IInv /\ [Next]_vars => IInv'
BY TypeStep, StopNotLostStep, SignalStandsStep, SessionBracketedStep, ViewerDetachedStep,
   ChangeFlaggedStep, DelayOwedStep DEF IInv

LEMMA Invariance == Spec => []IInv
BY InitIInv, InductiveIInv, PTL DEF Spec

(* TypeOK holds for all retry delays and bounds: in particular the retry   *)
(* delay never passes RETRY_DELAY_MAX (ControlCore.cpp:571).               *)
THEOREM TypeCorrect == Spec => []TypeOK
<1>1. IInv => TypeOK
  BY DEF IInv
<1> QED
  BY <1>1, Invariance, PTL

(* StopNotLost: an undesired engine sees `stop`, whatever the interleaving *)
(* of operator and loop (ManagedMain.cpp:141-143), unless the main loop's  *)
(* own store (Engine.cpp:229) overwrote it.                                *)
THEOREM StopIsNotLost == Spec => []StopNotLost
<1>1. IInv => StopNotLost
  BY DEF IInv
<1> QED
  BY <1>1, Invariance, PTL

(* SignalStands: a termination signal that comes while a run goes on (but  *)
(* not between the loop's look at `stop` and its store, Engine.cpp:229)    *)
(* still stands whenever that run looks at `stop` again: neither the store *)
(* nor ManagedMain.cpp:141 comes in between.                               *)
THEOREM SignalReachesRun == Spec => []SignalStands
<1>1. IInv => SignalStands
  BY DEF IInv
<1> QED
  BY <1>1, Invariance, PTL

(* NoScanDuringSession: EngineSessionGuard (ManagedMain.cpp:90-96) keeps   *)
(* getDeviceListJSON() from enumerating devices under a session.           *)
THEOREM ScanExcluded == Spec => []NoScanDuringSession
<1>1. IInv => NoScanDuringSession
  BY DEF IInv, SessionBracketed, NoScanDuringSession, InSession
<1> QED
  BY <1>1, Invariance, PTL

(* ViewerDetached: on every path out of a run, thrown or not, the viewer   *)
(* drops its references before it serves again (ManagedMain.cpp:166-176).  *)
THEOREM ViewerIsDetached == Spec => []ViewerDetached
<1>1. IInv => ViewerDetached
  BY DEF IInv
<1> QED
  BY <1>1, Invariance, PTL

(* ViewerConfigFresh: no saved configuration is missed by the viewer.      *)
THEOREM ViewerConfigIsFresh == Spec => []ViewerConfigFresh
<1>1. IInv => ViewerConfigFresh
  BY DEF IInv, ChangeFlagged, ViewerConfigFresh
<1> QED
  BY <1>1, Invariance, PTL

(* BackoffRespected: after an unexpected stop no run begins before the     *)
(* delay is over or the operator speaks (ControlCore.cpp:555-581).         *)
THEOREM BackoffIsRespected == Spec => []BackoffRespected
<1>1. IInv => BackoffRespected
  BY DEF IInv, DelayOwed, BackoffRespected, InRun
<1> QED
  BY <1>1, Invariance, PTL

-----------------------------------------------------------------------------
(* The sample FIFO.                                                        *)

(* The parts of the inductive invariant, while the FIFO is not halted.     *)

(* From head to tail lie the bytes not yet popped, in order: whole blocks  *)
(* and a partial one.                                                      *)
Linked ==
  blocks_filled # -1 =>
    /\ tail = (head + (accepted - received)) % Capacity
    /\ accepted - received = blocks_filled * BLOCK_SIZE + (tail % BLOCK_SIZE)
    /\ tail % BLOCK_SIZE = accepted % BLOCK_SIZE
    /\ \A i \in 0 .. (accepted - received - 1) :
         data[(head + i) % Capacity] = received + i + 1
    /\ runner.pc = "send" => runner.n \in 0 .. blocks_filled

(* Where a reader that must not drop and must pad stands in the input.     *)
Padded ==
  blocks_filled # -1 /\ lossless /\ ~is_text =>
    /\ reader.pc \in {"read", "pad"} => accepted = total
    /\ reader.pc \in {"push", "blocked"} => accepted + reader.sz = total
    /\ reader.pc \in {"push_pad", "blocked_pad"} =>
         accepted = total /\ reader.sz = BLOCK_SIZE - (total % BLOCK_SIZE)
    /\ reader.pc \in {"finish", "eoi", "ended"} => accepted % BLOCK_SIZE = 0

(* What the end of the input, and that of the device, leave behind.        *)
Ended ==
  /\ streaming => main \in {"run", "stop"} /\ blocks_filled # -1
  /\ main \in {"run", "stop"} => blocks_filled # -1
  /\ last_input => reader.pc \in {"eoi", "ended"}
  /\ ended_wait => last_input /\ blocks_filled =< 0 /\ runner.pc \notin {"front", "send"}
  /\ done => runner.pc \in {"check", "ended"}

FifoInv == FifoTypeOK /\ Linked /\ HeldIntact /\ Padded /\ Ended /\ EndDrained

LEMMA CapacityPositive == Capacity \in Nat \ {0}
<1>1. ASSUME NEW a \in Nat \ {0}, NEW b \in Nat \ {0}
      PROVE  a * b \in Nat \ {0}
  OBVIOUS
<1> QED
  BY <1>1, FIFOSizes DEF Capacity

LEMMA DivisionIsInteger ==
  ASSUME NEW a \in Int, NEW b \in Nat \ {0}
  PROVE  /\ a \div b \in Int /\ a % b \in 0 .. (b - 1)
         /\ a = b * (a \div b) + (a % b)
OBVIOUS

LEMMA TimesGrows ==
  ASSUME NEW b \in Nat \ {0}, NEW d \in Int, d >= 1
  PROVE  b * d \in Int /\ b * d >= b
OBVIOUS

LEMMA RemainderUnique ==
  ASSUME NEW b \in Nat \ {0}, NEW q \in Int, NEW r \in 0 .. (b - 1)
  PROVE  (b * q + r) % b = r
<1> DEFINE a == b * q + r
           p == a \div b
           s == a % b
<1>1. a \in Int
  OBVIOUS
<1>2. p \in Int /\ s \in 0 .. (b - 1) /\ a = b * p + s
  BY <1>1, DivisionIsInteger
<1> HIDE DEF p, s
<1>3. b * (q - p) = s - r
  BY <1>2
<1>4. ~(q - p >= 1)
  BY <1>2, <1>3, TimesGrows
<1>5. ~(p - q >= 1)
  <2>1. b * (p - q) = r - s
    BY <1>2
  <2> QED
    BY <1>2, <2>1, TimesGrows
<1>6. q = p
  BY <1>2, <1>4, <1>5
<1> QED
  BY <1>2, <1>3, <1>6 DEF s

LEMMA RemainderShift ==
  ASSUME NEW b \in Nat \ {0}, NEW z \in Int, NEW q \in Int
  PROVE  (z + b * q) % b = z % b
<1> DEFINE d == z \div b
           r == z % b
<1>1. d \in Int /\ r \in 0 .. (b - 1) /\ z = b * d + r
  BY DivisionIsInteger
<1> HIDE DEF d, r
<1>2. z + b * q = b * (d + q) + r /\ d + q \in Int
  BY <1>1
<1> QED
  BY <1>1, <1>2, RemainderUnique DEF r

LEMMA RemainderSum ==
  ASSUME NEW b \in Nat \ {0}, NEW x \in Int, NEW y \in Int
  PROVE  ((x % b) + y) % b = (x + y) % b
<1> DEFINE q == x \div b
           r == x % b
<1>1. q \in Int /\ r \in 0 .. (b - 1) /\ x = b * q + r
  BY DivisionIsInteger
<1> HIDE DEF q, r
<1>2. x + y = (r + y) + b * q /\ r + y \in Int
  BY <1>1
<1> QED
  BY <1>2, <1>1, RemainderShift DEF r

LEMMA RemainderSmall ==
  ASSUME NEW b \in Nat \ {0}, NEW x \in 0 .. (b - 1)
  PROVE  x % b = x
OBVIOUS

LEMMA RemainderDifference ==
  ASSUME NEW b \in Nat \ {0}, NEW x \in Int, NEW y \in Int
  PROVE  ((x % b) - (y % b) + b) % b = (x - y) % b
<1> DEFINE q == y \div b
           r == y % b
<1>1. q \in Int /\ r \in 0 .. (b - 1) /\ y = b * q + r /\ x % b \in Int
  BY DivisionIsInteger
<1> HIDE DEF q, r
<1>2. b - r \in Int /\ (x % b) - r + b = (x % b) + (b - r)
  BY <1>1
<1>3. ((x % b) + (b - r)) % b = (x + (b - r)) % b
  BY <1>2, RemainderSum
<1>4. x + (b - r) = (x - y) + b * (q + 1) /\ q + 1 \in Int /\ x - y \in Int
  BY <1>1
<1>5. (x + (b - r)) % b = (x - y) % b
  <2>1. ((x - y) + b * (q + 1)) % b = (x - y) % b
    BY <1>4, RemainderShift, Zenon
  <2> QED
    BY <1>4, <2>1, Zenon
<1> QED
  BY <1>2, <1>3, <1>5 DEF r

LEMMA RemainderOfMultiple ==
  ASSUME NEW b \in Nat \ {0}, NEW n \in Nat \ {0}, NEW x \in Int
  PROVE  (x % (n * b)) % b = x % b
<1> DEFINE c == n * b
<1>1. ASSUME NEW e \in Nat \ {0}
      PROVE  \E d \in Int, r \in Int : r = x % e /\ x = e * d + r
  <2>1. x \div e \in Int /\ x % e \in Int /\ x = e * (x \div e) + (x % e)
    BY DivisionIsInteger
  <2> QED
    BY <2>1, Zenon
<1>2. c \in Nat \ {0}
  OBVIOUS
<1>3. PICK d \in Int, r \in Int : r = x % c /\ x = c * d + r
  BY <1>1, <1>2, Zenon
<1>4. (n * b) * d = b * (n * d) /\ n * d \in Int
  OBVIOUS
<1>5. x = r + b * (n * d)
  BY <1>3, <1>4
<1> HIDE DEF c
<1>6. x % b = r % b
  <2>1. (r + b * (n * d)) % b = r % b
    BY <1>3, <1>4, RemainderShift, Zenon
  <2> QED
    BY <1>5, <2>1, Zenon
<1> QED
  BY <1>3, <1>6 DEF c

LEMMA DivisionOfNext ==
  ASSUME NEW a \in Nat, NEW b \in Nat \ {0}
  PROVE  /\ a \div b \in Nat
         /\ a \div b =< ((a - 1) \div b) + 1
         /\ (a - 1) \div b \in Int
OBVIOUS

(* A push that has space leaves no more blocks filled than there are.      *)
LEMMA StoreFits ==
  ASSUME FifoTypeOK, NEW sz \in Nat, HasSpace(sz), blocks_filled # -1
  PROVE  blocks_filled + BlocksReady(sz) \in 0 .. N_BLOCKS
<1> DEFINE a == (tail % BLOCK_SIZE) + sz
<1>1. BLOCK_SIZE \in Nat \ {0} /\ N_BLOCKS \in Nat
  BY FIFOSizes
<1>2. tail \in Int
  BY CapacityPositive DEF FifoTypeOK, Index
<1>3. a \in Nat /\ tail % BLOCK_SIZE \in Int
  BY <1>1, <1>2, DivisionIsInteger
<1>4. /\ BlocksReady(sz) \in Nat
      /\ BlocksReady(sz) =< BlocksNeeded(sz)
      /\ BlocksNeeded(sz) \in Int
  <2> HIDE DEF a
  <2>1. /\ a \div BLOCK_SIZE \in Nat
        /\ a \div BLOCK_SIZE =< ((a - 1) \div BLOCK_SIZE) + 1
        /\ (a - 1) \div BLOCK_SIZE \in Int
    BY <1>1, <1>3, DivisionOfNext
  <2>2. BlocksReady(sz) = a \div BLOCK_SIZE
    BY DEF BlocksReady, a
  <2>3. BlocksNeeded(sz) = ((a - 1) \div BLOCK_SIZE) + 1
    BY <1>3 DEF BlocksNeeded, a
  <2> QED
    BY <2>1, <2>2, <2>3
<1>5. blocks_filled \in 0 .. N_BLOCKS
  BY <1>1 DEF FifoTypeOK
<1>6. blocks_filled + BlocksNeeded(sz) =< N_BLOCKS
  BY DEF HasSpace
<1> QED
  BY <1>1, <1>4, <1>5, <1>6

LEMMA StoreTyped ==
  ASSUME FifoTypeOK, NEW sz \in Nat, HasSpace(sz), blocks_filled # -1, Store(sz)
  PROVE  /\ data' \in [Index -> Nat]
         /\ tail' \in Index
         /\ blocks_filled' \in 0 .. N_BLOCKS
         /\ accepted' \in Nat
<1>1. blocks_filled' \in 0 .. N_BLOCKS
  BY StoreFits DEF Store
<1>2. tail' \in Index
  <2>1. tail + sz \in Int
    BY CapacityPositive DEF FifoTypeOK, Index
  <2> QED
    BY <2>1, CapacityPositive, DivisionIsInteger DEF Store, Index
<1>3. ASSUME NEW i \in Index
      PROVE  (LET k == (i - tail + Capacity) % Capacity
              IN  IF k < sz THEN accepted + k + 1 ELSE data[i]) \in Nat
  <2>1. i - tail + Capacity \in Int
    BY CapacityPositive DEF FifoTypeOK, Index
  <2>2. ASSUME NEW x \in Int
        PROVE  x % Capacity \in Nat
    BY CapacityPositive, DivisionIsInteger
  <2>3. (i - tail + Capacity) % Capacity \in Nat
    BY <2>1, <2>2
  <2> QED
    BY <2>3 DEF FifoTypeOK
<1>4. data' \in [Index -> Nat]
  BY <1>3, Zenon DEF Store
<1> QED
  BY <1>1, <1>2, <1>4 DEF Store, FifoTypeOK

LEMMA PushTyped ==
  ASSUME FifoTypeOK,
         NEW from \in {"push", "push_pad"}, NEW blocked \in {"blocked", "blocked_pad"},
         NEW after \in {"read", "finish"},
         Push(from, blocked, after)
  PROVE  FifoTypeOK'
<1>0. reader.sz \in Nat
  BY DEF FifoTypeOK
<1>1. /\ data' \in [Index -> Nat] /\ tail' \in Index
      /\ blocks_filled' \in -1 .. N_BLOCKS /\ accepted' \in Nat
  <2>1. CASE HasSpace(reader.sz) /\ blocks_filled # -1 /\ Store(reader.sz)
    <3>1. blocks_filled' \in 0 .. N_BLOCKS
      BY <1>0, <2>1, StoreTyped
    <3>2. data' \in [Index -> Nat] /\ tail' \in Index /\ accepted' \in Nat
      BY <1>0, <2>1, StoreTyped
    <3> QED
      BY <3>1, <3>2, FIFOSizes
  <2>2. CASE UNCHANGED <<data, tail, blocks_filled, accepted>>
    BY <2>2 DEF FifoTypeOK
  <2> QED
    BY <2>1, <2>2 DEF Push
<1>2. reader' \in [pc : {"read", "push", "blocked", "pad", "push_pad", "blocked_pad",
                         "finish", "eoi", "ended"}, sz : Nat]
  BY DEF Push, FifoTypeOK
<1> QED
  BY <1>1, <1>2 DEF Push, FifoTypeOK, flags, setup

LEMMA NotifiedTyped ==
  ASSUME FifoTypeOK
  PROVE  SpaceNotified \in [pc : {"read", "push", "blocked", "pad", "push_pad", "blocked_pad",
                                  "finish", "eoi", "ended"}, sz : Nat]
BY DEF SpaceNotified, FifoTypeOK

LEMMA PopTyped == FifoTypeOK /\ Pop => FifoTypeOK'
<1> SUFFICES ASSUME FifoTypeOK, Pop
             PROVE  FifoTypeOK'
  OBVIOUS
<1>1. BLOCK_SIZE \in Nat \ {0} /\ N_BLOCKS \in Nat
  BY FIFOSizes
<1>2. runner.n \in -1 .. N_BLOCKS /\ blocks_filled \in -1 .. N_BLOCKS
  BY DEF FifoTypeOK
<1>3. received' \in Nat
  <2>1. ASSUME NEW n \in Nat
        PROVE  received + n * BLOCK_SIZE \in Nat
    BY <1>1 DEF FifoTypeOK
  <2>2. CASE runner.n > 0 /\ runner.n \in Nat
    BY <1>2, <2>1, <2>2 DEF Pop
  <2>3. CASE ~(runner.n > 0)
    BY <2>3 DEF Pop, FifoTypeOK
  <2>4. runner.n > 0 => runner.n \in Nat
    BY <1>1, <1>2
  <2> QED
    BY <2>2, <2>3, <2>4
<1>4. head' \in Index /\ blocks_filled' \in -1 .. N_BLOCKS
  <2>1. CASE Popped > 0
    <3>1. Popped \in Nat /\ Popped =< blocks_filled
      BY <1>1, <1>2, <2>1 DEF Popped
    <3>2. head + Popped * BLOCK_SIZE \in Int
      BY <1>1, <3>1, CapacityPositive DEF FifoTypeOK, Index
    <3>3. (head + Popped * BLOCK_SIZE) % Capacity \in Index
      BY <3>2, CapacityPositive, DivisionIsInteger DEF Index
    <3> QED
      BY <1>1, <1>2, <2>1, <3>1, <3>3 DEF Pop
  <2>2. CASE ~(Popped > 0)
    BY <2>2 DEF Pop, FifoTypeOK
  <2> QED
    BY <2>1, <2>2
<1>5. reader' \in [pc : {"read", "push", "blocked", "pad", "push_pad", "blocked_pad",
                         "finish", "eoi", "ended"}, sz : Nat]
  BY NotifiedTyped DEF Pop, FifoTypeOK
<1>6. runner' \in [pc : {"check", "wait", "waiting", "front", "send", "empty", "ended"},
                   n : -1 .. N_BLOCKS]
  <2>1. 0 \in -1 .. N_BLOCKS
    BY <1>1
  <2> QED
    BY <2>1 DEF Pop
<1> QED
  BY <1>3, <1>4, <1>5, <1>6 DEF Pop, FifoTypeOK, flags, setup

LEMMA ToWrapTyped ==
  ASSUME FifoTypeOK
  PROVE  ToWrap \in Nat
<1>1. Capacity - head \in Nat
  BY CapacityPositive DEF FifoTypeOK, Index
<1>2. ASSUME NEW x \in Nat
      PROVE  x \div BLOCK_SIZE \in Nat
  BY FIFOSizes, DivisionOfNext
<1> QED
  BY <1>1, <1>2 DEF ToWrap

LEMMA FrontTyped == FifoTypeOK /\ Front => FifoTypeOK'
<1> SUFFICES ASSUME FifoTypeOK, Front
             PROVE  FifoTypeOK'
  OBVIOUS
<1>1. BLOCK_SIZE \in Nat \ {0} /\ N_BLOCKS \in Nat
  BY FIFOSizes
<1>2. ToWrap \in Nat
  BY ToWrapTyped
<1>3. blocks_filled \in -1 .. N_BLOCKS
  BY DEF FifoTypeOK
<1>4. (IF blocks_filled < ToWrap THEN blocks_filled ELSE ToWrap) \in -1 .. N_BLOCKS
  BY <1>1, <1>2, <1>3
<1>5. runner' \in [pc : {"check", "wait", "waiting", "front", "send", "empty", "ended"},
                   n : -1 .. N_BLOCKS]
  BY <1>4 DEF Front
<1> QED
  BY <1>5 DEF Front, FifoTypeOK, fifo, flags, setup

LEMMA PadTyped == FifoTypeOK /\ Pad => FifoTypeOK'
<1> SUFFICES ASSUME FifoTypeOK, Pad
             PROVE  FifoTypeOK'
  OBVIOUS
<1>1. BLOCK_SIZE \in Nat \ {0}
  BY FIFOSizes
<1>2. total % BLOCK_SIZE \in 0 .. (BLOCK_SIZE - 1)
  BY <1>1, DivisionIsInteger DEF FifoTypeOK
<1>3. BLOCK_SIZE - (total % BLOCK_SIZE) \in Nat
  BY <1>1, <1>2
<1>4. reader' \in [pc : {"read", "push", "blocked", "pad", "push_pad", "blocked_pad",
                         "finish", "eoi", "ended"}, sz : Nat]
  BY <1>3 DEF Pad, FifoTypeOK
<1> QED
  BY <1>4 DEF Pad, FifoTypeOK, fifo, flags, setup

LEMMA FifoTypeStep == FifoTypeOK /\ [FifoNext]_fifo_vars => FifoTypeOK'
<1> SUFFICES ASSUME FifoTypeOK, [FifoNext]_fifo_vars
             PROVE  FifoTypeOK'
  OBVIOUS
<1> USE DEF FifoTypeOK, fifo, flags, setup
<1>1. CASE Read \/ ReadEnds \/ PushFinished \/ SetEoi
  <2>1. CASE Read
    BY <2>1, FIFOSizes DEF Read
  <2>2. CASE ReadEnds
    <3>1. reader' \in [pc : {"read", "push", "blocked", "pad", "push_pad", "blocked_pad",
                             "finish", "eoi", "ended"}, sz : Nat]
      BY <2>2 DEF ReadEnds
    <3> QED
      BY <2>2, <3>1 DEF ReadEnds
  <2>3. CASE PushFinished
    <3>1. reader' \in [pc : {"read", "push", "blocked", "pad", "push_pad", "blocked_pad",
                             "finish", "eoi", "ended"}, sz : Nat]
      BY <2>3 DEF PushFinished
    <3> QED
      BY <2>3, <3>1 DEF PushFinished
  <2>4. CASE SetEoi
    <3>1. reader' \in [pc : {"read", "push", "blocked", "pad", "push_pad", "blocked_pad",
                             "finish", "eoi", "ended"}, sz : Nat]
      BY <2>4 DEF SetEoi
    <3> QED
      BY <2>4, <3>1 DEF SetEoi
  <2> QED
    BY <1>1, <2>1, <2>2, <2>3, <2>4
<1>2. CASE PushRead \/ PushPad
  BY <1>2, PushTyped DEF PushRead, PushPad
<1>3. CASE Pad
  BY <1>3, PadTyped
<1>4. CASE CheckStreaming \/ Wait \/ Wake \/ Empty
  <2>1. CASE CheckStreaming
    BY <2>1 DEF CheckStreaming
  <2>2. CASE Wait \/ Wake
    <3>1. ended_wait' \in BOOLEAN
      BY <2>2, Zenon DEF Wait, Wake, WaitReturns
    <3>2. runner' \in [pc : {"check", "wait", "waiting", "front", "send", "empty", "ended"},
                       n : -1 .. N_BLOCKS]
      BY <2>2 DEF Wait, Wake, WaitReturns
    <3>3. UNCHANGED <<fifo, flags, setup, reader, total, main, accepted, received>>
      BY <2>2, Zenon DEF Wait, Wake
    <3> QED
      BY <3>1, <3>2, <3>3
  <2>3. CASE Empty
    <3>1. done' \in BOOLEAN
      BY <2>3, Zenon DEF Empty, isStreaming
    <3> QED
      BY <2>3, <3>1 DEF Empty
  <2> QED
    BY <1>4, <2>1, <2>2, <2>3
<1>5. CASE Front
  BY <1>5, FrontTyped
<1>6. CASE Pop
  BY <1>6, PopTyped
<1>7. CASE SendThrows
  <2>1. 0 \in -1 .. N_BLOCKS
    BY FIFOSizes
  <2> QED
    BY <1>7, <2>1 DEF SendThrows
<1>8. CASE StopEngine \/ DeviceStop \/ Join
  <2>1. /\ UNCHANGED <<fifo, eoi, done, setup, reader, total, runner, accepted, received, ended_wait>>
        /\ streaming' \in BOOLEAN
        /\ main' \in {"run", "stop", "halt", "join_reader", "join_runner", "stopped"}
    BY <1>8 DEF StopEngine, DeviceStop, Join
  <2>2. /\ UNCHANGED <<head, tail, blocks_filled, last_input, data, eoi, done, lossless, is_text>>
        /\ UNCHANGED <<reader, total, runner, accepted, received, ended_wait>>
    BY <2>1
  <2> QED
    BY <2>1, <2>2
<1>9. CASE Halt
  <2>1. -1 \in -1 .. N_BLOCKS
    BY FIFOSizes
  <2> QED
    BY <1>9, <2>1, NotifiedTyped DEF Halt
<1>10. CASE UNCHANGED fifo_vars
  BY <1>10 DEF fifo_vars
<1> QED
  BY <1>1, <1>2, <1>3, <1>4, <1>5, <1>6, <1>7, <1>8, <1>9, <1>10
     DEF FifoNext, ReaderStep, RunnerStep, MainStep

(* The FIFO's count of filled blocks stays between -1, halted, and         *)
(* N_BLOCKS, its head and tail within the ring, and a share of blocks the  *)
(* decoder takes is never more than the ring has: for any sizes with which *)
(* a push fits into an empty FIFO.                                         *)
THEOREM FifoTypeCorrect == FifoSpec => []FifoTypeOK
<1>1. FifoInit => FifoTypeOK
  <2> SUFFICES ASSUME FifoInit
               PROVE  FifoTypeOK
    OBVIOUS
  <2>1. 0 \in Index
    BY CapacityPositive DEF Index
  <2>2. 0 \in -1 .. N_BLOCKS
    BY FIFOSizes
  <2> QED
    BY <2>1, <2>2 DEF FifoInit, FifoTypeOK
<1> QED
  BY <1>1, FifoTypeStep, PTL DEF FifoSpec

LEMMA HaltedStays == FifoTypeOK /\ [FifoNext]_fifo_vars /\ blocks_filled = -1 => blocks_filled' = -1
<1> SUFFICES ASSUME FifoTypeOK, [FifoNext]_fifo_vars, blocks_filled = -1
             PROVE  blocks_filled' = -1
  OBVIOUS
<1> USE DEF fifo, flags, setup
<1>1. CASE Read \/ ReadEnds \/ Pad \/ PushFinished \/ SetEoi
  BY <1>1 DEF Read, ReadEnds, Pad, PushFinished, SetEoi
<1>2. CASE PushRead \/ PushPad
  BY <1>2 DEF PushRead, PushPad, Push
<1>3. CASE CheckStreaming \/ Wait \/ Wake \/ Front \/ Empty \/ SendThrows
  BY <1>3 DEF CheckStreaming, Wait, Wake, WaitReturns, Front, Empty, SendThrows
<1>4. CASE Pop
  <2>1. runner.n \in Int
    BY FIFOSizes DEF FifoTypeOK
  <2>2. ~(Popped > 0)
    BY <2>1 DEF Popped
  <2> QED
    BY <1>4, <2>2 DEF Pop
<1>5. CASE StopEngine \/ DeviceStop \/ Halt \/ Join
  BY <1>5 DEF StopEngine, DeviceStop, Halt, Join
<1>6. CASE UNCHANGED fifo_vars
  BY <1>6 DEF fifo_vars
<1> QED
  BY <1>1, <1>2, <1>3, <1>4, <1>5, <1>6 DEF FifoNext, ReaderStep, RunnerStep, MainStep

(* A halted FIFO stays halted: no push that was waiting and no pop of      *)
(* blocks that were sent revives it (FIFO.h:115-118, 170-171).             *)
THEOREM HaltStaysFinal == FifoSpec => HaltIsFinal
<1>1. FifoTypeOK /\ [FifoNext]_fifo_vars => [blocks_filled = -1 => blocks_filled' = -1]_fifo_vars
  BY HaltedStays
<1> QED
  BY <1>1, FifoTypeCorrect, PTL DEF FifoSpec, HaltIsFinal

-----------------------------------------------------------------------------
(* What the consumer holds.                                                *)

LEMMA TimesMonotonic ==
  ASSUME NEW b \in Nat \ {0}, NEW x \in Int, NEW y \in Int, x =< y
  PROVE  x * b =< y * b
<1>1. y * b - x * b = (y - x) * b /\ (y - x) * b >= 0
  OBVIOUS
<1> QED
  BY <1>1

(* Where Store() writes, counted from the head: behind what is there.      *)
LEMMA SlotOfByte ==
  ASSUME NEW C \in Nat \ {0}, NEW h \in Int, NEW len \in Nat, NEW sz \in Nat, len + sz =< C,
         NEW i \in 0 .. (len + sz - 1)
  PROVE  LET k == (((h + i) % C) - ((h + len) % C) + C) % C
         IN  /\ i < len => ~(k < sz)
             /\ ~(i < len) => k < sz /\ k = i - len
<1> DEFINE k == (((h + i) % C) - ((h + len) % C) + C) % C
<1>1. k = (i - len) % C
  <2>1. h + i \in Int /\ h + len \in Int /\ (h + i) - (h + len) = i - len
    OBVIOUS
  <2>2. k = ((h + i) - (h + len)) % C
    BY <2>1, RemainderDifference, Zenon
  <2> QED
    BY <2>1, <2>2, Zenon
<1> HIDE DEF k
<1>2. ASSUME i < len
      PROVE  ~(k < sz)
  <2>1. (i - len) + C * 1 \in 0 .. (C - 1) /\ (i - len) + C * 1 >= sz
    BY <1>2
  <2>2. ((i - len) + C * 1) % C = (i - len) % C
    <3>1. i - len \in Int /\ 1 \in Int
      OBVIOUS
    <3> QED
      BY <3>1, RemainderShift, Zenon
  <2>3. k = (i - len) + C * 1
    BY <1>1, <2>1, <2>2, RemainderSmall
  <2> QED
    BY <1>2, <2>1, <2>3
<1>3. ASSUME ~(i < len)
      PROVE  k < sz /\ k = i - len
  <2>1. i - len \in 0 .. (C - 1) /\ i - len < sz
    BY <1>3
  <2> QED
    BY <1>1, <1>3, <2>1, RemainderSmall
<1> QED
  BY <1>2, <1>3 DEF k

LEMMA Typed ==
  ASSUME FifoTypeOK
  PROVE  /\ BLOCK_SIZE \in Nat \ {0} /\ N_BLOCKS \in Nat \ {0} /\ Capacity \in Nat \ {0}
         /\ head \in 0 .. (Capacity - 1) /\ tail \in 0 .. (Capacity - 1)
         /\ blocks_filled \in -1 .. N_BLOCKS /\ data \in [0 .. (Capacity - 1) -> Nat]
         /\ accepted \in Nat /\ received \in Nat
         /\ runner.n \in -1 .. N_BLOCKS /\ reader.sz \in Nat
         /\ tail % BLOCK_SIZE \in 0 .. (BLOCK_SIZE - 1)
<1>1. BLOCK_SIZE \in Nat \ {0} /\ N_BLOCKS \in Nat \ {0}
  BY FIFOSizes
<1>2. tail \in Int
  BY CapacityPositive DEF FifoTypeOK, Index
<1> QED
  BY <1>1, <1>2, CapacityPositive, DivisionIsInteger DEF FifoTypeOK, Index

(* A push that has space fits behind the bytes that are there.             *)
LEMMA PushFits ==
  ASSUME FifoTypeOK, Linked, NEW sz \in Nat, HasSpace(sz), blocks_filled # -1
  PROVE  /\ accepted - received \in Nat
         /\ accepted - received + sz =< Capacity
<1> DEFINE b == BLOCK_SIZE
           t == tail % BLOCK_SIZE
           d == (t + sz - 1) \div b
           r == (t + sz - 1) % b
<1>1. /\ b \in Nat \ {0} /\ t \in 0 .. (b - 1) /\ N_BLOCKS \in Nat
      /\ blocks_filled \in Nat /\ accepted \in Nat /\ received \in Nat
  <2> HIDE DEF b, t
  <2>1. /\ b \in Nat \ {0} /\ t \in 0 .. (b - 1) /\ N_BLOCKS \in Nat \ {0}
        /\ blocks_filled \in -1 .. N_BLOCKS /\ accepted \in Nat /\ received \in Nat
    BY Typed, Zenon DEF b, t
  <2> QED
    BY <2>1
<1>2. accepted - received = blocks_filled * b + t
  BY DEF Linked
<1>3. blocks_filled + (d + 1) =< N_BLOCKS
  BY DEF HasSpace, BlocksNeeded
<1> HIDE DEF b, t
<1>4. d \in Int /\ r \in 0 .. (b - 1) /\ t + sz - 1 = b * d + r
  <2>1. t + sz - 1 \in Int
    BY <1>1
  <2> QED
    BY <1>1, <2>1, DivisionIsInteger
<1> HIDE DEF d, r
<1>5. (blocks_filled + (d + 1)) * b =< N_BLOCKS * b
  BY <1>1, <1>3, <1>4, TimesMonotonic
<1>6. (blocks_filled + (d + 1)) * b = blocks_filled * b + (b * d + b)
  BY <1>1, <1>4
<1>7. blocks_filled * b \in Nat /\ b * d \in Int /\ N_BLOCKS * b \in Nat
  BY <1>1, <1>4
<1>8. Capacity = N_BLOCKS * b
  BY DEF Capacity, b
<1> QED
  BY <1>1, <1>2, <1>4, <1>5, <1>6, <1>7, <1>8

LEMMA StoreKeepsLink ==
  ASSUME FifoTypeOK, Linked, NEW sz \in Nat, HasSpace(sz), blocks_filled # -1, Store(sz),
         UNCHANGED <<head, received, runner>>
  PROVE  /\ Linked'
         /\ \A i \in 0 .. (accepted - received - 1) :
              data'[(head + i) % Capacity] = data[(head + i) % Capacity]
<1> DEFINE b == BLOCK_SIZE
           C == Capacity
           t == tail % BLOCK_SIZE
           len == accepted - received
<1>1. /\ b \in Nat \ {0} /\ C \in Nat \ {0} /\ t \in 0 .. (b - 1) /\ N_BLOCKS \in Nat \ {0}
      /\ head \in 0 .. (C - 1) /\ tail \in 0 .. (C - 1)
      /\ blocks_filled \in Nat /\ accepted \in Nat /\ received \in Nat
  BY Typed
<1>2. /\ tail = (head + len) % C /\ len = blocks_filled * b + t
      /\ t = accepted % b
      /\ \A i \in 0 .. (len - 1) : data[(head + i) % C] = received + i + 1
      /\ runner.pc = "send" => runner.n \in 0 .. blocks_filled
  BY DEF Linked
<1>3. len \in Nat /\ len + sz =< C
  BY PushFits
<1>4. /\ data' = [i \in Index |-> IF (i - tail + C) % C < sz
                                   THEN accepted + ((i - tail + C) % C) + 1 ELSE data[i]]
      /\ tail' = (tail + sz) % C /\ accepted' = accepted + sz
      /\ blocks_filled' = blocks_filled + ((t + sz) \div b)
      /\ UNCHANGED <<head, received, runner>>
  BY DEF Store, BlocksReady
<1>5. C = N_BLOCKS * b
  BY DEF Capacity
<1> HIDE DEF b, C, t, len
<1>6. ASSUME NEW i \in 0 .. (len + sz - 1)
      PROVE  /\ (head + i) % C \in Index
             /\ i < len => data'[(head + i) % C] = data[(head + i) % C]
             /\ ~(i < len) => data'[(head + i) % C] = received + i + 1
  <2> DEFINE j == (head + i) % C
             k == (j - tail + C) % C
  <2>1. j \in Index
    <3>1. head + i \in Int
      BY <1>1, <1>3
    <3> QED
      BY <1>1, <3>1, DivisionIsInteger DEF Index, C
  <2>2. /\ i < len => ~(k < sz)
        /\ ~(i < len) => k < sz /\ k = i - len
    <3>1. LET x == (((head + i) % C) - ((head + len) % C) + C) % C
          IN  /\ i < len => ~(x < sz)
              /\ ~(i < len) => x < sz /\ x = i - len
      <4>1. head \in Int
        BY <1>1
      <4> QED
        BY <1>1, <1>3, <4>1, SlotOfByte, Zenon
    <3> QED
      BY <1>2, <3>1, Zenon
  <2>3. data'[j] = IF k < sz THEN accepted + k + 1 ELSE data[j]
    BY <1>4, <2>1
  <2>4. accepted + (i - len) + 1 = received + i + 1
    BY <1>1, <1>3 DEF len
  <2> QED
    BY <2>1, <2>2, <2>3, <2>4
<1>7. accepted' - received' = len + sz
  BY <1>1, <1>3, <1>4 DEF len
<1>8. tail' = (head + (len + sz)) % C
  <2>1. head + len \in Int /\ (head + len) + sz = head + (len + sz)
    BY <1>1, <1>3
  <2> QED
    <3>1. sz \in Int
      OBVIOUS
    <3>2. (((head + len) % C) + sz) % C = ((head + len) + sz) % C
      BY <1>1, <2>1, <3>1, RemainderSum, Zenon
    <3> QED
      BY <1>2, <1>4, <2>1, <3>2, Zenon
<1>9. tail' % b = (t + sz) % b
  <2>1. tail + sz \in Int
    BY <1>1
  <2>2. tail' % b = (tail + sz) % b
    <3>1. ((tail + sz) % (N_BLOCKS * b)) % b = (tail + sz) % b
      BY <1>1, <2>1, RemainderOfMultiple, Zenon
    <3>2. tail' = (tail + sz) % (N_BLOCKS * b)
      BY <1>4, <1>5, Zenon
    <3> QED
      BY <3>1, <3>2, Zenon
  <2>3. (t + sz) % b = (tail + sz) % b
    <3>1. tail \in Int /\ sz \in Int /\ t = tail % b
      BY <1>1 DEF t, b
    <3> QED
      BY <1>1, <3>1, RemainderSum, Zenon
  <2> QED
    BY <2>2, <2>3
<1>10. len + sz = blocks_filled' * b + (tail' % b) /\ blocks_filled' \in Int
  <2> DEFINE d == (t + sz) \div b
             r == (t + sz) % b
  <2>1. d \in Int /\ r \in Int /\ t + sz = b * d + r
    <3>1. t + sz \in Int
      BY <1>1
    <3> QED
      BY <1>1, <3>1, DivisionIsInteger
  <2>2. blocks_filled' = blocks_filled + d /\ tail' % b = r
    BY <1>4, <1>9
  <2> HIDE DEF d, r
  <2>3. (blocks_filled + d) * b = blocks_filled * b + b * d
    BY <1>1, <2>1
  <2>4. blocks_filled * b \in Int /\ b * d \in Int
    BY <1>1, <2>1
  <2> QED
    BY <1>1, <1>2, <2>1, <2>2, <2>3, <2>4
<1>11. tail' % b = accepted' % b
  <2>1. (t + sz) % b = (accepted + sz) % b
    <3>1. accepted \in Int /\ sz \in Int
      BY <1>1
    <3> QED
      BY <1>1, <1>2, <3>1, RemainderSum, Zenon
  <2> QED
    BY <1>4, <1>9, <2>1
<1>12. \A i \in 0 .. (len + sz - 1) : data'[(head + i) % C] = received + i + 1
  <2>1. ASSUME NEW i \in 0 .. (len + sz - 1)
        PROVE  data'[(head + i) % C] = received + i + 1
    <3>1. CASE i < len
      <4>1. i \in 0 .. (len - 1)
        BY <1>3, <3>1
      <4> QED
        BY <1>2, <1>6, <3>1, <4>1
    <3> QED
      BY <1>6, <3>1
  <2> QED
    BY <2>1
<1>13. runner.pc = "send" => runner.n \in 0 .. blocks_filled'
  <2>1. t + sz \in Nat
    BY <1>1
  <2>2. (t + sz) \div b \in Nat
    BY <1>1, <2>1, DivisionOfNext
  <2> QED
    BY <1>1, <1>2, <1>4, <2>2
<1>14. \A i \in 0 .. (len - 1) : data'[(head + i) % C] = data[(head + i) % C]
  <2>1. \A i \in 0 .. (len - 1) : i \in 0 .. (len + sz - 1) /\ i < len
    BY <1>3
  <2> QED
    BY <1>6, <2>1
<1>15. Linked'
  <2>1. /\ tail' = (head' + (accepted' - received')) % C
        /\ accepted' - received' = blocks_filled' * b + (tail' % b)
        /\ \A i \in 0 .. (accepted' - received' - 1) :
             data'[(head' + i) % C] = received' + i + 1
        /\ runner'.pc = "send" => runner'.n \in 0 .. blocks_filled'
    <3>1. head' = head /\ received' = received /\ runner' = runner
      BY <1>4
    <3> QED
      <4>1. tail' = (head' + (accepted' - received')) % C
        BY <3>1, <1>7, <1>8, Zenon
      <4>2. accepted' - received' = blocks_filled' * b + (tail' % b)
        BY <1>7, <1>10, Zenon
      <4>3. \A i \in 0 .. (accepted' - received' - 1) :
              data'[(head' + i) % C] = received' + i + 1
        <5>1. ASSUME NEW i \in 0 .. (accepted' - received' - 1)
              PROVE  i \in 0 .. (len + sz - 1)
          <6>1. (len + sz) - 1 = len + sz - 1
            BY <1>3
          <6>2. accepted' - received' - 1 = (len + sz) - 1
            BY <1>7, Zenon
          <6> QED
            BY <6>1, <6>2, Zenon
        <5>2. \A i \in 0 .. (len + sz - 1) : data'[(head' + i) % C] = received' + i + 1
          BY <3>1, <1>12, Zenon
        <5> QED
          BY <5>1, <5>2, Zenon
      <4>4. runner'.pc = "send" => runner'.n \in 0 .. blocks_filled'
        BY <3>1, <1>13, Zenon
      <4> QED
        BY <4>1, <4>2, <4>3, <4>4
  <2> QED
    BY <1>11, <2>1, Zenon DEF Linked, C, b, Capacity
<1> QED
  BY <1>14, <1>15 DEF len, C

LEMMA LinkedSame ==
  ASSUME Linked,
         UNCHANGED <<head, tail, blocks_filled, data, accepted, received>>,
         blocks_filled # -1 /\ runner'.pc = "send" => runner'.n \in 0 .. blocks_filled
  PROVE  Linked'
<1>1. /\ head' = head /\ tail' = tail /\ blocks_filled' = blocks_filled
      /\ data' = data /\ accepted' = accepted /\ received' = received
  OBVIOUS
<1> QED
  BY <1>1, Zenon DEF Linked

(* What is given back to the reader is what comes first.                   *)
LEMMA PopKeepsLink == FifoTypeOK /\ Linked /\ Pop => Linked'
<1> SUFFICES ASSUME FifoTypeOK, Linked, Pop, blocks_filled' # -1
             PROVE  Linked'
  BY DEF Linked
<1> DEFINE b == BLOCK_SIZE
           C == Capacity
           t == tail % BLOCK_SIZE
           len == accepted - received
           n == runner.n
<1>1. /\ b \in Nat \ {0} /\ C \in Nat \ {0} /\ t \in 0 .. (b - 1) /\ N_BLOCKS \in Nat \ {0}
      /\ head \in 0 .. (C - 1) /\ tail \in 0 .. (C - 1)
      /\ blocks_filled \in -1 .. N_BLOCKS /\ accepted \in Nat /\ received \in Nat
      /\ n \in -1 .. N_BLOCKS
  BY Typed
<1>2. blocks_filled # -1
  <2>1. blocks_filled = -1 => ~(Popped > 0)
    BY <1>1 DEF Popped
  <2> QED
    BY <2>1 DEF Pop
<1>3. /\ tail = (head + len) % C /\ len = blocks_filled * b + t
      /\ t = accepted % b
      /\ \A i \in 0 .. (len - 1) : data[(head + i) % C] = received + i + 1
      /\ n \in 0 .. blocks_filled
  BY <1>2 DEF Linked, Pop
<1>4. Popped = n /\ blocks_filled \in Nat
  BY <1>1, <1>2, <1>3 DEF Popped
<1>5. /\ received' = received + n * b
      /\ head' = (head + n * b) % C
      /\ blocks_filled' = blocks_filled - n
      /\ UNCHANGED <<tail, data, accepted>>
  <2>1. CASE n > 0
    <3>1. Popped > 0
      BY <1>4, <2>1
    <3>2. /\ head' = (head + Popped * b) % C /\ blocks_filled' = blocks_filled - Popped
          /\ received' = received + n * b
      BY <2>1, <3>1, Zenon DEF Pop
    <3>3. UNCHANGED <<tail, data, accepted>>
      BY DEF Pop
    <3> QED
      BY <1>4, <3>2, <3>3, Zenon
  <2>2. CASE ~(n > 0)
    <3>1. n = 0 /\ ~(Popped > 0)
      BY <1>1, <1>3, <1>4, <2>2
    <3>2. n * b = 0
      BY <1>1, <3>1
    <3>3. /\ head' = head /\ blocks_filled' = blocks_filled /\ received' = received + 0
          /\ UNCHANGED <<tail, data, accepted>>
      BY <2>2, <3>1 DEF Pop
    <3>4. head = (head + 0) % C
      BY <1>1, RemainderSmall
    <3>5. blocks_filled = blocks_filled - n
      BY <1>1, <3>1
    <3> QED
      BY <3>2, <3>3, <3>4, <3>5, Zenon
  <2> QED
    BY <2>1, <2>2
<1>6. runner'.pc # "send"
  BY DEF Pop
<1> HIDE DEF b, C, t, n
<1>7. /\ n * b \in Nat /\ (blocks_filled - n) * b = blocks_filled * b - n * b
      /\ blocks_filled * b \in Nat /\ n * b =< blocks_filled * b
  <2>1. n \in Nat /\ n =< blocks_filled
    BY <1>3, <1>4
  <2> QED
    BY <1>1, <1>4, <2>1, TimesMonotonic
<1>8. accepted' - received' = len - n * b /\ len \in Nat
  <2>1. len \in Nat
    BY <1>1, <1>3, <1>7
  <2> QED
    BY <1>1, <1>5, <1>7, <2>1 DEF len
<1> HIDE DEF len
<1>9. accepted' - received' = blocks_filled' * b + t
  <2>1. (blocks_filled - n) * b + t = len - n * b
    BY <1>1, <1>3, <1>7
  <2> QED
    BY <1>5, <1>8, <2>1, Zenon
<1>10. ASSUME NEW i \in Int
       PROVE  (head' + i) % C = (head + (n * b + i)) % C
  <2>1. head + n * b \in Int /\ (head + n * b) + i = head + (n * b + i)
    BY <1>1, <1>7
  <2>2. (((head + n * b) % C) + i) % C = ((head + n * b) + i) % C
    BY <1>1, <2>1, RemainderSum, Zenon
  <2> QED
    BY <1>5, <2>1, <2>2, Zenon
<1>11. tail' = (head' + (accepted' - received')) % C
  <2>1. len - n * b \in Int /\ n * b + (len - n * b) = len
    BY <1>7, <1>8
  <2>2. (head' + (len - n * b)) % C = (head + len) % C
    BY <1>10, <2>1, Zenon
  <2>3. tail' = tail
    BY <1>5
  <2> QED
    BY <1>3, <1>8, <2>2, <2>3, Zenon
<1>12. ASSUME NEW i \in 0 .. (accepted' - received' - 1)
       PROVE  data'[(head' + i) % C] = received' + i + 1
  <2>1. i \in 0 .. (len - n * b - 1)
    <3>1. accepted' - received' - 1 = len - n * b - 1
      BY <1>7, <1>8
    <3> QED
      BY <3>1, Zenon
  <2>2. i \in Int /\ n * b + i \in 0 .. (len - 1) /\ received + (n * b + i) + 1 = received + n * b + i + 1
    BY <1>1, <1>7, <1>8, <2>1
  <2>3. (head' + i) % C = (head + (n * b + i)) % C
    BY <1>10, <2>2, Zenon
  <2>4. data[(head + (n * b + i)) % C] = received + (n * b + i) + 1
    BY <1>3, <2>2, Zenon
  <2>5. data' = data
    BY <1>5
  <2> QED
    BY <1>5, <2>2, <2>3, <2>4, <2>5, Zenon
<1>13. tail' % b = t /\ t = accepted' % b
  BY <1>3, <1>5 DEF t, b
<1> QED
  BY <1>6, <1>9, <1>11, <1>12, <1>13, Zenon DEF Linked, C, b, Capacity

LEMMA LinkedStep == FifoTypeOK /\ Linked /\ [FifoNext]_fifo_vars => Linked'
<1> SUFFICES ASSUME FifoTypeOK, Linked, [FifoNext]_fifo_vars
             PROVE  Linked'
  OBVIOUS
<1>0. blocks_filled # -1 /\ runner.pc = "send" => runner.n \in 0 .. blocks_filled
  BY DEF Linked
<1>1. CASE Read \/ ReadEnds \/ Pad \/ PushFinished \/ SetEoi
  <2>1. UNCHANGED <<head, tail, blocks_filled, data, accepted, received, runner>>
    BY <1>1 DEF Read, ReadEnds, Pad, PushFinished, SetEoi, fifo
  <2> QED
    BY <1>0, <2>1, LinkedSame
<1>2. CASE PushRead \/ PushPad
  <2>1. UNCHANGED <<head, received, runner>>
    BY <1>2 DEF PushRead, PushPad, Push
  <2>2. CASE HasSpace(reader.sz) /\ blocks_filled # -1 /\ Store(reader.sz)
    <3>1. reader.sz \in Nat
      BY Typed
    <3> QED
      BY <2>1, <2>2, <3>1, StoreKeepsLink
  <2>3. CASE UNCHANGED <<data, tail, blocks_filled, accepted>>
    <3>1. UNCHANGED <<head, tail, blocks_filled, data, accepted, received, runner>>
      BY <2>1, <2>3
    <3> QED
      BY <1>0, <3>1, LinkedSame
  <2> QED
    BY <1>2, <2>2, <2>3 DEF PushRead, PushPad, Push
<1>3. CASE CheckStreaming \/ Wait \/ Wake \/ Empty \/ SendThrows
  <2>1. UNCHANGED <<head, tail, blocks_filled, data, accepted, received>>
    BY <1>3 DEF CheckStreaming, Wait, Wake, WaitReturns, Empty, SendThrows, fifo
  <2>2. runner'.pc # "send"
    BY <1>3 DEF CheckStreaming, Wait, Wake, WaitReturns, Empty, SendThrows, FifoTypeOK
  <2> QED
    BY <2>1, <2>2, LinkedSame
<1>4. CASE Front
  <2>1. UNCHANGED <<head, tail, blocks_filled, data, accepted, received>>
    BY <1>4 DEF Front, fifo
  <2>2. blocks_filled # -1 => runner'.n \in 0 .. blocks_filled
    <3>1. runner'.n = IF blocks_filled < ToWrap THEN blocks_filled ELSE ToWrap
      BY <1>4 DEF Front
    <3>2. ToWrap \in Nat /\ blocks_filled \in -1 .. N_BLOCKS /\ N_BLOCKS \in Nat
      BY ToWrapTyped, Typed
    <3> QED
      BY <3>1, <3>2
  <2> QED
    BY <2>1, <2>2, LinkedSame
<1>5. CASE Pop
  BY <1>5, PopKeepsLink
<1>6. CASE StopEngine \/ DeviceStop \/ Join \/ UNCHANGED fifo_vars
  <2>1. UNCHANGED <<head, tail, blocks_filled, data, accepted, received, runner>>
    BY <1>6 DEF StopEngine, DeviceStop, Join, fifo, fifo_vars
  <2> QED
    BY <1>0, <2>1, LinkedSame
<1>7. CASE Halt
  BY <1>7 DEF Halt, Linked
<1> QED
  BY <1>1, <1>2, <1>3, <1>4, <1>5, <1>6, <1>7 DEF FifoNext, ReaderStep, RunnerStep, MainStep

(* The blocks a FIFO has hold bytes it has not given back.                 *)
LEMMA BlocksLinked ==
  ASSUME FifoTypeOK, Linked, blocks_filled # -1, NEW n \in 0 .. blocks_filled
  PROVE  /\ n * BLOCK_SIZE \in Nat /\ accepted - received \in Nat
         /\ n * BLOCK_SIZE =< accepted - received
<1> DEFINE b == BLOCK_SIZE
           t == tail % BLOCK_SIZE
<1>1. /\ b \in Nat \ {0} /\ t \in 0 .. (b - 1) /\ blocks_filled \in Nat /\ n \in Nat /\ n =< blocks_filled
      /\ accepted \in Nat /\ received \in Nat
  BY Typed
<1>2. accepted - received = blocks_filled * b + t
  BY DEF Linked
<1> HIDE DEF b, t
<1>3. n * b \in Nat /\ blocks_filled * b \in Nat /\ n * b =< blocks_filled * b
  BY <1>1, TimesMonotonic
<1>4. accepted - received \in Nat /\ n * b =< accepted - received
  BY <1>1, <1>2, <1>3
<1> QED
  BY <1>3, <1>4 DEF b

LEMMA HeldSame ==
  ASSUME HeldIntact, UNCHANGED <<head, received, runner>>,
         runner.pc = "send" =>
           \A i \in 0 .. (runner.n * BLOCK_SIZE - 1) :
             data'[(head + i) % Capacity] = data[(head + i) % Capacity]
  PROVE  HeldIntact'
<1>1. head' = head /\ received' = received /\ runner' = runner
  OBVIOUS
<1> QED
  BY <1>1, Zenon DEF HeldIntact, Capacity

LEMMA HeldStep == FifoTypeOK /\ Linked /\ HeldIntact /\ [FifoNext]_fifo_vars => HeldIntact'
<1> SUFFICES ASSUME FifoTypeOK, Linked, HeldIntact, [FifoNext]_fifo_vars
             PROVE  HeldIntact'
  OBVIOUS
<1>1. CASE Read \/ ReadEnds \/ Pad \/ PushFinished \/ SetEoi \/ StopEngine \/ DeviceStop
           \/ Join \/ Halt \/ UNCHANGED fifo_vars
  <2>1. UNCHANGED <<head, data, received, runner>>
    BY <1>1 DEF Read, ReadEnds, Pad, PushFinished, SetEoi, StopEngine, DeviceStop, Join, Halt,
                fifo, fifo_vars
  <2> QED
    BY <2>1, HeldSame
<1>2. CASE PushRead \/ PushPad
  <2>1. UNCHANGED <<head, received, runner>>
    BY <1>2 DEF PushRead, PushPad, Push
  <2>2. CASE HasSpace(reader.sz) /\ blocks_filled # -1 /\ Store(reader.sz)
    <3>1. reader.sz \in Nat
      BY Typed
    <3>2. \A i \in 0 .. (accepted - received - 1) :
            data'[(head + i) % Capacity] = data[(head + i) % Capacity]
      BY <2>1, <2>2, <3>1, StoreKeepsLink
    <3>3. ASSUME runner.pc = "send", NEW i \in 0 .. (runner.n * BLOCK_SIZE - 1)
          PROVE  i \in 0 .. (accepted - received - 1)
      <4>1. runner.n \in 0 .. blocks_filled
        BY <2>2, <3>3 DEF Linked
      <4>2. /\ runner.n * BLOCK_SIZE \in Nat /\ accepted - received \in Nat
            /\ runner.n * BLOCK_SIZE =< accepted - received
        BY <2>2, <4>1, BlocksLinked
      <4> QED
        BY <4>2
    <3>4. runner.pc = "send" =>
            \A i \in 0 .. (runner.n * BLOCK_SIZE - 1) :
              data'[(head + i) % Capacity] = data[(head + i) % Capacity]
      BY <3>2, <3>3, Zenon
    <3> QED
      BY <2>1, <3>4, HeldSame
  <2>3. CASE UNCHANGED <<data, tail, blocks_filled, accepted>>
    <3>1. data' = data
      BY <2>3
    <3> QED
      BY <2>1, <3>1, HeldSame
  <2> QED
    BY <1>2, <2>2, <2>3 DEF PushRead, PushPad, Push
<1>3. CASE CheckStreaming \/ Wait \/ Wake \/ Empty \/ SendThrows \/ Pop
  <2>1. runner'.pc # "send"
    BY <1>3 DEF CheckStreaming, Wait, Wake, WaitReturns, Empty, SendThrows, Pop, FifoTypeOK
  <2> QED
    BY <2>1 DEF HeldIntact
<1>4. CASE Front
  <2> DEFINE n == IF blocks_filled < ToWrap THEN blocks_filled ELSE ToWrap
  <2>1. runner' = [pc |-> "send", n |-> n] /\ head' = head /\ data' = data /\ received' = received
    BY <1>4 DEF Front, fifo
  <2>2. ASSUME NEW i \in 0 .. (n * BLOCK_SIZE - 1)
        PROVE  data[(head + i) % Capacity] = received + i + 1
    <3>1. /\ ToWrap \in Nat /\ blocks_filled \in -1 .. N_BLOCKS
          /\ BLOCK_SIZE \in Nat \ {0} /\ N_BLOCKS \in Nat
      BY ToWrapTyped, Typed
    <3>2. blocks_filled # -1
      <4>1. blocks_filled = -1 => n = -1
        BY <3>1
      <4>2. n = -1 => 0 .. (n * BLOCK_SIZE - 1) = {}
        BY <3>1
      <4> QED
        BY <4>1, <4>2
    <3>3. n \in 0 .. blocks_filled
      BY <3>1, <3>2
    <3> HIDE DEF n
    <3>4. n * BLOCK_SIZE \in Nat /\ accepted - received \in Nat /\ n * BLOCK_SIZE =< accepted - received
      BY <3>2, <3>3, BlocksLinked
    <3>5. i \in 0 .. (accepted - received - 1)
      BY <3>4
    <3> QED
      BY <3>2, <3>5 DEF Linked
  <2> HIDE DEF n
  <2>3. runner'.n = n
    BY <2>1
  <2> QED
    BY <2>1, <2>2, <2>3, Zenon DEF HeldIntact, Capacity
<1> QED
  BY <1>1, <1>2, <1>3, <1>4 DEF FifoNext, ReaderStep, RunnerStep, MainStep

-----------------------------------------------------------------------------
(* The end of the input.                                                   *)

(* A whole number of blocks has gone in once the reader is past its pad.   *)
LEMMA PaddedWhole ==
  ASSUME NEW b \in Nat \ {0}, NEW x \in Nat
  PROVE  (x + (b - (x % b))) % b = 0
<1> DEFINE d == x \div b
           r == x % b
<1>1. d \in Int /\ r \in 0 .. (b - 1) /\ x = b * d + r
  BY DivisionIsInteger
<1> HIDE DEF d, r
<1>2. x + (b - r) = b * (d + 1) + 0 /\ d + 1 \in Int /\ 0 \in 0 .. (b - 1)
  BY <1>1
<1>3. (b * (d + 1) + 0) % b = 0
  BY <1>2, RemainderUnique
<1> QED
  BY <1>2, <1>3 DEF r

LEMMA PaddedSame ==
  ASSUME Padded, UNCHANGED <<lossless, is_text, reader, total, accepted>>,
         blocks_filled = -1 => blocks_filled' = -1
  PROVE  Padded'
<1>1. /\ lossless' = lossless /\ is_text' = is_text /\ reader' = reader
      /\ total' = total /\ accepted' = accepted
  OBVIOUS
<1>2. ASSUME blocks_filled' # -1, lossless', ~is_text'
      PROVE  blocks_filled # -1 /\ lossless /\ ~is_text
  BY <1>1, <1>2
<1> QED
  BY <1>1, <1>2, Zenon DEF Padded

LEMMA PaddedStep == FifoTypeOK /\ Padded /\ [FifoNext]_fifo_vars => Padded'
<1> SUFFICES ASSUME FifoTypeOK, Padded, [FifoNext]_fifo_vars, blocks_filled' # -1, lossless', ~is_text'
             PROVE  Padded'
  BY Zenon DEF Padded
<1>0. blocks_filled # -1
  BY HaltedStays
<1>t. /\ BLOCK_SIZE \in Nat \ {0} /\ accepted \in Nat /\ total \in Nat
      /\ reader \in [pc : {"read", "push", "blocked", "pad", "push_pad", "blocked_pad",
                           "finish", "eoi", "ended"}, sz : Nat]
  BY FIFOSizes DEF FifoTypeOK
<1>p. ASSUME lossless, ~is_text
      PROVE  /\ reader.pc \in {"read", "pad"} => accepted = total
             /\ reader.pc \in {"push", "blocked"} => accepted + reader.sz = total
             /\ reader.pc \in {"push_pad", "blocked_pad"} =>
                  accepted = total /\ reader.sz = BLOCK_SIZE - (total % BLOCK_SIZE)
             /\ reader.pc \in {"finish", "eoi", "ended"} => accepted % BLOCK_SIZE = 0
  BY <1>0, <1>p DEF Padded
<1>1. CASE Read
  <2>1. UNCHANGED <<lossless, is_text, accepted>> /\ reader.pc = "read"
    BY <1>1 DEF Read, setup
  <2>2. accepted = total
    BY <1>p, <2>1
  <2>3. PICK sz \in 1 .. MaxPush : reader' = [pc |-> "push", sz |-> sz] /\ total' = total + sz
    BY <1>1 DEF Read
  <2>4. accepted' + reader'.sz = total' /\ reader'.pc = "push"
    BY <2>1, <2>2, <2>3
  <2> QED
    BY <2>4 DEF Padded
<1>2. CASE ReadEnds \/ PushFinished \/ SetEoi
  <2>1. UNCHANGED <<lossless, is_text, accepted, total>>
    BY <1>2 DEF ReadEnds, PushFinished, SetEoi, setup
  <2>2. \/ reader.pc = "read" /\ reader'.pc = "pad"
        \/ reader.pc = "finish" /\ reader'.pc = "eoi"
        \/ reader.pc = "eoi" /\ reader'.pc = "ended"
    BY <1>t, <1>2 DEF ReadEnds, PushFinished, SetEoi
  <2> QED
    BY <1>p, <2>1, <2>2 DEF Padded
<1>3. CASE Pad
  <2>1. UNCHANGED <<lossless, is_text, accepted, total>> /\ reader.pc = "pad"
    BY <1>3 DEF Pad, setup
  <2>2. accepted = total
    BY <1>p, <2>1
  <2>3. total % BLOCK_SIZE \in 0 .. (BLOCK_SIZE - 1)
    BY <1>t, DivisionIsInteger
  <2>4. CASE total % BLOCK_SIZE > 0
    <3>1. reader' = [pc |-> "push_pad", sz |-> BLOCK_SIZE - (total % BLOCK_SIZE)]
      BY <1>3, <2>1, <2>4 DEF Pad
    <3>2. reader'.pc = "push_pad" /\ reader'.sz = BLOCK_SIZE - (total' % BLOCK_SIZE)
      BY <2>1, <3>1
    <3> QED
      BY <2>1, <2>2, <3>2 DEF Padded
  <2>5. CASE ~(total % BLOCK_SIZE > 0)
    <3>1. accepted' % BLOCK_SIZE = 0
      BY <2>1, <2>2, <2>3, <2>5
    <3>2. reader'.pc = "finish"
      BY <1>t, <1>3, <2>5 DEF Pad
    <3> QED
      BY <3>1, <3>2 DEF Padded
  <2> QED
    BY <2>4, <2>5
<1>4. CASE PushRead
  <2>1. UNCHANGED <<lossless, is_text, total>> /\ reader.pc = "push"
    BY <1>4 DEF PushRead, Push, setup
  <2>2. accepted + reader.sz = total
    BY <1>p, <2>1
  <2>3. CASE HasSpace(reader.sz)
    <3>1. accepted' = accepted + reader.sz /\ reader'.pc = "read"
      BY <1>0, <1>4, <2>3 DEF PushRead, Push, Store
    <3> QED
      BY <2>1, <2>2, <3>1 DEF Padded
  <2>4. CASE ~HasSpace(reader.sz)
    <3>1. accepted' = accepted /\ reader' = [reader EXCEPT !.pc = "blocked"]
      BY <1>0, <1>4, <2>1, <2>4 DEF PushRead, Push
    <3>2. reader'.pc = "blocked" /\ reader'.sz = reader.sz
      BY <1>t, <3>1
    <3> QED
      BY <2>1, <2>2, <3>1, <3>2 DEF Padded
  <2> QED
    BY <2>3, <2>4
<1>5. CASE PushPad
  <2>1. UNCHANGED <<lossless, is_text, total>> /\ reader.pc = "push_pad"
    BY <1>5 DEF PushPad, Push, setup
  <2>2. accepted = total /\ reader.sz = BLOCK_SIZE - (total % BLOCK_SIZE)
    BY <1>p, <2>1
  <2>3. CASE HasSpace(reader.sz)
    <3>1. accepted' = accepted + reader.sz /\ reader'.pc = "finish"
      BY <1>0, <1>5, <2>3 DEF PushPad, Push, Store
    <3>2. (total + (BLOCK_SIZE - (total % BLOCK_SIZE))) % BLOCK_SIZE = 0
      BY <1>t, PaddedWhole
    <3>3. accepted' % BLOCK_SIZE = 0
      BY <2>2, <3>1, <3>2
    <3> QED
      BY <3>1, <3>3 DEF Padded
  <2>4. CASE ~HasSpace(reader.sz)
    <3>1. accepted' = accepted /\ reader' = [reader EXCEPT !.pc = "blocked_pad"]
      BY <1>0, <1>5, <2>1, <2>4 DEF PushPad, Push
    <3>2. reader'.pc = "blocked_pad" /\ reader'.sz = reader.sz
      BY <1>t, <3>1
    <3> QED
      BY <2>1, <2>2, <3>1, <3>2 DEF Padded
  <2> QED
    BY <2>3, <2>4
<1>6. CASE CheckStreaming \/ Wait \/ Wake \/ Front \/ Empty \/ SendThrows \/ StopEngine
           \/ DeviceStop \/ Join \/ UNCHANGED fifo_vars
  <2>1. UNCHANGED <<lossless, is_text, reader, total, accepted>>
    BY <1>6 DEF CheckStreaming, Wait, Wake, WaitReturns, Front, Empty, SendThrows, StopEngine,
                DeviceStop, Join, setup, fifo_vars
  <2> QED
    BY <1>0, <2>1, PaddedSame
<1>7. CASE Pop
  <2>1. UNCHANGED <<lossless, is_text, total, accepted>>
    BY <1>7 DEF Pop, setup
  <2>2. reader' = reader \/ reader' = SpaceNotified
    BY <1>7 DEF Pop
  <2>3. /\ reader'.sz = reader.sz
        /\ \/ reader'.pc = reader.pc
           \/ reader.pc = "blocked" /\ reader'.pc = "push"
           \/ reader.pc = "blocked_pad" /\ reader'.pc = "push_pad"
    BY <1>t, <2>2 DEF SpaceNotified
  <2> QED
    BY <1>p, <2>1, <2>3 DEF Padded
<1>8. CASE Halt
  BY <1>8 DEF Halt
<1> QED
  BY <1>1, <1>2, <1>3, <1>4, <1>5, <1>6, <1>7, <1>8 DEF FifoNext, ReaderStep, RunnerStep, MainStep

LEMMA EndedStep == FifoTypeOK /\ Ended /\ [FifoNext]_fifo_vars => Ended'
<1> SUFFICES ASSUME FifoTypeOK, Ended, [FifoNext]_fifo_vars
             PROVE  Ended'
  OBVIOUS
<1>1. CASE Read \/ ReadEnds \/ Pad \/ PushFinished \/ SetEoi
  <2>1. UNCHANGED <<streaming, done, blocks_filled, runner, main, ended_wait>>
    BY <1>1 DEF Read, ReadEnds, Pad, PushFinished, SetEoi, fifo, flags
  <2>2. last_input' => reader'.pc \in {"eoi", "ended"}
    BY <1>1 DEF Read, ReadEnds, Pad, PushFinished, SetEoi, fifo, Ended, FifoTypeOK
  <2>3. last_input => last_input'
    BY <1>1 DEF Read, ReadEnds, Pad, PushFinished, SetEoi, fifo
  <2> QED
    BY <2>1, <2>2, <2>3 DEF Ended
<1>2. CASE PushRead \/ PushPad
  <2>1. /\ UNCHANGED <<streaming, done, last_input, runner, main, ended_wait>>
        /\ reader.pc \in {"push", "push_pad"}
    BY <1>2 DEF PushRead, PushPad, Push, flags
  <2>2. ~last_input /\ ~ended_wait
    BY <2>1 DEF Ended
  <2>3. blocks_filled # -1 => blocks_filled' # -1
    <3>1. CASE HasSpace(reader.sz) /\ blocks_filled # -1 /\ Store(reader.sz)
      <4>1. reader.sz \in Nat
        BY Typed
      <4>2. blocks_filled' \in 0 .. N_BLOCKS
        BY <3>1, <4>1, StoreTyped
      <4> QED
        BY <4>2
    <3> QED
      BY <1>2, <3>1 DEF PushRead, PushPad, Push
  <2> QED
    BY <2>1, <2>2, <2>3 DEF Ended
<1>3. CASE CheckStreaming \/ Front \/ SendThrows
  <2>1. UNCHANGED <<streaming, done, blocks_filled, last_input, reader, main, ended_wait>>
    BY <1>3 DEF CheckStreaming, Front, SendThrows, fifo, flags
  <2>2. ended_wait => runner'.pc \notin {"front", "send"}
    BY <1>3 DEF CheckStreaming, Front, SendThrows, Ended, FifoTypeOK
  <2>3. done => runner'.pc \in {"check", "ended"}
    BY <1>3 DEF CheckStreaming, Front, SendThrows, isStreaming, Ended, FifoTypeOK
  <2> QED
    BY <2>1, <2>2, <2>3 DEF Ended
<1>4. CASE Wait \/ Wake
  <2>1. UNCHANGED <<streaming, done, blocks_filled, last_input, reader, main>>
        /\ runner.pc \in {"wait", "waiting"}
    BY <1>4 DEF Wait, Wake, fifo, flags
  <2>2. /\ runner'.pc \in {"waiting", "front", "empty"}
        /\ ended_wait' => \/ ended_wait /\ runner'.pc = "waiting"
                          \/ last_input /\ ~(blocks_filled > 0) /\ runner'.pc = "empty"
    <3>1. \/ ended_wait' = ended_wait /\ runner' = [runner EXCEPT !.pc = "waiting"]
          \/ WaitReturns
      BY <1>4, Zenon DEF Wait, Wake
    <3>2. CASE ended_wait' = ended_wait /\ runner' = [runner EXCEPT !.pc = "waiting"]
      <4>1. runner'.pc = "waiting"
        BY <3>2 DEF FifoTypeOK
      <4>2. ended_wait' => ended_wait
        BY <3>2, Zenon
      <4> QED
        BY <4>1, <4>2
    <3>3. CASE WaitReturns
      <4>1. runner'.pc = IF blocks_filled > 0 THEN "front" ELSE "empty"
        BY <3>3 DEF WaitReturns, FifoTypeOK
      <4>2. ended_wait' => last_input /\ ~(blocks_filled > 0)
        BY <3>3, Zenon DEF WaitReturns
      <4> QED
        BY <4>1, <4>2
    <3> QED
      BY <3>1, <3>2, <3>3
  <2>3. ended_wait' => last_input /\ blocks_filled =< 0 /\ runner'.pc \notin {"front", "send"}
    <3>1. blocks_filled \in Int
      BY Typed
    <3> QED
      BY <2>2, <3>1 DEF Ended
  <2>4. ~done
    BY <2>1 DEF Ended
  <2> QED
    BY <2>1, <2>3, <2>4 DEF Ended
<1>5. CASE Pop
  <2>1. UNCHANGED <<streaming, done, last_input, main, ended_wait>> /\ runner.pc = "send"
    BY <1>5 DEF Pop, flags
  <2>2. ~ended_wait /\ ~done
    BY <2>1 DEF Ended
  <2>3. last_input => reader'.pc \in {"eoi", "ended"}
    <3>1. reader' = reader \/ reader' = SpaceNotified
      BY <1>5 DEF Pop
    <3> QED
      BY <3>1 DEF SpaceNotified, Ended
  <2>4. blocks_filled # -1 => blocks_filled' # -1
    <3>1. blocks_filled \in Int /\ runner.n \in Int
      <4>1. blocks_filled \in -1 .. N_BLOCKS /\ runner.n \in -1 .. N_BLOCKS
        BY Typed, Zenon
      <4> QED
        BY <4>1
    <3> DEFINE f == blocks_filled
               n == runner.n
    <3>2. Popped = IF f < n THEN f ELSE n
      BY DEF Popped
    <3>3. f' = f \/ (Popped > 0 /\ f' = f - Popped)
      BY <1>5 DEF Pop
    <3>4. Popped \in Int /\ Popped =< f
      <4> HIDE DEF f, n
      <4>1. f \in Int /\ n \in Int
        BY <3>1 DEF f, n
      <4> QED
        BY <3>2, <4>1
    <3> QED
      BY <3>1, <3>3, <3>4
  <2> QED
    BY <2>1, <2>2, <2>3, <2>4 DEF Ended
<1>6. CASE Empty
  <2>1. UNCHANGED <<streaming, blocks_filled, last_input, reader, main, ended_wait>>
    BY <1>6 DEF Empty, fifo
  <2>2. runner'.pc = "check"
    BY <1>6 DEF Empty, FifoTypeOK
  <2> QED
    BY <2>1, <2>2 DEF Ended
<1>7. CASE Halt
  <2>1. /\ UNCHANGED <<streaming, done, last_input, runner, ended_wait>>
        /\ main = "halt" /\ main' = "join_reader" /\ blocks_filled' = -1
        /\ reader' = SpaceNotified
    BY <1>7 DEF Halt, flags
  <2>2. last_input => reader'.pc \in {"eoi", "ended"}
    BY <2>1 DEF SpaceNotified, Ended
  <2> QED
    BY <2>1, <2>2 DEF Ended
<1>8. CASE StopEngine \/ DeviceStop \/ Join \/ UNCHANGED fifo_vars
  <2>1. UNCHANGED <<done, blocks_filled, last_input, reader, runner, ended_wait>>
    BY <1>8 DEF StopEngine, DeviceStop, Join, fifo, flags, fifo_vars
  <2>2. /\ streaming' => main' \in {"run", "stop"} /\ blocks_filled # -1
        /\ main' \in {"run", "stop"} => blocks_filled # -1
    BY <1>8 DEF StopEngine, DeviceStop, Join, fifo, flags, fifo_vars, Ended
  <2> QED
    BY <2>1, <2>2 DEF Ended
<1> QED
  BY <1>1, <1>2, <1>3, <1>4, <1>5, <1>6, <1>7, <1>8 DEF FifoNext, ReaderStep, RunnerStep, MainStep

(* The device ends only when what is left is less than a block, and        *)
(* nothing if the input was padded and none of it dropped.                 *)
LEMMA DrainedNow ==
  ASSUME FifoTypeOK, Linked, Padded, Ended, streaming, ended_wait
  PROVE  /\ accepted - received < BLOCK_SIZE
         /\ lossless /\ ~is_text => received = accepted
<1>1. blocks_filled = 0
  <2>1. blocks_filled \in -1 .. N_BLOCKS /\ N_BLOCKS \in Nat
    BY Typed
  <2> QED
    BY <2>1 DEF Ended
<1>2. reader.pc \in {"eoi", "ended"}
  BY DEF Ended
<1>3. /\ BLOCK_SIZE \in Nat \ {0} /\ accepted \in Nat /\ received \in Nat
      /\ tail % BLOCK_SIZE \in 0 .. (BLOCK_SIZE - 1)
  BY Typed
<1>4. accepted - received = tail % BLOCK_SIZE /\ tail % BLOCK_SIZE = accepted % BLOCK_SIZE
  <2>1. 0 * BLOCK_SIZE = 0
    BY <1>3
  <2> QED
    BY <1>1, <1>3, <2>1 DEF Linked
<1>5. lossless /\ ~is_text => accepted % BLOCK_SIZE = 0
  BY <1>1, <1>2 DEF Padded
<1>6. accepted - received < BLOCK_SIZE
  BY <1>3, <1>4
<1>7. lossless /\ ~is_text => accepted - received = 0
  BY <1>4, <1>5
<1> QED
  BY <1>3, <1>6, <1>7

LEMMA DrainedStep ==
  FifoTypeOK /\ Linked /\ Padded /\ Ended /\ EndDrained /\ [FifoNext]_fifo_vars => EndDrained'
<1> SUFFICES ASSUME FifoTypeOK, Linked, Padded, Ended, EndDrained, [FifoNext]_fifo_vars, done', ended_wait'
             PROVE  EndDrained'
  BY DEF EndDrained
<1>0. ASSUME UNCHANGED <<done, ended_wait, accepted, received, lossless, is_text>>
      PROVE  EndDrained'
  <2>1. /\ done /\ ended_wait /\ accepted' = accepted /\ received' = received
        /\ lossless' = lossless /\ is_text' = is_text
    BY <1>0
  <2>2. /\ accepted - received < BLOCK_SIZE
        /\ lossless /\ ~is_text => received = accepted
    BY <2>1 DEF EndDrained
  <2> QED
    BY <2>1, <2>2 DEF EndDrained
<1>1. CASE Read \/ ReadEnds \/ Pad \/ PushFinished \/ SetEoi \/ CheckStreaming \/ Front
           \/ SendThrows \/ StopEngine \/ DeviceStop \/ Halt \/ Join \/ UNCHANGED fifo_vars
  <2>1. UNCHANGED <<done, ended_wait, accepted, received, lossless, is_text>>
    BY <1>1 DEF Read, ReadEnds, Pad, PushFinished, SetEoi, CheckStreaming, Front, SendThrows,
                StopEngine, DeviceStop, Halt, Join, flags, setup, fifo_vars
  <2> QED
    BY <1>0, <2>1
<1>2. CASE PushRead \/ PushPad
  <2>1. UNCHANGED <<ended_wait>> /\ reader.pc \in {"push", "push_pad"}
    BY <1>2 DEF PushRead, PushPad, Push
  <2> QED
    BY <2>1 DEF Ended
<1>3. CASE Wait \/ Wake
  <2>1. UNCHANGED done /\ runner.pc \in {"wait", "waiting"}
    BY <1>3 DEF Wait, Wake, flags
  <2> QED
    BY <2>1 DEF Ended
<1>4. CASE Pop
  <2>1. UNCHANGED ended_wait /\ runner.pc = "send"
    BY <1>4 DEF Pop
  <2> QED
    BY <2>1 DEF Ended
<1>5. CASE Empty
  <2>1. /\ UNCHANGED <<ended_wait, accepted, received, lossless, is_text>>
        /\ runner.pc = "empty" /\ (done' <=> done \/ (eoi /\ isStreaming))
    BY <1>5 DEF Empty, setup
  <2>2. streaming /\ ended_wait
    BY <2>1 DEF isStreaming, Ended
  <2>3. /\ accepted - received < BLOCK_SIZE
        /\ lossless /\ ~is_text => received = accepted
    BY <2>2, DrainedNow
  <2> QED
    BY <2>1, <2>3 DEF EndDrained
<1> QED
  BY <1>1, <1>2, <1>3, <1>4, <1>5 DEF FifoNext, ReaderStep, RunnerStep, MainStep

LEMMA FifoInvariance == FifoSpec => []FifoInv
<1>1. FifoInit => FifoInv
  <2> SUFFICES ASSUME FifoInit
               PROVE  FifoInv
    OBVIOUS
  <2>1. FifoTypeOK
    <3>1. 0 \in Index
      BY CapacityPositive DEF Index
    <3>2. 0 \in -1 .. N_BLOCKS
      BY FIFOSizes
    <3> QED
      BY <3>1, <3>2 DEF FifoInit, FifoTypeOK
  <2>2. Linked
    <3>1. /\ head = 0 /\ tail = 0 /\ blocks_filled = 0 /\ accepted = 0 /\ received = 0
          /\ runner.pc = "check"
      BY DEF FifoInit
    <3>2. Capacity \in Nat \ {0} /\ BLOCK_SIZE \in Nat \ {0}
      BY CapacityPositive, FIFOSizes
    <3>3. 0 % Capacity = 0 /\ 0 % BLOCK_SIZE = 0
      BY <3>2, RemainderSmall
    <3>4. 0 * BLOCK_SIZE = 0 /\ 0 .. (0 - 0 - 1) = {}
      BY <3>2
    <3> QED
      BY <3>1, <3>3, <3>4 DEF Linked
  <2>3. HeldIntact /\ Ended /\ EndDrained
    BY DEF FifoInit, HeldIntact, Ended, EndDrained
  <2>4. Padded
    BY DEF FifoInit, Padded
  <2> QED
    BY <2>1, <2>2, <2>3, <2>4 DEF FifoInv
<1>2. FifoInv /\ [FifoNext]_fifo_vars => FifoInv'
  BY FifoTypeStep, LinkedStep, HeldStep, PaddedStep, EndedStep, DrainedStep DEF FifoInv
<1> QED
  BY <1>1, <1>2, PTL DEF FifoSpec

(* What Send() is given are the next bytes of the input, in order, and     *)
(* they stay so until it returns: neither a Push() behind them nor the     *)
(* padding or Halt() that come meanwhile write into the blocks the         *)
(* consumer reads without the lock (FIFO.h:104-113, 147-174).              *)
THEOREM HeldStaysIntact == FifoSpec => []HeldIntact
<1>1. FifoInv => HeldIntact
  BY DEF FifoInv
<1> QED
  BY <1>1, FifoInvariance, PTL

(* When the device reports its end, less than a block is left in the FIFO  *)
(* and, if the reader pads and does not drop, nothing is: unless the wait  *)
(* before it timed out just before the last bytes came                     *)
(* (FileRAW.cpp:139-158).                                                  *)
THEOREM EndIsDrained == FifoSpec => []EndDrained
<1>1. FifoInv => EndDrained
  BY DEF FifoInv
<1> QED
  BY <1>1, FifoInvariance, PTL
=============================================================================
