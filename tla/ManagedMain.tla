---------------------------- MODULE ManagedMain ----------------------------
(***************************************************************************)
(* Managed mode (-E): the loop thread of Managed::serve with the engine it *)
(* builds for every run, the one HTTP thread of ControlServer that carries *)
(* out the operator's requests, the SIGTERM/SIGINT handler and the threads *)
(* of the devices and outputs.  They share the record `core` (under mtx),  *)
(* the atomics command_seq, config_dirty, stop and stop_process, the flag  *)
(* engine_busy (under scan_mtx) and the configuration file (under          *)
(* file_mtx).                                                              *)
(*                                                                         *)
(* One action is one critical section, one access to a shared atomic, or a *)
(* stretch of code that touches only what its own thread can see.  The     *)
(* condition variable is not modelled: waitForCommand() waits at most 250  *)
(* ms, so a notification changes when the loop looks, not what it sees.    *)
(***************************************************************************)
EXTENDS ControlCore

CONSTANTS MaxCommands,   \* bound: engine commands the operator gives
          MaxSaves       \* bound: configurations the operator saves

ASSUME Bounds == MaxCommands \in Nat /\ MaxSaves \in Nat

VARIABLES
  core,            \* ControlCore's fields under mtx
  command_seq,     \* std::atomic<int> command_seq
  file,            \* the configuration file: "engine" field, version of the rest
  config_dirty,    \* std::atomic<bool> config_dirty
  engine_busy,     \* guarded by scan_mtx
  stop,            \* ends the running engine
  stop_process,    \* ends the managed loop
  loop,            \* where the loop thread is
  seen_seq,        \* the loop's local `seq`
  device,          \* an engine exists and its device may be open
  engine,          \* the Engine object: configuration read, viewer it was handed
  viewer,          \* the managed viewer
  op,              \* the control server's thread
  handler,         \* the signal handler
  erased,          \* history: the run's main loop overwrote a request in `stop`
  signalled,       \* history: the handler found this run going on
  owed             \* history: an unexpected stop not yet waited for

shared == <<core, command_seq, file, config_dirty, engine_busy, stop, stop_process>>
loopVars == <<loop, seen_seq, device, engine, viewer>>
vars == <<shared, loopVars, op, handler, erased, signalled, owed>>

Defaults == 0     \* the viewer's settings after resetSettings()
Versions == 0 .. (MaxSaves + 1)

Loop == {"check", "consume", "seq", "wait", "reload_wait", "idle", "reload_idle",
         "clear", "recheck", "begin", "prepare", "read", "setup", "attach",
         "play", "report_running", "main", "isactive", "detach",
         "failed", "serve_again", "engine_failed",
         "report_stopped", "destroy", "end", "close", "exited"}

(* From the second look at the desired state to the end of the main loop   *)
(* the only thing that ends the engine is `stop`.                          *)
InRun == loop \in {"begin", "prepare", "read", "setup", "attach", "play",
                   "report_running", "main", "isactive"}

Commands == {"start", "stop", "restart"}

TypeOK ==
  /\ core \in Core
  /\ command_seq \in Nat
  /\ file \in [engine : BOOLEAN, cfg : Nat]
  /\ config_dirty \in BOOLEAN
  /\ engine_busy \in BOOLEAN
  /\ stop \in BOOLEAN /\ stop_process \in BOOLEAN
  /\ loop \in Loop
  /\ seen_seq \in Nat
  /\ device \in BOOLEAN
  /\ engine \in [cfg : Nat, linked : BOOLEAN]
  /\ viewer \in [serving : BOOLEAN, attached : BOOLEAN, cfg : Nat]
  /\ op \in [pc : {"idle", "lock", "persist", "request", "dirty", "scan", "skip"},
             cmd : Commands, running : BOOLEAN]
  /\ handler \in {"none", "stopped", "done"}
  /\ erased \in BOOLEAN /\ signalled \in BOOLEAN
  /\ owed \in BOOLEAN

NoEngine == [cfg |-> Defaults, linked |-> FALSE]

NoRequest == [pc |-> "idle", cmd |-> "stop", running |-> FALSE]

(* serve() up to its loop: the viewer has read the file and is serving.    *)
Init ==
  /\ file \in [engine : BOOLEAN, cfg : {1}]
  /\ core = InitialCore(file.engine)
  /\ command_seq = 0
  /\ config_dirty = FALSE
  /\ engine_busy = FALSE
  /\ stop = FALSE /\ stop_process = FALSE
  /\ loop = "check"
  /\ seen_seq = 0
  /\ device = FALSE
  /\ engine = NoEngine
  /\ viewer = [serving |-> TRUE, attached |-> FALSE, cfg |-> file.cfg]
  /\ op = NoRequest
  /\ handler = "none"
  /\ erased = FALSE /\ signalled = FALSE /\ owed = FALSE

-----------------------------------------------------------------------------
(* The operator's requests, one at a time.                                 *)

Accepting == op.pc = "idle" /\ loop \notin {"close", "exited"}

(* command_seq++, the first statement of every engine command.             *)
Command(cmd) ==
  /\ Accepting
  /\ command_seq < MaxCommands
  /\ command_seq' = command_seq + 1
  /\ op' = [op EXCEPT !.pc = "lock", !.cmd = cmd]
  /\ owed' = FALSE
  /\ UNCHANGED <<core, file, config_dirty, engine_busy, stop, stop_process,
                 loopVars, handler, erased, signalled>>

(* The critical section.  startEngine() returns from it when the engine is *)
(* desired already.                                                        *)
CommandLocked ==
  /\ op.pc = "lock"
  /\ \/ /\ op.cmd = "start"
        /\ core' = StartLocked(core)
        /\ op' = IF core.desired THEN NoRequest ELSE [op EXCEPT !.pc = "persist"]
     \/ /\ op.cmd = "stop"
        /\ core' = StopLocked(core)
        /\ op' = [op EXCEPT !.pc = "persist"]
     \/ /\ op.cmd = "restart"
        /\ core' = RestartLocked(core)
        /\ op' = [op EXCEPT !.pc = "persist", !.running = (core.state = "Running")]
  /\ owed' = FALSE
  /\ UNCHANGED <<command_seq, file, config_dirty, engine_busy, stop, stop_process,
                 loopVars, handler, erased, signalled>>

(* persistEngineField(): under file_mtx; a failure is only logged.         *)
CommandPersists ==
  /\ op.pc = "persist"
  /\ \/ file' = [file EXCEPT !.engine = (op.cmd # "stop")]
     \/ UNCHANGED file
  /\ op' = [op EXCEPT !.pc = "request"]
  /\ UNCHANGED <<core, command_seq, config_dirty, engine_busy, stop, stop_process,
                 loopVars, handler, erased, signalled, owed>>

(* Mutant: a restart only notifies the loop.                               *)
CommandRequests_RestartNotifies ==
  /\ op.pc = "request"
  /\ stop' = (stop \/ op.cmd = "stop")
  /\ op' = NoRequest
  /\ UNCHANGED <<core, command_seq, file, config_dirty, engine_busy, stop_process,
                 loopVars, handler, erased, signalled, owed>>

(* StopRequest(), or cv.notify_all() when there is nothing to end.         *)
CommandRequests ==
  /\ op.pc = "request"
  /\ stop' = (stop \/ op.cmd = "stop" \/ (op.cmd = "restart" /\ op.running))
  /\ op' = NoRequest
  /\ UNCHANGED <<core, command_seq, file, config_dirty, engine_busy, stop_process,
                 loopVars, handler, erased, signalled, owed>>

(* setConfig(): a validated configuration replaces the file, its "engine"  *)
(* field included, and then config_dirty is set.                           *)
SaveConfig ==
  /\ Accepting
  /\ file.cfg =< MaxSaves
  /\ file' \in [engine : BOOLEAN, cfg : {file.cfg + 1}]
  /\ op' = [op EXCEPT !.pc = "dirty"]
  /\ UNCHANGED <<core, command_seq, config_dirty, engine_busy, stop, stop_process,
                 loopVars, handler, erased, signalled, owed>>

MarkDirty ==
  /\ op.pc = "dirty"
  /\ config_dirty' = TRUE
  /\ op' = NoRequest
  /\ UNCHANGED <<core, command_seq, file, engine_busy, stop, stop_process,
                 loopVars, handler, erased, signalled, owed>>

(* getDeviceListJSON(): scan_mtx is held from here to ScanEnds; the        *)
(* devices are enumerated ("scan") only when no engine session is on.      *)
ScanBegins ==
  /\ Accepting
  /\ op' = [op EXCEPT !.pc = IF engine_busy THEN "skip" ELSE "scan"]
  /\ UNCHANGED <<shared, loopVars, handler, erased, signalled, owed>>

ScanEnds ==
  /\ op.pc \in {"scan", "skip"}
  /\ op' = NoRequest
  /\ UNCHANGED <<shared, loopVars, handler, erased, signalled, owed>>

ScanLocked == op.pc \in {"scan", "skip"}

OperatorStep == CommandLocked \/ CommandPersists \/ CommandRequests \/ MarkDirty \/ ScanEnds

Operator ==
  \/ \E cmd \in Commands : Command(cmd)
  \/ SaveConfig \/ ScanBegins
  \/ OperatorStep

-----------------------------------------------------------------------------
(* `stop` has been cleared for the run that is going on, and the loop does *)
(* not hold a value of it that it has read.                                *)
FindsRun == (InRun /\ loop # "isactive") \/ loop = "recheck"

(* Mutant: the handler leaves the running engine alone.                    *)
SignalStop_ProcessOnly ==
  /\ handler = "none" /\ loop # "exited"
  /\ handler' = "stopped"
  /\ signalled' = FindsRun
  /\ UNCHANGED <<shared, loopVars, op, erased, owed>>

(* consoleHandler(): stop = true; stop_process = true.                     *)
SignalStop ==
  /\ handler = "none" /\ loop # "exited"
  /\ handler' = "stopped"
  /\ signalled' = FindsRun
  /\ stop' = TRUE
  /\ UNCHANGED <<core, command_seq, file, config_dirty, engine_busy, stop_process,
                 loopVars, op, erased, owed>>

SignalStopProcess ==
  /\ handler = "stopped"
  /\ handler' = "done"
  /\ stop_process' = TRUE
  /\ UNCHANGED <<core, command_seq, file, config_dirty, engine_busy, stop,
                 loopVars, op, erased, signalled, owed>>

(* A device thread at its end of input, or an output that gives up.        *)
ThreadStopRequest ==
  /\ loop \in {"play", "report_running", "main", "isactive"}
  /\ stop' = TRUE
  /\ UNCHANGED <<core, command_seq, file, config_dirty, engine_busy, stop_process,
                 loopVars, op, handler, erased, signalled, owed>>

-----------------------------------------------------------------------------
(* The managed loop.                                                       *)

Goto(l) == loop' = l

Check ==
  /\ loop = "check"
  /\ Goto(IF stop_process THEN "close" ELSE IF core.desired THEN "consume" ELSE "idle")
  /\ signalled' = FALSE
  /\ UNCHANGED <<shared, seen_seq, device, engine, viewer, op, handler, erased, owed>>

Consume ==
  /\ loop = "consume"
  /\ core' = ConsumeRetryDelay(core)
  /\ Goto(IF RetryDelay(core) > 0 THEN "seq" ELSE "clear")
  /\ UNCHANGED <<command_seq, file, config_dirty, engine_busy, stop, stop_process,
                 seen_seq, device, engine, viewer, op, handler, erased, signalled, owed>>

ReadSequence ==
  /\ loop = "seq"
  /\ seen_seq' = command_seq
  /\ Goto("wait")
  /\ UNCHANGED <<shared, device, engine, viewer, op, handler, erased, signalled, owed>>

(* Mutant: the wait has no end of its own.                                 *)
EndWait_OnlyWhenCut ==
  /\ loop = "wait"
  /\ stop_process \/ command_seq # seen_seq
  /\ Goto(IF stop_process \/ ~core.desired THEN "check" ELSE "clear")
  /\ seen_seq' = 0
  /\ UNCHANGED <<shared, device, engine, viewer, op, handler, erased, signalled, owed>>

(* The retry wait ends because its time is over, or is cut short; the loop *)
(* then looks at stop_process and at the desired state again.              *)
EndWait ==
  /\ loop = "wait"
  /\ \/ owed' = FALSE
     \/ (stop_process \/ command_seq # seen_seq) /\ UNCHANGED owed
  /\ Goto(IF stop_process \/ ~core.desired THEN "check" ELSE "clear")
  /\ seen_seq' = 0
  /\ UNCHANGED <<shared, device, engine, viewer, op, handler, erased, signalled>>

(* consumeConfigChanged() is an exchange; restartViewer() then stops the   *)
(* viewer and resets its settings.                                         *)
ConsumeConfig ==
  /\ \/ loop = "wait" /\ ~stop_process /\ command_seq = seen_seq /\ Goto("reload_wait")
     \/ loop = "idle" /\ Goto("reload_idle")
  /\ config_dirty
  /\ config_dirty' = FALSE
  /\ viewer' = [viewer EXCEPT !.serving = FALSE, !.cfg = Defaults]
  /\ UNCHANGED <<core, command_seq, file, engine_busy, stop, stop_process,
                 seen_seq, device, engine, op, handler, erased, signalled, owed>>

(* readManagedViewer() logs its own failures; startServing() follows.      *)
Reload ==
  /\ \/ loop = "reload_wait" /\ Goto("wait")
     \/ loop = "reload_idle" /\ Goto("check")
  /\ \/ viewer' = [viewer EXCEPT !.serving = TRUE, !.cfg = file.cfg]
     \/ viewer' = [viewer EXCEPT !.serving = TRUE]
  /\ UNCHANGED <<shared, seen_seq, device, engine, op, handler, erased, signalled, owed>>

(* Nothing to apply; waitForCommand().                                     *)
Idle ==
  /\ loop = "idle" /\ ~config_dirty
  /\ Goto("check")
  /\ UNCHANGED <<shared, seen_seq, device, engine, viewer, op, handler, erased, signalled, owed>>

-----------------------------------------------------------------------------
(* One engine session.                                                     *)

ClearStop ==
  /\ loop = "clear"
  /\ stop' = FALSE
  /\ Goto("recheck")
  /\ UNCHANGED <<core, command_seq, file, config_dirty, engine_busy, stop_process,
                 seen_seq, device, engine, viewer, op, handler, erased, signalled, owed>>

(* Mutant: no second look at the desired state after stop = false.         *)
Recheck_Omitted ==
  /\ loop = "recheck"
  /\ Goto("begin")
  /\ UNCHANGED <<shared, seen_seq, device, engine, viewer, op, handler, erased, signalled, owed>>

Recheck ==
  /\ loop = "recheck"
  /\ Goto(IF core.desired THEN "begin" ELSE "check")
  /\ UNCHANGED <<shared, seen_seq, device, engine, viewer, op, handler, erased, signalled, owed>>

(* Mutant: the session is not marked.                                      *)
BeginSession_Unmarked ==
  /\ loop = "begin" /\ ~ScanLocked
  /\ engine' = NoEngine
  /\ Goto("prepare")
  /\ UNCHANGED <<shared, seen_seq, device, viewer, op, handler, erased, signalled, owed>>

(* EngineSessionGuard takes scan_mtx; then the Engine is constructed.      *)
BeginSession ==
  /\ loop = "begin" /\ ~ScanLocked
  /\ engine_busy' = TRUE
  /\ engine' = NoEngine
  /\ Goto("prepare")
  /\ UNCHANGED <<core, command_seq, file, config_dirty, stop, stop_process,
                 seen_seq, device, viewer, op, handler, erased, signalled, owed>>

(* refreshDevices(), which may throw; consumeConfigChanged(),              *)
(* stopServing(), resetSettings().                                         *)
Prepare ==
  /\ loop = "prepare"
  /\ device' = TRUE
  /\ \/ /\ config_dirty' = FALSE
        /\ viewer' = [viewer EXCEPT !.serving = FALSE, !.cfg = Defaults]
        /\ Goto("read")
     \/ Goto("failed") /\ UNCHANGED <<config_dirty, viewer>>
  /\ UNCHANGED <<core, command_seq, file, engine_busy, stop, stop_process,
                 seen_seq, engine, op, handler, erased, signalled, owed>>

(* c.read() applies the file to the engine and the stopped viewer.  It may *)
(* throw halfway, and so does the check for an input device after it;      *)
(* otherwise the viewer serves again.                                      *)
ReadConfig ==
  /\ loop = "read"
  /\ \/ /\ engine' = [engine EXCEPT !.cfg = file.cfg]
        /\ \/ viewer' = [viewer EXCEPT !.cfg = file.cfg, !.serving = TRUE] /\ Goto("setup")
           \/ viewer' = [viewer EXCEPT !.cfg = file.cfg] /\ Goto("failed")
     \/ UNCHANGED <<engine, viewer>> /\ Goto("failed")
  /\ UNCHANGED <<shared, seen_seq, device, op, handler, erased, signalled, owed>>

(* Mutant: the change flag is cleared after the file has been read.        *)
SetupDevice_ClearsDirty ==
  /\ loop = "setup"
  /\ engine' = [engine EXCEPT !.linked = TRUE]
  /\ Goto("attach") \/ Goto("failed")
  /\ config_dirty' = FALSE
  /\ UNCHANGED <<core, command_seq, file, engine_busy, stop, stop_process,
                 seen_seq, device, viewer, op, handler, erased, signalled, owed>>

(* Engine::run() keeps the viewer for detach(), then opens the device.     *)
SetupDevice ==
  /\ loop = "setup"
  /\ engine' = [engine EXCEPT !.linked = TRUE]
  /\ Goto("attach") \/ Goto("failed")
  /\ UNCHANGED <<shared, seen_seq, device, viewer, op, handler, erased, signalled, owed>>

(* setOutputChannels(), setCommFeed(), attachEngine().                     *)
Attach ==
  /\ loop = "attach"
  /\ viewer' = [viewer EXCEPT !.attached = TRUE]
  /\ Goto("play")
  /\ UNCHANGED <<shared, seen_seq, device, engine, op, handler, erased, signalled, owed>>

Play ==
  /\ loop = "play"
  /\ Goto("report_running") \/ Goto("failed")
  /\ UNCHANGED <<shared, seen_seq, device, engine, viewer, op, handler, erased, signalled, owed>>

ReportsRunning ==
  /\ loop = "report_running"
  /\ core' = ReportRunning(core)
  /\ Goto("main")
  /\ UNCHANGED <<command_seq, file, config_dirty, engine_busy, stop, stop_process,
                 seen_seq, device, engine, viewer, op, handler, erased, signalled, owed>>

(* while (!stop), and the load of `stop` in "stop = stop || ...".          *)
MainLoop ==
  /\ loop = "main"
  /\ Goto(IF stop THEN "detach" ELSE "isactive")
  /\ UNCHANGED <<shared, seen_seq, device, engine, viewer, op, handler, erased, signalled, owed>>

(* isActive() has run -- for a WAV file that is the decoding of a block -- *)
(* and the store follows.  A timeout or watchdog that sets `stop` later in *)
(* the iteration has the effect of an inactive device.                     *)
StoreActive ==
  /\ loop = "isactive"
  /\ stop' \in BOOLEAN
  /\ erased' = (erased \/ (stop /\ ~stop'))
  /\ Goto("main")
  /\ UNCHANGED <<core, command_seq, file, config_dirty, engine_busy, stop_process,
                 seen_seq, device, engine, viewer, op, handler, signalled, owed>>

(* Engine::detach(): the viewer run() was handed drops its references.     *)
DetachedViewer == IF engine.linked THEN [viewer EXCEPT !.attached = FALSE] ELSE viewer

(* Mutant: the catch block relies on ~Engine.                              *)
Detach_NotInCatch ==
  /\ \/ loop = "detach" /\ Goto("report_stopped") /\ viewer' = DetachedViewer
     \/ loop = "failed" /\ Goto("serve_again") /\ UNCHANGED viewer
  /\ UNCHANGED <<shared, seen_seq, device, engine, op, handler, erased, signalled, owed>>

Detach ==
  /\ \/ loop = "detach" /\ Goto("report_stopped")
     \/ loop = "failed" /\ Goto("serve_again")
  /\ viewer' = DetachedViewer
  /\ UNCHANGED <<shared, seen_seq, device, engine, op, handler, erased, signalled, owed>>

(* The catch block after engine.detach().                                  *)
ServeAgain ==
  /\ loop = "serve_again"
  /\ viewer' = [viewer EXCEPT !.serving = TRUE]
  /\ Goto("engine_failed")
  /\ UNCHANGED <<shared, seen_seq, device, engine, op, handler, erased, signalled, owed>>

ReportsFailed ==
  /\ loop = "engine_failed"
  /\ core' = EngineFailed(core)
  /\ Goto("report_stopped")
  /\ UNCHANGED <<command_seq, file, config_dirty, engine_busy, stop, stop_process,
                 seen_seq, device, engine, viewer, op, handler, erased, signalled, owed>>

ReportsStopped ==
  /\ loop = "report_stopped"
  /\ \E healthy \in BOOLEAN : core' = ReportStopped(core, healthy)
  /\ owed' = (owed \/ StopsUnexpectedly(core))
  /\ erased' = FALSE
  /\ Goto("destroy")
  /\ UNCHANGED <<command_seq, file, config_dirty, engine_busy, stop, stop_process,
                 seen_seq, device, engine, viewer, op, handler, signalled>>

(* End of the iteration: ~Engine closes the devices, and only then         *)
(* ~EngineSessionGuard lets the operator scan them again.                  *)
DestroyEngine ==
  /\ loop = "destroy"
  /\ device' = FALSE
  /\ viewer' = DetachedViewer
  /\ engine' = NoEngine
  /\ Goto("end")
  /\ UNCHANGED <<shared, seen_seq, op, handler, erased, signalled, owed>>

EndSession ==
  /\ loop = "end" /\ ~ScanLocked
  /\ engine_busy' = FALSE
  /\ Goto("check")
  /\ UNCHANGED <<core, command_seq, file, config_dirty, stop, stop_process,
                 seen_seq, device, engine, viewer, op, handler, erased, signalled, owed>>

(* server.close() joins the control thread; viewer->shutdown().            *)
Close ==
  /\ loop = "close" /\ op.pc = "idle"
  /\ viewer' = [viewer EXCEPT !.serving = FALSE]
  /\ Goto("exited")
  /\ UNCHANGED <<shared, seen_seq, device, engine, op, handler, erased, signalled, owed>>

LoopStep ==
  \/ Check \/ Consume \/ ReadSequence \/ EndWait \/ ConsumeConfig \/ Reload \/ Idle
  \/ ClearStop \/ Recheck \/ BeginSession \/ Prepare \/ ReadConfig \/ SetupDevice
  \/ Attach \/ Play \/ ReportsRunning \/ MainLoop \/ StoreActive \/ Detach
  \/ ServeAgain \/ ReportsFailed \/ ReportsStopped \/ DestroyEngine \/ EndSession
  \/ Close

Next ==
  \/ Operator
  \/ SignalStop \/ SignalStopProcess
  \/ ThreadStopRequest
  \/ LoopStep

(* The loop thread runs; a request, a scan and a signal handler that began *)
(* come to their end.  The operator and the devices owe nothing.  Strong   *)
(* fairness where the loop takes scan_mtx: the operator's scans come one   *)
(* request at a time, with the mutex free in between.                      *)
Fairness ==
  /\ WF_vars(LoopStep) /\ SF_vars(BeginSession) /\ SF_vars(EndSession)
  /\ WF_vars(OperatorStep)
  /\ WF_vars(SignalStopProcess)

Spec == Init /\ [][Next]_vars /\ Fairness

-----------------------------------------------------------------------------
(* Properties.                                                             *)

StopOnItsWay == stop \/ (op.cmd = "stop" /\ op.pc \in {"persist", "request"})

(* A stop command is never lost: while an engine runs that nobody desires, *)
(* `stop` is set or the command is about to set it.  Clearing `stop`       *)
(* before a run (ManagedMain.cpp:141) is safe because of the second look;  *)
(* only the main loop's own store (Engine.cpp:229) can undo the request.   *)
StopNotLost ==
  InRun /\ ~core.desired /\ ~erased => StopOnItsWay

(* An engine that ended by itself is not started again before its retry    *)
(* delay has passed or the operator has given a command.                   *)
BackoffRespected == InRun => ~owed

(* Devices are never enumerated while an engine session may have one open: *)
(* the session brackets refreshDevices() up to ~Engine.                    *)
NoScanDuringSession == op.pc = "scan" => ~device

(* The viewer outlives the engine: whichever step of a start fails, it     *)
(* holds no reference into the engine once it serves again, and none when  *)
(* the engine is destroyed.                                                *)
ViewerDetached ==
  viewer.attached => loop \in {"play", "report_running", "main", "isactive",
                               "detach", "failed"}

(* A saved configuration reaches the viewer: a serving viewer whose        *)
(* settings come from an older file has been told, or is about to be.      *)
ViewerConfigFresh ==
  viewer.serving /\ viewer.cfg \notin {file.cfg, Defaults} =>
    config_dirty \/ op.pc = "dirty"

(* A stop, or the restart of a running engine, ends the run it finds,      *)
(* unless the operator changes his mind or the request is overwritten.     *)
StopHonoured ==
  (InRun /\ (~core.desired \/ core.restart_pending)) ~>
    (~InRun \/ erased \/ (core.desired /\ ~core.restart_pending))

(* A desired engine is started -- at once or after its delay -- unless the *)
(* operator stops it or the process is told to end.                        *)
StartServed == core.desired ~> (InRun \/ ~core.desired \/ stop_process)

(* Where the loop goes round to its look at stop_process, or has left.     *)
Between == {"seq", "wait", "reload_wait", "idle", "reload_idle", "check", "detach",
            "failed", "serve_again", "engine_failed", "report_stopped", "destroy", "end",
            "close"}

(* A termination signal that finds a run going on ends that run, wherever  *)
(* the run is but between its look at `stop` and its own store             *)
(* (Engine.cpp:229); and once the handler has set both flags, the process  *)
(* ends without another run, whatever is commanded, owed or scanned,       *)
(* unless a run goes on or the loop is past its look at stop_process with  *)
(* stop = false before it (ManagedMain.cpp:123 to 141).                    *)
ShutdownServed ==
  /\ (InRun /\ signalled) ~> ~InRun
  /\ (handler = "done" /\ loop \in Between) ~> (loop = "exited")

(* What Engine.h:37 says of the flags, "stop ends the running engine,      *)
(* stop_process the managed-mode loop around it", of the signal handler    *)
(* that sets both: a run cannot go on after it.                            *)
ShutdownEndsRun == InRun /\ handler = "done" => stop

-----------------------------------------------------------------------------
(* The inductive invariant behind the safety properties.                   *)

InSession == {"prepare", "read", "setup", "attach", "play", "report_running", "main",
              "isactive", "detach", "failed", "serve_again", "engine_failed",
              "report_stopped", "destroy", "end"}

(* engine_busy brackets the device, and a scan that holds scan_mtx has     *)
(* seen it clear.                                                          *)
SessionBracketed ==
  /\ engine_busy <=> loop \in InSession
  /\ device => loop \in InSession \ {"end"}
  /\ op.pc = "scan" => ~engine_busy

(* What the first half of ShutdownServed rests on: the request stands      *)
(* until the run is over.                                                  *)
SignalStands ==
  signalled => \/ FindsRun /\ stop
               \/ loop \in {"detach", "failed", "serve_again", "engine_failed",
                            "report_stopped", "destroy", "end", "check"}

(* detach() can reach every viewer that was attached.                      *)
DetachReachesViewer ==
  /\ loop \in {"attach", "play", "report_running", "main", "isactive", "detach"}
       => engine.linked
  /\ viewer.attached => engine.linked

(* Whether or not it serves, a viewer with older settings has been told.   *)
ChangeFlagged ==
  viewer.cfg \notin {file.cfg, Defaults} => config_dirty \/ op.pc = "dirty"

(* An unexpected stop that is still owed its delay is on its way to the    *)
(* wait, in it with no command since, or overtaken by a termination.       *)
DelayOwed ==
  owed =>
    /\ core.desired
    /\ \/ /\ loop \in {"destroy", "end", "check", "consume"}
          /\ core.retry_pending /\ core.retry_delay > 0
       \/ loop = "seq"
       \/ loop \in {"wait", "reload_wait"} /\ command_seq = seen_seq
       \/ loop \in {"check", "close", "exited"} /\ stop_process

IInv ==
  /\ TypeOK
  /\ StopNotLost
  /\ SignalStands
  /\ SessionBracketed
  /\ DetachReachesViewer /\ ViewerDetached
  /\ ChangeFlagged
  /\ DelayOwed

=============================================================================
