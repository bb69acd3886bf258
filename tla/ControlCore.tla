---------------------------- MODULE ControlCore ----------------------------
(***************************************************************************)
(* The engine state that ControlCore keeps under its mutex `mtx`, and the  *)
(* critical sections of its methods.  Every method locks `mtx` once, so    *)
(* each one is an operator from the record before to the record after; the *)
(* threads that call them, and what they do outside the lock, are in       *)
(* ManagedMain.  status_epoch (a change counter for the status stream) and *)
(* engine_start_time (read here only as "up for RETRY_HEALTHY_UPTIME") are *)
(* left out.                                                               *)
(***************************************************************************)
EXTENDS Naturals

CONSTANTS RETRY_DELAY_FIRST, RETRY_DELAY_MAX

ASSUME RetryDelays ==
  /\ RETRY_DELAY_FIRST \in Nat \ {0}
  /\ RETRY_DELAY_MAX \in Nat
  /\ RETRY_DELAY_FIRST =< RETRY_DELAY_MAX

Core == [desired         : BOOLEAN,
         restart_pending : BOOLEAN,
         state           : {"Stopped", "Running"},
         auto_retry      : BOOLEAN,
         retry_pending   : BOOLEAN,
         retry_delay     : 0 .. RETRY_DELAY_MAX]

(* The constructor: the "engine" field of the file is the desired state.   *)
InitialCore(on) == [desired |-> on, restart_pending |-> FALSE,
                    state |-> "Stopped", auto_retry |-> on,
                    retry_pending |-> FALSE, retry_delay |-> 0]

ResetRetry(c) == [c EXCEPT !.auto_retry = FALSE,
                           !.retry_pending = FALSE,
                           !.retry_delay = 0]

StartLocked(c) ==
  IF c.desired
  THEN ResetRetry(c)
  ELSE [ResetRetry(c) EXCEPT !.desired = TRUE, !.restart_pending = FALSE]

StopLocked(c) == [ResetRetry(c) EXCEPT !.desired = FALSE, !.restart_pending = FALSE]

RestartLocked(c) ==
  LET running == c.state = "Running"
  IN  [ResetRetry(c) EXCEPT !.desired = TRUE,
                            !.restart_pending = running,
                            !.auto_retry = running]

ReportRunning(c) == [c EXCEPT !.state = "Running", !.auto_retry = FALSE]

(* Mutant: the delay keeps doubling.                                       *)
NextDelay_Uncapped(delay, healthy) ==
  IF healthy \/ delay = 0 THEN RETRY_DELAY_FIRST ELSE 2 * delay

(* MIN(retry_delay * 2, RETRY_DELAY_MAX), restarting from                  *)
(* RETRY_DELAY_FIRST after a healthy run.                                  *)
NextDelay(delay, healthy) ==
  IF healthy \/ delay = 0 THEN RETRY_DELAY_FIRST
  ELSE IF 2 * delay < RETRY_DELAY_MAX THEN 2 * delay ELSE RETRY_DELAY_MAX

(* The engine ended, nobody asked for it and it is to be tried again.      *)
StopsUnexpectedly(c) ==
  ~c.restart_pending /\ c.desired /\ (c.state = "Running" \/ c.auto_retry)

(* Mutant: only a run that got as far as Running is followed by a delay.   *)
ReportStopped_NoDelayAfterFailedStart(c, healthy) ==
  LET s == [c EXCEPT !.state = "Stopped"]
  IN  IF c.restart_pending
        THEN [s EXCEPT !.restart_pending = FALSE]
      ELSE IF StopsUnexpectedly(c)
        THEN [s EXCEPT !.retry_delay = NextDelay(c.retry_delay, healthy),
                       !.auto_retry = TRUE,
                       !.retry_pending = (c.state = "Running")]
      ELSE IF c.desired
        THEN [ResetRetry(s) EXCEPT !.desired = FALSE]
      ELSE s

ReportStopped(c, healthy) ==
  LET s == [c EXCEPT !.state = "Stopped"]
  IN  IF c.restart_pending
        THEN [s EXCEPT !.restart_pending = FALSE]
      ELSE IF StopsUnexpectedly(c)
        THEN [s EXCEPT !.retry_delay = NextDelay(c.retry_delay, healthy /\ c.state = "Running"),
                       !.auto_retry = TRUE,
                       !.retry_pending = TRUE]
      ELSE IF c.desired
        THEN [ResetRetry(s) EXCEPT !.desired = FALSE]
      ELSE s

EngineFailed(c) == [c EXCEPT !.restart_pending = FALSE]

(* consumeRetryDelay(): the value it returns and the state it leaves.      *)
RetryDelay(c) == IF c.retry_pending THEN c.retry_delay ELSE 0
ConsumeRetryDelay(c) == [c EXCEPT !.retry_pending = FALSE]

=============================================================================
