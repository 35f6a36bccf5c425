--------------------------- MODULE MCTimerManager ---------------------------
(***************************************************************************)
(* Properties of TimerManager and the instances TLC checks them on.        *)
(***************************************************************************)
EXTENDS TimerManager

(***************************************************************************)
(* The refinement mapping to TimerService.  A periodic timer stays armed   *)
(* while its callback runs, although it is not queued, because the worker  *)
(* will queue it again.                                                    *)
(***************************************************************************)
Live == {t \in Timer : status[t] = "live"}
WillRequeue(t) == executing[t] /\ period[t] > 0 /\ ~disabled[t] /\ ~toDestroy[t]
ArmedAs(t) == IF finished \/ ~(queue[t] > 0 \/ WillRequeue(t)) THEN "off"
              ELSE IF period[t] > 0 THEN "every" ELSE "once"

Promise == INSTANCE TimerService WITH
               live      <- Live,
               armed     <- [t \in Timer |-> ArmedAs(t)],
               condemned <- {t \in Live : executing[t] /\ toDestroy[t]},
               running   <- worker.timer,
               closed    <- finished

(***************************************************************************)
(* The manager does what its header promises: one callback at a time, no   *)
(* callback of a timer that was disabled or destroyed and not started      *)
(* again, a timer destroyed only outside its callback, a periodic timer    *)
(* that keeps its one place however often it is started and stopped.       *)
(***************************************************************************)
KeepsPromise == Promise!Spec

(***************************************************************************)
(* m_queue and the worker hold references into m_timersById: none of them  *)
(* may outlive the timer (UxAS_TimerManager.cpp:390, 440).                 *)
(***************************************************************************)
NoDanglingReference ==
    \A t \in Timer : queue[t] > 0 \/ worker.timer = t => status[t] = "live"

(***************************************************************************)
(* A timer that is overdue is called back, unless a caller stops or starts *)
(* it again or the manager is destroyed: the other timers cannot keep the  *)
(* one worker thread from it for ever.                                     *)
(***************************************************************************)
Overdue(t) == queue[t] > 0 /\ left[t] <= 0
OverdueTimerIsServed ==
    \A t \in Timer : Overdue(t) ~> (~Overdue(t) \/ worker.timer = t \/ finished)

(***************************************************************************)
(* UxAS_TimerManager.h:155: period_ms is the "duration of time between     *)
(* repetitive callbacks": a timer has one place in the queue, and none     *)
(* while its callback runs, so that its callbacks are a period apart.      *)
(***************************************************************************)
OnePlacePerTimer == \A t \in Timer : queue[t] + (IF executing[t] THEN 1 ELSE 0) <= 1

=============================================================================
