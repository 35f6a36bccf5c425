---------------------------- MODULE TimerManager ----------------------------
(***************************************************************************)
(* uxas::common::TimerManager (UxAS_TimerManager.cpp): one worker thread,  *)
(* a queue of references to timers sorted by deadline, and an API that any *)
(* thread calls.  Every API call holds m_mutex from its first line to its  *)
(* last; the worker holds it except while it waits and while it is in a    *)
(* callback.                                                               *)
(*                                                                         *)
(* Deadlines are kept relative to the present: left[t] is the number of    *)
(* ticks from now to m_nextCallbackTime, negative when that is in the      *)
(* past.  The queue finds and erases by deadline, never by identity; two   *)
(* deadlines that are equal in ticks need not be the same time_point, so   *)
(* Coincide says whether they are.                                         *)
(***************************************************************************)
EXTENDS Integers, FiniteSets

CONSTANTS Timer,       \* the identifiers createTimer may return
          NoTimer,     \* the null timer
          Delay,       \* the delays callers start a timer with, in ticks
          Period,      \* the periods callers start a timer with, in ticks
          MaxLate,     \* bound: the worker is never later than this many ticks
          Coincide,    \* whether equal deadlines are the same time_point
          RestartInCallback \* whether another thread starts a timer that is
                            \* in its callback

ASSUME TimerAssumption == /\ NoTimer \notin Timer
                          /\ Delay \subseteq Nat
                          /\ Period \subseteq Nat \ {0}
                          /\ MaxLate \in Nat
                          /\ Coincide \in BOOLEAN
                          /\ RestartInCallback \in BOOLEAN

VARIABLES
    status,     \* m_timersById: "unused", "live" or "destroyed"
    left,       \* m_nextCallbackTime, relative to now
    period,     \* m_period_ms; 0 is a single-shot timer
    executing,  \* m_isExecutingCallback
    disabled,   \* m_isDisabled
    toDestroy,  \* m_isToBeDestroyed
    queue,      \* m_queue: how many references to each timer it holds
    worker,     \* where the worker thread is, and the timer it serves
    holder,     \* the timer a caller waits to disable or destroy, holding m_mutex
    finished    \* m_isFinished

flags == <<executing, disabled, toDestroy>>
vars == <<status, left, period, executing, disabled, toDestroy, queue,
          worker, holder, finished>>

Past == -MaxLate - 1   \* a deadline too long past to be told from another
Idle == [pc |-> "managing", timer |-> NoTimer]

TypeOK ==
    /\ status \in [Timer -> {"unused", "live", "destroyed"}]
    /\ left \in [Timer -> Int]
    /\ period \in [Timer -> {0} \cup Period]
    /\ executing \in [Timer -> BOOLEAN]
    /\ disabled \in [Timer -> BOOLEAN]
    /\ toDestroy \in [Timer -> BOOLEAN]
    /\ queue \in [Timer -> Nat]
    /\ worker \in [pc : {"managing", "callback", "returned", "stopped"},
                   timer : Timer \cup {NoTimer}]
    /\ holder \in Timer \cup {NoTimer}
    /\ finished \in BOOLEAN

Init ==
    /\ status = [t \in Timer |-> "unused"]
    /\ left = [t \in Timer |-> Past]
    /\ period = [t \in Timer |-> 0]
    /\ executing = [t \in Timer |-> FALSE]
    /\ disabled = [t \in Timer |-> FALSE]
    /\ toDestroy = [t \in Timer |-> FALSE]
    /\ queue = [t \in Timer |-> 0]
    /\ worker = Idle
    /\ holder = NoTimer
    /\ finished = FALSE

MutexFree == holder = NoTimer

(***************************************************************************)
(* The comparator of the multiset orders by deadline alone, so find and    *)
(* erase meet every queued timer whose deadline is the same.               *)
(***************************************************************************)
SameKey(t, u) == t = u \/ (Coincide /\ left[t] = left[u])
FoundNothing(t) == {}   \* fault: a start does not look for the queued timer
Found(t) == {u \in Timer : queue[u] > 0 /\ SameKey(t, u)}
WithoutKey(t) == [u \in Timer |-> IF SameKey(t, u) THEN 0 ELSE queue[u]]

IsTimerActive(t) == status[t] = "live" /\ Found(t) # {}

Create(t) ==
    /\ MutexFree /\ ~finished
    /\ status[t] = "unused"
    /\ status' = [status EXCEPT ![t] = "live"]
    /\ UNCHANGED <<left, period, flags, queue, worker, holder, finished>>

(***************************************************************************)
(* The last part of startTimerImpl: deadline, flags, queue.                *)
(***************************************************************************)
Enqueue(t, delay, p, q) ==
    /\ left' = [left EXCEPT ![t] = delay]
    /\ period' = [period EXCEPT ![t] = p]
    /\ disabled' = [disabled EXCEPT ![t] = FALSE]
    /\ toDestroy' = [toDestroy EXCEPT ![t] = FALSE]
    /\ executing' = [executing EXCEPT ![t] = FALSE]
    /\ queue' = [q EXCEPT ![t] = @ + 1]

(***************************************************************************)
(* startSingleShotTimer (p = 0) and startPeriodicTimer, called by a thread *)
(* other than the worker: on the worker's own thread the call is refused   *)
(* and changes nothing.  What find returns is dequeued first.  The loop    *)
(* that retries while it is in its callback (225-277) ends on its first    *)
(* pass: a timer is not queued while it runs unless it was queued twice,   *)
(* which is what OnePlacePerTimer excludes; no start is modelled after it  *)
(* was.                                                                    *)
(***************************************************************************)
MayStart(t) == /\ MutexFree /\ ~finished
               /\ status[t] = "live"
               /\ RestartInCallback \/ worker.timer # t

StartTimer(t, delay, p) ==
    /\ MayStart(t)
    /\ \/ Found(t) = {} /\ Enqueue(t, delay, p, queue)
       \/ \E u \in Found(t) : ~executing[u] /\ Enqueue(t, delay, p, WithoutKey(u))
    /\ UNCHANGED <<status, worker, holder, finished>>

(***************************************************************************)
(* disableOrDestroyExistingTimerImpl on every timer of S: flags for the    *)
(* timer in its callback, the queue and m_timersById for the others.       *)
(***************************************************************************)
MayGo(S) == S   \* fault: a timer in its callback goes at once
Idlers(S) == {t \in S : ~executing[t]}
Stop(S, isDestroy) ==
    LET gone == Idlers(S) IN
    /\ disabled' = [t \in Timer |-> disabled[t] \/ (t \in S /\ executing[t])]
    /\ toDestroy' = [t \in Timer |-> toDestroy[t] \/ (isDestroy /\ t \in S /\ executing[t])]
    /\ queue' = [u \in Timer |-> IF \E t \in gone : SameKey(t, u) THEN 0 ELSE queue[u]]
    /\ status' = [t \in Timer |-> IF isDestroy /\ t \in gone THEN "destroyed" ELSE status[t]]

(***************************************************************************)
(* disableTimer, destroyTimer and destroyTimers.  With a timeout, a call   *)
(* that could not complete sleeps and retries without releasing m_mutex;   *)
(* the timer it waits for is one that is in its callback.                  *)
(***************************************************************************)
DisableTimer(t, isWait) ==
    /\ MutexFree /\ status[t] = "live"
    /\ Stop({t}, FALSE)
    /\ holder' = IF isWait /\ executing[t] THEN t ELSE NoTimer
    /\ UNCHANGED <<left, period, executing, worker, finished>>

DestroyTimer(t, isWait) ==
    /\ MutexFree /\ status[t] = "live"
    /\ Stop({t}, TRUE)
    /\ holder' = IF isWait /\ executing[t] THEN t ELSE NoTimer
    /\ UNCHANGED <<left, period, executing, worker, finished>>

DestroyTimers(S, isWait) ==
    LET busy == S \ Idlers(S) IN
    /\ MutexFree /\ \A t \in S : status[t] = "live"
    /\ Stop(S, TRUE)
    /\ holder' \in IF isWait /\ busy # {} THEN busy ELSE {NoTimer}
    /\ UNCHANGED <<left, period, executing, worker, finished>>

WaitTimesOut ==
    /\ ~MutexFree
    /\ holder' = NoTimer
    /\ UNCHANGED <<status, left, period, flags, queue, worker, finished>>

(***************************************************************************)
(* ~TimerManager: the worker leaves its loop when it next looks.           *)
(***************************************************************************)
Finish ==
    /\ MutexFree /\ ~finished
    /\ finished' = TRUE
    /\ UNCHANGED <<status, left, period, flags, queue, worker, holder>>

(***************************************************************************)
(* executeManagement: the first queued timer, when its time has come.      *)
(***************************************************************************)
Last(t) ==   \* fault: the comparator is the wrong way round
    queue[t] > 0 /\ \A u \in Timer : queue[u] > 0 => left[t] >= left[u]
First(t) == queue[t] > 0 /\ \A u \in Timer : queue[u] > 0 => left[t] <= left[u]

BeginCallback(t) ==
    /\ worker.pc = "managing" /\ MutexFree /\ ~finished
    /\ First(t) /\ left[t] <= 0
    /\ status[t] = "live"
    /\ queue' = [queue EXCEPT ![t] = @ - 1]
    /\ executing' = [executing EXCEPT ![t] = TRUE]
    /\ worker' = [pc |-> "callback", timer |-> t]
    /\ UNCHANGED <<status, left, period, disabled, toDestroy, holder, finished>>

HandlerReturns ==
    /\ worker.pc = "callback"
    /\ worker' = [worker EXCEPT !.pc = "returned"]
    /\ UNCHANGED <<status, left, period, flags, queue, holder, finished>>

(***************************************************************************)
(* The worker has the mutex again: destroy, forget or re-schedule.         *)
(***************************************************************************)
RepeatsAlways(t) == ~toDestroy[t] /\ period[t] > 0   \* fault: disabled is ignored
Repeats(t) == ~toDestroy[t] /\ ~disabled[t] /\ period[t] > 0
EndCallback ==
    LET t == worker.timer
        isDestroy == toDestroy[t] /\ ~finished
        isRepeat  == Repeats(t) /\ ~finished IN
    /\ worker.pc = "returned" /\ MutexFree
    /\ status[t] = "live"
    /\ executing' = [executing EXCEPT ![t] = FALSE]
    /\ status' = IF isDestroy THEN [status EXCEPT ![t] = "destroyed"] ELSE status
    /\ left'  = IF isRepeat THEN [left EXCEPT ![t] = @ + period[t]] ELSE left
    /\ queue' = IF isRepeat THEN [queue EXCEPT ![t] = @ + 1] ELSE queue
    /\ disabled' = [disabled EXCEPT
                      ![t] = @ \/ (~finished /\ ~toDestroy[t] /\ period[t] = 0)]
    /\ worker' = IF finished THEN [pc |-> "stopped", timer |-> NoTimer] ELSE Idle
    /\ UNCHANGED <<period, toDestroy, holder, finished>>

WorkerStops ==
    /\ worker.pc = "managing" /\ MutexFree /\ finished
    /\ worker' = [worker EXCEPT !.pc = "stopped"]
    /\ UNCHANGED <<status, left, period, flags, queue, holder, finished>>

(***************************************************************************)
(* Time passes.  MaxLate bounds how late a queued timer, or a periodic one *)
(* in its callback, may get.                                               *)
(***************************************************************************)
Tick ==
    /\ \A t \in Timer : queue[t] > 0 \/ (executing[t] /\ period[t] > 0)
                          => left[t] > -MaxLate
    /\ left' = [t \in Timer |-> IF left[t] > Past THEN left[t] - 1 ELSE Past]
    /\ UNCHANGED <<status, period, flags, queue, worker, holder, finished>>

Call(t) == \/ Create(t)
           \/ \E d \in Delay, p \in {0} \cup Period : StartTimer(t, d, p)
           \/ \E isWait \in BOOLEAN : DisableTimer(t, isWait) \/ DestroyTimer(t, isWait)

Work == (\E t \in Timer : BeginCallback(t)) \/ EndCallback \/ WorkerStops

Next == \/ \E t \in Timer : Call(t)
        \/ \E S \in SUBSET Timer, isWait \in BOOLEAN : DestroyTimers(S, isWait)
        \/ WaitTimesOut \/ Finish
        \/ Work \/ HandlerReturns \/ Tick

Spec == Init /\ [][Next]_vars

(***************************************************************************)
(* Handlers return, waits end, time passes, and the worker gets m_mutex    *)
(* when it is free again and again (the strong fairness).                  *)
(***************************************************************************)
Fairness == SF_vars(Work) /\ WF_vars(HandlerReturns) /\ WF_vars(WaitTimesOut) /\ WF_vars(Tick)
FairSpec == Spec /\ Fairness
=============================================================================
