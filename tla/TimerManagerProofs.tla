------------------------- MODULE TimerManagerProofs -------------------------
(***************************************************************************)
(* Proofs about the TimerManager, for any number of timers, any delays and *)
(* periods and any bound on lateness: its state is well typed; as long as  *)
(* no other thread starts a timer that is in its callback, a timer has one *)
(* place and no reference outlives it; and if deadlines do not coincide    *)
(* either, the manager implements TimerService.                            *)
(***************************************************************************)
EXTENDS MCTimerManager, TLAPS

(***************************************************************************)
(* One place per timer is not inductive: that a timer which is started is  *)
(* not in its callback follows from the mark executing, and the mark says  *)
(* so only if it is set for the timer the worker serves and no other.  A   *)
(* queued timer has no request to be disabled or destroyed left over,      *)
(* which its next callback would take for a new one.                       *)
(***************************************************************************)
WorkerServes ==
    /\ \A t \in Timer : executing[t] <=> worker.timer = t
    /\ worker.timer # NoTimer <=> worker.pc \in {"callback", "returned"}
QueuedAfresh == \A t \in Timer : queue[t] > 0 => ~disabled[t] /\ ~toDestroy[t]
IInv == /\ TypeOK
        /\ WorkerServes
        /\ OnePlacePerTimer
        /\ NoDanglingReference
        /\ QueuedAfresh

(***************************************************************************)
(* Type correctness, whoever starts timers.                                *)
(***************************************************************************)
LEMMA TypeInit == Init => TypeOK
<1> SUFFICES ASSUME Init PROVE TypeOK
    OBVIOUS
<1>1. Past \in Int
    BY TimerAssumption DEF Past
<1>2. left \in [Timer -> Int]
    BY <1>1 DEF Init
<1>3. worker \in [pc : {"managing", "callback", "returned", "stopped"},
                 timer : Timer \cup {NoTimer}]
    BY DEF Init, Idle
<1> QED BY <1>2, <1>3 DEF Init, TypeOK

LEMMA EnqueueTyped ==
    ASSUME TypeOK, NEW t \in Timer, NEW delay \in Delay, NEW p \in {0} \cup Period,
           NEW q \in [Timer -> Nat], Enqueue(t, delay, p, q),
           UNCHANGED <<status, worker, holder, finished>>
    PROVE  TypeOK'
BY TimerAssumption DEF TypeOK, Enqueue

LEMMA StopTyped ==
    ASSUME TypeOK, NEW S \in SUBSET Timer, NEW isDestroy \in BOOLEAN, Stop(S, isDestroy)
    PROVE  /\ disabled' \in [Timer -> BOOLEAN] /\ toDestroy' \in [Timer -> BOOLEAN]
           /\ queue' \in [Timer -> Nat]
           /\ status' \in [Timer -> {"unused", "live", "destroyed"}]
BY DEF TypeOK, Stop, Idlers

LEMMA TypeStep == TypeOK /\ [Next]_vars => TypeOK'
<1> SUFFICES ASSUME TypeOK, [Next]_vars PROVE TypeOK'
    OBVIOUS
<1>1. ASSUME NEW t \in Timer, Create(t) PROVE TypeOK'
    BY <1>1 DEF TypeOK, Create, flags
<1>2. ASSUME NEW t \in Timer, NEW d \in Delay, NEW p \in {0} \cup Period, StartTimer(t, d, p)
      PROVE  TypeOK'
    <2>1. \A u : WithoutKey(u) \in [Timer -> Nat]
        BY DEF TypeOK, WithoutKey
    <2>2. CASE Enqueue(t, d, p, queue)
        BY <1>2, <2>2, EnqueueTyped DEF TypeOK, StartTimer
    <2>3. ASSUME NEW u \in Found(t), Enqueue(t, d, p, WithoutKey(u)) PROVE TypeOK'
        BY <1>2, <2>1, <2>3, EnqueueTyped DEF StartTimer
    <2> QED BY <1>2, <2>2, <2>3 DEF StartTimer
<1>3. ASSUME NEW t \in Timer, NEW isWait \in BOOLEAN, DisableTimer(t, isWait) PROVE TypeOK'
    BY <1>3, StopTyped DEF TypeOK, DisableTimer
<1>4. ASSUME NEW t \in Timer, NEW isWait \in BOOLEAN, DestroyTimer(t, isWait) PROVE TypeOK'
    BY <1>4, StopTyped DEF TypeOK, DestroyTimer
<1>5. ASSUME NEW S \in SUBSET Timer, NEW isWait \in BOOLEAN, DestroyTimers(S, isWait)
      PROVE  TypeOK'
    BY <1>5, StopTyped DEF TypeOK, DestroyTimers
<1>6. CASE WaitTimesOut
    BY <1>6 DEF TypeOK, WaitTimesOut, flags
<1>7. CASE Finish
    BY <1>7 DEF TypeOK, Finish, flags
<1>8. ASSUME NEW t \in Timer, BeginCallback(t) PROVE TypeOK'
    BY <1>8 DEF TypeOK, BeginCallback, First
<1>9. CASE HandlerReturns
    BY <1>9 DEF TypeOK, HandlerReturns, flags
<1>10. CASE EndCallback
    <2>1. PICK t \in Timer \cup {NoTimer} : t = worker.timer
        BY DEF TypeOK
    <2>2. {0} \cup Period \subseteq Int
        BY TimerAssumption
    <2>3. /\ left' = left \/ left' = [left EXCEPT ![t] = @ + period[t]]
          /\ queue' = queue \/ queue' = [queue EXCEPT ![t] = @ + 1]
        BY <1>10, <2>1 DEF EndCallback
    <2>4. t \in Timer => left[t] + period[t] \in Int /\ queue[t] + 1 \in Nat
        BY <2>2 DEF TypeOK
    <2>5. left' \in [Timer -> Int] /\ queue' \in [Timer -> Nat]
        BY <2>3, <2>4 DEF TypeOK
    <2>6. /\ status' \in [Timer -> {"unused", "live", "destroyed"}]
          /\ executing' \in [Timer -> BOOLEAN]
        BY <1>10 DEF TypeOK, EndCallback
    <2>7. disabled' \in [Timer -> BOOLEAN]
        BY <1>10 DEF TypeOK, EndCallback
    <2>8. worker' \in [pc : {"managing", "callback", "returned", "stopped"},
                      timer : Timer \cup {NoTimer}]
        BY <1>10 DEF EndCallback, Idle
    <2> QED BY <1>10, <2>5, <2>6, <2>7, <2>8 DEF TypeOK, EndCallback
<1>11. CASE WorkerStops
    BY <1>11 DEF TypeOK, WorkerStops, flags
<1>12. CASE Tick
    BY <1>12, TimerAssumption DEF TypeOK, Tick, Past, flags
<1>13. CASE UNCHANGED vars
    BY <1>13 DEF TypeOK, vars
<1> QED
    BY <1>1, <1>2, <1>3, <1>4, <1>5, <1>6, <1>7, <1>8, <1>9, <1>10, <1>11, <1>12, <1>13
    DEF Next, Call, Work

(***************************************************************************)
(* The state of the manager is well typed.                                 *)
(***************************************************************************)
THEOREM TypeCorrect == Spec => []TypeOK
BY TypeInit, TypeStep, PTL DEF Spec

(***************************************************************************)
(* What stopping and starting timers leaves of the invariant.              *)
(***************************************************************************)
LEMMA StopKeeps ==
    ASSUME IInv, NEW S \in SUBSET Timer, NEW isDestroy \in BOOLEAN, Stop(S, isDestroy),
           \A t \in S : status[t] = "live",
           UNCHANGED <<executing, worker>>
    PROVE  WorkerServes' /\ OnePlacePerTimer' /\ NoDanglingReference' /\ QueuedAfresh'
<1>1. \A t \in Timer : /\ queue[t] \in Nat /\ queue'[t] \in Nat
                       /\ queue'[t] > 0 => queue'[t] = queue[t]
                       /\ t \in S => queue'[t] = 0
    BY DEF Stop, Idlers, SameKey, IInv, TypeOK, OnePlacePerTimer
<1>2. WorkerServes' /\ OnePlacePerTimer'
    BY <1>1 DEF IInv, TypeOK, WorkerServes, OnePlacePerTimer
<1>3. \A t \in Timer : status'[t] = status[t] \/ (t \in S /\ ~executing[t])
    BY DEF Stop, Idlers, IInv, TypeOK
<1>4. NoDanglingReference'
    BY <1>1, <1>3 DEF IInv, TypeOK, WorkerServes, NoDanglingReference
<1>5. \A t \in Timer \ S : disabled'[t] = disabled[t] /\ toDestroy'[t] = toDestroy[t]
    BY DEF Stop, IInv, TypeOK
<1>6. QueuedAfresh'
    BY <1>1, <1>5 DEF IInv, TypeOK, QueuedAfresh
<1> QED BY <1>2, <1>4, <1>6

LEMMA EnqueueKeeps ==
    ASSUME IInv, NEW t \in Timer, NEW delay \in Delay, NEW p \in {0} \cup Period,
           NEW q \in [Timer -> Nat], Enqueue(t, delay, p, q),
           q[t] = 0, \A u \in Timer : q[u] > 0 => q[u] = queue[u],
           worker.timer # t, status[t] = "live",
           UNCHANGED <<status, worker>>
    PROVE  WorkerServes' /\ OnePlacePerTimer' /\ NoDanglingReference' /\ QueuedAfresh'
<1>1. \A u \in Timer : executing'[u] = executing[u]
    BY DEF Enqueue, IInv, TypeOK, WorkerServes
<1>2. \A u \in Timer : IF u = t THEN queue'[u] = 1 /\ ~executing[u]
                       ELSE queue'[u] = 0 \/ queue'[u] = queue[u]
    BY DEF Enqueue, IInv, TypeOK, WorkerServes
<1>3. WorkerServes' /\ OnePlacePerTimer'
    BY <1>1, <1>2 DEF IInv, TypeOK, WorkerServes, OnePlacePerTimer
<1>4. NoDanglingReference'
    BY <1>2 DEF IInv, TypeOK, NoDanglingReference
<1>5. QueuedAfresh'
    BY <1>2 DEF Enqueue, IInv, TypeOK, QueuedAfresh
<1> QED BY <1>3, <1>4, <1>5

LEMMA SameState ==
    ASSUME IInv, UNCHANGED <<status, executing, disabled, toDestroy, queue, worker>>
    PROVE  WorkerServes' /\ OnePlacePerTimer' /\ NoDanglingReference' /\ QueuedAfresh'
<1>1. WorkerServes' /\ NoDanglingReference' /\ QueuedAfresh'
    BY DEF IInv, WorkerServes, NoDanglingReference, QueuedAfresh
<1>2. OnePlacePerTimer'
    BY DEF IInv, OnePlacePerTimer
<1> QED BY <1>1, <1>2

\* Starting a timer removes whatever find returned, and with it the timer itself.
LEMMA StartIsEnqueue ==
    ASSUME TypeOK, NEW t \in Timer, NEW d \in Delay, NEW p \in {0} \cup Period,
           StartTimer(t, d, p)
    PROVE  \E q \in [Timer -> Nat] :
              /\ Enqueue(t, d, p, q) /\ q[t] = 0
              /\ \A u \in Timer : q[u] = queue[u] \/ (q[u] = 0 /\ SameKey(t, u))
<1>1. CASE Found(t) = {} /\ Enqueue(t, d, p, queue)
    <2>1. queue[t] = 0
        BY <1>1 DEF Found, SameKey, TypeOK
    <2> QED BY <1>1, <2>1 DEF TypeOK
<1>2. ASSUME NEW u \in Found(t), Enqueue(t, d, p, WithoutKey(u))
      PROVE  \E q \in [Timer -> Nat] :
                /\ Enqueue(t, d, p, q) /\ q[t] = 0
                /\ \A x \in Timer : q[x] = queue[x] \/ (q[x] = 0 /\ SameKey(t, x))
    <2>1. WithoutKey(u) \in [Timer -> Nat]
        BY DEF TypeOK, WithoutKey
    <2>2. WithoutKey(u)[t] = 0
        BY DEF Found, SameKey, WithoutKey
    <2>3. \A x \in Timer : WithoutKey(u)[x] = queue[x] \/ (WithoutKey(u)[x] = 0 /\ SameKey(t, x))
        BY DEF Found, SameKey, WithoutKey
    <2> QED BY <1>2, <2>1, <2>2, <2>3
<1> QED BY <1>1, <1>2 DEF StartTimer

LEMMA InductiveInit == Init => IInv
<1>1. Init => WorkerServes /\ OnePlacePerTimer /\ NoDanglingReference /\ QueuedAfresh
    BY TimerAssumption
    DEF Init, Idle, WorkerServes, OnePlacePerTimer, NoDanglingReference, QueuedAfresh
<1> QED BY <1>1, TypeInit DEF IInv

(***************************************************************************)
(* The step, one action after the other.                                   *)
(***************************************************************************)
LEMMA InductiveStep == ~RestartInCallback /\ IInv /\ [Next]_vars => IInv'
<1> SUFFICES ASSUME ~RestartInCallback, IInv, [Next]_vars PROVE IInv'
    OBVIOUS
<1> DEFINE Rest == WorkerServes /\ OnePlacePerTimer /\ NoDanglingReference /\ QueuedAfresh
<1>0. TypeOK /\ TypeOK'
    BY TypeStep DEF IInv
<1>1. ASSUME NEW t \in Timer, Create(t) PROVE Rest'
    BY <1>1, <1>0 DEF IInv, TypeOK, Create, flags, WorkerServes, OnePlacePerTimer,
                      NoDanglingReference, QueuedAfresh
<1>2. ASSUME NEW t \in Timer, NEW d \in Delay, NEW p \in {0} \cup Period, StartTimer(t, d, p)
      PROVE  Rest'
    <2>1. PICK q \in [Timer -> Nat] :
                /\ Enqueue(t, d, p, q) /\ q[t] = 0
                /\ \A u \in Timer : q[u] = queue[u] \/ (q[u] = 0 /\ SameKey(t, u))
        BY <1>0, <1>2, StartIsEnqueue
    <2>2. \A u \in Timer : q[u] > 0 => q[u] = queue[u]
        BY <2>1
    <2>3. worker.timer # t /\ status[t] = "live" /\ UNCHANGED <<status, worker>>
        BY <1>2 DEF StartTimer, MayStart
    <2> QED BY <2>1, <2>2, <2>3, EnqueueKeeps
<1>3. ASSUME NEW t \in Timer, NEW isWait \in BOOLEAN, DisableTimer(t, isWait) PROVE Rest'
    <2>1. {t} \in SUBSET Timer /\ \A u \in {t} : status[u] = "live"
        BY <1>3 DEF DisableTimer
    <2>2. Stop({t}, FALSE) /\ UNCHANGED <<executing, worker>>
        BY <1>3 DEF DisableTimer
    <2> QED BY <2>1, <2>2, StopKeeps
<1>4. ASSUME NEW t \in Timer, NEW isWait \in BOOLEAN, DestroyTimer(t, isWait) PROVE Rest'
    <2>1. {t} \in SUBSET Timer /\ \A u \in {t} : status[u] = "live"
        BY <1>4 DEF DestroyTimer
    <2>2. Stop({t}, TRUE) /\ UNCHANGED <<executing, worker>>
        BY <1>4 DEF DestroyTimer
    <2> QED BY <2>1, <2>2, StopKeeps
<1>5. ASSUME NEW S \in SUBSET Timer, NEW isWait \in BOOLEAN, DestroyTimers(S, isWait)
      PROVE  Rest'
    BY <1>5, StopKeeps DEF DestroyTimers
<1>6. ASSUME WaitTimesOut PROVE Rest'
    BY <1>6, SameState DEF WaitTimesOut, flags
<1>7. ASSUME Finish PROVE Rest'
    BY <1>7, SameState DEF Finish, flags
<1>8. ASSUME NEW t \in Timer, BeginCallback(t) PROVE Rest'
    <2>1. worker'.timer = t /\ worker'.pc = "callback" /\ worker.timer = NoTimer
        BY <1>8, TimerAssumption DEF BeginCallback, IInv, WorkerServes
    <2>2. \A u \in Timer : executing'[u] <=> u = t
        BY <1>8, <2>1, <1>0, TimerAssumption DEF BeginCallback, IInv, TypeOK, WorkerServes
    <2>3. queue'[t] = 0 /\ \A u \in Timer \ {t} : queue'[u] = queue[u]
        BY <1>8, <1>0 DEF BeginCallback, First, IInv, TypeOK, OnePlacePerTimer
    <2>4. WorkerServes' /\ OnePlacePerTimer'
        BY <2>1, <2>2, <2>3, <1>0, TimerAssumption DEF IInv, TypeOK, WorkerServes, OnePlacePerTimer
    <2>5. NoDanglingReference' /\ QueuedAfresh'
        BY <1>8, <2>1, <2>3, <1>0 DEF BeginCallback, IInv, TypeOK, NoDanglingReference, QueuedAfresh
    <2> QED BY <2>4, <2>5
<1>9. ASSUME HandlerReturns PROVE Rest'
    BY <1>9, <1>0 DEF IInv, TypeOK, HandlerReturns, flags, WorkerServes, OnePlacePerTimer,
                      NoDanglingReference, QueuedAfresh
<1>10. ASSUME EndCallback PROVE Rest'
    <2>1. PICK t \in Timer : /\ t = worker.timer /\ executing[t]
                            /\ status[t] = "live" /\ queue[t] = 0
        BY <1>10, <1>0 DEF EndCallback, IInv, TypeOK, WorkerServes, OnePlacePerTimer
    <2>2. worker'.timer = NoTimer /\ worker'.pc \in {"stopped", "managing"}
        BY <1>10 DEF EndCallback, Idle
    <2>3. \A u \in Timer : ~executing'[u]
        BY <1>10, <1>0 DEF EndCallback, IInv, TypeOK, WorkerServes
    <2>4. /\ queue'[t] = 0 \/ (queue'[t] = 1 /\ Repeats(t) /\ ~finished)
          /\ \A u \in Timer \ {t} : queue'[u] = queue[u]
        BY <1>10, <1>0, <2>1 DEF EndCallback, IInv, TypeOK
    <2>5. WorkerServes' /\ OnePlacePerTimer'
        BY <2>2, <2>3, <2>4, <1>0, TimerAssumption
        DEF IInv, TypeOK, WorkerServes, OnePlacePerTimer
    <2>6. \A u \in Timer : status'[u] = status[u] \/ (u = t /\ toDestroy[t])
        BY <1>10, <1>0, <2>1 DEF EndCallback, TypeOK
    <2>7. NoDanglingReference'
        BY <2>1, <2>2, <2>4, <2>6, TimerAssumption DEF IInv, NoDanglingReference, Repeats
    <2>8. /\ toDestroy' = toDestroy
          /\ \A u \in Timer : u # t \/ period[t] > 0 => disabled'[u] = disabled[u]
        BY <1>10, <1>0, <2>1 DEF EndCallback, TypeOK
    <2>9. QueuedAfresh'
        BY <2>1, <2>4, <2>8, <1>0 DEF IInv, QueuedAfresh, Repeats, TypeOK
    <2> QED BY <2>5, <2>7, <2>9
<1>11. ASSUME WorkerStops PROVE Rest'
    BY <1>11, <1>0 DEF IInv, TypeOK, WorkerStops, flags, WorkerServes, OnePlacePerTimer,
                       NoDanglingReference, QueuedAfresh
<1>12. ASSUME Tick PROVE Rest'
    BY <1>12, SameState DEF Tick, flags
<1>13. ASSUME UNCHANGED vars PROVE Rest'
    BY <1>13, SameState DEF vars
<1> HIDE DEF Rest
<1>14. Rest'
    BY <1>1, <1>2, <1>3, <1>4, <1>5, <1>6, <1>7, <1>8, <1>9, <1>10, <1>11, <1>12, <1>13
    DEF Next, Call, Work
<1> QED BY <1>0, <1>14 DEF IInv, Rest

(***************************************************************************)
(* A timer is in one place, in the queue or with the worker, if no thread  *)
(* starts it while its callback runs.                                      *)
(***************************************************************************)
THEOREM OnePlace == ~RestartInCallback /\ Spec => []OnePlacePerTimer
<1>1. IInv => OnePlacePerTimer
    BY DEF IInv
<1>2. CASE RestartInCallback
    BY <1>2
<1>3. CASE ~RestartInCallback
    <2>1. IInv /\ [Next]_vars => IInv'
        BY <1>3, InductiveStep
    <2> QED BY <1>1, <2>1, InductiveInit, PTL DEF Spec
<1> QED BY <1>2, <1>3

(***************************************************************************)
(* Under the same premise neither the queue nor the worker refers to a     *)
(* timer that was destroyed.                                               *)
(***************************************************************************)
THEOREM NothingDangles == ~RestartInCallback /\ Spec => []NoDanglingReference
<1>1. IInv => NoDanglingReference
    BY DEF IInv
<1>2. CASE RestartInCallback
    BY <1>2
<1>3. CASE ~RestartInCallback
    <2>1. IInv /\ [Next]_vars => IInv'
        BY <1>3, InductiveStep
    <2> QED BY <1>1, <2>1, InductiveInit, PTL DEF Spec
<1> QED BY <1>2, <1>3

(***************************************************************************)
(* The refinement, for deadlines that do not coincide: then find meets the *)
(* timer it looks for and no other.  First, how a timer is armed.          *)
(***************************************************************************)
Armed == [t \in Timer |-> ArmedAs(t)]
Condemned == {t \in Live : executing[t] /\ toDestroy[t]}

LEMMA OwnKey == ~Coincide => \A t, u \in Timer : SameKey(t, u) <=> t = u
BY DEF SameKey

LEMMA ArmedArming == Armed \in [Timer -> {"off", "once", "every"}]
BY DEF Armed, ArmedAs

\* What stopping timers is in terms of the promise.
LEMMA StopRefines ==
    ASSUME ~Coincide, IInv, NEW S \in SUBSET Timer, NEW isDestroy \in BOOLEAN,
           Stop(S, isDestroy), \A t \in S : status[t] = "live",
           UNCHANGED <<period, executing, worker, finished>>
    PROVE  /\ Armed' = [t \in Timer |-> IF t \in S THEN "off" ELSE Armed[t]]
           /\ Live' = IF isDestroy THEN Live \ (S \ {worker.timer}) ELSE Live
           /\ Condemned' = IF isDestroy THEN Condemned \cup (S \cap {worker.timer}) ELSE Condemned
<1>1. \A t \in Timer : executing[t] <=> worker.timer = t
    BY DEF IInv, WorkerServes
<1>2. \A t \in Timer : queue'[t] = IF t \in S /\ ~executing[t] THEN 0 ELSE queue[t]
    BY OwnKey DEF Stop, Idlers, IInv, TypeOK
<1>3. \A t \in Timer : executing[t] => queue[t] = 0
    BY DEF IInv, TypeOK, OnePlacePerTimer
<1>4. \A t \in Timer : /\ disabled'[t] <=> disabled[t] \/ (t \in S /\ executing[t])
                       /\ toDestroy'[t] <=> toDestroy[t] \/ (isDestroy /\ t \in S /\ executing[t])
    BY DEF Stop
<1>5. ASSUME NEW t \in Timer
      PROVE  ArmedAs(t)' = IF t \in S THEN "off" ELSE ArmedAs(t)
    <2>1. WillRequeue(t)' <=> WillRequeue(t) /\ t \notin S
        BY <1>4 DEF WillRequeue
    <2>2. queue'[t] > 0 <=> queue[t] > 0 /\ t \notin S
        BY <1>2, <1>3 DEF IInv, TypeOK
    <2> QED BY <2>1, <2>2 DEF ArmedAs
<1>6. Armed' = [t \in Timer |-> IF t \in S THEN "off" ELSE Armed[t]]
    BY <1>5 DEF Armed
<1>7. \A t \in Timer : status'[t] = IF isDestroy /\ t \in S /\ ~executing[t] THEN "destroyed" ELSE status[t]
    BY DEF Stop, Idlers
<1>8. Live' = IF isDestroy THEN Live \ (S \ {worker.timer}) ELSE Live
    BY <1>1, <1>7 DEF Live
<1>9. Condemned' = IF isDestroy THEN Condemned \cup (S \cap {worker.timer}) ELSE Condemned
    BY <1>1, <1>4, <1>7 DEF Condemned, Live
<1> QED BY <1>6, <1>8, <1>9

LEMMA RefinesInit == Init => Promise!Init
<1> SUFFICES ASSUME Init PROVE Promise!Init
    OBVIOUS
<1>1. Live = {}
    BY DEF Init, Live
<1>2. \A t \in Timer : ArmedAs(t) = "off"
    BY DEF Init, ArmedAs, WillRequeue
<1>3. worker.timer = NoTimer
    BY DEF Init, Idle
<1> QED BY <1>1, <1>2, <1>3 DEF Init, Promise!Init

LEMMA RefinesStep ==
    ~RestartInCallback /\ ~Coincide /\ IInv /\ [Next]_vars => [Promise!Next]_(Promise!vars)
<1> SUFFICES ASSUME ~RestartInCallback, ~Coincide, IInv, [Next]_vars
             PROVE  Promise!Next \/ UNCHANGED Promise!vars
    OBVIOUS
<1>0. /\ \A t \in Timer : executing[t] <=> worker.timer = t
      /\ \A t \in Timer : queue[t] \in Nat /\ (executing[t] => queue[t] = 0)
      /\ \A t \in Timer : queue[t] > 0 => ~executing[t]
      /\ \A t \in Timer : queue[t] > 0 \/ executing[t] => status[t] = "live"
    BY DEF IInv, TypeOK, WorkerServes, OnePlacePerTimer, NoDanglingReference
<1>1. ASSUME NEW t \in Timer, Create(t) PROVE Promise!Create(t)
    <2>1. ArmedAs(t) = "off" /\ t \notin Live /\ worker.timer # t
        BY <1>0, <1>1 DEF Create, ArmedAs, WillRequeue, Live
    <2>2. Live' = Live \cup {t} /\ Condemned' = Condemned
        BY <1>0, <1>1 DEF Create, Live, Condemned, flags, IInv, TypeOK
    <2>3. Armed' = Armed
        BY <1>1 DEF Create, Armed, ArmedAs, WillRequeue, flags
    <2> QED BY <1>1, <2>1, <2>2, <2>3 DEF Create, Promise!Create, Armed, Condemned
<1>2. ASSUME NEW t \in Timer, NEW d \in Delay, NEW p \in {0} \cup Period, StartTimer(t, d, p)
      PROVE  \E how \in {"off", "once", "every"} : Promise!Start(t, how)
    <2> DEFINE how == IF p > 0 THEN "every" ELSE "once"
    <2>1. PICK q \in [Timer -> Nat] :
                /\ Enqueue(t, d, p, q) /\ q[t] = 0
                /\ \A u \in Timer : q[u] = queue[u] \/ (q[u] = 0 /\ SameKey(t, u))
        BY <1>2, StartIsEnqueue DEF IInv
    <2>2. \A u \in Timer : IF u = t THEN queue'[u] = 1 /\ period'[u] = p
                           ELSE queue'[u] = queue[u] /\ period'[u] = period[u]
        BY <2>1, OwnKey DEF Enqueue, IInv, TypeOK
    <2>3. ~finished /\ finished' = finished /\ status[t] = "live" /\ status' = status
          /\ worker' = worker /\ worker.timer # t
        BY <1>2 DEF StartTimer, MayStart
    <2>4. \A u \in Timer : IF u = t THEN ~executing'[u] /\ ~toDestroy'[u]
                           ELSE executing'[u] = executing[u] /\ toDestroy'[u] = toDestroy[u]
                                /\ disabled'[u] = disabled[u]
        BY <2>1 DEF Enqueue, IInv, TypeOK
    <2>5. ArmedAs(t)' = how
        BY <2>2, <2>3 DEF ArmedAs
    <2>6. \A u \in Timer \ {t} : ArmedAs(u)' = ArmedAs(u)
        BY <2>2, <2>3, <2>4 DEF ArmedAs, WillRequeue
    <2>7. Armed' = [Armed EXCEPT ![t] = how]
        BY <2>5, <2>6 DEF Armed
    <2>8. t \in Live /\ Live' = Live
        BY <2>3 DEF Live
    <2>9. Condemned' = Condemned \ {t}
        BY <2>3, <2>4 DEF Condemned, Live
    <2>10. how # "off" /\ how \in {"off", "once", "every"}
        OBVIOUS
    <2> HIDE DEF how
    <2> QED BY <2>3, <2>7, <2>8, <2>9, <2>10 DEF Promise!Start, Armed, Condemned
<1>3. ASSUME NEW t \in Timer, NEW isWait \in BOOLEAN, DisableTimer(t, isWait)
      PROVE  Promise!Disable(t)
    <2>1. {t} \in SUBSET Timer /\ \A u \in {t} : status[u] = "live"
        BY <1>3 DEF DisableTimer
    <2>2. Stop({t}, FALSE) /\ UNCHANGED <<period, executing, worker, finished>>
        BY <1>3 DEF DisableTimer
    <2>3. /\ Armed' = [u \in Timer |-> IF u \in {t} THEN "off" ELSE Armed[u]]
          /\ Live' = Live /\ Condemned' = Condemned
        BY <2>1, <2>2, StopRefines
    <2>4. Armed' = [Armed EXCEPT ![t] = "off"]
        BY <2>3 DEF Armed
    <2> QED BY <2>1, <2>2, <2>3, <2>4 DEF Promise!Disable, Armed, Condemned, Live
<1>4. ASSUME NEW S \in SUBSET Timer, \A t \in S : status[t] = "live", Stop(S, TRUE),
             UNCHANGED <<period, executing, worker, finished>>
      PROVE  Promise!Destroy(S)
    <2>1. /\ Armed' = [u \in Timer |-> IF u \in S THEN "off" ELSE Armed[u]]
          /\ Live' = Live \ (S \ {worker.timer})
          /\ Condemned' = Condemned \cup (S \cap {worker.timer})
        BY <1>4, StopRefines
    <2> QED BY <1>4, <2>1 DEF Promise!Destroy, Armed, Condemned, Live
<1>5. ASSUME NEW t \in Timer, NEW isWait \in BOOLEAN, DestroyTimer(t, isWait)
      PROVE  Promise!Destroy({t})
    BY <1>4, <1>5 DEF DestroyTimer
<1>6. ASSUME NEW S \in SUBSET Timer, NEW isWait \in BOOLEAN, DestroyTimers(S, isWait)
      PROVE  Promise!Destroy(S)
    BY <1>4, <1>6 DEF DestroyTimers
<1>7. ASSUME UNCHANGED <<status, period, executing, disabled, toDestroy, queue, finished>>,
             worker'.timer = worker.timer
      PROVE  UNCHANGED Promise!vars
    <2>1. Live' = Live /\ Armed' = Armed /\ Condemned' = Condemned
        BY <1>7 DEF Live, Armed, ArmedAs, WillRequeue, Condemned
    <2> QED BY <1>7, <2>1 DEF Promise!vars, Armed, Condemned
<1>8. ASSUME Finish PROVE Promise!Close
    <2>1. Live' = Live /\ Condemned' = Condemned /\ worker' = worker /\ finished' = TRUE
        BY <1>8 DEF Finish, Live, Condemned, flags
    <2>2. Armed' = [t \in Timer |-> "off"]
        BY <2>1 DEF Armed, ArmedAs
    <2> QED BY <2>1, <2>2 DEF Promise!Close, Armed, Condemned
<1>9. ASSUME NEW t \in Timer, BeginCallback(t) PROVE Promise!Begin(t)
    <2>1. /\ worker.timer = NoTimer /\ worker'.timer = t /\ status[t] = "live"
          /\ ~finished /\ finished' = finished /\ status' = status /\ period' = period
          /\ disabled' = disabled /\ toDestroy' = toDestroy
        BY <1>9, TimerAssumption DEF BeginCallback, IInv, WorkerServes
    <2>2. queue[t] > 0 /\ queue'[t] = 0 /\ \A u \in Timer \ {t} : queue'[u] = queue[u]
        BY <1>9 DEF BeginCallback, First, IInv, TypeOK, OnePlacePerTimer
    <2>3. executing'[t] /\ \A u \in Timer \ {t} : executing'[u] = executing[u]
        BY <1>9 DEF BeginCallback, IInv, TypeOK
    <2>4. ~disabled[t] /\ ~toDestroy[t]
        BY <2>2 DEF IInv, QueuedAfresh
    <2>5. ArmedAs(t) = (IF period[t] > 0 THEN "every" ELSE "once")
        BY <2>1, <2>2 DEF ArmedAs
    <2>6. ArmedAs(t)' = (IF period[t] > 0 THEN "every" ELSE "off")
        BY <2>1, <2>2, <2>3, <2>4 DEF ArmedAs, WillRequeue
    <2>7. \A u \in Timer \ {t} : ArmedAs(u)' = ArmedAs(u)
        BY <2>1, <2>2, <2>3 DEF ArmedAs, WillRequeue
    <2>8. Armed[t] # "off"
        BY <2>5 DEF Armed
    <2>9. Armed' = IF Armed[t] = "once" THEN [Armed EXCEPT ![t] = "off"] ELSE Armed
        BY <2>5, <2>6, <2>7 DEF Armed
    <2>10. t \in Live /\ Live' = Live
        BY <2>1 DEF Live
    <2>11. Condemned' = Condemned
        BY <2>1, <2>3, <2>4 DEF Condemned, Live
    <2> QED BY <2>1, <2>8, <2>9, <2>10, <2>11 DEF Promise!Begin, Armed, Condemned
<1>10. ASSUME EndCallback PROVE Promise!Complete
    <2>1. PICK t \in Timer : /\ t = worker.timer /\ executing[t]
                            /\ status[t] = "live" /\ queue[t] = 0
        BY <1>0, <1>10, TimerAssumption DEF EndCallback, IInv, TypeOK, WorkerServes
    <2>2. worker'.timer = NoTimer /\ worker.timer # NoTimer /\ finished' = finished
        BY <1>10, <2>1, TimerAssumption DEF EndCallback, Idle
    <2>3. \A u \in Timer : ~executing'[u]
        BY <1>0, <1>10 DEF EndCallback, IInv, TypeOK
    <2>4. \A u \in Timer \ {t} : ~executing[u]
        BY <1>0, <2>1
    <2>5. /\ queue'[t] > 0 <=> Repeats(t) /\ ~finished
          /\ \A u \in Timer \ {t} : queue'[u] = queue[u]
          /\ period' = period
        BY <1>10, <2>1 DEF EndCallback, IInv, TypeOK
    <2>6. ArmedAs(t)' = ArmedAs(t)
        BY <2>1, <2>2, <2>3, <2>5 DEF ArmedAs, WillRequeue, Repeats
    <2>7. \A u \in Timer \ {t} : ArmedAs(u)' = ArmedAs(u)
        BY <2>2, <2>3, <2>4, <2>5 DEF ArmedAs, WillRequeue
    <2>8. Armed' = Armed
        BY <2>6, <2>7 DEF Armed
    <2>9. \A u \in Timer : status'[u] = IF u = t /\ toDestroy[t] /\ ~finished
                                       THEN "destroyed" ELSE status[u]
        BY <1>10, <2>1 DEF EndCallback, IInv, TypeOK
    <2>10. Condemned = IF toDestroy[t] THEN {t} ELSE {}
        BY <2>1, <2>4 DEF Condemned, Live
    <2>11. Live' = IF finished THEN Live ELSE Live \ Condemned
        BY <2>9, <2>10 DEF Live
    <2>12. Condemned' = {}
        BY <2>3 DEF Condemned, Live
    <2> QED BY <2>2, <2>8, <2>11, <2>12 DEF Promise!Complete, Armed, Condemned
<1>11. CASE \E t \in Timer : Call(t)
    BY <1>1, <1>2, <1>3, <1>5, <1>11 DEF Call, Promise!Next, Promise!Arming
<1>12. CASE \E S \in SUBSET Timer, isWait \in BOOLEAN : DestroyTimers(S, isWait)
    BY <1>6, <1>12 DEF Promise!Next
<1>13. CASE WaitTimesOut \/ HandlerReturns \/ WorkerStops \/ Tick \/ UNCHANGED vars
    <2>1. /\ UNCHANGED <<status, period, executing, disabled, toDestroy, queue, finished>>
          /\ worker'.timer = worker.timer
        BY <1>13 DEF WaitTimesOut, HandlerReturns, WorkerStops, Tick, vars, flags, IInv, TypeOK
    <2> QED BY <1>7, <2>1
<1>14. CASE Finish
    BY <1>8, <1>14 DEF Promise!Next
<1>15. CASE \E t \in Timer : BeginCallback(t)
    BY <1>9, <1>15 DEF Promise!Next
<1>16. CASE EndCallback
    BY <1>10, <1>16 DEF Promise!Next
<1> QED
    BY <1>11, <1>12, <1>13, <1>14, <1>15, <1>16 DEF Next, Work

(***************************************************************************)
(* The manager keeps its promise, whatever timers there are, if deadlines  *)
(* do not coincide and no thread starts a timer while its callback runs.   *)
(***************************************************************************)
THEOREM Implements == ~RestartInCallback /\ ~Coincide /\ Spec => KeepsPromise
<1>1. CASE RestartInCallback \/ Coincide
    BY <1>1
<1>2. CASE ~RestartInCallback /\ ~Coincide
    <2>1. IInv /\ [Next]_vars => IInv'
        BY <1>2, InductiveStep
    <2>2. IInv /\ [Next]_vars => [Promise!Next]_(Promise!vars)
        BY <1>2, RefinesStep
    <2> QED BY <2>1, <2>2, InductiveInit, RefinesInit, PTL DEF Spec, KeepsPromise, Promise!Spec
<1> QED BY <1>1, <1>2
=============================================================================
