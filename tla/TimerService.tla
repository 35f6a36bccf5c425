---------------------------- MODULE TimerService ----------------------------
(***************************************************************************)
(* What uxas::common::TimerManager promises its callers, as the comments   *)
(* of UxAS_TimerManager.h state it: a started timer calls back once or     *)
(* periodically, a disabled one does not call back until it is started     *)
(* again, a destroyed one never does, and a timer whose callback is in     *)
(* progress is destroyed only after that callback has completed.  There is *)
(* one callback at a time: one thread serves every timer.                  *)
(*                                                                         *)
(* Time is left out: an armed timer may call back at any moment.           *)
(* TimerManager.tla is the code, and is checked to implement this module.  *)
(***************************************************************************)
CONSTANTS Timer,      \* the identifiers createTimer may return
          NoTimer     \* no timer: the worker thread is not in a callback

VARIABLES live,       \* timers created and not destroyed
          armed,      \* how each timer is armed: "off", "once" or "every"
          condemned,  \* timers to be destroyed when their callback completes
          running,    \* the timer whose callback is in progress, or NoTimer
          closed      \* the manager itself is being destroyed

vars == <<live, armed, condemned, running, closed>>

Arming == {"off", "once", "every"}

TypeOK == /\ live \subseteq Timer
          /\ armed \in [Timer -> Arming]
          /\ condemned \subseteq Timer
          /\ running \in Timer \cup {NoTimer}
          /\ closed \in BOOLEAN

Init == /\ live = {}
        /\ armed = [t \in Timer |-> "off"]
        /\ condemned = {}
        /\ running = NoTimer
        /\ closed = FALSE

(***************************************************************************)
(* createTimer: a fresh identifier.                                        *)
(***************************************************************************)
Create(t) == /\ ~closed
             /\ t \notin live
             /\ armed[t] = "off"
             /\ running # t
             /\ live' = live \cup {t}
             /\ UNCHANGED <<armed, condemned, running, closed>>

(***************************************************************************)
(* startSingleShotTimer and startPeriodicTimer: a timer that is condemned  *)
(* is reprieved, for starting it clears the request to destroy it.         *)
(***************************************************************************)
Start(t, how) == /\ ~closed
                 /\ t \in live
                 /\ how # "off"
                 /\ armed' = [armed EXCEPT ![t] = how]
                 /\ condemned' = condemned \ {t}
                 /\ UNCHANGED <<live, running, closed>>

(***************************************************************************)
(* disableTimer: no callback begins until the timer is started again.      *)
(***************************************************************************)
Disable(t) == /\ t \in live
              /\ armed' = [armed EXCEPT ![t] = "off"]
              /\ UNCHANGED <<live, condemned, running, closed>>

(***************************************************************************)
(* destroyTimer and destroyTimers: at once, or, for a timer in its         *)
(* callback, once that has completed.                                      *)
(***************************************************************************)
Destroy(S) ==
    /\ S \subseteq live
    /\ armed' = [t \in Timer |-> IF t \in S THEN "off" ELSE armed[t]]
    /\ live' = live \ (S \ {running})
    /\ condemned' = condemned \cup (S \cap {running})
    /\ UNCHANGED <<running, closed>>

(***************************************************************************)
(* The worker thread begins the callback of an armed timer, one at a time. *)
(***************************************************************************)
Begin(t) == /\ running = NoTimer
            /\ t \in live
            /\ armed[t] # "off"
            /\ armed' = IF armed[t] = "once" THEN [armed EXCEPT ![t] = "off"] ELSE armed
            /\ running' = t
            /\ UNCHANGED <<live, condemned, closed>>

Complete == /\ running # NoTimer
            /\ running' = NoTimer
            /\ live' = IF closed THEN live ELSE live \ condemned
            /\ condemned' = {}
            /\ UNCHANGED <<armed, closed>>

(***************************************************************************)
(* The manager's destructor: no callback begins any more.                  *)
(***************************************************************************)
Close == /\ closed' = TRUE
         /\ armed' = [t \in Timer |-> "off"]
         /\ UNCHANGED <<live, condemned, running>>

Next == \/ \E t \in Timer : \/ Create(t) \/ Disable(t) \/ Begin(t)
                            \/ \E how \in Arming : Start(t, how)
        \/ \E S \in SUBSET Timer : Destroy(S)
        \/ Complete
        \/ Close

Spec == Init /\ [][Next]_vars
=============================================================================
