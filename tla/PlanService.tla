----------------------------- MODULE PlanService -----------------------------
(***************************************************************************)
(* What the PlanBuilderService and the task services owe to one request    *)
(* from its assignment on: one outcome, either a refusal or a plan.  Tasks *)
(* may be reported as impossible to implement as long as there is none;    *)
(* the plan gives each vehicle the others that it was assigned, in order.  *)
(*                                                                         *)
(* Which messages that takes, and what is planned for other requests       *)
(* meanwhile, is left out.  PlanImplementation.tla is the code, and is     *)
(* checked to implement this module for every request.                     *)
(***************************************************************************)
EXTENDS Naturals, Sequences

CONSTANTS Vehicle,
          Assignments  \* the lists of assignments the request may get

VARIABLES assigned,    \* the assignment it got: a set of at most one
          leftOut,     \* tasks reported as impossible to implement
          outcomes,    \* how many outcomes it has had
          plans        \* the plan delivered: a set of at most one

vars == <<assigned, leftOut, outcomes, plans>>

Listed(s) == {s[k].task : k \in DOMAIN s}
Due(s, v) == {k \in DOMAIN s : s[k].vehicle = v /\ s[k].task \notin leftOut'}
IsTour(tour, s, due) ==
    \E place \in [DOMAIN tour -> due] :
        /\ {place[x] : x \in DOMAIN tour} = due
        /\ \A x \in DOMAIN tour : tour[x] = s[place[x]].task
        /\ \A x, y \in DOMAIN tour : x < y => place[x] < place[y]

Init == assigned = {} /\ leftOut = {} /\ outcomes = 0 /\ plans = {}

Assign ==
    /\ assigned = {}
    /\ \E s \in Assignments : assigned' = {s}
    /\ UNCHANGED <<leftOut, outcomes, plans>>

LeaveOut(s) == \E t \in Listed(s) : leftOut' = leftOut \cup {t}
Report ==
    /\ outcomes = 0
    /\ \E s \in assigned : LeaveOut(s)
    /\ UNCHANGED <<assigned, outcomes, plans>>

Refuse ==
    /\ assigned # {} /\ leftOut = {}
    /\ outcomes = 0 /\ outcomes' = 1
    /\ UNCHANGED <<assigned, leftOut, plans>>

(* The last answer to come may be that a task is impossible.               *)
Deliver ==
    /\ outcomes = 0 /\ outcomes' = 1
    /\ \E s \in assigned :
          /\ UNCHANGED leftOut \/ LeaveOut(s)
          /\ \E p \in plans' : /\ plans' = {p}
                               /\ \A v \in Vehicle : IsTour(p[v], s, Due(s, v))
    /\ UNCHANGED assigned

Next == Assign \/ Report \/ Refuse \/ Deliver
Spec == Init /\ [][Next]_vars
=============================================================================
