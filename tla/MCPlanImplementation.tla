------------------------ MODULE MCPlanImplementation ------------------------
(***************************************************************************)
(* Two requests that have a task in common, in two settings.               *)
(***************************************************************************)
EXTENDS PlanImplementation

CONSTANTS r1, r2, r3, r4, v1, v2, t1, t2, t3, t4

Services == {"PlanBuilder", "RoutePlanner"} \cup Task
Subscriptions ==
    [s \in Services |->
        CASE s = "PlanBuilder" -> {"EntityState", "UniqueAutomationRequest",
                                   "TaskAssignmentSummary", "TaskImplementationResponse"}
          [] s = "RoutePlanner" -> {"RoutePlanRequest"}
          [] OTHER -> {"UniqueAutomationRequest", "UniqueAutomationResponse", s}]

(* Requests r1 and r2, for one vehicle and tasks without routes inside     *)
(* them, the second of which may overtake the first.                       *)
SecondByV1 == <<[vehicle |-> v1, task |-> t2]>>
Overtaking == [requests |-> {r1, r2}, vehicles |-> {v1}, tasks |-> {t1, t2}, timesOut |-> TRUE]

(* Requests r3 and r4 one after the other; the first of them names its     *)
(* vehicles.  The service of t4 does not have the configuration of v2.     *)
InTurn == [requests |-> {r3, r4}, vehicles |-> {v1, v2}, tasks |-> {t3, t4}, timesOut |-> FALSE]
BothSettings == {Overtaking, InTurn}
OnlyOvertaking == {Overtaking}

TwoPairs == (r1 :> {t1, t2}) @@ (r2 :> {t2}) @@ (r3 :> {t3, t4}) @@ (r4 :> {t4})
Named == (r1 :> {v1}) @@ (r2 :> {}) @@ (r3 :> {v1, v2}) @@ (r4 :> {})
Assigned ==
    (r1 :> {<<[vehicle |-> v1, task |-> t1]>> \o SecondByV1}) @@ (r2 :> {SecondByV1}) @@
    (r3 :> {<<[vehicle |-> v1, task |-> t3], [vehicle |-> v, task |-> t4]>> : v \in {v1, v2}}) @@
    (r4 :> {<<[vehicle |-> v1, task |-> t4]>>})
Configured == [t \in Task |-> IF t = t3 THEN {v1, v2} ELSE {v1}]
TwoOrThree == [t \in Task |-> IF t = t3 THEN {2, 3} ELSE {2}]

(* Both requests are for t2 alone, which has routes inside it.             *)
OnlyT2 == [r \in Request |-> {t2}]
OnlyT2ByV1 == [r \in Request |-> {SecondByV1}]
=============================================================================
