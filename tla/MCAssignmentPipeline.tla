------------------------ MODULE MCAssignmentPipeline ------------------------
(***************************************************************************)
(* Two requests that have a task in common, or one request beside a        *)
(* RouteRequest, in three settings.                                        *)
(***************************************************************************)
EXTENDS AssignmentPipeline

CONSTANTS r1, r2, r3, r4, r5, v1, v2, t1, t2, t3, t4, q1

Planners == {"AircraftPathPlanner", "GroundPathPlanner"}
Services == {"RouteAggregator", "AssignmentTree"} \cup Planners
Subscriptions ==
    [s \in Services |->
        CASE s = "RouteAggregator" -> {"EntityState", "UniqueAutomationRequest",
                                       "TaskPlanOptions", "RouteRequest", s}
          [] s = "AssignmentTree" -> Prerequisite
          [] OTHER -> {s}]
AirAndGround == (v1 :> "AircraftPathPlanner") @@ (v2 :> "GroundPathPlanner")

(* r1 and r2 are for the same vehicle; the second may be published before  *)
(* the first has its outcome.                                              *)
Overtaking == [arrivals |-> {r1, r2}, vehicles |-> {v1}, timesOut |-> TRUE]

(* r3 is for two vehicles, one of which has a PlanningState, r4 for all.   *)
InTurn == [arrivals |-> {r3, r4}, vehicles |-> {v1, v2}, timesOut |-> FALSE]

(* One RouteRequest, for all vehicles or one by name.                      *)
WithQuery == [arrivals |-> {r5, q1}, vehicles |-> {v1, v2}, timesOut |-> FALSE]
AnyQuery == {{}, {v2}}

All == {Overtaking, InTurn, WithQuery}
OnlyOvertaking == {Overtaking}

Lists ==
    (r1 :> {t1, t2}) @@ (r2 :> {t2}) @@ (r3 :> {t3, t4}) @@ (r4 :> {t4}) @@ (r5 :> {t3})
Entities ==
    (r1 :> {v1}) @@ (r2 :> {v1}) @@ (r3 :> {v1, v2}) @@ (r4 :> {}) @@ (r5 :> {v1})
Planning == [r \in Request |-> IF r = r3 THEN {v2} ELSE {}]

(* Only one vehicle is eligible, but there is an option of t4 for any.     *)
Offered ==
    [t \in Task |-> IF t = t4 THEN {[option |-> 1, eligible |-> {v2}], [option |-> 2, eligible |-> {}]}
                    ELSE {[option |-> 1, eligible |-> {v1}]}]
=============================================================================
