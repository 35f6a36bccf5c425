----------------------------- MODULE MCServices -----------------------------
(***************************************************************************)
(* Three groups of services around the planning pipeline that do not       *)
(* interact: vehicles that plan jointly, vehicles that fly their plans,    *)
(* and batches of plans.  In each behaviour one of them is at work, in one *)
(* of its settings.                                                        *)
(***************************************************************************)
EXTENDS AssignmentCoordination, MissionExecution, BatchSummary

CONSTANTS v1, v2, v3, b1, b2, b3

----------------------------------------------------------------------------
(* Joint planning: request 2 is for one vehicle only, 0 has the identifier *)
(* of a blank request, and 1 may come again to a vehicle that flies on.    *)
Lists == (0 :> {v1, v2}) @@ (1 :> {v1, v2}) @@ (2 :> {v1})
Joint(requests, vehicles, stateFirst, positions, timesOut, mishaps) ==
    [requests |-> requests, vehicles |-> vehicles, stateFirst |-> stateFirst,
     positions |-> positions, timesOut |-> timesOut, lossy |-> mishaps, foreign |-> mishaps,
     repeats |-> {}]
ComesAgain(setting) == [setting EXCEPT !.repeats = {v1} \X setting.requests]
NoJoint == Joint({}, {}, TRUE, 1, FALSE, FALSE)
JointCases ==
    {NoJoint,
     Joint({1, 2}, {v1, v2}, TRUE, 1, TRUE, FALSE), Joint({1}, {v1, v2}, FALSE, 2, TRUE, TRUE),
     Joint({0}, {v1, v2}, TRUE, 2, TRUE, FALSE),
     ComesAgain(Joint({1}, {v1, v2}, TRUE, 2, TRUE, FALSE)), Joint({1}, {v1, v2, v3}, TRUE, 1, FALSE, FALSE)}

----------------------------------------------------------------------------
(* Missions: waypoints m .. n, the last followed by itself, with the task  *)
(* that task gives for some of them.                                       *)
W(n, tasks, next) == [number |-> n, tasks |-> tasks, next |-> next]
Line(m, n, task) ==
    [i \in 1 .. n - m + 1 |->
        LET k == m + i - 1
        IN  W(k, IF k \in DOMAIN task THEN <<task[k]>> ELSE <<>>, IF k = n THEN n ELSE k + 1)]
ForEach(plan1, plan2) == (v1 :> plan1) @@ (v2 :> plan2) @@ (v3 :> <<>>)
Mission(vehicles, plans, serve, overlap, renumbered) ==
    [vehicles |-> vehicles, plans |-> plans, serve |-> serve, overlap |-> overlap,
     renumbered |-> renumbered]
NoMission == Mission({}, <<>>, 1, 2, FALSE)

(* Two segments or three; a task at the seam, one after another.           *)
Long == Line(1, 9, (2 :> 1) @@ (3 :> 1) @@ (5 :> 2) @@ (8 :> 3))
TwoSegments == Mission({v1}, <<ForEach(Long, <<>>)>>, 6, 3, FALSE)
ThreeSegments == Mission({v1}, <<ForEach(Long, <<>>)>>, 5, 2, FALSE)
TooShort == Mission({v1}, <<ForEach(Long, <<>>)>>, 4, 3, FALSE)

(* A new plan on the way, with numbers of its own.                         *)
Replanned == Mission({v1}, <<ForEach(Line(1, 6, 3 :> 2), <<>>),
                             ForEach(Line(8, 10, 9 :> 1), <<>>)>>, 5, 2, FALSE)
(* Waypoints numbered by task, 3 for task 1; the first vehicle begins task *)
(* 1 again, and the plan of the second ends without a loop.                *)
ByTask == Mission({v1, v2}, <<ForEach(<<W(32, <<1>>, 33), W(33, <<1>>, 31), W(31, <<1>>, 21),
                                        W(21, <<2>>, 22)>>,
                                      <<W(31, <<1>>, 31)>>)>>, 8, 3, FALSE)
(* A task that is done with the first waypoint.                            *)
AtOnce == Mission({v1}, <<ForEach(<<W(1, <<1>>, 2), W(2, <<>>, 2)>>, <<>>)>>, 8, 3, FALSE)
MissionCases == {NoMission, TwoSegments, ThreeSegments, TooShort, Replanned, ByTask, AtOnce}

(* A new plan on the way, numbered from 1 as every plan.                   *)
Renumbered == Mission({v1}, <<ForEach(Line(1, 6, 3 :> 2), <<>>),
                              ForEach(Line(1, 6, 5 :> 1), <<>>)>>, 5, 2, TRUE)
RenumberedCases == {Renumbered}

----------------------------------------------------------------------------
(* Batches: with relationships, without, and without a vehicle.  There is  *)
(* no plan, or one that ends on its task, goes on to a second task with or *)
(* without a waypoint between, or has no waypoint on the way to the first. *)
ListOfBatch == (b1 :> {1, 2}) @@ (b2 :> {2, 3}) @@ (b3 :> {1})
VehiclesOfBatch == (b1 :> {v1}) @@ (b2 :> {v1, v2}) @@ (b3 :> {})
Routes == (<<1>> :> {<<>>}) @@ (<<2>> :> {<<0, 2>>, <<0, 2, 2>>}) @@ (<<3>> :> {<<>>, <<3, 0>>})
          @@ (<<1, 2>> :> {<<>>, <<1, 2, 0>>, <<1, 0, 2, 0>>})
          @@ (<<2, 1>> :> {<<>>, <<0, 2, 0, 1, 1>>})
NoBatch == [batches |-> {}, foreign |-> FALSE]
BatchCases == {NoBatch} \cup [batches : {{b1, b2, b3}}, foreign : BOOLEAN]

NoMissionCase == {NoMission}
NoJointCase == {NoJoint}
NoBatchCase == {NoBatch}

----------------------------------------------------------------------------
vars == <<coordinationVars, missionVars, batchVars>>
OneAtWork == \/ joint # NoJoint /\ mission = NoMission /\ batch = NoBatch
             \/ joint = NoJoint /\ mission # NoMission /\ batch = NoBatch
             \/ joint = NoJoint /\ mission = NoMission /\ batch # NoBatch
Init == CoordinationInit /\ MissionInit /\ BatchInit /\ OneAtWork
Next == \/ CoordinationNext /\ UNCHANGED <<missionVars, batchVars>>
        \/ MissionNext /\ UNCHANGED <<coordinationVars, batchVars>>
        \/ BatchNext /\ UNCHANGED <<coordinationVars, missionVars>>
Work == \/ CoordinationWork /\ UNCHANGED <<missionVars, batchVars>>
        \/ MissionWork /\ UNCHANGED <<coordinationVars, batchVars>>
        \/ Plan /\ UNCHANGED <<coordinationVars, missionVars>>
Spec == Init /\ [][Next]_vars
FairSpec == Spec /\ WF_vars(Work)
=============================================================================
