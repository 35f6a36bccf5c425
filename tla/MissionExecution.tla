-------------------------- MODULE MissionExecution --------------------------
(***************************************************************************)
(* Vehicles that fly their plans: an AutomationResponse brings them, the   *)
(* WaypointPlanManager of each vehicle feeds them to it segment by         *)
(* segment, the vehicle reports the waypoint it is on its way to, and the  *)
(* TaskTracker follows both the plans and the reports.                     *)
(*                                                                         *)
(* Each receiver has the messages on the bus it is still to handle in an   *)
(* inbox of its own, in the order of the bus.                              *)
(*                                                                         *)
(* External: whoever publishes plans, and the vehicles, which go to the    *)
(* FirstWaypoint of a command at once and from there along it to its last  *)
(* waypoint, and report each waypoint they turn to once, and the one they  *)
(* stay on twice (bound).                                                  *)
(***************************************************************************)
EXTENDS WaypointPlanManager, TaskTracker

CONSTANT MissionSettings   \* [vehicles, plans, serve, overlap, renumbered]

(* A plan numbers its waypoints apart, and plans that are not renumbered   *)
(* do not share numbers.                                                   *)
Waypoint == [number : Nat \ {Unset}, tasks : Seq(Task), next : Nat]
MissionPlan == {p \in Seq(Waypoint) : \A i, j \in DOMAIN p : p[i].number = p[j].number => i = j}
Numbers(plan) == {plan[i].number : i \in DOMAIN plan}
ASSUME MissionAssumption ==
    \A c \in MissionSettings :
        /\ c.vehicles \subseteq Vehicle /\ c.serve \in Nat /\ c.overlap \in Nat
        /\ c.plans \in Seq([Vehicle -> MissionPlan])
        /\ ~c.renumbered =>
               \A v \in Vehicle : \A i, j \in DOMAIN c.plans :
                   i # j => Numbers(c.plans[i][v]) \cap Numbers(c.plans[j][v]) = {}

VARIABLES mission,      \* the setting of this run
          published,    \* how many of its plans have been published
          toManager, toTracker, toVehicle,   \* the inboxes
          course,       \* the command each vehicle flies, and how far it is on it
          assigned,     \* history: the plan each manager was last given
          flown,        \* history: the waypoints each vehicle has turned to, and by which plan
          commands,     \* history: the commands each vehicle was given
          overwritten   \* history: vehicles whose command came while the timer sent another

environment == <<published, course, flown, commands>>
inboxes == <<toManager, toTracker, toVehicle>>
missionVars == <<mission, planManager, tracker, inboxes, environment, assigned, overwritten>>

NoPlan == [base |-> 0, waypoints |-> <<>>]
OnGround == [base |-> 0, waypoints |-> <<>>, at |-> 0, again |-> FALSE]

ToAllManagers(m) ==
    toManager' = [v \in Vehicle |-> IF v \in mission.vehicles THEN Append(toManager[v], m)
                                    ELSE toManager[v]]

(* An AutomationResponse with a mission for every vehicle. *)
PublishPlan ==
    /\ published < Len(mission.plans)
    /\ published' = published + 1
    /\ LET m == [type |-> "AutomationResponse", plans |-> mission.plans[published + 1]]
       IN  ToAllManagers(m) /\ toTracker' = Append(toTracker, m)
    /\ UNCHANGED <<mission, planManager, tracker, toVehicle, course, flown, commands, assigned,
                   overwritten>>

(***************************************************************************)
(* processReceivedLmcpMessage of the WaypointPlanManager of vehicle v: an  *)
(* AutomationResponse, a MissionCommand of another manager, or the state   *)
(* of a vehicle.                                                           *)
(***************************************************************************)
Overwrites(v) ==
    overwritten' = IF sending[v] /\ nextMissionCommandToSend'[v] # nextMissionCommandToSend[v]
                   THEN overwritten \cup {v} ELSE overwritten
ManageResponse(v) ==
    /\ toManager[v] # <<>>
    /\ LET m == Head(toManager[v])
       IN  /\ m.type = "AutomationResponse"
           /\ ManagePlan(v, m.plans[v], mission.serve, mission.overlap)
           /\ assigned' = [assigned EXCEPT ![v] = [base |-> commandIDs[v], waypoints |-> m.plans[v]]]
    /\ Overwrites(v)
    /\ toManager' = [toManager EXCEPT ![v] = Tail(@)]
    /\ UNCHANGED <<mission, tracker, toTracker, toVehicle, environment>>
ManageState(v) ==
    /\ toManager[v] # <<>>
    /\ LET m == Head(toManager[v])
       IN  /\ m.type = "AirVehicleState"
           /\ IF m.vehicle = v THEN ManageVehicleState(v, m.waypoint) ELSE UNCHANGED planManager
    /\ Overwrites(v)
    /\ toManager' = [toManager EXCEPT ![v] = Tail(@)]
    /\ UNCHANGED <<mission, tracker, toTracker, toVehicle, environment, assigned>>

(***************************************************************************)
(* The timer of the manager of v.  Its MissionCommand goes to the vehicle  *)
(* and the tracker; the managers of the other vehicles pass it over, and a *)
(* service is not given its own messages.                                  *)
(***************************************************************************)
SendNewMission(v) ==
    /\ BeginSendingNewMission(v)
    /\ LET m == [type |-> "MissionCommand", vehicle |-> v,
                 command |-> nextMissionCommandToSend[v][1]]
       IN  /\ toVehicle' = [toVehicle EXCEPT ![v] = Append(@, m)]
           /\ toTracker' = Append(toTracker, m)
    /\ UNCHANGED <<mission, tracker, toManager, environment, assigned, overwritten>>
SentNewMission(v) ==
    /\ EndSendingNewMission(v)
    /\ UNCHANGED <<mission, tracker, inboxes, environment, assigned, overwritten>>

(* The vehicle turns to a waypoint and reports it. *)
TurnTo(v, base, w) ==
    /\ flown' = [flown EXCEPT ![v] = @ \cup {[base |-> base, waypoint |-> w.number,
                                                  tasks |-> TasksOf(w)]}]
    /\ LET m == [type |-> "AirVehicleState", vehicle |-> v, waypoint |-> w.number]
       IN  ToAllManagers(m) /\ toTracker' = Append(toTracker, m)
AcceptCommand(v) ==
    /\ toVehicle[v] # <<>>
    /\ LET c == Head(toVehicle[v]).command
           at == CHOOSE i \in DOMAIN c.waypoints : c.waypoints[i].number = c.first
       IN  /\ course' = [course EXCEPT ![v] = [base |-> c.base, waypoints |-> c.waypoints, at |-> at,
                                               again |-> TRUE]]
           /\ commands' = [commands EXCEPT ![v] = Append(@, [base |-> c.base, command |-> c.command])]
           /\ TurnTo(v, c.base, c.waypoints[at])
    /\ toVehicle' = [toVehicle EXCEPT ![v] = Tail(@)]
    /\ UNCHANGED <<mission, planManager, tracker, published, assigned, overwritten>>
Fly(v) ==
    /\ course[v].at < Len(course[v].waypoints)
    /\ course' = [course EXCEPT ![v].at = @ + 1, ![v].again = TRUE]
    /\ TurnTo(v, course[v].base, course[v].waypoints[course[v].at + 1])
    /\ UNCHANGED <<mission, planManager, tracker, toVehicle, published, commands, assigned,
                   overwritten>>
ReportAgain(v) ==
    /\ course[v].again
    /\ course[v].at = Len(course[v].waypoints)
    /\ course' = [course EXCEPT ![v].again = FALSE]
    /\ TurnTo(v, course[v].base, course[v].waypoints[course[v].at])
    /\ UNCHANGED <<mission, planManager, tracker, toVehicle, published, commands, assigned,
                   overwritten>>

(***************************************************************************)
(* processReceivedLmcpMessage of the TaskTracker.  The missions of an      *)
(* AutomationResponse are for different vehicles.                          *)
(***************************************************************************)
TrackResponse ==
    /\ toTracker # <<>>
    /\ Head(toTracker).type = "AutomationResponse"
    /\ LET plans == Head(toTracker).plans
       IN  /\ m_tasksInProgress' = [v \in Vehicle |-> {}]
           /\ m_missions' = plans
           /\ m_override' = [v \in Vehicle |-> Override(plans[v])]
    /\ toTracker' = Tail(toTracker)
    /\ UNCHANGED <<mission, planManager, m_taskEmit, m_taskWp, completed, toManager, toVehicle,
                   environment, assigned, overwritten>>
TrackCommand ==
    /\ toTracker # <<>>
    /\ LET m == Head(toTracker)
       IN  m.type = "MissionCommand" /\ TrackMission(m.vehicle, m.command.waypoints)
    /\ toTracker' = Tail(toTracker)
    /\ UNCHANGED <<mission, planManager, toManager, toVehicle, environment, assigned, overwritten>>
TrackState ==
    /\ toTracker # <<>>
    /\ LET m == Head(toTracker)
       IN  m.type = "AirVehicleState" /\ TrackVehicleState(m.vehicle, m.waypoint)
    /\ toTracker' = Tail(toTracker)
    /\ UNCHANGED <<mission, planManager, toManager, toVehicle, environment, assigned, overwritten>>

MissionInit ==
    /\ mission \in MissionSettings
    /\ published = 0
    /\ toManager = [v \in Vehicle |-> <<>>]
    /\ toTracker = <<>>
    /\ toVehicle = [v \in Vehicle |-> <<>>]
    /\ course = [v \in Vehicle |-> OnGround]
    /\ assigned = [v \in Vehicle |-> NoPlan]
    /\ flown = [v \in Vehicle |-> {}]
    /\ commands = [v \in Vehicle |-> <<>>]
    /\ overwritten = {}
    /\ ManagerInit
    /\ TrackerInit

MissionWork == \/ \E v \in Vehicle : \/ ManageResponse(v) \/ ManageState(v)
                                     \/ SendNewMission(v) \/ SentNewMission(v)
                                     \/ AcceptCommand(v) \/ Fly(v) \/ ReportAgain(v)
               \/ TrackResponse \/ TrackCommand \/ TrackState
MissionNext == PublishPlan \/ MissionWork
MissionSpec == MissionInit /\ [][MissionNext]_missionVars

-----------------------------------------------------------------------------

(***************************************************************************)
(* The segments give the plan in its order, and each begins with two or    *)
(* more of the waypoints the one before it ends with, so that there is one *)
(* on which the vehicle can be moved on.  This needs three waypoints more  *)
(* in a segment than the overlap: otherwise waypoints that a segment took  *)
(* over from the one before are not passed on to the next, and it can be   *)
(* cut off from it, or the end of the plan lost.                           *)
(***************************************************************************)
Healthy(serve, overlap) == overlap >= 2 /\ serve >= overlap + 3
SegmentsCoverPlan ==
    \A v \in Vehicle :
        LET s == m_missionSegments[v]
            plan == assigned[v].waypoints
            begins(i) == CHOOSE k \in DOMAIN plan : plan[k] = s[i].waypoints[1]
        IN  Healthy(mission.serve, mission.overlap) /\ plan # <<>> =>
                /\ s # <<>>
                /\ begins(1) = 1
                /\ Last(s[Len(s)].waypoints) = Last(plan)
                /\ \A i \in DOMAIN s :
                       s[i].waypoints = SubSeq(plan, begins(i), begins(i) + Len(s[i].waypoints) - 1)
                /\ \A i \in 1 .. Len(s) - 1 :
                       begins(i) < begins(i + 1) /\ begins(i + 1) < begins(i) + Len(s[i].waypoints) - 1

(***************************************************************************)
(* A vehicle is given the segments of a plan one after the other: "number  *)
(* of waypoints, before the last waypoint in the current segment, to start *)
(* the next segment" says WaypointPlanManagerService.h of the overlap.     *)
(***************************************************************************)
NextSegmentFollows ==
    \A v \in Vehicle : \A i \in DOMAIN commands[v] :
        LET c == commands[v][i]
        IN  \/ c.command = c.base + 1
            \/ i > 1 /\ commands[v][i - 1] = [c EXCEPT !.command = @ - 1]

(***************************************************************************)
(* However late its reports are, this holds if the numbers of its waypoints*)
(* are not those of the plan before.  PlanBuilder numbers every plan from  *)
(* 1: then a report of the old plan puts the vehicle into the middle of    *)
(* the new one.                                                            *)
(***************************************************************************)
SegmentsInTurn == ~mission.renumbered => NextSegmentFollows

(***************************************************************************)
(* A task is reported complete only by a vehicle that has turned to a      *)
(* waypoint of it.  This needs new numbers too, for the tracker takes the  *)
(* waypoint of an old plan for that of the new one; and plans in which     *)
(*  - a number that stands for a task does so in all waypoints that have   *)
(*    the number, or list it as a task, for m_taskEmit is of all vehicles; *)
(*  - the last task before a loop is not done with the first waypoint, to  *)
(*    which a vehicle is never sent: the override would report it all the  *)
(*    same.                                                                *)
(***************************************************************************)
Standing(c) ==
    LET all == UNION {ToSet(c.plans[k][v]) : k \in DOMAIN c.plans, v \in Vehicle}
    IN  \A u, w \in all : u.number >= Numbering /\ u.tasks # <<>> /\ u.number \div Numbering \in TasksOf(w)
                           => u.tasks[1] \in TasksOf(w)
DoneOnTheWay(plan) ==
    \A e \in 2 .. Len(plan) :
        LET last == LastTask(SubSeq(plan, 1, e))
        IN  plan[e].next = plan[e].number /\ last # 0 => \E i \in 2 .. e : last \in TasksOf(plan[i])
Trackable ==
    {c \in MissionSettings : /\ ~c.renumbered /\ Standing(c)
                             /\ \A k \in DOMAIN c.plans : \A v \in Vehicle : DoneOnTheWay(c.plans[k][v])}
CompleteWhenFlown ==
    mission \in Trackable =>
        \A i \in DOMAIN completed : \E f \in flown[completed[i].vehicle] : completed[i].task \in f.tasks

(***************************************************************************)
(* The plan a vehicle was last given is flown to its end, and its tasks    *)
(* are reported complete, but for one that is done with the first          *)
(* waypoint, to which a vehicle is never sent, and one that the plan ends  *)
(* in without a loop.  Except when the timer was just sending the command  *)
(* before: it then forgets this one.                                       *)
(***************************************************************************)
Open(plan) == IF Last(plan).next = Last(plan).number THEN {} ELSE ListOf(Last(plan))
Rest(plan) == IF Len(plan) > 1 THEN Tail(plan) ELSE plan
PlanIsFlown ==
    []<>(Healthy(mission.serve, mission.overlap) /\ ~mission.renumbered =>
         \A v \in Vehicle \ overwritten :
             LET rest == Rest(assigned[v].waypoints)
             IN  /\ \A i \in DOMAIN rest :
                        \E f \in flown[v] : f.base = assigned[v].base /\ f.waypoint = rest[i].number
                 /\ \A i \in DOMAIN rest : \A t \in (ListOf(rest[i]) \ Open(rest)) \cap Eligible :
                        [vehicle |-> v, task |-> t] \in ToSet(completed))
=============================================================================
