------------------------- MODULE PlanImplementation -------------------------
(***************************************************************************)
(* The second half of the assignment pipeline: the PlanBuilderService, the *)
(* task services and a route planner on the message bus.                   *)
(*                                                                         *)
(* The first half is AssignmentPipeline.tla; here it is the environment:   *)
(* once all tasks of a request have offered options for it, an assignment  *)
(* may be published.  The AutomationRequestValidatorService publishes a    *)
(* request again when it finds its response timer not running.             *)
(***************************************************************************)
EXTENDS PlanBuilder, TaskService, FiniteSetsExt

CONSTANTS MaySummarize,  \* the lists of assignments a request may get
          Unreachable,   \* tasks to which there may be no route
          Settings,      \* the settings there may be: the vehicles and tasks
                         \* there are, the requests that come, and whether
                         \* one may be published before the outcome of the
                         \* last (timesOut)
          MaxPublished   \* bound: how often each request is published

VARIABLES summaries,  \* the assignments published for each request
          setting     \* the one of this run

(***************************************************************************)
(* Who subscribes to what, and what an assignment is: a list of tasks of   *)
(* the request, each for one vehicle and listed once.                      *)
(***************************************************************************)
Types == {"EntityState", "UniqueAutomationRequest", "TaskAssignmentSummary",
          "RoutePlanRequest", "RoutePlanResponse", "TaskPlanOptions",
          "TaskImplementationRequest", "TaskImplementationResponse",
          "UniqueAutomationResponse", "ServiceStatus"}
ASSUME ImplementationAssumption ==
    /\ {"PlanBuilder", "RoutePlanner"} \cup Task \subseteq Service
    /\ Task \cap ({"PlanBuilder", "RoutePlanner", NoTask} \cup Types) = {}
    /\ Subscription["PlanBuilder"] = {"EntityState", "UniqueAutomationRequest",
                                      "TaskAssignmentSummary", "TaskImplementationResponse"}
    /\ Subscription["RoutePlanner"] = {"RoutePlanRequest"}
    /\ \A t \in Task : Subscription[t] = {"UniqueAutomationRequest", "UniqueAutomationResponse", t}
    /\ \A t \in Task : Lengths[t] \subseteq Nat
    /\ \A r \in Request : VehiclesOf[r] \subseteq Vehicle
    /\ \A r \in Request : \A s \in MaySummarize[r] :
          /\ s \in Seq([vehicle : Vehicle, task : TasksOf[r] \cap Task])
          /\ \A k, l \in DOMAIN s : s[k].task = s[l].task => k = l

vars == <<bus, planBuilder, tasks, summaries, setting>>

Init ==
    /\ BusInit /\ PlanBuilderInit /\ TaskServiceInit
    /\ summaries = [r \in Request |-> 0]
    /\ setting \in Settings

-----------------------------------------------------------------------------
Publish(m) == log' = Append(log, m) /\ UNCHANGED <<read, planBuilder, tasks, setting>>
About(type, r) == {i \in Published(type) : log[i].about = r}
IsPublished(r) == About("UniqueAutomationRequest", r) # {}
Refusals(r) == {i \in About("ServiceStatus", r) : log[i].task = NoTask}
Outcomes(r) == About("UniqueAutomationResponse", r) \cup Refusals(r)
HasReported(v) == \E i \in Published("EntityState") : log[i].vehicle = v

ReportState(v) ==
    /\ v \in setting.vehicles /\ ~HasReported(v)
    /\ Publish([type |-> "EntityState", vehicle |-> v])
    /\ UNCHANGED summaries

SendRequest(r) ==
    /\ r \in setting.requests
    /\ Cardinality(About("UniqueAutomationRequest", r)) < MaxPublished
    /\ Published("EntityState") # {}
    /\ setting.timesOut \/ \A x \in Request : IsPublished(x) => Outcomes(x) # {}
    /\ Publish([type |-> "UniqueAutomationRequest", about |-> r])
    /\ UNCHANGED summaries

Offers(t, r) == {i \in About("TaskPlanOptions", r) : log[i].task = t}
Summarize(r) ==
    /\ Cardinality(About("UniqueAutomationRequest", r)) > summaries[r]
    /\ \A t \in TasksOf[r] : Cardinality(Offers(t, r)) > summaries[r]
    /\ \E s \in MaySummarize[r] :
        /\ \A k \in DOMAIN s : HasReported(s[k].vehicle) \/ s[k].vehicle \in VehiclesOf[r]
        /\ Publish([type |-> "TaskAssignmentSummary", about |-> r, assignments |-> s])
    /\ summaries' = [summaries EXCEPT ![r] = @ + 1]

(***************************************************************************)
(* The route planner answers the task that asks, or nobody.                *)
(***************************************************************************)
PlanRoutes ==
    \E i \in DOMAIN log :
        /\ IsNext("RoutePlanner", i)
        /\ \/ Handled("RoutePlanner", i,
                <<[type |-> "RoutePlanResponse", to |-> log[i].task, id |-> log[i].id,
                   routes |-> log[i].routes]>>)
           \/ log[i].task \in Unreachable /\ Handled("RoutePlanner", i, <<>>)
        /\ UNCHANGED <<planBuilder, tasks, summaries, setting>>

Build == PlanBuilderStep /\ UNCHANGED <<tasks, summaries, setting>>
Implement(t) ==
    t \in setting.tasks /\ TaskServiceStep(t) /\ UNCHANGED <<planBuilder, summaries, setting>>

Next ==
    \/ \E v \in Vehicle : ReportState(v)
    \/ \E r \in Request : SendRequest(r) \/ Summarize(r)
    \/ \E t \in Task : Implement(t)
    \/ PlanRoutes \/ Build

Spec == Init /\ [][Next]_vars

(***************************************************************************)
(* The services do not all stand still while one has a message to handle   *)
(* or an assignment to make.  Each handles every message once, so that     *)
(* none is kept from its own by the others for ever.                       *)
(***************************************************************************)
Work == Build \/ PlanRoutes \/ (\E t \in Task : Implement(t)) \/ \E r \in Request : Summarize(r)
Fairness == WF_vars(Work)
FairSpec == Spec /\ Fairness

-----------------------------------------------------------------------------
(***************************************************************************)
(* Each vehicle gets the tasks it was assigned, in the order of the        *)
(* summary, without those that were reported as impossible to implement,   *)
(* even when the implementation of another request is under way: its       *)
(* answers never get into the response.                                    *)
(***************************************************************************)
Skip(r) == {log[i].task : i \in About("ServiceStatus", r)}
IsMissionOf(v, way, assignments, skip) ==
    \E place \in [DOMAIN way -> DOMAIN assignments] :
        /\ \A x, y \in DOMAIN way : x < y => place[x] < place[y]
        /\ \A x \in DOMAIN way : way[x].task = assignments[place[x]].task
        /\ {place[x] : x \in DOMAIN way} =
               {k \in DOMAIN assignments : assignments[k].vehicle = v /\ assignments[k].task \notin skip}
MissionsOfTheSummary ==
    \A r \in Request : \A i \in About("UniqueAutomationResponse", r) :
        \E j \in About("TaskAssignmentSummary", r) :
            \A v \in Vehicle :
                IsMissionOf(v, MissionOf(log[i].missions, v), log[j].assignments, Skip(r))

(***************************************************************************)
(* Each request gets what PlanService promises: one outcome, after which   *)
(* nothing more is reported of it; a refusal only before anything else;    *)
(* and a plan that has the tasks of its own summary, all of those that     *)
(* were not reported as impossible by then.                                *)
(***************************************************************************)
TourOf(way) == [x \in DOMAIN way |-> way[x].task]
PlanOf(missions) == [v \in Vehicle |-> TourOf(MissionOf(missions, v))]
AssignmentsFor(r) == {log[i].assignments : i \in About("TaskAssignmentSummary", r)}
PlansFor(r) == {PlanOf(log[i].missions) : i \in About("UniqueAutomationResponse", r)}
Promise(r) == INSTANCE PlanService WITH
    Assignments <- MaySummarize[r], assigned <- AssignmentsFor(r),
    leftOut <- Skip(r) \cap Task, outcomes <- Cardinality(Outcomes(r)),
    plans <- PlansFor(r)
DeliversPlans ==
    /\ \A r \in Request : Promise(r)!Init
    /\ [][\A r \in Request : [Promise(r)!Next]_(Promise(r)!vars)]_vars

(***************************************************************************)
(* The waypoints of a mission are numbered from 1 without gaps, and each   *)
(* task is implemented from where the one before it leaves the vehicle.    *)
(***************************************************************************)
IsLinked(way) ==
    \A k \in DOMAIN way :
        IF k = 1 THEN way[k].first = 1 /\ way[k].from = NoTask
        ELSE /\ way[k].first = way[k - 1].first + way[k - 1].count
             /\ way[k].from = way[k - 1].task
MissionIsLinked ==
    \A i \in Published("UniqueAutomationResponse") :
        \A v \in DOMAIN log[i].missions : IsLinked(log[i].missions[v])

(***************************************************************************)
(* A TaskImplementationResponse with waypoints has the route to the task   *)
(* and, if it has routes planned inside it, these.                         *)
(***************************************************************************)
ImplementationIsWhole ==
    \A i \in Published("TaskImplementationResponse") :
        log[i].plans = {"inside", "transition"}

(***************************************************************************)
(* When requests come one at a time, implementations are whole and made of *)
(* the options that were offered for the request they belong to.           *)
(***************************************************************************)
OneAtATime ==
    \A i, j \in Published("UniqueAutomationRequest") :
        i < j => \E k \in Outcomes(log[i].about) : k < j
OwnImplementationOneAtATime ==
    OneAtATime => /\ ImplementationIsWhole
                  /\ \A i \in Published("TaskImplementationResponse") :
                        log[i].built = log[i].about

(***************************************************************************)
(* When requests come one at a time, all routes can be planned and every   *)
(* plan has waypoints, an assignment leads to the response in the end, or  *)
(* is refused: the chain of implementation requests never breaks.  Neither *)
(* summary nor outcome goes away, nor do requests that came side by side,  *)
(* so that this says the same of each request.                             *)
(***************************************************************************)
IsFeasible(r) == \A t \in TasksOf[r] : t \notin Unreachable /\ 0 \notin Lengths[t]
AssignmentIsAnswered ==
    []<>(OneAtATime
            => \A r \in {x \in Request : IsFeasible(x)} :
                  About("TaskAssignmentSummary", r) # {} => Outcomes(r) # {})
=============================================================================
