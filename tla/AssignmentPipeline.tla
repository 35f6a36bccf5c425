------------------------- MODULE AssignmentPipeline -------------------------
(***************************************************************************)
(* The first half of the assignment pipeline on one bus: the validator     *)
(* publishes UniqueAutomationRequests, the services of their tasks offer   *)
(* options, the RouteAggregatorService has planners plan the routes and    *)
(* publishes the cost matrix, the assignment service assigns the tasks.    *)
(*                                                                         *)
(* A request is published once, when a vehicle has reported its state and  *)
(* those that it lists have or come with a PlanningState (the validator    *)
(* checks that), and when the last one is done or the validator has given  *)
(* up on it after a timeout.  A route planner answers a RoutePlanRequest   *)
(* with all of its routes or, if one of them cannot be planned, not at     *)
(* all, whether the RouteAggregatorService asks for a matrix or for a      *)
(* RouteRequest.                                                           *)
(***************************************************************************)
EXTENDS RouteAggregator, AssignmentTree

CONSTANTS Planner,      \* the route planners, for air and for ground vehicles
          OptionsOf,    \* the options each task offers
          Unreachable,  \* the tasks to which there may be no route
          RouteQuery,   \* the RouteRequests that tasks send
          QueryVehicles, \* the VehicleID lists they may have
          Settings      \* the settings there may be: the vehicles there are,
                        \* the requests and RouteRequests that come (arrivals),
                        \* and whether the validator may give up on a request
                        \* (timesOut)

VARIABLE setting   \* the one of this run

(***************************************************************************)
(* The services there are at least, what they must subscribe to (configure *)
(* of each; a planner, to the requests for its own group), and the         *)
(* vehicles there are in requests.                                         *)
(***************************************************************************)
ASSUME PipelineAssumption ==
    /\ {"RouteAggregator", "AssignmentTree"} \cup Planner \subseteq Service
    /\ {"EntityState", "TaskPlanOptions"} \subseteq Subscription["RouteAggregator"]
    /\ Subscription["AssignmentTree"] = Prerequisite
    /\ \A p \in Planner : Subscription[p] = {p}
    /\ Planner \cap {"RouteAggregator", "AssignmentTree", "EntityState", "UniqueAutomationRequest",
                     "RouteRequest", "TaskPlanOptions", "RouteResponse", "AssignmentCostMatrix",
                     "TaskAssignmentSummary", "ServiceStatus"} = {}
    /\ IsFiniteSet(Vehicle)
    /\ \A v \in Vehicle : PlannerOf[v] \in Planner
    /\ \A r \in Request : VehiclesOf[r] \subseteq Vehicle
    /\ QueryVehicles \subseteq SUBSET Vehicle

aggregation == <<known, collector, aggregator>>
vars == <<bus, aggregation, held, setting>>

Init == BusInit /\ RouteAggregatorInit /\ AssignmentTreeInit /\ setting \in Settings

(***************************************************************************)
(* A message from outside.                                                 *)
(***************************************************************************)
Publish(m) == log' = Append(log, m) /\ UNCHANGED <<read, aggregation, held, setting>>

HasReported(v) == \E i \in Published("EntityState") : log[i].vehicle = v
ReportState(v) ==
    v \in setting.vehicles /\ ~HasReported(v) /\ Publish([type |-> "EntityState", vehicle |-> v])

IsPublished(r) == \E i \in Published("UniqueAutomationRequest") : log[i].about = r
Outcomes == Published("TaskAssignmentSummary") \cup Published("ServiceStatus")
About(S, r) == {i \in S : log[i].about = r}
SendRequest(r) ==
    /\ r \in setting.arrivals /\ ~IsPublished(r)
    /\ Published("EntityState") # {}
    /\ \A v \in VehiclesOf[r] : HasReported(v) \/ v \in PlannedFor[r]
    /\ setting.timesOut \/ \A x \in Request : IsPublished(x) => About(Outcomes, x) # {}
    /\ Publish([type |-> "UniqueAutomationRequest", about |-> r])

QueryAt(q) == {i \in Published("RouteRequest") : log[i].id = q}
SendQuery(q) ==
    /\ q \in setting.arrivals /\ QueryAt(q) = {}
    /\ \E vs \in QueryVehicles : Publish([type |-> "RouteRequest", id |-> q, vehicles |-> vs])

(***************************************************************************)
(* TaskServiceBase: a request that lists the task is answered with options *)
(* made for it, unless a newer one comes while they are being prepared:    *)
(* preparing may take routes of its own, and starts anew for each request. *)
(***************************************************************************)
Concerns(t) == {i \in Published("UniqueAutomationRequest") : t \in TasksOf[log[i].about]}
HasOptions(t, r) ==
    \E i \in Published("TaskPlanOptions") : log[i].task = t /\ log[i].about = r
OfferOptions(t) ==
    \E i \in Concerns(t) :
        /\ \A j \in Concerns(t) : HasOptions(t, log[j].about) => j < i
        /\ Publish([type |-> "TaskPlanOptions", about |-> log[i].about, task |-> t,
                    options |-> OptionsOf[t]])

(***************************************************************************)
(* A route planner: answers the RouteAggregatorService in full, or not at  *)
(* all if a route fails.  It knows the configurations of its vehicles.     *)
(* The RouteRequests ask for routes between any places, so that a plan for *)
(* one of them (it has an identifier; those for a matrix have 0) may       *)
(* always fail.                                                            *)
(***************************************************************************)
MayFail(m) == m.id # 0 \/ \E route \in m.routes : route.to.task \in Unreachable
PlanRoutes(p) ==
    \E i \in DOMAIN log :
        /\ IsNext(p, i)
        /\ \/ Handled(p, i, <<[type |-> "RoutePlanResponse", to |-> "RouteAggregator",
                                id |-> log[i].id, routes |-> log[i].routes]>>)
           \/ /\ MayFail(log[i])
              /\ Handled(p, i, <<>>)
        /\ UNCHANGED <<aggregation, held, setting>>

Aggregate == RouteAggregatorStep /\ UNCHANGED <<held, setting>>
Assign == AssignmentTreeStep /\ UNCHANGED <<aggregation, setting>>

Next ==
    \/ \E v \in Vehicle : ReportState(v)
    \/ \E r \in Request : SendRequest(r)
    \/ \E q \in RouteQuery : SendQuery(q)
    \/ \E t \in Task : OfferOptions(t)
    \/ \E p \in Planner : PlanRoutes(p)
    \/ Aggregate \/ Assign

Spec == Init /\ [][Next]_vars

(***************************************************************************)
(* The services do not all stand still while one has a message to handle   *)
(* or options to offer.  Each handles every message once, so that none is  *)
(* kept from its own by the others for ever.                               *)
(***************************************************************************)
Work ==
    \/ Aggregate \/ Assign
    \/ \E p \in Planner : PlanRoutes(p)
    \/ \E t \in Task : OfferOptions(t)
Fairness == WF_vars(Work)
FairSpec == Spec /\ Fairness

-----------------------------------------------------------------------------
(***************************************************************************)
(* The state of the RouteAggregatorService.  A matrix is only awaited for  *)
(* a request that is still there: SendMatrix would dereference a null      *)
(* pointer otherwise.                                                      *)
(***************************************************************************)
TypeOK ==
    /\ known \subseteq Vehicle
    /\ \A k \in DOMAIN automation : k \in 1 .. nextKey - 1
    /\ \A k \in DOMAIN automation : automation[k].about \in Request
    /\ DOMAIN options \subseteq Task
    /\ DOMAIN pendingAuto \subseteq DOMAIN automation
    /\ \A id \in DOMAIN pendingRoute : pendingRoute[id] \subseteq 1 .. nextPlan - 1
    /\ responses \subseteq 0 .. nextPlan - 1
    /\ \A s \in Service : read[s] \in 0 .. Len(log)
    /\ held \in [Request -> SUBSET {log[i] : i \in DOMAIN log}]

(***************************************************************************)
(* A request gets one matrix and one outcome, however often the options    *)
(* that come in make the RouteAggregatorService request its routes anew.   *)
(***************************************************************************)
OneOutcome ==
    \A r \in Request : /\ Cardinality(About(Published("AssignmentCostMatrix"), r)) <= 1
                       /\ Cardinality(About(Outcomes, r)) <= 1

(***************************************************************************)
(* A matrix is complete and never mixes two sets of options: for each of   *)
(* its vehicles it has the routes between all the options for which the    *)
(* vehicle was eligible at one moment, and no other, although routes asked *)
(* for earlier may be answered while newer ones are awaited.               *)
(***************************************************************************)
OptionsAt(p, t) == {i \in Published("TaskPlanOptions") : i <= p /\ log[i].task = t}
LatestOptions(r, p) == [t \in TasksOf[r] |-> log[Max(OptionsAt(p, t))]]
MatrixOfOneMoment ==
    \A i \in Published("AssignmentCostMatrix") :
        LET r == log[i].about costs == log[i].costs IN
        \E p \in 1 .. i :
            /\ \A t \in TasksOf[r] : OptionsAt(p, t) # {}
            /\ \A v \in {c.vehicle : c \in costs} \cup VehiclesOf[r] :
                  {<<c.from, c.to>> : c \in {x \in costs : x.vehicle = v}}
                      = Ends(r, LatestOptions(r, p), v)

(***************************************************************************)
(* When each request is published after the outcome of the last one, a     *)
(* matrix is made of the options the tasks offered for its own request.    *)
(***************************************************************************)
MatrixOfItsOptions ==
    \A i \in Published("AssignmentCostMatrix") :
        \A c \in log[i].costs : c.to.about = log[i].about
OneAtATime ==
    \A i, j \in Published("UniqueAutomationRequest") :
        i < j => \E k \in About(Outcomes, log[i].about) : k < j
OwnOptionsOneAtATime == OneAtATime => MatrixOfItsOptions

(***************************************************************************)
(* Every request whose tasks can be reached has an outcome in the end, if  *)
(* requests come one at a time.  What was published stays so.              *)
(***************************************************************************)
IsSettled(r) == IsPublished(r) => About(Outcomes, r) # {}
EveryRequestHasOutcome ==
    []<>(OneAtATime
            => \A r \in {x \in Request : TasksOf[x] \cap Unreachable = {}} : IsSettled(r))

(***************************************************************************)
(* A RouteRequest is answered once, with the plan of every vehicle it      *)
(* lists, or that was known if it lists none.                              *)
(***************************************************************************)
QueriedVehicles(q) ==
    UNION {IF log[i].vehicles # {} THEN log[i].vehicles
           ELSE {log[j].vehicle : j \in {x \in Published("EntityState") : x < i}} :
           i \in QueryAt(q)}
Answers(q) == {i \in Published("RouteResponse") : log[i].id = q}
PlannedVehicles(ids) ==
    {log[i].vehicle : i \in {j \in Published("RoutePlanRequest") : log[j].id \in ids}}
QueryAnsweredInFull ==
    \A q \in RouteQuery :
        /\ Cardinality(Answers(q)) <= 1
        /\ \A i \in Answers(q) :
              /\ log[i].plans # {}
              /\ PlannedVehicles(log[i].plans) = QueriedVehicles(q)
              /\ \A n \in log[i].plans : \E j \in Published("RoutePlanResponse") :
                                            j < i /\ log[j].id = n

(***************************************************************************)
(* A RouteRequest that finds a vehicle is answered in the end, unless a    *)
(* plan it waits for was left unanswered by its planner, as one of which a *)
(* route fails is (RoutePlannerVisibilityService.cpp:227-241): then it is  *)
(* never answered, nor is its sender told.                                 *)
(***************************************************************************)
LeftUnanswered(n) ==
    /\ \E i \in Published("RoutePlanRequest") : log[i].id = n /\ i <= read[log[i].to]
    /\ \A i \in Published("RoutePlanResponse") : log[i].id # n
WaitsInVain(q) == q \in DOMAIN pendingRoute /\ \E n \in pendingRoute[q] : LeftUnanswered(n)
QueryIsAnswered ==
    []<>\A q \in RouteQuery :
          QueryAt(q) # {} /\ QueriedVehicles(q) # {} => Answers(q) # {} \/ WaitsInVain(q)
=============================================================================
