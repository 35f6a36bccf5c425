--------------------------- MODULE RouteAggregator --------------------------
(***************************************************************************)
(* RouteAggregatorService: collects the options of the tasks of each       *)
(* UniqueAutomationRequest, has the routes between them planned and        *)
(* publishes the AssignmentCostMatrix; and plans the routes that tasks     *)
(* request for themselves.  This is the service without FastPlan, where    *)
(* every route is planned by another service.                              *)
(*                                                                         *)
(* Locations, headings and costs are left out: a route is known by the     *)
(* places it connects.  m_routeId numbers the routes consecutively; here a *)
(* route is identified by the pass of CheckAllTaskOptionsReceived that     *)
(* asked for it, the request it is for and its ends, so that               *)
(* m_routeTaskPairing is part of the identifier.  The routes of a          *)
(* RouteRequest are numbered by the task and read by nobody here.          *)
(***************************************************************************)
EXTENDS MessageBus, Functions, SequencesExt, FiniteSetsExt

CONSTANTS NoTask,      \* the task identifier 0, of a vehicle's position
          VehiclesOf,  \* EntityList of each request, {} for all
          PlannedFor,  \* vehicles for which it carries a PlanningState
          PlannerOf    \* the group of planners for each vehicle

VARIABLES
    known,        \* m_entityStates
    automation,   \* m_uniqueAutomationRequests, by key
    nextKey,      \* m_autoRequestId
    options,      \* m_taskOptions
    pass,         \* the passes that have numbered routes (m_routeId)
    pendingAuto,  \* m_pendingAutoReq: the routes awaited for each key
    plans,        \* m_routePlans
    responses,    \* m_routePlanResponses
    nextPlan,     \* m_routeRequestId
    pendingRoute  \* m_pendingRoute: plans awaited for each RouteRequest

collector == <<automation, nextKey, options, pass, pendingAuto, plans>>
aggregator == <<responses, nextPlan, pendingRoute>>

RouteAggregatorInit ==
    /\ known = {}
    /\ automation = <<>> /\ nextKey = 1
    /\ options = <<>>
    /\ pass = 0
    /\ pendingAuto = <<>> /\ plans = {}
    /\ responses = {} /\ nextPlan = 1
    /\ pendingRoute = <<>>

-----------------------------------------------------------------------------
(***************************************************************************)
(* The routes of a matrix: for each vehicle whose position is known, from  *)
(* there to every option it is eligible for, and between all of these.     *)
(* options carry the request they were made for, which nothing looks at.   *)
(***************************************************************************)
Position == [task |-> NoTask]
IsEligible(v, option) == option.eligible = {} \/ v \in option.eligible
Places(r, opts, v) ==
    UNION {{[task |-> t, option |-> o.option, about |-> opts[t].about] :
            o \in {x \in opts[t].options : IsEligible(v, x)}} : t \in TasksOf[r]}
Ends(r, opts, v) ==
    LET places == Places(r, opts, v) IN
    {<<Position, p>> : p \in places} \cup {e \in places \X places : e[1] # e[2]}
RoutesFor(k, r, opts, v, n) ==
    {[key |-> k, pass |-> n, vehicle |-> v, from |-> e[1], to |-> e[2]] : e \in Ends(r, opts, v)}

(***************************************************************************)
(* BuildMatrixRequests for the keys in K, when the requests are reqs: the  *)
(* vehicles considered (an empty EntityList is filled for good) and those  *)
(* of them whose position is known.                                        *)
(***************************************************************************)
Considered(req) == IF req.vehicles = {} THEN known ELSE req.vehicles
Planned(req) == {v \in Considered(req) : v \in known \/ v \in PlannedFor[req.about]}
Complete(reqs, opts) == {k \in DOMAIN reqs : TasksOf[reqs[k].about] \subseteq DOMAIN opts}

MatrixRoutes(k, req, opts, n) ==
    UNION {RoutesFor(k, req.about, opts, v, n) : v \in Planned(req)}
AddRoutes(K, reqs, opts, n) ==   \* fault: routes of earlier passes stay awaited
    pendingAuto' = [k \in K \cup DOMAIN pendingAuto |->
        (IF k \in K THEN MatrixRoutes(k, reqs[k], opts, n) ELSE {})
        \cup IF k \in DOMAIN pendingAuto THEN pendingAuto[k] ELSE {}]
AwaitRoutes(K, reqs, opts, n) ==
    pendingAuto' = [k \in K \cup DOMAIN pendingAuto |->
        IF k \in K THEN MatrixRoutes(k, reqs[k], opts, n) ELSE pendingAuto[k]]

(***************************************************************************)
(* CheckAllTaskOptionsReceived, on message i: every request whose tasks    *)
(* all have options gets its routes requested, anew if they were before.   *)
(* Requests and vehicles are visited in some order (unordered_map).        *)
(***************************************************************************)
CheckAllTaskOptionsReceived(i, reqs, opts) ==
    LET K     == Complete(reqs, opts)
        order == SetToSeq(UNION {{<<k, v>> : v \in Planned(reqs[k])} : k \in K})
    IN /\ AwaitRoutes(K, reqs, opts, pass + 1)
       /\ pass' = IF K = {} THEN pass ELSE pass + 1
       /\ automation' = [k \in DOMAIN reqs |->
                            IF k \in K THEN [reqs[k] EXCEPT !.vehicles = Considered(reqs[k])]
                                       ELSE reqs[k]]
       /\ options' = opts
       /\ Handled("RouteAggregator", i, [n \in DOMAIN order |->
            LET k == order[n][1] v == order[n][2] IN
            [type |-> "RoutePlanRequest", to |-> PlannerOf[v], id |-> 0, vehicle |-> v,
             routes |-> RoutesFor(k, reqs[k].about, opts, v, pass + 1)]])

HandleUniqueAutomationRequest(i) ==
    LET req == [about |-> log[i].about, vehicles |-> VehiclesOf[log[i].about]] IN
    /\ log[i].type = "UniqueAutomationRequest"
    /\ nextKey' = nextKey + 1
    /\ CheckAllTaskOptionsReceived(i, WithEntry(automation, nextKey, req), options)
    /\ UNCHANGED <<known, plans, aggregator>>

HandleTaskPlanOptions(i) ==
    /\ log[i].type = "TaskPlanOptions"
    /\ CheckAllTaskOptionsReceived(i, automation, WithEntry(options, log[i].task, log[i]))
    /\ UNCHANGED <<known, nextKey, plans, aggregator>>

HandleEntityState(i) ==
    /\ log[i].type = "EntityState"
    /\ known' = known \cup {log[i].vehicle}
    /\ Handled("RouteAggregator", i, <<>>)
    /\ UNCHANGED <<collector, aggregator>>

-----------------------------------------------------------------------------
(***************************************************************************)
(* A task's RouteRequest: one RoutePlanRequest for each of its vehicles,   *)
(* or for all known ones.                                                  *)
(***************************************************************************)
HandleRouteRequest(i) ==
    LET order == SetToSeq(IF log[i].vehicles = {} THEN known ELSE log[i].vehicles)
        ids   == nextPlan .. nextPlan + Len(order) - 1
        id    == log[i].id
        was   == IF id \in DOMAIN pendingRoute THEN pendingRoute[id] ELSE {}
    IN /\ log[i].type = "RouteRequest"
       /\ nextPlan' = nextPlan + Len(order)
       /\ pendingRoute' = IF ids = {} THEN pendingRoute
                          ELSE WithEntry(pendingRoute, id, was \cup ids)
       /\ Handled("RouteAggregator", i, [n \in DOMAIN order |->
            [type |-> "RoutePlanRequest", to |-> PlannerOf[order[n]], id |-> nextPlan + n - 1,
             vehicle |-> order[n], routes |-> {}]])
       /\ UNCHANGED <<known, collector, responses>>

(***************************************************************************)
(* SendRouteResponse and SendMatrix, from what has been planned.           *)
(***************************************************************************)
RouteResponseFor(id, has) ==
    [type |-> "RouteResponse", id |-> id, plans |-> pendingRoute[id] \cap has]
MatrixFor(k, has) ==
    [type |-> "AssignmentCostMatrix", about |-> automation[k].about,
     costs |-> {[vehicle |-> p.vehicle, from |-> p.from, to |-> p.to] :
                p \in pendingAuto[k] \cap has}]

DiscardPending(A) ==    \* fault: the request is not erased
    pendingAuto' = Restrict(pendingAuto, DOMAIN pendingAuto \ A) /\ UNCHANGED automation
DiscardRequests(A) ==   \* fault: the routes awaited are not erased
    automation' = Restrict(automation, DOMAIN automation \ A) /\ UNCHANGED pendingAuto
Discard(A) ==
    /\ pendingAuto' = Restrict(pendingAuto, DOMAIN pendingAuto \ A)
    /\ automation' = Restrict(automation, DOMAIN automation \ A)

OptionsKept(A) == UNCHANGED options   \* fault: options outlive the matrix
ClearOptions(A) == options' = IF A = {} THEN options ELSE <<>>

DropAllResponses(has, spent, used) ==   \* fault: clear() for erase()
    responses' = IF used = {} THEN has \ spent ELSE {}
DropResponses(has, spent, used) ==
    responses' = (has \ spent) \ (IF used = {} THEN {} ELSE {0})

SomePlanned(awaited, has) == awaited = {} \/ awaited \cap has # {}   \* fault: any for all
AllPlanned(awaited, has) == awaited \subseteq has

(***************************************************************************)
(* A RoutePlanResponse and CheckAllRoutePlans: every RouteRequest and      *)
(* every automation request that is fulfilled now is answered and          *)
(* forgotten.  The options of all requests are cleared with any matrix.    *)
(***************************************************************************)
HandleRoutePlanResponse(i) ==
    LET nowPlans == plans \cup log[i].routes
        nowResponses == responses \cup {log[i].id}
        R == {id \in DOMAIN pendingRoute : AllPlanned(pendingRoute[id], nowResponses)}
        A == {k \in DOMAIN pendingAuto : AllPlanned(pendingAuto[k], nowPlans)}
        used == nowPlans \cap UNION {pendingAuto[k] : k \in A}
        r == SetToSeq(R)
        a == SetToSeq(A)
    IN /\ log[i].type = "RoutePlanResponse"
       /\ DropResponses(nowResponses, UNION {pendingRoute[id] : id \in R}, used)
       /\ plans' = nowPlans \ used
       /\ pendingRoute' = Restrict(pendingRoute, DOMAIN pendingRoute \ R)
       /\ Discard(A)
       /\ ClearOptions(A)
       /\ Handled("RouteAggregator", i,
                  [n \in DOMAIN r |-> RouteResponseFor(r[n], nowResponses)] \o
                  [n \in DOMAIN a |-> MatrixFor(a[n], nowPlans)])
       /\ UNCHANGED <<known, nextKey, pass, nextPlan>>

RouteAggregatorStep ==
    \E i \in DOMAIN log :
        /\ IsNext("RouteAggregator", i)
        /\ \/ HandleUniqueAutomationRequest(i) \/ HandleTaskPlanOptions(i)
           \/ HandleEntityState(i) \/ HandleRouteRequest(i) \/ HandleRoutePlanResponse(i)
=============================================================================
