----------------------------- MODULE TaskService -----------------------------
(***************************************************************************)
(* TaskServiceBase: what every task service does with the requests that    *)
(* concern it.  It offers options for a UniqueAutomationRequest that lists *)
(* its task and implements the option that was assigned, in both phases    *)
(* with routes planned for it by a route planner.                          *)
(*                                                                         *)
(* Each task has one option here, always with the same OptionID, as the    *)
(* numbering of options starts anew with each request.  Its routes are the *)
(* one from the vehicle to the task and those inside it.  A task in Routed *)
(* has the routes inside it planned, once for the options and once more    *)
(* for the implementation; the others calculate them at once.  A task that *)
(* restarts where a vehicle left it, and what the task services do on      *)
(* their own in addition, is left out.                                     *)
(***************************************************************************)
EXTENDS MessageBus

CONSTANTS NoRequest,      \* no request
          Routed,         \* tasks that have the routes inside them planned
          ConfiguredFor,  \* vehicles of which each task has the configuration
          Lengths         \* how many waypoints an implementation of each
                          \* task may have

VARIABLES
    latest,    \* m_latestUniqueAutomationRequestId
    open,      \* m_idVsUniqueAutomationRequest
    builtFor,  \* the request m_optionIdVsTaskOptionClass was built for
    awaited,   \* m_pendingOptionRouteRequests
    implementing,  \* m_pendingImplementationRouteRequests, with the entries of
                   \* m_routeIdVsTaskImplementationRequest: they change together
    pendingRoutes, \* m_pendingRouteIds of the option
    plans,     \* m_orderedRouteIdVsPlan of the option
    nextRoute  \* m_uniqueRouteRequestId

tasks == <<latest, open, builtFor, awaited, implementing, pendingRoutes, plans, nextRoute>>

TaskServiceInit ==
    /\ latest = [t \in Task |-> NoRequest]
    /\ open = [t \in Task |-> {}]
    /\ builtFor = [t \in Task |-> NoRequest]
    /\ awaited = [t \in Task |-> {}]
    /\ implementing = [t \in Task |-> {}]
    /\ pendingRoutes = [t \in Task |-> {}]
    /\ plans = [t \in Task |-> {}]
    /\ nextRoute = [t \in Task |-> 1]

Inside(t) == IF t \in Routed THEN {"inside"} ELSE {}
RoutePlanRequest(t, routes) ==
    [type |-> "RoutePlanRequest", id |-> nextRoute[t], task |-> t, routes |-> routes]
TaskPlanOptions(t) == [type |-> "TaskPlanOptions", about |-> builtFor'[t], task |-> t]

(***************************************************************************)
(* A UniqueAutomationRequest is recorded; if it lists the task, everything *)
(* there was for earlier ones is dropped and the options are built.        *)
(***************************************************************************)
Restarted(t, r) ==
    /\ builtFor' = [builtFor EXCEPT ![t] = r]
    /\ implementing' = [implementing EXCEPT ![t] = {}]
    /\ pendingRoutes' = [pendingRoutes EXCEPT ![t] = Inside(t)]
    /\ plans' = [plans EXCEPT ![t] = {"inside"} \ Inside(t)]

BuildTaskPlanOptions(t, i) ==
    \/ /\ t \in Routed
       /\ awaited' = [awaited EXCEPT ![t] = {nextRoute[t]}]
       /\ nextRoute' = [nextRoute EXCEPT ![t] = @ + 1]
       /\ Handled(t, i, <<RoutePlanRequest(t, Inside(t))>>)
    \/ /\ t \notin Routed
       /\ awaited' = [awaited EXCEPT ![t] = {}]
       /\ Handled(t, i, <<TaskPlanOptions(t)>>)
       /\ UNCHANGED nextRoute

TakeUniqueAutomationRequest(t, i) ==
    LET r == log[i].about IN
    /\ log[i].type = "UniqueAutomationRequest"
    /\ latest' = [latest EXCEPT ![t] = r]
    /\ open' = [open EXCEPT ![t] = @ \cup {r}]
    /\ \/ t \in TasksOf[r] /\ Restarted(t, r) /\ BuildTaskPlanOptions(t, i)
       \/ /\ t \notin TasksOf[r]
          /\ Handled(t, i, <<>>)
          /\ UNCHANGED <<builtFor, awaited, implementing, pendingRoutes, plans, nextRoute>>

TakeUniqueAutomationResponse(t, i) ==
    /\ log[i].type = "UniqueAutomationResponse"
    /\ open' = [open EXCEPT ![t] = @ \ {log[i].about}]
    /\ Handled(t, i, <<>>)
    /\ UNCHANGED <<latest, builtFor, awaited, implementing, pendingRoutes, plans, nextRoute>>

(***************************************************************************)
(* processOptionsRoutePlanResponseBase.  With one option its plans are not *)
(* kept: the implementation plans them anew.                               *)
(***************************************************************************)
TakeOptionsRoutes(t, i) ==
    /\ log[i].id \in awaited[t]
    /\ awaited' = [awaited EXCEPT ![t] = @ \ {log[i].id}]
    /\ pendingRoutes' = [pendingRoutes EXCEPT ![t] = @ \ log[i].routes]
    /\ Handled(t, i, IF pendingRoutes'[t] = {}
                     THEN <<[type |-> "TaskPlanOptions", about |-> builtFor[t], task |-> t]>>
                     ELSE <<>>)
    /\ UNCHANGED <<latest, open, builtFor, implementing, plans, nextRoute>>

\* fault: only the route to the task is planned
RouteToTask(t) == {"transition"}
RoutesOf(t) == Inside(t) \cup {"transition"}

(***************************************************************************)
(* A TaskImplementationRequest finds the option by its OptionID, whichever *)
(* request the options were built for last.                                *)
(***************************************************************************)
TakeTaskImplementationRequest(t, i) ==
    LET isFound == builtFor[t] # NoRequest IN
    /\ log[i].type = "TaskImplementationRequest"
    /\ IF isFound
       THEN /\ implementing' = [implementing EXCEPT ![t] = @ \cup {[id |-> nextRoute[t], request |-> i]}]
            /\ pendingRoutes' = [pendingRoutes EXCEPT ![t] = @ \cup RoutesOf(t)]
            /\ nextRoute' = [nextRoute EXCEPT ![t] = @ + 1]
            /\ Handled(t, i, <<RoutePlanRequest(t, RoutesOf(t))>>)
       ELSE Handled(t, i, <<>>) /\ UNCHANGED <<implementing, pendingRoutes, nextRoute>>
    /\ UNCHANGED <<latest, open, builtFor, awaited, plans>>

(***************************************************************************)
(* What is sent when implementation request j has been planned with count  *)
(* waypoints: an answer without waypoints if the configuration of the      *)
(* vehicle is not known, nothing at all if there are no waypoints.         *)
(***************************************************************************)
Answer(t, j, count) ==
    [type |-> "TaskImplementationResponse", id |-> log[j].id, about |-> log[j].about,
     task |-> t, vehicle |-> log[j].vehicle, start |-> log[j].start, count |-> count,
     from |-> log[j].from, built |-> builtFor[t], plans |-> plans'[t]]
\* fault: a vehicle without configuration is not answered
ReplyIfConfigured(t, j, count) ==
    IF log[j].vehicle \in ConfiguredFor[t] THEN <<Answer(t, j, count)>> ELSE <<>>
Reply(t, j, count) ==
    CASE log[j].vehicle \notin ConfiguredFor[t] -> <<Answer(t, j, 0)>>
      [] count > 0 -> <<Answer(t, j, count)>>
      [] OTHER -> <<>>

(***************************************************************************)
(* processImplementationRoutePlanResponseBase: nothing happens when the    *)
(* last request seen has been answered; a response that is awaited is      *)
(* taken route by route, and answered when no route is pending any more.   *)
(***************************************************************************)
Taken(t, i) == pendingRoutes[t] \cap log[i].routes
TakeImplementationRoutes(t, i) ==
    \E p \in implementing[t] :
        /\ p.id = log[i].id
        /\ latest[t] \in open[t]
        /\ implementing' = [implementing EXCEPT ![t] = @ \ {p}]
        /\ pendingRoutes' = [pendingRoutes EXCEPT ![t] = @ \ log[i].routes]
        /\ plans' = [plans EXCEPT ![t] = @ \cup Taken(t, i)]
        /\ \/ /\ Taken(t, i) # {} /\ pendingRoutes'[t] = {}
              /\ \E count \in Lengths[t] : Handled(t, i, Reply(t, p.request, count))
           \/ /\ Taken(t, i) = {} \/ pendingRoutes'[t] # {}
              /\ Handled(t, i, <<>>)
        /\ UNCHANGED <<latest, open, builtFor, awaited, nextRoute>>

IgnoreRoutes(t, i) ==
    /\ log[i].id \notin awaited[t]
    /\ latest[t] \in open[t] => \A p \in implementing[t] : p.id # log[i].id
    /\ Handled(t, i, <<>>)
    /\ UNCHANGED tasks

TakeRoutePlanResponse(t, i) ==
    /\ log[i].type = "RoutePlanResponse"
    /\ TakeOptionsRoutes(t, i) \/ TakeImplementationRoutes(t, i) \/ IgnoreRoutes(t, i)

TaskServiceStep(t) ==
    \E i \in DOMAIN log :
        /\ IsNext(t, i)
        /\ \/ TakeUniqueAutomationRequest(t, i) \/ TakeUniqueAutomationResponse(t, i)
           \/ TakeTaskImplementationRequest(t, i) \/ TakeRoutePlanResponse(t, i)
=============================================================================
