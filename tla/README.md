# Verification of OpenUxAS: planning, flying, and the services in between

OpenUxAS plans missions for unmanned vehicles. It is a set of *services* in one
process, each with a thread of its own, that exchange LMCP messages over a bus.
A client asks for an assignment with an `AutomationRequest`; a chain of services
turns it into the missions of an `AutomationResponse`, which others feed to the
vehicles and follow. This directory has TLA+ models of that chain, of the
services around it and of the timers and threads they all lean on, TLC
configurations that check them on small instances, and TLAPS proofs about the
service at the door of the chain, both halves of the chain, the timers, the life
cycle of services, and those around the chain. Paths below are relative to `src/src/` of the repository; the manual
is `src/doc/reference/UserManual/Services/CoreServices.md`.

## 1. The system

```
 client --AutomationRequest--> AutomationRequestValidator --UniqueAutomationRequest--+
                                   ^    (one at a time)                              |
                                   |                     +---------------------------+
                                   |                     v                           v
                                   |               task services ----options---> RouteAggregator
                                   |                 ^      |                     |        ^
                                   |  implementation |      | options      routes v        | plans
                                   |        requests |      v                 route planners
                                   |                 |   AssignmentTree <---- cost matrix
                                   |                 |      | TaskAssignmentSummary
                                   +--- response --- PlanBuilder

 before it:  AssignmentCoordinatorTask (of each vehicle) --TaskAutomationRequest--> validator
             BatchSummary --TaskAutomationRequests--> validator
 after it:   AutomationResponse --> WaypointPlanManager --MissionCommand--> vehicle
                              \---> TaskTracker <---------- AirVehicleState ---+
 below it:   TaskManager --CreateNewService, KillService--> ServiceManager --makes--> task services
```

Every arrow is a message on the bus; every service sees all messages it
subscribes to, in one order common to all, and handles one at a time. What the
services share besides is the `TimerManager`, whose callbacks run on a thread
that belongs to none of them.

| component | state it keeps | operations | what makes it hard |
|---|---|---|---|
| `AutomationRequestValidatorService` | the requests waiting for their tasks, the pending ones, of which the first is in the pipeline; what kind of answer each client expects; one error response used again and again; two timers | a request, a response, a task appearing, initialized or removed; two timeouts | timeouts on another thread, late and repeated answers, order |
| `TimerManager` | the timers by identifier with their flags; a queue of references to them sorted by deadline; one worker thread | create, start (single-shot, periodic), disable, destroy, is-active; the worker's loop; the end of the manager | calls from any thread during a callback, waits with a timeout, references that must not dangle |
| message bus: `LmcpObjectNetworkServer`, `LmcpObjectNetworkClientBase` | sockets; the subscriptions of each client; each client's thread and its phase | publish, deliver, subscribe; the loop of a client and its end | services read at their own pace and miss what came before they subscribed |
| `RouteAggregatorService` | requests by key, options by task, routes awaited for each key, plans; route queries | a request, options, an entity's state, a route query, route plans | several requests at once, answers to routes no longer wanted |
| `AssignmentTreeBranchBoundBase` | prerequisites by request | a request, options, a cost matrix | any order of arrival |
| `PlanBuilderService` | entity states; for each request the projected states, the remaining assignments and the missions so far; the implementation requests expected | a request, a summary, an implementation response, an entity state | a chain of requests and answers that anything may break; two chains at once |
| `TaskServiceBase` | the requests seen and the latest of them; the options of the latest that lists the task, with the routes pending and planned; route requests awaited | a request, its response, an implementation request, route plans | the two phases share the pending routes; a newer request replaces the options |
| route planners (`RoutePlannerVisibilityService`) | entities and regions | a route plan request | answer in full or not at all |
| `TaskManagerService` | the tasks known and the service of each | a task, its removal, entities and places | the service it kills may not be there yet |
| `ServiceManager`, `ServiceBase`, main thread, bridge manager | the services and bridges alive, whether the end was requested | create, kill all, clear away, end | objects are made and destroyed by different threads; identifiers are given out in two ways |
| `AssignmentCoordinatorTaskService` | the last state of its vehicle; for each request the planning states collected; times running | a request, a planning state, an answer, a vehicle state, a timeout | vehicles hear of a request at different times, or not at all, and fly on |
| `BatchSummaryService` | for each batch the parts awaited and the summaries so far | a batch, an answer | several batches before the planner at once |
| `WaypointPlanManagerService` | the plan in segments, the segment being flown, the command to send next | a plan, a vehicle state, a timer | the timer beside the handlers; reports of an old plan |
| `TaskTrackerService` | the mission and the tasks in progress of each vehicle | a plan, a command, a vehicle state | reports from before a new command |
| task services, `DynamicTaskServiceBase` | geometry, targets | hooks of `TaskServiceBase` | dynamic tasks request routes while they are performed |

`PROJECT.json` lists these and the others (loggers, bridges, steering, numeric
planners, ...) with what of each is modelled. What should hold of them:

- validator: no request is forgotten or settled twice; order is kept; whoever is
  answered is the one concerned; the queue moves on whatever times out;
- timers: one callback at a time, none after a disable or a destroy, no reference
  to a destroyed timer, one place in the queue, nobody starved;
- collection of options and routes: a cost matrix is complete, of one moment and
  of its own request; one outcome per request; every request has its outcome;
- implementation of plans: a response has exactly the missions of its summary, in
  order, linked; an implementation is whole and of its own request; the chain of
  implementation requests does not break;
- life cycle: the tasks on record have a service and no other service runs;
  identifiers are unique; nothing is destroyed while it works; what is killed is
  cleared away; a requested end is reached;
- joint planning: all vehicles plan from the same states, if a request has an
  identifier of its own; nobody asks twice for
  the whole, or for nothing instead; whoever took a request asks in the end;
- missions: a vehicle gets its plan in order and flies it to its end; a task is
  complete when, and only when, it was flown;
- batches: a summary is made of the plans for its batch in which its vehicle goes
  on its task, all of them and no other; each batch is answered once.

## 2. Modules

| module | models |
|---|---|
| `TimerService` | what the header of the timer manager promises: abstract specification |
| `TimerManager`, `MCTimerManager` | `Utilities/UxAS_TimerManager.cpp`, all of it; its properties, and the refinement of `TimerService` |
| `TimerManagerProofs` | theorems about it, the refinement among them |
| `AutomationRequestValidator`, `MCAutomationRequestValidator` | `Services/AutomationRequestValidatorService.cpp` |
| `AutomationRequestValidatorProofs` | theorems about the validator |
| `MessageBus` | the bus: a log, and how far each service has read |
| `MessageBusProofs` | lemmas about it for both halves of the pipeline: what a log keeps when messages come, which message a service reads next |
| `RouteAggregator` | `Services/RouteAggregatorService.cpp` |
| `AssignmentTree` | the collecting part of `Services/AssignmentTreeBranchBoundBase.cpp` |
| `AssignmentPipeline`, `MCAssignmentPipeline` | the two composed with route planners on the bus: from a `UniqueAutomationRequest` to a `TaskAssignmentSummary` |
| `AssignmentPipelineProofs` | theorems about this half of the pipeline |
| `PlanBuilder` | `Services/PlanBuilderService.cpp` |
| `TaskService` | the two phases of `Tasks/TaskServiceBase.cpp` |
| `PlanService` | what one request is owed from its assignment on: abstract specification |
| `PlanImplementation`, `MCPlanImplementation` | the two composed with a route planner on the bus: from a `TaskAssignmentSummary` to a `UniqueAutomationResponse` |
| `PlanImplementationProofs` | theorems about this half of the pipeline |
| `NetworkClients` | `Communications/LmcpObjectNetworkClientBase`: identifiers, subscription, loop and end of a client |
| `TaskManager` | `Tasks/TaskManagerService.cpp` |
| `ServiceManager` | `Services/ServiceManager.cpp` with its own thread and the main thread in it |
| `ServiceLifeCycle`, `MCServiceLifeCycle` | the three composed, with `UxAS_Main.cpp` and the bridge manager |
| `ServiceLifeCycleProofs` | theorems about it |
| `Fleet` | the vehicles and tasks of the modules that follow |
| `AssignmentCoordination` | `Tasks/AssignmentCoordinatorTaskService.cpp` in each of several vehicles |
| `WaypointPlanManager`, `TaskTracker` | `Services/WaypointPlanManagerService.cpp`, `Services/TaskTrackerService.cpp` |
| `MissionExecution` | the two composed with vehicles |
| `MissionExecutionProofs` | theorems about how plans are cut, given to vehicles and followed by the tracker |
| `BatchSummary` | `Services/BatchSummaryService.cpp` with clients and a planner |
| `FleetProofs` | theorems about joint planning and batches |
| `MCServices` | instances of the last three groups |

**Timers.** Variables are the fields of a `Timer` (`left` is the deadline
relative to now), the queue and the worker's program counter. An API call is one
step because it holds `m_mutex` throughout. `startTimerImpl` lets go of it while it
retries to dequeue a timer that is queued and in its callback at once; no timer
is, unless `OnePlacePerTimer` was violated before, so the loop ends on its first
pass and is not modelled beyond it. `holder` is the timer that a caller of `disableTimer`,
`destroyTimer` or `destroyTimers` waits for, asleep with the mutex. The worker has steps for the begin of a callback, its return and what
follows when the mutex is free again. In `KeepsPromise` the manager refines
`TimerService`: a periodic timer that is in its callback counts as armed though it
is in no queue, since the worker will queue it again. Two constants say who calls:
`RestartInCallback`, whether another thread may start a timer that is in its
callback, and `Coincide`, whether two timers may have the same deadline (by which
the queue is searched).

**Validator.** One action per message handler and per timer callback. What runs
in a callback is told apart by the thread (`Started`), because the TimerManager
refuses to start a timer there. `SendNextRequest`, `CheckTasksInitialized` and
`SendResponse` are the functions of those names and are part of the handlers that
call them. `seen`, `accepted`, `published`, `inPipeline`, `lost` and `replies`
record what went over the bus. `details` is `m_sandboxMap`; a reply is addressed
to the request found there, which is how a client recognizes it.

**Bus.** `LmcpObjectNetworkServer` is one thread that publishes what it pulls. So
there is one order of messages; a service's handler reads the next one it
subscribes to and what it sends goes to the end of the log. That a service may
lag behind the others is where the interleavings come from. The loss of messages
at a full socket is left out. Messages published before a service subscribed are
lost to it in `NetworkClients`, where services come and go.

**First half of the pipeline.** The collector of the `RouteAggregatorService` is
in `automation`, `options`, `pendingAuto` and `plans`; `CheckAllTaskOptionsReceived`
and `CheckAllRoutePlans` are run in full by each handler that calls them. Routes
are identified by the pass that asked for them, the request and their ends, which
is what `m_routeTaskPairing` remembers. `OfferOptions` stands for the tasks;
`PlanRoutes` answers in full or, if a route is to a task in `Unreachable`, perhaps
not at all; a plan for a `RouteRequest`, whose places may be any, may always fail. The assignment itself is free: found, or an error.

**Second half.** A mission is the list of its tasks with the number of the first
waypoint, how many there are and the task the vehicle comes from. A task has one
option. The environment publishes a summary once all tasks have offered options
for the request, and one for each time the request was published (`Summarize`),
which is what the first half does; the tasks of a summary are some of those of the
request, each once and for one vehicle (`ImplementationAssumption`, which also
says what services subscribe to). `timesOut` says whether the validator may publish a
request before the outcome of the last (it does when it has waited long enough),
`MaxPublished` how often it publishes the same one. `Promise(r)` maps the state to
that of `PlanService` for request r: its assignment is in the summary about it, the
tasks left out and a refusal in the `ServiceStatus` messages, the plan in the
response. What is implemented for other requests meanwhile must be a stutter for
r, so `DeliversPlans` says that each step is one of `PlanService` or a stutter for
every request at once.

**Life cycle.** A client is its place in the sequence of all objects made, since
identifiers may repeat: the constructor takes the next one and counts then,
`getUniqueNetworkClientId` counts first, so that an identifier given to a service
still to be made is the next one a constructor takes. A client is given what was
published after the place in the log at which it subscribed (`since`). The base
class takes a client's own `KillService` and ends its loop (`TakeKill`); that
`terminate` succeeds is a step of its own (`Finish`), and only then may the main
thread destroy the object. The main thread is a program counter: it makes the
configured services, then the bridges while the manager's thread already works,
then runs; `ClearAway` is `removeTerminatedServices`, done whenever something has
finished; `Expire` ends a run of limited duration; `waiting` is the ten seconds
after it, `closing` the wait for the manager's own thread. What comes from outside
(tasks, removals, places, two kinds of `KillService`) is bounded by `messages` of
the configuration.

**Joint planning.** `coordinationElements` is the map of that name; its entries
are made by whichever comes first, the request or somebody's planning state, and
until the request has come they hold a blank one with identifier 0 and no
entities, as its constructor leaves it. A setting (`joint`) fixes which requests
and vehicles there are, whether vehicles know where they are from the start
(`stateFirst`), how far they fly (`positions`), whether the maximum response time
may be over (`timesOut`), whether the network loses messages (`lossy`) and whether
others use the planner with the same identifiers (`foreign`), and to which vehicles
which requests may come a second time (`repeats`), which the code assumes not to
happen (`Tasks/AssignmentCoordinatorTaskService.cpp:157`): the elements are made anew if
they were gone, another time starts (`maxTimes` counts those that run) and the state
the vehicle is in by then is broadcast. The planner answers
in the order it is asked.

**Missions.** Each receiver has an inbox, in the order of the bus. The manager's
timer is two steps, since it sends the command and resets the pointer to it
afterwards; a command that the handler stores in between is lost, and
`overwritten` notes of which vehicle. A segment is a `MissionCommand`; a plan is
cut by a recursive function in `CutOf`, with both halves of the cut filled side
by side as in the code. Vehicles go along their command and report each waypoint
once, the last one twice: that is what makes the tracker report the tasks of a
mission that ends on a loop. A setting (`mission`) fixes the vehicles, their plans
one after the other, the two parameters of the manager (`serve`, `overlap`) and
whether plans have the same numbers (`renumbered`).

**Batches.** A batch is split into parts with numbers in a row; the planner
answers in order, with one of the plans of `PlansFor`, or without; others may get
answers under the same numbers once (`foreign`). A waypoint of a plan is its first
associated task, or 0. `Walk` is the loop of `UpdateTaskSummariesUtil` along a plan: a
leg, from one task to another, is recorded at the first waypoint without a task, or
the last of the plan, after it has come upon a task; so a task that follows another
directly is passed over, and one that only the last waypoint is for is not found.
`UpdateTaskSummaries` gives the response to the summaries of the legs found. What is
summed up of a plan is the number of the response it came from.

The last three groups do not interact. `MCServices` puts them into one
specification in which one of them is at work in each behaviour, in one of its
settings, so that one run checks them.

## 3. Runs

| run | instance | properties |
|---|---|---|
| `TimerManager` | two timers, delays 1 and 2, period 1, at most one tick late; callers do not start a timer that is in its callback, deadlines do not coincide | `NoDanglingReference`, `OnePlacePerTimer`, `KeepsPromise` (refinement), `OverdueTimerIsServed` |
| `TimerManagerTwice` | the same with callers that do | `OnePlacePerTimer` is violated |
| `Validator` | three requests, two tasks that come and go | `TypeOK`, `SettledOnce`, `InOrder`, `FrontIsPublished`, `UnpublishedKeepsDetails`, `RightlyAddressed`, `SettledIfAnswered`, `SettledIfPatient` |
| `ValidatorLost` | two requests without tasks | `StillResponds` is violated |
| `Pipeline` | three settings: two requests sharing a task, the second at any time; two in turn, for two vehicles with planners of their own, one of them with a task that may be unreachable and options for one or any; a request beside a route query, whose plans may fail | `TypeOK`, `OneOutcome`, `MatrixOfOneMoment`, `OwnOptionsOneAtATime`, `QueryAnsweredInFull`, `EveryRequestHasOutcome`, `QueryIsAnswered` |
| `PipelineStale` | the first of these settings | `MatrixOfItsOptions` is violated |
| `Implementation` | two settings: two requests sharing a task, the second at any time, with a task that may be unreachable; two in turn, two vehicles, one of which a task has no configuration of, a task with routes of its own, answers of two or three waypoints | `MissionIsLinked`, `OwnImplementationOneAtATime`, `DeliversPlans` (refinement), `AssignmentIsAnswered` |
| `ImplementationPartial` | one task with a route of its own, two requests, the second at any time | `ImplementationIsWhole` is violated |
| `LifeCycle` | two tasks, one of which has a place and whose service cannot be made; a configuration with a bridge and three messages, one with a second service, a duration and two messages | `DistinctIds`, `ServiceIsOnRecord`, `RecordIsServed`, `DestroyedWhenFinished`, `RequestedEndIsReached`, `KilledIsDestroyed` |
| `LifeCycleOrphan` | the same | `OnlyOnRecord` is violated |
| `Services` | five settings of joint planning (two requests that time out; late states with losses and other clients; identifier 0; a request that comes again to a vehicle that has flown on; three vehicles without timeouts), six of missions (two segments, three, segments that are too short, a new plan on the way, waypoints numbered by task for two vehicles, a task done with the first waypoint of a plan that ends on a loop), two of batches (three batches, with and without other clients, plans that pass two tasks in a row, end on a task or find none) | `CoordinationTypeOK`, `SamePlanningStates`, `AskedInFullOnce`, `NothingAskedInItsPlace`, `TakenIsAsked`; `SegmentsCoverPlan`, `SegmentsInTurn`, `CompleteWhenFlown`, `PlanIsFlown`; `SummariesAreOwn`, `BatchIsAnswered` |
| `MissionReplanned` | one vehicle, a new plan on the way that is numbered as the old one | `NextSegmentFollows` is violated |

**Why these bounds.** What goes wrong in this system goes wrong between two
requests (or two timers, tasks, plans, vehicles), one of which is older: two are
needed, and a third request in the validator lets one be in the pipeline, one
behind it and one waiting for its tasks. A shared task and one that is not shared
tell whether a request is stuck because of the other or not. Two vehicles are
there where their difference matters (planner, eligibility, configuration, state
not reported); three in one setting of the coordination, where two may agree on
what a third does not know. Three batches: one with relationships, one for two
vehicles that shares a task with it, one without a vehicle, which has no parts.
Three messages to the task manager are a task, its second coming and its removal,
or any of these beside the request to end.

Failures are put where they make a difference: a route that is never planned is
in the settings where requests come in turn, since for safety among overlapping
requests it is like an answer that comes later than everything else. Routes inside
a task are in the setting in turn only; among overlapping requests they are what
`ImplementationPartial` shows.

Counters are bounded by the instance: each request is published `MaxPublished`
times, each query sent once, a vehicle reports its state once, since a later
report changes nothing but numbers that are left out; `MaxPosition` bounds how
often a vehicle's planning state changes, `MaxClients` how many objects are made:
as many as the messages allowed can ask for. Only `MaxLate` cuts a behaviour off:
time does not pass while a queued timer is that late, so the worker is at most
one tick behind.

**Type invariants.** Where the composition is large the type invariant is
checked: `Validator`, `Pipeline`, `Services`. That of the `TimerManager` is proved.

**Deadlock.** In all but the timer runs everything may have been done, so that
the system stops; deadlock is checked in the two timer runs.

**Fairness.** Pipelines, life cycle and services: `WF_vars(Work)`, where `Work` is
every step of a thread of the process, and of what answers it: as long as some
thread can go on, one of them does. That is less than fairness of each service,
which `executeNetworkClient`, a loop that does nothing else, would justify, and
it is enough, for each handler uses up a message. `Work` has no clients, losses or
messages from outside. In the pipelines it has that a planner takes each request in the end and answers
it, unless a route fails,
in the life cycle that `terminate` succeeds in the end, in joint planning that the
planner answers and that times which run are over some time, in the missions that
vehicles fly what they were commanded, in the batches that the planner answers.
Validator: a started timer calls back (the timer manager's
`OverdueTimerIsServed` is what this rests on) and what the pipeline was sent is
answered or lost in the end; clients and tasks owe nothing. Timer manager:
handlers return, waits end, time passes; the worker gets `m_mutex` if it is free
again and again, which needs strong fairness because any number of calls may
come between, and is what a mutex gives in practice. Tasks offer options and
assignments are made (`OfferOptions`, `Summarize`), as the first half shows of
the second.

## 4. What the runs show

What holds holds for every interleaving of the instance. Where the code keeps a
promise only under a condition, the condition is part of the property and was
found by removing it:

- the validator settles each request once and in order, whatever times out; it
  settles *all* of them if the pipeline answers in the end and no task wait times
  out, or if there is never more than one request in its queues. The error for a
  request whose tasks did not come is addressed to the request published last
  (`OnTasksReadyTimeout`, line 369, does not set the identifier): the client
  concerned is not told, and another may be. `RightlyAddressed` says that this is
  the only case;
- the timer manager keeps its promise if nobody else starts a timer that is in its
  callback and deadlines do not coincide: the queue is searched by deadline, so
  that disabling a timer may take another with the same deadline out of it;
- the pipeline is correct for requests that come one at a time; for requests that
  overlap, which happens when the validator gives up on one, each matrix is still
  complete and of one moment, and there is at most one outcome, but options may be
  those of another request;
- the missions of overlapping requests are never mixed up in the
  `PlanBuilderService`, if each request is published once: it is refused before
  anything else, or gets one plan, with all tasks of its own summary but those
  reported as impossible by then, and nothing is reported afterwards. A task may be
  reported in the step that sends the plan, since the last answer may be empty;
- services run for exactly the tasks on record, with identifiers of their own, if
  everything configured was there before the first service was asked for
  (`QuietStart`): otherwise a constructor may take an identifier that was just
  given away. A service that was killed before it had subscribed (`Overtaken`)
  runs on. A requested end is reached unless a bridge is made afterwards
  (`BridgeTooLate`): nobody tells that one;
- a route request is answered once, with all its plans, or waits for a plan of
  which a route failed: its planner does not answer that one
  (`Services/RoutePlannerVisibilityService.cpp:227-241`), and the
  `RouteAggregatorService` has no timer, so that whoever asked is not told;
- vehicles plan from the same states whatever is late, lost or over, and do not ask
  again for what they have asked for in full, if identifiers are unique. To a
  vehicle that a request comes to again it is a new one: it broadcasts the state it
  is in by then, which replaces the first at all others while it may keep the first
  itself, and it asks again. Two of the
  conditions of the other properties are identifiers, too: a request 0 is taken for a
  blank one, and an answer to somebody else's request of the same identifier ends
  one's own. The coordinator adds the maximum response time to the clock
  (`Tasks/AssignmentCoordinatorTaskService.cpp:165`), so that −1, which is no limit
  according to the message definitions (`src/mdms/UXTASK.xml:81`), is over at
  once; a time that is over at once is one of the behaviours modelled;
- a plan is flown to its end if a segment has three waypoints more than the
  overlap (`Healthy`), the numbers of its waypoints are not those of the plan
  before, and no command came just when the timer was sending another
  (`overwritten`);
- a task is reported complete only by a vehicle that has turned to a waypoint of
  it, if plans have numbers of their own and two things hold of them
  (`Trackable`). A number that stands for a task (`m_taskEmit`) does so for every
  waypoint that has it, or lists it as a task: the map is one for all vehicles, so
  that a number which is a task for one vehicle would be reported as that task for
  another. And a plan that ends on a loop has a waypoint of its last task beyond
  the first, to which a vehicle is never sent: the override takes the last task
  listed, wherever it is listed, and reports it when the loop is flown;
- the summaries of a batch are its own if nobody else chooses the same
  identifiers: each is of every plan of the batch that has its leg, in the sense of
  the code. The code finds no leg to a task that follows another without a waypoint
  in between, nor to one that only the last waypoint of a plan is for; the summary
  of such a task is sent as if there were no plan.

Six runs show a disagreement between the code and what it says of itself; they
are the `findings` of `PROJECT.json`:

1. `ValidatorLost`: the request published from a timeout is not timed itself.
2. `TimerManagerTwice`: a periodic timer started again during its callback is
   queued twice and calls back twice a period from then on.
3. `PipelineStale`: options are taken for those of a newer request.
4. `ImplementationPartial`: while a task prepares the options for a newer
   request, the route for these is taken for one of the implementation of the
   older, which then lacks the waypoints that carry the task out.
5. `LifeCycleOrphan`: a task that comes twice quickly leaves its first service
   running, out of reach of any later message.
6. `MissionReplanned`: a report of the old plan puts the vehicle into the middle of
   the new one, since every plan is numbered from 1.

## 5. Proofs

The proofs are for any number of requests, timers, vehicles and so on, from the
assumptions on constants alone: null values are not values, functions are
functions, delays, periods, positions and identifiers are numbers, a fleet is
finite, configured services have names that are not tasks, services subscribe
to what their constructors say, a batch has finitely many parts, a plan numbers
its waypoints apart, and the divisor by which a number is that of a task is
positive. Every safety invariant of every passing run is proved (those of
`Implementation` for requests that are published once, as they are in that run,
and those of the missions that are about more than one segment for an overlap that
leaves room), and so are the refinements of `TimerService` and `PlanService`.
`PROJECT.json` lists the theorems.

**The front of the queue** (`AutomationRequestValidatorProofs`). `TypeCorrect` is
`Spec => []TypeOK`, `FrontPublished` is `Spec => []FrontIsPublished`: the first of
the pending queue is what was published last and what the error response is
addressed to. A timeout of the response timer trusts this: it sends the error
response to whomever it is addressed, and drops whatever is first.
`FrontIsPublished` is not inductive. When tasks become ready,
`checkTasksInitialized` appends their requests and publishes the first of the
queue only if the response timer is not active. If that timer could run with
nothing pending, the new first would stay unpublished. So the invariant has a
third conjunct, `ResponseIsAwaited`: the response timer runs only while a request
is pending. `IInv` is the conjunction of the three. The argument for a step goes
by the functions the handlers share: `SendNextRequestStep` (whatever it is given as
the new queue, its first is published and the error response addressed to it, or
the queue is empty and no timer is started), `CheckTasksInitializedStep` (the
queue grows at its end, and if it was empty its first is published),
`SendResponseStep`; `NextIInv` has one step for each action. The lemmas on
sequences say that cutting and joining queues keeps them queues and keeps the
front.

**Settlement** (the same module; this part assumes `DistinctIds`, that no two
requests share an identifier). `RequestSettledOnce`, `UnpublishedDetails`. With
shared identifiers the response to one request may take another out of the queue:
the code compares identifiers, and clients choose those of impact and task
requests. The invariant `SInv` adds to the two properties that the requests in the
queues differ from one another (`OneQueue`), that only requests received are queued
or replied to (`OnlySeen`), and that the error response and the pipeline concern
only requests that were published (`ErrorOfPublished`, `PipelineOfPublished`). The
last is why the task-wait timeout, which answers for the identifier that the error
response happens to have, cannot erase the details of a request that is still to
be published; for the response timeout it is `FrontIsPublished`. The lemmas say
what is in a queue that is cut, joined or served, that `checkTasksInitialized`
moves requests between the queues and loses none, and that a response which
concerns a request that leaves the queues with it settles that request.

**Order** (shared identifiers included). `RequestsInOrder`. The
property speaks of places in the sequence `accepted` by `CHOOSE`; the invariant
`OInv` says instead that there is a function which gives each request its place,
in which both queues increase, the pending one before the waiting one, what was
published never goes back and nothing published is behind what is queued. That
only what was accepted is queued, and accepted is what was seen, makes a new
request the last in line.

**Addresses**. `ClientsRightlyAddressed`; the premise
`DistinctIds` is in the property. The invariant `AInv` says what a record is good
for: it is of a request that was seen and under its own identifier
(`RecordedOfSeen`), there is none of a client that was given a response
(`ClosedByReply`), and there is one of each request in the queues, unless its
client was told of a task-wait timeout (`RecordedOrReported`).

**Timers** (`TimerManagerProofs`). `TypeCorrect` for all callers; `OnePlace` and
`NothingDangles` for callers that do not start a timer in its callback; `Implements`
if deadlines do not coincide either. One place per timer rests on the marks of a
timer: `executing` is set for the timer the worker serves and no other
(`WorkerServes`), and a queued timer has no request to be disabled or destroyed
left over (`QueuedAfresh`), which its next callback would take for a new one. The
theorem of refinement maps each action to one of `TimerService` or to a stutter.

**First half of the pipeline** (`MessageBusProofs`, `AssignmentPipelineProofs`).
`TypeCorrect`, `OneOutcomeHolds`, `MatrixHolds`, `OwnOptionsHold`, `QueryHolds`, for
any number of requests, tasks, vehicles, planners and route queries, any options
and any lag of the services. `PipelineAssumption` says what is used of the constants: who subscribes to what
(that the planners and the two services have names of their own, and that the
assignment service holds back until it has just what it subscribes to), that
there are finitely many vehicles, and that a request and a route query are for
some of them. A request is published once in this half, as the model has it.

What a step sends and changes is first brought into ten kinds (`StepKinds`): a
state, a request, a route query or an offer comes from outside, routes are
planned, the `RouteAggregatorService` takes a state, a request or options, a route
query, or a response, and the assignment service takes what it waits for. `Kinds`
shows that there are no others, with a lemma for each handler that goes
through `CheckAllTaskOptionsReceived` and `CheckAllRoutePlans`; then each part of
the invariant `IInv` has a lemma that it is kept, which goes by the kinds that can
disturb it:

- *One outcome.* A key is made when the request is read, for which it is the only
  one (`KeysOnce`), and erased when its matrix is sent (`MatricesOnce`); what is held for
  a request was read about it (`HeldIsRead`), and is given up with the outcome
  (`OutcomesOnce`), after which its request cannot be read again.
- *The routes of one moment.* The property is not inductive, since a matrix is
  made from `pendingAuto`, whose entry may have been replaced by each option since.
  `RoutesOfOneMoment` says that every entry there is complete for the options as
  they were at some place in the log, `OptionsAreLatest` that what the service has of a
  task is what it offered last of what was read, `KeysBacked` and `RequestsBacked` that
  every vehicle of the request is known, or in its planning states, so that no
  vehicle is left out in silence.
- *Own options.* When requests come one at a time, an outcome follows a matrix
  (`OutcomesLast`), so the options of other requests are those of requests that have
  a matrix or of none that is published; all tasks of a request that is asked for
  have offered for it (`OwnOffersRead`), no option in store is of a request that has
  its matrix (`OptionsUnsettled`), hence routes asked for are between own options
  (`OwnRoutes`). Without that premise the property fails (`PipelineStale`).
- *Queries.* What is awaited for a route query was read, has no answer yet, and is one
  plan for each of the vehicles it lists, or of the known ones (`QueriesAwaited`); a
  response that is counted came (`ResponsesCame`).

**Second half of the pipeline** (`PlanImplementationProofs`). `MissionsHold`,
`MissionsAreLinked` and `OwnImplementationHolds` say that the three invariants of
`Implementation` hold as long as no request was published twice (`PublishedOnce`),
and `PublishedOnceHolds` that all of it holds always if `MaxPublished = 1`. For a
request that is published again the premise cannot be left out: the service starts
over while the answers to the first time are under way, which is the hazard at
`PlanBuilderService.cpp:309`. The validator publishes a request again if it is
still the first when others have become ready and the response timer does not run,
as after `ValidatorLost`.

Since a log only grows (`Grows`), `PublishedOnce` was true before a step if it is
after it, so `IInv`, which is `PublishedOnce => Inv`, is inductive if `Inv` is kept by
steps that keep the premise. `Kinds` brings the steps into kinds as above. The parts
of `Inv`:

- *The bus.* A request has one summary (`SummariesOnce`). Nothing is asked for a
  request before the service has read of it (`BuiltAreRead`), nor after its outcome
  (`OutcomesLast`).
- *The chain.* Each implementation request has an identifier of its own, under which
  its answer is expected (`AsksExpected`); a task implements what it was asked
  (`ImplementedAreAsked`), and answers once (`AnswersOnce`).
- *The missions.* What is done, what is asked and what remains make up the summary
  without the tasks reported as impossible, and the projected state of each vehicle
  is the end of its mission (`AllInHand`); hence a response is made of the whole
  summary (`AllAnswered`). The property asks for the place of each task in
  the summary; `WayIsMission` gives it by `CHOOSE` from the place it was asked at.
- *The tasks.* Options were offered before the summary that uses them
  (`OffersBacked`), a task awaits the routes of one route request at most
  (`AwaitedOnce`), and it has built the options that it offered last, unless a
  newer request overtook them (`OfferedAreBuilt`). When requests come in turn there is
  none such, so what a task implements with is its own (`OwnTasks`, `OwnAnswers`).

`PlansDelivered` is the refinement, with `MaxPublished = 1`: `Spec => DeliversPlans`;
`ImplementsPlanService` says it of any one request as `Spec => Promise(r)!Spec`. The
promise is kept by the steps, not by what is there in the end, so the invariant is
used at both ends of a step. A summary is an `Assign`, since there was none
(`SummaryAssigns`); reading one that is not accepted is a `Refuse`, since nothing
was done or reported of it (`RefusalRefuses`). An answer that the `PlanBuilderService`
gets on with is a `Report`, a `Deliver` or a stutter (`ServingPromises`): a task left
out is the one that was asked, hence listed in the summary, there was no outcome
before, and what is complete is a tour of what was assigned (`WayIsTour`). For all
other requests these steps are stutters (`PromiseStays`), because a step brings
news of one request only (`Concerns`). `MissionsHold` is what follows of the response alone.

**Joint planning** (`FleetProofs`). `Typed`, `Same`, `AskedOnce`,
`NothingInItsPlace`. That two vehicles plan an entity from the same state is not
inductive, since states are under way and a request may be taken up later. The
invariant `Agreement` says that there is a function from vehicles and requests to
positions, or to "not settled", with which all that is collected, asked for and
under way agrees; a vehicle that takes a request settles its own position, and
takes one that is unique no second time; of others nothing is said. `Once` says that
what a vehicle has asked for in full it was brought, and will not be again if it comes
to it once, and that it holds at most a blank of it then; `Served` that a request
whose time is running is held, or was asked for with its tasks, or was ended by an
answer to somebody else.

**Life cycle** (`ServiceLifeCycleProofs`). `TypeCorrect`, `IdentifiersDistinct`,
`RunningIsOnRecord`, `RecordServed`, `DestroyedFinished`. The proof first shows that
every step is of one of four kinds (`StepKinds`): nothing is asked for or made, a
task is given a new service, or an object is made by the main thread or by the
manager; what a step does to objects, log and record is the same for all four
(`AnyStep`). Each part of the invariant is then preserved by each kind. Identifiers
are distinct because those that are given out grow along the log (`CreatesInOrder`), the
manager makes each object when it reads of it and reads of it once
(`TaskClientsMade`), the others count below the next one (`OthersCounted`), and, after a
quiet start, below all that were given out (`OthersBefore`); so an identifier that
the manager reads of is never taken, and no service is destroyed at once. The record
and the services agree because a service that was asked for stays on record until
somebody kills it (`OnRecordOrKilled`), a running one has read no message that kills it
(`RunsUnkilled`), and nobody kills what is on record before the end is begun
(`RecordUnkilled`).

**Batches** (`FleetProofs`). `OwnSummaries`, for any batches, however many are
worked on at once, and plans of any length. The property says what a leg is by the
waypoints where one begins; that the walk of the code finds just these is
`WalkFindsLegs`: after each waypoint it has recorded the legs begun before, but for
the one it is on (`Walked`), by the least waypoint for which this would be wrong. The premise, in the property, is that no other client of the
planner chooses the same identifiers. The invariant `BatchInv`: what was asked has
an identifier of its own, below the next one, and is of a batch that has arrived
(`AskedApart`); a batch is worked on once (`WorkedOnOnce`), waits for just those of
its parts that are before the planner and has what was planned for it
(`WaitsForItsParts`); one that was answered has no part there (`AnsweredInFull`).
The last keeps an answer that went out from being wrong later, when another plan
for its batch would come.

**Missions** (`MissionExecutionProofs`). `Covered` is `MissionSpec =>
[]SegmentsCoverPlan`, for plans of any length and any numbers of waypoints to serve
and to overlap, which the property says leave room. What `CutOf` gives after each
waypoint is `IsCutWell`: the segments that are done and the two that are being
filled follow one another along the plan, and the second one is begun when the
first has room for less than the overlap. Each waypoint keeps this, whether it
still fits (`WithinWell`) or not (`OverflowWell`). Induction along the plan is
through the least length for which it would be wrong (`Least`, `UpTo`).

`GivenInTurn` says that `SegmentsInTurn` holds if the overlap leaves room
(`Healthy`, which all settings of the run but `TooShort` satisfy, and which the
configuration of the service does not enforce). A step is
seen from one vehicle and its manager, for which there are eight kinds (`StepIs`).
What has to be shown is that a report, however late, does not make the manager
skip a segment or go back to one. `InTurn(v)` has a part for each thing under way:

- *Numbers.* The numbers of the plan, of those that are still to come and of those
  that are past do not meet (`PlansApart`); what is past stays past, so that an old
  report or command is known by its numbers.
- *Commands.* What is to be sent and what is under way is of the segment last
  chosen or of a plan that is past (`OrdersFit`); commands come with growing
  identifiers, and the pointer of the timer holds nothing that was sent already
  (`OrdersGrow`); one that is not the first of its plan is alone under way, and the
  vehicle has been given the one before (`OrdersFollow`).
- *Place.* `Where(v, n)` is the segment a report of waypoint n makes the manager
  choose: the last that has it behind its first place (`OneChosen`). It grows along
  the plan (`PlaceGrows`), and along a segment it does not go beyond the next one
  (`PlaceNear`), which needs a segment to begin after the one before the last
  has ended. So the vehicle is not behind the segment last chosen (`CourseFits`), and its
  reports are of that segment, or of the one after it if the vehicle has its
  command, and in the order of the plan (`ReportsFit`).

A manager that does choose another segment thus chooses the next one, has sent the
command before, and nothing is under way (`ReadsIs`, `NoneUnderWay`). The premise
that numbers are not used again cannot be left out (`MissionReplanned`).

`ReportedWhenFlown` says the same of `CompleteWhenFlown`. The tracker hears of
plans, commands and vehicles through an inbox of its own, so that what it hears
may be older than what it has. The invariant `TrackInv` therefore does not relate
the tracker to where a vehicle is, but to what is true once and for all: which
plans there are and which waypoints a vehicle has turned to (`flown`, which only
grows). It has two layers:

- *The vehicle* (`Flight`). A vehicle has turned to every waypoint of its plan
  before the one it turned to, from the second on (`FlownInTurn`): commands start
  at waypoints that it has led up to (`OrdersLead`, `CourseLeads`), for the segment
  to come is chosen by a report, a report is of a waypoint turned to
  (`HearsOfFlown`), and by `SegmentsInTurn` the one chosen is the next. This is
  where the overlap must leave room.
- *The tracker* (`TracksWell`). What is under way to it is a plan there is, a
  report of a waypoint turned to, or a command that is a piece of a plan
  (`TracksFlown`); the mission it has is such a piece, its tasks in progress were
  done, and its override is a task of a waypoint on the way to the loop it waits
  for (`Follows`, `OverrideFits`); a number in `m_taskEmit` stands for a task of
  some waypoint (`NumbersStand`); what it has reported was done (`CompletedFlown`).

That the override fits does not follow from the override alone: that its task has
been done follows only when the loop is reported, because by then every waypoint
before it has been turned to. Since numbers identify waypoints, a report that is
older than the mission is of a waypoint that is not in it. The two
conditions of `Trackable` were found because the invariant was not inductive
without them; the settings `ByTask` and `AtOnce` are there to exercise them.

Not proved but checked by the runs is what is to happen in the end: liveness
under fairness and `ENABLED` are outside what the prover does.

## 6. Not modelled

- Data races proper: two threads in one container at the same time. The models
  interleave whole handlers and callbacks.
- Numbers: locations, costs, times, the search for the best assignment, the
  planning of routes. That is most of the code: geometry (`Plans`, `VisilibityLib`,
  `DPSS`), planners, generated or bundled libraries (XML, serial, logging) and input
  and output make up by far the most of its lines, and the results of that code
  are inputs here: the models take any of them. What is modelled is what services do to each other.
- `FastPlan` of the `RouteAggregatorService`, with which it makes straight-line
  plans itself during its iteration.
- The restart of a task that a vehicle was performing; what task services do in
  the hooks of `TaskServiceBase`, and `DynamicTaskServiceBase`.
- What a request requires besides its tasks: that is a free verdict.
- Loiters, speeds and camera angles that the waypoint manager adds to a last
  waypoint, and the option `LoopBackToFirstTask`, off unless configured, with which
  that waypoint leads back to the first of the plan
  (`Services/WaypointPlanManagerService.cpp:423-426`); conflicts with zones in a batch.
- The services listed in `PROJECT.json` as not modelled.

`PROJECT.json` lists the hazards of the code, each at its line and with the
property that would show it, or the reason why there is none. Not in that list,
because they are local to a function of a part that is left out or need numbers
out of reach here: the check for a vehicle with both state and configuration that
compares the configurations with themselves
(`AutomationRequestValidatorService.cpp:531`), options with an empty list of
eligible entities in the cost table (`AssignmentTreeBranchBoundBase.cpp:527`), the
front of an empty mission list and overrides of other requests
(`PlanBuilderService.cpp:491, 350`), identifiers of tasks that are kept in an `int`
while a plan of a batch is read (`BatchSummaryService.cpp:401-411`), and timers whose destruction was given up
while their service is destroyed (`WaypointPlanManagerService.cpp:172`).

## 7. Plan

In this order:

1. **FastPlan** and the `EuclideanPlan` of the `RouteAggregatorService`; the
   restart of tasks in `TaskService`; the requirements of requests as operators
   checked against a reference.
2. `DynamicTaskServiceBase`: the routes that a task asks for while it is performed,
   beside those of `TaskServiceBase`.
3. The first half of the pipeline beneath the same promise: an abstract specification
   from the request to its assignment, which today is a set of invariants.
