---------------------- MODULE AssignmentPipelineProofs ----------------------
(***************************************************************************)
(* Proofs about the first half of the assignment pipeline: its invariants  *)
(* hold for any number of requests, tasks, vehicles and planners, whatever *)
(* options the tasks offer and in whatever order the services read.        *)
(***************************************************************************)
EXTENDS AssignmentPipeline, MessageBusProofs, FiniteSetTheorems

-----------------------------------------------------------------------------
(***************************************************************************)
(* The messages there are on the bus, by their type.                       *)
(***************************************************************************)
IsState(m) ==
    DOMAIN m = {"type", "vehicle"} /\ m.type = "EntityState" /\ m.vehicle \in Vehicle
IsRequest(m) ==
    DOMAIN m = {"type", "about"} /\ m.type = "UniqueAutomationRequest" /\ m.about \in Request
IsQuery(m) ==
    /\ DOMAIN m = {"type", "id", "vehicles"}
    /\ m.type = "RouteRequest" /\ m.id \in RouteQuery /\ m.vehicles \subseteq Vehicle
IsOffer(m) ==
    /\ DOMAIN m = {"type", "about", "task", "options"}
    /\ m.type = "TaskPlanOptions" /\ m.about \in Request /\ m.task \in Task
IsPlanRequestBelow(m, n) ==
    /\ DOMAIN m = {"type", "to", "id", "vehicle", "routes"}
    /\ m.type = "RoutePlanRequest" /\ m.to \in Planner /\ m.id \in 0 .. n - 1
    /\ m.vehicle \in Vehicle
IsPlanRequest(m) == IsPlanRequestBelow(m, nextPlan)
IsPlanResponseBelow(m, n) ==
    /\ DOMAIN m = {"type", "to", "id", "routes"}
    /\ m.type = "RoutePlanResponse" /\ m.to = "RouteAggregator" /\ m.id \in 0 .. n - 1
IsPlanResponse(m) == IsPlanResponseBelow(m, nextPlan)
IsRouteResponse(m) == DOMAIN m = {"type", "id", "plans"} /\ m.type = "RouteResponse"
IsMatrix(m) ==
    DOMAIN m = {"type", "about", "costs"} /\ m.type = "AssignmentCostMatrix" /\ m.about \in Request
IsOutcome(m) ==
    /\ DOMAIN m = {"type", "about"}
    /\ m.type \in {"TaskAssignmentSummary", "ServiceStatus"}
IsMessageBelow(m, n) ==
    \/ IsState(m) \/ IsRequest(m) \/ IsQuery(m) \/ IsOffer(m) \/ IsPlanRequestBelow(m, n)
    \/ IsPlanResponseBelow(m, n) \/ IsRouteResponse(m) \/ IsMatrix(m) \/ IsOutcome(m)
IsMessage(m) == IsMessageBelow(m, nextPlan)

(***************************************************************************)
(* The bus, and the state of the services.                                 *)
(***************************************************************************)
BusOK ==
    /\ IsSequence(log)
    /\ read \in [Service -> Nat]
    /\ \A s \in Service : read[s] <= Len(log)
    /\ \A i \in DOMAIN log : IsMessage(log[i])
AggregatorOK ==
    /\ known \subseteq Vehicle
    /\ nextKey \in Nat \ {0} /\ nextPlan \in Nat \ {0}
    /\ DOMAIN automation \subseteq 1 .. nextKey - 1
    /\ \A k \in DOMAIN automation : automation[k] \in [about : Request, vehicles : SUBSET Vehicle]
    /\ DOMAIN options \subseteq Task
    /\ DOMAIN pendingAuto \subseteq DOMAIN automation
    /\ IsFiniteSet(DOMAIN pendingRoute)
    /\ \A q \in DOMAIN pendingRoute : pendingRoute[q] \subseteq 1 .. nextPlan - 1
    /\ responses \subseteq 0 .. nextPlan - 1

(***************************************************************************)
(* Who has read what.                                                      *)
(***************************************************************************)
RequestsOnce ==
    \A i, j \in Published("UniqueAutomationRequest") : log[i].about = log[j].about => i = j
RequestsRead(s) == {log[i].about : i \in ReadBy(s, "UniqueAutomationRequest")}
KeysOnce ==
    /\ \A k \in DOMAIN automation : automation[k].about \in RequestsRead("RouteAggregator")
    /\ \A k, l \in DOMAIN automation : automation[k].about = automation[l].about => k = l
MatricesOnce ==
    /\ \A i \in Published("AssignmentCostMatrix") :
           /\ log[i].about \in RequestsRead("RouteAggregator")
           /\ \A k \in DOMAIN automation : automation[k].about # log[i].about
    /\ \A i, j \in Published("AssignmentCostMatrix") : log[i].about = log[j].about => i = j
HeldIsRead ==
    /\ DOMAIN held = Request
    /\ \A r \in Request : \A m \in held[r] :
           m.about = r /\ \E i \in DOMAIN log : i <= read["AssignmentTree"] /\ log[i] = m
HeldIsFunction == held = [r \in Request |-> held[r]]
OutcomesOnce ==
    /\ \A i \in Outcomes :
           /\ log[i].about \in RequestsRead("AssignmentTree")
           /\ log[i].about \in Request =>
                  \A m \in held[log[i].about] : m.type # "UniqueAutomationRequest"
    /\ \A i, j \in Outcomes : log[i].about = log[j].about => i = j

(***************************************************************************)
(* The RouteRequests.                                                      *)
(***************************************************************************)
QueriesOnce ==
    \A i, j \in Published("RouteRequest") : log[i].id = log[j].id => i = j
KnownIsReported == known = {log[i].vehicle : i \in ReadBy("RouteAggregator", "EntityState")}
ResponsesCame ==
    \A n \in responses : \E i \in ReadBy("RouteAggregator", "RoutePlanResponse") : log[i].id = n
QueriesRead == {log[i].id : i \in ReadBy("RouteAggregator", "RouteRequest")}
IsPlannedFor(ids, q) ==
    /\ ids # {} /\ ids \subseteq 1 .. nextPlan - 1
    /\ PlannedVehicles(ids) = QueriedVehicles(q)
QueriesAwaited ==
    \A q \in DOMAIN pendingRoute :
        q \in QueriesRead /\ Answers(q) = {} /\ IsPlannedFor(pendingRoute[q], q)
QueriesAnswered ==
    /\ \A i \in Published("RouteResponse") :
           /\ log[i].id \in QueriesRead
           /\ IsPlannedFor(log[i].plans, log[i].id)
           /\ \A n \in log[i].plans : \E j \in Published("RoutePlanResponse") : j < i /\ log[j].id = n
    /\ \A i, j \in Published("RouteResponse") : log[i].id = log[j].id => i = j

(***************************************************************************)
(* The options.                                                            *)
(***************************************************************************)
OffersOnce ==
    /\ \A i \in Published("TaskPlanOptions") :
           /\ log[i].task \in TasksOf[log[i].about]
           /\ \E j \in Published("UniqueAutomationRequest") : j < i /\ log[j].about = log[i].about
    /\ \A i, j \in Published("TaskPlanOptions") :
           log[i].task = log[j].task /\ log[i].about = log[j].about => i = j
LatestAt(p, t, j) == j \in OptionsAt(p, t) /\ \A i \in OptionsAt(p, t) : i <= j
OptionsAreLatest ==
    \A t \in DOMAIN options :
        \E j \in DOMAIN log : LatestAt(read["RouteAggregator"], t, j) /\ log[j] = options[t]

(***************************************************************************)
(* The routes of one moment.                                               *)
(***************************************************************************)
EndsIn(costs, v) == {<<c.from, c.to>> : c \in {x \in costs : x.vehicle = v}}
HasAllEnds(costs, r, opts) ==
    /\ \A c \in costs : EndsIn(costs, c.vehicle) = Ends(r, opts, c.vehicle)
    /\ \A v \in VehiclesOf[r] : EndsIn(costs, v) = Ends(r, opts, v)
IsOfMoment(costs, r, p) ==
    /\ \A t \in TasksOf[r] : \E j \in DOMAIN log : LatestAt(p, t, j)
    /\ HasAllEnds(costs, r, LatestOptions(r, p))
RequestsBacked ==
    \A i \in Published("UniqueAutomationRequest") : \A v \in VehiclesOf[log[i].about] :
        v \in PlannedFor[log[i].about] \/ \E j \in Published("EntityState") : j < i /\ log[j].vehicle = v
KeysBacked ==
    \A k \in DOMAIN automation :
        LET r == automation[k].about
        IN  /\ VehiclesOf[r] # {} => automation[k].vehicles = VehiclesOf[r]
            /\ VehiclesOf[r] \subseteq known \cup PlannedFor[r]
RoutesOfOneMoment ==
    \A k \in DOMAIN pendingAuto :
        \E p \in 1 .. read["RouteAggregator"] : IsOfMoment(pendingAuto[k], automation[k].about, p)
MatricesOfOneMoment ==
    \A i \in Published("AssignmentCostMatrix") :
        \E p \in 1 .. i : IsOfMoment(log[i].costs, log[i].about, p)

(***************************************************************************)
(* One request at a time.                                                  *)
(***************************************************************************)
OutcomesLast ==
    \A i \in Outcomes : \E j \in Published("AssignmentCostMatrix") : j < i /\ log[j].about = log[i].about
OffersRead == {<<log[i].task, log[i].about>> : i \in ReadBy("RouteAggregator", "TaskPlanOptions")}
OwnOffersRead ==
    /\ \A k \in DOMAIN pendingAuto : \A t \in TasksOf[automation[k].about] :
           <<t, automation[k].about>> \in OffersRead
    /\ \A i \in Published("AssignmentCostMatrix") : \A t \in TasksOf[log[i].about] :
           <<t, log[i].about>> \in OffersRead
OptionsUnsettled ==
    \A t \in DOMAIN options : \A i \in Published("AssignmentCostMatrix") : log[i].about # options[t].about
OwnRoutes ==
    \A k \in DOMAIN pendingAuto : \A e \in pendingAuto[k] : e.to.about = automation[k].about
OwnOptions == OneAtATime => OwnOffersRead /\ OptionsUnsettled /\ OwnRoutes /\ MatrixOfItsOptions
IInv ==
    /\ BusOK /\ AggregatorOK
    /\ RequestsOnce /\ KeysOnce /\ MatricesOnce /\ HeldIsRead /\ HeldIsFunction /\ OutcomesOnce
    /\ QueriesOnce /\ KnownIsReported /\ ResponsesCame /\ QueriesAwaited /\ QueriesAnswered
    /\ OffersOnce /\ OptionsAreLatest
    /\ RequestsBacked /\ KeysBacked /\ RoutesOfOneMoment /\ MatricesOfOneMoment
    /\ OutcomesLast /\ OwnOptions
-----------------------------------------------------------------------------
(***************************************************************************)
(* Lists of the elements of a finite set, and entries of functions.        *)
(***************************************************************************)
LEMMA SetListed ==
    ASSUME NEW S, IsFiniteSet(S)
    PROVE  /\ Cardinality(S) \in Nat
           /\ SetToSeq(S) \in [1 .. Cardinality(S) -> S]
           /\ \A i, j \in 1 .. Cardinality(S) : SetToSeq(S)[i] = SetToSeq(S)[j] => i = j
           /\ \A x \in S : \E i \in 1 .. Cardinality(S) : SetToSeq(S)[i] = x
<1> DEFINE n == Cardinality(S)
           P(f) == IsInjective(f)
<1>1. n \in Nat /\ ExistsBijection(1 .. n, S)
    BY FS_CardinalityType
<1>2. PICK f \in [1 .. n -> S] : \A i, j \in 1 .. n : f[i] = f[j] => i = j
    BY <1>1 DEF ExistsBijection, Bijection, Injection, IsInjective
<1>3. P(f)
    BY <1>2 DEF IsInjective
<1>4. SetToSeq(S) = CHOOSE g \in [1 .. n -> S] : P(g)
    BY DEF SetToSeq
<1> HIDE DEF P, n
<1>5. SetToSeq(S) \in [1 .. n -> S] /\ P(SetToSeq(S))
    BY <1>2, <1>3, <1>4
<1>6. SetToSeq(S) \in Injection(1 .. n, S)
    BY <1>5 DEF P, Injection
<1>7. IsFiniteSet(1 .. n) /\ Cardinality(1 .. n) = n
    BY <1>1, FS_Interval
<1>8. SetToSeq(S) \in Surjection(1 .. n, S)
    BY <1>6, <1>7, FS_Injection DEF n
<1>9. \A x \in S : \E i \in 1 .. n : SetToSeq(S)[i] = x
    BY <1>8 DEF Surjection
<1>10. \A i, j \in 1 .. n : SetToSeq(S)[i] = SetToSeq(S)[j] => i = j
    BY <1>5 DEF P, IsInjective
<1> QED BY <1>1, <1>5, <1>9, <1>10 DEF n

LEMMA Entry ==
    ASSUME NEW f, NEW k, NEW e
    PROVE  /\ DOMAIN WithEntry(f, k, e) = {k} \cup DOMAIN f
           /\ WithEntry(f, k, e)[k] = e
           /\ \A x \in DOMAIN f : x # k => WithEntry(f, k, e)[x] = f[x]
BY DEF WithEntry

LEMMA Restricted ==
    ASSUME NEW f, NEW S
    PROVE  DOMAIN Restrict(f, S) = S /\ \A x \in S : Restrict(f, S)[x] = f[x]
BY DEF Restrict

-----------------------------------------------------------------------------
(***************************************************************************)
(* The kinds of steps: what each publishes, and what it changes.           *)
(***************************************************************************)
OfOthers == UNCHANGED <<read, aggregation, held>>
IsNewRequest(m) ==
    /\ IsRequest(m) /\ ~IsPublished(m.about)
    /\ \A v \in VehiclesOf[m.about] : HasReported(v) \/ v \in PlannedFor[m.about]
IsNewQuery(m) == IsQuery(m) /\ QueryAt(m.id) = {}
IsNewOffer(m) ==
    /\ IsOffer(m) /\ IsPublished(m.about) /\ m.task \in TasksOf[m.about]
    /\ \A i \in Published("TaskPlanOptions") : log[i].task = m.task => log[i].about # m.about

Reported == OfOthers /\ \A i \in News : IsState(log'[i])
Requested == OfOthers /\ \E m : Sent(m) /\ IsNewRequest(m)
Queried == OfOthers /\ \E m : Sent(m) /\ IsNewQuery(m)
Offered == OfOthers /\ \E m : Sent(m) /\ IsNewOffer(m)
RoutesPlanned ==
    /\ \A i \in News : IsPlanResponse(log'[i])
    /\ read'["RouteAggregator"] = read["RouteAggregator"]
    /\ read'["AssignmentTree"] = read["AssignmentTree"]
    /\ UNCHANGED <<aggregation, held>>

(* What HandleEntityState, HandleRouteRequest and the others do. *)
Learned(i) ==
    /\ HasRead("RouteAggregator", i) /\ IsState(log[i])
    /\ News = {}
    /\ known' = known \cup {log[i].vehicle}
    /\ UNCHANGED <<held, collector, aggregator>>

CollectedFrom(reqs, opts) ==
    /\ \A i \in News : IsPlanRequest(log'[i]) /\ log'[i].id = 0
    /\ AwaitRoutes(Complete(reqs, opts), reqs, opts, pass + 1)
    /\ automation' = [k \in DOMAIN reqs |->
                         IF k \in Complete(reqs, opts)
                         THEN [reqs[k] EXCEPT !.vehicles = Considered(reqs[k])] ELSE reqs[k]]
    /\ options' = opts
    /\ UNCHANGED <<held, known, plans, aggregator>>
NewEntry(r) == [about |-> r, vehicles |-> VehiclesOf[r]]
CollectedRequest(i) ==
    /\ HasRead("RouteAggregator", i) /\ IsRequest(log[i])
    /\ nextKey' = nextKey + 1
    /\ CollectedFrom(WithEntry(automation, nextKey, NewEntry(log[i].about)), options)
CollectedOptions(i) ==
    /\ HasRead("RouteAggregator", i) /\ IsOffer(log[i])
    /\ nextKey' = nextKey
    /\ CollectedFrom(automation, WithEntry(options, log[i].task, log[i]))

NewIds == nextPlan .. nextPlan' - 1
RoutesAsked(i) ==
    LET vehicles == IF log[i].vehicles = {} THEN known ELSE log[i].vehicles
        was      == IF log[i].id \in DOMAIN pendingRoute THEN pendingRoute[log[i].id] ELSE {}
    IN  /\ HasRead("RouteAggregator", i) /\ IsQuery(log[i])
        /\ nextPlan' \in Nat /\ nextPlan <= nextPlan'
        /\ pendingRoute' = IF NewIds = {} THEN pendingRoute
                           ELSE WithEntry(pendingRoute, log[i].id, was \cup NewIds)
        /\ \A j \in News : /\ log'[j].id \in NewIds /\ log'[j].vehicle \in vehicles
                           /\ IsPlanRequestBelow(log'[j], nextPlan')
        /\ \A v \in vehicles : \E j \in News : log'[j].vehicle = v
        /\ UNCHANGED <<held, known, collector, responses>>

Fulfilled(i) == {k \in DOMAIN pendingAuto : pendingAuto[k] \subseteq plans \cup log[i].routes}
Satisfied(i) == {q \in DOMAIN pendingRoute : pendingRoute[q] \subseteq responses \cup {log[i].id}}
CostsOf(routes) == {[vehicle |-> e.vehicle, from |-> e.from, to |-> e.to] : e \in routes}
IsMatrixOf(m, k) ==
    /\ DOMAIN m = {"type", "about", "costs"} /\ m.type = "AssignmentCostMatrix"
    /\ m.about = automation[k].about /\ m.costs = CostsOf(pendingAuto[k])
IsResponseTo(m, q) ==
    /\ DOMAIN m = {"type", "id", "plans"} /\ m.type = "RouteResponse"
    /\ m.id = q /\ m.plans = pendingRoute[q]
Responded(i) ==
    /\ HasRead("RouteAggregator", i) /\ IsPlanResponse(log[i])
    /\ \A j \in News : \/ \E k \in Fulfilled(i) : IsMatrixOf(log'[j], k)
                       \/ \E q \in Satisfied(i) : IsResponseTo(log'[j], q)
    /\ \A j, x \in News : \A k \in Fulfilled(i) : IsMatrixOf(log'[j], k) /\ IsMatrixOf(log'[x], k) => j = x
    /\ \A j, x \in News : \A q \in Satisfied(i) : IsResponseTo(log'[j], q) /\ IsResponseTo(log'[x], q) => j = x
    /\ responses' \subseteq responses \cup {log[i].id}
    /\ pendingRoute' = Restrict(pendingRoute, DOMAIN pendingRoute \ Satisfied(i))
    /\ Discard(Fulfilled(i)) /\ ClearOptions(Fulfilled(i))
    /\ UNCHANGED <<held, known, nextKey, pass, nextPlan>>

IsPrerequisite(m) == IsRequest(m) \/ IsOffer(m) \/ IsMatrix(m)
Prepared(i) ==
    /\ HasRead("AssignmentTree", i) /\ IsPrerequisite(log[i])
    /\ held' = [held EXCEPT ![log[i].about] = Kept(log[i])]
    /\ News = {}
    /\ UNCHANGED aggregation
Assigned(i) ==
    /\ HasRead("AssignmentTree", i) /\ IsPrerequisite(log[i])
    /\ IsAssignmentReady(log[i].about, Kept(log[i]))
    /\ held' = [held EXCEPT ![log[i].about] = {}]
    /\ \E m : Sent(m) /\ IsOutcome(m) /\ m.about = log[i].about
    /\ UNCHANGED aggregation

StepKinds ==
    \/ Reported \/ Requested \/ Queried \/ Offered \/ RoutesPlanned
    \/ \E i \in DOMAIN log :
          \/ Learned(i) \/ CollectedRequest(i) \/ CollectedOptions(i)
          \/ RoutesAsked(i) \/ Responded(i)
          \/ Prepared(i) \/ Assigned(i)
-----------------------------------------------------------------------------
(***************************************************************************)
(* Every step is of one of these kinds.  First those of the environment    *)
(* and the planners.                                                       *)
(***************************************************************************)
LEMMA OneSent ==
    ASSUME BusOK, NEW m, log' = Append(log, m), UNCHANGED read
    PROVE  AnyStep /\ Sent(m)
BY Appended DEF BusOK, BusTyped

LEMMA OutsideKinds ==
    ASSUME BusOK,
           \/ \E v \in Vehicle : ReportState(v)
           \/ \E r \in Request : SendRequest(r)
           \/ \E q \in RouteQuery : SendQuery(q)
           \/ \E t \in Task : OfferOptions(t)
    PROVE  AnyStep /\ StepKinds
<1>1. ASSUME NEW v \in Vehicle, ReportState(v)
      PROVE  AnyStep /\ Reported
    <2> DEFINE m == [type |-> "EntityState", vehicle |-> v]
    <2>1. log' = Append(log, m) /\ OfOthers
        BY <1>1 DEF ReportState, Publish, OfOthers
    <2>2. IsState(m)
        BY DEF IsState
    <2> HIDE DEF m
    <2>3. AnyStep /\ Sent(m)
        BY <2>1, OneSent DEF OfOthers
    <2> QED BY <2>1, <2>2, <2>3 DEF Reported, Sent
<1>2. ASSUME NEW r \in Request, SendRequest(r)
      PROVE  AnyStep /\ Requested
    <2> DEFINE m == [type |-> "UniqueAutomationRequest", about |-> r]
    <2>1. log' = Append(log, m) /\ OfOthers
        BY <1>2 DEF SendRequest, Publish, OfOthers
    <2>2. IsNewRequest(m)
        BY <1>2 DEF IsNewRequest, IsRequest, SendRequest
    <2> HIDE DEF m
    <2>3. AnyStep /\ Sent(m)
        BY <2>1, OneSent DEF OfOthers
    <2> QED BY <2>1, <2>2, <2>3 DEF Requested
<1>3. ASSUME NEW q \in RouteQuery, SendQuery(q)
      PROVE  AnyStep /\ Queried
    <2>1. PICK vs \in QueryVehicles : Publish([type |-> "RouteRequest", id |-> q, vehicles |-> vs])
        BY <1>3 DEF SendQuery
    <2> DEFINE m == [type |-> "RouteRequest", id |-> q, vehicles |-> vs]
    <2>2. log' = Append(log, m) /\ OfOthers
        BY <2>1 DEF Publish, OfOthers
    <2>3. IsNewQuery(m)
        BY <1>3, PipelineAssumption DEF IsNewQuery, IsQuery, SendQuery
    <2> HIDE DEF m
    <2>4. AnyStep /\ Sent(m)
        BY <2>2, OneSent DEF OfOthers
    <2> QED BY <2>2, <2>3, <2>4 DEF Queried
<1>4. ASSUME NEW t \in Task, OfferOptions(t)
      PROVE  AnyStep /\ Offered
    <2>1. PICK i \in Concerns(t) :
              /\ \A j \in Concerns(t) : HasOptions(t, log[j].about) => j < i
              /\ Publish([type |-> "TaskPlanOptions", about |-> log[i].about, task |-> t,
                          options |-> OptionsOf[t]])
        BY <1>4 DEF OfferOptions
    <2> DEFINE m == [type |-> "TaskPlanOptions", about |-> log[i].about, task |-> t,
                     options |-> OptionsOf[t]]
    <2>2. log' = Append(log, m) /\ OfOthers
        BY <2>1 DEF Publish, OfOthers
    <2>3. i \in Published("UniqueAutomationRequest") /\ t \in TasksOf[log[i].about] /\ i \in DOMAIN log
        BY DEF Concerns, Published
    <2>4. log[i].about \in Request
        <3>1. IsMessage(log[i]) /\ log[i].type = "UniqueAutomationRequest"
            BY <2>3 DEF BusOK, Published
        <3> QED BY <3>1 DEF IsMessage, IsMessageBelow, IsState, IsRequest, IsQuery, IsOffer, IsPlanRequest,
                IsPlanRequestBelow, IsPlanResponse, IsPlanResponseBelow, IsRouteResponse, IsMatrix, IsOutcome
    <2>5. IsOffer(m) /\ m.task = t /\ m.about = log[i].about
        BY <2>4 DEF IsOffer
    <2>6. IsPublished(m.about)
        BY <2>3, <2>5 DEF IsPublished
    <2>7. ~HasOptions(t, log[i].about)
        <3>1. i \in Nat
            BY <2>3, SequenceDomain DEF BusOK
        <3> QED BY <2>1, <3>1
    <2>8. IsNewOffer(m)
        BY <2>3, <2>5, <2>6, <2>7 DEF IsNewOffer, HasOptions
    <2> HIDE DEF m
    <2>9. AnyStep /\ Sent(m)
        BY <2>2, OneSent DEF OfOthers
    <2> QED BY <2>2, <2>8, <2>9 DEF Offered
<1> QED BY <1>1, <1>2, <1>3, <1>4 DEF StepKinds

LEMMA HandledKinds ==
    ASSUME BusOK, NEW s \in Service, NEW i \in DOMAIN log, NEW out,
           IsNext(s, i), Handled(s, i, out), IsSequence(out)
    PROVE  /\ AnyStep /\ HasRead(s, i)
           /\ Len(log') = Len(log) + Len(out)
           /\ \A j \in News : \E n \in DOMAIN out : j = Len(log) + n /\ log'[j] = out[n]
BY HandledSends DEF BusOK, BusTyped

LEMMA PlannerKinds ==
    ASSUME BusOK, NEW p \in Planner, PlanRoutes(p)
    PROVE  AnyStep /\ RoutesPlanned
<1>1. PICK i \in DOMAIN log :
          /\ IsNext(p, i)
          /\ \/ Handled(p, i, <<[type |-> "RoutePlanResponse", to |-> "RouteAggregator",
                                 id |-> log[i].id, routes |-> log[i].routes]>>)
             \/ Handled(p, i, <<>>)
          /\ UNCHANGED <<aggregation, held, setting>>
    BY DEF PlanRoutes
<1>2. p \in Service /\ p # "RouteAggregator" /\ p # "AssignmentTree"
    BY PipelineAssumption
<1>3. IsPlanRequest(log[i])
    <2>1. Address(log[i]) = p
        BY <1>1, PipelineAssumption DEF IsNext, Wants
    <2>2. IsMessage(log[i])
        BY DEF BusOK
    <2>3. CASE "to" \in DOMAIN log[i]
        <3>1. log[i].to = p
            BY <2>1, <2>3 DEF Address
        <3> QED BY <1>2, <2>2, <2>3, <3>1 DEF IsMessage, IsMessageBelow, IsState, IsRequest, IsQuery, IsOffer,
                IsPlanRequest, IsPlanResponse, IsPlanResponseBelow, IsRouteResponse, IsMatrix, IsOutcome
    <2>4. CASE "to" \notin DOMAIN log[i]
        <3>1. log[i].type = p
            BY <2>1, <2>4 DEF Address
        <3>2. p \notin {"EntityState", "UniqueAutomationRequest", "RouteRequest", "TaskPlanOptions",
                        "RouteResponse", "AssignmentCostMatrix", "TaskAssignmentSummary", "ServiceStatus"}
            BY PipelineAssumption
        <3> QED BY <2>2, <2>4, <3>1, <3>2 DEF IsMessage, IsMessageBelow, IsState, IsRequest, IsQuery, IsOffer,
                IsPlanRequest, IsPlanRequestBelow, IsPlanResponse, IsPlanResponseBelow, IsRouteResponse, IsMatrix, IsOutcome
    <2> QED BY <2>3, <2>4
<1> DEFINE m == [type |-> "RoutePlanResponse", to |-> "RouteAggregator",
                 id |-> log[i].id, routes |-> log[i].routes]
<1>4. IsPlanResponse(m)
    BY <1>3 DEF IsPlanRequest, IsPlanRequestBelow, IsPlanResponse, IsPlanResponseBelow
<1>5. PICK out : Handled(p, i, out) /\ (out = <<m>> \/ out = <<>>)
    BY <1>1
<1> HIDE DEF m
<1>6. IsSequence(out) /\ \A n \in DOMAIN out : out[n] = m
    <2>1. CASE out = <<m>>
        BY <2>1, NoneOrOne, Zenon
    <2>2. CASE out = <<>>
        <3>1. IsSequence(<<>>) /\ DOMAIN <<>> = {}
            BY NoneOrOne, Zenon
        <3> QED BY <2>2, <3>1, Zenon
    <2> QED BY <1>5, <2>1, <2>2
<1>7. /\ AnyStep /\ HasRead(p, i)
      /\ \A j \in News : \E n \in DOMAIN out : j = Len(log) + n /\ log'[j] = out[n]
    BY <1>1, <1>2, <1>5, <1>6, HandledKinds
<1>8. \A j \in News : IsPlanResponse(log'[j])
    BY <1>4, <1>6, <1>7
<1> QED BY <1>1, <1>2, <1>7, <1>8, PipelineAssumption DEF RoutesPlanned, HasRead
-----------------------------------------------------------------------------
(***************************************************************************)
(* The messages that services read.                                        *)
(***************************************************************************)
LEMMA TypeTells ==
    ASSUME NEW m, IsMessage(m)
    PROVE  /\ m.type = "EntityState" => IsState(m)
           /\ m.type = "UniqueAutomationRequest" => IsRequest(m)
           /\ m.type = "RouteRequest" => IsQuery(m)
           /\ m.type = "TaskPlanOptions" => IsOffer(m)
           /\ m.type = "RoutePlanRequest" => IsPlanRequest(m)
           /\ m.type = "RoutePlanResponse" => IsPlanResponse(m)
           /\ m.type = "RouteResponse" => IsRouteResponse(m)
           /\ m.type = "AssignmentCostMatrix" => IsMatrix(m)
           /\ m.type \in {"TaskAssignmentSummary", "ServiceStatus"} => IsOutcome(m)
BY DEF IsMessage, IsMessageBelow, IsState, IsRequest, IsQuery, IsOffer, IsPlanRequest, IsPlanRequestBelow,
       IsPlanResponse, IsPlanResponseBelow, IsRouteResponse, IsMatrix, IsOutcome

(* What the assignment service reads is about a request. *)
LEMMA TreeReads ==
    ASSUME BusOK, NEW i \in DOMAIN log, Wants("AssignmentTree", i)
    PROVE  IsPrerequisite(log[i])
<1>1. IsMessage(log[i])
    BY DEF BusOK
<1>2. Address(log[i]) \in Prerequisite
    BY PipelineAssumption DEF Wants
<1>3. CASE "to" \in DOMAIN log[i]
    <2>1. log[i].to \in Prerequisite
        BY <1>2, <1>3 DEF Address
    <2>2. log[i].to \in Planner \cup {"RouteAggregator"}
        BY <1>1, <1>3 DEF IsMessage, IsMessageBelow, IsState, IsRequest, IsQuery, IsOffer, IsPlanRequest,
           IsPlanRequestBelow, IsPlanResponse, IsPlanResponseBelow, IsRouteResponse, IsMatrix, IsOutcome
    <2> QED BY <2>1, <2>2, PipelineAssumption DEF Prerequisite
<1>4. CASE "to" \notin DOMAIN log[i]
    <2>1. log[i].type \in Prerequisite
        BY <1>2, <1>4 DEF Address
    <2> QED BY <1>1, <2>1, TypeTells DEF Prerequisite, IsPrerequisite
<1> QED BY <1>3, <1>4

-----------------------------------------------------------------------------
(***************************************************************************)
(* The handlers of the RouteAggregatorService.                             *)
(***************************************************************************)
LEMMA LearnKinds ==
    ASSUME BusOK, NEW i \in DOMAIN log, IsNext("RouteAggregator", i), HandleEntityState(i),
           UNCHANGED held
    PROVE  AnyStep /\ Learned(i)
<1>1. IsSequence(<<>>) /\ DOMAIN <<>> = {}
    BY NoneOrOne, Zenon
<1>2. Handled("RouteAggregator", i, <<>>)
    BY DEF HandleEntityState
<1>3. "RouteAggregator" \in Service
    BY PipelineAssumption
<1>4. /\ AnyStep /\ HasRead("RouteAggregator", i)
      /\ \A j \in News : \E n \in DOMAIN <<>> : j = Len(log) + n /\ log'[j] = <<>>[n]
    BY <1>1, <1>2, <1>3, HandledKinds
<1>5. News = {}
    BY <1>1, <1>4
<1>6. IsState(log[i])
    BY TypeTells DEF BusOK, HandleEntityState
<1> QED BY <1>4, <1>5, <1>6 DEF HandleEntityState, Learned

LEMMA CollectKinds ==
    ASSUME BusOK, AggregatorOK, NEW i \in DOMAIN log, IsNext("RouteAggregator", i),
           NEW reqs, NEW opts, IsFiniteSet(DOMAIN reqs),
           \A k \in DOMAIN reqs : reqs[k] \in [about : Request, vehicles : SUBSET Vehicle],
           CheckAllTaskOptionsReceived(i, reqs, opts),
           UNCHANGED <<held, known, plans, aggregator>>
    PROVE  AnyStep /\ HasRead("RouteAggregator", i) /\ CollectedFrom(reqs, opts)
<1> DEFINE K == Complete(reqs, opts)
           S == UNION {{<<k, v>> : v \in Planned(reqs[k])} : k \in K}
           order == SetToSeq(S)
           out == [n \in DOMAIN order |->
                     LET k == order[n][1] v == order[n][2] IN
                     [type |-> "RoutePlanRequest", to |-> PlannerOf[v], id |-> 0, vehicle |-> v,
                      routes |-> RoutesFor(k, reqs[k].about, opts, v, pass + 1)]]
           c == Cardinality(S)
<1>1. K \subseteq DOMAIN reqs
    BY DEF Complete
<1>2. \A k \in K : Planned(reqs[k]) \subseteq Vehicle
    <2>1. known \subseteq Vehicle
        BY DEF AggregatorOK
    <2>2. \A k \in K : reqs[k].vehicles \subseteq Vehicle
        BY <1>1
    <2> QED BY <2>1, <2>2 DEF Planned, Considered
<1>3. S \subseteq (DOMAIN reqs) \X Vehicle
    <2>1. \A x \in S : \E k \in K : \E v \in Planned(reqs[k]) : x = <<k, v>>
        OBVIOUS
    <2> HIDE DEF S, K
    <2> QED BY <1>1, <1>2, <2>1
<1>4. IsFiniteSet(S)
    <2>1. IsFiniteSet(Vehicle)
        BY PipelineAssumption
    <2>2. IsFiniteSet((DOMAIN reqs) \X Vehicle)
        BY <2>1, FS_Product, Zenon
    <2> QED BY <1>3, <2>2, FS_Subset
<1> HIDE DEF S
<1>5. c \in Nat /\ order \in [1 .. c -> S]
    BY <1>4, SetListed
<1> HIDE DEF order, c
<1>6. DOMAIN order = 1 .. c /\ \A n \in 1 .. c : order[n][2] \in Vehicle
    <2>1. DOMAIN order = 1 .. c
        BY <1>5
    <2>2. \A n \in 1 .. c : order[n] \in S
        BY <1>5
    <2>3. \A x \in S : x[2] \in Vehicle
        BY <1>3
    <2> QED BY <2>1, <2>2, <2>3
<1>7. \A n \in DOMAIN out : IsPlanRequest(out[n]) /\ out[n].id = 0
    <2>1. nextPlan \in Nat \ {0}
        BY DEF AggregatorOK
    <2>2. 0 \in 0 .. nextPlan - 1
        BY <2>1
    <2>3. \A v \in Vehicle : PlannerOf[v] \in Planner
        BY PipelineAssumption
    <2> QED BY <1>6, <2>2, <2>3 DEF IsPlanRequest, IsPlanRequestBelow
<1>8. IsSequence(out)
    BY <1>5, <1>6, Listed
<1>9. Handled("RouteAggregator", i, out)
    BY DEF CheckAllTaskOptionsReceived, order, S
<1> HIDE DEF out
<1>10. "RouteAggregator" \in Service
    BY PipelineAssumption
<1>11. /\ AnyStep /\ HasRead("RouteAggregator", i)
       /\ \A j \in News : \E n \in DOMAIN out : j = Len(log) + n /\ log'[j] = out[n]
    BY <1>8, <1>9, <1>10, HandledKinds
<1>12. \A j \in News : IsPlanRequest(log'[j]) /\ log'[j].id = 0
    BY <1>7, <1>11
<1> QED BY <1>11, <1>12 DEF CheckAllTaskOptionsReceived, CollectedFrom

(* The keys there are, and the one of the next request, are finitely many. *)
LEMMA KeysFinite ==
    ASSUME AggregatorOK
    PROVE  /\ IsFiniteSet(DOMAIN automation) /\ IsFiniteSet({nextKey} \cup DOMAIN automation)
           /\ IsFiniteSet(DOMAIN pendingAuto) /\ nextKey \notin DOMAIN automation
<1>1. nextKey \in Nat /\ DOMAIN automation \subseteq 1 .. nextKey - 1
      /\ DOMAIN pendingAuto \subseteq DOMAIN automation
    BY DEF AggregatorOK
<1>2. IsFiniteSet(1 .. nextKey)
    BY <1>1, FS_Interval
<1>3. /\ DOMAIN automation \subseteq 1 .. nextKey /\ DOMAIN pendingAuto \subseteq 1 .. nextKey
      /\ nextKey \notin DOMAIN automation
    BY <1>1
<1>4. {nextKey} \cup DOMAIN automation \subseteq 1 .. nextKey
    <2>1. nextKey # 0
        BY DEF AggregatorOK
    <2> QED BY <1>1, <1>3, <2>1
<1> QED BY <1>2, <1>3, <1>4, FS_Subset

LEMMA RequestKinds ==
    ASSUME BusOK, AggregatorOK, NEW i \in DOMAIN log, IsNext("RouteAggregator", i),
           HandleUniqueAutomationRequest(i), UNCHANGED held
    PROVE  AnyStep /\ CollectedRequest(i)
<1> DEFINE e == NewEntry(log[i].about)
           reqs == WithEntry(automation, nextKey, e)
<1>1. IsRequest(log[i])
    BY TypeTells DEF BusOK, HandleUniqueAutomationRequest
<1>2. e \in [about : Request, vehicles : SUBSET Vehicle]
    <2>1. log[i].about \in Request
        BY <1>1 DEF IsRequest
    <2> QED BY <2>1, PipelineAssumption DEF NewEntry
<1>3. CheckAllTaskOptionsReceived(i, reqs, options) /\ nextKey' = nextKey + 1
    BY DEF HandleUniqueAutomationRequest, NewEntry
<1> HIDE DEF e
<1>4. /\ DOMAIN reqs = {nextKey} \cup DOMAIN automation
      /\ reqs[nextKey] = e /\ \A k \in DOMAIN automation : k # nextKey => reqs[k] = automation[k]
    BY DEF WithEntry
<1> HIDE DEF reqs
<1>5. \A k \in DOMAIN reqs : reqs[k] \in [about : Request, vehicles : SUBSET Vehicle]
    <2>1. \A k \in DOMAIN automation : automation[k] \in [about : Request, vehicles : SUBSET Vehicle]
        BY DEF AggregatorOK
    <2> QED BY <1>2, <1>4, <2>1
<1>6. UNCHANGED <<held, known, plans, aggregator>>
    BY DEF HandleUniqueAutomationRequest
<1>7. IsFiniteSet(DOMAIN reqs)
    BY <1>4, KeysFinite
<1>8. AnyStep /\ HasRead("RouteAggregator", i) /\ CollectedFrom(reqs, options)
    BY <1>3, <1>5, <1>6, <1>7, CollectKinds
<1> QED BY <1>1, <1>3, <1>8 DEF CollectedRequest, reqs, e

LEMMA OptionsKinds ==
    ASSUME BusOK, AggregatorOK, NEW i \in DOMAIN log, IsNext("RouteAggregator", i),
           HandleTaskPlanOptions(i), UNCHANGED held
    PROVE  AnyStep /\ CollectedOptions(i)
<1> DEFINE opts == WithEntry(options, log[i].task, log[i])
<1>1. IsOffer(log[i])
    BY TypeTells DEF BusOK, HandleTaskPlanOptions
<1>2. CheckAllTaskOptionsReceived(i, automation, opts) /\ nextKey' = nextKey
    BY DEF HandleTaskPlanOptions
<1> HIDE DEF opts
<1>3. IsFiniteSet(DOMAIN automation)
    BY KeysFinite
<1>4. \A k \in DOMAIN automation : automation[k] \in [about : Request, vehicles : SUBSET Vehicle]
    BY DEF AggregatorOK
<1>5. UNCHANGED <<held, known, plans, aggregator>>
    BY DEF HandleTaskPlanOptions
<1>6. AnyStep /\ HasRead("RouteAggregator", i) /\ CollectedFrom(automation, opts)
    BY <1>2, <1>3, <1>4, <1>5, CollectKinds
<1> QED BY <1>1, <1>2, <1>6 DEF CollectedOptions, opts
LEMMA QueryKinds ==
    ASSUME BusOK, AggregatorOK, NEW i \in DOMAIN log, IsNext("RouteAggregator", i),
           HandleRouteRequest(i), UNCHANGED held
    PROVE  AnyStep /\ RoutesAsked(i)
<1> DEFINE vehicles == IF log[i].vehicles = {} THEN known ELSE log[i].vehicles
           order == SetToSeq(vehicles)
           was == IF log[i].id \in DOMAIN pendingRoute THEN pendingRoute[log[i].id] ELSE {}
           out == [n \in DOMAIN order |->
                     [type |-> "RoutePlanRequest", to |-> PlannerOf[order[n]],
                      id |-> nextPlan + n - 1, vehicle |-> order[n], routes |-> {}]]
           c == Cardinality(vehicles)
<1>1. IsQuery(log[i])
    BY TypeTells DEF BusOK, HandleRouteRequest
<1>2. vehicles \subseteq Vehicle
    BY <1>1 DEF IsQuery, AggregatorOK
<1>3. IsFiniteSet(vehicles)
    <2>1. IsFiniteSet(Vehicle)
        BY PipelineAssumption
    <2> QED BY <1>2, <2>1, FS_Subset
<1>4. /\ nextPlan' = nextPlan + Len(order)
      /\ LET ids == nextPlan .. nextPlan + Len(order) - 1 IN
         pendingRoute' = IF ids = {} THEN pendingRoute
                         ELSE WithEntry(pendingRoute, log[i].id, was \cup ids)
      /\ Handled("RouteAggregator", i, out)
      /\ UNCHANGED <<known, collector, responses>>
    BY DEF HandleRouteRequest
<1> HIDE DEF vehicles, was
<1>5. c \in Nat /\ order \in [1 .. c -> vehicles] /\ \A v \in vehicles : \E n \in 1 .. c : order[n] = v
    BY <1>3, SetListed
<1> HIDE DEF order, c
<1>6. DOMAIN order = 1 .. c /\ Len(order) = c
    BY <1>5
<1>7. nextPlan \in Nat \ {0} /\ nextPlan' = nextPlan + c /\ nextPlan' \in Nat
    BY <1>4, <1>5, <1>6 DEF AggregatorOK
<1>8. NewIds = nextPlan .. nextPlan + Len(order) - 1
    BY <1>6, <1>7 DEF NewIds
<1>9. \A n \in DOMAIN out : /\ out[n].id \in NewIds /\ out[n].vehicle \in vehicles
                            /\ IsPlanRequestBelow(out[n], nextPlan')
    <2> SUFFICES ASSUME NEW n \in 1 .. c
                 PROVE  /\ out[n].id \in NewIds /\ out[n].vehicle \in vehicles
                        /\ IsPlanRequestBelow(out[n], nextPlan')
        BY <1>6
    <2>1. order[n] \in vehicles /\ order[n] \in Vehicle /\ PlannerOf[order[n]] \in Planner
        BY <1>2, <1>5, PipelineAssumption
    <2>2. nextPlan + n - 1 \in NewIds /\ nextPlan + n - 1 \in 0 .. nextPlan' - 1
        BY <1>5, <1>7 DEF NewIds
    <2>3. out[n] = [type |-> "RoutePlanRequest", to |-> PlannerOf[order[n]],
                    id |-> nextPlan + n - 1, vehicle |-> order[n], routes |-> {}]
        BY <1>6
    <2> HIDE DEF out
    <2> QED BY <2>1, <2>2, <2>3 DEF IsPlanRequestBelow
<1>10. DOMAIN out = 1 .. c /\ \A n \in 1 .. c : out[n].vehicle = order[n]
    BY <1>6
<1>11. IsSequence(out) /\ Len(out) = c
    BY <1>5, <1>6, Listed
<1> HIDE DEF out
<1>12. "RouteAggregator" \in Service
    BY PipelineAssumption
<1>13. /\ AnyStep /\ HasRead("RouteAggregator", i) /\ Len(log') = Len(log) + Len(out)
       /\ \A j \in News : \E n \in DOMAIN out : j = Len(log) + n /\ log'[j] = out[n]
    BY <1>4, <1>11, <1>12, HandledKinds
<1>14. \A j \in News : /\ log'[j].id \in NewIds /\ log'[j].vehicle \in vehicles
                       /\ IsPlanRequestBelow(log'[j], nextPlan')
    BY <1>9, <1>13
<1>15. \A v \in vehicles : \E j \in News : log'[j].vehicle = v
    <2> SUFFICES ASSUME NEW v \in vehicles PROVE \E j \in News : log'[j].vehicle = v
        OBVIOUS
    <2>1. PICK n \in 1 .. c : order[n] = v
        BY <1>5
    <2>2. Len(log) \in Nat
        BY DEF BusOK, IsSequence
    <2>3. Len(log) + n \in News
        BY <1>5, <1>11, <1>13, <2>2 DEF News
    <2>4. PICK x \in DOMAIN out : Len(log) + n = Len(log) + x /\ log'[Len(log) + n] = out[x]
        BY <1>13, <2>3
    <2>5. x = n
        BY <1>5, <1>10, <2>2, <2>4
    <2> QED BY <1>10, <2>1, <2>3, <2>4, <2>5
<1>16. nextPlan <= nextPlan'
    BY <1>5, <1>7
<1> QED BY <1>1, <1>4, <1>7, <1>8, <1>13, <1>14, <1>15, <1>16 DEF RoutesAsked, vehicles, was

LEMMA ResponseKinds ==
    ASSUME BusOK, AggregatorOK, KeysOnce,
           NEW i \in DOMAIN log, IsNext("RouteAggregator", i),
           HandleRoutePlanResponse(i), UNCHANGED held
    PROVE  AnyStep /\ Responded(i)
<1> DEFINE nowPlans == plans \cup log[i].routes
           nowResponses == responses \cup {log[i].id}
           R == Satisfied(i)
           A == Fulfilled(i)
           used == nowPlans \cap UNION {pendingAuto[k] : k \in A}
           r == SetToSeq(R)
           a == SetToSeq(A)
           responsesOut == [n \in DOMAIN r |-> RouteResponseFor(r[n], nowResponses)]
           matricesOut == [n \in DOMAIN a |-> MatrixFor(a[n], nowPlans)]
           out == responsesOut \o matricesOut
           b == Cardinality(R)
           c == Cardinality(A)
<1>1. IsPlanResponse(log[i])
    BY TypeTells DEF BusOK, HandleRoutePlanResponse
<1>2. /\ DropResponses(nowResponses, UNION {pendingRoute[id] : id \in R}, used)
      /\ pendingRoute' = Restrict(pendingRoute, DOMAIN pendingRoute \ R)
      /\ Discard(A) /\ ClearOptions(A)
      /\ Handled("RouteAggregator", i, out)
      /\ UNCHANGED <<known, nextKey, pass, nextPlan>>
    BY Zenon DEF HandleRoutePlanResponse, AllPlanned, Satisfied, Fulfilled
<1>3. responses' \subseteq nowResponses
    BY <1>2 DEF DropResponses
<1>4. IsFiniteSet(R) /\ IsFiniteSet(A)
    <2>1. R \subseteq DOMAIN pendingRoute /\ A \subseteq DOMAIN pendingAuto
        BY DEF Satisfied, Fulfilled
    <2>2. IsFiniteSet(DOMAIN pendingRoute) /\ IsFiniteSet(DOMAIN pendingAuto)
        BY KeysFinite DEF AggregatorOK
    <2> HIDE DEF R, A
    <2> QED BY <2>1, <2>2, FS_Subset
<1>5. /\ b \in Nat /\ r \in [1 .. b -> R]
      /\ \A x, y \in 1 .. b : r[x] = r[y] => x = y
    <2> HIDE DEF R
    <2> QED BY <1>4, SetListed
<1>6. /\ c \in Nat /\ a \in [1 .. c -> A]
      /\ \A x, y \in 1 .. c : a[x] = a[y] => x = y
    <2> HIDE DEF A
    <2> QED BY <1>4, SetListed
<1> HIDE DEF r, a, b, c
<1>7. /\ DOMAIN responsesOut = 1 .. b /\ IsSequence(responsesOut) /\ Len(responsesOut) = b
      /\ \A n \in 1 .. b : r[n] \in R /\ IsResponseTo(responsesOut[n], r[n])
    <2>1. DOMAIN r = 1 .. b /\ \A n \in 1 .. b : r[n] \in R
        BY <1>5
    <2>2. IsSequence(responsesOut) /\ Len(responsesOut) = b
        BY <1>5, <2>1, Listed
    <2>3. \A q \in R : pendingRoute[q] \cap nowResponses = pendingRoute[q]
        BY DEF Satisfied
    <2>4. \A n \in 1 .. b : responsesOut[n] = [type |-> "RouteResponse", id |-> r[n], plans |-> pendingRoute[r[n]]]
        BY <2>1, <2>3 DEF RouteResponseFor
    <2> HIDE DEF responsesOut
    <2>5. ASSUME NEW n \in 1 .. b
          PROVE  IsResponseTo(responsesOut[n], r[n])
        <3>1. IsResponseTo([type |-> "RouteResponse", id |-> r[n], plans |-> pendingRoute[r[n]]], r[n])
            BY DEF IsResponseTo
        <3> QED BY <2>4, <3>1, Zenon
    <2>6. DOMAIN responsesOut = 1 .. b
        BY <2>2, SequenceDomain
    <2> QED BY <2>1, <2>2, <2>5, <2>6
<1>8. /\ DOMAIN matricesOut = 1 .. c /\ IsSequence(matricesOut) /\ Len(matricesOut) = c
      /\ \A n \in 1 .. c : a[n] \in A /\ IsMatrixOf(matricesOut[n], a[n])
    <2>1. DOMAIN a = 1 .. c /\ \A n \in 1 .. c : a[n] \in A
        BY <1>6
    <2>2. IsSequence(matricesOut) /\ Len(matricesOut) = c
        BY <1>6, <2>1, Listed
    <2>3. \A k \in A : pendingAuto[k] \cap nowPlans = pendingAuto[k]
        BY DEF Fulfilled
    <2>4. \A n \in 1 .. c : matricesOut[n] = [type |-> "AssignmentCostMatrix",
                 about |-> automation[a[n]].about, costs |-> CostsOf(pendingAuto[a[n]])]
        BY <2>1, <2>3 DEF MatrixFor, CostsOf
    <2> HIDE DEF matricesOut
    <2>5. ASSUME NEW n \in 1 .. c
          PROVE  IsMatrixOf(matricesOut[n], a[n])
        <3>1. IsMatrixOf([type |-> "AssignmentCostMatrix", about |-> automation[a[n]].about,
                          costs |-> CostsOf(pendingAuto[a[n]])], a[n])
            BY DEF IsMatrixOf
        <3> QED BY <2>4, <3>1, Zenon
    <2>6. DOMAIN matricesOut = 1 .. c
        BY <2>2, SequenceDomain
    <2> QED BY <2>1, <2>2, <2>5, <2>6
<1> HIDE DEF responsesOut, matricesOut
<1>9. IsJoined(out, responsesOut, matricesOut)
    BY <1>7, <1>8, Joined
<1> HIDE DEF out
<1>10. "RouteAggregator" \in Service
    BY PipelineAssumption
<1>11. /\ AnyStep /\ HasRead("RouteAggregator", i) /\ Len(log') = Len(log) + Len(out)
       /\ \A j \in News : \E n \in DOMAIN out : j = Len(log) + n /\ log'[j] = out[n]
    BY <1>2, <1>9, <1>10, HandledKinds DEF IsJoined
<1>12. \A n \in DOMAIN out : \/ n \in 1 .. b /\ out[n] = responsesOut[n]
                             \/ \E m \in 1 .. c : n = b + m /\ out[n] = matricesOut[m]
    <2> SUFFICES ASSUME NEW n \in DOMAIN out
                 PROVE  \/ n \in 1 .. b /\ out[n] = responsesOut[n]
                        \/ \E m \in 1 .. c : n = b + m /\ out[n] = matricesOut[m]
        OBVIOUS
    <2>1. n \in 1 .. b + c
        BY <1>7, <1>8, <1>9, SequenceDomain DEF IsJoined
    <2>2. CASE n <= b
        BY <1>5, <1>7, <1>9, <2>1, <2>2 DEF IsJoined
    <2>3. CASE ~(n <= b)
        <3>1. n - b \in 1 .. c /\ n = b + (n - b)
            BY <1>5, <1>6, <2>1, <2>3
        <3> QED BY <1>7, <1>8, <1>9, <3>1 DEF IsJoined
    <2> QED BY <2>2, <2>3
<1>13. ASSUME NEW j \in News
       PROVE  \/ \E n \in 1 .. b : j = Len(log) + n /\ IsResponseTo(log'[j], r[n]) /\ r[n] \in R
              \/ \E m \in 1 .. c : j = Len(log) + (b + m) /\ IsMatrixOf(log'[j], a[m]) /\ a[m] \in A
    <2>1. PICK n \in DOMAIN out : j = Len(log) + n /\ log'[j] = out[n]
        BY <1>11
    <2> QED BY <1>7, <1>8, <1>12, <2>1
<1> HIDE DEF R, A
<1>14. \A j \in News : \/ \E k \in A : IsMatrixOf(log'[j], k)
                       \/ \E q \in R : IsResponseTo(log'[j], q)
    BY <1>13
<1>15. ASSUME NEW j \in News, NEW x \in News, NEW k \in A,
              IsMatrixOf(log'[j], k), IsMatrixOf(log'[x], k)
       PROVE  j = x
    <2>1. \A z \in News : IsMatrixOf(log'[z], k) =>
              \E m \in 1 .. c : z = Len(log) + (b + m) /\ a[m] = k
        <3> SUFFICES ASSUME NEW z \in News, IsMatrixOf(log'[z], k)
                     PROVE  \E m \in 1 .. c : z = Len(log) + (b + m) /\ a[m] = k
            OBVIOUS
        <3>1. log'[z].type = "AssignmentCostMatrix" /\ log'[z].about = automation[k].about
            BY DEF IsMatrixOf
        <3>2. PICK m \in 1 .. c : z = Len(log) + (b + m) /\ IsMatrixOf(log'[z], a[m]) /\ a[m] \in A
            BY <1>13, <3>1 DEF IsResponseTo
        <3>3. automation[a[m]].about = automation[k].about
            BY <3>1, <3>2 DEF IsMatrixOf
        <3>4. k \in DOMAIN automation /\ a[m] \in DOMAIN automation
            BY <3>2 DEF A, Fulfilled, AggregatorOK
        <3> QED BY <3>2, <3>3, <3>4 DEF KeysOnce
    <2> QED BY <1>6, <1>15, <2>1
<1>16. ASSUME NEW j \in News, NEW x \in News, NEW q \in R,
              IsResponseTo(log'[j], q), IsResponseTo(log'[x], q)
       PROVE  j = x
    <2>1. \A z \in News : IsResponseTo(log'[z], q) =>
              \E m \in 1 .. b : z = Len(log) + m /\ r[m] = q
        BY <1>13 DEF IsResponseTo, IsMatrixOf
    <2> QED BY <1>5, <1>16, <2>1
<1> QED BY <1>1, <1>2, <1>3, <1>11, <1>14, <1>15, <1>16 DEF Responded, R, A
LEMMA AggregatorKinds ==
    ASSUME BusOK, AggregatorOK, KeysOnce, Aggregate
    PROVE  AnyStep /\ StepKinds
<1>1. PICK i \in DOMAIN log :
          /\ IsNext("RouteAggregator", i)
          /\ \/ HandleUniqueAutomationRequest(i) \/ HandleTaskPlanOptions(i)
             \/ HandleEntityState(i) \/ HandleRouteRequest(i) \/ HandleRoutePlanResponse(i)
    BY DEF Aggregate, RouteAggregatorStep
<1>2. UNCHANGED held
    BY DEF Aggregate
<1>3. /\ AnyStep
      /\ \/ Learned(i) \/ CollectedRequest(i) \/ CollectedOptions(i)
         \/ RoutesAsked(i) \/ Responded(i)
    BY <1>1, <1>2, LearnKinds, RequestKinds, OptionsKinds, QueryKinds, ResponseKinds
<1> QED BY <1>3 DEF StepKinds

LEMMA TreeKinds ==
    ASSUME BusOK, Assign
    PROVE  AnyStep /\ StepKinds
<1>1. PICK i \in DOMAIN log :
          /\ IsNext("AssignmentTree", i)
          /\ LET m == log[i] r == m.about IN
             \/ /\ held' = [held EXCEPT ![r] = Kept(m)]
                /\ Handled("AssignmentTree", i, <<>>)
             \/ /\ IsAssignmentReady(r, Kept(m))
                /\ held' = [held EXCEPT ![r] = {}]
                /\ \E a \in Assignments(r, Kept(m)) : Handled("AssignmentTree", i, <<a>>)
    BY DEF Assign, AssignmentTreeStep
<1>2. UNCHANGED aggregation
    BY DEF Assign
<1>3. "AssignmentTree" \in Service
    BY PipelineAssumption
<1>4. IsPrerequisite(log[i])
    BY <1>1, TreeReads DEF IsNext
<1>5. CASE /\ held' = [held EXCEPT ![log[i].about] = Kept(log[i])]
           /\ Handled("AssignmentTree", i, <<>>)
    <2>1. IsSequence(<<>>) /\ DOMAIN <<>> = {}
        BY NoneOrOne, Zenon
    <2>2. /\ AnyStep /\ HasRead("AssignmentTree", i)
          /\ \A j \in News : \E n \in DOMAIN <<>> : j = Len(log) + n /\ log'[j] = <<>>[n]
        BY <1>1, <1>3, <1>5, <2>1, HandledKinds
    <2>3. News = {}
        BY <2>1, <2>2
    <2> QED BY <1>2, <1>4, <1>5, <2>2, <2>3 DEF Prepared, StepKinds
<1>6. CASE /\ IsAssignmentReady(log[i].about, Kept(log[i]))
           /\ held' = [held EXCEPT ![log[i].about] = {}]
           /\ \E a \in Assignments(log[i].about, Kept(log[i])) :
                  Handled("AssignmentTree", i, <<a>>)
    <2>1. PICK m \in Assignments(log[i].about, Kept(log[i])) : Handled("AssignmentTree", i, <<m>>)
        BY <1>6
    <2>2. IsOutcome(m) /\ m.about = log[i].about
        BY DEF Assignments, IsOutcome
    <2>3. IsSequence(<<m>>) /\ Len(<<m>>) = 1 /\ \A n \in DOMAIN <<m>> : <<m>>[n] = m
        BY NoneOrOne, Zenon
    <2>4. /\ AnyStep /\ HasRead("AssignmentTree", i) /\ Len(log') = Len(log) + Len(<<m>>)
          /\ \A j \in News : \E n \in DOMAIN <<m>> : j = Len(log) + n /\ log'[j] = <<m>>[n]
        BY <1>1, <1>3, <2>1, <2>3, HandledKinds
    <2>5. Len(log') = Len(log) + 1 /\ \A j \in News : log'[j] = m
        BY <2>3, <2>4
    <2>6. Sent(m)
        <3>1. Len(log) \in Nat
            BY DEF BusOK, IsSequence
        <3>2. News = {Len(log) + 1}
            BY <2>5, <3>1 DEF News
        <3> QED BY <2>5, <3>2 DEF Sent
    <2> QED BY <1>2, <1>4, <1>6, <2>2, <2>4, <2>6 DEF Assigned, StepKinds
<1> QED BY <1>1, <1>5, <1>6

LEMMA Kinds ==
    ASSUME BusOK, AggregatorOK, KeysOnce, [Next]_vars
    PROVE  AnyStep /\ StepKinds
<1>1. CASE UNCHANGED vars
    <2>1. LogGrown /\ News = {} /\ UNCHANGED <<read, log>> /\ OfOthers
        BY <1>1, SendingNone DEF BusOK, vars, bus, OfOthers
    <2>2. Len(log) \in Nat /\ Len(log') = Len(log)
        BY <2>1 DEF BusOK, IsSequence
    <2>3. AnyStep
        BY <2>1, <2>2 DEF AnyStep, BusOK
    <2> QED BY <2>1, <2>3 DEF Reported, StepKinds
<1>2. CASE Next
    <2>1. CASE \/ \E v \in Vehicle : ReportState(v)
               \/ \E r \in Request : SendRequest(r)
               \/ \E q \in RouteQuery : SendQuery(q)
               \/ \E t \in Task : OfferOptions(t)
        BY <2>1, OutsideKinds
    <2>2. CASE \E p \in Planner : PlanRoutes(p)
        BY <2>2, PlannerKinds DEF StepKinds
    <2>3. CASE Aggregate
        BY <2>3, AggregatorKinds
    <2>4. CASE Assign
        BY <2>4, TreeKinds
    <2> QED BY <1>2, <2>1, <2>2, <2>3, <2>4 DEF Next
<1> QED BY <1>1, <1>2
-----------------------------------------------------------------------------
(***************************************************************************)
(* What the kinds of steps have in common.  First the types of what they   *)
(* publish.                                                                *)
(***************************************************************************)
IsCollected(i) == CollectedRequest(i) \/ CollectedOptions(i)

LEMMA Types ==
    ASSUME StepKinds
    PROVE  /\ Silent("EntityState") \/ Reported
           /\ Silent("UniqueAutomationRequest") \/ Requested
           /\ Silent("RouteRequest") \/ Queried
           /\ Silent("TaskPlanOptions") \/ Offered
           /\ Silent("RoutePlanRequest") \/ \E i \in DOMAIN log : IsCollected(i) \/ RoutesAsked(i)
           /\ Silent("RouteResponse") \/ \E i \in DOMAIN log : Responded(i)
           /\ Silent("AssignmentCostMatrix") \/ \E i \in DOMAIN log : Responded(i)
           /\ \/ Silent("TaskAssignmentSummary") /\ Silent("ServiceStatus")
              \/ \E i \in DOMAIN log : Assigned(i)
<1>1. Reported => \A i \in News : log'[i].type = "EntityState"
    BY DEF Reported, IsState
<1>2. Requested => \A i \in News : log'[i].type = "UniqueAutomationRequest"
    BY DEF Requested, Sent, IsNewRequest, IsRequest
<1>3. Queried => \A i \in News : log'[i].type = "RouteRequest"
    BY DEF Queried, Sent, IsNewQuery, IsQuery
<1>4. Offered => \A i \in News : log'[i].type = "TaskPlanOptions"
    BY DEF Offered, Sent, IsNewOffer, IsOffer
<1>5. RoutesPlanned => \A i \in News : log'[i].type = "RoutePlanResponse"
    BY DEF RoutesPlanned, IsPlanResponse, IsPlanResponseBelow
<1>6. \A i : IsCollected(i) \/ RoutesAsked(i) => \A j \in News : log'[j].type = "RoutePlanRequest"
    BY DEF IsCollected, CollectedRequest, CollectedOptions, CollectedFrom, RoutesAsked,
       IsPlanRequest, IsPlanRequestBelow
<1>7. \A i : Responded(i) => \A j \in News : log'[j].type \in {"RouteResponse", "AssignmentCostMatrix"}
    BY DEF Responded, IsMatrixOf, IsResponseTo
<1>8. \A i : Assigned(i) => \A j \in News : log'[j].type \in {"TaskAssignmentSummary", "ServiceStatus"}
    BY DEF Assigned, Sent, IsOutcome
<1>9. \A i : Learned(i) \/ Prepared(i) => News = {}
    BY DEF Learned, Prepared
<1>10. CASE Reported \/ Requested \/ Queried \/ Offered \/ RoutesPlanned
    BY <1>1, <1>2, <1>3, <1>4, <1>5, <1>10 DEF Silent
<1>11. ASSUME NEW i \in DOMAIN log,
              \/ Learned(i) \/ CollectedRequest(i) \/ CollectedOptions(i)
              \/ RoutesAsked(i) \/ Responded(i) \/ Prepared(i) \/ Assigned(i)
       PROVE  /\ Silent("EntityState") /\ Silent("UniqueAutomationRequest")
              /\ Silent("RouteRequest") /\ Silent("TaskPlanOptions")
              /\ Silent("RoutePlanRequest") \/ IsCollected(i) \/ RoutesAsked(i)
              /\ Silent("RouteResponse") \/ Responded(i)
              /\ Silent("AssignmentCostMatrix") \/ Responded(i)
              /\ \/ Silent("TaskAssignmentSummary") /\ Silent("ServiceStatus")
                 \/ Assigned(i)
    <2>1. CASE IsCollected(i) \/ RoutesAsked(i)
        BY <1>6, <2>1 DEF Silent
    <2>2. CASE Responded(i)
        BY <1>7, <2>2 DEF Silent
    <2>3. CASE Assigned(i)
        BY <1>8, <2>3 DEF Silent
    <2>4. CASE Learned(i) \/ Prepared(i)
        BY <1>9, <2>4 DEF Silent
    <2> QED BY <1>11, <2>1, <2>2, <2>3, <2>4 DEF IsCollected
<1> QED BY <1>10, <1>11 DEF StepKinds

(* Who reads, and what stays as it is when a service does not. *)
LEMMA Readers ==
    ASSUME BusOK, StepKinds
    PROVE  /\ \/ read'["RouteAggregator"] = read["RouteAggregator"] /\ UNCHANGED aggregation
              \/ \E i \in DOMAIN log : Learned(i) \/ IsCollected(i) \/ RoutesAsked(i) \/ Responded(i)
           /\ \/ read'["AssignmentTree"] = read["AssignmentTree"] /\ UNCHANGED held
              \/ \E i \in DOMAIN log : Prepared(i) \/ Assigned(i)
           /\ read'["RouteAggregator"] <= Len(log) /\ read'["AssignmentTree"] <= Len(log)
<1>1. {"RouteAggregator", "AssignmentTree"} \subseteq Service
    BY PipelineAssumption
<1>2. /\ read["RouteAggregator"] <= Len(log) /\ read["AssignmentTree"] <= Len(log)
      /\ \A i \in DOMAIN log : i <= Len(log)
    BY <1>1, SequenceDomain DEF BusOK
<1>3. CASE Reported \/ Requested \/ Queried \/ Offered \/ RoutesPlanned
    BY <1>2, <1>3 DEF Reported, Requested, Queried, Offered, RoutesPlanned, OfOthers
<1>4. ASSUME NEW i \in DOMAIN log,
             Learned(i) \/ CollectedRequest(i) \/ CollectedOptions(i) \/ RoutesAsked(i) \/ Responded(i)
      PROVE  /\ read'["RouteAggregator"] = i /\ read'["AssignmentTree"] = read["AssignmentTree"]
             /\ UNCHANGED held
    BY <1>1, <1>4 DEF Learned, CollectedRequest, CollectedOptions, CollectedFrom, RoutesAsked,
       Responded, HasRead
<1>5. ASSUME NEW i \in DOMAIN log, Prepared(i) \/ Assigned(i)
      PROVE  /\ read'["AssignmentTree"] = i /\ read'["RouteAggregator"] = read["RouteAggregator"]
             /\ UNCHANGED aggregation
    BY <1>1, <1>5 DEF Prepared, Assigned, HasRead
<1> QED BY <1>2, <1>3, <1>4, <1>5 DEF StepKinds, IsCollected

(* What was read stays read. *)
LEMMA StillRead ==
    ASSUME BusOK, AnyStep
    PROVE  /\ \A s \in Service : RequestsRead(s) \subseteq RequestsRead(s)'
           /\ QueriesRead \subseteq QueriesRead'
           /\ OffersRead \subseteq OffersRead'
           /\ \A s \in Service : \A type : ReadBy(s, type) \subseteq ReadBy(s, type)'
<1>1. ASSUME NEW s \in Service, NEW type, NEW i \in ReadBy(s, type)
      PROVE  i \in ReadBy(s, type)' /\ log'[i] = log[i]
    <2>1. i \in Published(type)' /\ log'[i] = log[i] /\ i \in DOMAIN log
        BY PublishedThen DEF AnyStep, ReadBy
    <2>2. i \in Nat
        BY <2>1, Growing DEF AnyStep
    <2>3. i <= read[s] /\ read[s] <= read'[s] /\ read[s] \in Nat /\ read'[s] \in Nat
        BY DEF AnyStep, ReadBy, BusOK
    <2> QED BY <2>1, <2>2, <2>3 DEF ReadBy
<1>2. "RouteAggregator" \in Service
    BY PipelineAssumption
<1>3. \A s \in Service : RequestsRead(s) \subseteq RequestsRead(s)'
    BY <1>1 DEF RequestsRead
<1>4. QueriesRead \subseteq QueriesRead'
    BY <1>1, <1>2 DEF QueriesRead
<1>5. OffersRead \subseteq OffersRead'
    BY <1>1, <1>2 DEF OffersRead
<1> QED BY <1>1, <1>3, <1>4, <1>5

(***************************************************************************)
(* The RouteAggregatorService reads every state and every offer: when it   *)
(* reads message i, it has read all those before.                          *)
(***************************************************************************)
LEMMA ReadNext ==
    ASSUME BusOK, AnyStep, NEW i, HasRead("RouteAggregator", i),
           NEW type \in {"EntityState", "TaskPlanOptions"}
    PROVE  /\ ReadBy("RouteAggregator", type)' =
                  ReadBy("RouteAggregator", type) \cup {j \in {i} : log[j].type = type}
           /\ \A j \in Published(type) : j < i => j \in ReadBy("RouteAggregator", type)
<1> DEFINE s == "RouteAggregator"
<1>1. s \in Service
    BY PipelineAssumption
<1>2. ASSUME NEW j \in Published(type)
      PROVE  Wants(s, j) /\ j \in DOMAIN log /\ j \in Nat
    <2>1. j \in DOMAIN log /\ log[j].type = type /\ IsMessage(log[j])
        BY DEF Published, BusOK
    <2>2. "to" \notin DOMAIN log[j]
        BY <2>1, TypeTells DEF IsState, IsOffer
    <2>3. type \in Subscription[s]
        BY PipelineAssumption
    <2> QED BY <2>1, <2>2, <2>3, Growing DEF Wants, Address, AnyStep
<1> QED BY <1>1, <1>2, ReadByOne DEF BusOK, BusTyped
-----------------------------------------------------------------------------
(***************************************************************************)
(* The bus and the state of the RouteAggregatorService.                    *)
(***************************************************************************)
LEMMA MessageKept ==
    ASSUME NEW n \in Nat, NEW n2 \in Nat, n <= n2, NEW m, IsMessageBelow(m, n)
    PROVE  IsMessageBelow(m, n2)
<1>1. IsPlanRequestBelow(m, n) => IsPlanRequestBelow(m, n2)
    BY DEF IsPlanRequestBelow
<1>2. IsPlanResponseBelow(m, n) => IsPlanResponseBelow(m, n2)
    BY DEF IsPlanResponseBelow
<1> QED BY <1>1, <1>2 DEF IsMessageBelow

LEMMA NextPlan ==
    ASSUME BusOK, AggregatorOK, StepKinds
    PROVE  /\ nextPlan \in Nat /\ nextPlan' \in Nat \ {0} /\ nextPlan <= nextPlan'
           /\ UNCHANGED <<responses, nextPlan, pendingRoute>>
              \/ \E i \in DOMAIN log : RoutesAsked(i) \/ Responded(i)
<1>1. nextPlan \in Nat \ {0}
    BY DEF AggregatorOK
<1>2. UNCHANGED aggregation => UNCHANGED <<responses, nextPlan, pendingRoute>>
    BY DEF aggregation, aggregator
<1>3. ASSUME NEW i \in DOMAIN log, Learned(i) \/ IsCollected(i)
      PROVE  UNCHANGED <<responses, nextPlan, pendingRoute>>
    BY <1>3 DEF Learned, IsCollected, CollectedRequest, CollectedOptions, CollectedFrom, aggregator
<1>4. ASSUME NEW i \in DOMAIN log, RoutesAsked(i)
      PROVE  nextPlan' \in Nat \ {0} /\ nextPlan <= nextPlan'
    BY <1>1, <1>4 DEF RoutesAsked
<1>5. ASSUME NEW i \in DOMAIN log, Responded(i)
      PROVE  nextPlan' = nextPlan
    BY <1>5 DEF Responded
<1> QED BY <1>1, <1>2, <1>3, <1>4, <1>5, Readers

LEMMA MatrixIs ==
    ASSUME AggregatorOK, NEW i, NEW k \in Fulfilled(i), NEW m, IsMatrixOf(m, k)
    PROVE  IsMatrix(m) /\ k \in DOMAIN automation
<1>1. k \in DOMAIN automation /\ automation[k].about \in Request
    BY DEF AggregatorOK, Fulfilled
<1> QED BY <1>1 DEF IsMatrixOf, IsMatrix

LEMMA NewMessages ==
    ASSUME BusOK, AggregatorOK, StepKinds
    PROVE  \A j \in News : IsMessageBelow(log'[j], nextPlan')
<1>1. nextPlan \in Nat /\ nextPlan' \in Nat /\ nextPlan <= nextPlan'
    BY NextPlan
<1> SUFFICES ASSUME NEW j \in News, NEW m, m = log'[j]
             PROVE  IsMessageBelow(m, nextPlan')
    OBVIOUS
<1>2. CASE Reported
    BY <1>2 DEF Reported, IsMessageBelow
<1>3. CASE Requested
    BY <1>3 DEF Requested, Sent, IsNewRequest, IsMessageBelow
<1>4. CASE Queried
    BY <1>4 DEF Queried, Sent, IsNewQuery, IsMessageBelow
<1>5. CASE Offered
    BY <1>5 DEF Offered, Sent, IsNewOffer, IsMessageBelow
<1>6. CASE RoutesPlanned
    <2>1. IsMessageBelow(m, nextPlan)
        BY <1>6 DEF RoutesPlanned, IsPlanResponse, IsMessageBelow
    <2> QED BY <1>1, <2>1, MessageKept
<1>7. ASSUME NEW i, IsCollected(i)
      PROVE  IsMessageBelow(m, nextPlan')
    <2>1. IsMessageBelow(m, nextPlan)
        BY <1>7 DEF IsCollected, CollectedRequest, CollectedOptions, CollectedFrom,
           IsPlanRequest, IsMessageBelow
    <2> QED BY <1>1, <2>1, MessageKept
<1>8. ASSUME NEW i, RoutesAsked(i)
      PROVE  IsMessageBelow(m, nextPlan')
    BY <1>8 DEF RoutesAsked, IsMessageBelow
<1>9. ASSUME NEW i, Responded(i)
      PROVE  IsMessageBelow(m, nextPlan')
    <2>1. \/ \E k \in Fulfilled(i) : IsMatrixOf(m, k)
          \/ \E q \in Satisfied(i) : IsResponseTo(m, q)
        BY <1>9 DEF Responded
    <2>2. IsMatrix(m) \/ IsRouteResponse(m)
        BY <2>1, MatrixIs DEF IsResponseTo, IsRouteResponse
    <2> QED BY <2>2 DEF IsMessageBelow
<1>10. ASSUME NEW i, Learned(i) \/ Prepared(i)
       PROVE  FALSE
    BY <1>10 DEF Learned, Prepared
<1>11. ASSUME NEW i, Assigned(i)
       PROVE  IsMessageBelow(m, nextPlan')
    BY <1>11 DEF Assigned, Sent, IsMessageBelow
<1> QED BY <1>2, <1>3, <1>4, <1>5, <1>6, <1>7, <1>8, <1>9, <1>10, <1>11 DEF StepKinds, IsCollected

LEMMA BusKept ==
    ASSUME BusOK, AggregatorOK, AnyStep, StepKinds
    PROVE  BusOK'
<1>1. \A j \in News : IsMessageBelow(log'[j], nextPlan')
    BY NewMessages
<1>2. nextPlan \in Nat /\ nextPlan' \in Nat /\ nextPlan <= nextPlan'
    BY NextPlan
<1>3. DOMAIN log' = DOMAIN log \cup News /\ \A i \in DOMAIN log : log'[i] = log[i]
    BY Growing DEF AnyStep
<1>4. ASSUME NEW i \in DOMAIN log
      PROVE  IsMessageBelow(log'[i], nextPlan')
    <2>1. IsMessageBelow(log[i], nextPlan)
        BY DEF BusOK, IsMessage
    <2>2. IsMessageBelow(log[i], nextPlan')
        BY <1>2, <2>1, MessageKept
    <2> QED BY <1>3, <2>2
<1>5. \A i \in DOMAIN log' : IsMessageBelow(log'[i], nextPlan')
    BY <1>1, <1>3, <1>4
<1>6. IsSequence(log)' /\ read' \in [Service -> Nat] /\ \A s \in Service : read'[s] <= Len(log')
    BY DEF AnyStep, LogGrown, IsSequence
<1> QED BY <1>5, <1>6 DEF BusOK, IsMessage
NextPass == pass + 1

(* What the entries of CheckAllTaskOptionsReceived are then. *)
LEMMA EntriesThen ==
    ASSUME AggregatorOK, NEW reqs, NEW opts, CollectedFrom(reqs, opts),
           \A k \in DOMAIN reqs : reqs[k] \in [about : Request, vehicles : SUBSET Vehicle]
    PROVE  /\ DOMAIN automation' = DOMAIN reqs
           /\ \A k \in DOMAIN reqs :
                  /\ automation'[k] \in [about : Request, vehicles : SUBSET Vehicle]
                  /\ automation'[k].about = reqs[k].about
                  /\ reqs[k].vehicles # {} => automation'[k].vehicles = reqs[k].vehicles
           /\ Complete(reqs, opts) \subseteq DOMAIN reqs
           /\ DOMAIN pendingAuto' = Complete(reqs, opts) \cup DOMAIN pendingAuto
           /\ \A k \in Complete(reqs, opts) : pendingAuto'[k] = MatrixRoutes(k, reqs[k], opts, NextPass)
           /\ \A k \in DOMAIN pendingAuto \ Complete(reqs, opts) : pendingAuto'[k] = pendingAuto[k]
<1> DEFINE K == Complete(reqs, opts)
<1>1. K \subseteq DOMAIN reqs
    BY DEF Complete
<1>2. /\ automation' = [k \in DOMAIN reqs |->
                         IF k \in K THEN [reqs[k] EXCEPT !.vehicles = Considered(reqs[k])] ELSE reqs[k]]
      /\ pendingAuto' = [k \in K \cup DOMAIN pendingAuto |->
                         IF k \in K THEN MatrixRoutes(k, reqs[k], opts, NextPass) ELSE pendingAuto[k]]
    BY DEF CollectedFrom, AwaitRoutes, NextPass
<1> HIDE DEF K
<1>3. ASSUME NEW k \in DOMAIN reqs
      PROVE  /\ automation'[k] \in [about : Request, vehicles : SUBSET Vehicle]
             /\ automation'[k].about = reqs[k].about
             /\ reqs[k].vehicles # {} => automation'[k].vehicles = reqs[k].vehicles
    <2>1. known \subseteq Vehicle /\ reqs[k] \in [about : Request, vehicles : SUBSET Vehicle]
        BY DEF AggregatorOK
    <2>2. Considered(reqs[k]) \in SUBSET Vehicle
        BY <2>1 DEF Considered
    <2>3. reqs[k].vehicles # {} => Considered(reqs[k]) = reqs[k].vehicles
        BY DEF Considered
    <2>4. automation'[k] = IF k \in K THEN [reqs[k] EXCEPT !.vehicles = Considered(reqs[k])] ELSE reqs[k]
        BY <1>2
    <2> QED BY <2>1, <2>2, <2>3, <2>4
<1>4. DOMAIN automation' = DOMAIN reqs /\ DOMAIN pendingAuto' = K \cup DOMAIN pendingAuto
    BY <1>2
<1>5. /\ \A k \in K : pendingAuto'[k] = MatrixRoutes(k, reqs[k], opts, NextPass)
      /\ \A k \in DOMAIN pendingAuto \ K : pendingAuto'[k] = pendingAuto[k]
    BY <1>2
<1> QED BY <1>1, <1>3, <1>4, <1>5 DEF K

LEMMA CollectedThen ==
    ASSUME AggregatorOK, NEW i, IsCollected(i)
    PROVE  \E reqs :
               /\ CollectedFrom(reqs, options')
               /\ \A k \in DOMAIN reqs : reqs[k] \in [about : Request, vehicles : SUBSET Vehicle]
               /\ \A k \in DOMAIN automation : k \in DOMAIN reqs /\ reqs[k] = automation[k]
               /\ \/ DOMAIN reqs = DOMAIN automation /\ nextKey' = nextKey
                  \/ /\ CollectedRequest(i) /\ nextKey' = nextKey + 1 /\ nextKey \notin DOMAIN automation
                     /\ DOMAIN reqs = {nextKey} \cup DOMAIN automation
                     /\ reqs[nextKey] = NewEntry(log[i].about)
<1>1. \A k \in DOMAIN automation : automation[k] \in [about : Request, vehicles : SUBSET Vehicle]
    BY DEF AggregatorOK
<1>2. CASE CollectedRequest(i)
    <2> DEFINE e == NewEntry(log[i].about)
               reqs == WithEntry(automation, nextKey, e)
    <2>1. e \in [about : Request, vehicles : SUBSET Vehicle]
        <3>1. log[i].about \in Request
            BY <1>2 DEF CollectedRequest, IsRequest
        <3> QED BY <3>1, PipelineAssumption DEF NewEntry
    <2>2. CollectedFrom(reqs, options') /\ nextKey' = nextKey + 1
        BY <1>2 DEF CollectedRequest, CollectedFrom
    <2> HIDE DEF e
    <2>3. /\ DOMAIN reqs = {nextKey} \cup DOMAIN automation
          /\ reqs[nextKey] = e /\ \A k \in DOMAIN automation : k # nextKey => reqs[k] = automation[k]
        BY DEF WithEntry
    <2> HIDE DEF reqs
    <2>4. nextKey \notin DOMAIN automation
        BY KeysFinite
    <2>5. \A k \in DOMAIN reqs : reqs[k] \in [about : Request, vehicles : SUBSET Vehicle]
        BY <1>1, <2>1, <2>3
    <2>6. \A k \in DOMAIN automation : k \in DOMAIN reqs /\ reqs[k] = automation[k]
        BY <2>3, <2>4
    <2> QED BY <1>2, <2>2, <2>3, <2>4, <2>5, <2>6 DEF e
<1>3. CASE CollectedOptions(i)
    BY <1>1, <1>3 DEF CollectedOptions, CollectedFrom
<1> QED BY <1>2, <1>3 DEF IsCollected

LEMMA Intervals ==
    ASSUME NEW m \in Nat \ {0}, NEW n \in Nat \ {0}, m <= n
    PROVE  1 .. m - 1 \subseteq 1 .. n - 1 /\ m .. n - 1 \subseteq 1 .. n - 1
           /\ 0 .. m - 1 \subseteq 0 .. n - 1
OBVIOUS

LEMMA AggregatorKept ==
    ASSUME BusOK, AggregatorOK, AnyStep, StepKinds
    PROVE  AggregatorOK'
<1> DEFINE Entries == [about : Request, vehicles : SUBSET Vehicle]
<1>1. CASE UNCHANGED aggregation
    BY <1>1 DEF AggregatorOK, aggregation, collector, aggregator
<1>2. ASSUME NEW i \in DOMAIN log, Learned(i)
      PROVE  AggregatorOK'
    <2>1. known' \subseteq Vehicle
        BY <1>2 DEF Learned, IsState, AggregatorOK
    <2> QED BY <1>2, <2>1 DEF Learned, AggregatorOK, collector, aggregator
<1>3. ASSUME NEW i \in DOMAIN log, IsCollected(i)
      PROVE  AggregatorOK'
    <2>1. PICK reqs :
              /\ CollectedFrom(reqs, options')
              /\ \A k \in DOMAIN reqs : reqs[k] \in Entries
              /\ \A k \in DOMAIN automation : k \in DOMAIN reqs
              /\ \/ DOMAIN reqs = DOMAIN automation /\ nextKey' = nextKey
                 \/ DOMAIN reqs = {nextKey} \cup DOMAIN automation /\ nextKey' = nextKey + 1
        BY <1>3, CollectedThen
    <2>2. /\ DOMAIN automation' = DOMAIN reqs
          /\ \A k \in DOMAIN reqs : automation'[k] \in Entries
          /\ DOMAIN pendingAuto' \subseteq DOMAIN reqs \cup DOMAIN pendingAuto
        BY <2>1, EntriesThen
    <2>3. /\ nextKey \in Nat \ {0} /\ DOMAIN automation \subseteq 1 .. nextKey - 1
          /\ DOMAIN pendingAuto \subseteq DOMAIN automation
        BY DEF AggregatorOK
    <2>4. nextKey' \in Nat \ {0} /\ DOMAIN reqs \subseteq 1 .. nextKey' - 1
        BY <2>1, <2>3
    <2>5. DOMAIN pendingAuto' \subseteq DOMAIN automation'
        BY <2>1, <2>2, <2>3
    <2>6. DOMAIN options' \subseteq Task
        <3>1. DOMAIN options \subseteq Task
            BY DEF AggregatorOK
        <3>2. CASE CollectedRequest(i)
            BY <3>1, <3>2 DEF CollectedRequest, CollectedFrom
        <3>3. CASE CollectedOptions(i)
            <4>1. options' = WithEntry(options, log[i].task, log[i]) /\ log[i].task \in Task
                BY <3>3 DEF CollectedOptions, CollectedFrom, IsOffer
            <4> QED BY <3>1, <4>1 DEF WithEntry
        <3> QED BY <1>3, <3>2, <3>3 DEF IsCollected
    <2>7. UNCHANGED <<known, responses, nextPlan, pendingRoute>>
        BY <2>1 DEF CollectedFrom, aggregator
    <2> QED BY <2>2, <2>4, <2>5, <2>6, <2>7 DEF AggregatorOK
<1>4. ASSUME NEW i \in DOMAIN log, RoutesAsked(i)
      PROVE  AggregatorOK'
    <2> DEFINE q == log[i].id
               was == IF q \in DOMAIN pendingRoute THEN pendingRoute[q] ELSE {}
    <2>1. /\ nextPlan \in Nat \ {0} /\ nextPlan' \in Nat \ {0} /\ nextPlan <= nextPlan'
          /\ \A x \in DOMAIN pendingRoute : pendingRoute[x] \subseteq 1 .. nextPlan - 1
          /\ IsFiniteSet(DOMAIN pendingRoute) /\ responses \subseteq 0 .. nextPlan - 1
        BY <1>4 DEF AggregatorOK, RoutesAsked
    <2>2. pendingRoute' = IF NewIds = {} THEN pendingRoute ELSE WithEntry(pendingRoute, q, was \cup NewIds)
        BY <1>4 DEF RoutesAsked
    <2>3. 1 .. nextPlan - 1 \subseteq 1 .. nextPlan' - 1 /\ NewIds \subseteq 1 .. nextPlan' - 1
        BY <2>1, Intervals DEF NewIds
    <2>4. was \cup NewIds \subseteq 1 .. nextPlan' - 1
        BY <2>1, <2>3
    <2> HIDE DEF was, q
    <2>5. \A x \in DOMAIN pendingRoute' : pendingRoute'[x] \subseteq 1 .. nextPlan' - 1
        BY <2>1, <2>2, <2>3, <2>4 DEF WithEntry
    <2>6. DOMAIN pendingRoute' = DOMAIN pendingRoute \/ DOMAIN pendingRoute' = DOMAIN pendingRoute \cup {q}
        BY <2>2 DEF WithEntry
    <2>7. IsFiniteSet(DOMAIN pendingRoute')
        BY <2>1, <2>6, FS_AddElement
    <2>8. responses' \subseteq 0 .. nextPlan' - 1
        <3>1. responses' = responses
            BY <1>4 DEF RoutesAsked
        <3>2. /\ nextPlan \in Nat \ {0} /\ nextPlan' \in Nat \ {0} /\ nextPlan <= nextPlan'
              /\ responses \subseteq 0 .. nextPlan - 1
            BY ONLY <2>1
        <3>3. 0 .. nextPlan - 1 \subseteq 0 .. nextPlan' - 1
            BY ONLY <3>2, Intervals
        <3> QED BY ONLY <3>1, <3>2, <3>3
    <2>9. UNCHANGED <<known, collector>>
        BY <1>4 DEF RoutesAsked
    <2> QED BY <2>1, <2>5, <2>7, <2>8, <2>9 DEF AggregatorOK, collector
<1>5. ASSUME NEW i \in DOMAIN log, Responded(i)
      PROVE  AggregatorOK'
    <2>1. UNCHANGED <<known, nextKey, nextPlan>>
        BY <1>5 DEF Responded
    <2>2. /\ DOMAIN automation' = DOMAIN automation \ Fulfilled(i)
          /\ \A k \in DOMAIN automation' : automation'[k] = automation[k]
          /\ DOMAIN pendingAuto' = DOMAIN pendingAuto \ Fulfilled(i)
        BY <1>5, Restricted DEF Responded, Discard
    <2>3. /\ DOMAIN pendingRoute' = DOMAIN pendingRoute \ Satisfied(i)
          /\ \A q \in DOMAIN pendingRoute' : pendingRoute'[q] = pendingRoute[q]
        BY <1>5, Restricted DEF Responded
    <2>4. DOMAIN options' \subseteq DOMAIN options
        BY <1>5 DEF Responded, ClearOptions
    <2>5. responses' \subseteq 0 .. nextPlan - 1
        BY <1>5 DEF Responded, AggregatorOK, IsPlanResponse, IsPlanResponseBelow
    <2>6. IsFiniteSet(DOMAIN pendingRoute')
        BY <2>3, FS_Subset DEF AggregatorOK
    <2> QED BY <2>1, <2>2, <2>3, <2>4, <2>5, <2>6 DEF AggregatorOK
<1> QED BY <1>1, <1>2, <1>3, <1>4, <1>5, Readers
-----------------------------------------------------------------------------
(***************************************************************************)
(* Each request has one message, one key, one matrix and one outcome.      *)
(***************************************************************************)
LEMMA RequestsOnceKept ==
    ASSUME AnyStep, StepKinds, RequestsOnce
    PROVE  RequestsOnce'
<1> DEFINE T == "UniqueAutomationRequest"
<1>1. \A i \in Published(T) : log'[i] = log[i]
    BY OldMessages
<1>2. CASE Silent(T)
    <2>1. Published(T)' = Published(T)
        BY <1>2, StillPublished
    <2> QED BY <1>1, <2>1 DEF RequestsOnce
<1>3. CASE Requested
    <2>1. PICK m : Sent(m) /\ IsNewRequest(m)
        BY <1>3 DEF Requested
    <2>2. PICK n : News = {n} /\ log'[n] = m
        BY <2>1 DEF Sent
    <2>3. Published(T)' \subseteq Published(T) \cup {n}
        BY <2>2, OldMessages
    <2>4. \A i \in Published(T) : log[i].about # m.about
        BY <2>1 DEF IsNewRequest, IsPublished
    <2> QED BY <1>1, <2>2, <2>3, <2>4 DEF RequestsOnce
<1> QED BY <1>2, <1>3, Types

(* The request that is read now was not read before. *)
LEMMA FirstRead ==
    ASSUME BusOK, AnyStep, RequestsOnce, NEW s \in Service, NEW i, HasRead(s, i), IsRequest(log[i])
    PROVE  log[i].about \notin RequestsRead(s) /\ log[i].about \in RequestsRead(s)'
<1> DEFINE T == "UniqueAutomationRequest"
<1>1. i \in DOMAIN log /\ i \in Published(T) /\ read[s] < i /\ read'[s] = i /\ read[s] \in Nat
    BY DEF HasRead, Published, IsRequest, BusOK
<1>2. i \in Nat /\ i \in Published(T)' /\ log'[i] = log[i]
    BY <1>1, OldMessages
<1>3. \A j \in Published(T) : j \in Nat
    BY OldMessages
<1>4. log[i].about \notin RequestsRead(s)
    BY <1>1, <1>2, <1>3 DEF RequestsRead, ReadBy, RequestsOnce
<1>5. i \in ReadBy(s, T)'
    BY <1>1, <1>2 DEF ReadBy
<1> QED BY <1>2, <1>4, <1>5 DEF RequestsRead

LEMMA KeysThen ==
    ASSUME BusOK, AggregatorOK, AnyStep, StepKinds, RequestsOnce
    PROVE  \A k \in DOMAIN automation' :
               \/ k \in DOMAIN automation /\ automation'[k].about = automation[k].about
               \/ /\ k = nextKey /\ automation'[k].about \in RequestsRead("RouteAggregator")'
                  /\ automation'[k].about \notin RequestsRead("RouteAggregator")
<1>1. CASE UNCHANGED automation
    BY <1>1
<1>2. ASSUME NEW i \in DOMAIN log, Responded(i)
      PROVE  DOMAIN automation' \subseteq DOMAIN automation
             /\ \A k \in DOMAIN automation' : automation'[k] = automation[k]
    BY <1>2, Restricted DEF Responded, Discard
<1>3. ASSUME NEW i \in DOMAIN log, IsCollected(i), NEW k \in DOMAIN automation'
      PROVE  \/ k \in DOMAIN automation /\ automation'[k].about = automation[k].about
             \/ /\ k = nextKey /\ automation'[k].about \in RequestsRead("RouteAggregator")'
                /\ automation'[k].about \notin RequestsRead("RouteAggregator")
    <2>1. PICK reqs :
              /\ CollectedFrom(reqs, options')
              /\ \A x \in DOMAIN reqs : reqs[x] \in [about : Request, vehicles : SUBSET Vehicle]
              /\ \A x \in DOMAIN automation : x \in DOMAIN reqs /\ reqs[x] = automation[x]
              /\ \/ DOMAIN reqs = DOMAIN automation /\ nextKey' = nextKey
                 \/ /\ CollectedRequest(i) /\ nextKey' = nextKey + 1 /\ nextKey \notin DOMAIN automation
                    /\ DOMAIN reqs = {nextKey} \cup DOMAIN automation
                    /\ reqs[nextKey] = NewEntry(log[i].about)
        BY <1>3, CollectedThen
    <2>2. DOMAIN automation' = DOMAIN reqs /\ \A x \in DOMAIN reqs : automation'[x].about = reqs[x].about
        BY <2>1, EntriesThen
    <2>3. CASE k \in DOMAIN automation
        BY <1>3, <2>1, <2>2, <2>3
    <2>4. CASE k \notin DOMAIN automation
        <3>1. CollectedRequest(i) /\ k = nextKey /\ reqs[k] = NewEntry(log[i].about)
            BY <1>3, <2>1, <2>2, <2>4
        <3>2. automation'[k].about = log[i].about
            BY <1>3, <2>2, <3>1 DEF NewEntry
        <3>3. HasRead("RouteAggregator", i) /\ IsRequest(log[i]) /\ "RouteAggregator" \in Service
            BY <3>1, PipelineAssumption DEF CollectedRequest
        <3>4. log[i].about \notin RequestsRead("RouteAggregator") /\ log[i].about \in RequestsRead("RouteAggregator")'
            BY <3>3, FirstRead
        <3>5. log'[i] = log[i]
            BY OldMessages, <1>3
        <3> QED BY <3>1, <3>2, <3>4, <3>5
    <2> QED BY <2>3, <2>4
<1>4. \/ UNCHANGED automation \/ \E i \in DOMAIN log : IsCollected(i) \/ Responded(i)
    BY Readers DEF aggregation, collector, Learned, RoutesAsked
<1> QED BY <1>1, <1>2, <1>3, <1>4

LEMMA KeysOnceKept ==
    ASSUME BusOK, AggregatorOK, AnyStep, StepKinds, RequestsOnce, KeysOnce
    PROVE  KeysOnce'
<1> DEFINE s == "RouteAggregator"
           Old(k) == k \in DOMAIN automation /\ automation'[k].about = automation[k].about
           New(k) == k = nextKey /\ automation'[k].about \in RequestsRead(s)' /\ automation'[k].about \notin RequestsRead(s)
<1>1. \A k \in DOMAIN automation' : Old(k) \/ New(k)
    BY KeysThen
<1>2. s \in Service
    BY PipelineAssumption
<1>3. \A k \in DOMAIN automation' : Old(k) => automation'[k].about \in RequestsRead(s)
    BY DEF KeysOnce
<1>4. RequestsRead(s) \subseteq RequestsRead(s)'
    BY <1>2, StillRead
<1>5. \A k \in DOMAIN automation' : automation'[k].about \in RequestsRead(s)'
    BY <1>1, <1>3, <1>4
<1>6. \A k, l \in DOMAIN automation' : automation'[k].about = automation'[l].about => k = l
    <2> SUFFICES ASSUME NEW k \in DOMAIN automation', NEW l \in DOMAIN automation',
                        automation'[k].about = automation'[l].about
                 PROVE  k = l
        OBVIOUS
    <2>1. CASE Old(k) /\ Old(l)
        BY <2>1 DEF KeysOnce
    <2>2. CASE New(k) /\ New(l)
        BY <2>2
    <2> QED BY <1>1, <1>3, <2>1, <2>2
<1> QED BY <1>5, <1>6 DEF KeysOnce

LEMMA MatricesOnceKept ==
    ASSUME BusOK, AggregatorOK, AnyStep, StepKinds, RequestsOnce, KeysOnce, MatricesOnce
    PROVE  MatricesOnce'
<1> DEFINE T == "AssignmentCostMatrix"
           s == "RouteAggregator"
<1>1. s \in Service
    BY PipelineAssumption
<1>2. \A i \in Published(T) : log'[i] = log[i] /\ log[i].about \in RequestsRead(s) /\ log[i].about \in RequestsRead(s)'
    BY <1>1, StillRead, OldMessages DEF MatricesOnce
<1>3. ASSUME NEW i \in Published(T), NEW k \in DOMAIN automation'
      PROVE  automation'[k].about # log[i].about
    BY <1>2, KeysThen DEF MatricesOnce
<1>4. CASE Silent(T)
    <2>1. Published(T)' = Published(T)
        BY <1>4, StillPublished
    <2> QED BY <1>2, <1>3, <2>1 DEF MatricesOnce
<1>5. ASSUME NEW x \in DOMAIN log, Responded(x)
      PROVE  MatricesOnce'
    <2> DEFINE Of(i, k) == /\ k \in Fulfilled(x) /\ k \in DOMAIN automation
                           /\ IsMatrixOf(log'[i], k) /\ log'[i].about = automation[k].about
    <2>1. \A i \in Published(T)' : i \in Published(T) \/ (i \in News /\ \E k : Of(i, k))
        <3> SUFFICES ASSUME NEW i \in Published(T)', i \notin Published(T)
                     PROVE  i \in News /\ \E k : Of(i, k)
            OBVIOUS
        <3>1. i \in News /\ log'[i].type = T
            BY OldMessages
        <3>2. PICK k \in Fulfilled(x) : IsMatrixOf(log'[i], k)
            BY <1>5, <3>1 DEF Responded, IsResponseTo
        <3>3. k \in DOMAIN automation
            BY DEF Fulfilled, AggregatorOK
        <3> QED BY <3>1, <3>2, <3>3 DEF IsMatrixOf
    <2>2. /\ DOMAIN automation' = DOMAIN automation \ Fulfilled(x)
          /\ \A k \in DOMAIN automation' : automation'[k] = automation[k]
        BY <1>5, Restricted DEF Responded, Discard
    <2>3. ASSUME NEW i \in News, NEW k, Of(i, k)
          PROVE  /\ log'[i].about \in RequestsRead(s)'
                 /\ \A l \in DOMAIN automation' : automation'[l].about # log'[i].about
                 /\ \A j \in Published(T) : log[j].about # log'[i].about
        <3>1. log'[i].about \in RequestsRead(s)
            BY <2>3 DEF KeysOnce
        <3>2. log'[i].about \in RequestsRead(s)'
            BY <1>1, <3>1, StillRead
        <3>3. \A l \in DOMAIN automation' : automation'[l].about # log'[i].about
            BY <2>2, <2>3 DEF KeysOnce
        <3> QED BY <2>3, <3>2, <3>3 DEF MatricesOnce
    <2>4. ASSUME NEW i \in News, NEW j \in News, NEW k, NEW l, Of(i, k), Of(j, l),
                 log'[i].about = log'[j].about
          PROVE  i = j
        <3>1. k = l
            BY <2>4 DEF KeysOnce
        <3> QED BY <1>5, <2>4, <3>1 DEF Responded
    <2> HIDE DEF Of
    <2>5. \A i \in Published(T)' :
              /\ log'[i].about \in RequestsRead(s)'
              /\ \A k \in DOMAIN automation' : automation'[k].about # log'[i].about
        BY <1>2, <1>3, <2>1, <2>3
    <2>6. \A i, j \in Published(T)' : log'[i].about = log'[j].about => i = j
        <3> SUFFICES ASSUME NEW i \in Published(T)', NEW j \in Published(T)', log'[i].about = log'[j].about
                     PROVE  i = j
            OBVIOUS
        <3>1. CASE i \in Published(T) /\ j \in Published(T)
            BY <1>2, <3>1 DEF MatricesOnce
        <3>2. CASE i \notin Published(T) /\ j \notin Published(T)
            BY <2>1, <2>4, <3>2
        <3> QED BY <1>2, <2>1, <2>3, <3>1, <3>2
    <2> QED BY <2>5, <2>6 DEF MatricesOnce
<1> QED BY <1>4, <1>5, Types
(* What the assignment service does with message i. *)
LEMMA TreeThen ==
    ASSUME HeldIsRead, NEW i, Prepared(i) \/ Assigned(i)
    PROVE  /\ HasRead("AssignmentTree", i) /\ log[i].about \in Request /\ DOMAIN held' = Request
           /\ \A r \in Request \ {log[i].about} : held'[r] = held[r]
           /\ \/ Prepared(i) /\ held'[log[i].about] = Kept(log[i])
              \/ Assigned(i) /\ held'[log[i].about] = {}
<1>1. DOMAIN held = Request
    BY DEF HeldIsRead
<1>2. log[i].about \in Request
    BY DEF Prepared, Assigned, IsPrerequisite, IsRequest, IsOffer, IsMatrix
<1> QED BY <1>1, <1>2 DEF Prepared, Assigned

LEMMA KeptIs ==
    ASSUME HeldIsRead, BusOK, NEW i, HasRead("AssignmentTree", i), log[i].about \in Request,
           NEW m \in Kept(log[i])
    PROVE  /\ m.about = log[i].about
           /\ m = log[i] \/ m \in held[log[i].about]
           /\ \E j \in DOMAIN log : j <= i /\ log[j] = m
<1>1. m = log[i] \/ m \in held[log[i].about]
    BY DEF Kept
<1>2. i \in DOMAIN log /\ i \in Nat /\ read["AssignmentTree"] < i /\ read["AssignmentTree"] \in Nat
    BY PipelineAssumption, SequenceDomain DEF HasRead, BusOK
<1>3. \A j \in DOMAIN log : j \in Nat
    BY SequenceDomain DEF BusOK
<1>4. CASE m \in held[log[i].about]
    <2>1. PICK j \in DOMAIN log : j <= read["AssignmentTree"] /\ log[j] = m
        BY <1>4 DEF HeldIsRead
    <2>2. j <= i
        BY <1>2, <1>3, <2>1
    <2> QED BY <1>4, <2>1, <2>2 DEF HeldIsRead
<1> QED BY <1>1, <1>2, <1>4

LEMMA HeldIsReadKept ==
    ASSUME BusOK, AnyStep, StepKinds, HeldIsRead
    PROVE  HeldIsRead'
<1> DEFINE s == "AssignmentTree"
           Before(m, p) == \E i \in DOMAIN log : i <= p /\ log[i] = m
<1>1. /\ s \in Service /\ read[s] \in Nat /\ read'[s] \in Nat /\ read[s] <= read'[s]
      /\ \A i \in DOMAIN log : i \in Nat /\ i \in DOMAIN log' /\ log'[i] = log[i]
    BY PipelineAssumption, OldMessages, Growing DEF AnyStep, BusOK
<1>2. DOMAIN held' = Request /\ \A r \in Request : \A m \in held'[r] : m.about = r /\ Before(m, read'[s])
    <2>1. \A r \in Request : \A m \in held[r] : m.about = r /\ Before(m, read'[s])
        BY <1>1 DEF HeldIsRead
    <2>2. CASE UNCHANGED held
        BY <2>1, <2>2 DEF HeldIsRead
    <2>3. ASSUME NEW i \in DOMAIN log, Prepared(i) \/ Assigned(i)
          PROVE  DOMAIN held' = Request /\ \A r \in Request : \A m \in held'[r] : m.about = r /\ Before(m, read'[s])
        <3>1. /\ HasRead(s, i) /\ log[i].about \in Request /\ DOMAIN held' = Request
              /\ \A r \in Request \ {log[i].about} : held'[r] = held[r]
              /\ held'[log[i].about] = Kept(log[i]) \/ held'[log[i].about] = {}
            BY <2>3, TreeThen
        <3>2. read'[s] = i
            BY <3>1 DEF HasRead
        <3>3. \A m \in Kept(log[i]) : m.about = log[i].about /\ Before(m, i)
            BY <3>1, KeptIs
        <3> HIDE DEF Before
        <3> QED BY <2>1, <3>1, <3>2, <3>3
    <2> QED BY <2>2, <2>3, Readers
<1> QED BY <1>1, <1>2 DEF HeldIsRead

LEMMA HeldIsFunctionKept ==
    ASSUME BusOK, StepKinds, HeldIsRead, HeldIsFunction
    PROVE  HeldIsFunction'
<1>1. CASE UNCHANGED held
    BY <1>1 DEF HeldIsFunction
<1>2. ASSUME NEW r, NEW S, held' = [held EXCEPT ![r] = S]
      PROVE  HeldIsFunction'
    BY <1>2 DEF HeldIsFunction, HeldIsRead
<1> QED BY <1>1, <1>2, Readers DEF Prepared, Assigned

LEMMA OutcomesThen ==
    ASSUME AnyStep, StepKinds
    PROVE  /\ \A i \in Outcomes : log'[i] = log[i] /\ i \in DOMAIN log /\ i \in Nat
           /\ \/ Outcomes' = Outcomes
              \/ \E i \in DOMAIN log, n \in News :
                    /\ Assigned(i) /\ News = {n} /\ n = Len(log) + 1 /\ log'[n].about = log[i].about
                    /\ Outcomes' = Outcomes \cup {n}
<1>1. \A i \in Outcomes : log'[i] = log[i] /\ i \in DOMAIN log /\ i \in Nat
    BY OldMessages DEF Outcomes
<1>2. CASE Silent("TaskAssignmentSummary") /\ Silent("ServiceStatus")
    <2>1. Outcomes' = Outcomes
        BY <1>2, StillPublished DEF Outcomes
    <2> QED BY <1>1, <2>1
<1>3. ASSUME NEW i \in DOMAIN log, Assigned(i)
      PROVE  \E n \in News :
                /\ News = {n} /\ n = Len(log) + 1 /\ log'[n].about = log[i].about
                /\ Outcomes' = Outcomes \cup {n}
    <2>1. PICK m : Sent(m) /\ IsOutcome(m) /\ m.about = log[i].about
        BY <1>3 DEF Assigned
    <2>2. PICK n : n = Len(log) + 1 /\ News = {n} /\ log'[n] = m
        BY <2>1 DEF Sent
    <2>3. m.type \in {"TaskAssignmentSummary", "ServiceStatus"}
        BY <2>1 DEF IsOutcome
    <2>4. Outcomes' = Outcomes \cup {n}
        BY <2>2, <2>3, OldMessages DEF Outcomes
    <2> QED BY <2>1, <2>2, <2>4
<1> QED BY <1>1, <1>2, <1>3, Types

LEMMA OutcomesOnceKept ==
    ASSUME BusOK, AnyStep, StepKinds, RequestsOnce, HeldIsRead, OutcomesOnce
    PROVE  OutcomesOnce'
<1> DEFINE s == "AssignmentTree"
           T == "UniqueAutomationRequest"
           None(S) == \A m \in S : m.type # T
<1>1. s \in Service
    BY PipelineAssumption
<1>2. \A i \in Outcomes : /\ log'[i] = log[i]
                          /\ log[i].about \in RequestsRead(s) /\ log[i].about \in RequestsRead(s)'
                          /\ log[i].about \in Request => None(held[log[i].about])
    BY <1>1, OutcomesThen, StillRead DEF OutcomesOnce
<1>3. \A r \in Request : r \in RequestsRead(s) /\ None(held[r]) => None(held'[r])
    <2>1. CASE UNCHANGED held
        BY <2>1
    <2>2. ASSUME NEW i \in DOMAIN log, Prepared(i) \/ Assigned(i),
                 NEW r \in Request, r \in RequestsRead(s), None(held[r])
          PROVE  None(held'[r])
        <3>1. /\ HasRead(s, i) /\ log[i].about \in Request
              /\ r # log[i].about => held'[r] = held[r]
              /\ r = log[i].about => held'[r] = Kept(log[i]) \/ held'[r] = {}
            BY <2>2, TreeThen
        <3>2. CASE r = log[i].about
            <4>1. ~IsRequest(log[i])
                BY <1>1, <2>2, <3>1, <3>2, FirstRead
            <4>2. log[i].type # T
                BY <4>1, <2>2 DEF Prepared, Assigned, IsPrerequisite, IsRequest, IsOffer, IsMatrix
            <4>3. None(Kept(log[i]))
                BY <2>2, <3>2, <4>2 DEF Kept
            <4> QED BY <3>1, <3>2, <4>3
        <3> QED BY <2>2, <3>1, <3>2
    <2> QED BY <2>1, <2>2, Readers
<1>4. CASE Outcomes' = Outcomes
    <2>1. \A i \in Outcomes' : log'[i].about \in RequestsRead(s)'
        BY <1>2, <1>4
    <2>2. \A i \in Outcomes' : log'[i].about \in Request => None(held'[log'[i].about])
        BY <1>2, <1>3, <1>4
    <2>3. \A i, j \in Outcomes' : log'[i].about = log'[j].about => i = j
        BY <1>2, <1>4 DEF OutcomesOnce
    <2> QED BY <2>1, <2>2, <2>3 DEF OutcomesOnce
<1>5. ASSUME NEW i \in DOMAIN log, NEW n \in News, Assigned(i), log'[n].about = log[i].about,
             Outcomes' = Outcomes \cup {n}
      PROVE  OutcomesOnce'
    <2> DEFINE r == log[i].about
    <2>1. HasRead(s, i) /\ r \in Request /\ held'[r] = {} /\ IsAssignmentReady(r, Kept(log[i]))
        <3>1. ~Prepared(i)
            BY <1>5 DEF Prepared
        <3> QED BY <1>5, <3>1, TreeThen DEF Assigned
    <2>2. PICK m \in Kept(log[i]) : m.type = T
        BY <2>1 DEF IsAssignmentReady
    <2>3. \A j \in Outcomes : log[j].about # r
        <3> SUFFICES ASSUME NEW j \in Outcomes, log[j].about = r
                     PROVE  FALSE
            OBVIOUS
        <3>1. r \in RequestsRead(s) /\ None(held[r])
            BY <1>2, <2>1
        <3>2. m = log[i]
            BY <2>1, <2>2, <3>1, KeptIs
        <3>3. IsRequest(log[i])
            BY <1>5, <2>2, <3>2 DEF Assigned, IsPrerequisite, IsRequest, IsOffer, IsMatrix
        <3> QED BY <1>1, <2>1, <3>1, <3>3, FirstRead
    <2>4. r \in RequestsRead(s)'
        <3>1. m.about = r /\ \E j \in DOMAIN log : j <= i /\ log[j] = m
            BY <2>1, <2>2, KeptIs
        <3>2. PICK j \in DOMAIN log : j <= i /\ log[j] = m
            BY <3>1
        <3>3. j \in Published(T)
            BY <2>2, <3>2 DEF Published
        <3>4. j \in Published(T)' /\ log'[j] = m
            BY <3>2, <3>3, OldMessages
        <3>5. read'[s] = i
            BY <2>1 DEF HasRead
        <3> QED BY <3>1, <3>2, <3>4, <3>5 DEF RequestsRead, ReadBy
    <2>5. \A j \in Outcomes' : log'[j].about \in RequestsRead(s)'
        BY <1>2, <1>5, <2>4
    <2>6. \A j \in Outcomes' : log'[j].about \in Request => None(held'[log'[j].about])
        BY <1>2, <1>3, <1>5, <2>1
    <2>7. \A j, k \in Outcomes' : log'[j].about = log'[k].about => j = k
        BY <1>2, <1>5, <2>3 DEF OutcomesOnce
    <2> QED BY <2>5, <2>6, <2>7 DEF OutcomesOnce
<1> QED BY <1>4, <1>5, OutcomesThen

LEMMA OutcomesLastKept ==
    ASSUME BusOK, AnyStep, StepKinds, HeldIsRead, OutcomesLast
    PROVE  OutcomesLast'
<1> DEFINE T == "AssignmentCostMatrix"
<1>1. \A j \in Published(T) : j \in Published(T)' /\ log'[j] = log[j] /\ j \in Nat /\ j <= Len(log)
    BY OldMessages
<1>2. ASSUME NEW i \in Outcomes
      PROVE  \E j \in Published(T)' : j < i /\ log'[j].about = log'[i].about
    BY <1>1, OutcomesThen DEF OutcomesLast
<1>3. ASSUME NEW i \in DOMAIN log, NEW n \in News, Assigned(i), n = Len(log) + 1,
             log'[n].about = log[i].about
      PROVE  \E j \in Published(T)' : j < n /\ log'[j].about = log'[n].about
    <2>1. PICK m \in Kept(log[i]) : m.type = T
        BY <1>3 DEF Assigned, IsAssignmentReady
    <2>2. HasRead("AssignmentTree", i) /\ log[i].about \in Request
        BY <1>3, TreeThen
    <2>3. m.about = log[i].about /\ \E j \in DOMAIN log : j <= i /\ log[j] = m
        BY <2>1, <2>2, KeptIs
    <2>4. PICK j \in DOMAIN log : log[j] = m
        BY <2>3
    <2>5. j \in Published(T) /\ Len(log) \in Nat
        BY <2>1, <2>4, OldMessages DEF Published
    <2>6. j < n
        BY <1>1, <1>3, <2>5
    <2> QED BY <1>1, <1>3, <2>3, <2>4, <2>5, <2>6
<1>4. \A i \in Outcomes' : \/ i \in Outcomes
                           \/ \E x \in DOMAIN log : /\ Assigned(x) /\ i \in News /\ i = Len(log) + 1
                                                    /\ log'[i].about = log[x].about
    BY OutcomesThen
<1>5. \A i \in Outcomes' : \E j \in Published(T)' : j < i /\ log'[j].about = log'[i].about
    BY <1>2, <1>3, <1>4
<1> QED BY <1>5 DEF OutcomesLast
-----------------------------------------------------------------------------
(***************************************************************************)
(* The states that are known, and the RouteRequests and their answers.     *)
(***************************************************************************)
LEMMA QueriesOnceKept ==
    ASSUME AnyStep, StepKinds, QueriesOnce
    PROVE  QueriesOnce'
<1> DEFINE T == "RouteRequest"
<1>1. \A i \in Published(T) : log'[i] = log[i]
    BY OldMessages
<1>2. CASE Silent(T)
    <2>1. Published(T)' = Published(T)
        BY <1>2, StillPublished
    <2> QED BY <1>1, <2>1 DEF QueriesOnce
<1>3. CASE Queried
    <2>1. PICK m : Sent(m) /\ IsNewQuery(m)
        BY <1>3 DEF Queried
    <2>2. PICK n : News = {n} /\ log'[n] = m
        BY <2>1 DEF Sent
    <2>3. Published(T)' \subseteq Published(T) \cup {n}
        BY <2>2, OldMessages
    <2>4. \A i \in Published(T) : log[i].id # m.id
        BY <2>1 DEF IsNewQuery, QueryAt
    <2> QED BY <1>1, <2>2, <2>3, <2>4 DEF QueriesOnce
<1> QED BY <1>2, <1>3, Types

(* What the RouteAggregatorService reads. *)
LEMMA AggregatorReads ==
    ASSUME NEW i, Learned(i) \/ IsCollected(i) \/ RoutesAsked(i) \/ Responded(i)
    PROVE  HasRead("RouteAggregator", i)
BY DEF Learned, IsCollected, CollectedRequest, CollectedOptions, RoutesAsked, Responded

LEMMA AggregatorService ==
    ASSUME BusOK
    PROVE  /\ "RouteAggregator" \in Service /\ read["RouteAggregator"] \in Nat
           /\ read["RouteAggregator"] <= Len(log) /\ Len(log) \in Nat
           /\ \A i \in DOMAIN log : i \in Nat
BY PipelineAssumption, SequenceDomain DEF BusOK, IsSequence

LEMMA KnownKept ==
    ASSUME BusOK, AnyStep, StepKinds, KnownIsReported
    PROVE  KnownIsReported'
<1> DEFINE s == "RouteAggregator"
           T == "EntityState"
           Old == ReadBy(s, T)
           New == ReadBy(s, T)'
<1>1. \A i \in Old : log'[i] = log[i]
    BY OldMessages DEF ReadBy
<1>2. CASE read'[s] = read[s] /\ UNCHANGED aggregation
    <2>1. New = Old
        BY <1>2, Readers, AggregatorService, ReadByNone
    <2>2. known' = known
        BY <1>2 DEF aggregation
    <2> HIDE DEF Old, New
    <2>3. known' = {log'[i].vehicle : i \in New}
        BY <1>1, <2>1, <2>2 DEF KnownIsReported, Old
    <2> QED BY <2>3 DEF KnownIsReported, New
<1>3. ASSUME NEW i \in DOMAIN log, Learned(i) \/ IsCollected(i) \/ RoutesAsked(i) \/ Responded(i)
      PROVE  KnownIsReported'
    <2>1. New = Old \cup {j \in {i} : log[j].type = T}
        BY <1>3, AggregatorReads, ReadNext
    <2>2. known' = known \cup {log[j].vehicle : j \in {x \in {i} : log[x].type = T}}
        <3>1. CASE Learned(i)
            BY <3>1 DEF Learned, IsState
        <3>2. CASE IsCollected(i) \/ RoutesAsked(i) \/ Responded(i)
            <4>1. known' = known
                BY <3>2 DEF IsCollected, CollectedRequest, CollectedOptions, CollectedFrom,
                   RoutesAsked, Responded
            <4>2. log[i].type # T
                BY <3>2 DEF IsCollected, CollectedRequest, CollectedOptions, RoutesAsked, Responded,
                   IsRequest, IsOffer, IsQuery, IsPlanResponse, IsPlanResponseBelow
            <4> QED BY <4>1, <4>2
        <3> QED BY <1>3, <3>1, <3>2
    <2>3. log'[i] = log[i]
        BY <1>3, OldMessages
    <2> HIDE DEF Old, New
    <2>4. known = {log[j].vehicle : j \in Old}
        BY DEF KnownIsReported, Old
    <2>5. known' = {log'[j].vehicle : j \in New}
        BY <1>1, <2>1, <2>2, <2>3, <2>4
    <2> QED BY <2>5 DEF KnownIsReported, New
<1> QED BY <1>2, <1>3, Readers

(* A response is counted when it is read. *)
LEMMA ResponsesCameKept ==
    ASSUME BusOK, AggregatorOK, AnyStep, StepKinds, ResponsesCame
    PROVE  ResponsesCame'
<1> DEFINE s == "RouteAggregator"
           T == "RoutePlanResponse"
           Came(n) == \E i \in ReadBy(s, T)' : log'[i].id = n
<1>1. \A n \in responses : Came(n)
    <2>1. \A i \in ReadBy(s, T) : i \in ReadBy(s, T)' /\ log'[i] = log[i]
        BY StillRead, AggregatorService, OldMessages DEF ReadBy
    <2> QED BY <2>1 DEF ResponsesCame
<1>2. ASSUME NEW i \in DOMAIN log, Responded(i), NEW n \in responses'
      PROVE  Came(n)
    <2>1. n \in responses \/ n = log[i].id
        BY <1>2 DEF Responded
    <2>2. i \in Published(T) /\ HasRead(s, i)
        BY <1>2 DEF Responded, IsPlanResponse, IsPlanResponseBelow, Published
    <2>3. i \in Published(T)' /\ log'[i] = log[i] /\ i \in Nat
        BY <2>2, OldMessages
    <2>4. i \in ReadBy(s, T)'
        BY <2>2, <2>3 DEF HasRead, ReadBy
    <2> QED BY <1>1, <2>1, <2>3, <2>4
<1>3. responses' = responses \/ \E i \in DOMAIN log : Responded(i)
    BY NextPlan DEF RoutesAsked
<1>4. \A n \in responses' : Came(n)
    BY <1>1, <1>2, <1>3
<1> QED BY <1>4 DEF ResponsesCame

(***************************************************************************)
(* What was planned for a RouteRequest stays what it lists.                *)
(***************************************************************************)
LEMMA QueriedThen ==
    ASSUME BusOK, AnyStep, StepKinds, NEW q \in QueriesRead
    PROVE  /\ QueriedVehicles(q)' = QueriedVehicles(q)
           /\ q \in QueriesRead'
<1> DEFINE At(i) == IF log[i].vehicles # {} THEN log[i].vehicles
                    ELSE {log[j].vehicle : j \in {x \in Published("EntityState") : x < i}}
<1>1. PICK i0 \in Published("RouteRequest") : log[i0].id = q
    BY DEF QueriesRead, ReadBy
<1>2. QueryAt(q)' = QueryAt(q)
    <2>1. CASE Silent("RouteRequest")
        <3>1. Published("RouteRequest")' = Published("RouteRequest")
            BY <2>1, StillPublished
        <3> QED BY <3>1, OldMessages DEF QueryAt
    <2>2. CASE Queried
        <3>1. PICK m : Sent(m) /\ IsNewQuery(m)
            BY <2>2 DEF Queried
        <3>2. m.id # q
            BY <1>1, <3>1 DEF IsNewQuery, QueryAt
        <3>3. \A j \in News : log'[j].id # q
            BY <3>1, <3>2 DEF Sent
        <3> QED BY <3>3, OldMessages DEF QueryAt
    <2> QED BY <2>1, <2>2, Types
<1>3. ASSUME NEW i \in QueryAt(q)
      PROVE  At(i)' = At(i)
    <2>1. i \in DOMAIN log /\ log'[i] = log[i] /\ i \in Nat /\ i <= Len(log)
        BY OldMessages DEF QueryAt
    <2> DEFINE S == {x \in Published("EntityState") : x < i}
    <2>2. S' = S
        BY <2>1, OldMessages
    <2>3. \A j \in S : log'[j] = log[j]
        BY OldMessages
    <2> HIDE DEF S
    <2>4. {log'[j].vehicle : j \in S'} = {log[j].vehicle : j \in S}
        BY <2>2, <2>3
    <2> QED BY <2>1, <2>4 DEF S
<1>4. QueriedVehicles(q) = UNION {At(i) : i \in QueryAt(q)}
    BY DEF QueriedVehicles
<1>5. QueriedVehicles(q)' = UNION {At(i)' : i \in QueryAt(q)'}
    BY DEF QueriedVehicles
<1> HIDE DEF At
<1>6. UNION {At(i)' : i \in QueryAt(q)'} = UNION {At(i) : i \in QueryAt(q)}
    BY <1>2, <1>3
<1> QED BY <1>4, <1>5, <1>6, StillRead

LEMMA PlannedThen ==
    ASSUME BusOK, AggregatorOK, AnyStep, StepKinds, NEW ids, ids \subseteq 1 .. nextPlan - 1
    PROVE  PlannedVehicles(ids)' = PlannedVehicles(ids)
<1> DEFINE T == "RoutePlanRequest"
           S == {j \in Published(T) : log[j].id \in ids}
<1>1. \A j \in News : log'[j].type = T => log'[j].id \notin ids
    <2>1. CASE Silent(T)
        BY <2>1 DEF Silent
    <2>2. ASSUME NEW i \in DOMAIN log, IsCollected(i), NEW j \in News
          PROVE  log'[j].id \notin ids
        <3>1. log'[j].id = 0
            BY <2>2 DEF IsCollected, CollectedRequest, CollectedOptions, CollectedFrom
        <3> QED BY <3>1
    <2>3. ASSUME NEW i \in DOMAIN log, RoutesAsked(i), NEW j \in News
          PROVE  log'[j].id \notin ids
        <3>1. log'[j].id \in nextPlan .. nextPlan' - 1
            BY <2>3 DEF RoutesAsked, NewIds
        <3>2. nextPlan \in Nat /\ nextPlan' \in Nat
            BY NextPlan
        <3> QED BY <3>1, <3>2
    <2> QED BY <2>1, <2>2, <2>3, Types
<1>2. S' = S /\ \A j \in S : log'[j] = log[j]
    BY <1>1, OldMessages
<1> HIDE DEF S
<1>3. {log'[j].vehicle : j \in S'} = {log[j].vehicle : j \in S}
    BY <1>2
<1> QED BY <1>3 DEF PlannedVehicles, S

LEMMA PlannedForThen ==
    ASSUME BusOK, AggregatorOK, AnyStep, StepKinds,
           NEW q \in QueriesRead, NEW ids, IsPlannedFor(ids, q)
    PROVE  IsPlannedFor(ids, q)'
<1>1. ids # {} /\ ids \subseteq 1 .. nextPlan - 1 /\ PlannedVehicles(ids) = QueriedVehicles(q)
    BY DEF IsPlannedFor
<1>2. PlannedVehicles(ids)' = QueriedVehicles(q)'
    BY <1>1, QueriedThen, PlannedThen
<1>3. nextPlan \in Nat \ {0} /\ nextPlan' \in Nat \ {0} /\ nextPlan <= nextPlan'
    BY NextPlan DEF AggregatorOK
<1>4. ids \subseteq 1 .. nextPlan' - 1
    BY <1>1, <1>3, Intervals
<1> QED BY <1>1, <1>2, <1>4 DEF IsPlannedFor
(* The RouteRequest that is read now was not read before. *)
LEMMA FirstQueryRead ==
    ASSUME BusOK, AnyStep, QueriesOnce, NEW i, HasRead("RouteAggregator", i), IsQuery(log[i])
    PROVE  /\ log[i].id \notin QueriesRead
           /\ QueryAt(log[i].id) = {i} /\ log[i].id \in QueriesRead'
<1> DEFINE T == "RouteRequest"
           s == "RouteAggregator"
<1>1. /\ i \in DOMAIN log /\ i \in Published(T) /\ read[s] < i /\ read'[s] = i
      /\ read[s] \in Nat /\ i \in Nat
    BY AggregatorService DEF HasRead, Published, IsQuery
<1>2. i \in Published(T)' /\ log'[i] = log[i] /\ \A j \in Published(T) : j \in Nat
    BY <1>1, OldMessages
<1>3. \A j \in Published(T) : log[j].id = log[i].id => j = i
    BY <1>1 DEF QueriesOnce
<1>4. QueryAt(log[i].id) = {i}
    BY <1>1, <1>3 DEF QueryAt
<1>5. log[i].id \notin QueriesRead
    BY <1>1, <1>2, <1>3 DEF QueriesRead, ReadBy
<1>6. i \in ReadBy(s, T)'
    BY <1>1, <1>2 DEF ReadBy
<1> QED BY <1>2, <1>4, <1>5, <1>6 DEF QueriesRead

LEMMA AskedFor ==
    ASSUME BusOK, AggregatorOK, AnyStep, StepKinds, QueriesOnce, KnownIsReported,
           NEW i \in DOMAIN log, RoutesAsked(i),
           NEW ids, ids = nextPlan .. nextPlan' - 1, ids # {}
    PROVE  IsPlannedFor(ids, log[i].id)'
<1> DEFINE q == log[i].id
           T == "RoutePlanRequest"
           vehicles == IF log[i].vehicles = {} THEN known ELSE log[i].vehicles
<1>1. /\ HasRead("RouteAggregator", i) /\ IsQuery(log[i])
      /\ \A j \in News : /\ log'[j].id \in ids /\ log'[j].vehicle \in vehicles
                         /\ IsPlanRequestBelow(log'[j], nextPlan')
      /\ \A v \in vehicles : \E j \in News : log'[j].vehicle = v
    BY DEF RoutesAsked, NewIds
<1>2. nextPlan \in Nat \ {0} /\ nextPlan' \in Nat \ {0} /\ nextPlan <= nextPlan'
    BY NextPlan DEF AggregatorOK
<1>3. PlannedVehicles(ids)' = vehicles
    <2> DEFINE S == {j \in Published(T) : log[j].id \in ids}
    <2>1. \A j \in Published(T) : log[j].id \notin ids
        <3> SUFFICES ASSUME NEW j \in Published(T), log[j].id \in ids
                     PROVE  FALSE
            OBVIOUS
        <3>1. IsMessage(log[j]) /\ log[j].type = T
            BY DEF Published, BusOK
        <3>2. log[j].id \in 0 .. nextPlan - 1
            BY <3>1, TypeTells DEF IsPlanRequest, IsPlanRequestBelow
        <3> QED BY <1>2, <3>2
    <2>2. S' = News
        <3>1. \A j \in News : log'[j].type = T /\ log'[j].id \in ids
            BY <1>1 DEF IsPlanRequestBelow
        <3>2. \A j \in Published(T) : log'[j] = log[j]
            BY OldMessages
        <3>3. Published(T)' = Published(T) \cup News
            BY <3>1, OldMessages
        <3> QED BY <2>1, <3>1, <3>2, <3>3
    <2>3. {log'[j].vehicle : j \in News} = vehicles
        BY <1>1
    <2> HIDE DEF S, vehicles
    <2>4. {log'[j].vehicle : j \in S'} = vehicles
        BY <2>2, <2>3
    <2> QED BY <2>4 DEF PlannedVehicles, S
<1>4. q \in QueriesRead' /\ QueryAt(q) = {i} /\ i \in Published("RouteRequest")
    BY <1>1, FirstQueryRead DEF QueryAt
<1>5. QueriedVehicles(q) = vehicles
    <2>1. QueriedVehicles(q) = IF log[i].vehicles # {} THEN log[i].vehicles
             ELSE {log[j].vehicle : j \in {x \in Published("EntityState") : x < i}}
        BY <1>4 DEF QueriedVehicles
    <2>2. {x \in Published("EntityState") : x < i} = ReadBy("RouteAggregator", "EntityState")
        <3>1. \A j \in Published("EntityState") : j < i => j \in ReadBy("RouteAggregator", "EntityState")
            BY <1>1, ReadNext
        <3>2. /\ read["RouteAggregator"] < i /\ read["RouteAggregator"] \in Nat /\ i \in Nat
              /\ \A j \in Published("EntityState") : j \in Nat
            BY <1>1, AggregatorService, OldMessages DEF HasRead
        <3>3. \A j \in ReadBy("RouteAggregator", "EntityState") : j \in Published("EntityState") /\ j < i
            BY <3>2 DEF ReadBy
        <3> QED BY <3>1, <3>3
    <2>3. known = {log[j].vehicle : j \in ReadBy("RouteAggregator", "EntityState")}
        BY DEF KnownIsReported
    <2> QED BY <2>1, <2>2, <2>3
<1>6. QueriedVehicles(q)' = QueriedVehicles(q)
    <2>1. QueryAt(q)' = {i} /\ log'[i] = log[i]
        <3>1. ~Queried
            BY <1>1, AggregatorService DEF Queried, OfOthers, HasRead
        <3>2. Published("RouteRequest")' = Published("RouteRequest")
            BY <3>1, Types, StillPublished
        <3> QED BY <1>4, <3>2, OldMessages DEF QueryAt
    <2> DEFINE S == {x \in Published("EntityState") : x < i}
    <2>2. S' = S /\ \A j \in S : log'[j] = log[j]
        BY OldMessages
    <2> HIDE DEF S
    <2>3. {log'[j].vehicle : j \in S'} = {log[j].vehicle : j \in S}
        BY <2>2
    <2>4. QueriedVehicles(q)' = IF log'[i].vehicles # {} THEN log'[i].vehicles
                                ELSE {log'[j].vehicle : j \in S'}
        <3>1. q' = q
            BY <2>1
        <3> QED BY <2>1, <3>1 DEF QueriedVehicles, S
    <2>5. QueriedVehicles(q) = IF log[i].vehicles # {} THEN log[i].vehicles
                               ELSE {log[j].vehicle : j \in S}
        BY <1>4 DEF QueriedVehicles, S
    <2> QED BY <2>1, <2>3, <2>4, <2>5
<1>7. ids \subseteq 1 .. nextPlan' - 1
    BY <1>2, Intervals
<1>8. PlannedVehicles(ids)' = QueriedVehicles(q)'
    BY <1>3, <1>5, <1>6
<1> QED BY <1>7, <1>8 DEF IsPlannedFor
(***************************************************************************)
(* The RouteResponses.                                                     *)
(***************************************************************************)
LEMMA AnswersThen ==
    ASSUME AnyStep, StepKinds, NEW q
    PROVE  \/ Answers(q)' = Answers(q)
           \/ \E i \in DOMAIN log : Responded(i) /\ q \in Satisfied(i)
<1> DEFINE T == "RouteResponse"
<1>1. \A j \in Published(T) : log'[j] = log[j]
    BY OldMessages
<1>2. CASE Silent(T)
    <2>1. Published(T)' = Published(T)
        BY <1>2, StillPublished
    <2> QED BY <1>1, <2>1 DEF Answers
<1>3. ASSUME NEW i \in DOMAIN log, Responded(i), q \notin Satisfied(i)
      PROVE  Answers(q)' = Answers(q)
    <2>1. \A j \in News : log'[j].type = T => log'[j].id # q
        BY <1>3 DEF Responded, IsMatrixOf, IsResponseTo
    <2> QED BY <1>1, <2>1, OldMessages DEF Answers
<1> QED BY <1>2, <1>3, Types

LEMMA PendingThen ==
    ASSUME BusOK, AggregatorOK, AnyStep, StepKinds, QueriesOnce, QueriesAwaited,
           NEW q \in DOMAIN pendingRoute'
    PROVE  \/ /\ q \in DOMAIN pendingRoute /\ pendingRoute'[q] = pendingRoute[q]
              /\ \A i \in DOMAIN log : Responded(i) => q \notin Satisfied(i)
           \/ \E i \in DOMAIN log :
                 /\ RoutesAsked(i) /\ q = log[i].id /\ q \notin DOMAIN pendingRoute
                 /\ NewIds # {} /\ pendingRoute'[q] = NewIds
<1>1. ASSUME NEW i \in DOMAIN log, Responded(i)
      PROVE  q \in DOMAIN pendingRoute /\ pendingRoute'[q] = pendingRoute[q] /\ q \notin Satisfied(i)
    BY <1>1, Restricted DEF Responded
<1>2. CASE UNCHANGED pendingRoute
    BY <1>1, <1>2
<1>3. ASSUME NEW i \in DOMAIN log, RoutesAsked(i), pendingRoute' # pendingRoute
      PROVE  \/ q \in DOMAIN pendingRoute /\ pendingRoute'[q] = pendingRoute[q]
             \/ /\ RoutesAsked(i) /\ q = log[i].id /\ q \notin DOMAIN pendingRoute
                /\ NewIds # {} /\ pendingRoute'[q] = NewIds
    <2> DEFINE a == log[i].id
               was == IF a \in DOMAIN pendingRoute THEN pendingRoute[a] ELSE {}
    <2>1. pendingRoute' = WithEntry(pendingRoute, a, was \cup NewIds) /\ NewIds # {}
        BY <1>3 DEF RoutesAsked
    <2>2. a \notin QueriesRead
        BY <1>3, FirstQueryRead DEF RoutesAsked
    <2>3. a \notin DOMAIN pendingRoute
        BY <2>2 DEF QueriesAwaited
    <2>4. was \cup NewIds = NewIds
        BY <2>3
    <2> HIDE DEF was, a
    <2>5. q = a => pendingRoute'[q] = NewIds
        BY <2>1, <2>4 DEF WithEntry
    <2>6. q # a => q \in DOMAIN pendingRoute /\ pendingRoute'[q] = pendingRoute[q]
        BY <2>1 DEF WithEntry
    <2> QED BY <1>3, <2>1, <2>3, <2>5, <2>6 DEF a
<1>4. ASSUME NEW i \in DOMAIN log, RoutesAsked(i)
      PROVE  \A x \in DOMAIN log : ~Responded(x)
    <2>1. \A x \in DOMAIN log : Responded(x) => x = i /\ IsPlanResponse(log[i])
        BY <1>4, AggregatorService DEF RoutesAsked, Responded, HasRead
    <2>2. IsQuery(log[i])
        BY <1>4 DEF RoutesAsked
    <2> QED BY <2>1, <2>2 DEF IsQuery, IsPlanResponse, IsPlanResponseBelow
<1> QED BY <1>1, <1>2, <1>3, <1>4, NextPlan

LEMMA QueriesAwaitedKept ==
    ASSUME BusOK, AggregatorOK, AnyStep, StepKinds, QueriesOnce, KnownIsReported,
           QueriesAwaited, QueriesAnswered
    PROVE  QueriesAwaited'
<1> SUFFICES ASSUME NEW q \in DOMAIN pendingRoute'
             PROVE  q \in QueriesRead' /\ Answers(q)' = {} /\ IsPlannedFor(pendingRoute[q], q)'
    BY DEF QueriesAwaited
<1> DEFINE ids == pendingRoute'[q]
<1>1. CASE /\ q \in DOMAIN pendingRoute /\ ids = pendingRoute[q]
           /\ \A i \in DOMAIN log : Responded(i) => q \notin Satisfied(i)
    <2>1. q \in QueriesRead /\ Answers(q) = {} /\ IsPlannedFor(pendingRoute[q], q)
        BY <1>1 DEF QueriesAwaited
    <2>2. IsPlannedFor(pendingRoute[q], q)'
        <3>1. \A x : IsPlannedFor(x, q) => IsPlannedFor(x, q)'
            BY <2>1, PlannedForThen
        <3> QED BY <1>1, <2>1, <3>1
    <2>3. Answers(q)' = {}
        BY <1>1, <2>1, AnswersThen
    <2> QED BY <2>1, <2>2, <2>3, QueriedThen
<1>2. ASSUME NEW i \in DOMAIN log, RoutesAsked(i), q = log[i].id, NewIds # {}, ids = NewIds
      PROVE  q \in QueriesRead' /\ Answers(q)' = {} /\ IsPlannedFor(pendingRoute[q], q)'
    <2>1. HasRead("RouteAggregator", i) /\ IsQuery(log[i])
        BY <1>2 DEF RoutesAsked
    <2>2. q \in QueriesRead' /\ q \notin QueriesRead
        BY <1>2, <2>1, FirstQueryRead
    <2>3. \A x : x = nextPlan .. nextPlan' - 1 /\ x # {} => IsPlannedFor(x, q)'
        <3>1. \A x : x = nextPlan .. nextPlan' - 1 /\ x # {} => IsPlannedFor(x, log[i].id)'
            BY <1>2, AskedFor
        <3>2. log'[i].id = q
            BY <1>2, OldMessages
        <3> QED BY <3>1, <3>2
    <2>4. IsPlannedFor(pendingRoute[q], q)'
        BY <1>2, <2>3 DEF NewIds
    <2>5. Answers(q) = {}
        BY <2>2 DEF QueriesAnswered, Answers
    <2>6. \A x \in DOMAIN log : ~(Responded(x) /\ q \in Satisfied(x))
        <3>1. q \notin DOMAIN pendingRoute
            BY <2>2 DEF QueriesAwaited
        <3> QED BY <3>1 DEF Satisfied
    <2>7. Answers(q)' = {}
        BY <2>5, <2>6, AnswersThen
    <2> QED BY <2>2, <2>4, <2>7
<1> QED BY <1>1, <1>2, PendingThen

LEMMA QueriesAnsweredKept ==
    ASSUME BusOK, AggregatorOK, AnyStep, StepKinds, ResponsesCame, QueriesAwaited, QueriesAnswered
    PROVE  QueriesAnswered'
<1> DEFINE T == "RouteResponse"
           P == "RoutePlanResponse"
           Backed(ids, i) == \A n \in ids : \E j \in Published(P)' : j < i /\ log'[j].id = n
           Right(i) == /\ log'[i].id \in QueriesRead' /\ IsPlannedFor(log[i].plans, log[i].id)'
                       /\ Backed(log'[i].plans, i)
<1>1. \A i \in Published(T) : log'[i] = log[i] /\ i \in Nat /\ i <= Len(log)
    BY OldMessages
<1>2. \A x : \A q \in QueriesRead : IsPlannedFor(x, q) => IsPlannedFor(x, q)'
    BY PlannedForThen
<1>3. ASSUME NEW i \in Published(T)
      PROVE  Right(i)
    <2>1. /\ log[i].id \in QueriesRead /\ IsPlannedFor(log[i].plans, log[i].id)
          /\ \A n \in log[i].plans : \E j \in Published(P) : j < i /\ log[j].id = n
        BY DEF QueriesAnswered
    <2>2. log'[i].id \in QueriesRead'
        BY <1>1, <2>1, StillRead
    <2>3. IsPlannedFor(log[i].plans, log[i].id)'
        BY <1>1, <1>2, <2>1
    <2>4. \A j \in Published(P) : j \in Published(P)' /\ log'[j] = log[j]
        BY OldMessages
    <2>5. Backed(log'[i].plans, i)
        BY <1>1, <2>1, <2>4
    <2> QED BY <2>2, <2>3, <2>5
<1>4. CASE Silent(T)
    <2>1. Published(T)' = Published(T)
        BY <1>4, StillPublished
    <2>2. \A i, j \in Published(T)' : log'[i].id = log'[j].id => i = j
        BY <1>1, <2>1 DEF QueriesAnswered
    <2> QED BY <1>3, <2>1, <2>2 DEF QueriesAnswered
<1>5. ASSUME NEW x \in DOMAIN log, Responded(x)
      PROVE  QueriesAnswered'
    <2>1. \A i \in Published(T)' :
              \/ i \in Published(T)
              \/ i \in News /\ \E q \in Satisfied(x) : IsResponseTo(log'[i], q)
        BY <1>5, OldMessages DEF Responded, IsMatrixOf
    <2>2. ASSUME NEW i \in News, NEW q \in Satisfied(x), IsResponseTo(log'[i], q)
          PROVE  Right(i) /\ \A j \in Published(T) : log[j].id # log'[i].id
        <3>1. log'[i].id = q /\ log'[i].plans = pendingRoute[q]
            BY <2>2 DEF IsResponseTo
        <3>2. q \in QueriesRead /\ Answers(q) = {} /\ IsPlannedFor(pendingRoute[q], q)
            BY DEF QueriesAwaited, Satisfied
        <3>3. q \in QueriesRead' /\ IsPlannedFor(log[i].plans, log[i].id)'
            BY <1>2, <3>1, <3>2, StillRead
        <3>4. Backed(pendingRoute[q], i)
            <4>1. \A n \in pendingRoute[q] : n \in responses \/ n = log[x].id
                BY DEF Satisfied
            <4>2. \A n \in responses : \E j \in Published(P) : log[j].id = n
                BY DEF ResponsesCame, ReadBy
            <4>3. x \in Published(P)
                BY <1>5 DEF Responded, IsPlanResponse, IsPlanResponseBelow, Published
            <4>4. \A j \in Published(P) : j \in Published(P)' /\ log'[j] = log[j] /\ j < i
                BY OldMessages
            <4> QED BY <4>1, <4>2, <4>3, <4>4
        <3>5. \A j \in Published(T) : log[j].id # q
            BY <3>2 DEF Answers
        <3> QED BY <3>1, <3>3, <3>4, <3>5
    <2>3. \A i \in Published(T)' : Right(i)
        BY <1>3, <2>1, <2>2
    <2>4. \A i, j \in Published(T)' : log'[i].id = log'[j].id => i = j
        <3> SUFFICES ASSUME NEW i \in Published(T)', NEW j \in Published(T)', log'[i].id = log'[j].id
                     PROVE  i = j
            OBVIOUS
        <3>1. CASE i \in Published(T) /\ j \in Published(T)
            BY <1>1, <3>1 DEF QueriesAnswered
        <3>2. CASE i \notin Published(T) /\ j \notin Published(T)
            <4>1. \A z \in {i, j} : z \in News /\ \E q \in Satisfied(x) : IsResponseTo(log'[z], q)
                BY <2>1, <3>2
            <4> QED BY <1>5, <4>1 DEF Responded, IsResponseTo
        <3> QED BY <1>1, <2>1, <2>2, <3>1, <3>2
    <2> QED BY <2>3, <2>4 DEF QueriesAnswered
<1> QED BY <1>4, <1>5, Types
-----------------------------------------------------------------------------
(***************************************************************************)
(* The options: each task offers its own once for a request, and the       *)
(* RouteAggregatorService has those that it read last.                     *)
(***************************************************************************)
LEMMA OffersOnceKept ==
    ASSUME AnyStep, StepKinds, OffersOnce
    PROVE  OffersOnce'
<1> DEFINE T == "TaskPlanOptions"
           U == "UniqueAutomationRequest"
           Right(i) == /\ log'[i].task \in TasksOf[log'[i].about]
                       /\ \E j \in Published(U)' : j < i /\ log'[j].about = log'[i].about
<1>1. \A i \in Published(T) : log'[i] = log[i]
    BY OldMessages
<1>2. \A j \in Published(U) : j \in Published(U)' /\ log'[j] = log[j]
    BY OldMessages
<1>3. \A i \in Published(T) : Right(i)
    BY <1>1, <1>2 DEF OffersOnce
<1>4. CASE Silent(T)
    <2>1. Published(T)' = Published(T)
        BY <1>4, StillPublished
    <2> QED BY <1>1, <1>3, <2>1 DEF OffersOnce
<1>5. CASE Offered
    <2>1. PICK m : Sent(m) /\ IsNewOffer(m)
        BY <1>5 DEF Offered
    <2>2. PICK n : News = {n} /\ log'[n] = m
        BY <2>1 DEF Sent
    <2>3. Published(T)' \subseteq Published(T) \cup {n}
        BY <2>2, OldMessages
    <2>4. \A i \in Published(T) : ~(log[i].task = m.task /\ log[i].about = m.about)
        BY <2>1 DEF IsNewOffer
    <2>5. m.task \in TasksOf[m.about] /\ \E j \in Published(U) : log[j].about = m.about
        BY <2>1 DEF IsNewOffer, IsPublished
    <2>6. \A j \in Published(U) : j < n
        BY <2>2, OldMessages
    <2>7. Right(n)
        BY <1>2, <2>2, <2>5, <2>6
    <2>8. \A i \in Published(T)' : Right(i)
        BY <1>3, <2>3, <2>7
    <2>9. \A i, j \in Published(T)' :
              log'[i].task = log'[j].task /\ log'[i].about = log'[j].about => i = j
        BY <1>1, <2>2, <2>3, <2>4 DEF OffersOnce
    <2> QED BY <2>8, <2>9 DEF OffersOnce
<1> QED BY <1>4, <1>5, Types

LEMMA OptionsAtThen ==
    ASSUME AnyStep, NEW p \in Nat, p <= Len(log), NEW t
    PROVE  /\ OptionsAt(p, t)' = OptionsAt(p, t)
           /\ \A j \in OptionsAt(p, t) : log'[j] = log[j] /\ j \in DOMAIN log /\ j \in DOMAIN log'
<1> DEFINE T == "TaskPlanOptions"
<1>1. \A j \in Published(T) : log'[j] = log[j] /\ j \in DOMAIN log
    BY OldMessages
<1>2. \A j \in News : ~(j <= p)
    BY OldMessages
<1>3. Published(T)' = Published(T) \cup {j \in News : log'[j].type = T}
    BY OldMessages
<1>4. DOMAIN log' = DOMAIN log \cup News
    BY Growing DEF AnyStep
<1> QED BY <1>1, <1>2, <1>3, <1>4 DEF OptionsAt

(* The options of a task there are when message i is read. *)
LEMMA OptionsRead ==
    ASSUME BusOK, AnyStep, NEW i \in DOMAIN log, HasRead("RouteAggregator", i), NEW t
    PROVE  OptionsAt(i, t) = OptionsAt(read["RouteAggregator"], t) \cup
                {j \in {i} : log[i].type = "TaskPlanOptions" /\ log[i].task = t}
<1> DEFINE T == "TaskPlanOptions"
           s == "RouteAggregator"
<1>1. \A j \in Published(T) : j < i => j <= read[s]
    BY ReadNext DEF ReadBy
<1>2. /\ i \in Nat /\ read[s] \in Nat /\ read[s] < i /\ \A j \in Published(T) : j \in Nat
      /\ i \in Published(T) <=> log[i].type = T
    BY AggregatorService, OldMessages DEF HasRead, Published
<1>3. \A j \in Published(T) : j <= i <=> j <= read[s] \/ j = i
    BY <1>1, <1>2
<1> QED BY <1>2, <1>3 DEF OptionsAt

LEMMA OptionsAreLatestKept ==
    ASSUME BusOK, AnyStep, StepKinds, OptionsAreLatest
    PROVE  OptionsAreLatest'
<1> DEFINE s == "RouteAggregator"
           IsLatest(S, j) == j \in S /\ \A i \in S : i <= j
<1> SUFFICES ASSUME NEW p, p = read'[s]
             PROVE  OptionsAreLatest'
    OBVIOUS
<1>1. \A t \in DOMAIN options : \E j \in DOMAIN log :
          IsLatest(OptionsAt(read[s], t), j) /\ log[j] = options[t]
    BY DEF OptionsAreLatest, LatestAt
<1>2. read'[s] \in Nat /\ read'[s] <= Len(log)
    BY AggregatorService, Readers DEF AnyStep
<1>3. \A t : /\ OptionsAt(p, t)' = OptionsAt(p, t)
             /\ \A j \in OptionsAt(p, t) : log'[j] = log[j] /\ j \in DOMAIN log'
    BY <1>2, OptionsAtThen
<1>4. \A t \in DOMAIN options' : \E j \in DOMAIN log :
          IsLatest(OptionsAt(p, t), j) /\ log[j] = options'[t]
    <2>1. CASE read'[s] = read[s] /\ UNCHANGED aggregation
        BY <1>1, <2>1 DEF aggregation, collector
    <2>2. ASSUME NEW i \in DOMAIN log, Learned(i) \/ IsCollected(i) \/ RoutesAsked(i) \/ Responded(i)
          PROVE  \A t \in DOMAIN options' : \E j \in DOMAIN log :
                     IsLatest(OptionsAt(p, t), j) /\ log[j] = options'[t]
        <3>1. HasRead(s, i) /\ read'[s] = i
            BY <2>2, AggregatorReads DEF HasRead
        <3>2. \A t : OptionsAt(i, t) = OptionsAt(read[s], t) \cup
                  {j \in {i} : log[i].type = "TaskPlanOptions" /\ log[i].task = t}
            BY <3>1, OptionsRead
        <3>3. CASE CollectedOptions(i)
            <4>1. options' = WithEntry(options, log[i].task, log[i]) /\ IsOffer(log[i])
                BY <3>3 DEF CollectedOptions, CollectedFrom
            <4>2. \A t : OptionsAt(i, t) = IF t = log[i].task THEN OptionsAt(read[s], t) \cup {i}
                                           ELSE OptionsAt(read[s], t)
                BY <3>2, <4>1 DEF IsOffer
            <4>3. \A t : \A j \in OptionsAt(read[s], t) : j <= i
                <5>1. read[s] < i /\ read[s] \in Nat /\ i \in Nat
                    BY <3>1, AggregatorService DEF HasRead
                <5>2. \A t : \A j \in OptionsAt(read[s], t) : j <= read[s] /\ j \in Nat
                    BY OldMessages DEF OptionsAt
                <5> QED BY <5>1, <5>2
            <4>4. i <= i
                BY AggregatorService
            <4> DEFINE k == log[i].task
            <4>5. IsLatest(OptionsAt(i, k), i) /\ options'[k] = log[i]
                <5>1. OptionsAt(i, k) = OptionsAt(read[s], k) \cup {i}
                    BY <4>2
                <5>2. options'[k] = log[i]
                    BY <4>1 DEF WithEntry
                <5> QED BY <4>3, <4>4, <5>1, <5>2
            <4>6. \A t \in DOMAIN options' \ {k} : t \in DOMAIN options /\ options'[t] = options[t]
                BY <4>1 DEF WithEntry
            <4>7. \A t : t # k => OptionsAt(i, t) = OptionsAt(read[s], t)
                BY <4>2
            <4> HIDE DEF IsLatest, k
            <4> QED BY <1>1, <3>1, <4>5, <4>6, <4>7
        <3>4. CASE Learned(i) \/ CollectedRequest(i) \/ RoutesAsked(i) \/ Responded(i)
            <4>1. log[i].type # "TaskPlanOptions"
                BY <3>4 DEF Learned, CollectedRequest, RoutesAsked, Responded, IsState, IsRequest,
                   IsQuery, IsPlanResponse, IsPlanResponseBelow
            <4>2. options' = options \/ DOMAIN options' = {}
                <5>1. DOMAIN <<>> = {}
                    BY NoneOrOne, Zenon
                <5> QED BY <3>4, <5>1 DEF Learned, CollectedRequest, CollectedFrom, RoutesAsked, Responded,
                   collector, ClearOptions
            <4>3. \A t : OptionsAt(i, t) = OptionsAt(read[s], t)
                BY <3>2, <4>1
            <4> QED BY <1>1, <3>1, <4>2, <4>3
        <3> QED BY <2>2, <3>3, <3>4 DEF IsCollected
    <2> QED BY <2>1, <2>2, Readers
<1>5. \A t \in DOMAIN options' : \E j \in DOMAIN log' :
          IsLatest(OptionsAt(p, t)', j) /\ log'[j] = options'[t]
    BY <1>3, <1>4
<1> QED BY <1>5 DEF OptionsAreLatest, LatestAt
-----------------------------------------------------------------------------
(***************************************************************************)
(* The vehicles of the requests, and the routes of one moment.             *)
(***************************************************************************)
LEMMA RequestsBackedKept ==
    ASSUME AnyStep, StepKinds, RequestsBacked
    PROVE  RequestsBacked'
<1> DEFINE T == "UniqueAutomationRequest"
           S == "EntityState"
           Backed(i) == \A v \in VehiclesOf[log'[i].about] :
               v \in PlannedFor[log'[i].about] \/ \E j \in Published(S)' : j < i /\ log'[j].vehicle = v
<1>1. \A j \in Published(S) : j \in Published(S)' /\ log'[j] = log[j] /\ j \in Nat /\ j <= Len(log)
    BY OldMessages
<1>2. \A i \in Published(T) : Backed(i)
    <2>1. \A i \in Published(T) : log'[i] = log[i]
        BY OldMessages
    <2> QED BY <1>1, <2>1 DEF RequestsBacked
<1>3. CASE Silent(T)
    <2>1. Published(T)' = Published(T)
        BY <1>3, StillPublished
    <2> QED BY <1>2, <2>1 DEF RequestsBacked
<1>4. CASE Requested
    <2>1. PICK m : Sent(m) /\ IsNewRequest(m)
        BY <1>4 DEF Requested
    <2>2. PICK n : n = Len(log) + 1 /\ News = {n} /\ log'[n] = m
        BY <2>1 DEF Sent
    <2>3. Published(T)' \subseteq Published(T) \cup {n}
        BY <2>2, OldMessages
    <2>4. \A j \in Published(S) : j < n
        BY <2>2, OldMessages
    <2>5. Backed(n)
        BY <1>1, <2>1, <2>2, <2>4 DEF IsNewRequest, HasReported
    <2> QED BY <1>2, <2>3, <2>5 DEF RequestsBacked
<1> QED BY <1>3, <1>4, Types

LEMMA KnownGrows ==
    ASSUME BusOK, StepKinds
    PROVE  known \subseteq known'
BY Readers DEF aggregation, Learned, IsCollected, CollectedRequest, CollectedOptions, CollectedFrom,
   RoutesAsked, Responded

LEMMA KeysBackedKept ==
    ASSUME BusOK, AggregatorOK, AnyStep, StepKinds, RequestsBacked, KnownIsReported, KeysBacked
    PROVE  KeysBacked'
<1> DEFINE s == "RouteAggregator"
           Right(k) == LET r == automation'[k].about IN
                       /\ VehiclesOf[r] # {} => automation'[k].vehicles = VehiclesOf[r]
                       /\ VehiclesOf[r] \subseteq known' \cup PlannedFor[r]
<1>1. known \subseteq known'
    BY KnownGrows
<1>2. \A k \in DOMAIN automation :
          /\ VehiclesOf[automation[k].about] # {} => automation[k].vehicles = VehiclesOf[automation[k].about]
          /\ VehiclesOf[automation[k].about] \subseteq known' \cup PlannedFor[automation[k].about]
    BY <1>1 DEF KeysBacked
<1>3. CASE UNCHANGED automation
    BY <1>2, <1>3 DEF KeysBacked
<1>4. ASSUME NEW i \in DOMAIN log, Responded(i)
      PROVE  KeysBacked'
    <2>1. DOMAIN automation' \subseteq DOMAIN automation
          /\ \A k \in DOMAIN automation' : automation'[k] = automation[k]
        BY <1>4, Restricted DEF Responded, Discard
    <2> QED BY <1>2, <2>1 DEF KeysBacked
<1>5. ASSUME NEW i \in DOMAIN log, IsCollected(i), NEW k \in DOMAIN automation'
      PROVE  Right(k)
    <2>1. PICK reqs :
              /\ CollectedFrom(reqs, options')
              /\ \A x \in DOMAIN reqs : reqs[x] \in [about : Request, vehicles : SUBSET Vehicle]
              /\ \A x \in DOMAIN automation : x \in DOMAIN reqs /\ reqs[x] = automation[x]
              /\ \/ DOMAIN reqs = DOMAIN automation /\ nextKey' = nextKey
                 \/ /\ CollectedRequest(i) /\ nextKey' = nextKey + 1 /\ nextKey \notin DOMAIN automation
                    /\ DOMAIN reqs = {nextKey} \cup DOMAIN automation
                    /\ reqs[nextKey] = NewEntry(log[i].about)
        BY <1>5, CollectedThen
    <2>2. /\ DOMAIN automation' = DOMAIN reqs
          /\ \A x \in DOMAIN reqs : /\ automation'[x].about = reqs[x].about
                                    /\ reqs[x].vehicles # {} => automation'[x].vehicles = reqs[x].vehicles
        BY <2>1, EntriesThen
    <2>3. CASE k \in DOMAIN automation
        <3>1. reqs[k] = automation[k]
            BY <2>1, <2>3
        <3>2. /\ automation'[k].about = automation[k].about
              /\ automation[k].vehicles # {} => automation'[k].vehicles = automation[k].vehicles
            BY <1>5, <2>2, <3>1
        <3> QED BY <1>2, <2>3, <3>2
    <2>4. CASE k \notin DOMAIN automation
        <3> DEFINE r == log[i].about
        <3>1. CollectedRequest(i) /\ reqs[k] = NewEntry(r)
            BY <1>5, <2>1, <2>2, <2>4
        <3>2. reqs[k].about = r /\ reqs[k].vehicles = VehiclesOf[r]
            BY <3>1 DEF NewEntry
        <3>3. HasRead(s, i) /\ i \in Published("UniqueAutomationRequest")
            BY <3>1 DEF CollectedRequest, IsRequest, Published
        <3>4. \A v \in VehiclesOf[r] : v \in PlannedFor[r] \/ v \in known
            <4>1. \A j \in Published("EntityState") : j < i => j \in ReadBy(s, "EntityState")
                BY <3>3, ReadNext
            <4> QED BY <3>3, <4>1 DEF RequestsBacked, KnownIsReported
        <3>5. automation'[k].about = r /\ (VehiclesOf[r] # {} => automation'[k].vehicles = VehiclesOf[r])
            BY <1>5, <2>2, <3>2
        <3> QED BY <1>1, <3>4, <3>5
    <2> QED BY <2>3, <2>4
<1>6. \/ UNCHANGED automation \/ \E i \in DOMAIN log : IsCollected(i) \/ Responded(i)
    BY Readers DEF aggregation, collector, Learned, RoutesAsked
<1> QED BY <1>3, <1>4, <1>5, <1>6 DEF KeysBacked

(* The routes that are asked for, by vehicle. *)
LEMMA RoutesAre ==
    ASSUME NEW k, NEW req, NEW opts, NEW n
    PROVE  /\ \A c \in MatrixRoutes(k, req, opts, n) : c.vehicle \in Planned(req)
           /\ \A v \in Planned(req) :
                  EndsIn(MatrixRoutes(k, req, opts, n), v) = Ends(req.about, opts, v)
<1> DEFINE costs == MatrixRoutes(k, req, opts, n)
           R(v) == RoutesFor(k, req.about, opts, v, n)
           E(v) == Ends(req.about, opts, v)
<1>1. costs = UNION {R(v) : v \in Planned(req)}
    BY DEF MatrixRoutes
<1>2. \A v : \A e \in E(v) : e = <<e[1], e[2]>>
    BY DEF Ends
<1>3. \A v : R(v) = {[key |-> k, pass |-> n, vehicle |-> v, from |-> e[1], to |-> e[2]] : e \in E(v)}
    BY DEF RoutesFor
<1> HIDE DEF costs, R, E
<1>4. \A v : \A c \in R(v) : c.vehicle = v
    BY <1>3
<1>5. \A c \in costs : c.vehicle \in Planned(req)
    BY <1>1, <1>4
<1>6. ASSUME NEW v \in Planned(req)
      PROVE  EndsIn(costs, v) = E(v)
    <2>1. {x \in costs : x.vehicle = v} = R(v)
        BY <1>1, <1>4
    <2>2. \A c \in R(v) : <<c.from, c.to>> \in E(v)
        BY <1>2, <1>3
    <2>3. \A e \in E(v) : \E c \in R(v) : <<c.from, c.to>> = e
        <3> SUFFICES ASSUME NEW e \in E(v) PROVE \E c \in R(v) : <<c.from, c.to>> = e
            OBVIOUS
        <3> DEFINE c == [key |-> k, pass |-> n, vehicle |-> v, from |-> e[1], to |-> e[2]]
        <3>1. c \in R(v) /\ <<c.from, c.to>> = e
            BY <1>2, <1>3
        <3> QED BY <3>1
    <2> QED BY <2>1, <2>2, <2>3 DEF EndsIn
<1> QED BY <1>5, <1>6 DEF costs, E

(* Only the options of the request's own tasks count. *)
LEMMA EndsOf ==
    ASSUME NEW r, NEW f, NEW g, NEW v, \A t \in TasksOf[r] : f[t] = g[t]
    PROVE  Places(r, f, v) = Places(r, g, v) /\ Ends(r, f, v) = Ends(r, g, v)
<1>1. \A t \in TasksOf[r] :
          {[task |-> t, option |-> o.option, about |-> f[t].about] :
               o \in {x \in f[t].options : IsEligible(v, x)}}
          = {[task |-> t, option |-> o.option, about |-> g[t].about] :
               o \in {x \in g[t].options : IsEligible(v, x)}}
    OBVIOUS
<1>2. Places(r, f, v) = Places(r, g, v)
    BY <1>1 DEF Places
<1> QED BY <1>2 DEF Ends
(* The latest options are those at the greatest place. *)
LEMMA LatestIs ==
    ASSUME AnyStep, NEW p, NEW t, NEW j, LatestAt(p, t, j)
    PROVE  Max(OptionsAt(p, t)) = j
<1> DEFINE S == OptionsAt(p, t)
<1>1. \A i \in S : i \in Nat
    BY OldMessages DEF OptionsAt
<1>2. j \in S /\ \A i \in S : i <= j
    BY DEF LatestAt
<1> HIDE DEF S
<1>3. j \in S /\ \A y \in S : j >= y
    BY <1>1, <1>2
<1>4. \A x \in S : (\A y \in S : x >= y) => x = j
    BY <1>1, <1>3
<1>5. (CHOOSE x \in S : \A y \in S : x >= y) = j
    BY <1>3, <1>4
<1> QED BY <1>5 DEF Max, S

LEMMA LatestIsThen ==
    ASSUME AnyStep, NEW p, NEW t, NEW j, LatestAt(p, t, j)'
    PROVE  Max(OptionsAt(p, t)') = j
<1> DEFINE S == OptionsAt(p, t)'
<1>1. \A i \in S : i \in Nat
    BY Growing DEF OptionsAt, Published, AnyStep
<1>2. j \in S /\ \A i \in S : i <= j
    BY DEF LatestAt
<1> HIDE DEF S
<1>3. j \in S /\ \A y \in S : j >= y
    BY <1>1, <1>2
<1>4. \A x \in S : (\A y \in S : x >= y) => x = j
    BY <1>1, <1>3
<1>5. (CHOOSE x \in S : \A y \in S : x >= y) = j
    BY <1>3, <1>4
<1> QED BY <1>5 DEF Max, S

(* Routes that are of one moment stay so. *)
LEMMA StillOfMoment ==
    ASSUME AnyStep, NEW p \in Nat, p <= Len(log), NEW costs, NEW r, IsOfMoment(costs, r, p)
    PROVE  IsOfMoment(costs, r, p)'
<1> DEFINE old == LatestOptions(r, p)
           new == LatestOptions(r, p)'
<1>1. \A t : /\ OptionsAt(p, t)' = OptionsAt(p, t)
             /\ \A j \in OptionsAt(p, t) : log'[j] = log[j] /\ j \in DOMAIN log /\ j \in DOMAIN log'
    BY OptionsAtThen
<1>2. ASSUME NEW t \in TasksOf[r]
      PROVE  (\E j \in DOMAIN log' : LatestAt(p, t, j)') /\ new[t] = old[t]
    <2>1. PICK j \in DOMAIN log : LatestAt(p, t, j)
        BY DEF IsOfMoment
    <2>2. LatestAt(p, t, j)' /\ j \in DOMAIN log' /\ log'[j] = log[j]
        BY <1>1, <2>1 DEF LatestAt
    <2>3. Max(OptionsAt(p, t)) = j
        BY <2>1, LatestIs
    <2>4. Max(OptionsAt(p, t)') = j
        BY <1>1, <2>3
    <2>5. old[t] = log[j] /\ new[t] = log'[j]
        BY <2>3, <2>4 DEF LatestOptions
    <2> QED BY <2>2, <2>5
<1>3. \A v : Ends(r, new, v) = Ends(r, old, v)
    <2> HIDE DEF old, new
    <2> QED BY <1>2, EndsOf
<1>4. HasAllEnds(costs, r, old)
    BY DEF IsOfMoment
<1>5. HasAllEnds(costs, r, new)
    <2> HIDE DEF old, new
    <2> QED BY <1>3, <1>4 DEF HasAllEnds
<1> QED BY <1>2, <1>5 DEF IsOfMoment

(* The routes between the options there are now. *)
LEMMA OfMomentThen ==
    ASSUME BusOK, AnyStep, StepKinds, OptionsAreLatest', NEW p, p = read'["RouteAggregator"],
           NEW r, NEW opts, opts = options', TasksOf[r] \subseteq DOMAIN opts,
           NEW costs, HasAllEnds(costs, r, opts)
    PROVE  IsOfMoment(costs, r, p)'
<1> DEFINE new == LatestOptions(r, p)'
<1>1. ASSUME NEW t \in TasksOf[r]
      PROVE  (\E j \in DOMAIN log' : LatestAt(p, t, j)') /\ new[t] = opts[t]
    <2>1. PICK j \in DOMAIN log' : LatestAt(p, t, j)' /\ log'[j] = opts[t]
        <3>1. \A x \in DOMAIN opts : \E j \in DOMAIN log' : LatestAt(p, x, j)' /\ log'[j] = opts[x]
            BY DEF OptionsAreLatest, LatestAt
        <3> QED BY <3>1
    <2>2. Max(OptionsAt(p, t)') = j
        BY <2>1, LatestIsThen
    <2>3. new[t] = log'[j]
        BY <2>2 DEF LatestOptions
    <2> QED BY <2>1, <2>3
<1>2. \A v : Ends(r, new, v) = Ends(r, opts, v)
    <2> HIDE DEF new
    <2> QED BY <1>1, EndsOf
<1>3. HasAllEnds(costs, r, new)
    <2> HIDE DEF new
    <2> QED BY <1>2 DEF HasAllEnds
<1> QED BY <1>1, <1>3 DEF IsOfMoment

(* What CheckAllTaskOptionsReceived does with each key it awaits routes for. *)
LEMMA AwaitedThen ==
    ASSUME BusOK, AggregatorOK, AnyStep, StepKinds, KeysBacked'
    PROVE  \A k \in DOMAIN pendingAuto' :
               LET r == automation'[k].about
               IN  \/ /\ k \in DOMAIN pendingAuto /\ pendingAuto'[k] = pendingAuto[k]
                      /\ k \in DOMAIN automation /\ r = automation[k].about
                   \/ /\ \E i \in DOMAIN log : IsCollected(i)
                      /\ TasksOf[r] \subseteq DOMAIN options'
                      /\ \A e \in pendingAuto'[k] : \E v : e.to \in Places(r, options', v)
                      /\ HasAllEnds(pendingAuto'[k], r, options')
<1>1. CASE UNCHANGED <<automation, pendingAuto>>
    BY <1>1 DEF AggregatorOK
<1>2. ASSUME NEW i \in DOMAIN log, Responded(i), NEW k \in DOMAIN pendingAuto'
      PROVE  /\ k \in DOMAIN pendingAuto /\ pendingAuto'[k] = pendingAuto[k]
             /\ k \in DOMAIN automation /\ automation'[k].about = automation[k].about
    <2>1. k \in DOMAIN pendingAuto \ Fulfilled(i) /\ pendingAuto'[k] = pendingAuto[k]
        BY <1>2, Restricted DEF Responded, Discard
    <2>2. k \in DOMAIN automation \ Fulfilled(i)
        BY <2>1 DEF AggregatorOK
    <2>3. automation'[k] = automation[k]
        BY <1>2, <2>2, Restricted DEF Responded, Discard
    <2> QED BY <2>1, <2>2, <2>3
<1>3. ASSUME NEW i \in DOMAIN log, IsCollected(i), NEW k \in DOMAIN pendingAuto',
             NEW r, r = automation'[k].about,
             NEW opts, opts = options'
      PROVE  \/ /\ k \in DOMAIN pendingAuto /\ pendingAuto'[k] = pendingAuto[k]
                /\ k \in DOMAIN automation /\ r = automation[k].about
             \/ /\ TasksOf[r] \subseteq DOMAIN opts
                /\ \A e \in pendingAuto'[k] : \E v : e.to \in Places(r, opts, v)
                /\ HasAllEnds(pendingAuto'[k], r, opts)
    <2>1. PICK reqs :
              /\ CollectedFrom(reqs, opts)
              /\ \A x \in DOMAIN reqs : reqs[x] \in [about : Request, vehicles : SUBSET Vehicle]
              /\ \A x \in DOMAIN automation : x \in DOMAIN reqs /\ reqs[x] = automation[x]
        BY <1>3, CollectedThen
    <2> DEFINE K == Complete(reqs, opts)
               costs == MatrixRoutes(k, reqs[k], opts, NextPass)
    <2>2. /\ DOMAIN automation' = DOMAIN reqs
          /\ \A x \in DOMAIN reqs : /\ automation'[x].about = reqs[x].about
                                    /\ reqs[x].vehicles # {} => automation'[x].vehicles = reqs[x].vehicles
          /\ K \subseteq DOMAIN reqs
          /\ DOMAIN pendingAuto' = K \cup DOMAIN pendingAuto
          /\ \A x \in K : pendingAuto'[x] = MatrixRoutes(x, reqs[x], opts, NextPass)
          /\ \A x \in DOMAIN pendingAuto \ K : pendingAuto'[x] = pendingAuto[x]
        <3>1. \A x \in K : pendingAuto'[x] = MatrixRoutes(x, reqs[x], opts, NextPass)
            BY <2>1 DEF CollectedFrom, AwaitRoutes, NextPass
        <3>2. /\ DOMAIN automation' = DOMAIN reqs
              /\ \A x \in DOMAIN reqs : /\ automation'[x].about = reqs[x].about
                                        /\ reqs[x].vehicles # {} => automation'[x].vehicles = reqs[x].vehicles
            BY <2>1, EntriesThen
        <3>3. /\ K \subseteq DOMAIN reqs
              /\ DOMAIN pendingAuto' = K \cup DOMAIN pendingAuto
              /\ \A x \in DOMAIN pendingAuto \ K : pendingAuto'[x] = pendingAuto[x]
            BY <2>1, EntriesThen
        <3> QED BY <1>3, <3>1, <3>2, <3>3
    <2>3. CASE k \notin K
        <3>1. k \in DOMAIN pendingAuto /\ k \in DOMAIN automation
            BY <1>3, <2>2, <2>3 DEF AggregatorOK
        <3>2. automation'[k].about = automation[k].about
            BY <2>1, <2>2, <3>1
        <3> QED BY <1>3, <2>2, <2>3, <3>1, <3>2
    <2>4. CASE k \in K
        <3>1. k \in DOMAIN reqs /\ reqs[k].about = r /\ TasksOf[r] \subseteq DOMAIN opts
            BY <1>3, <2>2, <2>4 DEF Complete
        <3>2. /\ \A c \in costs : c.vehicle \in Planned(reqs[k])
              /\ \A v \in Planned(reqs[k]) : EndsIn(costs, v) = Ends(r, opts, v)
            BY <3>1, RoutesAre
        <3>3. VehiclesOf[r] \subseteq Planned(reqs[k])
            <4>1. known' = known
                BY <2>1 DEF CollectedFrom
            <4>2. /\ VehiclesOf[r] # {} => automation'[k].vehicles = VehiclesOf[r]
                  /\ VehiclesOf[r] \subseteq known \cup PlannedFor[r]
                BY <1>3, <2>2, <3>1, <4>1 DEF KeysBacked
            <4>3. reqs[k].vehicles = {} => Considered(reqs[k]) = known
                BY DEF Considered
            <4>4. automation'[k].vehicles = Considered(reqs[k])
                <5>1. automation'[k] = [reqs[k] EXCEPT !.vehicles = Considered(reqs[k])]
                    BY <2>1, <2>4, <3>1 DEF CollectedFrom
                <5>2. reqs[k] \in [about : Request, vehicles : SUBSET Vehicle]
                    BY <2>1, <3>1
                <5> QED BY <5>1, <5>2
            <4>5. \A v \in VehiclesOf[r] : v \in Considered(reqs[k]) /\ (v \in known \/ v \in PlannedFor[r])
                BY <4>2, <4>4
            <4> QED BY <3>1, <4>5 DEF Planned
        <3>4. \A c \in costs : \E v : c.to \in Places(r, opts, v)
            <4> SUFFICES ASSUME NEW c \in costs PROVE \E v : c.to \in Places(r, opts, v)
                OBVIOUS
            <4>1. PICK v \in Planned(reqs[k]) : c \in RoutesFor(k, r, opts, v, NextPass)
                BY <3>1 DEF MatrixRoutes
            <4>2. PICK e \in Ends(r, opts, v) : c.to = e[2]
                BY <4>1 DEF RoutesFor
            <4>3. e[2] \in Places(r, opts, v)
                BY DEF Ends
            <4> QED BY <4>2, <4>3
        <3> HIDE DEF costs
        <3>5. HasAllEnds(costs, r, opts)
            BY <3>2, <3>3 DEF HasAllEnds
        <3>6. pendingAuto'[k] = costs
            BY <2>2, <2>4 DEF costs
        <3> QED BY <3>1, <3>4, <3>5, <3>6
    <2> QED BY <2>3, <2>4
<1>4. \/ UNCHANGED <<automation, pendingAuto>> \/ \E i \in DOMAIN log : IsCollected(i) \/ Responded(i)
    BY Readers DEF aggregation, collector, Learned, RoutesAsked
<1> QED BY <1>1, <1>2, <1>3, <1>4
(* The routes awaited for a matrix are those of one moment. *)
LEMMA RoutesOfOneMomentKept ==
    ASSUME BusOK, AggregatorOK, AnyStep, StepKinds, KeysBacked', OptionsAreLatest', RoutesOfOneMoment
    PROVE  RoutesOfOneMoment'
<1> DEFINE s == "RouteAggregator"
<1>1. /\ read[s] \in Nat /\ read'[s] \in Nat /\ read[s] <= read'[s] /\ read'[s] <= Len(log)
      /\ read[s] <= Len(log)
    BY AggregatorService, Readers DEF AnyStep
<1>2. ASSUME NEW k \in DOMAIN pendingAuto', NEW costs, costs = pendingAuto'[k],
             NEW r, r = automation'[k].about
      PROVE  \E p \in 1 .. read'[s] : IsOfMoment(costs, r, p)'
    <2>1. \/ /\ k \in DOMAIN pendingAuto /\ costs = pendingAuto[k]
             /\ k \in DOMAIN automation /\ r = automation[k].about
          \/ /\ \E i \in DOMAIN log : IsCollected(i)
             /\ TasksOf[r] \subseteq DOMAIN options'
             /\ HasAllEnds(costs, r, options')
        BY <1>2, AwaitedThen
    <2>2. CASE /\ k \in DOMAIN pendingAuto /\ costs = pendingAuto[k]
               /\ k \in DOMAIN automation /\ r = automation[k].about
        <3>1. PICK p \in 1 .. read[s] : IsOfMoment(costs, r, p)
            BY <2>2 DEF RoutesOfOneMoment
        <3>2. p \in Nat /\ p <= Len(log) /\ p \in 1 .. read'[s]
            BY <1>1, <3>1
        <3>3. IsOfMoment(costs, r, p)'
            BY <3>1, <3>2, StillOfMoment
        <3> QED BY <3>2, <3>3
    <2>3. CASE /\ \E i \in DOMAIN log : IsCollected(i)
               /\ TasksOf[r] \subseteq DOMAIN options'
               /\ HasAllEnds(costs, r, options')
        <3> SUFFICES ASSUME NEW p, p = read'[s], NEW opts, opts = options'
                     PROVE  p \in 1 .. read'[s] /\ IsOfMoment(costs, r, p)'
            OBVIOUS
        <3>1. p \in 1 .. read'[s]
            <4>1. PICK i \in DOMAIN log : HasRead(s, i)
                BY <2>3, AggregatorReads
            <4>2. read[s] < p
                BY <4>1 DEF HasRead
            <4> QED BY <1>1, <4>2
        <3>2. IsOfMoment(costs, r, p)'
            BY <2>3, OfMomentThen
        <3> QED BY <3>1, <3>2
    <2> QED BY <2>1, <2>2, <2>3
<1> QED BY <1>2 DEF RoutesOfOneMoment
(* The costs of a matrix have the ends of the routes that were awaited. *)
LEMMA CostsOfMoment ==
    ASSUME NEW routes, NEW r, NEW p, IsOfMoment(routes, r, p)
    PROVE  IsOfMoment(CostsOf(routes), r, p)
<1> DEFINE costs == CostsOf(routes)
           C(e) == [vehicle |-> e.vehicle, from |-> e.from, to |-> e.to]
<1>1. \A c \in costs : \E e \in routes : c.vehicle = e.vehicle /\ <<c.from, c.to>> = <<e.from, e.to>>
    BY DEF CostsOf
<1>2. \A e \in routes : \E c \in costs : c.vehicle = e.vehicle /\ <<c.from, c.to>> = <<e.from, e.to>>
    <2>1. \A e \in routes : C(e) \in costs
        BY DEF CostsOf
    <2>2. \A e : C(e).vehicle = e.vehicle /\ <<C(e).from, C(e).to>> = <<e.from, e.to>>
        OBVIOUS
    <2> HIDE DEF costs, C
    <2> QED BY <2>1, <2>2
<1> HIDE DEF costs
<1>3. ASSUME NEW v
      PROVE  EndsIn(costs, v) = EndsIn(routes, v)
    <2>1. \A c \in {x \in costs : x.vehicle = v} :
              \E e \in {x \in routes : x.vehicle = v} : <<c.from, c.to>> = <<e.from, e.to>>
        BY <1>1
    <2>2. \A e \in {x \in routes : x.vehicle = v} :
              \E c \in {x \in costs : x.vehicle = v} : <<c.from, c.to>> = <<e.from, e.to>>
        BY <1>2
    <2> DEFINE A == {x \in costs : x.vehicle = v}
               B == {x \in routes : x.vehicle = v}
    <2>3. EndsIn(costs, v) = {<<c.from, c.to>> : c \in A} /\ EndsIn(routes, v) = {<<c.from, c.to>> : c \in B}
        BY DEF EndsIn
    <2> HIDE DEF A, B
    <2>4. {<<c.from, c.to>> : c \in A} = {<<c.from, c.to>> : c \in B}
        BY <2>1, <2>2 DEF A, B
    <2> QED BY <2>3, <2>4
<1>4. HasAllEnds(routes, r, LatestOptions(r, p))
    BY DEF IsOfMoment
<1>5. HasAllEnds(costs, r, LatestOptions(r, p))
    BY <1>1, <1>3, <1>4 DEF HasAllEnds
<1> QED BY <1>5 DEF IsOfMoment, costs

(* The matrices that a response completes. *)
LEMMA MatricesThen ==
    ASSUME AggregatorOK, AnyStep, StepKinds
    PROVE  /\ \A i \in Published("AssignmentCostMatrix") :
                  log'[i] = log[i] /\ i \in Nat /\ i <= Len(log) /\ i \in Published("AssignmentCostMatrix")'
           /\ \A i \in Published("AssignmentCostMatrix")' :
                  \/ i \in Published("AssignmentCostMatrix")
                  \/ /\ i \in News /\ i \in Nat /\ i > Len(log)
                     /\ \E x \in DOMAIN log, k \in DOMAIN pendingAuto :
                            /\ Responded(x) /\ k \in Fulfilled(x) /\ k \in DOMAIN automation
                            /\ log'[i].about = automation[k].about
                            /\ log'[i].costs = CostsOf(pendingAuto[k])
<1> DEFINE T == "AssignmentCostMatrix"
<1>1. \A i \in Published(T) : log'[i] = log[i] /\ i \in Nat /\ i <= Len(log) /\ i \in Published(T)'
    BY OldMessages
<1>2. ASSUME NEW i \in Published(T)', i \notin Published(T)
      PROVE  /\ i \in News /\ i \in Nat /\ i > Len(log)
             /\ \E x \in DOMAIN log, k \in DOMAIN pendingAuto :
                    /\ Responded(x) /\ k \in Fulfilled(x) /\ k \in DOMAIN automation
                    /\ log'[i].about = automation[k].about
                    /\ log'[i].costs = CostsOf(pendingAuto[k])
    <2>1. i \in News /\ i \in Nat /\ i > Len(log) /\ log'[i].type = T
        BY <1>2, OldMessages
    <2>2. PICK x \in DOMAIN log : Responded(x)
        <3>1. ~Silent(T)
            BY <2>1 DEF Silent
        <3> QED BY <3>1, Types
    <2>3. PICK k \in Fulfilled(x) : IsMatrixOf(log'[i], k)
        BY <2>1, <2>2 DEF Responded, IsResponseTo
    <2>4. k \in DOMAIN pendingAuto /\ k \in DOMAIN automation
        BY DEF Fulfilled, AggregatorOK
    <2> QED BY <2>1, <2>2, <2>3, <2>4 DEF IsMatrixOf
<1> QED BY <1>1, <1>2

LEMMA MatricesOfOneMomentKept ==
    ASSUME BusOK, AggregatorOK, AnyStep, StepKinds, RoutesOfOneMoment, MatricesOfOneMoment
    PROVE  MatricesOfOneMoment'
<1> DEFINE T == "AssignmentCostMatrix"
           s == "RouteAggregator"
<1>1. ASSUME NEW i \in Published(T)', NEW costs, costs = log'[i].costs, NEW r, r = log'[i].about
      PROVE  \E p \in 1 .. i : IsOfMoment(costs, r, p)'
    <2>1. CASE i \in Published(T)
        <3>1. log'[i] = log[i] /\ i \in Nat /\ i <= Len(log)
            BY <2>1, MatricesThen
        <3>2. PICK p \in 1 .. i : IsOfMoment(costs, r, p)
            BY <1>1, <2>1, <3>1 DEF MatricesOfOneMoment
        <3>3. p \in Nat /\ p <= Len(log)
            BY <3>1, AggregatorService
        <3>4. IsOfMoment(costs, r, p)'
            BY <3>2, <3>3, StillOfMoment
        <3> QED BY <3>4
    <2>2. CASE i \notin Published(T)
        <3>1. /\ i \in Nat /\ i > Len(log)
              /\ \E x \in DOMAIN log, k \in DOMAIN pendingAuto :
                     /\ Responded(x) /\ k \in Fulfilled(x) /\ k \in DOMAIN automation
                     /\ log'[i].about = automation[k].about
                     /\ log'[i].costs = CostsOf(pendingAuto[k])
            BY <2>2, MatricesThen
        <3>2. PICK k \in DOMAIN pendingAuto :
                  r = automation[k].about /\ costs = CostsOf(pendingAuto[k])
            BY <1>1, <3>1
        <3>3. PICK p \in 1 .. read[s] : IsOfMoment(pendingAuto[k], automation[k].about, p)
            BY DEF RoutesOfOneMoment
        <3>4. IsOfMoment(costs, r, p)
            BY <3>2, <3>3, CostsOfMoment
        <3>5. p \in Nat /\ p <= Len(log) /\ p \in 1 .. i
            BY <3>1, <3>3, AggregatorService
        <3>6. IsOfMoment(costs, r, p)'
            BY <3>4, <3>5, StillOfMoment
        <3> QED BY <3>5, <3>6
    <2> QED BY <2>1, <2>2
<1> QED BY <1>1 DEF MatricesOfOneMoment
-----------------------------------------------------------------------------
(***************************************************************************)
(* One request at a time: when a key is there and the tasks of its request *)
(* have options, they are the request's own.  Options for an earlier one   *)
(* are gone, for it has its outcome and hence its matrix; a later one is   *)
(* not published yet, for this one has no matrix and hence no outcome.     *)
(***************************************************************************)
IsOwn(k, t) ==
    /\ options[t].about = automation[k].about
    /\ <<t, automation[k].about>> \in OffersRead
AllOwn ==
    \A k \in DOMAIN automation : \A t \in TasksOf[automation[k].about] \cap DOMAIN options : IsOwn(k, t)
LEMMA OwnOffers ==
    BusOK /\ OneAtATime /\ KeysOnce /\ MatricesOnce /\ OutcomesLast /\ OffersOnce
        /\ OptionsAreLatest /\ OptionsUnsettled
    => AllOwn
<1> DEFINE s == "RouteAggregator"
           U == "UniqueAutomationRequest"
           M == "AssignmentCostMatrix"
<1> SUFFICES ASSUME BusOK, OneAtATime, KeysOnce, MatricesOnce, OutcomesLast, OffersOnce,
                    OptionsAreLatest, OptionsUnsettled,
                    NEW k \in DOMAIN automation, NEW r, r = automation[k].about,
                    NEW t \in TasksOf[r] \cap DOMAIN options
             PROVE  options[t].about = r /\ <<t, r>> \in OffersRead
    BY DEF IsOwn, AllOwn
<1>1. PICK j \in DOMAIN log :
          /\ j \in Published("TaskPlanOptions") /\ j <= read[s] /\ log[j].task = t /\ log[j] = options[t]
    BY DEF OptionsAreLatest, LatestAt, OptionsAt
<1> DEFINE x == log[j].about
<1>2. <<t, x>> \in OffersRead
    BY <1>1 DEF OffersRead, ReadBy
<1>3. PICK a \in Published(U) : log[a].about = r
    BY DEF KeysOnce, RequestsRead, ReadBy
<1>4. PICK b \in Published(U) : log[b].about = x
    BY <1>1 DEF OffersOnce
<1>5. \A i \in Outcomes : \E c \in Published(M) : log[c].about = log[i].about
    BY DEF OutcomesLast
<1>6. a \in Nat /\ b \in Nat
    BY SequenceDomain DEF Published, BusOK, IsSequence
<1>7. \A c \in Published(M) : log[c].about # r /\ log[c].about # x
    BY <1>1 DEF MatricesOnce, OptionsUnsettled
<1>8. ~(a < b)
    BY <1>3, <1>4, <1>5, <1>7 DEF OneAtATime, About
<1>9. ~(b < a)
    BY <1>3, <1>4, <1>5, <1>7 DEF OneAtATime, About
<1>10. x = r
    BY <1>3, <1>4, <1>6, <1>8, <1>9
<1> QED BY <1>1, <1>2, <1>10

LEMMA OneAtATimeBefore ==
    ASSUME AnyStep, StepKinds, OneAtATime'
    PROVE  OneAtATime
<1> DEFINE U == "UniqueAutomationRequest"
<1>1. \A i \in Published(U) : i \in Published(U)' /\ log'[i] = log[i] /\ i \in Nat /\ i <= Len(log)
    BY OldMessages
<1>2. \A k \in Outcomes' : k <= Len(log) => k \in Outcomes
    <2>1. \A k \in News : ~(k <= Len(log))
        BY OldMessages
    <2> QED BY <2>1, OutcomesThen
<1>3. \A k \in Outcomes : log'[k] = log[k] /\ k \in Nat
    BY OutcomesThen
<1>4. Len(log) \in Nat
    BY OldMessages
<1>5. ASSUME NEW i \in Published(U), NEW j \in Published(U), i < j
      PROVE  \E k \in About(Outcomes, log[i].about) : k < j
    <2>1. PICK k \in Outcomes' : log'[k].about = log'[i].about /\ k < j
        BY <1>1, <1>5 DEF OneAtATime, About
    <2>2. k \in Nat
        BY Growing DEF Outcomes, Published, AnyStep
    <2>3. k \in Outcomes
        BY <1>1, <1>2, <1>4, <2>1, <2>2
    <2> QED BY <1>1, <1>3, <2>1, <2>3 DEF About
<1> QED BY <1>5 DEF OneAtATime

LEMMA OptionsUnsettledKept ==
    ASSUME BusOK, AggregatorOK, AnyStep, StepKinds, OffersOnce, OwnOffersRead, OptionsUnsettled
    PROVE  OptionsUnsettled'
<1> DEFINE s == "RouteAggregator"
           M == "AssignmentCostMatrix"
<1>1. /\ \A i \in Published(M) : log'[i] = log[i]
      /\ \A i \in Published(M)' :
            i \in Published(M) \/ \E x \in DOMAIN log : Responded(x) /\ Fulfilled(x) # {}
    BY MatricesThen
<1>2. ASSUME NEW x \in DOMAIN log, Responded(x), Fulfilled(x) # {}
      PROVE  DOMAIN options' = {}
    <2>1. options' = <<>>
        BY <1>2 DEF Responded, ClearOptions
    <2>2. DOMAIN <<>> = {}
        BY NoneOrOne, Zenon
    <2> QED BY <2>1, <2>2
<1>3. ASSUME NEW t \in DOMAIN options', NEW i \in Published(M)
      PROVE  log[i].about # options'[t].about
    <2>1. CASE t \in DOMAIN options /\ options'[t] = options[t]
        BY <2>1 DEF OptionsUnsettled
    <2>2. ASSUME NEW j \in DOMAIN log, CollectedOptions(j), t = log[j].task, options'[t] = log[j],
                 log[i].about = log[j].about
          PROVE  FALSE
        <3>1. HasRead(s, j) /\ j \in Published("TaskPlanOptions")
            BY <2>2 DEF CollectedOptions, IsOffer, Published
        <3>2. t \in TasksOf[log[i].about]
            BY <2>2, <3>1 DEF OffersOnce
        <3>3. <<t, log[i].about>> \in OffersRead
            BY <3>2 DEF OwnOffersRead
        <3>4. PICK y \in ReadBy(s, "TaskPlanOptions") : log[y].task = t /\ log[y].about = log[i].about
            BY <3>3 DEF OffersRead
        <3>5. y = j
            BY <2>2, <3>1, <3>4 DEF OffersOnce, ReadBy
        <3>6. y <= read[s] /\ read[s] < j /\ read[s] \in Nat /\ j \in Nat
            BY <3>1, <3>4, AggregatorService, OldMessages DEF ReadBy, HasRead
        <3> QED BY <3>5, <3>6
    <2>3. \/ t \in DOMAIN options /\ options'[t] = options[t]
          \/ \E j \in DOMAIN log : CollectedOptions(j) /\ t = log[j].task /\ options'[t] = log[j]
        <3>1. CASE UNCHANGED options
            BY <3>1
        <3>2. ASSUME NEW j \in DOMAIN log, Responded(j)
              PROVE  t \in DOMAIN options /\ options'[t] = options[t]
            <4>1. UNCHANGED options
                BY <1>2, <3>2 DEF Responded, ClearOptions
            <4> QED BY <4>1
        <3>3. ASSUME NEW j \in DOMAIN log, CollectedOptions(j)
              PROVE  \/ t \in DOMAIN options /\ options'[t] = options[t]
                     \/ t = log[j].task /\ options'[t] = log[j]
            <4>1. options' = WithEntry(options, log[j].task, log[j])
                BY <3>3 DEF CollectedOptions, CollectedFrom
            <4> QED BY <4>1 DEF WithEntry
        <3>4. \/ UNCHANGED options \/ \E j \in DOMAIN log : CollectedOptions(j) \/ Responded(j)
            BY Readers DEF aggregation, collector, Learned, RoutesAsked, IsCollected, CollectedRequest,
               CollectedFrom
        <3> QED BY <3>1, <3>2, <3>3, <3>4
    <2> QED BY <2>1, <2>2, <2>3
<1>4. \A t \in DOMAIN options' : \A i \in Published(M)' : log'[i].about # options'[t].about
    BY <1>1, <1>2, <1>3
<1> QED BY <1>4 DEF OptionsUnsettled
LEMMA OwnOffersReadKept ==
    ASSUME BusOK, AggregatorOK, AnyStep, StepKinds, KeysBacked', AllOwn', OwnOffersRead
    PROVE  OwnOffersRead'
<1> DEFINE M == "AssignmentCostMatrix"
<1>1. OffersRead \subseteq OffersRead'
    BY StillRead
<1>2. ASSUME NEW k \in DOMAIN pendingAuto', NEW r, r = automation'[k].about, NEW t \in TasksOf[r]
      PROVE  <<t, r>> \in OffersRead'
    <2>1. \/ k \in DOMAIN pendingAuto /\ r = automation[k].about
          \/ TasksOf[r] \subseteq DOMAIN options'
        BY <1>2, AwaitedThen
    <2>2. CASE k \in DOMAIN pendingAuto /\ r = automation[k].about
        BY <1>1, <2>2 DEF OwnOffersRead
    <2>3. CASE TasksOf[r] \subseteq DOMAIN options'
        <3>1. k \in DOMAIN automation'
            BY AggregatorKept DEF AggregatorOK
        <3>2. IsOwn(k, t)'
            BY <1>2, <2>3, <3>1 DEF AllOwn
        <3> QED BY <1>2, <3>2 DEF IsOwn
    <2> QED BY <2>1, <2>2, <2>3
<1>3. ASSUME NEW i \in Published(M)', NEW r, r = log'[i].about, NEW t \in TasksOf[r]
      PROVE  <<t, r>> \in OffersRead'
    <2>1. \/ i \in Published(M) /\ r = log[i].about
          \/ \E k \in DOMAIN pendingAuto : r = automation[k].about
        BY <1>3, MatricesThen
    <2>2. <<t, r>> \in OffersRead
        BY <1>3, <2>1 DEF OwnOffersRead
    <2> QED BY <1>1, <2>2
<1> QED BY <1>2, <1>3 DEF OwnOffersRead

LEMMA OwnRoutesKept ==
    ASSUME BusOK, AggregatorOK, AnyStep, StepKinds, KeysBacked', AllOwn', OwnRoutes
    PROVE  OwnRoutes'
<1>1. ASSUME NEW k \in DOMAIN pendingAuto', NEW r, r = automation'[k].about, NEW e \in pendingAuto'[k]
      PROVE  e.to.about = r
    <2>1. \/ k \in DOMAIN pendingAuto /\ pendingAuto'[k] = pendingAuto[k] /\ r = automation[k].about
          \/ TasksOf[r] \subseteq DOMAIN options' /\ \E v : e.to \in Places(r, options', v)
        BY <1>1, AwaitedThen
    <2>2. CASE k \in DOMAIN pendingAuto /\ pendingAuto'[k] = pendingAuto[k] /\ r = automation[k].about
        BY <1>1, <2>2 DEF OwnRoutes
    <2>3. ASSUME TasksOf[r] \subseteq DOMAIN options', NEW v, e.to \in Places(r, options', v)
          PROVE  e.to.about = r
        <3> SUFFICES ASSUME NEW opts, opts = options' PROVE e.to.about = r
            OBVIOUS
        <3>1. PICK t \in TasksOf[r] : e.to.about = opts[t].about
            BY <2>3 DEF Places
        <3>2. k \in DOMAIN automation'
            BY AggregatorKept DEF AggregatorOK
        <3>3. IsOwn(k, t)'
            BY <1>1, <2>3, <3>2 DEF AllOwn
        <3> QED BY <1>1, <3>1, <3>3 DEF IsOwn
    <2> QED BY <2>1, <2>2, <2>3
<1> QED BY <1>1 DEF OwnRoutes

LEMMA MatrixOfItsOptionsKept ==
    ASSUME AggregatorOK, AnyStep, StepKinds, OwnRoutes, MatrixOfItsOptions
    PROVE  MatrixOfItsOptions'
<1> DEFINE M == "AssignmentCostMatrix"
<1>1. ASSUME NEW i \in Published(M)', NEW c \in log'[i].costs
      PROVE  c.to.about = log'[i].about
    <2>1. CASE i \in Published(M)
        BY <1>1, <2>1, MatricesThen DEF MatrixOfItsOptions
    <2>2. ASSUME NEW k \in DOMAIN pendingAuto, log'[i].about = automation[k].about,
                 log'[i].costs = CostsOf(pendingAuto[k])
          PROVE  c.to.about = log'[i].about
        <3>1. PICK e \in pendingAuto[k] : c.to = e.to
            BY <1>1, <2>2 DEF CostsOf
        <3> QED BY <2>2, <3>1 DEF OwnRoutes
    <2> QED BY <2>1, <2>2, MatricesThen
<1> QED BY <1>1 DEF MatrixOfItsOptions

LEMMA OwnOptionsKept ==
    ASSUME IInv, AnyStep, StepKinds, BusOK', KeysOnce', MatricesOnce', OutcomesLast', OffersOnce',
           OptionsAreLatest', KeysBacked'
    PROVE  OwnOptions'
<1> SUFFICES ASSUME OneAtATime'
             PROVE  OwnOffersRead' /\ OptionsUnsettled' /\ OwnRoutes' /\ MatrixOfItsOptions'
    BY DEF OwnOptions
<1>1. OwnOffersRead /\ OptionsUnsettled /\ OwnRoutes /\ MatrixOfItsOptions
    BY OneAtATimeBefore DEF IInv, OwnOptions
<1>2. BusOK /\ AggregatorOK /\ OffersOnce
    BY DEF IInv
<1>3. OptionsUnsettled'
    BY <1>1, <1>2, OptionsUnsettledKept
<1>4. AllOwn'
    BY <1>3, OwnOffers, PTL
<1>5. OwnOffersRead' /\ OwnRoutes' /\ MatrixOfItsOptions'
    BY <1>1, <1>2, <1>4, OwnOffersReadKept, OwnRoutesKept, MatrixOfItsOptionsKept
<1> QED BY <1>3, <1>5
-----------------------------------------------------------------------------
(***************************************************************************)
(* The invariant.                                                          *)
(***************************************************************************)
LEMMA IInvInit == Init => IInv
<1> SUFFICES ASSUME Init PROVE IInv
    OBVIOUS
<1>1. /\ log = <<>> /\ read = [s \in Service |-> 0] /\ known = {}
      /\ automation = <<>> /\ nextKey = 1 /\ options = <<>> /\ pendingAuto = <<>> /\ responses = {}
      /\ nextPlan = 1 /\ pendingRoute = <<>> /\ held = [r \in Request |-> {}]
    BY DEF Init, BusInit, RouteAggregatorInit, AssignmentTreeInit
<1>2. DOMAIN <<>> = {} /\ IsSequence(<<>>) /\ Len(<<>>) = 0
    BY NoneOrOne, Zenon
<1>3. \A type : Published(type) = {}
    BY <1>1, <1>2 DEF Published
<1>4. \A s, type : ReadBy(s, type) = {}
    BY <1>3 DEF ReadBy
<1>5. DOMAIN log = {} /\ DOMAIN automation = {} /\ DOMAIN options = {} /\ DOMAIN pendingAuto = {}
      /\ DOMAIN pendingRoute = {}
    BY <1>1, <1>2
<1>6. Outcomes = {}
    BY <1>3 DEF Outcomes
<1>7. BusOK
    BY <1>1, <1>2, <1>5 DEF BusOK
<1>8. AggregatorOK
    BY <1>1, <1>5, FS_EmptySet DEF AggregatorOK
<1>9. /\ RequestsOnce /\ KeysOnce /\ MatricesOnce /\ OutcomesOnce /\ QueriesOnce
      /\ QueriesAwaited /\ QueriesAnswered /\ OffersOnce /\ OptionsAreLatest
      /\ RequestsBacked /\ KeysBacked /\ RoutesOfOneMoment /\ MatricesOfOneMoment /\ OutcomesLast
    BY <1>3, <1>5, <1>6 DEF RequestsOnce, KeysOnce, MatricesOnce, OutcomesOnce, QueriesOnce,
       QueriesAwaited, QueriesAnswered, OffersOnce, OptionsAreLatest, RequestsBacked, KeysBacked,
       RoutesOfOneMoment, MatricesOfOneMoment, OutcomesLast
<1>10. HeldIsRead /\ HeldIsFunction
    BY <1>1 DEF HeldIsRead, HeldIsFunction
<1>11. KnownIsReported /\ ResponsesCame
    BY <1>1, <1>4 DEF KnownIsReported, ResponsesCame
<1>12. OwnOptions
    BY <1>3, <1>5 DEF OwnOptions, OwnOffersRead, OptionsUnsettled, OwnRoutes, MatrixOfItsOptions
<1> QED BY <1>7, <1>8, <1>9, <1>10, <1>11, <1>12 DEF IInv

LEMMA IInvNext == IInv /\ [Next]_vars => IInv'
<1> SUFFICES ASSUME IInv, [Next]_vars PROVE IInv'
    OBVIOUS
<1>1. BusOK /\ AggregatorOK /\ KeysOnce
    BY DEF IInv
<1>2. AnyStep /\ StepKinds
    BY <1>1, Kinds
<1>3. BusOK' /\ AggregatorOK'
    BY <1>1, <1>2, BusKept, AggregatorKept
<1>4. RequestsOnce' /\ KeysOnce' /\ MatricesOnce' /\ HeldIsRead' /\ HeldIsFunction' /\ OutcomesOnce' /\ OutcomesLast'
    BY <1>1, <1>2, RequestsOnceKept, KeysOnceKept, MatricesOnceKept, HeldIsReadKept,
       HeldIsFunctionKept, OutcomesOnceKept, OutcomesLastKept DEF IInv
<1>5. QueriesOnce' /\ KnownIsReported' /\ ResponsesCame' /\ QueriesAwaited' /\ QueriesAnswered'
    BY <1>1, <1>2, QueriesOnceKept, KnownKept, ResponsesCameKept, QueriesAwaitedKept,
       QueriesAnsweredKept DEF IInv
<1>6. OffersOnce' /\ OptionsAreLatest' /\ RequestsBacked'
    BY <1>1, <1>2, OffersOnceKept, OptionsAreLatestKept, RequestsBackedKept DEF IInv
<1>7. KeysBacked'
    BY <1>1, <1>2, KeysBackedKept DEF IInv
<1>8. RoutesOfOneMoment' /\ MatricesOfOneMoment'
    BY <1>1, <1>2, <1>6, <1>7, RoutesOfOneMomentKept, MatricesOfOneMomentKept DEF IInv
<1>9. OwnOptions'
    BY <1>2, <1>3, <1>4, <1>6, <1>7, OwnOptionsKept
<1> QED BY <1>3, <1>4, <1>5, <1>6, <1>7, <1>8, <1>9 DEF IInv

(***************************************************************************)
(* The invariant holds for whatever requests, tasks, vehicles, planners    *)
(* and settings there are.                                                 *)
(***************************************************************************)
THEOREM Invariance == Spec => []IInv
BY IInvInit, IInvNext, PTL DEF Spec

-----------------------------------------------------------------------------
(***************************************************************************)
(* What follows from it.                                                   *)
(***************************************************************************)
LEMMA AtMostOne ==
    ASSUME NEW S, \A x, y \in S : x = y
    PROVE  Cardinality(S) <= 1
<1>1. CASE S = {}
    BY <1>1, FS_EmptySet
<1>2. ASSUME NEW x \in S
      PROVE  Cardinality(S) <= 1
    <2>1. S = {x}
        OBVIOUS
    <2> QED BY <2>1, FS_Singleton
<1> QED BY <1>1, <1>2

(* The state of the services is of its type: in particular a matrix is only *)
(* awaited for a request that is still there, so SendMatrix finds it.       *)
THEOREM TypeCorrect == Spec => []TypeOK
<1>1. IInv => TypeOK
    <2> SUFFICES ASSUME IInv PROVE TypeOK
        OBVIOUS
    <2>1. BusOK /\ AggregatorOK /\ HeldIsRead /\ HeldIsFunction
        BY DEF IInv
    <2>2. \A k \in DOMAIN automation : k \in 1 .. nextKey - 1 /\ automation[k].about \in Request
        BY <2>1 DEF AggregatorOK
    <2>3. \A s \in Service : read[s] \in 0 .. Len(log)
        <3> SUFFICES ASSUME NEW s \in Service, NEW n, n = read[s], NEW l, l = Len(log)
                     PROVE  n \in 0 .. l
            OBVIOUS
        <3>1. n \in Nat /\ n <= l
            BY <2>1 DEF BusOK
        <3>2. l \in Nat
            BY <2>1 DEF BusOK, IsSequence
        <3> QED BY <3>1, <3>2
    <2>4. held \in [Request -> SUBSET {log[i] : i \in DOMAIN log}]
        <3>1. \A r \in Request : held[r] \in SUBSET {log[i] : i \in DOMAIN log}
            BY <2>1 DEF HeldIsRead
        <3> QED BY <2>1, <3>1 DEF HeldIsFunction
    <2> QED BY <2>1, <2>2, <2>3, <2>4 DEF TypeOK, AggregatorOK
<1> QED BY <1>1, Invariance, PTL

(* However often options make the RouteAggregatorService ask for the routes *)
(* of a request anew, it gets one matrix, and then one outcome: its key is  *)
(* erased with the matrix, what is held for it with the outcome.            *)
THEOREM OneOutcomeHolds == Spec => []OneOutcome
<1>1. IInv => OneOutcome
    <2> SUFFICES ASSUME IInv, NEW r \in Request
                 PROVE  /\ Cardinality(About(Published("AssignmentCostMatrix"), r)) <= 1
                        /\ Cardinality(About(Outcomes, r)) <= 1
        BY DEF OneOutcome
    <2>1. \A i, j \in About(Published("AssignmentCostMatrix"), r) : i = j
        BY DEF IInv, MatricesOnce, About
    <2>2. \A i, j \in About(Outcomes, r) : i = j
        BY DEF IInv, OutcomesOnce, About
    <2> QED BY <2>1, <2>2, AtMostOne
<1> QED BY <1>1, Invariance, PTL

(* A matrix has, for each of its vehicles, the routes between the options   *)
(* that the tasks had at one moment, although routes asked for earlier may  *)
(* be answered while newer ones are awaited.                                *)
THEOREM MatrixHolds == Spec => []MatrixOfOneMoment
<1>1. IInv => MatrixOfOneMoment
    <2> SUFFICES ASSUME IInv, NEW i \in Published("AssignmentCostMatrix"),
                        NEW r, r = log[i].about, NEW costs, costs = log[i].costs
                 PROVE  \E p \in 1 .. i :
                            /\ \A t \in TasksOf[r] : OptionsAt(p, t) # {}
                            /\ \A v \in {c.vehicle : c \in costs} \cup VehiclesOf[r] :
                                  {<<c.from, c.to>> : c \in {x \in costs : x.vehicle = v}}
                                      = Ends(r, LatestOptions(r, p), v)
        BY DEF MatrixOfOneMoment
    <2>1. PICK p \in 1 .. i : IsOfMoment(costs, r, p)
        BY DEF IInv, MatricesOfOneMoment
    <2>2. \A t \in TasksOf[r] : OptionsAt(p, t) # {}
        BY <2>1 DEF IsOfMoment, LatestAt
    <2>3. \A v \in {c.vehicle : c \in costs} \cup VehiclesOf[r] :
              EndsIn(costs, v) = Ends(r, LatestOptions(r, p), v)
        BY <2>1 DEF IsOfMoment, HasAllEnds
    <2> QED BY <2>2, <2>3 DEF EndsIn
<1> QED BY <1>1, Invariance, PTL

(* If each request is published after the outcome of the last one, as the   *)
(* validator does it unless it gives up on one, a matrix is made of the     *)
(* options that the tasks offered for its own request.                      *)
THEOREM OwnOptionsHold == Spec => []OwnOptionsOneAtATime
<1>1. IInv => OwnOptionsOneAtATime
    BY DEF IInv, OwnOptions, OwnOptionsOneAtATime
<1> QED BY <1>1, Invariance, PTL

(* A RouteRequest has at most one answer, with the plans that came for all  *)
(* the vehicles it lists, or that were known when it was read.              *)
THEOREM QueryHolds == Spec => []QueryAnsweredInFull
<1>1. IInv => QueryAnsweredInFull
    <2> SUFFICES ASSUME QueriesAnswered, NEW q \in RouteQuery
                 PROVE  /\ Cardinality(Answers(q)) <= 1
                        /\ \A i \in Answers(q) :
                              /\ log[i].plans # {}
                              /\ PlannedVehicles(log[i].plans) = QueriedVehicles(q)
                              /\ \A n \in log[i].plans : \E j \in Published("RoutePlanResponse") :
                                                            j < i /\ log[j].id = n
        BY DEF QueryAnsweredInFull, IInv
    <2>1. \A i, j \in Answers(q) : i = j
        BY DEF QueriesAnswered, Answers
    <2>2. Cardinality(Answers(q)) <= 1
        BY <2>1, AtMostOne
    <2>3. \A i \in Answers(q) : i \in Published("RouteResponse") /\ log[i].id = q
        BY DEF Answers
    <2>4. \A i \in Answers(q) :
              /\ log[i].plans # {}
              /\ PlannedVehicles(log[i].plans) = QueriedVehicles(q)
              /\ \A n \in log[i].plans : \E j \in Published("RoutePlanResponse") :
                                            j < i /\ log[j].id = n
        BY <2>3 DEF QueriesAnswered, IsPlannedFor
    <2> QED BY <2>2, <2>4
<1> QED BY <1>1, Invariance, PTL
=============================================================================
