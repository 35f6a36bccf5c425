---------------------- MODULE PlanImplementationProofs ----------------------
(***************************************************************************)
(* Proofs about the second half of the assignment pipeline: for requests   *)
(* that are published once, the missions of a response are those of the    *)
(* summary, linked waypoint by waypoint, and made of a task's own options. *)
(*                                                                         *)
(* The steps are first sorted by kind: what each publishes and changes.    *)
(* Then a request has one summary, nothing is asked for it before that is  *)
(* read and after its outcome, and between the two the PlanBuilderService  *)
(* has one task at work at most: what it has built and what is left make   *)
(* up the summary.  A task has its options built for the request it is     *)
(* asked to implement, since they were offered before the summary.  In the *)
(* end the services are shown to implement PlanService for each request.   *)
(***************************************************************************)
EXTENDS PlanImplementation, MessageBusProofs, FiniteSetTheorems

-----------------------------------------------------------------------------
(***************************************************************************)
(* The messages there are on the bus, by their type.                       *)
(***************************************************************************)
IsState(m) ==
    DOMAIN m = {"type", "vehicle"} /\ m.type = "EntityState" /\ m.vehicle \in Vehicle
IsRequest(m) ==
    DOMAIN m = {"type", "about"} /\ m.type = "UniqueAutomationRequest" /\ m.about \in Request
IsSummary(m) ==
    /\ DOMAIN m = {"type", "about", "assignments"} /\ m.type = "TaskAssignmentSummary"
    /\ m.about \in Request /\ m.assignments \in MaySummarize[m.about]
IsPlanRequest(m) ==
    /\ DOMAIN m = {"type", "id", "task", "routes"} /\ m.type = "RoutePlanRequest" /\ m.task \in Task
IsPlanResponse(m) ==
    /\ DOMAIN m = {"type", "to", "id", "routes"} /\ m.type = "RoutePlanResponse" /\ m.to \in Task
IsOffer(m) ==
    /\ DOMAIN m = {"type", "about", "task"} /\ m.type = "TaskPlanOptions" /\ m.task \in Task
IsAsk(m) ==
    /\ DOMAIN m = {"type", "id", "to", "about", "vehicle", "start", "from"}
    /\ m.type = "TaskImplementationRequest" /\ m.to \in Task /\ m.about \in Request
    /\ m.vehicle \in Vehicle /\ m.start \in Nat
IsAnswer(m) ==
    /\ DOMAIN m = {"type", "id", "about", "task", "vehicle", "start", "count", "from", "built", "plans"}
    /\ m.type = "TaskImplementationResponse" /\ m.count \in Nat
IsOutcome(m) ==
    /\ DOMAIN m = {"type", "about", "missions"}
    /\ m.type = "UniqueAutomationResponse" /\ m.about \in Request
IsError(m) ==
    /\ DOMAIN m = {"type", "about", "task"} /\ m.type = "ServiceStatus" /\ m.about \in Request
IsMessage(m) ==
    \/ IsState(m) \/ IsRequest(m) \/ IsSummary(m) \/ IsPlanRequest(m) \/ IsPlanResponse(m)
    \/ IsOffer(m) \/ IsAsk(m) \/ IsAnswer(m) \/ IsOutcome(m) \/ IsError(m)

Asks == Published("TaskImplementationRequest")
Answers == Published("TaskImplementationResponse")
Sums == Published("TaskAssignmentSummary")

(***************************************************************************)
(* The parts of the invariant.  First what is on the bus and in the        *)
(* services, and what a request published once leads to.                   *)
(***************************************************************************)
BusOK ==
    /\ IsSequence(log) /\ read \in [Service -> Nat] /\ \A s \in Service : read[s] <= Len(log)
    /\ \A i \in DOMAIN log : IsMessage(log[i])
BuilderOK ==
    /\ states \subseteq Vehicle
    /\ DOMAIN projected = Request /\ DOMAIN remaining = Request
    /\ DOMAIN inProgress \subseteq Request
    /\ nextId \in Nat \ {0} /\ DOMAIN expected = 1 .. nextId - 1
TasksOK ==
    /\ DOMAIN builtFor = Task /\ DOMAIN awaited = Task /\ DOMAIN implementing = Task
    /\ DOMAIN pendingRoutes = Task /\ DOMAIN plans = Task
    /\ \A t \in Task : /\ pendingRoutes[t] \subseteq {"inside", "transition"}
                       /\ plans[t] \subseteq {"inside", "transition"}

(* No request is published again: what the rest is about.                  *)
PublishedOnce ==
    \A i, j \in Published("UniqueAutomationRequest") : log[i].about = log[j].about => i = j

(* It has one assignment, after it; nothing is asked for it before that is *)
(* read, and nothing after its outcome.                                    *)
SummariesOnce ==
    /\ summaries \in [Request -> Nat]
    /\ \A i \in Sums :
          /\ summaries[log[i].about] # 0
          /\ \E j \in Published("UniqueAutomationRequest") : j < i /\ log[j].about = log[i].about
    /\ \A i, j \in Sums : log[i].about = log[j].about => i = j
SummaryRead(r) == \E i \in ReadBy("PlanBuilder", "TaskAssignmentSummary") : log[i].about = r
BuiltAreRead ==
    /\ \A r \in DOMAIN inProgress : SummaryRead(r)
    /\ \A i \in Asks \cup Published("UniqueAutomationResponse") \cup Published("ServiceStatus") :
           SummaryRead(log[i].about)
OutcomesLast ==
    \A r \in Request : \A k \in Outcomes(r) :
        r \notin DOMAIN inProgress /\ \A i \in Asks : log[i].about = r => i < k

(* What is asked for is expected, implemented by the task it is for, and   *)
(* answered once.                                                          *)
AsksExpected ==
    /\ \A i \in Asks : log[i].id \in DOMAIN expected /\ expected[log[i].id] = log[i].about
    /\ \A i \in Asks : log[i].to \in TasksOf[log[i].about]
    /\ \A i, j \in Asks : log[i].id = log[j].id => i = j
ImplementedAreAsked ==
    \A t \in Task :
        /\ \A p \in implementing[t] :
              /\ p.request \in Asks /\ log[p.request].to = t /\ p.request <= read[t]
              /\ \A i \in Answers : log[i].id # log[p.request].id
        /\ \A p, q \in implementing[t] : p.request = q.request => p = q
IsAnswerTo(m, a) ==
    /\ m.id = a.id /\ m.about = a.about /\ m.task = a.to /\ m.vehicle = a.vehicle
    /\ m.start = a.start /\ m.from = a.from
AnswersOnce ==
    /\ \A i \in Answers : \E j \in Asks : j <= read[log[j].to] /\ IsAnswerTo(log[i], log[j])
    /\ \A i, j \in Answers : log[i].id = log[j].id => i = j

(***************************************************************************)
(* What the PlanBuilderService has in hand of a request: what is done,     *)
(* what is asked and what remains make up the summary, and the projected   *)
(* states are where the missions built so far end.  Open: what has been    *)
(* asked for request r and whose answer has not been read yet.             *)
(***************************************************************************)
Open(r) ==
    {j \in Asks : log[j].about = r
                  /\ \A i \in ReadBy("PlanBuilder", "TaskImplementationResponse") : log[i].id # log[j].id}
OpenAsks(r) == {log[j] : j \in Open(r)}

IsFrom(a, proj) ==
    a.vehicle \in DOMAIN proj /\ a.start = proj[a.vehicle].last + 1 /\ a.from = proj[a.vehicle].task
EndsAt(way, p) ==
    /\ IsSequence(way) /\ Len(way) # 0 /\ IsLinked(way)
    /\ \A k \in 1 .. Len(way) : way[k].first \in Nat /\ way[k].count \in Nat
    /\ p.last + 1 = way[Len(way)].first + way[Len(way)].count /\ p.task = way[Len(way)].task
AreProjected(ways, proj) ==
    /\ DOMAIN ways \subseteq DOMAIN proj /\ DOMAIN proj \subseteq Vehicle
    /\ \A v \in DOMAIN proj :
          /\ proj[v].last \in Nat
          /\ v \in DOMAIN ways => EndsAt(ways[v], proj[v])
          /\ v \notin DOMAIN ways => proj[v].last = 0 /\ proj[v].task = NoTask
IsRest(rest, s) ==
    /\ IsSequence(rest) /\ Len(rest) <= Len(s)
    /\ \A k \in 1 .. Len(rest) : rest[k] = s[Len(s) - Len(rest) + k]

(* The assignments of a summary. *)
IsAssignment(s) ==
    /\ IsSequence(s)
    /\ \A k \in 1 .. Len(s) : s[k].vehicle \in Vehicle /\ s[k].task \in Task
    /\ \A k, l \in 1 .. Len(s) : s[k].task = s[l].task => k = l

(* The missions are of the first d assignments of s, in order. *)
IsDone(s, k, v, skip) == s[k].vehicle = v /\ s[k].task \notin skip
IsWayOf(way, s, d, v, skip) ==
    /\ IsSequence(way)
    /\ \A x \in 1 .. Len(way) : \E k \in 1 .. d : s[k].task = way[x].task /\ IsDone(s, k, v, skip)
    /\ \A k \in 1 .. d : IsDone(s, k, v, skip) => \E x \in 1 .. Len(way) : way[x].task = s[k].task
    /\ \A x, y \in 1 .. Len(way) : \A k, l \in 1 .. d :
           x < y /\ s[k].task = way[x].task /\ s[l].task = way[y].task => k < l
AreOf(ways, s, d, skip) ==
    /\ \A k \in d + 1 .. Len(s) : s[k].task \notin skip
    /\ \A v \in Vehicle : IsWayOf(MissionOf(ways, v), s, d, v, skip)
IsReady(ways, proj, rest, s, skip) ==
    AreProjected(ways, proj) /\ IsRest(rest, s) /\ AreOf(ways, s, Len(s) - Len(rest), skip)
IsAsked(ways, proj, rest, a, s, skip) ==
    /\ AreProjected(ways, proj) /\ IsRest(rest, s) /\ Len(rest) < Len(s)
    /\ IsFrom(a, proj)
    /\ a.vehicle = s[Len(s) - Len(rest)].vehicle /\ a.to = s[Len(s) - Len(rest)].task
    /\ AreOf(ways, s, Len(s) - Len(rest) - 1, skip)
IsInHand(ways, proj, rest, asks, s, skip) ==
    \/ asks = {} /\ IsReady(ways, proj, rest, s, skip)
    \/ \E a : asks = {a} /\ IsAsked(ways, proj, rest, a, s, skip)
InHand(r) ==
    \A j \in About("TaskAssignmentSummary", r) :
        IsInHand(inProgress[r], projected[r], remaining[r], OpenAsks(r), log[j].assignments, Skip(r))
AllInHand == \A r \in DOMAIN inProgress : InHand(r)
AreLinked(ways) == \A v \in DOMAIN ways : IsLinked(ways[v])
AnswersOf(r) ==
    \A i \in About("UniqueAutomationResponse", r) :
        /\ AreLinked(log[i].missions)
        /\ \A j \in About("TaskAssignmentSummary", r) :
              AreOf(log[i].missions, log[j].assignments, Len(log[j].assignments), Skip(r))
AllAnswered == \A r \in Request : AnswersOf(r)

(***************************************************************************)
(* What a task offers it has built, until it reads the next request that   *)
(* lists it; what it implements is what it has built.                      *)
(***************************************************************************)
Backed(r) == \A t \in TasksOf[r] : Offers(t, r) # {}
OffersBacked == \A r \in Request : About("TaskAssignmentSummary", r) # {} => Backed(r)
AwaitedOnce ==
    \A t \in Task :
        /\ \A x, y \in awaited[t] : x = y
        /\ awaited[t] # {} =>
              t \in Routed /\ \E j \in ReadBy(t, "UniqueAutomationRequest") : log[j].about = builtFor[t]
IsOvertaken(t, r) ==
    \E j, k \in ReadBy(t, "UniqueAutomationRequest") : log[j].about = r /\ j < k
IsOffered(t, r) ==
    \/ /\ builtFor[t] = r /\ awaited[t] = {} /\ (t \notin Routed => "inside" \in plans[t])
       /\ \E j \in ReadBy(t, "UniqueAutomationRequest") : log[j].about = r
    \/ IsOvertaken(t, r)
OfferedAreBuilt ==
    \A t \in Task : \A r \in Request : Offers(t, r) # {} => IsOffered(t, r)
Owns(t) ==
    implementing[t] # {} =>
        /\ awaited[t] = {} /\ {"inside", "transition"} \subseteq plans[t] \cup pendingRoutes[t]
        /\ \A p \in implementing[t] : log[p.request].about = builtFor[t]
OwnTasks == OneAtATime => \A t \in Task : Owns(t)
OwnAnswers == OwnImplementationOneAtATime

Inv ==
    /\ BusOK /\ BuilderOK /\ TasksOK /\ SummariesOnce /\ BuiltAreRead /\ OutcomesLast /\ AsksExpected
    /\ ImplementedAreAsked /\ AnswersOnce /\ AllInHand /\ AllAnswered
    /\ OffersBacked /\ AwaitedOnce /\ OfferedAreBuilt /\ OwnTasks /\ OwnAnswers
IInv == IsSequence(log) /\ (PublishedOnce => Inv)
-----------------------------------------------------------------------------
(***************************************************************************)
(* The kinds of steps: what each publishes, and what it changes.           *)
(***************************************************************************)
taskState == <<builtFor, awaited, implementing, pendingRoutes, plans>>
SentOnly(errors) ==
    /\ \A k \in News : log'[k] \in errors
    /\ \A e \in errors : \E k \in News : log'[k] = e
SentAfter(errors, m) ==
    \E n \in News :
        /\ log'[n] = m
        /\ \A k \in News \ {n} : log'[k] \in errors
        /\ \A e \in errors : \E k \in News : log'[k] = e

(* The environment and the route planner. *)
OfOthers == UNCHANGED <<planBuilder, taskState, summaries>>
Reported == OfOthers /\ UNCHANGED read /\ \A i \in News : IsState(log'[i])
Requested == OfOthers /\ UNCHANGED read /\ \E m : Sent(m) /\ IsRequest(m)
IsNewSummary(m) ==
    /\ IsSummary(m)
    /\ Cardinality(About("UniqueAutomationRequest", m.about)) > summaries[m.about]
    /\ \A t \in TasksOf[m.about] : Cardinality(Offers(t, m.about)) > summaries[m.about]
    /\ summaries' = [summaries EXCEPT ![m.about] = @ + 1]
Summarized == UNCHANGED <<read, planBuilder, taskState>> /\ \E m : Sent(m) /\ IsNewSummary(m)
RoutesPlanned ==
    OfOthers /\ (\E i : HasRead("RoutePlanner", i)) /\ \A i \in News : IsPlanResponse(log'[i])

(* The PlanBuilderService. *)
OfBuilder(i) == HasRead("PlanBuilder", i) /\ UNCHANGED <<taskState, summaries>>
missions == <<projected, remaining, inProgress, expected, nextId>>
Learned(i) ==
    /\ IsState(log[i]) /\ News = {}
    /\ states' = states \cup {log[i].vehicle} /\ UNCHANGED missions
Dropped(i) ==
    LET r == log[i].about IN
    /\ IsRequest(log[i]) /\ News = {}
    /\ projected' = [projected EXCEPT ![r] = <<>>]
    /\ remaining' = [remaining EXCEPT ![r] = <<>>]
    /\ inProgress' = Restrict(inProgress, DOMAIN inProgress \ {r})
    /\ UNCHANGED <<states, expected, nextId>>
Refused(i) ==
    IsSummary(log[i]) /\ Sent(Error(log[i].about, NoTask)) /\ UNCHANGED planBuilder
AskFor(r, a, proj) ==
    [type |-> "TaskImplementationRequest", id |-> nextId, to |-> a.task,
     about |-> r, vehicle |-> a.vehicle,
     start |-> StartOf(proj, a), from |-> proj[a.vehicle].task]
Asked(r, todo, proj, errors) ==
    /\ todo # <<>> /\ Head(todo).vehicle \in DOMAIN proj
    /\ remaining' = [remaining EXCEPT ![r] = Tail(todo)]
    /\ expected' = WithEntry(expected, nextId, r) /\ nextId' = nextId + 1
    /\ SentAfter(errors, AskFor(r, Head(todo), proj))
Stopped(r, todo, errors) ==
    /\ remaining' = [remaining EXCEPT ![r] = todo]
    /\ UNCHANGED <<expected, nextId>> /\ SentOnly(errors)
Projection(r) == [v \in Participating(r) |-> [last |-> 0, task |-> NoTask]]
Accepted(i) ==
    LET r == log[i].about todo == log[i].assignments IN
    /\ IsSummary(log[i]) /\ UNCHANGED states
    /\ projected' = [projected EXCEPT ![r] = Projection(r)]
    /\ inProgress' = WithEntry(inProgress, r, <<>>)
    /\ Asked(r, todo, Projection(r), {}) \/ Stopped(r, todo, {})
OutcomeOf(r, ways) == [type |-> "UniqueAutomationResponse", about |-> r, missions |-> ways]
Finished(r, ways, errors) ==
    /\ remaining[r] = <<>>
    /\ inProgress' = Restrict(inProgress, DOMAIN inProgress \ {r})
    /\ UNCHANGED <<remaining, expected, nextId>>
    /\ SentAfter(errors, OutcomeOf(r, ways))
Goes(r, proj, ways, errors) ==
    \/ Finished(r, ways, errors)
    \/ /\ remaining[r] # <<>>
       /\ inProgress' = [inProgress EXCEPT ![r] = ways]
       /\ Asked(r, remaining[r], proj, errors) \/ Stopped(r, remaining[r], errors)
Flown(i) ==
    LET r == expected[log[i].id] proj == Projected(projected[r], log[i]) IN
    /\ IsAnswer(log[i]) /\ IsExpected(log[i].id) /\ UNCHANGED states
    /\ log[i].count > 0 /\ projected' = [projected EXCEPT ![r] = proj]
    /\ Goes(r, proj, Extended(inProgress[r], log[i]), {})
LeftOut(i) ==
    LET r == expected[log[i].id] IN
    /\ IsAnswer(log[i]) /\ IsExpected(log[i].id) /\ UNCHANGED states
    /\ UNCHANGED projected
    /\ Goes(r, projected[r], inProgress[r], {Error(r, log[i].task)})
Ignored(i) ==
    IsAnswer(log[i]) /\ ~IsExpected(log[i].id) /\ News = {} /\ UNCHANGED planBuilder

(* The task services. *)
OfTask(t, i) == HasRead(t, i) /\ UNCHANGED <<planBuilder, summaries>>
OnlyPlanRequests == \A j \in News : IsPlanRequest(log'[j])
OfferOf(t, r) == [type |-> "TaskPlanOptions", about |-> r, task |-> t]
Idle == UNCHANGED taskState /\ News = {}
Restarts(t, i) ==
    LET r == log[i].about IN
    /\ IsRequest(log[i])
    /\ builtFor' = [builtFor EXCEPT ![t] = r]
    /\ implementing' = [implementing EXCEPT ![t] = {}]
    /\ pendingRoutes' = [pendingRoutes EXCEPT ![t] = Inside(t)]
    /\ plans' = [plans EXCEPT ![t] = {"inside"} \ Inside(t)]
    /\ \/ t \in Routed /\ (\E x : awaited' = [awaited EXCEPT ![t] = {x}]) /\ OnlyPlanRequests
       \/ t \notin Routed /\ awaited' = [awaited EXCEPT ![t] = {}] /\ Sent(OfferOf(t, r))
TakesOptions(t, i) ==
    /\ log[i].id \in awaited[t]
    /\ awaited' = [awaited EXCEPT ![t] = @ \ {log[i].id}]
    /\ pendingRoutes' = [pendingRoutes EXCEPT ![t] = @ \ log[i].routes]
    /\ UNCHANGED <<builtFor, implementing, plans>>
    /\ News = {} \/ Sent(OfferOf(t, builtFor[t]))
Takes(t, i) ==
    /\ IsAsk(log[i])
    /\ \E n : implementing' = [implementing EXCEPT ![t] = @ \cup {[id |-> n, request |-> i]}]
    /\ pendingRoutes' = [pendingRoutes EXCEPT ![t] = @ \cup RoutesOf(t)]
    /\ OnlyPlanRequests /\ UNCHANGED <<builtFor, awaited, plans>>
Implements(t, i, p) ==
    /\ p \in implementing[t]
    /\ implementing' = [implementing EXCEPT ![t] = @ \ {p}]
    /\ pendingRoutes' = [pendingRoutes EXCEPT ![t] = @ \ log[i].routes]
    /\ plans' = [plans EXCEPT ![t] = @ \cup Taken(t, i)]
    /\ UNCHANGED <<builtFor, awaited>>
    /\ \/ News = {}
       \/ \E n \in Nat : pendingRoutes'[t] = {} /\ Sent(Answer(t, p.request, n))
TaskKinds(t, i) ==
    \/ Idle \/ Restarts(t, i) \/ TakesOptions(t, i) \/ Takes(t, i)
    \/ \E p \in implementing[t] : Implements(t, i, p)
BuilderKinds(i) ==
    Learned(i) \/ Dropped(i) \/ Refused(i) \/ Accepted(i) \/ Flown(i) \/ LeftOut(i) \/ Ignored(i)
StepKinds ==
    \/ Reported \/ Requested \/ Summarized \/ RoutesPlanned
    \/ \E i \in DOMAIN log : OfBuilder(i) /\ BuilderKinds(i)
    \/ \E t \in Task : \E i \in DOMAIN log : OfTask(t, i) /\ TaskKinds(t, i)
-----------------------------------------------------------------------------
(***************************************************************************)
(* Every step is of one of these kinds.  First what handlers send.         *)
(***************************************************************************)
OutOf(out, errors) ==
    \/ out = <<>> /\ errors = {}
    \/ \E e : out = <<e>> /\ errors = {e}

LEMMA TwoSent ==
    ASSUME NEW e, NEW m
    PROVE  /\ IsSequence(Append(<<e>>, m)) /\ Len(Append(<<e>>, m)) = 2
           /\ Append(<<e>>, m)[1] = e /\ Append(<<e>>, m)[2] = m
<1>1. <<e>> \in Seq({e, m}) /\ m \in {e, m} /\ Len(<<e>>) = 1 /\ <<e>>[1] = e
    OBVIOUS
<1>2. /\ Append(<<e>>, m) \in Seq({e, m}) /\ Len(Append(<<e>>, m)) = 2
      /\ Append(<<e>>, m)[1] = e /\ Append(<<e>>, m)[2] = m
    OBVIOUS
<1> QED BY <1>2, SequenceIs

LEMMA SendsAfter ==
    ASSUME BusTyped, NEW s \in Service, NEW i \in DOMAIN log, IsNext(s, i),
           NEW out, NEW errors, OutOf(out, errors), NEW m, Handled(s, i, Append(out, m))
    PROVE  AnyStep /\ HasRead(s, i) /\ SentAfter(errors, m)
<1>1. CASE out = <<>> /\ errors = {}
    <2>1. Append(<<>>, m) = <<m>>
        OBVIOUS
    <2>2. AnyStep /\ HasRead(s, i) /\ Sent(m)
        BY <1>1, <2>1, HandledOne
    <2> QED BY <1>1, <2>2 DEF SentAfter, Sent
<1>2. ASSUME NEW e, out = <<e>>, errors = {e}
      PROVE  AnyStep /\ HasRead(s, i) /\ SentAfter(errors, m)
    <2>1. PICK both : both = Append(<<e>>, m)
        OBVIOUS
    <2>2. IsSequence(both) /\ Len(both) = 2 /\ both[1] = e /\ both[2] = m
        BY <2>1, TwoSent, Zenon
    <2>3. DOMAIN both = 1 .. 2
        BY <2>2, SequenceDomain
    <2>4. Handled(s, i, both)
        BY <1>2, <2>1, Zenon
    <2>5. /\ AnyStep /\ HasRead(s, i) /\ Len(log') = Len(log) + 2
          /\ \A j \in News : \E n \in DOMAIN both : j = Len(log) + n /\ log'[j] = both[n]
        <3>1. IsSequence(both)
            BY <2>2
        <3>2. /\ AnyStep /\ HasRead(s, i) /\ Len(log') = Len(log) + Len(both)
              /\ \A j \in News : \E n \in DOMAIN both : j = Len(log) + n /\ log'[j] = both[n]
            BY <2>4, <3>1, HandledSends
        <3> QED BY <2>2, <3>2
    <2>6. Len(log) \in Nat
        BY <2>5, Growing DEF AnyStep
    <2>7. News = {Len(log) + 1, Len(log) + 2}
        BY <2>5, <2>6 DEF News
    <2>8. log'[Len(log) + 1] = e /\ log'[Len(log) + 2] = m
        <3>1. \A n \in 1 .. 2 : n = 1 \/ n = 2
            OBVIOUS
        <3> QED BY <2>2, <2>3, <2>5, <2>6, <2>7, <3>1
    <2>9. Len(log) + 1 # Len(log) + 2
        BY <2>6
    <2> QED BY <1>2, <2>5, <2>7, <2>8, <2>9 DEF SentAfter
<1> QED BY <1>1, <1>2 DEF OutOf

LEMMA SendsOnly ==
    ASSUME BusTyped, NEW s \in Service, NEW i \in DOMAIN log, IsNext(s, i),
           NEW out, NEW errors, OutOf(out, errors), Handled(s, i, out)
    PROVE  AnyStep /\ HasRead(s, i) /\ SentOnly(errors)
<1>1. CASE out = <<>> /\ errors = {}
    <2>1. AnyStep /\ HasRead(s, i) /\ News = {}
        BY <1>1, HandledNone
    <2> QED BY <1>1, <2>1 DEF SentOnly
<1>2. ASSUME NEW e, out = <<e>>, errors = {e}
      PROVE  AnyStep /\ HasRead(s, i) /\ SentOnly(errors)
    <2>1. AnyStep /\ HasRead(s, i) /\ Sent(e)
        BY <1>2, HandledOne
    <2> QED BY <1>2, <2>1 DEF SentOnly, Sent
<1> QED BY <1>1, <1>2 DEF OutOf

(* The messages that services read. *)
LEMMA TypeTells ==
    ASSUME NEW m, IsMessage(m)
    PROVE  /\ m.type = "EntityState" => IsState(m)
           /\ m.type = "UniqueAutomationRequest" => IsRequest(m)
           /\ m.type = "TaskAssignmentSummary" => IsSummary(m)
           /\ m.type = "RoutePlanRequest" => IsPlanRequest(m)
           /\ m.type = "RoutePlanResponse" => IsPlanResponse(m)
           /\ m.type = "TaskPlanOptions" => IsOffer(m)
           /\ m.type = "TaskImplementationRequest" => IsAsk(m)
           /\ m.type = "TaskImplementationResponse" => IsAnswer(m)
           /\ m.type = "UniqueAutomationResponse" => IsOutcome(m)
           /\ m.type = "ServiceStatus" => IsError(m)
BY DEF IsMessage, IsState, IsRequest, IsSummary, IsPlanRequest, IsPlanResponse, IsOffer, IsAsk,
       IsAnswer, IsOutcome, IsError

LEMMA BusIsTyped ==
    ASSUME BusOK
    PROVE  BusTyped
BY DEF BusOK, BusTyped

(***************************************************************************)
(* The environment and the route planner.                                  *)
(***************************************************************************)
LEMMA StateKind ==
    ASSUME BusOK, NEW v \in Vehicle, ReportState(v)
    PROVE  AnyStep /\ Reported
<1> DEFINE m == [type |-> "EntityState", vehicle |-> v]
<1>1. IsState(m)
    BY DEF IsState
<1>2. log' = Append(log, m) /\ UNCHANGED <<read, planBuilder, tasks, summaries>>
    BY DEF ReportState, Publish
<1> HIDE DEF m
<1>3. AnyStep /\ Sent(m)
    BY <1>2, Appended, BusIsTyped
<1> QED BY <1>1, <1>2, <1>3 DEF Reported, OfOthers, Sent, tasks, taskState

LEMMA RequestKind ==
    ASSUME BusOK, NEW r \in Request, SendRequest(r)
    PROVE  AnyStep /\ Requested
<1> DEFINE m == [type |-> "UniqueAutomationRequest", about |-> r]
<1>1. IsRequest(m)
    BY DEF IsRequest
<1>2. log' = Append(log, m) /\ UNCHANGED <<read, planBuilder, tasks, summaries>>
    BY DEF SendRequest, Publish
<1> HIDE DEF m
<1>3. AnyStep /\ Sent(m)
    BY <1>2, Appended, BusIsTyped
<1> QED BY <1>1, <1>2, <1>3 DEF Requested, OfOthers, tasks, taskState

LEMMA SummaryKind ==
    ASSUME BusOK, NEW r \in Request, Summarize(r)
    PROVE  AnyStep /\ Summarized
<1>1. PICK s \in MaySummarize[r] :
          Publish([type |-> "TaskAssignmentSummary", about |-> r, assignments |-> s])
    BY DEF Summarize
<1> DEFINE m == [type |-> "TaskAssignmentSummary", about |-> r, assignments |-> s]
<1>2. IsSummary(m) /\ m.about = r
    BY DEF IsSummary
<1>3. log' = Append(log, m) /\ UNCHANGED <<read, planBuilder, tasks>>
    BY <1>1 DEF Publish
<1> HIDE DEF m
<1>4. AnyStep /\ Sent(m)
    BY <1>3, Appended, BusIsTyped
<1>5. IsNewSummary(m)
    BY <1>2 DEF IsNewSummary, Summarize
<1> QED BY <1>3, <1>4, <1>5 DEF Summarized, tasks, taskState

LEMMA PlannerKind ==
    ASSUME BusOK, PlanRoutes
    PROVE  AnyStep /\ RoutesPlanned
<1>1. PICK i \in DOMAIN log :
          /\ IsNext("RoutePlanner", i)
          /\ \/ Handled("RoutePlanner", i,
                  <<[type |-> "RoutePlanResponse", to |-> log[i].task, id |-> log[i].id,
                     routes |-> log[i].routes]>>)
             \/ Handled("RoutePlanner", i, <<>>)
          /\ UNCHANGED <<planBuilder, tasks, summaries, setting>>
    BY DEF PlanRoutes
<1>2. "RoutePlanner" \in Service
    BY ImplementationAssumption
<1>3. log[i].task \in Task
    <2>1. Address(log[i]) = "RoutePlanRequest" /\ IsMessage(log[i])
        BY <1>1, ImplementationAssumption DEF IsNext, Wants, BusOK
    <2>2. CASE "to" \in DOMAIN log[i]
        <3>1. log[i].to = "RoutePlanRequest"
            BY <2>1, <2>2 DEF Address
        <3>2. log[i].to \in Task
            BY <2>1, <2>2 DEF IsMessage, IsState, IsRequest, IsSummary, IsPlanRequest, IsPlanResponse,
               IsOffer, IsAsk, IsAnswer, IsOutcome, IsError
        <3> QED BY <3>1, <3>2, ImplementationAssumption DEF Types
    <2>3. CASE "to" \notin DOMAIN log[i]
        <3>1. log[i].type = "RoutePlanRequest"
            BY <2>1, <2>3 DEF Address
        <3> QED BY <2>1, <3>1, TypeTells DEF IsPlanRequest
    <2> QED BY <2>2, <2>3
<1> DEFINE m == [type |-> "RoutePlanResponse", to |-> log[i].task, id |-> log[i].id,
                 routes |-> log[i].routes]
<1>4. IsPlanResponse(m)
    BY <1>3 DEF IsPlanResponse
<1> HIDE DEF m
<1>5. CASE Handled("RoutePlanner", i, <<m>>)
    <2>1. AnyStep /\ HasRead("RoutePlanner", i) /\ Sent(m)
        BY <1>1, <1>2, <1>5, HandledOne, BusIsTyped
    <2> QED BY <1>1, <1>4, <2>1 DEF RoutesPlanned, OfOthers, Sent, tasks, taskState
<1>6. CASE Handled("RoutePlanner", i, <<>>)
    <2>1. AnyStep /\ HasRead("RoutePlanner", i) /\ News = {}
        BY <1>1, <1>2, <1>6, HandledNone, BusIsTyped
    <2> QED BY <1>1, <2>1 DEF RoutesPlanned, OfOthers, tasks, taskState
<1> QED BY <1>1, <1>5, <1>6 DEF m
-----------------------------------------------------------------------------
(***************************************************************************)
(* The PlanBuilderService.                                                 *)
(***************************************************************************)
LEMMA BuilderService == "PlanBuilder" \in Service
BY ImplementationAssumption

LEMMA SendNextKinds ==
    ASSUME BusTyped, NEW i \in DOMAIN log, IsNext("PlanBuilder", i), NEW r, NEW todo, NEW proj,
           NEW out, NEW errors, OutOf(out, errors),
           SendNextTaskImplementationRequest(i, r, todo, proj, out)
    PROVE  /\ AnyStep /\ HasRead("PlanBuilder", i)
           /\ Asked(r, todo, proj, errors) \/ Stopped(r, todo, errors)
<1> DEFINE a == Head(todo)
           m == [type |-> "TaskImplementationRequest", id |-> nextId, to |-> a.task,
                 about |-> r, vehicle |-> a.vehicle,
                 start |-> StartOf(proj, a), from |-> proj[a.vehicle].task]
<1>1. m = AskFor(r, a, proj)
    BY DEF AskFor
<1>2. CASE todo # <<>> /\ a.vehicle \in DOMAIN proj
    <2>1. /\ remaining' = [remaining EXCEPT ![r] = Tail(todo)]
          /\ expected' = WithEntry(expected, nextId, r) /\ nextId' = nextId + 1
          /\ Handled("PlanBuilder", i, Append(out, m))
        BY <1>2 DEF SendNextTaskImplementationRequest
    <2> HIDE DEF m
    <2>2. AnyStep /\ HasRead("PlanBuilder", i) /\ SentAfter(errors, m)
        BY <2>1, SendsAfter, BuilderService
    <2> QED BY <1>1, <1>2, <2>1, <2>2 DEF Asked
<1>3. CASE ~(todo # <<>> /\ a.vehicle \in DOMAIN proj)
    <2>1. /\ remaining' = [remaining EXCEPT ![r] = todo]
          /\ UNCHANGED <<expected, nextId>>
          /\ Handled("PlanBuilder", i, out)
        BY <1>3 DEF SendNextTaskImplementationRequest
    <2>2. AnyStep /\ HasRead("PlanBuilder", i) /\ SentOnly(errors)
        BY <2>1, SendsOnly, BuilderService
    <2> QED BY <2>1, <2>2 DEF Stopped
<1> QED BY <1>2, <1>3

LEMMA CheckNextKinds ==
    ASSUME BusTyped, NEW i \in DOMAIN log, IsNext("PlanBuilder", i), NEW r, NEW proj, NEW ways,
           NEW out, NEW errors, OutOf(out, errors), CheckNext(i, r, proj, ways, out)
    PROVE  AnyStep /\ HasRead("PlanBuilder", i) /\ Goes(r, proj, ways, errors)
<1>1. CASE /\ remaining[r] = <<>>
           /\ Handled("PlanBuilder", i,
                Append(out, [type |-> "UniqueAutomationResponse", about |-> r, missions |-> ways]))
           /\ inProgress' = Restrict(inProgress, DOMAIN inProgress \ {r})
           /\ UNCHANGED <<remaining, expected, nextId>>
    <2>1. Handled("PlanBuilder", i, Append(out, OutcomeOf(r, ways)))
        BY <1>1 DEF OutcomeOf
    <2>2. AnyStep /\ HasRead("PlanBuilder", i) /\ SentAfter(errors, OutcomeOf(r, ways))
        BY <2>1, SendsAfter, BuilderService
    <2> QED BY <1>1, <2>2 DEF Goes, Finished
<1>2. CASE /\ remaining[r] # <<>>
           /\ inProgress' = [inProgress EXCEPT ![r] = ways]
           /\ SendNextTaskImplementationRequest(i, r, remaining[r], proj, out)
    <2>1. /\ AnyStep /\ HasRead("PlanBuilder", i)
          /\ Asked(r, remaining[r], proj, errors) \/ Stopped(r, remaining[r], errors)
        BY <1>2, SendNextKinds
    <2> QED BY <1>2, <2>1 DEF Goes
<1> QED BY <1>1, <1>2 DEF CheckNext

LEMMA SummaryReadKinds ==
    ASSUME BusOK, NEW i \in DOMAIN log, IsNext("PlanBuilder", i), HandleTaskAssignmentSummary(i)
    PROVE  AnyStep /\ HasRead("PlanBuilder", i) /\ (Accepted(i) \/ Refused(i))
<1> DEFINE r == log[i].about
           todo == log[i].assignments
<1>1. IsSummary(log[i])
    BY TypeTells DEF BusOK, HandleTaskAssignmentSummary
<1>2. CASE Refuse(i, r)
    <2>1. AnyStep /\ HasRead("PlanBuilder", i) /\ Sent(Error(r, NoTask))
        BY <1>2, HandledOne, BusIsTyped, BuilderService DEF Refuse
    <2> QED BY <1>1, <1>2, <2>1 DEF Refused, Refuse
<1>3. CASE /\ projected' = [projected EXCEPT ![r] = Projection(r)]
           /\ inProgress' = WithEntry(inProgress, r, <<>>)
           /\ SendNextTaskImplementationRequest(i, r, todo, Projection(r), <<>>)
           /\ UNCHANGED <<states, requests>>
    <2>1. OutOf(<<>>, {})
        BY DEF OutOf
    <2>2. /\ AnyStep /\ HasRead("PlanBuilder", i)
          /\ Asked(r, todo, Projection(r), {}) \/ Stopped(r, todo, {})
        BY <1>3, <2>1, SendNextKinds, BusIsTyped
    <2> QED BY <1>1, <1>3, <2>2 DEF Accepted
<1> QED BY <1>2, <1>3 DEF HandleTaskAssignmentSummary, Projection

LEMMA AnswerReadKinds ==
    ASSUME BusOK, NEW i \in DOMAIN log, IsNext("PlanBuilder", i), HandleTaskImplementationResponse(i)
    PROVE  AnyStep /\ HasRead("PlanBuilder", i) /\ (Flown(i) \/ LeftOut(i) \/ Ignored(i))
<1> DEFINE r == expected[log[i].id]
<1>1. IsAnswer(log[i])
    BY TypeTells DEF BusOK, HandleTaskImplementationResponse
<1>2. CASE IsExpected(log[i].id) /\ Implemented(i, r) /\ UNCHANGED <<states, requests>>
    <2>1. OutOf(<<>>, {})
        BY DEF OutOf
    <2>2. CheckNext(i, r, Projected(projected[r], log[i]), Extended(inProgress[r], log[i]), <<>>)
        BY <1>2 DEF Implemented
    <2>3. /\ AnyStep /\ HasRead("PlanBuilder", i)
          /\ Goes(r, Projected(projected[r], log[i]), Extended(inProgress[r], log[i]), {})
        BY <2>1, <2>2, CheckNextKinds, BusIsTyped
    <2> QED BY <1>1, <1>2, <2>3 DEF Flown, Implemented
<1>3. CASE IsExpected(log[i].id) /\ Skipped(i, r) /\ UNCHANGED <<states, requests>>
    <2>1. OutOf(<<Error(r, log[i].task)>>, {Error(r, log[i].task)})
        BY DEF OutOf
    <2>2. CheckNext(i, r, projected[r], inProgress[r], <<Error(r, log[i].task)>>)
        BY <1>3 DEF Skipped
    <2>3. /\ AnyStep /\ HasRead("PlanBuilder", i)
          /\ Goes(r, projected[r], inProgress[r], {Error(r, log[i].task)})
        BY <2>1, <2>2, CheckNextKinds, BusIsTyped
    <2> QED BY <1>1, <1>3, <2>3 DEF LeftOut, Skipped
<1>4. CASE ~IsExpected(log[i].id) /\ Handled("PlanBuilder", i, <<>>) /\ UNCHANGED planBuilder
    <2>1. AnyStep /\ HasRead("PlanBuilder", i) /\ News = {}
        BY <1>4, HandledNone, BusIsTyped, BuilderService
    <2> QED BY <1>1, <1>4, <2>1 DEF Ignored
<1> QED BY <1>2, <1>3, <1>4 DEF HandleTaskImplementationResponse

LEMMA BuilderStepKinds ==
    ASSUME BusOK, Build
    PROVE  AnyStep /\ \E i \in DOMAIN log : OfBuilder(i) /\ BuilderKinds(i)
<1>1. PICK i \in DOMAIN log :
          /\ IsNext("PlanBuilder", i)
          /\ \/ HandleEntityState(i) \/ HandleUniqueAutomationRequest(i)
             \/ HandleTaskAssignmentSummary(i) \/ HandleTaskImplementationResponse(i)
    BY DEF Build, PlanBuilderStep
<1>2. UNCHANGED <<taskState, summaries>>
    BY DEF Build, tasks, taskState
<1>3. CASE HandleEntityState(i)
    <2>1. AnyStep /\ HasRead("PlanBuilder", i) /\ News = {}
        BY <1>1, <1>3, HandledNone, BusIsTyped, BuilderService DEF HandleEntityState
    <2>2. IsState(log[i])
        BY <1>3, TypeTells DEF BusOK, HandleEntityState
    <2>3. Learned(i)
        BY <1>3, <2>1, <2>2 DEF Learned, HandleEntityState, missions
    <2> QED BY <1>2, <2>1, <2>3 DEF OfBuilder, BuilderKinds
<1>4. CASE HandleUniqueAutomationRequest(i)
    <2>1. AnyStep /\ HasRead("PlanBuilder", i) /\ News = {}
        BY <1>1, <1>4, HandledNone, BusIsTyped, BuilderService DEF HandleUniqueAutomationRequest
    <2>2. IsRequest(log[i])
        BY <1>4, TypeTells DEF BusOK, HandleUniqueAutomationRequest
    <2>3. Dropped(i)
        BY <1>4, <2>1, <2>2 DEF Dropped, HandleUniqueAutomationRequest
    <2> QED BY <1>2, <2>1, <2>3 DEF OfBuilder, BuilderKinds
<1>5. CASE HandleTaskAssignmentSummary(i)
    BY <1>1, <1>2, <1>5, SummaryReadKinds DEF OfBuilder, BuilderKinds
<1>6. CASE HandleTaskImplementationResponse(i)
    BY <1>1, <1>2, <1>6, AnswerReadKinds DEF OfBuilder, BuilderKinds
<1> QED BY <1>1, <1>3, <1>4, <1>5, <1>6
-----------------------------------------------------------------------------
(***************************************************************************)
(* The task services.                                                      *)
(***************************************************************************)
LEMMA TaskIsService ==
    ASSUME NEW t \in Task
    PROVE  /\ t \in Service /\ t # "PlanBuilder" /\ t # "RoutePlanner"
           /\ Subscription[t] = {"UniqueAutomationRequest", "UniqueAutomationResponse", t}
BY ImplementationAssumption

LEMMA RestartKinds ==
    ASSUME BusOK, TasksOK, NEW t \in Task, NEW i \in DOMAIN log, IsNext(t, i),
           TakeUniqueAutomationRequest(t, i)
    PROVE  AnyStep /\ HasRead(t, i) /\ TaskKinds(t, i)
<1> DEFINE r == log[i].about
<1>1. IsRequest(log[i])
    BY TypeTells DEF BusOK, TakeUniqueAutomationRequest
<1>2. CASE t \notin TasksOf[r]
    <2>1. Handled(t, i, <<>>) /\ UNCHANGED taskState
        BY <1>2 DEF TakeUniqueAutomationRequest, taskState
    <2>2. AnyStep /\ HasRead(t, i) /\ News = {}
        BY <2>1, HandledNone, BusIsTyped, TaskIsService
    <2> QED BY <2>1, <2>2 DEF TaskKinds, Idle
<1>3. CASE Restarted(t, r) /\ BuildTaskPlanOptions(t, i) /\ t \in Routed
    <2> DEFINE m == RoutePlanRequest(t, Inside(t))
    <2>1. /\ awaited' = [awaited EXCEPT ![t] = {nextRoute[t]}]
          /\ Handled(t, i, <<m>>)
        BY <1>3 DEF BuildTaskPlanOptions
    <2>2. IsPlanRequest(m)
        BY DEF IsPlanRequest, RoutePlanRequest
    <2> HIDE DEF m
    <2>3. AnyStep /\ HasRead(t, i) /\ Sent(m)
        BY <2>1, HandledOne, BusIsTyped, TaskIsService
    <2>4. OnlyPlanRequests
        BY <2>2, <2>3 DEF OnlyPlanRequests, Sent
    <2>5. Restarts(t, i)
        BY <1>1, <1>3, <2>1, <2>4 DEF Restarts, Restarted
    <2> QED BY <2>3, <2>5 DEF TaskKinds
<1>4. CASE Restarted(t, r) /\ BuildTaskPlanOptions(t, i) /\ t \notin Routed
    <2>1. /\ awaited' = [awaited EXCEPT ![t] = {}]
          /\ Handled(t, i, <<TaskPlanOptions(t)>>)
        BY <1>4 DEF BuildTaskPlanOptions
    <2>2. TaskPlanOptions(t) = OfferOf(t, builtFor'[t])
        BY DEF TaskPlanOptions, OfferOf
    <2>3. AnyStep /\ HasRead(t, i) /\ Sent(OfferOf(t, builtFor'[t]))
        BY <2>1, <2>2, HandledOne, BusIsTyped, TaskIsService
    <2>4. builtFor'[t] = r
        BY <1>4 DEF Restarted, TasksOK
    <2>5. Restarts(t, i)
        BY <1>1, <1>4, <2>1, <2>3, <2>4 DEF Restarts, Restarted
    <2> QED BY <2>3, <2>5 DEF TaskKinds
<1> QED BY <1>2, <1>3, <1>4 DEF TakeUniqueAutomationRequest
LEMMA OptionsRoutesKinds ==
    ASSUME BusOK, NEW t \in Task, NEW i \in DOMAIN log, IsNext(t, i), TakeOptionsRoutes(t, i)
    PROVE  AnyStep /\ HasRead(t, i) /\ TaskKinds(t, i)
<1> DEFINE m == [type |-> "TaskPlanOptions", about |-> builtFor[t], task |-> t]
<1>1. m = OfferOf(t, builtFor[t])
    BY DEF OfferOf
<1> HIDE DEF m
<1>2. Handled(t, i, <<m>>) \/ Handled(t, i, <<>>)
    BY DEF TakeOptionsRoutes, m
<1>3. AnyStep /\ HasRead(t, i) /\ (News = {} \/ Sent(OfferOf(t, builtFor[t])))
    <2>1. CASE Handled(t, i, <<m>>)
        BY <1>1, <2>1, HandledOne, BusIsTyped, TaskIsService
    <2>2. CASE Handled(t, i, <<>>)
        BY <2>2, HandledNone, BusIsTyped, TaskIsService
    <2> QED BY <1>2, <2>1, <2>2
<1>4. TakesOptions(t, i)
    BY <1>3 DEF TakesOptions, TakeOptionsRoutes
<1> QED BY <1>3, <1>4 DEF TaskKinds

LEMMA AskedKinds ==
    ASSUME BusOK, NEW t \in Task, NEW i \in DOMAIN log, IsNext(t, i), TakeTaskImplementationRequest(t, i)
    PROVE  AnyStep /\ HasRead(t, i) /\ TaskKinds(t, i)
<1> DEFINE m == RoutePlanRequest(t, RoutesOf(t))
<1>1. IsPlanRequest(m)
    BY DEF IsPlanRequest, RoutePlanRequest
<1>2. IsAsk(log[i])
    BY TypeTells DEF BusOK, TakeTaskImplementationRequest
<1> HIDE DEF m
<1>3. CASE builtFor[t] # NoRequest
    <2>1. /\ \E n : implementing' = [implementing EXCEPT ![t] = @ \cup {[id |-> n, request |-> i]}]
          /\ pendingRoutes' = [pendingRoutes EXCEPT ![t] = @ \cup RoutesOf(t)]
          /\ Handled(t, i, <<m>>)
          /\ UNCHANGED <<builtFor, awaited, plans>>
        BY <1>3 DEF TakeTaskImplementationRequest, m
    <2>2. AnyStep /\ HasRead(t, i) /\ Sent(m)
        BY <2>1, HandledOne, BusIsTyped, TaskIsService
    <2>3. OnlyPlanRequests
        BY <1>1, <2>2 DEF OnlyPlanRequests, Sent
    <2>4. Takes(t, i)
        BY <1>2, <2>1, <2>3 DEF Takes
    <2> QED BY <2>2, <2>4 DEF TaskKinds
<1>4. CASE builtFor[t] = NoRequest
    <2>1. Handled(t, i, <<>>) /\ UNCHANGED taskState
        BY <1>4 DEF TakeTaskImplementationRequest, taskState
    <2>2. AnyStep /\ HasRead(t, i) /\ News = {}
        BY <2>1, HandledNone, BusIsTyped, TaskIsService
    <2> QED BY <2>1, <2>2 DEF TaskKinds, Idle
<1> QED BY <1>3, <1>4

(* The reply of a task, if there is one, is the answer it was asked for. *)
LEMMA ImplementationKinds ==
    ASSUME BusOK, NEW t \in Task, NEW i \in DOMAIN log, IsNext(t, i), TakeImplementationRoutes(t, i)
    PROVE  AnyStep /\ HasRead(t, i) /\ TaskKinds(t, i)
<1>1. PICK p \in implementing[t] :
          /\ implementing' = [implementing EXCEPT ![t] = @ \ {p}]
          /\ pendingRoutes' = [pendingRoutes EXCEPT ![t] = @ \ log[i].routes]
          /\ plans' = [plans EXCEPT ![t] = @ \cup Taken(t, i)]
          /\ \/ /\ Taken(t, i) # {} /\ pendingRoutes'[t] = {}
                /\ \E count \in Lengths[t] : Handled(t, i, Reply(t, p.request, count))
             \/ /\ Taken(t, i) = {} \/ pendingRoutes'[t] # {}
                /\ Handled(t, i, <<>>)
          /\ UNCHANGED <<latest, open, builtFor, awaited, nextRoute>>
    BY DEF TakeImplementationRoutes
<1>2. CASE Handled(t, i, <<>>)
    <2>1. AnyStep /\ HasRead(t, i) /\ News = {}
        BY <1>2, HandledNone, BusIsTyped, TaskIsService
    <2> QED BY <1>1, <2>1 DEF TaskKinds, Implements
<1>3. ASSUME NEW n \in Nat, pendingRoutes'[t] = {}, Handled(t, i, <<Answer(t, p.request, n)>>)
      PROVE  AnyStep /\ HasRead(t, i) /\ TaskKinds(t, i)
    <2>1. AnyStep /\ HasRead(t, i) /\ Sent(Answer(t, p.request, n))
        BY <1>3, HandledOne, BusIsTyped, TaskIsService
    <2>2. Implements(t, i, p)
        BY <1>1, <1>3, <2>1 DEF Implements
    <2> QED BY <2>1, <2>2 DEF TaskKinds
<1>4. ASSUME NEW count \in Lengths[t]
      PROVE  \/ Reply(t, p.request, count) = <<>>
             \/ \E n \in Nat : Reply(t, p.request, count) = <<Answer(t, p.request, n)>>
    <2>1. count \in Nat /\ 0 \in Nat
        BY ImplementationAssumption
    <2>2. CASE log[p.request].vehicle \notin ConfiguredFor[t]
        BY <2>1, <2>2 DEF Reply
    <2>3. CASE log[p.request].vehicle \in ConfiguredFor[t] /\ count > 0
        BY <2>1, <2>3 DEF Reply
    <2>4. CASE log[p.request].vehicle \in ConfiguredFor[t] /\ ~(count > 0)
        BY <2>1, <2>4 DEF Reply
    <2> QED BY <2>2, <2>3, <2>4
<1> QED BY <1>1, <1>2, <1>3, <1>4

LEMMA TaskStepKinds ==
    ASSUME BusOK, TasksOK, NEW t \in Task, Implement(t)
    PROVE  AnyStep /\ \E i \in DOMAIN log : OfTask(t, i) /\ TaskKinds(t, i)
<1>1. PICK i \in DOMAIN log :
          /\ IsNext(t, i)
          /\ \/ TakeUniqueAutomationRequest(t, i) \/ TakeUniqueAutomationResponse(t, i)
             \/ TakeTaskImplementationRequest(t, i) \/ TakeRoutePlanResponse(t, i)
    BY DEF Implement, TaskServiceStep
<1>2. UNCHANGED <<planBuilder, summaries>>
    BY DEF Implement
<1>3. CASE TakeUniqueAutomationResponse(t, i) \/ IgnoreRoutes(t, i)
    <2>1. Handled(t, i, <<>>) /\ UNCHANGED taskState
        BY <1>3 DEF TakeUniqueAutomationResponse, IgnoreRoutes, tasks, taskState
    <2>2. AnyStep /\ HasRead(t, i) /\ News = {}
        BY <1>1, <2>1, HandledNone, BusIsTyped, TaskIsService
    <2> QED BY <1>2, <2>1, <2>2 DEF OfTask, TaskKinds, Idle
<1>4. CASE TakeUniqueAutomationRequest(t, i)
    BY <1>1, <1>2, <1>4, RestartKinds DEF OfTask
<1>5. CASE TakeTaskImplementationRequest(t, i)
    BY <1>1, <1>2, <1>5, AskedKinds DEF OfTask
<1>6. CASE TakeOptionsRoutes(t, i)
    BY <1>1, <1>2, <1>6, OptionsRoutesKinds DEF OfTask
<1>7. CASE TakeImplementationRoutes(t, i)
    BY <1>1, <1>2, <1>7, ImplementationKinds DEF OfTask
<1> QED BY <1>1, <1>3, <1>4, <1>5, <1>6, <1>7 DEF TakeRoutePlanResponse

LEMMA Kinds ==
    ASSUME BusOK, TasksOK, [Next]_vars
    PROVE  AnyStep /\ StepKinds
<1>1. CASE UNCHANGED vars
    <2>1. UNCHANGED <<log, read, planBuilder, tasks, summaries>>
        BY <1>1 DEF vars, bus
    <2>2. LogGrown /\ News = {}
        BY <2>1, SendingNone DEF BusOK
    <2>3. AnyStep
        <3>1. /\ read' = read /\ read \in [Service -> Nat] /\ \A s \in Service : read[s] \in Nat
              /\ log' = log /\ \A s \in Service : read[s] <= Len(log)
            BY <2>1 DEF BusOK
        <3> QED BY <2>2, <3>1 DEF AnyStep
    <2>4. Reported
        BY <2>1, <2>2 DEF Reported, OfOthers, tasks, taskState
    <2> QED BY <2>3, <2>4 DEF StepKinds
<1>2. ASSUME NEW v \in Vehicle, ReportState(v) PROVE AnyStep /\ StepKinds
    BY <1>2, StateKind DEF StepKinds
<1>3. ASSUME NEW r \in Request, SendRequest(r) PROVE AnyStep /\ StepKinds
    BY <1>3, RequestKind DEF StepKinds
<1>4. ASSUME NEW r \in Request, Summarize(r) PROVE AnyStep /\ StepKinds
    BY <1>4, SummaryKind DEF StepKinds
<1>5. CASE PlanRoutes
    BY <1>5, PlannerKind DEF StepKinds
<1>6. CASE Build
    BY <1>6, BuilderStepKinds DEF StepKinds
<1>7. ASSUME NEW t \in Task, Implement(t) PROVE AnyStep /\ StepKinds
    BY <1>7, TaskStepKinds DEF StepKinds
<1> QED BY <1>1, <1>2, <1>3, <1>4, <1>5, <1>6, <1>7 DEF Next
-----------------------------------------------------------------------------
(***************************************************************************)
(* What the missions of a request have to do with its assignments, when    *)
(* one more is implemented, left out or asked for.                         *)
(***************************************************************************)
IsLonger(new, s, e) ==
    /\ IsSequence(new) /\ Len(new) = Len(s) + 1 /\ Len(s) \in Nat
    /\ \A i \in 1 .. Len(s) : new[i] = s[i]
    /\ new[Len(s) + 1] = e
LEMMA AppendIs ==
    ASSUME NEW s, IsSequence(s), NEW e
    PROVE  IsLonger(Append(s, e), s, e)
<1> DEFINE S == {s[i] : i \in 1 .. Len(s)} \cup {e}
           new == Append(s, e)
<1>1. s \in Seq(S) /\ e \in S
    <2>1. (\A i \in 1 .. Len(s) : s[i] \in S) /\ e \in S
        OBVIOUS
    <2> HIDE DEF S
    <2> QED BY <2>1, SequenceOf
<1> HIDE DEF S
<1>2. /\ new \in Seq(S) /\ Len(new) = Len(s) + 1
      /\ \A i \in 1 .. Len(s) : new[i] = s[i]
      /\ new[Len(s) + 1] = e
    BY <1>1, AppendProperties
<1> HIDE DEF new
<1>3. IsLonger(new, s, e)
    BY <1>2, SequenceIs DEF IsSequence, IsLonger
<1> QED BY <1>3 DEF new

LEMMA WayKept ==
    ASSUME NEW s, IsAssignment(s), NEW n \in 1 .. Len(s), NEW v, NEW skip, NEW way,
           IsWayOf(way, s, n - 1, v, skip), ~IsDone(s, n, v, skip)
    PROVE  IsWayOf(way, s, n, v, skip)
<1>1. Len(s) \in Nat /\ n \in Nat /\ n <= Len(s) /\ n - 1 \in Nat
    BY DEF IsAssignment, IsSequence
<1>2. \A k \in 1 .. n : k \in 1 .. n - 1 \/ k = n
    BY <1>1
<1>3. \A k \in 1 .. n - 1 : k \in 1 .. n /\ k \in 1 .. Len(s)
    BY <1>1
<1>4. \A k \in 1 .. n : k \in 1 .. Len(s)
    BY <1>1
<1>5. ASSUME NEW x \in 1 .. Len(way), NEW k \in 1 .. n, s[k].task = way[x].task
      PROVE  k \in 1 .. n - 1
    <2>1. PICK j \in 1 .. n - 1 : s[j].task = way[x].task
        BY DEF IsWayOf
    <2>2. j = k
        BY <1>3, <1>4, <1>5, <2>1 DEF IsAssignment
    <2> QED BY <2>1, <2>2
<1>6. /\ IsSequence(way)
      /\ \A x \in 1 .. Len(way) : \E k \in 1 .. n : s[k].task = way[x].task /\ IsDone(s, k, v, skip)
    BY <1>3 DEF IsWayOf
<1>7. \A k \in 1 .. n : IsDone(s, k, v, skip) => \E x \in 1 .. Len(way) : way[x].task = s[k].task
    BY <1>2 DEF IsWayOf
<1>8. \A x, y \in 1 .. Len(way) : \A k, l \in 1 .. n :
           x < y /\ s[k].task = way[x].task /\ s[l].task = way[y].task => k < l
    BY <1>5 DEF IsWayOf
<1> QED BY <1>6, <1>7, <1>8 DEF IsWayOf

LEMMA WayExtended ==
    ASSUME NEW s, IsAssignment(s), NEW n \in 1 .. Len(s), NEW v, NEW skip, NEW way,
           IsWayOf(way, s, n - 1, v, skip), IsDone(s, n, v, skip),
           NEW e, e.task = s[n].task, NEW new, new = Append(way, e)
    PROVE  IsWayOf(new, s, n, v, skip)
<1>1. Len(s) \in Nat /\ n \in Nat /\ n <= Len(s) /\ n - 1 \in Nat
    BY DEF IsAssignment, IsSequence
<1>2. \A k \in 1 .. n : k \in 1 .. n - 1 \/ k = n
    BY <1>1
<1>3. \A k \in 1 .. n - 1 : k \in 1 .. n /\ k \in 1 .. Len(s) /\ k < n
    BY <1>1
<1>4. n \in 1 .. n /\ \A k \in 1 .. n : k \in 1 .. Len(s)
    BY <1>1
<1>5. /\ IsSequence(new) /\ Len(new) = Len(way) + 1 /\ Len(way) \in Nat
      /\ \A i \in 1 .. Len(way) : new[i] = way[i]
      /\ new[Len(way) + 1] = e
    <2>1. IsSequence(way)
        BY DEF IsWayOf
    <2>2. IsLonger(Append(way, e), way, e)
        BY <2>1, AppendIs, Zenon
    <2>3. IsLonger(new, way, e)
        BY <2>2
    <2> QED BY ONLY <2>3 DEF IsLonger
<1>6. \A x \in 1 .. Len(new) : x \in 1 .. Len(way) \/ x = Len(way) + 1
    BY <1>5
<1>7. \A x \in 1 .. Len(way) : x \in 1 .. Len(new) /\ x < Len(way) + 1
    BY <1>5
<1>8. Len(way) + 1 \in 1 .. Len(new)
    BY <1>5
<1>9. ASSUME NEW x \in 1 .. Len(way), NEW k \in 1 .. n, s[k].task = new[x].task
      PROVE  k \in 1 .. n - 1 /\ s[k].task = way[x].task
    <2>1. s[k].task = way[x].task
        BY <1>5, <1>9
    <2>2. PICK j \in 1 .. n - 1 : s[j].task = way[x].task
        BY DEF IsWayOf
    <2>3. j = k
        BY <1>3, <1>4, <2>1, <2>2 DEF IsAssignment
    <2> QED BY <2>1, <2>2, <2>3
<1>10. ASSUME NEW k \in 1 .. n, s[k].task = new[Len(way) + 1].task
       PROVE  k = n
    BY <1>4, <1>5, <1>10 DEF IsAssignment
<1>11. ASSUME NEW x \in 1 .. Len(new)
       PROVE  \E k \in 1 .. n : s[k].task = new[x].task /\ IsDone(s, k, v, skip)
    <2>1. CASE x \in 1 .. Len(way)
        BY <1>3, <1>5, <2>1 DEF IsWayOf
    <2>2. CASE x = Len(way) + 1
        BY <1>4, <1>5, <2>2
    <2> QED BY <1>6, <2>1, <2>2
<1>12. ASSUME NEW k \in 1 .. n, IsDone(s, k, v, skip)
       PROVE  \E x \in 1 .. Len(new) : new[x].task = s[k].task
    <2>1. CASE k = n
        BY <1>5, <1>8, <2>1
    <2>2. CASE k \in 1 .. n - 1
        <3>1. PICK x \in 1 .. Len(way) : way[x].task = s[k].task
            BY <1>12, <2>2 DEF IsWayOf
        <3> QED BY <1>5, <1>7, <3>1
    <2> QED BY <1>2, <2>1, <2>2
<1>13. ASSUME NEW x \in 1 .. Len(new), NEW y \in 1 .. Len(new), NEW k \in 1 .. n, NEW l \in 1 .. n,
              x < y, s[k].task = new[x].task, s[l].task = new[y].task
       PROVE  k < l
    <2>1. x \in 1 .. Len(way)
        BY <1>5, <1>13
    <2>2. k \in 1 .. n - 1 /\ s[k].task = way[x].task
        BY <1>9, <1>13, <2>1
    <2>3. CASE y \in 1 .. Len(way)
        <3>1. l \in 1 .. n - 1 /\ s[l].task = way[y].task
            BY <1>9, <1>13, <2>3
        <3> QED BY <1>13, <2>1, <2>2, <2>3, <3>1 DEF IsWayOf
    <2>4. CASE y = Len(way) + 1
        <3>1. l = n
            BY <1>10, <1>13, <2>4
        <3> QED BY <1>3, <2>2, <3>1
    <2> QED BY <1>6, <2>3, <2>4
<1> QED BY <1>5, <1>11, <1>12, <1>13 DEF IsWayOf

LEMMA WaySkipped ==
    ASSUME NEW s, NEW d \in Nat, NEW v, NEW skip, NEW way, IsWayOf(way, s, d, v, skip),
           NEW t, \A k \in 1 .. d : s[k].task # t
    PROVE  IsWayOf(way, s, d, v, skip \cup {t})
<1>1. \A k \in 1 .. d : IsDone(s, k, v, skip \cup {t}) <=> IsDone(s, k, v, skip)
    BY DEF IsDone
<1> QED BY <1>1 DEF IsWayOf
(* The start: no mission, everything to do. *)
LEMMA ReadyAtStart ==
    ASSUME NEW s, IsAssignment(s), NEW V, V \subseteq Vehicle,
           NEW proj, proj = [v \in V |-> [last |-> 0, task |-> NoTask]]
    PROVE  IsReady(<<>>, proj, s, s, {})
<1>1. DOMAIN <<>> = {} /\ IsSequence(<<>>) /\ Len(<<>>) = 0
    BY NoneOrOne
<1>2. Len(s) \in Nat /\ Len(s) - Len(s) = 0 /\ IsSequence(s)
    BY DEF IsAssignment, IsSequence
<1>3. AreProjected(<<>>, proj)
    BY <1>1 DEF AreProjected
<1>4. IsRest(s, s)
    <2>1. \A k \in 1 .. Len(s) : Len(s) - Len(s) + k = k
        BY <1>2
    <2> QED BY <1>2, <2>1 DEF IsRest
<1>5. AreOf(<<>>, s, 0, {})
    <2>1. \A v : MissionOf(<<>>, v) = <<>>
        BY <1>1 DEF MissionOf
    <2>2. \A v : IsWayOf(<<>>, s, 0, v, {})
        BY <1>1 DEF IsWayOf
    <2> QED BY <2>1, <2>2 DEF AreOf
<1> QED BY <1>2, <1>3, <1>4, <1>5 DEF IsReady

(* What remains after the first of it. *)
LEMMA RestOfRest ==
    ASSUME NEW s, IsAssignment(s), NEW rest, IsRest(rest, s), rest # <<>>,
           NEW left, left = Tail(rest)
    PROVE  /\ IsRest(left, s) /\ Len(left) < Len(s)
           /\ Len(s) - Len(left) - 1 = Len(s) - Len(rest)
           /\ Head(rest) = s[Len(s) - Len(left)]
           /\ Len(s) - Len(left) \in 1 .. Len(s)
<1> DEFINE S == {rest[i] : i \in 1 .. Len(rest)}
<1>1. rest \in Seq(S)
    <2>1. IsSequence(rest) /\ \A i \in 1 .. Len(rest) : rest[i] \in S
        BY DEF IsRest
    <2> HIDE DEF S
    <2> QED BY <2>1, SequenceOf
<1> HIDE DEF S
<1>2. /\ Head(rest) = rest[1] /\ left \in Seq(S) /\ Len(left) = Len(rest) - 1
      /\ \A i \in 1 .. Len(rest) - 1 : left[i] = rest[i + 1]
      /\ Len(rest) \in Nat /\ Len(rest) # 0
    BY <1>1, HeadTailProperties, EmptySeq
<1>3. Len(s) \in Nat /\ Len(rest) <= Len(s) /\ \A k \in 1 .. Len(rest) : rest[k] = s[Len(s) - Len(rest) + k]
    BY DEF IsAssignment, IsSequence, IsRest
<1>4. IsSequence(left)
    BY <1>2, SequenceIs
<1>5. ASSUME NEW k \in 1 .. Len(left)
      PROVE  left[k] = s[Len(s) - Len(left) + k]
    <2>1. k + 1 \in 1 .. Len(rest) /\ Len(s) - Len(rest) + (k + 1) = Len(s) - Len(left) + k
        BY <1>2, <1>3
    <2> QED BY <1>2, <1>3, <2>1
<1>6. /\ Len(left) < Len(s) /\ Len(left) <= Len(s) /\ Len(s) - Len(left) - 1 = Len(s) - Len(rest)
      /\ Len(s) - Len(left) \in 1 .. Len(s)
      /\ 1 \in 1 .. Len(rest) /\ Len(s) - Len(rest) + 1 = Len(s) - Len(left)
    BY <1>2, <1>3
<1>7. Head(rest) = s[Len(s) - Len(left)]
    BY <1>2, <1>3, <1>6
<1> QED BY <1>4, <1>5, <1>6, <1>7 DEF IsRest

(* The next of it is asked for. *)
IsNextAsk(a, rest, proj) ==
    LET h == Head(rest) IN
    /\ h.vehicle \in DOMAIN proj
    /\ a.vehicle = h.vehicle /\ a.to = h.task
    /\ a.start = proj[h.vehicle].last + 1 /\ a.from = proj[h.vehicle].task
LEMMA AskedWhenReady ==
    ASSUME NEW s, IsAssignment(s), NEW ways, NEW proj, NEW rest, NEW skip,
           IsReady(ways, proj, rest, s, skip), rest # <<>>, NEW a, IsNextAsk(a, rest, proj)
    PROVE  /\ IsInHand(ways, proj, Tail(rest), {a}, s, skip)
           /\ a.vehicle \in Vehicle /\ a.to \in Task
<1>1. PICK left : left = Tail(rest)
    OBVIOUS
<1>2. AreProjected(ways, proj) /\ IsRest(rest, s) /\ AreOf(ways, s, Len(s) - Len(rest), skip)
    BY DEF IsReady
<1>3. /\ IsRest(left, s) /\ Len(left) < Len(s)
      /\ Len(s) - Len(left) - 1 = Len(s) - Len(rest)
      /\ Head(rest) = s[Len(s) - Len(left)]
      /\ Len(s) - Len(left) \in 1 .. Len(s)
    BY <1>1, <1>2, RestOfRest
<1>4. IsFrom(a, proj)
    BY DEF IsFrom, IsNextAsk
<1>5. IsAsked(ways, proj, left, a, s, skip)
    BY <1>2, <1>3, <1>4 DEF IsAsked, IsNextAsk
<1>6. a.vehicle \in Vehicle /\ a.to \in Task
    BY <1>3 DEF IsAssignment, IsNextAsk
<1> QED BY <1>1, <1>5, <1>6 DEF IsInHand

(* What was asked for is left out. *)
LEMMA ReadyWithout ==
    ASSUME NEW s, IsAssignment(s), NEW ways, NEW proj, NEW rest, NEW skip, NEW a,
           IsAsked(ways, proj, rest, a, s, skip)
    PROVE  IsReady(ways, proj, rest, s, skip \cup {a.to})
<1> DEFINE n == Len(s) - Len(rest)
<1>1. /\ AreProjected(ways, proj) /\ IsRest(rest, s) /\ Len(rest) < Len(s)
      /\ a.to = s[n].task /\ AreOf(ways, s, n - 1, skip)
    BY DEF IsAsked
<1>2. Len(s) \in Nat /\ Len(rest) \in Nat
    BY <1>1 DEF IsAssignment, IsRest, IsSequence
<1>3. n \in 1 .. Len(s) /\ n - 1 \in Nat /\ \A k \in n + 1 .. Len(s) : k \in n - 1 + 1 .. Len(s) /\ k \in 1 .. Len(s) /\ k # n
    BY <1>1, <1>2
<1>4. \A k \in 1 .. n - 1 : k \in 1 .. Len(s) /\ k # n
    BY <1>2, <1>3
<1> HIDE DEF n
<1>5. \A k \in 1 .. n - 1 : s[k].task # a.to
    BY <1>1, <1>3, <1>4 DEF IsAssignment
<1>6. \A k \in n + 1 .. Len(s) : s[k].task # a.to
    BY <1>1, <1>3 DEF IsAssignment
<1>7. ASSUME NEW v \in Vehicle
      PROVE  IsWayOf(MissionOf(ways, v), s, n, v, skip \cup {a.to})
    <2>1. IsWayOf(MissionOf(ways, v), s, n - 1, v, skip)
        BY <1>1 DEF AreOf
    <2>2. IsWayOf(MissionOf(ways, v), s, n - 1, v, skip \cup {a.to})
        BY <1>3, <1>5, <2>1, WaySkipped
    <2>3. ~IsDone(s, n, v, skip \cup {a.to})
        BY <1>1 DEF IsDone
    <2> QED BY <1>3, <2>2, <2>3, WayKept
<1>8. \A k \in n + 1 .. Len(s) : s[k].task \notin skip \cup {a.to}
    BY <1>1, <1>3, <1>6 DEF AreOf
<1>9. AreOf(ways, s, n, skip \cup {a.to})
    BY <1>7, <1>8 DEF AreOf
<1> QED BY <1>1, <1>9 DEF IsReady, n

(* The end. *)
LEMMA ReadyAtEnd ==
    ASSUME NEW s, IsAssignment(s), NEW ways, NEW proj, NEW skip, IsReady(ways, proj, <<>>, s, skip)
    PROVE  AreOf(ways, s, Len(s), skip) /\ AreLinked(ways)
<1>1. Len(<<>>) = 0 /\ Len(s) \in Nat /\ Len(s) - 0 = Len(s)
    BY NoneOrOne DEF IsAssignment, IsSequence
<1>2. AreOf(ways, s, Len(s), skip)
    BY <1>1 DEF IsReady
<1>3. AreLinked(ways)
    BY DEF IsReady, AreProjected, EndsAt, AreLinked
<1> QED BY <1>2, <1>3

(* A mission goes on from where it ends.                                   *)
LEMMA GoesOn ==
    ASSUME NEW way, NEW p, p.last \in Nat, IsSequence(way),
           \/ EndsAt(way, p)
           \/ Len(way) = 0 /\ p.last = 0 /\ p.task = NoTask,
           NEW e, e.first = p.last + 1, e.from = p.task, e.count \in Nat,
           NEW q, q.last + 1 = e.first + e.count, q.task = e.task
    PROVE  EndsAt(Append(way, e), q)
<1> DEFINE new == Append(way, e)
           n == Len(way)
<1>1. IsLonger(new, way, e)
    BY AppendIs
<1> HIDE DEF new
<1>2. /\ IsSequence(new) /\ Len(new) = n + 1 /\ n \in Nat
      /\ \A k \in 1 .. n : new[k] = way[k]
      /\ new[n + 1] = e
    BY <1>1 DEF IsLonger
<1>3. DOMAIN new = 1 .. n + 1
    BY <1>2, SequenceDomain
<1>4. DOMAIN way = 1 .. n
    BY SequenceDomain
<1>5. \A k \in 1 .. n + 1 : k \in 1 .. n \/ k = n + 1
    BY <1>2
<1>6. \A k \in 1 .. n : way[k].first \in Nat /\ way[k].count \in Nat
    <2>1. CASE EndsAt(way, p)
        BY <2>1 DEF EndsAt
    <2>2. CASE n = 0
        BY <2>2
    <2> QED BY <2>1, <2>2
<1>7. IsLinked(way)
    <2>1. CASE EndsAt(way, p)
        BY <2>1 DEF EndsAt
    <2>2. CASE n = 0
        BY <1>4, <2>2 DEF IsLinked
    <2> QED BY <2>1, <2>2
<1>8. \A k \in 1 .. n + 1 : new[k].first \in Nat /\ new[k].count \in Nat
    <2>1. e.first \in Nat /\ e.count \in Nat
        OBVIOUS
    <2> QED BY <1>2, <1>5, <1>6, <2>1
<1>9. IsLinked(new)
    <2> SUFFICES ASSUME NEW k \in 1 .. n + 1
                 PROVE  IF k = 1 THEN new[k].first = 1 /\ new[k].from = NoTask
                        ELSE /\ new[k].first = new[k - 1].first + new[k - 1].count
                             /\ new[k].from = new[k - 1].task
        BY <1>3 DEF IsLinked
    <2>1. CASE k \in 1 .. n /\ k = 1
        BY <1>2, <1>4, <1>7, <2>1 DEF IsLinked
    <2>2. CASE k \in 1 .. n /\ k # 1
        <3>1. k - 1 \in 1 .. n
            BY <1>2, <2>2
        <3>2. new[k] = way[k] /\ new[k - 1] = way[k - 1]
            BY <1>2, <2>2, <3>1
        <3>3. way[k].first = way[k - 1].first + way[k - 1].count /\ way[k].from = way[k - 1].task
            BY <1>4, <1>7, <2>2 DEF IsLinked
        <3> QED BY <2>2, <3>2, <3>3
    <2>3. CASE k = n + 1 /\ n = 0
        <3>1. p.last = 0 /\ p.task = NoTask
            BY <2>3 DEF EndsAt
        <3>2. k = 1 /\ new[k] = e
            BY <1>2, <2>3
        <3>3. e.first = 1 /\ e.from = NoTask
            BY <3>1
        <3> QED BY <3>2, <3>3
    <2>4. CASE k = n + 1 /\ n # 0
        <3>1. k # 1 /\ k - 1 = n /\ n \in 1 .. n
            BY <1>2, <2>4
        <3>2. new[k] = e /\ new[n] = way[n]
            BY <1>2, <2>4, <3>1
        <3>3. e.first = way[n].first + way[n].count /\ e.from = way[n].task
            BY <2>4 DEF EndsAt
        <3> QED BY <3>1, <3>2, <3>3
    <2> QED BY <1>5, <2>1, <2>2, <2>3, <2>4
<1>10. Len(new) # 0 /\ new[Len(new)] = e
    BY <1>2
<1>11. EndsAt(new, q)
    BY <1>2, <1>8, <1>9, <1>10 DEF EndsAt
<1> QED BY <1>11 DEF new

(* What was asked for is implemented.                                      *)
LEMMA ReadyWith ==
    ASSUME NEW s, IsAssignment(s), NEW ways, NEW proj, NEW rest, NEW skip, NEW a,
           IsAsked(ways, proj, rest, a, s, skip), NEW m, IsAnswerTo(m, a),
           m.count \in Nat, m.count > 0
    PROVE  IsReady(Extended(ways, m), Projected(proj, m), rest, s, skip)
<1> DEFINE n == Len(s) - Len(rest)
           v == a.vehicle
           e == [task |-> m.task, from |-> m.from, first |-> m.start, count |-> m.count]
           q == [last |-> m.start + m.count - 1, task |-> m.task]
           way == MissionOf(ways, v)
           new == Extended(ways, m)
           there == Projected(proj, m)
<1>1. /\ AreProjected(ways, proj) /\ IsRest(rest, s) /\ Len(rest) < Len(s)
      /\ v \in DOMAIN proj /\ m.start = proj[v].last + 1 /\ m.from = proj[v].task
      /\ v = s[n].vehicle /\ m.task = s[n].task /\ AreOf(ways, s, n - 1, skip)
      /\ m.vehicle = v /\ proj[v].last \in Nat
    BY DEF IsAsked, IsFrom, IsAnswerTo, AreProjected
<1>2. Len(s) \in Nat /\ Len(rest) \in Nat
    BY <1>1 DEF IsAssignment, IsRest, IsSequence
<1>3. /\ n \in 1 .. Len(s) /\ n - 1 + 1 = n
      /\ \A k \in n + 1 .. Len(s) : k \in n - 1 + 1 .. Len(s)
      /\ n \in n - 1 + 1 .. Len(s)
    BY <1>1, <1>2
<1>4. /\ DOMAIN new = {v} \cup DOMAIN ways /\ new[v] = Append(way, e)
      /\ \A w \in DOMAIN ways : w # v => new[w] = ways[w]
    BY <1>1 DEF Extended, WithEntry
<1>5. /\ DOMAIN there = DOMAIN proj /\ there[v] = q
      /\ \A w \in DOMAIN proj : w # v => there[w] = proj[w]
    BY <1>1 DEF Projected
<1> HIDE DEF new, there, n
<1>6. v \in Vehicle
    BY <1>1 DEF AreProjected
<1>7. IsSequence(way)
    BY <1>1, <1>6 DEF AreOf, IsWayOf
<1>8. EndsAt(Append(way, e), q)
    <2>1. EndsAt(way, proj[v]) \/ (Len(way) = 0 /\ proj[v].last = 0 /\ proj[v].task = NoTask)
        <3>1. CASE v \in DOMAIN ways
            BY <1>1, <3>1 DEF AreProjected, MissionOf
        <3>2. CASE v \notin DOMAIN ways
            <4>1. way = <<>>
                BY <3>2 DEF MissionOf
            <4>2. Len(way) = 0
                BY <4>1, NoneOrOne
            <4> QED BY <1>1, <3>2, <4>2 DEF AreProjected
        <3> QED BY <3>1, <3>2
    <2>2. e.first = proj[v].last + 1 /\ e.from = proj[v].task /\ e.count \in Nat
        BY <1>1
    <2>3. q.last + 1 = e.first + e.count /\ q.task = e.task
        BY <1>1
    <2> HIDE DEF e, q, way
    <2> QED BY <1>1, <1>7, <2>1, <2>2, <2>3, GoesOn
<1>9. q.last \in Nat
    BY <1>1
<1>10. e.task = s[n].task
    BY <1>1
<1> HIDE DEF e, q, way
<1>11. AreProjected(new, there)
    <2>1. ASSUME NEW w \in DOMAIN there
          PROVE  /\ there[w].last \in Nat
                 /\ w \in DOMAIN new => EndsAt(new[w], there[w])
                 /\ w \notin DOMAIN new => there[w].last = 0 /\ there[w].task = NoTask
        <3>1. CASE w = v
            BY <1>4, <1>5, <1>8, <1>9, <3>1
        <3>2. CASE w # v
            BY <1>1, <1>4, <1>5, <2>1, <3>2 DEF AreProjected
        <3> QED BY <3>1, <3>2
    <2>2. DOMAIN new \subseteq DOMAIN there /\ DOMAIN there \subseteq Vehicle
        BY <1>1, <1>4, <1>5 DEF AreProjected
    <2> QED BY <2>1, <2>2 DEF AreProjected
<1>12. \A k \in n - 1 + 1 .. Len(s) : s[k].task \notin skip
    BY <1>1 DEF AreOf
<1>13. ASSUME NEW w \in Vehicle
       PROVE  IsWayOf(MissionOf(new, w), s, n, w, skip)
    <2>1. IsWayOf(MissionOf(ways, w), s, n - 1, w, skip)
        BY <1>1 DEF AreOf
    <2>2. CASE w = v
        <3>1. IsDone(s, n, w, skip)
            BY <1>1, <1>3, <1>12, <2>2 DEF IsDone
        <3>2. MissionOf(new, w) = Append(way, e)
            BY <1>4, <2>2 DEF MissionOf
        <3>3. IsWayOf(way, s, n - 1, w, skip)
            BY <2>1, <2>2 DEF way
        <3> QED BY <1>3, <1>10, <3>1, <3>2, <3>3, WayExtended
    <2>3. CASE w # v
        <3>1. MissionOf(new, w) = MissionOf(ways, w)
            BY <1>4, <2>3 DEF MissionOf
        <3>2. ~IsDone(s, n, w, skip)
            BY <1>1, <2>3 DEF IsDone
        <3>3. IsWayOf(MissionOf(ways, w), s, n, w, skip)
            BY <1>3, <2>1, <3>2, WayKept
        <3> QED BY <3>1, <3>3
    <2> QED BY <2>2, <2>3
<1>14. AreOf(new, s, n, skip)
    BY <1>3, <1>12, <1>13 DEF AreOf
<1> QED BY <1>1, <1>11, <1>14 DEF IsReady, n, new, there
-----------------------------------------------------------------------------
(***************************************************************************)
(* What services read, and what steps leave alone.                         *)
(***************************************************************************)
BuilderTypes ==
    {"EntityState", "UniqueAutomationRequest", "TaskAssignmentSummary", "TaskImplementationResponse"}

LEMMA BuilderWants ==
    ASSUME BusOK, NEW type \in BuilderTypes, NEW j \in Published(type)
    PROVE  Wants("PlanBuilder", j)
<1>1. IsMessage(log[j]) /\ log[j].type = type
    BY DEF BusOK, Published
<1>2. Address(log[j]) = type
    <2>1. CASE type = "EntityState"
        BY <1>1, <2>1, TypeTells DEF IsState, Address
    <2>2. CASE type = "UniqueAutomationRequest"
        BY <1>1, <2>2, TypeTells DEF IsRequest, Address
    <2>3. CASE type = "TaskAssignmentSummary"
        BY <1>1, <2>3, TypeTells DEF IsSummary, Address
    <2>4. CASE type = "TaskImplementationResponse"
        BY <1>1, <2>4, TypeTells DEF IsAnswer, Address
    <2> QED BY <2>1, <2>2, <2>3, <2>4 DEF BuilderTypes
<1> QED BY <1>2, ImplementationAssumption DEF Wants, BuilderTypes

LEMMA BuilderReads ==
    ASSUME BusOK, AnyStep, NEW i, HasRead("PlanBuilder", i), NEW type \in BuilderTypes
    PROVE  /\ ReadBy("PlanBuilder", type)'
                  = ReadBy("PlanBuilder", type) \cup {j \in {i} : log[j].type = type}
           /\ \A j \in Published(type) : j < i => j \in ReadBy("PlanBuilder", type)
           /\ i \notin ReadBy("PlanBuilder", type) /\ i \in DOMAIN log
<1>1. \A j \in Published(type) : Wants("PlanBuilder", j)
    BY BuilderWants
<1>2. i \in DOMAIN log /\ i \in Nat /\ read["PlanBuilder"] \in Nat /\ read["PlanBuilder"] < i
    BY BuilderService, OldMessages DEF HasRead, BusOK
<1>3. i \notin ReadBy("PlanBuilder", type)
    BY <1>2 DEF ReadBy
<1> QED BY <1>1, <1>2, <1>3, ReadByOne, BuilderService, BusIsTyped

LEMMA BuilderRests ==
    ASSUME BusOK, AnyStep, read'["PlanBuilder"] = read["PlanBuilder"], NEW type
    PROVE  ReadBy("PlanBuilder", type)' = ReadBy("PlanBuilder", type)
BY ReadByNone, BuilderService DEF BusOK

(* A task reads every request, and what it is asked for itself. *)
LEMMA TaskReads ==
    ASSUME BusOK, AnyStep, NEW t \in Task, NEW i, HasRead(t, i)
    PROVE  /\ ReadBy(t, "UniqueAutomationRequest")'
                  = ReadBy(t, "UniqueAutomationRequest")
                        \cup {j \in {i} : log[j].type = "UniqueAutomationRequest"}
           /\ \A j \in ReadBy(t, "UniqueAutomationRequest") : j < i /\ j \in Nat
           /\ i \in DOMAIN log /\ read[t] < i /\ read'[t] = i /\ i \in Nat /\ read[t] \in Nat
           /\ IsAsk(log[i]) => log[i].to = t
<1>1. \A j \in Published("UniqueAutomationRequest") : Wants(t, j)
    <2> SUFFICES ASSUME NEW j \in Published("UniqueAutomationRequest")
                 PROVE  Wants(t, j)
        OBVIOUS
    <2>1. IsRequest(log[j])
        BY TypeTells DEF BusOK, Published
    <2>2. Address(log[j]) = "UniqueAutomationRequest"
        BY <2>1 DEF IsRequest, Address
    <2> QED BY <2>2, TaskIsService DEF Wants
<1>2. i \in DOMAIN log /\ i \in Nat /\ read[t] \in Nat /\ read[t] < i /\ read'[t] = i
    BY TaskIsService, OldMessages DEF HasRead, BusOK
<1>3. \A j \in ReadBy(t, "UniqueAutomationRequest") : j < i /\ j \in Nat
    BY <1>2, OldMessages DEF ReadBy
<1>4. ASSUME IsAsk(log[i])
      PROVE  log[i].to = t
    <2>1. Address(log[i]) = log[i].to /\ log[i].to \in Task
        BY <1>4 DEF IsAsk, Address
    <2>2. log[i].to \in {"UniqueAutomationRequest", "UniqueAutomationResponse", t}
        BY <2>1, TaskIsService DEF HasRead, Wants
    <2> QED BY <2>1, <2>2, ImplementationAssumption DEF Types
<1> QED BY <1>1, <1>2, <1>3, <1>4, ReadByOne, TaskIsService, BusIsTyped

LEMMA TaskRests ==
    ASSUME BusOK, AnyStep, NEW t \in Task, read'[t] = read[t], NEW type
    PROVE  ReadBy(t, type)' = ReadBy(t, type)
BY ReadByNone, TaskIsService DEF BusOK

(* The others: what they publish, and whose state they leave alone. *)
OfWorld == Reported \/ Requested \/ Summarized \/ RoutesPlanned
BuilderAway ==
    /\ UNCHANGED <<states, projected, remaining, inProgress, expected, nextId>>
    /\ read'["PlanBuilder"] = read["PlanBuilder"]
    /\ Silent("TaskImplementationRequest") /\ Silent("UniqueAutomationResponse")
    /\ Silent("ServiceStatus")
TasksAway ==
    /\ UNCHANGED <<builtFor, awaited, implementing, pendingRoutes, plans>>
    /\ \A t \in Task : read'[t] = read[t]
    /\ Silent("TaskPlanOptions") /\ Silent("TaskImplementationResponse")

LEMMA WorldLeaves ==
    ASSUME BusOK, AnyStep, OfWorld
    PROVE  BuilderAway /\ TasksAway
<1>1. \A i \in News : IsState(log'[i]) \/ IsRequest(log'[i]) \/ IsSummary(log'[i]) \/ IsPlanResponse(log'[i])
    BY DEF OfWorld, Reported, Requested, Summarized, RoutesPlanned, Sent, IsNewSummary
<1>2. /\ Silent("TaskImplementationRequest") /\ Silent("UniqueAutomationResponse")
      /\ Silent("ServiceStatus") /\ Silent("TaskPlanOptions") /\ Silent("TaskImplementationResponse")
    BY <1>1 DEF Silent, IsState, IsRequest, IsSummary, IsPlanResponse
<1>3. UNCHANGED planBuilder /\ UNCHANGED taskState
    BY DEF OfWorld, Reported, Requested, Summarized, RoutesPlanned, OfOthers
<1>4. read'["PlanBuilder"] = read["PlanBuilder"] /\ \A t \in Task : read'[t] = read[t]
    <2>1. CASE UNCHANGED read
        BY <2>1
    <2>2. CASE \E i : HasRead("RoutePlanner", i)
        BY <2>2, BuilderService, TaskIsService DEF HasRead
    <2> QED BY <2>1, <2>2 DEF OfWorld, Reported, Requested, Summarized, RoutesPlanned
<1> QED BY <1>2, <1>3, <1>4 DEF BuilderAway, TasksAway, planBuilder, taskState

LEMMA TaskLeaves ==
    ASSUME BusOK, AnyStep, NEW t \in Task, NEW i, OfTask(t, i), TaskKinds(t, i)
    PROVE  /\ BuilderAway /\ Silent("UniqueAutomationRequest") /\ Silent("TaskAssignmentSummary")
           /\ \A x \in Task \ {t} : read'[x] = read[x]
           /\ \A k \in News : IsPlanRequest(log'[k]) \/ IsOffer(log'[k]) \/ IsAnswer(log'[k])
<1>1. \A k \in News : IsPlanRequest(log'[k]) \/ IsOffer(log'[k]) \/ IsAnswer(log'[k])
    <2>1. CASE Idle
        BY <2>1 DEF Idle
    <2>2. CASE Restarts(t, i)
        <3>1. IsOffer(OfferOf(t, log[i].about))
            BY DEF IsOffer, OfferOf
        <3> QED BY <2>2, <3>1 DEF Restarts, OnlyPlanRequests, Sent
    <2>3. CASE TakesOptions(t, i)
        <3>1. IsOffer(OfferOf(t, builtFor[t]))
            BY DEF IsOffer, OfferOf
        <3> QED BY <2>3, <3>1 DEF TakesOptions, Sent
    <2>4. CASE Takes(t, i)
        BY <2>4 DEF Takes, OnlyPlanRequests
    <2>5. ASSUME NEW p \in implementing[t], Implements(t, i, p)
          PROVE  \A k \in News : IsAnswer(log'[k])
        <3>1. \A n \in Nat : IsAnswer(Answer(t, p.request, n))
            BY DEF IsAnswer, Answer
        <3> QED BY <2>5, <3>1 DEF Implements, Sent
    <2> QED BY <2>1, <2>2, <2>3, <2>4, <2>5 DEF TaskKinds
<1>2. /\ Silent("TaskImplementationRequest") /\ Silent("UniqueAutomationResponse")
      /\ Silent("ServiceStatus") /\ Silent("UniqueAutomationRequest") /\ Silent("TaskAssignmentSummary")
    BY <1>1 DEF Silent, IsPlanRequest, IsOffer, IsAnswer
<1>3. UNCHANGED planBuilder
    BY DEF OfTask
<1>4. read'["PlanBuilder"] = read["PlanBuilder"] /\ \A x \in Task \ {t} : read'[x] = read[x]
    BY TaskIsService, BuilderService DEF OfTask, HasRead
<1> QED BY <1>1, <1>2, <1>3, <1>4 DEF BuilderAway, planBuilder

LEMMA BuilderLeaves ==
    ASSUME BusOK, AnyStep, NEW i, OfBuilder(i), BuilderKinds(i)
    PROVE  /\ TasksAway /\ Silent("UniqueAutomationRequest") /\ Silent("TaskAssignmentSummary")
           /\ \A k \in News : log'[k].type \in {"TaskImplementationRequest", "UniqueAutomationResponse",
                                                "ServiceStatus"}
<1>1. \A k \in News : log'[k].type \in {"TaskImplementationRequest", "UniqueAutomationResponse",
                                        "ServiceStatus"}
    <2>1. \A r, t : Error(r, t).type = "ServiceStatus"
        BY DEF Error
    <2>2. \A r, a, proj : AskFor(r, a, proj).type = "TaskImplementationRequest"
        BY DEF AskFor
    <2>3. \A r, ways : OutcomeOf(r, ways).type = "UniqueAutomationResponse"
        BY DEF OutcomeOf
    <2>4. CASE Learned(i) \/ Dropped(i) \/ Ignored(i)
        BY <2>4 DEF Learned, Dropped, Ignored
    <2>5. CASE Refused(i)
        BY <2>1, <2>5 DEF Refused, Sent
    <2>6. CASE Accepted(i)
        BY <2>2, <2>6 DEF Accepted, Asked, Stopped, SentAfter, SentOnly
    <2>7. ASSUME NEW r, NEW proj, NEW ways, NEW errors, Goes(r, proj, ways, errors),
                 \A e \in errors : e.type = "ServiceStatus"
          PROVE  \A k \in News : log'[k].type \in {"TaskImplementationRequest", "UniqueAutomationResponse",
                                                    "ServiceStatus"}
        BY <2>2, <2>3, <2>7 DEF Goes, Finished, Asked, Stopped, SentAfter, SentOnly
    <2>8. CASE Flown(i)
        BY <2>7, <2>8 DEF Flown
    <2>9. CASE LeftOut(i)
        BY <2>1, <2>7, <2>9 DEF LeftOut
    <2> QED BY <2>4, <2>5, <2>6, <2>8, <2>9 DEF BuilderKinds
<1>2. /\ Silent("UniqueAutomationRequest") /\ Silent("TaskAssignmentSummary")
      /\ Silent("TaskPlanOptions") /\ Silent("TaskImplementationResponse")
    BY <1>1 DEF Silent
<1>3. UNCHANGED taskState /\ \A t \in Task : read'[t] = read[t]
    BY TaskIsService DEF OfBuilder, HasRead
<1> QED BY <1>1, <1>2, <1>3 DEF TasksAway, taskState
-----------------------------------------------------------------------------
(***************************************************************************)
(* A request that is published once gets one assignment.                   *)
(***************************************************************************)
LEMMA WhoSummarizes ==
    ASSUME BusOK, AnyStep, StepKinds
    PROVE  \/ Summarized
           \/ Silent("TaskAssignmentSummary") /\ UNCHANGED summaries
<1>1. CASE Reported \/ Requested \/ RoutesPlanned
    BY <1>1 DEF Reported, Requested, RoutesPlanned, OfOthers, Silent, IsState, IsRequest,
       IsPlanResponse, Sent
<1>2. ASSUME NEW i, OfBuilder(i), BuilderKinds(i)
      PROVE  Silent("TaskAssignmentSummary") /\ UNCHANGED summaries
    BY <1>2, BuilderLeaves DEF OfBuilder
<1>3. ASSUME NEW t \in Task, NEW i, OfTask(t, i), TaskKinds(t, i)
      PROVE  Silent("TaskAssignmentSummary") /\ UNCHANGED summaries
    BY <1>3, TaskLeaves DEF OfTask
<1> QED BY <1>1, <1>2, <1>3 DEF StepKinds

LEMMA OnceBefore ==
    ASSUME LogGrown, PublishedOnce'
    PROVE  PublishedOnce
<1> SUFFICES ASSUME NEW i \in Published("UniqueAutomationRequest"),
                    NEW j \in Published("UniqueAutomationRequest"), log[i].about = log[j].about
             PROVE  i = j
    BY DEF PublishedOnce
<1>1. /\ i \in Published("UniqueAutomationRequest")' /\ log'[i] = log[i]
      /\ j \in Published("UniqueAutomationRequest")' /\ log'[j] = log[j]
    BY PublishedThen
<1> QED BY <1>1 DEF PublishedOnce

LEMMA PublishedSummary ==
    ASSUME BusOK, PublishedOnce, NEW m, IsNewSummary(m), summaries \in [Request -> Nat]
    PROVE  /\ summaries[m.about] = 0
           /\ \E j \in Published("UniqueAutomationRequest") : log[j].about = m.about
           /\ \A t \in TasksOf[m.about] : Offers(t, m.about) # {}
<1> DEFINE r == m.about
           A == About("UniqueAutomationRequest", r)
<1>1. r \in Request /\ summaries[r] \in Nat
    BY DEF IsNewSummary, IsSummary
<1>2. Cardinality(A) > summaries[r]
    BY DEF IsNewSummary
<1>3. A # {}
    <2>1. Cardinality({}) = 0
        BY FS_EmptySet
    <2> QED BY <1>1, <1>2, <2>1
<1>4. PICK j \in A : TRUE
    BY <1>3
<1>5. A = {j}
    BY <1>4 DEF About, PublishedOnce
<1>6. Cardinality({j}) = 1
    BY FS_Singleton
<1>7. summaries[r] = 0
    BY <1>1, <1>2, <1>5, <1>6
<1>8. ASSUME NEW t \in TasksOf[r]
      PROVE  Offers(t, r) # {}
    <2>1. Cardinality(Offers(t, r)) > summaries[r]
        BY DEF IsNewSummary
    <2>2. Cardinality({}) = 0
        BY FS_EmptySet
    <2> QED BY <1>1, <2>1, <2>2
<1> QED BY <1>4, <1>7, <1>8 DEF About

LEMMA SummariesOnceKept ==
    ASSUME BusOK, SummariesOnce, AnyStep, StepKinds, PublishedOnce'
    PROVE  SummariesOnce'
<1>1. PublishedOnce
    BY OnceBefore DEF AnyStep
<1>2. CASE Silent("TaskAssignmentSummary") /\ UNCHANGED summaries
    <2>1. Sums' = Sums
        BY <1>2, StillPublished DEF Sums
    <2>2. \A i \in Sums : log'[i] = log[i]
        BY OldMessages DEF Sums
    <2>3. \A j \in Published("UniqueAutomationRequest") :
             j \in Published("UniqueAutomationRequest")' /\ log'[j] = log[j]
        BY OldMessages
    <2> QED BY <1>2, <2>1, <2>2, <2>3 DEF SummariesOnce
<1>3. ASSUME NEW m, Sent(m), IsNewSummary(m)
      PROVE  SummariesOnce'
    <2> DEFINE n == Len(log) + 1
    <2>1. n \in News /\ News = {n} /\ log'[n] = m /\ m.type = "TaskAssignmentSummary" /\ m.about \in Request
        BY <1>3 DEF Sent, IsNewSummary, IsSummary
    <2>2. Sums' = Sums \cup {n}
        BY <2>1, OldMessages DEF Sums
    <2>3. /\ \A i \in Sums : log'[i] = log[i] /\ i < n /\ i \in Nat
          /\ n \in Nat
        BY OldMessages DEF Sums
    <2>4. /\ summaries[m.about] = 0
          /\ \E j \in Published("UniqueAutomationRequest") : log[j].about = m.about
        BY <1>1, <1>3, PublishedSummary DEF SummariesOnce
    <2>5. \A i \in Sums : log[i].about # m.about
        BY <2>4 DEF SummariesOnce
    <2>6. summaries' = [summaries EXCEPT ![m.about] = summaries[m.about] + 1]
        BY <1>3 DEF IsNewSummary
    <2>7. /\ summaries' \in [Request -> Nat] /\ summaries'[m.about] = 1
          /\ \A r \in Request : r # m.about => summaries'[r] = summaries[r]
        BY <2>1, <2>4, <2>6 DEF SummariesOnce
    <2>8. \A j \in Published("UniqueAutomationRequest") :
             /\ j \in Published("UniqueAutomationRequest")' /\ log'[j] = log[j] /\ j < n
        BY OldMessages
    <2>9. ASSUME NEW i \in Sums'
          PROVE  /\ summaries'[log'[i].about] # 0
                 /\ \E j \in Published("UniqueAutomationRequest")' : j < i /\ log'[j].about = log'[i].about
        <3>1. CASE i \in Sums
            <4>1. log[i].about \in Request
                BY <3>1, TypeTells DEF BusOK, Sums, Published, IsSummary
            <4> QED BY <2>3, <2>5, <2>7, <2>8, <3>1, <4>1 DEF SummariesOnce
        <3>2. CASE i = n
            BY <2>1, <2>4, <2>7, <2>8, <3>2
        <3> QED BY <2>2, <3>1, <3>2
    <2>10. ASSUME NEW i \in Sums', NEW j \in Sums', log'[i].about = log'[j].about
           PROVE  i = j
        BY <2>1, <2>2, <2>3, <2>5, <2>10 DEF SummariesOnce
    <2> QED BY <2>7, <2>9, <2>10 DEF SummariesOnce
<1> QED BY <1>2, <1>3, WhoSummarizes DEF Summarized
-----------------------------------------------------------------------------
(***************************************************************************)
(* The PlanBuilderService gets on with request r: the missions so far are  *)
(* ways, the vehicles are where proj says, and rest is what there is to    *)
(* do.                                                                     *)
(***************************************************************************)
Others(r) ==
    \A x \in Request \ {r} :
        /\ projected'[x] = projected[x] /\ remaining'[x] = remaining[x]
        /\ x \in DOMAIN inProgress' <=> x \in DOMAIN inProgress
        /\ x \in DOMAIN inProgress => inProgress'[x] = inProgress[x]
Closes(r, ways, rest, errors) ==
    /\ rest = <<>> /\ r \notin DOMAIN inProgress'
    /\ UNCHANGED <<expected, nextId>>
    /\ SentAfter(errors, OutcomeOf(r, ways))
AsksNext(r, proj, rest, errors) ==
    /\ rest # <<>> /\ Head(rest).vehicle \in DOMAIN proj
    /\ remaining'[r] = Tail(rest)
    /\ expected' = WithEntry(expected, nextId, r) /\ nextId' = nextId + 1
    /\ SentAfter(errors, AskFor(r, Head(rest), proj))
Stops(r, rest, errors) ==
    remaining'[r] = rest /\ UNCHANGED <<expected, nextId>> /\ SentOnly(errors)
Continues(r, ways, proj, rest, errors) ==
    /\ r \in DOMAIN inProgress' /\ inProgress'[r] = ways
    /\ AsksNext(r, proj, rest, errors) \/ Stops(r, rest, errors)
GetsOn(r, ways, proj, rest, errors) ==
    /\ r \in Request /\ Others(r) /\ projected'[r] = proj
    /\ DOMAIN projected' = Request /\ DOMAIN remaining' = Request /\ DOMAIN inProgress' \subseteq Request
    /\ UNCHANGED states
    /\ Closes(r, ways, rest, errors) \/ Continues(r, ways, proj, rest, errors)

LEMMA AskedNext ==
    ASSUME BuilderOK, NEW r \in Request, NEW todo, NEW proj, NEW errors,
           Asked(r, todo, proj, errors) \/ Stopped(r, todo, errors)
    PROVE  /\ AsksNext(r, proj, todo, errors) \/ Stops(r, todo, errors)
           /\ DOMAIN remaining' = Request
           /\ \A x \in Request \ {r} : remaining'[x] = remaining[x]
<1>1. DOMAIN remaining = Request
    BY DEF BuilderOK
<1>2. CASE Asked(r, todo, proj, errors)
    <2>1. remaining' = [remaining EXCEPT ![r] = Tail(todo)]
        BY <1>2 DEF Asked
    <2>2. /\ remaining'[r] = Tail(todo) /\ DOMAIN remaining' = Request
          /\ \A x \in Request \ {r} : remaining'[x] = remaining[x]
        BY <1>1, <2>1
    <2> QED BY <1>2, <2>2 DEF Asked, AsksNext
<1>3. CASE Stopped(r, todo, errors)
    <2>1. remaining' = [remaining EXCEPT ![r] = todo]
        BY <1>3 DEF Stopped
    <2>2. /\ remaining'[r] = todo /\ DOMAIN remaining' = Request
          /\ \A x \in Request \ {r} : remaining'[x] = remaining[x]
        BY <1>1, <2>1
    <2> QED BY <1>3, <2>2 DEF Stopped, Stops
<1> QED BY <1>2, <1>3

LEMMA AcceptedGetsOn ==
    ASSUME BuilderOK, NEW i, Accepted(i)
    PROVE  GetsOn(log[i].about, <<>>, Projection(log[i].about), log[i].assignments, {})
<1> DEFINE r == log[i].about
<1>1. r \in Request /\ UNCHANGED states
    BY DEF Accepted, IsSummary
<1>2. projected' = [projected EXCEPT ![r] = Projection(r)] /\ DOMAIN projected = Request
    BY DEF Accepted, BuilderOK
<1>3. /\ projected'[r] = Projection(r) /\ DOMAIN projected' = Request
      /\ \A x \in Request \ {r} : projected'[x] = projected[x]
    BY <1>1, <1>2
<1>4. inProgress' = WithEntry(inProgress, r, <<>>) /\ DOMAIN inProgress \subseteq Request
    BY DEF Accepted, BuilderOK
<1>5. /\ r \in DOMAIN inProgress' /\ inProgress'[r] = <<>> /\ DOMAIN inProgress' \subseteq Request
      /\ \A x \in Request \ {r} :
            /\ x \in DOMAIN inProgress' <=> x \in DOMAIN inProgress
            /\ x \in DOMAIN inProgress => inProgress'[x] = inProgress[x]
    BY <1>1, <1>4 DEF WithEntry
<1>6. /\ AsksNext(r, Projection(r), log[i].assignments, {}) \/ Stops(r, log[i].assignments, {})
      /\ DOMAIN remaining' = Request
      /\ \A x \in Request \ {r} : remaining'[x] = remaining[x]
    BY <1>1, AskedNext DEF Accepted
<1> QED BY <1>1, <1>3, <1>5, <1>6 DEF GetsOn, Others, Continues

LEMMA GoesGetsOn ==
    ASSUME BuilderOK, NEW r \in DOMAIN inProgress, NEW ways, NEW proj, NEW errors,
           Goes(r, proj, ways, errors), UNCHANGED states,
           projected'[r] = proj, DOMAIN projected' = Request,
           \A x \in Request \ {r} : projected'[x] = projected[x]
    PROVE  GetsOn(r, ways, proj, remaining[r], errors)
<1>1. r \in Request /\ DOMAIN inProgress \subseteq Request /\ DOMAIN remaining = Request
    BY DEF BuilderOK
<1>2. CASE Finished(r, ways, errors)
    <2>1. inProgress' = Restrict(inProgress, DOMAIN inProgress \ {r})
        BY <1>2 DEF Finished
    <2>2. /\ r \notin DOMAIN inProgress' /\ DOMAIN inProgress' \subseteq Request
          /\ \A x \in Request \ {r} :
                /\ x \in DOMAIN inProgress' <=> x \in DOMAIN inProgress
                /\ x \in DOMAIN inProgress => inProgress'[x] = inProgress[x]
        BY <1>1, <2>1 DEF Restrict
    <2>3. UNCHANGED remaining /\ Closes(r, ways, remaining[r], errors)
        BY <1>2, <2>2 DEF Finished, Closes
    <2> QED BY <1>1, <2>2, <2>3 DEF GetsOn, Others
<1>3. CASE /\ inProgress' = [inProgress EXCEPT ![r] = ways]
           /\ Asked(r, remaining[r], proj, errors) \/ Stopped(r, remaining[r], errors)
    <2>1. /\ r \in DOMAIN inProgress' /\ inProgress'[r] = ways /\ DOMAIN inProgress' \subseteq Request
          /\ \A x \in Request \ {r} :
                /\ x \in DOMAIN inProgress' <=> x \in DOMAIN inProgress
                /\ x \in DOMAIN inProgress => inProgress'[x] = inProgress[x]
        BY <1>1, <1>3
    <2>2. /\ AsksNext(r, proj, remaining[r], errors) \/ Stops(r, remaining[r], errors)
          /\ DOMAIN remaining' = Request
          /\ \A x \in Request \ {r} : remaining'[x] = remaining[x]
        BY <1>1, <1>3, AskedNext
    <2> QED BY <1>1, <2>1, <2>2 DEF GetsOn, Others, Continues
<1> QED BY <1>2, <1>3 DEF Goes

LEMMA FlownGetsOn ==
    ASSUME BuilderOK, NEW i, Flown(i), NEW r, r = expected[log[i].id]
    PROVE  GetsOn(r, Extended(inProgress[r], log[i]), Projected(projected[r], log[i]), remaining[r], {})
<1> DEFINE proj == Projected(projected[r], log[i])
<1>1. r \in DOMAIN inProgress /\ r \in Request /\ UNCHANGED states
    BY DEF Flown, IsExpected, BuilderOK
<1>2. projected' = [projected EXCEPT ![r] = proj] /\ DOMAIN projected = Request
    BY DEF Flown, BuilderOK
<1>3. /\ projected'[r] = proj /\ DOMAIN projected' = Request
      /\ \A x \in Request \ {r} : projected'[x] = projected[x]
    BY <1>1, <1>2
<1>4. Goes(r, proj, Extended(inProgress[r], log[i]), {})
    BY DEF Flown
<1> QED BY <1>1, <1>3, <1>4, GoesGetsOn

LEMMA LeftOutGetsOn ==
    ASSUME BuilderOK, NEW i, LeftOut(i), NEW r, r = expected[log[i].id]
    PROVE  GetsOn(r, inProgress[r], projected[r], remaining[r], {Error(r, log[i].task)})
<1>1. r \in DOMAIN inProgress /\ r \in Request /\ UNCHANGED states
    BY DEF LeftOut, IsExpected, BuilderOK
<1>2. UNCHANGED projected /\ DOMAIN projected = Request
    BY DEF LeftOut, BuilderOK
<1>3. Goes(r, projected[r], inProgress[r], {Error(r, log[i].task)})
    BY DEF LeftOut
<1> QED BY <1>1, <1>2, <1>3, GoesGetsOn
-----------------------------------------------------------------------------
(***************************************************************************)
(* What the PlanBuilderService has in hand when it gets on with a request: *)
(* nothing else is asked for it, it has no outcome, and the missions so    *)
(* far are those of the summary.                                           *)
(***************************************************************************)
ErrorTasks(errors) == {e.task : e \in errors}
AreListed(errors, s) == \A e \in errors : \E k \in 1 .. Len(s) : e.task = s[k].task
SoFar(r, ways, proj, rest, errors) ==
    /\ SummaryRead(r)' /\ Outcomes(r) = {}
    /\ errors = {} \/ \E t \in Task : errors = {Error(r, t)}
    /\ \A j \in About("TaskAssignmentSummary", r) :
          /\ IsReady(ways, proj, rest, log[j].assignments, Skip(r) \cup ErrorTasks(errors))
          /\ AreListed(errors, log[j].assignments)
AnswersRead(r) ==
    /\ \A j \in Asks : log[j].about = r =>
          \E k \in ReadBy("PlanBuilder", "TaskImplementationResponse")' : log'[k].id = log[j].id
    /\ \A j \in Asks : log[j].about # r =>
          \A k \in ReadBy("PlanBuilder", "TaskImplementationResponse")' :
              k \notin ReadBy("PlanBuilder", "TaskImplementationResponse") => log'[k].id # log[j].id

LEMMA AssignmentsOf ==
    ASSUME BusOK, NEW j \in Sums
    PROVE  /\ IsAssignment(log[j].assignments) /\ log[j].about \in Request
           /\ \A k \in 1 .. Len(log[j].assignments) : log[j].assignments[k].task \in TasksOf[log[j].about]
<1> DEFINE r == log[j].about
           s == log[j].assignments
<1>1. IsSummary(log[j])
    BY TypeTells DEF BusOK, Sums, Published
<1>2. r \in Request /\ s \in MaySummarize[r]
    BY <1>1 DEF IsSummary
<1>3. /\ s \in Seq([vehicle : Vehicle, task : TasksOf[r] \cap Task])
      /\ \A k, l \in DOMAIN s : s[k].task = s[l].task => k = l
    BY <1>2, ImplementationAssumption
<1> HIDE DEF s, r
<1>4. IsSequence(s) /\ DOMAIN s = 1 .. Len(s)
    BY <1>3, SequenceIs
<1>5. \A k \in 1 .. Len(s) : s[k] \in [vehicle : Vehicle, task : TasksOf[r] \cap Task]
    BY <1>3, ElementOfSeq
<1> QED BY <1>2, <1>3, <1>4, <1>5 DEF IsAssignment, s, r

(* A summary that is just read is the only one of its request: nothing was *)
(* done about that before.                                                 *)
LEMMA NothingBefore ==
    ASSUME BusOK, SummariesOnce, BuiltAreRead, AnyStep, NEW i, HasRead("PlanBuilder", i), IsSummary(log[i]),
           NEW r, r = log[i].about
    PROVE  /\ i \in Sums /\ SummaryRead(r)'
           /\ r \notin DOMAIN inProgress /\ Outcomes(r) = {} /\ Skip(r) = {}
           /\ \A j \in Asks : log[j].about # r
           /\ \A j \in About("TaskAssignmentSummary", r) : j = i
<1>1. /\ ReadBy("PlanBuilder", "TaskAssignmentSummary")'
             = ReadBy("PlanBuilder", "TaskAssignmentSummary")
                   \cup {j \in {i} : log[j].type = "TaskAssignmentSummary"}
      /\ i \notin ReadBy("PlanBuilder", "TaskAssignmentSummary") /\ i \in DOMAIN log
    BY BuilderReads DEF BuilderTypes
<1>2. i \in Sums /\ log'[i] = log[i]
    BY <1>1, OldMessages DEF Sums, Published, IsSummary
<1>3. \A j \in Sums : log[j].about = r => j = i
    BY <1>2 DEF SummariesOnce
<1>4. ~SummaryRead(r)
    BY <1>1, <1>3 DEF SummaryRead, ReadBy, Sums
<1>5. SummaryRead(r)'
    <2>1. i \in ReadBy("PlanBuilder", "TaskAssignmentSummary")'
        BY <1>1 DEF IsSummary
    <2> QED BY <1>2, <2>1 DEF SummaryRead
<1>6. Skip(r) = {} /\ Outcomes(r) = {}
    BY <1>4 DEF BuiltAreRead, Skip, Outcomes, Refusals, About
<1>7. (\A j \in Asks : log[j].about # r) /\ r \notin DOMAIN inProgress
    BY <1>4 DEF BuiltAreRead
<1> QED BY <1>2, <1>3, <1>5, <1>6, <1>7 DEF About, Sums

LEMMA AcceptedSoFar ==
    ASSUME BusOK, BuilderOK, SummariesOnce, BuiltAreRead, AnyStep,
           NEW i, HasRead("PlanBuilder", i), Accepted(i), NEW r, r = log[i].about
    PROVE  SoFar(r, <<>>, Projection(r), log[i].assignments, {}) /\ AnswersRead(r)
<1>1. /\ i \in Sums /\ SummaryRead(r)' /\ IsSummary(log[i])
      /\ r \notin DOMAIN inProgress /\ Outcomes(r) = {} /\ Skip(r) = {}
      /\ \A j \in Asks : log[j].about # r
      /\ \A j \in About("TaskAssignmentSummary", r) : j = i
    BY NothingBefore DEF Accepted
<1>2. IsAssignment(log[i].assignments)
    BY <1>1, AssignmentsOf
<1>3. Participating(r) \subseteq Vehicle
    BY <1>1, ImplementationAssumption DEF Participating, BuilderOK, IsSummary
<1>4. IsReady(<<>>, Projection(r), log[i].assignments, log[i].assignments, {})
    BY <1>2, <1>3, ReadyAtStart DEF Projection
<1>5. Skip(r) \cup ErrorTasks({}) = {}
    BY <1>1 DEF ErrorTasks
<1>6. SoFar(r, <<>>, Projection(r), log[i].assignments, {})
    BY <1>1, <1>4, <1>5 DEF SoFar, AreListed
<1>7. ReadBy("PlanBuilder", "TaskImplementationResponse")' = ReadBy("PlanBuilder", "TaskImplementationResponse")
    <2>1. log[i].type # "TaskImplementationResponse"
        BY <1>1 DEF IsSummary
    <2>2. {j \in {i} : log[j].type = "TaskImplementationResponse"} = {}
        BY <2>1
    <2>3. ReadBy("PlanBuilder", "TaskImplementationResponse")'
              = ReadBy("PlanBuilder", "TaskImplementationResponse")
                    \cup {j \in {i} : log[j].type = "TaskImplementationResponse"}
        BY BuilderReads DEF BuilderTypes
    <2> QED BY <2>2, <2>3
<1>8. AnswersRead(r)
    BY <1>1, <1>7 DEF AnswersRead
<1> QED BY <1>6, <1>8

(* An answer that is just read is the one to what is asked for its         *)
(* request.                                                                *)
LEMMA AnswerRead ==
    ASSUME BusOK, AsksExpected, AnswersOnce, AnyStep,
           NEW i, HasRead("PlanBuilder", i), IsAnswer(log[i])
    PROVE  /\ i \in Answers
           /\ ReadBy("PlanBuilder", "TaskImplementationResponse")'
                  = ReadBy("PlanBuilder", "TaskImplementationResponse") \cup {i}
           /\ \E j \in Asks :
                 /\ IsAnswerTo(log[i], log[j]) /\ log[j].about = expected[log[i].id]
                 /\ log[j].to \in Task /\ j \in Open(log[j].about)
                 /\ \A k \in Asks : log[k].id = log[i].id => k = j
<1>1. /\ ReadBy("PlanBuilder", "TaskImplementationResponse")'
             = ReadBy("PlanBuilder", "TaskImplementationResponse")
                   \cup {j \in {i} : log[j].type = "TaskImplementationResponse"}
      /\ i \notin ReadBy("PlanBuilder", "TaskImplementationResponse") /\ i \in DOMAIN log
    BY BuilderReads DEF BuilderTypes
<1>2. i \in Answers /\ log[i].type = "TaskImplementationResponse"
    BY <1>1 DEF Answers, Published, IsAnswer
<1>3. PICK j \in Asks : IsAnswerTo(log[i], log[j])
    BY <1>2 DEF AnswersOnce
<1>4. log[j].id = log[i].id /\ log[j].about = expected[log[i].id]
    BY <1>3 DEF IsAnswerTo, AsksExpected
<1>5. log[j].to \in Task
    BY <1>3, TypeTells DEF BusOK, Asks, Published, IsAsk
<1>6. \A k \in Asks : log[k].id = log[i].id => k = j
    BY <1>3, <1>4 DEF AsksExpected
<1>7. j \in Open(log[j].about)
    <2>1. ASSUME NEW k \in ReadBy("PlanBuilder", "TaskImplementationResponse"), log[k].id = log[j].id
          PROVE  FALSE
        <3>1. k \in Answers
            BY DEF ReadBy, Answers
        <3>2. k = i
            BY <1>2, <1>4, <2>1, <3>1 DEF AnswersOnce
        <3> QED BY <1>1, <3>2
    <2> QED BY <1>3, <2>1 DEF Open
<1> QED BY <1>1, <1>2, <1>3, <1>4, <1>5, <1>6, <1>7

LEMMA ReadInHand ==
    ASSUME BusOK, BuilderOK, BuiltAreRead, OutcomesLast, AsksExpected, AnswersOnce, AllInHand, AnyStep,
           NEW i, HasRead("PlanBuilder", i), IsAnswer(log[i]), IsExpected(log[i].id),
           NEW r, r = expected[log[i].id]
    PROVE  /\ SummaryRead(r)' /\ Outcomes(r) = {} /\ AnswersRead(r) /\ r \in DOMAIN inProgress
           /\ \E a : /\ IsAnswerTo(log[i], a) /\ a.to \in Task
                     /\ \A j \in About("TaskAssignmentSummary", r) :
                           IsAsked(inProgress[r], projected[r], remaining[r], a, log[j].assignments, Skip(r))
<1>1. r \in DOMAIN inProgress
    BY DEF IsExpected
<1>2. r \in Request
    BY <1>1 DEF BuilderOK
<1>3. SummaryRead(r)'
    <2>1. PICK j \in ReadBy("PlanBuilder", "TaskAssignmentSummary") : log[j].about = r
        BY <1>1 DEF BuiltAreRead, SummaryRead
    <2>2. j \in ReadBy("PlanBuilder", "TaskAssignmentSummary")'
        BY <2>1, KeptRead, BuilderService, BusIsTyped
    <2>3. log'[j] = log[j]
        BY <2>1, OldMessages DEF ReadBy
    <2> QED BY <2>1, <2>2, <2>3 DEF SummaryRead
<1>4. Outcomes(r) = {}
    BY <1>1, <1>2 DEF OutcomesLast
<1>5. PICK j0 \in Asks :
          /\ IsAnswerTo(log[i], log[j0]) /\ log[j0].about = r
          /\ log[j0].to \in Task /\ j0 \in Open(r)
          /\ \A k \in Asks : log[k].id = log[i].id => k = j0
    BY AnswerRead
<1>6. ReadBy("PlanBuilder", "TaskImplementationResponse")'
          = ReadBy("PlanBuilder", "TaskImplementationResponse") \cup {i}
    BY AnswerRead
<1>7. log'[i] = log[i] /\ \A j \in Answers : log'[j] = log[j]
    BY OldMessages DEF HasRead, Answers
<1> DEFINE a == log[j0]
<1>8. OpenAsks(r) # {} /\ a \in OpenAsks(r)
    BY <1>5 DEF OpenAsks
<1>9. ASSUME NEW j \in About("TaskAssignmentSummary", r)
      PROVE  /\ OpenAsks(r) = {a}
             /\ IsAsked(inProgress[r], projected[r], remaining[r], a, log[j].assignments, Skip(r))
    <2>1. IsInHand(inProgress[r], projected[r], remaining[r], OpenAsks(r), log[j].assignments, Skip(r))
        BY <1>1 DEF AllInHand, InHand
    <2>2. PICK b : /\ OpenAsks(r) = {b}
                   /\ IsAsked(inProgress[r], projected[r], remaining[r], b, log[j].assignments, Skip(r))
        BY <1>8, <2>1 DEF IsInHand
    <2>3. a = b
        BY <1>8, <2>2
    <2> QED BY <2>2, <2>3
<1>10. \E j : j \in About("TaskAssignmentSummary", r)
    BY <1>1 DEF BuiltAreRead, SummaryRead, ReadBy, About
<1>11. ASSUME NEW j \in Asks, log[j].about = r
       PROVE  \E k \in ReadBy("PlanBuilder", "TaskImplementationResponse")' : log'[k].id = log[j].id
    <2>1. CASE j \in Open(r)
        <3>1. log[j] = a
            BY <1>9, <1>10, <2>1 DEF OpenAsks
        <3>2. log'[i].id = log[j].id
            BY <1>5, <1>7, <3>1 DEF IsAnswerTo
        <3> QED BY <1>6, <3>2
    <2>2. CASE j \notin Open(r)
        <3>1. PICK k \in ReadBy("PlanBuilder", "TaskImplementationResponse") : log[k].id = log[j].id
            BY <1>11, <2>2 DEF Open
        <3>2. log'[k] = log[k]
            BY <1>7, <3>1 DEF ReadBy, Answers
        <3> QED BY <1>6, <3>1, <3>2
    <2> QED BY <2>1, <2>2
<1>12. ASSUME NEW j \in Asks, log[j].about # r
       PROVE  \A k \in ReadBy("PlanBuilder", "TaskImplementationResponse")' :
                 k \notin ReadBy("PlanBuilder", "TaskImplementationResponse") => log'[k].id # log[j].id
    BY <1>5, <1>6, <1>7, <1>12
<1>13. AnswersRead(r)
    BY <1>11, <1>12 DEF AnswersRead
<1> QED BY <1>1, <1>3, <1>4, <1>5, <1>9, <1>13

LEMMA FlownSoFar ==
    ASSUME BusOK, BuilderOK, BuiltAreRead, OutcomesLast, AsksExpected, AnswersOnce, AllInHand, AnyStep,
           NEW i, HasRead("PlanBuilder", i), Flown(i), NEW r, r = expected[log[i].id]
    PROVE  /\ SoFar(r, Extended(inProgress[r], log[i]), Projected(projected[r], log[i]), remaining[r], {})
           /\ AnswersRead(r)
<1>1. IsAnswer(log[i]) /\ IsExpected(log[i].id) /\ log[i].count > 0
    BY DEF Flown
<1>2. SummaryRead(r)' /\ Outcomes(r) = {} /\ AnswersRead(r)
    BY <1>1, ReadInHand
<1>3. PICK a : /\ IsAnswerTo(log[i], a) /\ a.to \in Task
               /\ \A j \in About("TaskAssignmentSummary", r) :
                     IsAsked(inProgress[r], projected[r], remaining[r], a, log[j].assignments, Skip(r))
    BY <1>1, ReadInHand
<1>4. ASSUME NEW j \in About("TaskAssignmentSummary", r)
      PROVE  IsReady(Extended(inProgress[r], log[i]), Projected(projected[r], log[i]), remaining[r],
                     log[j].assignments, Skip(r))
    <2>1. IsAssignment(log[j].assignments)
        BY AssignmentsOf DEF About, Sums
    <2>2. log[i].count \in Nat
        BY <1>1 DEF IsAnswer
    <2> QED BY <1>1, <1>3, <2>1, <2>2, ReadyWith
<1>5. Skip(r) \cup ErrorTasks({}) = Skip(r)
    BY DEF ErrorTasks
<1> QED BY <1>2, <1>4, <1>5 DEF SoFar, AreListed

LEMMA LeftOutSoFar ==
    ASSUME BusOK, BuilderOK, BuiltAreRead, OutcomesLast, AsksExpected, AnswersOnce, AllInHand, AnyStep,
           NEW i, HasRead("PlanBuilder", i), LeftOut(i), NEW r, r = expected[log[i].id]
    PROVE  /\ SoFar(r, inProgress[r], projected[r], remaining[r], {Error(r, log[i].task)})
           /\ AnswersRead(r)
<1>1. IsAnswer(log[i]) /\ IsExpected(log[i].id)
    BY DEF LeftOut
<1>2. SummaryRead(r)' /\ Outcomes(r) = {} /\ AnswersRead(r)
    BY <1>1, ReadInHand
<1>3. PICK a : /\ IsAnswerTo(log[i], a) /\ a.to \in Task
               /\ \A j \in About("TaskAssignmentSummary", r) :
                     IsAsked(inProgress[r], projected[r], remaining[r], a, log[j].assignments, Skip(r))
    BY <1>1, ReadInHand
<1>4. log[i].task = a.to /\ log[i].task \in Task
    BY <1>3 DEF IsAnswerTo
<1>5. ErrorTasks({Error(r, log[i].task)}) = {a.to}
    BY <1>4 DEF ErrorTasks, Error
<1>6. ASSUME NEW j \in About("TaskAssignmentSummary", r)
      PROVE  /\ IsReady(inProgress[r], projected[r], remaining[r], log[j].assignments, Skip(r) \cup {a.to})
             /\ AreListed({Error(r, log[i].task)}, log[j].assignments)
    <2> DEFINE s == log[j].assignments
    <2>1. IsAssignment(s)
        BY AssignmentsOf DEF About, Sums
    <2>2. IsReady(inProgress[r], projected[r], remaining[r], s, Skip(r) \cup {a.to})
        BY <1>3, <2>1, ReadyWithout
    <2>3. IsRest(remaining[r], s) /\ Len(remaining[r]) < Len(s) /\ a.to = s[Len(s) - Len(remaining[r])].task
        BY <1>3 DEF IsAsked
    <2>4. PICK m \in Nat, n \in Nat : m = Len(remaining[r]) /\ n = Len(s)
        BY <2>1, <2>3 DEF IsRest, IsAssignment, IsSequence
    <2>5. Len(s) - Len(remaining[r]) \in 1 .. Len(s)
        <3>1. m < n
            BY <2>3, <2>4
        <3>2. n - m \in 1 .. n
            BY <3>1
        <3> QED BY <2>4, <3>2
    <2>6. Error(r, log[i].task).task = a.to
        BY <1>4 DEF Error
    <2> QED BY <2>2, <2>3, <2>5, <2>6 DEF AreListed
<1> QED BY <1>2, <1>4, <1>5, <1>6 DEF SoFar
-----------------------------------------------------------------------------
(***************************************************************************)
(* What a step says of other requests changes nothing of this one.         *)
(***************************************************************************)
NoNews(type, r) == \A n \in News : ~(log'[n].type = type /\ log'[n].about = r)

LEMMA SilentNoNews ==
    ASSUME NEW type, NEW r, Silent(type)
    PROVE  NoNews(type, r)
BY DEF Silent, NoNews

LEMMA AboutKept ==
    ASSUME AnyStep, NEW type, NEW r, NoNews(type, r)
    PROVE  About(type, r)' = About(type, r) /\ \A i \in About(type, r) : log'[i] = log[i]
<1>1. Published(type)' = Published(type) \cup {i \in News : log'[i].type = type}
    BY OldMessages
<1>2. \A i \in Published(type) : log'[i] = log[i]
    BY OldMessages
<1> QED BY <1>1, <1>2 DEF About, NoNews

LEMMA SkipKept ==
    ASSUME AnyStep, NEW r, NoNews("ServiceStatus", r)
    PROVE  Skip(r)' = Skip(r)
<1>1. /\ About("ServiceStatus", r)' = About("ServiceStatus", r)
      /\ \A i \in About("ServiceStatus", r) : log'[i] = log[i]
    BY AboutKept
<1>2. Skip(r)' = {log'[i].task : i \in About("ServiceStatus", r)'}
    BY DEF Skip
<1> QED BY <1>1, <1>2 DEF Skip

LEMMA OutcomesKept ==
    ASSUME AnyStep, NEW r
    PROVE  /\ Outcomes(r) \subseteq Outcomes(r)'
           /\ \A k \in Outcomes(r)' : k \in Outcomes(r) \/ k \in News
           /\ \A k \in Outcomes(r) : k \in DOMAIN log
<1>1. /\ \A type : Published(type)' = Published(type) \cup {i \in News : log'[i].type = type}
      /\ \A type : \A i \in Published(type) : i \in DOMAIN log /\ log'[i] = log[i]
    BY OldMessages
<1>2. /\ About("UniqueAutomationResponse", r) \subseteq About("UniqueAutomationResponse", r)'
      /\ \A k \in About("UniqueAutomationResponse", r)' :
            k \in About("UniqueAutomationResponse", r) \/ k \in News
    BY <1>1 DEF About
<1>3. Refusals(r) \subseteq Refusals(r)' /\ \A k \in Refusals(r)' : k \in Refusals(r) \/ k \in News
    BY <1>1 DEF About, Refusals
<1>4. \A k \in Outcomes(r) : k \in DOMAIN log
    BY DEF Outcomes, Refusals, About, Published
<1> QED BY <1>2, <1>3, <1>4 DEF Outcomes

LEMMA NoSecondSummary ==
    ASSUME AnyStep, SummariesOnce', NEW r, SummaryRead(r)
    PROVE  NoNews("TaskAssignmentSummary", r)
<1>1. PICK j \in Sums : log[j].about = r
    BY DEF SummaryRead, ReadBy, Sums
<1>2. j \in Sums' /\ log'[j] = log[j] /\ j \notin News
    BY OldMessages DEF Sums
<1>3. ASSUME NEW n \in News, log'[n].type = "TaskAssignmentSummary", log'[n].about = r
      PROVE  FALSE
    <2>1. n \in Sums'
        BY <1>3, OldMessages DEF Sums
    <2> QED BY <1>1, <1>2, <1>3, <2>1 DEF SummariesOnce
<1> QED BY <1>3 DEF NoNews

LEMMA SummaryStillRead ==
    ASSUME BusOK, AnyStep, NEW r, SummaryRead(r)
    PROVE  SummaryRead(r)'
<1>1. PICK j \in ReadBy("PlanBuilder", "TaskAssignmentSummary") : log[j].about = r
    BY DEF SummaryRead
<1>2. j \in ReadBy("PlanBuilder", "TaskAssignmentSummary")'
    BY <1>1, KeptRead, BuilderService, BusIsTyped
<1>3. log'[j] = log[j]
    BY <1>1, OldMessages DEF ReadBy
<1> QED BY <1>1, <1>2, <1>3 DEF SummaryRead

(* No answer that is newly read is to something asked for r. *)
NoneAnswered(r) ==
    \A j \in Asks : log[j].about = r =>
        \A k \in ReadBy("PlanBuilder", "TaskImplementationResponse")' :
            k \notin ReadBy("PlanBuilder", "TaskImplementationResponse") => log'[k].id # log[j].id

LEMMA OpenKept ==
    ASSUME BusOK, AnyStep, NEW r, NoNews("TaskImplementationRequest", r), NoneAnswered(r)
    PROVE  OpenAsks(r)' = OpenAsks(r)
<1> DEFINE R == ReadBy("PlanBuilder", "TaskImplementationResponse")
           newR == ReadBy("PlanBuilder", "TaskImplementationResponse")'
<1>1. R \subseteq newR
    BY KeptRead, BuilderService, BusIsTyped
<1>2. \A k \in R : log'[k] = log[k]
    BY OldMessages DEF ReadBy
<1>3. /\ Asks' = Asks \cup {n \in News : log'[n].type = "TaskImplementationRequest"}
      /\ \A j \in Asks : log'[j] = log[j]
    BY OldMessages DEF Asks
<1>4. Open(r) = {j \in Asks : log[j].about = r /\ \A k \in R : log[k].id # log[j].id}
    BY DEF Open
<1>5. Open(r)' = {j \in Asks' : log'[j].about = r /\ \A k \in newR : log'[k].id # log'[j].id}
    BY DEF Open
<1>6. \A j \in Asks : log[j].about = r => \A k \in newR : k \notin R => log'[k].id # log[j].id
    BY DEF NoneAnswered
<1>7. \A n \in News : log'[n].type = "TaskImplementationRequest" => log'[n].about # r
    BY DEF NoNews
<1> HIDE DEF R, newR
<1>8. Open(r)' = Open(r)
    <2>1. ASSUME NEW j \in Open(r)'
          PROVE  j \in Open(r)
        <3>1. j \in Asks /\ log'[j] = log[j]
            BY <1>3, <1>5, <1>7
        <3> QED BY <1>1, <1>2, <1>4, <1>5, <3>1
    <2>2. ASSUME NEW j \in Open(r)
          PROVE  j \in Open(r)'
        <3>1. /\ j \in Asks /\ j \in Asks' /\ log'[j] = log[j] /\ log[j].about = r
              /\ \A k \in R : log[k].id # log[j].id
            BY <1>3, <1>4
        <3>2. \A k \in newR : log'[k].id # log[j].id
            BY <1>2, <1>6, <3>1
        <3> QED BY <1>5, <3>1, <3>2
    <2> QED BY <2>1, <2>2
<1>9. \A j \in Open(r) : log'[j] = log[j]
    BY <1>3, <1>4
<1>10. OpenAsks(r)' = {log'[j] : j \in Open(r)'}
    BY DEF OpenAsks
<1> QED BY <1>8, <1>9, <1>10 DEF OpenAsks

LEMMA InHandKept ==
    ASSUME BusOK, AnyStep, SummariesOnce', NEW r, SummaryRead(r), InHand(r),
           inProgress'[r] = inProgress[r], projected'[r] = projected[r], remaining'[r] = remaining[r],
           NoNews("ServiceStatus", r), NoNews("TaskImplementationRequest", r), NoneAnswered(r)
    PROVE  InHand(r)'
<1>1. OpenAsks(r)' = OpenAsks(r) /\ Skip(r)' = Skip(r)
    BY OpenKept, SkipKept
<1>2. /\ About("TaskAssignmentSummary", r)' = About("TaskAssignmentSummary", r)
      /\ \A j \in About("TaskAssignmentSummary", r) : log'[j] = log[j]
    BY NoSecondSummary, AboutKept
<1> QED BY <1>1, <1>2 DEF InHand

LEMMA AnswersKept ==
    ASSUME AnyStep, SummariesOnce', NEW r, SummaryRead(r), AnswersOf(r),
           NoNews("ServiceStatus", r), NoNews("UniqueAutomationResponse", r)
    PROVE  AnswersOf(r)'
<1>1. Skip(r)' = Skip(r)
    BY SkipKept
<1>2. /\ About("TaskAssignmentSummary", r)' = About("TaskAssignmentSummary", r)
      /\ \A j \in About("TaskAssignmentSummary", r) : log'[j] = log[j]
    BY NoSecondSummary, AboutKept
<1>3. /\ About("UniqueAutomationResponse", r)' = About("UniqueAutomationResponse", r)
      /\ \A i \in About("UniqueAutomationResponse", r) : log'[i] = log[i]
    BY AboutKept
<1> QED BY <1>1, <1>2, <1>3 DEF AnswersOf
-----------------------------------------------------------------------------
(***************************************************************************)
(* The requests that a step is about: it gets on with one, or refuses it,  *)
(* or is about none.                                                       *)
(***************************************************************************)
BuilderInv ==
    /\ BusOK /\ BuilderOK /\ SummariesOnce /\ BuiltAreRead /\ OutcomesLast /\ AsksExpected
    /\ AnswersOnce /\ AllInHand /\ AllAnswered
Pauses(i) ==
    /\ News = {} /\ UNCHANGED <<expected, nextId>>
    /\ DOMAIN projected' = Request /\ DOMAIN remaining' = Request /\ states' \subseteq Vehicle
    /\ DOMAIN inProgress' \subseteq DOMAIN inProgress
    /\ \A x \in DOMAIN inProgress' :
          inProgress'[x] = inProgress[x] /\ projected'[x] = projected[x] /\ remaining'[x] = remaining[x]
    /\ IsAnswer(log[i]) => ~IsExpected(log[i].id)
Serves(r, ways, proj, rest, errors) ==
    GetsOn(r, ways, proj, rest, errors) /\ SoFar(r, ways, proj, rest, errors) /\ AnswersRead(r)

LEMMA Pausing ==
    ASSUME BuilderOK, NEW i, Learned(i) \/ Dropped(i) \/ Ignored(i)
    PROVE  Pauses(i)
<1>1. /\ states \subseteq Vehicle /\ DOMAIN projected = Request /\ DOMAIN remaining = Request
      /\ DOMAIN inProgress \subseteq Request
    BY DEF BuilderOK
<1>2. CASE Learned(i)
    <2>1. UNCHANGED <<projected, remaining, inProgress, expected, nextId>> /\ News = {}
        BY <1>2 DEF Learned, missions
    <2>2. states' \subseteq Vehicle /\ ~IsAnswer(log[i])
        BY <1>1, <1>2 DEF Learned, IsState, IsAnswer
    <2> QED BY <1>1, <2>1, <2>2 DEF Pauses
<1>3. CASE Dropped(i)
    <2> DEFINE r == log[i].about
    <2>1. /\ projected' = [projected EXCEPT ![r] = <<>>]
          /\ remaining' = [remaining EXCEPT ![r] = <<>>]
          /\ inProgress' = Restrict(inProgress, DOMAIN inProgress \ {r})
          /\ UNCHANGED <<states, expected, nextId>> /\ News = {} /\ IsRequest(log[i])
        BY <1>3 DEF Dropped
    <2>2. /\ DOMAIN projected' = Request /\ DOMAIN remaining' = Request
          /\ \A x \in Request \ {r} : projected'[x] = projected[x] /\ remaining'[x] = remaining[x]
        BY <1>1, <2>1
    <2>3. /\ DOMAIN inProgress' = DOMAIN inProgress \ {r}
          /\ \A x \in DOMAIN inProgress' : inProgress'[x] = inProgress[x]
        BY <2>1 DEF Restrict
    <2>4. ~IsAnswer(log[i])
        BY <2>1 DEF IsRequest, IsAnswer
    <2> QED BY <1>1, <2>1, <2>2, <2>3, <2>4 DEF Pauses
<1>4. CASE Ignored(i)
    BY <1>1, <1>4 DEF Ignored, Pauses, planBuilder
<1> QED BY <1>2, <1>3, <1>4

LEMMA BuilderCases ==
    ASSUME BuilderInv, AnyStep, NEW i, OfBuilder(i), BuilderKinds(i)
    PROVE  \/ Pauses(i) \/ Refused(i)
           \/ \E r, ways, proj, rest, errors : Serves(r, ways, proj, rest, errors)
<1>1. /\ BusOK /\ BuilderOK /\ SummariesOnce /\ BuiltAreRead /\ OutcomesLast /\ AsksExpected
      /\ AnswersOnce /\ AllInHand /\ HasRead("PlanBuilder", i)
    BY DEF BuilderInv, OfBuilder
<1>2. CASE Learned(i) \/ Dropped(i) \/ Ignored(i)
    BY <1>1, <1>2, Pausing
<1>3. CASE Accepted(i)
    <2>1. PICK r : r = log[i].about
        OBVIOUS
    <2>2. GetsOn(r, <<>>, Projection(r), log[i].assignments, {})
        BY <1>1, <1>3, <2>1, AcceptedGetsOn
    <2>3. SoFar(r, <<>>, Projection(r), log[i].assignments, {}) /\ AnswersRead(r)
        BY <1>1, <1>3, <2>1, AcceptedSoFar
    <2> QED BY <2>2, <2>3 DEF Serves
<1>4. CASE Flown(i)
    <2>1. PICK r : r = expected[log[i].id]
        OBVIOUS
    <2>2. GetsOn(r, Extended(inProgress[r], log[i]), Projected(projected[r], log[i]), remaining[r], {})
        BY <1>1, <1>4, <2>1, FlownGetsOn
    <2>3. /\ SoFar(r, Extended(inProgress[r], log[i]), Projected(projected[r], log[i]), remaining[r], {})
          /\ AnswersRead(r)
        BY <1>1, <1>4, <2>1, FlownSoFar
    <2> QED BY <2>2, <2>3 DEF Serves
<1>5. CASE LeftOut(i)
    <2>1. PICK r : r = expected[log[i].id]
        OBVIOUS
    <2>2. GetsOn(r, inProgress[r], projected[r], remaining[r], {Error(r, log[i].task)})
        BY <1>1, <1>5, <2>1, LeftOutGetsOn
    <2>3. /\ SoFar(r, inProgress[r], projected[r], remaining[r], {Error(r, log[i].task)})
          /\ AnswersRead(r)
        BY <1>1, <1>5, <2>1, LeftOutSoFar
    <2> QED BY <2>2, <2>3 DEF Serves
<1> QED BY <1>2, <1>3, <1>4, <1>5 DEF BuilderKinds

(* What is published when the PlanBuilderService gets on. *)
LEMMA ServesNews ==
    ASSUME NEW r, NEW ways, NEW proj, NEW rest, NEW errors, Serves(r, ways, proj, rest, errors)
    PROVE  /\ \A n \in News :
                 \/ log'[n] \in errors
                 \/ AsksNext(r, proj, rest, errors) /\ log'[n] = AskFor(r, Head(rest), proj)
                 \/ Closes(r, ways, rest, errors) /\ log'[n] = OutcomeOf(r, ways)
           /\ \A e \in errors : /\ \E n \in News : log'[n] = e
                                /\ e.about = r /\ e.type = "ServiceStatus" /\ e.task \in Task /\ IsError(e)
<1>1. r \in Request
    BY DEF Serves, GetsOn
<1>2. \A e \in errors : e.about = r /\ e.type = "ServiceStatus" /\ e.task \in Task /\ IsError(e)
    BY <1>1 DEF Serves, SoFar, Error, IsError
<1>3. CASE Closes(r, ways, rest, errors)
    BY <1>2, <1>3 DEF Closes, SentAfter
<1>4. CASE AsksNext(r, proj, rest, errors)
    BY <1>2, <1>4 DEF AsksNext, SentAfter
<1>5. CASE Stops(r, rest, errors)
    BY <1>2, <1>5 DEF Stops, SentOnly
<1> QED BY <1>3, <1>4, <1>5 DEF Serves, GetsOn, Continues

LEMMA ServesTells ==
    ASSUME NEW r, NEW ways, NEW proj, NEW rest, NEW errors, Serves(r, ways, proj, rest, errors)
    PROVE  \A n \in News : log'[n].about = r
<1>1. AskFor(r, Head(rest), proj).about = r /\ OutcomeOf(r, ways).about = r
    BY DEF AskFor, OutcomeOf
<1> QED BY <1>1, ServesNews

Concerns(S) ==
    /\ \A x : x \notin S => /\ NoNews("TaskImplementationRequest", x)
                            /\ NoNews("UniqueAutomationResponse", x) /\ NoNews("ServiceStatus", x)
    /\ \A x \in DOMAIN inProgress' : x \notin S =>
          /\ x \in DOMAIN inProgress /\ inProgress'[x] = inProgress[x]
          /\ projected'[x] = projected[x] /\ remaining'[x] = remaining[x] /\ NoneAnswered(x)

LEMMA AwayConcerns ==
    ASSUME BusOK, AnyStep, BuilderAway
    PROVE  Concerns({})
<1>1. \A x : /\ NoNews("TaskImplementationRequest", x)
             /\ NoNews("UniqueAutomationResponse", x) /\ NoNews("ServiceStatus", x)
    BY SilentNoNews DEF BuilderAway
<1>2. ReadBy("PlanBuilder", "TaskImplementationResponse")' = ReadBy("PlanBuilder", "TaskImplementationResponse")
    BY BuilderRests DEF BuilderAway
<1>3. \A x : NoneAnswered(x)
    BY <1>2 DEF NoneAnswered
<1> QED BY <1>1, <1>3 DEF Concerns, BuilderAway

LEMMA PausesConcerns ==
    ASSUME BuilderInv, AnyStep, NEW i, HasRead("PlanBuilder", i), Pauses(i)
    PROVE  Concerns({})
<1>1. BusOK /\ AsksExpected /\ AnswersOnce
    BY DEF BuilderInv
<1>2. \A x : /\ NoNews("TaskImplementationRequest", x)
             /\ NoNews("UniqueAutomationResponse", x) /\ NoNews("ServiceStatus", x)
    BY DEF Pauses, NoNews
<1>3. /\ ReadBy("PlanBuilder", "TaskImplementationResponse")'
            = ReadBy("PlanBuilder", "TaskImplementationResponse")
                  \cup {j \in {i} : log[j].type = "TaskImplementationResponse"}
      /\ i \in DOMAIN log
    BY <1>1, BuilderReads DEF BuilderTypes
<1>4. ASSUME NEW x \in DOMAIN inProgress
      PROVE  NoneAnswered(x)
    <2>1. ASSUME NEW j \in Asks, log[j].about = x,
                 log[i].type = "TaskImplementationResponse", log'[i].id = log[j].id
          PROVE  FALSE
        <3>1. IsAnswer(log[i]) /\ log'[i] = log[i]
            BY <1>1, <1>3, <2>1, TypeTells, OldMessages DEF BusOK
        <3>2. expected[log[j].id] = x /\ log[j].id \in DOMAIN expected
            BY <1>1, <2>1 DEF AsksExpected
        <3>3. IsExpected(log[i].id)
            BY <2>1, <3>1, <3>2 DEF IsExpected
        <3> QED BY <3>1, <3>3 DEF Pauses
    <2> QED BY <1>3, <2>1 DEF NoneAnswered
<1> QED BY <1>2, <1>4 DEF Concerns, Pauses

LEMMA RefusedConcerns ==
    ASSUME BuilderInv, AnyStep, NEW i, OfBuilder(i), Refused(i)
    PROVE  Concerns({log[i].about})
<1>1. BusOK
    BY DEF BuilderInv
<1>2. \A n \in News : log'[n].about = log[i].about
    BY DEF Refused, Sent, Error
<1>3. log[i].type # "TaskImplementationResponse"
    BY DEF Refused, IsSummary
<1>4. ReadBy("PlanBuilder", "TaskImplementationResponse")' = ReadBy("PlanBuilder", "TaskImplementationResponse")
    <2>1. {j \in {i} : log[j].type = "TaskImplementationResponse"} = {}
        BY <1>3
    <2>2. ReadBy("PlanBuilder", "TaskImplementationResponse")'
              = ReadBy("PlanBuilder", "TaskImplementationResponse")
                    \cup {j \in {i} : log[j].type = "TaskImplementationResponse"}
        BY <1>1, BuilderReads DEF BuilderTypes, OfBuilder
    <2> QED BY <2>1, <2>2
<1>5. \A x : NoneAnswered(x)
    BY <1>4 DEF NoneAnswered
<1>6. UNCHANGED <<projected, remaining, inProgress>>
    BY DEF Refused, planBuilder
<1> QED BY <1>2, <1>5, <1>6 DEF Concerns, NoNews

LEMMA ServesConcerns ==
    ASSUME BuilderInv, AnyStep,
           NEW r, NEW ways, NEW proj, NEW rest, NEW errors, Serves(r, ways, proj, rest, errors)
    PROVE  Concerns({r})
<1>1. \A n \in News : log'[n].about = r
    BY ServesTells
<1>2. Others(r) /\ DOMAIN inProgress' \subseteq Request
    BY DEF Serves, GetsOn
<1>3. \A x : x # r => NoneAnswered(x)
    BY DEF Serves, AnswersRead, NoneAnswered
<1>4. \A x : x # r => /\ NoNews("TaskImplementationRequest", x)
                      /\ NoNews("UniqueAutomationResponse", x) /\ NoNews("ServiceStatus", x)
    BY <1>1 DEF NoNews
<1> QED BY <1>2, <1>3, <1>4 DEF Concerns, Others
LEMMA Doings ==
    ASSUME BuilderInv, AnyStep, StepKinds
    PROVE  \/ BuilderAway
           \/ \E i : OfBuilder(i) /\ Pauses(i)
           \/ \E i : OfBuilder(i) /\ Refused(i)
           \/ /\ Silent("TaskAssignmentSummary") /\ Silent("TaskImplementationResponse")
              /\ \E r, ways, proj, rest, errors : Serves(r, ways, proj, rest, errors)
<1>1. BusOK
    BY DEF BuilderInv
<1>2. CASE OfWorld
    BY <1>1, <1>2, WorldLeaves
<1>3. ASSUME NEW t \in Task, NEW i, OfTask(t, i), TaskKinds(t, i)
      PROVE  BuilderAway
    BY <1>1, <1>3, TaskLeaves
<1>4. ASSUME NEW i, OfBuilder(i), BuilderKinds(i)
      PROVE  \/ Pauses(i) \/ Refused(i)
             \/ /\ Silent("TaskAssignmentSummary") /\ Silent("TaskImplementationResponse")
                /\ \E r, ways, proj, rest, errors : Serves(r, ways, proj, rest, errors)
    BY <1>1, <1>4, BuilderCases, BuilderLeaves DEF TasksAway
<1> QED BY <1>2, <1>3, <1>4 DEF StepKinds, OfWorld

LEMMA RefusedIsNew ==
    ASSUME BuilderInv, AnyStep, NEW i, OfBuilder(i), Refused(i), NEW r, r = log[i].about
    PROVE  /\ SummaryRead(r)' /\ r \notin DOMAIN inProgress' /\ Outcomes(r) = {} /\ Skip(r) = {}
           /\ r \in Request /\ \A j \in Asks : log[j].about # r
           /\ Silent("TaskImplementationRequest") /\ Silent("UniqueAutomationResponse")
           /\ UNCHANGED planBuilder
<1>1. BusOK /\ SummariesOnce /\ BuiltAreRead /\ HasRead("PlanBuilder", i) /\ IsSummary(log[i])
    BY DEF BuilderInv, OfBuilder, Refused
<1>2. SummaryRead(r)' /\ r \notin DOMAIN inProgress /\ Outcomes(r) = {} /\ Skip(r) = {}
    BY <1>1, NothingBefore
<1>3. \A j \in Asks : log[j].about # r
    BY <1>1, NothingBefore
<1>4. UNCHANGED planBuilder
    BY DEF Refused
<1>5. Silent("TaskImplementationRequest") /\ Silent("UniqueAutomationResponse")
    BY DEF Refused, Sent, Error, Silent
<1> QED BY <1>1, <1>2, <1>3, <1>4, <1>5 DEF IsSummary, planBuilder

(* The requests a step is about are those of which the summary is read. *)
LEMMA ConcernsRead ==
    ASSUME BuilderInv, AnyStep, StepKinds
    PROVE  \E S : Concerns(S) /\ \A r \in S : SummaryRead(r)' /\ Outcomes(r) = {}
<1>1. BusOK
    BY DEF BuilderInv
<1>2. CASE BuilderAway
    BY <1>1, <1>2, AwayConcerns
<1>3. ASSUME NEW i, OfBuilder(i), Pauses(i)
      PROVE  Concerns({})
    BY <1>3, PausesConcerns DEF OfBuilder
<1>4. ASSUME NEW i, OfBuilder(i), Refused(i)
      PROVE  \E S : Concerns(S) /\ \A r \in S : SummaryRead(r)' /\ Outcomes(r) = {}
    <2>1. PICK r : r = log[i].about
        OBVIOUS
    <2>2. SummaryRead(r)' /\ Outcomes(r) = {}
        BY <1>4, <2>1, RefusedIsNew
    <2>3. Concerns({r})
        BY <1>4, <2>1, RefusedConcerns
    <2> QED BY <2>2, <2>3
<1>5. ASSUME NEW r, NEW ways, NEW proj, NEW rest, NEW errors, Serves(r, ways, proj, rest, errors)
      PROVE  \E S : Concerns(S) /\ \A x \in S : SummaryRead(x)' /\ Outcomes(x) = {}
    <2>1. SummaryRead(r)' /\ Outcomes(r) = {}
        BY <1>5 DEF Serves, SoFar
    <2>2. Concerns({r})
        BY <1>5, ServesConcerns
    <2> QED BY <2>1, <2>2
<1> QED BY <1>2, <1>3, <1>4, <1>5, Doings

LEMMA BuiltAreReadKept ==
    ASSUME BuilderInv, AnyStep, StepKinds
    PROVE  BuiltAreRead'
<1>1. BusOK /\ BuiltAreRead
    BY DEF BuilderInv
<1>2. PICK S : Concerns(S) /\ \A r \in S : SummaryRead(r)'
    BY ConcernsRead
<1>3. ASSUME NEW r \in DOMAIN inProgress'
      PROVE  SummaryRead(r)'
    <2>1. CASE r \in S
        BY <1>2, <2>1
    <2>2. CASE r \notin S
        <3>1. SummaryRead(r)
            BY <1>1, <1>2, <2>2 DEF Concerns, BuiltAreRead
        <3> QED BY <1>1, <3>1, SummaryStillRead
    <2> QED BY <2>1, <2>2
<1>4. ASSUME NEW type \in {"TaskImplementationRequest", "UniqueAutomationResponse", "ServiceStatus"},
             NEW i \in Published(type)', NEW r, r = log'[i].about
      PROVE  SummaryRead(r)'
    <2>1. CASE i \in Published(type)
        <3>1. log'[i] = log[i]
            BY <2>1, OldMessages
        <3>2. SummaryRead(r)
            BY <1>1, <1>4, <2>1, <3>1 DEF BuiltAreRead, Asks
        <3> QED BY <1>1, <3>2, SummaryStillRead
    <2>2. CASE i \in News /\ log'[i].type = type
        <3>1. r \in S
            BY <1>2, <1>4, <2>2 DEF Concerns, NoNews
        <3> QED BY <1>2, <3>1
    <2>3. Published(type)' = Published(type) \cup {n \in News : log'[n].type = type}
        BY OldMessages
    <2> QED BY <2>1, <2>2, <2>3
<1>5. \A r \in DOMAIN inProgress' : SummaryRead(r)'
    BY <1>3
<1>6. \A i \in Asks' \cup Published("UniqueAutomationResponse")' \cup Published("ServiceStatus")' :
          \A r : r = log'[i].about => SummaryRead(r)'
    BY <1>4 DEF Asks
<1> QED BY <1>5, <1>6 DEF BuiltAreRead

LEMMA OutcomesLastKept ==
    ASSUME BuilderInv, AnyStep, StepKinds
    PROVE  OutcomesLast'
<1>1. BusOK /\ OutcomesLast /\ BuilderOK
    BY DEF BuilderInv
<1> SUFFICES ASSUME NEW r \in Request, NEW k \in Outcomes(r)'
             PROVE  r \notin DOMAIN inProgress' /\ \A i \in Asks' : log'[i].about = r => i < k
    BY DEF OutcomesLast
<1>2. \A i \in Asks : i \in DOMAIN log /\ log'[i] = log[i] /\ i \in Nat /\ i <= Len(log)
    BY OldMessages DEF Asks
<1>3. Asks' = Asks \cup {n \in News : log'[n].type = "TaskImplementationRequest"}
    BY OldMessages DEF Asks
<1>4. \A n \in News : n \in Nat /\ n > Len(log) /\ n \notin DOMAIN log
    BY OldMessages
<1>5. k \in Outcomes(r) \/ k \in News
    BY OutcomesKept
<1>6. Len(log) \in Nat
    BY OldMessages
(* An earlier outcome: the step is about another request. *)
<1>7. CASE k \in Outcomes(r)
    <2>1. PICK S : Concerns(S) /\ \A x \in S : Outcomes(x) = {}
        BY ConcernsRead
    <2>2. r \notin S
        BY <1>7, <2>1
    <2>3. r \notin DOMAIN inProgress /\ \A i \in Asks : log[i].about = r => i < k
        BY <1>1, <1>7 DEF OutcomesLast
    <2>4. r \notin DOMAIN inProgress' /\ NoNews("TaskImplementationRequest", r)
        BY <2>1, <2>2, <2>3 DEF Concerns
    <2> QED BY <1>2, <1>3, <2>3, <2>4 DEF NoNews
(* A new outcome comes after what was asked. *)
<1>8. ASSUME k \in News, Silent("TaskImplementationRequest")
      PROVE  \A i \in Asks' : log'[i].about = r => i < k
    <2>1. Asks' = Asks
        BY <1>3, <1>8 DEF Silent
    <2> QED BY <1>2, <1>4, <1>6, <1>8, <2>1
<1>9. k \in News => /\ log'[k].about = r
                    /\ \/ log'[k].type = "UniqueAutomationResponse"
                       \/ log'[k].type = "ServiceStatus" /\ log'[k].task = NoTask
    BY DEF Outcomes, Refusals, About, Published
<1>10. CASE BuilderAway /\ k \in News
    BY <1>9, <1>10 DEF BuilderAway, Silent
<1>11. ASSUME NEW i, OfBuilder(i), Pauses(i), k \in News
       PROVE  FALSE
    BY <1>11 DEF Pauses
<1>12. ASSUME NEW i, OfBuilder(i), Refused(i), k \in News
       PROVE  r \notin DOMAIN inProgress' /\ \A j \in Asks' : log'[j].about = r => j < k
    <2>1. r = log[i].about
        BY <1>9, <1>12 DEF Refused, Sent, Error
    <2> QED BY <1>8, <1>12, <2>1, RefusedIsNew
<1>13. ASSUME NEW x, NEW ways, NEW proj, NEW rest, NEW errors, Serves(x, ways, proj, rest, errors),
              k \in News
       PROVE  r \notin DOMAIN inProgress' /\ \A j \in Asks' : log'[j].about = r => j < k
    <2>1. x = r
        BY <1>9, <1>13, ServesTells
    <2>2. \A e \in errors : e.type = "ServiceStatus" /\ e.task \in Task
        BY <1>13, ServesNews
    <2>3. NoTask \notin Task
        BY ImplementationAssumption
    <2>4. log'[k] \notin errors
        BY <1>9, <1>13, <2>2, <2>3
    <2>5. Closes(r, ways, rest, errors)
        <3>1. \A a : AskFor(r, a, proj).type = "TaskImplementationRequest"
            BY DEF AskFor
        <3> QED BY <1>9, <1>13, <2>1, <2>4, <3>1, ServesNews
    <2>6. Silent("TaskImplementationRequest")
        <3>1. OutcomeOf(r, ways).type = "UniqueAutomationResponse"
            BY DEF OutcomeOf
        <3> QED BY <2>2, <2>5, <3>1 DEF Closes, SentAfter, Silent
    <2> QED BY <1>8, <1>13, <2>5, <2>6 DEF Closes
<1> QED BY <1>5, <1>7, <1>10, <1>11, <1>12, <1>13, Doings
-----------------------------------------------------------------------------
(* What is asked for next is the first of the rest of the summary.         *)
IsNewAsk(a, r) ==
    /\ IsAsk(a) /\ a.to \in TasksOf[r] /\ a.id = nextId /\ a.about = r
    /\ a.type = "TaskImplementationRequest"
LEMMA NextAsk ==
    ASSUME BuilderInv, AnyStep, Silent("TaskAssignmentSummary"),
           NEW r, NEW ways, NEW proj, NEW rest, NEW errors, Serves(r, ways, proj, rest, errors),
           AsksNext(r, proj, rest, errors)
    PROVE  /\ IsNewAsk(AskFor(r, Head(rest), proj), r)
           /\ \A j \in About("TaskAssignmentSummary", r) :
                 IsInHand(ways, proj, Tail(rest), {AskFor(r, Head(rest), proj)},
                          log[j].assignments, Skip(r) \cup ErrorTasks(errors))
<1>1. /\ BusOK /\ r \in Request /\ SummaryRead(r)' /\ rest # <<>>
      /\ \A j \in About("TaskAssignmentSummary", r) :
            IsReady(ways, proj, rest, log[j].assignments, Skip(r) \cup ErrorTasks(errors))
    BY DEF BuilderInv, Serves, SoFar, GetsOn, AsksNext
<1>2. PICK a : a = AskFor(r, Head(rest), proj)
    OBVIOUS
<1>3. /\ DOMAIN a = {"type", "id", "to", "about", "vehicle", "start", "from"}
      /\ a.type = "TaskImplementationRequest" /\ a.id = nextId /\ a.about = r
      /\ a.to = Head(rest).task
    BY <1>2 DEF AskFor
<1>4. IsNextAsk(a, rest, proj)
    BY <1>2 DEF AskFor, StartOf, IsNextAsk, AsksNext
<1>5. \A j \in About("TaskAssignmentSummary", r) : j \in Sums /\ log[j].about = r
    BY DEF About, Sums
<1>6. ASSUME NEW j \in About("TaskAssignmentSummary", r)
      PROVE  /\ IsInHand(ways, proj, Tail(rest), {a}, log[j].assignments, Skip(r) \cup ErrorTasks(errors))
             /\ a.vehicle \in Vehicle /\ a.to \in Task
    <2>1. IsAssignment(log[j].assignments)
        BY <1>1, <1>5, AssignmentsOf
    <2>2. IsReady(ways, proj, rest, log[j].assignments, Skip(r) \cup ErrorTasks(errors))
        BY <1>1
    <2> QED BY <1>1, <1>4, <2>1, <2>2, AskedWhenReady
<1>7. PICK j : j \in About("TaskAssignmentSummary", r)
    <2>1. PICK j \in Sums' : log'[j].about = r
        BY <1>1 DEF SummaryRead, ReadBy, Sums
    <2>2. j \in Sums /\ log'[j] = log[j]
        BY <2>1, StillPublished, OldMessages DEF Sums
    <2> QED BY <2>1, <2>2 DEF About, Sums
<1>8. a.vehicle \in Vehicle /\ a.to \in Task
    BY <1>6, <1>7
<1>9. a.start \in Nat
    <2>1. AreProjected(ways, proj)
        BY <1>1, <1>7 DEF IsReady
    <2> QED BY <1>4, <2>1 DEF AreProjected, IsNextAsk
<1>10. a.to \in TasksOf[r]
    <2> DEFINE s == log[j].assignments
    <2>1. IsAssignment(s) /\ \A k \in 1 .. Len(s) : s[k].task \in TasksOf[r]
        BY <1>1, <1>5, <1>7, AssignmentsOf
    <2>2. IsRest(rest, s)
        BY <1>1, <1>7 DEF IsReady
    <2>3. PICK left : left = Tail(rest)
        OBVIOUS
    <2>4. Head(rest) = s[Len(s) - Len(left)] /\ Len(s) - Len(left) \in 1 .. Len(s)
        BY <1>1, <2>1, <2>2, <2>3, RestOfRest
    <2> QED BY <1>3, <2>1, <2>4
<1>11. IsAsk(a)
    BY <1>1, <1>3, <1>8, <1>9 DEF IsAsk
<1>12. IsNewAsk(a, r)
    BY <1>3, <1>10, <1>11 DEF IsNewAsk
<1> QED BY <1>2, <1>6, <1>12

(* The messages of a step of the PlanBuilderService. *)
LEMMA BuilderMessages ==
    ASSUME BuilderInv, AnyStep, NEW i, OfBuilder(i), BuilderKinds(i)
    PROVE  \A n \in News : IsMessage(log'[n])
<1>1. BusOK
    BY DEF BuilderInv
<1>2. Silent("TaskAssignmentSummary")
    BY <1>1, BuilderLeaves
<1>3. CASE Pauses(i)
    BY <1>3 DEF Pauses
<1>4. CASE Refused(i)
    <2>1. log[i].about \in Request
        BY <1>4 DEF Refused, IsSummary
    <2>2. IsError(Error(log[i].about, NoTask))
        BY <2>1 DEF IsError, Error
    <2> QED BY <1>4, <2>2 DEF Refused, Sent, IsMessage
<1>5. ASSUME NEW r, NEW ways, NEW proj, NEW rest, NEW errors, Serves(r, ways, proj, rest, errors)
      PROVE  \A n \in News : IsMessage(log'[n])
    <2>1. \A e \in errors : IsError(e)
        BY <1>5, ServesNews
    <2>2. r \in Request
        BY <1>5 DEF Serves, GetsOn
    <2>3. IsOutcome(OutcomeOf(r, ways))
        BY <2>2 DEF IsOutcome, OutcomeOf
    <2>4. AsksNext(r, proj, rest, errors) => IsAsk(AskFor(r, Head(rest), proj))
        BY <1>2, <1>5, NextAsk DEF IsNewAsk
    <2> QED BY <1>5, <2>1, <2>3, <2>4, ServesNews DEF IsMessage
<1> QED BY <1>3, <1>4, <1>5, BuilderCases

LEMMA BuilderOKKept ==
    ASSUME BuilderInv, AnyStep, StepKinds
    PROVE  BuilderOK'
<1>1. BuilderOK
    BY DEF BuilderInv
<1>2. CASE BuilderAway
    BY <1>1, <1>2 DEF BuilderAway, BuilderOK
<1>3. ASSUME NEW i, OfBuilder(i), Pauses(i)
      PROVE  BuilderOK'
    BY <1>1, <1>3 DEF Pauses, BuilderOK
<1>4. ASSUME NEW i, OfBuilder(i), Refused(i)
      PROVE  BuilderOK'
    BY <1>1, <1>4 DEF Refused, planBuilder, BuilderOK
<1>5. ASSUME NEW r, NEW ways, NEW proj, NEW rest, NEW errors, Serves(r, ways, proj, rest, errors)
      PROVE  BuilderOK'
    <2>1. /\ DOMAIN projected' = Request /\ DOMAIN remaining' = Request /\ DOMAIN inProgress' \subseteq Request
          /\ UNCHANGED states
        BY <1>5 DEF Serves, GetsOn
    <2>2. CASE UNCHANGED <<expected, nextId>>
        BY <1>1, <2>1, <2>2 DEF BuilderOK
    <2>3. CASE AsksNext(r, proj, rest, errors)
        <3>1. DOMAIN expected' = {nextId} \cup DOMAIN expected /\ nextId' = nextId + 1
            BY <2>3 DEF AsksNext, WithEntry
        <3>2. nextId \in Nat \ {0} /\ DOMAIN expected = 1 .. nextId - 1
            BY <1>1 DEF BuilderOK
        <3>3. {nextId} \cup (1 .. nextId - 1) = 1 .. nextId + 1 - 1 /\ nextId + 1 \in Nat \ {0}
            BY <3>2
        <3> QED BY <1>1, <2>1, <3>1, <3>2, <3>3 DEF BuilderOK
    <2> QED BY <1>5, <2>2, <2>3 DEF Serves, GetsOn, Closes, Continues, Stops
<1> QED BY <1>2, <1>3, <1>4, <1>5, Doings

LEMMA AsksExpectedKept ==
    ASSUME BuilderInv, AnyStep, StepKinds
    PROVE  AsksExpected'
<1>1. AsksExpected /\ BuilderOK /\ BusOK
    BY DEF BuilderInv
<1>2. Asks' = Asks \cup {n \in News : log'[n].type = "TaskImplementationRequest"}
    BY OldMessages DEF Asks
<1>3. \A i \in Asks : log'[i] = log[i]
    BY OldMessages DEF Asks
<1>4. ASSUME Silent("TaskImplementationRequest"), UNCHANGED expected
      PROVE  AsksExpected'
    <2>1. Asks' = Asks
        BY <1>2, <1>4 DEF Silent
    <2> QED BY <1>1, <1>3, <1>4, <2>1 DEF AsksExpected
<1>5. CASE BuilderAway
    BY <1>4, <1>5 DEF BuilderAway
<1>6. ASSUME NEW i, OfBuilder(i), Pauses(i)
      PROVE  AsksExpected'
    BY <1>4, <1>6 DEF Pauses, Silent
<1>7. ASSUME NEW i, OfBuilder(i), Refused(i)
      PROVE  AsksExpected'
    <2>1. Silent("TaskImplementationRequest") /\ UNCHANGED planBuilder
        BY <1>7, RefusedIsNew
    <2> QED BY <1>4, <2>1 DEF planBuilder
<1>8. ASSUME NEW r, NEW ways, NEW proj, NEW rest, NEW errors, Serves(r, ways, proj, rest, errors),
             Silent("TaskAssignmentSummary")
      PROVE  AsksExpected'
    <2>1. \A e \in errors : e.type = "ServiceStatus"
        BY <1>8, ServesNews
    <2>2. CASE Closes(r, ways, rest, errors)
        <3>1. OutcomeOf(r, ways).type = "UniqueAutomationResponse"
            BY DEF OutcomeOf
        <3>2. Silent("TaskImplementationRequest")
            BY <2>1, <2>2, <3>1 DEF Closes, SentAfter, Silent
        <3> QED BY <1>4, <2>2, <3>2 DEF Closes
    <2>3. CASE Stops(r, rest, errors)
        <3>1. Silent("TaskImplementationRequest")
            BY <2>1, <2>3 DEF Stops, SentOnly, Silent
        <3> QED BY <1>4, <2>3, <3>1 DEF Stops
    <2>4. CASE AsksNext(r, proj, rest, errors)
        <3>1. PICK a : a = AskFor(r, Head(rest), proj)
            OBVIOUS
        <3>2. a.to \in TasksOf[r] /\ a.id = nextId /\ a.about = r
            <4>1. IsNewAsk(AskFor(r, Head(rest), proj), r)
                BY <1>8, <2>4, NextAsk
            <4>2. IsNewAsk(a, r)
                BY <3>1, <4>1
            <4> QED BY <4>2 DEF IsNewAsk
        <3>3. PICK n \in News : /\ log'[n] = a
                                /\ \A k \in News \ {n} : log'[k].type = "ServiceStatus"
            BY <2>1, <2>4, <3>1 DEF AsksNext, SentAfter
        <3>4. \A i \in Asks' : i \in Asks \/ i = n
            BY <1>2, <3>3
        <3>5. nextId \notin DOMAIN expected
            BY <1>1 DEF BuilderOK
        <3>6. /\ DOMAIN expected' = {nextId} \cup DOMAIN expected /\ expected'[nextId] = r
              /\ \A x \in DOMAIN expected : x # nextId => expected'[x] = expected[x]
            BY <2>4 DEF AsksNext, WithEntry
        <3>7. \A i \in Asks : /\ log[i].id \in DOMAIN expected /\ expected[log[i].id] = log[i].about
                              /\ log[i].to \in TasksOf[log[i].about] /\ log[i].id # nextId
            BY <1>1, <3>5 DEF AsksExpected
        <3>8. ASSUME NEW i \in Asks'
              PROVE  /\ log'[i].id \in DOMAIN expected' /\ expected'[log'[i].id] = log'[i].about
                     /\ log'[i].to \in TasksOf[log'[i].about]
            BY <1>3, <3>2, <3>3, <3>4, <3>6, <3>7
        <3>9. ASSUME NEW i \in Asks', NEW j \in Asks', log'[i].id = log'[j].id
              PROVE  i = j
            BY <1>1, <1>3, <3>2, <3>3, <3>4, <3>7, <3>9 DEF AsksExpected
        <3> QED BY <3>8, <3>9 DEF AsksExpected
    <2> QED BY <1>8, <2>2, <2>3, <2>4 DEF Serves, GetsOn, Continues
<1> QED BY <1>5, <1>6, <1>7, <1>8, Doings
LEMMA SkipAfter ==
    ASSUME AnyStep, NEW r, NEW ways, NEW proj, NEW rest, NEW errors, Serves(r, ways, proj, rest, errors)
    PROVE  Skip(r)' = Skip(r) \cup ErrorTasks(errors)
<1>1. About("ServiceStatus", r)'
          = About("ServiceStatus", r) \cup {n \in News : log'[n].type = "ServiceStatus" /\ log'[n].about = r}
    <2>1. /\ Published("ServiceStatus")'
                = Published("ServiceStatus") \cup {n \in News : log'[n].type = "ServiceStatus"}
          /\ \A i \in Published("ServiceStatus") : log'[i] = log[i]
        BY OldMessages
    <2> QED BY <2>1 DEF About
<1>2. \A i \in About("ServiceStatus", r) : log'[i] = log[i]
    BY OldMessages DEF About
<1>3. \A n \in News : log'[n].type = "ServiceStatus" => log'[n] \in errors
    <2>1. \A a : AskFor(r, a, proj).type # "ServiceStatus"
        BY DEF AskFor
    <2>2. OutcomeOf(r, ways).type # "ServiceStatus"
        BY DEF OutcomeOf
    <2> QED BY <2>1, <2>2, ServesNews
<1>4. \A e \in errors : /\ \E n \in News : log'[n] = e
                        /\ e.about = r /\ e.type = "ServiceStatus"
    BY ServesNews
<1>5. Skip(r)' = {log'[i].task : i \in About("ServiceStatus", r)'}
    BY DEF Skip
<1>6. ASSUME NEW t \in Skip(r)'
      PROVE  t \in Skip(r) \cup ErrorTasks(errors)
    BY <1>1, <1>2, <1>3, <1>5 DEF Skip, ErrorTasks
<1>7. ASSUME NEW t \in Skip(r)
      PROVE  t \in Skip(r)'
    BY <1>1, <1>2, <1>5 DEF Skip
<1>8. ASSUME NEW e \in errors
      PROVE  e.task \in Skip(r)'
    <2>1. PICK n \in News : log'[n] = e /\ e.about = r /\ e.type = "ServiceStatus"
        BY <1>4
    <2>2. n \in About("ServiceStatus", r)'
        BY <1>1, <2>1
    <2> QED BY <1>5, <2>1, <2>2
<1> QED BY <1>6, <1>7, <1>8 DEF ErrorTasks

(* What is open for the request then: what was asked for, or nothing.      *)
LEMMA OpenAfter ==
    ASSUME BuilderInv, AnyStep, Silent("TaskAssignmentSummary"), Silent("TaskImplementationResponse"),
           NEW r, NEW ways, NEW proj, NEW rest, NEW errors, Serves(r, ways, proj, rest, errors)
    PROVE  /\ Stops(r, rest, errors) => OpenAsks(r)' = {}
           /\ AsksNext(r, proj, rest, errors) => OpenAsks(r)' = {AskFor(r, Head(rest), proj)}
<1> DEFINE newR == ReadBy("PlanBuilder", "TaskImplementationResponse")'
<1>1. /\ Asks' = Asks \cup {n \in News : log'[n].type = "TaskImplementationRequest"}
      /\ \A j \in Asks : log'[j] = log[j]
    BY OldMessages DEF Asks
<1>2. Open(r)' = {j \in Asks' : log'[j].about = r /\ \A k \in newR : log'[k].id # log'[j].id}
    BY DEF Open
<1>3. \A j \in Asks : log[j].about = r => \E k \in newR : log'[k].id = log[j].id
    BY DEF Serves, AnswersRead
<1>4. Answers' = Answers /\ \A k \in Answers : log'[k] = log[k]
    BY StillPublished, OldMessages DEF Answers
<1>5. \A k \in newR : k \in Answers
    BY <1>4 DEF ReadBy, Answers
<1> HIDE DEF newR
<1>6. \A j \in Open(r)' : j \in News /\ log'[j].type = "TaskImplementationRequest"
    BY <1>1, <1>2, <1>3
<1>7. \A e \in errors : e.type = "ServiceStatus"
    BY ServesNews
<1>8. OpenAsks(r)' = {log'[j] : j \in Open(r)'}
    BY DEF OpenAsks
<1>9. ASSUME Stops(r, rest, errors)
      PROVE  OpenAsks(r)' = {}
    <2>1. Silent("TaskImplementationRequest")
        BY <1>7, <1>9 DEF Stops, SentOnly, Silent
    <2>2. Open(r)' = {}
        BY <1>6, <2>1 DEF Silent
    <2> QED BY <1>8, <2>2
<1>10. ASSUME AsksNext(r, proj, rest, errors)
       PROVE  OpenAsks(r)' = {AskFor(r, Head(rest), proj)}
    <2>1. PICK a : a = AskFor(r, Head(rest), proj)
        OBVIOUS
    <2>2. a.type = "TaskImplementationRequest" /\ a.id = nextId /\ a.about = r
        BY <2>1 DEF AskFor
    <2>3. PICK n \in News : /\ log'[n] = a
                            /\ \A k \in News \ {n} : log'[k].type = "ServiceStatus"
        BY <1>7, <1>10, <2>1 DEF AsksNext, SentAfter
    <2>4. ASSUME NEW k \in newR
          PROVE  log'[k].id # nextId
        <3>1. PICK j \in Asks : IsAnswerTo(log[k], log[j])
            BY <1>5, <2>4 DEF BuilderInv, AnswersOnce
        <3>2. log[j].id \in DOMAIN expected
            BY DEF BuilderInv, AsksExpected
        <3>3. nextId \notin DOMAIN expected
            BY DEF BuilderInv, BuilderOK
        <3> QED BY <1>4, <1>5, <2>4, <3>1, <3>2, <3>3 DEF IsAnswerTo
    <2>5. n \in Open(r)'
        BY <1>1, <1>2, <2>2, <2>3, <2>4
    <2>6. \A j \in Open(r)' : j = n
        BY <1>6, <2>3
    <2>7. OpenAsks(r)' = {a}
        BY <1>8, <2>3, <2>5, <2>6
    <2> QED BY <2>1, <2>7
<1> QED BY <1>9, <1>10

LEMMA ServedInHand ==
    ASSUME BuilderInv, AnyStep, Silent("TaskAssignmentSummary"), Silent("TaskImplementationResponse"),
           NEW r, NEW ways, NEW proj, NEW rest, NEW errors, Serves(r, ways, proj, rest, errors),
           Continues(r, ways, proj, rest, errors)
    PROVE  InHand(r)'
<1>1. inProgress'[r] = ways /\ projected'[r] = proj
    BY DEF Serves, GetsOn, Continues
<1>2. PICK skip : skip = Skip(r) \cup ErrorTasks(errors)
    OBVIOUS
<1>3. Skip(r)' = skip
    BY <1>2, SkipAfter
<1>4. /\ About("TaskAssignmentSummary", r)' = About("TaskAssignmentSummary", r)
      /\ \A j \in About("TaskAssignmentSummary", r) : log'[j] = log[j]
    BY AboutKept, SilentNoNews
<1>5. ASSUME NEW j \in About("TaskAssignmentSummary", r)
      PROVE  IsInHand(ways, proj, remaining'[r], OpenAsks(r)', log[j].assignments, skip)
    <2>1. CASE Stops(r, rest, errors)
        <3>1. remaining'[r] = rest /\ OpenAsks(r)' = {}
            BY <2>1, OpenAfter DEF Stops
        <3>2. IsReady(ways, proj, rest, log[j].assignments, skip)
            BY <1>2 DEF Serves, SoFar
        <3>3. IsInHand(ways, proj, rest, {}, log[j].assignments, skip)
            BY <3>2 DEF IsInHand
        <3> QED BY <3>1, <3>3
    <2>2. CASE AsksNext(r, proj, rest, errors)
        <3>1. remaining'[r] = Tail(rest) /\ OpenAsks(r)' = {AskFor(r, Head(rest), proj)}
            BY <2>2, OpenAfter DEF AsksNext
        <3>2. IsInHand(ways, proj, Tail(rest), {AskFor(r, Head(rest), proj)}, log[j].assignments, skip)
            BY <1>2, <2>2, NextAsk
        <3> QED BY <3>1, <3>2
    <2> QED BY <2>1, <2>2 DEF Continues
<1> QED BY <1>1, <1>3, <1>4, <1>5 DEF InHand

LEMMA AllInHandKept ==
    ASSUME BuilderInv, AnyStep, StepKinds, SummariesOnce'
    PROVE  AllInHand'
<1>1. BusOK /\ BuiltAreRead /\ AllInHand
    BY DEF BuilderInv
<1>2. ASSUME NEW S, Concerns(S), NEW x \in DOMAIN inProgress', x \notin S
      PROVE  InHand(x)'
    <2>1. /\ x \in DOMAIN inProgress /\ inProgress'[x] = inProgress[x]
          /\ projected'[x] = projected[x] /\ remaining'[x] = remaining[x] /\ NoneAnswered(x)
          /\ NoNews("TaskImplementationRequest", x) /\ NoNews("ServiceStatus", x)
        BY <1>2 DEF Concerns
    <2>2. SummaryRead(x) /\ InHand(x)
        BY <1>1, <2>1 DEF BuiltAreRead, AllInHand
    <2> QED BY <1>1, <2>1, <2>2, InHandKept
<1>3. CASE BuilderAway
    <2>1. Concerns({})
        BY <1>1, <1>3, AwayConcerns
    <2> QED BY <1>2, <2>1 DEF AllInHand
<1>4. ASSUME NEW i, OfBuilder(i), Pauses(i)
      PROVE  AllInHand'
    <2>1. Concerns({})
        BY <1>4, PausesConcerns DEF OfBuilder
    <2> QED BY <1>2, <2>1 DEF AllInHand
<1>5. ASSUME NEW i, OfBuilder(i), Refused(i)
      PROVE  AllInHand'
    <2>1. PICK r : r = log[i].about
        OBVIOUS
    <2>2. Concerns({r}) /\ r \notin DOMAIN inProgress'
        BY <1>5, <2>1, RefusedConcerns, RefusedIsNew
    <2>3. \A x \in DOMAIN inProgress' : x \notin {r}
        BY <2>2
    <2>4. \A x \in DOMAIN inProgress' : InHand(x)'
        BY <1>2, <2>2, <2>3
    <2> QED BY <2>4 DEF AllInHand
<1>6. ASSUME NEW r, NEW ways, NEW proj, NEW rest, NEW errors, Serves(r, ways, proj, rest, errors),
             Silent("TaskAssignmentSummary"), Silent("TaskImplementationResponse")
      PROVE  AllInHand'
    <2>1. Concerns({r})
        BY <1>6, ServesConcerns
    <2>2. r \in DOMAIN inProgress' => InHand(r)'
        <3>1. CASE Continues(r, ways, proj, rest, errors)
            BY <1>6, <3>1, ServedInHand
        <3>2. CASE Closes(r, ways, rest, errors)
            BY <3>2 DEF Closes
        <3> QED BY <1>6, <3>1, <3>2 DEF Serves, GetsOn
    <2>3. \A x \in DOMAIN inProgress' : x = r \/ x \notin {r}
        OBVIOUS
    <2>4. \A x \in DOMAIN inProgress' : InHand(x)'
        BY <1>2, <2>1, <2>2, <2>3
    <2> QED BY <2>4 DEF AllInHand
<1> QED BY <1>3, <1>4, <1>5, <1>6, Doings
LEMMA ServedAnswers ==
    ASSUME BuilderInv, AnyStep, Silent("TaskAssignmentSummary"),
           NEW r, NEW ways, NEW proj, NEW rest, NEW errors, Serves(r, ways, proj, rest, errors)
    PROVE  AnswersOf(r)'
<1>1. PICK skip : skip = Skip(r) \cup ErrorTasks(errors)
    OBVIOUS
<1>2. Skip(r)' = skip
    BY <1>1, SkipAfter
<1>3. /\ About("TaskAssignmentSummary", r)' = About("TaskAssignmentSummary", r)
      /\ \A j \in About("TaskAssignmentSummary", r) : log'[j] = log[j]
    BY AboutKept, SilentNoNews
<1>4. About("UniqueAutomationResponse", r) = {}
    BY DEF Serves, SoFar, Outcomes
<1>5. ASSUME NEW i \in About("UniqueAutomationResponse", r)'
      PROVE  Closes(r, ways, rest, errors) /\ log'[i] = OutcomeOf(r, ways)
    <2>1. /\ i \in Published("UniqueAutomationResponse")' /\ log'[i].about = r
          /\ log'[i].type = "UniqueAutomationResponse"
        BY DEF About, Published
    <2>2. i \in News
        <3>1. Published("UniqueAutomationResponse")'
                  = Published("UniqueAutomationResponse")
                        \cup {n \in News : log'[n].type = "UniqueAutomationResponse"}
            BY OldMessages
        <3>2. \A k \in Published("UniqueAutomationResponse") : log'[k] = log[k]
            BY OldMessages
        <3> QED BY <1>4, <2>1, <3>1, <3>2 DEF About
    <2>3. log'[i] \notin errors
        BY <2>1, ServesNews
    <2>4. \A a : AskFor(r, a, proj).type # "UniqueAutomationResponse"
        BY DEF AskFor
    <2> QED BY <2>1, <2>2, <2>3, <2>4, ServesNews
<1>6. ASSUME Closes(r, ways, rest, errors), NEW j \in About("TaskAssignmentSummary", r)
      PROVE  AreOf(ways, log[j].assignments, Len(log[j].assignments), skip) /\ AreLinked(ways)
    <2>1. IsReady(ways, proj, <<>>, log[j].assignments, skip)
        BY <1>1, <1>6 DEF Closes, Serves, SoFar
    <2>2. IsAssignment(log[j].assignments)
        BY AssignmentsOf DEF BuilderInv, About, Sums
    <2> QED BY <2>1, <2>2, ReadyAtEnd
<1>7. \E j : j \in About("TaskAssignmentSummary", r)
    <2>1. PICK j \in Sums' : log'[j].about = r
        BY DEF Serves, SoFar, SummaryRead, ReadBy, Sums
    <2>2. j \in Sums /\ log'[j] = log[j]
        BY <2>1, StillPublished, OldMessages DEF Sums
    <2> QED BY <2>1, <2>2 DEF About, Sums
<1>8. ASSUME NEW i \in About("UniqueAutomationResponse", r)'
      PROVE  /\ AreLinked(log'[i].missions)
             /\ \A j \in About("TaskAssignmentSummary", r)' :
                   AreOf(log'[i].missions, log'[j].assignments, Len(log'[j].assignments), Skip(r)')
    <2>1. log'[i].missions = ways /\ Closes(r, ways, rest, errors)
        BY <1>5 DEF OutcomeOf
    <2> QED BY <1>2, <1>3, <1>6, <1>7, <2>1
<1> QED BY <1>8 DEF AnswersOf

LEMMA AllAnsweredKept ==
    ASSUME BuilderInv, AnyStep, StepKinds, SummariesOnce'
    PROVE  AllAnswered'
<1>1. BusOK /\ BuiltAreRead /\ AllAnswered
    BY DEF BuilderInv
<1>2. ASSUME NEW S, Concerns(S), NEW x \in Request, x \notin S
      PROVE  AnswersOf(x)'
    <2>1. NoNews("UniqueAutomationResponse", x) /\ NoNews("ServiceStatus", x)
        BY <1>2 DEF Concerns
    <2>2. CASE About("UniqueAutomationResponse", x) = {}
        <3>1. About("UniqueAutomationResponse", x)' = {}
            BY <2>1, <2>2, AboutKept
        <3> QED BY <3>1 DEF AnswersOf
    <2>3. CASE About("UniqueAutomationResponse", x) # {}
        <3>1. SummaryRead(x)
            BY <1>1, <2>3 DEF BuiltAreRead, About
        <3>2. AnswersOf(x)
            BY <1>1 DEF AllAnswered
        <3> QED BY <2>1, <3>1, <3>2, AnswersKept
    <2> QED BY <2>2, <2>3
<1>3. CASE BuilderAway
    <2>1. Concerns({})
        BY <1>1, <1>3, AwayConcerns
    <2> QED BY <1>2, <2>1 DEF AllAnswered
<1>4. ASSUME NEW i, OfBuilder(i), Pauses(i)
      PROVE  AllAnswered'
    <2>1. Concerns({})
        BY <1>4, PausesConcerns DEF OfBuilder
    <2> QED BY <1>2, <2>1 DEF AllAnswered
<1>5. ASSUME NEW i, OfBuilder(i), Refused(i)
      PROVE  AllAnswered'
    <2>1. PICK r : r = log[i].about
        OBVIOUS
    <2>2. Concerns({r}) /\ Outcomes(r) = {} /\ Silent("UniqueAutomationResponse")
        BY <1>5, <2>1, RefusedConcerns, RefusedIsNew
    <2>3. About("UniqueAutomationResponse", r)' = {}
        <3>1. About("UniqueAutomationResponse", r) = {}
            BY <2>2 DEF Outcomes
        <3> QED BY <2>2, <3>1, AboutKept, SilentNoNews
    <2>4. AnswersOf(r)'
        BY <2>3 DEF AnswersOf
    <2>5. \A x \in Request : x = r \/ x \notin {r}
        OBVIOUS
    <2>6. \A x \in Request : AnswersOf(x)'
        BY <1>2, <2>2, <2>4, <2>5
    <2> QED BY <2>6 DEF AllAnswered
<1>6. ASSUME NEW r, NEW ways, NEW proj, NEW rest, NEW errors, Serves(r, ways, proj, rest, errors),
             Silent("TaskAssignmentSummary")
      PROVE  AllAnswered'
    <2>1. Concerns({r})
        BY <1>6, ServesConcerns
    <2>2. AnswersOf(r)'
        BY <1>6, ServedAnswers
    <2>3. \A x \in Request : x = r \/ x \notin {r}
        OBVIOUS
    <2>4. \A x \in Request : AnswersOf(x)'
        BY <1>2, <2>1, <2>2, <2>3
    <2> QED BY <2>4 DEF AllAnswered
<1> QED BY <1>3, <1>4, <1>5, <1>6, Doings
-----------------------------------------------------------------------------
(***************************************************************************)
(* What a step of task t changes of its state, and that it changes no      *)
(* other's.                                                                *)
(***************************************************************************)
Same(t) ==
    /\ builtFor'[t] = builtFor[t] /\ awaited'[t] = awaited[t]
    /\ implementing'[t] = implementing[t] /\ pendingRoutes'[t] = pendingRoutes[t] /\ plans'[t] = plans[t]
AreOfTasks ==
    /\ DOMAIN builtFor' = Task /\ DOMAIN awaited' = Task /\ DOMAIN implementing' = Task
    /\ DOMAIN pendingRoutes' = Task /\ DOMAIN plans' = Task
Begins(t, i) ==
    /\ IsRequest(log[i]) /\ builtFor'[t] = log[i].about /\ implementing'[t] = {}
    /\ pendingRoutes'[t] = Inside(t) /\ plans'[t] = {"inside"} \ Inside(t)
    /\ \/ t \in Routed /\ (\E x : awaited'[t] = {x}) /\ OnlyPlanRequests
       \/ t \notin Routed /\ awaited'[t] = {} /\ Sent(OfferOf(t, log[i].about))
GetsOptions(t, i) ==
    /\ log[i].id \in awaited[t] /\ awaited'[t] = awaited[t] \ {log[i].id}
    /\ builtFor'[t] = builtFor[t] /\ implementing'[t] = implementing[t] /\ plans'[t] = plans[t]
    /\ pendingRoutes'[t] = pendingRoutes[t] \ log[i].routes
    /\ News = {} \/ Sent(OfferOf(t, builtFor[t]))
GetsAsked(t, i) ==
    /\ IsAsk(log[i])
    /\ \E n : implementing'[t] = implementing[t] \cup {[id |-> n, request |-> i]}
    /\ pendingRoutes'[t] = pendingRoutes[t] \cup RoutesOf(t)
    /\ builtFor'[t] = builtFor[t] /\ awaited'[t] = awaited[t] /\ plans'[t] = plans[t]
    /\ OnlyPlanRequests
GetsRoutes(t, i, p) ==
    /\ p \in implementing[t] /\ implementing'[t] = implementing[t] \ {p}
    /\ pendingRoutes'[t] = pendingRoutes[t] \ log[i].routes
    /\ plans'[t] = plans[t] \cup (pendingRoutes[t] \cap log[i].routes)
    /\ builtFor'[t] = builtFor[t] /\ awaited'[t] = awaited[t]
    /\ \/ News = {}
       \/ \E n \in Nat : pendingRoutes'[t] = {} /\ Sent(Answer(t, p.request, n))
Rests(t) == Same(t) /\ News = {}
TaskChanges(t, i) ==
    /\ AreOfTasks /\ \A x \in Task \ {t} : Same(x)
    /\ \/ Rests(t) \/ Begins(t, i) \/ GetsOptions(t, i) \/ GetsAsked(t, i)
       \/ \E p : GetsRoutes(t, i, p)

LEMMA Changes ==
    ASSUME TasksOK, NEW t \in Task, NEW i, TaskKinds(t, i)
    PROVE  TaskChanges(t, i)
<1>1. /\ DOMAIN builtFor = Task /\ DOMAIN awaited = Task /\ DOMAIN implementing = Task
      /\ DOMAIN pendingRoutes = Task /\ DOMAIN plans = Task
    BY DEF TasksOK
<1>2. CASE Idle
    BY <1>1, <1>2 DEF Idle, taskState, TaskChanges, AreOfTasks, Same, Rests
<1>3. CASE Restarts(t, i)
    <2>1. /\ builtFor'[t] = log[i].about /\ implementing'[t] = {} /\ pendingRoutes'[t] = Inside(t)
          /\ plans'[t] = {"inside"} \ Inside(t)
          /\ DOMAIN builtFor' = Task /\ DOMAIN implementing' = Task
          /\ DOMAIN pendingRoutes' = Task /\ DOMAIN plans' = Task
          /\ \A x \in Task \ {t} : /\ builtFor'[x] = builtFor[x] /\ implementing'[x] = implementing[x]
                                   /\ pendingRoutes'[x] = pendingRoutes[x] /\ plans'[x] = plans[x]
        BY <1>1, <1>3 DEF Restarts
    <2>2. CASE t \in Routed /\ (\E y : awaited' = [awaited EXCEPT ![t] = {y}]) /\ OnlyPlanRequests
        <3>1. PICK y : awaited' = [awaited EXCEPT ![t] = {y}]
            BY <2>2
        <3>2. awaited'[t] = {y} /\ DOMAIN awaited' = Task /\ \A x \in Task \ {t} : awaited'[x] = awaited[x]
            BY <1>1, <3>1
        <3>3. Begins(t, i)
            BY <1>3, <2>1, <2>2, <3>2 DEF Begins, Restarts
        <3> QED BY <2>1, <3>2, <3>3 DEF TaskChanges, AreOfTasks, Same
    <2>3. CASE t \notin Routed /\ awaited' = [awaited EXCEPT ![t] = {}] /\ Sent(OfferOf(t, log[i].about))
        <3>1. awaited'[t] = {} /\ DOMAIN awaited' = Task /\ \A x \in Task \ {t} : awaited'[x] = awaited[x]
            BY <1>1, <2>3
        <3>2. Begins(t, i)
            BY <1>3, <2>1, <2>3, <3>1 DEF Begins, Restarts
        <3> QED BY <2>1, <3>1, <3>2 DEF TaskChanges, AreOfTasks, Same
    <2> QED BY <1>3, <2>2, <2>3 DEF Restarts
<1>4. CASE TakesOptions(t, i)
    <2>1. /\ awaited'[t] = awaited[t] \ {log[i].id} /\ pendingRoutes'[t] = pendingRoutes[t] \ log[i].routes
          /\ DOMAIN awaited' = Task /\ DOMAIN pendingRoutes' = Task
          /\ \A x \in Task \ {t} : awaited'[x] = awaited[x] /\ pendingRoutes'[x] = pendingRoutes[x]
          /\ UNCHANGED <<builtFor, implementing, plans>>
        BY <1>1, <1>4 DEF TakesOptions
    <2>2. GetsOptions(t, i)
        BY <1>4, <2>1 DEF GetsOptions, TakesOptions
    <2> QED BY <1>1, <2>1, <2>2 DEF TaskChanges, AreOfTasks, Same
<1>5. CASE Takes(t, i)
    <2>1. PICK n : implementing' = [implementing EXCEPT ![t] = @ \cup {[id |-> n, request |-> i]}]
        BY <1>5 DEF Takes
    <2>2. /\ implementing'[t] = implementing[t] \cup {[id |-> n, request |-> i]}
          /\ DOMAIN implementing' = Task
          /\ \A x \in Task \ {t} : implementing'[x] = implementing[x]
        BY <1>1, <2>1
    <2>3. /\ pendingRoutes'[t] = pendingRoutes[t] \cup RoutesOf(t) /\ DOMAIN pendingRoutes' = Task
          /\ \A x \in Task \ {t} : pendingRoutes'[x] = pendingRoutes[x]
          /\ UNCHANGED <<builtFor, awaited, plans>>
        BY <1>1, <1>5 DEF Takes
    <2>4. GetsAsked(t, i)
        BY <1>5, <2>2, <2>3 DEF GetsAsked, Takes
    <2> QED BY <1>1, <2>2, <2>3, <2>4 DEF TaskChanges, AreOfTasks, Same
<1>6. ASSUME NEW p \in implementing[t], Implements(t, i, p)
      PROVE  TaskChanges(t, i)
    <2>1. /\ implementing'[t] = implementing[t] \ {p} /\ DOMAIN implementing' = Task
          /\ \A x \in Task \ {t} : implementing'[x] = implementing[x]
        BY <1>1, <1>6 DEF Implements
    <2>2. /\ pendingRoutes'[t] = pendingRoutes[t] \ log[i].routes /\ DOMAIN pendingRoutes' = Task
          /\ \A x \in Task \ {t} : pendingRoutes'[x] = pendingRoutes[x]
        BY <1>1, <1>6 DEF Implements
    <2>3. /\ plans'[t] = plans[t] \cup Taken(t, i) /\ DOMAIN plans' = Task
          /\ \A x \in Task \ {t} : plans'[x] = plans[x]
          /\ UNCHANGED <<builtFor, awaited>>
        BY <1>1, <1>6 DEF Implements
    <2>4. GetsRoutes(t, i, p)
        BY <1>6, <2>1, <2>2, <2>3 DEF GetsRoutes, Implements, Taken
    <2> QED BY <1>1, <2>1, <2>2, <2>3, <2>4 DEF TaskChanges, AreOfTasks, Same
<1> QED BY <1>2, <1>3, <1>4, <1>5, <1>6 DEF TaskKinds

ByTask(t, i) == HasRead(t, i) /\ TaskChanges(t, i) /\ OfTask(t, i) /\ TaskKinds(t, i)
LEMMA TaskDoings ==
    ASSUME BusOK, TasksOK, AnyStep, StepKinds
    PROVE  TasksAway \/ \E t \in Task : \E i : ByTask(t, i)
<1>1. CASE OfWorld
    BY <1>1, WorldLeaves
<1>2. ASSUME NEW i, OfBuilder(i), BuilderKinds(i)
      PROVE  TasksAway
    BY <1>2, BuilderLeaves
<1>3. ASSUME NEW t \in Task, NEW i, OfTask(t, i), TaskKinds(t, i)
      PROVE  ByTask(t, i)
    BY <1>3, Changes DEF ByTask, OfTask
<1> QED BY <1>1, <1>2, <1>3 DEF StepKinds, OfWorld

LEMMA TasksOKKept ==
    ASSUME BusOK, TasksOK, AnyStep, StepKinds
    PROVE  TasksOK'
<1>1. CASE TasksAway
    BY <1>1 DEF TasksAway, TasksOK
<1>2. ASSUME NEW t \in Task, NEW i, ByTask(t, i)
      PROVE  TasksOK'
    <2>1. AreOfTasks /\ \A x \in Task \ {t} : Same(x)
        BY <1>2 DEF ByTask, TaskChanges
    <2>2. pendingRoutes[t] \subseteq {"inside", "transition"} /\ plans[t] \subseteq {"inside", "transition"}
        BY DEF TasksOK
    <2>3. Inside(t) \subseteq {"inside", "transition"} /\ RoutesOf(t) \subseteq {"inside", "transition"}
        BY DEF Inside, RoutesOf
    <2>4. /\ pendingRoutes'[t] \subseteq {"inside", "transition"}
          /\ plans'[t] \subseteq {"inside", "transition"}
        <3>1. CASE Rests(t)
            BY <2>2, <3>1 DEF Same, Rests
        <3>2. CASE Begins(t, i)
            BY <2>2, <2>3, <3>2 DEF Begins
        <3>3. CASE GetsOptions(t, i)
            BY <2>2, <2>3, <3>3 DEF GetsOptions
        <3>4. CASE GetsAsked(t, i)
            BY <2>2, <2>3, <3>4 DEF GetsAsked
        <3>5. ASSUME NEW p, GetsRoutes(t, i, p)
              PROVE  /\ pendingRoutes'[t] \subseteq {"inside", "transition"}
                     /\ plans'[t] \subseteq {"inside", "transition"}
            BY <2>2, <3>5 DEF GetsRoutes
        <3> QED BY <1>2, <3>1, <3>2, <3>3, <3>4, <3>5 DEF ByTask, TaskChanges
    <2> QED BY <2>1, <2>4 DEF TasksOK, AreOfTasks, Same
<1> QED BY <1>1, <1>2, TaskDoings

LEMMA BusOKKept ==
    ASSUME BuilderInv, TasksOK, AnyStep, StepKinds
    PROVE  BusOK'
<1>1. BusOK
    BY DEF BuilderInv
<1>2. \A n \in News : IsMessage(log'[n])
    <2>1. CASE OfWorld
        BY <2>1 DEF OfWorld, Reported, Requested, Summarized, RoutesPlanned, Sent, IsNewSummary, IsMessage
    <2>2. ASSUME NEW i, OfBuilder(i), BuilderKinds(i)
          PROVE  \A n \in News : IsMessage(log'[n])
        BY <2>2, BuilderMessages
    <2>3. ASSUME NEW t \in Task, NEW i, OfTask(t, i), TaskKinds(t, i)
          PROVE  \A n \in News : IsMessage(log'[n])
        BY <1>1, <2>3, TaskLeaves DEF IsMessage
    <2> QED BY <2>1, <2>2, <2>3 DEF StepKinds, OfWorld
<1>3. DOMAIN log' = DOMAIN log \cup News /\ IsSequence(log')
    BY Growing DEF AnyStep, LogGrown
<1>4. \A i \in DOMAIN log : IsMessage(log'[i])
    BY <1>1, OldMessages DEF BusOK
<1>5. \A i \in DOMAIN log' : IsMessage(log'[i])
    BY <1>2, <1>3, <1>4
<1> QED BY <1>3, <1>5 DEF BusOK, AnyStep
-----------------------------------------------------------------------------
(***************************************************************************)
(* A task answers what it was asked, and once.                             *)
(***************************************************************************)
LEMMA AsksStay ==
    ASSUME BusOK, AnyStep
    PROVE  /\ Asks \subseteq Asks'
           /\ \A j \in Asks : /\ log'[j] = log[j] /\ j \in Nat /\ log[j].to \in Task
                              /\ j <= read[log[j].to] => j <= read'[log[j].to]
<1>1. Asks \subseteq Asks' /\ \A j \in Asks : log'[j] = log[j] /\ j \in Nat /\ j \in DOMAIN log
    BY OldMessages DEF Asks
<1>2. ASSUME NEW j \in Asks
      PROVE  log[j].to \in Task /\ (j <= read[log[j].to] => j <= read'[log[j].to])
    <2>1. log[j].to \in Task
        BY <1>1, TypeTells DEF BusOK, Asks, Published, IsAsk
    <2>2. PICK t \in Task : t = log[j].to
        BY <2>1
    <2>3. t \in Service
        BY TaskIsService
    <2>4. read[t] \in Nat /\ read'[t] \in Nat /\ read[t] <= read'[t] /\ j \in Nat
        BY <1>1, <2>3 DEF AnyStep, BusOK
    <2>5. j <= read[t] => j <= read'[t]
        BY <2>4
    <2> QED BY <2>2, <2>5
<1> QED BY <1>1, <1>2

LEMMA AnswerIs ==
    ASSUME NEW t, NEW j, NEW n, log[j].to = t
    PROVE  /\ IsAnswerTo(Answer(t, j, n), log[j]) /\ Answer(t, j, n).type = "TaskImplementationResponse"
           /\ Answer(t, j, n).id = log[j].id
BY DEF IsAnswerTo, Answer

(* Only a task that has the routes to implement answers.                   *)
LEMMA WhoAnswers ==
    ASSUME BusOK, TasksOK, AnyStep, StepKinds
    PROVE  \/ Silent("TaskImplementationResponse")
           \/ \E t \in Task : \E i, p : \E n \in Nat :
                 /\ ByTask(t, i) /\ GetsRoutes(t, i, p)
                 /\ pendingRoutes'[t] = {} /\ Sent(Answer(t, p.request, n))
<1>1. CASE TasksAway
    BY <1>1 DEF TasksAway
<1>2. ASSUME NEW t \in Task, NEW i, ByTask(t, i)
      PROVE  \/ Silent("TaskImplementationResponse")
             \/ \E p : \E n \in Nat : GetsRoutes(t, i, p) /\ pendingRoutes'[t] = {}
                                      /\ Sent(Answer(t, p.request, n))
    <2>1. CASE Rests(t)
        BY <2>1 DEF Rests, Silent
    <2>2. \A r : OfferOf(t, r).type = "TaskPlanOptions"
        BY DEF OfferOf
    <2>3. CASE Begins(t, i)
        BY <2>2, <2>3 DEF Begins, OnlyPlanRequests, IsPlanRequest, Sent, Silent
    <2>4. CASE GetsOptions(t, i)
        BY <2>2, <2>4 DEF GetsOptions, Sent, Silent
    <2>5. CASE GetsAsked(t, i)
        BY <2>5 DEF GetsAsked, OnlyPlanRequests, IsPlanRequest, Silent
    <2>6. ASSUME NEW p, GetsRoutes(t, i, p)
          PROVE  \/ Silent("TaskImplementationResponse")
                 \/ \E n \in Nat : GetsRoutes(t, i, p) /\ pendingRoutes'[t] = {}
                                   /\ Sent(Answer(t, p.request, n))
        BY <2>6 DEF GetsRoutes, Silent
    <2> QED BY <1>2, <2>1, <2>3, <2>4, <2>5, <2>6 DEF ByTask, TaskChanges
<1> QED BY <1>1, <1>2, TaskDoings

LEMMA AnswersOnceKept ==
    ASSUME BusOK, TasksOK, ImplementedAreAsked, AnswersOnce, AnyStep, StepKinds
    PROVE  AnswersOnce'
<1>1. /\ Answers' = Answers \cup {n \in News : log'[n].type = "TaskImplementationResponse"}
      /\ \A i \in Answers : log'[i] = log[i]
    BY OldMessages DEF Answers
<1>2. \A j \in Asks : /\ j \in Asks' /\ log'[j] = log[j]
                      /\ j <= read[log[j].to] => j <= read'[log[j].to]
    BY AsksStay
<1>3. ASSUME NEW i \in Answers
      PROVE  \E j \in Asks' : j <= read'[log'[j].to] /\ IsAnswerTo(log'[i], log'[j])
    BY <1>1, <1>2 DEF AnswersOnce
<1>4. CASE Silent("TaskImplementationResponse")
    <2>1. Answers' = Answers
        BY <1>1, <1>4 DEF Silent
    <2> QED BY <1>1, <1>3, <2>1 DEF AnswersOnce
<1>5. ASSUME NEW t \in Task, NEW i, NEW p, NEW n \in Nat,
             GetsRoutes(t, i, p), Sent(Answer(t, p.request, n))
      PROVE  AnswersOnce'
    <2> DEFINE new == Len(log) + 1
               j == p.request
    <2>1. p \in implementing[t]
        BY <1>5 DEF GetsRoutes
    <2>2. /\ j \in Asks /\ log[j].to = t /\ j <= read[t]
          /\ \A k \in Answers : log[k].id # log[j].id
        BY <2>1 DEF ImplementedAreAsked
    <2>3. News = {new} /\ log'[new] = Answer(t, j, n)
        BY <1>5 DEF Sent
    <2>4. /\ IsAnswerTo(log'[new], log[j]) /\ log'[new].type = "TaskImplementationResponse"
          /\ log'[new].id = log[j].id
        <3>1. PICK m : m = Answer(t, j, n)
            OBVIOUS
        <3>2. /\ IsAnswerTo(Answer(t, j, n), log[j])
              /\ Answer(t, j, n).type = "TaskImplementationResponse"
              /\ Answer(t, j, n).id = log[j].id
            BY <2>2, AnswerIs
        <3>3. IsAnswerTo(m, log[j]) /\ m.type = "TaskImplementationResponse" /\ m.id = log[j].id
            BY <3>1, <3>2
        <3>4. log'[new] = m
            BY <2>3, <3>1
        <3> QED BY <3>3, <3>4
    <2>5. Answers' = Answers \cup {new}
        BY <1>1, <2>3, <2>4
    <2>6. ASSUME NEW k \in Answers'
          PROVE  \E a \in Asks' : a <= read'[log'[a].to] /\ IsAnswerTo(log'[k], log'[a])
        <3>1. CASE k = new
            BY <1>2, <2>2, <2>4, <3>1
        <3> QED BY <1>3, <2>5, <3>1
    <2>7. ASSUME NEW k \in Answers', NEW l \in Answers', log'[k].id = log'[l].id
          PROVE  k = l
        BY <1>1, <2>2, <2>4, <2>5, <2>7 DEF AnswersOnce
    <2> QED BY <2>6, <2>7 DEF AnswersOnce
<1> QED BY <1>4, <1>5, WhoAnswers

LEMMA ImplementedAreAskedKept ==
    ASSUME BusOK, TasksOK, AsksExpected, AnswersOnce, ImplementedAreAsked, AnyStep, StepKinds
    PROVE  ImplementedAreAsked'
<1>1. /\ Answers' = Answers \cup {n \in News : log'[n].type = "TaskImplementationResponse"}
      /\ \A i \in Answers : log'[i] = log[i]
    BY OldMessages DEF Answers
<1>2. \A j \in Asks : /\ j \in Asks' /\ log'[j] = log[j] /\ j \in Nat
                      /\ j <= read[log[j].to] => j <= read'[log[j].to]
    BY AsksStay
(* What is still being implemented, if it is not what is answered. *)
<1>3. ASSUME NEW x \in Task, NEW p \in implementing[x],
             \A n \in News : log'[n].type = "TaskImplementationResponse" => log'[n].id # log[p.request].id
      PROVE  /\ p.request \in Asks' /\ log'[p.request].to = x /\ p.request <= read'[x]
             /\ \A i \in Answers' : log'[i].id # log'[p.request].id
    BY <1>1, <1>2, <1>3 DEF ImplementedAreAsked
<1>4. ASSUME Silent("TaskImplementationResponse"), NEW x \in Task, implementing'[x] \subseteq implementing[x]
      PROVE  /\ \A p \in implementing'[x] :
                   /\ p.request \in Asks' /\ log'[p.request].to = x /\ p.request <= read'[x]
                   /\ \A i \in Answers' : log'[i].id # log'[p.request].id
             /\ \A p, q \in implementing'[x] : p.request = q.request => p = q
    BY <1>3, <1>4 DEF ImplementedAreAsked, Silent
<1>5. CASE TasksAway
    BY <1>4, <1>5 DEF TasksAway, ImplementedAreAsked
<1>6. ASSUME NEW t \in Task, NEW i, ByTask(t, i), Silent("TaskImplementationResponse"),
             implementing'[t] \subseteq implementing[t]
      PROVE  ImplementedAreAsked'
    <2>1. \A x \in Task : implementing'[x] \subseteq implementing[x]
        BY <1>6 DEF ByTask, TaskChanges, Same
    <2> QED BY <1>4, <1>6, <2>1 DEF ImplementedAreAsked
<1>7. ASSUME NEW t \in Task, NEW i, ByTask(t, i), GetsAsked(t, i)
      PROVE  ImplementedAreAsked'
    <2>1. Silent("TaskImplementationResponse")
        BY <1>7 DEF GetsAsked, OnlyPlanRequests, IsPlanRequest, Silent
    <2>2. \A x \in Task \ {t} : implementing'[x] = implementing[x]
        BY <1>7 DEF ByTask, TaskChanges, Same
    <2>3. PICK n : implementing'[t] = implementing[t] \cup {[id |-> n, request |-> i]}
        BY <1>7 DEF GetsAsked
    <2>4. i \in Nat /\ read[t] \in Nat /\ read[t] < i /\ read'[t] = i /\ log[i].to = t /\ i \in DOMAIN log
        BY <1>7, TaskReads DEF ByTask, GetsAsked
    <2>5. i \in Asks
        BY <1>7, <2>4 DEF GetsAsked, IsAsk, Asks, Published
    <2>6. \A k \in Answers : log[k].id # log[i].id
        <3> SUFFICES ASSUME NEW k \in Answers, log[k].id = log[i].id
                     PROVE  FALSE
            OBVIOUS
        <3>1. PICK j \in Asks : j <= read[log[j].to] /\ IsAnswerTo(log[k], log[j])
            BY DEF AnswersOnce
        <3>2. j = i
            BY <2>5, <3>1 DEF IsAnswerTo, AsksExpected
        <3>3. i <= read[t]
            BY <2>4, <3>1, <3>2
        <3> QED BY <2>4, <3>3
    <2>7. Answers' = Answers
        BY <1>1, <2>1 DEF Silent
    <2>8. \A p \in implementing[t] : p.request # i
        <3> SUFFICES ASSUME NEW p \in implementing[t], p.request = i
                     PROVE  FALSE
            OBVIOUS
        <3>1. i <= read[t]
            BY DEF ImplementedAreAsked
        <3> QED BY <2>4, <3>1
    <2>9. ASSUME NEW p \in implementing'[t]
          PROVE  /\ p.request \in Asks' /\ log'[p.request].to = t /\ p.request <= read'[t]
                 /\ \A k \in Answers' : log'[k].id # log'[p.request].id
        <3>1. CASE p \in implementing[t]
            BY <1>3, <2>1, <3>1 DEF Silent
        <3>2. CASE p = [id |-> n, request |-> i]
            <4>1. p.request = i
                BY <3>2
            <4>2. i <= read'[t]
                BY <2>4
            <4> QED BY <1>1, <1>2, <2>4, <2>5, <2>6, <2>7, <4>1, <4>2
        <3> QED BY <2>3, <3>1, <3>2
    <2>10. \A p, q \in implementing'[t] : p.request = q.request => p = q
        BY <2>3, <2>8 DEF ImplementedAreAsked
    <2>11. ASSUME NEW x \in Task, x # t
           PROVE  /\ \A p \in implementing'[x] :
                        /\ p.request \in Asks' /\ log'[p.request].to = x /\ p.request <= read'[x]
                        /\ \A k \in Answers' : log'[k].id # log'[p.request].id
                  /\ \A p, q \in implementing'[x] : p.request = q.request => p = q
        BY <1>4, <2>1, <2>2, <2>11
    <2> QED BY <2>9, <2>10, <2>11 DEF ImplementedAreAsked
<1>8. ASSUME NEW t \in Task, NEW i, NEW p, NEW n \in Nat, ByTask(t, i), GetsRoutes(t, i, p),
             Sent(Answer(t, p.request, n))
      PROVE  ImplementedAreAsked'
    <2>1. /\ p \in implementing[t] /\ implementing'[t] = implementing[t] \ {p}
          /\ \A x \in Task \ {t} : implementing'[x] = implementing[x]
        BY <1>8 DEF GetsRoutes, ByTask, TaskChanges, Same
    <2>2. p.request \in Asks /\ log[p.request].to = t
        BY <2>1 DEF ImplementedAreAsked
    <2>3. \A k \in News : log'[k].id = log[p.request].id
        BY <1>8, <2>2, AnswerIs DEF Sent
    <2>4. ASSUME NEW x \in Task, NEW q \in implementing'[x]
          PROVE  q \in implementing[x] /\ log[q.request].id # log[p.request].id
        <3>1. q \in implementing[x]
            BY <2>1, <2>4
        <3>2. q.request \in Asks /\ log[q.request].to = x
            BY <3>1 DEF ImplementedAreAsked
        <3>3. q.request # p.request
            <4>1. CASE x = t
                BY <2>1, <2>4, <3>1, <4>1 DEF ImplementedAreAsked
            <4>2. CASE x # t
                BY <2>2, <3>2, <4>2
            <4> QED BY <4>1, <4>2
        <3> QED BY <2>2, <3>1, <3>2, <3>3 DEF AsksExpected
    <2>5. ASSUME NEW x \in Task, NEW q \in implementing'[x]
          PROVE  /\ q.request \in Asks' /\ log'[q.request].to = x /\ q.request <= read'[x]
                 /\ \A k \in Answers' : log'[k].id # log'[q.request].id
        <3>1. q \in implementing[x] /\ log[q.request].id # log[p.request].id
            BY <2>4, <2>5
        <3> QED BY <1>3, <2>3, <3>1
    <2>6. ASSUME NEW x \in Task, NEW q \in implementing'[x], NEW s \in implementing'[x], q.request = s.request
          PROVE  q = s
        BY <2>4, <2>6 DEF ImplementedAreAsked
    <2> QED BY <2>5, <2>6 DEF ImplementedAreAsked
<1>9. ASSUME NEW t \in Task, NEW i, ByTask(t, i)
      PROVE  \/ GetsAsked(t, i) \/ implementing'[t] \subseteq implementing[t]
    BY <1>9 DEF ByTask, TaskChanges, Rests, Same, Begins, GetsOptions, GetsRoutes
<1>10. CASE Silent("TaskImplementationResponse")
    BY <1>5, <1>6, <1>7, <1>9, <1>10, TaskDoings
<1> QED BY <1>8, <1>10, WhoAnswers
-----------------------------------------------------------------------------
(***************************************************************************)
(* What was offered is kept, and an assignment is of what was offered.     *)
(***************************************************************************)
LEMMA OffersStay ==
    ASSUME AnyStep, NEW t, NEW r
    PROVE  Offers(t, r) \subseteq Offers(t, r)'
<1>1. \A i \in Published("TaskPlanOptions") : i \in Published("TaskPlanOptions")' /\ log'[i] = log[i]
    BY OldMessages
<1> QED BY <1>1 DEF Offers, About

LEMMA OffersBackedKept ==
    ASSUME BusOK, SummariesOnce, OffersBacked, AnyStep, StepKinds, PublishedOnce
    PROVE  OffersBacked'
<1>1. ASSUME NEW r, Backed(r)
      PROVE  Backed(r)'
    BY <1>1, OffersStay DEF Backed
<1>2. ASSUME NEW r \in Request, NoNews("TaskAssignmentSummary", r), About("TaskAssignmentSummary", r)' # {}
      PROVE  Backed(r)'
    BY <1>1, <1>2, AboutKept DEF OffersBacked
<1>3. CASE Silent("TaskAssignmentSummary")
    BY <1>2, <1>3, SilentNoNews DEF OffersBacked
<1>4. ASSUME NEW m, Sent(m), IsNewSummary(m)
      PROVE  OffersBacked'
    <2>1. PICK r : r = m.about
        OBVIOUS
    <2>2. Backed(m.about)
        BY <1>4, PublishedSummary DEF SummariesOnce, Backed
    <2>3. Backed(r)'
        BY <1>1, <2>1, <2>2
    <2>4. \A x \in Request : x # r => NoNews("TaskAssignmentSummary", x)
        BY <1>4, <2>1 DEF Sent, NoNews
    <2> QED BY <1>2, <2>3, <2>4 DEF OffersBacked
<1> QED BY <1>3, <1>4, WhoSummarizes DEF Summarized

(***************************************************************************)
(* The requests a task has read.                                           *)
(***************************************************************************)
Heard(t, r) == \E j \in ReadBy(t, "UniqueAutomationRequest") : log[j].about = r
LEMMA StillHeard ==
    ASSUME BusOK, AnyStep, NEW t \in Task, NEW r
    PROVE  (Heard(t, r) => Heard(t, r)') /\ (IsOvertaken(t, r) => IsOvertaken(t, r)')
<1>1. ReadBy(t, "UniqueAutomationRequest") \subseteq ReadBy(t, "UniqueAutomationRequest")'
    BY KeptRead, BusIsTyped, TaskIsService
<1>2. \A j \in ReadBy(t, "UniqueAutomationRequest") : log'[j] = log[j]
    BY OldMessages DEF ReadBy
<1> QED BY <1>1, <1>2 DEF Heard, IsOvertaken

LEMMA NowHeard ==
    ASSUME BusOK, AnyStep, NEW t \in Task, NEW i, ByTask(t, i), IsRequest(log[i])
    PROVE  /\ Heard(t, log[i].about)'
           /\ \A r : Heard(t, r) => IsOvertaken(t, r)'
<1>1. /\ ReadBy(t, "UniqueAutomationRequest")'
             = ReadBy(t, "UniqueAutomationRequest") \cup {j \in {i} : log[j].type = "UniqueAutomationRequest"}
      /\ \A j \in ReadBy(t, "UniqueAutomationRequest") : j < i
      /\ i \in DOMAIN log
    BY TaskReads DEF ByTask
<1>2. /\ i \in ReadBy(t, "UniqueAutomationRequest")'
      /\ \A j \in ReadBy(t, "UniqueAutomationRequest") : j \in ReadBy(t, "UniqueAutomationRequest")'
    BY <1>1 DEF IsRequest
<1>3. log'[i] = log[i] /\ \A j \in ReadBy(t, "UniqueAutomationRequest") : log'[j] = log[j]
    BY <1>1, OldMessages DEF ReadBy
<1>4. Heard(t, log[i].about)'
    <2>1. PICK r : r = log[i].about
        OBVIOUS
    <2>2. Heard(t, r)'
        BY <1>2, <1>3, <2>1 DEF Heard
    <2> QED BY <1>2, <1>3 DEF Heard
<1>5. ASSUME NEW r, Heard(t, r)
      PROVE  IsOvertaken(t, r)'
    BY <1>1, <1>2, <1>3, <1>5 DEF Heard, IsOvertaken
<1> QED BY <1>4, <1>5

LEMMA AwaitedOnceKept ==
    ASSUME BusOK, TasksOK, AwaitedOnce, AnyStep, StepKinds
    PROVE  AwaitedOnce'
<1> DEFINE Awaits(t) == /\ \A x, y \in awaited'[t] : x = y
                        /\ awaited'[t] # {} => t \in Routed /\ \E r : r = builtFor'[t] /\ Heard(t, r)'
<1>1. ASSUME NEW t \in Task, awaited'[t] \subseteq awaited[t], builtFor'[t] = builtFor[t]
      PROVE  Awaits(t)
    <2>1. PICK r : r = builtFor[t]
        OBVIOUS
    <2>2. awaited[t] # {} => t \in Routed /\ Heard(t, r)
        BY <2>1 DEF AwaitedOnce, Heard
    <2> QED BY <1>1, <2>1, <2>2, StillHeard DEF AwaitedOnce
<1>2. ASSUME NEW t \in Task, NEW i, ByTask(t, i), Begins(t, i)
      PROVE  Awaits(t)
    <2>1. PICK r : r = log[i].about
        OBVIOUS
    <2>2. Heard(t, log[i].about)'
        BY <1>2, NowHeard DEF Begins
    <2>3. log'[i] = log[i]
        BY <1>2, OldMessages DEF ByTask, HasRead
    <2>4. Heard(t, r)'
        BY <2>1, <2>2, <2>3 DEF Heard
    <2> QED BY <1>2, <2>1, <2>4 DEF Begins
<1>3. \A t \in Task : Awaits(t)
    <2>1. CASE TasksAway
        BY <1>1, <2>1 DEF TasksAway
    <2>2. ASSUME NEW t \in Task, NEW i, ByTask(t, i)
          PROVE  \A x \in Task : Awaits(x)
        <3>1. \A x \in Task \ {t} : Awaits(x)
            BY <1>1, <2>2 DEF ByTask, TaskChanges, Same
        <3>2. Awaits(t)
            <4>1. \/ Begins(t, i)
                  \/ awaited'[t] \subseteq awaited[t] /\ builtFor'[t] = builtFor[t]
                BY <2>2 DEF ByTask, TaskChanges, Rests, Same, GetsOptions, GetsAsked, GetsRoutes
            <4> QED BY <1>1, <1>2, <2>2, <4>1
        <3> QED BY <3>1, <3>2
    <2> QED BY <2>1, <2>2, TaskDoings
<1> QED BY <1>3 DEF AwaitedOnce, Heard
LEMMA StillOffered ==
    ASSUME BusOK, TasksOK, AnyStep, StepKinds, NEW t \in Task, NEW r, IsOffered(t, r)
    PROVE  IsOffered(t, r)'
<1>1. CASE IsOvertaken(t, r)
    BY <1>1, StillHeard DEF IsOffered
<1>2. CASE ~IsOvertaken(t, r)
    <2>1. builtFor[t] = r /\ awaited[t] = {} /\ (t \notin Routed => "inside" \in plans[t]) /\ Heard(t, r)
        BY <1>2 DEF IsOffered, Heard
    <2>2. ASSUME builtFor'[t] = builtFor[t], awaited'[t] \subseteq awaited[t], plans[t] \subseteq plans'[t]
          PROVE  IsOffered(t, r)'
        <3>1. Heard(t, r)'
            BY <2>1, StillHeard
        <3> QED BY <2>1, <2>2, <3>1 DEF IsOffered, Heard
    <2>3. CASE TasksAway
        BY <2>2, <2>3 DEF TasksAway
    <2>4. ASSUME NEW x \in Task, NEW i, ByTask(x, i)
          PROVE  IsOffered(t, r)'
        <3>1. CASE x # t
            BY <2>2, <2>4, <3>1 DEF ByTask, TaskChanges, Same
        <3>2. CASE x = t /\ Begins(t, i)
            BY <2>1, <2>4, <3>2, NowHeard DEF Begins, IsOffered
        <3>3. CASE x = t /\ ~Begins(t, i)
            <4>1. builtFor'[t] = builtFor[t] /\ awaited'[t] \subseteq awaited[t] /\ plans[t] \subseteq plans'[t]
                BY <2>4, <3>3 DEF ByTask, TaskChanges, Rests, Same, GetsOptions, GetsAsked, GetsRoutes
            <4> QED BY <2>2, <4>1
        <3> QED BY <3>1, <3>2, <3>3
    <2> QED BY <2>3, <2>4, TaskDoings
<1> QED BY <1>1, <1>2

(* A task offers when its options are built. *)
LEMMA NewlyOffered ==
    ASSUME BusOK, TasksOK, AwaitedOnce, AnyStep, NEW t \in Task, NEW i, ByTask(t, i),
           NEW n \in News, log'[n].type = "TaskPlanOptions", NEW r, r = log'[n].about
    PROVE  IsOffered(t, r)' /\ log'[n].task = t
<1>1. \A x : OfferOf(t, x).about = x /\ OfferOf(t, x).task = t
    BY DEF OfferOf
<1>2. CASE Begins(t, i)
    <2>1. t \notin Routed /\ awaited'[t] = {} /\ Sent(OfferOf(t, log[i].about))
        BY <1>2 DEF Begins, OnlyPlanRequests, IsPlanRequest
    <2>2. r = log[i].about /\ log'[n].task = t
        BY <1>1, <2>1 DEF Sent
    <2>3. builtFor'[t] = r /\ "inside" \in plans'[t]
        BY <1>2, <2>1, <2>2 DEF Begins, Inside
    <2>4. Heard(t, log[i].about)' /\ log'[i] = log[i]
        BY <1>2, NowHeard, OldMessages DEF Begins, ByTask, HasRead
    <2>5. Heard(t, r)'
        BY <2>2, <2>4 DEF Heard
    <2> QED BY <2>1, <2>2, <2>3, <2>5 DEF IsOffered, Heard
<1>3. CASE GetsOptions(t, i)
    <2>1. Sent(OfferOf(t, builtFor[t]))
        BY <1>3 DEF GetsOptions
    <2>2. r = builtFor[t] /\ log'[n].task = t
        BY <1>1, <2>1 DEF Sent
    <2>3. t \in Routed /\ Heard(t, r) /\ awaited'[t] = {} /\ builtFor'[t] = r
        BY <1>3, <2>2 DEF GetsOptions, AwaitedOnce, Heard
    <2>4. Heard(t, r)'
        BY <2>3, StillHeard
    <2> QED BY <2>2, <2>3, <2>4 DEF IsOffered, Heard
<1>4. ~Rests(t) /\ ~GetsAsked(t, i)
    BY DEF Rests, GetsAsked, OnlyPlanRequests, IsPlanRequest
<1>5. ASSUME NEW p, GetsRoutes(t, i, p)
      PROVE  FALSE
    <2>1. \A k : Answer(t, p.request, k).type = "TaskImplementationResponse"
        BY DEF Answer
    <2> QED BY <1>5, <2>1 DEF GetsRoutes, Sent
<1> QED BY <1>2, <1>3, <1>4, <1>5 DEF ByTask, TaskChanges

LEMMA OfferedAreBuiltKept ==
    ASSUME BusOK, TasksOK, AwaitedOnce, OfferedAreBuilt, AnyStep, StepKinds
    PROVE  OfferedAreBuilt'
<1> SUFFICES ASSUME NEW t \in Task, NEW r \in Request, Offers(t, r)' # {}
             PROVE  IsOffered(t, r)'
    BY DEF OfferedAreBuilt
<1>1. PICK n \in Published("TaskPlanOptions")' : log'[n].about = r /\ log'[n].task = t
    BY DEF Offers, About
<1>2. CASE n \in Published("TaskPlanOptions")
    <2>1. n \in Offers(t, r)
        BY <1>1, <1>2, OldMessages DEF Offers, About
    <2> QED BY <2>1, StillOffered DEF OfferedAreBuilt
<1>3. CASE n \in News /\ log'[n].type = "TaskPlanOptions"
    <2>1. ~TasksAway
        BY <1>3 DEF TasksAway, Silent
    <2>2. PICK x \in Task : \E i : ByTask(x, i)
        BY <2>1, TaskDoings
    <2>3. IsOffered(x, r)' /\ log'[n].task = x
        BY <1>1, <1>3, <2>2, NewlyOffered
    <2>4. t = x
        BY <1>1, <2>3
    <2> QED BY <2>3, <2>4
<1> QED BY <1>2, <1>3, OldMessages

(***************************************************************************)
(* When requests come one at a time, what a task implements is of the      *)
(* request it has built its options for.                                   *)
(***************************************************************************)
InTurn ==
    \A r : \A i, j \in Published("UniqueAutomationRequest") :
        i < j /\ log[i].about = r => \E k \in Outcomes(r) : k < j
LEMMA OneByOne == OneAtATime => InTurn
BY DEF OneAtATime, InTurn

LEMMA OneAtATimeBefore ==
    ASSUME AnyStep, OneAtATime'
    PROVE  OneAtATime
<1> SUFFICES ASSUME NEW i \in Published("UniqueAutomationRequest"),
                    NEW j \in Published("UniqueAutomationRequest"), i < j
             PROVE  \E k \in Outcomes(log[i].about) : k < j
    BY DEF OneAtATime
<1>1. PICK r : r = log[i].about
    OBVIOUS
<1>2. /\ i \in Published("UniqueAutomationRequest")' /\ log'[i] = log[i]
      /\ j \in Published("UniqueAutomationRequest")'
      /\ j \in Nat /\ j <= Len(log) /\ Len(log) \in Nat
    BY OldMessages
<1>3. InTurn'
    BY OneByOne, PTL
<1>4. PICK k \in Outcomes(r)' : k < j
    BY <1>1, <1>2, <1>3 DEF InTurn
<1>5. k \notin News
    BY <1>2, <1>4, OldMessages
<1> QED BY <1>1, <1>4, <1>5, OutcomesKept

LEMMA AskedOwn ==
    ASSUME BusOK, TasksOK, BuiltAreRead, OutcomesLast, AsksExpected, OffersBacked, OfferedAreBuilt,
           OneAtATime, AnyStep, NEW t \in Task, NEW i, ByTask(t, i), IsAsk(log[i])
    PROVE  /\ builtFor[t] = log[i].about /\ awaited[t] = {}
           /\ "inside" \in plans[t] \/ t \in Routed
<1> DEFINE r == log[i].about
<1>1. /\ i \in Asks /\ log[i].to = t /\ r \in Request /\ i \in Nat /\ read[t] \in Nat /\ read[t] < i
    BY TaskReads DEF ByTask, IsAsk, Asks, Published
<1>2. t \in TasksOf[r]
    BY <1>1 DEF AsksExpected
<1>3. SummaryRead(r)
    BY <1>1 DEF BuiltAreRead
<1>4. About("TaskAssignmentSummary", r) # {}
    BY <1>3 DEF SummaryRead, ReadBy, About
<1>5. IsOffered(t, r)
    BY <1>1, <1>2, <1>4 DEF OffersBacked, Backed, OfferedAreBuilt
<1>6. ~IsOvertaken(t, r)
    <2> SUFFICES ASSUME NEW j \in ReadBy(t, "UniqueAutomationRequest"),
                        NEW k \in ReadBy(t, "UniqueAutomationRequest"), log[j].about = r, j < k
                 PROVE  FALSE
        BY DEF IsOvertaken
    <2>1. /\ j \in Published("UniqueAutomationRequest") /\ k \in Published("UniqueAutomationRequest")
          /\ k <= read[t] /\ k \in Nat
        BY OldMessages DEF ReadBy
    <2>2. PICK o \in Outcomes(r) : o < k
        BY <2>1 DEF OneAtATime
    <2>3. i < o
        BY <1>1 DEF OutcomesLast
    <2>4. o \in Nat
        BY OldMessages DEF Outcomes, About, Refusals, Published
    <2> QED BY <1>1, <2>1, <2>2, <2>3, <2>4
<1> QED BY <1>5, <1>6 DEF IsOffered

LEMMA OwnTasksKept ==
    ASSUME BusOK, TasksOK, BuiltAreRead, OutcomesLast, AsksExpected, ImplementedAreAsked, OffersBacked,
           OfferedAreBuilt, OwnTasks, AnyStep, StepKinds
    PROVE  OwnTasks'
<1> SUFFICES ASSUME OneAtATime'
             PROVE  \A t \in Task : Owns(t)'
    BY DEF OwnTasks
<1>1. OneAtATime /\ \A t \in Task : Owns(t)
    BY OneAtATimeBefore DEF OwnTasks
<1>2. \A t \in Task : \A p \in implementing[t] : log'[p.request] = log[p.request]
    BY AsksStay DEF ImplementedAreAsked
<1>3. ASSUME NEW t \in Task, builtFor'[t] = builtFor[t], awaited'[t] = awaited[t],
             implementing'[t] \subseteq implementing[t],
             plans[t] \cup pendingRoutes[t] \subseteq plans'[t] \cup pendingRoutes'[t]
      PROVE  Owns(t)'
    BY <1>1, <1>2, <1>3 DEF Owns
<1>4. CASE TasksAway
    BY <1>3, <1>4 DEF TasksAway
<1>5. ASSUME NEW t \in Task, NEW i, ByTask(t, i)
      PROVE  \A x \in Task : Owns(x)'
    <2>1. \A x \in Task \ {t} : Owns(x)'
        BY <1>3, <1>5 DEF ByTask, TaskChanges, Same
    <2> SUFFICES Owns(t)'
        BY <2>1
    <2>2. CASE Rests(t)
        BY <1>3, <2>2 DEF Rests, Same
    <2>3. CASE Begins(t, i)
        BY <2>3 DEF Begins, Owns
    <2>4. CASE GetsOptions(t, i)
        BY <1>1, <2>4 DEF GetsOptions, Owns
    <2>5. CASE GetsAsked(t, i)
        <3>1. /\ builtFor[t] = log[i].about /\ awaited[t] = {}
              /\ "inside" \in plans[t] \/ t \in Routed
            BY <1>1, <1>5, <2>5, AskedOwn DEF GetsAsked
        <3>2. {"inside", "transition"} \subseteq plans'[t] \cup pendingRoutes'[t]
            BY <2>5, <3>1 DEF GetsAsked, RoutesOf, Inside
        <3>3. PICK n : implementing'[t] = implementing[t] \cup {[id |-> n, request |-> i]}
            BY <2>5 DEF GetsAsked
        <3>4. log'[i] = log[i]
            BY <1>5, OldMessages DEF ByTask, HasRead
        <3>5. \A p \in implementing[t] : log[p.request].about = builtFor[t]
            BY <1>1 DEF Owns
        <3>6. builtFor'[t] = builtFor[t] /\ awaited'[t] = {}
            BY <2>5, <3>1 DEF GetsAsked
        <3>7. \A p \in implementing'[t] : log'[p.request].about = builtFor'[t]
            <4> SUFFICES ASSUME NEW p \in implementing'[t]
                         PROVE  log'[p.request].about = builtFor'[t]
                OBVIOUS
            <4>1. CASE p \in implementing[t]
                BY <1>2, <3>5, <3>6, <4>1
            <4>2. CASE p = [id |-> n, request |-> i]
                <5>1. p.request = i
                    BY <4>2
                <5> QED BY <3>1, <3>4, <3>6, <5>1
            <4> QED BY <3>3, <4>1, <4>2
        <3> QED BY <3>2, <3>6, <3>7 DEF Owns
    <2>6. ASSUME NEW p, GetsRoutes(t, i, p)
          PROVE  Owns(t)'
        <3>1. plans[t] \cup pendingRoutes[t] \subseteq plans'[t] \cup pendingRoutes'[t]
            BY <2>6 DEF GetsRoutes
        <3> QED BY <1>3, <2>6, <3>1 DEF GetsRoutes
    <2> QED BY <1>5, <2>1, <2>2, <2>3, <2>4, <2>5, <2>6 DEF ByTask, TaskChanges
<1> QED BY <1>4, <1>5, TaskDoings

LEMMA OwnAnswersKept ==
    ASSUME BusOK, TasksOK, TasksOK', OwnTasks, OwnAnswers, AnyStep, StepKinds
    PROVE  OwnAnswers'
<1> SUFFICES ASSUME OneAtATime', NEW k \in Answers'
             PROVE  log'[k].plans = {"inside", "transition"} /\ log'[k].built = log'[k].about
    BY DEF OwnAnswers, OwnImplementationOneAtATime, ImplementationIsWhole, Answers
<1>1. OneAtATime /\ \A t \in Task : Owns(t)
    BY OneAtATimeBefore DEF OwnTasks
<1>2. k \in Answers \/ (k \in News /\ log'[k].type = "TaskImplementationResponse")
    BY OldMessages DEF Answers
<1>3. CASE k \in Answers
    <2>1. log'[k] = log[k]
        BY <1>3, OldMessages DEF Answers
    <2> QED BY <1>1, <1>3, <2>1 DEF OwnAnswers, OwnImplementationOneAtATime, ImplementationIsWhole, Answers
<1>4. CASE k \in News /\ log'[k].type = "TaskImplementationResponse"
    <2>0. PICK t \in Task : \E i, p, n : /\ GetsRoutes(t, i, p) /\ pendingRoutes'[t] = {}
                                         /\ Sent(Answer(t, p.request, n))
        BY <1>4, WhoAnswers DEF Silent
    <2>1. PICK i, p, n : /\ GetsRoutes(t, i, p) /\ pendingRoutes'[t] = {}
                         /\ Sent(Answer(t, p.request, n))
        BY <2>0
    <2>2. log'[k] = Answer(t, p.request, n)
        BY <1>4, <2>1 DEF Sent
    <2>3. /\ Answer(t, p.request, n).plans = plans'[t]
          /\ Answer(t, p.request, n).built = builtFor[t]
          /\ Answer(t, p.request, n).about = log[p.request].about
        BY DEF Answer
    <2>4. p \in implementing[t] /\ plans'[t] = plans[t] \cup (pendingRoutes[t] \cap log[i].routes)
          /\ pendingRoutes'[t] = pendingRoutes[t] \ log[i].routes
        BY <2>1 DEF GetsRoutes
    <2>5. {"inside", "transition"} \subseteq plans[t] \cup pendingRoutes[t] /\ log[p.request].about = builtFor[t]
        BY <1>1, <2>4 DEF Owns
    <2>6. plans'[t] \subseteq {"inside", "transition"}
        BY DEF TasksOK
    <2>7. plans'[t] = {"inside", "transition"}
        BY <2>1, <2>4, <2>5, <2>6
    <2> QED BY <2>2, <2>3, <2>5, <2>7
<1> QED BY <1>2, <1>3, <1>4
-----------------------------------------------------------------------------
(***************************************************************************)
(* The log grows with every step, whatever is on it, so that a request     *)
(* that is published once has never been published more often.             *)
(***************************************************************************)
IsShort(out) == out = <<>> \/ \E e : out = <<e>>
Sends(out) == log' = log \o out
LEMMA ShortIs ==
    /\ IsShort(<<>>) /\ \A m : IsShort(<<m>>)
    /\ \A out : IsShort(out) => IsSequence(out) /\ \A m : IsSequence(Append(out, m))
<1>1. IsShort(<<>>) /\ \A m : IsShort(<<m>>)
    BY DEF IsShort
<1>2. ASSUME NEW out, IsShort(out), NEW m
      PROVE  IsSequence(out) /\ IsSequence(Append(out, m))
    <2>1. IsSequence(out)
        BY <1>2, NoneOrOne DEF IsShort
    <2>2. CASE out = <<>>
        <3>1. Append(<<>>, m) = <<m>>
            OBVIOUS
        <3> QED BY <2>1, <2>2, <3>1, NoneOrOne
    <2>3. CASE \E e : out = <<e>>
        BY <2>1, <2>3, TwoSent
    <2> QED BY <1>2, <2>2, <2>3 DEF IsShort
<1> QED BY <1>1, <1>2

LEMMA SentGrows ==
    ASSUME IsSequence(log), NEW out, IsShort(out)
    PROVE  (Sends(out) => LogGrown) /\ \A m : Sends(Append(out, m)) => LogGrown
<1>1. ASSUME NEW new, IsSequence(new), Sends(new)
      PROVE  LogGrown
    BY <1>1, Sending DEF Sends
<1>2. IsSequence(out) /\ \A m : IsSequence(Append(out, m))
    BY ShortIs
<1> QED BY <1>1, <1>2

LEMMA BuilderGrows ==
    ASSUME IsSequence(log), Build
    PROVE  LogGrown
<1>1. PICK i \in DOMAIN log :
          \/ HandleEntityState(i) \/ HandleUniqueAutomationRequest(i)
          \/ HandleTaskAssignmentSummary(i) \/ HandleTaskImplementationResponse(i)
    BY DEF Build, PlanBuilderStep
<1>2. ASSUME NEW r, NEW todo, NEW proj, NEW out, IsShort(out),
             SendNextTaskImplementationRequest(i, r, todo, proj, out)
      PROVE  LogGrown
    <2>1. Sends(out) \/ \E m : Sends(Append(out, m))
        BY <1>2 DEF SendNextTaskImplementationRequest, Handled, Sends
    <2> QED BY <1>2, <2>1, SentGrows
<1>3. ASSUME NEW r, NEW proj, NEW ways, NEW out, IsShort(out), CheckNext(i, r, proj, ways, out)
      PROVE  LogGrown
    <2>1. CASE SendNextTaskImplementationRequest(i, r, remaining[r], proj, out)
        BY <1>2, <1>3, <2>1
    <2>2. CASE Handled("PlanBuilder", i,
                 Append(out, [type |-> "UniqueAutomationResponse", about |-> r, missions |-> ways]))
        <3>1. \E m : Sends(Append(out, m))
            BY <2>2 DEF Handled, Sends
        <3> QED BY <1>3, <3>1, SentGrows
    <2> QED BY <1>3, <2>1, <2>2 DEF CheckNext
<1>4. ASSUME Sends(<<>>) \/ \E m : Sends(<<m>>)
      PROVE  LogGrown
    BY <1>4, ShortIs, SentGrows
<1>5. CASE HandleEntityState(i) \/ HandleUniqueAutomationRequest(i)
    BY <1>4, <1>5 DEF HandleEntityState, HandleUniqueAutomationRequest, Handled, Sends
<1>6. CASE HandleTaskAssignmentSummary(i)
    <2>1. CASE Refuse(i, log[i].about)
        BY <1>4, <2>1 DEF Refuse, Handled, Sends
    <2>2. ASSUME NEW proj, SendNextTaskImplementationRequest(i, log[i].about, log[i].assignments, proj, <<>>)
          PROVE  LogGrown
        BY <1>2, <2>2, ShortIs
    <2> QED BY <1>6, <2>1, <2>2 DEF HandleTaskAssignmentSummary
<1>7. CASE HandleTaskImplementationResponse(i)
    <2> DEFINE r == expected[log[i].id]
    <2>1. CASE Implemented(i, r)
        BY <1>3, <2>1, ShortIs DEF Implemented
    <2>2. CASE Skipped(i, r)
        BY <1>3, <2>2, ShortIs DEF Skipped
    <2>3. CASE Handled("PlanBuilder", i, <<>>)
        BY <1>4, <2>3 DEF Handled, Sends
    <2> QED BY <1>7, <2>1, <2>2, <2>3 DEF HandleTaskImplementationResponse
<1> QED BY <1>1, <1>5, <1>6, <1>7

LEMMA TaskGrows ==
    ASSUME IsSequence(log), NEW t, Implement(t)
    PROVE  LogGrown
<1>1. PICK i \in DOMAIN log :
          \/ TakeUniqueAutomationRequest(t, i) \/ TakeUniqueAutomationResponse(t, i)
          \/ TakeTaskImplementationRequest(t, i) \/ TakeRoutePlanResponse(t, i)
    BY DEF Implement, TaskServiceStep
<1>2. ASSUME NEW out, IsShort(out), Sends(out)
      PROVE  LogGrown
    BY <1>2, SentGrows
<1>3. ASSUME Sends(<<>>) \/ \E m : Sends(<<m>>)
      PROVE  LogGrown
    BY <1>2, <1>3, ShortIs
<1>4. CASE TakeUniqueAutomationRequest(t, i)
    BY <1>3, <1>4 DEF TakeUniqueAutomationRequest, BuildTaskPlanOptions, Handled, Sends
<1>5. CASE TakeUniqueAutomationResponse(t, i)
    BY <1>3, <1>5 DEF TakeUniqueAutomationResponse, Handled, Sends
<1>6. CASE TakeTaskImplementationRequest(t, i)
    BY <1>3, <1>6 DEF TakeTaskImplementationRequest, Handled, Sends
<1>7. CASE TakeOptionsRoutes(t, i)
    BY <1>3, <1>7 DEF TakeOptionsRoutes, Handled, Sends
<1>8. CASE TakeImplementationRoutes(t, i)
    <2>1. \A j, n : IsShort(Reply(t, j, n))
        BY DEF Reply, IsShort
    <2>2. (\E out : IsShort(out) /\ Sends(out)) \/ Sends(<<>>)
        BY <1>8, <2>1 DEF TakeImplementationRoutes, Handled, Sends
    <2> QED BY <1>2, <1>3, <2>2
<1>9. CASE IgnoreRoutes(t, i)
    BY <1>3, <1>9 DEF IgnoreRoutes, Handled, Sends
<1> QED BY <1>1, <1>4, <1>5, <1>6, <1>7, <1>8, <1>9 DEF TakeRoutePlanResponse

LEMMA Grows ==
    ASSUME IsSequence(log), [Next]_vars
    PROVE  LogGrown
<1>1. CASE UNCHANGED vars
    BY <1>1, SendingNone DEF vars, bus
<1>2. ASSUME NEW m, Publish(m)
      PROVE  LogGrown
    BY <1>2, SendingOne DEF Publish
<1>3. ASSUME NEW v, ReportState(v)
      PROVE  LogGrown
    BY <1>2, <1>3 DEF ReportState
<1>4. ASSUME NEW r, SendRequest(r) \/ Summarize(r)
      PROVE  LogGrown
    BY <1>2, <1>4 DEF SendRequest, Summarize
<1>5. CASE PlanRoutes
    <2>1. Sends(<<>>) \/ \E m : Sends(<<m>>)
        BY <1>5 DEF PlanRoutes, Handled, Sends
    <2> QED BY <2>1, ShortIs, SentGrows
<1> QED BY <1>1, <1>3, <1>4, <1>5, BuilderGrows, TaskGrows DEF Next
-----------------------------------------------------------------------------
(***************************************************************************)
(* Inv holds at the start and is kept while each request has been          *)
(* published once.                                                         *)
(***************************************************************************)
LEMMA InvAtStart ==
    ASSUME Init
    PROVE  Inv
<1>1. log = <<>> /\ IsSequence(log) /\ DOMAIN log = {} /\ Len(log) = 0
    <2>1. log = <<>>
        BY DEF Init, BusInit
    <2> QED BY <2>1, NoneOrOne
<1>2. /\ \A type : Published(type) = {}
      /\ \A type, r : About(type, r) = {}
      /\ \A s, type : ReadBy(s, type) = {}
    BY <1>1 DEF Published, About, ReadBy
<1>3. /\ Asks = {} /\ Answers = {} /\ Sums = {}
      /\ \A r : Outcomes(r) = {}
      /\ \A t, r : Offers(t, r) = {}
    BY <1>2 DEF Asks, Answers, Sums, Outcomes, Refusals, Offers
<1>4. /\ read = [s \in Service |-> 0] /\ summaries = [r \in Request |-> 0]
      /\ states = {} /\ projected = [r \in Request |-> <<>>]
      /\ remaining = [r \in Request |-> <<>>] /\ nextId = 1
      /\ builtFor = [t \in Task |-> NoRequest] /\ awaited = [t \in Task |-> {}]
      /\ implementing = [t \in Task |-> {}] /\ pendingRoutes = [t \in Task |-> {}]
      /\ plans = [t \in Task |-> {}]
    BY DEF Init, BusInit, PlanBuilderInit, TaskServiceInit
<1>5. DOMAIN inProgress = {} /\ DOMAIN expected = {}
    <2>1. inProgress = <<>> /\ expected = <<>>
        BY DEF Init, PlanBuilderInit
    <2> QED BY <2>1, NoneOrOne
<1>6. BusOK
    BY <1>1, <1>4 DEF BusOK
<1>7. BuilderOK
    BY <1>4, <1>5 DEF BuilderOK
<1>8. TasksOK
    BY <1>4 DEF TasksOK
<1>9. SummariesOnce
    BY <1>3, <1>4 DEF SummariesOnce
<1>10. BuiltAreRead /\ OutcomesLast /\ AsksExpected /\ AllInHand /\ AllAnswered
    BY <1>2, <1>3, <1>5 DEF BuiltAreRead, OutcomesLast, AsksExpected, AllInHand, AllAnswered, AnswersOf
<1>11. ImplementedAreAsked /\ AnswersOnce
    BY <1>3, <1>4 DEF ImplementedAreAsked, AnswersOnce
<1>12. OffersBacked /\ OfferedAreBuilt /\ AwaitedOnce
    BY <1>2, <1>3, <1>4 DEF OffersBacked, OfferedAreBuilt, AwaitedOnce
<1>13. OwnTasks /\ OwnAnswers
    BY <1>2, <1>4 DEF OwnTasks, Owns, OwnAnswers, OwnImplementationOneAtATime, ImplementationIsWhole
<1> QED BY <1>6, <1>7, <1>8, <1>9, <1>10, <1>11, <1>12, <1>13 DEF Inv

LEMMA InvKept ==
    ASSUME Inv, [Next]_vars, PublishedOnce'
    PROVE  Inv'
<1>1. /\ BusOK /\ BuilderOK /\ TasksOK /\ SummariesOnce /\ BuiltAreRead /\ OutcomesLast /\ AsksExpected
      /\ ImplementedAreAsked /\ AnswersOnce /\ AllInHand /\ AllAnswered
      /\ OffersBacked /\ AwaitedOnce /\ OfferedAreBuilt /\ OwnTasks /\ OwnAnswers
    BY DEF Inv
<1>2. BuilderInv
    BY <1>1 DEF BuilderInv
<1>3. AnyStep /\ StepKinds
    BY <1>1, Kinds
<1>4. PublishedOnce
    BY <1>3, OnceBefore DEF AnyStep
<1>5. SummariesOnce'
    BY <1>1, <1>3, SummariesOnceKept
<1>6. BusOK' /\ TasksOK'
    BY <1>1, <1>2, <1>3, BusOKKept, TasksOKKept
<1>7. BuilderOK' /\ BuiltAreRead' /\ OutcomesLast' /\ AsksExpected'
    BY <1>2, <1>3, BuilderOKKept, BuiltAreReadKept, OutcomesLastKept, AsksExpectedKept
<1>8. AllInHand' /\ AllAnswered'
    BY <1>2, <1>3, <1>5, AllInHandKept, AllAnsweredKept
<1>9. ImplementedAreAsked' /\ AnswersOnce'
    BY <1>1, <1>3, ImplementedAreAskedKept, AnswersOnceKept
<1>10. OffersBacked' /\ AwaitedOnce' /\ OfferedAreBuilt'
    BY <1>1, <1>3, <1>4, OffersBackedKept, AwaitedOnceKept, OfferedAreBuiltKept
<1>11. OwnTasks' /\ OwnAnswers'
    BY <1>1, <1>3, <1>6, OwnTasksKept, OwnAnswersKept
<1> QED BY <1>5, <1>6, <1>7, <1>8, <1>9, <1>10, <1>11 DEF Inv

(* As long as each request has been published once, Inv holds.              *)
THEOREM Invariance == Spec => []IInv
<1>1. Init => IInv
    <2>1. Init => IsSequence(log)
        BY NoneOrOne DEF Init, BusInit
    <2> QED BY <2>1, InvAtStart DEF IInv
<1>2. IInv /\ [Next]_vars => IInv'
    <2> SUFFICES ASSUME IInv, [Next]_vars
                 PROVE  IInv'
        OBVIOUS
    <2>1. LogGrown /\ (PublishedOnce => Inv)
        BY Grows DEF IInv
    <2>2. ASSUME PublishedOnce'
          PROVE  Inv'
        BY <2>1, <2>2, OnceBefore, InvKept
    <2> QED BY <2>1, <2>2 DEF IInv, LogGrown
<1> QED BY <1>1, <1>2, PTL DEF Spec
-----------------------------------------------------------------------------
(* What has the tasks of the whole summary is a mission in its order.       *)
LEMMA WayIsMission ==
    ASSUME NEW s, IsAssignment(s), NEW v, NEW skip, NEW way, IsWayOf(way, s, Len(s), v, skip)
    PROVE  IsMissionOf(v, way, s, skip)
<1> DEFINE place == [x \in DOMAIN way |-> CHOOSE k \in DOMAIN s : s[k].task = way[x].task]
<1>1. DOMAIN way = 1 .. Len(way) /\ DOMAIN s = 1 .. Len(s) /\ Len(way) \in Nat /\ Len(s) \in Nat
    BY SequenceDomain DEF IsAssignment, IsWayOf, IsSequence
<1>2. ASSUME NEW x \in DOMAIN way
      PROVE  place[x] \in DOMAIN s /\ s[place[x]].task = way[x].task /\ IsDone(s, place[x], v, skip)
    <2>1. PICK k \in DOMAIN s : s[k].task = way[x].task /\ IsDone(s, k, v, skip)
        BY <1>1 DEF IsWayOf
    <2>2. place[x] \in DOMAIN s /\ s[place[x]].task = way[x].task
        BY <2>1
    <2>3. place[x] = k
        BY <1>1, <2>1, <2>2 DEF IsAssignment
    <2> QED BY <2>1, <2>2, <2>3
<1>3. place \in [DOMAIN way -> DOMAIN s]
    BY <1>2
<1> HIDE DEF place
<1>4. \A x, y \in DOMAIN way : x < y => place[x] < place[y]
    BY <1>1, <1>2 DEF IsWayOf
<1>5. {place[x] : x \in DOMAIN way} = {k \in DOMAIN s : s[k].vehicle = v /\ s[k].task \notin skip}
    <2>1. ASSUME NEW x \in DOMAIN way
          PROVE  place[x] \in {k \in DOMAIN s : s[k].vehicle = v /\ s[k].task \notin skip}
        BY <1>2 DEF IsDone
    <2>2. ASSUME NEW k \in DOMAIN s, s[k].vehicle = v, s[k].task \notin skip
          PROVE  k \in {place[x] : x \in DOMAIN way}
        <3>1. PICK x \in DOMAIN way : way[x].task = s[k].task
            BY <1>1, <2>2 DEF IsWayOf, IsDone
        <3>2. place[x] = k
            BY <1>1, <1>2, <3>1 DEF IsAssignment
        <3> QED BY <3>2
    <2> QED BY <2>1, <2>2
<1> QED BY <1>2, <1>3, <1>4, <1>5 DEF IsMissionOf

(* A response to a request published once gives each vehicle the tasks that *)
(* the one summary assigned to it, in its order, without those reported as  *)
(* impossible to implement: no answer that belongs to another request, or   *)
(* comes late, ever gets into it.                                           *)
THEOREM MissionsHold == Spec => [](PublishedOnce => MissionsOfTheSummary)
<1>1. IInv => (PublishedOnce => MissionsOfTheSummary)
    <2> SUFFICES ASSUME BusOK, BuiltAreRead, AllAnswered,
                        NEW r \in Request, NEW i \in About("UniqueAutomationResponse", r)
                 PROVE  \E j \in About("TaskAssignmentSummary", r) :
                            \A v \in Vehicle :
                                IsMissionOf(v, MissionOf(log[i].missions, v), log[j].assignments, Skip(r))
        BY DEF IInv, Inv, MissionsOfTheSummary
    <2>1. SummaryRead(r)
        BY DEF BuiltAreRead, About
    <2>2. PICK j \in About("TaskAssignmentSummary", r) : TRUE
        BY <2>1 DEF SummaryRead, ReadBy, About
    <2>3. IsAssignment(log[j].assignments)
        BY AssignmentsOf DEF About, Sums
    <2>4. AreOf(log[i].missions, log[j].assignments, Len(log[j].assignments), Skip(r))
        BY DEF AllAnswered, AnswersOf
    <2> QED BY <2>3, <2>4, WayIsMission DEF AreOf
<1> QED BY <1>1, Invariance, PTL

(* In such a response the waypoints of each vehicle are numbered from 1     *)
(* without gaps, and each task starts where the one before it ended.        *)
THEOREM MissionsAreLinked == Spec => [](PublishedOnce => MissionIsLinked)
<1>1. IInv => (PublishedOnce => MissionIsLinked)
    <2> SUFFICES ASSUME BusOK, AllAnswered, NEW i \in Published("UniqueAutomationResponse")
                 PROVE  AreLinked(log[i].missions)
        BY DEF IInv, Inv, MissionIsLinked, AreLinked
    <2>1. PICK r \in Request : r = log[i].about
        BY TypeTells DEF BusOK, Published, IsOutcome
    <2> QED BY <2>1 DEF AllAnswered, AnswersOf, About
<1> QED BY <1>1, Invariance, PTL

(* When each request is also published after the outcome of the one before, *)
(* a task implements a request with all the routes it asked for, and with   *)
(* the options it offered for that very request.                            *)
THEOREM OwnImplementationHolds == Spec => [](PublishedOnce => OwnImplementationOneAtATime)
<1>1. IInv => (PublishedOnce => OwnImplementationOneAtATime)
    BY DEF IInv, Inv, OwnAnswers
<1> QED BY <1>1, Invariance, PTL

(***************************************************************************)
(* Where the bound lets each request be published once, it is.             *)
(***************************************************************************)
LEMMA NoneYet ==
    ASSUME IsSequence(log), NEW r, Cardinality(About("UniqueAutomationRequest", r)) < 1
    PROVE  About("UniqueAutomationRequest", r) = {}
<1> DEFINE A == About("UniqueAutomationRequest", r)
<1>1. Len(log) \in Nat /\ DOMAIN log = 1 .. Len(log)
    BY SequenceDomain DEF IsSequence
<1>2. IsFiniteSet(1 .. Len(log))
    BY <1>1, FS_Interval
<1>3. A \subseteq 1 .. Len(log)
    BY <1>1 DEF About, Published
<1>4. IsFiniteSet(A)
    BY <1>2, <1>3, FS_Subset
<1>5. Cardinality(A) = 0
    BY <1>4, FS_CardinalityType
<1> QED BY <1>4, <1>5, FS_EmptySet

LEMMA StaysOnce ==
    ASSUME MaxPublished = 1, BusOK, TasksOK, PublishedOnce, [Next]_vars
    PROVE  PublishedOnce'
<1>1. LogGrown
    BY Grows DEF BusOK
<1>2. /\ Published("UniqueAutomationRequest")'
             = Published("UniqueAutomationRequest") \cup {n \in News : log'[n].type = "UniqueAutomationRequest"}
      /\ \A i \in Published("UniqueAutomationRequest") : log'[i] = log[i]
    BY <1>1, PublishedThen
<1>3. CASE Silent("UniqueAutomationRequest")
    BY <1>2, <1>3 DEF PublishedOnce, Silent
<1>4. ASSUME NEW r \in Request, SendRequest(r)
      PROVE  PublishedOnce'
    <2> DEFINE m == [type |-> "UniqueAutomationRequest", about |-> r]
    <2>1. Cardinality(About("UniqueAutomationRequest", r)) < 1 /\ log' = Append(log, m)
        BY <1>4 DEF SendRequest, Publish
    <2>2. About("UniqueAutomationRequest", r) = {}
        BY <2>1, NoneYet DEF BusOK
    <2>3. \A i \in Published("UniqueAutomationRequest") : log[i].about # r
        BY <2>2 DEF About
    <2>4. News = {Len(log) + 1} /\ log'[Len(log) + 1].about = r
        <3>1. PICK e : e = m
            OBVIOUS
        <3>2. log' = Append(log, e) /\ e.about = r
            BY <2>1, <3>1
        <3>3. News = {Len(log) + 1} /\ log'[Len(log) + 1] = e
            BY <3>2, SendingOne DEF BusOK
        <3> QED BY <3>2, <3>3
    <2> QED BY <1>2, <2>3, <2>4 DEF PublishedOnce
<1>5. CASE \E v \in Vehicle : ReportState(v)
    <2>1. Reported
        BY <1>5, StateKind
    <2> QED BY <1>3, <2>1 DEF Reported, IsState, Silent
<1>6. CASE \E r \in Request : Summarize(r)
    <2>1. Summarized
        BY <1>6, SummaryKind
    <2> QED BY <1>3, <2>1 DEF Summarized, IsNewSummary, IsSummary, Sent, Silent
<1>7. CASE PlanRoutes
    <2>1. RoutesPlanned
        BY <1>7, PlannerKind
    <2> QED BY <1>3, <2>1 DEF RoutesPlanned, IsPlanResponse, Silent
<1>8. CASE Build
    <2>1. Silent("UniqueAutomationRequest")
        BY <1>8, BuilderStepKinds, BuilderLeaves
    <2> QED BY <1>3, <2>1
<1>9. CASE \E t \in Task : Implement(t)
    <2>1. Silent("UniqueAutomationRequest")
        BY <1>9, TaskStepKinds, TaskLeaves
    <2> QED BY <1>3, <2>1
<1>10. CASE UNCHANGED vars
    <2>1. News = {}
        BY <1>10, SendingNone DEF vars, bus, BusOK
    <2> QED BY <1>3, <2>1 DEF Silent
<1> QED BY <1>4, <1>5, <1>6, <1>7, <1>8, <1>9, <1>10 DEF Next

(* If no request is published twice, as MaxPublished = 1 has it, the three  *)
(* invariants hold without further ado.                                     *)
THEOREM PublishedOnceHolds ==
    ASSUME MaxPublished = 1
    PROVE  Spec => [](PublishedOnce /\ MissionsOfTheSummary /\ MissionIsLinked
                                    /\ OwnImplementationOneAtATime)
<1>1. Init => PublishedOnce
    <2>1. Init => DOMAIN log = {}
        BY NoneOrOne DEF Init, BusInit
    <2> QED BY <2>1 DEF PublishedOnce, Published
<1>2. IInv /\ PublishedOnce /\ [Next]_vars => PublishedOnce'
    BY StaysOnce DEF IInv, Inv
<1>3. Spec => []PublishedOnce
    BY <1>1, <1>2, Invariance, PTL DEF Spec
<1> QED BY <1>3, MissionsHold, MissionsAreLinked, OwnImplementationHolds, PTL
-----------------------------------------------------------------------------
(***************************************************************************)
(* The services implement PlanService for each request.  First what stays  *)
(* when there is no news of a type.                                        *)
(***************************************************************************)
LEMMA AssignmentsStay ==
    ASSUME AnyStep, NEW r, NoNews("TaskAssignmentSummary", r)
    PROVE  AssignmentsFor(r)' = AssignmentsFor(r)
<1>1. /\ About("TaskAssignmentSummary", r)' = About("TaskAssignmentSummary", r)
      /\ \A i \in About("TaskAssignmentSummary", r) : log'[i] = log[i]
    BY AboutKept
<1>2. AssignmentsFor(r)' = {log'[i].assignments : i \in About("TaskAssignmentSummary", r)'}
    BY DEF AssignmentsFor
<1> QED BY <1>1, <1>2 DEF AssignmentsFor

LEMMA PlansStay ==
    ASSUME AnyStep, NEW r, NoNews("UniqueAutomationResponse", r)
    PROVE  PlansFor(r)' = PlansFor(r)
<1>1. /\ About("UniqueAutomationResponse", r)' = About("UniqueAutomationResponse", r)
      /\ \A i \in About("UniqueAutomationResponse", r) : log'[i] = log[i]
    BY AboutKept
<1>2. PlansFor(r)' = {PlanOf(log'[i].missions) : i \in About("UniqueAutomationResponse", r)'}
    BY DEF PlansFor, PlanOf
<1> QED BY <1>1, <1>2 DEF PlansFor

LEMMA OutcomesStay ==
    ASSUME AnyStep, NEW r, NoNews("UniqueAutomationResponse", r),
           \A n \in News : log'[n].type = "ServiceStatus" /\ log'[n].about = r => log'[n].task # NoTask
    PROVE  Outcomes(r)' = Outcomes(r)
<1>1. About("UniqueAutomationResponse", r)' = About("UniqueAutomationResponse", r)
    BY AboutKept
<1>2. /\ Published("ServiceStatus")'
             = Published("ServiceStatus") \cup {n \in News : log'[n].type = "ServiceStatus"}
      /\ \A i \in Published("ServiceStatus") : log'[i] = log[i]
    BY OldMessages
<1>3. Refusals(r)' = Refusals(r)
    BY <1>2 DEF Refusals, About
<1> QED BY <1>1, <1>3 DEF Outcomes

(* Where nothing of this is new, nothing of the promise changes.           *)
LEMMA PromiseStays ==
    ASSUME AnyStep, NEW r, NoNews("TaskAssignmentSummary", r), NoNews("UniqueAutomationResponse", r),
           NoNews("ServiceStatus", r)
    PROVE  [Promise(r)!Next]_(Promise(r)!vars)
<1>1. AssignmentsFor(r)' = AssignmentsFor(r) /\ PlansFor(r)' = PlansFor(r) /\ Skip(r)' = Skip(r)
    BY AssignmentsStay, PlansStay, SkipKept
<1>2. Outcomes(r)' = Outcomes(r)
    BY OutcomesStay DEF NoNews
<1> QED BY <1>1, <1>2 DEF Promise!vars

(* The summary that is published is the first of its request.              *)
LEMMA SummaryAssigns ==
    ASSUME BusOK, SummariesOnce, PublishedOnce, AnyStep, NEW m, Sent(m), IsNewSummary(m),
           NEW r, r = m.about
    PROVE  Promise(r)!Assign
<1>1. summaries[r] = 0 /\ IsSummary(m)
    BY PublishedSummary DEF SummariesOnce, IsNewSummary
<1>2. About("TaskAssignmentSummary", r) = {}
    BY <1>1 DEF SummariesOnce, About, Sums
<1>3. Published("TaskAssignmentSummary")' = Published("TaskAssignmentSummary") \cup News
      /\ \A i \in Published("TaskAssignmentSummary") : log'[i] = log[i]
    BY <1>1, OldMessages DEF Sent, IsSummary
<1>4. About("TaskAssignmentSummary", r)' = {Len(log) + 1}
    BY <1>2, <1>3 DEF About, Sent
<1>5. AssignmentsFor(r) = {} /\ AssignmentsFor(r)' = {m.assignments}
    BY <1>2, <1>4 DEF AssignmentsFor, Sent
<1>6. NoNews("UniqueAutomationResponse", r) /\ NoNews("ServiceStatus", r)
    BY <1>1 DEF NoNews, Sent, IsSummary
<1>7. PlansFor(r)' = PlansFor(r) /\ Skip(r)' = Skip(r)
    BY <1>6, PlansStay, SkipKept
<1>8. Outcomes(r)' = Outcomes(r)
    BY <1>6, OutcomesStay DEF NoNews
<1>9. m.assignments \in MaySummarize[r]
    BY <1>1 DEF IsSummary
<1> QED BY <1>5, <1>7, <1>8, <1>9 DEF Promise!Assign

(* The one assignment of a request whose summary has been read.            *)
LEMMA OneAssignment ==
    ASSUME BusOK, SummariesOnce, NEW r, NEW j \in About("TaskAssignmentSummary", r)
    PROVE  AssignmentsFor(r) = {log[j].assignments} /\ IsAssignment(log[j].assignments)
<1>1. j \in Sums /\ log[j].about = r
    BY DEF About, Sums
<1>2. \A i \in About("TaskAssignmentSummary", r) : i = j
    BY <1>1 DEF About, Sums, SummariesOnce
<1> QED BY <1>1, <1>2, AssignmentsOf DEF AssignmentsFor

LEMMA RefusalRefuses ==
    ASSUME BuilderInv, AnyStep, NEW i, OfBuilder(i), Refused(i), NEW r, r = log[i].about
    PROVE  Promise(r)!Refuse
<1>1. BusOK /\ SummariesOnce /\ HasRead("PlanBuilder", i) /\ IsSummary(log[i]) /\ Sent(Error(r, NoTask))
    BY DEF BuilderInv, OfBuilder, Refused
<1>2. Outcomes(r) = {} /\ Skip(r) = {}
    BY RefusedIsNew
<1>3. i \in About("TaskAssignmentSummary", r)
    BY <1>1 DEF HasRead, IsSummary, About, Published
<1>4. AssignmentsFor(r) # {}
    BY <1>3 DEF AssignmentsFor
<1>5. PICK n : /\ News = {n} /\ log'[n].type = "ServiceStatus"
               /\ log'[n].about = r /\ log'[n].task = NoTask
    BY <1>1 DEF Sent, Error
<1>6. NoNews("TaskAssignmentSummary", r) /\ NoNews("UniqueAutomationResponse", r)
    BY <1>5 DEF NoNews
<1>7. AssignmentsFor(r)' = AssignmentsFor(r) /\ PlansFor(r)' = PlansFor(r)
    BY <1>6, AssignmentsStay, PlansStay
<1>8. /\ Published("ServiceStatus")' = Published("ServiceStatus") \cup {n}
      /\ \A k \in Published("ServiceStatus") : log'[k] = log[k]
    BY <1>5, OldMessages
<1>9. Refusals(r)' = {n} /\ About("UniqueAutomationResponse", r)' = {}
    BY <1>2, <1>5, <1>6, <1>8, AboutKept DEF Outcomes, Refusals, About
<1>10. Outcomes(r)' = {n}
    BY <1>9 DEF Outcomes
<1>11. About("ServiceStatus", r)' = {n}
    BY <1>2, <1>5, <1>8 DEF Skip, About
<1>12. Skip(r)' = {NoTask}
    BY <1>5, <1>11 DEF Skip
<1>13. NoTask \notin Task
    BY ImplementationAssumption
<1>14. Skip(r)' \cap Task = {} /\ Skip(r) \cap Task = {}
    BY <1>2, <1>12, <1>13
<1>15. Cardinality(Outcomes(r)) = 0 /\ Cardinality(Outcomes(r)') = 1
    BY <1>2, <1>10, FS_EmptySet, FS_Singleton
<1>16. Cardinality(Outcomes(r))' = Cardinality(Outcomes(r)')
    OBVIOUS
<1> QED BY <1>4, <1>7, <1>14, <1>15, <1>16 DEF Promise!Refuse

(* The missions of a response are tours of what each vehicle was assigned. *)
LEMMA WayIsTour ==
    ASSUME NEW r, NEW s, IsAssignment(s), NEW v, NEW way,
           IsWayOf(way, s, Len(s), v, Skip(r)')
    PROVE  Promise(r)!IsTour(TourOf(way), s, Promise(r)!Due(s, v))
<1> DEFINE skip == Skip(r)'
           tour == TourOf(way)
           due == {k \in DOMAIN s : s[k].vehicle = v /\ s[k].task \notin skip}
<1>1. IsMissionOf(v, way, s, skip)
    BY WayIsMission
<1>2. PICK place \in [DOMAIN way -> DOMAIN s] :
          /\ \A x, y \in DOMAIN way : x < y => place[x] < place[y]
          /\ \A x \in DOMAIN way : way[x].task = s[place[x]].task
          /\ {place[x] : x \in DOMAIN way} = due
    BY <1>1 DEF IsMissionOf
<1>3. Promise(r)!Due(s, v) = due
    <2>1. \A k \in DOMAIN s : s[k].task \in Task
        BY SequenceDomain DEF IsAssignment, IsSequence
    <2>2. \A k \in DOMAIN s : s[k].task \notin (Skip(r) \cap Task)' <=> s[k].task \notin skip
        BY <2>1
    <2> QED BY <2>2 DEF Promise!Due
<1>4. DOMAIN tour = DOMAIN way /\ \A x \in DOMAIN way : tour[x] = way[x].task
    BY DEF TourOf
<1>5. place \in [DOMAIN tour -> due]
    BY <1>2, <1>4
<1> HIDE DEF tour, due
<1>6. Promise(r)!IsTour(tour, s, due)
    BY <1>2, <1>4, <1>5 DEF Promise!IsTour
<1> QED BY <1>3, <1>6 DEF tour

(* What getting on with a request means for it: nothing, a task that is    *)
(* reported as impossible, or the plan, possibly with such a report.       *)
LEMMA ServingPromises ==
    ASSUME BuilderInv, AnyStep, Silent("TaskAssignmentSummary"),
           NEW r, NEW ways, NEW proj, NEW rest, NEW errors, Serves(r, ways, proj, rest, errors)
    PROVE  [Promise(r)!Next]_(Promise(r)!vars)
<1>1. BusOK /\ SummariesOnce
    BY DEF BuilderInv
<1>2. PICK j \in About("TaskAssignmentSummary", r) : TRUE
    <2>1. PICK j \in Sums' : log'[j].about = r
        BY DEF Serves, SoFar, SummaryRead, ReadBy, Sums
    <2>2. j \in Sums /\ log'[j] = log[j]
        BY <1>1, <2>1, StillPublished, OldMessages DEF Sums
    <2> QED BY <2>1, <2>2 DEF About, Sums
<1>3. PICK s : s = log[j].assignments
    OBVIOUS
<1>4. AssignmentsFor(r) = {s} /\ IsAssignment(s)
    BY <1>1, <1>2, <1>3, OneAssignment
<1>5. AssignmentsFor(r)' = AssignmentsFor(r)
    BY AssignmentsStay, SilentNoNews
<1>6. Outcomes(r) = {} /\ PlansFor(r) = {} /\ Cardinality(Outcomes(r)) = 0
    <2>1. Outcomes(r) = {}
        BY DEF Serves, SoFar
    <2> QED BY <2>1, FS_EmptySet DEF Outcomes, PlansFor
<1>7. \/ Skip(r)' \cap Task = Skip(r) \cap Task
      \/ Promise(r)!LeaveOut(s)
    <2>1. Skip(r)' = Skip(r) \cup ErrorTasks(errors)
        BY SkipAfter
    <2>2. CASE errors = {}
        BY <2>1, <2>2 DEF ErrorTasks
    <2>3. ASSUME NEW t \in Task, errors = {Error(r, t)}
          PROVE  Promise(r)!LeaveOut(s)
        <3>1. ErrorTasks(errors) = {t}
            BY <2>3 DEF ErrorTasks, Error
        <3>2. (Skip(r) \cap Task)' = (Skip(r) \cap Task) \cup {t}
            BY <2>1, <3>1
        <3>3. AreListed(errors, s)
            BY <1>2, <1>3 DEF Serves, SoFar
        <3>4. t \in Promise(r)!Listed(s)
            BY <1>4, <2>3, <3>3, SequenceDomain
            DEF AreListed, Error, IsAssignment, IsSequence, Promise!Listed
        <3> QED BY <3>2, <3>4 DEF Promise!LeaveOut
    <2> QED BY <2>2, <2>3 DEF Serves, SoFar
<1>8. CASE ~Closes(r, ways, rest, errors)
    <2>1. \A a : AskFor(r, a, proj).type = "TaskImplementationRequest"
        BY DEF AskFor
    <2>2. \A n \in News : \/ log'[n].type = "ServiceStatus" /\ log'[n].task \in Task
                          \/ log'[n].type = "TaskImplementationRequest"
        BY <1>8, <2>1, ServesNews
    <2>3. NoNews("UniqueAutomationResponse", r)
        BY <2>2 DEF NoNews
    <2>4. NoTask \notin Task
        BY ImplementationAssumption
    <2>5. Outcomes(r)' = Outcomes(r)
        BY <2>2, <2>3, <2>4, OutcomesStay
    <2>6. PlansFor(r)' = PlansFor(r)
        BY <2>3, PlansStay
    <2>7. CASE Promise(r)!LeaveOut(s)
        BY <1>4, <1>5, <1>6, <2>5, <2>6, <2>7 DEF Promise!Report, Promise!Next
    <2>8. CASE Skip(r)' \cap Task = Skip(r) \cap Task
        BY <1>5, <2>5, <2>6, <2>8 DEF Promise!vars
    <2> QED BY <1>7, <2>7, <2>8
<1>9. CASE Closes(r, ways, rest, errors)
    <2>1. PICK n \in News : /\ log'[n] = OutcomeOf(r, ways)
                            /\ \A k \in News \ {n} : log'[k] \in errors
        BY <1>9 DEF Closes, SentAfter
    <2>2. \A k \in News \ {n} : log'[k].type = "ServiceStatus" /\ log'[k].task \in Task
        BY <2>1, ServesNews
    <2>3. /\ \A type : Published(type)' = Published(type) \cup {k \in News : log'[k].type = type}
          /\ \A type : \A k \in Published(type) : log'[k] = log[k]
        BY OldMessages
    <2>4. NoTask \notin Task
        BY ImplementationAssumption
    <2>5. About("UniqueAutomationResponse", r)' = {n}
        BY <1>6, <2>1, <2>2, <2>3 DEF About, OutcomeOf, Outcomes
    <2>6. Refusals(r)' = {}
        BY <1>6, <2>1, <2>2, <2>3, <2>4 DEF Refusals, About, OutcomeOf, Outcomes
    <2>7. Cardinality(Outcomes(r))' = 1
        <3>1. Outcomes(r)' = {n}
            BY <2>5, <2>6 DEF Outcomes
        <3> QED BY <3>1, FS_Singleton
    <2>8. PlansFor(r)' = {PlanOf(ways)}
        <3>1. PlansFor(r)' = {PlanOf(log'[i].missions) : i \in About("UniqueAutomationResponse", r)'}
            BY DEF PlansFor, PlanOf
        <3> QED BY <2>1, <2>5, <3>1 DEF OutcomeOf
    <2>9. AreOf(ways, s, Len(s), Skip(r)')
        <3>1. IsReady(ways, proj, <<>>, s, Skip(r)')
            BY <1>2, <1>3, <1>9, SkipAfter DEF Closes, Serves, SoFar
        <3> QED BY <1>4, <3>1, ReadyAtEnd
    <2>10. \A v \in Vehicle : Promise(r)!IsTour(PlanOf(ways)[v], s, Promise(r)!Due(s, v))
        BY <1>4, <2>9, WayIsTour DEF AreOf, PlanOf
    <2> QED BY <1>4, <1>5, <1>6, <1>7, <2>7, <2>8, <2>10 DEF Promise!Deliver, Promise!Next
<1> QED BY <1>8, <1>9

(* Every step of the services is one of PlanService for each request, or   *)
(* one that it does not notice.                                            *)
LEMMA StepPromises ==
    ASSUME Inv, [Next]_vars, PublishedOnce', NEW x \in Request
    PROVE  [Promise(x)!Next]_(Promise(x)!vars)
<1>1. BusOK /\ TasksOK /\ SummariesOnce /\ BuilderInv
    BY DEF Inv, BuilderInv
<1>2. AnyStep /\ StepKinds
    BY <1>1, Kinds
<1>3. PublishedOnce
    BY <1>2, OnceBefore DEF AnyStep
<1>4. CASE Summarized
    <2>1. PICK m : Sent(m) /\ IsNewSummary(m)
        BY <1>4 DEF Summarized
    <2>2. CASE x = m.about
        BY <1>1, <1>2, <1>3, <2>1, <2>2, SummaryAssigns DEF Promise!Next
    <2>3. CASE x # m.about
        <3>1. /\ NoNews("TaskAssignmentSummary", x) /\ NoNews("UniqueAutomationResponse", x)
              /\ NoNews("ServiceStatus", x)
            BY <2>1, <2>3 DEF NoNews, Sent
        <3> QED BY <1>2, <3>1, PromiseStays
    <2> QED BY <2>2, <2>3
<1>5. CASE Silent("TaskAssignmentSummary")
    <2>1. NoNews("TaskAssignmentSummary", x)
        BY <1>5, SilentNoNews
    <2>2. ASSUME NEW S, Concerns(S), x \notin S
          PROVE  [Promise(x)!Next]_(Promise(x)!vars)
        BY <1>2, <2>1, <2>2, PromiseStays DEF Concerns
    <2>3. CASE BuilderAway
        BY <1>1, <1>2, <2>2, <2>3, AwayConcerns
    <2>4. ASSUME NEW i, OfBuilder(i), Pauses(i)
          PROVE  [Promise(x)!Next]_(Promise(x)!vars)
        BY <1>1, <1>2, <2>2, <2>4, PausesConcerns DEF OfBuilder
    <2>5. ASSUME NEW i, OfBuilder(i), Refused(i)
          PROVE  [Promise(x)!Next]_(Promise(x)!vars)
        <3>1. CASE x = log[i].about
            BY <1>1, <1>2, <2>5, <3>1, RefusalRefuses DEF Promise!Next
        <3>2. CASE x # log[i].about
            BY <1>1, <1>2, <2>2, <2>5, <3>2, RefusedConcerns
        <3> QED BY <3>1, <3>2
    <2>6. ASSUME NEW r, NEW ways, NEW proj, NEW rest, NEW errors, Serves(r, ways, proj, rest, errors)
          PROVE  [Promise(x)!Next]_(Promise(x)!vars)
        <3>1. CASE x = r
            BY <1>1, <1>2, <1>5, <2>6, <3>1, ServingPromises
        <3>2. CASE x # r
            BY <1>1, <1>2, <2>2, <2>6, <3>2, ServesConcerns
        <3> QED BY <3>1, <3>2
    <2> QED BY <1>1, <1>2, <2>3, <2>4, <2>5, <2>6, Doings
<1> QED BY <1>1, <1>2, <1>4, <1>5, WhoSummarizes

(* The PlanBuilderService, the task services and the route planner, with    *)
(* the messages between them, implement PlanService for every request that *)
(* is published once: one outcome, after which nothing more is reported; a *)
(* refusal only before anything else; or a plan that has all the tasks of  *)
(* its one summary that were not reported as impossible, each with the     *)
(* vehicle and in the order of the assignment.                             *)
THEOREM PlansDelivered ==
    ASSUME MaxPublished = 1
    PROVE  Spec => DeliversPlans
<1>1. ASSUME Init, NEW r \in Request
      PROVE  Promise(r)!Init
    <2>1. DOMAIN log = {}
        BY <1>1, NoneOrOne DEF Init, BusInit
    <2>2. \A type : About(type, r) = {}
        BY <2>1 DEF About, Published
    <2>3. /\ AssignmentsFor(r) = {} /\ Skip(r) = {} /\ Outcomes(r) = {} /\ PlansFor(r) = {}
        BY <2>2 DEF AssignmentsFor, Skip, Outcomes, Refusals, PlansFor
    <2>4. Cardinality(Outcomes(r)) = 0
        BY <2>3, FS_EmptySet
    <2> QED BY <2>3, <2>4 DEF Promise!Init
<1>2. Init => \A r \in Request : Promise(r)!Init
    BY <1>1
<1>3. IInv /\ PublishedOnce /\ PublishedOnce' /\ [Next]_vars
          => [\A r \in Request : [Promise(r)!Next]_(Promise(r)!vars)]_vars
    BY StepPromises DEF IInv
<1>4. Spec => []IInv
    BY Invariance
<1>5. Spec => []PublishedOnce
    BY PublishedOnceHolds, PTL
<1> QED BY <1>2, <1>3, <1>4, <1>5, PTL DEF Spec, DeliversPlans

(* In particular, PlanService is implemented for any one request.          *)
THEOREM ImplementsPlanService ==
    ASSUME MaxPublished = 1, NEW r \in Request
    PROVE  Spec => Promise(r)!Spec
<1>1. IInv /\ PublishedOnce' /\ [Next]_vars => [Promise(r)!Next]_(Promise(r)!vars)
    <2> SUFFICES ASSUME IInv, PublishedOnce', [Next]_vars
                 PROVE  [Promise(r)!Next]_(Promise(r)!vars)
        OBVIOUS
    <2>1. PublishedOnce
        BY Grows, OnceBefore DEF IInv
    <2> QED BY <2>1, StepPromises DEF IInv
<1>2. Spec => []IInv
    BY Invariance
<1>3. Spec => []PublishedOnce
    BY PublishedOnceHolds, PTL
<1>4. Spec => DeliversPlans
    BY PlansDelivered
<1>5. DeliversPlans => Promise(r)!Init
    BY DEF DeliversPlans
<1> QED BY <1>1, <1>2, <1>3, <1>4, <1>5, PTL DEF Spec, Promise!Spec
=============================================================================
