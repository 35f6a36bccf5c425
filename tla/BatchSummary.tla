---------------------------- MODULE BatchSummary ----------------------------
(***************************************************************************)
(* The BatchSummaryService: what would each of these vehicles need for     *)
(* each of these tasks?  A BatchSummaryRequest is split into               *)
(* TaskAutomationRequests that are only planned, not flown: one for each   *)
(* vehicle and task or, with relationships, for each vehicle and two tasks *)
(* in a row.  When all are answered the summaries go out.                  *)
(*                                                                         *)
(* A summary is for a vehicle on its way to a task from another, or from   *)
(* where it is (0).  Its times and waypoints are abstracted to the         *)
(* identifiers of the responses they were taken from.  A waypoint of a     *)
(* plan is abstracted to its first associated task, or 0 if it has none.   *)
(*                                                                         *)
(* External: the clients, the planner, which answers in the order it is    *)
(* asked, with a plan or without (<<>>), and other clients of the planner, *)
(* who may have chosen the same identifiers.                               *)
(***************************************************************************)
EXTENDS Fleet, SequencesExt

CONSTANTS Batch,           \* the BatchSummaryRequests
          BatchTasks,      \* TaskList of each, without repetition
          BatchVehicles,   \* its Vehicles
          Related,         \* those with TaskRelationships
          PlansFor,        \* the plans there may be for the tasks of a part
          BatchSettings    \* [batches, foreign]: what arrives, and whether others use the planner

VARIABLES batch,                \* the setting of this run
          arriving,             \* the batches still to arrive
          m_responseId, m_taskAutomationRequestId,   \* the next identifiers
          m_workingResponse,    \* the batch and the summaries, of each that is worked on
          m_batchSummaryRequestVsTaskAutomation,     \* the parts each waits for
          batchResponses,       \* the BatchSummaryResponses sent
          unanswered,           \* the TaskAutomationRequests before the planner, in order
          planned,              \* history: the answers to them
          foreign               \* history: identifiers it answered to others

batchService == <<m_responseId, m_taskAutomationRequestId, m_workingResponse,
                  m_batchSummaryRequestVsTaskAutomation, batchResponses>>
batchVars == <<batch, arriving, batchService, unanswered, planned, foreign>>

(***************************************************************************)
(* How a request is split, and the summaries made for it in advance.       *)
(***************************************************************************)
Pairs(b) == {p \in BatchTasks[b] \X BatchTasks[b] : p[1] # p[2]}
Parts(b) == IF b \in Related THEN [vehicle : BatchVehicles[b], tasks : Pairs(b)]
            ELSE [vehicle : BatchVehicles[b], tasks : {<<t>> : t \in BatchTasks[b]}]

ASSUME BatchAssumption ==
    \A b \in Batch : /\ IsFiniteSet(Parts(b))
                     /\ \A part \in Parts(b) : PlansFor[part.tasks] \subseteq Seq({0} \cup Task)

Keys(b) == [vehicle : BatchVehicles[b], from : {0}, task : BatchTasks[b]]
           \cup IF b \notin Related THEN {}
                ELSE {[vehicle |-> v, from |-> p[1], task |-> p[2]] : v \in BatchVehicles[b], p \in Pairs(b)}

(***************************************************************************)
(* HandleBatchSummaryRequest.  A request that has no parts is answered at  *)
(* once (FinalizeBatchRequest).                                            *)
(***************************************************************************)
Split(b) ==
    LET parts == SetToSeq(Parts(b))
    IN  [i \in DOMAIN parts |-> [id |-> m_taskAutomationRequestId + i - 1, batch |-> b,
                              part |-> parts[i]]]
Begun(b) == [batch |-> b, summaries |-> [k \in Keys(b) |-> {}]]
WithBatch(f, r, x) == [s \in DOMAIN f \cup {r} |-> IF s = r THEN x ELSE f[s]]
WithoutBatch(f, r) == [s \in DOMAIN f \ {r} |-> f[s]]
Take(b) ==
    /\ b \in arriving
    /\ arriving' = arriving \ {b}
    /\ m_responseId' = m_responseId + 1
    /\ m_taskAutomationRequestId' = m_taskAutomationRequestId + Len(Split(b))
    /\ unanswered' = unanswered \o Split(b)
    /\ UNCHANGED <<batch, planned, foreign>>
Await(b, parts) ==
    /\ m_workingResponse' = WithBatch(m_workingResponse, m_responseId, Begun(b))
    /\ m_batchSummaryRequestVsTaskAutomation' =
           WithBatch(m_batchSummaryRequestVsTaskAutomation, m_responseId, {p.id : p \in ToSet(parts)})
    /\ UNCHANGED batchResponses
AwaitAlways(b) ==   \* fault: a request without parts waits, too
    Take(b) /\ Await(b, Split(b))
HandleBatchSummaryRequest(b) ==
    /\ Take(b)
    /\ \/ Split(b) # <<>> /\ Await(b, Split(b))
       \/ /\ Split(b) = <<>>
          /\ batchResponses' = Append(batchResponses, Begun(b))
          /\ UNCHANGED <<m_workingResponse, m_batchSummaryRequestVsTaskAutomation>>

(***************************************************************************)
(* UpdateTaskSummariesUtil walks along a plan w.  While it is iterating to *)
(* a task (toTask), a waypoint on one is the first of its workingTask; the *)
(* next that is on none, or is the last of the plan, ends it, and the leg  *)
(* from prevTask to workingTask is recorded.  What is on a task meanwhile  *)
(* is passed over, whatever task it is.                                    *)
(***************************************************************************)
OnTaskToTheLast(w, i) == w[i] # 0   \* fault: the last waypoint is taken for one of the task
OnTask(w, i) == w[i] # 0 /\ i < Len(w)
AtOutset == [toTask |-> TRUE, workingTask |-> 0, prevTask |-> 0, legs |-> {}]
Pass(s, w, i) ==
    CASE s.toTask /\ OnTask(w, i) ->
             [s EXCEPT !.toTask = FALSE, !.prevTask = s.workingTask, !.workingTask = w[i]]
      [] ~s.toTask /\ ~OnTask(w, i) ->
             [s EXCEPT !.toTask = TRUE, !.legs = @ \cup {<<s.prevTask, s.workingTask>>}]
      [] OTHER -> s
Walk(w) ==
    LET walk[i \in 0 .. Len(w)] == IF i = 0 THEN AtOutset ELSE Pass(walk[i - 1], w, i)
    IN  walk

(* The response goes to the summaries of that vehicle for these legs, where there are any. *)
UpdateTaskSummaries(summaries, vehicle, w, id) ==
    LET legs == Walk(w)[Len(w)].legs
    IN  [k \in DOMAIN summaries |->
            IF k.vehicle = vehicle /\ <<k.from, k.task>> \in legs
            THEN summaries[k] \cup {id} ELSE summaries[k]]

(***************************************************************************)
(* HandleTaskAutomationResponse.  The batch that waits for its identifier, *)
(* if there is one, takes it, whoever it was meant for; the last one it    *)
(* waits for sends the batch off (FinalizeBatchRequest).                   *)
(***************************************************************************)
Waiting(id) == {r \in DOMAIN m_batchSummaryRequestVsTaskAutomation :
                    id \in m_batchSummaryRequestVsTaskAutomation[r]}
FinalizeOrAwait(r, response, left) ==
    \/ /\ left = {}
       /\ batchResponses' = Append(batchResponses, response)
       /\ m_workingResponse' = WithoutBatch(m_workingResponse, r)
       /\ m_batchSummaryRequestVsTaskAutomation' =
              WithoutBatch(m_batchSummaryRequestVsTaskAutomation, r)
    \/ /\ left # {}
       /\ m_workingResponse' = [m_workingResponse EXCEPT ![r] = response]
       /\ m_batchSummaryRequestVsTaskAutomation' =
              [m_batchSummaryRequestVsTaskAutomation EXCEPT ![r] = left]
       /\ UNCHANGED batchResponses
HandleBatchResponse(id, vehicle, w) ==
    /\ UNCHANGED <<m_responseId, m_taskAutomationRequestId>>
    /\ IF Waiting(id) = {}
       THEN UNCHANGED <<m_workingResponse, m_batchSummaryRequestVsTaskAutomation, batchResponses>>
       ELSE \E r \in Waiting(id) :
                FinalizeOrAwait(r, [m_workingResponse[r] EXCEPT
                                        !.summaries = UpdateTaskSummaries(@, vehicle, w, id)],
                                m_batchSummaryRequestVsTaskAutomation[r] \ {id})

(* The planner answers the request it has had longest. *)
AnswerTo(p, w) == [id |-> p.id, batch |-> p.batch, vehicle |-> p.part.vehicle, waypoints |-> w]
Plan ==
    /\ unanswered # <<>>
    /\ unanswered' = Tail(unanswered)
    /\ LET p == Head(unanswered)
       IN  \E w \in PlansFor[p.part.tasks] :
               /\ planned' = planned \cup {AnswerTo(p, w)}
               /\ HandleBatchResponse(p.id, p.part.vehicle, w)
    /\ UNCHANGED <<batch, arriving, foreign>>

(* It answers another client, once (bound), who has chosen an identifier of a part. *)
PlanForOther(id, part) ==
    /\ batch.foreign
    /\ foreign = {}
    /\ foreign' = {id}
    /\ \E w \in PlansFor[part.tasks] : HandleBatchResponse(id, part.vehicle, w)
    /\ UNCHANGED <<batch, arriving, unanswered, planned>>

BatchInit ==
    /\ batch \in BatchSettings
    /\ arriving = batch.batches
    /\ m_responseId = 1
    /\ m_taskAutomationRequestId = 1
    /\ m_workingResponse = <<>>
    /\ m_batchSummaryRequestVsTaskAutomation = <<>>
    /\ batchResponses = <<>>
    /\ unanswered = <<>>
    /\ planned = {}
    /\ foreign = {}

BatchNext ==
    \/ Plan
    \/ \E b \in Batch : HandleBatchSummaryRequest(b)
    \/ \E id \in 1 .. m_taskAutomationRequestId - 1 :
           \E part \in UNION {Parts(b) : b \in batch.batches} : PlanForOther(id, part)
BatchSpec == BatchInit /\ [][BatchNext]_batchVars

-----------------------------------------------------------------------------

(***************************************************************************)
(* The legs of a plan: to where it goes on a task from a waypoint without  *)
(* one, or begins on it, from the task of the leg before, if there is one. *)
(* So there is none to a task that follows another with no waypoint in     *)
(* between, nor to one that only the last waypoint of the plan is for.     *)
(***************************************************************************)
Begins(w) == {i \in 1 .. Len(w) - 1 : w[i] # 0 /\ (i = 1 \/ w[i - 1] = 0)}
TaskBefore(w, i) == LET before == {j \in Begins(w) : j < i}
                    IN  IF before = {} THEN 0 ELSE w[Max(before)]
Legs(w) == {<<TaskBefore(w, i), w[i]>> : i \in Begins(w)}

(***************************************************************************)
(* A summary that goes out was made from every plan of this batch with     *)
(* this leg for its vehicle, and from none that was made for another batch *)
(* or has no such leg, whatever else was being worked on.  If other        *)
(* clients choose the same identifiers this is not so.                     *)
(***************************************************************************)
PlansOf(b, k) ==
    {a.id : a \in {a \in planned : /\ a.batch = b /\ a.vehicle = k.vehicle
                                   /\ <<k.from, k.task>> \in Legs(a.waypoints)}}
SummariesAreOwn ==
    ~batch.foreign =>
        \A n \in DOMAIN batchResponses :
            LET response == batchResponses[n]
            IN  \A k \in Keys(response.batch) :
                    response.summaries[k] = PlansOf(response.batch, k)

(***************************************************************************)
(* Every batch is answered if the planner answers all it is asked, and     *)
(* once only, though responses come that nobody waits for any more.        *)
(***************************************************************************)
BatchIsAnswered ==
    []<>(\A b \in batch.batches \ arriving :
            Cardinality({n \in DOMAIN batchResponses : batchResponses[n].batch = b}) = 1)
=============================================================================
