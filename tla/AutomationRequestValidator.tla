--------------------- MODULE AutomationRequestValidator ---------------------
(***************************************************************************)
(* AutomationRequestValidatorService: validates the automation requests of *)
(* clients, holds them until their tasks are initialized, feeds them to    *)
(* the assignment pipeline and gives each client its response.             *)
(*                                                                         *)
(* Messages are handled on the service's thread, the two timer callbacks   *)
(* run on the thread of the TimerManager.  Here every handler and every    *)
(* callback is one step; the thread it runs on matters all the same,       *)
(* because the TimerManager refuses to start a timer from a callback.      *)
(*                                                                         *)
(* The clients, the task services and the pipeline are the environment: a  *)
(* client sends each request once, a task service may or may not report    *)
(* that it is initialized, the pipeline answers a UniqueAutomationRequest  *)
(* when it likes, or never.  What a request requires besides its tasks is  *)
(* left out: the verdict is free.  So are the texts collected in the error *)
(* response.                                                               *)
(***************************************************************************)
EXTENDS Integers, Sequences

CONSTANTS Request,        \* the requests clients send
          NoRequest,      \* no request
          Id,             \* identifiers of UniqueAutomationRequests
          NoId,           \* the identifier of an error response never set
          IdOf,           \* the identifier each request is given
          Task,           \* task identifiers
          TasksOf         \* the tasks each request lists

ASSUME ValidatorAssumption ==
    /\ NoRequest \notin Request
    /\ NoId \notin Id
    /\ IdOf \in [Request -> Id]
    /\ TasksOf \in [Request -> SUBSET Task]

VARIABLES
    tasks,        \* m_availableTasks
    initialized,  \* m_availableInitializedTasks
    waiting,      \* m_requestsWaitingForTasks
    pending,      \* m_pendingRequests
    details,      \* m_sandboxMap: the request whose type and play are recorded
    errorId,      \* the ResponseID of m_errorResponse
    active,       \* the timers that are queued in the TimerManager
    seen,         \* the requests received
    accepted,     \* those found valid, in the order they came
    published,    \* the UniqueAutomationRequests broadcast, in order
    inPipeline,   \* copies of each the pipeline has yet to answer
    lost,         \* requests of which the pipeline has dropped a copy
    replies       \* the responses broadcast to clients, in order

queues == <<waiting, pending>>
pipeline == <<published, inPipeline, lost>>
vars == <<tasks, initialized, waiting, pending, details, errorId, active,
          seen, accepted, published, inPipeline, lost, replies>>

(***************************************************************************)
(* The two timers, and the two threads that start them.                    *)
(***************************************************************************)
Timers == {"response", "taskInit"}
Threads == {"service", "worker"}
StartedUncreated(a, timer, thread) == a \cup {"none"}   \* fault: timer not created
StartedNever(a, timer, thread) == a                     \* fault: timer not started
Started(a, timer, thread) == IF thread = "worker" THEN a ELSE a \cup {timer}
Disabled(a, timer) == a \ {timer}

(***************************************************************************)
(* A reply is addressed by the details found under its ResponseID: `to` is *)
(* the request whose client recognizes it, NoRequest for an                *)
(* AutomationResponse that nothing relates to a request.  `about` is the   *)
(* request it really concerns and `via` what sent it.                      *)
(***************************************************************************)
Reason == {"rejected", "answer", "late", "tasks"}
Reply == [to : Request \cup {NoRequest}, about : Request, via : Reason]

TypeOK ==
    /\ tasks \subseteq Task
    /\ initialized \subseteq Task
    /\ waiting \in Seq(Request)
    /\ pending \in Seq(Request)
    /\ details \in [Id \cup {NoId} -> Request \cup {NoRequest}]
    /\ errorId \in Id \cup {NoId}
    /\ active \subseteq Timers
    /\ seen \subseteq Request
    /\ accepted \in Seq(Request)
    /\ published \in Seq(Request)
    /\ inPipeline \in [Request -> Nat]
    /\ lost \subseteq Request
    /\ replies \in Seq(Reply)

Init ==
    /\ tasks = {} /\ initialized = {}
    /\ waiting = <<>> /\ pending = <<>>
    /\ details = [i \in Id \cup {NoId} |-> NoRequest]
    /\ errorId = NoId
    /\ active = {}
    /\ seen = {} /\ accepted = <<>>
    /\ published = <<>>
    /\ inPipeline = [r \in Request |-> 0]
    /\ lost = {}
    /\ replies = <<>>

(***************************************************************************)
(* sendNextRequest when there is one to send: the errors of the last one   *)
(* are dropped, the error response is to answer this one.  pipe is what    *)
(* the pipeline holds, p the queue.                                        *)
(***************************************************************************)
PublishOnly(p, pipe) ==   \* fault: the error response keeps its ResponseID
    /\ published' = Append(published, Head(p))
    /\ inPipeline' = [pipe EXCEPT ![Head(p)] = @ + 1]
    /\ UNCHANGED errorId
Publish(p, pipe) ==
    /\ errorId' = IdOf[Head(p)]
    /\ published' = Append(published, Head(p))
    /\ inPipeline' = [pipe EXCEPT ![Head(p)] = @ + 1]

NoPublish(pipe) == inPipeline' = pipe /\ UNCHANGED <<errorId, published>>

SendNothing(p, pipe, a, thread) ==   \* fault: the next request is not sent
    NoPublish(pipe) /\ active' = IF p = <<>> THEN Disabled(a, "response") ELSE a
SendNextRequest(p, pipe, a, thread) ==
    IF p = <<>>
    THEN NoPublish(pipe) /\ active' = Disabled(a, "response")
    ELSE Publish(p, pipe) /\ active' = Started(a, "response", thread)

(***************************************************************************)
(* checkTasksInitialized, called with the task-wait queue q and the active *)
(* timers a: the requests at the front of q whose tasks are all ready move *)
(* to the pending queue.  If any did and no response is awaited, as far as *)
(* the response timer shows, the front of that queue is sent.              *)
(***************************************************************************)
IsReady(r, ready) == TasksOf[r] \subseteq ready
IsReadyFront(k, q, ready) == /\ \A i \in 1 .. k : IsReady(q[i], ready)
                             /\ k < Len(q) => ~IsReady(q[k + 1], ready)

JoinFirst(queue, more) == more \o queue   \* fault: push_front
Join(queue, more) == queue \o more

CheckTasksInitialized(q, ready, a, thread) ==
    \E k \in 0 .. Len(q) :
    LET rest   == SubSeq(q, k + 1, Len(q))
        queue  == Join(pending, SubSeq(q, 1, k))
        isNew  == k > 0
        isSent == isNew /\ "response" \notin a
        moved  == IF isNew THEN Started(a, "taskInit", thread) ELSE a
        sent   == IF isSent THEN Started(moved, "response", thread) ELSE moved
        timed  == IF ~isNew /\ "taskInit" \notin a /\ q # <<>>
                  THEN Started(sent, "taskInit", thread) ELSE sent
    IN /\ IsReadyFront(k, q, ready)
       /\ waiting' = rest
       /\ pending' = queue
       /\ IF isSent THEN Publish(queue, inPipeline) ELSE NoPublish(inPipeline)
       /\ active' = IF rest = <<>> THEN Disabled(timed, "taskInit") ELSE timed

(***************************************************************************)
(* SendResponse: the details under the ResponseID decide who gets it.  All *)
(* its callers then erase them.                                            *)
(***************************************************************************)
SendIfKnown(d, id, about, via) ==   \* fault: nothing is sent without details
    /\ replies' = IF d[id] = NoRequest THEN replies
                  ELSE Append(replies, [to |-> d[id], about |-> about, via |-> via])
    /\ details' = [d EXCEPT ![id] = NoRequest]
SendAndClear(d, id, about, via) ==   \* fault: clear() for erase()
    /\ replies' = Append(replies, [to |-> d[id], about |-> about, via |-> via])
    /\ details' = [i \in Id \cup {NoId} |-> NoRequest]
SendAndKeep(d, id, about, via) ==    \* fault: the details are not erased
    /\ replies' = Append(replies, [to |-> d[id], about |-> about, via |-> via])
    /\ details' = d
SendResponse(d, id, about, via) ==
    /\ replies' = Append(replies, [to |-> d[id], about |-> about, via |-> via])
    /\ details' = [d EXCEPT ![id] = NoRequest]

-----------------------------------------------------------------------------
(***************************************************************************)
(* The message handlers, on the service's thread.                          *)
(***************************************************************************)
TaskReceived(t) ==
    /\ tasks' = tasks \cup {t}
    /\ initialized' = initialized \ {t}
    /\ UNCHANGED <<queues, details, errorId, active, seen, accepted, pipeline, replies>>

RemoveTasks(S) ==
    /\ tasks' = tasks \ S
    /\ initialized' = initialized \ S
    /\ UNCHANGED <<queues, details, errorId, active, seen, accepted, pipeline, replies>>

TaskInitialized(t) ==
    /\ initialized' = initialized \cup {t}
    /\ CheckTasksInitialized(waiting, initialized \cup {t}, active, "service")
    /\ UNCHANGED <<tasks, details, seen, accepted, lost, replies>>

HandleAutomationRequest(r, isMet) ==
    LET recorded == [details EXCEPT ![IdOf[r]] = r]
        isValid  == isMet /\ TasksOf[r] \subseteq tasks IN
    /\ r \notin seen
    /\ seen' = seen \cup {r}
    /\ \/ /\ isValid
          /\ details' = recorded
          /\ accepted' = Append(accepted, r)
          /\ CheckTasksInitialized(Join(waiting, <<r>>), initialized, active, "service")
          /\ UNCHANGED <<lost, replies>>
       \/ /\ ~isValid
          /\ SendResponse(recorded, IdOf[r], r, "rejected")
          /\ UNCHANGED <<queues, errorId, active, accepted, pipeline>>
    /\ UNCHANGED <<tasks, initialized>>

(***************************************************************************)
(* A UniqueAutomationResponse to the request r: it counts only if it has   *)
(* the identifier of the front of the queue and details to answer with.    *)
(***************************************************************************)
HandleAutomationResponse(r) ==
    LET pipe == [inPipeline EXCEPT ![r] = @ - 1]
        id   == IdOf[r]
        isExpected == pending # <<>> /\ IdOf[Head(pending)] = id /\ details[id] # NoRequest IN
    /\ inPipeline[r] > 0
    /\ \/ /\ isExpected
          /\ SendResponse(details, id, r, "answer")
          /\ pending' = Tail(pending)
          /\ SendNextRequest(Tail(pending), pipe, active, "service")
       \/ /\ ~isExpected
          /\ inPipeline' = pipe
          /\ UNCHANGED <<details, replies, pending, errorId, active, published>>
    /\ UNCHANGED <<tasks, initialized, waiting, seen, accepted, lost>>

-----------------------------------------------------------------------------
(***************************************************************************)
(* The timer callbacks, on the TimerManager's thread: a timer that calls   *)
(* back is no longer queued.                                               *)
(***************************************************************************)
OnResponseTimeout ==
    LET fired == active \ {"response"} IN
    /\ "response" \in active
    /\ \/ /\ pending # <<>>
          /\ SendResponse(details, errorId, Head(pending), "late")
          /\ pending' = Tail(pending)
          /\ SendNextRequest(Tail(pending), inPipeline, fired, "worker")
       \/ /\ pending = <<>>
          /\ SendNextRequest(pending, inPipeline, fired, "worker")
          /\ UNCHANGED <<replies, details, pending>>
    /\ UNCHANGED <<tasks, initialized, waiting, seen, accepted, lost>>

OnTasksReadyTimeout ==
    LET fired == active \ {"taskInit"} IN
    /\ "taskInit" \in active
    /\ \/ /\ waiting # <<>>
          /\ SendResponse(details, errorId, Head(waiting), "tasks")
          /\ CheckTasksInitialized(Tail(waiting), initialized, fired, "worker")
       \/ /\ waiting = <<>>
          /\ CheckTasksInitialized(waiting, initialized, fired, "worker")
          /\ UNCHANGED <<replies, details>>
    /\ UNCHANGED <<tasks, initialized, seen, accepted, lost>>

(***************************************************************************)
(* The pipeline fails to answer.                                           *)
(***************************************************************************)
PipelineLoses(r) ==
    /\ inPipeline[r] > 0
    /\ inPipeline' = [inPipeline EXCEPT ![r] = @ - 1]
    /\ lost' = lost \cup {r}
    /\ UNCHANGED <<tasks, initialized, queues, details, errorId, active, seen,
                   accepted, published, replies>>

Next ==
    \/ \E t \in Task : TaskReceived(t) \/ TaskInitialized(t)
    \/ \E S \in SUBSET Task : RemoveTasks(S)
    \/ \E r \in Request : \/ \E isMet \in BOOLEAN : HandleAutomationRequest(r, isMet)
                          \/ HandleAutomationResponse(r)
                          \/ PipelineLoses(r)
    \/ OnResponseTimeout \/ OnTasksReadyTimeout

Spec == Init /\ [][Next]_vars

(***************************************************************************)
(* Started timers call back, and what the pipeline has is answered or      *)
(* lost in the end.                                                        *)
(***************************************************************************)
Fairness ==
    /\ WF_vars(OnResponseTimeout) /\ WF_vars(OnTasksReadyTimeout)
    /\ \A r \in Request : WF_vars(HandleAutomationResponse(r) \/ PipelineLoses(r))
FairSpec == Spec /\ Fairness

-----------------------------------------------------------------------------
Queued(r) == \/ \E i \in DOMAIN waiting : waiting[i] = r
             \/ \E i \in DOMAIN pending : pending[i] = r
Concerned(r) == {i \in DOMAIN replies : replies[i].about = r}
IsFirst(via) == \A i \in DOMAIN replies : replies[i].via # via

(***************************************************************************)
(* No request is forgotten, none is settled twice: each request received   *)
(* is in exactly one queue, once, until the one response that concerns it. *)
(***************************************************************************)
SettledOnce ==
    \A r \in seen :
        /\ Queued(r) <=> Concerned(r) = {}
        /\ \A i, j \in Concerned(r) : i = j

(***************************************************************************)
(* Requests are queued, published and re-published in the order in which   *)
(* they came: a request is never overtaken, whatever moved it on.          *)
(***************************************************************************)
PlaceOf(r) == CHOOSE i \in DOMAIN accepted : accepted[i] = r
InOrder ==
    LET line == pending \o waiting IN
    /\ \A i, j \in DOMAIN line : i < j => PlaceOf(line[i]) < PlaceOf(line[j])
    /\ \A i, j \in DOMAIN published : i < j => PlaceOf(published[i]) <= PlaceOf(published[j])

(***************************************************************************)
(* The front of the pending queue is what was published last, and it is    *)
(* what the error response is addressed to: a timeout tells the right      *)
(* client although the identifier was written by an earlier handler.       *)
(***************************************************************************)
FrontIsPublished ==
    pending # <<>> => /\ published # <<>>
                      /\ published[Len(published)] = Head(pending)
                      /\ errorId = IdOf[Head(pending)]

(***************************************************************************)
(* With identifiers of their own, requests that were never published have  *)
(* the details their response will need, whatever timed out meanwhile.     *)
(***************************************************************************)
DistinctIds == \A r, s \in Request : IdOf[r] = IdOf[s] => r = s
UnpublishedKeepsDetails ==
    DistinctIds =>
        \A r \in Request :
            Queued(r) /\ (\A i \in DOMAIN published : published[i] # r)
                => details[IdOf[r]] = r

(***************************************************************************)
(* With identifiers of their own, a client is never given two responses,   *)
(* nor another client's result; and the error for a request the pipeline   *)
(* did not answer in time fails to reach its client only if a task-wait    *)
(* timeout was reported to that client before.                             *)
(***************************************************************************)
RightlyAddressed ==
    DistinctIds =>
        /\ \A i, j \in DOMAIN replies :
              replies[i].to = replies[j].to => i = j \/ replies[i].to = NoRequest
        /\ \A i \in DOMAIN replies :
              replies[i].via # "tasks" /\ replies[i].to # replies[i].about
                => /\ replies[i].to = NoRequest
                   /\ \E j \in 1 .. i - 1 : /\ replies[j].via = "tasks"
                                            /\ replies[j].to = replies[i].about

(***************************************************************************)
(* Every request found valid is settled, provided that the pipeline        *)
(* answers whatever it is sent, sooner or later, and that no request has   *)
(* been given up waiting for its tasks: late answers and response timeouts *)
(* do not stop the queue.                                                  *)
(***************************************************************************)
EverySettled == \A r \in Request : Queued(r) ~> Concerned(r) # {}
SettledIfAnswered == [](lost = {} /\ IsFirst("tasks")) => EverySettled

(***************************************************************************)
(* Every request found valid is settled, whatever the pipeline and the     *)
(* tasks fail to do, provided that clients send the next request only when *)
(* the last one has left the queues.                                       *)
(***************************************************************************)
SettledIfPatient == [](Len(waiting) + Len(pending) <= 1) => EverySettled
=============================================================================
