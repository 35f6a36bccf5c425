------------------ MODULE AutomationRequestValidatorProofs ------------------
(***************************************************************************)
(* Proofs about the validator, for any number of requests, identifiers and *)
(* tasks, in four parts.  For any identifiers, shared ones included: its   *)
(* state is well typed and the front of the pending queue is the request   *)
(* published last and the one the error response is addressed to; and      *)
(* requests stay in the order in which they came.  When no two share an    *)
(* identifier: each request is settled once; and who is given which        *)
(* response.                                                               *)
(***************************************************************************)
EXTENDS AutomationRequestValidator, SequenceTheorems, TLAPS

(***************************************************************************)
(* The invariant is not inductive without a fact about the timers: the     *)
(* response timer runs only while a request is pending.  It is what makes  *)
(* checkTasksInitialized publish when the queue was empty before, so that  *)
(* a new front is never left unpublished.                                  *)
(***************************************************************************)
ResponseIsAwaited == "response" \in active => pending # <<>>
IInv == TypeOK /\ FrontIsPublished /\ ResponseIsAwaited

(***************************************************************************)
(* The queues.                                                             *)
(***************************************************************************)

\* Cutting the task-wait queue after its first k requests gives two queues.
LEMMA Cut ==
    ASSUME NEW q \in Seq(Request), NEW k \in 0 .. Len(q)
    PROVE  /\ SubSeq(q, 1, k) \in Seq(Request)
           /\ Len(SubSeq(q, 1, k)) = k
           /\ SubSeq(q, k + 1, Len(q)) \in Seq(Request)
<1>1. Len(q) \in Nat /\ \A i \in 1 .. Len(q) : q[i] \in Request
    BY LenProperties, ElementOfSeq
<1>2. \A i \in 1 .. k : q[i] \in Request
    BY <1>1
<1>3. \A i \in k + 1 .. Len(q) : q[i] \in Request
    BY <1>1
<1>4. SubSeq(q, 1, k) \in Seq(Request) /\ Len(SubSeq(q, 1, k)) = IF 1 <= k THEN k - 1 + 1 ELSE 0
    BY <1>1, <1>2, SubSeqProperties
<1>5. SubSeq(q, k + 1, Len(q)) \in Seq(Request)
    BY <1>1, <1>3, SubSeqProperties
<1> QED BY <1>1, <1>4, <1>5

\* Requests that join the pending queue leave its front alone.
LEMMA JoinKeepsFront ==
    ASSUME NEW p \in Seq(Request), NEW more \in Seq(Request)
    PROVE  /\ Join(p, more) \in Seq(Request)
           /\ p # <<>> => Join(p, more) # <<>> /\ Head(Join(p, more)) = Head(p)
           /\ Len(more) > 0 => Join(p, more) # <<>>
           /\ Len(more) = 0 => Join(p, more) = p
<1>1. /\ p \o more \in Seq(Request)
      /\ Len(p \o more) = Len(p) + Len(more)
      /\ \A i \in 1 .. Len(p) + Len(more) :
            (p \o more)[i] = IF i <= Len(p) THEN p[i] ELSE more[i - Len(p)]
    BY ConcatProperties
<1>2. Len(p) \in Nat /\ Len(more) \in Nat
    BY LenProperties
<1>3. ASSUME p # <<>>
      PROVE  p \o more # <<>> /\ Head(p \o more) = Head(p)
    <2>1. Len(p) \in Nat \ {0}
        BY <1>3, EmptySeq
    <2>2. (p \o more)[1] = p[1]
        BY <1>1, <1>2, <2>1
    <2> QED BY <1>1, <1>2, <2>1, <2>2
<1>4. Len(more) > 0 => p \o more # <<>>
    BY <1>1, <1>2
<1>5. ASSUME Len(more) = 0
      PROVE  p \o more = p
    <2>1. more = <<>>
        BY <1>5, EmptySeq
    <2> QED BY <2>1, ConcatEmptySeq
<1> QED BY <1>1, <1>3, <1>4, <1>5 DEF Join

(***************************************************************************)
(* The steps that several handlers share.                                  *)
(***************************************************************************)

\* A request that is published is the last one published, and the error
\* response is addressed to it.
LEMMA PublishStep ==
    ASSUME TypeOK, NEW p \in Seq(Request), p # <<>>,
           NEW pipe \in [Request -> Nat], Publish(p, pipe)
    PROVE  /\ errorId' \in Id /\ errorId' = IdOf[Head(p)]
           /\ published' \in Seq(Request) /\ published' # <<>>
           /\ published'[Len(published')] = Head(p)
           /\ inPipeline' \in [Request -> Nat]
<1>1. Head(p) \in Request
    BY HeadTailProperties
<1>2. published \in Seq(Request)
    BY DEF TypeOK
<1>3. published' = Append(published, Head(p))
    BY DEF Publish
<1>4. errorId' \in Id /\ errorId' = IdOf[Head(p)]
    BY <1>1, ValidatorAssumption DEF Publish
<1>5. inPipeline' \in [Request -> Nat]
    BY <1>1 DEF Publish
<1>6. published' \in Seq(Request) /\ published' # <<>> /\ published'[Len(published')] = Head(p)
    BY <1>1, <1>2, <1>3
<1> QED BY <1>4, <1>5, <1>6

\* Starting and disabling a timer leaves a set of timers.
LEMMA TimersStep ==
    ASSUME NEW a \in SUBSET Timers, NEW timer \in Timers, NEW thread
    PROVE  /\ Started(a, timer, thread) \in SUBSET Timers
           /\ Disabled(a, timer) \in SUBSET Timers
    BY DEF Started, Disabled

\* sendNextRequest, after the front has left the pending queue.
LEMMA SendNextRequestStep ==
    ASSUME TypeOK, NEW p \in Seq(Request), NEW pipe \in [Request -> Nat],
           NEW a \in SUBSET Timers, NEW thread,
           pending' = p, SendNextRequest(p, pipe, a, thread)
    PROVE  /\ errorId' \in Id \cup {NoId}
           /\ published' \in Seq(Request)
           /\ inPipeline' \in [Request -> Nat]
           /\ active' \in SUBSET Timers
           /\ FrontIsPublished' /\ ResponseIsAwaited'
<1> "response" \in Timers
    BY DEF Timers
<1>1. CASE p = <<>>
    <2>1. NoPublish(pipe) /\ active' = Disabled(a, "response")
        BY <1>1 DEF SendNextRequest
    <2>2. errorId' = errorId /\ published' = published /\ inPipeline' = pipe
        BY <2>1 DEF NoPublish
    <2>3. active' \in SUBSET Timers
        BY <2>1, TimersStep
    <2>4. FrontIsPublished' /\ ResponseIsAwaited'
        BY <1>1, <2>1 DEF FrontIsPublished, ResponseIsAwaited, Disabled
    <2> QED BY <2>2, <2>3, <2>4 DEF TypeOK
<1>2. CASE p # <<>>
    <2>1. Publish(p, pipe) /\ active' = Started(a, "response", thread)
        BY <1>2 DEF SendNextRequest
    <2>2. active' \in SUBSET Timers
        BY <2>1, TimersStep
    <2>3. /\ errorId' \in Id /\ errorId' = IdOf[Head(p)]
          /\ published' \in Seq(Request) /\ published' # <<>>
          /\ published'[Len(published')] = Head(p)
          /\ inPipeline' \in [Request -> Nat]
        BY <1>2, <2>1, PublishStep
    <2>4. FrontIsPublished' /\ ResponseIsAwaited'
        BY <1>2, <2>3 DEF FrontIsPublished, ResponseIsAwaited
    <2> QED BY <2>2, <2>3, <2>4
<1> QED BY <1>1, <1>2

\* checkTasksInitialized, on the task-wait queue and the timers its caller
\* leaves it.
LEMMA CheckTasksInitializedStep ==
    ASSUME IInv, NEW q \in Seq(Request), NEW ready, NEW a \in SUBSET active, NEW thread,
           CheckTasksInitialized(q, ready, a, thread)
    PROVE  /\ waiting' \in Seq(Request) /\ pending' \in Seq(Request)
           /\ errorId' \in Id \cup {NoId}
           /\ published' \in Seq(Request)
           /\ inPipeline' \in [Request -> Nat]
           /\ active' \in SUBSET Timers
           /\ FrontIsPublished' /\ ResponseIsAwaited'
<1> DEFINE Rest(k)   == SubSeq(q, k + 1, Len(q))
           Queue(k)  == Join(pending, SubSeq(q, 1, k))
           IsSent(k) == k > 0 /\ "response" \notin a
           Moved(k)  == IF k > 0 THEN Started(a, "taskInit", thread) ELSE a
           Sent(k)   == IF IsSent(k) THEN Started(Moved(k), "response", thread) ELSE Moved(k)
           Timed(k)  == IF ~(k > 0) /\ "taskInit" \notin a /\ q # <<>>
                        THEN Started(Sent(k), "taskInit", thread) ELSE Sent(k)
<1>1. PICK k \in 0 .. Len(q) :
        /\ waiting' = Rest(k)
        /\ pending' = Queue(k)
        /\ IF IsSent(k) THEN Publish(Queue(k), inPipeline) ELSE NoPublish(inPipeline)
        /\ active' = IF Rest(k) = <<>> THEN Disabled(Timed(k), "taskInit") ELSE Timed(k)
    BY DEF CheckTasksInitialized
<1> DEFINE front == SubSeq(q, 1, k)
<1> HIDE DEF Rest, Queue, IsSent, Moved, Sent, Timed, front
<1>2. front \in Seq(Request) /\ Len(front) = k /\ Rest(k) \in Seq(Request)
    BY Cut DEF front, Rest
<1>3. /\ Queue(k) \in Seq(Request)
      /\ pending # <<>> => Queue(k) # <<>> /\ Head(Queue(k)) = Head(pending)
      /\ k > 0 => Queue(k) # <<>>
      /\ k = 0 => Queue(k) = pending
    BY <1>2, JoinKeepsFront DEF Queue, front, IInv, TypeOK
<1>4. a \in SUBSET Timers /\ "response" \in Timers /\ "taskInit" \in Timers
    BY DEF IInv, TypeOK, Timers
<1>5. active' \in SUBSET Timers
    <2>1. Moved(k) \in SUBSET Timers
        BY <1>4, TimersStep DEF Moved
    <2>2. Sent(k) \in SUBSET Timers
        BY <1>4, <2>1, TimersStep DEF Sent
    <2>3. Timed(k) \in SUBSET Timers
        BY <1>4, <2>2, TimersStep DEF Timed
    <2> QED BY <1>1, <1>4, <2>3, TimersStep
<1>6. CASE IsSent(k)
    <2>1. Queue(k) # <<>>
        BY <1>3, <1>6 DEF IsSent
    <2>2. /\ errorId' \in Id /\ errorId' = IdOf[Head(Queue(k))]
          /\ published' \in Seq(Request) /\ published' # <<>>
          /\ published'[Len(published')] = Head(Queue(k))
          /\ inPipeline' \in [Request -> Nat]
        <3>1. Publish(Queue(k), inPipeline)
            BY <1>1, <1>6
        <3> QED BY <3>1, <1>3, <2>1, PublishStep DEF IInv, TypeOK
    <2>3. FrontIsPublished' /\ ResponseIsAwaited'
        BY <1>1, <2>1, <2>2 DEF FrontIsPublished, ResponseIsAwaited
    <2> QED BY <1>1, <1>2, <1>3, <1>5, <2>2, <2>3
<1>7. CASE ~IsSent(k)
    <2>1. errorId' = errorId /\ published' = published /\ inPipeline' = inPipeline
        BY <1>1, <1>7 DEF NoPublish
    <2>2. pending' # <<>> => pending # <<>> /\ Head(pending') = Head(pending)
        <3>1. CASE k = 0
            BY <1>1, <1>3, <3>1
        <3>2. CASE k > 0
            BY <1>1, <1>3, <1>7, <3>2 DEF IsSent, IInv, ResponseIsAwaited
        <3> QED BY <3>1, <3>2
    <2>3. FrontIsPublished'
        BY <2>1, <2>2 DEF FrontIsPublished, IInv
    <2>4. ResponseIsAwaited'
        <3>1. "response" \in active' => "response" \in a
            BY <1>1, <1>7 DEF Timed, Sent, Moved, Started, Disabled
        <3> QED BY <1>1, <1>3, <3>1 DEF ResponseIsAwaited, IInv
    <2> QED BY <1>1, <1>2, <1>3, <1>5, <2>1, <2>3, <2>4 DEF IInv, TypeOK
<1> QED BY <1>6, <1>7

\* SendResponse, for any entry of the details.
LEMMA SendResponseStep ==
    ASSUME TypeOK, NEW d \in [Id \cup {NoId} -> Request \cup {NoRequest}],
           NEW id \in Id \cup {NoId}, NEW about \in Request, NEW via \in Reason,
           SendResponse(d, id, about, via)
    PROVE  /\ replies' \in Seq(Reply)
           /\ details' \in [Id \cup {NoId} -> Request \cup {NoRequest}]
<1> DEFINE r == [to |-> d[id], about |-> about, via |-> via]
<1>1. r \in Reply
    BY DEF Reply
<1>2. replies' = Append(replies, r) /\ replies \in Seq(Reply)
    BY DEF SendResponse, TypeOK
<1>3. replies' \in Seq(Reply)
    BY <1>1, <1>2
<1> QED BY <1>3 DEF SendResponse

-----------------------------------------------------------------------------
(***************************************************************************)
(* The invariant is inductive.                                             *)
(***************************************************************************)
LEMMA InitIInv == Init => IInv
<1> SUFFICES ASSUME Init PROVE IInv
    OBVIOUS
<1>1. TypeOK
    BY ValidatorAssumption DEF Init, TypeOK, Timers
<1> QED BY <1>1 DEF Init, IInv, FrontIsPublished, ResponseIsAwaited

\* What is left to show when the queues, the timers and the pipeline's
\* requests do not change.
LEMMA QueuesUnchanged ==
    ASSUME IInv, UNCHANGED <<pending, errorId, active, published>>
    PROVE  FrontIsPublished' /\ ResponseIsAwaited'
    BY DEF IInv, FrontIsPublished, ResponseIsAwaited

LEMMA NextIInv == IInv /\ [Next]_vars => IInv'
<1> SUFFICES ASSUME IInv, [Next]_vars PROVE IInv'
    OBVIOUS
<1> USE ValidatorAssumption
<1>1. ASSUME NEW t \in Task, TaskReceived(t) PROVE IInv'
    <2>1. TypeOK'
        BY <1>1 DEF IInv, TypeOK, TaskReceived, queues, pipeline
    <2>2. FrontIsPublished' /\ ResponseIsAwaited'
        BY <1>1, QueuesUnchanged DEF TaskReceived, queues, pipeline
    <2> QED BY <2>1, <2>2 DEF IInv
<1>2. ASSUME NEW S \in SUBSET Task, RemoveTasks(S) PROVE IInv'
    <2>1. TypeOK'
        BY <1>2 DEF IInv, TypeOK, RemoveTasks, queues, pipeline
    <2>2. FrontIsPublished' /\ ResponseIsAwaited'
        BY <1>2, QueuesUnchanged DEF RemoveTasks, queues, pipeline
    <2> QED BY <2>1, <2>2 DEF IInv
<1>3. ASSUME NEW t \in Task, TaskInitialized(t) PROVE IInv'
    <2>1. /\ waiting' \in Seq(Request) /\ pending' \in Seq(Request)
          /\ errorId' \in Id \cup {NoId} /\ published' \in Seq(Request)
          /\ inPipeline' \in [Request -> Nat] /\ active' \in SUBSET Timers
          /\ FrontIsPublished' /\ ResponseIsAwaited'
        BY <1>3, CheckTasksInitializedStep DEF TaskInitialized, IInv, TypeOK
    <2>2. /\ tasks' = tasks /\ initialized' = initialized \cup {t}
          /\ UNCHANGED <<details, seen, accepted, lost, replies>>
        BY <1>3 DEF TaskInitialized
    <2> QED BY <2>1, <2>2 DEF IInv, TypeOK
<1>4. ASSUME NEW r \in Request, NEW isMet \in BOOLEAN, HandleAutomationRequest(r, isMet)
      PROVE  IInv'
    <2> DEFINE recorded == [details EXCEPT ![IdOf[r]] = r]
               isValid  == isMet /\ TasksOf[r] \subseteq tasks
    <2>1. recorded \in [Id \cup {NoId} -> Request \cup {NoRequest}] /\ IdOf[r] \in Id
        BY DEF IInv, TypeOK
    <2>2. tasks' = tasks /\ initialized' = initialized /\ seen' = seen \cup {r}
        BY <1>4 DEF HandleAutomationRequest
    <2>3. CASE isValid
        <3>1. /\ details' = recorded
              /\ accepted' = Append(accepted, r)
              /\ CheckTasksInitialized(Join(waiting, <<r>>), initialized, active, "service")
              /\ UNCHANGED <<lost, replies>>
            BY <1>4, <2>3 DEF HandleAutomationRequest
        <3>2. Join(waiting, <<r>>) \in Seq(Request)
            <4>1. waiting \in Seq(Request) /\ <<r>> \in Seq(Request)
                BY DEF IInv, TypeOK
            <4> QED BY <4>1, JoinKeepsFront
        <3>3. /\ waiting' \in Seq(Request) /\ pending' \in Seq(Request)
              /\ errorId' \in Id \cup {NoId} /\ published' \in Seq(Request)
              /\ inPipeline' \in [Request -> Nat] /\ active' \in SUBSET Timers
              /\ FrontIsPublished' /\ ResponseIsAwaited'
            BY <3>1, <3>2, CheckTasksInitializedStep
        <3>4. accepted' \in Seq(Request)
            BY <3>1 DEF IInv, TypeOK
        <3> QED BY <2>1, <2>2, <3>1, <3>3, <3>4 DEF IInv, TypeOK
    <2>4. CASE ~isValid
        <3>1. /\ SendResponse(recorded, IdOf[r], r, "rejected")
              /\ UNCHANGED <<queues, errorId, active, accepted, pipeline>>
            BY <1>4, <2>4 DEF HandleAutomationRequest
        <3>2. /\ replies' \in Seq(Reply)
              /\ details' \in [Id \cup {NoId} -> Request \cup {NoRequest}]
            BY <2>1, <3>1, SendResponseStep DEF IInv, Reason
        <3>3. FrontIsPublished' /\ ResponseIsAwaited'
            BY <3>1, QueuesUnchanged DEF queues, pipeline
        <3> QED BY <2>2, <3>1, <3>2, <3>3 DEF IInv, TypeOK, queues, pipeline
    <2> QED BY <2>3, <2>4
<1>5. ASSUME NEW r \in Request, HandleAutomationResponse(r) PROVE IInv'
    <2> DEFINE pipe == [inPipeline EXCEPT ![r] = @ - 1]
               isExpected == /\ pending # <<>> /\ IdOf[Head(pending)] = IdOf[r]
                             /\ details[IdOf[r]] # NoRequest
    <2>1. pipe \in [Request -> Nat]
        BY <1>5 DEF HandleAutomationResponse, IInv, TypeOK
    <2>2. UNCHANGED <<tasks, initialized, waiting, seen, accepted, lost>>
        BY <1>5 DEF HandleAutomationResponse
    <2>3. CASE isExpected
        <3>1. /\ SendResponse(details, IdOf[r], r, "answer")
              /\ pending' = Tail(pending)
              /\ SendNextRequest(Tail(pending), pipe, active, "service")
            BY <1>5, <2>3 DEF HandleAutomationResponse
        <3>2. Tail(pending) \in Seq(Request)
            BY <2>3, HeadTailProperties DEF IInv, TypeOK
        <3>3. /\ replies' \in Seq(Reply)
              /\ details' \in [Id \cup {NoId} -> Request \cup {NoRequest}]
            BY <3>1, SendResponseStep DEF IInv, TypeOK, Reason
        <3>4. /\ errorId' \in Id \cup {NoId} /\ published' \in Seq(Request)
              /\ inPipeline' \in [Request -> Nat] /\ active' \in SUBSET Timers
              /\ FrontIsPublished' /\ ResponseIsAwaited'
            BY <2>1, <3>1, <3>2, SendNextRequestStep DEF IInv, TypeOK
        <3> QED BY <2>2, <3>1, <3>2, <3>3, <3>4 DEF IInv, TypeOK
    <2>4. CASE ~isExpected
        <3>1. /\ inPipeline' = pipe
              /\ UNCHANGED <<details, replies, pending, errorId, active, published>>
            BY <1>5, <2>4 DEF HandleAutomationResponse
        <3>2. FrontIsPublished' /\ ResponseIsAwaited'
            BY <3>1, QueuesUnchanged
        <3> QED BY <2>1, <2>2, <3>1, <3>2 DEF IInv, TypeOK
    <2> QED BY <2>3, <2>4
<1>6. ASSUME NEW r \in Request, PipelineLoses(r) PROVE IInv'
    <2>1. TypeOK'
        BY <1>6 DEF IInv, TypeOK, PipelineLoses, queues
    <2>2. FrontIsPublished' /\ ResponseIsAwaited'
        BY <1>6, QueuesUnchanged DEF PipelineLoses, queues
    <2> QED BY <2>1, <2>2 DEF IInv
<1>7. CASE OnResponseTimeout
    <2> DEFINE fired == active \ {"response"}
    <2>1. UNCHANGED <<tasks, initialized, waiting, seen, accepted, lost>>
        BY <1>7 DEF OnResponseTimeout
    <2>2. fired \in SUBSET Timers
        BY DEF IInv, TypeOK
    <2>3. /\ pending # <<>>          \* the other disjunct is not enabled
          /\ SendResponse(details, errorId, Head(pending), "late")
          /\ pending' = Tail(pending)
          /\ SendNextRequest(Tail(pending), inPipeline, fired, "worker")
        BY <1>7 DEF OnResponseTimeout, IInv, ResponseIsAwaited
    <2>4. Head(pending) \in Request /\ Tail(pending) \in Seq(Request)
        BY <2>3, HeadTailProperties DEF IInv, TypeOK
    <2>5. /\ replies' \in Seq(Reply)
          /\ details' \in [Id \cup {NoId} -> Request \cup {NoRequest}]
        BY <2>3, <2>4, SendResponseStep DEF IInv, TypeOK, Reason
    <2>6. /\ errorId' \in Id \cup {NoId} /\ published' \in Seq(Request)
          /\ inPipeline' \in [Request -> Nat] /\ active' \in SUBSET Timers
          /\ FrontIsPublished' /\ ResponseIsAwaited'
        BY <2>2, <2>3, <2>4, SendNextRequestStep DEF IInv, TypeOK
    <2> QED BY <2>1, <2>3, <2>4, <2>5, <2>6 DEF IInv, TypeOK
<1>8. CASE OnTasksReadyTimeout
    <2> DEFINE fired == active \ {"taskInit"}
    <2>1. UNCHANGED <<tasks, initialized, seen, accepted, lost>>
        BY <1>8 DEF OnTasksReadyTimeout
    <2>2. PICK q \in Seq(Request) : CheckTasksInitialized(q, initialized, fired, "worker")
        <3>1. waiting \in Seq(Request) /\ (waiting # <<>> => Tail(waiting) \in Seq(Request))
            BY HeadTailProperties DEF IInv, TypeOK
        <3> QED BY <1>8, <3>1 DEF OnTasksReadyTimeout
    <2>3. /\ waiting' \in Seq(Request) /\ pending' \in Seq(Request)
          /\ errorId' \in Id \cup {NoId} /\ published' \in Seq(Request)
          /\ inPipeline' \in [Request -> Nat] /\ active' \in SUBSET Timers
          /\ FrontIsPublished' /\ ResponseIsAwaited'
        BY <2>2, CheckTasksInitializedStep
    <2>4. /\ replies' \in Seq(Reply)
          /\ details' \in [Id \cup {NoId} -> Request \cup {NoRequest}]
        <3>1. CASE waiting # <<>>
            <4>1. Head(waiting) \in Request
                BY <3>1, HeadTailProperties DEF IInv, TypeOK
            <4>2. SendResponse(details, errorId, Head(waiting), "tasks")
                BY <1>8, <3>1 DEF OnTasksReadyTimeout
            <4> QED BY <4>1, <4>2, SendResponseStep DEF IInv, TypeOK, Reason
        <3>2. CASE waiting = <<>>
            BY <1>8, <3>2 DEF OnTasksReadyTimeout, IInv, TypeOK
        <3> QED BY <3>1, <3>2
    <2> QED BY <2>1, <2>3, <2>4 DEF IInv, TypeOK
<1>9. CASE UNCHANGED vars
    <2>1. TypeOK'
        BY <1>9 DEF IInv, TypeOK, vars, queues, pipeline
    <2>2. FrontIsPublished' /\ ResponseIsAwaited'
        BY <1>9, QueuesUnchanged DEF vars, queues, pipeline
    <2> QED BY <2>1, <2>2 DEF IInv
<1> QED BY <1>1, <1>2, <1>3, <1>4, <1>5, <1>6, <1>7, <1>8, <1>9 DEF Next

THEOREM Invariance == Spec => []IInv
<1>1. Init => IInv
    BY InitIInv
<1>2. IInv /\ [Next]_vars => IInv'
    BY NextIInv
<1> QED BY <1>1, <1>2, PTL DEF Spec

(***************************************************************************)
(* Every variable of the validator keeps its type: in particular no reply  *)
(* is built from an identifier that was never assigned, and no timer other *)
(* than its two is ever started.                                           *)
(***************************************************************************)
THEOREM TypeCorrect == Spec => []TypeOK
<1>1. IInv => TypeOK
    BY DEF IInv
<1> QED BY <1>1, Invariance, PTL

(***************************************************************************)
(* The front of the pending queue is always the request published last and *)
(* the one whose identifier the error response bears, so that              *)
(* OnResponseTimeout answers for the request it removes.                   *)
(***************************************************************************)
THEOREM FrontPublished == Spec => []FrontIsPublished
<1>1. IInv => FrontIsPublished
    BY DEF IInv
<1> QED BY <1>1, Invariance, PTL

-----------------------------------------------------------------------------
(***************************************************************************)
(* Each request is settled once, if no two share an identifier.            *)
(***************************************************************************)

(***************************************************************************)
(* A request is in one place of one queue, only requests that were seen    *)
(* are queued or replied to, and the identifier in the error response is   *)
(* that of a request that was published.                                   *)
(***************************************************************************)
Has(s, r) == \E i \in DOMAIN s : s[i] = r
Distinct(s) == \A i, j \in DOMAIN s : s[i] = s[j] => i = j
Apart(s, u) == \A r \in Request : ~(Has(s, r) /\ Has(u, r))

OneQueue(w, p) == Distinct(w) /\ Distinct(p) /\ Apart(w, p)
QueuedIn(w, p, r) == Has(w, r) \/ Has(p, r)

OnlySeen == /\ \A r \in Request : Queued(r) => r \in seen
            /\ \A i \in DOMAIN replies : replies[i].about \in seen
ErrorOfPublished == errorId = NoId \/ \E r \in Request : Has(published, r) /\ errorId = IdOf[r]
PipelineOfPublished == \A r \in Request : inPipeline[r] > 0 => Has(published, r)

SInv == /\ OneQueue(waiting, pending) /\ OnlySeen /\ SettledOnce
        /\ ErrorOfPublished /\ PipelineOfPublished /\ UnpublishedKeepsDetails

-----------------------------------------------------------------------------
(***************************************************************************)
(* What is in a queue that is cut, joined, appended to or served.          *)
(***************************************************************************)

\* The two parts of a queue, place by place.
LEMMA CutPlaces ==
    ASSUME NEW q \in Seq(Request), NEW k \in 0 .. Len(q),
           NEW front, front = SubSeq(q, 1, k), NEW rest, rest = SubSeq(q, k + 1, Len(q))
    PROVE  /\ Len(q) \in Nat /\ DOMAIN q = 1 .. Len(q) /\ \A i \in 1 .. Len(q) : q[i] \in Request
           /\ DOMAIN front = 1 .. k /\ \A i \in 1 .. k : front[i] = q[i]
           /\ DOMAIN rest = 1 .. Len(q) - k /\ \A i \in 1 .. Len(q) - k : rest[i] = q[k + i]
<1>1. Len(q) \in Nat /\ DOMAIN q = 1 .. Len(q) /\ \A i \in 1 .. Len(q) : q[i] \in Request
    BY LenProperties, ElementOfSeq
<1>2. DOMAIN front = 1 .. k /\ \A i \in 1 .. k : front[i] = q[i]
    <2>1. \A i \in 1 .. k : q[i] \in Request
        BY <1>1
    <2>2. front \in Seq(Request) /\ Len(front) = k /\ \A i \in 1 .. k : front[i] = q[i]
        BY <1>1, <2>1, Cut, SubSeqProperties
    <2> QED BY <2>2, LenProperties
<1>3. DOMAIN rest = 1 .. Len(q) - k /\ \A i \in 1 .. Len(q) - k : rest[i] = q[k + i]
    <2>1. \A i \in k + 1 .. Len(q) : q[i] \in Request
        BY <1>1
    <2>2. /\ rest \in Seq(Request)
          /\ Len(rest) = IF k + 1 <= Len(q) THEN Len(q) - (k + 1) + 1 ELSE 0
          /\ \A i \in 1 .. Len(q) - (k + 1) + 1 : rest[i] = q[k + 1 + i - 1]
        BY <1>1, <2>1, SubSeqProperties
    <2>3. Len(rest) = Len(q) - k /\ \A i \in 1 .. Len(q) - k : rest[i] = q[k + i]
        <3>1. Len(q) - (k + 1) + 1 = Len(q) - k /\ Len(rest) = Len(q) - k
            <4> DEFINE n == Len(q)
            <4>1. n \in Nat /\ k \in 0 .. n
                BY <1>1
            <4>2. Len(rest) = IF k + 1 <= n THEN n - (k + 1) + 1 ELSE 0
                BY <2>2
            <4> HIDE DEF n
            <4>3. n - (k + 1) + 1 = n - k /\ (~(k + 1 <= n) => n - k = 0)
                BY <4>1
            <4>4. Len(rest) = n - k
                BY <4>2, <4>3
            <4> QED BY <4>3, <4>4 DEF n
        <3>2. ASSUME NEW i \in 1 .. Len(q) - k PROVE rest[i] = q[k + i]
            <4>1. k + 1 + i - 1 = k + i
                BY <1>1
            <4> QED BY <2>2, <3>1, <4>1
        <3> QED BY <3>1, <3>2
    <2> QED BY <2>2, <2>3, LenProperties
<1> QED BY <1>1, <1>2, <1>3

\* The two parts of a queue have its requests between them, each once.
LEMMA CutElements ==
    ASSUME NEW q \in Seq(Request), NEW k \in 0 .. Len(q), Distinct(q)
    PROVE  /\ OneQueue(SubSeq(q, k + 1, Len(q)), SubSeq(q, 1, k))
           /\ \A r : Has(q, r) <=> QueuedIn(SubSeq(q, k + 1, Len(q)), SubSeq(q, 1, k), r)
<1> DEFINE front == SubSeq(q, 1, k)
           rest  == SubSeq(q, k + 1, Len(q))
<1>1. Len(q) \in Nat /\ DOMAIN q = 1 .. Len(q) /\ \A i \in 1 .. Len(q) : q[i] \in Request
    BY CutPlaces
<1>2. DOMAIN front = 1 .. k /\ \A i \in 1 .. k : front[i] = q[i]
    BY CutPlaces
<1>3. DOMAIN rest = 1 .. Len(q) - k /\ \A i \in 1 .. Len(q) - k : rest[i] = q[k + i]
    BY CutPlaces
<1> HIDE DEF front, rest
<1>4. Distinct(front)
    BY <1>1, <1>2 DEF Distinct
<1>5. Distinct(rest)
    BY <1>1, <1>3 DEF Distinct
<1>6. Apart(rest, front)
    BY <1>1, <1>2, <1>3 DEF Apart, Has, Distinct
<1>7. ASSUME NEW r PROVE Has(q, r) <=> QueuedIn(rest, front, r)
    <2>1. ASSUME NEW i \in DOMAIN q, q[i] = r PROVE QueuedIn(rest, front, r)
        <3>1. CASE i <= k
            BY <1>1, <1>2, <2>1, <3>1 DEF QueuedIn, Has
        <3>2. CASE ~(i <= k)
            <4>1. i - k \in 1 .. Len(q) - k /\ rest[i - k] = q[i]
                BY <1>1, <1>3, <3>2
            <4> QED BY <1>3, <2>1, <4>1 DEF QueuedIn, Has
        <3> QED BY <3>1, <3>2
    <2>2. ASSUME NEW i \in DOMAIN rest, rest[i] = r PROVE Has(q, r)
        <3>1. k + i \in 1 .. Len(q) /\ q[k + i] = r
            BY <1>1, <1>3, <2>2
        <3> QED BY <1>1, <3>1 DEF Has
    <2>3. ASSUME NEW i \in DOMAIN front, front[i] = r PROVE Has(q, r)
        BY <1>1, <1>2, <2>3 DEF Has
    <2> QED BY <2>1, <2>2, <2>3 DEF QueuedIn, Has
<1> QED BY <1>4, <1>5, <1>6, <1>7 DEF OneQueue, front, rest

\* A queue another joins, place by place.
LEMMA JoinPlaces ==
    ASSUME NEW p \in Seq(Request), NEW more \in Seq(Request), NEW all, all = p \o more
    PROVE  /\ Len(p) \in Nat /\ Len(more) \in Nat
           /\ DOMAIN p = 1 .. Len(p) /\ DOMAIN more = 1 .. Len(more)
           /\ \A i \in 1 .. Len(p) : p[i] \in Request
           /\ \A i \in 1 .. Len(more) : more[i] \in Request
           /\ DOMAIN all = 1 .. Len(p) + Len(more)
           /\ \A i \in 1 .. Len(p) : all[i] = p[i]
           /\ \A i \in Len(p) + 1 .. Len(p) + Len(more) : all[i] = more[i - Len(p)]
<1>1. /\ Len(p) \in Nat /\ Len(more) \in Nat
      /\ DOMAIN p = 1 .. Len(p) /\ DOMAIN more = 1 .. Len(more)
      /\ \A i \in 1 .. Len(p) : p[i] \in Request
      /\ \A i \in 1 .. Len(more) : more[i] \in Request
    BY LenProperties, ElementOfSeq
<1>2. DOMAIN all = 1 .. Len(p) + Len(more)
    BY ConcatProperties, LenProperties
<1>3. /\ \A i \in 1 .. Len(p) : all[i] = p[i]
      /\ \A i \in Len(p) + 1 .. Len(p) + Len(more) : all[i] = more[i - Len(p)]
    BY <1>1, ConcatProperties
<1> QED BY <1>1, <1>2, <1>3

\* What joins a queue without being in it before is in it once.
LEMMA JoinElements ==
    ASSUME NEW p \in Seq(Request), NEW more \in Seq(Request), OneQueue(p, more)
    PROVE  /\ Distinct(Join(p, more))
           /\ \A r : Has(Join(p, more), r) <=> QueuedIn(p, more, r)
<1> DEFINE all == p \o more
<1>1. /\ Len(p) \in Nat /\ Len(more) \in Nat
      /\ DOMAIN p = 1 .. Len(p) /\ DOMAIN more = 1 .. Len(more)
      /\ \A i \in 1 .. Len(p) : p[i] \in Request
      /\ \A i \in 1 .. Len(more) : more[i] \in Request
    BY JoinPlaces
<1>2. DOMAIN all = 1 .. Len(p) + Len(more)
    BY JoinPlaces
<1>3. /\ \A i \in 1 .. Len(p) : all[i] = p[i]
      /\ \A i \in Len(p) + 1 .. Len(p) + Len(more) : all[i] = more[i - Len(p)]
    BY JoinPlaces
<1> HIDE DEF all
<1>4. \A i \in 1 .. Len(p), j \in 1 .. Len(more) : p[i] # more[j]
    BY <1>1 DEF OneQueue, Apart, Has
<1>5. Distinct(all)
    <2> SUFFICES ASSUME NEW i \in DOMAIN all, NEW j \in DOMAIN all, all[i] = all[j], i < j
                 PROVE  FALSE
        BY <1>1, <1>2 DEF Distinct
    <2>1. CASE j <= Len(p)
        BY <1>1, <1>2, <1>3, <2>1 DEF OneQueue, Distinct
    <2>2. CASE i <= Len(p) /\ Len(p) < j
        <3>1. i \in 1 .. Len(p) /\ j - Len(p) \in 1 .. Len(more) /\ p[i] = more[j - Len(p)]
            BY <1>1, <1>2, <1>3, <2>2
        <3> QED BY <1>4, <3>1
    <2>3. CASE Len(p) < i
        <3>1. /\ i - Len(p) \in 1 .. Len(more) /\ j - Len(p) \in 1 .. Len(more)
              /\ more[i - Len(p)] = more[j - Len(p)]
            BY <1>1, <1>2, <1>3, <2>3
        <3>2. i - Len(p) = j - Len(p)
            BY <1>1, <3>1 DEF OneQueue, Distinct
        <3> QED BY <1>1, <1>2, <3>2
    <2> QED BY <1>1, <1>2, <2>1, <2>2, <2>3
<1>6. ASSUME NEW r PROVE Has(all, r) <=> QueuedIn(p, more, r)
    <2>1. ASSUME NEW i \in DOMAIN all, all[i] = r PROVE QueuedIn(p, more, r)
        <3>1. CASE i <= Len(p)
            BY <1>1, <1>2, <1>3, <2>1, <3>1 DEF QueuedIn, Has
        <3>2. CASE ~(i <= Len(p))
            <4>1. i - Len(p) \in 1 .. Len(more) /\ more[i - Len(p)] = r
                BY <1>1, <1>2, <1>3, <2>1, <3>2
            <4> QED BY <1>1, <4>1 DEF QueuedIn, Has
        <3> QED BY <3>1, <3>2
    <2>2. ASSUME NEW i \in DOMAIN p, p[i] = r PROVE Has(all, r)
        BY <1>1, <1>2, <1>3, <2>2 DEF Has
    <2>3. ASSUME NEW i \in DOMAIN more, more[i] = r PROVE Has(all, r)
        <3>1. i + Len(p) \in 1 .. Len(p) + Len(more) /\ all[i + Len(p)] = r
            BY <1>1, <1>3, <2>3
        <3> QED BY <1>2, <3>1 DEF Has
    <2> QED BY <2>1, <2>2, <2>3 DEF QueuedIn, Has
<1> QED BY <1>5, <1>6 DEF Join, all

\* A queue that was served, place by place.
LEMMA TailPlaces ==
    ASSUME NEW s \in Seq(Request), s # <<>>, NEW t, t = Tail(s)
    PROVE  /\ Len(s) \in Nat \ {0} /\ DOMAIN s = 1 .. Len(s) /\ Head(s) = s[1] /\ s[1] \in Request
           /\ DOMAIN t = 1 .. Len(s) - 1
           /\ \A i \in 1 .. Len(s) - 1 : t[i] = s[i + 1] /\ t[i] \in Request
<1>1. Len(s) \in Nat \ {0} /\ DOMAIN s = 1 .. Len(s)
    BY LenProperties, EmptySeq
<1>2. t \in Seq(Request) /\ Len(t) = Len(s) - 1 /\ \A i \in 1 .. Len(s) - 1 : t[i] = s[i + 1]
    BY HeadTailProperties
<1>3. DOMAIN t = 1 .. Len(s) - 1
    BY <1>2, LenProperties
<1>4. Head(s) = s[1]
    BY <1>1
<1>5. Head(s) \in Request /\ \A i \in 1 .. Len(t) : t[i] \in Request
    BY <1>2, HeadTailProperties, ElementOfSeq
<1> QED BY <1>1, <1>2, <1>3, <1>4, <1>5

\* A queue that was served has what it had, but for its front.
LEMMA TailElements ==
    ASSUME NEW s \in Seq(Request), s # <<>>, Distinct(s)
    PROVE  /\ Distinct(Tail(s)) /\ Has(s, Head(s))
           /\ \A r : Has(Tail(s), r) <=> Has(s, r) /\ r # Head(s)
<1> DEFINE t == Tail(s)
<1>1. Len(s) \in Nat \ {0} /\ DOMAIN s = 1 .. Len(s)
    BY TailPlaces
<1>2. DOMAIN t = 1 .. Len(s) - 1 /\ \A i \in 1 .. Len(s) - 1 : t[i] = s[i + 1]
    BY TailPlaces
<1>3. DOMAIN t = 1 .. Len(s) - 1
    BY <1>2
<1>4. Head(s) = s[1]
    BY <1>1
<1> HIDE DEF t
<1>5. Distinct(t)
    <2> SUFFICES ASSUME NEW i \in DOMAIN t, NEW j \in DOMAIN t, t[i] = t[j] PROVE i = j
        BY DEF Distinct
    <2>1. i + 1 \in DOMAIN s /\ j + 1 \in DOMAIN s /\ s[i + 1] = s[j + 1]
        BY <1>1, <1>2, <1>3
    <2>2. i + 1 = j + 1
        BY <2>1 DEF Distinct
    <2> QED BY <1>1, <1>3, <2>2
<1>6. Has(s, Head(s))
    BY <1>1, <1>4 DEF Has
<1>7. ASSUME NEW r PROVE Has(t, r) <=> Has(s, r) /\ r # Head(s)
    <2>1. ASSUME NEW i \in DOMAIN t, t[i] = r PROVE Has(s, r) /\ r # Head(s)
        <3>1. i + 1 \in DOMAIN s /\ s[i + 1] = r /\ i + 1 # 1 /\ 1 \in DOMAIN s
            BY <1>1, <1>2, <1>3, <2>1
        <3> QED BY <1>4, <3>1 DEF Has, Distinct
    <2>2. ASSUME NEW i \in DOMAIN s, s[i] = r, r # Head(s) PROVE Has(t, r)
        <3>1. i - 1 \in DOMAIN t /\ t[i - 1] = r
            BY <1>1, <1>2, <1>3, <1>4, <2>2
        <3> QED BY <3>1 DEF Has
    <2> QED BY <2>1, <2>2 DEF Has
<1> QED BY <1>5, <1>6, <1>7 DEF t

-----------------------------------------------------------------------------
(***************************************************************************)
(* The parts of the handlers.                                              *)
(***************************************************************************)

\* Appending to a sequence adds one index to it.
LEMMA AppendElement ==
    ASSUME NEW S, NEW s \in Seq(S), NEW e \in S, NEW u, u = Append(s, e)
    PROVE  \E n : /\ n \notin DOMAIN s /\ DOMAIN u = DOMAIN s \cup {n}
                  /\ u[n] = e /\ \A i \in DOMAIN s : u[i] = s[i]
<1> DEFINE n == Len(s) + 1
<1>1. Len(s) \in Nat /\ DOMAIN s = 1 .. Len(s)
    BY LenProperties
<1>2. u \in Seq(S) /\ Len(u) = n /\ u[n] = e /\ \A i \in 1 .. Len(s) : u[i] = s[i]
    BY AppendProperties
<1>3. DOMAIN u = 1 .. n
    BY <1>2, LenProperties
<1>4. n \notin DOMAIN s /\ DOMAIN u = DOMAIN s \cup {n}
    BY <1>1, <1>3
<1> HIDE DEF n
<1> QED BY <1>1, <1>2, <1>4

\* What is published is recorded, and the error response and the pipeline
\* concern only what is recorded.
LEMMA PublishRecords ==
    ASSUME TypeOK, NEW p \in Seq(Request), p # <<>>, NEW pipe \in [Request -> Nat],
           \A r \in Request : pipe[r] > 0 => Has(published, r),
           Publish(p, pipe)
    PROVE  /\ \A r : Has(published, r) => Has(published', r)
           /\ ErrorOfPublished' /\ PipelineOfPublished'
<1> DEFINE h == Head(p)
<1>1. h \in Request /\ published \in Seq(Request) /\ published' = Append(published, h)
    BY HeadTailProperties DEF TypeOK, Publish
<1> HIDE DEF h
<1>2. /\ DOMAIN published = 1 .. Len(published) /\ Len(published) \in Nat
      /\ DOMAIN published' = 1 .. Len(published) + 1
      /\ \A i \in 1 .. Len(published) : published'[i] = published[i]
      /\ published'[Len(published) + 1] = h
    BY <1>1, AppendProperties, LenProperties
<1>3. \A r : Has(published, r) => Has(published', r)
    BY <1>2 DEF Has
<1>4. Has(published', h)
    <2>1. Len(published) + 1 \in DOMAIN published'
        BY <1>2
    <2> QED BY <1>2, <2>1 DEF Has
<1>5. ErrorOfPublished'
    BY <1>1, <1>4 DEF ErrorOfPublished, Publish, h
<1>6. ASSUME NEW r \in Request, inPipeline'[r] > 0 PROVE Has(published', r)
    <2>1. CASE r = h
        BY <1>4, <2>1
    <2>2. CASE r # h
        BY <1>3, <1>6, <2>2 DEF Publish, h
    <2> QED BY <2>1, <2>2
<1> QED BY <1>3, <1>5, <1>6 DEF PipelineOfPublished

\* The same when nothing is published.
LEMMA NoPublishRecords ==
    ASSUME ErrorOfPublished, NEW pipe,
           \A r \in Request : pipe[r] > 0 => Has(published, r),
           NoPublish(pipe)
    PROVE  /\ \A r : Has(published, r) => Has(published', r)
           /\ ErrorOfPublished' /\ PipelineOfPublished'
    BY DEF NoPublish, ErrorOfPublished, PipelineOfPublished, Has

LEMMA SendNextRequestRecords ==
    ASSUME TypeOK, ErrorOfPublished, NEW p \in Seq(Request), NEW pipe \in [Request -> Nat],
           \A r \in Request : pipe[r] > 0 => Has(published, r),
           NEW a, NEW thread, SendNextRequest(p, pipe, a, thread)
    PROVE  /\ \A r : Has(published, r) => Has(published', r)
           /\ ErrorOfPublished' /\ PipelineOfPublished'
<1>1. CASE p = <<>>
    BY <1>1, NoPublishRecords DEF SendNextRequest
<1>2. CASE p # <<>>
    BY <1>2, PublishRecords DEF SendNextRequest
<1> QED BY <1>1, <1>2

\* checkTasksInitialized moves requests between the queues, and loses none.
LEMMA CheckTasksInitializedMoves ==
    ASSUME TypeOK, ErrorOfPublished, PipelineOfPublished,
           NEW q \in Seq(Request), NEW ready, NEW a, NEW thread,
           OneQueue(q, pending), CheckTasksInitialized(q, ready, a, thread)
    PROVE  /\ OneQueue(waiting', pending')
           /\ \A r \in Request : Queued(r)' <=> QueuedIn(q, pending, r)
           /\ \A r : Has(published, r) => Has(published', r)
           /\ ErrorOfPublished' /\ PipelineOfPublished'
<1> DEFINE Front(k) == SubSeq(q, 1, k)
           Rest(k)  == SubSeq(q, k + 1, Len(q))
           Sent(k)  == k > 0 /\ "response" \notin a
<1>1. PICK k \in 0 .. Len(q) :
        /\ waiting' = Rest(k)
        /\ pending' = Join(pending, Front(k))
        /\ IF Sent(k) THEN Publish(Join(pending, Front(k)), inPipeline)
                      ELSE NoPublish(inPipeline)
    BY DEF CheckTasksInitialized
<1>2. /\ Front(k) \in Seq(Request) /\ Len(Front(k)) = k /\ Rest(k) \in Seq(Request)
      /\ OneQueue(Rest(k), Front(k))
      /\ \A r : Has(q, r) <=> QueuedIn(Rest(k), Front(k), r)
    BY Cut, CutElements DEF OneQueue
<1> HIDE DEF Front, Rest, Sent
<1>3. pending \in Seq(Request) /\ inPipeline \in [Request -> Nat]
    BY DEF TypeOK
<1>4. OneQueue(pending, Front(k))
    BY <1>2 DEF OneQueue, Apart, QueuedIn
<1>5. /\ Distinct(pending')
      /\ \A r : Has(pending', r) <=> QueuedIn(pending, Front(k), r)
    BY <1>1, <1>2, <1>3, <1>4, JoinElements
<1>6. OneQueue(waiting', pending')
    BY <1>1, <1>2, <1>5 DEF OneQueue, Apart, QueuedIn
<1>7. \A r \in Request : Queued(r)' <=> QueuedIn(q, pending, r)
    <2>1. \A r \in Request : Queued(r)' <=> Has(waiting', r) \/ Has(pending', r)
        BY DEF Queued, Has
    <2> QED BY <1>1, <1>2, <1>5, <2>1 DEF QueuedIn
<1>8. CASE Sent(k)
    <2>1. Join(pending, Front(k)) \in Seq(Request) /\ Join(pending, Front(k)) # <<>>
        BY <1>2, <1>3, <1>8, JoinKeepsFront DEF Sent
    <2>2. /\ \A r : Has(published, r) => Has(published', r)
          /\ ErrorOfPublished' /\ PipelineOfPublished'
        BY <1>1, <1>3, <1>8, <2>1, PublishRecords DEF PipelineOfPublished
    <2> QED BY <1>6, <1>7, <2>2
<1>9. CASE ~Sent(k)
    <2>1. /\ \A r : Has(published, r) => Has(published', r)
          /\ ErrorOfPublished' /\ PipelineOfPublished'
        BY <1>1, <1>9, NoPublishRecords DEF PipelineOfPublished
    <2> QED BY <1>6, <1>7, <2>1
<1> QED BY <1>8, <1>9

\* A response that concerns a request which leaves the queues with it, or
\* never was in one, settles it.
LEMMA Settles ==
    ASSUME TypeOK, OnlySeen, SettledOnce,
           NEW d \in [Id \cup {NoId} -> Request \cup {NoRequest}], NEW id \in Id \cup {NoId},
           NEW r \in Request, NEW via \in Reason, SendResponse(d, id, r, via),
           seen' = seen \cup {r}, r \in seen => Queued(r),
           \A x \in Request : Queued(x)' <=> Queued(x) /\ x # r
    PROVE  OnlySeen' /\ SettledOnce'
<1> DEFINE reply == [to |-> d[id], about |-> r, via |-> via]
<1>1. reply \in Reply /\ replies \in Seq(Reply) /\ replies' = Append(replies, reply)
    BY DEF Reply, TypeOK, SendResponse
<1>2. PICK n : /\ n \notin DOMAIN replies /\ DOMAIN replies' = DOMAIN replies \cup {n}
               /\ replies'[n] = reply
               /\ \A i \in DOMAIN replies : replies'[i] = replies[i]
    BY <1>1, AppendElement
<1>3. reply.about = r
    OBVIOUS
<1> HIDE DEF reply
<1>4. Concerned(r)' = Concerned(r) \cup {n}
    BY <1>2, <1>3 DEF Concerned
<1>5. ASSUME NEW x \in Request, x # r PROVE Concerned(x)' = Concerned(x)
    BY <1>2, <1>3, <1>5 DEF Concerned
<1>6. Concerned(r) = {}
    <2>1. CASE r \in seen
        BY <2>1 DEF SettledOnce
    <2>2. CASE r \notin seen
        BY <2>2 DEF OnlySeen, Concerned
    <2> QED BY <2>1, <2>2
<1>7. SettledOnce'
    <2> SUFFICES ASSUME NEW x \in seen'
                 PROVE  /\ Queued(x)' <=> Concerned(x)' = {}
                        /\ \A i, j \in Concerned(x)' : i = j
        BY DEF SettledOnce
    <2>1. x \in Request
        BY DEF TypeOK
    <2>2. CASE x = r
        BY <1>4, <1>6, <2>2
    <2>3. CASE x # r
        BY <1>5, <2>1, <2>3 DEF SettledOnce
    <2> QED BY <2>2, <2>3
<1>8. OnlySeen'
    BY <1>2, <1>3 DEF OnlySeen
<1> QED BY <1>7, <1>8

\* What is recorded of an unpublished request is kept by a step that
\* neither overwrites it nor queues a request.
LEMMA KeepsDetails ==
    ASSUME UnpublishedKeepsDetails, DistinctIds,
           \A r : Has(published, r) => Has(published', r),
           \A r \in Request : Queued(r)' /\ ~Has(published', r)
                                => Queued(r) /\ details'[IdOf[r]] = details[IdOf[r]]
    PROVE  UnpublishedKeepsDetails'
<1> SUFFICES ASSUME NEW r \in Request, Queued(r)', ~Has(published', r)
             PROVE  details'[IdOf[r]] = r
    BY DEF UnpublishedKeepsDetails, Has
<1>1. Queued(r) /\ ~Has(published, r) /\ details'[IdOf[r]] = details[IdOf[r]]
    OBVIOUS
<1> QED BY <1>1 DEF UnpublishedKeepsDetails, Has

-----------------------------------------------------------------------------
(***************************************************************************)
(* The invariant is inductive together with that of the previous module.   *)
(***************************************************************************)
LEMMA InitSInv == Init => SInv
    BY DEF Init, SInv, OneQueue, Distinct, Apart, Has, OnlySeen, SettledOnce, Queued, Concerned,
           ErrorOfPublished, PipelineOfPublished, UnpublishedKeepsDetails

\* Steps that touch neither the queues nor what was sent.
LEMMA SInvUnchanged ==
    ASSUME SInv, UNCHANGED <<waiting, pending, seen, replies, errorId, published, details>>,
           \A r \in Request : inPipeline'[r] > 0 => inPipeline[r] > 0
    PROVE  SInv'
    BY DEF SInv, OneQueue, Distinct, Apart, Has, OnlySeen, SettledOnce, Queued, Concerned,
           ErrorOfPublished, PipelineOfPublished, UnpublishedKeepsDetails

\* A request that is not queued yet joins the task-wait queue as its last.
LEMMA Arrives ==
    ASSUME TypeOK, OneQueue(waiting, pending), NEW r \in Request, ~Queued(r)
    PROVE  LET q == Join(waiting, <<r>>) IN
           /\ q \in Seq(Request) /\ OneQueue(q, pending)
           /\ \A x \in Request : QueuedIn(q, pending, x) <=> Queued(x) \/ x = r
<1> DEFINE q == Join(waiting, <<r>>)
<1>1. waiting \in Seq(Request) /\ <<r>> \in Seq(Request)
    BY DEF TypeOK
<1>2. Distinct(<<r>>) /\ \A x : Has(<<r>>, x) <=> x = r
    BY DEF Distinct, Has
<1>3. ~Has(waiting, r) /\ ~Has(pending, r)
    BY DEF Queued, Has
<1>4. OneQueue(waiting, <<r>>)
    BY <1>2, <1>3 DEF OneQueue, Apart
<1>5. q \in Seq(Request) /\ Distinct(q) /\ \A x : Has(q, x) <=> Has(waiting, x) \/ x = r
    BY <1>1, <1>2, <1>4, JoinElements, JoinKeepsFront DEF QueuedIn
<1> HIDE DEF q
<1>6. OneQueue(q, pending)
    BY <1>3, <1>5 DEF OneQueue, Apart
<1>7. \A x \in Request : QueuedIn(q, pending, x) <=> Queued(x) \/ x = r
    BY <1>5 DEF QueuedIn, Queued, Has
<1> QED BY <1>5, <1>6, <1>7 DEF q

\* The front of the pending queue leaves it.
LEMMA PendingServed ==
    ASSUME TypeOK, OneQueue(waiting, pending), pending # <<>>,
           pending' = Tail(pending), waiting' = waiting
    PROVE  /\ Queued(Head(pending)) /\ OneQueue(waiting', pending')
           /\ \A x \in Request : Queued(x)' <=> Queued(x) /\ x # Head(pending)
<1>1. /\ Distinct(Tail(pending)) /\ Has(pending, Head(pending)) /\ Head(pending) \in Request
      /\ \A x : Has(Tail(pending), x) <=> Has(pending, x) /\ x # Head(pending)
    BY TailElements, HeadTailProperties DEF TypeOK, OneQueue
<1>2. OneQueue(waiting', pending')
    BY <1>1 DEF OneQueue, Apart
<1>3. \A x : (Queued(x) <=> Has(waiting, x) \/ Has(pending, x))
             /\ (Queued(x)' <=> Has(waiting', x) \/ Has(pending', x))
    BY DEF Queued, Has
<1>4. ~Has(waiting, Head(pending))
    BY <1>1 DEF OneQueue, Apart
<1> QED BY <1>1, <1>2, <1>3, <1>4

\* The front of the task-wait queue leaves it.
LEMMA WaitingServed ==
    ASSUME TypeOK, OneQueue(waiting, pending), waiting # <<>>
    PROVE  /\ Queued(Head(waiting)) /\ OneQueue(Tail(waiting), pending)
           /\ \A x \in Request :
                 QueuedIn(Tail(waiting), pending, x) <=> Queued(x) /\ x # Head(waiting)
<1>1. /\ Distinct(Tail(waiting)) /\ Has(waiting, Head(waiting)) /\ Head(waiting) \in Request
      /\ \A x : Has(Tail(waiting), x) <=> Has(waiting, x) /\ x # Head(waiting)
    BY TailElements, HeadTailProperties DEF TypeOK, OneQueue
<1>2. OneQueue(Tail(waiting), pending)
    BY <1>1 DEF OneQueue, Apart
<1>3. \A x : Queued(x) <=> Has(waiting, x) \/ Has(pending, x)
    BY DEF Queued, Has
<1>4. ~Has(pending, Head(waiting))
    BY <1>1 DEF OneQueue, Apart
<1> QED BY <1>1, <1>2, <1>3, <1>4 DEF QueuedIn

\* Every handler and every callback preserves it.
LEMMA NextSInv ==
    ASSUME DistinctIds, IInv, SInv, [Next]_vars
    PROVE  SInv'
<1> USE ValidatorAssumption
<1>t. TypeOK
    BY DEF IInv
<1>i. \A r \in Request : IdOf[r] \in Id /\ IdOf[r] # NoId
    OBVIOUS
<1>1. ASSUME NEW t \in Task, TaskReceived(t) PROVE SInv'
    BY <1>1, SInvUnchanged DEF TaskReceived, queues, pipeline
<1>2. ASSUME NEW S \in SUBSET Task, RemoveTasks(S) PROVE SInv'
    BY <1>2, SInvUnchanged DEF RemoveTasks, queues, pipeline
<1>3. ASSUME NEW t \in Task, TaskInitialized(t) PROVE SInv'
    <2>1. /\ CheckTasksInitialized(waiting, initialized \cup {t}, active, "service")
          /\ UNCHANGED <<details, seen, replies>>
        BY <1>3 DEF TaskInitialized
    <2>2. /\ OneQueue(waiting', pending')
          /\ \A r \in Request : Queued(r)' <=> QueuedIn(waiting, pending, r)
          /\ \A r : Has(published, r) => Has(published', r)
          /\ ErrorOfPublished' /\ PipelineOfPublished'
        BY <1>t, <2>1, CheckTasksInitializedMoves DEF SInv, TypeOK
    <2>3. \A r \in Request : Queued(r)' <=> Queued(r)
        BY <2>2 DEF QueuedIn, Queued, Has
    <2>4. OnlySeen'
        BY <2>1, <2>3 DEF SInv, OnlySeen
    <2>5. SettledOnce'
        BY <1>t, <2>1, <2>3 DEF SInv, SettledOnce, Concerned, TypeOK
    <2>6. UnpublishedKeepsDetails'
        BY <2>1, <2>2, <2>3, KeepsDetails DEF SInv
    <2> QED BY <2>2, <2>4, <2>5, <2>6 DEF SInv
<1>4. ASSUME NEW r \in Request, NEW isMet \in BOOLEAN, HandleAutomationRequest(r, isMet)
      PROVE  SInv'
    <2> DEFINE recorded == [details EXCEPT ![IdOf[r]] = r]
               isValid  == isMet /\ TasksOf[r] \subseteq tasks
               q        == Join(waiting, <<r>>)
    <2>1. r \notin seen /\ seen' = seen \cup {r}
        BY <1>4 DEF HandleAutomationRequest
    <2>2. ~Queued(r) /\ Concerned(r) = {}
        BY <2>1 DEF SInv, OnlySeen, Concerned
    <2>3. recorded \in [Id \cup {NoId} -> Request \cup {NoRequest}]
        BY <1>t DEF TypeOK
    <2>4. \A x \in Request : recorded[IdOf[x]] = IF x = r THEN r ELSE details[IdOf[x]]
        BY <1>t DEF TypeOK, DistinctIds
    <2>5. CASE isValid
        <3>1. /\ details' = recorded
              /\ CheckTasksInitialized(q, initialized, active, "service")
              /\ UNCHANGED replies
            BY <1>4, <2>5 DEF HandleAutomationRequest
        <3>2. /\ q \in Seq(Request) /\ OneQueue(q, pending)
              /\ \A x \in Request : QueuedIn(q, pending, x) <=> Queued(x) \/ x = r
            BY <1>t, <2>2, Arrives DEF SInv
        <3> HIDE DEF q
        <3>3. /\ OneQueue(waiting', pending')
              /\ \A x \in Request : Queued(x)' <=> Queued(x) \/ x = r
              /\ \A x : Has(published, x) => Has(published', x)
              /\ ErrorOfPublished' /\ PipelineOfPublished'
            BY <1>t, <3>1, <3>2, CheckTasksInitializedMoves DEF SInv
        <3>4. OnlySeen'
            BY <2>1, <3>1, <3>3 DEF SInv, OnlySeen
        <3>5. SettledOnce'
            <4> SUFFICES ASSUME NEW x \in seen'
                         PROVE  /\ Queued(x)' <=> Concerned(x)' = {}
                                /\ \A i, j \in Concerned(x)' : i = j
                BY DEF SettledOnce
            <4>1. x \in Request /\ Concerned(x)' = Concerned(x)
                BY <1>t, <2>1, <3>1 DEF TypeOK, Concerned
            <4>2. CASE x = r
                BY <2>2, <3>3, <4>1, <4>2
            <4>3. CASE x # r
                BY <2>1, <3>3, <4>1, <4>3 DEF SInv, SettledOnce
            <4> QED BY <4>2, <4>3
        <3>6. UnpublishedKeepsDetails'
            <4> SUFFICES ASSUME NEW x \in Request, Queued(x)', ~Has(published', x)
                         PROVE  details'[IdOf[x]] = x
                BY DEF UnpublishedKeepsDetails, Has
            <4>1. CASE x = r
                BY <2>4, <3>1, <4>1
            <4>2. CASE x # r
                <5>1. Queued(x) /\ ~Has(published, x)
                    BY <3>3, <4>2
                <5>2. details[IdOf[x]] = x
                    BY <5>1 DEF SInv, UnpublishedKeepsDetails, Has
                <5> QED BY <2>4, <3>1, <4>2, <5>2
            <4> QED BY <4>1, <4>2
        <3> QED BY <3>3, <3>4, <3>5, <3>6 DEF SInv
    <2>6. CASE ~isValid
        <3>1. /\ SendResponse(recorded, IdOf[r], r, "rejected")
              /\ UNCHANGED <<waiting, pending, errorId, published, inPipeline>>
            BY <1>4, <2>6 DEF HandleAutomationRequest, queues, pipeline
        <3>2. \A x : Queued(x)' <=> Queued(x)
            BY <3>1 DEF Queued
        <3>3. OnlySeen' /\ SettledOnce'
            <4>1. IdOf[r] \in Id \cup {NoId} /\ "rejected" \in Reason
                BY DEF Reason
            <4>2. \A x \in Request : Queued(x)' <=> Queued(x) /\ x # r
                BY <2>2, <3>2
            <4> HIDE DEF recorded
            <4> QED BY <1>t, <2>1, <2>3, <3>1, <4>1, <4>2, Settles DEF SInv
        <3>4. OneQueue(waiting', pending') /\ ErrorOfPublished' /\ PipelineOfPublished'
            BY <3>1 DEF SInv, ErrorOfPublished, PipelineOfPublished, Has
        <3>5. \A x \in Request : x # r => details'[IdOf[x]] = details[IdOf[x]]
            BY <1>t, <2>3, <2>4, <3>1 DEF SendResponse, DistinctIds
        <3>6. UnpublishedKeepsDetails'
            BY <2>2, <3>1, <3>2, <3>5, KeepsDetails DEF SInv
        <3> QED BY <3>3, <3>4, <3>6 DEF SInv
    <2> QED BY <2>5, <2>6
<1>5. ASSUME NEW r \in Request, HandleAutomationResponse(r) PROVE SInv'
    <2> DEFINE pipe == [inPipeline EXCEPT ![r] = @ - 1]
               isExpected == /\ pending # <<>> /\ IdOf[Head(pending)] = IdOf[r]
                             /\ details[IdOf[r]] # NoRequest
    <2>1. waiting' = waiting /\ seen' = seen /\ inPipeline[r] > 0
        BY <1>5 DEF HandleAutomationResponse
    <2>2. pipe \in [Request -> Nat] /\ \A x \in Request : pipe[x] > 0 => inPipeline[x] > 0
        BY <1>t, <2>1 DEF TypeOK
    <2>3. CASE isExpected
        <3>1. /\ SendResponse(details, IdOf[r], r, "answer")
              /\ pending' = Tail(pending)
              /\ SendNextRequest(Tail(pending), pipe, active, "service")
            BY <1>5, <2>3 DEF HandleAutomationResponse
        <3>2. Tail(pending) \in Seq(Request) /\ Head(pending) \in Request
            BY <1>t, <2>3, HeadTailProperties DEF TypeOK
        <3>3. r = Head(pending)
            BY <2>3, <3>2 DEF DistinctIds
        <3>4. /\ Queued(r) /\ OneQueue(waiting', pending')
              /\ \A x \in Request : Queued(x)' <=> Queued(x) /\ x # r
            BY <1>t, <2>1, <2>3, <3>1, <3>3, PendingServed DEF SInv
        <3>5. r \in seen
            BY <3>4 DEF SInv, OnlySeen
        <3>6. OnlySeen' /\ SettledOnce'
            <4>1. seen' = seen \cup {r} /\ details \in [Id \cup {NoId} -> Request \cup {NoRequest}]
                BY <1>t, <2>1, <3>5 DEF TypeOK
            <4> QED BY <1>t, <3>1, <3>4, <4>1, Settles DEF SInv, Reason
        <3>7. /\ \A x : Has(published, x) => Has(published', x)
              /\ ErrorOfPublished' /\ PipelineOfPublished'
            <4>1. \A x \in Request : pipe[x] > 0 => Has(published, x)
                BY <2>2 DEF SInv, PipelineOfPublished
            <4> HIDE DEF pipe
            <4> QED BY <1>t, <2>2, <3>1, <3>2, <4>1, SendNextRequestRecords DEF SInv
        <3>8. \A x \in Request : x # r => details'[IdOf[x]] = details[IdOf[x]]
            BY <1>t, <3>1 DEF TypeOK, SendResponse, DistinctIds
        <3>9. UnpublishedKeepsDetails'
            BY <3>4, <3>7, <3>8, KeepsDetails DEF SInv
        <3> QED BY <3>4, <3>6, <3>7, <3>9 DEF SInv
    <2>4. CASE ~isExpected
        <3>1. /\ inPipeline' = pipe
              /\ UNCHANGED <<details, replies, pending, errorId, published>>
            BY <1>5, <2>4 DEF HandleAutomationResponse
        <3> QED BY <2>1, <2>2, <3>1, SInvUnchanged
    <2> QED BY <2>3, <2>4
<1>6. ASSUME NEW r \in Request, PipelineLoses(r) PROVE SInv'
    <2>1. \A x \in Request : inPipeline'[x] > 0 => inPipeline[x] > 0
        BY <1>t, <1>6 DEF PipelineLoses, TypeOK
    <2> QED BY <1>6, <2>1, SInvUnchanged DEF PipelineLoses, queues
<1>7. CASE OnResponseTimeout
    <2>1. waiting' = waiting /\ seen' = seen
        BY <1>7 DEF OnResponseTimeout
    <2>2. /\ pending # <<>>
          /\ SendResponse(details, errorId, Head(pending), "late")
          /\ pending' = Tail(pending)
          /\ SendNextRequest(Tail(pending), inPipeline, active \ {"response"}, "worker")
        BY <1>7 DEF OnResponseTimeout, IInv, ResponseIsAwaited
    <2>3. Tail(pending) \in Seq(Request) /\ Head(pending) \in Request
        BY <1>t, <2>2, HeadTailProperties DEF TypeOK
    <2>4. /\ Queued(Head(pending)) /\ OneQueue(waiting', pending')
          /\ \A x \in Request : Queued(x)' <=> Queued(x) /\ x # Head(pending)
        BY <1>t, <2>1, <2>2, PendingServed DEF SInv
    <2>5. OnlySeen' /\ SettledOnce'
        <3>1. seen' = seen \cup {Head(pending)}
            BY <2>1, <2>3, <2>4 DEF SInv, OnlySeen
        <3>2. /\ details \in [Id \cup {NoId} -> Request \cup {NoRequest}]
              /\ errorId \in Id \cup {NoId} /\ "late" \in Reason
            BY <1>t DEF TypeOK, Reason
        <3> QED BY <1>t, <2>2, <2>3, <2>4, <3>1, <3>2, Settles DEF SInv
    <2>6. /\ \A x : Has(published, x) => Has(published', x)
          /\ ErrorOfPublished' /\ PipelineOfPublished'
        <3>1. inPipeline \in [Request -> Nat]
            BY <1>t DEF TypeOK
        <3> QED BY <1>t, <2>2, <2>3, <3>1, SendNextRequestRecords DEF SInv, PipelineOfPublished
    <2>7. errorId = IdOf[Head(pending)]
        BY <2>2 DEF IInv, FrontIsPublished
    <2>8. \A x \in Request : x # Head(pending) => details'[IdOf[x]] = details[IdOf[x]]
        BY <1>t, <2>2, <2>3, <2>7 DEF TypeOK, SendResponse, DistinctIds
    <2>9. UnpublishedKeepsDetails'
        BY <2>4, <2>6, <2>8, KeepsDetails DEF SInv
    <2> QED BY <2>4, <2>5, <2>6, <2>9 DEF SInv
<1>8. CASE OnTasksReadyTimeout
    <2> DEFINE fired == active \ {"taskInit"}
    <2>1. seen' = seen
        BY <1>8 DEF OnTasksReadyTimeout
    <2>2. CASE waiting # <<>>
        <3> DEFINE h == Head(waiting)
        <3>1. /\ SendResponse(details, errorId, h, "tasks")
              /\ CheckTasksInitialized(Tail(waiting), initialized, fired, "worker")
            BY <1>8, <2>2 DEF OnTasksReadyTimeout
        <3>2. Tail(waiting) \in Seq(Request) /\ h \in Request
            BY <1>t, <2>2, HeadTailProperties DEF TypeOK
        <3>3. /\ Queued(h) /\ OneQueue(Tail(waiting), pending)
              /\ \A x \in Request : QueuedIn(Tail(waiting), pending, x) <=> Queued(x) /\ x # h
            BY <1>t, <2>2, WaitingServed DEF SInv
        <3>4. /\ OneQueue(waiting', pending')
              /\ \A x \in Request : Queued(x)' <=> QueuedIn(Tail(waiting), pending, x)
              /\ \A x : Has(published, x) => Has(published', x)
              /\ ErrorOfPublished' /\ PipelineOfPublished'
            BY <1>t, <3>1, <3>2, <3>3, CheckTasksInitializedMoves DEF SInv
        <3> HIDE DEF h
        <3>5. \A x \in Request : Queued(x)' <=> Queued(x) /\ x # h
            BY <3>3, <3>4
        <3>6. OnlySeen' /\ SettledOnce'
            <4>1. seen' = seen \cup {h}
                BY <2>1, <3>2, <3>3 DEF SInv, OnlySeen
            <4>2. /\ details \in [Id \cup {NoId} -> Request \cup {NoRequest}]
                  /\ errorId \in Id \cup {NoId} /\ "tasks" \in Reason
                BY <1>t DEF TypeOK, Reason
            <4> QED BY <1>t, <3>1, <3>2, <3>3, <3>5, <4>1, <4>2, Settles DEF SInv
        <3>7. \A x \in Request : ~Has(published, x) => details'[IdOf[x]] = details[IdOf[x]]
            BY <1>t, <1>i, <3>1 DEF SInv, ErrorOfPublished, TypeOK, SendResponse, DistinctIds
        <3>8. UnpublishedKeepsDetails'
            BY <3>4, <3>5, <3>7, KeepsDetails DEF SInv
        <3> QED BY <3>4, <3>6, <3>8 DEF SInv
    <2>3. CASE waiting = <<>>
        <3>1. /\ CheckTasksInitialized(waiting, initialized, fired, "worker")
              /\ UNCHANGED <<replies, details>>
            BY <1>8, <2>3 DEF OnTasksReadyTimeout
        <3>2. /\ OneQueue(waiting', pending')
              /\ \A x \in Request : Queued(x)' <=> QueuedIn(waiting, pending, x)
              /\ \A x : Has(published, x) => Has(published', x)
              /\ ErrorOfPublished' /\ PipelineOfPublished'
            BY <1>t, <3>1, CheckTasksInitializedMoves DEF SInv, TypeOK
        <3>3. \A x \in Request : Queued(x)' <=> Queued(x)
            BY <3>2 DEF QueuedIn, Queued, Has
        <3>4. OnlySeen'
            BY <2>1, <3>1, <3>3 DEF SInv, OnlySeen
        <3>5. SettledOnce'
            BY <1>t, <2>1, <3>1, <3>3 DEF SInv, SettledOnce, Concerned, TypeOK
        <3>6. UnpublishedKeepsDetails'
            BY <3>1, <3>2, <3>3, KeepsDetails DEF SInv
        <3> QED BY <3>2, <3>4, <3>5, <3>6 DEF SInv
    <2> QED BY <2>2, <2>3
<1>9. CASE UNCHANGED vars
    BY <1>9, SInvUnchanged DEF vars, queues, pipeline
<1> QED BY <1>1, <1>2, <1>3, <1>4, <1>5, <1>6, <1>7, <1>8, <1>9 DEF Next

LEMMA SettlementInvariance == ASSUME DistinctIds PROVE Spec => []SInv
<1>1. Init => SInv
    BY InitSInv
<1>2. IInv /\ SInv /\ [Next]_vars => SInv'
    BY NextSInv
<1> QED BY <1>1, <1>2, Invariance, PTL DEF Spec

(***************************************************************************)
(* Whatever handlers and timer callbacks do in whatever order, no request  *)
(* that was received is forgotten and none is settled twice: each waits in *)
(* one place of one queue until the one response that concerns it is sent. *)
(***************************************************************************)
THEOREM RequestSettledOnce == ASSUME DistinctIds PROVE Spec => []SettledOnce
<1>1. SInv => SettledOnce
    BY DEF SInv
<1> QED BY <1>1, SettlementInvariance, PTL

(***************************************************************************)
(* Answering, rejecting or timing out other requests never erases what is  *)
(* recorded of a queued request that was not published yet, although the   *)
(* task-wait timeout erases it for whatever identifier the error response  *)
(* happens to have.                                                        *)
(***************************************************************************)
THEOREM UnpublishedDetails == ASSUME DistinctIds PROVE Spec => []UnpublishedKeepsDetails
<1>1. SInv => UnpublishedKeepsDetails
    BY DEF SInv
<1> QED BY <1>1, SettlementInvariance, PTL

-----------------------------------------------------------------------------
(***************************************************************************)
(* The order of the requests, whatever their identifiers are.              *)
(***************************************************************************)

(***************************************************************************)
(* f is the place of each request among those found valid.  The queues     *)
(* increase in it, the pending one before the waiting one; what was        *)
(* published never goes back, and is not behind what is queued.            *)
(***************************************************************************)
Splits(s, t, u) == \A x \in Request : Has(s, x) <=> Has(t, x) \/ Has(u, x)
Adds(s, t, r) == \A x \in Request : Has(s, x) <=> Has(t, x) \/ x = r

Increasing(f, s) == \A i, j \in DOMAIN s : i < j => f[s[i]] < f[s[j]]
NeverBack(f, s) == \A i, j \in DOMAIN s : i < j => f[s[i]] <= f[s[j]]
Before(f, s, u) == \A x, y \in Request : Has(s, x) /\ Has(u, y) => f[x] < f[y]
NotBehind(f, s, u) == \A x, y \in Request : Has(s, x) /\ Has(u, y) => f[x] <= f[y]

Places(f, a) == \A i \in DOMAIN a : f[a[i]] = i
InLine(f, w, p) == Increasing(f, w) /\ Increasing(f, p) /\ Before(f, p, w)
PublishedInLine(f, b, w, p) == NeverBack(f, b) /\ NotBehind(f, b, p) /\ NotBehind(f, b, w)
Known(b, w, p, x) == Has(b, x) \/ Has(w, x) \/ Has(p, x)
OnlyAccepted ==
    \A x \in Request : Known(published, waiting, pending, x) => Has(accepted, x)
AcceptedSeen == \A x \in Request : Has(accepted, x) => x \in seen

OrderedBy(f) == /\ Places(f, accepted) /\ InLine(f, waiting, pending)
                /\ PublishedInLine(f, published, waiting, pending)
OInv == /\ OnlyAccepted /\ AcceptedSeen
        /\ \E f \in [Request -> Nat] : OrderedBy(f)

-----------------------------------------------------------------------------
(***************************************************************************)
(* Queues that are cut, joined or served.                                  *)
(***************************************************************************)

LEMMA IncreasingDistinct ==
    ASSUME NEW f \in [Request -> Nat], NEW s \in Seq(Request), Increasing(f, s)
    PROVE  Distinct(s)
<1>1. Len(s) \in Nat /\ DOMAIN s = 1 .. Len(s) /\ \A i \in 1 .. Len(s) : s[i] \in Request
    BY LenProperties, ElementOfSeq
<1>2. ASSUME NEW i \in DOMAIN s, NEW j \in DOMAIN s, s[i] = s[j], i < j PROVE FALSE
    <2>1. f[s[i]] < f[s[j]] /\ f[s[j]] \in Nat
        BY <1>1, <1>2 DEF Increasing
    <2> QED BY <1>2, <2>1
<1> QED BY <1>1, <1>2 DEF Distinct

LEMMA BeforeApart ==
    ASSUME NEW f \in [Request -> Nat], NEW s, NEW u, Before(f, s, u)
    PROVE  Apart(s, u) /\ Apart(u, s)
<1>1. ASSUME NEW r \in Request, Has(s, r), Has(u, r) PROVE FALSE
    <2>1. f[r] < f[r] /\ f[r] \in Nat
        BY <1>1 DEF Before
    <2> QED BY <2>1
<1> QED BY <1>1 DEF Apart

LEMMA CutOrder ==
    ASSUME NEW f \in [Request -> Nat], NEW q \in Seq(Request), NEW k \in 0 .. Len(q),
           Increasing(f, q), NEW front \in Seq(Request), front = SubSeq(q, 1, k),
           NEW rest \in Seq(Request), rest = SubSeq(q, k + 1, Len(q))
    PROVE  /\ InLine(f, rest, front)
           /\ Splits(q, rest, front)
<1>1. /\ Len(q) \in Nat /\ DOMAIN q = 1 .. Len(q) /\ \A i \in 1 .. Len(q) : q[i] \in Request
      /\ DOMAIN front = 1 .. k /\ \A i \in 1 .. k : front[i] = q[i]
      /\ DOMAIN rest = 1 .. Len(q) - k /\ \A i \in 1 .. Len(q) - k : rest[i] = q[k + i]
    BY CutPlaces
<1>3. Splits(q, rest, front)
    <2>1. Distinct(q)
        BY IncreasingDistinct
    <2> QED BY <2>1, CutElements DEF QueuedIn, Splits
<1>4. Increasing(f, front)
    BY <1>1 DEF Increasing
<1>5. Increasing(f, rest)
    <2> SUFFICES ASSUME NEW i \in DOMAIN rest, NEW j \in DOMAIN rest, i < j
                 PROVE  f[rest[i]] < f[rest[j]]
        BY DEF Increasing
    <2>1. /\ k + i \in DOMAIN q /\ k + j \in DOMAIN q /\ k + i < k + j
          /\ rest[i] = q[k + i] /\ rest[j] = q[k + j]
        <3> DEFINE n == Len(q)
        <3>1. /\ n \in Nat /\ k \in 0 .. n /\ DOMAIN q = 1 .. n /\ DOMAIN rest = 1 .. n - k
              /\ \A x \in 1 .. n - k : rest[x] = q[k + x]
            BY <1>1
        <3> HIDE DEF n
        <3>2. i \in 1 .. n - k /\ j \in 1 .. n - k
            BY <3>1
        <3>3. i < j
            OBVIOUS
        <3>4. k + i \in 1 .. n /\ k + j \in 1 .. n /\ k + i < k + j
            <4>1. k \in Int /\ i \in Int /\ j \in Int /\ n \in Int /\ 0 <= k /\ 1 <= i
                  /\ i <= n - k /\ 1 <= j /\ j <= n - k
                BY <3>1, <3>2
            <4> QED BY <3>3, <4>1
        <3> QED BY <3>1, <3>2, <3>4
    <2>2. f[q[k + i]] < f[q[k + j]]
        BY <2>1 DEF Increasing
    <2> QED BY <2>1, <2>2
<1>6. ASSUME NEW x \in Request, NEW y \in Request, Has(front, x), Has(rest, y) PROVE f[x] < f[y]
    <2>1. PICK i \in 1 .. k : q[i] = x
        BY <1>1, <1>6 DEF Has
    <2>2. PICK j \in 1 .. Len(q) - k : q[k + j] = y
        BY <1>1, <1>6 DEF Has
    <2>3. i \in 1 .. Len(q) /\ k + j \in 1 .. Len(q) /\ i < k + j
        <3> DEFINE n == Len(q)
        <3>1. n \in Nat /\ k \in 0 .. n /\ i \in 1 .. k /\ j \in 1 .. n - k
            BY <1>1
        <3> HIDE DEF n
        <3>2. i \in 1 .. n /\ k + j \in 1 .. n /\ i < k + j
            BY <3>1
        <3> QED BY <3>2 DEF n
    <2> QED BY <1>1, <2>1, <2>2, <2>3 DEF Increasing
<1>7. Before(f, front, rest)
    BY <1>6 DEF Before
<1> QED BY <1>3, <1>4, <1>5, <1>7 DEF InLine

LEMMA JoinOrder ==
    ASSUME NEW f \in [Request -> Nat], NEW p \in Seq(Request), NEW more \in Seq(Request),
           Increasing(f, p), Increasing(f, more), Before(f, p, more),
           NEW all, all = Join(p, more)
    PROVE  /\ all \in Seq(Request) /\ Increasing(f, all)
           /\ \A r : Has(all, r) <=> Has(p, r) \/ Has(more, r)
<1>1. /\ Len(p) \in Nat /\ Len(more) \in Nat
      /\ DOMAIN p = 1 .. Len(p) /\ DOMAIN more = 1 .. Len(more)
      /\ \A i \in 1 .. Len(p) : p[i] \in Request
      /\ \A i \in 1 .. Len(more) : more[i] \in Request
      /\ DOMAIN all = 1 .. Len(p) + Len(more)
      /\ \A i \in 1 .. Len(p) : all[i] = p[i]
      /\ \A i \in Len(p) + 1 .. Len(p) + Len(more) : all[i] = more[i - Len(p)]
    BY JoinPlaces DEF Join
<1>2. all \in Seq(Request)
    BY JoinKeepsFront
<1>3. \A r : Has(all, r) <=> Has(p, r) \/ Has(more, r)
    <2>1. OneQueue(p, more)
        BY IncreasingDistinct, BeforeApart DEF OneQueue
    <2> QED BY <2>1, JoinElements DEF QueuedIn
<1>4. Increasing(f, all)
    <2> DEFINE n == Len(p)
               m == Len(more)
    <2>1. /\ n \in Nat /\ m \in Nat /\ DOMAIN p = 1 .. n /\ DOMAIN more = 1 .. m
          /\ \A i \in 1 .. n : p[i] \in Request
          /\ \A i \in 1 .. m : more[i] \in Request
          /\ DOMAIN all = 1 .. n + m
          /\ \A i \in 1 .. n : all[i] = p[i]
          /\ \A i \in n + 1 .. n + m : all[i] = more[i - n]
        BY <1>1
    <2> HIDE DEF n, m
    <2> SUFFICES ASSUME NEW i \in DOMAIN all, NEW j \in DOMAIN all, i < j
                 PROVE  f[all[i]] < f[all[j]]
        BY DEF Increasing
    <2>2. i \in 1 .. n + m /\ j \in 1 .. n + m
        BY <2>1
    <2>3. CASE j <= n
        <3>1. i \in DOMAIN p /\ j \in DOMAIN p /\ all[i] = p[i] /\ all[j] = p[j]
            BY <2>1, <2>2, <2>3
        <3> QED BY <3>1 DEF Increasing
    <2>4. CASE i <= n /\ n < j
        <3>1. i \in DOMAIN p /\ all[i] = p[i] /\ p[i] \in Request
            BY <2>1, <2>2, <2>4
        <3>2. j \in n + 1 .. n + m /\ j - n \in DOMAIN more
            BY <2>1, <2>2, <2>4
        <3>3. all[j] = more[j - n] /\ more[j - n] \in Request
            BY <2>1, <3>2
        <3>4. Has(p, all[i]) /\ Has(more, all[j])
            BY <3>1, <3>2, <3>3 DEF Has
        <3> QED BY <3>1, <3>3, <3>4 DEF Before
    <2>5. CASE n < i
        <3>1. i \in n + 1 .. n + m /\ j \in n + 1 .. n + m
            BY <2>1, <2>2, <2>5
        <3>2. i - n \in DOMAIN more /\ j - n \in DOMAIN more /\ i - n < j - n
            BY <2>1, <3>1
        <3>3. f[more[i - n]] < f[more[j - n]]
            BY <3>2 DEF Increasing
        <3> QED BY <2>1, <3>1, <3>3
    <2> QED BY <2>1, <2>2, <2>3, <2>4, <2>5
<1> QED BY <1>2, <1>3, <1>4

LEMMA TailOrder ==
    ASSUME NEW f \in [Request -> Nat], NEW s \in Seq(Request), s # <<>>, Increasing(f, s),
           NEW t, t = Tail(s)
    PROVE  /\ t \in Seq(Request) /\ Increasing(f, t)
           /\ \A r : Has(t, r) => Has(s, r)
<1>1. /\ Len(s) \in Nat \ {0} /\ DOMAIN s = 1 .. Len(s)
      /\ DOMAIN t = 1 .. Len(s) - 1
      /\ \A i \in 1 .. Len(s) - 1 : t[i] = s[i + 1]
    BY TailPlaces
<1>2. \A i \in 1 .. Len(s) - 1 : i + 1 \in 1 .. Len(s)
    BY <1>1
<1>3. Increasing(f, t)
    <2> SUFFICES ASSUME NEW i \in DOMAIN t, NEW j \in DOMAIN t, i < j
                 PROVE  f[t[i]] < f[t[j]]
        BY DEF Increasing
    <2>1. i \in 1 .. Len(s) - 1 /\ j \in 1 .. Len(s) - 1
        BY <1>1
    <2>2. t[i] = s[i + 1] /\ t[j] = s[j + 1]
        BY <1>1, <2>1
    <2>3. i + 1 \in DOMAIN s /\ j + 1 \in DOMAIN s /\ i + 1 < j + 1
        BY <1>1, <1>2, <2>1
    <2>4. f[s[i + 1]] < f[s[j + 1]]
        BY <2>3 DEF Increasing
    <2> QED BY <2>2, <2>4
<1>4. \A r : Has(t, r) => Has(s, r)
    BY <1>1, <1>2 DEF Has
<1> QED BY <1>3, <1>4, HeadTailProperties

\* The front of a queue is not behind anything in it.
LEMMA HeadFirst ==
    ASSUME NEW f \in [Request -> Nat], NEW s \in Seq(Request), s # <<>>, Increasing(f, s)
    PROVE  /\ Has(s, Head(s)) /\ Head(s) \in Request
           /\ \A x \in Request : Has(s, x) => f[Head(s)] <= f[x]
<1>1. Len(s) \in Nat \ {0} /\ DOMAIN s = 1 .. Len(s) /\ Head(s) = s[1] /\ s[1] \in Request
    BY TailPlaces
<1>2. ASSUME NEW x \in Request, Has(s, x) PROVE f[Head(s)] <= f[x]
    <2>1. PICK i \in 1 .. Len(s) : s[i] = x
        BY <1>1, <1>2 DEF Has
    <2>2. CASE i = 1
        BY <1>1, <2>1, <2>2
    <2>3. CASE i # 1
        BY <1>1, <2>1, <2>3 DEF Increasing
    <2> QED BY <2>2, <2>3
<1> QED BY <1>1, <1>2 DEF Has

\* What is queued or was published, in part, is still in line.
LEMMA PartInLine ==
    ASSUME NEW f \in [Request -> Nat], NEW s, NEW u, NEW s2, NEW u2,
           \A x \in Request : Has(s2, x) => Has(s, x),
           \A x \in Request : Has(u2, x) => Has(u, x)
    PROVE  /\ Before(f, s, u) => Before(f, s2, u2)
           /\ NotBehind(f, s, u) => NotBehind(f, s2, u2)
    BY DEF Before, NotBehind

-----------------------------------------------------------------------------
(***************************************************************************)
(* The parts of the handlers.                                              *)
(***************************************************************************)

\* The front of the pending queue is published in its turn.
LEMMA PublishOrder ==
    ASSUME NEW f \in [Request -> Nat], NEW b \in Seq(Request), NEW w, NEW p \in Seq(Request),
           p # <<>>, InLine(f, w, p), PublishedInLine(f, b, w, p),
           NEW c, c = Append(b, Head(p))
    PROVE  /\ PublishedInLine(f, c, w, p)
           /\ \A x \in Request : Has(c, x) => Has(b, x) \/ Has(p, x)
<1> DEFINE h == Head(p)
<1>1. /\ Has(p, h) /\ h \in Request
      /\ \A x \in Request : Has(p, x) => f[h] <= f[x]
    BY HeadFirst DEF InLine
<1>2. c = Append(b, h)
    OBVIOUS
<1> HIDE DEF h
<1> DEFINE n == Len(b)
<1>3. /\ n \in Nat /\ DOMAIN b = 1 .. n /\ DOMAIN c = 1 .. n + 1
      /\ \A i \in 1 .. n : c[i] = b[i] /\ b[i] \in Request
      /\ c[n + 1] = h
    BY <1>1, <1>2, AppendProperties, LenProperties, ElementOfSeq
<1> HIDE DEF n
<1>n. \A i \in 1 .. n + 1 : i # n + 1 => i \in 1 .. n
    BY <1>3
<1>4. ASSUME NEW x \in Request, Has(c, x) PROVE Has(b, x) \/ x = h
    <2>1. PICK i \in 1 .. n + 1 : c[i] = x
        BY <1>3, <1>4 DEF Has
    <2>2. CASE i = n + 1
        BY <1>3, <2>1, <2>2
    <2>3. CASE i # n + 1
        <3>1. i \in 1 .. n
            BY <1>n, <2>3
        <3> QED BY <1>3, <2>1, <3>1 DEF Has
    <2> QED BY <2>2, <2>3
<1>5. NeverBack(f, c)
    <2> SUFFICES ASSUME NEW i \in 1 .. n + 1, NEW j \in 1 .. n + 1, i < j
                 PROVE  f[c[i]] <= f[c[j]]
        BY <1>3 DEF NeverBack
    <2>1. i \in 1 .. n
        BY <1>3
    <2>2. i \in DOMAIN b /\ c[i] = b[i] /\ b[i] \in Request /\ Has(b, b[i])
        BY <1>3, <2>1 DEF Has
    <2>3. CASE j = n + 1
        <3>1. f[b[i]] <= f[h]
            BY <1>1, <2>2 DEF PublishedInLine, NotBehind
        <3> QED BY <1>3, <2>2, <2>3, <3>1
    <2>4. CASE j # n + 1
        <3>1. j \in DOMAIN b /\ c[j] = b[j]
            BY <1>3, <1>n, <2>4
        <3> QED BY <2>2, <3>1 DEF PublishedInLine, NeverBack
    <2> QED BY <2>3, <2>4
<1>6. NotBehind(f, c, p)
    BY <1>1, <1>4 DEF NotBehind, PublishedInLine
<1>7. NotBehind(f, c, w)
    <2>1. ASSUME NEW y \in Request, Has(w, y) PROVE f[h] <= f[y]
        <3>1. f[h] < f[y] /\ f[h] \in Nat /\ f[y] \in Nat
            BY <1>1, <2>1 DEF InLine, Before
        <3> QED BY <3>1
    <2> QED BY <1>1, <1>4, <2>1 DEF NotBehind, PublishedInLine
<1> QED BY <1>1, <1>4, <1>5, <1>6, <1>7 DEF PublishedInLine

\* Moving the requests that are ready, and sending the first of them, keeps
\* everything in line; it adds no request.
LEMMA CheckTasksInitializedOrder ==
    ASSUME TypeOK, NEW f \in [Request -> Nat], NEW q \in Seq(Request), NEW ready, NEW a, NEW thread,
           InLine(f, q, pending), PublishedInLine(f, published, q, pending),
           CheckTasksInitialized(q, ready, a, thread)
    PROVE  /\ InLine(f, waiting', pending')
           /\ PublishedInLine(f, published', waiting', pending')
           /\ \A x \in Request : Known(published', waiting', pending', x)
                                    => Known(published, q, pending, x)
<1>1. PICK k \in 0 .. Len(q) :
        /\ waiting' = SubSeq(q, k + 1, Len(q))
        /\ pending' = Join(pending, SubSeq(q, 1, k))
        /\ \/ k > 0 /\ Publish(pending', inPipeline)
           \/ NoPublish(inPipeline)
    BY DEF CheckTasksInitialized
<1>2. pending \in Seq(Request) /\ published \in Seq(Request)
    BY DEF TypeOK
<1>3. Increasing(f, q)
    BY DEF InLine
<1>4. PICK front : front = SubSeq(q, 1, k)
    OBVIOUS
<1>5. /\ front \in Seq(Request) /\ waiting' \in Seq(Request) /\ Len(front) = k
      /\ InLine(f, waiting', front)
      /\ \A r \in Request : Has(q, r) <=> Has(waiting', r) \/ Has(front, r)
    <2>1. PICK rest : rest = SubSeq(q, k + 1, Len(q))
        OBVIOUS
    <2>2. front \in Seq(Request) /\ rest \in Seq(Request) /\ Len(front) = k
        BY <1>4, <2>1, Cut
    <2>3. /\ InLine(f, rest, front)
          /\ Splits(q, rest, front)
        BY <1>3, <1>4, <2>1, <2>2, CutOrder
    <2>4. waiting' = rest
        BY <1>1, <2>1
    <2> QED BY <2>2, <2>3, <2>4 DEF Splits
<1>6. Before(f, pending, front) /\ Before(f, pending, waiting')
    BY <1>5, PartInLine DEF InLine
<1>7. /\ pending' \in Seq(Request) /\ Increasing(f, pending')
      /\ \A r : Has(pending', r) <=> Has(pending, r) \/ Has(front, r)
    <2>1. Increasing(f, pending) /\ Increasing(f, front) /\ pending' = Join(pending, front)
        BY <1>1, <1>4, <1>5 DEF InLine
    <2> QED BY <1>2, <1>5, <1>6, <2>1, JoinOrder
<1>8. InLine(f, waiting', pending')
    BY <1>5, <1>6, <1>7 DEF InLine, Before
<1>9. PublishedInLine(f, published, waiting', pending')
    BY <1>5, <1>7 DEF PublishedInLine, NotBehind
<1>10. CASE k > 0 /\ Publish(pending', inPipeline)
    <2>1. pending' # <<>>
        <3>1. front # <<>>
            BY <1>5, <1>10, EmptySeq
        <3>2. Has(front, Head(front)) /\ Head(front) \in Request
            BY <1>5, <3>1, HeadFirst DEF InLine
        <3>3. \E i \in DOMAIN pending' : TRUE
            BY <1>7, <3>2 DEF Has
        <3> QED BY <1>7, <3>3, EmptySeq, LenProperties
    <2>2. published' = Append(published, Head(pending'))
        BY <1>10 DEF Publish
    <2>3. /\ PublishedInLine(f, published', waiting', pending')
          /\ \A x \in Request : Has(published', x) => Has(published, x) \/ Has(pending', x)
        BY <1>2, <1>7, <1>8, <1>9, <2>1, <2>2, PublishOrder
    <2> QED BY <1>5, <1>7, <1>8, <2>3 DEF Known
<1>11. CASE NoPublish(inPipeline)
    <2>1. published' = published
        BY <1>11 DEF NoPublish
    <2> QED BY <1>5, <1>7, <1>8, <1>9, <2>1 DEF Known
<1> QED BY <1>1, <1>10, <1>11

\* The front of the pending queue is settled and the next request sent.
LEMMA SendNextRequestOrder ==
    ASSUME TypeOK, NEW f \in [Request -> Nat], pending # <<>>,
           InLine(f, waiting, pending), PublishedInLine(f, published, waiting, pending),
           waiting' = waiting, pending' = Tail(pending),
           NEW pipe, NEW a, NEW thread, SendNextRequest(Tail(pending), pipe, a, thread)
    PROVE  /\ InLine(f, waiting', pending')
           /\ PublishedInLine(f, published', waiting', pending')
           /\ \A x \in Request : Known(published', waiting', pending', x)
                                    => Known(published, waiting, pending, x)
<1>1. pending \in Seq(Request) /\ published \in Seq(Request)
    BY DEF TypeOK
<1>2. /\ pending' \in Seq(Request) /\ Increasing(f, pending')
      /\ \A r : Has(pending', r) => Has(pending, r)
    BY <1>1, TailOrder DEF InLine
<1>3. InLine(f, waiting', pending')
    BY <1>2, PartInLine DEF InLine
<1>4. PublishedInLine(f, published, waiting', pending')
    BY <1>2, PartInLine DEF PublishedInLine
<1>5. CASE pending' = <<>>
    <2>1. published' = published
        BY <1>5 DEF SendNextRequest, NoPublish
    <2> QED BY <1>2, <1>3, <1>4, <2>1 DEF Known
<1>6. CASE pending' # <<>>
    <2>1. published' = Append(published, Head(pending'))
        BY <1>6 DEF SendNextRequest, Publish
    <2>2. /\ PublishedInLine(f, published', waiting', pending')
          /\ \A x \in Request : Has(published', x) => Has(published, x) \/ Has(pending', x)
        BY <1>1, <1>2, <1>3, <1>4, <1>6, <2>1, PublishOrder
    <2> QED BY <1>2, <1>3, <2>2 DEF Known
<1> QED BY <1>5, <1>6

-----------------------------------------------------------------------------
(***************************************************************************)
(* Steps that accept no request.                                           *)
(***************************************************************************)
LEMMA NoneAccepted ==
    ASSUME OnlyAccepted, AcceptedSeen, NEW f \in [Request -> Nat], Places(f, accepted),
           accepted' = accepted, seen \subseteq seen',
           InLine(f, waiting', pending'), PublishedInLine(f, published', waiting', pending'),
           \A x \in Request : Known(published', waiting', pending', x)
                                 => Known(published, waiting, pending, x)
    PROVE  OInv'
<1>1. OnlyAccepted' /\ AcceptedSeen'
    BY DEF OnlyAccepted, AcceptedSeen
<1>2. OrderedBy(f)'
    BY DEF OrderedBy, Places
<1> QED BY <1>1, <1>2 DEF OInv

\* A request found valid takes the place after all others.
LEMMA AcceptedLast ==
    ASSUME TypeOK, NEW r \in Request, r \notin seen,
           OnlyAccepted, AcceptedSeen, NEW f \in [Request -> Nat], OrderedBy(f),
           accepted' = Append(accepted, r),
           NEW g \in [Request -> Nat], g = [f EXCEPT ![r] = Len(accepted) + 1],
           NEW q \in Seq(Request), q = Join(waiting, <<r>>)
    PROVE  /\ Places(g, accepted')
           /\ InLine(g, q, pending)
           /\ PublishedInLine(g, published, q, pending)
           /\ Adds(q, waiting, r) /\ Adds(accepted', accepted, r)
<1>1. /\ waiting \in Seq(Request) /\ pending \in Seq(Request) /\ published \in Seq(Request)
      /\ accepted \in Seq(Request)
    BY DEF TypeOK
<1>2. /\ Len(accepted) \in Nat /\ DOMAIN accepted = 1 .. Len(accepted)
      /\ DOMAIN accepted' = 1 .. Len(accepted) + 1
      /\ \A i \in 1 .. Len(accepted) : accepted'[i] = accepted[i] /\ accepted[i] \in Request
      /\ accepted'[Len(accepted) + 1] = r
    BY <1>1, AppendProperties, LenProperties, ElementOfSeq
<1>3. \A x \in Request : Has(accepted', x) <=> Has(accepted, x) \/ x = r
    <2>1. ASSUME NEW x \in Request, Has(accepted', x) PROVE Has(accepted, x) \/ x = r
        <3>1. PICK i \in 1 .. Len(accepted) + 1 : accepted'[i] = x
            BY <1>2, <2>1 DEF Has
        <3>2. CASE i = Len(accepted) + 1
            BY <1>2, <3>1, <3>2
        <3>3. CASE i # Len(accepted) + 1
            <4>1. i \in 1 .. Len(accepted)
                BY <1>2, <3>3
            <4> QED BY <1>2, <3>1, <4>1 DEF Has
        <3> QED BY <3>2, <3>3
    <2>2. ASSUME NEW x \in Request, Has(accepted, x) PROVE Has(accepted', x)
        BY <1>2, <2>2 DEF Has
    <2>3. Has(accepted', r)
        <3>1. Len(accepted) + 1 \in DOMAIN accepted'
            BY <1>2
        <3> QED BY <1>2, <3>1 DEF Has
    <2> QED BY <2>1, <2>2, <2>3
<1>4. ~Has(accepted, r)
    BY DEF AcceptedSeen
<1>5. \A x \in Request : Has(accepted, x) => f[x] <= Len(accepted) /\ x # r
    BY <1>2, <1>4 DEF Has, OrderedBy, Places
<1>6. /\ g[r] = Len(accepted) + 1
      /\ \A x \in Request : x # r => g[x] = f[x]
    BY <1>2
<1>7. \A x \in Request : Known(published, waiting, pending, x)
                            => x # r /\ g[x] = f[x] /\ g[x] < g[r]
    <2> SUFFICES ASSUME NEW x \in Request, Known(published, waiting, pending, x)
                 PROVE  x # r /\ g[x] = f[x] /\ g[x] < g[r]
        OBVIOUS
    <2>1. x # r /\ f[x] <= Len(accepted)
        BY <1>5 DEF OnlyAccepted
    <2> QED BY <1>2, <1>6, <2>1
<1>8. Places(g, accepted')
    <2> SUFFICES ASSUME NEW i \in 1 .. Len(accepted) + 1 PROVE g[accepted'[i]] = i
        BY <1>2 DEF Places
    <2>1. CASE i = Len(accepted) + 1
        BY <1>2, <1>6, <2>1
    <2>2. CASE i # Len(accepted) + 1
        <3>1. i \in DOMAIN accepted /\ accepted'[i] = accepted[i] /\ accepted[i] \in Request
            BY <1>2, <2>2
        <3>2. accepted[i] # r
            BY <1>4, <3>1 DEF Has
        <3>3. f[accepted[i]] = i
            BY <3>1 DEF OrderedBy, Places
        <3> QED BY <1>6, <3>1, <3>2, <3>3
    <2> QED BY <2>1, <2>2
<1>9. /\ \A i \in DOMAIN waiting : waiting[i] \in Request /\ Has(waiting, waiting[i])
      /\ \A i \in DOMAIN pending : pending[i] \in Request /\ Has(pending, pending[i])
      /\ \A i \in DOMAIN published : published[i] \in Request /\ Has(published, published[i])
    BY <1>1, LenProperties, ElementOfSeq DEF Has
<1>10. /\ \A i \in DOMAIN waiting : g[waiting[i]] = f[waiting[i]]
       /\ \A i \in DOMAIN pending : g[pending[i]] = f[pending[i]]
       /\ \A i \in DOMAIN published : g[published[i]] = f[published[i]]
    BY <1>7, <1>9 DEF Known
<1>11. Increasing(g, waiting) /\ Increasing(g, pending) /\ NeverBack(g, published)
    BY <1>10 DEF OrderedBy, InLine, PublishedInLine, Increasing, NeverBack
<1>12. PICK one : one = <<r>>
    OBVIOUS
<1>13. /\ one \in Seq(Request) /\ Len(one) = 1 /\ DOMAIN one = 1 .. 1 /\ one[1] = r
    BY <1>12
<1>14. \A x : Has(one, x) <=> x = r
    BY <1>13 DEF Has
<1>15. Increasing(g, one)
    BY <1>13 DEF Increasing
<1>16. Before(g, waiting, one)
    BY <1>7, <1>14 DEF Before, Known
<1>17. /\ Increasing(g, q)
       /\ \A x : Has(q, x) <=> Has(waiting, x) \/ x = r
    <2>1. q = Join(waiting, one)
        BY <1>12
    <2>2. /\ Increasing(g, q)
          /\ \A x : Has(q, x) <=> Has(waiting, x) \/ Has(one, x)
        BY <1>1, <1>6, <1>11, <1>13, <1>15, <1>16, <2>1, JoinOrder
    <2> QED BY <1>14, <2>2
<1>18. Before(g, pending, q)
    <2> SUFFICES ASSUME NEW x \in Request, NEW y \in Request, Has(pending, x), Has(q, y)
                 PROVE  g[x] < g[y]
        BY DEF Before
    <2>1. g[x] = f[x] /\ g[x] < g[r]
        BY <1>7 DEF Known
    <2>2. CASE y = r
        BY <2>1, <2>2
    <2>3. CASE y # r
        <3>1. Has(waiting, y) /\ g[y] = f[y]
            BY <1>6, <1>17, <2>3
        <3> QED BY <2>1, <3>1 DEF OrderedBy, InLine, Before
    <2> QED BY <2>2, <2>3
<1>19. NotBehind(g, published, pending)
    BY <1>7 DEF OrderedBy, PublishedInLine, NotBehind, Known
<1>20. NotBehind(g, published, q)
    <2> SUFFICES ASSUME NEW x \in Request, NEW y \in Request, Has(published, x), Has(q, y)
                 PROVE  g[x] <= g[y]
        BY DEF NotBehind
    <2>1. g[x] = f[x] /\ g[x] < g[r]
        BY <1>7 DEF Known
    <2>2. CASE y = r
        <3>1. g[x] \in Nat /\ g[r] \in Nat
            BY <1>6
        <3> QED BY <2>1, <2>2, <3>1
    <2>3. CASE y # r
        <3>1. Has(waiting, y) /\ g[y] = f[y]
            BY <1>6, <1>17, <2>3
        <3> QED BY <2>1, <3>1 DEF OrderedBy, PublishedInLine, NotBehind
    <2> QED BY <2>2, <2>3
<1> QED BY <1>3, <1>6, <1>8, <1>11, <1>17, <1>18, <1>19, <1>20 DEF InLine, PublishedInLine, Adds

-----------------------------------------------------------------------------
(***************************************************************************)
(* The invariant.                                                          *)
(***************************************************************************)
LEMMA InitOInv == Init => OInv
<1> SUFFICES ASSUME Init PROVE OInv
    OBVIOUS
<1>1. /\ waiting = <<>> /\ pending = <<>> /\ published = <<>> /\ accepted = <<>>
    BY DEF Init
<1>2. \A x : ~Has(<<>>, x)
    BY DEF Has
<1>3. PICK f \in [Request -> Nat] : f = [r \in Request |-> 0]
    OBVIOUS
<1>4. OrderedBy(f)
    BY <1>1, <1>2 DEF OrderedBy, Places, InLine, PublishedInLine, Increasing, NeverBack,
                      Before, NotBehind
<1>5. OnlyAccepted /\ AcceptedSeen
    BY <1>1, <1>2 DEF OnlyAccepted, AcceptedSeen, Known
<1> QED BY <1>4, <1>5 DEF OInv

\* Steps that queue and publish nothing.
LEMMA OInvUnchanged ==
    ASSUME OInv, UNCHANGED <<waiting, pending, published, accepted>>, seen \subseteq seen'
    PROVE  OInv'
<1>1. PICK f \in [Request -> Nat] : OrderedBy(f)
    BY DEF OInv
<1> QED BY <1>1, NoneAccepted DEF OInv, OrderedBy

\* Every handler and every callback preserves it.
LEMMA NextOInv ==
    ASSUME IInv, OInv, [Next]_vars
    PROVE  OInv'
<1> USE ValidatorAssumption
<1>t. TypeOK /\ waiting \in Seq(Request)
    BY DEF IInv, TypeOK
<1>f. PICK f \in [Request -> Nat] : OrderedBy(f)
    BY DEF OInv
<1>o. /\ OnlyAccepted /\ AcceptedSeen /\ Places(f, accepted) /\ InLine(f, waiting, pending)
      /\ PublishedInLine(f, published, waiting, pending)
    BY <1>f DEF OInv, OrderedBy
<1>1. ASSUME NEW t \in Task, TaskReceived(t) PROVE OInv'
    BY <1>1, OInvUnchanged DEF TaskReceived, queues, pipeline
<1>2. ASSUME NEW S \in SUBSET Task, RemoveTasks(S) PROVE OInv'
    BY <1>2, OInvUnchanged DEF RemoveTasks, queues, pipeline
<1>3. ASSUME NEW t \in Task, TaskInitialized(t) PROVE OInv'
    <2>1. /\ CheckTasksInitialized(waiting, initialized \cup {t}, active, "service")
          /\ UNCHANGED <<accepted, seen>>
        BY <1>3 DEF TaskInitialized
    <2>2. /\ InLine(f, waiting', pending')
          /\ PublishedInLine(f, published', waiting', pending')
          /\ \A x \in Request : Known(published', waiting', pending', x)
                                   => Known(published, waiting, pending, x)
        BY <1>t, <1>o, <2>1, CheckTasksInitializedOrder
    <2> QED BY <1>o, <2>1, <2>2, NoneAccepted
<1>4. ASSUME NEW r \in Request, NEW isMet \in BOOLEAN, HandleAutomationRequest(r, isMet)
      PROVE  OInv'
    <2>1. r \notin seen /\ seen' = seen \cup {r}
        BY <1>4 DEF HandleAutomationRequest
    <2>2. CASE isMet /\ TasksOf[r] \subseteq tasks
        <3>1. PICK q : q = Join(waiting, <<r>>)
            OBVIOUS
        <3>2. PICK g : g = [f EXCEPT ![r] = Len(accepted) + 1]
            OBVIOUS
        <3>3. accepted' = Append(accepted, r) /\ CheckTasksInitialized(q, initialized, active, "service")
            BY <1>4, <2>2, <3>1 DEF HandleAutomationRequest
        <3>q. q \in Seq(Request)
            <4>1. <<r>> \in Seq(Request)
                OBVIOUS
            <4> QED BY <1>t, <3>1, <4>1, JoinKeepsFront
        <3>g. g \in [Request -> Nat] /\ Len(accepted) \in Nat
            BY <1>t, <3>2, LenProperties DEF TypeOK
        <3>4. /\ Places(g, accepted')
              /\ InLine(g, q, pending)
              /\ PublishedInLine(g, published, q, pending)
              /\ Adds(q, waiting, r) /\ Adds(accepted', accepted, r)
            <4>1. accepted' = Append(accepted, r)
                BY <3>3
            <4>2. f \in [Request -> Nat] /\ OrderedBy(f)
                BY <1>f
            <4>3. r \in Request /\ r \notin seen /\ TypeOK /\ OnlyAccepted /\ AcceptedSeen
                BY <1>t, <1>o, <2>1
            <4> QED BY <3>1, <3>2, <3>q, <3>g, <4>1, <4>2, <4>3, AcceptedLast
        <3>5. /\ InLine(g, waiting', pending')
              /\ PublishedInLine(g, published', waiting', pending')
              /\ \A x \in Request : Known(published', waiting', pending', x)
                                       => Known(published, q, pending, x)
            BY <1>t, <3>3, <3>4, <3>q, <3>g, CheckTasksInitializedOrder
        <3>6. OrderedBy(g)'
            BY <3>4, <3>5 DEF OrderedBy
        <3>7. OnlyAccepted'
            BY <1>o, <3>4, <3>5 DEF OnlyAccepted, Known, Adds
        <3>8. AcceptedSeen'
            BY <1>o, <2>1, <3>4 DEF AcceptedSeen, Adds
        <3> QED BY <3>g, <3>6, <3>7, <3>8 DEF OInv
    <2>3. CASE ~(isMet /\ TasksOf[r] \subseteq tasks)
        BY <1>4, <2>1, <2>3, OInvUnchanged DEF HandleAutomationRequest, queues, pipeline
    <2> QED BY <2>2, <2>3
<1>5. ASSUME NEW r \in Request, HandleAutomationResponse(r) PROVE OInv'
    <2>1. UNCHANGED <<waiting, accepted, seen>>
        BY <1>5 DEF HandleAutomationResponse
    <2>2. \/ /\ pending # <<>> /\ pending' = Tail(pending)
             /\ SendNextRequest(Tail(pending), [inPipeline EXCEPT ![r] = @ - 1], active, "service")
          \/ UNCHANGED <<pending, published>>
        BY <1>5 DEF HandleAutomationResponse
    <2>3. CASE /\ pending # <<>> /\ pending' = Tail(pending)
               /\ SendNextRequest(Tail(pending), [inPipeline EXCEPT ![r] = @ - 1], active, "service")
        <3>1. /\ InLine(f, waiting', pending')
              /\ PublishedInLine(f, published', waiting', pending')
              /\ \A x \in Request : Known(published', waiting', pending', x)
                                       => Known(published, waiting, pending, x)
            BY <1>t, <1>o, <2>1, <2>3, SendNextRequestOrder
        <3> QED BY <1>o, <2>1, <3>1, NoneAccepted
    <2>4. CASE UNCHANGED <<pending, published>>
        BY <2>1, <2>4, OInvUnchanged
    <2> QED BY <2>2, <2>3, <2>4
<1>6. ASSUME NEW r \in Request, PipelineLoses(r) PROVE OInv'
    BY <1>6, OInvUnchanged DEF PipelineLoses, queues
<1>7. CASE OnResponseTimeout
    <2>1. UNCHANGED <<waiting, accepted, seen>>
        BY <1>7 DEF OnResponseTimeout
    <2>2. /\ pending # <<>> /\ pending' = Tail(pending)
          /\ SendNextRequest(Tail(pending), inPipeline, active \ {"response"}, "worker")
        BY <1>7 DEF OnResponseTimeout, IInv, ResponseIsAwaited
    <2>3. /\ InLine(f, waiting', pending')
          /\ PublishedInLine(f, published', waiting', pending')
          /\ \A x \in Request : Known(published', waiting', pending', x)
                                   => Known(published, waiting, pending, x)
        BY <1>t, <1>o, <2>1, <2>2, SendNextRequestOrder
    <2> QED BY <1>o, <2>1, <2>3, NoneAccepted
<1>8. CASE OnTasksReadyTimeout
    <2>1. UNCHANGED <<accepted, seen>>
        BY <1>8 DEF OnTasksReadyTimeout
    <2>2. PICK q : /\ \/ waiting # <<>> /\ q = Tail(waiting)
                      \/ q = waiting
                   /\ CheckTasksInitialized(q, initialized, active \ {"taskInit"}, "worker")
        BY <1>8 DEF OnTasksReadyTimeout
    <2>3. /\ q \in Seq(Request) /\ Increasing(f, q)
          /\ \A x : Has(q, x) => Has(waiting, x)
        BY <1>t, <1>o, <2>2, TailOrder DEF InLine
    <2>4. InLine(f, q, pending) /\ PublishedInLine(f, published, q, pending)
        BY <1>o, <2>3, PartInLine DEF InLine, PublishedInLine
    <2>5. /\ InLine(f, waiting', pending')
          /\ PublishedInLine(f, published', waiting', pending')
          /\ \A x \in Request : Known(published', waiting', pending', x)
                                   => Known(published, q, pending, x)
        BY <1>t, <2>2, <2>3, <2>4, CheckTasksInitializedOrder
    <2>6. \A x \in Request : Known(published, q, pending, x)
                                => Known(published, waiting, pending, x)
        BY <2>3 DEF Known
    <2> QED BY <1>o, <2>1, <2>5, <2>6, NoneAccepted
<1>9. CASE UNCHANGED vars
    BY <1>9, OInvUnchanged DEF vars, queues, pipeline
<1> QED BY <1>1, <1>2, <1>3, <1>4, <1>5, <1>6, <1>7, <1>8, <1>9 DEF Next

\* The invariant says that the queues and what was published are in order.
LEMMA OInvInOrder ==
    ASSUME TypeOK, OInv
    PROVE  InOrder
<1>f. PICK f \in [Request -> Nat] : OrderedBy(f)
    BY DEF OInv
<1>1. /\ waiting \in Seq(Request) /\ pending \in Seq(Request) /\ published \in Seq(Request)
      /\ accepted \in Seq(Request)
    BY DEF TypeOK
<1>2. ASSUME NEW x \in Request, Known(published, waiting, pending, x) PROVE PlaceOf(x) = f[x]
    <2>1. PICK i \in DOMAIN accepted : accepted[i] = x
        BY <1>2 DEF OInv, OnlyAccepted, Has
    <2>2. \A j \in DOMAIN accepted : accepted[j] = x => j = f[x]
        BY <1>f DEF OrderedBy, Places
    <2> QED BY <2>1, <2>2 DEF PlaceOf
<1>3. PICK line : line = pending \o waiting
    OBVIOUS
<1>4. /\ line \in Seq(Request) /\ Increasing(f, line)
      /\ \A x : Has(line, x) <=> Has(pending, x) \/ Has(waiting, x)
    <2>1. line = Join(pending, waiting)
        BY <1>3 DEF Join
    <2> QED BY <1>1, <1>f, <2>1, JoinOrder DEF OrderedBy, InLine
<1>5. \A i \in DOMAIN line : line[i] \in Request /\ Known(published, waiting, pending, line[i])
    BY <1>4, LenProperties, ElementOfSeq DEF Has, Known
<1>6. \A i, j \in DOMAIN line : i < j => PlaceOf(line[i]) < PlaceOf(line[j])
    BY <1>2, <1>4, <1>5 DEF Increasing
<1>7. \A i \in DOMAIN published :
        published[i] \in Request /\ Known(published, waiting, pending, published[i])
    BY <1>1, LenProperties, ElementOfSeq DEF Has, Known
<1>8. \A i, j \in DOMAIN published : i < j => PlaceOf(published[i]) <= PlaceOf(published[j])
    BY <1>2, <1>7, <1>f DEF OrderedBy, PublishedInLine, NeverBack
<1> QED BY <1>3, <1>6, <1>8 DEF InOrder

(***************************************************************************)
(* Requests are queued, published and published again in the order in      *)
(* which they were found valid, whatever task becomes ready, whatever      *)
(* times out and whatever is answered in between, and however the clients  *)
(* choose their identifiers.                                               *)
(***************************************************************************)
THEOREM RequestsInOrder == Spec => []InOrder
<1>1. Init => OInv
    BY InitOInv
<1>2. IInv /\ OInv /\ [Next]_vars => OInv'
    BY NextOInv
<1>3. IInv /\ OInv => InOrder
    BY OInvInOrder DEF IInv
<1> QED BY <1>1, <1>2, <1>3, Invariance, PTL DEF Spec

-----------------------------------------------------------------------------
(***************************************************************************)
(* Who is given which response, if no two requests share an identifier.    *)
(***************************************************************************)

(***************************************************************************)
(* What is recorded under an identifier is a request that was seen and has *)
(* that identifier; nothing is recorded of a request whose client was      *)
(* given a response; and of a queued request there is a record, unless its *)
(* client was told of a task-wait timeout.                                 *)
(***************************************************************************)
RecordedOfSeen(d, s) ==
    \A id \in Id \cup {NoId} : d[id] # NoRequest => d[id] \in s /\ IdOf[d[id]] = id
ClosedByReply(d, s, rs) ==
    \A i \in DOMAIN rs :
        rs[i].to # NoRequest => rs[i].to \in s /\ d[IdOf[rs[i].to]] = NoRequest
TaskReported(rs, r) == \E j \in DOMAIN rs : rs[j].via = "tasks" /\ rs[j].to = r
RecordedOrReported ==
    \A r \in Request : Queued(r) => details[IdOf[r]] = r \/ TaskReported(replies, r)

\* The two parts of RightlyAddressed.
OneEach(rs) ==
    \A i, j \in DOMAIN rs : rs[i].to = rs[j].to => i = j \/ rs[i].to = NoRequest
OwnOrReported(rs) ==
    \A i \in DOMAIN rs :
        rs[i].via # "tasks" /\ rs[i].to # rs[i].about
            => /\ rs[i].to = NoRequest
               /\ \E j \in 1 .. i - 1 : rs[j].via = "tasks" /\ rs[j].to = rs[i].about

AInv == /\ RecordedOfSeen(details, seen) /\ ClosedByReply(details, seen, replies)
        /\ RecordedOrReported /\ OneEach(replies) /\ OwnOrReported(replies)

-----------------------------------------------------------------------------
\* The record of one request is not under the identifier of another.
LEMMA RecordErased ==
    ASSUME DistinctIds, NEW s \in SUBSET Request,
           NEW d \in [Id \cup {NoId} -> Request \cup {NoRequest}], NEW id \in Id \cup {NoId},
           RecordedOfSeen(d, s), NEW e, e = [d EXCEPT ![id] = NoRequest]
    PROVE  /\ RecordedOfSeen(e, s)
           /\ \A r \in Request : d[IdOf[r]] = r => e[IdOf[r]] = r \/ d[id] = r
<1> USE ValidatorAssumption
<1>1. \A i \in Id \cup {NoId} : e[i] = IF i = id THEN NoRequest ELSE d[i]
    OBVIOUS
<1>2. RecordedOfSeen(e, s)
    BY <1>1 DEF RecordedOfSeen
<1>3. ASSUME NEW r \in Request, d[IdOf[r]] = r PROVE e[IdOf[r]] = r \/ d[id] = r
    BY <1>1, <1>3
<1> QED BY <1>2, <1>3

\* A response sent to whom the record d names.  It is to the request it
\* concerns, or to nobody if that one was told of a task-wait timeout.
LEMMA ResponseSent ==
    ASSUME TypeOK, DistinctIds,
           NEW d \in [Id \cup {NoId} -> Request \cup {NoRequest}], NEW id \in Id \cup {NoId},
           NEW r \in Request, NEW via \in Reason, SendResponse(d, id, r, via),
           seen' \in SUBSET Request,
           RecordedOfSeen(d, seen'), ClosedByReply(d, seen', replies),
           OneEach(replies), OwnOrReported(replies),
           via # "tasks" => d[id] = r \/ (d[id] = NoRequest /\ TaskReported(replies, r))
    PROVE  /\ RecordedOfSeen(details', seen') /\ ClosedByReply(details', seen', replies')
           /\ OneEach(replies') /\ OwnOrReported(replies')
           /\ \A x : TaskReported(replies, x) => TaskReported(replies', x)
           /\ via = "tasks" => TaskReported(replies', d[id])
<1> USE ValidatorAssumption
<1>1. PICK reply : reply = [to |-> d[id], about |-> r, via |-> via]
    OBVIOUS
<1>2. reply.to = d[id] /\ reply.about = r /\ reply.via = via /\ reply \in Reply
    BY <1>1 DEF Reply
<1>3. /\ replies \in Seq(Reply) /\ replies' = Append(replies, reply)
      /\ details' = [d EXCEPT ![id] = NoRequest]
    BY <1>1 DEF TypeOK, SendResponse
<1>4. PICK n \in Nat : n = Len(replies)
    BY <1>3, LenProperties
<1>5. /\ DOMAIN replies = 1 .. n /\ DOMAIN replies' = 1 .. n + 1
      /\ replies'[n + 1] = reply
      /\ \A i \in 1 .. n : replies'[i] = replies[i] /\ replies[i] \in Reply
    BY <1>2, <1>3, <1>4, AppendProperties, LenProperties, ElementOfSeq
<1>6. \A i \in 1 .. n + 1 : i # n + 1 => i \in 1 .. n
    BY <1>4
<1>7. n + 1 \in 1 .. n + 1 /\ \A i \in 1 .. n : i \in 1 .. n + 1
    BY <1>4
<1>8. /\ RecordedOfSeen(details', seen')
      /\ \A i \in Id \cup {NoId} : details'[i] = IF i = id THEN NoRequest ELSE d[i]
    <2>1. RecordedOfSeen(details', seen')
        BY <1>3, RecordErased
    <2> QED BY <1>3, <2>1
<1>9. d[id] # NoRequest => d[id] \in seen' /\ d[id] \in Request /\ IdOf[d[id]] = id
    BY DEF RecordedOfSeen
\* Whoever is given this response was given none before.
<1>10. ASSUME NEW i \in 1 .. n, d[id] # NoRequest PROVE replies[i].to # d[id]
    BY <1>5, <1>9, <1>10 DEF ClosedByReply
<1>11. ClosedByReply(details', seen', replies')
    <2> SUFFICES ASSUME NEW i \in 1 .. n + 1, replies'[i].to # NoRequest
                 PROVE  /\ replies'[i].to \in seen'
                        /\ details'[IdOf[replies'[i].to]] = NoRequest
        BY <1>5 DEF ClosedByReply
    <2>1. CASE i = n + 1
        <3>1. replies'[i].to = d[id]
            BY <1>2, <1>5, <2>1
        <3> QED BY <1>8, <1>9, <3>1
    <2>2. CASE i # n + 1
        <3>1. i \in 1 .. n /\ replies'[i].to = replies[i].to
            BY <1>5, <1>6, <2>2
        <3>2. replies[i].to \in seen' /\ d[IdOf[replies[i].to]] = NoRequest
            BY <1>5, <3>1 DEF ClosedByReply
        <3>3. IdOf[replies[i].to] \in Id \cup {NoId}
            BY <3>2
        <3> QED BY <1>8, <3>1, <3>2, <3>3
    <2> QED BY <2>1, <2>2
<1>12. OneEach(replies')
    <2> SUFFICES ASSUME NEW i \in 1 .. n + 1, NEW j \in 1 .. n + 1,
                        replies'[i].to = replies'[j].to, i # j
                 PROVE  replies'[i].to = NoRequest
        BY <1>5 DEF OneEach
    <2>1. CASE i = n + 1
        <3>1. j \in 1 .. n /\ replies'[j].to = replies[j].to /\ replies'[i].to = d[id]
            BY <1>2, <1>5, <1>6, <2>1
        <3> QED BY <1>10, <3>1
    <2>2. CASE j = n + 1
        <3>1. i \in 1 .. n /\ replies'[i].to = replies[i].to /\ replies'[j].to = d[id]
            BY <1>2, <1>5, <1>6, <2>2
        <3> QED BY <1>10, <3>1
    <2>3. CASE i # n + 1 /\ j # n + 1
        <3>1. /\ i \in 1 .. n /\ j \in 1 .. n
              /\ replies'[i] = replies[i] /\ replies'[j] = replies[j]
            BY <1>5, <1>6, <2>3
        <3> QED BY <1>5, <3>1 DEF OneEach
    <2> QED BY <2>1, <2>2, <2>3
<1>13. OwnOrReported(replies')
    <2> SUFFICES ASSUME NEW i \in 1 .. n + 1,
                        replies'[i].via # "tasks", replies'[i].to # replies'[i].about
                 PROVE  /\ replies'[i].to = NoRequest
                        /\ \E j \in 1 .. i - 1 : /\ replies'[j].via = "tasks"
                                                 /\ replies'[j].to = replies'[i].about
        BY <1>5 DEF OwnOrReported
    <2>1. CASE i = n + 1
        <3>1. via # "tasks" /\ d[id] # r /\ replies'[i].to = d[id] /\ replies'[i].about = r
            BY <1>2, <1>5, <2>1
        <3>2. d[id] = NoRequest /\ TaskReported(replies, r)
            BY <3>1
        <3>3. PICK j \in 1 .. n : replies[j].via = "tasks" /\ replies[j].to = r
            BY <1>5, <3>2 DEF TaskReported
        <3>4. j \in 1 .. i - 1 /\ replies'[j] = replies[j]
            BY <1>4, <1>5, <2>1
        <3> QED BY <3>1, <3>2, <3>3, <3>4
    <2>2. CASE i # n + 1
        <3>1. i \in 1 .. n /\ replies'[i] = replies[i]
            BY <1>5, <1>6, <2>2
        <3>2. /\ replies[i].to = NoRequest
              /\ \E j \in 1 .. i - 1 : replies[j].via = "tasks" /\ replies[j].to = replies[i].about
            BY <1>5, <3>1 DEF OwnOrReported
        <3>3. \A j \in 1 .. i - 1 : replies'[j] = replies[j]
            BY <1>4, <1>5, <3>1
        <3> QED BY <3>1, <3>2, <3>3
    <2> QED BY <2>1, <2>2
<1>14. \A x : TaskReported(replies, x) => TaskReported(replies', x)
    BY <1>5, <1>7 DEF TaskReported
<1>15. via = "tasks" => TaskReported(replies', d[id])
    BY <1>2, <1>5, <1>7 DEF TaskReported
<1> QED BY <1>8, <1>11, <1>12, <1>13, <1>14, <1>15

-----------------------------------------------------------------------------
(***************************************************************************)
(* The invariant is inductive together with those of the other modules.    *)
(***************************************************************************)
LEMMA InitAInv == Init => AInv
    BY DEF Init, AInv, RecordedOfSeen, ClosedByReply, RecordedOrReported, OneEach,
           OwnOrReported, Queued

\* Steps that send nothing and queue no other request.
LEMMA AInvUnchanged ==
    ASSUME AInv, UNCHANGED <<details, seen, replies>>,
           \A r \in Request : Queued(r)' => Queued(r)
    PROVE  AInv'
    BY DEF AInv, RecordedOrReported

\* A response that takes the request it concerns out of the queues.
LEMMA ResponseServes ==
    ASSUME TypeOK, DistinctIds, AInv, UNCHANGED seen,
           NEW id \in Id \cup {NoId}, NEW r \in Request, NEW via \in Reason,
           SendResponse(details, id, r, via),
           via # "tasks" => \/ details[id] = r
                            \/ details[id] = NoRequest /\ TaskReported(replies, r),
           \A x \in Request : Queued(x)' <=> Queued(x) /\ x # r
    PROVE  AInv'
<1>1. /\ details \in [Id \cup {NoId} -> Request \cup {NoRequest}]
      /\ seen' \in SUBSET Request
      /\ RecordedOfSeen(details, seen') /\ ClosedByReply(details, seen', replies)
      /\ OneEach(replies) /\ OwnOrReported(replies)
    BY DEF TypeOK, AInv
<1>2. /\ RecordedOfSeen(details', seen') /\ ClosedByReply(details', seen', replies')
      /\ OneEach(replies') /\ OwnOrReported(replies')
      /\ \A x : TaskReported(replies, x) => TaskReported(replies', x)
      /\ via = "tasks" => TaskReported(replies', details[id])
    BY <1>1, ResponseSent
<1>3. RecordedOrReported'
    <2> SUFFICES ASSUME NEW x \in Request, Queued(x)'
                 PROVE  details'[IdOf[x]] = x \/ TaskReported(replies', x)
        BY DEF RecordedOrReported
    <2>1. Queued(x) /\ x # r
        OBVIOUS
    <2>2. CASE TaskReported(replies, x)
        BY <1>2, <2>2
    <2>3. CASE ~TaskReported(replies, x)
        <3>1. details[IdOf[x]] = x
            BY <2>1, <2>3 DEF AInv, RecordedOrReported
        <3>2. details'[IdOf[x]] = x \/ details[id] = x
            <4>1. details' = [details EXCEPT ![id] = NoRequest] /\ RecordedOfSeen(details, seen)
                BY DEF SendResponse, AInv
            <4>2. seen \in SUBSET Request
                BY DEF TypeOK
            <4> QED BY <1>1, <3>1, <4>1, <4>2, RecordErased
        <3>3. CASE details[id] = x
            <4>1. x # NoRequest
                BY ValidatorAssumption
            <4>2. via = "tasks"
                BY <2>1, <3>3, <4>1
            <4> QED BY <1>2, <3>3, <4>2
        <3> QED BY <3>2, <3>3
    <2> QED BY <2>2, <2>3
<1> QED BY <1>2, <1>3 DEF AInv

\* Every handler and every callback preserves it.
LEMMA NextAInv ==
    ASSUME DistinctIds, IInv, SInv, AInv, [Next]_vars
    PROVE  AInv'
<1> USE ValidatorAssumption
<1>t. TypeOK
    BY DEF IInv
<1>q. \A x \in Request : Queued(x) <=> QueuedIn(waiting, pending, x)
    BY DEF Queued, QueuedIn, Has
<1>1. ASSUME NEW t \in Task, TaskReceived(t) PROVE AInv'
    BY <1>1, AInvUnchanged DEF TaskReceived, queues, Queued
<1>2. ASSUME NEW S \in SUBSET Task, RemoveTasks(S) PROVE AInv'
    BY <1>2, AInvUnchanged DEF RemoveTasks, queues, Queued
<1>3. ASSUME NEW t \in Task, TaskInitialized(t) PROVE AInv'
    <2>1. /\ CheckTasksInitialized(waiting, initialized \cup {t}, active, "service")
          /\ UNCHANGED <<details, seen, replies>>
        BY <1>3 DEF TaskInitialized
    <2>2. \A r \in Request : Queued(r)' <=> QueuedIn(waiting, pending, r)
        BY <1>t, <2>1, CheckTasksInitializedMoves DEF SInv, TypeOK
    <2> QED BY <1>q, <2>1, <2>2, AInvUnchanged
<1>4. ASSUME NEW r \in Request, NEW isMet \in BOOLEAN, HandleAutomationRequest(r, isMet)
      PROVE  AInv'
    <2>1. r \notin seen /\ seen' = seen \cup {r} /\ seen' \in SUBSET Request
        BY <1>4, <1>t DEF HandleAutomationRequest, TypeOK
    <2>2. ~Queued(r)
        BY <2>1 DEF SInv, OnlySeen
    <2>3. PICK d : d = [details EXCEPT ![IdOf[r]] = r]
        OBVIOUS
    <2>4. /\ d \in [Id \cup {NoId} -> Request \cup {NoRequest}]
          /\ \A id \in Id \cup {NoId} : d[id] = IF id = IdOf[r] THEN r ELSE details[id]
          /\ IdOf[r] \in Id \cup {NoId} /\ d[IdOf[r]] = r
        BY <1>t, <2>3 DEF TypeOK
    <2>5. RecordedOfSeen(d, seen')
        BY <2>1, <2>4 DEF AInv, RecordedOfSeen
    <2>6. ClosedByReply(d, seen', replies)
        <3> SUFFICES ASSUME NEW i \in DOMAIN replies, replies[i].to # NoRequest
                     PROVE  replies[i].to \in seen' /\ d[IdOf[replies[i].to]] = NoRequest
            BY DEF ClosedByReply
        <3>1. replies[i].to \in seen /\ details[IdOf[replies[i].to]] = NoRequest
            BY DEF AInv, ClosedByReply
        <3>2. replies[i].to \in Request /\ replies[i].to # r
            BY <1>t, <2>1, <3>1 DEF TypeOK
        <3>3. IdOf[replies[i].to] # IdOf[r] /\ IdOf[replies[i].to] \in Id \cup {NoId}
            BY <3>2 DEF DistinctIds
        <3> QED BY <2>1, <2>4, <3>1, <3>3
    <2>7. \A x \in Request : x # r => d[IdOf[x]] = details[IdOf[x]]
        BY <2>4 DEF DistinctIds
    <2>8. CASE isMet /\ TasksOf[r] \subseteq tasks
        <3>1. PICK q : q = Join(waiting, <<r>>)
            OBVIOUS
        <3>2. /\ details' = d /\ UNCHANGED replies
              /\ CheckTasksInitialized(q, initialized, active, "service")
            BY <1>4, <2>3, <2>8, <3>1 DEF HandleAutomationRequest
        <3>3. /\ q \in Seq(Request) /\ OneQueue(q, pending)
              /\ \A x \in Request : QueuedIn(q, pending, x) <=> Queued(x) \/ x = r
            BY <1>t, <2>2, <3>1, Arrives DEF SInv
        <3>4. \A x \in Request : Queued(x)' <=> Queued(x) \/ x = r
            BY <1>t, <3>2, <3>3, CheckTasksInitializedMoves DEF SInv
        <3>5. RecordedOrReported'
            <4> SUFFICES ASSUME NEW x \in Request, Queued(x)'
                         PROVE  details'[IdOf[x]] = x \/ TaskReported(replies', x)
                BY DEF RecordedOrReported
            <4>1. CASE x = r
                BY <2>4, <3>2, <4>1
            <4>2. CASE x # r
                BY <2>7, <3>2, <3>4, <4>2 DEF AInv, RecordedOrReported
            <4> QED BY <4>1, <4>2
        <3> QED BY <2>5, <2>6, <3>2, <3>5 DEF AInv
    <2>9. CASE ~(isMet /\ TasksOf[r] \subseteq tasks)
        <3>1. SendResponse(d, IdOf[r], r, "rejected") /\ UNCHANGED <<waiting, pending>>
            BY <1>4, <2>3, <2>9 DEF HandleAutomationRequest, queues
        <3>2. "rejected" \in Reason /\ OneEach(replies) /\ OwnOrReported(replies)
            BY DEF Reason, AInv
        <3>3. /\ RecordedOfSeen(details', seen') /\ ClosedByReply(details', seen', replies')
              /\ OneEach(replies') /\ OwnOrReported(replies')
              /\ \A x : TaskReported(replies, x) => TaskReported(replies', x)
            BY <1>t, <2>1, <2>4, <2>5, <2>6, <3>1, <3>2, ResponseSent
        <3>4. RecordedOrReported'
            <4> SUFFICES ASSUME NEW x \in Request, Queued(x)'
                         PROVE  details'[IdOf[x]] = x \/ TaskReported(replies', x)
                BY DEF RecordedOrReported
            <4>1. Queued(x) /\ x # r
                BY <2>2, <3>1 DEF Queued
            <4>2. details'[IdOf[x]] = details[IdOf[x]]
                <5>1. IdOf[x] # IdOf[r] /\ IdOf[x] \in Id \cup {NoId}
                    BY <4>1 DEF DistinctIds
                <5>2. details' = [d EXCEPT ![IdOf[r]] = NoRequest]
                    BY <3>1 DEF SendResponse
                <5> QED BY <2>4, <5>1, <5>2
            <4> QED BY <3>3, <4>1, <4>2 DEF AInv, RecordedOrReported
        <3> QED BY <3>3, <3>4 DEF AInv
    <2> QED BY <2>8, <2>9
<1>5. ASSUME NEW r \in Request, HandleAutomationResponse(r) PROVE AInv'
    <2>1. waiting' = waiting /\ seen' = seen
        BY <1>5 DEF HandleAutomationResponse
    <2>2. \/ /\ pending # <<>> /\ IdOf[Head(pending)] = IdOf[r] /\ details[IdOf[r]] # NoRequest
             /\ SendResponse(details, IdOf[r], r, "answer") /\ pending' = Tail(pending)
          \/ UNCHANGED <<details, replies, pending>>
        BY <1>5 DEF HandleAutomationResponse
    <2>3. CASE /\ pending # <<>> /\ IdOf[Head(pending)] = IdOf[r] /\ details[IdOf[r]] # NoRequest
               /\ SendResponse(details, IdOf[r], r, "answer") /\ pending' = Tail(pending)
        <3>1. Head(pending) \in Request
            BY <1>t, <2>3, HeadTailProperties DEF TypeOK
        <3>2. r = Head(pending)
            BY <2>3, <3>1 DEF DistinctIds
        <3>3. \A x \in Request : Queued(x)' <=> Queued(x) /\ x # r
            BY <1>t, <2>1, <2>3, <3>2, PendingServed DEF SInv
        <3>4. details[IdOf[r]] = r
            <4>1. details[IdOf[r]] \in Request /\ IdOf[details[IdOf[r]]] = IdOf[r]
                BY <1>t, <2>3 DEF AInv, RecordedOfSeen, TypeOK
            <4> QED BY <4>1 DEF DistinctIds
        <3>5. IdOf[r] \in Id \cup {NoId} /\ "answer" \in Reason
            BY DEF Reason
        <3> QED BY <1>t, <2>1, <2>3, <3>3, <3>4, <3>5, ResponseServes
    <2>4. CASE UNCHANGED <<details, replies, pending>>
        BY <2>1, <2>4, AInvUnchanged DEF Queued
    <2> QED BY <2>2, <2>3, <2>4
<1>6. ASSUME NEW r \in Request, PipelineLoses(r) PROVE AInv'
    BY <1>6, AInvUnchanged DEF PipelineLoses, queues, Queued
<1>7. CASE OnResponseTimeout
    <2>1. /\ waiting' = waiting /\ seen' = seen /\ pending # <<>>
          /\ SendResponse(details, errorId, Head(pending), "late")
          /\ pending' = Tail(pending)
        BY <1>7 DEF OnResponseTimeout, IInv, ResponseIsAwaited
    <2>2. PICK h : h = Head(pending)
        OBVIOUS
    <2>3. h \in Request /\ errorId = IdOf[h] /\ errorId \in Id \cup {NoId} /\ "late" \in Reason
        BY <1>t, <2>1, <2>2, HeadTailProperties DEF TypeOK, IInv, FrontIsPublished, Reason
    <2>4. /\ Queued(h)
          /\ \A x \in Request : Queued(x)' <=> Queued(x) /\ x # h
        BY <1>t, <2>1, <2>2, PendingServed DEF SInv
    <2>5. \/ details[errorId] = h
          \/ details[errorId] = NoRequest /\ TaskReported(replies, h)
        <3>1. details[errorId] = h \/ TaskReported(replies, h)
            BY <2>3, <2>4 DEF AInv, RecordedOrReported
        <3>2. details[errorId] = h \/ details[errorId] = NoRequest
            <4>1. CASE details[errorId] # NoRequest
                <5>1. details[errorId] \in Request /\ IdOf[details[errorId]] = IdOf[h]
                    BY <1>t, <2>3, <4>1 DEF AInv, RecordedOfSeen, TypeOK
                <5> QED BY <2>3, <5>1 DEF DistinctIds
            <4> QED BY <4>1
        <3> QED BY <3>1, <3>2
    <2> QED BY <1>t, <2>1, <2>2, <2>3, <2>4, <2>5, ResponseServes
<1>8. CASE OnTasksReadyTimeout
    <2>1. seen' = seen
        BY <1>8 DEF OnTasksReadyTimeout
    <2>2. CASE waiting # <<>>
        <3>1. PICK h : h = Head(waiting)
            OBVIOUS
        <3>2. /\ SendResponse(details, errorId, h, "tasks")
              /\ CheckTasksInitialized(Tail(waiting), initialized, active \ {"taskInit"}, "worker")
            BY <1>8, <2>2, <3>1 DEF OnTasksReadyTimeout
        <3>3. Tail(waiting) \in Seq(Request) /\ h \in Request
            BY <1>t, <2>2, <3>1, HeadTailProperties DEF TypeOK
        <3>4. /\ OneQueue(Tail(waiting), pending)
              /\ \A x \in Request : QueuedIn(Tail(waiting), pending, x) <=> Queued(x) /\ x # h
            BY <1>t, <2>2, <3>1, WaitingServed DEF SInv
        <3>5. \A x \in Request : Queued(x)' <=> Queued(x) /\ x # h
            BY <1>t, <3>2, <3>3, <3>4, CheckTasksInitializedMoves DEF SInv
        <3>6. errorId \in Id \cup {NoId} /\ "tasks" \in Reason
            BY <1>t DEF TypeOK, Reason
        <3> QED BY <1>t, <2>1, <3>2, <3>3, <3>5, <3>6, ResponseServes
    <2>3. CASE waiting = <<>>
        <3>1. /\ CheckTasksInitialized(waiting, initialized, active \ {"taskInit"}, "worker")
              /\ UNCHANGED <<replies, details>>
            BY <1>8, <2>3 DEF OnTasksReadyTimeout
        <3>2. \A x \in Request : Queued(x)' <=> QueuedIn(waiting, pending, x)
            BY <1>t, <3>1, CheckTasksInitializedMoves DEF SInv, TypeOK
        <3> QED BY <1>q, <2>1, <3>1, <3>2, AInvUnchanged
    <2> QED BY <2>2, <2>3
<1>9. CASE UNCHANGED vars
    BY <1>9, AInvUnchanged DEF vars, queues, Queued
<1> QED BY <1>1, <1>2, <1>3, <1>4, <1>5, <1>6, <1>7, <1>8, <1>9 DEF Next

(***************************************************************************)
(* However the answers of the pipeline, the timeouts and the arrival of    *)
(* other requests interleave, no client is given two responses or those of *)
(* another client's request, except from the task-wait timeout; and only   *)
(* who was told of such a timeout may not be told of a later one.          *)
(***************************************************************************)
THEOREM ClientsRightlyAddressed == Spec => []RightlyAddressed
<1>1. CASE DistinctIds
    <2>1. Init => AInv
        BY InitAInv
    <2>2. IInv /\ SInv /\ AInv /\ [Next]_vars => AInv'
        BY <1>1, NextAInv
    <2>3. AInv => RightlyAddressed
        BY DEF AInv, OneEach, OwnOrReported, RightlyAddressed
    <2>4. Spec => []SInv
        BY <1>1, SettlementInvariance
    <2> QED BY <2>1, <2>2, <2>3, <2>4, Invariance, PTL DEF Spec
<1>2. CASE ~DistinctIds
    <2>1. RightlyAddressed
        BY <1>2 DEF RightlyAddressed
    <2> QED BY <2>1, PTL
<1> QED BY <1>1, <1>2
=============================================================================
