----------------------------- MODULE PlanBuilder -----------------------------
(***************************************************************************)
(* PlanBuilderService: has the tasks of an assignment implemented one      *)
(* after the other and links the waypoints they answer with into the       *)
(* missions of a UniqueAutomationResponse.                                 *)
(*                                                                         *)
(* Locations, headings and times are left out: what is kept of the         *)
(* projected state of a vehicle is the number of its last waypoint and the *)
(* task that takes it there.  The waypoints of one answer are numbered     *)
(* consecutively, so an answer has the first number and how many there     *)
(* are.  Overridden speeds and altitudes, the loiter at the end of a       *)
(* mission and the turn type are left out, and so are the ServiceStatus    *)
(* messages that only inform.                                              *)
(***************************************************************************)
EXTENDS MessageBus, Functions, SequencesExt

CONSTANTS NoTask,     \* where a vehicle is before its first task
          VehiclesOf  \* EntityList of each request, {} for all

VARIABLES
    states,      \* m_currentEntityStates
    requests,    \* m_uniqueAutomationRequests
    projected,   \* m_projectedEntityStates, of each request, by vehicle
    remaining,   \* m_remainingAssignments, of each request
    inProgress,  \* m_inProgressResponse: the missions so far, by vehicle
    expected,    \* m_expectedResponseID
    nextId       \* m_taskImplementationId

planBuilder == <<states, requests, projected, remaining, inProgress, expected, nextId>>

PlanBuilderInit ==
    /\ states = {} /\ requests = {}
    /\ projected = [r \in Request |-> <<>>]
    /\ remaining = [r \in Request |-> <<>>]
    /\ inProgress = <<>>
    /\ expected = <<>> /\ nextId = 1

(***************************************************************************)
(* sendNextTaskImplementationRequest, in answer to message i, when there   *)
(* are the assignments todo: nothing is sent if the vehicle of the first   *)
(* has no projected state.  out is what was sent before it.                *)
(***************************************************************************)
StartOf(proj, a) == proj[a.vehicle].last + 1
SendNextTaskImplementationRequest(i, r, todo, proj, out) ==
    LET a == Head(todo)
        isSent == todo # <<>> /\ a.vehicle \in DOMAIN proj
    IN /\ remaining' = [remaining EXCEPT ![r] = IF isSent THEN Tail(todo) ELSE todo]
       /\ expected' = IF isSent THEN WithEntry(expected, nextId, r) ELSE expected
       /\ nextId' = IF isSent THEN nextId + 1 ELSE nextId
       /\ Handled("PlanBuilder", i,
            IF isSent
            THEN Append(out, [type |-> "TaskImplementationRequest", id |-> nextId, to |-> a.task,
                              about |-> r, vehicle |-> a.vehicle,
                              start |-> StartOf(proj, a), from |-> proj[a.vehicle].task])
            ELSE out)

(***************************************************************************)
(* checkNextTaskImplementationRequest: the response, when there is nothing *)
(* left to implement.                                                      *)
(***************************************************************************)
CheckNext(i, r, proj, missions, out) ==
    \/ /\ remaining[r] = <<>>
       /\ Handled("PlanBuilder", i,
            Append(out, [type |-> "UniqueAutomationResponse", about |-> r, missions |-> missions]))
       /\ inProgress' = Restrict(inProgress, DOMAIN inProgress \ {r})
       /\ UNCHANGED <<remaining, expected, nextId>>
    \/ /\ remaining[r] # <<>>
       /\ inProgress' = [inProgress EXCEPT ![r] = missions]
       /\ SendNextTaskImplementationRequest(i, r, remaining[r], proj, out)

Error(r, t) == [type |-> "ServiceStatus", about |-> r, task |-> t]
Refuse(i, r) ==
    /\ Handled("PlanBuilder", i, <<Error(r, NoTask)>>)
    /\ UNCHANGED planBuilder

-----------------------------------------------------------------------------
HandleEntityState(i) ==
    /\ log[i].type = "EntityState"
    /\ states' = states \cup {log[i].vehicle}
    /\ Handled("PlanBuilder", i, <<>>)
    /\ UNCHANGED <<requests, projected, remaining, inProgress, expected, nextId>>

(***************************************************************************)
(* A UniqueAutomationRequest: what there was under its identifier is       *)
(* dropped, m_expectedResponseID is left alone.                            *)
(***************************************************************************)
HandleUniqueAutomationRequest(i) ==
    LET r == log[i].about IN
    /\ log[i].type = "UniqueAutomationRequest"
    /\ requests' = requests \cup {r}
    /\ projected' = [projected EXCEPT ![r] = <<>>]
    /\ remaining' = [remaining EXCEPT ![r] = <<>>]
    /\ inProgress' = Restrict(inProgress, DOMAIN inProgress \ {r})
    /\ Handled("PlanBuilder", i, <<>>)
    /\ UNCHANGED <<states, expected, nextId>>

Participating(r) == IF VehiclesOf[r] = {} THEN states ELSE VehiclesOf[r]
HandleTaskAssignmentSummary(i) ==
    LET r    == log[i].about
        todo == log[i].assignments
        proj == [v \in Participating(r) |-> [last |-> 0, task |-> NoTask]]
        isAccepted == r \in requests /\ todo # <<>> /\ VehiclesOf[r] \subseteq states
    IN /\ log[i].type = "TaskAssignmentSummary"
       /\ \/ /\ isAccepted
             /\ projected' = [projected EXCEPT ![r] = proj]
             /\ inProgress' = WithEntry(inProgress, r, <<>>)
             /\ SendNextTaskImplementationRequest(i, r, todo, proj, <<>>)
             /\ UNCHANGED <<states, requests>>
          \/ ~isAccepted /\ Refuse(i, r)

(***************************************************************************)
(* A TaskImplementationResponse counts if its identifier was ever expected *)
(* and the request it was for is in progress.  Without waypoints the task  *)
(* is skipped.                                                             *)
(***************************************************************************)
\* fault: the mission is replaced
ExtendedAnew(missions, m) ==
    WithEntry(missions, m.vehicle,
              <<[task |-> m.task, from |-> m.from, first |-> m.start, count |-> m.count]>>)
\* fault: the vehicle is projected to the first waypoint of the answer
ProjectedToFirst(proj, m) ==
    [v \in DOMAIN proj |-> IF v = m.vehicle THEN [last |-> m.start, task |-> m.task] ELSE proj[v]]

MissionOf(missions, v) == IF v \in DOMAIN missions THEN missions[v] ELSE <<>>
Extended(missions, m) ==
    WithEntry(missions, m.vehicle,
              Append(MissionOf(missions, m.vehicle),
                     [task |-> m.task, from |-> m.from, first |-> m.start, count |-> m.count]))
Projected(proj, m) ==
    [v \in DOMAIN proj |-> IF v = m.vehicle
                           THEN [last |-> m.start + m.count - 1, task |-> m.task]
                           ELSE proj[v]]
Implemented(i, r) ==
    LET m == log[i]
        proj == Projected(projected[r], m) IN
    /\ m.count > 0
    /\ projected' = [projected EXCEPT ![r] = proj]
    /\ CheckNext(i, r, proj, Extended(inProgress[r], m), <<>>)
Skipped(i, r) ==
    /\ log[i].count = 0
    /\ CheckNext(i, r, projected[r], inProgress[r], <<Error(r, log[i].task)>>)
    /\ UNCHANGED projected

IsExpected(id) == id \in DOMAIN expected /\ expected[id] \in DOMAIN inProgress
HandleTaskImplementationResponse(i) ==
    LET id == log[i].id IN
    /\ log[i].type = "TaskImplementationResponse"
    /\ \/ /\ IsExpected(id)
          /\ Implemented(i, expected[id]) \/ Skipped(i, expected[id])
          /\ UNCHANGED <<states, requests>>
       \/ /\ ~IsExpected(id)
          /\ Handled("PlanBuilder", i, <<>>)
          /\ UNCHANGED planBuilder

PlanBuilderStep ==
    \E i \in DOMAIN log :
        /\ IsNext("PlanBuilder", i)
        /\ \/ HandleEntityState(i) \/ HandleUniqueAutomationRequest(i)
           \/ HandleTaskAssignmentSummary(i) \/ HandleTaskImplementationResponse(i)
=============================================================================
