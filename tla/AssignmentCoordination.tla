----------------------- MODULE AssignmentCoordination -----------------------
(***************************************************************************)
(* Vehicles that plan together without a leader.  A                        *)
(* CoordinatedAutomationRequest goes to every vehicle; the                 *)
(* AssignmentCoordinatorTask of each broadcasts the PlanningState its own  *)
(* vehicle is to be planned from, collects those of the others, and asks   *)
(* its own planner for the assignment of them all with a                   *)
(* TaskAutomationRequest, when it has them or when its time has run out.   *)
(* If all ask from the same states all get the same plan.                  *)
(*                                                                         *)
(* External: the operator, the network between the vehicles, which keeps   *)
(* the order between two of them but may lose messages, and the planner of *)
(* each vehicle, which answers in the order it is asked.                   *)
(***************************************************************************)
EXTENDS Fleet

CONSTANTS Coordinated,    \* identifiers of CoordinatedAutomationRequests
          EntityList,     \* EntityList of the original request of each
          MaxPosition,    \* bound: how many positions there are
          JointSettings   \* [requests, vehicles, stateFirst, positions, timesOut, lossy, foreign,
                          \*  repeats]

ASSUME CoordinatedAssumption ==
    /\ Coordinated \subseteq Nat
    /\ EntityList \in [Coordinated -> SUBSET Vehicle]
    /\ MaxPosition \in Nat \ {0}
    /\ \A s \in JointSettings : /\ s.vehicles \subseteq Vehicle /\ s.requests \subseteq Coordinated
                               /\ s.positions \in 1 .. MaxPosition
                               /\ s.repeats \subseteq s.vehicles \X s.requests

VARIABLES joint,         \* the setting of this run
          lastLocalEntityState,     \* the last position of each vehicle, 0: none yet
          coordinationElements,     \* what is collected for each request
          maxTimes,      \* how many MaximumResponseTimes are running for each request
          requested,     \* the TaskAutomationRequests each vehicle ever sent
          answered,      \* how many of them were answered
          ordered,       \* requests the operator still has to bring to a vehicle
          channel,       \* AssignmentCoordinations from one vehicle to another
          taken,         \* history: the requests each vehicle has received
          intruded       \* history: identifiers answered to somebody else

coordinator == <<lastLocalEntityState, coordinationElements, maxTimes, requested>>
surroundings == <<answered, ordered, channel, taken, intruded>>
coordinationVars == <<joint, coordinator, surroundings>>

(***************************************************************************)
(* CoordinationElements: whether the request itself has come, and the      *)
(* planning states by entity.  Until it has, coordinatedAutomationRequest  *)
(* is a message as its constructor leaves it: its RequestID is 0 and its   *)
(* original request lists no entity and no task.                           *)
(***************************************************************************)
Planning == UNION {[E -> 1 .. MaxPosition] : E \in SUBSET Vehicle}
Elements == [received : BOOLEAN, planning : Planning]
Blank == [received |-> FALSE, planning |-> [e \in {} |-> 1]]
DefaultRequestID == 0

With(f, x, y) == [z \in DOMAIN f \cup {x} |-> IF z = x THEN y ELSE f[z]]
Without(f, x) == [z \in DOMAIN f \ {x} |-> f[z]]

Collected(v, r) == IF r \in DOMAIN coordinationElements[v]
                   THEN coordinationElements[v][r] ELSE Blank
Joined(elements, e, position) ==
    [elements EXCEPT !.planning = With(@, e, position)]
JoinedIfAbsent(elements, e, position) ==
    IF e \in DOMAIN elements.planning THEN elements ELSE Joined(elements, e, position)

(* The test of CheckAssignmentReady. *)
ReadyUnasked(r, elements) ==   \* fault: whether the request has come is not looked at
    elements.received => EntityList[r] \subseteq DOMAIN elements.planning
Ready(r, elements) ==
    IF elements.received THEN EntityList[r] \subseteq DOMAIN elements.planning
                         ELSE r = DefaultRequestID

(***************************************************************************)
(* The TaskAutomationRequest: for the entities of the original request, or *)
(* when time has run out for those that have reported.  tasks: whether it  *)
(* has the tasks of the request or, as the blank one, none.                *)
(***************************************************************************)
AskWithNewest(v, r, elements, isCut) ==   \* fault: plans from the newest state of its own
    [request |-> r, tasks |-> elements.received, cut |-> isCut,
     entities |-> IF isCut THEN DOMAIN elements.planning
                  ELSE IF elements.received THEN EntityList[r] ELSE {},
     planning |-> IF lastLocalEntityState[v] = 0 THEN elements.planning
                  ELSE With(elements.planning, v, lastLocalEntityState[v])]
TaskAutomationRequest(v, r, elements, isCut) ==
    [request |-> r, tasks |-> elements.received, cut |-> isCut,
     entities |-> IF isCut THEN DOMAIN elements.planning
                  ELSE IF elements.received THEN EntityList[r] ELSE {},
     planning |-> elements.planning]

(* CheckAssignmentReady, after the elements of r became these. *)
CheckAssignmentReadyKept(v, r, elements) ==   \* fault: the elements are kept
    /\ coordinationElements' = [coordinationElements EXCEPT ![v] = With(@, r, elements)]
    /\ requested' = IF Ready(r, elements)
                    THEN [requested EXCEPT ![v] =
                             Append(@, TaskAutomationRequest(v, r, elements, FALSE))]
                    ELSE requested
CheckAssignmentReady(v, r, elements) ==
    \/ /\ Ready(r, elements)
       /\ coordinationElements' = [coordinationElements EXCEPT ![v] = Without(@, r)]
       /\ requested' = [requested EXCEPT ![v] =
                            Append(@, TaskAutomationRequest(v, r, elements, FALSE))]
    \/ /\ ~Ready(r, elements)
       /\ coordinationElements' = [coordinationElements EXCEPT ![v] = With(@, r, elements)]
       /\ UNCHANGED requested

(***************************************************************************)
(* A CoordinatedAutomationRequest: its time starts, and if a state of the  *)
(* own vehicle is known it is broadcast, and kept unless there is one.     *)
(* "ASSUME: CoordinatedAutomationRequest messages have unique IDs" says    *)
(* the code: to a vehicle and with an identifier for which that is not so  *)
(* (repeats) another one may come later, once (bound).                     *)
(***************************************************************************)
WithOwnStateUnchecked(v, r) ==   \* fault: whether a state is known is not looked at
    JoinedIfAbsent([Collected(v, r) EXCEPT !.received = TRUE], v, lastLocalEntityState[v])
WithOwnState(v, r) ==
    LET elements == [Collected(v, r) EXCEPT !.received = TRUE]
    IN  IF lastLocalEntityState[v] = 0 THEN elements
        ELSE JoinedIfAbsent(elements, v, lastLocalEntityState[v])
Broadcast(v, r) ==
    IF lastLocalEntityState[v] = 0 THEN channel
    ELSE [c \in DOMAIN channel |->
             IF c[1] = v THEN Append(channel[c], [request |-> r, position |-> lastLocalEntityState[v]])
             ELSE channel[c]]
MayComeAgain(v, r) == <<v, r>> \in joint.repeats /\ r \notin taken[v]
TakeRequest(v, r) ==
    /\ <<v, r>> \in ordered
    /\ \/ ordered' = ordered \ {<<v, r>>}
       \/ MayComeAgain(v, r) /\ UNCHANGED ordered
    /\ taken' = [taken EXCEPT ![v] = @ \cup {r}]
HandleCoordinatedRequestUntimed(v, r) ==   \* fault: its time is not started
    /\ TakeRequest(v, r)
    /\ channel' = Broadcast(v, r)
    /\ CheckAssignmentReady(v, r, WithOwnState(v, r))
    /\ UNCHANGED <<joint, lastLocalEntityState, maxTimes, answered, intruded>>
HandleCoordinatedAutomationRequest(v, r) ==
    /\ TakeRequest(v, r)
    /\ maxTimes' = [maxTimes EXCEPT ![v][r] = @ + 1]
    /\ channel' = Broadcast(v, r)
    /\ CheckAssignmentReady(v, r, WithOwnState(v, r))
    /\ UNCHANGED <<joint, lastLocalEntityState, answered, intruded>>

(* An AssignmentCoordination from vehicle w. *)
HandleAssignmentCoordination(v, w) ==
    /\ channel[<<w, v>>] # <<>>
    /\ LET m == Head(channel[<<w, v>>])
       IN  CheckAssignmentReady(v, m.request, Joined(Collected(v, m.request), w, m.position))
    /\ channel' = [channel EXCEPT ![<<w, v>>] = Tail(@)]
    /\ UNCHANGED <<joint, lastLocalEntityState, maxTimes, answered, ordered, taken, intruded>>

(***************************************************************************)
(* CheckForAssignmentTimeMax, on the thread of the callback timer, for a   *)
(* request whose time is over.  The elements stay.                         *)
(***************************************************************************)
CheckForAssignmentTimeMax(v, r) ==
    /\ joint.timesOut
    /\ maxTimes[v][r] > 0
    /\ maxTimes' = [maxTimes EXCEPT ![v][r] = @ - 1]
    /\ requested' = IF r \in DOMAIN coordinationElements[v]
                    THEN [requested EXCEPT ![v] =
                             Append(@, TaskAutomationRequest(v, r, Collected(v, r), TRUE))]
                    ELSE requested
    /\ UNCHANGED <<joint, lastLocalEntityState, coordinationElements, surroundings>>

(***************************************************************************)
(* Every TaskAutomationResponse on the bus of the vehicle is sent on as an *)
(* AutomationResponse and ends the request of that identifier, whoever it  *)
(* answers: the coordinator, or another client with the same identifier.   *)
(***************************************************************************)
HandleTaskAutomationResponse(v) ==
    /\ answered[v] < Len(requested[v])
    /\ answered' = [answered EXCEPT ![v] = @ + 1]
    /\ coordinationElements' =
           [coordinationElements EXCEPT ![v] = Without(@, requested[v][answered[v] + 1].request)]
    /\ UNCHANGED <<joint, lastLocalEntityState, maxTimes, requested, ordered, channel, taken,
                   intruded>>
HandleForeignResponse(v, r) ==
    /\ joint.foreign
    /\ r \notin intruded[v]
    /\ intruded' = [intruded EXCEPT ![v] = @ \cup {r}]
    /\ coordinationElements' = [coordinationElements EXCEPT ![v] = Without(@, r)]
    /\ UNCHANGED <<joint, lastLocalEntityState, maxTimes, requested, answered, ordered, channel,
                   taken>>

(* An AirVehicleState of the own vehicle. *)
HandleAirVehicleState(v) ==
    /\ lastLocalEntityState[v] < joint.positions
    /\ lastLocalEntityState' = [lastLocalEntityState EXCEPT ![v] = @ + 1]
    /\ UNCHANGED <<joint, coordinationElements, maxTimes, requested, surroundings>>

(* The network, or the bridge of a vehicle, loses what is under way. *)
LoseRequest(v, r) ==
    /\ joint.lossy
    /\ <<v, r>> \in ordered
    /\ ordered' = ordered \ {<<v, r>>}
    /\ UNCHANGED <<joint, coordinator, answered, channel, taken, intruded>>
LoseCoordination(v, w) ==
    /\ joint.lossy
    /\ channel[<<v, w>>] # <<>>
    /\ channel' = [channel EXCEPT ![<<v, w>>] = Tail(@)]
    /\ UNCHANGED <<joint, coordinator, answered, ordered, taken, intruded>>

CoordinationInit ==
    /\ joint \in JointSettings
    /\ lastLocalEntityState = [v \in Vehicle |-> IF joint.stateFirst THEN 1 ELSE 0]
    /\ coordinationElements = [v \in Vehicle |-> [r \in {} |-> Blank]]
    /\ maxTimes = [v \in Vehicle |-> [r \in Coordinated |-> 0]]
    /\ requested = [v \in Vehicle |-> <<>>]
    /\ answered = [v \in Vehicle |-> 0]
    /\ ordered = joint.vehicles \X joint.requests
    /\ channel = [c \in {c \in joint.vehicles \X joint.vehicles : c[1] # c[2]} |-> <<>>]
    /\ taken = [v \in Vehicle |-> {}]
    /\ intruded = [v \in Vehicle |-> {}]

CoordinationWork ==
    \E v \in joint.vehicles :
        \/ \E r \in joint.requests : \/ HandleCoordinatedAutomationRequest(v, r)
                                     \/ CheckForAssignmentTimeMax(v, r)
        \/ \E w \in joint.vehicles \ {v} : HandleAssignmentCoordination(v, w)
        \/ HandleTaskAutomationResponse(v)

CoordinationSurroundings ==
    \E v \in joint.vehicles :
        \/ HandleAirVehicleState(v)
        \/ \E r \in joint.requests : HandleForeignResponse(v, r) \/ LoseRequest(v, r)
        \/ \E w \in joint.vehicles \ {v} : LoseCoordination(v, w)

CoordinationNext == CoordinationWork \/ CoordinationSurroundings
CoordinationSpec == CoordinationInit /\ [][CoordinationNext]_coordinationVars

-----------------------------------------------------------------------------

(* Type invariant of the coordinators and of what is under way. *)
Ask == [request : Coordinated, tasks : BOOLEAN, cut : BOOLEAN,
        entities : SUBSET Vehicle, planning : Planning]
Message == [request : Coordinated, position : 1 .. MaxPosition]
CoordinationTypeOK ==
    /\ joint \in JointSettings
    /\ lastLocalEntityState \in [Vehicle -> 0 .. MaxPosition]
    /\ DOMAIN coordinationElements = Vehicle
    /\ \A v \in Vehicle : /\ DOMAIN coordinationElements[v] \subseteq Coordinated
                          /\ \A r \in DOMAIN coordinationElements[v] :
                                 coordinationElements[v][r] \in Elements
    /\ maxTimes \in [Vehicle -> [Coordinated -> Nat]]
    /\ requested \in [Vehicle -> Seq(Ask)]
    /\ answered \in [Vehicle -> Nat]
    /\ ordered \subseteq Vehicle \X Coordinated
    /\ DOMAIN channel = {c \in joint.vehicles \X joint.vehicles : c[1] # c[2]}
    /\ \A c \in DOMAIN channel : channel[c] \in Seq(Message)
    /\ taken \in [Vehicle -> SUBSET Coordinated]
    /\ intruded \in [Vehicle -> SUBSET Coordinated]

Asked(v) == {requested[v][i] : i \in DOMAIN requested[v]}

(***************************************************************************)
(* The point of the protocol: whenever two vehicles plan for the same      *)
(* request they plan an entity both know of from the same state, though    *)
(* they hear of it at different times, some of them never, and the         *)
(* vehicles fly on meanwhile.  This needs an identifier that is unique: a  *)
(* vehicle to which the request comes again broadcasts the state it is in  *)
(* by then, which takes the place of the first with all others but not     *)
(* with itself.                                                            *)
(***************************************************************************)
IsUnique(r) == \A v \in Vehicle : <<v, r>> \notin joint.repeats
SamePlanningStates ==
    \A v, w \in Vehicle : \A a \in Asked(v), b \in Asked(w) :
        a.request = b.request /\ IsUnique(a.request) =>
            \A e \in DOMAIN a.planning \cap DOMAIN b.planning : a.planning[e] = b.planning[e]

(***************************************************************************)
(* Planning states that come late or a time limit that runs on do not make *)
(* a vehicle ask again for an assignment it has asked for with all the     *)
(* entities of the request.  This needs a unique identifier, too: for a    *)
(* request that comes again the vehicle collects, and asks, anew.          *)
(***************************************************************************)
InFull(a) == a.tasks /\ ~a.cut
AskedInFullOnce ==
    \A v \in Vehicle : \A i, j \in DOMAIN requested[v] :
        /\ i < j
        /\ requested[v][i].request = requested[v][j].request
        /\ InFull(requested[v][i])
        /\ <<v, requested[v][i].request>> \notin joint.repeats
        => ~requested[v][j].tasks

(***************************************************************************)
(* Elements made anew by a late planning state have a blank request, which *)
(* goes to the planner when the time of the request is over.  Except for a *)
(* request whose identifier is 0, this is never done instead of asking for *)
(* the request: it was asked for before, or was ended by an answer to      *)
(* another client.  A request that comes again changes nothing about that. *)
(***************************************************************************)
NothingAskedInItsPlace ==
    \A v \in Vehicle : \A i \in DOMAIN requested[v] :
        LET a == requested[v][i]
        IN  ~a.tasks /\ a.request # DefaultRequestID =>
                \/ a.request \in intruded[v]
                \/ \E j \in 1 .. i - 1 : requested[v][j].request = a.request /\ requested[v][j].tasks

(***************************************************************************)
(* A vehicle that took a request, once or again, asks for its assignment   *)
(* in the end, with what it has when its time is over; and if all know     *)
(* where they are and nothing is lost, without that.  Not promised: that   *)
(* anybody else does, a request with identifier 0, and one that another    *)
(* client's answer ended.                                                  *)
(***************************************************************************)
TakenIsAsked ==
    []<>(joint.timesOut \/ (joint.stateFirst /\ ~joint.lossy) =>
         \A v \in Vehicle : \A r \in taken[v] \ {DefaultRequestID} :
             r \in intruded[v] \/ \E a \in Asked(v) : a.request = r /\ a.tasks)
=============================================================================
