------------------------ MODULE WaypointPlanManager -------------------------
(***************************************************************************)
(* The WaypointPlanManagerService of each vehicle.  It cuts the plan of    *)
(* its vehicle into overlapping segments, each a MissionCommand, and with  *)
(* every state of the vehicle looks for the segment it should be flying.   *)
(* A timer sends what is to be sent, at most one command a second.         *)
(*                                                                         *)
(* Left out: loiters, camera angle and speed on the last waypoint;         *)
(* m_isLoopBackToFirstTask, which is off unless configured and leads from  *)
(* the last waypoint back to the first one of the plan;                    *)
(* isGetNextWaypointId, for m_isMoveToNextWaypoint is never set.           *)
(***************************************************************************)
EXTENDS Fleet, SequencesExt

VARIABLES m_missionSegments,           \* the segments of the plan of each vehicle
          m_idMissionSegmentCurrent,   \* CommandID of the segment last chosen
          nextMissionCommandToSend,    \* what the timer is to send: one command or none
          sending,                     \* the timer has sent it and is to reset the pointer
          commandIDs                   \* how many CommandIDs each has given out

planManager == <<m_missionSegments, m_idMissionSegmentCurrent, nextMissionCommandToSend,
                 sending, commandIDs>>

Unset == 0    \* FirstWaypoint of a segment that has none (-1 in the code)

(* A segment of the plan whose CommandIDs come after base. *)
Segment(base, command) ==
    [base |-> base, command |-> command, first |-> Unset, waypoints |-> <<>>]

(***************************************************************************)
(* isInitializePlan: one takes up to serve waypoints, two takes those of   *)
(* them that the next segment begins with.  FirstWaypoint is the second    *)
(* waypoint of a segment, or its only one; that of two is set to every     *)
(* waypoint until it has more than two, but not on overflow.               *)
(***************************************************************************)
Added(segment, w) == [segment EXCEPT !.waypoints = Append(@, w)]
Aimed(segment, w) ==
    IF Len(segment.waypoints) <= 2 THEN [segment EXCEPT !.first = w.number] ELSE segment

Within(cut, w, serve, overlap) ==
    LET one == Added(cut.one, w)
        two == IF serve - Len(one.waypoints) < overlap THEN Added(cut.two, w) ELSE cut.two
    IN  [cut EXCEPT !.one = Aimed(one, w), !.two = Aimed(two, w)]
Overflow(cut, w) ==
    IF cut.one.first = Unset
    THEN [cut EXCEPT !.two = Added(@, w), !.failed = TRUE]
    ELSE [cut EXCEPT !.done = Append(@, cut.one), !.one = Added(cut.two, w),
                     !.two = Segment(cut.two.base, cut.two.command + 1)]

CutMoreShort(cut, w, serve, overlap) ==   \* fault: the next segment begins two waypoints late
    IF Len(cut.one.waypoints) < serve THEN Within(cut, w, serve, overlap - 2) ELSE Overflow(cut, w)
CutMore(cut, w, serve, overlap) ==
    IF Len(cut.one.waypoints) < serve THEN Within(cut, w, serve, overlap) ELSE Overflow(cut, w)
CutOf(plan, serve, overlap, base) ==   \* after k waypoints: a set of one, so as to name it
    LET cut[k \in 0 .. Len(plan)] ==
            IF k = 0 THEN {[done |-> <<>>, one |-> Segment(base, base + 1),
                            two |-> Segment(base, base + 2), failed |-> plan = <<>>]}
            ELSE {CutMore(c, plan[k], serve, overlap) : c \in cut[k - 1]}
    IN  cut
Segments(plan, serve, overlap, base) ==
    LET end == CHOOSE c \in CutOf(plan, serve, overlap, base)[Len(plan)] : TRUE
    IN  [segments |-> IF end.one.first = Unset THEN end.done ELSE Append(end.done, end.one),
         failed |-> end.failed, last |-> IF plan = <<>> THEN base ELSE end.two.command]

(***************************************************************************)
(* isGetCurrentSegment: the last segment that has the waypoint, but not in *)
(* its first place, or else the first that has it.                         *)
(***************************************************************************)
Chosen(segments, n) ==
    LET having == {i \in DOMAIN segments : \E w \in ToSet(segments[i].waypoints) : w.number = n}
        inside == {i \in having : segments[i].waypoints[1].number # n}
    IN  IF inside # {} THEN {Max(inside)} ELSE IF having # {} THEN {Min(having)} ELSE {}

(* The command for a segment entered at waypoint n. *)
CommandFor(segment, n) ==
    IF segment.waypoints[1].number = n THEN segment ELSE [segment EXCEPT !.first = n]

(* What isGetCurrentSegment does to the segment of v and its next command. *)
GetCurrentSegmentAgain(v, segments, n) ==   \* fault: it does not remember which it was
    /\ \E new \in {{i \in Chosen(segments, n) :
                        segments[i].command # m_idMissionSegmentCurrent[v]}} :
           nextMissionCommandToSend' =
               [nextMissionCommandToSend EXCEPT ![v] =
                    IF new = {} THEN @ ELSE <<CommandFor(segments[CHOOSE i \in new : TRUE], n)>>]
    /\ UNCHANGED m_idMissionSegmentCurrent
GetCurrentSegment(v, segments, n) ==
    \E new \in {{i \in Chosen(segments, n) :
                     segments[i].command # m_idMissionSegmentCurrent[v]}} :
        /\ m_idMissionSegmentCurrent' =
               [m_idMissionSegmentCurrent EXCEPT ![v] =
                    IF new = {} THEN @ ELSE segments[CHOOSE i \in new : TRUE].command]
        /\ nextMissionCommandToSend' =
               [nextMissionCommandToSend EXCEPT ![v] =
                    IF new = {} THEN @ ELSE <<CommandFor(segments[CHOOSE i \in new : TRUE], n)>>]

(* An AirVehicleState of the vehicle, on its way to waypoint n. *)
ManageVehicleState(v, n) ==
    /\ GetCurrentSegment(v, m_missionSegments[v], n)
    /\ UNCHANGED <<m_missionSegments, sending, commandIDs>>

(* A plan, in an AutomationResponse or as a MissionCommand. *)
ManagePlan(v, plan, serve, overlap) ==
    \E cut \in {Segments(plan, serve, overlap, commandIDs[v])} :
        /\ m_missionSegments' = [m_missionSegments EXCEPT ![v] = cut.segments]
        /\ commandIDs' = [commandIDs EXCEPT ![v] = cut.last]
        /\ IF cut.failed \/ cut.segments = <<>>
           THEN UNCHANGED <<m_idMissionSegmentCurrent, nextMissionCommandToSend>>
           ELSE GetCurrentSegment(v, cut.segments, plan[1].number)
        /\ UNCHANGED sending

(***************************************************************************)
(* OnSendNewMissionTimer, on the thread of the TimerManager: the command   *)
(* is sent, and then the pointer to it is reset without a look at what it  *)
(* points to by then.                                                      *)
(***************************************************************************)
BeginSendingNewMission(v) ==
    /\ ~sending[v]
    /\ nextMissionCommandToSend[v] # <<>>
    /\ sending' = [sending EXCEPT ![v] = TRUE]
    /\ UNCHANGED <<m_missionSegments, m_idMissionSegmentCurrent, nextMissionCommandToSend,
                   commandIDs>>
EndSendingNewMission(v) ==
    /\ sending[v]
    /\ sending' = [sending EXCEPT ![v] = FALSE]
    /\ nextMissionCommandToSend' = [nextMissionCommandToSend EXCEPT ![v] = <<>>]
    /\ UNCHANGED <<m_missionSegments, m_idMissionSegmentCurrent, commandIDs>>

ManagerInit ==
    /\ m_missionSegments = [v \in Vehicle |-> <<>>]
    /\ m_idMissionSegmentCurrent = [v \in Vehicle |-> 0]
    /\ nextMissionCommandToSend = [v \in Vehicle |-> <<>>]
    /\ sending = [v \in Vehicle |-> FALSE]
    /\ commandIDs = [v \in Vehicle |-> 0]
=============================================================================
