---------------------------- MODULE TaskTracker -----------------------------
(***************************************************************************)
(* The TaskTrackerService: from the waypoint each vehicle reports, and the *)
(* tasks that the mission it was last given associates with it, it tells   *)
(* which tasks are in progress, and broadcasts TaskComplete when a vehicle *)
(* has gone on from one.  Some plans number their waypoints by task: from  *)
(* Numbering times the task on.                                            *)
(***************************************************************************)
EXTENDS Fleet, SequencesExt

CONSTANTS Eligible,    \* isTaskEligible: the tasks that are ever complete
          Numbering    \* the code's 10000, scaled down

VARIABLES m_missions,          \* the waypoints each vehicle was last given
          m_tasksInProgress,   \* the tasks each vehicle is on
          m_override,          \* <<[task, waypoint]>> of a mission that ends on a loop, or <<>>
          m_taskEmit,          \* the task that a task in a waypoint's number stands for
          m_taskWp,            \* last place of each vehicle in such a task
          completed            \* the TaskCompletes sent

ASSUME TrackerAssumption == Numbering \in Nat \ {0}

tracker == <<m_missions, m_tasksInProgress, m_override, m_taskEmit, m_taskWp, completed>>

Put(f, x, y) == [z \in DOMAIN f \cup {x} |-> IF z = x THEN y ELSE f[z]]
Drop(f, S) == [z \in DOMAIN f \ S |-> f[z]]
Nothing == [z \in {} |-> 0]
ListOf(w) == {w.tasks[i] : i \in DOMAIN w.tasks}
TasksOf(w) == ListOf(w) \cup {w.number \div Numbering}

(* TaskComplete for each task of S, or the one it stands for, that is      *)
(* eligible; their order, that of a hash table, is nothing to go by.       *)
Meant(emit, t) == IF t \in DOMAIN emit THEN emit[t] ELSE t
Complete(v, S, emit) ==
    LET due == SetToSeq({t \in S : Meant(emit, t) \in Eligible})
    IN  [i \in DOMAIN due |-> [vehicle |-> v, task |-> Meant(emit, due[i])]]

(***************************************************************************)
(* HandleVehicleState when vehicle v reaches the end of a mission that     *)
(* loops on its last waypoint.                                             *)
(***************************************************************************)
AtEndAnywhere(v, n) ==   \* fault: where the vehicle is is not looked at
    m_override[v] # <<>>
AtEnd(v, n) == m_override[v] # <<>> /\ m_override[v][1].waypoint = n
TrackOverride(v, n) ==
    /\ AtEnd(v, n)
    /\ completed' = completed \o Complete(v, {m_override[v][1].task}, Nothing)
    /\ m_tasksInProgress' = [m_tasksInProgress EXCEPT ![v] = @ \ {m_override[v][1].task}]
    /\ m_override' = [m_override EXCEPT ![v] = <<>>]
    /\ UNCHANGED <<m_missions, m_taskEmit, m_taskWp>>

(***************************************************************************)
(* HandleVehicleState otherwise.  On waypoint w, whose number names task   *)
(* from, a task is over if w does not list it, or if it is from and its    *)
(* numbering has started again.  The tasks are taken from a hash table:    *)
(* each that is over clears m_taskWp, so that what becomes of from depends *)
(* on which of the others, before, come before it.                         *)
(***************************************************************************)
TrackWaypoint(v, w) ==
    LET from == w.number \div Numbering
        place == w.number % Numbering
        named == IF from > 0 THEN {from} ELSE {}
        current == m_tasksInProgress[v] \cup named \cup ListOf(w)
        emit == IF from > 0 /\ w.tasks # <<>> THEN Put(m_taskEmit, from, w.tasks[1]) ELSE m_taskEmit
        others == {t \in current : t # from /\ t \notin ListOf(w)}
    IN  \E before \in SUBSET others :
            LET places == IF before = {} THEN m_taskWp[v] ELSE Nothing
                again == {t \in named \cap DOMAIN places : place < places[t]}
                over == others \cup again
            IN  /\ m_tasksInProgress' = [m_tasksInProgress EXCEPT ![v] = current \ over]
                /\ m_taskEmit' = Drop(emit, over)
                /\ m_taskWp' = [m_taskWp EXCEPT ![v] =
                       IF again # {} \/ before # others THEN Nothing
                       ELSE IF named = {} THEN places ELSE Put(places, from, place)]
                /\ completed' = completed \o Complete(v, over, emit)
                /\ UNCHANGED <<m_missions, m_override>>

TrackVehicleState(v, n) ==
    \/ TrackOverride(v, n)
    \/ /\ ~AtEnd(v, n)
       /\ LET found == {i \in DOMAIN m_missions[v] : m_missions[v][i].number = n}
          IN  IF found = {} THEN UNCHANGED tracker
              ELSE TrackWaypoint(v, m_missions[v][CHOOSE i \in found : \A j \in found : i <= j])

(***************************************************************************)
(* HandleMissionCommand.  The override is for the last task of a mission   *)
(* whose last waypoint is followed by itself.                              *)
(***************************************************************************)
LastTask(waypoints) ==
    LET tasked == {i \in DOMAIN waypoints :
                       waypoints[i].tasks # <<>> \/ waypoints[i].number >= Numbering}
        i == CHOOSE i \in tasked : \A j \in tasked : j <= i
    IN  IF tasked = {} THEN 0
        ELSE IF waypoints[i].tasks # <<>> THEN waypoints[i].tasks[1]
        ELSE waypoints[i].number \div Numbering
Override(waypoints) ==
    IF waypoints = <<>> \/ LastTask(waypoints) = 0 THEN <<>>
    ELSE LET last == waypoints[Len(waypoints)]
         IN  IF last.number = last.next
             THEN <<[task |-> LastTask(waypoints), waypoint |-> last.number]>> ELSE <<>>

TrackMission(v, waypoints) ==
    /\ m_tasksInProgress' = [m_tasksInProgress EXCEPT ![v] = {}]
    /\ m_missions' = [m_missions EXCEPT ![v] = waypoints]
    /\ m_override' = [m_override EXCEPT ![v] = Override(waypoints)]
    /\ UNCHANGED <<m_taskEmit, m_taskWp, completed>>

TrackerInit ==
    /\ m_missions = [v \in Vehicle |-> <<>>]
    /\ m_tasksInProgress = [v \in Vehicle |-> {}]
    /\ m_override = [v \in Vehicle |-> <<>>]
    /\ m_taskEmit = Nothing
    /\ m_taskWp = [v \in Vehicle |-> Nothing]
    /\ completed = <<>>
=============================================================================
