----------------------------- MODULE TaskManager -----------------------------
(***************************************************************************)
(* TaskManagerService: turns tasks into services.  It asks for a service   *)
(* when a Task comes and has it killed when the task comes again or is     *)
(* removed.  What it keeps of entities, zones and missions is only copied  *)
(* into its messages; of the areas, lines and points of interest a task    *)
(* may refuse to be without one, all three stand under PointOfInterest.    *)
(***************************************************************************)
EXTENDS NetworkClients

CONSTANTS Located     \* the tasks that refer to a point of interest

VARIABLES serviceOf,  \* m_TaskIdVsServiceId
          isLocated   \* whether the point of interest is known

taskManager == <<serviceOf, isLocated>>

NoService == 0        \* a task that is not in the map
TaskManagerInit == serviceOf = [t \in Task |-> NoService] /\ isLocated = FALSE

KillOf(t) == IF serviceOf[t] # NoService THEN <<Kill(serviceOf[t])>> ELSE <<>>
IsGoodTask(t) == t \in Located => isLocated

(***************************************************************************)
(* A task that is known is killed before its successor is created, also if *)
(* there will be none because it refers to a point that is not known.      *)
(***************************************************************************)
Create(id, t) == [type |-> "CreateNewService", id |-> id, task |-> t]
Replaced(t, kill, count) ==
    /\ nextId' = nextId + count
    /\ \/ /\ IsGoodTask(t)
          /\ serviceOf' = [serviceOf EXCEPT ![t] = UniqueId]
          /\ log' = Append(log \o kill, Create(UniqueId, t))
       \/ /\ ~IsGoodTask(t)
          /\ serviceOf' = [serviceOf EXCEPT ![t] = NoService]
          /\ log' = log \o kill
    /\ UNCHANGED isLocated
HandleTaskKept(t) == Replaced(t, <<>>, 1)           \* fault: the earlier service stays
HandleTaskUncounted(t) == Replaced(t, KillOf(t), 0) \* fault: an identifier twice
HandleTask(t) == Replaced(t, KillOf(t), 1)

(***************************************************************************)
(* One task of a RemoveTasks; its list is a loop over them.                *)
(***************************************************************************)
HandleRemoveTasksKept(t) ==   \* fault: the killed service stays on record
    /\ log' = log \o KillOf(t)
    /\ UNCHANGED <<nextId, serviceOf, isLocated>>
HandleRemoveTasks(t) ==
    /\ serviceOf' = [serviceOf EXCEPT ![t] = NoService]
    /\ log' = log \o KillOf(t)
    /\ UNCHANGED <<nextId, isLocated>>

HandlePointOfInterest ==
    /\ isLocated' = TRUE
    /\ UNCHANGED <<log, nextId, serviceOf>>

(***************************************************************************)
(* processReceivedLmcpMessage on the thread of client c.                   *)
(***************************************************************************)
TaskManagerStep(c) ==
    /\ clients[c].role = "TaskManager" /\ clients[c].phase = "running"
    /\ \E i \in Waiting(c) :
          /\ IsNext(c, i) /\ ~Kills(c, log[i])
          /\ clients' = HasRead(clients, c, i)
          /\ \/ log[i].type = "Task" /\ HandleTask(log[i].task)
             \/ log[i].type = "RemoveTasks" /\ HandleRemoveTasks(log[i].task)
             \/ log[i].type = "PointOfInterest" /\ HandlePointOfInterest
=============================================================================
