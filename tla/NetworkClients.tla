--------------------------- MODULE NetworkClients ---------------------------
(***************************************************************************)
(* The life of LmcpObjectNetworkClientBase: services, task services and    *)
(* bridges are objects with an identifier and a thread of their own, which *)
(* handles the messages published since the object subscribed, until a     *)
(* KillService with its identifier ends its loop.                          *)
(*                                                                         *)
(* A client is its place in the sequence clients, in the order in which    *)
(* the objects were made: identifiers may repeat, objects do not.          *)
(***************************************************************************)
EXTENDS Integers, Sequences, FiniteSets

CONSTANTS Task,        \* the tasks; a task service has its task as role
          MaxClients   \* bound: how many objects are made

VARIABLES log,       \* the messages published, in order
          nextId,    \* s_nextNetworkClientId
          clients    \* the objects made so far

net == <<log, nextId, clients>>

Client == 1 .. MaxClients
Existing == DOMAIN clients
NotTasks == {c \in Existing : clients[c].role \notin Task}

(***************************************************************************)
(* The constructor takes an identifier; CreateNewService may bring another *)
(* one, which the object then gets instead.  It is subscribed before its   *)
(* thread starts, to what is published from then on.                       *)
(***************************************************************************)
ClientWith(id, role) ==
    [id |-> id, role |-> role, since |-> Len(log), read |-> Len(log),
     phase |-> "running", destroyed |-> FALSE]
NewClients(cs, role) == Append(cs, ClientWith(nextId, role))

(***************************************************************************)
(* getUniqueNetworkClientId counts first and returns then, the constructor *)
(* the other way round.                                                    *)
(***************************************************************************)
UniqueId == nextId + 1

(***************************************************************************)
(* What the thread of client c is given next: the first message it has not *)
(* read that is for it.  The base class looks at KillService itself.       *)
(***************************************************************************)
Kill(id) == [type |-> "KillService", id |-> id]
Kills(c, m) == m.type = "KillService" /\ m.id = clients[c].id
Concerns(c, m) ==
    \/ Kills(c, m)
    \/ clients[c].role = "TaskManager" /\ m.type \in {"Task", "RemoveTasks", "PointOfInterest"}
    \/ clients[c].role = "ServiceManager" /\ (m.type = "CreateNewService" \/ m = Kill(-1))
Waiting(c) == {i \in clients[c].read + 1 .. Len(log) : Concerns(c, log[i])}
IsNext(c, i) == i \in Waiting(c) /\ \A j \in Waiting(c) : i <= j
HasRead(cs, c, i) == [cs EXCEPT ![c].read = i]

(***************************************************************************)
(* executeNetworkClient: the loop ends with the client's own KillService;  *)
(* then terminate() is tried until it succeeds, for as long as it takes;   *)
(* then the object is reported as finished.                                *)
(***************************************************************************)
TakeKill(c) ==
    /\ clients[c].phase = "running"
    /\ \E i \in Waiting(c) :
          /\ IsNext(c, i) /\ Kills(c, log[i])
          /\ clients' = [HasRead(clients, c, i) EXCEPT ![c].phase = "terminating"]
    /\ UNCHANGED <<log, nextId>>

Finish(c) ==
    /\ clients[c].phase = "terminating"
    /\ clients' = [clients EXCEPT ![c].phase = "finished"]
    /\ UNCHANGED <<log, nextId>>

ClientStep(c) == TakeKill(c) \/ Finish(c)

(***************************************************************************)
(* getIsTerminationFinished.                                               *)
(***************************************************************************)
IsFinished(c) == clients[c].phase = "finished"
=============================================================================
