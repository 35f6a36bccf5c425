-------------------------- MODULE ServiceLifeCycle --------------------------
(***************************************************************************)
(* Services from the task that asks for them to the end of the process:    *)
(* the TaskManagerService, the ServiceManager with the main thread, and    *)
(* their clients, on one bus.  Tasks and the request to end come from      *)
(* outside, through the bridges or services of the configuration.          *)
(***************************************************************************)
EXTENDS TaskManager, ServiceManager

VARIABLE sent   \* how many messages have come from outside; the bound
                \* config.messages is part of the configuration

vars == <<net, taskManager, manager, sent>>

Init == ManagerInit /\ TaskManagerInit /\ sent = 0

Outside ==
    {[type |-> "Task", task |-> t] : t \in Task}
    \cup {[type |-> "RemoveTasks", task |-> t] : t \in Task}
    \cup {[type |-> "PointOfInterest"], Kill(-1), Kill(clients[Manager].id)}
IsNew(m) == m.type = "Task" \/ \A i \in DOMAIN log : log[i] # m
IsUseful(m) ==
    /\ \E c \in Existing : clients[c].role = "TaskManager"
    /\ m.type = "RemoveTasks"
          => \E i \in DOMAIN log : log[i] = [type |-> "Task", task |-> m.task]
Send(m) ==
    /\ main # "ended" /\ sent < config.messages
    /\ IsNew(m) /\ IsUseful(m)
    /\ sent' = sent + 1
    /\ log' = Append(log, m)
    /\ UNCHANGED <<nextId, clients, taskManager, manager>>

Main == main # "ended" /\ MainStep /\ UNCHANGED <<taskManager, config, sent>>
Duration == Expire /\ UNCHANGED <<taskManager, config, sent>>
ManagerThread ==
    /\ main # "ended"
    /\ \/ ManagerStep \/ ManagerStops
    /\ UNCHANGED <<taskManager, config, sent>>
Thread(c) ==
    /\ main # "ended" /\ c \in Existing
    /\ \/ ClientStep(c) /\ UNCHANGED taskManager
       \/ TaskManagerStep(c)
    /\ UNCHANGED <<manager, sent>>

Next == \/ \E m \in Outside : Send(m)
        \/ Duration
        \/ Main \/ ManagerThread
        \/ \E c \in Client : Thread(c)

Spec == Init /\ [][Next]_vars

(***************************************************************************)
(* The process does not stand still while one of its threads can go on;    *)
(* terminate() succeeds in the end.  No duration is over and no message    *)
(* comes of necessity.                                                     *)
(***************************************************************************)
Work == Main \/ ManagerThread \/ \E c \in Client : Thread(c)
Fairness == WF_vars(Work)
FairSpec == Spec /\ Fairness

-----------------------------------------------------------------------------
(***************************************************************************)
(* The process has started quietly: everything configured was there before *)
(* the first service was asked for.                                        *)
(***************************************************************************)
Positions(type) == {i \in DOMAIN log : log[i].type = type}
QuietStart ==
    \A i \in Positions("CreateNewService") : \A c \in NotTasks : clients[c].since < i

(***************************************************************************)
(* "Unique service ID" (LmcpObjectNetworkClientBase.h:220): no two objects *)
(* with a thread have the same one, so that nobody is killed in place of   *)
(* another.  It holds if the process has started quietly: otherwise a      *)
(* configured service or bridge may take, in its constructor, the one that *)
(* was just given away.                                                    *)
(***************************************************************************)
HasThread(c) == clients[c].phase \in {"running", "terminating"}
DistinctIds ==
    QuietStart => \A c, d \in Existing :
        c # d /\ HasThread(c) /\ HasThread(d) => clients[c].id # clients[d].id

(***************************************************************************)
(* A service that was killed before it was there never hears of it.        *)
(***************************************************************************)
Overtaken(id) ==
    \E i \in Positions("KillService") :
        /\ log[i].id = id
        /\ \A c \in Existing : clients[c].id = id => clients[c].since >= i

(***************************************************************************)
(* Each task has the service that the task manager knows of and no other:  *)
(* a running service of a task is the one on record, or its KillService is *)
(* on its way, or came too early; a service on record is running, or       *)
(* about to be, or was killed with all others, or cannot be.               *)
(***************************************************************************)
IsKilled(c) == \E i \in clients[c].read + 1 .. Len(log) : Kills(c, log[i])
ServiceIsOnRecord ==
    QuietStart => \A c \in Existing \ NotTasks :
        clients[c].phase = "running"
            => \/ serviceOf[clients[c].role] = clients[c].id
               \/ IsKilled(c) \/ Overtaken(clients[c].id)

IsEnding == clients[Manager].phase # "running" \/ main \in {"waiting", "closing", "ended"}
RecordIsServed ==
    QuietStart /\ ~IsEnding => \A t \in Task :
        serviceOf[t] # NoService /\ t \notin Unserviceable
            => \/ \E c \in Existing : clients[c].id = serviceOf[t]
                                      /\ clients[c].phase = "running" /\ ~IsKilled(c)
               \/ \E i \in Waiting(Manager) : log[i] = Create(serviceOf[t], t)

(***************************************************************************)
(* CoreServices.md:210: the Task Manager will "correctly clean up and      *)
(* destroy the service that was built to handle the original Task".        *)
(***************************************************************************)
OnlyOnRecord ==
    QuietStart => \A c \in Existing \ NotTasks :
        clients[c].phase = "running"
            => serviceOf[clients[c].role] = clients[c].id \/ IsKilled(c)

(***************************************************************************)
(* While the process runs, an object is only destroyed when its thread no  *)
(* longer works on messages, and all that run are held by a manager.       *)
(***************************************************************************)
DestroyedWhenFinished ==
    QuietStart /\ main # "ended" =>
        \A c \in Existing \ {Manager} :
            IF clients[c].destroyed THEN IsFinished(c) ELSE c \in services \cup bridges

(***************************************************************************)
(* The manager's request to end is carried out: the process ends, unless a *)
(* bridge was made after all were told to end.                             *)
(***************************************************************************)
BridgeTooLate ==
    \E i \in DOMAIN log, c \in Existing :
        log[i] = Kill(-1) /\ clients[c].role = "bridge" /\ clients[c].since >= i
RequestedEndIsReached == requested ~> (main = "ended" \/ BridgeTooLate)

(***************************************************************************)
(* Clients that were told to end are destroyed in the end: there always    *)
(* comes a time when all of them are.                                      *)
(***************************************************************************)
KilledIsDestroyed ==
    []<>(main = "ended" \/ \A c \in Existing \ {Manager} :
            clients[c].destroyed \/ (clients[c].phase = "running" /\ ~IsKilled(c)))
=============================================================================
