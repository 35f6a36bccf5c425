--------------------------- MODULE ServiceManager ---------------------------
(***************************************************************************)
(* ServiceManager, its own client and the main thread: UxAS_Main makes the *)
(* services and bridges of the configuration and calls runUntil, which     *)
(* clears away what has finished and decides when the process ends.  The   *)
(* thread of the manager makes services when it is asked to, and has all   *)
(* of them killed.                                                         *)
(***************************************************************************)
EXTENDS NetworkClients

CONSTANTS Configuration,  \* the configurations the process may be given
          Unserviceable   \* the tasks whose service fails to configure

\* Services are configured by name, and no task is one.
ASSUME ConfigurationAssumption ==
    /\ \A k \in Configuration : /\ k.services \in Seq(STRING)
                                /\ \A i \in DOMAIN k.services : k.services[i] \notin Task
    /\ "ServiceManager" \notin Task /\ "bridge" \notin Task

VARIABLES config,     \* the services, in order, the number of bridges, and
                      \* whether the run has a duration that may be over
          services,   \* m_servicesById: the clients it holds
          bridges,    \* m_bridgesByNetworkId of the bridge manager
          main,       \* where the main thread is
          requested,  \* m_isServiceManagerTermination
          expired     \* whether the duration of the run is over

manager == <<config, services, bridges, main, requested, expired>>

Manager == 1   \* the client that the ServiceManager itself is
ManagerInit ==
    /\ config \in Configuration
    /\ log = <<>>
    /\ nextId = 2
    /\ clients = <<[id |-> 1, role |-> "ServiceManager", since |-> 0, read |-> 0,
                    phase |-> "starting", destroyed |-> FALSE]>>
    /\ services = {} /\ bridges = {}
    /\ main = "services"
    /\ requested = FALSE /\ expired = FALSE

(***************************************************************************)
(* ServiceManager::initialize, before the thread of the manager starts.    *)
(***************************************************************************)
MakeConfigured ==
    /\ main = "services" /\ Cardinality(services) < Len(config.services)
    /\ clients' = NewClients(clients, config.services[Cardinality(services) + 1])
    /\ nextId' = nextId + 1
    /\ services' = services \cup {Len(clients) + 1}
    /\ UNCHANGED <<log, bridges, main, requested, expired>>

StartManager ==
    /\ main = "services" /\ Cardinality(services) = Len(config.services)
    /\ clients' = [clients EXCEPT ![Manager].phase = "running"]
    /\ main' = "bridges"
    /\ UNCHANGED <<log, nextId, services, bridges, requested, expired>>

(***************************************************************************)
(* LmcpObjectNetworkBridgeManager::initialize, beside the manager's thread.*)
(***************************************************************************)
MakeBridge ==
    /\ main = "bridges" /\ Cardinality(bridges) < config.bridges
    /\ clients' = NewClients(clients, "bridge")
    /\ nextId' = nextId + 1
    /\ bridges' = bridges \cup {Len(clients) + 1}
    /\ UNCHANGED <<log, services, main, requested, expired>>

StartRunning ==
    /\ main = "bridges" /\ Cardinality(bridges) = config.bridges
    /\ main' = "running"
    /\ UNCHANGED <<net, services, bridges, requested, expired>>

(***************************************************************************)
(* removeTerminatedServices, with the bridges.                             *)
(***************************************************************************)
RemoveAll(S) == {}   \* fault: finished or not, everything is let go
Retained(S) == {c \in S : ~IsFinished(c)}
Destroy(cs, S) == [c \in DOMAIN cs |-> IF c \in S THEN [cs[c] EXCEPT !.destroyed = TRUE]
                                       ELSE cs[c]]
RemoveTerminatedServices ==
    /\ services' = Retained(services)
    /\ bridges' = Retained(bridges)
    /\ clients' = Destroy(clients, (services \ services') \cup (bridges \ bridges'))
    /\ UNCHANGED <<log, nextId, requested, expired>>

(***************************************************************************)
(* terminateAllServices: bridges first, each in the order of a hash table, *)
(* and what has finished is left out.                                      *)
(***************************************************************************)
InSomeOrder(S) ==
    CHOOSE order \in [1 .. Cardinality(S) -> S] : \A c \in S : \E k \in DOMAIN order : order[k] = c
KillsFor(S) ==
    LET order == InSomeOrder(S)
    IN  [k \in DOMAIN order |-> Kill(clients[order[k]].id)]
TerminateServicesOnly == KillsFor(Retained(services))   \* fault: bridges forgotten
TerminateAllServices == KillsFor(Retained(bridges)) \o KillsFor(Retained(services))

(***************************************************************************)
(* runUntil: clears away what has finished, all at once under the mutex,   *)
(* until nothing is left, if that was requested, or the duration is over.  *)
(* In the latter case it has all services terminated and goes on clearing  *)
(* away until nothing is left, but not for ever.                           *)
(***************************************************************************)
NothingRuns == Retained(services) = {} /\ Retained(bridges) = {}
IsDone == NothingRuns /\ (main = "running" => requested)
ClearAwayAtEnd ==   \* fault: only when nothing runs any more
    /\ main \in {"running", "waiting"} /\ IsDone
    /\ RemoveTerminatedServices
    /\ main' = "closing"
ClearAway ==
    /\ main \in {"running", "waiting"}
    /\ IsDone \/ \E c \in services \cup bridges : IsFinished(c)
    /\ RemoveTerminatedServices
    /\ main' = IF IsDone THEN "closing" ELSE main

Expire ==
    /\ config.expires /\ main = "running"
    /\ expired' = TRUE
    /\ main' = IF requested THEN "closing" ELSE "waiting"
    /\ log' = IF requested THEN log ELSE log \o TerminateAllServices
    /\ UNCHANGED <<nextId, clients, services, bridges, requested>>

StopWaiting ==
    /\ main = "waiting"
    /\ main' = "closing"
    /\ UNCHANGED <<net, services, bridges, requested, expired>>

(***************************************************************************)
(* The manager's thread is told to end, and waited for, but not for ever;  *)
(* then the manager is destroyed with the services that it still holds.    *)
(***************************************************************************)
ManagerStops ==
    /\ main = "closing" /\ clients[Manager].phase = "running"
    /\ clients' = [clients EXCEPT ![Manager].phase = "terminating"]
    /\ UNCHANGED <<log, nextId, services, bridges, main, requested, expired>>

End ==
    /\ main = "closing"
    /\ main' = "ended"
    /\ clients' = Destroy(clients, services \cup {Manager})
    /\ services' = {}
    /\ UNCHANGED <<log, nextId, bridges, requested, expired>>

(***************************************************************************)
(* The message that the thread was given before it was told to end is its  *)
(* last.                                                                   *)
(***************************************************************************)
ManagerRead(i) ==
    [HasRead(clients, Manager, i) EXCEPT
        ![Manager].phase = IF main = "closing" THEN "terminating" ELSE @]

(***************************************************************************)
(* processReceivedLmcpMessage.  A service that cannot be configured leaves *)
(* nothing but a gap in the identifiers.  emplace does not replace: with   *)
(* an identifier that is taken, the new object is destroyed at once, while *)
(* its thread runs.                                                        *)
(***************************************************************************)
IsTaken(id) == \E c \in services : clients[c].id = id
HandleCreateNewService(i) ==
    LET c == Len(clients) + 1
        made == Append(ManagerRead(i), ClientWith(log[i].id, log[i].task)) IN
    /\ nextId' = nextId + 1
    /\ \/ /\ log[i].task \in Unserviceable
          /\ clients' = ManagerRead(i)
          /\ UNCHANGED services
       \/ /\ log[i].task \notin Unserviceable
          /\ clients' = IF IsTaken(log[i].id) THEN Destroy(made, {c}) ELSE made
          /\ services' = IF IsTaken(log[i].id) THEN services ELSE services \cup {c}
    /\ UNCHANGED <<log, bridges, main, requested, expired>>

HandleKillAll(i) ==
    /\ requested' = TRUE
    /\ log' = log \o TerminateAllServices
    /\ clients' = [HasRead(clients, Manager, i) EXCEPT ![Manager].phase = "terminating"]
    /\ UNCHANGED <<nextId, services, bridges, main, expired>>

ManagerStep ==
    /\ clients[Manager].phase = "running"
    /\ \E i \in Waiting(Manager) :
          /\ IsNext(Manager, i) /\ ~Kills(Manager, log[i])
          /\ \/ log[i].type = "CreateNewService" /\ HandleCreateNewService(i)
             \/ log[i] = Kill(-1) /\ HandleKillAll(i)

MainStep == \/ MakeConfigured \/ StartManager \/ MakeBridge \/ StartRunning
            \/ ClearAway \/ StopWaiting \/ End
=============================================================================
