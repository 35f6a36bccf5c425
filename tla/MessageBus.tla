----------------------------- MODULE MessageBus -----------------------------
(***************************************************************************)
(* The message bus of UxAS.  Every service pushes its messages to the      *)
(* LmcpObjectNetworkServer, a single thread that publishes what it pulls   *)
(* in the order in which it pulled it.  So all services see the messages   *)
(* they subscribe to in one common order, each at its own pace: the bus is *)
(* the log of what was published and, for each service, the place in the   *)
(* log up to which it has read.                                            *)
(*                                                                         *)
(* A service handles one message at a time, on one thread, and what the    *)
(* handler sends reaches the log after everything it has read.  A message  *)
(* is a record whose type is the name of its LMCP type; one that is cast   *)
(* to a group of services has the group in its field to.                   *)
(***************************************************************************)
EXTENDS Naturals, Sequences

CONSTANTS Service,       \* the services on the bus
          Subscription,  \* the types and groups each one subscribes to
          Request,       \* the UniqueAutomationRequests
          Vehicle, Task, \* what they list
          TasksOf        \* TaskList of each request

VARIABLES log,   \* the messages published, in order
          read   \* how far each service has read

bus == <<log, read>>

BusInit == log = <<>> /\ read = [s \in Service |-> 0]

(***************************************************************************)
(* The message a service is given next: the first it subscribes to among   *)
(* those it has not read.                                                  *)
(***************************************************************************)
Address(m) == IF "to" \in DOMAIN m THEN m.to ELSE m.type
Wants(s, i) == Address(log[i]) \in Subscription[s]
Unread(s) == {i \in read[s] + 1 .. Len(log) : Wants(s, i)}
IsNext(s, i) == read[s] < i /\ Wants(s, i) /\ \A j \in read[s] + 1 .. i - 1 : ~Wants(s, j)

(***************************************************************************)
(* Service s has handled message i and sent the messages of out.           *)
(***************************************************************************)
Handled(s, i, out) ==
    /\ read' = [read EXCEPT ![s] = i]
    /\ log' = log \o out

(* f with the value e for k, in place of the one it may have had.          *)
WithEntry(f, k, e) == [x \in {k} \cup DOMAIN f |-> IF x = k THEN e ELSE f[x]]

Published(type) == {i \in DOMAIN log : log[i].type = type}
=============================================================================
