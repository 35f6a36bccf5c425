------------------------ MODULE ServiceLifeCycleProofs ------------------------
(***************************************************************************)
(* Proofs about the life cycle of services, for any number of tasks, any   *)
(* configuration and any messages from outside: identifiers are unique,    *)
(* the services that run are those on record, those on record run, and no  *)
(* object is destroyed while its thread works.                             *)
(***************************************************************************)
EXTENDS ServiceLifeCycle, SequenceTheorems, FiniteSetTheorems, TLAPS

Role == Task \cup STRING \cup {"ServiceManager", "bridge"}   \* strings, which no prover knows
Message == [type : {"Task", "RemoveTasks"}, task : Task]
           \cup [type : {"PointOfInterest"}]
           \cup [type : {"KillService"}, id : Int]
           \cup [type : {"CreateNewService"}, id : Nat, task : Task]
Object == [id : Nat, role : Role, since : Nat, read : Nat, destroyed : BOOLEAN,
           phase : {"starting", "running", "terminating", "finished"}]

(* Type invariant. *)
LifeCycleTypeOK ==
    /\ log \in Seq(Message)
    /\ nextId \in Nat
    /\ clients \in Seq(Object)
    /\ serviceOf \in [Task -> Nat]
    /\ isLocated \in BOOLEAN
    /\ config \in Configuration
    /\ services \subseteq 1 .. Len(clients) /\ Manager \notin services
    /\ bridges \subseteq 1 .. Len(clients) /\ Manager \notin bridges
    /\ main \in {"services", "bridges", "running", "waiting", "closing", "ended"}
    /\ requested \in BOOLEAN /\ expired \in BOOLEAN
    /\ sent \in Nat

(***************************************************************************)
(* The ServiceManager is the first object, and nothing else is ever        *)
(* starting; a client reads on from where it subscribed.                   *)
(***************************************************************************)
ManagerFirst ==
    /\ 1 \in Existing /\ clients[1].role = "ServiceManager" /\ clients[1].id = 1
    /\ clients[1].since = 0 /\ nextId >= 2
    /\ main = "services" => clients[1].phase = "starting"
    /\ clients[1].phase = "starting" => clients[1].read = 0
    /\ \A c \in Existing : clients[c].phase = "starting" => c = 1
ReadSoFar ==
    \A c \in Existing : clients[c].since <= clients[c].read /\ clients[c].read <= Len(log)

(***************************************************************************)
(* Identifiers given out for services of tasks only grow, and the object   *)
(* made for one is made when the manager reads of it.  The other objects   *)
(* have theirs from the constructor, and, if the process started quietly,  *)
(* before any was given out.                                               *)
(***************************************************************************)
CreateAt == {i \in 1 .. Len(log) : log[i].type = "CreateNewService"}
CreatesInOrder ==
    \A i \in CreateAt : /\ 2 <= log[i].id /\ log[i].id <= nextId
                        /\ \A j \in CreateAt : i < j => log[i].id < log[j].id
MadeFor(c, i) ==
    i <= clients[1].read /\ log[i].id = clients[c].id /\ log[i].task = clients[c].role
TaskClientsMade ==
    \A c \in Existing \ NotTasks :
        /\ \E i \in CreateAt : MadeFor(c, i)
        /\ \A d \in Existing \ NotTasks : c # d => clients[c].id # clients[d].id
OthersCounted ==
    \A c \in NotTasks : /\ clients[c].id < nextId
                        /\ \A d \in NotTasks : c # d => clients[c].id # clients[d].id
OthersBefore ==
    QuietStart => \A c \in NotTasks : \A i \in CreateAt : clients[c].id < log[i].id

(***************************************************************************)
(* A service that was asked for is on record or was killed; a client that  *)
(* runs has read no message that kills it; one that does not was killed.   *)
(***************************************************************************)
KillAt == {i \in 1 .. Len(log) : log[i].type = "KillService"}
IsKilledId(id) == \E k \in KillAt : log[k].id = id
OnRecordOrKilled ==
    \A i \in CreateAt : serviceOf[log[i].task] = log[i].id \/ IsKilledId(log[i].id)
RunsUnkilled ==
    \A c \in Existing : clients[c].phase = "running" =>
        \A k \in KillAt : clients[c].since < k /\ k <= clients[c].read => log[k].id # clients[c].id
StoppedKilled ==
    \A c \in Existing \ {1} : clients[c].phase # "running" => IsKilledId(clients[c].id)

(***************************************************************************)
(* What is on record was asked for.  Until the end is begun, nobody kills  *)
(* what is on record, and the manager has made what it read of.            *)
(***************************************************************************)
EndBegun == clients[1].phase \in {"terminating", "finished"}
            \/ main \in {"waiting", "closing", "ended"}
RecordAskedFor ==
    \A t \in Task : serviceOf[t] # NoService =>
        \E i \in CreateAt : log[i].id = serviceOf[t] /\ log[i].task = t
RecordUnkilled ==
    ~EndBegun => \A k \in KillAt : \A t \in Task :
        log[k].id <= nextId /\ (serviceOf[t] = log[k].id => log[k].id <= 1)
ReadIsMade ==
    ~EndBegun => \A i \in CreateAt : i <= clients[1].read =>
        log[i].task \in Unserviceable \/ \E c \in Existing \ NotTasks : MadeFor(c, i)

IInv == /\ LifeCycleTypeOK /\ ManagerFirst /\ ReadSoFar
        /\ CreatesInOrder /\ TaskClientsMade /\ OthersCounted /\ OthersBefore
        /\ OnRecordOrKilled /\ RunsUnkilled /\ StoppedKilled
        /\ RecordAskedFor /\ RecordUnkilled /\ ReadIsMade
        /\ DestroyedWhenFinished

-----------------------------------------------------------------------------
(***************************************************************************)
(* Sequences of messages and of objects.                                   *)
(***************************************************************************)

LEMMA MessageKinds ==
    ASSUME NEW m \in Message
    PROVE  /\ m.type \in {"Task", "RemoveTasks"} => m.task \in Task
           /\ m.type = "KillService" => m.id \in Int
           /\ m.type = "CreateNewService" => m.id \in Nat /\ m.task \in Task
           /\ m.type \in {"Task", "RemoveTasks", "PointOfInterest", "KillService", "CreateNewService"}
BY DEF Message

LEMMA MessagesMade ==
    /\ \A id \in Int : Kill(id) \in Message /\ Kill(id).type = "KillService" /\ Kill(id).id = id
    /\ \A id \in Nat : \A t \in Task :
          /\ Create(id, t) \in Message /\ Create(id, t).type = "CreateNewService"
          /\ Create(id, t).id = id /\ Create(id, t).task = t
BY DEF Kill, Create, Message

LEMMA ObjectMade ==
    ASSUME LifeCycleTypeOK, NEW id \in Nat, NEW role \in Role
    PROVE  /\ ClientWith(id, role) \in Object
           /\ ClientWith(id, role) = [id |-> id, role |-> role, since |-> Len(log), read |-> Len(log),
                                      phase |-> "running", destroyed |-> FALSE]
<1>1. Len(log) \in Nat
    BY LenProperties DEF LifeCycleTypeOK
<1> QED BY <1>1 DEF ClientWith, Object

LEMMA Destroyed ==
    ASSUME NEW cs \in Seq(Object), NEW S
    PROVE  /\ Destroy(cs, S) \in Seq(Object)
           /\ Len(Destroy(cs, S)) = Len(cs)
           /\ \A c \in 1 .. Len(cs) :
                 Destroy(cs, S)[c] = [cs[c] EXCEPT !.destroyed = (c \in S \/ cs[c].destroyed)]
<1>1. Len(cs) \in Nat /\ DOMAIN cs = 1 .. Len(cs) /\ \A c \in 1 .. Len(cs) : cs[c] \in Object
    BY LenProperties, ElementOfSeq
<1>2. \A c \in 1 .. Len(cs) :
          /\ Destroy(cs, S)[c] = IF c \in S THEN [cs[c] EXCEPT !.destroyed = TRUE] ELSE cs[c]
          /\ Destroy(cs, S)[c] \in Object
    BY <1>1 DEF Destroy, Object
<1>3. DOMAIN Destroy(cs, S) = 1 .. Len(cs)
    BY <1>1 DEF Destroy
<1>4. Destroy(cs, S) \in [1 .. Len(cs) -> Object]
    BY <1>1, <1>2 DEF Destroy
<1>5. Destroy(cs, S) \in Seq(Object) /\ Len(Destroy(cs, S)) = Len(cs)
    BY <1>1, <1>3, <1>4
<1>6. ASSUME NEW c \in 1 .. Len(cs)
      PROVE  Destroy(cs, S)[c] = [cs[c] EXCEPT !.destroyed = (c \in S \/ cs[c].destroyed)]
    BY <1>1, <1>2, <1>6 DEF Object
<1> QED BY <1>5, <1>6

LEMMA OneDestroyed ==
    ASSUME NEW cs \in Seq(Object), NEW n \in 1 .. Len(cs)
    PROVE  /\ Destroy(cs, {n}) \in Seq(Object) /\ Len(Destroy(cs, {n})) = Len(cs)
           /\ Destroy(cs, {n})[n] = [cs[n] EXCEPT !.destroyed = TRUE]
           /\ \A c \in 1 .. Len(cs) : c # n => Destroy(cs, {n})[c] = cs[c]
<1>1. DOMAIN cs = 1 .. Len(cs)
    BY LenProperties
<1>2. Destroy(cs, {n}) \in Seq(Object) /\ Len(Destroy(cs, {n})) = Len(cs)
    BY Destroyed
<1> QED BY <1>1, <1>2 DEF Destroy

LEMMA Killing ==
    ASSUME LifeCycleTypeOK, NEW S \in SUBSET (1 .. Len(clients))
    PROVE  /\ KillsFor(S) \in Seq(Message)
           /\ \A k \in 1 .. Len(KillsFor(S)) : KillsFor(S)[k].type = "KillService"
<1>1. Len(clients) \in Nat /\ \A c \in 1 .. Len(clients) : clients[c] \in Object
    BY LenProperties, ElementOfSeq DEF LifeCycleTypeOK
<1>2. IsFiniteSet(S)
    <2>1. IsFiniteSet(1 .. Len(clients))
        BY <1>1, FS_Interval
    <2> QED BY <2>1, FS_Subset
<1> DEFINE n == Cardinality(S)
<1>3. n \in Nat /\ ExistsBijection(1 .. n, S)
    BY <1>2, FS_CardinalityType
<1>4. \E order \in [1 .. n -> S] : \A c \in S : \E k \in DOMAIN order : order[k] = c
    BY <1>3 DEF ExistsBijection, Bijection, Surjection
<1>5. InSomeOrder(S) \in [1 .. n -> S]
    BY <1>4 DEF InSomeOrder
<1>6. \A k \in 1 .. n : clients[InSomeOrder(S)[k]].id \in Int
    <2> SUFFICES ASSUME NEW k \in 1 .. n PROVE clients[InSomeOrder(S)[k]].id \in Int
        OBVIOUS
    <2>1. InSomeOrder(S)[k] \in 1 .. Len(clients)
        BY <1>5
    <2> QED BY <1>1, <2>1 DEF Object
<1>7. KillsFor(S) = [k \in 1 .. n |-> Kill(clients[InSomeOrder(S)[k]].id)]
    BY <1>5 DEF KillsFor
<1>8. \A k \in 1 .. n : KillsFor(S)[k] \in Message /\ KillsFor(S)[k].type = "KillService"
    BY <1>6, <1>7, MessagesMade
<1> HIDE DEF n
<1>9. KillsFor(S) \in Seq(Message) /\ Len(KillsFor(S)) = n
    <2>1. KillsFor(S) \in [1 .. n -> Message]
        BY <1>7, <1>8
    <2> QED BY <1>3, <2>1
<1> QED BY <1>8, <1>9

LEMMA KillingAll ==
    ASSUME LifeCycleTypeOK
    PROVE  /\ TerminateAllServices \in Seq(Message)
           /\ \A k \in 1 .. Len(TerminateAllServices) : TerminateAllServices[k].type = "KillService"
<1>1. Retained(services) \in SUBSET (1 .. Len(clients)) /\ Retained(bridges) \in SUBSET (1 .. Len(clients))
    BY DEF Retained, LifeCycleTypeOK
<1> DEFINE b == KillsFor(Retained(bridges))
           s == KillsFor(Retained(services))
<1>2. /\ b \in Seq(Message) /\ \A k \in 1 .. Len(b) : b[k].type = "KillService"
      /\ s \in Seq(Message) /\ \A k \in 1 .. Len(s) : s[k].type = "KillService"
    BY <1>1, Killing
<1>3. TerminateAllServices = b \o s
    BY DEF TerminateAllServices
<1> HIDE DEF b, s
<1>4. Len(b) \in Nat /\ Len(s) \in Nat
    BY <1>2, LenProperties
<1> QED BY <1>2, <1>3, <1>4, ConcatProperties

-----------------------------------------------------------------------------
(***************************************************************************)
(* What a step does to an object, to the log and to the record, ...        *)
(***************************************************************************)
ObjectStep(c, o) ==
    /\ o.id = clients[c].id /\ o.role = clients[c].role /\ o.since = clients[c].since
    /\ clients[c].read <= o.read /\ o.read <= Len(log)
    /\ o.phase = "starting" => clients[c].phase = "starting" /\ o.read = clients[c].read
    /\ o.phase = "running" =>
          /\ \/ clients[c].phase = "running"
             \/ clients[c].phase = "starting" /\ o.read = clients[c].read
          /\ \A k \in KillAt : clients[c].read < k /\ k <= o.read => log[k].id # clients[c].id
    /\ c # 1 /\ o.phase # "running" => clients[c].phase # "running" \/ IsKilledId(clients[c].id)
    /\ clients[c].phase = "finished" => o.phase = "finished"
    /\ clients[c].destroyed => o.destroyed
    /\ c # 1 /\ main' # "ended" =>
          /\ o.destroyed => clients[c].destroyed \/ o.phase = "finished"
          /\ c \in services \cup bridges => o.destroyed \/ c \in services' \cup bridges'
ObjectsStep == \A c \in Existing : c \in DOMAIN clients' /\ ObjectStep(c, clients'[c])

LogStep == Len(log) <= Len(log') /\ \A i \in 1 .. Len(log) : log'[i] = log[i]
KillsStep ==
    EndBegun' \/ \A i \in 1 .. Len(log') : i > Len(log) /\ log'[i].type = "KillService" =>
                    \/ log'[i].id <= 1
                    \/ \E t \in Task : serviceOf[t] = log'[i].id /\ serviceOf'[t] # serviceOf[t]
RecordStep ==
    \A t \in Task : \/ serviceOf'[t] = serviceOf[t]
                    \/ serviceOf[t] = NoService
                    \/ \E k \in KillAt' : log'[k].id = serviceOf[t]
ManagerStepsOn ==
    EndBegun' \/ \A i \in CreateAt : clients[1].read < i /\ i <= clients'[1].read =>
                    \/ log[i].task \in Unserviceable
                    \/ Len(clients') \notin Existing /\ MadeFor(Len(clients), i)'
AnyStep == /\ ObjectsStep /\ LogStep /\ KillsStep /\ RecordStep /\ ManagerStepsOn
           /\ EndBegun => EndBegun'
           /\ main = "ended" => main' = "ended"

(***************************************************************************)
(* ... and the four kinds of steps: nothing is asked for or made, a task   *)
(* is given a new service, an object is made by the main thread, or by the *)
(* manager.                                                                *)
(***************************************************************************)
NothingMade == Len(clients') = Len(clients)
Keeps ==
    /\ NothingMade /\ nextId <= nextId'
    /\ \A i \in 1 .. Len(log') : i > Len(log) => log'[i].type # "CreateNewService"
    /\ \A t \in Task : serviceOf'[t] \in {serviceOf[t], NoService}
Asks ==
    \E t \in Task :
        /\ NothingMade /\ nextId' = nextId + 1
        /\ serviceOf' = [serviceOf EXCEPT ![t] = nextId']
        /\ Len(log) < Len(log') /\ log'[Len(log')] = Create(nextId', t)
        /\ \A i \in 1 .. Len(log') : i > Len(log) /\ i # Len(log') => log'[i].type # "CreateNewService"
Makes(o) ==
    /\ Len(clients') = Len(clients) + 1 /\ o = clients'[Len(clients')]
    /\ nextId' = nextId + 1 /\ UNCHANGED <<log, serviceOf>>
    /\ o.since = Len(log) /\ o.read = Len(log) /\ o.phase = "running"
MakesOther ==
    \E o \in Object : Makes(o) /\ o.id = nextId /\ o.role \notin Task /\ ~o.destroyed
                      /\ Len(clients') \in services' \cup bridges'
MakesTask ==
    \E o \in Object : \E i \in CreateAt :
        /\ Makes(o) /\ o.id = log[i].id /\ o.role = log[i].task
        /\ clients[1].read < i /\ i = clients'[1].read
        /\ IsTaken(log[i].id) \/ (~o.destroyed /\ Len(clients') \in services' \cup bridges')
Kinds == LifeCycleTypeOK' /\ AnyStep /\ (Keeps \/ Asks \/ MakesOther \/ MakesTask)

-----------------------------------------------------------------------------
Before == LifeCycleTypeOK /\ ManagerFirst /\ ReadSoFar

LEMMA State ==
    ASSUME Before
    PROVE  /\ Len(clients) \in Nat /\ 1 <= Len(clients) /\ Existing = 1 .. Len(clients)
           /\ 1 \in Existing
           /\ Len(log) \in Nat /\ DOMAIN log = 1 .. Len(log)
           /\ \A i \in 1 .. Len(log) : log[i] \in Message
           /\ \A c \in Existing :
                 /\ clients[c] \in Object
                 /\ clients[c].id \in Nat /\ clients[c].since \in Nat /\ clients[c].read \in Nat
                 /\ clients[c].phase \in {"starting", "running", "terminating", "finished"}
                 /\ clients[c].destroyed \in BOOLEAN /\ clients[c].role \in Role
<1>1. Len(clients) \in Nat /\ Existing = 1 .. Len(clients) /\ \A c \in Existing : clients[c] \in Object
    BY LenProperties, ElementOfSeq DEF Before, LifeCycleTypeOK, Existing
<1>2. 1 \in Existing
    BY DEF Before, ManagerFirst
<1>3. Len(log) \in Nat /\ DOMAIN log = 1 .. Len(log) /\ \A i \in 1 .. Len(log) : log[i] \in Message
    BY LenProperties, ElementOfSeq DEF Before, LifeCycleTypeOK
<1> QED BY <1>1, <1>2, <1>3 DEF Object

\* An object that the step leaves alone.
LEMMA ObjectStays ==
    ASSUME Before, NEW c \in Existing,
           c # 1 /\ main' # "ended" /\ c \in services \cup bridges => c \in services' \cup bridges'
    PROVE  ObjectStep(c, clients[c])
<1>1. clients[c].read \in Nat
    BY State
<1>2. KillAt \in SUBSET Nat
    BY State DEF KillAt
<1> QED BY <1>1, <1>2 DEF ObjectStep, Before, ReadSoFar

\* A step of one object.
LEMMA OneSteps ==
    ASSUME Before, NEW c \in Existing, NEW o \in Object, ObjectStep(c, o),
           clients' = [clients EXCEPT ![c] = o],
           services \cup bridges \subseteq services' \cup bridges'
    PROVE  /\ clients' \in Seq(Object) /\ Len(clients') = Len(clients) /\ DOMAIN clients' = Existing
           /\ \A d \in Existing : clients'[d] = IF d = c THEN o ELSE clients[d]
           /\ ObjectsStep
<1>1. /\ clients' \in Seq(Object) /\ Len(clients') = Len(clients)
      /\ \A d \in Existing : clients'[d] = IF d = c THEN o ELSE clients[d]
    BY State, ExceptSeq DEF Before, LifeCycleTypeOK
<1>2. DOMAIN clients' = Existing
    BY DEF Existing
<1>3. ASSUME NEW d \in Existing PROVE ObjectStep(d, clients'[d])
    BY <1>1, ObjectStays
<1> QED BY <1>1, <1>2, <1>3 DEF ObjectsStep

\* Nothing is published or recorded, and the manager reads nothing.
LEMMA LogStays ==
    ASSUME Before, UNCHANGED log
    PROVE  LogStep /\ KillsStep /\ \A i \in 1 .. Len(log') : ~(i > Len(log))
BY State DEF LogStep, KillsStep

LEMMA RecordStays == ASSUME UNCHANGED serviceOf PROVE RecordStep /\ \A t \in Task : serviceOf'[t] = serviceOf[t]
BY DEF RecordStep

LEMMA ManagerStays ==
    ASSUME Before, clients'[1].read = clients[1].read
    PROVE  ManagerStepsOn
<1>1. clients[1].read \in Nat /\ CreateAt \in SUBSET Nat
    BY State DEF Before, ManagerFirst, CreateAt
<1> QED BY <1>1 DEF ManagerStepsOn

-----------------------------------------------------------------------------
(***************************************************************************)
(* Each step is of one of these kinds.  First those of the main thread.    *)
(***************************************************************************)

\* An object that the main thread makes.
LEMMA MadeByMain ==
    ASSUME Before, NEW role \in Role, role \notin Task,
           clients' = NewClients(clients, role), nextId' = nextId + 1,
           Len(clients) + 1 \in services' \cup bridges',
           services \subseteq services', services' \subseteq services \cup {Len(clients) + 1},
           bridges \subseteq bridges', bridges' \subseteq bridges \cup {Len(clients) + 1},
           UNCHANGED <<log, taskManager, config, main, requested, expired, sent>>
    PROVE  Kinds
<1> DEFINE o == ClientWith(nextId, role)
           n == Len(clients)
<1>1. n \in Nat /\ 1 <= n /\ Existing = 1 .. n /\ 1 \in Existing
    BY State
<1>2. nextId \in Nat
    BY DEF Before, LifeCycleTypeOK
<1>3. /\ o \in Object /\ o.id = nextId /\ o.role = role /\ o.since = Len(log) /\ o.read = Len(log)
      /\ o.phase = "running" /\ ~o.destroyed
    BY <1>2, ObjectMade DEF Before
<1> HIDE DEF o
<1>4. clients' = Append(clients, o)
    BY DEF NewClients, o
<1>5. /\ clients' \in Seq(Object) /\ Len(clients') = n + 1 /\ clients'[n + 1] = o
      /\ \A c \in 1 .. n : clients'[c] = clients[c]
    BY <1>3, <1>4, AppendProperties DEF Before, LifeCycleTypeOK
<1>6. DOMAIN clients' = 1 .. n + 1
    BY <1>5, LenProperties
<1>7. LifeCycleTypeOK'
    <2>1. /\ services \subseteq 1 .. n /\ 1 \notin services
          /\ bridges \subseteq 1 .. n /\ 1 \notin bridges
        BY DEF Before, LifeCycleTypeOK, Manager
    <2>2. n + 1 # 1 /\ 1 .. n \subseteq 1 .. n + 1 /\ n + 1 \in 1 .. n + 1
        BY <1>1
    <2>3. /\ services' \subseteq 1 .. n + 1 /\ 1 \notin services'
          /\ bridges' \subseteq 1 .. n + 1 /\ 1 \notin bridges'
        BY <2>1, <2>2
    <2>4. nextId' \in Nat
        BY <1>2
    <2> QED BY <1>5, <2>3, <2>4 DEF Before, LifeCycleTypeOK, taskManager, Manager
<1>8. ObjectsStep
    BY <1>1, <1>5, <1>6, ObjectStays DEF ObjectsStep
<1>9. AnyStep
    <2>1. clients'[1] = clients[1]
        BY <1>1, <1>5 DEF Existing
    <2> QED BY <1>8, <2>1, LogStays, RecordStays, ManagerStays DEF AnyStep, EndBegun, taskManager
<1>10. MakesOther
    BY <1>3, <1>5 DEF MakesOther, Makes, taskManager
<1> QED BY <1>7, <1>9, <1>10 DEF Kinds

\* A step in which nothing is published, made or recorded.
LEMMA OnlyObjects ==
    ASSUME Before, LifeCycleTypeOK', ObjectsStep, Len(clients') = Len(clients),
           clients'[1].read = clients[1].read,
           EndBegun => EndBegun', main = "ended" => main' = "ended",
           UNCHANGED <<log, nextId, taskManager>>
    PROVE  Kinds
<1>1. AnyStep
    BY LogStays, RecordStays, ManagerStays DEF AnyStep, taskManager
<1>2. Keeps
    BY LogStays, RecordStays DEF Keeps, NothingMade, taskManager, Before, LifeCycleTypeOK
<1> QED BY <1>1, <1>2 DEF Kinds

LEMMA MainMakes ==
    ASSUME Before, MakeConfigured \/ MakeBridge, UNCHANGED <<taskManager, config, sent>>
    PROVE  Kinds
<1>1. ASSUME MakeConfigured PROVE Kinds
    <2> DEFINE k == Cardinality(services) + 1
    <2>1. Cardinality(services) \in Nat
        <3>1. Len(clients) \in Nat
            BY State
        <3> IsFiniteSet(1 .. Len(clients))
            BY <3>1, FS_Interval
        <3>2. IsFiniteSet(services)
            BY FS_Subset DEF Before, LifeCycleTypeOK
        <3> QED BY <3>2, FS_CardinalityType
    <2>2. config.services \in Seq(STRING) /\ \A i \in DOMAIN config.services : config.services[i] \notin Task
        BY ConfigurationAssumption DEF Before, LifeCycleTypeOK
    <2>3. Len(config.services) \in Nat /\ DOMAIN config.services = 1 .. Len(config.services)
        BY <2>2, LenProperties
    <2>4. k \in 1 .. Len(config.services)
        <3>1. Cardinality(services) < Len(config.services)
            BY <1>1 DEF MakeConfigured
        <3> QED BY <2>1, <2>3, <3>1
    <2>5. config.services[k] \in Role /\ config.services[k] \notin Task
        BY <2>2, <2>3, <2>4, ElementOfSeq DEF Role
    <2> HIDE DEF k
    <2>6. clients' = NewClients(clients, config.services[k])
        BY <1>1 DEF MakeConfigured, k
    <2> QED BY <1>1, <2>5, <2>6, MadeByMain DEF MakeConfigured
<1>2. ASSUME MakeBridge PROVE Kinds
    <2>1. "bridge" \in Role
        BY DEF Role
    <2>3. "bridge" \notin Task
        BY ConfigurationAssumption
    <2>2. /\ clients' = NewClients(clients, "bridge") /\ nextId' = nextId + 1
          /\ bridges' = bridges \cup {Len(clients) + 1} /\ services' = services
          /\ UNCHANGED <<log, taskManager, config, main, requested, expired, sent>>
        BY <1>2 DEF MakeBridge
    <2> QED BY <2>1, <2>2, <2>3, MadeByMain
<1> QED BY <1>1, <1>2

\* The main thread goes on.
LEMMA MainGoesOn ==
    ASSUME Before, StartRunning \/ StopWaiting, UNCHANGED <<taskManager, config, sent>>
    PROVE  Kinds
<1>1. LifeCycleTypeOK'
    BY DEF Before, LifeCycleTypeOK, StartRunning, StopWaiting, net, taskManager
<1>2. ObjectsStep /\ Len(clients') = Len(clients) /\ clients'[1].read = clients[1].read
    BY ObjectStays DEF ObjectsStep, Existing, StartRunning, StopWaiting, net
<1>3. (EndBegun => EndBegun') /\ (main = "ended" => main' = "ended")
    BY DEF StartRunning, StopWaiting, net, EndBegun
<1> QED BY <1>1, <1>2, <1>3, OnlyObjects DEF StartRunning, StopWaiting, net

LEMMA ManagerStarts ==
    ASSUME Before, StartManager, UNCHANGED <<taskManager, config, sent>>
    PROVE  Kinds
<1> DEFINE o == [clients[1] EXCEPT !.phase = "running"]
<1>1. /\ 1 \in Existing /\ o \in Object
      /\ o.id = clients[1].id /\ o.role = clients[1].role /\ o.since = clients[1].since
      /\ o.read = clients[1].read /\ o.phase = "running" /\ o.destroyed = clients[1].destroyed
    BY State DEF Object
<1>2. clients[1].phase = "starting" /\ main = "services" /\ main' = "bridges"
    BY DEF Before, ManagerFirst, StartManager
<1>3. ObjectStep(1, o)
    <2>1. clients[1].read \in Nat /\ clients[1].read <= Len(log) /\ KillAt \in SUBSET Nat
        BY State DEF Before, ReadSoFar, KillAt
    <2> HIDE DEF o
    <2> QED BY <1>1, <1>2, <2>1 DEF ObjectStep
<1>4. clients' = [clients EXCEPT ![1] = o]
    BY DEF StartManager, Manager
<1>5. /\ clients' \in Seq(Object) /\ Len(clients') = Len(clients) /\ clients'[1] = o /\ ObjectsStep
    <2> HIDE DEF o
    <2> QED BY <1>1, <1>3, <1>4, OneSteps DEF StartManager
<1>6. LifeCycleTypeOK'
    BY <1>2, <1>5 DEF Before, LifeCycleTypeOK, StartManager, taskManager
<1>7. ~EndBegun /\ main # "ended"
    BY <1>2 DEF EndBegun
<1> HIDE DEF o
<1> QED BY <1>1, <1>5, <1>6, <1>7, OnlyObjects DEF StartManager

\* What has finished is let go, and everything at the end.
LEMMA SomeDestroyed ==
    ASSUME Before, NEW S, clients' = Destroy(clients, S), main # "ended",
           \/ main' = "ended"
           \/ /\ \A c \in S : clients[c].phase = "finished"
              /\ services \cup bridges \subseteq services' \cup bridges' \cup S,
           services' \subseteq services, bridges' \subseteq bridges,
           main' = main \/ main' \in {"closing", "ended"},
           UNCHANGED <<log, nextId, taskManager, config, requested, expired, sent>>
    PROVE  Kinds
<1>1. Existing = 1 .. Len(clients) /\ 1 \in Existing
    BY State
<1>2. /\ clients' \in Seq(Object) /\ Len(clients') = Len(clients)
      /\ \A c \in Existing :
            clients'[c] = [clients[c] EXCEPT !.destroyed = (c \in S \/ clients[c].destroyed)]
    BY <1>1, Destroyed DEF Before, LifeCycleTypeOK
<1>3. DOMAIN clients' = Existing
    BY <1>1, <1>2, LenProperties
<1>4. ASSUME NEW c \in Existing
      PROVE  /\ clients'[c].id = clients[c].id /\ clients'[c].role = clients[c].role
             /\ clients'[c].since = clients[c].since /\ clients'[c].read = clients[c].read
             /\ clients'[c].phase = clients[c].phase
             /\ clients'[c].destroyed = (c \in S \/ clients[c].destroyed)
    <2>1. clients[c] \in Object
        BY State
    <2>2. clients'[c] = [clients[c] EXCEPT !.destroyed = (c \in S \/ clients[c].destroyed)]
        BY <1>2
    <2> QED BY <2>1, <2>2 DEF Object
<1>5. ObjectsStep
    <2> SUFFICES ASSUME NEW c \in Existing PROVE ObjectStep(c, clients'[c])
        BY <1>3 DEF ObjectsStep
    <2>1. clients[c].read \in Nat /\ clients[c].read <= Len(log) /\ KillAt \in SUBSET Nat
        BY State DEF Before, ReadSoFar, KillAt
    <2>2. c # 1 /\ main' # "ended" =>
              /\ clients'[c].destroyed => clients[c].destroyed \/ clients'[c].phase = "finished"
              /\ c \in services \cup bridges => clients'[c].destroyed \/ c \in services' \cup bridges'
        BY <1>4
    <2>3. c # 1 /\ clients'[c].phase # "running" => clients[c].phase # "running"
        BY <1>4
    <2>4. clients[c].destroyed => clients'[c].destroyed
        BY <1>4
    <2>5. /\ clients'[c].id = clients[c].id /\ clients'[c].role = clients[c].role
          /\ clients'[c].since = clients[c].since /\ clients'[c].read = clients[c].read
          /\ clients'[c].phase = clients[c].phase
        BY <1>4
    <2> QED BY <2>1, <2>2, <2>3, <2>4, <2>5 DEF ObjectStep
<1>6. LifeCycleTypeOK'
    BY <1>2 DEF Before, LifeCycleTypeOK, taskManager
<1>7. EndBegun => EndBegun'
    BY <1>1, <1>4 DEF EndBegun
<1> QED BY <1>1, <1>2, <1>4, <1>5, <1>6, <1>7, OnlyObjects

LEMMA MainClears ==
    ASSUME Before, ClearAway \/ End, UNCHANGED <<taskManager, config, sent>>
    PROVE  Kinds
<1>1. ASSUME ClearAway PROVE Kinds
    <2> DEFINE S == (services \ services') \cup (bridges \ bridges')
    <2>1. /\ clients' = Destroy(clients, S) /\ main # "ended"
          /\ services' = Retained(services) /\ bridges' = Retained(bridges)
          /\ UNCHANGED <<log, nextId, requested, expired>>
        BY <1>1 DEF ClearAway, RemoveTerminatedServices
    <2>2. services' \subseteq services /\ bridges' \subseteq bridges
        BY <2>1 DEF Retained
    <2>3. \A c \in S : clients[c].phase = "finished"
        BY <2>1 DEF Retained, IsFinished
    <2>4. main' = main \/ main' = "closing"
        BY <1>1 DEF ClearAway
    <2>6. services \cup bridges \subseteq services' \cup bridges' \cup S
        OBVIOUS
    <2> HIDE DEF S
    <2> QED BY <2>1, <2>2, <2>3, <2>4, <2>6, SomeDestroyed
<1>2. ASSUME End PROVE Kinds
    BY <1>2, SomeDestroyed DEF End
<1> QED BY <1>1, <1>2

-----------------------------------------------------------------------------
(***************************************************************************)
(* Then those of the threads of clients.                                   *)
(***************************************************************************)

\* The thread of a client reads the next message that is for it.
LEMMA Read ==
    ASSUME Before, NEW c \in Existing, clients[c].phase = "running",
           NEW i \in Waiting(c), IsNext(c, i),
           NEW phase \in {"running", "terminating"},
           Kills(c, log[i]) \/ c = 1 => phase = "terminating" \/ ~Kills(c, log[i]),
           c # 1 /\ phase = "terminating" => Kills(c, log[i]),
           services \cup bridges \subseteq services' \cup bridges'
    PROVE  /\ [clients[c] EXCEPT !.read = i, !.phase = phase] \in Object
           /\ ObjectStep(c, [clients[c] EXCEPT !.read = i, !.phase = phase])
           /\ i \in 1 .. Len(log) /\ clients[c].read < i
<1> DEFINE o == [clients[c] EXCEPT !.read = i, !.phase = phase]
<1>1. /\ clients[c] \in Object /\ clients[c].read \in Nat /\ Len(log) \in Nat
      /\ i \in 1 .. Len(log) /\ clients[c].read < i /\ i \in Nat
    BY State DEF Waiting
<1>2. /\ o \in Object /\ o.id = clients[c].id /\ o.role = clients[c].role /\ o.since = clients[c].since
      /\ o.read = i /\ o.phase = phase /\ o.destroyed = clients[c].destroyed
    BY <1>1 DEF Object
<1>3. ASSUME phase = "running", NEW k \in KillAt, clients[c].read < k, k <= i
      PROVE  log[k].id # clients[c].id
    <2>1. k \in 1 .. Len(log) /\ log[k].type = "KillService"
        BY DEF KillAt
    <2>2. SUFFICES ASSUME log[k].id = clients[c].id PROVE FALSE
        OBVIOUS
    <2>3. Kills(c, log[k])
        BY <2>1, <2>2 DEF Kills
    <2>4. k \in Waiting(c)
        BY <1>1, <1>3, <2>1, <2>3 DEF Waiting, Concerns
    <2>5. k = i
        BY <1>1, <1>3, <2>1, <2>4 DEF IsNext
    <2> QED BY <1>3, <2>3, <2>5
<1>4. c # 1 /\ phase = "terminating" => IsKilledId(clients[c].id)
    BY <1>1 DEF IsKilledId, KillAt, Kills
<1> HIDE DEF o
<1>5. ObjectStep(c, o)
    <2>1. clients[c].read <= o.read /\ o.read <= Len(log) /\ o.phase # "starting"
        BY <1>1, <1>2
    <2>2. o.phase = "running" =>
              \A k \in KillAt : clients[c].read < k /\ k <= o.read => log[k].id # clients[c].id
        BY <1>2, <1>3
    <2>3. c # 1 /\ o.phase # "running" => IsKilledId(clients[c].id)
        BY <1>2, <1>4
    <2>4. clients[c].phase # "finished"
        OBVIOUS
    <2>5. clients[c].destroyed => o.destroyed
        BY <1>2
    <2>6. o.destroyed => clients[c].destroyed
        BY <1>2
    <2>7. c \in services \cup bridges => c \in services' \cup bridges'
        OBVIOUS
    <2> QED BY <1>2, <2>1, <2>2, <2>3, <2>4, <2>5, <2>6, <2>7 DEF ObjectStep
<1> QED BY <1>1, <1>2, <1>5 DEF o

\* TakeKill.
LEMMA ClientTakesKill ==
    ASSUME Before, NEW c \in Existing, TakeKill(c), UNCHANGED <<taskManager, manager, sent>>
    PROVE  Kinds
<1>1. PICK i \in Waiting(c) :
          /\ IsNext(c, i) /\ Kills(c, log[i])
          /\ clients' = [HasRead(clients, c, i) EXCEPT ![c].phase = "terminating"]
    BY DEF TakeKill
<1> DEFINE o == [clients[c] EXCEPT !.read = i, !.phase = "terminating"]
<1>2. clients' = [clients EXCEPT ![c] = o]
    BY <1>1 DEF HasRead, Existing
<1>3. o \in Object /\ ObjectStep(c, o) /\ o.phase = "terminating"
    <2>1. o \in Object /\ ObjectStep(c, o)
        BY <1>1, Read DEF TakeKill, manager
    <2> QED BY <2>1 DEF Object
<1> HIDE DEF o
<1>4. /\ clients' \in Seq(Object) /\ Len(clients') = Len(clients) /\ ObjectsStep
      /\ \A d \in Existing : clients'[d] = IF d = c THEN o ELSE clients[d]
    BY <1>2, <1>3, OneSteps DEF manager
<1>5. 1 \in Existing
    BY State
<1>6. EndBegun'  \/ clients'[1] = clients[1]
    BY <1>3, <1>4, <1>5 DEF EndBegun
<1>7. ManagerStepsOn
    BY <1>6, ManagerStays DEF ManagerStepsOn
<1>8. EndBegun => EndBegun'
    BY <1>6 DEF EndBegun, manager
<1>9. AnyStep
    BY <1>4, <1>7, <1>8, LogStays, RecordStays DEF AnyStep, TakeKill, taskManager, manager
<1>10. Keeps
    BY <1>4, LogStays, RecordStays DEF Keeps, NothingMade, TakeKill, taskManager, Before, LifeCycleTypeOK
<1>11. LifeCycleTypeOK'
    BY <1>4 DEF Before, LifeCycleTypeOK, TakeKill, taskManager, manager
<1> QED BY <1>9, <1>10, <1>11 DEF Kinds

\* Finish.
LEMMA ClientFinishes ==
    ASSUME Before, NEW c \in Existing, Finish(c), UNCHANGED <<taskManager, manager, sent>>,
           StoppedKilled
    PROVE  Kinds
<1> DEFINE o == [clients[c] EXCEPT !.phase = "finished"]
<1>1. /\ clients[c] \in Object /\ clients[c].read \in Nat /\ clients[c].read <= Len(log)
    BY State DEF Before, ReadSoFar
<1>2. /\ o \in Object /\ o.id = clients[c].id /\ o.role = clients[c].role /\ o.since = clients[c].since
      /\ o.read = clients[c].read /\ o.phase = "finished" /\ o.destroyed = clients[c].destroyed
    BY <1>1 DEF Object
<1>3. clients' = [clients EXCEPT ![c] = o] /\ clients[c].phase = "terminating"
    BY DEF Finish
<1> HIDE DEF o
<1>4. c # 1 => IsKilledId(clients[c].id)
    BY <1>3 DEF StoppedKilled
<1>5. ObjectStep(c, o)
    BY <1>1, <1>2, <1>4 DEF ObjectStep, manager
<1>6. /\ clients' \in Seq(Object) /\ Len(clients') = Len(clients) /\ ObjectsStep
      /\ \A d \in Existing : clients'[d] = IF d = c THEN o ELSE clients[d]
    BY <1>2, <1>3, <1>5, OneSteps DEF manager
<1>7. 1 \in Existing
    BY State
<1>8. clients'[1].read = clients[1].read
    BY <1>2, <1>6, <1>7
<1>9. EndBegun => EndBegun'
    BY <1>2, <1>6, <1>7 DEF EndBegun, manager
<1>10. LifeCycleTypeOK'
    BY <1>6 DEF Before, LifeCycleTypeOK, Finish, taskManager, manager
<1> QED BY <1>6, <1>8, <1>9, <1>10, OnlyObjects DEF Finish, manager

\* The thread of the manager is told to end.
LEMMA ManagerIsStopped ==
    ASSUME Before, ManagerStops, UNCHANGED <<taskManager, config, sent>>
    PROVE  Kinds
<1> DEFINE o == [clients[1] EXCEPT !.phase = "terminating"]
<1>1. /\ 1 \in Existing /\ clients[1] \in Object /\ clients[1].read \in Nat /\ clients[1].read <= Len(log)
    BY State DEF Before, ReadSoFar
<1>2. /\ o \in Object /\ o.id = clients[1].id /\ o.role = clients[1].role /\ o.since = clients[1].since
      /\ o.read = clients[1].read /\ o.phase = "terminating" /\ o.destroyed = clients[1].destroyed
    BY <1>1 DEF Object
<1>3. clients' = [clients EXCEPT ![1] = o] /\ clients[1].phase = "running"
    BY DEF ManagerStops, Manager
<1> HIDE DEF o
<1>4. ObjectStep(1, o)
    BY <1>1, <1>2, <1>3 DEF ObjectStep
<1>5. /\ clients' \in Seq(Object) /\ Len(clients') = Len(clients) /\ ObjectsStep
      /\ \A d \in Existing : clients'[d] = IF d = 1 THEN o ELSE clients[d]
    BY <1>1, <1>2, <1>3, <1>4, OneSteps DEF ManagerStops
<1>6. clients'[1].read = clients[1].read /\ EndBegun'
    BY <1>1, <1>2, <1>5 DEF EndBegun
<1>7. LifeCycleTypeOK'
    BY <1>5 DEF Before, LifeCycleTypeOK, ManagerStops, taskManager
<1> QED BY <1>5, <1>6, <1>7, OnlyObjects DEF ManagerStops

-----------------------------------------------------------------------------
(***************************************************************************)
(* Then those that publish.                                                *)
(***************************************************************************)
LEMMA LogGrows ==
    ASSUME Before, NEW s \in Seq(Message), log' = log \o s
    PROVE  /\ log' \in Seq(Message) /\ LogStep
           /\ Len(s) \in Nat /\ Len(log') = Len(log) + Len(s)
           /\ \A k \in 1 .. Len(s) : log'[Len(log) + k] = s[k]
           /\ \A i \in 1 .. Len(log') : i > Len(log) => i - Len(log) \in 1 .. Len(s) /\ log'[i] = s[i - Len(log)]
<1>1. log \in Seq(Message) /\ Len(log) \in Nat
    BY State DEF Before, LifeCycleTypeOK
<1>2. Len(s) \in Nat
    BY LenProperties
<1>3. /\ log' \in Seq(Message) /\ Len(log') = Len(log) + Len(s)
      /\ \A i \in 1 .. Len(log) + Len(s) : log'[i] = IF i <= Len(log) THEN log[i] ELSE s[i - Len(log)]
    BY <1>1, ConcatProperties
<1> QED BY <1>1, <1>2, <1>3 DEF LogStep

\* When the end is begun with it, a step may publish any KillService.
LEMMA KillsPublished ==
    ASSUME Before, NEW s \in Seq(Message), \A k \in 1 .. Len(s) : s[k].type = "KillService",
           log' = log \/ log' = log \o s, EndBegun', ObjectsStep, Len(clients') = Len(clients),
           LifeCycleTypeOK', main = "ended" => main' = "ended",
           UNCHANGED <<nextId, taskManager>>
    PROVE  Kinds
<1>1. /\ LogStep
      /\ \A i \in 1 .. Len(log') : i > Len(log) => log'[i].type # "CreateNewService"
    BY LogGrows, LogStays
<1>2. AnyStep
    BY <1>1, RecordStays DEF AnyStep, KillsStep, ManagerStepsOn, taskManager
<1>3. Keeps
    BY <1>1, RecordStays DEF Keeps, NothingMade, taskManager, Before, LifeCycleTypeOK
<1> QED BY <1>2, <1>3 DEF Kinds

LEMMA DurationOver ==
    ASSUME Before, Expire, UNCHANGED <<taskManager, config, sent>>
    PROVE  Kinds
<1>1. /\ TerminateAllServices \in Seq(Message)
      /\ \A k \in 1 .. Len(TerminateAllServices) : TerminateAllServices[k].type = "KillService"
    BY KillingAll DEF Before
<1>2. (log' = log \/ log' = log \o TerminateAllServices) /\ main' \in {"closing", "waiting"}
    BY DEF Expire
<1>3. log' \in Seq(Message)
    BY <1>1, <1>2, LogGrows DEF Before, LifeCycleTypeOK
<1>4. LifeCycleTypeOK'
    BY <1>2, <1>3 DEF Before, LifeCycleTypeOK, Expire, taskManager
<1>5. ObjectsStep /\ Len(clients') = Len(clients)
    BY ObjectStays DEF ObjectsStep, Existing, Expire
<1>6. EndBegun' /\ main # "ended"
    BY <1>2 DEF EndBegun, Expire
<1> QED BY <1>1, <1>2, <1>4, <1>5, <1>6, KillsPublished DEF Expire

\* What is published from outside.
LEMMA SentFromOutside ==
    ASSUME Before, NEW m \in Outside, Send(m)
    PROVE  Kinds
<1>1. m \in Message /\ m.type # "CreateNewService" /\ (m.type = "KillService" => m.id <= 1)
    <2>1. clients[1].id = 1
        BY DEF Before, ManagerFirst
    <2>2. m = Kill(-1) \/ m = Kill(1) \/ m \in [type : {"Task", "RemoveTasks"}, task : Task]
          \/ m \in [type : {"PointOfInterest"}]
        BY <2>1 DEF Outside, Manager
    <2>3. m = Kill(-1) \/ m = Kill(1) => m \in Message /\ m.type = "KillService" /\ m.id <= 1
        BY MessagesMade
    <2> QED BY <2>2, <2>3 DEF Message
<1> DEFINE s == <<m>>
<1>2. s \in Seq(Message) /\ Len(s) = 1 /\ s[1] = m
    BY <1>1
<1>3. log' = log \o s
    BY <1>1 DEF Send, Before, LifeCycleTypeOK
<1> HIDE DEF s
<1>4. log' \in Seq(Message) /\ LogStep /\ \A i \in 1 .. Len(log') : i > Len(log) => log'[i] = m
    BY <1>2, <1>3, LogGrows
<1>5. LifeCycleTypeOK'
    BY <1>4 DEF Before, LifeCycleTypeOK, Send, taskManager, manager
<1>6. ObjectsStep /\ Len(clients') = Len(clients) /\ clients'[1].read = clients[1].read
    BY ObjectStays DEF ObjectsStep, Existing, Send, manager
<1>7. KillsStep
    BY <1>1, <1>4 DEF KillsStep
<1>8. (EndBegun => EndBegun') /\ (main = "ended" => main' = "ended")
    BY DEF EndBegun, Send, manager
<1>9. AnyStep
    BY <1>4, <1>6, <1>7, <1>8, RecordStays, ManagerStays DEF AnyStep, Send, taskManager
<1>10. Keeps
    BY <1>1, <1>4, <1>6, RecordStays DEF Keeps, NothingMade, Send, taskManager, Before, LifeCycleTypeOK
<1> QED BY <1>5, <1>9, <1>10 DEF Kinds

\* All are to be killed.
LEMMA AllToBeKilled ==
    ASSUME Before, clients[1].phase = "running", NEW i \in Waiting(1), IsNext(1, i),
           HandleKillAll(i), UNCHANGED <<taskManager, config, sent>>
    PROVE  Kinds
<1> DEFINE o == [clients[1] EXCEPT !.read = i, !.phase = "terminating"]
<1>1. 1 \in Existing
    BY State
<1>2. clients' = [clients EXCEPT ![1] = o]
    BY DEF HandleKillAll, HasRead, Manager, Existing
<1>3. o \in Object /\ ObjectStep(1, o) /\ o.phase = "terminating"
    <2>1. o \in Object /\ ObjectStep(1, o)
        BY <1>1, Read DEF HandleKillAll
    <2> QED BY <1>1, <2>1, State DEF Object
<1> HIDE DEF o
<1>4. /\ clients' \in Seq(Object) /\ Len(clients') = Len(clients) /\ ObjectsStep
      /\ \A d \in Existing : clients'[d] = IF d = 1 THEN o ELSE clients[d]
    BY <1>1, <1>2, <1>3, OneSteps DEF HandleKillAll
<1>5. EndBegun'
    BY <1>1, <1>3, <1>4 DEF EndBegun
<1>6. /\ TerminateAllServices \in Seq(Message)
      /\ \A k \in 1 .. Len(TerminateAllServices) : TerminateAllServices[k].type = "KillService"
    BY KillingAll DEF Before
<1>7. log' = log \o TerminateAllServices
    BY DEF HandleKillAll
<1>8. log' \in Seq(Message)
    BY <1>6, <1>7, LogGrows
<1>9. LifeCycleTypeOK'
    BY <1>4, <1>8 DEF Before, LifeCycleTypeOK, HandleKillAll, taskManager
<1> QED BY <1>4, <1>5, <1>6, <1>7, <1>9, KillsPublished DEF HandleKillAll

\* What the manager has read when it is asked for a service.
LEMMA ManagerReads ==
    ASSUME Before, clients[1].phase = "running", NEW i \in Waiting(1), IsNext(1, i), ~Kills(1, log[i]),
           log[i].type = "CreateNewService", services \cup bridges \subseteq services' \cup bridges'
    PROVE  \E o \in Object :
              /\ ManagerRead(i) = [clients EXCEPT ![1] = o] /\ ObjectStep(1, o) /\ o.read = i
              /\ i \in CreateAt /\ clients[1].read < i
              /\ o.phase # "running" => main = "closing"
              /\ o.phase \in {"running", "terminating"}
              /\ \A j \in CreateAt : clients[1].read < j /\ j <= i => j = i
<1> DEFINE phase == IF main = "closing" THEN "terminating" ELSE "running"
           o == [clients[1] EXCEPT !.read = i, !.phase = phase]
<1>1. 1 \in Existing /\ clients[1] \in Object
    BY State
<1>2. o \in Object /\ ObjectStep(1, o) /\ i \in 1 .. Len(log) /\ clients[1].read < i
    BY <1>1, Read
<1>3. o.read = i /\ o.phase = phase
    BY <1>1 DEF Object
<1>4. ManagerRead(i) = [clients EXCEPT ![1] = o]
    BY <1>1 DEF ManagerRead, HasRead, Manager, Existing
<1> HIDE DEF o
<1>5. ASSUME NEW j \in CreateAt, clients[1].read < j, j <= i PROVE j = i
    <2>1. j \in 1 .. Len(log) /\ log[j].type = "CreateNewService" /\ clients[1].read \in Nat /\ Len(log) \in Nat
        BY <1>1, State DEF CreateAt
    <2>2. j \in Waiting(1)
        BY <1>5, <2>1 DEF Waiting, Concerns, Before, ManagerFirst
    <2> QED BY <1>2, <1>5, <2>1, <2>2 DEF IsNext
<1> QED BY <1>2, <1>3, <1>4, <1>5 DEF CreateAt

\* CreateNewService for a service that cannot be made.
LEMMA NoServiceMade ==
    ASSUME Before, NEW i \in CreateAt, NEW o \in Object, clients' = [clients EXCEPT ![1] = o],
           ObjectStep(1, o), o.read = i, o.phase # "running" => main = "closing",
           log[i].task \in Unserviceable,
           \A j \in CreateAt : clients[1].read < j /\ j <= i => j = i,
           o.phase \in {"running", "terminating"},
           nextId' = nextId + 1,
           UNCHANGED <<log, services, bridges, main, requested, expired, taskManager, config, sent>>
    PROVE  Kinds
<1>1. 1 \in Existing
    BY State
<1>2. /\ clients' \in Seq(Object) /\ Len(clients') = Len(clients) /\ ObjectsStep
      /\ \A d \in Existing : clients'[d] = IF d = 1 THEN o ELSE clients[d]
    BY <1>1, OneSteps
<1>3. clients'[1] = o
    BY <1>1, <1>2
<1>4. ManagerStepsOn
    BY <1>3 DEF ManagerStepsOn
<1>5. nextId \in Nat /\ nextId' \in Nat /\ nextId <= nextId'
    BY DEF Before, LifeCycleTypeOK
<1>6. EndBegun => EndBegun'
    BY <1>3 DEF EndBegun, ObjectStep
<1>7. AnyStep
    BY <1>2, <1>4, <1>6, LogStays, RecordStays DEF AnyStep, taskManager
<1>8. Keeps
    BY <1>2, <1>5, LogStays, RecordStays DEF Keeps, NothingMade, taskManager
<1>9. LifeCycleTypeOK'
    BY <1>2, <1>5 DEF Before, LifeCycleTypeOK, taskManager
<1> QED BY <1>7, <1>8, <1>9 DEF Kinds

\* CreateNewService for one that can: the new object, ...
WithOne(cs, o) == \A d \in Existing : cs[d] = IF d = 1 THEN o ELSE clients[d]
IsServiceOf(q, i) == /\ q.id = log[i].id /\ q.role = log[i].task
                     /\ q.since = Len(log) /\ q.read = Len(log) /\ q.phase = "running"
                     /\ ~IsTaken(log[i].id) => ~q.destroyed
LEMMA ObjectOfTask ==
    ASSUME Before, NEW i \in CreateAt, NEW o \in Object
    PROVE  LET made == Append([clients EXCEPT ![1] = o], ClientWith(log[i].id, log[i].task))
           IN  /\ made \in Seq(Object) /\ Len(made) = Len(clients) + 1
               /\ made[Len(made)] = ClientWith(log[i].id, log[i].task)
               /\ WithOne(made, o)
<1> DEFINE p == ClientWith(log[i].id, log[i].task)
           mid == [clients EXCEPT ![1] = o]
<1>1. Len(clients) \in Nat /\ Existing = 1 .. Len(clients) /\ 1 \in Existing /\ clients \in Seq(Object)
    BY State DEF Before, LifeCycleTypeOK
<1>2. log[i].id \in Nat /\ log[i].task \in Task
    BY State, MessageKinds DEF CreateAt
<1>3. p \in Object
    BY <1>2, ObjectMade DEF Before, Role
<1>4. mid \in Seq(Object) /\ Len(mid) = Len(clients) /\ \A d \in Existing : mid[d] = IF d = 1 THEN o ELSE clients[d]
    BY <1>1, ExceptSeq
<1> HIDE DEF p, mid
<1>5. /\ Append(mid, p) \in Seq(Object) /\ Len(Append(mid, p)) = Len(clients) + 1
      /\ Append(mid, p)[Len(clients) + 1] = p
      /\ \A d \in Existing : Append(mid, p)[d] = IF d = 1 THEN o ELSE clients[d]
    BY <1>1, <1>3, <1>4, AppendProperties
<1>6. Append(mid, p)[Len(Append(mid, p))] = p
    BY <1>5
<1> QED BY <1>5, <1>6 DEF p, mid, WithOne

\* ... which is destroyed if its identifier is taken, ...
LEMMA ObjectKeptOrNot ==
    ASSUME Before, NEW i \in CreateAt, NEW o \in Object, NEW made \in Seq(Object),
           Len(made) = Len(clients) + 1, made[Len(made)] = ClientWith(log[i].id, log[i].task),
           WithOne(made, o),
           clients' = IF IsTaken(log[i].id) THEN Destroy(made, {Len(clients) + 1}) ELSE made
    PROVE  /\ clients' \in Seq(Object) /\ Len(clients') = Len(clients) + 1
           /\ WithOne(clients', o)
           /\ clients'[Len(clients')] \in Object /\ IsServiceOf(clients'[Len(clients')], i)
<1> DEFINE p == ClientWith(log[i].id, log[i].task)
           n == Len(clients) + 1
<1>1. Len(clients) \in Nat /\ Existing = 1 .. Len(clients)
    BY State
<1>2. log[i].id \in Nat /\ log[i].task \in Task
    BY State, MessageKinds DEF CreateAt
<1>3. /\ p \in Object /\ p.id = log[i].id /\ p.role = log[i].task /\ p.since = Len(log)
      /\ p.read = Len(log) /\ p.phase = "running" /\ ~p.destroyed
    BY <1>2, ObjectMade DEF Before, Role
<1>4. CASE ~IsTaken(log[i].id)
    BY <1>3, <1>4 DEF IsServiceOf
<1>5. CASE IsTaken(log[i].id)
    <2> DEFINE q == [p EXCEPT !.destroyed = TRUE]
    <2>1. clients' = Destroy(made, {n})
        BY <1>5
    <2>2. n \in 1 .. Len(made) /\ \A d \in Existing : d \in 1 .. Len(made) /\ d # n
        BY <1>1
    <2>3. /\ Destroy(made, {n}) \in Seq(Object) /\ Len(Destroy(made, {n})) = Len(made)
          /\ Destroy(made, {n})[n] = [made[n] EXCEPT !.destroyed = TRUE]
          /\ \A d \in 1 .. Len(made) : d # n => Destroy(made, {n})[d] = made[d]
        BY <2>2, OneDestroyed
    <2>4. made[n] = p
        OBVIOUS
    <2>5. /\ q \in Object /\ q.id = log[i].id /\ q.role = log[i].task
          /\ q.since = Len(log) /\ q.read = Len(log) /\ q.phase = "running"
        BY <1>3 DEF Object
    <2> HIDE DEF p
    <2>6. clients'[n] = q /\ Len(clients') = n
        BY <2>1, <2>3, <2>4
    <2> HIDE DEF q
    <2>7. WithOne(clients', o)
        BY <2>1, <2>2, <2>3 DEF WithOne
    <2>8. IsServiceOf(q, i)
        BY <1>5, <2>5 DEF IsServiceOf
    <2> QED BY <2>1, <2>3, <2>5, <2>6, <2>7, <2>8
<1> QED BY <1>4, <1>5

\* ... and the step.
LEMMA ServiceMade ==
    ASSUME Before, NEW i \in CreateAt, NEW o \in Object, ObjectStep(1, o), o.read = i,
           clients[1].read < i, o.phase # "running" => main = "closing",
           \A j \in CreateAt : clients[1].read < j /\ j <= i => j = i,
           o.phase \in {"running", "terminating"},
           clients' \in Seq(Object), Len(clients') = Len(clients) + 1,
           WithOne(clients', o),
           NEW q \in Object, q = clients'[Len(clients')], IsServiceOf(q, i),
           ~IsTaken(log[i].id) => Len(clients) + 1 \in services',
           services \subseteq services', services' \subseteq services \cup {Len(clients) + 1},
           nextId' = nextId + 1,
           UNCHANGED <<log, bridges, main, requested, expired, taskManager, config, sent>>
    PROVE  Kinds
<1>1. /\ Len(clients) \in Nat /\ 1 <= Len(clients) /\ Existing = 1 .. Len(clients) /\ 1 \in Existing
    BY State
<1>2. DOMAIN clients' = 1 .. Len(clients) + 1
    BY LenProperties
<1>3. ObjectsStep
    <2>1. ASSUME NEW d \in Existing PROVE ObjectStep(d, clients'[d])
        <3>1. CASE d = 1
            BY <3>1 DEF WithOne
        <3>2. CASE d # 1
            BY <3>2, ObjectStays DEF WithOne
        <3> QED BY <3>1, <3>2
    <2>2. \A d \in Existing : d \in DOMAIN clients'
        BY <1>1, <1>2
    <2> QED BY <2>1, <2>2 DEF ObjectsStep
<1>4. clients'[1] = o
    BY <1>1 DEF WithOne
<1>5. ManagerStepsOn
    <2>1. Len(clients') \notin Existing
        BY <1>1
    <2>2. i \in Nat
        <3>1. Len(log) \in Nat
            BY State
        <3> QED BY <3>1 DEF CreateAt
    <2>3. MadeFor(Len(clients), i)'
        BY <1>4, <2>2 DEF MadeFor, IsServiceOf
    <2> QED BY <1>4, <2>1, <2>3 DEF ManagerStepsOn
<1>6. EndBegun => EndBegun'
    BY <1>4 DEF EndBegun, ObjectStep
<1>7. AnyStep
    BY <1>3, <1>5, <1>6, LogStays, RecordStays DEF AnyStep, taskManager
<1>8. Makes(q)
    BY DEF Makes, taskManager, IsServiceOf
<1>9. MakesTask
    BY <1>4, <1>8 DEF MakesTask, IsServiceOf
<1>10. LifeCycleTypeOK'
    <2>1. Len(clients) + 1 \in 1 .. Len(clients') /\ Len(clients) + 1 # 1
          /\ 1 .. Len(clients) \subseteq 1 .. Len(clients')
        BY <1>1
    <2>2. /\ services \subseteq 1 .. Len(clients) /\ 1 \notin services
          /\ bridges \subseteq 1 .. Len(clients) /\ 1 \notin bridges
        BY DEF Before, LifeCycleTypeOK, Manager
    <2>3. /\ services' \subseteq 1 .. Len(clients') /\ 1 \notin services'
          /\ bridges' \subseteq 1 .. Len(clients') /\ 1 \notin bridges'
        BY <2>1, <2>2
    <2>4. nextId' \in Nat
        BY DEF Before, LifeCycleTypeOK
    <2> QED BY <2>3, <2>4 DEF Before, LifeCycleTypeOK, taskManager, Manager
<1> QED BY <1>7, <1>9, <1>10 DEF Kinds

LEMMA ServiceAskedFor ==
    ASSUME Before, clients[1].phase = "running", NEW i \in Waiting(1), IsNext(1, i), ~Kills(1, log[i]),
           log[i].type = "CreateNewService", HandleCreateNewService(i),
           UNCHANGED <<taskManager, config, sent>>
    PROVE  Kinds
<1>1. services \cup bridges \subseteq services' \cup bridges'
    BY DEF HandleCreateNewService
<1>2. PICK o \in Object :
         /\ ManagerRead(i) = [clients EXCEPT ![1] = o] /\ ObjectStep(1, o) /\ o.read = i
         /\ i \in CreateAt /\ clients[1].read < i
         /\ o.phase # "running" => main = "closing"
         /\ o.phase \in {"running", "terminating"}
         /\ \A j \in CreateAt : clients[1].read < j /\ j <= i => j = i
    BY <1>1, ManagerReads
<1>3. ASSUME log[i].task \in Unserviceable, clients' = ManagerRead(i), UNCHANGED services PROVE Kinds
    BY <1>2, <1>3, NoServiceMade DEF HandleCreateNewService
<1>4. ASSUME log[i].task \notin Unserviceable PROVE Kinds
    <2> DEFINE made == Append([clients EXCEPT ![1] = o], ClientWith(log[i].id, log[i].task))
    <2>1. /\ clients' = IF IsTaken(log[i].id) THEN Destroy(made, {Len(clients) + 1}) ELSE made
          /\ services' = IF IsTaken(log[i].id) THEN services ELSE services \cup {Len(clients) + 1}
          /\ nextId' = nextId + 1 /\ UNCHANGED <<log, bridges, main, requested, expired>>
        BY <1>2, <1>4 DEF HandleCreateNewService
    <2>2. /\ made \in Seq(Object) /\ Len(made) = Len(clients) + 1
          /\ made[Len(made)] = ClientWith(log[i].id, log[i].task)
          /\ WithOne(made, o)
        BY <1>2, ObjectOfTask
    <2> HIDE DEF made
    <2>3. /\ clients' \in Seq(Object) /\ Len(clients') = Len(clients) + 1
          /\ WithOne(clients', o)
          /\ clients'[Len(clients')] \in Object /\ IsServiceOf(clients'[Len(clients')], i)
        <3>1. i \in CreateAt
            BY <1>2
        <3>2. clients' = IF IsTaken(log[i].id) THEN Destroy(made, {Len(clients) + 1}) ELSE made
            BY <2>1
        <3> QED BY <3>1, <3>2, <2>2, ObjectKeptOrNot
    <2>4. /\ services \subseteq services' /\ services' \subseteq services \cup {Len(clients) + 1}
          /\ ~IsTaken(log[i].id) => Len(clients) + 1 \in services'
        BY <2>1
    <2> QED BY <1>2, <2>1, <2>3, <2>4, ServiceMade
<1> QED BY <1>3, <1>4 DEF HandleCreateNewService

LEMMA ManagerSteps ==
    ASSUME Before, ManagerStep \/ ManagerStops, UNCHANGED <<taskManager, config, sent>>
    PROVE  Kinds
<1>1. ASSUME ManagerStep PROVE Kinds
    BY <1>1, AllToBeKilled, ServiceAskedFor DEF ManagerStep, Manager
<1> QED BY <1>1, ManagerIsStopped

-----------------------------------------------------------------------------
(***************************************************************************)
(* Then those of the task manager.                                         *)
(***************************************************************************)
LEMMA KillOfTask ==
    ASSUME Before, NEW t \in Task
    PROVE  /\ KillOf(t) \in Seq(Message) /\ Len(KillOf(t)) \in Nat /\ serviceOf[t] \in Nat
           /\ \A k \in 1 .. Len(KillOf(t)) :
                 serviceOf[t] # NoService /\ KillOf(t)[k].type = "KillService" /\ KillOf(t)[k].id = serviceOf[t]
           /\ serviceOf[t] # NoService => 1 \in 1 .. Len(KillOf(t))
<1>1. serviceOf[t] \in Nat
    BY DEF Before, LifeCycleTypeOK
<1>2. Kill(serviceOf[t]) \in Message /\ Kill(serviceOf[t]).type = "KillService"
      /\ Kill(serviceOf[t]).id = serviceOf[t]
    BY <1>1, MessagesMade
<1>3. CASE serviceOf[t] = NoService
    BY <1>1, <1>3 DEF KillOf
<1>4. CASE serviceOf[t] # NoService
    BY <1>1, <1>2, <1>4 DEF KillOf
<1> QED BY <1>3, <1>4

LEMMA TaskManagerReads ==
    ASSUME Before, NEW c \in Existing, clients[c].role = "TaskManager", clients[c].phase = "running",
           NEW i \in Waiting(c), IsNext(c, i), ~Kills(c, log[i]),
           clients' = HasRead(clients, c, i), UNCHANGED <<services, bridges>>
    PROVE  /\ clients' \in Seq(Object) /\ Len(clients') = Len(clients) /\ ObjectsStep
           /\ clients'[1] = clients[1]
<1> DEFINE o == [clients[c] EXCEPT !.read = i, !.phase = "running"]
<1>1. clients[c] \in Object /\ 1 \in Existing
    BY State
<1>2. o \in Object /\ ObjectStep(c, o)
    BY Read
<1>3. clients' = [clients EXCEPT ![c] = o]
    <2>1. o = [clients[c] EXCEPT !.read = i]
        BY <1>1 DEF Object
    <2> HIDE DEF o
    <2> QED BY <2>1 DEF HasRead
<1>4. c # 1
    BY DEF Before, ManagerFirst
<1> HIDE DEF o
<1> QED BY <1>1, <1>2, <1>3, <1>4, OneSteps

\* A task goes off the record.
LEMMA TaskStruckOff ==
    ASSUME Before, NEW t \in Task, LifeCycleTypeOK', Len(clients') = Len(clients), ObjectsStep,
           clients'[1] = clients[1], main' = main, log' = log \o KillOf(t),
           serviceOf' = [serviceOf EXCEPT ![t] = NoService], nextId <= nextId'
    PROVE  Kinds
<1>1. /\ KillOf(t) \in Seq(Message) /\ Len(KillOf(t)) \in Nat
      /\ \A k \in 1 .. Len(KillOf(t)) :
            serviceOf[t] # NoService /\ KillOf(t)[k].type = "KillService" /\ KillOf(t)[k].id = serviceOf[t]
      /\ serviceOf[t] # NoService => 1 \in 1 .. Len(KillOf(t))
    BY KillOfTask
<1>2. /\ LogStep /\ Len(log) \in Nat /\ Len(log') = Len(log) + Len(KillOf(t))
      /\ \A k \in 1 .. Len(KillOf(t)) : log'[Len(log) + k] = KillOf(t)[k]
      /\ \A i \in 1 .. Len(log') :
            i > Len(log) => i - Len(log) \in 1 .. Len(KillOf(t)) /\ log'[i] = KillOf(t)[i - Len(log)]
    BY <1>1, LogGrows, State
<1>3. \A u \in Task : serviceOf'[u] = IF u = t THEN NoService ELSE serviceOf[u]
    BY DEF Before, LifeCycleTypeOK
<1>4. KillsStep
    BY <1>1, <1>2, <1>3 DEF KillsStep
<1>5. RecordStep
    <2>1. ASSUME serviceOf[t] # NoService
          PROVE  Len(log) + 1 \in KillAt' /\ log'[Len(log) + 1].id = serviceOf[t]
        BY <1>1, <1>2, <2>1 DEF KillAt
    <2> QED BY <1>3, <2>1 DEF RecordStep
<1>6. EndBegun => EndBegun'
    BY DEF EndBegun
<1>7. AnyStep
    BY <1>2, <1>4, <1>5, <1>6, ManagerStays DEF AnyStep
<1>8. Keeps
    BY <1>1, <1>2, <1>3 DEF Keeps, NothingMade
<1> QED BY <1>7, <1>8 DEF Kinds

\* A task gets a new service.
LEMMA TaskRecorded ==
    ASSUME Before, NEW t \in Task, LifeCycleTypeOK', Len(clients') = Len(clients), ObjectsStep,
           clients'[1] = clients[1], main' = main, nextId' = nextId + 1,
           log' = Append(log \o KillOf(t), Create(nextId', t)),
           serviceOf' = [serviceOf EXCEPT ![t] = nextId'], serviceOf[t] <= nextId
    PROVE  Kinds
<1> DEFINE m == Create(nextId', t)
           n == Len(KillOf(t))
           s == Append(KillOf(t), m)
<1>1. /\ KillOf(t) \in Seq(Message) /\ n \in Nat /\ serviceOf[t] \in Nat
      /\ \A k \in 1 .. n :
            serviceOf[t] # NoService /\ KillOf(t)[k].type = "KillService" /\ KillOf(t)[k].id = serviceOf[t]
      /\ serviceOf[t] # NoService => 1 \in 1 .. n
    BY KillOfTask
<1>2. nextId \in Nat /\ m \in Message /\ m.type = "CreateNewService"
    BY MessagesMade DEF Before, LifeCycleTypeOK
<1> HIDE DEF m
<1>3. /\ s \in Seq(Message) /\ Len(s) = n + 1 /\ s[n + 1] = m
      /\ \A k \in 1 .. n : s[k] = KillOf(t)[k]
    BY <1>1, <1>2, AppendProperties
<1>4. log' = log \o s
    <2>1. log \in Seq(Message) /\ log \o KillOf(t) \in Seq(Message) /\ <<m>> \in Seq(Message)
        BY <1>1, <1>2, ConcatProperties DEF Before, LifeCycleTypeOK
    <2>2. log' = Append(log \o KillOf(t), m)
        BY DEF m
    <2>3. log' = (log \o KillOf(t)) \o <<m>> /\ s = KillOf(t) \o <<m>>
        BY <1>1, <1>2, <2>1, <2>2, AppendIsConcat
    <2> HIDE DEF s
    <2>4. (log \o KillOf(t)) \o <<m>> = log \o (KillOf(t) \o <<m>>)
        BY <1>1, <2>1, ConcatAssociative
    <2> QED BY <2>3, <2>4
<1> HIDE DEF s, n
<1>5. /\ LogStep /\ Len(log) \in Nat /\ Len(log') = Len(log) + (n + 1)
      /\ \A k \in 1 .. n + 1 : log'[Len(log) + k] = s[k]
      /\ \A i \in 1 .. Len(log') :
            i > Len(log) => i - Len(log) \in 1 .. n + 1 /\ log'[i] = s[i - Len(log)]
    BY <1>3, <1>4, LogGrows, State
<1>6. /\ Len(log) < Len(log') /\ log'[Len(log')] = m
      /\ \A i \in 1 .. Len(log') : i > Len(log) /\ i # Len(log') =>
            serviceOf[t] # NoService /\ log'[i].type = "KillService" /\ log'[i].id = serviceOf[t]
    <2>1. Len(log) < Len(log') /\ log'[Len(log')] = m
        BY <1>1, <1>3, <1>5
    <2>2. ASSUME NEW i \in 1 .. Len(log'), i > Len(log), i # Len(log')
          PROVE  i - Len(log) \in 1 .. n /\ log'[i] = KillOf(t)[i - Len(log)]
        <3> DEFINE j == i - Len(log)
        <3>1. j \in 1 .. n + 1 /\ log'[i] = s[j]
            BY <1>5, <2>2
        <3>2. j # n + 1 /\ n \in Nat
            BY <1>1, <1>5, <2>2
        <3> HIDE DEF j
        <3>3. j \in 1 .. n
            BY <3>1, <3>2
        <3>4. log'[i] = KillOf(t)[j]
            BY <1>3, <3>1, <3>3
        <3> QED BY <3>3, <3>4 DEF j
    <2> QED BY <1>1, <2>1, <2>2
<1>7. \A u \in Task : serviceOf'[u] = IF u = t THEN nextId' ELSE serviceOf[u]
    BY DEF Before, LifeCycleTypeOK
<1>8. serviceOf'[t] # serviceOf[t]
    BY <1>1, <1>2, <1>7
<1>9. KillsStep
    BY <1>2, <1>6, <1>8 DEF KillsStep
<1>10. RecordStep
    <2>1. ASSUME serviceOf[t] # NoService
          PROVE  Len(log) + 1 \in KillAt' /\ log'[Len(log) + 1].id = serviceOf[t]
        <3>1. Len(log) + 1 \in 1 .. Len(log') /\ Len(log) + 1 # Len(log')
            BY <1>1, <1>5, <2>1
        <3> QED BY <1>5, <1>6, <3>1 DEF KillAt
    <2> QED BY <1>7, <2>1 DEF RecordStep
<1>11. EndBegun => EndBegun'
    BY DEF EndBegun
<1>12. AnyStep
    BY <1>5, <1>9, <1>10, <1>11, ManagerStays DEF AnyStep
<1>13. Asks
    BY <1>6 DEF Asks, NothingMade, m
<1> QED BY <1>12, <1>13 DEF Kinds

LEMMA TaskManagerSteps ==
    ASSUME Before, NEW c \in Existing, TaskManagerStep(c), UNCHANGED <<manager, sent>>,
           \A t \in Task : serviceOf[t] <= nextId
    PROVE  Kinds
<1>1. PICK i \in Waiting(c) :
          /\ IsNext(c, i) /\ ~Kills(c, log[i])
          /\ clients' = HasRead(clients, c, i)
          /\ \/ log[i].type = "Task" /\ HandleTask(log[i].task)
             \/ log[i].type = "RemoveTasks" /\ HandleRemoveTasks(log[i].task)
             \/ log[i].type = "PointOfInterest" /\ HandlePointOfInterest
    BY DEF TaskManagerStep
<1>2. /\ clients' \in Seq(Object) /\ Len(clients') = Len(clients) /\ ObjectsStep
      /\ clients'[1] = clients[1]
    BY <1>1, TaskManagerReads DEF TaskManagerStep, manager
<1>3. log[i] \in Message /\ (log[i].type \in {"Task", "RemoveTasks"} => log[i].task \in Task)
    BY State, MessageKinds DEF Waiting
<1>4. nextId \in Nat /\ log \in Seq(Message) /\ serviceOf \in [Task -> Nat] /\ NoService \in Nat
    BY DEF Before, LifeCycleTypeOK, NoService
<1>5. ASSUME NEW t \in Task, HandleTask(t) PROVE Kinds
    <2>1. ASSUME serviceOf' = [serviceOf EXCEPT ![t] = UniqueId], nextId' = nextId + 1,
                 log' = Append(log \o KillOf(t), Create(UniqueId, t)), isLocated' = isLocated
          PROVE  Kinds
        <3>1. nextId' = UniqueId /\ nextId' \in Nat
            BY <1>4, <2>1 DEF UniqueId
        <3>2. log' \in Seq(Message)
            BY <1>4, <2>1, <3>1, KillOfTask, MessagesMade, ConcatProperties, AppendProperties
        <3>3. serviceOf' \in [Task -> Nat]
            BY <1>4, <2>1, <3>1
        <3>4. LifeCycleTypeOK'
            BY <1>2, <2>1, <3>1, <3>2, <3>3 DEF Before, LifeCycleTypeOK, manager
        <3> QED BY <1>2, <2>1, <3>1, <3>4, TaskRecorded DEF manager
    <2>2. ASSUME serviceOf' = [serviceOf EXCEPT ![t] = NoService], nextId' = nextId + 1,
                 log' = log \o KillOf(t), isLocated' = isLocated
          PROVE  Kinds
        <3>1. nextId <= nextId' /\ nextId' \in Nat
            BY <1>4, <2>2
        <3>2. log' \in Seq(Message)
            BY <1>4, <2>2, KillOfTask, ConcatProperties
        <3>3. serviceOf' \in [Task -> Nat]
            BY <1>4, <2>2
        <3>4. LifeCycleTypeOK'
            BY <1>2, <2>2, <3>1, <3>2, <3>3 DEF Before, LifeCycleTypeOK, manager
        <3> QED BY <1>2, <2>2, <3>1, <3>4, TaskStruckOff DEF manager
    <2> QED BY <1>5, <2>1, <2>2 DEF HandleTask, Replaced
<1>6. ASSUME NEW t \in Task, HandleRemoveTasks(t) PROVE Kinds
    <2>1. log' \in Seq(Message)
        BY <1>4, <1>6, KillOfTask, ConcatProperties DEF HandleRemoveTasks
    <2>2. serviceOf' \in [Task -> Nat]
        BY <1>4, <1>6 DEF HandleRemoveTasks
    <2>3. LifeCycleTypeOK'
        BY <1>2, <1>6, <2>1, <2>2 DEF Before, LifeCycleTypeOK, manager, HandleRemoveTasks
    <2>4. nextId <= nextId' /\ log' = log \o KillOf(t) /\ serviceOf' = [serviceOf EXCEPT ![t] = NoService]
        BY <1>4, <1>6 DEF HandleRemoveTasks
    <2> QED BY <1>2, <2>3, <2>4, TaskStruckOff DEF manager
<1>7. ASSUME HandlePointOfInterest PROVE Kinds
    <2>1. LifeCycleTypeOK'
        BY <1>2, <1>7 DEF Before, LifeCycleTypeOK, manager, HandlePointOfInterest
    <2>2. (EndBegun => EndBegun') /\ (main = "ended" => main' = "ended")
        BY <1>2 DEF EndBegun, manager
    <2>3. AnyStep
        BY <1>2, <1>7, <2>2, LogStays, RecordStays, ManagerStays DEF AnyStep, HandlePointOfInterest
    <2>4. Keeps
        BY <1>2, <1>4, <1>7, LogStays, RecordStays DEF Keeps, NothingMade, HandlePointOfInterest
    <2> QED BY <2>1, <2>3, <2>4 DEF Kinds
<1> QED BY <1>1, <1>3, <1>5, <1>6, <1>7

LEMMA RecordedIds ==
    ASSUME IInv
    PROVE  Before /\ \A t \in Task : serviceOf[t] <= nextId
<1>1. Before
    BY DEF IInv, Before
<1>2. ASSUME NEW t \in Task PROVE serviceOf[t] <= nextId
    <2>1. serviceOf[t] \in Nat /\ nextId \in Nat
        BY DEF IInv, LifeCycleTypeOK
    <2>2. CASE serviceOf[t] = NoService
        BY <2>1, <2>2 DEF NoService
    <2>3. CASE serviceOf[t] # NoService
        BY <2>3 DEF IInv, RecordAskedFor, CreatesInOrder
    <2> QED BY <2>2, <2>3
<1> QED BY <1>1, <1>2

LEMMA StepKinds ==
    ASSUME IInv, [Next]_vars
    PROVE  Kinds
<1>1. Before /\ \A t \in Task : serviceOf[t] <= nextId
    BY RecordedIds
<1>2. ASSUME NEW m \in Outside, Send(m) PROVE Kinds
    BY <1>1, <1>2, SentFromOutside
<1>3. ASSUME Duration PROVE Kinds
    BY <1>1, <1>3, DurationOver DEF Duration
<1>4. ASSUME Main PROVE Kinds
    BY <1>1, <1>4, MainMakes, MainGoesOn, ManagerStarts, MainClears DEF Main, MainStep
<1>5. ASSUME ManagerThread PROVE Kinds
    BY <1>1, <1>5, ManagerSteps DEF ManagerThread
<1>6. ASSUME NEW c \in Client, Thread(c) PROVE Kinds
    BY <1>1, <1>6, ClientTakesKill, ClientFinishes, TaskManagerSteps DEF Thread, ClientStep, IInv
<1>7. ASSUME UNCHANGED vars PROVE Kinds
    <2>1. ObjectsStep
        BY <1>1, <1>7, ObjectStays DEF ObjectsStep, Existing, vars, net, manager
    <2>2. LifeCycleTypeOK'
        BY <1>1, <1>7 DEF Before, LifeCycleTypeOK, vars, net, taskManager, manager
    <2>3. (EndBegun => EndBegun') /\ (main = "ended" => main' = "ended")
        BY <1>7 DEF EndBegun, vars, net, manager
    <2> QED BY <1>1, <1>7, <2>1, <2>2, <2>3, OnlyObjects DEF vars, net
<1> QED BY <1>2, <1>3, <1>4, <1>5, <1>6, <1>7 DEF Next

-----------------------------------------------------------------------------
(***************************************************************************)
(* What every kind of step preserves.                                      *)
(***************************************************************************)

\* The main thread leaves its first stage together with the manager.
LEMMA StillStarting ==
    ASSUME IInv, [Next]_vars, main' = "services"
    PROVE  clients'[1].phase = "starting"
<1>1. Len(clients) \in Nat /\ Existing = 1 .. Len(clients) /\ 1 \in Existing /\ clients \in Seq(Object)
    BY RecordedIds, State DEF IInv, LifeCycleTypeOK
<1>2. main = "services" => clients[1].phase = "starting"
    BY DEF IInv, ManagerFirst
<1>3. ASSUME NEW m \in Outside, Send(m) PROVE clients'[1].phase = "starting"
    BY <1>2, <1>3 DEF Send, manager
<1>4. ASSUME Duration PROVE FALSE
    BY <1>4 DEF Duration, Expire
<1>5. ASSUME Main PROVE clients'[1].phase = "starting"
    <2>1. MakeConfigured
        BY <1>5 DEF Main, MainStep, StartManager, MakeBridge, StartRunning, ClearAway, StopWaiting, End
    <2>2. clients' = Append(clients, ClientWith(nextId, config.services[Cardinality(services) + 1]))
          /\ main = "services"
        BY <2>1 DEF MakeConfigured, NewClients
    <2>3. clients'[1] = clients[1]
        BY <1>1, <2>2
    <2> QED BY <1>2, <2>2, <2>3
<1>6. ASSUME ManagerThread PROVE FALSE
    <2>1. main' = main /\ clients[1].phase = "running"
        BY <1>6 DEF ManagerThread, ManagerStep, ManagerStops, HandleCreateNewService, HandleKillAll, Manager
    <2> QED BY <1>2, <2>1
<1>7. ASSUME NEW c \in Client, Thread(c) PROVE clients'[1].phase = "starting"
    <2>1. clients[1].phase = "starting" /\ c \in Existing
        BY <1>2, <1>7 DEF Thread, manager
    <2>2. CASE TakeKill(c)
        BY <1>1, <2>1, <2>2 DEF TakeKill, HasRead, Existing
    <2>3. CASE Finish(c)
        BY <1>1, <2>1, <2>3 DEF Finish, Existing
    <2>4. CASE TaskManagerStep(c)
        BY <1>1, <2>1, <2>4 DEF TaskManagerStep, HasRead, Existing
    <2> QED BY <1>7, <2>2, <2>3, <2>4 DEF Thread, ClientStep
<1>8. CASE UNCHANGED vars
    BY <1>2, <1>8 DEF vars, net, manager
<1> QED BY <1>3, <1>4, <1>5, <1>6, <1>7, <1>8 DEF Next

\* The objects after the step.
LEMMA Objects ==
    ASSUME IInv, Kinds
    PROVE  /\ \A c \in Existing : c \in Existing' /\ ObjectStep(c, clients'[c])
           /\ \A c \in Existing' :
                 \/ c \in Existing
                 \/ /\ c = Len(clients') /\ c = Len(clients) + 1 /\ c \notin Existing /\ (MakesOther \/ MakesTask)
                    /\ clients'[c].since = Len(log) /\ clients'[c].read = Len(log)
                    /\ clients'[c].phase = "running" /\ log' = log
<1>1. \A c \in Existing : c \in Existing' /\ ObjectStep(c, clients'[c])
    BY DEF Kinds, AnyStep, ObjectsStep, Existing
<1>2. Len(clients) \in Nat /\ Existing = 1 .. Len(clients)
    BY RecordedIds, State
<1>3. Existing' = 1 .. Len(clients') /\ Len(clients') \in Nat
    BY LenProperties DEF Kinds, LifeCycleTypeOK, Existing
<1>4. ASSUME NEW c \in Existing', c \notin Existing
      PROVE  /\ c = Len(clients') /\ c = Len(clients) + 1 /\ (MakesOther \/ MakesTask)
             /\ clients'[c].since = Len(log) /\ clients'[c].read = Len(log)
             /\ clients'[c].phase = "running" /\ log' = log
    <2>1. Len(clients') # Len(clients)
        BY <1>2, <1>3, <1>4
    <2>2. MakesOther \/ MakesTask
        BY <2>1 DEF Kinds, Keeps, Asks, NothingMade
    <2>3. PICK o \in Object : Makes(o)
        BY <2>2 DEF MakesOther, MakesTask
    <2>4. c = Len(clients') /\ c = Len(clients) + 1
        BY <1>2, <1>3, <1>4, <2>3 DEF Makes
    <2> QED BY <2>2, <2>3, <2>4 DEF Makes
<1> QED BY <1>1, <1>4

\* The log after the step.
LEMMA Messages ==
    ASSUME IInv, Kinds
    PROVE  /\ Len(log) \in Nat /\ Len(log') \in Nat /\ Len(log) <= Len(log')
           /\ \A i \in 1 .. Len(log) : i \in 1 .. Len(log') /\ log'[i] = log[i]
           /\ \A i \in CreateAt : i \in CreateAt' /\ log'[i] = log[i]
           /\ \A k \in KillAt : k \in KillAt' /\ log'[k] = log[k]
           /\ \A i \in 1 .. Len(log') : i <= Len(log) => (i \in CreateAt' => i \in CreateAt) /\ (i \in KillAt' => i \in KillAt)
           /\ CreateAt \in SUBSET Nat /\ CreateAt' \in SUBSET Nat /\ KillAt \in SUBSET Nat /\ KillAt' \in SUBSET Nat
<1>1. Len(log) \in Nat /\ Len(log') \in Nat
    BY LenProperties DEF IInv, Kinds, LifeCycleTypeOK
<1>2. Len(log) <= Len(log') /\ \A i \in 1 .. Len(log) : log'[i] = log[i]
    BY DEF Kinds, AnyStep, LogStep
<1> QED BY <1>1, <1>2 DEF CreateAt, KillAt

\* The requests for services after the step.
LEMMA Requests ==
    ASSUME IInv, Kinds
    PROVE  /\ nextId \in Nat /\ nextId' \in Nat /\ nextId <= nextId'
           /\ \A i \in CreateAt' :
                 \/ i \in CreateAt
                 \/ /\ Asks /\ i > Len(log) /\ nextId' = nextId + 1 /\ i = Len(log') /\ log'[i].id = nextId'
                    /\ log'[i].task \in Task /\ serviceOf' = [serviceOf EXCEPT ![log'[i].task] = nextId']
<1>1. nextId \in Nat /\ nextId' \in Nat /\ nextId <= nextId'
    BY DEF IInv, Kinds, LifeCycleTypeOK, Keeps, Asks, MakesOther, MakesTask, Makes
<1>2. ASSUME NEW i \in CreateAt', i \notin CreateAt
      PROVE  /\ Asks /\ i > Len(log) /\ nextId' = nextId + 1 /\ i = Len(log') /\ log'[i].id = nextId'
             /\ log'[i].task \in Task /\ serviceOf' = [serviceOf EXCEPT ![log'[i].task] = nextId']
    <2>1. i > Len(log) /\ i \in 1 .. Len(log') /\ log'[i].type = "CreateNewService"
        BY <1>2, Messages DEF CreateAt
    <2>2. Asks
        BY <2>1, Messages DEF Kinds, Keeps, MakesOther, MakesTask, Makes
    <2>3. PICK t \in Task : /\ nextId' = nextId + 1 /\ serviceOf' = [serviceOf EXCEPT ![t] = nextId']
                            /\ log'[Len(log')] = Create(nextId', t) /\ i = Len(log')
        BY <2>1, <2>2 DEF Asks
    <2>4. Create(nextId', t).id = nextId' /\ Create(nextId', t).task = t
        BY <1>1, MessagesMade
    <2> QED BY <2>1, <2>2, <2>3, <2>4
<1> QED BY <1>1, <1>2

LEMMA ManagerFirstKept ==
    ASSUME IInv, Kinds, [Next]_vars
    PROVE  ManagerFirst'
<1>1. 1 \in Existing /\ clients[1].role = "ServiceManager" /\ clients[1].id = 1 /\ clients[1].since = 0
      /\ nextId >= 2 /\ (clients[1].phase = "starting" => clients[1].read = 0)
      /\ \A c \in Existing : clients[c].phase = "starting" => c = 1
    BY DEF IInv, ManagerFirst
<1>2. ObjectStep(1, clients'[1]) /\ 1 \in Existing'
    BY <1>1, Objects
<1>3. /\ clients'[1].role = "ServiceManager" /\ clients'[1].id = 1 /\ clients'[1].since = 0
      /\ clients'[1].phase = "starting" => clients'[1].read = 0
    BY <1>1, <1>2 DEF ObjectStep
<1>4. nextId' >= 2
    BY <1>1, Requests
<1>5. main' = "services" => clients'[1].phase = "starting"
    BY StillStarting
<1>6. ASSUME NEW c \in Existing', clients'[c].phase = "starting" PROVE c = 1
    BY <1>1, <1>6, Objects DEF ObjectStep
<1> QED BY <1>2, <1>3, <1>4, <1>5, <1>6 DEF ManagerFirst

LEMMA ReadSoFarKept ==
    ASSUME IInv, Kinds
    PROVE  ReadSoFar'
<1> SUFFICES ASSUME NEW c \in Existing'
             PROVE  clients'[c].since <= clients'[c].read /\ clients'[c].read <= Len(log')
    BY DEF ReadSoFar
<1>1. CASE c \in Existing
    <2>1. /\ clients'[c].since = clients[c].since /\ clients[c].read <= clients'[c].read
          /\ clients'[c].read <= Len(log) /\ clients[c].since <= clients[c].read
        BY <1>1, Objects DEF ObjectStep, IInv, ReadSoFar
    <2>2. clients'[c] \in Object /\ clients[c] \in Object
        BY <1>1, RecordedIds, State, ElementOfSeq, LenProperties DEF Kinds, LifeCycleTypeOK, Existing
    <2>3. clients'[c].read \in Nat /\ clients[c].read \in Nat /\ clients[c].since \in Nat
        BY <2>2 DEF Object
    <2> QED BY <2>1, <2>3, Messages
<1>2. CASE c \notin Existing
    BY <1>2, Objects, Messages
<1> QED BY <1>1, <1>2

LEMMA CreatesInOrderKept ==
    ASSUME IInv, Kinds
    PROVE  CreatesInOrder'
<1>1. \A i \in CreateAt : /\ 2 <= log[i].id /\ log[i].id <= nextId /\ log[i].id \in Nat
                          /\ \A j \in CreateAt : i < j => log[i].id < log[j].id
    BY RecordedIds, State, MessageKinds DEF IInv, CreatesInOrder, CreateAt
<1>2. nextId >= 2
    BY DEF IInv, ManagerFirst
<1>3. ASSUME NEW i \in CreateAt' PROVE 2 <= log'[i].id /\ log'[i].id <= nextId'
    BY <1>1, <1>2, Messages, Requests
<1>4. ASSUME NEW i \in CreateAt', NEW j \in CreateAt', i < j PROVE log'[i].id < log'[j].id
    <2>1. CASE j \in CreateAt
        <3>1. i \in CreateAt
            BY <1>4, <2>1, Messages, Requests DEF CreateAt
        <3> QED BY <1>1, <1>4, <2>1, <3>1, Messages
    <2>2. CASE j \notin CreateAt
        <3>1. j = Len(log') /\ log'[j].id = nextId' /\ nextId' = nextId + 1
            BY <2>2, Requests
        <3>2. i \in CreateAt
            BY <1>4, <3>1, Messages, Requests
        <3> QED BY <1>1, <3>1, <3>2, Messages, Requests
    <2> QED BY <2>1, <2>2
<1> QED BY <1>3, <1>4 DEF CreatesInOrder

\* The object that the manager makes for a request.
LEMMA MadeNow ==
    ASSUME IInv, Kinds, MakesTask
    PROVE  \E i \in CreateAt :
              LET n == Len(clients') IN
              /\ n = Len(clients) + 1 /\ n \in Existing' /\ n \notin Existing
              /\ i = clients'[1].read /\ clients[1].read < i
              /\ clients'[n].id = log[i].id /\ clients'[n].role = log[i].task /\ log[i].task \in Task
              /\ IsTaken(log[i].id) \/ (~clients'[n].destroyed /\ n \in services' \cup bridges')
<1>1. PICK o \in Object, i \in CreateAt :
        /\ Makes(o) /\ o.id = log[i].id /\ o.role = log[i].task
        /\ clients[1].read < i /\ i = clients'[1].read
        /\ IsTaken(log[i].id) \/ (~o.destroyed /\ Len(clients') \in services' \cup bridges')
    BY DEF MakesTask
<1>2. log[i].task \in Task
    BY RecordedIds, State, MessageKinds DEF CreateAt
<1>3. Existing' = 1 .. Len(clients') /\ Existing = 1 .. Len(clients) /\ Len(clients) \in Nat
    BY RecordedIds, State, LenProperties DEF Kinds, LifeCycleTypeOK, Existing
<1> QED BY <1>1, <1>2, <1>3 DEF Makes

\* The object that the main thread makes.
LEMMA OtherNow ==
    ASSUME IInv, Kinds, MakesOther
    PROVE  LET n == Len(clients') IN
           /\ n = Len(clients) + 1 /\ n \in NotTasks' /\ n \notin Existing
           /\ clients'[n].id = nextId /\ nextId' = nextId + 1
           /\ ~clients'[n].destroyed /\ n \in services' \cup bridges'
<1>1. PICK o \in Object : Makes(o) /\ o.id = nextId /\ o.role \notin Task /\ ~o.destroyed
                          /\ Len(clients') \in services' \cup bridges'
    BY DEF MakesOther
<1>2. Existing' = 1 .. Len(clients') /\ Existing = 1 .. Len(clients) /\ Len(clients) \in Nat
    BY RecordedIds, State, LenProperties DEF Kinds, LifeCycleTypeOK, Existing
<1>3. Len(clients') \in Existing' /\ clients'[Len(clients')].role \notin Task
    BY <1>1, <1>2 DEF Makes
<1>4. Len(clients') \in NotTasks'
    BY <1>3 DEF NotTasks
<1> QED BY <1>1, <1>2, <1>4 DEF Makes

\* Which objects are those of tasks after the step.
LEMMA OfTasks ==
    ASSUME IInv, Kinds
    PROVE  /\ \A c \in Existing : (c \in NotTasks' <=> c \in NotTasks) /\ clients'[c].id = clients[c].id
           /\ \A c \in Existing' \ NotTasks' : c \in Existing \ NotTasks \/ (MakesTask /\ c = Len(clients'))
           /\ \A c \in NotTasks' : c \in NotTasks \/ (MakesOther /\ c = Len(clients'))
<1>1. \A c \in Existing : (c \in NotTasks' <=> c \in NotTasks) /\ clients'[c].id = clients[c].id
    BY Objects DEF ObjectStep, NotTasks
<1>2. ASSUME NEW c \in Existing' \ NotTasks', c \notin Existing PROVE MakesTask /\ c = Len(clients')
    BY <1>2, Objects, OtherNow
<1>3. ASSUME NEW c \in NotTasks', c \notin Existing PROVE MakesOther /\ c = Len(clients')
    <2>1. c \in Existing' /\ clients'[c].role \notin Task
        BY DEF NotTasks
    <2> QED BY <1>3, <2>1, Objects, MadeNow
<1>4. NotTasks' \subseteq Existing'
    BY DEF NotTasks
<1> QED BY <1>1, <1>2, <1>3, <1>4

LEMMA TaskClientsMadeKept ==
    ASSUME IInv, Kinds
    PROVE  TaskClientsMade'
<1> DEFINE M(c, i) == i <= clients'[1].read /\ log'[i].id = clients'[c].id /\ log'[i].task = clients'[c].role
<1>1. 1 \in Existing /\ clients[1].read \in Nat /\ clients'[1].read \in Nat /\ clients[1].read <= clients'[1].read
    <2>1. 1 \in Existing /\ clients[1].read \in Nat
        BY RecordedIds, State
    <2>2. 1 \in Existing' /\ clients[1].read <= clients'[1].read
        BY <2>1, Objects DEF ObjectStep
    <2>3. clients'[1] \in Object
        BY <2>2, LenProperties, ElementOfSeq DEF Kinds, LifeCycleTypeOK, Existing
    <2> QED BY <2>1, <2>2, <2>3 DEF Object
<1>2. ASSUME NEW c \in Existing \ NotTasks
      PROVE  \E i \in CreateAt : i <= clients[1].read /\ log[i].id = clients[c].id /\ M(c, i)
    <2>1. PICK i \in CreateAt : i <= clients[1].read /\ log[i].id = clients[c].id /\ log[i].task = clients[c].role
        BY DEF IInv, TaskClientsMade, MadeFor
    <2>2. i \in Nat /\ log'[i] = log[i]
        BY Messages
    <2>3. clients'[c].id = clients[c].id /\ clients'[c].role = clients[c].role
        BY Objects DEF ObjectStep
    <2> QED BY <1>1, <2>1, <2>2, <2>3
<1>3. ASSUME MakesTask
      PROVE  \E i \in CreateAt : M(Len(clients'), i) /\ clients[1].read < i
    BY <1>1, <1>3, MadeNow, Messages
<1>4. ASSUME NEW c \in Existing' \ NotTasks' PROVE \E i \in CreateAt' : MadeFor(c, i)'
    <2>1. \E i \in CreateAt : M(c, i)
        BY <1>2, <1>3, OfTasks
    <2> QED BY <2>1, Messages DEF MadeFor
<1>5. ASSUME MakesTask, NEW d \in Existing \ NotTasks PROVE clients'[Len(clients')].id # clients[d].id
    <2>1. PICK i \in CreateAt : log[i].id = clients'[Len(clients')].id /\ clients[1].read < i
        BY <1>5, MadeNow
    <2>2. PICK j \in CreateAt : log[j].id = clients[d].id /\ j <= clients[1].read
        BY <1>2
    <2>3. j < i
        BY <1>1, <2>1, <2>2, Messages
    <2>4. log[j].id < log[i].id /\ log[j].id \in Nat /\ log[i].id \in Nat
        BY <2>3, RecordedIds, State, MessageKinds DEF IInv, CreatesInOrder, CreateAt
    <2> QED BY <2>1, <2>2, <2>4
<1>6. ASSUME NEW c \in Existing' \ NotTasks', NEW d \in Existing' \ NotTasks', c # d
      PROVE  clients'[c].id # clients'[d].id
    <2>1. CASE c \in Existing \ NotTasks /\ d \in Existing \ NotTasks
        BY <1>6, <2>1, OfTasks DEF IInv, TaskClientsMade
    <2>2. CASE c \notin Existing \ NotTasks \/ d \notin Existing \ NotTasks
        BY <1>5, <1>6, <2>2, OfTasks
    <2> QED BY <2>1, <2>2
<1> QED BY <1>4, <1>6 DEF TaskClientsMade

LEMMA OthersCountedKept ==
    ASSUME IInv, Kinds
    PROVE  OthersCounted'
<1>1. \A c \in NotTasks : c \in Existing /\ clients[c].id \in Nat /\ clients[c].id < nextId
    BY RecordedIds, State DEF IInv, OthersCounted, NotTasks
<1>2. ASSUME NEW c \in NotTasks' PROVE clients'[c].id < nextId'
    BY <1>1, OfTasks, OtherNow, Requests
<1>3. ASSUME NEW c \in NotTasks', NEW d \in NotTasks', c # d PROVE clients'[c].id # clients'[d].id
    <2>1. CASE c \in NotTasks /\ d \in NotTasks
        BY <1>1, <1>3, <2>1, OfTasks DEF IInv, OthersCounted
    <2>2. CASE c \notin NotTasks \/ d \notin NotTasks
        BY <1>1, <1>3, <2>2, OfTasks, OtherNow, Requests
    <2> QED BY <2>1, <2>2
<1> QED BY <1>2, <1>3 DEF OthersCounted

\* A process that has started quietly had done so before.
LEMMA StartedQuietly ==
    ASSUME IInv, Kinds, QuietStart'
    PROVE  QuietStart /\ (MakesOther => CreateAt' = {})
<1>1. CreateAt = Positions("CreateNewService") /\ CreateAt' = Positions("CreateNewService")'
    BY LenProperties DEF IInv, Kinds, LifeCycleTypeOK, CreateAt, Positions
<1>2. \A i \in CreateAt' : \A c \in NotTasks' : clients'[c].since < i
    BY <1>1 DEF QuietStart
<1>3. \A i \in CreateAt : \A c \in NotTasks : clients[c].since < i
    BY <1>2, Messages, OfTasks, Objects DEF NotTasks, ObjectStep
<1>4. ASSUME MakesOther, NEW i \in CreateAt' PROVE FALSE
    <2>1. Len(clients') \in NotTasks' /\ Len(clients') \notin Existing
        BY <1>4, OtherNow
    <2>2. Len(clients') \in Existing'
        BY <2>1 DEF NotTasks
    <2>3. clients'[Len(clients')].since = Len(log) /\ log' = log
        BY <2>1, <2>2, Objects
    <2>4. Len(log) < i
        BY <1>2, <2>1, <2>3
    <2> QED BY <2>3, <2>4, Messages DEF CreateAt
<1> QED BY <1>1, <1>3, <1>4 DEF QuietStart

LEMMA OthersBeforeKept ==
    ASSUME IInv, Kinds
    PROVE  OthersBefore'
<1> SUFFICES ASSUME QuietStart', NEW c \in NotTasks', NEW i \in CreateAt' PROVE clients'[c].id < log'[i].id
    BY DEF OthersBefore
<1>1. QuietStart /\ ~MakesOther
    BY StartedQuietly
<1>2. c \in NotTasks /\ c \in Existing /\ clients'[c].id = clients[c].id
    BY <1>1, OfTasks DEF NotTasks
<1>3. CASE i \in CreateAt
    BY <1>1, <1>2, <1>3, Messages DEF IInv, OthersBefore
<1>4. CASE i \notin CreateAt
    <2>1. log'[i].id = nextId + 1 /\ nextId \in Nat
        BY <1>4, Requests
    <2>2. clients[c].id < nextId /\ clients[c].id \in Nat
        BY <1>2, RecordedIds, State DEF IInv, OthersCounted
    <2> QED BY <1>2, <2>1, <2>2
<1> QED BY <1>3, <1>4

LEMMA KilledStays ==
    ASSUME IInv, Kinds, NEW id, IsKilledId(id)
    PROVE  \E k \in KillAt' : log'[k].id = id
BY Messages DEF IsKilledId

LEMMA OnRecordOrKilledKept ==
    ASSUME IInv, Kinds
    PROVE  OnRecordOrKilled'
<1> SUFFICES ASSUME NEW i \in CreateAt', ~\E k \in KillAt' : log'[k].id = log'[i].id
             PROVE  serviceOf'[log'[i].task] = log'[i].id
    BY DEF OnRecordOrKilled, IsKilledId
<1>1. CASE i \in CreateAt
    <2>1. log'[i] = log[i] /\ log[i].task \in Task /\ 2 <= log[i].id
        BY <1>1, Messages, RecordedIds, State, MessageKinds DEF IInv, CreatesInOrder, CreateAt
    <2>2. serviceOf[log[i].task] = log[i].id
        BY <1>1, <2>1, KilledStays DEF IInv, OnRecordOrKilled
    <2>3. serviceOf[log[i].task] # NoService
        BY <2>1, <2>2 DEF NoService
    <2>4. serviceOf'[log[i].task] = serviceOf[log[i].task]
        BY <2>1, <2>2, <2>3 DEF Kinds, AnyStep, RecordStep
    <2> QED BY <2>1, <2>2, <2>4
<1>2. CASE i \notin CreateAt
    BY <1>2, Requests DEF IInv, LifeCycleTypeOK
<1> QED BY <1>1, <1>2

LEMMA RunsUnkilledKept ==
    ASSUME IInv, Kinds
    PROVE  RunsUnkilled'
<1> SUFFICES ASSUME NEW c \in Existing', clients'[c].phase = "running",
                    NEW k \in KillAt', clients'[c].since < k, k <= clients'[c].read
             PROVE  log'[k].id # clients'[c].id
    BY DEF RunsUnkilled
<1>0. k \in Nat /\ k \in 1 .. Len(log') /\ Len(log) \in Nat
    BY Messages DEF KillAt
<1>1. CASE c \in Existing
    <2>1. ObjectStep(c, clients'[c]) /\ clients[c] \in Object
        BY <1>1, Objects, RecordedIds, State
    <2>2. clients'[c].id = clients[c].id /\ clients'[c].since = clients[c].since /\ clients'[c].read <= Len(log)
          /\ clients[c].read \in Nat /\ clients[c].since \in Nat
        BY <2>1 DEF ObjectStep, Object
    <2>3. clients'[c].read \in Nat
        <3>1. clients'[c] \in Object
            BY LenProperties, ElementOfSeq DEF Kinds, LifeCycleTypeOK, Existing
        <3> QED BY <3>1 DEF Object
    <2>4. k \in KillAt /\ log'[k] = log[k]
        BY <1>0, <2>2, <2>3, Messages
    <2>5. CASE clients[c].read < k
        BY <2>1, <2>2, <2>4, <2>5 DEF ObjectStep
    <2>6. CASE k <= clients[c].read
        <3>1. CASE clients[c].phase = "running"
            BY <1>1, <2>2, <2>4, <2>6, <3>1 DEF IInv, RunsUnkilled
        <3>2. CASE clients[c].phase = "starting"
            <4>1. clients[c].read = 0
                BY <1>1, <3>2 DEF IInv, ManagerFirst
            <4> QED BY <1>0, <2>2, <2>6, <4>1
        <3> QED BY <2>1, <3>1, <3>2 DEF ObjectStep
    <2> QED BY <1>0, <2>2, <2>5, <2>6
<1>2. CASE c \notin Existing
    BY <1>0, <1>2, Objects
<1> QED BY <1>1, <1>2

LEMMA StoppedKilledKept ==
    ASSUME IInv, Kinds
    PROVE  StoppedKilled'
<1> SUFFICES ASSUME NEW c \in Existing', c # 1, clients'[c].phase # "running"
             PROVE  \E k \in KillAt' : log'[k].id = clients'[c].id
    BY DEF StoppedKilled, IsKilledId
<1>1. c \in Existing /\ ObjectStep(c, clients'[c])
    BY Objects
<1>2. IsKilledId(clients[c].id)
    BY <1>1 DEF ObjectStep, IInv, StoppedKilled
<1> QED BY <1>1, <1>2, KilledStays DEF ObjectStep

\* The record after the step.
LEMMA RecordAfter ==
    ASSUME IInv, Kinds, NEW t \in Task
    PROVE  \/ serviceOf'[t] = serviceOf[t]
           \/ serviceOf'[t] = NoService
           \/ /\ serviceOf'[t] = nextId' /\ nextId' = nextId + 1
              /\ \E i \in CreateAt' : log'[i].id = nextId' /\ log'[i].task = t
<1>1. CASE Keeps
    BY <1>1 DEF Keeps
<1>2. CASE Asks
    <2>1. PICK u \in Task :
             /\ nextId' = nextId + 1 /\ serviceOf' = [serviceOf EXCEPT ![u] = nextId']
             /\ Len(log) < Len(log') /\ log'[Len(log')] = Create(nextId', u)
        BY <1>2 DEF Asks
    <2>2. CASE t # u
        BY <2>1, <2>2 DEF IInv, LifeCycleTypeOK
    <2>3. CASE t = u
        <3>1. serviceOf'[t] = nextId'
            BY <2>1, <2>3 DEF IInv, LifeCycleTypeOK
        <3>2. log'[Len(log')].type = "CreateNewService" /\ log'[Len(log')].id = nextId' /\ log'[Len(log')].task = t
            BY <2>1, <2>3, MessagesMade, Requests
        <3>3. Len(log') \in CreateAt'
            BY <2>1, <3>2, Messages DEF CreateAt
        <3> QED BY <2>1, <3>1, <3>2, <3>3
    <2> QED BY <2>2, <2>3
<1>3. CASE MakesOther \/ MakesTask
    BY <1>3 DEF MakesOther, MakesTask, Makes
<1> QED BY <1>1, <1>2, <1>3 DEF Kinds

LEMMA RecordAskedForKept ==
    ASSUME IInv, Kinds
    PROVE  RecordAskedFor'
<1> SUFFICES ASSUME NEW t \in Task, serviceOf'[t] # NoService
             PROVE  \E i \in CreateAt' : log'[i].id = serviceOf'[t] /\ log'[i].task = t
    BY DEF RecordAskedFor, NoService
<1>1. CASE serviceOf'[t] = serviceOf[t]
    <2>1. PICK i \in CreateAt : log[i].id = serviceOf[t] /\ log[i].task = t
        BY <1>1 DEF IInv, RecordAskedFor
    <2> QED BY <1>1, <2>1, Messages
<1> QED BY <1>1, RecordAfter

\* No two tasks have the same service on record.
LEMMA OneTaskPerService ==
    ASSUME IInv, NEW t \in Task, NEW u \in Task, serviceOf[t] = serviceOf[u], serviceOf[t] # NoService
    PROVE  t = u
<1>1. PICK i \in CreateAt : log[i].id = serviceOf[t] /\ log[i].task = t
    BY DEF IInv, RecordAskedFor
<1>2. PICK j \in CreateAt : log[j].id = serviceOf[u] /\ log[j].task = u
    BY DEF IInv, RecordAskedFor
<1>3. i \in Nat /\ j \in Nat /\ log[i].id \in Nat /\ log[j].id \in Nat
    BY RecordedIds, State, MessageKinds DEF CreateAt
<1>4. ~(i < j) /\ ~(j < i)
    BY <1>1, <1>2, <1>3 DEF IInv, CreatesInOrder
<1> QED BY <1>1, <1>2, <1>3, <1>4

LEMMA RecordUnkilledKept ==
    ASSUME IInv, Kinds
    PROVE  RecordUnkilled'
<1> SUFFICES ASSUME ~EndBegun', NEW k \in KillAt', NEW t \in Task
             PROVE  log'[k].id <= nextId' /\ (serviceOf'[t] = log'[k].id => log'[k].id <= 1)
    BY DEF RecordUnkilled
<1>1. ~EndBegun
    BY DEF Kinds, AnyStep
<1>2. /\ nextId \in Nat /\ nextId' \in Nat /\ nextId <= nextId' /\ 2 <= nextId
      /\ k \in 1 .. Len(log') /\ log'[k].type = "KillService" /\ Len(log) \in Nat
    BY Requests, Messages DEF IInv, ManagerFirst, KillAt
<1>3. log'[k].id \in Int
    BY <1>2, LenProperties, ElementOfSeq, MessageKinds DEF Kinds, LifeCycleTypeOK
<1>4. CASE k <= Len(log)
    <2>1. k \in KillAt /\ log'[k] = log[k]
        BY <1>2, <1>4, Messages
    <2>2. log[k].id <= nextId /\ (serviceOf[t] = log[k].id => log[k].id <= 1)
        BY <1>1, <2>1 DEF IInv, RecordUnkilled
    <2>3. CASE serviceOf'[t] = serviceOf[t]
        BY <1>2, <1>3, <2>1, <2>2, <2>3
    <2>4. CASE serviceOf'[t] = NoService
        BY <1>2, <1>3, <2>1, <2>2, <2>4 DEF NoService
    <2>5. CASE serviceOf'[t] = nextId' /\ nextId' = nextId + 1
        BY <1>2, <1>3, <2>1, <2>2, <2>5
    <2> QED BY <2>3, <2>4, <2>5, RecordAfter
<1>5. CASE k > Len(log)
    <2>1. \/ log'[k].id <= 1
          \/ \E u \in Task : serviceOf[u] = log'[k].id /\ serviceOf'[u] # serviceOf[u]
        BY <1>2, <1>5 DEF Kinds, AnyStep, KillsStep
    <2>2. CASE log'[k].id <= 1
        BY <1>2, <1>3, <2>2
    <2>3. ASSUME NEW u \in Task, serviceOf[u] = log'[k].id, serviceOf'[u] # serviceOf[u]
          PROVE  log'[k].id <= nextId' /\ (serviceOf'[t] = log'[k].id => log'[k].id <= 1)
        <3>1. log'[k].id <= nextId
            BY <2>3, RecordedIds
        <3>2. CASE serviceOf'[t] = serviceOf[t]
            <4>1. t # u
                BY <2>3, <3>2
            <4>2. serviceOf[t] = serviceOf[u] => serviceOf[u] = NoService
                BY <4>1, OneTaskPerService
            <4> QED BY <1>2, <1>3, <2>3, <3>1, <3>2, <4>2 DEF NoService
        <3>3. CASE serviceOf'[t] = NoService
            BY <1>2, <1>3, <3>1, <3>3 DEF NoService
        <3>4. CASE serviceOf'[t] = nextId' /\ nextId' = nextId + 1
            BY <1>2, <1>3, <3>1, <3>4
        <3> QED BY <3>2, <3>3, <3>4, RecordAfter
    <2> QED BY <2>1, <2>2, <2>3
<1> QED BY <1>2, <1>4, <1>5

LEMMA ReadIsMadeKept ==
    ASSUME IInv, Kinds
    PROVE  ReadIsMade'
<1> DEFINE M(c, i) == i <= clients'[1].read /\ log'[i].id = clients'[c].id /\ log'[i].task = clients'[c].role
<1> SUFFICES ASSUME ~EndBegun', NEW i \in CreateAt', i <= clients'[1].read, log'[i].task \notin Unserviceable
             PROVE  \E c \in Existing' \ NotTasks' : M(c, i)
    BY DEF ReadIsMade, MadeFor
<1>1. ~EndBegun
    BY DEF Kinds, AnyStep
<1>2. 1 \in Existing /\ clients[1].read \in Nat /\ clients'[1].read \in Nat /\ clients'[1].read <= Len(log)
    <2>1. 1 \in Existing /\ clients[1].read \in Nat
        BY RecordedIds, State
    <2>2. 1 \in Existing' /\ clients'[1].read <= Len(log)
        BY <2>1, Objects DEF ObjectStep
    <2>3. clients'[1] \in Object
        BY <2>2, LenProperties, ElementOfSeq DEF Kinds, LifeCycleTypeOK, Existing
    <2> QED BY <2>1, <2>2, <2>3 DEF Object
<1>3. i \in CreateAt /\ log'[i] = log[i] /\ i \in Nat
    <2>1. i \in 1 .. Len(log') /\ i <= Len(log)
        BY <1>2, Messages DEF CreateAt
    <2> QED BY <2>1, Messages
<1>4. CASE i <= clients[1].read
    <2>1. PICK c \in Existing \ NotTasks : log[i].id = clients[c].id /\ log[i].task = clients[c].role
        BY <1>1, <1>3, <1>4 DEF IInv, ReadIsMade, MadeFor
    <2>2. c \in Existing' \ NotTasks' /\ clients'[c].id = clients[c].id /\ clients'[c].role = clients[c].role
        BY Objects, OfTasks DEF ObjectStep
    <2> QED BY <1>3, <2>1, <2>2
<1>5. CASE clients[1].read < i
    <2>1. Len(clients') \notin Existing /\ M(Len(clients'), i)
        BY <1>3, <1>5 DEF Kinds, AnyStep, ManagerStepsOn, MadeFor
    <2>2. log[i].task \in Task
        BY <1>3, RecordedIds, State, MessageKinds DEF CreateAt
    <2>3. Len(clients') \in Existing'
        <3>1. Existing' = 1 .. Len(clients') /\ Len(clients') \in Nat /\ 1 \in Existing'
            BY <1>2, Objects, LenProperties DEF Kinds, LifeCycleTypeOK, Existing
        <3> QED BY <3>1
    <2>4. Len(clients') \notin NotTasks'
        BY <1>3, <2>1, <2>2 DEF NotTasks
    <2> QED BY <2>1, <2>3, <2>4
<1> QED BY <1>2, <1>3, <1>4, <1>5

\* The identifier that the manager reads of is not taken.
LEMMA NotTaken ==
    ASSUME IInv, QuietStart, NEW i \in CreateAt, clients[1].read < i
    PROVE  ~IsTaken(log[i].id)
<1> SUFFICES ASSUME NEW d \in services, clients[d].id = log[i].id PROVE FALSE
    BY DEF IsTaken
<1>1. d \in Existing /\ log[i].id \in Nat /\ clients[1].read \in Nat /\ CreateAt \in SUBSET Nat
    BY RecordedIds, State, MessageKinds DEF IInv, LifeCycleTypeOK, CreateAt
<1>2. CASE d \in NotTasks
    BY <1>1, <1>2 DEF IInv, OthersBefore
<1>3. CASE d \notin NotTasks
    <2>1. PICK j \in CreateAt : j <= clients[1].read /\ log[j].id = clients[d].id
        BY <1>1, <1>3 DEF IInv, TaskClientsMade, MadeFor
    <2>2. j < i
        BY <1>1, <2>1
    <2>3. log[j].id < log[i].id
        BY <2>2 DEF IInv, CreatesInOrder
    <2> QED BY <1>1, <2>1, <2>3
<1> QED BY <1>2, <1>3

LEMMA DestroyedWhenFinishedKept ==
    ASSUME IInv, Kinds
    PROVE  DestroyedWhenFinished'
<1> SUFFICES ASSUME QuietStart', main' # "ended", NEW c \in Existing', c # 1
             PROVE  IF clients'[c].destroyed THEN clients'[c].phase = "finished"
                    ELSE c \in services' \cup bridges'
    BY DEF DestroyedWhenFinished, IsFinished, Manager
<1>1. QuietStart /\ main # "ended"
    BY StartedQuietly DEF Kinds, AnyStep
<1>2. CASE c \in Existing
    <2>1. ObjectStep(c, clients'[c])
        BY <1>2, Objects
    <2>2. IF clients[c].destroyed THEN clients[c].phase = "finished" ELSE c \in services \cup bridges
        BY <1>1, <1>2 DEF IInv, DestroyedWhenFinished, IsFinished, Manager
    <2>3. ASSUME clients'[c].destroyed PROVE clients'[c].phase = "finished"
        BY <2>1, <2>2, <2>3 DEF ObjectStep
    <2>4. ASSUME ~clients'[c].destroyed PROVE c \in services' \cup bridges'
        BY <2>1, <2>2, <2>4 DEF ObjectStep
    <2> QED BY <2>3, <2>4
<1>3. CASE c \notin Existing
    <2>1. c = Len(clients') /\ (MakesOther \/ MakesTask)
        BY <1>3, Objects
    <2>2. CASE MakesOther
        BY <2>1, <2>2, OtherNow
    <2>3. CASE MakesTask
        <3>1. PICK i \in CreateAt :
                 /\ clients[1].read < i
                 /\ IsTaken(log[i].id) \/ (~clients'[c].destroyed /\ c \in services' \cup bridges')
            BY <2>1, <2>3, MadeNow
        <3>2. ~IsTaken(log[i].id)
            BY <1>1, <3>1, NotTaken
        <3> QED BY <3>1, <3>2
    <2> QED BY <2>1, <2>2, <2>3
<1> QED BY <1>2, <1>3

-----------------------------------------------------------------------------
(***************************************************************************)
(* The inductive invariant.                                                *)
(***************************************************************************)
LEMMA IInvInit == Init => IInv
<1> SUFFICES ASSUME Init PROVE IInv
    OBVIOUS
<1> USE DEF Init, ManagerInit, TaskManagerInit
<1>1. /\ Len(clients) = 1 /\ DOMAIN clients = {1} /\ Len(log) = 0 /\ 1 .. Len(log) = {}
      /\ clients[1] = [id |-> 1, role |-> "ServiceManager", since |-> 0, read |-> 0,
                       phase |-> "starting", destroyed |-> FALSE]
    OBVIOUS
<1>2. clients[1] \in Object
    BY <1>1 DEF Object, Role
<1>3. LifeCycleTypeOK
    <2>1. clients \in Seq(Object)
        BY <1>1, <1>2
    <2>2. log \in Seq(Message) /\ nextId \in Nat /\ sent \in Nat
        OBVIOUS
    <2>3. serviceOf \in [Task -> Nat] /\ isLocated \in BOOLEAN
        BY DEF NoService
    <2>4. services = {} /\ bridges = {} /\ main = "services" /\ requested = FALSE /\ expired = FALSE
          /\ config \in Configuration
        OBVIOUS
    <2> QED BY <2>1, <2>2, <2>3, <2>4 DEF LifeCycleTypeOK
<1>4. CreateAt = {} /\ KillAt = {}
    BY <1>1 DEF CreateAt, KillAt
<1>5. Existing = {1} /\ NotTasks = {1}
    BY <1>1, ConfigurationAssumption DEF Existing, NotTasks
<1>6. ManagerFirst /\ ReadSoFar
    BY <1>1, <1>5 DEF ManagerFirst, ReadSoFar
<1>7. CreatesInOrder /\ TaskClientsMade /\ OthersCounted /\ OthersBefore
    BY <1>1, <1>4, <1>5 DEF CreatesInOrder, TaskClientsMade, OthersCounted, OthersBefore
<1>8. OnRecordOrKilled /\ RunsUnkilled /\ StoppedKilled
    BY <1>1, <1>4, <1>5 DEF OnRecordOrKilled, RunsUnkilled, StoppedKilled
<1>9. RecordAskedFor /\ RecordUnkilled /\ ReadIsMade
    BY <1>4 DEF RecordAskedFor, RecordUnkilled, ReadIsMade
<1>10. DestroyedWhenFinished
    BY <1>5 DEF DestroyedWhenFinished, Manager
<1> QED BY <1>3, <1>6, <1>7, <1>8, <1>9, <1>10 DEF IInv

LEMMA IInvNext == IInv /\ [Next]_vars => IInv'
<1> SUFFICES ASSUME IInv, [Next]_vars PROVE IInv'
    OBVIOUS
<1>1. Kinds
    BY StepKinds
<1>2. LifeCycleTypeOK'
    BY <1>1 DEF Kinds
<1>3. ManagerFirst' /\ ReadSoFar'
    BY <1>1, ManagerFirstKept, ReadSoFarKept
<1>4. CreatesInOrder' /\ TaskClientsMade' /\ OthersCounted' /\ OthersBefore'
    BY <1>1, CreatesInOrderKept, TaskClientsMadeKept, OthersCountedKept, OthersBeforeKept
<1>5. OnRecordOrKilled' /\ RunsUnkilled' /\ StoppedKilled'
    BY <1>1, OnRecordOrKilledKept, RunsUnkilledKept, StoppedKilledKept
<1>6. RecordAskedFor' /\ RecordUnkilled' /\ ReadIsMade'
    BY <1>1, RecordAskedForKept, RecordUnkilledKept, ReadIsMadeKept
<1>7. DestroyedWhenFinished'
    BY <1>1, DestroyedWhenFinishedKept
<1> QED BY <1>2, <1>3, <1>4, <1>5, <1>6, <1>7 DEF IInv

LEMMA IInvAlways == Spec => []IInv
BY IInvInit, IInvNext, PTL DEF Spec

\* No two objects have the same identifier if the process started quietly.
LEMMA IdsDiffer ==
    ASSUME IInv, QuietStart, NEW c \in Existing, NEW d \in Existing, c # d
    PROVE  clients[c].id # clients[d].id
<1>1. ASSUME NEW a \in Existing \ NotTasks, NEW b \in NotTasks PROVE clients[a].id # clients[b].id
    <2>1. PICK i \in CreateAt : log[i].id = clients[a].id
        BY DEF IInv, TaskClientsMade, MadeFor
    <2>2. b \in Existing /\ clients[b].id < log[i].id /\ clients[b].id \in Nat
        BY RecordedIds, State DEF IInv, OthersBefore, NotTasks
    <2> QED BY <2>1, <2>2
<1>2. CASE c \notin NotTasks /\ d \notin NotTasks
    BY <1>2 DEF IInv, TaskClientsMade
<1>3. CASE c \in NotTasks /\ d \in NotTasks
    BY <1>3 DEF IInv, OthersCounted
<1> QED BY <1>1, <1>2, <1>3

-----------------------------------------------------------------------------
(***************************************************************************)
(* Every variable keeps to its values: the log only has the messages that  *)
(* the bus knows, what the managers hold are objects that were made, and   *)
(* never the manager itself.                                               *)
(***************************************************************************)
THEOREM TypeCorrect == Spec => []LifeCycleTypeOK
<1>1. IInv => LifeCycleTypeOK
    BY DEF IInv
<1> QED BY <1>1, IInvAlways, PTL

(***************************************************************************)
(* LmcpObjectNetworkClientBase: after a quiet start, no two clients with a *)
(* thread have the same identifier.                                        *)
(***************************************************************************)
THEOREM IdentifiersDistinct == Spec => []DistinctIds
<1>1. IInv => DistinctIds
    BY IdsDiffer DEF DistinctIds
<1> QED BY <1>1, IInvAlways, PTL

(***************************************************************************)
(* TaskManagerService: a running service of a task is the one on record,   *)
(* or its KillService is on its way or came before it was there.           *)
(***************************************************************************)
THEOREM RunningIsOnRecord == Spec => []ServiceIsOnRecord
<1>1. ASSUME IInv PROVE ServiceIsOnRecord
    <2> SUFFICES ASSUME QuietStart, NEW c \in Existing \ NotTasks, clients[c].phase = "running",
                        serviceOf[clients[c].role] # clients[c].id, ~IsKilled(c)
                 PROVE  Overtaken(clients[c].id)
        BY DEF ServiceIsOnRecord
    <2>1. PICK i \in CreateAt : log[i].id = clients[c].id /\ log[i].task = clients[c].role
        BY <1>1 DEF IInv, TaskClientsMade, MadeFor
    <2>2. PICK k \in KillAt : log[k].id = clients[c].id
        BY <1>1, <2>1 DEF IInv, OnRecordOrKilled, IsKilledId
    <2>3. /\ Len(log) \in Nat /\ k \in 1 .. Len(log) /\ log[k].type = "KillService"
          /\ clients[c].read \in Nat /\ clients[c].since \in Nat
        BY <1>1, RecordedIds, State DEF KillAt
    <2>4. ~(clients[c].read < k)
        <3>1. k \in clients[c].read + 1 .. Len(log) => IsKilled(c)
            BY <2>2, <2>3 DEF IsKilled, Kills
        <3> QED BY <2>3, <3>1
    <2>5. k <= clients[c].since
        BY <1>1, <2>2, <2>3, <2>4 DEF IInv, RunsUnkilled
    <2>6. \A d \in Existing : clients[d].id = clients[c].id => clients[d].since >= k
        BY <1>1, <2>3, <2>5, IdsDiffer
    <2>7. k \in Positions("KillService")
        BY <1>1, <2>3, RecordedIds, State DEF Positions
    <2> QED BY <2>2, <2>6, <2>7 DEF Overtaken
<1> QED BY <1>1, IInvAlways, PTL

(***************************************************************************)
(* ServiceManager: until the end is begun, a service on record runs and is *)
(* not being killed, or is about to be made, or cannot be.                 *)
(***************************************************************************)
THEOREM RecordServed == Spec => []RecordIsServed
<1>1. ASSUME IInv PROVE RecordIsServed
    <2> SUFFICES ASSUME ~IsEnding, NEW t \in Task, serviceOf[t] # NoService, t \notin Unserviceable,
                        ~\E i \in Waiting(Manager) : log[i] = Create(serviceOf[t], t)
                 PROVE  \E c \in Existing : /\ clients[c].id = serviceOf[t]
                                            /\ clients[c].phase = "running" /\ ~IsKilled(c)
        BY DEF RecordIsServed
    <2>1. ~EndBegun
        BY DEF IsEnding, EndBegun, Manager
    <2>2. PICK i \in CreateAt : log[i].id = serviceOf[t] /\ log[i].task = t
        BY <1>1 DEF IInv, RecordAskedFor
    <2>3. /\ Len(log) \in Nat /\ i \in 1 .. Len(log) /\ log[i].type = "CreateNewService"
          /\ log[i] \in Message /\ clients[1].read \in Nat /\ clients[1].role = "ServiceManager"
        BY <1>1, RecordedIds, State DEF CreateAt, IInv, ManagerFirst
    <2>4. log[i] = Create(serviceOf[t], t)
        BY <2>2, <2>3 DEF Message, Create
    <2>5. i <= clients[1].read
        <3>1. clients[1].read < i => i \in Waiting(Manager)
            BY <2>3 DEF Waiting, Concerns, Manager
        <3> QED BY <2>3, <2>4, <3>1
    <2>6. PICK c \in Existing \ NotTasks : clients[c].id = serviceOf[t] /\ clients[c].role = t
        BY <1>1, <2>1, <2>2, <2>5 DEF IInv, ReadIsMade, MadeFor
    <2>7. c # 1
        BY <1>1, <2>6, ConfigurationAssumption DEF IInv, ManagerFirst
    <2>8. ASSUME NEW k \in KillAt PROVE log[k].id # clients[c].id
        <3>1. log[k].id = serviceOf[t] => log[k].id <= 1
            BY <1>1, <2>1 DEF IInv, RecordUnkilled
        <3>2. 2 <= serviceOf[t] /\ serviceOf[t] \in Nat
            BY <1>1, <2>2 DEF IInv, CreatesInOrder, LifeCycleTypeOK
        <3> QED BY <2>6, <3>1, <3>2
    <2>9. clients[c].phase = "running"
        BY <1>1, <2>6, <2>7, <2>8 DEF IInv, StoppedKilled, IsKilledId
    <2>10. ~IsKilled(c)
        <3>1. ASSUME NEW k \in clients[c].read + 1 .. Len(log), Kills(c, log[k]) PROVE FALSE
            <4>1. clients[c].read \in Nat
                BY <1>1, RecordedIds, State
            <4>2. k \in KillAt
                BY <2>3, <3>1, <4>1 DEF KillAt, Kills
            <4> QED BY <2>8, <3>1, <4>2 DEF Kills
        <3> QED BY <3>1 DEF IsKilled
    <2> QED BY <2>6, <2>9, <2>10
<1> QED BY <1>1, IInvAlways, PTL

(***************************************************************************)
(* ServiceManager::removeTerminatedServices: while the process runs, no    *)
(* object is destroyed that has not finished, and none is forgotten.       *)
(***************************************************************************)
THEOREM DestroyedFinished == Spec => []DestroyedWhenFinished
<1>1. IInv => DestroyedWhenFinished
    BY DEF IInv
<1> QED BY <1>1, IInvAlways, PTL
=============================================================================
