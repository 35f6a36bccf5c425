---------------------------- MODULE FleetProofs -----------------------------
(***************************************************************************)
(* Proofs about two services around the planning pipeline.                 *)
(*                                                                         *)
(* Vehicles that plan jointly, for any number of vehicles, requests and    *)
(* positions, with messages lost and times running out: all plan an entity *)
(* from the same state, none asks twice for the whole of a request, and a  *)
(* blank request never goes out instead of a real one.                     *)
(*                                                                         *)
(* The BatchSummaryService, however many batches it works on at once, with *)
(* whatever vehicles, tasks, relationships and plans: each summary is made *)
(* of the plans for its own batch that have its leg.                       *)
(***************************************************************************)
EXTENDS AssignmentCoordination, BatchSummary, SequenceTheorems, FiniteSetTheorems,
        WellFoundedInduction, TLAPS

(***************************************************************************)
(* Planning states.                                                        *)
(***************************************************************************)

LEMMA PlanningDef ==
    ASSUME NEW p
    PROVE  p \in Planning <=> /\ DOMAIN p \subseteq Vehicle
                              /\ p \in [DOMAIN p -> 1 .. MaxPosition]
BY DEF Planning

\* One more planning state, or a newer one in the place of an older.
LEMMA WithTyped ==
    ASSUME NEW p \in Planning, NEW e \in Vehicle, NEW n \in 1 .. MaxPosition
    PROVE  /\ With(p, e, n) \in Planning
           /\ DOMAIN With(p, e, n) = DOMAIN p \cup {e}
           /\ \A d \in DOMAIN p \cup {e} : With(p, e, n)[d] = IF d = e THEN n ELSE p[d]
<1>1. DOMAIN p \subseteq Vehicle /\ p \in [DOMAIN p -> 1 .. MaxPosition]
    BY PlanningDef
<1>2. DOMAIN With(p, e, n) = DOMAIN p \cup {e}
    BY DEF With
<1>3. \A d \in DOMAIN p \cup {e} : With(p, e, n)[d] = IF d = e THEN n ELSE p[d]
    BY DEF With
<1>4. With(p, e, n) \in [DOMAIN p \cup {e} -> 1 .. MaxPosition]
    BY <1>1 DEF With
<1>5. With(p, e, n) \in Planning
    BY <1>1, <1>2, <1>4, PlanningDef
<1> QED BY <1>2, <1>3, <1>5

LEMMA BlankTyped == Blank \in Elements /\ DOMAIN Blank.planning = {} /\ ~Blank.received
<1>1. [e \in {} |-> 1] \in Planning /\ DOMAIN [e \in {} |-> 1] = {}
    BY PlanningDef
<1> QED BY <1>1 DEF Blank, Elements

LEMMA CollectedTyped ==
    ASSUME CoordinationTypeOK, NEW v \in Vehicle, NEW r \in Coordinated
    PROVE  Collected(v, r) \in Elements
BY BlankTyped DEF Collected, CoordinationTypeOK

LEMMA JoinedTyped ==
    ASSUME NEW x \in Elements, NEW e \in Vehicle, NEW n \in 1 .. MaxPosition
    PROVE  /\ Joined(x, e, n) \in Elements
           /\ Joined(x, e, n).received = x.received
           /\ Joined(x, e, n).planning = With(x.planning, e, n)
<1>1. x.planning \in Planning /\ x.received \in BOOLEAN
    BY DEF Elements
<1>2. With(x.planning, e, n) \in Planning
    BY <1>1, WithTyped
<1> QED BY <1>2 DEF Joined, Elements

LEMMA WithOwnStateTyped ==
    ASSUME CoordinationTypeOK, NEW v \in Vehicle, NEW r \in Coordinated
    PROVE  /\ WithOwnState(v, r) \in Elements
           /\ WithOwnState(v, r).received
           /\ WithOwnState(v, r).planning =
                 IF lastLocalEntityState[v] = 0 \/ v \in DOMAIN Collected(v, r).planning
                 THEN Collected(v, r).planning
                 ELSE With(Collected(v, r).planning, v, lastLocalEntityState[v])
<1> DEFINE x == [Collected(v, r) EXCEPT !.received = TRUE]
<1>1. x \in Elements /\ x.received /\ x.planning = Collected(v, r).planning
    BY CollectedTyped DEF Elements
<1>2. lastLocalEntityState[v] # 0 => lastLocalEntityState[v] \in 1 .. MaxPosition
    BY CoordinatedAssumption DEF CoordinationTypeOK
<1>3. WithOwnState(v, r) = IF lastLocalEntityState[v] = 0 THEN x
                           ELSE JoinedIfAbsent(x, v, lastLocalEntityState[v])
    BY DEF WithOwnState
<1> HIDE DEF x
<1>4. ASSUME lastLocalEntityState[v] # 0
      PROVE  /\ Joined(x, v, lastLocalEntityState[v]) \in Elements
             /\ Joined(x, v, lastLocalEntityState[v]).received
             /\ Joined(x, v, lastLocalEntityState[v]).planning =
                   With(Collected(v, r).planning, v, lastLocalEntityState[v])
    <2>1. PICK n \in 1 .. MaxPosition : n = lastLocalEntityState[v]
        BY <1>2, <1>4
    <2> QED BY <1>1, <2>1, JoinedTyped
<1> QED BY <1>1, <1>3, <1>4 DEF JoinedIfAbsent

(***************************************************************************)
(* What a vehicle asks for.                                                *)
(***************************************************************************)

LEMMA AskTyped ==
    ASSUME NEW v, NEW r \in Coordinated, NEW x \in Elements, NEW isCut \in BOOLEAN
    PROVE  /\ TaskAutomationRequest(v, r, x, isCut) \in Ask
           /\ TaskAutomationRequest(v, r, x, isCut).request = r
           /\ TaskAutomationRequest(v, r, x, isCut).tasks = x.received
           /\ TaskAutomationRequest(v, r, x, isCut).cut = isCut
           /\ TaskAutomationRequest(v, r, x, isCut).planning = x.planning
<1>1. x.planning \in Planning /\ x.received \in BOOLEAN /\ DOMAIN x.planning \subseteq Vehicle
    BY PlanningDef DEF Elements
<1>2. EntityList[r] \subseteq Vehicle
    BY CoordinatedAssumption
<1> QED BY <1>1, <1>2 DEF TaskAutomationRequest, Ask

\* What one more request changes: the sequence of this vehicle gets it at its end.
LEMMA Appended ==
    ASSUME requested \in [Vehicle -> Seq(Ask)], NEW v \in Vehicle, NEW a \in Ask,
           requested' = [requested EXCEPT ![v] = Append(@, a)]
    PROVE  /\ requested' \in [Vehicle -> Seq(Ask)]
           /\ \A u \in Vehicle \ {v} : requested'[u] = requested[u]
           /\ Len(requested'[v]) = Len(requested[v]) + 1 /\ Len(requested[v]) \in Nat
           /\ \A i \in 1 .. Len(requested[v]) : requested'[v][i] = requested[v][i]
           /\ requested'[v][Len(requested[v]) + 1] = a
<1>1. requested[v] \in Seq(Ask)
    OBVIOUS
<1>2. /\ Append(requested[v], a) \in Seq(Ask)
      /\ Len(Append(requested[v], a)) = Len(requested[v]) + 1
      /\ \A i \in 1 .. Len(requested[v]) : Append(requested[v], a)[i] = requested[v][i]
      /\ Append(requested[v], a)[Len(requested[v]) + 1] = a
    BY <1>1, AppendProperties
<1>3. Len(requested[v]) \in Nat
    BY <1>1, LenProperties
<1>4. requested'[v] = Append(requested[v], a) /\ requested' \in [Vehicle -> Seq(Ask)]
    BY <1>2
<1> QED BY <1>2, <1>3, <1>4

(***************************************************************************)
(* The elements collected: replaced for one request of one vehicle, or     *)
(* removed.                                                                *)
(***************************************************************************)
Keeps(v, r, x) == coordinationElements' = [coordinationElements EXCEPT ![v] = With(@, r, x)]
Drops(v, r) == coordinationElements' = [coordinationElements EXCEPT ![v] = Without(@, r)]
Asks(v, a) == requested' = [requested EXCEPT ![v] = Append(@, a)]
ElementsOK ==
    /\ DOMAIN coordinationElements = Vehicle
    /\ \A v \in Vehicle : /\ DOMAIN coordinationElements[v] \subseteq Coordinated
                          /\ \A r \in DOMAIN coordinationElements[v] :
                                 coordinationElements[v][r] \in Elements

LEMMA Kept ==
    ASSUME ElementsOK, NEW v \in Vehicle, NEW r \in Coordinated, NEW x \in Elements, Keeps(v, r, x)
    PROVE  /\ ElementsOK'
           /\ \A u \in Vehicle \ {v} : coordinationElements'[u] = coordinationElements[u]
           /\ DOMAIN coordinationElements'[v] = DOMAIN coordinationElements[v] \cup {r}
           /\ \A s \in DOMAIN coordinationElements'[v] :
                 coordinationElements'[v][s] = IF s = r THEN x ELSE coordinationElements[v][s]
<1>1. \A u \in Vehicle : coordinationElements'[u] =
          IF u = v THEN With(coordinationElements[v], r, x) ELSE coordinationElements[u]
    BY DEF ElementsOK, Keeps
<1>2. DOMAIN coordinationElements' = Vehicle
    BY DEF ElementsOK, Keeps
<1>3. /\ DOMAIN coordinationElements'[v] = DOMAIN coordinationElements[v] \cup {r}
      /\ \A s \in DOMAIN coordinationElements'[v] :
             coordinationElements'[v][s] = IF s = r THEN x ELSE coordinationElements[v][s]
    BY <1>1 DEF With
<1>4. ElementsOK'
    BY <1>1, <1>2, <1>3 DEF ElementsOK
<1> QED BY <1>1, <1>3, <1>4

LEMMA Dropped ==
    ASSUME ElementsOK, NEW v \in Vehicle, NEW r, Drops(v, r)
    PROVE  /\ ElementsOK'
           /\ \A u \in Vehicle \ {v} : coordinationElements'[u] = coordinationElements[u]
           /\ DOMAIN coordinationElements'[v] = DOMAIN coordinationElements[v] \ {r}
           /\ \A s \in DOMAIN coordinationElements'[v] :
                 coordinationElements'[v][s] = coordinationElements[v][s]
<1>1. \A u \in Vehicle : coordinationElements'[u] =
          IF u = v THEN Without(coordinationElements[v], r) ELSE coordinationElements[u]
    BY DEF ElementsOK, Drops
<1>2. DOMAIN coordinationElements' = Vehicle
    BY DEF ElementsOK, Drops
<1>3. /\ DOMAIN coordinationElements'[v] = DOMAIN coordinationElements[v] \ {r}
      /\ \A s \in DOMAIN coordinationElements'[v] :
             coordinationElements'[v][s] = coordinationElements[v][s]
    BY <1>1 DEF Without
<1>4. ElementsOK'
    BY <1>1, <1>2, <1>3 DEF ElementsOK
<1> QED BY <1>1, <1>3, <1>4

(***************************************************************************)
(* The channels.                                                           *)
(***************************************************************************)
ChannelOK == \A c \in DOMAIN channel : channel[c] \in Seq(Message)

LEMMA BroadcastStep ==
    ASSUME CoordinationTypeOK, NEW v \in Vehicle, NEW r \in Coordinated, channel' = Broadcast(v, r)
    PROVE  /\ DOMAIN channel' = DOMAIN channel /\ ChannelOK'
           /\ \A c \in DOMAIN channel : \A i \in 1 .. Len(channel'[c]) :
                 \/ i \in 1 .. Len(channel[c]) /\ channel'[c][i] = channel[c][i]
                 \/ /\ c[1] = v /\ lastLocalEntityState[v] # 0
                    /\ channel'[c][i] = [request |-> r, position |-> lastLocalEntityState[v]]
<1> DEFINE m == [request |-> r, position |-> lastLocalEntityState[v]]
<1>1. CASE lastLocalEntityState[v] = 0
    BY <1>1 DEF Broadcast, CoordinationTypeOK, ChannelOK
<1>2. CASE lastLocalEntityState[v] # 0
    <2>1. m \in Message
        BY <1>2, CoordinatedAssumption DEF CoordinationTypeOK, Message
    <2>2. DOMAIN channel' = DOMAIN channel
        BY <1>2 DEF Broadcast
    <2>3. \A c \in DOMAIN channel : channel'[c] = IF c[1] = v THEN Append(channel[c], m) ELSE channel[c]
        BY <1>2 DEF Broadcast
    <2> HIDE DEF m
    <2>4. ASSUME NEW c \in DOMAIN channel
          PROVE  /\ channel'[c] \in Seq(Message)
                 /\ \A i \in 1 .. Len(channel'[c]) :
                       \/ i \in 1 .. Len(channel[c]) /\ channel'[c][i] = channel[c][i]
                       \/ c[1] = v /\ channel'[c][i] = m
        <3>1. channel[c] \in Seq(Message) /\ Len(channel[c]) \in Nat
            BY LenProperties DEF CoordinationTypeOK
        <3>2. CASE c[1] # v
            BY <2>3, <3>1, <3>2
        <3>3. CASE c[1] = v
            <4>1. /\ Append(channel[c], m) \in Seq(Message)
                  /\ Len(Append(channel[c], m)) = Len(channel[c]) + 1
                  /\ \A i \in 1 .. Len(channel[c]) : Append(channel[c], m)[i] = channel[c][i]
                  /\ Append(channel[c], m)[Len(channel[c]) + 1] = m
                BY <2>1, <3>1, AppendProperties
            <4>2. channel'[c] = Append(channel[c], m)
                BY <2>3, <3>3
            <4>3. ASSUME NEW i \in 1 .. Len(channel'[c])
                  PROVE  \/ i \in 1 .. Len(channel[c]) /\ channel'[c][i] = channel[c][i]
                         \/ channel'[c][i] = m
                <5>1. CASE i \in 1 .. Len(channel[c])
                    BY <4>1, <4>2, <5>1
                <5>2. CASE i = Len(channel[c]) + 1
                    BY <4>1, <4>2, <5>2
                <5> QED BY <3>1, <4>1, <4>2, <4>3, <5>1, <5>2
            <4> QED BY <3>3, <4>1, <4>2, <4>3
        <3> QED BY <3>2, <3>3
    <2>5. ChannelOK'
        BY <2>2, <2>4 DEF ChannelOK
    <2> QED BY <1>2, <2>2, <2>4, <2>5 DEF m
<1> QED BY <1>1, <1>2

LEMMA TailStep ==
    ASSUME CoordinationTypeOK, NEW c \in DOMAIN channel, channel[c] # <<>>,
           channel' = [channel EXCEPT ![c] = Tail(@)]
    PROVE  /\ DOMAIN channel' = DOMAIN channel /\ ChannelOK'
           /\ \A d \in DOMAIN channel : \A i \in 1 .. Len(channel'[d]) :
                 \E j \in 1 .. Len(channel[d]) : channel'[d][i] = channel[d][j]
           /\ 1 \in 1 .. Len(channel[c]) /\ Head(channel[c]) = channel[c][1]
           /\ Head(channel[c]) \in Message
<1>1. \A d \in DOMAIN channel : channel[d] \in Seq(Message) /\ Len(channel[d]) \in Nat
    BY LenProperties DEF CoordinationTypeOK
<1>2. Len(channel[c]) \in Nat \ {0}
    BY <1>1, EmptySeq
<1>3. /\ Head(channel[c]) = channel[c][1] /\ Tail(channel[c]) \in Seq(Message)
      /\ Len(Tail(channel[c])) = Len(channel[c]) - 1
      /\ \A i \in 1 .. Len(channel[c]) - 1 : Tail(channel[c])[i] = channel[c][i + 1]
    BY <1>1, HeadTailProperties
<1>4. channel[c][1] \in Message
    BY <1>1, <1>2, ElementOfSeq
<1>5. \A d \in DOMAIN channel : channel'[d] = IF d = c THEN Tail(channel[c]) ELSE channel[d]
    OBVIOUS
<1>6. DOMAIN channel' = DOMAIN channel /\ ChannelOK'
    BY <1>1, <1>3, <1>5 DEF ChannelOK
<1>7. ASSUME NEW d \in DOMAIN channel, NEW i \in 1 .. Len(channel'[d])
      PROVE  \E j \in 1 .. Len(channel[d]) : channel'[d][i] = channel[d][j]
    <2>1. CASE d # c
        BY <1>5, <1>7, <2>1
    <2>2. CASE d = c
        <3>1. i \in 1 .. Len(channel[c]) - 1 /\ channel'[c][i] = channel[c][i + 1]
            BY <1>3, <1>5, <1>7, <2>2
        <3>2. i + 1 \in 1 .. Len(channel[c])
            BY <1>2, <3>1
        <3> QED BY <2>2, <3>1, <3>2
    <2> QED BY <2>1, <2>2
<1> QED BY <1>2, <1>3, <1>4, <1>6, <1>7

(***************************************************************************)
(* Type correctness.                                                       *)
(***************************************************************************)
AsksOK == requested \in [Vehicle -> Seq(Ask)]

LEMMA JointTyped ==
    ASSUME joint \in JointSettings
    PROVE  /\ joint.vehicles \subseteq Vehicle /\ joint.requests \subseteq Coordinated
           /\ joint.positions \in 1 .. MaxPosition
BY CoordinatedAssumption

LEMMA CheckTyped ==
    ASSUME CoordinationTypeOK, NEW v \in Vehicle, NEW r \in Coordinated, NEW x \in Elements,
           CheckAssignmentReady(v, r, x)
    PROVE  ElementsOK' /\ AsksOK'
<1> USE DEF AsksOK
<1>1. ElementsOK /\ AsksOK
    BY DEF CoordinationTypeOK, ElementsOK
<1>2. CASE /\ Drops(v, r)
           /\ Asks(v, TaskAutomationRequest(v, r, x, FALSE))
    <2>1. PICK a \in Ask : a = TaskAutomationRequest(v, r, x, FALSE)
        BY AskTyped
    <2> QED BY <1>1, <1>2, <2>1, Dropped, Appended DEF Asks
<1>3. CASE Keeps(v, r, x) /\ UNCHANGED requested
    BY <1>1, <1>3, Kept
<1> QED BY <1>2, <1>3 DEF CheckAssignmentReady, Keeps, Drops, Asks

LEMMA TypeInit == CoordinationInit => CoordinationTypeOK
<1> SUFFICES ASSUME CoordinationInit PROVE CoordinationTypeOK
    OBVIOUS
<1>1. joint.vehicles \subseteq Vehicle /\ joint.requests \subseteq Coordinated
    BY JointTyped DEF CoordinationInit
<1>2. requested \in [Vehicle -> Seq(Ask)]
    <2>1. <<>> \in Seq(Ask)
        OBVIOUS
    <2> QED BY <2>1 DEF CoordinationInit
<1>3. \A c \in DOMAIN channel : channel[c] \in Seq(Message)
    <2>1. <<>> \in Seq(Message)
        OBVIOUS
    <2> QED BY <2>1 DEF CoordinationInit
<1>4. lastLocalEntityState \in [Vehicle -> 0 .. MaxPosition]
    BY CoordinatedAssumption DEF CoordinationInit
<1> QED BY <1>1, <1>2, <1>3, <1>4 DEF CoordinationInit, CoordinationTypeOK

LEMMA TypeStep == CoordinationTypeOK /\ [CoordinationNext]_coordinationVars => CoordinationTypeOK'
<1> SUFFICES ASSUME CoordinationTypeOK, [CoordinationNext]_coordinationVars PROVE CoordinationTypeOK'
    OBVIOUS
<1> USE DEF ElementsOK, AsksOK, ChannelOK
<1>1. joint.vehicles \subseteq Vehicle /\ joint.requests \subseteq Coordinated
      /\ joint.positions \in 1 .. MaxPosition
    BY JointTyped DEF CoordinationTypeOK
<1>2. ASSUME NEW v \in joint.vehicles, NEW r \in joint.requests, HandleCoordinatedAutomationRequest(v, r)
      PROVE  CoordinationTypeOK'
    <2>1. PICK x \in Elements : x = WithOwnState(v, r)
        BY <1>1, WithOwnStateTyped
    <2>2. ElementsOK' /\ AsksOK'
        BY <1>1, <1>2, <2>1, CheckTyped DEF HandleCoordinatedAutomationRequest
    <2>3. DOMAIN channel' = DOMAIN channel /\ ChannelOK'
        BY <1>1, <1>2, BroadcastStep DEF HandleCoordinatedAutomationRequest
    <2>4. maxTimes' \in [Vehicle -> [Coordinated -> Nat]]
        BY <1>1, <1>2 DEF HandleCoordinatedAutomationRequest, CoordinationTypeOK
    <2>5. ordered' \subseteq ordered /\ taken' \in [Vehicle -> SUBSET Coordinated]
        BY <1>1, <1>2 DEF HandleCoordinatedAutomationRequest, TakeRequest, CoordinationTypeOK
    <2> QED
        BY <1>1, <1>2, <2>2, <2>3, <2>4, <2>5 DEF HandleCoordinatedAutomationRequest, CoordinationTypeOK
<1>3. ASSUME NEW v \in joint.vehicles, NEW r \in joint.requests, CheckForAssignmentTimeMax(v, r)
      PROVE  CoordinationTypeOK'
    <2>1. PICK a \in Ask : a = TaskAutomationRequest(v, r, Collected(v, r), TRUE)
        BY <1>1, CollectedTyped, AskTyped
    <2>2. AsksOK'
        BY <1>1, <1>3, <2>1, Appended DEF CheckForAssignmentTimeMax, CoordinationTypeOK
    <2>3. maxTimes' \in [Vehicle -> [Coordinated -> Nat]]
        BY <1>1, <1>3 DEF CheckForAssignmentTimeMax, CoordinationTypeOK
    <2> QED BY <1>1, <1>3, <2>2, <2>3 DEF CheckForAssignmentTimeMax, CoordinationTypeOK, surroundings
<1>4. ASSUME NEW v \in joint.vehicles, NEW w \in joint.vehicles \ {v}, HandleAssignmentCoordination(v, w)
      PROVE  CoordinationTypeOK'
    <2>1. PICK c \in DOMAIN channel : c = <<w, v>>
        BY <1>4 DEF CoordinationTypeOK
    <2>2. /\ DOMAIN channel' = DOMAIN channel /\ ChannelOK'
          /\ Head(channel[c]) \in Message
        BY <1>4, <2>1, TailStep DEF HandleAssignmentCoordination
    <2>3. PICK m \in Message : m = Head(channel[<<w, v>>])
        BY <2>1, <2>2
    <2>4. m.request \in Coordinated /\ m.position \in 1 .. MaxPosition
        BY DEF Message
    <2>5. Joined(Collected(v, m.request), w, m.position) \in Elements
        BY <1>1, <2>4, CollectedTyped, JoinedTyped
    <2>6. CheckAssignmentReady(v, m.request, Joined(Collected(v, m.request), w, m.position))
        BY <1>4, <2>3 DEF HandleAssignmentCoordination
    <2>7. ElementsOK' /\ AsksOK'
        BY <1>1, <2>4, <2>5, <2>6, CheckTyped
    <2> QED BY <1>1, <1>4, <2>2, <2>7 DEF HandleAssignmentCoordination, CoordinationTypeOK
<1>5. ASSUME NEW v \in joint.vehicles, HandleTaskAutomationResponse(v) PROVE CoordinationTypeOK'
    <2>1. ElementsOK'
        BY <1>1, <1>5, Dropped DEF HandleTaskAutomationResponse, Drops, CoordinationTypeOK
    <2> QED BY <1>1, <1>5, <2>1 DEF HandleTaskAutomationResponse, CoordinationTypeOK
<1>6. ASSUME NEW v \in joint.vehicles, HandleAirVehicleState(v) PROVE CoordinationTypeOK'
    BY <1>1, <1>6, CoordinatedAssumption DEF HandleAirVehicleState, CoordinationTypeOK, surroundings
<1>7. ASSUME NEW v \in joint.vehicles, NEW r \in joint.requests, HandleForeignResponse(v, r)
      PROVE  CoordinationTypeOK'
    <2>1. ElementsOK'
        BY <1>1, <1>7, Dropped DEF HandleForeignResponse, Drops, CoordinationTypeOK
    <2> QED BY <1>1, <1>7, <2>1 DEF HandleForeignResponse, CoordinationTypeOK
<1>8. ASSUME NEW v \in joint.vehicles, NEW r \in joint.requests, LoseRequest(v, r)
      PROVE  CoordinationTypeOK'
    BY <1>8 DEF LoseRequest, CoordinationTypeOK, coordinator
<1>9. ASSUME NEW v \in joint.vehicles, NEW w \in joint.vehicles \ {v}, LoseCoordination(v, w)
      PROVE  CoordinationTypeOK'
    <2>1. PICK c \in DOMAIN channel : c = <<v, w>>
        BY <1>9 DEF CoordinationTypeOK
    <2>2. DOMAIN channel' = DOMAIN channel /\ ChannelOK'
        BY <1>9, <2>1, TailStep DEF LoseCoordination
    <2> QED BY <1>9, <2>2 DEF LoseCoordination, CoordinationTypeOK, coordinator
<1>10. CASE UNCHANGED coordinationVars
    BY <1>10 DEF coordinationVars, coordinator, surroundings, CoordinationTypeOK
<1> QED
    BY <1>2, <1>3, <1>4, <1>5, <1>6, <1>7, <1>8, <1>9, <1>10
    DEF CoordinationNext, CoordinationWork, CoordinationSurroundings

(***************************************************************************)
(* Whatever comes, is lost or runs out, the coordinators keep their types: *)
(* every collection is a function of vehicles, every request to a planner  *)
(* is for known vehicles.                                                  *)
(***************************************************************************)
THEOREM Typed == CoordinationSpec => []CoordinationTypeOK
BY TypeInit, TypeStep, PTL DEF CoordinationSpec

(***************************************************************************)
(* The same planning states.                                               *)
(*                                                                         *)
(* Each vehicle settles on one position for a request: the one it has when *)
(* it takes the request.  f holds those positions, 0 where none is settled *)
(* on; whatever is collected, asked for or under way is of f.  A vehicle   *)
(* settles at most once on a request that does not come again; f is about  *)
(* these requests only.                                                    *)
(***************************************************************************)
Unique == {r \in Coordinated : IsUnique(r)}
Settled == [Vehicle \X Unique -> 0 .. MaxPosition]
Agrees(f, r, p) == \A e \in DOMAIN p : <<e, r>> \in DOMAIN f => p[e] = f[<<e, r>>]
HeldAgree(f) ==
    \A v \in Vehicle : \A r \in DOMAIN coordinationElements[v] :
        Agrees(f, r, coordinationElements[v][r].planning)
AskedAgree(f) ==
    \A v \in Vehicle : \A i \in 1 .. Len(requested[v]) :
        Agrees(f, requested[v][i].request, requested[v][i].planning)
ChannelAgree(f) ==
    \A c \in DOMAIN channel : \A i \in 1 .. Len(channel[c]) :
        <<c[1], channel[c][i].request>> \in DOMAIN f =>
            channel[c][i].position = f[<<c[1], channel[c][i].request>>]
OrderedUnsettled(f) == \A o \in ordered \cap DOMAIN f : f[o] = 0
AllAgree(f) == HeldAgree(f) /\ AskedAgree(f) /\ ChannelAgree(f) /\ OrderedUnsettled(f)
Agreement == \E f \in Settled : AllAgree(f)

LEMMA AgreesWith ==
    ASSUME NEW f, NEW r, NEW p \in Planning, Agrees(f, r, p), NEW e \in Vehicle,
           NEW n \in 1 .. MaxPosition, <<e, r>> \in DOMAIN f => f[<<e, r>>] = n
    PROVE  Agrees(f, r, With(p, e, n))
<1> DEFINE q == With(p, e, n)
<1>1. /\ DOMAIN q = DOMAIN p \cup {e}
      /\ \A d \in DOMAIN p \cup {e} : q[d] = IF d = e THEN n ELSE p[d]
    BY DEF With
<1> HIDE DEF q
<1>2. Agrees(f, r, q)
    BY <1>1 DEF Agrees
<1> QED BY <1>2 DEF q

\* Settling where nothing was settled leaves the agreement: a known position is not 0.
LEMMA AgreesStill ==
    ASSUME NEW f \in Settled, NEW o \in Vehicle \X Coordinated, o \in DOMAIN f => f[o] = 0,
           NEW n \in 0 .. MaxPosition, NEW p \in Planning, NEW r \in Coordinated, Agrees(f, r, p)
    PROVE  Agrees([f EXCEPT ![o] = n], r, p)
<1> DEFINE g == [f EXCEPT ![o] = n]
<1>1. ASSUME NEW e \in DOMAIN p, <<e, r>> \in DOMAIN g PROVE p[e] = g[<<e, r>>]
    <2>1. p[e] \in 1 .. MaxPosition /\ <<e, r>> \in DOMAIN f
        BY <1>1, PlanningDef
    <2>2. f[<<e, r>>] # 0 /\ p[e] = f[<<e, r>>]
        BY <2>1, CoordinatedAssumption DEF Agrees
    <2> QED BY <2>1, <2>2
<1>2. \A e \in DOMAIN p : <<e, r>> \in DOMAIN g => p[e] = g[<<e, r>>]
    BY <1>1
<1> QED BY <1>2, Zenon DEF Agrees

LEMMA AllAgreeStill ==
    ASSUME CoordinationTypeOK, NEW f \in Settled, HeldAgree(f), AskedAgree(f), ChannelAgree(f),
           NEW o \in Vehicle \X Coordinated, o \in DOMAIN f => f[o] = 0, NEW n \in 0 .. MaxPosition,
           NEW g, g = [f EXCEPT ![o] = n]
    PROVE  HeldAgree(g) /\ AskedAgree(g) /\ ChannelAgree(g)
<1>1. HeldAgree(g)
    <2>1. ASSUME NEW v \in Vehicle, NEW r \in DOMAIN coordinationElements[v]
          PROVE  Agrees(g, r, coordinationElements[v][r].planning)
        <3>1. r \in Coordinated /\ coordinationElements[v][r].planning \in Planning
            BY DEF CoordinationTypeOK, Elements
        <3>2. Agrees(f, r, coordinationElements[v][r].planning)
            BY DEF HeldAgree
        <3> QED BY <3>1, <3>2, AgreesStill
    <2> QED BY <2>1 DEF HeldAgree
<1>2. AskedAgree(g)
    <2>1. ASSUME NEW v \in Vehicle, NEW i \in 1 .. Len(requested[v])
          PROVE  Agrees(g, requested[v][i].request, requested[v][i].planning)
        <3>1. requested[v][i] \in Ask
            BY ElementOfSeq DEF CoordinationTypeOK
        <3>2. requested[v][i].request \in Coordinated /\ requested[v][i].planning \in Planning
            BY <3>1 DEF Ask
        <3>3. Agrees(f, requested[v][i].request, requested[v][i].planning)
            BY DEF AskedAgree
        <3> QED BY <3>2, <3>3, AgreesStill
    <2> QED BY <2>1 DEF AskedAgree
<1>3. ChannelAgree(g)
    <2>1. ASSUME NEW c \in DOMAIN channel, NEW i \in 1 .. Len(channel[c]),
                 <<c[1], channel[c][i].request>> \in DOMAIN g
          PROVE  channel[c][i].position = g[<<c[1], channel[c][i].request>>]
        <3>1. channel[c][i] \in Message
            BY ElementOfSeq DEF CoordinationTypeOK
        <3>2. channel[c][i].request \in Coordinated /\ channel[c][i].position \in 1 .. MaxPosition
            BY <3>1 DEF Message
        <3>3. /\ <<c[1], channel[c][i].request>> \in DOMAIN f
              /\ channel[c][i].position = f[<<c[1], channel[c][i].request>>]
            BY <2>1 DEF ChannelAgree
        <3>4. <<c[1], channel[c][i].request>> # o
            BY <3>2, <3>3, CoordinatedAssumption
        <3> QED BY <3>3, <3>4
    <2> QED BY <2>1 DEF ChannelAgree
<1> QED BY <1>1, <1>2, <1>3

LEMMA KeptAgrees ==
    ASSUME CoordinationTypeOK, NEW f \in Settled, HeldAgree(f),
           NEW v \in Vehicle, NEW r \in Coordinated, NEW x \in Elements, Agrees(f, r, x.planning),
           Keeps(v, r, x)
    PROVE  HeldAgree(f)'
<1>1. ElementsOK
    BY DEF CoordinationTypeOK, ElementsOK
<1> QED BY <1>1, Kept DEF HeldAgree

LEMMA DroppedAgrees ==
    ASSUME CoordinationTypeOK, NEW f \in Settled, HeldAgree(f), NEW v \in Vehicle, NEW r, Drops(v, r)
    PROVE  HeldAgree(f)'
<1>1. ElementsOK
    BY DEF CoordinationTypeOK, ElementsOK
<1> QED BY <1>1, Dropped DEF HeldAgree

LEMMA AskedAgrees ==
    ASSUME CoordinationTypeOK, NEW f \in Settled, AskedAgree(f),
           NEW v \in Vehicle, NEW a \in Ask, Agrees(f, a.request, a.planning), Asks(v, a)
    PROVE  AskedAgree(f)'
<1>1. /\ \A u \in Vehicle \ {v} : requested'[u] = requested[u]
      /\ Len(requested'[v]) = Len(requested[v]) + 1 /\ Len(requested[v]) \in Nat
      /\ \A i \in 1 .. Len(requested[v]) : requested'[v][i] = requested[v][i]
      /\ requested'[v][Len(requested[v]) + 1] = a
    BY Appended DEF CoordinationTypeOK, Asks
<1>2. ASSUME NEW u \in Vehicle, NEW i \in 1 .. Len(requested'[u])
      PROVE  Agrees(f, requested'[u][i].request, requested'[u][i].planning)
    <2>1. CASE u # v
        BY <1>1, <1>2, <2>1 DEF AskedAgree
    <2>2. CASE u = v /\ i \in 1 .. Len(requested[v])
        BY <1>1, <2>2 DEF AskedAgree
    <2>3. CASE u = v /\ i = Len(requested[v]) + 1
        BY <1>1, <2>3
    <2> QED BY <1>1, <1>2, <2>1, <2>2, <2>3
<1> QED BY <1>2 DEF AskedAgree

LEMMA CheckAgrees ==
    ASSUME CoordinationTypeOK, NEW f \in Settled, HeldAgree(f), AskedAgree(f),
           NEW v \in Vehicle, NEW r \in Coordinated, NEW x \in Elements, Agrees(f, r, x.planning),
           CheckAssignmentReady(v, r, x)
    PROVE  HeldAgree(f)' /\ AskedAgree(f)'
<1>1. CASE Drops(v, r) /\ Asks(v, TaskAutomationRequest(v, r, x, FALSE))
    <2>1. PICK isCut \in BOOLEAN : isCut = FALSE
        OBVIOUS
    <2>2. PICK a \in Ask : /\ a = TaskAutomationRequest(v, r, x, isCut)
                           /\ a.request = r /\ a.planning = x.planning
        BY AskTyped
    <2>3. Agrees(f, a.request, a.planning) /\ Asks(v, a)
        BY <1>1, <2>1, <2>2
    <2> QED BY <1>1, <2>3, DroppedAgrees, AskedAgrees
<1>2. CASE Keeps(v, r, x) /\ UNCHANGED requested
    <2>1. HeldAgree(f)'
        BY <1>2, KeptAgrees
    <2> QED BY <1>2, <2>1 DEF AskedAgree
<1> QED BY <1>1, <1>2 DEF CheckAssignmentReady, Keeps, Drops, Asks

LEMMA AgreementInit == CoordinationInit => Agreement
<1> SUFFICES ASSUME CoordinationInit PROVE Agreement
    OBVIOUS
<1> DEFINE f == [o \in Vehicle \X Unique |-> 0]
<1>1. f \in Settled
    BY CoordinatedAssumption DEF Settled
<1>2. OrderedUnsettled(f)
    BY DEF OrderedUnsettled
<1> HIDE DEF f
<1>3. HeldAgree(f)
    BY DEF HeldAgree, CoordinationInit
<1>4. AskedAgree(f)
    BY DEF AskedAgree, CoordinationInit
<1>5. ChannelAgree(f)
    BY DEF ChannelAgree, CoordinationInit
<1> QED BY <1>1, <1>2, <1>3, <1>4, <1>5 DEF Agreement, AllAgree

LEMMA AgreementStep ==
    CoordinationTypeOK /\ Agreement /\ [CoordinationNext]_coordinationVars => Agreement'
<1> SUFFICES ASSUME CoordinationTypeOK, Agreement, [CoordinationNext]_coordinationVars PROVE Agreement'
    OBVIOUS
<1>1. joint.vehicles \subseteq Vehicle /\ joint.requests \subseteq Coordinated
    BY JointTyped DEF CoordinationTypeOK
<1>2. PICK f \in Settled : AllAgree(f)
    BY DEF Agreement
<1>3. HeldAgree(f) /\ AskedAgree(f) /\ ChannelAgree(f) /\ OrderedUnsettled(f)
    BY <1>2 DEF AllAgree
<1>0. joint' = joint /\ Settled' = Settled
    <2>1. joint' = joint
        BY DEF CoordinationNext, CoordinationWork, CoordinationSurroundings, coordinationVars,
               HandleCoordinatedAutomationRequest, CheckForAssignmentTimeMax,
               HandleAssignmentCoordination, HandleTaskAutomationResponse, HandleAirVehicleState,
               HandleForeignResponse, LoseRequest, LoseCoordination
    <2> QED BY <2>1 DEF Settled, Unique, IsUnique
<1>4. SUFFICES ASSUME ~(/\ UNCHANGED <<coordinationElements, requested, channel>>
                       /\ ordered' \subseteq ordered)
               PROVE  Agreement'
    <2>1. ASSUME UNCHANGED <<coordinationElements, requested, channel>>, ordered' \subseteq ordered
          PROVE  AllAgree(f)'
        BY <1>3, <2>1 DEF AllAgree, HeldAgree, AskedAgree, ChannelAgree, OrderedUnsettled
    <2> QED BY <1>0, <2>1 DEF Agreement
<1>5. ASSUME NEW v \in joint.vehicles, NEW r \in joint.requests, HandleCoordinatedAutomationRequest(v, r)
      PROVE  Agreement'
    <2>1. PICK o \in Vehicle \X Coordinated : o = <<v, r>>
        BY <1>1
    <2>2. PICK n \in 0 .. MaxPosition : n = lastLocalEntityState[v]
        BY <1>1 DEF CoordinationTypeOK
    <2>3. o \in ordered /\ (o \in DOMAIN f => f[o] = 0)
        BY <1>3, <1>5, <2>1 DEF HandleCoordinatedAutomationRequest, TakeRequest, OrderedUnsettled
    <2>4. PICK g \in Settled : g = [f EXCEPT ![o] = n]
        BY DEF Settled
    <2>5. HeldAgree(g) /\ AskedAgree(g) /\ ChannelAgree(g)
        BY <1>3, <2>3, <2>4, AllAgreeStill
    <2>6. <<v, r>> \in DOMAIN g => g[<<v, r>>] = lastLocalEntityState[v]
        BY <2>1, <2>2, <2>4 DEF Settled
    <2>7. PICK y \in Elements : y = Collected(v, r)
        BY <1>1, CollectedTyped
    <2>8. PICK x \in Elements :
             /\ x = WithOwnState(v, r)
             /\ x.planning = IF lastLocalEntityState[v] = 0 \/ v \in DOMAIN y.planning
                             THEN y.planning
                             ELSE With(y.planning, v, lastLocalEntityState[v])
        BY <1>1, <2>7, WithOwnStateTyped
    <2>9. y.planning \in Planning /\ Agrees(g, r, y.planning)
        <3>1. r \in DOMAIN coordinationElements[v] => Agrees(g, r, y.planning)
            BY <1>1, <2>5, <2>7 DEF HeldAgree, Collected
        <3>2. r \notin DOMAIN coordinationElements[v] => Agrees(g, r, y.planning)
            BY <2>7, BlankTyped DEF Collected, Agrees
        <3> QED BY <3>1, <3>2 DEF Elements
    <2>10. Agrees(g, r, x.planning)
        <3>1. CASE lastLocalEntityState[v] = 0 \/ v \in DOMAIN y.planning
            BY <2>8, <2>9, <3>1
        <3>2. CASE lastLocalEntityState[v] # 0 /\ v \notin DOMAIN y.planning
            <4>1. n \in 1 .. MaxPosition
                BY <2>2, <3>2, CoordinatedAssumption
            <4>2. Agrees(g, r, With(y.planning, v, n))
                BY <1>1, <2>2, <2>6, <2>9, <4>1, AgreesWith
            <4> QED BY <2>2, <2>8, <3>2, <4>2
        <3> QED BY <3>1, <3>2
    <2>11. HeldAgree(g)' /\ AskedAgree(g)'
        <3>1. CheckAssignmentReady(v, r, x)
            BY <1>5, <2>8 DEF HandleCoordinatedAutomationRequest
        <3> QED BY <1>1, <2>5, <2>10, <3>1, CheckAgrees
    <2>12. ChannelAgree(g)'
        <3>1. channel' = Broadcast(v, r)
            BY <1>5 DEF HandleCoordinatedAutomationRequest
        <3>2. /\ DOMAIN channel' = DOMAIN channel
              /\ \A c \in DOMAIN channel : \A i \in 1 .. Len(channel'[c]) :
                    \/ i \in 1 .. Len(channel[c]) /\ channel'[c][i] = channel[c][i]
                    \/ /\ c[1] = v
                       /\ channel'[c][i] = [request |-> r, position |-> lastLocalEntityState[v]]
            BY <1>1, <3>1, BroadcastStep
        <3>3. ASSUME NEW c \in DOMAIN channel', NEW i \in 1 .. Len(channel'[c])
              PROVE  <<c[1], channel'[c][i].request>> \in DOMAIN g =>
                         channel'[c][i].position = g[<<c[1], channel'[c][i].request>>]
            <4>1. CASE i \in 1 .. Len(channel[c]) /\ channel'[c][i] = channel[c][i]
                BY <2>5, <3>2, <4>1 DEF ChannelAgree
            <4>2. CASE c[1] = v /\ channel'[c][i] = [request |-> r, position |-> lastLocalEntityState[v]]
                BY <2>6, <4>2
            <4> QED BY <3>2, <4>1, <4>2
        <3> QED BY <3>3 DEF ChannelAgree
    <2>13. OrderedUnsettled(g)'
        <3>1. ASSUME NEW p \in ordered', p \in DOMAIN g PROVE g[p] = 0
            <4>1. p \in DOMAIN f
                BY <2>4, <3>1
            <4>2. r \in Unique => ordered' = ordered \ {o}
                BY <1>1, <1>5, <2>1
                DEF Unique, IsUnique, HandleCoordinatedAutomationRequest, TakeRequest, MayComeAgain
            <4>3. p \in ordered /\ p # o
                BY <1>5, <2>1, <3>1, <4>1, <4>2
                DEF HandleCoordinatedAutomationRequest, TakeRequest, Settled
            <4>4. f[p] = 0
                BY <1>3, <4>1, <4>3 DEF OrderedUnsettled
            <4> QED BY <2>4, <4>1, <4>3, <4>4
        <3> QED BY <3>1 DEF OrderedUnsettled
    <2> QED BY <1>0, <2>11, <2>12, <2>13 DEF Agreement, AllAgree
<1>6. ASSUME NEW v \in joint.vehicles, NEW r \in joint.requests, CheckForAssignmentTimeMax(v, r)
      PROVE  Agreement'
    <2>1. r \in DOMAIN coordinationElements[v] /\ Asks(v, TaskAutomationRequest(v, r, Collected(v, r), TRUE))
        BY <1>4, <1>6 DEF CheckForAssignmentTimeMax, surroundings, Asks
    <2>2. PICK a \in Ask : /\ a = TaskAutomationRequest(v, r, Collected(v, r), TRUE)
                           /\ a.request = r /\ a.planning = Collected(v, r).planning
        <3>1. PICK isCut \in BOOLEAN : isCut = TRUE
            OBVIOUS
        <3>2. PICK y \in Elements : y = Collected(v, r)
            BY <1>1, CollectedTyped
        <3>3. /\ TaskAutomationRequest(v, r, y, isCut) \in Ask
              /\ TaskAutomationRequest(v, r, y, isCut).request = r
              /\ TaskAutomationRequest(v, r, y, isCut).planning = y.planning
            BY <1>1, AskTyped
        <3> QED BY <3>1, <3>2, <3>3
    <2>3. Agrees(f, a.request, a.planning)
        BY <1>1, <1>3, <2>1, <2>2 DEF HeldAgree, Collected
    <2>4. AskedAgree(f)'
        BY <1>1, <1>3, <2>1, <2>2, <2>3, AskedAgrees
    <2>5. UNCHANGED <<coordinationElements, channel, ordered>>
        BY <1>6 DEF CheckForAssignmentTimeMax, surroundings
    <2>6. HeldAgree(f)' /\ ChannelAgree(f)' /\ OrderedUnsettled(f)'
        BY <1>3, <2>5 DEF HeldAgree, ChannelAgree, OrderedUnsettled
    <2> QED BY <1>0, <2>4, <2>6 DEF Agreement, AllAgree
<1>7. ASSUME NEW v \in joint.vehicles, NEW w \in joint.vehicles \ {v}, HandleAssignmentCoordination(v, w)
      PROVE  Agreement'
    <2>1. PICK c \in DOMAIN channel : c = <<w, v>>
        BY <1>7 DEF CoordinationTypeOK
    <2>2. /\ DOMAIN channel' = DOMAIN channel
          /\ \A d \in DOMAIN channel : \A i \in 1 .. Len(channel'[d]) :
                \E j \in 1 .. Len(channel[d]) : channel'[d][i] = channel[d][j]
          /\ 1 \in 1 .. Len(channel[c]) /\ Head(channel[c]) = channel[c][1]
          /\ Head(channel[c]) \in Message
        BY <1>7, <2>1, TailStep DEF HandleAssignmentCoordination
    <2>3. PICK m \in Message : m = channel[c][1] /\ m = Head(channel[<<w, v>>])
        BY <2>1, <2>2
    <2>4. m.request \in Coordinated /\ m.position \in 1 .. MaxPosition
        BY DEF Message
    <2>5. <<w, m.request>> \in DOMAIN f => m.position = f[<<w, m.request>>]
        BY <1>3, <2>1, <2>2, <2>3 DEF ChannelAgree
    <2>6. PICK y \in Elements : y = Collected(v, m.request)
        BY <1>1, <2>4, CollectedTyped
    <2>7. y.planning \in Planning /\ Agrees(f, m.request, y.planning)
        <3>1. m.request \in DOMAIN coordinationElements[v] => Agrees(f, m.request, y.planning)
            BY <1>1, <1>3, <2>6 DEF HeldAgree, Collected
        <3>2. m.request \notin DOMAIN coordinationElements[v] => Agrees(f, m.request, y.planning)
            BY <2>6, BlankTyped DEF Collected, Agrees
        <3> QED BY <3>1, <3>2 DEF Elements
    <2>8. PICK x \in Elements : /\ x = Joined(y, w, m.position)
                                /\ x.planning = With(y.planning, w, m.position)
        BY <1>1, <2>4, JoinedTyped
    <2>9. Agrees(f, m.request, x.planning)
        BY <1>1, <2>4, <2>5, <2>7, <2>8, AgreesWith
    <2>10. CheckAssignmentReady(v, m.request, x)
        BY <1>7, <2>3, <2>6, <2>8 DEF HandleAssignmentCoordination
    <2>11. HeldAgree(f)' /\ AskedAgree(f)'
        BY <1>1, <1>3, <2>4, <2>9, <2>10, CheckAgrees
    <2>12. ChannelAgree(f)'
        BY <1>3, <2>2 DEF ChannelAgree
    <2>13. OrderedUnsettled(f)'
        BY <1>3, <1>7 DEF OrderedUnsettled, HandleAssignmentCoordination
    <2> QED BY <1>0, <2>11, <2>12, <2>13 DEF Agreement, AllAgree
<1>8. ASSUME NEW v \in joint.vehicles, NEW r, Drops(v, r), UNCHANGED <<requested, channel, ordered>>
      PROVE  Agreement'
    <2>1. HeldAgree(f)'
        BY <1>1, <1>3, <1>8, DroppedAgrees
    <2>2. AskedAgree(f)' /\ ChannelAgree(f)' /\ OrderedUnsettled(f)'
        BY <1>3, <1>8 DEF AskedAgree, ChannelAgree, OrderedUnsettled
    <2> QED BY <1>0, <2>1, <2>2 DEF Agreement, AllAgree
<1>9. ASSUME NEW v \in joint.vehicles, HandleTaskAutomationResponse(v) PROVE Agreement'
    BY <1>8, <1>9 DEF HandleTaskAutomationResponse, Drops
<1>10. ASSUME NEW v \in joint.vehicles, NEW r \in joint.requests, HandleForeignResponse(v, r)
       PROVE  Agreement'
    BY <1>8, <1>10 DEF HandleForeignResponse, Drops
<1>11. ASSUME NEW v \in joint.vehicles, NEW w \in joint.vehicles \ {v}, LoseCoordination(v, w)
       PROVE  Agreement'
    <2>1. PICK c \in DOMAIN channel : c = <<v, w>>
        BY <1>11 DEF CoordinationTypeOK
    <2>2. /\ DOMAIN channel' = DOMAIN channel
          /\ \A d \in DOMAIN channel : \A i \in 1 .. Len(channel'[d]) :
                \E j \in 1 .. Len(channel[d]) : channel'[d][i] = channel[d][j]
        BY <1>11, <2>1, TailStep DEF LoseCoordination
    <2>3. ChannelAgree(f)'
        BY <1>3, <2>2 DEF ChannelAgree
    <2>4. HeldAgree(f)' /\ AskedAgree(f)' /\ OrderedUnsettled(f)'
        BY <1>3, <1>11 DEF HeldAgree, AskedAgree, OrderedUnsettled, LoseCoordination, coordinator
    <2> QED BY <1>0, <2>3, <2>4 DEF Agreement, AllAgree
<1>12. ASSUME NEW v \in joint.vehicles, HandleAirVehicleState(v) PROVE Agreement'
    BY <1>4, <1>12 DEF HandleAirVehicleState, surroundings
<1>13. ASSUME NEW v \in joint.vehicles, NEW r \in joint.requests, LoseRequest(v, r) PROVE Agreement'
    BY <1>4, <1>13 DEF LoseRequest, coordinator
<1>14. CASE UNCHANGED coordinationVars
    BY <1>4, <1>14 DEF coordinationVars, coordinator, surroundings
<1> QED
    BY <1>5, <1>6, <1>7, <1>9, <1>10, <1>11, <1>12, <1>13, <1>14
    DEF CoordinationNext, CoordinationWork, CoordinationSurroundings

LEMMA AgreementEnough == CoordinationTypeOK /\ Agreement => SamePlanningStates
<1> SUFFICES ASSUME CoordinationTypeOK, Agreement,
                    NEW v \in Vehicle, NEW w \in Vehicle, NEW a \in Asked(v), NEW b \in Asked(w),
                    a.request = b.request, IsUnique(a.request), NEW e \in DOMAIN a.planning \cap DOMAIN b.planning
             PROVE  a.planning[e] = b.planning[e]
    BY DEF SamePlanningStates
<1>1. PICK f \in Settled : AskedAgree(f)
    BY DEF Agreement, AllAgree
<1>2. \A u \in Vehicle : DOMAIN requested[u] = 1 .. Len(requested[u])
    BY LenProperties DEF CoordinationTypeOK
<1>3. PICK i \in 1 .. Len(requested[v]) : a = requested[v][i]
    BY <1>2 DEF Asked
<1>4. PICK j \in 1 .. Len(requested[w]) : b = requested[w][j]
    BY <1>2 DEF Asked
<1>5. a \in Ask
    BY <1>3, ElementOfSeq DEF CoordinationTypeOK
<1>6. <<e, a.request>> \in DOMAIN f
    BY <1>5, PlanningDef DEF Ask, Settled, Unique
<1> QED BY <1>1, <1>3, <1>4, <1>6 DEF AskedAgree, Agrees

(***************************************************************************)
(* The point of the protocol, for any number of vehicles and requests,     *)
(* whatever is lost, late or answered to somebody else: two vehicles that  *)
(* plan for the same request plan an entity both know of from the same     *)
(* state.  It is about requests that come to no vehicle twice.             *)
(***************************************************************************)
THEOREM Same == CoordinationSpec => []SamePlanningStates
<1>1. CoordinationInit => CoordinationTypeOK /\ Agreement
    BY TypeInit, AgreementInit
<1>2. CoordinationTypeOK /\ Agreement /\ [CoordinationNext]_coordinationVars
          => CoordinationTypeOK' /\ Agreement'
    BY TypeStep, AgreementStep
<1> QED BY <1>1, <1>2, AgreementEnough, PTL DEF CoordinationSpec

(***************************************************************************)
(* What one vehicle holds and has asked for, once it has looked whether    *)
(* the assignment of r can be asked for with the elements x.               *)
(***************************************************************************)
LEMMA CheckEffect ==
    ASSUME CoordinationTypeOK, NEW v \in Vehicle, NEW r \in Coordinated, NEW x \in Elements,
           CheckAssignmentReady(v, r, x)
    PROVE  /\ \A u \in Vehicle \ {v} : /\ coordinationElements'[u] = coordinationElements[u]
                                     /\ requested'[u] = requested[u]
           /\ \A s \in DOMAIN coordinationElements[v] \ {r} :
                 s \in DOMAIN coordinationElements'[v]
           /\ \A s \in DOMAIN coordinationElements'[v] \ {r} :
                 /\ s \in DOMAIN coordinationElements[v]
                 /\ coordinationElements'[v][s] = coordinationElements[v][s]
           /\ Len(requested[v]) \in Nat
           /\ \A i \in 1 .. Len(requested[v]) : requested'[v][i] = requested[v][i]
           /\ \/ /\ Len(requested'[v]) = Len(requested[v]) + 1
                 /\ r \notin DOMAIN coordinationElements'[v]
                 /\ requested'[v][Len(requested[v]) + 1].request = r
                 /\ requested'[v][Len(requested[v]) + 1].tasks = x.received
                 /\ x.received \/ r = DefaultRequestID
              \/ /\ requested'[v] = requested[v]
                 /\ r \in DOMAIN coordinationElements'[v] /\ coordinationElements'[v][r] = x
<1>1. ElementsOK
    BY DEF CoordinationTypeOK, ElementsOK
<1>2. Len(requested[v]) \in Nat
    BY LenProperties DEF CoordinationTypeOK
<1>3. CASE Drops(v, r) /\ Asks(v, TaskAutomationRequest(v, r, x, FALSE)) /\ Ready(r, x)
    <2>1. PICK isCut \in BOOLEAN : isCut = FALSE
        OBVIOUS
    <2>2. PICK a \in Ask : /\ a = TaskAutomationRequest(v, r, x, isCut)
                           /\ a.request = r /\ a.tasks = x.received
        BY AskTyped
    <2>3. Asks(v, a)
        BY <1>3, <2>1, <2>2
    <2>4. /\ \A u \in Vehicle \ {v} : requested'[u] = requested[u]
          /\ Len(requested'[v]) = Len(requested[v]) + 1
          /\ \A i \in 1 .. Len(requested[v]) : requested'[v][i] = requested[v][i]
          /\ requested'[v][Len(requested[v]) + 1] = a
        BY <2>3, Appended DEF CoordinationTypeOK, Asks
    <2>5. /\ \A u \in Vehicle \ {v} : coordinationElements'[u] = coordinationElements[u]
          /\ DOMAIN coordinationElements'[v] = DOMAIN coordinationElements[v] \ {r}
          /\ \A s \in DOMAIN coordinationElements'[v] :
                coordinationElements'[v][s] = coordinationElements[v][s]
        BY <1>1, <1>3, Dropped
    <2>6. x.received \/ r = DefaultRequestID
        BY <1>3 DEF Ready
    <2> QED BY <1>2, <2>2, <2>4, <2>5, <2>6
<1>4. CASE Keeps(v, r, x) /\ UNCHANGED requested
    <2>1. /\ \A u \in Vehicle \ {v} : coordinationElements'[u] = coordinationElements[u]
          /\ DOMAIN coordinationElements'[v] = DOMAIN coordinationElements[v] \cup {r}
          /\ \A s \in DOMAIN coordinationElements'[v] :
                coordinationElements'[v][s] = IF s = r THEN x ELSE coordinationElements[v][s]
        BY <1>1, <1>4, Kept
    <2> QED BY <1>2, <1>4, <2>1
<1> QED BY <1>3, <1>4 DEF CheckAssignmentReady, Keeps, Drops, Asks

(***************************************************************************)
(* Asked for in full once.                                                 *)
(*                                                                         *)
(* What makes it inductive, of requests that come once: the request of     *)
(* elements that hold one has come and does not come again, and what was   *)
(* asked for in full neither comes again nor is held.                      *)
(***************************************************************************)
ComesOnce(v, r) == <<v, r>> \notin joint.repeats
OnceAt(v) ==
    /\ \A r \in DOMAIN coordinationElements[v] :
          coordinationElements[v][r].received /\ ComesOnce(v, r) => <<v, r>> \notin ordered
    /\ \A i \in 1 .. Len(requested[v]) :
          InFull(requested[v][i]) /\ ComesOnce(v, requested[v][i].request) =>
          /\ <<v, requested[v][i].request>> \notin ordered
          /\ requested[v][i].request \in DOMAIN coordinationElements[v] =>
                ~coordinationElements[v][requested[v][i].request].received
    /\ \A i, j \in 1 .. Len(requested[v]) :
          /\ i < j
          /\ requested[v][i].request = requested[v][j].request
          /\ InFull(requested[v][i]) /\ ComesOnce(v, requested[v][i].request)
          => ~requested[v][j].tasks
Once == \A v \in Vehicle : OnceAt(v)

\* Nothing is asked for, and nothing held that was not.
LEMMA OnceStill ==
    ASSUME NEW v \in Vehicle, OnceAt(v), requested'[v] = requested[v], ordered' \subseteq ordered,
           joint' = joint,
           \A s \in DOMAIN coordinationElements'[v] :
               /\ s \in DOMAIN coordinationElements[v]
               /\ coordinationElements'[v][s] = coordinationElements[v][s]
    PROVE  OnceAt(v)'
BY DEF OnceAt, ComesOnce

LEMMA OnceCheck ==
    ASSUME CoordinationTypeOK, Once, NEW v \in Vehicle, NEW r \in Coordinated, NEW x \in Elements,
           CheckAssignmentReady(v, r, x), ordered' \subseteq ordered, joint' = joint,
           x.received /\ ComesOnce(v, r) =>
                         /\ <<v, r>> \notin ordered'
                         /\ \A i \in 1 .. Len(requested[v]) :
                               requested[v][i].request = r => ~InFull(requested[v][i])
    PROVE  Once'
<1> DEFINE n == Len(requested[v])
<1>1. /\ \A u \in Vehicle \ {v} : /\ coordinationElements'[u] = coordinationElements[u]
                               /\ requested'[u] = requested[u]
      /\ \A s \in DOMAIN coordinationElements'[v] \ {r} :
            /\ s \in DOMAIN coordinationElements[v]
            /\ coordinationElements'[v][s] = coordinationElements[v][s]
      /\ n \in Nat
      /\ \A i \in 1 .. n : requested'[v][i] = requested[v][i]
      /\ \/ /\ Len(requested'[v]) = n + 1
            /\ r \notin DOMAIN coordinationElements'[v]
            /\ requested'[v][n + 1].request = r
            /\ requested'[v][n + 1].tasks = x.received
         \/ /\ requested'[v] = requested[v]
            /\ r \in DOMAIN coordinationElements'[v] /\ coordinationElements'[v][r] = x
    BY CheckEffect
<1> HIDE DEF n
<1>2. OnceAt(v)
    BY DEF Once
<1>3. ASSUME NEW u \in Vehicle \ {v} PROVE OnceAt(u)'
    BY <1>1, OnceStill DEF Once
<1>0. \A s : ComesOnce(v, s)' <=> ComesOnce(v, s)
    BY DEF ComesOnce
<1>4. CASE requested'[v] = requested[v] /\ r \in DOMAIN coordinationElements'[v] /\ coordinationElements'[v][r] = x
    <2>1. OnceAt(v)'
        BY <1>0, <1>1, <1>2, <1>4 DEF OnceAt
    <2> QED BY <1>3, <2>1 DEF Once
<1>5. CASE /\ Len(requested'[v]) = n + 1
           /\ r \notin DOMAIN coordinationElements'[v]
           /\ requested'[v][n + 1].request = r
           /\ requested'[v][n + 1].tasks = x.received
    <2>1. \A s \in DOMAIN coordinationElements'[v] :
              coordinationElements'[v][s].received /\ ComesOnce(v, s) => <<v, s>> \notin ordered'
        BY <1>1, <1>2, <1>5 DEF OnceAt
    <2>2. ASSUME NEW i \in 1 .. n + 1, InFull(requested'[v][i]), ComesOnce(v, requested'[v][i].request)
          PROVE  /\ <<v, requested'[v][i].request>> \notin ordered'
                 /\ requested'[v][i].request \in DOMAIN coordinationElements'[v] =>
                       ~coordinationElements'[v][requested'[v][i].request].received
        <3>1. CASE i \in 1 .. n
            <4>1. requested'[v][i] = requested[v][i] /\ i \in 1 .. Len(requested[v])
                BY <1>1, <3>1 DEF n
            <4>2. PICK a : a = requested[v][i]
                OBVIOUS
            <4>3. /\ <<v, a.request>> \notin ordered
                  /\ a.request \in DOMAIN coordinationElements[v] =>
                        ~coordinationElements[v][a.request].received
                BY <1>2, <2>2, <4>1, <4>2 DEF OnceAt
            <4>4. a.request \in DOMAIN coordinationElements'[v] =>
                        ~coordinationElements'[v][a.request].received
                BY <1>1, <1>5, <4>3
            <4> QED BY <4>1, <4>2, <4>3, <4>4
        <3>2. CASE i = n + 1
            BY <1>5, <2>2, <3>2 DEF InFull
        <3> QED BY <1>1, <3>1, <3>2
    <2>3. ASSUME NEW i \in 1 .. n + 1, NEW j \in 1 .. n + 1, i < j,
                 requested'[v][i].request = requested'[v][j].request, InFull(requested'[v][i]),
                 ComesOnce(v, requested'[v][i].request)
          PROVE  ~requested'[v][j].tasks
        <3>1. i \in 1 .. n /\ requested'[v][i] = requested[v][i]
            BY <1>1, <2>3
        <3>2. CASE j \in 1 .. n
            BY <1>1, <1>2, <2>3, <3>1, <3>2 DEF OnceAt, n
        <3>3. CASE j = n + 1
            BY <1>5, <2>3, <3>1, <3>3 DEF n
        <3> QED BY <1>1, <3>2, <3>3
    <2>4. OnceAt(v)'
        BY <1>0, <1>5, <2>1, <2>2, <2>3 DEF OnceAt
    <2> QED BY <1>3, <2>4 DEF Once
<1> QED BY <1>1, <1>4, <1>5

LEMMA OnceInit == CoordinationInit => Once
BY DEF CoordinationInit, Once, OnceAt

LEMMA OnceStep == CoordinationTypeOK /\ Once /\ [CoordinationNext]_coordinationVars => Once'
<1> SUFFICES ASSUME CoordinationTypeOK, Once, [CoordinationNext]_coordinationVars PROVE Once'
    OBVIOUS
<1>1. joint.vehicles \subseteq Vehicle /\ joint.requests \subseteq Coordinated
    BY JointTyped DEF CoordinationTypeOK
<1>2. ASSUME NEW v \in joint.vehicles, NEW r \in joint.requests, HandleCoordinatedAutomationRequest(v, r)
      PROVE  Once'
    <2>1. PICK x \in Elements : x = WithOwnState(v, r)
        BY <1>1, WithOwnStateTyped
    <2>2. /\ CheckAssignmentReady(v, r, x) /\ ordered' \subseteq ordered /\ joint' = joint
          /\ ComesOnce(v, r) => <<v, r>> \notin ordered'
        BY <1>2, <2>1 DEF HandleCoordinatedAutomationRequest, TakeRequest, MayComeAgain, ComesOnce
    <2>3. ComesOnce(v, r) =>
              \A i \in 1 .. Len(requested[v]) : requested[v][i].request = r => ~InFull(requested[v][i])
        BY <1>1, <1>2 DEF HandleCoordinatedAutomationRequest, TakeRequest, Once, OnceAt
    <2> QED BY <1>1, <2>2, <2>3, OnceCheck
<1>3. ASSUME NEW v \in joint.vehicles, NEW r \in joint.requests, CheckForAssignmentTimeMax(v, r)
      PROVE  Once'
    <2>1. UNCHANGED <<joint, coordinationElements, ordered>>
        BY <1>3 DEF CheckForAssignmentTimeMax, surroundings
    <2>2. CASE UNCHANGED requested
        BY <2>1, <2>2, OnceStill DEF Once
    <2>3. CASE ~UNCHANGED requested
        <3> DEFINE n == Len(requested[v])
        <3>1. r \in DOMAIN coordinationElements[v] /\ Asks(v, TaskAutomationRequest(v, r, Collected(v, r), TRUE))
            BY <1>3, <2>3 DEF CheckForAssignmentTimeMax, Asks
        <3>2. PICK y \in Elements : y = Collected(v, r) /\ y = coordinationElements[v][r]
            BY <1>1, <3>1, CollectedTyped DEF Collected
        <3>3. PICK isCut \in BOOLEAN : isCut = TRUE
            OBVIOUS
        <3>4. PICK a \in Ask : /\ a = TaskAutomationRequest(v, r, y, isCut)
                               /\ a.request = r /\ a.tasks = y.received /\ a.cut = isCut
            BY <1>1, AskTyped
        <3>5. requested' = [requested EXCEPT ![v] = Append(@, a)]
            BY <3>1, <3>2, <3>3, <3>4 DEF Asks
        <3>6. /\ \A u \in Vehicle \ {v} : requested'[u] = requested[u]
              /\ Len(requested'[v]) = n + 1 /\ n \in Nat
              /\ \A i \in 1 .. n : requested'[v][i] = requested[v][i]
              /\ requested'[v][n + 1] = a
            BY <1>1, <3>5, Appended DEF CoordinationTypeOK
        <3>7. OnceAt(v) /\ n = Len(requested[v])
            BY <1>1 DEF Once
        <3> HIDE DEF n
        <3>8. ASSUME NEW i \in 1 .. n + 1, InFull(requested'[v][i])
              PROVE  i \in 1 .. n /\ requested'[v][i] = requested[v][i]
            <4>1. a.cut
                BY <3>3, <3>4
            <4>2. i # n + 1
                BY <3>6, <3>8, <4>1 DEF InFull
            <4>3. i \in 1 .. n
                BY <3>6, <4>2
            <4> QED BY <3>6, <4>3
        <3>9. ASSUME NEW i \in 1 .. n + 1, NEW j \in 1 .. n + 1, i < j,
                     requested'[v][i].request = requested'[v][j].request, InFull(requested'[v][i]),
                     ComesOnce(v, requested'[v][i].request)
              PROVE  ~requested'[v][j].tasks
            <4>1. i \in 1 .. n /\ requested'[v][i] = requested[v][i]
                BY <3>8, <3>9
            <4>2. CASE j \in 1 .. n
                BY <3>6, <3>7, <3>9, <4>1, <4>2 DEF OnceAt
            <4>3. CASE j = n + 1
                <5>1. requested[v][i].request = r /\ InFull(requested[v][i]) /\ ComesOnce(v, r)
                    BY <3>4, <3>6, <3>9, <4>1, <4>3
                <5>2. ~coordinationElements[v][r].received
                    BY <3>1, <3>7, <4>1, <5>1 DEF OnceAt
                <5> QED BY <3>2, <3>4, <3>6, <4>3, <5>2
            <4> QED BY <3>6, <4>2, <4>3
        <3>10. OnceAt(v)'
            <4>1. \A s : ComesOnce(v, s)' <=> ComesOnce(v, s)
                BY <2>1 DEF ComesOnce
            <4> QED BY <2>1, <3>6, <3>7, <3>8, <3>9, <4>1 DEF OnceAt
        <3>11. ASSUME NEW u \in Vehicle \ {v} PROVE OnceAt(u)'
            BY <2>1, <3>6, OnceStill DEF Once
        <3> QED BY <3>10, <3>11 DEF Once
    <2> QED BY <2>2, <2>3
<1>4. ASSUME NEW v \in joint.vehicles, NEW w \in joint.vehicles \ {v}, HandleAssignmentCoordination(v, w)
      PROVE  Once'
    <2>1. PICK c \in DOMAIN channel : c = <<w, v>>
        BY <1>4 DEF CoordinationTypeOK
    <2>2. Head(channel[c]) \in Message
        BY <1>4, <2>1, TailStep DEF HandleAssignmentCoordination
    <2>3. PICK m \in Message : m = Head(channel[<<w, v>>])
        BY <2>1, <2>2
    <2>4. m.request \in Coordinated /\ m.position \in 1 .. MaxPosition
        BY DEF Message
    <2>5. PICK y \in Elements : y = Collected(v, m.request)
        BY <1>1, <2>4, CollectedTyped
    <2>6. PICK x \in Elements : x = Joined(y, w, m.position) /\ x.received = y.received
        BY <1>1, <2>4, JoinedTyped
    <2>7. CheckAssignmentReady(v, m.request, x) /\ ordered' = ordered /\ joint' = joint
        BY <1>4, <2>3, <2>5, <2>6 DEF HandleAssignmentCoordination
    <2>8. ASSUME x.received
          PROVE  m.request \in DOMAIN coordinationElements[v] /\ coordinationElements[v][m.request].received
        BY <2>5, <2>6, <2>8, BlankTyped DEF Collected
    <2>9. x.received /\ ComesOnce(v, m.request) =>
                        /\ <<v, m.request>> \notin ordered
                        /\ \A i \in 1 .. Len(requested[v]) :
                              requested[v][i].request = m.request => ~InFull(requested[v][i])
        BY <1>1, <2>8 DEF Once, OnceAt
    <2> QED BY <1>1, <2>4, <2>7, <2>9, OnceCheck
<1>5. ASSUME NEW v \in joint.vehicles, NEW r, Drops(v, r), UNCHANGED <<joint, requested, ordered>>
      PROVE  Once'
    <2>1. ElementsOK
        BY DEF CoordinationTypeOK, ElementsOK
    <2>2. \A u \in Vehicle : \A s \in DOMAIN coordinationElements'[u] :
              /\ s \in DOMAIN coordinationElements[u]
              /\ coordinationElements'[u][s] = coordinationElements[u][s]
        BY <1>1, <1>5, <2>1, Dropped
    <2> QED BY <1>5, <2>2, OnceStill DEF Once
<1>6. ASSUME NEW v \in joint.vehicles, HandleTaskAutomationResponse(v) PROVE Once'
    BY <1>5, <1>6 DEF HandleTaskAutomationResponse, Drops
<1>7. ASSUME NEW v \in joint.vehicles, NEW r \in joint.requests, HandleForeignResponse(v, r) PROVE Once'
    BY <1>5, <1>7 DEF HandleForeignResponse, Drops
<1>8. ASSUME UNCHANGED <<joint, coordinationElements, requested>>, ordered' \subseteq ordered
      PROVE  Once'
    BY <1>8, OnceStill DEF Once
<1>9. ASSUME NEW v \in joint.vehicles, HandleAirVehicleState(v) PROVE Once'
    BY <1>8, <1>9 DEF HandleAirVehicleState, surroundings
<1>10. ASSUME NEW v \in joint.vehicles, NEW r \in joint.requests, LoseRequest(v, r) PROVE Once'
    BY <1>8, <1>10 DEF LoseRequest, coordinator
<1>11. ASSUME NEW v \in joint.vehicles, NEW w \in joint.vehicles \ {v}, LoseCoordination(v, w) PROVE Once'
    BY <1>8, <1>11 DEF LoseCoordination, coordinator
<1>12. CASE UNCHANGED coordinationVars
    BY <1>8, <1>12 DEF coordinationVars, coordinator, surroundings
<1> QED
    BY <1>2, <1>3, <1>4, <1>6, <1>7, <1>9, <1>10, <1>11, <1>12
    DEF CoordinationNext, CoordinationWork, CoordinationSurroundings

(***************************************************************************)
(* However late the planning states of the others come and whether the     *)
(* time of the request runs on or not, a vehicle that has asked for an     *)
(* assignment with all the entities of a request that comes to it once     *)
(* does not ask for it again.                                              *)
(***************************************************************************)
THEOREM AskedOnce == CoordinationSpec => []AskedInFullOnce
<1>1. CoordinationTypeOK /\ Once => AskedInFullOnce
    <2>1. CoordinationTypeOK => \A v \in Vehicle : DOMAIN requested[v] = 1 .. Len(requested[v])
        BY LenProperties DEF CoordinationTypeOK
    <2> QED BY <2>1 DEF Once, OnceAt, ComesOnce, AskedInFullOnce
<1> QED BY <1>1, TypeInit, TypeStep, OnceInit, OnceStep, PTL DEF CoordinationSpec

(***************************************************************************)
(* Nothing asked for in its place.                                         *)
(*                                                                         *)
(* While the time of a request runs, its elements hold it, or it was asked *)
(* for, or somebody else's answer ended it; so the elements that are blank *)
(* when the time is over were made after the request was asked for.  Of a  *)
(* request that comes again several times may run.                         *)
(***************************************************************************)
Running(v) == {r \in Coordinated : maxTimes[v][r] > 0}
TasksAsked(v, r, n) ==
    \E j \in 1 .. n : requested[v][j].request = r /\ requested[v][j].tasks
Holds(v, r) == r \in DOMAIN coordinationElements[v] /\ coordinationElements[v][r].received
ServedAt(v) ==
    /\ Len(requested[v]) \in Nat
    /\ \A r \in Running(v) \ {DefaultRequestID} :
          r \in intruded[v] \/ Holds(v, r) \/ TasksAsked(v, r, Len(requested[v]))
    /\ \A i \in 1 .. Len(requested[v]) :
          ~requested[v][i].tasks /\ requested[v][i].request # DefaultRequestID =>
              \/ requested[v][i].request \in intruded[v]
              \/ TasksAsked(v, requested[v][i].request, i - 1)
Served == \A v \in Vehicle : ServedAt(v)

\* Nothing changes for this vehicle but that more was answered to somebody else.
LEMMA ServedStill ==
    ASSUME NEW v \in Vehicle, ServedAt(v), requested'[v] = requested[v],
           coordinationElements'[v] = coordinationElements[v],
           Running(v)' \subseteq Running(v), intruded[v] \subseteq intruded'[v]
    PROVE  ServedAt(v)'
BY DEF ServedAt, TasksAsked, Holds

\* One more request to the planner.
LEMMA ServedAsked ==
    ASSUME NEW v \in Vehicle, ServedAt(v), NEW r,
           Len(requested'[v]) = Len(requested[v]) + 1,
           \A i \in 1 .. Len(requested[v]) : requested'[v][i] = requested[v][i],
           requested'[v][Len(requested[v]) + 1].request = r,
           requested'[v][Len(requested[v]) + 1].tasks \/ r = DefaultRequestID
              \/ r \in intruded[v] \/ TasksAsked(v, r, Len(requested[v])),
           \A s : Holds(v, s) => Holds(v, s)' \/ (s = r /\ requested'[v][Len(requested[v]) + 1].tasks),
           \A s \in Running(v)' :
               s \in Running(v) \/ (s = r /\ requested'[v][Len(requested[v]) + 1].tasks),
           intruded'[v] = intruded[v]
    PROVE  ServedAt(v)'
<1> DEFINE n == Len(requested[v])
<1>1. n \in Nat /\ Len(requested'[v]) = n + 1
    BY DEF ServedAt
<1>2. \A i \in 1 .. n : requested'[v][i] = requested[v][i]
    OBVIOUS
<1>3. ASSUME NEW s, NEW k \in 0 .. n, TasksAsked(v, s, k)
      PROVE  \E j \in 1 .. k : requested'[v][j].request = s /\ requested'[v][j].tasks
    <2>1. PICK j \in 1 .. k : requested[v][j].request = s /\ requested[v][j].tasks
        BY <1>3 DEF TasksAsked
    <2>2. j \in 1 .. n
        BY <1>1
    <2> QED BY <1>2, <2>1, <2>2
<1>4. requested'[v][n + 1].tasks => \E j \in 1 .. n + 1 : requested'[v][j].request = r /\ requested'[v][j].tasks
    BY <1>1
<1>5. ASSUME NEW s \in Running(v)' \ {DefaultRequestID}
      PROVE  \/ s \in intruded'[v] \/ Holds(v, s)'
             \/ \E j \in 1 .. n + 1 : requested'[v][j].request = s /\ requested'[v][j].tasks
    <2>1. CASE s = r /\ requested'[v][n + 1].tasks
        BY <1>4, <2>1
    <2>2. CASE s \in Running(v) /\ ~(s = r /\ requested'[v][n + 1].tasks)
        <3>1. s \in intruded[v] \/ Holds(v, s) \/ TasksAsked(v, s, n)
            BY <2>2 DEF ServedAt
        <3>2. Holds(v, s) => Holds(v, s)'
            BY <2>2
        <3>3. TasksAsked(v, s, n) => \E j \in 1 .. n + 1 : requested'[v][j].request = s /\ requested'[v][j].tasks
            BY <1>1, <1>3
        <3> QED BY <3>1, <3>2, <3>3
    <2> QED BY <2>1, <2>2
<1>6. ASSUME NEW i \in 1 .. n + 1, ~requested'[v][i].tasks, requested'[v][i].request # DefaultRequestID
      PROVE  \/ requested'[v][i].request \in intruded'[v]
             \/ \E j \in 1 .. i - 1 : requested'[v][j].request = requested'[v][i].request /\ requested'[v][j].tasks
    <2>1. CASE i \in 1 .. n
        <3>1. requested[v][i].request \in intruded[v] \/ TasksAsked(v, requested[v][i].request, i - 1)
            BY <1>2, <1>6, <2>1 DEF ServedAt
        <3>2. PICK k \in 0 .. n : k = i - 1
            BY <1>1, <2>1
        <3>3. ASSUME NEW s, TasksAsked(v, s, k)
              PROVE  \E j \in 1 .. k : requested'[v][j].request = s /\ requested'[v][j].tasks
            BY <1>3, <3>3
        <3> QED BY <1>2, <2>1, <3>1, <3>2, <3>3
    <2>2. CASE i = n + 1
        <3>1. r \in intruded[v] \/ TasksAsked(v, r, n)
            BY <1>6, <2>2
        <3>2. n \in 0 .. n /\ i - 1 = n
            BY <1>1, <2>2
        <3>3. TasksAsked(v, r, n) => \E j \in 1 .. n : requested'[v][j].request = r /\ requested'[v][j].tasks
            BY <1>3, <3>2
        <3> QED BY <2>2, <3>1, <3>2, <3>3
    <2> QED BY <1>1, <2>1, <2>2
<1> HIDE DEF n
<1> QED BY <1>1, <1>5, <1>6 DEF ServedAt, TasksAsked

LEMMA ServedCheck ==
    ASSUME CoordinationTypeOK, Served, NEW v \in Vehicle, NEW r \in Coordinated, NEW x \in Elements,
           CheckAssignmentReady(v, r, x), Holds(v, r) => x.received,
           \A u \in Vehicle \ {v} : Running(u)' = Running(u),
           \A s \in Running(v)' : s \in Running(v) \/ (s = r /\ x.received),
           intruded' = intruded
    PROVE  Served'
<1> DEFINE n == Len(requested[v])
<1>1. /\ \A u \in Vehicle \ {v} : /\ coordinationElements'[u] = coordinationElements[u]
                               /\ requested'[u] = requested[u]
      /\ \A s \in DOMAIN coordinationElements[v] \ {r} : s \in DOMAIN coordinationElements'[v]
      /\ \A s \in DOMAIN coordinationElements'[v] \ {r} :
            /\ s \in DOMAIN coordinationElements[v]
            /\ coordinationElements'[v][s] = coordinationElements[v][s]
      /\ n \in Nat
      /\ \A i \in 1 .. n : requested'[v][i] = requested[v][i]
      /\ \/ /\ Len(requested'[v]) = n + 1
            /\ r \notin DOMAIN coordinationElements'[v]
            /\ requested'[v][n + 1].request = r
            /\ requested'[v][n + 1].tasks = x.received
            /\ x.received \/ r = DefaultRequestID
         \/ /\ requested'[v] = requested[v]
            /\ r \in DOMAIN coordinationElements'[v] /\ coordinationElements'[v][r] = x
    BY CheckEffect
<1> HIDE DEF n
<1>2. ASSUME NEW u \in Vehicle \ {v} PROVE ServedAt(u)'
    BY <1>1, <1>2, ServedStill DEF Served
<1>3. \A s : s # r /\ Holds(v, s) => Holds(v, s)'
    BY <1>1 DEF Holds
<1>4. CASE requested'[v] = requested[v] /\ r \in DOMAIN coordinationElements'[v] /\ coordinationElements'[v][r] = x
    <2>1. \A s : Holds(v, s) \/ (s = r /\ x.received) => Holds(v, s)'
        BY <1>3, <1>4 DEF Holds
    <2>2. ServedAt(v)
        BY DEF Served
    <2>3. ASSUME NEW s \in Running(v)' \ {DefaultRequestID}
          PROVE  s \in intruded'[v] \/ Holds(v, s)' \/ TasksAsked(v, s, Len(requested[v]))'
        BY <1>4, <2>1, <2>2 DEF ServedAt, TasksAsked
    <2>4. ServedAt(v)'
        BY <1>4, <2>2, <2>3 DEF ServedAt, TasksAsked
    <2> QED BY <1>2, <2>4 DEF Served
<1>5. CASE /\ Len(requested'[v]) = n + 1
           /\ requested'[v][n + 1].request = r
           /\ requested'[v][n + 1].tasks = x.received
           /\ x.received \/ r = DefaultRequestID
    <2>1. \A s : Holds(v, s) => Holds(v, s)' \/ (s = r /\ x.received)
        BY <1>3
    <2>2. ServedAt(v)'
        BY <1>1, <1>5, <2>1, ServedAsked DEF Served, n
    <2> QED BY <1>2, <2>2 DEF Served
<1> QED BY <1>1, <1>4, <1>5

LEMMA ServedInit == CoordinationInit => Served
BY DEF CoordinationInit, Served, ServedAt, Running

LEMMA ServedStep == CoordinationTypeOK /\ Served /\ [CoordinationNext]_coordinationVars => Served'
<1> SUFFICES ASSUME CoordinationTypeOK, Served, [CoordinationNext]_coordinationVars PROVE Served'
    OBVIOUS
<1>1. joint.vehicles \subseteq Vehicle /\ joint.requests \subseteq Coordinated
    BY JointTyped DEF CoordinationTypeOK
<1>2. ASSUME NEW v \in joint.vehicles, NEW r \in joint.requests, HandleCoordinatedAutomationRequest(v, r)
      PROVE  Served'
    <2>1. PICK x \in Elements : x = WithOwnState(v, r) /\ x.received
        BY <1>1, WithOwnStateTyped
    <2>2. CheckAssignmentReady(v, r, x)
        BY <1>2, <2>1 DEF HandleCoordinatedAutomationRequest
    <2>3. /\ \A u \in Vehicle \ {v} : Running(u)' = Running(u)
          /\ \A s \in Running(v)' : s \in Running(v) \/ (s = r /\ x.received)
          /\ intruded' = intruded
        BY <1>1, <1>2, <2>1 DEF HandleCoordinatedAutomationRequest, CoordinationTypeOK, Running
    <2> QED BY <1>1, <2>1, <2>2, <2>3, ServedCheck
<1>3. ASSUME NEW v \in joint.vehicles, NEW r \in joint.requests, CheckForAssignmentTimeMax(v, r)
      PROVE  Served'
    <2>1. /\ coordinationElements' = coordinationElements /\ intruded' = intruded
          /\ r \in Running(v) /\ \A u \in Vehicle : Running(u)' \subseteq Running(u)
        BY <1>1, <1>3 DEF CheckForAssignmentTimeMax, surroundings, CoordinationTypeOK, Running
    <2>2. CASE UNCHANGED requested
        BY <2>1, <2>2, ServedStill DEF Served
    <2>3. CASE ~UNCHANGED requested
        <3> DEFINE n == Len(requested[v])
        <3>1. r \in DOMAIN coordinationElements[v] /\ Asks(v, TaskAutomationRequest(v, r, Collected(v, r), TRUE))
            BY <1>3, <2>3 DEF CheckForAssignmentTimeMax, Asks
        <3>2. PICK y \in Elements : y = Collected(v, r) /\ y = coordinationElements[v][r]
            BY <1>1, <3>1, CollectedTyped DEF Collected
        <3>3. PICK isCut \in BOOLEAN : isCut = TRUE
            OBVIOUS
        <3>4. PICK a \in Ask : /\ a = TaskAutomationRequest(v, r, y, isCut)
                               /\ a.request = r /\ a.tasks = y.received
            BY <1>1, AskTyped
        <3>5. requested' = [requested EXCEPT ![v] = Append(@, a)]
            BY <3>1, <3>2, <3>3, <3>4 DEF Asks
        <3>6. /\ \A u \in Vehicle \ {v} : requested'[u] = requested[u]
              /\ Len(requested'[v]) = n + 1
              /\ \A i \in 1 .. n : requested'[v][i] = requested[v][i]
              /\ requested'[v][n + 1] = a
            BY <1>1, <3>5, Appended DEF CoordinationTypeOK
        <3>7. ServedAt(v)
            BY <1>1 DEF Served
        <3>8. r \in intruded[v] \/ Holds(v, r) \/ TasksAsked(v, r, n) \/ r = DefaultRequestID
            BY <2>1, <3>7 DEF ServedAt
        <3>9. Holds(v, r) => a.tasks
            BY <3>2, <3>4 DEF Holds
        <3>10. ServedAt(v)'
            <4>1. \A s : Holds(v, s) => Holds(v, s)'
                BY <2>1 DEF Holds
            <4>2. \A s \in Running(v)' : s \in Running(v)
                BY <1>1, <2>1
            <4> QED BY <1>1, <2>1, <3>4, <3>6, <3>7, <3>8, <3>9, <4>1, <4>2, ServedAsked
        <3>11. ASSUME NEW u \in Vehicle \ {v} PROVE ServedAt(u)'
            BY <2>1, <3>6, ServedStill DEF Served
        <3> QED BY <3>10, <3>11 DEF Served
    <2> QED BY <2>2, <2>3
<1>4. ASSUME NEW v \in joint.vehicles, NEW w \in joint.vehicles \ {v}, HandleAssignmentCoordination(v, w)
      PROVE  Served'
    <2>1. PICK c \in DOMAIN channel : c = <<w, v>>
        BY <1>4 DEF CoordinationTypeOK
    <2>2. Head(channel[c]) \in Message
        BY <1>4, <2>1, TailStep DEF HandleAssignmentCoordination
    <2>3. PICK m \in Message : m = Head(channel[<<w, v>>])
        BY <2>1, <2>2
    <2>4. m.request \in Coordinated /\ m.position \in 1 .. MaxPosition
        BY DEF Message
    <2>5. PICK y \in Elements : y = Collected(v, m.request)
        BY <1>1, <2>4, CollectedTyped
    <2>6. PICK x \in Elements : x = Joined(y, w, m.position) /\ x.received = y.received
        BY <1>1, <2>4, JoinedTyped
    <2>7. /\ CheckAssignmentReady(v, m.request, x)
          /\ intruded' = intruded /\ \A u \in Vehicle : Running(u)' = Running(u)
        BY <1>4, <2>3, <2>5, <2>6 DEF HandleAssignmentCoordination, Running
    <2>8. Holds(v, m.request) => x.received
        BY <2>5, <2>6 DEF Collected, Holds
    <2> QED BY <1>1, <2>4, <2>7, <2>8, ServedCheck
<1>5. ASSUME NEW v \in joint.vehicles, NEW r, Drops(v, r), UNCHANGED <<requested, maxTimes>>,
             \A u \in Vehicle : intruded[u] \subseteq intruded'[u],
             r \in intruded'[v] \/ r = DefaultRequestID \/ TasksAsked(v, r, Len(requested[v]))
      PROVE  Served'
    <2>0. \A u \in Vehicle : Running(u)' = Running(u)
        BY <1>5 DEF Running
    <2>1. ElementsOK
        BY DEF CoordinationTypeOK, ElementsOK
    <2>2. /\ \A u \in Vehicle \ {v} : coordinationElements'[u] = coordinationElements[u]
          /\ DOMAIN coordinationElements'[v] = DOMAIN coordinationElements[v] \ {r}
          /\ \A s \in DOMAIN coordinationElements'[v] :
                coordinationElements'[v][s] = coordinationElements[v][s]
        BY <1>1, <1>5, <2>1, Dropped
    <2>3. ASSUME NEW u \in Vehicle \ {v} PROVE ServedAt(u)'
        BY <1>5, <2>0, <2>2, ServedStill DEF Served
    <2>4. \A s : s # r /\ Holds(v, s) => Holds(v, s)'
        BY <2>2 DEF Holds
    <2>5. ServedAt(v)
        BY <1>1 DEF Served
    <2>6. ASSUME NEW s \in Running(v)' \ {DefaultRequestID}
          PROVE  s \in intruded'[v] \/ Holds(v, s)' \/ TasksAsked(v, s, Len(requested[v]))'
        <3>1. s \in intruded[v] \/ Holds(v, s) \/ TasksAsked(v, s, Len(requested[v]))
            BY <1>1, <2>0, <2>5 DEF ServedAt
        <3>2. TasksAsked(v, s, Len(requested[v])) => TasksAsked(v, s, Len(requested[v]))'
            BY <1>5 DEF TasksAsked
        <3> QED BY <1>1, <1>5, <2>4, <3>1, <3>2
    <2>7. ServedAt(v)'
        BY <1>1, <1>5, <2>5, <2>6 DEF ServedAt, TasksAsked
    <2> QED BY <2>3, <2>7 DEF Served
<1>6. ASSUME NEW v \in joint.vehicles, HandleTaskAutomationResponse(v) PROVE Served'
    <2> DEFINE i == answered[v] + 1
    <2>1. ServedAt(v) /\ i \in 1 .. Len(requested[v])
        BY <1>1, <1>6 DEF Served, ServedAt, HandleTaskAutomationResponse, CoordinationTypeOK
    <2>2. /\ Drops(v, requested[v][i].request)
          /\ UNCHANGED <<requested, maxTimes, intruded>>
        BY <1>6 DEF HandleTaskAutomationResponse, Drops
    <2> HIDE DEF i
    <2>3. PICK r : r = requested[v][i].request
        OBVIOUS
    <2>4. r \in intruded[v] \/ r = DefaultRequestID \/ TasksAsked(v, r, Len(requested[v]))
        BY <2>1, <2>3 DEF ServedAt, TasksAsked
    <2> QED BY <1>5, <2>2, <2>3, <2>4
<1>7. ASSUME NEW v \in joint.vehicles, NEW r \in joint.requests, HandleForeignResponse(v, r) PROVE Served'
    <2>1. /\ Drops(v, r) /\ UNCHANGED <<requested, maxTimes>> /\ r \in intruded'[v]
          /\ \A u \in Vehicle : intruded[u] \subseteq intruded'[u]
        BY <1>1, <1>7 DEF HandleForeignResponse, Drops, CoordinationTypeOK
    <2> QED BY <1>5, <2>1
<1>8. ASSUME UNCHANGED <<coordinationElements, requested, maxTimes, intruded>> PROVE Served'
    <2>1. \A u \in Vehicle : Running(u)' = Running(u)
        BY <1>8 DEF Running
    <2> QED BY <1>8, <2>1, ServedStill DEF Served
<1>9. ASSUME NEW v \in joint.vehicles, HandleAirVehicleState(v) PROVE Served'
    BY <1>8, <1>9 DEF HandleAirVehicleState, surroundings
<1>10. ASSUME NEW v \in joint.vehicles, NEW r \in joint.requests, LoseRequest(v, r) PROVE Served'
    BY <1>8, <1>10 DEF LoseRequest, coordinator
<1>11. ASSUME NEW v \in joint.vehicles, NEW w \in joint.vehicles \ {v}, LoseCoordination(v, w) PROVE Served'
    BY <1>8, <1>11 DEF LoseCoordination, coordinator
<1>12. CASE UNCHANGED coordinationVars
    BY <1>8, <1>12 DEF coordinationVars, coordinator, surroundings
<1> QED
    BY <1>2, <1>3, <1>4, <1>6, <1>7, <1>9, <1>10, <1>11, <1>12
    DEF CoordinationNext, CoordinationWork, CoordinationSurroundings

(***************************************************************************)
(* The planner gets the blank request of elements made anew by a late      *)
(* planning state, but except for identifier 0 never instead of the        *)
(* request itself: that was asked for before, or was ended by an answer    *)
(* to somebody else.                                                       *)
(***************************************************************************)
THEOREM NothingInItsPlace == CoordinationSpec => []NothingAskedInItsPlace
<1>1. CoordinationTypeOK /\ Served => NothingAskedInItsPlace
    <2>1. CoordinationTypeOK => \A v \in Vehicle : DOMAIN requested[v] = 1 .. Len(requested[v])
        BY LenProperties DEF CoordinationTypeOK
    <2> QED BY <2>1 DEF Served, ServedAt, TasksAsked, NothingAskedInItsPlace
<1> QED BY <1>1, TypeInit, TypeStep, ServedInit, ServedStep, PTL DEF CoordinationSpec

-----------------------------------------------------------------------------
(***************************************************************************)
(* What is found on the way along a plan (Walk) are its legs: by induction *)
(* along the plan, with the set of the numbers of waypoints up to which it *)
(* is so.                                                                  *)
(***************************************************************************)

\* A set of natural numbers that is not empty has a least element: the
\* intervals from 0 to its elements are ordered by inclusion.
LEMMA LeastOf ==
    ASSUME NEW T, T \subseteq Nat, T # {}
    PROVE  \E m \in T : \A n \in T : m <= n
<1> DEFINE below(n) == 0 .. n
           B == {below(n) : n \in T}
<1>1. \A n \in Nat : below(n) \in FiniteSubsetsOf(Nat)
    BY FS_Interval DEF FiniteSubsetsOf
<1>2. B \subseteq FiniteSubsetsOf(Nat) /\ B # {}
    BY <1>1
<1> HIDE DEF B
<1>3. PICK x \in B : \A y \in B : <<y, x>> \notin StrictSubsetOrdering(Nat)
    BY <1>2, FS_StrictSubsetOrderingWellFounded, WFMin
<1>4. PICK m \in T : x = below(m)
    BY DEF B
<1>5. ASSUME NEW n \in T, n < m PROVE FALSE
    <2>1. below(n) \in B
        BY DEF B
    <2>2. below(n) \subseteq below(m) /\ m \in below(m) /\ m \notin below(n)
        BY <1>5
    <2>3. below(n) \subseteq Nat /\ below(m) \subseteq Nat
        OBVIOUS
    <2> HIDE DEF below
    <2> QED BY <1>3, <1>4, <2>1, <2>2, <2>3 DEF StrictSubsetOrdering
<1> QED BY <1>5

LEMMA AllTheWay ==
    ASSUME NEW n \in Nat, NEW T, 0 \in T, \A i \in 1 .. n : i - 1 \in T => i \in T
    PROVE  \A i \in 0 .. n : i \in T
<1> DEFINE Missed == {i \in 0 .. n : i \notin T}
<1>1. ASSUME Missed # {} PROVE FALSE
    <2>1. Missed \subseteq Nat
        OBVIOUS
    <2> HIDE DEF Missed
    <2>2. PICK m \in Missed : \A i \in Missed : m <= i
        BY <1>1, <2>1, LeastOf
    <2>3. m \in 0 .. n /\ m \notin T
        BY DEF Missed
    <2>4. m \in 1 .. n /\ m - 1 \in 0 .. n /\ m - 1 \notin Missed
        BY <2>2, <2>3
    <2> QED BY <2>3, <2>4 DEF Missed
<1> QED BY <1>1

(* There is a walk along every plan, of any length. *)
IsWalk(f, n, w) == f = [i \in 0 .. n |-> IF i = 0 THEN AtOutset ELSE Pass(f[i - 1], w, i)]
LEMMA WalksExist ==
    ASSUME NEW w, NEW n \in Nat
    PROVE  \E f : IsWalk(f, n, w)
<1> DEFINE P(f, m) == IsWalk(f, m, w)
           T == {m \in Nat : \E f : P(f, m)}
<1>1. 0 \in T
    <2>1. P([i \in 0 .. 0 |-> AtOutset], 0)
        BY DEF IsWalk
    <2> HIDE DEF P
    <2> QED BY <2>1
<1>2. ASSUME NEW m \in 1 .. n, m - 1 \in T
      PROVE  m \in T
    <2>1. PICK f : P(f, m - 1)
        BY <1>2
    <2>2. f = [i \in 0 .. m - 1 |-> IF i = 0 THEN AtOutset ELSE Pass(f[i - 1], w, i)]
        BY <2>1 DEF IsWalk
    <2> DEFINE g == [i \in 0 .. m |-> IF i = m THEN Pass(f[m - 1], w, m) ELSE f[i]]
    <2>3. ASSUME NEW i \in 0 .. m
          PROVE  g[i] = IF i = 0 THEN AtOutset ELSE Pass(g[i - 1], w, i)
        <3>1. CASE i = 0
            BY <2>2, <3>1
        <3>2. CASE i # 0
            <4>1. g[i - 1] = f[i - 1] /\ i - 1 \in 0 .. m - 1
                BY <3>2
            <4>2. g[i] = Pass(f[i - 1], w, i)
                <5>1. CASE i = m
                    BY <5>1
                <5>2. CASE i # m
                    <6>1. g[i] = f[i] /\ i \in 0 .. m - 1
                        BY <5>2
                    <6> HIDE DEF g
                    <6> QED BY <2>2, <3>2, <6>1
                <5> QED BY <5>1, <5>2
            <4> HIDE DEF g
            <4> QED BY <3>2, <4>1, <4>2
        <3> QED BY <3>1, <3>2
    <2>4. g = [i \in 0 .. m |-> g[i]]
        OBVIOUS
    <2> HIDE DEF g
    <2>5. P(g, m)
        BY <2>3, <2>4 DEF IsWalk
    <2> HIDE DEF P
    <2> QED BY <2>5
<1> HIDE DEF P, T
<1>3. n \in T
    BY <1>1, <1>2, AllTheWay
<1> QED BY <1>3 DEF T, P

LEMMA WalkIs ==
    ASSUME NEW w, Len(w) \in Nat
    PROVE  /\ Walk(w)[0] = AtOutset
           /\ \A i \in 1 .. Len(w) : Walk(w)[i] = Pass(Walk(w)[i - 1], w, i)
<1> DEFINE f == Walk(w)
<1>1. f = CHOOSE g : IsWalk(g, Len(w), w)
    BY DEF Walk, IsWalk
<1> HIDE DEF f
<1>2. f = [i \in 0 .. Len(w) |-> IF i = 0 THEN AtOutset ELSE Pass(f[i - 1], w, i)]
    BY <1>1, WalksExist DEF IsWalk
<1>3. \A i \in 0 .. Len(w) : f[i] = IF i = 0 THEN AtOutset ELSE Pass(f[i - 1], w, i)
    BY <1>2
<1>4. f[0] = AtOutset
    <2>1. 0 \in 0 .. Len(w)
        OBVIOUS
    <2> QED BY <1>3, <2>1, Zenon
<1>5. ASSUME NEW i \in 1 .. Len(w)
      PROVE  f[i] = Pass(f[i - 1], w, i)
    <2>1. i \in 0 .. Len(w) /\ i # 0
        OBVIOUS
    <2> QED BY <1>3, <2>1, Zenon
<1> QED BY <1>4, <1>5 DEF f

(***************************************************************************)
(* Where the walk is after i waypoints.  On its way to a task it has all   *)
(* the legs that began so far; on a task, all but the last of them.        *)
(***************************************************************************)
Leg(w, j) == <<TaskBefore(w, j), w[j]>>
LastBegun(w, i, j) == j \in Begins(w) /\ j <= i /\ \A k \in Begins(w) : k <= i => k <= j
Underway(s, w, i) ==
    /\ s.toTask /\ (i = 0 \/ ~OnTask(w, i))
    /\ s.workingTask = TaskBefore(w, i + 1)
    /\ s.legs = {Leg(w, j) : j \in {j \in Begins(w) : j <= i}}
Busy(s, w, i) ==
    /\ ~s.toTask /\ i # 0 /\ OnTask(w, i)
    /\ \E j : /\ LastBegun(w, i, j)
              /\ s.workingTask = w[j] /\ s.prevTask = TaskBefore(w, j)
              /\ s.legs = {Leg(w, k) : k \in {k \in Begins(w) : k < j}}
Walked(s, w, i) == /\ s \in [toTask : BOOLEAN, workingTask : Nat, prevTask : Nat, legs : SUBSET (Nat \X Nat)]
                   /\ Underway(s, w, i) \/ Busy(s, w, i)

\* The last that began before i is the one whose task comes before.
LEMMA TaskBeforeIs ==
    ASSUME NEW w \in Seq(Nat), NEW i \in Nat
    PROVE  /\ TaskBefore(w, i) \in Nat
           /\ (\A j \in Begins(w) : ~(j < i)) => TaskBefore(w, i) = 0
           /\ \A j \in Begins(w) : j < i /\ (\A k \in Begins(w) : k < i => k <= j) => TaskBefore(w, i) = w[j]
<1> DEFINE before == {j \in Begins(w) : j < i}
<1>1. Len(w) \in Nat /\ Begins(w) \subseteq 1 .. Len(w) /\ \A j \in 1 .. Len(w) : w[j] \in Nat
    BY LenProperties, ElementOfSeq DEF Begins
<1>2. TaskBefore(w, i) = IF before = {} THEN 0 ELSE w[Max(before)]
    BY DEF TaskBefore
<1>3. \A j \in before : (\A k \in before : k <= j) => Max(before) = j
    <2> SUFFICES ASSUME NEW j \in before, \A k \in before : k <= j
                 PROVE  Max(before) = j
        OBVIOUS
    <2>1. before \subseteq Nat
        BY <1>1
    <2> HIDE DEF before
    <2>3. \A k \in before : j >= k
        BY <2>1
    <2>2. Max(before) \in before /\ \A k \in before : Max(before) >= k
        BY <2>3 DEF Max
    <2>4. Max(before) >= j /\ Max(before) <= j /\ Max(before) \in Nat /\ j \in Nat
        BY <2>1, <2>2
    <2> QED BY <2>4
<1>4. ASSUME before # {}
      PROVE  \E j \in before : \A k \in before : k <= j
    <2> DEFINE far == {Len(w) - j : j \in before}
    <2>1. far \subseteq Nat /\ far # {}
        BY <1>1, <1>4
    <2> HIDE DEF far
    <2>2. PICK m \in far : \A n \in far : m <= n
        BY <2>1, LeastOf
    <2>3. PICK j \in before : m = Len(w) - j
        BY DEF far
    <2>4. ASSUME NEW k \in before PROVE k <= j
        <3>1. Len(w) - k \in far
            BY DEF far
        <3>2. Len(w) - j <= Len(w) - k
            BY <2>2, <2>3, <3>1
        <3> QED BY <1>1, <3>2
    <2> QED BY <2>4
<1>5. TaskBefore(w, i) \in Nat
    <2>1. ASSUME before # {} PROVE Max(before) \in 1 .. Len(w)
        BY <1>1, <1>3, <1>4, <2>1
    <2> HIDE DEF before
    <2> QED BY <1>1, <1>2, <2>1
<1> QED BY <1>2, <1>3, <1>5

LEMMA Passes ==
    ASSUME NEW w \in Seq(Nat), NEW i \in 1 .. Len(w), NEW s, Walked(s, w, i - 1)
    PROVE  Walked(Pass(s, w, i), w, i)
<1> DEFINE B == Begins(w)
           t == Pass(s, w, i)
<1>1. Len(w) \in Nat /\ B \subseteq 1 .. Len(w) /\ \A j \in 1 .. Len(w) : w[j] \in Nat
    BY LenProperties, ElementOfSeq DEF Begins
<1>2. s \in [toTask : BOOLEAN, workingTask : Nat, prevTask : Nat, legs : SUBSET (Nat \X Nat)]
    BY DEF Walked
<1>3. \A j \in B : j # i => (j <= i <=> j <= i - 1) /\ (j < i + 1 <=> j < i)
    BY <1>1
<1>4. CASE s.toTask /\ OnTask(w, i)
    <2>1. t = [s EXCEPT !.toTask = FALSE, !.prevTask = s.workingTask, !.workingTask = w[i]]
        BY <1>4 DEF Pass
    <2>0. t = [toTask |-> FALSE, workingTask |-> w[i], prevTask |-> s.workingTask, legs |-> s.legs]
        BY <1>2, <2>1
    <2>2. Underway(s, w, i - 1)
        BY <1>4 DEF Walked, Busy
    <2>3. i \in B
        BY <1>1, <1>4, <2>2 DEF Underway, OnTask, Begins
    <2>4. LastBegun(w, i, i)
        BY <2>3 DEF LastBegun
    <2>9. s.workingTask = TaskBefore(w, i)
        <3>1. (i - 1) + 1 = i
            BY <1>1
        <3> QED BY <2>2, <3>1 DEF Underway
    <2> HIDE DEF t
    <2>5. /\ ~t.toTask /\ t.workingTask = w[i] /\ t.prevTask = TaskBefore(w, i) /\ t.legs = s.legs
          /\ t \in [toTask : BOOLEAN, workingTask : Nat, prevTask : Nat, legs : SUBSET (Nat \X Nat)]
        BY <1>1, <1>2, <2>0, <2>9
    <2>6. {j \in B : j <= i - 1} = {j \in B : j < i}
        BY <1>1
    <2>7. t.legs = {Leg(w, k) : k \in {k \in B : k < i}}
        BY <2>2, <2>5, <2>6 DEF Underway
    <2>8. Busy(t, w, i)
        <3>1. i # 0
            BY <1>1
        <3> QED BY <1>4, <2>4, <2>5, <2>7, <3>1 DEF Busy
    <2> QED BY <2>5, <2>8 DEF Walked, t
<1>5. CASE ~s.toTask /\ ~OnTask(w, i)
    <2>1. t = [s EXCEPT !.toTask = TRUE, !.legs = @ \cup {<<s.prevTask, s.workingTask>>}]
        BY <1>5 DEF Pass
    <2>2. Busy(s, w, i - 1)
        BY <1>5 DEF Walked, Underway
    <2>3. PICK j : /\ LastBegun(w, i - 1, j)
                   /\ s.workingTask = w[j] /\ s.prevTask = TaskBefore(w, j)
                   /\ s.legs = {Leg(w, k) : k \in {k \in B : k < j}}
        BY <2>2 DEF Busy
    <2>4. i \notin B
        BY <1>1, <1>5 DEF Begins, OnTask
    <2>5. j \in B /\ j < i /\ \A k \in B : k <= i => k <= j
        BY <1>1, <1>3, <2>3, <2>4 DEF LastBegun
    <2>6. {k \in B : k <= i} = {k \in B : k < j} \cup {j}
        BY <1>1, <2>5
    <2>11. t = [toTask |-> TRUE, workingTask |-> s.workingTask, prevTask |-> s.prevTask,
                legs |-> s.legs \cup {<<s.prevTask, s.workingTask>>}]
        BY <1>2, <2>1
    <2> HIDE DEF t
    <2>12. <<s.prevTask, s.workingTask>> \in Nat \X Nat
        BY <1>2
    <2>7. /\ t.toTask /\ t.workingTask = w[j] /\ t.legs = s.legs \cup {Leg(w, j)}
          /\ t \in [toTask : BOOLEAN, workingTask : Nat, prevTask : Nat, legs : SUBSET (Nat \X Nat)]
        BY <1>2, <2>3, <2>11, <2>12 DEF Leg
    <2>8. t.legs = {Leg(w, k) : k \in {k \in B : k <= i}}
        <3> DEFINE A == {k \in B : k < j}
        <3>1. s.legs = {Leg(w, k) : k \in A} /\ {k \in B : k <= i} = A \cup {j}
            BY <2>3, <2>6
        <3> HIDE DEF A
        <3>2. {Leg(w, k) : k \in A \cup {j}} = {Leg(w, k) : k \in A} \cup {Leg(w, j)}
            OBVIOUS
        <3> QED BY <2>7, <3>1, <3>2
    <2>9. TaskBefore(w, i + 1) = w[j]
        <3>1. i + 1 \in Nat /\ \A k \in B : k < i + 1 => k <= i
            BY <1>1
        <3>2. j \in B /\ j < i + 1 /\ \A k \in B : k < i + 1 => k <= j
            BY <1>1, <2>5, <3>1
        <3> QED BY <3>1, <3>2, TaskBeforeIs
    <2>10. Underway(t, w, i)
        BY <1>5, <2>7, <2>8, <2>9 DEF Underway
    <2> QED BY <2>7, <2>10 DEF Walked, t
<1>6. CASE s.toTask /\ ~OnTask(w, i)
    <2>1. t = s
        BY <1>6 DEF Pass
    <2>2. Underway(s, w, i - 1)
        BY <1>6 DEF Walked, Busy
    <2>3. i \notin B
        BY <1>1, <1>6 DEF Begins, OnTask
    <2>4. {j \in B : j <= i} = {j \in B : j <= i - 1} /\ {j \in B : j < i + 1} = {j \in B : j < i}
        BY <1>1, <1>3, <2>3
    <2>5. TaskBefore(w, i + 1) = TaskBefore(w, i)
        BY <2>4 DEF TaskBefore
    <2>6. TaskBefore(w, (i - 1) + 1) = TaskBefore(w, i)
        OBVIOUS
    <2>7. Underway(s, w, i)
        BY <1>6, <2>2, <2>4, <2>5, <2>6 DEF Underway
    <2> QED BY <1>2, <2>1, <2>7 DEF Walked
<1>7. CASE ~s.toTask /\ OnTask(w, i)
    <2>1. t = s
        BY <1>7 DEF Pass
    <2>2. Busy(s, w, i - 1)
        BY <1>7 DEF Walked, Underway
    <2>3. i \notin B
        BY <1>1, <2>2 DEF Busy, Begins, OnTask
    <2>4. \A j : LastBegun(w, i - 1, j) => LastBegun(w, i, j)
        BY <1>1, <1>3, <2>3 DEF LastBegun
    <2>5. Busy(s, w, i)
        BY <1>1, <1>7, <2>2, <2>4 DEF Busy
    <2> QED BY <1>2, <2>1, <2>5 DEF Walked
<1> QED BY <1>4, <1>5, <1>6, <1>7

\* Along any plan the walk finds its legs: the last waypoint ends the last of them.
LEMMA WalkFindsLegs ==
    ASSUME NEW w \in Seq(Nat)
    PROVE  Walk(w)[Len(w)].legs = Legs(w)
<1> DEFINE n == Len(w)
           T == {i \in 0 .. n : Walked(Walk(w)[i], w, i)}
<1>1. n \in Nat /\ Begins(w) \subseteq 1 .. n - 1
    BY LenProperties DEF Begins
<1>2. 0 \in T
    <2>1. Walk(w)[0] = AtOutset
        BY <1>1, WalkIs
    <2>2. Begins(w) \cap {0} = {} /\ \A j \in Begins(w) : ~(j <= 0) /\ ~(j < 0 + 1)
        BY <1>1
    <2>3. TaskBefore(w, 0 + 1) = 0
        BY <2>2, TaskBeforeIs
    <2>4. {Leg(w, j) : j \in {j \in Begins(w) : j <= 0}} = {}
        BY <2>2
    <2>5. Walked(AtOutset, w, 0)
        BY <2>3, <2>4 DEF Walked, Underway, AtOutset
    <2> QED BY <1>1, <2>1, <2>5
<1>3. ASSUME NEW i \in 1 .. n, i - 1 \in T
      PROVE  i \in T
    <2>1. Walk(w)[i] = Pass(Walk(w)[i - 1], w, i)
        BY <1>1, WalkIs
    <2> QED BY <1>3, <2>1, Passes
<1> HIDE DEF T, n
<1>8. \A i \in 0 .. n : i \in T
    BY <1>1, <1>2, <1>3, AllTheWay
<1>4. n \in T
    BY <1>1, <1>8
<1>5. Walked(Walk(w)[n], w, n)
    BY <1>4 DEF T
<1>6. Underway(Walk(w)[n], w, n)
    <2>1. ~OnTask(w, n)
        BY <1>1 DEF OnTask, n
    <2> QED BY <1>5, <2>1 DEF Walked, Busy
<1>7. {j \in Begins(w) : j <= n} = Begins(w)
    BY <1>1
<1> QED BY <1>6, <1>7 DEF Underway, Legs, Leg, n
-----------------------------------------------------------------------------
(***************************************************************************)
(* Batches.  The invariant says what a batch still waits for: the parts of *)
(* it that are before the planner, and these only.                         *)
(***************************************************************************)
PartAsked == [id : Nat, batch : Batch, part : UNION {Parts(b) : b \in Batch}]
Answers == {AnswerTo(p, w) : p \in PartAsked, w \in Seq({0} \cup Task)}
Response == UNION {[batch : {b}, summaries : [Keys(b) -> SUBSET Nat]] : b \in Batch}
BatchTypeOK ==
    /\ m_responseId \in Nat /\ m_taskAutomationRequestId \in Nat
    /\ unanswered \in Seq(PartAsked) /\ planned \subseteq Answers
    /\ DOMAIN m_workingResponse = DOMAIN m_batchSummaryRequestVsTaskAutomation
    /\ \A r \in DOMAIN m_workingResponse :
          r \in Nat /\ r < m_responseId /\ m_workingResponse[r] \in Response
    /\ batchResponses \in Seq(Response)

(* What was asked for has an identifier of its own, and is of a batch that *)
(* has arrived.                                                            *)
Outstanding == {unanswered[i] : i \in DOMAIN unanswered}
AskedApart ==
    /\ \A p \in Outstanding \cup planned :
          p.id < m_taskAutomationRequestId /\ p.batch \notin arriving
    /\ \A p, q \in Outstanding : p.id = q.id => p = q
    /\ \A i, j \in DOMAIN unanswered : unanswered[i] = unanswered[j] => i = j

(* A batch that is worked on waits for its parts that are before the       *)
(* planner, and has what was planned for it.                               *)
OutstandingOf(b) == {p \in Outstanding : p.batch = b}
Own ==
    {x \in Response : \A k \in Keys(x.batch) : x.summaries[k] = PlansOf(x.batch, k)}
Awaited ==
    {r \in DOMAIN m_workingResponse :
        m_batchSummaryRequestVsTaskAutomation[r] =
            {p.id : p \in OutstandingOf(m_workingResponse[r].batch)}}
WorkedOnOnce ==
    /\ \A r \in DOMAIN m_workingResponse : m_workingResponse[r].batch \notin arriving
    /\ \A r, s \in DOMAIN m_workingResponse :
          m_workingResponse[r].batch = m_workingResponse[s].batch => r = s
WaitsForItsParts ==
    \A r \in DOMAIN m_workingResponse : r \in Awaited /\ m_workingResponse[r] \in Own

(* A batch that was answered has no parts before the planner.              *)
Answered == {x \in Own : x.batch \notin arriving /\ OutstandingOf(x.batch) = {}}
AnsweredInFull == \A n \in DOMAIN batchResponses : batchResponses[n] \in Answered

BatchInv == BatchTypeOK /\ AskedApart /\ WorkedOnOnce /\ WaitsForItsParts /\ AnsweredInFull
BatchesInv == ~batch.foreign => BatchInv
-----------------------------------------------------------------------------
(***************************************************************************)
(* The parts of a batch as a list: numbered in a row.                      *)
(***************************************************************************)
LEMMA PartsListed ==
    ASSUME NEW b \in Batch
    PROVE  SetToSeq(Parts(b)) \in Seq(Parts(b))
<1> DEFINE S == Parts(b)
           n == Cardinality(S)
           P(f) == IsInjective(f)
<1>1. n \in Nat /\ ExistsBijection(1 .. n, S)
    BY FS_CardinalityType, BatchAssumption
<1>2. PICK f \in [1 .. n -> S] : \A i, j \in 1 .. n : f[i] = f[j] => i = j
    BY <1>1 DEF ExistsBijection, Bijection, Injection, IsInjective
<1>3. P(f)
    BY <1>2 DEF IsInjective
<1>4. SetToSeq(S) = CHOOSE g \in [1 .. n -> S] : P(g)
    BY DEF SetToSeq
<1> HIDE DEF P, n, S
<1>5. SetToSeq(S) \in [1 .. n -> S]
    BY <1>2, <1>3, <1>4
<1>6. SetToSeq(S) \in Seq(S)
    BY <1>1, <1>5
<1> QED BY <1>6 DEF S

LEMMA SplitIs ==
    ASSUME NEW b \in Batch, m_taskAutomationRequestId \in Nat
    PROVE  /\ Split(b) \in Seq(PartAsked)
           /\ \A i \in 1 .. Len(Split(b)) : Split(b)[i].batch = b
                                         /\ Split(b)[i].id = m_taskAutomationRequestId + i - 1
<1> DEFINE parts == SetToSeq(Parts(b))
           given == m_taskAutomationRequestId
           s == [i \in DOMAIN parts |-> [id |-> given + i - 1, batch |-> b, part |-> parts[i]]]
<1>1. parts \in Seq(Parts(b))
    BY PartsListed
<1>2. \A x \in Parts(b) : x \in UNION {Parts(c) : c \in Batch}
    OBVIOUS
<1> DEFINE n == Len(parts)
<1>3. n \in Nat /\ DOMAIN parts = 1 .. n /\ \A i \in 1 .. n : parts[i] \in Parts(b)
    BY <1>1
<1> HIDE DEF parts, n
<1>4. \A i \in 1 .. n : [id |-> given + i - 1, batch |-> b, part |-> parts[i]] \in PartAsked
    BY <1>2, <1>3 DEF PartAsked
<1>5. s \in [1 .. n -> PartAsked]
    BY <1>3, <1>4
<1>6. s \in Seq(PartAsked) /\ Len(s) = n
    BY <1>3, <1>5
<1>7. \A i \in 1 .. n : s[i].batch = b /\ s[i].id = given + i - 1
    BY <1>3
<1>8. Split(b) = s
    BY DEF Split, parts
<1> HIDE DEF s
<1> QED BY <1>6, <1>7, <1>8

LEMMA ResponseIs ==
    /\ \A x \in Response : x.batch \in Batch /\ x.summaries \in [Keys(x.batch) -> SUBSET Nat]
    /\ \A b \in Batch : \A f \in [Keys(b) -> SUBSET Nat] : [batch |-> b, summaries |-> f] \in Response
    /\ \A x \in Response : \A f \in [Keys(x.batch) -> SUBSET Nat] :
          /\ [x EXCEPT !.summaries = f] \in Response
          /\ [x EXCEPT !.summaries = f].batch = x.batch
          /\ [x EXCEPT !.summaries = f].summaries = f
<1>1. ASSUME NEW x \in Response
      PROVE  x.batch \in Batch /\ x \in [batch : {x.batch}, summaries : [Keys(x.batch) -> SUBSET Nat]]
    BY DEF Response
<1>2. \A b \in Batch : \A f \in [Keys(b) -> SUBSET Nat] : [batch |-> b, summaries |-> f] \in Response
    BY DEF Response
<1>3. ASSUME NEW x \in Response, NEW f \in [Keys(x.batch) -> SUBSET Nat]
      PROVE  [x EXCEPT !.summaries = f] = [batch |-> x.batch, summaries |-> f]
    BY <1>1
<1> QED BY <1>1, <1>2, <1>3

(***************************************************************************)
(* What is planned for other batches does not change what is planned for   *)
(* this one.                                                               *)
(***************************************************************************)
LEMMA StaysOwn ==
    ASSUME NEW x \in Own, \A p : p.batch = x.batch => (p \in planned <=> p \in planned')
    PROVE  x \in Own'
<1>1. \A k : PlansOf(x.batch, k)' = PlansOf(x.batch, k)
    BY DEF PlansOf
<1> QED BY <1>1 DEF Own

LEMMA StaysAnswered ==
    ASSUME NEW x \in Answered, arriving' \subseteq arriving,
           \A p : p.batch = x.batch => (p \in planned <=> p \in planned'),
           \A p \in Outstanding' : p.batch = x.batch => p \in Outstanding
    PROVE  x \in Answered'
<1>1. x \in Own'
    BY StaysOwn DEF Answered
<1> QED BY <1>1 DEF Answered, OutstandingOf
-----------------------------------------------------------------------------
LEMMA BatchInvAtStart == BatchInit => BatchInv
<1> SUFFICES ASSUME BatchInit PROVE BatchInv
    OBVIOUS
<1> USE DEF BatchInit
<1>1. DOMAIN <<>> = {}
    OBVIOUS
<1>2. BatchTypeOK
    BY <1>1 DEF BatchTypeOK
<1>3. Outstanding = {}
    BY <1>1 DEF Outstanding
<1> QED BY <1>1, <1>2, <1>3 DEF BatchInv, AskedApart, WorkedOnOnce, WaitsForItsParts, AnsweredInFull

(***************************************************************************)
(* A batch arrives.  Its parts are numbered after all others, so that none *)
(* of them is waited for yet.                                              *)
(***************************************************************************)
LEMMA TakeStep ==
    ASSUME NEW b \in Batch, BatchInv, Take(b)
    PROVE  /\ m_responseId' \in Nat /\ m_taskAutomationRequestId' \in Nat
           /\ unanswered' \in Seq(PartAsked) /\ planned' \subseteq Answers
           /\ AskedApart'
           /\ OutstandingOf(b) = {} /\ OutstandingOf(b)' = ToSet(Split(b))
           /\ \A c : c # b => OutstandingOf(c)' = OutstandingOf(c)
<1> DEFINE given == m_taskAutomationRequestId
           new == Split(b)
<1>1. given \in Nat /\ unanswered \in Seq(PartAsked) /\ planned \subseteq Answers /\ m_responseId \in Nat
    BY DEF BatchInv, BatchTypeOK
<1>2. new \in Seq(PartAsked) /\ \A i \in 1 .. Len(new) : new[i].batch = b /\ new[i].id = given + i - 1
    BY <1>1, SplitIs
<1>3. /\ unanswered' = unanswered \o new /\ planned' = planned
      /\ given' = given + Len(new) /\ m_responseId' = m_responseId + 1
      /\ b \in arriving /\ arriving' = arriving \ {b}
    BY DEF Take
<1> HIDE DEF new
<1>4. /\ unanswered' \in Seq(PartAsked) /\ Len(unanswered') = Len(unanswered) + Len(new)
      /\ Len(unanswered) \in Nat /\ Len(new) \in Nat
      /\ \A i \in 1 .. Len(unanswered) : unanswered'[i] = unanswered[i]
      /\ \A i \in 1 .. Len(new) : unanswered'[Len(unanswered) + i] = new[i]
    BY <1>1, <1>2, <1>3
<1>5. DOMAIN unanswered' = 1 .. Len(unanswered) + Len(new) /\ DOMAIN unanswered = 1 .. Len(unanswered)
      /\ DOMAIN new = 1 .. Len(new)
    BY <1>1, <1>2, <1>4
<1>6. \A k \in DOMAIN unanswered' : \/ k \in DOMAIN unanswered /\ unanswered'[k] = unanswered[k]
                                    \/ \E i \in 1 .. Len(new) : k = Len(unanswered) + i /\ unanswered'[k] = new[i]
    <2> SUFFICES ASSUME NEW k \in 1 .. Len(unanswered) + Len(new), k > Len(unanswered)
                 PROVE  \E i \in 1 .. Len(new) : k = Len(unanswered) + i /\ unanswered'[k] = new[i]
        BY <1>4, <1>5
    <2>1. k - Len(unanswered) \in 1 .. Len(new) /\ k = Len(unanswered) + (k - Len(unanswered))
        BY <1>4
    <2> QED BY <2>1, <1>4
<1>7. Outstanding' = Outstanding \cup ToSet(new)
    <2>1. ToSet(new) = {new[i] : i \in 1 .. Len(new)}
        BY <1>5 DEF ToSet
    <2>2. \A i \in 1 .. Len(new) : Len(unanswered) + i \in DOMAIN unanswered'
        BY <1>4, <1>5
    <2>3. DOMAIN unanswered \subseteq DOMAIN unanswered'
        BY <1>4, <1>5
    <2> QED BY <1>4, <1>5, <1>6, <2>1, <2>2, <2>3 DEF Outstanding
<1>8. \A p \in Outstanding \cup planned : p.id \in Nat /\ p.id < given /\ p.batch \notin arriving
    <2>1. Outstanding \subseteq PartAsked
        BY <1>1 DEF Outstanding
    <2>2. \A p \in Outstanding \cup planned : p.id \in Nat
        BY <1>1, <2>1 DEF PartAsked, Answers, AnswerTo
    <2> QED BY <2>2 DEF BatchInv, AskedApart
<1>9. \A p \in ToSet(new) : p.batch = b /\ p.id \in Nat /\ p.id >= given /\ p.id < given'
    BY <1>1, <1>2, <1>3, <1>4, <1>5 DEF ToSet
<1>10. \A p, q \in ToSet(new) : p.id = q.id => p = q
    BY <1>1, <1>2, <1>5 DEF ToSet
<1>11. \A p \in (Outstanding \cup planned)' : p.id < given' /\ p.batch \notin arriving'
    BY <1>1, <1>3, <1>4, <1>7, <1>8, <1>9
<1>12. \A p, q \in Outstanding' : p.id = q.id => p = q
    BY <1>1, <1>7, <1>8, <1>9, <1>10 DEF BatchInv, AskedApart
<1>13. \A i, j \in DOMAIN unanswered' : unanswered'[i] = unanswered'[j] => i = j
    <2> SUFFICES ASSUME NEW i \in DOMAIN unanswered', NEW j \in DOMAIN unanswered',
                        unanswered'[i] = unanswered'[j]
                 PROVE  i = j
        OBVIOUS
    <2>1. \A k \in 1 .. Len(new) : new[k].id >= given /\ new[k].id \in Nat
        BY <1>1, <1>2, <1>4
    <2>2. \A k \in DOMAIN unanswered : unanswered[k].id < given /\ unanswered[k].id \in Nat
        BY <1>8 DEF Outstanding
    <2>3. CASE i \in DOMAIN unanswered /\ j \in DOMAIN unanswered
        BY <2>3, <1>4, <1>5 DEF BatchInv, AskedApart
    <2>4. CASE i \notin DOMAIN unanswered /\ j \notin DOMAIN unanswered
        <3>1. PICK k \in 1 .. Len(new) : i = Len(unanswered) + k /\ unanswered'[i] = new[k]
            BY <1>6, <2>4
        <3>2. PICK l \in 1 .. Len(new) : j = Len(unanswered) + l /\ unanswered'[j] = new[l]
            BY <1>6, <2>4
        <3>3. given + k - 1 = given + l - 1
            BY <1>2, <3>1, <3>2
        <3> QED BY <1>1, <1>4, <3>1, <3>2, <3>3
    <2>5. unanswered'[i].id = unanswered'[j].id
        OBVIOUS
    <2>6. \A k \in DOMAIN unanswered' : k \notin DOMAIN unanswered => unanswered'[k].id >= given
        BY <1>6, <2>1
    <2>7. \A k \in DOMAIN unanswered :
             unanswered'[k].id < given /\ unanswered'[k].id \in Nat
        BY <1>4, <1>5, <2>2
    <2> QED BY <1>1, <2>3, <2>4, <2>5, <2>6, <2>7
<1>14. OutstandingOf(b) = {} /\ OutstandingOf(b)' = ToSet(new)
    BY <1>3, <1>7, <1>8, <1>9 DEF OutstandingOf
<1>15. \A c : c # b => OutstandingOf(c)' = OutstandingOf(c)
    BY <1>7, <1>9 DEF OutstandingOf
<1>16. m_responseId' \in Nat /\ given' \in Nat /\ planned' \subseteq Answers
    BY <1>1, <1>3, <1>4
<1> QED BY <1>4, <1>11, <1>12, <1>13, <1>14, <1>15, <1>16 DEF AskedApart, new

LEMMA BegunIsOwn ==
    ASSUME NEW b \in Batch, BatchInv, Take(b)
    PROVE  /\ Begun(b) \in Response /\ Begun(b).batch = b
           /\ Begun(b) \in Own'
<1>1. [k \in Keys(b) |-> {}] \in [Keys(b) -> SUBSET Nat]
    OBVIOUS
<1>2. Begun(b) \in Response /\ Begun(b).batch = b /\ \A k \in Keys(b) : Begun(b).summaries[k] = {}
    BY <1>1, ResponseIs DEF Begun
<1>4. planned' = planned /\ \A p \in planned : p.batch # b
    BY DEF Take, BatchInv, AskedApart
<1>5. \A k : PlansOf(b, k)' = {}
    BY <1>4 DEF PlansOf
<1> QED BY <1>2, <1>5 DEF Own

LEMMA BatchArrives ==
    ASSUME NEW b \in Batch, BatchInv, HandleBatchSummaryRequest(b)
    PROVE  BatchInv'
<1>1. Take(b)
    BY DEF HandleBatchSummaryRequest
<1>2. /\ m_responseId' \in Nat /\ m_taskAutomationRequestId' \in Nat
      /\ unanswered' \in Seq(PartAsked) /\ planned' \subseteq Answers
      /\ AskedApart'
      /\ OutstandingOf(b) = {} /\ OutstandingOf(b)' = ToSet(Split(b))
      /\ \A c : c # b => OutstandingOf(c)' = OutstandingOf(c)
    BY <1>1, TakeStep
<1>3. Begun(b) \in Response /\ Begun(b).batch = b /\ Begun(b) \in Own'
    BY <1>1, BegunIsOwn
<1>4. b \in arriving /\ arriving' = arriving \ {b} /\ planned' = planned /\ m_responseId' = m_responseId + 1
    BY <1>1 DEF Take
<1>5. \A x \in Answered : x \in Answered'
    <2> SUFFICES ASSUME NEW x \in Answered PROVE x \in Answered'
        OBVIOUS
    <2>1. x.batch # b
        BY <1>4 DEF Answered
    <2>2. \A p \in Outstanding' : p.batch = x.batch => p \in Outstanding
        BY <1>2, <2>1 DEF OutstandingOf
    <2> QED BY <1>4, <2>2, StaysAnswered
<1>6. \A r \in DOMAIN m_workingResponse :
          /\ m_workingResponse[r].batch # b /\ m_workingResponse[r].batch \notin arriving
          /\ m_workingResponse[r] \in Own /\ r \in Awaited
          /\ r \in Nat /\ r < m_responseId /\ m_workingResponse[r] \in Response
    BY <1>4 DEF BatchInv, WorkedOnOnce, WaitsForItsParts, BatchTypeOK
<1>7. \A x \in Own : x \in Own'
    BY <1>4, StaysOwn
<1>8. CASE Await(b, Split(b))
    <2> DEFINE new == m_responseId
               ids == {p.id : p \in ToSet(Split(b))}
    <2>1. /\ m_workingResponse' = WithBatch(m_workingResponse, new, Begun(b))
          /\ m_batchSummaryRequestVsTaskAutomation' =
                 WithBatch(m_batchSummaryRequestVsTaskAutomation, new, ids)
          /\ batchResponses' = batchResponses
        BY <1>8 DEF Await
    <2> HIDE DEF ids
    <2>2. new \in Nat /\ new \notin DOMAIN m_workingResponse
          /\ DOMAIN m_workingResponse = DOMAIN m_batchSummaryRequestVsTaskAutomation
        BY <1>6 DEF BatchInv, BatchTypeOK
    <2>3. /\ DOMAIN m_workingResponse' = {new} \cup DOMAIN m_workingResponse
          /\ DOMAIN m_batchSummaryRequestVsTaskAutomation' = {new} \cup DOMAIN m_workingResponse
          /\ m_workingResponse'[new] = Begun(b) /\ m_batchSummaryRequestVsTaskAutomation'[new] = ids
        BY <2>1, <2>2 DEF WithBatch
    <2>4. \A r \in DOMAIN m_workingResponse :
             /\ m_workingResponse'[r] = m_workingResponse[r]
             /\ m_batchSummaryRequestVsTaskAutomation'[r] = m_batchSummaryRequestVsTaskAutomation[r]
        BY <2>1, <2>2 DEF WithBatch
    <2>5. BatchTypeOK'
        BY <1>2, <1>3, <1>4, <1>6, <2>1, <2>2, <2>3, <2>4 DEF BatchTypeOK, BatchInv
    <2>6. WorkedOnOnce'
        BY <1>3, <1>4, <1>6, <2>3, <2>4 DEF WorkedOnOnce, BatchInv
    <2>7. new \in Awaited'
        BY <1>2, <1>3, <2>3 DEF Awaited, ids
    <2>8. \A r \in DOMAIN m_workingResponse : r \in Awaited'
        BY <1>2, <1>6, <2>3, <2>4 DEF Awaited
    <2>9. \A r \in DOMAIN m_workingResponse' : m_workingResponse'[r] \in Own'
        BY <1>3, <1>6, <1>7, <2>3, <2>4
    <2>10. AnsweredInFull'
        BY <1>5, <2>1 DEF AnsweredInFull, BatchInv
    <2> QED BY <1>2, <2>3, <2>5, <2>6, <2>7, <2>8, <2>9, <2>10 DEF BatchInv, WaitsForItsParts
<1>9. CASE /\ Split(b) = <<>>
           /\ batchResponses' = Append(batchResponses, Begun(b))
           /\ UNCHANGED <<m_workingResponse, m_batchSummaryRequestVsTaskAutomation>>
    <2>1. ToSet(Split(b)) = {}
        BY <1>9 DEF ToSet
    <2>2. Begun(b) \in Answered'
        BY <1>2, <1>3, <1>4, <2>1 DEF Answered
    <2>3. BatchTypeOK'
        BY <1>2, <1>3, <1>4, <1>6, <1>9 DEF BatchTypeOK, BatchInv
    <2>4. WorkedOnOnce'
        BY <1>4, <1>6, <1>9 DEF WorkedOnOnce, BatchInv
    <2>5. WaitsForItsParts'
        BY <1>2, <1>6, <1>7, <1>9 DEF WaitsForItsParts, Awaited
    <2>6. batchResponses \in Seq(Response)
        BY DEF BatchInv, BatchTypeOK
    <2>7. \A n \in DOMAIN batchResponses' :
             \/ batchResponses'[n] = Begun(b)
             \/ n \in DOMAIN batchResponses /\ batchResponses'[n] = batchResponses[n]
        BY <1>3, <1>9, <2>6
    <2>8. AnsweredInFull'
        BY <1>5, <2>2, <2>7 DEF AnsweredInFull, BatchInv
    <2> QED BY <1>2, <2>3, <2>4, <2>5, <2>8 DEF BatchInv
<1> QED BY <1>8, <1>9 DEF HandleBatchSummaryRequest
-----------------------------------------------------------------------------
(***************************************************************************)
(* The planner answers the first of what is before it, p.                  *)
(***************************************************************************)
LEMMA AnsweredStep ==
    ASSUME BatchInv, unanswered # <<>>, unanswered' = Tail(unanswered),
           NEW p, p = Head(unanswered)
    PROVE  /\ p \in PartAsked /\ p \in Outstanding /\ unanswered' \in Seq(PartAsked)
           /\ Outstanding' = Outstanding \ {p}
           /\ \A i, j \in DOMAIN unanswered' : unanswered'[i] = unanswered'[j] => i = j
<1>1. unanswered \in Seq(PartAsked)
    BY DEF BatchInv, BatchTypeOK
<1>2. /\ unanswered' \in Seq(PartAsked) /\ Len(unanswered) \in Nat /\ Len(unanswered) >= 1
      /\ DOMAIN unanswered = 1 .. Len(unanswered) /\ DOMAIN unanswered' = 1 .. Len(unanswered) - 1
      /\ \A i \in 1 .. Len(unanswered) - 1 : unanswered'[i] = unanswered[i + 1]
      /\ p = unanswered[1] /\ p \in PartAsked
    BY <1>1
<1>3. \A i, j \in DOMAIN unanswered : unanswered[i] = unanswered[j] => i = j
    BY DEF BatchInv, AskedApart
<1>4. \A i \in DOMAIN unanswered' : i \in Nat /\ i + 1 \in DOMAIN unanswered /\ i + 1 # 1
    BY <1>2
<1>5. \A i \in DOMAIN unanswered : i # 1 => i - 1 \in DOMAIN unanswered' /\ unanswered'[i - 1] = unanswered[i]
    BY <1>2
<1>6. Outstanding' = Outstanding \ {p}
    <2>1. ASSUME NEW q \in Outstanding'
          PROVE  q \in Outstanding /\ q # p
        <3>1. PICK i \in DOMAIN unanswered' : q = unanswered'[i]
            BY DEF Outstanding
        <3>2. q = unanswered[i + 1] /\ i + 1 \in DOMAIN unanswered /\ i + 1 # 1
            BY <1>2, <1>4, <3>1
        <3>3. 1 \in DOMAIN unanswered
            BY <1>2
        <3> QED BY <1>2, <1>3, <3>2, <3>3 DEF Outstanding
    <2>2. ASSUME NEW q \in Outstanding, q # p
          PROVE  q \in Outstanding'
        <3>1. PICK i \in DOMAIN unanswered : q = unanswered[i]
            BY DEF Outstanding
        <3>2. i # 1
            BY <1>2, <2>2, <3>1
        <3> QED BY <1>5, <3>1, <3>2 DEF Outstanding
    <2> QED BY <2>1, <2>2
<1>7. \A i, j \in DOMAIN unanswered' : unanswered'[i] = unanswered'[j] => i = j
    BY <1>2, <1>3, <1>4
<1>8. p \in Outstanding
    BY <1>2 DEF Outstanding
<1> QED BY <1>2, <1>6, <1>7, <1>8

(***************************************************************************)
(* A summary with the plan w, if it has the leg.                           *)
(***************************************************************************)
Updated(x, p, w) ==
    [x EXCEPT !.summaries = UpdateTaskSummaries(@, p.part.vehicle, w, p.id)]
LEMMA UpdatedIsOwn ==
    ASSUME NEW p \in PartAsked, NEW w \in Seq(Nat), NEW x \in Own, x.batch = p.batch,
           planned' = planned \cup {AnswerTo(p, w)}
    PROVE  /\ Updated(x, p, w) \in Response /\ Updated(x, p, w).batch = x.batch
           /\ Updated(x, p, w) \in Own'
<1> DEFINE new == UpdateTaskSummaries(x.summaries, p.part.vehicle, w, p.id)
           b == x.batch
           isFor(k) == k.vehicle = p.part.vehicle /\ <<k.from, k.task>> \in Legs(w)
<1>1. x \in Response /\ b \in Batch /\ x.summaries \in [Keys(b) -> SUBSET Nat] /\ p.id \in Nat
    BY ResponseIs DEF Own, PartAsked
<1>2. new = [k \in Keys(b) |-> IF isFor(k) THEN x.summaries[k] \cup {p.id} ELSE x.summaries[k]]
    BY <1>1, WalkFindsLegs DEF UpdateTaskSummaries
<1> HIDE DEF new
<1>3. new \in [Keys(b) -> SUBSET Nat]
    BY <1>1, <1>2
<1>4. \A k \in Keys(b) : new[k] = x.summaries[k] \cup IF isFor(k) THEN {p.id} ELSE {}
    BY <1>2
<1>5. ASSUME NEW k \in Keys(b)
      PROVE  PlansOf(b, k)' = PlansOf(b, k) \cup IF isFor(k) THEN {p.id} ELSE {}
    <2> DEFINE a == AnswerTo(p, w)
               hasLeg(c) == c.batch = b /\ c.vehicle = k.vehicle /\ <<k.from, k.task>> \in Legs(c.waypoints)
    <2>1. a.id = p.id /\ a.batch = b /\ (hasLeg(a) <=> isFor(k))
        BY DEF AnswerTo
    <2>2. planned' = planned \cup {a}
        OBVIOUS
    <2>3. PlansOf(b, k) = {c.id : c \in {c \in planned : hasLeg(c)}}
        BY DEF PlansOf
    <2>4. PlansOf(b, k)' = {c.id : c \in {c \in planned' : hasLeg(c)}}
        BY DEF PlansOf
    <2> HIDE DEF a, hasLeg, isFor
    <2>5. {c \in planned' : hasLeg(c)} =
              {c \in planned : hasLeg(c)} \cup IF isFor(k) THEN {a} ELSE {}
        BY <2>1, <2>2
    <2>6. {c.id : c \in {c \in planned : hasLeg(c)} \cup {a}} =
              {c.id : c \in {c \in planned : hasLeg(c)}} \cup {a.id}
        OBVIOUS
    <2> QED BY <2>1, <2>3, <2>4, <2>5, <2>6
<1>6. \A k \in Keys(b) : x.summaries[k] = PlansOf(b, k)
    BY DEF Own
<1>7. Updated(x, p, w) = [x EXCEPT !.summaries = new]
    BY DEF Updated, new
<1> HIDE DEF isFor
<1>8. /\ Updated(x, p, w) \in Response /\ Updated(x, p, w).batch = b
      /\ Updated(x, p, w).summaries = new
    BY <1>1, <1>3, <1>7, ResponseIs
<1>9. \A k \in Keys(b) : new[k] = PlansOf(b, k)'
    BY <1>4, <1>5, <1>6
<1> QED BY <1>8, <1>9 DEF Own

LEMMA PlanArrives ==
    ASSUME BatchInv, Plan
    PROVE  BatchInv'
<1>0. PICK p : p = Head(unanswered)
    OBVIOUS
<1>1. PICK w \in PlansFor[p.part.tasks] :
         /\ unanswered # <<>> /\ unanswered' = Tail(unanswered)
         /\ planned' = planned \cup {AnswerTo(p, w)}
         /\ HandleBatchResponse(p.id, p.part.vehicle, w)
         /\ arriving' = arriving
    BY <1>0 DEF Plan
<1>2. /\ p \in PartAsked /\ p \in Outstanding /\ unanswered' \in Seq(PartAsked)
      /\ Outstanding' = Outstanding \ {p}
      /\ \A i, j \in DOMAIN unanswered' : unanswered'[i] = unanswered'[j] => i = j
    BY <1>0, <1>1, AnsweredStep
<1>14. w \in Seq({0} \cup Task) /\ w \in Seq(Nat)
    <2>1. p.part \in UNION {Parts(b) : b \in Batch}
        BY <1>2 DEF PartAsked
    <2>2. w \in Seq({0} \cup Task)
        BY <2>1, BatchAssumption
    <2>3. Len(w) \in Nat /\ DOMAIN w = 1 .. Len(w) /\ w \in [1 .. Len(w) -> {0} \cup Task]
        BY <2>2
    <2>4. {0} \cup Task \subseteq Nat
        BY FleetAssumption
    <2>5. w \in [1 .. Len(w) -> Nat]
        BY <2>3, <2>4
    <2> QED BY <2>2, <2>3, <2>5
<1>15. AnswerTo(p, w) \in Answers /\ AnswerTo(p, w).id = p.id /\ AnswerTo(p, w).batch = p.batch
    BY <1>2, <1>14 DEF Answers, AnswerTo
<1>3. m_responseId' = m_responseId /\ m_taskAutomationRequestId' = m_taskAutomationRequestId
    BY <1>1 DEF HandleBatchResponse
<1>4. AskedApart' /\ planned' \subseteq Answers
    BY <1>1, <1>2, <1>3, <1>15 DEF AskedApart, BatchInv, BatchTypeOK
<1>5. OutstandingOf(p.batch)' = OutstandingOf(p.batch) \ {p} /\ p \in OutstandingOf(p.batch)
      /\ \A c : c # p.batch => OutstandingOf(c)' = OutstandingOf(c)
    BY <1>2 DEF OutstandingOf
<1>6. \A x \in Own : x.batch # p.batch => x \in Own'
    BY <1>1, <1>15, StaysOwn
<1>7. \A x \in Answered : x \in Answered'
    <2> SUFFICES ASSUME NEW x \in Answered PROVE x \in Answered'
        OBVIOUS
    <2>1. x.batch # p.batch /\ OutstandingOf(x.batch) = {} /\ x \in Own /\ x.batch \notin arriving
        BY <1>5 DEF Answered
    <2>2. OutstandingOf(x.batch)' = {} /\ x \in Own'
        BY <1>5, <1>6, <2>1
    <2> QED BY <1>1, <2>1, <2>2 DEF Answered
<1>8. \A r \in DOMAIN m_workingResponse :
          /\ m_workingResponse[r].batch \notin arriving
          /\ m_workingResponse[r] \in Own /\ r \in Awaited
          /\ r \in Nat /\ r < m_responseId /\ m_workingResponse[r] \in Response
    BY DEF BatchInv, WorkedOnOnce, WaitsForItsParts, BatchTypeOK
<1>9. DOMAIN m_workingResponse = DOMAIN m_batchSummaryRequestVsTaskAutomation
      /\ batchResponses \in Seq(Response) /\ m_responseId \in Nat /\ m_taskAutomationRequestId \in Nat
      /\ \A r, s \in DOMAIN m_workingResponse :
            m_workingResponse[r].batch = m_workingResponse[s].batch => r = s
    BY DEF BatchInv, BatchTypeOK, WorkedOnOnce
<1>10. AnsweredInFull
    BY DEF BatchInv
<1>11. \A r \in DOMAIN m_workingResponse : r \in Waiting(p.id) <=> m_workingResponse[r].batch = p.batch
    <2>1. \A q \in Outstanding : q.id = p.id => q = p
        BY <1>2 DEF BatchInv, AskedApart
    <2> QED BY <1>2, <1>8, <1>9, <2>1 DEF Waiting, Awaited, OutstandingOf
<1>12. CASE Waiting(p.id) = {}
    <2>1. UNCHANGED <<m_workingResponse, m_batchSummaryRequestVsTaskAutomation, batchResponses>>
        BY <1>1, <1>12 DEF HandleBatchResponse
    <2>2. \A r \in DOMAIN m_workingResponse : m_workingResponse[r].batch # p.batch
        BY <1>11, <1>12
    <2>3. WaitsForItsParts'
        BY <1>2, <1>6, <1>8, <2>1, <2>2 DEF WaitsForItsParts, Awaited, OutstandingOf
    <2>4. BatchTypeOK' /\ WorkedOnOnce'
        BY <1>1, <1>2, <1>3, <1>4, <1>8, <1>9, <2>1 DEF BatchTypeOK, WorkedOnOnce
    <2>5. AnsweredInFull'
        BY <1>7, <1>10, <2>1 DEF AnsweredInFull
    <2> QED BY <1>4, <2>3, <2>4, <2>5 DEF BatchInv
<1>13. CASE Waiting(p.id) # {}
    <2> DEFINE left(r) == m_batchSummaryRequestVsTaskAutomation[r] \ {p.id}
    <2>1. PICK r \in Waiting(p.id) : FinalizeOrAwait(r, Updated(m_workingResponse[r], p, w), left(r))
        BY <1>1, <1>13 DEF HandleBatchResponse, Updated
    <2>2. r \in DOMAIN m_workingResponse /\ m_workingResponse[r].batch = p.batch
        BY <1>9, <1>11 DEF Waiting
    <2> DEFINE y == Updated(m_workingResponse[r], p, w)
    <2>3. y \in Response /\ y.batch = p.batch /\ y \in Own'
        BY <1>1, <1>2, <1>8, <1>14, <2>2, UpdatedIsOwn
    <2> HIDE DEF y
    <2>4. left(r) = {q.id : q \in OutstandingOf(p.batch)'}
        <3>1. m_batchSummaryRequestVsTaskAutomation[r] = {q.id : q \in OutstandingOf(p.batch)}
            BY <1>8, <2>2 DEF Awaited
        <3>2. \A q \in OutstandingOf(p.batch) : q.id = p.id <=> q = p
            BY <1>2 DEF BatchInv, AskedApart, OutstandingOf
        <3> QED BY <1>5, <3>1, <3>2
    <2> HIDE DEF left
    <2>5. \A s \in DOMAIN m_workingResponse \ {r} :
              m_workingResponse[s].batch # p.batch /\ m_workingResponse[s] \in Own'
        BY <1>6, <1>8, <1>9, <2>2
    <2>6. \A s \in DOMAIN m_workingResponse \ {r} :
              m_batchSummaryRequestVsTaskAutomation[s] =
                  {q.id : q \in {q \in Outstanding' : q.batch = m_workingResponse[s].batch}}
        BY <1>2, <1>8, <2>5 DEF Awaited, OutstandingOf
    <2>7. CASE /\ left(r) = {}
               /\ batchResponses' = Append(batchResponses, y)
               /\ m_workingResponse' = WithoutBatch(m_workingResponse, r)
               /\ m_batchSummaryRequestVsTaskAutomation' =
                      WithoutBatch(m_batchSummaryRequestVsTaskAutomation, r)
        <3>1. /\ DOMAIN m_workingResponse' = DOMAIN m_workingResponse \ {r}
              /\ DOMAIN m_batchSummaryRequestVsTaskAutomation' = DOMAIN m_workingResponse \ {r}
              /\ \A s \in DOMAIN m_workingResponse \ {r} :
                    /\ m_workingResponse'[s] = m_workingResponse[s]
                    /\ m_batchSummaryRequestVsTaskAutomation'[s] = m_batchSummaryRequestVsTaskAutomation[s]
            BY <1>9, <2>7 DEF WithoutBatch
        <3>2. BatchTypeOK'
            BY <1>1, <1>2, <1>3, <1>4, <1>8, <1>9, <2>3, <2>7, <3>1 DEF BatchTypeOK
        <3>3. WorkedOnOnce'
            BY <1>1, <1>8, <1>9, <3>1 DEF WorkedOnOnce
        <3>4. WaitsForItsParts'
            BY <2>5, <2>6, <3>1 DEF WaitsForItsParts, Awaited, OutstandingOf
        <3>5. y \in Answered'
            <4>1. p.batch \notin arriving'
                BY <1>1, <1>2 DEF BatchInv, AskedApart
            <4>2. OutstandingOf(p.batch)' = {}
                BY <2>4, <2>7
            <4> QED BY <2>3, <4>1, <4>2 DEF Answered
        <3>6. \A n \in DOMAIN batchResponses' :
                 \/ batchResponses'[n] = y
                 \/ n \in DOMAIN batchResponses /\ batchResponses'[n] = batchResponses[n]
            BY <1>9, <2>3, <2>7
        <3>7. AnsweredInFull'
            BY <1>7, <1>10, <3>5, <3>6 DEF AnsweredInFull
        <3> QED BY <1>4, <3>2, <3>3, <3>4, <3>7 DEF BatchInv
    <2>8. CASE /\ m_workingResponse' = [m_workingResponse EXCEPT ![r] = y]
               /\ m_batchSummaryRequestVsTaskAutomation' =
                      [m_batchSummaryRequestVsTaskAutomation EXCEPT ![r] = left(r)]
               /\ UNCHANGED batchResponses
        <3>1. /\ DOMAIN m_workingResponse' = DOMAIN m_workingResponse
              /\ DOMAIN m_batchSummaryRequestVsTaskAutomation' = DOMAIN m_workingResponse
              /\ \A s \in DOMAIN m_workingResponse \ {r} :
                    /\ m_workingResponse'[s] = m_workingResponse[s]
                    /\ m_batchSummaryRequestVsTaskAutomation'[s] = m_batchSummaryRequestVsTaskAutomation[s]
              /\ m_workingResponse'[r] = y /\ m_batchSummaryRequestVsTaskAutomation'[r] = left(r)
            BY <1>9, <2>2, <2>8
        <3>2. \A s \in DOMAIN m_workingResponse : m_workingResponse'[s].batch = m_workingResponse[s].batch
            BY <2>2, <2>3, <3>1
        <3>3. BatchTypeOK'
            BY <1>1, <1>2, <1>3, <1>4, <1>8, <1>9, <2>3, <2>8, <3>1 DEF BatchTypeOK
        <3>4. WorkedOnOnce'
            BY <1>1, <1>8, <1>9, <3>1, <3>2 DEF WorkedOnOnce
        <3>5. WaitsForItsParts'
            BY <2>3, <2>4, <2>5, <2>6, <3>1 DEF WaitsForItsParts, Awaited, OutstandingOf
        <3>6. AnsweredInFull'
            BY <1>7, <1>10, <2>8 DEF AnsweredInFull
        <3> QED BY <1>4, <3>3, <3>4, <3>5, <3>6 DEF BatchInv
    <2> QED BY <2>1, <2>7, <2>8 DEF FinalizeOrAwait, y
<1> QED BY <1>12, <1>13
-----------------------------------------------------------------------------
(* BatchInv holds as long as nobody else chooses the same identifiers.           *)
THEOREM BatchesHold == BatchSpec => []BatchesInv
<1>1. BatchInit => BatchesInv
    BY BatchInvAtStart DEF BatchesInv
<1>2. BatchesInv /\ [BatchNext]_batchVars => BatchesInv'
    <2> SUFFICES ASSUME BatchesInv, [BatchNext]_batchVars, ~batch'.foreign
                 PROVE  BatchInv'
        BY DEF BatchesInv
    <2>1. CASE UNCHANGED batchVars
        <3>1. UNCHANGED <<batch, arriving, unanswered, planned, m_responseId, m_taskAutomationRequestId>>
              /\ UNCHANGED <<m_workingResponse, m_batchSummaryRequestVsTaskAutomation, batchResponses>>
            BY <2>1 DEF batchVars, batchService
        <3>2. BatchInv
            BY <3>1 DEF BatchesInv
        <3>3. Outstanding' = Outstanding /\ Own' = Own
            BY <3>1 DEF Outstanding, Own, PlansOf
        <3>4. Awaited' = Awaited /\ Answered' = Answered
            BY <3>1, <3>3 DEF Awaited, Answered, OutstandingOf
        <3> QED BY <3>1, <3>2, <3>3, <3>4
                DEF BatchInv, BatchTypeOK, AskedApart, WorkedOnOnce, WaitsForItsParts, AnsweredInFull
    <2>2. ASSUME Plan
          PROVE  BatchInv'
        <3>1. batch' = batch
            BY <2>2 DEF Plan
        <3> QED BY <2>2, <3>1, PlanArrives DEF BatchesInv
    <2>3. ASSUME NEW b \in Batch, HandleBatchSummaryRequest(b)
          PROVE  BatchInv'
        <3>1. batch' = batch
            BY <2>3 DEF HandleBatchSummaryRequest, Take
        <3> QED BY <2>3, <3>1, BatchArrives DEF BatchesInv
    <2>4. ASSUME NEW id, NEW part, PlanForOther(id, part)
          PROVE  BatchInv'
        BY <2>4 DEF PlanForOther
    <2> QED BY <2>1, <2>2, <2>3, <2>4 DEF BatchNext
<1> QED BY <1>1, <1>2, PTL DEF BatchSpec

(***************************************************************************)
(* A summary that goes out was made from every plan of this batch with     *)
(* this leg for its vehicle, and from no plan for another batch or without *)
(* such a leg, unless other clients of the planner choose the same         *)
(* identifiers.                                                            *)
(***************************************************************************)
THEOREM OwnSummaries == BatchSpec => []SummariesAreOwn
<1>1. BatchesInv => SummariesAreOwn
    BY DEF BatchesInv, BatchInv, AnsweredInFull, Answered, Own, SummariesAreOwn
<1> QED BY <1>1, BatchesHold, PTL
=============================================================================
