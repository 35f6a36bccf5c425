----------------------- MODULE MissionExecutionProofs -----------------------
(***************************************************************************)
(* Proofs about vehicles that are fed their plans segment by segment: for  *)
(* any number of vehicles and any plans, of any length, and any numbers of *)
(* waypoints to serve and to overlap that leave room.  The segments of a   *)
(* plan cover it (Covered), a vehicle is given them one after the other,   *)
(* however late its reports are (GivenInTurn), and no task is reported     *)
(* complete before a waypoint of it was turned to (ReportedWhenFlown).     *)
(*                                                                         *)
(* What is computed along a plan (CutOf) is proved with least elements: of *)
(* the lengths for which it were wrong there would be a least one.         *)
(***************************************************************************)
EXTENDS MissionExecution, Integers, FiniteSetTheorems, SequenceTheorems, WellFoundedInduction, TLAPS

(* Every set of natural numbers has a least element. *)
LEMMA Least ==
    ASSUME NEW T, T \subseteq Nat, T # {}
    PROVE  \E m \in T : \A n \in T : m <= n
<1> DEFINE upTo(n) == 0 .. n
           U == {upTo(n) : n \in T}
<1>1. \A n \in Nat : upTo(n) \in FiniteSubsetsOf(Nat)
    BY FS_Interval DEF FiniteSubsetsOf
<1>2. U \subseteq FiniteSubsetsOf(Nat) /\ U # {}
    BY <1>1
<1>3. IsWellFoundedOn(StrictSubsetOrdering(Nat), FiniteSubsetsOf(Nat))
    BY FS_StrictSubsetOrderingWellFounded
<1> HIDE DEF U
<1>4. PICK x \in U : \A y \in U : <<y, x>> \notin StrictSubsetOrdering(Nat)
    BY <1>2, <1>3, WFMin
<1>5. PICK m \in T : x = upTo(m)
    BY DEF U
<1>6. ASSUME NEW n \in T, ~ (m <= n)
      PROVE  FALSE
    <2>1. upTo(n) \subseteq upTo(m) /\ upTo(n) # upTo(m)
        <3>1. n \in Nat /\ m \in Nat /\ n < m
            BY <1>6
        <3>2. m \in upTo(m) /\ m \notin upTo(n)
            BY <3>1
        <3> QED BY <3>1, <3>2
    <2>2. upTo(n) \in U
        BY DEF U
    <2>3. <<upTo(n), upTo(m)>> \in StrictSubsetOrdering(Nat)
        <3>1. upTo(n) \subseteq Nat /\ upTo(m) \subseteq Nat
            OBVIOUS
        <3> HIDE DEF upTo
        <3> QED BY <2>1, <3>1 DEF StrictSubsetOrdering
    <2> QED BY <1>4, <1>5, <2>2, <2>3
<1> QED BY <1>6

(* Induction, over the numbers up to n. *)
LEMMA UpTo ==
    ASSUME NEW n \in Nat, NEW T, 0 \in T, \A k \in 1 .. n : k - 1 \in T => k \in T
    PROVE  \A k \in 0 .. n : k \in T
<1> SUFFICES ASSUME NEW k \in 0 .. n, k \notin T PROVE FALSE
    OBVIOUS
<1> DEFINE Left == {i \in 0 .. n : i \notin T}
<1>1. Left \subseteq Nat /\ Left # {}
    OBVIOUS
<1> HIDE DEF Left
<1>2. PICK m \in Left : \A i \in Left : m <= i
    BY <1>1, Least
<1>3. m \in 1 .. n /\ m - 1 \in 0 .. n
    BY <1>2 DEF Left
<1>4. m - 1 \in T
    BY <1>2, <1>3 DEF Left
<1> QED BY <1>2, <1>3, <1>4 DEF Left
-----------------------------------------------------------------------------
Uncut(plan, base) ==
    [done |-> <<>>, one |-> Segment(base, base + 1), two |-> Segment(base, base + 2),
     failed |-> plan = <<>>]
IsCut(cut, m, plan, serve, overlap, base) ==
    cut = [k \in 0 .. m |-> IF k = 0 THEN {Uncut(plan, base)}
                            ELSE {CutMore(c, plan[k], serve, overlap) : c \in cut[k - 1]}]
LEMMA CutsExist ==
    ASSUME NEW plan, NEW serve, NEW overlap, NEW base, NEW n \in Nat
    PROVE  \E cut : IsCut(cut, n, plan, serve, overlap, base)
<1> DEFINE P(cut, m) == IsCut(cut, m, plan, serve, overlap, base)
           T == {m \in Nat : \E cut : P(cut, m)}
<1>1. 0 \in T
    <2>1. P([k \in 0 .. 0 |-> {Uncut(plan, base)}], 0)
        BY DEF IsCut
    <2> HIDE DEF P
    <2> QED BY <2>1
<1>2. ASSUME NEW k \in 1 .. n, k - 1 \in T
      PROVE  k \in T
    <2>1. PICK old : P(old, k - 1)
        BY <1>2
    <2>2. old = [i \in 0 .. k - 1 |-> IF i = 0 THEN {Uncut(plan, base)}
                            ELSE {CutMore(c, plan[i], serve, overlap) : c \in old[i - 1]}]
        BY <2>1 DEF IsCut
    <2> DEFINE cut == [i \in 0 .. k |-> IF i = k THEN {CutMore(c, plan[k], serve, overlap) : c \in old[k - 1]}
                                        ELSE old[i]]
    <2>3. \A i \in 0 .. k : cut[i] = IF i = 0 THEN {Uncut(plan, base)}
                                     ELSE {CutMore(c, plan[i], serve, overlap) : c \in cut[i - 1]}
        <3> SUFFICES ASSUME NEW i \in 0 .. k
                     PROVE cut[i] = IF i = 0 THEN {Uncut(plan, base)}
                                     ELSE {CutMore(c, plan[i], serve, overlap) : c \in cut[i - 1]}
            OBVIOUS
        <3>1. CASE i = 0
            BY <2>2, <3>1
        <3>2. CASE i # 0
            <4>1. i - 1 \in 0 .. k - 1 /\ cut[i - 1] = old[i - 1]
                BY <3>2
            <4>2. cut[i] = {CutMore(c, plan[i], serve, overlap) : c \in old[i - 1]}
                <5>1. CASE i = k
                    BY <5>1
                <5>2. CASE i # k
                    <6>1. cut[i] = old[i] /\ i \in 0 .. k - 1
                        BY <5>2
                    <6> HIDE DEF cut
                    <6> QED BY <2>2, <3>2, <6>1
                <5> QED BY <5>1, <5>2
            <4> HIDE DEF cut
            <4> QED BY <3>2, <4>1, <4>2
        <3> QED BY <3>1, <3>2
    <2>4. cut = [i \in 0 .. k |-> cut[i]]
        OBVIOUS
    <2> HIDE DEF cut
    <2>5. P(cut, k)
        BY <2>3, <2>4 DEF IsCut
    <2> HIDE DEF P
    <2> QED BY <2>5
<1> HIDE DEF P, T
<1>3. n \in T
    BY <1>1, <1>2, UpTo
<1> QED BY <1>3 DEF T, P

LEMMA CutOfIs ==
    ASSUME NEW plan, NEW serve, NEW overlap, NEW base, Len(plan) \in Nat
    PROVE  /\ CutOf(plan, serve, overlap, base)[0] = {Uncut(plan, base)}
           /\ \A k \in 1 .. Len(plan) :
                 CutOf(plan, serve, overlap, base)[k] =
                     {CutMore(c, plan[k], serve, overlap) : c \in CutOf(plan, serve, overlap, base)[k - 1]}
<1> DEFINE cut == CutOf(plan, serve, overlap, base)
<1>1. cut = CHOOSE f : IsCut(f, Len(plan), plan, serve, overlap, base)
    BY DEF CutOf, IsCut, Uncut
<1> HIDE DEF cut
<1>2. IsCut(cut, Len(plan), plan, serve, overlap, base)
    BY <1>1, CutsExist
<1>3. \A k \in 0 .. Len(plan) :
         cut[k] = IF k = 0 THEN {Uncut(plan, base)}
                  ELSE {CutMore(c, plan[k], serve, overlap) : c \in cut[k - 1]}
    BY <1>2 DEF IsCut
<1>4. cut[0] = {Uncut(plan, base)}
    <2>1. 0 \in 0 .. Len(plan)
        OBVIOUS
    <2> QED BY <1>3, <2>1, Zenon
<1>5. ASSUME NEW k \in 1 .. Len(plan)
      PROVE  cut[k] = {CutMore(c, plan[k], serve, overlap) : c \in cut[k - 1]}
    <2>1. k \in 0 .. Len(plan) /\ k # 0
        OBVIOUS
    <2> QED BY <1>3, <2>1, Zenon
<1> QED BY <1>4, <1>5 DEF cut
-----------------------------------------------------------------------------
(***************************************************************************)
(* A segment of a plan: where it begins and ends, and the waypoint that a  *)
(* vehicle is to go to first.                                              *)
(***************************************************************************)
SegmentType == [base : Nat, command : Nat, first : Nat, waypoints : Seq(Waypoint)]
Begin(s, plan) == CHOOSE k \in DOMAIN plan : plan[k] = s.waypoints[1]
End(s, plan) == Begin(s, plan) + Len(s.waypoints) - 1
IsSegment(s, plan) ==
    /\ s \in SegmentType
    /\ Begin(s, plan) \in 1 .. End(s, plan) /\ End(s, plan) \in DOMAIN plan
    /\ s.waypoints = SubSeq(plan, Begin(s, plan), End(s, plan))
    /\ s.first = plan[IF Begin(s, plan) = End(s, plan) THEN Begin(s, plan)
                      ELSE Begin(s, plan) + 1].number

(* The segments of a plan up to waypoint k: each begins before the one     *)
(* before it ends, and after the one before that has ended.                *)
AreSegments(segments, plan, base, k) ==
    /\ segments \in Seq(SegmentType) /\ segments # <<>>
    /\ Begin(segments[1], plan) = 1 /\ End(segments[Len(segments)], plan) = k
    /\ \A i \in DOMAIN segments :
          /\ IsSegment(segments[i], plan)
          /\ segments[i].base = base /\ segments[i].command = base + i
    /\ \A i, j \in DOMAIN segments : i < j =>
          /\ Begin(segments[i], plan) < Begin(segments[j], plan)
          /\ End(segments[i], plan) < End(segments[j], plan)
          /\ IF j = i + 1 THEN Begin(segments[j], plan) < End(segments[i], plan)
                          ELSE End(segments[i], plan) < Begin(segments[j], plan)

(* What is cut of the plan after waypoint k.  The segment two has the last *)
(* waypoints of one, as soon as one is that full.                          *)
IsBegun(c, plan, serve, overlap, base, k) ==
    /\ c.two.base = base /\ c.two.command = base + Len(c.done) + 2
    /\ IF c.two.waypoints = <<>> THEN Len(c.one.waypoints) + 2 <= serve
       ELSE /\ IsSegment(c.two, plan) /\ End(c.two, plan) = k
            /\ Len(c.two.waypoints) + serve <= Len(c.one.waypoints) + overlap
            /\ Len(c.two.waypoints) = 1 => Len(c.one.waypoints) < serve
            /\ c.done # <<>> => End(c.done[Len(c.done)], plan) < Begin(c.two, plan)
IsCutWell(c, plan, serve, overlap, base, k) ==
    /\ c \in [done : Seq(SegmentType), one : SegmentType, two : SegmentType, failed : {FALSE}]
    /\ AreSegments(Append(c.done, c.one), plan, base, k)
    /\ Len(c.one.waypoints) <= serve
    /\ IsBegun(c, plan, serve, overlap, base, k)

LEMMA PlanIs ==
    ASSUME NEW plan \in MissionPlan
    PROVE  /\ plan \in Seq(Waypoint) /\ Len(plan) \in Nat /\ DOMAIN plan = 1 .. Len(plan)
           /\ \A k \in DOMAIN plan :
                 plan[k] \in Waypoint /\ plan[k].number \in Nat /\ plan[k].number # Unset
           /\ \A i, j \in DOMAIN plan : plan[i].number = plan[j].number => i = j
<1>1. plan \in Seq(Waypoint) /\ \A i, j \in DOMAIN plan : plan[i].number = plan[j].number => i = j
    BY DEF MissionPlan
<1>2. \A w \in Waypoint : w.number \in Nat /\ w.number # Unset
    BY DEF Waypoint
<1> QED BY <1>1, <1>2

LEMMA SegmentIs ==
    ASSUME NEW plan \in MissionPlan, NEW s \in SegmentType, NEW b \in Nat, NEW e \in DOMAIN plan,
           1 <= b, b <= e, s.waypoints = SubSeq(plan, b, e)
    PROVE  /\ Begin(s, plan) = b /\ End(s, plan) = e
           /\ Len(s.waypoints) = e - b + 1
           /\ \A i \in 1 .. e - b + 1 : s.waypoints[i] = plan[b + i - 1]
<1>1. plan \in Seq(Waypoint) /\ Len(plan) \in Nat /\ DOMAIN plan = 1 .. Len(plan)
    BY PlanIs
<1>2. \A i \in b .. e : plan[i] \in Waypoint
    BY <1>1
<1>3. /\ Len(s.waypoints) = e - b + 1
      /\ \A i \in 1 .. e - b + 1 : s.waypoints[i] = plan[b + i - 1]
    BY <1>1, <1>2, SubSeqProperties
<1>4. b \in DOMAIN plan /\ s.waypoints[1] = plan[b]
    BY <1>1, <1>3
<1>5. \A k \in DOMAIN plan : plan[k] = s.waypoints[1] => k = b
    BY <1>4, PlanIs
<1>6. Begin(s, plan) = b
    BY <1>4, <1>5 DEF Begin
<1> QED BY <1>1, <1>3, <1>6 DEF End

LEMMA SegmentHas ==
    ASSUME NEW plan \in MissionPlan, NEW s, IsSegment(s, plan)
    PROVE  /\ Begin(s, plan) \in DOMAIN plan /\ End(s, plan) \in DOMAIN plan
           /\ Begin(s, plan) <= End(s, plan) /\ s.waypoints # <<>> /\ s.first # Unset
           /\ Len(s.waypoints) = End(s, plan) - Begin(s, plan) + 1
           /\ \A i \in DOMAIN s.waypoints : s.waypoints[i] = plan[Begin(s, plan) + i - 1]
<1>1. plan \in Seq(Waypoint) /\ Len(plan) \in Nat /\ DOMAIN plan = 1 .. Len(plan)
    BY PlanIs
<1> DEFINE b == Begin(s, plan)
           e == End(s, plan)
<1>2. s \in SegmentType /\ s.waypoints = SubSeq(plan, b, e) /\ b \in 1 .. e /\ e \in DOMAIN plan
    BY DEF IsSegment
<1>3. b \in Nat /\ 1 <= b /\ b <= e /\ b \in DOMAIN plan
    BY <1>1, <1>2
<1>4. /\ Len(s.waypoints) = e - b + 1
      /\ \A i \in 1 .. e - b + 1 : s.waypoints[i] = plan[b + i - 1]
    <2> HIDE DEF b, e
    <2> QED BY <1>2, <1>3, SegmentIs
<1>5. s.waypoints # <<>> /\ DOMAIN s.waypoints = 1 .. e - b + 1
    BY <1>1, <1>2, <1>3, <1>4 DEF SegmentType
<1>6. s.first # Unset
    <2>1. \A i \in DOMAIN plan : plan[i].number # Unset
        BY PlanIs
    <2>2. (IF b = e THEN b ELSE b + 1) \in DOMAIN plan
        BY <1>1, <1>2, <1>3
    <2> QED BY <2>1, <2>2 DEF IsSegment
<1> QED BY <1>2, <1>3, <1>4, <1>5, <1>6

(* One waypoint more. *)
LEMMA More ==
    ASSUME NEW plan \in MissionPlan, NEW b \in Nat, NEW k \in DOMAIN plan, 1 <= b, b <= k
    PROVE  Append(SubSeq(plan, b, k - 1), plan[k]) = SubSeq(plan, b, k)
<1>1. plan \in Seq(Waypoint) /\ b \in 1 .. Len(plan) /\ k \in b .. Len(plan) /\ plan[k] \in Waypoint
    BY PlanIs
<1>2. SubSeq(plan, b, k) = SubSeq(plan, b, k - 1) \o <<plan[k]>>
    BY <1>1, SubSeqRecursiveSecond
<1>3. SubSeq(plan, b, k - 1) \in Seq(Waypoint)
    <2>1. \A i \in b .. k - 1 : plan[i] \in Waypoint
        BY <1>1
    <2> QED BY <1>1, <2>1, SubSeqProperties
<1> QED BY <1>1, <1>2, <1>3, AppendIsConcat

LEMMA AddedIs ==
    ASSUME NEW s \in SegmentType, NEW w \in Waypoint
    PROVE  /\ Added(s, w) \in SegmentType /\ Added(s, w).base = s.base
           /\ Added(s, w).command = s.command /\ Added(s, w).first = s.first
           /\ Added(s, w).waypoints = Append(s.waypoints, w)
           /\ Aimed(Added(s, w), w) \in SegmentType /\ Aimed(Added(s, w), w).base = s.base
           /\ Aimed(Added(s, w), w).command = s.command
           /\ Aimed(Added(s, w), w).waypoints = Append(s.waypoints, w)
           /\ Len(s.waypoints) <= 1 => Aimed(Added(s, w), w).first = w.number
           /\ Len(s.waypoints) >= 2 => Aimed(Added(s, w), w) = Added(s, w)
<1> DEFINE more == Append(s.waypoints, w)
<1>1. more \in Seq(Waypoint) /\ Len(more) = Len(s.waypoints) + 1 /\ Len(s.waypoints) \in Nat
    BY DEF SegmentType
<1>2. w.number \in Nat
    BY DEF Waypoint
<1>3. s = [base |-> s.base, command |-> s.command, first |-> s.first, waypoints |-> s.waypoints]
      /\ s.base \in Nat /\ s.command \in Nat /\ s.first \in Nat
    BY DEF SegmentType
<1>4. Added(s, w) = [base |-> s.base, command |-> s.command, first |-> s.first, waypoints |-> more]
    BY <1>3 DEF Added
<1>5. Aimed(Added(s, w), w) =
          IF Len(more) <= 2
          THEN [base |-> s.base, command |-> s.command, first |-> w.number, waypoints |-> more]
          ELSE Added(s, w)
    <2> HIDE DEF more
    <2> QED BY <1>4 DEF Aimed
<1> HIDE DEF more
<1>6. Added(s, w) \in SegmentType
    BY <1>1, <1>3, <1>4 DEF SegmentType
<1>7. Aimed(Added(s, w), w) \in SegmentType
    BY <1>1, <1>2, <1>3, <1>5, <1>6 DEF SegmentType
<1>8. Len(s.waypoints) <= 1 => Aimed(Added(s, w), w).first = w.number
    BY <1>1, <1>5
<1>9. Len(s.waypoints) >= 2 => Aimed(Added(s, w), w) = Added(s, w)
    BY <1>1, <1>5
<1>10. /\ Aimed(Added(s, w), w).base = s.base /\ Aimed(Added(s, w), w).command = s.command
       /\ Aimed(Added(s, w), w).waypoints = more
    BY <1>4, <1>5
<1>11. /\ Added(s, w).base = s.base /\ Added(s, w).command = s.command
       /\ Added(s, w).first = s.first /\ Added(s, w).waypoints = more
    BY <1>4
<1> QED BY <1>6, <1>7, <1>8, <1>9, <1>10, <1>11 DEF more

LEMMA SegmentMore ==
    ASSUME NEW plan \in MissionPlan, NEW k \in DOMAIN plan, NEW s, IsSegment(s, plan), End(s, plan) = k - 1
    PROVE  /\ IsSegment(Aimed(Added(s, plan[k]), plan[k]), plan)
           /\ Begin(Aimed(Added(s, plan[k]), plan[k]), plan) = Begin(s, plan)
           /\ End(Aimed(Added(s, plan[k]), plan[k]), plan) = k
           /\ Len(s.waypoints) >= 2 => Aimed(Added(s, plan[k]), plan[k]) = Added(s, plan[k])
           /\ Len(Aimed(Added(s, plan[k]), plan[k]).waypoints) = Len(s.waypoints) + 1
           /\ Aimed(Added(s, plan[k]), plan[k]).base = s.base
           /\ Aimed(Added(s, plan[k]), plan[k]).command = s.command
<1> DEFINE new == Added(s, plan[k])
           aimed == Aimed(new, plan[k])
           b == Begin(s, plan)
<1>1. /\ plan \in Seq(Waypoint) /\ Len(plan) \in Nat /\ DOMAIN plan = 1 .. Len(plan)
      /\ plan[k] \in Waypoint /\ plan[k].number \in Nat
    BY PlanIs
<1>2. /\ s \in SegmentType /\ b \in Nat /\ 1 <= b /\ b <= k - 1 /\ Len(s.waypoints) = k - b
      /\ s.waypoints = SubSeq(plan, b, k - 1)
    <2>1. /\ s \in SegmentType /\ b \in 1 .. k - 1 /\ s.waypoints = SubSeq(plan, b, k - 1)
        BY DEF IsSegment
    <2>2. Len(s.waypoints) = k - 1 - b + 1
        BY SegmentHas
    <2> HIDE DEF b
    <2> QED BY <1>1, <2>1, <2>2
<1>3. new.waypoints = SubSeq(plan, b, k)
    <2>1. new.waypoints = Append(s.waypoints, plan[k])
        BY <1>1, <1>2, AddedIs
    <2>2. b <= k /\ k \in Nat
        BY <1>1, <1>2
    <2> HIDE DEF b, new
    <2> QED BY <1>1, <1>2, <2>1, <2>2, More
<1>4. Len(new.waypoints) = k - b + 1
    <2>1. new.waypoints = Append(s.waypoints, plan[k])
        BY <1>1, <1>2, AddedIs
    <2>2. s.waypoints \in Seq(Waypoint)
        BY <1>2 DEF SegmentType
    <2> HIDE DEF b, new
    <2> QED BY <1>1, <1>2, <2>1, <2>2
<1>5. /\ aimed \in SegmentType /\ aimed.base = s.base /\ aimed.command = s.command
      /\ aimed.waypoints = new.waypoints
      /\ k - b = 1 => aimed.first = plan[k].number
      /\ k - b # 1 => aimed.first = s.first
      /\ k - b >= 2 => aimed = new
    <2>1. /\ aimed \in SegmentType /\ aimed.base = s.base /\ aimed.command = s.command
          /\ aimed.waypoints = new.waypoints
          /\ Len(s.waypoints) <= 1 => aimed.first = plan[k].number
          /\ Len(s.waypoints) >= 2 => aimed = new
          /\ new.first = s.first
        BY <1>1, <1>2, AddedIs
    <2> HIDE DEF aimed, new, b
    <2> QED BY <1>1, <1>2, <2>1
<1>6. Begin(aimed, plan) = b /\ End(aimed, plan) = k
    <2> HIDE DEF aimed, new, b
    <2>1. b <= k /\ aimed.waypoints = SubSeq(plan, b, k)
        BY <1>1, <1>2, <1>3, <1>5
    <2> QED BY <1>1, <1>2, <1>5, <2>1, SegmentIs
<1>7. aimed.first = plan[b + 1].number
    <2>1. s.first = plan[IF b = k - 1 THEN b ELSE b + 1].number
        BY DEF IsSegment
    <2>2. CASE k - b = 1
        <3> HIDE DEF aimed, new, b
        <3>1. b + 1 = k
            BY <2>2, <1>1, <1>2
        <3> QED BY <1>5, <2>2, <3>1
    <2>3. CASE k - b # 1
        <3> HIDE DEF aimed, new, b
        <3>1. b # k - 1
            BY <2>3, <1>1, <1>2
        <3> QED BY <1>5, <2>1, <2>3, <3>1
    <2> QED BY <2>2, <2>3
<1>8. IsSegment(aimed, plan)
    <2> HIDE DEF aimed, new, b
    <2>1. b # k
        BY <1>1, <1>2
    <2> QED BY <1>1, <1>2, <1>3, <1>5, <1>6, <1>7, <2>1 DEF IsSegment
<1>9. Len(aimed.waypoints) = Len(s.waypoints) + 1
    <2> HIDE DEF aimed, new, b
    <2> QED BY <1>1, <1>2, <1>4, <1>5
<1>10. Len(s.waypoints) >= 2 => aimed = new
    <2> HIDE DEF aimed, new, b
    <2> QED BY <1>1, <1>2, <1>5
<1> QED BY <1>5, <1>6, <1>8, <1>9, <1>10, Zenon

LEMMA SegmentFirst ==
    ASSUME NEW plan \in MissionPlan, NEW k \in DOMAIN plan, NEW s \in SegmentType, s.waypoints = <<>>
    PROVE  /\ IsSegment(Aimed(Added(s, plan[k]), plan[k]), plan)
           /\ Begin(Aimed(Added(s, plan[k]), plan[k]), plan) = k
           /\ End(Aimed(Added(s, plan[k]), plan[k]), plan) = k
           /\ Len(Aimed(Added(s, plan[k]), plan[k]).waypoints) = 1
           /\ Aimed(Added(s, plan[k]), plan[k]).base = s.base
           /\ Aimed(Added(s, plan[k]), plan[k]).command = s.command
<1> DEFINE aimed == Aimed(Added(s, plan[k]), plan[k])
<1>1. /\ plan \in Seq(Waypoint) /\ Len(plan) \in Nat /\ DOMAIN plan = 1 .. Len(plan)
      /\ plan[k] \in Waypoint /\ plan[k].number \in Nat
    BY PlanIs
<1>2. Append(s.waypoints, plan[k]) = <<plan[k]>>
    BY <1>1
<1>3. /\ aimed \in SegmentType /\ aimed.base = s.base /\ aimed.command = s.command
      /\ aimed.waypoints = <<plan[k]>> /\ aimed.first = plan[k].number
    <2>1. Len(s.waypoints) <= 1
        OBVIOUS
    <2> QED BY <1>1, <1>2, <2>1, AddedIs
<1>4. SubSeq(plan, k, k) = <<plan[k]>>
    <2>1. /\ SubSeq(plan, k, k) \in Seq(Waypoint) /\ Len(SubSeq(plan, k, k)) = 1
          /\ SubSeq(plan, k, k)[1] = plan[k]
        <3>1. \A i \in k .. k : plan[i] \in Waypoint
            BY <1>1
        <3> QED BY <1>1, <3>1, SubSeqProperties
    <2>2. <<plan[k]>> \in Seq(Waypoint) /\ Len(<<plan[k]>>) = 1 /\ <<plan[k]>>[1] = plan[k]
        BY <1>1
    <2> HIDE DEF aimed
    <2>3. \A x, y \in Seq(Waypoint) :
             Len(x) = 1 /\ Len(y) = 1 /\ x[1] = y[1] => x = y
        OBVIOUS
    <2> QED BY <2>1, <2>2, <2>3
<1> HIDE DEF aimed
<1>5. Begin(aimed, plan) = k /\ End(aimed, plan) = k /\ Len(aimed.waypoints) = 1
    <2>1. k \in Nat /\ 1 <= k /\ k <= k /\ aimed.waypoints = SubSeq(plan, k, k)
        BY <1>1, <1>3, <1>4
    <2> QED BY <1>3, <2>1, SegmentIs
<1> QED BY <1>1, <1>3, <1>4, <1>5 DEF aimed, IsSegment

(***************************************************************************)
(* The segments when the last of them has grown, and when one more has     *)
(* begun.                                                                  *)
(***************************************************************************)
LEMMA LastGrows ==
    ASSUME NEW plan \in MissionPlan, NEW base \in Nat, NEW k \in Nat, NEW l \in Nat, k <= l,
           NEW done \in Seq(SegmentType), NEW one \in SegmentType, NEW new,
           AreSegments(Append(done, one), plan, base, k),
           IsSegment(new, plan), Begin(new, plan) = Begin(one, plan), End(new, plan) = l,
           new.base = one.base, new.command = one.command
    PROVE  AreSegments(Append(done, new), plan, base, l)
<1> DEFINE old == Append(done, one)
           segments == Append(done, new)
           n == Len(done)
<1>1. new \in SegmentType
    BY DEF IsSegment
<1>2. /\ old \in Seq(SegmentType) /\ Len(old) = n + 1 /\ n \in Nat /\ DOMAIN old = 1 .. n + 1
      /\ segments \in Seq(SegmentType) /\ Len(segments) = n + 1 /\ DOMAIN segments = 1 .. n + 1
      /\ old[n + 1] = one /\ segments[n + 1] = new /\ segments # <<>>
      /\ \A i \in 1 .. n : segments[i] = old[i]
    <2>1. n \in Nat /\ DOMAIN done = 1 .. n
        OBVIOUS
    <2>2. /\ old \in Seq(SegmentType) /\ Len(old) = n + 1 /\ old[n + 1] = one
          /\ \A i \in 1 .. n : old[i] = done[i]
        BY <2>1
    <2>3. /\ segments \in Seq(SegmentType) /\ Len(segments) = n + 1 /\ segments[n + 1] = new
          /\ \A i \in 1 .. n : segments[i] = done[i]
        BY <1>1, <2>1
    <2> HIDE DEF old, segments, n
    <2> QED BY <2>1, <2>2, <2>3
<1>3. \A i \in DOMAIN old : Begin(old[i], plan) \in Nat /\ End(old[i], plan) \in Nat
    <2> SUFFICES ASSUME NEW i \in DOMAIN old
                 PROVE  Begin(old[i], plan) \in Nat /\ End(old[i], plan) \in Nat
        OBVIOUS
    <2>1. IsSegment(old[i], plan)
        BY DEF AreSegments
    <2> HIDE DEF old
    <2> QED BY <2>1, SegmentHas, PlanIs
<1> HIDE DEF old, segments, n
<1>4. Begin(segments[1], plan) = 1 /\ End(segments[n + 1], plan) = l
    <2>1. Begin(old[1], plan) = 1
        BY DEF AreSegments, old
    <2> QED BY <1>2, <2>1
<1>5. ASSUME NEW i \in 1 .. n + 1
      PROVE  /\ IsSegment(segments[i], plan)
             /\ segments[i].base = base /\ segments[i].command = base + i
             /\ Begin(segments[i], plan) = Begin(old[i], plan)
             /\ i < n + 1 => End(segments[i], plan) = End(old[i], plan)
    <2>1. /\ IsSegment(old[i], plan)
          /\ old[i].base = base /\ old[i].command = base + i
        BY <1>2 DEF AreSegments, old
    <2>2. CASE i = n + 1
        BY <1>2, <2>1, <2>2
    <2>3. CASE i # n + 1
        BY <1>2, <2>1, <2>3
    <2> QED BY <2>2, <2>3
<1>6. End(old[n + 1], plan) = k
    BY <1>2 DEF AreSegments, old
<1>7. ASSUME NEW i \in 1 .. n + 1, NEW j \in 1 .. n + 1, i < j
      PROVE  /\ Begin(segments[i], plan) < Begin(segments[j], plan)
             /\ End(segments[i], plan) < End(segments[j], plan)
             /\ IF j = i + 1 THEN Begin(segments[j], plan) < End(segments[i], plan)
                             ELSE End(segments[i], plan) < Begin(segments[j], plan)
    <2>1. /\ Begin(old[i], plan) < Begin(old[j], plan)
          /\ End(old[i], plan) < End(old[j], plan)
          /\ IF j = i + 1 THEN Begin(old[j], plan) < End(old[i], plan)
                          ELSE End(old[i], plan) < Begin(old[j], plan)
        BY <1>2, <1>7 DEF AreSegments, old
    <2>2. /\ Begin(segments[i], plan) = Begin(old[i], plan) /\ End(segments[i], plan) = End(old[i], plan)
          /\ Begin(segments[j], plan) = Begin(old[j], plan)
          /\ j < n + 1 => End(segments[j], plan) = End(old[j], plan)
        BY <1>2, <1>5, <1>7
    <2>3. End(segments[i], plan) < End(segments[j], plan)
        <3>1. CASE j = n + 1
            BY <1>2, <1>3, <1>4, <1>6, <2>1, <2>2, <3>1
        <3>2. CASE j # n + 1
            BY <1>2, <1>3, <2>1, <2>2, <3>2
        <3> QED BY <3>1, <3>2
    <2> QED BY <2>1, <2>2, <2>3
<1>8. AreSegments(segments, plan, base, l)
    BY <1>2, <1>4, <1>5, <1>7 DEF AreSegments
<1> QED BY <1>8 DEF segments

LEMMA NextBegun ==
    ASSUME NEW plan \in MissionPlan, NEW base \in Nat, NEW k \in Nat, NEW l \in Nat, k < l,
           NEW done \in Seq(SegmentType), NEW one \in SegmentType, NEW new,
           AreSegments(Append(done, one), plan, base, k),
           IsSegment(new, plan), End(new, plan) = l,
           Begin(one, plan) < Begin(new, plan), Begin(new, plan) < k,
           done # <<>> => End(done[Len(done)], plan) < Begin(new, plan),
           new.base = base, new.command = base + Len(done) + 2
    PROVE  AreSegments(Append(Append(done, one), new), plan, base, l)
<1> DEFINE old == Append(done, one)
           segments == Append(old, new)
           n == Len(done)
<1>1. new \in SegmentType
    BY DEF IsSegment
<1>2. /\ old \in Seq(SegmentType) /\ Len(old) = n + 1 /\ n \in Nat /\ DOMAIN old = 1 .. n + 1
      /\ old[n + 1] = one
      /\ n > 0 => old[n] = done[n] /\ done # <<>>
    OBVIOUS
<1> HIDE DEF old, n
<1>3. /\ segments \in Seq(SegmentType) /\ Len(segments) = n + 2 /\ DOMAIN segments = 1 .. n + 2
      /\ segments[n + 2] = new /\ segments # <<>>
      /\ \A i \in 1 .. n + 1 : segments[i] = old[i]
    BY <1>1, <1>2
<1>4. ASSUME NEW i \in 1 .. n + 1
      PROVE  /\ Begin(old[i], plan) \in Nat /\ End(old[i], plan) \in Nat
             /\ IsSegment(old[i], plan) /\ old[i].base = base /\ old[i].command = base + i
    <2>1. IsSegment(old[i], plan) /\ old[i].base = base /\ old[i].command = base + i
        BY <1>2 DEF AreSegments, old
    <2>2. Begin(old[i], plan) \in DOMAIN plan /\ End(old[i], plan) \in DOMAIN plan
        BY <2>1, SegmentHas
    <2> HIDE DEF segments
    <2> QED BY <2>1, <2>2, PlanIs, SMTT(30)
<1>5. /\ Begin(old[1], plan) = 1 /\ End(one, plan) = k
    BY <1>2 DEF AreSegments, old
<1>6. Begin(new, plan) \in Nat /\ new.command = base + (n + 2)
    BY SegmentHas, PlanIs, <1>2 DEF n
<1>7. ASSUME NEW i \in 1 .. n + 1
      PROVE  /\ Begin(old[i], plan) < Begin(new, plan) /\ End(old[i], plan) < l
             /\ IF i = n + 1 THEN Begin(new, plan) < End(old[i], plan)
                             ELSE End(old[i], plan) < Begin(new, plan)
    <2>1. CASE i = n + 1
        BY <1>2, <1>4, <1>5, <1>6, <2>1
    <2>2. CASE i # n + 1
        <3>0. i \in DOMAIN old /\ n + 1 \in DOMAIN old /\ i < n + 1
            BY <1>2, <2>2
        <3>1. /\ Begin(old[i], plan) < Begin(one, plan) /\ End(old[i], plan) < k
            BY <1>2, <1>5, <3>0 DEF AreSegments, old
        <3>2. End(old[i], plan) < Begin(new, plan)
            <4>1. CASE i = n
                BY <1>2, <4>1 DEF n
            <4>2. CASE i # n
                <5>1. i < n + 1 /\ n + 1 # i + 1 /\ i \in DOMAIN old /\ n + 1 \in DOMAIN old
                    BY <1>2, <2>2, <4>2
                <5>2. End(old[i], plan) < Begin(one, plan)
                    BY <1>2, <5>1 DEF AreSegments, old
                <5> QED BY <1>2, <1>4, <1>6, <5>2, SMTT(20)
            <4> QED BY <4>1, <4>2
        <3>3. /\ Begin(old[i], plan) \in Nat /\ Begin(one, plan) \in Nat /\ End(old[i], plan) \in Nat
            BY <1>2, <1>4, <3>0
        <3> QED BY <1>6, <2>2, <3>1, <3>2, <3>3
    <2> QED BY <2>1, <2>2
<1> HIDE DEF segments
<1>8. ASSUME NEW i \in 1 .. n + 2
      PROVE  /\ IsSegment(segments[i], plan)
             /\ segments[i].base = base /\ segments[i].command = base + i
    <2>1. CASE i = n + 2
        BY <1>3, <1>6, <2>1
    <2>2. CASE i # n + 2
        BY <1>2, <1>3, <1>4, <2>2, SMTT(20)
    <2> QED BY <2>1, <2>2
<1>9. ASSUME NEW i \in 1 .. n + 2, NEW j \in 1 .. n + 2, i < j
      PROVE  /\ Begin(segments[i], plan) < Begin(segments[j], plan)
             /\ End(segments[i], plan) < End(segments[j], plan)
             /\ IF j = i + 1 THEN Begin(segments[j], plan) < End(segments[i], plan)
                             ELSE End(segments[i], plan) < Begin(segments[j], plan)
    <2>1. i \in 1 .. n + 1 /\ segments[i] = old[i]
        BY <1>2, <1>3, <1>9
    <2>2. CASE j = n + 2
        <3>1. j = i + 1 <=> i = n + 1
            BY <1>2, <2>2
        <3> QED BY <1>3, <1>7, <2>1, <2>2, <3>1
    <2>3. CASE j # n + 2
        <3>1. j \in 1 .. n + 1 /\ segments[j] = old[j]
            BY <1>2, <1>3, <2>3
        <3> QED BY <1>2, <1>9, <2>1, <3>1 DEF AreSegments, old
    <2> QED BY <2>2, <2>3
<1>10. Begin(segments[1], plan) = 1 /\ End(segments[n + 2], plan) = l
    BY <1>2, <1>3, <1>5
<1>11. AreSegments(segments, plan, base, l)
    BY <1>3, <1>8, <1>9, <1>10 DEF AreSegments
<1> QED BY <1>11 DEF segments, old

LEMMA LastOf ==
    ASSUME NEW plan \in MissionPlan, NEW base \in Nat, NEW k \in Nat,
           NEW done \in Seq(SegmentType), NEW one \in SegmentType,
           AreSegments(Append(done, one), plan, base, k)
    PROVE  /\ IsSegment(one, plan) /\ End(one, plan) = k
           /\ one.base = base /\ one.command = base + Len(done) + 1
           /\ done # <<>> => End(done[Len(done)], plan) < k
<1> DEFINE old == Append(done, one)
           n == Len(done)
<1>1. /\ old \in Seq(SegmentType) /\ Len(old) = n + 1 /\ n \in Nat /\ DOMAIN old = 1 .. n + 1
      /\ old[n + 1] = one
      /\ n > 0 => old[n] = done[n]
      /\ done # <<>> => n > 0
    OBVIOUS
<1> HIDE DEF old, n
<1>2. n + 1 \in DOMAIN old
    BY <1>1
<1>3. IsSegment(one, plan) /\ End(one, plan) = k /\ one.base = base /\ one.command = base + (n + 1)
    <2>1. /\ IsSegment(old[n + 1], plan) /\ old[n + 1].base = base
          /\ old[n + 1].command = base + (n + 1) /\ End(old[Len(old)], plan) = k
        BY <1>2 DEF AreSegments, old
    <2> QED BY <1>1, <2>1
<1>4. n > 0 => End(done[n], plan) < k
    <2> SUFFICES ASSUME n > 0 PROVE End(done[n], plan) < k
        OBVIOUS
    <2>1. n \in DOMAIN old /\ n + 1 \in DOMAIN old /\ n < n + 1
        BY <1>1
    <2>2. End(old[n], plan) < End(old[n + 1], plan)
        BY <2>1 DEF AreSegments, old
    <2> QED BY <1>1, <1>3, <2>2
<1> QED BY <1>1, <1>3, <1>4 DEF n

(***************************************************************************)
(* One waypoint more for what is cut well, with room in the segment one    *)
(* and without.                                                            *)
(***************************************************************************)
LEMMA WithinWell ==
    ASSUME NEW plan \in MissionPlan, NEW serve \in Nat, NEW overlap \in Nat, Healthy(serve, overlap),
           NEW base \in Nat, NEW k \in DOMAIN plan, k >= 2, NEW c,
           IsCutWell(c, plan, serve, overlap, base, k - 1), Len(c.one.waypoints) < serve
    PROVE  IsCutWell(Within(c, plan[k], serve, overlap), plan, serve, overlap, base, k)
<1> DEFINE w == plan[k]
           one == Aimed(Added(c.one, w), w)
           more == serve - Len(Added(c.one, w).waypoints) < overlap
           two == IF more THEN Aimed(Added(c.two, w), w) ELSE Aimed(c.two, w)
           new == Within(c, w, serve, overlap)
<1>1. /\ w \in Waypoint /\ w.number \in Nat /\ k \in Nat /\ k - 1 \in Nat /\ DOMAIN plan = 1 .. Len(plan)
      /\ k - 1 \in DOMAIN plan
    BY PlanIs
<1>2. /\ c \in [done : Seq(SegmentType), one : SegmentType, two : SegmentType, failed : {FALSE}]
      /\ c.done \in Seq(SegmentType) /\ c.one \in SegmentType
      /\ AreSegments(Append(c.done, c.one), plan, base, k - 1)
    BY DEF IsCutWell
<1>3. /\ IsSegment(c.one, plan) /\ End(c.one, plan) = k - 1
      /\ c.one.base = base /\ c.one.command = base + Len(c.done) + 1
      /\ c.done # <<>> => End(c.done[Len(c.done)], plan) < k - 1
    BY <1>1, <1>2, LastOf
<1>4. /\ c.two \in SegmentType /\ c.two.base = base /\ c.two.command = base + Len(c.done) + 2
      /\ IF c.two.waypoints = <<>> THEN Len(c.one.waypoints) + 2 <= serve
         ELSE /\ IsSegment(c.two, plan) /\ End(c.two, plan) = k - 1
              /\ Len(c.two.waypoints) + serve <= Len(c.one.waypoints) + overlap
              /\ Len(c.two.waypoints) = 1 => Len(c.one.waypoints) < serve
              /\ c.done # <<>> => End(c.done[Len(c.done)], plan) < Begin(c.two, plan)
    BY DEF IsCutWell, IsBegun
<1>5. /\ IsSegment(one, plan) /\ Begin(one, plan) = Begin(c.one, plan) /\ End(one, plan) = k
      /\ Len(one.waypoints) = Len(c.one.waypoints) + 1
      /\ one.base = c.one.base /\ one.command = c.one.command
    BY <1>3, SegmentMore
<1>6. Len(Added(c.one, w).waypoints) = Len(c.one.waypoints) + 1 /\ Len(c.one.waypoints) \in Nat
      /\ Len(c.two.waypoints) \in Nat
    <2>1. Added(c.one, w).waypoints = Append(c.one.waypoints, w)
        BY <1>1, <1>2, AddedIs
    <2>2. c.one.waypoints \in Seq(Waypoint) /\ c.two.waypoints \in Seq(Waypoint)
        BY <1>2, <1>4 DEF SegmentType
    <2> HIDE DEF w
    <2> QED BY <1>1, <2>1, <2>2
<1>7. new = [done |-> c.done, one |-> one, two |-> two, failed |-> FALSE]
    <2>1. new = [c EXCEPT !.one = one, !.two = two]
        <3>1. two = Aimed(IF more THEN Added(c.two, w) ELSE c.two, w)
            OBVIOUS
        <3> HIDE DEF two
        <3> QED BY <3>1 DEF Within
    <2> HIDE DEF new, one, two
    <2> QED BY <1>2, <2>1
<1>8. AreSegments(Append(c.done, one), plan, base, k)
    <2> HIDE DEF one
    <2> QED BY <1>1, <1>2, <1>5, LastGrows
<1>9. more <=> Len(c.one.waypoints) + 1 + overlap > serve
    BY <1>6, SMTT(30)
<1>10. /\ two \in SegmentType /\ two.base = base /\ two.command = base + Len(c.done) + 2
       /\ IF two.waypoints = <<>> THEN Len(one.waypoints) + 2 <= serve
          ELSE /\ IsSegment(two, plan) /\ End(two, plan) = k
               /\ Len(two.waypoints) + serve <= Len(one.waypoints) + overlap
               /\ Len(two.waypoints) = 1 => Len(one.waypoints) < serve
               /\ c.done # <<>> => End(c.done[Len(c.done)], plan) < Begin(two, plan)
    <2> HIDE DEF one, more
    <2>1. CASE c.two.waypoints = <<>> /\ ~more
        <3>1. /\ two \in SegmentType /\ two.base = base /\ two.command = base + Len(c.done) + 2
              /\ two.waypoints = <<>>
            <4>1. two = [c.two EXCEPT !.first = w.number]
                BY <2>1 DEF Aimed
            <4> HIDE DEF two
            <4> QED BY <1>1, <1>4, <2>1, <4>1 DEF SegmentType
        <3>2. Len(one.waypoints) + 2 <= serve
            BY <1>5, <1>6, <1>9, <2>1 DEF Healthy
        <3> HIDE DEF two
        <3> QED BY <3>1, <3>2
    <2>2. CASE c.two.waypoints = <<>> /\ more
        <3>1. /\ IsSegment(two, plan) /\ Begin(two, plan) = k /\ End(two, plan) = k
              /\ Len(two.waypoints) = 1 /\ two.base = base /\ two.command = base + Len(c.done) + 2
            BY <1>4, <2>2, SegmentFirst
        <3>2. two \in SegmentType /\ two.waypoints # <<>>
            <4> HIDE DEF two
            <4> QED BY <3>1, SegmentHas DEF IsSegment
        <3>3. /\ 1 + serve <= Len(one.waypoints) + overlap /\ Len(one.waypoints) < serve
            BY <1>4, <1>5, <1>6, <1>9, <2>2
        <3>4. c.done # <<>> => End(c.done[Len(c.done)], plan) < k
            <4> SUFFICES ASSUME c.done # <<>> PROVE End(c.done[Len(c.done)], plan) < k
                OBVIOUS
            <4>1. End(c.done[Len(c.done)], plan) \in Nat
                <5> DEFINE d == c.done[Len(c.done)]
                           segments == Append(c.done, c.one)
                <5>1. /\ Len(c.done) \in DOMAIN segments /\ segments[Len(c.done)] = d
                    BY <1>2
                <5>2. IsSegment(d, plan)
                    BY <1>2, <5>1 DEF AreSegments
                <5> HIDE DEF d
                <5>3. End(d, plan) \in DOMAIN plan
                    BY <5>2, SegmentHas
                <5> QED BY <1>1, <5>3 DEF d
            <4> QED BY <1>1, <1>3, <4>1
        <3> HIDE DEF two
        <3> QED BY <3>1, <3>2, <3>3, <3>4
    <2>3. CASE c.two.waypoints # <<>>
        <3>0. Len(c.two.waypoints) >= 1
            <4>1. c.two.waypoints \in Seq(Waypoint)
                BY <1>4 DEF SegmentType
            <4> QED BY <2>3, <4>1
        <3>1. more
            <4>1. Len(c.two.waypoints) + serve <= Len(c.one.waypoints) + overlap
                BY <1>4, <2>3
            <4> QED BY <1>6, <1>9, <3>0, <4>1, SMTT(20)
        <3>2. /\ IsSegment(two, plan) /\ Begin(two, plan) = Begin(c.two, plan) /\ End(two, plan) = k
              /\ Len(two.waypoints) = Len(c.two.waypoints) + 1
              /\ two.base = base /\ two.command = base + Len(c.done) + 2
            BY <1>4, <2>3, <3>1, SegmentMore
        <3>3. two \in SegmentType /\ two.waypoints # <<>>
            <4> HIDE DEF two
            <4> QED BY <3>2, SegmentHas DEF IsSegment
        <3>4. /\ Len(c.two.waypoints) + serve <= Len(c.one.waypoints) + overlap
              /\ c.done # <<>> => End(c.done[Len(c.done)], plan) < Begin(c.two, plan)
            BY <1>4, <2>3
        <3> HIDE DEF two
        <3>5. /\ Len(two.waypoints) + serve <= Len(one.waypoints) + overlap
              /\ Len(two.waypoints) # 1
            <4>1. PICK l \in Nat : l = Len(c.two.waypoints)
                BY <1>6
            <4>2. PICK m \in Nat : m = Len(c.one.waypoints)
                BY <1>6
            <4>3. l + 1 + serve <= m + 1 + overlap /\ l + 1 # 1
                BY <3>0, <3>4, <4>1, <4>2, SMTT(20)
            <4> QED BY <1>5, <3>2, <4>1, <4>2, <4>3
        <3> QED BY <3>2, <3>3, <3>4, <3>5
    <2> QED BY <2>1, <2>2, <2>3
<1>11. one \in SegmentType /\ Len(one.waypoints) <= serve
    <2> HIDE DEF one
    <2>1. Len(one.waypoints) <= serve
        BY <1>5, <1>6
    <2>2. one \in SegmentType
        BY <1>5 DEF IsSegment
    <2> QED BY <2>1, <2>2
<1> HIDE DEF one, two, new, more
<1>12. IsCutWell(new, plan, serve, overlap, base, k)
    BY <1>2, <1>7, <1>8, <1>10, <1>11 DEF IsCutWell, IsBegun
<1> QED BY <1>12 DEF new, w

LEMMA OverflowWell ==
    ASSUME NEW plan \in MissionPlan, NEW serve \in Nat, NEW overlap \in Nat, Healthy(serve, overlap),
           NEW base \in Nat, NEW k \in DOMAIN plan, k >= 2, NEW c,
           IsCutWell(c, plan, serve, overlap, base, k - 1), Len(c.one.waypoints) >= serve
    PROVE  IsCutWell(Overflow(c, plan[k]), plan, serve, overlap, base, k)
<1> DEFINE w == plan[k]
           one == Added(c.two, w)
           two == Segment(base, base + Len(c.done) + 3)
           new == Overflow(c, w)
<1>1. /\ w \in Waypoint /\ w.number \in Nat /\ k \in Nat /\ k - 1 \in Nat /\ DOMAIN plan = 1 .. Len(plan)
      /\ k - 1 \in DOMAIN plan
    BY PlanIs
<1>2. /\ c \in [done : Seq(SegmentType), one : SegmentType, two : SegmentType, failed : {FALSE}]
      /\ c.done \in Seq(SegmentType) /\ c.one \in SegmentType /\ Len(c.one.waypoints) <= serve
      /\ AreSegments(Append(c.done, c.one), plan, base, k - 1)
    BY DEF IsCutWell
<1>3. /\ IsSegment(c.one, plan) /\ End(c.one, plan) = k - 1
      /\ c.one.base = base /\ c.one.command = base + Len(c.done) + 1
    <2> HIDE DEF w, one, two, new
    <2> QED BY <1>1, <1>2, LastOf
<1>4. Len(c.one.waypoints) \in Nat /\ Len(c.two.waypoints) \in Nat
    BY <1>2 DEF IsCutWell, IsBegun, SegmentType
<1>5. /\ c.two \in SegmentType /\ c.two.base = base /\ c.two.command = base + Len(c.done) + 2
      /\ c.two.waypoints # <<>> /\ IsSegment(c.two, plan) /\ End(c.two, plan) = k - 1
      /\ Len(c.two.waypoints) <= overlap /\ Len(c.two.waypoints) # 1
      /\ c.done # <<>> => End(c.done[Len(c.done)], plan) < Begin(c.two, plan)
    <2>1. c.two.waypoints # <<>>
        BY <1>2, <1>4 DEF IsCutWell, IsBegun
    <2> QED BY <1>2, <1>4, <2>1 DEF IsCutWell, IsBegun
<1>6. /\ Len(c.two.waypoints) >= 2 /\ Len(c.one.waypoints) = serve
    <2>1. Len(c.two.waypoints) # 0
        <3>1. c.two.waypoints \in Seq(Waypoint)
            BY <1>5 DEF SegmentType
        <3> QED BY <1>5, <3>1
    <2>2. Len(c.two.waypoints) # 1
        BY <1>5
    <2>3. Len(c.two.waypoints) >= 2
        <3>1. \A n \in Nat : n # 0 /\ n # 1 => n >= 2
            OBVIOUS
        <3> QED BY <1>4, <2>1, <2>2, <3>1
    <2> QED BY <1>2, <1>4, <2>3
<1>7. /\ IsSegment(one, plan) /\ Begin(one, plan) = Begin(c.two, plan) /\ End(one, plan) = k
      /\ Len(one.waypoints) = Len(c.two.waypoints) + 1
      /\ one.base = base /\ one.command = base + Len(c.done) + 2
    <2>1. Aimed(one, w) = one
        BY <1>5, <1>6, SegmentMore
    <2> QED BY <1>5, <2>1, SegmentMore
<1>8. c.one.first # Unset
    BY <1>3, SegmentHas
<1>9. new = [done |-> Append(c.done, c.one), one |-> one, two |-> two, failed |-> FALSE]
    <2>1. new = [c EXCEPT !.done = Append(@, c.one), !.one = one,
                          !.two = Segment(c.two.base, c.two.command + 1)]
        BY <1>8 DEF Overflow
    <2>2. Segment(c.two.base, c.two.command + 1) = two
        <3>1. c.two.command + 1 = base + Len(c.done) + 3
            BY <1>2, <1>5
        <3> QED BY <1>5, <3>1
    <2> HIDE DEF new, one, two
    <2> QED BY <1>2, <2>1, <2>2
<1>10. Begin(c.one, plan) < Begin(c.two, plan) /\ Begin(c.two, plan) < k - 1
    <2>1. /\ Len(c.one.waypoints) = (k - 1) - Begin(c.one, plan) + 1
          /\ Len(c.two.waypoints) = (k - 1) - Begin(c.two, plan) + 1
          /\ Begin(c.one, plan) \in DOMAIN plan /\ Begin(c.two, plan) \in DOMAIN plan
        BY <1>3, <1>5, SegmentHas
    <2>2. Len(c.two.waypoints) <= overlap /\ overlap + 3 <= serve
        BY <1>5 DEF Healthy
    <2>3. Begin(c.one, plan) \in Nat /\ Begin(c.two, plan) \in Nat
        BY <1>1, <2>1, SMTT(20)
    <2>4. \A l, m, b, d, z \in Nat :
             l = z - b + 1 /\ m = z - d + 1 /\ m >= 2 /\ m <= overlap /\ overlap + 3 <= l => b < d /\ d < z
        OBVIOUS
    <2> QED BY <1>1, <1>4, <1>6, <2>1, <2>2, <2>3, <2>4
<1>11. AreSegments(Append(Append(c.done, c.one), one), plan, base, k)
    <2> HIDE DEF one
    <2>1. k - 1 < k
        BY <1>1
    <2> QED BY <1>1, <1>2, <1>5, <1>7, <1>10, <2>1, NextBegun
<1>12. /\ Append(c.done, c.one) \in Seq(SegmentType) /\ Len(Append(c.done, c.one)) = Len(c.done) + 1
       /\ Len(c.done) \in Nat
    BY <1>2
<1>13. one \in SegmentType
    <2> HIDE DEF one
    <2> QED BY <1>7 DEF IsSegment
<1>14. /\ two \in SegmentType /\ two.base = base /\ two.command = base + (Len(c.done) + 1) + 2
       /\ two.waypoints = <<>>
    BY <1>12 DEF Segment, SegmentType, Unset
<1>15. Len(one.waypoints) + 2 <= serve
    <2> HIDE DEF one
    <2> QED BY <1>4, <1>5, <1>7 DEF Healthy
<1>16. Len(one.waypoints) <= serve
    <2> HIDE DEF one
    <2> QED BY <1>4, <1>7, <1>15
<1> HIDE DEF one, two, new
<1>17. IsBegun(new, plan, serve, overlap, base, k)
    BY <1>9, <1>12, <1>14, <1>15 DEF IsBegun
<1>18. IsCutWell(new, plan, serve, overlap, base, k)
    <2>1. new \in [done : Seq(SegmentType), one : SegmentType, two : SegmentType, failed : {FALSE}]
        BY <1>9, <1>12, <1>13, <1>14
    <2>2. new.done = Append(c.done, c.one) /\ new.one = one
        BY <1>9
    <2> QED BY <1>11, <1>16, <1>17, <2>1, <2>2 DEF IsCutWell
<1> QED BY <1>18 DEF new, w

LEMMA FirstWell ==
    ASSUME NEW plan \in MissionPlan, NEW serve \in Nat, NEW overlap \in Nat, Healthy(serve, overlap),
           NEW base \in Nat, 1 \in DOMAIN plan
    PROVE  IsCutWell(CutMore(Uncut(plan, base), plan[1], serve, overlap), plan, serve, overlap, base, 1)
<1> DEFINE w == plan[1]
           c == Uncut(plan, base)
           one == Aimed(Added(c.one, w), w)
           two == Aimed(c.two, w)
           new == CutMore(c, w, serve, overlap)
<1>1. w \in Waypoint /\ w.number \in Nat /\ DOMAIN plan = 1 .. Len(plan) /\ plan # <<>>
    BY PlanIs
<1>2. /\ c = [done |-> <<>>, one |-> Segment(base, base + 1), two |-> Segment(base, base + 2),
              failed |-> FALSE]
    BY <1>1 DEF Uncut
<1>3. /\ c.one \in SegmentType /\ c.one.waypoints = <<>> /\ c.one.base = base
      /\ c.one.command = base + 1
      /\ c.two \in SegmentType /\ c.two.waypoints = <<>> /\ c.two.base = base
      /\ c.two.command = base + 2
    BY <1>2 DEF Segment, SegmentType, Unset
<1> HIDE DEF c
<1>4. /\ IsSegment(one, plan) /\ Begin(one, plan) = 1 /\ End(one, plan) = 1
      /\ Len(one.waypoints) = 1 /\ one.base = base /\ one.command = base + 1
    BY <1>3, SegmentFirst
<1>5. Len(Added(c.one, w).waypoints) = 1
    <2>1. Added(c.one, w).waypoints = Append(<<>>, w)
        <3> HIDE DEF w, one, two, new
        <3>1. Added(c.one, w).waypoints = Append(c.one.waypoints, w)
            BY <1>1, <1>3, AddedIs
        <3> QED BY <1>3, <3>1
    <2> QED BY <1>1, <2>1
<1>6. /\ two \in SegmentType /\ two.base = base /\ two.command = base + 2 /\ two.waypoints = <<>>
    <2>1. two = [c.two EXCEPT !.first = w.number]
        BY <1>3 DEF Aimed
    <2> HIDE DEF two, w
    <2> QED BY <1>1, <1>3, <2>1 DEF SegmentType
<1>7. new = [done |-> <<>>, one |-> one, two |-> two, failed |-> FALSE]
    <2>1. Len(c.one.waypoints) < serve
        BY <1>3 DEF Healthy
    <2>2. ~(serve - Len(Added(c.one, w).waypoints) < overlap)
        BY <1>5 DEF Healthy
    <2>3. new = [c EXCEPT !.one = one, !.two = two]
        BY <2>1, <2>2 DEF CutMore, Within
    <2> HIDE DEF new, one, two
    <2> QED BY <1>2, <2>3
<1> HIDE DEF one, two, new
<1>8. AreSegments(Append(<<>>, one), plan, base, 1)
    <2>1. one \in SegmentType
        BY <1>4 DEF IsSegment
    <2>2. Append(<<>>, one) = <<one>>
        BY <2>1
    <2>3. <<one>> \in Seq(SegmentType) /\ <<one>> # <<>> /\ Len(<<one>>) = 1 /\ <<one>>[1] = one
        /\ DOMAIN <<one>> = 1 .. 1
        BY <2>1
    <2>4. AreSegments(<<one>>, plan, base, 1)
        BY <1>4, <2>3 DEF AreSegments
    <2> QED BY <2>2, <2>4
<1>9. IsBegun(new, plan, serve, overlap, base, 1)
    <2>1. 1 + 2 <= serve
        BY DEF Healthy
    <2>2. new.two = two /\ new.done = <<>> /\ Len(new.done) = 0 /\ new.one = one
        BY <1>7
    <2>3. base + 2 = base + 0 + 2
        OBVIOUS
    <2> QED BY <1>4, <1>6, <2>1, <2>2, <2>3 DEF IsBegun
<1>10. IsCutWell(new, plan, serve, overlap, base, 1)
    <2>1. new \in [done : Seq(SegmentType), one : SegmentType, two : SegmentType, failed : {FALSE}]
        <3>1. one \in SegmentType
            BY <1>4 DEF IsSegment
        <3>2. <<>> \in Seq(SegmentType)
            OBVIOUS
        <3> QED BY <1>6, <1>7, <3>1, <3>2
    <2>2. new.done = <<>> /\ new.one = one
        BY <1>7
    <2>3. 1 <= serve
        BY DEF Healthy
    <2> QED BY <1>4, <1>8, <1>9, <2>1, <2>2, <2>3 DEF IsCutWell
<1> QED BY <1>10 DEF new, c, w

LEMMA AllCutWell ==
    ASSUME NEW plan \in MissionPlan, NEW serve \in Nat, NEW overlap \in Nat, Healthy(serve, overlap),
           NEW base \in Nat, NEW k \in DOMAIN plan
    PROVE  /\ CutOf(plan, serve, overlap, base)[k] # {}
           /\ \A c \in CutOf(plan, serve, overlap, base)[k] :
                 IsCutWell(c, plan, serve, overlap, base, k)
<1> DEFINE cut == CutOf(plan, serve, overlap, base)
           IsWell(n) == n = 0 \/ (cut[n] # {} /\ \A c \in cut[n] : IsCutWell(c, plan, serve, overlap, base, n))
           T == {n \in 0 .. Len(plan) : IsWell(n)}
<1>1. Len(plan) \in Nat /\ DOMAIN plan = 1 .. Len(plan)
    BY PlanIs
<1>2. /\ cut[0] = {Uncut(plan, base)}
      /\ \A n \in 1 .. Len(plan) : cut[n] = {CutMore(c, plan[n], serve, overlap) : c \in cut[n - 1]}
    BY <1>1, CutOfIs
<1> HIDE DEF cut
<1>3. 0 \in T
    BY <1>1
<1>4. ASSUME NEW n \in 1 .. Len(plan), n - 1 \in T
      PROVE  n \in T
    <2>1. cut[n] = {CutMore(c, plan[n], serve, overlap) : c \in cut[n - 1]}
        BY <1>2
    <2>2. CASE n = 1
        <3>1. cut[1] = {CutMore(Uncut(plan, base), plan[1], serve, overlap)}
            <4>1. cut[1] = {CutMore(c, plan[1], serve, overlap) : c \in cut[0]}
                BY <1>1, <2>1, <2>2
            <4> QED BY <1>2, <4>1, Zenon
        <3>2. IsCutWell(CutMore(Uncut(plan, base), plan[1], serve, overlap), plan, serve, overlap, base, 1)
            BY <1>1, <2>2, FirstWell
        <3>3. IsWell(1)
            BY <3>1, <3>2, Zenon
        <3> QED BY <1>1, <2>2, <3>3
    <2>3. CASE n # 1
        <3>1. cut[n - 1] # {} /\ \A c \in cut[n - 1] : IsCutWell(c, plan, serve, overlap, base, n - 1)
            BY <1>1, <1>4, <2>3
        <3>2. ASSUME NEW c \in cut[n - 1]
              PROVE  IsCutWell(CutMore(c, plan[n], serve, overlap), plan, serve, overlap, base, n)
            <4>1. IsCutWell(c, plan, serve, overlap, base, n - 1) /\ n >= 2 /\ n \in DOMAIN plan
                BY <1>1, <2>3, <3>1
            <4>2. Len(c.one.waypoints) \in Nat
                BY <4>1 DEF IsCutWell, SegmentType
            <4>3. CASE Len(c.one.waypoints) < serve
                BY <4>1, <4>3, WithinWell DEF CutMore
            <4>4. CASE ~(Len(c.one.waypoints) < serve)
                <5>1. Len(c.one.waypoints) >= serve
                    BY <4>2, <4>4
                <5> QED BY <4>1, <4>4, <5>1, OverflowWell DEF CutMore
            <4> QED BY <4>3, <4>4
        <3>3. cut[n] # {}
            BY <2>1, <3>1, Zenon
        <3>4. \A c \in cut[n] : IsCutWell(c, plan, serve, overlap, base, n)
            BY <2>1, <3>2, Zenon
        <3> QED BY <1>1, <3>3, <3>4
    <2> QED BY <2>2, <2>3
<1> HIDE DEF T
<1>5. \A n \in 0 .. Len(plan) : n \in T
    BY <1>1, <1>3, <1>4, UpTo
<1>6. k \in 0 .. Len(plan) /\ k # 0
    BY <1>1
<1> QED BY <1>5, <1>6 DEF T, cut

LEMMA SegmentsWell ==
    ASSUME NEW plan \in MissionPlan, NEW serve \in Nat, NEW overlap \in Nat, Healthy(serve, overlap),
           NEW base \in Nat
    PROVE  LET cut == Segments(plan, serve, overlap, base)
           IN  IF plan = <<>> THEN cut.segments = <<>> /\ cut.last = base
               ELSE /\ AreSegments(cut.segments, plan, base, Len(plan)) /\ ~cut.failed
                    /\ cut.last = base + Len(cut.segments) + 1
<1> DEFINE cut == Segments(plan, serve, overlap, base)
<1>1. Len(plan) \in Nat /\ DOMAIN plan = 1 .. Len(plan) /\ plan \in Seq(Waypoint)
    BY PlanIs
<1>2. CASE plan = <<>>
    <2> DEFINE all == CutOf(plan, serve, overlap, base)[Len(plan)]
               end == CHOOSE c \in all : TRUE
    <2>1. all = {Uncut(plan, base)}
        BY <1>1, <1>2, CutOfIs
    <2>2. end = Uncut(plan, base)
        BY <2>1
    <2>3. cut = [segments |-> IF end.one.first = Unset THEN end.done ELSE Append(end.done, end.one),
                 failed |-> end.failed, last |-> IF plan = <<>> THEN base ELSE end.two.command]
        BY DEF Segments
    <2> HIDE DEF end, cut
    <2>4. cut.segments = <<>> /\ cut.last = base
        BY <1>2, <2>2, <2>3 DEF Uncut, Segment
    <2> QED BY <1>2, <2>4 DEF cut
<1>3. CASE plan # <<>>
    <2> DEFINE all == CutOf(plan, serve, overlap, base)[Len(plan)]
               end == CHOOSE c \in all : TRUE
    <2>1. Len(plan) \in DOMAIN plan
        BY <1>1, <1>3
    <2>2. all # {} /\ \A c \in all : IsCutWell(c, plan, serve, overlap, base, Len(plan))
        BY <2>1, AllCutWell
    <2>3. IsCutWell(end, plan, serve, overlap, base, Len(plan))
        <3> HIDE DEF all
        <3> QED BY <2>2
    <2>4. cut = [segments |-> IF end.one.first = Unset THEN end.done ELSE Append(end.done, end.one),
                 failed |-> end.failed, last |-> IF plan = <<>> THEN base ELSE end.two.command]
        BY DEF Segments
    <2> HIDE DEF end, cut
    <2>5. /\ end.done \in Seq(SegmentType) /\ end.one \in SegmentType /\ end.failed = FALSE
          /\ AreSegments(Append(end.done, end.one), plan, base, Len(plan))
          /\ end.two.command = base + Len(end.done) + 2
        BY <2>3 DEF IsCutWell, IsBegun
    <2>6. end.one.first # Unset
        BY <1>1, <2>5, LastOf, SegmentHas
    <2>7. cut.segments = Append(end.done, end.one) /\ ~cut.failed /\ cut.last = end.two.command
        BY <1>3, <2>4, <2>5, <2>6
    <2>8. cut.last = base + Len(cut.segments) + 1
        BY <2>5, <2>7
    <2> QED BY <1>3, <2>5, <2>7, <2>8 DEF cut
<1> QED BY <1>2, <1>3
-----------------------------------------------------------------------------
(***************************************************************************)
(* The invariant.  First what holds of any plans: the segments of each     *)
(* vehicle are those of the plan it was last given.                        *)
(***************************************************************************)
CommandType ==
    {c \in SegmentType : \E i \in DOMAIN c.waypoints : c.waypoints[i].number = c.first}
PlanMessage == [type : {"AutomationResponse"}, plans : [Vehicle -> MissionPlan]]
Report == [type : {"AirVehicleState"}, vehicle : Vehicle, waypoint : Nat]
Order == [type : {"MissionCommand"}, vehicle : Vehicle, command : CommandType]
ManagerTypeOK ==
    /\ published \in 0 .. Len(mission.plans)
    /\ toManager \in [Vehicle -> Seq(PlanMessage \cup Report)]
    /\ toVehicle \in [Vehicle -> Seq(Order)]
    /\ m_missionSegments \in [Vehicle -> Seq(SegmentType)]
    /\ m_idMissionSegmentCurrent \in [Vehicle -> Nat] /\ commandIDs \in [Vehicle -> Nat]
    /\ nextMissionCommandToSend \in [Vehicle -> Seq(CommandType)]
    /\ sending \in [Vehicle -> BOOLEAN]
    /\ course \in [Vehicle -> {x \in [base : Nat, waypoints : Seq(Waypoint), at : Nat, again : BOOLEAN] :
                                  x.at \in DOMAIN x.waypoints \/ x = OnGround}]
    /\ commands \in [Vehicle -> Seq([base : Nat, command : Nat])]
    /\ assigned \in [Vehicle -> [base : Nat, waypoints : MissionPlan]]
PlansCut ==
    \A v \in Vehicle :
        IF assigned[v].waypoints = <<>> THEN m_missionSegments[v] = <<>>
        ELSE AreSegments(m_missionSegments[v], assigned[v].waypoints, assigned[v].base,
                         Len(assigned[v].waypoints))

(* Plans that are not renumbered.  Past are the numbers of a vehicle that  *)
(* are neither in its plan nor in one that is still to come to its manager.*)
IsPlan(m) == m.type = "AutomationResponse"
Current(v) == Numbers(assigned[v].waypoints)
ComingOf(v, inbox, plans, n) ==
    {x \in Nat : \/ \E i \in DOMAIN inbox : IsPlan(inbox[i]) /\ x \in Numbers(inbox[i].plans[v])
                 \/ \E k \in n + 1 .. Len(plans) : x \in Numbers(plans[k][v])}
Coming(v) == ComingOf(v, toManager[v], mission.plans, published)
Past(v) == {n \in Nat : n \notin Current(v) /\ n \notin Coming(v)}
Apart(v, inbox, plans, n) ==
    \A i \in DOMAIN inbox : IsPlan(inbox[i]) =>
        /\ \A j \in DOMAIN inbox : i < j /\ IsPlan(inbox[j]) =>
              Numbers(inbox[i].plans[v]) \cap Numbers(inbox[j].plans[v]) = {}
        /\ \A k \in n + 1 .. Len(plans) : Numbers(inbox[i].plans[v]) \cap Numbers(plans[k][v]) = {}
PlansApart(v) ==
    Current(v) \cap Coming(v) = {} /\ Apart(v, toManager[v], mission.plans, published)

(* CommandIDs.                                                             *)
Base(v) == assigned[v].base
Now(v) == m_idMissionSegmentCurrent[v]
Counted(v) ==
    /\ Now(v) <= commandIDs[v]
    /\ assigned[v].waypoints = <<>> => Base(v) <= commandIDs[v]
    /\ assigned[v].waypoints # <<>> =>
          Now(v) - Base(v) \in DOMAIN m_missionSegments[v]
          /\ Base(v) + Len(m_missionSegments[v]) <= commandIDs[v]

(* Commands that are to be sent or under way are of the segment last       *)
(* chosen, or of a plan that is past.                                      *)
OldCommands(v) ==
    {c \in CommandType : c.base < Base(v) /\ c.command <= Base(v) /\ Numbers(c.waypoints) \subseteq Past(v)}
NewCommands(v) ==
    {c \in CommandType :
        /\ assigned[v].waypoints # <<>> /\ c.base = Base(v) /\ c.command = Now(v)
        /\ c.waypoints = m_missionSegments[v][Now(v) - Base(v)].waypoints
        /\ \E i \in DOMAIN c.waypoints :
              c.waypoints[i].number = c.first /\ (i > 1 \/ Len(assigned[v].waypoints) = 1)}
IsLast(v, base, command) ==
    commands[v] # <<>> /\ Last(commands[v]) = [base |-> base, command |-> command]
OrdersFit(v) ==
    /\ \A i \in DOMAIN toVehicle[v] :
          toVehicle[v][i].command \in OldCommands(v) \cup NewCommands(v)
          /\ toVehicle[v][i].command.command <= Now(v)
    /\ nextMissionCommandToSend[v] # <<>> =>
          nextMissionCommandToSend[v][1] \in OldCommands(v) \cup NewCommands(v)
          /\ nextMissionCommandToSend[v][1].command = Now(v)
OrdersGrow(v) ==
    /\ \A i \in DOMAIN toVehicle[v] :
          /\ commands[v] # <<>> => Last(commands[v]).command < toVehicle[v][i].command.command
          /\ \A j \in DOMAIN toVehicle[v] : i < j =>
                toVehicle[v][i].command.command < toVehicle[v][j].command.command
          /\ ~sending[v] /\ nextMissionCommandToSend[v] # <<>> =>
                toVehicle[v][i].command.command < Now(v)
    /\ commands[v] # <<>> => Last(commands[v]).command <= Now(v)
    /\ commands[v] # <<>> /\ ~sending[v] /\ nextMissionCommandToSend[v] # <<>> =>
          Last(commands[v]).command < Now(v)
OrdersFollow(v) ==
    /\ \A i \in DOMAIN toVehicle[v] :
          LET c == toVehicle[v][i].command
          IN  c.command # c.base + 1 => i = 1 /\ IsLast(v, c.base, c.command - 1)
    /\ ~sending[v] /\ nextMissionCommandToSend[v] # <<>> =>
          LET c == nextMissionCommandToSend[v][1]
          IN  c.command # c.base + 1 => toVehicle[v] = <<>> /\ IsLast(v, c.base, c.command - 1)

(* The segment that a report makes the manager choose.                     *)
Place(base, segments, n) == base + CHOOSE i \in Chosen(segments, n) : TRUE
Where(v, n) == Place(Base(v), m_missionSegments[v], n)
Heading(v) == course[v].waypoints[course[v].at].number
OnPlan(v) == commands[v] # <<>> /\ assigned[v].waypoints # <<>> /\ Last(commands[v]).base = Base(v)
CourseFits(v) ==
    /\ commands[v] = <<>> => course[v] = OnGround
    /\ commands[v] # <<>> => course[v].base = Last(commands[v]).base /\ course[v] # OnGround
    /\ commands[v] # <<>> /\ ~OnPlan(v) =>
          /\ Last(commands[v]).base < Base(v) /\ Last(commands[v]).command <= Base(v)
          /\ Numbers(course[v].waypoints) \subseteq Past(v)
    /\ OnPlan(v) =>
          /\ Last(commands[v]).command - Base(v) \in DOMAIN m_missionSegments[v]
          /\ course[v].waypoints =
                m_missionSegments[v][Last(commands[v]).command - Base(v)].waypoints
          /\ course[v].at > 1 \/ Len(assigned[v].waypoints) = 1
          /\ Now(v) <= Where(v, Heading(v))
Own(v) == {i \in DOMAIN toManager[v] : ~IsPlan(toManager[v][i]) /\ toManager[v][i].vehicle = v}
ReportsFit(v) ==
    \A i \in Own(v) :
        LET n == toManager[v][i].waypoint
        IN  \/ n \in Past(v)
            \/ /\ n \in Current(v) /\ OnPlan(v)
               /\ Now(v) <= Where(v, n) /\ Where(v, n) <= Where(v, Heading(v))
               /\ Where(v, n) <= Now(v) \/ (Where(v, n) = Now(v) + 1 /\ IsLast(v, Base(v), Now(v)))
               /\ \A j \in Own(v) : i < j => Where(v, n) <= Where(v, toManager[v][j].waypoint)
InTurn(v) ==
    PlansApart(v) /\ Counted(v) /\ OrdersFit(v) /\ OrdersGrow(v) /\ OrdersFollow(v) /\ CourseFits(v)
    /\ ReportsFit(v)
-----------------------------------------------------------------------------
(***************************************************************************)
(* Which segment is chosen for a waypoint, and the command for it.         *)
(***************************************************************************)
LEMMA Extremes ==
    ASSUME NEW n \in Nat, NEW T, T \subseteq 1 .. n, T # {}
    PROVE  /\ Min(T) \in T /\ \A y \in T : Min(T) <= y
           /\ Max(T) \in T /\ \A y \in T : Max(T) >= y
<1>1. PICK least \in T : \A y \in T : least <= y
    <2>1. T \subseteq Nat
        OBVIOUS
    <2> QED BY <2>1, Least
<1> DEFINE U == {n - y : y \in T}
<1>2. U \subseteq Nat /\ U # {}
    OBVIOUS
<1>3. PICK below \in U : \A z \in U : below <= z
    <2> HIDE DEF U
    <2> QED BY <1>2, Least
<1>4. PICK most \in T : below = n - most
    OBVIOUS
<1>5. ASSUME NEW y \in T
      PROVE  most >= y
    <2>1. n - most <= n - y
        BY <1>3, <1>4
    <2>2. most \in 1 .. n /\ y \in 1 .. n
        OBVIOUS
    <2> QED BY <2>1, <2>2
<1>6. Min(T) \in T /\ \A y \in T : Min(T) <= y
    BY <1>1 DEF Min
<1>7. Max(T) \in T /\ \A y \in T : Max(T) >= y
    BY <1>5 DEF Max
<1> QED BY <1>6, <1>7

Having(segments, n) ==
    {i \in DOMAIN segments : \E k \in DOMAIN segments[i].waypoints : segments[i].waypoints[k].number = n}
LEMMA ChosenIs ==
    ASSUME NEW segments \in Seq(SegmentType), NEW n
    PROVE  \/ Having(segments, n) = {} /\ Chosen(segments, n) = {}
           \/ \E i \in Having(segments, n) :
                 /\ Chosen(segments, n) = {i}
                 /\ \A j \in Having(segments, n) :
                       segments[j].waypoints[1].number # n =>
                           segments[i].waypoints[1].number # n /\ j <= i
                 /\ segments[i].waypoints[1].number = n => \A j \in Having(segments, n) : i <= j
<1> DEFINE having == Having(segments, n)
           inside == {i \in having : segments[i].waypoints[1].number # n}
<1>1. Chosen(segments, n) =
          IF inside # {} THEN {Max(inside)} ELSE IF having # {} THEN {Min(having)} ELSE {}
    <2>1. having = {i \in DOMAIN segments : \E w \in ToSet(segments[i].waypoints) : w.number = n}
        BY DEF Having, ToSet
    <2> HIDE DEF having
    <2> QED BY <2>1 DEF Chosen
<1>2. having \subseteq 1 .. Len(segments) /\ inside \subseteq having /\ Len(segments) \in Nat
    BY DEF Having
<1>3. \A i \in having : i \notin inside <=> segments[i].waypoints[1].number = n
    OBVIOUS
<1> HIDE DEF having, inside
<1>4. CASE inside # {}
    <2>1. Max(inside) \in inside /\ \A j \in inside : Max(inside) >= j
        <3>1. inside \subseteq 1 .. Len(segments)
            BY <1>2
        <3> QED BY <1>2, <1>4, <3>1, Extremes
    <2>2. \A j \in inside : j \in Nat
        BY <1>2
    <2>3. PICK i \in having : i = Max(inside) /\ i \in inside
        BY <1>2, <2>1
    <2>4. \A j \in inside : j <= i
        BY <2>1, <2>2, <2>3
    <2>5. Chosen(segments, n) = {i}
        BY <1>1, <1>4, <2>3
    <2> QED BY <1>3, <2>3, <2>4, <2>5 DEF having
<1>5. CASE inside = {} /\ having # {}
    <2>1. Min(having) \in having /\ \A j \in having : Min(having) <= j
        BY <1>2, <1>5, Extremes
    <2>2. PICK i \in having : i = Min(having)
        BY <2>1
    <2>3. Chosen(segments, n) = {i}
        BY <1>1, <1>5, <2>2
    <2> QED BY <1>3, <1>5, <2>1, <2>2, <2>3 DEF having
<1>6. CASE inside = {} /\ having = {}
    BY <1>1, <1>6 DEF having
<1> QED BY <1>4, <1>5, <1>6

LEMMA CommandForIs ==
    ASSUME NEW plan \in MissionPlan, NEW s, IsSegment(s, plan), NEW n \in Nat,
           \E k \in DOMAIN s.waypoints : s.waypoints[k].number = n
    PROVE  /\ CommandFor(s, n) \in CommandType
           /\ CommandFor(s, n).base = s.base /\ CommandFor(s, n).command = s.command
           /\ CommandFor(s, n).waypoints = s.waypoints
           /\ \E i \in DOMAIN s.waypoints :
                 /\ s.waypoints[i].number = CommandFor(s, n).first
                 /\ i > 1 \/ Len(s.waypoints) = 1
<1> DEFINE c == CommandFor(s, n)
           b == Begin(s, plan)
           e == End(s, plan)
<1>1. /\ s \in SegmentType /\ b \in Nat /\ e \in Nat /\ 1 <= b /\ b <= e
      /\ Len(s.waypoints) = e - b + 1 /\ DOMAIN s.waypoints = 1 .. Len(s.waypoints)
      /\ \A i \in DOMAIN s.waypoints : s.waypoints[i] = plan[b + i - 1]
      /\ s.first = plan[IF b = e THEN b ELSE b + 1].number
    <2>1. b \in DOMAIN plan /\ e \in DOMAIN plan
        BY SegmentHas
    <2>2. s \in SegmentType
        BY DEF IsSegment
    <2>3. DOMAIN s.waypoints = 1 .. Len(s.waypoints)
        BY <2>2 DEF SegmentType
    <2>4. s.first = plan[IF b = e THEN b ELSE b + 1].number
        BY DEF IsSegment
    <2> HIDE DEF b, e
    <2>5. b \in Nat /\ e \in Nat /\ 1 <= b
        BY <2>1, PlanIs
    <2> QED BY <2>2, <2>3, <2>4, <2>5, SegmentHas DEF b, e
<1> HIDE DEF b, e
<1>2. /\ c \in SegmentType /\ c.base = s.base /\ c.command = s.command /\ c.waypoints = s.waypoints
      /\ c.first = IF s.waypoints[1].number = n THEN s.first ELSE n
    BY <1>1 DEF CommandFor, SegmentType
<1> HIDE DEF c
<1>3. \E i \in DOMAIN s.waypoints : s.waypoints[i].number = c.first /\ (i > 1 \/ Len(s.waypoints) = 1)
    <2>1. CASE s.waypoints[1].number # n
        <3>1. PICK k \in DOMAIN s.waypoints : s.waypoints[k].number = n
            OBVIOUS
        <3>2. k # 1
            BY <2>1, <3>1
        <3>3. k > 1
            <4>1. k \in 1 .. Len(s.waypoints)
                BY <1>1
            <4> QED BY <3>2, <4>1
        <3> QED BY <1>2, <2>1, <3>1, <3>3
    <2>2. CASE s.waypoints[1].number = n /\ b = e
        <3>1. 1 \in DOMAIN s.waypoints /\ Len(s.waypoints) = 1 /\ b + 1 - 1 = b
            BY <1>1, <2>2
        <3>2. s.waypoints[1] = plan[b]
            BY <1>1, <3>1
        <3> QED BY <1>1, <1>2, <2>2, <3>1, <3>2
    <2>3. CASE s.waypoints[1].number = n /\ b # e
        <3>1. 2 \in DOMAIN s.waypoints /\ b + 2 - 1 = b + 1
            BY <1>1, <2>3
        <3>2. s.waypoints[2] = plan[b + 1]
            BY <1>1, <3>1
        <3>3. s.first = s.waypoints[2].number
            BY <1>1, <2>3, <3>2
        <3>4. c.first = s.waypoints[2].number
            BY <1>2, <2>3, <3>3
        <3> QED BY <3>1, <3>4
    <2> QED BY <2>1, <2>2, <2>3
<1>4. c \in CommandType
    BY <1>2, <1>3 DEF CommandType
<1> QED BY <1>2, <1>3, <1>4 DEF c
-----------------------------------------------------------------------------
(***************************************************************************)
(* What a step is for a vehicle, if its plans are cut into healthy         *)
(* segments: something is published, or another vehicle is at work, or the *)
(* manager takes a plan or a report, sends a command or has sent it, or    *)
(* the vehicle accepts a command or flies on.                              *)
(***************************************************************************)
KeepsPlan(v) ==
    /\ m_missionSegments'[v] = m_missionSegments[v]
    /\ commandIDs'[v] = commandIDs[v] /\ assigned'[v] = assigned[v]
KeepsChoice(v) ==
    /\ m_idMissionSegmentCurrent'[v] = m_idMissionSegmentCurrent[v]
    /\ nextMissionCommandToSend'[v] = nextMissionCommandToSend[v]
KeepsCourse(v) == course'[v] = course[v] /\ commands'[v] = commands[v]
KeepsOrders(v) == sending'[v] = sending[v] /\ toVehicle'[v] = toVehicle[v]
Receives(v, m) ==
    toManager'[v] = IF v \in mission.vehicles THEN Append(toManager[v], m) ELSE toManager[v]
Chooses(v, segments, n) ==
    \/ /\ KeepsChoice(v)
       /\ \A i \in Chosen(segments, n) : segments[i].command = m_idMissionSegmentCurrent[v]
    \/ \E i \in Having(segments, n) :
          /\ Chosen(segments, n) = {i} /\ segments[i].command # m_idMissionSegmentCurrent[v]
          /\ m_idMissionSegmentCurrent'[v] = segments[i].command
          /\ nextMissionCommandToSend'[v] = <<CommandFor(segments[i], n)>>

Publishes(v) ==
    /\ published < Len(mission.plans) /\ published' = published + 1
    /\ Receives(v, [type |-> "AutomationResponse", plans |-> mission.plans[published + 1]])
    /\ KeepsPlan(v) /\ KeepsChoice(v) /\ KeepsCourse(v) /\ KeepsOrders(v)
Hears(v) ==
    /\ published' = published
    /\ \/ toManager'[v] = toManager[v]
       \/ \E m \in Report : m.vehicle # v /\ toManager'[v] = Append(toManager[v], m)
    /\ KeepsPlan(v) /\ KeepsChoice(v) /\ KeepsCourse(v) /\ KeepsOrders(v)
Takes(v) ==
    /\ published' = published
    /\ toManager[v] # <<>> /\ Head(toManager[v]) \in PlanMessage
    /\ toManager'[v] = Tail(toManager[v])
    /\ LET plan == Head(toManager[v]).plans[v]
           cut == Segments(plan, mission.serve, mission.overlap, commandIDs[v])
       IN  /\ m_missionSegments'[v] = cut.segments /\ commandIDs'[v] = cut.last
           /\ assigned'[v] = [base |-> commandIDs[v], waypoints |-> plan]
           /\ IF plan = <<>> THEN KeepsChoice(v) ELSE Chooses(v, cut.segments, plan[1].number)
    /\ KeepsCourse(v) /\ KeepsOrders(v)
Reads(v) ==
    /\ published' = published
    /\ toManager[v] # <<>> /\ Head(toManager[v]) \in Report
    /\ toManager'[v] = Tail(toManager[v])
    /\ IF Head(toManager[v]).vehicle = v
       THEN Chooses(v, m_missionSegments[v], Head(toManager[v]).waypoint) ELSE KeepsChoice(v)
    /\ KeepsPlan(v) /\ KeepsCourse(v) /\ KeepsOrders(v)
Sends(v) ==
    /\ published' = published /\ toManager'[v] = toManager[v]
    /\ ~sending[v] /\ sending'[v] /\ nextMissionCommandToSend[v] # <<>>
    /\ toVehicle'[v] = Append(toVehicle[v], [type |-> "MissionCommand", vehicle |-> v,
                                             command |-> nextMissionCommandToSend[v][1]])
    /\ KeepsPlan(v) /\ KeepsChoice(v) /\ KeepsCourse(v)
HasSent(v) ==
    /\ published' = published /\ toManager'[v] = toManager[v]
    /\ sending[v] /\ ~sending'[v] /\ nextMissionCommandToSend'[v] = <<>>
    /\ m_idMissionSegmentCurrent'[v] = m_idMissionSegmentCurrent[v]
    /\ toVehicle'[v] = toVehicle[v]
    /\ KeepsPlan(v) /\ KeepsCourse(v)
TurnsTo(v) ==
    /\ published' = published
    /\ course'[v].at \in DOMAIN course'[v].waypoints
    /\ Receives(v, [type |-> "AirVehicleState", vehicle |-> v,
                    waypoint |-> course'[v].waypoints[course'[v].at].number])
    /\ KeepsPlan(v) /\ KeepsChoice(v) /\ sending'[v] = sending[v]
Accepts(v) ==
    /\ toVehicle[v] # <<>> /\ toVehicle'[v] = Tail(toVehicle[v])
    /\ LET c == Head(toVehicle[v]).command
       IN  /\ commands'[v] = Append(commands[v], [base |-> c.base, command |-> c.command])
           /\ course'[v].base = c.base /\ course'[v].waypoints = c.waypoints
           /\ c.waypoints[course'[v].at].number = c.first
    /\ TurnsTo(v)
Flies(v) ==
    /\ toVehicle'[v] = toVehicle[v] /\ commands'[v] = commands[v]
    /\ course'[v].base = course[v].base /\ course'[v].waypoints = course[v].waypoints
    /\ course[v] # OnGround
    /\ course'[v].at \in {course[v].at, course[v].at + 1}
    /\ TurnsTo(v)
StepOf(v) ==
    \/ Publishes(v) \/ Hears(v) \/ Takes(v) \/ Reads(v) \/ Sends(v) \/ HasSent(v)
    \/ Accepts(v) \/ Flies(v)

CutInv ==
    /\ mission \in MissionSettings
    /\ Healthy(mission.serve, mission.overlap) => ManagerTypeOK /\ PlansCut

(* What GetCurrentSegment does.                                            *)
LEMMA Gets ==
    ASSUME NEW v \in Vehicle, NEW segments \in Seq(SegmentType), NEW n, GetCurrentSegment(v, segments, n),
           m_idMissionSegmentCurrent \in [Vehicle -> Nat],
           nextMissionCommandToSend \in [Vehicle -> Seq(CommandType)],
           \A i \in Having(segments, n) :
               segments[i].command \in Nat /\ CommandFor(segments[i], n) \in CommandType
    PROVE  /\ m_idMissionSegmentCurrent' \in [Vehicle -> Nat]
           /\ nextMissionCommandToSend' \in [Vehicle -> Seq(CommandType)]
           /\ Chooses(v, segments, n)
           /\ \A u \in Vehicle \ {v} : KeepsChoice(u)
<1> DEFINE new == {i \in Chosen(segments, n) : segments[i].command # m_idMissionSegmentCurrent[v]}
<1>1. /\ m_idMissionSegmentCurrent' =
             [m_idMissionSegmentCurrent EXCEPT ![v] =
                  IF new = {} THEN m_idMissionSegmentCurrent[v]
                  ELSE segments[CHOOSE i \in new : TRUE].command]
      /\ nextMissionCommandToSend' =
             [nextMissionCommandToSend EXCEPT ![v] =
                  IF new = {} THEN nextMissionCommandToSend[v]
                  ELSE <<CommandFor(segments[CHOOSE i \in new : TRUE], n)>>]
    BY DEF GetCurrentSegment
<1>2. CASE new = {}
    <2>1. UNCHANGED <<m_idMissionSegmentCurrent, nextMissionCommandToSend>>
        <3> HIDE DEF new
        <3> QED BY <1>1, <1>2
    <2>2. \A i \in Chosen(segments, n) : segments[i].command = m_idMissionSegmentCurrent[v]
        BY <1>2
    <2> QED BY <2>1, <2>2 DEF Chooses, KeepsChoice
<1>3. CASE new # {}
    <2>1. PICK i \in Having(segments, n) : Chosen(segments, n) = {i}
        BY <1>3, ChosenIs
    <2>2. new = {i} /\ segments[i].command # m_idMissionSegmentCurrent[v]
        BY <1>3, <2>1
    <2>3. (CHOOSE j \in new : TRUE) = i
        BY <2>2
    <2> HIDE DEF new
    <2>4. /\ m_idMissionSegmentCurrent' = [m_idMissionSegmentCurrent EXCEPT ![v] = segments[i].command]
          /\ nextMissionCommandToSend' =
                 [nextMissionCommandToSend EXCEPT ![v] = <<CommandFor(segments[i], n)>>]
        BY <1>1, <1>3, <2>1, <2>2, <2>3
    <2>5. segments[i].command \in Nat /\ CommandFor(segments[i], n) \in CommandType
        OBVIOUS
    <2>6. /\ m_idMissionSegmentCurrent' \in [Vehicle -> Nat]
          /\ nextMissionCommandToSend' \in [Vehicle -> Seq(CommandType)]
        BY <2>4, <2>5
    <2>7. /\ m_idMissionSegmentCurrent'[v] = segments[i].command
          /\ nextMissionCommandToSend'[v] = <<CommandFor(segments[i], n)>>
        BY <2>4
    <2>8. Chooses(v, segments, n)
        BY <2>1, <2>2, <2>7 DEF Chooses
    <2>9. \A u \in Vehicle \ {v} : KeepsChoice(u)
        BY <2>4 DEF KeepsChoice
    <2> QED BY <2>6, <2>8, <2>9
<1> QED BY <1>2, <1>3

LEMMA MissionIs ==
    ASSUME mission \in MissionSettings
    PROVE  /\ mission.vehicles \subseteq Vehicle /\ mission.serve \in Nat /\ mission.overlap \in Nat
           /\ mission.plans \in Seq([Vehicle -> MissionPlan])
           /\ Len(mission.plans) \in Nat /\ DOMAIN mission.plans = 1 .. Len(mission.plans)
           /\ \A k \in 1 .. Len(mission.plans) : mission.plans[k] \in [Vehicle -> MissionPlan]
BY MissionAssumption

(* The cases in which other vehicles are not concerned.                    *)
LEMMA TurnToAll ==
    ASSUME ManagerTypeOK, NEW v \in Vehicle, NEW base, NEW w \in Waypoint, TurnTo(v, base, w)
    PROVE  /\ toManager' \in [Vehicle -> Seq(PlanMessage \cup Report)]
           /\ [type |-> "AirVehicleState", vehicle |-> v, waypoint |-> w.number] \in Report
           /\ \A u \in Vehicle :
                 Receives(u, [type |-> "AirVehicleState", vehicle |-> v, waypoint |-> w.number])
<1> DEFINE m == [type |-> "AirVehicleState", vehicle |-> v, waypoint |-> w.number]
<1>1. m \in Report
    <2>1. w.number \in Nat
        BY DEF Waypoint
    <2> QED BY <2>1 DEF Report
<1>2. toManager' = [u \in Vehicle |-> IF u \in mission.vehicles THEN Append(toManager[u], m)
                                      ELSE toManager[u]]
    BY DEF TurnTo, ToAllManagers
<1>3. \A u \in Vehicle : Append(toManager[u], m) \in Seq(PlanMessage \cup Report)
    <2> HIDE DEF m
    <2>1. toManager \in [Vehicle -> Seq(PlanMessage \cup Report)]
        BY DEF ManagerTypeOK
    <2>2. m \in PlanMessage \cup Report
        BY <1>1
    <2> QED BY <2>1, <2>2
<1> HIDE DEF m
<1>4. toManager' \in [Vehicle -> Seq(PlanMessage \cup Report)]
    BY <1>2, <1>3 DEF ManagerTypeOK
<1>5. \A u \in Vehicle : Receives(u, m)
    BY <1>2 DEF Receives
<1> QED BY <1>1, <1>4, <1>5 DEF m

LEMMA SegmentOf ==
    ASSUME NEW segments, NEW plan \in MissionPlan, NEW base, NEW k, AreSegments(segments, plan, base, k),
           NEW n \in Nat, NEW i \in Having(segments, n)
    PROVE  /\ i \in DOMAIN segments /\ IsSegment(segments[i], plan)
           /\ segments[i].base = base /\ segments[i].command = base + i
           /\ segments[i] \in SegmentType
           /\ CommandFor(segments[i], n) \in CommandType
<1>1. i \in DOMAIN segments /\ \E j \in DOMAIN segments[i].waypoints : segments[i].waypoints[j].number = n
    BY DEF Having
<1>2. /\ IsSegment(segments[i], plan) /\ segments[i].base = base /\ segments[i].command = base + i
    BY <1>1 DEF AreSegments
<1> QED BY <1>1, <1>2, CommandForIs DEF IsSegment

LEMMA PublishPlanIs ==
    ASSUME mission \in MissionSettings, ManagerTypeOK, PublishPlan
    PROVE  ManagerTypeOK' /\ \A v \in Vehicle : Publishes(v)
<1> DEFINE m == [type |-> "AutomationResponse", plans |-> mission.plans[published + 1]]
<1>1. published \in Nat /\ published + 1 \in 1 .. Len(mission.plans) /\ published < Len(mission.plans)
      /\ published' = published + 1
    BY MissionIs DEF ManagerTypeOK, PublishPlan
<1>2. m \in PlanMessage
    BY <1>1, MissionIs DEF PlanMessage
<1>3. toManager' = [u \in Vehicle |-> IF u \in mission.vehicles THEN Append(toManager[u], m)
                                      ELSE toManager[u]]
    BY DEF PublishPlan, ToAllManagers
<1>4. \A u \in Vehicle : Append(toManager[u], m) \in Seq(PlanMessage \cup Report)
    <2> HIDE DEF m
    <2>1. toManager \in [Vehicle -> Seq(PlanMessage \cup Report)]
        BY DEF ManagerTypeOK
    <2>2. m \in PlanMessage \cup Report
        BY <1>2
    <2> QED BY <2>1, <2>2
<1> HIDE DEF m
<1>5. toManager' \in [Vehicle -> Seq(PlanMessage \cup Report)]
    BY <1>3, <1>4 DEF ManagerTypeOK
<1>6. UNCHANGED <<mission, planManager, toVehicle, course, commands, assigned>>
    BY DEF PublishPlan
<1>7. ManagerTypeOK'
    <2>1. published' \in 0 .. Len(mission'.plans)
        BY <1>1, <1>6
    <2> QED BY <2>1, <1>5, <1>6 DEF ManagerTypeOK, planManager
<1>8. ASSUME NEW v \in Vehicle
      PROVE  Publishes(v)
    BY <1>1, <1>3, <1>6 DEF Publishes, Receives, m, KeepsPlan, KeepsChoice, KeepsCourse, KeepsOrders,
       planManager
<1> QED BY <1>7, <1>8

LEMMA ManageResponseIs ==
    ASSUME mission \in MissionSettings, Healthy(mission.serve, mission.overlap), ManagerTypeOK,
           NEW v \in Vehicle, ManageResponse(v)
    PROVE  ManagerTypeOK' /\ Takes(v) /\ \A u \in Vehicle \ {v} : Hears(u)
<1> DEFINE m == Head(toManager[v])
           plan == m.plans[v]
           cut == Segments(plan, mission.serve, mission.overlap, commandIDs[v])
<1>1. /\ toManager[v] # <<>> /\ m \in PlanMessage /\ plan \in MissionPlan
      /\ Tail(toManager[v]) \in Seq(PlanMessage \cup Report)
      /\ toManager' = [toManager EXCEPT ![v] = Tail(toManager[v])]
    <2>1. toManager[v] \in Seq(PlanMessage \cup Report) /\ toManager[v] # <<>>
        BY DEF ManageResponse, ManagerTypeOK
    <2>2. m \in PlanMessage \cup Report /\ Tail(toManager[v]) \in Seq(PlanMessage \cup Report)
        BY <2>1
    <2>3. m.type = "AutomationResponse"
        BY DEF ManageResponse
    <2>4. m \in PlanMessage
        BY <2>2, <2>3 DEF Report
    <2>5. plan \in MissionPlan
        BY <2>4 DEF PlanMessage
    <2> QED BY <2>1, <2>2, <2>4, <2>5 DEF ManageResponse
<1>2. ManagePlan(v, plan, mission.serve, mission.overlap)
      /\ assigned' = [assigned EXCEPT ![v] = [base |-> commandIDs[v], waypoints |-> plan]]
    BY DEF ManageResponse
<1>3. commandIDs[v] \in Nat /\ mission.serve \in Nat /\ mission.overlap \in Nat
    BY MissionIs DEF ManagerTypeOK
<1>4. IF plan = <<>> THEN cut.segments = <<>> /\ cut.last = commandIDs[v]
      ELSE /\ AreSegments(cut.segments, plan, commandIDs[v], Len(plan)) /\ ~cut.failed
           /\ cut.last = commandIDs[v] + Len(cut.segments) + 1
    <2> HIDE DEF plan
    <2> QED BY <1>1, <1>3, SegmentsWell
<1> HIDE DEF m, plan
<1>5. /\ m_missionSegments' = [m_missionSegments EXCEPT ![v] = cut.segments]
      /\ commandIDs' = [commandIDs EXCEPT ![v] = cut.last]
      /\ IF cut.failed \/ cut.segments = <<>>
         THEN UNCHANGED <<m_idMissionSegmentCurrent, nextMissionCommandToSend>>
         ELSE GetCurrentSegment(v, cut.segments, plan[1].number)
      /\ UNCHANGED sending
    BY <1>2 DEF ManagePlan
<1> HIDE DEF cut
<1>6. cut.segments \in Seq(SegmentType) /\ cut.last \in Nat
    <2>1. CASE plan = <<>>
        <3>1. <<>> \in Seq(SegmentType)
            OBVIOUS
        <3> QED BY <1>3, <1>4, <2>1, <3>1
    <2>2. CASE plan # <<>>
        <3>1. cut.segments \in Seq(SegmentType)
            BY <1>4, <2>2 DEF AreSegments
        <3> QED BY <1>3, <1>4, <2>2, <3>1
    <2> QED BY <2>1, <2>2
<1>7. UNCHANGED <<mission, toVehicle, published, course, commands, sending>>
    BY <1>5 DEF ManageResponse, environment
<1>8. /\ m_idMissionSegmentCurrent \in [Vehicle -> Nat]
      /\ nextMissionCommandToSend \in [Vehicle -> Seq(CommandType)]
    BY DEF ManagerTypeOK
<1>9. /\ m_idMissionSegmentCurrent' \in [Vehicle -> Nat]
      /\ nextMissionCommandToSend' \in [Vehicle -> Seq(CommandType)]
      /\ IF plan = <<>> THEN KeepsChoice(v) ELSE Chooses(v, cut.segments, plan[1].number)
      /\ \A u \in Vehicle \ {v} : KeepsChoice(u)
    <2>1. CASE plan = <<>>
        BY <1>4, <1>5, <1>8, <2>1 DEF KeepsChoice
    <2>2. CASE plan # <<>>
        <3>1. cut.segments # <<>> /\ ~cut.failed
            BY <1>4, <2>2 DEF AreSegments
        <3>2. PICK s : s = cut.segments
            OBVIOUS
        <3>3. PICK n : n = plan[1].number
            OBVIOUS
        <3>4. GetCurrentSegment(v, s, n) /\ s \in Seq(SegmentType)
            BY <1>5, <1>6, <3>1, <3>2, <3>3
        <3>5. n \in Nat /\ AreSegments(s, plan, commandIDs[v], Len(plan))
            BY <1>1, <1>4, <2>2, <3>2, <3>3, PlanIs
        <3>6. \A i \in Having(s, n) : s[i].command \in Nat /\ CommandFor(s[i], n) \in CommandType
            BY <1>1, <3>5, SegmentOf DEF SegmentType
        <3>7. /\ m_idMissionSegmentCurrent' \in [Vehicle -> Nat]
              /\ nextMissionCommandToSend' \in [Vehicle -> Seq(CommandType)]
              /\ Chooses(v, s, n)
              /\ \A u \in Vehicle \ {v} : KeepsChoice(u)
            BY <1>8, <3>4, <3>6, Gets
        <3> QED BY <2>2, <3>2, <3>3, <3>7
    <2> QED BY <2>1, <2>2
<1>10. /\ m_idMissionSegmentCurrent' \in [Vehicle -> Nat]
       /\ nextMissionCommandToSend' \in [Vehicle -> Seq(CommandType)]
    BY <1>9
<1>11. /\ m_missionSegments' \in [Vehicle -> Seq(SegmentType)] /\ commandIDs' \in [Vehicle -> Nat]
       /\ assigned' \in [Vehicle -> [base : Nat, waypoints : MissionPlan]]
       /\ toManager' \in [Vehicle -> Seq(PlanMessage \cup Report)]
    BY <1>1, <1>2, <1>3, <1>5, <1>6 DEF ManagerTypeOK
<1>12. ManagerTypeOK'
    BY <1>7, <1>10, <1>11 DEF ManagerTypeOK, CommandType, Order, PlanMessage, Report
<1>13. Takes(v)
    <2>1. /\ m_missionSegments'[v] = cut.segments /\ commandIDs'[v] = cut.last
          /\ assigned'[v] = [base |-> commandIDs[v], waypoints |-> plan]
          /\ toManager'[v] = Tail(toManager[v])
        BY <1>1, <1>2, <1>5 DEF ManagerTypeOK
    <2> QED BY <1>1, <1>7, <1>9, <2>1 DEF Takes, KeepsCourse, KeepsOrders, m, plan, cut
<1>14. ASSUME NEW u \in Vehicle \ {v}
       PROVE  Hears(u)
    <2>1. /\ toManager'[u] = toManager[u] /\ m_missionSegments'[u] = m_missionSegments[u]
          /\ commandIDs'[u] = commandIDs[u] /\ assigned'[u] = assigned[u]
        BY <1>1, <1>2, <1>5 DEF ManagerTypeOK
    <2> QED BY <1>7, <1>9, <2>1 DEF Hears, KeepsPlan, KeepsCourse, KeepsOrders
<1> QED BY <1>12, <1>13, <1>14

LEMMA ManageStateIs ==
    ASSUME mission \in MissionSettings, ManagerTypeOK, PlansCut, NEW v \in Vehicle, ManageState(v)
    PROVE  ManagerTypeOK' /\ Reads(v) /\ \A u \in Vehicle \ {v} : Hears(u)
<1> DEFINE m == Head(toManager[v])
<1>1. /\ toManager[v] # <<>> /\ m \in Report
      /\ Tail(toManager[v]) \in Seq(PlanMessage \cup Report)
      /\ toManager' = [toManager EXCEPT ![v] = Tail(toManager[v])]
      /\ toManager \in [Vehicle -> Seq(PlanMessage \cup Report)]
    <2>1. toManager[v] \in Seq(PlanMessage \cup Report) /\ toManager[v] # <<>>
          /\ toManager \in [Vehicle -> Seq(PlanMessage \cup Report)]
        BY DEF ManageState, ManagerTypeOK
    <2>2. m \in PlanMessage \cup Report /\ Tail(toManager[v]) \in Seq(PlanMessage \cup Report)
        BY <2>1
    <2>3. m.type = "AirVehicleState"
        BY DEF ManageState
    <2>4. m \in Report
        BY <2>2, <2>3 DEF PlanMessage
    <2> QED BY <2>1, <2>2, <2>4 DEF ManageState
<1>2. /\ IF m.vehicle = v THEN ManageVehicleState(v, m.waypoint) ELSE UNCHANGED planManager
      /\ UNCHANGED <<mission, toVehicle, published, course, commands, assigned>>
    BY DEF ManageState, environment
<1> HIDE DEF m
<1>3. UNCHANGED <<m_missionSegments, sending, commandIDs>>
    BY <1>2 DEF ManageVehicleState, planManager
<1>4. /\ m_idMissionSegmentCurrent \in [Vehicle -> Nat]
      /\ nextMissionCommandToSend \in [Vehicle -> Seq(CommandType)]
    BY DEF ManagerTypeOK
<1>5. /\ m_idMissionSegmentCurrent' \in [Vehicle -> Nat]
      /\ nextMissionCommandToSend' \in [Vehicle -> Seq(CommandType)]
      /\ IF m.vehicle = v THEN Chooses(v, m_missionSegments[v], m.waypoint) ELSE KeepsChoice(v)
      /\ \A u \in Vehicle \ {v} : KeepsChoice(u)
    <2>1. CASE m.vehicle # v
        BY <1>2, <1>4, <2>1 DEF KeepsChoice, planManager
    <2>2. CASE m.vehicle = v
        <3>1. PICK s : s = m_missionSegments[v]
            OBVIOUS
        <3>2. PICK n : n = m.waypoint
            OBVIOUS
        <3>3. s \in Seq(SegmentType) /\ n \in Nat
            BY <1>1, <3>1, <3>2 DEF ManagerTypeOK, Report
        <3>4. GetCurrentSegment(v, s, n)
            BY <1>2, <2>2, <3>1, <3>2 DEF ManageVehicleState
        <3>5. \A i \in Having(s, n) : s[i].command \in Nat /\ CommandFor(s[i], n) \in CommandType
            <4> DEFINE plan == assigned[v].waypoints
            <4>1. plan \in MissionPlan
                BY DEF ManagerTypeOK
            <4>2. CASE plan = <<>>
                <5>1. s = <<>>
                    BY <3>1, <4>2 DEF PlansCut
                <5> QED BY <5>1 DEF Having
            <4>3. CASE plan # <<>>
                <5>1. AreSegments(s, plan, assigned[v].base, Len(plan))
                    BY <3>1, <4>3 DEF PlansCut
                <5> HIDE DEF plan
                <5> QED BY <3>3, <4>1, <5>1, SegmentOf DEF SegmentType
            <4> QED BY <4>2, <4>3
        <3>6. /\ m_idMissionSegmentCurrent' \in [Vehicle -> Nat]
              /\ nextMissionCommandToSend' \in [Vehicle -> Seq(CommandType)]
              /\ Chooses(v, s, n)
              /\ \A u \in Vehicle \ {v} : KeepsChoice(u)
            BY <1>4, <3>3, <3>4, <3>5, Gets
        <3> QED BY <2>2, <3>1, <3>2, <3>6
    <2> QED BY <2>1, <2>2
<1>6. toManager' \in [Vehicle -> Seq(PlanMessage \cup Report)]
    BY <1>1
<1>7. ManagerTypeOK'
    BY <1>2, <1>3, <1>5, <1>6 DEF ManagerTypeOK
<1>8. Reads(v)
    BY <1>1, <1>2, <1>3, <1>5 DEF Reads, KeepsPlan, KeepsCourse, KeepsOrders, m
<1>9. ASSUME NEW u \in Vehicle \ {v}
      PROVE  Hears(u)
    <2>1. toManager'[u] = toManager[u]
        BY <1>1
    <2> QED BY <1>2, <1>3, <1>5, <2>1 DEF Hears, KeepsPlan, KeepsCourse, KeepsOrders
<1> QED BY <1>7, <1>8, <1>9

LEMMA SendNewMissionIs ==
    ASSUME ManagerTypeOK, NEW v \in Vehicle, SendNewMission(v)
    PROVE  ManagerTypeOK' /\ Sends(v) /\ \A u \in Vehicle \ {v} : Hears(u)
<1> DEFINE m == [type |-> "MissionCommand", vehicle |-> v, command |-> nextMissionCommandToSend[v][1]]
<1>1. /\ ~sending[v] /\ nextMissionCommandToSend[v] # <<>>
      /\ sending' = [sending EXCEPT ![v] = TRUE]
      /\ toVehicle' = [toVehicle EXCEPT ![v] = Append(toVehicle[v], m)]
      /\ UNCHANGED <<m_missionSegments, m_idMissionSegmentCurrent, nextMissionCommandToSend,
                     commandIDs>>
    BY DEF SendNewMission, BeginSendingNewMission
<1>2. UNCHANGED <<mission, toManager, published, course, commands, assigned>>
    BY DEF SendNewMission, environment
<1>3. m \in Order
    <2>1. nextMissionCommandToSend[v] \in Seq(CommandType)
        BY DEF ManagerTypeOK
    <2>2. nextMissionCommandToSend[v][1] \in CommandType
        BY <1>1, <2>1
    <2> QED BY <2>2 DEF Order
<1> HIDE DEF m
<1>4. sending \in [Vehicle -> BOOLEAN] /\ toVehicle \in [Vehicle -> Seq(Order)]
    BY DEF ManagerTypeOK
<1>5. sending' \in [Vehicle -> BOOLEAN] /\ toVehicle' \in [Vehicle -> Seq(Order)]
    BY <1>1, <1>3, <1>4
<1>6. ManagerTypeOK'
    BY <1>1, <1>2, <1>5 DEF ManagerTypeOK
<1>7. Sends(v)
    BY <1>1, <1>2, <1>4 DEF Sends, KeepsPlan, KeepsChoice, KeepsCourse, m
<1>8. ASSUME NEW u \in Vehicle \ {v}
      PROVE  Hears(u)
    <2>1. sending'[u] = sending[u] /\ toVehicle'[u] = toVehicle[u]
        BY <1>1, <1>4
    <2> QED BY <1>1, <1>2, <2>1 DEF Hears, KeepsPlan, KeepsChoice, KeepsCourse, KeepsOrders
<1> QED BY <1>6, <1>7, <1>8

LEMMA SentNewMissionIs ==
    ASSUME ManagerTypeOK, NEW v \in Vehicle, SentNewMission(v)
    PROVE  ManagerTypeOK' /\ HasSent(v) /\ \A u \in Vehicle \ {v} : Hears(u)
<1>1. /\ sending[v] /\ sending' = [sending EXCEPT ![v] = FALSE]
      /\ nextMissionCommandToSend' = [nextMissionCommandToSend EXCEPT ![v] = <<>>]
      /\ UNCHANGED <<m_missionSegments, m_idMissionSegmentCurrent, commandIDs>>
    BY DEF SentNewMission, EndSendingNewMission
<1>2. UNCHANGED <<mission, toManager, toVehicle, published, course, commands, assigned>>
    BY DEF SentNewMission, environment, inboxes
<1>3. sending \in [Vehicle -> BOOLEAN] /\ nextMissionCommandToSend \in [Vehicle -> Seq(CommandType)]
    BY DEF ManagerTypeOK
<1>4. sending' \in [Vehicle -> BOOLEAN] /\ nextMissionCommandToSend' \in [Vehicle -> Seq(CommandType)]
    <2>1. <<>> \in Seq(CommandType)
        OBVIOUS
    <2> QED BY <1>1, <1>3, <2>1
<1>5. ManagerTypeOK'
    BY <1>1, <1>2, <1>4 DEF ManagerTypeOK
<1>6. HasSent(v)
    BY <1>1, <1>2, <1>3 DEF HasSent, KeepsPlan, KeepsCourse
<1>7. ASSUME NEW u \in Vehicle \ {v}
      PROVE  Hears(u)
    <2>1. sending'[u] = sending[u] /\ nextMissionCommandToSend'[u] = nextMissionCommandToSend[u]
        BY <1>1, <1>3
    <2> QED BY <1>1, <1>2, <2>1 DEF Hears, KeepsPlan, KeepsChoice, KeepsCourse, KeepsOrders
<1> QED BY <1>5, <1>6, <1>7

(* A vehicle that turns to the waypoint its course is at.                  *)
CourseType ==
    {x \in [base : Nat, waypoints : Seq(Waypoint), at : Nat, again : BOOLEAN] :
        x.at \in DOMAIN x.waypoints \/ x = OnGround}
LEMMA TurnedIs ==
    ASSUME ManagerTypeOK, NEW v \in Vehicle, NEW base, NEW w \in Waypoint, TurnTo(v, base, w),
           NEW x \in [base : Nat, waypoints : Seq(Waypoint), at : Nat, again : BOOLEAN],
           x.at \in DOMAIN x.waypoints, x.waypoints[x.at] = w,
           course' = [course EXCEPT ![v] = x],
           UNCHANGED <<mission, planManager, published, assigned>>
    PROVE  /\ course' \in [Vehicle -> CourseType] /\ toManager' \in [Vehicle -> Seq(PlanMessage \cup Report)]
           /\ course'[v] = x /\ TurnsTo(v)
           /\ \A u \in Vehicle \ {v} :
                 /\ course'[u] = course[u]
                 /\ \/ toManager'[u] = toManager[u]
                    \/ \E m \in Report : m.vehicle # u /\ toManager'[u] = Append(toManager[u], m)
<1> DEFINE m == [type |-> "AirVehicleState", vehicle |-> v, waypoint |-> w.number]
<1>1. course \in [Vehicle -> CourseType]
    BY DEF ManagerTypeOK, CourseType
<1>2. x \in CourseType
    BY DEF CourseType
<1>3. course' \in [Vehicle -> CourseType] /\ course'[v] = x
      /\ \A u \in Vehicle \ {v} : course'[u] = course[u]
    BY <1>1, <1>2
<1>4. /\ toManager' \in [Vehicle -> Seq(PlanMessage \cup Report)]
      /\ m \in Report /\ m.vehicle = v
      /\ \A u \in Vehicle : Receives(u, m)
    BY TurnToAll
<1>5. TurnsTo(v)
    BY <1>3, <1>4 DEF TurnsTo, KeepsPlan, KeepsChoice, planManager
<1> HIDE DEF m
<1>6. \A u \in Vehicle \ {v} : toManager'[u] = toManager[u] \/ toManager'[u] = Append(toManager[u], m)
    BY <1>4 DEF Receives
<1> QED BY <1>3, <1>4, <1>5, <1>6

LEMMA AcceptCommandIs ==
    ASSUME ManagerTypeOK, NEW v \in Vehicle, AcceptCommand(v)
    PROVE  ManagerTypeOK' /\ Accepts(v) /\ \A u \in Vehicle \ {v} : Hears(u)
<1> DEFINE c == Head(toVehicle[v]).command
           at == CHOOSE i \in DOMAIN c.waypoints : c.waypoints[i].number = c.first
           x == [base |-> c.base, waypoints |-> c.waypoints, at |-> at, again |-> TRUE]
           o == [base |-> c.base, command |-> c.command]
<1>1. /\ toVehicle[v] # <<>>
      /\ course' = [course EXCEPT ![v] = x]
      /\ commands' = [commands EXCEPT ![v] = Append(commands[v], o)]
      /\ toVehicle' = [toVehicle EXCEPT ![v] = Tail(toVehicle[v])]
      /\ TurnTo(v, c.base, c.waypoints[at])
      /\ UNCHANGED <<mission, planManager, published, assigned>>
    BY DEF AcceptCommand
<1>2. toVehicle \in [Vehicle -> Seq(Order)] /\ commands \in [Vehicle -> Seq([base : Nat, command : Nat])]
    BY DEF ManagerTypeOK
<1>3. c \in CommandType /\ Tail(toVehicle[v]) \in Seq(Order)
    <2>1. toVehicle[v] \in Seq(Order) /\ toVehicle[v] # <<>>
        BY <1>1, <1>2
    <2>2. Head(toVehicle[v]) \in Order /\ Tail(toVehicle[v]) \in Seq(Order)
        <3> HIDE DEF c, at, x, o
        <3> QED BY <2>1
    <2> QED BY <2>2 DEF Order
<1> HIDE DEF c
<1>4. /\ c.base \in Nat /\ c.command \in Nat /\ c.waypoints \in Seq(Waypoint)
      /\ \E i \in DOMAIN c.waypoints : c.waypoints[i].number = c.first
    BY <1>3 DEF CommandType, SegmentType
<1>5. at \in DOMAIN c.waypoints /\ c.waypoints[at].number = c.first
    BY <1>4
<1> HIDE DEF at
<1>6. at \in Nat /\ c.waypoints[at] \in Waypoint
    BY <1>4, <1>5
<1>7. /\ x \in [base : Nat, waypoints : Seq(Waypoint), at : Nat, again : BOOLEAN]
      /\ x.base = c.base /\ x.waypoints = c.waypoints /\ x.at = at
      /\ o \in [base : Nat, command : Nat]
    BY <1>4, <1>6
<1>8. /\ toVehicle' \in [Vehicle -> Seq(Order)] /\ toVehicle'[v] = Tail(toVehicle[v])
      /\ \A u \in Vehicle \ {v} : toVehicle'[u] = toVehicle[u]
    BY <1>1, <1>2, <1>3
<1> HIDE DEF x, o
<1>9. /\ commands' \in [Vehicle -> Seq([base : Nat, command : Nat])]
      /\ commands'[v] = Append(commands[v], o)
      /\ \A u \in Vehicle \ {v} : commands'[u] = commands[u]
    BY <1>1, <1>2, <1>7
<1>10. /\ course' \in [Vehicle -> CourseType] /\ toManager' \in [Vehicle -> Seq(PlanMessage \cup Report)]
       /\ course'[v] = x /\ TurnsTo(v)
       /\ \A u \in Vehicle \ {v} :
             /\ course'[u] = course[u]
             /\ \/ toManager'[u] = toManager[u]
                \/ \E m \in Report : m.vehicle # u /\ toManager'[u] = Append(toManager[u], m)
    <2>1. PICK base : base = c.base
        OBVIOUS
    <2>2. PICK w \in Waypoint : w = c.waypoints[at]
        BY <1>6
    <2>3. PICK y : y = x
        OBVIOUS
    <2>4. TurnTo(v, base, w) /\ course' = [course EXCEPT ![v] = y]
        BY <1>1, <2>1, <2>2, <2>3
    <2>5. /\ y \in [base : Nat, waypoints : Seq(Waypoint), at : Nat, again : BOOLEAN]
          /\ y.at \in DOMAIN y.waypoints /\ y.waypoints[y.at] = w
        BY <1>5, <1>7, <2>2, <2>3
    <2>6. UNCHANGED <<mission, planManager, published, assigned>>
        BY <1>1
    <2>7. /\ course' \in [Vehicle -> CourseType] /\ toManager' \in [Vehicle -> Seq(PlanMessage \cup Report)]
          /\ course'[v] = y /\ TurnsTo(v)
          /\ \A u \in Vehicle \ {v} :
                /\ course'[u] = course[u]
                /\ \/ toManager'[u] = toManager[u]
                   \/ \E m \in Report : m.vehicle # u /\ toManager'[u] = Append(toManager[u], m)
        BY <2>4, <2>5, <2>6, TurnedIs
    <2> QED BY <2>3, <2>7
<1>11. ManagerTypeOK'
    BY <1>1, <1>8, <1>9, <1>10 DEF ManagerTypeOK, planManager, CourseType
<1>12. Accepts(v)
    BY <1>1, <1>5, <1>7, <1>8, <1>9, <1>10 DEF Accepts, c, o
<1>13. ASSUME NEW u \in Vehicle \ {v}
       PROVE  Hears(u)
    BY <1>1, <1>8, <1>9, <1>10 DEF Hears, KeepsPlan, KeepsChoice, KeepsCourse, KeepsOrders, planManager
<1> QED BY <1>11, <1>12, <1>13

LEMMA OnwardIs ==
    ASSUME ManagerTypeOK, NEW v \in Vehicle, Fly(v) \/ ReportAgain(v)
    PROVE  ManagerTypeOK' /\ Flies(v) /\ \A u \in Vehicle \ {v} : Hears(u)
<1>1. /\ course \in [Vehicle -> CourseType]
      /\ course[v] \in [base : Nat, waypoints : Seq(Waypoint), at : Nat, again : BOOLEAN]
      /\ course[v].at \in DOMAIN course[v].waypoints \/ course[v] = OnGround
    BY DEF ManagerTypeOK, CourseType
<1>2. course[v] # OnGround
    <2> SUFFICES ASSUME course[v] = OnGround PROVE FALSE
        OBVIOUS
    <2>1. Len(course[v].waypoints) = 0 /\ course[v].at = 0 /\ ~course[v].again
        BY DEF OnGround
    <2> QED BY <2>1 DEF Fly, ReportAgain
<1>3. /\ course[v].base \in Nat /\ course[v].waypoints \in Seq(Waypoint) /\ course[v].at \in Nat
      /\ course[v].at \in 1 .. Len(course[v].waypoints)
    BY <1>1, <1>2
<1>4. PICK x \in [base : Nat, waypoints : Seq(Waypoint), at : Nat, again : BOOLEAN] :
          /\ x.base = course[v].base /\ x.waypoints = course[v].waypoints
          /\ x.at \in {course[v].at, course[v].at + 1} /\ x.at \in 1 .. Len(course[v].waypoints)
          /\ course' = [course EXCEPT ![v] = x]
          /\ TurnTo(v, course[v].base, course[v].waypoints[x.at])
    <2>1. CASE Fly(v)
        <3> DEFINE x == [course[v] EXCEPT !.at = course[v].at + 1, !.again = TRUE]
        <3>1. /\ x \in [base : Nat, waypoints : Seq(Waypoint), at : Nat, again : BOOLEAN]
              /\ x.base = course[v].base /\ x.waypoints = course[v].waypoints
              /\ x.at = course[v].at + 1
            <4>1. PICK k \in Nat : k = course[v].at + 1
                BY <1>3
            <4>2. /\ x \in [base : Nat, waypoints : Seq(Waypoint), at : Nat, again : BOOLEAN]
                  /\ x.base = course[v].base /\ x.waypoints = course[v].waypoints /\ x.at = k
                BY <1>1, <4>1
            <4> QED BY <4>1, <4>2
        <3>2. /\ course[v].at < Len(course[v].waypoints)
              /\ course' = [course EXCEPT ![v].at = course[v].at + 1, ![v].again = TRUE]
              /\ TurnTo(v, course[v].base, course[v].waypoints[course[v].at + 1])
            BY <2>1 DEF Fly
        <3>3. course' = [course EXCEPT ![v] = x]
            BY <1>1, <3>2
        <3> HIDE DEF x
        <3>4. TurnTo(v, course[v].base, course[v].waypoints[x.at])
            BY <3>1, <3>2
        <3>5. x.at \in 1 .. Len(course[v].waypoints)
            BY <1>3, <3>1, <3>2
        <3> QED BY <3>1, <3>3, <3>4, <3>5
    <2>2. CASE ReportAgain(v)
        <3> DEFINE x == [course[v] EXCEPT !.again = FALSE]
        <3>1. /\ x \in [base : Nat, waypoints : Seq(Waypoint), at : Nat, again : BOOLEAN]
              /\ x.base = course[v].base /\ x.waypoints = course[v].waypoints
              /\ x.at = course[v].at
            BY <1>1, <1>3
        <3>2. /\ course' = [course EXCEPT ![v].again = FALSE]
              /\ TurnTo(v, course[v].base, course[v].waypoints[course[v].at])
            BY <2>2 DEF ReportAgain
        <3>3. course' = [course EXCEPT ![v] = x]
            BY <1>1, <3>2
        <3> HIDE DEF x
        <3>4. TurnTo(v, course[v].base, course[v].waypoints[x.at])
            BY <3>1, <3>2
        <3> QED BY <1>3, <3>1, <3>3, <3>4
    <2> QED BY <2>1, <2>2
<1>5. UNCHANGED <<mission, planManager, toVehicle, published, commands, assigned>>
    BY DEF Fly, ReportAgain
<1>6. course[v].waypoints[x.at] \in Waypoint
    BY <1>3, <1>4
<1>7. /\ course' \in [Vehicle -> CourseType] /\ toManager' \in [Vehicle -> Seq(PlanMessage \cup Report)]
      /\ course'[v] = x /\ TurnsTo(v)
      /\ \A u \in Vehicle \ {v} :
            /\ course'[u] = course[u]
            /\ \/ toManager'[u] = toManager[u]
               \/ \E m \in Report : m.vehicle # u /\ toManager'[u] = Append(toManager[u], m)
    <2>1. PICK base : base = course[v].base
        OBVIOUS
    <2>2. PICK w \in Waypoint : w = course[v].waypoints[x.at]
        BY <1>6
    <2>3. PICK y : y = x
        OBVIOUS
    <2>4. TurnTo(v, base, w) /\ course' = [course EXCEPT ![v] = y]
        BY <1>4, <2>1, <2>2, <2>3
    <2>5. /\ y \in [base : Nat, waypoints : Seq(Waypoint), at : Nat, again : BOOLEAN]
          /\ y.at \in DOMAIN y.waypoints /\ y.waypoints[y.at] = w
        BY <1>3, <1>4, <2>2, <2>3
    <2>6. UNCHANGED <<mission, planManager, published, assigned>>
        BY <1>5
    <2>7. /\ course' \in [Vehicle -> CourseType] /\ toManager' \in [Vehicle -> Seq(PlanMessage \cup Report)]
          /\ course'[v] = y /\ TurnsTo(v)
          /\ \A u \in Vehicle \ {v} :
                /\ course'[u] = course[u]
                /\ \/ toManager'[u] = toManager[u]
                   \/ \E m \in Report : m.vehicle # u /\ toManager'[u] = Append(toManager[u], m)
        BY <2>4, <2>5, <2>6, TurnedIs
    <2> QED BY <2>3, <2>7
<1>8. ManagerTypeOK'
    BY <1>5, <1>7 DEF ManagerTypeOK, planManager, CourseType
<1>9. Flies(v)
    BY <1>2, <1>4, <1>5, <1>7 DEF Flies
<1>10. ASSUME NEW u \in Vehicle \ {v}
       PROVE  Hears(u)
    BY <1>5, <1>7 DEF Hears, KeepsPlan, KeepsChoice, KeepsCourse, KeepsOrders, planManager
<1> QED BY <1>8, <1>9, <1>10

-----------------------------------------------------------------------------
(* Every step is such a step for every vehicle.                            *)
LEMMA StepIs ==
    ASSUME mission \in MissionSettings, Healthy(mission.serve, mission.overlap), ManagerTypeOK, PlansCut,
           [MissionNext]_missionVars
    PROVE  mission' = mission /\ ManagerTypeOK' /\ \A v \in Vehicle : StepOf(v)
<1>1. CASE PublishPlan
    <2>1. mission' = mission
        BY <1>1 DEF PublishPlan
    <2> QED BY <1>1, <2>1, PublishPlanIs DEF StepOf
<1>2. ASSUME NEW v \in Vehicle, ManageResponse(v)
      PROVE  mission' = mission /\ ManagerTypeOK' /\ \A u \in Vehicle : StepOf(u)
    <2>1. mission' = mission
        BY <1>2 DEF ManageResponse
    <2> QED BY <1>2, <2>1, ManageResponseIs DEF StepOf
<1>3. ASSUME NEW v \in Vehicle, ManageState(v)
      PROVE  mission' = mission /\ ManagerTypeOK' /\ \A u \in Vehicle : StepOf(u)
    <2>1. mission' = mission
        BY <1>3 DEF ManageState
    <2> QED BY <1>3, <2>1, ManageStateIs DEF StepOf
<1>4. ASSUME NEW v \in Vehicle, SendNewMission(v)
      PROVE  mission' = mission /\ ManagerTypeOK' /\ \A u \in Vehicle : StepOf(u)
    <2>1. mission' = mission
        BY <1>4 DEF SendNewMission
    <2> QED BY <1>4, <2>1, SendNewMissionIs DEF StepOf
<1>5. ASSUME NEW v \in Vehicle, SentNewMission(v)
      PROVE  mission' = mission /\ ManagerTypeOK' /\ \A u \in Vehicle : StepOf(u)
    <2>1. mission' = mission
        BY <1>5 DEF SentNewMission
    <2> QED BY <1>5, <2>1, SentNewMissionIs DEF StepOf
<1>6. ASSUME NEW v \in Vehicle, AcceptCommand(v)
      PROVE  mission' = mission /\ ManagerTypeOK' /\ \A u \in Vehicle : StepOf(u)
    <2>1. mission' = mission
        BY <1>6 DEF AcceptCommand
    <2> QED BY <1>6, <2>1, AcceptCommandIs DEF StepOf
<1>7. ASSUME NEW v \in Vehicle, Fly(v) \/ ReportAgain(v)
      PROVE  mission' = mission /\ ManagerTypeOK' /\ \A u \in Vehicle : StepOf(u)
    <2>1. mission' = mission
        BY <1>7 DEF Fly, ReportAgain
    <2> QED BY <1>7, <2>1, OnwardIs DEF StepOf
<1>8. CASE TrackResponse \/ TrackCommand \/ TrackState \/ UNCHANGED missionVars
    <2>1. UNCHANGED <<mission, planManager, toManager, toVehicle, environment, assigned>>
        BY <1>8 DEF TrackResponse, TrackCommand, TrackState, missionVars, inboxes
    <2>2. UNCHANGED <<published, course, commands, m_missionSegments, m_idMissionSegmentCurrent,
                      nextMissionCommandToSend, sending, commandIDs>>
        BY <2>1 DEF environment, planManager
    <2>3. ManagerTypeOK'
        BY <2>1, <2>2 DEF ManagerTypeOK
    <2>4. \A v \in Vehicle : StepOf(v)
        BY <2>1, <2>2 DEF StepOf, Hears, KeepsPlan, KeepsChoice, KeepsCourse, KeepsOrders
    <2> QED BY <2>1, <2>3, <2>4
<1> QED BY <1>1, <1>2, <1>3, <1>4, <1>5, <1>6, <1>7, <1>8 DEF MissionNext, MissionWork

(* The plan of a vehicle is replaced by the next one, or kept.             *)
LEMMA PlansStayCut ==
    ASSUME mission \in MissionSettings, Healthy(mission.serve, mission.overlap), ManagerTypeOK, PlansCut,
           \A v \in Vehicle : StepOf(v)
    PROVE  PlansCut'
<1> SUFFICES ASSUME NEW v \in Vehicle
             PROVE  IF assigned'[v].waypoints = <<>> THEN m_missionSegments'[v] = <<>>
                    ELSE AreSegments(m_missionSegments'[v], assigned'[v].waypoints, assigned'[v].base,
                                     Len(assigned'[v].waypoints))
    BY DEF PlansCut
<1>1. CASE Takes(v)
    <2>1. PICK plan : plan = Head(toManager[v]).plans[v]
        OBVIOUS
    <2> DEFINE cut == Segments(plan, mission.serve, mission.overlap, commandIDs[v])
    <2>3. m_missionSegments'[v] = cut.segments /\ assigned'[v] = [base |-> commandIDs[v], waypoints |-> plan]
          /\ Head(toManager[v]) \in PlanMessage
        BY <1>1, <2>1 DEF Takes
    <2>4. plan \in MissionPlan
        BY <2>1, <2>3 DEF PlanMessage
    <2>5. commandIDs[v] \in Nat /\ mission.serve \in Nat /\ mission.overlap \in Nat
        BY MissionIs DEF ManagerTypeOK
    <2>6. IF plan = <<>> THEN cut.segments = <<>> /\ cut.last = commandIDs[v]
          ELSE /\ AreSegments(cut.segments, plan, commandIDs[v], Len(plan)) /\ ~cut.failed
               /\ cut.last = commandIDs[v] + Len(cut.segments) + 1
        BY <2>4, <2>5, SegmentsWell
    <2> HIDE DEF cut
    <2>7. assigned'[v].base = commandIDs[v] /\ assigned'[v].waypoints = plan
        BY <2>3
    <2> QED BY <2>3, <2>6, <2>7
<1>2. CASE KeepsPlan(v)
    BY <1>2 DEF KeepsPlan, PlansCut
<1>3. KeepsPlan(v) \/ Takes(v)
    BY DEF StepOf, Publishes, Hears, Reads, Sends, HasSent, Accepts, Flies, TurnsTo
<1> QED BY <1>1, <1>2, <1>3

LEMMA MissionInitIs == MissionInit => CutInv
<1> SUFFICES ASSUME MissionInit PROVE CutInv
    OBVIOUS
<1>1. /\ mission \in MissionSettings /\ published = 0
      /\ toManager = [v \in Vehicle |-> <<>>] /\ toVehicle = [v \in Vehicle |-> <<>>]
      /\ course = [v \in Vehicle |-> OnGround] /\ assigned = [v \in Vehicle |-> NoPlan]
      /\ commands = [v \in Vehicle |-> <<>>]
    BY DEF MissionInit
<1>2. /\ m_missionSegments = [v \in Vehicle |-> <<>>]
      /\ m_idMissionSegmentCurrent = [v \in Vehicle |-> 0]
      /\ nextMissionCommandToSend = [v \in Vehicle |-> <<>>]
      /\ sending = [v \in Vehicle |-> FALSE] /\ commandIDs = [v \in Vehicle |-> 0]
    BY DEF MissionInit, ManagerInit
<1>3. published \in 0 .. Len(mission.plans)
    BY <1>1, MissionIs
<1>4. /\ <<>> \in Seq(PlanMessage \cup Report) /\ <<>> \in Seq(Order) /\ <<>> \in Seq(SegmentType)
      /\ <<>> \in Seq(CommandType) /\ <<>> \in Seq([base : Nat, command : Nat]) /\ <<>> \in Seq(Waypoint)
    OBVIOUS
<1>5. OnGround \in CourseType
    BY <1>4 DEF CourseType, OnGround
<1>6. NoPlan \in [base : Nat, waypoints : MissionPlan] /\ NoPlan.waypoints = <<>>
    BY <1>4 DEF NoPlan, MissionPlan
<1>7. /\ toManager \in [Vehicle -> Seq(PlanMessage \cup Report)] /\ toVehicle \in [Vehicle -> Seq(Order)]
      /\ course \in [Vehicle -> CourseType] /\ assigned \in [Vehicle -> [base : Nat, waypoints : MissionPlan]]
      /\ commands \in [Vehicle -> Seq([base : Nat, command : Nat])]
    BY <1>1, <1>4, <1>5, <1>6
<1>8. /\ m_missionSegments \in [Vehicle -> Seq(SegmentType)]
      /\ m_idMissionSegmentCurrent \in [Vehicle -> Nat] /\ commandIDs \in [Vehicle -> Nat]
      /\ nextMissionCommandToSend \in [Vehicle -> Seq(CommandType)] /\ sending \in [Vehicle -> BOOLEAN]
    BY <1>2, <1>4
<1>9. ManagerTypeOK
    BY <1>3, <1>7, <1>8 DEF ManagerTypeOK, CourseType
<1>10. PlansCut
    BY <1>1, <1>2, <1>6 DEF PlansCut
<1> QED BY <1>1, <1>9, <1>10 DEF CutInv

LEMMA CutInvNext == CutInv /\ [MissionNext]_missionVars => CutInv'
<1> SUFFICES ASSUME CutInv, [MissionNext]_missionVars PROVE CutInv'
    OBVIOUS
<1>1. mission' = mission
    BY DEF MissionNext, MissionWork, PublishPlan, ManageResponse, ManageState, SendNewMission,
       SentNewMission, AcceptCommand, Fly, ReportAgain, TrackResponse, TrackCommand, TrackState,
       missionVars
<1>2. CASE Healthy(mission.serve, mission.overlap)
    <2>1. mission \in MissionSettings /\ ManagerTypeOK /\ PlansCut
        BY <1>2 DEF CutInv
    <2>2. ManagerTypeOK' /\ \A v \in Vehicle : StepOf(v)
        BY <1>2, <2>1, StepIs
    <2>3. PlansCut'
        BY <1>2, <2>1, <2>2, PlansStayCut
    <2> QED BY <1>1, <2>1, <2>2, <2>3 DEF CutInv
<1>3. CASE ~Healthy(mission.serve, mission.overlap)
    BY <1>1, <1>3 DEF CutInv, Healthy
<1> QED BY <1>2, <1>3

(***************************************************************************)
(* The segments a manager flies a plan in give the plan in its order, none *)
(* of it is left out, and each begins before the one before it ends        *)
(* (InitializePlan of WaypointPlanManagerService.cpp), for any plan, and   *)
(* any number of waypoints to serve and to overlap that leaves room.       *)
(***************************************************************************)
THEOREM Covered == MissionSpec => []SegmentsCoverPlan
<1>1. ASSUME CutInv
      PROVE  SegmentsCoverPlan
    <2> SUFFICES ASSUME NEW v \in Vehicle, Healthy(mission.serve, mission.overlap),
                        assigned[v].waypoints # <<>>
                 PROVE  LET s == m_missionSegments[v]
                            plan == assigned[v].waypoints
                            begins(i) == CHOOSE k \in DOMAIN plan : plan[k] = s[i].waypoints[1]
                        IN  /\ s # <<>>
                            /\ begins(1) = 1
                            /\ Last(s[Len(s)].waypoints) = Last(plan)
                            /\ \A i \in DOMAIN s :
                                   s[i].waypoints =
                                       SubSeq(plan, begins(i), begins(i) + Len(s[i].waypoints) - 1)
                            /\ \A i \in 1 .. Len(s) - 1 :
                                   begins(i) < begins(i + 1)
                                   /\ begins(i + 1) < begins(i) + Len(s[i].waypoints) - 1
        BY DEF SegmentsCoverPlan
    <2>1. PICK s : s = m_missionSegments[v]
        OBVIOUS
    <2>2. PICK plan : plan = assigned[v].waypoints
        OBVIOUS
    <2>3. plan \in MissionPlan /\ AreSegments(s, plan, assigned[v].base, Len(plan))
        BY <1>1, <2>1, <2>2 DEF CutInv, ManagerTypeOK, PlansCut
    <2>4. /\ s \in Seq(SegmentType) /\ s # <<>> /\ Begin(s[1], plan) = 1
          /\ End(s[Len(s)], plan) = Len(plan)
          /\ \A i \in DOMAIN s : IsSegment(s[i], plan)
          /\ \A i \in 1 .. Len(s) - 1 : i \in DOMAIN s /\ i + 1 \in DOMAIN s
          /\ Len(s) \in DOMAIN s
        BY <2>3 DEF AreSegments
    <2>5. \A i \in 1 .. Len(s) - 1 :
              Begin(s[i], plan) < Begin(s[i + 1], plan) /\ Begin(s[i + 1], plan) < End(s[i], plan)
        <3> SUFFICES ASSUME NEW i \in 1 .. Len(s) - 1
                     PROVE  Begin(s[i], plan) < Begin(s[i + 1], plan)
                            /\ Begin(s[i + 1], plan) < End(s[i], plan)
            OBVIOUS
        <3>1. PICK j : j = i + 1
            OBVIOUS
        <3>2. i \in DOMAIN s /\ j \in DOMAIN s /\ i < j
            BY <2>4, <3>1
        <3> QED BY <2>3, <3>1, <3>2 DEF AreSegments
    <2>6. Last(s[Len(s)].waypoints) = Last(plan)
        <3>1. PICK t : t = s[Len(s)]
            OBVIOUS
        <3>2. IsSegment(t, plan) /\ End(t, plan) = Len(plan) /\ t \in SegmentType
            BY <2>4, <3>1
        <3>3. /\ t.waypoints # <<>> /\ Begin(t, plan) \in DOMAIN plan
              /\ Len(t.waypoints) = End(t, plan) - Begin(t, plan) + 1
              /\ Begin(t, plan) <= End(t, plan) /\ Len(plan) \in DOMAIN plan
              /\ \A i \in DOMAIN t.waypoints : t.waypoints[i] = plan[Begin(t, plan) + i - 1]
            BY <2>3, <3>2, SegmentHas
        <3>4. /\ DOMAIN plan = 1 .. Len(plan) /\ Len(plan) \in Nat /\ t.waypoints \in Seq(Waypoint)
            BY <2>3, <3>2, PlanIs DEF SegmentType
        <3>5. PICK n \in Nat : n = Len(t.waypoints)
            BY <3>4
        <3>6. n \in DOMAIN t.waypoints /\ Begin(t, plan) + n - 1 = Len(plan)
            BY <3>2, <3>3, <3>4, <3>5
        <3>7. t.waypoints[n] = plan[Len(plan)]
            BY <3>3, <3>6
        <3> QED BY <3>1, <3>5, <3>7 DEF Last
    <2>7. \A i \in DOMAIN s :
              /\ s[i].waypoints = SubSeq(plan, Begin(s[i], plan), End(s[i], plan))
              /\ End(s[i], plan) = Begin(s[i], plan) + Len(s[i].waypoints) - 1
        BY <2>4 DEF IsSegment, End
    <2>8. \A i \in 1 .. Len(s) - 1 : i \in DOMAIN s
        BY <2>4
    <2>9. /\ \A i \in DOMAIN s :
                 s[i].waypoints = SubSeq(plan, Begin(s[i], plan), Begin(s[i], plan) + Len(s[i].waypoints) - 1)
          /\ \A i \in 1 .. Len(s) - 1 :
                 /\ Begin(s[i], plan) < Begin(s[i + 1], plan)
                 /\ Begin(s[i + 1], plan) < Begin(s[i], plan) + Len(s[i].waypoints) - 1
        BY <2>5, <2>7, <2>8
    <2>10. s # <<>> /\ Begin(s[1], plan) = 1
        BY <2>4
    <2> QED BY <2>1, <2>2, <2>6, <2>9, <2>10 DEF Begin
<1> QED BY <1>1, MissionInitIs, CutInvNext, PTL DEF MissionSpec

-----------------------------------------------------------------------------
(***************************************************************************)
(* The segment that is chosen for a waypoint of a plan: the last one that  *)
(* begins before it, or the first for the waypoint the plan begins with.   *)
(***************************************************************************)
ChosenFor(segments, plan, k, i) ==
    /\ i \in Having(segments, plan[k].number) /\ Chosen(segments, plan[k].number) = {i}
    /\ i \in DOMAIN segments /\ Begin(segments[i], plan) <= k /\ k <= End(segments[i], plan)
    /\ k = 1 => i = 1
    /\ k > 1 => Begin(segments[i], plan) < k
    /\ \A j \in DOMAIN segments : Begin(segments[j], plan) < k => j <= i

(* The places of segments, and the segments that have a waypoint.          *)
LEMMA Places ==
    ASSUME NEW plan \in MissionPlan, NEW segments, NEW base, AreSegments(segments, plan, base, Len(plan))
    PROVE  /\ segments \in Seq(SegmentType) /\ Len(segments) \in Nat /\ Len(segments) >= 1
           /\ DOMAIN segments = 1 .. Len(segments)
           /\ \A i \in DOMAIN segments :
                 /\ IsSegment(segments[i], plan)
                 /\ Begin(segments[i], plan) \in 1 .. Len(plan) /\ End(segments[i], plan) \in 1 .. Len(plan)
                 /\ Begin(segments[i], plan) <= End(segments[i], plan)
           /\ Begin(segments[1], plan) = 1 /\ End(segments[Len(segments)], plan) = Len(plan)
           /\ \A i, j \in DOMAIN segments : i < j =>
                 /\ Begin(segments[i], plan) < Begin(segments[j], plan)
                 /\ End(segments[i], plan) < End(segments[j], plan)
                 /\ IF j = i + 1 THEN Begin(segments[j], plan) < End(segments[i], plan)
                                 ELSE End(segments[i], plan) < Begin(segments[j], plan)
<1>1. /\ segments \in Seq(SegmentType) /\ segments # <<>>
      /\ Begin(segments[1], plan) = 1 /\ End(segments[Len(segments)], plan) = Len(plan)
      /\ \A i \in DOMAIN segments : IsSegment(segments[i], plan)
    BY DEF AreSegments
<1>2. \A i, j \in DOMAIN segments : i < j =>
          /\ Begin(segments[i], plan) < Begin(segments[j], plan)
          /\ End(segments[i], plan) < End(segments[j], plan)
          /\ IF j = i + 1 THEN Begin(segments[j], plan) < End(segments[i], plan)
                          ELSE End(segments[i], plan) < Begin(segments[j], plan)
    BY DEF AreSegments
<1>3. Len(segments) \in Nat /\ Len(segments) >= 1 /\ DOMAIN segments = 1 .. Len(segments)
    BY <1>1
<1>4. DOMAIN plan = 1 .. Len(plan)
    BY PlanIs
<1>5. \A i \in DOMAIN segments :
          /\ Begin(segments[i], plan) \in 1 .. Len(plan) /\ End(segments[i], plan) \in 1 .. Len(plan)
          /\ Begin(segments[i], plan) <= End(segments[i], plan)
    BY <1>1, <1>4, SegmentHas
<1> QED BY <1>1, <1>2, <1>3, <1>5

LEMMA HavingIs ==
    ASSUME NEW plan \in MissionPlan, NEW segments, NEW base, AreSegments(segments, plan, base, Len(plan)),
           NEW k \in DOMAIN plan, NEW i \in DOMAIN segments
    PROVE  /\ i \in Having(segments, plan[k].number) <=>
                  Begin(segments[i], plan) <= k /\ k <= End(segments[i], plan)
           /\ segments[i].waypoints[1].number = plan[k].number <=> Begin(segments[i], plan) = k
<1>1. /\ IsSegment(segments[i], plan) /\ DOMAIN plan = 1 .. Len(plan) /\ Len(plan) \in Nat
      /\ \A a, b \in DOMAIN plan : plan[a].number = plan[b].number => a = b
    BY Places, PlanIs
<1>2. PICK s : s = segments[i]
    OBVIOUS
<1>3. PICK b \in Nat : b = Begin(s, plan)
    BY <1>1, <1>2, SegmentHas
<1>4. PICK e \in Nat : e = End(s, plan)
    BY <1>1, <1>2, SegmentHas
<1>5. /\ b \in DOMAIN plan /\ e \in DOMAIN plan /\ b <= e /\ Len(s.waypoints) = e - b + 1
      /\ \A j \in DOMAIN s.waypoints : s.waypoints[j] = plan[b + j - 1]
    BY <1>1, <1>2, <1>3, <1>4, SegmentHas
<1>6. DOMAIN s.waypoints = 1 .. e - b + 1
    BY <1>1, <1>2, <1>5 DEF IsSegment, SegmentType
<1>7. (\E j \in DOMAIN s.waypoints : s.waypoints[j].number = plan[k].number) <=> b <= k /\ k <= e
    <2>1. ASSUME NEW j \in DOMAIN s.waypoints, s.waypoints[j].number = plan[k].number
          PROVE  b <= k /\ k <= e
        <3>1. b + j - 1 \in DOMAIN plan
            BY <1>1, <1>5, <1>6
        <3>2. b + j - 1 = k
            BY <1>1, <1>5, <2>1, <3>1
        <3> QED BY <1>6, <3>2
    <2>2. ASSUME b <= k, k <= e
          PROVE  \E j \in DOMAIN s.waypoints : s.waypoints[j].number = plan[k].number
        <3>1. k - b + 1 \in DOMAIN s.waypoints /\ b + (k - b + 1) - 1 = k
            BY <1>1, <1>6, <2>2
        <3>2. s.waypoints[k - b + 1] = plan[b + (k - b + 1) - 1]
            BY <1>5, <3>1
        <3> QED BY <3>1, <3>2
    <2> QED BY <2>1, <2>2
<1>8. s.waypoints[1].number = plan[k].number <=> b = k
    <2>1. 1 \in DOMAIN s.waypoints /\ b + 1 - 1 = b
        BY <1>5, <1>6
    <2>2. s.waypoints[1] = plan[b]
        BY <1>5, <2>1
    <2> QED BY <1>1, <1>5, <2>2
<1>9. i \in Having(segments, plan[k].number) <=> \E j \in DOMAIN s.waypoints : s.waypoints[j].number = plan[k].number
    BY <1>2 DEF Having
<1> QED BY <1>2, <1>3, <1>4, <1>7, <1>8, <1>9

LEMMA OneChosen ==
    ASSUME NEW plan \in MissionPlan, NEW segments, NEW base, AreSegments(segments, plan, base, Len(plan)),
           NEW k \in DOMAIN plan
    PROVE  \E i \in DOMAIN segments : ChosenFor(segments, plan, k, i)
<1> DEFINE B(i) == Begin(segments[i], plan)
           E(i) == End(segments[i], plan)
           n == plan[k].number
<1>1. /\ segments \in Seq(SegmentType) /\ Len(segments) \in Nat /\ Len(segments) >= 1
      /\ DOMAIN segments = 1 .. Len(segments) /\ DOMAIN plan = 1 .. Len(plan) /\ Len(plan) \in Nat
      /\ \A i \in DOMAIN segments : B(i) \in Nat /\ E(i) \in Nat /\ 1 <= B(i) /\ B(i) <= E(i)
      /\ B(1) = 1 /\ E(Len(segments)) = Len(plan)
      /\ \A i, j \in DOMAIN segments : i < j =>
            B(i) < B(j) /\ E(i) < E(j) /\ (j = i + 1 => B(j) < E(i)) /\ (j # i + 1 => E(i) < B(j))
    BY Places, PlanIs
<1>2. \A i \in DOMAIN segments : i \in Having(segments, n) <=> B(i) <= k /\ k <= E(i)
    BY HavingIs
<1>3. \A i \in DOMAIN segments : segments[i].waypoints[1].number = n <=> B(i) = k
    BY HavingIs
<1>4. \A i \in Having(segments, n) : i \in DOMAIN segments
    BY DEF Having
<1> HIDE DEF B, E
<1>5. PICK a \in DOMAIN segments : k <= E(a) /\ \A j \in DOMAIN segments : k <= E(j) => a <= j
    <2> DEFINE T == {i \in DOMAIN segments : k <= E(i)}
    <2>1. T \subseteq Nat /\ Len(segments) \in T
        BY <1>1
    <2> HIDE DEF T
    <2>2. PICK a \in T : \A j \in T : a <= j
        BY <2>1, Least
    <2> QED BY <2>2 DEF T
<1>6. B(a) <= k /\ (k > 1 => B(a) < k)
    <2>1. CASE a = 1
        BY <1>1, <2>1
    <2>2. CASE a # 1
        <3>1. PICK c \in DOMAIN segments : c < a /\ a = c + 1
            <4>1. a - 1 \in DOMAIN segments /\ a - 1 < a /\ a = (a - 1) + 1
                BY <1>1, <2>2
            <4> QED BY <4>1
        <3>2. B(a) < E(c)
            BY <1>1, <3>1
        <3>3. E(c) < k
            BY <1>1, <1>5, <3>1
        <3> QED BY <1>1, <3>2, <3>3
    <2> QED BY <2>1, <2>2
<1>7. a \in Having(segments, n)
    BY <1>2, <1>5, <1>6
<1>8. PICK i \in Having(segments, n) :
          /\ Chosen(segments, n) = {i}
          /\ \A j \in Having(segments, n) :
                segments[j].waypoints[1].number # n =>
                    segments[i].waypoints[1].number # n /\ j <= i
          /\ segments[i].waypoints[1].number = n => \A j \in Having(segments, n) : i <= j
    <2>1. segments \in Seq(SegmentType) /\ Having(segments, n) # {}
        BY <1>1, <1>7
    <2> HIDE DEF n
    <2> QED BY <2>1, ChosenIs
<1>9. i \in DOMAIN segments /\ B(i) <= k /\ k <= E(i)
    BY <1>2, <1>4
<1>10. k = 1 => i = 1
    <2> SUFFICES ASSUME k = 1, i # 1 PROVE FALSE
        OBVIOUS
    <2>1. 1 < i /\ 1 \in DOMAIN segments
        BY <1>1, <1>9
    <2> QED BY <1>1, <1>9, <2>1
<1>11. k > 1 => B(i) < k
    <2> SUFFICES ASSUME k > 1 PROVE B(i) # k
        BY <1>1, <1>9
    <2>1. segments[a].waypoints[1].number # n
        BY <1>1, <1>3, <1>6
    <2> QED BY <1>3, <1>7, <1>8, <1>9, <2>1
<1>12. ASSUME NEW j \in DOMAIN segments, B(j) < k
       PROVE  j <= i
    <2>1. CASE k <= E(j)
        <3>1. j \in Having(segments, n) /\ segments[j].waypoints[1].number # n
            BY <1>1, <1>2, <1>3, <1>12, <2>1
        <3> QED BY <1>8, <3>1
    <2>2. CASE E(j) < k
        <3> SUFFICES ASSUME i < j PROVE FALSE
            BY <1>1, <1>9
        <3>1. E(i) < E(j)
            BY <1>1, <1>9
        <3> QED BY <1>1, <1>9, <2>2, <3>1
    <2> QED BY <1>1, <2>1, <2>2
<1> QED BY <1>8, <1>9, <1>10, <1>11, <1>12 DEF ChosenFor, B, E

LEMMA PlaceIs ==
    ASSUME NEW plan \in MissionPlan, NEW segments, NEW base \in Nat,
           AreSegments(segments, plan, base, Len(plan)), NEW k \in DOMAIN plan
    PROVE  \E i \in DOMAIN segments :
              ChosenFor(segments, plan, k, i) /\ Place(base, segments, plan[k].number) = base + i
<1>1. PICK i \in DOMAIN segments : ChosenFor(segments, plan, k, i)
    BY OneChosen
<1>2. (CHOOSE j \in Chosen(segments, plan[k].number) : TRUE) = i
    BY <1>1 DEF ChosenFor
<1> QED BY <1>1, <1>2 DEF Place

LEMMA PlaceGrows ==
    ASSUME NEW plan \in MissionPlan, NEW segments, NEW base \in Nat,
           AreSegments(segments, plan, base, Len(plan)), NEW k \in DOMAIN plan, NEW l \in DOMAIN plan, k <= l
    PROVE  Place(base, segments, plan[k].number) <= Place(base, segments, plan[l].number)
<1>1. PICK i \in DOMAIN segments :
          ChosenFor(segments, plan, k, i) /\ Place(base, segments, plan[k].number) = base + i
    BY PlaceIs
<1>2. PICK j \in DOMAIN segments :
          ChosenFor(segments, plan, l, j) /\ Place(base, segments, plan[l].number) = base + j
    BY PlaceIs
<1>3. /\ DOMAIN segments = 1 .. Len(segments) /\ Len(segments) \in Nat
      /\ DOMAIN plan = 1 .. Len(plan) /\ Len(plan) \in Nat
      /\ Begin(segments[i], plan) \in 1 .. Len(plan)
    BY Places, PlanIs
<1>4. i <= j
    <2>1. CASE k = 1
        BY <1>1, <1>3, <2>1 DEF ChosenFor
    <2>2. CASE k > 1
        <3>1. Begin(segments[i], plan) < k
            BY <1>1, <2>2 DEF ChosenFor
        <3>2. Begin(segments[i], plan) < l
            BY <1>3, <3>1
        <3> QED BY <1>2, <3>2 DEF ChosenFor
    <2> QED BY <1>3, <2>1, <2>2
<1> QED BY <1>1, <1>2, <1>3, <1>4

(* Inside a segment the next one may have begun, but not the one after it. *)
LEMMA PlaceNear ==
    ASSUME NEW plan \in MissionPlan, NEW segments, NEW base \in Nat,
           AreSegments(segments, plan, base, Len(plan)), NEW k \in DOMAIN plan, NEW s \in DOMAIN segments,
           Begin(segments[s], plan) <= k, k <= End(segments[s], plan),
           Begin(segments[s], plan) < k \/ Len(plan) = 1
    PROVE  Place(base, segments, plan[k].number) \in {base + s, base + s + 1}
<1>1. PICK i \in DOMAIN segments :
          ChosenFor(segments, plan, k, i) /\ Place(base, segments, plan[k].number) = base + i
    BY PlaceIs
<1> DEFINE B(j) == Begin(segments[j], plan)
           E(j) == End(segments[j], plan)
<1>2. /\ DOMAIN segments = 1 .. Len(segments) /\ Len(segments) \in Nat
      /\ DOMAIN plan = 1 .. Len(plan) /\ Len(plan) \in Nat
      /\ \A j \in DOMAIN segments : B(j) \in 1 .. Len(plan) /\ E(j) \in 1 .. Len(plan)
      /\ \A a, b \in DOMAIN segments : a < b => B(a) < B(b) /\ (b # a + 1 => E(a) < B(b))
      /\ B(1) = 1
    BY Places, PlanIs
<1>3. B(i) <= k
    BY <1>1 DEF ChosenFor
<1>4. B(s) < k => s <= i
    BY <1>1 DEF ChosenFor
<1>5. B(s) <= k /\ k <= E(s) /\ (B(s) < k \/ Len(plan) = 1)
    OBVIOUS
<1> HIDE DEF B, E
<1>6. s <= i
    <2>1. CASE Len(plan) = 1
        <3>1. s = 1
            <4> SUFFICES ASSUME 1 < s PROVE FALSE
                BY <1>2
            <4>1. 1 \in DOMAIN segments
                BY <1>2
            <4>2. B(1) < B(s)
                BY <1>2, <4>1
            <4> QED BY <1>2, <2>1, <4>2
        <3> QED BY <1>2, <3>1
    <2> QED BY <1>4, <1>5, <2>1
<1>7. i <= s + 1
    <2> SUFFICES ASSUME s + 1 < i PROVE FALSE
        BY <1>2
    <2>1. s < i /\ i # s + 1
        BY <1>2
    <2>2. E(s) < B(i)
        BY <1>2, <2>1
    <2>3. B(i) \in Nat /\ E(s) \in Nat /\ k \in Nat
        BY <1>2
    <2> QED BY <1>3, <1>5, <2>2, <2>3
<1>8. i \in Nat /\ s \in Nat
    BY <1>2
<1>9. i \in {s, s + 1}
    BY <1>6, <1>7, <1>8
<1> QED BY <1>1, <1>9

LEMMA OneWaypoint ==
    ASSUME NEW plan \in MissionPlan, NEW segments, NEW base, AreSegments(segments, plan, base, Len(plan)),
           NEW i \in DOMAIN segments, Len(segments[i].waypoints) = 1
    PROVE  Len(plan) = 1
<1> DEFINE B(j) == Begin(segments[j], plan)
           E(j) == End(segments[j], plan)
<1>1. /\ DOMAIN segments = 1 .. Len(segments) /\ Len(segments) \in Nat
      /\ \A j \in DOMAIN segments : B(j) \in 1 .. Len(plan) /\ E(j) \in 1 .. Len(plan)
      /\ \A a, b \in DOMAIN segments : a < b =>
            B(a) < B(b) /\ E(a) < E(b) /\ (b = a + 1 => B(b) < E(a))
      /\ B(1) = 1 /\ E(Len(segments)) = Len(plan)
      /\ IsSegment(segments[i], plan)
    BY Places
<1>2. B(i) = E(i)
    <2>1. Len(segments[i].waypoints) = E(i) - B(i) + 1
        BY <1>1, SegmentHas
    <2>2. E(i) - B(i) + 1 = 1
        BY <2>1
    <2>3. B(i) \in Nat /\ E(i) \in Nat
        BY <1>1
    <2> HIDE DEF B, E
    <2> QED BY <2>2, <2>3
<1> HIDE DEF B, E
<1>3. i = Len(segments)
    <2> SUFFICES ASSUME i < Len(segments) PROVE FALSE
        BY <1>1
    <2>1. PICK j \in DOMAIN segments : j = i + 1
        BY <1>1
    <2>2. B(i) < B(j) /\ B(j) < E(i)
        BY <1>1, <2>1
    <2> QED BY <1>1, <1>2, <2>2
<1>4. i = 1
    <2> SUFFICES ASSUME 1 < i PROVE FALSE
        BY <1>1
    <2>1. PICK j \in DOMAIN segments : i = j + 1
        <3>1. i - 1 \in DOMAIN segments /\ i = (i - 1) + 1
            BY <1>1
        <3> QED BY <3>1
    <2>2. B(i) < E(j) /\ E(j) < E(i)
        BY <1>1, <2>1
    <2> QED BY <1>1, <1>2, <2>2
<1> QED BY <1>1, <1>2, <1>3, <1>4

LEMMA NoneChosen ==
    ASSUME NEW plan \in MissionPlan, NEW segments, NEW base, AreSegments(segments, plan, base, Len(plan)),
           NEW n, n \notin Numbers(plan)
    PROVE  Chosen(segments, n) = {}
<1>1. Having(segments, n) = {}
    <2> SUFFICES ASSUME NEW i \in Having(segments, n) PROVE FALSE
        OBVIOUS
    <2>1. i \in DOMAIN segments /\ \E j \in DOMAIN segments[i].waypoints : segments[i].waypoints[j].number = n
        BY DEF Having
    <2>2. PICK s : s = segments[i]
        OBVIOUS
    <2>3. PICK j \in DOMAIN s.waypoints : s.waypoints[j].number = n
        BY <2>1, <2>2
    <2>4. IsSegment(s, plan)
        BY <2>1, <2>2, Places
    <2>5. s.waypoints[j] = plan[Begin(s, plan) + j - 1] /\ Begin(s, plan) + j - 1 \in DOMAIN plan
        <3>1. /\ Begin(s, plan) \in DOMAIN plan /\ End(s, plan) \in DOMAIN plan
              /\ Len(s.waypoints) = End(s, plan) - Begin(s, plan) + 1
              /\ s.waypoints[j] = plan[Begin(s, plan) + j - 1]
              /\ DOMAIN plan = 1 .. Len(plan) /\ Len(plan) \in Nat
            BY <2>4, SegmentHas, PlanIs
        <3>2. DOMAIN s.waypoints = 1 .. Len(s.waypoints)
            BY <2>4 DEF IsSegment, SegmentType
        <3> QED BY <3>1, <3>2
    <2> QED BY <2>3, <2>5 DEF Numbers
<1>2. segments \in Seq(SegmentType)
    BY DEF AreSegments
<1> QED BY <1>1, <1>2, ChosenIs

(* The waypoints of a segment are those of the plan, from its beginning on.*)
LEMMA InSegment ==
    ASSUME NEW plan \in MissionPlan, NEW segments, NEW base, AreSegments(segments, plan, base, Len(plan)),
           NEW s \in DOMAIN segments, NEW at \in DOMAIN segments[s].waypoints
    PROVE  \E k \in DOMAIN plan :
              /\ k = Begin(segments[s], plan) + at - 1
              /\ Begin(segments[s], plan) <= k /\ k <= End(segments[s], plan)
              /\ at > 1 => Begin(segments[s], plan) < k
              /\ segments[s].waypoints[at] = plan[k]
<1>1. PICK t : t = segments[s]
    OBVIOUS
<1>2. IsSegment(t, plan)
    BY <1>1, Places
<1>3. /\ Begin(t, plan) \in DOMAIN plan /\ End(t, plan) \in DOMAIN plan
      /\ Len(t.waypoints) = End(t, plan) - Begin(t, plan) + 1
      /\ \A i \in DOMAIN t.waypoints : t.waypoints[i] = plan[Begin(t, plan) + i - 1]
      /\ DOMAIN plan = 1 .. Len(plan) /\ Len(plan) \in Nat
    BY <1>2, SegmentHas, PlanIs
<1>4. DOMAIN t.waypoints = 1 .. Len(t.waypoints)
    BY <1>2 DEF IsSegment, SegmentType
<1>5. PICK k : k = Begin(t, plan) + at - 1
    OBVIOUS
<1>6. k \in DOMAIN plan /\ Begin(t, plan) <= k /\ k <= End(t, plan) /\ (at > 1 => Begin(t, plan) < k)
    <2>1. PICK b \in 1 .. Len(plan) : b = Begin(t, plan)
        BY <1>3
    <2>2. PICK e \in 1 .. Len(plan) : e = End(t, plan)
        BY <1>3
    <2>3. at \in 1 .. e - b + 1 /\ Len(plan) \in Nat
        BY <1>1, <1>3, <1>4, <2>1, <2>2
    <2>4. k \in 1 .. Len(plan) /\ b <= k /\ k <= e /\ (at > 1 => b < k)
        BY <1>5, <2>1, <2>2, <2>3
    <2> QED BY <1>3, <2>1, <2>2, <2>4
<1>7. t.waypoints[at] = plan[k]
    BY <1>1, <1>3, <1>5
<1> QED BY <1>1, <1>5, <1>6, <1>7

-----------------------------------------------------------------------------
(* What is still to come shrinks as messages are taken or published.       *)
LEMMA InboxTail ==
    ASSUME NEW v, NEW M, NEW q \in Seq(M), q # <<>>, NEW plans, NEW n
    PROVE  /\ ComingOf(v, Tail(q), plans, n) \subseteq ComingOf(v, q, plans, n)
           /\ Apart(v, q, plans, n) => Apart(v, Tail(q), plans, n)
           /\ Apart(v, q, plans, n) /\ IsPlan(Head(q)) =>
                 Numbers(Head(q).plans[v]) \cap ComingOf(v, Tail(q), plans, n) = {}
<1>1. /\ Len(q) \in Nat /\ DOMAIN q = 1 .. Len(q) /\ Len(q) >= 1 /\ q[1] = Head(q)
      /\ DOMAIN Tail(q) = 1 .. Len(q) - 1
      /\ \A i \in DOMAIN Tail(q) : Tail(q)[i] = q[i + 1] /\ i + 1 \in DOMAIN q
    BY HeadTailProperties
<1>2. PICK t : t = Tail(q)
    OBVIOUS
<1>3. /\ \A i \in DOMAIN t : i \in Nat /\ i >= 1 /\ t[i] = q[i + 1] /\ i + 1 \in DOMAIN q
      /\ 1 \in DOMAIN q /\ q[1] = Head(q)
    BY <1>1, <1>2
<1>4. ComingOf(v, t, plans, n) \subseteq ComingOf(v, q, plans, n)
    BY <1>3 DEF ComingOf
<1>5. ASSUME Apart(v, q, plans, n)
      PROVE  Apart(v, t, plans, n)
    <2> SUFFICES ASSUME NEW i \in DOMAIN t, IsPlan(t[i])
                 PROVE  /\ \A j \in DOMAIN t : i < j /\ IsPlan(t[j]) =>
                              Numbers(t[i].plans[v]) \cap Numbers(t[j].plans[v]) = {}
                        /\ \A k \in n + 1 .. Len(plans) :
                              Numbers(t[i].plans[v]) \cap Numbers(plans[k][v]) = {}
        BY DEF Apart
    <2>1. t[i] = q[i + 1] /\ i + 1 \in DOMAIN q
        BY <1>3
    <2>2. \A j \in DOMAIN t : t[j] = q[j + 1] /\ j + 1 \in DOMAIN q /\ (i < j => i + 1 < j + 1)
        BY <1>3
    <2> QED BY <1>5, <2>1, <2>2 DEF Apart
<1>6. ASSUME Apart(v, q, plans, n), IsPlan(Head(q)), NEW x \in Numbers(Head(q).plans[v]),
             x \in ComingOf(v, t, plans, n)
      PROVE  FALSE
    <2>1. CASE \E i \in DOMAIN t : IsPlan(t[i]) /\ x \in Numbers(t[i].plans[v])
        <3>1. PICK i \in DOMAIN t : IsPlan(t[i]) /\ x \in Numbers(t[i].plans[v])
            BY <2>1
        <3>2. i + 1 \in DOMAIN q /\ 1 < i + 1 /\ t[i] = q[i + 1]
            BY <1>3
        <3>3. Numbers(q[1].plans[v]) \cap Numbers(q[i + 1].plans[v]) = {}
            BY <1>3, <1>6, <3>1, <3>2 DEF Apart
        <3> QED BY <1>3, <1>6, <3>1, <3>2, <3>3
    <2>2. CASE \E k \in n + 1 .. Len(plans) : x \in Numbers(plans[k][v])
        BY <1>3, <1>6, <2>2 DEF Apart
    <2> QED BY <1>6, <2>1, <2>2 DEF ComingOf
<1> QED BY <1>2, <1>4, <1>5, <1>6

LEMMA InboxMore ==
    ASSUME NEW v, NEW M, NEW q \in Seq(M), NEW m, ~IsPlan(m), NEW plans, NEW n
    PROVE  /\ ComingOf(v, Append(q, m), plans, n) \subseteq ComingOf(v, q, plans, n)
           /\ Apart(v, q, plans, n) => Apart(v, Append(q, m), plans, n)
<1>1. PICK r : r = Append(q, m)
    OBVIOUS
<1>2. \A i \in DOMAIN r : IsPlan(r[i]) => i \in DOMAIN q /\ r[i] = q[i]
    <2>1. /\ DOMAIN r = 1 .. Len(q) + 1 /\ DOMAIN q = 1 .. Len(q) /\ Len(q) \in Nat
          /\ r[Len(q) + 1] = m /\ \A i \in 1 .. Len(q) : r[i] = q[i]
        BY <1>1
    <2> QED BY <2>1
<1>3. ComingOf(v, r, plans, n) \subseteq ComingOf(v, q, plans, n)
    BY <1>2 DEF ComingOf
<1>4. Apart(v, q, plans, n) => Apart(v, r, plans, n)
    BY <1>2 DEF Apart
<1> QED BY <1>1, <1>3, <1>4

LEMMA InboxPlan ==
    ASSUME NEW v, NEW M, NEW q \in Seq(M), NEW m \in M, NEW plans, NEW n \in Nat, Len(plans) \in Nat,
           n + 1 <= Len(plans), IsPlan(m), m.plans = plans[n + 1],
           \A i, j \in 1 .. Len(plans) : i # j => Numbers(plans[i][v]) \cap Numbers(plans[j][v]) = {},
           \A x \in Numbers(plans[n + 1][v]) : x \in Nat,
           Apart(v, q, plans, n)
    PROVE  /\ ComingOf(v, q, plans, n + 1) \subseteq ComingOf(v, q, plans, n)
           /\ ComingOf(v, Append(q, m), plans, n + 1) \subseteq ComingOf(v, q, plans, n)
           /\ Apart(v, q, plans, n + 1) /\ Apart(v, Append(q, m), plans, n + 1)
<1>1. \A k \in n + 1 + 1 .. Len(plans) : k \in n + 1 .. Len(plans) /\ k \in 1 .. Len(plans) /\ k # n + 1
    OBVIOUS
<1>2. n + 1 \in n + 1 .. Len(plans) /\ n + 1 \in 1 .. Len(plans)
    OBVIOUS
<1>3. PICK k \in n + 1 .. Len(plans) : k = n + 1 /\ k \in 1 .. Len(plans)
    BY <1>2
<1>4. PICK r : r = Append(q, m)
    OBVIOUS
<1>5. /\ DOMAIN r = 1 .. Len(q) + 1 /\ DOMAIN q = 1 .. Len(q) /\ Len(q) \in Nat
      /\ r[Len(q) + 1] = m /\ \A i \in 1 .. Len(q) : r[i] = q[i]
    BY <1>4
<1>6. \A i \in DOMAIN r : (i \in DOMAIN q /\ r[i] = q[i]) \/ (i = Len(q) + 1 /\ r[i] = m)
    BY <1>5
<1>7. Apart(v, q, plans, n + 1)
    BY <1>1 DEF Apart
<1>8. ComingOf(v, q, plans, n + 1) \subseteq ComingOf(v, q, plans, n)
    BY <1>1 DEF ComingOf
<1>9. ComingOf(v, r, plans, n + 1) \subseteq ComingOf(v, q, plans, n)
    <2> SUFFICES ASSUME NEW x \in ComingOf(v, r, plans, n + 1) PROVE x \in ComingOf(v, q, plans, n)
        OBVIOUS
    <2>1. x \in Nat
        BY DEF ComingOf
    <2>2. CASE \E i \in DOMAIN r : IsPlan(r[i]) /\ x \in Numbers(r[i].plans[v])
        <3>1. PICK i \in DOMAIN r : IsPlan(r[i]) /\ x \in Numbers(r[i].plans[v])
            BY <2>2
        <3>2. CASE i \in DOMAIN q /\ r[i] = q[i]
            BY <2>1, <3>1, <3>2 DEF ComingOf
        <3>3. CASE r[i] = m
            BY <1>3, <2>1, <3>1, <3>3 DEF ComingOf
        <3> QED BY <1>6, <3>2, <3>3
    <2>3. CASE \E j \in n + 1 + 1 .. Len(plans) : x \in Numbers(plans[j][v])
        BY <1>1, <2>1, <2>3 DEF ComingOf
    <2> QED BY <2>2, <2>3 DEF ComingOf
<1>10. Apart(v, r, plans, n + 1)
    <2> SUFFICES ASSUME NEW i \in DOMAIN r, IsPlan(r[i])
                 PROVE  /\ \A j \in DOMAIN r : i < j /\ IsPlan(r[j]) =>
                              Numbers(r[i].plans[v]) \cap Numbers(r[j].plans[v]) = {}
                        /\ \A j \in n + 1 + 1 .. Len(plans) :
                              Numbers(r[i].plans[v]) \cap Numbers(plans[j][v]) = {}
        BY DEF Apart
    <2>1. CASE i \in DOMAIN q /\ r[i] = q[i]
        <3>1. \A j \in n + 1 .. Len(plans) : Numbers(r[i].plans[v]) \cap Numbers(plans[j][v]) = {}
            BY <2>1 DEF Apart
        <3>2. ASSUME NEW j \in DOMAIN r, i < j, IsPlan(r[j])
              PROVE  Numbers(r[i].plans[v]) \cap Numbers(r[j].plans[v]) = {}
            <4>1. CASE j \in DOMAIN q /\ r[j] = q[j]
                BY <2>1, <3>2, <4>1 DEF Apart
            <4>2. CASE r[j] = m
                BY <1>3, <3>1, <4>2
            <4> QED BY <1>6, <4>1, <4>2
        <3> QED BY <1>1, <3>1, <3>2
    <2>2. CASE i = Len(q) + 1 /\ r[i] = m
        <3>1. \A j \in DOMAIN r : ~ (i < j)
            BY <1>5, <2>2
        <3>2. \A j \in n + 1 + 1 .. Len(plans) : Numbers(plans[k][v]) \cap Numbers(plans[j][v]) = {}
            BY <1>1, <1>3
        <3> QED BY <1>3, <2>2, <3>1, <3>2
    <2> QED BY <1>6, <2>1, <2>2
<1> QED BY <1>4, <1>7, <1>8, <1>9, <1>10

-----------------------------------------------------------------------------
(***************************************************************************)
(* The parts of the invariant, one after the other.  First the numbers of  *)
(* the plans: those of a plan that is replaced are past, and stay so.      *)
(***************************************************************************)
Takable(v) == mission \in MissionSettings /\ ~mission.renumbered /\ mission' = mission /\ v \in Vehicle
LEMMA NumbersKept ==
    ASSUME NEW v, Takable(v), ManagerTypeOK, PlansApart(v), StepOf(v)
    PROVE  /\ PlansApart(v)'
           /\ Past(v) \subseteq Past(v)'
           /\ IF Takes(v) THEN Current(v) \subseteq Past(v)' ELSE KeepsPlan(v)
<1>1. /\ v \in Vehicle /\ mission \in MissionSettings /\ ~mission.renumbered /\ mission' = mission
      /\ published \in Nat /\ toManager[v] \in Seq(PlanMessage \cup Report)
      /\ \A x \in Current(v) : x \in Nat
    <2>1. v \in Vehicle /\ mission \in MissionSettings /\ ~mission.renumbered /\ mission' = mission
        BY DEF Takable
    <2>2. /\ published \in Nat /\ toManager[v] \in Seq(PlanMessage \cup Report)
          /\ assigned[v].waypoints \in MissionPlan
        BY <2>1 DEF ManagerTypeOK
    <2>3. \A x \in Current(v) : x \in Nat
        BY <2>2, PlanIs DEF Current, Numbers
    <2> QED BY <2>1, <2>2, <2>3
<1> DEFINE M == PlanMessage \cup Report
           plans == mission.plans
<1>2. PICK q \in Seq(M) : q = toManager[v]
    BY <1>1
<1>3. PICK n \in Nat : n = published
    BY <1>1
<1>4. /\ \A m \in PlanMessage : IsPlan(m) /\ m.plans[v] \in MissionPlan
      /\ \A m \in Report : ~IsPlan(m)
    BY <1>1 DEF PlanMessage, Report, IsPlan
<1> HIDE DEF M
<1>5. Apart(v, q, plans, n) /\ Current(v) \cap ComingOf(v, q, plans, n) = {} /\ Coming(v) = ComingOf(v, q, plans, n)
    BY <1>2, <1>3 DEF PlansApart, Coming
<1>6. ASSUME NEW r, toManager'[v] = r, NEW l, published' = l, KeepsPlan(v),
             ComingOf(v, r, plans, l) \subseteq ComingOf(v, q, plans, n), Apart(v, r, plans, l)
      PROVE  PlansApart(v)' /\ Past(v) \subseteq Past(v)'
    <2>1. Current(v)' = Current(v)
        BY <1>6 DEF Current, KeepsPlan
    <2>2. Coming(v)' = ComingOf(v, r, plans, l) /\ Apart(v, toManager[v], mission.plans, published)'
        BY <1>1, <1>6 DEF Coming
    <2>3. PlansApart(v)'
        BY <1>5, <1>6, <2>1, <2>2 DEF PlansApart
    <2>4. Past(v) \subseteq Past(v)'
        BY <1>5, <1>6, <2>1, <2>2 DEF Past
    <2> QED BY <2>3, <2>4
<1>7. CASE Publishes(v)
    <2>1. /\ n + 1 <= Len(plans) /\ Len(plans) \in Nat /\ n + 1 \in DOMAIN plans /\ published' = n + 1
          /\ KeepsPlan(v)
        BY <1>1, <1>3, <1>7, MissionIs DEF Publishes
    <2>2. PICK m : m = [type |-> "AutomationResponse", plans |-> plans[n + 1]]
        OBVIOUS
    <2>3. m \in PlanMessage /\ m \in M /\ m.plans = plans[n + 1]
        BY <1>1, <2>1, <2>2, MissionIs DEF PlanMessage, M
    <2>4. \A i, j \in 1 .. Len(plans) : i # j => Numbers(plans[i][v]) \cap Numbers(plans[j][v]) = {}
        BY <1>1, MissionIs, MissionAssumption
    <2>5. \A x \in Numbers(plans[n + 1][v]) : x \in Nat
        BY <1>4, <2>3, PlanIs DEF Numbers
    <2>6. /\ ComingOf(v, q, plans, n + 1) \subseteq ComingOf(v, q, plans, n)
          /\ ComingOf(v, Append(q, m), plans, n + 1) \subseteq ComingOf(v, q, plans, n)
          /\ Apart(v, q, plans, n + 1) /\ Apart(v, Append(q, m), plans, n + 1)
        <3> HIDE DEF plans
        <3> QED BY <1>4, <1>5, <2>1, <2>3, <2>4, <2>5, InboxPlan
    <2>7. toManager'[v] = q \/ toManager'[v] = Append(q, m)
        BY <1>2, <1>3, <1>7, <2>2 DEF Publishes, Receives
    <2>8. ~Takes(v)
        BY <1>3, <2>1 DEF Takes
    <2> QED BY <1>6, <2>1, <2>6, <2>7, <2>8
<1>8. CASE Takes(v)
    <2>1. /\ q # <<>> /\ Head(q) \in PlanMessage /\ toManager'[v] = Tail(q) /\ published' = n
          /\ assigned'[v].waypoints = Head(q).plans[v]
        BY <1>2, <1>3, <1>8 DEF Takes
    <2>2. PICK t : t = Tail(q)
        OBVIOUS
    <2>3. PICK p : p = Head(q).plans[v]
        OBVIOUS
    <2>4. /\ ComingOf(v, t, plans, n) \subseteq ComingOf(v, q, plans, n)
          /\ Apart(v, t, plans, n) /\ Numbers(p) \cap ComingOf(v, t, plans, n) = {}
        BY <1>4, <1>5, <2>1, <2>2, <2>3, InboxTail
    <2>5. Numbers(p) \subseteq ComingOf(v, q, plans, n)
        <3>1. 1 \in DOMAIN q /\ q[1] = Head(q) /\ IsPlan(q[1]) /\ p \in MissionPlan
            BY <1>4, <2>1, <2>3
        <3>2. \A x \in Numbers(p) : x \in Nat
            BY <3>1, PlanIs DEF Numbers
        <3> QED BY <2>3, <3>1, <3>2 DEF ComingOf
    <2>6. Current(v)' = Numbers(p)
        BY <2>1, <2>3 DEF Current
    <2>7. Coming(v)' = ComingOf(v, t, plans, n) /\ Apart(v, toManager[v], mission.plans, published)'
        BY <1>1, <2>1, <2>2, <2>4 DEF Coming
    <2>8. PlansApart(v)'
        BY <2>4, <2>6, <2>7 DEF PlansApart
    <2>9. Past(v) \subseteq Past(v)' /\ Current(v) \subseteq Past(v)'
        BY <1>1, <1>5, <2>4, <2>5, <2>6, <2>7 DEF Past
    <2> QED BY <1>8, <2>8, <2>9
<1>9. CASE Reads(v)
    <2>1. /\ q # <<>> /\ Head(q) \in Report /\ toManager'[v] = Tail(q) /\ published' = n /\ KeepsPlan(v)
        BY <1>2, <1>3, <1>9 DEF Reads
    <2>2. PICK t : t = Tail(q)
        OBVIOUS
    <2>3. ComingOf(v, t, plans, n) \subseteq ComingOf(v, q, plans, n) /\ Apart(v, t, plans, n)
        BY <1>5, <2>1, <2>2, InboxTail
    <2>4. ~Takes(v)
        BY <1>2, <1>4, <2>1 DEF Takes
    <2> QED BY <1>6, <2>1, <2>2, <2>3, <2>4
<1>10. CASE ~Publishes(v) /\ ~Takes(v) /\ ~Reads(v)
    <2>1. published' = n /\ KeepsPlan(v)
        BY <1>3, <1>10 DEF StepOf, Hears, Sends, HasSent, Accepts, Flies, TurnsTo
    <2>2. \/ toManager'[v] = q
          \/ \E m : ~IsPlan(m) /\ toManager'[v] = Append(q, m)
        <3>1. CASE Hears(v) \/ Sends(v) \/ HasSent(v)
            BY <1>2, <1>4, <3>1 DEF Hears, Sends, HasSent
        <3>2. CASE TurnsTo(v)
            <4>1. PICK m : m = [type |-> "AirVehicleState", vehicle |-> v,
                                waypoint |-> course'[v].waypoints[course'[v].at].number]
                OBVIOUS
            <4>2. toManager'[v] = q \/ toManager'[v] = Append(q, m)
                BY <1>2, <3>2, <4>1 DEF TurnsTo, Receives
            <4>3. ~IsPlan(m)
                BY <4>1 DEF IsPlan
            <4> QED BY <4>2, <4>3
        <3> QED BY <1>10, <3>1, <3>2 DEF StepOf, Accepts, Flies
    <2>3. CASE toManager'[v] = q
        BY <1>5, <1>6, <1>10, <2>1, <2>3
    <2>4. ASSUME NEW m, ~IsPlan(m), toManager'[v] = Append(q, m)
          PROVE  PlansApart(v)' /\ Past(v) \subseteq Past(v)'
        <3>1. ComingOf(v, Append(q, m), plans, n) \subseteq ComingOf(v, q, plans, n)
              /\ Apart(v, Append(q, m), plans, n)
            BY <1>5, <2>4, InboxMore
        <3> QED BY <1>6, <2>1, <2>4, <3>1
    <2> QED BY <1>10, <2>1, <2>2, <2>3, <2>4
<1> QED BY <1>7, <1>8, <1>9, <1>10

-----------------------------------------------------------------------------
Ready(v) ==
    /\ Takable(v) /\ Healthy(mission.serve, mission.overlap)
    /\ ManagerTypeOK /\ PlansCut /\ InTurn(v) /\ StepOf(v)

(* The state of one vehicle.                                               *)
LEMMA VehicleIs ==
    ASSUME NEW v \in Vehicle, ManagerTypeOK, PlansCut
    PROVE  /\ toManager[v] \in Seq(PlanMessage \cup Report) /\ toVehicle[v] \in Seq(Order)
           /\ m_missionSegments[v] \in Seq(SegmentType)
           /\ Now(v) \in Nat /\ commandIDs[v] \in Nat /\ Base(v) \in Nat
           /\ nextMissionCommandToSend[v] \in Seq(CommandType) /\ sending[v] \in BOOLEAN
           /\ commands[v] \in Seq([base : Nat, command : Nat])
           /\ course[v] \in CourseType /\ assigned[v].waypoints \in MissionPlan
           /\ IF assigned[v].waypoints = <<>> THEN m_missionSegments[v] = <<>>
              ELSE AreSegments(m_missionSegments[v], assigned[v].waypoints, Base(v),
                               Len(assigned[v].waypoints))
<1>1. /\ toManager[v] \in Seq(PlanMessage \cup Report) /\ toVehicle[v] \in Seq(Order)
      /\ m_missionSegments[v] \in Seq(SegmentType)
      /\ m_idMissionSegmentCurrent[v] \in Nat /\ commandIDs[v] \in Nat
      /\ nextMissionCommandToSend[v] \in Seq(CommandType) /\ sending[v] \in BOOLEAN
      /\ commands[v] \in Seq([base : Nat, command : Nat])
    BY DEF ManagerTypeOK
<1>2. course[v] \in CourseType
    BY DEF ManagerTypeOK, CourseType
<1>3. assigned[v].base \in Nat /\ assigned[v].waypoints \in MissionPlan
    BY DEF ManagerTypeOK
<1>4. IF assigned[v].waypoints = <<>> THEN m_missionSegments[v] = <<>>
      ELSE AreSegments(m_missionSegments[v], assigned[v].waypoints, assigned[v].base,
                       Len(assigned[v].waypoints))
    BY DEF PlansCut
<1> QED BY <1>1, <1>2, <1>3, <1>4 DEF Now, Base

(* A plan is taken: its first segment is chosen, and is a new one.         *)
LEMMA TakesIs ==
    ASSUME NEW v, Ready(v), Takes(v)
    PROVE  /\ Base(v)' = commandIDs[v] /\ assigned'[v].waypoints \in MissionPlan
           /\ assigned'[v].waypoints = <<>> => KeepsChoice(v) /\ commandIDs'[v] = commandIDs[v]
           /\ assigned'[v].waypoints # <<>> =>
                 /\ AreSegments(m_missionSegments'[v], assigned'[v].waypoints, commandIDs[v],
                                Len(assigned'[v].waypoints))
                 /\ commandIDs'[v] = commandIDs[v] + Len(m_missionSegments'[v]) + 1
                 /\ Now(v)' = commandIDs[v] + 1
                 /\ nextMissionCommandToSend'[v] =
                       <<CommandFor(m_missionSegments'[v][1], assigned'[v].waypoints[1].number)>>
<1>1. /\ v \in Vehicle /\ mission \in MissionSettings /\ ManagerTypeOK /\ PlansCut
      /\ Healthy(mission.serve, mission.overlap)
    BY DEF Ready, Takable
<1>2. /\ commandIDs[v] \in Nat /\ mission.serve \in Nat /\ mission.overlap \in Nat
      /\ m_idMissionSegmentCurrent[v] \in Nat
    BY <1>1, MissionIs, VehicleIs DEF Now
<1>3. m_idMissionSegmentCurrent[v] <= commandIDs[v]
    BY DEF Ready, InTurn, Counted, Now
<1>4. PICK plan : plan = Head(toManager[v]).plans[v]
    OBVIOUS
<1> DEFINE cut == Segments(plan, mission.serve, mission.overlap, commandIDs[v])
<1>5. /\ m_missionSegments'[v] = cut.segments /\ commandIDs'[v] = cut.last
      /\ assigned'[v] = [base |-> commandIDs[v], waypoints |-> plan]
      /\ IF plan = <<>> THEN KeepsChoice(v) ELSE Chooses(v, cut.segments, plan[1].number)
      /\ Head(toManager[v]) \in PlanMessage
    BY <1>4 DEF Takes
<1>6. plan \in MissionPlan
    BY <1>1, <1>4, <1>5 DEF PlanMessage
<1>7. IF plan = <<>> THEN cut.segments = <<>> /\ cut.last = commandIDs[v]
      ELSE /\ AreSegments(cut.segments, plan, commandIDs[v], Len(plan)) /\ ~cut.failed
           /\ cut.last = commandIDs[v] + Len(cut.segments) + 1
    BY <1>1, <1>2, <1>6, SegmentsWell
<1> HIDE DEF cut
<1>8. assigned'[v].base = commandIDs[v] /\ assigned'[v].waypoints = plan /\ Base(v)' = commandIDs[v]
    BY <1>5 DEF Base
<1>9. CASE plan = <<>>
    BY <1>5, <1>6, <1>7, <1>8, <1>9
<1>10. CASE plan # <<>>
    <2>1. PICK s : s = cut.segments
        OBVIOUS
    <2>2. PICK n : n = plan[1].number
        OBVIOUS
    <2>3. AreSegments(s, plan, commandIDs[v], Len(plan)) /\ Chooses(v, s, n)
        BY <1>5, <1>7, <1>10, <2>1, <2>2
    <2>4. 1 \in DOMAIN plan
        BY <1>6, <1>10, PlanIs
    <2>5. PICK i \in DOMAIN s : ChosenFor(s, plan, 1, i)
        BY <1>6, <2>3, <2>4, OneChosen
    <2>6. Chosen(s, n) = {1} /\ 1 \in DOMAIN s
        BY <2>2, <2>5 DEF ChosenFor
    <2>7. s[1].command = commandIDs[v] + 1
        BY <2>3, <2>6 DEF AreSegments
    <2>8. s[1].command # m_idMissionSegmentCurrent[v]
        BY <1>2, <1>3, <2>7
    <2>9. /\ m_idMissionSegmentCurrent'[v] = s[1].command
          /\ nextMissionCommandToSend'[v] = <<CommandFor(s[1], n)>>
        <3>1. PICK j : /\ Chosen(s, n) = {j} /\ m_idMissionSegmentCurrent'[v] = s[j].command
                       /\ nextMissionCommandToSend'[v] = <<CommandFor(s[j], n)>>
            BY <2>3, <2>6, <2>8 DEF Chooses
        <3>2. j = 1
            BY <2>6, <3>1
        <3> QED BY <3>1, <3>2
    <2>10. Now(v)' = commandIDs[v] + 1
        BY <2>7, <2>9 DEF Now
    <2> QED BY <1>5, <1>6, <1>7, <1>8, <1>10, <2>1, <2>2, <2>3, <2>9, <2>10
<1> QED BY <1>9, <1>10

(* A report is read, and another segment chosen: it is the one after the   *)
(* segment whose command the vehicle was given last.                       *)
LEMMA ReadsIs ==
    ASSUME NEW v, Ready(v), Reads(v), ~KeepsChoice(v)
    PROVE  /\ assigned[v].waypoints # <<>> /\ IsLast(v, Base(v), Now(v)) /\ Now(v)' = Now(v) + 1
           /\ Now(v) + 1 - Base(v) \in DOMAIN m_missionSegments[v]
           /\ 1 \in Own(v) /\ OnPlan(v) /\ Where(v, toManager[v][1].waypoint) = Now(v) + 1
           /\ toManager[v][1].waypoint \notin Past(v)
           /\ toManager[v][1].waypoint \in Nat
           /\ Now(v) + 1 - Base(v) \in Having(m_missionSegments[v], toManager[v][1].waypoint)
           /\ nextMissionCommandToSend'[v] =
                 <<CommandFor(m_missionSegments[v][Now(v) + 1 - Base(v)], toManager[v][1].waypoint)>>
<1>1. /\ v \in Vehicle /\ ManagerTypeOK /\ PlansCut /\ Counted(v) /\ ReportsFit(v)
    BY DEF Ready, Takable, InTurn
<1>2. /\ toManager[v] \in Seq(PlanMessage \cup Report) /\ m_missionSegments[v] \in Seq(SegmentType)
      /\ Now(v) \in Nat /\ commandIDs[v] \in Nat /\ Base(v) \in Nat /\ assigned[v].waypoints \in MissionPlan
      /\ IF assigned[v].waypoints = <<>> THEN m_missionSegments[v] = <<>>
         ELSE AreSegments(m_missionSegments[v], assigned[v].waypoints, Base(v),
                          Len(assigned[v].waypoints))
    BY <1>1, VehicleIs
<1>3. PICK m : m = Head(toManager[v])
    OBVIOUS
<1>4. /\ toManager[v] # <<>> /\ m \in Report /\ m.vehicle = v
      /\ Chooses(v, m_missionSegments[v], m.waypoint)
    BY <1>3 DEF Reads
<1>5. PICK n \in Nat : n = m.waypoint
    BY <1>4 DEF Report
<1>6. PICK s : s = m_missionSegments[v]
    OBVIOUS
<1>7. PICK i \in Having(s, n) :
          /\ Chosen(s, n) = {i} /\ s[i].command # m_idMissionSegmentCurrent[v]
          /\ m_idMissionSegmentCurrent'[v] = s[i].command
          /\ nextMissionCommandToSend'[v] = <<CommandFor(s[i], n)>>
    BY <1>4, <1>5, <1>6 DEF Chooses
<1>8. i \in DOMAIN s
    BY DEF Having
<1>9. assigned[v].waypoints # <<>>
    BY <1>2, <1>6, <1>8
<1>10. AreSegments(s, assigned[v].waypoints, Base(v), Len(assigned[v].waypoints))
    BY <1>2, <1>6, <1>9
<1>11. n \in Current(v)
    <2>1. n \notin Numbers(assigned[v].waypoints) => Chosen(s, n) = {}
        BY <1>2, <1>10, NoneChosen
    <2> QED BY <1>7, <2>1 DEF Current
<1>12. n \notin Past(v)
    BY <1>11 DEF Past
<1>13. 1 \in Own(v) /\ toManager[v][1].waypoint = n
    <2>1. 1 \in DOMAIN toManager[v] /\ toManager[v][1] = m
        BY <1>2, <1>3, <1>4
    <2>2. ~IsPlan(m)
        BY <1>4 DEF Report, IsPlan
    <2> QED BY <1>4, <1>5, <2>1, <2>2 DEF Own
<1>14. /\ OnPlan(v) /\ Now(v) <= Where(v, n)
       /\ Where(v, n) <= Now(v) \/ (Where(v, n) = Now(v) + 1 /\ IsLast(v, Base(v), Now(v)))
    BY <1>1, <1>12, <1>13 DEF ReportsFit
<1>15. Where(v, n) = Base(v) + i
    <2>1. (CHOOSE j \in Chosen(s, n) : TRUE) = i
        BY <1>7
    <2> QED BY <1>6, <2>1 DEF Where, Place
<1>16. s[i].command = Base(v) + i
    BY <1>8, <1>10 DEF AreSegments
<1>17. i \in Nat
    BY <1>2, <1>6, <1>8
<1>18. Where(v, n) = Now(v) + 1 /\ IsLast(v, Base(v), Now(v)) /\ i = Now(v) + 1 - Base(v)
    <2>1. Base(v) + i # Now(v)
        BY <1>7, <1>16 DEF Now
    <2>2. PICK b \in Nat : b = Base(v)
        BY <1>2
    <2>3. PICK c \in Nat : c = Now(v)
        BY <1>2
    <2>4. PICK w : w = Where(v, n)
        OBVIOUS
    <2>5. c <= w /\ (w <= c \/ (w = c + 1 /\ IsLast(v, Base(v), Now(v)))) /\ w = b + i /\ w # c
        BY <1>14, <1>15, <2>1, <2>2, <2>3, <2>4
    <2>6. w = c + 1 /\ i = c + 1 - b
        BY <1>17, <2>5
    <2> QED BY <2>2, <2>3, <2>4, <2>5, <2>6
<1>19. Now(v)' = Now(v) + 1
    BY <1>7, <1>15, <1>16, <1>18 DEF Now
<1> QED BY <1>6, <1>7, <1>8, <1>9, <1>12, <1>13, <1>14, <1>18, <1>19

(* The number of the segment in use, or of the one last chosen, changes    *)
(* with a plan or a report only.                                           *)
LEMMA ChoiceIs ==
    ASSUME NEW v, Ready(v)
    PROVE  \/ Takes(v)
           \/ Reads(v) /\ ~KeepsChoice(v) /\ KeepsPlan(v) /\ ~Takes(v)
           \/ KeepsPlan(v) /\ Now(v)' = Now(v) /\ ~Takes(v)
<1>1. StepOf(v) /\ (Takes(v) \/ KeepsPlan(v))
    BY NumbersKept DEF Ready, InTurn
<1>2. CASE Takes(v)
    BY <1>2
<1>3. CASE ~Takes(v) /\ ~Reads(v)
    BY <1>1, <1>3 DEF StepOf, Publishes, Hears, Sends, HasSent, Accepts, Flies, TurnsTo, KeepsChoice, Now
<1>4. CASE ~Takes(v) /\ Reads(v)
    BY <1>1, <1>4 DEF KeepsChoice, Now
<1> QED BY <1>2, <1>3, <1>4

LEMMA CountedStays ==
    ASSUME NEW v, Ready(v)
    PROVE  Counted(v)'
<1>1. /\ v \in Vehicle /\ ManagerTypeOK /\ PlansCut /\ Counted(v)
    BY DEF Ready, Takable, InTurn
<1>2. Now(v) \in Nat /\ commandIDs[v] \in Nat /\ Base(v) \in Nat
    BY <1>1, VehicleIs
<1>3. CASE Takes(v)
    <2>1. CASE assigned'[v].waypoints = <<>>
        <3>1. Now(v)' = Now(v) /\ Base(v)' = commandIDs[v] /\ commandIDs'[v] = commandIDs[v]
            BY <1>3, <2>1, TakesIs DEF KeepsChoice, Now
        <3> QED BY <1>1, <1>2, <2>1, <3>1 DEF Counted
    <2>2. CASE assigned'[v].waypoints # <<>>
        <3>1. /\ AreSegments(m_missionSegments'[v], assigned'[v].waypoints, commandIDs[v],
                             Len(assigned'[v].waypoints))
              /\ commandIDs'[v] = commandIDs[v] + Len(m_missionSegments'[v]) + 1
              /\ Now(v)' = commandIDs[v] + 1 /\ Base(v)' = commandIDs[v]
            BY <1>3, <2>2, TakesIs
        <3>2. m_missionSegments'[v] \in Seq(SegmentType) /\ m_missionSegments'[v] # <<>>
            BY <3>1 DEF AreSegments
        <3>3. PICK l \in Nat : l = Len(m_missionSegments'[v]) /\ l >= 1 /\ DOMAIN m_missionSegments'[v] = 1 .. l
            BY <3>2
        <3>4. Now(v)' - Base(v)' \in DOMAIN m_missionSegments'[v]
            BY <1>2, <3>1, <3>3
        <3>5. Now(v)' <= commandIDs'[v] /\ Base(v)' + Len(m_missionSegments'[v]) <= commandIDs'[v]
            BY <1>2, <3>1, <3>3
        <3> QED BY <2>2, <3>4, <3>5 DEF Counted
    <2> QED BY <2>1, <2>2
<1>4. CASE Reads(v) /\ ~KeepsChoice(v) /\ KeepsPlan(v)
    <2>1. /\ assigned[v].waypoints # <<>> /\ Now(v)' = Now(v) + 1
          /\ Now(v) + 1 - Base(v) \in DOMAIN m_missionSegments[v]
        BY <1>4, ReadsIs
    <2>2. /\ commandIDs'[v] = commandIDs[v] /\ m_missionSegments'[v] = m_missionSegments[v]
          /\ assigned'[v] = assigned[v] /\ Base(v)' = Base(v)
        BY <1>4 DEF KeepsPlan, Base
    <2>3. Now(v)' - Base(v)' \in DOMAIN m_missionSegments'[v]
        <3>1. Now(v)' - Base(v)' = Now(v) + 1 - Base(v)
            BY <1>2, <2>1, <2>2
        <3>2. DOMAIN m_missionSegments'[v] = DOMAIN m_missionSegments[v]
            BY <2>2
        <3> QED BY <2>1, <3>1, <3>2
    <2>4. Base(v) + Len(m_missionSegments[v]) <= commandIDs[v]
        BY <1>1, <2>1 DEF Counted
    <2>5. Now(v)' <= commandIDs'[v]
        <3>1. m_missionSegments[v] \in Seq(SegmentType)
            BY <1>1, VehicleIs
        <3>2. PICK l \in Nat : l = Len(m_missionSegments[v]) /\ DOMAIN m_missionSegments[v] = 1 .. l
            BY <3>1
        <3> QED BY <1>2, <2>1, <2>2, <2>4, <3>2
    <2> QED BY <2>1, <2>2, <2>3, <2>4, <2>5 DEF Counted
<1>5. CASE KeepsPlan(v) /\ Now(v)' = Now(v)
    BY <1>1, <1>5 DEF Counted, KeepsPlan, Base
<1> QED BY <1>3, <1>4, <1>5, ChoiceIs

LEMMA SegmentNumbers ==
    ASSUME NEW plan \in MissionPlan, NEW segments, NEW base, AreSegments(segments, plan, base, Len(plan)),
           NEW s \in DOMAIN segments
    PROVE  Numbers(segments[s].waypoints) \subseteq Numbers(plan)
BY InSegment DEF Numbers

(* Commands of a plan that is replaced are old.                            *)
LEMMA CommandsAge ==
    ASSUME NEW v, Ready(v)
    PROVE  /\ Takes(v) => OldCommands(v) \cup NewCommands(v) \subseteq OldCommands(v)'
           /\ KeepsPlan(v) => OldCommands(v) \subseteq OldCommands(v)'
           /\ KeepsPlan(v) /\ Now(v)' = Now(v) => NewCommands(v) \subseteq NewCommands(v)'
<1>1. /\ v \in Vehicle /\ ManagerTypeOK /\ PlansCut /\ Counted(v)
      /\ Past(v) \subseteq Past(v)' /\ (Takes(v) => Current(v) \subseteq Past(v)')
    BY NumbersKept DEF Ready, Takable, InTurn
<1>2. /\ Now(v) \in Nat /\ commandIDs[v] \in Nat /\ Base(v) \in Nat /\ assigned[v].waypoints \in MissionPlan
      /\ m_missionSegments[v] \in Seq(SegmentType)
      /\ IF assigned[v].waypoints = <<>> THEN m_missionSegments[v] = <<>>
         ELSE AreSegments(m_missionSegments[v], assigned[v].waypoints, Base(v),
                          Len(assigned[v].waypoints))
    BY <1>1, VehicleIs
<1>3. \A c \in CommandType : c.base \in Nat /\ c.command \in Nat
    BY DEF CommandType, SegmentType
<1>4. ASSUME Takes(v), NEW c \in OldCommands(v)
      PROVE  c \in OldCommands(v)'
    <2>1. Base(v)' = commandIDs[v]
        BY <1>4, TakesIs
    <2>2. Base(v) <= commandIDs[v]
        <3>1. CASE assigned[v].waypoints = <<>>
            BY <1>1, <3>1 DEF Counted
        <3>2. CASE assigned[v].waypoints # <<>>
            <4>1. Base(v) + Len(m_missionSegments[v]) <= commandIDs[v] /\ Len(m_missionSegments[v]) \in Nat
                BY <1>1, <1>2, <3>2 DEF Counted
            <4> QED BY <1>2, <4>1
        <3> QED BY <3>1, <3>2
    <2>3. c \in CommandType /\ c.base < Base(v) /\ c.command <= Base(v) /\ Numbers(c.waypoints) \subseteq Past(v)
        BY DEF OldCommands
    <2>4. c.base < Base(v)' /\ c.command <= Base(v)' /\ Numbers(c.waypoints) \subseteq Past(v)'
        BY <1>1, <1>2, <1>3, <2>1, <2>2, <2>3
    <2> QED BY <2>3, <2>4 DEF OldCommands
<1>5. ASSUME Takes(v), NEW c \in NewCommands(v)
      PROVE  c \in OldCommands(v)'
    <2>1. Base(v)' = commandIDs[v]
        BY <1>5, TakesIs
    <2>2. /\ c \in CommandType /\ assigned[v].waypoints # <<>> /\ c.base = Base(v) /\ c.command = Now(v)
          /\ c.waypoints = m_missionSegments[v][Now(v) - Base(v)].waypoints
        BY DEF NewCommands
    <2>3. Now(v) - Base(v) \in DOMAIN m_missionSegments[v] /\ Now(v) <= commandIDs[v]
        BY <1>1, <2>2 DEF Counted
    <2>4. Base(v) < commandIDs[v]
        BY <1>2, <2>3
    <2>5. Numbers(c.waypoints) \subseteq Current(v)
        BY <1>2, <2>2, <2>3, SegmentNumbers DEF Current
    <2>6. c.base < Base(v)' /\ c.command <= Base(v)' /\ Numbers(c.waypoints) \subseteq Past(v)'
        BY <1>1, <1>5, <2>1, <2>2, <2>3, <2>4, <2>5
    <2> QED BY <2>2, <2>6 DEF OldCommands
<1>6. ASSUME KeepsPlan(v), NEW c \in OldCommands(v)
      PROVE  c \in OldCommands(v)'
    <2>1. Base(v)' = Base(v)
        BY <1>6 DEF KeepsPlan, Base
    <2> QED BY <1>1, <2>1 DEF OldCommands
<1>7. ASSUME KeepsPlan(v), Now(v)' = Now(v), NEW c \in NewCommands(v)
      PROVE  c \in NewCommands(v)'
    BY <1>7 DEF NewCommands, KeepsPlan, Base
<1> QED BY <1>4, <1>5, <1>6, <1>7

(* The command for a segment that is entered at one of its waypoints.      *)
LEMMA CommandForNew ==
    ASSUME NEW plan \in MissionPlan, NEW segments, NEW base \in Nat,
           AreSegments(segments, plan, base, Len(plan)), NEW n \in Nat, NEW i \in Having(segments, n)
    PROVE  LET c == CommandFor(segments[i], n)
           IN  /\ c \in CommandType /\ c.base = base /\ c.command = base + i
               /\ c.waypoints = segments[i].waypoints
               /\ \E k \in DOMAIN c.waypoints : c.waypoints[k].number = c.first /\ (k > 1 \/ Len(plan) = 1)
<1>1. i \in DOMAIN segments /\ \E k \in DOMAIN segments[i].waypoints : segments[i].waypoints[k].number = n
    BY DEF Having
<1>2. IsSegment(segments[i], plan) /\ segments[i].base = base /\ segments[i].command = base + i
    BY <1>1 DEF AreSegments
<1>3. /\ CommandFor(segments[i], n) \in CommandType
      /\ CommandFor(segments[i], n).base = segments[i].base
      /\ CommandFor(segments[i], n).command = segments[i].command
      /\ CommandFor(segments[i], n).waypoints = segments[i].waypoints
      /\ \E k \in DOMAIN segments[i].waypoints :
            /\ segments[i].waypoints[k].number = CommandFor(segments[i], n).first
            /\ k > 1 \/ Len(segments[i].waypoints) = 1
    BY <1>1, <1>2, CommandForIs
<1>4. Len(segments[i].waypoints) = 1 => Len(plan) = 1
    BY <1>1, OneWaypoint
<1> QED BY <1>2, <1>3, <1>4

(* What a step does to the orders of a vehicle.                            *)
Quiet(v) == KeepsPlan(v) /\ KeepsChoice(v) /\ KeepsOrders(v) /\ commands'[v] = commands[v]
LEMMA KindIs ==
    ASSUME NEW v, Ready(v)
    PROVE  \/ Takes(v) \/ Quiet(v) \/ Sends(v) \/ HasSent(v) \/ Accepts(v)
           \/ Reads(v) /\ ~KeepsChoice(v)
BY DEF Ready, StepOf, Publishes, Hears, Reads, Flies, TurnsTo, KeepsCourse, KeepsOrders, Quiet

LEMMA OrdersAre ==
    ASSUME NEW v \in Vehicle, ManagerTypeOK
    PROVE  /\ Len(toVehicle[v]) \in Nat /\ DOMAIN toVehicle[v] = 1 .. Len(toVehicle[v])
           /\ \A i \in DOMAIN toVehicle[v] :
                 /\ toVehicle[v][i].command \in CommandType
                 /\ toVehicle[v][i].command.command \in Nat /\ toVehicle[v][i].command.base \in Nat
           /\ nextMissionCommandToSend[v] # <<>> =>
                 /\ nextMissionCommandToSend[v][1] \in CommandType
                 /\ nextMissionCommandToSend[v][1].command \in Nat
                 /\ nextMissionCommandToSend[v][1].base \in Nat
           /\ commands[v] # <<>> => Last(commands[v]).base \in Nat /\ Last(commands[v]).command \in Nat
           /\ \A x \in [base : Nat, command : Nat] : Last(Append(commands[v], x)) = x
<1>1. \A c \in CommandType : c.base \in Nat /\ c.command \in Nat
    BY DEF CommandType, SegmentType
<1>2. toVehicle[v] \in Seq(Order) /\ nextMissionCommandToSend[v] \in Seq(CommandType)
      /\ commands[v] \in Seq([base : Nat, command : Nat])
    BY DEF ManagerTypeOK
<1>3. \A i \in DOMAIN toVehicle[v] : toVehicle[v][i].command \in CommandType
    <2>1. \A i \in DOMAIN toVehicle[v] : toVehicle[v][i] \in Order
        BY <1>2
    <2> QED BY <2>1 DEF Order
<1>4. nextMissionCommandToSend[v] # <<>> => nextMissionCommandToSend[v][1] \in CommandType
    BY <1>2
<1>5. commands[v] # <<>> => Last(commands[v]) \in [base : Nat, command : Nat]
    <2> DEFINE R == [base : Nat, command : Nat]
    <2>1. PICK q \in Seq(R) : q = commands[v]
        BY <1>2
    <2> HIDE DEF R
    <2>2. q # <<>> => q[Len(q)] \in R
        OBVIOUS
    <2> QED BY <2>1, <2>2 DEF Last, R
<1>6. \A x \in [base : Nat, command : Nat] : Last(Append(commands[v], x)) = x
    <2>1. PICK q \in Seq([base : Nat, command : Nat]) : q = commands[v]
        BY <1>2
    <2> QED BY <2>1 DEF Last
<1>7. Len(toVehicle[v]) \in Nat /\ DOMAIN toVehicle[v] = 1 .. Len(toVehicle[v])
    BY <1>2
<1> QED BY <1>1, <1>3, <1>4, <1>5, <1>6, <1>7

(* The vehicle was given the segment before last, so none is under way.    *)
LEMMA NoneUnderWay ==
    ASSUME NEW v, Ready(v), IsLast(v, Base(v), Now(v))
    PROVE  toVehicle[v] = <<>>
<1>1. v \in Vehicle /\ ManagerTypeOK /\ PlansCut /\ OrdersGrow(v) /\ OrdersFit(v)
    BY DEF Ready, Takable, InTurn
<1>2. commands[v] # <<>> /\ Last(commands[v]).command = Now(v)
    BY DEF IsLast
<1> SUFFICES ASSUME toVehicle[v] # <<>> PROVE FALSE
    OBVIOUS
<1>3. 1 \in DOMAIN toVehicle[v]
    <2>1. toVehicle[v] \in Seq(Order)
        BY <1>1 DEF ManagerTypeOK
    <2> QED BY <2>1
<1>4. Now(v) < toVehicle[v][1].command.command
    BY <1>1, <1>2, <1>3 DEF OrdersGrow
<1>5. toVehicle[v][1].command.command <= Now(v)
    BY <1>1, <1>3 DEF OrdersFit
<1>6. Now(v) \in Nat /\ toVehicle[v][1].command.command \in Nat
    BY <1>1, <1>3, OrdersAre, VehicleIs
<1> QED BY <1>4, <1>5, <1>6

(* What is sent next is new, after a plan was taken or a segment changed.  *)
LEMMA NextIsNew ==
    ASSUME NEW v, Ready(v), (Takes(v) /\ assigned'[v].waypoints # <<>>) \/ (Reads(v) /\ ~KeepsChoice(v))
    PROVE  /\ nextMissionCommandToSend'[v][1] \in NewCommands(v)'
           /\ nextMissionCommandToSend'[v][1].command = Now(v)'
           /\ nextMissionCommandToSend'[v][1].base = Base(v)'
           /\ Now(v) < Now(v)' /\ Now(v)' \in Nat
<1>1. /\ v \in Vehicle /\ ManagerTypeOK /\ PlansCut /\ Counted(v)
    BY DEF Ready, Takable, InTurn
<1>2. /\ Now(v) \in Nat /\ commandIDs[v] \in Nat /\ Base(v) \in Nat /\ Now(v) <= commandIDs[v]
      /\ assigned[v].waypoints \in MissionPlan
      /\ m_missionSegments[v] \in Seq(SegmentType)
      /\ IF assigned[v].waypoints = <<>> THEN m_missionSegments[v] = <<>>
         ELSE AreSegments(m_missionSegments[v], assigned[v].waypoints, Base(v),
                          Len(assigned[v].waypoints))
    BY <1>1, VehicleIs DEF Counted
<1>3. ASSUME NEW plan \in MissionPlan, plan # <<>>, plan = assigned'[v].waypoints,
             NEW s, s = m_missionSegments'[v], NEW b \in Nat, b = Base(v)', AreSegments(s, plan, b, Len(plan)),
             NEW n \in Nat, NEW i \in Having(s, n), Now(v)' = b + i, nextMissionCommandToSend'[v] = <<CommandFor(s[i], n)>>
      PROVE  /\ nextMissionCommandToSend'[v][1] \in NewCommands(v)'
             /\ nextMissionCommandToSend'[v][1].command = Now(v)'
             /\ nextMissionCommandToSend'[v][1].base = Base(v)'
    <2>1. PICK c : c = CommandFor(s[i], n)
        OBVIOUS
    <2>2. /\ c \in CommandType /\ c.base = b /\ c.command = b + i
          /\ c.waypoints = s[i].waypoints
          /\ \E k \in DOMAIN c.waypoints : c.waypoints[k].number = c.first /\ (k > 1 \/ Len(plan) = 1)
        BY <1>3, <2>1, CommandForNew
    <2>3. i \in Nat
        <3>1. s \in Seq(SegmentType)
            BY <1>3 DEF AreSegments
        <3> QED BY <3>1 DEF Having
    <2>4. i = Now(v)' - Base(v)'
        BY <1>3, <2>3
    <2>5. nextMissionCommandToSend'[v][1] = c
        BY <1>3, <2>1
    <2>6. c.waypoints = m_missionSegments'[v][Now(v)' - Base(v)'].waypoints
        BY <1>3, <2>2, <2>4
    <2>7. c \in NewCommands(v)'
        BY <1>3, <2>2, <2>6 DEF NewCommands
    <2> QED BY <1>3, <2>2, <2>5, <2>7
<1>4. CASE Takes(v) /\ assigned'[v].waypoints # <<>>
    <2>1. PICK plan : plan = assigned'[v].waypoints
        OBVIOUS
    <2>2. PICK s : s = m_missionSegments'[v]
        OBVIOUS
    <2>3. PICK b \in Nat : b = commandIDs[v]
        BY <1>2
    <2>4. /\ plan \in MissionPlan /\ plan # <<>> /\ AreSegments(s, plan, b, Len(plan))
          /\ Now(v)' = b + 1 /\ Base(v)' = b
          /\ nextMissionCommandToSend'[v] = <<CommandFor(s[1], plan[1].number)>>
        BY <1>4, <2>1, <2>2, <2>3, TakesIs
    <2>5. 1 \in DOMAIN plan /\ plan[1].number \in Nat
        BY <2>4, PlanIs
    <2>6. 1 \in Having(s, plan[1].number)
        <3>1. PICK i \in DOMAIN s : ChosenFor(s, plan, 1, i)
            BY <2>4, <2>5, OneChosen
        <3> QED BY <3>1 DEF ChosenFor
    <2>7. Now(v) < Now(v)' /\ Now(v)' \in Nat
        BY <1>2, <2>3, <2>4
    <2> QED BY <1>3, <2>1, <2>2, <2>4, <2>5, <2>6, <2>7
<1>5. CASE Reads(v) /\ ~KeepsChoice(v)
    <2>1. PICK plan : plan = assigned[v].waypoints
        OBVIOUS
    <2>2. PICK s : s = m_missionSegments[v]
        OBVIOUS
    <2>3. PICK b \in Nat : b = Base(v)
        BY <1>2
    <2>4. PICK n \in Nat : n = toManager[v][1].waypoint
        BY <1>5, ReadsIs
    <2>5. PICK i : i = Now(v) + 1 - Base(v)
        OBVIOUS
    <2>6. /\ plan # <<>> /\ Now(v)' = Now(v) + 1 /\ i \in DOMAIN s /\ i \in Having(s, n)
          /\ nextMissionCommandToSend'[v] = <<CommandFor(s[i], n)>>
        BY <1>5, <2>1, <2>2, <2>4, <2>5, ReadsIs
    <2>7. plan = assigned'[v].waypoints /\ s = m_missionSegments'[v] /\ b = Base(v)'
        BY <1>5, <2>1, <2>2, <2>3 DEF Reads, KeepsPlan, Base
    <2>8. plan \in MissionPlan /\ AreSegments(s, plan, b, Len(plan))
        BY <1>2, <2>1, <2>2, <2>3, <2>6
    <2>9. Now(v)' = b + i
        BY <1>2, <2>3, <2>5, <2>6
    <2> QED BY <1>2, <1>3, <2>6, <2>7, <2>8, <2>9
<1> QED BY <1>4, <1>5

(* The queue of orders after each kind of step.                            *)
LEMMA OrdersTail ==
    ASSUME NEW v \in Vehicle, ManagerTypeOK, Accepts(v)
    PROVE  /\ toVehicle[v] # <<>> /\ 1 \in DOMAIN toVehicle[v] /\ Head(toVehicle[v]) = toVehicle[v][1]
           /\ \A i \in DOMAIN toVehicle'[v] :
                 i \in Nat /\ i >= 1 /\ i + 1 \in DOMAIN toVehicle[v] /\ toVehicle'[v][i] = toVehicle[v][i + 1]
<1>1. PICK q \in Seq(Order) : q = toVehicle[v]
    BY DEF ManagerTypeOK
<1>2. q # <<>> /\ toVehicle'[v] = Tail(q)
    BY <1>1 DEF Accepts
<1>3. PICK t : t = Tail(q)
    OBVIOUS
<1>4. /\ Len(q) \in Nat /\ DOMAIN q = 1 .. Len(q) /\ Len(q) >= 1 /\ q[1] = Head(q)
      /\ DOMAIN t = 1 .. Len(q) - 1 /\ \A i \in DOMAIN t : t[i] = q[i + 1]
    BY <1>2, <1>3, HeadTailProperties
<1>5. \A i \in DOMAIN t : i \in Nat /\ i >= 1 /\ i + 1 \in DOMAIN q
    BY <1>4
<1> QED BY <1>1, <1>2, <1>3, <1>4, <1>5

LEMMA OrdersMore ==
    ASSUME NEW v \in Vehicle, ManagerTypeOK, Sends(v)
    PROVE  \A i \in DOMAIN toVehicle'[v] :
              \/ i \in DOMAIN toVehicle[v] /\ toVehicle'[v][i] = toVehicle[v][i]
              \/ /\ i = Len(toVehicle[v]) + 1 /\ toVehicle'[v][i].command = nextMissionCommandToSend[v][1]
<1>1. PICK q \in Seq(Order) : q = toVehicle[v]
    BY DEF ManagerTypeOK
<1>2. PICK m : m = [type |-> "MissionCommand", vehicle |-> v, command |-> nextMissionCommandToSend[v][1]]
    OBVIOUS
<1>3. toVehicle'[v] = Append(q, m) /\ m.command = nextMissionCommandToSend[v][1]
    BY <1>1, <1>2 DEF Sends
<1>4. PICK r : r = Append(q, m)
    OBVIOUS
<1>5. /\ DOMAIN r = 1 .. Len(q) + 1 /\ DOMAIN q = 1 .. Len(q) /\ Len(q) \in Nat
      /\ r[Len(q) + 1] = m /\ \A i \in 1 .. Len(q) : r[i] = q[i]
    BY <1>4
<1>6. \A i \in DOMAIN r : (i \in DOMAIN q /\ r[i] = q[i]) \/ (i = Len(q) + 1 /\ r[i] = m)
    BY <1>5
<1> QED BY <1>1, <1>3, <1>4, <1>6

LEMMA OrdersFitStays ==
    ASSUME NEW v, Ready(v)
    PROVE  OrdersFit(v)'
<1>1. /\ v \in Vehicle /\ ManagerTypeOK /\ PlansCut /\ Counted(v) /\ OrdersFit(v)
    BY DEF Ready, Takable, InTurn
<1>2. Now(v) \in Nat
    BY <1>1, VehicleIs
<1>3. \A i \in DOMAIN toVehicle[v] :
          /\ toVehicle[v][i].command \in OldCommands(v) \cup NewCommands(v)
          /\ toVehicle[v][i].command.command <= Now(v) /\ toVehicle[v][i].command.command \in Nat
    BY <1>1, OrdersAre DEF OrdersFit
<1>4. nextMissionCommandToSend[v] # <<>> =>
          /\ nextMissionCommandToSend[v][1] \in OldCommands(v) \cup NewCommands(v)
          /\ nextMissionCommandToSend[v][1].command = Now(v)
    BY <1>1 DEF OrdersFit
<1>5. CASE Takes(v)
    <2>1. OldCommands(v) \cup NewCommands(v) \subseteq OldCommands(v)' /\ toVehicle'[v] = toVehicle[v]
        BY <1>5, CommandsAge DEF Takes, KeepsOrders
    <2>2. CASE assigned'[v].waypoints = <<>>
        <3>1. KeepsChoice(v) /\ Now(v)' = Now(v)
            BY <1>5, <2>2, TakesIs DEF KeepsChoice, Now
        <3> QED BY <1>3, <1>4, <2>1, <3>1 DEF OrdersFit, KeepsChoice
    <2>3. CASE assigned'[v].waypoints # <<>>
        <3>1. /\ nextMissionCommandToSend'[v][1] \in NewCommands(v)'
              /\ nextMissionCommandToSend'[v][1].command = Now(v)'
              /\ Now(v) < Now(v)' /\ Now(v)' \in Nat
            BY <1>5, <2>3, NextIsNew
        <3>2. \A i \in DOMAIN toVehicle'[v] : toVehicle'[v][i].command.command <= Now(v)'
            BY <1>2, <1>3, <2>1, <3>1
        <3> QED BY <1>3, <2>1, <3>1, <3>2 DEF OrdersFit
    <2> QED BY <2>2, <2>3
<1>6. CASE Reads(v) /\ ~KeepsChoice(v)
    <2>1. /\ nextMissionCommandToSend'[v][1] \in NewCommands(v)'
          /\ nextMissionCommandToSend'[v][1].command = Now(v)'
        BY <1>6, NextIsNew
    <2>2. toVehicle'[v] = <<>>
        BY <1>6, ReadsIs, NoneUnderWay DEF Reads, KeepsOrders
    <2>3. DOMAIN toVehicle'[v] = {}
        BY <2>2
    <2> QED BY <2>1, <2>3 DEF OrdersFit
<1>7. CASE Quiet(v) \/ Sends(v) \/ HasSent(v) \/ Accepts(v)
    <2>1. KeepsPlan(v) /\ Now(v)' = Now(v)
        BY <1>7 DEF Quiet, Sends, HasSent, Accepts, TurnsTo, KeepsChoice, Now
    <2>2. OldCommands(v) \cup NewCommands(v) \subseteq OldCommands(v)' \cup NewCommands(v)'
        BY <2>1, CommandsAge
    <2>3. nextMissionCommandToSend'[v] = nextMissionCommandToSend[v] \/ nextMissionCommandToSend'[v] = <<>>
        BY <1>7 DEF Quiet, Sends, HasSent, Accepts, TurnsTo, KeepsChoice
    <2>4. \A i \in DOMAIN toVehicle'[v] :
              \/ \E j \in DOMAIN toVehicle[v] : toVehicle'[v][i] = toVehicle[v][j]
              \/ /\ nextMissionCommandToSend[v] # <<>>
                 /\ toVehicle'[v][i].command = nextMissionCommandToSend[v][1]
        <3>1. CASE Quiet(v) \/ HasSent(v)
            BY <3>1 DEF Quiet, HasSent, KeepsOrders
        <3>2. CASE Sends(v)
            BY <1>1, <3>2, OrdersMore DEF Sends
        <3>3. CASE Accepts(v)
            BY <1>1, <3>3, OrdersTail
        <3> QED BY <1>7, <3>1, <3>2, <3>3
    <2>5. \A i \in DOMAIN toVehicle'[v] :
              /\ toVehicle'[v][i].command \in OldCommands(v)' \cup NewCommands(v)'
              /\ toVehicle'[v][i].command.command <= Now(v)'
        BY <1>2, <1>3, <1>4, <2>1, <2>2, <2>4
    <2>6. nextMissionCommandToSend'[v] # <<>> =>
              /\ nextMissionCommandToSend'[v][1] \in OldCommands(v)' \cup NewCommands(v)'
              /\ nextMissionCommandToSend'[v][1].command = Now(v)'
        BY <1>4, <2>1, <2>2, <2>3
    <2> QED BY <2>5, <2>6 DEF OrdersFit
<1> QED BY <1>5, <1>6, <1>7, KindIs

LEMMA OrdersGrowStays ==
    ASSUME NEW v, Ready(v)
    PROVE  OrdersGrow(v)'
<1>1. /\ v \in Vehicle /\ ManagerTypeOK /\ PlansCut /\ OrdersFit(v) /\ OrdersGrow(v)
    BY DEF Ready, Takable, InTurn
<1>2. Now(v) \in Nat
    BY <1>1, VehicleIs
<1>3. /\ Len(toVehicle[v]) \in Nat /\ DOMAIN toVehicle[v] = 1 .. Len(toVehicle[v])
      /\ \A i \in DOMAIN toVehicle[v] : toVehicle[v][i].command.command \in Nat
      /\ commands[v] # <<>> => Last(commands[v]).command \in Nat
    BY <1>1, OrdersAre
<1>4. \A i \in DOMAIN toVehicle[v] :
          /\ commands[v] # <<>> => Last(commands[v]).command < toVehicle[v][i].command.command
          /\ \A j \in DOMAIN toVehicle[v] : i < j =>
                toVehicle[v][i].command.command < toVehicle[v][j].command.command
          /\ ~sending[v] /\ nextMissionCommandToSend[v] # <<>> => toVehicle[v][i].command.command < Now(v)
          /\ toVehicle[v][i].command.command <= Now(v)
    BY <1>1 DEF OrdersGrow, OrdersFit
<1>5. commands[v] # <<>> => Last(commands[v]).command <= Now(v)
    BY <1>1 DEF OrdersGrow
<1>6. commands[v] # <<>> /\ ~sending[v] /\ nextMissionCommandToSend[v] # <<>> =>
          Last(commands[v]).command < Now(v)
    BY <1>1 DEF OrdersGrow
<1>7. ASSUME (Takes(v) /\ assigned'[v].waypoints # <<>>) \/ (Reads(v) /\ ~KeepsChoice(v))
      PROVE  OrdersGrow(v)'
    <2>1. Now(v) < Now(v)' /\ Now(v)' \in Nat
        BY <1>7, NextIsNew
    <2>2. toVehicle'[v] = toVehicle[v] /\ commands'[v] = commands[v]
        BY <1>7 DEF Takes, Reads, KeepsOrders, KeepsCourse
    <2>3. \A i \in DOMAIN toVehicle'[v] : toVehicle'[v][i].command.command < Now(v)'
        BY <1>2, <1>3, <1>4, <2>1, <2>2
    <2>4. commands'[v] # <<>> => Last(commands'[v]).command < Now(v)' /\ Last(commands'[v]).command <= Now(v)'
        BY <1>2, <1>3, <1>5, <2>1, <2>2
    <2> QED BY <1>4, <2>2, <2>3, <2>4 DEF OrdersGrow
<1>8. CASE Quiet(v) \/ (Takes(v) /\ assigned'[v].waypoints = <<>>)
    <2>1. KeepsChoice(v) /\ KeepsOrders(v) /\ commands'[v] = commands[v]
        BY <1>8, TakesIs DEF Quiet, Takes, KeepsCourse
    <2> QED BY <1>1, <2>1 DEF OrdersGrow, KeepsChoice, KeepsOrders, Now
<1>9. CASE HasSent(v)
    BY <1>1, <1>9 DEF OrdersGrow, HasSent, KeepsCourse, Now
<1>10. CASE Sends(v)
    <2>1. /\ ~sending[v] /\ sending'[v] /\ nextMissionCommandToSend[v] # <<>> /\ Now(v)' = Now(v)
          /\ commands'[v] = commands[v]
        BY <1>10 DEF Sends, KeepsChoice, KeepsCourse, Now
    <2>2. PICK c : c = nextMissionCommandToSend[v][1]
        OBVIOUS
    <2>3. c.command = Now(v)
        BY <1>1, <2>1, <2>2 DEF OrdersFit
    <2>4. \A i \in DOMAIN toVehicle'[v] :
              \/ i \in DOMAIN toVehicle[v] /\ toVehicle'[v][i] = toVehicle[v][i]
              \/ i = Len(toVehicle[v]) + 1 /\ toVehicle'[v][i].command = c
        BY <1>1, <1>10, <2>2, OrdersMore
    <2>5. \A i \in DOMAIN toVehicle'[v] :
              commands'[v] # <<>> => Last(commands'[v]).command < toVehicle'[v][i].command.command
        BY <1>4, <1>6, <2>1, <2>3, <2>4
    <2>6. ASSUME NEW i \in DOMAIN toVehicle'[v], NEW j \in DOMAIN toVehicle'[v], i < j
          PROVE  toVehicle'[v][i].command.command < toVehicle'[v][j].command.command
        <3>1. i \in DOMAIN toVehicle[v] /\ toVehicle'[v][i] = toVehicle[v][i]
            <4> SUFFICES ASSUME i = Len(toVehicle[v]) + 1 PROVE FALSE
                BY <2>4
            <4>1. j <= Len(toVehicle[v]) + 1 /\ j \in Nat
                BY <1>3, <2>4
            <4> QED BY <1>3, <2>6, <4>1
        <3>2. CASE j \in DOMAIN toVehicle[v] /\ toVehicle'[v][j] = toVehicle[v][j]
            BY <1>4, <2>6, <3>1, <3>2
        <3>3. CASE toVehicle'[v][j].command = c
            BY <1>4, <2>1, <2>3, <3>1, <3>3
        <3> QED BY <2>4, <3>2, <3>3
    <2> QED BY <1>5, <2>1, <2>5, <2>6 DEF OrdersGrow
<1>11. CASE Accepts(v)
    <2>1. /\ toVehicle[v] # <<>> /\ 1 \in DOMAIN toVehicle[v] /\ Head(toVehicle[v]) = toVehicle[v][1]
          /\ \A i \in DOMAIN toVehicle'[v] :
                i \in Nat /\ i >= 1 /\ i + 1 \in DOMAIN toVehicle[v] /\ toVehicle'[v][i] = toVehicle[v][i + 1]
        BY <1>1, <1>11, OrdersTail
    <2>2. PICK c \in CommandType : c = toVehicle[v][1].command
        BY <1>1, <2>1, OrdersAre
    <2>3. PICK x \in [base : Nat, command : Nat] : x = [base |-> c.base, command |-> c.command]
        BY DEF CommandType, SegmentType
    <2>4. commands'[v] = Append(commands[v], x)
        BY <1>11, <2>1, <2>2, <2>3 DEF Accepts
    <2>5. Last(commands'[v]).command = toVehicle[v][1].command.command
        BY <1>1, <2>2, <2>3, <2>4, OrdersAre
    <2>6. /\ Now(v)' = Now(v) /\ sending'[v] = sending[v]
          /\ nextMissionCommandToSend'[v] = nextMissionCommandToSend[v]
        BY <1>11 DEF Accepts, TurnsTo, KeepsChoice, Now
    <2>7. \A i \in DOMAIN toVehicle'[v] :
              /\ 1 < i + 1
              /\ \A j \in DOMAIN toVehicle'[v] : i < j => i + 1 < j + 1
        BY <2>1
    <2>8. \A i \in DOMAIN toVehicle'[v] :
              /\ Last(commands'[v]).command < toVehicle'[v][i].command.command
              /\ \A j \in DOMAIN toVehicle'[v] : i < j =>
                    toVehicle'[v][i].command.command < toVehicle'[v][j].command.command
              /\ ~sending'[v] /\ nextMissionCommandToSend'[v] # <<>> =>
                    toVehicle'[v][i].command.command < Now(v)'
        BY <1>4, <2>1, <2>5, <2>6, <2>7
    <2>9. /\ Last(commands'[v]).command <= Now(v)'
          /\ ~sending'[v] /\ nextMissionCommandToSend'[v] # <<>> => Last(commands'[v]).command < Now(v)'
        BY <1>4, <2>1, <2>5, <2>6
    <2> QED BY <2>8, <2>9 DEF OrdersGrow
<1> QED BY <1>7, <1>8, <1>9, <1>10, <1>11, KindIs

LEMMA OrdersFollowStays ==
    ASSUME NEW v, Ready(v)
    PROVE  OrdersFollow(v)'
<1>1. /\ v \in Vehicle /\ ManagerTypeOK /\ PlansCut /\ OrdersFit(v) /\ OrdersGrow(v) /\ OrdersFollow(v)
    BY DEF Ready, Takable, InTurn
<1>2. Now(v) \in Nat /\ Base(v) \in Nat /\ commandIDs[v] \in Nat
    BY <1>1, VehicleIs
<1>3. \A i \in DOMAIN toVehicle[v] :
          toVehicle[v][i].command.command # toVehicle[v][i].command.base + 1 =>
              i = 1 /\ IsLast(v, toVehicle[v][i].command.base, toVehicle[v][i].command.command - 1)
    BY <1>1 DEF OrdersFollow
<1>4. ~sending[v] /\ nextMissionCommandToSend[v] # <<>>
      /\ nextMissionCommandToSend[v][1].command # nextMissionCommandToSend[v][1].base + 1 =>
          toVehicle[v] = <<>>
          /\ IsLast(v, nextMissionCommandToSend[v][1].base, nextMissionCommandToSend[v][1].command - 1)
    BY <1>1 DEF OrdersFollow
<1>5. CASE Quiet(v) \/ (Takes(v) /\ assigned'[v].waypoints = <<>>)
    <2>1. KeepsChoice(v) /\ KeepsOrders(v) /\ commands'[v] = commands[v]
        BY <1>5, TakesIs DEF Quiet, Takes, KeepsCourse
    <2> QED BY <1>3, <1>4, <2>1 DEF OrdersFollow, KeepsChoice, KeepsOrders, IsLast
<1>6. CASE Takes(v) /\ assigned'[v].waypoints # <<>>
    <2>1. toVehicle'[v] = toVehicle[v] /\ commands'[v] = commands[v]
        BY <1>6 DEF Takes, KeepsOrders, KeepsCourse
    <2>2. nextMissionCommandToSend'[v][1].command = nextMissionCommandToSend'[v][1].base + 1
        <3>1. /\ nextMissionCommandToSend'[v][1].command = Now(v)'
              /\ nextMissionCommandToSend'[v][1].base = Base(v)'
            BY <1>6, NextIsNew
        <3>2. Now(v)' = commandIDs[v] + 1 /\ Base(v)' = commandIDs[v]
            BY <1>6, TakesIs
        <3> QED BY <3>1, <3>2
    <2> QED BY <1>3, <2>1, <2>2 DEF OrdersFollow, IsLast
<1>7. CASE Reads(v) /\ ~KeepsChoice(v)
    <2>1. toVehicle[v] = <<>> /\ toVehicle'[v] = <<>> /\ commands'[v] = commands[v]
        BY <1>7, ReadsIs, NoneUnderWay DEF Reads, KeepsOrders, KeepsCourse
    <2>2. IsLast(v, Base(v), Now(v)) /\ Now(v)' = Now(v) + 1
        BY <1>7, ReadsIs
    <2>3. /\ nextMissionCommandToSend'[v][1].command = Now(v)'
          /\ nextMissionCommandToSend'[v][1].base = Base(v)'
        BY <1>7, NextIsNew
    <2>4. Base(v)' = Base(v)
        BY <1>7 DEF Reads, KeepsPlan, Base
    <2>5. /\ nextMissionCommandToSend'[v][1].command - 1 = Now(v)
          /\ nextMissionCommandToSend'[v][1].base = Base(v)
        BY <1>2, <2>2, <2>3, <2>4
    <2>6. /\ commands'[v] # <<>>
          /\ Last(commands'[v]) = [base |-> nextMissionCommandToSend'[v][1].base,
                                   command |-> nextMissionCommandToSend'[v][1].command - 1]
        BY <2>1, <2>2, <2>5 DEF IsLast
    <2>7. DOMAIN toVehicle'[v] = {}
        BY <2>1
    <2> QED BY <2>1, <2>6, <2>7 DEF OrdersFollow, IsLast
<1>8. CASE HasSent(v)
    <2>1. /\ toVehicle'[v] = toVehicle[v] /\ commands'[v] = commands[v]
          /\ nextMissionCommandToSend'[v] = <<>>
        BY <1>8 DEF HasSent, KeepsCourse
    <2> QED BY <1>3, <2>1 DEF OrdersFollow, IsLast
<1>9. CASE Sends(v)
    <2>1. /\ ~sending[v] /\ sending'[v] /\ nextMissionCommandToSend[v] # <<>>
          /\ commands'[v] = commands[v]
        BY <1>9 DEF Sends, KeepsCourse
    <2>2. PICK c : c = nextMissionCommandToSend[v][1]
        OBVIOUS
    <2>3. c.command # c.base + 1 => toVehicle[v] = <<>> /\ IsLast(v, c.base, c.command - 1)
        BY <1>4, <2>1, <2>2
    <2>4. \A i \in DOMAIN toVehicle'[v] :
              \/ i \in DOMAIN toVehicle[v] /\ toVehicle'[v][i] = toVehicle[v][i]
              \/ i = Len(toVehicle[v]) + 1 /\ toVehicle'[v][i].command = c
        BY <1>1, <1>9, <2>2, OrdersMore
    <2>5. toVehicle[v] = <<>> => Len(toVehicle[v]) + 1 = 1
        OBVIOUS
    <2>6. \A i \in DOMAIN toVehicle'[v] :
              toVehicle'[v][i].command.command # toVehicle'[v][i].command.base + 1 =>
                  i = 1 /\ IsLast(v, toVehicle'[v][i].command.base, toVehicle'[v][i].command.command - 1)
        BY <1>3, <2>3, <2>4, <2>5
    <2> QED BY <2>1, <2>6 DEF OrdersFollow, IsLast
<1>10. CASE Accepts(v)
    <2>1. /\ toVehicle[v] # <<>>
          /\ \A i \in DOMAIN toVehicle'[v] :
                i \in Nat /\ i >= 1 /\ i + 1 \in DOMAIN toVehicle[v] /\ toVehicle'[v][i] = toVehicle[v][i + 1]
        BY <1>1, <1>10, OrdersTail
    <2>2. /\ sending'[v] = sending[v] /\ nextMissionCommandToSend'[v] = nextMissionCommandToSend[v]
        BY <1>10 DEF Accepts, TurnsTo, KeepsChoice
    <2>3. \A i \in DOMAIN toVehicle'[v] :
              toVehicle'[v][i].command.command = toVehicle'[v][i].command.base + 1
        <3>1. \A i \in DOMAIN toVehicle'[v] : i + 1 # 1
            BY <2>1
        <3> QED BY <1>3, <2>1, <3>1
    <2>4. ~sending'[v] /\ nextMissionCommandToSend'[v] # <<>> =>
              nextMissionCommandToSend'[v][1].command = nextMissionCommandToSend'[v][1].base + 1
        BY <1>4, <2>1, <2>2
    <2> QED BY <2>3, <2>4 DEF OrdersFollow
<1> QED BY <1>5, <1>6, <1>7, <1>8, <1>9, <1>10, KindIs

(* The commands the vehicle was given.                                     *)
Followed(v) ==
    \A i \in DOMAIN commands[v] :
        LET c == commands[v][i]
        IN  \/ c.command = c.base + 1
            \/ i > 1 /\ commands[v][i - 1] = [c EXCEPT !.command = @ - 1]
LEMMA FollowedStays ==
    ASSUME NEW v, Ready(v), Followed(v)
    PROVE  Followed(v)'
<1>1. v \in Vehicle /\ ManagerTypeOK /\ PlansCut /\ OrdersFollow(v)
    BY DEF Ready, Takable, InTurn
<1>2. CASE commands'[v] = commands[v]
    BY <1>2 DEF Followed
<1>3. CASE Accepts(v)
    <2>1. toVehicle[v] # <<>> /\ 1 \in DOMAIN toVehicle[v] /\ Head(toVehicle[v]) = toVehicle[v][1]
        BY <1>1, <1>3, OrdersTail
    <2>2. PICK c \in CommandType : c = toVehicle[v][1].command
        BY <1>1, <2>1, OrdersAre
    <2>3. PICK x : x = [base |-> c.base, command |-> c.command]
        OBVIOUS
    <2>4. c.base \in Nat /\ c.command \in Nat
        BY DEF CommandType, SegmentType
    <2> DEFINE R == [base : Nat, command : Nat]
    <2>5. x \in R /\ x.base = c.base /\ x.command = c.command
        BY <2>3, <2>4
    <2>6. PICK q \in Seq(R) : q = commands[v]
        BY <1>1, VehicleIs
    <2>7. commands'[v] = Append(q, x)
        BY <1>3, <2>1, <2>2, <2>3, <2>6 DEF Accepts
    <2>8. \/ x.command = x.base + 1
          \/ q # <<>> /\ Last(q) = [x EXCEPT !.command = x.command - 1]
        <3>1. CASE c.command = c.base + 1
            BY <2>5, <3>1
        <3>2. CASE c.command # c.base + 1
            <4>1. IsLast(v, c.base, c.command - 1)
                BY <1>1, <2>1, <2>2, <3>2 DEF OrdersFollow
            <4>2. q # <<>> /\ Last(q) = [base |-> c.base, command |-> c.command - 1]
                BY <2>6, <4>1 DEF IsLast
            <4>3. [x EXCEPT !.command = x.command - 1] = [base |-> c.base, command |-> c.command - 1]
                BY <2>3
            <4> QED BY <4>2, <4>3
        <3> QED BY <3>1, <3>2
    <2> HIDE DEF R
    <2>9. PICK r : r = Append(q, x)
        OBVIOUS
    <2>10. /\ DOMAIN r = 1 .. Len(q) + 1 /\ DOMAIN q = 1 .. Len(q) /\ Len(q) \in Nat
           /\ r[Len(q) + 1] = x /\ \A i \in 1 .. Len(q) : r[i] = q[i]
           /\ q # <<>> => Len(q) >= 1
        BY <2>9
    <2>11. ASSUME NEW i \in DOMAIN r
           PROVE  \/ r[i].command = r[i].base + 1
                  \/ i > 1 /\ r[i - 1] = [r[i] EXCEPT !.command = r[i].command - 1]
        <3>1. CASE i \in DOMAIN q
            <4>1. r[i] = q[i] /\ (i > 1 => i - 1 \in DOMAIN q)
                BY <2>10, <3>1
            <4>2. i > 1 => r[i - 1] = q[i - 1]
                BY <2>10, <4>1
            <4>3. \/ q[i].command = q[i].base + 1
                  \/ i > 1 /\ q[i - 1] = [q[i] EXCEPT !.command = q[i].command - 1]
                BY <2>6, <3>1 DEF Followed
            <4> QED BY <4>1, <4>2, <4>3
        <3>2. CASE i = Len(q) + 1
            <4>1. r[i] = x /\ i - 1 = Len(q) /\ (q # <<>> => i > 1 /\ Len(q) \in 1 .. Len(q))
                BY <2>10, <3>2
            <4>2. q # <<>> => r[i - 1] = Last(q)
                BY <2>10, <4>1 DEF Last
            <4> QED BY <2>8, <4>1, <4>2
        <3> QED BY <2>10, <3>1, <3>2
    <2> QED BY <2>7, <2>9, <2>11 DEF Followed
<1>4. commands'[v] = commands[v] \/ Accepts(v)
    BY KindIs DEF Takes, Quiet, Sends, HasSent, Reads, KeepsCourse
<1> QED BY <1>2, <1>3, <1>4

-----------------------------------------------------------------------------
(* The places of the waypoints of one segment.                             *)
LEMMA AlongSegment ==
    ASSUME NEW plan \in MissionPlan, NEW segments, NEW base \in Nat,
           AreSegments(segments, plan, base, Len(plan)), NEW s \in DOMAIN segments,
           NEW at \in DOMAIN segments[s].waypoints
    PROVE  /\ segments[s].waypoints[at].number \in Numbers(plan)
           /\ at > 1 \/ Len(plan) = 1 =>
                 Place(base, segments, segments[s].waypoints[at].number) \in {base + s, base + s + 1}
           /\ \A to \in DOMAIN segments[s].waypoints :
                 /\ segments[s].waypoints[to].number = segments[s].waypoints[at].number => to = at
                 /\ at <= to => Place(base, segments, segments[s].waypoints[at].number)
                                    <= Place(base, segments, segments[s].waypoints[to].number)
<1>1. PICK k \in DOMAIN plan :
          /\ k = Begin(segments[s], plan) + at - 1
          /\ Begin(segments[s], plan) <= k /\ k <= End(segments[s], plan)
          /\ at > 1 => Begin(segments[s], plan) < k
          /\ segments[s].waypoints[at] = plan[k]
    BY InSegment
<1>2. segments[s].waypoints[at].number \in Numbers(plan)
    BY <1>1 DEF Numbers
<1>3. ASSUME at > 1 \/ Len(plan) = 1
      PROVE  Place(base, segments, segments[s].waypoints[at].number) \in {base + s, base + s + 1}
    <2>1. Begin(segments[s], plan) < k \/ Len(plan) = 1
        BY <1>1, <1>3
    <2>2. Place(base, segments, plan[k].number) \in {base + s, base + s + 1}
        BY <1>1, <2>1, PlaceNear
    <2> QED BY <1>1, <2>2
<1>4. ASSUME NEW to \in DOMAIN segments[s].waypoints
      PROVE  /\ segments[s].waypoints[to].number = segments[s].waypoints[at].number => to = at
             /\ at <= to => Place(base, segments, segments[s].waypoints[at].number)
                                <= Place(base, segments, segments[s].waypoints[to].number)
    <2>1. PICK l \in DOMAIN plan :
              l = Begin(segments[s], plan) + to - 1 /\ segments[s].waypoints[to] = plan[l]
        BY InSegment
    <2>2. Begin(segments[s], plan) \in Nat /\ at \in Nat /\ to \in Nat
        <3>1. segments[s].waypoints \in Seq(Waypoint)
            BY Places DEF IsSegment, SegmentType
        <3>2. \A j \in DOMAIN segments[s].waypoints : j \in Nat
            BY <3>1
        <3> QED BY <3>2, Places
    <2>3. plan[l].number = plan[k].number => l = k
        BY PlanIs
    <2>4. l = k => to = at
        BY <1>1, <2>1, <2>2
    <2>5. at <= to => k <= l
        BY <1>1, <2>1, <2>2
    <2>6. k <= l => Place(base, segments, plan[k].number) <= Place(base, segments, plan[l].number)
        BY PlaceGrows
    <2> QED BY <1>1, <2>1, <2>3, <2>4, <2>5, <2>6
<1> QED BY <1>2, <1>3, <1>4

(***************************************************************************)
(* The vehicle turns to waypoint h: of a segment of its plan, not before   *)
(* the one last chosen and at most one after it, or of a plan that is past.*)
(***************************************************************************)
LEMMA AcceptsIs ==
    ASSUME NEW v, Ready(v), Accepts(v), NEW h, h = Heading(v)'
    PROVE  /\ CourseFits(v)'
           /\ ~OnPlan(v)' => h \in Past(v) /\ ~OnPlan(v)
           /\ OnPlan(v)' => /\ h \in Current(v) /\ Now(v) <= Where(v, h)
                            /\ Where(v, h) <= Now(v) \/ Where(v, h) = Now(v) + 1
                            /\ IsLast(v, Base(v), Now(v))'
<1>1. /\ v \in Vehicle /\ ManagerTypeOK /\ PlansCut /\ Counted(v) /\ OrdersFit(v) /\ OrdersGrow(v)
      /\ CourseFits(v) /\ Past(v) \subseteq Past(v)'
    BY NumbersKept DEF Ready, Takable, InTurn
<1>2. /\ Now(v) \in Nat /\ Base(v) \in Nat /\ assigned[v].waypoints \in MissionPlan
      /\ IF assigned[v].waypoints = <<>> THEN m_missionSegments[v] = <<>>
         ELSE AreSegments(m_missionSegments[v], assigned[v].waypoints, Base(v),
                          Len(assigned[v].waypoints))
      /\ m_missionSegments[v] \in Seq(SegmentType)
    BY <1>1, VehicleIs
<1>3. /\ toVehicle[v] # <<>> /\ 1 \in DOMAIN toVehicle[v] /\ Head(toVehicle[v]) = toVehicle[v][1]
    BY <1>1, OrdersTail
<1>4. PICK c \in CommandType : c = toVehicle[v][1].command
    BY <1>1, <1>3, OrdersAre
<1>5. c.base \in Nat /\ c.command \in Nat
    BY DEF CommandType, SegmentType
<1>6. PICK x \in [base : Nat, command : Nat] : x = [base |-> c.base, command |-> c.command]
    BY <1>5
<1>7. commands'[v] = Append(commands[v], x) /\ commands'[v] # <<>> /\ Last(commands'[v]) = x
    <2>1. commands'[v] = Append(commands[v], x)
        BY <1>3, <1>4, <1>6 DEF Accepts
    <2>2. Append(commands[v], x) # <<>>
        <3> DEFINE R == [base : Nat, command : Nat]
        <3>1. PICK q \in Seq(R) : q = commands[v]
            BY <1>1, VehicleIs
        <3> HIDE DEF R
        <3>2. Len(Append(q, x)) = Len(q) + 1 /\ Len(q) \in Nat
            OBVIOUS
        <3>3. Append(q, x) # <<>>
            BY <3>2
        <3> QED BY <3>1, <3>3
    <2> QED BY <1>1, <2>1, <2>2, OrdersAre
<1>8. x.base = c.base /\ x.command = c.command
    BY <1>6
<1>9. PICK at : at = course'[v].at
    OBVIOUS
<1>10. /\ course'[v].base = c.base /\ course'[v].waypoints = c.waypoints
       /\ at \in DOMAIN c.waypoints /\ c.waypoints[at].number = c.first
       /\ h = c.waypoints[at].number
       /\ KeepsPlan(v) /\ Now(v)' = Now(v)
    BY <1>3, <1>4, <1>9 DEF Accepts, TurnsTo, Heading, KeepsChoice, Now
<1>11. course'[v] # OnGround
    BY <1>10 DEF OnGround
<1>12. /\ Base(v)' = Base(v) /\ m_missionSegments'[v] = m_missionSegments[v]
       /\ assigned'[v] = assigned[v]
    BY <1>10 DEF KeepsPlan, Base
<1>13. OnPlan(v)' <=> assigned[v].waypoints # <<>> /\ c.base = Base(v)
    BY <1>7, <1>8, <1>12 DEF OnPlan
<1>14. ASSUME c \in OldCommands(v)
       PROVE  ~OnPlan(v)' /\ CourseFits(v)' /\ h \in Past(v) /\ ~OnPlan(v)
    <2>1. c.base < Base(v) /\ c.command <= Base(v) /\ Numbers(c.waypoints) \subseteq Past(v)
        BY <1>14 DEF OldCommands
    <2>2. ~OnPlan(v)'
        BY <1>2, <1>5, <1>13, <2>1
    <2>3. h \in Past(v)
        BY <1>10, <2>1 DEF Numbers
    <2>4. CourseFits(v)'
        BY <1>1, <1>7, <1>8, <1>10, <1>11, <1>12, <2>1, <2>2 DEF CourseFits
    <2>5. ~OnPlan(v)
        <3> SUFFICES ASSUME OnPlan(v) PROVE FALSE
            OBVIOUS
        <3>1. /\ commands[v] # <<>> /\ Last(commands[v]).command < c.command
              /\ Last(commands[v]).command - Base(v) \in DOMAIN m_missionSegments[v]
              /\ Last(commands[v]).command \in Nat
            BY <1>1, <1>3, <1>4, OrdersAre DEF OrdersGrow, CourseFits, OnPlan
        <3>2. Last(commands[v]).command - Base(v) >= 1
            BY <1>2, <3>1
        <3> QED BY <1>2, <1>5, <2>1, <3>1, <3>2
    <2> QED BY <2>2, <2>3, <2>4, <2>5
<1>15. ASSUME c \in NewCommands(v)
       PROVE  /\ OnPlan(v)' /\ CourseFits(v)' /\ h \in Current(v) /\ Now(v) <= Where(v, h)
              /\ Where(v, h) <= Now(v) \/ Where(v, h) = Now(v) + 1
              /\ IsLast(v, Base(v), Now(v))'
    <2>1. PICK plan : plan = assigned[v].waypoints
        OBVIOUS
    <2>2. PICK s : s = m_missionSegments[v]
        OBVIOUS
    <2>3. PICK b \in Nat : b = Base(v)
        BY <1>2
    <2>4. PICK i : i = Now(v) - Base(v)
        OBVIOUS
    <2>5. /\ plan # <<>> /\ c.base = b /\ c.command = Now(v) /\ c.waypoints = s[i].waypoints
          /\ \E k \in DOMAIN c.waypoints : c.waypoints[k].number = c.first /\ (k > 1 \/ Len(plan) = 1)
        BY <1>15, <2>1, <2>2, <2>3, <2>4 DEF NewCommands
    <2>6. i \in DOMAIN s /\ i \in Nat
        BY <1>1, <1>2, <2>1, <2>2, <2>4, <2>5 DEF Counted
    <2>7. plan \in MissionPlan /\ AreSegments(s, plan, b, Len(plan))
        BY <1>2, <2>1, <2>2, <2>3, <2>5
    <2>8. PICK k \in DOMAIN s[i].waypoints : s[i].waypoints[k].number = c.first /\ (k > 1 \/ Len(plan) = 1)
        BY <2>5
    <2>9. at \in DOMAIN s[i].waypoints /\ s[i].waypoints[at].number = c.first
        BY <1>10, <2>5
    <2>10. k = at
        BY <2>6, <2>7, <2>8, <2>9, AlongSegment
    <2>11. h \in Numbers(plan) /\ Place(b, s, h) \in {b + i, b + i + 1}
        <3>1. h = s[i].waypoints[at].number
            BY <1>10, <2>5
        <3> QED BY <2>6, <2>7, <2>8, <2>9, <2>10, <3>1, AlongSegment
    <2>12. b + i = Now(v)
        BY <1>2, <2>3, <2>4
    <2>13. Where(v, h) \in {Now(v), Now(v) + 1}
        BY <2>2, <2>3, <2>11, <2>12 DEF Where
    <2>14. Now(v) <= Where(v, h) /\ (Where(v, h) <= Now(v) \/ Where(v, h) = Now(v) + 1)
        BY <1>2, <2>13
    <2>15. OnPlan(v)'
        BY <1>13, <2>1, <2>3, <2>5
    <2>16. h \in Current(v)
        BY <2>1, <2>11 DEF Current
    <2>17. IsLast(v, Base(v), Now(v))'
        BY <1>6, <1>7, <1>10, <1>12, <2>3, <2>5 DEF IsLast
    <2>18. Now(v)' <= Where(v, Heading(v))'
        <3>1. Where(v, Heading(v))' = Where(v, h)
            BY <1>12 DEF Where
        <3> QED BY <1>10, <2>14, <3>1
    <2>19. /\ Last(commands'[v]).command - Base(v)' = i
           /\ Last(commands'[v]).base = Base(v)'
        BY <1>7, <1>8, <1>12, <2>3, <2>4, <2>5
    <2>20. at > 1 \/ Len(assigned'[v].waypoints) = 1
        BY <1>12, <2>1, <2>8, <2>10
    <2>21. course'[v].waypoints = m_missionSegments'[v][i].waypoints /\ i \in DOMAIN m_missionSegments'[v]
        BY <1>10, <1>12, <2>2, <2>5, <2>6
    <2>22. CourseFits(v)'
        BY <1>7, <1>8, <1>9, <1>10, <1>11, <2>15, <2>18, <2>19, <2>20, <2>21 DEF CourseFits
    <2> QED BY <2>14, <2>15, <2>16, <2>17, <2>22
<1>16. c \in OldCommands(v) \cup NewCommands(v)
    BY <1>1, <1>3, <1>4 DEF OrdersFit
<1> QED BY <1>14, <1>15, <1>16

(***************************************************************************)
(* The vehicle flies on along the command it has, or stays at its end.     *)
(***************************************************************************)
LEMMA FliesIs ==
    ASSUME NEW v, Ready(v), Flies(v), NEW h, h = Heading(v)'
    PROVE  /\ CourseFits(v)'
           /\ OnPlan(v)' <=> OnPlan(v)
           /\ ~OnPlan(v) => h \in Past(v)
           /\ OnPlan(v) => /\ h \in Current(v) /\ Now(v) <= Where(v, h)
                           /\ Where(v, Heading(v)) <= Where(v, h)
                           /\ Where(v, h) <= Now(v) \/ (Where(v, h) = Now(v) + 1 /\ IsLast(v, Base(v), Now(v)))
<1>1. /\ v \in Vehicle /\ ManagerTypeOK /\ PlansCut /\ OrdersGrow(v) /\ CourseFits(v)
      /\ Past(v) \subseteq Past(v)'
    BY NumbersKept DEF Ready, Takable, InTurn
<1>2. /\ Now(v) \in Nat /\ Base(v) \in Nat /\ assigned[v].waypoints \in MissionPlan
      /\ IF assigned[v].waypoints = <<>> THEN m_missionSegments[v] = <<>>
         ELSE AreSegments(m_missionSegments[v], assigned[v].waypoints, Base(v),
                          Len(assigned[v].waypoints))
      /\ course[v] \in CourseType
    BY <1>1, VehicleIs
<1>3. PICK w : w = course[v].waypoints
    OBVIOUS
<1>4. PICK at : at = course[v].at
    OBVIOUS
<1>5. PICK to : to = course'[v].at
    OBVIOUS
<1>6. /\ course[v] # OnGround /\ at \in DOMAIN w /\ w \in Seq(Waypoint)
      /\ course'[v].waypoints = w /\ course'[v].base = course[v].base
      /\ to \in DOMAIN w /\ to \in {at, at + 1}
      /\ commands'[v] = commands[v] /\ KeepsPlan(v) /\ Now(v)' = Now(v)
    BY <1>2, <1>3, <1>4, <1>5 DEF Flies, TurnsTo, CourseType, KeepsChoice, Now
<1>7. at \in Nat /\ to \in Nat /\ at >= 1 /\ at <= to
    BY <1>6
<1>8. Heading(v) = w[at].number /\ h = w[to].number
    BY <1>3, <1>4, <1>5, <1>6 DEF Heading
<1>9. course'[v] # OnGround /\ commands[v] # <<>>
    BY <1>1, <1>6 DEF OnGround, CourseFits
<1>10. /\ Base(v)' = Base(v) /\ m_missionSegments'[v] = m_missionSegments[v]
       /\ assigned'[v] = assigned[v]
    BY <1>6 DEF KeepsPlan, Base
<1>11. OnPlan(v)' <=> OnPlan(v)
    BY <1>6, <1>10 DEF OnPlan
<1>12. \A n : Where(v, n)' = Where(v, n)
    BY <1>10 DEF Where
<1>13. ASSUME ~OnPlan(v)
       PROVE  h \in Past(v) /\ CourseFits(v)'
    <2>1. /\ Last(commands[v]).base < Base(v) /\ Last(commands[v]).command <= Base(v)
          /\ Numbers(w) \subseteq Past(v) /\ course[v].base = Last(commands[v]).base
        BY <1>1, <1>3, <1>9, <1>13 DEF CourseFits
    <2>2. h \in Past(v)
        BY <1>6, <1>8, <2>1 DEF Numbers
    <2>3. CourseFits(v)'
        BY <1>1, <1>6, <1>9, <1>10, <1>11, <1>13, <2>1 DEF CourseFits
    <2> QED BY <2>2, <2>3
<1>14. ASSUME OnPlan(v)
       PROVE  /\ CourseFits(v)' /\ h \in Current(v) /\ Now(v) <= Where(v, h)
              /\ Where(v, Heading(v)) <= Where(v, h)
              /\ Where(v, h) <= Now(v) \/ (Where(v, h) = Now(v) + 1 /\ IsLast(v, Base(v), Now(v)))
    <2>1. PICK plan : plan = assigned[v].waypoints
        OBVIOUS
    <2>2. PICK s : s = m_missionSegments[v]
        OBVIOUS
    <2>3. PICK b \in Nat : b = Base(v)
        BY <1>2
    <2>4. PICK x \in [base : Nat, command : Nat] : x = Last(commands[v])
        <3> DEFINE R == [base : Nat, command : Nat]
        <3>1. PICK q \in Seq(R) : q = commands[v]
            BY <1>1, VehicleIs
        <3> HIDE DEF R
        <3>2. q # <<>> => q[Len(q)] \in R
            OBVIOUS
        <3> QED BY <1>9, <3>1, <3>2 DEF Last, R
    <2>5. PICK i : i = x.command - b
        OBVIOUS
    <2>6. x.base = b /\ course[v].base = x.base
        BY <1>1, <1>3, <1>4, <1>9, <1>14, <2>1, <2>2, <2>3, <2>4, <2>5 DEF CourseFits, OnPlan, OrdersGrow
    <2>7. /\ i \in DOMAIN s /\ w = s[i].waypoints /\ (at > 1 \/ Len(plan) = 1)
          /\ x.command <= Now(v) /\ Now(v) <= Where(v, Heading(v))
        BY <1>1, <1>3, <1>4, <1>9, <1>14, <2>1, <2>2, <2>3, <2>4, <2>5 DEF CourseFits, OnPlan, OrdersGrow
    <2>8. plan \in MissionPlan /\ AreSegments(s, plan, b, Len(plan))
        BY <1>2, <1>14, <2>1, <2>2, <2>3 DEF OnPlan
    <2>9. to > 1 \/ Len(plan) = 1
        BY <1>7, <2>7
    <2>10. h \in Numbers(plan) /\ Place(b, s, h) \in {b + i, b + i + 1}
        BY <1>6, <1>8, <2>7, <2>8, <2>9, AlongSegment
    <2>11. Place(b, s, w[at].number) <= Place(b, s, h) /\ Place(b, s, w[at].number) \in {b + i, b + i + 1}
        BY <1>6, <1>7, <1>8, <2>7, <2>8, AlongSegment
    <2>12. b + i = x.command /\ x.command \in Nat
        BY <2>3, <2>4, <2>5
    <2>13. PICK p : p = Where(v, h)
        OBVIOUS
    <2>14. PICK p0 : p0 = Where(v, Heading(v))
        OBVIOUS
    <2>15. p \in {x.command, x.command + 1} /\ p0 \in {x.command, x.command + 1} /\ p0 <= p
        BY <1>8, <2>2, <2>3, <2>10, <2>11, <2>12, <2>13, <2>14 DEF Where
    <2>16. Now(v) <= p /\ (p <= Now(v) \/ (p = Now(v) + 1 /\ x.command = Now(v)))
        BY <1>2, <2>7, <2>12, <2>14, <2>15
    <2>17. x.command = Now(v) => IsLast(v, Base(v), Now(v))
        BY <1>9, <2>3, <2>4, <2>6 DEF IsLast
    <2>18. Now(v)' <= Where(v, Heading(v))'
        <3>1. Where(v, Heading(v))' = Where(v, h)
            BY <1>10 DEF Where
        <3> QED BY <1>6, <2>13, <2>16, <3>1
    <2>19. h \in Current(v)
        BY <2>1, <2>10 DEF Current
    <2>20. CourseFits(v)'
        <3>1. /\ Last(commands'[v]) = x /\ x.command - Base(v)' = i /\ x.base = Base(v)'
              /\ i \in DOMAIN m_missionSegments'[v] /\ course'[v].waypoints = m_missionSegments'[v][i].waypoints
            BY <1>6, <1>10, <2>2, <2>3, <2>4, <2>5, <2>6, <2>7
        <3>2. course'[v].at > 1 \/ Len(assigned'[v].waypoints) = 1
            BY <1>5, <1>10, <2>1, <2>9
        <3> QED BY <1>6, <1>9, <1>11, <1>14, <2>6, <2>18, <3>1, <3>2 DEF CourseFits
    <2> QED BY <2>13, <2>14, <2>15, <2>16, <2>17, <2>19, <2>20
<1> QED BY <1>11, <1>13, <1>14

(* Where the vehicle is on its way to.                                     *)
LEMMA CourseFitsStays ==
    ASSUME NEW v, Ready(v)
    PROVE  CourseFits(v)'
<1>1. /\ v \in Vehicle /\ ManagerTypeOK /\ PlansCut /\ OrdersGrow(v) /\ CourseFits(v) /\ Counted(v)
      /\ Past(v) \subseteq Past(v)' /\ (Takes(v) => Current(v) \subseteq Past(v)')
    BY NumbersKept DEF Ready, Takable, InTurn
<1>2. /\ Now(v) \in Nat /\ Base(v) \in Nat /\ commandIDs[v] \in Nat
      /\ assigned[v].waypoints \in MissionPlan /\ m_missionSegments[v] \in Seq(SegmentType)
      /\ IF assigned[v].waypoints = <<>> THEN m_missionSegments[v] = <<>>
         ELSE AreSegments(m_missionSegments[v], assigned[v].waypoints, Base(v),
                          Len(assigned[v].waypoints))
    BY <1>1, VehicleIs
<1>3. CASE Takes(v)
    <2>1. course'[v] = course[v] /\ commands'[v] = commands[v] /\ Base(v)' = commandIDs[v]
        BY <1>3, TakesIs DEF Takes, KeepsCourse
    <2>2. CASE commands[v] = <<>>
        BY <1>1, <2>1, <2>2 DEF CourseFits, OnPlan
    <2>3. CASE commands[v] # <<>>
        <3>1. Last(commands[v]).base \in Nat /\ Last(commands[v]).command \in Nat
            BY <1>1, <2>3, OrdersAre
        <3>2. Last(commands[v]).command <= Base(v)'
            BY <1>1, <1>2, <2>1, <2>3, <3>1 DEF OrdersGrow, Counted
        <3>3. /\ Last(commands[v]).base < Base(v)'
              /\ Numbers(course[v].waypoints) \subseteq Past(v)'
            <4>1. CASE ~OnPlan(v)
                <5>1. Base(v) <= commandIDs[v]
                    <6>1. Len(m_missionSegments[v]) \in Nat
                        BY <1>2
                    <6> QED BY <1>1, <1>2, <6>1 DEF Counted
                <5>2. Last(commands[v]).base < Base(v) /\ Numbers(course[v].waypoints) \subseteq Past(v)
                    BY <1>1, <2>3, <4>1 DEF CourseFits
                <5> QED BY <1>1, <1>2, <2>1, <3>1, <5>1, <5>2
            <4>2. CASE OnPlan(v)
                <5>1. PICK i : i = Last(commands[v]).command - Base(v)
                    OBVIOUS
                <5>2. /\ i \in DOMAIN m_missionSegments[v]
                      /\ course[v].waypoints = m_missionSegments[v][i].waypoints
                      /\ assigned[v].waypoints # <<>> /\ Last(commands[v]).base = Base(v)
                    BY <1>1, <4>2, <5>1 DEF CourseFits, OnPlan
                <5>3. Numbers(course[v].waypoints) \subseteq Current(v)
                    BY <1>2, <5>2, SegmentNumbers DEF Current
                <5>4. Base(v) < commandIDs[v]
                    <6>1. Len(m_missionSegments[v]) \in Nat /\ Len(m_missionSegments[v]) >= 1
                        BY <1>2, <5>2
                    <6>2. Base(v) + Len(m_missionSegments[v]) <= commandIDs[v]
                        BY <1>1, <5>2 DEF Counted
                    <6> QED BY <1>2, <6>1, <6>2
                <5> QED BY <1>1, <1>3, <2>1, <5>2, <5>3, <5>4
            <4> QED BY <4>1, <4>2
        <3>4. ~OnPlan(v)'
            <4> SUFFICES ASSUME Last(commands'[v]).base = Base(v)' PROVE FALSE
                BY DEF OnPlan
            <4> QED BY <1>2, <2>1, <3>1, <3>3
        <3> QED BY <1>1, <2>1, <2>3, <3>2, <3>3, <3>4 DEF CourseFits
    <2> QED BY <2>2, <2>3
<1>4. ASSUME KeepsPlan(v), KeepsCourse(v), OnPlan(v) => Now(v)' <= Where(v, Heading(v))
      PROVE  CourseFits(v)'
    <2>1. /\ Base(v)' = Base(v) /\ m_missionSegments'[v] = m_missionSegments[v]
          /\ assigned'[v] = assigned[v] /\ course'[v] = course[v] /\ commands'[v] = commands[v]
        BY <1>4 DEF KeepsPlan, KeepsCourse, Base
    <2>2. Heading(v)' = Heading(v)
        BY <2>1 DEF Heading
    <2>3. Where(v, Heading(v))' = Where(v, Heading(v))
        BY <2>1, <2>2 DEF Where
    <2>4. OnPlan(v)' <=> OnPlan(v)
        BY <2>1 DEF OnPlan
    <2> QED BY <1>1, <1>4, <2>1, <2>3, <2>4 DEF CourseFits
<1>5. CASE Reads(v) /\ ~KeepsChoice(v)
    <2>1. PICK n : n = toManager[v][1].waypoint
        OBVIOUS
    <2>2. /\ Now(v)' = Now(v) + 1 /\ 1 \in Own(v) /\ Where(v, n) = Now(v) + 1 /\ n \notin Past(v)
        BY <1>5, <2>1, ReadsIs
    <2>3. Where(v, n) <= Where(v, Heading(v))
        BY <2>1, <2>2 DEF Ready, InTurn, ReportsFit
    <2>4. KeepsPlan(v) /\ KeepsCourse(v)
        BY <1>5 DEF Reads
    <2> QED BY <1>4, <2>2, <2>3, <2>4
<1>6. CASE KeepsPlan(v) /\ KeepsCourse(v) /\ Now(v)' = Now(v)
    BY <1>1, <1>4, <1>6 DEF CourseFits
<1>7. CASE Accepts(v)
    BY <1>7, AcceptsIs
<1>8. CASE Flies(v)
    BY <1>8, FliesIs
<1>9. \/ Takes(v) \/ Accepts(v) \/ Flies(v)
      \/ Reads(v) /\ ~KeepsChoice(v)
      \/ KeepsPlan(v) /\ KeepsCourse(v) /\ Now(v)' = Now(v)
    BY DEF Ready, StepOf, Publishes, Hears, Reads, Sends, HasSent, KeepsChoice, Now
<1> QED BY <1>3, <1>5, <1>6, <1>7, <1>8, <1>9

-----------------------------------------------------------------------------
(* The reports of the vehicle in the inbox of its manager, after each kind *)
(* of step.                                                                *)
LEMMA OwnTail ==
    ASSUME NEW v \in Vehicle, ManagerTypeOK, toManager[v] # <<>>, toManager'[v] = Tail(toManager[v])
    PROVE  \A i \in Own(v)' : /\ i \in Nat /\ i >= 1 /\ i + 1 \in Own(v)
                              /\ toManager'[v][i] = toManager[v][i + 1]
<1> DEFINE M == PlanMessage \cup Report
<1>1. PICK q \in Seq(M) : q = toManager[v]
    BY DEF ManagerTypeOK
<1> HIDE DEF M
<1>2. PICK t : t = Tail(q)
    OBVIOUS
<1>3. /\ Len(q) \in Nat /\ DOMAIN q = 1 .. Len(q) /\ Len(q) >= 1
      /\ DOMAIN t = 1 .. Len(q) - 1 /\ \A i \in DOMAIN t : t[i] = q[i + 1]
    BY <1>1, <1>2, HeadTailProperties
<1>4. \A i \in DOMAIN t : i \in Nat /\ i >= 1 /\ i + 1 \in DOMAIN q
    BY <1>3
<1>5. toManager'[v] = t
    BY <1>1, <1>2
<1> QED BY <1>1, <1>3, <1>4, <1>5 DEF Own

LEMMA OwnMore ==
    ASSUME NEW v \in Vehicle, ManagerTypeOK, NEW m, IsPlan(m) \/ m.vehicle # v,
           toManager'[v] = toManager[v] \/ toManager'[v] = Append(toManager[v], m)
    PROVE  \A i \in Own(v)' : i \in Own(v) /\ toManager'[v][i] = toManager[v][i]
<1> DEFINE M == PlanMessage \cup Report
<1>1. PICK q \in Seq(M) : q = toManager[v]
    BY DEF ManagerTypeOK
<1> HIDE DEF M
<1>2. PICK r : r = Append(q, m)
    OBVIOUS
<1>3. /\ DOMAIN r = 1 .. Len(q) + 1 /\ DOMAIN q = 1 .. Len(q) /\ Len(q) \in Nat
      /\ r[Len(q) + 1] = m /\ \A i \in 1 .. Len(q) : r[i] = q[i]
    BY <1>2
<1>4. \A i \in DOMAIN r : (i \in DOMAIN q /\ r[i] = q[i]) \/ r[i] = m
    BY <1>3
<1>5. toManager'[v] = q \/ toManager'[v] = r
    BY <1>1, <1>2
<1> QED BY <1>1, <1>4, <1>5 DEF Own

LEMMA OwnNew ==
    ASSUME NEW v \in Vehicle, ManagerTypeOK, TurnsTo(v)
    PROVE  \A i \in Own(v)' :
              \/ /\ i \in Own(v) /\ toManager'[v][i] = toManager[v][i]
              \/ /\ toManager'[v][i].waypoint = Heading(v)'
                 /\ \A j \in Own(v)' : ~ (i < j)
<1> DEFINE M == PlanMessage \cup Report
<1>1. PICK q \in Seq(M) : q = toManager[v]
    BY DEF ManagerTypeOK
<1> HIDE DEF M
<1>2. PICK m : m = [type |-> "AirVehicleState", vehicle |-> v, waypoint |-> Heading(v)']
    OBVIOUS
<1>3. PICK r : r = Append(q, m)
    OBVIOUS
<1>4. /\ DOMAIN r = 1 .. Len(q) + 1 /\ DOMAIN q = 1 .. Len(q) /\ Len(q) \in Nat
      /\ r[Len(q) + 1] = m /\ \A i \in 1 .. Len(q) : r[i] = q[i]
    BY <1>3
<1>5. \A i \in DOMAIN r : \/ i \in DOMAIN q /\ r[i] = q[i]
                          \/ r[i] = m /\ \A j \in DOMAIN r : ~ (i < j)
    BY <1>4
<1>6. toManager'[v] = q \/ toManager'[v] = r
    BY <1>1, <1>2, <1>3 DEF TurnsTo, Receives, Heading
<1>7. CASE toManager'[v] = q
    BY <1>1, <1>7 DEF Own
<1>8. CASE toManager'[v] = r
    <2>1. \A i \in Own(v)' : i \in DOMAIN r
        BY <1>8 DEF Own
    <2> QED BY <1>1, <1>2, <1>5, <1>8, <2>1 DEF Own
<1> QED BY <1>6, <1>7, <1>8

LEMMA WhereIs ==
    ASSUME NEW v, Ready(v)
    PROVE  /\ \A n \in Current(v) : Where(v, n) \in Nat
           /\ OnPlan(v) => Heading(v) \in Current(v)
<1>1. /\ v \in Vehicle /\ ManagerTypeOK /\ PlansCut /\ CourseFits(v)
    BY DEF Ready, Takable, InTurn
<1>2. /\ Base(v) \in Nat
      /\ assigned[v].waypoints \in MissionPlan /\ m_missionSegments[v] \in Seq(SegmentType)
      /\ IF assigned[v].waypoints = <<>> THEN m_missionSegments[v] = <<>>
         ELSE AreSegments(m_missionSegments[v], assigned[v].waypoints, Base(v),
                          Len(assigned[v].waypoints))
      /\ course[v] \in CourseType
    BY <1>1, VehicleIs
<1>3. PICK plan : plan = assigned[v].waypoints
    OBVIOUS
<1>4. PICK s : s = m_missionSegments[v]
    OBVIOUS
<1>5. PICK b \in Nat : b = Base(v)
    BY <1>2
<1>6. ASSUME NEW n \in Current(v)
      PROVE  Where(v, n) \in Nat
    <2>1. PICK k \in DOMAIN plan : plan[k].number = n
        BY <1>3 DEF Current, Numbers
    <2>2. plan # <<>> /\ plan \in MissionPlan
        BY <1>2, <1>3, <2>1
    <2>3. AreSegments(s, plan, b, Len(plan))
        BY <1>2, <1>3, <1>4, <1>5, <2>2
    <2>4. PICK i \in DOMAIN s : Place(b, s, n) = b + i
        BY <2>1, <2>2, <2>3, PlaceIs
    <2>5. i \in Nat
        BY <1>2, <1>4
    <2> QED BY <1>4, <1>5, <2>4, <2>5 DEF Where
<1>7. ASSUME OnPlan(v)
      PROVE  Heading(v) \in Current(v)
    <2>1. PICK i : i = Last(commands[v]).command - Base(v)
        OBVIOUS
    <2>2. /\ i \in DOMAIN s /\ course[v].waypoints = s[i].waypoints
          /\ plan # <<>> /\ course[v] # OnGround
        BY <1>1, <1>3, <1>4, <1>7, <2>1 DEF CourseFits, OnPlan
    <2>3. course[v].at \in DOMAIN course[v].waypoints
        BY <1>2, <2>2 DEF CourseType
    <2>4. Heading(v) \in Numbers(s[i].waypoints)
        BY <2>2, <2>3 DEF Heading, Numbers
    <2>5. Numbers(s[i].waypoints) \subseteq Numbers(plan)
        BY <1>2, <1>3, <1>4, <2>2, SegmentNumbers
    <2> QED BY <1>3, <2>4, <2>5 DEF Current
<1> QED BY <1>6, <1>7

LEMMA ReportsFitStays ==
    ASSUME NEW v, Ready(v)
    PROVE  ReportsFit(v)'
<1>1. /\ v \in Vehicle /\ ManagerTypeOK /\ PlansCut /\ ReportsFit(v)
      /\ Past(v) \subseteq Past(v)' /\ (Takes(v) => Current(v) \subseteq Past(v)')
    BY NumbersKept DEF Ready, Takable, InTurn
<1>2. Now(v) \in Nat /\ toManager[v] \in Seq(PlanMessage \cup Report)
    BY <1>1, VehicleIs
<1>3. PICK b : b = Base(v)
    OBVIOUS
<1>4. PICK s : s = m_missionSegments[v]
    OBVIOUS
<1>5. PICK q : q = toManager[v]
    OBVIOUS
<1>6. PICK own : own = Own(v)
    OBVIOUS
<1>7. PICK h : h = Heading(v)
    OBVIOUS
<1> DEFINE W(n) == Place(b, s, n)
<1>8. \A n : Where(v, n) = W(n)
    BY <1>3, <1>4 DEF Where
<1>9. \A i \in own : i \in Nat
    <2>1. \A i \in DOMAIN toManager[v] : i \in Nat
        BY <1>2
    <2> QED BY <1>6, <2>1 DEF Own
<1>10. \A i \in own :
          \/ q[i].waypoint \in Past(v)
          \/ /\ q[i].waypoint \in Current(v) /\ OnPlan(v)
             /\ Now(v) <= W(q[i].waypoint) /\ W(q[i].waypoint) <= W(h)
             /\ W(q[i].waypoint) <= Now(v) \/ (W(q[i].waypoint) = Now(v) + 1 /\ IsLast(v, Base(v), Now(v)))
             /\ \A j \in own : i < j => W(q[i].waypoint) <= W(q[j].waypoint)
    BY <1>1, <1>3, <1>4, <1>5, <1>6, <1>7 DEF ReportsFit, Where
<1>11. /\ \A n \in Current(v) : W(n) \in Nat
       /\ OnPlan(v) => h \in Current(v)
    BY <1>7, <1>8, WhereIs
<1>12. CASE Takes(v)
    <2>1. \A i \in Own(v)' : i + 1 \in own /\ toManager'[v][i] = q[i + 1]
        BY <1>1, <1>5, <1>6, <1>12, OwnTail DEF Takes
    <2>2. \A i \in Own(v)' : toManager'[v][i].waypoint \in Past(v)'
        BY <1>1, <1>10, <1>12, <2>1
    <2> QED BY <2>2 DEF ReportsFit
<1>13. PICK r : r = toManager'[v]
    OBVIOUS
<1>14. PICK new : new = Own(v)'
    OBVIOUS
<1>15. PICK g : g = Heading(v)'
    OBVIOUS
<1>16. ASSUME KeepsPlan(v),
              \A i \in new :
                 \/ r[i].waypoint \in Past(v)
                 \/ /\ r[i].waypoint \in Current(v) /\ OnPlan(v)'
                    /\ Now(v)' <= W(r[i].waypoint) /\ W(r[i].waypoint) <= W(g)
                    /\ \/ W(r[i].waypoint) <= Now(v)'
                       \/ W(r[i].waypoint) = Now(v)' + 1 /\ IsLast(v, Base(v), Now(v))'
                    /\ \A j \in new : i < j => W(r[i].waypoint) <= W(r[j].waypoint)
       PROVE  ReportsFit(v)'
    <2>1. Base(v)' = b /\ m_missionSegments'[v] = s /\ Current(v)' = Current(v)
        BY <1>3, <1>4, <1>16 DEF KeepsPlan, Base, Current
    <2> QED BY <1>1, <1>13, <1>14, <1>15, <1>16, <2>1 DEF ReportsFit, Where
<1> HIDE DEF W
<1>17. ASSUME KeepsPlan(v), KeepsCourse(v), Now(v)' = Now(v), NEW d \in {0, 1},
              \A i \in new : i \in Nat /\ i + d \in own /\ r[i] = q[i + d]
       PROVE  ReportsFit(v)'
    <2>1. (OnPlan(v)' <=> OnPlan(v)) /\ g = h /\ Base(v)' = Base(v)
        BY <1>7, <1>15, <1>17 DEF KeepsPlan, KeepsCourse, OnPlan, Heading, Base
    <2>2. IsLast(v, Base(v), Now(v)) => IsLast(v, Base(v), Now(v))'
        BY <1>17, <2>1 DEF IsLast, KeepsCourse
    <2>3. \A i, j \in new : i < j => i + d < j + d
        BY <1>17
    <2> QED BY <1>10, <1>16, <1>17, <2>1, <2>2, <2>3
<1>18. CASE Reads(v)
    <2>1. KeepsPlan(v) /\ KeepsCourse(v) /\ q # <<>> /\ r = Tail(q)
        BY <1>5, <1>13, <1>18 DEF Reads
    <2>2. \A i \in new : i \in Nat /\ i >= 1 /\ i + 1 \in own /\ r[i] = q[i + 1]
        BY <1>1, <1>5, <1>6, <1>13, <1>14, <2>1, OwnTail
    <2>3. CASE KeepsChoice(v)
        <3>1. Now(v)' = Now(v)
            BY <2>3 DEF KeepsChoice, Now
        <3>2. 1 \in {0, 1}
            OBVIOUS
        <3> QED BY <1>17, <2>1, <2>2, <3>1, <3>2
    <2>4. CASE ~KeepsChoice(v)
        <3>1. /\ Now(v)' = Now(v) + 1 /\ 1 \in own /\ W(q[1].waypoint) = Now(v) + 1
              /\ q[1].waypoint \notin Past(v) /\ OnPlan(v)
            BY <1>5, <1>6, <1>8, <1>18, <2>4, ReadsIs
        <3>2. OnPlan(v)' /\ g = h
            BY <1>7, <1>15, <2>1, <3>1 DEF KeepsPlan, KeepsCourse, OnPlan, Heading, Base
        <3>3. \A i \in new : 1 < i + 1
            BY <2>2
        <3>4. \A i, j \in new : i < j => i + 1 < j + 1
            BY <2>2
        <3>5. ASSUME NEW i \in new, r[i].waypoint \notin Past(v)
              PROVE  /\ r[i].waypoint \in Current(v)
                     /\ Now(v)' <= W(r[i].waypoint) /\ W(r[i].waypoint) <= W(g)
                     /\ W(r[i].waypoint) <= Now(v)'
                     /\ \A j \in new : i < j => W(r[i].waypoint) <= W(r[j].waypoint)
            <4>1. i + 1 \in own /\ r[i] = q[i + 1] /\ 1 < i + 1
                BY <2>2, <3>3
            <4>2. W(q[1].waypoint) <= W(q[i + 1].waypoint)
                BY <1>10, <3>1, <4>1
            <4>3. /\ r[i].waypoint \in Current(v) /\ W(r[i].waypoint) <= W(g)
                  /\ W(r[i].waypoint) <= Now(v) \/ W(r[i].waypoint) = Now(v) + 1
                  /\ \A j \in own : i + 1 < j => W(r[i].waypoint) <= W(q[j].waypoint)
                BY <1>10, <3>2, <3>5, <4>1
            <4>4. W(r[i].waypoint) \in Nat
                BY <1>11, <4>3
            <4> QED BY <1>2, <2>2, <3>1, <3>4, <4>1, <4>2, <4>3, <4>4
        <3> QED BY <1>16, <2>1, <3>2, <3>5
    <2> QED BY <2>3, <2>4
<1>19. CASE Publishes(v) \/ Hears(v) \/ Sends(v) \/ HasSent(v)
    <2>1. KeepsPlan(v) /\ KeepsCourse(v) /\ Now(v)' = Now(v)
        BY <1>19 DEF Publishes, Hears, Sends, HasSent, KeepsChoice, Now
    <2>2. \E m : /\ IsPlan(m) \/ m.vehicle # v
                 /\ toManager'[v] = toManager[v] \/ toManager'[v] = Append(toManager[v], m)
        <3>1. CASE Publishes(v)
            <4>1. PICK m : m = [type |-> "AutomationResponse", plans |-> mission.plans[published + 1]]
                OBVIOUS
            <4>2. IsPlan(m)
                BY <4>1 DEF IsPlan
            <4> QED BY <3>1, <4>1, <4>2 DEF Publishes, Receives
        <3>2. CASE Hears(v) /\ toManager'[v] # toManager[v]
            BY <3>2 DEF Hears
        <3>3. CASE toManager'[v] = toManager[v]
            <4>1. PICK m : m = [type |-> "AutomationResponse"]
                OBVIOUS
            <4>2. IsPlan(m)
                BY <4>1 DEF IsPlan
            <4> QED BY <3>3, <4>2
        <3> QED BY <1>19, <3>1, <3>2, <3>3 DEF Sends, HasSent
    <2>3. \A i \in new : i \in own /\ r[i] = q[i]
        BY <1>1, <1>5, <1>6, <1>13, <1>14, <2>2, OwnMore
    <2>4. \A i \in new : i \in Nat /\ i + 0 \in own /\ r[i] = q[i + 0]
        BY <1>9, <2>3
    <2>5. 0 \in {0, 1}
        OBVIOUS
    <2> QED BY <1>17, <2>1, <2>4, <2>5
<1>20. ASSUME TurnsTo(v)
       PROVE  /\ KeepsPlan(v) /\ Now(v)' = Now(v) /\ Base(v)' = Base(v)
              /\ \A i \in new : \/ i \in own /\ r[i] = q[i]
                                \/ r[i].waypoint = g /\ \A j \in new : ~ (i < j)
    <2>1. KeepsPlan(v) /\ Now(v)' = Now(v) /\ Base(v)' = Base(v)
        BY <1>20 DEF TurnsTo, KeepsChoice, Now, KeepsPlan, Base
    <2> QED BY <1>1, <1>5, <1>6, <1>13, <1>14, <1>15, <1>20, <2>1, OwnNew
<1>21. CASE Accepts(v)
    <2>1. /\ ~OnPlan(v)' => g \in Past(v) /\ ~OnPlan(v)
          /\ OnPlan(v)' => /\ g \in Current(v) /\ Now(v) <= W(g)
                           /\ W(g) <= Now(v) \/ W(g) = Now(v) + 1
                           /\ IsLast(v, Base(v), Now(v))'
        BY <1>8, <1>15, <1>21, AcceptsIs
    <2>2. TurnsTo(v) /\ toVehicle[v] # <<>>
        BY <1>21 DEF Accepts
    <2>3. ~IsLast(v, Base(v), Now(v))
        BY <2>2, NoneUnderWay
    <2>4. ASSUME NEW i \in new, r[i].waypoint \notin Past(v)
          PROVE  /\ r[i].waypoint \in Current(v) /\ OnPlan(v)'
                 /\ Now(v) <= W(r[i].waypoint) /\ W(r[i].waypoint) <= W(g)
                 /\ W(r[i].waypoint) <= Now(v) \/ W(r[i].waypoint) = Now(v) + 1
                 /\ \A j \in new : i < j => W(r[i].waypoint) <= W(r[j].waypoint)
        <3>1. CASE i \in own /\ r[i] = q[i]
            <4>1. /\ r[i].waypoint \in Current(v) /\ OnPlan(v)
                  /\ Now(v) <= W(r[i].waypoint) /\ W(r[i].waypoint) <= Now(v)
                  /\ \A j \in own : i < j => W(r[i].waypoint) <= W(q[j].waypoint)
                BY <1>10, <2>3, <2>4, <3>1
            <4>2. OnPlan(v)' /\ g \in Current(v) /\ Now(v) <= W(g)
                BY <2>1, <4>1
            <4>3. W(r[i].waypoint) \in Nat /\ W(g) \in Nat
                BY <1>11, <4>1, <4>2
            <4>4. W(r[i].waypoint) <= W(g)
                BY <1>2, <4>1, <4>2, <4>3
            <4> QED BY <1>20, <2>2, <4>1, <4>2, <4>4
        <3>2. CASE r[i].waypoint = g /\ \A j \in new : ~ (i < j)
            <4>1. OnPlan(v)' /\ g \in Current(v)
                BY <2>1, <2>4, <3>2
            <4>2. W(g) \in Nat
                BY <1>11, <4>1
            <4> QED BY <2>1, <3>2, <4>1, <4>2
        <3> QED BY <1>20, <2>2, <3>1, <3>2
    <2> QED BY <1>16, <1>20, <2>1, <2>2, <2>4
<1>22. CASE Flies(v)
    <2>1. /\ OnPlan(v)' <=> OnPlan(v)
          /\ ~OnPlan(v) => g \in Past(v)
          /\ OnPlan(v) => /\ g \in Current(v) /\ Now(v) <= W(g) /\ W(h) <= W(g)
                          /\ W(g) <= Now(v) \/ (W(g) = Now(v) + 1 /\ IsLast(v, Base(v), Now(v)))
        BY <1>7, <1>8, <1>15, <1>22, FliesIs
    <2>2. TurnsTo(v) /\ commands'[v] = commands[v]
        BY <1>22 DEF Flies
    <2>3. IsLast(v, Base(v), Now(v)) => IsLast(v, Base(v), Now(v))'
        BY <1>20, <2>2 DEF IsLast
    <2>4. ASSUME NEW i \in new, r[i].waypoint \notin Past(v)
          PROVE  /\ r[i].waypoint \in Current(v) /\ OnPlan(v)
                 /\ Now(v) <= W(r[i].waypoint) /\ W(r[i].waypoint) <= W(g)
                 /\ \/ W(r[i].waypoint) <= Now(v)
                    \/ W(r[i].waypoint) = Now(v) + 1 /\ IsLast(v, Base(v), Now(v))
                 /\ \A j \in new : i < j => W(r[i].waypoint) <= W(r[j].waypoint)
        <3>1. CASE i \in own /\ r[i] = q[i]
            <4>1. /\ r[i].waypoint \in Current(v) /\ OnPlan(v)
                  /\ Now(v) <= W(r[i].waypoint) /\ W(r[i].waypoint) <= W(h)
                  /\ \/ W(r[i].waypoint) <= Now(v)
                     \/ W(r[i].waypoint) = Now(v) + 1 /\ IsLast(v, Base(v), Now(v))
                  /\ \A j \in own : i < j => W(r[i].waypoint) <= W(q[j].waypoint)
                BY <1>10, <2>4, <3>1
            <4>2. W(r[i].waypoint) \in Nat /\ W(h) \in Nat /\ W(g) \in Nat
                BY <1>11, <2>1, <4>1
            <4>3. W(r[i].waypoint) <= W(g)
                BY <2>1, <4>1, <4>2
            <4> QED BY <1>20, <2>2, <4>1, <4>3
        <3>2. CASE r[i].waypoint = g /\ \A j \in new : ~ (i < j)
            <4>1. OnPlan(v) /\ g \in Current(v)
                BY <2>1, <2>4, <3>2
            <4>2. W(g) \in Nat
                BY <1>11, <4>1
            <4> QED BY <2>1, <3>2, <4>1, <4>2
        <3> QED BY <1>20, <2>2, <3>1, <3>2
    <2> QED BY <1>16, <1>20, <2>1, <2>2, <2>3, <2>4
<1> QED BY <1>12, <1>18, <1>19, <1>21, <1>22 DEF Ready, StepOf

-----------------------------------------------------------------------------
InTurnInv ==
    /\ CutInv
    /\ ~mission.renumbered /\ Healthy(mission.serve, mission.overlap) =>
          \A v \in Vehicle : InTurn(v) /\ Followed(v)

LEMMA InTurnInit == MissionInit => InTurnInv
<1> SUFFICES ASSUME MissionInit, NEW v \in Vehicle PROVE InTurn(v) /\ Followed(v)
    BY MissionInitIs DEF InTurnInv
<1>1. /\ toManager[v] = <<>> /\ toVehicle[v] = <<>> /\ course[v] = OnGround /\ assigned[v] = NoPlan
      /\ commands[v] = <<>> /\ m_idMissionSegmentCurrent[v] = 0
      /\ nextMissionCommandToSend[v] = <<>> /\ commandIDs[v] = 0
    BY DEF MissionInit, ManagerInit
<1>2. assigned[v].waypoints = <<>> /\ assigned[v].base = 0
    BY <1>1 DEF NoPlan
<1>3. \A i \in DOMAIN <<>> : FALSE
    OBVIOUS
<1>4. PlansApart(v)
    <2>1. Current(v) = {}
        BY <1>2, <1>3 DEF Current, Numbers
    <2>2. Apart(v, toManager[v], mission.plans, published)
        BY <1>1, <1>3 DEF Apart
    <2> QED BY <2>1, <2>2 DEF PlansApart
<1>5. Counted(v)
    BY <1>1, <1>2 DEF Counted, Now, Base
<1>6. OrdersFit(v) /\ OrdersGrow(v) /\ OrdersFollow(v)
    BY <1>1, <1>3 DEF OrdersFit, OrdersGrow, OrdersFollow
<1>7. CourseFits(v)
    BY <1>1 DEF CourseFits, OnPlan
<1>8. ReportsFit(v)
    BY <1>1, <1>3 DEF ReportsFit, Own
<1>9. Followed(v)
    BY <1>1, <1>3 DEF Followed
<1> QED BY <1>4, <1>5, <1>6, <1>7, <1>8, <1>9 DEF InTurn

LEMMA InTurnNext == InTurnInv /\ [MissionNext]_missionVars => InTurnInv'
<1> SUFFICES ASSUME InTurnInv, [MissionNext]_missionVars PROVE InTurnInv'
    OBVIOUS
<1>1. mission' = mission
    BY DEF MissionNext, MissionWork, PublishPlan, ManageResponse, ManageState, SendNewMission,
       SentNewMission, AcceptCommand, Fly, ReportAgain, TrackResponse, TrackCommand, TrackState,
       missionVars
<1>2. CutInv'
    BY CutInvNext DEF InTurnInv
<1>3. ASSUME ~mission.renumbered, Healthy(mission.serve, mission.overlap), NEW v \in Vehicle
      PROVE  InTurn(v)' /\ Followed(v)'
    <2>1. mission \in MissionSettings /\ ManagerTypeOK /\ PlansCut /\ InTurn(v) /\ Followed(v)
        BY <1>3 DEF InTurnInv, CutInv
    <2>2. StepOf(v)
        BY <1>3, <2>1, StepIs
    <2>3. Takable(v)
        BY <1>1, <1>3, <2>1 DEF Takable
    <2>4. Ready(v)
        BY <1>3, <2>1, <2>2, <2>3 DEF Ready
    <2>5. PlansApart(v)'
        BY <2>1, <2>2, <2>3, NumbersKept DEF InTurn
    <2>6. InTurn(v)'
        BY <2>4, <2>5, CountedStays, OrdersFitStays, OrdersGrowStays, OrdersFollowStays, CourseFitsStays,
           ReportsFitStays DEF InTurn
    <2>7. Followed(v)'
        BY <2>1, <2>4, FollowedStays
    <2> QED BY <2>6, <2>7
<1> QED BY <1>1, <1>2, <1>3 DEF InTurnInv, Healthy

(***************************************************************************)
(* However late the reports of a vehicle are, and whatever the timer does, *)
(* the vehicle is given the segments of each plan from the first on, one   *)
(* after the other and none twice (isGetCurrentSegment and                 *)
(* OnSendNewMissionTimer of WaypointPlanManagerService.cpp), if the        *)
(* overlap leaves room and the numbers of waypoints are not used again.    *)
(***************************************************************************)
THEOREM GivenInTurn == MissionSpec => [](Healthy(mission.serve, mission.overlap) => SegmentsInTurn)
<1>1. InTurnInv => (Healthy(mission.serve, mission.overlap) => SegmentsInTurn)
    BY DEF InTurnInv, SegmentsInTurn, NextSegmentFollows, Followed
<1> QED BY <1>1, InTurnInit, InTurnNext, PTL DEF MissionSpec

-----------------------------------------------------------------------------
(***************************************************************************)
(* The tracker.  What a vehicle flies is a part of one of its plans, and   *)
(* it has turned to the waypoints before, from the second on; so a command *)
(* leads a vehicle on from where it is or has been.                        *)
(***************************************************************************)
FlownType == [base : Nat, waypoint : Nat, tasks : SUBSET Nat]
MissionsOf(v) == {mission.plans[k][v] : k \in DOMAIN mission.plans}
TurnedTo(v, n) == \E f \in flown[v] : f.waypoint = n
Did(v, t) == \E f \in flown[v] : t \in f.tasks
OnTheWay(v, plan, k) == \A i \in 2 .. k - 1 : TurnedTo(v, plan[i].number)
IsPart(waypoints, plan, b, e) ==
    b \in DOMAIN plan /\ e \in DOMAIN plan /\ b <= e /\ waypoints = SubSeq(plan, b, e)
IsPiece(v, waypoints) ==
    \E plan \in MissionsOf(v) : \E b, e \in DOMAIN plan : IsPart(waypoints, plan, b, e)
LeadsTo(v, waypoints, at) ==
    \E plan \in MissionsOf(v) : \E b, e \in DOMAIN plan :
        /\ IsPart(waypoints, plan, b, e)
        /\ b + at - 1 \in b .. e /\ OnTheWay(v, plan, b + at - 1)
Leads(v, c) ==
    \E at \in DOMAIN c.waypoints : c.waypoints[at].number = c.first /\ LeadsTo(v, c.waypoints, at)

FlownInTurn(v) ==
    \A f \in flown[v] : \E plan \in MissionsOf(v) : \E k \in DOMAIN plan :
        f.waypoint = plan[k].number /\ f.tasks = TasksOf(plan[k]) /\ OnTheWay(v, plan, k)
HearsOfFlown(v) ==
    /\ assigned[v].waypoints # <<>> => assigned[v].waypoints \in MissionsOf(v)
    /\ \A i \in DOMAIN toManager[v] :
          IF IsPlan(toManager[v][i]) THEN toManager[v][i].plans[v] \in MissionsOf(v)
          ELSE toManager[v][i].vehicle = v => TurnedTo(v, toManager[v][i].waypoint)
OrdersLead(v) ==
    /\ nextMissionCommandToSend[v] # <<>> => Leads(v, nextMissionCommandToSend[v][1])
    /\ \A i \in DOMAIN toVehicle[v] : Leads(v, toVehicle[v][i].command)
CourseLeads(v) ==
    course[v] # OnGround => LeadsTo(v, course[v].waypoints, course[v].at) /\ TurnedTo(v, Heading(v))
Flight(v) == FlownInTurn(v) /\ HearsOfFlown(v) /\ OrdersLead(v) /\ CourseLeads(v)

(* A step that is none of the vehicle's own, and one by which it turns to  *)
(* a waypoint.                                                             *)
Turned(v) ==
    LET w == course'[v].waypoints[course'[v].at]
    IN  flown'[v] = flown[v] \cup {[base |-> course'[v].base, waypoint |-> w.number, tasks |-> TasksOf(w)]}
FlightStep(v) ==
    \/ /\ flown'[v] = flown[v]
       /\ Publishes(v) \/ Hears(v) \/ Takes(v) \/ Reads(v) \/ Sends(v) \/ HasSent(v)
    \/ Turned(v) /\ (Accepts(v) \/ Flies(v))

(* A plan of a vehicle is known by the number of any of its waypoints, if  *)
(* the plans are not renumbered.                                           *)
LEMMA MissionsOfIs ==
    ASSUME mission \in MissionSettings, NEW v \in Vehicle, NEW plan \in MissionsOf(v)
    PROVE  plan \in MissionPlan
<1>1. PICK k \in DOMAIN mission.plans : plan = mission.plans[k][v]
    BY DEF MissionsOf
<1>2. mission.plans[k] \in [Vehicle -> MissionPlan]
    BY MissionIs
<1> QED BY <1>1, <1>2

LEMMA OneMission ==
    ASSUME mission \in MissionSettings, ~mission.renumbered, NEW v \in Vehicle,
           NEW plan \in MissionsOf(v), NEW plan2 \in MissionsOf(v),
           NEW k \in DOMAIN plan, NEW k2 \in DOMAIN plan2, plan[k].number = plan2[k2].number
    PROVE  plan = plan2 /\ k = k2
<1>1. PICK i \in DOMAIN mission.plans : plan = mission.plans[i][v]
    BY DEF MissionsOf
<1>2. PICK j \in DOMAIN mission.plans : plan2 = mission.plans[j][v]
    BY DEF MissionsOf
<1>3. plan[k].number \in Numbers(plan) /\ plan2[k2].number \in Numbers(plan2)
    BY DEF Numbers
<1>4. ASSUME i # j
      PROVE  FALSE
    <2>1. Numbers(mission.plans[i][v]) \cap Numbers(mission.plans[j][v]) = {}
        BY <1>4, MissionAssumption
    <2> QED BY <1>1, <1>2, <1>3, <2>1
<1>5. plan = plan2
    BY <1>1, <1>2, <1>4
<1>6. plan \in MissionPlan
    BY MissionsOfIs
<1>7. k = k2
    BY <1>5, <1>6, PlanIs
<1> QED BY <1>5, <1>7

(* What was turned to stays so.                                            *)
LEMMA FlownStays ==
    ASSUME mission' = mission, NEW v \in Vehicle, flown[v] \subseteq flown'[v]
    PROVE  /\ MissionsOf(v)' = MissionsOf(v)
           /\ \A n : TurnedTo(v, n) => TurnedTo(v, n)'
           /\ \A t : Did(v, t) => Did(v, t)'
           /\ \A plan, k : OnTheWay(v, plan, k) => OnTheWay(v, plan, k)'
           /\ \A s : IsPiece(v, s) => IsPiece(v, s)'
           /\ \A s, at : LeadsTo(v, s, at) => LeadsTo(v, s, at)'
           /\ \A c : Leads(v, c) => Leads(v, c)'
<1>1. MissionsOf(v)' = MissionsOf(v)
    BY DEF MissionsOf
<1>2. \A n : TurnedTo(v, n) => TurnedTo(v, n)'
    BY DEF TurnedTo
<1>3. \A t : Did(v, t) => Did(v, t)'
    BY DEF Did
<1>4. \A plan, k : OnTheWay(v, plan, k) => OnTheWay(v, plan, k)'
    BY <1>2 DEF OnTheWay
<1>5. \A s : IsPiece(v, s) => IsPiece(v, s)'
    BY <1>1 DEF IsPiece
<1>6. \A s, at : LeadsTo(v, s, at) => LeadsTo(v, s, at)'
    BY <1>1, <1>4 DEF LeadsTo
<1>7. \A c : Leads(v, c) => Leads(v, c)'
    BY <1>6 DEF Leads
<1> QED BY <1>1, <1>2, <1>3, <1>4, <1>5, <1>6, <1>7

(* Each action is such a step for every vehicle.                           *)
LEMMA TurnToIs ==
    ASSUME ManagerTypeOK, flown \in [Vehicle -> SUBSET FlownType],
           NEW v \in Vehicle, NEW base, NEW w, TurnTo(v, base, w)
    PROVE  /\ flown'[v] = flown[v] \cup {[base |-> base, waypoint |-> w.number, tasks |-> TasksOf(w)]}
           /\ \A u \in Vehicle \ {v} : flown'[u] = flown[u]
BY DEF TurnTo

LEMMA AcceptsTurned ==
    ASSUME ManagerTypeOK, flown \in [Vehicle -> SUBSET FlownType], NEW v \in Vehicle, AcceptCommand(v)
    PROVE  Turned(v) /\ \A u \in Vehicle \ {v} : flown'[u] = flown[u]
<1> DEFINE c == Head(toVehicle[v]).command
           at == CHOOSE i \in DOMAIN c.waypoints : c.waypoints[i].number = c.first
<1>1. /\ course' = [course EXCEPT ![v] = [base |-> c.base, waypoints |-> c.waypoints, at |-> at,
                                          again |-> TRUE]]
      /\ TurnTo(v, c.base, c.waypoints[at])
    BY DEF AcceptCommand
<1>2. course \in [Vehicle -> CourseType]
    BY DEF ManagerTypeOK, CourseType
<1> HIDE DEF c, at
<1>3. course'[v].base = c.base /\ course'[v].waypoints = c.waypoints /\ course'[v].at = at
    BY <1>1, <1>2
<1> QED BY <1>1, <1>3, TurnToIs DEF Turned

LEMMA OnwardTurned ==
    ASSUME ManagerTypeOK, flown \in [Vehicle -> SUBSET FlownType], NEW v \in Vehicle, Fly(v) \/ ReportAgain(v)
    PROVE  Turned(v) /\ \A u \in Vehicle \ {v} : flown'[u] = flown[u]
<1>1. /\ course \in [Vehicle -> CourseType]
      /\ course[v] \in [base : Nat, waypoints : Seq(Waypoint), at : Nat, again : BOOLEAN]
    BY DEF ManagerTypeOK, CourseType
<1>2. CASE Fly(v)
    <2>1. /\ course' = [course EXCEPT ![v].at = course[v].at + 1, ![v].again = TRUE]
          /\ TurnTo(v, course[v].base, course[v].waypoints[course[v].at + 1])
        BY <1>2 DEF Fly
    <2>2. course'[v].base = course[v].base /\ course'[v].waypoints = course[v].waypoints
          /\ course'[v].at = course[v].at + 1
        BY <1>1, <2>1
    <2> QED BY <2>1, <2>2, TurnToIs DEF Turned
<1>3. CASE ReportAgain(v)
    <2>1. /\ course' = [course EXCEPT ![v].again = FALSE]
          /\ TurnTo(v, course[v].base, course[v].waypoints[course[v].at])
        BY <1>3 DEF ReportAgain
    <2>2. course'[v].base = course[v].base /\ course'[v].waypoints = course[v].waypoints
          /\ course'[v].at = course[v].at
        BY <1>1, <2>1
    <2> QED BY <2>1, <2>2, TurnToIs DEF Turned
<1> QED BY <1>2, <1>3

LEMMA FlightStepIs ==
    ASSUME mission \in MissionSettings, Healthy(mission.serve, mission.overlap), ManagerTypeOK, PlansCut,
           flown \in [Vehicle -> SUBSET FlownType], [MissionNext]_missionVars
    PROVE  mission' = mission /\ ManagerTypeOK' /\ \A v \in Vehicle : FlightStep(v)
<1>1. mission' = mission /\ ManagerTypeOK'
    BY StepIs
<1>2. CASE PublishPlan
    <2>1. flown' = flown
        BY <1>2 DEF PublishPlan
    <2> QED BY <1>1, <1>2, <2>1, PublishPlanIs DEF FlightStep
<1>3. ASSUME NEW v \in Vehicle,
             ManageResponse(v) \/ ManageState(v) \/ SendNewMission(v) \/ SentNewMission(v)
      PROVE  \A u \in Vehicle : FlightStep(u)
    <2>1. flown' = flown
        BY <1>3 DEF ManageResponse, ManageState, SendNewMission, SentNewMission, environment
    <2>2. (Takes(v) \/ Reads(v) \/ Sends(v) \/ HasSent(v)) /\ \A u \in Vehicle \ {v} : Hears(u)
        BY <1>3, ManageResponseIs, ManageStateIs, SendNewMissionIs, SentNewMissionIs
    <2> QED BY <2>1, <2>2 DEF FlightStep
<1>4. ASSUME NEW v \in Vehicle, AcceptCommand(v) \/ Fly(v) \/ ReportAgain(v)
      PROVE  \A u \in Vehicle : FlightStep(u)
    <2>1. Turned(v) /\ \A u \in Vehicle \ {v} : flown'[u] = flown[u]
        BY <1>4, AcceptsTurned, OnwardTurned
    <2>2. (Accepts(v) \/ Flies(v)) /\ \A u \in Vehicle \ {v} : Hears(u)
        BY <1>4, AcceptCommandIs, OnwardIs
    <2> QED BY <2>1, <2>2 DEF FlightStep
<1>5. CASE TrackResponse \/ TrackCommand \/ TrackState \/ UNCHANGED missionVars
    <2>1. UNCHANGED <<planManager, toManager, toVehicle, environment, assigned>>
        BY <1>5 DEF TrackResponse, TrackCommand, TrackState, missionVars, inboxes
    <2>2. UNCHANGED <<published, course, commands, flown, m_missionSegments, m_idMissionSegmentCurrent,
                      nextMissionCommandToSend, sending, commandIDs>>
        BY <2>1 DEF environment, planManager
    <2>3. \A v \in Vehicle : Hears(v)
        BY <2>1, <2>2 DEF Hears, KeepsPlan, KeepsChoice, KeepsCourse, KeepsOrders
    <2>4. flown' = flown
        BY <2>2
    <2> QED BY <1>1, <2>3, <2>4 DEF FlightStep
<1>6. \A u \in Vehicle : FlightStep(u)
    BY <1>2, <1>3, <1>4, <1>5 DEF MissionNext, MissionWork
<1> QED BY <1>1, <1>6

LEMMA Offset ==
    ASSUME NEW b \in Nat, NEW e \in Nat, NEW at \in 1 .. e - b + 1
    PROVE  b + at - 1 \in b .. e
OBVIOUS

(* The waypoints of a part of a plan.                                      *)
LEMMA PartIs ==
    ASSUME NEW plan \in MissionPlan, NEW b \in DOMAIN plan, NEW e \in DOMAIN plan, NEW s,
           IsPart(s, plan, b, e)
    PROVE  /\ b \in Nat /\ e \in Nat /\ b <= e /\ b >= 1 /\ e <= Len(plan) /\ Len(plan) \in Nat
           /\ s \in Seq(Waypoint) /\ Len(s) = e - b + 1 /\ DOMAIN s = 1 .. e - b + 1
           /\ \A i \in DOMAIN s : s[i] = plan[b + i - 1] /\ b + i - 1 \in DOMAIN plan
<1>1. plan \in Seq(Waypoint) /\ Len(plan) \in Nat /\ DOMAIN plan = 1 .. Len(plan)
    BY PlanIs
<1>2. b \in Nat /\ e \in Nat /\ b <= e /\ b >= 1 /\ e <= Len(plan) /\ s = SubSeq(plan, b, e)
    BY <1>1 DEF IsPart
<1>3. \A i \in b .. e : plan[i] \in Waypoint
    BY <1>1, <1>2
<1>4. /\ s \in Seq(Waypoint) /\ Len(s) = e - b + 1
      /\ \A i \in 1 .. e - b + 1 : s[i] = plan[b + i - 1]
    BY <1>1, <1>2, <1>3, SubSeqProperties
<1>5. DOMAIN s = 1 .. e - b + 1
    BY <1>4
<1>6. \A i \in 1 .. e - b + 1 : b + i - 1 \in DOMAIN plan
    BY <1>1, <1>2
<1> QED BY <1>1, <1>2, <1>4, <1>5, <1>6

(* Having turned to a waypoint, a vehicle is on the way to the next.       *)
LEMMA NextOnTheWay ==
    ASSUME NEW v, NEW plan, NEW k \in Nat, OnTheWay(v, plan, k), k <= 1 \/ TurnedTo(v, plan[k].number)
    PROVE  OnTheWay(v, plan, k + 1)
<1> SUFFICES ASSUME NEW i \in 2 .. k PROVE TurnedTo(v, plan[i].number)
    BY DEF OnTheWay
<1>1. CASE i = k
    BY <1>1
<1>2. CASE i # k
    <2>1. i \in 2 .. k - 1
        BY <1>2
    <2> QED BY <2>1 DEF OnTheWay
<1> QED BY <1>1, <1>2

(* A command for a waypoint that the vehicle has turned to, or with which  *)
(* its plan begins, leads it on.                                           *)
LEMMA CommandLeads ==
    ASSUME mission \in MissionSettings, NEW v \in Vehicle, NEW plan \in MissionsOf(v),
           NEW s, IsSegment(s, plan), NEW k \in DOMAIN plan,
           NEW j \in DOMAIN s.waypoints, s.waypoints[j].number = plan[k].number,
           OnTheWay(v, plan, k), k = 1 \/ TurnedTo(v, plan[k].number)
    PROVE  Leads(v, CommandFor(s, plan[k].number))
<1> DEFINE c == CommandFor(s, plan[k].number)
<1>1. /\ plan \in MissionPlan /\ DOMAIN plan = 1 .. Len(plan) /\ Len(plan) \in Nat
      /\ \A x, y \in DOMAIN plan : plan[x].number = plan[y].number => x = y
    BY MissionsOfIs, PlanIs
<1>2. PICK b \in Nat, e \in Nat :
          /\ b \in DOMAIN plan /\ e \in DOMAIN plan
          /\ s.first = plan[IF b = e THEN b ELSE b + 1].number /\ IsPart(s.waypoints, plan, b, e)
    <2>1. /\ Begin(s, plan) \in DOMAIN plan /\ End(s, plan) \in DOMAIN plan
          /\ Begin(s, plan) <= End(s, plan) /\ Begin(s, plan) \in Nat /\ End(s, plan) \in Nat
        BY <1>1, SegmentHas
    <2> QED BY <2>1 DEF IsSegment, IsPart
<1>3. /\ b >= 1 /\ b <= e /\ e <= Len(plan)
      /\ DOMAIN s.waypoints = 1 .. e - b + 1
      /\ \A i \in 1 .. e - b + 1 : s.waypoints[i] = plan[b + i - 1] /\ b + i - 1 \in DOMAIN plan
    <2>1. /\ b >= 1 /\ b <= e /\ e <= Len(plan)
          /\ DOMAIN s.waypoints = 1 .. e - b + 1
          /\ \A i \in DOMAIN s.waypoints : s.waypoints[i] = plan[b + i - 1] /\ b + i - 1 \in DOMAIN plan
        BY <1>1, <1>2, PartIs, SMTT(30)
    <2> QED BY <2>1
<1>4. k = b + j - 1
    BY <1>1, <1>3
<1>5. k \in Nat /\ OnTheWay(v, plan, k + 1)
    BY <1>1, NextOnTheWay
<1>6. SUFFICES \E at \in DOMAIN s.waypoints :
          /\ s.waypoints[at].number = c.first /\ OnTheWay(v, plan, b + at - 1)
    <2>1. PICK at \in 1 .. e - b + 1 :
              /\ s.waypoints[at].number = c.first /\ OnTheWay(v, plan, b + at - 1)
        BY <1>3, <1>6
    <2>2. b + at - 1 \in b .. e
        BY Offset
    <2>3. LeadsTo(v, s.waypoints, at)
        BY <1>2, <1>3, <2>1, <2>2 DEF LeadsTo
    <2>4. c.waypoints = s.waypoints
        BY DEF CommandFor, IsSegment, SegmentType
    <2> HIDE DEF c
    <2> QED BY <1>3, <2>1, <2>3, <2>4 DEF Leads, c
<1>7. CASE s.waypoints[1].number = plan[k].number
    <2>1. c = s
        BY <1>7 DEF CommandFor
    <2>2. b = k
        <3>1. 1 \in 1 .. e - b + 1 /\ b + 1 - 1 = b
            BY <1>3
        <3>2. s.waypoints[1] = plan[b]
            BY <1>3, <3>1
        <3> QED BY <1>1, <1>2, <1>7, <3>2
    <2>3. CASE b = e
        <3>1. 1 \in DOMAIN s.waypoints /\ s.waypoints[1].number = c.first
            BY <1>2, <1>3, <2>1, <2>3
        <3>2. b + 1 - 1 = k
            BY <1>3, <2>2
        <3> HIDE DEF c
        <3> QED BY <3>1, <3>2
    <2>4. CASE b # e
        <3>1. 2 \in DOMAIN s.waypoints /\ s.waypoints[2] = plan[b + 2 - 1]
            BY <1>2, <1>3, <2>4
        <3>2. b + 2 - 1 = k + 1 /\ b + 1 = k + 1
            BY <1>3, <2>2
        <3>3. s.waypoints[2].number = c.first
            BY <1>2, <2>1, <2>4, <3>1, <3>2
        <3> HIDE DEF c
        <3> QED BY <1>5, <3>1, <3>2, <3>3
    <2> QED BY <2>3, <2>4
<1>8. CASE s.waypoints[1].number # plan[k].number
    <2>1. c.first = plan[k].number
        BY <1>8 DEF CommandFor, IsSegment, SegmentType
    <2> HIDE DEF c
    <2> QED BY <1>4, <2>1
<1> QED BY <1>7, <1>8

LEMMA FlownGrows ==
    ASSUME NEW v, FlightStep(v)
    PROVE  flown[v] \subseteq flown'[v]
BY DEF FlightStep, Turned

(* What a manager chooses for a waypoint that the vehicle has turned to,   *)
(* or with which the plan begins.                                          *)
LEMMA ChoiceLeads ==
    ASSUME mission \in MissionSettings, NEW v \in Vehicle, NEW plan \in MissionsOf(v),
           NEW segments, NEW base, AreSegments(segments, plan, base, Len(plan)),
           NEW n \in Nat, Chooses(v, segments, n),
           \A k \in DOMAIN plan :
               plan[k].number = n => OnTheWay(v, plan, k) /\ (k = 1 \/ TurnedTo(v, n))
    PROVE  \/ KeepsChoice(v)
           \/ \E c : nextMissionCommandToSend'[v] = <<c>> /\ Leads(v, c)
<1>1. CASE KeepsChoice(v)
    BY <1>1
<1>2. ASSUME NEW i \in Having(segments, n), nextMissionCommandToSend'[v] = <<CommandFor(segments[i], n)>>
      PROVE  \E c : nextMissionCommandToSend'[v] = <<c>> /\ Leads(v, c)
    <2>1. plan \in MissionPlan
        BY MissionsOfIs
    <2>2. PICK s : s = segments[i]
        OBVIOUS
    <2>3. IsSegment(s, plan)
        BY <2>1, <2>2, SegmentOf
    <2>4. PICK j \in DOMAIN s.waypoints : s.waypoints[j].number = n
        BY <2>2 DEF Having
    <2>5. PICK k \in DOMAIN plan : plan[k].number = n
        <3>1. \A x \in DOMAIN s.waypoints : s.waypoints[x] = plan[Begin(s, plan) + x - 1]
            BY <2>1, <2>3, SegmentHas
        <3>2. PICK b \in Nat, e \in Nat :
                  b = Begin(s, plan) /\ b \in DOMAIN plan /\ e \in DOMAIN plan /\ IsPart(s.waypoints, plan, b, e)
            <4>1. /\ Begin(s, plan) \in DOMAIN plan /\ End(s, plan) \in DOMAIN plan
                  /\ Begin(s, plan) <= End(s, plan) /\ Begin(s, plan) \in Nat /\ End(s, plan) \in Nat
                BY <2>1, <2>3, SegmentHas, PlanIs
            <4> QED BY <2>3, <4>1 DEF IsSegment, IsPart
        <3>3. b + j - 1 \in DOMAIN plan
            BY <2>1, <3>2, PartIs
        <3> QED BY <2>4, <3>1, <3>2, <3>3
    <2>6. OnTheWay(v, plan, k) /\ (k = 1 \/ TurnedTo(v, plan[k].number))
        BY <2>5
    <2>7. Leads(v, CommandFor(s, plan[k].number))
        BY <2>3, <2>4, <2>5, <2>6, CommandLeads
    <2> QED BY <1>2, <2>2, <2>5, <2>7
<1> QED BY <1>1, <1>2 DEF Chooses

LEMMA OrdersLeadStays ==
    ASSUME mission \in MissionSettings, Healthy(mission.serve, mission.overlap), ~mission.renumbered,
           ManagerTypeOK, PlansCut, ManagerTypeOK', mission' = mission,
           NEW v \in Vehicle, FlightStep(v), Flight(v)
    PROVE  OrdersLead(v)'
<1>1. \A c : Leads(v, c) => Leads(v, c)'
    BY FlownGrows, FlownStays
<1>2. FlownInTurn(v) /\ HearsOfFlown(v) /\ OrdersLead(v)
    BY DEF Flight
<1>3. nextMissionCommandToSend'[v] # <<>> => Leads(v, nextMissionCommandToSend'[v][1])
    <2>1. ASSUME KeepsChoice(v)
          PROVE  nextMissionCommandToSend'[v] # <<>> => Leads(v, nextMissionCommandToSend'[v][1])
        BY <1>2, <2>1 DEF KeepsChoice, OrdersLead
    <2>2. ASSUME NEW c, nextMissionCommandToSend'[v] = <<c>>, Leads(v, c)
          PROVE  nextMissionCommandToSend'[v] # <<>> => Leads(v, nextMissionCommandToSend'[v][1])
        BY <2>2
    <2>3. CASE Takes(v)
        <3>1. PICK plan : plan = Head(toManager[v]).plans[v]
            OBVIOUS
        <3> DEFINE cut == Segments(plan, mission.serve, mission.overlap, commandIDs[v])
        <3>2. /\ toManager[v] # <<>> /\ Head(toManager[v]) \in PlanMessage
              /\ IF plan = <<>> THEN KeepsChoice(v) ELSE Chooses(v, cut.segments, plan[1].number)
            BY <2>3, <3>1 DEF Takes
        <3>3. plan \in MissionsOf(v)
            <4>1. toManager[v] \in Seq(PlanMessage \cup Report)
                BY DEF ManagerTypeOK
            <4>2. 1 \in DOMAIN toManager[v] /\ Head(toManager[v]) = toManager[v][1]
                BY <3>2, <4>1
            <4>3. IsPlan(toManager[v][1])
                BY <3>2, <4>2 DEF IsPlan, PlanMessage
            <4> QED BY <1>2, <3>1, <4>2, <4>3 DEF HearsOfFlown
        <3>4. CASE plan = <<>>
            <4>1. KeepsChoice(v)
                BY <3>2, <3>4
            <4> QED BY <2>1, <4>1
        <3>5. CASE plan # <<>>
            <4>1. plan \in MissionPlan /\ commandIDs[v] \in Nat /\ mission.serve \in Nat
                  /\ mission.overlap \in Nat
                BY <3>3, MissionsOfIs, MissionIs DEF ManagerTypeOK
            <4>2. AreSegments(cut.segments, plan, commandIDs[v], Len(plan))
                BY <3>5, <4>1, SegmentsWell
            <4>3. /\ 1 \in DOMAIN plan /\ plan[1].number \in Nat
                  /\ \A k \in DOMAIN plan : plan[k].number = plan[1].number => k = 1
                BY <3>5, <4>1, PlanIs
            <4>4. OnTheWay(v, plan, 1)
                BY DEF OnTheWay
            <4> HIDE DEF cut
            <4>5. PICK n \in Nat : n = plan[1].number
                BY <4>3
            <4>6. Chooses(v, cut.segments, n)
                BY <3>2, <3>5, <4>5
            <4>7. \A k \in DOMAIN plan :
                      plan[k].number = n => OnTheWay(v, plan, k) /\ (k = 1 \/ TurnedTo(v, n))
                BY <4>3, <4>4, <4>5
            <4>8. KeepsChoice(v) \/ \E c : nextMissionCommandToSend'[v] = <<c>> /\ Leads(v, c)
                BY <3>3, <4>2, <4>6, <4>7, ChoiceLeads
            <4> QED BY <2>1, <2>2, <4>8
        <3> QED BY <3>4, <3>5
    <2>4. CASE Reads(v)
        <3>1. PICK m : m = Head(toManager[v])
            OBVIOUS
        <3>2. /\ toManager[v] # <<>> /\ m \in Report
              /\ IF m.vehicle = v THEN Chooses(v, m_missionSegments[v], m.waypoint) ELSE KeepsChoice(v)
            BY <2>4, <3>1 DEF Reads
        <3>3. CASE m.vehicle = v /\ assigned[v].waypoints # <<>>
            <4>1. PICK plan \in MissionsOf(v) : plan = assigned[v].waypoints
                BY <1>2, <3>3 DEF HearsOfFlown
            <4>2. AreSegments(m_missionSegments[v], plan, assigned[v].base, Len(plan))
                BY <3>3, <4>1 DEF PlansCut
            <4>3. TurnedTo(v, m.waypoint) /\ m.waypoint \in Nat
                <5>1. toManager[v] \in Seq(PlanMessage \cup Report)
                    BY DEF ManagerTypeOK
                <5>2. 1 \in DOMAIN toManager[v] /\ m = toManager[v][1]
                    BY <3>1, <3>2, <5>1
                <5>3. ~IsPlan(m) /\ m.waypoint \in Nat
                    BY <3>2 DEF IsPlan, Report
                <5> QED BY <1>2, <3>3, <5>2, <5>3 DEF HearsOfFlown
            <4>4. PICK n \in Nat : n = m.waypoint
                BY <4>3
            <4>5. ASSUME NEW k \in DOMAIN plan, plan[k].number = n
                  PROVE  OnTheWay(v, plan, k) /\ (k = 1 \/ TurnedTo(v, n))
                <5>1. PICK f \in flown[v] : f.waypoint = n
                    BY <4>3, <4>4 DEF TurnedTo
                <5>2. PICK plan2 \in MissionsOf(v) : \E k2 \in DOMAIN plan2 :
                          f.waypoint = plan2[k2].number /\ OnTheWay(v, plan2, k2)
                    BY <1>2 DEF FlownInTurn
                <5>3. PICK k2 \in DOMAIN plan2 : f.waypoint = plan2[k2].number /\ OnTheWay(v, plan2, k2)
                    BY <5>2
                <5>4. plan2 = plan /\ k2 = k
                    BY <4>5, <5>1, <5>3, OneMission
                <5> QED BY <4>3, <4>4, <5>3, <5>4
            <4>6. Chooses(v, m_missionSegments[v], n)
                BY <3>2, <3>3, <4>4
            <4>7. KeepsChoice(v) \/ \E c : nextMissionCommandToSend'[v] = <<c>> /\ Leads(v, c)
                BY <4>2, <4>5, <4>6, ChoiceLeads
            <4> QED BY <2>1, <2>2, <4>7
        <3>4. CASE m.vehicle = v /\ assigned[v].waypoints = <<>>
            <4>1. m_missionSegments[v] = <<>>
                BY <3>4 DEF PlansCut
            <4>2. Having(m_missionSegments[v], m.waypoint) = {}
                BY <4>1 DEF Having
            <4>3. KeepsChoice(v)
                BY <3>2, <3>4, <4>2 DEF Chooses
            <4> QED BY <2>1, <4>3
        <3>5. CASE m.vehicle # v
            <4>1. KeepsChoice(v)
                BY <3>2, <3>5
            <4> QED BY <2>1, <4>1
        <3> QED BY <3>3, <3>4, <3>5
    <2>5. CASE HasSent(v)
        BY <2>5 DEF HasSent
    <2>6. CASE Publishes(v) \/ Hears(v) \/ Sends(v) \/ Accepts(v) \/ Flies(v)
        <3>1. KeepsChoice(v)
            BY <2>6 DEF Publishes, Hears, Sends, Accepts, Flies, TurnsTo
        <3> QED BY <2>1, <3>1
    <2> QED BY <2>3, <2>4, <2>5, <2>6 DEF FlightStep
<1>4. ASSUME NEW i \in DOMAIN toVehicle'[v]
      PROVE  Leads(v, toVehicle'[v][i].command)
    <2>1. toVehicle[v] \in Seq(Order)
        BY DEF ManagerTypeOK
    <2>2. CASE toVehicle'[v] = toVehicle[v]
        BY <1>2, <1>4, <2>2 DEF OrdersLead
    <2>3. CASE Sends(v)
        <3>1. PICK m : m = [type |-> "MissionCommand", vehicle |-> v,
                            command |-> nextMissionCommandToSend[v][1]]
            OBVIOUS
        <3>2. toVehicle'[v] = Append(toVehicle[v], m) /\ nextMissionCommandToSend[v] # <<>>
            BY <2>3, <3>1 DEF Sends
        <3>3. Leads(v, m.command)
            BY <1>2, <3>1, <3>2 DEF OrdersLead
        <3>4. (i \in DOMAIN toVehicle[v] /\ toVehicle'[v][i] = toVehicle[v][i]) \/ toVehicle'[v][i] = m
            BY <1>4, <2>1, <3>2
        <3> QED BY <1>2, <3>3, <3>4 DEF OrdersLead
    <2>4. CASE Accepts(v)
        <3>1. toVehicle[v] # <<>> /\ toVehicle'[v] = Tail(toVehicle[v])
            BY <2>4 DEF Accepts
        <3>2. i + 1 \in DOMAIN toVehicle[v] /\ toVehicle'[v][i] = toVehicle[v][i + 1]
            BY <1>4, <2>1, <3>1
        <3> QED BY <1>2, <3>2 DEF OrdersLead
    <2>5. toVehicle'[v] = toVehicle[v] \/ Sends(v) \/ Accepts(v)
        BY DEF FlightStep, Publishes, Hears, Takes, Reads, HasSent, Flies, KeepsOrders
    <2> QED BY <2>2, <2>3, <2>4, <2>5
<1> QED BY <1>1, <1>3, <1>4 DEF OrdersLead

(* The waypoints of what leads a vehicle on.                               *)
LEMMA LeadsIs ==
    ASSUME mission \in MissionSettings, NEW v \in Vehicle, NEW s, NEW at \in Nat, LeadsTo(v, s, at)
    PROVE  /\ s \in Seq(Waypoint) /\ at \in DOMAIN s
           /\ \A i, j \in DOMAIN s : s[i].number = s[j].number => i = j
           /\ \E plan \in MissionsOf(v) : \E k \in DOMAIN plan : s[at] = plan[k] /\ OnTheWay(v, plan, k)
           /\ TurnedTo(v, s[at].number) /\ at + 1 \in DOMAIN s => LeadsTo(v, s, at + 1)
<1>1. PICK plan \in MissionsOf(v) : \E b, e \in DOMAIN plan :
          /\ IsPart(s, plan, b, e)
          /\ b + at - 1 \in b .. e /\ OnTheWay(v, plan, b + at - 1)
    BY DEF LeadsTo
<1>2. /\ plan \in MissionPlan /\ DOMAIN plan = 1 .. Len(plan) /\ Len(plan) \in Nat
      /\ \A i, j \in DOMAIN plan : plan[i].number = plan[j].number => i = j
    BY MissionsOfIs, PlanIs
<1>3. PICK b \in Nat, e \in Nat :
          /\ b \in DOMAIN plan /\ e \in DOMAIN plan /\ IsPart(s, plan, b, e)
          /\ b + at - 1 \in b .. e /\ OnTheWay(v, plan, b + at - 1)
    BY <1>1, <1>2
<1>4. /\ b >= 1 /\ b <= e /\ s \in Seq(Waypoint) /\ DOMAIN s = 1 .. e - b + 1
      /\ \A i \in DOMAIN s : s[i] = plan[b + i - 1] /\ b + i - 1 \in DOMAIN plan
    <2>1. b <= e /\ b >= 1
        BY <1>2, <1>3
    <2>2. /\ s \in Seq(Waypoint) /\ DOMAIN s = 1 .. e - b + 1
          /\ \A i \in DOMAIN s : s[i] = plan[b + i - 1] /\ b + i - 1 \in DOMAIN plan
        BY <1>2, <1>3, PartIs, SMTT(30)
    <2> QED BY <2>1, <2>2
<1>5. at \in DOMAIN s
    <2>1. at \in 1 .. e - b + 1
        BY <1>3
    <2> QED BY <1>4, <2>1
<1>6. ASSUME NEW i \in 1 .. e - b + 1, NEW j \in 1 .. e - b + 1, s[i].number = s[j].number
      PROVE  i = j
    <2>1. /\ s[i] = plan[b + i - 1] /\ b + i - 1 \in DOMAIN plan
          /\ s[j] = plan[b + j - 1] /\ b + j - 1 \in DOMAIN plan
        BY <1>4
    <2>2. b + i - 1 = b + j - 1
        BY <1>2, <1>6, <2>1
    <2> QED BY <2>2
<1>7. s[at] = plan[b + at - 1] /\ b + at - 1 \in DOMAIN plan
    BY <1>4, <1>5
<1>8. ASSUME TurnedTo(v, s[at].number), at + 1 \in DOMAIN s
      PROVE  LeadsTo(v, s, at + 1)
    <2>1. PICK k \in Nat : k = b + at - 1
        BY <1>3
    <2>2. OnTheWay(v, plan, k + 1)
        BY <1>3, <1>7, <1>8, <2>1, NextOnTheWay
    <2>3. k + 1 = b + (at + 1) - 1
        BY <2>1
    <2>4. at + 1 \in 1 .. e - b + 1
        BY <1>4, <1>8
    <2>5. b + (at + 1) - 1 \in b .. e
        BY <2>4, Offset
    <2> QED BY <1>3, <2>2, <2>3, <2>5 DEF LeadsTo
<1>9. \A i, j \in DOMAIN s : s[i].number = s[j].number => i = j
    BY <1>4, <1>6
<1> QED BY <1>3, <1>4, <1>5, <1>7, <1>8, <1>9

(* A vehicle turns to a waypoint that it was led to.                       *)
LEMMA TurnLeads ==
    ASSUME mission \in MissionSettings, ManagerTypeOK, ManagerTypeOK', NEW v \in Vehicle,
           Accepts(v) \/ Flies(v), Flight(v)
    PROVE  course'[v].at \in Nat /\ LeadsTo(v, course'[v].waypoints, course'[v].at)
<1>1. OrdersLead(v) /\ CourseLeads(v)
    BY DEF Flight
<1>2. course'[v].at \in Nat /\ course[v].at \in Nat
    BY DEF ManagerTypeOK
<1>3. CASE Accepts(v)
    <2>1. PICK c : c = Head(toVehicle[v]).command
        OBVIOUS
    <2>2. /\ toVehicle[v] # <<>> /\ course'[v].waypoints = c.waypoints
          /\ c.waypoints[course'[v].at].number = c.first
          /\ course'[v].at \in DOMAIN c.waypoints
        BY <1>3, <2>1 DEF Accepts, TurnsTo
    <2>3. toVehicle[v] \in Seq(Order)
        BY DEF ManagerTypeOK
    <2>4. 1 \in DOMAIN toVehicle[v] /\ c = toVehicle[v][1].command /\ toVehicle[v][1] \in Order
        BY <2>1, <2>2, <2>3
    <2>5. Leads(v, c) /\ c.waypoints \in Seq(Waypoint)
        BY <1>1, <2>4 DEF OrdersLead, Order, CommandType, SegmentType
    <2>6. PICK at \in Nat : /\ at \in DOMAIN c.waypoints /\ c.waypoints[at].number = c.first
                            /\ LeadsTo(v, c.waypoints, at)
        BY <2>5 DEF Leads
    <2>7. at = course'[v].at
        BY <2>2, <2>6, LeadsIs
    <2> QED BY <1>2, <2>2, <2>6, <2>7
<1>4. CASE Flies(v)
    <2>1. /\ course'[v].waypoints = course[v].waypoints /\ course[v] # OnGround
          /\ course'[v].at \in {course[v].at, course[v].at + 1}
          /\ course'[v].at \in DOMAIN course'[v].waypoints
        BY <1>4 DEF Flies, TurnsTo
    <2>2. LeadsTo(v, course[v].waypoints, course[v].at) /\ TurnedTo(v, Heading(v))
        BY <1>1, <2>1 DEF CourseLeads
    <2>3. CASE course'[v].at = course[v].at
        BY <1>2, <2>1, <2>2, <2>3
    <2>4. CASE course'[v].at = course[v].at + 1
        <3>1. LeadsTo(v, course[v].waypoints, course[v].at + 1)
            BY <1>2, <2>1, <2>2, <2>4, LeadsIs DEF Heading
        <3> QED BY <1>2, <2>1, <2>4, <3>1
    <2> QED BY <2>1, <2>3, <2>4
<1> QED BY <1>3, <1>4

LEMMA FlightStays ==
    ASSUME mission \in MissionSettings, Healthy(mission.serve, mission.overlap), ~mission.renumbered,
           ManagerTypeOK, PlansCut, ManagerTypeOK', mission' = mission,
           NEW v \in Vehicle, FlightStep(v), Flight(v)
    PROVE  Flight(v)'
<1>1. /\ MissionsOf(v)' = MissionsOf(v)
      /\ \A n : TurnedTo(v, n) => TurnedTo(v, n)'
      /\ \A plan, k : OnTheWay(v, plan, k) => OnTheWay(v, plan, k)'
      /\ \A s, at : LeadsTo(v, s, at) => LeadsTo(v, s, at)'
    BY FlownGrows, FlownStays
<1>2. FlownInTurn(v) /\ HearsOfFlown(v) /\ OrdersLead(v) /\ CourseLeads(v)
    BY DEF Flight
<1>3. CASE Turned(v) /\ (Accepts(v) \/ Flies(v))
    <2>1. course'[v].at \in Nat /\ LeadsTo(v, course'[v].waypoints, course'[v].at)
        BY <1>3, TurnLeads
    <2>2. PICK w : w = course'[v].waypoints[course'[v].at]
        OBVIOUS
    <2>3. TurnsTo(v)
        BY <1>3 DEF Accepts, Flies
    <2>4. PICK f : f = [base |-> course'[v].base, waypoint |-> w.number, tasks |-> TasksOf(w)]
        OBVIOUS
    <2>5. flown'[v] = flown[v] \cup {f} /\ f.waypoint = w.number /\ f.tasks = TasksOf(w)
        BY <2>2, <1>3, <2>4 DEF Turned
    <2>6. PICK plan \in MissionsOf(v) : \E k \in DOMAIN plan : w = plan[k] /\ OnTheWay(v, plan, k)
        BY <2>1, <2>2, LeadsIs
    <2>7. FlownInTurn(v)'
        <3> SUFFICES ASSUME NEW g \in flown'[v]
                     PROVE  \E p \in MissionsOf(v) : \E k \in DOMAIN p :
                                g.waypoint = p[k].number /\ g.tasks = TasksOf(p[k]) /\ OnTheWay(v, p, k)'
            BY <1>1 DEF FlownInTurn
        <3>1. CASE g \in flown[v]
            BY <1>1, <1>2, <3>1 DEF FlownInTurn
        <3>2. CASE g = f
            BY <1>1, <2>5, <2>6, <3>2
        <3> QED BY <2>5, <3>1, <3>2
    <2>8. TurnedTo(v, w.number)'
        BY <2>5 DEF TurnedTo
    <2>9. CourseLeads(v)'
        BY <1>1, <2>1, <2>2, <2>8 DEF CourseLeads, Heading
    <2>10. HearsOfFlown(v)'
        <3>1. assigned'[v] = assigned[v]
            BY <2>3 DEF TurnsTo, KeepsPlan
        <3>2. PICK m : m = [type |-> "AirVehicleState", vehicle |-> v, waypoint |-> w.number]
            OBVIOUS
        <3>3. toManager'[v] = toManager[v] \/ toManager'[v] = Append(toManager[v], m)
            BY <2>2, <2>3, <3>2 DEF TurnsTo, Receives
        <3>4. toManager[v] \in Seq(PlanMessage \cup Report)
            BY DEF ManagerTypeOK
        <3>5. ~IsPlan(m) /\ m.waypoint = w.number
            BY <3>2 DEF IsPlan
        <3>6. ASSUME NEW i \in DOMAIN toManager'[v]
              PROVE  (i \in DOMAIN toManager[v] /\ toManager'[v][i] = toManager[v][i])
                     \/ toManager'[v][i] = m
            BY <3>3, <3>4, <3>6
        <3> QED BY <1>1, <1>2, <2>8, <3>1, <3>5, <3>6 DEF HearsOfFlown
    <2> QED BY <2>7, <2>9, <2>10, OrdersLeadStays DEF Flight
<1>4. CASE /\ flown'[v] = flown[v]
           /\ Publishes(v) \/ Hears(v) \/ Takes(v) \/ Reads(v) \/ Sends(v) \/ HasSent(v)
    <2>1. course'[v] = course[v]
        BY <1>4 DEF Publishes, Hears, Takes, Reads, Sends, HasSent, KeepsCourse
    <2>2. FlownInTurn(v)'
        BY <1>1, <1>2, <1>4 DEF FlownInTurn
    <2>3. CourseLeads(v)'
        BY <1>1, <1>2, <2>1 DEF CourseLeads, Heading
    <2>4. assigned'[v].waypoints # <<>> => assigned'[v].waypoints \in MissionsOf(v)
        <3>1. CASE Takes(v)
            <4>1. /\ toManager[v] # <<>> /\ Head(toManager[v]) \in PlanMessage
                  /\ assigned'[v].waypoints = Head(toManager[v]).plans[v]
                BY <3>1 DEF Takes
            <4>2. toManager[v] \in Seq(PlanMessage \cup Report)
                BY DEF ManagerTypeOK
            <4>3. 1 \in DOMAIN toManager[v] /\ Head(toManager[v]) = toManager[v][1]
                BY <4>1, <4>2
            <4>4. IsPlan(toManager[v][1])
                BY <4>1, <4>3 DEF IsPlan, PlanMessage
            <4> QED BY <1>2, <4>1, <4>3, <4>4 DEF HearsOfFlown
        <3>2. CASE KeepsPlan(v)
            BY <1>2, <3>2 DEF HearsOfFlown, KeepsPlan
        <3>3. Takes(v) \/ KeepsPlan(v)
            BY <1>4 DEF Publishes, Hears, Reads, Sends, HasSent
        <3> QED BY <3>1, <3>2, <3>3
    <2>5. ASSUME NEW i \in DOMAIN toManager'[v]
          PROVE  IF IsPlan(toManager'[v][i]) THEN toManager'[v][i].plans[v] \in MissionsOf(v)
                 ELSE toManager'[v][i].vehicle = v => TurnedTo(v, toManager'[v][i].waypoint)
        <3>1. toManager[v] \in Seq(PlanMessage \cup Report)
            BY DEF ManagerTypeOK
        <3>2. CASE toManager'[v] = toManager[v]
            BY <1>2, <2>5, <3>2 DEF HearsOfFlown
        <3>3. CASE toManager[v] # <<>> /\ toManager'[v] = Tail(toManager[v])
            <4>1. i + 1 \in DOMAIN toManager[v] /\ toManager'[v][i] = toManager[v][i + 1]
                BY <2>5, <3>1, <3>3
            <4> QED BY <1>2, <4>1 DEF HearsOfFlown
        <3>4. ASSUME NEW m, toManager'[v] = Append(toManager[v], m),
                     IF IsPlan(m) THEN m.plans[v] \in MissionsOf(v) ELSE m.vehicle # v
              PROVE  IF IsPlan(toManager'[v][i]) THEN toManager'[v][i].plans[v] \in MissionsOf(v)
                     ELSE toManager'[v][i].vehicle = v => TurnedTo(v, toManager'[v][i].waypoint)
            <4>1. (i \in DOMAIN toManager[v] /\ toManager'[v][i] = toManager[v][i]) \/ toManager'[v][i] = m
                BY <2>5, <3>1, <3>4
            <4> QED BY <1>2, <3>4, <4>1 DEF HearsOfFlown
        <3>5. CASE Publishes(v)
            <4>1. PICK m : m = [type |-> "AutomationResponse", plans |-> mission.plans[published + 1]]
                OBVIOUS
            <4>2. published \in Nat /\ published + 1 \in DOMAIN mission.plans
                <5>1. published \in 0 .. Len(mission.plans) /\ published < Len(mission.plans)
                    BY <3>5 DEF Publishes, ManagerTypeOK
                <5>2. Len(mission.plans) \in Nat /\ DOMAIN mission.plans = 1 .. Len(mission.plans)
                    BY MissionIs
                <5> QED BY <5>1, <5>2
            <4>3. IsPlan(m) /\ m.plans[v] \in MissionsOf(v)
                BY <4>1, <4>2 DEF IsPlan, MissionsOf
            <4>4. toManager'[v] = toManager[v] \/ toManager'[v] = Append(toManager[v], m)
                BY <3>5, <4>1 DEF Publishes, Receives
            <4> QED BY <3>2, <3>4, <4>3, <4>4
        <3>6. CASE Hears(v)
            <4>1. CASE toManager'[v] = toManager[v]
                BY <3>2, <4>1
            <4>2. ASSUME NEW m \in Report, m.vehicle # v, toManager'[v] = Append(toManager[v], m)
                  PROVE  IF IsPlan(m) THEN m.plans[v] \in MissionsOf(v) ELSE m.vehicle # v
                BY <4>2 DEF Report, IsPlan
            <4> QED BY <3>4, <3>6, <4>1, <4>2 DEF Hears
        <3>7. CASE Takes(v) \/ Reads(v)
            BY <3>3, <3>7 DEF Takes, Reads
        <3>8. CASE Sends(v) \/ HasSent(v)
            BY <3>2, <3>8 DEF Sends, HasSent
        <3> QED BY <1>4, <3>5, <3>6, <3>7, <3>8
    <2>6. HearsOfFlown(v)'
        BY <1>1, <2>4, <2>5 DEF HearsOfFlown
    <2> QED BY <2>2, <2>3, <2>6, OrdersLeadStays DEF Flight
<1> QED BY <1>3, <1>4 DEF FlightStep

-----------------------------------------------------------------------------
(***************************************************************************)
(* What the tracker has: messages of what was turned to, missions that are *)
(* parts of plans, tasks in progress that the vehicle has turned to a      *)
(* waypoint of, and numbers that stand for tasks.                          *)
(***************************************************************************)
Tracked == PlanMessage \cup Report \cup Order
TrackerTypeOK ==
    /\ toTracker \in Seq(Tracked)
    /\ m_missions \in [Vehicle -> Seq(Waypoint)]
    /\ m_tasksInProgress \in [Vehicle -> {S \in SUBSET Nat : IsFiniteSet(S)}]
    /\ m_override \in [Vehicle -> Seq([task : Nat, waypoint : Nat])]
    /\ completed \in Seq([vehicle : Vehicle, task : Nat])
    /\ flown \in [Vehicle -> SUBSET FlownType]
IsTracked(m) ==
    \/ m.type = "AutomationResponse" /\ \E k \in DOMAIN mission.plans : m.plans = mission.plans[k]
    \/ m.type = "AirVehicleState" /\ TurnedTo(m.vehicle, m.waypoint)
    \/ m.type = "MissionCommand" /\ IsPiece(m.vehicle, m.command.waypoints)
TracksFlown == \A i \in DOMAIN toTracker : IsTracked(toTracker[i])
OverrideFits(v, override) ==
    override # <<>> =>
        \E plan \in MissionsOf(v) : \E k, e \in DOMAIN plan :
            /\ k <= e /\ (k = 1 => e = 1)
            /\ override[1].waypoint = plan[e].number /\ override[1].task \in TasksOf(plan[k])
Follows(v) ==
    /\ m_missions[v] # <<>> => IsPiece(v, m_missions[v])
    /\ OverrideFits(v, m_override[v])
    /\ \A t \in m_tasksInProgress[v] : Did(v, t)
StandsFor(x, t) ==
    \E k \in DOMAIN mission.plans : \E v \in Vehicle : \E i \in DOMAIN mission.plans[k][v] :
        LET u == mission.plans[k][v][i]
        IN  u.tasks # <<>> /\ u.number >= Numbering /\ x = u.number \div Numbering /\ t = u.tasks[1]
NumbersStand == \A x \in DOMAIN m_taskEmit : StandsFor(x, m_taskEmit[x])
CompletedFlown == \A i \in DOMAIN completed : Did(completed[i].vehicle, completed[i].task)

(* The order in which tasks are reported.                                  *)
LEMMA CompleteIs ==
    ASSUME NEW v \in Vehicle, NEW S, IsFiniteSet(S), NEW emit
    PROVE  Complete(v, S, emit) \in Seq({[vehicle |-> v, task |-> Meant(emit, t)] : t \in S})
<1> DEFINE T == {t \in S : Meant(emit, t) \in Eligible}
           n == Cardinality(T)
           P(g) == IsInjective(g)
<1>1. IsFiniteSet(T) /\ n \in Nat /\ T \subseteq S
    <2>1. T \subseteq S
        OBVIOUS
    <2> HIDE DEF T
    <2> QED BY <2>1, FS_Subset, FS_CardinalityType
<1>2. \E g \in [1 .. n -> T] : P(g)
    <2> HIDE DEF T
    <2>1. ExistsBijection(1 .. n, T)
        BY <1>1, FS_CountingElements, FS_CardinalityType
    <2>2. PICK g \in Bijection(1 .. n, T) : TRUE
        BY <2>1 DEF ExistsBijection
    <2> QED BY <2>2 DEF Bijection, Injection, IsInjective
<1>3. SetToSeq(T) = CHOOSE g \in [1 .. n -> T] : P(g)
    BY DEF SetToSeq
<1> HIDE DEF P
<1>4. SetToSeq(T) \in [1 .. n -> T]
    <2> HIDE DEF T, n
    <2> QED BY <1>2, <1>3
<1>5. Complete(v, S, emit) = [i \in DOMAIN SetToSeq(T) |-> [vehicle |-> v, task |-> Meant(emit, SetToSeq(T)[i])]]
    BY DEF Complete
<1> HIDE DEF T, n
<1>6. Complete(v, S, emit) = [i \in 1 .. n |-> [vehicle |-> v, task |-> Meant(emit, SetToSeq(T)[i])]]
    BY <1>4, <1>5
<1>7. \A i \in 1 .. n : SetToSeq(T)[i] \in S
    BY <1>1, <1>4
<1> DEFINE All == {[vehicle |-> v, task |-> Meant(emit, t)] : t \in S}
<1>8. Complete(v, S, emit) \in [1 .. n -> All]
    BY <1>6, <1>7
<1> HIDE DEF All
<1>9. Seq(All) = UNION {[1 .. k -> All] : k \in Nat}
    OBVIOUS
<1>10. Complete(v, S, emit) \in Seq(All)
    BY <1>1, <1>8, <1>9
<1> QED BY <1>10 DEF All

(* A vehicle has done what belongs to the waypoints it has turned to.      *)
LEMMA DidAt ==
    ASSUME mission \in MissionSettings, ~mission.renumbered, NEW v \in Vehicle, FlownInTurn(v),
           NEW plan \in MissionsOf(v), NEW k \in DOMAIN plan, TurnedTo(v, plan[k].number)
    PROVE  /\ \A t \in TasksOf(plan[k]) : Did(v, t)
           /\ OnTheWay(v, plan, k)
<1>1. PICK f \in flown[v] : f.waypoint = plan[k].number
    BY DEF TurnedTo
<1>2. PICK plan2 \in MissionsOf(v) : \E k2 \in DOMAIN plan2 :
          f.waypoint = plan2[k2].number /\ f.tasks = TasksOf(plan2[k2]) /\ OnTheWay(v, plan2, k2)
    BY DEF FlownInTurn
<1>3. PICK k2 \in DOMAIN plan2 :
          f.waypoint = plan2[k2].number /\ f.tasks = TasksOf(plan2[k2]) /\ OnTheWay(v, plan2, k2)
    BY <1>2
<1>4. plan2 = plan /\ k2 = k
    BY <1>1, <1>3, OneMission
<1> QED BY <1>3, <1>4 DEF Did

(* So it has done the task that another one stands for.                    *)
LEMMA DidMeant ==
    ASSUME mission \in Trackable, NEW v \in Vehicle, FlownInTurn(v),
           NEW x, Did(v, x), NEW t, StandsFor(x, t)
    PROVE  Did(v, t)
<1>1. PICK f \in flown[v] : x \in f.tasks
    BY DEF Did
<1>2. PICK plan \in MissionsOf(v) : \E k \in DOMAIN plan : f.tasks = TasksOf(plan[k])
    BY DEF FlownInTurn
<1>3. PICK k \in DOMAIN plan : f.tasks = TasksOf(plan[k])
    BY <1>2
<1>4. PICK i \in DOMAIN mission.plans, u \in Vehicle :
          \E j \in DOMAIN mission.plans[i][u] :
              LET w == mission.plans[i][u][j]
              IN  w.tasks # <<>> /\ w.number >= Numbering /\ x = w.number \div Numbering /\ t = w.tasks[1]
    BY DEF StandsFor
<1>5. PICK j \in DOMAIN mission.plans[i][u] :
          LET w == mission.plans[i][u][j]
          IN  w.tasks # <<>> /\ w.number >= Numbering /\ x = w.number \div Numbering /\ t = w.tasks[1]
    BY <1>4
<1>6. PICK w : w = mission.plans[i][u][j]
    OBVIOUS
<1>7. w.tasks # <<>> /\ w.number >= Numbering /\ x = w.number \div Numbering /\ t = w.tasks[1]
    BY <1>5, <1>6
<1> DEFINE all == UNION {ToSet(mission.plans[a][b]) : a \in DOMAIN mission.plans, b \in Vehicle}
<1>8. Standing(mission)
    BY DEF Trackable
<1>9. \A a \in DOMAIN mission.plans : \A b \in Vehicle : \A q \in DOMAIN mission.plans[a][b] :
          mission.plans[a][b][q] \in all
    <2> SUFFICES ASSUME NEW a \in DOMAIN mission.plans, NEW b \in Vehicle,
                        NEW q \in DOMAIN mission.plans[a][b]
                 PROVE  \E S \in {ToSet(mission.plans[c][d]) : c \in DOMAIN mission.plans, d \in Vehicle} :
                            mission.plans[a][b][q] \in S
        OBVIOUS
    <2>1. mission.plans[a][b][q] \in ToSet(mission.plans[a][b])
        BY DEF ToSet
    <2> QED BY <2>1
<1>10. w \in all /\ plan[k] \in all
    <2>1. PICK a \in DOMAIN mission.plans : plan = mission.plans[a][v]
        BY DEF MissionsOf
    <2> HIDE DEF all
    <2> QED BY <1>6, <1>9, <2>1
<1>11. \A y, z \in all : y.number >= Numbering /\ y.tasks # <<>> /\ y.number \div Numbering \in TasksOf(z)
                        => y.tasks[1] \in TasksOf(z)
    BY <1>8 DEF Standing
<1> HIDE DEF all
<1>12. t \in TasksOf(plan[k])
    BY <1>1, <1>3, <1>7, <1>10, <1>11
<1> QED BY <1>3, <1>12 DEF Did

(* The tasks of a waypoint.                                                *)
LEMMA TasksAre ==
    ASSUME NEW w \in Waypoint
    PROVE  /\ w.number \in Nat /\ w.number \div Numbering \in Nat /\ w.number \div Numbering \in TasksOf(w)
           /\ ListOf(w) \subseteq TasksOf(w) /\ TasksOf(w) \subseteq Nat /\ IsFiniteSet(ListOf(w))
           /\ w.tasks # <<>> => w.tasks[1] \in ListOf(w)
<1>1. w.number \in Nat /\ w.tasks \in Seq(Task)
    BY DEF Waypoint
<1>2. w.number \div Numbering \in Nat
    BY <1>1, TrackerAssumption
<1>3. \A i \in DOMAIN w.tasks : w.tasks[i] \in Nat
    <2>1. Task \subseteq Nat
        BY FleetAssumption
    <2>2. \A i \in DOMAIN w.tasks : w.tasks[i] \in Task
        BY <1>1
    <2> QED BY <2>1, <2>2
<1>4. IsFiniteSet(ListOf(w))
    <2>1. Len(w.tasks) \in Nat /\ DOMAIN w.tasks = 1 .. Len(w.tasks)
        BY <1>1
    <2>2. IsFiniteSet(1 .. Len(w.tasks))
        BY <2>1, FS_Interval
    <2>3. \A i \in 1 .. Len(w.tasks) : w.tasks[i] \in ListOf(w)
        BY <2>1 DEF ListOf
    <2> DEFINE f == [i \in 1 .. Len(w.tasks) |-> w.tasks[i]]
    <2>4. f \in Surjection(1 .. Len(w.tasks), ListOf(w))
        <3>1. f \in [1 .. Len(w.tasks) -> ListOf(w)]
            BY <2>3
        <3>2. \A t \in ListOf(w) : \E i \in 1 .. Len(w.tasks) : f[i] = t
            BY <2>1 DEF ListOf
        <3> HIDE DEF f
        <3> QED BY <3>1, <3>2 DEF Surjection
    <2> HIDE DEF f
    <2> QED BY <2>2, <2>4, FS_Surjection
<1>5. w.tasks # <<>> => w.tasks[1] \in ListOf(w)
    <2>1. w.tasks # <<>> => 1 \in DOMAIN w.tasks
        BY <1>1
    <2> QED BY <2>1 DEF ListOf
<1> QED BY <1>1, <1>2, <1>3, <1>4, <1>5 DEF TasksOf, ListOf

LEMMA LastTaskIs ==
    ASSUME NEW s \in Seq(Waypoint)
    PROVE  LastTask(s) # 0 => \E i \in DOMAIN s : LastTask(s) \in TasksOf(s[i])
<1> DEFINE tasked == {i \in DOMAIN s : s[i].tasks # <<>> \/ s[i].number >= Numbering}
           last == CHOOSE i \in tasked : \A j \in tasked : j <= i
<1>1. LastTask(s) = IF tasked = {} THEN 0
                    ELSE IF s[last].tasks # <<>> THEN s[last].tasks[1] ELSE s[last].number \div Numbering
    BY DEF LastTask
<1>2. CASE tasked = {}
    BY <1>1, <1>2
<1>3. CASE tasked # {}
    <2>1. Len(s) \in Nat /\ DOMAIN s = 1 .. Len(s) /\ tasked \subseteq 1 .. Len(s)
        OBVIOUS
    <2>2. \E i \in tasked : \A j \in tasked : j <= i
        <3> HIDE DEF tasked
        <3>1. Max(tasked) \in tasked /\ \A j \in tasked : Max(tasked) >= j
            BY <1>3, <2>1, Extremes
        <3> QED BY <2>1, <3>1
    <2>3. PICK i \in tasked : i = last
        BY <2>2
    <2>4. i \in DOMAIN s /\ s[i] \in Waypoint
        OBVIOUS
    <2> HIDE DEF last, tasked
    <2>5. LastTask(s) \in TasksOf(s[i])
        BY <1>1, <1>3, <2>3, <2>4, TasksAre
    <2> QED BY <2>4, <2>5
<1> QED BY <1>2, <1>3

(* The task of an override belongs to a waypoint that the vehicle turns to *)
(* before the last one.                                                    *)
LEMMA OverrideIs ==
    ASSUME mission \in Trackable, NEW v \in Vehicle, NEW s, s = <<>> \/ IsPiece(v, s)
    PROVE  Override(s) \in Seq([task : Nat, waypoint : Nat]) /\ OverrideFits(v, Override(s))
<1>1. CASE Override(s) = <<>>
    <2>1. <<>> \in Seq([task : Nat, waypoint : Nat])
        OBVIOUS
    <2>2. OverrideFits(v, <<>>)
        BY DEF OverrideFits
    <2> QED BY <1>1, <2>1, <2>2
<1>2. CASE Override(s) # <<>>
    <2> DEFINE last == s[Len(s)]
    <2>1. /\ s # <<>> /\ LastTask(s) # 0 /\ last.number = last.next
          /\ Override(s) = <<[task |-> LastTask(s), waypoint |-> last.number]>>
        BY <1>2 DEF Override
    <2>2. mission \in MissionSettings
        BY DEF Trackable
    <2>3. PICK plan \in MissionsOf(v) : \E b, e \in DOMAIN plan : IsPart(s, plan, b, e)
        BY <2>1 DEF IsPiece
    <2>4. plan \in MissionPlan /\ DOMAIN plan = 1 .. Len(plan) /\ Len(plan) \in Nat
          /\ \A k \in DOMAIN plan : plan[k] \in Waypoint
        BY <2>2, MissionsOfIs, PlanIs
    <2>5. PICK b \in Nat, e \in Nat : b \in DOMAIN plan /\ e \in DOMAIN plan /\ IsPart(s, plan, b, e)
        BY <2>3, <2>4
    <2>6. /\ b <= e /\ b >= 1 /\ e <= Len(plan)
          /\ s \in Seq(Waypoint) /\ Len(s) = e - b + 1 /\ DOMAIN s = 1 .. e - b + 1
          /\ \A i \in DOMAIN s : s[i] = plan[b + i - 1] /\ b + i - 1 \in DOMAIN plan
        BY <2>4, <2>5, PartIs
    <2>7. last = plan[e]
        <3>1. Len(s) \in DOMAIN s /\ b + Len(s) - 1 = e
            BY <2>6
        <3> QED BY <2>6, <3>1
    <2> HIDE DEF last
    <2>8. PICK i \in 1 .. e - b + 1 : LastTask(s) \in TasksOf(s[i])
        BY <2>1, <2>6, LastTaskIs
    <2>9. PICK k \in Nat : k = b + i - 1
        BY <2>6
    <2>10. k \in DOMAIN plan /\ k <= e /\ LastTask(s) \in TasksOf(plan[k])
        <3>1. i \in DOMAIN s
            BY <2>6, <2>8
        <3>2. k \in DOMAIN plan /\ LastTask(s) \in TasksOf(plan[k])
            BY <2>6, <2>8, <2>9, <3>1
        <3> QED BY <2>6, <2>8, <2>9, <3>2
    <2>11. LastTask(s) \in Nat /\ last.number \in Nat
        BY <2>4, <2>5, <2>7, <2>10, TasksAre
    <2>12. PICK r : r = [task |-> LastTask(s), waypoint |-> last.number]
        OBVIOUS
    <2>13. Override(s) = <<r>> /\ r \in [task : Nat, waypoint : Nat]
           /\ r.task = LastTask(s) /\ r.waypoint = plan[e].number
        BY <2>1, <2>7, <2>11, <2>12
    <2>14. Override(s) \in Seq([task : Nat, waypoint : Nat])
           /\ Override(s)[1].task = LastTask(s) /\ Override(s)[1].waypoint = plan[e].number
        BY <2>13
    <2>15. CASE k # 1 \/ e = 1
        BY <2>5, <2>10, <2>14, <2>15 DEF OverrideFits
    <2>16. CASE k = 1 /\ e # 1
        <3>1. b = 1 /\ e \in 2 .. Len(plan)
            BY <2>4, <2>5, <2>6, <2>9, <2>16
        <3>2. s = SubSeq(plan, 1, e)
            BY <2>5, <3>1 DEF IsPart
        <3>3. PICK a \in DOMAIN mission.plans : plan = mission.plans[a][v]
            BY DEF MissionsOf
        <3>4. DoneOnTheWay(plan)
            BY <3>3 DEF Trackable
        <3>5. PICK j \in 2 .. e : LastTask(s) \in TasksOf(plan[j])
            <4>1. plan[e].next = plan[e].number /\ LastTask(SubSeq(plan, 1, e)) # 0
                BY <2>1, <2>7, <3>2
            <4> QED BY <3>1, <3>2, <3>4, <4>1 DEF DoneOnTheWay
        <3>6. j \in DOMAIN plan /\ j <= e /\ j # 1
            BY <2>4, <3>1, <3>5
        <3> QED BY <2>5, <2>14, <3>5, <3>6 DEF OverrideFits
    <2> QED BY <2>14, <2>15, <2>16
<1> QED BY <1>1, <1>2

-----------------------------------------------------------------------------
(* What the tracker hears of.                                              *)
LEMMA TrackedStays ==
    ASSUME mission' = mission, \A v \in Vehicle : flown[v] \subseteq flown'[v],
           NEW m \in Tracked, IsTracked(m)
    PROVE  IsTracked(m)'
<1>1. CASE m \in PlanMessage
    <2>1. m.type = "AutomationResponse"
        BY <1>1 DEF PlanMessage
    <2> QED BY <2>1 DEF IsTracked
<1>2. CASE m \in Report
    <2>1. m.type = "AirVehicleState" /\ m.vehicle \in Vehicle
        BY <1>2 DEF Report
    <2>2. TurnedTo(m.vehicle, m.waypoint)
        BY <2>1 DEF IsTracked
    <2>3. PICK v \in Vehicle, n \in {m.waypoint} : v = m.vehicle
        BY <2>1
    <2>4. TurnedTo(v, n)'
        BY <2>2, <2>3, FlownStays
    <2>5. TurnedTo(m.vehicle, m.waypoint)'
        BY <2>3, <2>4
    <2> QED BY <2>1, <2>5 DEF IsTracked
<1>3. CASE m \in Order
    <2>1. m.type = "MissionCommand" /\ m.vehicle \in Vehicle
        BY <1>3 DEF Order
    <2>2. IsPiece(m.vehicle, m.command.waypoints)
        BY <2>1 DEF IsTracked
    <2>3. PICK v \in Vehicle, s \in {m.command.waypoints} : v = m.vehicle
        BY <2>1
    <2>4. IsPiece(v, s)'
        BY <2>2, <2>3, FlownStays
    <2>5. IsPiece(m.vehicle, m.command.waypoints)'
        BY <2>3, <2>4
    <2> QED BY <2>1, <2>5 DEF IsTracked
<1> QED BY <1>1, <1>2, <1>3 DEF Tracked

LEMMA TrackedMore ==
    ASSUME mission' = mission, \A v \in Vehicle : flown[v] \subseteq flown'[v],
           toTracker \in Seq(Tracked), TracksFlown,
           NEW m \in Tracked, IsTracked(m)', toTracker' = Append(toTracker, m)
    PROVE  toTracker' \in Seq(Tracked) /\ TracksFlown'
<1>1. toTracker' \in Seq(Tracked)
    OBVIOUS
<1>2. ASSUME NEW i \in DOMAIN toTracker'
      PROVE  IsTracked(toTracker[i])'
    <2>1. CASE toTracker'[i] = m
        BY <2>1
    <2>2. CASE i \in DOMAIN toTracker /\ toTracker'[i] = toTracker[i]
        <3>1. toTracker[i] \in Tracked /\ IsTracked(toTracker[i])
            BY <2>2 DEF TracksFlown
        <3>2. PICK x \in Tracked : x = toTracker[i]
            BY <3>1
        <3>3. IsTracked(x)'
            BY <3>1, <3>2, TrackedStays
        <3>4. toTracker'[i] = x
            BY <2>2, <3>2
        <3> QED BY <3>3, <3>4
    <2> QED BY <2>1, <2>2
<1> QED BY <1>1, <1>2 DEF TracksFlown

LEMMA TrackedLess ==
    ASSUME mission' = mission, flown' = flown, toTracker \in Seq(Tracked), TracksFlown,
           toTracker # <<>>, toTracker' = Tail(toTracker)
    PROVE  toTracker' \in Seq(Tracked) /\ TracksFlown'
<1>1. toTracker' \in Seq(Tracked)
    OBVIOUS
<1>2. ASSUME NEW i \in DOMAIN toTracker'
      PROVE  IsTracked(toTracker[i])'
    <2>1. i + 1 \in DOMAIN toTracker /\ toTracker'[i] = toTracker[i + 1]
        OBVIOUS
    <2>2. PICK x \in Tracked : x = toTracker[i + 1]
        BY <2>1
    <2>3. IsTracked(x)
        BY <2>1, <2>2 DEF TracksFlown
    <2>4. IsTracked(x)'
        BY <2>3, TrackedStays
    <2>5. toTracker'[i] = x
        BY <2>1, <2>2
    <2> QED BY <2>4, <2>5
<1> QED BY <1>1, <1>2 DEF TracksFlown

(* A vehicle turns to a waypoint.                                          *)
LEMMA TurnsIs ==
    ASSUME ManagerTypeOK, NEW v \in Vehicle, AcceptCommand(v) \/ Fly(v) \/ ReportAgain(v)
    PROVE  \E base \in Nat : \E w \in Waypoint : TurnTo(v, base, w)
<1>1. CASE AcceptCommand(v)
    <2> DEFINE c == Head(toVehicle[v]).command
               at == CHOOSE i \in DOMAIN c.waypoints : c.waypoints[i].number = c.first
    <2>1. toVehicle[v] # <<>> /\ TurnTo(v, c.base, c.waypoints[at])
        BY <1>1 DEF AcceptCommand
    <2>2. c \in CommandType
        <3>1. toVehicle[v] \in Seq(Order)
            BY DEF ManagerTypeOK
        <3>2. Head(toVehicle[v]) \in Order
            <4> HIDE DEF c, at
            <4> QED BY <2>1, <3>1
        <3> QED BY <3>2 DEF Order
    <2> HIDE DEF c
    <2>3. /\ c.base \in Nat /\ c.waypoints \in Seq(Waypoint)
          /\ \E i \in DOMAIN c.waypoints : c.waypoints[i].number = c.first
        BY <2>2 DEF CommandType, SegmentType
    <2>4. at \in DOMAIN c.waypoints
        BY <2>3
    <2> HIDE DEF at
    <2>5. c.waypoints[at] \in Waypoint
        BY <2>3, <2>4
    <2>6. PICK base \in Nat, w \in Waypoint : base = c.base /\ w = c.waypoints[at]
        BY <2>3, <2>5
    <2> QED BY <2>1, <2>6
<1>2. CASE Fly(v) \/ ReportAgain(v)
    <2>1. /\ course[v] \in [base : Nat, waypoints : Seq(Waypoint), at : Nat, again : BOOLEAN]
          /\ course[v].at \in DOMAIN course[v].waypoints \/ course[v] = OnGround
        BY DEF ManagerTypeOK, CourseType
    <2>2. course[v] # OnGround
        <3> SUFFICES ASSUME course[v] = OnGround PROVE FALSE
            OBVIOUS
        <3>1. Len(course[v].waypoints) = 0 /\ course[v].at = 0 /\ ~course[v].again
            BY DEF OnGround
        <3> QED BY <1>2, <3>1 DEF Fly, ReportAgain
    <2>3. PICK at \in Nat : /\ at \in DOMAIN course[v].waypoints
                            /\ TurnTo(v, course[v].base, course[v].waypoints[at])
        <3>1. CASE Fly(v)
            <4>1. PICK at \in Nat : at = course[v].at + 1
                BY <2>1
            <4>2. at \in DOMAIN course[v].waypoints
                BY <2>1, <2>2, <3>1, <4>1 DEF Fly
            <4> QED BY <3>1, <4>1, <4>2 DEF Fly
        <3>2. CASE ReportAgain(v)
            BY <2>1, <2>2, <3>2 DEF ReportAgain
        <3> QED BY <1>2, <3>1, <3>2
    <2>4. PICK base \in Nat, w \in Waypoint : base = course[v].base /\ w = course[v].waypoints[at]
        BY <2>1, <2>3
    <2> QED BY <2>3, <2>4
<1> QED BY <1>1, <1>2

LEMMA TurnToTracked ==
    ASSUME ManagerTypeOK, flown \in [Vehicle -> SUBSET FlownType], toTracker \in Seq(Tracked), TracksFlown,
           mission' = mission, NEW v \in Vehicle, NEW base \in Nat, NEW w \in Waypoint, TurnTo(v, base, w)
    PROVE  /\ flown' \in [Vehicle -> SUBSET FlownType] /\ toTracker' \in Seq(Tracked) /\ TracksFlown'
<1>1. PICK f : f = [base |-> base, waypoint |-> w.number, tasks |-> TasksOf(w)]
    OBVIOUS
<1>2. PICK m : m = [type |-> "AirVehicleState", vehicle |-> v, waypoint |-> w.number]
    OBVIOUS
<1>3. flown' = [flown EXCEPT ![v] = flown[v] \cup {f}] /\ toTracker' = Append(toTracker, m)
    BY <1>1, <1>2 DEF TurnTo
<1>4. f \in FlownType /\ m \in Tracked
    <2>1. w.number \in Nat /\ TasksOf(w) \in SUBSET Nat
        BY TasksAre
    <2> QED BY <1>1, <1>2, <2>1 DEF FlownType, Tracked, Report
<1>5. /\ flown' \in [Vehicle -> SUBSET FlownType] /\ flown'[v] = flown[v] \cup {f}
      /\ \A u \in Vehicle : flown[u] \subseteq flown'[u]
    <2>1. flown[v] \cup {f} \in SUBSET FlownType
        BY <1>4
    <2> QED BY <1>3, <2>1
<1>6. TurnedTo(v, w.number)'
    BY <1>1, <1>5 DEF TurnedTo
<1>7. IsTracked(m)'
    BY <1>2, <1>6 DEF IsTracked
<1> QED BY <1>3, <1>4, <1>5, <1>7, TrackedMore

(* What leads a vehicle on is a part of one of its plans.                  *)
LEMMA LeadsPiece ==
    ASSUME NEW v, NEW c, Leads(v, c)
    PROVE  IsPiece(v, c.waypoints)
BY DEF Leads, LeadsTo, IsPiece

(* A step of none of the tracker's.                                        *)
LEMMA TrackedGrows ==
    ASSUME mission \in MissionSettings, ManagerTypeOK, flown \in [Vehicle -> SUBSET FlownType],
           toTracker \in Seq(Tracked), TracksFlown, \A v \in Vehicle : OrdersLead(v), mission' = mission,
           PublishPlan \/ \E v \in Vehicle : \/ ManageResponse(v) \/ ManageState(v)
                                             \/ SendNewMission(v) \/ SentNewMission(v)
                                             \/ AcceptCommand(v) \/ Fly(v) \/ ReportAgain(v)
    PROVE  /\ UNCHANGED tracker
           /\ flown' \in [Vehicle -> SUBSET FlownType] /\ toTracker' \in Seq(Tracked) /\ TracksFlown'
<1>1. UNCHANGED tracker
    BY DEF PublishPlan, ManageResponse, ManageState, SendNewMission, SentNewMission, AcceptCommand, Fly,
           ReportAgain
<1>2. CASE PublishPlan
    <2>1. PICK m : m = [type |-> "AutomationResponse", plans |-> mission.plans[published + 1]]
        OBVIOUS
    <2>2. flown' = flown /\ toTracker' = Append(toTracker, m) /\ published < Len(mission.plans)
        BY <1>2, <2>1 DEF PublishPlan
    <2>3. published + 1 \in DOMAIN mission.plans
        <3>1. published \in 0 .. Len(mission.plans)
            BY DEF ManagerTypeOK
        <3>2. Len(mission.plans) \in Nat /\ DOMAIN mission.plans = 1 .. Len(mission.plans)
            BY MissionIs
        <3> QED BY <2>2, <3>1, <3>2
    <2>4. m \in Tracked
        <3>1. mission.plans[published + 1] \in [Vehicle -> MissionPlan]
            BY <2>3, MissionIs
        <3> QED BY <2>1, <3>1 DEF Tracked, PlanMessage
    <2>5. IsTracked(m)
        BY <2>1, <2>3 DEF IsTracked
    <2>6. IsTracked(m)'
        BY <2>2, <2>4, <2>5, TrackedStays
    <2> QED BY <1>1, <2>2, <2>4, <2>6, TrackedMore
<1>3. ASSUME NEW v \in Vehicle, SendNewMission(v)
      PROVE  flown' = flown /\ toTracker' \in Seq(Tracked) /\ TracksFlown'
    <2>1. PICK m : m = [type |-> "MissionCommand", vehicle |-> v,
                        command |-> nextMissionCommandToSend[v][1]]
        OBVIOUS
    <2>2. flown' = flown /\ toTracker' = Append(toTracker, m) /\ nextMissionCommandToSend[v] # <<>>
        BY <1>3, <2>1 DEF SendNewMission, BeginSendingNewMission, environment
    <2>3. m \in Tracked
        <3>1. nextMissionCommandToSend[v] \in Seq(CommandType)
            BY DEF ManagerTypeOK
        <3>2. nextMissionCommandToSend[v][1] \in CommandType
            BY <2>2, <3>1
        <3> QED BY <2>1, <3>2 DEF Tracked, Order
    <2>4. IsTracked(m)
        <3>1. Leads(v, nextMissionCommandToSend[v][1])
            BY <2>2 DEF OrdersLead
        <3>2. IsPiece(v, nextMissionCommandToSend[v][1].waypoints)
            BY <3>1, LeadsPiece
        <3> QED BY <2>1, <3>2 DEF IsTracked
    <2>5. IsTracked(m)'
        BY <2>2, <2>3, <2>4, TrackedStays
    <2> QED BY <2>2, <2>3, <2>5, TrackedMore
<1>4. ASSUME NEW v \in Vehicle, ManageResponse(v) \/ ManageState(v) \/ SentNewMission(v)
      PROVE  flown' = flown /\ toTracker' \in Seq(Tracked) /\ TracksFlown'
    <2>1. flown' = flown /\ toTracker' = toTracker
        BY <1>4 DEF ManageResponse, ManageState, SentNewMission, environment, inboxes
    <2>2. ASSUME NEW i \in DOMAIN toTracker
          PROVE  IsTracked(toTracker[i])'
        <3>1. PICK x \in Tracked : x = toTracker[i]
            OBVIOUS
        <3>2. IsTracked(x)
            BY <3>1 DEF TracksFlown
        <3>3. IsTracked(x)'
            BY <2>1, <3>2, TrackedStays
        <3>4. toTracker'[i] = x
            BY <2>1, <3>1
        <3> QED BY <2>1, <3>1, <3>3, <3>4
    <2> QED BY <2>1, <2>2 DEF TracksFlown
<1>5. ASSUME NEW v \in Vehicle, AcceptCommand(v) \/ Fly(v) \/ ReportAgain(v)
      PROVE  flown' \in [Vehicle -> SUBSET FlownType] /\ toTracker' \in Seq(Tracked) /\ TracksFlown'
    <2>1. PICK base \in Nat : \E w \in Waypoint : TurnTo(v, base, w)
        BY <1>5, TurnsIs
    <2>2. PICK w \in Waypoint : TurnTo(v, base, w)
        BY <2>1
    <2> QED BY <2>2, TurnToTracked
<1> QED BY <1>1, <1>2, <1>3, <1>4, <1>5

-----------------------------------------------------------------------------
(* What the tracker makes of a mission.                                    *)
LEMMA TracksMission ==
    ASSUME mission \in Trackable, NEW v \in Vehicle, NEW s, s = <<>> \/ IsPiece(v, s)
    PROVE  s \in Seq(Waypoint)
<1>1. CASE s = <<>>
    BY <1>1
<1>2. CASE IsPiece(v, s)
    <2>1. PICK plan \in MissionsOf(v) : \E b, e \in DOMAIN plan : IsPart(s, plan, b, e)
        BY <1>2 DEF IsPiece
    <2>2. plan \in MissionPlan
        BY MissionsOfIs DEF Trackable
    <2>3. PICK b \in DOMAIN plan, e \in DOMAIN plan : IsPart(s, plan, b, e)
        BY <2>1
    <2> QED BY <2>2, <2>3, PartIs
<1> QED BY <1>1, <1>2

LEMMA WholePlan ==
    ASSUME mission \in Trackable, NEW v \in Vehicle, NEW plan \in MissionsOf(v)
    PROVE  plan = <<>> \/ IsPiece(v, plan)
<1> SUFFICES ASSUME plan # <<>> PROVE IsPiece(v, plan)
    OBVIOUS
<1>1. plan \in MissionPlan /\ plan \in Seq(Waypoint) /\ Len(plan) \in Nat /\ DOMAIN plan = 1 .. Len(plan)
    BY MissionsOfIs, PlanIs DEF Trackable
<1>2. 1 \in DOMAIN plan /\ Len(plan) \in DOMAIN plan /\ 1 <= Len(plan)
    BY <1>1
<1>3. plan = SubSeq(plan, 1, Len(plan))
    BY <1>1
<1> QED BY <1>2, <1>3 DEF IsPiece, IsPart

(* The waypoint that a vehicle on a piece of its plans has turned to.      *)
LEMMA DidHere ==
    ASSUME mission \in Trackable, NEW v \in Vehicle, FlownInTurn(v), NEW s, IsPiece(v, s),
           NEW i \in DOMAIN s, TurnedTo(v, s[i].number)
    PROVE  /\ s[i] \in Waypoint /\ \A t \in TasksOf(s[i]) : Did(v, t)
           /\ \E a \in DOMAIN mission.plans : \E k \in DOMAIN mission.plans[a][v] :
                  s[i] = mission.plans[a][v][k]
<1>1. PICK plan \in MissionsOf(v) : \E b, e \in DOMAIN plan : IsPart(s, plan, b, e)
    BY DEF IsPiece
<1>2. mission \in MissionSettings /\ ~mission.renumbered
    BY DEF Trackable
<1>3. plan \in MissionPlan /\ \A k \in DOMAIN plan : plan[k] \in Waypoint
    BY <1>2, MissionsOfIs, PlanIs
<1>4. PICK b \in DOMAIN plan, e \in DOMAIN plan : IsPart(s, plan, b, e)
    BY <1>1
<1>5. PICK k \in DOMAIN plan : s[i] = plan[k]
    BY <1>3, <1>4, PartIs
<1>6. \A t \in TasksOf(plan[k]) : Did(v, t)
    BY <1>2, <1>5, DidAt
<1>7. PICK a \in DOMAIN mission.plans : plan = mission.plans[a][v]
    BY DEF MissionsOf
<1> QED BY <1>3, <1>5, <1>6, <1>7

(* So the task of an override is done when the vehicle is at its waypoint. *)
LEMMA OverrideDid ==
    ASSUME mission \in Trackable, NEW v \in Vehicle, FlownInTurn(v), NEW override, override # <<>>,
           OverrideFits(v, override), TurnedTo(v, override[1].waypoint)
    PROVE  Did(v, override[1].task)
<1>1. mission \in MissionSettings /\ ~mission.renumbered
    BY DEF Trackable
<1>2. PICK plan \in MissionsOf(v) : \E k, e \in DOMAIN plan :
            /\ k <= e /\ (k = 1 => e = 1)
            /\ override[1].waypoint = plan[e].number /\ override[1].task \in TasksOf(plan[k])
    BY DEF OverrideFits
<1>3. plan \in MissionPlan /\ Len(plan) \in Nat /\ DOMAIN plan = 1 .. Len(plan)
    BY <1>1, MissionsOfIs, PlanIs
<1>4. PICK k \in Nat, e \in Nat :
            /\ k \in DOMAIN plan /\ e \in DOMAIN plan /\ k <= e /\ (k = 1 => e = 1)
            /\ override[1].waypoint = plan[e].number /\ override[1].task \in TasksOf(plan[k])
    BY <1>2, <1>3
<1>5. (\A t \in TasksOf(plan[e]) : Did(v, t)) /\ OnTheWay(v, plan, e)
    BY <1>1, <1>4, DidAt
<1>6. CASE k = e
    BY <1>4, <1>5, <1>6
<1>7. CASE k # e
    <2>1. k \in 2 .. e - 1
        BY <1>3, <1>4, <1>7
    <2>2. TurnedTo(v, plan[k].number)
        BY <1>5, <2>1 DEF OnTheWay
    <2>3. \A t \in TasksOf(plan[k]) : Did(v, t)
        BY <1>1, <1>4, <2>2, DidAt
    <2> QED BY <1>4, <2>3
<1> QED BY <1>6, <1>7

(* The tasks reported.                                                     *)
LEMMA CompletedMore ==
    ASSUME mission \in Trackable, NEW v \in Vehicle, FlownInTurn(v), CompletedFlown,
           completed \in Seq([vehicle : Vehicle, task : Nat]),
           NEW S, IsFiniteSet(S), S \subseteq Nat, \A t \in S : Did(v, t), NEW emit,
           \A t \in DOMAIN emit : emit[t] \in Nat /\ StandsFor(t, emit[t]),
           completed' = completed \o Complete(v, S, emit)
    PROVE  /\ completed' \in Seq([vehicle : Vehicle, task : Nat])
           /\ \A i \in DOMAIN completed' : Did(completed'[i].vehicle, completed'[i].task)
<1>1. Complete(v, S, emit) \in Seq({[vehicle |-> v, task |-> Meant(emit, t)] : t \in S})
    BY CompleteIs
<1>2. ASSUME NEW t \in S
      PROVE  Meant(emit, t) \in Nat /\ Did(v, Meant(emit, t))
    <2>1. CASE t \in DOMAIN emit
        <3>1. Did(v, emit[t])
            BY <2>1, DidMeant
        <3> QED BY <2>1, <3>1 DEF Meant
    <2>2. CASE t \notin DOMAIN emit
        BY <2>2 DEF Meant
    <2> QED BY <2>1, <2>2
<1> DEFINE All == {[vehicle |-> v, task |-> Meant(emit, t)] : t \in S}
<1>3. \A x \in All : x \in [vehicle : Vehicle, task : Nat] /\ Did(x.vehicle, x.task)
    <2> SUFFICES ASSUME NEW x \in All
                 PROVE  x \in [vehicle : Vehicle, task : Nat] /\ Did(x.vehicle, x.task)
        OBVIOUS
    <2>1. PICK t \in S : x = [vehicle |-> v, task |-> Meant(emit, t)]
        OBVIOUS
    <2>2. x.vehicle = v /\ x.task = Meant(emit, t)
        BY <2>1
    <2> QED BY <1>2, <2>1, <2>2
<1> HIDE DEF All
<1>4. PICK c : c = Complete(v, S, emit)
    OBVIOUS
<1>5. /\ c \in Seq(All) /\ c \in Seq([vehicle : Vehicle, task : Nat])
      /\ Len(c) \in Nat /\ \A i \in 1 .. Len(c) : c[i] \in All
    <2>1. c \in Seq(All)
        BY <1>1, <1>4 DEF All
    <2>2. Len(c) \in Nat /\ c \in [1 .. Len(c) -> All]
        BY <2>1
    <2>3. c \in [1 .. Len(c) -> [vehicle : Vehicle, task : Nat]]
        BY <1>3, <2>2
    <2>4. c \in Seq([vehicle : Vehicle, task : Nat])
        <3> DEFINE T == [vehicle : Vehicle, task : Nat]
        <3> HIDE DEF T
        <3>1. Seq(T) = UNION {[1 .. k -> T] : k \in Nat}
            OBVIOUS
        <3>2. c \in Seq(T)
            BY <2>2, <2>3, <3>1 DEF T
        <3> QED BY <3>2 DEF T
    <2> QED BY <2>1, <2>2, <2>4
<1>6. completed' \in Seq([vehicle : Vehicle, task : Nat])
    BY <1>4, <1>5
<1>7. ASSUME NEW i \in DOMAIN completed'
      PROVE  Did(completed'[i].vehicle, completed'[i].task)
    <2>1. CASE i \in DOMAIN completed /\ completed'[i] = completed[i]
        BY <2>1 DEF CompletedFlown
    <2>2. CASE i - Len(completed) \in 1 .. Len(c) /\ completed'[i] = c[i - Len(completed)]
        BY <1>3, <1>5, <2>2
    <2>3. \/ i \in DOMAIN completed /\ completed'[i] = completed[i]
          \/ i - Len(completed) \in 1 .. Len(c) /\ completed'[i] = c[i - Len(completed)]
        BY <1>4, <1>5, <1>7
    <2> QED BY <2>1, <2>2, <2>3
<1> QED BY <1>6, <1>7

(***************************************************************************)
(* A step of the tracker, in terms of what was flown before it.            *)
(***************************************************************************)
TracksWell ==
    /\ TrackerTypeOK /\ TracksFlown /\ NumbersStand /\ CompletedFlown
    /\ \A v \in Vehicle : Flight(v) /\ Follows(v)
KeepsTrack ==
    /\ m_missions' \in [Vehicle -> Seq(Waypoint)]
    /\ m_tasksInProgress' \in [Vehicle -> {S \in SUBSET Nat : IsFiniteSet(S)}]
    /\ m_override' \in [Vehicle -> Seq([task : Nat, waypoint : Nat])]
    /\ completed' \in Seq([vehicle : Vehicle, task : Nat])
    /\ \A v \in Vehicle :
          /\ m_missions'[v] # <<>> => IsPiece(v, m_missions'[v])
          /\ OverrideFits(v, m_override'[v])
          /\ \A t \in m_tasksInProgress'[v] : Did(v, t)
    /\ \A x \in DOMAIN m_taskEmit' : StandsFor(x, m_taskEmit'[x])
    /\ \A i \in DOMAIN completed' : Did(completed'[i].vehicle, completed'[i].task)

LEMMA StepTracks ==
    ASSUME mission' = mission, \A v \in Vehicle : flown[v] \subseteq flown'[v], KeepsTrack
    PROVE  /\ \A v \in Vehicle : Follows(v)'
           /\ NumbersStand' /\ CompletedFlown'
<1>1. ASSUME NEW v \in Vehicle
      PROVE  Follows(v)'
    <2>1. /\ MissionsOf(v)' = MissionsOf(v)
          /\ \A t : Did(v, t) => Did(v, t)'
          /\ \A s : IsPiece(v, s) => IsPiece(v, s)'
        BY FlownStays
    <2>2. m_missions'[v] # <<>> => IsPiece(v, m_missions[v])'
        <3>1. PICK s : s = m_missions'[v]
            OBVIOUS
        <3>2. s # <<>> => IsPiece(v, s)
            BY <3>1 DEF KeepsTrack
        <3>3. s # <<>> => IsPiece(v, s)'
            BY <2>1, <3>2
        <3> QED BY <3>1, <3>3
    <2>3. OverrideFits(v, m_override[v])'
        BY <2>1 DEF KeepsTrack, OverrideFits
    <2>4. \A t \in m_tasksInProgress'[v] : Did(v, t)'
        BY <2>1 DEF KeepsTrack
    <2> QED BY <2>2, <2>3, <2>4 DEF Follows
<1>2. NumbersStand'
    <2>1. \A x, t : StandsFor(x, t) => StandsFor(x, t)'
        BY DEF StandsFor
    <2>2. ASSUME NEW x \in DOMAIN m_taskEmit'
          PROVE  StandsFor(x, m_taskEmit[x])'
        <3>1. PICK t : t = m_taskEmit'[x]
            OBVIOUS
        <3>2. StandsFor(x, t)
            BY <3>1 DEF KeepsTrack
        <3>3. StandsFor(x, t)'
            BY <2>1, <3>2
        <3> QED BY <3>1, <3>3
    <2> QED BY <2>2 DEF NumbersStand
<1>3. ASSUME NEW i \in DOMAIN completed'
      PROVE  Did(completed[i].vehicle, completed[i].task)'
    <2>1. PICK v \in Vehicle, t \in {completed'[i].task} : v = completed'[i].vehicle
        <3>1. completed' \in Seq([vehicle : Vehicle, task : Nat])
            BY DEF KeepsTrack
        <3>2. completed'[i] \in [vehicle : Vehicle, task : Nat]
            <4> DEFINE T == [vehicle : Vehicle, task : Nat]
            <4> HIDE DEF T
            <4>1. completed' \in Seq(T)
                BY <3>1 DEF T
            <4>2. completed'[i] \in T
                BY <1>3, <4>1
            <4> QED BY <4>2 DEF T
        <3> QED BY <3>2
    <2>2. Did(v, t)
        BY <2>1 DEF KeepsTrack
    <2>3. Did(v, t)'
        BY <2>2, FlownStays
    <2> QED BY <2>1, <2>3
<1> QED BY <1>1, <1>2, <1>3 DEF CompletedFlown

LEMMA Untracked ==
    ASSUME TracksWell, UNCHANGED tracker
    PROVE  KeepsTrack
BY DEF TracksWell, TrackerTypeOK, Follows, NumbersStand, CompletedFlown, tracker, KeepsTrack

LEMMA ResponseTracked ==
    ASSUME TracksWell, mission \in Trackable, TrackResponse
    PROVE  KeepsTrack
<1>1. PICK m : m = Head(toTracker)
    OBVIOUS
<1>2. /\ toTracker # <<>> /\ m.type = "AutomationResponse"
      /\ m_tasksInProgress' = [v \in Vehicle |-> {}] /\ m_missions' = m.plans
      /\ m_override' = [v \in Vehicle |-> Override(m.plans[v])]
      /\ m_taskEmit' = m_taskEmit /\ completed' = completed
    BY <1>1 DEF TrackResponse
<1>3. IsTracked(m)
    <2>1. toTracker \in Seq(Tracked)
        BY DEF TracksWell, TrackerTypeOK
    <2>2. 1 \in DOMAIN toTracker /\ m = toTracker[1]
        BY <1>1, <1>2, <2>1
    <2> QED BY <2>2 DEF TracksWell, TracksFlown
<1>4. PICK k \in DOMAIN mission.plans : m.plans = mission.plans[k]
    BY <1>2, <1>3 DEF IsTracked
<1>5. m.plans \in [Vehicle -> MissionPlan]
    BY <1>4, MissionIs DEF Trackable
<1>6. ASSUME NEW v \in Vehicle
      PROVE  /\ m.plans[v] \in Seq(Waypoint) /\ (m.plans[v] # <<>> => IsPiece(v, m.plans[v]))
             /\ Override(m.plans[v]) \in Seq([task : Nat, waypoint : Nat])
             /\ OverrideFits(v, Override(m.plans[v]))
    <2>1. PICK plan \in MissionsOf(v) : plan = m.plans[v]
        BY <1>4 DEF MissionsOf
    <2>2. plan = <<>> \/ IsPiece(v, plan)
        BY WholePlan
    <2>3. Override(plan) \in Seq([task : Nat, waypoint : Nat]) /\ OverrideFits(v, Override(plan))
        BY <2>2, OverrideIs
    <2>4. plan \in Seq(Waypoint)
        BY <2>2, TracksMission
    <2> QED BY <2>1, <2>2, <2>3, <2>4
<1>7. {} \in {S \in SUBSET Nat : IsFiniteSet(S)}
    BY FS_EmptySet
<1>8. /\ m_missions' \in [Vehicle -> Seq(Waypoint)]
      /\ m_tasksInProgress' \in [Vehicle -> {S \in SUBSET Nat : IsFiniteSet(S)}]
      /\ m_override' \in [Vehicle -> Seq([task : Nat, waypoint : Nat])]
    BY <1>2, <1>5, <1>6, <1>7
<1>9. \A v \in Vehicle : /\ m_missions'[v] = m.plans[v] /\ m_tasksInProgress'[v] = {}
                         /\ m_override'[v] = Override(m.plans[v])
    BY <1>2
<1>10. \A v \in Vehicle :
          /\ m_missions'[v] # <<>> => IsPiece(v, m_missions'[v])
          /\ OverrideFits(v, m_override'[v])
          /\ \A t \in m_tasksInProgress'[v] : Did(v, t)
    BY <1>6, <1>9
<1> QED BY <1>2, <1>8, <1>10
       DEF KeepsTrack, TracksWell, TrackerTypeOK, NumbersStand, CompletedFlown

LEMMA CommandTracked ==
    ASSUME TracksWell, mission \in Trackable, TrackCommand
    PROVE  KeepsTrack
<1>1. PICK m : m = Head(toTracker)
    OBVIOUS
<1>2. toTracker # <<>> /\ m.type = "MissionCommand" /\ TrackMission(m.vehicle, m.command.waypoints)
    BY <1>1 DEF TrackCommand
<1>3. IsTracked(m) /\ m \in Tracked
    <2>1. toTracker \in Seq(Tracked)
        BY DEF TracksWell, TrackerTypeOK
    <2>2. 1 \in DOMAIN toTracker /\ m = toTracker[1]
        BY <1>1, <1>2, <2>1
    <2> QED BY <2>1, <2>2 DEF TracksWell, TracksFlown
<1>4. PICK v \in Vehicle, s \in {m.command.waypoints} : v = m.vehicle
    <2>1. m.vehicle \in Vehicle
        BY <1>2, <1>3 DEF Tracked, PlanMessage, Report, Order
    <2> QED BY <2>1
<1>5. IsPiece(v, s)
    BY <1>2, <1>3, <1>4 DEF IsTracked
<1>6. /\ m_tasksInProgress' = [m_tasksInProgress EXCEPT ![v] = {}]
      /\ m_missions' = [m_missions EXCEPT ![v] = s]
      /\ m_override' = [m_override EXCEPT ![v] = Override(s)]
      /\ m_taskEmit' = m_taskEmit /\ completed' = completed
    BY <1>2, <1>4 DEF TrackMission
<1>7. Override(s) \in Seq([task : Nat, waypoint : Nat]) /\ OverrideFits(v, Override(s)) /\ s \in Seq(Waypoint)
    BY <1>5, OverrideIs, TracksMission
<1>8. {} \in {S \in SUBSET Nat : IsFiniteSet(S)}
    BY FS_EmptySet
<1>9. /\ m_missions \in [Vehicle -> Seq(Waypoint)]
      /\ m_tasksInProgress \in [Vehicle -> {S \in SUBSET Nat : IsFiniteSet(S)}]
      /\ m_override \in [Vehicle -> Seq([task : Nat, waypoint : Nat])]
    BY DEF TracksWell, TrackerTypeOK
<1>10. /\ m_missions' \in [Vehicle -> Seq(Waypoint)]
       /\ m_tasksInProgress' \in [Vehicle -> {S \in SUBSET Nat : IsFiniteSet(S)}]
       /\ m_override' \in [Vehicle -> Seq([task : Nat, waypoint : Nat])]
    BY <1>6, <1>7, <1>8, <1>9
<1>11. /\ m_missions'[v] = s /\ m_tasksInProgress'[v] = {} /\ m_override'[v] = Override(s)
       /\ \A u \in Vehicle \ {v} : /\ m_missions'[u] = m_missions[u] /\ m_override'[u] = m_override[u]
                                   /\ m_tasksInProgress'[u] = m_tasksInProgress[u]
    BY <1>6, <1>9
<1>12. ASSUME NEW u \in Vehicle
       PROVE  /\ m_missions'[u] # <<>> => IsPiece(u, m_missions'[u])
              /\ OverrideFits(u, m_override'[u])
              /\ \A t \in m_tasksInProgress'[u] : Did(u, t)
    <2>1. CASE u = v
        BY <1>5, <1>7, <1>11, <2>1
    <2>2. CASE u # v
        <3>1. Follows(u)
            BY DEF TracksWell
        <3> QED BY <1>11, <2>2, <3>1 DEF Follows
    <2> QED BY <2>1, <2>2
<1> QED BY <1>6, <1>10, <1>12
       DEF KeepsTrack, TracksWell, TrackerTypeOK, NumbersStand, CompletedFlown

LEMMA StandsForIs ==
    ASSUME mission \in MissionSettings, NEW x, NEW t, StandsFor(x, t)
    PROVE  t \in Nat
<1>1. PICK k \in DOMAIN mission.plans, v \in Vehicle : \E i \in DOMAIN mission.plans[k][v] :
          mission.plans[k][v][i].tasks # <<>> /\ t = mission.plans[k][v][i].tasks[1]
    BY DEF StandsFor
<1>2. PICK i \in DOMAIN mission.plans[k][v] :
          mission.plans[k][v][i].tasks # <<>> /\ t = mission.plans[k][v][i].tasks[1]
    BY <1>1
<1>3. PICK plan \in MissionPlan : plan = mission.plans[k][v]
    BY MissionIs
<1>4. PICK w \in Waypoint : w = mission.plans[k][v][i]
    BY <1>2, <1>3, PlanIs
<1> QED BY <1>2, <1>4, TasksAre

LEMMA OverrideTracked ==
    ASSUME TracksWell, mission \in Trackable, NEW v \in Vehicle, NEW n, TurnedTo(v, n), TrackOverride(v, n)
    PROVE  KeepsTrack
<1>1. PICK t : t = m_override[v][1].task
    OBVIOUS
<1>2. /\ m_override[v] # <<>> /\ m_override[v][1].waypoint = n
      /\ completed' = completed \o Complete(v, {t}, Nothing)
      /\ m_tasksInProgress' = [m_tasksInProgress EXCEPT ![v] = m_tasksInProgress[v] \ {t}]
      /\ m_override' = [m_override EXCEPT ![v] = <<>>]
      /\ m_missions' = m_missions /\ m_taskEmit' = m_taskEmit
    BY <1>1 DEF TrackOverride, AtEnd
<1>3. TrackerTypeOK /\ NumbersStand /\ CompletedFlown /\ FlownInTurn(v) /\ \A u \in Vehicle : Follows(u)
    BY DEF TracksWell, Flight
<1>4. /\ m_tasksInProgress \in [Vehicle -> {S \in SUBSET Nat : IsFiniteSet(S)}]
      /\ m_override \in [Vehicle -> Seq([task : Nat, waypoint : Nat])]
    BY <1>3 DEF TrackerTypeOK
<1>5. Did(v, t)
    <2>1. PICK override : override = m_override[v]
        OBVIOUS
    <2>2. OverrideFits(v, override)
        BY <1>3, <2>1 DEF Follows
    <2> QED BY <1>1, <1>2, <1>3, <2>1, <2>2, OverrideDid
<1>6. t \in Nat
    <2>1. m_override[v] \in Seq([task : Nat, waypoint : Nat])
        BY <1>4
    <2>2. m_override[v][1] \in [task : Nat, waypoint : Nat]
        <3> DEFINE T == [task : Nat, waypoint : Nat]
        <3> HIDE DEF T
        <3>1. m_override[v] \in Seq(T)
            BY <2>1 DEF T
        <3>2. m_override[v][1] \in T
            BY <1>2, <3>1
        <3> QED BY <3>2 DEF T
    <2> QED BY <1>1, <2>2
<1>7. /\ completed' \in Seq([vehicle : Vehicle, task : Nat])
      /\ \A i \in DOMAIN completed' : Did(completed'[i].vehicle, completed'[i].task)
    <2>1. IsFiniteSet({t}) /\ {t} \subseteq Nat /\ \A x \in {t} : Did(v, x)
        BY <1>5, <1>6, FS_Singleton
    <2>2. PICK S : S = {t}
        OBVIOUS
    <2>3. PICK emit : emit = Nothing
        OBVIOUS
    <2>4. DOMAIN emit = {}
        BY <2>3 DEF Nothing
    <2>5. completed \in Seq([vehicle : Vehicle, task : Nat])
        BY <1>3 DEF TrackerTypeOK
    <2>6. completed' = completed \o Complete(v, S, emit)
        BY <1>2, <2>2, <2>3
    <2> QED BY <1>3, <2>1, <2>2, <2>4, <2>5, <2>6, CompletedMore
<1>8. m_tasksInProgress[v] \ {t} \in {S \in SUBSET Nat : IsFiniteSet(S)}
    <2>1. m_tasksInProgress[v] \subseteq Nat /\ IsFiniteSet(m_tasksInProgress[v])
        BY <1>4
    <2>2. m_tasksInProgress[v] \ {t} \subseteq m_tasksInProgress[v]
        OBVIOUS
    <2>3. IsFiniteSet(m_tasksInProgress[v] \ {t})
        BY <2>1, <2>2, FS_Subset
    <2> QED BY <2>1, <2>3
<1>9. <<>> \in Seq([task : Nat, waypoint : Nat])
    OBVIOUS
<1>10. /\ m_tasksInProgress' \in [Vehicle -> {S \in SUBSET Nat : IsFiniteSet(S)}]
       /\ m_override' \in [Vehicle -> Seq([task : Nat, waypoint : Nat])]
       /\ m_override'[v] = <<>> /\ \A u \in Vehicle \ {v} : m_override'[u] = m_override[u]
       /\ \A u \in Vehicle : m_tasksInProgress'[u] \subseteq m_tasksInProgress[u]
    BY <1>2, <1>4, <1>8, <1>9
<1>11. ASSUME NEW u \in Vehicle
       PROVE  /\ m_missions'[u] # <<>> => IsPiece(u, m_missions'[u])
              /\ OverrideFits(u, m_override'[u])
              /\ \A x \in m_tasksInProgress'[u] : Did(u, x)
    <2>1. Follows(u)
        BY <1>3
    <2>2. OverrideFits(u, <<>>)
        BY DEF OverrideFits
    <2>3. OverrideFits(u, m_override'[u])
        <3>1. CASE u = v
            BY <1>10, <2>2, <3>1
        <3>2. CASE u # v
            BY <1>10, <2>1, <3>2 DEF Follows
        <3> QED BY <3>1, <3>2
    <2> QED BY <1>2, <1>10, <2>1, <2>3 DEF Follows
<1> QED BY <1>2, <1>3, <1>7, <1>10, <1>11 DEF KeepsTrack, TrackerTypeOK, NumbersStand

LEMMA WaypointTracked ==
    ASSUME TracksWell, mission \in Trackable, NEW v \in Vehicle, NEW i \in DOMAIN m_missions[v],
           TurnedTo(v, m_missions[v][i].number), TrackWaypoint(v, m_missions[v][i])
    PROVE  KeepsTrack
<1>1. TrackerTypeOK /\ NumbersStand /\ CompletedFlown /\ FlownInTurn(v) /\ \A u \in Vehicle : Follows(u)
    BY DEF TracksWell, Flight
<1>2. m_tasksInProgress \in [Vehicle -> {S \in SUBSET Nat : IsFiniteSet(S)}]
      /\ m_missions[v] \in Seq(Waypoint) /\ completed \in Seq([vehicle : Vehicle, task : Nat])
    BY <1>1 DEF TrackerTypeOK
<1>3. PICK w : w = m_missions[v][i]
    OBVIOUS
<1>4. PICK s : s = m_missions[v]
    OBVIOUS
<1>5. IsPiece(v, s)
    <2>1. s # <<>>
        BY <1>2, <1>4
    <2> QED BY <1>1, <1>4, <2>1 DEF Follows
<1>6. /\ w \in Waypoint /\ \A t \in TasksOf(w) : Did(v, t)
      /\ \E a \in DOMAIN mission.plans : \E k \in DOMAIN mission.plans[a][v] :
             w = mission.plans[a][v][k]
    BY <1>1, <1>3, <1>4, <1>5, DidHere
<1> DEFINE from == w.number \div Numbering
           named == IF from > 0 THEN {from} ELSE {}
           current == m_tasksInProgress[v] \cup named \cup ListOf(w)
           put == IF from > 0 /\ w.tasks # <<>> THEN Put(m_taskEmit, from, w.tasks[1]) ELSE m_taskEmit
<1>8. PICK over : /\ over \subseteq current
                  /\ m_tasksInProgress' = [m_tasksInProgress EXCEPT ![v] = current \ over]
                  /\ m_taskEmit' = Drop(put, over)
                  /\ completed' = completed \o Complete(v, over, put)
                  /\ m_missions' = m_missions /\ m_override' = m_override
    <2>1. TrackWaypoint(v, w)
        BY <1>3
    <2> DEFINE place == w.number % Numbering
               others == {t \in current : t # from /\ t \notin ListOf(w)}
               after(before) == IF before = {} THEN m_taskWp[v] ELSE Nothing
               again(before) == {t \in named \cap DOMAIN after(before) : place < after(before)[t]}
    <2>2. PICK before \in SUBSET others :
              /\ m_tasksInProgress' = [m_tasksInProgress EXCEPT ![v] = current \ (others \cup again(before))]
              /\ m_taskEmit' = Drop(put, others \cup again(before))
              /\ completed' = completed \o Complete(v, others \cup again(before), put)
              /\ m_missions' = m_missions /\ m_override' = m_override
        BY <2>1, Zenon DEF TrackWaypoint
    <2>3. others \cup again(before) \subseteq current
        OBVIOUS
    <2> QED BY <2>2, <2>3
<1>9. from \in Nat /\ from \in TasksOf(w)
    BY <1>6, TasksAre
<1> HIDE DEF from
<1>10. /\ current \subseteq Nat /\ IsFiniteSet(current) /\ \A t \in current : Did(v, t)
    <2>1. /\ m_tasksInProgress[v] \subseteq Nat /\ IsFiniteSet(m_tasksInProgress[v])
          /\ \A t \in m_tasksInProgress[v] : Did(v, t)
        BY <1>1, <1>2 DEF Follows
    <2>2. /\ ListOf(w) \subseteq Nat /\ IsFiniteSet(ListOf(w)) /\ ListOf(w) \subseteq TasksOf(w)
        BY <1>6, TasksAre
    <2>3. named \subseteq Nat /\ IsFiniteSet(named) /\ named \subseteq TasksOf(w)
        BY <1>9, FS_EmptySet, FS_Singleton
    <2> HIDE DEF named
    <2>4. IsFiniteSet(m_tasksInProgress[v] \cup named)
        BY <2>1, <2>3, FS_Union
    <2>5. IsFiniteSet(current)
        BY <2>2, <2>4, FS_Union
    <2> QED BY <1>6, <2>1, <2>2, <2>3, <2>5
<1> HIDE DEF current, put
<1>11. \A x \in DOMAIN put : put[x] \in Nat /\ StandsFor(x, put[x])
    <2>1. \A x \in DOMAIN m_taskEmit : StandsFor(x, m_taskEmit[x])
        BY <1>1 DEF NumbersStand
    <2>2. CASE from > 0 /\ w.tasks # <<>>
        <3>1. StandsFor(from, w.tasks[1])
            <4>1. w.number >= Numbering
                <5>1. w.number \in Nat /\ Numbering \in Nat \ {0}
                    BY <1>6, TasksAre, TrackerAssumption
                <5> QED BY <2>2, <5>1 DEF from
            <4> QED BY <1>6, <2>2, <4>1 DEF StandsFor, from
        <3>2. put = [z \in DOMAIN m_taskEmit \cup {from} |-> IF z = from THEN w.tasks[1] ELSE m_taskEmit[z]]
            BY <2>2 DEF put, Put
        <3>3. \A x \in DOMAIN put : StandsFor(x, put[x])
            BY <2>1, <3>1, <3>2
        <3> QED BY <3>3, StandsForIs DEF Trackable
    <2>3. CASE ~(from > 0 /\ w.tasks # <<>>)
        <3>1. put = m_taskEmit
            BY <2>3 DEF put
        <3> QED BY <2>1, <3>1, StandsForIs DEF Trackable
    <2> QED BY <2>2, <2>3
<1>12. PICK emit : emit = put
    OBVIOUS
<1>13. IsFiniteSet(over) /\ over \subseteq Nat /\ \A t \in over : Did(v, t)
    BY <1>8, <1>10, FS_Subset
<1>14. /\ completed' \in Seq([vehicle : Vehicle, task : Nat])
       /\ \A j \in DOMAIN completed' : Did(completed'[j].vehicle, completed'[j].task)
    BY <1>1, <1>2, <1>8, <1>11, <1>12, <1>13, CompletedMore
<1>15. \A x \in DOMAIN m_taskEmit' : StandsFor(x, m_taskEmit'[x])
    <2>1. m_taskEmit' = [z \in DOMAIN put \ over |-> put[z]]
        BY <1>8 DEF Drop
    <2> QED BY <1>11, <2>1
<1>16. current \ over \in {S \in SUBSET Nat : IsFiniteSet(S)}
    <2>1. current \ over \subseteq current
        OBVIOUS
    <2>2. IsFiniteSet(current \ over)
        BY <1>10, <2>1, FS_Subset
    <2> QED BY <1>10, <2>2
<1>17. /\ m_tasksInProgress' \in [Vehicle -> {S \in SUBSET Nat : IsFiniteSet(S)}]
       /\ m_tasksInProgress'[v] \subseteq current
       /\ \A u \in Vehicle \ {v} : m_tasksInProgress'[u] = m_tasksInProgress[u]
    BY <1>2, <1>8, <1>16
<1>18. ASSUME NEW u \in Vehicle
       PROVE  /\ m_missions'[u] # <<>> => IsPiece(u, m_missions'[u])
              /\ OverrideFits(u, m_override'[u])
              /\ \A x \in m_tasksInProgress'[u] : Did(u, x)
    <2>1. Follows(u)
        BY <1>1
    <2>2. \A x \in m_tasksInProgress'[u] : Did(u, x)
        BY <1>10, <1>17, <2>1 DEF Follows
    <2> QED BY <1>8, <2>1, <2>2 DEF Follows
<1> QED BY <1>1, <1>8, <1>14, <1>15, <1>17, <1>18 DEF KeepsTrack, TrackerTypeOK

LEMMA StateTracked ==
    ASSUME TracksWell, mission \in Trackable, TrackState
    PROVE  KeepsTrack
<1>1. PICK m : m = Head(toTracker)
    OBVIOUS
<1>2. toTracker # <<>> /\ m.type = "AirVehicleState" /\ TrackVehicleState(m.vehicle, m.waypoint)
    BY <1>1 DEF TrackState
<1>3. IsTracked(m) /\ m \in Tracked
    <2>1. toTracker \in Seq(Tracked)
        BY DEF TracksWell, TrackerTypeOK
    <2>2. 1 \in DOMAIN toTracker /\ m = toTracker[1]
        BY <1>1, <1>2, <2>1
    <2> QED BY <2>1, <2>2 DEF TracksWell, TracksFlown
<1>4. PICK v \in Vehicle, n \in {m.waypoint} : v = m.vehicle
    <2>1. m.vehicle \in Vehicle
        BY <1>2, <1>3 DEF Tracked, PlanMessage, Report, Order
    <2> QED BY <2>1
<1>5. TurnedTo(v, n)
    BY <1>2, <1>3, <1>4 DEF IsTracked
<1>6. TrackVehicleState(v, n)
    BY <1>2, <1>4
<1> DEFINE found == {i \in DOMAIN m_missions[v] : m_missions[v][i].number = n}
           least == CHOOSE i \in found : \A j \in found : i <= j
<1>7. CASE TrackOverride(v, n)
    BY <1>5, <1>7, OverrideTracked
<1>8. CASE found = {} /\ UNCHANGED tracker
    BY <1>8, Untracked
<1>9. CASE found # {} /\ TrackWaypoint(v, m_missions[v][least])
    <2>1. found \subseteq Nat
        <3>1. m_missions[v] \in Seq(Waypoint)
            BY DEF TracksWell, TrackerTypeOK
        <3> QED BY <3>1
    <2>2. \E i \in found : \A j \in found : i <= j
        <3> HIDE DEF found
        <3> QED BY <1>9, <2>1, Least
    <2>3. PICK i \in found : i = least
        BY <2>2
    <2>4. i \in DOMAIN m_missions[v] /\ m_missions[v][i].number = n
        OBVIOUS
    <2>5. TrackWaypoint(v, m_missions[v][i])
        BY <1>9, <2>3
    <2>6. TurnedTo(v, m_missions[v][i].number)
        BY <1>5, <2>4
    <2> QED BY <2>4, <2>5, <2>6, WaypointTracked
<1> QED BY <1>6, <1>7, <1>8, <1>9 DEF TrackVehicleState

-----------------------------------------------------------------------------
TrackInv ==
    /\ CutInv
    /\ Healthy(mission.serve, mission.overlap) /\ mission \in Trackable => TracksWell

LEMMA TrackInit == MissionInit => TrackInv
<1> SUFFICES ASSUME MissionInit, mission \in Trackable PROVE TracksWell
    BY MissionInitIs DEF TrackInv
<1>1. /\ toManager = [v \in Vehicle |-> <<>>] /\ toVehicle = [v \in Vehicle |-> <<>>]
      /\ course = [v \in Vehicle |-> OnGround] /\ assigned = [v \in Vehicle |-> NoPlan]
      /\ flown = [v \in Vehicle |-> {}] /\ toTracker = <<>>
      /\ nextMissionCommandToSend = [v \in Vehicle |-> <<>>]
      /\ m_missions = [v \in Vehicle |-> <<>>] /\ m_tasksInProgress = [v \in Vehicle |-> {}]
      /\ m_override = [v \in Vehicle |-> <<>>] /\ m_taskEmit = Nothing /\ completed = <<>>
    BY DEF MissionInit, ManagerInit, TrackerInit
<1>2. \A i \in DOMAIN <<>> : FALSE
    OBVIOUS
<1>3. TrackerTypeOK
    <2>1. /\ <<>> \in Seq(Tracked) /\ <<>> \in Seq(Waypoint) /\ <<>> \in Seq([task : Nat, waypoint : Nat])
          /\ <<>> \in Seq([vehicle : Vehicle, task : Nat]) /\ {} \in SUBSET FlownType
        OBVIOUS
    <2>2. {} \in {S \in SUBSET Nat : IsFiniteSet(S)}
        BY FS_EmptySet
    <2> QED BY <1>1, <2>1, <2>2 DEF TrackerTypeOK
<1>4. TracksFlown /\ CompletedFlown
    BY <1>1, <1>2 DEF TracksFlown, CompletedFlown
<1>5. NumbersStand
    <2>1. DOMAIN m_taskEmit = {}
        BY <1>1 DEF Nothing
    <2> QED BY <2>1 DEF NumbersStand
<1>6. ASSUME NEW v \in Vehicle
      PROVE  Flight(v) /\ Follows(v)
    <2>1. /\ toManager[v] = <<>> /\ toVehicle[v] = <<>> /\ course[v] = OnGround /\ assigned[v] = NoPlan
          /\ flown[v] = {} /\ nextMissionCommandToSend[v] = <<>>
          /\ m_missions[v] = <<>> /\ m_tasksInProgress[v] = {} /\ m_override[v] = <<>>
        BY <1>1
    <2>2. assigned[v].waypoints = <<>>
        BY <2>1 DEF NoPlan
    <2>3. Flight(v)
        BY <1>2, <2>1, <2>2 DEF Flight, FlownInTurn, HearsOfFlown, OrdersLead, CourseLeads
    <2>4. Follows(v)
        BY <2>1 DEF Follows, OverrideFits
    <2> QED BY <2>3, <2>4
<1> QED BY <1>3, <1>4, <1>5, <1>6 DEF TracksWell

LEMMA TracksWellNext ==
    ASSUME TracksWell, mission \in Trackable, Healthy(mission.serve, mission.overlap),
           ManagerTypeOK, PlansCut, [MissionNext]_missionVars
    PROVE  TracksWell'
<1>1. mission \in MissionSettings /\ ~mission.renumbered
    BY DEF Trackable
<1>2. /\ TrackerTypeOK /\ TracksFlown /\ flown \in [Vehicle -> SUBSET FlownType]
      /\ toTracker \in Seq(Tracked) /\ \A v \in Vehicle : Flight(v)
    BY DEF TracksWell, TrackerTypeOK
<1>3. mission' = mission /\ ManagerTypeOK' /\ \A v \in Vehicle : FlightStep(v)
    BY <1>1, <1>2, FlightStepIs
<1>4. \A v \in Vehicle : Flight(v)' /\ flown[v] \subseteq flown'[v]
    BY <1>1, <1>2, <1>3, FlightStays, FlownGrows
<1>5. KeepsTrack /\ flown' \in [Vehicle -> SUBSET FlownType] /\ toTracker' \in Seq(Tracked) /\ TracksFlown'
    <2>1. CASE PublishPlan \/ \E v \in Vehicle : \/ ManageResponse(v) \/ ManageState(v)
                                                 \/ SendNewMission(v) \/ SentNewMission(v)
                                                 \/ AcceptCommand(v) \/ Fly(v) \/ ReportAgain(v)
        <3>1. \A v \in Vehicle : OrdersLead(v)
            BY <1>2 DEF Flight
        <3> QED BY <1>1, <1>2, <1>3, <2>1, <3>1, TrackedGrows, Untracked
    <2>2. CASE TrackResponse \/ TrackCommand \/ TrackState
        <3>1. toTracker # <<>> /\ toTracker' = Tail(toTracker) /\ flown' = flown
            BY <2>2 DEF TrackResponse, TrackCommand, TrackState, environment
        <3>2. toTracker' \in Seq(Tracked) /\ TracksFlown'
            BY <1>2, <1>3, <3>1, TrackedLess
        <3> QED BY <1>2, <2>2, <3>1, <3>2, ResponseTracked, CommandTracked, StateTracked
    <2>3. CASE UNCHANGED missionVars
        <3>1. UNCHANGED tracker /\ flown' = flown /\ toTracker' = toTracker
            BY <2>3 DEF missionVars, environment, inboxes
        <3>2. ASSUME NEW i \in DOMAIN toTracker
              PROVE  IsTracked(toTracker[i])'
            <4>1. PICK x \in Tracked : x = toTracker[i]
                BY <1>2
            <4>2. IsTracked(x)
                BY <1>2, <4>1 DEF TracksFlown
            <4>3. IsTracked(x)'
                BY <1>3, <3>1, <4>2, TrackedStays
            <4>4. toTracker'[i] = x
                BY <3>1, <4>1
            <4> QED BY <3>1, <4>1, <4>3, <4>4
        <3>3. TracksFlown'
            BY <3>1, <3>2 DEF TracksFlown
        <3> QED BY <1>2, <3>1, <3>3, Untracked
    <2> QED BY <2>1, <2>2, <2>3 DEF MissionNext, MissionWork
<1>6. (\A v \in Vehicle : Follows(v)') /\ NumbersStand' /\ CompletedFlown'
    BY <1>3, <1>4, <1>5, StepTracks
<1>7. TrackerTypeOK'
    BY <1>5 DEF TrackerTypeOK, KeepsTrack
<1> QED BY <1>4, <1>5, <1>6, <1>7 DEF TracksWell

LEMMA TrackNext == TrackInv /\ [MissionNext]_missionVars => TrackInv'
<1> SUFFICES ASSUME TrackInv, [MissionNext]_missionVars PROVE TrackInv'
    OBVIOUS
<1>1. mission' = mission
    BY DEF MissionNext, MissionWork, PublishPlan, ManageResponse, ManageState, SendNewMission,
       SentNewMission, AcceptCommand, Fly, ReportAgain, TrackResponse, TrackCommand, TrackState,
       missionVars
<1>2. CutInv'
    BY CutInvNext DEF TrackInv
<1>3. ASSUME Healthy(mission.serve, mission.overlap), mission \in Trackable
      PROVE  TracksWell'
    <2>1. ManagerTypeOK /\ PlansCut /\ TracksWell
        BY <1>3 DEF TrackInv, CutInv
    <2> QED BY <1>3, <2>1, TracksWellNext
<1>4. (Healthy(mission.serve, mission.overlap) /\ mission \in Trackable => TracksWell)'
    BY <1>1, <1>3 DEF Healthy
<1> QED BY <1>2, <1>4 DEF TrackInv

(***************************************************************************)
(* Whatever the order in which the TaskTracker hears of plans, commands    *)
(* and vehicles, and however late, it never broadcasts TaskComplete for a  *)
(* task of which the vehicle has not turned to a waypoint                  *)
(* (HandleVehicleState and HandleMissionCommand of TaskTrackerService.cpp),*)
(* if the plans are such that a number which stands for a task does so for *)
(* all vehicles, and none ends on a loop whose task is done with the first *)
(* waypoint.                                                               *)
(***************************************************************************)
THEOREM ReportedWhenFlown ==
    MissionSpec => [](Healthy(mission.serve, mission.overlap) => CompleteWhenFlown)
<1>1. TrackInv => (Healthy(mission.serve, mission.overlap) => CompleteWhenFlown)
    BY DEF TrackInv, TracksWell, CompletedFlown, Did, CompleteWhenFlown
<1> QED BY <1>1, TrackInit, TrackNext, PTL DEF MissionSpec
=============================================================================
