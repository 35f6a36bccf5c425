--------------------------- MODULE AssignmentTree ---------------------------
(***************************************************************************)
(* AssignmentTreeBranchBoundBase: collects, for each UniqueAutomation-     *)
(* Request, the request, the options of its tasks and the cost matrix, in  *)
(* whatever order they come, and then computes the assignment.             *)
(*                                                                         *)
(* The search itself is left out: it finds an assignment or it does not.   *)
(***************************************************************************)
EXTENDS MessageBus

VARIABLE held   \* m_idVsAssigmentPrerequisites: the messages kept for each

AssignmentTreeInit == held = [r \in Request |-> {}]

Prerequisite == {"UniqueAutomationRequest", "TaskPlanOptions", "AssignmentCostMatrix"}

(***************************************************************************)
(* A message replaces the one kept in its place: the options of the same   *)
(* task, or the request or the matrix.                                     *)
(***************************************************************************)
SamePlace(m, n) == m.type = n.type /\ (m.type = "TaskPlanOptions" => m.task = n.task)
KeptLast(m) == {m}   \* fault: the entry is created anew
Kept(m) == {n \in held[m.about] : ~SamePlace(m, n)} \cup {m}

IsAssignmentReady(r, kept) ==
    /\ \E m \in kept : m.type = "UniqueAutomationRequest"
    /\ \E m \in kept : m.type = "AssignmentCostMatrix"
    /\ TasksOf[r] # {}
    /\ \A t \in TasksOf[r] : \E m \in kept : m.type = "TaskPlanOptions" /\ m.task = t

(***************************************************************************)
(* calculateAssignment: travel times are looked up by vehicle, task and    *)
(* option, so a task can be assigned only if one of the options held has   *)
(* routes in the matrix.  Even then there may be no assignment, for the    *)
(* relationships of the tasks, which is reported by one or two ServiceSta- *)
(* tus errors, here by one.  These do not say which request they are       *)
(* about.                                                                  *)
(***************************************************************************)
IsReachable(t, kept) ==
    \E n, m \in kept :
        /\ n.type = "TaskPlanOptions" /\ n.task = t
        /\ m.type = "AssignmentCostMatrix"
        /\ \E o \in n.options, c \in m.costs : c.to.task = t /\ c.to.option = o.option
Assignments(r, kept) ==
    {[type |-> "ServiceStatus", about |-> r]}
    \cup {a \in {[type |-> "TaskAssignmentSummary", about |-> r]} :
              \A t \in TasksOf[r] : IsReachable(t, kept)}

AssignmentTreeStep ==
    \E i \in DOMAIN log :
        /\ IsNext("AssignmentTree", i)
        /\ LET m == log[i] r == m.about IN
           \/ /\ ~IsAssignmentReady(r, Kept(m))
              /\ held' = [held EXCEPT ![r] = Kept(m)]
              /\ Handled("AssignmentTree", i, <<>>)
           \/ /\ IsAssignmentReady(r, Kept(m))
              /\ held' = [held EXCEPT ![r] = {}]
              /\ \E a \in Assignments(r, Kept(m)) : Handled("AssignmentTree", i, <<a>>)
=============================================================================
