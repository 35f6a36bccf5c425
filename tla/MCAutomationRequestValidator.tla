-------------------- MODULE MCAutomationRequestValidator --------------------
(***************************************************************************)
(* The instances of AutomationRequestValidator that TLC checks, and what   *)
(* the header and the manual say of the service.                           *)
(***************************************************************************)
EXTENDS AutomationRequestValidator

CONSTANTS r1, r2, r3, t1, t2

ThreeRequests == {r1, r2, r3}
TwoRequests == {r1, r2}
OwnId == [r \in Request |-> r]
EachItsTask == [r \in Request |-> IF r = r2 THEN {t2} ELSE {t1}]
NoTasks == [r \in Request |-> {}]

(***************************************************************************)
(* AutomationRequestValidatorService.h:70-72: "The incorporation of the    *)
(* time-outs ensures that in the event of a task initialization or         *)
(* assignment pipeline failure, the system can still respond to subsequent *)
(* requests."                                                              *)
(***************************************************************************)
StillResponds == EverySettled
=============================================================================
