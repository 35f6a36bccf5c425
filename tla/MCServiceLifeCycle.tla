------------------------- MODULE MCServiceLifeCycle -------------------------
(***************************************************************************)
(* Two tasks; one needs a point of interest and has no service even then.  *)
(***************************************************************************)
EXTENDS ServiceLifeCycle

CONSTANTS t1, t2

(* With a bridge, or with a service that is made after the TaskManager and *)
(* a run of limited duration.                                              *)
Configurations ==
    {[services |-> <<"TaskManager">>, bridges |-> 1, expires |-> FALSE, messages |-> 3],
     [services |-> <<"TaskManager", "other">>, bridges |-> 0, expires |-> TRUE, messages |-> 2]}
=============================================================================
