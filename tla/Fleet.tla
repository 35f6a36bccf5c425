------------------------------- MODULE Fleet --------------------------------
(***************************************************************************)
(* The vehicles and the tasks that the services around the planning        *)
(* pipeline work for.                                                      *)
(***************************************************************************)
EXTENDS Naturals, Sequences, FiniteSets

CONSTANTS Vehicle,   \* identifiers of vehicles, each the entity of one UxAS
          Task       \* identifiers of tasks

ASSUME FleetAssumption == Task \subseteq Nat \ {0} /\ IsFiniteSet(Vehicle)
=============================================================================
