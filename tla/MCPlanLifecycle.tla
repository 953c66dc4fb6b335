-------------------------- MODULE MCPlanLifecycle --------------------------
(* Instances of PlanLifecycle for TLC. *)
EXTENDS PlanLifecycle, TLC

CONSTANTS p1, p2, s1, s2

CallSymmetry == Permutations(Preparers) \cup Permutations(Stagers)

(* The faults instance follows a plan that was edited, or one that met a failure;
   a state with both is checked and left at that. *)
EditOrFault == mem.rev + persistFaults + releaseFaults <= 2
=============================================================================
