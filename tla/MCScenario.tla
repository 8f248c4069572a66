----------------------------- MODULE MCScenario -----------------------------
(***************************************************************************)
(* Instances of Scenario for TLC: a multi-target scenario of two targets,  *)
(* and one target for the runs that look for a single shortest behaviour.  *)
(***************************************************************************)
EXTENDS Scenario, TLC

CONSTANTS a, t1, t2

Symmetry == Permutations({t1, t2})
=============================================================================
