--------------------------- MODULE MCOrchestrator ---------------------------
(***************************************************************************)
(* Instance of Orchestrator for TLC: more scenarios than workers, so that  *)
(* a worker takes a second scenario, and two processing pods.              *)
(***************************************************************************)
EXTENDS Orchestrator

CONSTANTS s1, s2, s3, d1, d2
=============================================================================
