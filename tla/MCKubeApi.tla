------------------------------ MODULE MCKubeApi ------------------------------
(***************************************************************************)
(* Instance of KubeApi for TLC: two scenarios whose pods have one name, or *)
(* two deployments of one processing pod, so that one meets what the other *)
(* has left or sent.                                                       *)
(***************************************************************************)
EXTENDS KubeApi

CONSTANTS c1, c2
=============================================================================
