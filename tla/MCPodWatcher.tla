---------------------------- MODULE MCPodWatcher ----------------------------
(***************************************************************************)
(* Instance of PodWatcher for TLC: two goroutines that create a pod of the *)
(* same name (two scenarios whose names collide), so that one meets the    *)
(* waiter, the events and the pod the other has left behind.               *)
(***************************************************************************)
EXTENDS PodWatcher

CONSTANTS c1, c2, p1

SameName == [c \in {c1, c2} |-> p1]
=============================================================================
