------------------------------ MODULE ReadyWait ------------------------------
(***************************************************************************)
(* What the pod watcher promises the goroutines that call it, without      *)
(* events, channels or a notifier: at most one goroutine waits under a     *)
(* name; a wait ends with a pod of that name that really has been ready,   *)
(* or because the run is cancelled, and the answer is final.               *)
(***************************************************************************)
EXTENDS Naturals

CONSTANTS Callers, Pods, PodOf

VARIABLES
    phase,    \* "outside", "waiting", or how the call ended
    answer,   \* the incarnation handed to the caller, 0 if none
    readied,  \* pod name -> incarnations that have been ready
    stopping  \* the run is cancelled

abstractVars == <<phase, answer, readied, stopping>>

AbstractInit ==
    /\ phase = [c \in Callers |-> "outside"]
    /\ answer = [c \in Callers |-> 0]
    /\ readied \in [Pods -> SUBSET Nat]
    /\ stopping = FALSE

\* More incarnations of p have been ready.
BecomeReady(p) ==
    /\ readied[p] \subseteq readied'[p]
    /\ readied' = [readied EXCEPT ![p] = readied'[p]]
    /\ UNCHANGED <<phase, answer, stopping>>

Begin(c) ==
    /\ phase[c] = "outside"
    /\ \A d \in Callers : PodOf[d] = PodOf[c] => phase[d] # "waiting"
    /\ phase' = [phase EXCEPT ![c] = "waiting"]
    /\ UNCHANGED <<answer, readied, stopping>>

\* The pod was not created, or another goroutine holds the name.
Refuse(c) ==
    /\ phase[c] = "outside"
    /\ \E why \in {"createError", "duplicate"} : phase' = [phase EXCEPT ![c] = why]
    /\ UNCHANGED <<answer, readied, stopping>>

Give(c) ==
    /\ phase[c] = "waiting"
    /\ phase' = [phase EXCEPT ![c] = "ready"]
    /\ \E i \in readied[PodOf[c]] : answer' = [answer EXCEPT ![c] = i]
    /\ UNCHANGED <<readied, stopping>>

Abandon(c) ==
    /\ phase[c] = "waiting"
    /\ stopping
    /\ phase' = [phase EXCEPT ![c] = "cancelled"]
    /\ UNCHANGED <<answer, readied, stopping>>

Stop ==
    /\ stopping' = TRUE
    /\ UNCHANGED <<phase, answer, readied>>

AbstractNext ==
    \/ \E p \in Pods : BecomeReady(p)
    \/ \E c \in Callers : Begin(c) \/ Refuse(c) \/ Give(c) \/ Abandon(c)
    \/ Stop

AbstractSpec == AbstractInit /\ [][AbstractNext]_abstractVars
=============================================================================
