------------------------------ MODULE Execution ------------------------------
(***************************************************************************)
(* What Execute of a scenario promises the worker that calls it, without   *)
(* pods, shells or an API server: no attack before the captures have been  *)
(* started on every target, nothing fetched before the attack is over,     *)
(* scenario.yaml only beside the files of every target and under a name    *)
(* that tells how the attack ended, no error only with the full results,   *)
(* and none of this ever taken back.                                       *)
(***************************************************************************)
CONSTANT Targets

VARIABLES
    phase,   \* "prepare", "attack", "fetch", "clean" or "returned"
    armed,   \* targets on which tcpdump has been started
    ended,   \* how the attack ended: "none", "ok", "timeout" or "failed"
    fetched, \* targets whose files are all in the output directory
    kept,    \* the name scenario.yaml stands under: "none", "full" or "partial"
    failed   \* Execute returns an error

executionVars == <<phase, armed, ended, fetched, kept, failed>>

ExecutionInit ==
    /\ phase = "prepare"
    /\ armed = {}
    /\ ended = "none"
    /\ fetched = {}
    /\ kept = "none"
    /\ failed = FALSE

Arm(t) ==
    /\ phase = "prepare"
    /\ armed' = armed \cup {t}
    /\ UNCHANGED <<phase, ended, fetched, kept, failed>>

BeginAttack ==
    /\ phase = "prepare"
    /\ armed = Targets
    /\ phase' = "attack"
    /\ UNCHANGED <<armed, ended, fetched, kept, failed>>

\* An attack that ended on its own or at its timeout has results to fetch.
EndAttack ==
    /\ phase = "attack"
    /\ \/ ended' \in {"ok", "timeout"} /\ phase' = "fetch"
       \/ ended' = "failed" /\ phase' = "clean"
    /\ failed' = (ended' # "ok")
    /\ UNCHANGED <<armed, fetched, kept>>

Fetch(t) ==
    /\ phase = "fetch"
    /\ fetched' = fetched \cup {t}
    /\ UNCHANGED <<phase, armed, ended, kept, failed>>

Keep ==
    /\ phase = "fetch"
    /\ fetched = Targets
    /\ kept' = IF ended = "ok" THEN "full" ELSE "partial"
    /\ phase' = "clean"
    /\ UNCHANGED <<armed, ended, fetched, failed>>

\* A deployment that fails returns without a cleanup.
GiveUp ==
    /\ \/ phase = "prepare" /\ phase' \in {"clean", "returned"}
       \/ phase = "fetch" /\ phase' = "clean"
    /\ failed' = TRUE
    /\ UNCHANGED <<armed, ended, fetched, kept>>

Return ==
    /\ phase = "clean"
    /\ phase' = "returned"
    /\ UNCHANGED <<armed, ended, fetched, kept, failed>>

ExecutionNext ==
    \/ phase = "prepare" /\ (BeginAttack \/ GiveUp \/ \E t \in Targets : Arm(t))
    \/ EndAttack
    \/ phase = "fetch" /\ (Keep \/ GiveUp \/ \E t \in Targets : Fetch(t))
    \/ Return

ExecutionSpec == ExecutionInit /\ [][ExecutionNext]_executionVars
=============================================================================
