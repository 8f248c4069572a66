-------------------------------- MODULE Batch --------------------------------
(***************************************************************************)
(* What one invocation of ConCap promises about its scenarios, without     *)
(* workers, channels or a watcher: a scenario runs at most once, the run   *)
(* ends when none is running, it succeeds only if every scenario has been  *)
(* completed, and it reports every scenario that failed.                   *)
(***************************************************************************)
CONSTANT Scenarios

VARIABLES
    status,   \* scenario -> "pending", "running", "completed" or "failed"
    verdict,  \* "none", "success" or "failure"
    reported  \* the scenarios named by the final error

batchVars == <<status, verdict, reported>>

BatchInit ==
    /\ status = [s \in Scenarios |-> "pending"]
    /\ verdict = "none"
    /\ reported = {}

Begin(s) ==
    /\ verdict = "none"
    /\ status[s] = "pending"
    /\ status' = [status EXCEPT ![s] = "running"]
    /\ UNCHANGED <<verdict, reported>>

End(s) ==
    /\ status[s] = "running"
    /\ \E how \in {"completed", "failed"} : status' = [status EXCEPT ![s] = how]
    /\ UNCHANGED <<verdict, reported>>

Conclude ==
    /\ verdict = "none"
    /\ \A s \in Scenarios : status[s] # "running"
    /\ \/ /\ \A s \in Scenarios : status[s] = "completed"
          /\ verdict' = "success"
       \/ verdict' = "failure"
    /\ reported' = {s \in Scenarios : status[s] = "failed"}
    /\ UNCHANGED status

BatchNext == (\E s \in Scenarios : Begin(s) \/ End(s)) \/ Conclude

BatchSpec == BatchInit /\ [][BatchNext]_batchVars
=============================================================================
