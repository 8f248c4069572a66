---------------------------- MODULE Orchestrator ----------------------------
(***************************************************************************)
(* One invocation of ConCap: run in cmd/main.go with the goroutines it     *)
(* starts in internal/controller.  main deploys the processing pods, hands *)
(* the scenarios over an unbuffered channel to a pool of workers, waits    *)
(* for the workers and joins their errors.  A goroutine turns a failure of *)
(* the pod watcher into a cancelled run context.                           *)
(*                                                                         *)
(* What happens inside a scenario or a deployment is the Scenario module's *)
(* and the PodWatcher module's; here each ends, some time, with or without *)
(* an error, and it is certain to end only once runCtx is cancelled.       *)
(***************************************************************************)
EXTENDS Integers, FiniteSets

CONSTANTS
    Scenarios,       \* scenarioPaths
    ProcessingPods,  \* processingPodPaths
    NumberOfWorkers  \* the -w flag

ASSUME OrchestratorAssumption ==
    /\ IsFiniteSet(Scenarios) /\ Scenarios # {}
    /\ ProcessingPods # {}
    /\ NumberOfWorkers \in Int
    /\ Scenarios \cap {"none", "setup", "deploy", "enqueue", "watcher"} = {}

\* numWorkers := min(NumberOfWorkers, len(scenarioPaths)); the loop over i starts
\* nobody when that is not positive.
Workers ==
    LET n == Cardinality(Scenarios)
    IN 1..(IF NumberOfWorkers < n THEN NumberOfWorkers ELSE n)

VARIABLES
    main,      \* where run is
    deploy,    \* processing pod -> state of the goroutine that deploys it
    todo,      \* scenarios enqueueScenarios has not handed over
    closed,    \* scenarioChannel is closed
    worker,    \* worker -> what it does, and for which scenario
    results,   \* scenarioResults: the scenarios whose error waits there
    outcome,   \* history: how each scenario ended
    watcher,   \* the goroutine that reads WatchErrors
    watcherErr,\* watcherErrCh, capacity 1, holds an error
    shutdown,  \* main's context is cancelled (signal)
    cancelled, \* runCtx is cancelled
    errs       \* what run returns: the errors joined, {} for nil

scenarioVars == <<todo, worker, results, outcome>>
ctxVars == <<watcher, watcherErr, shutdown, cancelled>>
vars == <<main, deploy, closed, errs, scenarioVars, ctxVars>>

NoScenario == "none"
Idle == [at |-> "idle", scenario |-> NoScenario]
Exited == [at |-> "exited", scenario |-> NoScenario]
Deployed == {p \in ProcessingPods : deploy[p] = "deployed"}

ErrorTags == Scenarios \cup {"setup", "deploy", "enqueue", "watcher"}

TypeOK ==
    /\ main \in {"setup", "deploy", "enqueue", "wait", "exited"}
    /\ deploy \in [ProcessingPods -> {"none", "running", "deployed", "failed"}]
    /\ todo \subseteq Scenarios
    /\ closed \in BOOLEAN
    /\ worker \in [Workers -> [at : {"none", "idle", "exited"}, scenario : {NoScenario}]
                              \cup [at : {"load", "execute", "analyse", "report"},
                                    scenario : Scenarios]]
    /\ results \subseteq Scenarios
    /\ outcome \in [Scenarios -> {"none", "completed", "failed", "interrupted"}]
    /\ watcher \in {"watching", "failed", "reported", "over"}
    /\ watcherErr \in BOOLEAN
    /\ shutdown \in BOOLEAN
    /\ cancelled \in BOOLEAN
    /\ errs \subseteq ErrorTags

Init ==
    /\ main = "setup"
    /\ deploy = [p \in ProcessingPods |-> "none"]
    /\ todo = Scenarios
    /\ closed = FALSE
    /\ worker = [w \in Workers |-> [at |-> "none", scenario |-> NoScenario]]
    /\ results = {}
    /\ outcome = [s \in Scenarios |-> "none"]
    /\ watcher = "watching"
    /\ watcherErr = FALSE
    /\ shutdown = FALSE
    /\ cancelled = FALSE
    /\ errs = {}

-----------------------------------------------------------------------------
(***************************************************************************)
(* run                                                                     *)
(***************************************************************************)

\* run returns e; its deferred cancel ends runCtx.
Return(e) ==
    /\ main' = "exited"
    /\ errs' = e
    /\ cancelled' = TRUE

\* Flags, directories and the -s selection.
Setup ==
    /\ main = "setup"
    /\ \/ /\ main' = "deploy"
          /\ deploy' = [p \in ProcessingPods |-> "running"]
          /\ UNCHANGED <<errs, cancelled>>
       \/ Return({"setup"}) /\ UNCHANGED deploy
    /\ UNCHANGED <<closed, scenarioVars, watcher, watcherErr, shutdown>>

\* One goroutine of DeployFlowExtractionPods: read the file, deploy the pod.
DeployEnds(p) ==
    /\ deploy[p] = "running"
    /\ \E how \in {"deployed", "failed"} : deploy' = [deploy EXCEPT ![p] = how]
    /\ UNCHANGED <<main, closed, errs, scenarioVars, ctxVars>>

\* Faulty variant of AllDeploysEnded: wg.Wait is missing.
NoDeployWait == TRUE

AllDeploysEnded == \A p \in ProcessingPods : deploy[p] # "running"

\* wg.Wait and the first error of errCh; then the workers start.
DeployReturns ==
    /\ main = "deploy"
    /\ AllDeploysEnded
    /\ IF \E p \in ProcessingPods : deploy[p] = "failed"
       THEN Return({"deploy"}) /\ UNCHANGED worker
       ELSE /\ main' = "enqueue"
            /\ worker' = [w \in Workers |-> Idle]
            /\ UNCHANGED <<errs, cancelled>>
    /\ UNCHANGED <<deploy, closed, todo, results, outcome, watcher, watcherErr, shutdown>>

\* The unbuffered channel: enqueueScenarios and an idle worker meet.  After a
\* cancellation either select may still take this case.
HandOver(w) ==
    /\ main = "enqueue"
    /\ worker[w] = Idle
    /\ \E s \in todo :
         /\ todo' = todo \ {s}
         /\ worker' = [worker EXCEPT ![w] = [at |-> "load", scenario |-> s]]
    /\ UNCHANGED <<main, deploy, closed, errs, results, outcome, ctxVars>>

\* Faulty variant of EnqueueEnds: the channel is never closed.
EnqueueLeavesOpen ==
    /\ main = "enqueue"
    /\ todo = {} \/ cancelled
    /\ main' = "wait"
    /\ errs' = IF todo = {} THEN {} ELSE {"enqueue"}
    /\ UNCHANGED <<deploy, closed, scenarioVars, ctxVars>>

\* Faulty variant of EnqueueEnds: the context's error is not returned.
EnqueueForgets ==
    /\ main = "enqueue"
    /\ todo = {} \/ cancelled
    /\ main' = "wait"
    /\ closed' = TRUE
    /\ UNCHANGED <<deploy, errs, scenarioVars, ctxVars>>

\* enqueueScenarios returns: everything is handed over, or runCtx is done.
EnqueueEnds ==
    /\ main = "enqueue"
    /\ todo = {} \/ cancelled
    /\ main' = "wait"
    /\ closed' = TRUE
    /\ errs' = IF todo = {} THEN {} ELSE {"enqueue"}
    /\ UNCHANGED <<deploy, scenarioVars, ctxVars>>

\* Faulty variant of WorkersGone: run goes on without waiting for the workers.
NoWorkerWait == TRUE

WorkersGone == \A w \in Workers : worker[w] = Exited

\* Faulty variant of Finish: the watcher's error is only looked for when there are others.
FinishForgets ==
    /\ main = "wait"
    /\ WorkersGone
    /\ LET e == errs \cup results
       IN Return(IF watcherErr /\ e # {} THEN e \cup {"watcher"} ELSE e)
    /\ results' = {}
    /\ watcherErr' = FALSE
    /\ UNCHANGED <<deploy, closed, todo, worker, outcome, watcher, shutdown>>

\* wg.Wait, the results, the watcher's error if there is one, JoinErrors.
Finish ==
    /\ main = "wait"
    /\ WorkersGone
    /\ Return(errs \cup results \cup (IF watcherErr THEN {"watcher"} ELSE {}))
    /\ results' = {}
    /\ watcherErr' = FALSE
    /\ UNCHANGED <<deploy, closed, todo, worker, outcome, watcher, shutdown>>

-----------------------------------------------------------------------------
(***************************************************************************)
(* ScheduleScenarioWorker and processScenarioRequest                       *)
(***************************************************************************)

\* Faulty variant of WorkerExits: the worker does not ask whether a request came.
WorkerTakesZeroValue(w) ==
    /\ worker[w] = Idle
    /\ cancelled \/ closed
    /\ worker' = [worker EXCEPT ![w].at = IF closed THEN "load" ELSE "exited"]
    /\ UNCHANGED <<main, deploy, closed, errs, todo, results, outcome, ctxVars>>

\* ctx.Done(), or the channel is closed and empty.
WorkerExits(w) ==
    /\ worker[w] = Idle
    /\ cancelled \/ closed
    /\ worker' = [worker EXCEPT ![w] = Exited]
    /\ UNCHANGED <<main, deploy, closed, errs, todo, results, outcome, ctxVars>>

NextStage(at) == CASE at = "load" -> "execute" [] at = "execute" -> "analyse"

\* CreateScenario and MkdirAll, Execute or ProcessResults returns without error.
StageSucceeds(w) ==
    LET s == worker[w].scenario
    IN /\ \/ /\ worker[w].at \in {"load", "execute"}
             /\ worker' = [worker EXCEPT ![w].at = NextStage(@)]
             /\ UNCHANGED outcome
          \/ /\ worker[w].at = "analyse"
             /\ worker' = [worker EXCEPT ![w] = Idle]
             /\ outcome' = [outcome EXCEPT ![s] = "completed"]
       /\ UNCHANGED <<main, deploy, closed, errs, todo, results, ctxVars>>

\* Faulty variant of StageFails: a scenario that failed is begun anew, cancelled or not.
StageStartsAgain(w) ==
    /\ worker[w].at \in {"load", "execute", "analyse"}
    /\ worker' = [worker EXCEPT ![w].at = "load"]
    /\ UNCHANGED <<main, deploy, closed, errs, todo, results, outcome, ctxVars>>

\* ... or with an error, which is the context's only if runCtx is cancelled.
StageFails(w) ==
    /\ worker[w].at \in {"load", "execute", "analyse"}
    /\ \E how \in {"failed"} \cup (IF cancelled THEN {"interrupted"} ELSE {}) :
         outcome' = [outcome EXCEPT ![worker[w].scenario] = how]
    /\ worker' = [worker EXCEPT ![w].at = "report"]
    /\ UNCHANGED <<main, deploy, closed, errs, todo, results, ctxVars>>

\* Faulty variant of ResultsCapacity: room for one error per worker.
WorkerCapacity == Cardinality(Workers)

ResultsCapacity == Cardinality(Scenarios)

\* results <- err; a send on a full channel would wait, without a look at ctx.
Report(w) ==
    /\ worker[w].at = "report"
    /\ Cardinality(results) < ResultsCapacity
    /\ results' = results \cup {worker[w].scenario}
    /\ worker' = [worker EXCEPT ![w] = Idle]
    /\ UNCHANGED <<main, deploy, closed, errs, todo, outcome, ctxVars>>

-----------------------------------------------------------------------------
(***************************************************************************)
(* Signals and the pod watcher                                             *)
(***************************************************************************)

\* SIGINT or SIGTERM.
Signal ==
    /\ main # "exited"
    /\ shutdown' = TRUE
    /\ cancelled' = TRUE
    /\ UNCHANGED <<main, deploy, closed, errs, scenarioVars, watcher, watcherErr>>

\* WatchPods returns: nil on a cancelled main context, else an error.
WatchEnds ==
    /\ watcher = "watching"
    /\ \/ watcher' = "failed"
       \/ shutdown /\ watcher' = "over"
    /\ UNCHANGED <<main, deploy, closed, errs, scenarioVars, watcherErr, shutdown, cancelled>>

\* Faulty variant of ReportWatcher: watcherErrCh has no buffer, nobody reads it yet
\* and the select's default drops the error.
DropWatcherErr ==
    /\ watcher = "failed"
    /\ watcher' = "reported"
    /\ UNCHANGED <<main, deploy, closed, errs, scenarioVars, watcherErr, shutdown, cancelled>>

\* The error goes into watcherErrCh ...
ReportWatcher ==
    /\ watcher = "failed"
    /\ watcherErr' = TRUE
    /\ watcher' = "reported"
    /\ UNCHANGED <<main, deploy, closed, errs, scenarioVars, shutdown, cancelled>>

\* ... and then the run is cancelled.
CancelRun ==
    /\ watcher = "reported"
    /\ cancelled' = TRUE
    /\ watcher' = "over"
    /\ UNCHANGED <<main, deploy, closed, errs, scenarioVars, watcherErr, shutdown>>

WorkerStep(w) ==
    HandOver(w) \/ WorkerExits(w) \/ StageSucceeds(w) \/ StageFails(w) \/ Report(w)

Next ==
    \/ Setup \/ DeployReturns \/ EnqueueEnds \/ Finish
    \/ \E p \in ProcessingPods : DeployEnds(p)
    \/ \E w \in Workers : WorkerStep(w)
    \/ Signal \/ WatchEnds \/ ReportWatcher \/ CancelRun

Spec == Init /\ [][Next]_vars

(***************************************************************************)
(* Fairness.  Goroutines that can go on do.  A deployment and a stage of a *)
(* scenario may wait for a pod or an attack for ever, but return once      *)
(* runCtx is cancelled: every blocking call in them takes that context.    *)
(* Nothing is assumed of signals or of the watch.                          *)
(***************************************************************************)
MainStep == Setup \/ DeployReturns \/ EnqueueEnds \/ Finish
DeployStops(p) == cancelled /\ DeployEnds(p)
StageStops(w) == cancelled /\ (StageSucceeds(w) \/ StageFails(w))
ChannelStep(w) == HandOver(w) \/ WorkerExits(w) \/ Report(w)

WatcherStep == ReportWatcher \/ CancelRun

MainFairness == WF_vars(MainStep) /\ WF_vars(WatcherStep)
DeployFairness(p) == WF_vars(DeployStops(p))
WorkerFairness(w) ==
    WF_vars(ChannelStep(w)) /\ WF_vars(WorkerExits(w)) /\ WF_vars(StageStops(w))

Fairness ==
    /\ MainFairness
    /\ \A p \in ProcessingPods : DeployFairness(p)
    /\ \A w \in Workers : WorkerFairness(w)

FairSpec == Spec /\ Fairness

-----------------------------------------------------------------------------
(***************************************************************************)
(* Refinement mapping to Batch.                                            *)
(***************************************************************************)
StatusOf(s) ==
    IF outcome[s] = "completed" THEN "completed"
    ELSE IF outcome[s] # "none" THEN "failed"
    ELSE IF s \in todo THEN "pending" ELSE "running"

Run == INSTANCE Batch WITH
    status <- [s \in Scenarios |-> StatusOf(s)],
    verdict <- IF main # "exited" THEN "none" ELSE IF errs = {} THEN "success" ELSE "failure",
    reported <- IF main = "exited" THEN errs \cap Scenarios ELSE {}

-----------------------------------------------------------------------------
(***************************************************************************)
(* Properties.                                                             *)
(***************************************************************************)

\* A worker that has an error to report always finds room: run reads the results
\* only after wg.Wait, so a full channel would stop the worker and run for ever.
ReportNeverBlocks ==
    \A w \in Workers : worker[w].at = "report" => Cardinality(results) < ResultsCapacity

\* Scenarios run only against a complete set of processing pods: ProcessResults
\* reads the shared slice without the mutex, after the deploying goroutines ended.
AllPodsDeployedFirst ==
    \A w \in Workers : worker[w].at \in {"load", "execute", "analyse"} => Deployed = ProcessingPods

\* A run cut short by the watcher says so: when scenarios were not handed over or
\* were interrupted and nobody sent a signal, the joined errors name the watcher.
CancellationExplained ==
    main = "exited" /\ ~shutdown
    /\ ("enqueue" \in errs \/ \E s \in Scenarios : outcome[s] = "interrupted")
    => "watcher" \in errs

\* A run that a failed watch has cancelled never passes for a success, even if every
\* scenario came through; only before the scenarios may the error be another's.
FailedWatchShows ==
    [][main # "exited" /\ main' = "exited" /\ cancelled /\ ~shutdown
       => "watcher" \in errs' \/ (main \in {"setup", "deploy"} /\ errs' # {})]_vars

\* What makes these inductive.  A scenario is with enqueueScenarios, with one
\* worker, or has ended; its error waits in the results or is about to be put there.
Busy(w) == worker[w].at \in {"load", "execute", "analyse"}
Broken(s) == outcome[s] \in {"failed", "interrupted"}

StartInv ==
    /\ main \in {"setup", "deploy"} =>
         todo = Scenarios /\ \A w \in Workers : worker[w].at = "none"
    /\ main = "deploy" => \A p \in ProcessingPods : deploy[p] # "none"
    /\ main \notin {"deploy", "setup"} =>
         \/ main = "exited" /\ todo = Scenarios /\ \A w \in Workers : worker[w].at = "none"
         \/ Deployed = ProcessingPods /\ \A w \in Workers : worker[w].at # "none"

OwnerInv ==
    /\ \A s \in todo : outcome[s] = "none"
    /\ \A w \in Workers : Busy(w) =>
         worker[w].scenario \notin todo /\ outcome[worker[w].scenario] = "none"
    /\ \A w \in Workers : worker[w].at = "report" =>
         Broken(worker[w].scenario) /\ worker[w].scenario \notin results
    /\ \A v, w \in Workers :
         worker[v].scenario = worker[w].scenario /\ worker[v].scenario # NoScenario => v = w
    /\ \A s \in results : Broken(s)

\* Nothing is lost on the way: while run goes on, a scenario that is neither queued
\* nor ended is with a worker, and a broken one is about to be reported.
NothingLost ==
    main # "exited" =>
        /\ \A s \in Scenarios \ todo :
             outcome[s] = "none" => \E w \in Workers : Busy(w) /\ worker[w].scenario = s
        /\ \A s \in Scenarios :
             Broken(s) /\ s \notin results
             => \E w \in Workers : worker[w].at = "report" /\ worker[w].scenario = s

CancelInv ==
    /\ main \in {"setup", "deploy", "enqueue"} => errs = {}
    /\ main = "wait" => errs = IF todo = {} THEN {} ELSE {"enqueue"}
    /\ main # "exited" =>
         /\ cancelled /\ ~shutdown => watcherErr
         /\ watcher = "reported" => watcherErr
         /\ "enqueue" \in errs => cancelled
         /\ \A s \in Scenarios : outcome[s] = "interrupted" => cancelled
    /\ main = "exited" => \A w \in Workers : worker[w].at \in {"none", "exited"}

RunInv == TypeOK /\ StartInv /\ OwnerInv /\ NothingLost /\ CancelInv /\ CancellationExplained

\* Never everyone waiting on everyone: while scenarios are handed over or the workers
\* are waited for, main can go on, or a worker is at work on a scenario, can report its
\* error, take the next scenario or end.
MainCanStep ==
    \/ main = "enqueue" /\ (todo = {} \/ cancelled)
    \/ main = "wait" /\ WorkersGone

WorkerCanStep(w) ==
    \/ Busy(w)
    \/ worker[w].at = "report" /\ Cardinality(results) < ResultsCapacity
    \/ worker[w] = Idle /\ (cancelled \/ closed \/ (main = "enqueue" /\ todo # {}))

NeverStuck == main \in {"enqueue", "wait"} => MainCanStep \/ \E w \in Workers : WorkerCanStep(w)

\* Why: no worker has left the pool unless the run is cancelled or the channel closed,
\* and it is closed when main waits for the workers.
PoolInv ==
    /\ main = "wait" => closed
    /\ main \in {"setup", "deploy", "enqueue"} => ~closed
    /\ main = "enqueue" /\ ~cancelled => \A w \in Workers : worker[w].at # "exited"

\* What becomes of a run without workers, that is with -w 0 or less: nothing is ever
\* handed over, and only a cancellation ends it, with the context's error.
NothingRuns ==
    /\ todo = Scenarios
    /\ main = "wait" => cancelled /\ errs = {"enqueue"}
    /\ main = "exited" => errs # {}

\* One invocation keeps the promise of Batch: no scenario twice, none running at the
\* end, success only when all are completed, every failure reported.
ImplementsBatch == Run!BatchSpec

\* Every goroutine can go on where the code does: nothing but the others' end in wg.Wait, a
\* partner on the unbuffered channel, a deployment and a stage stands between it and its
\* end, and the last two return once the run is cancelled.
WorkerGoesOn(w) ==
    /\ worker[w].at = "report" => ENABLED <<ChannelStep(w)>>_vars
    /\ worker[w] = Idle /\ main = "enqueue" /\ todo # {} => ENABLED <<ChannelStep(w)>>_vars
    /\ worker[w] = Idle /\ (cancelled \/ closed) => ENABLED <<WorkerExits(w)>>_vars
    /\ cancelled /\ Busy(w) => ENABLED <<StageStops(w)>>_vars

GoroutinesGoOn ==
    /\ main = "setup" \/ (main = "deploy" /\ AllDeploysEnded) \/ MainCanStep
       => ENABLED <<MainStep>>_vars
    /\ watcher \in {"failed", "reported"} => ENABLED <<WatcherStep>>_vars
    /\ \A p \in ProcessingPods :
         cancelled /\ deploy[p] = "running" => ENABLED <<DeployStops(p)>>_vars
    /\ \A w \in Workers : WorkerGoesOn(w)

\* No goroutine is left behind: a deployment and a worker end once the run is cancelled,
\* whatever they are at and however many scenarios are waiting.
DeploymentStops(p) == cancelled /\ deploy[p] = "running" ~> deploy[p] # "running"
WorkerStops(w) == cancelled /\ main \in {"enqueue", "wait"} ~> worker[w] = Exited

\* A signal or a failed watch ends the run, whatever the scenarios wait for: every
\* goroutine can go on, and in the end main returns.
Stopping == cancelled \/ watcher \in {"failed", "reported"}
CancelledRunExits == []GoroutinesGoOn /\ (Stopping ~> main = "exited")

\* If every deployment and every stage of a scenario ends, the run ends: the close of
\* the channel reaches every worker and wg.Wait returns.
DeployEndsAlways(p) == []<>(deploy[p] # "running")
StageEndsAlways(w) == []<>~Busy(w)
RunEnds ==
    (\A p \in ProcessingPods : DeployEndsAlways(p)) /\ (\A w \in Workers : StageEndsAlways(w))
    => <>(main = "exited")
=============================================================================
