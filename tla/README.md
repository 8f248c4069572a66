# A TLA+ model of ConCap

ConCap runs attack scenarios in a Kubernetes cluster, captures the traffic that reaches the
targets and extracts flow features from it. This directory models the parts of it that decide
whether a run ends, what is left behind and whether its results are what they claim to be, and
checks and proves properties of them. The modules follow the Go code definition by definition;
`PROJECT.json` maps every definition to the lines it stands for.

## The system

| Component | State it keeps | Operations | Talks to |
|---|---|---|---|
| Run (`cmd/main.go`, `internal/controller`) | run context, scenario channel, results channel, worker pool, `ProcessingPods` slice, watcher's error | `run`, `enqueueScenarios`, `DeployFlowExtractionPods`, `ScheduleScenarioWorker`, `processScenarioRequest`, `JoinErrors` | scenarios (calls), pod watcher (error channel), signals |
| Pod watcher (`internal/kubernetes/watcher.go`) | map of waiters under a mutex; per waiter a channel of capacity one and a `done` channel | `WaitForPodReady`, `WatchPods`, `notify`, `Start` | API server (watch), callers (channels) |
| Kubernetes API (`api.go`, `exec.go`, `runtime.go`) | the clients | create, delete and poll with retries, exec, copy, start-up validation | API server, `kubectl cp` |
| Scenario (`internal/scenarios/scenario.go`, `single_target.go`, `multi_target.go`, `capture.go`) | the deployment (pods), captures on the targets, files in the output directory | deploy, capture, attack, download, clean up; process results | Kubernetes API, processing pods |
| Processing pods (`processingpod.go`) | pods shared by all scenarios, files in them | `DeployPod`, `ProcessPcap` | Kubernetes API |
| Configuration (`factory.go`, `types.go`, `network.go`, `podbuilder.go`, `utils.go`) | none | YAML to scenario, scenario to pod objects and `tc` commands | scenario |
| Attack command (`attack_command.go`) | a FIFO, `tee` and the attack in the attacker pod | `withAttackLogging` | attacker pod |

What is hard about it: every pod wait hangs on one goroutine that hands events over outside the
lock; the cluster deletes and re-creates pods of one name while events of the old ones are under
way; the watch breaks and begins anew; a scenario is a chain of concurrent steps, each of which
can fail or be cancelled; `tcpdump` is a background process nobody supervises; the cleanup runs
after a cancellation; a run must end and tell the truth about which scenarios failed. The list of
hazards with their lines is in `PROJECT.json`, with the properties that cover each. Two more: scenarios and whole runs share files in processing pods, in
which commands go on that nobody waits for any more; and an attack is a shell script in which a
FIFO, `tee`, `timeout` and processes left in the background decide when it is over and what its
status means.

What makes the components correct: a waiter gets the newest state of a pod of its name and never
blocks the others; a run hands every scenario over at most once, ends, and succeeds only if all
are completed; a scenario's files are complete if it says so; pods do not outlive their scenario; a
result stems from its own capture; the attack's log is whole and its status says how it ended; a
ready pod is behind the network that was asked for.

## The modules

| Module | Models | How its state corresponds to the code |
|---|---|---|
| `ReadyWait` | what the pod watcher promises | `phase`, `answer`: how a call ended and with which incarnation of the pod |
| `PodWatcher` | `watcher.go`, `CreateReadyPod` | `waiters` is `pw.waiters`; `events[c]`, `done[c]` are the two channels of the waiter of caller `c`; `notifier` is the local state of `notify` (`found`, `offer`, `drain`, `send` are the points before its four `select`s); `watch` is the state of `WatchPods` and of the error it leaves |
| `PodWatcherProofs` | | theorems about `PodWatcher`: safety and the refinement |
| `PodWatcherLiveness` | | theorems about `PodWatcher`: every wait ends when it should |
| `Batch` | what one invocation promises | status per scenario, the verdict, the scenarios named in the error |
| `Orchestrator` | `run` and the goroutines it starts | `todo`, `closed`: the unbuffered scenario channel and its sender; `worker[w]`: where the worker is in `ScheduleScenarioWorker`/`processScenarioRequest`; `results`: `scenarioResults`; `watcher`, `watcherErr`: the goroutine on `WatchErrors` and its channel; `errs`: what `run` returns |
| `OrchestratorProofs` | | theorems about `Orchestrator` |
| `Execution` | what `Execute` of one scenario promises | `phase`; `armed`, `fetched`: targets whose capture has been started, whose files are complete; `ended`: how the attack ended; `kept`: the name of `scenario.yaml`; `failed`: an error is returned |
| `Scenario` | `ExecuteScenario` with the methods of both scenario types | `deploy`, `starter`, `stage`, `delete`: the goroutines of the four concurrent phases; `pod`: the API server; `tcpdump`, `raw`, `normal`: process and files in a target pod; `copied`, `yaml`, `prefix`: the output directory |
| `KubeApi` | `CreateReadyPod`, `DeletePod`, `PodExists`, `DeployPod` for one pod name | `pc`, `try`: where a caller is and which request of `retry.OnError`; `over`: its context; `maker`, `phase`: the API server's pods of that name; `late`: requests that timed out and are still to be carried out |
| `KubeApiProofs` | | theorems about `KubeApi` |
| `ScenarioProofs` | | theorems about `Scenario` |
| `Processing` | `ProcessPcap` and both `ProcessResults`, for all scenarios of several runs of the program | `at[c]`: where the goroutine of a target and a processor is; `wg[s]`: the `WaitGroup`; `input`, `output`: files in the processing pods by name; `report`: results on the host; `read`, `orphans`: what commands in the pods have read, with and without a goroutine that waits for them |
| `ProcessingProofs` | | theorems about `Processing` |
| `AttackCommand` | `ParseToSeconds`, the `timeout` prefix, the script of `withAttackLogging`, its exec | `sh`: the line the script is at; `next`, `fg`, `last`: the subshell; `alive`, `signalled`, `left`: the attack's processes; `written`, `tee`, `logged`: the FIFO and `attacker.log`; `status`: the script's `$status`; `cut`: the exec is cut off, by its context or a lost connection; `result`: what it returned |
| `AttackCommandProofs` | | theorems about `AttackCommand` |
| `PodSetup` | `MergeNetworks`, `GetTCCommand`, the init container, `GetTrafficFilter`, `GetShellEnvVars` | `script`: commands of the init container; `tbf`, `netem`: what is in force in the pod; `filter`: the pod a placeholder has become |
| `PodSetupProofs` | | theorems about `PodSetup` |
| `MC*` | | model values and the instances for TLC |

`PodWatcher` and `Orchestrator` meet at the watcher's error (`PropagateFailure` in the one,
`WatchEnds`, `ReportWatcher`, `CancelRun` in the other), `Orchestrator` and `Scenario` at
`Execute`: `Orchestrator` lets a stage end in any way, in particular in those `Execution` allows, which
is all that `Scenario` does (`ImplementsExecution`): a stage that succeeds is an `Execution` that
returns with `failed` false, and then `kept` is `"full"`, which is what `processScenarioRequest` relies
on when it goes on to analyse the results.
`Scenario` in turn takes from `PodWatcher` that a wait ends ready or, once cancelled, with an error.
`KubeApi` looks inside its `CreatePod` and `DeletePod`: it adds the requests, the other callers of
the name and the pods left from earlier runs; of the watcher it takes what `ReadyWait` promises, that
a pod of the name has been ready.
`AttackCommand` looks inside `Scenario`'s attack: `result` is what `ExecuteScenario` tells success,
timeout and failure by. `PodSetup` comes before and between: the init container is part of a
deployment, the filter is made before the capture starts. `Processing` follows an `Execute` that has
succeeded; its `NextRun` is what the pods that `KubeApi`'s `DeployPod` finds have seen before.

A comment "Faulty variant of X" marks an operator that is not part of the model: a plausible bug,
kept beside the definition it varies, for which the property named in `PROJECT.json` must fail.

### What is abstracted

* A pod event is a snapshot: incarnation, status (`Pending`, `Running` but not ready, `Ready`,
  `Stopped`) and version. Event types do not matter to `notify`. A DELETED event carries the last
  state, which may still be ready. A running pod always has container statuses, as kubelet sets
  both at once.
* Events of different pods go to different waiters, so the stream is a queue per name.
* A restart of the watch replaces what is under way by the present objects, because `watchFunc`
  drops the resource version the retry watcher passes to it.
* A caller of the watcher makes one call; two callers with one name stand for two scenarios whose
  names `CleanPodName` makes equal, or one scenario run after another. The pod of a name may be there,
  and ready, before anybody calls (`Leftover`).
* `retry.OnError` with `DefaultBackoff` sends at most four requests and knows no context, but a
  request under an ended context fails with an error that is not retried. A request that timed out
  may be lost or be carried out at any later time.
* What `tcpdump` does during the cleanup is not followed (`CaptureMatters`).
* The order of the scenario files is not modelled: any scenario may be next.
* A capture is the number of packets in it. The two logs of a target, copied one after the other,
  count as one file; the attacker's log, whose copy is allowed to fail, is left out. Time stamps, log lines and formatting are left out.
* `sh -c` starts `tcpdump` in the background with SIGINT ignored, as a shell without job control
  does: a SIGINT before `tcpdump` has set its handler is lost.
* A name in `Processing` is the sequence of its parts between dashes: what matters is that joining a
  scenario's name with a target's can give the same for two of them. The content of a file is the
  target and the run it stems from, `Partial` or nothing. A `ProcessPcap` reads its input file in one
  step, when its command begins. `kubectl cp --retries` takes the status of a `tail` behind `tar`, so the
  copy of a missing output file succeeds and copies nothing.
* The files of `Scenario` are those that the current execution has copied. The output directory may hold
  files of an earlier run of the scenario, which are overwritten but not removed, and a copy that fails
  may leave a truncated file; neither counts.
* A command of an attack is a record of what the script can tell: what its first word is, whether it
  is in the background, keeps its output, ends by itself and obeys SIGTERM. Commands follow each other
  as with `;`; pipelines and `&&` are not modelled. `timeout` is that of GNU or of busybox, by choice
  of `Init`.
* Settings of a network are numbers; `queueSize`, `limit` and `seed` are passed on as they are and left
  out of what is in force. `tc` needs a rate and a burst above zero, and a delay and a jitter for a
  distribution; the kernel is taken to have netem, and a ready pod to have its address.
* Code outside `src/` (API server, kubelet, `tcpdump`) is modelled from how the code uses it, and
  marked external in the map.

## The runs

| Run | Bounds | What it shows |
|---|---|---|
| `pod_watcher` | 2 callers, 1 name, with or without a pod left from before, 3 changes of it | type, exact map of waiters, no blocked notifier, no lost newest snapshot, implements `ReadyWait`; nobody is stuck and waits end after a cancellation or a failed watch; a pod that stays ready is noticed |
| `pod_watcher_stale` | as `pod_watcher`, 4 changes | finding: a wait answered by the pod's predecessor |
| `orchestrator` | 3 scenarios, 2 workers, 2 processing pods | safety, main and workers never wait for one another, a failed watch never passes for a success, implements `Batch`; every goroutine goes on where the code does, the run ends, also when it is cancelled or the watch fails |
| `scenario` | attacker, 2 targets, 1 packet per target | a capture is normalised whole; cleanup after a cancellation |
| `scenario_live` | attacker, 1 target | implements `Execution` (what files and errors say is true); a cancelled scenario, and one whose attack has ended, returns |
| `kube_api` | 2 callers, 3 requests per call, 1 late request per caller and kind, 4 pods | a nil error of create stands for the caller's own pod, only an unanswered delete can hit a pod in use, a deleted pod is gone, a deployed one stays, every call ends |
| `processing` | 3 scenarios (one of two targets, two whose names join alike), 1 processor, 2 calls per run, 2 runs | a result is of its own capture and run, others never mix, nil of `ProcessResults` means that every command's result is on the host |
| `attack_command` | attacks of 0 to 2 commands of 9 kinds, 4 values of `atkTime`, 1 line in the FIFO | the log is complete, the status tells the end, a bounded attack returns |
| `pod_setup` | some values of each setting, of the scenario and of the pod; 1, 2, 3 and 12 targets | shaping as asked, failures of the init container explained, filter and attack command agree |
| `scenario_leak` | 1 target | finding: a failed deployment leaves its pods |
| `scenario_leftover` | 1 target | finding: success although pods are left |
| `scenario_uncaptured` | 1 target | finding: attack traffic that is not captured |

Why the bounds are enough. Two callers of one name are what the map, the cleanup and the handover
can confuse; a third repeats the situation of the second (the proofs hold for any number).
Three changes let a pod that was ready be deleted, be created again and become ready while the
first pod's events are still under way; the finding takes four, and the trace TLC prints begins with a pod
that an earlier run left. Three scenarios and two workers let a worker take a second
scenario while another still runs and one is still queued. Two targets let one fail or lag behind
the other in each phase; one packet distinguishes a capture that has it from one that lacks it.
Three requests per call let a retry be the last one and one that is not; four pods let a late create
and a late delete each meet a successor (`MaxPods`, `MaxLate` bound what the network keeps, not what
the code does; the invariants also hold with four requests and two late ones).
Two calls of `ProcessPcap` per run are what can mix, in any choice of scenarios; the second run meets
files, processes and results of the first, which is all a run can inherit. Two commands make a first,
which `timeout` limits, and a last, whose status counts; a FIFO of one line fills and empties. The
values of `PodSetup` are on both sides of each comparison in `network.go`; with twelve targets the
index of one begins like that of another. The two targets of `scenario` are symmetric; the runs with temporal properties use no symmetry.
`CHECK_DEADLOCK` is off since all systems stop: callers return, the run exits, the
scenario returns.

### Fairness

* Goroutines that can take a step do (weak fairness per goroutine).
* In a `select`, the cancelled context is ready from then on and is taken some time (weak); a
  receiver blocked on its channel gets the value with the send, so a waiter whose channel is filled
  again and again receives some time (strong, `Receive`). Events arrive in order on one
  connection, so none waits for ever behind those of other pods (strong, `Lookup`).
* The watch is closed after its two hours and opened again (weak, `RestartWatch`). This is what
  heals an event lost between the creation of a pod and the registration of its waiter, so "in
  the end" may mean two hours.
* Every API request ends, with an answer or an error, and each context of a cleanup has its 30
  seconds. A `Get` of the deletion poll may fail at any time, and must once the context has ended.
* A deployment, an attack or the wait for `tcpdump` need not end. They do once the context is
  cancelled, because every call in them takes it. API calls and the other execs answer.
* In the attacker pod, whoever has been started runs on: the shell, `tee` and each command (weak per
  process, as an operating system schedules them), and `timeout`'s timer fires. That a command ends
  by itself or obeys SIGTERM is not assumed; it is a field of the command, and `BoundedAttackReturns`
  names it.
* Nothing else is assumed of the cluster, of signals, of failures or of pods that terminate.

### Findings

* A waiter is found by name only, so a delayed event of a deleted pod satisfies the wait for its
  successor, and the scenario goes on with a stale IP (`pod_watcher_stale`).
* A failed deployment returns before the cleanup is deferred (`scenario_leak`).
* A failed cleanup is only logged; the scenario counts as a success (`scenario_leftover`).
* The attack may start before `tcpdump` captures (`scenario_uncaptured`).

Met on the way as well, and listed as hazards or visible as exceptions in the properties:

* `-w 0` starts no worker: nothing is handed over and only a signal or a failed watch ends the run, with
  the context's error (`NoWorkersNothingRuns`). An attack shorter than `tcpdump`'s start-up loses
  the SIGINT and leaves the scenario waiting (the exception in `EndedAttackReturns`).
* The scenario's README calls `INPUT_FILE_NAME` unique for each scenario; target `c` of scenario `a-b`
  and target `b-c` of scenario `a` share it (`Unshared`). `CreateReadyPod`'s users meet the same with
  `CleanPodName`.
* A command that an ended run has left in a processing pod may write the result of a later one
  (`disturbed`).
* A command that ends well without writing its output file (`silent`): what an earlier one left in the
  pod, its `rm` having failed, is taken for the result. If there is no file, `kubectl cp` copies nothing
  and says nothing, the failing `rm` is only logged, and `ProcessPcap` returns nil without a result, or
  with that of an earlier run still on the host. `ResultIsOwn` and `NilMeansReports` exclude such calls.
* `atkTime` limits only the first command of an attack; less than a second turns it off, a negative one
  makes `timeout` fail. A comment at the end of `atkCommand` makes the script unparsable. A program
  left in the background that keeps its output makes the wrapper wait for it.
* From eleven targets on `$TARGET_IP_10` becomes the address of target 1 followed by `0` in a filter,
  although it is right in the attack command (the exception in `FilterAgreesWithCommand`).
* A malformed bandwidth silently turns all shaping off, a jitter without a delay becomes the delay, and
  below 2.4 Mbit the burst is smaller than a packet (`ShapingAsAsked`).
* `resource.MustParse` panics on a malformed quantity of CPU or memory; nothing checks it before.

## The proofs

All theorems are checked by TLAPS from the named assumptions of the modules only, for every value
of the constants.

`PodWatcherProofs`, from `PodWatcherAssumption` (callers have pod names; the marker for "nobody"
is not a caller):

* The safety properties are not inductive one by one. `WatcherInv` adds `HandoverInv`: an entry
  of the map stands under its caller's name, the snapshot in `notify`'s hands is the last one
  picked up for its waiter, and none was picked up for a caller that has not registered. With it
  each action preserves the conjunction; this gives `NotifierNeverStuck`, `WaitersExact` and
  `NewestSnapshotKept`.
* `WatcherImplementsReadyWait` needs `WitnessInv` too: every copy of a ready snapshot, on the
  connection, in `notify` or in a channel, is of an incarnation that has been ready. Each action
  then is one of `ReadyWait` or a stutter.

`OrchestratorProofs`, from `OrchestratorAssumption` (finitely many scenarios, at least one, at
least one processing pod, `-w` any integer):

* `RunInv` says where everything is: `StartInv` (no worker before all pods are deployed),
  `OwnerInv` (a scenario is queued, with one worker, or has ended, and a worker's error is not
  in the channel yet), `NothingLost` (while the run goes on, none has disappeared), `CancelInv`
  (a cancellation without a signal has its error in `watcherErrCh`).
* `WorkersNeverBlock` follows by counting: the errors in the channel are those of scenarios other
  than the worker's. `PodsBeforeScenarios` and `CutShortIsExplained` are parts of `RunInv`.
* `FailedWatchIsShown`: with `CancelInv` the watcher's error is in its channel when main has waited for
  the workers and looks for it. Before the scenarios main does not look, but its own error is returned.
* `RunNeverStuck` (for one worker or more) adds `PoolInv`: no worker leaves the pool unless the run is
  cancelled or the channel closed, and it is closed when main waits for the workers. While main is in
  `enqueueScenarios` or `wg.Wait`, either it can go on or some worker can. `NoWorkersNothingRuns` is
  the other half: without a worker nothing runs, and main goes on only when cancelled.
* `OrchestratorImplementsBatch`: `HandOver` is `Begin`, the last or a failing stage is `End`,
  each way `run` returns is `Conclude`, everything else is a stutter.

`KubeApiProofs`, from `KubeApi`'s assumption (any callers, numbers of requests, of pods and of late
requests):

* `CreatedIsOwn` and `DeletedIsGone` are inductive together with `TypeOK`: only the creation's own
  success leads on, and pods are numbered in the order of their creation.
* `OwnerInv`: as long as no delete went unanswered, the pod a caller waits for, uses or is about to
  delete is the newest one and there is no late delete that could reach it; `InUseUnlessAstrayAlways`.
* `DeployInv`: callers that deploy a processing pod delete nothing, so the only pod on its way out is
  one that an earlier run left. With `ScenarioInv` (scenarios deploy no processing pods) this is
  `DeployedPodStaysAlways`.

`ScenarioProofs`, for any attacker and any set of targets:

* `LaunchInv`: `tcpdump` has been started on exactly the targets whose goroutine ended well, which are
  all of them from the attack on; `NoAttackWithoutTcpdumpAlways`.
* `FetchInv`: each stage of a target has what it needs from the one before; nothing is copied before
  `tcpdump` has ended, so the raw file does not grow behind its normalised copy;
  `NormalizedHoldsRawAlways`.
* `ResultInv`: which prefix and which errors go with how the attack ended;
  `ScenarioFileMarksCompletenessAlways` (with `FetchInv`) and `SuccessMeansResultsAlways`.
* `ScenarioImplementsExecution` rests on these three: each step is one of `Execution` or a stutter. The
  last goroutine's error becomes `GiveUp`; that the sets `armed` and `fetched` only grow is a lemma of
  its own (`ArmedKept`, `CompleteGrows`), since files and processes of other targets must be left alone.
* `CleanupInv`: every deployment has ended before the first deletion begins, so no pod comes back;
  `CleanupIgnoresCancellationAlways`.

`ProcessingProofs`, from `ProcessingAssumption`, for any scenarios, names, processors and runs:

* `CountInv`: the `WaitGroup` counts the calls that have not returned (the cardinality of their set), so
  its counter never falls below zero and `wg.Wait` is passed only when all have; `TypeCorrect`.
* `FreshInv`: from its upload on, what an unshared call has in its files is of this run, unless an orphan
  wrote there; `ResultIsOwnAlways`. It rests on `OthersKeepOut`: no step of another call touches the
  files of an unshared one.
* `OwnInv`: whatever is in the files of an unshared call, in those of its orphans too, is of its own
  target; `OthersNeverMixAlways`.
* `ReportInv`: once the command of an unshared call has written a result, one is in the pod until the
  call has copied it, and then on the host; nobody else removes it, and an orphan can only replace it.
  `NilInv`: an `ok` of `ProcessResults` means that all its calls returned nil, which `CountInv` gives. With
  `FreshInv` and `OwnInv` these make `NilMeansReportsAlways`.

`AttackCommandProofs`, from `AttackAssumption`, for attacks of any length:

* `LogInv`: `tee` ends only when the FIFO is empty and nobody is left who has it open, and the script is
  over only after `tee`; `LogCompleteAlways`.
* `StatusInv`: `$?` is the end of the command before the next one and `$status` that of the last;
  `StatusTellsTheEndAlways`.

`PodSetupProofs`, from `PodSetupAssumption`, for every network and up to 99 targets:

* `ScriptInv`: what is left of the init container's script, and what the part before it has put in force
  (in particular that netem under tbf leaves tbf as it is); `InitFailureExplainedAlways`, and with the
  lemmas on what the commands mean (`TbfAsAsked`, `NetemAsAsked`) `ShapingAsAskedAlways`.
* `FilterOf`: the first replacement that fits is the one of that name, since no earlier name is a prefix
  of it (`NoPrefixes`); `FilterAgreesAlways`.

In most of these modules the property is not inductive without the rest: a step of a late phase relies
on what an early one has left.

### Proofs of liveness

That something happens in the end is proved from the fairness of the module and two kinds of
hypotheses, which stand in the theorems by name.

*Steps that are possible.* The prover does not reason about ENABLED, so each theorem assumes that the
steps fairness speaks of are possible where the code says they are: `NobodyStuck`, `GoroutinesGoOn`,
`NoCallStuck`, `ScenarioGoesOn`, `ProcessesGoOn`. Each is a plain list of "in this state this step is
possible", is a conjunct of the temporal property itself, so that TLC checks it in the module's run, and
has a meaning of its own: no goroutine is stuck but in a `wg.Wait` or on a channel, no process but on
the FIFO.

*Laws of finite sets and of counters.* Where many goroutines are waited for or something is used up, the
argument is an induction, and the provers cannot do one on temporal formulas. The one fact the
induction would give is a hypothesis:

| Law | What it says | Used for |
|---|---|---|
| `DeployLaw`, `WorkersLaw` | if each of finitely many goroutines has ended for good in the end, they all have | the two `wg.Wait` of a run |
| `QueueLaw` | a finite set that only shrinks comes to rest | the scenarios to hand over |
| `JoinLaws` | as `DeployLaw`, for pods and targets | the four `wg.Wait` of a scenario |
| `RetryLaw` | a number up to `Attempts` that only grows comes to rest | `retry.OnError` |
| `CountLaws` | lines still to write only fall, commands started and lines logged only grow below a bound, commands are finitely many | an attack |

No law mentions an action of the model or restricts a behaviour of it: for finite sets each is a fact of
temporal logic. For one target `JoinLaws` is proved (`OneTargetLaws`), so `CancelledOneTargetReturns` and
`EndedAttackOneTargetReturns` need none; nor do `WorkersStop`, `DeploymentsStop`, `DeletionsEnd`,
`CancelledCallsEnd`, `GoroutinesAlwaysEnd` and the theorems of `PodWatcherLiveness`, which speak of each
goroutine for itself.

From there the proofs are the usual ones: a step lemma (what leads out of a state, and what stays until
then), the effect of the fair step, and temporal logic.

* `PodWatcherLiveness`. `CancelledReturnsAll`: a cancelled waiter takes the context's case of its
  `select`; a failed watch cancels the run. `ReadinessReachesAll`: once a pod stays ready its stream
  holds nothing but ready snapshots after the next start of the watch; each is handed over or finds the
  channel full of another ready one, so the waiter that receives returns.
* `OrchestratorProofs`. `WorkersStop`, `DeploymentsStop`: each goroutine of a cancelled run ends.
  `CancelledRunEnds`: the goroutine on `WatchErrors` makes a failed watch a cancellation; then main
  leaves each phase, the last when all workers are gone. `RunReturns`: the queue comes to rest; while
  main enqueues, an idle worker would take a scenario, so the queue is empty then and the channel is
  closed, which every worker finds when it is back in its `select`.
* `KubeApiProofs`. `DeletionsEnd`: a deletion ends at its deadline. `CancelledCallsEnd`: every call ends
  with its context. `CallsAlwaysEnd`: a look-up or a creation ends at the latest with its last attempt,
  without a deadline.
* `ScenarioProofs`. `GoroutinesAlwaysEnd`: each goroutine of the four phases ends, for any number of
  targets. `CancelledReturns` and `EndedAttackAlwaysReturns`: so does the scenario, when it is cancelled,
  and by itself once its attack is over, through all six stages of the download, unless `SignalLost`.
* `AttackCommandProofs`. `BoundedAttackAlwaysReturns`: in the end no line is written, none copied and no
  command started any more (`CountsSettle`). By then `tee` has caught up, so the FIFO has room and
  nobody can have lines left to write; a command that does not end by itself gets its signal and obeys
  (`CommandEnds`). With the last writer gone `tee` sees the end of the file, and the script ends
  (`ScriptEnds`).

Only model-checked:

* The hypotheses about ENABLED. The laws are not checked but reasoned above; TLC's runs of the same
  properties do without them.
* The counterexamples, and that the assumptions on the constants can be met.

`NoAttackWithoutTcpdump`, `ScenarioFileMarksCompleteness` and `SuccessMeansResults` are proved and in no
run of their own: `ImplementsExecution` says all of them. TLC checks the liveness of a scenario with one
target; for more it is proved.

## Not modelled

* `exec.go` beyond what its callers see of it (an exec returns a status, or an error while the command
  runs on): requests and streams of client-go. `runtime.go`: reads before anything starts; its failure
  is a failing `Setup`.
* Reading and writing YAML, startup probes, labels and the fields of pod objects that are copied as they
  are: they change no state that another component reads back.
* `Init` of the clients and the building of REST configurations.
* Pipelines, `&&`, `trap` and the like in an attack: the script passes them on to `sh`.

## Plan

Done: `PodWatcher`, `Orchestrator` and `Scenario` with their abstract specifications, `KubeApi`,
`Processing`, `AttackCommand`, `PodSetup`, and proofs of all their safety properties, of the three
refinements and of all their liveness properties. Left:

1. Abstract specifications of `AttackCommand` (`Scenario`'s attack) and of `KubeApi` (its deployments and
   deletions), each shown to be implemented.
2. Proofs of the laws the liveness theorems assume, and of the possible steps, once the prover can do
   induction over temporal formulas and ENABLED.
