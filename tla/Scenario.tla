------------------------------- MODULE Scenario -------------------------------
(***************************************************************************)
(* One scenario: ExecuteScenario of internal/scenarios over the methods of *)
(* SingleTargetScenario (one target) and MultiTargetScenario.  Attacker    *)
(* and targets are deployed concurrently, tcpdump is started on every      *)
(* target, the attack runs, the captures are stopped, normalised and       *)
(* copied out concurrently, and the pods are deleted under a deadline of   *)
(* their own.                                                              *)
(*                                                                         *)
(* A capture is the number of packets it holds.  The logs of tcpdump and   *)
(* of reordercap, copied one after the other, count as one file; the       *)
(* attacker's log, whose copy may fail without effect, and the time stamps *)
(* are left out.                                                           *)
(***************************************************************************)
EXTENDS Integers, Sequences, FiniteSets

CONSTANTS
    Targets,    \* target pods
    Attacker,   \* the attacker pod
    MaxPackets  \* bound: packets that reach one target

ASSUME ScenarioAssumption ==
    /\ Targets # {}
    /\ Attacker \notin Targets
    /\ MaxPackets \in Nat

Pods == Targets \cup {Attacker}

VARIABLES
    pc,        \* where ExecuteScenario is
    cancelled, \* its context, the run's, is cancelled
    deploy,    \* pod -> its goroutine in DeployAllPods
    pod,       \* pod -> the API server's object
    starter,   \* target -> its goroutine in StartTrafficCapture
    tcpdump,   \* target -> the tcpdump process
    received,  \* target -> packets that arrived while the attack ran
    raw,       \* target -> packets in dump.raw.pcap, Missing if there is no file
    normal,    \* target -> packets in dump.pcap on the pod
    attack,    \* how the attack command ended
    prefix,    \* "full" or "partial" once a download begins
    stage,     \* target -> its goroutine in downloadResults
    copied,    \* target -> what this execution has copied to the output directory, by file
    yaml,      \* scenario.yaml is written, under the prefix
    delete,    \* pod -> its goroutine in DeleteAllPods
    expired,   \* the 30 seconds of the cleanup context are over
    errors     \* what ExecuteScenario returns, {} for nil

podVars == <<deploy, pod>>
captureVars == <<starter, tcpdump, raw, normal>>
downloadVars == <<prefix, stage, copied, yaml>>
cleanupVars == <<delete, expired>>
vars == <<pc, cancelled, podVars, captureVars, received, attack, downloadVars, cleanupVars, errors>>

Missing == -1
Count == Missing..MaxPackets
Files == {"raw", "pcap", "logs"}

\* Faulty variant of Stages: nobody waits until tcpdump has written out and ended.
NoWaitForTcpdump == <<"kill", "reorder", "raw", "pcap", "logs">>

\* What downloadResults does for one target, in this order.
Stages == <<"kill", "wait", "reorder", "raw", "pcap", "logs">>

\* Faulty variant of Finished: the last file is not waited for.
LastStage == Len(Stages)

Finished == Len(Stages) + 1
Failed == 0

TypeOK ==
    /\ pc \in {"deploy", "capture", "attack", "download", "cleanup", "returned"}
    /\ cancelled \in BOOLEAN
    /\ deploy \in [Pods -> {"create", "wait", "ready", "failed"}]
    /\ pod \in [Pods -> {"absent", "present", "terminating"}]
    /\ starter \in [Targets -> {"todo", "started", "failed"}]
    /\ tcpdump \in [Targets -> {"off", "starting", "capturing", "stopping", "dead"}]
    /\ received \in [Targets -> 0..MaxPackets]
    /\ raw \in [Targets -> Count]
    /\ normal \in [Targets -> Count]
    /\ attack \in {"none", "ok", "timeout", "failed", "interrupted"}
    /\ prefix \in {"none", "full", "partial"}
    /\ stage \in [Targets -> Failed..Finished]
    /\ copied \in [Targets -> [Files -> Count]]
    /\ yaml \in BOOLEAN
    /\ delete \in [Pods -> {"todo", "polling", "gone", "refused", "timedOut"}]
    /\ expired \in BOOLEAN
    /\ errors \subseteq {"deploy", "capture", "attack", "partial", "download"}

Init ==
    /\ pc = "deploy"
    /\ cancelled = FALSE
    /\ deploy = [p \in Pods |-> "create"]
    /\ pod = [p \in Pods |-> "absent"]
    /\ starter = [t \in Targets |-> "todo"]
    /\ tcpdump = [t \in Targets |-> "off"]
    /\ received = [t \in Targets |-> 0]
    /\ raw = [t \in Targets |-> Missing]
    /\ normal = [t \in Targets |-> Missing]
    /\ attack = "none"
    /\ prefix = "none"
    /\ stage = [t \in Targets |-> 1]
    /\ copied = [t \in Targets |-> [f \in Files |-> Missing]]
    /\ yaml = FALSE
    /\ delete = [p \in Pods |-> "todo"]
    /\ expired = FALSE
    /\ errors = {}

-----------------------------------------------------------------------------
(***************************************************************************)
(* DeployAllPods                                                           *)
(***************************************************************************)

\* CreatePod in one goroutine; an error may hide a pod that was created.
CreatePod(p) ==
    /\ deploy[p] = "create"
    /\ \E made \in {"present", "absent"}, then \in {"wait", "failed"} :
         /\ then = "wait" => made = "present" /\ ~cancelled
         /\ pod' = [pod EXCEPT ![p] = made]
         /\ deploy' = [deploy EXCEPT ![p] = then]
    /\ UNCHANGED <<pc, cancelled, captureVars, received, attack, downloadVars, cleanupVars, errors>>

\* WaitForPodReady: the pod is ready, or the context is cancelled.
AwaitReady(p) ==
    /\ deploy[p] = "wait"
    /\ \E how \in {"ready"} \cup (IF cancelled THEN {"failed"} ELSE {}) :
         deploy' = [deploy EXCEPT ![p] = how]
    /\ UNCHANGED <<pc, cancelled, pod, captureVars, received, attack, downloadVars, cleanupVars, errors>>

\* wg.Wait and the first error; an error returns before the cleanup is deferred.
DeployReturns ==
    /\ pc = "deploy"
    /\ \A p \in Pods : deploy[p] \in {"ready", "failed"}
    /\ IF \E p \in Pods : deploy[p] = "failed"
       THEN pc' = "returned" /\ errors' = {"deploy"}
       ELSE pc' = "capture" /\ UNCHANGED errors
    /\ UNCHANGED <<cancelled, podVars, captureVars, received, attack, downloadVars, cleanupVars>>

-----------------------------------------------------------------------------
(***************************************************************************)
(* StartTrafficCapture                                                     *)
(***************************************************************************)

\* The shell puts tcpdump in the background and returns at once.
StartTcpdump(t) ==
    /\ pc = "capture"
    /\ starter[t] = "todo"
    /\ \/ starter' = [starter EXCEPT ![t] = "failed"] /\ UNCHANGED tcpdump
       \/ /\ ~cancelled
          /\ starter' = [starter EXCEPT ![t] = "started"]
          /\ tcpdump' = [tcpdump EXCEPT ![t] = "starting"]
    /\ UNCHANGED <<pc, cancelled, podVars, raw, normal, received, attack, downloadVars, cleanupVars, errors>>

\* Faulty variant of StartersDone: wg.Wait is missing.
NoStarterWait == TRUE

StartersDone == \A t \in Targets : starter[t] # "todo"

CaptureReturns ==
    /\ pc = "capture"
    /\ StartersDone
    /\ IF \E t \in Targets : starter[t] = "failed"
       THEN pc' = "cleanup" /\ errors' = {"capture"}
       ELSE pc' = "attack" /\ UNCHANGED errors
    /\ UNCHANGED <<cancelled, podVars, captureVars, received, attack, downloadVars, cleanupVars>>

\* Bound: what tcpdump does once the results are fetched or given up is not followed.
CaptureMatters == pc \in {"capture", "attack", "download"}

\* tcpdump compiles its filter, opens the interface and creates the file ...
TcpdumpOpens(t) ==
    /\ CaptureMatters
    /\ tcpdump[t] = "starting"
    /\ tcpdump' = [tcpdump EXCEPT ![t] = "capturing"]
    /\ raw' = [raw EXCEPT ![t] = 0]
    /\ UNCHANGED <<pc, cancelled, podVars, starter, normal, received, attack, downloadVars, cleanupVars, errors>>

\* ... or ends: on a filter it cannot compile or an error, of which nobody is told,
\* or after SIGINT, when it has written out what it holds.
TcpdumpEnds(t) ==
    /\ CaptureMatters
    /\ tcpdump[t] \in {"starting", "capturing", "stopping"}
    /\ tcpdump' = [tcpdump EXCEPT ![t] = "dead"]
    /\ UNCHANGED <<pc, cancelled, podVars, starter, raw, normal, received, attack, downloadVars,
                   cleanupVars, errors>>

\* Traffic reaches a target; processes the attack left behind may still send.
Packet(t) ==
    /\ pc \in {"attack", "download"}
    /\ received[t] < MaxPackets
    /\ raw[t] < MaxPackets
    /\ IF pc = "attack" THEN received' = [received EXCEPT ![t] = @ + 1] ELSE UNCHANGED received
    /\ IF tcpdump[t] \in {"capturing", "stopping"} THEN raw' = [raw EXCEPT ![t] = @ + 1] ELSE UNCHANGED raw
    /\ UNCHANGED <<pc, cancelled, podVars, starter, tcpdump, normal, attack, downloadVars,
                   cleanupVars, errors>>

-----------------------------------------------------------------------------
(***************************************************************************)
(* ExecuteAttack                                                           *)
(***************************************************************************)

\* Faulty variant of KeepsPartial: every failed attack counts as a timeout.
KeepsAnyFailure(exit) == exit \in {"timeout", "failed", "interrupted"}

\* isAttackTimeout: the command ended with status 124.
KeepsPartial(exit) == exit = "timeout"

\* Faulty variant of AttackError: a failed attack that was handled returns nil.
NoAttackError(exit) == {}

AttackError(exit) == IF exit = "ok" THEN {} ELSE {"attack"}

\* Faulty variant of AttackEnds: an attack that did not end well is started again.
AttackStartsAgain ==
    /\ pc = "attack"
    /\ \E exit \in {"ok", "timeout", "failed"} \cup (IF cancelled THEN {"interrupted"} ELSE {}) :
         /\ attack' = exit
         /\ errors' = AttackError(exit)
         /\ IF exit = "ok" THEN prefix' = "full" /\ pc' = "download" ELSE UNCHANGED <<prefix, pc>>
    /\ UNCHANGED <<cancelled, podVars, captureVars, received, stage, copied, yaml, cleanupVars>>

AttackEnds ==
    /\ pc = "attack"
    /\ \E exit \in {"ok", "timeout", "failed"} \cup (IF cancelled THEN {"interrupted"} ELSE {}) :
         /\ attack' = exit
         /\ errors' = AttackError(exit)
         /\ IF exit = "ok" THEN prefix' = "full" /\ pc' = "download"
            ELSE IF KeepsPartial(exit) THEN prefix' = "partial" /\ pc' = "download"
            ELSE pc' = "cleanup" /\ UNCHANGED prefix
    /\ UNCHANGED <<cancelled, podVars, captureVars, received, stage, copied, yaml, cleanupVars>>

-----------------------------------------------------------------------------
(***************************************************************************)
(* downloadResults                                                         *)
(***************************************************************************)

Copy(t, file, content) ==
    /\ content # Missing
    /\ copied' = [copied EXCEPT ![t][file] = content]
    /\ UNCHANGED captureVars

\* SIGINT.  The shell has started tcpdump in the background, so with SIGINT ignored:
\* before tcpdump has set its own handler the signal is lost.
KillTcpdump(t) ==
    /\ tcpdump' = [tcpdump EXCEPT ![t] = IF @ = "capturing" THEN "stopping" ELSE @]
    /\ UNCHANGED <<starter, raw, normal, copied>>

\* The loop over ps, until tcpdump is a zombie.
WaitTcpdump(t) ==
    /\ tcpdump[t] = "dead"
    /\ UNCHANGED <<captureVars, copied>>

\* reordercap fails when there is no dump.raw.pcap.
Reorder(t) ==
    /\ raw[t] # Missing
    /\ normal' = [normal EXCEPT ![t] = raw[t]]
    /\ UNCHANGED <<starter, tcpdump, raw, copied>>

DownloadStep(t) ==
    /\ pc = "download"
    /\ stage[t] \in 1..Len(Stages)
    /\ ~cancelled
    /\ CASE Stages[stage[t]] = "kill" -> KillTcpdump(t)
         [] Stages[stage[t]] = "wait" -> WaitTcpdump(t)
         [] Stages[stage[t]] = "reorder" -> Reorder(t)
         [] Stages[stage[t]] = "raw" -> Copy(t, "raw", raw[t])
         [] Stages[stage[t]] = "pcap" -> Copy(t, "pcap", normal[t])
         [] Stages[stage[t]] = "logs" -> Copy(t, "logs", 0)
    /\ stage' = [stage EXCEPT ![t] = @ + 1]
    /\ UNCHANGED <<pc, cancelled, podVars, received, attack, prefix, yaml, cleanupVars, errors>>

\* A command or a copy fails, or the context is cancelled.
DownloadStepFails(t) ==
    /\ pc = "download"
    /\ stage[t] \in 1..Len(Stages)
    /\ stage' = [stage EXCEPT ![t] = Failed]
    /\ UNCHANGED <<pc, cancelled, podVars, captureVars, received, attack, prefix, copied, yaml,
                   cleanupVars, errors>>

\* Faulty variant of DownloadsComplete: the error channel is not read.
DownloadsEnded == \A t \in Targets : stage[t] \in {Failed, Finished}

DownloadsComplete == \A t \in Targets : stage[t] = Finished

\* wg.Wait, the error check, scenario.yaml last; writing it may fail.
DownloadReturns ==
    /\ pc = "download"
    /\ \A t \in Targets : stage[t] \in {Failed, Finished}
    /\ \/ DownloadsComplete /\ yaml' = TRUE /\ UNCHANGED errors
       \/ /\ UNCHANGED yaml
          /\ errors' = errors \cup {IF prefix = "full" THEN "download" ELSE "partial"}
    /\ pc' = "cleanup"
    /\ UNCHANGED <<cancelled, podVars, captureVars, received, attack, prefix, stage, copied, cleanupVars>>

-----------------------------------------------------------------------------
(***************************************************************************)
(* The deferred cleanup: DeleteAllPods under a context of its own.         *)
(***************************************************************************)

\* Faulty variant of CleanupOver: the cleanup context is derived from the run's.
CleanupSharesContext == expired \/ cancelled

CleanupOver == expired

DeletePod(p) ==
    /\ pc = "cleanup"
    /\ delete[p] = "todo"
    /\ ~CleanupOver
    /\ delete' = [delete EXCEPT ![p] = "polling"]
    /\ pod' = [pod EXCEPT ![p] = IF @ = "present" THEN "terminating" ELSE @]
    /\ UNCHANGED <<pc, cancelled, deploy, captureVars, received, attack, downloadVars, expired, errors>>

\* waitForPodDeletion sees NotFound.
DeletionSeen(p) ==
    /\ delete[p] = "polling"
    /\ pod[p] = "absent"
    /\ delete' = [delete EXCEPT ![p] = "gone"]
    /\ UNCHANGED <<pc, cancelled, podVars, captureVars, received, attack, downloadVars, expired, errors>>

\* The API refuses the deletion or a poll fails, or the deadline has passed.
DeleteFails(p) ==
    /\ pc = "cleanup"
    /\ delete[p] \in {"todo", "polling"}
    /\ \E how \in {"refused"} \cup (IF CleanupOver THEN {"timedOut"} ELSE {}) :
         delete' = [delete EXCEPT ![p] = how]
    /\ UNCHANGED <<pc, cancelled, podVars, captureVars, received, attack, downloadVars, expired, errors>>

\* The kubelet has stopped the containers and the server drops the object.
PodGone(p) ==
    /\ pod[p] = "terminating"
    /\ pod' = [pod EXCEPT ![p] = "absent"]
    /\ UNCHANGED <<pc, cancelled, deploy, captureVars, received, attack, downloadVars, cleanupVars, errors>>

\* Faulty variant of CleanupDeadline: the cleanup context has no timeout.
NoDeadline == FALSE /\ UNCHANGED vars

CleanupDeadline ==
    /\ pc = "cleanup"
    /\ ~expired
    /\ expired' = TRUE
    /\ UNCHANGED <<pc, cancelled, podVars, captureVars, received, attack, downloadVars, delete, errors>>

\* wg.Wait; the joined error is only logged.
CleanupReturns ==
    /\ pc = "cleanup"
    /\ \A p \in Pods : delete[p] \in {"gone", "refused", "timedOut"}
    /\ pc' = "returned"
    /\ UNCHANGED <<cancelled, podVars, captureVars, received, attack, downloadVars, cleanupVars, errors>>

\* A signal, or the pod watcher failed.
Cancel ==
    /\ pc # "returned"
    /\ ~cancelled
    /\ cancelled' = TRUE
    /\ UNCHANGED <<pc, podVars, captureVars, received, attack, downloadVars, cleanupVars, errors>>

-----------------------------------------------------------------------------
Deploy(p) == CreatePod(p) \/ AwaitReady(p)
Download(t) == DownloadStep(t) \/ DownloadStepFails(t)
Delete(p) == DeletePod(p) \/ DeletionSeen(p) \/ DeleteFails(p)
Returns == DeployReturns \/ CaptureReturns \/ DownloadReturns \/ CleanupReturns
Environment(t) == TcpdumpOpens(t) \/ TcpdumpEnds(t) \/ Packet(t)

Next ==
    \/ \E p \in Pods : Deploy(p) \/ Delete(p) \/ PodGone(p)
    \/ \E t \in Targets : StartTcpdump(t) \/ Download(t) \/ Environment(t)
    \/ AttackEnds
    \/ Returns
    \/ CleanupDeadline
    \/ Cancel

Spec == Init /\ [][Next]_vars

\* The wait for tcpdump's end goes on.
Blocked(t) ==
    /\ pc = "download"
    /\ stage[t] \in 1..Len(Stages)
    /\ Stages[stage[t]] = "wait"
    /\ tcpdump[t] # "dead"

(***************************************************************************)
(* Fairness.  Goroutines that can go on do, API calls and execs answer,    *)
(* tcpdump ends after it took SIGINT, and the deadline passes.  A pod need *)
(* not become ready, an attack need not end and the wait for tcpdump may   *)
(* go on, but each returns once the context is cancelled.  A pod that is   *)
(* terminating may stay so for ever.                                       *)
(***************************************************************************)
AwaitStops(p) == cancelled /\ AwaitReady(p)
DeletionGoesOn(p) == DeletePod(p) \/ DeletionSeen(p)
DeletionTimesOut(p) == expired /\ DeleteFails(p)
DownloadGoesOn(t) == ~Blocked(t) /\ Download(t)
DownloadStops(t) == cancelled /\ Download(t)
StoppedTcpdumpEnds(t) == tcpdump[t] = "stopping" /\ TcpdumpEnds(t)
AttackStops == cancelled /\ AttackEnds

PodFairness(p) ==
    /\ WF_vars(CreatePod(p))
    /\ WF_vars(AwaitStops(p))
    /\ WF_vars(DeletionGoesOn(p))
    /\ WF_vars(DeletionTimesOut(p))

TargetFairness(t) ==
    /\ WF_vars(StartTcpdump(t))
    /\ WF_vars(DownloadGoesOn(t))
    /\ WF_vars(DownloadStops(t))
    /\ WF_vars(StoppedTcpdumpEnds(t))

MainFairness ==
    /\ WF_vars(AttackStops)
    /\ WF_vars(Returns)
    /\ WF_vars(CleanupDeadline)

Fairness ==
    /\ \A p \in Pods : PodFairness(p)
    /\ \A t \in Targets : TargetFairness(t)
    /\ MainFairness

FairSpec == Spec /\ Fairness

-----------------------------------------------------------------------------
(***************************************************************************)
(* Refinement mapping to Execution.                                        *)
(***************************************************************************)
Phases ==
    [deploy |-> "prepare", capture |-> "prepare", attack |-> "attack", download |-> "fetch",
     cleanup |-> "clean", returned |-> "returned"]

Complete(t) == \A f \in Files : copied[t][f] # Missing

Execute == INSTANCE Execution WITH
    phase <- Phases[pc],
    armed <- {t \in Targets : tcpdump[t] # "off"},
    ended <- IF attack = "interrupted" THEN "failed" ELSE attack,
    fetched <- {t \in Targets : Complete(t)},
    kept <- IF yaml THEN prefix ELSE "none",
    failed <- errors # {}

-----------------------------------------------------------------------------
(***************************************************************************)
(* Properties.                                                             *)
(***************************************************************************)

\* One scenario keeps the promise of Execution, whatever fails, lags behind or is
\* cancelled: an attack only behind started captures, scenario.yaml only beside complete
\* files and under the right name, nil only with full results, and none of it taken back
\* in the cleanup.
ImplementsExecution == Execute!ExecutionSpec

PodsDeployed == \A p \in Pods : deploy[p] = "ready"

\* Nothing is attacked before tcpdump has been launched, without an error, on every
\* target: the goroutines of StartTrafficCapture are joined and their errors read.
NoAttackWithoutTcpdump ==
    pc \in {"attack", "download"} => \A t \in Targets : tcpdump[t] # "off"

\* scenario.yaml under the full or the partial name is the mark of a complete set of
\* files of every target, and of an attack that ended on its own or at its timeout.
ScenarioFileMarksCompleteness ==
    yaml => /\ \A t \in Targets : \A f \in Files : copied[t][f] # Missing
            /\ attack = IF prefix = "full" THEN "ok" ELSE "timeout"

\* The normalised capture that is analysed later holds every packet of the raw one,
\* although packets may still arrive while the results are fetched.
NormalizedHoldsRaw ==
    \A t \in Targets :
        copied[t]["pcap"] # Missing => copied[t]["pcap"] = raw[t] /\ copied[t]["raw"] = raw[t]

\* A scenario that returns nil has left the files ProcessResults and the user need.
SuccessMeansResults ==
    pc = "returned" /\ errors = {} => yaml /\ prefix = "full"

\* Pods that were all deployed are gone when the scenario returns, also when the run
\* was cancelled meanwhile, unless the API refused or the 30 seconds were not enough.
CleanupIgnoresCancellation ==
    pc = "returned" /\ PodsDeployed /\ ~expired /\ (\A p \in Pods : delete[p] # "refused")
    => \A p \in Pods : pod[p] = "absent"

\* What a goroutine of the scenario waits for on its own can happen: the steps fairness
\* speaks of are possible.  Only wg.Wait waits for other goroutines.
PodGoesOn(p) ==
    /\ deploy[p] = "create" => ENABLED <<CreatePod(p)>>_vars
    /\ deploy[p] = "wait" /\ cancelled => ENABLED <<AwaitStops(p)>>_vars
    /\ pc = "cleanup" /\ delete[p] \in {"todo", "polling"} /\ expired
       => ENABLED <<DeletionTimesOut(p)>>_vars

TargetGoesOn(t) ==
    /\ pc = "capture" /\ starter[t] = "todo" => ENABLED <<StartTcpdump(t)>>_vars
    /\ pc = "download" /\ stage[t] \in 1..Len(Stages) =>
         /\ cancelled => ENABLED <<DownloadStops(t)>>_vars
         /\ ~Blocked(t) => ENABLED <<DownloadGoesOn(t)>>_vars
         /\ Blocked(t) /\ tcpdump[t] = "stopping" => ENABLED <<StoppedTcpdumpEnds(t)>>_vars

\* Every goroutine that ExecuteScenario waits for in wg.Wait has ended.
Joined ==
    \/ pc = "deploy" /\ \A p \in Pods : deploy[p] \in {"ready", "failed"}
    \/ pc = "capture" /\ \A t \in Targets : starter[t] # "todo"
    \/ pc = "download" /\ \A t \in Targets : stage[t] \in {Failed, Finished}
    \/ pc = "cleanup" /\ \A p \in Pods : delete[p] \in {"gone", "refused", "timedOut"}

ScenarioGoesOn ==
    /\ \A p \in Pods : PodGoesOn(p)
    /\ \A t \in Targets : TargetGoesOn(t)
    /\ Joined => ENABLED <<Returns>>_vars
    /\ pc = "attack" /\ cancelled => ENABLED <<AttackStops>>_vars
    /\ pc = "cleanup" /\ ~expired => ENABLED <<CleanupDeadline>>_vars

\* A cancelled scenario returns, even if a pod never becomes ready, the attack does
\* not end or a pod keeps terminating; until then nothing in it is stuck.
CancelledScenarioReturns ==
    /\ []ScenarioGoesOn
    /\ cancelled ~> pc = "returned"

\* A SIGINT that came before tcpdump listened to it has been lost.
SignalLost == \E t \in Targets : Blocked(t) /\ tcpdump[t] # "stopping"

\* Once the attack is over the scenario returns without anybody's help, unless the
\* SIGINT came before tcpdump listened to it: then the wait in the pod has no end.
EndedAttackReturns ==
    []~SignalLost => (pc \in {"download", "cleanup"} ~> pc = "returned")

\* Each goroutine ends by itself: a deployment once the run is cancelled, the start of a
\* capture, a download once the run is cancelled, a deletion at its deadline.
GoroutinesEnd ==
    /\ \A p \in Pods : /\ cancelled ~> deploy[p] \in {"ready", "failed"}
                       /\ pc = "cleanup" ~> delete[p] \in {"gone", "refused", "timedOut"}
    /\ \A t \in Targets : /\ pc = "capture" ~> starter[t] # "todo"
                          /\ cancelled /\ pc = "download" ~> stage[t] \in {Failed, Finished}

\* Comment of ExecuteScenario, step 5: it "Cleans up the pods".
ScenarioCleansUpItsPods ==
    pc = "returned" /\ ~expired /\ (\A p \in Pods : delete[p] # "refused")
    => \A p \in Pods : pod[p] = "absent"

\* Runbook: no scenario pods remain after success.
NoPodsAfterSuccess ==
    pc = "returned" /\ errors = {} => \A p \in Pods : pod[p] = "absent"

\* README: all traffic received by the targets is captured.
AttackTrafficCaptured ==
    yaml => \A t \in Targets : copied[t]["raw"] >= received[t]
=============================================================================
