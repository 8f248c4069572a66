------------------------- MODULE OrchestratorProofs -------------------------
(***************************************************************************)
(* Proofs about Orchestrator, for any finite set of scenarios, any set of  *)
(* processing pods and any value of the -w flag.                           *)
(***************************************************************************)
EXTENDS Orchestrator, FiniteSetTheorems, TLAPS

WorkerStates ==
    [at : {"none", "idle", "exited"}, scenario : {NoScenario}]
    \cup [at : {"load", "execute", "analyse", "report"}, scenario : Scenarios]

\* A worker that is busy or reports has a scenario, any other has none.
LEMMA WorkerScenario ==
    ASSUME TypeOK, NEW w \in Workers
    PROVE  /\ worker[w] \in WorkerStates
           /\ Busy(w) \/ worker[w].at = "report"
              => worker[w].scenario \in Scenarios /\ worker[w].scenario # NoScenario
           /\ worker[w].at \in {"none", "idle", "exited"} \/ Busy(w) \/ worker[w].at = "report"
           /\ worker[w].at \in {"none", "idle", "exited"} =>
                worker[w].scenario = NoScenario /\ NoScenario \notin Scenarios
           /\ worker[w].at \in {"none", "idle", "exited"} => ~Busy(w) /\ worker[w].at # "report"
<1>1. worker[w] \in WorkerStates
  BY DEF TypeOK, WorkerStates
<1>2. NoScenario \notin Scenarios
  BY OrchestratorAssumption DEF NoScenario
<1> QED BY <1>1, <1>2 DEF WorkerStates, Busy

-----------------------------------------------------------------------------
LEMMA TypeInit == Init => TypeOK
<1> SUFFICES ASSUME Init PROVE TypeOK
  OBVIOUS
<1>1. worker \in [Workers -> WorkerStates]
  BY DEF Init, WorkerStates
<1>2. outcome \in [Scenarios -> {"none", "completed", "failed", "interrupted"}]
  BY DEF Init
<1>3. deploy \in [ProcessingPods -> {"none", "running", "deployed", "failed"}]
  BY DEF Init
<1> QED BY <1>1, <1>2, <1>3 DEF Init, TypeOK, WorkerStates, ErrorTags

LEMMA TypeStep == TypeOK /\ [Next]_vars => TypeOK'
<1> SUFFICES ASSUME TypeOK, [Next]_vars PROVE TypeOK'
  OBVIOUS
<1>1. CASE Setup
  BY <1>1 DEF TypeOK, Setup, Return, scenarioVars, ErrorTags
<1>2. ASSUME NEW p \in ProcessingPods, DeployEnds(p) PROVE TypeOK'
  BY <1>2 DEF TypeOK, DeployEnds, scenarioVars, ctxVars, ErrorTags
<1>3. CASE DeployReturns
  <2>1. worker' \in [Workers -> WorkerStates]
    BY <1>3 DEF TypeOK, DeployReturns, Idle, WorkerStates
  <2>2. main' \in {"enqueue", "exited"} /\ errs' \subseteq ErrorTags /\ cancelled' \in BOOLEAN
    BY <1>3 DEF TypeOK, DeployReturns, Return, ErrorTags
  <2> QED BY <1>3, <2>1, <2>2 DEF TypeOK, DeployReturns, WorkerStates
<1>4. ASSUME NEW w \in Workers, HandOver(w) PROVE TypeOK'
  <2>1. PICK s \in todo : /\ todo' = todo \ {s}
                          /\ worker' = [worker EXCEPT ![w] = [at |-> "load", scenario |-> s]]
    BY <1>4 DEF HandOver
  <2>2. s \in Scenarios
    BY DEF TypeOK
  <2>3. worker' \in [Workers -> WorkerStates]
    BY <2>1, <2>2 DEF TypeOK, WorkerStates
  <2>4. todo' \subseteq Scenarios
    BY <2>1 DEF TypeOK
  <2> QED BY <1>4, <2>3, <2>4 DEF TypeOK, WorkerStates, HandOver, ctxVars, ErrorTags
<1>5. CASE EnqueueEnds
  BY <1>5 DEF TypeOK, EnqueueEnds, scenarioVars, ctxVars, ErrorTags
<1>6. CASE Finish
  BY <1>6 DEF TypeOK, Finish, Return, ErrorTags
<1>7. ASSUME NEW w \in Workers, WorkerExits(w) PROVE TypeOK'
  BY <1>7 DEF TypeOK, WorkerExits, Exited, ctxVars, ErrorTags
<1>8. ASSUME NEW w \in Workers, StageSucceeds(w) PROVE TypeOK'
  <2>1. CASE worker[w].at \in {"load", "execute"}
             /\ worker' = [worker EXCEPT ![w].at = NextStage(@)] /\ UNCHANGED outcome
    <3>1. worker[w].scenario \in Scenarios
      BY <2>1, WorkerScenario DEF Busy
    <3>2. worker[w] \in WorkerStates /\ NextStage(worker[w].at) \in {"execute", "analyse"}
      BY <2>1, WorkerScenario DEF NextStage
    <3>3. [worker[w] EXCEPT !.at = NextStage(worker[w].at)] \in WorkerStates
      BY <3>1, <3>2 DEF WorkerStates
    <3>4. worker' \in [Workers -> WorkerStates]
      BY <2>1, <3>3 DEF TypeOK, WorkerStates
    <3> QED BY <1>8, <2>1, <3>4 DEF TypeOK, WorkerStates, StageSucceeds, ctxVars, ErrorTags
  <2>2. CASE worker[w].at = "analyse" /\ worker' = [worker EXCEPT ![w] = Idle]
             /\ outcome' = [outcome EXCEPT ![worker[w].scenario] = "completed"]
    <3>1. worker' \in [Workers -> WorkerStates]
      BY <2>2 DEF TypeOK, WorkerStates, Idle
    <3> QED BY <1>8, <2>2, <3>1 DEF TypeOK, WorkerStates, StageSucceeds, ctxVars, ErrorTags
  <2> QED BY <1>8, <2>1, <2>2 DEF StageSucceeds
<1>9. ASSUME NEW w \in Workers, StageFails(w) PROVE TypeOK'
  <2>1. worker[w] \in WorkerStates /\ worker[w].scenario \in Scenarios
    BY <1>9, WorkerScenario DEF StageFails, Busy
  <2>2. [worker[w] EXCEPT !.at = "report"] \in WorkerStates
    BY <2>1 DEF WorkerStates
  <2>3. worker' \in [Workers -> WorkerStates]
    BY <1>9, <2>2 DEF TypeOK, WorkerStates, StageFails
  <2>4. outcome' \in [Scenarios -> {"none", "completed", "failed", "interrupted"}]
    BY <1>9, <2>1 DEF TypeOK, StageFails
  <2> QED BY <1>9, <2>3, <2>4 DEF TypeOK, WorkerStates, StageFails, ctxVars, ErrorTags
<1>10. ASSUME NEW w \in Workers, Report(w) PROVE TypeOK'
  <2>1. worker[w].scenario \in Scenarios
    BY <1>10, WorkerScenario DEF Report
  <2> QED BY <1>10, <2>1 DEF TypeOK, Report, Idle, ctxVars, ErrorTags
<1>11. CASE Signal \/ WatchEnds \/ ReportWatcher \/ CancelRun
  BY <1>11 DEF TypeOK, Signal, WatchEnds, ReportWatcher, CancelRun, scenarioVars, ErrorTags
<1>12. CASE UNCHANGED vars
  BY <1>12 DEF TypeOK, vars, scenarioVars, ctxVars, ErrorTags
<1> QED BY <1>1, <1>2, <1>3, <1>4, <1>5, <1>6, <1>7, <1>8, <1>9, <1>10, <1>11, <1>12
    DEF Next, WorkerStep

\* Every variable of the run keeps its type, whatever -w is.
THEOREM TypeCorrect == Spec => []TypeOK
BY TypeInit, TypeStep, PTL DEF Spec

-----------------------------------------------------------------------------
LEMMA InvInit == Init => RunInv
<1> SUFFICES ASSUME Init PROVE RunInv
  OBVIOUS
<1>1. TypeOK
  BY TypeInit
<1>2. StartInv
  BY DEF Init, StartInv
<1>3. \A w \in Workers : ~Busy(w) /\ worker[w].at = "none" /\ worker[w].scenario = NoScenario
  BY DEF Init, Busy
<1>4. OwnerInv
  BY <1>3 DEF Init, OwnerInv
<1>5. NothingLost
  BY DEF Init, NothingLost, Broken
<1>6. CancelInv /\ CancellationExplained
  BY DEF Init, CancelInv, CancellationExplained
<1> QED BY <1>1, <1>2, <1>4, <1>5, <1>6 DEF RunInv

LEMMA StartStep == TypeOK /\ StartInv /\ [Next]_vars => StartInv'
<1> SUFFICES ASSUME TypeOK, StartInv, [Next]_vars PROVE StartInv'
  OBVIOUS
<1>1. CASE Setup
  BY <1>1 DEF StartInv, TypeOK, Setup, Return, scenarioVars
<1>2. ASSUME NEW p \in ProcessingPods, DeployEnds(p) PROVE StartInv'
  BY <1>2 DEF StartInv, TypeOK, DeployEnds, Deployed, scenarioVars, ctxVars
<1>3. CASE DeployReturns
  <2>1. CASE \E p \in ProcessingPods : deploy[p] = "failed"
    BY <1>3, <2>1 DEF StartInv, DeployReturns, Return
  <2>2. CASE ~\E p \in ProcessingPods : deploy[p] = "failed"
    <3>1. Deployed' = ProcessingPods
      BY <1>3, <2>2 DEF StartInv, TypeOK, DeployReturns, AllDeploysEnded, Deployed
    <3>2. main' = "enqueue" /\ \A w \in Workers : worker'[w].at # "none"
      BY <1>3, <2>2 DEF DeployReturns, Idle
    <3> QED BY <3>1, <3>2 DEF StartInv
  <2> QED BY <2>1, <2>2
<1>4. ASSUME NEW w \in Workers,
             HandOver(w) \/ WorkerExits(w) \/ StageSucceeds(w) \/ StageFails(w) \/ Report(w)
      PROVE  StartInv'
  <2>1. worker[w].at # "none"
    BY <1>4 DEF HandOver, WorkerExits, StageSucceeds, StageFails, Report, Idle
  <2>2. main \notin {"setup", "deploy"} /\ Deployed = ProcessingPods
        /\ \A v \in Workers : worker[v].at # "none"
    BY <2>1 DEF StartInv
  <2>3. main' = main /\ deploy' = deploy
    BY <1>4 DEF HandOver, WorkerExits, StageSucceeds, StageFails, Report, ctxVars
  <2>4. \A v \in Workers : worker'[v].at # "none"
    <3> TAKE v \in Workers
    <3>1. worker'[w].at # "none"
      BY <1>4 DEF TypeOK, HandOver, WorkerExits, StageSucceeds, StageFails, Report,
                  Idle, Exited, NextStage
    <3>2. v # w => worker'[v] = worker[v]
      BY <1>4 DEF TypeOK, HandOver, WorkerExits, StageSucceeds, StageFails, Report
    <3> QED BY <2>2, <3>1, <3>2
  <2> QED BY <2>2, <2>3, <2>4 DEF StartInv, Deployed
<1>5. CASE EnqueueEnds
  BY <1>5 DEF StartInv, EnqueueEnds, Deployed, scenarioVars
<1>6. CASE Finish
  BY <1>6 DEF StartInv, Finish, Return, Deployed
<1>7. CASE Signal \/ WatchEnds \/ ReportWatcher \/ CancelRun
  BY <1>7 DEF StartInv, Signal, WatchEnds, ReportWatcher, CancelRun, Deployed, scenarioVars
<1>8. CASE UNCHANGED vars
  BY <1>8 DEF StartInv, vars, Deployed, scenarioVars, ctxVars
<1> QED BY <1>1, <1>2, <1>3, <1>4, <1>5, <1>6, <1>7, <1>8 DEF Next, WorkerStep

\* What a step of worker w leaves alone, and that others keep their state.
LEMMA OthersKeep ==
    ASSUME TypeOK, NEW w \in Workers, WorkerStep(w), NEW v \in Workers, v # w
    PROVE  worker'[v] = worker[v]
BY DEF TypeOK, WorkerStep, HandOver, WorkerExits, StageSucceeds, StageFails, Report

\* Two workers never hold the same scenario.
LEMMA Distinct ==
    ASSUME TypeOK, OwnerInv, NEW w \in Workers, NEW v \in Workers, v # w,
           Busy(w) \/ worker[w].at = "report"
    PROVE  worker[v].scenario # worker[w].scenario
BY WorkerScenario DEF OwnerInv

LEMMA OwnerStep == TypeOK /\ StartInv /\ OwnerInv /\ [Next]_vars => OwnerInv'
<1> SUFFICES ASSUME TypeOK, StartInv, OwnerInv, [Next]_vars PROVE OwnerInv'
  OBVIOUS
<1>1. ASSUME UNCHANGED scenarioVars PROVE OwnerInv'
  BY <1>1 DEF OwnerInv, scenarioVars, Busy, Broken
<1>2. CASE DeployReturns
  <2>1. \A w \in Workers : worker'[w].at \in {"none", "idle"} /\ worker'[w].scenario = NoScenario
    BY <1>2, WorkerScenario DEF StartInv, DeployReturns, Idle
  <2> QED BY <1>2, <2>1 DEF OwnerInv, DeployReturns, Busy, Broken
<1>3. ASSUME NEW w \in Workers, HandOver(w) PROVE OwnerInv'
  <2>1. PICK s \in todo : /\ todo' = todo \ {s}
                          /\ worker' = [worker EXCEPT ![w] = [at |-> "load", scenario |-> s]]
    BY <1>3 DEF HandOver
  <2>2. worker'[w] = [at |-> "load", scenario |-> s]
    BY <2>1 DEF TypeOK
  <2>3. \A v \in Workers : v # w => worker'[v] = worker[v]
    BY <2>1 DEF TypeOK
  <2>4. results' = results /\ outcome' = outcome /\ outcome[s] = "none" /\ s \in Scenarios
    BY <1>3 DEF HandOver, OwnerInv, TypeOK
  <2>5. \A v \in Workers : worker[v].scenario # s
    BY <2>4, WorkerScenario DEF OwnerInv, Broken
  <2>6. \A v \in Workers : Busy(v)' =>
          worker'[v].scenario \notin todo' /\ outcome'[worker'[v].scenario] = "none"
    BY <2>1, <2>2, <2>3, <2>4 DEF OwnerInv, Busy
  <2>7. \A v \in Workers : worker'[v].at = "report" =>
          outcome'[worker'[v].scenario] \in {"failed", "interrupted"} /\ worker'[v].scenario \notin results'
    BY <2>2, <2>3, <2>4 DEF OwnerInv, Broken
  <2>8. \A u, v \in Workers :
          worker'[u].scenario = worker'[v].scenario /\ worker'[u].scenario # NoScenario => u = v
    BY <2>2, <2>3, <2>5 DEF OwnerInv
  <2> QED BY <2>1, <2>4, <2>6, <2>7, <2>8 DEF OwnerInv, Broken
<1>4. ASSUME NEW w \in Workers, WorkerExits(w) PROVE OwnerInv'
  <2>1. worker'[w] = Exited /\ \A v \in Workers : v # w => worker'[v] = worker[v]
    BY <1>4 DEF WorkerExits, TypeOK
  <2> QED BY <1>4, <2>1 DEF OwnerInv, WorkerExits, Exited, Busy, Broken
<1>5. ASSUME NEW w \in Workers, StageSucceeds(w) PROVE OwnerInv'
  <2>1. /\ todo' = todo /\ results' = results
        /\ \A v \in Workers : v # w => worker'[v] = worker[v]
    BY <1>5 DEF StageSucceeds, TypeOK
  <2>2. Busy(w) /\ worker[w].scenario \in Scenarios
    BY <1>5, WorkerScenario DEF StageSucceeds, Busy
  <2>3. CASE worker[w].at \in {"load", "execute"}
             /\ worker' = [worker EXCEPT ![w].at = NextStage(@)] /\ UNCHANGED outcome
    <3>1. worker'[w].scenario = worker[w].scenario /\ worker'[w].at \in {"execute", "analyse"}
      BY <2>3, WorkerScenario DEF TypeOK, NextStage, WorkerStates
    <3>2. \A v \in Workers : worker'[v].scenario = worker[v].scenario
      BY <2>1, <3>1
    <3>3. \A v \in Workers : Busy(v)' => Busy(v)
      BY <2>1, <2>2, <3>1 DEF Busy
    <3>4. \A v \in Workers : worker'[v].at = "report" => worker[v].at = "report"
      BY <2>1, <3>1
    <3> QED BY <2>1, <2>3, <3>2, <3>3, <3>4 DEF OwnerInv, Broken
  <2>4. CASE worker[w].at = "analyse" /\ worker' = [worker EXCEPT ![w] = Idle]
             /\ outcome' = [outcome EXCEPT ![worker[w].scenario] = "completed"]
    <3>1. worker'[w] = Idle
      BY <2>4 DEF TypeOK
    <3>2. \A v \in Workers : v # w => worker[v].scenario # worker[w].scenario
      BY <2>2, Distinct
    <3>3. \A s \in Scenarios : s # worker[w].scenario => outcome'[s] = outcome[s]
      BY <2>4 DEF TypeOK
    <3>4. worker[w].scenario \notin todo /\ worker[w].scenario \notin results
      BY <2>2 DEF OwnerInv, Broken
    <3>5. \A s \in todo : outcome'[s] = "none"
      BY <3>3, <3>4 DEF OwnerInv, TypeOK
    <3>6. \A s \in results : outcome'[s] \in {"failed", "interrupted"}
      BY <3>3, <3>4 DEF OwnerInv, TypeOK, Broken
    <3>7. \A v \in Workers : v # w /\ (Busy(v) \/ worker[v].at = "report")
            => outcome'[worker[v].scenario] = outcome[worker[v].scenario]
      BY <3>2, <3>3, WorkerScenario
    <3>8. \A v \in Workers : Busy(v)' =>
            worker'[v].scenario \notin todo' /\ outcome'[worker'[v].scenario] = "none"
      BY <2>1, <3>1, <3>7 DEF OwnerInv, Busy, Idle
    <3>9. \A v \in Workers : worker'[v].at = "report" =>
            outcome'[worker'[v].scenario] \in {"failed", "interrupted"} /\ worker'[v].scenario \notin results'
      BY <2>1, <3>1, <3>7 DEF OwnerInv, Broken, Idle
    <3>10. \A u, v \in Workers :
            worker'[u].scenario = worker'[v].scenario /\ worker'[u].scenario # NoScenario => u = v
      BY <2>1, <3>1 DEF OwnerInv, Idle
    <3> QED BY <2>1, <3>5, <3>6, <3>8, <3>9, <3>10 DEF OwnerInv, Broken
  <2> QED BY <1>5, <2>3, <2>4 DEF StageSucceeds
<1>6. ASSUME NEW w \in Workers, StageFails(w) PROVE OwnerInv'
  <2>1. /\ todo' = todo /\ results' = results
        /\ \A v \in Workers : v # w => worker'[v] = worker[v]
    BY <1>6 DEF StageFails, TypeOK
  <2>2. Busy(w) /\ worker[w].scenario \in Scenarios
    BY <1>6, WorkerScenario DEF StageFails, Busy
  <2>3. worker'[w].at = "report" /\ worker'[w].scenario = worker[w].scenario
    BY <1>6, WorkerScenario DEF StageFails, TypeOK, WorkerStates
  <2>4. \A v \in Workers : v # w => worker[v].scenario # worker[w].scenario
    BY <2>2, Distinct
  <2>5. /\ outcome'[worker[w].scenario] \in {"failed", "interrupted"}
        /\ \A s \in Scenarios : s # worker[w].scenario => outcome'[s] = outcome[s]
    BY <1>6, <2>2 DEF StageFails, TypeOK
  <2>6. worker[w].scenario \notin todo /\ worker[w].scenario \notin results
    BY <2>2 DEF OwnerInv, Broken
  <2>7. \A s \in todo : outcome'[s] = "none"
    BY <2>5, <2>6 DEF OwnerInv, TypeOK
  <2>8. \A s \in results : outcome'[s] \in {"failed", "interrupted"}
    BY <2>5, <2>6 DEF OwnerInv, TypeOK, Broken
  <2>9. \A v \in Workers : v # w /\ (Busy(v) \/ worker[v].at = "report")
          => outcome'[worker[v].scenario] = outcome[worker[v].scenario]
    BY <2>4, <2>5, WorkerScenario
  <2>10. \A v \in Workers : Busy(v)' =>
           worker'[v].scenario \notin todo' /\ outcome'[worker'[v].scenario] = "none"
    BY <2>1, <2>3, <2>9 DEF OwnerInv, Busy
  <2>11. \A v \in Workers : worker'[v].at = "report" =>
           outcome'[worker'[v].scenario] \in {"failed", "interrupted"} /\ worker'[v].scenario \notin results'
    BY <2>1, <2>3, <2>5, <2>6, <2>9 DEF OwnerInv, Broken
  <2>12. \A v \in Workers : worker'[v].scenario = worker[v].scenario
    BY <2>1, <2>3
  <2> QED BY <2>1, <2>7, <2>8, <2>10, <2>11, <2>12 DEF OwnerInv, Broken
<1>7. ASSUME NEW w \in Workers, Report(w) PROVE OwnerInv'
  <2>1. /\ worker'[w] = Idle
        /\ todo' = todo /\ outcome' = outcome /\ results' = results \cup {worker[w].scenario}
        /\ \A v \in Workers : v # w => worker'[v] = worker[v]
    BY <1>7 DEF Report, TypeOK
  <2>2. \A v \in Workers : v # w => worker[v].scenario # worker[w].scenario
    BY <1>7, Distinct DEF Report
  <2>3. \A v \in Workers : worker'[v].at = "report" => v # w /\ worker[v].at = "report"
    BY <2>1 DEF Idle
  <2>4. \A v \in Workers : Busy(v)' => v # w /\ Busy(v)
    BY <2>1 DEF Idle, Busy
  <2>5. Broken(worker[w].scenario)
    BY <1>7 DEF OwnerInv, Report
  <2> QED BY <2>1, <2>2, <2>3, <2>4, <2>5 DEF OwnerInv, Broken, Idle
<1>8. CASE Finish
  <2>1. todo' = todo /\ worker' = worker /\ outcome' = outcome /\ results' = {}
    BY <1>8 DEF Finish
  <2> QED BY <2>1 DEF OwnerInv, Busy, Broken
<1>9. CASE Setup \/ EnqueueEnds \/ Signal \/ WatchEnds \/ ReportWatcher \/ CancelRun
  BY <1>1, <1>9 DEF Setup, EnqueueEnds, Signal, WatchEnds, ReportWatcher, CancelRun
<1>10. ASSUME NEW p \in ProcessingPods, DeployEnds(p) PROVE OwnerInv'
  BY <1>1, <1>10 DEF DeployEnds
<1>11. CASE UNCHANGED vars
  BY <1>1, <1>11 DEF vars
<1> QED BY <1>2, <1>3, <1>4, <1>5, <1>6, <1>7, <1>8, <1>9, <1>10, <1>11 DEF Next, WorkerStep

LEMMA NothingLostStep ==
    TypeOK /\ StartInv /\ OwnerInv /\ NothingLost /\ CancelInv /\ [Next]_vars => NothingLost'
<1> SUFFICES ASSUME TypeOK, StartInv, OwnerInv, NothingLost, CancelInv, [Next]_vars,
                    main' # "exited"
             PROVE  /\ \A s \in Scenarios \ todo' : outcome'[s] = "none"
                         => \E w \in Workers : Busy(w)' /\ worker'[w].scenario = s
                    /\ \A s \in Scenarios : outcome'[s] \in {"failed", "interrupted"} /\ s \notin results'
                         => \E w \in Workers : worker'[w].at = "report" /\ worker'[w].scenario = s
  BY DEF NothingLost, Broken
<1> DEFINE Goal == /\ \A s \in Scenarios \ todo' : outcome'[s] = "none"
                         => \E w \in Workers : Busy(w)' /\ worker'[w].scenario = s
                   /\ \A s \in Scenarios : outcome'[s] \in {"failed", "interrupted"} /\ s \notin results'
                         => \E w \in Workers : worker'[w].at = "report" /\ worker'[w].scenario = s
<1>1. ASSUME UNCHANGED scenarioVars, main # "exited" PROVE Goal
  BY <1>1 DEF NothingLost, scenarioVars, Busy, Broken
<1>2. CASE DeployReturns
  <2>1. todo' = Scenarios /\ outcome' = outcome /\ results' = results
    BY <1>2 DEF StartInv, DeployReturns
  <2>2. \A s \in Scenarios : outcome'[s] = "none"
    BY <2>1, <1>2 DEF OwnerInv, StartInv, DeployReturns
  <2> QED BY <2>1, <2>2
<1>3. ASSUME NEW w \in Workers, WorkerStep(w) PROVE Goal
  <2>1. main # "exited"
    BY <1>3 DEF WorkerStep, HandOver, WorkerExits, StageSucceeds, StageFails, Report, ctxVars
  <2>2. \A v \in Workers : v # w => worker'[v] = worker[v]
    BY <1>3, OthersKeep
  <2>3. \A v \in Workers : v # w /\ Busy(v) => Busy(v)'
    BY <2>2 DEF Busy
  <2> DEFINE mine == worker[w].scenario
  <2>4. ASSUME \A s \in Scenarios \ todo' : outcome'[s] = "none" /\ s # mine => outcome[s] = "none" /\ s \notin todo,
               \A s \in Scenarios : outcome'[s] \in {"failed", "interrupted"} /\ s \notin results' /\ s # mine
                                     => outcome[s] \in {"failed", "interrupted"} /\ s \notin results,
               mine \in Scenarios \ todo' /\ outcome'[mine] = "none" => Busy(w)' /\ worker'[w].scenario = mine,
               mine \in Scenarios /\ outcome'[mine] \in {"failed", "interrupted"} /\ mine \notin results'
                 => worker'[w].at = "report" /\ worker'[w].scenario = mine
        PROVE  Goal
    <3>1. ASSUME NEW s \in Scenarios \ todo', outcome'[s] = "none"
          PROVE  \E v \in Workers : Busy(v)' /\ worker'[v].scenario = s
      <4>1. CASE s = mine
        BY <2>4, <3>1, <4>1
      <4>2. CASE s # mine
        <5>1. PICK v \in Workers : Busy(v) /\ worker[v].scenario = s
          BY <2>1, <2>4, <3>1, <4>2 DEF NothingLost
        <5> QED BY <2>2, <2>3, <4>2, <5>1
      <4> QED BY <4>1, <4>2
    <3>2. ASSUME NEW s \in Scenarios, outcome'[s] \in {"failed", "interrupted"}, s \notin results'
          PROVE  \E v \in Workers : worker'[v].at = "report" /\ worker'[v].scenario = s
      <4>1. CASE s = mine
        BY <2>4, <3>2, <4>1
      <4>2. CASE s # mine
        <5>1. PICK v \in Workers : worker[v].at = "report" /\ worker[v].scenario = s
          BY <2>1, <2>4, <3>2, <4>2 DEF NothingLost, Broken
        <5> QED BY <2>2, <4>2, <5>1
      <4> QED BY <4>1, <4>2
    <3> QED BY <3>1, <3>2
  <2>5. CASE HandOver(w)
    <3>1. PICK s \in todo : /\ todo' = todo \ {s}
                            /\ worker' = [worker EXCEPT ![w] = [at |-> "load", scenario |-> s]]
      BY <2>5 DEF HandOver
    <3>2. worker'[w] = [at |-> "load", scenario |-> s] /\ Busy(w)'
      BY <3>1 DEF TypeOK, Busy
    <3>3. outcome' = outcome /\ results' = results /\ mine \notin Scenarios
      BY <2>5, WorkerScenario DEF HandOver, Idle
    <3>4. \A x \in Scenarios : outcome'[x] \in {"failed", "interrupted"} /\ x \notin results'
             => \E v \in Workers : worker'[v].at = "report" /\ worker'[v].scenario = x
      <4> SUFFICES ASSUME NEW x \in Scenarios, outcome'[x] \in {"failed", "interrupted"}, x \notin results'
                   PROVE  \E v \in Workers : worker'[v].at = "report" /\ worker'[v].scenario = x
        OBVIOUS
      <4>1. PICK v \in Workers : worker[v].at = "report" /\ worker[v].scenario = x
        BY <2>1, <3>3 DEF NothingLost, Broken
      <4> QED BY <2>2, <3>3, <4>1
    <3>5. ASSUME NEW x \in Scenarios \ todo', outcome'[x] = "none"
          PROVE  \E v \in Workers : Busy(v)' /\ worker'[v].scenario = x
      <4>1. CASE x = s
        BY <3>2, <4>1
      <4>2. CASE x # s
        <5>1. PICK v \in Workers : Busy(v) /\ worker[v].scenario = x
          BY <2>1, <3>1, <3>3, <3>5, <4>2 DEF NothingLost
        <5> QED BY <2>2, <2>3, <3>3, <5>1
      <4> QED BY <4>1, <4>2
    <3> QED BY <3>4, <3>5
  <2>6. CASE WorkerExits(w)
    <3>1. mine \notin Scenarios
      BY <2>6, WorkerScenario DEF WorkerExits, Idle
    <3> QED BY <2>4, <2>6, <3>1 DEF WorkerExits
  <2>7. CASE StageSucceeds(w)
    <3>1. /\ mine \in Scenarios /\ mine \notin todo /\ outcome[mine] = "none"
          /\ todo' = todo /\ results' = results
      BY <2>7, WorkerScenario DEF StageSucceeds, OwnerInv, Busy
    <3>2. CASE worker[w].at \in {"load", "execute"}
               /\ worker' = [worker EXCEPT ![w].at = NextStage(@)] /\ UNCHANGED outcome
      <4>1. worker'[w].scenario = mine /\ worker'[w].at \in {"execute", "analyse"}
        BY <3>2, WorkerScenario DEF TypeOK, NextStage, WorkerStates
      <4> QED BY <2>4, <3>1, <3>2, <4>1 DEF Busy
    <3>3. CASE outcome' = [outcome EXCEPT ![mine] = "completed"]
      <4>1. outcome'[mine] = "completed" /\ \A s \in Scenarios : s # mine => outcome'[s] = outcome[s]
        BY <3>1, <3>3 DEF TypeOK
      <4> QED BY <2>4, <3>1, <4>1
    <3> QED BY <2>7, <3>2, <3>3 DEF StageSucceeds
  <2>8. CASE StageFails(w)
    <3>1. mine \in Scenarios /\ todo' = todo /\ results' = results
      BY <2>8, WorkerScenario DEF StageFails, Busy
    <3>2. /\ outcome'[mine] \in {"failed", "interrupted"}
          /\ \A s \in Scenarios : s # mine => outcome'[s] = outcome[s]
      BY <2>8, <3>1 DEF StageFails, TypeOK
    <3>3. worker'[w].at = "report" /\ worker'[w].scenario = mine
      BY <2>8, WorkerScenario DEF StageFails, TypeOK, WorkerStates
    <3> QED BY <2>4, <3>1, <3>2, <3>3
  <2>9. CASE Report(w)
    <3>1. /\ mine \in results' /\ todo' = todo /\ outcome' = outcome
          /\ results' = results \cup {mine} /\ outcome[mine] \in {"failed", "interrupted"}
      BY <2>9 DEF Report, OwnerInv, Broken
    <3> QED BY <2>4, <3>1
  <2> QED BY <1>3, <2>5, <2>6, <2>7, <2>8, <2>9 DEF WorkerStep
<1>4. CASE Setup \/ EnqueueEnds
  <2>1. todo' = todo /\ UNCHANGED scenarioVars /\ main # "exited"
    BY <1>4 DEF Setup, EnqueueEnds, scenarioVars
  <2> QED BY <1>1, <2>1
<1>5. CASE Signal \/ WatchEnds \/ ReportWatcher \/ CancelRun
  BY <1>1, <1>5 DEF Signal, WatchEnds, ReportWatcher, CancelRun
<1>6. ASSUME NEW p \in ProcessingPods, DeployEnds(p) PROVE Goal
  BY <1>1, <1>6 DEF DeployEnds
<1>7. CASE Finish
  BY <1>7 DEF Finish, Return
<1>8. CASE UNCHANGED vars
  BY <1>1, <1>8 DEF vars
<1> QED BY <1>2, <1>3, <1>4, <1>5, <1>6, <1>7, <1>8 DEF Next

\* A worker step changes nothing the context or the verdict of the run depends on,
\* except that an outcome may become "interrupted" once the run is cancelled.
LEMMA WorkerStepKeeps ==
    ASSUME TypeOK, CancelInv, NEW w \in Workers, WorkerStep(w)
    PROVE  /\ main # "exited" /\ UNCHANGED <<main, errs, ctxVars>>
           /\ main = "wait" => todo' = todo
           /\ \A s \in Scenarios : outcome'[s] = "interrupted" => outcome[s] = "interrupted" \/ cancelled
<1>1. main # "exited" /\ UNCHANGED <<main, errs, ctxVars>> /\ (main = "wait" => todo' = todo)
  BY DEF CancelInv, WorkerStep, HandOver, WorkerExits, StageSucceeds, StageFails, Report, Idle, ctxVars
<1>2. CASE outcome' = outcome
  BY <1>1, <1>2
<1>3. CASE StageSucceeds(w)
  BY <1>1, <1>3 DEF StageSucceeds, TypeOK
<1>4. CASE StageFails(w)
  BY <1>1, <1>4 DEF StageFails, TypeOK
<1> QED BY <1>2, <1>3, <1>4 DEF WorkerStep, HandOver, WorkerExits, Report

LEMMA CancelStep ==
    TypeOK /\ StartInv /\ OwnerInv /\ CancelInv /\ [Next]_vars => CancelInv'
<1> SUFFICES ASSUME TypeOK, StartInv, OwnerInv, CancelInv, [Next]_vars PROVE CancelInv'
  OBVIOUS
<1>1. CASE Setup
  BY <1>1 DEF CancelInv, StartInv, Setup, Return, scenarioVars
<1>2. ASSUME NEW p \in ProcessingPods, DeployEnds(p) PROVE CancelInv'
  BY <1>2 DEF CancelInv, DeployEnds, scenarioVars, ctxVars
<1>3. CASE DeployReturns
  BY <1>3 DEF CancelInv, StartInv, DeployReturns, Return
<1>4. ASSUME NEW w \in Workers, WorkerStep(w) PROVE CancelInv'
  BY <1>4, WorkerStepKeeps DEF CancelInv, ctxVars
<1>5. CASE EnqueueEnds
  BY <1>5 DEF CancelInv, EnqueueEnds, scenarioVars, ctxVars
<1>6. CASE Finish
  BY <1>6 DEF CancelInv, Finish, Return, WorkersGone, Exited
<1>7. CASE Signal \/ WatchEnds \/ ReportWatcher \/ CancelRun
  BY <1>7 DEF CancelInv, Signal, WatchEnds, ReportWatcher, CancelRun, scenarioVars
<1>8. CASE UNCHANGED vars
  BY <1>8 DEF CancelInv, vars, scenarioVars, ctxVars
<1> QED BY <1>1, <1>2, <1>3, <1>4, <1>5, <1>6, <1>7, <1>8 DEF Next

LEMMA ExplainedStep ==
    TypeOK /\ StartInv /\ OwnerInv /\ CancelInv /\ CancellationExplained /\ [Next]_vars
    => CancellationExplained'
<1> SUFFICES ASSUME TypeOK, StartInv, OwnerInv, CancelInv, CancellationExplained, [Next]_vars
             PROVE  CancellationExplained'
  OBVIOUS
<1>1. CASE Setup \/ DeployReturns
  <2>1. CASE main' # "exited"
    BY <2>1 DEF CancellationExplained
  <2>2. CASE main' = "exited"
    <3>1. errs' \in {{"setup"}, {"deploy"}} /\ outcome' = outcome /\ todo = Scenarios
      BY <1>1, <2>2 DEF StartInv, Setup, DeployReturns, Return, scenarioVars
    <3> QED BY <3>1 DEF OwnerInv, CancellationExplained
  <2> QED BY <2>1, <2>2
<1>2. ASSUME NEW w \in Workers, WorkerStep(w) PROVE CancellationExplained'
  BY <1>2, WorkerStepKeeps DEF CancellationExplained
<1>3. CASE EnqueueEnds
  BY <1>3 DEF CancellationExplained, EnqueueEnds
<1>4. CASE Finish
  <2>1. "enqueue" \notin results
    BY OrchestratorAssumption DEF TypeOK
  <2>2. /\ errs' = errs \cup results \cup (IF watcherErr THEN {"watcher"} ELSE {})
        /\ main # "exited" /\ outcome' = outcome /\ shutdown' = shutdown
    BY <1>4 DEF Finish, Return
  <2> QED BY <2>1, <2>2 DEF CancellationExplained, CancelInv
<1>5. CASE Signal \/ WatchEnds \/ ReportWatcher \/ CancelRun
  BY <1>5 DEF CancellationExplained, Signal, WatchEnds, ReportWatcher, CancelRun, scenarioVars
<1>6. ASSUME NEW p \in ProcessingPods, DeployEnds(p) PROVE CancellationExplained'
  BY <1>6 DEF CancellationExplained, DeployEnds, scenarioVars, ctxVars
<1>7. CASE UNCHANGED vars
  BY <1>7 DEF CancellationExplained, vars, scenarioVars, ctxVars
<1> QED BY <1>1, <1>2, <1>3, <1>4, <1>5, <1>6, <1>7 DEF Next

-----------------------------------------------------------------------------
\* The inductive invariant of a run: where the processing pods, the scenarios, their
\* errors and the reason of a cancellation are at each point of run.
THEOREM RunInvariant == Spec => []RunInv
<1>1. RunInv /\ [Next]_vars => RunInv'
  BY TypeStep, StartStep, OwnerStep, NothingLostStep, CancelStep, ExplainedStep DEF RunInv
<1> QED BY <1>1, InvInit, PTL DEF Spec

\* The channel of results has room whenever a worker has an error to report: the
\* errors in it are those of other scenarios.
THEOREM WorkersNeverBlock == Spec => []ReportNeverBlocks
<1>1. RunInv => ReportNeverBlocks
  <2> SUFFICES ASSUME RunInv, NEW w \in Workers, worker[w].at = "report"
               PROVE  Cardinality(results) < ResultsCapacity
    BY DEF ReportNeverBlocks
  <2> DEFINE s == worker[w].scenario
  <2>1. s \in Scenarios /\ s \notin results /\ results \subseteq Scenarios
    BY WorkerScenario DEF RunInv, OwnerInv, TypeOK
  <2>2. IsFiniteSet(Scenarios)
    BY OrchestratorAssumption
  <2>3. /\ IsFiniteSet(Scenarios \ {s})
        /\ Cardinality(Scenarios \ {s}) = Cardinality(Scenarios) - 1
        /\ Cardinality(Scenarios) \in Nat
    BY <2>1, <2>2, FS_RemoveElement, FS_CardinalityType
  <2>4. Cardinality(results) <= Cardinality(Scenarios \ {s}) /\ Cardinality(results) \in Nat
    BY <2>1, <2>3, FS_Subset, FS_CardinalityType
  <2> QED BY <2>3, <2>4 DEF ResultsCapacity
<1> QED BY <1>1, RunInvariant, PTL

\* No scenario is executed or analysed before every processing pod has been deployed
\* and appended to the slice the workers read without the mutex.
THEOREM PodsBeforeScenarios == Spec => []AllPodsDeployedFirst
<1>1. RunInv => AllPodsDeployedFirst
  BY DEF RunInv, StartInv, AllPodsDeployedFirst
<1> QED BY <1>1, RunInvariant, PTL

\* A run that was cut short without a signal names the pod watcher among its errors.
THEOREM CutShortIsExplained == Spec => []CancellationExplained
<1>1. RunInv => CancellationExplained
  BY DEF RunInv
<1> QED BY <1>1, RunInvariant, PTL

-----------------------------------------------------------------------------
LEMMA PoolInit == Init => PoolInv
BY DEF Init, PoolInv

\* A worker leaves the pool only on a cancelled context or a closed channel.
LEMMA PoolStep == TypeOK /\ StartInv /\ PoolInv /\ [Next]_vars => PoolInv'
<1> SUFFICES ASSUME TypeOK, StartInv, PoolInv, [Next]_vars PROVE PoolInv'
  OBVIOUS
<1>1. CASE Setup \/ DeployReturns \/ Finish
  BY <1>1 DEF Setup, DeployReturns, Finish, Return, PoolInv, Idle, scenarioVars
<1>2. CASE EnqueueEnds
  BY <1>2 DEF EnqueueEnds, PoolInv
<1>3. ASSUME NEW w \in Workers, WorkerStep(w) PROVE PoolInv'
  <2>1. UNCHANGED <<main, closed, cancelled>>
    BY <1>3 DEF WorkerStep, HandOver, WorkerExits, StageSucceeds, StageFails, Report, ctxVars
  <2>2. \/ cancelled \/ closed
        \/ /\ worker' = [worker EXCEPT ![w] = worker'[w]]
           /\ worker'[w].at # "exited"
    <3>1. CASE WorkerExits(w)
      BY <3>1 DEF WorkerExits
    <3>2. CASE HandOver(w) \/ Report(w)
      BY <3>2 DEF HandOver, Report, Idle, TypeOK
    <3>3. CASE StageSucceeds(w) \/ StageFails(w)
      BY <3>3 DEF StageSucceeds, StageFails, NextStage, Idle, TypeOK
    <3> QED BY <1>3, <3>1, <3>2, <3>3 DEF WorkerStep
  <2> QED BY <2>1, <2>2 DEF PoolInv, TypeOK
<1>4. ASSUME \/ \E p \in ProcessingPods : DeployEnds(p)
             \/ WatchEnds \/ ReportWatcher \/ Signal \/ CancelRun \/ UNCHANGED vars
      PROVE  PoolInv'
  <2>1. UNCHANGED <<main, closed, worker>> /\ (cancelled => cancelled')
    BY <1>4 DEF DeployEnds, WatchEnds, ReportWatcher, Signal, CancelRun, vars, scenarioVars, ctxVars
  <2> QED BY <2>1 DEF PoolInv
<1> QED BY <1>1, <1>2, <1>3, <1>4 DEF Next

LEMMA PoolInvariant == Spec => []PoolInv
<1>1. RunInv => TypeOK /\ StartInv
  BY DEF RunInv
<1> QED BY <1>1, PoolInit, PoolStep, RunInvariant, PTL DEF Spec

\* With a positive -w there is a worker.
LEMMA SomeWorker == NumberOfWorkers >= 1 => 1 \in Workers
<1>1. IsFiniteSet(Scenarios) /\ Scenarios # {} /\ NumberOfWorkers \in Int
  BY OrchestratorAssumption
<1>2. Cardinality(Scenarios) \in Nat /\ Cardinality(Scenarios) # 0
  BY <1>1, FS_CardinalityType, FS_EmptySet
<1> QED BY <1>1, <1>2 DEF Workers

\* With -w 1 or more a run never comes to a stop in which main and the workers wait for
\* each other: neither on the unbuffered channel, nor on the results, nor in wg.Wait.
THEOREM RunNeverStuck == NumberOfWorkers >= 1 => (Spec => []NeverStuck)
<1> SUFFICES ASSUME NumberOfWorkers >= 1 PROVE Spec => []NeverStuck
  OBVIOUS
<1>1. RunInv /\ PoolInv /\ ReportNeverBlocks => NeverStuck
  <2> SUFFICES ASSUME RunInv, PoolInv, ReportNeverBlocks, main \in {"enqueue", "wait"},
                      ~MainCanStep
               PROVE  \E w \in Workers : WorkerCanStep(w)
    BY DEF NeverStuck
  <2>1. \A w \in Workers : worker[w].at # "none"
    BY DEF RunInv, StartInv
  <2>2. PICK w \in Workers : worker[w].at # "exited"
    <3>1. CASE main = "enqueue"
      BY <3>1, SomeWorker DEF MainCanStep, PoolInv
    <3>2. CASE main = "wait"
      <4>1. \A v \in Workers : worker[v].at = "exited" => worker[v] = Exited
        BY DEF RunInv, TypeOK, Exited
      <4> QED BY <3>2, <4>1 DEF MainCanStep, WorkersGone
    <3> QED BY <3>1, <3>2
  <2>3. CASE worker[w].at = "idle"
    <3>1. worker[w] = Idle
      BY <2>3 DEF RunInv, TypeOK, Idle
    <3> QED BY <3>1 DEF WorkerCanStep, MainCanStep, PoolInv
  <2>4. CASE worker[w].at = "report"
    BY <2>4 DEF WorkerCanStep, ReportNeverBlocks
  <2>5. CASE worker[w].at \in {"load", "execute", "analyse"}
    BY <2>5 DEF WorkerCanStep, Busy
  <2> QED BY <2>1, <2>2, <2>3, <2>4, <2>5 DEF RunInv, TypeOK
<1> QED BY <1>1, RunInvariant, PoolInvariant, WorkersNeverBlock, PTL

\* With -w 0 or less, which nothing in main refuses, no scenario is ever handed over: the
\* run goes past enqueueScenarios only when it is cancelled and never ends with success.
THEOREM NoWorkersNothingRuns == NumberOfWorkers < 1 => (Spec => []NothingRuns)
<1> SUFFICES ASSUME NumberOfWorkers < 1 PROVE Spec => []NothingRuns
  OBVIOUS
<1>0. Workers = {} /\ Scenarios # {}
  <2>1. IsFiniteSet(Scenarios) /\ Scenarios # {} /\ NumberOfWorkers \in Int
    BY OrchestratorAssumption
  <2>2. Cardinality(Scenarios) \in Nat
    BY <2>1, FS_CardinalityType
  <2> QED BY <2>1, <2>2 DEF Workers
<1>1. Init => NothingRuns
  BY DEF Init, NothingRuns
<1>2. NothingRuns /\ [Next]_vars => NothingRuns'
  <2> SUFFICES ASSUME NothingRuns, [Next]_vars PROVE NothingRuns'
    OBVIOUS
  <2>1. CASE Setup \/ DeployReturns
    BY <2>1 DEF Setup, DeployReturns, Return, NothingRuns, scenarioVars
  <2>2. CASE EnqueueEnds
    BY <1>0, <2>2 DEF EnqueueEnds, NothingRuns, scenarioVars, ctxVars
  <2>3. CASE Finish
    BY <2>3 DEF Finish, Return, NothingRuns
  <2>4. ASSUME \/ \E p \in ProcessingPods : DeployEnds(p)
               \/ WatchEnds \/ ReportWatcher \/ Signal \/ CancelRun \/ UNCHANGED vars
        PROVE  NothingRuns'
    BY <2>4 DEF DeployEnds, WatchEnds, ReportWatcher, Signal, CancelRun, vars, scenarioVars,
                ctxVars, NothingRuns
  <2> QED BY <1>0, <2>1, <2>2, <2>3, <2>4 DEF Next
<1> QED BY <1>1, <1>2, PTL DEF Spec

-----------------------------------------------------------------------------
(***************************************************************************)
(* Orchestrator implements Batch.                                          *)
(***************************************************************************)

\* A step that changes neither queue nor outcomes nor the end of run is a stutter.
LEMMA Stutter ==
    ASSUME UNCHANGED <<todo, outcome, main, errs>>
    PROVE  UNCHANGED Run!batchVars
BY DEF Run!batchVars, StatusOf

\* HandOver begins a scenario.
LEMMA HandOverIsBegin ==
    ASSUME RunInv, NEW w \in Workers, HandOver(w)
    PROVE  \E s \in Scenarios : Run!Begin(s)
<1>1. PICK s \in todo : todo' = todo \ {s}
  BY DEF HandOver
<1>2. s \in Scenarios /\ outcome' = outcome /\ main = "enqueue" /\ main' = main
  BY DEF HandOver, RunInv, TypeOK, ctxVars
<1>3. outcome[s] = "none"
  BY DEF RunInv, OwnerInv
<1>4. StatusOf(s) = "pending" /\ StatusOf(s)' = "running"
  BY <1>1, <1>2, <1>3 DEF StatusOf
<1>5. \A x \in Scenarios : x # s => StatusOf(x)' = StatusOf(x)
  BY <1>1, <1>2 DEF StatusOf
<1>6. [x \in Scenarios |-> StatusOf(x)]' = [[x \in Scenarios |-> StatusOf(x)] EXCEPT ![s] = "running"]
  BY <1>2, <1>4, <1>5
<1> QED BY <1>2, <1>4, <1>6 DEF Run!Begin

\* The last stage, or a failure of any, ends it.
LEMMA StageIsEnd ==
    ASSUME RunInv, NEW w \in Workers, StageSucceeds(w) \/ StageFails(w), outcome' # outcome
    PROVE  \E s \in Scenarios : Run!End(s)
<1>1. PICK s \in Scenarios :
        s = worker[w].scenario /\ Busy(w) /\ s \notin todo /\ outcome[s] = "none"
  BY WorkerScenario DEF RunInv, OwnerInv, Busy, StageSucceeds, StageFails
<1>2. \E how \in {"completed", "failed", "interrupted"} : outcome' = [outcome EXCEPT ![s] = how]
  BY <1>1 DEF StageSucceeds, StageFails
<1>3. todo' = todo /\ main' = main /\ main # "exited"
  BY DEF RunInv, CancelInv, StageSucceeds, StageFails, ctxVars
<1>4. StatusOf(s) = "running" /\ StatusOf(s)' \in {"completed", "failed"}
  BY <1>1, <1>2, <1>3 DEF StatusOf, RunInv, TypeOK
<1>5. \A x \in Scenarios : x # s => StatusOf(x)' = StatusOf(x)
  BY <1>1, <1>2, <1>3 DEF StatusOf, RunInv, TypeOK
<1>6. [x \in Scenarios |-> StatusOf(x)]'
      = [[x \in Scenarios |-> StatusOf(x)] EXCEPT ![s] = StatusOf(s)']
  BY <1>1, <1>4, <1>5
<1> QED BY <1>1, <1>3, <1>4, <1>6 DEF Run!End

\* Before a scenario is handed over none has a status but "pending".
LEMMA NothingBegun ==
    ASSUME RunInv, main \in {"setup", "deploy"}, NEW s \in Scenarios
    PROVE  StatusOf(s) = "pending"
BY DEF RunInv, StartInv, OwnerInv, StatusOf

\* A return before the workers start concludes the batch as a failure.
LEMMA EarlyReturnIsConclude ==
    ASSUME RunInv, Setup \/ DeployReturns, main' = "exited"
    PROVE  Run!Conclude
<1>1. /\ errs' \in {{"setup"}, {"deploy"}} /\ main \in {"setup", "deploy"}
      /\ UNCHANGED <<outcome, todo>>
  BY DEF Setup, DeployReturns, Return, scenarioVars
<1>2. errs' # {} /\ errs' \cap Scenarios = {}
  BY <1>1, OrchestratorAssumption
<1>3. {s \in Scenarios : [x \in Scenarios |-> StatusOf(x)][s] = "failed"} = {}
      /\ \A s \in Scenarios : [x \in Scenarios |-> StatusOf(x)][s] # "running"
  BY <1>1, NothingBegun
<1>4. [x \in Scenarios |-> StatusOf(x)]' = [x \in Scenarios |-> StatusOf(x)]
  BY <1>1 DEF StatusOf
<1> QED BY <1>1, <1>2, <1>3, <1>4 DEF Run!Conclude

\* The normal end: no scenario runs, the errors joined are those of the failed ones,
\* and there are none only if every scenario was handed over and completed.
LEMMA FinishIsConclude ==
    ASSUME RunInv, Finish
    PROVE  Run!Conclude
<1>1. /\ main = "wait" /\ main' = "exited" /\ UNCHANGED <<outcome, todo>>
      /\ errs' = errs \cup results \cup (IF watcherErr THEN {"watcher"} ELSE {})
      /\ errs = IF todo = {} THEN {} ELSE {"enqueue"}
  BY DEF Finish, Return, RunInv, CancelInv
<1>2. \A w \in Workers : ~Busy(w) /\ worker[w].at # "report"
  BY DEF Finish, WorkersGone, Exited, Busy
<1>3. \A s \in Scenarios \ todo : outcome[s] # "none"
  BY <1>1, <1>2 DEF RunInv, NothingLost
<1>4. \A s \in Scenarios : outcome[s] \in {"failed", "interrupted"} <=> s \in results
  BY <1>1, <1>2 DEF RunInv, NothingLost, OwnerInv, Broken
<1>5. \A s \in Scenarios : StatusOf(s) # "running"
  BY <1>3 DEF StatusOf
<1>6. \A s \in Scenarios : StatusOf(s) = "failed" <=> s \in results
  BY <1>4 DEF StatusOf, RunInv, TypeOK
<1>7. errs' \cap Scenarios = results
  BY <1>1, OrchestratorAssumption DEF RunInv, TypeOK
<1>8. errs' = {} => \A s \in Scenarios : StatusOf(s) = "completed"
  <2> SUFFICES ASSUME errs' = {}, NEW s \in Scenarios PROVE StatusOf(s) = "completed"
    OBVIOUS
  <2>1. todo = {} /\ results = {}
    BY <1>1
  <2> QED BY <1>3, <1>4, <2>1 DEF StatusOf, RunInv, TypeOK
<1>9. [x \in Scenarios |-> StatusOf(x)]' = [x \in Scenarios |-> StatusOf(x)]
  BY <1>1 DEF StatusOf
<1>10. {s \in Scenarios : [x \in Scenarios |-> StatusOf(x)][s] = "failed"} = results
  BY <1>6 DEF RunInv, TypeOK
<1> QED BY <1>1, <1>5, <1>7, <1>8, <1>9, <1>10 DEF Run!Conclude

LEMMA RefineInit == Init => Run!BatchInit
BY DEF Init, Run!BatchInit, StatusOf

LEMMA RefineStep == RunInv /\ [Next]_vars => [Run!BatchNext]_(Run!batchVars)
<1> SUFFICES ASSUME RunInv, [Next]_vars
             PROVE  Run!BatchNext \/ UNCHANGED Run!batchVars
  OBVIOUS
<1>1. CASE Setup \/ DeployReturns
  <2>1. CASE main' = "exited"
    BY <1>1, <2>1, EarlyReturnIsConclude DEF Run!BatchNext
  <2>2. CASE main' # "exited"
    <3>1. UNCHANGED <<todo, outcome>> /\ main # "exited"
      BY <1>1 DEF Setup, DeployReturns, scenarioVars
    <3>2. [x \in Scenarios |-> StatusOf(x)]' = [x \in Scenarios |-> StatusOf(x)]
      BY <3>1 DEF StatusOf
    <3> QED BY <2>2, <3>1, <3>2 DEF Run!batchVars
  <2> QED BY <2>1, <2>2
<1>2. ASSUME NEW w \in Workers, HandOver(w) PROVE Run!BatchNext
  BY <1>2, HandOverIsBegin DEF Run!BatchNext
<1>3. ASSUME NEW w \in Workers, StageSucceeds(w) \/ StageFails(w)
      PROVE  Run!BatchNext \/ UNCHANGED Run!batchVars
  <2>1. CASE outcome' = outcome
    <3>1. UNCHANGED <<todo, outcome, main, errs>>
      BY <1>3, <2>1 DEF StageSucceeds, StageFails, ctxVars
    <3> QED BY <3>1, Stutter
  <2>2. CASE outcome' # outcome
    BY <1>3, <2>2, StageIsEnd DEF Run!BatchNext
  <2> QED BY <2>1, <2>2
<1>4. ASSUME NEW w \in Workers, WorkerExits(w) \/ Report(w) PROVE UNCHANGED Run!batchVars
  BY <1>4, Stutter DEF WorkerExits, Report, ctxVars
<1>5. CASE EnqueueEnds
  <2>1. UNCHANGED <<todo, outcome>> /\ main # "exited" /\ main' # "exited"
    BY <1>5 DEF EnqueueEnds, scenarioVars
  <2>2. [x \in Scenarios |-> StatusOf(x)]' = [x \in Scenarios |-> StatusOf(x)]
    BY <2>1 DEF StatusOf
  <2> QED BY <2>1, <2>2 DEF Run!batchVars
<1>6. CASE Finish
  BY <1>6, FinishIsConclude DEF Run!BatchNext
<1>7. CASE Signal \/ WatchEnds \/ ReportWatcher \/ CancelRun
  BY <1>7, Stutter DEF Signal, WatchEnds, ReportWatcher, CancelRun, scenarioVars
<1>8. ASSUME NEW p \in ProcessingPods, DeployEnds(p) PROVE UNCHANGED Run!batchVars
  BY <1>8, Stutter DEF DeployEnds, scenarioVars
<1>9. CASE UNCHANGED vars
  BY <1>9, Stutter DEF vars, scenarioVars
<1> QED BY <1>1, <1>2, <1>3, <1>4, <1>5, <1>6, <1>7, <1>8, <1>9 DEF Next, WorkerStep

\* The workers, the channel and the cancelling goroutine keep the promise of Batch:
\* each scenario at most once, success only when all are completed, and a final error
\* that names exactly the scenarios that failed.
THEOREM OrchestratorImplementsBatch == Spec => ImplementsBatch
BY RefineInit, RefineStep, RunInvariant, PTL DEF Spec, ImplementsBatch, Run!BatchSpec

-----------------------------------------------------------------------------
LEMMA ExitShows ==
    ASSUME RunInv, [Next]_vars, main # "exited", main' = "exited", cancelled, ~shutdown
    PROVE  "watcher" \in errs' \/ (main \in {"setup", "deploy"} /\ errs' # {})
<1>1. Setup \/ DeployReturns \/ Finish
  BY DEF Next, EnqueueEnds, DeployEnds, WorkerStep, HandOver, WorkerExits, StageSucceeds, StageFails,
         Report, Signal, WatchEnds, ReportWatcher, CancelRun, vars, ctxVars
<1>2. CASE Setup \/ DeployReturns
  BY <1>2 DEF Setup, DeployReturns, Return
<1>3. CASE Finish
  BY <1>3 DEF RunInv, CancelInv, Finish, Return
<1> QED BY <1>1, <1>2, <1>3

\* A run cancelled by the failed watch does not end as a success: watcherErr is put
\* into the channel before the cancellation and main looks for it after the workers.
THEOREM FailedWatchIsShown == Spec => FailedWatchShows
<1>1. RunInv /\ [Next]_vars
      => [main # "exited" /\ main' = "exited" /\ cancelled /\ ~shutdown
          => "watcher" \in errs' \/ (main \in {"setup", "deploy"} /\ errs' # {})]_vars
  BY ExitShows
<1> QED BY <1>1, RunInvariant, PTL DEF Spec, FailedWatchShows

-----------------------------------------------------------------------------
(***************************************************************************)
(* A cancelled run leaves no goroutine behind.  That the steps fairness    *)
(* speaks of can happen is the hypothesis GoroutinesGoOn, which TLC checks *)
(* with the run.                                                           *)
(***************************************************************************)

\* Where a worker of a cancelled run can be while main waits for it.
Winding == main = "wait" /\ cancelled
Left(w) == worker[w] = Exited
Place(w, at) == Winding /\ worker[w].at = at

LEMMA CancelledStays == TypeOK /\ cancelled /\ [Next]_vars => cancelled'
BY DEF Next, MainStep, Setup, DeployReturns, Return, EnqueueEnds, Finish, DeployEnds, WorkerStep,
       HandOver, WorkerExits, StageSucceeds, StageFails, Report, Signal, WatchEnds, ReportWatcher,
       CancelRun, vars, ctxVars

\* A worker moves by its own steps only, once the workers have been started.
LEMMA OnlyWorkerMoves ==
    ASSUME TypeOK, [Next]_vars, main \in {"enqueue", "wait"}, NEW w \in Workers
    PROVE  worker'[w] = worker[w] \/ WorkerStep(w)
<1>1. ASSUME NEW v \in Workers, WorkerStep(v), v # w PROVE worker'[w] = worker[w]
  BY <1>1 DEF TypeOK, WorkerStep, HandOver, WorkerExits, StageSucceeds, StageFails, Report
<1>2. CASE UNCHANGED worker
  BY <1>2
<1>3. ASSUME \/ \E p \in ProcessingPods : DeployEnds(p)
             \/ EnqueueEnds \/ Finish \/ Signal \/ WatchEnds \/ ReportWatcher \/ CancelRun
             \/ UNCHANGED vars
      PROVE  UNCHANGED worker
  BY <1>3 DEF DeployEnds, EnqueueEnds, Finish, Signal, WatchEnds, ReportWatcher, CancelRun, vars,
              scenarioVars
<1>4. ~Setup /\ ~DeployReturns
  BY DEF Setup, DeployReturns
<1> QED BY <1>1, <1>2, <1>3, <1>4 DEF Next

\* The moves of main under a cancelled context.
LEMMA MainMoves ==
    ASSUME TypeOK, [Next]_vars
    PROVE  /\ main = "enqueue" => main' \in {"enqueue", "wait"}
           /\ main = "enqueue" /\ MainStep => main' = "wait"
           /\ main = "wait" => main' = "wait" \/ (WorkersGone /\ UNCHANGED worker)
<1>1. MainStep \/ UNCHANGED main
  BY DEF Next, MainStep, DeployEnds, WorkerStep, HandOver, WorkerExits, StageSucceeds, StageFails,
         Report, Signal, WatchEnds, ReportWatcher, CancelRun, vars
<1>2. MainStep => \/ main = "setup" \/ main = "deploy"
                  \/ main = "enqueue" /\ main' = "wait"
                  \/ main = "wait" /\ WorkersGone /\ UNCHANGED worker
  BY DEF MainStep, Setup, DeployReturns, EnqueueEnds, Finish
<1> QED BY <1>1, <1>2

\* A worker that has ended has ended for good.
LEMMA LeftStays ==
    ASSUME NEW w \in Workers
    PROVE  TypeOK /\ main \in {"enqueue", "wait"} /\ Left(w) /\ [Next]_vars => Left(w)'
BY OnlyWorkerMoves
   DEF Left, WorkerStep, HandOver, WorkerExits, StageSucceeds, StageFails, Report, Idle, Exited

\* While main waits nothing is handed over, so a worker goes through the stages of the
\* scenario it has, one way, and reports or not.
LEMMA WorkerMoves ==
    ASSUME TypeOK, main = "wait", NEW w \in Workers, WorkerStep(w)
    PROVE  \/ worker[w].at = "load" /\ worker'[w].at \in {"execute", "report"}
           \/ worker[w].at = "execute" /\ worker'[w].at \in {"analyse", "report"}
           \/ worker[w].at = "analyse" /\ worker'[w].at \in {"idle", "report"}
           \/ worker[w].at = "report" /\ worker'[w].at = "idle"
           \/ worker[w].at = "idle" /\ Left(w)'
<1>1. CASE StageSucceeds(w) \/ StageFails(w)
  BY <1>1 DEF StageSucceeds, StageFails, NextStage, Idle, TypeOK
<1>2. CASE WorkerExits(w) \/ Report(w)
  BY <1>2 DEF WorkerExits, Report, Idle, Left, TypeOK
<1>3. ~HandOver(w)
  BY DEF HandOver
<1> QED BY <1>1, <1>2, <1>3 DEF WorkerStep

\* enqueueScenarios sees the cancellation, whichever scenarios are still to be sent.
LEMMA EnqueueStops ==
    FairSpec /\ []GoroutinesGoOn => (main = "enqueue" /\ cancelled ~> Winding)
<1> DEFINE Enqueuing == main = "enqueue" /\ cancelled
<1>1. TypeOK /\ Enqueuing /\ [Next]_vars => (Enqueuing \/ Winding)'
  BY MainMoves, CancelledStays DEF Winding
<1>2. TypeOK /\ Enqueuing /\ [Next]_vars /\ <<MainStep>>_vars => Winding'
  BY MainMoves, CancelledStays DEF Winding
<1>3. GoroutinesGoOn => (Enqueuing => ENABLED <<MainStep>>_vars)
  BY DEF GoroutinesGoOn, MainCanStep
<1>4. Fairness => MainFairness
  BY DEF Fairness
<1> HIDE DEF Enqueuing
<1>5. FairSpec /\ []GoroutinesGoOn => (Enqueuing ~> Winding)
  BY <1>1, <1>2, <1>3, <1>4, TypeCorrect, PTL DEF FairSpec, Spec, MainFairness
<1> QED BY <1>5 DEF Enqueuing

\* main waits on while a worker has not ended.
LEMMA WindingStep ==
    ASSUME TypeOK, [Next]_vars, Winding, NEW w \in Workers, worker[w].at # "exited"
    PROVE  Winding' /\ (worker'[w] = worker[w] \/ WorkerStep(w))
<1>1. ~WorkersGone
  BY DEF WorkersGone, Exited
<1>2. main' = "wait"
  BY <1>1, MainMoves DEF Winding
<1> QED BY <1>2, CancelledStays, OnlyWorkerMoves DEF Winding

\* The stages of a scenario return once the run is cancelled.
LEMMA StagesStop ==
    ASSUME NEW w \in Workers
    PROVE  FairSpec /\ []GoroutinesGoOn
           => /\ Place(w, "load") ~> Place(w, "execute") \/ Place(w, "report")
              /\ Place(w, "execute") ~> Place(w, "analyse") \/ Place(w, "report")
              /\ Place(w, "analyse") ~> Place(w, "idle") \/ Place(w, "report")
<1>1. Fairness => WorkerFairness(w)
  BY DEF Fairness
<1>2. /\ TypeOK /\ [Next]_vars /\ Place(w, "load")
         => (Place(w, "load") \/ Place(w, "execute") \/ Place(w, "report"))'
      /\ TypeOK /\ [Next]_vars /\ Place(w, "execute")
         => (Place(w, "execute") \/ Place(w, "analyse") \/ Place(w, "report"))'
      /\ TypeOK /\ [Next]_vars /\ Place(w, "analyse")
         => (Place(w, "analyse") \/ Place(w, "idle") \/ Place(w, "report"))'
  BY WindingStep, WorkerMoves DEF Place, Winding
<1>3. TypeOK /\ StageStops(w) => worker'[w].at # worker[w].at
  BY DEF StageStops, StageSucceeds, StageFails, NextStage, Idle, TypeOK
<1>4. /\ TypeOK /\ [Next]_vars /\ Place(w, "load") /\ <<StageStops(w)>>_vars
         => (Place(w, "execute") \/ Place(w, "report"))'
      /\ TypeOK /\ [Next]_vars /\ Place(w, "execute") /\ <<StageStops(w)>>_vars
         => (Place(w, "analyse") \/ Place(w, "report"))'
      /\ TypeOK /\ [Next]_vars /\ Place(w, "analyse") /\ <<StageStops(w)>>_vars
         => (Place(w, "idle") \/ Place(w, "report"))'
  BY <1>2, <1>3 DEF Place
<1>5. GoroutinesGoOn
      => /\ Place(w, "load") => ENABLED <<StageStops(w)>>_vars
         /\ Place(w, "execute") => ENABLED <<StageStops(w)>>_vars
         /\ Place(w, "analyse") => ENABLED <<StageStops(w)>>_vars
  BY DEF GoroutinesGoOn, WorkerGoesOn, Place, Winding, Busy
<1>6. FairSpec /\ []GoroutinesGoOn
      => (Place(w, "load") ~> Place(w, "execute") \/ Place(w, "report"))
  BY <1>1, <1>2, <1>4, <1>5, TypeCorrect, PTL DEF FairSpec, Spec, WorkerFairness
<1>7. FairSpec /\ []GoroutinesGoOn
      => (Place(w, "execute") ~> Place(w, "analyse") \/ Place(w, "report"))
  BY <1>1, <1>2, <1>4, <1>5, TypeCorrect, PTL DEF FairSpec, Spec, WorkerFairness
<1>8. FairSpec /\ []GoroutinesGoOn
      => (Place(w, "analyse") ~> Place(w, "idle") \/ Place(w, "report"))
  BY <1>1, <1>2, <1>4, <1>5, TypeCorrect, PTL DEF FairSpec, Spec, WorkerFairness
<1> QED BY <1>6, <1>7, <1>8

\* The error finds room in the results, and an idle worker sees the cancellation.
LEMMA IdleStops ==
    ASSUME NEW w \in Workers
    PROVE  FairSpec /\ []GoroutinesGoOn
           => /\ Place(w, "report") ~> Place(w, "idle")
              /\ Place(w, "idle") ~> Left(w)
<1>1. Fairness => WorkerFairness(w)
  BY DEF Fairness
<1>2. /\ TypeOK /\ [Next]_vars /\ Place(w, "report") => (Place(w, "report") \/ Place(w, "idle"))'
      /\ TypeOK /\ [Next]_vars /\ Place(w, "idle") => (Place(w, "idle") \/ Left(w))'
  BY WindingStep, WorkerMoves DEF Place, Winding
<1>3. TypeOK /\ Place(w, "report") /\ ChannelStep(w) => worker'[w].at # "report"
  BY DEF Place, ChannelStep, HandOver, WorkerExits, Report, Idle, Exited, TypeOK
<1>4. TypeOK /\ [Next]_vars /\ Place(w, "report") /\ <<ChannelStep(w)>>_vars => Place(w, "idle")'
  BY <1>2, <1>3 DEF Place
<1>5. TypeOK /\ Place(w, "idle") /\ <<WorkerExits(w)>>_vars => Left(w)'
  BY DEF WorkerExits, Left, TypeOK
<1>6. GoroutinesGoOn => (Place(w, "report") => ENABLED <<ChannelStep(w)>>_vars)
  BY DEF GoroutinesGoOn, WorkerGoesOn, Place
<1>7. TypeOK /\ Place(w, "idle") => cancelled /\ worker[w] = Idle
  BY DEF Place, Winding, TypeOK, Idle
<1>8. TypeOK /\ GoroutinesGoOn => (Place(w, "idle") => ENABLED <<WorkerExits(w)>>_vars)
  BY <1>7 DEF GoroutinesGoOn, WorkerGoesOn
<1>9. FairSpec /\ []GoroutinesGoOn => (Place(w, "report") ~> Place(w, "idle"))
  BY <1>1, <1>2, <1>4, <1>6, TypeCorrect, PTL DEF FairSpec, Spec, WorkerFairness
<1>10. FairSpec /\ []GoroutinesGoOn => (Place(w, "idle") ~> Left(w))
  BY <1>1, <1>2, <1>5, <1>8, TypeCorrect, PTL DEF FairSpec, Spec, WorkerFairness
<1> QED BY <1>9, <1>10

LEMMA OneWorkerStops ==
    ASSUME NEW w \in Workers
    PROVE  FairSpec /\ []GoroutinesGoOn => WorkerStops(w)
<1>1. RunInv => (Winding => \/ Place(w, "load") \/ Place(w, "execute") \/ Place(w, "analyse")
                            \/ Place(w, "report") \/ Place(w, "idle") \/ Left(w))
  <2>1. TypeOK => \/ worker[w].at \in {"none", "load", "execute", "analyse", "report", "idle"}
                  \/ worker[w] = Exited
    BY DEF TypeOK, Exited
  <2>2. RunInv /\ Winding => TypeOK /\ worker[w].at # "none"
    BY DEF RunInv, StartInv, Winding
  <2> QED BY <2>1, <2>2 DEF Place, Left
<1>2. FairSpec => []RunInv
  BY RunInvariant, PTL DEF FairSpec
<1>3. FairSpec /\ []GoroutinesGoOn => (Winding ~> Left(w))
  BY <1>1, <1>2, StagesStop, IdleStops, PTL
<1>4. (cancelled /\ main \in {"enqueue", "wait"}) <=> (main = "enqueue" /\ cancelled) \/ Winding
  BY DEF Winding
<1>5. FairSpec /\ []GoroutinesGoOn
      => ((cancelled /\ main \in {"enqueue", "wait"}) ~> Left(w))
  BY <1>3, <1>4, EnqueueStops, PTL
<1> QED BY <1>5 DEF WorkerStops, Left

\* Every worker of a cancelled run ends, however many there are, whatever its scenario
\* waits for and however many scenarios are still to be handed over.
THEOREM WorkersStop == FairSpec /\ []GoroutinesGoOn => \A w \in Workers : WorkerStops(w)
<1>1. ASSUME NEW w \in Workers PROVE FairSpec /\ []GoroutinesGoOn => WorkerStops(w)
  BY OneWorkerStops
<1> QED BY <1>1

\* Every deployment of a processing pod ends once the run is cancelled.
THEOREM DeploymentsStop ==
    FairSpec /\ []GoroutinesGoOn => \A p \in ProcessingPods : DeploymentStops(p)
<1>1. ASSUME NEW p \in ProcessingPods
      PROVE  FairSpec /\ []GoroutinesGoOn => DeploymentStops(p)
  <2> DEFINE Running == cancelled /\ deploy[p] = "running"
             Ended == deploy[p] # "running"
  <2>1. TypeOK /\ Running /\ [Next]_vars => (Running \/ Ended)'
    BY CancelledStays
  <2>2. TypeOK /\ Running /\ <<DeployStops(p)>>_vars => Ended'
    BY DEF DeployStops, DeployEnds, TypeOK
  <2>3. GoroutinesGoOn => (Running => ENABLED <<DeployStops(p)>>_vars)
    BY DEF GoroutinesGoOn
  <2>4. Fairness => DeployFairness(p)
    BY DEF Fairness
  <2> HIDE DEF Running, Ended
  <2>5. FairSpec /\ []GoroutinesGoOn => (Running ~> Ended)
    BY <2>1, <2>2, <2>3, <2>4, TypeCorrect, PTL DEF FairSpec, Spec, DeployFairness
  <2> QED BY <2>5 DEF DeploymentStops, Running, Ended
<1> QED BY <1>1
-----------------------------------------------------------------------------
(***************************************************************************)
(* The cancelled run itself exits.  main waits for all goroutines of a     *)
(* wg.Wait, and that all have ended for good once each has is a fact of    *)
(* finite sets: by induction on their size, a goroutine at a time, which   *)
(* these provers cannot do on temporal formulas.  The theorems below state *)
(* the instance they need as a hypothesis, a Law; it restricts no          *)
(* behaviour of a run with finitely many processing pods and workers.      *)
(***************************************************************************)
DeployedForGood(p) == <>[](deploy[p] # "running")
DeployLaw == (\A p \in ProcessingPods : DeployedForGood(p)) => <>[]AllDeploysEnded

LeftForGood(w) == <>[]Left(w)
WorkersLaw == (\A w \in Workers : LeftForGood(w)) => <>[]WorkersGone

\* Where main is; Exit is for good, and the others come one after the other.
At(p) == main = p
Exit == main = "exited"

LEMMA MainPhases ==
    TypeOK /\ [Next]_vars
    => /\ At("setup") \/ At("deploy") \/ At("enqueue") \/ At("wait") \/ Exit
       /\ At("setup") => (At("setup") \/ At("deploy") \/ Exit)'
       /\ At("deploy") => (At("deploy") \/ At("enqueue") \/ Exit)'
       /\ At("enqueue") => (At("enqueue") \/ At("wait"))'
       /\ At("wait") => (At("wait") \/ Exit)'
       /\ Exit => Exit'
<1> SUFFICES ASSUME TypeOK, [Next]_vars
             PROVE  /\ main \in {"setup", "deploy", "enqueue", "wait", "exited"}
                    /\ main = "setup" => main' \in {"setup", "deploy", "exited"}
                    /\ main = "deploy" => main' \in {"deploy", "enqueue", "exited"}
                    /\ main = "enqueue" => main' \in {"enqueue", "wait"}
                    /\ main = "wait" => main' \in {"wait", "exited"}
                    /\ main = "exited" => main' = "exited"
  BY DEF At, Exit
<1>1. MainStep \/ UNCHANGED main
  BY DEF Next, MainStep, DeployEnds, WorkerStep, HandOver, WorkerExits, StageSucceeds, StageFails,
         Report, Signal, WatchEnds, ReportWatcher, CancelRun, vars
<1> QED BY <1>1 DEF TypeOK, MainStep, Setup, DeployReturns, EnqueueEnds, Finish, Return

\* A step of main ends the phase it is in.
LEMMA MainStepLeaves ==
    ASSUME NEW p \in {"setup", "deploy", "wait"}
    PROVE  At(p) /\ <<MainStep>>_vars => ~At(p)'
BY DEF At, MainStep, Setup, DeployReturns, EnqueueEnds, Finish, Return

LEMMA SetupEnds == FairSpec /\ []GoroutinesGoOn => (At("setup") ~> ~At("setup"))
<1>1. At("setup") /\ <<MainStep>>_vars => ~At("setup")'
  BY MainStepLeaves
<1>2. GoroutinesGoOn => (At("setup") => ENABLED <<MainStep>>_vars)
  BY DEF GoroutinesGoOn, At
<1>3. Fairness => MainFairness
  BY DEF Fairness
<1> QED BY <1>1, <1>2, <1>3, PTL DEF FairSpec, Spec, MainFairness

\* No goroutine of the deployments is begun anew.
LEMMA DeployedStays ==
    ASSUME TypeOK, [Next]_vars, At("deploy"), NEW p \in ProcessingPods, deploy[p] # "running"
    PROVE  deploy'[p] # "running"
<1>1. ASSUME NEW q \in ProcessingPods, DeployEnds(q) PROVE deploy'[p] # "running"
  BY <1>1 DEF DeployEnds, TypeOK
<1>2. ~Setup
  BY DEF Setup, At
<1> QED BY <1>1, <1>2
    DEF Next, DeployReturns, EnqueueEnds, Finish, WorkerStep, HandOver, WorkerExits,
        StageSucceeds, StageFails, Report, Signal, WatchEnds, ReportWatcher, CancelRun, vars

LEMMA OneDeployed ==
    ASSUME NEW p \in ProcessingPods
    PROVE  FairSpec /\ []GoroutinesGoOn /\ <>[](At("deploy") /\ cancelled) => DeployedForGood(p)
<1> DEFINE Running == deploy[p] = "running"
           Ended == deploy[p] # "running"
<1>0. Running \/ Ended
  OBVIOUS
<1>1. FairSpec /\ []GoroutinesGoOn => DeploymentStops(p)
  BY DeploymentsStop
<1>2. FairSpec /\ []GoroutinesGoOn => (cancelled /\ Running ~> Ended)
  BY <1>1 DEF DeploymentStops
<1>3. TypeOK /\ [Next]_vars /\ At("deploy") /\ Ended => Ended'
  BY DeployedStays
<1> HIDE DEF Running, Ended
<1>4. FairSpec /\ []GoroutinesGoOn /\ <>[](At("deploy") /\ cancelled) => <>[]Ended
  BY <1>0, <1>2, <1>3, TypeCorrect, PTL DEF FairSpec, Spec
<1> QED BY <1>4 DEF DeployedForGood, Ended

LEMMA DeployEnded ==
    FairSpec /\ []GoroutinesGoOn /\ <>[]At("deploy") /\ <>[]AllDeploysEnded => FALSE
<1>1. At("deploy") /\ <<MainStep>>_vars => ~At("deploy")'
  BY MainStepLeaves
<1>2. GoroutinesGoOn => (At("deploy") /\ AllDeploysEnded => ENABLED <<MainStep>>_vars)
  BY DEF GoroutinesGoOn, At
<1>3. Fairness => MainFairness
  BY DEF Fairness
<1> QED BY <1>1, <1>2, <1>3, PTL DEF FairSpec, Spec, MainFairness

LEMMA DeployReturnsCancelled ==
    FairSpec /\ []GoroutinesGoOn /\ DeployLaw => ~<>[](At("deploy") /\ cancelled)
<1>1. ASSUME NEW p \in ProcessingPods
      PROVE  FairSpec /\ []GoroutinesGoOn /\ <>[](At("deploy") /\ cancelled) => DeployedForGood(p)
  BY OneDeployed
<1>2. FairSpec /\ []GoroutinesGoOn /\ <>[](At("deploy") /\ cancelled)
      => \A p \in ProcessingPods : DeployedForGood(p)
  BY <1>1
<1>3. FairSpec /\ []GoroutinesGoOn /\ DeployLaw /\ <>[](At("deploy") /\ cancelled)
      => <>[]AllDeploysEnded
  BY <1>2 DEF DeployLaw
<1> QED BY <1>3, DeployEnded, PTL

LEMMA WaitEnds ==
    FairSpec /\ []GoroutinesGoOn /\ <>[]At("wait") /\ <>[]WorkersGone => FALSE
<1>1. At("wait") /\ <<MainStep>>_vars => ~At("wait")'
  BY MainStepLeaves
<1>2. GoroutinesGoOn => (At("wait") /\ WorkersGone => ENABLED <<MainStep>>_vars)
  BY DEF GoroutinesGoOn, MainCanStep, At
<1>3. Fairness => MainFairness
  BY DEF Fairness
<1> QED BY <1>1, <1>2, <1>3, PTL DEF FairSpec, Spec, MainFairness

LEMMA FinishesCancelled ==
    FairSpec /\ []GoroutinesGoOn /\ WorkersLaw => ~<>[](At("wait") /\ cancelled)
<1>1. ASSUME NEW w \in Workers
      PROVE  FairSpec /\ []GoroutinesGoOn /\ <>[](At("wait") /\ cancelled) => LeftForGood(w)
  <2> DEFINE Waiting == main \in {"enqueue", "wait"}
  <2>1. FairSpec /\ []GoroutinesGoOn => (cancelled /\ Waiting ~> Left(w))
    BY OneWorkerStops DEF WorkerStops, Left
  <2>2. At("wait") => Waiting
    BY DEF At
  <2>3. TypeOK /\ Waiting /\ Left(w) /\ [Next]_vars => Left(w)'
    BY LeftStays
  <2> HIDE DEF Waiting
  <2>4. FairSpec /\ []GoroutinesGoOn /\ <>[](At("wait") /\ cancelled) => <>[]Left(w)
    BY <2>1, <2>2, <2>3, TypeCorrect, PTL DEF FairSpec, Spec
  <2> QED BY <2>4 DEF LeftForGood
<1>2. FairSpec /\ []GoroutinesGoOn /\ <>[](At("wait") /\ cancelled)
      => \A w \in Workers : LeftForGood(w)
  BY <1>1
<1>3. FairSpec /\ []GoroutinesGoOn /\ WorkersLaw /\ <>[](At("wait") /\ cancelled)
      => <>[]WorkersGone
  BY <1>2 DEF WorkersLaw
<1> QED BY <1>3, WaitEnds, PTL

\* The goroutine that reads WatchErrors cancels the run.
LEMMA FailedWatchCancels ==
    FairSpec /\ []GoroutinesGoOn => (watcher \in {"failed", "reported"} ~> cancelled)
<1> DEFINE Failed == watcher = "failed"
           Reported == watcher = "reported"
           Bad == watcher \in {"failed", "reported"}
<1>1. /\ [Next]_vars /\ Failed => (Failed \/ Reported)'
      /\ [Next]_vars /\ Reported => (Reported \/ cancelled)'
  BY DEF Next, Setup, DeployReturns, Return, EnqueueEnds, Finish, DeployEnds, WorkerStep,
         HandOver, WorkerExits, StageSucceeds, StageFails, Report, Signal, WatchEnds, ReportWatcher,
         CancelRun, vars, ctxVars
<1>2. /\ <<WatcherStep>>_vars /\ Failed => Reported'
      /\ <<WatcherStep>>_vars /\ Reported => cancelled'
  BY DEF WatcherStep, ReportWatcher, CancelRun
<1>3. GoroutinesGoOn => (Bad => ENABLED <<WatcherStep>>_vars)
  BY DEF GoroutinesGoOn
<1>4. Bad <=> Failed \/ Reported
  OBVIOUS
<1>5. Fairness => MainFairness
  BY DEF Fairness
<1> HIDE DEF Failed, Reported, Bad
<1>6. FairSpec /\ []GoroutinesGoOn => (Bad ~> cancelled)
  BY <1>1, <1>2, <1>3, <1>4, <1>5, PTL DEF FairSpec, Spec, MainFairness
<1> QED BY <1>6 DEF Bad

\* A signal or a failed watch ends the run at whatever it is, for any number of
\* processing pods, scenarios and workers: cancelled, main leaves one phase after the other.
THEOREM CancelledRunEnds ==
    FairSpec /\ []GoroutinesGoOn /\ DeployLaw /\ WorkersLaw => CancelledRunExits
<1>1. At("enqueue") /\ cancelled => main = "enqueue" /\ cancelled
  BY DEF At
<1>2. Winding => At("wait")
  BY DEF Winding, At
<1>3. FairSpec /\ []GoroutinesGoOn => (main = "enqueue" /\ cancelled ~> Winding)
  BY EnqueueStops
<1>4. FairSpec /\ []GoroutinesGoOn => (At("enqueue") /\ cancelled ~> At("wait"))
  BY <1>1, <1>2, <1>3, PTL
<1>5. FairSpec /\ []GoroutinesGoOn /\ DeployLaw /\ WorkersLaw => (cancelled ~> Exit)
  BY <1>4, SetupEnds, DeployReturnsCancelled, FinishesCancelled, MainPhases, CancelledStays,
     TypeCorrect, PTL DEF FairSpec, Spec
<1>6. Stopping <=> cancelled \/ watcher \in {"failed", "reported"}
  BY DEF Stopping
<1>7. FairSpec /\ []GoroutinesGoOn /\ DeployLaw /\ WorkersLaw
      => []GoroutinesGoOn /\ (Stopping ~> Exit)
  BY <1>5, <1>6, FailedWatchCancels, PTL
<1> QED BY <1>7 DEF CancelledRunExits, Exit
-----------------------------------------------------------------------------
(***************************************************************************)
(* Without a cancellation the run ends if its deployments and its stages   *)
(* do.  The queue is finite and only shrinks, so in the end it stays as it *)
(* is: QueueLaw, a fact of finite sets like the two before.                *)
(***************************************************************************)
Shrinks == todo' \subseteq todo
Changes == todo' # todo
QueueLaw == [][Shrinks]_todo => <>[][~Changes]_todo

LEMMA QueueSettles == FairSpec /\ QueueLaw => <>[][~Changes]_todo
<1>1. [Next]_vars => [Shrinks]_todo
  BY DEF Next, MainStep, Setup, DeployReturns, EnqueueEnds, Finish, DeployEnds, WorkerStep,
         HandOver, WorkerExits, StageSucceeds, StageFails, Report, Signal, WatchEnds, ReportWatcher,
         CancelRun, vars, scenarioVars, Shrinks
<1> QED BY <1>1, PTL DEF FairSpec, Spec, QueueLaw

LEMMA DeployReturnsAnyway ==
    FairSpec /\ []GoroutinesGoOn /\ DeployLaw
    /\ (\A p \in ProcessingPods : DeployEndsAlways(p)) => ~<>[]At("deploy")
<1>1. ASSUME NEW p \in ProcessingPods
      PROVE  FairSpec /\ DeployEndsAlways(p) /\ <>[]At("deploy") => DeployedForGood(p)
  <2> DEFINE Ended == deploy[p] # "running"
  <2>1. TypeOK /\ [Next]_vars /\ At("deploy") /\ Ended => Ended'
    BY DeployedStays
  <2>2. DeployEndsAlways(p) => []<>Ended
    BY DEF DeployEndsAlways
  <2> HIDE DEF Ended
  <2>3. FairSpec /\ DeployEndsAlways(p) /\ <>[]At("deploy") => <>[]Ended
    BY <2>1, <2>2, TypeCorrect, PTL DEF FairSpec, Spec
  <2> QED BY <2>3 DEF DeployedForGood, Ended
<1>2. FairSpec /\ (\A p \in ProcessingPods : DeployEndsAlways(p)) /\ <>[]At("deploy")
      => \A p \in ProcessingPods : DeployedForGood(p)
  BY <1>1
<1>3. FairSpec /\ DeployLaw /\ (\A p \in ProcessingPods : DeployEndsAlways(p)) /\ <>[]At("deploy")
      => <>[]AllDeploysEnded
  BY <1>2 DEF DeployLaw
<1> QED BY <1>3, DeployEnded, PTL

\* While scenarios wait to be sent, a worker of the pool that is not busy reports and
\* then takes the next one, which changes the queue.
Sending(w) == At("enqueue") /\ ~cancelled /\ todo # {} /\ w \in Workers

LEMMA SendingWorker ==
    ASSUME NEW w \in Workers, RunInv, PoolInv, Sending(w), [Next]_vars, Sending(w)'
    PROVE  /\ Busy(w) \/ worker[w].at = "report" \/ worker[w] = Idle
           /\ worker[w].at = "report" => worker'[w].at = "report" \/ worker'[w] = Idle
           /\ worker[w].at = "report" /\ ChannelStep(w) => worker'[w] = Idle
           /\ worker[w] = Idle => worker'[w] = Idle \/ Changes
           /\ worker[w] = Idle /\ ChannelStep(w) => Changes
<1>1. TypeOK /\ worker[w].at \notin {"none", "exited"} /\ ~closed /\ ~cancelled
  BY DEF RunInv, StartInv, PoolInv, Sending, At
<1>2. worker'[w] = worker[w] \/ WorkerStep(w)
  BY <1>1, OnlyWorkerMoves DEF Sending, At
<1>3. Busy(w) \/ worker[w].at = "report" \/ worker[w] = Idle
  BY <1>1 DEF TypeOK, Busy, Idle
<1>4. worker[w].at = "report" /\ WorkerStep(w) => worker'[w] = Idle
  BY <1>1 DEF WorkerStep, HandOver, WorkerExits, StageSucceeds, StageFails, Report, Idle, TypeOK
<1>5. worker[w] = Idle /\ WorkerStep(w) => Changes
  BY <1>1 DEF WorkerStep, HandOver, WorkerExits, StageSucceeds, StageFails, Report, Idle, Changes
<1> QED BY <1>2, <1>3, <1>4, <1>5 DEF ChannelStep, WorkerStep

LEMMA QueueIsServed ==
    ASSUME NEW w \in Workers
    PROVE  FairSpec /\ []GoroutinesGoOn /\ QueueLaw /\ StageEndsAlways(w) => ~<>[]Sending(w)
<1> DEFINE AtReport == worker[w].at = "report"
           AtIdle == worker[w] = Idle
<1>1. RunInv /\ PoolInv /\ Sending(w) /\ [Next]_vars /\ Sending(w)'
      => /\ Busy(w) \/ AtReport \/ AtIdle
         /\ AtReport => (AtReport \/ AtIdle)'
         /\ AtReport /\ <<ChannelStep(w)>>_vars => AtIdle'
         /\ AtIdle => AtIdle' \/ ~[~Changes]_todo
         /\ AtIdle /\ <<ChannelStep(w)>>_vars => ~[~Changes]_todo
  BY SendingWorker DEF Changes
<1>2. GoroutinesGoOn => (Sending(w) /\ (AtReport \/ AtIdle) => ENABLED <<ChannelStep(w)>>_vars)
  BY DEF GoroutinesGoOn, WorkerGoesOn, Sending, At
<1>3. Fairness => WorkerFairness(w)
  BY DEF Fairness
<1>4. FairSpec => []RunInv /\ []PoolInv
  BY RunInvariant, PoolInvariant, PTL DEF FairSpec
<1>5. StageEndsAlways(w) => []<>~Busy(w)
  BY DEF StageEndsAlways
<1> HIDE DEF AtReport, AtIdle
<1> QED BY <1>1, <1>2, <1>3, <1>4, <1>5, QueueSettles, PTL DEF FairSpec, Spec, WorkerFairness

LEMMA EnqueueEndsServed ==
    ASSUME NEW w \in Workers
    PROVE  FairSpec /\ []GoroutinesGoOn /\ QueueLaw /\ StageEndsAlways(w)
           => ~<>[](At("enqueue") /\ ~cancelled)
<1> DEFINE Empty == todo = {}
<1>1. At("enqueue") /\ ~cancelled => Empty \/ Sending(w)
  BY DEF Sending
<1>2. [Next]_vars /\ Empty => Empty'
  BY DEF Next, MainStep, Setup, DeployReturns, EnqueueEnds, Finish, DeployEnds, WorkerStep,
         HandOver, WorkerExits, StageSucceeds, StageFails, Report, Signal, WatchEnds, ReportWatcher,
         CancelRun, vars, scenarioVars
<1>3. GoroutinesGoOn => (At("enqueue") /\ Empty => ENABLED <<MainStep>>_vars)
  BY DEF GoroutinesGoOn, MainCanStep, At
<1>4. TypeOK /\ [Next]_vars /\ At("enqueue") /\ <<MainStep>>_vars => ~At("enqueue")'
  BY MainMoves DEF At
<1>5. Fairness => MainFairness
  BY DEF Fairness
<1> HIDE DEF Empty
<1> QED BY <1>1, <1>2, <1>3, <1>4, <1>5, QueueIsServed, TypeCorrect, PTL
    DEF FairSpec, Spec, MainFairness

LEMMA EnqueueEndsAnyway ==
    ASSUME NumberOfWorkers >= 1
    PROVE  FairSpec /\ []GoroutinesGoOn /\ QueueLaw /\ (\A w \in Workers : StageEndsAlways(w))
           => ~<>[](At("enqueue") /\ ~cancelled)
<1>1. PICK w \in Workers : TRUE
  BY SomeWorker
<1>2. FairSpec /\ []GoroutinesGoOn /\ QueueLaw /\ StageEndsAlways(w)
      => ~<>[](At("enqueue") /\ ~cancelled)
  BY EnqueueEndsServed
<1> QED BY <1>2

\* The close of the channel reaches every worker that is not for ever at a scenario.
LEMMA ClosedReaches ==
    ASSUME NEW w \in Workers
    PROVE  FairSpec /\ []GoroutinesGoOn /\ StageEndsAlways(w) /\ <>[]At("wait") => LeftForGood(w)
<1> DEFINE AtReport == worker[w].at = "report"
           AtIdle == worker[w] = Idle
<1>1. RunInv /\ PoolInv /\ At("wait") /\ [Next]_vars
      => /\ Busy(w) \/ AtReport \/ AtIdle \/ Left(w)
         /\ AtReport => (AtReport \/ AtIdle)'
         /\ AtReport /\ <<ChannelStep(w)>>_vars => AtIdle'
         /\ AtIdle => (AtIdle \/ Left(w))'
         /\ AtIdle /\ <<WorkerExits(w)>>_vars => Left(w)'
         /\ Left(w) => Left(w)'
  <2> SUFFICES ASSUME RunInv, PoolInv, At("wait"), [Next]_vars
               PROVE  /\ Busy(w) \/ AtReport \/ AtIdle \/ Left(w)
                      /\ AtReport => (AtReport \/ AtIdle)'
                      /\ AtReport /\ <<ChannelStep(w)>>_vars => AtIdle'
                      /\ AtIdle => (AtIdle \/ Left(w))'
                      /\ AtIdle /\ <<WorkerExits(w)>>_vars => Left(w)'
                      /\ Left(w) => Left(w)'
    OBVIOUS
  <2>1. TypeOK /\ main = "wait" /\ worker[w].at # "none"
    BY DEF RunInv, StartInv, At
  <2>2. worker'[w] = worker[w] \/ WorkerStep(w)
    BY <2>1, OnlyWorkerMoves
  <2>3. Busy(w) \/ AtReport \/ AtIdle \/ Left(w)
    BY <2>1 DEF TypeOK, Busy, Idle, Left, Exited
  <2>4. AtReport /\ WorkerStep(w) => AtIdle'
    BY <2>1 DEF WorkerStep, HandOver, WorkerExits, StageSucceeds, StageFails, Report, Idle, TypeOK
  <2>5. AtIdle /\ WorkerStep(w) => Left(w)'
    BY <2>1 DEF WorkerStep, HandOver, WorkerExits, StageSucceeds, StageFails, Report, Idle, Left,
                TypeOK
  <2>6. Left(w) => Left(w)'
    BY <2>1, LeftStays
  <2> QED BY <2>2, <2>3, <2>4, <2>5, <2>6 DEF ChannelStep, WorkerStep
<1>2. GoroutinesGoOn => (AtReport => ENABLED <<ChannelStep(w)>>_vars)
  BY DEF GoroutinesGoOn, WorkerGoesOn
<1>3. PoolInv /\ GoroutinesGoOn => (At("wait") /\ AtIdle => ENABLED <<WorkerExits(w)>>_vars)
  BY DEF PoolInv, GoroutinesGoOn, WorkerGoesOn, At
<1>4. Fairness => WorkerFairness(w)
  BY DEF Fairness
<1>5. FairSpec => []RunInv /\ []PoolInv
  BY RunInvariant, PoolInvariant, PTL DEF FairSpec
<1>6. StageEndsAlways(w) => []<>~Busy(w)
  BY DEF StageEndsAlways
<1> HIDE DEF AtReport, AtIdle
<1>7. FairSpec /\ []GoroutinesGoOn /\ StageEndsAlways(w) /\ <>[]At("wait") => <>[]Left(w)
  BY <1>1, <1>2, <1>3, <1>4, <1>5, <1>6, PTL DEF FairSpec, Spec, WorkerFairness
<1> QED BY <1>7 DEF LeftForGood

LEMMA WaitEndsAnyway ==
    FairSpec /\ []GoroutinesGoOn /\ WorkersLaw /\ (\A w \in Workers : StageEndsAlways(w))
    => ~<>[]At("wait")
<1>1. ASSUME NEW w \in Workers
      PROVE  FairSpec /\ []GoroutinesGoOn /\ StageEndsAlways(w) /\ <>[]At("wait") => LeftForGood(w)
  BY ClosedReaches
<1>2. FairSpec /\ []GoroutinesGoOn /\ (\A w \in Workers : StageEndsAlways(w)) /\ <>[]At("wait")
      => \A w \in Workers : LeftForGood(w)
  BY <1>1
<1>3. FairSpec /\ []GoroutinesGoOn /\ WorkersLaw /\ (\A w \in Workers : StageEndsAlways(w))
      /\ <>[]At("wait") => <>[]WorkersGone
  BY <1>2 DEF WorkersLaw
<1> QED BY <1>3, WaitEnds, PTL

\* A run with at least one worker ends if no deployment and no stage goes on for ever:
\* every scenario is handed over, the close reaches every worker, wg.Wait returns.
THEOREM RunReturns ==
    NumberOfWorkers >= 1
    => (FairSpec /\ []GoroutinesGoOn /\ DeployLaw /\ WorkersLaw /\ QueueLaw => RunEnds)
<1> SUFFICES ASSUME NumberOfWorkers >= 1
             PROVE  FairSpec /\ []GoroutinesGoOn /\ DeployLaw /\ WorkersLaw /\ QueueLaw => RunEnds
  OBVIOUS
<1> DEFINE DeploysEnd == \A p \in ProcessingPods : DeployEndsAlways(p)
           StagesEnd == \A w \in Workers : StageEndsAlways(w)
<1>1. FairSpec /\ []GoroutinesGoOn /\ QueueLaw /\ StagesEnd
      => ~<>[](At("enqueue") /\ ~cancelled)
  BY EnqueueEndsAnyway
<1>2. FairSpec /\ []GoroutinesGoOn /\ DeployLaw /\ DeploysEnd => ~<>[]At("deploy")
  BY DeployReturnsAnyway
<1>3. FairSpec /\ []GoroutinesGoOn /\ WorkersLaw /\ StagesEnd => ~<>[]At("wait")
  BY WaitEndsAnyway
<1>4. FairSpec /\ []GoroutinesGoOn /\ DeployLaw /\ WorkersLaw => (cancelled ~> Exit)
  <2>1. Stopping <=> cancelled \/ watcher \in {"failed", "reported"}
    BY DEF Stopping
  <2>2. CancelledRunExits => (Stopping ~> Exit)
    BY DEF CancelledRunExits, Exit
  <2> QED BY <2>1, <2>2, CancelledRunEnds, PTL
<1> HIDE DEF DeploysEnd, StagesEnd
<1>5. FairSpec /\ []GoroutinesGoOn /\ DeployLaw /\ WorkersLaw /\ QueueLaw
      => (DeploysEnd /\ StagesEnd => <>Exit)
  BY <1>1, <1>2, <1>3, <1>4, SetupEnds, MainPhases, TypeCorrect, PTL DEF FairSpec, Spec
<1> QED BY <1>5 DEF RunEnds, Exit, DeploysEnd, StagesEnd
=============================================================================
