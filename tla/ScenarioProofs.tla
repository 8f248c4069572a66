---------------------------- MODULE ScenarioProofs ----------------------------
(***************************************************************************)
(* Proofs about Scenario, for any set of targets and any traffic.          *)
(***************************************************************************)
EXTENDS Scenario, TLAPS

\* The steps of the goroutines and the environment for one pod or target.
PodStep(p) == CreatePod(p) \/ AwaitReady(p) \/ DeletePod(p) \/ DeletionSeen(p) \/ DeleteFails(p) \/ PodGone(p)
TargetStep(t) ==
    \/ StartTcpdump(t) \/ DownloadStep(t) \/ DownloadStepFails(t)
    \/ TcpdumpOpens(t) \/ TcpdumpEnds(t) \/ Packet(t)

LEMMA StepCases ==
    ASSUME [Next]_vars
    PROVE  \/ \E p \in Pods : PodStep(p)
           \/ \E t \in Targets : TargetStep(t)
           \/ DeployReturns \/ CaptureReturns \/ AttackEnds \/ DownloadReturns \/ CleanupReturns
           \/ CleanupDeadline \/ Cancel
           \/ UNCHANGED vars
BY DEF Next, PodStep, TargetStep, Deploy, Download, Delete, Returns, Environment

LEMMA StageTypes ==
    /\ Len(Stages) = 6 /\ Finished = 7 /\ Failed = 0
    /\ Stages[1] = "kill" /\ Stages[2] = "wait" /\ Stages[3] = "reorder"
    /\ Stages[4] = "raw" /\ Stages[5] = "pcap" /\ Stages[6] = "logs"
BY DEF Stages, Finished, Failed

\* What one step of a download does, by the stage it is at.
LEMMA DownloadCases ==
    ASSUME TypeOK, NEW t \in Targets, DownloadStep(t)
    PROVE  /\ pc = "download" /\ stage' = [stage EXCEPT ![t] = @ + 1]
           /\ \/ stage[t] = 1 /\ KillTcpdump(t)
              \/ stage[t] = 2 /\ WaitTcpdump(t)
              \/ stage[t] = 3 /\ Reorder(t)
              \/ stage[t] = 4 /\ Copy(t, "raw", raw[t])
              \/ stage[t] = 5 /\ Copy(t, "pcap", normal[t])
              \/ stage[t] = 6 /\ Copy(t, "logs", 0)
           /\ UNCHANGED <<pc, cancelled, podVars, received, attack, prefix, yaml, cleanupVars, errors>>
<1>1. stage[t] \in 1..6 /\ pc = "download" /\ stage' = [stage EXCEPT ![t] = @ + 1]
  BY StageTypes DEF DownloadStep
<1>2. UNCHANGED <<pc, cancelled, podVars, received, attack, prefix, yaml, cleanupVars, errors>>
  BY DEF DownloadStep
<1>3. CASE stage[t] = 1
  BY <1>1, <1>2, <1>3, StageTypes DEF DownloadStep
<1>4. CASE stage[t] = 2
  BY <1>1, <1>2, <1>4, StageTypes DEF DownloadStep
<1>5. CASE stage[t] = 3
  BY <1>1, <1>2, <1>5, StageTypes DEF DownloadStep
<1>6. CASE stage[t] = 4
  BY <1>1, <1>2, <1>6, StageTypes DEF DownloadStep
<1>7. CASE stage[t] = 5
  BY <1>1, <1>2, <1>7, StageTypes DEF DownloadStep
<1>8. CASE stage[t] = 6
  BY <1>1, <1>2, <1>8, StageTypes DEF DownloadStep
<1> QED BY <1>1, <1>3, <1>4, <1>5, <1>6, <1>7, <1>8

-----------------------------------------------------------------------------
(***************************************************************************)
(* Type correctness.                                                       *)
(***************************************************************************)
LEMMA TypeInit == Init => TypeOK
<1> SUFFICES ASSUME Init PROVE TypeOK
  OBVIOUS
<1>1. 0 \in 0..MaxPackets /\ Missing \in Count /\ 1 \in Failed..Finished
  BY ScenarioAssumption, StageTypes DEF Count, Missing
<1>2. copied \in [Targets -> [Files -> Count]]
  <2>1. [f \in Files |-> Missing] \in [Files -> Count]
    BY <1>1
  <2> QED BY <2>1 DEF Init
<1>3. raw \in [Targets -> Count] /\ normal \in [Targets -> Count]
  BY <1>1 DEF Init
<1>4. received \in [Targets -> 0..MaxPackets] /\ stage \in [Targets -> Failed..Finished]
  BY <1>1 DEF Init
<1>5. /\ pc = "deploy" /\ cancelled = FALSE /\ yaml = FALSE /\ expired = FALSE
      /\ attack = "none" /\ prefix = "none" /\ errors = {}
  BY DEF Init
<1>6. /\ deploy \in [Pods -> {"create", "wait", "ready", "failed"}]
      /\ pod \in [Pods -> {"absent", "present", "terminating"}]
      /\ delete \in [Pods -> {"todo", "polling", "gone", "refused", "timedOut"}]
  BY DEF Init
<1>7. /\ starter \in [Targets -> {"todo", "started", "failed"}]
      /\ tcpdump \in [Targets -> {"off", "starting", "capturing", "stopping", "dead"}]
  BY DEF Init
<1> QED BY <1>2, <1>3, <1>4, <1>5, <1>6, <1>7 DEF TypeOK

LEMMA DownloadTypes ==
    ASSUME TypeOK, NEW t \in Targets, DownloadStep(t)
    PROVE  TypeOK'
<1> USE ScenarioAssumption
<1>1. stage' \in [Targets -> Failed..Finished]
  <2>1. stage[t] \in 1..6 /\ stage' = [stage EXCEPT ![t] = @ + 1]
    BY DownloadCases
  <2>2. stage[t] + 1 \in Failed..Finished
    BY <2>1, StageTypes
  <2> QED BY <2>1, <2>2 DEF TypeOK
<1>2. tcpdump' \in [Targets -> {"off", "starting", "capturing", "stopping", "dead"}]
  <2>1. UNCHANGED tcpdump \/ KillTcpdump(t)
    BY DownloadCases DEF WaitTcpdump, Reorder, Copy, captureVars
  <2> QED BY <2>1 DEF TypeOK, KillTcpdump
<1>3. /\ starter' = starter /\ raw' = raw
      /\ normal' \in [Targets -> Count]
  BY DownloadCases DEF TypeOK, KillTcpdump, WaitTcpdump, Reorder, Copy, captureVars
<1>4. copied' \in [Targets -> [Files -> Count]]
  <2>1. \/ UNCHANGED copied
        \/ \E f \in Files, n \in Count : copied' = [copied EXCEPT ![t][f] = n]
    <3>1. 0 \in Count /\ raw[t] \in Count /\ normal[t] \in Count
      BY DEF Count, Missing, TypeOK
    <3> QED BY <3>1, DownloadCases DEF KillTcpdump, WaitTcpdump, Reorder, Copy, Files
  <2>2. ASSUME NEW f \in Files, NEW n \in Count, copied' = [copied EXCEPT ![t][f] = n]
        PROVE  copied' \in [Targets -> [Files -> Count]]
    <3>1. copied[t] \in [Files -> Count]
      BY DEF TypeOK
    <3>2. [copied[t] EXCEPT ![f] = n] \in [Files -> Count]
      BY <3>1
    <3> QED BY <2>2, <3>2 DEF TypeOK
  <2>3. CASE UNCHANGED copied
    BY <2>3 DEF TypeOK
  <2> QED BY <2>1, <2>2, <2>3
<1>5. UNCHANGED <<pc, cancelled, podVars, received, attack, prefix, yaml, cleanupVars, errors>>
  BY DownloadCases
<1> QED BY <1>1, <1>2, <1>3, <1>4, <1>5 DEF TypeOK, podVars, cleanupVars

LEMMA TypeStep == TypeOK /\ [Next]_vars => TypeOK'
<1> SUFFICES ASSUME TypeOK, [Next]_vars PROVE TypeOK'
  OBVIOUS
<1> USE ScenarioAssumption DEF podVars, captureVars, downloadVars, cleanupVars
<1>1. ASSUME NEW p \in Pods, PodStep(p) PROVE TypeOK'
  <2>1. CASE CreatePod(p)
    BY <2>1 DEF TypeOK, CreatePod
  <2>2. CASE AwaitReady(p)
    BY <2>2 DEF TypeOK, AwaitReady
  <2>3. CASE DeletePod(p)
    BY <2>3 DEF TypeOK, DeletePod
  <2>4. CASE DeletionSeen(p)
    BY <2>4 DEF TypeOK, DeletionSeen
  <2>5. CASE DeleteFails(p)
    BY <2>5 DEF TypeOK, DeleteFails
  <2>6. CASE PodGone(p)
    BY <2>6 DEF TypeOK, PodGone
  <2> QED BY <1>1, <2>1, <2>2, <2>3, <2>4, <2>5, <2>6 DEF PodStep
<1>2. ASSUME NEW t \in Targets, TargetStep(t) PROVE TypeOK'
  <2>1. CASE StartTcpdump(t)
    BY <2>1 DEF TypeOK, StartTcpdump
  <2>2. CASE DownloadStep(t)
    BY <2>2, DownloadTypes
  <2>3. CASE DownloadStepFails(t)
    BY <2>3, StageTypes DEF TypeOK, DownloadStepFails
  <2>4. CASE TcpdumpOpens(t)
    <3>1. 0 \in Count
      BY DEF Count, Missing
    <3> QED BY <2>4, <3>1 DEF TypeOK, TcpdumpOpens
  <2>6. CASE TcpdumpEnds(t)
    BY <2>6 DEF TypeOK, TcpdumpEnds
  <2>5. CASE Packet(t)
    <3>1. received' \in [Targets -> 0..MaxPackets]
      BY <2>5 DEF TypeOK, Packet
    <3>2. raw' \in [Targets -> Count]
      BY <2>5 DEF TypeOK, Packet, Count, Missing
    <3> QED BY <2>5, <3>1, <3>2 DEF TypeOK, Packet
  <2> QED BY <1>2, <2>1, <2>2, <2>3, <2>4, <2>5, <2>6 DEF TargetStep
<1>3. CASE DeployReturns
  BY <1>3 DEF TypeOK, DeployReturns
<1>7. CASE CaptureReturns
  BY <1>7 DEF TypeOK, CaptureReturns
<1>8. CASE CleanupReturns
  BY <1>8 DEF TypeOK, CleanupReturns
<1>9. CASE CleanupDeadline
  BY <1>9 DEF TypeOK, CleanupDeadline
<1>10. CASE Cancel
  BY <1>10 DEF TypeOK, Cancel
<1>4. CASE AttackEnds
  BY <1>4 DEF TypeOK, AttackEnds, AttackError, KeepsPartial
<1>5. CASE DownloadReturns
  BY <1>5 DEF TypeOK, DownloadReturns
<1>6. CASE UNCHANGED vars
  BY <1>6 DEF TypeOK, vars
<1> QED BY <1>1, <1>2, <1>3, <1>4, <1>5, <1>6, <1>7, <1>8, <1>9, <1>10, StepCases

\* Type correctness: no goroutine of a download goes past its last step.
THEOREM TypeCorrect == Spec => []TypeOK
BY TypeInit, TypeStep, PTL DEF Spec

-----------------------------------------------------------------------------
(***************************************************************************)
(* From the launch of tcpdump to the copies on the host.                   *)
(***************************************************************************)
LaunchInv ==
    /\ \A t \in Targets : starter[t] = "started" <=> tcpdump[t] # "off"
    /\ pc \in {"attack", "download"} => \A t \in Targets : starter[t] = "started"

\* The capture of one target on its way: nothing is copied before tcpdump has ended.
Fetched(t) ==
    /\ stage[t] >= 3 => tcpdump[t] = "dead"
    /\ stage[t] >= 4 => normal[t] = raw[t]
    /\ stage[t] >= 5 => copied[t]["raw"] # Missing
    /\ stage[t] >= 6 => copied[t]["pcap"] # Missing
    /\ stage[t] >= 7 => copied[t]["logs"] # Missing
    /\ copied[t]["raw"] # Missing => tcpdump[t] = "dead" /\ copied[t]["raw"] = raw[t] /\ normal[t] = raw[t]
    /\ copied[t]["pcap"] # Missing => copied[t]["raw"] # Missing /\ copied[t]["pcap"] = raw[t]

FetchInv == LaunchInv /\ \A t \in Targets : Fetched(t)

LEMMA FetchInit == Init => FetchInv
<1> SUFFICES ASSUME Init PROVE FetchInv
  OBVIOUS
<1>1. \A t \in Targets : /\ stage[t] = 1 /\ starter[t] = "todo" /\ tcpdump[t] = "off"
                         /\ copied[t]["raw"] = Missing /\ copied[t]["pcap"] = Missing
  BY DEF Init, Files
<1>2. pc = "deploy"
  BY DEF Init
<1> QED BY <1>1, <1>2 DEF FetchInv, LaunchInv, Fetched

\* Steps that leave everything of the captures but the place of ExecuteScenario alone.
LEMMA FetchKept ==
    ASSUME FetchInv, UNCHANGED <<starter, tcpdump, raw, normal, stage, copied>>,
           pc' = pc \/ pc' \notin {"attack", "download"} \/ (pc = "attack" /\ pc' = "download")
    PROVE  FetchInv'
BY DEF FetchInv, LaunchInv, Fetched

LEMMA FetchLaunch ==
    ASSUME TypeOK, [Next]_vars, LaunchInv
    PROVE  LaunchInv'
<1> USE DEF podVars, captureVars, downloadVars, cleanupVars
<1>1. ASSUME NEW p \in Pods, PodStep(p) PROVE LaunchInv'
  BY <1>1 DEF PodStep, CreatePod, AwaitReady, DeletePod, DeletionSeen, DeleteFails, PodGone, LaunchInv
<1>2. ASSUME NEW t \in Targets, TargetStep(t) PROVE LaunchInv'
  <2>1. CASE StartTcpdump(t)
    BY <2>1 DEF TypeOK, StartTcpdump, LaunchInv
  <2>2. CASE DownloadStep(t)
    <3>1. UNCHANGED starter /\ pc' = pc /\ (UNCHANGED tcpdump \/ KillTcpdump(t))
      BY <2>2, DownloadCases DEF KillTcpdump, WaitTcpdump, Reorder, Copy
    <3> QED BY <3>1 DEF TypeOK, LaunchInv, KillTcpdump
  <2>3. CASE DownloadStepFails(t) \/ Packet(t)
    BY <2>3 DEF DownloadStepFails, Packet, LaunchInv
  <2>4. CASE TcpdumpOpens(t) \/ TcpdumpEnds(t)
    BY <2>4 DEF TypeOK, TcpdumpOpens, TcpdumpEnds, LaunchInv
  <2> QED BY <1>2, <2>1, <2>2, <2>3, <2>4 DEF TargetStep
<1>3. CASE CaptureReturns
  <2>1. pc' = "attack" => \A t \in Targets : starter[t] = "started"
    BY <1>3 DEF TypeOK, CaptureReturns, StartersDone
  <2> QED BY <1>3, <2>1 DEF CaptureReturns, LaunchInv
<1>4. CASE DeployReturns \/ DownloadReturns \/ CleanupReturns \/ CleanupDeadline \/ Cancel \/ UNCHANGED vars
  BY <1>4 DEF DeployReturns, DownloadReturns, CleanupReturns, CleanupDeadline, Cancel, vars, LaunchInv
<1>5. CASE AttackEnds
  BY <1>5 DEF AttackEnds, LaunchInv
<1> QED BY <1>1, <1>2, <1>3, <1>4, <1>5, StepCases

LEMMA FetchDownload ==
    ASSUME TypeOK, LaunchInv, NEW t \in Targets, Fetched(t), DownloadStep(t)
    PROVE  Fetched(t)'
<1> USE DownloadCases DEF TypeOK, Fetched, captureVars
<1>0. /\ stage[t] \in Int /\ stage'[t] = stage[t] + 1
      /\ copied[t] \in [Files -> Count]
  BY StageTypes
<1>1. CASE stage[t] = 1 /\ KillTcpdump(t)
  BY <1>0, <1>1 DEF KillTcpdump
<1>2. CASE stage[t] = 2 /\ WaitTcpdump(t)
  BY <1>0, <1>2 DEF WaitTcpdump
<1>3. CASE stage[t] = 3 /\ Reorder(t)
  BY <1>0, <1>3 DEF Reorder
<1>4. CASE stage[t] = 4 /\ Copy(t, "raw", raw[t])
  <2>1. copied'[t]["raw"] = raw[t] /\ copied'[t]["pcap"] = copied[t]["pcap"] /\ raw[t] # Missing
    BY <1>0, <1>4 DEF Copy, Files
  <2> QED BY <1>0, <1>4, <2>1 DEF Copy
<1>5. CASE stage[t] = 5 /\ Copy(t, "pcap", normal[t])
  <2>1. copied'[t]["pcap"] = raw[t] /\ copied'[t]["raw"] = copied[t]["raw"] /\ raw[t] # Missing
    BY <1>0, <1>5 DEF Copy, Files
  <2> QED BY <1>0, <1>5, <2>1 DEF Copy
<1>6. CASE stage[t] = 6 /\ Copy(t, "logs", 0)
  <2>1. /\ copied'[t]["logs"] # Missing
        /\ copied'[t]["raw"] = copied[t]["raw"] /\ copied'[t]["pcap"] = copied[t]["pcap"]
    BY <1>0, <1>6 DEF Copy, Files
  <2> QED BY <1>0, <1>6, <2>1 DEF Copy
<1> QED BY <1>1, <1>2, <1>3, <1>4, <1>5, <1>6

LEMMA FetchStep == TypeOK /\ FetchInv /\ [Next]_vars => FetchInv'
<1> SUFFICES ASSUME TypeOK, FetchInv, [Next]_vars PROVE FetchInv'
  OBVIOUS
<1> USE DEF podVars, captureVars, downloadVars, cleanupVars
<1>0. LaunchInv'
  BY FetchLaunch DEF FetchInv
<1>1. CASE \E p \in Pods : PodStep(p)
  BY <1>1, FetchKept DEF PodStep, CreatePod, AwaitReady, DeletePod, DeletionSeen, DeleteFails, PodGone
<1>2. ASSUME NEW t \in Targets, TargetStep(t) PROVE FetchInv'
  <2>1. ASSUME NEW u \in Targets, u # t PROVE Fetched(u)'
    <3>1. /\ tcpdump'[u] = tcpdump[u] /\ raw'[u] = raw[u] /\ normal'[u] = normal[u]
          /\ stage'[u] = stage[u] /\ copied'[u] = copied[u]
      <4>1. CASE DownloadStep(t)
        BY <2>1, <4>1, DownloadCases DEF TypeOK, KillTcpdump, WaitTcpdump, Reorder, Copy
      <4>2. CASE ~DownloadStep(t)
        BY <1>2, <2>1, <4>2 DEF TypeOK, TargetStep, StartTcpdump, DownloadStepFails, TcpdumpOpens, TcpdumpEnds, Packet
      <4> QED BY <4>1, <4>2
    <3> QED BY <3>1 DEF FetchInv, Fetched
  <2>2. Fetched(t)'
    <3>1. LaunchInv /\ Fetched(t)
      BY DEF FetchInv
    <3>2. CASE StartTcpdump(t)
      BY <3>1, <3>2 DEF TypeOK, StartTcpdump, LaunchInv, Fetched
    <3>3. CASE DownloadStep(t)
      BY <3>1, <3>3, FetchDownload
    <3>4. CASE DownloadStepFails(t)
      BY <3>1, <3>4, StageTypes DEF TypeOK, DownloadStepFails, Fetched
    <3>5. CASE TcpdumpOpens(t) \/ TcpdumpEnds(t) \/ Packet(t)
      <4>1. UNCHANGED <<normal, stage, copied>>
        BY <3>5 DEF TcpdumpOpens, TcpdumpEnds, Packet
      <4>2. stage[t] < 3 \/ (tcpdump'[t] = "dead" /\ raw'[t] = raw[t])
        BY <3>1, <3>5, StageTypes DEF TypeOK, TcpdumpOpens, TcpdumpEnds, Packet, Fetched
      <4>3. copied[t]["raw"] = Missing \/ (tcpdump'[t] = "dead" /\ raw'[t] = raw[t])
        BY <3>1, <3>5 DEF TypeOK, TcpdumpOpens, TcpdumpEnds, Packet, Fetched
      <4>4. stage[t] \in Int
        BY StageTypes DEF TypeOK
      <4> QED BY <3>1, <4>1, <4>2, <4>3, <4>4 DEF Fetched
    <3> QED BY <1>2, <3>2, <3>3, <3>4, <3>5 DEF TargetStep
  <2> QED BY <1>0, <2>1, <2>2 DEF FetchInv
<1>3. CASE DeployReturns \/ CaptureReturns \/ AttackEnds \/ DownloadReturns \/ CleanupReturns
           \/ CleanupDeadline \/ Cancel \/ UNCHANGED vars
  <2>1. UNCHANGED <<tcpdump, raw, normal, stage, copied>>
    BY <1>3 DEF DeployReturns, CaptureReturns, AttackEnds, DownloadReturns, CleanupReturns, CleanupDeadline,
        Cancel, vars
  <2> QED BY <1>0, <2>1 DEF FetchInv, Fetched
<1> QED BY <1>1, <1>2, <1>3, StepCases

\* No attack without tcpdump on every target, however many targets there are.
THEOREM NoAttackWithoutTcpdumpAlways == Spec => []NoAttackWithoutTcpdump
<1>1. FetchInv => NoAttackWithoutTcpdump
  BY DEF FetchInv, LaunchInv, NoAttackWithoutTcpdump
<1> QED BY <1>1, TypeInit, TypeStep, FetchInit, FetchStep, PTL DEF Spec

\* The normalised capture holds every packet of the raw one: the wait for tcpdump's end lies
\* between the signal and the first copy.
THEOREM NormalizedHoldsRawAlways == Spec => []NormalizedHoldsRaw
<1>1. FetchInv => NormalizedHoldsRaw
  BY DEF FetchInv, Fetched, NormalizedHoldsRaw
<1> QED BY <1>1, TypeInit, TypeStep, FetchInit, FetchStep, PTL DEF Spec

-----------------------------------------------------------------------------
(***************************************************************************)
(* What scenario.yaml and a nil error say.                                 *)
(***************************************************************************)
ResultInv ==
    /\ yaml => pc \in {"cleanup", "returned"} /\ \A t \in Targets : stage[t] = Finished
    /\ pc = "download" \/ yaml => prefix \in {"full", "partial"}
                                 /\ attack = IF prefix = "full" THEN "ok" ELSE "timeout"
    /\ pc = "download" /\ errors = {} => prefix = "full"
    /\ pc \in {"cleanup", "returned"} /\ errors = {} => yaml /\ prefix = "full"

LEMMA ResultStep == TypeOK /\ ResultInv /\ [Next]_vars => ResultInv'
<1> SUFFICES ASSUME TypeOK, ResultInv, [Next]_vars PROVE ResultInv'
  OBVIOUS
<1> USE DEF podVars, captureVars, downloadVars, cleanupVars
<1>1. CASE UNCHANGED <<pc, attack, prefix, stage, yaml, errors>>
  BY <1>1 DEF ResultInv
<1>2. CASE \E p \in Pods : PodStep(p)
  BY <1>1, <1>2 DEF PodStep, CreatePod, AwaitReady, DeletePod, DeletionSeen, DeleteFails, PodGone
<1>3. ASSUME NEW t \in Targets, TargetStep(t) PROVE ResultInv'
  <2>1. CASE StartTcpdump(t) \/ TcpdumpOpens(t) \/ TcpdumpEnds(t) \/ Packet(t)
    BY <1>1, <2>1 DEF StartTcpdump, TcpdumpOpens, TcpdumpEnds, Packet
  <2>2. CASE DownloadStep(t) \/ DownloadStepFails(t)
    <3>1. pc = "download" /\ UNCHANGED <<pc, attack, prefix, yaml, errors>>
      BY <2>2, DownloadCases DEF DownloadStepFails
    <3> QED BY <3>1 DEF ResultInv
  <2> QED BY <1>3, <2>1, <2>2 DEF TargetStep
<1>4. CASE DeployReturns
  BY <1>4 DEF DeployReturns, ResultInv
<1>5. CASE CaptureReturns
  BY <1>5 DEF CaptureReturns, ResultInv
<1>6. CASE AttackEnds
  BY <1>6 DEF AttackEnds, AttackError, KeepsPartial, ResultInv
<1>7. CASE DownloadReturns
  <2>1. CASE DownloadsComplete /\ yaml' = TRUE /\ UNCHANGED errors
    BY <1>7, <2>1 DEF DownloadReturns, DownloadsComplete, ResultInv
  <2>2. CASE UNCHANGED yaml /\ errors' # {}
    BY <1>7, <2>2 DEF DownloadReturns, ResultInv
  <2> QED BY <1>7, <2>1, <2>2 DEF DownloadReturns
<1>8. CASE CleanupReturns \/ CleanupDeadline \/ Cancel \/ UNCHANGED vars
  BY <1>8 DEF CleanupReturns, CleanupDeadline, Cancel, vars, ResultInv
<1> QED BY <1>2, <1>3, <1>4, <1>5, <1>6, <1>7, <1>8, StepCases

LEMMA ResultInit == Init => ResultInv
BY DEF Init, ResultInv

\* scenario.yaml marks a complete set of files and tells how the attack ended.
THEOREM ScenarioFileMarksCompletenessAlways == Spec => []ScenarioFileMarksCompleteness
<1>1. FetchInv /\ ResultInv => ScenarioFileMarksCompleteness
  BY StageTypes DEF FetchInv, Fetched, ResultInv, ScenarioFileMarksCompleteness, Files
<1> QED BY <1>1, TypeInit, TypeStep, FetchInit, FetchStep, ResultInit, ResultStep, PTL DEF Spec

\* A nil error stands for a complete scenario, whatever failed or was cancelled on the way.
THEOREM SuccessMeansResultsAlways == Spec => []SuccessMeansResults
<1>1. ResultInv => SuccessMeansResults
  BY DEF ResultInv, SuccessMeansResults
<1> QED BY <1>1, TypeInit, TypeStep, ResultInit, ResultStep, PTL DEF Spec

-----------------------------------------------------------------------------
(***************************************************************************)
(* The cleanup.                                                            *)
(***************************************************************************)
Ended(p) == delete[p] \in {"gone", "refused", "timedOut"}

CleanupInv ==
    /\ pc # "deploy" => \A p \in Pods : deploy[p] \in {"ready", "failed"}
    /\ pc \notin {"deploy", "returned"} \/ (\E p \in Pods : delete[p] # "todo") => PodsDeployed
    /\ \A p \in Pods : delete[p] = "gone" => pod[p] = "absent"
    /\ \A p \in Pods : delete[p] = "timedOut" => expired
    /\ pc = "returned" /\ PodsDeployed => \A p \in Pods : Ended(p)

LEMMA CleanupStep == TypeOK /\ CleanupInv /\ [Next]_vars => CleanupInv'
<1> SUFFICES ASSUME TypeOK, CleanupInv, [Next]_vars PROVE CleanupInv'
  OBVIOUS
<1> USE DEF podVars, captureVars, downloadVars, cleanupVars
<1>1. CASE UNCHANGED <<pc, deploy, pod, delete, expired>>
  BY <1>1 DEF CleanupInv, PodsDeployed, Ended
<1>2. ASSUME NEW p \in Pods, PodStep(p) PROVE CleanupInv'
  <2>1. CASE CreatePod(p) \/ AwaitReady(p)
    <3>1. /\ deploy[p] \in {"create", "wait"} /\ UNCHANGED <<pc, delete, expired>>
          /\ \A q \in Pods : q # p => deploy'[q] = deploy[q]
      BY <2>1 DEF TypeOK, CreatePod, AwaitReady
    <3>2. pc = "deploy" /\ \A q \in Pods : delete[q] = "todo"
      BY <3>1 DEF CleanupInv, PodsDeployed
    <3> QED BY <3>1, <3>2 DEF CleanupInv
  <2>2. CASE DeletePod(p)
    BY <2>2 DEF TypeOK, DeletePod, CleanupInv, PodsDeployed, Ended
  <2>3. CASE DeletionSeen(p)
    BY <2>3 DEF TypeOK, DeletionSeen, CleanupInv, PodsDeployed, Ended
  <2>4. CASE DeleteFails(p)
    BY <2>4 DEF TypeOK, DeleteFails, CleanupOver, CleanupInv, PodsDeployed, Ended
  <2>5. CASE PodGone(p)
    BY <2>5 DEF TypeOK, PodGone, CleanupInv, PodsDeployed, Ended
  <2> QED BY <1>2, <2>1, <2>2, <2>3, <2>4, <2>5 DEF PodStep
<1>3. CASE \E t \in Targets : TargetStep(t)
  <2>1. ASSUME NEW t \in Targets, DownloadStep(t) PROVE UNCHANGED <<pc, deploy, pod, delete, expired>>
    BY <2>1, DownloadCases
  <2>2. ASSUME NEW t \in Targets, TargetStep(t), ~DownloadStep(t)
        PROVE  UNCHANGED <<pc, deploy, pod, delete, expired>>
    BY <2>2 DEF TargetStep, StartTcpdump, TcpdumpOpens, TcpdumpEnds, Packet, DownloadStepFails
  <2> QED BY <1>1, <1>3, <2>1, <2>2
<1>4. CASE DeployReturns
  <2>1. UNCHANGED <<deploy, pod, delete, expired>> /\ pc' \in {"capture", "returned"}
    BY <1>4 DEF DeployReturns
  <2>2. \A p \in Pods : deploy[p] \in {"ready", "failed"}
    BY <1>4 DEF DeployReturns
  <2>3. pc' = "returned" => ~PodsDeployed
    BY <1>4 DEF DeployReturns, PodsDeployed
  <2>4. pc' = "capture" => PodsDeployed
    BY <1>4 DEF DeployReturns, PodsDeployed
  <2> QED BY <2>1, <2>2, <2>3, <2>4 DEF CleanupInv, PodsDeployed, Ended
<1>5. CASE CaptureReturns \/ AttackEnds \/ DownloadReturns
  <2>1. /\ UNCHANGED <<deploy, pod, delete, expired>>
        /\ pc \notin {"deploy", "returned"} /\ pc' \notin {"deploy", "returned"}
    BY <1>5 DEF CaptureReturns, AttackEnds, DownloadReturns
  <2> QED BY <2>1 DEF CleanupInv, PodsDeployed
<1>6. CASE CleanupReturns
  BY <1>6 DEF CleanupReturns, CleanupInv, PodsDeployed, Ended
<1>7. CASE CleanupDeadline
  BY <1>7 DEF CleanupDeadline, CleanupInv, PodsDeployed, Ended
<1>8. CASE Cancel \/ UNCHANGED vars
  BY <1>1, <1>8 DEF Cancel, vars
<1> QED BY <1>2, <1>3, <1>4, <1>5, <1>6, <1>7, <1>8, StepCases

LEMMA CleanupInit == Init => CleanupInv
BY DEF Init, CleanupInv, PodsDeployed, Ended

\* The cleanup does its work after a cancellation, too: only the API or its own deadline
\* can leave a pod behind.
THEOREM CleanupIgnoresCancellationAlways == Spec => []CleanupIgnoresCancellation
<1>1. TypeOK /\ CleanupInv => CleanupIgnoresCancellation
  BY DEF TypeOK, CleanupInv, Ended, CleanupIgnoresCancellation
<1> QED BY <1>1, TypeInit, TypeStep, CleanupInit, CleanupStep, PTL DEF Spec

-----------------------------------------------------------------------------
(***************************************************************************)
(* Scenario implements Execution.                                          *)
(***************************************************************************)
LEMMA PhaseIs ==
    /\ Phases["deploy"] = "prepare" /\ Phases["capture"] = "prepare" /\ Phases["attack"] = "attack"
    /\ Phases["download"] = "fetch" /\ Phases["cleanup"] = "clean" /\ Phases["returned"] = "returned"
BY DEF Phases

LEMMA ExecutionInits == Init => Execute!ExecutionInit
<1> SUFFICES ASSUME Init PROVE Execute!ExecutionInit
  OBVIOUS
<1>1. /\ pc = "deploy" /\ attack = "none" /\ yaml = FALSE /\ errors = {}
      /\ \A t \in Targets : tcpdump[t] = "off"
  BY DEF Init
<1>2. \A t \in Targets : ~Complete(t)
  BY DEF Init, Complete, Files
<1>3. {t \in Targets : tcpdump[t] # "off"} = {} /\ {t \in Targets : Complete(t)} = {}
  BY <1>1, <1>2
<1> QED BY <1>1, <1>3, PhaseIs DEF Execute!ExecutionInit

\* What the abstract scenario sees of the targets.
Armed == {t \in Targets : tcpdump[t] # "off"}
CompleteOnes == {t \in Targets : Complete(t)}

LEMMA Seen ==
    ASSUME UNCHANGED <<pc, attack, yaml, prefix, errors, Armed, CompleteOnes>>
    PROVE  UNCHANGED Execute!executionVars
BY DEF Execute!executionVars, Armed, CompleteOnes

\* No process of tcpdump goes back to where it has not been started.
LEMMA ArmedKept ==
    ASSUME TypeOK, NEW t \in Targets, TargetStep(t), ~StartTcpdump(t)
    PROVE  UNCHANGED Armed
<1>1. CASE DownloadStep(t)
  <2>1. UNCHANGED tcpdump \/ KillTcpdump(t)
    BY <1>1, DownloadCases DEF WaitTcpdump, Reorder, Copy, captureVars
  <2> QED BY <2>1 DEF TypeOK, KillTcpdump, Armed
<1>2. CASE TcpdumpOpens(t) \/ TcpdumpEnds(t)
  BY <1>2 DEF TypeOK, TcpdumpOpens, TcpdumpEnds, Armed
<1>3. CASE DownloadStepFails(t) \/ Packet(t)
  BY <1>3 DEF DownloadStepFails, Packet, captureVars, Armed
<1> QED BY <1>1, <1>2, <1>3 DEF TargetStep

\* A copy completes the files of its target or leaves them incomplete; none gets lost.
LEMMA CompleteGrows ==
    ASSUME TypeOK, NEW t \in Targets, DownloadStep(t)
    PROVE  UNCHANGED CompleteOnes \/ CompleteOnes' = CompleteOnes \cup {t}
<1>1. \/ UNCHANGED copied
      \/ \E f \in Files, n \in Int : n # Missing /\ copied' = [copied EXCEPT ![t][f] = n]
  <2>1. 0 \in Int /\ 0 # Missing /\ raw[t] \in Int /\ normal[t] \in Int
    BY ScenarioAssumption DEF Missing, TypeOK, Count
  <2> QED BY <2>1, DownloadCases DEF KillTcpdump, WaitTcpdump, Reorder, Copy, Files
<1>2. CASE UNCHANGED copied
  BY <1>2 DEF CompleteOnes, Complete
<1>3. ASSUME NEW f \in Files, NEW n \in Int, n # Missing, copied' = [copied EXCEPT ![t][f] = n]
      PROVE  UNCHANGED CompleteOnes \/ CompleteOnes' = CompleteOnes \cup {t}
  <2>1. /\ \A u \in Targets \ {t} : copied'[u] = copied[u]
        /\ \A g \in Files : copied[t][g] # Missing => copied'[t][g] # Missing
    BY <1>3 DEF TypeOK
  <2>2. /\ \A u \in Targets \ {t} : Complete(u)' <=> Complete(u)
        /\ Complete(t) => Complete(t)'
    BY <2>1 DEF Complete
  <2> QED BY <2>2 DEF CompleteOnes
<1> QED BY <1>1, <1>2, <1>3

LEMMA ExecutionTarget ==
    ASSUME TypeOK, LaunchInv, NEW t \in Targets, TargetStep(t)
    PROVE  [Execute!ExecutionNext]_Execute!executionVars
<1> USE DEF captureVars, downloadVars
<1>1. CASE StartTcpdump(t)
  <2>1. UNCHANGED <<pc, attack, yaml, prefix, errors, CompleteOnes>> /\ pc = "capture"
    BY <1>1 DEF StartTcpdump, CompleteOnes, Complete
  <2>2. Armed' = Armed \cup {t} \/ UNCHANGED Armed
    BY <1>1 DEF TypeOK, StartTcpdump, Armed
  <2>3. CASE UNCHANGED Armed
    BY <2>1, <2>3, Seen
  <2>4. CASE Armed' = Armed \cup {t}
    <3>1. Execute!Arm(t)
      BY <2>1, <2>4, PhaseIs DEF Execute!Arm, Armed, CompleteOnes
    <3> QED BY <3>1, <2>1, PhaseIs DEF Execute!ExecutionNext
  <2> QED BY <2>2, <2>3, <2>4
<1>2. CASE DownloadStep(t)
  <2>1. UNCHANGED <<pc, attack, yaml, prefix, errors, Armed>> /\ pc = "download"
    <3>1. ~StartTcpdump(t)
      BY <1>2, DownloadCases DEF StartTcpdump
    <3> QED BY <1>2, <3>1, DownloadCases, ArmedKept
  <2>2. CASE UNCHANGED CompleteOnes
    BY <2>1, <2>2, Seen
  <2>3. CASE CompleteOnes' = CompleteOnes \cup {t}
    <3>1. Execute!Fetch(t)
      BY <2>1, <2>3, PhaseIs DEF Execute!Fetch, Armed, CompleteOnes
    <3> QED BY <3>1, <2>1, PhaseIs DEF Execute!ExecutionNext
  <2> QED BY <1>2, <2>2, <2>3, CompleteGrows
<1>3. CASE ~StartTcpdump(t) /\ ~DownloadStep(t)
  <2>1. UNCHANGED <<pc, attack, yaml, prefix, errors, CompleteOnes>>
    BY <1>3 DEF TargetStep, TcpdumpOpens, TcpdumpEnds, Packet, DownloadStepFails, CompleteOnes, Complete
  <2> QED BY <1>3, <2>1, ArmedKept, Seen
<1> QED BY <1>1, <1>2, <1>3

LEMMA ExecutionAttack ==
    ASSUME TypeOK, ResultInv, AttackEnds
    PROVE  Execute!EndAttack
<1> USE DEF captureVars
<1>1. /\ pc = "attack" /\ UNCHANGED <<tcpdump, copied, yaml>> /\ yaml = FALSE
  BY DEF AttackEnds, ResultInv, TypeOK
<1>2. /\ attack' \in {"ok", "timeout", "failed", "interrupted"}
      /\ errors' = AttackError(attack')
      /\ attack' \in {"ok", "timeout"} => pc' = "download"
      /\ attack' \in {"failed", "interrupted"} => pc' = "cleanup"
  BY DEF AttackEnds, KeepsPartial
<1>3. (errors' # {}) = (attack' # "ok")
  BY <1>2 DEF AttackError
<1> QED BY <1>1, <1>2, <1>3, PhaseIs DEF Execute!EndAttack, Complete

LEMMA ExecutionReturns ==
    ASSUME TypeOK, FetchInv, ResultInv, Returns
    PROVE  [Execute!ExecutionNext]_Execute!executionVars
<1> USE DEF podVars, captureVars, downloadVars, cleanupVars
<1>0. UNCHANGED <<tcpdump, copied, attack, prefix>>
  BY DEF Returns, DeployReturns, CaptureReturns, DownloadReturns, CleanupReturns
<1>1. UNCHANGED Armed /\ UNCHANGED CompleteOnes
  BY <1>0 DEF Armed, CompleteOnes, Complete
<1>2. CASE /\ pc \in {"deploy", "capture"} /\ pc' \in {"cleanup", "returned"}
           /\ errors' # {} /\ UNCHANGED yaml
  <2>1. Execute!GiveUp
    BY <1>0, <1>1, <1>2, PhaseIs DEF Execute!GiveUp, Armed, CompleteOnes
  <2> QED BY <1>2, <2>1, PhaseIs DEF Execute!ExecutionNext
<1>3. CASE DeployReturns
  <2>1. CASE pc' = "capture" /\ UNCHANGED errors
    BY <1>0, <1>1, <1>3, <2>1, PhaseIs DEF DeployReturns, Execute!executionVars, Armed, CompleteOnes
  <2>2. CASE pc' = "returned" /\ errors' = {"deploy"}
    BY <1>2, <1>3, <2>2 DEF DeployReturns
  <2> QED BY <1>3, <2>1, <2>2 DEF DeployReturns
<1>4. CASE CaptureReturns
  <2>1. CASE pc' = "attack" /\ UNCHANGED errors /\ \A t \in Targets : starter[t] # "failed"
    <3>1. \A t \in Targets : starter[t] = "started"
      BY <1>4, <2>1 DEF CaptureReturns, StartersDone, TypeOK
    <3>2. Armed = Targets
      BY <3>1 DEF FetchInv, LaunchInv, Armed
    <3>3. Execute!BeginAttack
      BY <1>0, <1>1, <1>4, <2>1, <3>2, PhaseIs DEF CaptureReturns, Execute!BeginAttack, Armed, CompleteOnes
    <3> QED BY <1>4, <3>3, PhaseIs DEF CaptureReturns, Execute!ExecutionNext
  <2>2. CASE pc' = "cleanup" /\ errors' = {"capture"}
    BY <1>2, <1>4, <2>2 DEF CaptureReturns
  <2> QED BY <1>4, <2>1, <2>2 DEF CaptureReturns
<1>5. CASE DownloadReturns
  <2>0. /\ pc = "download" /\ pc' = "cleanup" /\ yaml = FALSE
        /\ attack = IF prefix = "full" THEN "ok" ELSE "timeout"
        /\ prefix \in {"full", "partial"}
    BY <1>5 DEF DownloadReturns, ResultInv, TypeOK
  <2>1. CASE DownloadsComplete /\ yaml' = TRUE /\ UNCHANGED errors
    <3>1. \A t \in Targets : Complete(t)
      BY <2>1, StageTypes DEF DownloadsComplete, FetchInv, Fetched, Complete, Files
    <3>2. CompleteOnes = Targets
      BY <3>1 DEF CompleteOnes
    <3>3. Execute!Keep
      BY <1>0, <1>1, <2>0, <2>1, <3>2, PhaseIs DEF Execute!Keep, Armed, CompleteOnes
    <3> QED BY <2>0, <3>3, PhaseIs DEF Execute!ExecutionNext
  <2>2. CASE UNCHANGED yaml /\ errors' # {}
    <3>1. Execute!GiveUp
      BY <1>0, <1>1, <2>0, <2>2, PhaseIs DEF Execute!GiveUp, Armed, CompleteOnes
    <3> QED BY <2>0, <3>1, PhaseIs DEF Execute!ExecutionNext
  <2> QED BY <1>5, <2>1, <2>2 DEF DownloadReturns
<1>6. CASE CleanupReturns
  <2>1. pc = "cleanup" /\ pc' = "returned" /\ UNCHANGED <<yaml, errors>>
    BY <1>6 DEF CleanupReturns
  <2>2. Execute!Return
    BY <1>0, <1>1, <2>1, PhaseIs DEF Execute!Return, Armed, CompleteOnes
  <2> QED BY <2>2 DEF Execute!ExecutionNext
<1> QED BY <1>3, <1>4, <1>5, <1>6 DEF Returns

LEMMA ExecutionStep ==
    TypeOK /\ FetchInv /\ ResultInv /\ [Next]_vars => [Execute!ExecutionNext]_Execute!executionVars
<1> SUFFICES ASSUME TypeOK, FetchInv, ResultInv, [Next]_vars
             PROVE  [Execute!ExecutionNext]_Execute!executionVars
  OBVIOUS
<1> USE DEF podVars, captureVars, downloadVars, cleanupVars
<1>1. CASE UNCHANGED <<pc, tcpdump, attack, prefix, copied, yaml, errors>>
  BY <1>1, Seen DEF Armed, CompleteOnes, Complete
<1>2. CASE \E p \in Pods : PodStep(p)
  BY <1>1, <1>2 DEF PodStep, CreatePod, AwaitReady, DeletePod, DeletionSeen, DeleteFails, PodGone
<1>3. CASE \E t \in Targets : TargetStep(t)
  BY <1>3, ExecutionTarget DEF FetchInv
<1>4. CASE AttackEnds
  BY <1>4, ExecutionAttack DEF Execute!ExecutionNext
<1>5. CASE DeployReturns \/ CaptureReturns \/ DownloadReturns \/ CleanupReturns
  BY <1>5, ExecutionReturns DEF Returns
<1>6. CASE CleanupDeadline \/ Cancel \/ UNCHANGED vars
  BY <1>1, <1>6 DEF CleanupDeadline, Cancel, vars
<1> QED BY <1>2, <1>3, <1>4, <1>5, <1>6, StepCases

\* Every behaviour of a scenario is one of Execution, for any set of targets: what it keeps
\* and what it returns is decided once, in order, and never revised by what comes later.
THEOREM ScenarioImplementsExecution == Spec => ImplementsExecution
BY ExecutionInits, ExecutionStep, TypeInit, TypeStep, FetchInit, FetchStep, ResultInit, ResultStep, PTL
   DEF Spec, ImplementsExecution, Execute!ExecutionSpec

-----------------------------------------------------------------------------
(***************************************************************************)
(* The goroutines end, and so does the scenario.  The hypothesis           *)
(* ScenarioGoesOn says that the steps fairness speaks of are possible; TLC *)
(* checks it.                                                              *)
(***************************************************************************)
In(phase) == pc = phase
DeployAt(p, place) == deploy[p] = place
DeployEnded(p) == deploy[p] \in {"ready", "failed"}
Launched(t) == starter[t] # "todo"
DownloadEnded(t) == stage[t] \in {Failed, Finished}

\* How ExecuteScenario goes from phase to phase; what is cancelled or expired stays so.
LEMMA PhaseMoves ==
    ASSUME TypeOK, [Next]_vars
    PROVE  /\ pc' # pc => Returns \/ AttackEnds
           /\ pc = "deploy" => pc' \in {"deploy", "capture", "returned"}
           /\ pc = "capture" => pc' \in {"capture", "attack", "cleanup"}
           /\ pc = "attack" => pc' \in {"attack", "download", "cleanup"}
           /\ pc = "download" => pc' \in {"download", "cleanup"}
           /\ pc = "cleanup" => pc' \in {"cleanup", "returned"}
           /\ pc = "returned" => pc' = "returned"
           /\ cancelled => cancelled'
           /\ expired => expired'
<1> USE DEF podVars, captureVars, downloadVars, cleanupVars
<1>1. ASSUME NEW p \in Pods, PodStep(p) PROVE UNCHANGED <<pc, cancelled, expired>>
  BY <1>1 DEF PodStep, CreatePod, AwaitReady, DeletePod, DeletionSeen, DeleteFails, PodGone
<1>2. ASSUME NEW t \in Targets, TargetStep(t) PROVE UNCHANGED <<pc, cancelled, expired>>
  BY <1>2 DEF TargetStep, StartTcpdump, DownloadStep, DownloadStepFails, TcpdumpOpens, TcpdumpEnds,
              Packet
<1>3. CASE DeployReturns
  BY <1>3 DEF DeployReturns, Returns
<1>4. CASE CaptureReturns
  BY <1>4 DEF CaptureReturns, Returns
<1>5. CASE AttackEnds
  BY <1>5 DEF AttackEnds
<1>6. CASE DownloadReturns
  BY <1>6 DEF DownloadReturns, Returns
<1>7. CASE CleanupReturns
  BY <1>7 DEF CleanupReturns, Returns
<1>8. CASE CleanupDeadline \/ Cancel \/ UNCHANGED vars
  BY <1>8 DEF CleanupDeadline, Cancel, vars
<1>9. CASE UNCHANGED <<pc, cancelled, expired>>
  BY <1>9 DEF TypeOK
<1> QED BY <1>1, <1>2, <1>3, <1>4, <1>5, <1>6, <1>7, <1>8, <1>9, StepCases

\* wg.Wait holds ExecuteScenario until every goroutine has ended.
LEMMA ReturnsWait ==
    ASSUME Returns
    PROVE  /\ pc = "deploy" => pc' # "deploy" /\ \A p \in Pods : DeployEnded(p)
           /\ pc = "capture" => pc' # "capture" /\ \A t \in Targets : Launched(t)
           /\ pc = "download" => pc' = "cleanup" /\ \A t \in Targets : DownloadEnded(t)
           /\ pc = "cleanup" => pc' = "returned" /\ \A p \in Pods : Ended(p)
           /\ pc \in {"deploy", "capture", "download", "cleanup"}
BY DEF Returns, DeployReturns, CaptureReturns, DownloadReturns, CleanupReturns, StartersDone,
       DeployEnded, Launched, DownloadEnded, Ended

\* The goroutines of one pod: what has ended stays so, and who moves it.
LEMMA PodMoves ==
    ASSUME TypeOK, [Next]_vars, NEW p \in Pods
    PROVE  /\ deploy'[p] = deploy[p] \/ CreatePod(p) \/ AwaitReady(p)
           /\ delete'[p] = delete[p] \/ DeletePod(p) \/ DeletionSeen(p) \/ DeleteFails(p)
<1> USE DEF podVars, captureVars, downloadVars, cleanupVars
<1>1. ASSUME NEW q \in Pods, PodStep(q), q # p
      PROVE  deploy'[p] = deploy[p] /\ delete'[p] = delete[p]
  BY <1>1 DEF TypeOK, PodStep, CreatePod, AwaitReady, DeletePod, DeletionSeen, DeleteFails, PodGone
<1>2. ASSUME PodStep(p)
      PROVE  /\ deploy'[p] = deploy[p] \/ CreatePod(p) \/ AwaitReady(p)
             /\ delete'[p] = delete[p] \/ DeletePod(p) \/ DeletionSeen(p) \/ DeleteFails(p)
  BY <1>2 DEF PodStep, CreatePod, AwaitReady, DeletePod, DeletionSeen, DeleteFails, PodGone
<1>3. ASSUME NEW t \in Targets, TargetStep(t) PROVE UNCHANGED <<deploy, delete>>
  BY <1>3 DEF TargetStep, StartTcpdump, DownloadStep, DownloadStepFails, TcpdumpOpens, TcpdumpEnds,
              Packet
<1>4. ASSUME DeployReturns \/ CaptureReturns \/ AttackEnds \/ DownloadReturns \/ CleanupReturns
             \/ CleanupDeadline \/ Cancel \/ UNCHANGED vars
      PROVE  UNCHANGED <<deploy, delete>>
  BY <1>4 DEF DeployReturns, CaptureReturns, AttackEnds, DownloadReturns, CleanupReturns,
              CleanupDeadline, Cancel, vars
<1> QED BY <1>1, <1>2, <1>3, <1>4, StepCases

\* The goroutines of one target.
LEMMA TargetMoves ==
    ASSUME TypeOK, [Next]_vars, NEW t \in Targets
    PROVE  /\ starter'[t] = starter[t] \/ StartTcpdump(t)
           /\ stage'[t] = stage[t] \/ Download(t)
           /\ \/ tcpdump'[t] = tcpdump[t]
              \/ StartTcpdump(t) \/ Download(t) \/ TcpdumpOpens(t) \/ TcpdumpEnds(t)
<1> USE DEF podVars, captureVars, downloadVars, cleanupVars
<1>1. ASSUME NEW u \in Targets, TargetStep(u), u # t
      PROVE  starter'[t] = starter[t] /\ stage'[t] = stage[t] /\ tcpdump'[t] = tcpdump[t]
  <2>1. CASE DownloadStep(u)
    <3>1. UNCHANGED starter /\ (UNCHANGED tcpdump \/ KillTcpdump(u))
      BY <2>1, DownloadCases DEF KillTcpdump, WaitTcpdump, Reorder, Copy
    <3>2. stage' = [stage EXCEPT ![u] = @ + 1]
      BY <2>1, DownloadCases
    <3> QED BY <1>1, <3>1, <3>2 DEF TypeOK, KillTcpdump
  <2>2. CASE ~DownloadStep(u)
    BY <1>1, <2>2 DEF TypeOK, TargetStep, StartTcpdump, DownloadStepFails, TcpdumpOpens, TcpdumpEnds,
                Packet
  <2> QED BY <2>1, <2>2
<1>2. ASSUME TargetStep(t)
      PROVE  /\ starter'[t] = starter[t] \/ StartTcpdump(t)
             /\ stage'[t] = stage[t] \/ Download(t)
             /\ \/ tcpdump'[t] = tcpdump[t]
                \/ StartTcpdump(t) \/ Download(t) \/ TcpdumpOpens(t) \/ TcpdumpEnds(t)
  <2>1. CASE DownloadStep(t)
    BY <2>1, DownloadCases DEF KillTcpdump, WaitTcpdump, Reorder, Copy, Download
  <2>2. CASE ~DownloadStep(t)
    BY <1>2, <2>2 DEF TargetStep, StartTcpdump, DownloadStepFails, TcpdumpOpens, TcpdumpEnds,
                Packet, Download
  <2> QED BY <2>1, <2>2
<1>3. ASSUME NEW p \in Pods, PodStep(p) PROVE UNCHANGED <<starter, stage, tcpdump>>
  BY <1>3 DEF PodStep, CreatePod, AwaitReady, DeletePod, DeletionSeen, DeleteFails, PodGone
<1>4. ASSUME DeployReturns \/ CaptureReturns \/ AttackEnds \/ DownloadReturns \/ CleanupReturns
             \/ CleanupDeadline \/ Cancel \/ UNCHANGED vars
      PROVE  UNCHANGED <<starter, stage, tcpdump>>
  BY <1>4 DEF DeployReturns, CaptureReturns, AttackEnds, DownloadReturns, CleanupReturns,
              CleanupDeadline, Cancel, vars
<1> QED BY <1>1, <1>2, <1>3, <1>4, StepCases

\* What each step of a goroutine makes of it.
LEMMA PodEffects ==
    ASSUME TypeOK, NEW p \in Pods
    PROVE  /\ CreatePod(p) => deploy[p] = "create" /\ deploy'[p] \in {"wait", "failed"}
           /\ AwaitReady(p) => deploy[p] = "wait" /\ deploy'[p] \in {"ready", "failed"}
           /\ DeletePod(p) => delete[p] = "todo" /\ delete'[p] = "polling"
           /\ DeletionSeen(p) => delete[p] = "polling" /\ delete'[p] = "gone"
           /\ DeleteFails(p) => delete[p] \in {"todo", "polling"} /\ delete'[p] \in {"refused", "timedOut"}
BY DEF TypeOK, CreatePod, AwaitReady, DeletePod, DeletionSeen, DeleteFails

LEMMA TargetEffects ==
    ASSUME TypeOK, NEW t \in Targets
    PROVE  /\ StartTcpdump(t) => starter'[t] \in {"started", "failed"} /\ pc = "capture"
           /\ Download(t) => /\ stage[t] \in 1..6 /\ pc = "download"
                             /\ stage'[t] \in {stage[t] + 1, Failed}
                             /\ cancelled => stage'[t] = Failed
           /\ TcpdumpEnds(t) => tcpdump'[t] = "dead"
<1>1. StartTcpdump(t) => starter'[t] \in {"started", "failed"} /\ pc = "capture"
  BY DEF TypeOK, StartTcpdump
<1>2. ASSUME DownloadStep(t)
      PROVE  stage[t] \in 1..6 /\ pc = "download" /\ stage'[t] = stage[t] + 1 /\ ~cancelled
  <2>1. stage[t] \in 1..6 /\ pc = "download" /\ ~cancelled
    BY <1>2, StageTypes DEF DownloadStep
  <2>2. stage' = [stage EXCEPT ![t] = @ + 1]
    BY <1>2, DownloadCases
  <2> QED BY <2>1, <2>2 DEF TypeOK
<1>3. ASSUME DownloadStepFails(t)
      PROVE  stage[t] \in 1..6 /\ pc = "download" /\ stage'[t] = Failed
  BY <1>3, StageTypes DEF TypeOK, DownloadStepFails
<1>4. TcpdumpEnds(t) => tcpdump'[t] = "dead"
  BY DEF TypeOK, TcpdumpEnds
<1> QED BY <1>1, <1>2, <1>3, <1>4 DEF Download

FairPod(p) == PodFairness(p) /\ []PodGoesOn(p)
FairTarget(t) == TargetFairness(t) /\ []TargetGoesOn(t)

\* A cancelled run ends every deployment, whether or not the pod becomes ready.
LEMMA DeploymentEnds ==
    ASSUME NEW p \in Pods
    PROVE  Spec /\ FairPod(p) => (cancelled ~> DeployEnded(p))
<1> DEFINE Creating == DeployAt(p, "create")
           Waiting == DeployAt(p, "wait")
           Done == DeployEnded(p)
<1>1. TypeOK => Creating \/ Waiting \/ Done
  BY DEF TypeOK, DeployAt, DeployEnded
<1>2. TypeOK /\ Creating /\ [Next]_vars => (Creating \/ Waiting \/ Done)'
  BY PodMoves, PodEffects DEF DeployAt, DeployEnded
<1>3. TypeOK /\ Waiting /\ [Next]_vars => (Waiting \/ Done)'
  BY PodMoves, PodEffects DEF DeployAt, DeployEnded
<1>4. TypeOK /\ cancelled /\ [Next]_vars => cancelled'
  BY PhaseMoves
<1>5. TypeOK /\ Creating /\ <<CreatePod(p)>>_vars => (Waiting \/ Done)'
  BY PodEffects DEF DeployAt, DeployEnded
<1>6. TypeOK /\ Waiting /\ <<AwaitStops(p)>>_vars => Done'
  BY PodEffects DEF DeployAt, DeployEnded, AwaitStops
<1>7. PodGoesOn(p) => /\ Creating => ENABLED <<CreatePod(p)>>_vars
                      /\ Waiting /\ cancelled => ENABLED <<AwaitStops(p)>>_vars
  BY DEF PodGoesOn, DeployAt
<1> HIDE DEF Creating, Waiting, Done
<1>8. Spec /\ FairPod(p) => (Creating ~> Waiting \/ Done)
  BY <1>2, <1>5, <1>7, TypeCorrect, PTL DEF Spec, FairPod, PodFairness
<1>9. Spec /\ FairPod(p) => (Waiting /\ cancelled ~> Done)
  BY <1>3, <1>4, <1>6, <1>7, TypeCorrect, PTL DEF Spec, FairPod, PodFairness
<1>10. Spec /\ FairPod(p) => (cancelled ~> Done)
  BY <1>1, <1>4, <1>8, <1>9, TypeCorrect, PTL DEF Spec
<1> QED BY <1>10 DEF Done

\* Every deletion ends at the deadline of the cleanup, at the latest.
LEMMA DeletionEnds ==
    ASSUME NEW p \in Pods
    PROVE  Spec /\ FairPod(p) /\ MainFairness /\ []ScenarioGoesOn => (In("cleanup") ~> Ended(p))
<1> DEFINE Deleting == In("cleanup") /\ ~Ended(p)
<1>1. TypeOK /\ Deleting /\ [Next]_vars => (Deleting \/ Ended(p))'
  <2>1. TypeOK /\ Deleting /\ Returns => FALSE
    BY ReturnsWait DEF In
  <2>2. TypeOK /\ Deleting /\ AttackEnds => FALSE
    BY DEF In, AttackEnds
  <2> QED BY <2>1, <2>2, PhaseMoves DEF In
<1>2. TypeOK /\ expired /\ [Next]_vars => expired'
  BY PhaseMoves
<1>3. CleanupDeadline => expired'
  BY DEF CleanupDeadline
<1>4. TypeOK /\ DeletionTimesOut(p) => Ended(p)'
  BY PodEffects DEF DeletionTimesOut, Ended
<1>5. ScenarioGoesOn /\ Deleting /\ ~expired => ENABLED <<CleanupDeadline>>_vars
  BY DEF ScenarioGoesOn, In
<1>6. TypeOK /\ PodGoesOn(p) /\ Deleting /\ expired => ENABLED <<DeletionTimesOut(p)>>_vars
  BY DEF TypeOK, PodGoesOn, In, Ended
<1>7. In("cleanup") => Deleting \/ Ended(p)
  OBVIOUS
<1> HIDE DEF Deleting
<1>8. Spec /\ FairPod(p) /\ MainFairness /\ []ScenarioGoesOn => (Deleting ~> expired \/ Ended(p))
  BY <1>1, <1>3, <1>5, TypeCorrect, PTL DEF Spec, MainFairness
<1>9. Spec /\ FairPod(p) => (Deleting /\ expired ~> Ended(p))
  BY <1>1, <1>2, <1>4, <1>6, TypeCorrect, PTL DEF Spec, FairPod, PodFairness
<1> QED BY <1>1, <1>7, <1>8, <1>9, TypeCorrect, PTL DEF Spec

\* The shell that starts tcpdump returns.
LEMMA StarterEnds ==
    ASSUME NEW t \in Targets
    PROVE  Spec /\ FairTarget(t) => (In("capture") ~> Launched(t))
<1> DEFINE Starting == In("capture") /\ ~Launched(t)
<1>1. TypeOK /\ Starting /\ [Next]_vars => (Starting \/ Launched(t))'
  <2>1. TypeOK /\ Starting /\ Returns => FALSE
    BY ReturnsWait DEF In
  <2>2. TypeOK /\ Starting /\ AttackEnds => FALSE
    BY DEF In, AttackEnds
  <2> QED BY <2>1, <2>2, PhaseMoves DEF In
<1>2. TypeOK /\ StartTcpdump(t) => Launched(t)'
  BY TargetEffects DEF Launched
<1>3. TargetGoesOn(t) /\ Starting => ENABLED <<StartTcpdump(t)>>_vars
  BY DEF TargetGoesOn, In, Launched
<1>4. In("capture") => Starting \/ Launched(t)
  OBVIOUS
<1> HIDE DEF Starting
<1> QED BY <1>1, <1>2, <1>3, <1>4, TypeCorrect, PTL DEF Spec, FairTarget, TargetFairness

\* A cancelled run ends every download, also the wait for tcpdump.
LEMMA DownloadStopped ==
    ASSUME NEW t \in Targets
    PROVE  Spec /\ FairTarget(t) => (cancelled /\ In("download") ~> DownloadEnded(t))
<1> DEFINE Fetching == In("download") /\ ~DownloadEnded(t)
<1>1. TypeOK /\ Fetching /\ [Next]_vars => (Fetching \/ DownloadEnded(t))'
  <2>1. TypeOK /\ Fetching /\ Returns => FALSE
    BY ReturnsWait DEF In
  <2>2. TypeOK /\ Fetching /\ AttackEnds => FALSE
    BY DEF In, AttackEnds
  <2> QED BY <2>1, <2>2, PhaseMoves DEF In
<1>2. TypeOK /\ cancelled /\ [Next]_vars => cancelled'
  BY PhaseMoves
<1>3. TypeOK /\ DownloadStops(t) => DownloadEnded(t)'
  BY TargetEffects DEF DownloadStops, DownloadEnded
<1>4. TypeOK /\ TargetGoesOn(t) /\ Fetching /\ cancelled => ENABLED <<DownloadStops(t)>>_vars
  BY StageTypes DEF TypeOK, TargetGoesOn, In, DownloadEnded
<1>5. In("download") => Fetching \/ DownloadEnded(t)
  OBVIOUS
<1> HIDE DEF Fetching
<1> QED BY <1>1, <1>2, <1>3, <1>4, <1>5, TypeCorrect, PTL DEF Spec, FairTarget, TargetFairness

LEMMA FairPodGoroutines ==
    ASSUME NEW p \in Pods
    PROVE  FairSpec /\ []ScenarioGoesOn => Spec /\ FairPod(p)
<1>1. Fairness => PodFairness(p)
  BY DEF Fairness
<1>2. ScenarioGoesOn => PodGoesOn(p)
  BY DEF ScenarioGoesOn
<1> QED BY <1>1, <1>2, PTL DEF FairSpec, FairPod

LEMMA FairTargetGoroutines ==
    ASSUME NEW t \in Targets
    PROVE  FairSpec /\ []ScenarioGoesOn => Spec /\ FairTarget(t)
<1>1. Fairness => TargetFairness(t)
  BY DEF Fairness
<1>2. ScenarioGoesOn => TargetGoesOn(t)
  BY DEF ScenarioGoesOn
<1> QED BY <1>1, <1>2, PTL DEF FairSpec, FairTarget

LEMMA FairMain == FairSpec => Spec /\ MainFairness
<1>1. Fairness => MainFairness
  BY DEF Fairness
<1> QED BY <1>1, PTL DEF FairSpec

\* No goroutine of a scenario, of however many targets, is one that ExecuteScenario could
\* wait for in vain: deployments and downloads end when the run is cancelled, the starters
\* of tcpdump by themselves, deletions at their deadline.
THEOREM GoroutinesAlwaysEnd == FairSpec /\ []ScenarioGoesOn => GoroutinesEnd
<1>1. ASSUME NEW p \in Pods
      PROVE  FairSpec /\ []ScenarioGoesOn
             => /\ cancelled ~> deploy[p] \in {"ready", "failed"}
                /\ pc = "cleanup" ~> delete[p] \in {"gone", "refused", "timedOut"}
  <2>1. FairSpec /\ []ScenarioGoesOn
        => (cancelled ~> DeployEnded(p)) /\ (In("cleanup") ~> Ended(p))
    BY FairPodGoroutines, FairMain, DeploymentEnds, DeletionEnds, PTL
  <2> QED BY <2>1 DEF DeployEnded, Ended, In
<1>2. ASSUME NEW t \in Targets
      PROVE  FairSpec /\ []ScenarioGoesOn
             => /\ pc = "capture" ~> starter[t] # "todo"
                /\ cancelled /\ pc = "download" ~> stage[t] \in {Failed, Finished}
  <2>1. FairSpec /\ []ScenarioGoesOn
        => (In("capture") ~> Launched(t)) /\ (cancelled /\ In("download") ~> DownloadEnded(t))
    BY FairTargetGoroutines, StarterEnds, DownloadStopped, PTL
  <2> QED BY <2>1 DEF Launched, DownloadEnded, In
<1> QED BY <1>1, <1>2 DEF GoroutinesEnd

\* What has ended stays so.
LEMMA EndedStays ==
    ASSUME TypeOK, [Next]_vars
    PROVE  /\ \A p \in Pods : DeployEnded(p) => DeployEnded(p)'
           /\ \A p \in Pods : Ended(p) => Ended(p)'
           /\ \A t \in Targets : Launched(t) => Launched(t)'
           /\ \A t \in Targets : DownloadEnded(t) => DownloadEnded(t)'
<1>1. \A p \in Pods : DeployEnded(p) => DeployEnded(p)'
  BY PodMoves, PodEffects DEF DeployEnded
<1>2. \A p \in Pods : Ended(p) => Ended(p)'
  BY PodMoves, PodEffects DEF Ended
<1>3. \A t \in Targets : Launched(t) => Launched(t)'
  BY TargetMoves, TargetEffects DEF Launched
<1>4. \A t \in Targets : DownloadEnded(t) => DownloadEnded(t)'
  BY TargetMoves, TargetEffects, StageTypes DEF DownloadEnded
<1> QED BY <1>1, <1>2, <1>3, <1>4

\* Once they have all ended wg.Wait lets ExecuteScenario go on.
LEMMA JoinsGoOn ==
    Spec /\ MainFairness /\ []ScenarioGoesOn
    => /\ In("deploy") /\ Joined ~> ~In("deploy")
       /\ In("capture") /\ Joined ~> ~In("capture")
       /\ In("download") /\ Joined ~> ~In("download")
       /\ In("cleanup") /\ Joined ~> ~In("cleanup")
<1>1. ASSUME TypeOK, Joined, [Next]_vars, pc' = pc PROVE Joined'
  BY <1>1, EndedStays DEF Joined, DeployEnded, Ended, Launched, DownloadEnded
<1>2. ASSUME NEW k \in {"deploy", "capture", "download", "cleanup"}
      PROVE  /\ TypeOK /\ In(k) /\ Joined /\ [Next]_vars => ((In(k) /\ Joined) \/ ~In(k))'
             /\ In(k) /\ Returns => (~In(k))'
  BY <1>1, ReturnsWait DEF In
<1>3. ScenarioGoesOn /\ Joined => ENABLED <<Returns>>_vars
  BY DEF ScenarioGoesOn
<1>4. Spec /\ MainFairness /\ []ScenarioGoesOn => (In("deploy") /\ Joined ~> ~In("deploy"))
  <2>1. /\ TypeOK /\ In("deploy") /\ Joined /\ [Next]_vars => ((In("deploy") /\ Joined) \/ ~In("deploy"))'
        /\ In("deploy") /\ Returns => (~In("deploy"))'
    BY <1>2
  <2> QED BY <2>1, <1>3, TypeCorrect, PTL DEF Spec, MainFairness
<1>5. Spec /\ MainFairness /\ []ScenarioGoesOn => (In("capture") /\ Joined ~> ~In("capture"))
  <2>1. /\ TypeOK /\ In("capture") /\ Joined /\ [Next]_vars => ((In("capture") /\ Joined) \/ ~In("capture"))'
        /\ In("capture") /\ Returns => (~In("capture"))'
    BY <1>2
  <2> QED BY <2>1, <1>3, TypeCorrect, PTL DEF Spec, MainFairness
<1>6. Spec /\ MainFairness /\ []ScenarioGoesOn => (In("download") /\ Joined ~> ~In("download"))
  <2>1. /\ TypeOK /\ In("download") /\ Joined /\ [Next]_vars => ((In("download") /\ Joined) \/ ~In("download"))'
        /\ In("download") /\ Returns => (~In("download"))'
    BY <1>2
  <2> QED BY <2>1, <1>3, TypeCorrect, PTL DEF Spec, MainFairness
<1>7. Spec /\ MainFairness /\ []ScenarioGoesOn => (In("cleanup") /\ Joined ~> ~In("cleanup"))
  <2>1. /\ TypeOK /\ In("cleanup") /\ Joined /\ [Next]_vars => ((In("cleanup") /\ Joined) \/ ~In("cleanup"))'
        /\ In("cleanup") /\ Returns => (~In("cleanup"))'
    BY <1>2
  <2> QED BY <2>1, <1>3, TypeCorrect, PTL DEF Spec, MainFairness
<1> QED BY <1>4, <1>5, <1>6, <1>7

\* A cancelled run gets through the attack, whatever the attack does.
LEMMA AttackStopped ==
    Spec /\ MainFairness /\ []ScenarioGoesOn => (cancelled /\ In("attack") ~> ~In("attack"))
<1>1. TypeOK /\ cancelled /\ [Next]_vars => cancelled'
  BY PhaseMoves
<1>2. In("attack") /\ AttackStops => (~In("attack"))'
  BY DEF In, AttackStops, AttackEnds
<1>3. ScenarioGoesOn /\ cancelled /\ In("attack") => ENABLED <<AttackStops>>_vars
  BY DEF ScenarioGoesOn, In
<1> QED BY <1>1, <1>2, <1>3, TypeCorrect, PTL DEF Spec, MainFairness

LEMMA PhaseOrder ==
    /\ TypeOK => \/ In("deploy") \/ In("capture") \/ In("attack") \/ In("download") \/ In("cleanup")
                 \/ In("returned")
    /\ TypeOK /\ In("deploy") /\ [Next]_vars => (In("deploy") \/ In("capture") \/ In("returned"))'
    /\ TypeOK /\ In("capture") /\ [Next]_vars => (In("capture") \/ In("attack") \/ In("cleanup"))'
    /\ TypeOK /\ In("attack") /\ [Next]_vars => (In("attack") \/ In("download") \/ In("cleanup"))'
    /\ TypeOK /\ In("download") /\ [Next]_vars => (In("download") \/ In("cleanup"))'
    /\ TypeOK /\ In("cleanup") /\ [Next]_vars => (In("cleanup") \/ In("returned"))'
    /\ TypeOK /\ In("returned") /\ [Next]_vars => In("returned")'
BY PhaseMoves DEF TypeOK, In

(***************************************************************************)
(* wg.Wait waits for the goroutines of all pods or targets.  That all have *)
(* ended for good once each has is a fact of finite sets: by induction on  *)
(* their size, a goroutine at a time, which these provers cannot do on     *)
(* temporal formulas.  JoinLaws states it for the four waits; it restricts *)
(* no behaviour of a scenario with finitely many targets, and OneTargetLaws*)
(* proves it for one.                                                      *)
(***************************************************************************)
DeployedForGood(p) == <>[]DeployEnded(p)
CleanedForGood(p) == <>[]Ended(p)
LaunchedForGood(t) == <>[]Launched(t)
FetchedForGood(t) == <>[]DownloadEnded(t)

AllDeployed == \A p \in Pods : DeployEnded(p)
AllCleaned == \A p \in Pods : Ended(p)
AllLaunched == \A t \in Targets : Launched(t)
AllFetched == \A t \in Targets : DownloadEnded(t)

JoinLaws ==
    /\ (\A p \in Pods : DeployedForGood(p)) => <>[]AllDeployed
    /\ (\A p \in Pods : CleanedForGood(p)) => <>[]AllCleaned
    /\ (\A t \in Targets : LaunchedForGood(t)) => <>[]AllLaunched
    /\ (\A t \in Targets : FetchedForGood(t)) => <>[]AllFetched

LEMMA AllJoined ==
    /\ In("deploy") /\ AllDeployed => Joined
    /\ In("cleanup") /\ AllCleaned => Joined
    /\ In("capture") /\ AllLaunched => Joined
    /\ In("download") /\ AllFetched => Joined
BY DEF In, Joined, AllDeployed, AllCleaned, AllLaunched, AllFetched, DeployEnded, Launched,
       DownloadEnded, Ended

LEMMA OnePodEnds ==
    ASSUME NEW p \in Pods
    PROVE  FairSpec /\ []ScenarioGoesOn
           => /\ <>cancelled => DeployedForGood(p)
              /\ <>In("cleanup") => CleanedForGood(p)
<1>1. TypeOK /\ [Next]_vars => /\ DeployEnded(p) => DeployEnded(p)'
                               /\ Ended(p) => Ended(p)'
  BY EndedStays
<1> QED BY <1>1, TypeCorrect, FairPodGoroutines, FairMain, DeploymentEnds, DeletionEnds,
           PTL DEF Spec, DeployedForGood, CleanedForGood

LEMMA OneTargetEnds ==
    ASSUME NEW t \in Targets
    PROVE  FairSpec /\ []ScenarioGoesOn
           => /\ <>In("capture") => LaunchedForGood(t)
              /\ <>(cancelled /\ In("download")) => FetchedForGood(t)
<1>1. TypeOK /\ [Next]_vars => /\ Launched(t) => Launched(t)'
                               /\ DownloadEnded(t) => DownloadEnded(t)'
  BY EndedStays
<1> QED BY <1>1, TypeCorrect, FairTargetGoroutines, StarterEnds, DownloadStopped,
           PTL DEF Spec, LaunchedForGood, FetchedForGood

\* The cleanup ends without anybody's help.
LEMMA CleansUp ==
    FairSpec /\ []ScenarioGoesOn /\ JoinLaws => (In("cleanup") ~> In("returned"))
<1>1. ASSUME NEW p \in Pods
      PROVE  FairSpec /\ []ScenarioGoesOn /\ <>In("cleanup") => CleanedForGood(p)
  BY OnePodEnds, PTL
<1>2. FairSpec /\ []ScenarioGoesOn /\ <>In("cleanup") => \A p \in Pods : CleanedForGood(p)
  BY <1>1
<1>3. FairSpec /\ []ScenarioGoesOn /\ JoinLaws /\ <>In("cleanup") => <>[]AllCleaned
  BY <1>2 DEF JoinLaws
<1>4. In("cleanup") => ~In("deploy") /\ ~In("capture") /\ ~In("attack") /\ ~In("download")
  BY DEF In
<1> QED BY <1>3, <1>4, AllJoined, PhaseOrder, TypeCorrect, JoinsGoOn, FairMain, PTL DEF Spec

LEMMA PhasesEnd ==
    FairSpec /\ []ScenarioGoesOn /\ JoinLaws
    => /\ ~<>[](cancelled /\ In("deploy"))
       /\ ~<>[]In("capture")
       /\ ~<>[](cancelled /\ In("attack"))
       /\ ~<>[](cancelled /\ In("download"))
<1>1. ASSUME NEW p \in Pods
      PROVE  FairSpec /\ []ScenarioGoesOn /\ <>cancelled => DeployedForGood(p)
  BY OnePodEnds, PTL
<1>2. ASSUME NEW t \in Targets
      PROVE  /\ FairSpec /\ []ScenarioGoesOn /\ <>In("capture") => LaunchedForGood(t)
             /\ FairSpec /\ []ScenarioGoesOn /\ <>(cancelled /\ In("download")) => FetchedForGood(t)
  BY OneTargetEnds, PTL
<1>3. FairSpec /\ []ScenarioGoesOn /\ JoinLaws /\ <>cancelled => <>[]AllDeployed
  <2>1. FairSpec /\ []ScenarioGoesOn /\ <>cancelled => \A p \in Pods : DeployedForGood(p)
    BY <1>1
  <2> QED BY <2>1 DEF JoinLaws
<1>4. FairSpec /\ []ScenarioGoesOn /\ JoinLaws /\ <>In("capture") => <>[]AllLaunched
  <2>1. FairSpec /\ []ScenarioGoesOn /\ <>In("capture") => \A t \in Targets : LaunchedForGood(t)
    BY <1>2
  <2> QED BY <2>1 DEF JoinLaws
<1>5. FairSpec /\ []ScenarioGoesOn /\ JoinLaws /\ <>(cancelled /\ In("download"))
      => <>[]AllFetched
  <2>1. FairSpec /\ []ScenarioGoesOn /\ <>(cancelled /\ In("download"))
        => \A t \in Targets : FetchedForGood(t)
    BY <1>2
  <2> QED BY <2>1 DEF JoinLaws
<1> QED BY <1>3, <1>4, <1>5, AllJoined, JoinsGoOn, AttackStopped, FairMain, PTL

\* A scenario of any number of targets returns once the run is cancelled, wherever it is:
\* a pod that never becomes ready, an attack without an end, a SIGINT that was lost or a pod
\* that keeps terminating do not keep it, in any order of the goroutines' steps.
THEOREM CancelledReturns ==
    FairSpec /\ []ScenarioGoesOn /\ JoinLaws => CancelledScenarioReturns
<1>1. TypeOK /\ cancelled /\ [Next]_vars => cancelled'
  BY PhaseMoves
<1>2. FairSpec /\ []ScenarioGoesOn /\ JoinLaws => (cancelled ~> In("returned"))
  BY <1>1, PhaseOrder, TypeCorrect, PhasesEnd, CleansUp, FairMain, PTL DEF Spec
<1>3. In("returned") <=> pc = "returned"
  BY DEF In
<1> QED BY <1>2, <1>3, PTL DEF CancelledScenarioReturns

\* With one target there are two goroutines at most to wait for.
LEMMA OneTargetLaws ==
    ASSUME NEW t \in Targets, Targets = {t}
    PROVE  JoinLaws
<1>1. /\ AllDeployed <=> DeployEnded(t) /\ DeployEnded(Attacker)
      /\ AllCleaned <=> Ended(t) /\ Ended(Attacker)
      /\ AllLaunched <=> Launched(t)
      /\ AllFetched <=> DownloadEnded(t)
  BY DEF AllDeployed, AllCleaned, AllLaunched, AllFetched, Pods
<1>2. t \in Pods /\ Attacker \in Pods
  BY DEF Pods
<1>3. (\A p \in Pods : DeployedForGood(p)) => <>[]AllDeployed
  <2>1. (\A p \in Pods : DeployedForGood(p)) => DeployedForGood(t) /\ DeployedForGood(Attacker)
    BY <1>2
  <2> QED BY <1>1, <2>1, PTL DEF DeployedForGood
<1>4. (\A p \in Pods : CleanedForGood(p)) => <>[]AllCleaned
  <2>1. (\A p \in Pods : CleanedForGood(p)) => CleanedForGood(t) /\ CleanedForGood(Attacker)
    BY <1>2
  <2> QED BY <1>1, <2>1, PTL DEF CleanedForGood
<1>5. (\A u \in Targets : LaunchedForGood(u)) => <>[]AllLaunched
  <2>1. (\A u \in Targets : LaunchedForGood(u)) => LaunchedForGood(t)
    OBVIOUS
  <2> QED BY <1>1, <2>1, PTL DEF LaunchedForGood
<1>6. (\A u \in Targets : FetchedForGood(u)) => <>[]AllFetched
  <2>1. (\A u \in Targets : FetchedForGood(u)) => FetchedForGood(t)
    OBVIOUS
  <2> QED BY <1>1, <2>1, PTL DEF FetchedForGood
<1> QED BY <1>3, <1>4, <1>5, <1>6 DEF JoinLaws

\* A cancelled scenario of one target returns, without a law of finite sets.
THEOREM CancelledOneTargetReturns ==
    ASSUME NEW t \in Targets, Targets = {t}
    PROVE  FairSpec /\ []ScenarioGoesOn => CancelledScenarioReturns
BY OneTargetLaws, CancelledReturns

\* A download that is at one of its stages.
AtStage(t, k) == In("download") /\ stage[t] = k
Dead(t) == tcpdump[t] = "dead"

LEMMA StageMoves ==
    ASSUME NEW t \in Targets, NEW k \in 1..6
    PROVE  /\ TypeOK /\ AtStage(t, k) /\ [Next]_vars
              => (AtStage(t, k) \/ AtStage(t, k + 1) \/ DownloadEnded(t))'
           /\ TypeOK /\ AtStage(t, k) /\ DownloadGoesOn(t) => (AtStage(t, k + 1) \/ DownloadEnded(t))'
<1>1. ASSUME TypeOK, AtStage(t, k), [Next]_vars, ~DownloadEnded(t)' PROVE In("download")'
  <2>1. ~DownloadEnded(t)
    BY <1>1, StageTypes DEF AtStage, DownloadEnded
  <2> QED BY <1>1, <2>1, PhaseMoves, ReturnsWait DEF AtStage, In, AttackEnds
<1>2. ASSUME TypeOK, AtStage(t, k), Download(t)
      PROVE  (AtStage(t, k + 1) \/ DownloadEnded(t))'
  <2>1. stage'[t] \in {k + 1, Failed}
    BY <1>2, TargetEffects DEF AtStage
  <2>2. pc' = pc
    BY <1>2 DEF Download, DownloadStep, DownloadStepFails
  <2> QED BY <1>2, <2>1, <2>2 DEF AtStage, In, DownloadEnded
<1>3. ASSUME TypeOK, AtStage(t, k), [Next]_vars
      PROVE  (AtStage(t, k) \/ AtStage(t, k + 1) \/ DownloadEnded(t))'
  BY <1>1, <1>2, <1>3, TargetMoves DEF AtStage
<1> QED BY <1>2, <1>3 DEF DownloadGoesOn

\* tcpdump that has ended does not begin again.
LEMMA DeadStays ==
    ASSUME TypeOK, [Next]_vars, NEW t \in Targets, Dead(t), In("download")
    PROVE  Dead(t)'
<1>1. ~StartTcpdump(t) /\ ~TcpdumpOpens(t)
  BY DEF Dead, In, StartTcpdump, TcpdumpOpens
<1>2. ASSUME Download(t) PROVE Dead(t)'
  <2>1. UNCHANGED tcpdump \/ KillTcpdump(t)
    BY <1>2, DownloadCases DEF Download, DownloadStepFails, WaitTcpdump, Reorder, Copy, captureVars
  <2> QED BY <2>1 DEF Dead, KillTcpdump, TypeOK
<1> QED BY <1>1, <1>2, TargetMoves, TargetEffects DEF Dead

\* Outside the wait for tcpdump's end nothing holds up a download.
LEMMA StageGoesOn ==
    ASSUME NEW t \in Targets
    PROVE  /\ TargetGoesOn(t) /\ AtStage(t, 1) => ENABLED <<DownloadGoesOn(t)>>_vars
           /\ TargetGoesOn(t) /\ AtStage(t, 2) /\ Dead(t) => ENABLED <<DownloadGoesOn(t)>>_vars
           /\ TargetGoesOn(t) /\ AtStage(t, 3) => ENABLED <<DownloadGoesOn(t)>>_vars
           /\ TargetGoesOn(t) /\ AtStage(t, 4) => ENABLED <<DownloadGoesOn(t)>>_vars
           /\ TargetGoesOn(t) /\ AtStage(t, 5) => ENABLED <<DownloadGoesOn(t)>>_vars
           /\ TargetGoesOn(t) /\ AtStage(t, 6) => ENABLED <<DownloadGoesOn(t)>>_vars
           /\ ~SignalLost /\ TargetGoesOn(t) /\ AtStage(t, 2) /\ ~Dead(t)
              => ENABLED <<StoppedTcpdumpEnds(t)>>_vars
BY StageTypes DEF TargetGoesOn, AtStage, In, Dead, Blocked, SignalLost

LEMMA DownloadGoesThrough ==
    ASSUME NEW t \in Targets
    PROVE  Spec /\ FairTarget(t) /\ []~SignalLost => (In("download") ~> DownloadEnded(t))
<1>1. TypeOK /\ AtStage(t, 2) /\ <<StoppedTcpdumpEnds(t)>>_vars => Dead(t)'
  BY TargetEffects DEF StoppedTcpdumpEnds, Dead
<1>2. TypeOK /\ AtStage(t, 2) /\ Dead(t) /\ [Next]_vars => Dead(t)'
  BY DeadStays DEF AtStage
<1>3. /\ TypeOK /\ AtStage(t, 1) /\ [Next]_vars
         => (AtStage(t, 1) \/ AtStage(t, 2) \/ DownloadEnded(t))'
      /\ TypeOK /\ AtStage(t, 1) /\ DownloadGoesOn(t) => (AtStage(t, 2) \/ DownloadEnded(t))'
  <2>1. 1 \in 1..6 /\ 1 + 1 = 2
    OBVIOUS
  <2> QED BY <2>1, StageMoves
<1>4. /\ TypeOK /\ AtStage(t, 2) /\ [Next]_vars
         => (AtStage(t, 2) \/ AtStage(t, 3) \/ DownloadEnded(t))'
      /\ TypeOK /\ AtStage(t, 2) /\ DownloadGoesOn(t) => (AtStage(t, 3) \/ DownloadEnded(t))'
  <2>1. 2 \in 1..6 /\ 2 + 1 = 3
    OBVIOUS
  <2> QED BY <2>1, StageMoves
<1>5. /\ TypeOK /\ AtStage(t, 3) /\ [Next]_vars
         => (AtStage(t, 3) \/ AtStage(t, 4) \/ DownloadEnded(t))'
      /\ TypeOK /\ AtStage(t, 3) /\ DownloadGoesOn(t) => (AtStage(t, 4) \/ DownloadEnded(t))'
  <2>1. 3 \in 1..6 /\ 3 + 1 = 4
    OBVIOUS
  <2> QED BY <2>1, StageMoves
<1>6. /\ TypeOK /\ AtStage(t, 4) /\ [Next]_vars
         => (AtStage(t, 4) \/ AtStage(t, 5) \/ DownloadEnded(t))'
      /\ TypeOK /\ AtStage(t, 4) /\ DownloadGoesOn(t) => (AtStage(t, 5) \/ DownloadEnded(t))'
  <2>1. 4 \in 1..6 /\ 4 + 1 = 5
    OBVIOUS
  <2> QED BY <2>1, StageMoves
<1>7. /\ TypeOK /\ AtStage(t, 5) /\ [Next]_vars
         => (AtStage(t, 5) \/ AtStage(t, 6) \/ DownloadEnded(t))'
      /\ TypeOK /\ AtStage(t, 5) /\ DownloadGoesOn(t) => (AtStage(t, 6) \/ DownloadEnded(t))'
  <2>1. 5 \in 1..6 /\ 5 + 1 = 6
    OBVIOUS
  <2> QED BY <2>1, StageMoves
<1>8. /\ TypeOK /\ AtStage(t, 6) /\ [Next]_vars
         => (AtStage(t, 6) \/ AtStage(t, 7) \/ DownloadEnded(t))'
      /\ TypeOK /\ AtStage(t, 6) /\ DownloadGoesOn(t) => (AtStage(t, 7) \/ DownloadEnded(t))'
  <2>1. 6 \in 1..6 /\ 6 + 1 = 7
    OBVIOUS
  <2> QED BY <2>1, StageMoves
<1>9. TypeOK /\ In("download") => \/ AtStage(t, 1) \/ AtStage(t, 2) \/ AtStage(t, 3) \/ AtStage(t, 4)
                                   \/ AtStage(t, 5) \/ AtStage(t, 6) \/ DownloadEnded(t)
  <2>1. ASSUME TypeOK, In("download") PROVE stage[t] \in 0..7
    BY <2>1, StageTypes DEF TypeOK
  <2> QED BY <2>1, StageTypes DEF AtStage, DownloadEnded
<1>10. AtStage(t, 7) => DownloadEnded(t)
  BY StageTypes DEF AtStage, DownloadEnded
<1>11. Spec /\ FairTarget(t) => (AtStage(t, 1) ~> AtStage(t, 2) \/ DownloadEnded(t))
  BY <1>3, StageGoesOn, TypeCorrect, PTL DEF Spec, FairTarget, TargetFairness
<1>12. Spec /\ FairTarget(t) /\ []~SignalLost
       => (AtStage(t, 2) ~> (AtStage(t, 2) /\ Dead(t)) \/ AtStage(t, 3) \/ DownloadEnded(t))
  BY <1>1, <1>4, StageGoesOn, TypeCorrect, PTL DEF Spec, FairTarget, TargetFairness
<1>13. Spec /\ FairTarget(t) => (AtStage(t, 2) /\ Dead(t) ~> AtStage(t, 3) \/ DownloadEnded(t))
  BY <1>2, <1>4, StageGoesOn, TypeCorrect, PTL DEF Spec, FairTarget, TargetFairness
<1>14. Spec /\ FairTarget(t) => (AtStage(t, 3) ~> AtStage(t, 4) \/ DownloadEnded(t))
  BY <1>5, StageGoesOn, TypeCorrect, PTL DEF Spec, FairTarget, TargetFairness
<1>15. Spec /\ FairTarget(t) => (AtStage(t, 4) ~> AtStage(t, 5) \/ DownloadEnded(t))
  BY <1>6, StageGoesOn, TypeCorrect, PTL DEF Spec, FairTarget, TargetFairness
<1>16. Spec /\ FairTarget(t) => (AtStage(t, 5) ~> AtStage(t, 6) \/ DownloadEnded(t))
  BY <1>7, StageGoesOn, TypeCorrect, PTL DEF Spec, FairTarget, TargetFairness
<1>17. Spec /\ FairTarget(t) => (AtStage(t, 6) ~> DownloadEnded(t))
  BY <1>8, <1>10, StageGoesOn, TypeCorrect, PTL DEF Spec, FairTarget, TargetFairness
<1> QED BY <1>9, <1>11, <1>12, <1>13, <1>14, <1>15, <1>16, <1>17, TypeCorrect, PTL DEF Spec

\* A scenario of any number of targets whose attack is over returns without anybody's help,
\* whatever commands and copies fail, unless a SIGINT came before tcpdump listened to it.
THEOREM EndedAttackAlwaysReturns ==
    FairSpec /\ []ScenarioGoesOn /\ JoinLaws => EndedAttackReturns
<1>1. ASSUME NEW t \in Targets
      PROVE  FairSpec /\ []ScenarioGoesOn /\ []~SignalLost /\ <>In("download") => FetchedForGood(t)
  <2>1. TypeOK /\ [Next]_vars => (DownloadEnded(t) => DownloadEnded(t)')
    BY EndedStays
  <2> QED BY <2>1, TypeCorrect, DownloadGoesThrough, FairTargetGoroutines, PTL
      DEF Spec, FetchedForGood
<1>2. FairSpec /\ []ScenarioGoesOn /\ []~SignalLost /\ <>In("download")
      => \A t \in Targets : FetchedForGood(t)
  BY <1>1
<1>3. FairSpec /\ []ScenarioGoesOn /\ JoinLaws /\ []~SignalLost /\ <>In("download")
      => <>[]AllFetched
  BY <1>2 DEF JoinLaws
<1>4. FairSpec /\ []ScenarioGoesOn /\ JoinLaws /\ []~SignalLost
      => (In("download") ~> ~In("download"))
  BY <1>3, AllJoined, JoinsGoOn, FairMain, PTL
<1>5. FairSpec /\ []ScenarioGoesOn /\ JoinLaws /\ []~SignalLost
      => (In("download") \/ In("cleanup") ~> In("returned"))
  BY <1>4, PhaseOrder, TypeCorrect, CleansUp, FairMain, PTL DEF Spec
<1>6. /\ In("returned") <=> pc = "returned"
      /\ In("download") \/ In("cleanup") <=> pc \in {"download", "cleanup"}
  BY DEF In
<1> QED BY <1>5, <1>6, PTL DEF EndedAttackReturns

\* The same for one target, without a law of finite sets.
THEOREM EndedAttackOneTargetReturns ==
    ASSUME NEW t \in Targets, Targets = {t}
    PROVE  FairSpec /\ []ScenarioGoesOn => EndedAttackReturns
BY OneTargetLaws, EndedAttackAlwaysReturns

=============================================================================
