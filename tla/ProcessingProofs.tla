-------------------------- MODULE ProcessingProofs --------------------------
(***************************************************************************)
(* Proofs about Processing, for any scenarios, targets and processing pods *)
(* and any number of runs of the program.                                  *)
(***************************************************************************)
EXTENDS Processing, FiniteSetTheorems, TLAPS

\* A call whose goroutine has not returned.
PendingPlaces == {"upload", "uploading", "run", "running", "log", "download", "remove"}
Pending(s) == {c \in CallsOf(s) : at[c] \in PendingPlaces}

-----------------------------------------------------------------------------
(***************************************************************************)
(* Calls, files and directories.                                           *)
(***************************************************************************)

LEMMA CallParts ==
    ASSUME NEW c \in Calls
    PROVE  /\ c[1] \in Jobs /\ c[2] \in Processors /\ c = <<c[1], c[2]>>
           /\ c[1][1] \in Scenarios
           /\ c \in CallsOf(c[1][1])
           /\ File(c) \in Processors \X Keys
           /\ Report(c) \in Dirs \X Processors
<1>1. c[1] \in Jobs /\ c[2] \in Processors /\ c = <<c[1], c[2]>>
  BY DEF Calls
<1>2. c[1][1] \in Scenarios
  BY <1>1 DEF Jobs
<1>3. Key(c[1]) \in Keys /\ Dir(c[1]) \in Dirs
  BY <1>1 DEF Keys, Dirs
<1> QED BY <1>1, <1>2, <1>3 DEF CallsOf, File, Report

\* There are finitely many calls.
LEMMA CallsFinite == IsFiniteSet(Calls) /\ \A s : IsFiniteSet(CallsOf(s)) /\ CallsOf(s) \subseteq Calls
<1> USE ProcessingAssumption
<1> DEFINE f == [s \in Scenarios |-> {s} \X DOMAIN TargetNames[s]]
           T == {{s} \X DOMAIN TargetNames[s] : s \in Scenarios}
<1>1. IsFiniteSet(T)
  <2>1. f \in Surjection(Scenarios, T)
    BY DEF Surjection
  <2> QED BY <2>1, FS_Surjection
<1>2. ASSUME NEW s \in Scenarios PROVE IsFiniteSet({s} \X DOMAIN TargetNames[s])
  <2>1. DOMAIN TargetNames[s] = 1..Len(TargetNames[s]) /\ Len(TargetNames[s]) \in Nat
    OBVIOUS
  <2>2. IsFiniteSet(1..Len(TargetNames[s]))
    BY <2>1, FS_Interval
  <2> QED BY <2>1, <2>2, FS_Singleton, FS_Product
<1>3. IsFiniteSet(Jobs)
  <2>1. \A S \in T : IsFiniteSet(S)
    BY <1>2
  <2> QED BY <1>1, <2>1, FS_UNION DEF Jobs
<1>4. IsFiniteSet(Calls)
  BY <1>3, FS_Product DEF Calls
<1>5. ASSUME NEW s PROVE IsFiniteSet(CallsOf(s)) /\ CallsOf(s) \subseteq Calls
  <2>1. CallsOf(s) \in SUBSET Calls
    BY DEF CallsOf
  <2> QED BY <1>4, <2>1, FS_Subset
<1> QED BY <1>4, <1>5

\* The directory of a target whose name nobody shares is its own ...
LEMMA OwnDir ==
    ASSUME NEW j \in Jobs, NEW k \in Jobs, Unshared(j), Dir(k) = Dir(j)
    PROVE  k = j
<1> SUFFICES ASSUME k # j PROVE FALSE
  OBVIOUS
<1>1. /\ j = <<j[1], j[2]>> /\ j[1] \in Scenarios /\ j[2] \in DOMAIN TargetNames[j[1]]
      /\ k = <<k[1], k[2]>> /\ k[1] \in Scenarios /\ k[2] \in DOMAIN TargetNames[k[1]]
  BY DEF Jobs
<1>2. Joined(k) # Joined(j) /\ (k[1] # j[1] => ScenarioName[k[1]] # ScenarioName[j[1]])
  BY DEF Unshared
<1>3. CASE k[1] # j[1]
  BY <1>2, <1>3 DEF Dir
<1>4. CASE k[1] = j[1] /\ j[1] \in Multi
  <2>1. TargetName(k) = TargetName(j)
    BY <1>4 DEF Dir
  <2> QED BY <1>2, <1>4, <2>1 DEF Joined
<1>5. CASE k[1] = j[1] /\ j[1] \notin Multi
  <2>1. Len(TargetNames[j[1]]) = 1 /\ TargetNames[j[1]] \in Seq(Seq(STRING))
    BY <1>1, <1>5, ProcessingAssumption
  <2>2. DOMAIN TargetNames[j[1]] = 1..1
    BY <2>1
  <2>3. j[2] = 1 /\ k[2] = 1
    BY <1>1, <1>5, <2>2
  <2> QED BY <1>1, <1>5, <2>3
<1> QED BY <1>3, <1>4, <1>5

\* ... and so are its files in the pods and its results on the host.
LEMMA OwnFile ==
    ASSUME NEW c \in Calls, NEW d \in Calls, Unshared(c[1])
    PROVE  /\ File(d) = File(c) => d = c
           /\ Report(d) = Report(c) => d = c
<1>1. c[1] \in Jobs /\ d[1] \in Jobs /\ c = <<c[1], c[2]>> /\ d = <<d[1], d[2]>>
  BY CallParts
<1>2. ASSUME File(d) = File(c) PROVE d = c
  <2>1. d[2] = c[2] /\ Joined(d[1]) = Joined(c[1])
    BY <1>2 DEF File, Key, Joined
  <2>2. d[1] = c[1]
    BY <1>1, <2>1 DEF Unshared
  <2> QED BY <1>1, <2>1, <2>2
<1>3. ASSUME Report(d) = Report(c) PROVE d = c
  <2>1. d[2] = c[2] /\ Dir(d[1]) = Dir(c[1])
    BY <1>3 DEF Report
  <2>2. d[1] = c[1]
    BY <1>1, <2>1, OwnDir
  <2> QED BY <1>1, <2>1, <2>2
<1> QED BY <1>2, <1>3

-----------------------------------------------------------------------------
(***************************************************************************)
(* The WaitGroup counts the calls that have not returned.                  *)
(***************************************************************************)
CountInv == \A s \in Scenarios : wg[s] = Cardinality(Pending(s))

LEMMA FiniteCount ==
    ASSUME NEW s, NEW place
    PROVE  /\ IsFiniteSet({c \in CallsOf(s) : place[c] \in PendingPlaces})
           /\ Cardinality({c \in CallsOf(s) : place[c] \in PendingPlaces}) \in Nat
<1>1. {c \in CallsOf(s) : place[c] \in PendingPlaces} \in SUBSET CallsOf(s)
  OBVIOUS
<1> QED BY <1>1, CallsFinite, FS_Subset, FS_CardinalityType

LEMMA PendingFinite == \A s : IsFiniteSet(Pending(s)) /\ Cardinality(Pending(s)) \in Nat
BY FiniteCount DEF Pending

\* A step of a call that does not return leaves the count alone ...
LEMMA CountGoes ==
    ASSUME TypeOK, CountInv, NEW c \in Calls, at[c] \in PendingPlaces,
           NEW place \in PendingPlaces, Goes(c, place), UNCHANGED wg
    PROVE  CountInv'
<1>1. ASSUME NEW s \in Scenarios PROVE Pending(s)' = Pending(s)
  <2>1. \A d \in CallsOf(s) : at'[d] \in PendingPlaces <=> at[d] \in PendingPlaces
    BY CallsFinite DEF TypeOK, Goes
  <2> QED BY <2>1 DEF Pending
<1> QED BY <1>1 DEF CountInv

\* ... and a return, with its deferred Done, takes one off.
LEMMA CountReturns ==
    ASSUME TypeOK, CountInv, NEW c \in Calls, at[c] \in PendingPlaces,
           NEW end \in Ends, Returns(c, end)
    PROVE  CountInv'
<1>0. c[1][1] \in Scenarios /\ c \in CallsOf(c[1][1])
  BY CallParts
<1>1. end \notin PendingPlaces
  BY DEF Ends, PendingPlaces
<1>2. ASSUME NEW s \in Scenarios PROVE wg'[s] = Cardinality(Pending(s)')
  <2>1. CASE s = c[1][1]
    <3>1. Pending(s)' = Pending(s) \ {c}
      <4>1. \A d \in CallsOf(s) : at'[d] \in PendingPlaces <=> at[d] \in PendingPlaces /\ d # c
        BY <1>1, CallsFinite DEF TypeOK, Goes, Returns
      <4> QED BY <4>1 DEF Pending
    <3>2. c \in Pending(s)
      BY <1>0, <2>1 DEF Pending
    <3>3. Cardinality(Pending(s)') = Cardinality(Pending(s)) - 1
      BY <3>1, <3>2, PendingFinite, FS_RemoveElement
    <3> QED BY <2>1, <3>3 DEF TypeOK, CountInv, Returns
  <2>2. CASE s # c[1][1]
    <3>1. c \notin CallsOf(s)
      BY <2>2 DEF CallsOf
    <3>2. \A d \in CallsOf(s) : at'[d] = at[d]
      BY <3>1, CallsFinite DEF TypeOK, Goes, Returns
    <3>3. Pending(s)' = Pending(s)
      BY <3>2 DEF Pending
    <3> QED BY <1>0, <2>2, <3>3 DEF TypeOK, CountInv, Returns
  <2> QED BY <2>1, <2>2
<1> QED BY <1>2 DEF CountInv

\* Where a run starts, the calls of the scenarios in S are all pending, the others absent.
LEMMA PendingAtStart ==
    ASSUME NEW S, NEW s \in Scenarios, NEW place, place = Places0(S)
    PROVE  {c \in CallsOf(s) : place[c] \in PendingPlaces} = IF s \in S THEN CallsOf(s) ELSE {}
<1>1. \A c \in CallsOf(s) : c \in Calls /\ c[1][1] = s
  BY DEF CallsOf
<1>2. \A c \in CallsOf(s) : place[c] = IF s \in S THEN "upload" ELSE "absent"
  BY <1>1 DEF Places0
<1> QED BY <1>2 DEF PendingPlaces

LEMMA CountStart ==
    ASSUME NEW S, NEW place, place = Places0(S), NEW s \in Scenarios
    PROVE  Wg0(S)[s] = Cardinality({c \in CallsOf(s) : place[c] \in PendingPlaces})
BY PendingAtStart, FS_EmptySet DEF Wg0

\* Every action of a call moves a call that has not returned, to a place or to its return.
CallStep(c) ==
    \/ BeginUpload(c) \/ EndUpload(c) \/ UploadFails(c)
    \/ StartCommand(c) \/ EndCommand(c) \/ CommandFails(c) \/ ExecGivesUp(c)
    \/ WriteLog(c) \/ Download(c) \/ DownloadFails(c) \/ RemoveOutput(c)

LEMMA CallMoves ==
    ASSUME NEW c, CallStep(c)
    PROVE  /\ at[c] \in PendingPlaces
           /\ \/ \E place \in PendingPlaces : Goes(c, place) /\ UNCHANGED wg
              \/ \E end \in Ends : Returns(c, end)
           /\ UNCHANGED <<run, outcome, disturbed>>
BY DEF CallStep, PendingPlaces, Ends, BeginUpload, EndUpload, UploadFails, UploadError, StartCommand,
       EndCommand, CommandFails, ExecGivesUp, WriteLog, Download, DownloadFails, DownloadError,
       RemoveOutput

LEMMA CountStep == TypeOK /\ CountInv /\ [Next]_vars => CountInv'
<1> SUFFICES ASSUME TypeOK, CountInv, [Next]_vars PROVE CountInv'
  OBVIOUS
<1>1. ASSUME NEW c \in Calls, CallStep(c) PROVE CountInv'
  BY <1>1, CallMoves, CountGoes, CountReturns
<1>2. CASE UNCHANGED <<at, wg>>
  BY <1>2 DEF CountInv, Pending
<1>3. CASE NextRun
  <2>1. PICK S \in Processed : at' = Places0(S) /\ wg' = Wg0(S)
    BY <1>3 DEF NextRun
  <2> QED BY <2>1, CountStart DEF CountInv, Pending
<1>4. ASSUME NEW s \in Scenarios, ProcessResultsReturns(s) PROVE CountInv'
  BY <1>2, <1>4 DEF ProcessResultsReturns
<1>5. ASSUME NEW o \in orphans, OrphanWrites(o) PROVE CountInv'
  BY <1>2, <1>5 DEF OrphanWrites
<1> QED BY <1>1, <1>2, <1>3, <1>4, <1>5 DEF Next, CallStep, vars

-----------------------------------------------------------------------------
(***************************************************************************)
(* Type correctness.                                                       *)
(***************************************************************************)
LEMMA ContentTypes ==
    /\ Nothing \in Contents /\ Partial \in Contents
    /\ \A k \in Jobs, r \in 1..MaxRuns : <<k, r>> \in Contents
BY DEF Contents, Captures

LEMMA StartTypes ==
    ASSUME NEW S
    PROVE  /\ Places0(S) \in [Calls -> Places]
           /\ Wg0(S) \in [Scenarios -> Nat]
           /\ Outcome0(S) \in [Scenarios -> {"none", "absent"} \cup Ends]
<1>1. \A s \in Scenarios : Cardinality(CallsOf(s)) \in Nat
  BY CallsFinite, FS_CardinalityType
<1> QED BY <1>1 DEF Places0, Wg0, Outcome0, Places, Ends

LEMMA InitCorrect == Init => TypeOK /\ CountInv
<1> SUFFICES ASSUME Init PROVE TypeOK /\ CountInv
  OBVIOUS
<1>1. PICK S \in Processed : at = Places0(S) /\ wg = Wg0(S) /\ outcome = Outcome0(S)
  BY DEF Init
<1>2. CountInv
  BY <1>1, CountStart DEF CountInv, Pending
<1>3. TypeOK
  BY <1>1, StartTypes, ContentTypes, ProcessingAssumption DEF Init, TypeOK
<1> QED BY <1>2, <1>3

\* The counter stays a natural number because it counts.
LEMMA TypeStep == TypeOK /\ CountInv /\ [Next]_vars => TypeOK'
<1> SUFFICES ASSUME TypeOK, CountInv, [Next]_vars PROVE TypeOK'
  OBVIOUS
<1>1. ASSUME wg' \in [Scenarios -> Int] PROVE wg' \in [Scenarios -> Nat]
  <2>1. CountInv'
    BY CountStep
  <2>2. \A s \in Scenarios : wg'[s] \in Nat
    <3>1. \A s \in Scenarios : Cardinality({c \in CallsOf(s) : at'[c] \in PendingPlaces}) \in Nat
      BY FiniteCount
    <3>2. \A s \in Scenarios : wg'[s] = Cardinality({c \in CallsOf(s) : at'[c] \in PendingPlaces})
      BY <2>1 DEF CountInv, Pending
    <3> QED BY <3>1, <3>2
  <2> QED BY <1>1, <2>2
<1>2. ASSUME NEW c \in Calls, CallStep(c) PROVE TypeOK'
  <2> USE CallParts, ContentTypes
  <2>1. at' \in [Calls -> Places] /\ wg' \in [Scenarios -> Int]
    <3>1. CASE \E place \in PendingPlaces : Goes(c, place) /\ UNCHANGED wg
      BY <3>1 DEF TypeOK, Goes, Places, PendingPlaces
    <3>2. CASE \E end \in Ends : Returns(c, end)
      BY <3>2 DEF TypeOK, Goes, Returns, Places, Ends
    <3> QED BY <1>2, <3>1, <3>2, CallMoves
  <2>2. read' \in [Calls -> Contents] /\ silent' \in [Calls -> BOOLEAN]
    <3>1. input[File(c)] \in Contents
      BY DEF TypeOK
    <3>2. UNCHANGED read \/ Forget(c) \/ read' = [read EXCEPT ![c] = input[File(c)]]
      BY <1>2 DEF CallStep, BeginUpload, EndUpload, UploadFails, UploadError, StartCommand, EndCommand,
            CommandFails, ExecGivesUp, WriteLog, Download, DownloadFails, DownloadError, RemoveOutput
    <3>5. UNCHANGED silent \/ silent' = [silent EXCEPT ![c] = TRUE]
      BY <1>2 DEF CallStep, BeginUpload, EndUpload, UploadFails, UploadError, StartCommand, EndCommand,
            CommandFails, ExecGivesUp, WriteLog, Download, DownloadFails, DownloadError, RemoveOutput
    <3>3. read' \in [Calls -> Contents]
      BY <3>1, <3>2 DEF TypeOK, Forget
    <3>4. silent' \in [Calls -> BOOLEAN]
      BY <3>5 DEF TypeOK
    <3> QED BY <3>3, <3>4
  <2>3. input' \in [Processors \X Keys -> Contents] /\ output' \in [Processors \X Keys -> Contents]
    <3>1. read[c] \in Contents /\ \A k \in Jobs : <<k, run>> \in Contents
      BY DEF TypeOK
    <3>2. UNCHANGED input \/ \E x \in Contents : input' = [input EXCEPT ![File(c)] = x]
      BY <1>2, <3>1 DEF podVars, CallStep, BeginUpload, EndUpload, UploadFails, UploadError, StartCommand, EndCommand,
            CommandFails, ExecGivesUp, WriteLog, Download, DownloadFails, DownloadError, RemoveOutput
    <3>3. UNCHANGED output \/ \E x \in Contents : output' = [output EXCEPT ![File(c)] = x]
      BY <1>2, <3>1 DEF podVars, CallStep, BeginUpload, EndUpload, UploadFails, UploadError, StartCommand, EndCommand,
            CommandFails, ExecGivesUp, WriteLog, Download, DownloadFails, DownloadError, RemoveOutput
    <3>4. input' \in [Processors \X Keys -> Contents]
      BY <3>2 DEF TypeOK
    <3>5. output' \in [Processors \X Keys -> Contents]
      BY <3>3 DEF TypeOK
    <3> QED BY <3>4, <3>5
  <2>4. report' \in [Dirs \X Processors -> Contents] /\ orphans' \subseteq (Processors \X Keys \X Contents)
    <3>1. output[File(c)] \in Contents /\ Orphan(c) \in Processors \X Keys \X Contents
      BY DEF TypeOK, Orphan, File
    <3> QED BY <1>2, <3>1
        DEF TypeOK, CallStep, BeginUpload, EndUpload, UploadFails, UploadError, StartCommand, EndCommand,
            CommandFails, ExecGivesUp, WriteLog, Download, DownloadFails, DownloadError, RemoveOutput
  <2> QED BY <1>1, <1>2, <2>1, <2>2, <2>3, <2>4, CallMoves DEF TypeOK
<1>3. ASSUME NEW s \in Scenarios, ProcessResultsReturns(s) PROVE TypeOK'
  BY <1>3 DEF TypeOK, ProcessResultsReturns, podVars, Ends
<1>4. CASE NextRun
  <2>1. \A c \in Calls : Orphan(c) \in Processors \X Keys \X Contents
    BY CallParts DEF TypeOK, Orphan, File
  <2>2. run' \in 1..MaxRuns /\ orphans' \subseteq (Processors \X Keys \X Contents)
    BY <1>4, <2>1, ProcessingAssumption DEF TypeOK, NextRun
  <2> QED BY <1>4, <2>2, StartTypes, ContentTypes DEF TypeOK, NextRun, podVars
<1>5. ASSUME NEW o \in orphans, OrphanWrites(o) PROVE TypeOK'
  <2>1. o[1] \in Processors /\ o[2] \in Keys /\ o[3] \in Contents
    BY DEF TypeOK
  <2>2. PICK x \in Contents : output' = [output EXCEPT ![<<o[1], o[2]>>] = x]
    BY <1>5, <2>1, ContentTypes DEF OrphanWrites
  <2>3. output' \in [Processors \X Keys -> Contents]
    BY <2>1, <2>2 DEF TypeOK
  <2>4. orphans' \subseteq (Processors \X Keys \X Contents) /\ disturbed' \subseteq (Processors \X Keys)
    BY <1>5, <2>1 DEF TypeOK, OrphanWrites
  <2> QED BY <1>5, <2>3, <2>4 DEF TypeOK, OrphanWrites
<1>6. CASE UNCHANGED vars
  BY <1>6 DEF TypeOK, vars, podVars
<1> QED BY <1>2, <1>3, <1>4, <1>5, <1>6 DEF Next, CallStep

\* Type correctness: whatever fails, no WaitGroup of a ProcessResults falls below zero.
THEOREM TypeCorrect == Spec => []TypeOK
BY InitCorrect, CountStep, TypeStep, PTL DEF Spec

-----------------------------------------------------------------------------
(***************************************************************************)
(* Whose analysis a result holds.                                          *)
(***************************************************************************)

\* The capture of this run is handed on: from the file in the pod to the command, by it
\* to the output, from there to the host.
Clean(c) == ~silent[c] /\ File(c) \notin disturbed
Fresh(c) ==
    /\ at[c] = "run" => input[File(c)] = <<c[1], run>>
    /\ at[c] = "running" => read[c] = <<c[1], run>>
    /\ at[c] \in {"log", "download"} /\ Clean(c) => output[File(c)] = <<c[1], run>>
    /\ at[c] \in {"remove", "ok"} /\ Clean(c) => report[Report(c)] = <<c[1], run>>

FreshInv == \A c \in Calls : Unshared(c[1]) => Fresh(c)

\* What is in a file is not nothing.
LEMMA Something == Partial # Nothing /\ \A x, y : <<x, y>> # Nothing
BY DEF Partial, Nothing

\* No step of another call touches the files of a call whose names nobody shares.
LEMMA OthersKeepOut ==
    ASSUME TypeOK, NEW c \in Calls, NEW d \in Calls, d # c, Unshared(c[1]), CallStep(d)
    PROVE  /\ at'[c] = at[c] /\ read'[c] = read[c] /\ silent'[c] = silent[c]
           /\ input'[File(c)] = input[File(c)] /\ output'[File(c)] = output[File(c)]
           /\ report'[Report(c)] = report[Report(c)]
           /\ UNCHANGED <<run, disturbed, outcome>>
<1>1. File(d) # File(c) /\ Report(d) # Report(c)
  BY OwnFile
<1>2. /\ File(c) \in Processors \X Keys /\ File(d) \in Processors \X Keys
      /\ Report(c) \in Dirs \X Processors /\ Report(d) \in Dirs \X Processors
  BY CallParts
<1>3. at'[c] = at[c] /\ read'[c] = read[c]
  BY DEF TypeOK, CallStep, BeginUpload, EndUpload, UploadFails, UploadError, StartCommand, EndCommand,
       CommandFails, ExecGivesUp, WriteLog, Download, DownloadFails, DownloadError, RemoveOutput,
       Returns, Goes, Forget, podVars
<1>4. silent'[c] = silent[c]
  BY DEF TypeOK, CallStep, BeginUpload, EndUpload, UploadFails, UploadError, StartCommand, EndCommand,
       CommandFails, ExecGivesUp, WriteLog, Download, DownloadFails, DownloadError, RemoveOutput,
       Returns, Goes, Forget, podVars
<1>5. input'[File(c)] = input[File(c)]
  BY <1>1, <1>2 DEF TypeOK, CallStep, BeginUpload, EndUpload, UploadFails, UploadError, StartCommand, EndCommand,
       CommandFails, ExecGivesUp, WriteLog, Download, DownloadFails, DownloadError, RemoveOutput,
       Returns, Goes, Forget, podVars
<1>6. output'[File(c)] = output[File(c)]
  BY <1>1, <1>2 DEF TypeOK, CallStep, BeginUpload, EndUpload, UploadFails, UploadError, StartCommand, EndCommand,
       CommandFails, ExecGivesUp, WriteLog, Download, DownloadFails, DownloadError, RemoveOutput,
       Returns, Goes, Forget, podVars
<1>7. report'[Report(c)] = report[Report(c)]
  BY <1>1, <1>2 DEF TypeOK, CallStep, BeginUpload, EndUpload, UploadFails, UploadError, StartCommand, EndCommand,
       CommandFails, ExecGivesUp, WriteLog, Download, DownloadFails, DownloadError, RemoveOutput,
       Returns, Goes, Forget, podVars
<1> QED BY <1>3, <1>4, <1>5, <1>6, <1>7, CallMoves

\* The steps of the call itself, one by one.
LEMMA FreshOwnStep ==
    ASSUME TypeOK, NEW c \in Calls, Unshared(c[1]), Fresh(c), CallStep(c)
    PROVE  Fresh(c)'
<1> USE CallParts
<1> USE DEF TypeOK, Fresh, Clean, Goes, Returns, Forget, podVars
<1>1. CASE BeginUpload(c)
  BY <1>1 DEF BeginUpload
<1>2. CASE EndUpload(c)
  <2>1. PICK k \in Jobs : Dir(k) = Dir(c[1]) /\ input' = [input EXCEPT ![File(c)] = <<k, run>>]
    BY <1>2 DEF EndUpload
  <2>2. k = c[1]
    BY <2>1, OwnDir
  <2> QED BY <1>2, <2>1, <2>2 DEF EndUpload
<1>3. CASE UploadFails(c)
  BY <1>3 DEF UploadFails, UploadError
<1>4. CASE StartCommand(c)
  BY <1>4 DEF StartCommand
<1>5. CASE EndCommand(c)
  <2>1. CASE output' = [output EXCEPT ![File(c)] = read[c]] /\ UNCHANGED silent
    BY <1>5, <2>1 DEF EndCommand
  <2>2. CASE silent' = [silent EXCEPT ![c] = TRUE]
    <3>1. silent'[c]
      BY <2>2
    <3>2. at'[c] = "log"
      BY <1>5 DEF EndCommand
    <3> QED BY <3>1, <3>2
  <2> QED BY <1>5, <2>1, <2>2 DEF EndCommand
<1>6. CASE CommandFails(c) \/ ExecGivesUp(c)
  BY <1>6 DEF CommandFails, ExecGivesUp
<1>7. CASE WriteLog(c)
  BY <1>7 DEF WriteLog
<1>8. CASE Download(c)
  <2>1. at[c] = "download" /\ at'[c] = "remove"
    BY <1>8 DEF Download
  <2>2. Clean(c) => report'[Report(c)] = <<c[1], run>>
    <3>1. ASSUME Clean(c) PROVE output[File(c)] = <<c[1], run>> /\ output[File(c)] # Nothing
      BY <2>1, <3>1, Something
    <3>2. ASSUME Clean(c) PROVE report' = [report EXCEPT ![Report(c)] = output[File(c)]]
      BY <1>8, <3>1, <3>2 DEF Download
    <3> QED BY <3>1, <3>2
  <2> QED BY <1>8, <2>1, <2>2 DEF Download
<1>9. CASE DownloadFails(c)
  BY <1>9 DEF DownloadFails, DownloadError
<1>10. CASE RemoveOutput(c)
  BY <1>10 DEF RemoveOutput
<1> QED BY <1>1, <1>2, <1>3, <1>4, <1>5, <1>6, <1>7, <1>8, <1>9, <1>10 DEF CallStep

LEMMA FreshStep == TypeOK /\ FreshInv /\ [Next]_vars => FreshInv'
<1> SUFFICES ASSUME TypeOK, [Next]_vars, NEW c \in Calls, Unshared(c[1]), Fresh(c) PROVE Fresh(c)'
  BY DEF FreshInv
<1>1. ASSUME NEW d \in Calls, CallStep(d) PROVE Fresh(c)'
  <2>1. CASE d = c
    BY <1>1, <2>1, FreshOwnStep
  <2>2. CASE d # c
    BY <1>1, <2>2, OthersKeepOut DEF Fresh, Clean
  <2> QED BY <2>1, <2>2
<1>2. ASSUME NEW s \in Scenarios, ProcessResultsReturns(s) PROVE Fresh(c)'
  BY <1>2 DEF ProcessResultsReturns, Fresh, Clean, podVars
<1>3. CASE NextRun
  <2>1. at'[c] \in {"upload", "absent"}
    BY <1>3 DEF NextRun, Places0
  <2> QED BY <2>1 DEF Fresh
<1>4. ASSUME NEW o \in orphans, OrphanWrites(o) PROVE Fresh(c)'
  <2>1. CASE <<o[1], o[2]>> = File(c)
    BY <1>4, <2>1 DEF OrphanWrites, Fresh, Clean
  <2>2. CASE <<o[1], o[2]>> # File(c)
    <3>1. output'[File(c)] = output[File(c)]
      BY <1>4, <2>2, CallParts DEF TypeOK, OrphanWrites
    <3> QED BY <1>4, <3>1 DEF OrphanWrites, Fresh, Clean
  <2> QED BY <2>1, <2>2
<1>5. CASE UNCHANGED vars
  BY <1>5 DEF vars, podVars, Fresh, Clean
<1> QED BY <1>1, <1>2, <1>3, <1>4, <1>5 DEF Next, CallStep

LEMMA FreshInit == Init => FreshInv
BY DEF Init, Places0, FreshInv, Fresh

\* Whatever failed, in this run or an earlier one: a nil error of ProcessPcap stands for the
\* analysis of the caller's own capture, if its names are its own, its command has written
\* a result and no command of an earlier call has written to its file meanwhile.
THEOREM ResultIsOwnAlways == Spec => []ResultIsOwn
<1>1. FreshInv => ResultIsOwn
  BY DEF FreshInv, Fresh, Clean, ResultIsOwn
<1> QED BY <1>1, InitCorrect, CountStep, TypeStep, FreshInit, FreshStep, PTL DEF Spec

-----------------------------------------------------------------------------
(***************************************************************************)
(* Whatever a result holds, it is not the analysis of another target: all  *)
(* that is ever in the files of a call is its own or incomplete.           *)
(***************************************************************************)
OwnContents(j) == ({j} \X (1..run)) \cup {Nothing, Partial}

Own(c) ==
    /\ input[File(c)] \in OwnContents(c[1])
    /\ output[File(c)] \in OwnContents(c[1])
    /\ read[c] \in OwnContents(c[1])
    /\ report[Report(c)] \in OwnContents(c[1])
    /\ \A o \in orphans : <<o[1], o[2]>> = File(c) => o[3] \in OwnContents(c[1])

OwnInv == \A c \in Calls : Unshared(c[1]) => Own(c)

\* What the steps of a call write.
LEMMA Writes ==
    ASSUME TypeOK, NEW c \in Calls, Unshared(c[1]), Own(c), CallStep(c)
    PROVE  /\ UNCHANGED input \/ \E x \in OwnContents(c[1]) : input' = [input EXCEPT ![File(c)] = x]
           /\ UNCHANGED output \/ \E x \in OwnContents(c[1]) : output' = [output EXCEPT ![File(c)] = x]
           /\ UNCHANGED read \/ \E x \in OwnContents(c[1]) : read' = [read EXCEPT ![c] = x]
           /\ UNCHANGED report \/ \E x \in OwnContents(c[1]) : report' = [report EXCEPT ![Report(c)] = x]
           /\ UNCHANGED orphans \/ orphans' = orphans \cup {Orphan(c)}
<1>1. /\ Nothing \in OwnContents(c[1]) /\ Partial \in OwnContents(c[1])
      /\ \A k \in Jobs : Dir(k) = Dir(c[1]) => <<k, run>> \in OwnContents(c[1])
  <2>1. run \in 1..run
    BY ProcessingAssumption DEF TypeOK
  <2> QED BY <2>1, CallParts, OwnDir DEF OwnContents
<1>2. UNCHANGED input \/ \E x \in OwnContents(c[1]) : input' = [input EXCEPT ![File(c)] = x]
  BY <1>1 DEF Own, CallStep, BeginUpload, EndUpload, UploadFails, UploadError, StartCommand, EndCommand,
       CommandFails, ExecGivesUp, WriteLog, Download, DownloadFails, DownloadError, RemoveOutput, podVars
<1>3. UNCHANGED output \/ \E x \in OwnContents(c[1]) : output' = [output EXCEPT ![File(c)] = x]
  BY <1>1 DEF Own, CallStep, BeginUpload, EndUpload, UploadFails, UploadError, StartCommand, EndCommand,
       CommandFails, ExecGivesUp, WriteLog, Download, DownloadFails, DownloadError, RemoveOutput, podVars
<1>4. UNCHANGED read \/ \E x \in OwnContents(c[1]) : read' = [read EXCEPT ![c] = x]
  BY <1>1 DEF Own, Forget, CallStep, BeginUpload, EndUpload, UploadFails, UploadError, StartCommand, EndCommand,
       CommandFails, ExecGivesUp, WriteLog, Download, DownloadFails, DownloadError, RemoveOutput, podVars
<1>5. UNCHANGED report \/ \E x \in OwnContents(c[1]) : report' = [report EXCEPT ![Report(c)] = x]
  BY <1>1 DEF Own, CallStep, BeginUpload, EndUpload, UploadFails, UploadError, StartCommand, EndCommand,
       CommandFails, ExecGivesUp, WriteLog, Download, DownloadFails, DownloadError, RemoveOutput, podVars
<1>6. UNCHANGED orphans \/ orphans' = orphans \cup {Orphan(c)}
  BY DEF CallStep, BeginUpload, EndUpload, UploadFails, UploadError, StartCommand, EndCommand,
       CommandFails, ExecGivesUp, WriteLog, Download, DownloadFails, DownloadError, RemoveOutput, podVars
<1> QED BY <1>2, <1>3, <1>4, <1>5, <1>6

LEMMA OwnStep == TypeOK /\ OwnInv /\ [Next]_vars => OwnInv'
<1> SUFFICES ASSUME TypeOK, [Next]_vars, NEW c \in Calls, Unshared(c[1]), Own(c) PROVE Own(c)'
  BY DEF OwnInv
<1> USE CallParts
<1>1. ASSUME NEW d \in Calls, CallStep(d) PROVE Own(c)'
  <2>0. run' = run
    BY <1>1, CallMoves
  <2>1. CASE d = c
    <3>1. OwnContents(c[1])' = OwnContents(c[1])
      BY <2>0 DEF OwnContents
    <3>2. /\ input'[File(c)] \in OwnContents(c[1])
          /\ output'[File(c)] \in OwnContents(c[1])
      BY <1>1, <2>1, Writes DEF TypeOK, Own
    <3>3. read'[c] \in OwnContents(c[1])
      BY <1>1, <2>1, Writes DEF TypeOK, Own
    <3>4. report'[Report(c)] \in OwnContents(c[1])
      BY <1>1, <2>1, Writes DEF TypeOK, Own
    <3>5. \A o \in orphans' : <<o[1], o[2]>> = File(c) => o[3] \in OwnContents(c[1])
      BY <1>1, <2>1, Writes DEF Own, Orphan
    <3> QED BY <3>1, <3>2, <3>3, <3>4, <3>5 DEF Own
  <2>2. CASE d # c
    <3>1. OwnContents(c[1])' = OwnContents(c[1])
      BY <2>0 DEF OwnContents
    <3>2. \A o \in orphans' : <<o[1], o[2]>> = File(c) => o[3] \in OwnContents(c[1])
      <4>1. UNCHANGED orphans \/ orphans' = orphans \cup {Orphan(d)}
        BY <1>1 DEF CallStep, BeginUpload, EndUpload, UploadFails, UploadError, StartCommand, EndCommand,
       CommandFails, ExecGivesUp, WriteLog, Download, DownloadFails, DownloadError, RemoveOutput, podVars
      <4>2. <<Orphan(d)[1], Orphan(d)[2]>> = File(d)
        BY DEF Orphan, File
      <4>3. File(d) # File(c)
        BY <2>2, OwnFile
      <4> QED BY <4>1, <4>2, <4>3 DEF Own
    <3> QED BY <1>1, <2>2, <3>1, <3>2, OthersKeepOut DEF Own
  <2> QED BY <2>1, <2>2
<1>2. ASSUME NEW s \in Scenarios, ProcessResultsReturns(s) PROVE Own(c)'
  BY <1>2 DEF ProcessResultsReturns, Own, OwnContents, podVars
<1>3. CASE NextRun
  <2>1. OwnContents(c[1]) \subseteq OwnContents(c[1])'
    BY <1>3, ProcessingAssumption DEF NextRun, TypeOK, OwnContents
  <2>2. ASSUME NEW o \in orphans', <<o[1], o[2]>> = File(c) PROVE o[3] \in OwnContents(c[1])
    <3>1. CASE o \in orphans
      BY <2>2, <3>1 DEF Own
    <3>2. ASSUME NEW d \in Calls, o = Orphan(d) PROVE o[3] \in OwnContents(c[1])
      <4>1. <<o[1], o[2]>> = File(d) /\ o[3] = read[d]
        BY <3>2 DEF Orphan, File
      <4>2. d = c
        BY <2>2, <4>1, OwnFile
      <4> QED BY <4>1, <4>2 DEF Own
    <3> QED BY <1>3, <3>1, <3>2 DEF NextRun
  <2>3. read'[c] \in OwnContents(c[1])
    BY <1>3 DEF NextRun, OwnContents
  <2> QED BY <1>3, <2>1, <2>2, <2>3 DEF NextRun, Own, podVars
<1>4. ASSUME NEW o \in orphans, OrphanWrites(o) PROVE Own(c)'
  <2>1. output'[File(c)] \in OwnContents(c[1])
    <3>1. CASE <<o[1], o[2]>> = File(c)
      <4>1. PICK x \in OwnContents(c[1]) : output' = [output EXCEPT ![<<o[1], o[2]>>] = x]
        BY <1>4, <3>1 DEF OrphanWrites, Own, OwnContents
      <4> QED BY <3>1, <4>1 DEF TypeOK
    <3>2. CASE <<o[1], o[2]>> # File(c)
      BY <1>4, <3>2 DEF TypeOK, OrphanWrites, Own
    <3> QED BY <3>1, <3>2
  <2> QED BY <1>4, <2>1 DEF OrphanWrites, Own, OwnContents
<1>5. CASE UNCHANGED vars
  BY <1>5 DEF vars, podVars, Own, OwnContents
<1> QED BY <1>1, <1>2, <1>3, <1>4, <1>5 DEF Next, CallStep

LEMMA OwnInit == Init => OwnInv
BY CallParts DEF Init, OwnInv, Own, OwnContents

\* A result may be missing, incomplete or of an earlier run, but it is never the analysis of
\* another target, however many goroutines use the pod.
THEOREM OthersNeverMixAlways == Spec => []OthersNeverMix
<1>1. OwnInv => OthersNeverMix
  BY DEF OwnInv, Own, OwnContents, OthersNeverMix
<1> QED BY <1>1, InitCorrect, CountStep, TypeStep, OwnInit, OwnStep, PTL DEF Spec

-----------------------------------------------------------------------------
(***************************************************************************)
(* What a nil error of ProcessResults stands for.                          *)
(***************************************************************************)
\* A result is there from the end of the command on, in the pod and then on the host.
Reported(c) ==
    /\ at[c] \in {"log", "download"} /\ ~silent[c] => output[File(c)] # Nothing
    /\ at[c] \in {"remove", "ok"} /\ ~silent[c] => report[Report(c)] # Nothing
    /\ \A o \in orphans : <<o[1], o[2]>> = File(c) => o[3] # Nothing

ReportInv == \A c \in Calls : Unshared(c[1]) => Reported(c)

LEMMA ReportStep == TypeOK /\ FreshInv /\ ReportInv /\ [Next]_vars => ReportInv'
<1> SUFFICES ASSUME TypeOK, [Next]_vars, NEW c \in Calls, Unshared(c[1]), Fresh(c), Reported(c)
             PROVE  Reported(c)'
  BY DEF ReportInv, FreshInv
<1> USE CallParts
<1>0. at[c] = "running" => read[c] # Nothing
  BY Something DEF Fresh
<1>1. ASSUME NEW d \in Calls, CallStep(d) PROVE Reported(c)'
  <2>1. ASSUME NEW o \in orphans', <<o[1], o[2]>> = File(c) PROVE o[3] # Nothing
    <3>1. UNCHANGED orphans \/ (at[d] = "running" /\ orphans' = orphans \cup {Orphan(d)})
      BY <1>1 DEF CallStep, BeginUpload, EndUpload, UploadFails, UploadError, StartCommand, EndCommand,
       CommandFails, ExecGivesUp, WriteLog, Download, DownloadFails, DownloadError, RemoveOutput, podVars
    <3>2. CASE o \in orphans
      BY <2>1, <3>2 DEF Reported
    <3>3. CASE o = Orphan(d) /\ at[d] = "running"
      <4>1. <<o[1], o[2]>> = File(d) /\ o[3] = read[d]
        BY <3>3 DEF Orphan, File
      <4>2. d = c
        BY <2>1, <4>1, OwnFile
      <4> QED BY <1>0, <3>3, <4>1, <4>2
    <3> QED BY <2>1, <3>1, <3>2, <3>3
  <2>2. CASE d # c
    BY <1>1, <2>1, <2>2, OthersKeepOut DEF Reported
  <2>3. CASE d = c
    <3>1. CASE EndCommand(c)
      <4>1. at'[c] = "log" /\ at[c] = "running"
        BY <3>1 DEF TypeOK, EndCommand, Goes
      <4>2. silent'[c] \/ output'[File(c)] = read[c]
        BY <3>1 DEF TypeOK, EndCommand
      <4> QED BY <1>0, <2>1, <4>1, <4>2 DEF Reported
    <3>2. CASE WriteLog(c)
      BY <2>1, <3>2 DEF TypeOK, Reported, WriteLog, Goes, Returns, podVars
    <3>3. CASE Download(c)
      <4>1. at[c] = "download" /\ at'[c] = "remove" /\ UNCHANGED silent
        BY <3>3 DEF TypeOK, Download, Goes
      <4>2. output[File(c)] # Nothing => report'[Report(c)] = output[File(c)]
        BY <3>3 DEF TypeOK, Download
      <4> QED BY <2>1, <4>1, <4>2 DEF Reported
    <3>4. CASE RemoveOutput(c)
      BY <2>1, <3>4 DEF TypeOK, Reported, RemoveOutput, Goes, Returns
    <3>5. CASE BeginUpload(c) \/ EndUpload(c) \/ StartCommand(c)
      BY <2>1, <3>5 DEF TypeOK, Reported, BeginUpload, EndUpload, StartCommand, Goes
    <3>6. CASE UploadFails(c) \/ CommandFails(c) \/ ExecGivesUp(c) \/ DownloadFails(c)
      BY <2>1, <3>6 DEF TypeOK, Reported, UploadFails, UploadError, CommandFails, ExecGivesUp,
         DownloadFails, DownloadError, Goes, Returns
    <3> QED BY <1>1, <2>3, <3>1, <3>2, <3>3, <3>4, <3>5, <3>6 DEF CallStep
  <2> QED BY <2>2, <2>3
<1>2. ASSUME NEW s \in Scenarios, ProcessResultsReturns(s) PROVE Reported(c)'
  BY <1>2 DEF ProcessResultsReturns, Reported, podVars
<1>3. CASE NextRun
  <2>1. at'[c] \in {"upload", "absent"}
    BY <1>3 DEF NextRun, Places0
  <2>2. ASSUME NEW o \in orphans', <<o[1], o[2]>> = File(c) PROVE o[3] # Nothing
    <3>1. CASE o \in orphans
      BY <2>2, <3>1 DEF Reported
    <3>2. ASSUME NEW d \in Calls, at[d] = "running", o = Orphan(d) PROVE o[3] # Nothing
      <4>1. <<o[1], o[2]>> = File(d) /\ o[3] = read[d]
        BY <3>2 DEF Orphan, File
      <4>2. d = c
        BY <2>2, <4>1, OwnFile
      <4> QED BY <1>0, <3>2, <4>1, <4>2
    <3> QED BY <1>3, <3>1, <3>2 DEF NextRun
  <2> QED BY <2>1, <2>2 DEF Reported
<1>4. ASSUME NEW o \in orphans, OrphanWrites(o) PROVE Reported(c)'
  <2>1. output'[File(c)] = output[File(c)] \/ output'[File(c)] # Nothing
    <3>1. CASE <<o[1], o[2]>> = File(c)
      BY <1>4, <3>1, Something DEF TypeOK, OrphanWrites, Reported
    <3>2. CASE <<o[1], o[2]>> # File(c)
      BY <1>4, <3>2 DEF TypeOK, OrphanWrites
    <3> QED BY <3>1, <3>2
  <2> QED BY <1>4, <2>1 DEF OrphanWrites, Reported
<1>5. CASE UNCHANGED vars
  BY <1>5 DEF vars, podVars, Reported
<1> QED BY <1>1, <1>2, <1>3, <1>4, <1>5 DEF Next, CallStep

LEMMA ReportInit == Init => ReportInv
BY DEF Init, Places0, ReportInv, Reported

\* A scenario whose ProcessResults returned nil has only calls that returned nil.
NilInv ==
    /\ \A c \in Calls : at[c] = "absent" => outcome[c[1][1]] = "absent"
    /\ \A c \in Calls : outcome[c[1][1]] = "ok" => at[c] = "ok"

LEMMA NilStep == TypeOK /\ CountInv /\ NilInv /\ [Next]_vars => NilInv'
<1> SUFFICES ASSUME TypeOK, CountInv, NilInv, [Next]_vars PROVE NilInv'
  OBVIOUS
<1>1. ASSUME NEW d \in Calls, CallStep(d) PROVE NilInv'
  <2>1. /\ at[d] \in PendingPlaces /\ UNCHANGED outcome
        /\ \E place \in Places \ {"absent"} : at' = [at EXCEPT ![d] = place]
    BY <1>1, CallMoves DEF Goes, Returns, Places, PendingPlaces, Ends
  <2>2. \A c \in Calls : (at[c] = "absent" => outcome[c[1][1]] = "absent")'
    BY <2>1 DEF NilInv, TypeOK
  <2>3. \A c \in Calls : (outcome[c[1][1]] = "ok" => at[c] = "ok")'
    BY <2>1 DEF NilInv, TypeOK, PendingPlaces
  <2> QED BY <2>2, <2>3 DEF NilInv
<1>2. ASSUME NEW s \in Scenarios, ProcessResultsReturns(s) PROVE NilInv'
  <2>1. UNCHANGED at /\ outcome[s] = "none"
    BY <1>2 DEF ProcessResultsReturns
  <2>2. Pending(s) = {}
    BY <1>2, PendingFinite, FS_EmptySet DEF ProcessResultsReturns, CallsEnded, CountInv
  <2>3. ASSUME NEW c \in CallsOf(s) PROVE at[c] \in Ends
    <3>1. c \in Calls /\ c[1][1] = s
      BY DEF CallsOf
    <3>2. at[c] \notin PendingPlaces /\ at[c] # "absent"
      BY <2>1, <2>2, <3>1 DEF Pending, NilInv
    <3> QED BY <3>1, <3>2 DEF TypeOK, Places, PendingPlaces
  <2>4. ASSUME NEW c \in Calls, outcome'[c[1][1]] = "ok" PROVE at[c] = "ok"
    <3>1. CASE c[1][1] = s
      <4>1. c \in CallsOf(s)
        BY <3>1 DEF CallsOf
      <4>2. at[c] # "error"
        BY <1>2, <2>4, <3>1, <4>1 DEF ProcessResultsReturns, TypeOK
      <4> QED BY <2>3, <4>1, <4>2 DEF Ends
    <3>2. CASE c[1][1] # s
      BY <1>2, <2>4, <3>2, CallParts DEF ProcessResultsReturns, TypeOK, NilInv
    <3> QED BY <3>1, <3>2
  <2>5. ASSUME NEW c \in Calls, at'[c] = "absent" PROVE outcome'[c[1][1]] = "absent"
    <3>1. c[1][1] # s
      BY <2>1, <2>5 DEF NilInv
    <3> QED BY <1>2, <2>1, <2>5, <3>1, CallParts DEF ProcessResultsReturns, TypeOK, NilInv
  <2> QED BY <2>1, <2>4, <2>5 DEF NilInv
<1>3. CASE NextRun
  <2>1. PICK S \in Processed : at' = Places0(S) /\ outcome' = Outcome0(S)
    BY <1>3 DEF NextRun
  <2>2. ASSUME NEW c \in Calls
        PROVE  /\ at'[c] = IF c[1][1] \in S THEN "upload" ELSE "absent"
               /\ outcome'[c[1][1]] = IF c[1][1] \in S THEN "none" ELSE "absent"
    BY <2>1, CallParts DEF Places0, Outcome0
  <2> QED BY <2>2 DEF NilInv
<1>4. CASE (\E o \in orphans : OrphanWrites(o)) \/ UNCHANGED vars
  BY <1>4 DEF OrphanWrites, vars, NilInv
<1> QED BY <1>1, <1>2, <1>3, <1>4 DEF Next, CallStep

LEMMA NilInit == Init => NilInv
<1> SUFFICES ASSUME Init, NEW c \in Calls
             PROVE  /\ at[c] = "absent" => outcome[c[1][1]] = "absent"
                    /\ outcome[c[1][1]] = "ok" => at[c] = "ok"
  BY DEF NilInv
<1>1. PICK S \in Processed : at = Places0(S) /\ outcome = Outcome0(S)
  BY DEF Init
<1>2. /\ at[c] = IF c[1][1] \in S THEN "upload" ELSE "absent"
      /\ outcome[c[1][1]] = IF c[1][1] \in S THEN "none" ELSE "absent"
  BY <1>1, CallParts DEF Places0, Outcome0
<1> QED BY <1>2

\* ProcessResults returns nil only when all its goroutines have fetched the result of their
\* own target: of this run, or at worst what an orphan has made of it.  Only a command that
\* ends well without a result, and names that join alike, can leave it out.
THEOREM NilMeansReportsAlways == Spec => []NilMeansReports
<1>1. FreshInv /\ OwnInv /\ ReportInv /\ NilInv => NilMeansReports
  <2> SUFFICES ASSUME FreshInv, OwnInv, ReportInv, NilInv,
                      NEW s \in Scenarios, outcome[s] = "ok",
                      NEW c \in CallsOf(s), Unshared(c[1]), ~silent[c]
               PROVE  \/ report[Report(c)] = <<c[1], run>>
                      \/ /\ File(c) \in disturbed
                         /\ report[Report(c)] \in ({c[1]} \X (1..run)) \cup {Partial}
    BY DEF NilMeansReports
  <2>1. c \in Calls /\ at[c] = "ok"
    BY DEF CallsOf, NilInv
  <2>2. CASE File(c) \notin disturbed
    BY <2>1, <2>2 DEF FreshInv, Fresh, Clean
  <2>3. CASE File(c) \in disturbed
    <3>1. report[Report(c)] \in OwnContents(c[1]) /\ report[Report(c)] # Nothing
      BY <2>1 DEF OwnInv, Own, ReportInv, Reported
    <3> QED BY <2>3, <3>1 DEF OwnContents
  <2> QED BY <2>2, <2>3
<1> QED BY <1>1, InitCorrect, CountStep, TypeStep, FreshInit, FreshStep, OwnInit, OwnStep,
           ReportInit, ReportStep, NilInit, NilStep, PTL DEF Spec
=============================================================================
