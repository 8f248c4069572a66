----------------------------- MODULE Processing -----------------------------
(***************************************************************************)
(* The analysis of captures: ProcessResults of both scenario types and     *)
(* ProcessingPod.ProcessPcap.  The goroutines of all scenarios share the   *)
(* processing pods, in which files are told apart by their names alone,    *)
(* and the pods with their files and processes outlive a run of ConCap.    *)
(*                                                                         *)
(* A name is the sequence of its parts between dashes, so that joining two *)
(* with a dash is concatenation.  The content of a file is the capture it  *)
(* stems from: the target and the run in which it was captured.            *)
(***************************************************************************)
EXTENDS Integers, Sequences, FiniteSets

CONSTANTS
    Scenarios,   \* scenario files
    Processors,  \* processing pods
    ScenarioName,\* scenario -> its name
    TargetNames, \* scenario -> the names of its targets, in order
    Multi,       \* the scenarios of type multi-target
    MaxCalls,    \* bound: calls of ProcessPcap in a run
    MaxRuns      \* bound: runs of the program

ASSUME ProcessingAssumption ==
    /\ TargetNames \in [Scenarios -> Seq(Seq(STRING))]
    /\ ScenarioName \in [Scenarios -> Seq(STRING)]
    /\ Multi \subseteq Scenarios
    /\ \A s \in Scenarios \ Multi : Len(TargetNames[s]) = 1
    /\ IsFiniteSet(Scenarios) /\ IsFiniteSet(Processors)
    /\ MaxCalls \in Nat /\ MaxRuns \in Nat \ {0}

\* A target of a scenario.
Jobs == UNION {{s} \X DOMAIN TargetNames[s] : s \in Scenarios}
TargetName(j) == TargetNames[j[1]][j[2]]

\* Faulty variant of Key: one file per scenario.
KeyOfScenario(j) == ScenarioName[j[1]]

\* INPUT_FILE_NAME, scenarioName + "-" + targetName, of which the files in the pod are named.
Key(j) == ScenarioName[j[1]] \o TargetName(j)
Keys == {Key(j) : j \in Jobs}

\* The directory on the host with dump.pcap and the results.
Dir(j) == IF j[1] \in Multi THEN <<ScenarioName[j[1]], TargetName(j)>> ELSE <<ScenarioName[j[1]]>>
Dirs == {Dir(j) : j \in Jobs}

\* One call of ProcessPcap.
Calls == Jobs \X Processors
CallsOf(s) == {c \in Calls : c[1][1] = s}

VARIABLES
    run,      \* which run of the program this is
    at,       \* call -> where its goroutine is
    read,     \* call -> what its command, which runs, has read
    silent,   \* history: call -> its command has ended well without writing a file
    wg,       \* scenario -> counter of the WaitGroup of its ProcessResults
    input,    \* processor, name -> /data/input/name.pcap
    output,   \* processor, name -> /data/output/name.csv
    report,   \* directory, processor -> the result on the host
    outcome,  \* scenario -> what its ProcessResults returned
    orphans,  \* commands that nobody waits for and that still run in a pod
    disturbed \* history: processor and name an orphan has written to in this run

podVars == <<input, output>>
vars == <<run, at, read, silent, wg, podVars, report, outcome, orphans, disturbed>>

Nothing == <<>>
Partial == <<"partial">>  \* a file that is incomplete
Captures == Jobs \X (1..MaxRuns)
Contents == Captures \cup {Nothing, Partial}
Ends == {"ok", "error"}
Places == {"upload", "uploading", "run", "running", "log", "download", "remove", "absent"} \cup Ends

TypeOK ==
    /\ run \in 1..MaxRuns
    /\ at \in [Calls -> Places]
    /\ read \in [Calls -> Contents]
    /\ silent \in [Calls -> BOOLEAN]
    /\ wg \in [Scenarios -> Nat]
    /\ input \in [Processors \X Keys -> Contents]
    /\ output \in [Processors \X Keys -> Contents]
    /\ report \in [Dirs \X Processors -> Contents]
    /\ outcome \in [Scenarios -> {"none", "absent"} \cup Ends]
    /\ orphans \subseteq (Processors \X Keys \X Contents)
    /\ disturbed \subseteq (Processors \X Keys)

\* Where a run stands in which ProcessResults is called for the scenarios in S.
Places0(S) == [c \in Calls |-> IF c[1][1] \in S THEN "upload" ELSE "absent"]
Wg0(S) == [s \in Scenarios |-> IF s \in S THEN Cardinality(CallsOf(s)) ELSE 0]
Outcome0(S) == [s \in Scenarios |-> IF s \in S THEN "none" ELSE "absent"]

\* The scenarios of a run whose results are processed: those that Execute succeeded for.
Processed == {S \in SUBSET Scenarios : Cardinality(UNION {CallsOf(s) : s \in S}) <= MaxCalls}

Init ==
    /\ run = 1
    /\ \E S \in Processed : at = Places0(S) /\ wg = Wg0(S) /\ outcome = Outcome0(S)
    /\ read = [c \in Calls |-> Nothing]
    /\ silent = [c \in Calls |-> FALSE]
    /\ input = [f \in Processors \X Keys |-> Nothing]
    /\ output = [f \in Processors \X Keys |-> Nothing]
    /\ report = [d \in Dirs \X Processors |-> Nothing]
    /\ orphans = {}
    /\ disturbed = {}

-----------------------------------------------------------------------------
(***************************************************************************)
(* ProcessPcap                                                             *)
(***************************************************************************)
File(c) == <<c[2], Key(c[1])>>
Report(c) == <<Dir(c[1]), c[2]>>

Goes(c, place) == at' = [at EXCEPT ![c] = place]

\* The call returns: defer wg.Done().
Returns(c, end) ==
    /\ Goes(c, end)
    /\ wg' = [wg EXCEPT ![c[1][1]] = @ - 1]

\* kubectl cp truncates the file and fills it ...
BeginUpload(c) ==
    /\ at[c] = "upload"
    /\ Goes(c, "uploading")
    /\ input' = [input EXCEPT ![File(c)] = Partial]
    /\ UNCHANGED <<run, read, silent, wg, output, report, outcome, orphans, disturbed>>

\* ... from the dump.pcap that is in the directory: that of another target, if they share it.
EndUpload(c) ==
    /\ at[c] = "uploading"
    /\ Goes(c, "run")
    /\ \E k \in Jobs : Dir(k) = Dir(c[1]) /\ input' = [input EXCEPT ![File(c)] = <<k, run>>]
    /\ UNCHANGED <<run, read, silent, wg, output, report, outcome, orphans, disturbed>>

\* Faulty variants of UploadError: the analysis goes on with what is in the pod; the
\* early return calls wg.Done although it is deferred.
UploadErrorIgnored(c) == Goes(c, "run") /\ UNCHANGED wg
UploadErrorDoneTwice(c) == Goes(c, "error") /\ wg' = [wg EXCEPT ![c[1][1]] = @ - 2]

UploadError(c) == Returns(c, "error")

UploadFails(c) ==
    /\ at[c] = "uploading"
    /\ UploadError(c)
    /\ UNCHANGED <<run, read, silent, podVars, report, outcome, orphans, disturbed>>

Forget(c) == read' = [read EXCEPT ![c] = Nothing]

\* The processor's command starts in the pod and reads INPUT_FILE ...
StartCommand(c) ==
    /\ at[c] = "run"
    /\ Goes(c, "running")
    /\ read' = [read EXCEPT ![c] = input[File(c)]]
    /\ UNCHANGED <<run, silent, wg, podVars, report, outcome, orphans, disturbed>>

\* ... and ends well: with its results in OUTPUT_FILE, or without having written it.
EndCommand(c) ==
    /\ at[c] = "running"
    /\ Goes(c, "log")
    /\ Forget(c)
    /\ \/ output' = [output EXCEPT ![File(c)] = read[c]] /\ UNCHANGED silent
       \/ silent' = [silent EXCEPT ![c] = TRUE] /\ UNCHANGED output
    /\ UNCHANGED <<run, wg, input, report, outcome, orphans, disturbed>>

\* Or it fails, and may leave a part of its results.
CommandFails(c) ==
    /\ at[c] = "running"
    /\ Returns(c, "error")
    /\ Forget(c)
    /\ output' = [output EXCEPT ![File(c)] = Partial] \/ UNCHANGED output
    /\ UNCHANGED <<run, silent, input, report, outcome, orphans, disturbed>>

Orphan(c) == <<c[2], Key(c[1]), read[c]>>

\* StreamWithContext returns because the context has ended or the connection is lost; the
\* command runs on.
ExecGivesUp(c) ==
    /\ at[c] = "running"
    /\ Returns(c, "error")
    /\ Forget(c)
    /\ orphans' = orphans \cup {Orphan(c)}
    /\ UNCHANGED <<run, silent, podVars, report, outcome, disturbed>>

\* writeAnalysisLog
WriteLog(c) ==
    /\ at[c] = "log"
    /\ \/ Goes(c, "download") /\ UNCHANGED wg
       \/ Returns(c, "error")
    /\ UNCHANGED <<run, read, silent, podVars, report, outcome, orphans, disturbed>>

\* CopyFileFromPod copies OUTPUT_FILE.  With --retries, kubectl cp lets tail pass on what tar
\* packs, and the status is that of tail: of a file that is missing nothing is copied, without
\* an error, and what is on the host stays.
Download(c) ==
    /\ at[c] = "download"
    /\ Goes(c, "remove")
    /\ \/ output[File(c)] # Nothing /\ report' = [report EXCEPT ![Report(c)] = output[File(c)]]
       \/ output[File(c)] = Nothing /\ UNCHANGED report
    /\ UNCHANGED <<run, read, silent, wg, podVars, outcome, orphans, disturbed>>

\* Faulty variant of DownloadError: the error of the copy is ignored.
DownloadErrorIgnored(c) == Returns(c, "ok")

DownloadError(c) == Returns(c, "error")

\* The copy may fail, with a part of the file copied.
DownloadFails(c) ==
    /\ at[c] = "download"
    /\ DownloadError(c)
    /\ \/ UNCHANGED report
       \/ output[File(c)] # Nothing /\ report' = [report EXCEPT ![Report(c)] = Partial]
    /\ UNCHANGED <<run, read, silent, podVars, outcome, orphans, disturbed>>

\* The file is removed from the pod; that this failed, or that there is none, is only logged.
RemoveOutput(c) ==
    /\ at[c] = "remove"
    /\ Returns(c, "ok")
    /\ output' = [output EXCEPT ![File(c)] = Nothing] \/ UNCHANGED output
    /\ UNCHANGED <<run, read, silent, input, report, outcome, orphans, disturbed>>

-----------------------------------------------------------------------------
\* Faulty variant of CallsEnded: wg.Wait is missing.
NoWait(s) == TRUE

CallsEnded(s) == wg[s] = 0

\* ProcessResults: wg.Wait, and the errors joined.
ProcessResultsReturns(s) ==
    /\ outcome[s] = "none"
    /\ CallsEnded(s)
    /\ outcome' = [outcome EXCEPT ![s] =
                     IF \E c \in CallsOf(s) : at[c] = "error" THEN "error" ELSE "ok"]
    /\ UNCHANGED <<run, at, read, silent, wg, podVars, report, orphans, disturbed>>

\* The run ends, or is killed, and the program is started again.  The pods stay, with
\* their files and their commands.
NextRun ==
    /\ run < MaxRuns
    /\ run' = run + 1
    /\ orphans' = orphans \cup {Orphan(c) : c \in {d \in Calls : at[d] = "running"}}
    /\ \E S \in Processed : at' = Places0(S) /\ wg' = Wg0(S) /\ outcome' = Outcome0(S)
    /\ read' = [c \in Calls |-> Nothing]
    /\ silent' = [c \in Calls |-> FALSE]
    /\ disturbed' = {}
    /\ UNCHANGED <<podVars, report>>

\* A command that nobody waits for writes a part of its results, or all, and ends.
OrphanWrites(o) ==
    /\ \/ output' = [output EXCEPT ![<<o[1], o[2]>>] = Partial] /\ UNCHANGED orphans
       \/ output' = [output EXCEPT ![<<o[1], o[2]>>] = o[3]] /\ orphans' = orphans \ {o}
    /\ disturbed' = disturbed \cup {<<o[1], o[2]>>}
    /\ UNCHANGED <<run, at, read, silent, wg, input, report, outcome>>

Next ==
    \/ \E c \in Calls :
         \/ BeginUpload(c) \/ EndUpload(c) \/ UploadFails(c)
         \/ StartCommand(c) \/ EndCommand(c) \/ CommandFails(c) \/ ExecGivesUp(c)
         \/ WriteLog(c) \/ Download(c) \/ DownloadFails(c) \/ RemoveOutput(c)
    \/ \E s \in Scenarios : ProcessResultsReturns(s)
    \/ NextRun
    \/ \E o \in orphans : OrphanWrites(o)

Spec == Init /\ [][Next]_vars

-----------------------------------------------------------------------------
(***************************************************************************)
(* Properties.                                                             *)
(***************************************************************************)

\* The file names of scenario and target, joined, and those of the scenarios are unique.
Joined(j) == ScenarioName[j[1]] \o TargetName(j)
Unshared(j) ==
    \A k \in Jobs \ {j} :
        /\ Joined(k) # Joined(j)
        /\ k[1] # j[1] => ScenarioName[k[1]] # ScenarioName[j[1]]

\* A ProcessPcap that returned nil has fetched the analysis of its own capture, made in
\* this run, although other scenarios use the pod meanwhile and earlier runs have left
\* files in it.  The exceptions are these: names that join alike, a command that ends
\* well without a result, and a command that an earlier run has left behind.
ResultIsOwn ==
    \A c \in Calls :
        at[c] \in {"remove", "ok"} /\ Unshared(c[1]) /\ ~silent[c] /\ File(c) \notin disturbed
        => report[Report(c)] = <<c[1], run>>

\* What a command that ended well without a result, or an orphan, can make of it: the
\* result of an earlier run, whole or in part, but never that of another target.
OthersNeverMix ==
    \A c \in Calls :
        at[c] \in {"remove", "ok"} /\ Unshared(c[1])
        => report[Report(c)] \in ({c[1]} \X (1..run)) \cup {Nothing, Partial}

\* When ProcessResults returns nil, all its goroutines have ended and every target has its
\* result of every processor on the host: of this run, unless a command that an earlier run
\* has left behind wrote it.  What can be missing is the result of a command that ended well
\* without writing one, and one that another call removed because the names join alike.
NilMeansReports ==
    \A s \in Scenarios : outcome[s] = "ok" =>
        \A c \in CallsOf(s) :
            Unshared(c[1]) /\ ~silent[c] =>
                \/ report[Report(c)] = <<c[1], run>>
                \/ /\ File(c) \in disturbed
                   /\ report[Report(c)] \in ({c[1]} \X (1..run)) \cup {Partial}
=============================================================================
