---------------------------- MODULE AttackCommand ----------------------------
(***************************************************************************)
(* The attack: what FromYAML makes of atkCommand and atkTime, the script   *)
(* of withAttackLogging that runs it in the attacker pod, and the exec     *)
(* that waits for the script.  The script lets tee copy what the attack    *)
(* writes from a FIFO to attacker.log.                                     *)
(*                                                                         *)
(* atkCommand is a sequence of commands, one after the other as with ; or  *)
(* a line break.  A command is a record:                                   *)
(*    word        "program", "builtin" (or an assignment) or "keyword"     *)
(*    background  it is followed by &                                      *)
(*    holds       it keeps the standard output or error it was given       *)
(*    lines       lines it writes there                                    *)
(*    ends        it ends by itself, with this status:                     *)
(*    status                                                               *)
(*    obeys       it ends after SIGTERM                                    *)
(***************************************************************************)
EXTENDS Integers, Sequences

CONSTANTS
    Attacks,     \* records [commands, comment, time]: a scenario's atkCommand, whether its
                 \* last line ends in a comment, and its atkTime in milliseconds, or NoTime
    NoTime,      \* an atkTime that is empty or no duration
    MaxCommands, \* the longest sequence of commands
    PipeCapacity \* lines the FIFO holds

Commands ==
    [word : {"program", "builtin", "keyword"}, background : BOOLEAN, holds : BOOLEAN,
     lines : Nat, ends : BOOLEAN, status : 0..255, obeys : BOOLEAN]

ASSUME AttackAssumption ==
    /\ NoTime \notin Int
    /\ Attacks \subseteq [commands : Seq(Commands), comment : BOOLEAN, time : Int \cup {NoTime}]
    /\ \A a \in Attacks : Len(a.commands) <= MaxCommands
    /\ \A a \in Attacks : \A i \in DOMAIN a.commands : ~a.commands[i].holds => a.commands[i].lines = 0
    /\ MaxCommands \in Nat \ {0} /\ PipeCapacity \in Nat \ {0}

-----------------------------------------------------------------------------
(***************************************************************************)
(* FromYAML                                                                *)
(***************************************************************************)

\* Faulty variant of ParseToSeconds: whole minutes.
ParseToMinutes(time) ==
    IF time = NoTime THEN NoTime ELSE IF time >= 0 THEN 60 * (time \div 60000) ELSE -60 * ((-time) \div 60000)

\* int(duration.Seconds()) rounds towards zero.
ParseToSeconds(time) ==
    IF time = NoTime THEN NoTime ELSE IF time >= 0 THEN time \div 1000 ELSE -((-time) \div 1000)

\* "timeout" is called in a way it rejects, or cannot execute what follows it.
Rejects(status) ==
    [word |-> "program", background |-> FALSE, holds |-> TRUE, lines |-> 1,
     ends |-> TRUE, status |-> status, obeys |-> TRUE]

\* The first command with "timeout <seconds>s" before it: a negative number is taken for an
\* option, and only programs can be executed.
Limited(command, seconds) ==
    IF seconds < 0 THEN [Rejects(125) EXCEPT !.background = command.background]
    ELSE IF command.word = "builtin" THEN [Rejects(127) EXCEPT !.background = command.background]
    ELSE command

\* The commands that are run.  A blank command becomes "timeout <seconds>s" alone.
AtkCommand(a) ==
    LET seconds == ParseToSeconds(a.time)
    IN  IF seconds = NoTime THEN a.commands
        ELSE IF a.commands = <<>> THEN <<Rejects(125)>>
        ELSE [a.commands EXCEPT ![1] = Limited(@, seconds)]

\* timeout ends what runs under it, unless the number is zero.
HasTimer(a, i) ==
    /\ i = 1 /\ a.commands # <<>>
    /\ ParseToSeconds(a.time) # NoTime /\ ParseToSeconds(a.time) > 0
    /\ a.commands[1].word = "program"

\* The script does not parse: a comment swallows the parenthesis that withAttackLogging
\* puts behind the command, or a keyword follows timeout.
SyntaxError(a) ==
    \/ a.comment
    \/ a.commands # <<>> /\ a.commands[1].word = "keyword" /\ ParseToSeconds(a.time) # NoTime

-----------------------------------------------------------------------------
VARIABLES
    attack,    \* the scenario's attack
    gnu,       \* timeout in the attacker's image is that of GNU, not of busybox
    sh,        \* where the script is
    next,      \* the command the subshell starts next
    fg,        \* the command it waits for, 0 if none
    alive,     \* the commands that run
    signalled, \* the commands that timeout has sent SIGTERM
    left,      \* command -> lines it has still to write
    last,      \* $? in the subshell
    written,   \* lines written to the FIFO
    tee,       \* the state of tee
    logged,    \* lines in attacker.log
    status,    \* the script's $status
    cut,       \* the exec is cut off: its context has ended or its connection is lost
    result     \* what the exec returned: a status, NoStatus, or None while it runs

processVars == <<next, fg, alive, signalled, left, last>>
logVars == <<written, tee, logged>>
inputVars == <<attack, gnu>>
vars == <<inputVars, sh, processVars, logVars, status, cut, result>>

commands == AtkCommand(attack)

TypeOK ==
    /\ attack \in Attacks /\ gnu \in BOOLEAN
    /\ sh \in {"parse", "fifo", "open", "attack", "wait", "remove", "over"}
    /\ next \in 1..Len(commands) + 1
    /\ fg \in alive \cup {0}
    /\ alive \subseteq 1..(next - 1) /\ signalled \subseteq 1..(next - 1)
    /\ left \in [DOMAIN commands -> Nat]
    /\ last \in 0..255 /\ status \in 0..255
    /\ tee \in {"off", "opening", "copying", "ended"}
    /\ logged \in Nat /\ written \in logged..(logged + PipeCapacity)
    /\ cut \in BOOLEAN
    /\ result \in 0..255 \cup {-1, -2}

None == -1
NoStatus == -2  \* an error of the exec

Init ==
    /\ attack \in Attacks /\ gnu \in BOOLEAN
    /\ sh = "parse"
    /\ next = 1 /\ fg = 0 /\ alive = {} /\ signalled = {} /\ last = 0
    /\ left = [i \in DOMAIN commands |-> commands[i].lines]
    /\ written = 0 /\ logged = 0 /\ tee = "off"
    /\ status = 0 /\ cut = FALSE /\ result = None

-----------------------------------------------------------------------------
(***************************************************************************)
(* The script                                                              *)
(***************************************************************************)
Exits(code) == sh' = "over" /\ status' = code

\* An empty script ends at once, one that does not parse with status 2.
Parse ==
    /\ sh = "parse"
    /\ \/ SyntaxError(attack) /\ Exits(2)
       \/ ~SyntaxError(attack) /\ commands = <<>> /\ Exits(0)
       \/ ~SyntaxError(attack) /\ commands # <<>> /\ sh' = "fifo" /\ UNCHANGED status
    /\ UNCHANGED <<inputVars, processVars, logVars, cut, result>>

\* rm -f and mkfifo, or exit 1; then tee is started and opens the FIFO for reading.
MakePipe ==
    /\ sh = "fifo"
    /\ \/ sh' = "open" /\ tee' = "opening" /\ UNCHANGED status
       \/ Exits(1) /\ UNCHANGED tee
    /\ UNCHANGED <<inputVars, processVars, written, logged, cut, result>>

\* The subshell opens it for writing: either open waits for the other.
OpenPipe ==
    /\ sh = "open" /\ tee = "opening"
    /\ sh' = "attack" /\ tee' = "copying"
    /\ UNCHANGED <<inputVars, processVars, written, logged, status, cut, result>>

StartCommand ==
    /\ sh = "attack" /\ fg = 0 /\ next \in DOMAIN commands
    /\ next' = next + 1
    /\ alive' = alive \cup {next}
    /\ IF commands[next].background THEN last' = 0 /\ UNCHANGED fg ELSE fg' = next /\ UNCHANGED last
    /\ UNCHANGED <<inputVars, sh, signalled, left, logVars, status, cut, result>>

\* Faulty variant of HasRoom: a write to a full FIFO does not block.
NeverFull == TRUE

HasRoom == written - logged < PipeCapacity

Write(i) ==
    /\ i \in alive /\ left[i] > 0
    /\ HasRoom
    /\ left' = [left EXCEPT ![i] = @ - 1]
    /\ written' = written + 1
    /\ UNCHANGED <<inputVars, sh, next, fg, alive, signalled, last, tee, logged, status, cut, result>>

\* timeout sends SIGTERM when the time is over.
TimeIsOver(i) ==
    /\ i \in alive \ signalled /\ HasTimer(attack, i)
    /\ signalled' = signalled \cup {i}
    /\ UNCHANGED <<inputVars, sh, next, fg, alive, left, last, logVars, status, cut, result>>

\* GNU timeout says 124 when it had to send it.  With busybox the status is the command's:
\* its own, or that of a process killed by SIGTERM.
EndStatuses(i) ==
    IF i \notin signalled THEN {commands[i].status}
    ELSE IF gnu THEN {124} ELSE {commands[i].status, 143}

\* A command ends by itself, or after the signal.
EndCommand(i) ==
    /\ i \in alive
    /\ \/ commands[i].ends /\ left[i] = 0
       \/ commands[i].obeys /\ i \in signalled
    /\ alive' = alive \ {i}
    /\ IF fg = i THEN fg' = 0 /\ last' \in EndStatuses(i) ELSE UNCHANGED <<fg, last>>
    /\ UNCHANGED <<inputVars, sh, next, signalled, left, logVars, status, cut, result>>

\* Faulty variant of KeepStatus: status=$? comes after wait, and is that of tee.
StatusOfTee == status' = 0

\* status=$?
KeepStatus == status' = last

EndSubshell ==
    /\ sh = "attack" /\ fg = 0 /\ next \notin DOMAIN commands
    /\ sh' = "wait"
    /\ KeepStatus
    /\ UNCHANGED <<inputVars, processVars, logVars, cut, result>>

\* Who has the FIFO open for writing.
Writers == {i \in alive : commands[i].holds} \cup (IF sh = "attack" THEN {0} ELSE {})

TeeCopies ==
    /\ tee = "copying" /\ logged < written
    /\ logged' = logged + 1
    /\ UNCHANGED <<inputVars, sh, processVars, written, tee, status, cut, result>>

\* Faulty variant of TeeSeesEnd: tee leaves when the attack's shell does.
TeeLeaves == sh # "attack"

\* The end of the file: nothing in the FIFO, and nobody who could write to it.
TeeSeesEnd == logged = written /\ Writers = {}

TeeEnds ==
    /\ tee = "copying" /\ TeeSeesEnd
    /\ tee' = "ended"
    /\ UNCHANGED <<inputVars, sh, processVars, written, logged, status, cut, result>>

\* Faulty variant of TeeEnded: wait is missing.
NoWaitForTee == TRUE

TeeEnded == tee = "ended"

\* wait "$tee_pid"
WaitForTee ==
    /\ sh = "wait" /\ TeeEnded
    /\ sh' = "remove"
    /\ UNCHANGED <<inputVars, processVars, logVars, status, cut, result>>

\* rm -f "$pipe"; exit "$status"
RemovePipe ==
    /\ sh = "remove"
    /\ Exits(status)
    /\ UNCHANGED <<inputVars, processVars, logVars, cut, result>>

-----------------------------------------------------------------------------
(***************************************************************************)
(* The exec                                                                *)
(***************************************************************************)
\* The run is cancelled or the connection breaks; the script runs on.
CutOff ==
    /\ ~cut
    /\ cut' = TRUE
    /\ UNCHANGED <<inputVars, sh, processVars, logVars, status, result>>

ExecReturns ==
    /\ result = None
    /\ \/ sh = "over" /\ result' = status
       \/ cut /\ result' = NoStatus
    /\ UNCHANGED <<inputVars, sh, processVars, logVars, status, cut>>

ShellStep ==
    \/ Parse \/ MakePipe \/ OpenPipe \/ StartCommand \/ EndSubshell \/ WaitForTee \/ RemovePipe
TeeStep == TeeCopies \/ TeeEnds

Next ==
    \/ ShellStep
    \/ \E i \in alive : Write(i) \/ TimeIsOver(i) \/ EndCommand(i)
    \/ TeeStep
    \/ CutOff \/ ExecReturns

\* Processes run on, whoever has been started; timeout's timer fires.
ScriptFairness == WF_vars(ShellStep) /\ WF_vars(TeeStep) /\ WF_vars(ExecReturns)
CommandFairness(i) == WF_vars(Write(i)) /\ WF_vars(TimeIsOver(i)) /\ WF_vars(EndCommand(i))

Fairness == ScriptFairness /\ \A i \in 1..MaxCommands : CommandFairness(i)

Spec == Init /\ [][Next]_vars /\ Fairness

-----------------------------------------------------------------------------
(***************************************************************************)
(* Properties.                                                             *)
(***************************************************************************)
AttackRan == result \in 0..255 /\ tee # "off"

\* When the exec has returned a status of the attack, attacker.log, which is copied next,
\* holds every line, and nothing that could write another is left running, be it in the
\* background.
LogComplete == AttackRan => logged = written /\ \A i \in alive : ~commands[i].holds

\* The status tells how the attack ended, from which ExecuteScenario decides whether there
\* are results, partial results or none.  With GNU timeout an attack of one command that was
\* cut short ends with 124 and an attack that was not has its own status.  A background
\* command, and one that is not the last, can be cut short without a trace.
StatusTellsTheEnd ==
    AttackRan =>
        LET n == Len(commands)
        IN  IF commands[n].background THEN result = 0
            ELSE IF n \in signalled /\ gnu THEN result = 124
            ELSE n \notin signalled => result = commands[n].status

\* Nothing in the pod is stuck but on what the script or the FIFO makes it wait for: the
\* other end of the FIFO, the command in the foreground, the end of tee, or room.
ShellCanStep ==
    \/ sh \in {"parse", "fifo", "remove"}
    \/ sh = "open" /\ tee = "opening"
    \/ sh = "attack" /\ fg = 0
    \/ sh = "wait" /\ TeeEnded

TeeCanStep == tee = "copying" /\ (logged < written \/ TeeSeesEnd)

IsOver(i) == (commands[i].ends /\ left[i] = 0) \/ (commands[i].obeys /\ i \in signalled)

CommandGoesOn(i) ==
    /\ left[i] > 0 /\ HasRoom => ENABLED <<Write(i)>>_vars
    /\ i \notin signalled /\ HasTimer(attack, i) => ENABLED <<TimeIsOver(i)>>_vars
    /\ IsOver(i) => ENABLED <<EndCommand(i)>>_vars

ProcessesGoOn ==
    /\ ShellCanStep => ENABLED <<ShellStep>>_vars
    /\ TeeCanStep => ENABLED <<TeeStep>>_vars
    /\ sh = "over" /\ result = None => ENABLED <<ExecReturns>>_vars
    /\ \A i \in alive : CommandGoesOn(i)

\* Every command ends by itself, or is the first one, a program that obeys SIGTERM, under an
\* atkTime of at least a second.  Only the first of several commands is under the limit.
Bounded ==
    LET limited == attack.time # NoTime /\ attack.time >= 1000 /\ commands[1].word = "program"
    IN  \A i \in DOMAIN commands : commands[i].ends \/ (i = 1 /\ limited /\ commands[i].obeys)

\* atkTime bounds the attack: an attack whose commands all end or obey the limit returns,
\* as the FIFO is emptied as long as somebody writes, and tee ends after the last of them.
BoundedAttackReturns == []ProcessesGoOn /\ (Bounded ~> result # None)
=============================================================================
