-------------------------- MODULE AttackCommandProofs --------------------------
(***************************************************************************)
(* Proofs about AttackCommand, for any attacks, whatever their commands do *)
(* and however long they are, and any capacity of the FIFO.                *)
(***************************************************************************)
EXTENDS AttackCommand, TLAPS

\* A prefix "timeout" makes commands of commands.
LEMMA AtkCommandType ==
    ASSUME NEW a \in Attacks
    PROVE  /\ AtkCommand(a) \in Seq(Commands)
           /\ \A i \in DOMAIN AtkCommand(a) : /\ AtkCommand(a)[i].status \in 0..255
                                             /\ AtkCommand(a)[i].lines \in Nat
<1>1. a.commands \in Seq(Commands)
  BY AttackAssumption
<1>2. /\ Rejects(125) \in Commands /\ Rejects(127) \in Commands
      /\ \A b \in BOOLEAN : /\ [Rejects(125) EXCEPT !.background = b] \in Commands
                            /\ [Rejects(127) EXCEPT !.background = b] \in Commands
  <2>1. ASSUME NEW n \in 0..255 PROVE Rejects(n) \in Commands
    BY DEF Rejects, Commands
  <2>2. ASSUME NEW r \in Commands, NEW b \in BOOLEAN PROVE [r EXCEPT !.background = b] \in Commands
    BY DEF Commands
  <2>3. 125 \in 0..255 /\ 127 \in 0..255
    OBVIOUS
  <2> QED BY <2>1, <2>2, <2>3
<1>3. AtkCommand(a) \in Seq(Commands)
  <2>1. CASE a.commands = <<>>
    BY <1>1, <1>2, <2>1 DEF AtkCommand
  <2>2. CASE a.commands # <<>>
    <3>1. a.commands[1] \in Commands /\ 1 \in DOMAIN a.commands
      BY <1>1, <2>2
    <3>2. ASSUME NEW seconds PROVE Limited(a.commands[1], seconds) \in Commands
      <4>1. a.commands[1].background \in BOOLEAN
        BY <3>1 DEF Commands
      <4> QED BY <1>2, <3>1, <4>1 DEF Limited
    <3>3. ASSUME NEW c \in Commands PROVE [a.commands EXCEPT ![1] = c] \in Seq(Commands)
      BY <1>1, <2>2
    <3> QED BY <1>1, <2>2, <3>2, <3>3 DEF AtkCommand
  <2> QED BY <2>1, <2>2
<1>4. ASSUME NEW i \in DOMAIN AtkCommand(a)
      PROVE  AtkCommand(a)[i].status \in 0..255 /\ AtkCommand(a)[i].lines \in Nat
  <2>1. AtkCommand(a)[i] \in Commands
    BY <1>3
  <2> QED BY <2>1 DEF Commands
<1> QED BY <1>3, <1>4

\* What a step of a command does.
CommandStep(i) == Write(i) \/ TimeIsOver(i) \/ EndCommand(i)

LEMMA StepCases ==
    ASSUME [Next]_vars
    PROVE  \/ Parse \/ MakePipe \/ OpenPipe \/ StartCommand \/ EndSubshell \/ WaitForTee \/ RemovePipe
           \/ \E i \in alive : CommandStep(i)
           \/ TeeCopies \/ TeeEnds \/ CutOff \/ ExecReturns
           \/ UNCHANGED vars
BY DEF Next, ShellStep, TeeStep, CommandStep

LEMMA CommandTypes ==
    ASSUME TypeOK
    PROVE  /\ commands \in Seq(Commands) /\ Len(commands) \in Nat /\ DOMAIN commands = 1..Len(commands)
           /\ \A i \in alive : i \in DOMAIN commands /\ i # 0
           /\ \A i \in DOMAIN commands : commands[i].status \in 0..255
<1>1. commands \in Seq(Commands) /\ \A i \in DOMAIN commands : commands[i].status \in 0..255
  BY AtkCommandType DEF TypeOK, commands
<1>2. Len(commands) \in Nat /\ DOMAIN commands = 1..Len(commands)
  BY <1>1
<1> QED BY <1>1, <1>2 DEF TypeOK

-----------------------------------------------------------------------------
(***************************************************************************)
(* Type correctness.                                                       *)
(***************************************************************************)
LEMMA TypeInit == Init => TypeOK
<1> SUFFICES ASSUME Init PROVE TypeOK
  OBVIOUS
<1>1. /\ commands \in Seq(Commands) /\ Len(commands) \in Nat
      /\ \A i \in DOMAIN commands : commands[i].lines \in Nat
  BY AtkCommandType DEF Init, commands
<1>2. left \in [DOMAIN commands -> Nat]
  BY <1>1 DEF Init
<1>3. /\ attack \in Attacks /\ gnu \in BOOLEAN /\ sh = "parse" /\ tee = "off"
      /\ next = 1 /\ fg = 0 /\ alive = {} /\ signalled = {} /\ last = 0 /\ status = 0
      /\ written = 0 /\ logged = 0 /\ cut = FALSE /\ result = -1
  BY DEF Init, None
<1>4. next \in 1..Len(commands) + 1 /\ 0 \in 0..PipeCapacity
  BY <1>1, <1>3, AttackAssumption
<1>5. /\ fg \in alive \cup {0} /\ alive \subseteq 1..(next - 1) /\ signalled \subseteq 1..(next - 1)
      /\ last \in 0..255 /\ status \in 0..255
  BY <1>3
<1>6. logged \in Nat /\ written \in logged..(logged + PipeCapacity) /\ result \in 0..255 \cup {-1, -2}
  BY <1>3, <1>4, AttackAssumption
<1> QED BY <1>2, <1>3, <1>4, <1>5, <1>6 DEF TypeOK

LEMMA TypeStep == TypeOK /\ [Next]_vars => TypeOK'
<1> SUFFICES ASSUME TypeOK, [Next]_vars PROVE TypeOK'
  OBVIOUS
<1> USE DEF processVars, logVars, inputVars
<1>0. attack' = attack /\ gnu' = gnu /\ commands' = commands
  <2>1. attack' = attack /\ gnu' = gnu
    BY StepCases DEF Parse, MakePipe, OpenPipe, StartCommand, EndSubshell, WaitForTee, RemovePipe, CommandStep,
        Write, TimeIsOver, EndCommand, TeeCopies, TeeEnds, CutOff, ExecReturns, vars
  <2> QED BY <2>1 DEF commands
<1>1. CASE Parse \/ MakePipe \/ OpenPipe \/ EndSubshell \/ WaitForTee \/ RemovePipe
  <2>1. sh' \in {"parse", "fifo", "open", "attack", "wait", "remove", "over"}
    BY <1>1 DEF TypeOK, Parse, MakePipe, OpenPipe, EndSubshell, WaitForTee, RemovePipe, Exits
  <2>3. status' \in {0, 1, 2, last, status}
    BY <1>1 DEF Parse, MakePipe, OpenPipe, EndSubshell, KeepStatus, WaitForTee, RemovePipe, Exits
  <2>4. status' \in 0..255
    BY <2>3 DEF TypeOK
  <2>5. tee' \in {"off", "opening", "copying", "ended"}
    BY <1>1 DEF TypeOK, Parse, MakePipe, OpenPipe, EndSubshell, WaitForTee, RemovePipe
  <2>2. UNCHANGED <<processVars, written, logged, cut, result>>
    BY <1>1 DEF Parse, MakePipe, OpenPipe, EndSubshell, WaitForTee, RemovePipe
  <2> QED BY <1>0, <2>1, <2>2, <2>4, <2>5 DEF TypeOK
<1>2. CASE StartCommand
  <2>1. next \in 1..Len(commands)
    BY <1>2, CommandTypes DEF StartCommand
  <2>2. Len(commands) \in Nat
    BY CommandTypes
  <2>3. /\ next' = next + 1 /\ alive' = alive \cup {next}
        /\ (last' = 0 /\ fg' = fg) \/ (last' = last /\ fg' = next)
        /\ UNCHANGED <<sh, signalled, left, logVars, status, cut, result>>
    BY <1>2 DEF StartCommand
  <2>4. next' \in 1..Len(commands) + 1 /\ 1..(next - 1) \subseteq 1..(next' - 1) /\ next \in 1..(next' - 1)
    BY <2>1, <2>2, <2>3
  <2>5. alive' \subseteq 1..(next' - 1) /\ signalled' \subseteq 1..(next' - 1) /\ fg' \in alive' \cup {0}
    BY <2>3, <2>4 DEF TypeOK
  <2>6. last' \in 0..255
    <3>1. last \in 0..255 /\ 0 \in 0..255
      BY DEF TypeOK
    <3>2. last' = 0 \/ last' = last
      BY <2>3
    <3> QED BY <3>1, <3>2
  <2>7. left' \in [DOMAIN commands' -> Nat]
    BY <1>0, <2>3 DEF TypeOK
  <2> QED BY <1>0, <2>3, <2>4, <2>5, <2>6, <2>7 DEF TypeOK
<1>3. ASSUME NEW i \in alive, CommandStep(i) PROVE TypeOK'
  <2>0. i \in DOMAIN commands
    BY CommandTypes
  <2>1. CASE Write(i)
    <3>1. left' \in [DOMAIN commands -> Nat]
      BY <2>0, <2>1 DEF TypeOK, Write
    <3>2. written' \in logged..(logged + PipeCapacity)
      BY <2>1, AttackAssumption DEF TypeOK, Write, HasRoom
    <3> QED BY <1>0, <2>1, <3>1, <3>2 DEF TypeOK, Write
  <2>2. CASE TimeIsOver(i)
    BY <1>0, <2>2 DEF TypeOK, TimeIsOver
  <2>3. CASE EndCommand(i)
    <3>1. last' \in 0..255
      <4>1. EndStatuses(i) \subseteq 0..255
        <5>1. commands[i].status \in 0..255 /\ 124 \in 0..255 /\ 143 \in 0..255
          BY <2>0, CommandTypes
        <5> QED BY <5>1 DEF EndStatuses
      <4> QED BY <2>3, <4>1 DEF TypeOK, EndCommand
    <3> QED BY <1>0, <2>3, <3>1 DEF TypeOK, EndCommand
  <2> QED BY <1>3, <2>1, <2>2, <2>3 DEF CommandStep
<1>4. CASE TeeCopies \/ TeeEnds
  <2>1. tee' \in {"off", "opening", "copying", "ended"}
    BY <1>4 DEF TypeOK, TeeCopies, TeeEnds
  <2>2. logged' \in Nat /\ written' \in logged'..(logged' + PipeCapacity)
    BY <1>4, AttackAssumption DEF TypeOK, TeeCopies, TeeEnds
  <2>3. UNCHANGED <<sh, processVars, status, cut, result>>
    BY <1>4 DEF TeeCopies, TeeEnds
  <2> QED BY <1>0, <2>1, <2>2, <2>3 DEF TypeOK
<1>5. CASE CutOff \/ ExecReturns \/ UNCHANGED vars
  <2>1. cut' \in BOOLEAN /\ result' \in 0..255 \cup {-1, -2}
    BY <1>5 DEF TypeOK, CutOff, ExecReturns, vars, NoStatus
  <2>2. UNCHANGED <<sh, processVars, logVars, status>>
    BY <1>5 DEF CutOff, ExecReturns, vars
  <2> QED BY <1>0, <2>1, <2>2 DEF TypeOK
<1> QED BY <1>1, <1>2, <1>3, <1>4, <1>5, StepCases

\* Type correctness: the FIFO never holds more than its capacity, and the command the shell
\* waits for is one that runs.
THEOREM TypeCorrect == Spec => []TypeOK
BY TypeInit, TypeStep, PTL DEF Spec

-----------------------------------------------------------------------------
(***************************************************************************)
(* The log.                                                                *)
(***************************************************************************)
\* When tee has ended, the log is complete and nobody is left who could write.
LogInv ==
    /\ tee = "off" => sh \in {"parse", "fifo", "over"}
    /\ sh \in {"parse", "fifo"} => tee = "off"
    /\ tee \in {"off", "opening"} => alive = {} /\ written = 0 /\ logged = 0 /\ sh # "attack"
    /\ tee = "ended" => logged = written /\ sh # "attack" /\ \A i \in alive : ~commands[i].holds
    /\ sh \in {"remove", "over"} => tee \in {"off", "ended"}
    /\ result \in 0..255 => sh = "over"
    /\ \A i \in DOMAIN commands : ~commands[i].holds => left[i] = 0

LEMMA LogInit == Init => LogInv
<1> SUFFICES ASSUME Init PROVE LogInv
  OBVIOUS
<1>1. \A i \in DOMAIN commands : ~commands[i].holds => commands[i].lines = 0
  <2>1. attack \in Attacks
    BY DEF Init
  <2>2. \A i \in DOMAIN attack.commands : ~attack.commands[i].holds => attack.commands[i].lines = 0
    BY <2>1, AttackAssumption
  <2>3. attack.commands \in Seq(Commands)
    BY <2>1, AttackAssumption
  <2>4. Rejects(125).holds /\ Rejects(127).holds
        /\ \A b : [Rejects(125) EXCEPT !.background = b].holds /\ [Rejects(127) EXCEPT !.background = b].holds
    BY DEF Rejects
  <2>5. CASE attack.commands = <<>>
    BY <2>2, <2>4, <2>5 DEF commands, AtkCommand
  <2>6. CASE attack.commands # <<>>
    <3>1. 1 \in DOMAIN attack.commands
      BY <2>3, <2>6
    <3>2. \A seconds : LET c == Limited(attack.commands[1], seconds) IN c.holds \/ c = attack.commands[1]
      BY <2>4 DEF Limited
    <3>3. commands = attack.commands
          \/ \E seconds : commands = [attack.commands EXCEPT ![1] = Limited(attack.commands[1], seconds)]
      BY <2>6 DEF commands, AtkCommand
    <3> QED BY <2>2, <2>3, <3>1, <3>2, <3>3
  <2> QED BY <2>5, <2>6
<1>2. \A i \in DOMAIN commands : ~commands[i].holds => left[i] = 0
  BY <1>1 DEF Init
<1>3. sh = "parse" /\ tee = "off" /\ alive = {} /\ written = 0 /\ logged = 0 /\ result = -1
  BY DEF Init, None
<1> QED BY <1>2, <1>3 DEF LogInv

LEMMA LogStep == TypeOK /\ LogInv /\ [Next]_vars => LogInv'
<1> SUFFICES ASSUME TypeOK, LogInv, [Next]_vars PROVE LogInv'
  OBVIOUS
<1> USE DEF processVars, logVars, inputVars
<1>0. commands' = commands
  BY StepCases DEF Parse, MakePipe, OpenPipe, StartCommand, EndSubshell, WaitForTee, RemovePipe, CommandStep,
      Write, TimeIsOver, EndCommand, TeeCopies, TeeEnds, CutOff, ExecReturns, vars, commands
<1>1. CASE Parse
  BY <1>0, <1>1 DEF Parse, Exits, LogInv
<1>2. CASE MakePipe
  BY <1>0, <1>2 DEF MakePipe, Exits, LogInv
<1>3. CASE OpenPipe
  BY <1>0, <1>3 DEF OpenPipe, LogInv
<1>4. CASE StartCommand
  BY <1>0, <1>4 DEF StartCommand, LogInv
<1>5. CASE EndSubshell \/ WaitForTee \/ RemovePipe
  BY <1>0, <1>5 DEF EndSubshell, WaitForTee, TeeEnded, RemovePipe, Exits, LogInv
<1>6. ASSUME NEW i \in alive, CommandStep(i) PROVE LogInv'
  <2>0. i \in DOMAIN commands
    BY CommandTypes
  <2>1. CASE Write(i)
    <3>1. commands[i].holds
      <4>1. left[i] > 0 /\ (~commands[i].holds => left[i] = 0)
        BY <2>0, <2>1 DEF Write, LogInv
      <4> QED BY <4>1
    <3> QED BY <1>0, <2>0, <2>1, <3>1 DEF TypeOK, Write, LogInv
  <2>2. CASE TimeIsOver(i) \/ EndCommand(i)
    BY <1>0, <2>2 DEF TimeIsOver, EndCommand, LogInv
  <2> QED BY <1>6, <2>1, <2>2 DEF CommandStep
<1>7. CASE TeeCopies \/ TeeEnds
  BY <1>0, <1>7 DEF TeeCopies, TeeEnds, TeeSeesEnd, Writers, LogInv
<1>8. CASE CutOff \/ ExecReturns \/ UNCHANGED vars
  BY <1>0, <1>8 DEF CutOff, ExecReturns, NoStatus, vars, LogInv
<1> QED BY <1>1, <1>2, <1>3, <1>4, <1>5, <1>6, <1>7, <1>8, StepCases

\* When the exec returns a status, the log that is copied next is whole and stays so.
THEOREM LogCompleteAlways == Spec => []LogComplete
<1>1. LogInv => LogComplete
  BY DEF LogInv, LogComplete, AttackRan
<1> QED BY <1>1, TypeInit, TypeStep, LogInit, LogStep, PTL DEF Spec

-----------------------------------------------------------------------------
(***************************************************************************)
(* The status.                                                             *)
(***************************************************************************)
\* x is what the shell makes of the end of command k.
Final(k, x) == IF commands[k].background THEN x = 0 ELSE k \notin alive /\ x \in EndStatuses(k)

CommandFinal == Final(next - 1, last)
ScriptFinal == Final(Len(commands), status)

\* $? is the end of the command before next, and $status that of the last one.
StatusInv ==
    /\ sh \notin {"parse", "over"} \/ tee # "off" => commands # <<>>
    /\ sh \in {"parse", "fifo", "open"} => next = 1
    /\ fg # 0 => fg = next - 1 /\ sh = "attack" /\ ~commands[fg].background
    /\ sh = "attack" /\ fg = 0 /\ next > 1 => CommandFinal
    /\ sh \in {"wait", "remove"} \/ (sh = "over" /\ tee # "off") => ScriptFinal
    /\ result \in 0..255 => sh = "over" /\ result = status

\* Who is not running is not signalled any more, and who has ended stays so.
LEMMA FinalKept ==
    ASSUME commands' = commands, gnu' = gnu, alive' \subseteq alive,
           signalled' = signalled \/ \E i \in alive : signalled' = signalled \cup {i}
    PROVE  /\ CommandFinal /\ next' = next /\ last' = last => CommandFinal'
           /\ ScriptFinal /\ status' = status => ScriptFinal'
BY DEF CommandFinal, ScriptFinal, Final, EndStatuses

LEMMA StatusStep == TypeOK /\ LogInv /\ StatusInv /\ [Next]_vars => StatusInv'
<1> SUFFICES ASSUME TypeOK, LogInv, StatusInv, [Next]_vars PROVE StatusInv'
  OBVIOUS
<1> USE DEF processVars, logVars, inputVars
<1>0. attack' = attack /\ gnu' = gnu /\ commands' = commands
  <2>1. attack' = attack /\ gnu' = gnu
    BY StepCases DEF Parse, MakePipe, OpenPipe, StartCommand, EndSubshell, WaitForTee, RemovePipe, CommandStep,
        Write, TimeIsOver, EndCommand, TeeCopies, TeeEnds, CutOff, ExecReturns, vars
  <2> QED BY <2>1 DEF commands
<1>1. CASE Parse \/ MakePipe
  <2>1. tee = "off" /\ fg = 0 /\ next = 1 /\ ~(result \in 0..255)
    BY <1>1 DEF Parse, MakePipe, LogInv, StatusInv
  <2>2. UNCHANGED <<next, fg, last, result>>
    BY <1>1 DEF Parse, MakePipe
  <2>3. \/ sh' = "over" /\ tee' = "off"
        \/ sh' \in {"fifo", "open"} /\ commands # <<>>
    BY <1>1, <2>1 DEF Parse, MakePipe, Exits, StatusInv
  <2> QED BY <1>0, <2>1, <2>2, <2>3 DEF StatusInv
<1>2. CASE OpenPipe
  BY <1>0, <1>2 DEF OpenPipe, StatusInv
<1>3. CASE StartCommand
  <2>1. /\ sh = "attack" /\ sh' = "attack" /\ next \in 1..Len(commands) /\ next' = next + 1 /\ fg = 0
        /\ UNCHANGED <<tee, result>>
        /\ IF commands[next].background THEN last' = 0 /\ fg' = 0 ELSE fg' = next
    BY <1>3, CommandTypes DEF StartCommand
  <2>2. next' - 1 = next /\ next # 0
    BY <2>1
  <2>3. fg' = 0 => CommandFinal'
    BY <1>0, <2>1, <2>2 DEF CommandFinal, Final
  <2>4. fg' # 0 => fg' = next' - 1 /\ fg' = next /\ ~commands[next].background
    BY <2>1, <2>2
  <2>5. commands # <<>> /\ ~(result \in 0..255)
    BY <2>1 DEF StatusInv
  <2> QED BY <1>0, <2>1, <2>3, <2>4, <2>5 DEF StatusInv
<1>4. CASE EndSubshell
  <2>1. /\ sh = "attack" /\ fg = 0 /\ status' = last /\ sh' = "wait"
        /\ UNCHANGED <<processVars, tee, result>>
    BY <1>4 DEF EndSubshell, KeepStatus
  <2>2. next = Len(commands) + 1 /\ next > 1 /\ next - 1 = Len(commands)
    <3>1. commands # <<>> /\ next \in 1..Len(commands) + 1 /\ next \notin 1..Len(commands)
      BY <1>4, <2>1, CommandTypes DEF EndSubshell, StatusInv, TypeOK
    <3>2. Len(commands) \in Nat /\ Len(commands) # 0
      BY <3>1, CommandTypes
    <3> QED BY <3>1, <3>2
  <2>3. CommandFinal
    BY <2>1, <2>2 DEF StatusInv
  <2>4. ScriptFinal'
    BY <1>0, <2>1, <2>2, <2>3 DEF CommandFinal, ScriptFinal, Final, EndStatuses
  <2> QED BY <1>0, <2>1, <2>2, <2>4 DEF StatusInv
<1>5. CASE WaitForTee \/ RemovePipe \/ TeeCopies \/ TeeEnds \/ CutOff \/ ExecReturns \/ UNCHANGED vars
  <2>1. UNCHANGED <<processVars, status>>
    BY <1>5 DEF WaitForTee, RemovePipe, Exits, TeeCopies, TeeEnds, CutOff, ExecReturns, vars
  <2>2. (CommandFinal => CommandFinal') /\ (ScriptFinal => ScriptFinal')
    BY <1>0, <2>1, FinalKept
  <2>3. \/ sh' = sh /\ (tee' = tee \/ (tee # "off" /\ tee' # "off"))
        \/ sh = "wait" /\ sh' = "remove" /\ tee' = tee
        \/ sh = "remove" /\ sh' = "over" /\ tee' = tee
    BY <1>5 DEF WaitForTee, RemovePipe, Exits, TeeCopies, TeeEnds, CutOff, ExecReturns, vars
  <2>4. result' \in 0..255 => sh' = "over" /\ result' = status
    <3>1. result \in 0..255 => sh = "over" /\ result = status
      BY DEF StatusInv
    <3>2. CASE result' = result
      BY <2>3, <3>1, <3>2
    <3>3. CASE ExecReturns
      <4>1. sh' = sh /\ ((sh = "over" /\ result' = status) \/ result' = -2)
        BY <3>3 DEF ExecReturns, NoStatus
      <4> QED BY <4>1
    <3> QED BY <1>5, <3>2, <3>3 DEF WaitForTee, RemovePipe, TeeCopies, TeeEnds, CutOff, vars
  <2>5. sh' \notin {"parse", "over"} \/ tee' # "off" => commands # <<>>
    BY <2>3 DEF StatusInv, LogInv
  <2>6. sh' \in {"parse", "fifo", "open"} => sh' = sh
    BY <2>3
  <2>7. sh' = "attack" => sh = "attack"
    BY <2>3
  <2>8. sh' \in {"wait", "remove"} \/ (sh' = "over" /\ tee' # "off") => ScriptFinal
    BY <2>3 DEF StatusInv
  <2>9. sh = "attack" => sh' = "attack"
    BY <2>3
  <2>10. next' = next /\ fg' = fg
    BY <2>1
  <2>11. (sh' = "attack" /\ fg' = 0 /\ next' > 1 => CommandFinal)
    BY <2>7, <2>10 DEF StatusInv
  <2>12. (sh' \in {"parse", "fifo", "open"} => next' = 1)
         /\ (fg' # 0 => fg' = next' - 1 /\ sh' = "attack" /\ ~commands[fg'].background)
    BY <2>6, <2>9, <2>10 DEF StatusInv
  <2>13. status' = status
    BY <2>1
  <2> QED BY <1>0, <2>2, <2>4, <2>5, <2>8, <2>11, <2>12, <2>13 DEF StatusInv
<1>6. ASSUME NEW i \in alive, CommandStep(i) PROVE StatusInv'
  <2>1. /\ UNCHANGED <<sh, next, tee, status, result>> /\ alive' \subseteq alive
        /\ signalled' = signalled \/ signalled' = signalled \cup {i}
    BY <1>6 DEF CommandStep, Write, TimeIsOver, EndCommand
  <2>2. (CommandFinal /\ last' = last => CommandFinal') /\ (ScriptFinal => ScriptFinal')
    BY <1>0, <2>1, FinalKept
  <2>3. CASE UNCHANGED <<fg, last>>
    <3>1. sh' = sh /\ next' = next /\ tee' = tee /\ status' = status /\ result' = result /\ fg' = fg
      BY <2>1, <2>3
    <3>2. (CommandFinal => CommandFinal') /\ (ScriptFinal => ScriptFinal')
      BY <2>2, <2>3
    <3>3. sh' = "attack" /\ fg' = 0 /\ next' > 1 => CommandFinal'
      BY <3>1, <3>2 DEF StatusInv
    <3>4. sh' \in {"wait", "remove"} \/ (sh' = "over" /\ tee' # "off") => ScriptFinal'
      BY <3>1, <3>2 DEF StatusInv
    <3>5. /\ sh' \notin {"parse", "over"} \/ tee' # "off" => commands # <<>>
          /\ sh' \in {"parse", "fifo", "open"} => next' = 1
          /\ fg' # 0 => fg' = next' - 1 /\ sh' = "attack" /\ ~commands[fg'].background
          /\ result' \in 0..255 => sh' = "over" /\ result' = status'
      BY <3>1 DEF StatusInv
    <3> QED BY <1>0, <3>3, <3>4, <3>5 DEF StatusInv
  <2>4. CASE EndCommand(i) /\ fg = i
    <3>1. /\ fg = next - 1 /\ sh = "attack" /\ ~commands[i].background
          /\ fg' = 0 /\ last' \in EndStatuses(i) /\ i \notin alive' /\ signalled' = signalled
      BY <2>4, CommandTypes DEF EndCommand, StatusInv
    <3>2. CommandFinal'
      <4>1. i = next - 1 /\ next' = next
        BY <2>1, <2>4, <3>1
      <4> QED BY <1>0, <3>1, <4>1 DEF CommandFinal, Final, EndStatuses
    <3> QED BY <1>0, <2>1, <2>2, <3>1, <3>2 DEF StatusInv
  <2> QED BY <1>6, <2>3, <2>4 DEF CommandStep, Write, TimeIsOver, EndCommand
<1> QED BY <1>1, <1>2, <1>3, <1>4, <1>5, <1>6, StepCases

LEMMA StatusInit == Init => StatusInv
BY DEF Init, StatusInv, None

\* From the exec's status ExecuteScenario can tell, for any attack, how its last command ended.
THEOREM StatusTellsTheEndAlways == Spec => []StatusTellsTheEnd
<1>1. TypeOK /\ LogInv /\ StatusInv => StatusTellsTheEnd
  BY DEF LogInv, StatusInv, StatusTellsTheEnd, AttackRan, ScriptFinal, Final, EndStatuses
<1> QED BY <1>1, TypeInit, TypeStep, LogInit, LogStep, StatusInit, StatusStep, PTL DEF Spec
-----------------------------------------------------------------------------
(***************************************************************************)
(* A bounded attack returns.  The hypothesis ProcessesGoOn, which TLC      *)
(* checks, says that the steps fairness speaks of can happen.  Lines and   *)
(* commands run out: that a number which only falls, or only grows below a *)
(* bound, comes to rest, and that finitely many commands have all ended    *)
(* once each has, are inductions these provers cannot do on temporal       *)
(* formulas.  CountLaws states them, and restricts no behaviour.           *)
(***************************************************************************)
LinesMove == left' # left
LinesFall == left' \in [DOMAIN left -> Nat] /\ \A i \in DOMAIN left : left'[i] <= left[i]
NextMoves == next' # next
NextGrows == next' > next
WrittenMoves == written' # written
LogMoves == logged' # logged
LogGrows == logged' > logged

EndedForGood(i) == <>[](i \notin alive)
AllEnded == \A i \in 1..MaxCommands : i \notin alive

CountLaws ==
    /\ []TypeOK /\ [][LinesFall]_left => <>[][~LinesMove]_left
    /\ []TypeOK /\ [][NextGrows]_next => <>[][~NextMoves]_next
    /\ []TypeOK /\ [][LogGrows]_logged /\ <>[][~WrittenMoves]_written => <>[][~LogMoves]_logged
    /\ (\A i \in 1..MaxCommands : EndedForGood(i)) => <>[]AllEnded

\* Where the FIFO's ends are while the script opens it and waits for tee.
PipeInv ==
    /\ sh = "open" => tee = "opening"
    /\ sh = "wait" => tee \in {"copying", "ended"}

LEMMA PipeInit == Init => PipeInv
BY DEF Init, PipeInv

LEMMA PipeStep == TypeOK /\ LogInv /\ PipeInv /\ [Next]_vars => PipeInv'
<1> SUFFICES ASSUME TypeOK, LogInv, PipeInv, [Next]_vars PROVE PipeInv'
  OBVIOUS
<1> USE DEF processVars, logVars, inputVars
<1>1. CASE Parse \/ MakePipe \/ OpenPipe \/ StartCommand \/ WaitForTee \/ RemovePipe
  BY <1>1 DEF Parse, MakePipe, OpenPipe, StartCommand, WaitForTee, RemovePipe, Exits, PipeInv
<1>2. CASE EndSubshell
  BY <1>2 DEF EndSubshell, TypeOK, LogInv, PipeInv
<1>3. ASSUME NEW i \in alive, CommandStep(i) PROVE PipeInv'
  BY <1>3 DEF CommandStep, Write, TimeIsOver, EndCommand, PipeInv
<1>4. CASE TeeCopies \/ TeeEnds
  BY <1>4 DEF TeeCopies, TeeEnds, PipeInv
<1>5. CASE CutOff \/ ExecReturns \/ UNCHANGED vars
  BY <1>5 DEF CutOff, ExecReturns, vars, PipeInv
<1> QED BY <1>1, <1>2, <1>3, <1>4, <1>5, StepCases

AttackInv == TypeOK /\ LogInv /\ PipeInv

LEMMA AttackInvariant == Spec => []AttackInv
BY TypeInit, TypeStep, LogInit, LogStep, PipeInit, PipeStep, PTL DEF Spec, AttackInv

LEMMA InputsKeep ==
    ASSUME [Next]_vars
    PROVE  attack' = attack /\ commands' = commands
<1>1. attack' = attack
  BY StepCases DEF Parse, MakePipe, OpenPipe, StartCommand, EndSubshell, WaitForTee, RemovePipe,
      CommandStep, Write, TimeIsOver, EndCommand, TeeCopies, TeeEnds, CutOff, ExecReturns, vars,
      inputVars
<1> QED BY <1>1 DEF commands

LEMMA BoundedStays == Bounded /\ [Next]_vars => Bounded'
BY InputsKeep DEF Bounded

\* The commands are no more than those of the scenario, or one.
LEMMA CommandCount ==
    ASSUME TypeOK
    PROVE  Len(commands) \in Nat /\ Len(commands) <= MaxCommands /\ alive \subseteq 1..MaxCommands
<1>1. attack.commands \in Seq(Commands) /\ Len(attack.commands) <= MaxCommands
  BY AttackAssumption DEF TypeOK
<1>2. MaxCommands \in Nat \ {0}
  BY AttackAssumption
<1>3. Len(commands) = 1 \/ Len(commands) = Len(attack.commands)
  <2>1. Len(<<Rejects(125)>>) = 1
    OBVIOUS
  <2>2. ASSUME NEW c PROVE Len([attack.commands EXCEPT ![1] = c]) = Len(attack.commands)
    <3>1. DOMAIN [attack.commands EXCEPT ![1] = c] = 1..Len(attack.commands)
      BY <1>1
    <3> QED BY <1>1, <3>1
  <2> QED BY <2>1, <2>2 DEF commands, AtkCommand
<1>4. Len(commands) \in Nat /\ Len(commands) <= MaxCommands
  <2>1. Len(attack.commands) \in Nat
    BY <1>1
  <2>2. CASE Len(commands) = 1
    BY <1>2, <2>2
  <2>3. CASE Len(commands) = Len(attack.commands)
    BY <1>1, <2>1, <2>3
  <2> QED BY <1>3, <2>2, <2>3
<1>5. next \in 1..Len(commands) + 1 /\ alive \subseteq 1..(next - 1)
  BY DEF TypeOK
<1>6. next \in Int /\ next - 1 <= MaxCommands
  BY <1>2, <1>4, <1>5
<1> QED BY <1>2, <1>4, <1>5, <1>6

\* A bounded command that does not end by itself has a timer and obeys it.
LEMMA BoundedMeans ==
    ASSUME TypeOK, Bounded, NEW i \in DOMAIN commands, ~commands[i].ends
    PROVE  commands[i].obeys /\ HasTimer(attack, i)
<1>1. /\ i = 1 /\ attack.time # NoTime /\ attack.time >= 1000 /\ commands[1].word = "program"
      /\ commands[i].obeys
  BY DEF Bounded
<1>2. attack.time \in Int /\ attack.commands \in Seq(Commands)
  BY <1>1, AttackAssumption DEF TypeOK
<1>3. ParseToSeconds(attack.time) \in Int /\ ParseToSeconds(attack.time) > 0
      /\ ParseToSeconds(attack.time) # NoTime
  <2>1. ParseToSeconds(attack.time) = attack.time \div 1000
    BY <1>1, <1>2 DEF ParseToSeconds
  <2>2. attack.time \div 1000 \in Int /\ attack.time \div 1000 > 0
    BY <1>1, <1>2
  <2>3. NoTime \notin Int
    BY AttackAssumption
  <2> QED BY <2>1, <2>2, <2>3
<1>4. attack.commands # <<>>
  <2>1. attack.commands = <<>> => commands = <<Rejects(125)>>
    BY <1>3 DEF commands, AtkCommand
  <2> QED BY <1>1, <2>1 DEF Rejects
<1>5. commands[1] = Limited(attack.commands[1], ParseToSeconds(attack.time))
  <2>1. commands = [attack.commands EXCEPT ![1] = Limited(@, ParseToSeconds(attack.time))]
    BY <1>3, <1>4 DEF commands, AtkCommand
  <2>2. 1 \in DOMAIN attack.commands
    BY <1>2, <1>4
  <2> QED BY <2>1, <2>2
<1>6. attack.commands[1].word # "builtin"
  BY <1>1, <1>3, <1>5 DEF Limited, Rejects
<1>7. attack.commands[1].word = "program"
  BY <1>1, <1>3, <1>5, <1>6 DEF Limited
<1> QED BY <1>1, <1>3, <1>4, <1>7 DEF HasTimer
-----------------------------------------------------------------------------
(***************************************************************************)
(* What runs out.                                                          *)
(***************************************************************************)
LEMMA CountSteps ==
    ASSUME AttackInv, [Next]_vars
    PROVE  /\ [LinesFall]_left
           /\ [NextGrows]_next
           /\ [LogGrows]_logged
           /\ ~LinesMove => ~WrittenMoves
<1> USE DEF processVars, logVars, inputVars, AttackInv
<1>1. ASSUME NEW i \in alive, Write(i) PROVE LinesFall /\ LinesMove /\ UNCHANGED <<next, logged>>
  <2>1. i \in DOMAIN commands
    BY CommandTypes
  <2>2. left' = [left EXCEPT ![i] = left[i] - 1] /\ left[i] \in Nat /\ left[i] > 0
    BY <1>1, <2>1 DEF Write, TypeOK
  <2>3. left \in [DOMAIN commands -> Nat]
    BY DEF TypeOK
  <2>4. left'[i] = left[i] - 1 /\ left[i] - 1 \in Nat /\ left[i] - 1 <= left[i] /\ left[i] - 1 # left[i]
    BY <2>1, <2>2, <2>3
  <2>5. \A j \in DOMAIN commands : left'[j] <= left[j]
    BY <2>2, <2>3, <2>4
  <2> QED BY <1>1, <2>1, <2>2, <2>3, <2>4, <2>5 DEF LinesFall, LinesMove, Write
<1>2. ASSUME NEW i \in alive, TimeIsOver(i) \/ EndCommand(i)
      PROVE  UNCHANGED <<left, next, logged, written>>
  BY <1>2 DEF TimeIsOver, EndCommand
<1>3. CASE StartCommand
  <2>1. next' = next + 1 /\ next \in Nat /\ UNCHANGED <<left, logged, written>>
    BY <1>3, CommandTypes DEF StartCommand
  <2> QED BY <2>1 DEF NextGrows, WrittenMoves
<1>4. CASE TeeCopies
  <2>1. logged' = logged + 1 /\ logged \in Nat /\ UNCHANGED <<left, next, written>>
    BY <1>4 DEF TeeCopies, TypeOK
  <2> QED BY <2>1 DEF LogGrows, WrittenMoves
<1>5. ASSUME \/ Parse \/ MakePipe \/ OpenPipe \/ EndSubshell \/ WaitForTee \/ RemovePipe
             \/ TeeEnds \/ CutOff \/ ExecReturns \/ UNCHANGED vars
      PROVE  UNCHANGED <<left, next, logged, written>>
  BY <1>5 DEF Parse, MakePipe, OpenPipe, EndSubshell, WaitForTee, RemovePipe, TeeEnds, CutOff,
      ExecReturns, vars
<1> QED BY <1>1, <1>2, <1>3, <1>4, <1>5, StepCases DEF CommandStep, WrittenMoves

\* Lines and commands run out, and tee does when nobody writes any more.
LEMMA CountsSettle ==
    Spec /\ CountLaws
    => <>[][~LinesMove]_left /\ <>[][~NextMoves]_next /\ <>[][~LogMoves]_logged
<1>1. AttackInv /\ [Next]_vars
      => /\ [LinesFall]_left
         /\ [NextGrows]_next
         /\ [LogGrows]_logged
         /\ [~LinesMove]_left => [~WrittenMoves]_written
  BY CountSteps DEF LinesMove, WrittenMoves
<1>2. AttackInv => TypeOK
  BY DEF AttackInv
<1> QED BY <1>1, <1>2, AttackInvariant, PTL DEF Spec, CountLaws

Rests == [~LinesMove]_left /\ [~NextMoves]_next /\ [~LogMoves]_logged
AtRest == <>[][~LinesMove]_left /\ <>[][~NextMoves]_next /\ <>[][~LogMoves]_logged

LEMMA RestMeans ==
    ASSUME AttackInv, [Next]_vars, Rests
    PROVE  /\ left' = left /\ next' = next /\ logged' = logged /\ written' = written
           /\ ~TeeCopies /\ ~StartCommand /\ \A i \in alive : ~Write(i)
<1>1. left' = left /\ next' = next /\ logged' = logged
  BY DEF Rests, LinesMove, NextMoves, LogMoves
<1>2. written' = written
  BY <1>1, CountSteps DEF LinesMove, WrittenMoves
<1>3. ~TeeCopies
  BY <1>1 DEF TeeCopies, AttackInv, TypeOK
<1>4. ~StartCommand
  <2>1. next \in Nat
    BY CommandCount DEF AttackInv, TypeOK
  <2> QED BY <1>1, <2>1 DEF StartCommand
<1>5. \A i \in alive : ~Write(i)
  <2>1. written \in Int
    BY AttackAssumption DEF AttackInv, TypeOK
  <2> QED BY <1>2, <2>1 DEF Write
<1> QED BY <1>1, <1>2, <1>3, <1>4, <1>5

-----------------------------------------------------------------------------
(***************************************************************************)
(* tee and the commands.                                                   *)
(***************************************************************************)
Copying == tee = "copying"
Behind == tee = "copying" /\ logged < written

LEMMA TeeMoves ==
    ASSUME AttackInv, [Next]_vars
    PROVE  /\ Copying => Copying' \/ TeeEnded'
           /\ Copying /\ ~Copying' => TeeEnds
           /\ TeeEnded => TeeEnded'
<1>1. tee' = tee \/ (tee = "off" /\ tee' = "opening") \/ (tee = "opening" /\ tee' = "copying")
      \/ (TeeEnds /\ tee = "copying" /\ tee' = "ended")
  <2>1. CASE MakePipe
    BY <2>1 DEF AttackInv, LogInv, MakePipe
  <2>2. CASE ~MakePipe
    BY <2>2, StepCases DEF Parse, OpenPipe, StartCommand, EndSubshell, WaitForTee, RemovePipe,
        CommandStep, Write, TimeIsOver, EndCommand, TeeCopies, TeeEnds, CutOff, ExecReturns, vars,
        logVars
  <2> QED BY <2>1, <2>2
<1> QED BY <1>1 DEF Copying, TeeEnded

\* tee comes to the end of what has been written.
LEMMA TeeCatchesUp ==
    Spec /\ []ProcessesGoOn /\ AtRest => <>[]~Behind
<1>1. AttackInv /\ [Next]_vars /\ Rests /\ Behind => Behind'
  <2> SUFFICES ASSUME AttackInv, [Next]_vars, Rests, Behind PROVE Behind'
    OBVIOUS
  <2>1. ~TeeEnds
    BY DEF TeeEnds, TeeSeesEnd, Behind, AttackInv, TypeOK
  <2> QED BY <2>1, TeeMoves, RestMeans DEF Behind, Copying
<1>2. AttackInv /\ [Next]_vars /\ Rests /\ Behind => ~TeeStep
  BY RestMeans DEF TeeStep, TeeEnds, TeeSeesEnd, Behind, AttackInv, TypeOK
<1>3. ProcessesGoOn => (Behind => ENABLED <<TeeStep>>_vars)
  BY DEF ProcessesGoOn, TeeCanStep, Behind
<1>4. Fairness => ScriptFairness
  BY DEF Fairness
<1> QED BY <1>1, <1>2, <1>3, <1>4, AttackInvariant, PTL DEF Spec, ScriptFairness, AtRest, Rests

\* Where a command that runs is: it has lines to write, its time is running, or it is over.
Runs(i) == i \in alive
Wants(i) == i \in alive /\ left[i] > 0
Pending(i) == i \in alive /\ i \notin signalled /\ HasTimer(attack, i) /\ commands[i].obeys
Done(i) == i \in alive /\ IsOver(i)

LEMMA CommandRests ==
    ASSUME AttackInv, [Next]_vars, Rests, NEW i \in 1..MaxCommands
    PROVE  /\ ~Runs(i) => ~Runs(i)'
           /\ Wants(i) => Wants(i)' \/ ~Runs(i)'
           /\ Pending(i) => Pending(i)' \/ Done(i)' \/ ~Runs(i)'
           /\ Done(i) => Done(i)' \/ ~Runs(i)'
           /\ Runs(i) => ~Write(i)
           /\ Pending(i) /\ TimeIsOver(i) => ~Pending(i)'
           /\ Done(i) /\ EndCommand(i) => ~Runs(i)'
<1>1. /\ alive' \subseteq alive
      /\ signalled \subseteq signalled'
  <2>1. ~StartCommand
    BY RestMeans
  <2> QED BY <2>1, StepCases DEF Parse, MakePipe, OpenPipe, EndSubshell, WaitForTee, RemovePipe,
          CommandStep, Write, TimeIsOver, EndCommand, TeeCopies, TeeEnds, CutOff, ExecReturns, vars,
          processVars
<1>2. left' = left /\ (i \in alive => ~Write(i))
  BY RestMeans
<1>3. attack' = attack /\ commands' = commands
  BY InputsKeep
<1>4. IsOver(i) => IsOver(i)'
  BY <1>1, <1>2, <1>3 DEF IsOver
<1>5. commands[i].obeys /\ i \in signalled' => IsOver(i)'
  BY <1>3 DEF IsOver
<1>6. HasTimer(attack, i) => HasTimer(attack, i)'
  BY <1>3
<1>7. TimeIsOver(i) => i \in signalled' /\ alive' = alive
  BY DEF TimeIsOver
<1>8. EndCommand(i) => i \notin alive'
  BY DEF EndCommand
<1>9. Pending(i) => Pending(i)' \/ Done(i)' \/ ~Runs(i)'
  BY <1>1, <1>3, <1>5, <1>6 DEF Pending, Done, Runs
<1> QED BY <1>1, <1>2, <1>4, <1>5, <1>7, <1>8, <1>9 DEF Runs, Wants, Pending, Done

\* A command with lines to write has the FIFO open, so tee still copies.
LEMMA WriterHasRoom ==
    ASSUME AttackInv, NEW i \in 1..MaxCommands, Wants(i), ~Behind
    PROVE  HasRoom
<1>1. i \in DOMAIN commands
  BY CommandTypes DEF AttackInv, Wants
<1>2. commands[i].holds
  <2>1. left[i] # 0
    BY DEF Wants
  <2> QED BY <1>1, <2>1 DEF AttackInv, LogInv
<1>3. tee = "copying"
  BY <1>2 DEF AttackInv, LogInv, TypeOK, Wants
<1>4. logged = written
  BY <1>3, AttackAssumption DEF Behind, AttackInv, TypeOK
<1> QED BY <1>4, AttackAssumption DEF HasRoom, AttackInv, TypeOK

\* A bounded command does not run for ever.
LEMMA CommandEnds ==
    ASSUME NEW i \in 1..MaxCommands
    PROVE  Spec /\ []ProcessesGoOn /\ AtRest /\ <>[]Bounded => EndedForGood(i)
<1>1. AttackInv /\ [Next]_vars /\ Rests
      => /\ ~Runs(i) => ~Runs(i)'
         /\ Wants(i) => Wants(i)' \/ ~Runs(i)'
         /\ Pending(i) => Pending(i)' \/ Done(i)' \/ ~Runs(i)'
         /\ Done(i) => Done(i)' \/ ~Runs(i)'
         /\ Runs(i) => ~Write(i)
         /\ Pending(i) /\ TimeIsOver(i) => ~Pending(i)'
         /\ Done(i) /\ EndCommand(i) => ~Runs(i)'
  BY CommandRests
<1>2. AttackInv /\ ProcessesGoOn
      => /\ Wants(i) /\ ~Behind => ENABLED <<Write(i)>>_vars
         /\ Pending(i) => ENABLED <<TimeIsOver(i)>>_vars
         /\ Done(i) => ENABLED <<EndCommand(i)>>_vars
  BY WriterHasRoom DEF ProcessesGoOn, CommandGoesOn, Wants, Pending, Done
<1>3. AttackInv /\ Bounded /\ Runs(i) => Wants(i) \/ Pending(i) \/ Done(i)
  <2> SUFFICES ASSUME AttackInv, Bounded, Runs(i) PROVE Wants(i) \/ Pending(i) \/ Done(i)
    OBVIOUS
  <2>1. i \in DOMAIN commands
    BY CommandTypes DEF AttackInv, Runs
  <2>2. left[i] \in Nat
    BY <2>1 DEF AttackInv, TypeOK
  <2>3. CASE commands[i].ends
    BY <2>2, <2>3 DEF Runs, Wants, Done, IsOver
  <2>4. CASE ~commands[i].ends
    <3>1. commands[i].obeys /\ HasTimer(attack, i)
      BY <2>1, <2>4, BoundedMeans DEF AttackInv
    <3> QED BY <3>1 DEF Runs, Pending, Done, IsOver
  <2> QED BY <2>3, <2>4
<1>4. Wants(i) => Runs(i)
  BY DEF Wants, Runs
<1>5. Fairness => CommandFairness(i)
  BY DEF Fairness
<1>6. Spec /\ []ProcessesGoOn /\ AtRest /\ <>[]Runs(i) => <>[]~Wants(i)
  BY <1>1, <1>2, <1>4, <1>5, TeeCatchesUp, AttackInvariant, PTL
  DEF Spec, CommandFairness, AtRest, Rests
<1>7. Spec /\ []ProcessesGoOn /\ AtRest /\ <>[]Runs(i) => ~[]<>Done(i)
  BY <1>1, <1>2, <1>5, AttackInvariant, PTL DEF Spec, CommandFairness, AtRest, Rests
<1>8. Spec /\ []ProcessesGoOn /\ AtRest /\ <>[]Runs(i) => ~<>[]Pending(i)
  BY <1>1, <1>2, <1>5, <1>7, AttackInvariant, PTL DEF Spec, CommandFairness, AtRest, Rests
<1>9. Spec /\ []ProcessesGoOn /\ AtRest /\ <>[]Bounded => <>[]~Runs(i)
  BY <1>1, <1>3, <1>6, <1>7, <1>8, AttackInvariant, PTL DEF Spec, AtRest, Rests
<1>10. ~Runs(i) <=> i \notin alive
  BY DEF Runs
<1> QED BY <1>9, <1>10, PTL DEF EndedForGood
\* All commands have ended in the end.
LEMMA CommandsEnd ==
    Spec /\ []ProcessesGoOn /\ CountLaws /\ <>[]Bounded => <>[]AllEnded
<1>1. ASSUME NEW i \in 1..MaxCommands
      PROVE  Spec /\ []ProcessesGoOn /\ AtRest /\ <>[]Bounded => EndedForGood(i)
  BY CommandEnds
<1>2. Spec /\ []ProcessesGoOn /\ AtRest /\ <>[]Bounded => \A i \in 1..MaxCommands : EndedForGood(i)
  BY <1>1
<1>3. Spec /\ CountLaws => AtRest
  BY CountsSettle DEF AtRest
<1> QED BY <1>2, <1>3 DEF CountLaws

-----------------------------------------------------------------------------
(***************************************************************************)
(* The script and the exec.                                                *)
(***************************************************************************)
In(p) == sh = p
Returned == result # None

\* The script goes through its phases in order; over is for good.
LEMMA PhaseMoves ==
    ASSUME AttackInv, [Next]_vars
    PROVE  /\ \/ In("parse") \/ In("fifo") \/ In("open") \/ In("attack") \/ In("wait") \/ In("remove")
              \/ In("over")
           /\ In("parse") => (In("parse") \/ In("fifo") \/ In("over"))'
           /\ In("fifo") => (In("fifo") \/ In("open") \/ In("over"))'
           /\ In("open") => (In("open") \/ In("attack"))'
           /\ In("attack") => (In("attack") \/ In("wait"))'
           /\ In("wait") => (In("wait") \/ In("remove"))'
           /\ In("remove") => (In("remove") \/ In("over"))'
           /\ In("over") => In("over")'
<1>1. ASSUME \/ \E i \in alive : CommandStep(i)
             \/ StartCommand \/ TeeCopies \/ TeeEnds \/ CutOff \/ ExecReturns \/ UNCHANGED vars
      PROVE  sh' = sh
  BY <1>1 DEF CommandStep, Write, TimeIsOver, EndCommand, StartCommand, TeeCopies, TeeEnds, CutOff,
      ExecReturns, vars
<1>2. CASE Parse \/ MakePipe \/ OpenPipe \/ EndSubshell \/ WaitForTee \/ RemovePipe
  BY <1>2 DEF Parse, MakePipe, OpenPipe, EndSubshell, WaitForTee, RemovePipe, Exits, In
<1> QED BY <1>1, <1>2, StepCases DEF AttackInv, TypeOK, In

\* Once all commands have been started, a step of the script ends its phase.
LEMMA ShellLeaves ==
    ASSUME AttackInv, [Next]_vars, Rests, ShellStep
    PROVE  /\ In("parse") => ~In("parse")'
           /\ In("fifo") => ~In("fifo")'
           /\ In("open") => ~In("open")'
           /\ In("attack") => ~In("attack")'
           /\ In("wait") => ~In("wait")'
           /\ In("remove") => ~In("remove")'
<1>1. ~StartCommand
  BY RestMeans
<1> QED BY <1>1 DEF ShellStep, Parse, MakePipe, OpenPipe, EndSubshell, WaitForTee, RemovePipe, Exits, In

\* When the script, tee and the exec are not kept waiting.
LEMMA ScriptGoesOn ==
    ASSUME AttackInv, ProcessesGoOn
    PROVE  /\ In("parse") \/ In("fifo") \/ In("open") \/ In("remove") => ENABLED <<ShellStep>>_vars
           /\ In("attack") /\ AllEnded => ENABLED <<ShellStep>>_vars
           /\ In("wait") => Copying \/ TeeEnded
           /\ In("wait") /\ TeeEnded => ENABLED <<ShellStep>>_vars
           /\ In("wait") /\ AllEnded /\ Copying => ENABLED <<TeeStep>>_vars
           /\ In("over") /\ ~Returned => ENABLED <<ExecReturns>>_vars
<1>1. /\ ShellCanStep => ENABLED <<ShellStep>>_vars
      /\ TeeCanStep => ENABLED <<TeeStep>>_vars
      /\ sh = "over" /\ result = None => ENABLED <<ExecReturns>>_vars
  BY DEF ProcessesGoOn
<1>2. In("parse") \/ In("fifo") \/ In("open") \/ In("remove") => ShellCanStep
  BY DEF AttackInv, PipeInv, ShellCanStep, In
<1>3. AllEnded => alive = {}
  BY CommandCount DEF AttackInv, AllEnded
<1>4. In("attack") /\ AllEnded => ShellCanStep
  BY <1>3 DEF AttackInv, TypeOK, ShellCanStep, In
<1>5. In("wait") => Copying \/ TeeEnded
  BY DEF AttackInv, PipeInv, In, Copying, TeeEnded
<1>6. In("wait") /\ TeeEnded => ShellCanStep
  BY DEF ShellCanStep, In
<1>7. In("wait") /\ AllEnded /\ Copying => TeeCanStep
  <2> SUFFICES ASSUME In("wait"), AllEnded, Copying PROVE TeeCanStep
    OBVIOUS
  <2>1. Writers = {}
    BY <1>3 DEF Writers, In
  <2>2. logged < written \/ logged = written
    BY AttackAssumption DEF AttackInv, TypeOK
  <2> QED BY <2>1, <2>2 DEF TeeCanStep, TeeSeesEnd, Copying
<1> QED BY <1>1, <1>2, <1>4, <1>5, <1>6, <1>7 DEF In, Returned

\* The script ends when all commands have.
LEMMA ScriptEnds ==
    Spec /\ []ProcessesGoOn /\ AtRest /\ <>[]AllEnded => <>[]In("over")
<1>1. AttackInv /\ [Next]_vars
      => /\ \/ In("parse") \/ In("fifo") \/ In("open") \/ In("attack") \/ In("wait") \/ In("remove")
            \/ In("over")
         /\ In("parse") => (In("parse") \/ In("fifo") \/ In("over"))'
         /\ In("fifo") => (In("fifo") \/ In("open") \/ In("over"))'
         /\ In("open") => (In("open") \/ In("attack"))'
         /\ In("attack") => (In("attack") \/ In("wait"))'
         /\ In("wait") => (In("wait") \/ In("remove"))'
         /\ In("remove") => (In("remove") \/ In("over"))'
         /\ In("over") => In("over")'
  BY PhaseMoves
<1>2. AttackInv /\ [Next]_vars /\ Rests /\ ShellStep
      => /\ In("parse") => ~In("parse")'
         /\ In("fifo") => ~In("fifo")'
         /\ In("open") => ~In("open")'
         /\ In("attack") => ~In("attack")'
         /\ In("wait") => ~In("wait")'
         /\ In("remove") => ~In("remove")'
  BY ShellLeaves
<1>3. AttackInv /\ ProcessesGoOn
      => /\ In("parse") \/ In("fifo") \/ In("open") \/ In("remove") => ENABLED <<ShellStep>>_vars
         /\ In("attack") /\ AllEnded => ENABLED <<ShellStep>>_vars
         /\ In("wait") => Copying \/ TeeEnded
         /\ In("wait") /\ TeeEnded => ENABLED <<ShellStep>>_vars
         /\ In("wait") /\ AllEnded /\ Copying => ENABLED <<TeeStep>>_vars
  BY ScriptGoesOn
<1>4. AttackInv /\ [Next]_vars /\ Rests /\ TeeStep => TeeEnded'
  BY RestMeans DEF TeeStep, TeeEnds, TeeEnded
<1>5. AttackInv /\ [Next]_vars => /\ Copying => Copying' \/ TeeEnded'
                                  /\ TeeEnded => TeeEnded'
  BY TeeMoves
<1>6. Fairness => ScriptFairness
  BY DEF Fairness
<1>7. Spec /\ []ProcessesGoOn /\ AtRest
      => ~<>[]In("parse") /\ ~<>[]In("fifo") /\ ~<>[]In("open") /\ ~<>[]In("remove")
  BY <1>2, <1>3, <1>6, AttackInvariant, PTL DEF Spec, ScriptFairness, AtRest, Rests
<1>8. Spec /\ []ProcessesGoOn /\ AtRest /\ <>[]AllEnded => ~<>[]In("attack")
  BY <1>2, <1>3, <1>6, AttackInvariant, PTL DEF Spec, ScriptFairness, AtRest, Rests
<1>9. Spec /\ []ProcessesGoOn /\ AtRest /\ <>[]AllEnded /\ <>[]In("wait") => <>[]TeeEnded
  BY <1>3, <1>4, <1>5, <1>6, AttackInvariant, PTL DEF Spec, ScriptFairness, AtRest, Rests
<1>10. Spec /\ []ProcessesGoOn /\ AtRest /\ <>[]AllEnded => ~<>[]In("wait")
  BY <1>2, <1>3, <1>6, <1>9, AttackInvariant, PTL DEF Spec, ScriptFairness, AtRest, Rests
<1> QED BY <1>1, <1>7, <1>8, <1>10, AttackInvariant, PTL DEF Spec

\* The exec returns when the script is over.
LEMMA ExecEnds ==
    Spec /\ []ProcessesGoOn /\ <>[]In("over") => <>[]Returned
<1>1. AttackInv /\ [Next]_vars => /\ ExecReturns => Returned'
                                  /\ Returned => Returned'
  <2> SUFFICES ASSUME AttackInv, [Next]_vars
               PROVE  (ExecReturns => Returned') /\ (Returned => Returned')
    OBVIOUS
  <2>1. ExecReturns => Returned'
    <3>1. status \in 0..255
      BY DEF AttackInv, TypeOK
    <3>2. status # -1 /\ -2 # -1
      BY <3>1
    <3> QED BY <3>2 DEF ExecReturns, Returned, None, NoStatus
  <2>2. ~ExecReturns => result' = result
    BY StepCases DEF Parse, MakePipe, OpenPipe, StartCommand, EndSubshell, WaitForTee, RemovePipe,
        CommandStep, Write, TimeIsOver, EndCommand, TeeCopies, TeeEnds, CutOff, vars
  <2> QED BY <2>1, <2>2 DEF Returned, None
<1>2. AttackInv /\ ProcessesGoOn => (In("over") /\ ~Returned => ENABLED <<ExecReturns>>_vars)
  BY ScriptGoesOn
<1>3. Fairness => ScriptFairness
  BY DEF Fairness
<1> QED BY <1>1, <1>2, <1>3, AttackInvariant, PTL DEF Spec, ScriptFairness

\* An attack returns if each of its commands ends or obeys the limit: whatever they write,
\* however small the FIFO is, in the foreground or the background.
THEOREM BoundedAttackAlwaysReturns ==
    Spec /\ []ProcessesGoOn /\ CountLaws => BoundedAttackReturns
<1>1. Spec /\ CountLaws => AtRest
  BY CountsSettle DEF AtRest
<1>2. Spec /\ []ProcessesGoOn /\ CountLaws /\ <>[]Bounded => <>[]Returned
  BY <1>1, CommandsEnd, ScriptEnds, ExecEnds, PTL
<1>3. AttackInv /\ [Next]_vars /\ Bounded => Bounded'
  BY BoundedStays
<1>4. Spec /\ []ProcessesGoOn /\ CountLaws => (Bounded ~> Returned)
  BY <1>2, <1>3, AttackInvariant, PTL DEF Spec
<1> QED BY <1>4, PTL DEF BoundedAttackReturns, Returned
=============================================================================
