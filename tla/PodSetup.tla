------------------------------ MODULE PodSetup ------------------------------
(***************************************************************************)
(* From a scenario's configuration to a pod in which an attack is          *)
(* captured: the network settings that FromYAML merges, the tc commands    *)
(* GetTCCommand makes of them, the init container that runs these, and the *)
(* filter that is handed to tcpdump once the pods have their addresses.    *)
(*                                                                         *)
(* A setting is a number: bits per second, milliseconds, percent, or the   *)
(* number of a distribution.  Those of queueSize, limit and seed are given *)
(* to tc as they are, which is left out.  A placeholder is the sequence of *)
(* its parts; in a filter a character that cannot continue it follows.     *)
(***************************************************************************)
EXTENDS Integers, Sequences, SequencesExt

CONSTANT
    Configurations \* of a pod: records [base, own, capture] of the scenario's network settings,
                   \* the pod's own, and what its filter is made from: a record
                   \* [targets, single, self, text] of the number of targets, the type of the
                   \* scenario, the index of the target and a placeholder in its filter

Unset == -1      \* the empty text
OtherZero == -2  \* a zero in another spelling than 0ms or 0%, such as 0s
Malformed == -3  \* a bandwidth that ParseSize rejects
Amount(v) == IF v < 0 THEN 0 ELSE v

Rates == {"loss", "corrupt", "duplicate"}
Fields == {"bandwidth", "queueSize", "limit", "delay", "jitter", "distribution", "seed"} \cup Rates
Network == [Fields -> Nat \cup {Unset, OtherZero, Malformed}]

ASSUME PodSetupAssumption ==
    \A c \in Configurations :
        /\ c.base \in Network /\ c.own \in Network
        /\ c.capture.targets \in 1..99 /\ c.capture.self \in 0..(c.capture.targets - 1)
        /\ c.capture.single \in BOOLEAN

-----------------------------------------------------------------------------
(***************************************************************************)
(* network.go                                                              *)
(***************************************************************************)

\* Faulty variant of MergeNetworks: the scenario's settings win.
MergeSwapped(base, override) == [f \in Fields |-> IF base[f] # Unset THEN base[f] ELSE override[f]]

MergeNetworks(base, override) ==
    [f \in Fields |-> IF override[f] # Unset THEN override[f] ELSE base[f]]

On(v) == v \notin {Unset, 0}

needsNetem(n) ==
    \/ n["limit"] # Unset \/ n["distribution"] # Unset
    \/ \E f \in {"delay", "jitter"} \cup Rates : On(n[f])

Given(v) == IF v = Unset THEN <<>> ELSE <<v>>

\* Faulty variant of Distribution: it is added whenever there is one.
DistributionAlways(n) == n["distribution"]

\* The distribution is added behind a jitter only.
Distribution(n) == IF On(n["jitter"]) THEN n["distribution"] ELSE Unset

\* The arguments of netem; delay is the numbers that follow that word.
buildNetemCommand(n) ==
    [delay |-> IF On(n["delay"]) \/ On(n["jitter"])
               THEN Given(n["delay"]) \o (IF On(n["jitter"]) THEN <<n["jitter"]>> ELSE <<>>)
               ELSE <<>>,
     distribution |-> Distribution(n),
     rates |-> [f \in Rates |-> IF On(n[f]) THEN n[f] ELSE Unset]]

\* 5 ms of the bandwidth, rounded to whole bytes, a half to the even number.
Burst(bandwidth) ==
    LET bytes == bandwidth \div 1600
        rest == bandwidth % 1600
    IN  IF rest > 800 \/ (rest = 800 /\ bytes % 2 = 1) THEN bytes + 1 ELSE bytes

\* Faulty variant of NetemParent: netem replaces tbf.
ParentRoot(n) == "root"

NetemParent(n) == IF n["bandwidth"] # Unset THEN "tbf" ELSE "root"

\* The tc commands, joined by &&; an empty script if the bandwidth is malformed.
GetTCCommand(n) ==
    IF n["bandwidth"] = Malformed THEN <<>>
    ELSE (IF n["bandwidth"] = Unset THEN <<>>
          ELSE <<[qdisc |-> "tbf", parent |-> "root", rate |-> n["bandwidth"],
                  burst |-> Burst(n["bandwidth"])]>>)
         \o (IF needsNetem(n)
             THEN <<[qdisc |-> "netem", parent |-> NetemParent(n), arguments |-> buildNetemCommand(n)]>>
             ELSE <<>>)

-----------------------------------------------------------------------------
(***************************************************************************)
(* tc, in the init container                                               *)
(***************************************************************************)
NoTbf == [rate |-> Unset, burst |-> Unset]

\* netem as it is in force: the first number after "delay" is the delay, the second the jitter.
Netem(arguments) ==
    [delay |-> IF Len(arguments.delay) > 0 THEN Amount(arguments.delay[1]) ELSE 0,
     jitter |-> IF Len(arguments.delay) > 1 THEN Amount(arguments.delay[2]) ELSE 0,
     distribution |-> arguments.distribution,
     rates |-> [f \in Rates |-> Amount(arguments.rates[f])]]

NoNetem == [delay |-> 0, jitter |-> 0, distribution |-> Unset, rates |-> [f \in Rates |-> 0]]

\* tc accepts a command: tbf needs a rate and a burst, a distribution a delay and a jitter,
\* and a qdisc under another needs this one.
Accepts(command, tbf) ==
    IF command.qdisc = "tbf" THEN command.rate > 0 /\ command.burst > 0
    ELSE /\ command.parent = "root" \/ tbf # NoTbf
         /\ LET e == Netem(command.arguments)
            IN  e.distribution # Unset => e.delay > 0 /\ e.jitter > 0

-----------------------------------------------------------------------------
(***************************************************************************)
(* GetTrafficFilter                                                        *)
(***************************************************************************)
Digit(d) == <<"0", "1", "2", "3", "4", "5", "6", "7", "8", "9">>[d + 1]
Decimal(i) == IF i < 10 THEN <<Digit(i)>> ELSE <<Digit(i \div 10), Digit(i % 10)>>

AttackerIp == <<"ATTACKER_IP">>
TargetIp == <<"TARGET_IP">>
IndexedIp(i) == TargetIp \o <<"_">> \o Decimal(i)

\* A pod is the index of a target, or one of these.
Attacker == -1
Nobody == -2

\* Faulty variants of Replacements: the targets are counted from one; the basic ones come first.
FromOne(c) ==
    LET basic == << <<AttackerIp, Attacker>>, <<TargetIp, c.self>> >>
    IN  IF c.single THEN basic
        ELSE [i \in 1..c.targets |-> <<IndexedIp(i), i>>] \o basic
BasicFirst(c) ==
    LET basic == << <<AttackerIp, Attacker>>, <<TargetIp, c.self>> >>
    IN  IF c.single THEN basic
        ELSE basic \o [i \in 1..c.targets |-> <<IndexedIp(i - 1), i - 1>>]

\* The placeholders and their pods, in the order in which they are given to the replacer.
Replacements(c) ==
    LET basic == << <<AttackerIp, Attacker>>, <<TargetIp, c.self>> >>
    IN  IF c.single THEN basic
        ELSE [i \in 1..c.targets |-> <<IndexedIp(i - 1), i - 1>>] \o basic

\* strings.Replacer: the first of the given placeholders that the text begins with.
Replace(c) ==
    LET r == Replacements(c)
        matching == {k \in DOMAIN r : IsPrefix(r[k][1], c.text)}
    IN  IF matching = {} THEN [pod |-> Nobody, rest |-> c.text]
        ELSE LET k == CHOOSE k \in matching : \A l \in matching : k <= l
             IN  [pod |-> r[k][2],
                  rest |-> SubSeq(c.text, Len(r[k][1]) + 1, Len(c.text))]

\* GetShellEnvVars: the same names in the environment of the attack command.
GetShellEnvVars(c) ==
    IF c.single THEN {<<AttackerIp, Attacker>>, <<TargetIp, c.self>>}
    ELSE {<<AttackerIp, Attacker>>} \cup {<<IndexedIp(i), i>> : i \in 0..(c.targets - 1)}

-----------------------------------------------------------------------------
VARIABLES
    config, \* the configuration of the pod
    phase,  \* where the pod is
    script, \* the tc commands still to run
    tbf,    \* the rate and the burst in force
    netem,  \* the delay, loss and so on in force
    filter  \* what the placeholder has become

vars == <<config, phase, script, tbf, netem, filter>>

NoFilter == [pod |-> Nobody, rest |-> <<>>]

TypeOK ==
    /\ config.base \in Network /\ config.own \in Network
    /\ phase \in {"configured", "init", "failed", "ready", "captured"}
    /\ Len(script) <= 2
    /\ tbf = NoTbf \/ (tbf.rate > 0 /\ tbf.burst > 0)
    /\ netem.delay \in Nat /\ netem.jitter \in Nat /\ netem.rates \in [Rates -> Nat]
    /\ netem.distribution # Unset => netem.jitter > 0
    /\ filter.pod \in {Attacker, Nobody} \cup 0..(config.capture.targets - 1)

Init ==
    /\ config \in Configurations
    /\ phase = "configured" /\ script = <<>>
    /\ tbf = NoTbf /\ netem = NoNetem /\ filter = NoFilter

\* FromYAML and BuildAttackerPod or BuildTargetPod: the pod is created with its init container.
CreatePod ==
    /\ phase = "configured"
    /\ phase' = "init"
    /\ script' = GetTCCommand(MergeNetworks(config.base, config.own))
    /\ UNCHANGED <<config, tbf, netem, filter>>

\* The init container runs the next command.  The script ends with the first that fails, and
\* the pod, which is never restarted, with it.
RunCommand ==
    /\ phase = "init" /\ script # <<>>
    /\ LET command == Head(script)
       IN  IF ~Accepts(command, tbf)
           THEN phase' = "failed" /\ script' = <<>> /\ UNCHANGED <<tbf, netem>>
           ELSE /\ script' = Tail(script)
                /\ UNCHANGED phase
                /\ IF command.qdisc = "tbf"
                   THEN tbf' = [rate |-> command.rate, burst |-> command.burst] /\ netem' = NoNetem
                   ELSE /\ netem' = Netem(command.arguments)
                        /\ tbf' = IF command.parent = "root" THEN NoTbf ELSE tbf
    /\ UNCHANGED <<config, filter>>

BecomeReady ==
    /\ phase = "init" /\ script = <<>>
    /\ phase' = "ready"
    /\ UNCHANGED <<config, script, tbf, netem, filter>>

\* StartTrafficCapture
StartCapture ==
    /\ phase = "ready"
    /\ phase' = "captured"
    /\ filter' = Replace(config.capture)
    /\ UNCHANGED <<config, script, tbf, netem>>

Next == CreatePod \/ RunCommand \/ BecomeReady \/ StartCapture

Spec == Init /\ [][Next]_vars

-----------------------------------------------------------------------------
(***************************************************************************)
(* Properties.                                                             *)
(***************************************************************************)

\* What the configuration asks of a setting: the pod's own, or the scenario's.
Asked(f) == IF config.own[f] = Unset THEN config.base[f] ELSE config.own[f]

\* A jitter without a delay is taken for a delay, see buildNetemCommand.
JitterAlone == Asked("delay") = Unset /\ On(Asked("jitter"))

\* A pod that has become ready is behind the network that was asked for, all settings
\* together, although they are set by separate commands of which one can undo the other.
\* The exceptions: a malformed bandwidth turns all of them off, and a jitter without a
\* delay becomes the delay.  Packets of full size pass a bandwidth of 2.4 Mbit or more.
ShapingAsAsked ==
    phase \in {"ready", "captured"} =>
        IF Asked("bandwidth") = Malformed THEN tbf = NoTbf /\ netem = NoNetem
        ELSE /\ tbf.rate = Asked("bandwidth")
             /\ tbf.rate >= 2400000 => tbf.burst >= 1500
             /\ \A f \in Rates : netem.rates[f] = Amount(Asked(f))
             /\ netem.delay = Amount(Asked(IF JitterAlone THEN "jitter" ELSE "delay"))
             /\ netem.jitter = IF JitterAlone THEN 0 ELSE Amount(Asked("jitter"))

\* The init container fails, and with it the wait for the pod, only for a bandwidth that
\* leaves no burst, or for a distribution with a jitter but without both values above zero.
InitFailureExplained ==
    phase = "failed" =>
        \/ Asked("bandwidth") \in 0..800 \cup {OtherZero}
        \/ /\ Asked("distribution") # Unset /\ On(Asked("jitter"))
           /\ JitterAlone \/ Amount(Asked("delay")) = 0 \/ Amount(Asked("jitter")) = 0

\* A name stands for the same pod in the filter of tcpdump as in the attack command, so
\* that what is attacked is what is captured.  The exception: of a target from the eleventh
\* on, whose placeholder begins like that of an earlier one.
FilterAgreesWithCommand ==
    phase = "captured" =>
        \A e \in GetShellEnvVars(config.capture) :
            config.capture.text = e[1] /\ e[2] < 10 => filter = [pod |-> e[2], rest |-> <<>>]
=============================================================================
