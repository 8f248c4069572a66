---------------------------- MODULE PodSetupProofs ----------------------------
(***************************************************************************)
(* Proofs about PodSetup, for every configuration: any settings of the     *)
(* scenario and of the pod.                                                *)
(***************************************************************************)
EXTENDS PodSetup, SequenceTheorems, WellFoundedInduction, TLAPS

LEMMA Joins ==
    ASSUME NEW x, NEW y
    PROVE  /\ <<>> \o <<>> = <<>> /\ <<>> \o <<x>> = <<x>> /\ <<x>> \o <<>> = <<x>>
           /\ <<x>> \o <<y>> = <<x, y>>
<1> DEFINE S == {x, y}
<1>1. <<>> \in Seq(S) /\ <<x>> \in Seq(S) /\ <<y>> \in Seq(S) /\ x \in S /\ y \in S
  OBVIOUS
<1> HIDE DEF S
<1>2. <<x>> \o <<y>> = <<x, y>>
  <2>1. /\ <<x>> \o <<y>> \in Seq(S) /\ Len(<<x>> \o <<y>>) = Len(<<x>>) + Len(<<y>>)
        /\ \A i \in 1..(Len(<<x>>) + Len(<<y>>)) :
              (<<x>> \o <<y>>)[i] = IF i <= Len(<<x>>) THEN <<x>>[i] ELSE <<y>>[i - Len(<<x>>)]
    BY <1>1, ConcatProperties
  <2>2. <<x, y>> \in Seq(S) /\ Len(<<x, y>>) = 2 /\ Len(<<x>>) = 1 /\ Len(<<y>>) = 1
    BY <1>1
  <2> DEFINE s == <<x>> \o <<y>>
             t == <<x, y>>
  <2>3. Len(s) = 2 /\ \A i \in 1..2 : s[i] = IF i <= 1 THEN <<x>>[i] ELSE <<y>>[i - 1]
    BY <2>1, <2>2
  <2>4. <<x>>[1] = x /\ <<y>>[1] = y /\ t[1] = x /\ t[2] = y
    OBVIOUS
  <2> HIDE DEF s, t
  <2>5. s[1] = <<x>>[1] /\ s[2] = <<y>>[1]
    BY <2>3
  <2>6. \A i \in 1..2 : s[i] = t[i]
    BY <2>4, <2>5
  <2>7. s \in Seq(S) /\ t \in Seq(S) /\ Len(t) = 2
    BY <2>1, <2>2 DEF s, t
  <2>8. s = t
    BY <2>3, <2>6, <2>7, SeqEqual
  <2> QED BY <2>8 DEF s, t
<1> QED BY <1>1, <1>2, ConcatEmptySeq

LEMMA Pair == ASSUME NEW S, NEW x \in S, NEW y \in S PROVE <<x, y>> \in Seq(S) /\ Len(<<x, y>>) = 2
OBVIOUS

LEMMA JoinsThree == ASSUME NEW x, NEW y, NEW z PROVE <<x, y>> \o <<z>> = <<x, y, z>>
<1> DEFINE S == {x, y, z}
           s == <<x, y>> \o <<z>>
           t == <<x, y, z>>
<1>1. <<x, y>> \in Seq(S) /\ <<z>> \in Seq(S) /\ t \in Seq(S) /\ Len(t) = 3
  OBVIOUS
<1> HIDE DEF S
<1>2. s \in Seq(S) /\ Len(s) = 3 /\ \A i \in 1..3 : s[i] = IF i <= 2 THEN <<x, y>>[i] ELSE <<z>>[i - 2]
  BY <1>1, ConcatProperties
<1>3. <<x, y>>[1] = x /\ <<x, y>>[2] = y /\ <<z>>[1] = z /\ t[1] = x /\ t[2] = y /\ t[3] = z
  OBVIOUS
<1> HIDE DEF s, t
<1>4. s[1] = <<x, y>>[1] /\ s[2] = <<x, y>>[2] /\ s[3] = <<z>>[1]
  BY <1>2
<1>5. \A i \in 1..3 : s[i] = t[i]
  BY <1>3, <1>4
<1>6. s = t
  BY <1>1, <1>2, <1>5, SeqEqual
<1> QED BY <1>6 DEF s, t

\* The settings of the pod.
net == MergeNetworks(config.base, config.own)
bandwidth == net["bandwidth"]

LEMMA NetType ==
    ASSUME config \in Configurations
    PROVE  \A f \in Fields : net[f] = Asked(f) /\ net[f] \in Nat \cup {Unset, OtherZero, Malformed}
BY PodSetupAssumption DEF net, MergeNetworks, Asked, Network

-----------------------------------------------------------------------------
(***************************************************************************)
(* The script.                                                             *)
(***************************************************************************)
TbfCommand == [qdisc |-> "tbf", parent |-> "root", rate |-> bandwidth, burst |-> Burst(bandwidth)]
NetemCommand == [qdisc |-> "netem", parent |-> NetemParent(net), arguments |-> buildNetemCommand(net)]
NetemScript == IF needsNetem(net) THEN <<NetemCommand>> ELSE <<>>

LEMMA ScriptParts ==
    /\ bandwidth = Malformed => GetTCCommand(net) = <<>>
    /\ bandwidth = Unset => GetTCCommand(net) = NetemScript
    /\ bandwidth \notin {Malformed, Unset} => /\ GetTCCommand(net) # <<>>
                                              /\ Head(GetTCCommand(net)) = TbfCommand
                                              /\ Tail(GetTCCommand(net)) = NetemScript
<1>1. CASE needsNetem(net)
  <2>1. GetTCCommand(net) = IF bandwidth = Malformed THEN <<>>
                            ELSE (IF bandwidth = Unset THEN <<>> ELSE <<TbfCommand>>) \o <<NetemCommand>>
    BY <1>1 DEF GetTCCommand, NetemCommand, TbfCommand, bandwidth
  <2>2. <<>> \o <<NetemCommand>> = <<NetemCommand>> /\ <<TbfCommand>> \o <<NetemCommand>> = <<TbfCommand, NetemCommand>>
    BY Joins
  <2>3. NetemScript = <<NetemCommand>> /\ Unset # Malformed
    BY <1>1 DEF NetemScript, Malformed, Unset
  <2>4. bandwidth \notin {Malformed, Unset} => GetTCCommand(net) = <<TbfCommand, NetemCommand>>
    BY <2>1, <2>2
  <2>5. bandwidth = Unset => GetTCCommand(net) = NetemScript
    BY <2>1, <2>2, <2>3
  <2>6. bandwidth = Malformed => GetTCCommand(net) = <<>>
    BY <2>1
  <2>7. <<TbfCommand, NetemCommand>> # <<>> /\ Head(<<TbfCommand, NetemCommand>>) = TbfCommand
        /\ Tail(<<TbfCommand, NetemCommand>>) = <<NetemCommand>>
    OBVIOUS
  <2> QED BY <2>3, <2>4, <2>5, <2>6, <2>7
<1>2. CASE ~needsNetem(net)
  <2>1. GetTCCommand(net) = IF bandwidth = Malformed THEN <<>>
                            ELSE (IF bandwidth = Unset THEN <<>> ELSE <<TbfCommand>>) \o <<>>
    BY <1>2 DEF GetTCCommand, TbfCommand, bandwidth
  <2>2. <<>> \o <<>> = <<>> /\ <<TbfCommand>> \o <<>> = <<TbfCommand>>
    BY Joins
  <2> QED BY <1>2, <2>1, <2>2 DEF NetemScript, Malformed, Unset
<1> QED BY <1>1, <1>2

\* What is in force when the whole script has been run.
TbfAsked == [rate |-> bandwidth, burst |-> Burst(bandwidth)]
NetemAsked == IF needsNetem(net) THEN Netem(buildNetemCommand(net)) ELSE NoNetem
TbfInForce ==
    IF bandwidth \in {Unset, Malformed} THEN tbf = NoTbf
    ELSE tbf = TbfAsked /\ bandwidth > 0 /\ Burst(bandwidth) > 0
NetemInForce == netem = IF bandwidth = Malformed THEN NoNetem ELSE NetemAsked

\* The part of the script that is left, with what the other part has done.
ScriptInv ==
    /\ config \in Configurations
    /\ phase = "configured" => tbf = NoTbf /\ netem = NoNetem
    /\ phase = "init" =>
         \/ script = GetTCCommand(net) /\ tbf = NoTbf /\ netem = NoNetem
         \/ script = NetemScript /\ bandwidth \notin {Unset, Malformed} /\ TbfInForce /\ netem = NoNetem
         \/ script = <<>> /\ TbfInForce /\ NetemInForce
    /\ phase \in {"ready", "captured"} => TbfInForce /\ NetemInForce
    /\ InitFailureExplained

\* tc refuses a tbf only for a bandwidth of zero or one too small for a burst.
LEMMA TbfRefused ==
    ASSUME config \in Configurations, bandwidth \notin {Unset, Malformed}, ~Accepts(TbfCommand, NoTbf)
    PROVE  Asked("bandwidth") \in 0..800 \cup {OtherZero}
<1>1. bandwidth = Asked("bandwidth") /\ bandwidth \in Nat \cup {OtherZero}
  BY NetType DEF bandwidth, Fields
<1>2. ~(bandwidth > 0 /\ Burst(bandwidth) > 0)
  BY DEF Accepts, TbfCommand
<1> QED BY <1>1, <1>2 DEF Burst, OtherZero

\* tc refuses a netem only for a distribution without a delay or a jitter.
LEMMA NetemRefused ==
    ASSUME config \in Configurations, ~Accepts(NetemCommand, tbf),
           NetemCommand.parent = "root" \/ tbf # NoTbf
    PROVE  /\ Asked("distribution") # Unset /\ On(Asked("jitter"))
           /\ JitterAlone \/ Amount(Asked("delay")) = 0 \/ Amount(Asked("jitter")) = 0
<1> DEFINE e == Netem(buildNetemCommand(net))
<1>1. e.distribution # Unset /\ ~(e.delay > 0 /\ e.jitter > 0)
  BY DEF Accepts, NetemCommand
<1>2. /\ net["distribution"] = Asked("distribution") /\ net["jitter"] = Asked("jitter") /\ net["delay"] = Asked("delay")
      /\ net["jitter"] \in Int /\ net["delay"] \in Int
  BY NetType DEF Fields, Unset, OtherZero, Malformed
<1>3. Asked("distribution") # Unset /\ On(Asked("jitter"))
  BY <1>1, <1>2 DEF Netem, buildNetemCommand, Distribution
<1>4. ASSUME ~JitterAlone
      PROVE  e.delay = Amount(Asked("delay")) /\ e.jitter = Amount(Asked("jitter"))
  <2>1. Asked("delay") # Unset
    BY <1>3, <1>4 DEF JitterAlone
  <2>2. buildNetemCommand(net).delay = <<net["delay"]>> \o <<net["jitter"]>>
    BY <1>2, <1>3, <2>1 DEF buildNetemCommand, Given
  <2>3. <<net["delay"]>> \o <<net["jitter"]>> = <<net["delay"], net["jitter"]>>
    BY Joins
  <2> QED BY <1>2, <2>2, <2>3 DEF Netem
<1>5. Amount(Asked("delay")) \in Nat /\ Amount(Asked("jitter")) \in Nat
  BY <1>2 DEF Amount
<1> QED BY <1>1, <1>3, <1>4, <1>5

LEMMA ScriptInit == Init => ScriptInv
BY DEF Init, ScriptInv, InitFailureExplained

LEMMA ScriptStep == ScriptInv /\ [Next]_vars => ScriptInv'
<1> SUFFICES ASSUME ScriptInv, [Next]_vars PROVE ScriptInv'
  OBVIOUS
<1>0. config' = config /\ config \in Configurations /\ net' = net /\ bandwidth' = bandwidth
      /\ NetemScript' = NetemScript
  BY DEF Next, CreatePod, RunCommand, BecomeReady, StartCapture, vars, net, bandwidth, NetemScript, NetemCommand, ScriptInv
<1>1. CASE CreatePod
  BY <1>0, <1>1 DEF CreatePod, ScriptInv, InitFailureExplained, net
<1>2. CASE RunCommand
  <2>0. phase = "init" /\ script # <<>>
    BY <1>2 DEF RunCommand
  <2>1. CASE script = GetTCCommand(net) /\ bandwidth \notin {Unset, Malformed} /\ tbf = NoTbf /\ netem = NoNetem
    <3>1. Head(script) = TbfCommand /\ Tail(script) = NetemScript
      BY <2>1, ScriptParts
    <3>2. CASE Accepts(TbfCommand, NoTbf)
      <4>1. bandwidth > 0 /\ Burst(bandwidth) > 0
        BY <3>2 DEF Accepts, TbfCommand
      <4>2. tbf' = TbfAsked /\ netem' = NoNetem /\ script' = NetemScript /\ phase' = "init"
        BY <1>2, <2>0, <2>1, <3>1, <3>2 DEF RunCommand, TbfCommand, TbfAsked
      <4>3. TbfInForce'
        BY <1>0, <2>1, <4>1, <4>2 DEF TbfInForce, TbfAsked
      <4> QED BY <1>0, <2>1, <4>2, <4>3 DEF ScriptInv, InitFailureExplained
    <3>3. CASE ~Accepts(TbfCommand, NoTbf)
      <4>1. Asked("bandwidth") \in 0..800 \cup {OtherZero}
        BY <1>0, <2>1, <3>3, TbfRefused
      <4>2. phase' = "failed" /\ Asked("bandwidth")' = Asked("bandwidth")
        BY <1>0, <1>2, <2>1, <3>1, <3>3 DEF RunCommand, Asked
      <4> QED BY <1>0, <4>1, <4>2 DEF ScriptInv, InitFailureExplained
    <3> QED BY <3>2, <3>3
  <2>2. CASE /\ script = NetemScript /\ TbfInForce /\ bandwidth # Malformed /\ netem = NoNetem
    <3>1. needsNetem(net) /\ Head(script) = NetemCommand /\ Tail(script) = <<>>
      BY <2>0, <2>2 DEF NetemScript
    <3>2. NetemCommand.qdisc = "netem"
          /\ (IF bandwidth = Unset THEN NetemCommand.parent = "root" /\ tbf = NoTbf
              ELSE NetemCommand.parent = "tbf" /\ tbf # NoTbf)
      BY <2>2 DEF NetemCommand, NetemParent, TbfInForce, TbfAsked, NoTbf, bandwidth, Unset
    <3>3. CASE Accepts(NetemCommand, tbf)
      <4>1. phase' = "init" /\ script' = <<>> /\ tbf' = tbf /\ netem' = Netem(NetemCommand.arguments)
        BY <1>2, <2>0, <3>1, <3>2, <3>3 DEF RunCommand
      <4>2. TbfInForce'
        BY <1>0, <2>2, <4>1 DEF TbfInForce, TbfAsked
      <4>3. NetemInForce'
        BY <1>0, <2>2, <3>1, <4>1 DEF NetemInForce, NetemAsked, NetemCommand
      <4> QED BY <1>0, <4>1, <4>2, <4>3 DEF ScriptInv, InitFailureExplained
    <3>4. CASE ~Accepts(NetemCommand, tbf)
      <4>1. /\ Asked("distribution") # Unset /\ On(Asked("jitter"))
            /\ JitterAlone \/ Amount(Asked("delay")) = 0 \/ Amount(Asked("jitter")) = 0
        BY <1>0, <3>2, <3>4, NetemRefused
      <4>2. phase' = "failed"
        BY <1>2, <3>1, <3>4 DEF RunCommand
      <4>3. InitFailureExplained'
        BY <1>0, <4>1 DEF InitFailureExplained, Asked, JitterAlone
      <4> QED BY <1>0, <4>2, <4>3 DEF ScriptInv
    <3> QED BY <3>3, <3>4
  <2>3. \/ script = GetTCCommand(net) /\ tbf = NoTbf /\ netem = NoNetem
        \/ script = NetemScript /\ bandwidth \notin {Unset, Malformed} /\ TbfInForce /\ netem = NoNetem
    BY <2>0 DEF ScriptInv
  <2>4. bandwidth = Unset /\ tbf = NoTbf => TbfInForce
    BY DEF TbfInForce
  <2>5. Unset # Malformed
    BY DEF Unset, Malformed
  <2> QED BY <2>0, <2>1, <2>2, <2>3, <2>4, <2>5, ScriptParts
<1>3. CASE BecomeReady
  <2>1. phase = "init" /\ script = <<>> /\ phase' = "ready" /\ UNCHANGED <<tbf, netem>>
    BY <1>3 DEF BecomeReady
  <2>a. NetemScript = <<>> => NetemAsked = NoNetem
    BY DEF NetemScript, NetemAsked
  <2>2. ASSUME script = GetTCCommand(net) /\ tbf = NoTbf /\ netem = NoNetem
        PROVE  TbfInForce /\ NetemInForce
    <3>1. bandwidth \in {Malformed, Unset} /\ (bandwidth = Malformed \/ NetemScript = <<>>)
      BY <2>1, <2>2, ScriptParts
    <3> QED BY <2>a, <2>2, <3>1 DEF TbfInForce, NetemInForce
  <2>3. ASSUME script = NetemScript /\ bandwidth \notin {Unset, Malformed} /\ TbfInForce /\ netem = NoNetem
        PROVE  TbfInForce /\ NetemInForce
    BY <2>1, <2>a, <2>3 DEF NetemInForce
  <2>4. TbfInForce /\ NetemInForce
    BY <2>1, <2>2, <2>3 DEF ScriptInv
  <2>5. TbfInForce' /\ NetemInForce'
    BY <1>0, <2>1, <2>4 DEF TbfInForce, NetemInForce, TbfAsked, NetemAsked
  <2> QED BY <1>0, <2>1, <2>5 DEF ScriptInv, InitFailureExplained
<1>4. CASE StartCapture
  <2>1. phase = "ready" /\ phase' = "captured" /\ UNCHANGED <<tbf, netem>>
    BY <1>4 DEF StartCapture
  <2>2. TbfInForce' /\ NetemInForce'
    BY <1>0, <2>1 DEF ScriptInv, TbfInForce, NetemInForce, TbfAsked, NetemAsked
  <2> QED BY <1>0, <2>1, <2>2 DEF ScriptInv, InitFailureExplained
<1>5. CASE UNCHANGED vars
  BY <1>5 DEF vars, ScriptInv, TbfInForce, NetemInForce, TbfAsked, NetemAsked, NetemScript, NetemCommand,
              InitFailureExplained, net, bandwidth, Asked, JitterAlone
<1> QED BY <1>1, <1>2, <1>3, <1>4, <1>5 DEF Next

\* The init container of a pod fails only for a bandwidth or a distribution that tc refuses,
\* whatever the other settings are and wherever they come from.
THEOREM InitFailureExplainedAlways == Spec => []InitFailureExplained
<1>1. ScriptInv => InitFailureExplained
  BY DEF ScriptInv
<1> QED BY <1>1, ScriptInit, ScriptStep, PTL DEF Spec

-----------------------------------------------------------------------------
(***************************************************************************)
(* What is in force.                                                       *)
(***************************************************************************)
LEMMA TbfAsAsked ==
    ASSUME config \in Configurations, TbfInForce, Asked("bandwidth") # Malformed
    PROVE  tbf.rate = Asked("bandwidth") /\ (tbf.rate >= 2400000 => tbf.burst >= 1500)
<1>1. bandwidth = Asked("bandwidth")
  BY NetType DEF bandwidth, Fields
<1>2. CASE bandwidth = Unset
  BY <1>1, <1>2 DEF TbfInForce, NoTbf, Unset
<1>3. CASE bandwidth # Unset
  <2>1. bandwidth \in Nat /\ tbf.rate = bandwidth /\ tbf.burst = Burst(bandwidth)
    BY <1>1, <1>3, NetType DEF TbfInForce, TbfAsked, OtherZero, bandwidth, Fields
  <2>2. bandwidth >= 2400000 => Burst(bandwidth) >= 1500
    BY <2>1 DEF Burst
  <2> QED BY <1>1, <2>1, <2>2
<1> QED BY <1>2, <1>3

LEMMA NetemAsAsked ==
    ASSUME config \in Configurations
    PROVE  /\ \A f \in Rates : NetemAsked.rates[f] = Amount(Asked(f))
           /\ NetemAsked.delay = Amount(Asked(IF JitterAlone THEN "jitter" ELSE "delay"))
           /\ NetemAsked.jitter = IF JitterAlone THEN 0 ELSE Amount(Asked("jitter"))
<1>1. \A f \in Rates \cup {"delay", "jitter"} :
          net[f] = Asked(f) /\ net[f] \in Int /\ (~On(net[f]) => Amount(Asked(f)) = 0)
  BY NetType DEF Rates, Fields, Unset, OtherZero, Malformed, On, Amount
<1>2. CASE ~needsNetem(net)
  <2>1. \A f \in Rates \cup {"delay", "jitter"} : ~On(net[f])
    BY <1>2 DEF needsNetem
  <2>2. \A f \in Rates \cup {"delay", "jitter"} : Amount(Asked(f)) = 0
    BY <1>1, <2>1
  <2>3. ~JitterAlone
    BY <1>1, <2>1 DEF JitterAlone
  <2> QED BY <1>2, <2>2, <2>3 DEF NetemAsked, NoNetem
<1>3. CASE needsNetem(net)
  <2> DEFINE arguments == buildNetemCommand(net)
  <2>1. NetemAsked = Netem(arguments)
    BY <1>3 DEF NetemAsked
  <2>2. \A f \in Rates : arguments.rates[f] = IF On(net[f]) THEN net[f] ELSE Unset
    BY DEF buildNetemCommand
  <2>3. \A f \in Rates : NetemAsked.rates[f] = Amount(Asked(f))
    <3>1. \A f \in Rates : NetemAsked.rates[f] = Amount(arguments.rates[f])
      BY <2>1 DEF Netem
    <3>2. Amount(Unset) = 0
      BY DEF Amount, Unset
    <3> QED BY <1>1, <2>2, <3>1, <3>2
  <2>4. arguments.delay = IF ~On(net["delay"]) /\ ~On(net["jitter"]) THEN <<>>
                          ELSE IF net["delay"] = Unset THEN <<net["jitter"]>>
                          ELSE IF On(net["jitter"]) THEN <<net["delay"], net["jitter"]>>
                          ELSE <<net["delay"]>>
    <3>1. On(net["delay"]) => net["delay"] # Unset
      BY DEF On
    <3>2. arguments.delay = IF On(net["delay"]) \/ On(net["jitter"])
                            THEN Given(net["delay"]) \o (IF On(net["jitter"]) THEN <<net["jitter"]>> ELSE <<>>)
                            ELSE <<>>
      BY DEF buildNetemCommand
    <3>3. Given(net["delay"]) = IF net["delay"] = Unset THEN <<>> ELSE <<net["delay"]>>
      BY DEF Given
    <3> HIDE DEF arguments
    <3>4. CASE ~On(net["delay"]) /\ ~On(net["jitter"])
      BY <3>2, <3>4
    <3>5. CASE On(net["jitter"])
      BY <3>2, <3>3, <3>5, Joins
    <3>6. CASE On(net["delay"]) /\ ~On(net["jitter"])
      BY <3>1, <3>2, <3>3, <3>6, Joins
    <3> QED BY <3>4, <3>5, <3>6
  <2> HIDE DEF arguments
  <2>5. /\ NetemAsked.delay = IF Len(arguments.delay) > 0 THEN Amount(arguments.delay[1]) ELSE 0
        /\ NetemAsked.jitter = IF Len(arguments.delay) > 1 THEN Amount(arguments.delay[2]) ELSE 0
    BY <2>1 DEF Netem
  <2>6. JitterAlone <=> net["delay"] = Unset /\ On(net["jitter"])
    BY <1>1 DEF JitterAlone
  <2>7. \A f \in {"delay", "jitter"} : net[f] = Asked(f) /\ (~On(net[f]) => Amount(Asked(f)) = 0)
    BY <1>1
  <2>8. CASE ~On(net["delay"]) /\ ~On(net["jitter"])
    BY <2>4, <2>5, <2>6, <2>7, <2>8, <2>3
  <2>9. CASE On(net["jitter"]) /\ net["delay"] = Unset
    BY <2>4, <2>5, <2>6, <2>7, <2>9, <2>3
  <2>10. CASE On(net["jitter"]) /\ net["delay"] # Unset
    BY <2>4, <2>5, <2>6, <2>7, <2>10, <2>3
  <2>11. CASE On(net["delay"]) /\ ~On(net["jitter"])
    <3>1. net["delay"] # Unset
      BY <2>11 DEF On
    <3> QED BY <2>4, <2>5, <2>6, <2>7, <2>11, <3>1, <2>3
  <2> QED BY <2>8, <2>9, <2>10, <2>11
<1> QED BY <1>2, <1>3

\* For any settings, a pod that has become ready is behind the network that was asked for.
THEOREM ShapingAsAskedAlways == Spec => []ShapingAsAsked
<1>1. ScriptInv => ShapingAsAsked
  <2> SUFFICES ASSUME config \in Configurations, TbfInForce, NetemInForce PROVE ShapingAsAsked
    BY DEF ScriptInv, ShapingAsAsked
  <2>1. bandwidth = Asked("bandwidth")
    BY NetType DEF bandwidth, Fields
  <2>2. CASE bandwidth = Malformed
    BY <2>1, <2>2 DEF TbfInForce, NetemInForce, ShapingAsAsked
  <2>3. CASE bandwidth # Malformed
    <3>1. netem = NetemAsked
      BY <2>3 DEF NetemInForce
    <3> QED BY <2>1, <2>3, <3>1, TbfAsAsked, NetemAsAsked DEF ShapingAsAsked
  <2> QED BY <2>2, <2>3
<1> QED BY <1>1, ScriptInit, ScriptStep, PTL DEF Spec

-----------------------------------------------------------------------------
(***************************************************************************)
(* The filter.                                                             *)
(***************************************************************************)
\* What placeholders are made of.
Parts == {"ATTACKER_IP", "TARGET_IP", "_"} \cup {Digit(d) : d \in 0..9}

LEMMA PrefixElements ==
    ASSUME NEW s \in Seq(Parts), NEW t \in Seq(Parts), IsPrefix(s, t)
    PROVE  Len(s) <= Len(t) /\ \A j \in 1..Len(s) : s[j] = t[j]
<1>1. Len(s) <= Len(t) /\ SubSeq(s, 1, Len(s)) = SubSeq(t, 1, Len(s))
  BY DEF IsPrefix
<1>2. \A j \in 1..Len(s) : SubSeq(s, 1, Len(s))[j] = s[j] /\ SubSeq(t, 1, Len(s))[j] = t[j]
  BY <1>1, SubSeqProperties
<1> QED BY <1>1, <1>2

LEMMA Names ==
    /\ AttackerIp \in Seq(Parts) /\ TargetIp \in Seq(Parts)
    /\ Len(AttackerIp) = 1 /\ Len(TargetIp) = 1 /\ AttackerIp[1] # TargetIp[1]
    /\ \A i \in 0..98 : IndexedIp(i) \in Seq(Parts) /\ Len(IndexedIp(i)) > 2
    /\ \A i \in 0..9 : IndexedIp(i) = <<"TARGET_IP", "_", Digit(i)>>
    /\ \A i, j \in 0..9 : Digit(i) = Digit(j) => i = j
<1>1. /\ AttackerIp \in Seq(Parts) /\ TargetIp \in Seq(Parts)
      /\ Len(AttackerIp) = 1 /\ Len(TargetIp) = 1 /\ AttackerIp[1] # TargetIp[1]
  BY DEF AttackerIp, TargetIp, Parts
<1>a. <<"TARGET_IP", "_">> \in Seq(Parts) /\ Len(<<"TARGET_IP", "_">>) = 2
  <2>1. "TARGET_IP" \in Parts /\ "_" \in Parts
    BY DEF Parts
  <2> QED BY <2>1, Pair
<1>2. TargetIp \o <<"_">> = <<"TARGET_IP", "_">>
  BY Joins DEF TargetIp
<1>3. \A d \in 0..9 : Digit(d) \in Parts
  BY DEF Parts
<1>4. \A i \in 0..98 : Decimal(i) \in Seq(Parts) /\ Len(Decimal(i)) \in {1, 2}
  <2> TAKE i \in 0..98
  <2>1. CASE i < 10
    BY <1>3, <2>1 DEF Decimal
  <2>2. CASE i >= 10
    <3>1. i \div 10 \in 0..9 /\ i % 10 \in 0..9
      BY <2>2
    <3>2. Decimal(i) = <<Digit(i \div 10), Digit(i % 10)>>
      BY <2>2 DEF Decimal
    <3> QED BY <1>3, <3>1, <3>2
  <2> QED BY <2>1, <2>2
<1>5. \A i \in 0..98 : IndexedIp(i) \in Seq(Parts) /\ Len(IndexedIp(i)) > 2
  <2> TAKE i \in 0..98
  <2>1. IndexedIp(i) = <<"TARGET_IP", "_">> \o Decimal(i)
    BY <1>2 DEF IndexedIp
  <2>2. Len(<<"TARGET_IP", "_">> \o Decimal(i)) = 2 + Len(Decimal(i))
        /\ <<"TARGET_IP", "_">> \o Decimal(i) \in Seq(Parts)
    BY <1>a, <1>4, ConcatProperties
  <2>3. Len(Decimal(i)) \in {1, 2}
    BY <1>4
  <2>4. Len(IndexedIp(i)) = 2 + Len(Decimal(i))
    BY <2>1, <2>2
  <2>5. Len(IndexedIp(i)) > 2
    BY <2>3, <2>4
  <2> QED BY <2>1, <2>2, <2>5
<1>6. \A i \in 0..9 : IndexedIp(i) = <<"TARGET_IP", "_", Digit(i)>>
  <2> TAKE i \in 0..9
  <2>1. IndexedIp(i) = <<"TARGET_IP", "_">> \o <<Digit(i)>>
    <3>1. Decimal(i) = <<Digit(i)>>
      BY DEF Decimal
    <3> QED BY <1>2, <3>1 DEF IndexedIp
  <2> QED BY <2>1, JoinsThree
<1>7. \A i, j \in 0..9 : Digit(i) = Digit(j) => i = j
  BY DEF Digit
<1> QED BY <1>1, <1>5, <1>6, <1>7

\* The first placeholder that fits decides.
LEMMA FirstMatch ==
    ASSUME NEW c, NEW k \in DOMAIN Replacements(c), DOMAIN Replacements(c) \subseteq Nat,
           c.text \in Seq(Parts), Replacements(c)[k][1] = c.text,
           \A l \in DOMAIN Replacements(c) : l < k => ~IsPrefix(Replacements(c)[l][1], c.text)
    PROVE  Replace(c) = [pod |-> Replacements(c)[k][2], rest |-> <<>>]
<1> DEFINE r == Replacements(c)
           matching == {l \in DOMAIN r : IsPrefix(r[l][1], c.text)}
           first == CHOOSE l \in matching : \A n \in matching : l <= n
<1>1. k \in matching
  BY DEF IsPrefix
<1>2. \A n \in matching : k <= n
  OBVIOUS
<1>3. \A l \in matching : (\A n \in matching : l <= n) => l = k
  <2> TAKE l \in matching
  <2> HAVE \A n \in matching : l <= n
  <2>1. l <= k /\ k <= l /\ l \in Nat /\ k \in Nat
    BY <1>1, <1>2
  <2> QED BY <2>1
<1>4. first = k
  <2> HIDE DEF matching
  <2> QED BY <1>1, <1>2, <1>3
<1>5. Replace(c) = [pod |-> r[first][2], rest |-> SubSeq(c.text, Len(r[first][1]) + 1, Len(c.text))]
  BY <1>1 DEF Replace
<1>6. SubSeq(c.text, Len(c.text) + 1, Len(c.text)) = <<>>
  OBVIOUS
<1> HIDE DEF first
<1> QED BY <1>4, <1>5, <1>6

LEMMA NotPrefix ==
    ASSUME NEW s \in Seq(Parts), NEW t \in Seq(Parts), Len(s) > Len(t) \/ \E j \in 1..Len(s) : s[j] # t[j]
    PROVE  ~IsPrefix(s, t)
<1> SUFFICES ASSUME IsPrefix(s, t) PROVE FALSE
  OBVIOUS
<1>1. Len(s) <= Len(t) /\ \A j \in 1..Len(s) : s[j] = t[j]
  BY PrefixElements
<1>2. Len(s) \in Nat /\ Len(t) \in Nat
  OBVIOUS
<1> QED BY <1>1, <1>2

LEMMA NoPrefixes ==
    /\ ~IsPrefix(AttackerIp, TargetIp)
    /\ \A i \in 0..98 : ~IsPrefix(IndexedIp(i), AttackerIp)
    /\ \A i, j \in 0..9 : i # j => ~IsPrefix(IndexedIp(i), IndexedIp(j))
<1>1. ~IsPrefix(AttackerIp, TargetIp)
  <2>a. Len(AttackerIp) = 1 /\ AttackerIp[1] # TargetIp[1]
    BY Names
  <2>1. 1 \in 1..Len(AttackerIp) /\ AttackerIp[1] # TargetIp[1]
    BY <2>a
  <2> QED BY <2>1, Names, NotPrefix
<1>2. ASSUME NEW i \in 0..98 PROVE ~IsPrefix(IndexedIp(i), AttackerIp)
  <2>1. IndexedIp(i) \in Seq(Parts) /\ AttackerIp \in Seq(Parts) /\ Len(IndexedIp(i)) > 2 /\ Len(AttackerIp) = 1
    BY Names
  <2>2. Len(IndexedIp(i)) > Len(AttackerIp)
    BY <2>1
  <2> QED BY <2>1, <2>2, NotPrefix
<1>3. ASSUME NEW i \in 0..9, NEW j \in 0..9, i # j PROVE ~IsPrefix(IndexedIp(i), IndexedIp(j))
  <2>1. i \in 0..98 /\ j \in 0..98
    OBVIOUS
  <2>2. IndexedIp(i) \in Seq(Parts) /\ IndexedIp(j) \in Seq(Parts)
    BY <2>1, Names
  <2>3. IndexedIp(i) = <<"TARGET_IP", "_", Digit(i)>> /\ IndexedIp(j) = <<"TARGET_IP", "_", Digit(j)>>
    BY Names
  <2>4. Digit(i) # Digit(j)
    BY <1>3, Names
  <2>5. \A d : Len(<<"TARGET_IP", "_", d>>) = 3 /\ <<"TARGET_IP", "_", d>>[3] = d
    OBVIOUS
  <2>6. Len(IndexedIp(i)) = 3 /\ IndexedIp(i)[3] = Digit(i) /\ IndexedIp(j)[3] = Digit(j)
    BY <2>3, <2>5
  <2>7. 3 \in 1..Len(IndexedIp(i)) /\ IndexedIp(i)[3] # IndexedIp(j)[3]
    BY <2>4, <2>6
  <2> QED BY <2>2, <2>7, NotPrefix
<1> QED BY <1>1, <1>2, <1>3

LEMMA FamilyAndPair ==
    ASSUME NEW n \in Nat, NEW S, NEW family \in [1..n -> S], NEW x \in S, NEW y \in S
    PROVE  /\ DOMAIN (family \o <<x, y>>) = 1..(n + 2)
           /\ \A i \in 1..n : (family \o <<x, y>>)[i] = family[i]
           /\ (family \o <<x, y>>)[n + 1] = x /\ (family \o <<x, y>>)[n + 2] = y
<1>1. family \in Seq(S) /\ Len(family) = n
  OBVIOUS
<1>2. <<x, y>> \in Seq(S) /\ Len(<<x, y>>) = 2
  BY Pair
<1>3. <<x, y>>[1] = x /\ <<x, y>>[2] = y
  OBVIOUS
<1> DEFINE t == <<x, y>>
           both == family \o t
<1> HIDE DEF t
<1>4. both \in Seq(S) /\ Len(both) = n + 2
      /\ \A i \in 1..(n + 2) : both[i] = IF i <= n THEN family[i] ELSE t[i - n]
  <2>1. t \in Seq(S) /\ Len(t) = 2
    BY <1>2 DEF t
  <2>2. both \in Seq(S) /\ Len(both) = Len(family) + Len(t)
        /\ \A i \in 1..(Len(family) + Len(t)) : both[i] = IF i <= Len(family) THEN family[i] ELSE t[i - Len(family)]
    BY <1>1, <2>1, ConcatProperties
  <2> HIDE DEF both
  <2> QED BY <1>1, <2>1, <2>2
<1> HIDE DEF both
<1>5. DOMAIN both = 1..(n + 2)
  BY <1>4
<1>6. \A i \in 1..n : both[i] = family[i]
  BY <1>4
<1>7. both[n + 1] = t[1] /\ both[n + 2] = t[2]
  BY <1>4
<1> QED BY <1>3, <1>5, <1>6, <1>7 DEF both, t

LEMMA ReplacementsAre ==
    ASSUME NEW c, NEW n \in 1..99, c.targets = n
    PROVE  /\ c.single => /\ DOMAIN Replacements(c) = 1..2
                          /\ Replacements(c)[1] = <<AttackerIp, Attacker>>
                          /\ Replacements(c)[2] = <<TargetIp, c.self>>
           /\ ~c.single => /\ DOMAIN Replacements(c) = 1..(n + 2)
                           /\ \A i \in 1..n : Replacements(c)[i] = <<IndexedIp(i - 1), i - 1>>
                           /\ Replacements(c)[n + 1] = <<AttackerIp, Attacker>>
                           /\ Replacements(c)[n + 2] = <<TargetIp, c.self>>
<1> DEFINE x == <<AttackerIp, Attacker>>
           y == <<TargetIp, c.self>>
           family == [i \in 1..n |-> <<IndexedIp(i - 1), i - 1>>]
           S == {x, y} \cup {family[i] : i \in 1..n}
<1>1. CASE c.single
  <2>1. Replacements(c) = <<x, y>>
    BY <1>1 DEF Replacements
  <2> HIDE DEF x, y
  <2>2. DOMAIN <<x, y>> = 1..2 /\ <<x, y>>[1] = x /\ <<x, y>>[2] = y
    OBVIOUS
  <2> QED BY <1>1, <2>1, <2>2 DEF x, y
<1>2. CASE ~c.single
  <2>1. Replacements(c) = family \o <<x, y>>
    BY <1>2 DEF Replacements
  <2>2. n \in Nat /\ family \in [1..n -> S] /\ x \in S /\ y \in S
    <3>1. n \in Nat /\ x \in S /\ y \in S
      OBVIOUS
    <3>2. family = [i \in 1..n |-> family[i]]
      OBVIOUS
    <3>3. \A i \in 1..n : family[i] \in S
      <4> HIDE DEF family, x, y
      <4> QED OBVIOUS
    <3> HIDE DEF family, x, y, S
    <3> QED BY <3>1, <3>2, <3>3
  <2>3. \A i \in 1..n : family[i] = <<IndexedIp(i - 1), i - 1>>
    OBVIOUS
  <2> HIDE DEF family, x, y, S
  <2>4. /\ DOMAIN (family \o <<x, y>>) = 1..(n + 2)
        /\ \A i \in 1..n : (family \o <<x, y>>)[i] = family[i]
        /\ (family \o <<x, y>>)[n + 1] = x /\ (family \o <<x, y>>)[n + 2] = y
    BY <2>2, FamilyAndPair
  <2> QED BY <1>2, <2>1, <2>3, <2>4 DEF x, y
<1> QED BY <1>1, <1>2

LEMMA FilterOf ==
    ASSUME NEW c, NEW n \in 1..99, c.targets = n, c.single \in BOOLEAN,
           NEW e \in GetShellEnvVars(c), c.text = e[1], e[2] < 10
    PROVE  Replace(c) = [pod |-> e[2], rest |-> <<>>]
<1> DEFINE r == Replacements(c)
<1>1. /\ c.single => DOMAIN r = 1..2 /\ r[1] = <<AttackerIp, Attacker>> /\ r[2] = <<TargetIp, c.self>>
      /\ ~c.single => /\ DOMAIN r = 1..(n + 2)
                      /\ \A i \in 1..n : r[i] = <<IndexedIp(i - 1), i - 1>>
                      /\ r[n + 1] = <<AttackerIp, Attacker>>
  BY ReplacementsAre
<1>2. ASSUME NEW k \in DOMAIN r, r[k] = e, c.text \in Seq(Parts),
             \A l \in DOMAIN r : l < k => ~IsPrefix(r[l][1], c.text)
      PROVE  Replace(c) = [pod |-> e[2], rest |-> <<>>]
  <2>1. DOMAIN r \subseteq Nat
    <3> HIDE DEF r
    <3>1. 1..2 \subseteq Nat /\ 1..(n + 2) \subseteq Nat
      OBVIOUS
    <3>2. DOMAIN r = 1..2 \/ DOMAIN r = 1..(n + 2)
      BY <1>1
    <3> QED BY <3>1, <3>2
  <2> QED BY <1>2, <2>1, FirstMatch
<1> HIDE DEF r
<1>3. CASE c.single /\ e = <<AttackerIp, Attacker>>
  <2>1. 1 \in DOMAIN r /\ r[1] = e /\ \A l \in DOMAIN r : ~(l < 1)
    BY <1>1, <1>3
  <2>2. c.text = AttackerIp
    BY <1>3
  <2>3. c.text \in Seq(Parts)
    BY <2>2, Names
  <2> QED BY <1>2, <2>1, <2>3
<1>4. CASE c.single /\ e = <<TargetIp, c.self>>
  <2>1. 2 \in DOMAIN r /\ r[2] = e /\ \A l \in DOMAIN r : l < 2 => r[l] = <<AttackerIp, Attacker>>
    BY <1>1, <1>4
  <2>2. c.text = TargetIp
    BY <1>4
  <2>3. c.text \in Seq(Parts)
    BY <2>2, Names
  <2>4. \A l \in DOMAIN r : l < 2 => r[l][1] = AttackerIp
    BY <2>1
  <2>5. \A l \in DOMAIN r : l < 2 => ~IsPrefix(r[l][1], c.text)
    BY <2>2, <2>4, NoPrefixes
  <2> QED BY <1>2, <2>1, <2>3, <2>5
<1>5. CASE ~c.single /\ e = <<AttackerIp, Attacker>>
  <2>0. /\ DOMAIN r = 1..(n + 2)
        /\ \A j \in 1..n : r[j] = <<IndexedIp(j - 1), j - 1>>
        /\ r[n + 1] = <<AttackerIp, Attacker>>
    BY <1>1, <1>5
  <2>1. n + 1 \in DOMAIN r /\ r[n + 1] = e
    BY <2>0, <1>5
  <2>2. c.text = AttackerIp
    BY <1>5
  <2>3. c.text \in Seq(Parts)
    BY <2>2, Names
  <2>4. ASSUME NEW l \in DOMAIN r, l < n + 1 PROVE ~IsPrefix(r[l][1], c.text)
    <3>0. l \in 1..(n + 2)
      BY <2>0
    <3>1. l \in 1..n /\ l - 1 \in 0..98
      BY <3>0, <2>4
    <3>2. r[l] = <<IndexedIp(l - 1), l - 1>>
      BY <2>0, <3>1
    <3>3. r[l][1] = IndexedIp(l - 1)
      BY <3>2
    <3> QED BY <2>2, <3>1, <3>3, NoPrefixes
  <2> QED BY <1>2, <2>1, <2>3, <2>4
<1>6. ASSUME ~c.single, NEW i \in 0..(n - 1), e = <<IndexedIp(i), i>>
      PROVE  Replace(c) = [pod |-> e[2], rest |-> <<>>]
  <2>0. /\ DOMAIN r = 1..(n + 2)
        /\ \A j \in 1..n : r[j] = <<IndexedIp(j - 1), j - 1>>
        /\ r[n + 1] = <<AttackerIp, Attacker>>
    BY <1>1, <1>6
  <2>1. e[2] = i /\ c.text = IndexedIp(i)
    BY <1>6
  <2>2. i \in 0..9 /\ i \in 0..98 /\ i + 1 \in 1..n /\ (i + 1) - 1 = i
    BY <2>1
  <2>3. i + 1 \in DOMAIN r
    BY <2>0, <2>2
  <2>4. r[i + 1] = <<IndexedIp((i + 1) - 1), (i + 1) - 1>>
    BY <2>0, <2>2
  <2>5. r[i + 1] = e
    BY <1>6, <2>2, <2>4
  <2>6. c.text \in Seq(Parts)
    BY <2>1, <2>2, Names
  <2>7. ASSUME NEW l \in DOMAIN r, l < i + 1 PROVE ~IsPrefix(r[l][1], c.text)
    <3>0. l \in 1..(n + 2)
      BY <2>0
    <3>1. l \in 1..n /\ l - 1 \in 0..9 /\ l - 1 # i
      BY <3>0, <2>2, <2>7
    <3>2. r[l] = <<IndexedIp(l - 1), l - 1>>
      BY <2>0, <3>1
    <3>3. r[l][1] = IndexedIp(l - 1)
      BY <3>2
    <3> QED BY <2>1, <2>2, <3>1, <3>3, NoPrefixes
  <2> QED BY <1>2, <2>3, <2>5, <2>6, <2>7
<1> QED BY <1>3, <1>4, <1>5, <1>6 DEF GetShellEnvVars

FilterInv == config \in Configurations /\ (phase = "captured" => filter = Replace(config.capture))

\* For up to 99 targets, what is attacked is what is captured, if the name is that of one of
\* the first ten.
THEOREM FilterAgreesAlways == Spec => []FilterAgreesWithCommand
<1>1. Init => FilterInv
  BY DEF Init, FilterInv
<1>2. FilterInv /\ [Next]_vars => FilterInv'
  BY DEF FilterInv, Next, CreatePod, RunCommand, BecomeReady, StartCapture, vars
<1>3. FilterInv => FilterAgreesWithCommand
  <2> SUFFICES ASSUME FilterInv, phase = "captured", NEW e \in GetShellEnvVars(config.capture),
                      config.capture.text = e[1], e[2] < 10
               PROVE  filter = [pod |-> e[2], rest |-> <<>>]
    BY DEF FilterAgreesWithCommand
  <2>1. config.capture.targets \in 1..99 /\ config.capture.single \in BOOLEAN
    BY PodSetupAssumption DEF FilterInv
  <2> QED BY <2>1, FilterOf DEF FilterInv
<1> QED BY <1>1, <1>2, <1>3, PTL DEF Spec

-----------------------------------------------------------------------------
(***************************************************************************)
(* Types.                                                                  *)
(***************************************************************************)
LEMMA CaptureType ==
    ASSUME config \in Configurations
    PROVE  /\ config.base \in Network /\ config.own \in Network
           /\ config.capture.targets \in 1..99 /\ config.capture.single \in BOOLEAN
           /\ config.capture.self \in 0..(config.capture.targets - 1)
BY PodSetupAssumption

LEMMA LeastNatural ==
    ASSUME NEW T \in SUBSET Nat, T # {}
    PROVE  \E l \in T : \A m \in T : l <= m
<1> DEFINE R == OpToRel(<, Nat)
<1>1. \A l, m \in Nat : <<m, l>> \in R <=> m < l
  BY DEF OpToRel
<1>2. IsWellFoundedOn(R, Nat)
  BY NatLessThanWellFounded
<1> HIDE DEF R
<1>3. PICK l \in T : \A m \in T : ~(<<m, l>> \in R)
  BY <1>2, WFMin
<1>4. ASSUME NEW m \in T PROVE l <= m
  <2>1. l \in Nat /\ m \in Nat /\ ~(m < l)
    BY <1>1, <1>3
  <2> QED BY <2>1
<1> QED BY <1>4

LEMMA ReplacePod ==
    ASSUME NEW c, NEW n \in 1..99, c.targets = n, c.single \in BOOLEAN, c.self \in 0..(n - 1)
    PROVE  Replace(c).pod \in {Attacker, Nobody} \cup 0..(n - 1)
<1> DEFINE r == Replacements(c)
           matching == {k \in DOMAIN r : IsPrefix(r[k][1], c.text)}
           first == CHOOSE k \in matching : \A l \in matching : k <= l
           pods == {Attacker, Nobody} \cup 0..(n - 1)
<1>1. \A k \in DOMAIN r : r[k][2] \in pods
  <2>1. CASE c.single
    <3>1. DOMAIN r = 1..2 /\ r[1] = <<AttackerIp, Attacker>> /\ r[2] = <<TargetIp, c.self>>
      BY <2>1, ReplacementsAre
    <3> HIDE DEF r
    <3> QED BY <3>1
  <2>2. CASE ~c.single
    <3>1. /\ DOMAIN r = 1..(n + 2)
          /\ \A i \in 1..n : r[i] = <<IndexedIp(i - 1), i - 1>>
          /\ r[n + 1] = <<AttackerIp, Attacker>> /\ r[n + 2] = <<TargetIp, c.self>>
      BY <2>2, ReplacementsAre
    <3> HIDE DEF r
    <3> SUFFICES ASSUME NEW k \in DOMAIN r PROVE r[k][2] \in pods
      OBVIOUS
    <3>2. k \in 1..(n + 2)
      BY <3>1
    <3>3. k \in 1..n \/ k = n + 1 \/ k = n + 2
      BY <3>2
    <3>4. CASE k \in 1..n
      <4>1. r[k] = <<IndexedIp(k - 1), k - 1>> /\ k - 1 \in 0..(n - 1)
        BY <3>1, <3>4
      <4> QED BY <4>1
    <3>5. CASE k = n + 1
      <4>1. r[k] = <<AttackerIp, Attacker>>
        BY <3>1, <3>5
      <4> QED BY <4>1
    <3>6. CASE k = n + 2
      <4>1. r[k] = <<TargetIp, c.self>>
        BY <3>1, <3>6
      <4> QED BY <4>1
    <3> QED BY <3>3, <3>4, <3>5, <3>6
  <2> QED BY <2>1, <2>2
<1>2. CASE matching = {}
  BY <1>2 DEF Replace
<1>3. CASE matching # {}
  <2>1. Replace(c).pod = r[first][2]
    BY <1>3 DEF Replace
  <2>2. first \in matching
    <3>1. PICK k \in DOMAIN r : IsPrefix(r[k][1], c.text)
      BY <1>3
    <3>2. DOMAIN r \subseteq Nat
      <4>1. (c.single => DOMAIN r = 1..2) /\ (~c.single => DOMAIN r = 1..(n + 2))
        BY ReplacementsAre
      <4>2. DOMAIN r = 1..2 \/ DOMAIN r = 1..(n + 2)
        BY <4>1
      <4>3. 1..2 \subseteq Nat /\ 1..(n + 2) \subseteq Nat
        OBVIOUS
      <4> QED BY <4>2, <4>3
    <3>3. matching \subseteq Nat /\ k \in matching
      BY <3>1, <3>2
    <3> HIDE DEF matching
    <3>4. \E l \in matching : \A m \in matching : l <= m
      BY <3>3, LeastNatural
    <3> QED BY <3>4
  <2>3. first \in DOMAIN r
    BY <2>2
  <2> HIDE DEF r, first, matching
  <2> QED BY <1>1, <2>1, <2>3
<1> QED BY <1>2, <1>3

TypeInv ==
    /\ config \in Configurations
    /\ phase \in {"configured", "init", "failed", "ready", "captured"}
    /\ script \in {<<>>, NetemScript, GetTCCommand(net)}
    /\ tbf = NoTbf \/ (tbf.rate > 0 /\ tbf.burst > 0)
    /\ netem = NoNetem \/ netem = NetemAsked
    /\ netem.distribution # Unset => netem.jitter > 0
    /\ filter = NoFilter \/ filter = Replace(config.capture)

LEMMA ScriptLength == Len(NetemScript) <= 2 /\ Len(GetTCCommand(net)) <= 2
<1>1. NetemScript = <<>> \/ NetemScript = <<NetemCommand>>
  BY DEF NetemScript
<1>2. Unset # Malformed
  BY DEF Unset, Malformed
<1>3. GetTCCommand(net) \in {<<>>, NetemScript} \/ GetTCCommand(net) \in {<<TbfCommand>>, <<TbfCommand, NetemCommand>>}
  <2>1. GetTCCommand(net) = IF bandwidth = Malformed THEN <<>>
                            ELSE (IF bandwidth = Unset THEN <<>> ELSE <<TbfCommand>>) \o NetemScript
    BY DEF GetTCCommand, NetemScript, NetemCommand, TbfCommand, bandwidth
  <2> QED BY <1>1, <2>1, Joins
<1>4. \A x, y : Len(<<x>>) = 1 /\ Len(<<x, y>>) = 2 /\ Len(<<>>) = 0
  OBVIOUS
<1>5. Len(NetemScript) = 0 \/ Len(NetemScript) = 1
  BY <1>1, <1>4
<1>6. Len(GetTCCommand(net)) = 0 \/ Len(GetTCCommand(net)) = 1 \/ Len(GetTCCommand(net)) = 2
  BY <1>1, <1>3, <1>4
<1>7. \A k : k = 0 \/ k = 1 \/ k = 2 => k <= 2
  OBVIOUS
<1> HIDE DEF NetemScript, GetTCCommand
<1> QED BY <1>5, <1>6, <1>7

LEMMA TypeFollows == TypeInv => TypeOK
<1> SUFFICES ASSUME TypeInv PROVE TypeOK
  OBVIOUS
<1>1. config \in Configurations
  BY DEF TypeInv
<1>2. Len(script) <= 2
  <2>1. Len(<<>>) <= 2
    OBVIOUS
  <2> QED BY <2>1, ScriptLength DEF TypeInv
<1>3. netem.delay \in Nat /\ netem.jitter \in Nat /\ netem.rates \in [Rates -> Nat]
  <2>1. CASE netem = NoNetem
    BY <2>1 DEF NoNetem
  <2>2. CASE netem = NetemAsked
    <3>1. \A f \in Fields : Amount(Asked(f)) \in Nat
      BY <1>1, NetType DEF Amount, Unset, OtherZero, Malformed
    <3>2. Amount(Asked("delay")) \in Nat /\ Amount(Asked("jitter")) \in Nat /\ \A f \in Rates : Amount(Asked(f)) \in Nat
      BY <3>1 DEF Fields
    <3>3. NetemAsked.delay \in Nat /\ NetemAsked.jitter \in Nat /\ \A f \in Rates : NetemAsked.rates[f] \in Nat
      BY <1>1, <3>2, NetemAsAsked
    <3>4. NetemAsked.rates = [f \in Rates |-> NetemAsked.rates[f]]
      BY DEF NetemAsked, NoNetem, Netem
    <3>5. NetemAsked.rates \in [Rates -> Nat]
      BY <3>3, <3>4
    <3> QED BY <2>2, <3>3, <3>5
  <2> QED BY <2>1, <2>2 DEF TypeInv
<1>4. filter.pod \in {Attacker, Nobody} \cup 0..(config.capture.targets - 1)
  <2>1. NoFilter.pod = Nobody
    BY DEF NoFilter
  <2>2. Replace(config.capture).pod \in {Attacker, Nobody} \cup 0..(config.capture.targets - 1)
    BY <1>1, CaptureType, ReplacePod
  <2> QED BY <2>1, <2>2 DEF TypeInv
<1> QED BY <1>1, <1>2, <1>3, <1>4, CaptureType DEF TypeInv, TypeOK

\* Type correctness: what is in force has been accepted by tc.
THEOREM TypeCorrect == Spec => []TypeOK
<1>1. Init => TypeInv
  BY DEF Init, TypeInv, NoNetem
<1>2. ScriptInv /\ TypeInv /\ [Next]_vars => TypeInv'
  <2> SUFFICES ASSUME ScriptInv, TypeInv, [Next]_vars PROVE TypeInv'
    OBVIOUS
  <2>0. config' = config /\ net' = net /\ NetemScript' = NetemScript /\ NetemAsked' = NetemAsked
        /\ GetTCCommand(net)' = GetTCCommand(net) /\ Replace(config.capture)' = Replace(config.capture)
    <3>1. config' = config
      BY DEF Next, CreatePod, RunCommand, BecomeReady, StartCapture, vars
    <3> QED BY <3>1 DEF net, bandwidth, NetemScript, NetemCommand, NetemAsked
  <2>1. CASE CreatePod
    BY <2>0, <2>1 DEF CreatePod, TypeInv, net
  <2>2. CASE RunCommand
    <3>1. phase = "init" /\ script # <<>>
      BY <2>2 DEF RunCommand
    <3>2. \/ script = GetTCCommand(net) /\ tbf = NoTbf /\ netem = NoNetem
          \/ script = NetemScript
      BY <3>1 DEF ScriptInv
    <3>3. Unset # Malformed
      BY DEF Unset, Malformed
    <3>4. \/ Head(script) = TbfCommand /\ Tail(script) = NetemScript
          \/ needsNetem(net) /\ Head(script) = NetemCommand /\ Tail(script) = <<>>
      <4>1. NetemScript = <<>> \/ (needsNetem(net) /\ NetemScript = <<NetemCommand>>)
        BY DEF NetemScript
      <4>2. Head(<<NetemCommand>>) = NetemCommand /\ Tail(<<NetemCommand>>) = <<>>
        OBVIOUS
      <4>3. CASE script = NetemScript
        BY <3>1, <4>1, <4>2, <4>3
      <4>4. CASE script = GetTCCommand(net)
        <5>1. CASE script = NetemScript
          BY <4>3, <5>1
        <5>2. CASE script # NetemScript
          BY <3>1, <3>3, <4>4, <5>2, ScriptParts
        <5> QED BY <5>1, <5>2
      <4> QED BY <3>2, <4>3, <4>4
    <3>5. CASE ~Accepts(Head(script), tbf)
      <4>1. phase' = "failed" /\ script' = <<>> /\ UNCHANGED <<tbf, netem, filter>>
        BY <2>2, <3>5 DEF RunCommand
      <4> QED BY <2>0, <4>1 DEF TypeInv
    <3>6. CASE Accepts(Head(script), tbf) /\ Head(script) = TbfCommand /\ Tail(script) = NetemScript
      <4>1. TbfCommand.rate > 0 /\ TbfCommand.burst > 0 /\ TbfCommand.qdisc = "tbf"
        BY <3>6 DEF Accepts, TbfCommand
      <4>2. /\ script' = NetemScript /\ phase' = phase /\ filter' = filter /\ netem' = NoNetem
            /\ tbf' = [rate |-> TbfCommand.rate, burst |-> TbfCommand.burst]
        BY <2>2, <3>6, <4>1 DEF RunCommand
      <4>3. NoNetem.distribution = Unset
        BY DEF NoNetem
      <4> QED BY <2>0, <4>1, <4>2, <4>3 DEF TypeInv
    <3>7. CASE Accepts(Head(script), tbf) /\ needsNetem(net) /\ Head(script) = NetemCommand /\ Tail(script) = <<>>
      <4>1. NetemCommand.qdisc = "netem" /\ Netem(NetemCommand.arguments) = NetemAsked
        BY <3>7 DEF NetemCommand, NetemAsked
      <4>2. NetemAsked.distribution # Unset => NetemAsked.jitter > 0
        BY <3>7, <4>1 DEF Accepts, NetemCommand
      <4>3. /\ script' = <<>> /\ phase' = phase /\ filter' = filter /\ netem' = NetemAsked
            /\ tbf' = NoTbf \/ tbf' = tbf
        BY <2>2, <3>7, <4>1 DEF RunCommand
      <4> QED BY <2>0, <4>2, <4>3 DEF TypeInv
    <3> QED BY <3>4, <3>5, <3>6, <3>7
  <2>3. CASE BecomeReady
    BY <2>0, <2>3 DEF BecomeReady, TypeInv
  <2>4. CASE StartCapture
    BY <2>0, <2>4 DEF StartCapture, TypeInv
  <2>5. CASE UNCHANGED vars
    BY <2>0, <2>5 DEF vars, TypeInv
  <2> QED BY <2>1, <2>2, <2>3, <2>4, <2>5 DEF Next
<1> QED BY <1>1, <1>2, TypeFollows, ScriptInit, ScriptStep, PTL DEF Spec
=============================================================================
