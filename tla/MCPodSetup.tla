----------------------------- MODULE MCPodSetup -----------------------------
(***************************************************************************)
(* Instance of PodSetup for TLC: every combination of a few values of the  *)
(* settings, and the placeholders of scenarios with up to twelve targets.  *)
(***************************************************************************)
EXTENDS PodSetup

Nothing == [f \in Fields |-> Unset]

Variants(bandwidths, delays, jitters, distributions, losses) ==
    {[Nothing EXCEPT !["bandwidth"] = b, !["delay"] = d, !["jitter"] = j,
                     !["distribution"] = i, !["loss"] = l] :
        b \in bandwidths, d \in delays, j \in jitters, i \in distributions, l \in losses}

MCNetworks ==
    Variants({Unset, 10000000}, {Unset, 20}, {Unset, 2}, {Unset, 1}, {Unset, 3})
    \X Variants({Unset, Malformed, 0, 800, 1000000, 2400000}, {Unset, 0, OtherZero, 10},
                {Unset, 0, OtherZero, 1}, {Unset, 2}, {Unset, 0, 5})

OneCapture == [targets |-> 2, single |-> FALSE, self |-> 1, text |-> IndexedIp(0)]

ManyCaptures ==
    {[targets |-> 1, single |-> TRUE, self |-> 0, text |-> t] : t \in {AttackerIp, TargetIp, IndexedIp(0)}}
    \cup {[targets |-> n, single |-> FALSE, self |-> s, text |-> t] :
             n \in {1, 3}, s \in {0}, t \in {AttackerIp, TargetIp} \cup {IndexedIp(i) : i \in 0..3}}
    \cup {[targets |-> 12, single |-> FALSE, self |-> s, text |-> t] :
             s \in {1, 11}, t \in {AttackerIp, TargetIp} \cup {IndexedIp(i) : i \in 0..12}}

\* Not every network with every capture: they do not meet.
MCConfigurations ==
    {[base |-> n[1], own |-> n[2], capture |-> OneCapture] : n \in MCNetworks}
    \cup {[base |-> Nothing, own |-> Nothing, capture |-> c] : c \in ManyCaptures}
=============================================================================
