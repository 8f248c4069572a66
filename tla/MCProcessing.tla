---------------------------- MODULE MCProcessing ----------------------------
(***************************************************************************)
(* Instance of Processing for TLC.  Target b-c of the multi-target         *)
(* scenario a and target c of the single-target scenario a-b share a name  *)
(* in the pod; the two targets of the multi-target scenario x share theirs *)
(* with nobody.                                                            *)
(***************************************************************************)
EXTENDS Processing

CONSTANTS s1, s2, s3

Names == [s \in {s1, s2, s3} |->
            CASE s = s1 -> <<"a">> [] s = s2 -> <<"a", "b">> [] s = s3 -> <<"x">>]
Targets == [s \in {s1, s2, s3} |->
            CASE s = s1 -> <<<<"b", "c">>>> [] s = s2 -> <<<<"c">>>> [] s = s3 -> <<<<"c">>, <<"d">>>>]
=============================================================================
