--------------------------- MODULE MCAttackCommand ---------------------------
(***************************************************************************)
(* Instance of AttackCommand for TLC: attacks of up to two commands out of *)
(* a few kinds, with each kind of atkTime.                                 *)
(***************************************************************************)
EXTENDS AttackCommand

\* A program that writes two lines and ends well, and what the others differ in.
Scan == [word |-> "program", background |-> FALSE, holds |-> TRUE, lines |-> 2,
         ends |-> TRUE, status |-> 0, obeys |-> TRUE]

Kinds ==
    {Scan,
     [Scan EXCEPT !.status = 1, !.lines = 0],
     [Scan EXCEPT !.obeys = FALSE, !.lines = 1],
     [Scan EXCEPT !.ends = FALSE, !.lines = 1],
     [Scan EXCEPT !.background = TRUE],
     [Scan EXCEPT !.background = TRUE, !.ends = FALSE],
     [Scan EXCEPT !.background = TRUE, !.ends = FALSE, !.holds = FALSE, !.lines = 0],
     [Scan EXCEPT !.word = "builtin", !.lines = 0],
     [Scan EXCEPT !.word = "keyword", !.ends = FALSE]}

AllAttacks ==
    [commands : UNION {[1..n -> Kinds] : n \in 0..2}, comment : {FALSE}, time : {NoTime, 500, 1500, -1500}]
    \cup [commands : {<<>>, <<Scan>>}, comment : {TRUE}, time : {NoTime, 1500}]
=============================================================================
