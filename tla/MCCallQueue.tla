---------------------------- MODULE MCCallQueue ----------------------------
(* Values for TLC: two processes, and calls of two priorities. *)
EXTENDS CallQueue

CONSTANTS c1, c2, c3

ThreeCalls == {c1, c2, c3}

(* Three calls on their own, or two among faults and other processes. *)
MCBounds ==
    {[callers |-> {c1, c2, c3}, faults |-> 0, others |-> 0],
     [callers |-> {c1, c3}, faults |-> 1, others |-> 1]}

(* The third call overtakes the others. *)
ThirdFirst == [c \in Calls |-> IF c = c3 THEN 0 ELSE 1]
=============================================================================
