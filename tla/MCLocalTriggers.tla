-------------------------- MODULE MCLocalTriggers --------------------------
(***************************************************************************)
(* Instances of LocalTriggers for TLC.                                      *)
(***************************************************************************)
EXTENDS LocalTriggers

\* The first trigger gets every message but the last one.
MCTarget == [d \in Delivery |-> IF d + 1 \in Delivery THEN "t1" ELSE "t2"]
MCSameTarget == [d \in Delivery |-> "t1"]
=============================================================================
