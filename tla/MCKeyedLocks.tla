---------------------------- MODULE MCKeyedLocks ----------------------------
(***************************************************************************)
(* Instances of KeyedLocks for TLC.  A task is named after its process and *)
(* the keys it lists: the two ends of a relation, or one entity.           *)
(***************************************************************************)
EXTENDS KeyedLocks

MCWanted ==
  [t \in Task |-> CASE t \in {"p12", "q12", "r12"} -> <<1, 2>>
                    [] t \in {"p21", "q21"} -> <<2, 1>>
                    [] t \in {"p1", "q1"} -> <<1>>
                    [] t \in {"p2", "q2"} -> <<2>>
                    [] t = "p11" -> <<1, 1>>]

MCProcessOf ==
  [t \in Task |-> CASE t \in {"p12", "p21", "p1", "p2", "p11"} -> "p"
                    [] t \in {"q12", "q21", "q1", "q2"} -> "q"
                    [] t = "r12" -> "r"]
=============================================================================
