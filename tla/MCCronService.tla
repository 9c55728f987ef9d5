--------------------------- MODULE MCCronService ---------------------------
(***************************************************************************)
(* Instances of CronService for TLC: the name of a job is its kind.         *)
(***************************************************************************)
EXTENDS CronService

MCKind == [j \in Job |-> CASE j = "once" -> "once" [] j = "keep" -> "keep" [] OTHER -> "every"]

(* A gateway with no jobs of its own, and one with a recurring one, each beside
   one-time jobs of others. *)
MCCasts == {[own |-> {}, users |-> {"once", "daily"}],
            [own |-> {"daily"}, users |-> {"once"}],
            [own |-> {"daily"}, users |-> {"keep"}]}
=============================================================================
