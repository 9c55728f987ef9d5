---------------------------- MODULE MCAgentLoop ----------------------------
(***************************************************************************)
(* Instances of AgentLoop for TLC.  A configuration picks its messages from *)
(* the names below; the name says the session, the origin and the command.  *)
(***************************************************************************)
EXTENDS AgentLoop

\* The messages of the second session; all others belong to the first.
MCSessionOf ==
  [m \in Message |-> IF m \in {"other", "otherStop"} THEN "s2" ELSE "s1"]

MCAutomation == Message \cap {"auto1", "auto2", "autoStatus"}
MCDirect     == Message \cap {"sdk"}

MCCommand ==
  [m \in Message |-> CASE m \in {"stop", "otherStop"} -> "stop"
                       [] m = "autoStatus" -> "status"
                       [] m = "new" -> "new"
                       [] m = "goal" -> "goal"
                       [] OTHER -> "none"]
=============================================================================
