-------------------------- MODULE SessionService --------------------------
(***************************************************************************)
(* What the dispatcher of agent/loop.py promises, without its tasks, locks  *)
(* and queues: "per-session serial, cross-session concurrent".              *)
(*                                                                          *)
(* A message is accepted, waits, and then either gets a turn of its own or  *)
(* is folded into the running turn of its session, and is finished once,    *)
(* with that turn.  A turn may give way to a continuation of itself.  Only  *)
(* a /stop or /new of its own session takes a waiting message away.         *)
(***************************************************************************)
EXTENDS Naturals, FiniteSets

CONSTANTS
  Message, Session, SessionOf, Automation, Direct,  \* as in AgentLoop
  Commands,   \* messages that spell a command
  Stopping,   \* those of them that spell /stop or /new
  Slots       \* how many dispatched turns may run at a time

VARIABLES
  status,   \* "unsent", "queued", "serving", "folded" or a final result
  host      \* the turns a folded message was folded into

vars == <<status, host>>

Final == {"served", "failed", "cancelled", "dropped"}

TypeOK ==
  /\ status \in [Message -> {"unsent", "queued", "serving", "folded"} \cup Final]
  /\ host \in [Message -> SUBSET Message]

Init ==
  /\ status = [m \in Message |-> "unsent"]
  /\ host = [m \in Message |-> {}]

In(st) == {m \in Message : status[m] = st}
FoldedInto(t) == {m \in Message : t \in host[m]}

\* The waiting messages of a session, and those a turn of it may take.
Waiting(s)   == {m \in In("queued") : SessionOf[m] = s}
FollowUps(s) == Waiting(s) \ Automation

StopSent(s) == \E c \in Stopping : SessionOf[c] = s /\ status[c] # "unsent"

Become(change) == status' = [m \in Message |-> IF m \in DOMAIN change THEN change[m] ELSE status[m]]

\* A channel, an automation or an API caller hands a message over.
Accept(m) ==
  /\ status[m] = "unsent"
  /\ Become([x \in {m} |-> "queued"])
  /\ UNCHANGED host

\* A turn starts: it is the only one of its session, and one of few.
Serve(m) ==
  /\ status[m] \in {"queued", "unsent"}
  /\ status[m] = "unsent" => m \in Direct
  /\ \A n \in In("serving") : SessionOf[n] # SessionOf[m]
  /\ m \notin Direct => Cardinality(In("serving") \ Direct) < Slots
  /\ Become([x \in {m} |-> "serving"])
  /\ UNCHANGED host

\* A running turn takes waiting follow-ups of its session, never automations.
Fold(t, F) ==
  /\ status[t] = "serving"
  /\ t \notin Direct
  /\ F # {}
  /\ Become([x \in F |-> "folded"])
  /\ host' = [m \in Message |-> IF m \in F THEN {t} ELSE host[m]]

\* A turn ends, and with it everything folded into it.
Settle(t, result) ==
  /\ status[t] = "serving"
  /\ \/ result \in {"served", "failed"}
     \/ result = "cancelled" /\ StopSent(SessionOf[t])
  /\ Become([x \in {t} \cup FoldedInto(t) |-> result])
  /\ host' = [m \in Message |-> IF t \in host[m] THEN {} ELSE host[m]]

\* A slice ends and its continuation waits like any other message.
Requeue(t) ==
  /\ status[t] = "serving"
  /\ t \notin Direct
  /\ Become([x \in {t} \cup FoldedInto(t) |-> IF x = t THEN "queued" ELSE "served"])
  /\ host' = [m \in Message |-> IF t \in host[m] THEN {} ELSE host[m]]

\* A waiting message is finished without a turn: it was a command run on the
\* spot, or a direct call given up, or /stop and /new took it away.
Withdraw(m, result, F) ==
  /\ status[m] = "queued"
  /\ \/ result = "served" /\ m \in Commands
     \/ result = "failed" /\ m \in Direct
     \/ result = "cancelled" /\ StopSent(SessionOf[m])
  /\ F # {} => m \in Stopping /\ m \notin F
  /\ Become([x \in {m} \cup F |-> IF x = m THEN result ELSE "dropped"])
  /\ UNCHANGED host

Next ==
  \E m \in Message :
    \/ Accept(m)
    \/ Serve(m)
    \/ Requeue(m)
    \/ \E result \in Final : Settle(m, result)
    \/ \E F \in SUBSET FollowUps(SessionOf[m]) : Fold(m, F)
    \/ \E F \in SUBSET Waiting(SessionOf[m]), result \in Final : Withdraw(m, result, F)

Spec == Init /\ [][Next]_vars
=============================================================================
