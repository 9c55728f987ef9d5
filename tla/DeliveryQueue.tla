--------------------------- MODULE DeliveryQueue ---------------------------
(***************************************************************************)
(* What the queue of local triggers promises its callers, without its       *)
(* files and its process: an accepted message waits until it is settled.    *)
(* It gets a turn, one message at a time, and is put back when something    *)
(* went wrong, so it may get several, but none without being put back in    *)
(* between, and no more than a limit.  It is settled by a turn that ended,  *)
(* by the limit, or because its trigger is off or gone.                     *)
(***************************************************************************)
EXTENDS Naturals

CONSTANTS
  Trigger, Delivery, Target, MaxAttempts  \* as in LocalTriggers

VARIABLES
  trigger,  \* "none", "on", "off" or "gone"
  place,    \* "new", "waiting", "failed", "settled"; "void" with its trigger
  tries,    \* how often a waiting message was put back
  serving,  \* {d} while a turn of d runs, otherwise {}
  turns,    \* turns begun for a delivery
  ended     \* deliveries one of whose turns has ended

vars == <<trigger, place, tries, serving, turns, ended>>

Init ==
  /\ trigger = [t \in Trigger |-> "none"]
  /\ place = [d \in Delivery |-> "new"]
  /\ tries = [d \in Delivery |-> 0]
  /\ serving = {}
  /\ turns = [d \in Delivery |-> 0]
  /\ ended = {}

Waiting == {d \in Delivery : place[d] = "waiting"}
Of(t)   == {d \in Delivery : Target[d] = t}

Moved(D, p) == place' = [d \in Delivery |-> IF d \in D THEN p ELSE place[d]]
Reset(D)    == tries' = [d \in Delivery |-> IF d \in D THEN 0 ELSE tries[d]]

\* The gateway may stop at any moment, and the turn it awaits with it.
MayStop == serving' \in {serving, {}}

Create(t) ==
  /\ trigger[t] = "none"
  /\ trigger' = [trigger EXCEPT ![t] = "on"]
  /\ UNCHANGED <<place, tries, serving, turns, ended>>

Switch(t) ==
  /\ \/ trigger[t] = "on"  /\ trigger' = [trigger EXCEPT ![t] = "off"]
     \/ trigger[t] = "off" /\ trigger' = [trigger EXCEPT ![t] = "on"]
  /\ UNCHANGED <<place, tries, serving, turns, ended>>

\* A trigger takes its messages with it.
Delete(t) ==
  /\ trigger[t] \in {"on", "off"}
  /\ trigger' = [trigger EXCEPT ![t] = "gone"]
  /\ Moved(Of(t), "void")
  /\ Reset(Of(t))
  /\ MayStop
  /\ UNCHANGED <<turns, ended>>

Accept(d) ==
  /\ place[d] = "new"
  /\ trigger[Target[d]] = "on"
  /\ Moved({d}, "waiting")
  /\ UNCHANGED <<trigger, tries, serving, turns, ended>>

\* A turn begins: the message was put back after each it had.
Serve(d) ==
  /\ serving = {}
  /\ d \in Waiting
  /\ trigger[Target[d]] = "on"
  /\ turns[d] <= tries[d]
  /\ serving' = {d}
  /\ turns' = [turns EXCEPT ![d] = @ + 1]
  /\ UNCHANGED <<trigger, place, tries, ended>>

End(d) ==
  /\ serving = {d}
  /\ serving' = {}
  /\ ended' = ended \cup {d}
  /\ UNCHANGED <<trigger, place, tries, turns>>

Settle(d) ==
  /\ d \in Waiting
  /\ d \notin serving
  /\ d \in ended \/ trigger[Target[d]] # "on"
  /\ Moved({d}, "settled")
  /\ Reset({d})
  /\ UNCHANGED <<trigger, serving, turns, ended>>

\* The gateway fails, stops or recovers: messages are put back, for good when
\* it is for the MaxAttempts-th time.
PutBack(D) ==
  LET spent == {d \in D : tries[d] + 1 >= MaxAttempts} IN
  /\ Moved(spent, "failed")
  /\ tries' = [d \in Delivery |-> IF d \in spent THEN 0
                                  ELSE IF d \in D THEN tries[d] + 1 ELSE tries[d]]
  /\ serving' = {}
  /\ UNCHANGED <<trigger, turns, ended>>

Next ==
  \/ \E t \in Trigger : Create(t) \/ Switch(t) \/ Delete(t)
  \/ \E d \in Delivery : Accept(d) \/ Serve(d) \/ End(d) \/ Settle(d)
  \/ \E D \in SUBSET Waiting : PutBack(D)

Spec == Init /\ [][Next]_vars
=============================================================================
