--------------------------- MODULE LocalTriggers ---------------------------
(***************************************************************************)
(* The queue of local triggers: the files LocalTriggerStore keeps           *)
(* (triggers/local_store.py) and the gateway task that turns them into      *)
(* session turns (triggers/local_runner.py).  `nanobot trigger` accepts a   *)
(* message as a file of inbox/; the gateway claims a batch by renaming the  *)
(* files into processing/, submits one turn at a time and unlinks the file. *)
(*                                                                          *)
(* A step is what runs between two awaits, or a crash between two file      *)
(* operations of such a step.  Every method of the store holds the file     *)
(* lock, so another process acts before or after it, never in the middle.   *)
(* A delivery is a number: the order of the files' names.  The turn itself  *)
(* is the agent's (AgentLoop); here it ends well, ends badly, or never ends. *)
(***************************************************************************)
EXTENDS Naturals, FiniteSets

CONSTANTS
  Trigger,      \* trigger ids; a deleted id does not come back
  Delivery,     \* deliveries, in the order of their file names
  Target,       \* [Delivery -> Trigger]: trigger_id of a delivery
  BatchSize,    \* batch_size of run_local_trigger_queue
  MaxAttempts,  \* _MAX_DELIVERY_ATTEMPTS
  MaxFaults,    \* bound on crashes, shutdowns and failing file operations
  MaxEdits      \* bound on enable, disable and delete

ASSUME LocalTriggersAssumption ==
  /\ Delivery \subseteq Nat
  /\ IsFiniteSet(Delivery)
  /\ Target \in [Delivery -> Trigger]
  /\ BatchSize \in Nat \ {0}
  /\ MaxAttempts \in Nat \ {0}
  /\ MaxFaults \in Nat
  /\ MaxEdits \in Nat

VARIABLES
  trigger,    \* triggers.json: "none", "on", "off" or "gone"
  inbox,      \* inbox/: the attempts written in each delivery file
  processing, \* processing/, the same
  failed,     \* failed/, the same
  pc,         \* where run_local_trigger_queue stands
  batch,      \* the claimed deliveries it has still to handle, with attempts
  audit,      \* runs/: the status of a delivery's run record
  turns,      \* turns submitted for a delivery (history)
  ended,      \* deliveries one of whose turns ended, well or badly (history)
  unsettled,  \* those of them a fault kept from being unlinked (history)
  unrecorded, \* deliveries whose latest run record was not written (history)
  faults, edits

dirs    == <<inbox, processing, failed>>
history == <<turns, ended, unsettled, unrecorded>>
vars == <<trigger, dirs, pc, batch, audit, history, faults, edits>>

\* The contents of a directory.
Files == UNION {[D -> 0..MaxAttempts] : D \in SUBSET Delivery}

\* "claim": at the top of the loop.  "next": at the head of the batch.
\* "turn": the turn is submitted.  "ok", "error": it has ended, and the task
\* has not run since.
PC == {"down", "claim", "asleep", "next", "turn", "ok", "error"}

\* "none": not enqueued.  "missing": enqueued, without a record yet.
Status == {"none", "missing", "queued", "processing", "retrying", "interrupted", "ok", "error"}

TypeOK ==
  /\ trigger \in [Trigger -> {"none", "on", "off", "gone"}]
  /\ inbox \in Files
  /\ processing \in Files
  /\ failed \in Files
  /\ pc \in PC
  /\ batch \in Files
  /\ audit \in [Delivery -> Status]
  /\ turns \in [Delivery -> Nat]
  /\ ended \subseteq Delivery
  /\ unsettled \subseteq Delivery
  /\ unrecorded \subseteq Delivery
  /\ faults \in 0..MaxFaults
  /\ edits \in 0..MaxEdits

NoFiles == [d \in {} |-> 0]

Init ==
  /\ trigger = [t \in Trigger |-> "none"]
  /\ inbox = NoFiles
  /\ processing = NoFiles
  /\ failed = NoFiles
  /\ pc = "down"
  /\ batch = NoFiles
  /\ audit = [d \in Delivery |-> "none"]
  /\ turns = [d \in Delivery |-> 0]
  /\ ended = {}
  /\ unsettled = {}
  /\ unrecorded = {}
  /\ faults = 0
  /\ edits = 0

-----------------------------------------------------------------------------
Without(dir, D) == [d \in DOMAIN dir \ D |-> dir[d]]
Only(dir, D)    == [d \in DOMAIN dir \cap D |-> dir[d]]
Written(dir, new) ==
  [d \in DOMAIN dir \cup DOMAIN new |-> IF d \in DOMAIN new THEN new[d] ELSE dir[d]]

\* The first k names of a set of deliveries.
FirstNames(D, k) == {d \in D : Cardinality({e \in D : e < d}) < k}

cur == CHOOSE d \in DOMAIN batch : \A e \in DOMAIN batch : d <= e

Of(t) == {d \in Delivery : Target[d] = t}

\* Points where the gateway's event loop may run something else.
Awaits == {"asleep", "turn", "ok", "error"}

\* _retry_delivery_unlocked for the deliveries D with attempts n: each is
\* written to inbox/, or to failed/ at the limit, and unlinked from processing/,
\* except those a crash leaves there (kept).
Retry_DropsAtLimit(D, n, kept) ==  \* mutant
  /\ inbox' = Written(inbox, [d \in {x \in D : n[x] + 1 < MaxAttempts} |-> n[d] + 1])
  /\ failed' = failed
  /\ processing' = Without(processing, D \ kept)
Retry(D, n, kept) ==
  LET tried(S) == [d \in S |-> n[d] + 1]
      again == {d \in D : n[d] + 1 < MaxAttempts}
  IN /\ inbox' = Written(inbox, tried(again))
     /\ failed' = Written(failed, tried(D \ again))
     /\ processing' = Without(processing, D \ kept)

Fault == /\ faults < MaxFaults
         /\ faults' = faults + 1

\* The task is gone, with what it held in memory.
Down == /\ pc' = "down"
        /\ batch' = NoFiles
        /\ unsettled' = IF pc \in {"ok", "error"} THEN unsettled \cup {cur} ELSE unsettled

Recorded(d, status) ==
  /\ audit' = [audit EXCEPT ![d] = status]
  /\ unrecorded' = unrecorded \ {d}

\* _write_delivery_run_record only logs a failing write: the record keeps a
\* status it had before.
Unrecorded(d, status) ==
  /\ audit' = [audit EXCEPT ![d] = status]
  /\ unrecorded' = unrecorded \cup {d}

Noted(d, status) ==
  \/ Recorded(d, status) /\ UNCHANGED faults
  \/ Unrecorded(d, audit[d]) /\ Fault

-----------------------------------------------------------------------------
(* Other callers of the store.                                             *)

\* create, from the /trigger command.
Create(t) ==
  /\ trigger[t] = "none"
  /\ trigger' = [trigger EXCEPT ![t] = "on"]
  /\ UNCHANGED <<dirs, pc, batch, audit, history, faults, edits>>

\* enqueue, in the process of `nanobot trigger`.  If the record cannot be
\* written the file is unlinked again and nothing was accepted.
Accepted(d, status) ==
  /\ audit[d] = "none"
  /\ trigger[Target[d]] = "on"
  /\ inbox' = Written(inbox, [x \in {d} |-> 0])
  /\ Recorded(d, status)
  /\ UNCHANGED <<trigger, processing, failed, pc, batch, turns, ended, unsettled, edits>>

Enqueue(d) ==
  /\ Accepted(d, "queued")
  /\ UNCHANGED faults

\* That process dies between the file and the record.
CrashInEnqueue(d) ==
  /\ Fault
  /\ Accepted(d, "missing")

\* enable, from the WebUI the gateway serves.
Enable(t, enabled) ==
  /\ pc \in Awaits
  /\ edits < MaxEdits
  /\ trigger[t] \in {"on", "off"} \ {enabled}
  /\ trigger' = [trigger EXCEPT ![t] = enabled]
  /\ edits' = edits + 1
  /\ UNCHANGED <<dirs, pc, batch, audit, history, faults>>

\* delete: the trigger is saved away first, then its files are unlinked,
\* directory by directory; a crash may come after any of the three.
Deletion(t, cleaned) ==
  /\ pc \in Awaits
  /\ edits < MaxEdits
  /\ trigger[t] \in {"on", "off"}
  /\ trigger' = [trigger EXCEPT ![t] = "gone"]
  /\ inbox' = IF cleaned >= 1 THEN Without(inbox, Of(t)) ELSE inbox
  /\ processing' = IF cleaned >= 2 THEN Without(processing, Of(t)) ELSE processing
  /\ failed' = IF cleaned >= 3 THEN Without(failed, Of(t)) ELSE failed
  /\ edits' = edits + 1
  /\ UNCHANGED <<audit, turns, ended, unrecorded>>

Delete(t) ==
  /\ Deletion(t, 3)
  /\ UNCHANGED <<pc, batch, unsettled, faults>>

CrashInDelete(t) ==
  /\ Fault
  /\ Down
  /\ \E cleaned \in 0..2 : Deletion(t, cleaned)

-----------------------------------------------------------------------------
(* run_local_trigger_queue.                                                *)

\* recover_processing_deliveries, at the start of the gateway.
Start_NotCounted ==  \* mutant
  /\ pc = "down"
  /\ inbox' = Written(inbox, processing)
  /\ processing' = NoFiles
  /\ pc' = "claim"
  /\ UNCHANGED <<trigger, failed, batch, audit, history, faults, edits>>
Start_NoRecovery ==  \* mutant
  /\ pc = "down"
  /\ pc' = "claim"
  /\ UNCHANGED <<trigger, dirs, batch, audit, history, faults, edits>>
Start ==
  /\ pc = "down"
  /\ Retry(DOMAIN processing, processing, {})
  /\ pc' = "claim"
  /\ UNCHANGED <<trigger, batch, audit, history, faults, edits>>

\* A start that dies in the recovery: it goes through the files in order, and
\* the last one it wrote may still be in processing/.
CrashInStart ==
  /\ pc = "down"
  /\ Fault
  /\ \E k \in 1..Cardinality(DOMAIN processing) :
       LET D == FirstNames(DOMAIN processing, k)
       IN \E kept \in {{}, D \ FirstNames(D, k - 1)} : Retry(D, processing, kept)
  /\ UNCHANGED <<trigger, pc, batch, audit, history, edits>>

\* claim_deliveries, as far as it gets.
Claimed(D) ==
  /\ inbox' = Without(inbox, D)
  /\ processing' = Written(processing, Only(inbox, D))
  /\ UNCHANGED <<trigger, failed, audit, turns, ended, unrecorded, edits>>

Claim ==
  /\ pc = "claim"
  /\ DOMAIN inbox # {}
  /\ LET D == FirstNames(DOMAIN inbox, BatchSize)
     IN /\ Claimed(D)
        /\ batch' = Only(inbox, D)
  /\ pc' = "next"
  /\ UNCHANGED <<unsettled, faults>>

CrashInClaim ==
  /\ pc = "claim"
  /\ Fault
  /\ \E k \in 1..BatchSize : Claimed(FirstNames(DOMAIN inbox, k))
  /\ Down

\* Nothing to claim: the poll interval.
Sleep ==
  /\ pc = "claim"
  /\ DOMAIN inbox = {}
  /\ pc' = "asleep"
  /\ UNCHANGED <<trigger, dirs, batch, audit, history, faults, edits>>

Wake ==
  /\ pc = "asleep"
  /\ pc' = "claim"
  /\ UNCHANGED <<trigger, dirs, batch, audit, history, faults, edits>>

BatchDone ==
  /\ pc = "next"
  /\ DOMAIN batch = {}
  /\ pc' = "claim"
  /\ UNCHANGED <<trigger, dirs, batch, audit, history, faults, edits>>

\* The next iteration of the for loop.
Handled ==
  /\ pc' = "next"
  /\ batch' = Without(batch, {cur})

\* complete_delivery.
Complete == processing' = Without(processing, {cur})

Current == pc = "next" /\ DOMAIN batch # {}

\* _deliver_delivery up to submit_turn.
Submit ==
  /\ Current
  /\ trigger[Target[cur]] = "on"
  /\ Recorded(cur, "processing")
  /\ turns' = [turns EXCEPT ![cur] = @ + 1]
  /\ pc' = "turn"
  /\ UNCHANGED <<trigger, dirs, batch, ended, unsettled, faults, edits>>

\* _TerminalDeliveryError: the trigger is gone or disabled.
Drop_NotRecorded ==  \* mutant
  /\ Current
  /\ trigger[Target[cur]] # "on"
  /\ Complete
  /\ Handled
  /\ UNCHANGED <<trigger, inbox, failed, audit, history, faults, edits>>
Drop ==
  /\ Current
  /\ trigger[Target[cur]] # "on"
  /\ Noted(cur, "error")
  /\ Complete
  /\ Handled
  /\ UNCHANGED <<trigger, inbox, failed, turns, ended, unsettled, edits>>

\* The agent answers the future of submit_turn: a response or an
\* AutomationTurnError.
TurnEnds(outcome) ==
  /\ pc = "turn"
  /\ pc' = outcome
  /\ ended' = ended \cup {cur}
  /\ UNCHANGED <<trigger, dirs, batch, audit, turns, unsettled, unrecorded, faults, edits>>

\* The task goes on after the turn: the record, then complete_delivery.
Settle_RetriesError ==  \* mutant
  /\ pc \in {"ok", "error"}
  /\ Recorded(cur, pc)
  /\ IF pc = "ok"
     THEN Complete /\ UNCHANGED <<inbox, failed>>
     ELSE Retry({cur}, batch, {})
  /\ Handled
  /\ UNCHANGED <<trigger, turns, ended, unsettled, faults, edits>>
Settle ==
  /\ pc \in {"ok", "error"}
  /\ Noted(cur, pc)
  /\ Complete
  /\ Handled
  /\ UNCHANGED <<trigger, inbox, failed, turns, ended, unsettled, edits>>

\* `except Exception`: a file operation before the turn, or after a turn that
\* ended well, fails.  In the latter case the record may say "ok" already.
Fails ==
  /\ Current \/ pc = "ok"
  /\ Fault
  /\ Retry({cur}, batch, {})
  /\ \/ Recorded(cur, IF cur \in DOMAIN failed' THEN "error" ELSE "retrying")
     \/ \E status \in {audit[cur]} \cup ({pc} \cap {"ok"}) : Unrecorded(cur, status)
  /\ Handled
  /\ unsettled' = IF pc = "ok" THEN unsettled \cup {cur} ELSE unsettled
  /\ UNCHANGED <<trigger, turns, ended, edits>>

\* CancelledError at an await: the gateway shuts down.  Only the delivery in
\* progress is given back.
Shutdown ==
  /\ pc \in Awaits
  /\ Fault
  /\ IF pc = "asleep"
     THEN UNCHANGED <<dirs, audit, unrecorded>>
     ELSE /\ Retry({cur}, batch, {})
          /\ Recorded(cur, "interrupted") \/ Unrecorded(cur, audit[cur])
  /\ Down
  /\ UNCHANGED <<trigger, turns, ended, edits>>

\* The process dies; or an exception leaves the loop, which ends the gateway.
Crash ==
  /\ pc # "down"
  /\ Fault
  /\ Down
  /\ UNCHANGED <<trigger, dirs, audit, turns, ended, unrecorded, edits>>

\* The process dies while it gives the delivery in progress back: after the
\* file it writes, or after the one it unlinks and before the record.
CrashInRetry ==
  /\ Current \/ pc \in {"turn", "ok", "error"}
  /\ Fault
  /\ \E kept \in {{}, {cur}} : Retry({cur}, batch, kept)
  /\ Down
  /\ UNCHANGED <<trigger, audit, turns, ended, unrecorded, edits>>

\* It dies after the record of what Drop or Settle finishes, before its file
\* is unlinked.
CrashBeforeUnlink ==
  /\ Fault
  /\ \/ Current /\ trigger[Target[cur]] # "on" /\ Recorded(cur, "error")
     \/ pc \in {"ok", "error"} /\ Recorded(cur, pc)
  /\ Down
  /\ UNCHANGED <<trigger, dirs, turns, ended, edits>>

-----------------------------------------------------------------------------
Callers ==
  \/ \E t \in Trigger : Create(t) \/ Delete(t) \/ CrashInDelete(t)
  \/ \E t \in Trigger, enabled \in {"on", "off"} : Enable(t, enabled)
  \/ \E d \in Delivery : Enqueue(d) \/ CrashInEnqueue(d)

Loop == Start \/ Claim \/ Sleep \/ Wake \/ BatchDone \/ Submit \/ Drop \/ Settle

Agent == TurnEnds("ok") \/ TurnEnds("error")

Faults ==
  \/ CrashInStart \/ CrashInClaim \/ Fails \/ Shutdown \/ Crash \/ CrashInRetry
  \/ CrashBeforeUnlink

Next == Callers \/ Loop \/ Agent \/ Faults

Spec == Init /\ [][Next]_vars

\* The event loop runs a task that can go on, and a gateway is started again.
\* That the agent answers is not assumed: TurnsReturn says so where it matters.
FairSpec == Spec /\ WF_vars(Loop)

-----------------------------------------------------------------------------
Pending == DOMAIN inbox \cup DOMAIN processing

\* The file of a delivery, and the attempts written in it.  A crash may leave a
\* second copy in processing/, which is the older one.
Place(d) ==
  IF trigger[Target[d]] = "gone" THEN "void"
  ELSE IF audit[d] = "none" THEN "new"
  ELSE IF d \in DOMAIN failed THEN "failed"
  ELSE IF d \in Pending THEN "waiting" ELSE "settled"
Tries(d) ==
  IF Place(d) # "waiting" THEN 0
  ELSE IF d \in DOMAIN inbox THEN inbox[d] ELSE processing[d]

Queue == INSTANCE DeliveryQueue WITH
  place   <- [d \in Delivery |-> Place(d)],
  tries   <- [d \in Delivery |-> Tries(d)],
  serving <- IF pc = "turn" THEN {cur} ELSE {}

\* The files, their renaming and rewriting, the recovery, and crashes between any
\* two of those keep what DeliveryQueue promises: no accepted message is lost, no
\* turn is submitted but of a waiting message whose trigger is on, and again only
\* after the message was put back, up to the limit (enqueue,
\* claim_deliveries, _retry_delivery_unlocked, recover_processing_deliveries).
ImplementsQueue == Queue!Spec

\* The attempt limit holds across restarts: a message is submitted at most
\* MaxAttempts times, and a copy of it that may still be submitted counts every
\* turn it has had (_retry_delivery_unlocked, recover_processing_deliveries).
AttemptsCoverTurns ==
  \A d \in Delivery :
    /\ turns[d] <= MaxAttempts
    /\ d \in DOMAIN inbox => turns[d] <= inbox[d]

\* A message given up is given up: what is in failed/ is not waiting in inbox/,
\* not even when a crash left two copies of it (_retry_delivery_unlocked).  A run
\* record says "ok" only if a turn of the message has ended, and one whose file
\* is gone has a final record, whatever crashed before: only a record that could
\* not be written, which is no more than logged, leaves an earlier one
\* (run_local_trigger_queue, _write_delivery_run_record).
SettledIsRecorded ==
  \A d \in Delivery :
    /\ d \in DOMAIN failed => d \notin DOMAIN inbox
    /\ audit[d] = "ok" => d \in ended
    /\ audit[d] # "none" /\ trigger[Target[d]] # "gone" /\ d \notin Pending \cup DOMAIN failed
         => audit[d] \in {"ok", "error"} \/ d \in unrecorded

\* Once a turn of a message has ended, well or badly, the message is submitted
\* again only if a fault came before its file was unlinked
\* (run_local_trigger_queue: a failed turn is not retried).
NoNeedlessRepeat ==
  [][\A d \in ended \ unsettled : turns'[d] = turns[d]]_vars

\* Every message is settled, by a turn, by its trigger or by the attempt limit,
\* if every turn returns and the gateway does not stay down
\* (run_local_trigger_queue).
TurnsReturn == []<>(pc # "turn")
GatewayRestarts == []<>(pc # "down")
EventuallySettled ==
  TurnsReturn /\ GatewayRestarts => \A d \in Delivery : d \in DOMAIN inbox ~> d \notin Pending
=============================================================================
