------------------------ MODULE PipelineReservations ------------------------
(***************************************************************************)
(* How the workers of the LightRAG server share the document pipeline:     *)
(* the flags and owners of pipeline_status, and the tasks that take, hand  *)
(* over and release them. A step is one critical section under             *)
(* pipeline_status_lock, or what a task does between two of them.          *)
(***************************************************************************)
EXTENDS Naturals, FiniteSets

CONSTANTS
    Tasks,        \* requests and SDK calls; a task is also its reservation token
    Workers,      \* server processes
    Casts,        \* the choices of what each task does
    Worker,       \* the process a task runs in
    Mortal,       \* the processes that may be killed
    NoTask,       \* no owner
    MaxFaults,    \* bound on interrupted tasks, failing writes and cancellations
    MaxResets     \* bound on /documents/recovery/force_reset

Kinds == {"upload", "insert", "scan", "clear", "delete", "deleteOne", "custom", "reprocess"}

ASSUME ConstantsAssumption ==
    /\ Casts \subseteq [Tasks -> Kinds]
    /\ Worker \in [Tasks -> Workers]
    /\ Mortal \subseteq Workers
    /\ NoTask \notin Tasks
    /\ MaxFaults \in Nat /\ MaxResets \in Nat

VARIABLES
    kind,      \* what each task does; it never changes
    ps,        \* pipeline_status, the dictionary every worker shares
    docs,      \* doc_status: the row of the document a task enqueues
    pc,        \* where each task stands
    todo,      \* the documents a processing run fetched
    dead,      \* the workers that were killed
    torn,      \* history: tasks killed halfway through a change that cannot be re-run
    faults, resets  \* how often the bounded things happened

vars == <<kind, ps, docs, pc, todo, dead, torn, faults, resets>>

OwnerKinds == {"none", "processing", "custom_chunks", "delete", "clear"}

(* Mutant: a custom insertion is taken for re-runnable. *)
Rerunnable_Custom == {"processing", "scan", "custom_chunks"}

(* The owner kinds whose work is simply done again. *)
Rerunnable == {"processing", "scan"}

Unfinished == {"pending", "failed"}

(* Phases of a task that believes it holds the busy slot. *)
RunPhases == {"loop", "batch", "exit", "refetch", "finalize"}
HolderPhases == RunPhases \cup
    {"takeover", "claimed", "destroy", "release", "inserting", "exitCustom", "deleting", "releaseOne"}

(* Phases between the reservation of an enqueue and its release. *)
EnqueuePhases == {"received", "writing", "written", "badWrite"}

Phases == HolderPhases \cup EnqueuePhases \cup
    {"idle", "refused", "process", "stopped", "leaving", "terminal",
     "classify", "found", "joined", "over", "dead"}

Status == [busy: BOOLEAN, destructive: BOOLEAN, busyOwner: Tasks \cup {NoTask}, busyKind: OwnerKinds,
           scanning: BOOLEAN, exclusive: BOOLEAN, scanOwner: Tasks \cup {NoTask},
           tokens: SUBSET Tasks, requestPending: BOOLEAN, cancelled: BOOLEAN,
           joinable: BOOLEAN, fenced: BOOLEAN]

TypeOK ==
    /\ kind \in [Tasks -> Kinds]
    /\ ps \in Status
    /\ docs \in [Tasks -> {"none", "pending", "failed", "done", "gone"}]
    /\ pc \in [Tasks -> Phases]
    /\ todo \in [Tasks -> SUBSET Tasks]
    /\ dead \subseteq Mortal
    /\ torn \subseteq Tasks
    /\ faults \in 0 .. MaxFaults /\ resets \in 0 .. MaxResets

Init ==
    /\ kind \in Casts
    /\ ps = [busy |-> FALSE, destructive |-> FALSE, busyOwner |-> NoTask, busyKind |-> "none",
             scanning |-> FALSE, exclusive |-> FALSE, scanOwner |-> NoTask,
             tokens |-> {}, requestPending |-> FALSE, cancelled |-> FALSE,
             joinable |-> FALSE, fenced |-> FALSE]
    /\ docs = [t \in Tasks |-> "none"]
    /\ pc = [t \in Tasks |-> "idle"]
    /\ todo = [t \in Tasks |-> {}]
    /\ dead = {} /\ torn = {}
    /\ faults = 0 /\ resets = 0

-----------------------------------------------------------------------------
(* Helpers *)

Dead(t) == Worker[t] \in dead

DeadBusy(p) == (p.busy \/ p.destructive) /\ p.busyOwner \in Tasks /\ Dead(p.busyOwner)

(* Mutant: only the first flag of the owner is dropped. *)
ReclaimBusy_OneFlag(p) ==
    IF DeadBusy(p)
    THEN [p EXCEPT !.busy = FALSE, !.busyOwner = NoTask, !.busyKind = "none",
                   !.fenced = @ \/ p.busyKind \notin Rerunnable]
    ELSE p

(* _recover_dead_reservation: a dead owner loses its slot; unless its work can *)
(* be re-run the workspace is fenced.                                          *)
ReclaimBusy(p) ==
    IF DeadBusy(p)
    THEN [p EXCEPT !.busy = FALSE, !.destructive = FALSE, !.busyOwner = NoTask, !.busyKind = "none",
                   !.fenced = @ \/ p.busyKind \notin Rerunnable]
    ELSE p

ReclaimScan(p) ==
    IF (p.scanning \/ p.exclusive) /\ p.scanOwner \in Tasks /\ Dead(p.scanOwner)
    THEN [p EXCEPT !.scanning = FALSE, !.exclusive = FALSE, !.scanOwner = NoTask]
    ELSE p

(* reconcile_dead_pipeline_reservations: what every acquisition does first. *)
Reconcile(p) == [ReclaimScan(ReclaimBusy(p)) EXCEPT !.tokens = {t \in @ : ~Dead(t)}]

TakeBusy(p, t, work) == [p EXCEPT !.busy = TRUE, !.busyOwner = t, !.busyKind = work]

FreeBusy(p) == [p EXCEPT !.busy = FALSE, !.busyOwner = NoTask, !.busyKind = "none"]

(* with_reservation_lock and release_owned_reservation: a release applies only *)
(* while the slot is still the caller's.                                       *)
IfOwner(t, released) == IF ps.busyOwner = t THEN released ELSE ps

Goto(t, phase) == pc' = [pc EXCEPT ![t] = phase]

(* Where a task goes after its processing run, or when it gives up before one. *)
After(t) ==
    CASE kind[t] \in {"upload", "scan"} -> "leaving"
      [] kind[t] = "custom" -> "terminal"
      [] OTHER -> "over"

InQueue == {d \in Tasks : docs[d] \in Unfinished}

OnlyTask == <<kind, dead, torn, faults, resets>>

-----------------------------------------------------------------------------
(* Uploads and inserts *)

(* _reserve_enqueue_slot *)
ReserveEnqueue(t) ==
    /\ pc[t] = "idle" /\ kind[t] = "upload"
    /\ LET p == Reconcile(ps)
       IN  IF p.fenced \/ p.exclusive \/ p.destructive
           THEN ps' = p /\ Goto(t, "refused")
           ELSE ps' = [p EXCEPT !.tokens = @ \cup {t}] /\ Goto(t, "received")
    /\ UNCHANGED <<docs, todo, OnlyTask>>

(* The guard of apipeline_enqueue_documents, the last line of defence: an SDK  *)
(* insert meets no other, a scan's own enqueue passes the scan's exclusion.    *)
PassGuard(t) ==
    /\ LET p == Reconcile(ps)
       IN  /\ ps' = p
           /\ IF p.fenced \/ p.destructive \/ (p.exclusive /\ kind[t] # "scan")
              THEN Goto(t, IF kind[t] = "insert" THEN "refused" ELSE After(t))
              ELSE Goto(t, "writing")
    /\ UNCHANGED <<docs, todo, OnlyTask>>

EnqueueGuard(t) == pc[t] \in {"received", "found"} /\ PassGuard(t)

(* ainsert *)
StartInsert(t) == pc[t] = "idle" /\ kind[t] = "insert" /\ PassGuard(t)

WriteDocument(t) ==
    /\ pc[t] = "writing"
    /\ docs' = [docs EXCEPT ![t] = "pending"]
    /\ Goto(t, "written")
    /\ UNCHANGED <<ps, todo, OnlyTask>>

(* The upsert of the status rows fails, after the row landed or before. *)
WriteFails(t) ==
    /\ pc[t] = "writing" /\ faults < MaxFaults
    /\ faults' = faults + 1
    /\ \E row \in {"pending", docs[t]} : docs' = [docs EXCEPT ![t] = row]
    /\ Goto(t, "badWrite")
    /\ UNCHANGED <<kind, ps, todo, dead, torn, resets>>

(* The nudge after a write: a running loop is asked for another round. *)
Nudge(t) ==
    /\ pc[t] = "written"
    /\ ps' = [ps EXCEPT !.requestPending = @ \/ ps.busy]
    /\ Goto(t, "process")
    /\ UNCHANGED <<docs, todo, OnlyTask>>

(* After a failed write the caller gets the exception and processes nothing,   *)
(* so the enqueue itself wakes whoever is there, or runs.                      *)
WakeAfterError(t) ==
    /\ pc[t] = "badWrite"
    /\ ps' = [ps EXCEPT !.requestPending = @ \/ ps.busy]
    /\ Goto(t, IF ps.busy THEN After(t) ELSE "process")
    /\ UNCHANGED <<docs, todo, OnlyTask>>

(* _release_enqueue_slot, in the finally of the endpoint or its task *)
ReleaseEnqueue(t) ==
    /\ pc[t] = "leaving" /\ kind[t] = "upload"
    /\ ps' = [ps EXCEPT !.tokens = @ \ {t}]
    /\ Goto(t, "over")
    /\ UNCHANGED <<docs, todo, OnlyTask>>

-----------------------------------------------------------------------------
(* The processing run: apipeline_process_enqueue_documents *)

(* The acquisition. The queue is read under the lock. A run that was handed    *)
(* the slot ("takeover") holds it already.                                     *)
AcquireProcess(t) ==
    /\ pc[t] \in {"process", "takeover"}
    /\ LET p == Reconcile(ps)
           held == pc[t] = "takeover"
           leave == IF held THEN "finalize" ELSE After(t)
       IN  CASE p.fenced -> ps' = p /\ Goto(t, leave) /\ UNCHANGED todo
             [] ~p.fenced /\ p.busy /\ ~held ->
                    ps' = [p EXCEPT !.requestPending = TRUE] /\ Goto(t, leave) /\ UNCHANGED todo
             [] ~p.fenced /\ (held \/ ~p.busy) /\ InQueue = {} ->
                    ps' = p /\ Goto(t, leave) /\ UNCHANGED todo
             [] OTHER ->
                    /\ ps' = [TakeBusy(p, t, "processing") EXCEPT !.requestPending = FALSE,
                                                                 !.cancelled = FALSE,
                                                                 !.joinable = FALSE]
                    /\ todo' = [todo EXCEPT ![t] = InQueue]
                    /\ Goto(t, "loop")
    /\ UNCHANGED <<docs, OnlyTask>>

(* The top of the loop: a cancellation ends the run without a look at the      *)
(* requests.                                                                   *)
LoopTop(t) ==
    /\ pc[t] = "loop"
    /\ IF ps.cancelled
       THEN /\ ps' = [ps EXCEPT !.requestPending = FALSE, !.cancelled = FALSE]
            /\ Goto(t, "finalize")
       ELSE /\ UNCHANGED ps
            /\ Goto(t, IF todo[t] = {} THEN "exit" ELSE "batch")
    /\ UNCHANGED <<docs, todo, OnlyTask>>

(* _run_pipeline_batch: every document succeeds or fails; under a cancellation *)
(* some are not reached.                                                       *)
BatchEnds(t) ==
    /\ pc[t] = "batch"
    /\ \E good \in SUBSET todo[t], missed \in SUBSET (IF ps.cancelled THEN todo[t] ELSE {}) :
           docs' = [d \in Tasks |-> IF d \in todo[t] \ missed
                                    THEN IF d \in good THEN "done" ELSE "failed"
                                    ELSE docs[d]]
    /\ todo' = [todo EXCEPT ![t] = {}]
    /\ Goto(t, "exit")
    /\ UNCHANGED <<ps, OnlyTask>>

(* A storage that cannot flush aborts the batch through the flag. *)
FlushFails(t) ==
    /\ pc[t] = "batch" /\ faults < MaxFaults
    /\ faults' = faults + 1
    /\ ps' = [ps EXCEPT !.cancelled = TRUE]
    /\ UNCHANGED <<kind, docs, pc, todo, dead, torn, resets>>

(* Mutant: the requests are not looked at. *)
ExitOrConsume_Blind(t) ==
    /\ pc[t] = "exit"
    /\ ps' = FreeBusy(ps) /\ Goto(t, "stopped")
    /\ UNCHANGED <<docs, todo, OnlyTask>>

(* _atomic_release_busy_or_consume_pending, which looks at no owner *)
ExitOrConsume(t) ==
    /\ pc[t] = "exit"
    /\ IF ps.requestPending
       THEN ps' = [ps EXCEPT !.requestPending = FALSE] /\ Goto(t, "refetch")
       ELSE ps' = FreeBusy(ps) /\ Goto(t, "stopped")
    /\ UNCHANGED <<docs, todo, OnlyTask>>

(* The queue is read again, outside the lock. *)
Refetch(t) ==
    /\ pc[t] = "refetch"
    /\ todo' = [todo EXCEPT ![t] = InQueue]
    /\ Goto(t, "loop")
    /\ UNCHANGED <<ps, docs, OnlyTask>>

(* _finalize: release unless the loop did, then reset the cancellation unless *)
(* somebody else holds the slot by now.                                       *)
Finalize(t) ==
    /\ pc[t] \in {"finalize", "stopped"}
    /\ LET p == IF pc[t] = "finalize" THEN IfOwner(t, FreeBusy(ps)) ELSE ps
       IN  ps' = IF p.busyOwner \in {NoTask, t} THEN [p EXCEPT !.cancelled = FALSE] ELSE p
    /\ todo' = [todo EXCEPT ![t] = {}]
    /\ Goto(t, After(t))
    /\ UNCHANGED <<docs, OnlyTask>>

(* /documents/reprocess_failed: a processing run behind a look at the fence *)
Reprocess(t) ==
    /\ pc[t] = "idle" /\ kind[t] = "reprocess"
    /\ ps' = Reconcile(ps)
    /\ Goto(t, IF ps'.fenced THEN "refused" ELSE "process")
    /\ UNCHANGED <<docs, todo, OnlyTask>>

-----------------------------------------------------------------------------
(* Scans *)

(* Mutant: the dead are not reclaimed first. *)
StartScan_NoReconcile(t) ==
    /\ pc[t] = "idle" /\ kind[t] = "scan"
    /\ IF ps.fenced \/ ps.busy \/ ps.scanning \/ ps.tokens # {}
       THEN UNCHANGED ps /\ Goto(t, "refused")
       ELSE /\ ps' = [ps EXCEPT !.scanning = TRUE, !.exclusive = TRUE, !.scanOwner = t]
            /\ Goto(t, "classify")
    /\ UNCHANGED <<docs, todo, OnlyTask>>

StartScan(t) ==
    /\ pc[t] = "idle" /\ kind[t] = "scan"
    /\ LET p == Reconcile(ps)
       IN  IF p.fenced \/ p.busy \/ p.scanning \/ p.tokens # {}
           THEN ps' = p /\ Goto(t, "refused")
           ELSE /\ ps' = [p EXCEPT !.scanning = TRUE, !.exclusive = TRUE, !.scanOwner = t]
                /\ Goto(t, "classify")
    /\ UNCHANGED <<docs, todo, OnlyTask>>

(* The end of the classification: the exclusion is dropped in place, whoever  *)
(* owns it. A new file is enqueued, or only what is queued is processed, or   *)
(* there is nothing to do.                                                    *)
EndClassification(t) ==
    /\ pc[t] = "classify"
    /\ ps' = [ps EXCEPT !.exclusive = FALSE]
    /\ \E next \in {"found", "process", "leaving"} : Goto(t, next)
    /\ UNCHANGED <<docs, todo, OnlyTask>>

(* _release_scanning_reservation *)
ReleaseScan(t) ==
    /\ pc[t] = "leaving" /\ kind[t] = "scan"
    /\ ps' = IF ps.scanOwner = t
             THEN [ps EXCEPT !.scanning = FALSE, !.exclusive = FALSE, !.scanOwner = NoTask]
             ELSE ps
    /\ Goto(t, "over")
    /\ UNCHANGED <<docs, todo, OnlyTask>>

-----------------------------------------------------------------------------
(* Clearing and deleting *)

(* Mutant: enqueues in flight are not looked at. *)
AcquireDestructive_NoTokens(t) ==
    /\ pc[t] = "idle" /\ kind[t] \in {"clear", "delete"}
    /\ LET p == Reconcile(ps)
       IN  IF p.fenced \/ p.busy \/ p.scanning
           THEN ps' = p /\ Goto(t, "refused")
           ELSE /\ ps' = [TakeBusy(p, t, kind[t]) EXCEPT !.destructive = TRUE]
                /\ Goto(t, "claimed")
    /\ UNCHANGED <<docs, todo, OnlyTask>>

(* _acquire_destructive_busy *)
AcquireDestructive(t) ==
    /\ pc[t] = "idle" /\ kind[t] \in {"clear", "delete"}
    /\ LET p == Reconcile(ps)
       IN  IF p.fenced \/ p.busy \/ p.scanning \/ p.tokens # {}
           THEN ps' = p /\ Goto(t, "refused")
           ELSE /\ ps' = [TakeBusy(p, t, kind[t]) EXCEPT !.destructive = TRUE]
                /\ Goto(t, "claimed")
    /\ UNCHANGED <<docs, todo, OnlyTask>>

(* The job announces itself: a clear drops the requests, a batch deletion      *)
(* takes the name that single deletions look for.                              *)
Announce(t) ==
    /\ pc[t] = "claimed"
    /\ ps' = [ps EXCEPT !.requestPending = @ /\ kind[t] # "clear",
                        !.joinable = kind[t] = "delete"]
    /\ Goto(t, "destroy")
    /\ UNCHANGED <<docs, todo, OnlyTask>>

(* Everything is dropped, or the documents asked for. *)
Destroy(t) ==
    /\ pc[t] = "destroy"
    /\ \E chosen \in SUBSET {d \in Tasks : docs[d] # "none"} :
           /\ kind[t] = "clear" => chosen = {d \in Tasks : docs[d] # "none"}
           /\ docs' = [d \in Tasks |-> IF d \in chosen THEN "gone" ELSE docs[d]]
    /\ Goto(t, "release")
    /\ UNCHANGED <<ps, todo, OnlyTask>>

(* The release. A batch deletion then processes what was requested meanwhile. *)
ReleaseDestructive(t) ==
    /\ pc[t] = "release"
    /\ LET p == IfOwner(t, [FreeBusy(ps) EXCEPT !.destructive = FALSE,
                                                !.cancelled = @ /\ kind[t] = "clear"])
       IN  /\ ps' = p
           /\ Goto(t, IF kind[t] = "delete" /\ ps.busyOwner = t /\ ps.requestPending
                      THEN "process" ELSE "over")
    /\ UNCHANGED <<docs, todo, OnlyTask>>

(* adelete_by_doc_id: takes the slot, or joins the batch deletion that has it. *)
AcquireDeleteOne(t) ==
    /\ pc[t] = "idle" /\ kind[t] = "deleteOne"
    /\ LET p == Reconcile(ps)
       IN  CASE p.fenced \/ (p.busy /\ ~p.joinable) -> ps' = p /\ Goto(t, "refused")
             [] ~p.fenced /\ p.busy /\ p.joinable -> ps' = p /\ Goto(t, "joined")
             [] OTHER -> /\ ps' = [TakeBusy(p, t, "delete") EXCEPT !.requestPending = FALSE,
                                                                  !.cancelled = FALSE,
                                                                  !.joinable = FALSE]
                         /\ Goto(t, "deleting")
    /\ UNCHANGED <<docs, todo, OnlyTask>>

DeleteOne(t) ==
    /\ pc[t] \in {"deleting", "joined"}
    /\ \E d \in Tasks : docs' = IF docs[d] = "none" THEN docs ELSE [docs EXCEPT ![d] = "gone"]
    /\ Goto(t, IF pc[t] = "deleting" THEN "releaseOne" ELSE "over")
    /\ UNCHANGED <<ps, todo, OnlyTask>>

ReleaseOne(t) ==
    /\ pc[t] = "releaseOne"
    /\ ps' = IfOwner(t, [FreeBusy(ps) EXCEPT !.cancelled = FALSE])
    /\ Goto(t, "over")
    /\ UNCHANGED <<docs, todo, OnlyTask>>

-----------------------------------------------------------------------------
(* ainsert_custom_chunks *)

(* Mutant: a scan is not looked at. *)
AcquireCustom_NoScan(t) ==
    /\ pc[t] = "idle" /\ kind[t] = "custom"
    /\ LET p == Reconcile(ps)
       IN  IF p.fenced \/ p.busy
           THEN ps' = p /\ Goto(t, "refused")
           ELSE ps' = TakeBusy(p, t, "custom_chunks") /\ Goto(t, "inserting")
    /\ UNCHANGED <<docs, todo, OnlyTask>>

AcquireCustom(t) ==
    /\ pc[t] = "idle" /\ kind[t] = "custom"
    /\ LET p == Reconcile(ps)
       IN  IF p.fenced \/ p.busy \/ p.scanning
           THEN ps' = p /\ Goto(t, "refused")
           ELSE /\ ps' = [TakeBusy(p, t, "custom_chunks") EXCEPT !.cancelled = FALSE,
                                                                !.joinable = FALSE]
                /\ Goto(t, "inserting")
    /\ UNCHANGED <<docs, todo, OnlyTask>>

InsertChunks(t) ==
    /\ pc[t] = "inserting"
    /\ Goto(t, "exitCustom")
    /\ UNCHANGED <<ps, docs, todo, OnlyTask>>

(* _exit_action: keep the slot for a processing run if one was asked for. *)
ExitCustom(t) ==
    /\ pc[t] = "exitCustom"
    /\ ps' = IfOwner(t, [(IF ps.requestPending THEN ps ELSE FreeBusy(ps)) EXCEPT !.cancelled = FALSE])
    /\ Goto(t, IF ps.busyOwner = t /\ ps.requestPending THEN "takeover" ELSE "terminal")
    /\ UNCHANGED <<docs, todo, OnlyTask>>

(* Mutant: the backstop does not look at the owner. *)
TerminalRelease_Unchecked(t) ==
    /\ pc[t] = "terminal"
    /\ ps' = FreeBusy(ps)
    /\ Goto(t, "over")
    /\ UNCHANGED <<docs, todo, OnlyTask>>

(* _terminal_release: a backstop, after the run that was handed the slot. *)
TerminalRelease(t) ==
    /\ pc[t] = "terminal"
    /\ ps' = IfOwner(t, [FreeBusy(ps) EXCEPT !.cancelled = FALSE])
    /\ Goto(t, "over")
    /\ UNCHANGED <<docs, todo, OnlyTask>>

-----------------------------------------------------------------------------
(* Users and faults *)

CancelPipeline ==
    /\ ps.busy /\ faults < MaxFaults
    /\ faults' = faults + 1
    /\ ps' = [ps EXCEPT !.cancelled = TRUE]
    /\ UNCHANGED <<kind, docs, pc, todo, dead, torn, resets>>

(* /documents/recovery/force_reset: drops the fence and whatever is reserved. *)
ForceReset ==
    /\ ps.fenced /\ resets < MaxResets
    /\ resets' = resets + 1
    /\ ps' = [FreeBusy(ps) EXCEPT !.fenced = FALSE, !.destructive = FALSE, !.scanning = FALSE,
                                  !.exclusive = FALSE, !.scanOwner = NoTask]
    /\ torn' = {}
    /\ UNCHANGED <<kind, docs, pc, todo, dead, faults>>

(* Mutant: the finally of a processing run does not release. *)
Cleanup_NoFinalize(t) ==
    CASE pc[t] \in {"claimed", "destroy"} -> "release"
      [] pc[t] = "inserting" -> "exitCustom"
      [] pc[t] = "takeover" -> "terminal"
      [] pc[t] = "deleting" -> "releaseOne"
      [] OTHER -> After(t)

(* An exception or a cancellation: the task goes to the finally that covers   *)
(* where it stands. Releases run to completion, so those steps are not there. *)
Cleanup(t) ==
    CASE pc[t] \in {"loop", "batch", "exit", "refetch"} -> "finalize"
      [] pc[t] \in {"claimed", "destroy"} -> "release"
      [] pc[t] = "inserting" -> "exitCustom"
      [] pc[t] = "takeover" -> "terminal"
      [] pc[t] = "deleting" -> "releaseOne"
      [] OTHER -> After(t)

Interrupt(t) ==
    /\ pc[t] \in EnqueuePhases \cup {"process", "classify", "found", "loop", "batch", "exit", "refetch",
                                     "claimed", "destroy", "inserting", "takeover", "deleting", "joined"}
    /\ faults < MaxFaults
    /\ faults' = faults + 1
    /\ Goto(t, Cleanup(t))
    /\ UNCHANGED <<kind, ps, docs, todo, dead, torn, resets>>

(* SIGKILL takes a worker with all its tasks; pipeline_status survives. *)
Crash(w) ==
    /\ w \in Mortal \ dead
    /\ dead' = dead \cup {w}
    /\ torn' = torn \cup {t \in Tasks : Worker[t] = w /\ pc[t] \in {"destroy", "inserting", "deleting"}}
    /\ pc' = [t \in Tasks |-> IF Worker[t] = w THEN "dead" ELSE pc[t]]
    /\ UNCHANGED <<kind, ps, docs, todo, faults, resets>>

-----------------------------------------------------------------------------
(* The steps a task takes by itself once it has started *)
Continue(t) ==
    \/ EnqueueGuard(t) \/ WriteDocument(t) \/ Nudge(t)
    \/ WakeAfterError(t) \/ ReleaseEnqueue(t)
    \/ AcquireProcess(t) \/ LoopTop(t) \/ BatchEnds(t) \/ ExitOrConsume(t)
    \/ Refetch(t) \/ Finalize(t)
    \/ EndClassification(t) \/ ReleaseScan(t)
    \/ Announce(t) \/ Destroy(t) \/ ReleaseDestructive(t)
    \/ DeleteOne(t) \/ ReleaseOne(t)
    \/ InsertChunks(t) \/ ExitCustom(t) \/ TerminalRelease(t)

Begin(t) ==
    \/ ReserveEnqueue(t) \/ StartInsert(t) \/ Reprocess(t) \/ StartScan(t)
    \/ AcquireDestructive(t) \/ AcquireDeleteOne(t) \/ AcquireCustom(t)

Next ==
    \/ \E t \in Tasks : Begin(t) \/ Continue(t) \/ WriteFails(t) \/ FlushFails(t) \/ Interrupt(t)
    \/ CancelPipeline
    \/ ForceReset
    \/ \E w \in Workers : Crash(w)

Spec == Init /\ [][Next]_vars

FairSpec == Spec /\ \A t \in Tasks : WF_vars(Continue(t))

-----------------------------------------------------------------------------
(* Properties *)

(* Who believes to hold the busy slot does hold it, whatever was released,     *)
(* handed over, reclaimed or reset meanwhile: so processing runs, clears,      *)
(* deletions and custom insertions never work at the same time.                *)
HolderOwns ==
    \A t \in Tasks : pc[t] \in HolderPhases => ps.busy /\ ps.busyOwner = t

(* No flag outlives its owner record: without one, nobody could ever reclaim   *)
(* it.                                                                         *)
FlagsHaveOwner ==
    /\ ps.busy <=> ps.busyOwner # NoTask
    /\ ps.destructive => ps.busy
    /\ ps.scanning <=> ps.scanOwner # NoTask
    /\ ps.exclusive => ps.scanning

(* Nothing is written while storages are torn down: no accepted upload is      *)
(* between its reservation and its release, and no scan is at work (unless     *)
(* its reservation was reset by force).                                        *)
TeardownAlone ==
    \A t, u \in Tasks :
        pc[t] = "destroy" /\ pc[u] \in EnqueuePhases \cup {"classify", "found"} =>
            kind[u] = "insert" \/ (kind[u] = "scan" /\ resets > 0)

(* A scan that classifies files, and rolls back custom insertions it finds     *)
(* unfinished, meets neither an accepted upload nor a living custom insertion. *)
ClassifiesAlone ==
    \A t, u \in Tasks :
        pc[t] = "classify" /\ resets = 0 =>
            /\ ~(kind[u] = "upload" /\ pc[u] \in EnqueuePhases)
            /\ pc[u] # "inserting"

(* After a worker died in the middle of a deletion, a clear or a custom        *)
(* insertion, nobody holds the busy slot, or works as its holder, until the    *)
(* fence is lifted by hand. An enqueue in flight and a deletion that joined a  *)
(* batch hold no slot and may still write.                                     *)
TornIsFenced ==
    torn # {} => \A t \in Tasks : pc[t] \notin HolderPhases

(* A request is only refused because of a reservation whose owner lives, or    *)
(* because of the fence: the dead never block.                                 *)
DeadNeverBlocks ==
    [][\A t \in Tasks : pc[t] = "idle" /\ pc'[t] = "refused" =>
           \/ ps'.fenced
           \/ \E u \in Tasks : /\ ~Dead(u)
                               /\ u \in {ps'.busyOwner, ps'.scanOwner} \cup ps'.tokens]_vars

(* What may strand a document: a fault, a cancellation or a reset, a deletion  *)
(* of one document or a clear. The releases of the last two never look whether *)
(* a run was asked for in the meantime; beside a clear only an SDK insertion,  *)
(* which takes no token, can have asked.                                       *)
Disturbed(d) ==
    \/ faults > 0 \/ resets > 0 \/ dead # {}
    \/ \E t \in Tasks : kind[t] = "deleteOne" \/ (kind[t] = "clear" /\ kind[d] = "insert")

(* A document that was accepted does not wait for an unrelated request: it is  *)
(* processed, successfully or not, or deleted, unless it was disturbed.        *)
AcceptedProcessed ==
    \A d \in Tasks : docs[d] = "pending" ~> docs[d] # "pending" \/ Disturbed(d)

(* Every reservation ends, or its owner is dead. *)
SlotsFreed ==
    \A t \in Tasks :
        (ps.busyOwner = t \/ ps.scanOwner = t \/ t \in ps.tokens) ~>
            (t \notin {ps.busyOwner, ps.scanOwner} \cup ps.tokens \/ Dead(t))
=============================================================================
