--------------------- MODULE PipelineReservationsProofs ---------------------
(***************************************************************************)
(* Proofs about PipelineReservations, for every set of tasks and workers.   *)
(***************************************************************************)
EXTENDS PipelineReservations, TLAPS

-----------------------------------------------------------------------------
(* The inductive invariant: what a task in phase c may rely on in status p,   *)
(* and how the fields of p fit together.                                      *)

ScanPhases == {"classify", "found"}

TaskFits(t, c, p) ==
    /\ c \in HolderPhases => p.busy /\ p.busyOwner = t
    /\ c \in {"claimed", "destroy", "inserting", "deleting"} => p.busyKind \notin Rerunnable
    /\ c \in HolderPhases \ {"claimed", "destroy", "release"} => ~p.destructive
    /\ c \in {"inserting", "exitCustom", "takeover", "terminal"} => kind[t] = "custom"
    /\ c \in {"claimed", "destroy"} => p.destructive /\ p.tokens = {} /\ (resets = 0 => ~p.scanning)
    /\ c = "inserting" /\ resets = 0 => ~p.scanning
    /\ c \in EnqueuePhases => kind[t] \in {"upload", "insert", "scan"}
    /\ c \in ScanPhases => kind[t] = "scan"
    /\ kind[t] = "upload" /\ c \in EnqueuePhases => t \in p.tokens
    /\ kind[t] = "scan" /\ c \in ScanPhases \cup EnqueuePhases /\ resets = 0 =>
           p.scanning /\ p.scanOwner = t
    /\ c = "classify" /\ resets = 0 => p.exclusive /\ p.tokens = {}
    /\ c = "dead" <=> Dead(t)

FlagsFit(p) ==
    /\ p.busy <=> p.busyOwner # NoTask
    /\ p.destructive => p.busy /\ kind[p.busyOwner] \in {"clear", "delete"}
    /\ p.scanning <=> p.scanOwner # NoTask
    /\ p.exclusive => p.scanning
    /\ p.fenced => ~p.busy

TornFits(p) ==
    torn # {} => p.fenced \/ (p.busy /\ Dead(p.busyOwner) /\ p.busyKind \notin Rerunnable)

Fits(p) == FlagsFit(p) /\ TornFits(p) /\ \A t \in Tasks : TaskFits(t, pc[t], p)

IInv == TypeOK /\ Fits(ps)

OwnersLive(p) ==
    /\ p.busy => ~Dead(p.busyOwner)
    /\ p.scanning => ~Dead(p.scanOwner)
    /\ \A t \in p.tokens : ~Dead(t)

(* What every acquisition starts from: the invariant, and owners that live. *)
LEMMA ReconcileFits ==
    ASSUME IInv
    PROVE  /\ Reconcile(ps) \in Status
           /\ Fits(Reconcile(ps))
           /\ OwnersLive(Reconcile(ps))
<1> DEFINE p == Reconcile(ps)
<1> USE ConstantsAssumption
<1> DEFINE q == ReclaimBusy(ps)
<1> DEFINE r == ReclaimScan(q)
<1>1. ps \in Status /\ FlagsFit(ps)
  BY DEF IInv, TypeOK, Fits
<1>2. /\ q \in Status
      /\ q.scanning = ps.scanning /\ q.exclusive = ps.exclusive /\ q.scanOwner = ps.scanOwner
      /\ q.tokens = ps.tokens
      /\ q.fenced <=> (ps.fenced \/ (ps.busy /\ Dead(ps.busyOwner) /\ ps.busyKind \notin Rerunnable))
      /\ IF ps.busy /\ Dead(ps.busyOwner)
         THEN ~q.busy /\ ~q.destructive /\ q.busyOwner = NoTask /\ q.busyKind = "none"
         ELSE /\ q.busy = ps.busy /\ q.destructive = ps.destructive
              /\ q.busyOwner = ps.busyOwner /\ q.busyKind = ps.busyKind
  <2>1. DeadBusy(ps) <=> ps.busy /\ Dead(ps.busyOwner)
    BY <1>1 DEF DeadBusy, FlagsFit, Status
  <2>2. CASE DeadBusy(ps)
    <3>1. q = [ps EXCEPT !.busy = FALSE, !.destructive = FALSE, !.busyOwner = NoTask, !.busyKind = "none",
                         !.fenced = @ \/ ps.busyKind \notin Rerunnable]
      BY <2>2 DEF ReclaimBusy
    <3>2. (ps.fenced \/ ps.busyKind \notin Rerunnable) \in BOOLEAN
      OBVIOUS
    <3>3. q \in Status
      BY <3>1, <3>2, <1>1 DEF Status, OwnerKinds
    <3> QED BY <3>1, <3>3, <2>1, <2>2, <1>1 DEF Status
  <2>3. CASE ~DeadBusy(ps)
    BY <2>1, <2>3, <1>1 DEF ReclaimBusy
  <2> QED BY <2>2, <2>3
<1> HIDE DEF q
<1>3. /\ r \in Status
      /\ r.busy = q.busy /\ r.destructive = q.destructive /\ r.fenced = q.fenced
      /\ r.busyOwner = q.busyOwner /\ r.busyKind = q.busyKind /\ r.tokens = q.tokens
      /\ IF ps.scanning /\ Dead(ps.scanOwner)
         THEN ~r.scanning /\ ~r.exclusive /\ r.scanOwner = NoTask
         ELSE r.scanning = ps.scanning /\ r.exclusive = ps.exclusive /\ r.scanOwner = ps.scanOwner
  <2>1. CASE ps.scanning /\ Dead(ps.scanOwner)
    <3>1. r = [q EXCEPT !.scanning = FALSE, !.exclusive = FALSE, !.scanOwner = NoTask]
      BY <2>1, <1>1, <1>2 DEF ReclaimScan, FlagsFit, Status
    <3> QED BY <3>1, <2>1, <1>2 DEF Status
  <2>2. CASE ~(ps.scanning /\ Dead(ps.scanOwner))
    <3>1. r = q
      BY <2>2, <1>1, <1>2 DEF ReclaimScan, FlagsFit, Status
    <3> QED BY <3>1, <2>2, <1>2
  <2> QED BY <2>1, <2>2
<1> HIDE DEF r
<1>4. /\ p \in Status
      /\ p.busy = r.busy /\ p.destructive = r.destructive /\ p.fenced = r.fenced
      /\ p.busyOwner = r.busyOwner /\ p.busyKind = r.busyKind
      /\ p.scanning = r.scanning /\ p.exclusive = r.exclusive /\ p.scanOwner = r.scanOwner
      /\ p.tokens = {t \in ps.tokens : ~Dead(t)}
  BY <1>2, <1>3 DEF Reconcile, Status, q, r
<1> HIDE DEF p
<1>6. FlagsFit(p) /\ TornFits(p) /\ OwnersLive(p)
  BY <1>1, <1>2, <1>3, <1>4 DEF IInv, Fits, FlagsFit, TornFits, OwnersLive, Status
<1>7. ASSUME NEW t \in Tasks PROVE TaskFits(t, pc[t], p)
  <2>1. TaskFits(t, pc[t], ps)
    BY DEF IInv, Fits
  <2> QED BY <2>1, <1>1, <1>2, <1>3, <1>4
       DEF TaskFits, FlagsFit, Status, HolderPhases, RunPhases, EnqueuePhases, ScanPhases
<1> QED BY <1>4, <1>6, <1>7 DEF Fits, p

-----------------------------------------------------------------------------
(* How a step of one task leaves the others alone. *)

SameBusy(p, q) ==
    q.busy = p.busy /\ q.destructive = p.destructive /\ q.busyOwner = p.busyOwner /\ q.busyKind = p.busyKind

SameScan(p, q) == q.scanning = p.scanning /\ q.exclusive = p.exclusive /\ q.scanOwner = p.scanOwner

Moves(t, c) == Goto(t, c) /\ UNCHANGED <<kind, dead, torn, resets>>

(* A task moves: what the others and the task itself rely on holds again. *)
LEMMA Moved ==
    ASSUME IInv, NEW t \in Tasks, NEW c, Moves(t, c),
           FlagsFit(ps'), TornFits(ps'), TaskFits(t, c, ps'),
           \A u \in Tasks \ {t} : TaskFits(u, pc[u], ps')
    PROVE  Fits(ps)'
<1>1. pc \in [Tasks -> Phases] /\ pc' = [pc EXCEPT ![t] = c]
  BY DEF IInv, TypeOK, Moves, Goto
<1>2. kind' = kind /\ dead' = dead /\ torn' = torn /\ resets' = resets
  BY DEF Moves
<1>3. FlagsFit(ps)' /\ TornFits(ps)'
  BY <1>2 DEF FlagsFit, TornFits, Dead
<1>4. ASSUME NEW u \in Tasks PROVE TaskFits(u, pc[u], ps)'
  <2>1. TaskFits(u, pc'[u], ps')
    BY <1>1
  <2> QED BY <2>1, <1>2 DEF TaskFits, Dead
<1> QED BY <1>3, <1>4 DEF Fits

(* Only the soft fields of p change: requests, cancellation, the job's name. *)
LEMMA SoftStep ==
    ASSUME IInv, NEW t \in Tasks, NEW c, Moves(t, c), NEW p, Fits(p),
           SameBusy(p, ps'), SameScan(p, ps'), ps'.tokens = p.tokens, ps'.fenced = p.fenced,
           TaskFits(t, c, p)
    PROVE  Fits(ps)'
<1>1. FlagsFit(ps') /\ TornFits(ps')
  BY DEF Fits, FlagsFit, TornFits, SameBusy, SameScan
<1>2. ASSUME NEW u, NEW d, TaskFits(u, d, p) PROVE TaskFits(u, d, ps')
  BY <1>2 DEF TaskFits, SameBusy, SameScan
<1>3. \A u \in Tasks : TaskFits(u, pc[u], p)
  BY DEF Fits
<1> QED BY <1>1, <1>2, <1>3, Moved

(* The slot, free or t's, is taken or freed by t. *)
LEMMA BusyStep ==
    ASSUME IInv, NEW t \in Tasks, NEW c, Moves(t, c), NEW p, Fits(p),
           p.busy => p.busyOwner = t,
           ps'.busyOwner \in {t, NoTask},
           SameScan(p, ps'), ps'.tokens = p.tokens,
           FlagsFit(ps'), TornFits(ps'), TaskFits(t, c, ps')
    PROVE  Fits(ps)'
<1>1. ASSUME NEW u \in Tasks \ {t} PROVE TaskFits(u, pc[u], ps')
  <2>1. TaskFits(u, pc[u], p)
    BY DEF Fits
  <2>2. pc[u] \notin HolderPhases
    BY <2>1 DEF TaskFits
  <2>3. ps'.busyOwner # u
    BY ConstantsAssumption
  <2> QED BY <2>1, <2>2, <2>3 DEF TaskFits, SameScan, HolderPhases
<1> QED BY <1>1, Moved

(* A token comes while nobody tears down or classifies, or one goes. *)
LEMMA TokenStep ==
    ASSUME IInv, NEW t \in Tasks, NEW c, Moves(t, c), NEW p, Fits(p),
           SameBusy(p, ps'), SameScan(p, ps'), ps'.fenced = p.fenced,
           \/ ps'.tokens = p.tokens \cup {t} /\ ~p.destructive /\ ~p.exclusive
           \/ ps'.tokens = p.tokens \ {t},
           TaskFits(t, c, ps')
    PROVE  Fits(ps)'
<1>1. FlagsFit(ps') /\ TornFits(ps')
  BY DEF Fits, FlagsFit, TornFits, SameBusy, SameScan
<1>2. ASSUME NEW u \in Tasks \ {t} PROVE TaskFits(u, pc[u], ps')
  <2>1. TaskFits(u, pc[u], p)
    BY DEF Fits
  <2>2. pc[u] \in {"claimed", "destroy"} \/ (pc[u] = "classify" /\ resets = 0) =>
            p.tokens = {} /\ (p.destructive \/ p.exclusive)
    BY <2>1 DEF TaskFits
  <2>3. (pc[u] \in {"claimed", "destroy"} \/ (pc[u] = "classify" /\ resets = 0) => ps'.tokens = {})
    BY <2>2
  <2> QED BY <2>1, <2>3 DEF TaskFits, SameBusy, SameScan
<1> QED BY <1>1, <1>2, Moved

(* The scan reservation, free or t's, changes. *)
LEMMA ScanStep ==
    ASSUME IInv, NEW t \in Tasks, NEW c, Moves(t, c), NEW p, Fits(p),
           SameBusy(p, ps'), ps'.tokens = p.tokens, ps'.fenced = p.fenced,
           p.scanning /\ resets = 0 => p.scanOwner = t,
           ps'.scanning => p.scanning \/ ~p.busy,
           FlagsFit(ps'), TaskFits(t, c, ps')
    PROVE  Fits(ps)'
<1>1. TornFits(ps')
  BY DEF Fits, TornFits, SameBusy
<1>2. ASSUME NEW u \in Tasks \ {t} PROVE TaskFits(u, pc[u], ps')
  <2>1. TaskFits(u, pc[u], p)
    BY DEF Fits
  <2>2. ~(kind[u] = "scan" /\ pc[u] \in ScanPhases \cup EnqueuePhases /\ resets = 0)
    BY <2>1 DEF TaskFits
  <2>3. ~(pc[u] = "classify" /\ resets = 0)
    BY <2>1, <2>2 DEF TaskFits, ScanPhases
  <2>4. pc[u] \in {"claimed", "destroy", "inserting"} => p.busy
    BY <2>1 DEF TaskFits, HolderPhases
  <2>5. pc[u] \in {"claimed", "destroy", "inserting"} /\ resets = 0 => ~ps'.scanning
    BY <2>1, <2>4 DEF TaskFits
  <2> QED BY <2>1, <2>2, <2>3, <2>5 DEF TaskFits, SameBusy
<1> QED BY <1>1, <1>2, Moved

-----------------------------------------------------------------------------
(* What an acting task starts from, and the phases that rely on nothing. *)

(* What a task in its phase may rely on now. *)
LEMMA Acting ==
    ASSUME IInv, NEW t \in Tasks
    PROVE  /\ TaskFits(t, pc[t], ps)
           /\ pc[t] # "dead" => ~Dead(t)
           /\ ps \in Status /\ Fits(ps) /\ FlagsFit(ps) /\ TornFits(ps)
  BY DEF IInv, TypeOK, Fits, TaskFits

(* What it may rely on after a reconciliation. *)
LEMMA Reconciled ==
    ASSUME IInv, NEW t \in Tasks, NEW p, p = Reconcile(ps)
    PROVE  /\ TaskFits(t, pc[t], p)
           /\ pc[t] # "dead" => ~Dead(t)
           /\ p \in Status /\ Fits(p) /\ FlagsFit(p) /\ TornFits(p) /\ OwnersLive(p)
  BY ReconcileFits DEF Fits, TaskFits

Passive == {"idle", "refused", "process", "stopped", "leaving", "joined", "over"}

(* A task that holds and relies on nothing fits every status. *)
LEMMA PassiveFits ==
    ASSUME NEW t \in Tasks, ~Dead(t), NEW p
    PROVE  /\ \A c \in Passive : TaskFits(t, c, p)
           /\ TaskFits(t, After(t), p)
  BY DEF Passive, TaskFits, HolderPhases, RunPhases, EnqueuePhases, ScanPhases, After

(* A task that changes no status. *)
LEMMA StillStep ==
    ASSUME IInv, NEW t \in Tasks, NEW c, Moves(t, c), ps' = ps, TaskFits(t, c, ps)
    PROVE  ps' \in Status /\ Fits(ps)'
  BY Acting, SoftStep DEF SameBusy, SameScan

-----------------------------------------------------------------------------
(* Uploads and inserts *)

(* A token is handed out beside no exclusion. *)
LEMMA ReserveEnqueueFits ==
    ASSUME IInv, NEW t \in Tasks, ReserveEnqueue(t)
    PROVE  ps' \in Status /\ Fits(ps)'
<1> PICK p : p = Reconcile(ps)
  OBVIOUS
<1>1. /\ p \in Status /\ Fits(p) /\ ~Dead(t)
  BY Reconciled DEF ReserveEnqueue
<1>2. CASE p.fenced \/ p.exclusive \/ p.destructive
  <2>1. ps' = p /\ Moves(t, "refused")
    BY <1>2 DEF ReserveEnqueue, Moves, OnlyTask
  <2>2. TaskFits(t, "refused", p)
    BY <1>1, PassiveFits DEF Passive
  <2> QED BY <1>1, <2>1, <2>2, SoftStep DEF SameBusy, SameScan
<1>3. CASE ~(p.fenced \/ p.exclusive \/ p.destructive)
  <2>1. ps' = [p EXCEPT !.tokens = @ \cup {t}] /\ Moves(t, "received") /\ kind[t] = "upload"
    BY <1>3 DEF ReserveEnqueue, Moves, OnlyTask
  <2>2. /\ ps' \in Status /\ SameBusy(p, ps') /\ SameScan(p, ps')
        /\ ps'.fenced = p.fenced /\ ps'.tokens = p.tokens \cup {t}
    BY <1>1, <2>1 DEF Status, SameBusy, SameScan
  <2>3. TaskFits(t, "received", ps')
    BY <1>1, <2>1, <2>2 DEF TaskFits, HolderPhases, RunPhases, EnqueuePhases, ScanPhases
  <2> QED BY <1>1, <1>3, <2>1, <2>2, <2>3, TokenStep
<1> QED BY <1>2, <1>3

(* The enqueue guard only reconciles. *)
LEMMA PassGuardFits ==
    ASSUME IInv, NEW t \in Tasks, PassGuard(t),
           pc[t] \in {"received", "found"} \/ (pc[t] = "idle" /\ kind[t] = "insert")
    PROVE  ps' \in Status /\ Fits(ps)'
<1> PICK p : p = Reconcile(ps)
  OBVIOUS
<1>1. p \in Status /\ Fits(p) /\ ~Dead(t) /\ TaskFits(t, pc[t], p)
  BY Reconciled
<1>2. PICK c \in {"refused", After(t), "writing"} : ps' = p /\ Moves(t, c)
  BY DEF PassGuard, Moves, OnlyTask
<1>3. TaskFits(t, "writing", p)
  BY <1>1 DEF TaskFits, HolderPhases, RunPhases, EnqueuePhases, ScanPhases
<1>4. TaskFits(t, c, p)
  BY <1>1, <1>3, PassiveFits DEF Passive
<1> QED BY <1>1, <1>2, <1>4, SoftStep DEF SameBusy, SameScan

(* Writing a row keeps the reservation, whether it works or not. *)
LEMMA WritingFits ==
    ASSUME IInv, NEW t \in Tasks, WriteDocument(t) \/ WriteFails(t)
    PROVE  ps' \in Status /\ Fits(ps)'
<1>1. pc[t] = "writing" /\ TaskFits(t, "writing", ps)
  BY Acting DEF WriteDocument, WriteFails
<1>2. PICK c \in {"written", "badWrite"} : Moves(t, c) /\ ps' = ps
  BY DEF WriteDocument, WriteFails, Moves, OnlyTask
<1>3. TaskFits(t, c, ps)
  BY <1>1 DEF TaskFits, HolderPhases, RunPhases, EnqueuePhases, ScanPhases
<1> QED BY <1>2, <1>3, StillStep

(* A request for another round is all an enqueue leaves behind. *)
LEMMA WakingFits ==
    ASSUME IInv, NEW t \in Tasks, Nudge(t) \/ WakeAfterError(t)
    PROVE  ps' \in Status /\ Fits(ps)'
<1>1. ps \in Status /\ Fits(ps) /\ ~Dead(t)
  BY Acting DEF Nudge, WakeAfterError
<1>2. PICK c \in {"process", After(t)} : Moves(t, c)
  BY DEF Nudge, WakeAfterError, Moves, OnlyTask
<1>3. ps' = [ps EXCEPT !.requestPending = @ \/ ps.busy]
  BY DEF Nudge, WakeAfterError
<1>4. /\ ps' \in Status /\ SameBusy(ps, ps') /\ SameScan(ps, ps')
      /\ ps'.tokens = ps.tokens /\ ps'.fenced = ps.fenced
  BY <1>1, <1>3 DEF Status, SameBusy, SameScan
<1>5. TaskFits(t, c, ps)
  BY <1>1, PassiveFits DEF Passive
<1> QED BY <1>1, <1>2, <1>4, <1>5, SoftStep

(* A token is given back. *)
LEMMA ReleaseEnqueueFits ==
    ASSUME IInv, NEW t \in Tasks, ReleaseEnqueue(t)
    PROVE  ps' \in Status /\ Fits(ps)'
<1>1. ps \in Status /\ Fits(ps) /\ ~Dead(t)
  BY Acting DEF ReleaseEnqueue
<1>2. Moves(t, "over") /\ ps' = [ps EXCEPT !.tokens = @ \ {t}]
  BY DEF ReleaseEnqueue, Moves, OnlyTask
<1>3. /\ ps' \in Status /\ SameBusy(ps, ps') /\ SameScan(ps, ps')
      /\ ps'.tokens = ps.tokens \ {t} /\ ps'.fenced = ps.fenced
  BY <1>1, <1>2 DEF Status, SameBusy, SameScan
<1>4. TaskFits(t, "over", ps')
  BY <1>1, PassiveFits DEF Passive
<1> QED BY <1>1, <1>2, <1>3, <1>4, TokenStep

-----------------------------------------------------------------------------
(* The processing run *)

(* A run takes a free slot, or goes on with the one handed to it. *)
LEMMA AcquireProcessFits ==
    ASSUME IInv, NEW t \in Tasks, AcquireProcess(t)
    PROVE  ps' \in Status /\ Fits(ps)'
<1> PICK p : p = Reconcile(ps)
  OBVIOUS
<1> DEFINE held == pc[t] = "takeover"
           leave == IF held THEN "finalize" ELSE After(t)
           free == ~p.fenced /\ (held \/ ~p.busy)
<1>1. p \in Status /\ Fits(p) /\ FlagsFit(p) /\ TornFits(p) /\ ~Dead(t) /\ TaskFits(t, pc[t], p)
  BY Reconciled DEF AcquireProcess
<1>2. TaskFits(t, leave, p)
  BY <1>1, PassiveFits DEF TaskFits, HolderPhases, RunPhases, EnqueuePhases, ScanPhases
<1>3. CASE p.fenced \/ (free /\ InQueue = {})
  <2>1. ps' = p /\ Moves(t, leave)
    BY <1>3 DEF AcquireProcess, Moves, OnlyTask
  <2> QED BY <1>1, <1>2, <2>1, SoftStep DEF SameBusy, SameScan
<1>4. CASE ~p.fenced /\ p.busy /\ ~held
  <2>1. ps' = [p EXCEPT !.requestPending = TRUE] /\ Moves(t, leave)
    BY <1>4 DEF AcquireProcess, Moves, OnlyTask
  <2>2. /\ ps' \in Status /\ SameBusy(p, ps') /\ SameScan(p, ps')
        /\ ps'.tokens = p.tokens /\ ps'.fenced = p.fenced
    BY <1>1, <2>1 DEF Status, SameBusy, SameScan
  <2> QED BY <1>1, <1>2, <2>1, <2>2, SoftStep
<1>5. CASE free /\ InQueue # {}
  <2>1. /\ ps' = [TakeBusy(p, t, "processing") EXCEPT !.requestPending = FALSE,
                                                      !.cancelled = FALSE, !.joinable = FALSE]
        /\ Moves(t, "loop")
    BY <1>5 DEF AcquireProcess, Moves, OnlyTask
  <2>2. /\ ps' \in Status /\ SameScan(p, ps') /\ ps'.tokens = p.tokens /\ ps'.fenced = p.fenced
        /\ ps'.busy /\ ps'.busyOwner = t /\ ps'.destructive = p.destructive
    BY <1>1, <2>1 DEF Status, SameScan, TakeBusy, OwnerKinds
  <2>3. ~p.destructive /\ (p.busy => p.busyOwner = t) /\ torn = {}
    BY <1>1, <1>5 DEF FlagsFit, TornFits, TaskFits, HolderPhases
  <2>4. FlagsFit(ps') /\ TornFits(ps')
    BY <1>1, <1>5, <2>2, <2>3, ConstantsAssumption DEF FlagsFit, TornFits, SameScan
  <2>5. TaskFits(t, "loop", ps')
    BY <1>1, <2>2, <2>3 DEF TaskFits, HolderPhases, RunPhases, EnqueuePhases, ScanPhases
  <2> QED BY <1>1, <2>1, <2>2, <2>3, <2>4, <2>5, BusyStep
<1> QED BY <1>3, <1>4, <1>5

(* The top of the loop keeps the slot. *)
LEMMA LoopTopFits ==
    ASSUME IInv, NEW t \in Tasks, LoopTop(t)
    PROVE  ps' \in Status /\ Fits(ps)'
<1>1. ps \in Status /\ Fits(ps) /\ TaskFits(t, "loop", ps)
  BY Acting DEF LoopTop
<1>2. PICK c \in {"finalize", "exit", "batch"} : Moves(t, c)
  BY DEF LoopTop, Moves, OnlyTask
<1>3. ps' = ps \/ ps' = [ps EXCEPT !.requestPending = FALSE, !.cancelled = FALSE]
  BY DEF LoopTop
<1>4. /\ ps' \in Status /\ SameBusy(ps, ps') /\ SameScan(ps, ps')
      /\ ps'.tokens = ps.tokens /\ ps'.fenced = ps.fenced
  BY <1>1, <1>3 DEF Status, SameBusy, SameScan
<1>5. TaskFits(t, c, ps)
  BY <1>1 DEF TaskFits, HolderPhases, RunPhases, EnqueuePhases, ScanPhases
<1> QED BY <1>1, <1>2, <1>4, <1>5, SoftStep

(* Batches and fetches keep the slot. *)
LEMMA InRunFits ==
    ASSUME IInv, NEW t \in Tasks, BatchEnds(t) \/ Refetch(t)
    PROVE  ps' \in Status /\ Fits(ps)'
<1>1. pc[t] \in {"batch", "refetch"} /\ TaskFits(t, pc[t], ps)
  BY Acting DEF BatchEnds, Refetch
<1>2. PICK c \in {"exit", "loop"} : Moves(t, c) /\ ps' = ps
  BY DEF BatchEnds, Refetch, Moves, OnlyTask
<1>3. TaskFits(t, c, ps)
  BY <1>1 DEF TaskFits, HolderPhases, RunPhases, EnqueuePhases, ScanPhases
<1> QED BY <1>2, <1>3, StillStep

(* The cancellation flag is raised, by a user or by a failing flush. *)
LEMMA CancelFits ==
    ASSUME IInv, ps' = [ps EXCEPT !.cancelled = TRUE],
           UNCHANGED <<kind, pc, dead, torn, resets>>
    PROVE  ps' \in Status /\ Fits(ps)'
<1>1. ps \in Status /\ FlagsFit(ps) /\ TornFits(ps)
  BY DEF IInv, TypeOK, Fits
<1>2. /\ ps' \in Status /\ SameBusy(ps, ps') /\ SameScan(ps, ps')
      /\ ps'.tokens = ps.tokens /\ ps'.fenced = ps.fenced
  BY <1>1 DEF Status, SameBusy, SameScan
<1>3. FlagsFit(ps)' /\ TornFits(ps)'
  BY <1>1, <1>2 DEF FlagsFit, TornFits, SameBusy, SameScan, Dead
<1>4. ASSUME NEW t \in Tasks PROVE TaskFits(t, pc[t], ps)'
  <2>1. TaskFits(t, pc[t], ps)
    BY DEF IInv, Fits
  <2> QED BY <2>1, <1>2 DEF TaskFits, SameBusy, SameScan, Dead
<1> QED BY <1>2, <1>3, <1>4 DEF Fits

(* A holder whose slot is not destructive frees it. *)
LEMMA FreeFits ==
    ASSUME IInv, NEW t \in Tasks, NEW c, Moves(t, c), pc[t] # "dead",
           ps.busyOwner = t, ~ps.destructive,
           ps' \in Status, ~ps'.busy, ps'.busyOwner = NoTask, ~ps'.destructive,
           SameScan(ps, ps'), ps'.tokens = ps.tokens, ps'.fenced = ps.fenced,
           TaskFits(t, c, ps')
    PROVE  Fits(ps)'
<1>1. Fits(ps) /\ FlagsFit(ps) /\ TornFits(ps) /\ ~Dead(t)
  BY Acting
<1>2. FlagsFit(ps') /\ TornFits(ps')
  BY <1>1 DEF FlagsFit, TornFits, SameScan
<1> QED BY <1>1, <1>2, BusyStep

(* The loop frees the slot it owns, or keeps it for another round. *)
LEMMA ExitOrConsumeFits ==
    ASSUME IInv, NEW t \in Tasks, ExitOrConsume(t)
    PROVE  ps' \in Status /\ Fits(ps)'
<1>1. ps \in Status /\ Fits(ps) /\ ~Dead(t) /\ TaskFits(t, "exit", ps) /\ pc[t] # "dead"
  BY Acting DEF ExitOrConsume
<1>2. CASE ps.requestPending
  <2>1. ps' = [ps EXCEPT !.requestPending = FALSE] /\ Moves(t, "refetch")
    BY <1>2 DEF ExitOrConsume, Moves, OnlyTask
  <2>2. /\ ps' \in Status /\ SameBusy(ps, ps') /\ SameScan(ps, ps')
        /\ ps'.tokens = ps.tokens /\ ps'.fenced = ps.fenced
    BY <1>1, <2>1 DEF Status, SameBusy, SameScan
  <2>3. TaskFits(t, "refetch", ps)
    BY <1>1 DEF TaskFits, HolderPhases, RunPhases, EnqueuePhases, ScanPhases
  <2> QED BY <1>1, <2>1, <2>2, <2>3, SoftStep
<1>3. CASE ~ps.requestPending
  <2>1. ps' = FreeBusy(ps) /\ Moves(t, "stopped")
    BY <1>3 DEF ExitOrConsume, Moves, OnlyTask
  <2>2. ps.busyOwner = t /\ ~ps.destructive
    BY <1>1 DEF TaskFits, HolderPhases, RunPhases
  <2>3. /\ ps' \in Status /\ ~ps'.busy /\ ps'.busyOwner = NoTask /\ ~ps'.destructive
        /\ SameScan(ps, ps') /\ ps'.tokens = ps.tokens /\ ps'.fenced = ps.fenced
    BY <1>1, <2>1, <2>2 DEF Status, FreeBusy, SameScan, OwnerKinds
  <2>4. TaskFits(t, "stopped", ps')
    BY <1>1, PassiveFits DEF Passive
  <2> QED BY <1>1, <2>1, <2>2, <2>3, <2>4, FreeFits
<1> QED BY <1>2, <1>3

(* The finally frees the slot once, and not after the loop did. *)
LEMMA FinalizeFits ==
    ASSUME IInv, NEW t \in Tasks, Finalize(t)
    PROVE  ps' \in Status /\ Fits(ps)'
<1>1. ps \in Status /\ Fits(ps) /\ ~Dead(t) /\ TaskFits(t, pc[t], ps) /\ pc[t] # "dead"
  BY Acting DEF Finalize
<1>2. Moves(t, After(t)) /\ \A p : TaskFits(t, After(t), p)
  BY <1>1, PassiveFits DEF Finalize, Moves, OnlyTask
<1>3. CASE pc[t] = "finalize"
  <2>1. ps.busyOwner = t /\ ~ps.destructive
    BY <1>1, <1>3 DEF TaskFits, HolderPhases, RunPhases
  <2>2. FreeBusy(ps).busyOwner = NoTask
    BY <1>1 DEF Status, FreeBusy
  <2>3. ps' = [FreeBusy(ps) EXCEPT !.cancelled = FALSE]
    BY <1>3, <2>1, <2>2 DEF Finalize, IfOwner
  <2>4. /\ ps' \in Status /\ ~ps'.busy /\ ps'.busyOwner = NoTask /\ ~ps'.destructive
        /\ SameScan(ps, ps') /\ ps'.tokens = ps.tokens /\ ps'.fenced = ps.fenced
    BY <1>1, <2>1, <2>3 DEF Status, FreeBusy, SameScan, OwnerKinds
  <2> QED BY <1>1, <1>2, <2>1, <2>4, FreeFits
<1>4. CASE pc[t] = "stopped"
  <2>1. ps' = ps \/ ps' = [ps EXCEPT !.cancelled = FALSE]
    BY <1>4 DEF Finalize
  <2>2. /\ ps' \in Status /\ SameBusy(ps, ps') /\ SameScan(ps, ps')
        /\ ps'.tokens = ps.tokens /\ ps'.fenced = ps.fenced
    BY <1>1, <2>1 DEF Status, SameBusy, SameScan
  <2> QED BY <1>1, <1>2, <2>2, SoftStep
<1> QED BY <1>3, <1>4 DEF Finalize

(* The look at the fence only reconciles. *)
LEMMA ReprocessFits ==
    ASSUME IInv, NEW t \in Tasks, Reprocess(t)
    PROVE  ps' \in Status /\ Fits(ps)'
<1> PICK p : p = Reconcile(ps)
  OBVIOUS
<1>1. p \in Status /\ Fits(p) /\ ~Dead(t)
  BY Reconciled DEF Reprocess
<1>2. PICK c \in {"refused", "process"} : Moves(t, c) /\ ps' = p
  BY DEF Reprocess, Moves, OnlyTask
<1>3. TaskFits(t, c, p)
  BY <1>1, PassiveFits DEF Passive
<1> QED BY <1>1, <1>2, <1>3, SoftStep DEF SameBusy, SameScan

-----------------------------------------------------------------------------
(* Scans *)

(* A scan starts beside no holder, no scan and no token. *)
LEMMA StartScanFits ==
    ASSUME IInv, NEW t \in Tasks, StartScan(t)
    PROVE  ps' \in Status /\ Fits(ps)'
<1> PICK p : p = Reconcile(ps)
  OBVIOUS
<1> DEFINE taken == p.fenced \/ p.busy \/ p.scanning \/ p.tokens # {}
<1>1. p \in Status /\ Fits(p) /\ FlagsFit(p) /\ ~Dead(t)
  BY Reconciled DEF StartScan
<1>2. CASE taken
  <2>1. ps' = p /\ Moves(t, "refused")
    BY <1>2 DEF StartScan, Moves, OnlyTask
  <2>2. TaskFits(t, "refused", p)
    BY <1>1, PassiveFits DEF Passive
  <2> QED BY <1>1, <2>1, <2>2, SoftStep DEF SameBusy, SameScan
<1>3. CASE ~taken
  <2>1. /\ ps' = [p EXCEPT !.scanning = TRUE, !.exclusive = TRUE, !.scanOwner = t]
        /\ Moves(t, "classify") /\ kind[t] = "scan"
    BY <1>3 DEF StartScan, Moves, OnlyTask
  <2>2. /\ ps' \in Status /\ SameBusy(p, ps') /\ ps'.tokens = p.tokens /\ ps'.fenced = p.fenced
        /\ ps'.scanning /\ ps'.exclusive /\ ps'.scanOwner = t
    BY <1>1, <2>1 DEF Status, SameBusy
  <2>3. FlagsFit(ps')
    BY <1>1, <2>2, ConstantsAssumption DEF FlagsFit, SameBusy
  <2>4. TaskFits(t, "classify", ps')
    BY <1>1, <1>3, <2>1, <2>2 DEF TaskFits, HolderPhases, RunPhases, EnqueuePhases, ScanPhases
  <2> QED BY <1>1, <1>3, <2>1, <2>2, <2>3, <2>4, ScanStep
<1> QED BY <1>2, <1>3

(* The exclusion that is dropped in place is the scan's own, or was reset. *)
LEMMA EndClassificationFits ==
    ASSUME IInv, NEW t \in Tasks, EndClassification(t)
    PROVE  ps' \in Status /\ Fits(ps)'
<1>1. ps \in Status /\ Fits(ps) /\ FlagsFit(ps) /\ ~Dead(t) /\ TaskFits(t, "classify", ps)
  BY Acting DEF EndClassification
<1>2. PICK c \in {"found", "process", "leaving"} : Moves(t, c)
  BY DEF EndClassification, Moves, OnlyTask
<1>3. ps' = [ps EXCEPT !.exclusive = FALSE]
  BY DEF EndClassification
<1>4. /\ ps' \in Status /\ SameBusy(ps, ps') /\ ps'.tokens = ps.tokens /\ ps'.fenced = ps.fenced
      /\ ps'.scanning = ps.scanning /\ ~ps'.exclusive /\ ps'.scanOwner = ps.scanOwner
  BY <1>1, <1>3 DEF Status, SameBusy
<1>5. FlagsFit(ps')
  BY <1>1, <1>4 DEF FlagsFit, SameBusy
<1>6. kind[t] = "scan" /\ (resets = 0 => ps.scanning /\ ps.scanOwner = t)
  BY <1>1 DEF TaskFits, ScanPhases
<1>7. TaskFits(t, c, ps')
  BY <1>1, <1>4, <1>6 DEF TaskFits, HolderPhases, RunPhases, EnqueuePhases, ScanPhases
<1> QED BY <1>1, <1>2, <1>4, <1>5, <1>6, <1>7, ScanStep

(* A scan releases what is still its own. *)
LEMMA ReleaseScanFits ==
    ASSUME IInv, NEW t \in Tasks, ReleaseScan(t)
    PROVE  ps' \in Status /\ Fits(ps)'
<1>1. ps \in Status /\ Fits(ps) /\ FlagsFit(ps) /\ ~Dead(t)
  BY Acting DEF ReleaseScan
<1>2. Moves(t, "over") /\ \A p : TaskFits(t, "over", p)
  BY <1>1, PassiveFits DEF ReleaseScan, Moves, OnlyTask, Passive
<1>3. CASE ps.scanOwner = t
  <2>1. ps' = [ps EXCEPT !.scanning = FALSE, !.exclusive = FALSE, !.scanOwner = NoTask]
    BY <1>3 DEF ReleaseScan
  <2>2. /\ ps' \in Status /\ SameBusy(ps, ps') /\ ps'.tokens = ps.tokens /\ ps'.fenced = ps.fenced
        /\ ~ps'.scanning /\ ~ps'.exclusive /\ ps'.scanOwner = NoTask
    BY <1>1, <2>1 DEF Status, SameBusy
  <2>3. FlagsFit(ps')
    BY <1>1, <2>2 DEF FlagsFit, SameBusy
  <2> QED BY <1>1, <1>2, <1>3, <2>2, <2>3, ScanStep
<1>4. CASE ps.scanOwner # t
  <2>1. ps' = ps
    BY <1>4 DEF ReleaseScan
  <2> QED BY <1>2, <2>1, StillStep
<1> QED BY <1>3, <1>4

-----------------------------------------------------------------------------
(* Clearing and deleting *)

(* A free slot is taken by a task that works on the storages. *)
LEMMA TakeFits ==
    ASSUME IInv, NEW t \in Tasks, NEW c, Moves(t, c), NEW p, Fits(p), ~p.busy, ~p.fenced,
           ps'.busy, ps'.busyOwner = t, ps'.destructive => kind[t] \in {"clear", "delete"},
           SameScan(p, ps'), ps'.tokens = p.tokens, ps'.fenced = p.fenced,
           TaskFits(t, c, ps')
    PROVE  Fits(ps)'
<1>1. FlagsFit(p) /\ torn = {}
  BY DEF Fits, TornFits
<1>2. FlagsFit(ps') /\ TornFits(ps')
  BY <1>1, ConstantsAssumption DEF FlagsFit, TornFits, SameScan
<1> QED BY <1>2, BusyStep

(* A clear or a batch deletion starts alone. *)
LEMMA AcquireDestructiveFits ==
    ASSUME IInv, NEW t \in Tasks, AcquireDestructive(t)
    PROVE  ps' \in Status /\ Fits(ps)'
<1> PICK p : p = Reconcile(ps)
  OBVIOUS
<1> DEFINE taken == p.fenced \/ p.busy \/ p.scanning \/ p.tokens # {}
<1>1. p \in Status /\ Fits(p) /\ ~Dead(t)
  BY Reconciled DEF AcquireDestructive
<1>2. CASE taken
  <2>1. ps' = p /\ Moves(t, "refused")
    BY <1>2 DEF AcquireDestructive, Moves, OnlyTask
  <2>2. TaskFits(t, "refused", p)
    BY <1>1, PassiveFits DEF Passive
  <2> QED BY <1>1, <2>1, <2>2, SoftStep DEF SameBusy, SameScan
<1>3. CASE ~taken
  <2>1. /\ ps' = [TakeBusy(p, t, kind[t]) EXCEPT !.destructive = TRUE]
        /\ Moves(t, "claimed") /\ kind[t] \in {"clear", "delete"}
    BY <1>3 DEF AcquireDestructive, Moves, OnlyTask
  <2>2. /\ ps' \in Status /\ SameScan(p, ps') /\ ps'.tokens = p.tokens /\ ps'.fenced = p.fenced
        /\ ps'.busy /\ ps'.busyOwner = t /\ ps'.destructive /\ ps'.busyKind = kind[t]
    BY <1>1, <2>1 DEF Status, SameScan, TakeBusy, OwnerKinds
  <2>3. TaskFits(t, "claimed", ps')
    BY <1>1, <1>3, <2>1, <2>2
       DEF TaskFits, HolderPhases, RunPhases, EnqueuePhases, ScanPhases, SameScan, Rerunnable
  <2> QED BY <1>1, <1>3, <2>1, <2>2, <2>3, TakeFits
<1> QED BY <1>2, <1>3

(* The announcement changes soft fields. *)
LEMMA AnnounceFits ==
    ASSUME IInv, NEW t \in Tasks, Announce(t)
    PROVE  ps' \in Status /\ Fits(ps)'
<1>1. ps \in Status /\ Fits(ps) /\ TaskFits(t, "claimed", ps)
  BY Acting DEF Announce
<1>2. /\ Moves(t, "destroy")
      /\ ps' = [ps EXCEPT !.requestPending = @ /\ kind[t] # "clear", !.joinable = kind[t] = "delete"]
  BY DEF Announce, Moves, OnlyTask
<1>3. /\ ps' \in Status /\ SameBusy(ps, ps') /\ SameScan(ps, ps')
      /\ ps'.tokens = ps.tokens /\ ps'.fenced = ps.fenced
  BY <1>1, <1>2 DEF Status, SameBusy, SameScan
<1>4. TaskFits(t, "destroy", ps)
  BY <1>1 DEF TaskFits, HolderPhases, RunPhases, EnqueuePhases, ScanPhases
<1> QED BY <1>1, <1>2, <1>3, <1>4, SoftStep

(* The destruction is done under the slot. *)
LEMMA DestroyFits ==
    ASSUME IInv, NEW t \in Tasks, Destroy(t)
    PROVE  ps' \in Status /\ Fits(ps)'
<1>1. TaskFits(t, "destroy", ps)
  BY Acting DEF Destroy
<1>2. Moves(t, "release") /\ ps' = ps
  BY DEF Destroy, Moves, OnlyTask
<1>3. TaskFits(t, "release", ps)
  BY <1>1 DEF TaskFits, HolderPhases, RunPhases, EnqueuePhases, ScanPhases
<1> QED BY <1>2, <1>3, StillStep

(* Every other release of the slot: nothing happens unless it is still t's. *)
LEMMA ReleaseFits ==
    ASSUME IInv, NEW t \in Tasks, NEW c, Moves(t, c), pc[t] # "dead", NEW q,
           ps' = IfOwner(t, q),
           ps.busyOwner = t =>
               /\ q \in Status /\ ~q.busy /\ q.busyOwner = NoTask /\ ~q.destructive
               /\ SameScan(ps, q) /\ q.tokens = ps.tokens /\ q.fenced = ps.fenced,
           \A p : TaskFits(t, c, p)
    PROVE  ps' \in Status /\ Fits(ps)'
<1>1. Fits(ps) /\ FlagsFit(ps) /\ TornFits(ps) /\ ~Dead(t)
  BY Acting
<1>2. CASE ps.busyOwner = t
  <2>1. ps' = q
    BY <1>2 DEF IfOwner
  <2>2. FlagsFit(ps') /\ TornFits(ps')
    BY <1>1, <1>2, <2>1 DEF FlagsFit, TornFits, SameScan
  <2> QED BY <1>1, <1>2, <2>1, <2>2, BusyStep
<1>3. CASE ps.busyOwner # t
  <2>1. ps' = ps
    BY <1>3 DEF IfOwner
  <2> QED BY <2>1, StillStep
<1> QED BY <1>2, <1>3

(* A clear or a batch deletion releases both its flags. *)
LEMMA ReleaseDestructiveFits ==
    ASSUME IInv, NEW t \in Tasks, ReleaseDestructive(t)
    PROVE  ps' \in Status /\ Fits(ps)'
<1> DEFINE q == [FreeBusy(ps) EXCEPT !.destructive = FALSE, !.cancelled = @ /\ kind[t] = "clear"]
<1>1. ps \in Status /\ ~Dead(t) /\ pc[t] # "dead"
  BY Acting DEF ReleaseDestructive
<1>2. PICK c \in {"process", "over"} : Moves(t, c)
  BY DEF ReleaseDestructive, Moves, OnlyTask
<1>3. /\ q \in Status /\ ~q.busy /\ q.busyOwner = NoTask /\ ~q.destructive
      /\ SameScan(ps, q) /\ q.tokens = ps.tokens /\ q.fenced = ps.fenced
  BY <1>1 DEF Status, FreeBusy, SameScan, OwnerKinds
<1>4. ps' = IfOwner(t, q)
  BY DEF ReleaseDestructive
<1>5. \A p : TaskFits(t, c, p)
  BY <1>1, PassiveFits DEF Passive
<1> HIDE DEF q
<1> QED BY <1>1, <1>2, <1>3, <1>4, <1>5, ReleaseFits

(* A single deletion takes a free slot, or joins. *)
LEMMA AcquireDeleteOneFits ==
    ASSUME IInv, NEW t \in Tasks, AcquireDeleteOne(t)
    PROVE  ps' \in Status /\ Fits(ps)'
<1> PICK p : p = Reconcile(ps)
  OBVIOUS
<1>1. p \in Status /\ Fits(p) /\ FlagsFit(p) /\ ~Dead(t)
  BY Reconciled DEF AcquireDeleteOne
<1>2. CASE p.fenced \/ p.busy
  <2>1. PICK c \in {"refused", "joined"} : ps' = p /\ Moves(t, c)
    BY <1>2 DEF AcquireDeleteOne, Moves, OnlyTask
  <2>2. TaskFits(t, c, p)
    BY <1>1, PassiveFits DEF Passive
  <2> QED BY <1>1, <2>1, <2>2, SoftStep DEF SameBusy, SameScan
<1>3. CASE ~(p.fenced \/ p.busy)
  <2>1. /\ ps' = [TakeBusy(p, t, "delete") EXCEPT !.requestPending = FALSE, !.cancelled = FALSE,
                                                  !.joinable = FALSE]
        /\ Moves(t, "deleting")
    BY <1>3 DEF AcquireDeleteOne, Moves, OnlyTask
  <2>2. /\ ps' \in Status /\ SameScan(p, ps') /\ ps'.tokens = p.tokens /\ ps'.fenced = p.fenced
        /\ ps'.busy /\ ps'.busyOwner = t /\ ps'.destructive = p.destructive /\ ps'.busyKind = "delete"
    BY <1>1, <2>1 DEF Status, SameScan, TakeBusy, OwnerKinds
  <2>3. ~ps'.destructive
    BY <1>1, <1>3, <2>2 DEF FlagsFit
  <2>4. TaskFits(t, "deleting", ps')
    BY <1>1, <2>2, <2>3 DEF TaskFits, HolderPhases, RunPhases, EnqueuePhases, ScanPhases, Rerunnable
  <2> QED BY <1>1, <1>3, <2>1, <2>2, <2>3, <2>4, TakeFits
<1> QED BY <1>2, <1>3

(* A deletion keeps the slot, if it has one. *)
LEMMA DeleteOneFits ==
    ASSUME IInv, NEW t \in Tasks, DeleteOne(t)
    PROVE  ps' \in Status /\ Fits(ps)'
<1> DEFINE c == IF pc[t] = "deleting" THEN "releaseOne" ELSE "over"
<1>1. TaskFits(t, pc[t], ps) /\ ~Dead(t)
  BY Acting DEF DeleteOne
<1>2. Moves(t, c) /\ ps' = ps
  BY DEF DeleteOne, Moves, OnlyTask
<1>3. TaskFits(t, c, ps)
  BY <1>1 DEF TaskFits, HolderPhases, RunPhases, EnqueuePhases, ScanPhases
<1> QED BY <1>2, <1>3, StillStep

(* A single deletion releases its slot. *)
LEMMA ReleaseOneFits ==
    ASSUME IInv, NEW t \in Tasks, ReleaseOne(t)
    PROVE  ps' \in Status /\ Fits(ps)'
<1> DEFINE q == [FreeBusy(ps) EXCEPT !.cancelled = FALSE]
<1>1. ps \in Status /\ ~Dead(t) /\ pc[t] # "dead" /\ TaskFits(t, "releaseOne", ps)
  BY Acting DEF ReleaseOne
<1>2. Moves(t, "over") /\ ps' = IfOwner(t, q)
  BY DEF ReleaseOne, Moves, OnlyTask
<1>3. ~ps.destructive
  BY <1>1 DEF TaskFits, HolderPhases
<1>4. /\ q \in Status /\ ~q.busy /\ q.busyOwner = NoTask /\ ~q.destructive
      /\ SameScan(ps, q) /\ q.tokens = ps.tokens /\ q.fenced = ps.fenced
  BY <1>1, <1>3 DEF Status, FreeBusy, SameScan, OwnerKinds
<1>5. \A p : TaskFits(t, "over", p)
  BY <1>1, PassiveFits DEF Passive
<1> HIDE DEF q
<1> QED BY <1>1, <1>2, <1>4, <1>5, ReleaseFits

-----------------------------------------------------------------------------
(* Custom insertions *)

(* A custom insertion starts beside no holder and no scan. *)
LEMMA AcquireCustomFits ==
    ASSUME IInv, NEW t \in Tasks, AcquireCustom(t)
    PROVE  ps' \in Status /\ Fits(ps)'
<1> PICK p : p = Reconcile(ps)
  OBVIOUS
<1> DEFINE taken == p.fenced \/ p.busy \/ p.scanning
<1>1. p \in Status /\ Fits(p) /\ FlagsFit(p) /\ ~Dead(t)
  BY Reconciled DEF AcquireCustom
<1>2. CASE taken
  <2>1. ps' = p /\ Moves(t, "refused")
    BY <1>2 DEF AcquireCustom, Moves, OnlyTask
  <2>2. TaskFits(t, "refused", p)
    BY <1>1, PassiveFits DEF Passive
  <2> QED BY <1>1, <2>1, <2>2, SoftStep DEF SameBusy, SameScan
<1>3. CASE ~taken
  <2>1. /\ ps' = [TakeBusy(p, t, "custom_chunks") EXCEPT !.cancelled = FALSE, !.joinable = FALSE]
        /\ Moves(t, "inserting") /\ kind[t] = "custom"
    BY <1>3 DEF AcquireCustom, Moves, OnlyTask
  <2>2. /\ ps' \in Status /\ SameScan(p, ps') /\ ps'.tokens = p.tokens /\ ps'.fenced = p.fenced
        /\ ps'.busy /\ ps'.busyOwner = t /\ ps'.destructive = p.destructive
        /\ ps'.busyKind = "custom_chunks"
    BY <1>1, <2>1 DEF Status, SameScan, TakeBusy, OwnerKinds
  <2>3. ~ps'.destructive
    BY <1>1, <1>3, <2>2 DEF FlagsFit
  <2>4. TaskFits(t, "inserting", ps')
    BY <1>1, <1>3, <2>1, <2>2, <2>3
       DEF TaskFits, HolderPhases, RunPhases, EnqueuePhases, ScanPhases, SameScan, Rerunnable
  <2> QED BY <1>1, <1>3, <2>1, <2>2, <2>3, <2>4, TakeFits
<1> QED BY <1>2, <1>3

(* The insertion keeps the slot. *)
LEMMA InsertChunksFits ==
    ASSUME IInv, NEW t \in Tasks, InsertChunks(t)
    PROVE  ps' \in Status /\ Fits(ps)'
<1>1. TaskFits(t, "inserting", ps)
  BY Acting DEF InsertChunks
<1>2. Moves(t, "exitCustom") /\ ps' = ps
  BY DEF InsertChunks, Moves, OnlyTask
<1>3. TaskFits(t, "exitCustom", ps)
  BY <1>1 DEF TaskFits, HolderPhases, RunPhases, EnqueuePhases, ScanPhases
<1> QED BY <1>2, <1>3, StillStep

(* A holder keeps its slot for the processing run it was asked for, or frees it. *)
LEMMA ExitCustomFits ==
    ASSUME IInv, NEW t \in Tasks, ExitCustom(t)
    PROVE  ps' \in Status /\ Fits(ps)'
<1>1. ps \in Status /\ Fits(ps) /\ ~Dead(t) /\ pc[t] # "dead" /\ TaskFits(t, "exitCustom", ps)
  BY Acting DEF ExitCustom
<1>2. ps.busyOwner = t /\ ~ps.destructive /\ kind[t] = "custom"
  BY <1>1 DEF TaskFits, HolderPhases, RunPhases
<1>3. CASE ps.requestPending
  <2>1. ps' = [ps EXCEPT !.cancelled = FALSE] /\ Moves(t, "takeover")
    BY <1>2, <1>3 DEF ExitCustom, IfOwner, Moves, OnlyTask
  <2>2. /\ ps' \in Status /\ SameBusy(ps, ps') /\ SameScan(ps, ps')
        /\ ps'.tokens = ps.tokens /\ ps'.fenced = ps.fenced
    BY <1>1, <2>1 DEF Status, SameBusy, SameScan
  <2>3. TaskFits(t, "takeover", ps)
    BY <1>1 DEF TaskFits, HolderPhases, RunPhases, EnqueuePhases, ScanPhases
  <2> QED BY <1>1, <2>1, <2>2, <2>3, SoftStep
<1>4. CASE ~ps.requestPending
  <2>1. ps' = [FreeBusy(ps) EXCEPT !.cancelled = FALSE] /\ Moves(t, "terminal")
    BY <1>2, <1>4 DEF ExitCustom, IfOwner, Moves, OnlyTask
  <2>2. /\ ps' \in Status /\ ~ps'.busy /\ ps'.busyOwner = NoTask /\ ~ps'.destructive
        /\ SameScan(ps, ps') /\ ps'.tokens = ps.tokens /\ ps'.fenced = ps.fenced
    BY <1>1, <1>2, <2>1 DEF Status, FreeBusy, SameScan, OwnerKinds
  <2>3. TaskFits(t, "terminal", ps')
    BY <1>1, <1>2 DEF TaskFits, HolderPhases, RunPhases, EnqueuePhases, ScanPhases
  <2> QED BY <1>1, <1>2, <2>1, <2>2, <2>3, FreeFits
<1> QED BY <1>3, <1>4

(* The backstop finds the slot its own, not destructive, or somebody else's. *)
LEMMA TerminalReleaseFits ==
    ASSUME IInv, NEW t \in Tasks, TerminalRelease(t)
    PROVE  ps' \in Status /\ Fits(ps)'
<1> DEFINE q == [FreeBusy(ps) EXCEPT !.cancelled = FALSE]
<1>1. /\ ps \in Status /\ FlagsFit(ps) /\ ~Dead(t) /\ pc[t] # "dead"
      /\ TaskFits(t, "terminal", ps)
  BY Acting DEF TerminalRelease
<1>2. Moves(t, "over") /\ ps' = IfOwner(t, q)
  BY DEF TerminalRelease, Moves, OnlyTask
<1>3. ps.busyOwner = t => ~ps.destructive
  BY <1>1 DEF TaskFits, FlagsFit
<1>4. ps.busyOwner = t =>
          /\ q \in Status /\ ~q.busy /\ q.busyOwner = NoTask /\ ~q.destructive
          /\ SameScan(ps, q) /\ q.tokens = ps.tokens /\ q.fenced = ps.fenced
  BY <1>1, <1>3 DEF Status, FreeBusy, SameScan, OwnerKinds
<1>5. \A p : TaskFits(t, "over", p)
  BY <1>1, PassiveFits DEF Passive
<1> HIDE DEF q
<1> QED BY <1>1, <1>2, <1>4, <1>5, ReleaseFits

-----------------------------------------------------------------------------
(* Faults *)

(* The finally that runs next is the one the phase needs. *)
LEMMA InterruptFits ==
    ASSUME IInv, NEW t \in Tasks, Interrupt(t)
    PROVE  ps' \in Status /\ Fits(ps)'
<1>1. ~Dead(t) /\ TaskFits(t, pc[t], ps)
  BY Acting DEF Interrupt, EnqueuePhases
<1>2. Moves(t, Cleanup(t)) /\ ps' = ps
  BY DEF Interrupt, Moves
<1>3. \/ Cleanup(t) = "finalize" /\ pc[t] \in {"loop", "batch", "exit", "refetch"}
      \/ Cleanup(t) = "release" /\ pc[t] \in {"claimed", "destroy"}
      \/ Cleanup(t) = "exitCustom" /\ pc[t] = "inserting"
      \/ Cleanup(t) = "terminal" /\ pc[t] = "takeover"
      \/ Cleanup(t) = "releaseOne" /\ pc[t] = "deleting"
      \/ Cleanup(t) = After(t) /\ TaskFits(t, After(t), ps)
  BY <1>1, PassiveFits DEF Cleanup
<1>4. TaskFits(t, Cleanup(t), ps)
  BY <1>1, <1>3 DEF TaskFits, HolderPhases, RunPhases, EnqueuePhases, ScanPhases
<1> QED BY <1>2, <1>4, StillStep

(* Whoever dies halfway through a change owns the slot, with a kind that will *)
(* fence the workspace.                                                       *)
LEMMA CrashFits ==
    ASSUME IInv, NEW w \in Workers, Crash(w)
    PROVE  ps' \in Status /\ Fits(ps)'
<1> DEFINE T == {t \in Tasks : Worker[t] = w /\ pc[t] \in {"destroy", "inserting", "deleting"}}
<1>1. ps' = ps /\ kind' = kind /\ resets' = resets /\ dead' = dead \cup {w} /\ torn' = torn \cup T
  BY DEF Crash
<1>2. pc \in [Tasks -> Phases] /\ pc' = [t \in Tasks |-> IF Worker[t] = w THEN "dead" ELSE pc[t]]
  BY DEF Crash, IInv, TypeOK
<1>3. ps \in Status /\ FlagsFit(ps) /\ TornFits(ps)
  BY DEF IInv, TypeOK, Fits
<1>4. FlagsFit(ps)'
  BY <1>1, <1>3 DEF FlagsFit
<1>5. TornFits(ps)'
  <2>1. CASE T = {}
    BY <1>1, <1>3, <2>1 DEF TornFits, Dead
  <2>2. CASE T # {}
    <3>1. PICK t \in Tasks : Worker[t] = w /\ pc[t] \in {"destroy", "inserting", "deleting"}
      BY <2>2
    <3>2. TaskFits(t, pc[t], ps)
      BY DEF IInv, Fits
    <3>3. ps.busy /\ ps.busyOwner = t /\ ps.busyKind \notin Rerunnable
      BY <3>1, <3>2 DEF TaskFits, HolderPhases
    <3> QED BY <3>1, <3>3, <1>1 DEF TornFits, Dead
  <2> QED BY <2>1, <2>2
<1>6. ASSUME NEW t \in Tasks PROVE TaskFits(t, pc[t], ps)'
  <2>1. TaskFits(t, pc[t], ps)
    BY DEF IInv, Fits
  <2>2. CASE Worker[t] = w
    <3>1. pc'[t] = "dead" /\ Dead(t)'
      BY <2>2, <1>1, <1>2, ConstantsAssumption DEF Dead
    <3> QED BY <3>1, <1>1 DEF TaskFits, HolderPhases, RunPhases, EnqueuePhases, ScanPhases
  <2>3. CASE Worker[t] # w
    <3>1. pc'[t] = pc[t] /\ (Dead(t)' <=> Dead(t))
      BY <2>3, <1>1, <1>2 DEF Dead
    <3> QED BY <3>1, <2>1, <1>1 DEF TaskFits
  <2> QED BY <2>2, <2>3
<1> QED BY <1>1, <1>3, <1>4, <1>5, <1>6 DEF Fits

(* A fenced workspace has no holder, so the reset takes nobody's slot. *)
LEMMA ForceResetFits ==
    ASSUME IInv, ForceReset
    PROVE  ps' \in Status /\ Fits(ps)'
<1>1. /\ ps' = [FreeBusy(ps) EXCEPT !.fenced = FALSE, !.destructive = FALSE, !.scanning = FALSE,
                                    !.exclusive = FALSE, !.scanOwner = NoTask]
      /\ pc' = pc /\ kind' = kind /\ dead' = dead /\ torn' = {} /\ resets' = resets + 1
  BY DEF ForceReset
<1>2. ps \in Status /\ FlagsFit(ps) /\ ps.fenced /\ resets \in Nat
  BY ConstantsAssumption DEF IInv, TypeOK, Fits, ForceReset
<1>3. /\ ps' \in Status /\ ~ps'.busy /\ ~ps'.destructive /\ ps'.busyOwner = NoTask
      /\ ~ps'.scanning /\ ~ps'.exclusive /\ ps'.scanOwner = NoTask
      /\ ps'.tokens = ps.tokens /\ ~ps'.fenced
  BY <1>1, <1>2 DEF Status, FreeBusy, OwnerKinds
<1>4. FlagsFit(ps)' /\ TornFits(ps)' /\ resets' # 0
  BY <1>1, <1>2, <1>3 DEF FlagsFit, TornFits
<1>5. ASSUME NEW t \in Tasks PROVE TaskFits(t, pc[t], ps)'
  <2>1. TaskFits(t, pc[t], ps)
    BY DEF IInv, Fits
  <2>2. pc[t] \notin HolderPhases
    BY <2>1, <1>2 DEF TaskFits, FlagsFit
  <2> QED BY <2>1, <2>2, <1>1, <1>3, <1>4 DEF TaskFits, HolderPhases, Dead
<1> QED BY <1>3, <1>4, <1>5 DEF Fits

-----------------------------------------------------------------------------
(* The whole *)

(* What a step of a task does to everything but pipeline_status has its type. *)
Typed ==
    /\ kind' \in [Tasks -> Kinds]
    /\ docs' \in [Tasks -> {"none", "pending", "failed", "done", "gone"}]
    /\ pc' \in [Tasks -> Phases]
    /\ todo' \in [Tasks -> SUBSET Tasks]
    /\ dead' \subseteq Mortal
    /\ torn' \subseteq Tasks
    /\ faults' \in 0 .. MaxFaults /\ resets' \in 0 .. MaxResets

(* Steps that start a task keep the types of everything but the status. *)
LEMMA BeginTyped ==
    ASSUME IInv, NEW t \in Tasks, Begin(t)
    PROVE  Typed
<1>1. PICK c \in {"received", "writing", "refused", "process", "classify", "claimed",
                  "deleting", "joined", "inserting", After(t)} : pc' = [pc EXCEPT ![t] = c]
  BY DEF Begin, ReserveEnqueue, StartInsert, PassGuard, Reprocess, StartScan, AcquireDestructive,
         AcquireDeleteOne, AcquireCustom, Goto
<1>2. c \in Phases
  BY DEF Phases, HolderPhases, EnqueuePhases, After
<1>3. UNCHANGED <<kind, docs, todo, dead, torn, faults, resets>>
  BY DEF Begin, ReserveEnqueue, StartInsert, PassGuard, Reprocess, StartScan, AcquireDestructive,
         AcquireDeleteOne, AcquireCustom, OnlyTask
<1> QED BY <1>1, <1>2, <1>3 DEF IInv, TypeOK, Typed

(* So do the steps of a task that has started. *)
LEMMA ContinueTyped ==
    ASSUME IInv, NEW t \in Tasks, Continue(t)
    PROVE  Typed
<1> USE DEF Continue, EnqueueGuard, PassGuard, WriteDocument, Nudge, WakeAfterError, ReleaseEnqueue,
            AcquireProcess, LoopTop, BatchEnds, ExitOrConsume, Refetch, Finalize, EndClassification,
            ReleaseScan, Announce, Destroy, ReleaseDestructive, DeleteOne, ReleaseOne, InsertChunks,
            ExitCustom, TerminalRelease
<1>1. TypeOK
  BY DEF IInv
<1>2. PICK c \in {"written", "writing", "refused", "process", "over", "finalize", "loop", "exit",
                  "batch", "refetch", "stopped", "found", "leaving", "destroy", "release",
                  "releaseOne", "exitCustom", "takeover", "terminal", After(t)} :
          pc' = [pc EXCEPT ![t] = c]
  BY DEF Goto
<1>3. c \in Phases
  BY DEF Phases, HolderPhases, RunPhases, EnqueuePhases, After
<1>4. pc' \in [Tasks -> Phases]
  BY <1>1, <1>2, <1>3 DEF TypeOK
<1>5. UNCHANGED <<kind, dead, torn, faults, resets>>
  BY DEF OnlyTask
<1>6. todo' \in [Tasks -> SUBSET Tasks]
  <2>1. todo' = todo \/ todo' = [todo EXCEPT ![t] = InQueue] \/ todo' = [todo EXCEPT ![t] = {}]
    OBVIOUS
  <2> QED BY <2>1, <1>1 DEF TypeOK, InQueue
<1>7. docs' \in [Tasks -> {"none", "pending", "failed", "done", "gone"}]
  <2>1. CASE WriteDocument(t)
    BY <2>1, <1>1 DEF TypeOK
  <2>2. CASE BatchEnds(t)
    BY <2>2, <1>1 DEF TypeOK
  <2>3. CASE Destroy(t)
    BY <2>3, <1>1 DEF TypeOK
  <2>4. CASE DeleteOne(t)
    BY <2>4, <1>1 DEF TypeOK
  <2>5. CASE docs' = docs
    BY <2>5, <1>1 DEF TypeOK
  <2> QED BY <2>1, <2>2, <2>3, <2>4, <2>5
<1> QED BY <1>1, <1>4, <1>5, <1>6, <1>7 DEF TypeOK, Typed

(* So do faults and resets. *)
LEMMA FaultTyped ==
    ASSUME IInv,
           \/ \E t \in Tasks : WriteFails(t) \/ FlushFails(t) \/ Interrupt(t)
           \/ CancelPipeline \/ ForceReset
           \/ \E w \in Workers : Crash(w)
    PROVE  Typed
<1>1. TypeOK /\ MaxFaults \in Nat /\ MaxResets \in Nat
  BY ConstantsAssumption DEF IInv
<1>2. ASSUME NEW t \in Tasks, WriteFails(t) PROVE Typed
  BY <1>1, <1>2 DEF WriteFails, Goto, TypeOK, Typed, Phases, EnqueuePhases
<1>3. ASSUME NEW t \in Tasks, FlushFails(t) PROVE Typed
  BY <1>1, <1>3 DEF FlushFails, TypeOK, Typed
<1>4. ASSUME NEW t \in Tasks, Interrupt(t) PROVE Typed
  <2>1. Cleanup(t) \in Phases
    BY DEF Cleanup, After, Phases, HolderPhases, RunPhases
  <2> QED BY <1>1, <1>4, <2>1 DEF Interrupt, Goto, TypeOK, Typed
<1>5. CASE CancelPipeline
  BY <1>1, <1>5 DEF CancelPipeline, TypeOK, Typed
<1>6. CASE ForceReset
  BY <1>1, <1>6 DEF ForceReset, TypeOK, Typed
<1>7. ASSUME NEW w \in Workers, Crash(w) PROVE Typed
  BY <1>1, <1>7 DEF Crash, TypeOK, Typed, Phases
<1> QED BY <1>2, <1>3, <1>4, <1>5, <1>6, <1>7

(* The invariant is inductive: one lemma per action. *)
LEMMA StepFits ==
    ASSUME IInv, [Next]_vars
    PROVE  IInv'
<1>1. CASE Next
  <2>1. Typed
    <3>1. (\E t \in Tasks : Begin(t) \/ Continue(t))
          \/ (\/ \E t \in Tasks : WriteFails(t) \/ FlushFails(t) \/ Interrupt(t)
              \/ CancelPipeline \/ ForceReset
              \/ \E w \in Workers : Crash(w))
      BY <1>1 DEF Next
    <3> QED BY <3>1, BeginTyped, ContinueTyped, FaultTyped
  <2>2. ASSUME NEW t \in Tasks, Begin(t) PROVE ps' \in Status /\ Fits(ps)'
    BY <2>2, ReserveEnqueueFits, PassGuardFits, ReprocessFits, StartScanFits, AcquireDestructiveFits,
       AcquireDeleteOneFits, AcquireCustomFits
       DEF Begin, StartInsert
  <2>3. ASSUME NEW t \in Tasks, Continue(t) PROVE ps' \in Status /\ Fits(ps)'
    BY <2>3, PassGuardFits, WritingFits, WakingFits, ReleaseEnqueueFits, AcquireProcessFits,
       LoopTopFits, InRunFits, ExitOrConsumeFits, FinalizeFits, EndClassificationFits,
       ReleaseScanFits, AnnounceFits, DestroyFits, ReleaseDestructiveFits, DeleteOneFits,
       ReleaseOneFits, InsertChunksFits, ExitCustomFits, TerminalReleaseFits
       DEF Continue, EnqueueGuard
  <2>4. ASSUME NEW t \in Tasks, WriteFails(t) \/ Interrupt(t) PROVE ps' \in Status /\ Fits(ps)'
    BY <2>4, WritingFits, InterruptFits
  <2>5. ASSUME CancelPipeline \/ \E t \in Tasks : FlushFails(t) PROVE ps' \in Status /\ Fits(ps)'
    BY <2>5, CancelFits DEF CancelPipeline, FlushFails
  <2>6. CASE ForceReset
    BY <2>1, <2>6, ForceResetFits DEF IInv, TypeOK, Typed
  <2>7. ASSUME NEW w \in Workers, Crash(w) PROVE ps' \in Status /\ Fits(ps)'
    BY <2>7, CrashFits
  <2> QED BY <1>1, <2>1, <2>2, <2>3, <2>4, <2>5, <2>6, <2>7 DEF Next, IInv, TypeOK, Typed
<1>2. CASE UNCHANGED vars
  <2> USE <1>2 DEF vars
  <2>1. TypeOK'
    BY DEF IInv, TypeOK
  <2>2. Fits(ps)'
    BY DEF IInv, Fits, FlagsFit, TornFits, TaskFits, Dead
  <2> QED BY <2>1, <2>2 DEF IInv
<1> QED BY <1>1, <1>2

(* The invariant holds at the start. *)
LEMMA InitFits ==
    ASSUME Init
    PROVE  IInv
<1>1. TypeOK
  BY ConstantsAssumption DEF Init, TypeOK, Status, OwnerKinds, Phases
<1>2. FlagsFit(ps) /\ TornFits(ps)
  BY DEF Init, FlagsFit, TornFits
<1>3. ASSUME NEW t \in Tasks PROVE TaskFits(t, pc[t], ps)
  <2>1. pc[t] = "idle" /\ ~Dead(t)
    BY DEF Init, Dead
  <2> QED BY <2>1, PassiveFits DEF Passive
<1> QED BY <1>1, <1>2, <1>3 DEF IInv, Fits

(* The invariant holds in every reachable state. *)
THEOREM Invariance == Spec => []IInv
<1>1. Init => IInv
  BY InitFits
<1>2. IInv /\ [Next]_vars => IInv'
  BY StepFits
<1> QED BY <1>1, <1>2, PTL DEF Spec

-----------------------------------------------------------------------------
(* Theorems *)

(* pipeline_status, the rows and the phases keep their types. *)
THEOREM TypeCorrect == Spec => []TypeOK
<1>1. IInv => TypeOK
  BY DEF IInv
<1> QED BY <1>1, Invariance, PTL

(* Who works under the busy slot owns it: the release of a former owner, the  *)
(* reclaim of a dead one, a handover and a reset by force never take it away. *)
THEOREM HoldersOwn == Spec => []HolderOwns
<1>1. IInv => HolderOwns
  BY DEF IInv, Fits, TaskFits, HolderOwns
<1> QED BY <1>1, Invariance, PTL

(* Two tasks never hold the busy slot at once, in any number of workers. *)
THEOREM OneHolder ==
    Spec => [](\A t, u \in Tasks : pc[t] \in HolderPhases /\ pc[u] \in HolderPhases => t = u)
<1>1. IInv => \A t, u \in Tasks : pc[t] \in HolderPhases /\ pc[u] \in HolderPhases => t = u
  BY DEF IInv, Fits, TaskFits
<1> QED BY <1>1, Invariance, PTL

(* Every flag has an owner record by which it can be reclaimed. *)
THEOREM NoOrphanFlags == Spec => []FlagsHaveOwner
<1>1. IInv => FlagsHaveOwner
  BY DEF IInv, Fits, FlagsFit, FlagsHaveOwner
<1> QED BY <1>1, Invariance, PTL

(* No accepted upload and no scan is at work while a clear or a deletion tears *)
(* storages down.                                                              *)
THEOREM TeardownIsAlone == Spec => []TeardownAlone
<1>1. ASSUME IInv, NEW t \in Tasks, NEW u \in Tasks,
             pc[t] = "destroy", pc[u] \in EnqueuePhases \cup {"classify", "found"}
      PROVE  kind[u] = "insert" \/ (kind[u] = "scan" /\ resets > 0)
  <2>1. TaskFits(t, pc[t], ps) /\ TaskFits(u, pc[u], ps) /\ resets \in Nat
    BY <1>1, ConstantsAssumption DEF IInv, TypeOK, Fits
  <2>2. ps.tokens = {} /\ (resets = 0 => ~ps.scanning)
    BY <1>1, <2>1 DEF TaskFits
  <2>3. kind[u] # "upload"
    BY <1>1, <2>1, <2>2 DEF TaskFits, ScanPhases
  <2>4. kind[u] = "scan" => resets # 0
    BY <1>1, <2>1, <2>2 DEF TaskFits, ScanPhases
  <2>5. kind[u] \in {"upload", "insert", "scan"}
    BY <1>1, <2>1 DEF TaskFits, ScanPhases
  <2> QED BY <2>1, <2>3, <2>4, <2>5
<1>2. IInv => TeardownAlone
  BY <1>1 DEF TeardownAlone
<1> QED BY <1>2, Invariance, PTL

(* A scan that classifies meets no accepted upload and no custom insertion. *)
THEOREM ScansClassifyAlone == Spec => []ClassifiesAlone
<1>1. ASSUME IInv, NEW t \in Tasks, NEW u \in Tasks, pc[t] = "classify", resets = 0
      PROVE  ~(kind[u] = "upload" /\ pc[u] \in EnqueuePhases) /\ pc[u] # "inserting"
  <2>1. TaskFits(t, pc[t], ps) /\ TaskFits(u, pc[u], ps) /\ FlagsFit(ps)
    BY <1>1 DEF IInv, Fits
  <2> QED BY <1>1, <2>1 DEF TaskFits, FlagsFit
<1>2. IInv => ClassifiesAlone
  BY <1>1 DEF ClassifiesAlone
<1> QED BY <1>2, Invariance, PTL

(* After a death in the middle of a change that cannot be re-run, the slot of  *)
(* the dead is never given to anybody before the fence stands.                 *)
THEOREM TornFences == Spec => []TornIsFenced
<1>1. ASSUME IInv, torn # {}, NEW t \in Tasks PROVE pc[t] \notin HolderPhases
  <2>1. TaskFits(t, pc[t], ps) /\ FlagsFit(ps) /\ TornFits(ps)
    BY <1>1 DEF IInv, Fits
  <2>2. pc[t] \in HolderPhases => ~Dead(t)
    BY <2>1 DEF TaskFits, HolderPhases, RunPhases
  <2> QED BY <1>1, <2>1, <2>2 DEF TaskFits, FlagsFit, TornFits
<1>2. IInv => TornIsFenced
  BY <1>1 DEF TornIsFenced
<1> QED BY <1>2, Invariance, PTL

(* A refusal leaves the reconciled status, with something reserved or fenced. *)
LEMMA Refusals ==
    ASSUME IInv, NEW t \in Tasks, Begin(t), pc'[t] = "refused"
    PROVE  /\ ps' = Reconcile(ps)
           /\ ps'.fenced \/ ps'.exclusive \/ ps'.destructive \/ ps'.busy \/ ps'.scanning \/ ps'.tokens # {}
<1>1. pc \in [Tasks -> Phases]
  BY DEF IInv, TypeOK
<1>2. ASSUME NEW c, Goto(t, c) PROVE c = "refused"
  BY <1>1, <1>2 DEF Goto
<1>3. CASE ReserveEnqueue(t)
  BY <1>2, <1>3 DEF ReserveEnqueue
<1>4. CASE StartInsert(t)
  BY <1>2, <1>4 DEF StartInsert, PassGuard
<1>5. CASE Reprocess(t)
  BY <1>2, <1>5 DEF Reprocess
<1>6. CASE StartScan(t)
  BY <1>2, <1>6 DEF StartScan
<1>7. CASE AcquireDestructive(t)
  BY <1>2, <1>7 DEF AcquireDestructive
<1>8. CASE AcquireDeleteOne(t)
  BY <1>2, <1>8 DEF AcquireDeleteOne
<1>9. CASE AcquireCustom(t)
  BY <1>2, <1>9 DEF AcquireCustom
<1> QED BY <1>3, <1>4, <1>5, <1>6, <1>7, <1>8, <1>9 DEF Begin

(* Every acquisition first takes back what the dead hold, so that whatever it *)
(* is refused for belongs to a task that still lives.                         *)
THEOREM RefusedByTheLiving == Spec => DeadNeverBlocks
<1> DEFINE Because ==
        \/ ps'.fenced
        \/ \E u \in Tasks : /\ ~Dead(u)
                            /\ u \in {ps'.busyOwner, ps'.scanOwner} \cup ps'.tokens
<1>1. ASSUME IInv, NEW t \in Tasks, Begin(t), pc'[t] = "refused" PROVE Because
  <2>1. ps' \in Status /\ FlagsFit(ps') /\ OwnersLive(ps')
    BY <1>1, Refusals, ReconcileFits DEF Fits
  <2>2. ps'.busy => ps'.busyOwner \in Tasks /\ ~Dead(ps'.busyOwner)
    BY <2>1 DEF Status, FlagsFit, OwnersLive
  <2>3. ps'.scanning => ps'.scanOwner \in Tasks /\ ~Dead(ps'.scanOwner)
    BY <2>1 DEF Status, FlagsFit, OwnersLive
  <2>4. ps'.tokens \subseteq Tasks /\ \A u \in ps'.tokens : ~Dead(u)
    BY <2>1 DEF Status, OwnersLive
  <2>5. ps'.fenced \/ ps'.busy \/ ps'.scanning \/ ps'.tokens # {}
    BY <1>1, <2>1, Refusals DEF FlagsFit
  <2> QED BY <2>2, <2>3, <2>4, <2>5
<1>2. ASSUME IInv, [Next]_vars, NEW t \in Tasks, pc[t] = "idle", pc'[t] = "refused" PROVE Begin(t)
  <2>1. pc \in [Tasks -> Phases]
    BY <1>2 DEF IInv, TypeOK
  <2>2. pc' # pc
    BY <1>2
  <2>3. ASSUME NEW u \in Tasks, NEW c, Goto(u, c) PROVE u = t
    BY <1>2, <2>1, <2>3 DEF Goto
  <2>4. ASSUME NEW u \in Tasks, Begin(u) PROVE u = t
    BY <2>3, <2>4 DEF Begin, ReserveEnqueue, StartInsert, PassGuard, Reprocess, StartScan,
                      AcquireDestructive, AcquireDeleteOne, AcquireCustom
  <2>5. ASSUME NEW u \in Tasks, Continue(u) \/ WriteFails(u) \/ FlushFails(u) \/ Interrupt(u)
        PROVE  pc[u] # "idle" /\ (u = t \/ pc' = pc)
    <3> USE DEF Continue, EnqueueGuard, PassGuard, WriteDocument, Nudge, WakeAfterError, ReleaseEnqueue,
                AcquireProcess, LoopTop, BatchEnds, ExitOrConsume, Refetch, Finalize, EndClassification,
                ReleaseScan, Announce, Destroy, ReleaseDestructive, DeleteOne, ReleaseOne, InsertChunks,
                ExitCustom, TerminalRelease, WriteFails, FlushFails, Interrupt
    <3>1. pc[u] # "idle"
      BY <2>5 DEF EnqueuePhases
    <3>2. u = t \/ pc' = pc
      BY <2>3, <2>5
    <3> QED BY <3>1, <3>2
  <2>6. ASSUME NEW w \in Workers, Crash(w) PROVE FALSE
    BY <1>2, <2>1, <2>6 DEF Crash
  <2> QED BY <1>2, <2>2, <2>4, <2>5, <2>6 DEF Next, vars, CancelPipeline, ForceReset
<1>3. IInv /\ [Next]_vars =>
          [\A t \in Tasks : pc[t] = "idle" /\ pc'[t] = "refused" => Because]_vars
  BY <1>1, <1>2
<1> QED BY <1>3, Invariance, PTL DEF Spec, DeadNeverBlocks
=============================================================================
