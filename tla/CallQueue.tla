------------------------------ MODULE CallQueue ------------------------------
(***************************************************************************)
(* priority_limit_async_func_call of LightRAG: the queue in front of a     *)
(* model (LLM, embedding, rerank), its workers, its health check and its   *)
(* shutdown, in one worker process, with both of its modes: bounded        *)
(* asyncio queue and workers that take from it, or admission by a counter, *)
(* a slot pump and the leases that all processes share. A step runs from   *)
(* one suspension point of a coroutine to the next; asyncio.wait_for is    *)
(* that of Python 3.12, which awaits in the caller's own task.             *)
(***************************************************************************)
EXTENDS GlobalSlots, Sequences, SequencesExt

CONSTANTS
    Calls,      \* one caller each
    Priority,   \* of a call; lower goes first
    Modes,      \* the values use_global_limit may resolve to
    Me,         \* this process; the others only hold and return slots
    NoLease,
    MaxSize,    \* workers of this process
    MaxQueue,   \* max_queue_size
    DrainLimit, \* DEFAULT_GLOBAL_SLOT_DRAIN_LIMIT
    Threshold,  \* zombie_compact_threshold
    Bounds      \* who calls, and how often the shared storage fails or stalls and
                \* other processes take slots; one choice per behaviour

ASSUME CallQueueAssumption ==
    /\ Priority \in [Calls -> Nat]
    /\ Modes \subseteq BOOLEAN
    /\ Me \in Processes
    /\ NoLease \notin Leases
    /\ MaxSize \in Nat \ {0} /\ MaxQueue \in Nat \ {0} /\ DrainLimit \in Nat \ {0}
    /\ Threshold \in Nat
    /\ Bounds \subseteq [callers : SUBSET Calls, faults : Nat, others : Nat]

VARIABLES
    limited,     \* use_global_limit, resolved once
    phase,       \* where each caller stands
    future,      \* what its future says
    task,        \* its entry in task_states: absent, waiting, or worker_started
    queue,       \* the physical queue, best priority first
    unfinished,  \* its count of unfinished tasks, for join()
    liveQueued,  \* live_queued: reservations of admission
    stage,       \* dispatched, running at the provider, or giving its slot back
    lease,       \* the lease a dispatched call travels with
    pump,        \* the slot pump: idle, granted a lease, returning one, or gone
    pumpLease,
    held,        \* held_leases
    pending,     \* pending_release
    table,       \* the lease table
    dead,        \* other processes that were killed
    healthy,     \* the health check runs
    shut,        \* how far shutdown() is
    drained,     \* join() was woken
    orphans,     \* history: leases in the table that nobody here knows any more
    stalled,     \* heartbeats of leases in use may come too late
    faults, others,  \* how often the bounded things happened
    bounds       \* how often they may; it never changes

callVars == <<phase, future, task>>
queueVars == <<queue, unfinished, drained, liveQueued>>
runVars == <<stage, lease>>
pumpVars == <<pump, pumpLease>>
leaseVars == <<held, pending, table, orphans>>
envVars == <<dead, stalled, faults, others, bounds>>
vars == <<limited, callVars, queueVars, runVars, pumpVars, leaseVars, healthy, shut, envVars>>

Phases == {"idle", "door", "woken", "waiting", "cleanup", "over"}

TypeOK ==
    /\ limited \in BOOLEAN
    /\ phase \in [Calls -> Phases]
    /\ future \in [Calls -> {"pending", "done", "cancelled"}]
    /\ task \in [Calls -> {"absent", "waiting", "started"}]
    /\ queue \in Seq(Calls)
    /\ unfinished \in Nat /\ liveQueued \in Nat
    /\ stage \in [Calls -> {"none", "dispatched", "running", "releasing"}]
    /\ lease \in [Calls -> Leases \cup {NoLease}]
    /\ pump \in {"idle", "granted", "returning", "gone"}
    /\ pumpLease \in Leases \cup {NoLease}
    /\ held \subseteq Leases /\ pending \subseteq Leases /\ orphans \subseteq Leases
    /\ table \in Tables
    /\ dead \subseteq Processes \ {Me}
    /\ healthy \in BOOLEAN
    /\ shut \in {"no", "join", "force", "gather", "drain", "return", "done"}
    /\ drained \in BOOLEAN
    /\ stalled \in BOOLEAN /\ bounds \in Bounds
    /\ faults \in 0 .. bounds.faults /\ others \in 0 .. bounds.others

Init ==
    /\ limited \in Modes
    /\ phase = [c \in Calls |-> "idle"]
    /\ future = [c \in Calls |-> "pending"]
    /\ task = [c \in Calls |-> "absent"]
    /\ queue = <<>> /\ unfinished = 0 /\ drained = FALSE /\ liveQueued = 0
    /\ stage = [c \in Calls |-> "none"]
    /\ lease = [c \in Calls |-> NoLease]
    /\ pump = IF limited THEN "idle" ELSE "gone"
    /\ pumpLease = NoLease
    /\ held = {} /\ pending = {} /\ orphans = {}
    /\ table = [l \in Leases |-> Vacant]
    /\ dead = {}
    /\ healthy = TRUE
    /\ shut = "no"
    /\ stalled = FALSE /\ faults = 0 /\ others = 0
    /\ bounds \in Bounds

-----------------------------------------------------------------------------
At(s) == {c \in Calls : stage[c] = s}

Accepting == shut = "no"

(* Dead weight in the physical queue: its caller left, or was answered. *)
Zombie(c) == task[c] = "absent" \/ future[c] # "pending"

(* notify_all of the admission condition. *)
Notify(ph) == [c \in Calls |-> IF ph[c] = "door" THEN "woken" ELSE ph[c]]

(* Taking an item from the bounded queue wakes one caller blocked in put();    *)
(* which of them is left open.                                                 *)
WakeOne(ph) ==
    LET blocked == {c \in Calls : ph[c] = "door"} IN
    IF blocked = {} THEN {ph} ELSE {[ph EXCEPT ![c] = "woken"] : c \in blocked}

(* The unfinished count of the queue; join() is woken when it reaches zero,    *)
(* and stays woken if it rises again before join() has resumed.                *)
Count(n) ==
    /\ unfinished' = n
    /\ drained' = (drained \/ (shut = "join" /\ n = 0))

(* What stands at some places of a queue, in its order. *)
Pick(q, places) ==
    LET Rank(i) == Cardinality({j \in places : j <= i}) IN
    [k \in 1 .. Cardinality(places) |-> q[CHOOSE i \in places : Rank(i) = k]]

(* Heap order: by priority, then by arrival. *)
Insert(q, c) ==
    LET ahead == {i \in DOMAIN q : Priority[q[i]] <= Priority[c]}
    IN Pick(q, ahead) \o <<c>> \o Pick(q, DOMAIN q \ ahead)

Put(c) ==
    /\ queue' = Insert(queue, c)
    /\ Count(unfinished + 1)
    /\ phase' = [phase EXCEPT ![c] = "waiting"]

(* Admission: reserve, register and enqueue, without a suspension in between. *)
Admit(c) ==
    /\ Put(c)
    /\ liveQueued' = liveQueued + 1
    /\ task' = [task EXCEPT ![c] = "waiting"]

HasCapacity == IF limited THEN liveQueued < MaxQueue ELSE Len(queue) < MaxQueue

(* Mutant: leaving returns the reservation although it passed to a worker. *)
Finish_Always(c) ==
    /\ task' = [task EXCEPT ![c] = "absent"]
    /\ IF limited /\ task[c] # "absent"
       THEN /\ liveQueued' = liveQueued - 1
            /\ phase' = Notify([phase EXCEPT ![c] = "over"])
       ELSE /\ phase' = [phase EXCEPT ![c] = "over"]
            /\ UNCHANGED liveQueued

(* The finally block of a caller: whoever finds the entry still waiting gives  *)
(* the reservation back.                                                       *)
Finish(c) ==
    /\ task' = [task EXCEPT ![c] = "absent"]
    /\ IF limited /\ task[c] = "waiting"
       THEN /\ liveQueued' = liveQueued - 1
            /\ phase' = Notify([phase EXCEPT ![c] = "over"])
       ELSE /\ phase' = [phase EXCEPT ![c] = "over"]
            /\ UNCHANGED liveQueued

-----------------------------------------------------------------------------
(* Callers *)

(* wait_func up to its first suspension: rejected, queued, or at the door. In  *)
(* the default mode the entry in task_states is made before the door.          *)
Call(c) ==
    /\ phase[c] = "idle" /\ c \in bounds.callers
    /\ \/ /\ ~Accepting
          /\ phase' = [phase EXCEPT ![c] = "over"]
          /\ UNCHANGED <<task, queueVars>>
       \/ /\ Accepting /\ HasCapacity /\ limited
          /\ Admit(c)
       \/ /\ Accepting /\ HasCapacity /\ ~limited
          /\ Put(c)
          /\ task' = [task EXCEPT ![c] = "waiting"]
          /\ UNCHANGED liveQueued
       \/ /\ Accepting /\ ~HasCapacity
          /\ phase' = [phase EXCEPT ![c] = "door"]
          /\ task' = [task EXCEPT ![c] = IF limited THEN "absent" ELSE "waiting"]
          /\ UNCHANGED queueVars
    /\ UNCHANGED <<limited, future, runVars, pumpVars, leaseVars, healthy, shut, envVars>>

(* A caller woken at the door looks again. Only the admission condition asks   *)
(* whether the queue still accepts; queue.put() does not.                      *)
PassDoor(c) ==
    /\ phase[c] = "woken"
    /\ \/ /\ limited /\ ~Accepting
          /\ phase' = [phase EXCEPT ![c] = "over"]
          /\ UNCHANGED <<task, queueVars>>
       \/ /\ limited /\ Accepting /\ HasCapacity
          /\ Admit(c)
       \/ /\ ~limited /\ HasCapacity
          /\ Put(c)
          /\ UNCHANGED <<task, liveQueued>>
       \/ /\ (limited => Accepting) /\ ~HasCapacity
          /\ phase' = [phase EXCEPT ![c] = "door"]
          /\ UNCHANGED <<task, queueVars>>
    /\ UNCHANGED <<limited, future, runVars, pumpVars, leaseVars, healthy, shut, envVars>>

(* _queue_timeout passes, or the caller is cancelled at the door; a put() that *)
(* was woken hands the room it does not use to the next one.                   *)
LeaveDoor(c) ==
    /\ phase[c] \in {"door", "woken"}
    /\ task' = [task EXCEPT ![c] = "absent"]
    /\ LET left == [phase EXCEPT ![c] = "over"] IN
       phase' \in IF ~limited /\ phase[c] = "woken" /\ HasCapacity THEN WakeOne(left) ELSE {left}
    /\ UNCHANGED <<limited, future, queueVars, runVars, pumpVars, leaseVars, healthy, shut, envVars>>

(* The future has an answer, or was cancelled by a shutdown. *)
Return(c) ==
    /\ phase[c] = "waiting" /\ future[c] # "pending"
    /\ Finish(c)
    /\ UNCHANGED <<limited, future, queue, unfinished, drained, runVars, pumpVars, leaseVars,
                   healthy, shut, envVars>>

(* The caller's task is cancelled. Its future is too, unless the cancellation  *)
(* finds it publishing statistics before it waits.                             *)
Cancel(c) ==
    /\ phase[c] \in {"waiting", "cleanup"}
    /\ \/ future[c] = "pending" /\ future' = [future EXCEPT ![c] = "cancelled"]
       \/ UNCHANGED future
    /\ Finish(c)
    /\ UNCHANGED <<limited, queue, unfinished, drained, runVars, pumpVars, leaseVars,
                   healthy, shut, envVars>>

(* _timeout passes: the future is cancelled and cancellation_requested set,    *)
(* which say the same; then the caller waits for a worker to clean up.         *)
Timeout(c) ==
    /\ phase[c] = "waiting" /\ future[c] = "pending"
    /\ future' = [future EXCEPT ![c] = "cancelled"]
    /\ phase' = [phase EXCEPT ![c] = "cleanup"]
    /\ UNCHANGED <<limited, task, queueVars, runVars, pumpVars, leaseVars, healthy, shut, envVars>>

(* Until somebody did, or cleanup_timeout passed. *)
CleanupEnds(c) ==
    /\ phase[c] = "cleanup"
    /\ Finish(c)
    /\ UNCHANGED <<limited, future, queue, unfinished, drained, runVars, pumpVars, leaseVars,
                   healthy, shut, envVars>>

-----------------------------------------------------------------------------
(* Workers of the default mode *)

(* worker(): takes the head, which wakes a blocked put(); calls nobody for a   *)
(* task whose caller has left.                                                 *)
Take ==
    /\ ~limited /\ queue # <<>> /\ shut \in {"no", "join", "force"}
    /\ Cardinality(At("running")) < MaxSize
    /\ LET c == Head(queue) IN
       /\ queue' = Tail(queue)
       /\ phase' \in WakeOne(phase)
       /\ IF task[c] = "absent" \/ future[c] = "cancelled"
          THEN /\ task' = [task EXCEPT ![c] = "absent"]
               /\ Count(unfinished - 1)
               /\ UNCHANGED stage
          ELSE /\ task' = [task EXCEPT ![c] = "started"]
               /\ stage' = [stage EXCEPT ![c] = "running"]
               /\ UNCHANGED <<unfinished, drained>>
    /\ UNCHANGED <<limited, future, liveQueued, lease, pumpVars, leaseVars, healthy, shut, envVars>>

-----------------------------------------------------------------------------
(* The slot pump and the workers of the limited mode *)

(* Identifiers nobody knows. That there is one bounds the behaviours of a small *)
(* Leases; which one is drawn makes no difference.                              *)
Unknown ==
    {l \in Leases : /\ table[l] = Vacant
                    /\ l \notin held \cup pending \cup orphans \cup Range(lease) \cup {pumpLease}}

NewLease == CHOOSE l \in Unknown : TRUE

(* slot_pump asks for a slot when there is work and a worker to do it. The     *)
(* reaped table is written back whether or not it is granted.                  *)
Ask ==
    /\ pump = "idle" /\ queue # <<>>
    /\ Cardinality(At("dispatched") \cup At("running")) < MaxSize
    /\ \/ /\ HasRoom(table, dead) /\ Unknown # {}
          /\ pumpLease' = NewLease
          /\ table' = Acquire(table, dead, Me, NewLease)
          /\ pump' = "granted"
       \/ /\ ~HasRoom(table, dead)
          /\ table' = Reap(table, dead)
          /\ UNCHANGED pumpVars
    /\ orphans' = {l \in orphans : table'[l] # Vacant}
    /\ UNCHANGED <<limited, callVars, queueVars, runVars, held, pending, healthy, shut, envVars>>

(* An error after the table was written: the pump is told of no lease. *)
AskFails ==
    /\ pump = "granted" /\ faults < bounds.faults
    /\ pump' = "idle" /\ pumpLease' = NoLease
    /\ orphans' = orphans \cup {pumpLease}
    /\ faults' = faults + 1
    /\ UNCHANGED <<limited, callVars, queueVars, runVars, held, pending, table, healthy, shut,
                   dead, stalled, others, bounds>>

(* Removing zs from the physical queue: one task_done() each, and the          *)
(* reservations nobody has returned yet.                                       *)
DropZombies(zs, started) ==
    /\ task' = [c \in Calls |-> IF c \in zs THEN "absent"
                                ELSE IF c \in started THEN "started" ELSE task[c]]
    /\ liveQueued' = liveQueued - Cardinality({c \in zs \cup started : task[c] = "waiting"})
    /\ phase' = IF \E c \in zs \cup started : task[c] = "waiting" THEN Notify(phase) ELSE phase
    /\ Count(unfinished - Cardinality(zs))

(* How many zombies stand in front. *)
LeadingZombies ==
    LET live == {i \in DOMAIN queue : ~Zombie(queue[i])} IN
    IF live = {} THEN Len(queue) ELSE Min(live) - 1

(* With the lease in hand the pump takes the head of the queue, dropping at    *)
(* most DrainLimit zombies; what it finds is dispatched together with the      *)
(* lease, otherwise the lease goes back.                                       *)
Dispatch ==
    /\ pump = "granted"
    /\ held' = held \cup {pumpLease}
    /\ LET n == IF LeadingZombies < DrainLimit THEN LeadingZombies ELSE DrainLimit
           zs == {queue[i] : i \in 1 .. n}
           found == IF n < DrainLimit /\ n < Len(queue) THEN {queue[n + 1]} ELSE {}
       IN /\ queue' = SubSeq(queue, n + 1 + Cardinality(found), Len(queue))
          /\ DropZombies(zs, found)
          /\ stage' = [c \in Calls |-> IF c \in found THEN "dispatched" ELSE stage[c]]
          /\ lease' = [c \in Calls |-> IF c \in found THEN pumpLease ELSE lease[c]]
          /\ IF found = {}
             THEN pump' = "returning" /\ UNCHANGED pumpLease
             ELSE pump' = "idle" /\ pumpLease' = NoLease
    /\ UNCHANGED <<limited, future, pending, table, orphans, healthy, shut, envVars>>

(* Mutant: a release that fails is forgotten. *)
ReleaseSafely_NotParked(ls) ==
    \/ /\ table' = Release(table, ls)
       /\ pending' = pending \ ls
       /\ UNCHANGED faults
    \/ /\ faults < bounds.faults
       /\ faults' = faults + 1
       /\ UNCHANGED <<table, pending>>

(* _release_lease_safely: a release that fails is parked for the health check. *)
ReleaseSafely(ls) ==
    \/ /\ table' = Release(table, ls)
       /\ pending' = pending \ ls
       /\ UNCHANGED faults
    \/ /\ faults < bounds.faults
       /\ faults' = faults + 1
       /\ pending' = pending \cup ls
       /\ UNCHANGED table

ReturnUnused ==
    /\ pump = "returning"
    /\ held' = held \ {pumpLease}
    /\ ReleaseSafely({pumpLease})
    /\ pump' = "idle" /\ pumpLease' = NoLease
    /\ UNCHANGED <<limited, callVars, queueVars, runVars, orphans, healthy, shut, dead, stalled, others, bounds>>

(* What ends a run: the entry goes, the item is done, the lease is nobody's    *)
(* any more and on its way back.                                               *)
EndRun(c) ==
    /\ task' = [task EXCEPT ![c] = "absent"]
    /\ Count(unfinished - 1)
    /\ held' = held \ {lease[c]}
    /\ stage' = [stage EXCEPT ![c] = IF limited THEN "releasing" ELSE "none"]

(* limited_worker takes a dispatched call, unless its caller has left. *)
PickUp(c) ==
    /\ stage[c] = "dispatched" /\ shut \in {"no", "join", "force"}
    /\ Cardinality(At("running") \cup At("releasing")) < MaxSize
    /\ IF future[c] # "pending"
       THEN EndRun(c)
       ELSE /\ stage' = [stage EXCEPT ![c] = "running"]
            /\ UNCHANGED <<task, unfinished, drained, held>>
    /\ UNCHANGED <<limited, phase, future, queue, liveQueued, lease, pumpVars, pending, table, orphans,
                   healthy, shut, envVars>>

(* The provider answers or fails, max_execution_timeout passes, or a shutdown  *)
(* cancels the worker.                                                         *)
RunEnds(c) ==
    /\ stage[c] = "running"
    /\ future' = [future EXCEPT ![c] = IF @ # "pending" THEN @
                                       ELSE IF shut = "gather" THEN "cancelled" ELSE "done"]
    /\ EndRun(c)
    /\ UNCHANGED <<limited, phase, queue, liveQueued, lease, pumpVars, pending, table, orphans,
                   healthy, shut, envVars>>

GiveBack(c) ==
    /\ stage[c] = "releasing"
    /\ ReleaseSafely({lease[c]})
    /\ stage' = [stage EXCEPT ![c] = "none"]
    /\ lease' = [lease EXCEPT ![c] = NoLease]
    /\ UNCHANGED <<limited, callVars, queueVars, pumpVars, held, orphans, healthy, shut,
                   dead, stalled, others, bounds>>

-----------------------------------------------------------------------------
(* The health check *)

(* A started task that takes too long is answered in the worker's place; the   *)
(* worker goes on, and so do its lease and its place.                          *)
AnswerStuck(c) ==
    /\ healthy /\ task[c] = "started"
    /\ task' = [task EXCEPT ![c] = "absent"]
    /\ future' = [future EXCEPT ![c] = IF @ = "pending" THEN "done" ELSE @]
    /\ UNCHANGED <<limited, phase, queueVars, runVars, pumpVars, leaseVars, healthy, shut, envVars>>

(* _run_maintenance, every five seconds: renew what is held, release again     *)
(* what could not be released, reap, and drop the zombies of the queue when    *)
(* they are many (_compact_physical_queue).                                    *)
Maintain ==
    /\ limited /\ healthy
    /\ \/ /\ table' = Reap(Release(Renew(table, Me, held), pending), dead)
          /\ pending' = {}
          /\ UNCHANGED faults
       \/ /\ faults < bounds.faults /\ pending # {}
          /\ faults' = faults + 1
          /\ table' = Reap(Renew(table, Me, held), dead)
          /\ UNCHANGED pending
    /\ orphans' = {l \in orphans : table'[l] # Vacant}
    /\ IF Len(queue) - liveQueued > Threshold
       THEN /\ queue' = Pick(queue, {i \in DOMAIN queue : ~Zombie(queue[i])})
            /\ DropZombies({c \in Range(queue) : Zombie(c)}, {})
       ELSE UNCHANGED <<queue, unfinished, drained, liveQueued, task, phase>>
    /\ UNCHANGED <<limited, future, runVars, pumpVars, held, healthy, shut, dead, stalled, others, bounds>>

-----------------------------------------------------------------------------
(* shutdown() *)

(* It stops the admission and wakes who waits for it. *)
Shutdown(graceful) ==
    /\ shut = "no"
    /\ shut' = IF graceful THEN "join" ELSE "force"
    /\ phase' = IF limited THEN Notify(phase) ELSE phase
    /\ UNCHANGED <<limited, future, task, queueVars, runVars, pumpVars, leaseVars, healthy, envVars>>

JoinTimesOut ==
    /\ shut = "join"
    /\ shut' = "force"
    /\ UNCHANGED <<limited, callVars, queueVars, runVars, pumpVars, leaseVars, healthy, envVars>>

(* The pump and the workers are cancelled: a lease the pump was about to be    *)
(* given is lost to this process, one whose release is cut short is parked,    *)
(* whether or not the table was reached; what runs at the provider is          *)
(* cancelled and ends in its own time.                                         *)
StopWorkers ==
    LET cut == {lease[c] : c \in At("releasing")} \cup (IF pump = "returning" THEN {pumpLease} ELSE {})
    IN /\ shut' = "gather"
       /\ pump' = "gone" /\ pumpLease' = NoLease
       /\ orphans' = orphans \cup (IF pump = "granted" THEN {pumpLease} ELSE {})
       /\ held' = held \ cut
       /\ pending' = pending \cup cut
       /\ \E reached \in SUBSET cut : table' = Release(table, reached)
       /\ stage' = [c \in Calls |-> IF stage[c] = "releasing" THEN "none" ELSE stage[c]]
       /\ lease' = [c \in Calls |-> IF stage[c] = "releasing" THEN NoLease ELSE lease[c]]

JoinReturns ==
    /\ shut = "join" /\ (drained \/ unfinished = 0)
    /\ StopWorkers
    /\ UNCHANGED <<limited, callVars, queueVars, healthy, envVars>>

(* Mutant: the futures of those still in the queue are forgotten. *)
ForceDrain_QueueOnly ==
    /\ shut = "force"
    /\ queue' = <<>>
    /\ Count(unfinished - Len(queue))
    /\ phase' = phase
    /\ UNCHANGED future
    /\ task' = [c \in Calls |-> "absent"]
    /\ StopWorkers
    /\ UNCHANGED <<limited, liveQueued, healthy, envVars>>

(* All futures are cancelled, all entries dropped (without their reservations: *)
(* nobody is admitted any more), the queue emptied, which wakes one blocked    *)
(* put() per item.                                                             *)
ForceDrain ==
    /\ shut = "force"
    /\ future' = [c \in Calls |-> IF phase[c] \in {"idle", "over"} \/ (limited /\ phase[c] \in {"door", "woken"})
                                     \/ future[c] # "pending"
                                  THEN future[c] ELSE "cancelled"]
    /\ task' = [c \in Calls |-> "absent"]
    /\ queue' = <<>>
    /\ Count(unfinished - Len(queue))
    /\ \E woken \in SUBSET {c \in Calls : phase[c] = "door" /\ ~limited} :
          /\ Cardinality(woken) = Min({Len(queue), Cardinality({c \in Calls : phase[c] = "door" /\ ~limited})})
          /\ phase' = [c \in Calls |-> IF c \in woken THEN "woken" ELSE phase[c]]
    /\ StopWorkers
    /\ UNCHANGED <<limited, liveQueued, healthy, envVars>>

(* All workers are gone; then the calls that were dispatched to nobody, one by *)
(* one.                                                                        *)
Gathered ==
    /\ shut = "gather" /\ At("running") \cup At("releasing") = {}
    /\ shut' = "drain"
    /\ UNCHANGED <<limited, callVars, queueVars, runVars, pumpVars, leaseVars, healthy, envVars>>

DrainDispatched(c) ==
    /\ shut = "drain" /\ stage[c] = "dispatched"
    /\ future' = [future EXCEPT ![c] = IF @ = "pending" THEN "cancelled" ELSE @]
    /\ task' = [task EXCEPT ![c] = "absent"]
    /\ Count(unfinished - 1)
    /\ held' = held \ {lease[c]}
    /\ ReleaseSafely({lease[c]})
    /\ stage' = [stage EXCEPT ![c] = "none"]
    /\ lease' = [lease EXCEPT ![c] = NoLease]
    /\ UNCHANGED <<limited, phase, queue, liveQueued, pumpVars, orphans, healthy, shut, dead, stalled, others, bounds>>

StopHealthCheck ==
    /\ shut = "drain" /\ At("dispatched") = {}
    /\ shut' = "return"
    /\ healthy' = FALSE
    /\ UNCHANGED <<limited, callVars, queueVars, runVars, pumpVars, leaseVars, envVars>>

(* Every lease still known goes back; one whose release fails is left to the   *)
(* reapers of the others.                                                      *)
ReturnLeases ==
    /\ shut = "return"
    /\ \E failed \in SUBSET (held \cup pending) :
          /\ faults + Cardinality(failed) <= bounds.faults
          /\ faults' = faults + Cardinality(failed)
          /\ table' = Release(table, (held \cup pending) \ failed)
          /\ orphans' = orphans \cup {l \in failed : table[l] # Vacant}
    /\ held' = {} /\ pending' = {}
    /\ shut' = "done"
    /\ UNCHANGED <<limited, callVars, queueVars, runVars, pumpVars, healthy, dead, stalled, others, bounds>>

-----------------------------------------------------------------------------
(* The other processes and time *)

Others == {l \in Leases : table[l].pid \in Processes \ ({Me} \cup dead)}

OtherAcquires(p) ==
    /\ limited /\ p \in Processes \ ({Me} \cup dead)
    /\ others < bounds.others /\ others' = others + 1
    /\ HasRoom(table, dead) /\ Unknown # {}
    /\ table' = Acquire(table, dead, p, NewLease)
    /\ orphans' = {m \in orphans : table'[m] # Vacant}
    /\ UNCHANGED <<limited, callVars, queueVars, runVars, pumpVars, held, pending, healthy, shut,
                   dead, stalled, faults, bounds>>

OtherReleases(l) ==
    /\ l \in Others
    /\ table' = Release(table, {l})
    /\ UNCHANGED <<limited, callVars, queueVars, runVars, pumpVars, held, pending, orphans, healthy,
                   shut, envVars>>

OtherReaps ==
    /\ limited /\ Processes \ ({Me} \cup dead) # {}
    /\ table' = Reap(table, dead)
    /\ orphans' = {l \in orphans : table'[l] # Vacant}
    /\ UNCHANGED <<limited, callVars, queueVars, runVars, pumpVars, held, pending, healthy, shut, envVars>>

(* kill -9: the leases stay in the table. *)
OtherDies(p) ==
    /\ limited /\ p \in Processes \ ({Me} \cup dead)
    /\ \E l \in Leases : table[l].pid = p
    /\ dead' = dead \cup {p}
    /\ UNCHANGED <<limited, callVars, queueVars, runVars, pumpVars, leaseVars, healthy, shut,
                   stalled, faults, others, bounds>>

(* Leases somebody renews, or is about to give back. *)
Kept == Others \cup held \cup Range(lease) \cup (IF pump = "granted" THEN {pumpLease} ELSE {})

(* The event loop stalls, or the shared storage is out of reach, for so long   *)
(* that heartbeats and graces may be missed.                                   *)
Stall ==
    /\ limited /\ ~stalled /\ faults < bounds.faults
    /\ stalled' = TRUE /\ faults' = faults + 1
    /\ UNCHANGED <<limited, callVars, queueVars, runVars, pumpVars, leaseVars, healthy, shut, dead, others, bounds>>

(* Time passes for a lease nobody renews. The other living processes keep      *)
(* theirs fresh.                                                               *)
Age(l) ==
    /\ table[l] # Vacant /\ l \notin Others /\ (l \in Kept => stalled)
    /\ Older(table[l].age) # table[l].age
    /\ table' = [table EXCEPT ![l].age = Older(@)]
    /\ UNCHANGED <<limited, callVars, queueVars, runVars, pumpVars, held, pending, orphans, healthy,
                   shut, envVars>>

-----------------------------------------------------------------------------
Caller(c) == PassDoor(c) \/ Return(c) \/ CleanupEnds(c)

Worker(c) == PickUp(c) \/ RunEnds(c) \/ GiveBack(c)

Pump == Ask \/ Dispatch \/ ReturnUnused

Ending ==
    \/ JoinReturns \/ JoinTimesOut \/ ForceDrain \/ Gathered \/ StopHealthCheck \/ ReturnLeases
    \/ \E c \in Calls : DrainDispatched(c)

Next ==
    \/ \E c \in Calls : Call(c) \/ LeaveDoor(c) \/ Cancel(c) \/ Timeout(c) \/ Caller(c)
    \/ Take
    \/ Pump \/ AskFails
    \/ \E c \in Calls : Worker(c) \/ AnswerStuck(c)
    \/ Maintain
    \/ \E graceful \in BOOLEAN : Shutdown(graceful)
    \/ Ending
    \/ \E p \in Processes : OtherAcquires(p) \/ OtherDies(p)
    \/ \E l \in Leases : OtherReleases(l) \/ Age(l)
    \/ OtherReaps \/ Stall

Spec == Init /\ [][Next]_vars

(* The event loops run what can run; a provider call ends by its timeout; the  *)
(* others return their slots and reap; time passes. Callers need not call,     *)
(* give up or be cancelled, nothing need fail, nobody need shut down.          *)
FairSpec ==
    /\ Spec
    /\ WF_vars(\E c \in Calls : Caller(c)) /\ WF_vars(\E c \in Calls : Worker(c))
    /\ WF_vars(Take) /\ WF_vars(Pump) /\ WF_vars(Maintain) /\ WF_vars(Ending)
    /\ WF_vars(\E l \in Leases : OtherReleases(l)) /\ WF_vars(OtherReaps)
    /\ WF_vars(\E l \in Leases \ Kept : Age(l))

-----------------------------------------------------------------------------
(* Properties *)

(* What three parties count without a lock around it all is exact: the         *)
(* reservations of admission are the calls registered and not yet taken by a   *)
(* worker, within capacity, and the queue's unfinished tasks are those in it,  *)
(* dispatched or running, so join() waits for all of them and for no more.     *)
CountsExact ==
    /\ limited /\ shut \in {"no", "join"} =>
          /\ liveQueued = Cardinality({c \in Calls : task[c] = "waiting"})
          /\ liveQueued <= MaxQueue
    /\ unfinished = Len(queue) + Cardinality(At("dispatched") \cup At("running"))

(* A call at the provider holds a lease of its own, in the table unless it     *)
(* missed its heartbeat and then its grace; the table never exceeds the limit; *)
(* and a lease of this process is held, parked or in somebody's hands, or one  *)
(* whose acquisition or last release was cut off by a fault or a shutdown.     *)
LeasesAccounted ==
    /\ InUse(table) <= Limit
    /\ \A c, d \in Calls : c # d /\ lease[c] # NoLease => lease[c] # lease[d]
    /\ limited => \A c \in At("dispatched") \cup At("running") :
          ~stalled => table[lease[c]].pid = Me
    /\ limited =>
          held = {lease[c] : c \in At("dispatched") \cup At("running")}
                 \cup (IF pump = "returning" THEN {pumpLease} ELSE {})
    /\ \A l \in Leases : table[l].pid = Me =>
          l \in held \cup pending \cup Range(lease) \cup orphans \cup {pumpLease}

(* Every call is answered: served, failed, timed out, rejected or cancelled,   *)
(* whatever zombies the queue holds, whoever takes the slots, and when the     *)
(* queue is shut down meanwhile (in the limited mode: see README).             *)
EveryCallEnds ==
    []<>(\A c \in Calls : phase[c] \in {"idle", "over"} \/ (~limited /\ ~Accepting))

(* A slot that nobody uses any more, of a process that was killed or lost by a *)
(* failed release or a cancelled acquisition, comes back as long as there is   *)
(* somebody to see that it is overdue.                                         *)
SlotsComeBack ==
    []<>(\A l \in Leases : table[l] = Vacant \/ l \in Kept \/ (~healthy /\ Processes \ dead = {Me}))
=============================================================================
