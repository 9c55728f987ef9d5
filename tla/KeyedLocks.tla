----------------------------- MODULE KeyedLocks -----------------------------
(***************************************************************************)
(* The keyed locks of LightRAG between several worker processes            *)
(* (kg/shared_storage.py): get_storage_keyed_lock(keys) takes one lock per *)
(* key in sorted order.  Each key has, in every process, a gate            *)
(* (asyncio.Lock) that its tasks queue on, and one record in               *)
(* _keyed_lock_holders, which all processes share and which is the lock:   *)
(* the task at the head of the gate polls it, and takes it away from a     *)
(* process that is dead.                                                   *)
(*                                                                         *)
(* A process runs one task at a time; a step is one section under          *)
(* _registry_guard, or what a task does between two of them.  While a task *)
(* is in a Sync phase it has not awaited anything, so no other task of its *)
(* process runs; the other processes do.                                   *)
(***************************************************************************)
EXTENDS Naturals, FiniteSets, SequencesExt

CONSTANTS
  Process,     \* process ids; a worker started later may be given a used one
  Task,        \* coroutines that take keyed locks
  ProcessOf,   \* [Task -> Process]
  Key,         \* keys of one namespace; their order is that of the strings
  Wanted,      \* [Task -> Seq(Key)]: the keys, as the caller lists them
  None,        \* no record, or no entry in a table
  MaxUses,     \* bound on the times a task asks for its keys
  MaxDeaths    \* bound on the workers that are killed

ASSUME ConstantsAssumption ==
  /\ ProcessOf \in [Task -> Process]
  /\ Key \subseteq Nat
  /\ Wanted \in [Task -> Seq(Key)]
  /\ \A t \in Task : Wanted[t] # <<>>
  /\ None \notin Nat /\ None \notin [task : Task, start : Nat, use : Nat, place : Nat]
  /\ MaxUses \in Nat /\ MaxDeaths \in Nat

VARIABLES
  alive,    \* the process ids in use
  start,    \* the start time of the process with that id
  deaths,   \* workers killed so far
  holders,  \* _keyed_lock_holders
  shared,   \* _lock_registry_count, common to all processes
  local,    \* _async_lock_count of each process
  made,     \* gates made for a key by a process before the one in its table
  gate,     \* who holds and awaits the gates of a key, oldest first
  pc,       \* where each task stands
  asked,    \* entries of self._ul: places of Wanted[t] the task has a lock object for
  entered,  \* those it has entered
  seen,     \* the record acquire() has found in its way
  uses      \* times the task has asked for its keys

procVars  == <<alive, start, deaths>>
tableVars == <<shared, local, made, gate>>
taskVars  == <<pc, asked, entered, seen, uses>>
vars == <<procVars, holders, tableVars, taskVars>>

Place(t) == DOMAIN Wanted[t]

\* The record of one acquisition: owner_pid and process_start_id, and as
\* lease_id what no other acquisition shares.
Lease(t, i) ==
  [task |-> t, start |-> start[ProcessOf[t]], use |-> uses[t], place |-> i]
Leases == [task : Task, start : Nat, use : Nat, place : Nat]

\* Phases in which a task has the event loop of its process to itself.
Sync   == {"claim", "probe", "reclaim", "leaving"}
Asking == {"gate", "asleep", "claim", "probe", "reclaim"}
Phase  == {"idle", "inside", "undoing"} \cup Asking \cup Sync

TypeOK ==
  /\ alive \subseteq Process
  /\ start \in [Process -> Nat]
  /\ deaths \in 0 .. MaxDeaths
  /\ holders \in [Key -> Leases \cup {None}]
  /\ shared \in [Key -> Nat \cup {None}]
  /\ local \in [Process -> [Key -> Nat \cup {None}]]
  /\ made \in [Process -> [Key -> Nat]]
  /\ gate \in [Process -> [Key -> Seq([task : Task, place : Nat, made : Nat])]]
  /\ pc \in [Task -> Phase]
  /\ asked \in [Task -> SUBSET Nat]
  /\ entered \in [Task -> SUBSET Nat]
  /\ seen \in [Task -> Leases \cup {None}]
  /\ uses \in [Task -> 0 .. MaxUses]

Init ==
  /\ alive = Process
  /\ start = [p \in Process |-> 0]
  /\ deaths = 0
  /\ holders = [k \in Key |-> None]
  /\ shared = [k \in Key |-> None]
  /\ local = [p \in Process |-> [k \in Key |-> None]]
  /\ made = [p \in Process |-> [k \in Key |-> 0]]
  /\ gate = [p \in Process |-> [k \in Key |-> <<>>]]
  /\ pc = [t \in Task |-> "idle"]
  /\ asked = [t \in Task |-> {}]
  /\ entered = [t \in Task |-> {}]
  /\ seen = [t \in Task |-> None]
  /\ uses = [t \in Task |-> 0]

-----------------------------------------------------------------------------
(* Helpers.                                                                 *)

\* The event loop of the process can run something.
LoopFree(p) == p \in alive /\ \A t \in Task : ProcessOf[t] = p => pc[t] \notin Sync

\* _process_alive: the id is in use, and by the process that wrote the record.
OwnerAlive(lease) ==
  LET p == ProcessOf[lease.task] IN p \in alive /\ start[p] = lease.start

\* The one place the task has asked for and not entered.
Current(t) == CHOOSE i \in asked[t] \ entered[t] : TRUE

IsNext_AsListed(t, i) ==  \* mutant
  /\ i \in Place(t) \ asked[t]
  /\ \A j \in Place(t) \ asked[t] : i <= j
\* The task's keys are taken in sorted order.
IsNext(t, i) ==
  /\ i \in Place(t) \ asked[t]
  /\ \A j \in Place(t) \ asked[t] : Wanted[t][i] <= Wanted[t][j]

\* They are given back in the reverse order.
IsLast(t, i) ==
  /\ i \in asked[t]
  /\ \A j \in asked[t] : Wanted[t][j] <= Wanted[t][i]

Count(count) == IF count = None THEN 0 ELSE count
OneMore(count) == Count(count) + 1

\* The lock object of place i: two reference counts go up, and the task queues
\* on the gate that is in the table now.  A free gate is entered at once.
Ask(t, i) ==
  LET p == ProcessOf[t]  k == Wanted[t][i] IN
  /\ asked' = [asked EXCEPT ![t] = @ \cup {i}]
  /\ shared' = [shared EXCEPT ![k] = OneMore(@)]
  /\ local' = [local EXCEPT ![p][k] = OneMore(@)]
  /\ gate' = [gate EXCEPT ![p][k] =
       Append(@, [task |-> t, place |-> i, made |-> made[p][k]])]
  /\ pc' = [pc EXCEPT ![t] =
       IF \E n \in DOMAIN gate[p][k] : gate[p][k][n].made = made[p][k]
       THEN "gate" ELSE "claim"]
  /\ UNCHANGED made

\* The gate of the task's current key is its own.
AtGate(t) ==
  LET g == gate[ProcessOf[t]][Wanted[t][Current(t)]] IN
  \E n \in DOMAIN g :
    /\ g[n].task = t /\ g[n].place = Current(t)
    /\ \A m \in 1 .. n - 1 : g[m].made # g[n].made

\* The task lets go of, or gives up waiting for, the gate of place i.
Leave(t, i, g) ==
  LET mine == {n \in DOMAIN g : g[n].task = t /\ g[n].place = i}
  IN IF mine = {} THEN g ELSE RemoveAt(g, CHOOSE n \in mine : TRUE)

Unused_Counted(table, k) == {j \in Key : j # k /\ table[j] # None}  \* mutant
\* _perform_lock_cleanup forgets keys whose count has been 0 for long.
Unused(table, k) == {j \in Key : j # k /\ table[j] = 0}
Forget(table, K) == [k \in Key |-> IF k \in K THEN None ELSE table[k]]

\* _release_async_lock: the count goes down and unused gates may be dropped.
LetGoLocal(p, k) ==
  LET now == [local[p] EXCEPT ![k] = Count(@) - 1] IN
  \E K \in SUBSET Unused(local[p], k) :
    /\ local' = [local EXCEPT ![p] = Forget(now, K)]
    /\ made' = [made EXCEPT ![p] = [j \in Key |-> IF j \in K THEN @[j] + 1 ELSE @[j]]]

\* _release_shared_raw_mp_lock: the same for the count of all processes, which
\* is left alone (with an error, unless the entry is gone) when it is spent.
LetGoShared(k) ==
  LET spent == shared[k] \in {None, 0}
      now   == IF spent THEN shared ELSE [shared EXCEPT ![k] = @ - 1] IN
  \E K \in SUBSET Unused(shared, k) : shared' = Forget(now, K)

\* One entry of self._ul is given back: the record if it is still the task's
\* own, then the gate, then the counts.
GiveBack(t, i) ==
  LET p == ProcessOf[t]  k == Wanted[t][i]  held == i \in entered[t] IN
  /\ holders' = [holders EXCEPT ![k] = IF held /\ @ = Lease(t, i) THEN None ELSE @]
  /\ gate' = [gate EXCEPT ![p][k] = IF held THEN Leave(t, i, @) ELSE @]
  /\ LetGoLocal(p, k)
  /\ LetGoShared(k)
  /\ asked' = [asked EXCEPT ![t] = @ \ {i}]
  /\ entered' = [entered EXCEPT ![t] = @ \ {i}]
  /\ pc' = [pc EXCEPT ![t] = IF asked[t] = {i} THEN "idle" ELSE @]
  /\ UNCHANGED <<procVars, seen, uses>>

-----------------------------------------------------------------------------
(* Taking the locks: _KeyedLockContext.__aenter__.                          *)

Begin(t) ==
  /\ LoopFree(ProcessOf[t])
  /\ pc[t] = "idle" /\ uses[t] < MaxUses
  /\ uses' = [uses EXCEPT ![t] = @ + 1]
  /\ \E i \in Place(t) : IsNext(t, i) /\ Ask(t, i)
  /\ UNCHANGED <<procVars, holders, entered, seen>>

\* The gate's last owner has passed it on.
PassGate(t) ==
  /\ LoopFree(ProcessOf[t])
  /\ pc[t] = "gate" /\ AtGate(t)
  /\ pc' = [pc EXCEPT ![t] = "claim"]
  /\ UNCHANGED <<procVars, holders, tableVars, asked, entered, seen, uses>>

\* _KeyedLeaseLock.acquire finds no record and writes its own; without
\* awaiting, __aenter__ goes on to the next key.
Claim(t) ==
  LET i == Current(t) IN
  /\ pc[t] = "claim"
  /\ holders[Wanted[t][i]] = None
  /\ holders' = [holders EXCEPT ![Wanted[t][i]] = Lease(t, i)]
  /\ entered' = [entered EXCEPT ![t] = @ \cup {i}]
  /\ \/ \E j \in Place(t) : IsNext(t, j) /\ Ask(t, j)
     \/ /\ asked[t] = Place(t)
        /\ pc' = [pc EXCEPT ![t] = "inside"]
        /\ UNCHANGED <<tableVars, asked>>
  /\ UNCHANGED <<procVars, seen, uses>>

\* There is a record: a copy of it is looked into outside the guard.
FindHeld(t) ==
  LET k == Wanted[t][Current(t)] IN
  /\ pc[t] = "claim"
  /\ holders[k] # None
  /\ seen' = [seen EXCEPT ![t] = holders[k]]
  /\ pc' = [pc EXCEPT ![t] = "probe"]
  /\ UNCHANGED <<procVars, holders, tableVars, asked, entered, uses>>

Probe(t) ==
  /\ pc[t] = "probe"
  /\ pc' = [pc EXCEPT ![t] = IF OwnerAlive(seen[t]) THEN "asleep" ELSE "reclaim"]
  /\ UNCHANGED <<procVars, holders, tableVars, asked, entered, seen, uses>>

Reclaim_Unchecked(t) ==  \* mutant
  LET k == Wanted[t][Current(t)] IN
  /\ pc[t] = "reclaim"
  /\ holders' = [holders EXCEPT ![k] = None]
  /\ pc' = [pc EXCEPT ![t] = "claim"]
  /\ seen' = [seen EXCEPT ![t] = None]
  /\ UNCHANGED <<procVars, tableVars, asked, entered, uses>>
\* The owner is dead: its record goes, unless another is there by now.
Reclaim(t) ==
  LET k == Wanted[t][Current(t)] IN
  /\ pc[t] = "reclaim"
  /\ holders' = [holders EXCEPT ![k] = IF @ = seen[t] THEN None ELSE @]
  /\ pc' = [pc EXCEPT ![t] = "claim"]
  /\ seen' = [seen EXCEPT ![t] = None]
  /\ UNCHANGED <<procVars, tableVars, asked, entered, uses>>

\* The back-off is over.
Wake(t) ==
  /\ LoopFree(ProcessOf[t])
  /\ pc[t] = "asleep"
  /\ pc' = [pc EXCEPT ![t] = "claim"]
  /\ seen' = [seen EXCEPT ![t] = None]
  /\ UNCHANGED <<procVars, holders, tableVars, asked, entered, uses>>

-----------------------------------------------------------------------------
(* Cancellation, and giving the locks back.                                 *)

Cancel_KeepsNoEntry(t) ==  \* mutant
  LET p == ProcessOf[t]  i == Current(t) IN
  /\ LoopFree(p)
  /\ pc[t] \in {"gate", "asleep"}
  /\ gate' = [gate EXCEPT ![p][Wanted[t][i]] = Leave(t, i, @)]
  /\ pc' = [pc EXCEPT ![t] = IF entered[t] = {} THEN "idle" ELSE "undoing"]
  /\ asked' = [asked EXCEPT ![t] = @ \ {i}]
  /\ seen' = [seen EXCEPT ![t] = None]
  /\ UNCHANGED <<procVars, holders, shared, local, made, entered, uses>>
\* A cancellation reaches the task where it awaits: at a gate, which it leaves,
\* or between two polls, where the gate is its own and is passed on.
Cancel(t) ==
  LET p == ProcessOf[t]  i == Current(t) IN
  /\ LoopFree(p)
  /\ pc[t] \in {"gate", "asleep"}
  /\ gate' = [gate EXCEPT ![p][Wanted[t][i]] = Leave(t, i, @)]
  /\ pc' = [pc EXCEPT ![t] = "undoing"]
  /\ seen' = [seen EXCEPT ![t] = None]
  /\ UNCHANGED <<procVars, holders, shared, local, made, asked, entered, uses>>

Undo_OnlyCounts(t) ==  \* mutant
  /\ LoopFree(ProcessOf[t])
  /\ pc[t] = "undoing"
  /\ pc' = [pc EXCEPT ![t] = "idle"]
  /\ asked' = [asked EXCEPT ![t] = {}]
  /\ entered' = [entered EXCEPT ![t] = {}]
  /\ UNCHANGED <<procVars, holders, tableVars, seen, uses>>
\* _rollback_acquired_locks: every entry has a shielded task of its own, which
\* a second cancellation does not reach.
Undo(t) ==
  /\ LoopFree(ProcessOf[t])
  /\ pc[t] = "undoing"
  /\ \E i \in Place(t) : IsLast(t, i) /\ GiveBack(t, i)

\* The body is over: finished, failed or cancelled.  From here __aexit__ waits
\* for its release task whatever happens to it.
Exit(t) ==
  /\ LoopFree(ProcessOf[t])
  /\ pc[t] = "inside"
  /\ pc' = [pc EXCEPT ![t] = "leaving"]
  /\ UNCHANGED <<procVars, holders, tableVars, asked, entered, seen, uses>>

\* release_all_locks awaits nothing; other processes see one key after another.
Release(t) ==
  /\ pc[t] = "leaving"
  /\ \E i \in Place(t) : IsLast(t, i) /\ GiveBack(t, i)

-----------------------------------------------------------------------------
(* Processes.                                                               *)

\* SIGKILL: what the process kept is gone, what it shared stays.
Kill(p) ==
  /\ p \in alive /\ deaths < MaxDeaths
  /\ alive' = alive \ {p}
  /\ deaths' = deaths + 1
  /\ local' = [local EXCEPT ![p] = [k \in Key |-> None]]
  /\ made' = [made EXCEPT ![p] = [k \in Key |-> 0]]
  /\ gate' = [gate EXCEPT ![p] = [k \in Key |-> <<>>]]
  /\ pc' = [t \in Task |-> IF ProcessOf[t] = p THEN "idle" ELSE pc[t]]
  /\ asked' = [t \in Task |-> IF ProcessOf[t] = p THEN {} ELSE asked[t]]
  /\ entered' = [t \in Task |-> IF ProcessOf[t] = p THEN {} ELSE entered[t]]
  /\ seen' = [t \in Task |-> IF ProcessOf[t] = p THEN None ELSE seen[t]]
  /\ UNCHANGED <<start, holders, shared, uses>>

\* A new worker is given the id of a dead one.
Restart(p) ==
  /\ p \notin alive
  /\ alive' = alive \cup {p}
  /\ start' = [start EXCEPT ![p] = @ + 1]
  /\ UNCHANGED <<deaths, holders, tableVars, taskVars>>

-----------------------------------------------------------------------------
Acquire(t) == Claim(t) \/ FindHeld(t) \/ Probe(t) \/ Reclaim(t)
Resume(t)  == PassGate(t) \/ Wake(t) \/ Undo(t) \/ Exit(t)

Next ==
  \/ \E t \in Task : Begin(t) \/ Acquire(t) \/ Resume(t) \/ Cancel(t) \/ Release(t)
  \/ \E p \in Process : Kill(p) \/ Restart(p)

Spec == Init /\ [][Next]_vars

(***************************************************************************)
(* A process that lives runs the task it is running, and its event loop    *)
(* gives every task that can go on its turn, however often other tasks run *)
(* in between: hence strong fairness.  Bodies end (what they await has      *)
(* timeouts).  Nobody has to ask, to cancel, to die or to be started again. *)
(***************************************************************************)
Fairness ==
  \A t \in Task : WF_vars(Acquire(t) \/ Release(t)) /\ SF_vars(Resume(t))

FairSpec == Spec /\ Fairness

-----------------------------------------------------------------------------
(* Properties.                                                              *)

\* A key is held by one task at most, in all the processes, whoever dies and
\* whoever takes records away meanwhile.
MutualExclusion ==
  \A t, u \in Task : \A i \in entered[t], j \in entered[u] :
    Wanted[t][i] = Wanted[u][j] => t = u /\ i = j

\* A record of a living process is there because its task is in: no way out of
\* __aenter__ or __aexit__ leaves a record behind, which nobody would remove.
NoOrphan ==
  \A k \in Key : LET r == holders[k] IN
    r # None /\ OwnerAlive(r) => r.place \in entered[r.task] /\ r = Lease(r.task, r.place)

\* "The async gate above already caps this process to one poller per key":
\* of the tasks of a process, one at most is past the gate of a key, polling
\* or inside, however often gates are dropped from the table and made again.
PastGate(t) ==
  entered[t] \cup (IF pc[t] \in Asking \ {"gate"} THEN asked[t] ELSE {})
OnePoller ==
  \A t, u \in Task : ProcessOf[t] = ProcessOf[u] =>
    \A i \in PastGate(t), j \in PastGate(u) :
      Wanted[t][i] = Wanted[u][j] => t = u /\ i = j

\* The reference counts are those of the lock objects in use, so that cleaning
\* up takes no key that is in use; what a killed process had stays counted.
References(p, k) ==
  {r \in UNION {{t} \X asked[t] : t \in Task} :
     ProcessOf[r[1]] = p /\ Wanted[r[1]][r[2]] = k}
BooksBalance ==
  \A k \in Key :
    /\ \A p \in Process : Count(local[p][k]) = Cardinality(References(p, k))
    /\ Count(shared[k]) >= Cardinality(UNION {References(p, k) : p \in Process})
    /\ deaths = 0 =>
         Count(shared[k]) = Cardinality(UNION {References(p, k) : p \in Process})

\* "The sorting is critical to ensure proper lock and release order to avoid
\* deadlocks", and "a SIGKILLed holder can no longer deadlock every other
\* worker": whoever asks for keys gets them, or has been cancelled or killed.
EveryoneEnters == \A t \in Task : pc[t] \in Asking ~> pc[t] \notin Asking

=============================================================================
