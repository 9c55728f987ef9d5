-------------------------- MODULE KeyedLocksProofs --------------------------
(***************************************************************************)
(* Proofs about KeyedLocks, for every set of processes, tasks and keys and *)
(* whatever the callers list: a key is held by one task at most, the counts *)
(* of a key are the entries that tasks hold for it, and a gate that is      *)
(* dropped while unused never leaves its key with two queues.               *)
(***************************************************************************)
EXTENDS KeyedLocks, QueueLemmas, FiniteSetTheorems, TLAPS

\* What the argument needs to know of the types.
Types ==
  /\ alive \subseteq Process
  /\ start \in [Process -> Nat]
  /\ holders \in [Key -> Leases \cup {None}]
  /\ pc \in [Task -> Phase]
  /\ asked \in [Task -> SUBSET Nat]
  /\ entered \in [Task -> SUBSET Nat]
  /\ seen \in [Task -> Leases \cup {None}]
  /\ uses \in [Task -> Nat]

\* A task has entries for its own keys only, and enters what it has asked for.
Entries ==
  \A t \in Task :
    /\ asked[t] \subseteq Place(t)
    /\ entered[t] \subseteq asked[t]
    /\ pc[t] \in Asking => asked[t] \ entered[t] # {}
    /\ pc[t] = "idle" => entered[t] = {}
    /\ ProcessOf[t] \notin alive => pc[t] = "idle"

\* While a task is in, its record stands.
Recorded ==
  \A t \in Task : \A i \in entered[t] : holders[Wanted[t][i]] = Lease(t, i)

\* No record comes from a process yet to start, and the record a task is
\* about to remove is that of a dead one: start times only grow.
Past(r) == r.start <= start[ProcessOf[r.task]]
Records ==
  /\ \A k \in Key : holders[k] # None => Past(holders[k])
  /\ \A t \in Task : pc[t] \in {"probe", "reclaim"} => seen[t] \in Leases /\ Past(seen[t])
  /\ \A t \in Task : pc[t] = "reclaim" => ~OwnerAlive(seen[t])

IInv == Types /\ Entries /\ Recorded /\ Records

-----------------------------------------------------------------------------
\* Places of a task are numbers, and stand for keys.
LEMMA PlaceIsKey ==
  ASSUME NEW t \in Task, NEW i \in Place(t)
  PROVE  i \in Nat /\ Wanted[t][i] \in Key
<1>1. Wanted[t] \in Seq(Key)
  BY ConstantsAssumption DEF ConstantsAssumption
<1> QED
  BY <1>1 DEF Place

\* A record is no absence of one, and identifies its acquisition.
LEMMA LeaseFacts ==
  ASSUME Types, NEW t \in Task, NEW i \in Nat
  PROVE  /\ Lease(t, i) \in Leases
         /\ Lease(t, i) # None
         /\ Past(Lease(t, i))
         /\ ProcessOf[t] \in alive => OwnerAlive(Lease(t, i))
         /\ \A u \in Task, j \in Nat : Lease(t, i) = Lease(u, j) => t = u /\ i = j
<1>1. ProcessOf[t] \in Process
  BY ConstantsAssumption DEF ConstantsAssumption
<1>2. start[ProcessOf[t]] \in Nat /\ uses[t] \in Nat
  BY <1>1 DEF Types
<1>3. Lease(t, i) \in Leases
  BY <1>2 DEF Lease, Leases
<1>4. Lease(t, i) # None
  BY <1>3, ConstantsAssumption DEF ConstantsAssumption, Leases
<1>5. Past(Lease(t, i)) /\ (ProcessOf[t] \in alive => OwnerAlive(Lease(t, i)))
  BY <1>2 DEF Past, Lease, OwnerAlive
<1>6. \A u \in Task, j \in Nat : Lease(t, i) = Lease(u, j) => t = u /\ i = j
  <2>1. TAKE u \in Task, j \in Nat
  <2>2. Lease(t, i).task = t /\ Lease(u, j).task = u /\ Lease(t, i).place = i /\ Lease(u, j).place = j
    BY DEF Lease
  <2> QED
    BY <2>2
<1> QED
  BY <1>3, <1>4, <1>5, <1>6

\* The place a task is asking for.
LEMMA CurrentIsAsked ==
  ASSUME IInv, NEW t \in Task, pc[t] \in Asking
  PROVE  /\ Current(t) \in asked[t] \ entered[t]
         /\ Current(t) \in Place(t)
<1>1. asked[t] \ entered[t] # {} /\ asked[t] \subseteq Place(t)
  BY DEF IInv, Entries
<1> QED
  BY <1>1 DEF Current

\* Two places with the same standing record are one.
LEMMA RecordedOnce ==
  ASSUME IInv, NEW t \in Task, NEW u \in Task, NEW i \in entered[t], NEW j \in entered[u],
         Wanted[t][i] = Wanted[u][j]
  PROVE  t = u /\ i = j
<1>1. i \in Nat /\ j \in Nat
  BY DEF IInv, Types
<1>2. Lease(t, i) = Lease(u, j)
  BY DEF IInv, Recorded
<1> QED
  BY <1>1, <1>2, LeaseFacts DEF IInv

-----------------------------------------------------------------------------
\* Initially nobody has anything.
LEMMA InitIInv == Init => IInv
<1> SUFFICES ASSUME Init PROVE IInv
  OBVIOUS
<1>1. Types
  BY DEF Init, Types, Phase
<1>2. Entries
  BY DEF Init, Entries, Asking
<1>3. Recorded
  BY DEF Init, Recorded
<1>4. Records
  BY DEF Init, Records
<1> QED
  BY <1>1, <1>2, <1>3, <1>4 DEF IInv

\* Steps that leave processes, records, entries and counters of use alone: the
\* task goes to phase q and remembers r.
Quiet(t, q, r) ==
  /\ UNCHANGED <<alive, start, holders, asked, entered, uses>>
  /\ ProcessOf[t] \in alive
  /\ pc' = [pc EXCEPT ![t] = q]
  /\ seen' = [seen EXCEPT ![t] = r]
  /\ q \in Phase \ {"idle"} /\ r \in Leases \cup {None}
  /\ q \in Asking => pc[t] \in Asking
  /\ q \in {"probe", "reclaim"} => r \in Leases /\ Past(r)
  /\ q = "reclaim" => ~OwnerAlive(r)

\* A step that leaves records, processes and entries alone keeps the invariant.
LEMMA QuietStep ==
  ASSUME IInv, NEW t \in Task, NEW q, NEW r, Quiet(t, q, r)
  PROVE  IInv'
<1>1. Types'
  BY DEF IInv, Types, Quiet
<1>2. Entries'
  BY DEF IInv, Types, Entries, Place, Quiet
<1>3. Recorded'
  BY DEF IInv, Types, Recorded, Lease, Quiet
<1>4. Records'
  BY DEF IInv, Types, Records, Past, OwnerAlive, Quiet
<1> QED
  BY <1>1, <1>2, <1>3, <1>4 DEF IInv

\* A lock object is asked for: an entry more, not entered yet.
LEMMA AskFacts ==
  ASSUME IInv, NEW t \in Task, NEW i, IsNext(t, i), Ask(t, i)
  PROVE  /\ i \in Place(t) /\ i \notin asked[t] /\ i \in Nat
         /\ asked' = [asked EXCEPT ![t] = @ \cup {i}]
         /\ \E q \in {"gate", "claim"} : pc' = [pc EXCEPT ![t] = q]
BY PlaceIsKey DEF Ask, IsNext

\* A new use of the keys changes the record of no entry in use.
LEMMA BeginStep ==
  ASSUME IInv, NEW t \in Task, Begin(t)
  PROVE  IInv'
<1>1. PICK i \in Place(t) : IsNext(t, i) /\ Ask(t, i)
  BY DEF Begin
<1>2. PICK q \in {"gate", "claim"} : pc' = [pc EXCEPT ![t] = q]
  BY <1>1, AskFacts
<1>3. /\ i \notin asked[t] /\ i \in Nat
      /\ asked' = [asked EXCEPT ![t] = @ \cup {i}]
  BY <1>1, AskFacts
<1>4. /\ UNCHANGED <<alive, start, holders, entered, seen>>
      /\ uses' = [uses EXCEPT ![t] = @ + 1]
      /\ pc[t] = "idle" /\ ProcessOf[t] \in alive
  BY DEF Begin, procVars, LoopFree
<1>5. entered[t] = {}
  BY <1>4 DEF IInv, Entries
<1>6. Types'
  BY <1>2, <1>3, <1>4 DEF IInv, Types, Phase, Asking
<1>7. Entries'
  BY <1>1, <1>2, <1>3, <1>4, <1>5 DEF IInv, Types, Entries, Place, Asking
<1>8. Recorded'
  BY <1>4, <1>5 DEF IInv, Types, Recorded, Lease
<1>9. Records'
  BY <1>2, <1>4 DEF IInv, Types, Records, Past, OwnerAlive
<1> QED
  BY <1>6, <1>7, <1>8, <1>9 DEF IInv

\* A record is written where there is none, so no other entry loses its own.
LEMMA ClaimStep ==
  ASSUME IInv, NEW t \in Task, Claim(t)
  PROVE  IInv'
<1> DEFINE i == Current(t)
<1>1. /\ UNCHANGED <<alive, start, seen, uses>>
      /\ pc[t] = "claim"
      /\ holders[Wanted[t][i]] = None
      /\ holders' = [holders EXCEPT ![Wanted[t][i]] = Lease(t, i)]
      /\ entered' = [entered EXCEPT ![t] = @ \cup {i}]
  BY DEF Claim, procVars
<1>2. i \in asked[t] \ entered[t] /\ i \in Place(t) /\ i \in Nat /\ Wanted[t][i] \in Key
  BY <1>1, CurrentIsAsked, PlaceIsKey DEF Asking
<1>3. ProcessOf[t] \in alive
  BY <1>1 DEF IInv, Entries
<1>4. PICK q \in {"gate", "claim", "inside"} :
        /\ pc' = [pc EXCEPT ![t] = q]
        /\ \/ q = "inside" /\ UNCHANGED asked
           \/ /\ q # "inside"
              /\ \E j \in Place(t) \ asked[t] :
                   asked' = [asked EXCEPT ![t] = @ \cup {j}]
  <2>1. CASE \E j \in Place(t) : IsNext(t, j) /\ Ask(t, j)
    BY <2>1, AskFacts
  <2>2. CASE pc' = [pc EXCEPT ![t] = "inside"] /\ UNCHANGED asked
    BY <2>2
  <2> QED
    BY <2>1, <2>2 DEF Claim
<1>5. Lease(t, i) \in Leases /\ Lease(t, i) # None /\ Past(Lease(t, i))
  BY <1>2, LeaseFacts DEF IInv
<1>6. \A j \in Place(t) : j \in Nat
  BY PlaceIsKey
<1>7. Types'
  BY <1>1, <1>2, <1>4, <1>5, <1>6 DEF IInv, Types, Phase, Asking
<1>8. Entries'
  BY <1>1, <1>2, <1>3, <1>4, <1>6 DEF IInv, Types, Entries, Place, Asking
<1>9. Recorded'
  <2> SUFFICES ASSUME NEW u \in Task, NEW j \in entered'[u]
               PROVE  holders'[Wanted[u][j]] = Lease(u, j)
    BY <1>1 DEF Recorded, Lease
  <2>1. CASE u = t /\ j = i
    BY <2>1, <1>1, <1>2 DEF IInv, Types
  <2>2. CASE ~(u = t /\ j = i)
    <3>1. j \in entered[u]
      BY <2>2, <1>1 DEF IInv, Types
    <3>2. holders[Wanted[u][j]] = Lease(u, j) /\ Lease(u, j) # None
      BY <3>1, LeaseFacts DEF IInv, Types, Recorded
    <3> QED
      BY <3>2, <1>1, <1>2 DEF IInv, Types
  <2> QED
    BY <2>1, <2>2
<1>10. Records'
  BY <1>1, <1>2, <1>4, <1>5 DEF IInv, Types, Records, Past, OwnerAlive
<1> QED
  BY <1>7, <1>8, <1>9, <1>10 DEF IInv

\* What is taken away is the record of a dead process, which has no task in.
LEMMA ReclaimStep ==
  ASSUME IInv, NEW t \in Task, Reclaim(t)
  PROVE  IInv'
<1> DEFINE k == Wanted[t][Current(t)]
<1>1. /\ UNCHANGED <<alive, start, asked, entered, uses>>
      /\ pc[t] = "reclaim"
      /\ holders' = [holders EXCEPT ![k] = IF @ = seen[t] THEN None ELSE @]
      /\ pc' = [pc EXCEPT ![t] = "claim"]
      /\ seen' = [seen EXCEPT ![t] = None]
  BY DEF Reclaim, procVars
<1>2. ~OwnerAlive(seen[t])
  BY <1>1 DEF IInv, Records
<1>3. Types'
  BY <1>1 DEF IInv, Types, Phase, Asking
<1>4. Entries'
  BY <1>1 DEF IInv, Types, Entries, Place, Asking
<1>5. Recorded'
  <2> SUFFICES ASSUME NEW u \in Task, NEW j \in entered[u]
               PROVE  holders'[Wanted[u][j]] = Lease(u, j)
    BY <1>1 DEF Recorded, Lease
  <2>1. holders[Wanted[u][j]] = Lease(u, j)
    BY DEF IInv, Recorded
  <2>2. ProcessOf[u] \in alive /\ j \in Nat
    BY DEF IInv, Entries, Types
  <2>3. OwnerAlive(Lease(u, j))
    BY <2>2, LeaseFacts DEF IInv
  <2>4. Wanted[u][j] \in Key
    BY PlaceIsKey DEF IInv, Entries
  <2> QED
    BY <1>1, <1>2, <2>1, <2>3, <2>4 DEF IInv, Types
<1>6. Records'
  BY <1>1 DEF IInv, Types, Records, Past, OwnerAlive
<1> QED
  BY <1>3, <1>4, <1>5, <1>6 DEF IInv

\* A record given back is the task's own, and of the entry given back.
LEMMA GiveBackStep ==
  ASSUME IInv, NEW t \in Task, NEW i \in Place(t), IsLast(t, i), GiveBack(t, i),
         pc[t] \in {"undoing", "leaving"}
  PROVE  IInv'
<1> DEFINE k == Wanted[t][i]
<1>1. /\ UNCHANGED <<alive, start, seen, uses>>
      /\ holders' = [holders EXCEPT ![k] = IF i \in entered[t] /\ @ = Lease(t, i) THEN None ELSE @]
      /\ asked' = [asked EXCEPT ![t] = @ \ {i}]
      /\ entered' = [entered EXCEPT ![t] = @ \ {i}]
      /\ pc' = [pc EXCEPT ![t] = IF asked[t] = {i} THEN "idle" ELSE @]
  BY DEF GiveBack, procVars
<1>2. i \in Nat /\ k \in Key
  BY PlaceIsKey
<1>3. Types'
  BY <1>1 DEF IInv, Types, Phase, Asking
<1>4. Entries'
  BY <1>1 DEF IInv, Types, Entries, Place, Asking
<1>5. Recorded'
  <2> SUFFICES ASSUME NEW u \in Task, NEW j \in entered'[u]
               PROVE  holders'[Wanted[u][j]] = Lease(u, j)
    BY <1>1 DEF Recorded, Lease
  <2>1. j \in entered[u] /\ ~(u = t /\ j = i)
    BY <1>1 DEF IInv, Types
  <2>2. holders[Wanted[u][j]] = Lease(u, j)
    BY <2>1 DEF IInv, Recorded
  <2>3. j \in Nat /\ Wanted[u][j] \in Key
    BY <2>1, PlaceIsKey DEF IInv, Entries, Types
  <2>4. Lease(u, j) # Lease(t, i)
    BY <1>2, <2>1, <2>3, LeaseFacts DEF IInv
  <2> QED
    BY <1>1, <2>2, <2>3, <2>4 DEF IInv, Types
<1>6. Records'
  BY <1>1 DEF IInv, Types, Records, Past, OwnerAlive
<1> QED
  BY <1>3, <1>4, <1>5, <1>6 DEF IInv

\* The tasks of a killed process hold nothing any more.
LEMMA KillStep ==
  ASSUME IInv, NEW p \in Process, Kill(p)
  PROVE  IInv'
<1>1. /\ UNCHANGED <<start, holders, uses>>
      /\ alive' = alive \ {p}
      /\ pc' = [t \in Task |-> IF ProcessOf[t] = p THEN "idle" ELSE pc[t]]
      /\ asked' = [t \in Task |-> IF ProcessOf[t] = p THEN {} ELSE asked[t]]
      /\ entered' = [t \in Task |-> IF ProcessOf[t] = p THEN {} ELSE entered[t]]
      /\ seen' = [t \in Task |-> IF ProcessOf[t] = p THEN None ELSE seen[t]]
  BY DEF Kill
<1>2. Types'
  BY <1>1 DEF IInv, Types, Phase
<1>3. Entries'
  BY <1>1 DEF IInv, Types, Entries, Place, Asking
<1>4. Recorded'
  BY <1>1 DEF IInv, Types, Recorded, Lease
<1>5. Records'
  BY <1>1 DEF IInv, Types, Records, Past, OwnerAlive
<1> QED
  BY <1>2, <1>3, <1>4, <1>5 DEF IInv

\* A later owner of the process id does not bring its records back to life.
LEMMA RestartStep ==
  ASSUME IInv, NEW p \in Process, Restart(p)
  PROVE  IInv'
<1>1. /\ UNCHANGED <<holders, pc, asked, entered, seen, uses>>
      /\ p \notin alive
      /\ alive' = alive \cup {p}
      /\ start' = [start EXCEPT ![p] = @ + 1]
  BY DEF Restart, taskVars
<1>2. Types'
  BY <1>1 DEF IInv, Types
<1>3. Entries'
  BY <1>1 DEF IInv, Entries, Place
<1>4. Recorded'
  <2> SUFFICES ASSUME NEW t \in Task, NEW i \in entered[t]
               PROVE  Lease(t, i)' = Lease(t, i)
    BY <1>1 DEF IInv, Recorded
  <2>1. ProcessOf[t] # p
    BY <1>1 DEF IInv, Entries
  <2> QED
    BY <1>1, <2>1 DEF IInv, Types, Lease
<1>5. \A r \in Leases : Past(r) => Past(r)' /\ (~OwnerAlive(r) => ~OwnerAlive(r)')
  <2> SUFFICES ASSUME NEW r \in Leases, Past(r)
               PROVE  Past(r)' /\ (~OwnerAlive(r) => ~OwnerAlive(r)')
    OBVIOUS
  <2>1. ProcessOf[r.task] \in Process /\ r.start \in Nat
    BY ConstantsAssumption DEF ConstantsAssumption, Leases
  <2>2. CASE ProcessOf[r.task] = p
    BY <1>1, <2>1, <2>2 DEF IInv, Types, Past, OwnerAlive
  <2>3. CASE ProcessOf[r.task] # p
    BY <1>1, <2>1, <2>3 DEF IInv, Types, Past, OwnerAlive
  <2> QED
    BY <2>2, <2>3
<1>6. Records'
  <2>1. \A k \in Key : holders'[k] # None => Past(holders[k])'
    BY <1>1, <1>5 DEF IInv, Types, Records
  <2>2. \A t \in Task : pc'[t] \in {"probe", "reclaim"} => seen'[t] \in Leases /\ Past(seen[t])'
    BY <1>1, <1>5 DEF IInv, Records
  <2>3. \A t \in Task : pc'[t] = "reclaim" => ~OwnerAlive(seen[t])'
    BY <1>1, <1>5 DEF IInv, Records
  <2> QED
    BY <1>1, <2>1, <2>2, <2>3 DEF Records, Past, OwnerAlive
<1> QED
  BY <1>2, <1>3, <1>4, <1>6 DEF IInv

-----------------------------------------------------------------------------
\* Every step keeps the invariant.
LEMMA NextIInv == IInv /\ [Next]_vars => IInv'
<1> SUFFICES ASSUME IInv, [Next]_vars PROVE IInv'
  OBVIOUS
<1>1. ASSUME NEW t \in Task, PassGate(t) \/ FindHeld(t) \/ Probe(t) \/ Wake(t) \/ Cancel(t) \/ Exit(t)
      PROVE  IInv'
  <2>1. ProcessOf[t] \in alive
    BY <1>1 DEF PassGate, FindHeld, Probe, Wake, Cancel, Exit, LoopFree, IInv, Entries
  <2>2. seen[t] \in Leases \cup {None} /\ seen = [seen EXCEPT ![t] = seen[t]]
    BY DEF IInv, Types
  <2>3. CASE PassGate(t)
    <3>1. Quiet(t, "claim", seen[t])
      BY <2>1, <2>2, <2>3 DEF PassGate, procVars, Quiet, Asking, Phase
    <3> QED
      BY <3>1, QuietStep
  <2>4. CASE FindHeld(t)
    <3> DEFINE r == holders[Wanted[t][Current(t)]]
    <3>1. pc[t] = "claim" /\ r # None
      BY <2>4 DEF FindHeld
    <3>2. Wanted[t][Current(t)] \in Key
      BY <3>1, CurrentIsAsked, PlaceIsKey DEF Asking
    <3>3. r \in Leases /\ Past(r)
      BY <3>1, <3>2 DEF IInv, Types, Records
    <3>4. Quiet(t, "probe", r)
      BY <2>1, <2>4, <3>1, <3>3 DEF FindHeld, procVars, Quiet, Asking, Phase
    <3> QED
      BY <3>4, QuietStep
  <2>5. CASE Probe(t)
    <3>1. pc[t] = "probe" /\ seen[t] \in Leases /\ Past(seen[t])
      BY <2>5 DEF Probe, IInv, Records
    <3>2. Quiet(t, IF OwnerAlive(seen[t]) THEN "asleep" ELSE "reclaim", seen[t])
      BY <2>1, <2>2, <2>5, <3>1 DEF Probe, procVars, Quiet, Asking, Phase
    <3> QED
      BY <3>2, QuietStep
  <2>6. CASE Wake(t)
    <3>1. Quiet(t, "claim", None)
      BY <2>1, <2>6 DEF Wake, procVars, Quiet, Asking, Phase
    <3> QED
      BY <3>1, QuietStep
  <2>7. CASE Cancel(t)
    <3>1. Quiet(t, "undoing", None)
      BY <2>1, <2>7 DEF Cancel, procVars, Quiet, Asking, Phase
    <3> QED
      BY <3>1, QuietStep
  <2>8. CASE Exit(t)
    <3>1. Quiet(t, "leaving", seen[t])
      BY <2>1, <2>2, <2>8 DEF Exit, procVars, Quiet, Asking, Phase, Sync
    <3> QED
      BY <3>1, QuietStep
  <2> QED
    BY <1>1, <2>3, <2>4, <2>5, <2>6, <2>7, <2>8
<1>2. ASSUME NEW t \in Task, Undo(t) \/ Release(t) PROVE IInv'
  BY <1>2, GiveBackStep DEF Undo, Release
<1>3. CASE UNCHANGED vars
  BY <1>3 DEF vars, procVars, tableVars, taskVars, IInv, Types, Entries, Recorded, Records,
              Past, OwnerAlive, Lease, Place
<1> QED
  BY <1>1, <1>2, <1>3, BeginStep, ClaimStep, ReclaimStep, KillStep, RestartStep
     DEF Next, Acquire, Resume

\* get_storage_keyed_lock excludes: a key is held by one task at most, in all
\* the processes, however many there are, whoever of them dies at any point,
\* whoever takes the records of the dead away and whatever ids are used again.
THEOREM Exclusion == Spec => []MutualExclusion
<1>1. IInv => MutualExclusion
  <2> SUFFICES ASSUME IInv, NEW t \in Task, NEW u \in Task,
                      NEW i \in entered[t], NEW j \in entered[u],
                      Wanted[t][i] = Wanted[u][j]
               PROVE  t = u /\ i = j
    BY DEF MutualExclusion
  <2> QED
    BY RecordedOnce
<1> QED
  BY <1>1, InitIInv, NextIInv, PTL DEF Spec

-----------------------------------------------------------------------------
\* The converse of Recorded: a record lies at the key it is for, and if its
\* process lives its task is in.
Stands(r, k) ==
  /\ Wanted[r.task][r.place] = k
  /\ OwnerAlive(r) => r.place \in entered[r.task] /\ r = Lease(r.task, r.place)
Standing == \A k \in Key : holders[k] # None => Stands(holders[k], k)

\* Steps that change neither processes nor records, and take nobody out.
LEMMA StandingQuiet ==
  ASSUME Types, Standing, UNCHANGED <<alive, start, holders>>,
         \A t \in Task : entered[t] # {} => entered'[t] = entered[t] /\ uses'[t] = uses[t]
  PROVE  Standing'
<1> SUFFICES ASSUME NEW k \in Key, NEW r, r = holders'[k], r # None
               PROVE  Stands(r, k)'
  BY DEF Standing
<1>1. r = holders[k] /\ r.task \in Task
  BY DEF Types, Leases
<1>2. Stands(r, k)
  BY <1>1 DEF Standing
<1> QED
  BY <1>1, <1>2 DEF Stands, OwnerAlive, Lease

\* Every step keeps records and entries together.
LEMMA NextStanding ==
  ASSUME IInv, Standing, [Next]_vars
  PROVE  Standing'
<1>1. ASSUME NEW t \in Task, Begin(t) PROVE Standing'
  <2>1. entered[t] = {} /\ uses' = [uses EXCEPT ![t] = @ + 1] /\ UNCHANGED <<alive, start, holders, entered>>
    BY <1>1 DEF Begin, procVars, IInv, Entries
  <2> QED
    BY <2>1, StandingQuiet DEF IInv, Types
<1>2. ASSUME NEW t \in Task, Claim(t) PROVE Standing'
  <2>0. PICK i : i = Current(t)
    OBVIOUS
  <2>1. /\ UNCHANGED <<alive, start, uses>> /\ pc[t] = "claim"
        /\ holders' = [holders EXCEPT ![Wanted[t][i]] = Lease(t, i)]
        /\ entered' = [entered EXCEPT ![t] = @ \cup {i}]
    BY <1>2, <2>0 DEF Claim, procVars
  <2>2. i \in Nat /\ Wanted[t][i] \in Key
    BY <2>0, <2>1, CurrentIsAsked, PlaceIsKey DEF Asking
  <2>3. Lease(t, i)' = Lease(t, i) /\ Lease(t, i).task = t /\ Lease(t, i).place = i
    BY <2>1 DEF Lease
  <2> SUFFICES ASSUME NEW k \in Key, NEW r, r = holders'[k], r # None
               PROVE  Stands(r, k)'
    BY DEF Standing
  <2>4. CASE k = Wanted[t][i]
    <3>1. r = Lease(t, i) /\ r.task = t /\ r.place = i /\ i \in entered'[t]
      BY <2>1, <2>2, <2>3, <2>4 DEF IInv, Types
    <3> QED
      BY <2>3, <2>4, <3>1 DEF Stands
  <2>5. CASE k # Wanted[t][i]
    <3>1. r = holders[k] /\ r.task \in Task
      BY <2>1, <2>2, <2>5 DEF IInv, Types, Leases
    <3>2. Stands(r, k)
      BY <3>1 DEF Standing
    <3>3. entered[r.task] \subseteq entered'[r.task]
      BY <2>1, <3>1 DEF IInv, Types
    <3> QED
      BY <2>1, <3>1, <3>2, <3>3 DEF Stands, OwnerAlive, Lease
  <2> QED
    BY <2>4, <2>5
<1>3. ASSUME NEW t \in Task, Reclaim(t) PROVE Standing'
  <2> DEFINE c == Wanted[t][Current(t)]
  <2>1. /\ UNCHANGED <<alive, start, entered, uses>>
        /\ holders' = [holders EXCEPT ![c] = IF @ = seen[t] THEN None ELSE @]
    BY <1>3 DEF Reclaim, procVars
  <2>2. \A k \in Key : holders'[k] # None => holders'[k] = holders[k]
    BY <2>1 DEF IInv, Types
  <2> SUFFICES ASSUME NEW k \in Key, NEW r, r = holders'[k], r # None
               PROVE  Stands(r, k)'
    BY DEF Standing
  <2>3. Stands(r, k)
    BY <2>2 DEF Standing
  <2> QED
    BY <2>1, <2>3 DEF Stands, OwnerAlive, Lease
<1>4. ASSUME NEW t \in Task, Undo(t) \/ Release(t) PROVE Standing'
  <2>1. PICK i \in Place(t) : GiveBack(t, i)
    BY <1>4 DEF Undo, Release
  <2> DEFINE c == Wanted[t][i]
  <2>2. /\ UNCHANGED <<alive, start, uses>>
        /\ holders' = [holders EXCEPT ![c] = IF i \in entered[t] /\ @ = Lease(t, i) THEN None ELSE @]
        /\ entered' = [entered EXCEPT ![t] = @ \ {i}]
    BY <2>1 DEF GiveBack, procVars
  <2>3. i \in Nat /\ c \in Key
    BY PlaceIsKey
  <2> SUFFICES ASSUME NEW k \in Key, NEW r, r = holders'[k], r # None
               PROVE  Stands(r, k)'
    BY DEF Standing
  <2>4. holders'[k] = holders[k]
    BY <2>2, <2>3 DEF IInv, Types
  <2>5. r = holders[k] /\ r \in Leases /\ r.task \in Task
    BY <2>4 DEF IInv, Types, Leases
  <2>6. Stands(r, k) /\ Wanted[r.task][r.place] = k
    BY <2>5 DEF Standing, Stands
  <2>7. ASSUME OwnerAlive(r) PROVE r.place \in entered'[r.task] /\ r = Lease(r.task, r.place)
    <3>1. r.place \in entered[r.task] /\ r = Lease(r.task, r.place)
      BY <2>6, <2>7 DEF Stands
    <3>2. ~(r.task = t /\ r.place = i)
      <4> SUFFICES ASSUME r.task = t, r.place = i PROVE FALSE
        OBVIOUS
      <4>1. k = c /\ i \in entered[t] /\ r = Lease(t, i)
        BY <2>6, <3>1
      <4> QED
        BY <2>2, <2>3, <2>4, <2>5, <4>1 DEF IInv, Types
    <3> QED
      BY <2>2, <2>5, <3>1, <3>2 DEF IInv, Types
  <2> QED
    BY <2>2, <2>6, <2>7 DEF Stands, OwnerAlive, Lease
<1>5. ASSUME NEW p \in Process, Kill(p) PROVE Standing'
  <2>1. /\ UNCHANGED <<start, holders, uses>> /\ alive' = alive \ {p}
        /\ entered' = [t \in Task |-> IF ProcessOf[t] = p THEN {} ELSE entered[t]]
    BY <1>5 DEF Kill
  <2> SUFFICES ASSUME NEW k \in Key, NEW r, r = holders'[k], r # None
               PROVE  Stands(r, k)'
    BY <2>1 DEF Standing
  <2>2. r = holders[k] /\ r.task \in Task
    BY <2>1 DEF IInv, Types, Leases
  <2>3. Stands(r, k)
    BY <2>2 DEF Standing
  <2> QED
    BY <2>1, <2>2, <2>3 DEF Stands, OwnerAlive, Lease
<1>6. ASSUME NEW p \in Process, Restart(p) PROVE Standing'
  <2>1. /\ UNCHANGED <<holders, entered, uses>>
        /\ p \notin alive
        /\ alive' = alive \cup {p} /\ start' = [start EXCEPT ![p] = @ + 1]
    BY <1>6 DEF Restart, taskVars
  <2> SUFFICES ASSUME NEW k \in Key, NEW r, r = holders'[k], r # None
               PROVE  Stands(r, k)'
    BY <2>1 DEF Standing
  <2>2. r = holders[k] /\ r \in Leases /\ r.task \in Task /\ r.start \in Nat /\ Past(r)
    BY <2>1 DEF IInv, Types, Leases, Records
  <2>3. ProcessOf[r.task] \in Process
    BY <2>2, ConstantsAssumption DEF ConstantsAssumption
  <2>4. Stands(r, k)
    BY <2>2 DEF Standing
  <2>5. CASE ProcessOf[r.task] = p
    BY <2>1, <2>2, <2>3, <2>4, <2>5 DEF Stands, OwnerAlive, Past, IInv, Types
  <2>6. CASE ProcessOf[r.task] # p
    BY <2>1, <2>2, <2>3, <2>4, <2>6 DEF Stands, OwnerAlive, Lease, IInv, Types
  <2> QED
    BY <2>5, <2>6
<1>7. CASE UNCHANGED <<alive, start, holders, entered, uses>>
  BY <1>7, StandingQuiet DEF IInv
<1>8. ASSUME NEW t \in Task, PassGate(t) \/ FindHeld(t) \/ Probe(t) \/ Wake(t) \/ Cancel(t) \/ Exit(t)
      PROVE  UNCHANGED <<alive, start, holders, entered, uses>>
  BY <1>8 DEF PassGate, FindHeld, Probe, Wake, Cancel, Exit, procVars
<1>9. UNCHANGED vars => UNCHANGED <<alive, start, holders, entered, uses>>
  BY DEF vars, procVars, taskVars
<1> QED
  BY <1>1, <1>2, <1>3, <1>4, <1>5, <1>6, <1>7, <1>8, <1>9 DEF Next, Acquire, Resume

\* No cancellation, no rollback and no release, in whatever order, leaves the
\* record of a living process behind: it would never be taken away.
THEOREM NothingLeftBehind == Spec => []NoOrphan
<1>1. Init => Standing
  BY DEF Init, Standing
<1>2. Standing => NoOrphan
  BY DEF Standing, Stands, NoOrphan
<1> QED
  BY <1>1, <1>2, InitIInv, NextIInv, NextStanding, PTL DEF Spec

-----------------------------------------------------------------------------
(* Gates and counts.                                                        *)

Tickets == [task : Task, place : Nat, made : Nat]

Tables ==
  /\ deaths \in Nat
  /\ shared \in [Key -> Nat \cup {None}]
  /\ local \in [Process -> [Key -> Nat \cup {None}]]
  /\ made \in [Process -> [Key -> Nat]]
  /\ gate \in [Process -> [Key -> Seq(Tickets)]]

\* All of a task's entries are entered but the one it asks for.
Phases ==
  \A t \in Task :
    /\ pc[t] \in Asking => \E i \in Place(t) : asked[t] \ entered[t] = {i}
    /\ pc[t] \in {"inside", "leaving"} => asked[t] = entered[t]
    /\ pc[t] = "idle" => asked[t] = {}

AllReferences(k) == UNION {References(p, k) : p \in Process}

\* A count is that of the entries; the shared one may also count those of the killed.
Books ==
  \A k \in Key :
    /\ \A p \in Process : /\ IsFiniteSet(References(p, k))
                          /\ Count(local[p][k]) = Cardinality(References(p, k))
    /\ IsFiniteSet(AllReferences(k))
    /\ Count(shared[k]) >= Cardinality(AllReferences(k))
    /\ deaths = 0 => Count(shared[k]) = Cardinality(AllReferences(k))

\* What is counted at a key of a process.
LEMMA ReferenceFacts ==
  ASSUME NEW p, NEW k
  PROVE  /\ \A t \in Task : \A i : <<t, i>> \in References(p, k)
                                <=> i \in asked[t] /\ ProcessOf[t] = p /\ Wanted[t][i] = k
         /\ \A r \in References(p, k) : \E t \in Task : \E i \in asked[t] : r = <<t, i>>
BY DEF References

\* The same of the entries of all processes.
LEMMA AllReferenceFacts ==
  ASSUME NEW k
  PROVE  /\ \A t \in Task : \A i : <<t, i>> \in AllReferences(k)
                                <=> i \in asked[t] /\ Wanted[t][i] = k
         /\ \A r \in AllReferences(k) : \E t \in Task : \E i \in asked[t] : r = <<t, i>>
<1>1. \A t \in Task : ProcessOf[t] \in Process
  BY ConstantsAssumption DEF ConstantsAssumption
<1> QED
  BY <1>1, ReferenceFacts DEF AllReferences

Takes(t, i) == asked' = [asked EXCEPT ![t] = @ \cup {i}]
Drops(t, i) == asked' = [asked EXCEPT ![t] = @ \ {i}]

\* One entry more, one reference more.
LEMMA ReferencesGrow ==
  ASSUME asked \in [Task -> SUBSET Nat], NEW t \in Task, NEW i \in Nat, i \notin asked[t],
         Takes(t, i), NEW p, NEW k
  PROVE  /\ <<t, i>> \notin AllReferences(k)
         /\ <<t, i>> \notin References(p, k)
         /\ AllReferences(k)' = IF Wanted[t][i] = k THEN AllReferences(k) \cup {<<t, i>>}
                                ELSE AllReferences(k)
         /\ References(p, k)' = IF ProcessOf[t] = p /\ Wanted[t][i] = k
                                THEN References(p, k) \cup {<<t, i>>} ELSE References(p, k)
<1>1. \A u \in Task : asked'[u] = IF u = t THEN asked[u] \cup {i} ELSE asked[u]
  BY DEF Takes
<1>2. ASSUME NEW q
      PROVE  References(q, k)' = IF ProcessOf[t] = q /\ Wanted[t][i] = k
                                 THEN References(q, k) \cup {<<t, i>>} ELSE References(q, k)
  <2>1. ASSUME NEW r \in References(q, k)'
        PROVE  r \in References(q, k) \/ (r = <<t, i>> /\ ProcessOf[t] = q /\ Wanted[t][i] = k)
    BY <1>1 DEF References, Takes
  <2>2. References(q, k) \subseteq References(q, k)'
    BY <1>1 DEF References, Takes
  <2>3. ProcessOf[t] = q /\ Wanted[t][i] = k => <<t, i>> \in References(q, k)'
    BY <1>1 DEF References, Takes
  <2> QED
    BY <2>1, <2>2, <2>3
<1>3. ASSUME NEW q PROVE <<t, i>> \notin References(q, k)
  BY ReferenceFacts
<1>4. ProcessOf[t] \in Process
  BY ConstantsAssumption DEF ConstantsAssumption
<1>5. AllReferences(k)' = IF Wanted[t][i] = k THEN AllReferences(k) \cup {<<t, i>>}
                          ELSE AllReferences(k)
  <2>1. AllReferences(k)' = UNION {References(q, k)' : q \in Process}
    BY DEF AllReferences
  <2> QED
    BY <1>2, <1>4, <2>1 DEF AllReferences
<1> QED
  BY <1>2, <1>3, <1>5 DEF AllReferences

\* One entry less, one reference less.
LEMMA ReferencesShrink ==
  ASSUME asked \in [Task -> SUBSET Nat], NEW t \in Task, NEW i \in Nat, i \in asked[t],
         Drops(t, i), NEW p, NEW k
  PROVE  /\ AllReferences(k)' = IF Wanted[t][i] = k THEN AllReferences(k) \ {<<t, i>>}
                                ELSE AllReferences(k)
         /\ References(p, k)' = IF ProcessOf[t] = p /\ Wanted[t][i] = k
                                THEN References(p, k) \ {<<t, i>>} ELSE References(p, k)
<1>1. \A u \in Task : asked'[u] = IF u = t THEN asked[u] \ {i} ELSE asked[u]
  BY DEF Drops
<1>2. ASSUME NEW q
      PROVE  References(q, k)' = IF ProcessOf[t] = q /\ Wanted[t][i] = k
                                 THEN References(q, k) \ {<<t, i>>} ELSE References(q, k)
  <2>1. ASSUME NEW r \in References(q, k)'
        PROVE  r \in References(q, k) /\ r # <<t, i>>
    BY <1>1 DEF References, Drops
  <2>2. ASSUME NEW r \in References(q, k), r # <<t, i>>
        PROVE  r \in References(q, k)'
    BY <1>1, <2>2 DEF References, Drops
  <2>3. <<t, i>> \in References(q, k) => ProcessOf[t] = q /\ Wanted[t][i] = k
    BY ReferenceFacts
  <2> QED
    BY <2>1, <2>2, <2>3
<1>3. AllReferences(k)' = UNION {References(q, k)' : q \in Process}
  BY DEF AllReferences
<1>4. \A q : <<t, i>> \in References(q, k) => ProcessOf[t] = q /\ Wanted[t][i] = k
  BY ReferenceFacts
<1>5. AllReferences(k)' = IF Wanted[t][i] = k THEN AllReferences(k) \ {<<t, i>>}
                          ELSE AllReferences(k)
  BY <1>2, <1>3, <1>4 DEF AllReferences
<1> QED
  BY <1>2, <1>5

\* Numbers in a table of counts.
LEMMA CountFacts ==
  /\ Count(None) = 0
  /\ \A n \in Nat : Count(n) = n /\ n # None
  /\ \A c \in Nat \cup {None} : Count(c) \in Nat /\ (c # None => Count(c) = c)
BY ConstantsAssumption DEF Count, ConstantsAssumption

\* Entering a reference raises both counts of its key by one, as it adds one entry.
LEMMA BooksAsk ==
  ASSUME IInv, Tables, Books, NEW t \in Task, NEW i, IsNext(t, i), Ask(t, i), deaths' = deaths
  PROVE  /\ shared' \in [Key -> Nat \cup {None}]
         /\ local' \in [Process -> [Key -> Nat \cup {None}]]
         /\ Books'
<1> DEFINE p == ProcessOf[t]
           k == Wanted[t][i]
<1>1. /\ i \in Nat /\ i \notin asked[t] /\ k \in Key /\ p \in Process
      /\ Takes(t, i) /\ asked \in [Task -> SUBSET Nat]
  BY AskFacts, PlaceIsKey, ConstantsAssumption DEF IInv, Types, Takes, ConstantsAssumption
<1>2. /\ shared' = [shared EXCEPT ![k] = OneMore(@)]
      /\ local' = [local EXCEPT ![p][k] = OneMore(@)]
  BY DEF Ask
<1>3. \A c \in Nat \cup {None} : OneMore(c) \in Nat /\ Count(OneMore(c)) = Count(c) + 1
  <2> SUFFICES ASSUME NEW c \in Nat \cup {None}
               PROVE  OneMore(c) \in Nat /\ Count(OneMore(c)) = Count(c) + 1
    OBVIOUS
  <2>1. Count(c) \in Nat
    BY CountFacts
  <2>2. OneMore(c) = Count(c) + 1 /\ OneMore(c) \in Nat
    BY <2>1 DEF OneMore
  <2>3. \A n \in Nat : Count(n) = n
    BY ConstantsAssumption DEF Count, ConstantsAssumption
  <2> QED
    BY <2>2, <2>3
<1> HIDE DEF p, k
<1>4. shared' \in [Key -> Nat \cup {None}] /\ local' \in [Process -> [Key -> Nat \cup {None}]]
  BY <1>1, <1>2, <1>3 DEF Tables
<1>5. ASSUME NEW c \in Key
      PROVE  /\ Count(shared'[c]) = IF c = k THEN Count(shared[c]) + 1 ELSE Count(shared[c])
             /\ \A q \in Process :
                  Count(local'[q][c]) = IF q = p /\ c = k THEN Count(local[q][c]) + 1
                                        ELSE Count(local[q][c])
  BY <1>1, <1>2, <1>3 DEF Tables
<1>6. /\ \A c \in Key : <<t, i>> \notin AllReferences(c)
      /\ \A c \in Key, q \in Process : <<t, i>> \notin References(q, c)
  BY <1>1, ReferenceFacts, AllReferenceFacts
<1>16. ASSUME NEW c \in Key
       PROVE  AllReferences(c)' = IF k = c THEN AllReferences(c) \cup {<<t, i>>} ELSE AllReferences(c)
  BY <1>1, ReferencesGrow DEF k
<1>26. ASSUME NEW c \in Key, NEW q \in Process
       PROVE  References(q, c)' = IF p = q /\ k = c THEN References(q, c) \cup {<<t, i>>}
                                  ELSE References(q, c)
  <2>1. /\ <<t, i>> \notin AllReferences(c)
        /\ <<t, i>> \notin References(q, c)
        /\ AllReferences(c)' = IF Wanted[t][i] = c THEN AllReferences(c) \cup {<<t, i>>}
                               ELSE AllReferences(c)
        /\ References(q, c)' = IF ProcessOf[t] = q /\ Wanted[t][i] = c
                               THEN References(q, c) \cup {<<t, i>>} ELSE References(q, c)
    BY <1>1, ReferencesGrow
  <2> QED
    BY <2>1 DEF p, k
<1>7. ASSUME NEW c \in Key
      PROVE  /\ \A q \in Process : /\ IsFiniteSet(References(q, c)')
                                   /\ Count(local'[q][c]) = Cardinality(References(q, c)')
             /\ IsFiniteSet(AllReferences(c)')
             /\ Count(shared'[c]) >= Cardinality(AllReferences(c)')
             /\ deaths = 0 => Count(shared'[c]) = Cardinality(AllReferences(c)')
  <2>1. /\ IsFiniteSet(AllReferences(c)) /\ Count(shared[c]) >= Cardinality(AllReferences(c))
        /\ deaths = 0 => Count(shared[c]) = Cardinality(AllReferences(c))
        /\ Cardinality(AllReferences(c)) \in Nat /\ Count(shared[c]) \in Nat
    BY FS_CardinalityType, CountFacts DEF Books, Tables
  <2>2. /\ IsFiniteSet(AllReferences(c) \cup {<<t, i>>})
        /\ Cardinality(AllReferences(c) \cup {<<t, i>>}) = Cardinality(AllReferences(c)) + 1
    BY <1>6, <2>1, FS_AddElement
  <2>3. ASSUME NEW q \in Process
        PROVE  IsFiniteSet(References(q, c)') /\ Count(local'[q][c]) = Cardinality(References(q, c)')
    <3>1. IsFiniteSet(References(q, c)) /\ Count(local[q][c]) = Cardinality(References(q, c))
      BY DEF Books
    <3>2. /\ IsFiniteSet(References(q, c) \cup {<<t, i>>})
          /\ Cardinality(References(q, c) \cup {<<t, i>>}) = Cardinality(References(q, c)) + 1
      BY <1>6, <3>1, FS_AddElement
    <3>3. CASE q = p /\ c = k
      BY <1>5, <1>26, <3>1, <3>2, <3>3
    <3>4. CASE ~(q = p /\ c = k)
      BY <1>5, <1>26, <3>1, <3>4
    <3> QED
      BY <3>3, <3>4
  <2>4. CASE c = k
    <3>1. AllReferences(c)' = AllReferences(c) \cup {<<t, i>>} /\ Count(shared'[c]) = Count(shared[c]) + 1
      BY <1>5, <1>16, <2>4
    <3> QED
      BY <2>1, <2>2, <2>3, <3>1
  <2>5. CASE c # k
    BY <1>5, <1>16, <2>1, <2>3, <2>5
  <2> QED
    BY <2>4, <2>5
<1>8. Books'
  BY <1>7 DEF Books
<1> QED
  BY <1>4, <1>8

\* Giving a reference back lowers both counts of its key by one.
LEMMA BooksGiveBack ==
  ASSUME IInv, Tables, Books, NEW t \in Task, NEW i \in asked[t], GiveBack(t, i)
  PROVE  /\ shared' \in [Key -> Nat \cup {None}]
         /\ local' \in [Process -> [Key -> Nat \cup {None}]]
         /\ Books'
<1> DEFINE p == ProcessOf[t]
           k == Wanted[t][i]
<1>1. /\ i \in Place(t) /\ i \in Nat /\ k \in Key /\ p \in Process
      /\ Drops(t, i) /\ asked \in [Task -> SUBSET Nat]
      /\ deaths' = deaths
  BY PlaceIsKey, ConstantsAssumption
     DEF IInv, Types, Entries, ConstantsAssumption, GiveBack, Drops, procVars
<1>2. <<t, i>> \in References(p, k) /\ <<t, i>> \in AllReferences(k)
  BY ReferenceFacts, AllReferenceFacts
<1>3. \A S : IsFiniteSet(S) /\ <<t, i>> \in S =>
        /\ Cardinality(S) \in Nat \ {0} /\ IsFiniteSet(S \ {<<t, i>>})
        /\ Cardinality(S \ {<<t, i>>}) = Cardinality(S) - 1
  <2> SUFFICES ASSUME NEW S, IsFiniteSet(S), <<t, i>> \in S
               PROVE  /\ Cardinality(S) \in Nat \ {0} /\ IsFiniteSet(S \ {<<t, i>>})
                      /\ Cardinality(S \ {<<t, i>>}) = Cardinality(S) - 1
    OBVIOUS
  <2>1. Cardinality(S) \in Nat /\ Cardinality(S) # 0
    BY FS_CardinalityType, FS_EmptySet
  <2> QED
    BY <2>1, FS_RemoveElement
<1>4. PICK L \in SUBSET Unused(local[p], k) :
        local' = [local EXCEPT ![p] = Forget([local[p] EXCEPT ![k] = Count(@) - 1], L)]
  BY DEF GiveBack, LetGoLocal
<1>5. PICK M \in SUBSET Unused(shared, k) :
        shared' = Forget(IF shared[k] \in {None, 0} THEN shared ELSE [shared EXCEPT ![k] = @ - 1], M)
  BY DEF GiveBack, LetGoShared
<1> HIDE DEF p, k
<1>6. Count(local[p][k]) \in Nat \ {0} /\ Count(shared[k]) \in Nat \ {0}
  <2>1. /\ IsFiniteSet(References(p, k)) /\ Count(local[p][k]) = Cardinality(References(p, k))
        /\ IsFiniteSet(AllReferences(k)) /\ Count(shared[k]) >= Cardinality(AllReferences(k))
    BY <1>1 DEF Books
  <2>2. Cardinality(References(p, k)) \in Nat \ {0} /\ Cardinality(AllReferences(k)) \in Nat \ {0}
    BY <1>2, <1>3, <2>1
  <2>3. Count(shared[k]) \in Nat
    BY <1>1, CountFacts DEF Tables
  <2> QED
    BY <2>1, <2>2, <2>3
<1>7. /\ shared[k] \notin {None, 0} /\ shared[k] \in Nat \ {0} /\ Count(shared[k]) = shared[k]
      /\ \A c \in Key : shared'[c] = IF c \in M THEN None
                                     ELSE IF c = k THEN shared[c] - 1 ELSE shared[c]
      /\ DOMAIN shared' = Key /\ shared' = [c \in Key |-> shared'[c]]
      /\ \A c \in M : c # k /\ shared[c] = 0
  <2>1. shared[k] \in Nat \cup {None} /\ shared \in [Key -> Nat \cup {None}]
    BY <1>1 DEF Tables
  <2>2. shared[k] \in Nat \ {0} /\ Count(shared[k]) = shared[k] /\ shared[k] # None
    BY <1>6, <2>1, CountFacts
  <2>3. shared' = Forget([shared EXCEPT ![k] = @ - 1], M)
    BY <1>5, <2>2
  <2> QED
    BY <1>1, <2>1, <2>2, <2>3 DEF Forget, Unused
<1>8. ASSUME NEW c \in Key
      PROVE  /\ shared'[c] \in Nat \cup {None}
             /\ Count(shared'[c]) = IF c = k THEN Count(shared[c]) - 1 ELSE Count(shared[c])
  <2>1. shared[c] \in Nat \cup {None}
    BY DEF Tables
  <2>2. CASE c = k
    <3>1. shared'[c] = shared[c] - 1 /\ shared[c] \in Nat \ {0} /\ shared'[c] \in Nat
      BY <1>7, <2>2
    <3> QED
      BY <2>2, <3>1, CountFacts
  <2>3. CASE c \in M
    BY <1>7, <2>1, <2>3, CountFacts
  <2>4. CASE c # k /\ c \notin M
    BY <1>7, <2>1, <2>4
  <2> QED
    BY <2>2, <2>3, <2>4
<1>9. /\ DOMAIN local' = Process /\ local' = [q \in Process |-> local'[q]]
      /\ \A q \in Process \ {p} : local'[q] = local[q]
      /\ local'[p] = [c \in Key |-> IF c \in L THEN None
                                    ELSE IF c = k THEN Count(local[p][c]) - 1 ELSE local[p][c]]
      /\ \A c \in L : c # k /\ local[p][c] = 0
  <2>1. local \in [Process -> [Key -> Nat \cup {None}]]
    BY DEF Tables
  <2>2. local' = [local EXCEPT ![p] = [c \in Key |-> IF c \in L THEN None
                                         ELSE [local[p] EXCEPT ![k] = Count(@) - 1][c]]]
    BY <1>4 DEF Forget
  <2>3. local'[p] = [c \in Key |-> IF c \in L THEN None
                                   ELSE IF c = k THEN Count(local[p][c]) - 1 ELSE local[p][c]]
    BY <1>1, <2>1, <2>2
  <2> QED
    BY <1>1, <1>4, <2>1, <2>3 DEF Unused
<1>10. ASSUME NEW q \in Process, NEW c \in Key
       PROVE  /\ local'[q][c] \in Nat \cup {None}
              /\ Count(local'[q][c]) = IF q = p /\ c = k THEN Count(local[q][c]) - 1
                                       ELSE Count(local[q][c])
  <2>1. local[q][c] \in Nat \cup {None}
    BY DEF Tables
  <2>2. CASE q = p /\ c = k
    <3>1. local'[q][c] = Count(local[q][c]) - 1 /\ Count(local[q][c]) \in Nat \ {0}
      BY <1>6, <1>9, <2>2
    <3> QED
      BY <2>2, <3>1, CountFacts
  <2>3. CASE q = p /\ c \in L
    BY <1>9, <2>1, <2>3, CountFacts
  <2>4. CASE q # p \/ (c # k /\ c \notin L)
    BY <1>9, <2>1, <2>4
  <2> QED
    BY <2>2, <2>3, <2>4
<1>11. /\ shared' \in [Key -> Nat \cup {None}]
       /\ local' \in [Process -> [Key -> Nat \cup {None}]]
  <2>1. \A q \in Process : local'[q] \in [Key -> Nat \cup {None}]
    <3> SUFFICES ASSUME NEW q \in Process PROVE local'[q] \in [Key -> Nat \cup {None}]
      OBVIOUS
    <3>1. local'[q] = [c \in Key |-> local'[q][c]]
      BY <1>9 DEF Tables
    <3> QED
      BY <1>10, <3>1
  <2> QED
    BY <1>7, <1>8, <1>9, <2>1
<1>12. ASSUME NEW c \in Key
       PROVE  AllReferences(c)' = IF k = c THEN AllReferences(c) \ {<<t, i>>} ELSE AllReferences(c)
  BY <1>1, ReferencesShrink DEF k
<1>22. ASSUME NEW c \in Key, NEW q \in Process
       PROVE  References(q, c)' = IF p = q /\ k = c THEN References(q, c) \ {<<t, i>>}
                                  ELSE References(q, c)
  <2>1. References(q, c)' = IF ProcessOf[t] = q /\ Wanted[t][i] = c
                            THEN References(q, c) \ {<<t, i>>} ELSE References(q, c)
    BY <1>1, ReferencesShrink
  <2> QED
    BY <2>1 DEF p, k
<1>13. ASSUME NEW c \in Key
       PROVE  /\ \A q \in Process : /\ IsFiniteSet(References(q, c)')
                                    /\ Count(local'[q][c]) = Cardinality(References(q, c)')
              /\ IsFiniteSet(AllReferences(c)')
              /\ Count(shared'[c]) >= Cardinality(AllReferences(c)')
              /\ deaths = 0 => Count(shared'[c]) = Cardinality(AllReferences(c)')
  <2>1. /\ IsFiniteSet(AllReferences(c)) /\ Count(shared[c]) >= Cardinality(AllReferences(c))
        /\ deaths = 0 => Count(shared[c]) = Cardinality(AllReferences(c))
        /\ Cardinality(AllReferences(c)) \in Nat /\ Count(shared[c]) \in Nat
    BY FS_CardinalityType, CountFacts DEF Books, Tables
  <2>2. c = k => /\ IsFiniteSet(AllReferences(c) \ {<<t, i>>})
                 /\ Cardinality(AllReferences(c) \ {<<t, i>>}) = Cardinality(AllReferences(c)) - 1
    BY <1>2, <1>3, <2>1
  <2>3. ASSUME NEW q \in Process
        PROVE  IsFiniteSet(References(q, c)') /\ Count(local'[q][c]) = Cardinality(References(q, c)')
    <3>1. IsFiniteSet(References(q, c)) /\ Count(local[q][c]) = Cardinality(References(q, c))
      BY DEF Books
    <3>2. c = k /\ q = p =>
            /\ IsFiniteSet(References(q, c) \ {<<t, i>>})
            /\ Cardinality(References(q, c) \ {<<t, i>>}) = Cardinality(References(q, c)) - 1
      BY <1>2, <1>3, <3>1
    <3>3. CASE q = p /\ c = k
      BY <1>10, <1>22, <3>1, <3>2, <3>3
    <3>4. CASE ~(q = p /\ c = k)
      BY <1>10, <1>22, <3>1, <3>4
    <3> QED
      BY <3>3, <3>4
  <2>4. CASE c = k
    <3>1. AllReferences(c)' = AllReferences(c) \ {<<t, i>>} /\ Count(shared'[c]) = Count(shared[c]) - 1
      BY <1>8, <1>12, <2>4
    <3> QED
      BY <2>1, <2>2, <2>3, <2>4, <3>1
  <2>5. CASE c # k
    BY <1>8, <1>12, <2>1, <2>3, <2>5
  <2> QED
    BY <2>4, <2>5
<1>14. Books'
  BY <1>1, <1>13 DEF Books
<1> QED
  BY <1>11, <1>14

\* A kill forgets the entries of its process, and the shared counts stand.
LEMMA BooksKill ==
  ASSUME Tables, Books, NEW p \in Process, Kill(p)
  PROVE  Books'
<1>1. /\ asked' = [t \in Task |-> IF ProcessOf[t] = p THEN {} ELSE asked[t]]
      /\ local' = [local EXCEPT ![p] = [k \in Key |-> None]]
      /\ deaths' = deaths + 1 /\ shared' = shared
  BY DEF Kill
<1>2. ASSUME NEW q \in Process, NEW k \in Key
      PROVE  References(q, k)' = IF q = p THEN {} ELSE References(q, k)
  BY <1>1 DEF References
<1>3. ASSUME NEW k \in Key
      PROVE  AllReferences(k)' \subseteq AllReferences(k)
  BY <1>2 DEF AllReferences
<1> SUFFICES ASSUME NEW k \in Key
             PROVE  /\ \A q \in Process : /\ IsFiniteSet(References(q, k)')
                                          /\ Count(local'[q][k]) = Cardinality(References(q, k)')
                    /\ IsFiniteSet(AllReferences(k)')
                    /\ Count(shared'[k]) >= Cardinality(AllReferences(k)')
                    /\ deaths' # 0
  BY DEF Books
<1>4. ASSUME NEW q \in Process
      PROVE  IsFiniteSet(References(q, k)') /\ Count(local'[q][k]) = Cardinality(References(q, k)')
  <2>1. CASE q = p
    <3>1. References(q, k)' = {} /\ local'[q][k] = None
      BY <1>1, <1>2, <2>1 DEF Tables
    <3> QED
      BY <3>1, FS_EmptySet, CountFacts
  <2>2. CASE q # p
    <3>1. References(q, k)' = References(q, k) /\ local'[q] = local[q]
      BY <1>1, <1>2, <2>2 DEF Tables
    <3> QED
      BY <3>1 DEF Books
  <2> QED
    BY <2>1, <2>2
<1>5. /\ IsFiniteSet(AllReferences(k)) /\ Count(shared[k]) >= Cardinality(AllReferences(k))
      /\ Cardinality(AllReferences(k)) \in Nat /\ Count(shared[k]) \in Nat
  BY FS_CardinalityType, CountFacts DEF Books, Tables
<1>6. /\ IsFiniteSet(AllReferences(k)') /\ Cardinality(AllReferences(k)') <= Cardinality(AllReferences(k))
      /\ Cardinality(AllReferences(k)') \in Nat
  BY <1>3, <1>5, FS_Subset, FS_CardinalityType
<1> QED
  BY <1>1, <1>4, <1>5, <1>6 DEF Tables

\* Steps that neither ask nor give back.
LEMMA BooksQuiet ==
  ASSUME Books, UNCHANGED <<shared, local, asked, deaths>>
  PROVE  Books'
<1>1. \A p, k : References(p, k)' = References(p, k)
  BY DEF References
<1>2. \A k : AllReferences(k)' = AllReferences(k)
  BY DEF References, AllReferences
<1> QED
  BY <1>1, <1>2 DEF Books

-----------------------------------------------------------------------------
(* The queue of a gate.                                                     *)

\* The entries of a task that stand in the queue of a gate.
Queued(t) == entered[t] \cup (IF pc[t] \in Asking THEN asked[t] ELSE {})
Queues == [t \in Task |-> Queued(t)]

TicketOf(t, i, m) == [task |-> t, place |-> i, made |-> m]
Waiting(Q, m, p, k) ==
  {e \in Tickets : /\ ProcessOf[e.task] = p /\ e.place \in Q[e.task]
                   /\ Wanted[e.task][e.place] = k /\ e.made = m}

\* In the queue of a gate is who has entered it or waits, once, and for the
\* gate that is in the table now.
Gates ==
  \A p \in Process, k \in Key :
    IsInjective(gate[p][k]) /\ ToSet(gate[p][k]) = Waiting(Queues, made[p][k], p, k)

\* Who is past a gate is at its head.
AtHead(t, i) ==
  LET p == ProcessOf[t]  k == Wanted[t][i] IN
  gate[p][k] # <<>> /\ Head(gate[p][k]) = TicketOf(t, i, made[p][k])
Heads == \A t \in Task : \A i \in PastGate(t) : AtHead(t, i)

QInv == Tables /\ Phases /\ Books /\ Gates /\ Heads

Grown(Q, t, i) == [Q EXCEPT ![t] = @ \cup {i}]
Shrunk(Q, t, i) == [Q EXCEPT ![t] = @ \ {i}]

\* A ticket is known by its task, its place and its gate.
LEMMA TicketFacts ==
  ASSUME NEW t \in Task, NEW i \in Nat, NEW m \in Nat
  PROVE  /\ TicketOf(t, i, m) \in Tickets
         /\ TicketOf(t, i, m).task = t /\ TicketOf(t, i, m).place = i /\ TicketOf(t, i, m).made = m
         /\ \A e \in Tickets : e.task = t /\ e.place = i /\ e.made = m => e = TicketOf(t, i, m)
BY DEF TicketOf, Tickets

\* One more task waits at the gate of its key, and at no other.
LEMMA WaitingGrows ==
  ASSUME NEW Q \in [Task -> SUBSET Nat], NEW t \in Task, NEW i \in Nat, NEW m \in Nat, NEW p, NEW k
  PROVE  Waiting(Grown(Q, t, i), m, p, k) =
           IF ProcessOf[t] = p /\ Wanted[t][i] = k THEN Waiting(Q, m, p, k) \cup {TicketOf(t, i, m)}
           ELSE Waiting(Q, m, p, k)
<1>0. /\ TicketOf(t, i, m) \in Tickets
      /\ TicketOf(t, i, m).task = t /\ TicketOf(t, i, m).place = i /\ TicketOf(t, i, m).made = m
      /\ \A e \in Tickets : e.task = t /\ e.place = i /\ e.made = m => e = TicketOf(t, i, m)
  BY TicketFacts
<1> DEFINE R == Grown(Q, t, i)
<1>1. \A u \in Task : R[u] = IF u = t THEN Q[u] \cup {i} ELSE Q[u]
  BY DEF Grown
<1>2. \A e \in Tickets : e.task \in Task
  BY DEF Tickets
<1> HIDE DEF R
<1>3. ASSUME NEW e \in Waiting(R, m, p, k)
      PROVE  e \in Waiting(Q, m, p, k) \/ (e = TicketOf(t, i, m) /\ ProcessOf[t] = p /\ Wanted[t][i] = k)
  <2>1. /\ e \in Tickets /\ e.task \in Task /\ e.place \in R[e.task] /\ e.made = m
        /\ ProcessOf[e.task] = p /\ Wanted[e.task][e.place] = k
    BY <1>2 DEF Waiting
  <2>2. CASE e.place \in Q[e.task]
    BY <2>1, <2>2 DEF Waiting
  <2>3. CASE e.place \notin Q[e.task]
    <3>1. e.task = t /\ e.place = i
      BY <1>1, <2>1, <2>3
    <3> QED
      BY <1>0, <2>1, <3>1
  <2> QED
    BY <2>2, <2>3
<1>4. Waiting(Q, m, p, k) \subseteq Waiting(R, m, p, k)
  BY <1>1, <1>2 DEF Waiting
<1>5. ProcessOf[t] = p /\ Wanted[t][i] = k => TicketOf(t, i, m) \in Waiting(R, m, p, k)
  BY <1>0, <1>1 DEF Waiting
<1>6. Waiting(R, m, p, k) =
        IF ProcessOf[t] = p /\ Wanted[t][i] = k THEN Waiting(Q, m, p, k) \cup {TicketOf(t, i, m)}
        ELSE Waiting(Q, m, p, k)
  BY <1>3, <1>4, <1>5
<1> QED
  BY <1>6 DEF R

\* One task fewer waits at the gate of its key, and at no other.
LEMMA WaitingShrinks ==
  ASSUME NEW Q \in [Task -> SUBSET Nat], NEW t \in Task, NEW i \in Nat, NEW m \in Nat, NEW p, NEW k
  PROVE  Waiting(Shrunk(Q, t, i), m, p, k) =
           IF ProcessOf[t] = p /\ Wanted[t][i] = k THEN Waiting(Q, m, p, k) \ {TicketOf(t, i, m)}
           ELSE Waiting(Q, m, p, k)
<1>0. /\ TicketOf(t, i, m) \in Tickets
      /\ TicketOf(t, i, m).task = t /\ TicketOf(t, i, m).place = i /\ TicketOf(t, i, m).made = m
      /\ \A e \in Tickets : e.task = t /\ e.place = i /\ e.made = m => e = TicketOf(t, i, m)
  BY TicketFacts
<1> DEFINE R == Shrunk(Q, t, i)
<1>1. \A u \in Task : R[u] = IF u = t THEN Q[u] \ {i} ELSE Q[u]
  BY DEF Shrunk
<1>2. \A e \in Tickets : e.task \in Task
  BY DEF Tickets
<1> HIDE DEF R
<1>3. ASSUME NEW e \in Waiting(R, m, p, k)
      PROVE  e \in Waiting(Q, m, p, k) /\ e # TicketOf(t, i, m)
  BY <1>1, <1>0, <1>2 DEF Waiting
<1>4. ASSUME NEW e \in Waiting(Q, m, p, k), e # TicketOf(t, i, m)
      PROVE  e \in Waiting(R, m, p, k)
  BY <1>1, <1>2, <1>0, <1>4 DEF Waiting
<1>5. TicketOf(t, i, m) \in Waiting(Q, m, p, k) => ProcessOf[t] = p /\ Wanted[t][i] = k
  BY <1>0 DEF Waiting
<1>6. Waiting(R, m, p, k) =
        IF ProcessOf[t] = p /\ Wanted[t][i] = k THEN Waiting(Q, m, p, k) \ {TicketOf(t, i, m)}
        ELSE Waiting(Q, m, p, k)
  BY <1>3, <1>4, <1>5
<1> QED
  BY <1>6 DEF R

\* Leaving a queue takes one's own ticket from it, and the head stays in front.
LEMMA LeaveFacts ==
  ASSUME NEW t \in Task, NEW i \in Nat, NEW m \in Nat, NEW g \in Seq(Tickets), IsInjective(g),
         \A e \in ToSet(g) : e.made = m
  PROVE  /\ Leave(t, i, g) \in Seq(Tickets) /\ IsInjective(Leave(t, i, g))
         /\ ToSet(Leave(t, i, g)) = ToSet(g) \ {TicketOf(t, i, m)}
         /\ g # <<>> /\ Head(g) # TicketOf(t, i, m) =>
              Leave(t, i, g) # <<>> /\ Head(Leave(t, i, g)) = Head(g)
<1>0. /\ TicketOf(t, i, m) \in Tickets
      /\ TicketOf(t, i, m).task = t /\ TicketOf(t, i, m).place = i /\ TicketOf(t, i, m).made = m
      /\ \A e \in Tickets : e.task = t /\ e.place = i /\ e.made = m => e = TicketOf(t, i, m)
  BY TicketFacts
<1> DEFINE mine == {n \in DOMAIN g : g[n].task = t /\ g[n].place = i}
<1>1. \A n \in DOMAIN g : g[n] \in Tickets /\ g[n] \in ToSet(g) /\ g[n].made = m
  BY DEF ToSet
<1>2. \A n \in mine : g[n] = TicketOf(t, i, m)
  BY <1>0, <1>1
<1>3. \A n \in DOMAIN g : g[n] = TicketOf(t, i, m) => n \in mine
  BY <1>0
<1>4. CASE mine = {}
  <2>1. Leave(t, i, g) = g
    BY <1>4 DEF Leave
  <2>2. TicketOf(t, i, m) \notin ToSet(g)
    BY <1>3, <1>4 DEF ToSet
  <2> QED
    BY <2>1, <2>2
<1>5. CASE mine # {}
  <2>1. PICK n : n = CHOOSE j \in mine : TRUE
    OBVIOUS
  <2>2. n \in mine /\ n \in DOMAIN g
    BY <1>5, <2>1
  <2>3. Leave(t, i, g) = RemoveAt(g, n)
    BY <1>5, <2>1 DEF Leave
  <2>4. g[n] = TicketOf(t, i, m)
    BY <1>2, <2>2
  <2>5. /\ RemoveAt(g, n) \in Seq(Tickets) /\ IsInjective(RemoveAt(g, n))
        /\ ToSet(RemoveAt(g, n)) = ToSet(g) \ {TicketOf(t, i, m)}
    BY <2>2, <2>4, RemoveQueue
  <2>6. ASSUME g # <<>>, Head(g) # TicketOf(t, i, m)
        PROVE  RemoveAt(g, n) # <<>> /\ Head(RemoveAt(g, n)) = Head(g)
    <3>1. n \in DOMAIN g \ {1}
      BY <2>2, <2>4, <2>6, HeadTailProperties
    <3> QED
      BY <2>6, <3>1, KeepsHead
  <2> QED
    BY <2>3, <2>5, <2>6
<1> QED
  BY <1>4, <1>5

\* Who is queued has an entry, and counts.
LEMMA QueuesFacts ==
  ASSUME IInv
  PROVE  /\ Queues \in [Task -> SUBSET Nat]
         /\ \A t \in Task : Queues[t] = Queued(t) /\ Queues[t] \subseteq asked[t]
                            /\ PastGate(t) \subseteq Queues[t]
<1>1. \A t \in Task : Queued(t) \subseteq asked[t] /\ PastGate(t) \subseteq Queued(t) /\ asked[t] \subseteq Nat
  BY DEF IInv, Types, Entries, Queued, PastGate
<1> QED
  BY <1>1 DEF Queues

\* Where nobody is counted nobody has an entry.
LEMMA NobodyThere ==
  ASSUME IInv, QInv, NEW p \in Process, NEW k \in Key, Count(local[p][k]) = 0
  PROVE  \A t \in Task : \A i \in asked[t] : ~(ProcessOf[t] = p /\ Wanted[t][i] = k)
<1>1. IsFiniteSet(References(p, k)) /\ Cardinality(References(p, k)) = 0
  BY DEF QInv, Books
<1>2. References(p, k) = {}
  BY <1>1, FS_EmptySet
<1> QED
  BY <1>2, ReferenceFacts

\* The new reference goes to the end of the queue of its gate.
LEMMA AskGates ==
  ASSUME IInv, QInv, NEW t \in Task, NEW i, IsNext(t, i), Ask(t, i),
         Queues' = Grown(Queues, t, i)
  PROVE  /\ gate' \in [Process -> [Key -> Seq(Tickets)]]
         /\ Gates'
         /\ \A q \in Process, c \in Key : gate[q][c] # <<>> =>
              gate'[q][c] # <<>> /\ Head(gate'[q][c]) = Head(gate[q][c])
         /\ pc'[t] = "gate" \/ AtHead(t, i)'
<1> DEFINE p == ProcessOf[t]
           k == Wanted[t][i]
           m == made[p][k]
           e == TicketOf(t, i, m)
           g == gate[p][k]
<1>1. /\ i \in Nat /\ i \notin asked[t] /\ k \in Key /\ p \in Process
      /\ Queues \in [Task -> SUBSET Nat] /\ i \notin Queues[t] /\ pc \in [Task -> Phase]
  BY AskFacts, PlaceIsKey, QueuesFacts, ConstantsAssumption DEF IInv, Types, ConstantsAssumption
<1>2. /\ made' = made /\ gate' = [gate EXCEPT ![p][k] = Append(@, e)]
      /\ pc' = [pc EXCEPT ![t] = IF \E n \in DOMAIN g : g[n].made = m THEN "gate" ELSE "claim"]
  BY DEF Ask, TicketOf
<1>3. /\ gate \in [Process -> [Key -> Seq(Tickets)]] /\ made \in [Process -> [Key -> Nat]]
      /\ g \in Seq(Tickets) /\ m \in Nat /\ e \in Tickets /\ e.task = t /\ e.place = i
  BY <1>1, TicketFacts DEF QInv, Tables
<1>4. IsInjective(g) /\ ToSet(g) = Waiting(Queues, m, p, k)
  BY <1>1 DEF QInv, Gates
<1>5. e \notin ToSet(g)
  BY <1>1, <1>3, <1>4 DEF Waiting
<1>6. /\ Append(g, e) \in Seq(Tickets) /\ IsInjective(Append(g, e))
      /\ ToSet(Append(g, e)) = Waiting(Queues, m, p, k) \cup {e}
  BY <1>3, <1>4, <1>5, AppendQueue
<1>7. \A q \in Process, c \in Key :
        Waiting(Queues', made[q][c], q, c) = IF p = q /\ k = c THEN Waiting(Queues, m, p, k) \cup {e}
                                             ELSE Waiting(Queues, made[q][c], q, c)
  <2> SUFFICES ASSUME NEW q \in Process, NEW c \in Key
               PROVE  Waiting(Queues', made[q][c], q, c) =
                        IF p = q /\ k = c THEN Waiting(Queues, m, p, k) \cup {e}
                        ELSE Waiting(Queues, made[q][c], q, c)
    OBVIOUS
  <2>1. PICK n \in Nat : n = made[q][c]
    BY <1>3
  <2>2. PICK Q \in [Task -> SUBSET Nat] : Q = Queues
    BY <1>1
  <2>3. i \in Nat
    BY <1>1
  <2>4. Waiting(Grown(Q, t, i), n, q, c) =
          IF ProcessOf[t] = q /\ Wanted[t][i] = c THEN Waiting(Q, n, q, c) \cup {TicketOf(t, i, n)}
          ELSE Waiting(Q, n, q, c)
    BY <2>3, WaitingGrows
  <2> QED
    BY <2>1, <2>2, <2>4
<1>8. g = <<>> => Append(g, e) # <<>> /\ Head(Append(g, e)) = e
  BY <1>3, <1>6, HeadTailProperties, AppendProperties, LenProperties, EmptySeq
<1>9. g # <<>> => \E n \in DOMAIN g : g[n].made = m
  <2> SUFFICES ASSUME g # <<>> PROVE \E n \in DOMAIN g : g[n].made = m
    OBVIOUS
  <2>1. 1 \in DOMAIN g
    BY <1>3, LenProperties, EmptySeq
  <2>2. g[1] \in ToSet(g)
    BY <2>1 DEF ToSet
  <2> QED
    BY <1>4, <2>1, <2>2 DEF Waiting
<1>10. g # <<>> => Append(g, e) # <<>> /\ Head(Append(g, e)) = Head(g)
  BY <1>3, KeepsHead
<1> HIDE DEF p, k, m, e, g
<1>11. /\ \A q \in Process, c \in Key :
            gate'[q][c] = IF q = p /\ c = k THEN Append(g, e) ELSE gate[q][c]
       /\ gate' \in [Process -> [Key -> Seq(Tickets)]]
  <2>1. g = gate[p][k]
    BY DEF g
  <2>2. gate' = [gate EXCEPT ![p] = [gate[p] EXCEPT ![k] = Append(g, e)]]
    BY <1>2, <2>1
  <2>3. [gate[p] EXCEPT ![k] = Append(g, e)] \in [Key -> Seq(Tickets)]
    BY <1>1, <1>3, <1>6
  <2> QED
    BY <1>1, <1>3, <2>2, <2>3
<1>12. \A q \in Process, c \in Key :
         /\ IsInjective(gate'[q][c])
         /\ ToSet(gate'[q][c]) = Waiting(Queues', made'[q][c], q, c)
  <2> SUFFICES ASSUME NEW q \in Process, NEW c \in Key
               PROVE  /\ IsInjective(gate'[q][c])
                      /\ ToSet(gate'[q][c]) = Waiting(Queues', made'[q][c], q, c)
    OBVIOUS
  <2>1. CASE q = p /\ c = k
    BY <1>2, <1>6, <1>7, <1>11, <2>1
  <2>2. CASE ~(q = p /\ c = k)
    <3>1. gate'[q][c] = gate[q][c] /\ Waiting(Queues', made[q][c], q, c) = Waiting(Queues, made[q][c], q, c)
      BY <1>7, <1>11, <2>2
    <3> QED
      BY <1>2, <3>1 DEF QInv, Gates
  <2> QED
    BY <2>1, <2>2
<1>13. \A q \in Process, c \in Key : gate[q][c] # <<>> =>
         gate'[q][c] # <<>> /\ Head(gate'[q][c]) = Head(gate[q][c])
  BY <1>10, <1>11 DEF g
<1>14. pc'[t] = "gate" \/ (gate'[p][k] # <<>> /\ Head(gate'[p][k]) = e)
  BY <1>1, <1>2, <1>8, <1>9, <1>11
<1> QED
  BY <1>2, <1>11, <1>12, <1>13, <1>14 DEF Gates, AtHead, p, k, m, e

\* An entry is given up; a gate may be forgotten only where nobody is counted.
LEMMA LeaveGates ==
  ASSUME IInv, QInv, NEW t \in Task, NEW i \in asked[t],
         gate' = [gate EXCEPT ![ProcessOf[t]][Wanted[t][i]] =
                    IF i \in Queued(t) THEN Leave(t, i, @) ELSE @],
         Queues' = Shrunk(Queues, t, i),
         made' \in [Process -> [Key -> Nat]],
         \A q \in Process, c \in Key : made'[q][c] = made[q][c] \/ Count(local[q][c]) = 0
  PROVE  /\ gate' \in [Process -> [Key -> Seq(Tickets)]]
         /\ Gates'
         /\ \A u \in Task : \A j \in asked[u] :
              AtHead(u, j) /\ (u # t \/ j # i) => AtHead(u, j)'
<1> DEFINE p == ProcessOf[t]
           k == Wanted[t][i]
           m == made[p][k]
           g == gate[p][k]
           h == IF i \in Queued(t) THEN Leave(t, i, g) ELSE g
<1>1. /\ i \in Nat /\ i \in Place(t) /\ k \in Key /\ p \in Process
      /\ Queues \in [Task -> SUBSET Nat] /\ Queues[t] = Queued(t)
      /\ \A u \in Task : Queues[u] \subseteq asked[u]
  BY PlaceIsKey, QueuesFacts, ConstantsAssumption DEF IInv, Types, Entries, ConstantsAssumption
<1>2. /\ gate \in [Process -> [Key -> Seq(Tickets)]] /\ made \in [Process -> [Key -> Nat]]
      /\ g \in Seq(Tickets) /\ m \in Nat
  BY <1>1 DEF QInv, Tables
<1>3. IsInjective(g) /\ ToSet(g) = Waiting(Queues, m, p, k)
  BY <1>1 DEF QInv, Gates
<1>4. /\ h \in Seq(Tickets) /\ IsInjective(h)
      /\ ToSet(h) = Waiting(Queues, m, p, k) \ {TicketOf(t, i, m)}
      /\ g # <<>> /\ Head(g) # TicketOf(t, i, m) => h # <<>> /\ Head(h) = Head(g)
  <2>1. \A x \in ToSet(g) : x.made = m
    BY <1>3 DEF Waiting
  <2>2. CASE i \in Queued(t)
    <3>1. /\ Leave(t, i, g) \in Seq(Tickets) /\ IsInjective(Leave(t, i, g))
          /\ ToSet(Leave(t, i, g)) = ToSet(g) \ {TicketOf(t, i, m)}
          /\ g # <<>> /\ Head(g) # TicketOf(t, i, m) =>
               Leave(t, i, g) # <<>> /\ Head(Leave(t, i, g)) = Head(g)
      <4> HIDE DEF p, k, m, g, h
      <4>1. i \in Nat /\ m \in Nat /\ g \in Seq(Tickets) /\ IsInjective(g)
        BY <1>1, <1>2, <1>3
      <4> QED
        BY <2>1, <4>1, LeaveFacts
    <3> QED
      BY <1>3, <2>2, <3>1
  <2>3. CASE i \notin Queued(t)
    <3>1. TicketOf(t, i, m).task = t /\ TicketOf(t, i, m).place = i
      BY <1>1, <1>2, TicketFacts
    <3>2. TicketOf(t, i, m) \notin Waiting(Queues, m, p, k)
      BY <1>1, <2>3, <3>1 DEF Waiting
    <3> QED
      BY <1>2, <1>3, <2>3, <3>2
  <2> QED
    BY <2>2, <2>3
<1>5. gate' = [gate EXCEPT ![p][k] = h]
  OBVIOUS
<1>6. \A q \in Process, c \in Key :
        Waiting(Queues', made[q][c], q, c) = IF p = q /\ k = c
                                             THEN Waiting(Queues, m, p, k) \ {TicketOf(t, i, m)}
                                             ELSE Waiting(Queues, made[q][c], q, c)
  <2> SUFFICES ASSUME NEW q \in Process, NEW c \in Key
               PROVE  Waiting(Queues', made[q][c], q, c) =
                        IF p = q /\ k = c THEN Waiting(Queues, m, p, k) \ {TicketOf(t, i, m)}
                        ELSE Waiting(Queues, made[q][c], q, c)
    OBVIOUS
  <2>1. PICK n \in Nat : n = made[q][c]
    BY <1>2
  <2>2. PICK Q \in [Task -> SUBSET Nat] : Q = Queues
    BY <1>1
  <2>3. i \in Nat
    BY <1>1
  <2>4. Waiting(Shrunk(Q, t, i), n, q, c) =
          IF ProcessOf[t] = q /\ Wanted[t][i] = c THEN Waiting(Q, n, q, c) \ {TicketOf(t, i, n)}
          ELSE Waiting(Q, n, q, c)
    BY <2>3, WaitingShrinks
  <2> QED
    BY <2>1, <2>2, <2>4
<1>7. \A u \in Task : Queues'[u] \subseteq asked[u]
  BY <1>1 DEF Shrunk
<1>8. ASSUME NEW q \in Process, NEW c \in Key, made'[q][c] # made[q][c]
      PROVE  \A n : Waiting(Queues, n, q, c) = {} /\ Waiting(Queues', n, q, c) = {}
  <2>1. \A u \in Task : \A j \in asked[u] : ~(ProcessOf[u] = q /\ Wanted[u][j] = c)
    BY <1>8, NobodyThere
  <2>2. \A x \in Tickets : x.task \in Task
    BY DEF Tickets
  <2> QED
    BY <1>1, <1>7, <2>1, <2>2 DEF Waiting
<1> HIDE DEF p, k, m, g, h
<1>9. /\ \A q \in Process, c \in Key : gate'[q][c] = IF q = p /\ c = k THEN h ELSE gate[q][c]
      /\ gate' \in [Process -> [Key -> Seq(Tickets)]]
  <2> DEFINE row == [gate[p] EXCEPT ![k] = h]
  <2>1. gate' = [gate EXCEPT ![p] = row]
    BY <1>5
  <2>2. row \in [Key -> Seq(Tickets)] /\ \A c \in Key : row[c] = IF c = k THEN h ELSE gate[p][c]
    BY <1>1, <1>2, <1>4
  <2> HIDE DEF row
  <2>3. /\ \A q \in Process : gate'[q] = IF q = p THEN row ELSE gate[q]
        /\ gate' \in [Process -> [Key -> Seq(Tickets)]]
    BY <1>1, <1>2, <2>1, <2>2
  <2> QED
    BY <2>2, <2>3
<1>10. ASSUME NEW q \in Process, NEW c \in Key
       PROVE  /\ IsInjective(gate'[q][c])
              /\ ToSet(gate'[q][c]) = Waiting(Queues', made[q][c], q, c)
  <2>1. CASE q = p /\ c = k
    <3>1. gate'[q][c] = h
      BY <1>9, <2>1
    <3>2. Waiting(Queues', made[q][c], q, c) = Waiting(Queues, m, p, k) \ {TicketOf(t, i, m)}
      BY <1>6, <2>1
    <3> QED
      BY <1>4, <3>1, <3>2
  <2>2. CASE ~(q = p /\ c = k)
    <3>1. gate'[q][c] = gate[q][c] /\ Waiting(Queues', made[q][c], q, c) = Waiting(Queues, made[q][c], q, c)
      BY <1>6, <1>9, <2>2
    <3> QED
      BY <3>1 DEF QInv, Gates
  <2> QED
    BY <2>1, <2>2
<1>11. Gates'
  <2>1. ASSUME NEW q \in Process, NEW c \in Key
        PROVE  Waiting(Queues', made'[q][c], q, c) = Waiting(Queues', made[q][c], q, c)
    BY <1>8
  <2> QED
    BY <1>10, <2>1 DEF Gates
<1>12. ASSUME NEW u \in Task, NEW j \in asked[u], AtHead(u, j), u # t \/ j # i
       PROVE  AtHead(u, j)'
  <2> DEFINE q == ProcessOf[u]
             c == Wanted[u][j]
  <2>1. q \in Process /\ c \in Key /\ j \in Nat
    BY PlaceIsKey, ConstantsAssumption DEF IInv, Types, Entries, ConstantsAssumption
  <2>2. gate[q][c] # <<>> /\ Head(gate[q][c]) = TicketOf(u, j, made[q][c])
    BY <1>12 DEF AtHead
  <2>3. made'[q][c] = made[q][c]
    BY <2>1, NobodyThere
  <2>4. made[q][c] \in Nat
    BY <1>2, <2>1
  <2>5. TicketOf(u, j, made[q][c]) # TicketOf(t, i, m)
    BY <1>12 DEF TicketOf
  <2>6. gate'[q][c] # <<>> /\ Head(gate'[q][c]) = TicketOf(u, j, made[q][c])
    BY <1>4, <1>9, <2>1, <2>2, <2>5 DEF g
  <2> QED
    BY <2>3, <2>6 DEF AtHead
<1> QED
  BY <1>9, <1>11, <1>12

\* A task that asks has one entry it has not entered.
LEMMA OneToCome ==
  ASSUME IInv, QInv, NEW t \in Task, pc[t] \in Asking
  PROVE  asked[t] = entered[t] \cup {Current(t)} /\ Current(t) \in asked[t] \ entered[t]
<1>1. Current(t) \in asked[t] \ entered[t]
  BY CurrentIsAsked
<1>2. PICK i \in Place(t) : asked[t] \ entered[t] = {i}
  BY DEF QInv, Phases
<1>3. Current(t) = i
  BY <1>1, <1>2
<1> QED
  BY <1>1, <1>2, <1>3 DEF IInv, Entries

\* Steps between two sections, which touch neither gates nor counts.
LEMMA QuietQueues ==
  ASSUME IInv, QInv, NEW t \in Task, NEW q,
         UNCHANGED <<deaths, shared, local, made, gate, asked, entered>>,
         pc' = [pc EXCEPT ![t] = q],
         \/ /\ pc[t] \in Asking /\ q \in Asking \ {"gate"}
            /\ pc[t] = "gate" => AtHead(t, Current(t))
         \/ pc[t] = "inside" /\ q = "leaving"
  PROVE  QInv'
<1>1. pc \in [Task -> Phase] /\ \A u \in Task : pc'[u] = IF u = t THEN q ELSE pc[u]
  BY DEF IInv, Types
<1>2. Tables' /\ Books'
  BY BooksQuiet DEF QInv, Tables
<1>3. Phases'
  <2> SUFFICES ASSUME NEW u \in Task
               PROVE  /\ pc'[u] \in Asking => \E i \in Place(u) : asked'[u] \ entered'[u] = {i}
                      /\ pc'[u] \in {"inside", "leaving"} => asked'[u] = entered'[u]
                      /\ pc'[u] = "idle" => asked'[u] = {}
    BY DEF Phases, Place
  <2>1. CASE u = t
    BY <1>1, <2>1 DEF QInv, Phases, Asking
  <2>2. CASE u # t
    BY <1>1, <2>2 DEF QInv, Phases
  <2> QED
    BY <2>1, <2>2
<1>4. \A u \in Task : Queued(u)' = Queued(u)
  BY <1>1 DEF Queued, Asking
<1>5. Queues' = Queues
  BY <1>4 DEF Queues
<1>6. Gates'
  BY <1>5 DEF QInv, Gates
<1>7. Heads'
  <2> SUFFICES ASSUME NEW u \in Task, NEW j \in PastGate(u)'
               PROVE  AtHead(u, j)
    BY DEF Heads, AtHead
  <2>1. CASE j \in PastGate(u)
    BY <2>1 DEF QInv, Heads
  <2>2. CASE j \notin PastGate(u)
    <3>1. u = t /\ pc[t] \in Asking /\ pc[t] = "gate" /\ j \in asked[t] /\ j \notin entered[t]
      BY <1>1, <2>2 DEF PastGate, Asking
    <3>2. j = Current(t)
      BY <3>1, OneToCome
    <3> QED
      BY <3>1, <3>2
  <2> QED
    BY <2>1, <2>2
<1> QED
  BY <1>2, <1>3, <1>6, <1>7 DEF QInv

\* The gate that AtGate finds a task to own is the one it is at the head of.
LEMMA OwnerIsHead ==
  ASSUME IInv, QInv, NEW t \in Task, pc[t] \in Asking, AtGate(t)
  PROVE  AtHead(t, Current(t))
<1>1. PICK i : i = Current(t)
  OBVIOUS
<1> DEFINE p == ProcessOf[t]
           k == Wanted[t][i]
           g == gate[p][k]
<1>2. i \in Nat /\ k \in Key /\ p \in Process
  BY <1>1, CurrentIsAsked, PlaceIsKey, ConstantsAssumption DEF ConstantsAssumption
<1>3. g \in Seq(Tickets) /\ made[p][k] \in Nat
  BY <1>2 DEF QInv, Tables
<1>4. PICK n \in DOMAIN g : /\ g[n].task = t /\ g[n].place = i
                            /\ \A j \in 1 .. n - 1 : g[j].made # g[n].made
  BY <1>1 DEF AtGate
<1>5. \A j \in DOMAIN g : g[j] \in Tickets /\ g[j].made = made[p][k]
  <2>1. \A j \in DOMAIN g : g[j] \in ToSet(g)
    BY DEF ToSet
  <2>2. ToSet(g) = Waiting(Queues, made[p][k], p, k)
    BY <1>2 DEF QInv, Gates
  <2> QED
    BY <2>1, <2>2 DEF Waiting
<1>6. DOMAIN g = 1 .. Len(g) /\ Len(g) \in Nat
  BY <1>3, LenProperties
<1>7. n = 1
  <2> SUFFICES ASSUME n # 1 PROVE FALSE
    OBVIOUS
  <2>1. 1 \in DOMAIN g /\ 1 \in 1 .. n - 1
    BY <1>4, <1>6
  <2> QED
    BY <1>4, <1>5, <2>1
<1>8. g # <<>> /\ Head(g) = g[1]
  BY <1>3, <1>4, <1>6, <1>7, EmptySeq, HeadTailProperties
<1>9. g[1] = TicketOf(t, i, made[p][k])
  <2>1. g[1] \in Tickets /\ g[1].task = t /\ g[1].place = i /\ g[1].made = made[p][k]
    BY <1>4, <1>5, <1>7
  <2> QED
    BY <2>1 DEF Tickets, TicketOf
<1>10. AtHead(t, i)
  BY <1>8, <1>9 DEF AtHead
<1> QED
  BY <1>1, <1>10

\* The first key of a use.
LEMMA BeginQueues ==
  ASSUME IInv, QInv, NEW t \in Task, Begin(t)
  PROVE  QInv'
<1>1. PICK i \in Place(t) : IsNext(t, i) /\ Ask(t, i)
  BY DEF Begin
<1>2. /\ pc[t] = "idle" /\ UNCHANGED <<deaths, entered, made>>
      /\ asked' = [asked EXCEPT ![t] = @ \cup {i}] /\ i \in Nat /\ i \in Place(t)
      /\ pc \in [Task -> Phase] /\ asked \in [Task -> SUBSET Nat]
  BY <1>1, AskFacts DEF Begin, procVars, Ask, IInv, Types
<1>3. PICK q \in {"gate", "claim"} : pc' = [pc EXCEPT ![t] = q]
  BY <1>1, AskFacts
<1>4. entered[t] = {} /\ asked[t] = {} /\ Queues[t] = {} /\ Queues \in [Task -> SUBSET Nat]
  <2>1. entered[t] = {} /\ asked[t] = {}
    BY <1>2 DEF IInv, Entries, QInv, Phases
  <2> QED
    BY <2>1, QueuesFacts
<1>5. \A u \in Task : /\ pc'[u] = IF u = t THEN q ELSE pc[u]
                      /\ asked'[u] = IF u = t THEN {i} ELSE asked[u]
  BY <1>2, <1>3, <1>4
<1>6. Queues' = Grown(Queues, t, i)
  <2>1. \A u \in Task : Queued(u)' = IF u = t THEN {i} ELSE Queued(u)
    BY <1>2, <1>3, <1>4, <1>5 DEF Queued, Asking
  <2>2. Queues' = [u \in Task |-> Queued(u)']
    BY DEF Queues
  <2> QED
    BY <1>4, <2>1, <2>2 DEF Queues, Grown
<1>7. Tables' /\ Books'
  BY <1>1, <1>2, <1>6, BooksAsk, AskGates DEF QInv, Tables
<1>8. /\ Gates'
      /\ \A c \in Process, k \in Key : gate[c][k] # <<>> =>
           gate'[c][k] # <<>> /\ Head(gate'[c][k]) = Head(gate[c][k])
      /\ pc'[t] = "gate" \/ AtHead(t, i)'
  BY <1>1, <1>6, AskGates
<1>9. Phases'
  BY <1>2, <1>3, <1>4, <1>5 DEF Phases, QInv, Asking, Place
<1>10. Heads'
  <2> SUFFICES ASSUME NEW u \in Task, NEW j \in PastGate(u)'
               PROVE  AtHead(u, j)'
    BY DEF Heads
  <2>1. CASE u = t
    BY <1>2, <1>4, <1>5, <1>8, <2>1 DEF PastGate
  <2>2. CASE u # t
    <3>1. j \in PastGate(u)
      BY <1>2, <1>5, <2>2 DEF PastGate
    <3>2. AtHead(u, j) /\ j \in Place(u)
      BY <3>1 DEF QInv, Heads, PastGate, IInv, Entries
    <3>3. ProcessOf[u] \in Process /\ Wanted[u][j] \in Key
      BY <3>2, PlaceIsKey, ConstantsAssumption DEF ConstantsAssumption
    <3> QED
      BY <1>2, <1>8, <3>2, <3>3 DEF AtHead
  <2> QED
    BY <2>1, <2>2
<1> QED
  BY <1>7, <1>8, <1>9, <1>10 DEF QInv

\* One key is taken: the next is asked for, or the task is in.
LEMMA ClaimQueues ==
  ASSUME IInv, QInv, NEW t \in Task, Claim(t)
  PROVE  QInv'
<1>0. PICK i : i = Current(t)
  OBVIOUS
<1>1. /\ pc[t] = "claim" /\ pc \in [Task -> Phase] /\ asked \in [Task -> SUBSET Nat]
      /\ entered \in [Task -> SUBSET Nat]
      /\ entered' = [entered EXCEPT ![t] = @ \cup {i}] /\ deaths' = deaths
  BY <1>0 DEF Claim, procVars, IInv, Types
<1>2. asked[t] = entered[t] \cup {i}
  BY <1>0, <1>1, OneToCome DEF Asking
<1>3. entered'[t] = asked[t] /\ \A u \in Task \ {t} : entered'[u] = entered[u]
  BY <1>1, <1>2
<1>4. Queued(t) = asked[t] /\ PastGate(t) = asked[t]
  BY <1>1, <1>2 DEF Queued, PastGate, Asking
<1>5. Queues \in [Task -> SUBSET Nat] /\ Queues[t] = asked[t]
  BY <1>4, QueuesFacts
<1>6. ASSUME NEW j \in Place(t), IsNext(t, j), Ask(t, j)
      PROVE  QInv'
  <2>1. /\ asked' = [asked EXCEPT ![t] = @ \cup {j}] /\ j \in Nat /\ j \notin asked[t]
        /\ made' = made
    BY <1>6, AskFacts DEF Ask
  <2>2. PICK q \in {"gate", "claim"} : pc' = [pc EXCEPT ![t] = q]
    BY <1>6, AskFacts
  <2>3. \A u \in Task : /\ pc'[u] = IF u = t THEN q ELSE pc[u]
                        /\ asked'[u] = IF u = t THEN asked[t] \cup {j} ELSE asked[u]
    BY <1>1, <2>1, <2>2
  <2>4. Queues' = Grown(Queues, t, j)
    <3>1. \A u \in Task : Queued(u)' = IF u = t THEN Queued(t) \cup {j} ELSE Queued(u)
      BY <1>1, <1>3, <1>4, <2>2, <2>3 DEF Queued, Asking
    <3>2. Queues' = [u \in Task |-> Queued(u)']
      BY DEF Queues
    <3> QED
      BY <1>5, <3>1, <3>2 DEF Queues, Grown
  <2>5. Tables' /\ Books'
    BY <1>1, <1>6, <2>1, <2>4, BooksAsk, AskGates DEF QInv, Tables
  <2>6. /\ Gates'
        /\ \A c \in Process, k \in Key : gate[c][k] # <<>> =>
             gate'[c][k] # <<>> /\ Head(gate'[c][k]) = Head(gate[c][k])
        /\ pc'[t] = "gate" \/ AtHead(t, j)'
    BY <1>6, <2>4, AskGates
  <2>7. Phases'
    <3> SUFFICES ASSUME NEW u \in Task
                 PROVE  /\ pc'[u] \in Asking => \E n \in Place(u) : asked'[u] \ entered'[u] = {n}
                        /\ pc'[u] \in {"inside", "leaving"} => asked'[u] = entered'[u]
                        /\ pc'[u] = "idle" => asked'[u] = {}
      BY DEF Phases, Place
    <3>1. CASE u = t
      <4>1. asked'[u] \ entered'[u] = {j} /\ pc'[u] \in {"gate", "claim"}
        BY <1>3, <2>1, <2>2, <2>3, <3>1
      <4> QED
        BY <3>1, <4>1
    <3>2. CASE u # t
      BY <1>3, <2>3, <3>2 DEF QInv, Phases
    <3> QED
      BY <3>1, <3>2
  <2>8. Heads'
    <3> SUFFICES ASSUME NEW u \in Task, NEW n \in PastGate(u)'
                 PROVE  AtHead(u, n)'
      BY DEF Heads
    <3>1. n \in PastGate(u) \/ (u = t /\ n = j /\ pc'[t] # "gate")
      BY <1>3, <1>4, <2>2, <2>3 DEF PastGate
    <3>2. CASE n \in PastGate(u)
      <4>1. AtHead(u, n) /\ n \in Place(u)
        BY <3>2 DEF QInv, Heads, PastGate, IInv, Entries
      <4>2. ProcessOf[u] \in Process /\ Wanted[u][n] \in Key
        BY <4>1, PlaceIsKey, ConstantsAssumption DEF ConstantsAssumption
      <4> QED
        BY <2>1, <2>6, <4>1, <4>2 DEF AtHead
    <3> QED
      BY <2>6, <3>1, <3>2
  <2> QED
    BY <2>5, <2>6, <2>7, <2>8 DEF QInv
<1>7. ASSUME pc' = [pc EXCEPT ![t] = "inside"], UNCHANGED <<tableVars, asked>>
      PROVE  QInv'
  <2>1. \A u \in Task : pc'[u] = IF u = t THEN "inside" ELSE pc[u]
    BY <1>1, <1>7
  <2>2. Tables' /\ Books'
    BY <1>1, <1>7, BooksQuiet DEF QInv, Tables, tableVars
  <2>3. Phases'
    BY <1>3, <1>7, <2>1 DEF QInv, Phases, Asking, Place
  <2>4. Queues' = Queues
    <3>1. \A u \in Task : Queued(u)' = Queued(u)
      BY <1>3, <1>4, <1>7, <2>1 DEF Queued, Asking
    <3> QED
      BY <3>1 DEF Queues
  <2>5. Gates'
    BY <1>7, <2>4 DEF QInv, Gates, tableVars
  <2>6. Heads'
    <3>1. \A u \in Task : PastGate(u)' \subseteq PastGate(u)
      BY <1>3, <1>4, <1>7, <2>1 DEF PastGate, Asking
    <3> QED
      BY <1>7, <3>1 DEF QInv, Heads, AtHead, tableVars
  <2> QED
    BY <2>2, <2>3, <2>5, <2>6 DEF QInv
<1> QED
  BY <1>6, <1>7 DEF Claim

\* A cancelled wait leaves the gate, and the entry for the rollback.
LEMMA CancelQueues ==
  ASSUME IInv, QInv, NEW t \in Task, Cancel(t)
  PROVE  QInv'
<1>0. PICK i : i = Current(t)
  OBVIOUS
<1>1. /\ pc[t] \in Asking /\ pc \in [Task -> Phase]
      /\ pc' = [pc EXCEPT ![t] = "undoing"]
      /\ gate' = [gate EXCEPT ![ProcessOf[t]][Wanted[t][i]] = Leave(t, i, @)]
      /\ UNCHANGED <<deaths, shared, local, made, asked, entered>>
  BY <1>0 DEF Cancel, procVars, IInv, Types, Asking
<1>2. asked[t] = entered[t] \cup {i} /\ i \in asked[t] \ entered[t] /\ i \in Queued(t)
  BY <1>0, <1>1, OneToCome DEF Queued
<1>3. \A u \in Task : pc'[u] = IF u = t THEN "undoing" ELSE pc[u]
  BY <1>1
<1>4. Queues' = Shrunk(Queues, t, i)
  <2>1. \A u \in Task : Queued(u)' = IF u = t THEN Queued(t) \ {i} ELSE Queued(u)
    BY <1>1, <1>2, <1>3 DEF Queued, Asking
  <2>2. Queues' = [u \in Task |-> Queued(u)']
    BY DEF Queues
  <2> QED
    BY <2>1, <2>2 DEF Queues, Shrunk
<1>5. gate' = [gate EXCEPT ![ProcessOf[t]][Wanted[t][i]] =
                 IF i \in Queued(t) THEN Leave(t, i, @) ELSE @]
  BY <1>1, <1>2
<1>6. /\ made' \in [Process -> [Key -> Nat]]
      /\ \A q \in Process, c \in Key : made'[q][c] = made[q][c] \/ Count(local[q][c]) = 0
  BY <1>1 DEF QInv, Tables
<1>7. /\ gate' \in [Process -> [Key -> Seq(Tickets)]]
      /\ Gates'
      /\ \A u \in Task : \A j \in asked[u] :
           AtHead(u, j) /\ (u # t \/ j # i) => AtHead(u, j)'
  BY <1>2, <1>4, <1>5, <1>6, LeaveGates
<1>8. Tables' /\ Books'
  BY <1>1, <1>7, BooksQuiet DEF QInv, Tables
<1>9. Phases'
  BY <1>1, <1>3 DEF QInv, Phases, Asking, Place
<1>10. Heads'
  <2> SUFFICES ASSUME NEW u \in Task, NEW j \in PastGate(u)'
               PROVE  AtHead(u, j)'
    BY DEF Heads
  <2>1. j \in PastGate(u) /\ (u # t \/ j # i)
    BY <1>1, <1>2, <1>3 DEF PastGate, Asking
  <2>2. AtHead(u, j) /\ j \in asked[u]
    BY <2>1 DEF QInv, Heads, PastGate, IInv, Entries
  <2> QED
    BY <1>7, <2>1, <2>2
<1> QED
  BY <1>7, <1>8, <1>9, <1>10 DEF QInv

\* One entry is given back, by the rollback or by the release.
LEMMA GiveBackQueues ==
  ASSUME IInv, QInv, NEW t \in Task, NEW i \in asked[t], GiveBack(t, i),
         pc[t] \in {"undoing", "leaving"}
  PROVE  QInv'
<1> DEFINE p == ProcessOf[t]
           k == Wanted[t][i]
<1>1. /\ pc \in [Task -> Phase] /\ asked \in [Task -> SUBSET Nat] /\ entered \in [Task -> SUBSET Nat]
      /\ pc' = [pc EXCEPT ![t] = IF asked[t] = {i} THEN "idle" ELSE @]
      /\ asked' = [asked EXCEPT ![t] = @ \ {i}] /\ entered' = [entered EXCEPT ![t] = @ \ {i}]
      /\ gate' = [gate EXCEPT ![p][k] = IF i \in entered[t] THEN Leave(t, i, @) ELSE @]
      /\ deaths' = deaths /\ p \in Process
  BY ConstantsAssumption DEF GiveBack, procVars, IInv, Types, ConstantsAssumption
<1>2. PICK L \in SUBSET Unused(local[p], k) :
        made' = [made EXCEPT ![p] = [j \in Key |-> IF j \in L THEN @[j] + 1 ELSE @[j]]]
  BY DEF GiveBack, LetGoLocal
<1>3. /\ made' \in [Process -> [Key -> Nat]]
      /\ \A q \in Process, c \in Key : made'[q][c] = made[q][c] \/ Count(local[q][c]) = 0
  <2>1. made \in [Process -> [Key -> Nat]]
    BY DEF QInv, Tables
  <2>2. \A c \in L : local[p][c] = 0
    BY DEF Unused
  <2>3. Count(0) = 0
    BY CountFacts
  <2> HIDE DEF p, k
  <2> DEFINE row == [j \in Key |-> IF j \in L THEN made[p][j] + 1 ELSE made[p][j]]
  <2>4. row \in [Key -> Nat] /\ \A c \in Key : c \notin L => row[c] = made[p][c]
    BY <1>1, <2>1
  <2>5. made' = [made EXCEPT ![p] = row]
    BY <1>2
  <2> HIDE DEF row
  <2>6. made' \in [Process -> [Key -> Nat]] /\ \A q \in Process : made'[q] = IF q = p THEN row ELSE made[q]
    BY <1>1, <2>1, <2>4, <2>5
  <2> QED
    BY <2>2, <2>3, <2>4, <2>6
<1>4. Queued(t) = entered[t]
  BY DEF Queued, Asking
<1>5. \A u \in Task : /\ pc'[u] = IF u = t THEN (IF asked[t] = {i} THEN "idle" ELSE pc[t]) ELSE pc[u]
                      /\ asked'[u] = IF u = t THEN asked[t] \ {i} ELSE asked[u]
                      /\ entered'[u] = IF u = t THEN entered[t] \ {i} ELSE entered[u]
  BY <1>1
<1>6. Queues' = Shrunk(Queues, t, i)
  <2>1. \A u \in Task : Queued(u)' = IF u = t THEN Queued(t) \ {i} ELSE Queued(u)
    BY <1>4, <1>5 DEF Queued, Asking
  <2>2. Queues' = [u \in Task |-> Queued(u)']
    BY DEF Queues
  <2> QED
    BY <2>1, <2>2 DEF Queues, Shrunk
<1>7. gate' = [gate EXCEPT ![ProcessOf[t]][Wanted[t][i]] =
                 IF i \in Queued(t) THEN Leave(t, i, @) ELSE @]
  BY <1>1, <1>4
<1>8. /\ gate' \in [Process -> [Key -> Seq(Tickets)]]
      /\ Gates'
      /\ \A u \in Task : \A j \in asked[u] :
           AtHead(u, j) /\ (u # t \/ j # i) => AtHead(u, j)'
  BY <1>3, <1>6, <1>7, LeaveGates
<1>9. Tables' /\ Books'
  BY <1>1, <1>3, <1>8, BooksGiveBack DEF QInv, Tables
<1>10. Phases'
  <2> SUFFICES ASSUME NEW u \in Task
               PROVE  /\ pc'[u] \in Asking => \E n \in Place(u) : asked'[u] \ entered'[u] = {n}
                      /\ pc'[u] \in {"inside", "leaving"} => asked'[u] = entered'[u]
                      /\ pc'[u] = "idle" => asked'[u] = {}
    BY DEF Phases, Place
  <2>1. CASE u = t
    BY <1>5, <2>1 DEF QInv, Phases, Asking
  <2>2. CASE u # t
    BY <1>5, <2>2 DEF QInv, Phases
  <2> QED
    BY <2>1, <2>2
<1>11. Heads'
  <2> SUFFICES ASSUME NEW u \in Task, NEW j \in PastGate(u)'
               PROVE  AtHead(u, j)'
    BY DEF Heads
  <2>1. j \in PastGate(u) /\ (u # t \/ j # i)
    BY <1>4, <1>5 DEF PastGate, Asking
  <2>2. AtHead(u, j) /\ j \in asked[u]
    BY <2>1 DEF QInv, Heads, PastGate, IInv, Entries
  <2> QED
    BY <1>8, <2>1, <2>2
<1> QED
  BY <1>8, <1>9, <1>10, <1>11 DEF QInv

\* A kill: the gates of the process are gone with everyone in them.
LEMMA KillQueues ==
  ASSUME IInv, QInv, NEW p \in Process, Kill(p)
  PROVE  QInv'
<1>1. /\ local' = [local EXCEPT ![p] = [k \in Key |-> None]]
      /\ made' = [made EXCEPT ![p] = [k \in Key |-> 0]]
      /\ gate' = [gate EXCEPT ![p] = [k \in Key |-> <<>>]]
      /\ deaths' = deaths + 1 /\ shared' = shared
      /\ pc' = [t \in Task |-> IF ProcessOf[t] = p THEN "idle" ELSE pc[t]]
      /\ asked' = [t \in Task |-> IF ProcessOf[t] = p THEN {} ELSE asked[t]]
      /\ entered' = [t \in Task |-> IF ProcessOf[t] = p THEN {} ELSE entered[t]]
  BY DEF Kill
<1>2. Tables'
  <2>1. /\ [k \in Key |-> None] \in [Key -> Nat \cup {None}] /\ [k \in Key |-> 0] \in [Key -> Nat]
        /\ [k \in Key |-> <<>>] \in [Key -> Seq(Tickets)]
    OBVIOUS
  <2> QED
    BY <1>1, <2>1 DEF QInv, Tables
<1>3. Books'
  BY BooksKill DEF QInv
<1>4. Phases'
  <2> SUFFICES ASSUME NEW u \in Task
               PROVE  /\ pc'[u] \in Asking => \E n \in Place(u) : asked'[u] \ entered'[u] = {n}
                      /\ pc'[u] \in {"inside", "leaving"} => asked'[u] = entered'[u]
                      /\ pc'[u] = "idle" => asked'[u] = {}
    BY DEF Phases, Place
  <2> QED
    BY <1>1 DEF QInv, Phases, Asking
<1>5. \A t \in Task : Queued(t)' = IF ProcessOf[t] = p THEN {} ELSE Queued(t)
  BY <1>1 DEF Queued, Asking
<1>6. \A t \in Task : Queues'[t] = IF ProcessOf[t] = p THEN {} ELSE Queues[t]
  BY <1>5 DEF Queues
<1>7. Gates'
  <2> SUFFICES ASSUME NEW q \in Process, NEW k \in Key
               PROVE  IsInjective(gate'[q][k]) /\ ToSet(gate'[q][k]) = Waiting(Queues', made'[q][k], q, k)
    BY DEF Gates
  <2>1. \A e \in Tickets : e.task \in Task
    BY DEF Tickets
  <2>2. CASE q = p
    <3>1. gate'[q][k] = <<>>
      BY <1>1, <2>2 DEF QInv, Tables
    <3>2. Waiting(Queues', made'[q][k], q, k) = {}
      BY <1>6, <2>1, <2>2 DEF Waiting
    <3> QED
      BY <3>1, <3>2, EmptyQueue
  <2>3. CASE q # p
    <3>1. gate'[q] = gate[q] /\ made'[q] = made[q]
      BY <1>1, <2>3 DEF QInv, Tables
    <3>2. Waiting(Queues', made[q][k], q, k) = Waiting(Queues, made[q][k], q, k)
      BY <1>6, <2>1, <2>3 DEF Waiting
    <3> QED
      BY <3>1, <3>2 DEF QInv, Gates
  <2> QED
    BY <2>2, <2>3
<1>8. Heads'
  <2> SUFFICES ASSUME NEW u \in Task, NEW j \in PastGate(u)'
               PROVE  AtHead(u, j)'
    BY DEF Heads
  <2>1. ProcessOf[u] # p /\ j \in PastGate(u)
    BY <1>1 DEF PastGate, Asking
  <2>2. AtHead(u, j)
    BY <2>1 DEF QInv, Heads
  <2>3. gate'[ProcessOf[u]] = gate[ProcessOf[u]] /\ made'[ProcessOf[u]] = made[ProcessOf[u]]
    BY <1>1, <2>1, ConstantsAssumption DEF QInv, Tables, ConstantsAssumption
  <2> QED
    BY <2>2, <2>3 DEF AtHead
<1> QED
  BY <1>2, <1>3, <1>4, <1>7, <1>8 DEF QInv

\* What touches neither entries nor gates keeps the queues.
LEMMA StillQueues ==
  ASSUME QInv, UNCHANGED <<deaths, tableVars, pc, asked, entered>>
  PROVE  QInv'
<1>1. Tables' /\ Books'
  BY BooksQuiet DEF QInv, Tables, tableVars
<1>2. Phases'
  BY DEF QInv, Phases, Place
<1>3. Queues' = Queues
  BY DEF Queues, Queued
<1>4. Gates'
  BY <1>3 DEF QInv, Gates, tableVars
<1>5. Heads'
  BY DEF QInv, Heads, PastGate, AtHead, tableVars
<1> QED
  BY <1>1, <1>2, <1>4, <1>5 DEF QInv

\* Nobody waits at first.
LEMMA InitQueues == Init => QInv
<1> SUFFICES ASSUME Init PROVE QInv
  OBVIOUS
<1>1. Tables
  BY DEF Init, Tables
<1>2. Phases
  BY DEF Init, Phases, Asking
<1>3. \A t \in Task : asked[t] = {} /\ entered[t] = {} /\ Queued(t) = {} /\ PastGate(t) = {}
  BY DEF Init, Queued, PastGate, Asking
<1>4. Books
  <2> SUFFICES ASSUME NEW k \in Key
               PROVE  /\ \A p \in Process : References(p, k) = {} /\ Count(local[p][k]) = 0
                      /\ AllReferences(k) = {} /\ Count(shared[k]) = 0
    BY FS_EmptySet DEF Books
  <2>1. \A p \in Process : References(p, k) = {}
    BY <1>3 DEF References
  <2>2. shared[k] = None /\ \A p \in Process : local[p][k] = None
    BY DEF Init
  <2> QED
    BY <2>1, <2>2, CountFacts DEF AllReferences
<1>5. Gates
  <2> SUFFICES ASSUME NEW p \in Process, NEW k \in Key
               PROVE  IsInjective(gate[p][k]) /\ ToSet(gate[p][k]) = Waiting(Queues, made[p][k], p, k)
    BY DEF Gates
  <2>1. gate[p][k] = <<>>
    BY DEF Init
  <2>2. \A e \in Tickets : e.task \in Task
    BY DEF Tickets
  <2>3. Waiting(Queues, made[p][k], p, k) = {}
    BY <1>3, <2>2 DEF Waiting, Queues
  <2> QED
    BY <2>1, <2>3, EmptyQueue
<1>6. Heads
  BY <1>3 DEF Heads
<1> QED
  BY <1>1, <1>2, <1>4, <1>5, <1>6 DEF QInv

\* Every step keeps the queues of the gates and the counts.
LEMMA NextQueues ==
  ASSUME IInv, QInv, [Next]_vars
  PROVE  QInv'
<1>1. ASSUME NEW t \in Task, Begin(t) PROVE QInv'
  BY <1>1, BeginQueues
<1>2. ASSUME NEW t \in Task, Claim(t) PROVE QInv'
  BY <1>2, ClaimQueues
<1>3. ASSUME NEW t \in Task, FindHeld(t) \/ Probe(t) \/ Reclaim(t) \/ Wake(t) \/ Exit(t) PROVE QInv'
  <2>1. /\ UNCHANGED <<deaths, shared, local, made, gate, asked, entered>>
        /\ \/ pc[t] \in Asking \ {"gate"} /\ \E q \in Asking \ {"gate"} : pc' = [pc EXCEPT ![t] = q]
           \/ pc[t] = "inside" /\ pc' = [pc EXCEPT ![t] = "leaving"]
    BY <1>3 DEF FindHeld, Probe, Reclaim, Wake, Exit, procVars, tableVars, Asking
  <2> QED
    BY <2>1, QuietQueues
<1>4. ASSUME NEW t \in Task, PassGate(t) PROVE QInv'
  <2>1. /\ UNCHANGED <<deaths, shared, local, made, gate, asked, entered>>
        /\ pc[t] \in Asking /\ AtGate(t) /\ pc' = [pc EXCEPT ![t] = "claim"]
    BY <1>4 DEF PassGate, procVars, tableVars, Asking
  <2>2. AtHead(t, Current(t)) /\ "claim" \in Asking \ {"gate"}
    BY <2>1, OwnerIsHead DEF Asking
  <2> QED
    BY <2>1, <2>2, QuietQueues
<1>5. ASSUME NEW t \in Task, Cancel(t) PROVE QInv'
  BY <1>5, CancelQueues
<1>6. ASSUME NEW t \in Task, Undo(t) \/ Release(t) PROVE QInv'
  <2>1. PICK i \in asked[t] : GiveBack(t, i)
    BY <1>6 DEF Undo, Release, IsLast
  <2>2. pc[t] \in {"undoing", "leaving"}
    BY <1>6 DEF Undo, Release
  <2> QED
    BY <2>1, <2>2, GiveBackQueues
<1>7. ASSUME NEW p \in Process, Kill(p) PROVE QInv'
  BY <1>7, KillQueues
<1>8. ASSUME NEW p \in Process, Restart(p) PROVE QInv'
  BY <1>8, StillQueues DEF Restart, taskVars
<1>9. ASSUME UNCHANGED vars PROVE QInv'
  BY <1>9, StillQueues DEF vars, procVars, taskVars
<1> QED
  BY <1>1, <1>2, <1>3, <1>4, <1>5, <1>6, <1>7, <1>8, <1>9 DEF Next, Acquire, Resume

\* Of the tasks of a process one at most is past the gate of a key, however
\* often gates are forgotten and made again: the gate is never forgotten while
\* an entry is counted, and who is past it is at its head.
THEOREM OneTaskPastGate == Spec => []OnePoller
<1>1. QInv => OnePoller
  <2> SUFFICES ASSUME QInv, NEW t \in Task, NEW u \in Task, ProcessOf[t] = ProcessOf[u],
                      NEW i \in PastGate(t), NEW j \in PastGate(u), Wanted[t][i] = Wanted[u][j]
               PROVE  t = u /\ i = j
    BY DEF OnePoller
  <2>1. AtHead(t, i) /\ AtHead(u, j)
    BY DEF QInv, Heads
  <2> QED
    BY <2>1 DEF AtHead, TicketOf
<1> QED
  BY <1>1, InitIInv, NextIInv, InitQueues, NextQueues, PTL DEF Spec

\* Each process counts its lock objects exactly, and the count all processes
\* share falls short of theirs never: no cleaning up takes a key in use.
THEOREM CountsBalance == Spec => []BooksBalance
<1>1. QInv => BooksBalance
  BY DEF QInv, Books, BooksBalance, AllReferences
<1> QED
  BY <1>1, InitIInv, NextIInv, InitQueues, NextQueues, PTL DEF Spec

\* Every variable keeps its type, and the bounds on uses and kills hold.
THEOREM LocksTypeCorrect == Spec => []TypeOK
<1> DEFINE Bounds == deaths \in 0 .. MaxDeaths /\ uses \in [Task -> 0 .. MaxUses]
<1>1. Init => Bounds
  BY ConstantsAssumption DEF Init, ConstantsAssumption
<1>2. ASSUME Bounds, [Next]_vars PROVE Bounds'
  <2>1. ASSUME NEW t \in Task, Begin(t) PROVE Bounds'
    <3>1. uses[t] < MaxUses /\ uses' = [uses EXCEPT ![t] = @ + 1] /\ deaths' = deaths
      BY <2>1 DEF Begin, procVars
    <3> QED
      BY <1>2, <3>1, ConstantsAssumption DEF ConstantsAssumption
  <2>2. ASSUME NEW p \in Process, Kill(p) PROVE Bounds'
    <3>1. deaths < MaxDeaths /\ deaths' = deaths + 1 /\ uses' = uses
      BY <2>2 DEF Kill
    <3> QED
      BY <1>2, <3>1, ConstantsAssumption DEF ConstantsAssumption
  <2>3. ASSUME NEW p \in Process, Restart(p) PROVE UNCHANGED <<deaths, uses>>
    BY <2>3 DEF Restart, taskVars
  <2>4. ASSUME NEW t \in Task, Acquire(t) \/ Resume(t) \/ Cancel(t) \/ Release(t)
        PROVE  UNCHANGED <<deaths, uses>>
    BY <2>4 DEF Acquire, Resume, Claim, FindHeld, Probe, Reclaim, PassGate, Wake, Undo, Exit,
                Cancel, Release, GiveBack, procVars
  <2>5. UNCHANGED vars => UNCHANGED <<deaths, uses>>
    BY DEF vars, procVars, taskVars
  <2> QED
    BY <1>2, <2>1, <2>2, <2>3, <2>4, <2>5 DEF Next
<1>3. IInv /\ QInv /\ Bounds => TypeOK
  BY DEF IInv, Types, QInv, Tables, Tickets, TypeOK
<1> HIDE DEF Bounds
<1> QED
  BY <1>1, <1>2, <1>3, InitIInv, NextIInv, InitQueues, NextQueues, PTL DEF Spec
=============================================================================
