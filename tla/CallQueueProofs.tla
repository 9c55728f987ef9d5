--------------------------- MODULE CallQueueProofs ---------------------------
(***************************************************************************)
(* Proofs about CallQueue and the lease table below it, for every number   *)
(* of calls, workers, processes, leases and faults, and in both modes.     *)
(***************************************************************************)
EXTENDS CallQueue, QueueLemmas, FiniteSetTheorems

-----------------------------------------------------------------------------
(* Queues.                                                                  *)

\* The places of a queue are as many as its length, and so are its elements if
\* none is there twice.
LEMMA PlacesCount ==
  ASSUME NEW S, NEW q \in Seq(S), NEW P \in SUBSET (DOMAIN q)
  PROVE  /\ Len(q) \in Nat /\ DOMAIN q = 1 .. Len(q)
         /\ IsFiniteSet(P) /\ Cardinality(P) \in Nat
         /\ Cardinality(P) + Cardinality(DOMAIN q \ P) = Len(q)
         /\ IsInjective(q) => /\ IsFiniteSet({q[i] : i \in P})
                              /\ Cardinality({q[i] : i \in P}) = Cardinality(P)
<1>1. Len(q) \in Nat /\ DOMAIN q = 1 .. Len(q)
  BY LenProperties
<1>2. IsFiniteSet(DOMAIN q) /\ Cardinality(DOMAIN q) = Len(q)
  <2>1. 1 \in Int /\ Len(q) \in Int /\ Len(q) >= 0
    BY <1>1
  <2>2. IsFiniteSet(1 .. Len(q)) /\ Cardinality(1 .. Len(q)) = IF 1 > Len(q) THEN 0 ELSE Len(q) - 1 + 1
    BY <2>1, FS_Interval
  <2> QED BY <1>1, <2>2
<1>3. IsFiniteSet(P) /\ Cardinality(P) \in Nat
  BY <1>2, FS_Subset, FS_CardinalityType
<1>4. Cardinality(DOMAIN q \ P) = Len(q) - Cardinality(P)
  <2>1. (DOMAIN q) \cap P = P
    OBVIOUS
  <2> QED BY <1>2, <2>1, FS_Difference
<1>5. ASSUME IsInjective(q)
      PROVE  /\ IsFiniteSet({q[i] : i \in P})
             /\ Cardinality({q[i] : i \in P}) = Cardinality(P)
  <2> DEFINE T == {q[i] : i \in P}
             f == [i \in P |-> q[i]]
  <2>1. f \in [P -> T]
    OBVIOUS
  <2>2. f \in Surjection(P, T)
    <3>1. \A t \in T : \E i \in P : f[i] = t
      OBVIOUS
    <3> HIDE DEF T, f
    <3> QED BY <2>1, <3>1 DEF Surjection
  <2>3. f \in Injection(P, T)
    <3>1. \A a, b \in P : f[a] = f[b] => a = b
      BY <1>5 DEF IsInjective
    <3> QED BY <2>1, <3>1 DEF Injection, IsInjective
  <2> HIDE DEF T, f
  <2> QED BY <1>3, <2>2, <2>3, FS_Surjection DEF T
<1> QED BY <1>1, <1>3, <1>4, <1>5

\* Picking: the elements at the places, each once, as many as there are places.
LEMMA PickFacts ==
  ASSUME NEW S, NEW q \in Seq(S), NEW P \in SUBSET (DOMAIN q)
  PROVE  /\ Pick(q, P) \in Seq(S)
         /\ Len(Pick(q, P)) = Cardinality(P)
         /\ ToSet(Pick(q, P)) = {q[i] : i \in P}
         /\ IsInjective(q) => IsInjective(Pick(q, P))
<1> DEFINE n == Cardinality(P)
           Below(i) == {j \in P : j <= i}
           Rank(i) == Cardinality(Below(i))
           rank == [i \in P |-> Rank(i)]
           Place(k) == CHOOSE i \in P : Rank(i) = k
           r == [k \in 1 .. n |-> q[Place(k)]]
<1>1. /\ DOMAIN q = 1 .. Len(q) /\ Len(q) \in Nat
      /\ IsFiniteSet(P) /\ n \in Nat
  BY PlacesCount
<1>2. Pick(q, P) = r
  BY DEF Pick
<1>3. ASSUME NEW i \in P PROVE IsFiniteSet(Below(i)) /\ Rank(i) \in 1 .. n
  <2>1. Below(i) \in SUBSET P /\ i \in Below(i)
    BY <1>1
  <2>2. IsFiniteSet(Below(i)) /\ Rank(i) \in Nat /\ Rank(i) <= n
    <3> HIDE DEF Below
    <3> QED BY <1>1, <2>1, FS_Subset, FS_CardinalityType
  <2>3. Rank(i) # 0
    <3> HIDE DEF Below
    <3> QED BY <2>1, <2>2, FS_EmptySet
  <2> QED BY <2>2, <2>3
<1>4. ASSUME NEW i \in P, NEW j \in P, i < j PROVE Rank(i) # Rank(j)
  <2>1. Below(i) \in SUBSET Below(j) /\ j \in Below(j) /\ j \notin Below(i)
    BY <1>1, <1>4
  <2>2. IsFiniteSet(Below(j))
    BY <1>3
  <2> HIDE DEF Below
  <2>3. Cardinality(Below(j)) = Cardinality(Below(i)) => Below(j) = Below(i)
    BY <2>1, <2>2, FS_Subset
  <2> QED BY <2>1, <2>3
<1>5. rank \in [P -> 1 .. n]
  <2> HIDE DEF Rank
  <2> QED BY <1>3
<1>6. rank \in Injection(P, 1 .. n)
  <2>1. ASSUME NEW a \in P, NEW b \in P, rank[a] = rank[b] PROVE a = b
    <3>1. Rank(a) = Rank(b)
      BY <2>1
    <3>2. a \in Int /\ b \in Int
      BY <1>1
    <3> HIDE DEF Rank
    <3> QED BY <1>4, <3>1, <3>2
  <2> HIDE DEF rank
  <2> QED BY <1>5, <2>1 DEF Injection, IsInjective
<1>7. rank \in Surjection(P, 1 .. n)
  <2>1. IsFiniteSet(1 .. n) /\ Cardinality(1 .. n) = n
    BY <1>1, FS_Interval
  <2> HIDE DEF rank
  <2>2. Cardinality(P) = Cardinality(1 .. n)
    BY <2>1
  <2> QED BY <1>6, <2>1, <2>2, FS_Injection
<1>8. ASSUME NEW k \in 1 .. n PROVE Place(k) \in P /\ Rank(Place(k)) = k
  <2>1. \E i \in P : rank[i] = k
    BY <1>7 DEF Surjection
  <2>2. \E i \in P : Rank(i) = k
    <3> HIDE DEF Rank
    <3> QED BY <2>1
  <2> HIDE DEF Rank
  <2> QED BY <2>2
<1>9. ASSUME NEW i \in P PROVE Rank(i) \in 1 .. n /\ Place(Rank(i)) = i
  <2>1. Rank(i) \in 1 .. n
    BY <1>3
  <2>2. Place(Rank(i)) \in P /\ Rank(Place(Rank(i))) = Rank(i)
    <3> HIDE DEF Rank
    <3> DEFINE k == Rank(i)
    <3> HIDE DEF k, Place
    <3>1. Place(k) \in P /\ Rank(Place(k)) = k
      BY <1>8, <2>1 DEF k
    <3> QED BY <3>1 DEF k
  <2>3. Place(Rank(i)) \in Int /\ i \in Int
    BY <1>1, <2>2
  <2> HIDE DEF Rank, Place
  <2> QED BY <1>4, <2>1, <2>2, <2>3
<1> HIDE DEF Rank, Place
<1>10. r \in Seq(S) /\ Len(r) = n /\ DOMAIN r = 1 .. n
  <2>1. \A k \in 1 .. n : q[Place(k)] \in S
    BY <1>1, <1>8, ElementOfSeq
  <2> QED BY <1>1, <2>1, SeqDef, IsASeq, LenProperties
<1>11. ToSet(r) = {q[i] : i \in P}
  <2>1. ToSet(r) \subseteq {q[i] : i \in P}
    BY <1>8, <1>10 DEF ToSet
  <2>2. ASSUME NEW i \in P PROVE q[i] \in ToSet(r)
    <3>1. Rank(i) \in 1 .. n /\ r[Rank(i)] = q[i]
      BY <1>9
    <3> QED BY <1>10, <3>1 DEF ToSet
  <2> QED BY <2>1, <2>2
<1>12. ASSUME IsInjective(q) PROVE IsInjective(r)
  <2> SUFFICES ASSUME NEW a \in DOMAIN r, NEW b \in DOMAIN r, r[a] = r[b]
               PROVE  a = b
    BY DEF IsInjective
  <2>1. a \in 1 .. n /\ b \in 1 .. n /\ q[Place(a)] = q[Place(b)]
    BY <1>10
  <2>2. Place(a) = Place(b)
    BY <1>8, <1>12, <2>1 DEF IsInjective
  <2> QED BY <1>8, <2>1, <2>2
<1> QED BY <1>2, <1>10, <1>11, <1>12

\* A call that enters the queue.
LEMMA InsertFacts ==
  ASSUME NEW q \in Seq(Calls), NEW c \in Calls, IsInjective(q), c \notin ToSet(q)
  PROVE  /\ Insert(q, c) \in Seq(Calls)
         /\ Len(Insert(q, c)) = Len(q) + 1
         /\ ToSet(Insert(q, c)) = ToSet(q) \cup {c}
         /\ IsInjective(Insert(q, c))
<1> DEFINE A == {i \in DOMAIN q : Priority[q[i]] <= Priority[c]}
           B == DOMAIN q \ A
           a == Pick(q, A)
           b == Pick(q, B)
<1>1. A \in SUBSET (DOMAIN q) /\ B \in SUBSET (DOMAIN q) /\ A \cup B = DOMAIN q /\ A \cap B = {}
  OBVIOUS
<1>2. Insert(q, c) = a \o <<c>> \o b
  BY DEF Insert
<1> HIDE DEF A
<1>3. /\ a \in Seq(Calls) /\ b \in Seq(Calls)
      /\ Len(a) = Cardinality(A) /\ Len(b) = Cardinality(B)
      /\ ToSet(a) = {q[i] : i \in A} /\ ToSet(b) = {q[i] : i \in B}
      /\ IsInjective(a) /\ IsInjective(b)
  <2> HIDE DEF B
  <2> QED BY <1>1, PickFacts
<1>4. Len(a) \in Nat /\ Len(b) \in Nat /\ Len(a) + Len(b) = Len(q)
  BY <1>1, <1>3, PlacesCount
<1>5. ToSet(q) = ToSet(a) \cup ToSet(b) /\ ToSet(a) \cap ToSet(b) = {}
  <2> HIDE DEF a, b, B
  <2>1. ToSet(q) = {q[i] : i \in DOMAIN q}
    BY DEF ToSet
  <2>2. ToSet(q) = ToSet(a) \cup ToSet(b)
    BY <1>1, <1>3, <2>1
  <2>3. \A i \in A, j \in B : q[i] # q[j]
    BY <1>1 DEF IsInjective
  <2> QED BY <1>3, <2>2, <2>3
<1> HIDE DEF a, b, B
<1>6. <<c>> \in Seq(Calls) /\ ToSet(<<c>>) = {c} /\ IsInjective(<<c>>)
  BY SingleQueue
<1>7. /\ a \in Seq(Calls) /\ IsInjective(a) /\ c \notin ToSet(a)
      /\ b \in Seq(Calls) /\ IsInjective(b) /\ c \notin ToSet(b)
      /\ ToSet(a) \cap ToSet(<<c>>) = {}
  BY <1>3, <1>5, <1>6
<1>8. /\ a \o <<c>> \in Seq(Calls)
      /\ ToSet(a \o <<c>>) = ToSet(a) \cup ToSet(<<c>>)
      /\ IsInjective(a \o <<c>>)
      /\ Len(a \o <<c>>) = Len(a) + 1
  <2>1. Len(a \o <<c>>) = Len(a) + 1
    BY <1>6, <1>7, ConcatProperties
  <2> DEFINE one == <<c>>
  <2>2. one \in Seq(Calls) /\ IsInjective(one) /\ ToSet(a) \cap ToSet(one) = {}
    BY <1>6, <1>7
  <2> HIDE DEF one
  <2>3. a \o one \in Seq(Calls) /\ ToSet(a \o one) = ToSet(a) \cup ToSet(one) /\ IsInjective(a \o one)
    BY <1>7, <2>2, ConcatQueue
  <2> QED BY <2>1, <2>3 DEF one
<1>9. /\ (a \o <<c>>) \o b \in Seq(Calls)
      /\ ToSet((a \o <<c>>) \o b) = ToSet(a) \cup {c} \cup ToSet(b)
      /\ IsInjective((a \o <<c>>) \o b)
      /\ Len((a \o <<c>>) \o b) = Len(q) + 1
  <2> DEFINE ac == a \o <<c>>
  <2>1. ac \in Seq(Calls) /\ ToSet(ac) = ToSet(a) \cup {c} /\ IsInjective(ac) /\ Len(ac) = Len(a) + 1
    BY <1>6, <1>8
  <2> HIDE DEF ac
  <2>2. ToSet(ac) \cap ToSet(b) = {}
    BY <1>5, <1>7, <2>1
  <2>3. Len(ac \o b) = Len(ac) + Len(b)
    BY <1>7, <2>1, ConcatProperties
  <2>4. ac \o b \in Seq(Calls) /\ ToSet(ac \o b) = ToSet(ac) \cup ToSet(b) /\ IsInjective(ac \o b)
    BY <1>7, <2>1, <2>2, ConcatQueue
  <2>5. /\ ac \o b \in Seq(Calls)
        /\ ToSet(ac \o b) = ToSet(a) \cup {c} \cup ToSet(b)
        /\ IsInjective(ac \o b)
        /\ Len(ac \o b) = Len(q) + 1
    BY <1>4, <2>1, <2>3, <2>4
  <2> QED BY <2>5 DEF ac
<1> QED BY <1>2, <1>5, <1>9

-----------------------------------------------------------------------------
(* The lease table.                                                         *)

\* What an entry of the table may be.
LEMMA EntryFacts ==
  /\ Vacant \notin Entries
  /\ \A e \in Entries : e.pid \in Processes /\ e.age \in Ages /\ e # Vacant /\ e.pid # Free
  /\ \A p \in Processes : Fresh(p) \in Entries /\ Fresh(p).pid = p /\ Fresh(p) # Vacant
  /\ Vacant.pid = Free /\ Free \notin Processes /\ Limit \in Nat \ {0}
<1>1. Free \notin Processes /\ Limit \in Nat \ {0}
  BY SlotsAssumption
<1> QED BY <1>1 DEF Entries, Vacant, Fresh, Ages

\* The taken entries of a table.
LEMMA TableFacts ==
  ASSUME NEW t \in Tables
  PROVE  /\ DOMAIN t = Leases
         /\ \A l \in Leases : t[l] \in Entries \/ t[l] = Vacant
         /\ \A l : l \in Taken(t) <=> l \in Leases /\ t[l] \in Entries
         /\ \A l \in Leases : t[l].pid \in Processes => t[l] \in Entries
BY EntryFacts DEF Tables, Taken

\* Reaping takes from the dead and from whoever was late for too long, and from
\* nobody else.
LEMMA ReapFacts ==
  ASSUME NEW t \in Tables, NEW D \in SUBSET Processes
  PROVE  /\ Reap(t, D) \in Tables
         /\ \A l \in Leases : Reap(t, D)[l] = Vacant \/ Reap(t, D)[l].pid = t[l].pid
         /\ \A l \in Leases : t[l] = Vacant => Reap(t, D)[l] = Vacant
         /\ \A l \in Leases, p \in Processes \ D : t[l] = Fresh(p) => Reap(t, D)[l] = Fresh(p)
         /\ Taken(Reap(t, D)) \subseteq Taken(t)
<1> DEFINE r == Reap(t, D)
<1>1. \A l \in Leases : t[l] \in Entries \/ t[l] = Vacant
  BY TableFacts
<1>2. ASSUME NEW l \in Leases
      PROVE  /\ r[l] \in Entries \cup {Vacant}
             /\ r[l] = Vacant \/ r[l].pid = t[l].pid
             /\ t[l] = Vacant => r[l] = Vacant
             /\ \A p \in Processes \ D : t[l] = Fresh(p) => r[l] = Fresh(p)
  <2>1. r[l] = IF t[l].pid \in D \/ t[l].age = "overdue" THEN Vacant
               ELSE IF t[l].age = "late" THEN [t[l] EXCEPT !.age = "suspect"] ELSE t[l]
    BY DEF Reap
  <2>2. CASE t[l] = Vacant
    <3>1. t[l].age = "fresh"
      BY <2>2 DEF Vacant
    <3> QED BY <2>1, <2>2, <3>1, EntryFacts
  <2>3. CASE t[l] \in Entries
    <3>1. [t[l] EXCEPT !.age = "suspect"] \in Entries
          /\ [t[l] EXCEPT !.age = "suspect"].pid = t[l].pid
      BY <2>3 DEF Entries, Ages
    <3>2. \A p \in Processes \ D : t[l] = Fresh(p) => t[l].age = "fresh" /\ t[l].pid \notin D
      BY DEF Fresh
    <3>3. t[l] # Vacant
      BY <2>3, EntryFacts
    <3> QED BY <2>1, <2>3, <3>1, <3>2, <3>3
  <2> QED BY <1>1, <2>2, <2>3
<1>3. r \in Tables
  <2>1. r = [l \in Leases |-> r[l]]
    BY DEF Reap
  <2> HIDE DEF r
  <2> QED BY <1>2, <2>1 DEF Tables
<1>4. Taken(r) \subseteq Taken(t)
  BY <1>2 DEF Taken
<1> QED BY <1>2, <1>3, <1>4

\* Releasing takes what it names.
LEMMA ReleaseFacts ==
  ASSUME NEW t \in Tables, NEW L
  PROVE  /\ Release(t, L) \in Tables
         /\ \A l \in Leases : Release(t, L)[l] = IF l \in L THEN Vacant ELSE t[l]
         /\ Taken(Release(t, L)) \subseteq Taken(t)
BY DEF Release, Tables, Taken

\* Renewing gives nobody a slot he did not have, and does not take one.
LEMMA RenewFacts ==
  ASSUME NEW t \in Tables, NEW p \in Processes, NEW L
  PROVE  /\ Renew(t, p, L) \in Tables
         /\ \A l \in Leases : Renew(t, p, L)[l] = IF l \in L /\ t[l] # Vacant THEN Fresh(p) ELSE t[l]
         /\ Taken(Renew(t, p, L)) = Taken(t)
<1>1. Fresh(p) \in Entries /\ Fresh(p) # Vacant
  BY EntryFacts
<1> QED BY <1>1 DEF Renew, Tables, Taken

\* Acquiring adds one slot to the reaped table.
LEMMA AcquireFacts ==
  ASSUME NEW t \in Tables, NEW D \in SUBSET Processes, NEW p \in Processes, NEW l \in Leases
  PROVE  /\ Acquire(t, D, p, l) \in Tables
         /\ Acquire(t, D, p, l)[l] = Fresh(p)
         /\ \A m \in Leases \ {l} : Acquire(t, D, p, l)[m] = Reap(t, D)[m]
         /\ Taken(Acquire(t, D, p, l)) = Taken(Reap(t, D)) \cup {l}
<1>1. Fresh(p) \in Entries /\ Fresh(p) # Vacant
  BY EntryFacts
<1>2. Reap(t, D) \in Tables
  BY ReapFacts
<1> DEFINE r == Reap(t, D)
<1> HIDE DEF r
<1>3. Acquire(t, D, p, l) = [r EXCEPT ![l] = Fresh(p)]
  BY DEF Acquire, r
<1>4. r \in Tables
  BY <1>2 DEF r
<1>5. /\ Acquire(t, D, p, l) \in Tables
      /\ Acquire(t, D, p, l)[l] = Fresh(p)
      /\ \A m \in Leases \ {l} : Acquire(t, D, p, l)[m] = r[m]
      /\ Taken(Acquire(t, D, p, l)) = Taken(r) \cup {l}
  BY <1>1, <1>3, <1>4 DEF Tables, Taken
<1> QED BY <1>5 DEF r

\* The table holds no more than the limit allows.
Within(t) == IsFiniteSet(Taken(t)) /\ InUse(t) <= Limit

\* A table with fewer slots is within the limit too.
LEMMA FewerWithin ==
  ASSUME NEW t, NEW u, Within(t), Taken(u) \subseteq Taken(t)
  PROVE  Within(u)
<1>1. /\ IsFiniteSet(Taken(u)) /\ Cardinality(Taken(u)) <= Cardinality(Taken(t))
      /\ Cardinality(Taken(u)) \in Nat /\ Cardinality(Taken(t)) \in Nat
  BY FS_Subset, FS_CardinalityType DEF Within
<1>2. Limit \in Nat
  BY SlotsAssumption
<1> QED BY <1>1, <1>2 DEF Within, InUse

\* Whoever finds room keeps the table within the limit.
LEMMA AcquireWithin ==
  ASSUME NEW t \in Tables, NEW D \in SUBSET Processes, NEW p \in Processes, NEW l \in Leases,
         Within(t), HasRoom(t, D)
  PROVE  Within(Acquire(t, D, p, l))
<1> DEFINE T == Taken(Reap(t, D))
<1>1. Taken(Acquire(t, D, p, l)) = T \cup {l}
  BY AcquireFacts
<1>2. IsFiniteSet(T)
  <2>1. T \subseteq Taken(t)
    BY ReapFacts
  <2> QED BY <2>1, FS_Subset DEF Within
<1>3. Cardinality(T) \in Nat /\ Cardinality(T) < Limit /\ Limit \in Nat
  BY <1>2, FS_CardinalityType, SlotsAssumption DEF HasRoom, InUse
<1>4. IsFiniteSet(T \cup {l}) /\ Cardinality(T \cup {l}) <= Cardinality(T) + 1
  <2> HIDE DEF T
  <2>1. /\ IsFiniteSet(T \cup {l})
        /\ Cardinality(T \cup {l}) = IF l \in T THEN Cardinality(T) ELSE Cardinality(T) + 1
    BY <1>2, FS_AddElement
  <2> QED BY <1>3, <2>1
<1> HIDE DEF T
<1>5. Cardinality(T \cup {l}) \in Nat
  BY <1>4, FS_CardinalityType
<1> QED BY <1>1, <1>3, <1>4, <1>5 DEF Within, InUse

-----------------------------------------------------------------------------
(* The invariant.                                                           *)

\* Calls that count as unfinished although they left the queue.
Carried == At("dispatched") \cup At("running")

\* Calls with a reservation, and calls that were made.
Waiting == {c \in Calls : task[c] = "waiting"}
Made == {c \in Calls : phase[c] # "idle"}

\* A call is in the queue once, or in a worker's hands, or in neither, and in
\* one of them only after its caller put it there; what was dispatched gave its
\* reservation back.
Positions ==
  /\ IsInjective(queue)
  /\ \A c \in Calls : c \in ToSet(queue) \/ stage[c] # "none"
                       => phase[c] \in {"waiting", "cleanup", "over"}
  /\ \A c \in ToSet(queue) : stage[c] = "none"
  /\ \A c \in Calls : phase[c] = "idle" => task[c] = "absent"
  /\ limited => \A c \in Calls : phase[c] \in {"door", "woken"} => task[c] = "absent"
  /\ limited => \A c \in Calls : stage[c] # "none" => task[c] # "waiting"
  /\ ~limited => \A c \in Calls : stage[c] \in {"none", "running"}
  /\ IsFiniteSet(Made)

\* The counters say what they count. A forced shutdown drops entries without
\* their reservations, and from then on live_queued is only not too small.
Counts ==
  /\ unfinished = Len(queue) + Cardinality(Carried)
  /\ ~limited => liveQueued = 0
  /\ limited => liveQueued <= MaxQueue /\ Cardinality(Waiting) <= liveQueued
  /\ limited /\ shut \in {"no", "join", "force"} => liveQueued = Cardinality(Waiting)

\* What a shutdown has put an end to.
Closing ==
  /\ shut \in {"gather", "drain", "return", "done"} => pump = "gone"
  /\ shut \in {"drain", "return", "done"} => At("running") \cup At("releasing") = {}
  /\ shut \in {"return", "done"} => At("dispatched") = {}

\* A lease is in one pair of hands, and the books of who has one agree.
Hands ==
  /\ pumpLease = NoLease <=> pump \in {"idle", "gone"}
  /\ ~limited => pump = "gone" /\ held = {}
  /\ \A c \in Calls : lease[c] # NoLease <=> limited /\ stage[c] # "none"
  /\ \A c, d \in Calls : c # d /\ lease[c] # NoLease => lease[c] # lease[d]
  /\ \A c \in Calls : lease[c] # NoLease => lease[c] # pumpLease
  /\ limited => held = {lease[c] : c \in Carried} \cup (IF pump = "returning" THEN {pumpLease} ELSE {})
  /\ pending \cap (held \cup Range(lease) \cup {pumpLease}) = {}
  /\ IsFiniteSet(pending)

\* Leases that are in use, or about to be.
InHands == held \cup (IF pump = "granted" THEN {pumpLease} ELSE {})

\* The leases this process knows of, or lost sight of.
Known == held \cup pending \cup Range(lease) \cup orphans \cup {pumpLease}

\* The table against the books.
Slots ==
  /\ Within(table)
  /\ ~stalled => \A l \in InHands : table[l] = Fresh(Me)
  /\ \A l \in Leases : table[l].pid = Me => l \in Known

QInv == TypeOK /\ Positions /\ Counts /\ Closing /\ Hands /\ Slots

-----------------------------------------------------------------------------
(* The steps, one by one.                                                   *)

\* How many calls the pump takes from the queue without a look at the next one.
LEMMA LeadingFacts ==
  ASSUME TypeOK
  PROVE  LeadingZombies \in 0 .. Len(queue)
<1> DEFINE live == {i \in DOMAIN queue : ~Zombie(queue[i])}
<1>1. Len(queue) \in Nat /\ DOMAIN queue = 1 .. Len(queue)
  BY LenProperties DEF TypeOK
<1>2. LeadingZombies = IF live = {} THEN Len(queue) ELSE Min(live) - 1
  BY DEF LeadingZombies
<1>3. live # {} => Min(live) \in live
  <2>1. live \in SUBSET Nat
    BY <1>1
  <2> HIDE DEF live
  <2> QED BY <2>1, MinFacts
<1>4. live \subseteq 1 .. Len(queue)
  BY <1>1
<1> HIDE DEF live
<1>5. CASE live = {}
  BY <1>1, <1>2, <1>5
<1>6. CASE live # {}
  <2>1. Min(live) \in 1 .. Len(queue)
    BY <1>3, <1>4, <1>6
  <2> QED BY <1>1, <1>2, <1>6, <2>1
<1> QED BY <1>5, <1>6

\* An identifier nobody knows.
LEMMA UnknownFacts ==
  ASSUME Unknown # {}
  PROVE  /\ NewLease \in Leases /\ table[NewLease] = Vacant
         /\ NewLease \notin held \cup pending \cup orphans \cup Range(lease) \cup {pumpLease}
<1>1. NewLease \in Unknown
  BY DEF NewLease
<1> QED BY <1>1 DEF Unknown

\* The constants.
LEMMA Constants ==
  /\ Me \in Processes /\ Free \notin Processes /\ NoLease \notin Leases
  /\ MaxSize \in Nat \ {0} /\ MaxQueue \in Nat \ {0} /\ DrainLimit \in Nat \ {0}
  /\ Threshold \in Nat /\ Modes \subseteq BOOLEAN
  /\ \A b \in Bounds : b.faults \in Nat /\ b.others \in Nat /\ b.callers \subseteq Calls
BY CallQueueAssumption, SlotsAssumption

\* Sets of calls are finite, whatever Calls is.
LEMMA FiniteCalls ==
  ASSUME Positions
  PROVE  /\ IsFiniteSet(Carried) /\ Cardinality(Carried) \in Nat
         /\ IsFiniteSet(Waiting) /\ Cardinality(Waiting) \in Nat
<1>1. Carried \subseteq Made /\ Waiting \subseteq Made
  BY DEF Carried, Waiting, Made, At, Positions
<1> QED BY <1>1, FS_Subset, FS_CardinalityType DEF Positions

\* Who has a lease, lease by lease.
Holding(l) == (\E c \in Carried : lease[c] = l) \/ (pump = "returning" /\ l = pumpLease)

LEMMA HandsFacts ==
  ASSUME TypeOK, Hands
  PROVE  /\ limited => \A l : l \in held <=> Holding(l)
         /\ \A l : l \in Range(lease) <=> \E c \in Calls : lease[c] = l
         /\ \A l \in pending : l \notin held /\ l # pumpLease /\ \A c \in Calls : lease[c] # l
         /\ \A c \in Calls : lease[c] # NoLease => lease[c] \in Leases
         /\ Carried \subseteq Calls
<1>1. DOMAIN lease = Calls
  BY DEF TypeOK
<1> QED BY <1>1 DEF TypeOK, Hands, Holding, Range, Carried, At

\* The leases of finitely many calls are finitely many.
LEMMA LeasesFinite ==
  ASSUME NEW S, NEW f, IsFiniteSet(S)
  PROVE  IsFiniteSet({f[c] : c \in S})
<1> DEFINE T == {f[c] : c \in S}
           g == [c \in S |-> f[c]]
<1>1. g \in [S -> T] /\ \A t \in T : \E c \in S : g[c] = t
  OBVIOUS
<1> HIDE DEF T, g
<1>2. g \in Surjection(S, T)
  BY <1>1 DEF Surjection
<1>3. IsFiniteSet(T)
  BY <1>2, FS_Surjection
<1> QED BY <1>3 DEF T

LEMMA BooksFinite ==
  ASSUME TypeOK, Positions, Hands
  PROVE  IsFiniteSet(held \cup pending)
<1>1. IsFiniteSet({lease[c] : c \in Carried})
  BY FiniteCalls, LeasesFinite
<1>2. IsFiniteSet(IF pump = "returning" THEN {pumpLease} ELSE {})
  BY FS_EmptySet, FS_Singleton
<1>3. CASE limited
  <2>1. IsFiniteSet({lease[c] : c \in Carried} \cup (IF pump = "returning" THEN {pumpLease} ELSE {}))
    BY <1>1, <1>2, FS_Union
  <2>2. IsFiniteSet(held) /\ IsFiniteSet(pending)
    BY <1>3, <2>1 DEF Hands
  <2> QED BY <2>2, FS_Union
<1>4. CASE ~limited
  <2>1. held \cup pending = pending /\ IsFiniteSet(pending)
    BY <1>4 DEF Hands
  <2> QED BY <2>1
<1> QED BY <1>3, <1>4 DEF TypeOK

\* One more call was made, or none.
LEMMA MadeFinite ==
  ASSUME Positions, NEW c, Made' \subseteq Made \cup {c}
  PROVE  IsFiniteSet(Made')
<1>1. IsFiniteSet(Made \cup {c})
  BY FS_AddElement DEF Positions
<1> QED BY <1>1, FS_Subset

\* Waking callers at the door changes nothing else.
LEMMA NotifyFacts ==
  ASSUME NEW ph \in [Calls -> Phases]
  PROVE  /\ Notify(ph) \in [Calls -> Phases]
         /\ \A c \in Calls : Notify(ph)[c] = IF ph[c] = "door" THEN "woken" ELSE ph[c]
BY DEF Notify, Phases

LEMMA WakeOneFacts ==
  ASSUME NEW ph \in [Calls -> Phases], NEW new \in WakeOne(ph)
  PROVE  /\ new \in [Calls -> Phases]
         /\ \A c \in Calls : new[c] = ph[c] \/ (ph[c] = "door" /\ new[c] = "woken")
BY DEF WakeOne, Phases

\* What a caller's exit changes.
LEMMA FinishFacts ==
  ASSUME TypeOK, NEW c \in Calls, Finish(c)
  PROVE  /\ task' = [task EXCEPT ![c] = "absent"]
         /\ phase' \in [Calls -> Phases] /\ phase'[c] = "over"
         /\ \A d \in Calls \ {c} : phase'[d] = phase[d] \/ (limited /\ phase[d] = "door" /\ phase'[d] = "woken")
         /\ liveQueued' = IF limited /\ task[c] = "waiting" THEN liveQueued - 1 ELSE liveQueued
<1>1. [phase EXCEPT ![c] = "over"] \in [Calls -> Phases]
  BY DEF TypeOK, Phases
<1>2. phase' = [phase EXCEPT ![c] = "over"] \/ (limited /\ phase' = Notify([phase EXCEPT ![c] = "over"]))
  BY DEF Finish
<1>3. /\ phase' \in [Calls -> Phases] /\ phase'[c] = "over"
      /\ \A d \in Calls \ {c} : phase'[d] = phase[d] \/ (limited /\ phase[d] = "door" /\ phase'[d] = "woken")
  <2> DEFINE left == [phase EXCEPT ![c] = "over"]
  <2>1. left \in [Calls -> Phases] /\ left[c] = "over" /\ \A d \in Calls \ {c} : left[d] = phase[d]
    BY <1>1 DEF TypeOK
  <2>2. phase' = left \/ (limited /\ phase' = Notify(left))
    BY <1>2
  <2> HIDE DEF left
  <2>3. /\ Notify(left) \in [Calls -> Phases]
        /\ \A d \in Calls : Notify(left)[d] = IF left[d] = "door" THEN "woken" ELSE left[d]
    BY <2>1, NotifyFacts
  <2> QED BY <2>1, <2>2, <2>3
<1> QED BY <1>3 DEF Finish

\* What entering the queue changes.
LEMMA PutFacts ==
  ASSUME TypeOK, Positions, NEW c \in Calls, phase[c] \in {"idle", "woken"}, Put(c)
  PROVE  /\ queue' \in Seq(Calls) /\ Len(queue') = Len(queue) + 1
         /\ ToSet(queue') = ToSet(queue) \cup {c} /\ IsInjective(queue')
         /\ phase' = [phase EXCEPT ![c] = "waiting"]
         /\ c \notin ToSet(queue) /\ stage[c] = "none"
         /\ unfinished' = unfinished + 1
<1>1. c \notin ToSet(queue) /\ stage[c] = "none"
  BY DEF Positions
<1>2. queue' = Insert(queue, c) /\ queue \in Seq(Calls) /\ IsInjective(queue)
  BY DEF Put, TypeOK, Positions
<1> QED BY <1>1, <1>2, InsertFacts DEF Put, Count

\* Removing calls from the queue and starting others: the entries of the ones
\* go, the others' are marked, and the reservations of both are returned.
LEMMA DropFacts ==
  ASSUME TypeOK, NEW zs \in SUBSET Calls, NEW started \in SUBSET Calls, DropZombies(zs, started)
  PROVE  /\ task' \in [Calls -> {"absent", "waiting", "started"}]
         /\ \A c \in Calls : task'[c] = IF c \in zs THEN "absent"
                                       ELSE IF c \in started THEN "started" ELSE task[c]
         /\ liveQueued' = liveQueued - Cardinality({c \in zs \cup started : task[c] = "waiting"})
         /\ phase' \in [Calls -> Phases]
         /\ \A d \in Calls : phase'[d] = phase[d] \/ (phase[d] = "door" /\ phase'[d] = "woken")
         /\ unfinished' = unfinished - Cardinality(zs)
<1>1. phase' = phase \/ phase' = Notify(phase)
  BY DEF DropZombies
<1>2. /\ phase' \in [Calls -> Phases]
      /\ \A d \in Calls : phase'[d] = phase[d] \/ (phase[d] = "door" /\ phase'[d] = "woken")
  BY <1>1, NotifyFacts DEF TypeOK
<1>3. task' = [c \in Calls |-> IF c \in zs THEN "absent" ELSE IF c \in started THEN "started" ELSE task[c]]
  BY DEF DropZombies
<1>4. task \in [Calls -> {"absent", "waiting", "started"}]
  BY DEF TypeOK
<1> QED BY <1>2, <1>3, <1>4 DEF DropZombies, Count

\* What the pump takes from the queue: first those it drops, then at most one
\* that it dispatches.
LEMMA DispatchFacts ==
  ASSUME TypeOK, Positions, Dispatch
  PROVE  \E n \in Nat, zs \in SUBSET Calls, found \in SUBSET Calls :
           /\ n <= Len(queue)
           /\ IsFiniteSet(zs) /\ Cardinality(zs) = n
           /\ zs \subseteq ToSet(queue) /\ found \subseteq ToSet(queue) /\ zs \cap found = {}
           /\ found = {} \/ \E c \in Calls : found = {c}
           /\ queue' \in Seq(Calls) /\ IsInjective(queue')
           /\ ToSet(queue') = ToSet(queue) \ (zs \cup found)
           /\ Len(queue') = Len(queue) - n - (IF found = {} THEN 0 ELSE 1)
           /\ DropZombies(zs, found)
           /\ stage' = [c \in Calls |-> IF c \in found THEN "dispatched" ELSE stage[c]]
           /\ lease' = [c \in Calls |-> IF c \in found THEN pumpLease ELSE lease[c]]
           /\ IF found = {} THEN pump' = "returning" /\ pumpLease' = pumpLease
              ELSE pump' = "idle" /\ pumpLease' = NoLease
<1> DEFINE n == IF LeadingZombies < DrainLimit THEN LeadingZombies ELSE DrainLimit
           zs == {queue[i] : i \in 1 .. n}
           found == IF n < DrainLimit /\ n < Len(queue) THEN {queue[n + 1]} ELSE {}
           m == n + 1 + Cardinality(found)
<1>1. /\ queue' = SubSeq(queue, m, Len(queue))
      /\ DropZombies(zs, found)
      /\ stage' = [c \in Calls |-> IF c \in found THEN "dispatched" ELSE stage[c]]
      /\ lease' = [c \in Calls |-> IF c \in found THEN pumpLease ELSE lease[c]]
      /\ IF found = {} THEN pump' = "returning" /\ pumpLease' = pumpLease
         ELSE pump' = "idle" /\ pumpLease' = NoLease
  BY DEF Dispatch
<1>2. n \in Nat /\ n <= Len(queue)
  BY LeadingFacts, Constants, LenProperties DEF TypeOK
<1> HIDE DEF n
<1>3. /\ queue \in Seq(Calls) /\ Len(queue) \in Nat /\ DOMAIN queue = 1 .. Len(queue)
      /\ \A i \in 1 .. Len(queue) : queue[i] \in Calls
      /\ IsInjective(queue)
  BY LenProperties, ElementOfSeq DEF TypeOK, Positions
<1>4. IsFiniteSet(zs) /\ Cardinality(zs) = n
  <2>1. 1 .. n \in SUBSET (DOMAIN queue)
    BY <1>2, <1>3
  <2>2. Cardinality(1 .. n) = n
    BY <1>2, FS_Interval
  <2> QED BY <1>3, <2>1, <2>2, PlacesCount
<1>5. /\ zs \in SUBSET Calls /\ found \in SUBSET Calls
      /\ zs \subseteq ToSet(queue) /\ found \subseteq ToSet(queue)
      /\ found = {} \/ (n < Len(queue) /\ found = {queue[n + 1]})
  BY <1>2, <1>3 DEF ToSet
<1>6. zs \cap found = {}
  BY <1>2, <1>3 DEF IsInjective
<1> HIDE DEF found, zs
<1>7. Cardinality(found) = IF found = {} THEN 0 ELSE 1
  BY <1>5, FS_EmptySet, FS_Singleton
<1>8. m \in Nat \ {0} /\ m <= Len(queue) + 1 /\ m = IF found = {} THEN n + 1 ELSE n + 2
  BY <1>2, <1>3, <1>5, <1>7
<1> HIDE DEF m
<1>9. /\ queue' \in Seq(Calls) /\ IsInjective(queue')
      /\ ToSet(queue') = {queue[i] : i \in m .. Len(queue)}
      /\ Len(queue') = IF m <= Len(queue) THEN Len(queue) - m + 1 ELSE 0
  <2>1. Len(queue) <= Len(queue) /\ m \in Nat \ {0}
    BY <1>3, <1>8
  <2>2. /\ SubSeq(queue, m, Len(queue)) \in Seq(Calls)
        /\ ToSet(SubSeq(queue, m, Len(queue))) = {queue[i] : i \in m .. Len(queue)}
        /\ IsInjective(SubSeq(queue, m, Len(queue)))
        /\ Len(SubSeq(queue, m, Len(queue))) = IF m <= Len(queue) THEN Len(queue) - m + 1 ELSE 0
    BY <1>3, <2>1, SliceQueue
  <2>3. queue' = SubSeq(queue, m, Len(queue))
    BY <1>1
  <2> QED BY <2>2, <2>3
<1>10. Len(queue') = Len(queue) - n - (IF found = {} THEN 0 ELSE 1)
  <2> DEFINE before == Len(queue)
             after == Len(queue')
  <2>1. n \in Nat /\ before \in Nat /\ n <= before
    BY <1>2, <1>3
  <2>2. after = IF m <= before THEN before - m + 1 ELSE 0
    BY <1>9
  <2>3. m = IF found = {} THEN n + 1 ELSE n + 2
    BY <1>8
  <2>4. found = {} \/ n < before
    BY <1>5
  <2> HIDE DEF before, after
  <2>5. CASE found = {}
    <3>1. after = before - n
      BY <2>1, <2>2, <2>3, <2>5
    <3> QED BY <2>1, <2>5, <3>1 DEF before, after
  <2>6. CASE found # {}
    <3>1. after = before - n - 1
      BY <2>1, <2>2, <2>3, <2>4, <2>6
    <3> QED BY <2>1, <2>6, <3>1 DEF before, after
  <2> QED BY <2>5, <2>6
<1>11. ToSet(queue') = ToSet(queue) \ (zs \cup found)
  <2>1. ASSUME NEW c \in ToSet(queue'), c \in zs \cup found PROVE FALSE
    <3>1. PICK i \in m .. Len(queue) : c = queue[i]
      BY <1>9
    <3>2. PICK j \in 1 .. (m - 1) : c = queue[j]
      <4>1. CASE c \in zs
        BY <1>2, <1>8, <4>1 DEF zs
      <4>2. CASE c \in found
        BY <1>2, <1>5, <1>8, <4>2
      <4> QED BY <2>1, <4>1, <4>2
    <3>3. i \in DOMAIN queue /\ j \in DOMAIN queue /\ i # j
      BY <1>3, <1>8, <3>1, <3>2
    <3> QED BY <1>3, <3>1, <3>2, <3>3 DEF IsInjective
  <2>2. ASSUME NEW c \in ToSet(queue), c \notin zs \cup found PROVE c \in ToSet(queue')
    <3>1. PICK i \in 1 .. Len(queue) : c = queue[i]
      BY <1>3 DEF ToSet
    <3>2. i \notin 1 .. n
      BY <2>2, <3>1 DEF zs
    <3>3. found # {} => i # n + 1
      BY <1>5, <2>2, <3>1
    <3>4. i \in m .. Len(queue)
      BY <1>2, <1>3, <1>8, <3>1, <3>2, <3>3
    <3> QED BY <1>9, <3>1, <3>4
  <2>3. ToSet(queue') \subseteq ToSet(queue)
    <3>1. m .. Len(queue) \subseteq DOMAIN queue
      BY <1>3, <1>8
    <3>2. ToSet(queue) = {queue[i] : i \in DOMAIN queue}
      BY DEF ToSet
    <3> QED BY <1>9, <3>1, <3>2
  <2> QED BY <2>1, <2>2, <2>3
<1>12. found = {} \/ \E c \in Calls : found = {c}
  BY <1>5
<1> n \in Nat /\ zs \in SUBSET Calls /\ found \in SUBSET Calls
  BY <1>2, <1>5
<1> WITNESS n \in Nat, zs \in SUBSET Calls, found \in SUBSET Calls
<1> QED BY <1>1, <1>2, <1>4, <1>5, <1>6, <1>9, <1>10, <1>11, <1>12

\* What compaction takes from the queue.
LEMMA CompactFacts ==
  ASSUME TypeOK, Positions,
         queue' = Pick(queue, {i \in DOMAIN queue : ~Zombie(queue[i])}),
         DropZombies({c \in Range(queue) : Zombie(c)}, {})
  PROVE  \E zs \in SUBSET Calls :
           /\ IsFiniteSet(zs) /\ zs \subseteq ToSet(queue)
           /\ queue' \in Seq(Calls) /\ IsInjective(queue')
           /\ ToSet(queue') = ToSet(queue) \ zs
           /\ Len(queue') = Len(queue) - Cardinality(zs)
           /\ DropZombies(zs, {})
<1> DEFINE P == {i \in DOMAIN queue : ~Zombie(queue[i])}
           Z == DOMAIN queue \ P
           zs == {queue[i] : i \in Z}
<1>1. queue \in Seq(Calls) /\ IsInjective(queue)
  BY DEF TypeOK, Positions
<1>2. P \in SUBSET (DOMAIN queue) /\ Z \in SUBSET (DOMAIN queue) /\ DOMAIN queue \ P = Z
  OBVIOUS
<1>3. {c \in Range(queue) : Zombie(c)} = zs
  BY DEF Range
<1>4. ToSet(queue) = {queue[i] : i \in DOMAIN queue}
  BY DEF ToSet
<1>5. queue' = Pick(queue, P)
  OBVIOUS
<1>6. DropZombies(zs, {})
  BY <1>3
<1> HIDE DEF P
<1>7. /\ queue' \in Seq(Calls) /\ IsInjective(queue')
      /\ ToSet(queue') = {queue[i] : i \in P}
      /\ Len(queue') = Cardinality(P)
  <2>1. /\ Pick(queue, P) \in Seq(Calls) /\ IsInjective(Pick(queue, P))
        /\ ToSet(Pick(queue, P)) = {queue[i] : i \in P}
        /\ Len(Pick(queue, P)) = Cardinality(P)
    <3>1. P \in SUBSET (DOMAIN queue)
      BY <1>2
    <3> QED BY <1>1, <3>1, PickFacts
  <2> QED BY <1>5, <2>1
<1>8. zs \subseteq ToSet(queue) /\ ToSet(queue') = ToSet(queue) \ zs
  <2>1. \A i \in P, j \in Z : queue[i] # queue[j]
    BY <1>1, <1>2 DEF IsInjective
  <2> QED BY <1>2, <1>4, <1>7, <2>1
<1>9. IsFiniteSet(zs) /\ Cardinality(zs) = Cardinality(Z)
  <2>1. Z \in SUBSET (DOMAIN queue)
    BY <1>2
  <2> HIDE DEF Z
  <2> QED BY <1>1, <2>1, PlacesCount
<1>10. Cardinality(P) + Cardinality(Z) = Len(queue) /\ Cardinality(P) \in Nat /\ Len(queue) \in Nat
  <2> HIDE DEF Z
  <2> QED BY <1>1, <1>2, PlacesCount
<1>11. Cardinality(Z) \in Nat
  <2> HIDE DEF Z
  <2> QED BY <1>1, <1>2, PlacesCount
<1>12. Len(queue') = Len(queue) - Cardinality(zs)
  BY <1>7, <1>9, <1>10, <1>11
<1>13. zs \subseteq Calls
  BY <1>1, <1>8, QueueElements
<1> HIDE DEF zs
<1> QED BY <1>6, <1>7, <1>8, <1>9, <1>12, <1>13

\* Where a call stands.
LEMMA StepPositions ==
  ASSUME QInv, Next
  PROVE  Positions'
<1> USE DEF QInv
<1> DEFINE pos == <<limited, phase, task, queue, stage>>
<1>1. ASSUME UNCHANGED pos PROVE Positions'
  BY <1>1 DEF Positions, Made
<1>2. CASE Ask \/ AskFails \/ ReturnUnused
  BY <1>1, <1>2 DEF Ask, AskFails, ReturnUnused, callVars, queueVars, runVars
<1>3. CASE JoinTimesOut \/ Gathered \/ StopHealthCheck \/ ReturnLeases
  BY <1>1, <1>3 DEF JoinTimesOut, Gathered, StopHealthCheck, ReturnLeases, callVars, queueVars, runVars
<1>4. CASE (\E p \in Processes : OtherAcquires(p) \/ OtherDies(p)) \/ OtherReaps \/ Stall
           \/ (\E l \in Leases : OtherReleases(l) \/ Age(l))
  BY <1>1, <1>4 DEF OtherAcquires, OtherDies, OtherReaps, Stall, OtherReleases, Age, callVars, queueVars, runVars
\* Entering the queue.
<1>5. ASSUME NEW c \in Calls, phase[c] \in {"idle", "woken"}, Put(c),
             task' = [task EXCEPT ![c] = "waiting"] \/ task' = task,
             UNCHANGED <<limited, stage>>
      PROVE  Positions'
  <2>1. /\ ToSet(queue') = ToSet(queue) \cup {c} /\ IsInjective(queue')
        /\ phase' = [phase EXCEPT ![c] = "waiting"]
        /\ c \notin ToSet(queue) /\ stage[c] = "none"
    BY <1>5, PutFacts
  <2>2. Made' \subseteq Made \cup {c}
    BY <2>1 DEF Made, TypeOK
  <2>3. IsFiniteSet(Made')
    BY <2>2, MadeFinite
  <2> QED BY <1>5, <2>1, <2>3 DEF Positions, TypeOK
\* A caller's exit.
<1>6. ASSUME NEW c \in Calls, phase[c] \in {"waiting", "cleanup"}, Finish(c),
             UNCHANGED <<limited, queue, stage>>
      PROVE  Positions'
  <2>1. /\ task' = [task EXCEPT ![c] = "absent"]
        /\ phase' \in [Calls -> Phases] /\ phase'[c] = "over"
        /\ \A d \in Calls \ {c} : phase'[d] = phase[d] \/ (limited /\ phase[d] = "door" /\ phase'[d] = "woken")
    BY <1>6, FinishFacts
  <2>2. Made' \subseteq Made \cup {c}
    BY <2>1 DEF Made, TypeOK
  <2>3. IsFiniteSet(Made')
    BY <2>2, MadeFinite
  <2> QED BY <1>6, <2>1, <2>3 DEF Positions, TypeOK
<1>7. ASSUME NEW c \in Calls, Call(c) PROVE Positions'
  <2>1. phase[c] = "idle" /\ UNCHANGED <<limited, stage>>
    BY <1>7 DEF Call, runVars
  <2>2. CASE ~Accepting /\ phase' = [phase EXCEPT ![c] = "over"] /\ UNCHANGED <<task, queueVars>>
    <3>1. Made' \subseteq Made \cup {c}
      BY <2>2 DEF Made, TypeOK
    <3>2. IsFiniteSet(Made')
      BY <3>1, MadeFinite
    <3> QED BY <2>1, <2>2, <3>2 DEF Positions, TypeOK, queueVars
  <2>3. CASE Put(c) /\ task' = [task EXCEPT ![c] = "waiting"]
    BY <1>5, <2>1, <2>3
  <2>4. CASE /\ phase' = [phase EXCEPT ![c] = "door"]
             /\ task' = [task EXCEPT ![c] = IF limited THEN "absent" ELSE "waiting"]
             /\ UNCHANGED queueVars
    <3>1. Made' \subseteq Made \cup {c}
      BY <2>4 DEF Made, TypeOK
    <3>2. IsFiniteSet(Made')
      BY <3>1, MadeFinite
    <3> QED BY <2>1, <2>4, <3>2 DEF Positions, TypeOK, queueVars
  <2> QED BY <1>7, <2>2, <2>3, <2>4 DEF Call, Admit
<1>8. ASSUME NEW c \in Calls, PassDoor(c) PROVE Positions'
  <2>1. phase[c] = "woken" /\ UNCHANGED <<limited, stage>>
    BY <1>8 DEF PassDoor, runVars
  <2>2. CASE phase' \in {[phase EXCEPT ![c] = "over"], [phase EXCEPT ![c] = "door"]} /\ UNCHANGED <<task, queueVars>>
    <3>1. Made' \subseteq Made \cup {c}
      BY <2>2 DEF Made, TypeOK
    <3>2. IsFiniteSet(Made')
      BY <3>1, MadeFinite
    <3> QED BY <2>1, <2>2, <3>2 DEF Positions, TypeOK, queueVars
  <2>3. CASE Put(c) /\ (task' = [task EXCEPT ![c] = "waiting"] \/ task' = task)
    BY <1>5, <2>1, <2>3
  <2> QED BY <1>8, <2>2, <2>3 DEF PassDoor, Admit
<1>9. ASSUME NEW c \in Calls, LeaveDoor(c) PROVE Positions'
  <2> DEFINE left == [phase EXCEPT ![c] = "over"]
  <2>1. /\ phase[c] \in {"door", "woken"} /\ task' = [task EXCEPT ![c] = "absent"]
        /\ UNCHANGED <<limited, queue, stage>>
        /\ phase' = left \/ phase' \in WakeOne(left)
    BY <1>9 DEF LeaveDoor, queueVars, runVars
  <2>2. left \in [Calls -> Phases] /\ left[c] = "over" /\ \A d \in Calls \ {c} : left[d] = phase[d]
    BY DEF TypeOK, Phases
  <2> HIDE DEF left
  <2>3. /\ phase' \in [Calls -> Phases]
        /\ \A d \in Calls : phase'[d] = left[d] \/ (left[d] = "door" /\ phase'[d] = "woken")
    BY <2>1, <2>2, WakeOneFacts
  <2>4. Made' \subseteq Made \cup {c}
    BY <2>1, <2>2, <2>3 DEF Made
  <2>5. IsFiniteSet(Made')
    BY <2>4, MadeFinite
  <2> QED BY <2>1, <2>2, <2>3, <2>5 DEF Positions, TypeOK
<1>10. ASSUME NEW c \in Calls, Return(c) \/ Cancel(c) \/ CleanupEnds(c) PROVE Positions'
  BY <1>6, <1>10 DEF Return, Cancel, CleanupEnds, runVars
<1>11. ASSUME NEW c \in Calls, Timeout(c) PROVE Positions'
  <2>1. /\ phase[c] = "waiting" /\ phase' = [phase EXCEPT ![c] = "cleanup"]
        /\ UNCHANGED <<limited, task, queue, stage>>
    BY <1>11 DEF Timeout, queueVars, runVars
  <2>2. Made' \subseteq Made \cup {c}
    BY <2>1 DEF Made, TypeOK
  <2>3. IsFiniteSet(Made')
    BY <2>2, MadeFinite
  <2> QED BY <2>1, <2>3 DEF Positions, TypeOK
<1>12. CASE Take
  <2> DEFINE c == Head(queue)
  <2>1. /\ ~limited /\ queue # <<>> /\ queue' = Tail(queue) /\ phase' \in WakeOne(phase) /\ limited' = limited
        /\ \/ task' = [task EXCEPT ![c] = "absent"] /\ UNCHANGED stage
           \/ task' = [task EXCEPT ![c] = "started"] /\ stage' = [stage EXCEPT ![c] = "running"]
    BY <1>12 DEF Take
  <2>2. c \in Calls /\ c \in ToSet(queue) /\ IsInjective(queue') /\ ToSet(queue') = ToSet(queue) \ {c}
    BY <2>1, TailQueue DEF TypeOK, Positions
  <2> HIDE DEF c
  <2>3. /\ phase' \in [Calls -> Phases]
        /\ \A d \in Calls : phase'[d] = phase[d] \/ (phase[d] = "door" /\ phase'[d] = "woken")
    BY <2>1, WakeOneFacts DEF TypeOK
  <2>4. Made' \subseteq Made \cup {c}
    BY <2>3 DEF Made
  <2>5. IsFiniteSet(Made')
    BY <2>4, MadeFinite
  <2>6. /\ stage[c] = "none" /\ phase[c] \in {"waiting", "cleanup", "over"}
        /\ \A d \in Calls \ {c} : stage'[d] = stage[d] /\ task'[d] = task[d]
        /\ stage'[c] \in {"none", "running"}
        /\ task'[c] \in {"absent", "started"}
    BY <2>1, <2>2 DEF Positions, TypeOK
  <2>7. \A d \in Calls : d \in ToSet(queue') \/ stage'[d] # "none" => phase'[d] \in {"waiting", "cleanup", "over"}
    BY <2>2, <2>3, <2>6 DEF Positions
  <2>8. \A d \in ToSet(queue') : stage'[d] = "none"
    <3>1. ToSet(queue) \subseteq Calls
      BY QueueElements DEF TypeOK
    <3> QED BY <2>2, <2>6, <3>1 DEF Positions
  <2>9. \A d \in Calls : phase'[d] = "idle" => task'[d] = "absent"
    BY <2>3, <2>6 DEF Positions
  <2>10. \A d \in Calls : stage'[d] \in {"none", "running"}
    BY <2>1, <2>6 DEF Positions
  <2> QED BY <2>1, <2>2, <2>5, <2>7, <2>8, <2>9, <2>10 DEF Positions
<1>13. ASSUME NEW zs \in SUBSET Calls, NEW found \in SUBSET Calls,
              zs \subseteq ToSet(queue), found \subseteq ToSet(queue), zs \cap found = {},
              IsInjective(queue'), ToSet(queue') = ToSet(queue) \ (zs \cup found),
              DropZombies(zs, found), limited, limited' = limited,
              stage' = [c \in Calls |-> IF c \in found THEN "dispatched" ELSE stage[c]]
       PROVE  Positions'
  <2>1. /\ task' \in [Calls -> {"absent", "waiting", "started"}]
        /\ \A c \in Calls : task'[c] = IF c \in zs THEN "absent"
                                      ELSE IF c \in found THEN "started" ELSE task[c]
        /\ phase' \in [Calls -> Phases]
        /\ \A d \in Calls : phase'[d] = phase[d] \/ (phase[d] = "door" /\ phase'[d] = "woken")
    BY <1>13, DropFacts
  <2>2. Made' \subseteq Made \cup {0}
    BY <2>1 DEF Made
  <2>3. IsFiniteSet(Made')
    BY <2>2, MadeFinite
  <2>4. \A c \in Calls : c \in ToSet(queue) => phase[c] \in {"waiting", "cleanup", "over"} /\ stage[c] = "none"
    BY DEF Positions
  <2>5. \A c \in Calls : stage'[c] = IF c \in found THEN "dispatched" ELSE stage[c]
    BY <1>13
  <2>6. ToSet(queue) \subseteq Calls
    BY QueueElements DEF TypeOK
  <2>7. \A d \in Calls : d \in ToSet(queue') \/ stage'[d] # "none" => phase'[d] \in {"waiting", "cleanup", "over"}
    BY <1>13, <2>1, <2>4, <2>5 DEF Positions
  <2>8. \A d \in ToSet(queue') : stage'[d] = "none"
    BY <1>13, <2>4, <2>5, <2>6
  <2>9. \A d \in Calls : phase'[d] \in {"idle", "door", "woken"} => task'[d] = "absent"
    <3>1. \A d \in Calls : phase[d] \in {"idle", "door", "woken"} => task[d] = "absent" /\ d \notin found
      BY <1>13, <2>4 DEF Positions
    <3>2. \A d \in Calls : phase'[d] \in {"idle", "door", "woken"} => phase[d] \in {"idle", "door", "woken"}
      BY <2>1
    <3> QED BY <2>1, <3>1, <3>2
  <2>10. \A d \in Calls : stage'[d] # "none" => task'[d] # "waiting"
    BY <1>13, <2>1, <2>5 DEF Positions
  <2> QED BY <1>13, <2>3, <2>7, <2>8, <2>9, <2>10 DEF Positions
<1>14. CASE Dispatch
  <2>1. limited /\ limited' = limited
    BY <1>14 DEF Dispatch, Hands
  <2> QED BY <1>13, <1>14, <2>1, DispatchFacts
<1>15. ASSUME NEW c \in Calls, PickUp(c) \/ RunEnds(c) \/ GiveBack(c) \/ DrainDispatched(c) PROVE Positions'
  <2>1. /\ UNCHANGED <<limited, phase, queue>> /\ stage[c] # "none"
        /\ \/ stage' = [stage EXCEPT ![c] = "running"]
           \/ limited /\ stage' = [stage EXCEPT ![c] = "releasing"]
           \/ stage' = [stage EXCEPT ![c] = "none"]
        /\ task' = task \/ task' = [task EXCEPT ![c] = "absent"]
    BY <1>15 DEF PickUp, RunEnds, GiveBack, DrainDispatched, EndRun, callVars, queueVars
  <2>2. Made' \subseteq Made \cup {c}
    BY <2>1 DEF Made
  <2>3. IsFiniteSet(Made')
    BY <2>2, MadeFinite
  <2>4. /\ \A d \in Calls \ {c} : stage'[d] = stage[d] /\ task'[d] = task[d]
        /\ stage'[c] \in {"none", "running"} \/ limited
        /\ task'[c] \in {task[c], "absent"}
    BY <2>1 DEF TypeOK
  <2>5. ToSet(queue) \subseteq Calls /\ c \notin ToSet(queue)
    BY <2>1, QueueElements DEF Positions, TypeOK
  <2> QED BY <2>1, <2>3, <2>4, <2>5 DEF Positions
<1>16. ASSUME NEW c \in Calls, AnswerStuck(c) PROVE Positions'
  <2>1. UNCHANGED <<limited, phase, queue, stage>> /\ task' = [task EXCEPT ![c] = "absent"]
    BY <1>16 DEF AnswerStuck, queueVars, runVars
  <2>2. Made' = Made
    BY <2>1 DEF Made
  <2> QED BY <2>1, <2>2 DEF Positions, TypeOK
<1>17. CASE Maintain
  <2>1. limited /\ UNCHANGED <<limited, stage>>
    BY <1>17 DEF Maintain, runVars
  <2>2. CASE UNCHANGED <<queue, unfinished, drained, liveQueued, task, phase>>
    BY <1>1, <2>1, <2>2
  <2>3. CASE /\ queue' = Pick(queue, {i \in DOMAIN queue : ~Zombie(queue[i])})
             /\ DropZombies({c \in Range(queue) : Zombie(c)}, {})
    <3>1. PICK zs \in SUBSET Calls :
             /\ zs \subseteq ToSet(queue) /\ IsInjective(queue')
             /\ ToSet(queue') = ToSet(queue) \ zs
             /\ DropZombies(zs, {})
      BY <2>3, CompactFacts
    <3>2. stage' = [c \in Calls |-> IF c \in {} THEN "dispatched" ELSE stage[c]]
      BY <2>1 DEF TypeOK
    <3> QED BY <1>13, <2>1, <3>1, <3>2
  <2> QED BY <1>17, <2>2, <2>3 DEF Maintain
<1>18. CASE \E graceful \in BOOLEAN : Shutdown(graceful)
  <2>1. UNCHANGED <<limited, task, queue, stage>> /\ (phase' = phase \/ phase' = Notify(phase))
    BY <1>18 DEF Shutdown, queueVars, runVars
  <2>2. /\ phase' \in [Calls -> Phases]
        /\ \A d \in Calls : phase'[d] = phase[d] \/ (phase[d] = "door" /\ phase'[d] = "woken")
    BY <2>1, NotifyFacts DEF TypeOK
  <2>3. Made' \subseteq Made \cup {0}
    BY <2>2 DEF Made
  <2>4. IsFiniteSet(Made')
    BY <2>3, MadeFinite
  <2> QED BY <2>1, <2>2, <2>4 DEF Positions, TypeOK
<1>19. CASE JoinReturns
  <2>1. /\ UNCHANGED <<limited, phase, task, queue>>
        /\ stage' = [c \in Calls |-> IF stage[c] = "releasing" THEN "none" ELSE stage[c]]
    BY <1>19 DEF JoinReturns, StopWorkers, callVars, queueVars
  <2>2. Made' = Made
    BY <2>1 DEF Made
  <2>3. \A c \in Calls : stage'[c] = stage[c] \/ (stage[c] # "none" /\ stage'[c] = "none")
    BY <2>1
  <2>4. ToSet(queue) \subseteq Calls
    BY QueueElements DEF TypeOK
  <2> QED BY <2>1, <2>2, <2>3, <2>4 DEF Positions
<1>20. CASE ForceDrain
  <2>1. PICK woken \in SUBSET {c \in Calls : phase[c] = "door" /\ ~limited} :
          phase' = [c \in Calls |-> IF c \in woken THEN "woken" ELSE phase[c]]
    BY <1>20 DEF ForceDrain
  <2>2. /\ limited' = limited /\ queue' = <<>> /\ task' = [c \in Calls |-> "absent"]
        /\ stage' = [c \in Calls |-> IF stage[c] = "releasing" THEN "none" ELSE stage[c]]
    BY <1>20 DEF ForceDrain, StopWorkers
  <2>3. IsInjective(queue') /\ ToSet(queue') = {}
    BY <2>2, EmptyQueue
  <2>4. Made' \subseteq Made \cup {0}
    BY <2>1 DEF Made
  <2>5. IsFiniteSet(Made')
    BY <2>4, MadeFinite
  <2>6. \A c \in Calls : phase'[c] = phase[c] \/ (~limited /\ phase[c] = "door" /\ phase'[c] = "woken")
    BY <2>1
  <2> QED BY <2>2, <2>3, <2>5, <2>6 DEF Positions, TypeOK
<1> QED BY <1>2, <1>3, <1>4, <1>7, <1>8, <1>9, <1>10, <1>11, <1>12, <1>14, <1>15, <1>16, <1>17, <1>18, <1>19, <1>20
        DEF Next, Caller, Worker, Pump, Ending

\* One more, one less.
LEMMA OneMore ==
  ASSUME NEW S, NEW x, IsFiniteSet(S)
  PROVE  /\ Cardinality(S) \in Nat
         /\ x \notin S => Cardinality(S \cup {x}) = Cardinality(S) + 1
         /\ x \in S => Cardinality(S \ {x}) = Cardinality(S) - 1
BY FS_AddElement, FS_RemoveElement, FS_CardinalityType

\* The unfinished tasks of the physical queue.
LEMMA StepUnfinished ==
  ASSUME QInv, Next
  PROVE  unfinished' = Len(queue') + Cardinality(Carried') /\ Len(queue') \in Nat
<1> USE DEF QInv
<1> DEFINE Exact == unfinished' = Len(queue') + Cardinality(Carried') /\ Len(queue') \in Nat
<1>1. /\ unfinished = Len(queue) + Cardinality(Carried) /\ unfinished \in Nat
      /\ queue \in Seq(Calls) /\ Len(queue) \in Nat
      /\ IsFiniteSet(Carried) /\ Cardinality(Carried) \in Nat
  BY LenProperties, FiniteCalls DEF Counts, TypeOK
<1>2. ASSUME UNCHANGED <<queue, unfinished>>, Carried' = Carried PROVE Exact
  BY <1>1, <1>2
<1>3. stage' = stage => Carried' = Carried
  BY DEF Carried, At
<1> SUFFICES Exact
  OBVIOUS
<1> HIDE DEF Exact
<1>4. CASE Ask \/ AskFails \/ ReturnUnused
  BY <1>2, <1>3, <1>4 DEF Ask, AskFails, ReturnUnused, callVars, queueVars, runVars
<1>5. CASE JoinTimesOut \/ Gathered \/ StopHealthCheck \/ ReturnLeases
  BY <1>2, <1>3, <1>5 DEF JoinTimesOut, Gathered, StopHealthCheck, ReturnLeases, callVars, queueVars, runVars
<1>6. CASE (\E p \in Processes : OtherAcquires(p) \/ OtherDies(p)) \/ OtherReaps \/ Stall
           \/ (\E l \in Leases : OtherReleases(l) \/ Age(l))
  BY <1>2, <1>3, <1>6 DEF OtherAcquires, OtherDies, OtherReaps, Stall, OtherReleases, Age, callVars, queueVars, runVars
<1>7. ASSUME NEW c \in Calls, phase[c] \in {"idle", "woken"}, Put(c), UNCHANGED stage PROVE Exact
  BY <1>1, <1>3, <1>7, PutFacts DEF Exact
<1>8. ASSUME NEW c \in Calls, Call(c) \/ PassDoor(c) PROVE Exact
  <2>1. phase[c] \in {"idle", "woken"} /\ UNCHANGED stage
    BY <1>8 DEF Call, PassDoor, runVars
  <2>2. Put(c) \/ UNCHANGED queueVars
    BY <1>8 DEF Call, PassDoor, Admit
  <2> QED BY <1>2, <1>3, <1>7, <2>1, <2>2 DEF queueVars
<1>9. ASSUME NEW c \in Calls, LeaveDoor(c) \/ Return(c) \/ Cancel(c) \/ CleanupEnds(c) \/ Timeout(c) \/ AnswerStuck(c)
      PROVE  Exact
  BY <1>2, <1>3, <1>9 DEF LeaveDoor, Return, Cancel, CleanupEnds, Timeout, AnswerStuck, queueVars, runVars
<1>10. CASE Take
  <2> DEFINE c == Head(queue)
  <2>1. /\ queue # <<>> /\ queue' = Tail(queue)
        /\ \/ unfinished' = unfinished - 1 /\ stage' = stage
           \/ unfinished' = unfinished /\ stage' = [stage EXCEPT ![c] = "running"]
    BY <1>10 DEF Take, Count
  <2>2. c \in Calls /\ c \in ToSet(queue)
    BY <1>1, <2>1, TailQueue
  <2>3. Len(queue') = Len(queue) - 1 /\ Len(queue) # 0
    BY <1>1, <2>1, HeadTailProperties, EmptySeq
  <2> HIDE DEF c
  <2>4. c \notin Carried
    BY <2>2 DEF Positions, Carried, At
  <2>5. CASE unfinished' = unfinished - 1 /\ stage' = stage
    BY <1>1, <1>3, <2>3, <2>5 DEF Exact
  <2>6. CASE unfinished' = unfinished /\ stage' = [stage EXCEPT ![c] = "running"]
    <3>1. Carried' = Carried \cup {c}
      BY <2>2, <2>6 DEF Carried, At, TypeOK
    <3>2. Cardinality(Carried') = Cardinality(Carried) + 1
      BY <1>1, <2>4, <3>1, OneMore
    <3> QED BY <1>1, <2>3, <2>6, <3>2 DEF Exact
  <2> QED BY <2>1, <2>5, <2>6
<1>11. CASE Dispatch
  <2>1. PICK n \in Nat, zs \in SUBSET Calls, found \in SUBSET Calls :
           /\ n <= Len(queue)
           /\ IsFiniteSet(zs) /\ Cardinality(zs) = n
           /\ found \subseteq ToSet(queue)
           /\ found = {} \/ \E c \in Calls : found = {c}
           /\ queue' \in Seq(Calls)
           /\ Len(queue') = Len(queue) - n - (IF found = {} THEN 0 ELSE 1)
           /\ DropZombies(zs, found)
           /\ stage' = [c \in Calls |-> IF c \in found THEN "dispatched" ELSE stage[c]]
    BY <1>11, DispatchFacts
  <2>2. unfinished' = unfinished - n
    BY <2>1, DropFacts
  <2>3. Carried' = Carried \cup found
    BY <2>1 DEF Carried, At
  <2>4. Cardinality(Carried') = Cardinality(Carried) + (IF found = {} THEN 0 ELSE 1)
    <3>1. CASE found = {}
      BY <1>1, <2>3, <3>1
    <3>2. ASSUME NEW c \in Calls, found = {c} PROVE Cardinality(Carried') = Cardinality(Carried) + 1
      <4>1. c \notin Carried
        BY <2>1, <3>2 DEF Positions, Carried, At
      <4> QED BY <1>1, <2>3, <3>2, <4>1, OneMore
    <3> QED BY <2>1, <3>1, <3>2
  <2>5. Len(queue') \in Nat
    BY <2>1, LenProperties
  <2> QED BY <1>1, <2>1, <2>2, <2>4, <2>5 DEF Exact
<1>12. ASSUME NEW c \in Calls, c \in Carried, unfinished' = unfinished - 1, UNCHANGED queue,
              Carried' = Carried \ {c}
       PROVE  Exact
  <2>1. Cardinality(Carried') = Cardinality(Carried) - 1
    BY <1>1, <1>12, OneMore
  <2> QED BY <1>1, <1>12, <2>1 DEF Exact
<1>13. ASSUME NEW c \in Calls, PickUp(c) PROVE Exact
  <2>1. stage[c] = "dispatched" /\ UNCHANGED queue
    BY <1>13 DEF PickUp
  <2>2. CASE EndRun(c)
    <3>1. /\ unfinished' = unfinished - 1
          /\ stage' = [stage EXCEPT ![c] = IF limited THEN "releasing" ELSE "none"]
      BY <2>2 DEF EndRun, Count
    <3>2. c \in Carried /\ Carried' = Carried \ {c}
      BY <2>1, <3>1 DEF Carried, At, TypeOK
    <3> QED BY <1>12, <2>1, <3>1, <3>2
  <2>3. CASE stage' = [stage EXCEPT ![c] = "running"] /\ UNCHANGED unfinished
    <3>1. Carried' = Carried
      BY <2>1, <2>3 DEF Carried, At, TypeOK
    <3> QED BY <1>2, <2>1, <2>3, <3>1
  <2> QED BY <1>13, <2>2, <2>3 DEF PickUp
<1>14. ASSUME NEW c \in Calls, RunEnds(c) \/ DrainDispatched(c) PROVE Exact
  <2>1. /\ stage[c] \in {"dispatched", "running"} /\ UNCHANGED queue /\ unfinished' = unfinished - 1
        /\ \/ stage' = [stage EXCEPT ![c] = IF limited THEN "releasing" ELSE "none"]
           \/ stage' = [stage EXCEPT ![c] = "none"]
    BY <1>14 DEF RunEnds, DrainDispatched, EndRun, Count
  <2>2. c \in Carried /\ Carried' = Carried \ {c}
    BY <2>1 DEF Carried, At, TypeOK
  <2> QED BY <1>12, <2>1, <2>2
<1>15. ASSUME NEW c \in Calls, GiveBack(c) PROVE Exact
  <2>1. stage[c] = "releasing" /\ stage' = [stage EXCEPT ![c] = "none"] /\ UNCHANGED <<queue, unfinished>>
    BY <1>15 DEF GiveBack, queueVars
  <2>2. Carried' = Carried
    BY <2>1 DEF Carried, At, TypeOK
  <2> QED BY <1>2, <2>1, <2>2
<1>16. CASE Maintain
  <2>1. Carried' = Carried
    BY <1>3, <1>16 DEF Maintain, runVars
  <2>2. CASE UNCHANGED <<queue, unfinished, drained, liveQueued, task, phase>>
    BY <1>2, <2>1, <2>2
  <2>3. CASE /\ queue' = Pick(queue, {i \in DOMAIN queue : ~Zombie(queue[i])})
             /\ DropZombies({c \in Range(queue) : Zombie(c)}, {})
    <3>1. PICK zs \in SUBSET Calls :
             /\ IsFiniteSet(zs) /\ queue' \in Seq(Calls)
             /\ Len(queue') = Len(queue) - Cardinality(zs)
             /\ DropZombies(zs, {})
      BY <2>3, CompactFacts
    <3>2. unfinished' = unfinished - Cardinality(zs)
      BY <3>1, DropFacts
    <3>3. Cardinality(zs) \in Nat /\ Len(queue') \in Nat
      BY <3>1, FS_CardinalityType, LenProperties
    <3> QED BY <1>1, <2>1, <3>1, <3>2, <3>3 DEF Exact
  <2> QED BY <1>16, <2>2, <2>3 DEF Maintain
<1>17. CASE \E graceful \in BOOLEAN : Shutdown(graceful)
  BY <1>2, <1>3, <1>17 DEF Shutdown, queueVars, runVars
<1>18. stage' = [c \in Calls |-> IF stage[c] = "releasing" THEN "none" ELSE stage[c]] => Carried' = Carried
  BY DEF Carried, At
<1>19. CASE JoinReturns
  BY <1>2, <1>18, <1>19 DEF JoinReturns, StopWorkers, queueVars
<1>20. CASE ForceDrain
  <2>1. queue' = <<>> /\ unfinished' = unfinished - Len(queue) /\ Carried' = Carried
    BY <1>18, <1>20 DEF ForceDrain, StopWorkers, Count
  <2>2. Len(queue') = 0
    BY <2>1
  <2> QED BY <1>1, <2>1, <2>2 DEF Exact
<1> QED
  BY <1>4, <1>5, <1>6, <1>8, <1>9, <1>10, <1>11, <1>13, <1>14, <1>15, <1>16, <1>17, <1>19, <1>20
     DEF Next, Caller, Worker, Pump, Ending

\* The reservations.
Reserved ==
  /\ liveQueued \in Nat
  /\ ~limited => liveQueued = 0
  /\ limited => liveQueued <= MaxQueue /\ Cardinality(Waiting) <= liveQueued
  /\ limited /\ shut \in {"no", "join", "force"} => liveQueued = Cardinality(Waiting)

LEMMA StepReserved ==
  ASSUME QInv, Next
  PROVE  Reserved'
<1> USE DEF QInv
<1>1. /\ Reserved /\ limited \in BOOLEAN
      /\ IsFiniteSet(Waiting) /\ Cardinality(Waiting) \in Nat
      /\ MaxQueue \in Nat /\ liveQueued \in Nat
  BY FiniteCalls, Constants DEF Counts, Reserved, TypeOK
<1>2. ASSUME UNCHANGED <<limited, liveQueued>>, limited => Waiting' = Waiting,
             shut' \in {"no", "join", "force"} => shut \in {"no", "join", "force"}
      PROVE  Reserved'
  BY <1>1, <1>2 DEF Reserved
<1>3. task' = task => Waiting' = Waiting
  BY DEF Waiting
<1>4. shut' = shut => (shut' \in {"no", "join", "force"} => shut \in {"no", "join", "force"})
  OBVIOUS
\* Reservations are given back one for one.
<1>5. ASSUME NEW R \in SUBSET Waiting, limited, limited' = limited, shut' = shut,
             liveQueued' = liveQueued - Cardinality(R), Waiting' = Waiting \ R
      PROVE  Reserved'
  <2>1. Cardinality(Waiting \cap R) = Cardinality(R) /\ Cardinality(R) \in Nat /\ Cardinality(R) <= Cardinality(Waiting)
    <3>1. Waiting \cap R = R
      OBVIOUS
    <3> QED BY <1>1, <3>1, FS_Subset, FS_CardinalityType
  <2>2. Cardinality(Waiting') = Cardinality(Waiting) - Cardinality(R)
    <3>1. Cardinality(Waiting \ R) = Cardinality(Waiting) - Cardinality(Waiting \cap R)
      BY <1>1, FS_Difference
    <3> QED BY <1>5, <2>1, <3>1
  <2> QED BY <1>1, <1>5, <2>1, <2>2 DEF Reserved
<1>6. CASE Ask \/ AskFails \/ ReturnUnused
  BY <1>2, <1>3, <1>6 DEF Ask, AskFails, ReturnUnused, callVars, queueVars
<1>7. CASE JoinTimesOut \/ Gathered \/ StopHealthCheck \/ ReturnLeases
  BY <1>2, <1>3, <1>7 DEF JoinTimesOut, Gathered, StopHealthCheck, ReturnLeases, callVars, queueVars
<1>8. CASE (\E p \in Processes : OtherAcquires(p) \/ OtherDies(p)) \/ OtherReaps \/ Stall
           \/ (\E l \in Leases : OtherReleases(l) \/ Age(l))
  BY <1>2, <1>3, <1>8 DEF OtherAcquires, OtherDies, OtherReaps, Stall, OtherReleases, Age, callVars, queueVars
<1>9. ASSUME NEW c \in Calls, phase[c] \in {"idle", "woken"}, Admit(c), limited, HasCapacity,
             UNCHANGED <<limited, shut>>
      PROVE  Reserved'
  <2>1. liveQueued' = liveQueued + 1 /\ task' = [task EXCEPT ![c] = "waiting"] /\ liveQueued < MaxQueue
    BY <1>9 DEF Admit, HasCapacity
  <2>2. task[c] = "absent"
    BY <1>9 DEF Positions
  <2>3. c \notin Waiting /\ Waiting' = Waiting \cup {c}
    BY <2>1, <2>2 DEF Waiting, TypeOK
  <2>4. Cardinality(Waiting') = Cardinality(Waiting) + 1
    BY <1>1, <2>3, OneMore
  <2> QED BY <1>1, <1>9, <2>1, <2>4 DEF Reserved
<1>10. ASSUME NEW c \in Calls, Call(c) PROVE Reserved'
  <2>1. phase[c] = "idle" /\ UNCHANGED <<limited, shut>>
    BY <1>10 DEF Call
  <2>2. task[c] = "absent"
    BY <2>1 DEF Positions
  <2>3. CASE UNCHANGED <<task, queueVars>>
    BY <1>2, <1>3, <2>1, <2>3 DEF queueVars
  <2>4. CASE HasCapacity /\ limited /\ Admit(c)
    BY <1>9, <2>1, <2>4
  <2>5. CASE ~limited /\ UNCHANGED liveQueued
    BY <1>2, <2>1, <2>5
  <2>6. CASE limited /\ task' = [task EXCEPT ![c] = "absent"] /\ UNCHANGED queueVars
    <3>1. Waiting' = Waiting
      BY <2>2, <2>6 DEF Waiting, TypeOK
    <3> QED BY <1>2, <2>1, <2>6, <3>1 DEF queueVars
  <2> QED BY <1>10, <2>3, <2>4, <2>5, <2>6 DEF Call, queueVars
<1>11. ASSUME NEW c \in Calls, PassDoor(c) PROVE Reserved'
  <2>1. phase[c] = "woken" /\ UNCHANGED <<limited, shut>>
    BY <1>11 DEF PassDoor
  <2>2. CASE UNCHANGED <<task, queueVars>>
    BY <1>2, <1>3, <2>1, <2>2 DEF queueVars
  <2>3. CASE limited /\ HasCapacity /\ Admit(c)
    BY <1>9, <2>1, <2>3
  <2>4. CASE UNCHANGED <<task, liveQueued>>
    BY <1>2, <1>3, <2>1, <2>4
  <2> QED BY <1>11, <2>2, <2>3, <2>4 DEF PassDoor
<1>12. ASSUME NEW c \in Calls, task' = [task EXCEPT ![c] = "absent"], limited => task[c] # "waiting",
              UNCHANGED <<limited, liveQueued, shut>>
       PROVE  Reserved'
  <2>1. limited => Waiting' = Waiting
    BY <1>12 DEF Waiting, TypeOK
  <2> QED BY <1>2, <1>12, <2>1
<1>13. ASSUME NEW c \in Calls, LeaveDoor(c) PROVE Reserved'
  <2>1. /\ phase[c] \in {"door", "woken"} /\ task' = [task EXCEPT ![c] = "absent"]
        /\ UNCHANGED <<limited, liveQueued, shut>>
    BY <1>13 DEF LeaveDoor, queueVars
  <2>2. limited => task[c] # "waiting"
    BY <2>1 DEF Positions
  <2> QED BY <1>12, <2>1, <2>2
<1>14. ASSUME NEW c \in Calls, Finish(c), UNCHANGED <<limited, shut>> PROVE Reserved'
  <2>1. /\ task' = [task EXCEPT ![c] = "absent"]
        /\ liveQueued' = IF limited /\ task[c] = "waiting" THEN liveQueued - 1 ELSE liveQueued
    BY <1>14, FinishFacts
  <2>2. CASE limited /\ task[c] = "waiting"
    <3>1. {c} \in SUBSET Waiting /\ Waiting' = Waiting \ {c}
      BY <2>1, <2>2 DEF Waiting, TypeOK
    <3>2. liveQueued' = liveQueued - Cardinality({c})
      BY <2>1, <2>2, FS_Singleton
    <3> QED BY <1>5, <1>14, <2>2, <3>1, <3>2
  <2>3. CASE ~(limited /\ task[c] = "waiting")
    BY <1>12, <1>14, <2>1, <2>3
  <2> QED BY <2>2, <2>3
<1>15. ASSUME NEW c \in Calls, Return(c) \/ Cancel(c) \/ CleanupEnds(c) PROVE Reserved'
  BY <1>14, <1>15 DEF Return, Cancel, CleanupEnds
<1>16. ASSUME NEW c \in Calls, Timeout(c) PROVE Reserved'
  BY <1>2, <1>3, <1>16 DEF Timeout, queueVars
<1>17. CASE Take
  BY <1>2, <1>17 DEF Take
<1>18. ASSUME NEW zs \in SUBSET Calls, NEW found \in SUBSET Calls, DropZombies(zs, found),
              limited, UNCHANGED <<limited, shut>>
       PROVE  Reserved'
  <2> DEFINE R == {c \in zs \cup found : task[c] = "waiting"}
  <2>1. /\ \A c \in Calls : task'[c] = IF c \in zs THEN "absent"
                                      ELSE IF c \in found THEN "started" ELSE task[c]
        /\ liveQueued' = liveQueued - Cardinality(R)
    BY <1>18, DropFacts
  <2>2. R \in SUBSET Waiting /\ Waiting' = Waiting \ R
    BY <2>1 DEF Waiting
  <2> HIDE DEF R
  <2> QED BY <1>5, <1>18, <2>1, <2>2
<1>19. CASE Dispatch
  <2>1. limited /\ UNCHANGED <<limited, shut>>
    BY <1>19 DEF Dispatch, Hands
  <2> QED BY <1>18, <1>19, <2>1, DispatchFacts
<1>20. ASSUME NEW c \in Calls, PickUp(c) \/ RunEnds(c) \/ GiveBack(c) PROVE Reserved'
  <2>1. /\ stage[c] # "none" /\ UNCHANGED <<limited, liveQueued, shut>>
        /\ task' = task \/ task' = [task EXCEPT ![c] = "absent"]
    BY <1>20 DEF PickUp, RunEnds, GiveBack, EndRun, callVars, queueVars
  <2>2. limited => task[c] # "waiting"
    BY <2>1 DEF Positions
  <2> QED BY <1>2, <1>3, <1>12, <2>1, <2>2
<1>21. ASSUME NEW c \in Calls, DrainDispatched(c) PROVE Reserved'
  <2>1. /\ stage[c] # "none" /\ UNCHANGED <<limited, liveQueued, shut>>
        /\ task' = [task EXCEPT ![c] = "absent"]
    BY <1>21 DEF DrainDispatched
  <2>2. limited => task[c] # "waiting"
    BY <2>1 DEF Positions
  <2> QED BY <1>12, <2>1, <2>2
<1>22. ASSUME NEW c \in Calls, AnswerStuck(c) PROVE Reserved'
  <2>1. /\ task[c] = "started" /\ UNCHANGED <<limited, liveQueued, shut>>
        /\ task' = [task EXCEPT ![c] = "absent"]
    BY <1>22 DEF AnswerStuck, queueVars
  <2> QED BY <1>12, <2>1
<1>23. CASE Maintain
  <2>1. limited /\ UNCHANGED <<limited, shut>>
    BY <1>23 DEF Maintain
  <2>2. CASE UNCHANGED <<queue, unfinished, drained, liveQueued, task, phase>>
    BY <1>2, <1>3, <2>1, <2>2
  <2>3. CASE /\ queue' = Pick(queue, {i \in DOMAIN queue : ~Zombie(queue[i])})
             /\ DropZombies({c \in Range(queue) : Zombie(c)}, {})
    <3>1. PICK zs \in SUBSET Calls : DropZombies(zs, {})
      BY <2>3, CompactFacts
    <3> QED BY <1>18, <2>1, <3>1
  <2> QED BY <1>23, <2>2, <2>3 DEF Maintain
<1>24. CASE \E graceful \in BOOLEAN : Shutdown(graceful)
  BY <1>2, <1>3, <1>24 DEF Shutdown, queueVars
<1>25. CASE JoinReturns
  BY <1>2, <1>3, <1>25 DEF JoinReturns, StopWorkers, callVars, queueVars
<1>26. CASE ForceDrain
  <2>1. /\ task' = [c \in Calls |-> "absent"] /\ shut' = "gather" /\ UNCHANGED <<limited, liveQueued>>
    BY <1>26 DEF ForceDrain, StopWorkers
  <2>2. Waiting' = {}
    BY <2>1 DEF Waiting
  <2>3. Cardinality(Waiting') = 0
    BY <2>2, FS_EmptySet
  <2> QED BY <1>1, <2>1, <2>3 DEF Reserved
<1> QED BY <1>6, <1>7, <1>8, <1>10, <1>11, <1>13, <1>15, <1>16, <1>17, <1>19, <1>20, <1>21, <1>22, <1>23,
           <1>24, <1>25, <1>26
        DEF Next, Caller, Worker, Pump, Ending

\* What a shutdown ends stays ended.
LEMMA StepClosing ==
  ASSUME QInv, Next
  PROVE  Closing'
<1> USE DEF QInv
<1>1. ASSUME UNCHANGED <<shut, stage>>, pump = "gone" => pump' = "gone" PROVE Closing'
  BY <1>1 DEF Closing, At
<1>2. ASSUME shut' \in {"no", "join", "force"} PROVE Closing'
  BY <1>2 DEF Closing
<1>3. CASE Ask \/ AskFails \/ ReturnUnused
  BY <1>1, <1>3 DEF Ask, AskFails, ReturnUnused, runVars, pumpVars
<1>4. CASE Dispatch
  <2>1. pump # "gone" /\ shut' = shut
    BY <1>4 DEF Dispatch
  <2>2. shut \notin {"gather", "drain", "return", "done"}
    BY <2>1 DEF Closing
  <2> QED BY <2>1, <2>2 DEF Closing
<1>5. CASE (\E p \in Processes : OtherAcquires(p) \/ OtherDies(p)) \/ OtherReaps \/ Stall
           \/ (\E l \in Leases : OtherReleases(l) \/ Age(l))
  BY <1>1, <1>5 DEF OtherAcquires, OtherDies, OtherReaps, Stall, OtherReleases, Age, runVars, pumpVars
<1>6. ASSUME NEW c \in Calls, Call(c) \/ PassDoor(c) \/ LeaveDoor(c) PROVE Closing'
  BY <1>1, <1>6 DEF Call, PassDoor, LeaveDoor, runVars, pumpVars
<1>7. ASSUME NEW c \in Calls, Return(c) \/ Cancel(c) \/ CleanupEnds(c) \/ Timeout(c) \/ AnswerStuck(c)
      PROVE  Closing'
  BY <1>1, <1>7 DEF Return, Cancel, CleanupEnds, Timeout, AnswerStuck, runVars, pumpVars
<1>8. CASE Take
  BY <1>2, <1>8 DEF Take
<1>9. ASSUME NEW c \in Calls, PickUp(c) PROVE Closing'
  BY <1>2, <1>9 DEF PickUp
<1>10. ASSUME NEW c \in Calls, RunEnds(c) \/ GiveBack(c) PROVE Closing'
  <2>1. stage[c] \in {"running", "releasing"} /\ UNCHANGED <<shut, pump>>
    BY <1>10 DEF RunEnds, GiveBack, pumpVars
  <2>2. shut \notin {"drain", "return", "done"}
    BY <2>1 DEF Closing, At
  <2> QED BY <2>1, <2>2 DEF Closing
<1>11. ASSUME NEW c \in Calls, DrainDispatched(c) PROVE Closing'
  <2>1. shut = "drain" /\ UNCHANGED <<shut, pump>> /\ stage' = [stage EXCEPT ![c] = "none"]
    BY <1>11 DEF DrainDispatched, pumpVars
  <2>2. At("running")' \subseteq At("running") /\ At("releasing")' \subseteq At("releasing")
    BY <2>1 DEF At, TypeOK
  <2> QED BY <2>1, <2>2 DEF Closing
<1>12. CASE Maintain
  BY <1>1, <1>12 DEF Maintain, runVars, pumpVars
<1>13. CASE (\E graceful \in BOOLEAN : Shutdown(graceful)) \/ JoinTimesOut
  BY <1>2, <1>13 DEF Shutdown, JoinTimesOut
<1>14. CASE JoinReturns \/ ForceDrain
  BY <1>14 DEF JoinReturns, ForceDrain, StopWorkers, Closing
<1>15. CASE Gathered
  BY <1>15 DEF Gathered, Closing, At, runVars, pumpVars
<1>16. CASE StopHealthCheck
  BY <1>16 DEF StopHealthCheck, Closing, At, runVars, pumpVars
<1>17. CASE ReturnLeases
  BY <1>17 DEF ReturnLeases, Closing, At, runVars, pumpVars
<1> QED BY <1>3, <1>4, <1>5, <1>6, <1>7, <1>8, <1>9, <1>10, <1>11, <1>12, <1>13, <1>14, <1>15, <1>16, <1>17
        DEF Next, Caller, Worker, Pump, Ending

\* The types, part by part. The counters' are with what they count.
CallTypes ==
  /\ limited \in BOOLEAN
  /\ phase \in [Calls -> Phases]
  /\ future \in [Calls -> {"pending", "done", "cancelled"}]
  /\ task \in [Calls -> {"absent", "waiting", "started"}]
  /\ queue \in Seq(Calls)
  /\ drained \in BOOLEAN

RunTypes ==
  /\ stage \in [Calls -> {"none", "dispatched", "running", "releasing"}]
  /\ shut \in {"no", "join", "force", "gather", "drain", "return", "done"}
  /\ healthy \in BOOLEAN /\ stalled \in BOOLEAN
  /\ dead \subseteq Processes \ {Me}
  /\ bounds \in Bounds
  /\ faults \in 0 .. bounds.faults /\ others \in 0 .. bounds.others

LeaseTypes ==
  /\ lease \in [Calls -> Leases \cup {NoLease}]
  /\ pump \in {"idle", "granted", "returning", "gone"}
  /\ pumpLease \in Leases \cup {NoLease}
  /\ held \subseteq Leases /\ pending \subseteq Leases /\ orphans \subseteq Leases
  /\ table \in Tables

LEMMA TypesInParts ==
  TypeOK <=> CallTypes /\ RunTypes /\ LeaseTypes /\ unfinished \in Nat /\ liveQueued \in Nat
BY DEF TypeOK, CallTypes, RunTypes, LeaseTypes

LEMMA StepCallTypes ==
  ASSUME QInv, Next
  PROVE  CallTypes'
<1> USE DEF QInv
<1> DEFINE cv == <<limited, phase, future, task, queue, drained>>
<1>1. CallTypes
  BY TypesInParts
<1>2. ASSUME UNCHANGED cv PROVE CallTypes'
  BY <1>1, <1>2 DEF CallTypes
<1>3. ASSUME NEW n, Count(n) PROVE drained' \in BOOLEAN
  BY <1>1, <1>3 DEF Count, CallTypes
<1>4. CASE Ask \/ AskFails \/ ReturnUnused
  BY <1>2, <1>4 DEF Ask, AskFails, ReturnUnused, callVars, queueVars
<1>5. CASE JoinTimesOut \/ Gathered \/ StopHealthCheck \/ ReturnLeases \/ JoinReturns
  BY <1>2, <1>5 DEF JoinTimesOut, Gathered, StopHealthCheck, ReturnLeases, JoinReturns, callVars, queueVars
<1>6. CASE (\E p \in Processes : OtherAcquires(p) \/ OtherDies(p)) \/ OtherReaps \/ Stall
           \/ (\E l \in Leases : OtherReleases(l) \/ Age(l))
  BY <1>2, <1>6 DEF OtherAcquires, OtherDies, OtherReaps, Stall, OtherReleases, Age, callVars, queueVars
<1>7. ASSUME NEW c \in Calls, phase[c] \in {"idle", "woken"}, Put(c),
             task' = task \/ task' = [task EXCEPT ![c] = "waiting"], UNCHANGED <<limited, future>>
      PROVE  CallTypes'
  <2>1. queue' \in Seq(Calls) /\ phase' = [phase EXCEPT ![c] = "waiting"]
    BY <1>7, PutFacts
  <2>2. drained' \in BOOLEAN
    BY <1>3, <1>7 DEF Put
  <2> QED BY <1>1, <1>7, <2>1, <2>2 DEF CallTypes, Phases
<1>8. ASSUME NEW c \in Calls, Call(c) PROVE CallTypes'
  <2>1. phase[c] = "idle" /\ UNCHANGED <<limited, future>>
    BY <1>8 DEF Call
  <2>2. CASE Put(c) /\ task' = [task EXCEPT ![c] = "waiting"]
    BY <1>7, <2>1, <2>2
  <2>3. CASE /\ phase' \in {[phase EXCEPT ![c] = "over"], [phase EXCEPT ![c] = "door"]} /\ UNCHANGED queueVars
             /\ task' \in {task, [task EXCEPT ![c] = IF limited THEN "absent" ELSE "waiting"]}
    BY <1>1, <2>1, <2>3 DEF CallTypes, Phases, queueVars
  <2> QED BY <1>8, <2>2, <2>3 DEF Call, Admit, queueVars
<1>9. ASSUME NEW c \in Calls, PassDoor(c) PROVE CallTypes'
  <2>1. phase[c] = "woken" /\ UNCHANGED <<limited, future>>
    BY <1>9 DEF PassDoor
  <2>2. CASE Put(c) /\ (task' = [task EXCEPT ![c] = "waiting"] \/ task' = task)
    BY <1>7, <2>1, <2>2
  <2>3. CASE /\ phase' \in {[phase EXCEPT ![c] = "over"], [phase EXCEPT ![c] = "door"]}
             /\ UNCHANGED <<task, queueVars>>
    BY <1>1, <2>1, <2>3 DEF CallTypes, Phases, queueVars
  <2> QED BY <1>9, <2>2, <2>3 DEF PassDoor, Admit
<1>10. ASSUME NEW c \in Calls, LeaveDoor(c) PROVE CallTypes'
  <2> DEFINE left == [phase EXCEPT ![c] = "over"]
  <2>1. /\ task' = [task EXCEPT ![c] = "absent"] /\ UNCHANGED <<limited, future, queue, drained>>
        /\ phase' = left \/ phase' \in WakeOne(left)
    BY <1>10 DEF LeaveDoor, queueVars
  <2>2. left \in [Calls -> Phases]
    BY DEF TypeOK, Phases
  <2> HIDE DEF left
  <2>3. phase' \in [Calls -> Phases]
    BY <2>1, <2>2, WakeOneFacts
  <2> QED BY <1>1, <2>1, <2>3 DEF CallTypes
<1>11. ASSUME NEW c \in Calls, Finish(c), UNCHANGED <<limited, queue, drained>>,
              future' = future \/ future' = [future EXCEPT ![c] = "cancelled"]
       PROVE  CallTypes'
  BY <1>1, <1>11, FinishFacts DEF CallTypes
<1>12. ASSUME NEW c \in Calls, Return(c) \/ Cancel(c) \/ CleanupEnds(c) PROVE CallTypes'
  BY <1>11, <1>12 DEF Return, Cancel, CleanupEnds
<1>13. ASSUME NEW c \in Calls, Timeout(c) PROVE CallTypes'
  BY <1>1, <1>13 DEF Timeout, CallTypes, Phases, queueVars
<1>14. CASE Take
  <2> DEFINE c == Head(queue)
  <2>1. /\ queue # <<>> /\ queue' = Tail(queue) /\ phase' \in WakeOne(phase) /\ UNCHANGED <<limited, future>>
        /\ task' \in {[task EXCEPT ![c] = "absent"], [task EXCEPT ![c] = "started"]}
        /\ (\E n : Count(n)) \/ UNCHANGED drained
    BY <1>14 DEF Take
  <2>2. c \in Calls /\ queue' \in Seq(Calls)
    BY <1>1, <2>1, TailQueue DEF CallTypes
  <2> HIDE DEF c
  <2>3. phase' \in [Calls -> Phases]
    BY <1>1, <2>1, WakeOneFacts DEF CallTypes
  <2> QED BY <1>1, <1>3, <2>1, <2>2, <2>3 DEF CallTypes
<1>15. ASSUME NEW zs \in SUBSET Calls, NEW found \in SUBSET Calls, DropZombies(zs, found),
              queue' \in Seq(Calls), UNCHANGED <<limited, future>>
       PROVE  CallTypes'
  <2>1. task' \in [Calls -> {"absent", "waiting", "started"}] /\ phase' \in [Calls -> Phases]
    BY <1>15, DropFacts
  <2>2. drained' \in BOOLEAN
    BY <1>3, <1>15 DEF DropZombies
  <2> QED BY <1>1, <1>15, <2>1, <2>2 DEF CallTypes
<1>16. CASE Dispatch
  <2>1. UNCHANGED <<limited, future>>
    BY <1>16 DEF Dispatch
  <2> QED BY <1>15, <1>16, <2>1, DispatchFacts
<1>17. ASSUME NEW c \in Calls, PickUp(c) \/ RunEnds(c) \/ GiveBack(c) \/ DrainDispatched(c) \/ AnswerStuck(c)
       PROVE  CallTypes'
  <2>1. /\ UNCHANGED <<limited, phase, queue>>
        /\ task' = task \/ task' = [task EXCEPT ![c] = "absent"]
        /\ (\E n : Count(n)) \/ UNCHANGED drained
    BY <1>17 DEF PickUp, RunEnds, GiveBack, DrainDispatched, AnswerStuck, EndRun, callVars, queueVars
  <2>2. \/ future' = future
        \/ \E v \in {"pending", "done", "cancelled"} : future' = [future EXCEPT ![c] = v]
    BY <1>1, <1>17 DEF PickUp, RunEnds, GiveBack, DrainDispatched, AnswerStuck, callVars, CallTypes
  <2> QED BY <1>1, <1>3, <2>1, <2>2 DEF CallTypes
<1>18. CASE Maintain
  <2>1. UNCHANGED <<limited, future>>
    BY <1>18 DEF Maintain
  <2>2. CASE UNCHANGED <<queue, unfinished, drained, liveQueued, task, phase>>
    BY <1>2, <2>1, <2>2
  <2>3. CASE /\ queue' = Pick(queue, {i \in DOMAIN queue : ~Zombie(queue[i])})
             /\ DropZombies({c \in Range(queue) : Zombie(c)}, {})
    <3>1. PICK zs \in SUBSET Calls : DropZombies(zs, {}) /\ queue' \in Seq(Calls)
      BY <2>3, CompactFacts
    <3> QED BY <1>15, <2>1, <3>1
  <2> QED BY <1>18, <2>2, <2>3 DEF Maintain
<1>19. CASE \E graceful \in BOOLEAN : Shutdown(graceful)
  <2>1. UNCHANGED <<limited, future, task, queue, drained>> /\ (phase' = phase \/ phase' = Notify(phase))
    BY <1>19 DEF Shutdown, queueVars
  <2> QED BY <1>1, <2>1, NotifyFacts DEF CallTypes
<1>20. CASE ForceDrain
  <2>1. /\ limited' = limited /\ queue' = <<>> /\ task' = [c \in Calls |-> "absent"]
        /\ \E n : Count(n)
    BY <1>20 DEF ForceDrain
  <2>2. future' \in [Calls -> {"pending", "done", "cancelled"}]
    BY <1>1, <1>20 DEF ForceDrain, CallTypes
  <2>3. phase' \in [Calls -> Phases]
    BY <1>1, <1>20 DEF ForceDrain, CallTypes, Phases
  <2>4. queue' \in Seq(Calls)
    BY <2>1
  <2> QED BY <1>1, <1>3, <2>1, <2>2, <2>3, <2>4 DEF CallTypes
<1> QED BY <1>4, <1>5, <1>6, <1>8, <1>9, <1>10, <1>12, <1>13, <1>14, <1>16, <1>17, <1>18, <1>19, <1>20
        DEF Next, Caller, Worker, Pump, Ending

LEMMA StepRunTypes ==
  ASSUME QInv, Next
  PROVE  RunTypes'
<1> USE DEF QInv
<1> DEFINE rv == <<stage, shut, healthy, stalled, dead, bounds, faults, others>>
           Stages == {"none", "dispatched", "running", "releasing"}
<1>1. RunTypes /\ bounds.faults \in Nat /\ bounds.others \in Nat
  BY TypesInParts, Constants DEF RunTypes
<1>2. ASSUME UNCHANGED rv PROVE RunTypes'
  BY <1>1, <1>2 DEF RunTypes
<1>3. ASSUME stage' \in [Calls -> Stages], UNCHANGED <<shut, healthy, stalled, dead, bounds, others>>,
             faults' = faults \/ (faults < bounds.faults /\ faults' = faults + 1)
      PROVE  RunTypes'
  BY <1>1, <1>3 DEF RunTypes
<1>4. ASSUME NEW c \in Calls, NEW v \in Stages PROVE [stage EXCEPT ![c] = v] \in [Calls -> Stages]
  BY <1>1 DEF RunTypes
<1>5. stage \in [Calls -> Stages]
  BY <1>1 DEF RunTypes
<1>6. \A ls : ReleaseSafely(ls) => faults' = faults \/ (faults < bounds.faults /\ faults' = faults + 1)
  BY DEF ReleaseSafely
<1>7. CASE Ask \/ OtherReaps
  BY <1>2, <1>7 DEF Ask, OtherReaps, runVars, envVars
<1>8. CASE AskFails \/ ReturnUnused
  BY <1>3, <1>5, <1>6, <1>8 DEF AskFails, ReturnUnused, runVars
<1>9. CASE Dispatch
  <2>1. UNCHANGED <<shut, healthy, envVars>>
    BY <1>9 DEF Dispatch
  <2>2. stage' \in [Calls -> Stages]
    BY <1>5, <1>9, DispatchFacts
  <2> QED BY <1>3, <2>1, <2>2 DEF envVars
<1>10. ASSUME NEW c \in Calls, Call(c) \/ PassDoor(c) \/ LeaveDoor(c) PROVE RunTypes'
  BY <1>2, <1>10 DEF Call, PassDoor, LeaveDoor, runVars, envVars
<1>11. ASSUME NEW c \in Calls, Return(c) \/ Cancel(c) \/ CleanupEnds(c) \/ Timeout(c) \/ AnswerStuck(c)
       PROVE  RunTypes'
  BY <1>2, <1>11 DEF Return, Cancel, CleanupEnds, Timeout, AnswerStuck, runVars, envVars
<1>12. CASE Take
  <2>1. /\ UNCHANGED <<shut, healthy, envVars>> /\ queue # <<>>
        /\ stage' = stage \/ stage' = [stage EXCEPT ![Head(queue)] = "running"]
    BY <1>12 DEF Take
  <2>2. Head(queue) \in Calls
    BY <2>1, TailQueue DEF TypeOK
  <2> QED BY <1>3, <1>4, <1>5, <2>1, <2>2 DEF envVars
<1>13. ASSUME NEW c \in Calls, PickUp(c) \/ RunEnds(c) PROVE RunTypes'
  <2>1. /\ UNCHANGED <<shut, healthy, envVars>>
        /\ stage' \in {[stage EXCEPT ![c] = "running"], [stage EXCEPT ![c] = "releasing"], [stage EXCEPT ![c] = "none"]}
    BY <1>13 DEF PickUp, RunEnds, EndRun
  <2> QED BY <1>3, <1>4, <2>1 DEF envVars
<1>14. ASSUME NEW c \in Calls, GiveBack(c) \/ DrainDispatched(c) PROVE RunTypes'
  <2>1. /\ UNCHANGED <<shut, healthy, stalled, dead, bounds, others>>
        /\ stage' = [stage EXCEPT ![c] = "none"] /\ \E ls : ReleaseSafely(ls)
    BY <1>14 DEF GiveBack, DrainDispatched
  <2> QED BY <1>3, <1>4, <1>6, <2>1
<1>15. CASE Maintain
  BY <1>3, <1>5, <1>15 DEF Maintain, runVars
<1>16. CASE (\E graceful \in BOOLEAN : Shutdown(graceful)) \/ JoinTimesOut \/ Gathered \/ StopHealthCheck
  BY <1>1, <1>16 DEF Shutdown, JoinTimesOut, Gathered, StopHealthCheck, RunTypes, runVars, envVars
<1>17. CASE JoinReturns \/ ForceDrain
  <2>1. /\ shut' = "gather" /\ UNCHANGED <<healthy, envVars>>
        /\ stage' = [c \in Calls |-> IF stage[c] = "releasing" THEN "none" ELSE stage[c]]
    BY <1>17 DEF JoinReturns, ForceDrain, StopWorkers
  <2>2. stage' \in [Calls -> Stages]
    BY <1>5, <2>1
  <2> QED BY <1>1, <2>1, <2>2 DEF RunTypes, envVars
<1>18. CASE ReturnLeases
  <2>1. PICK failed \in SUBSET (held \cup pending) :
          faults + Cardinality(failed) <= bounds.faults /\ faults' = faults + Cardinality(failed)
    BY <1>18 DEF ReturnLeases
  <2>2. shut' = "done" /\ UNCHANGED <<stage, healthy, stalled, dead, bounds, others>>
    BY <1>18 DEF ReturnLeases, runVars
  <2>3. IsFiniteSet(failed)
    <3>1. failed \subseteq held \cup pending
      OBVIOUS
    <3> QED BY <3>1, BooksFinite, FS_Subset
  <2> QED BY <1>1, <2>1, <2>2, <2>3, FS_CardinalityType DEF RunTypes
<1>19. ASSUME NEW p \in Processes, OtherAcquires(p) \/ OtherDies(p) PROVE RunTypes'
  BY <1>1, <1>19 DEF OtherAcquires, OtherDies, RunTypes, runVars
<1>20. ASSUME NEW l \in Leases, OtherReleases(l) \/ Age(l) PROVE RunTypes'
  BY <1>2, <1>20 DEF OtherReleases, Age, runVars, envVars
<1>21. CASE Stall
  BY <1>1, <1>21 DEF Stall, RunTypes, runVars
<1> QED BY <1>7, <1>8, <1>9, <1>10, <1>11, <1>12, <1>13, <1>14, <1>15, <1>16, <1>17, <1>18, <1>19, <1>20, <1>21
        DEF Next, Caller, Worker, Pump, Ending

\* Who has which lease.
LEMMA StepHands ==
  ASSUME QInv, Next
  PROVE  Hands'
<1> USE DEF QInv
<1> DEFINE hv == <<limited, stage, lease, pump, pumpLease, held, pending>>
<1>1. /\ NoLease \notin Leases /\ held \subseteq Leases /\ pending \subseteq Leases
      /\ lease \in [Calls -> Leases \cup {NoLease}] /\ limited \in BOOLEAN
      /\ limited => \A l : l \in held <=> Holding(l)
      /\ \A l \in pending : l \notin held /\ l # pumpLease /\ \A c \in Calls : lease[c] # l
  BY HandsFacts, Constants DEF TypeOK
<1>2. /\ pumpLease = NoLease <=> pump \in {"idle", "gone"}
      /\ ~limited => pump = "gone" /\ held = {}
      /\ \A c \in Calls : lease[c] # NoLease <=> limited /\ stage[c] # "none"
      /\ \A c, d \in Calls : c # d /\ lease[c] # NoLease => lease[c] # lease[d]
      /\ \A c \in Calls : lease[c] # NoLease => lease[c] # pumpLease
      /\ IsFiniteSet(pending)
  BY DEF Hands
\* What has to be shown, lease by lease.
<1>3. ASSUME limited' = limited, lease' \in [Calls -> Leases \cup {NoLease}],
             pumpLease' = NoLease <=> pump' \in {"idle", "gone"},
             ~limited => pump' = "gone" /\ held' = {},
             \A c \in Calls : lease'[c] # NoLease <=> limited /\ stage'[c] # "none",
             \A c, d \in Calls : c # d /\ lease'[c] # NoLease => lease'[c] # lease'[d],
             \A c \in Calls : lease'[c] # NoLease => lease'[c] # pumpLease',
             limited => \A l : l \in held' <=> (\E c \in Carried' : lease'[c] = l)
                                            \/ (pump' = "returning" /\ l = pumpLease'),
             \A l \in pending' : l \notin held' /\ l # pumpLease' /\ \A c \in Calls : lease'[c] # l,
             IsFiniteSet(pending')
      PROVE  Hands'
  <2>1. limited => held' = {lease'[c] : c \in Carried'} \cup (IF pump' = "returning" THEN {pumpLease'} ELSE {})
    BY <1>3
  <2>2. DOMAIN lease' = Calls
    BY <1>3
  <2>3. Range(lease') = {lease'[c] : c \in Calls}
    BY <2>2 DEF Range
  <2>4. pending' \cap (held' \cup Range(lease') \cup {pumpLease'}) = {}
    BY <1>3, <2>3
  <2> QED BY <1>3, <2>1, <2>4 DEF Hands
<1>4. ASSUME UNCHANGED hv PROVE Hands'
  <2>1. Carried' = Carried
    BY <1>4 DEF Carried, At
  <2> QED BY <1>4, <2>1 DEF Hands
<1>5. \A c \in Carried : c \in Calls /\ stage[c] \in {"dispatched", "running"}
  BY DEF Carried, At
<1>6. CASE Ask
  <2>1. CASE /\ HasRoom(table, dead) /\ Unknown # {} /\ pumpLease' = NewLease /\ pump' = "granted"
    <3>1. NewLease \in Leases /\ NewLease \notin held \cup pending \cup Range(lease)
      BY <2>1, UnknownFacts
    <3>2. \A c \in Calls : lease[c] # NewLease
      BY <3>1, HandsFacts
    <3>3. pump = "idle" /\ UNCHANGED <<limited, stage, lease, held, pending>>
      BY <1>6 DEF Ask, runVars
    <3>4. limited /\ Carried' = Carried
      BY <1>2, <3>3 DEF Carried, At
    <3> QED BY <1>1, <1>2, <1>3, <2>1, <3>1, <3>2, <3>3, <3>4 DEF Holding
  <2>2. CASE UNCHANGED pumpVars
    BY <1>4, <1>6, <2>2 DEF Ask, pumpVars, runVars
  <2> QED BY <1>6, <2>1, <2>2 DEF Ask
<1>7. CASE AskFails
  <2>1. /\ pump = "granted" /\ pump' = "idle" /\ pumpLease' = NoLease
        /\ UNCHANGED <<limited, stage, lease, held, pending>>
    BY <1>7 DEF AskFails, runVars
  <2>2. Carried' = Carried
    BY <2>1 DEF Carried, At
  <2> QED BY <1>1, <1>2, <1>3, <2>1, <2>2 DEF Holding
<1>8. CASE Dispatch
  <2>1. PICK found \in SUBSET Calls :
          /\ found \subseteq ToSet(queue)
          /\ found = {} \/ \E c \in Calls : found = {c}
          /\ stage' = [c \in Calls |-> IF c \in found THEN "dispatched" ELSE stage[c]]
          /\ lease' = [c \in Calls |-> IF c \in found THEN pumpLease ELSE lease[c]]
          /\ IF found = {} THEN pump' = "returning" /\ pumpLease' = pumpLease
             ELSE pump' = "idle" /\ pumpLease' = NoLease
    BY <1>8, DispatchFacts
  <2>2. /\ pump = "granted" /\ held' = held \cup {pumpLease} /\ UNCHANGED <<limited, pending>>
        /\ limited /\ pumpLease # NoLease
    BY <1>2, <1>8 DEF Dispatch
  <2>3. pumpLease \in Leases
    BY <2>2 DEF TypeOK
  <2>4. \A c \in found : stage[c] = "none"
    BY <2>1 DEF Positions
  <2>5. Carried' = Carried \cup found
    BY <2>1 DEF Carried, At
  <2>6. /\ lease' \in [Calls -> Leases \cup {NoLease}]
        /\ \A c \in Calls : lease'[c] = IF c \in found THEN pumpLease ELSE lease[c]
        /\ \A c \in Calls : stage'[c] = IF c \in found THEN "dispatched" ELSE stage[c]
    BY <1>1, <2>1, <2>3
  <2>7. CASE found = {}
    <3>1. Carried' = Carried /\ lease' = lease /\ stage' = stage
      BY <2>1, <2>5, <2>7 DEF TypeOK
    <3> QED BY <1>1, <1>2, <1>3, <2>1, <2>2, <2>7, <3>1 DEF Holding
  <2>8. ASSUME NEW d \in Calls, found = {d} PROVE Hands'
    <3>1. pump' = "idle" /\ pumpLease' = NoLease /\ Carried' = Carried \cup {d} /\ stage[d] = "none" /\ lease[d] = NoLease
      BY <1>2, <2>1, <2>4, <2>5, <2>8
    <3>2. \A l : l \in held' <=> \E c \in Carried' : lease'[c] = l
      <4>1. \A c \in Carried : c # d /\ lease'[c] = lease[c]
        BY <1>5, <2>6, <2>8, <3>1
      <4>2. lease'[d] = pumpLease
        BY <2>6, <2>8
      <4>3. \A l : l \in held <=> \E c \in Carried : lease[c] = l
        BY <1>1, <2>2 DEF Holding
      <4> QED BY <2>2, <3>1, <4>1, <4>2, <4>3
    <3>3. \A c \in Calls : lease'[c] # NoLease <=> stage'[c] # "none"
      BY <1>2, <2>2, <2>6, <2>8
    <3>4. \A c, e \in Calls : c # e /\ lease'[c] # NoLease => lease'[c] # lease'[e]
      BY <1>2, <2>2, <2>6, <2>8
    <3>5. \A l \in pending' : l \notin held' /\ l # pumpLease' /\ \A c \in Calls : lease'[c] # l
      BY <1>1, <2>2, <2>6, <3>1
    <3> QED BY <1>2, <1>3, <2>2, <2>6, <3>1, <3>2, <3>3, <3>4, <3>5
  <2> QED BY <2>1, <2>7, <2>8
\* A release takes the lease off the parked ones or parks it.
<1>9. ASSUME NEW l, ReleaseSafely({l})
      PROVE  pending' \subseteq pending \cup {l} /\ IsFiniteSet(pending')
  <2>1. pending' = pending \ {l} \/ pending' = pending \cup {l}
    BY <1>9 DEF ReleaseSafely
  <2> QED BY <1>2, <2>1, FS_AddElement, FS_RemoveElement
<1>10. CASE ReturnUnused
  <2>1. /\ pump = "returning" /\ pump' = "idle" /\ pumpLease' = NoLease /\ held' = held \ {pumpLease}
        /\ ReleaseSafely({pumpLease}) /\ UNCHANGED <<limited, stage, lease>>
    BY <1>10 DEF ReturnUnused, runVars
  <2>2. Carried' = Carried
    BY <2>1 DEF Carried, At
  <2>3. pending' \subseteq pending \cup {pumpLease} /\ IsFiniteSet(pending')
    BY <1>9, <2>1
  <2>4. limited /\ pumpLease # NoLease /\ pumpLease \in Leases
    BY <1>2, <2>1 DEF TypeOK
  <2>5. \A l : l \in held' <=> \E c \in Carried' : lease'[c] = l
    <3>1. \A c \in Carried : lease[c] # pumpLease
      BY <1>2, <1>5, <2>4
    <3>2. \A l : l \in held <=> (\E c \in Carried : lease[c] = l) \/ l = pumpLease
      BY <1>1, <2>1, <2>4 DEF Holding
    <3> QED BY <2>1, <2>2, <3>1, <3>2
  <2>6. \A l \in pending' : l \notin held' /\ l # pumpLease' /\ \A c \in Calls : lease'[c] # l
    BY <1>1, <1>2, <2>1, <2>3, <2>4
  <2> QED BY <1>1, <1>2, <1>3, <2>1, <2>3, <2>4, <2>5, <2>6
\* The end of a run, and of a call that was dispatched to nobody.
<1>11. ASSUME NEW c \in Calls, stage[c] \in {"dispatched", "running"}, limited,
              held' = held \ {lease[c]}, UNCHANGED <<limited, pump, pumpLease>>,
              \A d \in Calls \ {c} : stage'[d] = stage[d] /\ lease'[d] = lease[d],
              lease' \in [Calls -> Leases \cup {NoLease}],
              \/ stage'[c] = "releasing" /\ lease'[c] = lease[c] /\ pending' = pending
              \/ stage'[c] = "none" /\ lease'[c] = NoLease /\ ReleaseSafely({lease[c]})
       PROVE  Hands'
  <2>1. Carried' = Carried \ {c} /\ c \in Carried
    BY <1>11 DEF Carried, At
  <2>2. lease[c] # NoLease /\ lease[c] \in Leases
    BY <1>1, <1>2, <1>11
  <2>3. \A l : l \in held' <=> (\E d \in Carried' : lease'[d] = l) \/ (pump' = "returning" /\ l = pumpLease')
    <3>1. \A l : l \in held <=> (\E d \in Carried : lease[d] = l) \/ (pump = "returning" /\ l = pumpLease)
      BY <1>1, <1>11 DEF Holding
    <3>2. \A d \in Carried \ {c} : lease'[d] = lease[d] /\ lease[d] # lease[c]
      BY <1>2, <1>5, <1>11, <2>2
    <3>3. pump = "returning" => pumpLease # lease[c]
      BY <1>2, <2>2
    <3> QED BY <1>11, <2>1, <3>1, <3>2, <3>3
  <2>4. pending' \subseteq pending \cup {lease[c]} /\ IsFiniteSet(pending')
    BY <1>2, <1>9, <1>11
  <2>5. \A l \in pending' : l \notin held' /\ l # pumpLease' /\ \A d \in Calls : lease'[d] # l
    <3>1. stage'[c] = "releasing" => pending' = pending
      BY <1>11
    <3>2. \A d \in Calls \ {c} : lease[d] # lease[c]
      BY <1>2, <2>2
    <3>3. CASE stage'[c] = "releasing"
      BY <1>1, <1>11, <3>1, <3>3
    <3>4. CASE stage'[c] = "none"
      BY <1>1, <1>2, <1>11, <2>2, <2>4, <3>2, <3>4
    <3> QED BY <1>11, <3>3, <3>4
  <2>6. /\ \A d \in Calls : lease'[d] # NoLease <=> stage'[d] # "none"
        /\ \A d, e \in Calls : d # e /\ lease'[d] # NoLease => lease'[d] # lease'[e]
        /\ \A d \in Calls : lease'[d] # NoLease => lease'[d] # pumpLease'
    BY <1>2, <1>11, <2>2
  <2> QED BY <1>2, <1>3, <1>11, <2>3, <2>4, <2>5, <2>6
\* In the default mode there are no leases.
<1>12. ASSUME ~limited, UNCHANGED <<limited, lease, pump, pumpLease, pending>>, held' = {} PROVE Hands'
  <2>1. \A c \in Calls : lease[c] = NoLease
    BY <1>2, <1>12
  <2> QED BY <1>1, <1>2, <1>3, <1>12, <2>1
<1>13. CASE Take
  BY <1>2, <1>12, <1>13 DEF Take, pumpVars, leaseVars
<1>14. ASSUME NEW c \in Calls, PickUp(c) PROVE Hands'
  <2>1. /\ stage[c] = "dispatched" /\ UNCHANGED <<limited, pump, pumpLease, lease, pending>>
    BY <1>14 DEF PickUp, pumpVars
  <2>2. limited
    BY <2>1 DEF Positions, TypeOK
  <2>3. CASE EndRun(c)
    <3>1. /\ held' = held \ {lease[c]}
          /\ \A d \in Calls \ {c} : stage'[d] = stage[d] /\ lease'[d] = lease[d]
          /\ stage'[c] = "releasing"
      BY <2>1, <2>2, <2>3 DEF EndRun, TypeOK
    <3> QED BY <1>1, <1>11, <2>1, <2>2, <3>1
  <2>4. CASE stage' = [stage EXCEPT ![c] = "running"] /\ UNCHANGED held
    <3>1. Carried' = Carried
      BY <2>1, <2>4 DEF Carried, At, TypeOK
    <3>2. \A d \in Calls : stage'[d] # "none" <=> stage[d] # "none"
      BY <2>1, <2>4 DEF TypeOK
    <3> QED BY <1>1, <1>2, <1>3, <2>1, <2>2, <2>4, <3>1, <3>2 DEF Holding
  <2> QED BY <1>14, <2>3, <2>4 DEF PickUp
<1>15. ASSUME NEW c \in Calls, RunEnds(c) PROVE Hands'
  <2>1. /\ stage[c] = "running" /\ UNCHANGED <<limited, pump, pumpLease, lease, pending>>
        /\ held' = held \ {lease[c]}
        /\ stage' = [stage EXCEPT ![c] = IF limited THEN "releasing" ELSE "none"]
    BY <1>15 DEF RunEnds, pumpVars, EndRun
  <2>2. CASE limited
    <3>1. \A d \in Calls \ {c} : stage'[d] = stage[d] /\ lease'[d] = lease[d]
      BY <2>1 DEF TypeOK
    <3>2. stage'[c] = "releasing"
      BY <2>1, <2>2 DEF TypeOK
    <3> QED BY <1>1, <1>11, <2>1, <2>2, <3>1, <3>2
  <2>3. CASE ~limited
    BY <1>2, <1>12, <2>1, <2>3
  <2> QED BY <2>2, <2>3
<1>16. ASSUME NEW c \in Calls, GiveBack(c) PROVE Hands'
  <2>1. /\ stage[c] = "releasing" /\ UNCHANGED <<limited, pump, pumpLease, held>>
        /\ stage' = [stage EXCEPT ![c] = "none"] /\ lease' = [lease EXCEPT ![c] = NoLease]
        /\ ReleaseSafely({lease[c]})
    BY <1>16 DEF GiveBack, pumpVars
  <2>2. /\ limited /\ lease[c] # NoLease /\ lease[c] \in Leases
    BY <1>1, <1>2, <2>1 DEF Positions
  <2>3. /\ lease' \in [Calls -> Leases \cup {NoLease}] /\ lease'[c] = NoLease /\ stage'[c] = "none"
        /\ \A d \in Calls \ {c} : lease'[d] = lease[d] /\ stage'[d] = stage[d]
    BY <1>1, <2>1 DEF TypeOK
  <2>4. Carried' = Carried /\ c \notin Carried
    BY <2>1, <2>3 DEF Carried, At
  <2>5. pending' \subseteq pending \cup {lease[c]} /\ IsFiniteSet(pending')
    BY <1>9, <2>1
  <2>6. \A l : l \in held' <=> (\E d \in Carried' : lease'[d] = l) \/ (pump' = "returning" /\ l = pumpLease')
    BY <1>1, <1>5, <2>1, <2>2, <2>3, <2>4 DEF Holding
  <2>7. lease[c] \notin held
    <3>1. \A d \in Carried : lease[d] # lease[c]
      BY <1>2, <1>5, <2>2, <2>4
    <3> QED BY <1>1, <1>2, <2>2, <3>1 DEF Holding
  <2>8. \A l \in pending' : l \notin held' /\ l # pumpLease' /\ \A d \in Calls : lease'[d] # l
    BY <1>1, <1>2, <2>1, <2>2, <2>3, <2>5, <2>7
  <2> QED BY <1>2, <1>3, <2>1, <2>2, <2>3, <2>5, <2>6, <2>8
<1>17. ASSUME NEW c \in Calls, DrainDispatched(c) PROVE Hands'
  <2>1. /\ stage[c] = "dispatched" /\ UNCHANGED <<limited, pump, pumpLease>> /\ held' = held \ {lease[c]}
        /\ stage' = [stage EXCEPT ![c] = "none"] /\ lease' = [lease EXCEPT ![c] = NoLease]
        /\ ReleaseSafely({lease[c]})
    BY <1>17 DEF DrainDispatched, pumpVars
  <2>2. limited
    BY <2>1 DEF Positions, TypeOK
  <2>3. /\ lease' \in [Calls -> Leases \cup {NoLease}] /\ lease'[c] = NoLease /\ stage'[c] = "none"
        /\ \A d \in Calls \ {c} : stage'[d] = stage[d] /\ lease'[d] = lease[d]
    BY <1>1, <2>1 DEF TypeOK
  <2> QED BY <1>11, <2>1, <2>2, <2>3
<1>18. CASE Maintain
  <2>1. pending' \subseteq pending /\ UNCHANGED <<limited, stage, lease, pump, pumpLease, held>>
    BY <1>18 DEF Maintain, runVars, pumpVars
  <2>2. Carried' = Carried /\ IsFiniteSet(pending')
    BY <1>2, <2>1, FS_Subset DEF Carried, At
  <2> QED BY <1>1, <1>2, <1>3, <2>1, <2>2 DEF Holding
<1>19. CASE StopWorkers /\ limited' = limited
  <2> DEFINE cut == {lease[c] : c \in At("releasing")} \cup (IF pump = "returning" THEN {pumpLease} ELSE {})
  <2>1. /\ pump' = "gone" /\ pumpLease' = NoLease /\ limited' = limited
        /\ held' = held \ cut /\ pending' = pending \cup cut
        /\ stage' = [c \in Calls |-> IF stage[c] = "releasing" THEN "none" ELSE stage[c]]
        /\ lease' = [c \in Calls |-> IF stage[c] = "releasing" THEN NoLease ELSE lease[c]]
    BY <1>19 DEF StopWorkers
  <2>2. /\ lease' \in [Calls -> Leases \cup {NoLease}]
        /\ \A c \in Calls : lease'[c] = IF stage[c] = "releasing" THEN NoLease ELSE lease[c]
        /\ \A c \in Calls : stage'[c] = IF stage[c] = "releasing" THEN "none" ELSE stage[c]
    BY <1>1, <2>1
  <2>3. Carried' = Carried
    BY <2>2 DEF Carried, At
  <2>4. \A l : l \in cut <=> (\E c \in Calls : stage[c] = "releasing" /\ lease[c] = l)
                            \/ (pump = "returning" /\ l = pumpLease)
    <3> DEFINE back == {lease[c] : c \in At("releasing")}
               mine == IF pump = "returning" THEN {pumpLease} ELSE {}
    <3>1. \A l : l \in back <=> \E c \in Calls : stage[c] = "releasing" /\ lease[c] = l
      BY DEF At
    <3>2. \A l : l \in mine <=> pump = "returning" /\ l = pumpLease
      OBVIOUS
    <3>3. \A l : l \in cut <=> l \in back \/ l \in mine
      BY Zenon
    <3> HIDE DEF cut, back, mine
    <3> QED BY <3>1, <3>2, <3>3
  <2>5. IsFiniteSet(cut)
    <3>1. At("releasing") \subseteq Made
      BY DEF At, Made, Positions
    <3>2. IsFiniteSet({lease[c] : c \in At("releasing")})
      BY <3>1, FS_Subset, LeasesFinite DEF Positions
    <3>3. IsFiniteSet(IF pump = "returning" THEN {pumpLease} ELSE {})
      BY FS_EmptySet, FS_Singleton
    <3> QED BY <3>2, <3>3, FS_Union
  <2> HIDE DEF cut
  <2>6. IsFiniteSet(pending')
    BY <1>2, <2>1, <2>5, FS_Union
  <2>7. \A l \in cut : l # NoLease
    <3>1. \A c \in Calls : stage[c] = "releasing" => limited
      BY DEF Positions
    <3>2. \A c \in Calls : stage[c] = "releasing" => lease[c] # NoLease
      BY <1>2, <3>1
    <3>3. pump = "returning" => pumpLease # NoLease
      BY <1>2
    <3> QED BY <2>4, <3>2, <3>3
  <2>8. limited => \A l : l \in held' <=> \E c \in Carried' : lease'[c] = l
    <3> SUFFICES ASSUME limited, NEW l PROVE l \in held' <=> \E c \in Carried' : lease'[c] = l
      OBVIOUS
    <3>1. l \in held <=> (\E c \in Carried : lease[c] = l) \/ (pump = "returning" /\ l = pumpLease)
      BY <1>1 DEF Holding
    <3>2. \A c \in Carried : lease'[c] = lease[c] /\ lease[c] # NoLease /\ lease[c] # pumpLease
      BY <1>2, <1>5, <2>2
    <3>3. \A c \in Carried, d \in Calls : stage[d] = "releasing" => lease[c] # lease[d]
      BY <1>2, <1>5, <3>2
    <3>4. \A c \in Carried : lease[c] \notin cut
      BY <2>4, <3>2, <3>3
    <3> QED BY <2>1, <2>3, <2>4, <3>1, <3>2, <3>4
  <2>9. /\ \A c \in Calls : lease'[c] # NoLease <=> limited /\ stage'[c] # "none"
        /\ \A c, d \in Calls : c # d /\ lease'[c] # NoLease => lease'[c] # lease'[d]
        /\ \A c \in Calls : lease'[c] # NoLease => lease'[c] # pumpLease'
    BY <1>2, <2>1, <2>2
  <2>10. \A l \in pending' : l \notin held' /\ l # pumpLease' /\ \A c \in Calls : lease'[c] # l
    <3>1. ASSUME NEW l \in pending PROVE l \notin held' /\ l # pumpLease' /\ \A c \in Calls : lease'[c] # l
      BY <1>1, <2>1, <2>2, <3>1
    <3>2. ASSUME NEW l \in cut PROVE l \notin held' /\ l # pumpLease' /\ \A c \in Calls : lease'[c] # l
      <4>1. ASSUME NEW c \in Calls, lease'[c] = l PROVE FALSE
        <5>1. stage[c] # "releasing" /\ lease[c] = l /\ lease[c] # NoLease
          BY <2>2, <2>7, <3>2, <4>1
        <5> QED BY <1>2, <2>4, <3>2, <5>1
      <4> QED BY <2>1, <2>7, <3>2, <4>1
    <3> QED BY <2>1, <3>1, <3>2
  <2>11. ~limited => held' = {}
    BY <1>2, <2>1
  <2> QED BY <1>3, <2>1, <2>2, <2>6, <2>8, <2>9, <2>10, <2>11
<1>20. CASE JoinReturns \/ ForceDrain
  BY <1>19, <1>20 DEF JoinReturns, ForceDrain
<1>21. CASE ReturnLeases
  <2>1. /\ shut = "return" /\ held' = {} /\ pending' = {} /\ UNCHANGED <<limited, stage, lease, pump, pumpLease>>
    BY <1>21 DEF ReturnLeases, runVars, pumpVars
  <2>2. Carried = {} /\ pump = "gone"
    BY <2>1 DEF Closing, Carried
  <2>3. Carried' = {}
    BY <2>1, <2>2 DEF Carried, At
  <2> QED BY <1>1, <1>2, <1>3, <2>1, <2>2, <2>3, FS_EmptySet
<1>22. ASSUME NEW c \in Calls, Call(c) \/ PassDoor(c) \/ LeaveDoor(c) PROVE Hands'
  BY <1>4, <1>22 DEF Call, PassDoor, LeaveDoor, runVars, pumpVars, leaseVars
<1>23. ASSUME NEW c \in Calls, Return(c) \/ Cancel(c) \/ CleanupEnds(c) \/ Timeout(c) \/ AnswerStuck(c)
       PROVE  Hands'
  BY <1>4, <1>23 DEF Return, Cancel, CleanupEnds, Timeout, AnswerStuck, runVars, pumpVars, leaseVars
<1>24. CASE (\E graceful \in BOOLEAN : Shutdown(graceful)) \/ JoinTimesOut \/ Gathered \/ StopHealthCheck
  BY <1>4, <1>24 DEF Shutdown, JoinTimesOut, Gathered, StopHealthCheck, runVars, pumpVars, leaseVars
<1>25. CASE (\E p \in Processes : OtherAcquires(p) \/ OtherDies(p)) \/ OtherReaps \/ Stall
           \/ (\E l \in Leases : OtherReleases(l) \/ Age(l))
  BY <1>4, <1>25 DEF OtherAcquires, OtherDies, OtherReaps, Stall, OtherReleases, Age, runVars, pumpVars, leaseVars
<1> QED BY <1>6, <1>7, <1>8, <1>10, <1>13, <1>14, <1>15, <1>16, <1>17, <1>18, <1>20, <1>21, <1>22, <1>23, <1>24, <1>25
        DEF Next, Caller, Worker, Pump, Ending

\* The types of what has to do with leases.
LEMMA StepLeaseTypes ==
  ASSUME QInv, Next
  PROVE  LeaseTypes'
<1> USE DEF QInv
<1>1. LeaseTypes /\ dead \in SUBSET Processes /\ stage \in [Calls -> {"none", "dispatched", "running", "releasing"}]
  BY TypesInParts DEF RunTypes
<1>2. ASSUME UNCHANGED <<lease, pump, pumpLease, held, pending, orphans, table>> PROVE LeaseTypes'
  BY <1>1, <1>2 DEF LeaseTypes
<1>3. ASSUME NEW l \in Leases, ReleaseSafely({l}) PROVE table' \in Tables /\ pending' \subseteq Leases
  <2>1. table \in Tables /\ pending \subseteq Leases
    BY <1>1 DEF LeaseTypes
  <2> QED BY <1>3, <2>1, ReleaseFacts DEF ReleaseSafely
<1>4. ASSUME NEW c \in Calls, stage[c] \in {"dispatched", "releasing"} PROVE lease[c] \in Leases
  <2>1. limited
    BY <1>4 DEF Positions, TypeOK
  <2>2. lease[c] # NoLease
    BY <1>4, <2>1 DEF Hands
  <2> QED BY <2>2, HandsFacts
<1>5. pump \in {"granted", "returning"} => pumpLease \in Leases
  BY <1>1 DEF Hands, LeaseTypes
<1>6. Reap(table, dead) \in Tables
  BY <1>1, ReapFacts DEF LeaseTypes
<1>7. CASE Ask
  <2>1. orphans' \subseteq orphans /\ UNCHANGED <<lease, held, pending>>
    BY <1>7 DEF Ask, runVars
  <2>2. CASE HasRoom(table, dead) /\ Unknown # {} /\ pumpLease' = NewLease
             /\ table' = Acquire(table, dead, Me, NewLease) /\ pump' = "granted"
    <3>1. NewLease \in Leases
      BY <2>2, UnknownFacts
    <3>2. table' \in Tables
      BY <1>1, <2>2, <3>1, AcquireFacts, Constants DEF LeaseTypes
    <3> QED BY <1>1, <2>1, <2>2, <3>1, <3>2 DEF LeaseTypes
  <2>3. CASE table' = Reap(table, dead) /\ UNCHANGED pumpVars
    BY <1>1, <1>6, <2>1, <2>3 DEF LeaseTypes, pumpVars
  <2> QED BY <1>7, <2>2, <2>3 DEF Ask
<1>8. CASE AskFails
  BY <1>1, <1>5, <1>8 DEF AskFails, LeaseTypes, runVars
<1>9. CASE Dispatch
  <2>1. /\ pump = "granted" /\ held' = held \cup {pumpLease} /\ UNCHANGED <<pending, table, orphans>>
    BY <1>9 DEF Dispatch
  <2>2. PICK found \in SUBSET Calls :
          /\ lease' = [c \in Calls |-> IF c \in found THEN pumpLease ELSE lease[c]]
          /\ IF found = {} THEN pump' = "returning" /\ pumpLease' = pumpLease
             ELSE pump' = "idle" /\ pumpLease' = NoLease
    BY <1>9, DispatchFacts
  <2> QED BY <1>1, <1>5, <2>1, <2>2 DEF LeaseTypes
<1>10. CASE ReturnUnused
  <2>1. /\ pump = "returning" /\ pump' = "idle" /\ pumpLease' = NoLease /\ held' = held \ {pumpLease}
        /\ ReleaseSafely({pumpLease}) /\ UNCHANGED <<lease, orphans>>
    BY <1>10 DEF ReturnUnused, runVars
  <2>2. table' \in Tables /\ pending' \subseteq Leases
    BY <1>3, <1>5, <2>1
  <2> QED BY <1>1, <2>1, <2>2 DEF LeaseTypes
<1>11. ASSUME NEW c \in Calls, PickUp(c) \/ RunEnds(c) PROVE LeaseTypes'
  <2>1. held' \subseteq held /\ UNCHANGED <<lease, pump, pumpLease, pending, orphans, table>>
    BY <1>11 DEF PickUp, RunEnds, EndRun, pumpVars
  <2> QED BY <1>1, <2>1 DEF LeaseTypes
<1>12. ASSUME NEW c \in Calls, GiveBack(c) \/ DrainDispatched(c) PROVE LeaseTypes'
  <2>1. /\ stage[c] \in {"dispatched", "releasing"} /\ held' \subseteq held
        /\ ReleaseSafely({lease[c]}) /\ lease' = [lease EXCEPT ![c] = NoLease]
        /\ UNCHANGED <<pump, pumpLease, orphans>>
    BY <1>12 DEF GiveBack, DrainDispatched, pumpVars
  <2>2. table' \in Tables /\ pending' \subseteq Leases
    BY <1>3, <1>4, <2>1
  <2> QED BY <1>1, <2>1, <2>2 DEF LeaseTypes
<1>13. CASE Maintain
  <2>1. /\ pending' \subseteq pending /\ orphans' \subseteq orphans
        /\ UNCHANGED <<lease, pump, pumpLease, held>>
        /\ \/ table' = Reap(Release(Renew(table, Me, held), pending), dead)
           \/ table' = Reap(Renew(table, Me, held), dead)
    BY <1>13 DEF Maintain, runVars, pumpVars
  <2>2. Renew(table, Me, held) \in Tables
    BY <1>1, RenewFacts, Constants DEF LeaseTypes
  <2>3. Release(Renew(table, Me, held), pending) \in Tables
    BY <2>2, ReleaseFacts
  <2>4. table' \in Tables
    BY <1>1, <2>1, <2>2, <2>3, ReapFacts
  <2> QED BY <1>1, <2>1, <2>4 DEF LeaseTypes
<1>14. CASE StopWorkers
  <2> DEFINE cut == {lease[c] : c \in At("releasing")} \cup (IF pump = "returning" THEN {pumpLease} ELSE {})
  <2>1. /\ pump' = "gone" /\ pumpLease' = NoLease
        /\ orphans' = orphans \cup (IF pump = "granted" THEN {pumpLease} ELSE {})
        /\ held' = held \ cut /\ pending' = pending \cup cut
        /\ \E reached \in SUBSET cut : table' = Release(table, reached)
        /\ lease' = [c \in Calls |-> IF stage[c] = "releasing" THEN NoLease ELSE lease[c]]
    BY <1>14 DEF StopWorkers
  <2>2. cut \subseteq Leases
    BY <1>4, <1>5 DEF At
  <2> HIDE DEF cut
  <2>3. table' \in Tables
    BY <1>1, <2>1, ReleaseFacts DEF LeaseTypes
  <2>4. lease' \in [Calls -> Leases \cup {NoLease}]
    BY <1>1, <2>1 DEF LeaseTypes
  <2>5. orphans' \subseteq Leases
    BY <1>1, <1>5, <2>1 DEF LeaseTypes
  <2> QED BY <1>1, <2>1, <2>2, <2>3, <2>4, <2>5 DEF LeaseTypes
<1>15. CASE ReturnLeases
  <2>1. PICK failed \in SUBSET (held \cup pending) :
          /\ table' = Release(table, (held \cup pending) \ failed)
          /\ orphans' = orphans \cup {l \in failed : table[l] # Vacant}
    BY <1>15 DEF ReturnLeases
  <2>2. held' = {} /\ pending' = {} /\ UNCHANGED <<lease, pump, pumpLease>>
    BY <1>15 DEF ReturnLeases, runVars, pumpVars
  <2>3. table' \in Tables
    BY <1>1, <2>1, ReleaseFacts DEF LeaseTypes
  <2> QED BY <1>1, <2>1, <2>2, <2>3 DEF LeaseTypes
<1>16. ASSUME NEW p \in Processes, OtherAcquires(p) PROVE LeaseTypes'
  <2>1. /\ Unknown # {} /\ table' = Acquire(table, dead, p, NewLease) /\ orphans' \subseteq orphans
        /\ UNCHANGED <<lease, pump, pumpLease, held, pending>>
    BY <1>16 DEF OtherAcquires, runVars, pumpVars
  <2>2. table' \in Tables
    BY <1>1, <2>1, UnknownFacts, AcquireFacts DEF LeaseTypes
  <2> QED BY <1>1, <2>1, <2>2 DEF LeaseTypes
<1>17. ASSUME NEW l \in Leases, OtherReleases(l) \/ Age(l) PROVE LeaseTypes'
  <2>1. UNCHANGED <<lease, pump, pumpLease, held, pending, orphans>>
    BY <1>17 DEF OtherReleases, Age, runVars, pumpVars
  <2>2. CASE OtherReleases(l)
    <3>1. table' \in Tables
      BY <1>1, <2>2, ReleaseFacts DEF OtherReleases, LeaseTypes
    <3> QED BY <1>1, <2>1, <3>1 DEF LeaseTypes
  <2>3. CASE Age(l)
    <3>1. table[l] \in Entries /\ table \in Tables
      BY <1>1, <2>3, TableFacts DEF Age, LeaseTypes
    <3>2. table' = [table EXCEPT ![l] = [table[l] EXCEPT !.age = Older(table[l].age)]]
      BY <2>3 DEF Age
    <3>3. [table[l] EXCEPT !.age = Older(table[l].age)] \in Entries
      BY <3>1 DEF Entries, Ages, Older
    <3>4. table' \in Tables
      BY <3>1, <3>2, <3>3 DEF Tables
    <3> QED BY <1>1, <2>1, <3>4 DEF LeaseTypes
  <2> QED BY <1>17, <2>2, <2>3
<1>18. CASE OtherReaps
  BY <1>1, <1>6, <1>18 DEF OtherReaps, LeaseTypes, runVars, pumpVars
<1>19. CASE Take \/ JoinTimesOut \/ Gathered \/ StopHealthCheck \/ Stall
            \/ (\E graceful \in BOOLEAN : Shutdown(graceful)) \/ (\E p \in Processes : OtherDies(p))
  BY <1>2, <1>19 DEF Take, JoinTimesOut, Gathered, StopHealthCheck, Stall, Shutdown, OtherDies, runVars, pumpVars, leaseVars
<1>20. ASSUME NEW c \in Calls, Call(c) \/ PassDoor(c) \/ LeaveDoor(c) PROVE LeaseTypes'
  BY <1>2, <1>20 DEF Call, PassDoor, LeaveDoor, runVars, pumpVars, leaseVars
<1>21. ASSUME NEW c \in Calls, Return(c) \/ Cancel(c) \/ CleanupEnds(c) \/ Timeout(c) \/ AnswerStuck(c)
       PROVE  LeaseTypes'
  BY <1>2, <1>21 DEF Return, Cancel, CleanupEnds, Timeout, AnswerStuck, runVars, pumpVars, leaseVars
<1>22. CASE JoinReturns \/ ForceDrain
  BY <1>14, <1>22 DEF JoinReturns, ForceDrain
<1> QED BY <1>7, <1>8, <1>9, <1>10, <1>11, <1>12, <1>13, <1>15, <1>16, <1>17, <1>18, <1>19, <1>20, <1>21, <1>22
        DEF Next, Caller, Worker, Pump, Ending

\* The table keeps to its limit, what is in use stays in it, and what is of this
\* process stays known to it.
LEMMA StepSlots ==
  ASSUME QInv, Next
  PROVE  Slots'
<1> USE DEF QInv
<1>1. /\ table \in Tables /\ dead \in SUBSET Processes /\ Me \notin dead /\ Me \in Processes
      /\ Within(table) /\ NoLease \notin Leases /\ held \subseteq Leases
      /\ lease \in [Calls -> Leases \cup {NoLease}]
      /\ ~stalled => \A l \in InHands : table[l] = Fresh(Me)
      /\ \A l \in Leases : table[l].pid = Me => l \in Known
      /\ Vacant.pid # Me /\ Fresh(Me).pid = Me
  BY Constants, EntryFacts DEF TypeOK, Slots, Known
<1>2. \A l : l \in Known <=> l \in held \/ l \in pending \/ (\E c \in Calls : lease[c] = l) \/ l \in orphans \/ l = pumpLease
  BY HandsFacts DEF Known
<1>3. \A l \in pending : l \notin held /\ l # pumpLease
  BY HandsFacts
<1>4. LeaseTypes'
  BY StepLeaseTypes
<1>5. \A l : l \in Known' <=> l \in held' \/ l \in pending' \/ (\E c \in Calls : lease'[c] = l) \/ l \in orphans' \/ l = pumpLease'
  BY <1>4 DEF Known, Range, LeaseTypes
<1>6. /\ pump \in {"granted", "returning"} => pumpLease \in Leases /\ pumpLease # NoLease
      /\ pump = "idle" => pumpLease = NoLease
      /\ \A l : l \in InHands <=> l \in held \/ (pump = "granted" /\ l = pumpLease)
      /\ \A l : l \in InHands' <=> l \in held' \/ (pump' = "granted" /\ l = pumpLease')
      /\ \A c \in Calls : lease[c] # NoLease => stage[c] # "none"
  BY DEF TypeOK, Hands, InHands
\* What has to be shown when nobody acquires.
<1>7. ASSUME Taken(table') \subseteq Taken(table),
             ~stalled' => ~stalled /\ \A l \in InHands' : l \in InHands /\ (table[l] = Fresh(Me) => table'[l] = Fresh(Me)),
             \A l \in Leases : table'[l].pid = Me => l \in Known' \/ (table[l].pid = Me /\ l \notin Known)
      PROVE  Slots'
  <2>1. Within(table')
    BY <1>1, <1>7, FewerWithin
  <2>2. Within(table)'
    BY <2>1 DEF Within, InUse, Taken
  <2> QED BY <1>1, <1>7, <2>2 DEF Slots, Known
<1>8. ASSUME table' = table, stalled => stalled', \A l \in InHands' : l \in InHands,
             \A l \in Leases : l \in Known => l \in Known'
      PROVE  Slots'
  BY <1>1, <1>7, <1>8
<1>9. ASSUME UNCHANGED <<table, lease, pump, pumpLease, held, pending, orphans>>, stalled => stalled'
      PROVE  Slots'
  BY <1>2, <1>5, <1>6, <1>8, <1>9
\* Reaping, alone and before somebody acquires.
<1>10. /\ Reap(table, dead) \in Tables /\ Taken(Reap(table, dead)) \subseteq Taken(table)
       /\ \A l \in Leases : table[l] = Fresh(Me) => Reap(table, dead)[l] = Fresh(Me)
       /\ \A l \in Leases : Reap(table, dead)[l].pid = Me => table[l].pid = Me /\ Reap(table, dead)[l] # Vacant
  <2>1. Me \in Processes \ dead
    BY <1>1
  <2> QED BY <1>1, <2>1, ReapFacts
<1>11. ASSUME table' = Reap(table, dead), orphans' = {l \in orphans : table'[l] # Vacant},
              UNCHANGED <<stalled, lease, pump, pumpLease, held, pending>>
       PROVE  Slots'
  <2>1. \A l \in InHands' : l \in InHands /\ l \in Leases
    BY <1>1, <1>6, <1>11
  <2>2. \A l \in Leases : table'[l].pid = Me => l \in Known' \/ l \notin Known
    BY <1>2, <1>5, <1>10, <1>11
  <2> QED BY <1>7, <1>10, <1>11, <2>1, <2>2
<1>12. ASSUME NEW p \in Processes, Unknown # {}, HasRoom(table, dead), table' = Acquire(table, dead, p, NewLease),
              orphans' = {l \in orphans : table'[l] # Vacant}, UNCHANGED <<stalled, lease, held, pending>>,
              \/ p = Me /\ pump = "idle" /\ pump' = "granted" /\ pumpLease' = NewLease
              \/ p # Me /\ UNCHANGED <<pump, pumpLease>>
       PROVE  Slots'
  <2>1. NewLease \in Leases /\ NewLease \notin Known
    BY <1>12, UnknownFacts DEF Known
  <2>2. /\ table'[NewLease] = Fresh(p)
        /\ \A m \in Leases \ {NewLease} : table'[m] = Reap(table, dead)[m]
    <3> DEFINE t == Acquire(table, dead, p, NewLease)
    <3>1. /\ t[NewLease] = Fresh(p)
          /\ \A m \in Leases \ {NewLease} : t[m] = Reap(table, dead)[m]
      BY <1>1, <2>1, AcquireFacts
    <3>2. table' = t
      BY <1>12
    <3> HIDE DEF t
    <3> QED BY <3>1, <3>2
  <2>3. Within(table')
    BY <1>1, <1>12, <2>1, AcquireWithin
  <2>4. Within(table)'
    BY <2>3 DEF Within, InUse, Taken
  <2>5. ~stalled' => \A l \in InHands' : table'[l] = Fresh(Me)
    <3> SUFFICES ASSUME ~stalled', NEW l \in InHands' PROVE table'[l] = Fresh(Me)
      OBVIOUS
    <3>1. CASE l \in InHands
      <4>1. l \in Leases /\ l # NewLease
        BY <1>1, <1>2, <1>6, <2>1, <3>1
      <4> QED BY <1>1, <1>10, <1>12, <2>2, <3>1, <4>1
    <3>2. CASE l \notin InHands
      BY <1>6, <1>12, <2>2, <3>2
    <3> QED BY <3>1, <3>2
  <2>6. ASSUME NEW l \in Leases, table'[l].pid = Me PROVE l \in Known'
    <3>1. CASE l = NewLease
      <4>1. Fresh(p).pid = p
        BY EntryFacts
      <4> QED BY <1>5, <1>12, <2>2, <2>6, <3>1, <4>1
    <3>2. CASE l # NewLease
      <4>1. table[l].pid = Me /\ table'[l] # Vacant
        BY <1>10, <2>2, <2>6, <3>2
      <4>2. l \in Known
        BY <1>1, <4>1
      <4>3. pump = "idle" => l # pumpLease
        BY <1>1, <1>6
      <4> QED BY <1>2, <1>5, <1>12, <4>1, <4>2, <4>3
    <3> QED BY <3>1, <3>2
  <2> QED BY <2>4, <2>5, <2>6 DEF Slots, Known
<1>13. CASE Ask
  <2>1. /\ pump = "idle" /\ orphans' = {l \in orphans : table'[l] # Vacant}
        /\ UNCHANGED <<stalled, lease, held, pending>>
    BY <1>13 DEF Ask, runVars, envVars
  <2>2. CASE /\ HasRoom(table, dead) /\ Unknown # {} /\ pumpLease' = NewLease
             /\ table' = Acquire(table, dead, Me, NewLease) /\ pump' = "granted"
    BY <1>1, <1>12, <2>1, <2>2
  <2>3. CASE table' = Reap(table, dead) /\ UNCHANGED pumpVars
    BY <1>11, <2>1, <2>3 DEF pumpVars
  <2> QED BY <1>13, <2>2, <2>3 DEF Ask
<1>14. CASE AskFails
  <2>1. /\ pump = "granted" /\ pump' = "idle" /\ orphans' = orphans \cup {pumpLease}
        /\ UNCHANGED <<lease, held, pending, table, stalled>>
    BY <1>14 DEF AskFails, runVars
  <2> QED BY <1>2, <1>5, <1>6, <1>8, <2>1
<1>15. CASE Dispatch
  <2>1. /\ pump = "granted" /\ held' = held \cup {pumpLease} /\ UNCHANGED <<pending, table, orphans, stalled>>
    BY <1>15 DEF Dispatch, envVars
  <2>2. PICK found \in SUBSET Calls :
          /\ found \subseteq ToSet(queue)
          /\ lease' = [c \in Calls |-> IF c \in found THEN pumpLease ELSE lease[c]]
          /\ IF found = {} THEN pump' = "returning" /\ pumpLease' = pumpLease
             ELSE pump' = "idle" /\ pumpLease' = NoLease
    BY <1>15, DispatchFacts
  <2>3. \A c \in found : lease[c] = NoLease
    BY <1>6, <2>2 DEF Positions
  <2>4. \A l \in Leases : l \in Known => l \in Known'
    BY <1>1, <1>2, <1>5, <2>1, <2>2, <2>3
  <2> QED BY <1>6, <1>8, <2>1, <2>2, <2>4
\* A release: what it names is out of the table or parked.
<1>16. ASSUME NEW l \in Leases, ReleaseSafely({l}), l \notin InHands', UNCHANGED <<stalled, orphans>>,
              \A m \in Leases \ {l} : m \in Known => m \in held' \/ m \in pending \/ (\E c \in Calls : lease'[c] = m)
                                                    \/ m \in orphans \/ m = pumpLease',
              \A m \in InHands' : m \in InHands
       PROVE  Slots'
  <2>1. Taken(table') \subseteq Taken(table) /\ \A m \in Leases \ {l} : table'[m] = table[m]
    BY <1>1, <1>16, ReleaseFacts DEF ReleaseSafely
  <2>2. \A m \in pending \ {l} : m \in pending'
    BY <1>16 DEF ReleaseSafely
  <2>3. table'[l].pid = Me => l \in pending'
    <3>1. CASE table' = Release(table, {l})
      <4>1. table'[l] = Vacant
        BY <1>1, <3>1, ReleaseFacts
      <4> QED BY <1>1, <4>1
    <3>2. CASE pending' = pending \cup {l}
      BY <3>2
    <3> QED BY <1>16, <3>1, <3>2 DEF ReleaseSafely
  <2>4. \A m \in InHands' : m \in Leases
    BY <1>1, <1>6, <1>16
  <2>5. ASSUME NEW m \in Leases, table'[m].pid = Me PROVE m \in Known' \/ (table[m].pid = Me /\ m \notin Known)
    <3>1. CASE m = l
      BY <1>5, <2>3, <2>5, <3>1
    <3>2. CASE m # l
      <4>1. table[m].pid = Me
        BY <2>1, <2>5, <3>2
      <4>2. m \in pending => m \in pending'
        BY <2>2, <3>2
      <4> QED BY <1>5, <1>16, <3>2, <4>1, <4>2
    <3> QED BY <3>1, <3>2
  <2>6. \A m \in InHands' : m \in InHands /\ (table[m] = Fresh(Me) => table'[m] = Fresh(Me))
    BY <1>16, <2>1, <2>4
  <2> QED BY <1>7, <1>16, <2>1, <2>5, <2>6
<1>17. CASE ReturnUnused
  <2>1. /\ pump = "returning" /\ pump' = "idle" /\ held' = held \ {pumpLease}
        /\ ReleaseSafely({pumpLease}) /\ UNCHANGED <<lease, orphans, stalled>>
    BY <1>17 DEF ReturnUnused, runVars
  <2> QED BY <1>2, <1>6, <1>16, <2>1
<1>18. ASSUME NEW c \in Calls, PickUp(c) \/ RunEnds(c) PROVE Slots'
  <2>1. /\ held' = held \/ held' = held \ {lease[c]}
        /\ UNCHANGED <<lease, pump, pumpLease, pending, orphans, table, stalled>>
    BY <1>18 DEF PickUp, RunEnds, EndRun, pumpVars, envVars
  <2> QED BY <1>2, <1>5, <1>6, <1>8, <2>1
<1>19. ASSUME NEW c \in Calls, GiveBack(c) \/ DrainDispatched(c) PROVE Slots'
  <2>1. /\ stage[c] \in {"dispatched", "releasing"}
        /\ ReleaseSafely({lease[c]}) /\ lease' = [lease EXCEPT ![c] = NoLease]
        /\ UNCHANGED <<pump, pumpLease, orphans, stalled>>
        /\ \/ held' = held \ {lease[c]}
           \/ held' = held /\ stage[c] = "releasing"
    BY <1>19 DEF GiveBack, DrainDispatched, pumpVars
  <2>2. limited /\ lease[c] # NoLease /\ lease[c] # pumpLease
    BY <2>1 DEF Hands, Positions, TypeOK
  <2>3. lease[c] \in Leases
    BY <1>1, <2>2
  <2>4. stage[c] = "releasing" => lease[c] \notin held
    <3>1. \A d \in Carried : d \in Calls /\ stage[d] \in {"dispatched", "running"}
      BY DEF Carried, At
    <3>2. stage[c] = "releasing" => \A d \in Carried : lease[d] # lease[c]
      BY <2>2, <3>1 DEF Hands
    <3> QED BY <2>2, <3>2, HandsFacts DEF Holding
  <2>5. lease[c] \notin InHands' /\ \A m \in InHands' : m \in InHands
    BY <1>6, <2>1, <2>2, <2>4
  <2>6. \A d \in Calls \ {c} : lease'[d] = lease[d]
    BY <1>1, <2>1
  <2>7. \A m \in Leases \ {lease[c]} : m \in Known => m \in held' \/ m \in pending \/ (\E d \in Calls : lease'[d] = m)
                                                     \/ m \in orphans \/ m = pumpLease'
    BY <1>2, <2>1, <2>6
  <2> QED BY <1>16, <2>1, <2>3, <2>5, <2>7
<1>20. CASE Maintain
  <2>1. /\ orphans' = {l \in orphans : table'[l] # Vacant}
        /\ UNCHANGED <<lease, pump, pumpLease, held, stalled>>
        /\ \/ table' = Reap(Release(Renew(table, Me, held), pending), dead) /\ pending' = {}
           \/ table' = Reap(Renew(table, Me, held), dead) /\ pending' = pending
    BY <1>20 DEF Maintain, runVars, pumpVars
  <2> DEFINE renewed == Renew(table, Me, held)
  <2>2. /\ renewed \in Tables /\ Taken(renewed) = Taken(table)
        /\ \A l \in Leases : renewed[l] = IF l \in held /\ table[l] # Vacant THEN Fresh(Me) ELSE table[l]
    BY <1>1, RenewFacts
  <2> HIDE DEF renewed
  <2>3. PICK gone \in {{}, pending} :
          /\ pending' = pending \ gone
          /\ table' = Reap(Release(renewed, gone), dead)
    <3>1. Release(renewed, {}) = renewed
      BY <2>2 DEF Release, Tables
    <3>2. CASE table' = Reap(Release(renewed, pending), dead) /\ pending' = {}
      BY <3>2
    <3>3. CASE table' = Reap(renewed, dead) /\ pending' = pending
      BY <3>1, <3>3
    <3> QED BY <2>1, <3>2, <3>3 DEF renewed
  <2>4. /\ Release(renewed, gone) \in Tables /\ Taken(Release(renewed, gone)) \subseteq Taken(renewed)
        /\ \A l \in Leases : Release(renewed, gone)[l] = IF l \in gone THEN Vacant ELSE renewed[l]
    BY <2>2, ReleaseFacts
  <2> DEFINE t == Release(renewed, gone)
  <2> HIDE DEF t
  <2>5. /\ Taken(table') \subseteq Taken(t)
        /\ \A l \in Leases : t[l] = Fresh(Me) => table'[l] = Fresh(Me)
        /\ \A l \in Leases : table'[l].pid = Me => t[l].pid = Me /\ table'[l] # Vacant
    <3>1. Me \in Processes \ dead /\ t \in Tables /\ table' = Reap(t, dead)
      BY <1>1, <2>3, <2>4 DEF t
    <3> QED BY <1>1, <3>1, ReapFacts
  <2>6. Taken(table') \subseteq Taken(table)
    BY <2>2, <2>4, <2>5 DEF t
  <2>7. ASSUME NEW l \in InHands' PROVE l \in InHands /\ (table[l] = Fresh(Me) => table'[l] = Fresh(Me))
    <3>1. l \in InHands /\ l \in Leases /\ l \notin gone
      BY <1>1, <1>3, <1>6, <2>1, <2>3
    <3>2. table[l] = Fresh(Me) => t[l] = Fresh(Me)
      BY <2>2, <2>4, <3>1 DEF t
    <3> QED BY <2>5, <3>1, <3>2
  <2>8. ASSUME NEW l \in Leases, table'[l].pid = Me PROVE l \in Known' \/ (table[l].pid = Me /\ l \notin Known)
    <3>1. t[l].pid = Me /\ table'[l] # Vacant
      BY <2>5, <2>8
    <3>2. l \notin gone /\ renewed[l].pid = Me
      BY <1>1, <2>4, <3>1 DEF t
    <3>3. l \in held \/ table[l].pid = Me
      BY <2>2, <3>2
    <3> QED BY <1>2, <1>5, <2>1, <2>3, <3>1, <3>2, <3>3
  <2> QED BY <1>7, <2>1, <2>6, <2>7, <2>8
<1>21. CASE StopWorkers /\ stalled' = stalled
  <2> DEFINE cut == {lease[c] : c \in At("releasing")} \cup (IF pump = "returning" THEN {pumpLease} ELSE {})
  <2>1. /\ pump' = "gone" /\ pumpLease' = NoLease
        /\ orphans' = orphans \cup (IF pump = "granted" THEN {pumpLease} ELSE {})
        /\ held' = held \ cut /\ pending' = pending \cup cut
        /\ lease' = [c \in Calls |-> IF stage[c] = "releasing" THEN NoLease ELSE lease[c]]
    BY <1>21 DEF StopWorkers
  <2>2. PICK reached \in SUBSET cut : table' = Release(table, reached)
    BY <1>21 DEF StopWorkers
  <2>3. \A c \in Calls : stage[c] = "releasing" => lease[c] \in cut
    BY DEF At
  <2>4. pump = "returning" => pumpLease \in cut
    OBVIOUS
  <2> HIDE DEF cut
  <2>5. \A l \in Leases : l \in Known => l \in Known'
    <3> SUFFICES ASSUME NEW l \in Leases, l \in Known PROVE l \in Known'
      OBVIOUS
    <3>1. \A c \in Calls : lease[c] = l => l \in cut \/ lease'[c] = l
      BY <2>1, <2>3
    <3>2. l = pumpLease => pump \in {"granted", "returning"}
      BY <1>1 DEF Hands, TypeOK
    <3>3. l = pumpLease => l \in cut \/ l \in orphans'
      BY <2>1, <2>4, <3>2
    <3> QED BY <1>2, <1>5, <2>1, <3>1, <3>3
  <2>6. Taken(table') \subseteq Taken(table) /\ \A l \in Leases : table'[l] = IF l \in reached THEN Vacant ELSE table[l]
    BY <1>1, <2>2, ReleaseFacts
  <2>7. \A l \in InHands' : l \in InHands /\ l \in Leases /\ l \notin reached
    BY <1>1, <1>6, <2>1, <2>2
  <2>8. \A l \in Leases : table'[l].pid = Me => table[l].pid = Me
    BY <1>1, <2>6
  <2> QED BY <1>7, <1>21, <2>5, <2>6, <2>7, <2>8
<1>22. CASE JoinReturns \/ ForceDrain
  BY <1>21, <1>22 DEF JoinReturns, ForceDrain, envVars
<1>23. CASE ReturnLeases
  <2>1. PICK failed \in SUBSET (held \cup pending) :
          /\ table' = Release(table, (held \cup pending) \ failed)
          /\ orphans' = orphans \cup {l \in failed : table[l] # Vacant}
    BY <1>23 DEF ReturnLeases
  <2>2. held' = {} /\ pending' = {} /\ shut = "return" /\ UNCHANGED <<lease, pump, pumpLease, stalled>>
    BY <1>23 DEF ReturnLeases, runVars, pumpVars
  <2>3. pump = "gone"
    BY <2>2 DEF Closing
  <2>4. /\ Taken(table') \subseteq Taken(table)
        /\ \A l \in Leases : table'[l] = IF l \in (held \cup pending) \ failed THEN Vacant ELSE table[l]
    BY <1>1, <2>1, ReleaseFacts
  <2>5. ASSUME NEW l \in Leases, table'[l].pid = Me PROVE l \in Known' \/ (table[l].pid = Me /\ l \notin Known)
    <3>1. table[l].pid = Me /\ l \notin (held \cup pending) \ failed /\ table[l] # Vacant
      BY <1>1, <2>4, <2>5
    <3> QED BY <1>2, <1>5, <2>1, <2>2, <3>1
  <2>6. \A l : l \notin InHands'
    BY <1>6, <2>2, <2>3
  <2> QED BY <1>7, <2>2, <2>4, <2>5, <2>6
<1>24. ASSUME NEW p \in Processes, OtherAcquires(p) PROVE Slots'
  BY <1>12, <1>24 DEF OtherAcquires, runVars, pumpVars
<1>25. ASSUME NEW m \in Leases, OtherReleases(m) PROVE Slots'
  <2>1. /\ table' = Release(table, {m}) /\ table[m].pid # Me
        /\ UNCHANGED <<lease, pump, pumpLease, held, pending, orphans, stalled>>
    BY <1>25 DEF OtherReleases, Others, runVars, pumpVars, envVars
  <2>2. /\ Taken(table') \subseteq Taken(table)
        /\ \A l \in Leases : table'[l] = IF l = m THEN Vacant ELSE table[l]
    BY <1>1, <2>1, ReleaseFacts
  <2>3. \A l \in InHands' : l \in InHands /\ l \in Leases
    BY <1>1, <1>6, <2>1
  <2>4. \A l \in Leases : table'[l].pid = Me => l \in Known' \/ (table[l].pid = Me /\ l \notin Known)
    BY <1>1, <1>2, <1>5, <2>1, <2>2
  <2>5. \A l \in InHands' : l \in InHands /\ (table[l] = Fresh(Me) => table'[l] = Fresh(Me))
    BY <1>1, <2>1, <2>2, <2>3
  <2> QED BY <1>7, <2>1, <2>2, <2>4, <2>5
<1>26. ASSUME NEW m \in Leases, Age(m) PROVE Slots'
  <2>1. /\ table[m] # Vacant /\ (m \in Kept => stalled) /\ table' = [table EXCEPT ![m].age = Older(@)]
        /\ UNCHANGED <<lease, pump, pumpLease, held, pending, orphans, stalled>>
    BY <1>26 DEF Age, runVars, pumpVars, envVars
  <2>2. /\ \A l \in Leases \ {m} : table'[l] = table[l]
        /\ table'[m].pid = table[m].pid
    <3>1. table[m] \in Entries
      BY <1>1, <2>1, TableFacts
    <3>2. table' = [table EXCEPT ![m] = [table[m] EXCEPT !.age = Older(table[m].age)]]
      BY <2>1
    <3>3. [table[m] EXCEPT !.age = Older(table[m].age)].pid = table[m].pid
      BY <3>1 DEF Entries
    <3> QED BY <1>1, <3>2, <3>3 DEF Tables
  <2>3. Taken(table') \subseteq Taken(table)
    BY <2>1, <2>2 DEF Taken
  <2>4. \A l \in InHands' : l \in InHands /\ l \in Leases
    BY <1>1, <1>6, <2>1
  <2>5. \A l \in Leases : table'[l].pid = Me => l \in Known' \/ (table[l].pid = Me /\ l \notin Known)
    BY <1>2, <1>5, <2>1, <2>2
  <2>6. ~stalled => m \notin InHands
    BY <1>6, <2>1 DEF Kept
  <2> QED BY <1>7, <2>1, <2>2, <2>3, <2>4, <2>5, <2>6
<1>27. CASE OtherReaps
  BY <1>11, <1>27 DEF OtherReaps, runVars, pumpVars, envVars
<1>28. CASE Take \/ JoinTimesOut \/ Gathered \/ StopHealthCheck \/ Stall
            \/ (\E graceful \in BOOLEAN : Shutdown(graceful)) \/ (\E p \in Processes : OtherDies(p))
  BY <1>9, <1>28 DEF Take, JoinTimesOut, Gathered, StopHealthCheck, Stall, Shutdown, OtherDies,
                     runVars, pumpVars, leaseVars, envVars
<1>29. ASSUME NEW c \in Calls, Call(c) \/ PassDoor(c) \/ LeaveDoor(c) PROVE Slots'
  BY <1>9, <1>29 DEF Call, PassDoor, LeaveDoor, runVars, pumpVars, leaseVars, envVars
<1>30. ASSUME NEW c \in Calls, Return(c) \/ Cancel(c) \/ CleanupEnds(c) \/ Timeout(c) \/ AnswerStuck(c)
       PROVE  Slots'
  BY <1>9, <1>30 DEF Return, Cancel, CleanupEnds, Timeout, AnswerStuck, runVars, pumpVars, leaseVars, envVars
<1> QED BY <1>13, <1>14, <1>15, <1>17, <1>18, <1>19, <1>20, <1>22, <1>23, <1>24, <1>25, <1>26, <1>27, <1>28, <1>29, <1>30
        DEF Next, Caller, Worker, Pump, Ending

-----------------------------------------------------------------------------
(* The theorems.                                                            *)

\* The invariant holds at the start.
LEMMA InitQueue ==
  ASSUME Init
  PROVE  QInv
<1> USE DEF Init
<1>1. /\ \A c \in Calls : phase[c] = "idle" /\ task[c] = "absent" /\ stage[c] = "none" /\ lease[c] = NoLease
      /\ limited \in BOOLEAN /\ queue = <<>> /\ shut = "no"
  BY Constants
<1>2. At("dispatched") = {} /\ At("running") = {} /\ At("releasing") = {} /\ Carried = {} /\ Waiting = {} /\ Made = {}
  BY <1>1 DEF At, Carried, Waiting, Made
<1>3. IsFiniteSet({}) /\ Cardinality({}) = 0 /\ Len(queue) = 0 /\ ToSet(queue) = {}
  BY FS_EmptySet DEF ToSet
<1>4. table \in Tables /\ \A l \in Leases : table[l] = Vacant
  BY DEF Tables
<1>5. Taken(table) = {}
  BY <1>4 DEF Taken
<1>6. TypeOK
  <2>1. queue \in Seq(Calls)
    BY <1>1
  <2>2. /\ faults \in 0 .. bounds.faults /\ others \in 0 .. bounds.others
    BY Constants
  <2>3. /\ pump \in {"idle", "granted", "returning", "gone"} /\ pumpLease \in Leases \cup {NoLease}
        /\ dead \subseteq Processes \ {Me}
    OBVIOUS
  <2> QED BY <1>1, <1>4, <2>1, <2>2, <2>3 DEF TypeOK, Phases
<1>7. Positions
  <2>1. IsInjective(queue)
    BY <1>1 DEF IsInjective
  <2> QED BY <1>1, <1>2, <1>3, <2>1 DEF Positions
<1>8. Counts
  BY <1>2, <1>3, Constants DEF Counts
<1>9. Closing
  BY <1>1 DEF Closing
<1>10. Hands
  <2>1. \A l \in pending : FALSE
    OBVIOUS
  <2>2. {lease[c] : c \in Carried} = {}
    BY <1>2
  <2> QED BY <1>1, <1>3, <2>1, <2>2 DEF Hands
<1>11. Slots
  <2>1. Within(table)
    <3>1. IsFiniteSet(Taken(table)) /\ Cardinality(Taken(table)) = 0 /\ Limit \in Nat
      BY <1>3, <1>5, SlotsAssumption
    <3> HIDE DEF Init
    <3> QED BY <3>1 DEF Within, InUse
  <2>2. \A l \in InHands : FALSE
    BY DEF InHands
  <2>3. \A l \in Leases : table[l].pid # Me
    BY <1>4, Constants DEF Vacant
  <2> QED BY <2>1, <2>2, <2>3 DEF Slots
<1> QED BY <1>6, <1>7, <1>8, <1>9, <1>10, <1>11 DEF QInv

\* Every step keeps it.
LEMMA StepQueue ==
  ASSUME QInv, [Next]_vars
  PROVE  QInv'
<1>1. CASE Next
  <2>1. /\ Positions' /\ Reserved' /\ Closing' /\ CallTypes' /\ RunTypes' /\ Hands' /\ LeaseTypes' /\ Slots'
        /\ unfinished' = Len(queue') + Cardinality(Carried') /\ Len(queue') \in Nat
    BY <1>1, StepPositions, StepReserved, StepClosing, StepCallTypes, StepRunTypes, StepHands, StepLeaseTypes,
       StepSlots, StepUnfinished
  <2>2. IsFiniteSet(Made') /\ Carried' \subseteq Made'
    BY <2>1 DEF Positions, Carried, Made, At
  <2>3. Cardinality(Carried') \in Nat
    BY <2>2, FS_Subset, FS_CardinalityType
  <2>4. unfinished' \in Nat /\ liveQueued' \in Nat
    BY <2>1, <2>3 DEF Reserved
  <2>5. TypeOK'
    BY <2>1, <2>4 DEF TypeOK, CallTypes, RunTypes, LeaseTypes
  <2>6. Counts'
    BY <2>1 DEF Counts, Reserved
  <2> QED BY <2>1, <2>5, <2>6 DEF QInv
<1>2. CASE UNCHANGED vars
  <2>1. /\ UNCHANGED <<limited, phase, future, task, queue, unfinished, drained, liveQueued, stage, lease>>
        /\ UNCHANGED <<pump, pumpLease, held, pending, table, orphans, healthy, shut, dead, stalled, faults, others, bounds>>
    BY <1>2 DEF vars, callVars, queueVars, runVars, pumpVars, leaseVars, envVars
  <2>2. /\ Carried' = Carried /\ Waiting' = Waiting /\ Made' = Made /\ InHands' = InHands /\ Known' = Known
        /\ At("running")' = At("running") /\ At("releasing")' = At("releasing") /\ At("dispatched")' = At("dispatched")
    BY <2>1 DEF Carried, Waiting, Made, InHands, Known, At
  <2>3. TypeOK'
    BY <2>1 DEF QInv, TypeOK
  <2>4. Positions'
    BY <2>1, <2>2 DEF QInv, Positions
  <2>5. Counts'
    BY <2>1, <2>2 DEF QInv, Counts
  <2>6. Closing'
    BY <2>1, <2>2 DEF QInv, Closing
  <2>7. Hands'
    BY <2>1, <2>2 DEF QInv, Hands
  <2>8. Slots'
    <3>1. Within(table)'
      BY <2>1 DEF QInv, Slots, Within, InUse, Taken
    <3> QED BY <2>1, <2>2, <3>1 DEF QInv, Slots
  <2> QED BY <2>3, <2>4, <2>5, <2>6, <2>7, <2>8 DEF QInv
<1> QED BY <1>1, <1>2

LEMMA QueueInvariant == Spec => []QInv
<1>1. Init => QInv
  BY InitQueue
<1>2. QInv /\ [Next]_vars => QInv'
  BY StepQueue
<1> QED BY <1>1, <1>2, PTL DEF Spec

\* Every variable of the model call queue keeps its type, in both modes and
\* through every shutdown: in particular neither the reservations
\* (live_queued) nor the queue's unfinished count is ever decremented below
\* zero, which task_done() would answer with an exception.
THEOREM QueueTypeCorrect == Spec => []TypeOK
<1>1. QInv => TypeOK
  BY DEF QInv
<1> QED BY <1>1, QueueInvariant, PTL

\* Until a forced shutdown live_queued is the number of calls that are
\* registered and not taken by a worker, within max_queue_size, although
\* admission, the pump, the compaction and every way a caller leaves change it
\* on their own; and at all times the unfinished count, which join() waits for,
\* is the number of items queued, dispatched or running, zombies included.
THEOREM CountsAreExact == Spec => []CountsExact
<1>1. QInv => CountsExact
  BY DEF QInv, Counts, CountsExact, Waiting, Carried
<1> QED BY <1>1, QueueInvariant, PTL

\* The lease table never exceeds the group's limit, whoever acquires, reaps or
\* dies; two calls never share a lease; held_leases is exactly what is
\* dispatched, running or on its way back unused, so the health check renews
\* those and no others; a call at the provider keeps its slot unless the
\* process stalled; and a slot of this process in the table is one it knows of,
\* or one that a fault or a shutdown cut off and only a reaper brings back.
THEOREM LeasesAreAccounted == Spec => []LeasesAccounted
<1>1. QInv => LeasesAccounted
  <2> SUFFICES ASSUME QInv PROVE LeasesAccounted
    OBVIOUS
  <2> USE DEF QInv
  <2>1. InUse(table) <= Limit
    BY DEF Slots, Within
  <2>2. \A c, d \in Calls : c # d /\ lease[c] # NoLease => lease[c] # lease[d]
    BY DEF Hands
  <2>3. limited => held = {lease[c] : c \in At("dispatched") \cup At("running")}
                          \cup (IF pump = "returning" THEN {pumpLease} ELSE {})
    BY DEF Hands, Carried
  <2>4. ASSUME limited, ~stalled, NEW c \in At("dispatched") \cup At("running")
        PROVE  table[lease[c]].pid = Me
    <3>1. lease[c] \in held
      BY <2>3, <2>4
    <3>2. table[lease[c]] = Fresh(Me)
      BY <2>4, <3>1 DEF Slots, InHands
    <3> QED BY <3>2 DEF Fresh
  <2>5. \A l \in Leases : table[l].pid = Me => l \in held \cup pending \cup Range(lease) \cup orphans \cup {pumpLease}
    BY DEF Slots, Known
  <2> QED BY <2>1, <2>2, <2>3, <2>4, <2>5 DEF LeasesAccounted
<1> QED BY <1>1, QueueInvariant, PTL

=============================================================================
