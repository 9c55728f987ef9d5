----------------------------- MODULE GlobalSlots -----------------------------
(***************************************************************************)
(* The lease table of one concurrency group, shared by the worker          *)
(* processes of the LightRAG server: who holds which slot, and how old the *)
(* last heartbeat is. Every operator is one critical section under the     *)
(* group's keyed lock and maps the table before to the table after. The    *)
(* records of waiting processes are left out: only the delay between two   *)
(* attempts depends on them.                                               *)
(***************************************************************************)
EXTENDS Naturals, FiniteSets

CONSTANTS
    Leases,     \* identifiers, uuid4 in the code
    Processes,  \* worker processes
    Free,       \* the entry of a lease that is not in the table
    Limit       \* the group's global limit

ASSUME SlotsAssumption == Limit \in Nat \ {0} /\ Free \notin Processes

(* Age of a lease: its heartbeat is recent; older than the TTL and not yet     *)
(* noticed; noticed, so that the grace runs; noticed and the grace is over.    *)
Ages == {"fresh", "late", "suspect", "overdue"}

Entries == [pid : Processes, age : Ages]
Vacant == [pid |-> Free, age |-> "fresh"]
Tables == [Leases -> Entries \cup {Vacant}]

Fresh(p) == [pid |-> p, age |-> "fresh"]

Taken(table) == {l \in Leases : table[l] # Vacant}

InUse(table) == Cardinality(Taken(table))

(* Mutant: nobody looks whether a grace is over. *)
Reap_NeverDue(table, dead) ==
    [l \in Leases |->
        IF table[l].pid \in dead THEN Vacant
        ELSE IF table[l].age = "late" THEN [table[l] EXCEPT !.age = "suspect"]
        ELSE table[l]]

(* The reaper: the leases of the dead go at once, those of the living after    *)
(* they were seen late and a grace passed without a renewal.                   *)
Reap(table, dead) ==
    [l \in Leases |->
        IF table[l].pid \in dead \/ table[l].age = "overdue" THEN Vacant
        ELSE IF table[l].age = "late" THEN [table[l] EXCEPT !.age = "suspect"]
        ELSE table[l]]

(* A slot is there for whoever asks; every attempt reaps first. *)
HasRoom(table, dead) == InUse(Reap(table, dead)) < Limit

Acquire(table, dead, p, l) == [Reap(table, dead) EXCEPT ![l] = Fresh(p)]

Release(table, ls) == [l \in Leases |-> IF l \in ls THEN Vacant ELSE table[l]]

(* Mutant: a heartbeat puts a reclaimed lease back. *)
Renew_Resurrects(table, p, ls) ==
    [l \in Leases |-> IF l \in ls THEN Fresh(p) ELSE table[l]]

(* The heartbeat: what was reclaimed is not put back. *)
Renew(table, p, ls) ==
    [l \in Leases |-> IF l \in ls /\ table[l] # Vacant THEN Fresh(p) ELSE table[l]]

(* Time passes for one lease. *)
Older(age) ==
    IF age = "fresh" THEN "late" ELSE IF age = "suspect" THEN "overdue" ELSE age
=============================================================================
