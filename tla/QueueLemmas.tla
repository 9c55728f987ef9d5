---------------------------- MODULE QueueLemmas ----------------------------
(***************************************************************************)
(* Facts about FIFO queues whose elements are pairwise distinct: what each  *)
(* queue operation does to the set of elements.  The components' proofs     *)
(* reason about ToSet(q) and cite these instead of indices.  And the least  *)
(* and the greatest number of a set.                                        *)
(***************************************************************************)
EXTENDS Integers, SequencesExt, SequenceTheorems, WellFoundedInduction, TLAPS

\* The empty queue holds nothing.
LEMMA EmptyQueue ==
  /\ ToSet(<<>>) = {}
  /\ IsInjective(<<>>)
BY DEF ToSet, IsInjective

\* A queue of elements of S holds elements of S.
LEMMA QueueElements ==
  ASSUME NEW S, NEW q \in Seq(S)
  PROVE  ToSet(q) \subseteq S
BY DEF ToSet

\* The queue of one element.
LEMMA SingleQueue ==
  ASSUME NEW S, NEW x \in S
  PROVE  /\ <<x>> \in Seq(S)
         /\ ToSet(<<x>>) = {x}
         /\ IsInjective(<<x>>)
BY DEF ToSet, IsInjective

\* Enqueue: a new element keeps the queue free of duplicates.
LEMMA AppendQueue ==
  ASSUME NEW S, NEW q \in Seq(S), NEW x \in S
  PROVE  /\ Append(q, x) \in Seq(S)
         /\ ToSet(Append(q, x)) = ToSet(q) \cup {x}
         /\ IsInjective(q) /\ x \notin ToSet(q) => IsInjective(Append(q, x))
<1> DEFINE r == Append(q, x)
<1>1. /\ r \in Seq(S)
      /\ DOMAIN r = 1..(Len(q) + 1)
      /\ \A i \in 1..Len(q) : r[i] = q[i]
      /\ r[Len(q) + 1] = x
  BY AppendProperties, LenProperties
<1>2. Len(q) \in Nat /\ DOMAIN q = 1..Len(q)
  BY LenProperties
<1>3. ToSet(r) = ToSet(q) \cup {x}
  <2>1. ASSUME NEW y \in ToSet(r) PROVE y \in ToSet(q) \cup {x}
    BY <1>1, <1>2 DEF ToSet
  <2>2. ASSUME NEW y \in ToSet(q) PROVE y \in ToSet(r)
    BY <1>1, <1>2 DEF ToSet
  <2>3. x \in ToSet(r)
    BY <1>1, <1>2 DEF ToSet
  <2> QED BY <2>1, <2>2, <2>3
<1>4. ASSUME IsInjective(q), x \notin ToSet(q) PROVE IsInjective(r)
  <2> SUFFICES ASSUME NEW a \in DOMAIN r, NEW b \in DOMAIN r, r[a] = r[b]
               PROVE  a = b
    BY DEF IsInjective
  <2>1. \A i \in 1..Len(q) : q[i] \in ToSet(q)
    BY <1>2 DEF ToSet
  <2> QED BY <1>1, <1>2, <1>4, <2>1 DEF IsInjective
<1> QED BY <1>1, <1>3, <1>4

\* Dequeue: the head leaves, and only the head.
LEMMA TailQueue ==
  ASSUME NEW S, NEW q \in Seq(S), q # <<>>
  PROVE  /\ Head(q) \in S
         /\ Head(q) \in ToSet(q)
         /\ Tail(q) \in Seq(S)
         /\ ToSet(Tail(q)) \subseteq ToSet(q)
         /\ IsInjective(q) => /\ IsInjective(Tail(q))
                              /\ ToSet(Tail(q)) = ToSet(q) \ {Head(q)}
<1> DEFINE r == Tail(q)
<1>1. /\ Len(q) \in Nat \ {0}
      /\ DOMAIN q = 1..Len(q)
      /\ Head(q) = q[1] /\ Head(q) \in S
      /\ r \in Seq(S)
      /\ DOMAIN r = 1..(Len(q) - 1)
      /\ \A i \in 1..(Len(q) - 1) : r[i] = q[i + 1]
  BY EmptySeq, LenProperties, HeadTailProperties
<1>2. Head(q) \in ToSet(q)
  BY <1>1 DEF ToSet
<1>3. ToSet(r) \subseteq ToSet(q)
  BY <1>1 DEF ToSet
<1>4. ASSUME IsInjective(q) PROVE IsInjective(r) /\ ToSet(r) = ToSet(q) \ {Head(q)}
  <2>1. IsInjective(r)
    BY <1>1, <1>4 DEF IsInjective
  <2>2. Head(q) \notin ToSet(r)
    BY <1>1, <1>4 DEF IsInjective, ToSet
  <2>3. ASSUME NEW y \in ToSet(q), y # Head(q) PROVE y \in ToSet(r)
    <3>1. PICK i \in 1..Len(q) : y = q[i]
      BY <1>1 DEF ToSet
    <3>2. i - 1 \in 1..(Len(q) - 1) /\ r[i - 1] = y
      BY <1>1, <2>3, <3>1
    <3> QED BY <1>1, <3>2 DEF ToSet
  <2> QED BY <1>3, <2>1, <2>2, <2>3
<1> QED BY <1>1, <1>2, <1>3, <1>4

\* Two queues one behind the other.
LEMMA ConcatQueue ==
  ASSUME NEW S, NEW q \in Seq(S), NEW r \in Seq(S)
  PROVE  /\ q \o r \in Seq(S)
         /\ ToSet(q \o r) = ToSet(q) \cup ToSet(r)
         /\ IsInjective(q) /\ IsInjective(r) /\ ToSet(q) \cap ToSet(r) = {}
              => IsInjective(q \o r)
<1> DEFINE c == q \o r
<1>1. /\ c \in Seq(S)
      /\ Len(q) \in Nat /\ DOMAIN q = 1..Len(q)
      /\ Len(r) \in Nat /\ DOMAIN r = 1..Len(r)
      /\ DOMAIN c = 1..(Len(q) + Len(r))
      /\ \A i \in 1..(Len(q) + Len(r)) :
           c[i] = IF i <= Len(q) THEN q[i] ELSE r[i - Len(q)]
  BY ConcatProperties, LenProperties
<1>2. ToSet(c) \subseteq ToSet(q) \cup ToSet(r)
  <2> SUFFICES ASSUME NEW i \in DOMAIN c PROVE c[i] \in ToSet(q) \cup ToSet(r)
    BY DEF ToSet
  <2>1. CASE i <= Len(q)
    BY <1>1, <2>1 DEF ToSet
  <2>2. CASE ~(i <= Len(q))
    <3>1. i - Len(q) \in DOMAIN r /\ c[i] = r[i - Len(q)]
      BY <1>1, <2>2
    <3> QED BY <3>1 DEF ToSet
  <2> QED BY <2>1, <2>2
<1>3. ToSet(q) \subseteq ToSet(c)
  <2> SUFFICES ASSUME NEW i \in DOMAIN q PROVE q[i] \in ToSet(c)
    BY DEF ToSet
  <2>1. i \in DOMAIN c /\ c[i] = q[i]
    BY <1>1
  <2> QED BY <2>1 DEF ToSet
<1>4. ToSet(r) \subseteq ToSet(c)
  <2> SUFFICES ASSUME NEW i \in DOMAIN r PROVE r[i] \in ToSet(c)
    BY DEF ToSet
  <2>1. i + Len(q) \in DOMAIN c /\ c[i + Len(q)] = r[i]
    BY <1>1
  <2> QED BY <2>1 DEF ToSet
<1>5. ASSUME IsInjective(q), IsInjective(r), ToSet(q) \cap ToSet(r) = {}
      PROVE  IsInjective(c)
  <2> SUFFICES ASSUME NEW a \in DOMAIN c, NEW b \in DOMAIN c, c[a] = c[b]
               PROVE  a = b
    BY DEF IsInjective
  <2>1. \A i \in 1..Len(q), j \in 1..Len(r) : q[i] # r[j]
    BY <1>1, <1>5 DEF ToSet
  <2>2. CASE a <= Len(q)
    <3>1. a \in 1..Len(q) /\ c[a] = q[a]
      BY <1>1, <2>2
    <3>2. CASE b <= Len(q)
      <4>1. b \in 1..Len(q) /\ c[b] = q[b]
        BY <1>1, <3>2
      <4> QED BY <1>1, <1>5, <3>1, <4>1 DEF IsInjective
    <3>3. CASE ~(b <= Len(q))
      <4>1. b - Len(q) \in 1..Len(r) /\ c[b] = r[b - Len(q)]
        BY <1>1, <3>3
      <4> QED BY <2>1, <3>1, <4>1
    <3> QED BY <3>2, <3>3
  <2>3. CASE ~(a <= Len(q))
    <3>1. a - Len(q) \in 1..Len(r) /\ c[a] = r[a - Len(q)]
      BY <1>1, <2>3
    <3>2. CASE b <= Len(q)
      <4>1. b \in 1..Len(q) /\ c[b] = q[b]
        BY <1>1, <3>2
      <4> QED BY <2>1, <3>1, <4>1
    <3>3. CASE ~(b <= Len(q))
      <4>1. b - Len(q) \in 1..Len(r) /\ c[b] = r[b - Len(q)]
        BY <1>1, <3>3
      <4>2. a - Len(q) = b - Len(q)
        BY <1>1, <1>5, <3>1, <4>1 DEF IsInjective
      <4> QED BY <1>1, <4>2
    <3> QED BY <3>2, <3>3
  <2> QED BY <2>2, <2>3
<1> QED BY <1>1, <1>2, <1>3, <1>4, <1>5

\* A slice of a queue.
LEMMA SliceQueue ==
  ASSUME NEW S, NEW q \in Seq(S), NEW m \in Nat \ {0}, NEW n \in Nat, n <= Len(q)
  PROVE  /\ SubSeq(q, m, n) \in Seq(S)
         /\ Len(SubSeq(q, m, n)) = IF m <= n THEN n - m + 1 ELSE 0
         /\ ToSet(SubSeq(q, m, n)) = {q[i] : i \in m..n}
         /\ ToSet(SubSeq(q, m, n)) \subseteq ToSet(q)
         /\ IsInjective(q) => IsInjective(SubSeq(q, m, n))
<1> DEFINE r == SubSeq(q, m, n)
<1>1. Len(q) \in Nat /\ DOMAIN q = 1..Len(q) /\ \A i \in 1..Len(q) : q[i] \in S
  BY LenProperties, ElementOfSeq
<1>2. m..n \subseteq 1..Len(q)
  BY <1>1
<1>3. /\ r \in Seq(S)
      /\ Len(r) = IF m <= n THEN n - m + 1 ELSE 0
      /\ DOMAIN r = IF m <= n THEN 1..(n - m + 1) ELSE {}
      /\ \A i \in DOMAIN r : r[i] = q[m + i - 1] /\ m + i - 1 \in m..n
  <2>1. /\ r \in Seq(S)
        /\ Len(r) = IF m <= n THEN n - m + 1 ELSE 0
        /\ \A i \in 1..(n - m + 1) : r[i] = q[m + i - 1]
    BY <1>1, <1>2, SubSeqProperties
  <2>2. DOMAIN r = 1..Len(r)
    BY <2>1, LenProperties
  <2> QED BY <1>1, <2>1, <2>2
<1>4. ToSet(r) \subseteq {q[i] : i \in m..n}
  BY <1>3 DEF ToSet
<1>5. {q[i] : i \in m..n} \subseteq ToSet(r)
  <2> SUFFICES ASSUME NEW i \in m..n PROVE q[i] \in ToSet(r)
    OBVIOUS
  <2>1. i - m + 1 \in DOMAIN r /\ r[i - m + 1] = q[i]
    BY <1>1, <1>3
  <2> QED BY <2>1 DEF ToSet
<1>6. ToSet(r) \subseteq ToSet(q)
  BY <1>1, <1>2, <1>4 DEF ToSet
<1>7. ASSUME IsInjective(q) PROVE IsInjective(r)
  <2> SUFFICES ASSUME NEW a \in DOMAIN r, NEW b \in DOMAIN r, r[a] = r[b]
               PROVE  a = b
    BY DEF IsInjective
  <2>1. q[m + a - 1] = q[m + b - 1] /\ m + a - 1 \in 1..Len(q) /\ m + b - 1 \in 1..Len(q)
    BY <1>2, <1>3
  <2>2. m + a - 1 = m + b - 1
    BY <1>1, <1>7, <2>1 DEF IsInjective
  <2>3. \A j \in DOMAIN r : j \in Nat
    <3>1. DOMAIN r = 1..(n - m + 1) \/ DOMAIN r = {}
      BY <1>3
    <3> QED BY <3>1
  <2>4. a \in Nat /\ b \in Nat
    BY <2>3
  <2> QED BY <2>2, <2>4
<1> QED BY <1>3, <1>4, <1>5, <1>6, <1>7

\* A waiter gives up: it leaves the queue, and nobody else does.
LEMMA RemoveQueue ==
  ASSUME NEW S, NEW q \in Seq(S), NEW i \in DOMAIN q
  PROVE  /\ RemoveAt(q, i) \in Seq(S)
         /\ ToSet(RemoveAt(q, i)) \subseteq ToSet(q)
         /\ IsInjective(q) => /\ IsInjective(RemoveAt(q, i))
                              /\ ToSet(RemoveAt(q, i)) = ToSet(q) \ {q[i]}
<1> DEFINE f == SubSeq(q, 1, i - 1)
           g == SubSeq(q, i + 1, Len(q))
<1>1. Len(q) \in Nat /\ DOMAIN q = 1..Len(q) /\ i \in 1..Len(q)
  BY LenProperties
<1>2. /\ f \in Seq(S) /\ ToSet(f) = {q[j] : j \in 1..(i - 1)} /\ ToSet(f) \subseteq ToSet(q)
      /\ IsInjective(q) => IsInjective(f)
  <2> DEFINE k == i - 1
  <2>1. 1 \in Nat \ {0} /\ k \in Nat /\ k <= Len(q)
    BY <1>1
  <2> HIDE DEF k
  <2>2. /\ SubSeq(q, 1, k) \in Seq(S) /\ ToSet(SubSeq(q, 1, k)) = {q[j] : j \in 1..k}
        /\ ToSet(SubSeq(q, 1, k)) \subseteq ToSet(q)
        /\ IsInjective(q) => IsInjective(SubSeq(q, 1, k))
    BY <2>1, SliceQueue
  <2> QED BY <2>2 DEF k
<1>3. /\ g \in Seq(S) /\ ToSet(g) = {q[j] : j \in (i + 1)..Len(q)} /\ ToSet(g) \subseteq ToSet(q)
      /\ IsInjective(q) => IsInjective(g)
  <2> DEFINE k == i + 1
             n == Len(q)
  <2>1. k \in Nat \ {0} /\ n \in Nat /\ n <= Len(q)
    BY <1>1
  <2> HIDE DEF k, n
  <2>2. /\ SubSeq(q, k, n) \in Seq(S) /\ ToSet(SubSeq(q, k, n)) = {q[j] : j \in k..n}
        /\ ToSet(SubSeq(q, k, n)) \subseteq ToSet(q)
        /\ IsInjective(q) => IsInjective(SubSeq(q, k, n))
    BY <2>1, SliceQueue
  <2> QED BY <2>2 DEF k, n
<1>4. RemoveAt(q, i) = f \o g
  BY DEF RemoveAt
<1> HIDE DEF f, g
<1>5. /\ f \o g \in Seq(S)
      /\ ToSet(f \o g) = ToSet(f) \cup ToSet(g)
      /\ IsInjective(f) /\ IsInjective(g) /\ ToSet(f) \cap ToSet(g) = {} => IsInjective(f \o g)
  <2>1. f \in Seq(S) /\ g \in Seq(S)
    BY <1>2, <1>3
  <2> QED BY <2>1, ConcatQueue
<1>6. ASSUME IsInjective(q)
      PROVE  IsInjective(RemoveAt(q, i)) /\ ToSet(RemoveAt(q, i)) = ToSet(q) \ {q[i]}
  <2>1. \A a \in 1..(i - 1), b \in (i + 1)..Len(q) : q[a] # q[b] /\ q[a] # q[i] /\ q[b] # q[i]
    BY <1>1, <1>6 DEF IsInjective
  <2>2. ToSet(f) \cap ToSet(g) = {} /\ q[i] \notin ToSet(f) /\ q[i] \notin ToSet(g)
    <3>1. ToSet(f) \cap ToSet(g) = {}
      BY <1>2, <1>3, <2>1
    <3>2. \A a \in 1..(i - 1) : q[a] # q[i]
      BY <1>1, <1>6 DEF IsInjective
    <3>3. \A b \in (i + 1)..Len(q) : q[b] # q[i]
      BY <1>1, <1>6 DEF IsInjective
    <3> QED BY <1>2, <1>3, <3>1, <3>2, <3>3
  <2>3. IsInjective(RemoveAt(q, i))
    BY <1>2, <1>3, <1>4, <1>5, <1>6, <2>2
  <2>4. ASSUME NEW y \in ToSet(q), y # q[i] PROVE y \in ToSet(f) \cup ToSet(g)
    <3>1. PICK j \in 1..Len(q) : y = q[j]
      BY <1>1 DEF ToSet
    <3>2. j \in 1..(i - 1) \/ j \in (i + 1)..Len(q)
      BY <1>1, <2>4, <3>1
    <3> QED BY <1>2, <1>3, <3>1, <3>2
  <2> QED BY <1>2, <1>3, <1>4, <1>5, <2>2, <2>3, <2>4
<1> QED BY <1>2, <1>3, <1>4, <1>5, <1>6

\* The first of a queue stays first when another leaves, or one more comes.
LEMMA KeepsHead ==
  ASSUME NEW S, NEW q \in Seq(S), q # <<>>
  PROVE  /\ \A x \in S : Append(q, x) # <<>> /\ Head(Append(q, x)) = Head(q)
         /\ \A i \in DOMAIN q \ {1} : RemoveAt(q, i) # <<>> /\ Head(RemoveAt(q, i)) = Head(q)
<1>1. Len(q) \in Nat /\ DOMAIN q = 1..Len(q) /\ 1 \in 1..Len(q) /\ Head(q) = q[1]
  BY LenProperties, EmptySeq, HeadTailProperties
<1>2. ASSUME NEW x \in S PROVE Append(q, x) # <<>> /\ Head(Append(q, x)) = Head(q)
  BY <1>1, AppendProperties
<1>3. ASSUME NEW i \in DOMAIN q \ {1}
      PROVE  RemoveAt(q, i) # <<>> /\ Head(RemoveAt(q, i)) = Head(q)
  <2> DEFINE f == SubSeq(q, 1, i - 1)
             g == SubSeq(q, i + 1, Len(q))
  <2>1. i \in 2..Len(q)
    BY <1>1
  <2>2. f \in Seq(S) /\ Len(f) = i - 1 /\ f[1] = q[1]
    <3>1. \A j \in 1..(i - 1) : q[j] \in S
      BY <1>1, <2>1, ElementOfSeq
    <3> QED
      BY <1>1, <2>1, <3>1, SubSeqProperties
  <2>3. g \in Seq(S)
    <3>1. i + 1 \in Nat \ {0} /\ Len(q) \in Nat /\ Len(q) <= Len(q)
      BY <1>1, <2>1
    <3> QED
      BY <3>1, SliceQueue
  <2> HIDE DEF f, g
  <2>4. f \o g \in Seq(S) /\ Len(f \o g) = Len(f) + Len(g) /\ (f \o g)[1] = f[1]
    BY <2>1, <2>2, <2>3, ConcatProperties, LenProperties
  <2>5. f \o g # <<>> /\ Head(f \o g) = q[1]
    BY <2>1, <2>2, <2>3, <2>4, LenProperties, EmptySeq, HeadTailProperties
  <2>6. RemoveAt(q, i) = f \o g
    BY DEF RemoveAt, f, g
  <2> QED
    BY <1>1, <2>5, <2>6
<1> QED
  BY <1>2, <1>3

-----------------------------------------------------------------------------
(* Numbers.                                                                 *)

LessThan == {ss \in Nat \X Nat : ss[1] < ss[2]}

\* The order of the naturals is well founded.
LEMMA LessThanWellFounded == IsWellFoundedOn(LessThan, Nat)
BY NatLessThanWellFounded, Zenon DEF OpToRel, LessThan

\* A set of naturals has a least element.
LEMMA LeastNatural ==
  ASSUME NEW S \in SUBSET Nat, S # {}
  PROVE  \E x \in S : \A y \in S : x <= y
<1>1. \A x \in Nat, y \in Nat : y < x => <<y, x>> \in LessThan
  BY DEF LessThan
<1>2. PICK x \in S : \A y \in S : ~(<<y, x>> \in LessThan)
  BY LessThanWellFounded, WFMin
<1>3. ASSUME NEW y \in S PROVE x <= y
  <2>1. x \in Nat /\ y \in Nat
    OBVIOUS
  <2>2. ~(<<y, x>> \in LessThan)
    BY <1>2
  <2>3. ~(y < x)
    BY <2>1, <2>2, <1>1
  <2> QED BY <2>1, <2>3
<1> QED BY <1>3

\* So Min is one of its elements.
LEMMA MinFacts ==
  ASSUME NEW S \in SUBSET Nat, S # {}
  PROVE  Min(S) \in S /\ \A y \in S : Min(S) <= y
BY LeastNatural DEF Min

\* And if it is bounded, so is Max.
LEMMA MaxFacts ==
  ASSUME NEW n \in Nat, NEW S \in SUBSET (0 .. n), S # {}
  PROVE  Max(S) \in S /\ \A y \in S : Max(S) >= y
<1> DEFINE T == {n - x : x \in S}
<1>1. T \in SUBSET Nat /\ T # {}
  OBVIOUS
<1>2. PICK z \in T : \A y \in T : z <= y
  <2> HIDE DEF T
  <2> QED BY <1>1, LeastNatural
<1>3. PICK x \in S : z = n - x
  OBVIOUS
<1>4. ASSUME NEW y \in S PROVE x >= y
  <2>1. n - y \in T
    OBVIOUS
  <2>2. x \in 0 .. n /\ y \in 0 .. n /\ n - x <= n - y
    BY <1>2, <1>3, <2>1
  <2> QED BY <2>2
<1>5. \E a \in S : \A y \in S : a >= y
  BY <1>4
<1> QED BY <1>5 DEF Max

=============================================================================
