------------------------- MODULE SessionHistoryProofs -------------------------
(***************************************************************************)
(* Proofs about SessionHistory, for every number of turns, iterations,     *)
(* faults, /new and idle compactions.                                      *)
(***************************************************************************)
EXTENDS SessionHistory, QueueLemmas

TurnOf(row) == row[1]
IterOf(row) == row[2][2]

\* A call and its result, or the notice that it was cut.
Pair(a, b) == What(a) = "call" /\ IsTool(b) /\ TurnOf(a) = TurnOf(b) /\ IterOf(a) = IterOf(b)

\* Rows as they may stand in a session: no row twice, calls with their results,
\* and the notice that closes an interrupted turn after what it closes.
ClosedLast(r) ==
  \A i, j \in 1 .. Len(r) :
    i < j /\ What(r[i]) = "closed" /\ TurnOf(r[i]) = TurnOf(r[j]) => ~IsUser(r[j])
ToolsPaired(r) == \A k \in 1 .. Len(r) : IsTool(r[k]) => k > 1 /\ Pair(r[k - 1], r[k])
CallsPaired(r) == \A k \in 1 .. Len(r) : What(r[k]) = "call" => k < Len(r) /\ Pair(r[k], r[k + 1])
Legal(r) == IsInjective(r) /\ ClosedLast(r) /\ ToolsPaired(r) /\ CallsPaired(r)

Apart(r, s) == \A i \in 1 .. Len(r), j \in 1 .. Len(s) : r[i] # s[j]

-----------------------------------------------------------------------------
(* Rows.                                                                    *)

\* What the parts of a row can be.
LEMMA RowParts ==
  ASSUME NEW row \in Rows
  PROVE  /\ TurnOf(row) \in 1 .. MaxTurns
         /\ TurnOf(row) \in Nat
         /\ IterOf(row) \in 0 .. MaxIter
         /\ IterOf(row) \in Nat
         /\ What(row) \in {"user", "answer", "closed", "command", "reply", "call", "result", "cut"}
<1>1. MaxTurns \in Nat /\ MaxIter \in Nat
  BY ConstantsAssumption
<1>2. row[1] \in 1 .. MaxTurns
  BY DEF Rows
<1>3. \/ row[2] \in {"user", "answer", "closed", "command", "reply"} \X {0}
      \/ row[2] \in {"call", "result", "cut"} \X (1 .. MaxIter)
  BY DEF Rows
<1>4. /\ row[2][1] \in {"user", "answer", "closed", "command", "reply", "call", "result", "cut"}
      /\ row[2][2] \in 0 .. MaxIter
  BY <1>1, <1>3
<1> QED BY <1>1, <1>2, <1>4 DEF TurnOf, IterOf, What

\* The parts of a row that was built.
LEMMA RowBuilt ==
  ASSUME NEW t, NEW what, NEW i
  PROVE  /\ TurnOf(Row(t, what, i)) = t
         /\ What(Row(t, what, i)) = what
         /\ IterOf(Row(t, what, i)) = i
BY DEF Row, TurnOf, What, IterOf

\* Which rows can be built.
LEMMA RowTyped ==
  ASSUME NEW t \in 1 .. MaxTurns
  PROVE  /\ \A what \in {"user", "answer", "closed", "command", "reply"} : Row(t, what, 0) \in Rows
         /\ \A what \in {"call", "result", "cut"}, i \in 1 .. MaxIter : Row(t, what, i) \in Rows
BY DEF Rows, Row

\* Elements and length of two sequences joined.
LEMMA Joined ==
  ASSUME NEW S, NEW r \in Seq(S), NEW x \in Seq(S)
  PROVE  /\ r \o x \in Seq(S)
         /\ Len(r \o x) = Len(r) + Len(x)
         /\ \A k \in 1 .. Len(r) : (r \o x)[k] = r[k]
         /\ \A k \in 1 .. Len(x) : (r \o x)[Len(r) + k] = x[k]
         /\ \A k \in 1 .. Len(r) + Len(x) :
              \/ k \in 1 .. Len(r) /\ (r \o x)[k] = r[k]
              \/ k - Len(r) \in 1 .. Len(x) /\ (r \o x)[k] = x[k - Len(r)]
OBVIOUS

\* The same of a sequence that is known to be the join.
LEMMA JoinedAs ==
  ASSUME NEW S, NEW r \in Seq(S), NEW x \in Seq(S), NEW q, q = r \o x
  PROVE  /\ q \in Seq(S)
         /\ Len(q) = Len(r) + Len(x)
         /\ \A k \in 1 .. Len(q) : \/ k \in 1 .. Len(r) /\ q[k] = r[k]
                                   \/ k - Len(r) \in 1 .. Len(x) /\ q[k] = x[k - Len(r)]
BY Joined

\* Appending is joining a sequence of one.
LEMMA AppendJoins ==
  ASSUME NEW S, NEW r \in Seq(S), NEW e \in S
  PROVE  Append(r, e) = r \o <<e>>
OBVIOUS

\* The end of a sequence, from m.
LEMMA Slice ==
  ASSUME NEW S, NEW r \in Seq(S), NEW m \in Nat \ {0}, NEW n \in Nat, n <= Len(r), m <= n + 1
  PROVE  /\ SubSeq(r, m, n) \in Seq(S)
         /\ Len(SubSeq(r, m, n)) = n - m + 1
         /\ \A k \in 1 .. n - m + 1 : SubSeq(r, m, n)[k] = r[m + k - 1] /\ m + k - 1 \in 1 .. Len(r)
BY SubSeqProperties

\* Legal rows stay legal with legal ones behind them that are others, and where
\* no message of the user follows what closed its turn.
LEMMA LegalJoin ==
  ASSUME NEW r \in Seq(Rows), NEW x \in Seq(Rows), Legal(r), Legal(x), Apart(r, x),
         \A i \in 1 .. Len(r), j \in 1 .. Len(x) :
           What(r[i]) = "closed" /\ TurnOf(r[i]) = TurnOf(x[j]) => ~IsUser(x[j])
  PROVE  Legal(r \o x)
<1> DEFINE q == r \o x
<1>1. /\ q \in Seq(Rows) /\ Len(q) = Len(r) + Len(x) /\ Len(r) \in Nat /\ Len(x) \in Nat
      /\ \A k \in 1 .. Len(r) : q[k] = r[k]
      /\ \A k \in 1 .. Len(x) : q[Len(r) + k] = x[k]
      /\ \A k \in 1 .. Len(q) : \/ k \in 1 .. Len(r) /\ q[k] = r[k]
                                \/ k - Len(r) \in 1 .. Len(x) /\ q[k] = x[k - Len(r)]
  BY Joined
<1> HIDE DEF q
<1>2. IsInjective(q)
  <2>1. ASSUME NEW i \in 1 .. Len(q), NEW j \in 1 .. Len(q), q[i] = q[j] PROVE i = j
    <3>1. \A a, b \in 1 .. Len(r) : r[a] = r[b] => a = b
      BY DEF Legal, IsInjective
    <3>2. \A a, b \in 1 .. Len(x) : x[a] = x[b] => a = b
      BY DEF Legal, IsInjective
    <3>3. CASE i \in 1 .. Len(r) /\ j \in 1 .. Len(r)
      BY <3>3, <3>1, <2>1, <1>1
    <3>4. CASE i - Len(r) \in 1 .. Len(x) /\ j - Len(r) \in 1 .. Len(x)
      <4>1. q[i] = x[i - Len(r)] /\ q[j] = x[j - Len(r)]
        BY <3>4, <1>1
      <4>2. i - Len(r) = j - Len(r)
        BY <4>1, <3>4, <3>2, <2>1
      <4> QED BY <4>2, <1>1
    <3>5. CASE i \in 1 .. Len(r) /\ j - Len(r) \in 1 .. Len(x)
      <4>1. q[i] = r[i] /\ q[j] = x[j - Len(r)]
        BY <3>5, <1>1
      <4>2. r[i] # x[j - Len(r)]
        BY <3>5 DEF Apart
      <4> QED BY <4>1, <4>2, <2>1
    <3>6. CASE j \in 1 .. Len(r) /\ i - Len(r) \in 1 .. Len(x)
      <4>1. q[j] = r[j] /\ q[i] = x[i - Len(r)]
        BY <3>6, <1>1
      <4>2. r[j] # x[i - Len(r)]
        BY <3>6 DEF Apart
      <4> QED BY <4>1, <4>2, <2>1
    <3> QED BY <3>3, <3>4, <3>5, <3>6, <1>1
  <2> QED BY <2>1, <1>1 DEF IsInjective
<1>3. ClosedLast(q)
  <2>1. ASSUME NEW i \in 1 .. Len(q), NEW j \in 1 .. Len(q), i < j, What(q[i]) = "closed",
               TurnOf(q[i]) = TurnOf(q[j])
        PROVE  ~IsUser(q[j])
    <3>1. CASE i \in 1 .. Len(r) /\ j \in 1 .. Len(r)
      BY <3>1, <2>1, <1>1 DEF Legal, ClosedLast
    <3>2. CASE i - Len(r) \in 1 .. Len(x) /\ j - Len(r) \in 1 .. Len(x)
      <4>1. q[i] = x[i - Len(r)] /\ q[j] = x[j - Len(r)] /\ i - Len(r) < j - Len(r)
        BY <3>2, <1>1, <2>1
      <4> QED BY <4>1, <3>2, <2>1 DEF Legal, ClosedLast
    <3>3. CASE i \in 1 .. Len(r) /\ j - Len(r) \in 1 .. Len(x)
      BY <3>3, <2>1, <1>1
    <3> QED BY <3>1, <3>2, <3>3, <2>1, <1>1
  <2> QED BY <2>1 DEF ClosedLast
<1>4. ToolsPaired(q)
  <2>1. ASSUME NEW k \in 1 .. Len(q), IsTool(q[k]) PROVE k > 1 /\ Pair(q[k - 1], q[k])
    <3>1. CASE k \in 1 .. Len(r)
      <4>1. k > 1 /\ Pair(r[k - 1], r[k])
        BY <3>1, <2>1, <1>1 DEF Legal, ToolsPaired
      <4> QED BY <4>1, <3>1, <1>1
    <3>2. CASE k - Len(r) \in 1 .. Len(x)
      <4>1. q[k] = x[k - Len(r)]
        BY <3>2, <1>1
      <4>2. k - Len(r) > 1 /\ Pair(x[k - Len(r) - 1], x[k - Len(r)])
        BY <4>1, <3>2, <2>1 DEF Legal, ToolsPaired
      <4>3. k - 1 \in 1 .. Len(q) /\ q[k - 1] = x[k - Len(r) - 1]
        <5>1. k - Len(r) - 1 \in 1 .. Len(x) /\ k - 1 = Len(r) + (k - Len(r) - 1)
          BY <4>2, <3>2, <1>1
        <5> QED BY <5>1, <1>1
      <4> QED BY <4>1, <4>2, <4>3, <1>1
    <3> QED BY <3>1, <3>2, <1>1
  <2> QED BY <2>1 DEF ToolsPaired
<1>5. CallsPaired(q)
  <2>1. ASSUME NEW k \in 1 .. Len(q), What(q[k]) = "call" PROVE k < Len(q) /\ Pair(q[k], q[k + 1])
    <3>1. CASE k \in 1 .. Len(r)
      <4>1. k < Len(r) /\ Pair(r[k], r[k + 1])
        BY <3>1, <2>1, <1>1 DEF Legal, CallsPaired
      <4> QED BY <4>1, <3>1, <1>1
    <3>2. CASE k - Len(r) \in 1 .. Len(x)
      <4>1. q[k] = x[k - Len(r)]
        BY <3>2, <1>1
      <4>2. k - Len(r) < Len(x) /\ Pair(x[k - Len(r)], x[k - Len(r) + 1])
        BY <4>1, <3>2, <2>1 DEF Legal, CallsPaired
      <4>3. k + 1 \in 1 .. Len(q) /\ q[k + 1] = x[k - Len(r) + 1]
        BY <4>2, <3>2, <1>1
      <4> QED BY <4>1, <4>2, <4>3, <1>1
    <3> QED BY <3>1, <3>2, <1>1
  <2> QED BY <2>1 DEF CallsPaired
<1> QED BY <1>2, <1>3, <1>4, <1>5 DEF Legal, q

\* The end of legal rows is legal if it does not begin with a result.
LEMMA LegalEnd ==
  ASSUME NEW r \in Seq(Rows), Legal(r), NEW m \in Nat \ {0}, m <= Len(r) + 1,
         m <= Len(r) => ~IsTool(r[m])
  PROVE  Legal(SubSeq(r, m, Len(r)))
<1> DEFINE q == SubSeq(r, m, Len(r))
<1>1. /\ q \in Seq(Rows) /\ Len(r) \in Nat /\ Len(q) = Len(r) - m + 1
      /\ \A k \in 1 .. Len(q) : q[k] = r[m + k - 1] /\ m + k - 1 \in 1 .. Len(r)
  BY Slice
<1> HIDE DEF q
<1>2. IsInjective(q)
  <2>1. \A a, b \in 1 .. Len(r) : r[a] = r[b] => a = b
    BY DEF Legal, IsInjective
  <2>2. ASSUME NEW i \in 1 .. Len(q), NEW j \in 1 .. Len(q), q[i] = q[j] PROVE i = j
    <3>1. m + i - 1 = m + j - 1
      BY <2>1, <2>2, <1>1
    <3> QED BY <3>1, <1>1
  <2> QED BY <2>2, <1>1 DEF IsInjective
<1>3. ClosedLast(q)
  <2>1. ASSUME NEW i \in 1 .. Len(q), NEW j \in 1 .. Len(q), i < j, What(q[i]) = "closed",
               TurnOf(q[i]) = TurnOf(q[j])
        PROVE  ~IsUser(q[j])
    <3>1. m + i - 1 < m + j - 1
      BY <2>1, <1>1
    <3> QED BY <3>1, <2>1, <1>1 DEF Legal, ClosedLast
  <2> QED BY <2>1 DEF ClosedLast
<1>4. ToolsPaired(q)
  <2>1. ASSUME NEW k \in 1 .. Len(q), IsTool(q[k]) PROVE k > 1 /\ Pair(q[k - 1], q[k])
    <3>1. Pair(r[m + k - 2], r[m + k - 1])
      BY <2>1, <1>1 DEF Legal, ToolsPaired
    <3>2. k > 1
      BY <2>1, <1>1
    <3>3. q[k - 1] = r[m + k - 2]
      BY <3>2, <1>1
    <3> QED BY <3>1, <3>2, <3>3, <1>1
  <2> QED BY <2>1 DEF ToolsPaired
<1>5. CallsPaired(q)
  <2>1. ASSUME NEW k \in 1 .. Len(q), What(q[k]) = "call" PROVE k < Len(q) /\ Pair(q[k], q[k + 1])
    <3>1. m + k - 1 < Len(r) /\ Pair(r[m + k - 1], r[m + k])
      BY <2>1, <1>1 DEF Legal, CallsPaired
    <3>2. k < Len(q)
      BY <3>1, <1>1
    <3>3. q[k + 1] = r[m + k]
      BY <3>2, <1>1
    <3> QED BY <3>1, <3>2, <3>3, <1>1
  <2> QED BY <2>1 DEF CallsPaired
<1> QED BY <1>2, <1>3, <1>4, <1>5 DEF Legal, q

\* No rows, or one that is neither a call nor a result, are legal.
LEMMA LegalSmall ==
  /\ Legal(<<>>)
  /\ \A e \in Rows : What(e) # "call" /\ ~IsTool(e) => Legal(<<e>>)
BY DEF Legal, IsInjective, ClosedLast, ToolsPaired, CallsPaired

-----------------------------------------------------------------------------
(* Contents of a session.                                                   *)

\* What the checkpoint of a turn up to the n-th will materialize.
Checkpoints(n) ==
  {<<>>}
  \cup {<<Row(t, "call", i), Row(t, what, i)>> : t \in 1 .. n, i \in 1 .. MaxIter, what \in {"cut", "result"}}
  \cup {<<Row(t, "answer", 0)>> : t \in 1 .. n}

\* Legal rows of n turns. Of the last one there can be any, its message, or none.
RowsFit(r, n, own) ==
  /\ Legal(r)
  /\ \A k \in 1 .. Len(r) :
       /\ TurnOf(r[k]) <= n
       /\ TurnOf(r[k]) = n => own = "any" \/ (own = "user" /\ What(r[k]) = "user")

Fits(c, n, own) ==
  /\ c \in Contents
  /\ RowsFit(c.rows, n, own)
  /\ c.ckpt \in Checkpoints(n)
  /\ Apart(c.rows, c.ckpt)

\* d has the rows of c, and then some.
Grown(c, d) ==
  /\ d.mark = c.mark
  /\ Len(c.rows) <= Len(d.rows)
  /\ \A k \in 1 .. Len(c.rows) : d.rows[k] = c.rows[k]
  /\ Len(c.rows) < Len(d.rows) => ~IsTool(d.rows[Len(c.rows) + 1])

NoCheckpoint(c) == c.ckpt = <<>>

Toolless(c) == NoCheckpoint(c) /\ \A k \in 1 .. Len(c.rows) : ~IsTool(c.rows[k])

After(r, n) == \A k \in 1 .. Len(r) : TurnOf(r[k]) > n

Adjacent(r) == \A k \in 2 .. Len(r) : ~(IsUser(r[k - 1]) /\ IsUser(r[k]))

EndsWithUser(r) == r # <<>> /\ IsUser(Last(r))

\* d has no row of an old conversation, if c has none and the n-th turn is not of it.
StaysAfter(c, d, n) == \A a \in Nat : After(c.rows, a) /\ n > a => After(d.rows, a)

\* d has no two messages of the user in a row, if c has none and could take one.
Alternates(c, d) == Adjacent(c.rows) /\ ~EndsWithUser(c.rows) => Adjacent(d.rows)

\* Checkpoints are legal rows, without a message of the user.
LEMMA CheckpointFacts ==
  ASSUME NEW n \in 0 .. MaxTurns, NEW x \in Checkpoints(n)
  PROVE  /\ x \in Seq(Rows)
         /\ Legal(x)
         /\ \A k \in 1 .. Len(x) : /\ TurnOf(x[k]) \in 1 .. n
                                   /\ What(x[k]) \in {"call", "cut", "result", "answer"}
                                   /\ ~IsUser(x[k])
         /\ x # <<>> => Len(x) \in Nat \ {0} /\ ~IsTool(x[1])
         /\ Adjacent(x)
<1>0. n \in Nat /\ MaxTurns \in Nat /\ MaxIter \in Nat /\ 1 .. n \subseteq 1 .. MaxTurns
  BY ConstantsAssumption
<1>1. CASE x = <<>>
  BY <1>1, LegalSmall DEF Adjacent
<1>2. ASSUME NEW t \in 1 .. n, NEW i \in 1 .. MaxIter, NEW what \in {"cut", "result"},
             x = <<Row(t, "call", i), Row(t, what, i)>>
      PROVE  /\ x \in Seq(Rows)
             /\ Legal(x)
             /\ \A k \in 1 .. Len(x) : /\ TurnOf(x[k]) \in 1 .. n
                                       /\ What(x[k]) \in {"call", "cut", "result", "answer"}
                                       /\ ~IsUser(x[k])
             /\ Len(x) \in Nat \ {0} /\ ~IsTool(x[1])
  <2>0. t \in 1 .. MaxTurns /\ t \in Nat /\ i \in Nat
    BY <1>0
  <2>1. Row(t, "call", i) \in Rows /\ Row(t, what, i) \in Rows
    BY <2>0, RowTyped
  <2>2. x \in Seq(Rows) /\ Len(x) = 2 /\ x[1] = Row(t, "call", i) /\ x[2] = Row(t, what, i)
    BY <2>1, <1>2
  <2>3. /\ TurnOf(x[1]) = t /\ What(x[1]) = "call" /\ IterOf(x[1]) = i
        /\ TurnOf(x[2]) = t /\ What(x[2]) = what /\ IterOf(x[2]) = i
    BY <2>2, RowBuilt
  <2>4. \A k \in 1 .. Len(x) : k = 1 \/ k = 2
    BY <2>2
  <2>5. IsTool(x[2]) /\ ~IsTool(x[1]) /\ ~IsUser(x[1]) /\ ~IsUser(x[2]) /\ x[1] # x[2]
    BY <2>3 DEF IsTool, IsUser
  <2>6. Pair(x[1], x[2])
    BY <2>3, <2>5 DEF Pair
  <2>7. IsInjective(x)
    BY <2>2, <2>4, <2>5 DEF IsInjective
  <2>8. ClosedLast(x)
    BY <2>4, <2>5 DEF ClosedLast
  <2>9. ToolsPaired(x)
    BY <2>2, <2>4, <2>5, <2>6 DEF ToolsPaired
  <2>10. CallsPaired(x)
    BY <2>2, <2>3, <2>4, <2>6 DEF CallsPaired
  <2> QED BY <2>2, <2>3, <2>4, <2>5, <2>7, <2>8, <2>9, <2>10 DEF Legal
<1>3. ASSUME NEW t \in 1 .. n, x = <<Row(t, "answer", 0)>>
      PROVE  /\ x \in Seq(Rows)
             /\ Legal(x)
             /\ \A k \in 1 .. Len(x) : /\ TurnOf(x[k]) \in 1 .. n
                                       /\ What(x[k]) \in {"call", "cut", "result", "answer"}
                                       /\ ~IsUser(x[k])
             /\ Len(x) \in Nat \ {0} /\ ~IsTool(x[1])
  <2>1. Row(t, "answer", 0) \in Rows
    BY <1>0, RowTyped
  <2>2. x \in Seq(Rows) /\ Len(x) = 1 /\ x[1] = Row(t, "answer", 0)
    BY <2>1, <1>3
  <2>3. TurnOf(x[1]) = t /\ What(x[1]) = "answer"
    BY <2>2, RowBuilt
  <2>4. ~IsTool(x[1]) /\ ~IsUser(x[1])
    BY <2>3 DEF IsTool, IsUser
  <2>5. Legal(x)
    BY <2>1, <2>2, <2>3, <2>4, <1>3, LegalSmall
  <2> QED BY <2>2, <2>3, <2>4, <2>5
<1>4. CASE x # <<>>
  <2>0. \/ \E t \in 1 .. n, i \in 1 .. MaxIter, what \in {"cut", "result"} :
              x = <<Row(t, "call", i), Row(t, what, i)>>
        \/ \E t \in 1 .. n : x = <<Row(t, "answer", 0)>>
    BY <1>4 DEF Checkpoints
  <2>1. /\ x \in Seq(Rows)
        /\ Legal(x)
        /\ \A k \in 1 .. Len(x) : /\ TurnOf(x[k]) \in 1 .. n
                                  /\ What(x[k]) \in {"call", "cut", "result", "answer"}
                                  /\ ~IsUser(x[k])
        /\ Len(x) \in Nat \ {0} /\ ~IsTool(x[1])
    <3>1. CASE \E t \in 1 .. n, i \in 1 .. MaxIter, what \in {"cut", "result"} :
                 x = <<Row(t, "call", i), Row(t, what, i)>>
      BY <3>1, <1>2
    <3>2. CASE \E t \in 1 .. n : x = <<Row(t, "answer", 0)>>
      BY <3>2, <1>3
    <3> QED BY <2>0, <3>1, <3>2
  <2>2. Adjacent(x)
    BY <2>1 DEF Adjacent
  <2> QED BY <2>1, <2>2
<1> QED BY <1>1, <1>4

\* A later turn may have the checkpoints of the earlier ones.
LEMMA CheckpointsGrow ==
  ASSUME NEW m \in Nat, NEW n \in Nat, m <= n
  PROVE  Checkpoints(m) \subseteq Checkpoints(n)
<1>1. 1 .. m \subseteq 1 .. n
  OBVIOUS
<1> QED BY <1>1 DEF Checkpoints

\* Nothing of the checkpoint is in the rows: the restoration finds no overlap.
LEMMA OverlapNone ==
  ASSUME NEW r \in Seq(Rows), NEW x \in Seq(Rows), Apart(r, x)
  PROVE  Overlap(r, x) = 0
<1> DEFINE K == {k \in 0 .. Min({Len(r), Len(x)}) :
                   SubSeq(r, Len(r) - k + 1, Len(r)) = SubSeq(x, 1, k)}
<1>1. /\ Len(r) \in Nat /\ Len(x) \in Nat
      /\ Min({Len(r), Len(x)}) \in Nat
      /\ Min({Len(r), Len(x)}) <= Len(r) /\ Min({Len(r), Len(x)}) <= Len(x)
  <2>1. {Len(r), Len(x)} \in SUBSET Nat /\ {Len(r), Len(x)} # {}
    OBVIOUS
  <2> QED BY <2>1, MinFacts
<1>2. ASSUME NEW k \in K PROVE k = 0
  <2>1. k \in 0 .. Min({Len(r), Len(x)}) /\ SubSeq(r, Len(r) - k + 1, Len(r)) = SubSeq(x, 1, k)
    OBVIOUS
  <2>2. k \in Nat /\ k <= Len(r) /\ k <= Len(x)
    BY <2>1, <1>1
  <2>3. CASE k # 0
    <3>1. SubSeq(r, Len(r) - k + 1, Len(r))[1] = r[Len(r) - k + 1]
      <4> DEFINE m == Len(r) - k + 1
      <4>1. m \in Nat \ {0} /\ m <= Len(r) + 1 /\ 1 \in 1 .. Len(r) - m + 1
        BY <2>2, <2>3, <1>1
      <4> HIDE DEF m
      <4>2. \A j \in 1 .. Len(r) - m + 1 : SubSeq(r, m, Len(r))[j] = r[m + j - 1]
        BY <4>1, <1>1, Slice
      <4>3. SubSeq(r, m, Len(r))[1] = r[m]
        BY <4>1, <4>2
      <4> QED BY <4>3 DEF m
    <3>2. SubSeq(x, 1, k)[1] = x[1]
      <4>1. 1 \in Nat \ {0} /\ 1 <= k + 1 /\ 1 \in 1 .. k - 1 + 1
        BY <2>2, <2>3
      <4>2. \A j \in 1 .. k - 1 + 1 : SubSeq(x, 1, k)[j] = x[1 + j - 1]
        BY <4>1, <2>2, <1>1, Slice
      <4> QED BY <4>1, <4>2
    <3>3. r[Len(r) - k + 1] = x[1]
      BY <3>1, <3>2, <2>1
    <3>4. Len(r) - k + 1 \in 1 .. Len(r) /\ 1 \in 1 .. Len(x)
      BY <2>2, <2>3, <1>1
    <3> QED BY <3>3, <3>4 DEF Apart
  <2> QED BY <2>3
<1>3. 0 \in K
  <2>1. SubSeq(r, Len(r) - 0 + 1, Len(r)) = <<>> /\ SubSeq(x, 1, 0) = <<>>
    BY <1>1
  <2> QED BY <2>1, <1>1
<1>4. K = {0}
  BY <1>2, <1>3
<1>5. Max({0}) = 0
  BY DEF Max
<1> QED BY <1>4, <1>5 DEF Overlap

\* Rows joined: which turns they are of, what follows what, and how they end.
LEMMA JoinFacts ==
  ASSUME NEW r \in Seq(Rows), NEW x \in Seq(Rows)
  PROVE  /\ \A n \in Nat : After(r, n) /\ After(x, n) => After(r \o x, n)
         /\ Adjacent(r) /\ Adjacent(x) /\ (x # <<>> /\ EndsWithUser(r) => ~IsUser(x[1]))
              => Adjacent(r \o x)
         /\ x # <<>> => Last(r \o x) = Last(x) /\ r \o x # <<>>
         /\ x = <<>> => r \o x = r
<1> DEFINE q == r \o x
<1>1. /\ q \in Seq(Rows) /\ Len(q) = Len(r) + Len(x) /\ Len(r) \in Nat /\ Len(x) \in Nat
      /\ \A k \in 1 .. Len(r) : q[k] = r[k]
      /\ \A k \in 1 .. Len(x) : q[Len(r) + k] = x[k]
      /\ \A k \in 1 .. Len(q) : \/ k \in 1 .. Len(r) /\ q[k] = r[k]
                                \/ k - Len(r) \in 1 .. Len(x) /\ q[k] = x[k - Len(r)]
  BY Joined
<1>2. x = <<>> => q = r
  OBVIOUS
<1> HIDE DEF q
<1>3. ASSUME NEW n \in Nat, After(r, n), After(x, n) PROVE After(q, n)
  <2>1. ASSUME NEW k \in 1 .. Len(q) PROVE TurnOf(q[k]) > n
    <3>1. CASE k \in 1 .. Len(r) /\ q[k] = r[k]
      BY <3>1, <1>3 DEF After
    <3>2. CASE k - Len(r) \in 1 .. Len(x) /\ q[k] = x[k - Len(r)]
      BY <3>2, <1>3 DEF After
    <3> QED BY <3>1, <3>2, <1>1
  <2> QED BY <2>1 DEF After
<1>4. ASSUME Adjacent(r), Adjacent(x), x # <<>> /\ EndsWithUser(r) => ~IsUser(x[1]) PROVE Adjacent(q)
  <2>1. ASSUME NEW k \in 2 .. Len(q) PROVE ~(IsUser(q[k - 1]) /\ IsUser(q[k]))
    <3>1. CASE k <= Len(r)
      <4>1. q[k] = r[k] /\ q[k - 1] = r[k - 1] /\ k \in 2 .. Len(r)
        BY <3>1, <1>1
      <4> QED BY <4>1, <1>4 DEF Adjacent
    <3>2. CASE k = Len(r) + 1
      <4>1. 1 \in 1 .. Len(x) /\ x # <<>> /\ q[k] = x[1]
        BY <3>2, <2>1, <1>1
      <4>2. r # <<>> /\ q[k - 1] = r[Len(r)] /\ Last(r) = r[Len(r)]
        BY <3>2, <2>1, <1>1 DEF Last
      <4> QED BY <4>1, <4>2, <1>4 DEF EndsWithUser
    <3>3. CASE k > Len(r) + 1
      <4>1. PICK j \in 2 .. Len(x) : k = Len(r) + j
        <5>1. k - Len(r) \in 2 .. Len(x) /\ k = Len(r) + (k - Len(r))
          BY <3>3, <2>1, <1>1
        <5> QED BY <5>1
      <4>2. j \in 1 .. Len(x) /\ j - 1 \in 1 .. Len(x) /\ k - 1 = Len(r) + (j - 1)
        BY <4>1, <1>1
      <4>3. q[k] = x[j] /\ q[k - 1] = x[j - 1]
        BY <4>1, <4>2, <1>1
      <4> QED BY <4>1, <4>3, <1>4 DEF Adjacent
    <3> QED BY <3>1, <3>2, <3>3, <1>1
  <2> QED BY <2>1 DEF Adjacent
<1>5. x # <<>> => Last(q) = Last(x) /\ q # <<>>
  <2>1. x # <<>> => Len(x) \in 1 .. Len(x) /\ q[Len(r) + Len(x)] = x[Len(x)]
    BY <1>1
  <2> QED BY <2>1, <1>1 DEF Last
<1> QED BY <1>2, <1>3, <1>4, <1>5 DEF q

\* A session grows by rows that do not begin with a result.
LEMMA JoinGrows ==
  ASSUME NEW c \in Contents, NEW d \in Contents, NEW x \in Seq(Rows),
         d.rows = c.rows \o x, d.mark = c.mark, x # <<>> => ~IsTool(x[1])
  PROVE  Grown(c, d)
<1>1. /\ c.rows \in Seq(Rows) /\ Len(c.rows) \in Nat /\ Len(x) \in Nat
  BY DEF Contents
<1>2. /\ Len(d.rows) = Len(c.rows) + Len(x)
      /\ \A k \in 1 .. Len(c.rows) : d.rows[k] = c.rows[k]
      /\ \A k \in 1 .. Len(x) : d.rows[Len(c.rows) + k] = x[k]
  BY <1>1, Joined
<1>3. Len(c.rows) < Len(d.rows) => ~IsTool(d.rows[Len(c.rows) + 1])
  <2>1. SUFFICES ASSUME Len(c.rows) < Len(d.rows) PROVE ~IsTool(d.rows[Len(c.rows) + 1])
    OBVIOUS
  <2>2. 1 \in 1 .. Len(x) /\ x # <<>>
    BY <2>1, <1>1, <1>2
  <2> QED BY <2>2, <1>2
<1> QED BY <1>1, <1>2, <1>3 DEF Grown

\* The restoration of the checkpoint puts its rows behind the others.
LEMMA RestoreFits ==
  ASSUME NEW n \in 0 .. MaxTurns, NEW own, NEW c, Fits(c, n, own)
  PROVE  /\ Fits(RestoreCheckpoint(c), n, "any")
         /\ RestoreCheckpoint(c).rows = c.rows \o c.ckpt
         /\ NoCheckpoint(RestoreCheckpoint(c))
         /\ RestoreCheckpoint(c).mark = c.mark
         /\ NoCheckpoint(c) => RestoreCheckpoint(c) = c
         /\ Grown(c, RestoreCheckpoint(c))
         /\ \A a \in Nat : After(c.rows, a) /\ After(c.ckpt, a) => After(RestoreCheckpoint(c).rows, a)
         /\ Adjacent(c.rows) => Adjacent(RestoreCheckpoint(c).rows)
         /\ EndsWithUser(RestoreCheckpoint(c).rows) => NoCheckpoint(c) /\ EndsWithUser(c.rows)
<1> DEFINE d == RestoreCheckpoint(c)
<1>0. n \in Nat /\ MaxTurns \in Nat
  BY ConstantsAssumption
<1>1. /\ c \in Contents /\ c.rows \in Seq(Rows) /\ c.ckpt \in Seq(Rows) /\ Len(c.rows) \in Nat /\ c.mark \in Nat
      /\ Legal(c.rows) /\ Legal(c.ckpt) /\ Adjacent(c.ckpt)
      /\ \A k \in 1 .. Len(c.ckpt) : TurnOf(c.ckpt[k]) \in 1 .. n /\ ~IsUser(c.ckpt[k])
      /\ c.ckpt # <<>> => Len(c.ckpt) \in Nat \ {0} /\ ~IsTool(c.ckpt[1])
  BY CheckpointFacts DEF Fits, RowsFit, Contents
<1>2. d \in Contents /\ d.rows = c.rows \o c.ckpt /\ d.ckpt = <<>> /\ d.mark = c.mark
  <2>1. CASE c.ckpt = <<>>
    <3>1. c.rows \o c.ckpt = c.rows
      BY <1>1, <2>1, JoinFacts
    <3> QED BY <2>1, <3>1, <1>1 DEF RestoreCheckpoint
  <2>2. CASE c.ckpt # <<>>
    <3>1. Overlap(c.rows, c.ckpt) = 0
      BY <1>1, OverlapNone DEF Fits
    <3>2. SubSeq(c.ckpt, 0 + 1, Len(c.ckpt)) = c.ckpt
      BY <1>1
    <3>3. d = [c EXCEPT !.rows = c.rows \o c.ckpt, !.pending = FALSE, !.ckpt = <<>>]
      BY <2>2, <3>1, <3>2 DEF RestoreCheckpoint
    <3>4. c.rows \o c.ckpt \in Seq(Rows) /\ <<>> \in Seq(Rows)
      BY <1>1
    <3> HIDE DEF d
    <3> QED BY <3>3, <3>4, <1>1 DEF Contents
  <2> QED BY <2>1, <2>2
<1>3. c.ckpt = <<>> => d = c
  BY DEF RestoreCheckpoint
<1> HIDE DEF d
<1>4. Grown(c, d)
  BY <1>1, <1>2, JoinGrows
<1>5. Legal(d.rows)
  <2>1. Apart(c.rows, c.ckpt)
    BY DEF Fits
  <2> QED BY <1>1, <1>2, <2>1, LegalJoin
<1>6. \A k \in 1 .. Len(d.rows) : TurnOf(d.rows[k]) <= n
  <2>1. TAKE k \in 1 .. Len(d.rows)
  <2>2. \/ k \in 1 .. Len(c.rows) /\ d.rows[k] = c.rows[k]
        \/ k - Len(c.rows) \in 1 .. Len(c.ckpt) /\ d.rows[k] = c.ckpt[k - Len(c.rows)]
    <3>1. c.rows \in Seq(Rows) /\ c.ckpt \in Seq(Rows) /\ d.rows = c.rows \o c.ckpt
      BY <1>1, <1>2
    <3>2. ASSUME NEW r \in Seq(Rows), NEW x \in Seq(Rows), r = c.rows, x = c.ckpt
          PROVE  \/ k \in 1 .. Len(r) /\ d.rows[k] = r[k]
                 \/ k - Len(r) \in 1 .. Len(x) /\ d.rows[k] = x[k - Len(r)]
      <4>1. d.rows = r \o x
        BY <3>1, <3>2
      <4> QED BY <4>1, JoinedAs
    <3> QED BY <3>1, <3>2, Zenon
  <2>3. CASE k \in 1 .. Len(c.rows) /\ d.rows[k] = c.rows[k]
    BY <2>3 DEF Fits, RowsFit
  <2>4. CASE k - Len(c.rows) \in 1 .. Len(c.ckpt) /\ d.rows[k] = c.ckpt[k - Len(c.rows)]
    BY <2>4, <1>1, <1>0
  <2> QED BY <2>2, <2>3, <2>4
<1>7. Apart(d.rows, d.ckpt) /\ d.ckpt \in Checkpoints(n)
  BY <1>2 DEF Apart, Checkpoints
<1>8. \A a \in Nat : After(c.rows, a) /\ After(c.ckpt, a) => After(d.rows, a)
  BY <1>1, <1>2, JoinFacts
<1>9. Adjacent(c.rows) => Adjacent(d.rows)
  <2>1. c.ckpt # <<>> => ~IsUser(c.ckpt[1])
    BY <1>1
  <2> QED BY <1>1, <1>2, <2>1, JoinFacts
<1>10. EndsWithUser(d.rows) => c.ckpt = <<>> /\ EndsWithUser(c.rows)
  <2>1. CASE c.ckpt = <<>>
    BY <2>1, <1>3
  <2>2. CASE c.ckpt # <<>>
    <3>1. Last(d.rows) = Last(c.ckpt)
      BY <1>1, <1>2, <2>2, JoinFacts
    <3>2. ~IsUser(Last(c.ckpt))
      BY <1>1, <2>2 DEF Last
    <3> QED BY <3>1, <3>2 DEF EndsWithUser
  <2> QED BY <2>1, <2>2
<1> QED BY <1>2, <1>3, <1>4, <1>5, <1>6, <1>7, <1>8, <1>9, <1>10 DEF Fits, RowsFit, NoCheckpoint, d

\* A row of a message that stands last and was not closed yet.
LEMMA LastRow ==
  ASSUME NEW r \in Seq(Rows), r # <<>>
  PROVE  Len(r) \in 1 .. Len(r) /\ Last(r) = r[Len(r)] /\ Last(r) \in Rows
<1>1. Len(r) \in Nat \ {0}
  OBVIOUS
<1> QED BY <1>1 DEF Last

\* So is the notice that a message got no answer.
LEMMA PendingFits ==
  ASSUME NEW n \in 0 .. MaxTurns, NEW c, Fits(c, n, "any"), NoCheckpoint(c)
  PROVE  /\ Fits(RestorePending(c), n, "any")
         /\ NoCheckpoint(RestorePending(c))
         /\ RestorePending(c).pending = FALSE
         /\ RestorePending(c).mark = c.mark
         /\ Grown(c, RestorePending(c))
         /\ Toolless(c) => Toolless(RestorePending(c))
         /\ \A a \in Nat : After(c.rows, a) => After(RestorePending(c).rows, a)
         /\ Adjacent(c.rows) => Adjacent(RestorePending(c).rows)
         /\ (EndsWithUser(c.rows) => c.pending) => ~EndsWithUser(RestorePending(c).rows)
<1> DEFINE d == RestorePending(c)
           e == Row(Last(c.rows)[1], "closed", 0)
<1>0. n \in Nat /\ MaxTurns \in Nat
  BY ConstantsAssumption
<1>1. c \in Contents /\ c.rows \in Seq(Rows) /\ Len(c.rows) \in Nat /\ c.mark \in Nat /\ c.pending \in BOOLEAN
  BY DEF Fits, Contents
<1>2. CASE ~(c.pending /\ c.rows # <<>> /\ IsUser(Last(c.rows)))
  <2>1. d = [c EXCEPT !.pending = FALSE]
    BY <1>2 DEF RestorePending
  <2> HIDE DEF d
  <2>2. d \in Contents /\ d.rows = c.rows /\ d.ckpt = c.ckpt /\ d.mark = c.mark /\ d.pending = FALSE
    BY <2>1, <1>1 DEF Contents
  <2>3. Grown(c, d)
    BY <2>2, <1>1 DEF Grown
  <2>4. Toolless(c) => Toolless(d)
    BY <2>2 DEF Toolless, NoCheckpoint
  <2>5. (EndsWithUser(c.rows) => c.pending) => ~EndsWithUser(d.rows)
    BY <2>2, <1>2 DEF EndsWithUser
  <2> QED BY <2>2, <2>3, <2>4, <2>5 DEF d, Fits, NoCheckpoint
<1>3. CASE c.pending /\ c.rows # <<>> /\ IsUser(Last(c.rows))
  <2>1. Len(c.rows) \in 1 .. Len(c.rows) /\ Last(c.rows) = c.rows[Len(c.rows)] /\ Last(c.rows) \in Rows
    BY <1>1, <1>3, LastRow
  <2>2. /\ e \in Rows /\ What(e) = "closed" /\ TurnOf(e) = TurnOf(Last(c.rows))
    <3>1. TurnOf(Last(c.rows)) \in 1 .. MaxTurns /\ TurnOf(Last(c.rows)) = Last(c.rows)[1]
      BY <2>1, RowParts DEF TurnOf
    <3> QED BY <3>1, RowTyped, RowBuilt
  <2>3. d = [c EXCEPT !.rows = Append(c.rows, e), !.pending = FALSE]
    BY <1>3 DEF RestorePending
  <2> HIDE DEF d, e
  <2>4. ~IsTool(e) /\ ~IsUser(e)
    BY <2>2 DEF IsTool, IsUser
  <2>5. <<e>> \in Seq(Rows) /\ Len(<<e>>) = 1 /\ <<e>>[1] = e /\ <<e>> # <<>> /\ Last(<<e>>) = e
    BY <2>2 DEF Last
  <2>6. /\ d \in Contents /\ d.rows = c.rows \o <<e>> /\ d.ckpt = c.ckpt /\ d.mark = c.mark /\ d.pending = FALSE
    <3>1. Append(c.rows, e) = c.rows \o <<e>> /\ c.rows \o <<e>> \in Seq(Rows)
      BY <2>2, <2>5, <1>1, AppendJoins, Joined
    <3> QED BY <2>3, <3>1, <1>1 DEF Contents
  <2>7. Legal(c.rows) /\ Legal(<<e>>)
    BY <2>2, <2>4, LegalSmall DEF Fits, RowsFit
  <2>8. \A k \in 1 .. Len(c.rows) : c.rows[k] # e
    <3>1. SUFFICES ASSUME NEW k \in 1 .. Len(c.rows), c.rows[k] = e PROVE FALSE
      OBVIOUS
    <3>2. CASE k = Len(c.rows)
      BY <3>1, <3>2, <2>1, <2>4, <1>3
    <3>3. CASE k < Len(c.rows)
      BY <3>1, <3>3, <2>1, <2>2, <2>7, <1>3 DEF Legal, ClosedLast
    <3> QED BY <3>2, <3>3, <1>1
  <2>9. Apart(c.rows, <<e>>)
    BY <2>5, <2>8 DEF Apart
  <2>10. Legal(d.rows)
    <3>1. \A i \in 1 .. Len(c.rows), j \in 1 .. Len(<<e>>) :
            What(c.rows[i]) = "closed" /\ TurnOf(c.rows[i]) = TurnOf(<<e>>[j]) => ~IsUser(<<e>>[j])
      BY <2>4, <2>5
    <3> QED BY <3>1, <2>5, <2>6, <2>7, <2>9, <1>1, LegalJoin
  <2>11. \A k \in 1 .. Len(d.rows) : TurnOf(d.rows[k]) <= n
    <3>1. TAKE k \in 1 .. Len(d.rows)
    <3>2. \/ k \in 1 .. Len(c.rows) /\ d.rows[k] = c.rows[k]
          \/ k - Len(c.rows) \in 1 .. Len(<<e>>) /\ d.rows[k] = <<e>>[k - Len(c.rows)]
      <4>1. Len(d.rows) = Len(c.rows) + Len(<<e>>)
        BY <2>5, <2>6, <1>1, Joined
      <4> QED BY <4>1, <2>5, <2>6, <1>1, Joined
    <3>3. CASE k \in 1 .. Len(c.rows) /\ d.rows[k] = c.rows[k]
      BY <3>3 DEF Fits, RowsFit
    <3>4. CASE k - Len(c.rows) \in 1 .. Len(<<e>>) /\ d.rows[k] = <<e>>[k - Len(c.rows)]
      <4>1. d.rows[k] = e
        BY <3>4, <2>5, <1>1
      <4>2. TurnOf(c.rows[Len(c.rows)]) <= n
        BY <2>1 DEF Fits, RowsFit
      <4> QED BY <4>1, <4>2, <2>1, <2>2
    <3> QED BY <3>2, <3>3, <3>4
  <2>12. Fits(d, n, "any")
    <3>1. Apart(d.rows, d.ckpt)
      BY <2>6 DEF Apart, NoCheckpoint
    <3> QED BY <3>1, <2>6, <2>10, <2>11 DEF Fits, RowsFit
  <2>13. Grown(c, d)
    BY <2>4, <2>5, <2>6, <1>1, JoinGrows
  <2>14. Toolless(c) => Toolless(d)
    <3>1. SUFFICES ASSUME Toolless(c) PROVE \A k \in 1 .. Len(d.rows) : ~IsTool(d.rows[k])
      BY <2>6 DEF Toolless, NoCheckpoint
    <3>2. TAKE k \in 1 .. Len(d.rows)
    <3>3. Len(d.rows) = Len(c.rows) + 1
      BY <2>5, <2>6, <1>1, Joined
    <3>4. k \in 1 .. Len(c.rows) \/ k = Len(c.rows) + 1
      BY <3>3, <1>1
    <3> QED BY <3>1, <3>3, <3>4, <2>13, <1>1 DEF Toolless, NoCheckpoint, Grown
  <2>15. \A a \in Nat : After(c.rows, a) => After(d.rows, a)
    <3>1. TAKE a \in Nat
    <3>2. SUFFICES ASSUME After(c.rows, a) PROVE After(d.rows, a)
      OBVIOUS
    <3>3. TurnOf(e) > a
      BY <3>2, <2>1, <2>2 DEF After
    <3>4. After(<<e>>, a)
      BY <3>3, <2>5 DEF After
    <3>5. After(c.rows, a) /\ After(<<e>>, a) => After(c.rows \o <<e>>, a)
      BY <2>5, <1>1, JoinFacts
    <3> QED BY <3>2, <3>4, <3>5, <2>6
  <2>16. Adjacent(c.rows) => Adjacent(d.rows)
    <3>1. Adjacent(<<e>>)
      BY <2>5 DEF Adjacent
    <3> QED BY <3>1, <2>4, <2>5, <2>6, <1>1, JoinFacts
  <2>17. ~EndsWithUser(d.rows)
    <3>1. Last(d.rows) = e
      BY <2>5, <2>6, <1>1, JoinFacts
    <3> QED BY <3>1, <2>4 DEF EndsWithUser
  <2> QED BY <2>6, <2>12, <2>13, <2>14, <2>15, <2>16, <2>17 DEF d, NoCheckpoint
<1> QED BY <1>2, <1>3

\* Growth upon growth.
LEMMA GrownTwice ==
  ASSUME NEW c \in Contents, NEW d \in Contents, NEW e \in Contents, Grown(c, d), Grown(d, e)
  PROVE  Grown(c, e)
<1>1. Len(c.rows) \in Nat /\ Len(d.rows) \in Nat /\ Len(e.rows) \in Nat
  BY DEF Contents
<1>2. ASSUME NEW k \in 1 .. Len(c.rows) PROVE e.rows[k] = c.rows[k]
  BY <1>1 DEF Grown
<1>3. CASE Len(c.rows) < Len(d.rows)
  <2>1. Len(c.rows) + 1 \in 1 .. Len(d.rows)
    BY <1>1, <1>3
  <2> QED BY <2>1, <1>1, <1>2, <1>3 DEF Grown
<1>4. CASE Len(c.rows) = Len(d.rows)
  BY <1>1, <1>2, <1>4 DEF Grown
<1> QED BY <1>1, <1>3, <1>4 DEF Grown

\* The whole restoration.
LEMMA RestoredFits ==
  ASSUME NEW n \in 0 .. MaxTurns, NEW own, NEW c, Fits(c, n, own)
  PROVE  /\ Fits(Restored(c), n, "any")
         /\ NoCheckpoint(Restored(c))
         /\ Restored(c).pending = FALSE
         /\ Restored(c).mark = c.mark
         /\ Grown(c, Restored(c))
         /\ Toolless(c) => Toolless(Restored(c))
         /\ \A a \in Nat : After(c.rows, a) /\ After(c.ckpt, a) => After(Restored(c).rows, a)
         /\ Adjacent(c.rows) => Adjacent(Restored(c).rows)
         /\ (EndsWithUser(c.rows) => c.pending \/ ~NoCheckpoint(c)) => ~EndsWithUser(Restored(c).rows)
<1>1. /\ Fits(RestoreCheckpoint(c), n, "any")
      /\ NoCheckpoint(RestoreCheckpoint(c))
      /\ RestoreCheckpoint(c).mark = c.mark
      /\ Grown(c, RestoreCheckpoint(c))
      /\ NoCheckpoint(c) => RestoreCheckpoint(c) = c
      /\ Adjacent(c.rows) => Adjacent(RestoreCheckpoint(c).rows)
      /\ EndsWithUser(RestoreCheckpoint(c).rows) => NoCheckpoint(c) /\ EndsWithUser(c.rows)
  BY RestoreFits
<1>2. \A a \in Nat : After(c.rows, a) /\ After(c.ckpt, a) => After(RestoreCheckpoint(c).rows, a)
  BY RestoreFits
<1>3. PICK d : d = RestoreCheckpoint(c)
  OBVIOUS
<1>4. /\ Fits(RestorePending(d), n, "any")
      /\ NoCheckpoint(RestorePending(d))
      /\ RestorePending(d).pending = FALSE
      /\ RestorePending(d).mark = d.mark
      /\ Grown(d, RestorePending(d))
      /\ Toolless(d) => Toolless(RestorePending(d))
      /\ Adjacent(d.rows) => Adjacent(RestorePending(d).rows)
      /\ (EndsWithUser(d.rows) => d.pending) => ~EndsWithUser(RestorePending(d).rows)
  BY <1>1, <1>3, PendingFits
<1>5. \A a \in Nat : After(d.rows, a) => After(RestorePending(d).rows, a)
  BY <1>1, <1>3, PendingFits
<1>6. PICK e : e = RestorePending(d) /\ e = Restored(c)
  BY <1>3 DEF Restored
<1>7. Grown(c, e)
  <2>1. c \in Contents /\ d \in Contents /\ e \in Contents
    BY <1>1, <1>3, <1>4, <1>6 DEF Fits
  <2> QED BY <2>1, <1>1, <1>3, <1>4, <1>6, GrownTwice
<1>8. Toolless(c) => Toolless(e)
  BY <1>1, <1>3, <1>4, <1>6 DEF Toolless
<1>9. (EndsWithUser(c.rows) => c.pending \/ ~NoCheckpoint(c)) => ~EndsWithUser(e.rows)
  BY <1>1, <1>3, <1>4, <1>6
<1> QED BY <1>1, <1>2, <1>3, <1>4, <1>5, <1>6, <1>7, <1>8, <1>9

\* What fits stays so when a turn has begun, and when it is over.
LEMMA RowsFitLater ==
  ASSUME NEW r \in Seq(Rows), NEW m \in Nat, NEW n \in Nat, NEW before, NEW own, RowsFit(r, m, before),
         m < n \/ (m = n /\ (own = "any" \/ own = before \/ before = "none"))
  PROVE  RowsFit(r, n, own)
<1>1. ASSUME NEW k \in 1 .. Len(r)
      PROVE  /\ TurnOf(r[k]) <= n
             /\ TurnOf(r[k]) = n => own = "any" \/ (own = "user" /\ What(r[k]) = "user")
  <2>1. r[k] \in Rows
    OBVIOUS
  <2>2. /\ TurnOf(r[k]) \in Nat /\ TurnOf(r[k]) <= m
        /\ TurnOf(r[k]) = m => before = "any" \/ (before = "user" /\ What(r[k]) = "user")
    BY <2>1, RowParts DEF RowsFit
  <2> QED BY <2>2
<1> QED BY <1>1 DEF RowsFit

\* So do contents.
LEMMA FitsLater ==
  ASSUME NEW m \in Nat, NEW n \in Nat, NEW before, NEW own, NEW c, Fits(c, m, before),
         m < n \/ (m = n /\ (own = "any" \/ own = before \/ before = "none"))
  PROVE  Fits(c, n, own)
<1>1. c.rows \in Seq(Rows) /\ RowsFit(c.rows, m, before)
  BY DEF Fits, Contents
<1>2. RowsFit(c.rows, n, own)
  BY <1>1, RowsFitLater
<1>3. c.ckpt \in Checkpoints(n)
  BY CheckpointsGrow DEF Fits
<1> QED BY <1>2, <1>3 DEF Fits

\* Rows that fit, behind others that do.
LEMMA RowsFitJoin ==
  ASSUME NEW r \in Seq(Rows), NEW x \in Seq(Rows), NEW n, NEW own, RowsFit(r, n, own), RowsFit(x, n, own),
         Apart(r, x),
         \A i \in 1 .. Len(r), j \in 1 .. Len(x) :
           What(r[i]) = "closed" /\ TurnOf(r[i]) = TurnOf(x[j]) => ~IsUser(x[j])
  PROVE  RowsFit(r \o x, n, own)
<1> DEFINE q == r \o x
<1>1. Legal(q)
  BY LegalJoin DEF RowsFit
<1>2. \A k \in 1 .. Len(q) : \/ k \in 1 .. Len(r) /\ q[k] = r[k]
                             \/ k - Len(r) \in 1 .. Len(x) /\ q[k] = x[k - Len(r)]
  BY JoinedAs
<1> HIDE DEF q
<1>3. ASSUME NEW k \in 1 .. Len(q)
      PROVE  /\ TurnOf(q[k]) <= n
             /\ TurnOf(q[k]) = n => own = "any" \/ (own = "user" /\ What(q[k]) = "user")
  BY <1>2, <1>3 DEF RowsFit
<1> QED BY <1>1, <1>3 DEF RowsFit, q

\* The message of a turn goes behind the rows of the earlier ones.
LEMMA MessageFits ==
  ASSUME NEW n \in 1 .. MaxTurns, NEW c, Fits(c, n, "none"), NEW d,
         d = [c EXCEPT !.rows = Append(@, Row(n, "user", 0)), !.pending = TRUE]
  PROVE  /\ Fits(d, n, "user")
         /\ d.ckpt = c.ckpt /\ d.pending = TRUE /\ d.mark = c.mark
         /\ Grown(c, d)
         /\ StaysAfter(c, d, n)
         /\ Alternates(c, d)
         /\ ToSet(d.rows) = ToSet(c.rows) \cup {Row(n, "user", 0)}
<1> DEFINE e == Row(n, "user", 0)
           x == <<e>>
<1>0. n \in Nat /\ n \in 0 .. MaxTurns
  BY ConstantsAssumption
<1>1. e \in Rows /\ TurnOf(e) = n /\ What(e) = "user"
  BY RowTyped, RowBuilt
<1>2. IsUser(e) /\ ~IsTool(e)
  BY <1>1 DEF IsUser, IsTool
<1> HIDE DEF e
<1>3. x \in Seq(Rows) /\ Len(x) = 1 /\ x[1] = e /\ x # <<>>
  BY <1>1
<1>4. c \in Contents /\ c.rows \in Seq(Rows) /\ c.ckpt \in Seq(Rows)
  BY DEF Fits, Contents
<1>5. /\ d \in Contents /\ d.rows = c.rows \o x /\ d.ckpt = c.ckpt /\ d.pending = TRUE /\ d.mark = c.mark
  <2>1. Append(c.rows, e) = c.rows \o x /\ c.rows \o x \in Seq(Rows)
    BY <1>1, <1>3, <1>4, AppendJoins, Joined
  <2>2. d = [c EXCEPT !.rows = Append(c.rows, e), !.pending = TRUE]
    BY DEF e
  <2> QED BY <2>1, <2>2, <1>4 DEF Contents
<1>6. \A k \in 1 .. Len(c.rows) : TurnOf(c.rows[k]) # n
  BY <1>0 DEF Fits, RowsFit
<1>7. RowsFit(c.rows, n, "user")
  BY <1>0, <1>4, RowsFitLater DEF Fits
<1>8. RowsFit(x, n, "user")
  BY <1>0, <1>1, <1>2, <1>3, LegalSmall DEF RowsFit
<1>9. RowsFit(d.rows, n, "user")
  <2>1. Apart(c.rows, x)
    BY <1>1, <1>3, <1>6 DEF Apart
  <2>2. \A i \in 1 .. Len(c.rows), j \in 1 .. Len(x) :
          What(c.rows[i]) = "closed" /\ TurnOf(c.rows[i]) = TurnOf(x[j]) => ~IsUser(x[j])
    BY <1>1, <1>3, <1>6
  <2> QED BY <2>1, <2>2, <1>3, <1>4, <1>5, <1>7, <1>8, RowsFitJoin
<1>10. Apart(d.rows, d.ckpt)
  <2>1. SUFFICES ASSUME NEW i \in 1 .. Len(d.rows), NEW j \in 1 .. Len(c.ckpt) PROVE d.rows[i] # c.ckpt[j]
    BY <1>5 DEF Apart
  <2>2. ~IsUser(c.ckpt[j])
    BY <1>0, CheckpointFacts DEF Fits
  <2>3. (i \in 1 .. Len(c.rows) /\ d.rows[i] = c.rows[i]) \/ d.rows[i] = e
    BY <1>3, <1>4, <1>5, JoinedAs
  <2>4. \A k \in 1 .. Len(c.rows) : c.rows[k] # c.ckpt[j]
    BY DEF Fits, Apart
  <2> QED BY <2>2, <2>3, <2>4, <1>2
<1>11. Grown(c, d)
  BY <1>2, <1>3, <1>4, <1>5, JoinGrows
<1>12. ASSUME NEW a \in Nat, After(c.rows, a), n > a PROVE After(d.rows, a)
  <2>1. After(x, a)
    BY <1>1, <1>3, <1>12 DEF After
  <2>2. After(c.rows, a) /\ After(x, a) => After(c.rows \o x, a)
    BY <1>3, <1>4, JoinFacts
  <2> QED BY <2>1, <2>2, <1>5, <1>12
<1>13. Alternates(c, d)
  <2>1. Adjacent(x)
    BY <1>3 DEF Adjacent
  <2> QED BY <2>1, <1>3, <1>4, <1>5, JoinFacts DEF Alternates
<1>14. ToSet(d.rows) = ToSet(c.rows) \cup {e}
  <2>1. ToSet(x) = {e}
    BY <1>1, SingleQueue
  <2>2. \A r \in Seq(Rows), y \in Seq(Rows) : ToSet(r \o y) = ToSet(r) \cup ToSet(y)
    BY ConcatQueue
  <2>3. ToSet(c.rows \o x) = ToSet(c.rows) \cup ToSet(x)
    BY <2>2, <1>3, <1>4, Zenon
  <2> QED BY <2>1, <2>3, <1>5
<1> QED BY <1>5, <1>9, <1>10, <1>11, <1>12, <1>13, <1>14 DEF Fits, e, StaysAfter

\* A shortcut command leaves two rows, behind whatever is there.
LEMMA CommandFits ==
  ASSUME NEW n \in 1 .. MaxTurns, NEW c, Fits(c, n - 1, "any"), NoCheckpoint(c), NEW d,
         d = [c EXCEPT !.rows = @ \o <<Row(n, "command", 0), Row(n, "reply", 0)>>]
  PROVE  /\ Fits(d, n, "any")
         /\ NoCheckpoint(d) /\ d.pending = c.pending /\ d.mark = c.mark
         /\ Grown(c, d)
         /\ Toolless(c) => Toolless(d)
         /\ StaysAfter(c, d, n)
         /\ Alternates(c, d)
         /\ ~EndsWithUser(d.rows)
         /\ ToSet(c.rows) \subseteq ToSet(d.rows)
<1> DEFINE e == Row(n, "command", 0)
           f == Row(n, "reply", 0)
<1>0. n \in Nat /\ n - 1 \in Nat /\ n \in 0 .. MaxTurns
  <2>1. MaxTurns \in Nat
    BY ConstantsAssumption
  <2> QED BY <2>1
<1>1. /\ e \in Rows /\ TurnOf(e) = n /\ What(e) = "command"
      /\ f \in Rows /\ TurnOf(f) = n /\ What(f) = "reply"
  BY RowTyped, RowBuilt
<1>2. IsUser(e) /\ ~IsTool(e) /\ ~IsUser(f) /\ ~IsTool(f) /\ e # f
  BY <1>1 DEF IsUser, IsTool
<1>3. d = [c EXCEPT !.rows = @ \o <<e, f>>]
  OBVIOUS
<1> HIDE DEF e, f
<1>4. PICK x \in Seq(Rows) : x = <<e, f>> /\ Len(x) = 2 /\ x[1] = e /\ x[2] = f /\ x # <<>>
  <2>1. <<e, f>> \in Seq(Rows) /\ Len(<<e, f>>) = 2 /\ <<e, f>>[1] = e /\ <<e, f>>[2] = f /\ <<e, f>> # <<>>
    BY <1>1
  <2> QED BY <2>1, Zenon
<1>5. c \in Contents /\ c.rows \in Seq(Rows) /\ c.ckpt \in Seq(Rows)
  BY DEF Fits, Contents
<1>6. d \in Contents /\ d.rows = c.rows \o x /\ d.ckpt = c.ckpt /\ d.pending = c.pending /\ d.mark = c.mark
  <2>1. d = [c EXCEPT !.rows = c.rows \o x]
    BY <1>3, <1>4, Zenon
  <2>2. c.rows \o x \in Seq(Rows)
    BY <1>5
  <2> QED BY <2>1, <2>2, <1>5 DEF Contents
<1>7. \A k \in 1 .. Len(c.rows) : TurnOf(c.rows[k]) # n
  BY <1>0 DEF Fits, RowsFit
<1>8. RowsFit(c.rows, n, "any")
  BY <1>0, <1>5, RowsFitLater DEF Fits
<1>9. \A k \in 1 .. Len(x) : k = 1 \/ k = 2
  BY <1>4
<1>10. Legal(x)
  <2>1. IsInjective(x)
    BY <1>2, <1>4, <1>9 DEF IsInjective
  <2>2. ClosedLast(x)
    BY <1>1, <1>4, <1>9 DEF ClosedLast
  <2>3. ToolsPaired(x)
    BY <1>2, <1>4, <1>9 DEF ToolsPaired
  <2>4. CallsPaired(x)
    BY <1>1, <1>4, <1>9 DEF CallsPaired
  <2> QED BY <2>1, <2>2, <2>3, <2>4 DEF Legal
<1>11. RowsFit(x, n, "any")
  BY <1>0, <1>1, <1>4, <1>9, <1>10 DEF RowsFit
<1>12. RowsFit(d.rows, n, "any")
  <2>1. Apart(c.rows, x)
    BY <1>1, <1>4, <1>7, <1>9 DEF Apart
  <2>2. \A i \in 1 .. Len(c.rows), j \in 1 .. Len(x) :
          What(c.rows[i]) = "closed" /\ TurnOf(c.rows[i]) = TurnOf(x[j]) => ~IsUser(x[j])
    BY <1>1, <1>4, <1>7, <1>9
  <2> QED BY <2>1, <2>2, <1>4, <1>5, <1>6, <1>8, <1>11, RowsFitJoin
<1>13. Fits(d, n, "any") /\ NoCheckpoint(d)
  <2>1. d.ckpt = <<>>
    BY <1>6 DEF NoCheckpoint
  <2>2. Apart(d.rows, d.ckpt) /\ d.ckpt \in Checkpoints(n)
    BY <2>1 DEF Apart, Checkpoints
  <2> QED BY <2>1, <2>2, <1>6, <1>12 DEF Fits, NoCheckpoint
<1>14. Grown(c, d)
  BY <1>2, <1>4, <1>5, <1>6, JoinGrows
<1>15. Toolless(c) => Toolless(d)
  <2>1. \A k \in 1 .. Len(d.rows) : \/ k \in 1 .. Len(c.rows) /\ d.rows[k] = c.rows[k]
                                    \/ k - Len(c.rows) \in 1 .. Len(x) /\ d.rows[k] = x[k - Len(c.rows)]
    BY <1>4, <1>5, <1>6, JoinedAs
  <2>2. \A k \in 1 .. Len(x) : ~IsTool(x[k])
    BY <1>2, <1>4, <1>9
  <2> QED BY <2>1, <2>2, <1>13 DEF Toolless
<1>16. ASSUME NEW a \in Nat, After(c.rows, a), n > a PROVE After(d.rows, a)
  <2>1. After(x, a)
    BY <1>1, <1>4, <1>9, <1>16 DEF After
  <2>2. After(c.rows, a) /\ After(x, a) => After(c.rows \o x, a)
    BY <1>4, <1>5, JoinFacts
  <2> QED BY <2>1, <2>2, <1>6, <1>16
<1>17. Alternates(c, d)
  <2>1. Adjacent(x)
    BY <1>2, <1>4, <1>9 DEF Adjacent
  <2> QED BY <2>1, <1>4, <1>5, <1>6, JoinFacts DEF Alternates
<1>18. ~EndsWithUser(d.rows)
  <2>1. Last(d.rows) = Last(x)
    <3>1. \A r \in Seq(Rows) : Last(r \o x) = Last(x)
      BY <1>4, JoinFacts
    <3> QED BY <3>1, <1>5, <1>6
  <2>2. Last(x) = f
    BY <1>4 DEF Last
  <2> QED BY <2>1, <2>2, <1>2 DEF EndsWithUser
<1>19. ToSet(c.rows) \subseteq ToSet(d.rows)
  <2>1. \A r \in Seq(Rows), y \in Seq(Rows) : ToSet(r \o y) = ToSet(r) \cup ToSet(y)
    BY ConcatQueue
  <2> QED BY <2>1, <1>4, <1>5, <1>6
<1> QED BY <1>6, <1>13, <1>14, <1>15, <1>16, <1>17, <1>18, <1>19 DEF StaysAfter

\* What grows loses no row.
LEMMA GrownKeeps ==
  ASSUME NEW c \in Contents, NEW d \in Contents, Grown(c, d)
  PROVE  ToSet(c.rows) \subseteq ToSet(d.rows)
<1>1. c.rows \in Seq(Rows) /\ d.rows \in Seq(Rows) /\ Len(c.rows) \in Nat /\ Len(d.rows) \in Nat
  BY DEF Contents
<1>2. ASSUME NEW k \in 1 .. Len(c.rows) PROVE c.rows[k] \in ToSet(d.rows)
  <2>1. k \in 1 .. Len(d.rows) /\ d.rows[k] = c.rows[k]
    BY <1>1 DEF Grown
  <2> QED BY <2>1, <1>1 DEF ToSet
<1> QED BY <1>1, <1>2 DEF ToSet

\* What a turn produced, all of one turn, paired, and no message of the user.
Results(x, n) ==
  /\ x \in Seq(Rows)
  /\ IsInjective(x) /\ ToolsPaired(x) /\ CallsPaired(x)
  /\ \A k \in 1 .. Len(x) : TurnOf(x[k]) = n /\ What(x[k]) \in {"call", "result", "answer"}

\* They end what the message began.
Settles(c, d, x) ==
  (Adjacent(c.rows) => Adjacent(d.rows)) /\ (x # <<>> => ~EndsWithUser(d.rows))

\* What a turn produced goes behind the message of that turn.
LEMMA ResultsFit ==
  ASSUME NEW n \in 1 .. MaxTurns, NEW c, Fits(c, n, "user"), NEW x, Results(x, n), NEW d,
         d = [c EXCEPT !.rows = @ \o x, !.pending = FALSE, !.ckpt = <<>>]
  PROVE  /\ Fits(d, n, "any")
         /\ NoCheckpoint(d) /\ d.pending = FALSE /\ d.mark = c.mark
         /\ Grown(c, d)
         /\ StaysAfter(c, d, n)
         /\ Settles(c, d, x)
<1>0. n \in Nat /\ n \in 0 .. MaxTurns
  BY ConstantsAssumption
<1>1. c \in Contents /\ c.rows \in Seq(Rows) /\ c.ckpt \in Seq(Rows) /\ x \in Seq(Rows)
  BY DEF Fits, Contents, Results
<1>2. d \in Contents /\ d.rows = c.rows \o x /\ d.ckpt = <<>> /\ d.pending = FALSE /\ d.mark = c.mark
  <2>1. c.rows \o x \in Seq(Rows) /\ <<>> \in Seq(Rows) /\ d = [c EXCEPT !.rows = c.rows \o x, !.pending = FALSE, !.ckpt = <<>>]
    BY <1>1
  <2> QED BY <2>1, <1>1 DEF Contents
<1>3. \A k \in 1 .. Len(x) : ~IsUser(x[k])
  BY DEF Results, IsUser
<1>4. x # <<>> => ~IsTool(x[1])
  <2>1. SUFFICES ASSUME x # <<>> PROVE ~IsTool(x[1])
    OBVIOUS
  <2>2. 1 \in 1 .. Len(x)
    BY <2>1, <1>1
  <2> QED BY <2>2 DEF Results, ToolsPaired
<1>5. Legal(x)
  BY <1>3 DEF Legal, ClosedLast, Results
<1>6. Apart(c.rows, x)
  <2>1. SUFFICES ASSUME NEW i \in 1 .. Len(c.rows), NEW j \in 1 .. Len(x), c.rows[i] = x[j] PROVE FALSE
    BY DEF Apart
  <2>2. TurnOf(x[j]) = n /\ What(x[j]) # "user"
    BY DEF Results
  <2> QED BY <2>1, <2>2 DEF Fits, RowsFit
<1>7. RowsFit(c.rows, n, "any")
  BY <1>0, <1>1, RowsFitLater DEF Fits
<1>8. RowsFit(x, n, "any")
  BY <1>0, <1>5 DEF RowsFit, Results
<1>9. RowsFit(d.rows, n, "any")
  BY <1>1, <1>2, <1>3, <1>6, <1>7, <1>8, RowsFitJoin
<1>10. Fits(d, n, "any") /\ NoCheckpoint(d)
  <2>1. Apart(d.rows, d.ckpt) /\ d.ckpt \in Checkpoints(n)
    BY <1>2 DEF Apart, Checkpoints
  <2> QED BY <2>1, <1>2, <1>9 DEF Fits, NoCheckpoint
<1>11. Grown(c, d)
  BY <1>1, <1>2, <1>4, JoinGrows
<1>12. ASSUME NEW a \in Nat, After(c.rows, a), n > a PROVE After(d.rows, a)
  <2>1. After(x, a)
    BY <1>12 DEF After, Results
  <2>2. After(c.rows, a) /\ After(x, a) => After(c.rows \o x, a)
    BY <1>1, JoinFacts
  <2> QED BY <2>1, <2>2, <1>2, <1>12
<1>13. Adjacent(c.rows) => Adjacent(d.rows)
  <2>1. Adjacent(x)
    <3>1. ASSUME NEW k \in 2 .. Len(x) PROVE ~IsUser(x[k])
      <4>1. k \in 1 .. Len(x)
        BY <1>1
      <4> QED BY <4>1, <1>3
    <3> QED BY <3>1 DEF Adjacent
  <2>2. x # <<>> => ~IsUser(x[1])
    <3>1. x # <<>> => 1 \in 1 .. Len(x)
      BY <1>1
    <3> QED BY <3>1, <1>3
  <2> QED BY <2>1, <2>2, <1>1, <1>2, JoinFacts
<1>14. x # <<>> => ~EndsWithUser(d.rows)
  <2>1. SUFFICES ASSUME x # <<>> PROVE ~IsUser(Last(d.rows))
    BY DEF EndsWithUser
  <2>2. Last(d.rows) = Last(x)
    BY <2>1, <1>1, <1>2, JoinFacts
  <2>3. Last(x) = x[Len(x)] /\ Len(x) \in 1 .. Len(x)
    BY <2>1, <1>1, LastRow
  <2> QED BY <2>2, <2>3, <1>3
<1> QED BY <1>2, <1>10, <1>11, <1>12, <1>13, <1>14 DEF Settles, StaysAfter

\* A checkpoint of the turn in progress.
LEMMA CheckpointFits ==
  ASSUME NEW n \in 1 .. MaxTurns, NEW c, Fits(c, n, "user"), NEW x \in Checkpoints(n),
         \A k \in 1 .. Len(x) : TurnOf(x[k]) = n, NEW d, d = [c EXCEPT !.ckpt = x]
  PROVE  /\ Fits(d, n, "user")
         /\ d.rows = c.rows /\ d.mark = c.mark /\ d.pending = c.pending
         /\ Grown(c, d)
<1>0. n \in Nat /\ n \in 0 .. MaxTurns
  BY ConstantsAssumption
<1>1. c \in Contents /\ c.rows \in Seq(Rows) /\ x \in Seq(Rows)
  BY <1>0, CheckpointFacts DEF Fits, Contents
<1>2. d \in Contents /\ d.rows = c.rows /\ d.mark = c.mark /\ d.pending = c.pending /\ d.ckpt = x
  BY <1>1 DEF Contents
<1>3. Apart(c.rows, x)
  <2>1. SUFFICES ASSUME NEW i \in 1 .. Len(c.rows), NEW j \in 1 .. Len(x), c.rows[i] = x[j] PROVE FALSE
    BY DEF Apart
  <2>2. TurnOf(x[j]) = n /\ What(x[j]) # "user"
    BY <1>0, CheckpointFacts
  <2> QED BY <2>1, <2>2 DEF Fits, RowsFit
<1>4. Grown(c, d)
  <2>1. Len(c.rows) \in Nat
    BY <1>1
  <2> QED BY <2>1, <1>2 DEF Grown
<1> QED BY <1>2, <1>3, <1>4 DEF Fits

\* Those the runner makes.
OfTurn(x, n) == x \in Checkpoints(n) /\ \A k \in 1 .. Len(x) : TurnOf(x[k]) = n

\* What a turn sets as its checkpoint is one of its own.
LEMMA CheckpointsOfTurn ==
  ASSUME NEW n \in 1 .. MaxTurns
  PROVE  /\ \A i \in 1 .. MaxIter :
              /\ OfTurn(<<Row(n, "call", i), Row(n, "cut", i)>>, n)
              /\ OfTurn(<<Row(n, "call", i), Row(n, "result", i)>>, n)
         /\ OfTurn(<<Row(n, "answer", 0)>>, n)
<1>1. n \in 1 .. n
  BY ConstantsAssumption
<1>2. \A what, i : TurnOf(Row(n, what, i)) = n
  BY RowBuilt
<1>3. ASSUME NEW i \in 1 .. MaxIter, NEW what \in {"cut", "result"}
      PROVE  OfTurn(<<Row(n, "call", i), Row(n, what, i)>>, n)
  <2>1. <<Row(n, "call", i), Row(n, what, i)>> \in Checkpoints(n)
    BY <1>1 DEF Checkpoints
  <2> QED BY <2>1, <1>2 DEF OfTurn
<1>4. <<Row(n, "answer", 0)>> \in Checkpoints(n)
  BY <1>1 DEF Checkpoints
<1>5. OfTurn(<<Row(n, "answer", 0)>>, n)
  BY <1>2, <1>4 DEF OfTurn
<1> QED BY <1>3, <1>5

\* The offset alone changes nothing of that.
LEMMA MarkFits ==
  ASSUME NEW n, NEW own, NEW c, Fits(c, n, own), NEW m \in Nat, NEW d, d = [c EXCEPT !.mark = m]
  PROVE  /\ Fits(d, n, own)
         /\ d.rows = c.rows /\ d.ckpt = c.ckpt /\ d.pending = c.pending /\ d.mark = m
<1>1. d \in Contents /\ d.rows = c.rows /\ d.ckpt = c.ckpt /\ d.pending = c.pending /\ d.mark = m
  BY DEF Fits, Contents
<1> QED BY <1>1 DEF Fits

\* Loading resets an offset, and changes nothing else.
LEMMA LoadedFits ==
  ASSUME NEW n, NEW own, NEW c, Fits(c, n, own)
  PROVE  /\ Fits(Loaded(c), n, own)
         /\ Loaded(c).rows = c.rows /\ Loaded(c).ckpt = c.ckpt /\ Loaded(c).pending = c.pending
         /\ Loaded(c).mark <= Len(c.rows)
         /\ Loaded(c).mark = c.mark \/ Loaded(c).mark = 0
         /\ c.mark <= Len(c.rows) => Loaded(c) = c
<1>1. Len(c.rows) \in Nat /\ c.mark \in Nat
  BY DEF Fits, Contents
<1>2. CASE c.mark > Len(c.rows)
  <2>1. Loaded(c) = [c EXCEPT !.mark = 0]
    BY <1>2 DEF Loaded
  <2>2. PICK d : d = Loaded(c)
    OBVIOUS
  <2>3. Fits(d, n, own) /\ d.rows = c.rows /\ d.ckpt = c.ckpt /\ d.pending = c.pending /\ d.mark = 0
    BY <2>1, <2>2, MarkFits
  <2> QED BY <2>2, <2>3, <1>1, <1>2
<1>3. CASE c.mark <= Len(c.rows)
  BY <1>1, <1>3 DEF Loaded
<1> QED BY <1>1, <1>2, <1>3

\* Other rows in a session.
LEMMA RowsReplaced ==
  ASSUME NEW n, NEW own, NEW c, Fits(c, n, own), NEW r \in Seq(Rows), RowsFit(r, n, own), Apart(r, c.ckpt),
         NEW d, d = [c EXCEPT !.rows = r, !.mark = 0]
  PROVE  /\ Fits(d, n, own)
         /\ d.rows = r /\ d.ckpt = c.ckpt /\ d.pending = c.pending /\ d.mark = 0
<1>1. d \in Contents /\ d.rows = r /\ d.ckpt = c.ckpt /\ d.pending = c.pending /\ d.mark = 0
  BY DEF Fits, Contents
<1> QED BY <1>1 DEF Fits

\* No rows fit, and the end of rows that do.
LEMMA NoRowsFit ==
  ASSUME NEW n, NEW own
  PROVE  RowsFit(<<>>, n, own) /\ \A x : Apart(<<>>, x)
BY LegalSmall DEF RowsFit, Apart

\* The end of rows that fit fits too, if it does not begin with a result.
LEMMA EndFits ==
  ASSUME NEW n, NEW own, NEW r \in Seq(Rows), RowsFit(r, n, own), NEW m \in Nat \ {0}, m <= Len(r) + 1,
         m <= Len(r) => ~IsTool(r[m])
  PROVE  /\ SubSeq(r, m, Len(r)) \in Seq(Rows)
         /\ RowsFit(SubSeq(r, m, Len(r)), n, own)
         /\ \A x : Apart(r, x) => Apart(SubSeq(r, m, Len(r)), x)
<1>1. Len(r) \in Nat /\ Legal(r)
  BY DEF RowsFit
<1>2. PICK q : q = SubSeq(r, m, Len(r))
  OBVIOUS
<1>3. /\ q \in Seq(Rows)
      /\ \A k \in 1 .. Len(q) : m + k - 1 \in 1 .. Len(r) /\ q[k] = r[m + k - 1]
  BY <1>1, <1>2, Slice
<1>4. Legal(q)
  BY <1>1, <1>2, LegalEnd
<1>5. RowsFit(q, n, own)
  BY <1>3, <1>4 DEF RowsFit
<1>6. \A x : Apart(r, x) => Apart(q, x)
  BY <1>3 DEF Apart
<1> QED BY <1>2, <1>3, <1>5, <1>6

-----------------------------------------------------------------------------
(* What an idle compaction keeps.                                           *)

\* A result follows a call. Of the end of legal rows this is all that is left.
ToolsFollow(r) == \A k \in 2 .. Len(r) : IsTool(r[k]) => ~IsTool(r[k - 1])

\* The rows behind an offset, and that no two results follow each other there.
LEMMA EndFollows ==
  ASSUME NEW r \in Seq(Rows), Legal(r), NEW m \in Nat, m <= Len(r)
  PROVE  /\ SubSeq(r, m + 1, Len(r)) \in Seq(Rows)
         /\ Len(SubSeq(r, m + 1, Len(r))) = Len(r) - m
         /\ \A k \in 1 .. Len(r) - m : SubSeq(r, m + 1, Len(r))[k] = r[m + k]
         /\ ToolsFollow(SubSeq(r, m + 1, Len(r)))
<1>1. Len(r) \in Nat
  OBVIOUS
<1>2. PICK q : q = SubSeq(r, m + 1, Len(r))
  OBVIOUS
<1>3. /\ q \in Seq(Rows) /\ Len(q) = Len(r) - (m + 1) + 1
      /\ \A k \in 1 .. Len(r) - (m + 1) + 1 : q[k] = r[(m + 1) + k - 1]
  BY <1>1, <1>2, Slice
<1>4. Len(q) = Len(r) - m /\ \A k \in 1 .. Len(r) - m : q[k] = r[m + k]
  BY <1>1, <1>3
<1>5. ASSUME NEW k \in 2 .. Len(q), IsTool(q[k]) PROVE ~IsTool(q[k - 1])
  <2>1. k \in 1 .. Len(r) - m /\ k - 1 \in 1 .. Len(r) - m /\ m + k \in 1 .. Len(r) /\ m + (k - 1) = m + k - 1
    BY <1>1, <1>4
  <2>2. q[k] = r[m + k] /\ q[k - 1] = r[m + k - 1]
    BY <2>1, <1>4
  <2>3. Pair(r[m + k - 1], r[m + k])
    BY <2>1, <2>2, <1>5 DEF Legal, ToolsPaired
  <2> QED BY <2>2, <2>3 DEF Pair, IsTool
<1> QED BY <1>2, <1>3, <1>4, <1>5 DEF ToolsFollow

\* Of more rows than that it keeps the end from a row that is no result: the
\* last message of a user at or before the Keep-th row from the end, or a row
\* among the last Keep.
LEMMA SuffixFrom ==
  ASSUME NEW r \in Seq(Rows), ToolsFollow(r), Len(r) > Keep
  PROVE  \E f \in 1 .. Len(r) :
           /\ Suffix(r) = SubSeq(r, f, Len(r))
           /\ ~IsTool(r[f])
           /\ \/ /\ f <= Len(r) - Keep + 1 /\ IsUser(r[f])
                 /\ \A i \in f + 1 .. Len(r) - Keep + 1 : ~IsUser(r[i])
              \/ /\ f >= Len(r) - Keep + 1
                 /\ \A i \in 1 .. Len(r) - Keep + 1 : ~IsUser(r[i])
<1> DEFINE s == Len(r) - Keep + 1
           before == {i \in 1 .. s : IsUser(r[i])}
           within == {i \in s .. Len(r) : IsUser(r[i])}
           others == {i \in s .. Len(r) : ~IsTool(r[i])}
           first == IF before # {} THEN Max(before)
                    ELSE IF within # {} THEN Min(within) ELSE Min(others)
<1>1. Len(r) \in Nat /\ Keep \in Nat /\ Keep >= 2 /\ s \in Nat /\ s >= 2 /\ s + 1 <= Len(r)
  <2>1. Keep \in Nat /\ Keep >= 2
    BY ConstantsAssumption
  <2> QED BY <2>1
<1>2. Suffix(r) = SubSeq(r, first, Len(r))
  <2>1. ~(Len(r) <= Keep)
    BY <1>1
  <2> QED BY <2>1, Zenon DEF Suffix
<1>3. \A i \in 1 .. Len(r) : IsUser(r[i]) => ~IsTool(r[i])
  BY DEF IsUser, IsTool
<1>4. CASE before # {}
  <2>1. s \in Nat /\ before \in SUBSET (0 .. s)
    BY <1>1
  <2>2. PICK f : f = Max(before)
    OBVIOUS
  <2>3. f \in before /\ \A y \in before : f >= y
    BY <2>1, <2>2, <1>4, MaxFacts
  <2>4. first = f
    BY <2>2, <1>4
  <2>5. f \in 1 .. s /\ IsUser(r[f]) /\ f \in 1 .. Len(r)
    BY <2>3, <1>1
  <2>6. \A i \in f + 1 .. s : ~IsUser(r[i])
    BY <2>3, <2>5, <1>1
  <2>7. Suffix(r) = SubSeq(r, f, Len(r))
    BY <2>4, <1>2, Zenon
  <2> QED BY <2>5, <2>6, <2>7, <1>3
<1>5. CASE before = {} /\ within # {}
  <2>1. within \in SUBSET Nat
    BY <1>1
  <2>2. PICK f : f = Min(within)
    OBVIOUS
  <2>3. f \in within
    BY <2>1, <2>2, <1>5, MinFacts
  <2>4. first = f
    BY <2>2, <1>5
  <2>5. f \in s .. Len(r) /\ IsUser(r[f]) /\ f \in 1 .. Len(r)
    BY <2>3, <1>1
  <2>6. Suffix(r) = SubSeq(r, f, Len(r))
    BY <2>4, <1>2, Zenon
  <2>7. \A i \in 1 .. s : ~IsUser(r[i])
    BY <1>5
  <2> QED BY <2>5, <2>6, <2>7, <1>1, <1>3
<1>6. CASE before = {} /\ within = {}
  <2>1. others \in SUBSET Nat
    BY <1>1
  <2>2. others # {}
    <3>1. s \in s .. Len(r) /\ s + 1 \in s .. Len(r) /\ s + 1 \in 2 .. Len(r) /\ s + 1 - 1 = s
      BY <1>1
    <3>2. IsTool(r[s + 1]) => ~IsTool(r[s])
      BY <3>1 DEF ToolsFollow
    <3> QED BY <3>1, <3>2
  <2>3. PICK f : f = Min(others)
    OBVIOUS
  <2>4. f \in others
    BY <2>1, <2>2, <2>3, MinFacts
  <2>5. first = f
    BY <2>3, <1>6
  <2>6. f \in s .. Len(r) /\ ~IsTool(r[f]) /\ f \in 1 .. Len(r)
    BY <2>4, <1>1
  <2>7. Suffix(r) = SubSeq(r, f, Len(r))
    BY <2>5, <1>2, Zenon
  <2>8. \A i \in 1 .. s : ~IsUser(r[i])
    BY <1>6
  <2> QED BY <2>6, <2>7, <2>8, <1>1
<1> QED BY <1>4, <1>5, <1>6

Whole(r) == Dropped(r) = <<>>

\* What is not longer than that is kept whole.
LEMMA ShortIsWhole ==
  ASSUME NEW r \in Seq(Rows), Len(r) <= Keep
  PROVE  Suffix(r) = r /\ Whole(r) /\ Dropped(r) = <<>>
<1>1. Len(r) \in Nat
  OBVIOUS
<1>2. Suffix(r) = r
  BY DEF Suffix
<1>3. Dropped(r) = SubSeq(r, 1, 0)
  BY <1>1, <1>2 DEF Dropped
<1> QED BY <1>2, <1>3 DEF Whole

\* What was compacted would not be compacted again.
LEMMA SuffixIsWhole ==
  ASSUME NEW r \in Seq(Rows), ToolsFollow(r)
  PROVE  Whole(Suffix(r))
<1>1. Len(r) \in Nat /\ Keep \in Nat
  BY ConstantsAssumption
<1>2. CASE Len(r) <= Keep
  BY <1>2, ShortIsWhole
<1>3. CASE Len(r) > Keep
  <2>1. PICK f \in 1 .. Len(r) :
          /\ Suffix(r) = SubSeq(r, f, Len(r))
          /\ \/ /\ f <= Len(r) - Keep + 1 /\ IsUser(r[f])
                /\ \A i \in f + 1 .. Len(r) - Keep + 1 : ~IsUser(r[i])
             \/ f >= Len(r) - Keep + 1
    BY <1>3, SuffixFrom
  <2>2. PICK q : q = Suffix(r)
    OBVIOUS
  <2>3. /\ q \in Seq(Rows) /\ Len(q) = Len(r) - f + 1
        /\ \A k \in 1 .. Len(r) - f + 1 : q[k] = r[f + k - 1]
    BY <2>1, <2>2, <1>1, Slice
  <2>4. CASE Len(q) <= Keep
    BY <2>2, <2>3, <2>4, ShortIsWhole
  <2>5. CASE Len(q) > Keep
    <3>1. /\ IsUser(r[f]) /\ f <= Len(r) - Keep
          /\ \A i \in f + 1 .. Len(r) - Keep + 1 : ~IsUser(r[i])
      BY <2>1, <2>3, <2>5, <1>1
    <3>2. ToolsFollow(q)
      <4>1. ASSUME NEW k \in 2 .. Len(q), IsTool(q[k]) PROVE ~IsTool(q[k - 1])
        <5>1. /\ k \in 1 .. Len(r) - f + 1 /\ k - 1 \in 1 .. Len(r) - f + 1
              /\ f + k - 1 \in 2 .. Len(r) /\ f + (k - 1) - 1 = (f + k - 1) - 1
          BY <2>3, <1>1
        <5>2. q[k] = r[f + k - 1] /\ q[k - 1] = r[(f + k - 1) - 1]
          BY <5>1, <2>3
        <5> QED BY <5>1, <5>2, <4>1 DEF ToolsFollow
      <4> QED BY <4>1 DEF ToolsFollow
    <3>3. PICK g \in 1 .. Len(q) :
            /\ Suffix(q) = SubSeq(q, g, Len(q))
            /\ \/ g <= Len(q) - Keep + 1 /\ IsUser(q[g])
               \/ \A i \in 1 .. Len(q) - Keep + 1 : ~IsUser(q[i])
      BY <3>2, <2>3, <2>5, SuffixFrom
    <3>4. 1 \in 1 .. Len(r) - f + 1 /\ f + 1 - 1 = f
      BY <2>1, <1>1
    <3>5. IsUser(q[1]) /\ 1 \in 1 .. Len(q) - Keep + 1
      BY <3>1, <3>4, <2>3, <2>5, <1>1
    <3>6. g <= Len(q) - Keep + 1 /\ IsUser(q[g])
      BY <3>3, <3>5
    <3>7. g = 1
      <4>1. SUFFICES ASSUME g # 1 PROVE FALSE
        OBVIOUS
      <4>2. g \in 1 .. Len(r) - f + 1 /\ f + g - 1 \in f + 1 .. Len(r) - Keep + 1
        BY <4>1, <3>6, <2>3, <1>1
      <4>3. q[g] = r[f + g - 1]
        BY <4>2, <2>3
      <4> QED BY <4>2, <4>3, <3>1, <3>6
    <3>8. Suffix(q) = q
      BY <3>3, <3>7, <2>3
    <3>9. Dropped(q) = SubSeq(q, 1, 0)
      <4>1. Len(q) \in Nat
        BY <2>3
      <4> QED BY <4>1, <3>8 DEF Dropped
    <3>10. SubSeq(q, 1, 0) = <<>>
      BY <2>3
    <3> QED BY <3>9, <3>10, <2>2 DEF Whole
  <2> QED BY <2>4, <2>5, <2>3, <1>1
<1> QED BY <1>1, <1>2, <1>3

\* What it keeps and what it drops are the rows, and the last one is kept.
LEMMA SuffixFacts ==
  ASSUME NEW r \in Seq(Rows), ToolsFollow(r)
  PROVE  /\ Suffix(r) \in Seq(Rows) /\ Dropped(r) \in Seq(Rows)
         /\ ToSet(r) = ToSet(Dropped(r)) \cup ToSet(Suffix(r))
         /\ Whole(r) => Suffix(r) = r
         /\ ~Whole(r) => Len(r) > Keep
         /\ r # <<>> => Suffix(r) # <<>> /\ Last(Suffix(r)) = Last(r)
         /\ Adjacent(r) => Adjacent(Suffix(r))
<1>1. Len(r) \in Nat /\ Keep \in Nat
  BY ConstantsAssumption
<1>2. CASE Len(r) <= Keep
  <2>1. Suffix(r) = r /\ Whole(r) /\ Dropped(r) = <<>>
    BY <1>2, ShortIsWhole
  <2>2. ToSet(<<>>) = {} /\ <<>> \in Seq(Rows)
    BY EmptyQueue
  <2> QED BY <2>1, <2>2
<1>3. CASE Len(r) > Keep
  <2>1. PICK f \in 1 .. Len(r) : Suffix(r) = SubSeq(r, f, Len(r))
    BY <1>3, SuffixFrom
  <2>2. PICK q : q = Suffix(r)
    OBVIOUS
  <2>3. /\ q \in Seq(Rows) /\ Len(q) = Len(r) - f + 1
        /\ \A k \in 1 .. Len(r) - f + 1 : q[k] = r[f + k - 1]
    BY <2>1, <2>2, <1>1, Slice
  <2>4. Dropped(r) = SubSeq(r, 1, f - 1)
    <3>1. Len(r) - Len(q) = f - 1
      BY <2>3, <1>1
    <3> QED BY <3>1, <2>2 DEF Dropped
  <2>5. f - 1 \in Nat /\ f - 1 <= Len(r) /\ f \in Nat \ {0}
    BY <1>1
  <2>6. /\ Dropped(r) \in Seq(Rows) /\ Len(Dropped(r)) = f - 1
        /\ ToSet(Dropped(r)) = {r[i] : i \in 1 .. f - 1}
    BY <2>4, <2>5, <1>1, Slice, SliceQueue
  <2>7. ToSet(q) = {r[i] : i \in f .. Len(r)}
    BY <2>1, <2>2, <2>5, <1>1, SliceQueue
  <2>8. ToSet(r) = ToSet(Dropped(r)) \cup ToSet(q)
    <3>1. ToSet(r) = {r[i] : i \in 1 .. Len(r)}
      BY DEF ToSet
    <3>2. \A i \in 1 .. Len(r) : i \in 1 .. f - 1 \/ i \in f .. Len(r)
      BY <1>1
    <3>3. 1 .. f - 1 \subseteq 1 .. Len(r) /\ f .. Len(r) \subseteq 1 .. Len(r)
      BY <1>1
    <3> QED BY <3>1, <3>2, <3>3, <2>6, <2>7
  <2>9. Whole(r) => q = r
    <3>1. SUFFICES ASSUME Whole(r) PROVE q = r
      OBVIOUS
    <3>2. Len(Dropped(r)) = 0
      BY <3>1 DEF Whole
    <3>3. f = 1
      BY <3>2, <2>6
    <3> QED BY <3>3, <2>1, <2>2
  <2>10. q # <<>> /\ Last(q) = Last(r)
    <3>1. Len(q) \in 1 .. Len(r) - f + 1 /\ f + Len(q) - 1 = Len(r)
      BY <2>3, <1>1
    <3>2. q[Len(q)] = r[Len(r)]
      BY <3>1, <2>3
    <3> QED BY <3>1, <3>2, <2>3 DEF Last
  <2>11. Adjacent(r) => Adjacent(q)
    <3>1. ASSUME Adjacent(r), NEW k \in 2 .. Len(q) PROVE ~(IsUser(q[k - 1]) /\ IsUser(q[k]))
      <4>1. /\ k \in 1 .. Len(r) - f + 1 /\ k - 1 \in 1 .. Len(r) - f + 1
            /\ f + k - 1 \in 2 .. Len(r) /\ f + (k - 1) - 1 = (f + k - 1) - 1
        BY <2>3, <1>1
      <4>2. q[k] = r[f + k - 1] /\ q[k - 1] = r[(f + k - 1) - 1]
        BY <4>1, <2>3
      <4> QED BY <4>1, <4>2, <3>1 DEF Adjacent
    <3> QED BY <3>1 DEF Adjacent
  <2> QED BY <2>2, <2>3, <2>6, <2>8, <2>9, <2>10, <2>11, <1>3
<1> QED BY <1>1, <1>2, <1>3

\* If the rows behind an offset are kept whole, so are those behind a later
\* offset at which a message of the user stands.
LEMMA BoundaryIsWhole ==
  ASSUME NEW r \in Seq(Rows), Legal(r), NEW m \in Nat, m <= Len(r), NEW n \in Nat, m <= n, n < Len(r),
         IsUser(r[n + 1]), Whole(SubSeq(r, m + 1, Len(r)))
  PROVE  Whole(SubSeq(r, n + 1, Len(r)))
<1>1. Len(r) \in Nat /\ Keep \in Nat /\ Keep >= 2
  <2>1. Keep \in Nat /\ Keep >= 2
    BY ConstantsAssumption
  <2> QED BY <2>1
<1>2. PICK t : t = SubSeq(r, m + 1, Len(r))
  OBVIOUS
<1>3. PICK u : u = SubSeq(r, n + 1, Len(r))
  OBVIOUS
<1>4. /\ t \in Seq(Rows) /\ Len(t) = Len(r) - m /\ ToolsFollow(t)
      /\ \A k \in 1 .. Len(r) - m : t[k] = r[m + k]
  BY <1>2, EndFollows
<1>5. u \in Seq(Rows) /\ Len(u) = Len(r) - n
  BY <1>1, <1>3, EndFollows
<1>6. CASE Len(u) <= Keep
  BY <1>3, <1>5, <1>6, ShortIsWhole
<1>7. CASE n = m
  BY <1>7
<1>8. CASE Len(u) > Keep /\ n # m
  <2>1. Len(t) > Keep
    BY <1>1, <1>4, <1>5, <1>8
  <2>2. PICK f \in 1 .. Len(t) :
          /\ Suffix(t) = SubSeq(t, f, Len(t))
          /\ \/ \A i \in f + 1 .. Len(t) - Keep + 1 : ~IsUser(t[i])
             \/ f >= Len(t) - Keep + 1
    BY <2>1, <1>4, SuffixFrom
  <2>3. f = 1
    <3>1. Suffix(t) = t
      BY <1>2, <1>4, SuffixFacts
    <3>2. Len(SubSeq(t, f, Len(t))) = Len(t) - f + 1
      BY <2>2, <1>1, <1>4, Slice
    <3> QED BY <3>1, <3>2, <2>2, <1>1, <1>4
  <2>4. n + 1 - m \in 2 .. Len(t) - Keep + 1 /\ n + 1 - m \in 1 .. Len(r) - m /\ m + (n + 1 - m) = n + 1
    BY <1>1, <1>4, <1>5, <1>8
  <2>5. t[n + 1 - m] = r[n + 1]
    BY <2>4, <1>4
  <2>6. \A i \in 2 .. Len(t) - Keep + 1 : ~IsUser(t[i])
    BY <2>1, <2>2, <2>3, <1>1, <1>4
  <2>7. ~IsUser(t[n + 1 - m])
    BY <2>4, <2>6, Zenon
  <2> QED BY <2>5, <2>7
<1> QED BY <1>1, <1>5, <1>6, <1>7, <1>8

\* What is not consolidated begins with no result, or is long enough that an
\* idle compaction drops the result it begins with.
Sure(c) ==
  \/ c.mark = Len(c.rows)
  \/ c.mark < Len(c.rows) /\ ~IsTool(c.rows[c.mark + 1])
  \/ Len(c.rows) > c.mark + Keep

\* It stays so as the session grows.
LEMMA SureGrows ==
  ASSUME NEW c \in Contents, NEW d \in Contents, Grown(c, d), Sure(c)
  PROVE  Sure(d)
<1>1. Len(c.rows) \in Nat /\ Len(d.rows) \in Nat /\ c.mark \in Nat /\ d.mark = c.mark /\ Len(c.rows) <= Len(d.rows)
      /\ Keep \in Nat
  <2>1. Keep \in Nat
    BY ConstantsAssumption
  <2> QED BY <2>1 DEF Contents, Grown
<1>2. CASE c.mark = Len(c.rows)
  BY <1>1, <1>2 DEF Sure, Grown
<1>3. CASE c.mark < Len(c.rows) /\ ~IsTool(c.rows[c.mark + 1])
  <2>1. c.mark + 1 \in 1 .. Len(c.rows)
    BY <1>1, <1>3
  <2> QED BY <2>1, <1>1, <1>3 DEF Sure, Grown
<1>4. CASE Len(c.rows) > c.mark + Keep
  BY <1>1, <1>4 DEF Sure
<1> QED BY <1>2, <1>3, <1>4 DEF Sure

\* The end of an end.
LEMMA EndOfEnd ==
  ASSUME NEW r \in Seq(Rows), NEW m \in Nat, m <= Len(r), NEW f \in 1 .. Len(r) - m,
         NEW t \in Seq(Rows), Len(t) = Len(r) - m, \A k \in 1 .. Len(r) - m : t[k] = r[m + k]
  PROVE  SubSeq(t, f, Len(t)) = SubSeq(r, m + f, Len(r))
<1>1. Len(r) \in Nat /\ f \in Nat \ {0} /\ f <= Len(t) + 1 /\ m + f \in Nat \ {0} /\ m + f <= Len(r) + 1
  OBVIOUS
<1>2. PICK a : a = SubSeq(t, f, Len(t))
  OBVIOUS
<1>3. PICK b : b = SubSeq(r, m + f, Len(r))
  OBVIOUS
<1>4. /\ a \in Seq(Rows) /\ Len(a) = Len(t) - f + 1
      /\ \A k \in 1 .. Len(t) - f + 1 : a[k] = t[f + k - 1]
  BY <1>1, <1>2, Slice
<1>5. PICK g : g = m + f
  OBVIOUS
<1>6. /\ b \in Seq(Rows) /\ Len(b) = Len(r) - g + 1
      /\ \A k \in 1 .. Len(r) - g + 1 : b[k] = r[g + k - 1]
  BY <1>1, <1>3, <1>5, Slice
<1>7. Len(a) = Len(b)
  BY <1>1, <1>4, <1>5, <1>6
<1>8. ASSUME NEW k \in 1 .. Len(a) PROVE a[k] = b[k]
  <2>1. /\ k \in 1 .. Len(t) - f + 1 /\ k \in 1 .. Len(r) - g + 1
        /\ f + k - 1 \in 1 .. Len(r) - m /\ m + (f + k - 1) = g + k - 1
    BY <1>1, <1>4, <1>5
  <2>2. a[k] = t[f + k - 1] /\ b[k] = r[g + k - 1]
    BY <2>1, <1>4, <1>6
  <2>3. t[f + k - 1] = r[m + (f + k - 1)]
    BY <2>1
  <2> QED BY <2>1, <2>2, <2>3
<1>9. a = b
  BY <1>4, <1>6, <1>7, <1>8, SeqEqual
<1> QED BY <1>2, <1>3, <1>9

\* So what an idle compaction keeps fits.
LEMMA TailFits ==
  ASSUME NEW n, NEW own, NEW c, Fits(c, n, own), c.mark <= Len(c.rows), Sure(c) \/ Toolless(c)
  PROVE  /\ Unconsolidated(c) \in Seq(Rows) /\ ToolsFollow(Unconsolidated(c))
         /\ Suffix(Unconsolidated(c)) \in Seq(Rows)
         /\ RowsFit(Suffix(Unconsolidated(c)), n, own)
         /\ Apart(Suffix(Unconsolidated(c)), c.ckpt)
<1>1. /\ c.rows \in Seq(Rows) /\ c.mark \in Nat /\ Len(c.rows) \in Nat /\ Keep \in Nat
      /\ RowsFit(c.rows, n, own) /\ Legal(c.rows) /\ Apart(c.rows, c.ckpt)
  BY ConstantsAssumption DEF Fits, Contents, RowsFit
<1>2. PICK t : t = Unconsolidated(c)
  OBVIOUS
<1>3. /\ t \in Seq(Rows) /\ Len(t) = Len(c.rows) - c.mark /\ ToolsFollow(t)
      /\ \A k \in 1 .. Len(c.rows) - c.mark : t[k] = c.rows[c.mark + k]
  BY <1>1, <1>2, EndFollows DEF Unconsolidated
<1>4. PICK m \in Nat \ {0} :
        m <= Len(c.rows) + 1 /\ (m <= Len(c.rows) => ~IsTool(c.rows[m])) /\ Suffix(t) = SubSeq(c.rows, m, Len(c.rows))
  <2>1. CASE Len(t) <= Keep
    <3>1. Suffix(t) = SubSeq(c.rows, c.mark + 1, Len(c.rows))
      BY <2>1, <1>2, <1>3, ShortIsWhole DEF Unconsolidated
    <3>2. c.mark + 1 \in Nat \ {0} /\ c.mark + 1 <= Len(c.rows) + 1
      BY <1>1
    <3>3. c.mark + 1 <= Len(c.rows) => ~IsTool(c.rows[c.mark + 1])
      <4>1. CASE Toolless(c)
        BY <4>1, <3>2 DEF Toolless
      <4>2. CASE Sure(c)
        BY <4>2, <2>1, <1>1, <1>3 DEF Sure
      <4> QED BY <4>1, <4>2
    <3> QED BY <3>1, <3>2, <3>3
  <2>2. CASE Len(t) > Keep
    <3>1. PICK f \in 1 .. Len(t) : Suffix(t) = SubSeq(t, f, Len(t)) /\ ~IsTool(t[f])
      BY <2>2, <1>3, SuffixFrom
    <3>2. f \in 1 .. Len(c.rows) - c.mark
      BY <3>1, <1>3
    <3>3. SubSeq(t, f, Len(t)) = SubSeq(c.rows, c.mark + f, Len(c.rows))
      BY <3>2, <1>1, <1>3, EndOfEnd
    <3>4. t[f] = c.rows[c.mark + f]
      BY <3>2, <1>3
    <3>5. c.mark + f \in Nat \ {0} /\ c.mark + f <= Len(c.rows) + 1
      BY <3>2, <1>1
    <3> QED BY <3>1, <3>3, <3>4, <3>5
  <2> QED BY <2>1, <2>2, <1>1, <1>3
<1>5. PICK q : q = SubSeq(c.rows, m, Len(c.rows))
  OBVIOUS
<1>6. q \in Seq(Rows) /\ RowsFit(q, n, own) /\ \A x : Apart(c.rows, x) => Apart(q, x)
  BY <1>1, <1>4, <1>5, EndFits
<1> QED BY <1>1, <1>2, <1>3, <1>4, <1>5, <1>6

\* What is not consolidated, wherever the offset is.
LEMMA UnconsolidatedFacts ==
  ASSUME NEW c \in Contents, Legal(c.rows)
  PROVE  /\ Unconsolidated(c) \in Seq(Rows)
         /\ ToolsFollow(Unconsolidated(c))
         /\ ~Whole(Unconsolidated(c)) => Len(c.rows) > c.mark + Keep
         /\ Whole(Unconsolidated([c EXCEPT !.mark = 0])) <=> Whole(c.rows)
<1>1. c.rows \in Seq(Rows) /\ c.mark \in Nat /\ Len(c.rows) \in Nat
  BY DEF Contents
<1>2. Keep \in Nat
  BY ConstantsAssumption
<1>3. Unconsolidated([c EXCEPT !.mark = 0]) = c.rows
  BY <1>1 DEF Unconsolidated, Contents
<1>4. CASE c.mark <= Len(c.rows)
  <2>1. /\ Unconsolidated(c) \in Seq(Rows) /\ Len(Unconsolidated(c)) = Len(c.rows) - c.mark
        /\ ToolsFollow(Unconsolidated(c))
    BY <1>1, <1>4, EndFollows DEF Unconsolidated
  <2>2. ~Whole(Unconsolidated(c)) => Len(c.rows) > c.mark + Keep
    BY <2>1, <1>1, <1>2, ShortIsWhole
  <2> QED BY <2>1, <2>2, <1>3
<1>5. CASE c.mark > Len(c.rows)
  <2>1. Unconsolidated(c) = <<>>
    BY <1>1, <1>5 DEF Unconsolidated
  <2>2. ToolsFollow(<<>>)
    BY DEF ToolsFollow
  <2>3. Whole(<<>>)
    <3>1. <<>> \in Seq(Rows) /\ Len(<<>>) <= Keep
      BY <1>2
    <3> QED BY <3>1, ShortIsWhole
  <2> QED BY <2>1, <2>2, <2>3, <1>3
<1> QED BY <1>1, <1>4, <1>5

-----------------------------------------------------------------------------
(* The consolidation lock.                                                  *)

JobNames == {"build", "after", "idle"}

Ahead(q, a, b) == \E i, j \in 1 .. Len(q) : i < j /\ q[i] = a /\ q[j] = b

\* Who waits last is ahead of nobody.
LEMMA LockAppend ==
  ASSUME NEW q \in Seq(JobNames), IsInjective(q), NEW x \in JobNames, x \notin ToSet(q)
  PROVE  /\ Append(q, x) \in Seq(JobNames) /\ IsInjective(Append(q, x))
         /\ ToSet(Append(q, x)) = ToSet(q) \cup {x}
         /\ Append(q, x) # <<>>
         /\ q # <<>> => Head(Append(q, x)) = Head(q)
         /\ q = <<>> => Head(Append(q, x)) = x
         /\ \A a, b : Ahead(Append(q, x), a, b) => Ahead(q, a, b) \/ (b = x /\ a \in ToSet(q))
         /\ \A a : a \in ToSet(q) => Ahead(Append(q, x), a, x)
<1>1. Append(q, x) \in Seq(JobNames) /\ IsInjective(Append(q, x)) /\ ToSet(Append(q, x)) = ToSet(q) \cup {x}
  BY AppendQueue
<1>2. PICK p : p = Append(q, x)
  OBVIOUS
<1>3. /\ Len(q) \in Nat /\ Len(p) = Len(q) + 1
      /\ \A i \in 1 .. Len(q) : p[i] = q[i]
      /\ p[Len(q) + 1] = x
  BY <1>2
<1>4. p # <<>> /\ (q # <<>> => Head(p) = Head(q)) /\ (q = <<>> => Head(p) = x)
  BY <1>2
<1>5. ASSUME NEW a, NEW b, Ahead(p, a, b) PROVE Ahead(q, a, b) \/ (b = x /\ a \in ToSet(q))
  <2>1. PICK i \in 1 .. Len(p), j \in 1 .. Len(p) : i < j /\ p[i] = a /\ p[j] = b
    BY <1>5 DEF Ahead
  <2>2. i \in 1 .. Len(q) /\ q[i] = a
    BY <2>1, <1>3
  <2>3. CASE j = Len(q) + 1
    BY <2>1, <2>2, <2>3, <1>3 DEF ToSet
  <2>4. CASE j \in 1 .. Len(q)
    BY <2>1, <2>2, <2>4, <1>3 DEF Ahead
  <2> QED BY <2>3, <2>4, <1>3
<1>6. ASSUME NEW a \in ToSet(q) PROVE Ahead(p, a, x)
  <2>1. PICK i \in 1 .. Len(q) : q[i] = a
    BY DEF ToSet
  <2>2. i \in 1 .. Len(p) /\ Len(q) + 1 \in 1 .. Len(p) /\ i < Len(q) + 1
    BY <1>3
  <2> QED BY <2>1, <2>2, <1>3 DEF Ahead
<1> QED BY <1>1, <1>2, <1>4, <1>5, <1>6

\* The holder is ahead of all others, and nobody ahead of it.
LEMMA LockHead ==
  ASSUME NEW q \in Seq(JobNames), IsInjective(q), q # <<>>
  PROVE  /\ Head(q) \in JobNames /\ Head(q) \in ToSet(q)
         /\ \A b \in ToSet(q) : b # Head(q) => Ahead(q, Head(q), b)
         /\ \A a : ~Ahead(q, a, Head(q))
<1>1. Len(q) \in Nat /\ 1 \in 1 .. Len(q) /\ Head(q) = q[1]
  OBVIOUS
<1>2. Head(q) \in JobNames /\ Head(q) \in ToSet(q)
  BY TailQueue
<1>3. ASSUME NEW b \in ToSet(q), b # Head(q) PROVE Ahead(q, Head(q), b)
  <2>1. PICK j \in 1 .. Len(q) : q[j] = b
    BY DEF ToSet
  <2>2. 1 < j
    BY <2>1, <1>1, <1>3
  <2> QED BY <2>1, <2>2, <1>1 DEF Ahead
<1>4. ASSUME NEW a, Ahead(q, a, Head(q)) PROVE FALSE
  <2>1. PICK i \in 1 .. Len(q), j \in 1 .. Len(q) : i < j /\ q[j] = q[1]
    BY <1>1, <1>4 DEF Ahead
  <2>2. j = 1
    BY <2>1, <1>1 DEF IsInjective
  <2> QED BY <2>1, <2>2, <1>1
<1> QED BY <1>2, <1>3, <1>4

\* The holder lets go.
LEMMA LockTail ==
  ASSUME NEW q \in Seq(JobNames), IsInjective(q), q # <<>>
  PROVE  /\ Tail(q) \in Seq(JobNames) /\ IsInjective(Tail(q))
         /\ ToSet(Tail(q)) = ToSet(q) \ {Head(q)}
         /\ \A a, b : Ahead(Tail(q), a, b) => Ahead(q, a, b)
         /\ \A a, b : Ahead(q, a, b) /\ a # Head(q) => Ahead(Tail(q), a, b)
<1>1. /\ Tail(q) \in Seq(JobNames) /\ IsInjective(Tail(q)) /\ ToSet(Tail(q)) = ToSet(q) \ {Head(q)}
  BY TailQueue
<1>2. PICK p : p = Tail(q)
  OBVIOUS
<1>3. /\ Len(q) \in Nat /\ Len(q) >= 1 /\ Len(p) = Len(q) - 1 /\ Head(q) = q[1]
      /\ \A i \in 1 .. Len(p) : p[i] = q[i + 1]
  BY <1>2
<1>4. ASSUME NEW a, NEW b, Ahead(p, a, b) PROVE Ahead(q, a, b)
  <2>1. PICK i \in 1 .. Len(p), j \in 1 .. Len(p) : i < j /\ p[i] = a /\ p[j] = b
    BY <1>4 DEF Ahead
  <2>2. i + 1 \in 1 .. Len(q) /\ j + 1 \in 1 .. Len(q) /\ i + 1 < j + 1 /\ q[i + 1] = a /\ q[j + 1] = b
    BY <2>1, <1>3
  <2> QED BY <2>2 DEF Ahead
<1>5. ASSUME NEW a, NEW b, Ahead(q, a, b), a # Head(q) PROVE Ahead(p, a, b)
  <2>1. PICK i \in 1 .. Len(q), j \in 1 .. Len(q) : i < j /\ q[i] = a /\ q[j] = b
    BY <1>5 DEF Ahead
  <2>2. i # 1
    BY <2>1, <1>3, <1>5
  <2>3. i - 1 \in 1 .. Len(p) /\ j - 1 \in 1 .. Len(p) /\ i - 1 < j - 1 /\ (i - 1) + 1 = i /\ (j - 1) + 1 = j
    BY <2>1, <2>2, <1>3
  <2>4. p[i - 1] = a /\ p[j - 1] = b
    BY <2>1, <2>3, <1>3
  <2> QED BY <2>3, <2>4 DEF Ahead
<1> QED BY <1>1, <1>2, <1>4, <1>5

\* One leaves, as the holder or as a waiter.
LEMMA LockWithout ==
  ASSUME NEW q \in Seq(JobNames), IsInjective(q), NEW x
  PROVE  /\ Without(q, x) \in Seq(JobNames) /\ IsInjective(Without(q, x))
         /\ ToSet(Without(q, x)) = ToSet(q) \ {x}
         /\ q # <<>> /\ Head(q) # x => Without(q, x) # <<>> /\ Head(Without(q, x)) = Head(q)
         /\ \A a, b : Ahead(Without(q, x), a, b) => Ahead(q, a, b)
<1>1. CASE x \notin ToSet(q)
  BY <1>1 DEF Without
<1>2. CASE x \in ToSet(q)
  <2>1. PICK n : n = CHOOSE m \in DOMAIN q : q[m] = x
    OBVIOUS
  <2>2. n \in DOMAIN q /\ q[n] = x
    <3>1. \E m \in DOMAIN q : q[m] = x
      BY <1>2 DEF ToSet
    <3> QED BY <2>1, <3>1
  <2>3. Without(q, x) = RemoveAt(q, n)
    BY <2>1, <1>2 DEF Without
  <2>4. PICK p : p = RemoveAt(q, n)
    OBVIOUS
  <2>5. p \in Seq(JobNames) /\ IsInjective(p) /\ ToSet(p) = ToSet(q) \ {x}
    BY <2>2, <2>4, RemoveQueue
  <2>6. q # <<>> /\ Head(q) # x => p # <<>> /\ Head(p) = Head(q)
    <3>1. SUFFICES ASSUME q # <<>>, Head(q) # x PROVE p # <<>> /\ Head(p) = Head(q)
      OBVIOUS
    <3>2. n \in DOMAIN q \ {1}
      BY <2>2, <3>1
    <3> QED BY <2>4, <3>1, <3>2, KeepsHead
  <2>7. PICK f : f = SubSeq(q, 1, n - 1)
    OBVIOUS
  <2>8. PICK g : g = SubSeq(q, n + 1, Len(q))
    OBVIOUS
  <2>9. Len(q) \in Nat /\ n \in 1 .. Len(q)
    BY <2>2
  <2>10. f \in Seq(JobNames) /\ Len(f) = n - 1 /\ \A k \in 1 .. n - 1 : f[k] = q[k]
    <3>1. /\ SubSeq(q, 1, n - 1) \in Seq(JobNames) /\ Len(SubSeq(q, 1, n - 1)) = (n - 1) - 1 + 1
          /\ \A k \in 1 .. (n - 1) - 1 + 1 : SubSeq(q, 1, n - 1)[k] = q[1 + k - 1]
      <4>1. n - 1 \in Nat /\ n - 1 <= Len(q) /\ 1 <= (n - 1) + 1 /\ 1 \in Nat \ {0}
        BY <2>9
      <4> QED BY <4>1, Slice
    <3> QED BY <3>1, <2>7, <2>9
  <2>11. g \in Seq(JobNames) /\ Len(g) = Len(q) - n /\ \A k \in 1 .. Len(q) - n : g[k] = q[n + k]
    <3>1. /\ SubSeq(q, n + 1, Len(q)) \in Seq(JobNames) /\ Len(SubSeq(q, n + 1, Len(q))) = Len(q) - (n + 1) + 1
          /\ \A k \in 1 .. Len(q) - (n + 1) + 1 : SubSeq(q, n + 1, Len(q))[k] = q[(n + 1) + k - 1]
      <4>1. n + 1 \in Nat \ {0} /\ n + 1 <= Len(q) + 1
        BY <2>9
      <4> QED BY <4>1, <2>9, Slice
    <3> QED BY <3>1, <2>8, <2>9
  <2>12. p = f \o g
    BY <2>4, <2>7, <2>8 DEF RemoveAt
  <2>13. /\ Len(p) = Len(f) + Len(g)
         /\ \A k \in 1 .. Len(p) : \/ k \in 1 .. Len(f) /\ p[k] = f[k]
                                   \/ k - Len(f) \in 1 .. Len(g) /\ p[k] = g[k - Len(f)]
    <3>1. f \in Seq(JobNames) /\ g \in Seq(JobNames)
      BY <2>10, <2>11
    <3> QED BY <3>1, <2>12, JoinedAs
  <2>14. ASSUME NEW i \in 1 .. Len(p)
         PROVE  \/ i < n /\ i \in 1 .. Len(q) /\ p[i] = q[i]
                \/ i >= n /\ i + 1 \in 1 .. Len(q) /\ p[i] = q[i + 1]
    <3>1. CASE i \in 1 .. Len(f) /\ p[i] = f[i]
      BY <3>1, <2>9, <2>10
    <3>2. CASE i - Len(f) \in 1 .. Len(g) /\ p[i] = g[i - Len(f)]
      <4>1. i - (n - 1) \in 1 .. Len(q) - n /\ n + (i - (n - 1)) = i + 1 /\ i >= n
        BY <3>2, <2>9, <2>10, <2>11
      <4>2. g[i - (n - 1)] = q[n + (i - (n - 1))]
        BY <4>1, <2>11
      <4> QED BY <4>1, <4>2, <3>2, <2>9, <2>10
    <3> QED BY <3>1, <3>2, <2>13
  <2>15. ASSUME NEW a, NEW b, Ahead(p, a, b) PROVE Ahead(q, a, b)
    <3>1. PICK i \in 1 .. Len(p), j \in 1 .. Len(p) : i < j /\ p[i] = a /\ p[j] = b
      BY <2>15 DEF Ahead
    <3>0. \A m \in 1 .. Len(p) : \E k \in 1 .. Len(q) : q[k] = p[m] /\ ((k = m /\ m < n) \/ (k = m + 1 /\ m >= n))
      <4>1. TAKE m \in 1 .. Len(p)
      <4>2. CASE m < n /\ m \in 1 .. Len(q) /\ p[m] = q[m]
        BY <4>2
      <4>3. CASE m >= n /\ m + 1 \in 1 .. Len(q) /\ p[m] = q[m + 1]
        BY <4>3
      <4> QED BY <2>14, <4>2, <4>3
    <3>2. PICK k \in 1 .. Len(q) : q[k] = a /\ ((k = i /\ i < n) \/ (k = i + 1 /\ i >= n))
      BY <3>0, <3>1
    <3>3. PICK l \in 1 .. Len(q) : q[l] = b /\ ((l = j /\ j < n) \/ (l = j + 1 /\ j >= n))
      BY <3>0, <3>1
    <3>4. k < l
      BY <3>1, <3>2, <3>3, <2>9
    <3> QED BY <3>2, <3>3, <3>4 DEF Ahead
  <2> QED BY <2>3, <2>4, <2>5, <2>6, <2>15
<1> QED BY <1>1, <1>2

\* There is room in memory for one more object.
LEMMA UnusedIsNew ==
  ASSUME {cache, sess, work.obj} \subseteq Objects \cup {NoObject}
  PROVE  Unused \in Objects /\ Unused \notin {cache, sess, work.obj} /\ NoObject \notin Objects
<1>1. \E o \in Objects : o \notin {cache, sess, work.obj}
  <2>1. \A a, b, c \in Objects \cup {NoObject} : Objects \ {a, b, c} # {}
    BY ConstantsAssumption
  <2>2. Objects \ {cache, sess, work.obj} # {}
    BY <2>1
  <2> QED BY <2>2
<1> QED BY <1>1, ConstantsAssumption DEF Unused

-----------------------------------------------------------------------------
(* The invariant: what holds in all reachable states, races included.       *)

Phases == {"idle", "building", "built", "model", "tools", "closing"}

Jobs == [obj : Objects \cup {NoObject}, chunk : Seq(Rows), mark : Nat, keep : Seq(Rows)]

\* All types but those of the history variables known and raced.
Types ==
  /\ heap \in [Objects -> Contents]
  /\ cache \in Objects \cup {NoObject} /\ sess \in Objects \cup {NoObject}
  /\ pc \in Phases /\ dispatched \in BOOLEAN
  /\ turns \in 0 .. MaxTurns /\ iter \in 0 .. MaxIter /\ produced \in Seq(Rows)
  /\ lockQ \in Seq(JobNames) /\ IsInjective(lockQ)
  /\ work \in Jobs
  /\ archived \subseteq Rows /\ snapshot \subseteq Rows /\ lost \subseteq Rows
  /\ newAt \in 0 .. turns
  /\ faults \in 0 .. MaxFaults /\ news \in 0 .. MaxNew /\ idles \in 0 .. MaxIdle

\* The rows of the turn in progress that are in the session.
Own == IF pc = "idle" THEN "any" ELSE IF pc \in {"building", "built"} THEN "none" ELSE "user"

\* What the file, every object and what a compaction will keep contain.
Stored ==
  /\ Fits(file, turns, Own)
  /\ \A o \in Objects : Fits(heap[o], turns, Own)
  /\ RowsFit(work.keep, turns, Own)
  /\ work.obj # NoObject => Apart(work.keep, heap[work.obj].ckpt)

\* What the turn in progress produced so far; the last call awaits its result.
Produced ==
  pc # "idle" =>
    /\ turns \in 1 .. MaxTurns
    /\ \A k \in 1 .. Len(produced) :
         /\ TurnOf(produced[k]) = turns
         /\ What(produced[k]) \in {"call", "result", "answer"}
         /\ What(produced[k]) = "answer" => pc = "closing"
         /\ IterOf(produced[k]) <= iter
         /\ What(produced[k]) = "result" /\ pc = "tools" => IterOf(produced[k]) < iter
    /\ IsInjective(produced) /\ ToolsPaired(produced)
    /\ pc \in {"building", "built"} => produced = <<>>
    /\ pc # "tools" => CallsPaired(produced)
    /\ pc = "tools" =>
         /\ iter \in 1 .. MaxIter
         /\ produced # <<>> /\ produced[Len(produced)] = Row(turns, "call", iter)
         /\ \A k \in 1 .. Len(produced) - 1 :
              What(produced[k]) = "call" => Pair(produced[k], produced[k + 1])
    /\ pc = "closing" => produced # <<>>

\* The queue of the lock, and what its holder does.
Lock ==
  /\ "build" \in ToSet(lockQ) <=> pc = "building"
  /\ ~Ahead(lockQ, "build", "after")
  /\ pc \notin {"idle", "building"} => "after" \notin ToSet(lockQ)
  /\ work.obj # NoObject => lockQ # <<>>
  /\ work.obj = NoObject <=> work = NoWork
  /\ pc = "idle" <=> sess = NoObject
  /\ work.obj = NoObject \/ Head(lockQ) # "idle" => work.keep = <<>>

\* The object in the cache is what the file says.
Same(c, d) == c.rows = d.rows /\ c.ckpt = d.ckpt /\ c.mark \in {d.mark, Loaded(d).mark}

Agree == cache # NoObject => Same(heap[cache], file)

\* What a compaction finds under the lock does not begin with a result alone.
IdleWaits == "idle" \in ToSet(lockQ) /\ (work.obj = NoObject \/ Head(lockQ) # "idle")

Consolidating == work.obj # NoObject /\ Head(lockQ) # "idle"

Compacting == work.obj # NoObject /\ Head(lockQ) = "idle"

SureInCache == IdleWaits => Sure(Content) \/ Toolless(Content)

SureInTurn == IdleWaits /\ pc # "idle" /\ ~Ahead(lockQ, "idle", "build") => Sure(heap[sess])

WholeInCache ==
  pc # "idle" /\ sess # cache /\ "idle" \notin ToSet(lockQ) =>
    cache # NoObject /\ Whole(Unconsolidated(heap[cache]))

AtBoundary(c, m) == c.mark <= m /\ m < Len(c.rows) /\ IsUser(c.rows[m + 1])

Bare(c) == c.rows = <<>> /\ NoCheckpoint(c)

RoundEnds ==
  Consolidating =>
    \/ work.obj = cache /\ AtBoundary(heap[cache], work.mark)
    \/ work.obj \notin {cache, sess} /\ Bare(heap[work.obj])

KeptWhole == Compacting => Whole(work.keep)

Handover == SureInCache /\ SureInTurn /\ WholeInCache /\ RoundEnds /\ KeptWhole

Base == Types /\ Stored /\ Produced /\ Lock /\ Agree /\ Handover

\* What get_or_create returns.
LEMMA ContentFacts ==
  ASSUME Types, Stored, Agree
  PROVE  /\ Obtained \in Objects
         /\ cache = NoObject => Obtained # sess /\ Obtained # work.obj /\ Content = Loaded(file)
         /\ cache # NoObject => Obtained = cache /\ Content = heap[cache]
         /\ Fits(Content, turns, Own)
         /\ Content \in Contents
         /\ Legal(Content.rows)
         /\ Same(Content, file)
<1>1. CASE cache = NoObject
  <2>1. work.obj \in Objects \cup {NoObject}
    BY DEF Types, Jobs
  <2>2. Unused \in Objects /\ Unused \notin {cache, sess, work.obj}
    BY <2>1, UnusedIsNew DEF Types
  <2>3. Fits(Loaded(file), turns, Own) /\ Same(Loaded(file), file)
    BY LoadedFits DEF Stored, Same
  <2> QED BY <1>1, <2>2, <2>3 DEF Obtained, Content, Fits, RowsFit
<1>2. CASE cache # NoObject
  <2>1. cache \in Objects
    BY <1>2 DEF Types
  <2> QED BY <1>2, <2>1 DEF Obtained, Content, Stored, Agree, Fits, RowsFit
<1> QED BY <1>1, <1>2

\* One object is written, and put into the cache or dropped from it.
LEMMA PutKeeps ==
  ASSUME Types, Stored, NEW o \in Objects, NEW c,
         heap' = [heap EXCEPT ![o] = c], cache' \in {o, NoObject},
         Fits(c, turns', Own'), Fits(file', turns', Own'), Same(c, file'),
         turns' \in Nat,
         turns < turns' \/ (turns = turns' /\ (Own' = "any" \/ Own' = Own \/ Own = "none"))
  PROVE  /\ heap' \in [Objects -> Contents] /\ cache' \in Objects \cup {NoObject}
         /\ \A p \in Objects : Fits(heap'[p], turns', Own')
         /\ heap'[o] = c /\ \A p \in Objects \ {o} : heap'[p] = heap[p]
         /\ Agree'
<1>1. turns \in Nat
  BY DEF Types
<1>2. c \in Contents
  BY DEF Fits
<1>3. heap' \in [Objects -> Contents] /\ heap'[o] = c /\ \A p \in Objects \ {o} : heap'[p] = heap[p]
  BY <1>2 DEF Types
<1>4. \A p \in Objects : Fits(heap[p], turns', Own')
  BY <1>1, FitsLater DEF Stored
<1>5. \A p \in Objects : Fits(heap'[p], turns', Own')
  BY <1>3, <1>4
<1>6. Agree'
  BY <1>3 DEF Agree
<1> QED BY <1>3, <1>5, <1>6

\* Who does not work, does nothing.
LEMMA NoWorkFacts ==
  /\ NoWork \in Jobs /\ NoWork.obj = NoObject /\ NoWork.keep = <<>>
  /\ \A n, own : RowsFit(NoWork.keep, n, own)
  /\ \A x : Apart(x, <<>>) /\ Apart(<<>>, x)
<1>1. NoWork \in Jobs /\ NoWork.obj = NoObject /\ NoWork.keep = <<>>
  BY DEF NoWork, Jobs
<1> QED BY <1>1, NoRowsFit DEF Apart

\* A cancelled turn leaves the lock.
LEMMA LeaveKeeps ==
  ASSUME Types, Lock, LeaveLock, pc' = "idle", sess' = NoObject
  PROVE  /\ Lock' /\ lockQ' \in Seq(JobNames) /\ IsInjective(lockQ') /\ work' \in Jobs
         /\ work' = work \/ work' = NoWork
         /\ ToSet(lockQ') \subseteq ToSet(lockQ)
         /\ IdleWaits' => IdleWaits
         /\ Consolidating' => Consolidating /\ work' = work
         /\ Compacting' => Compacting /\ work' = work
<1>1. lockQ \in Seq(JobNames) /\ IsInjective(lockQ) /\ work \in Jobs /\ lockQ' = Without(lockQ, "build")
  BY DEF Types, LeaveLock
<1>2. /\ lockQ' \in Seq(JobNames) /\ IsInjective(lockQ')
      /\ ToSet(lockQ') = ToSet(lockQ) \ {"build"}
      /\ lockQ # <<>> /\ Head(lockQ) # "build" => lockQ' # <<>> /\ Head(lockQ') = Head(lockQ)
      /\ \A a, b : Ahead(lockQ', a, b) => Ahead(lockQ, a, b)
  BY <1>1, LockWithout
<1>3. CASE lockQ # <<>> /\ Head(lockQ) = "build"
  <2>1. work' = NoWork /\ work'.obj = NoObject /\ work'.keep = <<>> /\ work' \in Jobs
    BY <1>3, NoWorkFacts DEF LeaveLock
  <2> QED BY <2>1, <1>2, <1>3 DEF Lock, IdleWaits, Consolidating, Compacting
<1>4. CASE lockQ = <<>>
  <2>1. work' = work /\ work.obj = NoObject
    BY <1>4 DEF LeaveLock, Lock
  <2> QED BY <2>1, <1>1, <1>2 DEF Lock, IdleWaits, Consolidating, Compacting
<1>5. CASE lockQ # <<>> /\ Head(lockQ) # "build"
  <2>1. work' = work /\ lockQ' # <<>> /\ Head(lockQ') = Head(lockQ)
    BY <1>2, <1>5 DEF LeaveLock
  <2> QED BY <2>1, <1>1, <1>2 DEF Lock, IdleWaits, Consolidating, Compacting
<1> QED BY <1>3, <1>4, <1>5

\* One more waits for the lock.
LEMMA AppendKeeps ==
  ASSUME Types, Lock, NEW x \in JobNames, x \notin ToSet(lockQ), lockQ' = Append(lockQ, x), work' = work
  PROVE  /\ lockQ' \in Seq(JobNames) /\ IsInjective(lockQ') /\ work' \in Jobs
         /\ ToSet(lockQ') = ToSet(lockQ) \cup {x}
         /\ lockQ' # <<>>
         /\ work.obj # NoObject => Head(lockQ') = Head(lockQ)
         /\ \A a, b : Ahead(lockQ', a, b) => Ahead(lockQ, a, b) \/ (b = x /\ a \in ToSet(lockQ))
         /\ \A a : a \in ToSet(lockQ) => Ahead(lockQ', a, x)
         /\ IdleWaits' /\ x # "idle" => IdleWaits
         /\ Consolidating' => Consolidating
         /\ Compacting' => Compacting
         /\ work'.obj = NoObject \/ Head(lockQ') # "idle" => work'.keep = <<>>
<1>1. lockQ \in Seq(JobNames) /\ IsInjective(lockQ) /\ work \in Jobs
  BY DEF Types
<1>2. /\ lockQ' \in Seq(JobNames) /\ IsInjective(lockQ')
      /\ ToSet(lockQ') = ToSet(lockQ) \cup {x}
      /\ lockQ' # <<>>
      /\ lockQ # <<>> => Head(lockQ') = Head(lockQ)
      /\ \A a, b : Ahead(lockQ', a, b) => Ahead(lockQ, a, b) \/ (b = x /\ a \in ToSet(lockQ))
      /\ \A a : a \in ToSet(lockQ) => Ahead(lockQ', a, x)
  BY <1>1, LockAppend
<1> QED BY <1>1, <1>2 DEF Lock, IdleWaits, Consolidating, Compacting

\* The holder releases the lock, and a turn that waited goes on.
LEMMA ReleaseKeeps ==
  ASSUME Types, Lock, lockQ # <<>>, Release
  PROVE  /\ Lock' /\ lockQ' \in Seq(JobNames) /\ IsInjective(lockQ') /\ work' = NoWork
         /\ ToSet(lockQ') = ToSet(lockQ) \ {Head(lockQ)}
         /\ \A a, b : Ahead(lockQ, a, b) /\ a # Head(lockQ) => Ahead(lockQ', a, b)
         /\ Head(lockQ) = "build" => pc = "building" /\ pc' = "built" /\ \A a : ~Ahead(lockQ, a, "build")
         /\ Head(lockQ) # "build" => pc' = pc
         /\ pc' \in Phases /\ sess' = sess
         /\ Own' = Own
<1>1. lockQ \in Seq(JobNames) /\ IsInjective(lockQ)
  BY DEF Types
<1>2. /\ Head(lockQ) \in ToSet(lockQ)
      /\ \A b \in ToSet(lockQ) : b # Head(lockQ) => Ahead(lockQ, Head(lockQ), b)
      /\ \A a : ~Ahead(lockQ, a, Head(lockQ))
  BY <1>1, LockHead
<1>3. /\ lockQ' \in Seq(JobNames) /\ IsInjective(lockQ') /\ ToSet(lockQ') = ToSet(lockQ) \ {Head(lockQ)}
      /\ \A a, b : Ahead(lockQ', a, b) => Ahead(lockQ, a, b)
      /\ \A a, b : Ahead(lockQ, a, b) /\ a # Head(lockQ) => Ahead(lockQ', a, b)
  BY <1>1, LockTail DEF Release
<1>4. work' = NoWork /\ work'.obj = NoObject /\ work'.keep = <<>> /\ sess' = sess
  BY NoWorkFacts DEF Release
<1>5. CASE Head(lockQ) = "build"
  <2>1. pc = "building" /\ pc' = "built"
    BY <1>2, <1>5 DEF Lock, Release
  <2>2. "after" \notin ToSet(lockQ)
    BY <1>2, <1>5 DEF Lock
  <2> QED BY <2>1, <2>2, <1>2, <1>3, <1>4, <1>5 DEF Lock, Phases, Own
<1>6. CASE Head(lockQ) # "build"
  <2>1. pc' = pc
    BY <1>6 DEF Release
  <2> QED BY <2>1, <1>2, <1>3, <1>4, <1>6 DEF Lock, Types, Own
<1> QED BY <1>5, <1>6

\* What the holder keeps is as legal as before, and apart from what was written.
LEMMA WorkStays ==
  ASSUME Types, Stored, NEW o \in Objects, NEW c,
         heap'[o] = c, \A p \in Objects \ {o} : heap'[p] = heap[p],
         work' = work \/ work' = NoWork, o = work.obj => Apart(work.keep, c.ckpt),
         turns' \in Nat,
         turns < turns' \/ (turns = turns' /\ (Own' = "any" \/ Own' = Own \/ Own = "none"))
  PROVE  /\ RowsFit(work'.keep, turns', Own')
         /\ work'.obj # NoObject => Apart(work'.keep, heap'[work'.obj].ckpt)
<1>1. CASE work' = work
  <2>1. turns \in Nat /\ work.keep \in Seq(Rows) /\ work.obj \in Objects \cup {NoObject}
    BY DEF Types, Jobs
  <2>2. RowsFit(work.keep, turns', Own')
    BY <2>1, RowsFitLater DEF Stored
  <2>3. work.obj # NoObject => Apart(work.keep, heap'[work.obj].ckpt)
    BY <2>1 DEF Stored
  <2> QED BY <1>1, <2>2, <2>3
<1>2. CASE work' = NoWork
  BY <1>2, NoWorkFacts
<1> QED BY <1>1, <1>2

\* A step that writes what the session grew to, and leaves no new waiter.
LEMMA ContentStep ==
  ASSUME Types, Stored, Agree, Handover, NEW d \in Contents,
         heap' = [heap EXCEPT ![Obtained] = d], cache' = Obtained,
         Grown(Content, d), Toolless(Content) => Toolless(d),
         sess' \in {NoObject, Obtained},
         IdleWaits' => IdleWaits,
         Consolidating' => Consolidating /\ work' = work,
         Compacting' => Compacting /\ work' = work
  PROVE  SureInCache' /\ RoundEnds' /\ KeptWhole'
<1>1. /\ Obtained \in Objects /\ Content \in Contents
      /\ cache = NoObject => Obtained # sess /\ Obtained # work.obj
      /\ cache # NoObject => Obtained = cache /\ Content = heap[cache]
  BY ContentFacts
<1>2. NoObject \notin Objects
  BY ConstantsAssumption
<1>3. heap'[Obtained] = d /\ \A p \in Objects \ {Obtained} : heap'[p] = heap[p]
  BY <1>1 DEF Types
<1>4. Content' = d
  BY <1>1, <1>2, <1>3 DEF Content
<1>5. SureInCache'
  <2>1. SUFFICES ASSUME IdleWaits' PROVE Sure(d) \/ Toolless(d)
    BY <1>4 DEF SureInCache
  <2>2. Sure(Content) \/ Toolless(Content)
    BY <2>1 DEF Handover, SureInCache
  <2> QED BY <2>2, <1>1, SureGrows
<1>6. RoundEnds'
  <2>1. SUFFICES ASSUME Consolidating'
                 PROVE  \/ work'.obj = cache' /\ AtBoundary(heap'[cache'], work'.mark)
                        \/ work'.obj \notin {cache', sess'} /\ Bare(heap'[work'.obj])
    BY DEF RoundEnds
  <2>2. Consolidating /\ work' = work /\ work.obj \in Objects
    BY <2>1 DEF Types, Jobs, Consolidating
  <2>3. CASE work.obj = cache /\ AtBoundary(heap[cache], work.mark)
    <3>1. Obtained = cache /\ Content = heap[cache]
      BY <2>2, <2>3, <1>1, <1>2
    <3>2. AtBoundary(Content, work.mark)
      BY <2>3, <3>1
    <3>3. AtBoundary(d, work.mark)
      <4>1. work.mark \in Nat
        BY DEF Types, Jobs
      <4>2. Content.rows \in Seq(Rows) /\ d.rows \in Seq(Rows)
        BY <1>1 DEF Contents
      <4>3. Len(Content.rows) \in Nat /\ Len(d.rows) \in Nat
        BY <4>2
      <4> QED BY <4>1, <4>3, <3>2 DEF AtBoundary, Grown
    <3> QED BY <3>1, <3>3, <2>2, <2>3, <1>3
  <2>4. CASE work.obj \notin {cache, sess} /\ Bare(heap[work.obj])
    <3>1. work.obj # Obtained /\ work.obj # NoObject
      BY <2>2, <2>4, <1>1, <1>2
    <3> QED BY <3>1, <2>2, <2>4, <1>3
  <2> QED BY <2>2, <2>3, <2>4 DEF Handover, RoundEnds
<1>7. KeptWhole'
  BY DEF Handover, KeptWhole
<1> QED BY <1>5, <1>6, <1>7

\* A session is the same as itself.
LEMMA SameSelf == \A c : Same(c, c)
BY DEF Same

\* SaveIfChanged writes either way; the file only if it must.
LEMMA SaveIfChangedIs ==
  ASSUME NEW c, SaveIfChanged(c)
  PROVE  /\ heap' = [heap EXCEPT ![Obtained] = c] /\ cache' = Obtained
         /\ file' = c \/ (file' = file /\ c = Content)
BY DEF SaveIfChanged, Save

\* The begin of a turn keeps the invariant: whatever was interrupted is restored.
LEMMA BeginKeeps ==
  ASSUME Base, Begin
  PROVE  Base'
<1> DEFINE d == Restored(Content)
<1>0. /\ Types /\ Stored /\ Produced /\ Lock /\ Agree /\ Handover
  BY DEF Base
<1>1. /\ turns \in Nat /\ turns \in 0 .. MaxTurns /\ MaxTurns \in Nat /\ turns' = turns + 1
      /\ turns' \in 1 .. MaxTurns /\ turns' \in Nat /\ turns < turns'
  BY <1>0, ConstantsAssumption DEF Types, Begin
<1>2. pc = "idle" /\ pc' = "building" /\ Own = "any" /\ Own' = "none" /\ sess = NoObject /\ sess' = Obtained
  BY <1>0 DEF Begin, Own, Lock
<1>3. /\ Obtained \in Objects /\ Content \in Contents /\ Fits(Content, turns, Own) /\ Same(Content, file)
  BY <1>0, ContentFacts
<1>4. /\ Fits(d, turns, "any") /\ NoCheckpoint(d) /\ Grown(Content, d) /\ (Toolless(Content) => Toolless(d))
  BY <1>1, <1>3, RestoredFits
<1>5. /\ heap' = [heap EXCEPT ![Obtained] = d] /\ cache' = Obtained
      /\ file' = d \/ (file' = file /\ d = Content)
  BY SaveIfChangedIs DEF Begin
<1> HIDE DEF d
<1>6. Fits(d, turns', Own') /\ Fits(file', turns', Own') /\ Same(d, file')
  <2>1. Fits(d, turns', Own') /\ Fits(file, turns', Own')
    BY <1>0, <1>1, <1>2, <1>4, FitsLater DEF Stored
  <2> QED BY <2>1, <1>3, <1>5, SameSelf
<1>7. /\ heap' \in [Objects -> Contents] /\ cache' \in Objects \cup {NoObject}
      /\ \A p \in Objects : Fits(heap'[p], turns', Own')
      /\ heap'[Obtained] = d /\ \A p \in Objects \ {Obtained} : heap'[p] = heap[p]
      /\ Agree'
  BY <1>0, <1>1, <1>3, <1>5, <1>6, PutKeeps
<1>8. work' = work /\ lockQ' = Append(lockQ, "build") /\ "build" \in JobNames /\ "build" \notin ToSet(lockQ)
  BY <1>0, <1>2 DEF Begin, Lock, JobNames
<1>9. /\ lockQ' \in Seq(JobNames) /\ IsInjective(lockQ') /\ work' \in Jobs
      /\ ToSet(lockQ') = ToSet(lockQ) \cup {"build"}
      /\ lockQ' # <<>>
      /\ \A a, b : Ahead(lockQ', a, b) => Ahead(lockQ, a, b) \/ (b = "build" /\ a \in ToSet(lockQ))
      /\ \A a : a \in ToSet(lockQ) => Ahead(lockQ', a, "build")
      /\ IdleWaits' => IdleWaits
      /\ Consolidating' => Consolidating
      /\ Compacting' => Compacting
      /\ work'.obj = NoObject \/ Head(lockQ') # "idle" => work'.keep = <<>>
  BY <1>0, <1>8, AppendKeeps
<1>10. Types'
  <2>1. dispatched' \in BOOLEAN /\ iter' \in 0 .. MaxIter /\ produced' \in Seq(Rows) /\ newAt' \in 0 .. turns'
    <3>1. iter' = 0 /\ MaxIter \in Nat
      BY ConstantsAssumption DEF Begin
    <3>2. newAt' \in 0 .. turns'
      BY <1>0, <1>1 DEF Begin, Types
    <3> QED BY <3>1, <3>2 DEF Begin
  <2>2. /\ archived' \subseteq Rows /\ snapshot' \subseteq Rows /\ lost' \subseteq Rows
        /\ faults' \in 0 .. MaxFaults /\ news' \in 0 .. MaxNew /\ idles' \in 0 .. MaxIdle
    BY <1>0 DEF Types, Begin, bounds
  <2>3. pc' \in Phases /\ sess' \in Objects \cup {NoObject} /\ turns' \in 0 .. MaxTurns
    BY <1>1, <1>2, <1>3 DEF Phases
  <2> QED BY <2>1, <2>2, <2>3, <1>7, <1>9 DEF Types
<1>11. Stored'
  <2>1. Obtained = work.obj => Apart(work.keep, d.ckpt)
    BY <1>4, NoWorkFacts DEF NoCheckpoint
  <2>2. /\ RowsFit(work'.keep, turns', Own')
        /\ work'.obj # NoObject => Apart(work'.keep, heap'[work'.obj].ckpt)
    BY <2>1, <1>0, <1>1, <1>3, <1>7, <1>8, WorkStays
  <2> QED BY <2>2, <1>6, <1>7 DEF Stored
<1>12. Produced'
  <2>1. produced' = <<>>
    BY DEF Begin
  <2> QED BY <2>1, <1>1, <1>2, LegalSmall DEF Produced, Legal
<1>13. Lock'
  <2>1. ~Ahead(lockQ', "build", "after")
    BY <1>0, <1>9 DEF Lock
  <2>2. sess' # NoObject
    BY <1>2, <1>3, ConstantsAssumption
  <2> QED BY <2>1, <2>2, <1>0, <1>2, <1>8, <1>9 DEF Lock
<1>14. Handover'
  <2>1. SureInCache' /\ RoundEnds' /\ KeptWhole'
    <3>1. d \in Contents
      BY <1>4 DEF Fits
    <3> QED BY <3>1, <1>0, <1>2, <1>4, <1>5, <1>8, <1>9, ContentStep
  <2>2. SureInTurn'
    BY <1>9 DEF SureInTurn, IdleWaits
  <2>3. WholeInCache'
    BY <1>2, <1>5 DEF WholeInCache
  <2> QED BY <2>1, <2>2, <2>3 DEF Handover
<1> QED BY <1>7, <1>10, <1>11, <1>12, <1>13, <1>14 DEF Base

\* The flag of a pending turn is in the file and not in the object.
LEMMA PendingSet ==
  ASSUME NEW n, NEW own, NEW c, Fits(c, n, own), NEW d, d = [c EXCEPT !.pending = TRUE]
  PROVE  /\ Fits(d, n, own) /\ Same(c, d) /\ d.rows = c.rows /\ d.ckpt = c.ckpt
         /\ d.mark = c.mark /\ d.pending = TRUE
<1>1. /\ d \in Contents /\ d.rows = c.rows /\ d.ckpt = c.ckpt /\ d.mark = c.mark /\ d.pending = TRUE
  BY DEF Fits, Contents
<1> QED BY <1>1 DEF Fits, Same

\* So does a command, whose two rows go behind what was restored.
LEMMA CommandKeeps ==
  ASSUME Base, Command
  PROVE  Base'
<1>0. /\ Types /\ Stored /\ Produced /\ Lock /\ Agree /\ Handover
  BY DEF Base
<1>1. /\ turns \in Nat /\ turns \in 0 .. MaxTurns /\ MaxTurns \in Nat /\ turns' = turns + 1
      /\ turns' \in 1 .. MaxTurns /\ turns' \in Nat /\ turns < turns' /\ turns' - 1 = turns
  <2>1. MaxTurns \in Nat /\ turns \in 0 .. MaxTurns
    BY <1>0, ConstantsAssumption DEF Types
  <2>2. turns' = turns + 1 /\ turns < MaxTurns
    BY DEF Command
  <2> QED BY <2>1, <2>2
<1>2. /\ pc = "idle" /\ pc' = "idle" /\ Own = "any" /\ Own' = "any" /\ sess = NoObject /\ sess' = NoObject
      /\ lockQ' = lockQ /\ work' = work
  BY <1>0 DEF Command, Own, Lock, jobVars
<1>3. /\ Obtained \in Objects /\ Content \in Contents /\ Fits(Content, turns, Own) /\ Same(Content, file)
  BY <1>0, ContentFacts
<1>4. PICK c : c = Restored(Content)
  OBVIOUS
<1>5. /\ Fits(c, turns, "any") /\ NoCheckpoint(c) /\ Grown(Content, c) /\ (Toolless(Content) => Toolless(c))
  BY <1>1, <1>3, <1>4, RestoredFits
<1>6. PICK d : d = [c EXCEPT !.rows = @ \o <<Row(turns', "command", 0), Row(turns', "reply", 0)>>]
  OBVIOUS
<1>7. file' = [d EXCEPT !.pending = TRUE] /\ heap' = [heap EXCEPT ![Obtained] = d] /\ cache' = Obtained
  BY <1>4, <1>6 DEF Command
<1>8. Fits(d, turns', "any") /\ NoCheckpoint(d) /\ Grown(c, d) /\ (Toolless(c) => Toolless(d))
  <2>1. PICK n \in 1 .. MaxTurns : n = turns'
    BY <1>1
  <2>2. Fits(c, n - 1, "any")
    BY <1>1, <1>5, <2>1
  <2>3. d = [c EXCEPT !.rows = @ \o <<Row(n, "command", 0), Row(n, "reply", 0)>>]
    BY <1>6, <2>1
  <2>4. Fits(d, n, "any") /\ NoCheckpoint(d) /\ Grown(c, d) /\ (Toolless(c) => Toolless(d))
    <3>1. NoCheckpoint(c)
      BY <1>5
    <3> QED BY <2>2, <2>3, <3>1, CommandFits, ZenonT(40)
  <2> QED BY <2>1, <2>4
<1>9. Fits(file', turns', "any") /\ Same(d, file')
  BY <1>7, <1>8, PendingSet
<1>10. /\ heap' \in [Objects -> Contents] /\ cache' \in Objects \cup {NoObject}
       /\ \A p \in Objects : Fits(heap'[p], turns', Own')
       /\ heap'[Obtained] = d /\ \A p \in Objects \ {Obtained} : heap'[p] = heap[p]
       /\ Agree'
  BY <1>0, <1>1, <1>2, <1>3, <1>7, <1>8, <1>9, PutKeeps
<1>11. Types'
  <2>1. dispatched' \in BOOLEAN /\ iter' \in 0 .. MaxIter /\ produced' \in Seq(Rows) /\ newAt' \in 0 .. turns'
    <3>1. iter' = 0 /\ MaxIter \in Nat
      BY ConstantsAssumption DEF Command
    <3>2. newAt' \in 0 .. turns'
      BY <1>0, <1>1 DEF Command, Types
    <3>3. dispatched' \in BOOLEAN
      BY <1>0 DEF Command, Types
    <3> QED BY <3>1, <3>2, <3>3 DEF Command
  <2>2. /\ archived' \subseteq Rows /\ snapshot' \subseteq Rows /\ lost' \subseteq Rows
        /\ faults' \in 0 .. MaxFaults /\ news' \in 0 .. MaxNew /\ idles' \in 0 .. MaxIdle
    BY <1>0 DEF Types, Command, bounds
  <2>3. pc' \in Phases /\ sess' \in Objects \cup {NoObject} /\ turns' \in 0 .. MaxTurns
    BY <1>1, <1>2 DEF Phases
  <2>4. lockQ' \in Seq(JobNames) /\ IsInjective(lockQ') /\ work' \in Jobs
    BY <1>0, <1>2 DEF Types
  <2> QED BY <2>1, <2>2, <2>3, <2>4, <1>10 DEF Types
<1>12. Stored'
  <2>1. Obtained = work.obj => Apart(work.keep, d.ckpt)
    BY <1>8, NoWorkFacts DEF NoCheckpoint
  <2>2. /\ RowsFit(work'.keep, turns', Own')
        /\ work'.obj # NoObject => Apart(work'.keep, heap'[work'.obj].ckpt)
    BY <2>1, <1>0, <1>1, <1>2, <1>3, <1>10, WorkStays
  <2> QED BY <2>2, <1>2, <1>9, <1>10 DEF Stored
<1>13. Produced' /\ Lock'
  BY <1>0, <1>2 DEF Produced, Lock
<1>14. Handover'
  <2>1. d \in Contents /\ Grown(Content, d)
    <3>1. c \in Contents /\ d \in Contents
      BY <1>5, <1>8 DEF Fits
    <3> QED BY <3>1, <1>3, <1>5, <1>8, GrownTwice
  <2>2. /\ IdleWaits' => IdleWaits
        /\ Consolidating' => Consolidating /\ work' = work
        /\ Compacting' => Compacting /\ work' = work
    BY <1>2 DEF IdleWaits, Consolidating, Compacting
  <2>3. SureInCache' /\ RoundEnds' /\ KeptWhole'
    BY <2>1, <2>2, <1>0, <1>2, <1>5, <1>7, <1>8, ContentStep
  <2> QED BY <2>3, <1>2 DEF Handover, SureInTurn, WholeInCache
<1> QED BY <1>10, <1>11, <1>12, <1>13, <1>14 DEF Base

\* Behind a turn that got past the lock no turn waits and no consolidation works.
LEMMA NoRound ==
  ASSUME Types, Lock, pc \notin {"idle", "building"}
  PROVE  /\ "build" \notin ToSet(lockQ) /\ "after" \notin ToSet(lockQ)
         /\ ~Ahead(lockQ, "idle", "build")
         /\ ~Consolidating
<1>1. "build" \notin ToSet(lockQ) /\ "after" \notin ToSet(lockQ)
  BY DEF Lock
<1>2. ~Ahead(lockQ, "idle", "build")
  BY <1>1 DEF Ahead, ToSet
<1>3. ~Consolidating
  <2>1. SUFFICES ASSUME work.obj # NoObject PROVE Head(lockQ) = "idle"
    BY DEF Consolidating
  <2>2. lockQ \in Seq(JobNames) /\ IsInjective(lockQ) /\ lockQ # <<>>
    BY <2>1 DEF Types, Lock
  <2>3. Head(lockQ) \in JobNames /\ Head(lockQ) \in ToSet(lockQ)
    BY <2>2, LockHead
  <2> QED BY <2>3, <1>1 DEF JobNames
<1> QED BY <1>1, <1>2, <1>3

\* What a turn in progress writes into its own object keeps the invariant.
LEMMA TurnStep ==
  ASSUME Base, pc \in {"built", "model", "tools"}, pc' \in {"model", "tools", "closing"},
         sess' = sess, turns' = turns, lockQ' = lockQ, work' = work,
         NEW c, file' = c, heap' = [heap EXCEPT ![sess] = c], cache' = sess,
         Fits(c, turns, "user"), Grown(heap[sess], c),
         \/ c.ckpt = heap[sess].ckpt
         \/ \A k \in 1 .. Len(c.ckpt) : TurnOf(c.ckpt[k]) = turns /\ ~IsUser(c.ckpt[k])
  PROVE  /\ heap' \in [Objects -> Contents] /\ cache' \in Objects \cup {NoObject}
         /\ Stored' /\ Agree' /\ Lock' /\ Handover'
<1>0. /\ Types /\ Stored /\ Produced /\ Lock /\ Agree /\ Handover
  BY DEF Base
<1>1. /\ turns \in 0 .. MaxTurns /\ turns \in Nat /\ turns' \in Nat
      /\ (Own = "user" \/ Own = "none") /\ Own' = "user"
  BY <1>0 DEF Types, Own
<1>2. sess \in Objects /\ sess # NoObject /\ heap[sess] \in Contents /\ c \in Contents
  BY <1>0, ConstantsAssumption DEF Types, Lock, Fits
<1>3. Same(c, file')
  BY SameSelf
<1>4. /\ heap' \in [Objects -> Contents] /\ cache' \in Objects \cup {NoObject}
      /\ \A p \in Objects : Fits(heap'[p], turns', Own')
      /\ heap'[sess] = c /\ \A p \in Objects \ {sess} : heap'[p] = heap[p]
      /\ Agree'
  BY <1>0, <1>1, <1>2, <1>3, PutKeeps
<1>5. Stored'
  <2>1. sess = work.obj => Apart(work.keep, c.ckpt)
    <3>1. CASE c.ckpt = heap[sess].ckpt
      BY <3>1, <1>0, <1>2 DEF Stored
    <3>2. CASE \A k \in 1 .. Len(c.ckpt) : TurnOf(c.ckpt[k]) = turns /\ ~IsUser(c.ckpt[k])
      <4>1. \A i \in 1 .. Len(work.keep) : TurnOf(work.keep[i]) = turns => IsUser(work.keep[i])
        BY <1>0, <1>1 DEF Stored, RowsFit, IsUser
      <4> QED BY <4>1, <3>2 DEF Apart
    <3> QED BY <3>1, <3>2
  <2>2. /\ RowsFit(work'.keep, turns', Own')
        /\ work'.obj # NoObject => Apart(work'.keep, heap'[work'.obj].ckpt)
    BY <2>1, <1>0, <1>1, <1>2, <1>4, WorkStays
  <2> QED BY <2>2, <1>1, <1>4 DEF Stored
<1>6. /\ "build" \notin ToSet(lockQ) /\ "after" \notin ToSet(lockQ) /\ pc # "idle"
      /\ ~Ahead(lockQ, "idle", "build") /\ ~Consolidating
  BY <1>0, NoRound
<1>7. Lock'
  BY <1>0, <1>2, <1>6 DEF Lock
<1>8. Handover'
  <2>1. IdleWaits' => Sure(c)
    <3>1. IdleWaits => Sure(heap[sess])
      BY <1>0, <1>6 DEF Handover, SureInTurn
    <3>2. IdleWaits' => IdleWaits
      BY DEF IdleWaits
    <3> QED BY <3>1, <3>2, <1>2, SureGrows
  <2>2. Content' = c
    BY <1>2, <1>4 DEF Content
  <2>3. SureInCache' /\ SureInTurn' /\ WholeInCache'
    BY <2>1, <2>2, <1>2, <1>4 DEF SureInCache, SureInTurn, WholeInCache
  <2>4. RoundEnds' /\ KeptWhole'
    BY <1>0, <1>6 DEF Handover, RoundEnds, KeptWhole, Consolidating, Compacting
  <2> QED BY <2>3, <2>4 DEF Handover
<1> QED BY <1>4, <1>5, <1>7, <1>8

\* The end of BUILD keeps the invariant.
LEMMA PersistKeeps ==
  ASSUME Base, Persist
  PROVE  Base'
<1>0. /\ Types /\ Stored /\ Produced /\ Lock /\ Agree /\ Handover
  BY DEF Base
<1>1. PICK c : c = [heap[sess] EXCEPT !.rows = Append(@, Row(turns, "user", 0)), !.pending = TRUE]
  OBVIOUS
<1>2. /\ pc = "built" /\ pc' = "model" /\ sess' = sess /\ turns' = turns /\ lockQ' = lockQ /\ work' = work
      /\ file' = c /\ heap' = [heap EXCEPT ![sess] = c] /\ cache' = sess
      /\ iter' = iter /\ produced' = produced
  BY <1>1 DEF Persist, Save, jobVars
<1>3. turns \in 1 .. MaxTurns /\ sess \in Objects /\ Own = "none"
  BY <1>0, <1>2 DEF Types, Lock, Own, Produced
<1>4. Fits(heap[sess], turns, "none")
  BY <1>0, <1>3 DEF Stored
<1>5. Fits(c, turns, "user") /\ Grown(heap[sess], c) /\ c.ckpt = heap[sess].ckpt
  BY <1>1, <1>3, <1>4, MessageFits
<1>6. /\ heap' \in [Objects -> Contents] /\ cache' \in Objects \cup {NoObject}
      /\ Stored' /\ Agree' /\ Lock' /\ Handover'
  BY <1>2, <1>5, TurnStep
<1>7. Types'
  BY <1>0, <1>2, <1>6 DEF Types, Persist, bounds, Phases
<1>8. Produced'
  <2>1. produced = <<>>
    BY <1>0, <1>2 DEF Produced
  <2> QED BY <2>1, <1>2, <1>3, LegalSmall DEF Produced, Legal
<1> QED BY <1>6, <1>7, <1>8 DEF Base

\* All calls but the last row have their results.
CallsBefore(r) == \A k \in 1 .. Len(r) - 1 : What(r[k]) = "call" => Pair(r[k], r[k + 1])

\* The rows a turn made so far, a row that may be the next, and the rows with it.
Making(r) == r \in Seq(Rows) /\ IsInjective(r) /\ ToolsPaired(r) /\ CallsBefore(r)

MayFollow(e, r) ==
  /\ e \in Rows
  /\ \A k \in 1 .. Len(r) : r[k] # e
  /\ IsTool(e) => r # <<>> /\ Pair(r[Len(r)], e)
  /\ r # <<>> /\ What(r[Len(r)]) = "call" => Pair(r[Len(r)], e)

Longer(q, r, e) ==
  /\ q # <<>> /\ q[Len(q)] = e
  /\ \A k \in 1 .. Len(q) : (k \in 1 .. Len(r) /\ q[k] = r[k]) \/ q[k] = e

\* One more row of the turn in progress.
LEMMA OneMore ==
  ASSUME NEW r, NEW e, Making(r), MayFollow(e, r), NEW q, q = Append(r, e)
  PROVE  /\ Making(q) /\ Longer(q, r, e)
         /\ What(e) # "call" => CallsPaired(q)
<1>0. /\ r \in Seq(Rows) /\ IsInjective(r) /\ ToolsPaired(r) /\ CallsBefore(r)
      /\ e \in Rows /\ \A k \in 1 .. Len(r) : r[k] # e
      /\ IsTool(e) => r # <<>> /\ Pair(r[Len(r)], e)
      /\ r # <<>> /\ What(r[Len(r)]) = "call" => Pair(r[Len(r)], e)
  BY DEF Making, MayFollow
<1>1. /\ Len(r) \in Nat /\ q \in Seq(Rows) /\ q # <<>> /\ Len(q) = Len(r) + 1 /\ q[Len(r) + 1] = e
      /\ \A k \in 1 .. Len(r) : q[k] = r[k]
      /\ r # <<>> <=> Len(r) > 0
  BY <1>0
<1>2. IsInjective(q)
  <2>1. \A a, b \in 1 .. Len(r) : r[a] = r[b] => a = b
    BY <1>0 DEF IsInjective
  <2> QED BY <2>1, <1>0, <1>1 DEF IsInjective
<1>3. ToolsPaired(q)
  <2>1. ASSUME NEW k \in 1 .. Len(q), IsTool(q[k]) PROVE k > 1 /\ Pair(q[k - 1], q[k])
    <3>1. CASE k \in 1 .. Len(r)
      <4>1. k > 1 /\ Pair(r[k - 1], r[k])
        BY <3>1, <2>1, <1>0, <1>1 DEF ToolsPaired
      <4>2. k - 1 \in 1 .. Len(r)
        BY <4>1, <3>1
      <4> QED BY <4>1, <4>2, <3>1, <1>1
    <3>2. CASE k = Len(r) + 1
      <4>1. r # <<>> /\ Pair(r[Len(r)], e)
        BY <3>2, <2>1, <1>0, <1>1
      <4>2. k - 1 = Len(r) /\ Len(r) \in 1 .. Len(r)
        BY <4>1, <3>2, <1>1
      <4> QED BY <4>1, <4>2, <3>2, <1>1
    <3> QED BY <3>1, <3>2, <1>1
  <2> QED BY <2>1 DEF ToolsPaired
<1>4. CallsBefore(q)
  <2>1. ASSUME NEW k \in 1 .. Len(q) - 1, What(q[k]) = "call" PROVE Pair(q[k], q[k + 1])
    <3>1. CASE k \in 1 .. Len(r) - 1
      <4>1. k \in 1 .. Len(r) /\ k + 1 \in 1 .. Len(r)
        BY <3>1, <1>1
      <4>2. Pair(r[k], r[k + 1])
        BY <3>1, <4>1, <2>1, <1>0, <1>1 DEF CallsBefore
      <4> QED BY <4>1, <4>2, <1>1
    <3>2. CASE k = Len(r)
      <4>1. k \in 1 .. Len(r) /\ r # <<>>
        BY <3>2, <2>1, <1>1
      <4>2. Pair(r[Len(r)], e)
        BY <4>1, <3>2, <2>1, <1>0, <1>1
      <4> QED BY <4>1, <4>2, <3>2, <1>1
    <3> QED BY <3>1, <3>2, <1>1
  <2> QED BY <2>1 DEF CallsBefore
<1>5. What(e) # "call" => CallsPaired(q)
  <2>1. SUFFICES ASSUME What(e) # "call", NEW k \in 1 .. Len(q), What(q[k]) = "call"
                 PROVE  k < Len(q) /\ Pair(q[k], q[k + 1])
    BY DEF CallsPaired
  <2>2. k \in 1 .. Len(q) - 1
    BY <2>1, <1>1
  <2> QED BY <2>1, <2>2, <1>1, <1>4 DEF CallsBefore
<1> QED BY <1>1, <1>2, <1>3, <1>4, <1>5 DEF Making, Longer

\* When all calls have their results, so have those before the last row, and the
\* last row is no call.
LEMMA PairedBefore ==
  ASSUME NEW r \in Seq(Rows), CallsPaired(r)
  PROVE  CallsBefore(r) /\ (r # <<>> => What(r[Len(r)]) # "call")
<1>1. Len(r) \in Nat /\ (r # <<>> => Len(r) \in 1 .. Len(r))
  OBVIOUS
<1>2. CallsBefore(r)
  BY <1>1 DEF CallsPaired, CallsBefore
<1>3. r # <<>> => What(r[Len(r)]) # "call"
  BY <1>1 DEF CallsPaired
<1> QED BY <1>2, <1>3

\* A checkpoint of the turn in progress keeps the invariant.
LEMMA CheckpointStep ==
  ASSUME Base, pc \in {"model", "tools"}, pc' \in {"model", "tools", "closing"},
         sess' = sess, turns' = turns, lockQ' = lockQ, work' = work,
         NEW x, OfTurn(x, turns), Checkpoint(x)
  PROVE  /\ heap' \in [Objects -> Contents] /\ cache' \in Objects \cup {NoObject}
         /\ Stored' /\ Agree' /\ Lock' /\ Handover'
<1>0. x \in Checkpoints(turns) /\ \A k \in 1 .. Len(x) : TurnOf(x[k]) = turns
  BY DEF OfTurn
<1>1. PICK c : c = [heap[sess] EXCEPT !.ckpt = x]
  OBVIOUS
<1>2. file' = c /\ heap' = [heap EXCEPT ![sess] = c] /\ cache' = sess
  BY <1>1 DEF Checkpoint, Save
<1>3. turns \in 1 .. MaxTurns /\ sess \in Objects /\ Own = "user"
  BY DEF Base, Types, Lock, Own, Produced
<1>4. Fits(heap[sess], turns, "user")
  BY <1>3 DEF Base, Stored
<1>5. Fits(c, turns, "user") /\ Grown(heap[sess], c)
  BY <1>0, <1>1, <1>3, <1>4, CheckpointFits
<1>6. \A k \in 1 .. Len(c.ckpt) : TurnOf(c.ckpt[k]) = turns /\ ~IsUser(c.ckpt[k])
  <2>1. c.ckpt = x
    <3>1. heap[sess] \in Contents
      BY <1>4 DEF Fits
    <3> QED BY <3>1, <1>1 DEF Contents
  <2>2. turns \in 0 .. MaxTurns
    BY DEF Base, Types
  <2>3. \A k \in 1 .. Len(x) : ~IsUser(x[k])
    BY <1>0, <2>2, CheckpointFacts
  <2> QED BY <1>0, <2>1, <2>3
<1> QED BY <1>2, <1>5, <1>6, TurnStep

\* A call of tools keeps the invariant.
LEMMA CallToolsKeeps ==
  ASSUME Base, CallTools
  PROVE  Base'
<1>0. /\ Types /\ Stored /\ Produced /\ Lock /\ Agree /\ Handover
  BY DEF Base
<1>1. PICK i : i = iter'
  OBVIOUS
<1>2. PICK e : e = Row(turns, "call", i)
  OBVIOUS
<1>3. /\ pc = "model" /\ pc' = "tools" /\ sess' = sess /\ turns' = turns /\ lockQ' = lockQ /\ work' = work
      /\ produced' = Append(produced, e) /\ Checkpoint(<<e, Row(turns, "cut", i)>>)
  BY <1>1, <1>2 DEF CallTools, jobVars
<1>4. i \in 1 .. MaxIter /\ i \in Nat /\ iter \in Nat /\ iter < i
  <2>1. MaxIter \in Nat /\ iter \in 0 .. MaxIter
    BY <1>0, ConstantsAssumption DEF Types
  <2>2. i = iter + 1 /\ iter < MaxIter
    BY <1>1 DEF CallTools
  <2> QED BY <2>1, <2>2
<1>5. turns \in 1 .. MaxTurns
  BY <1>0, <1>3 DEF Produced
<1>6. PICK x : x = <<e, Row(turns, "cut", i)>>
  OBVIOUS
<1>7. OfTurn(x, turns)
  BY <1>2, <1>4, <1>5, <1>6, CheckpointsOfTurn
<1>8. /\ heap' \in [Objects -> Contents] /\ cache' \in Objects \cup {NoObject}
      /\ Stored' /\ Agree' /\ Lock' /\ Handover'
  BY <1>3, <1>6, <1>7, CheckpointStep
<1>9. e \in Rows /\ TurnOf(e) = turns /\ What(e) = "call" /\ IterOf(e) = i /\ ~IsTool(e)
  BY <1>2, <1>4, <1>5, RowTyped, RowBuilt DEF IsTool
<1>10. /\ produced \in Seq(Rows) /\ IsInjective(produced) /\ ToolsPaired(produced) /\ CallsPaired(produced)
       /\ \A k \in 1 .. Len(produced) : /\ TurnOf(produced[k]) = turns
                                        /\ What(produced[k]) \in {"call", "result"}
                                        /\ IterOf(produced[k]) <= iter
  BY <1>0, <1>3 DEF Types, Produced
<1>11. CallsBefore(produced) /\ (produced # <<>> => What(produced[Len(produced)]) # "call")
  BY <1>10, PairedBefore
<1>12. \A k \in 1 .. Len(produced) : IterOf(produced[k]) < i /\ produced[k] # e
  <2>1. TAKE k \in 1 .. Len(produced)
  <2>2. IterOf(produced[k]) \in Nat
    BY <1>10, RowParts
  <2> QED BY <2>2, <1>4, <1>9, <1>10
<1>13. PICK q : q = Append(produced, e)
  OBVIOUS
<1>14. /\ q \in Seq(Rows) /\ q # <<>> /\ q[Len(q)] = e
       /\ \A k \in 1 .. Len(q) : (k \in 1 .. Len(produced) /\ q[k] = produced[k]) \/ q[k] = e
       /\ IsInjective(q) /\ ToolsPaired(q) /\ CallsBefore(q)
  <2>1. Making(produced) /\ MayFollow(e, produced)
    BY <1>9, <1>10, <1>11, <1>12 DEF Making, MayFollow
  <2>2. Making(q) /\ Longer(q, produced, e)
    BY <2>1, <1>13, OneMore
  <2> QED BY <2>2 DEF Making, Longer
<1>15. \A k \in 1 .. Len(q) :
         /\ TurnOf(q[k]) = turns /\ What(q[k]) \in {"call", "result", "answer"}
         /\ What(q[k]) # "answer" /\ IterOf(q[k]) <= i
         /\ What(q[k]) = "result" => IterOf(q[k]) < i
  <2>1. TAKE k \in 1 .. Len(q)
  <2>2. CASE k \in 1 .. Len(produced) /\ q[k] = produced[k]
    <3>1. IterOf(produced[k]) \in Nat /\ IterOf(produced[k]) < i
      BY <2>2, <1>10, <1>12, RowParts
    <3> QED BY <3>1, <2>2, <1>4, <1>10
  <2>3. CASE q[k] = e
    BY <2>3, <1>4, <1>9
  <2> QED BY <2>2, <2>3, <1>14
<1>16. Produced'
  BY <1>1, <1>2, <1>3, <1>4, <1>5, <1>13, <1>14, <1>15 DEF Produced, CallsBefore
<1>17. Types'
  <2>1. iter' \in 0 .. MaxIter /\ produced' \in Seq(Rows)
    BY <1>1, <1>3, <1>4, <1>13, <1>14
  <2> QED BY <2>1, <1>0, <1>3, <1>8 DEF Types, CallTools, bounds, Phases
<1> QED BY <1>8, <1>16, <1>17 DEF Base

\* Their results keep it.
LEMMA ToolsDoneKeeps ==
  ASSUME Base, ToolsDone
  PROVE  Base'
<1>0. /\ Types /\ Stored /\ Produced /\ Lock /\ Agree /\ Handover
  BY DEF Base
<1>1. PICK e : e = Row(turns, "result", iter)
  OBVIOUS
<1>2. /\ pc = "tools" /\ pc' = "model" /\ sess' = sess /\ turns' = turns /\ lockQ' = lockQ /\ work' = work
      /\ iter' = iter /\ produced' = Append(produced, e) /\ Checkpoint(<<Row(turns, "call", iter), e>>)
  BY <1>1 DEF ToolsDone, jobVars
<1>3. turns \in 1 .. MaxTurns /\ iter \in 1 .. MaxIter /\ iter \in Nat
  BY <1>0, <1>2 DEF Produced
<1>4. PICK x : x = <<Row(turns, "call", iter), e>>
  OBVIOUS
<1>5. OfTurn(x, turns)
  BY <1>1, <1>3, <1>4, CheckpointsOfTurn
<1>6. /\ heap' \in [Objects -> Contents] /\ cache' \in Objects \cup {NoObject}
      /\ Stored' /\ Agree' /\ Lock' /\ Handover'
  BY <1>2, <1>4, <1>5, CheckpointStep
<1>7. e \in Rows /\ TurnOf(e) = turns /\ What(e) = "result" /\ IterOf(e) = iter /\ IsTool(e)
  BY <1>1, <1>3, RowTyped, RowBuilt DEF IsTool
<1>8. /\ produced \in Seq(Rows) /\ IsInjective(produced) /\ ToolsPaired(produced) /\ CallsBefore(produced)
      /\ produced # <<>> /\ produced[Len(produced)] = Row(turns, "call", iter)
      /\ \A k \in 1 .. Len(produced) : /\ TurnOf(produced[k]) = turns
                                       /\ What(produced[k]) \in {"call", "result"}
                                       /\ IterOf(produced[k]) <= iter
                                       /\ What(produced[k]) = "result" => IterOf(produced[k]) < iter
  BY <1>0, <1>2 DEF Types, Produced, CallsBefore
<1>9. \A k \in 1 .. Len(produced) : produced[k] # e
  BY <1>3, <1>7, <1>8
<1>10. Pair(produced[Len(produced)], e)
  <2>1. /\ TurnOf(produced[Len(produced)]) = turns /\ What(produced[Len(produced)]) = "call"
        /\ IterOf(produced[Len(produced)]) = iter
    BY <1>8, RowBuilt
  <2> QED BY <2>1, <1>7 DEF Pair
<1>11. PICK q : q = Append(produced, e)
  OBVIOUS
<1>12. /\ q \in Seq(Rows) /\ IsInjective(q) /\ ToolsPaired(q) /\ CallsPaired(q)
       /\ \A k \in 1 .. Len(q) : (k \in 1 .. Len(produced) /\ q[k] = produced[k]) \/ q[k] = e
  <2>1. Making(produced) /\ MayFollow(e, produced) /\ What(e) # "call"
    BY <1>7, <1>8, <1>9, <1>10 DEF Making, MayFollow
  <2>2. Making(q) /\ Longer(q, produced, e) /\ CallsPaired(q)
    BY <2>1, <1>11, OneMore
  <2> QED BY <2>2 DEF Making, Longer
<1>13. \A k \in 1 .. Len(q) :
         /\ TurnOf(q[k]) = turns /\ What(q[k]) \in {"call", "result", "answer"}
         /\ What(q[k]) # "answer" /\ IterOf(q[k]) <= iter
  BY <1>3, <1>7, <1>8, <1>12
<1>14. Produced'
  BY <1>2, <1>3, <1>11, <1>12, <1>13 DEF Produced
<1>15. Types'
  <2>1. produced' \in Seq(Rows)
    BY <1>2, <1>11, <1>12
  <2> QED BY <2>1, <1>0, <1>2, <1>6 DEF Types, ToolsDone, bounds, Phases
<1> QED BY <1>6, <1>14, <1>15 DEF Base

\* The answer keeps it, with a checkpoint of its own or without one.
LEMMA AnswerKeeps ==
  ASSUME Base, Answer
  PROVE  Base'
<1>0. /\ Types /\ Stored /\ Produced /\ Lock /\ Agree /\ Handover
  BY DEF Base
<1>1. PICK e : e = Row(turns, "answer", 0)
  OBVIOUS
<1>2. /\ pc = "model" /\ pc' = "closing" /\ sess' = sess /\ turns' = turns /\ lockQ' = lockQ /\ work' = work
      /\ iter' = iter /\ produced' = Append(produced, e)
      /\ Checkpoint(<<e>>) \/ (file' = file /\ heap' = heap /\ cache' = cache)
  BY <1>1 DEF Answer, jobVars
<1>3. turns \in 1 .. MaxTurns /\ iter \in Nat
  BY <1>0, <1>2 DEF Types, Produced
<1>4. PICK x : x = <<e>>
  OBVIOUS
<1>5. OfTurn(x, turns)
  BY <1>1, <1>3, <1>4, CheckpointsOfTurn
<1>6. /\ heap' \in [Objects -> Contents] /\ cache' \in Objects \cup {NoObject}
      /\ Stored' /\ Agree' /\ Lock' /\ Handover'
  <2>1. CASE Checkpoint(x)
    BY <2>1, <1>2, <1>5, CheckpointStep
  <2>2. CASE file' = file /\ heap' = heap /\ cache' = cache
    <3>1. Own' = Own
      BY <1>2 DEF Own
    <3>2. Stored' /\ Agree' /\ Lock'
      BY <3>1, <2>2, <1>0, <1>2 DEF Stored, Agree, Lock
    <3>3. /\ Content' = Content /\ IdleWaits' = IdleWaits /\ Consolidating' = Consolidating
          /\ Compacting' = Compacting
      BY <2>2, <1>2 DEF Content, IdleWaits, Consolidating, Compacting
    <3>4. Handover'
      BY <3>3, <2>2, <1>0, <1>2 DEF Handover, SureInCache, SureInTurn, WholeInCache, RoundEnds, KeptWhole
    <3> QED BY <3>2, <3>4, <2>2, <1>0 DEF Types
  <2> QED BY <2>1, <2>2, <1>2, <1>4
<1>7. e \in Rows /\ TurnOf(e) = turns /\ What(e) = "answer" /\ IterOf(e) = 0 /\ ~IsTool(e)
  BY <1>1, <1>3, RowTyped, RowBuilt DEF IsTool
<1>8. /\ produced \in Seq(Rows) /\ IsInjective(produced) /\ ToolsPaired(produced) /\ CallsPaired(produced)
      /\ \A k \in 1 .. Len(produced) : /\ TurnOf(produced[k]) = turns
                                       /\ What(produced[k]) \in {"call", "result"}
                                       /\ IterOf(produced[k]) <= iter
  BY <1>0, <1>2 DEF Types, Produced
<1>9. CallsBefore(produced) /\ (produced # <<>> => What(produced[Len(produced)]) # "call")
  BY <1>8, PairedBefore
<1>10. \A k \in 1 .. Len(produced) : produced[k] # e
  BY <1>7, <1>8
<1>11. PICK q : q = Append(produced, e)
  OBVIOUS
<1>12. /\ q \in Seq(Rows) /\ q # <<>> /\ IsInjective(q) /\ ToolsPaired(q) /\ CallsPaired(q)
       /\ \A k \in 1 .. Len(q) : (k \in 1 .. Len(produced) /\ q[k] = produced[k]) \/ q[k] = e
  <2>1. Making(produced) /\ MayFollow(e, produced) /\ What(e) # "call"
    BY <1>7, <1>8, <1>9, <1>10 DEF Making, MayFollow
  <2>2. Making(q) /\ Longer(q, produced, e) /\ CallsPaired(q)
    BY <2>1, <1>11, OneMore
  <2> QED BY <2>2 DEF Making, Longer
<1>13. \A k \in 1 .. Len(q) :
         TurnOf(q[k]) = turns /\ What(q[k]) \in {"call", "result", "answer"} /\ IterOf(q[k]) <= iter
  BY <1>3, <1>7, <1>8, <1>12
<1>14. Produced'
  BY <1>2, <1>3, <1>11, <1>12, <1>13 DEF Produced
<1>15. Types'
  <2>1. produced' \in Seq(Rows)
    BY <1>2, <1>11, <1>12
  <2> QED BY <2>1, <1>0, <1>2, <1>6 DEF Types, Answer, bounds, Phases
<1> QED BY <1>6, <1>14, <1>15 DEF Base

\* A turn that is over keeps the invariant: its rows are behind its message.
LEMMA SaveTurnKeeps ==
  ASSUME Base, SaveTurn
  PROVE  Base'
<1>0. /\ Types /\ Stored /\ Produced /\ Lock /\ Agree /\ Handover
  BY DEF Base
<1>1. PICK c : c = [heap[sess] EXCEPT !.rows = @ \o produced, !.pending = FALSE, !.ckpt = <<>>]
  OBVIOUS
<1>2. /\ pc = "closing" /\ pc' = "idle" /\ sess' = NoObject /\ turns' = turns /\ work' = work
      /\ file' = c /\ heap' = [heap EXCEPT ![sess] = c] /\ cache' = sess
      /\ iter' = iter /\ produced' = produced /\ lockQ' = Append(lockQ, "after")
  BY <1>1 DEF SaveTurn, Save
<1>3. /\ turns \in 1 .. MaxTurns /\ turns' \in Nat /\ sess \in Objects /\ sess # NoObject
      /\ Own = "user" /\ Own' = "any"
  BY <1>0, <1>2, ConstantsAssumption DEF Types, Lock, Own, Produced
<1>4. Fits(heap[sess], turns, "user") /\ heap[sess] \in Contents
  BY <1>0, <1>3 DEF Stored, Fits
<1>5. Results(produced, turns)
  BY <1>0, <1>2 DEF Types, Produced, Results
<1>6. Fits(c, turns, "any") /\ Grown(heap[sess], c) /\ NoCheckpoint(c) /\ c \in Contents
  <2>1. Fits(c, turns, "any") /\ Grown(heap[sess], c) /\ NoCheckpoint(c)
    BY <1>1, <1>3, <1>4, <1>5, ResultsFit
  <2> QED BY <2>1 DEF Fits
<1>7. Same(c, file')
  BY <1>2, SameSelf
<1>8. /\ heap' \in [Objects -> Contents] /\ cache' \in Objects \cup {NoObject}
      /\ \A p \in Objects : Fits(heap'[p], turns', Own')
      /\ heap'[sess] = c /\ \A p \in Objects \ {sess} : heap'[p] = heap[p]
      /\ Agree'
  BY <1>0, <1>2, <1>3, <1>6, <1>7, PutKeeps
<1>9. /\ "build" \notin ToSet(lockQ) /\ "after" \notin ToSet(lockQ)
      /\ ~Ahead(lockQ, "idle", "build") /\ ~Consolidating
  BY <1>0, <1>2, NoRound
<1>10. /\ lockQ' \in Seq(JobNames) /\ IsInjective(lockQ') /\ work' \in Jobs
       /\ ToSet(lockQ') = ToSet(lockQ) \cup {"after"}
       /\ lockQ' # <<>>
       /\ \A a, b : Ahead(lockQ', a, b) => Ahead(lockQ, a, b) \/ (b = "after" /\ a \in ToSet(lockQ))
       /\ IdleWaits' => IdleWaits
       /\ ~Consolidating'
       /\ Compacting' => Compacting
       /\ work'.obj = NoObject \/ Head(lockQ') # "idle" => work'.keep = <<>>
  <2>1. "after" \in JobNames
    BY DEF JobNames
  <2> QED BY <2>1, <1>0, <1>2, <1>9, AppendKeeps
<1>11. Types'
  BY <1>0, <1>2, <1>8, <1>10 DEF Types, SaveTurn, bounds, Phases
<1>12. Stored'
  <2>1. sess = work.obj => Apart(work.keep, c.ckpt)
    BY <1>6, NoWorkFacts DEF NoCheckpoint
  <2>2. /\ RowsFit(work'.keep, turns', Own')
        /\ work'.obj # NoObject => Apart(work'.keep, heap'[work'.obj].ckpt)
    BY <2>1, <1>0, <1>2, <1>3, <1>8, WorkStays
  <2> QED BY <2>2, <1>2, <1>3, <1>6, <1>8 DEF Stored
<1>13. Produced'
  BY <1>2 DEF Produced
<1>14. Lock'
  BY <1>0, <1>2, <1>9, <1>10 DEF Lock
<1>15. Handover'
  <2>1. IdleWaits' => Sure(c)
    <3>1. IdleWaits => Sure(heap[sess])
      BY <1>0, <1>2, <1>9 DEF Handover, SureInTurn
    <3> QED BY <3>1, <1>4, <1>6, <1>10, SureGrows
  <2>2. Content' = c
    BY <1>2, <1>3, <1>8 DEF Content
  <2>3. SureInCache' /\ SureInTurn' /\ WholeInCache'
    BY <2>1, <2>2, <1>2 DEF SureInCache, SureInTurn, WholeInCache
  <2>4. RoundEnds' /\ KeptWhole'
    BY <1>0, <1>2, <1>10 DEF Handover, RoundEnds, KeptWhole
  <2> QED BY <2>3, <2>4 DEF Handover
<1> QED BY <1>8, <1>11, <1>12, <1>13, <1>14, <1>15 DEF Base

\* So does one that failed: everything stays as it is.
LEMMA FailKeeps ==
  ASSUME Base, Fail
  PROVE  Base'
<1>0. /\ Types /\ Stored /\ Produced /\ Lock /\ Agree /\ Handover
  BY DEF Base
<1>1. /\ LeaveLock /\ pc' = "idle" /\ sess' = NoObject /\ turns' = turns /\ iter' = iter /\ produced' = produced
      /\ file' = file /\ heap' = heap /\ cache' = cache /\ Own' = "any"
  BY DEF Fail, EndTurn, Own
<1>2. /\ Lock' /\ lockQ' \in Seq(JobNames) /\ IsInjective(lockQ') /\ work' \in Jobs
      /\ work' = work \/ work' = NoWork
      /\ IdleWaits' => IdleWaits
      /\ Consolidating' => Consolidating /\ work' = work
      /\ Compacting' => Compacting /\ work' = work
  BY <1>0, <1>1, LeaveKeeps
<1>3. Types'
  <2>1. faults' \in 0 .. MaxFaults
    <3>1. MaxFaults \in Nat /\ faults \in 0 .. MaxFaults
      BY <1>0, ConstantsAssumption DEF Types
    <3> QED BY <3>1 DEF Fail
  <2> QED BY <2>1, <1>0, <1>1, <1>2 DEF Types, Fail, EndTurn, Phases
<1>4. Stored'
  <2>1. turns \in Nat /\ work.keep \in Seq(Rows)
    BY <1>0 DEF Types, Jobs
  <2>2. Fits(file, turns, "any") /\ \A o \in Objects : Fits(heap[o], turns, "any")
    BY <2>1, <1>0, FitsLater DEF Stored
  <2>3. RowsFit(work.keep, turns, "any")
    BY <2>1, <1>0, RowsFitLater DEF Stored
  <2>4. CASE work' = work
    BY <2>2, <2>3, <2>4, <1>0, <1>1 DEF Stored
  <2>5. CASE work' = NoWork
    BY <2>2, <2>5, <1>1, NoWorkFacts DEF Stored
  <2> QED BY <2>4, <2>5, <1>2
<1>5. Produced' /\ Agree'
  BY <1>0, <1>1 DEF Produced, Agree
<1>6. Handover'
  <2>1. Content' = Content
    BY <1>1 DEF Content
  <2>2. SureInCache' /\ SureInTurn' /\ WholeInCache'
    BY <2>1, <1>0, <1>1, <1>2 DEF Handover, SureInCache, SureInTurn, WholeInCache
  <2>3. RoundEnds' /\ KeptWhole'
    BY <1>0, <1>1, <1>2 DEF Handover, RoundEnds, KeptWhole, Consolidating
  <2> QED BY <2>2, <2>3 DEF Handover
<1> QED BY <1>2, <1>3, <1>4, <1>5, <1>6 DEF Base

\* And one that /stop ends, whose checkpoint becomes rows.
LEMMA StopKeeps ==
  ASSUME Base, Stop
  PROVE  Base'
<1>0. /\ Types /\ Stored /\ Produced /\ Lock /\ Agree /\ Handover
  BY DEF Base
<1>1. /\ LeaveLock /\ pc' = "idle" /\ sess' = NoObject /\ turns' = turns /\ iter' = iter /\ produced' = produced
      /\ Own' = "any"
  BY DEF Stop, EndTurn, Own
<1>2. turns \in 0 .. MaxTurns /\ turns' \in Nat /\ turns \in Nat
  BY <1>0, <1>1 DEF Types
<1>3. /\ Obtained \in Objects /\ Content \in Contents /\ Fits(Content, turns, Own) /\ Same(Content, file)
  BY <1>0, ContentFacts
<1>4. PICK d : d = RestoreCheckpoint(Content)
  OBVIOUS
<1>5. /\ Fits(d, turns, "any") /\ NoCheckpoint(d) /\ Grown(Content, d)
      /\ NoCheckpoint(Content) => d = Content
  BY <1>2, <1>3, <1>4, RestoreFits
<1>6. /\ heap' = [heap EXCEPT ![Obtained] = d] /\ cache' = Obtained
      /\ file' = d \/ (file' = file /\ d = Content)
  BY <1>4, SaveIfChangedIs DEF Stop
<1>7. Fits(file', turns', Own') /\ Same(d, file')
  <2>1. Fits(file, turns', Own')
    BY <1>0, <1>1, <1>2, FitsLater DEF Stored
  <2> QED BY <2>1, <1>1, <1>3, <1>5, <1>6, SameSelf
<1>8. /\ heap' \in [Objects -> Contents] /\ cache' \in Objects \cup {NoObject}
      /\ \A p \in Objects : Fits(heap'[p], turns', Own')
      /\ heap'[Obtained] = d /\ \A p \in Objects \ {Obtained} : heap'[p] = heap[p]
      /\ Agree'
  BY <1>0, <1>1, <1>2, <1>3, <1>5, <1>6, <1>7, PutKeeps
<1>9. /\ Lock' /\ lockQ' \in Seq(JobNames) /\ IsInjective(lockQ') /\ work' \in Jobs
      /\ work' = work \/ work' = NoWork
      /\ IdleWaits' => IdleWaits
      /\ Consolidating' => Consolidating /\ work' = work
      /\ Compacting' => Compacting /\ work' = work
  BY <1>0, <1>1, LeaveKeeps
<1>10. Types'
  <2>1. faults' \in 0 .. MaxFaults
    <3>1. MaxFaults \in Nat /\ faults \in 0 .. MaxFaults
      BY <1>0, ConstantsAssumption DEF Types
    <3> QED BY <3>1 DEF Stop
  <2> QED BY <2>1, <1>0, <1>1, <1>8, <1>9 DEF Types, Stop, EndTurn, Phases
<1>11. Stored'
  <2>1. Obtained = work.obj => Apart(work.keep, d.ckpt)
    BY <1>5, NoWorkFacts DEF NoCheckpoint
  <2>2. /\ RowsFit(work'.keep, turns', Own')
        /\ work'.obj # NoObject => Apart(work'.keep, heap'[work'.obj].ckpt)
    BY <2>1, <1>0, <1>1, <1>2, <1>3, <1>8, <1>9, WorkStays
  <2> QED BY <2>2, <1>7, <1>8 DEF Stored
<1>12. Produced'
  BY <1>1 DEF Produced
<1>13. Handover'
  <2>1. SureInCache' /\ RoundEnds' /\ KeptWhole'
    <3>1. d \in Contents /\ (Toolless(Content) => Toolless(d))
      BY <1>5 DEF Fits, Toolless
    <3> QED BY <3>1, <1>0, <1>1, <1>5, <1>6, <1>9, ContentStep
  <2>2. SureInTurn' /\ WholeInCache'
    BY <1>1 DEF SureInTurn, WholeInCache
  <2> QED BY <2>1, <2>2 DEF Handover
<1> QED BY <1>8, <1>9, <1>10, <1>11, <1>12, <1>13 DEF Base

\* What is not consolidated is rows.
LEMMA UnconsolidatedRows ==
  ASSUME NEW c \in Contents, Legal(c.rows)
  PROVE  ToSet(SubSeq(c.rows, c.mark + 1, Len(c.rows))) \subseteq Rows
<1>1. Unconsolidated(c) \in Seq(Rows)
  BY UnconsolidatedFacts
<1>2. \A s \in Seq(Rows) : ToSet(s) \subseteq Rows
  BY DEF ToSet
<1> QED BY <1>1, <1>2 DEF Unconsolidated

\* /new clears the session, on whatever it contains.
LEMMA RenewStep ==
  ASSUME Base, NEW c, Fits(c, turns, "any"), NoCheckpoint(c), Renew(c),
         pc' = "idle", sess' = NoObject, turns' = turns,
         work' = work \/ work' = NoWork,
         IdleWaits' => IdleWaits,
         Consolidating' => Consolidating /\ work' = work,
         Compacting' => Compacting /\ work' = work
  PROVE  /\ heap' \in [Objects -> Contents] /\ cache' \in Objects \cup {NoObject}
         /\ snapshot' \subseteq Rows /\ newAt' \in 0 .. turns' /\ news' \in 0 .. MaxNew
         /\ archived' = archived /\ lost' = lost /\ idles' = idles
         /\ Stored' /\ Agree' /\ Produced' /\ Handover'
<1>0. /\ Types /\ Stored /\ Produced /\ Lock /\ Agree /\ Handover
  BY DEF Base
<1>1. PICK d : d = [c EXCEPT !.rows = <<>>, !.mark = 0]
  OBVIOUS
<1>2. file' = d /\ heap' = [heap EXCEPT ![Obtained] = d] /\ cache' = NoObject
  BY <1>1 DEF Renew
<1>3. turns \in Nat /\ turns' \in Nat /\ Own' = "any"
  BY <1>0 DEF Types, Own
<1>4. /\ Obtained \in Objects
      /\ cache = NoObject => Obtained # sess /\ Obtained # work.obj
      /\ cache # NoObject => Obtained = cache
  BY <1>0, ContentFacts
<1>5. Fits(d, turns, "any") /\ Bare(d) /\ d.mark = 0 /\ d.rows = <<>> /\ d \in Contents
  <2>1. PICK r : r = <<>>
    OBVIOUS
  <2>2. r \in Seq(Rows) /\ RowsFit(r, turns, "any") /\ Apart(r, c.ckpt)
    BY <2>1, NoRowsFit
  <2>3. d = [c EXCEPT !.rows = r, !.mark = 0]
    BY <1>1, <2>1
  <2>4. Fits(d, turns, "any") /\ d.rows = r /\ d.ckpt = c.ckpt /\ d.mark = 0
    <3>1. Fits(c, turns, "any") /\ c \in Contents
      BY DEF Fits
    <3>2. d \in Contents /\ d.rows = r /\ d.ckpt = c.ckpt /\ d.mark = 0
      BY <2>2, <2>3, <3>1 DEF Contents
    <3> QED BY <2>2, <3>1, <3>2 DEF Fits
  <2> QED BY <2>1, <2>4 DEF Bare, NoCheckpoint, Fits
<1>6. Same(d, file')
  BY <1>2, SameSelf
<1>7. /\ heap' \in [Objects -> Contents] /\ cache' \in Objects \cup {NoObject}
      /\ \A p \in Objects : Fits(heap'[p], turns', Own')
      /\ heap'[Obtained] = d /\ \A p \in Objects \ {Obtained} : heap'[p] = heap[p]
      /\ Agree'
  BY <1>0, <1>2, <1>3, <1>4, <1>5, <1>6, PutKeeps
<1>8. Stored'
  <2>1. Obtained = work.obj => Apart(work.keep, d.ckpt)
    BY <1>5, NoWorkFacts DEF Bare, NoCheckpoint
  <2>2. /\ RowsFit(work'.keep, turns', Own')
        /\ work'.obj # NoObject => Apart(work'.keep, heap'[work'.obj].ckpt)
    BY <2>1, <1>0, <1>3, <1>4, <1>7, WorkStays
  <2> QED BY <2>2, <1>2, <1>3, <1>5, <1>7 DEF Stored
<1>9. /\ newAt' \in 0 .. turns' /\ news' \in 0 .. MaxNew
      /\ archived' = archived /\ lost' = lost /\ idles' = idles
  <2>1. MaxNew \in Nat /\ news \in 0 .. MaxNew
    BY <1>0, ConstantsAssumption DEF Types
  <2> QED BY <2>1, <1>3 DEF Renew
<1>10. snapshot' \subseteq Rows
  <2>1. c \in Contents /\ Legal(c.rows)
    BY DEF Fits, RowsFit
  <2>2. ToSet(SubSeq(c.rows, c.mark + 1, Len(c.rows))) \subseteq Rows
    BY <2>1, UnconsolidatedRows
  <2> QED BY <2>2, <1>0 DEF Renew, Types
<1>11. Produced'
  BY DEF Produced
<1>12. Handover'
  <2>1. Content' = d
    <3>1. d.mark <= Len(d.rows)
      BY <1>5
    <3>2. Content' = Loaded(d)
      BY <1>2 DEF Content
    <3>3. Loaded(d) = d
      BY <3>1, <1>5 DEF Loaded
    <3> QED BY <3>2, <3>3
  <2>2. Sure(d)
    BY <1>5 DEF Sure
  <2>3. SureInCache' /\ SureInTurn' /\ WholeInCache'
    BY <2>1, <2>2 DEF SureInCache, SureInTurn, WholeInCache
  <2>4. RoundEnds'
    <3>1. SUFFICES ASSUME Consolidating'
                   PROVE  work'.obj \notin {cache', sess'} /\ Bare(heap'[work'.obj])
      BY DEF RoundEnds
    <3>2. Consolidating /\ work' = work /\ work.obj \in Objects
      BY <3>1, <1>0 DEF Types, Jobs, Consolidating
    <3>3. work.obj = cache \/ Bare(heap[work.obj])
      BY <3>2, <1>0 DEF Handover, RoundEnds
    <3>4. Bare(heap'[work.obj])
      <4>1. CASE work.obj = Obtained
        BY <4>1, <1>5, <1>7
      <4>2. CASE work.obj # Obtained
        <5>1. work.obj # cache
          BY <4>2, <3>2, <1>4, ConstantsAssumption
        <5> QED BY <4>2, <5>1, <3>2, <3>3, <1>7
      <4> QED BY <4>1, <4>2
    <3> QED BY <3>2, <3>4, <1>2, ConstantsAssumption
  <2>5. KeptWhole'
    BY <1>0 DEF Handover, KeptWhole
  <2> QED BY <2>3, <2>4, <2>5 DEF Handover
<1> QED BY <1>7, <1>8, <1>9, <1>10, <1>11, <1>12

\* As a turn of its own and instead of the one it stops.
LEMMA NewConversationKeeps ==
  ASSUME Base, NewConversation
  PROVE  Base'
<1>0. /\ Types /\ Stored /\ Produced /\ Lock /\ Agree /\ Handover
  BY DEF Base
<1>1. turns \in 0 .. MaxTurns
  BY <1>0 DEF Types
<1>2. Fits(Content, turns, Own)
  BY <1>0, ContentFacts
<1>3. CASE pc = "idle" /\ Renew(Restored(Content)) /\ UNCHANGED <<turnVars, jobVars, faults>>
  <2>1. PICK c : c = Restored(Content)
    OBVIOUS
  <2>2. Fits(c, turns, "any") /\ NoCheckpoint(c)
    BY <2>1, <1>1, <1>2, RestoredFits
  <2>3. /\ pc' = "idle" /\ sess' = NoObject /\ turns' = turns /\ lockQ' = lockQ /\ work' = work
        /\ dispatched' = dispatched /\ iter' = iter /\ produced' = produced /\ faults' = faults
    BY <1>0, <1>3 DEF turnVars, jobVars, Lock
  <2>4. /\ IdleWaits' => IdleWaits
        /\ Consolidating' => Consolidating /\ work' = work
        /\ Compacting' => Compacting /\ work' = work
    BY <2>3 DEF IdleWaits, Consolidating, Compacting
  <2>5. /\ heap' \in [Objects -> Contents] /\ cache' \in Objects \cup {NoObject}
        /\ snapshot' \subseteq Rows /\ newAt' \in 0 .. turns' /\ news' \in 0 .. MaxNew
        /\ archived' = archived /\ lost' = lost /\ idles' = idles
        /\ Stored' /\ Agree' /\ Produced' /\ Handover'
    BY <2>1, <2>2, <2>3, <2>4, <1>3, RenewStep
  <2>6. Types'
    BY <2>3, <2>5, <1>0 DEF Types, Phases
  <2>7. Lock'
    BY <2>3, <1>0, <1>3 DEF Lock
  <2> QED BY <2>5, <2>6, <2>7 DEF Base
<1>4. CASE Renew(RestoreCheckpoint(Content)) /\ EndTurn /\ LeaveLock /\ UNCHANGED faults
  <2>1. PICK c : c = RestoreCheckpoint(Content)
    OBVIOUS
  <2>2. Fits(c, turns, "any") /\ NoCheckpoint(c)
    BY <2>1, <1>1, <1>2, RestoreFits
  <2>3. /\ pc' = "idle" /\ sess' = NoObject /\ turns' = turns
        /\ dispatched' = dispatched /\ iter' = iter /\ produced' = produced /\ faults' = faults
    BY <1>4 DEF EndTurn
  <2>4. /\ Lock' /\ lockQ' \in Seq(JobNames) /\ IsInjective(lockQ') /\ work' \in Jobs
        /\ work' = work \/ work' = NoWork
        /\ IdleWaits' => IdleWaits
        /\ Consolidating' => Consolidating /\ work' = work
        /\ Compacting' => Compacting /\ work' = work
    BY <2>3, <1>0, <1>4, LeaveKeeps
  <2>5. /\ heap' \in [Objects -> Contents] /\ cache' \in Objects \cup {NoObject}
        /\ snapshot' \subseteq Rows /\ newAt' \in 0 .. turns' /\ news' \in 0 .. MaxNew
        /\ archived' = archived /\ lost' = lost /\ idles' = idles
        /\ Stored' /\ Agree' /\ Produced' /\ Handover'
    BY <2>1, <2>2, <2>3, <2>4, <1>4, RenewStep
  <2>6. Types'
    BY <2>3, <2>4, <2>5, <1>0 DEF Types, Phases
  <2> QED BY <2>4, <2>5, <2>6 DEF Base
<1> QED BY <1>3, <1>4 DEF NewConversation

\* A step that touches neither the session nor a turn nor the lock.
LEMMA SameKeeps ==
  ASSUME Base, UNCHANGED <<file, heap, cache, turnVars, jobVars, newAt, bounds>>,
         archived' \subseteq Rows, snapshot' \subseteq Rows, lost' \subseteq Rows
  PROVE  Base'
<1>0. /\ Types /\ Stored /\ Produced /\ Lock /\ Agree /\ Handover
  BY DEF Base
<1>1. /\ file' = file /\ heap' = heap /\ cache' = cache /\ newAt' = newAt
      /\ pc' = pc /\ sess' = sess /\ dispatched' = dispatched /\ turns' = turns /\ iter' = iter /\ produced' = produced
      /\ lockQ' = lockQ /\ work' = work /\ faults' = faults /\ news' = news /\ idles' = idles
  BY DEF turnVars, jobVars, bounds
<1>2. Types' /\ Produced' /\ Lock' /\ Agree'
  BY <1>0, <1>1 DEF Types, Produced, Lock, Agree
<1>3. Own' = Own /\ Content' = Content /\ IdleWaits' = IdleWaits /\ Consolidating' = Consolidating
      /\ Compacting' = Compacting
  BY <1>1 DEF Own, Content, IdleWaits, Consolidating, Compacting
<1>4. Stored'
  BY <1>0, <1>1, <1>3 DEF Stored
<1>5. Handover'
  BY <1>0, <1>1, <1>3 DEF Handover, SureInCache, SureInTurn, WholeInCache, RoundEnds, KeptWhole
<1> QED BY <1>2, <1>4, <1>5 DEF Base

\* The archive of what a /new left.
LEMMA ArchiveSnapshotKeeps ==
  ASSUME Base, ArchiveSnapshot
  PROVE  Base'
<1>1. archived' \subseteq Rows /\ snapshot' \subseteq Rows /\ lost' \subseteq Rows
  BY DEF Base, Types, ArchiveSnapshot
<1> QED BY <1>1, SameKeeps DEF ArchiveSnapshot

\* After a crash there is only the file.
LEMMA CrashKeeps ==
  ASSUME Base, Crash
  PROVE  Base'
<1>0. /\ Types /\ Stored /\ Produced /\ Lock /\ Agree /\ Handover
  BY DEF Base
<1>1. /\ heap' = [o \in Objects |-> Empty] /\ cache' = NoObject /\ pc' = "idle" /\ sess' = NoObject
      /\ lockQ' = <<>> /\ work' = NoWork /\ file' = file /\ turns' = turns /\ Own' = "any"
  BY DEF Crash, EndTurn, Own
<1>2. turns \in Nat
  BY <1>0 DEF Types
<1>3. Fits(Empty, turns, "any")
  <2>1. Empty \in Contents /\ Empty.rows = <<>> /\ Empty.ckpt = <<>>
    BY DEF Empty, Contents
  <2> QED BY <2>1, NoRowsFit DEF Fits, Checkpoints
<1>4. Types'
  <2>1. faults' \in 0 .. MaxFaults
    <3>1. MaxFaults \in Nat /\ faults \in 0 .. MaxFaults
      BY <1>0, ConstantsAssumption DEF Types
    <3> QED BY <3>1 DEF Crash
  <2>2. heap' \in [Objects -> Contents]
    BY <1>1, <1>3 DEF Fits
  <2>3. lockQ' \in Seq(JobNames) /\ IsInjective(lockQ')
    BY <1>1 DEF IsInjective
  <2> QED BY <2>1, <2>2, <2>3, <1>0, <1>1, NoWorkFacts DEF Types, Crash, EndTurn, Phases
<1>5. Stored'
  <2>1. Fits(file, turns, "any")
    BY <1>0, <1>2, FitsLater DEF Stored
  <2> QED BY <2>1, <1>1, <1>3, NoWorkFacts DEF Stored
<1>6. Produced' /\ Agree'
  BY <1>1 DEF Produced, Agree
<1>7. ToSet(lockQ') = {} /\ \A a, b : ~Ahead(lockQ', a, b)
  BY <1>1 DEF ToSet, Ahead
<1>8. Lock'
  BY <1>1, <1>7, NoWorkFacts DEF Lock
<1>9. Handover'
  <2>1. ~IdleWaits' /\ ~Consolidating' /\ ~Compacting'
    BY <1>1, <1>7, NoWorkFacts DEF IdleWaits, Consolidating, Compacting
  <2> QED BY <2>1, <1>1 DEF Handover, SureInCache, SureInTurn, WholeInCache, RoundEnds, KeptWhole
<1> QED BY <1>4, <1>5, <1>6, <1>8, <1>9 DEF Base

\* The tick that schedules a compaction: what it will find is long enough.
LEMMA IdleTickKeeps ==
  ASSUME Base, IdleTick
  PROVE  Base'
<1>0. /\ Types /\ Stored /\ Produced /\ Lock /\ Agree /\ Handover
  BY DEF Base
<1>1. /\ file' = file /\ heap' = [heap EXCEPT ![Obtained] = Content] /\ cache' = Obtained
      /\ pc' = pc /\ sess' = sess /\ dispatched' = dispatched /\ turns' = turns /\ iter' = iter /\ produced' = produced
      /\ work' = work /\ lockQ' = Append(lockQ, "idle") /\ "idle" \notin ToSet(lockQ)
      /\ Own' = Own
  BY DEF IdleTick, turnVars, Own
<1>2. turns \in Nat /\ turns' \in Nat /\ turns' = turns
  BY <1>0, <1>1 DEF Types
<1>3. /\ Obtained \in Objects /\ Content \in Contents /\ Fits(Content, turns, Own) /\ Same(Content, file)
      /\ Legal(Content.rows)
      /\ cache = NoObject => Obtained # sess /\ Obtained # work.obj
      /\ cache # NoObject => Obtained = cache /\ Content = heap[cache]
  BY <1>0, ContentFacts
<1>4. PICK d : d = Content
  OBVIOUS
<1>5. Fits(d, turns', Own') /\ Fits(file', turns', Own') /\ Same(d, file')
  BY <1>0, <1>1, <1>3, <1>4 DEF Stored
<1>6. /\ heap' \in [Objects -> Contents] /\ cache' \in Objects \cup {NoObject}
      /\ \A p \in Objects : Fits(heap'[p], turns', Own')
      /\ heap'[Obtained] = d /\ \A p \in Objects \ {Obtained} : heap'[p] = heap[p]
      /\ Agree'
  BY <1>0, <1>1, <1>2, <1>3, <1>4, <1>5, PutKeeps
<1>7. /\ lockQ' \in Seq(JobNames) /\ IsInjective(lockQ') /\ work' \in Jobs
      /\ ToSet(lockQ') = ToSet(lockQ) \cup {"idle"}
      /\ lockQ' # <<>>
      /\ \A a, b : Ahead(lockQ', a, b) => Ahead(lockQ, a, b) \/ (b = "idle" /\ a \in ToSet(lockQ))
      /\ Consolidating' => Consolidating
      /\ Compacting' => Compacting
      /\ work'.obj = NoObject \/ Head(lockQ') # "idle" => work'.keep = <<>>
  <2>1. "idle" \in JobNames
    BY DEF JobNames
  <2> QED BY <2>1, <1>0, <1>1, AppendKeeps
<1>8. Types'
  <2>1. idles' \in 0 .. MaxIdle
    <3>1. MaxIdle \in Nat /\ idles \in 0 .. MaxIdle
      BY <1>0, ConstantsAssumption DEF Types
    <3> QED BY <3>1 DEF IdleTick
  <2> QED BY <2>1, <1>0, <1>1, <1>6, <1>7 DEF Types, IdleTick
<1>9. Stored'
  <2>1. Obtained = work.obj => Apart(work.keep, d.ckpt)
    <3>1. SUFFICES ASSUME Obtained = work.obj PROVE Apart(work.keep, d.ckpt)
      OBVIOUS
    <3>2. work.obj # NoObject /\ d = heap[work.obj]
      BY <3>1, <1>3, <1>4, ConstantsAssumption
    <3> QED BY <3>2, <1>0 DEF Stored
  <2>2. /\ RowsFit(work'.keep, turns', Own')
        /\ work'.obj # NoObject => Apart(work'.keep, heap'[work'.obj].ckpt)
    BY <2>1, <1>0, <1>1, <1>2, <1>3, <1>6, WorkStays
  <2> QED BY <2>2, <1>5, <1>6 DEF Stored
<1>10. Produced'
  BY <1>0, <1>1 DEF Produced
<1>11. Lock'
  BY <1>0, <1>1, <1>7 DEF Lock
<1>12. Handover'
  <2>1. ~Whole(Unconsolidated(Content))
    BY DEF IdleTick, Whole
  <2>2. Sure(d)
    BY <2>1, <1>3, <1>4, UnconsolidatedFacts DEF Sure
  <2>3. Content' = d
    BY <1>1, <1>3, <1>6, ConstantsAssumption DEF Content
  <2>4. SureInCache'
    BY <2>2, <2>3 DEF SureInCache
  <2>5. SureInTurn'
    <3>1. SUFFICES ASSUME pc # "idle" PROVE Sure(heap'[sess])
      BY <1>1 DEF SureInTurn
    <3>2. sess = cache /\ cache # NoObject
      <4>1. CASE sess # cache
        <5>1. cache # NoObject /\ Whole(Unconsolidated(heap[cache]))
          BY <4>1, <3>1, <1>0, <1>1 DEF Handover, WholeInCache
        <5> QED BY <5>1, <2>1, <1>3
      <4>2. sess # NoObject
        BY <3>1, <1>0 DEF Lock
      <4> QED BY <4>1, <4>2
    <3> QED BY <3>2, <2>2, <1>3, <1>6
  <2>6. WholeInCache'
    BY <1>7 DEF WholeInCache
  <2>7. RoundEnds'
    <3>1. SUFFICES ASSUME Consolidating'
                   PROVE  \/ work'.obj = cache' /\ AtBoundary(heap'[cache'], work'.mark)
                          \/ work'.obj \notin {cache', sess'} /\ Bare(heap'[work'.obj])
      BY DEF RoundEnds
    <3>2. Consolidating /\ work.obj \in Objects
      BY <3>1, <1>0, <1>7 DEF Types, Jobs, Consolidating
    <3>3. CASE work.obj = cache /\ AtBoundary(heap[cache], work.mark)
      BY <3>2, <3>3, <1>1, <1>3, <1>4, <1>6, ConstantsAssumption
    <3>4. CASE work.obj \notin {cache, sess} /\ Bare(heap[work.obj])
      <4>1. work.obj # Obtained
        BY <3>4, <1>3
      <4> QED BY <4>1, <3>2, <3>4, <1>1, <1>6
    <3> QED BY <3>2, <3>3, <3>4, <1>0 DEF Handover, RoundEnds
  <2>8. KeptWhole'
    BY <1>0, <1>1, <1>7 DEF Handover, KeptWhole
  <2> QED BY <2>4, <2>5, <2>6, <2>7, <2>8 DEF Handover
<1> QED BY <1>6, <1>8, <1>9, <1>10, <1>11, <1>12 DEF Base

\* The holder of the lock lets go of it, or summarizes up to a boundary.
LEMMA RoundKeeps ==
  ASSUME Types, Produced, Lock, lockQ # <<>>, Head(lockQ) # "idle",
         NEW o \in Objects, NEW c \in Contents, NextRound(o, c)
  PROVE  /\ Produced' /\ Lock' /\ lockQ' \in Seq(JobNames) /\ IsInjective(lockQ')
         /\ work' \in Jobs /\ work'.keep = <<>>
         /\ Consolidating' => work'.obj = o /\ AtBoundary(c, work'.mark)
         /\ ~Compacting'
         /\ "idle" \in ToSet(lockQ') <=> "idle" \in ToSet(lockQ)
         /\ Ahead(lockQ, "idle", "build") => Ahead(lockQ', "idle", "build")
         /\ pc' \in Phases /\ (pc' = "idle" <=> pc = "idle") /\ sess' = sess /\ Own' = Own
         /\ dispatched' = dispatched /\ turns' = turns /\ iter' = iter /\ produced' = produced
<1>1. CASE Release
  <2>1. /\ Lock' /\ lockQ' \in Seq(JobNames) /\ IsInjective(lockQ') /\ work' = NoWork
        /\ ToSet(lockQ') = ToSet(lockQ) \ {Head(lockQ)}
        /\ \A a, b : Ahead(lockQ, a, b) /\ a # Head(lockQ) => Ahead(lockQ', a, b)
        /\ Head(lockQ) = "build" => pc = "building" /\ pc' = "built"
        /\ Head(lockQ) # "build" => pc' = pc
        /\ pc' \in Phases /\ sess' = sess
        /\ Own' = Own
    BY <1>1, ReleaseKeeps
  <2>2. dispatched' = dispatched /\ turns' = turns /\ iter' = iter /\ produced' = produced
    BY <1>1 DEF Release
  <2>3. ~Consolidating' /\ ~Compacting' /\ work' \in Jobs /\ work'.keep = <<>>
    BY <2>1, NoWorkFacts DEF Consolidating, Compacting
  <2>4. Produced'
    BY <2>1, <2>2 DEF Produced
  <2> QED BY <2>1, <2>2, <2>3, <2>4
<1>2. ASSUME NEW i \in Boundaries(c),
             work' = [obj |-> o, chunk |-> SubSeq(c.rows, c.mark + 1, i), mark |-> i, keep |-> <<>>],
             UNCHANGED <<lockQ, turnVars>>
      PROVE  /\ Produced' /\ Lock' /\ lockQ' \in Seq(JobNames) /\ IsInjective(lockQ')
             /\ work' \in Jobs /\ work'.keep = <<>>
             /\ Consolidating' => work'.obj = o /\ AtBoundary(c, work'.mark)
             /\ ~Compacting'
             /\ "idle" \in ToSet(lockQ') <=> "idle" \in ToSet(lockQ)
             /\ Ahead(lockQ, "idle", "build") => Ahead(lockQ', "idle", "build")
             /\ pc' \in Phases /\ (pc' = "idle" <=> pc = "idle") /\ sess' = sess /\ Own' = Own
             /\ dispatched' = dispatched /\ turns' = turns /\ iter' = iter /\ produced' = produced
  <2>1. c.rows \in Seq(Rows) /\ c.mark \in Nat /\ Len(c.rows) \in Nat
    BY DEF Contents
  <2>2. i \in c.mark + 1 .. Len(c.rows) - 1 /\ IsUser(c.rows[i + 1])
    BY <1>2 DEF Boundaries
  <2>3. i \in Nat /\ c.mark <= i /\ i < Len(c.rows)
    BY <2>1, <2>2
  <2>4. AtBoundary(c, i)
    BY <2>2, <2>3 DEF AtBoundary
  <2>5. PICK chunk : chunk = SubSeq(c.rows, c.mark + 1, i)
    OBVIOUS
  <2>6. chunk \in Seq(Rows)
    <3>1. c.mark + 1 \in Nat \ {0} /\ i <= Len(c.rows) /\ c.mark + 1 <= i + 1
      BY <2>1, <2>3
    <3> QED BY <3>1, <2>1, <2>3, <2>5, Slice
  <2>7. work' = [obj |-> o, chunk |-> chunk, mark |-> i, keep |-> <<>>]
    BY <1>2, <2>5
  <2>8. work' \in Jobs /\ work'.obj = o /\ work'.mark = i /\ work'.keep = <<>> /\ o # NoObject
    BY <2>3, <2>6, <2>7, ConstantsAssumption DEF Jobs
  <2>9. /\ lockQ' = lockQ /\ pc' = pc /\ sess' = sess /\ dispatched' = dispatched
        /\ turns' = turns /\ iter' = iter /\ produced' = produced
    BY <1>2 DEF turnVars
  <2>10. work' # NoWork
    BY <2>8, NoWorkFacts
  <2>11. Lock' /\ Produced'
    BY <2>8, <2>9, <2>10 DEF Lock, Produced
  <2> QED BY <2>4, <2>8, <2>9, <2>11 DEF Types, Own, Consolidating, Compacting
<1> QED BY <1>1, <1>2 DEF NextRound

\* A consolidation that gets the lock finds the session as the file has it.
LEMMA ConsolidateKeeps ==
  ASSUME Base, Consolidate
  PROVE  Base'
<1>0. /\ Types /\ Stored /\ Produced /\ Lock /\ Agree /\ Handover
  BY DEF Base
<1>1. /\ lockQ # <<>> /\ Head(lockQ) # "idle" /\ work.obj = NoObject
      /\ file' = file /\ heap' = [heap EXCEPT ![Obtained] = Content] /\ cache' = Obtained
      /\ NextRound(Obtained, Content)
  BY NoWorkFacts DEF Consolidate
<1>2. turns \in Nat
  BY <1>0 DEF Types
<1>3. /\ Obtained \in Objects /\ Content \in Contents /\ Fits(Content, turns, Own) /\ Same(Content, file)
      /\ cache = NoObject => Obtained # sess /\ Obtained # work.obj
      /\ cache # NoObject => Obtained = cache /\ Content = heap[cache]
  BY <1>0, ContentFacts
<1>4. PICK d : d = Content
  OBVIOUS
<1>5. /\ Produced' /\ Lock' /\ lockQ' \in Seq(JobNames) /\ IsInjective(lockQ')
      /\ work' \in Jobs /\ work'.keep = <<>>
      /\ Consolidating' => work'.obj = Obtained /\ AtBoundary(d, work'.mark)
      /\ ~Compacting'
      /\ "idle" \in ToSet(lockQ') <=> "idle" \in ToSet(lockQ)
      /\ Ahead(lockQ, "idle", "build") => Ahead(lockQ', "idle", "build")
      /\ pc' \in Phases /\ (pc' = "idle" <=> pc = "idle") /\ sess' = sess /\ Own' = Own
      /\ dispatched' = dispatched /\ turns' = turns /\ iter' = iter /\ produced' = produced
  BY <1>0, <1>1, <1>3, <1>4, RoundKeeps
<1>6. Fits(d, turns', Own') /\ Fits(file', turns', Own') /\ Same(d, file')
  BY <1>0, <1>1, <1>3, <1>4, <1>5 DEF Stored
<1>7. /\ heap' \in [Objects -> Contents] /\ cache' \in Objects \cup {NoObject}
      /\ \A p \in Objects : Fits(heap'[p], turns', Own')
      /\ heap'[Obtained] = d /\ \A p \in Objects \ {Obtained} : heap'[p] = heap[p]
      /\ Agree'
  BY <1>0, <1>1, <1>2, <1>3, <1>4, <1>5, <1>6, PutKeeps
<1>8. Types'
  BY <1>0, <1>5, <1>7 DEF Types, Consolidate, bounds
<1>9. Stored'
  <2>1. RowsFit(work'.keep, turns', Own') /\ \A x : Apart(work'.keep, x)
    BY <1>5, NoRowsFit
  <2> QED BY <2>1, <1>6, <1>7 DEF Stored
<1>10. Handover'
  <2>1. Content' = d
    BY <1>1, <1>3, <1>7, ConstantsAssumption DEF Content
  <2>2. IdleWaits' => IdleWaits
    BY <1>1, <1>5 DEF IdleWaits
  <2>3. SureInCache'
    BY <2>1, <2>2, <1>0, <1>4 DEF Handover, SureInCache
  <2>4. SureInTurn'
    <3>1. SUFFICES ASSUME IdleWaits', pc # "idle", ~Ahead(lockQ', "idle", "build") PROVE Sure(heap'[sess])
      BY <1>5 DEF SureInTurn
    <3>2. Sure(heap[sess])
      BY <3>1, <2>2, <1>0, <1>5 DEF Handover, SureInTurn
    <3>3. sess \in Objects
      BY <3>1, <1>0 DEF Types, Lock
    <3>4. heap'[sess] = heap[sess]
      BY <3>3, <1>3, <1>4, <1>7
    <3> QED BY <3>2, <3>4
  <2>5. WholeInCache'
    <3>1. SUFFICES ASSUME pc # "idle", sess # Obtained, "idle" \notin ToSet(lockQ)
                   PROVE  Whole(Unconsolidated(heap'[Obtained]))
      BY <1>1, <1>3, <1>5, ConstantsAssumption DEF WholeInCache
    <3>2. CASE sess # cache
      <4>1. cache # NoObject /\ Whole(Unconsolidated(heap[cache]))
        BY <3>1, <3>2, <1>0 DEF Handover, WholeInCache
      <4> QED BY <4>1, <1>3, <1>4, <1>7
    <3>3. CASE sess = cache
      <4>1. sess # NoObject
        BY <3>1, <1>0 DEF Lock
      <4> QED BY <4>1, <3>1, <3>3, <1>3
    <3> QED BY <3>2, <3>3
  <2>6. RoundEnds'
    BY <1>1, <1>5, <1>7 DEF RoundEnds
  <2>7. KeptWhole'
    BY <1>5 DEF KeptWhole
  <2> QED BY <2>3, <2>4, <2>5, <2>6, <2>7 DEF Handover
<1> QED BY <1>5, <1>7, <1>8, <1>9, <1>10 DEF Base

\* The offset moves to a message of the user, behind which no result stands alone.
LEMMA EndRoundKeeps ==
  ASSUME Base, EndRound
  PROVE  Base'
<1>0. /\ Types /\ Stored /\ Produced /\ Lock /\ Agree /\ Handover
  BY DEF Base
<1>1. PICK o : o = work.obj
  OBVIOUS
<1>2. PICK d : d = [heap[o] EXCEPT !.mark = work.mark]
  OBVIOUS
<1>3. /\ work # NoWork /\ Head(lockQ) # "idle"
      /\ file' = d /\ heap' = [heap EXCEPT ![o] = d] /\ cache' = o
      /\ NextRound(o, d)
  BY <1>1, <1>2 DEF EndRound, Save
<1>4. o \in Objects /\ o # NoObject /\ lockQ # <<>> /\ turns \in Nat /\ work.mark \in Nat
  BY <1>0, <1>1, <1>3 DEF Types, Jobs, Lock
<1>5. Consolidating
  BY <1>1, <1>3, <1>4 DEF Consolidating
<1>6. /\ Fits(d, turns, Own) /\ d.rows = heap[o].rows /\ d.ckpt = heap[o].ckpt /\ d.mark = work.mark
      /\ d \in Contents /\ Legal(d.rows)
  <2>1. Fits(heap[o], turns, Own)
    BY <1>0, <1>4 DEF Stored
  <2>2. Fits(d, turns, Own) /\ d.rows = heap[o].rows /\ d.ckpt = heap[o].ckpt /\ d.mark = work.mark
    BY <2>1, <1>2, <1>4, MarkFits
  <2> QED BY <2>2 DEF Fits, RowsFit
<1>7. /\ Produced' /\ Lock' /\ lockQ' \in Seq(JobNames) /\ IsInjective(lockQ')
      /\ work' \in Jobs /\ work'.keep = <<>>
      /\ Consolidating' => work'.obj = o /\ AtBoundary(d, work'.mark)
      /\ ~Compacting'
      /\ "idle" \in ToSet(lockQ') <=> "idle" \in ToSet(lockQ)
      /\ Ahead(lockQ, "idle", "build") => Ahead(lockQ', "idle", "build")
      /\ pc' \in Phases /\ (pc' = "idle" <=> pc = "idle") /\ sess' = sess /\ Own' = Own
      /\ dispatched' = dispatched /\ turns' = turns /\ iter' = iter /\ produced' = produced
  BY <1>0, <1>3, <1>4, <1>6, RoundKeeps
<1>8. Same(d, file')
  BY <1>3, SameSelf
<1>9. /\ heap' \in [Objects -> Contents] /\ cache' \in Objects \cup {NoObject}
      /\ \A p \in Objects : Fits(heap'[p], turns', Own')
      /\ heap'[o] = d /\ \A p \in Objects \ {o} : heap'[p] = heap[p]
      /\ Agree'
  BY <1>0, <1>3, <1>4, <1>6, <1>7, <1>8, PutKeeps
<1>10. Types'
  <2>1. archived' \subseteq Rows
    <3>1. work.chunk \in Seq(Rows)
      BY <1>0 DEF Types, Jobs
    <3>2. ToSet(work.chunk) \subseteq Rows
      BY <3>1 DEF ToSet
    <3> QED BY <3>2, <1>0 DEF EndRound, Types
  <2> QED BY <2>1, <1>0, <1>7, <1>9 DEF Types, EndRound, bounds
<1>11. Stored'
  <2>1. RowsFit(work'.keep, turns', Own') /\ \A x : Apart(work'.keep, x)
    BY <1>7, NoRowsFit
  <2> QED BY <2>1, <1>3, <1>6, <1>7, <1>9 DEF Stored
<1>12. \/ o = cache /\ AtBoundary(heap[o], work.mark)
       \/ o \notin {cache, sess} /\ Bare(heap[o])
  BY <1>0, <1>1, <1>5 DEF Handover, RoundEnds
<1>13. /\ d.rows \in Seq(Rows) /\ Len(d.rows) \in Nat
       /\ heap[o].rows \in Seq(Rows) /\ heap[o].mark \in Nat
  BY <1>4, <1>6, <1>0 DEF Contents, Types
<1>14. o = cache /\ AtBoundary(heap[o], work.mark) => Sure(d)
  BY <1>6, <1>13 DEF AtBoundary, Sure, IsUser, IsTool
<1>15. Bare(heap[o]) => Toolless(d)
  BY <1>6 DEF Bare, Toolless, NoCheckpoint
<1>16. Handover'
  <2>1. Content' = d
    BY <1>3, <1>4, <1>9 DEF Content
  <2>2. IdleWaits' => IdleWaits
    BY <1>3, <1>7 DEF IdleWaits
  <2>3. SureInCache'
    BY <2>1, <1>12, <1>14, <1>15 DEF SureInCache
  <2>4. SureInTurn'
    <3>1. SUFFICES ASSUME IdleWaits', pc # "idle", ~Ahead(lockQ', "idle", "build") PROVE Sure(heap'[sess])
      BY <1>7 DEF SureInTurn
    <3>2. Sure(heap[sess])
      BY <3>1, <2>2, <1>0, <1>7 DEF Handover, SureInTurn
    <3>3. sess \in Objects
      BY <3>1, <1>0 DEF Types, Lock
    <3>4. CASE sess = o
      BY <3>4, <1>9, <1>12, <1>14
    <3>5. CASE sess # o
      BY <3>2, <3>3, <3>5, <1>9
    <3> QED BY <3>4, <3>5
  <2>5. WholeInCache'
    <3>1. SUFFICES ASSUME pc # "idle", sess # o, "idle" \notin ToSet(lockQ)
                   PROVE  Whole(Unconsolidated(d))
      BY <1>3, <1>4, <1>7, <1>9 DEF WholeInCache
    <3>2. CASE o = cache /\ AtBoundary(heap[o], work.mark)
      <4>1. Whole(Unconsolidated(heap[o]))
        BY <3>1, <3>2, <1>0 DEF Handover, WholeInCache
      <4>2. /\ heap[o].mark <= work.mark /\ work.mark < Len(heap[o].rows)
            /\ IsUser(heap[o].rows[work.mark + 1])
        BY <3>2 DEF AtBoundary
      <4>3. PICK r, m, n : r = d.rows /\ m = heap[o].mark /\ n = work.mark
        OBVIOUS
      <4>4. /\ r \in Seq(Rows) /\ Legal(r) /\ m \in Nat /\ n \in Nat /\ Len(r) \in Nat
            /\ m <= Len(r) /\ m <= n /\ n < Len(r) /\ IsUser(r[n + 1])
        BY <4>2, <4>3, <1>4, <1>6, <1>13
      <4>5. Whole(SubSeq(r, m + 1, Len(r)))
        BY <4>1, <4>3, <1>6 DEF Unconsolidated
      <4>6. Whole(SubSeq(r, n + 1, Len(r)))
        BY <4>4, <4>5, BoundaryIsWhole
      <4> QED BY <4>3, <4>6, <1>6 DEF Unconsolidated
    <3>3. CASE Bare(heap[o])
      <4>1. Len(d.rows) = 0
        BY <3>3, <1>6 DEF Bare
      <4>2. ~Whole(Unconsolidated(d)) => Len(d.rows) > d.mark + Keep
        BY <1>6, UnconsolidatedFacts
      <4>3. d.mark \in Nat /\ Keep \in Nat
        BY <1>4, <1>6, ConstantsAssumption
      <4> QED BY <4>1, <4>2, <4>3
    <3> QED BY <3>2, <3>3, <1>12
  <2>6. RoundEnds'
    BY <1>3, <1>7, <1>9 DEF RoundEnds
  <2>7. KeptWhole'
    BY <1>7 DEF KeptWhole
  <2> QED BY <2>3, <2>4, <2>5, <2>6, <2>7 DEF Handover
<1> QED BY <1>7, <1>9, <1>10, <1>11, <1>16 DEF Base

\* What a compaction loads from the file is what the cache has.
LEMMA LoadedSure ==
  ASSUME Types, Stored, Agree, Sure(Content) \/ Toolless(Content)
  PROVE  Sure(Loaded(file)) \/ Toolless(Loaded(file))
<1>1. PICK c : c = Loaded(file)
  OBVIOUS
<1>2. /\ c.rows = file.rows /\ c.ckpt = file.ckpt /\ c.mark <= Len(file.rows)
      /\ c.mark = file.mark \/ c.mark = 0
      /\ file.mark <= Len(file.rows) => c = file
  BY <1>1, LoadedFits DEF Stored
<1>3. PICK d : d = Content
  OBVIOUS
<1>4. d.rows = file.rows /\ d.ckpt = file.ckpt /\ d.mark \in {file.mark, c.mark}
  BY <1>1, <1>3, ContentFacts DEF Same
<1>5. /\ Len(file.rows) \in Nat /\ file.mark \in Nat /\ Keep \in Nat
  BY ConstantsAssumption DEF Stored, Fits, Contents
<1>6. CASE Toolless(d)
  BY <1>6, <1>1, <1>2, <1>4 DEF Toolless, NoCheckpoint
<1>7. CASE Sure(d)
  <2>1. CASE d.mark = c.mark
    BY <2>1, <1>1, <1>2, <1>4, <1>7 DEF Sure
  <2>2. CASE d.mark # c.mark
    <3>1. d.mark = file.mark /\ file.mark > Len(file.rows)
      <4>1. d.mark = file.mark /\ c.mark # file.mark
        BY <2>2, <1>4
      <4>2. c # file
        BY <4>1
      <4> QED BY <4>1, <4>2, <1>2, <1>5
    <3>2. ~Sure(d)
      <4>1. d.mark \in Nat /\ Len(d.rows) \in Nat /\ d.mark > Len(d.rows)
        BY <3>1, <1>4, <1>5
      <4> QED BY <4>1, <1>5 DEF Sure
    <3> QED BY <3>2, <1>7
  <2> QED BY <2>1, <2>2
<1> QED BY <1>3, <1>6, <1>7

\* The end of a compaction: the session is short enough, and the lock is free.
LEMMA CompactedStep ==
  ASSUME Base, lockQ # <<>>, Head(lockQ) = "idle", Release,
         NEW o \in Objects, NEW d, Fits(d, turns, Own), Whole(Unconsolidated(d)),
         file' = d, heap' = [heap EXCEPT ![o] = d], cache' = o,
         archived' \subseteq Rows,
         UNCHANGED <<snapshot, lost, newAt, bounds>>
  PROVE  Base'
<1>0. /\ Types /\ Stored /\ Produced /\ Lock /\ Agree /\ Handover
  BY DEF Base
<1>1. /\ Lock' /\ lockQ' \in Seq(JobNames) /\ IsInjective(lockQ') /\ work' = NoWork
      /\ ToSet(lockQ') = ToSet(lockQ) \ {"idle"}
      /\ pc' = pc /\ sess' = sess /\ Own' = Own
  BY <1>0, ReleaseKeeps
<1>2. dispatched' = dispatched /\ turns' = turns /\ iter' = iter /\ produced' = produced
  BY DEF Release
<1>3. turns \in Nat /\ turns' \in Nat
  BY <1>0, <1>2 DEF Types
<1>4. Same(d, file')
  BY SameSelf
<1>5. /\ heap' \in [Objects -> Contents] /\ cache' \in Objects \cup {NoObject}
      /\ \A p \in Objects : Fits(heap'[p], turns', Own')
      /\ heap'[o] = d /\ \A p \in Objects \ {o} : heap'[p] = heap[p]
      /\ Agree'
  BY <1>0, <1>1, <1>2, <1>3, <1>4, PutKeeps
<1>6. Types'
  BY <1>0, <1>1, <1>2, <1>5, NoWorkFacts DEF Types, bounds
<1>7. Stored'
  BY <1>1, <1>2, <1>5, NoWorkFacts DEF Stored
<1>8. Produced'
  BY <1>0, <1>1, <1>2 DEF Produced
<1>9. Handover'
  <2>1. ~IdleWaits' /\ ~Consolidating' /\ ~Compacting'
    BY <1>1, NoWorkFacts DEF IdleWaits, Consolidating, Compacting
  <2>2. SureInCache' /\ SureInTurn' /\ RoundEnds' /\ KeptWhole'
    BY <2>1 DEF SureInCache, SureInTurn, RoundEnds, KeptWhole
  <2>3. WholeInCache'
    BY <1>5, ConstantsAssumption DEF WholeInCache
  <2> QED BY <2>2, <2>3 DEF Handover
<1> QED BY <1>1, <1>5, <1>6, <1>7, <1>8, <1>9 DEF Base

\* A session of n rows with all of them in front of it, and whole.
LEMMA WholeFromStart ==
  ASSUME NEW d \in Contents, Legal(d.rows), d.mark = 0, Whole(d.rows)
  PROVE  Whole(Unconsolidated(d))
<1>1. Unconsolidated(d) = d.rows
  BY DEF Unconsolidated, Contents
<1> QED BY <1>1

\* A compaction that gets the lock, and loads the session.
LEMMA CompactKeeps ==
  ASSUME Base, Compact
  PROVE  Base'
<1>0. /\ Types /\ Stored /\ Produced /\ Lock /\ Agree /\ Handover
  BY DEF Base
<1>1. PICK o : o = Unused
  OBVIOUS
<1>2. PICK c : c = Loaded(file)
  OBVIOUS
<1>3. PICK tail : tail = Unconsolidated(c)
  OBVIOUS
<1>4. /\ lockQ # <<>> /\ Head(lockQ) = "idle" /\ work.obj = NoObject
      /\ \/ /\ Dropped(tail) = <<>>
            /\ Save(o, IF tail = <<>> THEN c ELSE [c EXCEPT !.rows = tail, !.mark = 0])
            /\ Release
         \/ /\ Dropped(tail) # <<>>
            /\ cache' = o /\ heap' = [heap EXCEPT ![o] = c]
            /\ work' = [obj |-> o, chunk |-> Dropped(tail), mark |-> 0, keep |-> Suffix(tail)]
            /\ UNCHANGED <<file, lockQ, turnVars>>
      /\ UNCHANGED <<snapshot, archived, lost, newAt, bounds>>
  BY <1>1, <1>2, <1>3, NoWorkFacts DEF Compact
<1>5. o \in Objects /\ o # NoObject
  <2>1. {cache, sess, work.obj} \subseteq Objects \cup {NoObject}
    BY <1>0 DEF Types, Jobs
  <2> QED BY <2>1, <1>1, UnusedIsNew
<1>6. /\ Fits(c, turns, Own) /\ c.mark <= Len(c.rows) /\ Same(c, file) /\ c \in Contents /\ Legal(c.rows)
  <2>1. Fits(c, turns, Own) /\ c.rows = file.rows /\ c.ckpt = file.ckpt /\ c.mark <= Len(file.rows)
    BY <1>0, <1>2, LoadedFits DEF Stored
  <2> QED BY <2>1, <1>2 DEF Same, Fits, RowsFit
<1>7. Sure(c) \/ Toolless(c)
  <2>1. "idle" \in ToSet(lockQ)
    BY <1>0, <1>4, LockHead DEF Types
  <2>2. Sure(Content) \/ Toolless(Content)
    BY <2>1, <1>0, <1>4 DEF Handover, SureInCache, IdleWaits
  <2> QED BY <2>2, <1>0, <1>2, LoadedSure
<1>8. PICK keep : keep = Suffix(tail)
  OBVIOUS
<1>9. tail \in Seq(Rows) /\ ToolsFollow(tail) /\ keep \in Seq(Rows) /\ RowsFit(keep, turns, Own) /\ Apart(keep, c.ckpt)
  BY <1>3, <1>6, <1>7, <1>8, TailFits
<1>10. /\ Dropped(tail) \in Seq(Rows) /\ (Whole(tail) => keep = tail) /\ Whole(keep)
  BY <1>8, <1>9, SuffixFacts, SuffixIsWhole
<1>11. CASE /\ Dropped(tail) = <<>>
            /\ Save(o, IF tail = <<>> THEN c ELSE [c EXCEPT !.rows = tail, !.mark = 0])
            /\ Release
  <2>1. Whole(tail) /\ keep = tail
    BY <1>10, <1>11 DEF Whole
  <2>2. PICK d : d = IF tail = <<>> THEN c ELSE [c EXCEPT !.rows = tail, !.mark = 0]
    OBVIOUS
  <2>3. file' = d /\ heap' = [heap EXCEPT ![o] = d] /\ cache' = o
    BY <2>2, <1>11 DEF Save
  <2>4. Fits(d, turns, Own) /\ Whole(Unconsolidated(d))
    <3>1. CASE d = c
      BY <3>1, <2>1, <1>3, <1>6
    <3>2. CASE d = [c EXCEPT !.rows = tail, !.mark = 0]
      <4>1. RowsFit(tail, turns, Own) /\ Apart(tail, c.ckpt)
        BY <2>1, <1>9
      <4>2. d \in Contents /\ d.rows = tail /\ d.ckpt = c.ckpt /\ d.mark = 0
        BY <3>2, <1>6, <1>9 DEF Contents
      <4>3. Fits(d, turns, Own)
        BY <4>1, <4>2, <1>6 DEF Fits
      <4>4. Legal(d.rows) /\ Whole(d.rows)
        BY <4>1, <4>2, <2>1 DEF RowsFit
      <4> QED BY <4>2, <4>3, <4>4, WholeFromStart
    <3> QED BY <3>1, <3>2, <2>2
  <2>5. archived' \subseteq Rows
    BY <1>0, <1>4 DEF Types
  <2> QED BY <2>3, <2>4, <2>5, <1>4, <1>5, <1>11, CompactedStep
<1>12. CASE /\ Dropped(tail) # <<>>
            /\ cache' = o /\ heap' = [heap EXCEPT ![o] = c]
            /\ work' = [obj |-> o, chunk |-> Dropped(tail), mark |-> 0, keep |-> Suffix(tail)]
            /\ UNCHANGED <<file, lockQ, turnVars>>
  <2>1. /\ file' = file /\ lockQ' = lockQ /\ pc' = pc /\ sess' = sess /\ dispatched' = dispatched
        /\ turns' = turns /\ iter' = iter /\ produced' = produced /\ Own' = Own
    BY <1>12 DEF turnVars, Own
  <2>2. work' \in Jobs /\ work'.obj = o /\ work'.keep = keep
    BY <1>5, <1>8, <1>9, <1>10, <1>12 DEF Jobs
  <2>3. turns \in Nat /\ turns' \in Nat /\ Fits(file', turns', Own') /\ Fits(c, turns', Own') /\ Same(c, file')
    BY <2>1, <1>0, <1>6 DEF Types, Stored
  <2>4. /\ heap' \in [Objects -> Contents] /\ cache' \in Objects \cup {NoObject}
        /\ \A p \in Objects : Fits(heap'[p], turns', Own')
        /\ heap'[o] = c /\ \A p \in Objects \ {o} : heap'[p] = heap[p]
        /\ Agree'
    BY <2>1, <2>3, <1>0, <1>5, <1>12, PutKeeps
  <2>5. Types'
    BY <2>1, <2>2, <2>4, <1>0, <1>4 DEF Types, bounds
  <2>6. Stored'
    BY <2>1, <2>2, <2>3, <2>4, <1>9 DEF Stored
  <2>7. work' # NoWork
    BY <2>2, <1>5, NoWorkFacts
  <2>8. Produced' /\ Lock'
    BY <2>1, <2>2, <2>7, <1>0, <1>4, <1>5 DEF Produced, Lock
  <2>9. Handover'
    <3>1. ~IdleWaits' /\ ~Consolidating' /\ "idle" \in ToSet(lockQ')
      <4>1. "idle" \in ToSet(lockQ)
        BY <1>0, <1>4, LockHead DEF Types
      <4> QED BY <4>1, <2>1, <2>2, <1>4, <1>5 DEF IdleWaits, Consolidating
    <3>2. SureInCache' /\ SureInTurn' /\ WholeInCache' /\ RoundEnds'
      BY <3>1 DEF SureInCache, SureInTurn, WholeInCache, RoundEnds
    <3>3. KeptWhole'
      BY <2>2, <1>10 DEF KeptWhole
    <3> QED BY <3>2, <3>3 DEF Handover
  <2> QED BY <2>4, <2>5, <2>6, <2>8, <2>9 DEF Base
<1> QED BY <1>4, <1>11, <1>12

\* The compaction is over.
LEMMA EndCompactKeeps ==
  ASSUME Base, EndCompact
  PROVE  Base'
<1>0. /\ Types /\ Stored /\ Produced /\ Lock /\ Agree /\ Handover
  BY DEF Base
<1>1. PICK o : o = work.obj
  OBVIOUS
<1>2. PICK r : r = work.keep
  OBVIOUS
<1>3. PICK d : d = [heap[o] EXCEPT !.rows = r, !.mark = 0]
  OBVIOUS
<1>4. /\ work # NoWork /\ Head(lockQ) = "idle" /\ Release
      /\ file' = d /\ heap' = [heap EXCEPT ![o] = d] /\ cache' = o
      /\ archived' = archived \cup ToSet(work.chunk)
      /\ UNCHANGED <<snapshot, lost, newAt, bounds>>
  BY <1>1, <1>2, <1>3 DEF EndCompact, Save
<1>5. o \in Objects /\ o # NoObject /\ lockQ # <<>> /\ r \in Seq(Rows)
  BY <1>0, <1>1, <1>2, <1>4 DEF Types, Jobs, Lock
<1>6. RowsFit(r, turns, Own) /\ Apart(r, heap[o].ckpt) /\ Fits(heap[o], turns, Own)
  BY <1>0, <1>1, <1>2, <1>5 DEF Stored
<1>7. d \in Contents /\ d.rows = r /\ d.ckpt = heap[o].ckpt /\ d.mark = 0
  BY <1>3, <1>5, <1>6 DEF Fits, Contents
<1>8. Fits(d, turns, Own)
  BY <1>6, <1>7 DEF Fits
<1>9. Whole(Unconsolidated(d))
  <2>1. Whole(r)
    BY <1>0, <1>1, <1>2, <1>4, <1>5 DEF Handover, KeptWhole, Compacting
  <2>2. Legal(d.rows) /\ Whole(d.rows)
    BY <2>1, <1>6, <1>7 DEF RowsFit
  <2> QED BY <2>2, <1>7, WholeFromStart
<1>10. archived' \subseteq Rows
  <2>1. work.chunk \in Seq(Rows)
    BY <1>0 DEF Types, Jobs
  <2>2. ToSet(work.chunk) \subseteq Rows
    BY <2>1 DEF ToSet
  <2> QED BY <2>2, <1>0, <1>4 DEF Types
<1> QED BY <1>4, <1>5, <1>8, <1>9, <1>10, CompactedStep

\* What is there before the first message.
LEMMA EmptyFits ==
  ASSUME NEW n, NEW own
  PROVE  Fits(Empty, n, own) /\ Empty \in Contents
<1>1. Empty \in Contents /\ Empty.rows = <<>> /\ Empty.ckpt = <<>>
  BY DEF Empty, Contents
<1> QED BY <1>1, NoRowsFit DEF Fits, Checkpoints

\* The invariant holds initially.
LEMMA InitBase == Init => Base
<1>1. SUFFICES ASSUME Init PROVE Base
  OBVIOUS
<1>2. /\ file = Empty /\ heap = [o \in Objects |-> Empty] /\ cache = NoObject
      /\ pc = "idle" /\ sess = NoObject /\ lockQ = <<>> /\ work = NoWork
  BY <1>1 DEF Init
<1>3. ToSet(lockQ) = {} /\ IsInjective(lockQ) /\ \A a, b : ~Ahead(lockQ, a, b)
  BY <1>2 DEF ToSet, IsInjective, Ahead
<1>4. Types
  <2>1. {MaxTurns, MaxIter, MaxFaults, MaxNew, MaxIdle} \subseteq Nat
    BY ConstantsAssumption
  <2>2. heap \in [Objects -> Contents]
    BY <1>2, EmptyFits
  <2>3. /\ turns \in 0 .. MaxTurns /\ iter \in 0 .. MaxIter /\ newAt \in 0 .. turns
        /\ faults \in 0 .. MaxFaults /\ news \in 0 .. MaxNew /\ idles \in 0 .. MaxIdle
    BY <2>1, <1>1 DEF Init
  <2>4. dispatched = FALSE /\ produced = <<>> /\ pc \in Phases
    BY <1>1 DEF Init, Phases
  <2>7. dispatched \in BOOLEAN /\ produced \in Seq(Rows)
    <3>1. produced \in Seq(Rows)
      BY <2>4
    <3>2. dispatched \in BOOLEAN
      BY <2>4, Zenon
    <3> QED BY <3>1, <3>2
  <2>5. archived \subseteq Rows /\ snapshot \subseteq Rows /\ lost \subseteq Rows
    BY <1>1 DEF Init
  <2>6. lockQ \in Seq(JobNames) /\ work \in Jobs
    BY <1>2, NoWorkFacts
  <2> QED BY <2>2, <2>3, <2>4, <2>5, <2>6, <2>7, <1>2, <1>3 DEF Types
<1>5. Stored
  BY <1>2, EmptyFits, NoWorkFacts DEF Stored
<1>6. Produced /\ Agree
  BY <1>2 DEF Produced, Agree
<1>7. Lock
  BY <1>2, <1>3, NoWorkFacts DEF Lock
<1>8. Handover
  <2>1. ~IdleWaits /\ ~Consolidating /\ ~Compacting
    BY <1>2, <1>3, NoWorkFacts DEF IdleWaits, Consolidating, Compacting
  <2> QED BY <2>1, <1>2 DEF Handover, SureInCache, SureInTurn, WholeInCache, RoundEnds, KeptWhole
<1> QED BY <1>4, <1>5, <1>6, <1>7, <1>8 DEF Base

\* Every step keeps the invariant.
LEMMA StepBase ==
  ASSUME Base, [Next]_vars
  PROVE  Base'
<1>1. CASE UNCHANGED vars
  <2>1. UNCHANGED <<file, heap, cache, turnVars, jobVars, newAt, bounds>>
    BY <1>1 DEF vars
  <2>2. archived' \subseteq Rows /\ snapshot' \subseteq Rows /\ lost' \subseteq Rows
    BY <1>1 DEF vars, Base, Types
  <2> QED BY <2>1, <2>2, SameKeeps
<1>2. CASE Next
  <2>1. Step
    BY <1>2 DEF Next
  <2> QED BY <2>1, BeginKeeps, CommandKeeps, PersistKeeps, CallToolsKeeps, ToolsDoneKeeps, AnswerKeeps, SaveTurnKeeps,
             FailKeeps, StopKeeps, NewConversationKeeps, ArchiveSnapshotKeeps, ConsolidateKeeps,
             EndRoundKeeps, IdleTickKeeps, CompactKeeps, EndCompactKeeps, CrashKeeps DEF Step
<1> QED BY <1>1, <1>2

\* What the history variables are.
Observed == known \subseteq Rows /\ raced \in BOOLEAN

\* The rows once saved are rows.
LEMMA StepObserved ==
  ASSUME Base, Observed, [Next]_vars
  PROVE  Observed'
<1>1. CASE UNCHANGED vars
  BY <1>1 DEF vars, observed, Observed
<1>2. CASE Next
  <2>1. file'.rows \in Seq(Rows)
    BY StepBase DEF Base, Stored, Fits, Contents
  <2>2. ToSet(file'.rows) \subseteq Rows
    BY <2>1 DEF ToSet
  <2>3. known' \subseteq Rows
    BY <2>2, <1>2 DEF Next, Observed
  <2>4. raced' \in BOOLEAN
    BY <1>2 DEF Next, Races
  <2> QED BY <2>3, <2>4 DEF Observed
<1> QED BY <1>1, <1>2

\* Every reachable state has it.
LEMMA BaseHolds == Spec => [](Base /\ Observed)
<1>1. Init => Base /\ Observed
  BY InitBase DEF Init, Observed
<1>2. Base /\ Observed /\ [Next]_vars => Base' /\ Observed'
  BY StepBase, StepObserved
<1> QED BY <1>1, <1>2, PTL DEF Spec

\* The consolidation lock queues nobody twice, and all else has its type, in every
\* reachable state.
THEOREM HistoryTypeCorrect == Spec => []TypeOK
<1>1. Base /\ Observed => TypeOK
  <2>1. SUFFICES ASSUME Base, Observed PROVE TypeOK
    OBVIOUS
  <2>2. file \in Contents
    BY <2>1 DEF Base, Stored, Fits
  <2>3. {cache, sess, work.obj} \subseteq Objects \cup {NoObject}
    BY <2>1 DEF Base, Types, Jobs
  <2>4. ToSet(lockQ) \subseteq {"build", "after", "idle"}
    BY <2>1 DEF Base, Types, JobNames, ToSet
  <2>5. work.chunk \in Seq(Rows) /\ work.keep \in Seq(Rows)
    BY <2>1 DEF Base, Types, Jobs
  <2>6. pc \in {"idle", "building"} \cup Working
    BY <2>1 DEF Base, Types, Phases, Working
  <2>7. UNION {archived, snapshot, known, lost} \subseteq Rows
    BY <2>1 DEF Base, Types, Observed
  <2> QED BY <2>1, <2>2, <2>3, <2>4, <2>5, <2>6, <2>7 DEF Base, Types, Observed, TypeOK
<1> QED BY <1>1, BaseHolds, PTL

\* However often a turn is restored, stopped, crashed or compacted, no row is in
\* the session file twice: the checkpoint is always apart from the rows.
THEOREM NoRowTwice == Spec => []NeverTwice
<1>1. Base => NeverTwice
  BY DEF Base, Stored, Fits, RowsFit, Legal, NeverTwice
<1> QED BY <1>1, BaseHolds, PTL

\* Every tool call in the file is followed by its result or the notice that it was
\* cut, and no result stands alone, races included.
THEOREM ToolCallsAnswered == Spec => []CallsAnswered
<1>1. Base => CallsAnswered
  <2>1. SUFFICES ASSUME Base PROVE CallsAnswered
    OBVIOUS
  <2>2. PICK r : r = file.rows
    OBVIOUS
  <2>3. r \in Seq(Rows) /\ ToolsPaired(r) /\ CallsPaired(r)
    BY <2>1, <2>2 DEF Base, Stored, Fits, RowsFit, Legal, Contents
  <2>4. DOMAIN r = 1 .. Len(r)
    BY <2>3
  <2>5. ASSUME NEW k \in DOMAIN r
        PROVE  /\ What(r[k]) = "call" => /\ k < Len(r)
                                         /\ What(r[k]) = "call" /\ IsTool(r[k + 1])
                                         /\ r[k][1] = r[k + 1][1] /\ r[k][2][2] = r[k + 1][2][2]
               /\ IsTool(r[k]) => /\ k > 1
                                  /\ What(r[k - 1]) = "call" /\ IsTool(r[k])
                                  /\ r[k - 1][1] = r[k][1] /\ r[k - 1][2][2] = r[k][2][2]
    BY <2>3, <2>4 DEF ToolsPaired, CallsPaired, Pair, TurnOf, IterOf
  <2> QED BY <2>2, <2>5 DEF CallsAnswered
<1> QED BY <1>1, BaseHolds, PTL

-----------------------------------------------------------------------------
(* The invariant while no two of the session's writers have raced.           *)

\* A message of the user that stands last is pending, or has a checkpoint behind it.
Lasts(c) == EndsWithUser(c.rows) => c.pending \/ ~NoCheckpoint(c)

\* The rows that are not consolidated.
TailRows(c) == {c.rows[k] : k \in c.mark + 1 .. Len(c.rows)}

\* A turn has the object of the cache, no compaction waits or works, and its
\* number is beyond the last /new.
Alone == pc # "idle" => sess = cache /\ "idle" \notin ToSet(lockQ) /\ turns > newAt

\* A job works on the object of the cache.
HeldIsCached == work.obj # NoObject => work.obj = cache

MarkInside == file.mark <= Len(file.rows)

\* No message of the user follows another, nor would the next one.
Answered ==
  /\ Adjacent(file.rows) /\ Lasts(Content) /\ Lasts(file)
  /\ pc \in {"building", "built"} => ~EndsWithUser(file.rows)

\* All rows, and all a checkpoint will materialize, are behind the last /new.
Fresh == After(file.rows, newAt) /\ After(file.ckpt, newAt)

\* No row that was ever saved is forgotten.
Covered ==
  /\ known \subseteq TailRows(file) \cup archived \cup snapshot \cup lost
  /\ ToSet(file.rows) \subseteq known

\* What a consolidation moves the offset over is what it sent to the model.
ChunkCovers ==
  Consolidating => \A k \in file.mark + 1 .. work.mark : file.rows[k] \in ToSet(work.chunk)

\* What a compaction sent and what it keeps are all there was.
KeepCovers ==
  Compacting =>
    /\ TailRows(file) \subseteq ToSet(work.chunk) \cup ToSet(work.keep)
    /\ ToSet(work.keep) \subseteq ToSet(file.rows)
    /\ Adjacent(work.keep)
    /\ EndsWithUser(work.keep) => EndsWithUser(file.rows)

Calm ==
  /\ Alone /\ HeldIsCached /\ MarkInside /\ Answered /\ Fresh /\ Covered
  /\ ChunkCovers /\ KeepCovers

\* What the file, or an object that agrees with it, contains.
LEMMA SameContent ==
  ASSUME NEW n, NEW own, NEW f, Fits(f, n, own), NEW c, c = Loaded(f) \/ Same(c, f)
  PROVE  /\ c.rows = f.rows /\ c.ckpt = f.ckpt
         /\ f.mark <= Len(f.rows) => c.mark = f.mark /\ Loaded(f) = f
<1>1. /\ Loaded(f).rows = f.rows /\ Loaded(f).ckpt = f.ckpt
      /\ f.mark <= Len(f.rows) => Loaded(f) = f
  BY LoadedFits
<1>2. CASE c = Loaded(f)
  BY <1>1, <1>2
<1>3. CASE Same(c, f)
  BY <1>1, <1>3 DEF Same
<1> QED BY <1>2, <1>3

\* So does what get_or_create returns, before a step and after it.
LEMMA CalmContent ==
  ASSUME Base, MarkInside
  PROVE  /\ Content.rows = file.rows /\ Content.ckpt = file.ckpt /\ Content.mark = file.mark
         /\ cache = NoObject => Content = file
         /\ cache # NoObject => Content = heap[cache]
         /\ Content \in Contents /\ file \in Contents
<1>1. Fits(file, turns, Own) /\ file \in Contents
  BY DEF Base, Stored, Fits
<1>2. /\ cache = NoObject => Content = Loaded(file)
      /\ cache # NoObject => Content = heap[cache]
      /\ Content \in Contents /\ Same(Content, file)
  BY ContentFacts DEF Base
<1> QED BY <1>1, <1>2, SameContent DEF MarkInside

\* After a step get_or_create returns what the file says.
LEMMA NextContent ==
  ASSUME Base'
  PROVE  Content'.rows = file'.rows /\ Content'.ckpt = file'.ckpt /\ file' \in Contents
<1>1. Fits(file', turns', Own') /\ file' \in Contents /\ Agree'
  BY DEF Base, Stored, Fits
<1>2. Content' = Loaded(file') \/ Same(Content', file')
  BY <1>1 DEF Content, Agree
<1> QED BY <1>1, <1>2, SameContent

\* The rows that are not consolidated, as a set.
LEMMA TailRowsAre ==
  ASSUME NEW c \in Contents
  PROVE  ToSet(SubSeq(c.rows, c.mark + 1, Len(c.rows))) = TailRows(c)
<1>1. c.rows \in Seq(Rows) /\ c.mark \in Nat /\ Len(c.rows) \in Nat
  BY DEF Contents
<1>2. PICK r, m, t : r = c.rows /\ m = c.mark + 1 /\ t = SubSeq(c.rows, c.mark + 1, Len(c.rows))
  OBVIOUS
<1>3. r \in Seq(Rows) /\ m \in Nat \ {0} /\ Len(r) \in Nat /\ t = SubSeq(r, m, Len(r))
  BY <1>1, <1>2
<1>4. CASE m <= Len(r) + 1
  <2>1. /\ t \in Seq(Rows) /\ Len(t) = Len(r) - m + 1
        /\ \A k \in 1 .. Len(r) - m + 1 : t[k] = r[m + k - 1] /\ m + k - 1 \in 1 .. Len(r)
    BY <1>3, <1>4, Slice
  <2>2. ASSUME NEW e \in ToSet(t) PROVE \E k \in m .. Len(r) : r[k] = e
    <3>1. PICK k \in 1 .. Len(t) : t[k] = e
      BY <2>1 DEF ToSet
    <3>2. m + k - 1 \in m .. Len(r) /\ r[m + k - 1] = e
      BY <3>1, <2>1, <1>3
    <3> QED BY <3>2
  <2>3. ASSUME NEW k \in m .. Len(r) PROVE r[k] \in ToSet(t)
    <3>1. k - m + 1 \in 1 .. Len(t) /\ m + (k - m + 1) - 1 = k
      BY <2>1, <1>3
    <3>2. t[k - m + 1] = r[k]
      BY <3>1, <2>1
    <3>3. DOMAIN t = 1 .. Len(t)
      BY <2>1
    <3> QED BY <3>1, <3>2, <3>3 DEF ToSet
  <2> QED BY <2>2, <2>3, <1>2 DEF TailRows
<1>5. CASE m > Len(r) + 1
  <2>1. t = <<>>
    BY <1>3, <1>5
  <2>2. m .. Len(r) = {}
    BY <1>3, <1>5
  <2>3. TailRows(c) = {}
    BY <2>2, <1>2 DEF TailRows
  <2>4. ToSet(t) = {}
    BY <2>1 DEF ToSet
  <2> QED BY <2>3, <2>4, <1>2
<1> QED BY <1>3, <1>4, <1>5

\* Growth is of rows alone.
LEMMA GrownAlike ==
  ASSUME NEW a, NEW b, NEW c, NEW d, Grown(c, d),
         a.rows = c.rows, a.mark = c.mark, b.rows = d.rows, b.mark = d.mark
  PROVE  Grown(a, b)
BY DEF Grown

\* Nothing leaves the rows that are not consolidated.
LEMMA TailGrows ==
  ASSUME NEW c \in Contents, NEW d \in Contents, Grown(c, d), c.mark <= Len(c.rows)
  PROVE  /\ TailRows(c) \subseteq TailRows(d)
         /\ ToSet(d.rows) \subseteq ToSet(c.rows) \cup TailRows(d)
         /\ d.mark <= Len(d.rows)
<1>1. PICK r, q, m, n, l : r = c.rows /\ q = d.rows /\ m = c.mark /\ n = Len(c.rows) /\ l = Len(d.rows)
  OBVIOUS
<1>2. /\ r \in Seq(Rows) /\ q \in Seq(Rows) /\ m \in Nat /\ n \in Nat /\ l \in Nat /\ m <= n /\ n <= l
      /\ d.mark = m /\ n = Len(r) /\ l = Len(q)
      /\ \A k \in 1 .. n : q[k] = r[k]
  BY <1>1 DEF Contents, Grown
<1>3. TailRows(c) = {r[k] : k \in m + 1 .. n} /\ TailRows(d) = {q[k] : k \in m + 1 .. l}
  BY <1>1, <1>2 DEF TailRows
<1>4. \A k \in m + 1 .. n : k \in m + 1 .. l /\ r[k] = q[k]
  BY <1>2
<1>5. TailRows(c) \subseteq TailRows(d)
  BY <1>3, <1>4
<1>6. ASSUME NEW k \in 1 .. l PROVE q[k] \in ToSet(r) \cup TailRows(d)
  <2>1. CASE k \in 1 .. n
    BY <2>1, <1>2 DEF ToSet
  <2>2. CASE k \in m + 1 .. l
    BY <2>2, <1>3
  <2> QED BY <2>1, <2>2, <1>2
<1>7. ToSet(q) \subseteq ToSet(r) \cup TailRows(d)
  BY <1>2, <1>6 DEF ToSet
<1> QED BY <1>1, <1>2, <1>5, <1>7

\* A step that only adds to the session, with no compaction about.
LEMMA GrowCalm ==
  ASSUME Base, Base', Calm, Grown(file, file'), known' = known \cup ToSet(file'.rows),
         archived' = archived, snapshot' = snapshot, lost' = lost,
         cache # NoObject => cache' = cache, "idle" \notin ToSet(lockQ'),
         Consolidating' => Consolidating /\ work' = work
  PROVE  HeldIsCached' /\ MarkInside' /\ Covered' /\ ChunkCovers' /\ KeepCovers'
<1>1. file \in Contents /\ file' \in Contents
  BY DEF Base, Stored, Fits
<1>2. /\ file.mark <= Len(file.rows)
      /\ ToSet(file.rows) \subseteq known
      /\ known \subseteq TailRows(file) \cup archived \cup snapshot \cup lost
  BY DEF Calm, MarkInside, Covered
<1>3. /\ TailRows(file) \subseteq TailRows(file')
      /\ ToSet(file'.rows) \subseteq ToSet(file.rows) \cup TailRows(file')
      /\ file'.mark <= Len(file'.rows)
  BY <1>1, <1>2, TailGrows
<1>4. Covered'
  BY <1>2, <1>3 DEF Covered
<1>5. ~Compacting'
  <2>1. SUFFICES ASSUME work'.obj # NoObject PROVE Head(lockQ') # "idle"
    BY DEF Compacting
  <2>2. lockQ' \in Seq(JobNames) /\ IsInjective(lockQ') /\ lockQ' # <<>>
    BY <2>1 DEF Base, Types, Lock
  <2>3. Head(lockQ') \in ToSet(lockQ')
    BY <2>2, LockHead
  <2> QED BY <2>3
<1>6. HeldIsCached'
  <2>1. SUFFICES ASSUME work'.obj # NoObject PROVE work'.obj = cache'
    BY DEF HeldIsCached
  <2>2. Consolidating'
    BY <2>1, <1>5 DEF Consolidating, Compacting
  <2> QED BY <2>1, <2>2 DEF Calm, HeldIsCached
<1>7. ChunkCovers'
  <2>1. SUFFICES ASSUME Consolidating', NEW k \in file.mark + 1 .. work.mark
                 PROVE  file'.rows[k] \in ToSet(work.chunk)
    BY DEF ChunkCovers, Grown
  <2>2. file.rows[k] \in ToSet(work.chunk)
    BY <2>1 DEF Calm, ChunkCovers
  <2>3. work.obj = cache /\ cache # NoObject
    BY <2>1 DEF Calm, HeldIsCached, Consolidating
  <2>4. AtBoundary(heap[cache], work.mark)
    BY <2>1, <2>3 DEF Base, Handover, RoundEnds
  <2>5. heap[cache].rows = file.rows
    BY <2>3 DEF Base, Agree, Same
  <2>6. k \in 1 .. Len(file.rows)
    <3>1. work.mark \in Nat /\ file.mark \in Nat /\ Len(file.rows) \in Nat
      BY <1>1 DEF Base, Types, Jobs, Contents
    <3>2. work.mark < Len(file.rows)
      BY <2>4, <2>5 DEF AtBoundary
    <3> QED BY <3>1, <3>2
  <2> QED BY <2>2, <2>6 DEF Grown
<1> QED BY <1>3, <1>4, <1>5, <1>6, <1>7 DEF MarkInside, KeepCovers
-----------------------------------------------------------------------------
(* The steps of turns.                                                       *)

\* A turn restores first: no message of the user stands last then.
LEMMA BeginCalm ==
  ASSUME Base, Base', Calm, ~Races, Begin, known' = known \cup ToSet(file'.rows)
  PROVE  Calm'
<1>1. turns \in 0 .. MaxTurns /\ newAt \in Nat /\ newAt <= turns /\ turns' > turns
  <2>1. turns \in 0 .. MaxTurns /\ newAt \in 0 .. turns
    BY DEF Base, Types
  <2> QED BY <2>1 DEF Begin
<1>2. /\ Content.rows = file.rows /\ Content.ckpt = file.ckpt /\ Content.mark = file.mark
      /\ Content \in Contents /\ Fits(Content, turns, Own)
      /\ cache # NoObject => Obtained = cache
      /\ cache = NoObject => Obtained # work.obj
  BY CalmContent, ContentFacts DEF Base, Calm
<1>3. PICK d : d = Restored(Content)
  OBVIOUS
<1>4. /\ NoCheckpoint(d) /\ Grown(Content, d)
      /\ After(file.rows, newAt) /\ After(file.ckpt, newAt) => After(d.rows, newAt)
      /\ Adjacent(file.rows) => Adjacent(d.rows)
      /\ (EndsWithUser(Content.rows) => Content.pending \/ ~NoCheckpoint(Content)) => ~EndsWithUser(d.rows)
  BY <1>1, <1>2, <1>3, RestoredFits
<1>5. /\ heap' = [heap EXCEPT ![Obtained] = d] /\ cache' = Obtained
      /\ file' = d \/ (file' = file /\ d = Content)
  BY <1>3, SaveIfChangedIs DEF Begin
<1>6. file'.rows = d.rows /\ file'.ckpt = d.ckpt /\ file'.mark = d.mark
  BY <1>2, <1>5
<1>7. Adjacent(d.rows) /\ ~EndsWithUser(d.rows)
  BY <1>4 DEF Calm, Answered, Lasts
<1>8. Grown(file, file')
  BY <1>2, <1>4, <1>6, GrownAlike
<1>9. /\ pc' = "building" /\ sess' = Obtained /\ work' = work /\ newAt' = newAt
      /\ archived' = archived /\ snapshot' = snapshot /\ lost' = lost
  BY DEF Begin
<1>10. "idle" \notin ToSet(lockQ')
  BY <1>9 DEF Races
<1>11. Consolidating' => Consolidating /\ work' = work
  <2>1. "build" \in JobNames /\ "build" \notin ToSet(lockQ) /\ lockQ' = Append(lockQ, "build")
    BY DEF Begin, Base, Lock, JobNames
  <2> QED BY <2>1, <1>9, AppendKeeps DEF Base
<1>12. HeldIsCached' /\ MarkInside' /\ Covered' /\ ChunkCovers' /\ KeepCovers'
  BY <1>2, <1>5, <1>8, <1>9, <1>10, <1>11, GrowCalm
<1>13. Alone'
  <2>1. turns' > newAt'
    <3>1. turns' = turns + 1 /\ turns \in Nat
      BY <1>1 DEF Begin
    <3> QED BY <3>1, <1>1, <1>9
  <2>2. sess' = cache' /\ "idle" \notin ToSet(lockQ')
    BY <1>5, <1>9, <1>10
  <2> QED BY <2>1, <2>2 DEF Alone
<1>14. Answered'
  BY <1>6, <1>7, NextContent DEF Answered, Lasts
<1>15. Fresh'
  <2>1. After(d.ckpt, newAt)
    BY <1>4 DEF NoCheckpoint, After
  <2> QED BY <2>1, <1>4, <1>6, <1>9 DEF Calm, Fresh
<1> QED BY <1>12, <1>13, <1>14, <1>15 DEF Calm

\* A command leaves a reply last, never a message of the user.
LEMMA CommandCalm ==
  ASSUME Base, Base', Calm, ~Races, Command, known' = known \cup ToSet(file'.rows)
  PROVE  Calm'
<1>1. /\ turns \in 0 .. MaxTurns /\ newAt \in Nat /\ newAt <= turns
      /\ turns' > newAt /\ turns' # turns /\ turns' \in 1 .. MaxTurns /\ turns' - 1 = turns
  <2>1. turns \in 0 .. MaxTurns /\ newAt \in 0 .. turns /\ MaxTurns \in Nat
    BY ConstantsAssumption DEF Base, Types
  <2>2. turns' = turns + 1 /\ turns < MaxTurns
    BY DEF Command
  <2> QED BY <2>1, <2>2
<1>2. /\ Content.rows = file.rows /\ Content.ckpt = file.ckpt /\ Content.mark = file.mark
      /\ Content \in Contents /\ Fits(Content, turns, Own)
      /\ cache # NoObject => Obtained = cache
      /\ cache = NoObject => Obtained # work.obj
  BY CalmContent, ContentFacts DEF Base, Calm
<1>3. PICK c : c = Restored(Content)
  OBVIOUS
<1>4. /\ Fits(c, turns, "any") /\ NoCheckpoint(c) /\ Grown(Content, c)
      /\ After(file.rows, newAt) /\ After(file.ckpt, newAt) => After(c.rows, newAt)
      /\ Adjacent(file.rows) => Adjacent(c.rows)
      /\ (EndsWithUser(Content.rows) => Content.pending \/ ~NoCheckpoint(Content)) => ~EndsWithUser(c.rows)
  BY <1>1, <1>2, <1>3, RestoredFits
<1>5. PICK n \in 1 .. MaxTurns : n = turns'
  BY <1>1
<1>6. PICK d : d = [c EXCEPT !.rows = @ \o <<Row(n, "command", 0), Row(n, "reply", 0)>>]
  OBVIOUS
<1>7. file' = [d EXCEPT !.pending = TRUE] /\ heap' = [heap EXCEPT ![Obtained] = d] /\ cache' = Obtained
  BY <1>3, <1>5, <1>6 DEF Command
<1>8. /\ Fits(d, n, "any") /\ NoCheckpoint(d) /\ Grown(c, d) /\ ~EndsWithUser(d.rows)
      /\ StaysAfter(c, d, n)
      /\ Alternates(c, d)
  <2>1. Fits(c, n - 1, "any")
    BY <1>1, <1>4, <1>5
  <2>2. NoCheckpoint(c)
    BY <1>4
  <2>3. Fits(d, n, "any") /\ NoCheckpoint(d) /\ Grown(c, d) /\ ~EndsWithUser(d.rows)
    BY <1>6, <2>1, <2>2, CommandFits, ZenonT(40)
  <2>4. StaysAfter(c, d, n)
    BY <1>6, <2>1, <2>2, CommandFits, ZenonT(40)
  <2>5. Alternates(c, d)
    BY <1>6, <2>1, <2>2, CommandFits, ZenonT(40)
  <2> QED BY <2>3, <2>4, <2>5
<1>9. Adjacent(d.rows)
  BY <1>4, <1>8 DEF Calm, Answered, Lasts, Alternates
<1>10. file'.rows = d.rows /\ file'.ckpt = d.ckpt /\ file'.mark = d.mark
  BY <1>7, <1>8, PendingSet
<1>11. Grown(file, file')
  <2>1. c \in Contents /\ d \in Contents
    BY <1>4, <1>8 DEF Fits
  <2>2. Grown(Content, d)
    BY <2>1, <1>2, <1>4, <1>8, GrownTwice
  <2> QED BY <2>2, <1>2, <1>10, GrownAlike
<1>12. /\ pc' = pc /\ sess' = sess /\ pc = "idle" /\ lockQ' = lockQ /\ work' = work /\ newAt' = newAt
       /\ archived' = archived /\ snapshot' = snapshot /\ lost' = lost
  BY DEF Command, jobVars
<1>13. "idle" \notin ToSet(lockQ')
  BY <1>1 DEF Races
<1>14. Consolidating' => Consolidating /\ work' = work
  BY <1>12 DEF Consolidating
<1>15. HeldIsCached' /\ MarkInside' /\ Covered' /\ ChunkCovers' /\ KeepCovers'
  BY <1>2, <1>7, <1>11, <1>12, <1>13, <1>14, GrowCalm
<1>16. Alone'
  BY <1>12 DEF Alone
<1>17. Answered'
  BY <1>8, <1>9, <1>10, NextContent DEF Answered, Lasts
<1>18. Fresh'
  <2>1. After(d.ckpt, newAt)
    BY <1>8 DEF NoCheckpoint, After
  <2>2. After(d.rows, newAt)
    BY <1>1, <1>4, <1>5, <1>8 DEF Calm, Fresh, StaysAfter
  <2> QED BY <2>1, <2>2, <1>10, <1>12 DEF Fresh
<1> QED BY <1>15, <1>16, <1>17, <1>18 DEF Calm

\* What a turn in progress writes.
LEMMA WriteCalm ==
  ASSUME Base, Base', Calm, ~Races, known' = known \cup ToSet(file'.rows),
         pc # "idle", lockQ' = lockQ \/ lockQ' = Append(lockQ, "after"), "after" \notin ToSet(lockQ), ~Consolidating,
         work' = work, turns' = turns, newAt' = newAt,
         archived' = archived, snapshot' = snapshot, lost' = lost,
         NEW c, file' = c, heap' = [heap EXCEPT ![sess] = c], cache' = sess,
         Grown(heap[sess], c),
         After(c.rows, newAt), After(c.ckpt, newAt), Adjacent(c.rows), Lasts(c),
         pc' \notin {"building", "built"}, pc' # "idle" => sess' = sess
  PROVE  Calm'
<1>1. /\ sess = cache /\ "idle" \notin ToSet(lockQ) /\ turns > newAt
      /\ sess \in Objects /\ cache # NoObject
  BY ConstantsAssumption DEF Calm, Alone, Base, Types, Lock
<1>2. Content.rows = file.rows /\ Content.mark = file.mark /\ Content = heap[sess]
  BY <1>1, CalmContent DEF Calm
<1>3. Grown(file, file')
  BY <1>2, GrownAlike
<1>4. "idle" \notin ToSet(lockQ')
  <2>1. CASE lockQ' = lockQ
    BY <2>1, <1>1
  <2>2. CASE lockQ' = Append(lockQ, "after")
    <3>1. "after" \in JobNames
      BY DEF JobNames
    <3>2. ToSet(lockQ') = ToSet(lockQ) \cup {"after"}
      BY <2>2, <3>1, AppendKeeps DEF Base
    <3> QED BY <3>2, <1>1
  <2> QED BY <2>1, <2>2
<1>5. ~Consolidating'
  <2>1. CASE lockQ' = lockQ
    BY <2>1 DEF Consolidating
  <2>2. CASE lockQ' = Append(lockQ, "after")
    <3>1. "after" \in JobNames
      BY DEF JobNames
    <3> QED BY <2>2, <3>1, AppendKeeps DEF Base
  <2> QED BY <2>1, <2>2
<1>6. HeldIsCached' /\ MarkInside' /\ Covered' /\ ChunkCovers' /\ KeepCovers'
  BY <1>1, <1>3, <1>4, <1>5, GrowCalm
<1>7. Alone'
  BY <1>1, <1>4 DEF Alone
<1>8. Content' = c
  BY <1>1 DEF Content, Base, Types
<1>9. Answered' /\ Fresh'
  BY <1>8 DEF Answered, Fresh
<1> QED BY <1>6, <1>7, <1>9 DEF Calm

\* What the object of the turn in progress contains.
LEMMA TurnContent ==
  ASSUME Base, Calm, pc # "idle"
  PROVE  /\ sess \in Objects /\ sess = cache /\ heap[sess] \in Contents /\ Content = heap[sess]
         /\ heap[sess].rows = file.rows /\ heap[sess].ckpt = file.ckpt
         /\ Fits(heap[sess], turns, Own)
         /\ turns \in 1 .. MaxTurns /\ newAt \in Nat /\ turns > newAt
         /\ Adjacent(heap[sess].rows) /\ Lasts(heap[sess])
         /\ After(heap[sess].rows, newAt) /\ After(heap[sess].ckpt, newAt)
<1>1. sess \in Objects /\ sess = cache /\ cache # NoObject /\ turns > newAt
  BY ConstantsAssumption DEF Base, Types, Lock, Calm, Alone
<1>2. Content = heap[sess] /\ Content \in Contents /\ Content.rows = file.rows /\ Content.ckpt = file.ckpt
  BY <1>1, CalmContent DEF Calm
<1>3. turns \in 1 .. MaxTurns
  BY DEF Base, Produced
<1>4. newAt \in Nat
  BY <1>3 DEF Base, Types
<1>5. Fits(heap[sess], turns, Own)
  BY <1>1 DEF Base, Stored
<1>6. Adjacent(heap[sess].rows) /\ Lasts(heap[sess])
  BY <1>2 DEF Calm, Answered
<1>7. After(heap[sess].rows, newAt) /\ After(heap[sess].ckpt, newAt)
  BY <1>2 DEF Calm, Fresh
<1> QED BY <1>1, <1>2, <1>3, <1>4, <1>5, <1>6, <1>7

\* The user's message is saved.
LEMMA PersistCalm ==
  ASSUME Base, Base', Calm, ~Races, Persist, known' = known \cup ToSet(file'.rows)
  PROVE  Calm'
<1>1. PICK n : n = turns
  OBVIOUS
<1>2. PICK b : b = heap[sess]
  OBVIOUS
<1>3. PICK c : c = [b EXCEPT !.rows = Append(@, Row(n, "user", 0)), !.pending = TRUE]
  OBVIOUS
<1>4. /\ pc = "built" /\ pc' = "model" /\ sess' = sess /\ turns' = turns /\ lockQ' = lockQ /\ work' = work
      /\ newAt' = newAt /\ archived' = archived /\ snapshot' = snapshot /\ lost' = lost
      /\ file' = c /\ heap' = [heap EXCEPT ![sess] = c] /\ cache' = sess
  BY <1>1, <1>2, <1>3 DEF Persist, Save, jobVars
<1>5. /\ b.rows = file.rows /\ n \in 1 .. MaxTurns /\ newAt \in Nat /\ n > newAt
      /\ Adjacent(b.rows) /\ After(b.rows, newAt) /\ After(b.ckpt, newAt)
      /\ Fits(b, n, "none")
  BY <1>1, <1>2, <1>4, TurnContent DEF Own
<1>6. /\ c.ckpt = b.ckpt /\ c.pending = TRUE /\ Grown(b, c) /\ Alternates(b, c)
      /\ StaysAfter(b, c, n)
  <2>1. Fits(b, n, "none") /\ n \in 1 .. MaxTurns
    BY <1>5
  <2>2. c.ckpt = b.ckpt /\ c.pending = TRUE
    <3>1. b \in Contents
      BY <2>1 DEF Fits
    <3> QED BY <1>3, <3>1 DEF Contents
  <2>3. Grown(b, c) /\ Alternates(b, c)
    BY <2>1, <1>3, MessageFits, ZenonT(40)
  <2>4. StaysAfter(b, c, n)
    BY <2>1, <1>3, MessageFits, ZenonT(40)
  <2> QED BY <2>2, <2>3, <2>4
<1>7. ~EndsWithUser(b.rows)
  BY <1>4, <1>5 DEF Calm, Answered
<1>8. After(c.rows, newAt) /\ After(c.ckpt, newAt) /\ Adjacent(c.rows) /\ Lasts(c)
  BY <1>5, <1>6, <1>7 DEF Alternates, StaysAfter, Lasts
<1>9. "after" \notin ToSet(lockQ) /\ ~Consolidating
  BY <1>4, NoRound DEF Base
<1>10. Grown(heap[sess], c) /\ pc # "idle" /\ pc' \notin {"building", "built"} /\ (pc' # "idle" => sess' = sess)
  BY <1>2, <1>4, <1>6
<1> QED BY <1>4, <1>8, <1>9, <1>10, WriteCalm

\* The checkpoint is set.
LEMMA CheckpointCalm ==
  ASSUME Base, Base', Calm, ~Races, known' = known \cup ToSet(file'.rows),
         pc \in {"model", "tools"}, pc' \in {"model", "tools", "closing"},
         sess' = sess, turns' = turns, lockQ' = lockQ, work' = work, newAt' = newAt,
         archived' = archived, snapshot' = snapshot, lost' = lost,
         NEW x, OfTurn(x, turns), x # <<>>, Checkpoint(x)
  PROVE  Calm'
<1>1. x \in Checkpoints(turns) /\ \A k \in 1 .. Len(x) : TurnOf(x[k]) = turns
  BY DEF OfTurn
<1>2. PICK b : b = heap[sess]
  OBVIOUS
<1>3. PICK c : c = [b EXCEPT !.ckpt = x]
  OBVIOUS
<1>4. file' = c /\ heap' = [heap EXCEPT ![sess] = c] /\ cache' = sess
  BY <1>2, <1>3 DEF Checkpoint, Save
<1>5. /\ b.rows = file.rows /\ turns \in 1 .. MaxTurns /\ newAt \in Nat /\ turns > newAt /\ b \in Contents
      /\ Adjacent(b.rows) /\ After(b.rows, newAt) /\ Fits(b, turns, "user")
  BY <1>2, TurnContent DEF Own
<1>6. c.rows = b.rows /\ Grown(b, c)
  BY <1>1, <1>3, <1>5, CheckpointFits
<1>7. c.ckpt = x
  BY <1>3, <1>5 DEF Contents
<1>8. After(c.rows, newAt) /\ After(c.ckpt, newAt) /\ Adjacent(c.rows) /\ Lasts(c)
  BY <1>1, <1>5, <1>6, <1>7 DEF After, Lasts, NoCheckpoint
<1>9. "after" \notin ToSet(lockQ) /\ ~Consolidating
  BY NoRound DEF Base
<1>10. Grown(heap[sess], c) /\ pc # "idle" /\ pc' \notin {"building", "built"} /\ (pc' # "idle" => sess' = sess)
  BY <1>2, <1>6
<1> QED BY <1>4, <1>8, <1>9, <1>10, WriteCalm

\* Nothing is written, and no row is forgotten.
LEMMA UnwrittenCalm ==
  ASSUME Base, Calm, file' = file, heap' = heap, cache' = cache, newAt' = newAt,
         known' = known \cup ToSet(file'.rows),
         archived \cup snapshot \cup lost \subseteq archived' \cup snapshot' \cup lost',
         pc' \in {"building", "built"} => pc \in {"building", "built"},
         Alone',
         Consolidating' => Consolidating /\ work' = work,
         Compacting' => Compacting /\ work' = work
  PROVE  Calm'
<1>1. Content' = Content
  BY DEF Content
<1>2. HeldIsCached' /\ MarkInside'
  <2>1. work'.obj # NoObject => work' = work
    BY DEF Consolidating, Compacting
  <2> QED BY <2>1 DEF Calm, HeldIsCached, MarkInside
<1>3. Answered' /\ Fresh'
  BY <1>1 DEF Calm, Answered, Fresh
<1>4. Covered'
  <2>1. TailRows(file') = TailRows(file)
    BY DEF TailRows
  <2> QED BY <2>1 DEF Calm, Covered
<1>5. ChunkCovers' /\ KeepCovers'
  BY DEF Calm, ChunkCovers, KeepCovers, TailRows
<1> QED BY <1>2, <1>3, <1>4, <1>5 DEF Calm

\* Calls and their results are in the checkpoint.
LEMMA CallToolsCalm ==
  ASSUME Base, Base', Calm, ~Races, CallTools, known' = known \cup ToSet(file'.rows)
  PROVE  Calm'
<1>1. PICK i : i = iter'
  OBVIOUS
<1>2. PICK x : x = <<Row(turns, "call", i), Row(turns, "cut", i)>>
  OBVIOUS
<1>3. i \in 1 .. MaxIter /\ turns \in 1 .. MaxTurns
  <2>1. MaxIter \in Nat /\ iter \in 0 .. MaxIter
    BY ConstantsAssumption DEF Base, Types
  <2>2. i = iter + 1 /\ iter < MaxIter /\ pc # "idle"
    BY <1>1 DEF CallTools
  <2> QED BY <2>1, <2>2 DEF Base, Produced
<1>4. OfTurn(x, turns) /\ x # <<>>
  BY <1>2, <1>3, CheckpointsOfTurn
<1>5. /\ pc = "model" /\ pc' = "tools" /\ sess' = sess /\ turns' = turns /\ lockQ' = lockQ /\ work' = work
      /\ newAt' = newAt /\ archived' = archived /\ snapshot' = snapshot /\ lost' = lost
      /\ Checkpoint(x)
  BY <1>1, <1>2 DEF CallTools, jobVars
<1> QED BY <1>4, <1>5, CheckpointCalm

\* Results replace the notices that the tools were cut.
LEMMA ToolsDoneCalm ==
  ASSUME Base, Base', Calm, ~Races, ToolsDone, known' = known \cup ToSet(file'.rows)
  PROVE  Calm'
<1>1. PICK x : x = <<Row(turns, "call", iter), Row(turns, "result", iter)>>
  OBVIOUS
<1>2. iter \in 1 .. MaxIter /\ turns \in 1 .. MaxTurns
  BY DEF ToolsDone, Base, Produced
<1>3. OfTurn(x, turns) /\ x # <<>>
  BY <1>1, <1>2, CheckpointsOfTurn
<1>4. /\ pc = "tools" /\ pc' = "model" /\ sess' = sess /\ turns' = turns /\ lockQ' = lockQ /\ work' = work
      /\ newAt' = newAt /\ archived' = archived /\ snapshot' = snapshot /\ lost' = lost
      /\ Checkpoint(x)
  BY <1>1 DEF ToolsDone, jobVars
<1> QED BY <1>3, <1>4, CheckpointCalm

\* So is the answer, or it is not saved yet.
LEMMA AnswerCalm ==
  ASSUME Base, Base', Calm, ~Races, Answer, known' = known \cup ToSet(file'.rows)
  PROVE  Calm'
<1>1. PICK x : x = <<Row(turns, "answer", 0)>>
  OBVIOUS
<1>2. turns \in 1 .. MaxTurns
  BY DEF Answer, Base, Produced
<1>3. OfTurn(x, turns) /\ x # <<>>
  BY <1>1, <1>2, CheckpointsOfTurn
<1>4. /\ pc = "model" /\ pc' = "closing" /\ sess' = sess /\ turns' = turns /\ lockQ' = lockQ /\ work' = work
      /\ newAt' = newAt /\ archived' = archived /\ snapshot' = snapshot /\ lost' = lost
      /\ Checkpoint(x) \/ (file' = file /\ heap' = heap /\ cache' = cache)
  BY <1>1 DEF Answer, jobVars
<1>5. CASE Checkpoint(x)
  BY <1>3, <1>4, <1>5, CheckpointCalm
<1>6. CASE file' = file /\ heap' = heap /\ cache' = cache
  <2>1. Alone'
    BY <1>4, <1>6 DEF Calm, Alone
  <2>2. /\ Consolidating' => Consolidating /\ work' = work
        /\ Compacting' => Compacting /\ work' = work
    BY <1>4 DEF Consolidating, Compacting
  <2> QED BY <1>4, <1>6, <2>1, <2>2, UnwrittenCalm
<1> QED BY <1>4, <1>5, <1>6

\* The rows of the turn are saved behind its message.
LEMMA SaveTurnCalm ==
  ASSUME Base, Base', Calm, ~Races, SaveTurn, known' = known \cup ToSet(file'.rows)
  PROVE  Calm'
<1>1. PICK b : b = heap[sess]
  OBVIOUS
<1>2. PICK x : x = produced
  OBVIOUS
<1>3. PICK c : c = [b EXCEPT !.rows = @ \o x, !.pending = FALSE, !.ckpt = <<>>]
  OBVIOUS
<1>4. /\ pc = "closing" /\ pc' = "idle" /\ turns' = turns /\ work' = work
      /\ newAt' = newAt /\ archived' = archived /\ snapshot' = snapshot /\ lost' = lost
      /\ file' = c /\ heap' = [heap EXCEPT ![sess] = c] /\ cache' = sess
      /\ lockQ' = Append(lockQ, "after")
  BY <1>1, <1>2, <1>3 DEF SaveTurn, Save
<1>5. /\ turns \in 1 .. MaxTurns /\ newAt \in Nat /\ turns > newAt /\ b \in Contents
      /\ Adjacent(b.rows) /\ After(b.rows, newAt) /\ Fits(b, turns, "user")
  BY <1>1, <1>4, TurnContent DEF Own
<1>6. Results(x, turns) /\ x # <<>>
  BY <1>2, <1>4 DEF Base, Types, Produced, Results
<1>7. Grown(b, c) /\ NoCheckpoint(c)
  BY <1>3, <1>5, <1>6, ResultsFit, ZenonT(40)
<1>8. After(c.rows, newAt) /\ Adjacent(c.rows) /\ ~EndsWithUser(c.rows)
  <2>1. PICK n \in 1 .. MaxTurns : n = turns
    BY <1>5
  <2>2. Fits(b, n, "user") /\ Results(x, n)
    BY <2>1, <1>5, <1>6
  <2>3. StaysAfter(b, c, n)
    BY <2>2, <1>3, ResultsFit, ZenonT(40)
  <2>4. Settles(b, c, x)
    BY <2>2, <1>3, ResultsFit, ZenonT(40)
  <2> QED BY <2>1, <2>3, <2>4, <1>5, <1>6 DEF Settles, StaysAfter
<1>9. After(c.rows, newAt) /\ After(c.ckpt, newAt) /\ Adjacent(c.rows) /\ Lasts(c)
  <2>1. After(c.ckpt, newAt)
    BY <1>7 DEF NoCheckpoint, After
  <2> QED BY <2>1, <1>8 DEF Lasts
<1>10. "after" \notin ToSet(lockQ) /\ ~Consolidating
  BY <1>4, NoRound DEF Base
<1>11. Grown(heap[sess], c) /\ pc # "idle" /\ pc' \notin {"building", "built"} /\ (pc' # "idle" => sess' = sess)
  BY <1>1, <1>4, <1>7
<1> QED BY <1>4, <1>9, <1>10, <1>11, WriteCalm

\* A turn that failed leaves all as it is.
LEMMA FailCalm ==
  ASSUME Base, Base', Calm, ~Races, Fail, known' = known \cup ToSet(file'.rows)
  PROVE  Calm'
<1>1. /\ LeaveLock /\ pc' = "idle" /\ sess' = NoObject /\ file' = file /\ heap' = heap /\ cache' = cache
      /\ newAt' = newAt /\ archived' = archived /\ snapshot' = snapshot /\ lost' = lost
  BY DEF Fail, EndTurn
<1>2. /\ Consolidating' => Consolidating /\ work' = work
      /\ Compacting' => Compacting /\ work' = work
  BY <1>1, LeaveKeeps DEF Base
<1>3. Alone'
  BY <1>1 DEF Alone
<1> QED BY <1>1, <1>2, <1>3, UnwrittenCalm

\* /stop leaves no message of the user last that has no flag.
LEMMA StopCalm ==
  ASSUME Base, Base', Calm, ~Races, Stop, known' = known \cup ToSet(file'.rows)
  PROVE  Calm'
<1>1. /\ LeaveLock /\ pc # "idle" /\ pc' = "idle" /\ sess' = NoObject
      /\ newAt' = newAt /\ archived' = archived /\ snapshot' = snapshot /\ lost' = lost
  BY DEF Stop, EndTurn
<1>2. PICK b : b = Content
  OBVIOUS
<1>3. /\ b.rows = file.rows /\ b.ckpt = file.ckpt /\ b.mark = file.mark
      /\ b \in Contents /\ Fits(b, turns, Own) /\ turns \in 0 .. MaxTurns /\ newAt \in Nat
      /\ cache # NoObject => Obtained = cache
      /\ "idle" \notin ToSet(lockQ)
      /\ Adjacent(b.rows) /\ Lasts(b) /\ After(b.rows, newAt) /\ After(b.ckpt, newAt)
  <2>1. turns \in 0 .. MaxTurns /\ newAt \in Nat
    BY DEF Base, Types
  <2>2. Adjacent(b.rows) /\ Lasts(b) /\ After(b.rows, newAt) /\ After(b.ckpt, newAt)
    BY <1>2, CalmContent DEF Calm, Answered, Fresh
  <2> QED BY <2>1, <2>2, <1>1, <1>2, CalmContent, ContentFacts DEF Base, Calm, Alone
<1>4. PICK d : d = RestoreCheckpoint(b)
  OBVIOUS
<1>5. /\ Fits(d, turns, "any") /\ NoCheckpoint(d) /\ Grown(b, d)
      /\ After(d.rows, newAt) /\ Adjacent(d.rows)
      /\ EndsWithUser(d.rows) => NoCheckpoint(b) /\ EndsWithUser(b.rows)
      /\ NoCheckpoint(b) => d = b
  BY <1>3, <1>4, RestoreFits
<1>6. /\ heap' = [heap EXCEPT ![Obtained] = d] /\ cache' = Obtained
      /\ file' = d \/ (file' = file /\ d = b)
  BY <1>2, <1>4, SaveIfChangedIs DEF Stop
<1>7. file'.rows = d.rows /\ file'.ckpt = d.ckpt /\ file'.mark = d.mark
  BY <1>3, <1>6
<1>8. Grown(file, file')
  BY <1>3, <1>5, <1>7, GrownAlike
<1>9. /\ ToSet(lockQ') \subseteq ToSet(lockQ)
      /\ Consolidating' => Consolidating /\ work' = work
  BY <1>1, LeaveKeeps DEF Base
<1>10. HeldIsCached' /\ MarkInside' /\ Covered' /\ ChunkCovers' /\ KeepCovers'
  BY <1>1, <1>3, <1>6, <1>8, <1>9, GrowCalm
<1>11. Alone'
  BY <1>1 DEF Alone
<1>12. Fresh'
  <2>1. After(d.ckpt, newAt)
    BY <1>5 DEF NoCheckpoint, After
  <2> QED BY <2>1, <1>1, <1>5, <1>7 DEF Fresh
<1>13. Answered'
  <2>1. Content' = d
    <3>1. cache' # NoObject /\ heap'[cache'] = d
      BY <1>6, ContentFacts, ConstantsAssumption DEF Base, Types
    <3> QED BY <3>1 DEF Content
  <2>2. EndsWithUser(d.rows) => d.pending
    BY <1>3, <1>5 DEF Lasts
  <2>3. EndsWithUser(d.rows) => file'.pending
    <3>1. CASE file' = d
      BY <3>1, <2>2
    <3>2. CASE file' = file /\ d = b
      BY <3>2, <1>3, <1>5 DEF Calm, Answered, Lasts, NoCheckpoint
    <3> QED BY <3>1, <3>2, <1>6
  <2> QED BY <2>1, <2>2, <2>3, <1>1, <1>5, <1>7 DEF Answered, Lasts
<1> QED BY <1>10, <1>11, <1>12, <1>13 DEF Calm

\* /new, when nothing else works on the session.
LEMMA RenewCalm ==
  ASSUME Base, Calm, NEW c, c \in Contents, Grown(Content, c), NoCheckpoint(c), Renew(c),
         pc' = "idle", work'.obj = NoObject, known' = known \cup ToSet(file'.rows)
  PROVE  Calm'
<1>1. PICK d : d = [c EXCEPT !.rows = <<>>, !.mark = 0]
  OBVIOUS
<1>2. /\ file' = d /\ cache' = NoObject /\ archived' = archived /\ lost' = lost
      /\ snapshot' = snapshot \cup ToSet(SubSeq(c.rows, c.mark + 1, Len(c.rows)))
  BY <1>1 DEF Renew
<1>3. d.rows = <<>> /\ d.mark = 0 /\ NoCheckpoint(d)
  <2>1. PICK r : r = <<>>
    OBVIOUS
  <2>2. d.rows = r /\ d.ckpt = c.ckpt /\ d.mark = 0
    BY <1>1, <2>1 DEF Contents
  <2> QED BY <2>1, <2>2 DEF NoCheckpoint
<1>4. /\ ToSet(d.rows) = {} /\ TailRows(d) = {} /\ Len(d.rows) = 0 /\ Adjacent(d.rows) /\ ~EndsWithUser(d.rows)
      /\ \A a : After(d.rows, a) /\ After(d.ckpt, a)
  BY <1>3 DEF ToSet, TailRows, Adjacent, EndsWithUser, After, NoCheckpoint
<1>5. Content' = d
  <2>1. Loaded(d) = d
    BY <1>3, <1>4 DEF Loaded
  <2> QED BY <2>1, <1>2 DEF Content
<1>6. TailRows(file) \subseteq snapshot'
  <2>1. /\ Content \in Contents /\ Content.mark <= Len(Content.rows) /\ TailRows(Content) = TailRows(file)
    BY CalmContent DEF Calm, MarkInside, TailRows
  <2>2. TailRows(Content) \subseteq TailRows(c)
    BY <2>1, TailGrows
  <2>3. ToSet(SubSeq(c.rows, c.mark + 1, Len(c.rows))) = TailRows(c)
    BY TailRowsAre
  <2> QED BY <2>1, <2>2, <2>3, <1>2
<1>7. Covered'
  <2>1. known' = known
    BY <1>2, <1>4
  <2> QED BY <2>1, <1>2, <1>4, <1>6 DEF Calm, Covered
<1>8. Alone' /\ HeldIsCached' /\ MarkInside'
  BY <1>2, <1>3, <1>4 DEF Alone, HeldIsCached, MarkInside
<1>9. Answered' /\ Fresh'
  BY <1>2, <1>4, <1>5 DEF Answered, Lasts, Fresh
<1>10. ChunkCovers' /\ KeepCovers'
  BY DEF ChunkCovers, KeepCovers, Consolidating, Compacting
<1> QED BY <1>7, <1>8, <1>9, <1>10 DEF Calm

\* It comes when the lock is free, or it is a race.
LEMMA NewConversationCalm ==
  ASSUME Base, Base', Calm, ~Races, NewConversation, known' = known \cup ToSet(file'.rows)
  PROVE  Calm'
<1>1. news' # news
  <2>1. news \in Nat
    BY DEF Base, Types
  <2> QED BY <2>1 DEF NewConversation, Renew
<1>2. lockQ = <<>>
  BY <1>1 DEF Races
<1>3. work.obj = NoObject
  BY <1>2 DEF Base, Lock
<1>4. turns \in 0 .. MaxTurns /\ Fits(Content, turns, Own)
  BY ContentFacts DEF Base, Types
<1>5. CASE pc = "idle" /\ Renew(Restored(Content)) /\ UNCHANGED <<turnVars, jobVars, faults>>
  <2>1. PICK c : c = Restored(Content)
    OBVIOUS
  <2>2. Fits(c, turns, "any") /\ NoCheckpoint(c) /\ Grown(Content, c)
    BY <2>1, <1>4, RestoredFits
  <2>3. c \in Contents /\ Renew(c)
    BY <2>1, <2>2, <1>5 DEF Fits
  <2>4. pc' = "idle" /\ work'.obj = NoObject
    BY <1>3, <1>5 DEF turnVars, jobVars
  <2> QED BY <2>2, <2>3, <2>4, RenewCalm
<1>6. CASE pc # "idle" /\ Renew(RestoreCheckpoint(Content)) /\ EndTurn /\ LeaveLock
  <2>1. PICK c : c = RestoreCheckpoint(Content)
    OBVIOUS
  <2>2. Fits(c, turns, "any") /\ NoCheckpoint(c) /\ Grown(Content, c)
    BY <2>1, <1>4, RestoreFits
  <2>3. c \in Contents /\ Renew(c)
    BY <2>1, <2>2, <1>6 DEF Fits
  <2>4. pc' = "idle" /\ work'.obj = NoObject
    BY <1>2, <1>3, <1>6 DEF EndTurn, LeaveLock
  <2> QED BY <2>2, <2>3, <2>4, RenewCalm
<1> QED BY <1>5, <1>6 DEF NewConversation

-----------------------------------------------------------------------------
(* The steps of jobs, and a crash.                                           *)

\* The snapshot is in history.jsonl.
LEMMA ArchiveSnapshotCalm ==
  ASSUME Base, Base', Calm, ~Races, ArchiveSnapshot, known' = known \cup ToSet(file'.rows)
  PROVE  Calm'
<1>1. /\ file' = file /\ heap' = heap /\ cache' = cache /\ newAt' = newAt /\ lost' = lost
      /\ pc' = pc /\ sess' = sess /\ turns' = turns /\ lockQ' = lockQ /\ work' = work
      /\ archived' = archived \cup snapshot
  BY DEF ArchiveSnapshot, turnVars, jobVars
<1>2. Alone'
  BY <1>1 DEF Calm, Alone
<1>3. /\ Consolidating' => Consolidating /\ work' = work
      /\ Compacting' => Compacting /\ work' = work
  BY <1>1 DEF Consolidating, Compacting
<1> QED BY <1>1, <1>2, <1>3, UnwrittenCalm

\* What a crash takes from the snapshot is lost, and counted.
LEMMA CrashCalm ==
  ASSUME Base, Base', Calm, ~Races, Crash, known' = known \cup ToSet(file'.rows)
  PROVE  Calm'
<1>1. /\ file' = file /\ cache' = NoObject /\ newAt' = newAt /\ archived' = archived
      /\ lost' = lost \cup snapshot /\ pc' = "idle" /\ work' = NoWork
  BY DEF Crash, EndTurn
<1>2. Content' = file
  <2>1. Fits(file, turns, Own) /\ file.mark <= Len(file.rows)
    BY DEF Base, Stored, Calm, MarkInside
  <2>2. Loaded(file) = file
    BY <2>1, LoadedFits
  <2> QED BY <2>2, <1>1 DEF Content
<1>3. work'.obj = NoObject
  BY <1>1, NoWorkFacts
<1>4. Alone' /\ HeldIsCached' /\ MarkInside' /\ Fresh'
  BY <1>1, <1>3 DEF Calm, Alone, HeldIsCached, MarkInside, Fresh
<1>5. Answered'
  BY <1>1, <1>2 DEF Calm, Answered
<1>6. Covered'
  <2>1. TailRows(file') = TailRows(file)
    BY <1>1 DEF TailRows
  <2> QED BY <2>1, <1>1 DEF Calm, Covered
<1>7. ChunkCovers' /\ KeepCovers'
  BY <1>3 DEF ChunkCovers, KeepCovers, Consolidating, Compacting
<1> QED BY <1>4, <1>5, <1>6, <1>7 DEF Calm

\* A look at the session changes nothing in it.
LEMMA LookCalm ==
  ASSUME Base, Calm, file' = file, newAt' = newAt, known' = known \cup ToSet(file'.rows),
         archived' = archived, snapshot' = snapshot, lost' = lost,
         heap' = [heap EXCEPT ![Obtained] = Content], cache' = Obtained,
         pc' \in {"building", "built"} => pc \in {"building", "built"}
  PROVE  MarkInside' /\ Answered' /\ Fresh' /\ Covered'
<1>1. Content' = Content
  <2>1. Obtained \in Objects /\ Obtained # NoObject
    BY ContentFacts, ConstantsAssumption DEF Base
  <2>2. heap'[Obtained] = Content
    BY <2>1 DEF Base, Types
  <2> QED BY <2>1, <2>2 DEF Content
<1>2. TailRows(file') = TailRows(file)
  BY DEF TailRows
<1> QED BY <1>1, <1>2 DEF Calm, MarkInside, Answered, Fresh, Covered

\* An idle tick comes when no turn is in progress, or it is a race.
LEMMA IdleTickCalm ==
  ASSUME Base, Base', Calm, ~Races, IdleTick, known' = known \cup ToSet(file'.rows)
  PROVE  Calm'
<1>1. /\ file' = file /\ newAt' = newAt /\ archived' = archived /\ snapshot' = snapshot /\ lost' = lost
      /\ heap' = [heap EXCEPT ![Obtained] = Content] /\ cache' = Obtained
      /\ pc' = pc /\ work' = work /\ lockQ' = Append(lockQ, "idle")
  BY DEF IdleTick, turnVars
<1>2. "idle" \in JobNames /\ "idle" \notin ToSet(lockQ)
  BY DEF IdleTick, JobNames
<1>3. /\ ToSet(lockQ') = ToSet(lockQ) \cup {"idle"}
      /\ Consolidating' => Consolidating
      /\ Compacting' => Compacting
  BY <1>1, <1>2, AppendKeeps DEF Base
<1>4. pc' = "idle"
  BY <1>3 DEF Races
<1>5. MarkInside' /\ Answered' /\ Fresh' /\ Covered'
  BY <1>1, LookCalm
<1>6. HeldIsCached'
  <2>1. cache # NoObject => Obtained = cache
    BY ContentFacts DEF Base
  <2> QED BY <2>1, <1>1 DEF Calm, HeldIsCached
<1>7. Alone'
  BY <1>4 DEF Alone
<1>8. ChunkCovers' /\ KeepCovers'
  BY <1>1, <1>3 DEF Calm, ChunkCovers, KeepCovers, TailRows
<1> QED BY <1>5, <1>6, <1>7, <1>8 DEF Calm

\* A round takes all rows from the offset up to the next one.
LEMMA RoundChunk ==
  ASSUME NEW o, NEW c \in Contents, NextRound(o, c)
  PROVE  work' = NoWork \/ \A k \in c.mark + 1 .. work'.mark : c.rows[k] \in ToSet(work'.chunk)
<1>1. CASE Release
  BY <1>1 DEF Release
<1>2. CASE \E i \in Boundaries(c) :
             work' = [obj |-> o, chunk |-> SubSeq(c.rows, c.mark + 1, i), mark |-> i, keep |-> <<>>]
  <2>1. PICK i \in Boundaries(c) :
               work' = [obj |-> o, chunk |-> SubSeq(c.rows, c.mark + 1, i), mark |-> i, keep |-> <<>>]
    BY <1>2
  <2>2. PICK r, m : r = c.rows /\ m = c.mark + 1
    OBVIOUS
  <2>3. PICK t : t = SubSeq(r, m, i)
    OBVIOUS
  <2>4. work'.mark = i /\ work'.chunk = t
    BY <2>1, <2>2, <2>3
  <2>5. r \in Seq(Rows) /\ m \in Nat \ {0} /\ i \in Nat /\ m <= i /\ i <= Len(r)
    <3>1. c.mark \in Nat /\ c.rows \in Seq(Rows) /\ Len(c.rows) \in Nat /\ i \in c.mark + 1 .. Len(c.rows) - 1
      BY DEF Contents, Boundaries
    <3> QED BY <3>1, <2>2
  <2>6. /\ t \in Seq(Rows) /\ Len(t) = i - m + 1
        /\ \A k \in 1 .. i - m + 1 : t[k] = r[m + k - 1]
    BY <2>3, <2>5, Slice
  <2>7. ASSUME NEW k \in m .. i PROVE r[k] \in ToSet(t)
    <3>1. k - m + 1 \in 1 .. Len(t) /\ m + (k - m + 1) - 1 = k
      BY <2>5, <2>6
    <3>2. t[k - m + 1] = r[k]
      BY <3>1, <2>6
    <3>3. DOMAIN t = 1 .. Len(t)
      BY <2>6
    <3> QED BY <3>1, <3>2, <3>3 DEF ToSet
  <2> QED BY <2>2, <2>4, <2>7
<1> QED BY <1>1, <1>2 DEF NextRound

\* What a step of a consolidation leaves to the next one.
LEMMA RoundCalm ==
  ASSUME Base, Calm, lockQ # <<>>, Head(lockQ) # "idle",
         NEW o \in Objects, NEW c \in Contents, NextRound(o, c), cache' = o, cache # NoObject => cache = o,
         file'.rows = c.rows, file'.mark = c.mark, newAt' = newAt
  PROVE  /\ Alone' /\ HeldIsCached' /\ ChunkCovers' /\ KeepCovers'
         /\ pc' \in {"building", "built"} => pc \in {"building", "built"}
<1>1. /\ Consolidating' => work'.obj = o
      /\ ~Compacting'
      /\ "idle" \in ToSet(lockQ') <=> "idle" \in ToSet(lockQ)
      /\ pc' = "idle" <=> pc = "idle"
      /\ sess' = sess /\ Own' = Own /\ turns' = turns
  BY RoundKeeps DEF Base
<1>2. Alone'
  <2>1. pc # "idle" => sess = cache /\ cache # NoObject
    BY ConstantsAssumption DEF Calm, Alone, Base, Types, Lock
  <2> QED BY <2>1, <1>1 DEF Calm, Alone
<1>3. HeldIsCached'
  BY <1>1 DEF HeldIsCached, Consolidating, Compacting
<1>4. ChunkCovers'
  <2>1. work' = NoWork \/ \A k \in c.mark + 1 .. work'.mark : c.rows[k] \in ToSet(work'.chunk)
    BY RoundChunk
  <2>2. work' = NoWork => ~Consolidating'
    BY NoWorkFacts DEF Consolidating
  <2> QED BY <2>1, <2>2 DEF ChunkCovers
<1>5. KeepCovers'
  BY <1>1 DEF KeepCovers
<1>6. pc' \in {"building", "built"} => pc \in {"building", "built"}
  BY <1>1 DEF Own
<1> QED BY <1>2, <1>3, <1>4, <1>5, <1>6

\* The lock is there, and a round begins or none is needed.
LEMMA ConsolidateCalm ==
  ASSUME Base, Base', Calm, ~Races, Consolidate, known' = known \cup ToSet(file'.rows)
  PROVE  Calm'
<1>1. /\ file' = file /\ newAt' = newAt /\ archived' = archived /\ snapshot' = snapshot /\ lost' = lost
      /\ heap' = [heap EXCEPT ![Obtained] = Content] /\ cache' = Obtained
      /\ lockQ # <<>> /\ Head(lockQ) # "idle" /\ NextRound(Obtained, Content)
  BY DEF Consolidate
<1>2. /\ Obtained \in Objects /\ (cache # NoObject => cache = Obtained)
      /\ Content \in Contents /\ Content.rows = file.rows /\ Content.mark = file.mark
  BY CalmContent, ContentFacts DEF Base, Calm
<1>3. /\ Alone' /\ HeldIsCached' /\ ChunkCovers' /\ KeepCovers'
      /\ pc' \in {"building", "built"} => pc \in {"building", "built"}
  BY <1>1, <1>2, RoundCalm
<1>4. MarkInside' /\ Answered' /\ Fresh' /\ Covered'
  BY <1>1, <1>3, LookCalm
<1> QED BY <1>3, <1>4 DEF Calm

\* The model answered: what is behind the offset is in history.jsonl.
LEMMA EndRoundCalm ==
  ASSUME Base, Base', Calm, ~Races, EndRound, known' = known \cup ToSet(file'.rows)
  PROVE  Calm'
<1>1. PICK b : b = heap[work.obj]
  OBVIOUS
<1>2. PICK m, n : m = work.mark /\ n = Len(b.rows)
  OBVIOUS
<1>3. PICK c : c = [b EXCEPT !.mark = m]
  OBVIOUS
<1>4. /\ work # NoWork /\ Head(lockQ) # "idle" /\ newAt' = newAt /\ snapshot' = snapshot /\ lost' = lost
      /\ archived' = archived \cup ToSet(work.chunk)
      /\ file' = c /\ heap' = [heap EXCEPT ![work.obj] = c] /\ cache' = work.obj
      /\ NextRound(work.obj, c)
  BY <1>1, <1>2, <1>3 DEF EndRound, Save
<1>5. /\ work.obj = cache /\ cache # NoObject /\ work.obj \in Objects /\ lockQ # <<>> /\ Consolidating
      /\ m \in Nat
  BY <1>2, <1>4 DEF Calm, HeldIsCached, Base, Types, Jobs, Lock, Consolidating
<1>6. /\ b = Content /\ b \in Contents /\ b.rows = file.rows /\ b.mark = file.mark /\ b.ckpt = file.ckpt
  BY <1>1, <1>5, CalmContent DEF Calm
<1>7. m < n /\ n \in Nat /\ b.rows \in Seq(Rows)
  <2>1. AtBoundary(b, m)
    BY <1>1, <1>2, <1>5 DEF Base, Handover, RoundEnds
  <2> QED BY <2>1, <1>2, <1>6 DEF AtBoundary, Contents
<1>8. c \in Contents /\ c.rows = b.rows /\ c.ckpt = b.ckpt /\ c.pending = b.pending /\ c.mark = m
  BY <1>3, <1>5, <1>6 DEF Contents
<1>9. /\ Alone' /\ HeldIsCached' /\ ChunkCovers' /\ KeepCovers'
      /\ pc' \in {"building", "built"} => pc \in {"building", "built"}
  BY <1>4, <1>5, <1>8, RoundCalm
<1>10. MarkInside'
  <2>1. file'.mark = m
    BY <1>4, <1>8
  <2>2. Len(file'.rows) = n
    BY <1>2, <1>4, <1>8
  <2>3. m <= n
    BY <1>5, <1>7
  <2> QED BY <2>1, <2>2, <2>3 DEF MarkInside
<1>11. Content' = c
  <2>1. heap'[work.obj] = c
    BY <1>4, <1>5 DEF Base, Types
  <2> QED BY <2>1, <1>4, <1>5 DEF Content
<1>12. Answered'
  BY <1>4, <1>6, <1>8, <1>9, <1>11 DEF Calm, Answered, Lasts, NoCheckpoint
<1>13. Fresh'
  BY <1>4, <1>6, <1>8 DEF Calm, Fresh
<1>14. Covered'
  <2>1. TailRows(file) \subseteq ToSet(work.chunk) \cup TailRows(c)
    <3>1. PICK f, r : f = file.mark /\ r = b.rows
      OBVIOUS
    <3>2. f \in Nat
      BY <3>1, <1>6 DEF Contents
    <3>3. TailRows(file) = {r[k] : k \in f + 1 .. n} /\ TailRows(c) = {r[k] : k \in m + 1 .. n}
      BY <3>1, <1>2, <1>6, <1>8 DEF TailRows
    <3>4. \A k \in f + 1 .. m : r[k] \in ToSet(work.chunk)
      BY <3>1, <1>2, <1>5, <1>6 DEF Calm, ChunkCovers
    <3>5. \A k \in f + 1 .. n : k \in f + 1 .. m \/ k \in m + 1 .. n
      BY <3>2, <1>5, <1>7
    <3> QED BY <3>3, <3>4, <3>5
  <2>2. known' = known
    BY <1>4, <1>6, <1>8 DEF Calm, Covered
  <2> QED BY <2>1, <2>2, <1>4, <1>6, <1>8 DEF Calm, Covered
<1> QED BY <1>9, <1>10, <1>12, <1>13, <1>14 DEF Calm

\* A compaction replaces the rows by some of them; the others are archived.
LEMMA ReplacedCalm ==
  ASSUME Base, Calm, NEW o \in Objects, NEW d \in Contents,
         file' = d, heap' = [heap EXCEPT ![o] = d], cache' = o, known' = known \cup ToSet(file'.rows),
         newAt' = newAt, snapshot' = snapshot, lost' = lost,
         archived \subseteq archived', TailRows(file) \subseteq TailRows(d) \cup archived',
         ToSet(d.rows) \subseteq ToSet(file.rows), d.ckpt = file.ckpt, d.mark <= Len(d.rows),
         Adjacent(d.rows), Lasts(d), pc' = "idle", work'.obj = NoObject
  PROVE  Calm'
<1>1. Content' = d
  <2>1. o # NoObject /\ heap'[o] = d
    BY ConstantsAssumption DEF Base, Types
  <2> QED BY <2>1 DEF Content
<1>2. Alone' /\ HeldIsCached' /\ MarkInside'
  BY DEF Alone, HeldIsCached, MarkInside
<1>3. Answered'
  BY <1>1 DEF Answered
<1>4. Fresh'
  <2>1. After(d.rows, newAt)
    <3>1. SUFFICES ASSUME NEW k \in 1 .. Len(d.rows) PROVE TurnOf(d.rows[k]) > newAt
      BY DEF After
    <3>2. d.rows \in Seq(Rows) /\ file.rows \in Seq(Rows)
      BY DEF Contents, Base, Stored, Fits
    <3>3. d.rows[k] \in ToSet(file.rows)
      <4>1. PICK q : q = d.rows
        OBVIOUS
      <4>2. q[k] \in ToSet(q)
        BY <3>2, <4>1 DEF ToSet
      <4> QED BY <4>1, <4>2
    <3>4. PICK j \in 1 .. Len(file.rows) : file.rows[j] = d.rows[k]
      BY <3>2, <3>3 DEF ToSet
    <3> QED BY <3>4 DEF Calm, Fresh, After
  <2> QED BY <2>1 DEF Calm, Fresh
<1>5. Covered'
  BY DEF Calm, Covered
<1>6. ChunkCovers' /\ KeepCovers'
  BY DEF ChunkCovers, KeepCovers, Consolidating, Compacting
<1> QED BY <1>2, <1>3, <1>4, <1>5, <1>6 DEF Calm

\* The end of legal rows.
LEMMA TailFacts ==
  ASSUME NEW c \in Contents, Legal(c.rows), c.mark <= Len(c.rows)
  PROVE  /\ Unconsolidated(c) \in Seq(Rows) /\ ToSet(Unconsolidated(c)) = TailRows(c)
         /\ ToSet(Unconsolidated(c)) \subseteq ToSet(c.rows)
         /\ Adjacent(c.rows) => Adjacent(Unconsolidated(c))
         /\ EndsWithUser(Unconsolidated(c)) => EndsWithUser(c.rows)
<1>1. PICK r, m, n, t : r = c.rows /\ m = c.mark /\ n = Len(c.rows) /\ t = Unconsolidated(c)
  OBVIOUS
<1>2. r \in Seq(Rows) /\ m \in Nat /\ n \in Nat /\ m <= n /\ n = Len(r)
  BY <1>1 DEF Contents
<1>3. t \in Seq(Rows) /\ Len(t) = n - m /\ \A k \in 1 .. n - m : t[k] = r[m + k]
  <2>1. t = SubSeq(r, m + 1, Len(r)) /\ Legal(r)
    BY <1>1 DEF Unconsolidated
  <2>2. /\ SubSeq(r, m + 1, Len(r)) \in Seq(Rows)
        /\ Len(SubSeq(r, m + 1, Len(r))) = Len(r) - m
        /\ \A k \in 1 .. Len(r) - m : SubSeq(r, m + 1, Len(r))[k] = r[m + k]
    BY <2>1, <1>2, EndFollows
  <2> QED BY <2>1, <2>2, <1>2
<1>4. ToSet(t) = TailRows(c)
  BY <1>1, TailRowsAre DEF Unconsolidated
<1>5. ToSet(t) \subseteq ToSet(r)
  <2>1. ASSUME NEW k \in 1 .. n - m PROVE t[k] \in ToSet(r)
    <3>1. PICK j \in 1 .. Len(r) : j = m + k
      BY <1>2
    <3>2. r[j] \in ToSet(r)
      BY <1>2 DEF ToSet
    <3> QED BY <3>1, <3>2, <1>3
  <2> QED BY <2>1, <1>3 DEF ToSet
<1>6. ASSUME Adjacent(r) PROVE Adjacent(t)
  <2>1. SUFFICES ASSUME NEW k \in 2 .. Len(t) PROVE ~(IsUser(t[k - 1]) /\ IsUser(t[k]))
    BY DEF Adjacent
  <2>2. m + k \in 2 .. n /\ m + k - 1 = m + (k - 1) /\ k \in 1 .. n - m /\ k - 1 \in 1 .. n - m
    BY <1>2, <1>3
  <2>3. ~(IsUser(r[m + k - 1]) /\ IsUser(r[m + k]))
    BY <1>2, <1>6, <2>2 DEF Adjacent
  <2>4. t[k] = r[m + k] /\ t[k - 1] = r[m + k - 1]
    BY <1>3, <2>2
  <2> QED BY <2>3, <2>4
<1>7. ASSUME EndsWithUser(t) PROVE EndsWithUser(r)
  <2>1. t # <<>> /\ IsUser(Last(t))
    BY <1>7 DEF EndsWithUser
  <2>2. Last(t) = t[Len(t)] /\ Len(t) \in 1 .. n - m
    BY <1>3, <2>1, LastRow
  <2>3. t[n - m] = r[n] /\ Len(t) = n - m /\ n >= 1
    BY <1>2, <1>3, <2>2
  <2>4. r # <<>>
    BY <1>2, <2>3
  <2>5. Last(r) = r[n]
    BY <1>2, <2>4, LastRow
  <2> QED BY <2>1, <2>2, <2>3, <2>4, <2>5 DEF EndsWithUser
<1> QED BY <1>1, <1>3, <1>4, <1>5, <1>6, <1>7

\* A compaction finds nothing to drop, or begins.
LEMMA CompactCalm ==
  ASSUME Base, Base', Calm, ~Races, Compact, known' = known \cup ToSet(file'.rows)
  PROVE  Calm'
<1>1. PICK o : o = Unused
  OBVIOUS
<1>2. PICK c : c = Loaded(file)
  OBVIOUS
<1>3. PICK t : t = Unconsolidated(c)
  OBVIOUS
<1>4. /\ lockQ # <<>> /\ Head(lockQ) = "idle" /\ newAt' = newAt /\ archived' = archived
      /\ snapshot' = snapshot /\ lost' = lost
      /\ \/ /\ Dropped(t) = <<>> /\ Release
            /\ Save(o, IF t = <<>> THEN c ELSE [c EXCEPT !.rows = t, !.mark = 0])
         \/ /\ Dropped(t) # <<>>
            /\ file' = file /\ heap' = [heap EXCEPT ![o] = c] /\ cache' = o
            /\ work' = [obj |-> o, chunk |-> Dropped(t), mark |-> 0, keep |-> Suffix(t)]
            /\ lockQ' = lockQ /\ pc' = pc
  BY <1>1, <1>2, <1>3 DEF Compact, turnVars
<1>5. pc = "idle"
  <2>1. "idle" \in ToSet(lockQ)
    BY <1>4, LockHead DEF Base, Types
  <2> QED BY <2>1 DEF Calm, Alone
<1>6. o \in Objects /\ o # NoObject
  <2>1. {cache, sess, work.obj} \subseteq Objects \cup {NoObject}
    BY DEF Base, Types, Jobs
  <2> QED BY <2>1, <1>1, UnusedIsNew
<1>7. c = file /\ c \in Contents /\ Legal(c.rows) /\ c.mark <= Len(c.rows)
  <2>1. Fits(file, turns, Own) /\ file.mark <= Len(file.rows)
    BY DEF Base, Stored, Calm, MarkInside
  <2> QED BY <2>1, <1>2, LoadedFits DEF Fits, RowsFit
<1>8. /\ t \in Seq(Rows) /\ ToSet(t) = TailRows(c) /\ ToSet(t) \subseteq ToSet(c.rows)
      /\ Adjacent(t) /\ (EndsWithUser(t) => EndsWithUser(c.rows))
      /\ ToolsFollow(t)
  <2>1. Adjacent(c.rows)
    BY <1>7 DEF Calm, Answered
  <2> QED BY <2>1, <1>3, <1>7, TailFacts, UnconsolidatedFacts
<1>9. ASSUME Dropped(t) = <<>>, Release, Save(o, IF t = <<>> THEN c ELSE [c EXCEPT !.rows = t, !.mark = 0])
      PROVE  Calm'
  <2>1. PICK d : d = IF t = <<>> THEN c ELSE [c EXCEPT !.rows = t, !.mark = 0]
    OBVIOUS
  <2>2. file' = d /\ heap' = [heap EXCEPT ![o] = d] /\ cache' = o
    BY <1>9, <2>1 DEF Save
  <2>3. pc' = "idle" /\ work'.obj = NoObject
    BY <1>4, <1>5, <1>9, NoWorkFacts DEF Release
  <2>4. /\ d \in Contents /\ d.ckpt = file.ckpt /\ d.mark <= Len(d.rows) /\ Adjacent(d.rows) /\ Lasts(d)
        /\ ToSet(d.rows) \subseteq ToSet(file.rows) /\ TailRows(d) = TailRows(file)
    <3>1. CASE t = <<>>
      <4>1. d = file
        BY <2>1, <3>1, <1>7
      <4> QED BY <4>1, <1>7 DEF Calm, Answered
    <3>2. CASE t # <<>>
      <4>1. d = [c EXCEPT !.rows = t, !.mark = 0]
        BY <2>1, <3>2
      <4>2. d \in Contents /\ d.rows = t /\ d.mark = 0 /\ d.ckpt = c.ckpt /\ d.pending = c.pending
        BY <4>1, <1>7, <1>8 DEF Contents
      <4>3. Len(t) \in Nat /\ DOMAIN t = 1 .. Len(t)
        BY <1>8
      <4>4. TailRows(d) = ToSet(t)
        <5>1. 0 + 1 .. Len(t) = DOMAIN t
          BY <4>3
        <5> QED BY <5>1, <4>2 DEF TailRows, ToSet
      <4>5. Lasts(d)
        BY <4>2, <1>7, <1>8 DEF Calm, Answered, Lasts, NoCheckpoint
      <4> QED BY <4>2, <4>3, <4>4, <4>5, <1>7, <1>8
    <3> QED BY <3>1, <3>2
  <2> QED BY <2>2, <2>3, <2>4, <1>4, <1>6, ReplacedCalm
<1>10. ASSUME file' = file, heap' = [heap EXCEPT ![o] = c], cache' = o,
              work' = [obj |-> o, chunk |-> Dropped(t), mark |-> 0, keep |-> Suffix(t)],
              lockQ' = lockQ, pc' = pc
       PROVE  Calm'
  <2>1. work'.obj = o /\ work'.chunk = Dropped(t) /\ work'.keep = Suffix(t)
    BY <1>10
  <2>2. Content' = file
    <3>1. heap'[o] = file
      BY <1>6, <1>7, <1>10 DEF Base, Types
    <3> QED BY <3>1, <1>6, <1>10 DEF Content
  <2>3. TailRows(file') = TailRows(file)
    BY <1>10 DEF TailRows
  <2>4. Answered' /\ Fresh' /\ Covered' /\ MarkInside'
    BY <2>2, <2>3, <1>4, <1>10 DEF Calm, Answered, Fresh, Covered, MarkInside
  <2>5. Alone' /\ HeldIsCached'
    BY <2>1, <1>5, <1>10 DEF Alone, HeldIsCached
  <2>6. ChunkCovers'
    BY <1>4, <1>10 DEF ChunkCovers, Consolidating
  <2>7. KeepCovers'
    <3>1. /\ Suffix(t) \in Seq(Rows) /\ ToSet(t) = ToSet(Dropped(t)) \cup ToSet(Suffix(t))
          /\ Adjacent(t) => Adjacent(Suffix(t))
          /\ t # <<>> => Last(Suffix(t)) = Last(t)
      BY <1>8, SuffixFacts
    <3>2. t = <<>> => Suffix(t) = <<>>
      <4>1. ASSUME t = <<>> PROVE Len(t) <= Keep
        <5>1. Keep \in Nat /\ Len(t) = 0
          BY <4>1, ConstantsAssumption
        <5> QED BY <5>1
      <4> QED BY <4>1, <1>8, ShortIsWhole
    <3>3. EndsWithUser(Suffix(t)) => EndsWithUser(t)
      BY <3>1, <3>2 DEF EndsWithUser
    <3> QED BY <2>1, <2>3, <3>1, <3>3, <1>7, <1>8, <1>10 DEF KeepCovers
  <2> QED BY <2>4, <2>5, <2>6, <2>7 DEF Calm
<1> QED BY <1>4, <1>9, <1>10

\* Its end: the session is what was kept, the rest is in history.jsonl.
LEMMA EndCompactCalm ==
  ASSUME Base, Base', Calm, ~Races, EndCompact, known' = known \cup ToSet(file'.rows)
  PROVE  Calm'
<1>1. PICK b : b = heap[work.obj]
  OBVIOUS
<1>2. PICK t : t = work.keep
  OBVIOUS
<1>3. PICK d : d = [b EXCEPT !.rows = t, !.mark = 0]
  OBVIOUS
<1>4. /\ work # NoWork /\ Head(lockQ) = "idle" /\ newAt' = newAt /\ snapshot' = snapshot /\ lost' = lost
      /\ archived' = archived \cup ToSet(work.chunk)
      /\ file' = d /\ heap' = [heap EXCEPT ![work.obj] = d] /\ cache' = work.obj
      /\ Release
  BY <1>1, <1>2, <1>3 DEF EndCompact, Save
<1>5. /\ work.obj = cache /\ cache # NoObject /\ work.obj \in Objects /\ lockQ # <<>> /\ Compacting
      /\ t \in Seq(Rows)
  BY <1>2, <1>4 DEF Calm, HeldIsCached, Base, Types, Jobs, Lock, Compacting
<1>6. b = Content /\ b \in Contents /\ b.rows = file.rows /\ b.ckpt = file.ckpt
  BY <1>1, <1>5, CalmContent DEF Calm
<1>7. /\ TailRows(file) \subseteq ToSet(work.chunk) \cup ToSet(t) /\ ToSet(t) \subseteq ToSet(file.rows)
      /\ Adjacent(t) /\ (EndsWithUser(t) => EndsWithUser(file.rows))
  BY <1>2, <1>5 DEF Calm, KeepCovers
<1>8. d \in Contents /\ d.rows = t /\ d.mark = 0 /\ d.ckpt = b.ckpt /\ d.pending = b.pending
  BY <1>3, <1>5, <1>6 DEF Contents
<1>9. d.mark <= Len(d.rows) /\ TailRows(d) = ToSet(t)
  <2>1. Len(t) \in Nat /\ DOMAIN t = 1 .. Len(t)
    BY <1>5
  <2>2. 0 + 1 .. Len(t) = DOMAIN t
    BY <2>1
  <2> QED BY <2>1, <2>2, <1>8 DEF TailRows, ToSet
<1>10. Lasts(d)
  <2>1. Lasts(b)
    BY <1>6 DEF Calm, Answered
  <2> QED BY <2>1, <1>6, <1>7, <1>8 DEF Lasts, NoCheckpoint
<1>11. pc' = "idle" /\ work'.obj = NoObject
  <2>1. "idle" \in ToSet(lockQ)
    BY <1>4, <1>5, LockHead DEF Base, Types
  <2>2. pc = "idle"
    BY <2>1 DEF Calm, Alone
  <2> QED BY <2>2, <1>4, NoWorkFacts DEF Release
<1> QED BY <1>4, <1>5, <1>6, <1>7, <1>8, <1>9, <1>10, <1>11, ReplacedCalm

-----------------------------------------------------------------------------
(* The theorems about a session without races.                               *)

\* The invariant that is inductive once Base is.
Unraced == ~raced => Calm

\* Initially there is nothing to forget.
LEMMA InitUnraced ==
  ASSUME Init
  PROVE  Unraced
<1>1. /\ file = Empty /\ cache = NoObject /\ pc = "idle" /\ work = NoWork /\ known = {}
  BY DEF Init
<1>2. work.obj = NoObject
  BY <1>1, NoWorkFacts
<1>3. Empty.rows = <<>> /\ Empty.ckpt = <<>> /\ Empty.mark = 0 /\ Len(Empty.rows) = 0
  BY DEF Empty
<1>4. Content = file
  BY <1>1, <1>3 DEF Content, Loaded
<1>5. ~EndsWithUser(file.rows) /\ Adjacent(file.rows) /\ ToSet(file.rows) = {} /\ After(file.rows, newAt)
      /\ After(file.ckpt, newAt) /\ file.mark <= Len(file.rows)
  BY <1>1, <1>3 DEF EndsWithUser, Adjacent, ToSet, After
<1>6. Alone /\ HeldIsCached /\ MarkInside /\ Fresh /\ Covered
  BY <1>1, <1>2, <1>5 DEF Alone, HeldIsCached, MarkInside, Fresh, Covered
<1>7. Answered
  BY <1>1, <1>4, <1>5 DEF Answered, Lasts
<1>8. ChunkCovers /\ KeepCovers
  BY <1>2 DEF ChunkCovers, KeepCovers, Consolidating, Compacting
<1> QED BY <1>6, <1>7, <1>8 DEF Calm, Unraced

\* Every step keeps it.
LEMMA StepUnraced ==
  ASSUME Base, Base', Unraced, [Next]_vars
  PROVE  Unraced'
<1>1. CASE UNCHANGED vars
  <2>1. /\ file' = file /\ heap' = heap /\ cache' = cache /\ newAt' = newAt /\ known' = known
        /\ archived' = archived /\ snapshot' = snapshot /\ lost' = lost /\ raced' = raced
        /\ pc' = pc /\ sess' = sess /\ lockQ' = lockQ /\ work' = work /\ turns' = turns
    BY <1>1 DEF vars, turnVars, jobVars, observed
  <2>2. SUFFICES ASSUME Calm PROVE Calm'
    BY <2>1 DEF Unraced
  <2>3. known' = known \cup ToSet(file'.rows)
    BY <2>1, <2>2 DEF Calm, Covered
  <2>4. Alone'
    BY <2>1, <2>2 DEF Calm, Alone
  <2>5. /\ Consolidating' => Consolidating /\ work' = work
        /\ Compacting' => Compacting /\ work' = work
    BY <2>1 DEF Consolidating, Compacting
  <2> QED BY <2>1, <2>2, <2>3, <2>4, <2>5, UnwrittenCalm
<1>2. CASE Next
  <2>1. SUFFICES ASSUME ~raced' PROVE Calm'
    BY DEF Unraced
  <2>2. Step /\ known' = known \cup ToSet(file'.rows) /\ ~raced /\ ~Races
    BY <1>2, <2>1 DEF Next
  <2>3. Calm
    BY <2>2 DEF Unraced
  <2>4. CASE Begin
    BY <2>2, <2>3, <2>4, BeginCalm
  <2>5. CASE Command
    BY <2>2, <2>3, <2>5, CommandCalm
  <2>6. CASE Persist
    BY <2>2, <2>3, <2>6, PersistCalm
  <2>7. CASE CallTools
    BY <2>2, <2>3, <2>7, CallToolsCalm
  <2>8. CASE ToolsDone
    BY <2>2, <2>3, <2>8, ToolsDoneCalm
  <2>9. CASE Answer
    BY <2>2, <2>3, <2>9, AnswerCalm
  <2>10. CASE SaveTurn
    BY <2>2, <2>3, <2>10, SaveTurnCalm
  <2>11. CASE Fail
    BY <2>2, <2>3, <2>11, FailCalm
  <2>12. CASE Stop
    BY <2>2, <2>3, <2>12, StopCalm
  <2>13. CASE NewConversation
    BY <2>2, <2>3, <2>13, NewConversationCalm
  <2>14. CASE ArchiveSnapshot
    BY <2>2, <2>3, <2>14, ArchiveSnapshotCalm
  <2>15. CASE Consolidate
    BY <2>2, <2>3, <2>15, ConsolidateCalm
  <2>16. CASE EndRound
    BY <2>2, <2>3, <2>16, EndRoundCalm
  <2>17. CASE IdleTick
    BY <2>2, <2>3, <2>17, IdleTickCalm
  <2>18. CASE Compact
    BY <2>2, <2>3, <2>18, CompactCalm
  <2>19. CASE EndCompact
    BY <2>2, <2>3, <2>19, EndCompactCalm
  <2>20. CASE Crash
    BY <2>2, <2>3, <2>20, CrashCalm
  <2> QED BY <2>2, <2>4, <2>5, <2>6, <2>7, <2>8, <2>9, <2>10, <2>11, <2>12, <2>13, <2>14, <2>15, <2>16,
             <2>17, <2>18, <2>19, <2>20 DEF Step
<1> QED BY <1>1, <1>2

\* Both invariants hold in every reachable state.
LEMMA UnracedHolds == Spec => [](Base /\ Unraced)
<1>1. Init => Base /\ Observed /\ Unraced
  BY InitBase, InitUnraced DEF Init, Observed
<1>2. Base /\ Observed /\ Unraced /\ [Next]_vars => Base' /\ Observed' /\ Unraced'
  BY StepBase, StepObserved, StepUnraced
<1> QED BY <1>1, <1>2, PTL DEF Spec

\* What providers insist on: calls have their results, and while nothing raced
\* no message of the user follows another.
THEOREM HistoryIsLegal == Spec => []LegalHistory
<1>1. Base /\ Unraced => UsersAnswered
  <2>1. SUFFICES ASSUME Base, Unraced, ~raced PROVE \A k \in 2 .. Len(file.rows) :
                    ~(IsUser(file.rows[k - 1]) /\ IsUser(file.rows[k]))
    BY DEF UsersAnswered
  <2> QED BY <2>1 DEF Unraced, Calm, Answered, Adjacent
<1>2. Spec => []UsersAnswered
  BY <1>1, UnracedHolds, PTL
<1> QED BY <1>2, ToolCallsAnswered, PTL DEF LegalHistory

\* While nothing raced, what was saved once is in the session, or archived, or
\* about to be, or a crash took it right after /new.
THEOREM NothingForgotten == Spec => []Remembered
<1>1. Base /\ Unraced => Remembered
  <2>1. SUFFICES ASSUME Base, Unraced, ~raced
                 PROVE  known \subseteq ToSet(Unconsolidated(file)) \cup archived \cup snapshot \cup lost
    BY DEF Remembered
  <2>2. file \in Contents
    BY <2>1 DEF Base, Stored, Fits
  <2>3. ToSet(Unconsolidated(file)) = TailRows(file)
    BY <2>2, TailRowsAre DEF Unconsolidated
  <2> QED BY <2>1, <2>3 DEF Unraced, Calm, Covered
<1> QED BY <1>1, UnracedHolds, PTL

\* While nothing raced, nothing of the old conversation comes back after /new,
\* neither from a checkpoint nor from a background job.
THEOREM OldRowsStayAway == Spec => []NewIsFresh
<1>1. Base /\ Unraced => NewIsFresh
  <2>1. SUFFICES ASSUME Base, Unraced, ~raced, NEW k \in DOMAIN file.rows PROVE file.rows[k][1] > newAt
    BY DEF NewIsFresh
  <2>2. DOMAIN file.rows = 1 .. Len(file.rows)
    <3>1. file.rows \in Seq(Rows)
      BY <2>1 DEF Base, Stored, Fits, Contents
    <3> QED BY <3>1
  <2> QED BY <2>1, <2>2 DEF Unraced, Calm, Fresh, After, TurnOf
<1> QED BY <1>1, UnracedHolds, PTL
=============================================================================
