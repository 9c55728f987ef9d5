------------------------- MODULE CronServiceProofs -------------------------
(***************************************************************************)
(* Proofs about CronService, for any jobs, schedules, casts and bounds.     *)
(*                                                                          *)
(* What a loader reads is a fold over action.jsonl.  The first part shows   *)
(* that of each job it is what the last line about it says, or jobs.json    *)
(* without one; everything after that speaks of one job at a time: of its   *)
(* copies in memory and in jobs.json, and of its lines.  A step either      *)
(* handles the job, in one of five ways (Handled), or is about it.  On the  *)
(* types (Base) rest three invariants: what memory, file and lines hold     *)
(* (Kept), that nothing makes a job due again that has been run (Once), and *)
(* that memory and file agree but for a batch in execution (Saved).         *)
(***************************************************************************)
EXTENDS CronService, QueueLemmas

-----------------------------------------------------------------------------
(* Merging action.jsonl: the last line about a job decides.                 *)

\* The lines of s about job j.
Lines(l, s, j) == {i \in s : l[i].job = j}
\* Job j is there after the lines of s.
Left(d, l, s, j) ==
  IF Lines(l, s, j) = {} THEN j \in DOMAIN d ELSE l[Max(Lines(l, s, j))].op = "add"
\* The jobs that can be there.
Named(d, l, s) == DOMAIN d \cup {l[i].job : i \in s}
\* The store d after the lines of s, in one step.
Result(d, l, s) ==
  [j \in {k \in Named(d, l, s) : Left(d, l, s, k)} |->
     IF Lines(l, s, j) = {} THEN d[j] ELSE l[Max(Lines(l, s, j))].rec]

\* One step of the fold, and its recursion.
Step(g, d, l, s) ==
  IF s = {} THEN d ELSE LET x == Max(s) IN Apply(g[s \ {x}], l[x])
Iter(d, l) == CHOOSE g : g = [s \in SUBSET DOMAIN l |-> Step(g, d, l, s)]

\* FoldLeft is a recursive function, taken at all the lines.
LEMMA Unfold ==
  ASSUME NEW d, NEW l
  PROVE  FoldLeft(Apply, d, l) = Iter(d, l)[DOMAIN l]
BY DEF FoldLeft, MapThenFoldSet, Iter, Step

\* The last of the lines about a job.
LEMMA LastOf ==
  ASSUME NEW l, NEW n \in Nat, DOMAIN l = 1 .. n, NEW s \in SUBSET DOMAIN l, NEW j,
         Lines(l, s, j) # {}
  PROVE  /\ Max(Lines(l, s, j)) \in Lines(l, s, j)
         /\ \A i \in Lines(l, s, j) : Max(Lines(l, s, j)) >= i
<1>1. Lines(l, s, j) \in SUBSET (0 .. n)
  BY DEF Lines
<1> QED BY <1>1, MaxFacts

\* What the last line adds to the result of the others.
LEMMA OneMore ==
  ASSUME NEW d, d = [j \in DOMAIN d |-> d[j]],
         NEW l, NEW n \in Nat, DOMAIN l = 1 .. n,
         NEW s \in SUBSET DOMAIN l, s # {}
  PROVE  Result(d, l, s) = Apply(Result(d, l, s \ {Max(s)}), l[Max(s)])
<1> DEFINE x == Max(s)
           t == s \ {x}
           k == l[x].job
           old == Result(d, l, t)
           new == Result(d, l, s)
<1>1. x \in s /\ \A i \in s : x >= i
  BY MaxFacts
<1>2. Lines(l, s, k) # {} /\ Max(Lines(l, s, k)) = x
  <2>1. x \in Lines(l, s, k)
    BY <1>1 DEF Lines
  <2>2. /\ Max(Lines(l, s, k)) \in Lines(l, s, k)
        /\ Max(Lines(l, s, k)) >= x
    BY <2>1, LastOf
  <2>3. Max(Lines(l, s, k)) \in s
    BY <2>2 DEF Lines
  <2> QED BY <1>1, <2>1, <2>2, <2>3
<1>3. ASSUME NEW j, j # k PROVE Lines(l, s, j) = Lines(l, t, j)
  BY <1>3 DEF Lines
<1>4. Named(d, l, s) = Named(d, l, t) \cup {k}
  BY <1>1 DEF Named
<1>5. ASSUME NEW j, j # k PROVE Left(d, l, s, j) <=> Left(d, l, t, j)
  BY <1>3, <1>5 DEF Left
<1>6. Left(d, l, s, k) <=> l[x].op = "add"
  BY <1>2 DEF Left
<1>7. /\ DOMAIN new = {j \in Named(d, l, s) : Left(d, l, s, j)}
      /\ DOMAIN old = {j \in Named(d, l, t) : Left(d, l, t, j)}
      /\ \A j \in DOMAIN new : new[j] = IF Lines(l, s, j) = {} THEN d[j] ELSE l[Max(Lines(l, s, j))].rec
      /\ \A j \in DOMAIN old : old[j] = IF Lines(l, t, j) = {} THEN d[j] ELSE l[Max(Lines(l, t, j))].rec
      /\ new = [j \in DOMAIN new |-> new[j]]
  BY DEF Result
<1> HIDE DEF new, old
<1>8. \A j : j # k /\ j \in DOMAIN old => j \in DOMAIN new /\ new[j] = old[j]
  BY <1>3, <1>4, <1>5, <1>7
<1>9. \A j : j # k /\ j \in DOMAIN new => j \in DOMAIN old
  BY <1>4, <1>5, <1>7
<1>10. k \in DOMAIN new => l[x].op = "add" /\ new[k] = l[x].rec
  BY <1>2, <1>6, <1>7
<1>11. l[x].op = "add" => k \in DOMAIN new
  BY <1>4, <1>6, <1>7
<1>12. CASE l[x].op = "add"
  <2>1. DOMAIN new = DOMAIN old \cup {k}
    BY <1>8, <1>9, <1>11, <1>12
  <2>2. new = [j \in DOMAIN old \cup {k} |-> IF j = k THEN l[x].rec ELSE old[j]]
    BY <1>7, <1>8, <1>9, <1>10, <2>1
  <2> QED BY <1>12, <2>2 DEF Apply, Put, new, old
<1>13. CASE l[x].op # "add"
  <2>1. DOMAIN new = DOMAIN old \ {k}
    BY <1>8, <1>9, <1>10, <1>13
  <2>2. new = [j \in DOMAIN old \ {k} |-> old[j]]
    BY <1>7, <1>8, <2>1
  <2> QED BY <1>13, <2>2 DEF Apply, Drop, new, old
<1> QED BY <1>12, <1>13

\* The only function that satisfies the recursion is the result.
LEMMA Closed ==
  ASSUME NEW d, d = [j \in DOMAIN d |-> d[j]],
         NEW l, NEW n \in Nat, DOMAIN l = 1 .. n
  PROVE  \A s \in SUBSET DOMAIN l : Iter(d, l)[s] = Result(d, l, s)
<1> DEFINE f == [s \in SUBSET DOMAIN l |-> Result(d, l, s)]
           g == Iter(d, l)
<1>1. f = [s \in SUBSET DOMAIN l |-> Step(f, d, l, s)]
  <2> SUFFICES ASSUME NEW s \in SUBSET DOMAIN l PROVE Result(d, l, s) = Step(f, d, l, s)
    OBVIOUS
  <2>1. CASE s = {}
    <3>1. Named(d, l, s) = DOMAIN d /\ \A j : Lines(l, s, j) = {}
      BY <2>1 DEF Named, Lines
    <3>2. {j \in Named(d, l, s) : Left(d, l, s, j)} = DOMAIN d
      BY <3>1 DEF Left
    <3>3. Result(d, l, s) = [j \in DOMAIN d |-> d[j]]
      BY <3>1, <3>2 DEF Result
    <3> QED BY <2>1, <3>3 DEF Step
  <2>2. CASE s # {}
    <3>1. s \ {Max(s)} \in SUBSET DOMAIN l
      OBVIOUS
    <3>2. f[s \ {Max(s)}] = Result(d, l, s \ {Max(s)})
      BY <3>1
    <3> QED BY <2>2, <3>2, OneMore DEF Step
  <2> QED BY <2>1, <2>2
<1>2. g = [s \in SUBSET DOMAIN l |-> Step(g, d, l, s)]
  <2> HIDE DEF f
  <2> QED BY <1>1 DEF Iter
<1>3. \A s \in SUBSET DOMAIN l : g[s] = Step(g, d, l, s) /\ f[s] = Step(f, d, l, s)
  <2> HIDE DEF f, g
  <2> QED BY <1>1, <1>2
<1> DEFINE Bad == {m \in Nat : \E s \in SUBSET DOMAIN l : s \subseteq 1 .. m /\ f[s] # g[s]}
<1> HIDE DEF f, g
<1>4. Bad = {}
  <2> SUFFICES ASSUME Bad # {} PROVE FALSE
    OBVIOUS
  <2>1. PICK m \in Bad : \A k \in Bad : m <= k
    BY LeastNatural
  <2>2. PICK s \in SUBSET DOMAIN l : s \subseteq 1 .. m /\ f[s] # g[s]
    BY <2>1
  <2>3. CASE s = {}
    BY <1>3, <2>2, <2>3 DEF Step
  <2>4. CASE s # {}
    <3> DEFINE x == Max(s)
               t == s \ {x}
    <3>1. x \in s /\ \A i \in s : x >= i
      BY <2>4, MaxFacts
    <3>2. t \subseteq 1 .. (m - 1) /\ m - 1 \in Nat
      BY <2>2, <3>1
    <3>3. m - 1 \notin Bad
      BY <2>1, <3>2
    <3>4. f[t] = g[t]
      <4> t \in SUBSET DOMAIN l
        OBVIOUS
      <4> QED BY <3>2, <3>3
    <3> QED BY <1>3, <2>2, <2>4, <3>4 DEF Step
  <2> QED BY <2>3, <2>4
<1>5. ASSUME NEW s \in SUBSET DOMAIN l PROVE f[s] = g[s]
  <2>1. s \subseteq 1 .. n
    OBVIOUS
  <2>2. n \notin Bad
    BY <1>4
  <2> QED BY <2>1, <2>2
<1>6. \A s \in SUBSET DOMAIN l : f[s] = Result(d, l, s)
  BY DEF f
<1> QED BY <1>5, <1>6 DEF g

\* So a merge of action.jsonl is what the last line about each job says.
LEMMA MergeClosed ==
  ASSUME NEW d, d = [j \in DOMAIN d |-> d[j]],
         NEW l, NEW n \in Nat, DOMAIN l = 1 .. n
  PROVE  FoldLeft(Apply, d, l) = Result(d, l, DOMAIN l)
BY Unfold, Closed

\* The lines about a job, and the last of them.
About(l, j)    == {i \in DOMAIN l : l[i].job = j}
LastLine(l, j) == l[Max(About(l, j))]

\* Two stores say the same of a job.
Same(s, t, j) == (j \in DOMAIN s <=> j \in DOMAIN t) /\ (j \in DOMAIN s => s[j] = t[j])

\* A store is a function, and two that say the same of every job are equal.
LEMMA StoreFacts ==
  ASSUME NEW s \in Store
  PROVE  /\ s = [j \in DOMAIN s |-> s[j]]
         /\ DOMAIN s \subseteq Job
         /\ \A j \in DOMAIN s : s[j] \in Record
<1>1. PICK js \in SUBSET Job : s \in [js -> Record]
  BY DEF Store
<1> QED BY <1>1

LEMMA StoreMade ==
  ASSUME NEW s, s = [j \in DOMAIN s |-> s[j]], DOMAIN s \subseteq Job,
         \A j \in DOMAIN s : s[j] \in Record
  PROVE  s \in Store
<1>1. s \in [DOMAIN s -> Record]
  OBVIOUS
<1> QED BY <1>1 DEF Store

LEMMA SameStores ==
  ASSUME NEW s \in Store, NEW t \in Store, \A j \in Job : Same(s, t, j)
  PROVE  s = t
<1>1. DOMAIN s = DOMAIN t
  BY StoreFacts DEF Same
<1>2. \A j \in DOMAIN s : s[j] = t[j]
  BY StoreFacts DEF Same
<1>3. s = [j \in DOMAIN s |-> s[j]] /\ t = [j \in DOMAIN t |-> t[j]]
  BY StoreFacts
<1> QED BY <1>1, <1>2, <1>3

LEMMA LineFacts ==
  ASSUME NEW l \in Seq(Line)
  PROVE  /\ Len(l) \in Nat /\ DOMAIN l = 1 .. Len(l)
         /\ \A i \in DOMAIN l : /\ l[i] \in Line
                                /\ l[i].job \in Job /\ l[i].op \in {"add", "del"}
                                /\ l[i].op = "add" => l[i].rec \in Record
<1>1. Len(l) \in Nat /\ DOMAIN l = 1 .. Len(l) /\ \A i \in DOMAIN l : l[i] \in Line
  OBVIOUS
<1>2. ASSUME NEW x \in Line
      PROVE  /\ x.job \in Job /\ x.op \in {"add", "del"}
             /\ x.op = "add" => x.rec \in Record
  BY DEF Line
<1> QED BY <1>1, <1>2

LEMMA LastFacts ==
  ASSUME NEW l \in Seq(Line), NEW j, About(l, j) # {}
  PROVE  /\ Max(About(l, j)) \in About(l, j)
         /\ \A i \in About(l, j) : Max(About(l, j)) >= i
<1>1. Len(l) \in Nat /\ About(l, j) \in SUBSET (0 .. Len(l))
  BY LineFacts DEF About
<1> QED BY <1>1, MaxFacts

\* What anyone reads of a job who loads the store (_load_store, _merge_action) is
\* what the last line of action.jsonl about it says, or what jobs.json says if
\* there is none, however many lines there are.
THEOREM LastLineDecides ==
  ASSUME NEW d \in Store, NEW l \in Seq(Line)
  PROVE  /\ FoldLeft(Apply, d, l) \in Store
         /\ \A j \in Job :
              LET m == FoldLeft(Apply, d, l) IN
              IF About(l, j) = {} THEN Same(m, d, j)
              ELSE /\ j \in DOMAIN m <=> LastLine(l, j).op = "add"
                   /\ j \in DOMAIN m => m[j] = LastLine(l, j).rec
<1> DEFINE m == FoldLeft(Apply, d, l)
<1>1. m = Result(d, l, DOMAIN l)
  BY MergeClosed, StoreFacts, LineFacts
<1>2. \A j : Lines(l, DOMAIN l, j) = About(l, j)
  BY DEF Lines, About
<1>3. /\ DOMAIN m = {j \in Named(d, l, DOMAIN l) : Left(d, l, DOMAIN l, j)}
      /\ \A j \in DOMAIN m : m[j] = IF About(l, j) = {} THEN d[j] ELSE LastLine(l, j).rec
      /\ m = [j \in DOMAIN m |-> m[j]]
  <2> HIDE DEF m
  <2> QED BY <1>1, <1>2 DEF Result, LastLine
<1> HIDE DEF m
<1>4. \A j : Left(d, l, DOMAIN l, j) <=> IF About(l, j) = {} THEN j \in DOMAIN d
                                        ELSE LastLine(l, j).op = "add"
  BY <1>2 DEF Left, LastLine
<1>5. ASSUME NEW j \in Job
      PROVE  IF About(l, j) = {} THEN Same(m, d, j)
             ELSE /\ j \in DOMAIN m <=> LastLine(l, j).op = "add"
                  /\ j \in DOMAIN m => m[j] = LastLine(l, j).rec
  <2>1. CASE About(l, j) = {}
    BY <1>3, <1>4, <2>1 DEF Named, Same
  <2>2. CASE About(l, j) # {}
    <3>1. j \in Named(d, l, DOMAIN l)
      BY <2>2 DEF About, Named
    <3> QED BY <1>3, <1>4, <2>2, <3>1
  <2> QED BY <2>1, <2>2
<1>6. DOMAIN m \subseteq Job
  BY <1>3, StoreFacts, LineFacts DEF Named
<1>7. ASSUME NEW j \in DOMAIN m PROVE m[j] \in Record
  <2>1. CASE About(l, j) = {}
    BY <1>5, <1>6, <1>7, <2>1, StoreFacts DEF Same
  <2>2. CASE About(l, j) # {}
    <3>1. Max(About(l, j)) \in DOMAIN l
      BY <2>2, LastFacts DEF About
    <3> QED BY <1>5, <1>6, <1>7, <2>2, <3>1, LineFacts DEF LastLine
  <2> QED BY <2>1, <2>2
<1>8. m \in Store
  BY <1>3, <1>6, <1>7, StoreMade
<1> QED BY <1>5, <1>8 DEF m

\* No line is about a job of an empty log.
LEMMA EmptyLog ==
  \A j : About(<<>>, j) = {}
BY DEF About

\* A line more: it is the last about its job, and others have those they had.
LEMMA AppendSays ==
  ASSUME NEW l \in Seq(Line), NEW x \in Line
  PROVE  /\ Append(l, x) \in Seq(Line)
         /\ About(Append(l, x), x.job) # {}
         /\ LastLine(Append(l, x), x.job) = x
         /\ \A i \in DOMAIN Append(l, x) : (i \in DOMAIN l /\ Append(l, x)[i] = l[i])
                                           \/ Append(l, x)[i] = x
         /\ \A j : j # x.job => /\ About(Append(l, x), j) = About(l, j)
                                /\ \A i \in About(l, j) : Append(l, x)[i] = l[i]
<1> DEFINE m == Append(l, x)
           n == Len(l) + 1
<1>1. /\ Len(l) \in Nat /\ DOMAIN l = 1 .. Len(l)
      /\ m \in Seq(Line) /\ Len(m) = n /\ DOMAIN m = 1 .. n
      /\ m[n] = x /\ \A i \in DOMAIN l : m[i] = l[i]
  OBVIOUS
<1>2. n \in DOMAIN m /\ n \notin DOMAIN l /\ DOMAIN m = DOMAIN l \cup {n}
  BY <1>1
<1> HIDE DEF m, n
<1>3. n \in About(m, x.job)
  BY <1>1, <1>2 DEF About
<1>4. Max(About(m, x.job)) = n
  <2>1. Max(About(m, x.job)) \in DOMAIN m /\ Max(About(m, x.job)) >= n
    BY <1>1, <1>3, LastFacts DEF About
  <2> QED BY <1>1, <2>1 DEF n
<1>5. LastLine(m, x.job) = x
  BY <1>1, <1>4 DEF LastLine
<1>6. ASSUME NEW j, j # x.job
      PROVE  About(m, j) = About(l, j) /\ \A i \in About(l, j) : m[i] = l[i]
  BY <1>1, <1>2, <1>6 DEF About
<1> QED BY <1>1, <1>2, <1>3, <1>5, <1>6 DEF m, n

\* A prefix of the log has the lines of the log.
LEMMA PrefixSays ==
  ASSUME NEW l \in Seq(Line), NEW i \in DOMAIN l
  PROVE  /\ SubSeq(l, 1, i - 1) \in Seq(Line)
         /\ DOMAIN SubSeq(l, 1, i - 1) = 1 .. (i - 1)
         /\ \A k \in 1 .. (i - 1) : SubSeq(l, 1, i - 1)[k] = l[k]
<1>1. /\ Len(l) \in Nat /\ DOMAIN l = 1 .. Len(l)
      /\ \A k \in DOMAIN l : l[k] \in Line
      /\ i \in 1 .. Len(l)
  OBVIOUS
<1> DEFINE p == SubSeq(l, 1, i - 1)
<1>2. i \in Nat /\ i - 1 \in Nat /\ \A k \in 1 .. (i - 1) : l[k] \in Line
  BY <1>1
<1>3. /\ p \in Seq(Line)
      /\ Len(p) = IF 1 <= i - 1 THEN (i - 1) - 1 + 1 ELSE 0
      /\ \A k \in 1 .. ((i - 1) - 1 + 1) : p[k] = l[1 + k - 1]
  <2>1. 1 \in Int /\ i - 1 \in Int
    BY <1>2
  <2> QED BY <1>2, <2>1, SubSeqProperties
<1>4. Len(p) = i - 1 /\ (i - 1) - 1 + 1 = i - 1
  BY <1>2, <1>3
<1>5. DOMAIN p = 1 .. (i - 1)
  BY <1>3, <1>4, LenProperties
<1>6. ASSUME NEW k \in 1 .. (i - 1) PROVE p[k] = l[k]
  <2>1. 1 + k - 1 = k
    BY <1>2
  <2> QED BY <1>3, <1>4, <2>1
<1> QED BY <1>3, <1>5, <1>6

\* A log that does not count as a change has nothing to say: each of its lines
\* removes a job that is not there.
Quiet(d, l) == \A i \in DOMAIN l : l[i].op = "del" /\ l[i].job \notin DOMAIN d

LEMMA NoChange ==
  ASSUME NEW d \in Store, log \in Seq(Line), ~ChangesFrom(d)
  PROVE  Quiet(d, log) /\ MergedFrom(d) = d
<1>1. /\ Len(log) \in Nat /\ DOMAIN log = 1 .. Len(log)
      /\ \A i \in DOMAIN log : log[i].op \in {"add", "del"} /\ log[i].job \in Job
  BY LineFacts
<1>2. \A i \in DOMAIN log : /\ log[i].op # "add"
                            /\ log[i].job \notin DOMAIN FoldLeft(Apply, d, SubSeq(log, 1, i - 1))
  BY DEF ChangesFrom
<1> DEFINE Bad == {i \in DOMAIN log : log[i].job \in DOMAIN d}
<1>3. Bad = {}
  <2> SUFFICES ASSUME Bad # {} PROVE FALSE
    OBVIOUS
  <2>1. Bad \in SUBSET Nat
    BY <1>1
  <2>2. PICK i \in Bad : \A k \in Bad : i <= k
    BY <2>1, LeastNatural
  <2> DEFINE j == log[i].job
             p == SubSeq(log, 1, i - 1)
  <2>3. i \in DOMAIN log /\ j \in Job /\ j \in DOMAIN d
    BY <1>1, <2>2
  <2>4. p \in Seq(Line) /\ DOMAIN p = 1 .. (i - 1) /\ \A k \in 1 .. (i - 1) : p[k] = log[k]
    BY <2>3, PrefixSays
  <2>5. About(p, j) = {}
    <3> SUFFICES ASSUME NEW k \in 1 .. (i - 1), log[k].job = j PROVE FALSE
      BY <2>4 DEF About
    <3>1. k \in DOMAIN log /\ k < i /\ k \in Nat
      BY <1>1, <2>3
    <3>2. k \in Bad
      BY <2>3, <3>1
    <3> QED BY <1>1, <2>2, <2>3, <3>1, <3>2
  <2> HIDE DEF p
  <2>6. Same(FoldLeft(Apply, d, p), d, j)
    BY <2>3, <2>4, <2>5, LastLineDecides
  <2> QED BY <1>2, <2>3, <2>6 DEF Same, p
<1>4. Quiet(d, log)
  BY <1>1, <1>2, <1>3 DEF Quiet
<1>5. ASSUME NEW j \in Job PROVE Same(MergedFrom(d), d, j)
  <2>1. CASE About(log, j) = {}
    BY <2>1, LastLineDecides DEF MergedFrom
  <2>2. CASE About(log, j) # {}
    <3>1. Max(About(log, j)) \in DOMAIN log /\ log[Max(About(log, j))].job = j
      BY <2>2, LastFacts DEF About
    <3>2. LastLine(log, j).op # "add" /\ j \notin DOMAIN d
      BY <1>2, <1>3, <3>1 DEF LastLine
    <3> QED BY <2>2, <3>2, LastLineDecides DEF MergedFrom, Same
  <2> QED BY <2>1, <2>2
<1>6. MergedFrom(d) \in Store
  BY LastLineDecides DEF MergedFrom
<1> QED BY <1>4, <1>5, <1>6, SameStores

-----------------------------------------------------------------------------
(* Records a store or a line can hold, and the operations on stores.        *)

\* The next run of a one-time job is ahead or due as its time is, and only an
\* enabled one has it.
RecordOK(j, r) == OneShot(j) => /\ r.next = "ahead" => r.at = "ahead" /\ r.on
                                /\ r.next = "due" => r.at = "past" /\ r.on

\* A store, and a log, about jobs of b.
SoundStore(s, b) == s \in Store /\ \A j \in DOMAIN s : j \in b /\ RecordOK(j, s[j])
SoundLog(l, b) ==
  /\ l \in Seq(Line)
  /\ \A i \in DOMAIN l : /\ l[i].job \in b
                         /\ l[i].op = "add" => RecordOK(l[i].job, l[i].rec)

LEMMA NoJobsSound ==
  ASSUME NEW b
  PROVE  SoundStore(NoJobs, b) /\ SoundLog(<<>>, b)
<1>1. NoJobs = [j \in DOMAIN NoJobs |-> NoJobs[j]] /\ DOMAIN NoJobs = {}
  BY DEF NoJobs
<1>2. NoJobs \in Store
  BY <1>1, StoreMade
<1>3. <<>> \in Seq(Line) /\ DOMAIN <<>> = {}
  OBVIOUS
<1> QED BY <1>1, <1>2, <1>3 DEF SoundStore, SoundLog

\* Ids are only ever added.
LEMMA SoundGrows ==
  ASSUME NEW a, NEW b, a \subseteq b
  PROVE  /\ \A s : SoundStore(s, a) => SoundStore(s, b)
         /\ \A l : SoundLog(l, a) => SoundLog(l, b)
BY DEF SoundStore, SoundLog

LEMMA MergeSound ==
  ASSUME NEW b, NEW d, SoundStore(d, b), NEW l, SoundLog(l, b)
  PROVE  SoundStore(FoldLeft(Apply, d, l), b)
<1> DEFINE m == FoldLeft(Apply, d, l)
<1>1. d \in Store /\ l \in Seq(Line)
  BY DEF SoundStore, SoundLog
<1>2. /\ m \in Store
      /\ \A j \in Job : IF About(l, j) = {} THEN Same(m, d, j)
                        ELSE /\ j \in DOMAIN m <=> LastLine(l, j).op = "add"
                             /\ j \in DOMAIN m => m[j] = LastLine(l, j).rec
  BY <1>1, LastLineDecides
<1> HIDE DEF m
<1>3. ASSUME NEW j \in DOMAIN m PROVE j \in b /\ RecordOK(j, m[j])
  <2>1. j \in Job
    BY <1>2, StoreFacts
  <2>2. CASE About(l, j) = {}
    BY <1>2, <2>1, <2>2 DEF Same, SoundStore
  <2>3. CASE About(l, j) # {}
    <3>1. Max(About(l, j)) \in DOMAIN l /\ l[Max(About(l, j))].job = j
      BY <1>1, <2>3, LastFacts DEF About
    <3>2. LastLine(l, j).op = "add" /\ m[j] = LastLine(l, j).rec
      BY <1>2, <2>1, <2>3
    <3> QED BY <3>1, <3>2 DEF SoundLog, LastLine
  <2> QED BY <2>2, <2>3
<1> QED BY <1>2, <1>3 DEF SoundStore, m

\* Put and Drop, and what they leave alone.
LEMMA PutSays ==
  ASSUME NEW s \in Store, NEW j \in Job, NEW r \in Record
  PROVE  /\ Put(s, j, r) \in Store
         /\ DOMAIN Put(s, j, r) = DOMAIN s \cup {j}
         /\ Put(s, j, r)[j] = r
         /\ \A k : k # j => Same(Put(s, j, r), s, k)
<1> DEFINE m == Put(s, j, r)
<1>1. /\ m = [k \in DOMAIN m |-> m[k]]
      /\ DOMAIN m = DOMAIN s \cup {j}
      /\ m[j] = r /\ \A k \in DOMAIN s : k # j => m[k] = s[k]
  BY DEF Put
<1> HIDE DEF m
<1>2. m \in Store
  <2>1. DOMAIN m \subseteq Job /\ \A k \in DOMAIN m : m[k] \in Record
    BY <1>1, StoreFacts
  <2> QED BY <1>1, <2>1, StoreMade
<1>3. \A k : k # j => Same(m, s, k)
  BY <1>1 DEF Same
<1> QED BY <1>1, <1>2, <1>3 DEF m

LEMMA DropSays ==
  ASSUME NEW s \in Store, NEW j \in Job
  PROVE  /\ Drop(s, j) \in Store
         /\ j \notin DOMAIN Drop(s, j)
         /\ \A k : k # j => Same(Drop(s, j), s, k)
<1> DEFINE m == Drop(s, j)
<1>1. /\ m = [k \in DOMAIN m |-> m[k]]
      /\ DOMAIN m = DOMAIN s \ {j}
      /\ \A k \in DOMAIN m : m[k] = s[k]
  BY DEF Drop
<1> HIDE DEF m
<1>2. m \in Store
  <2>1. DOMAIN m \subseteq Job /\ \A k \in DOMAIN m : m[k] \in Record
    BY <1>1, StoreFacts
  <2> QED BY <1>1, <2>1, StoreMade
<1>3. \A k : k # j => Same(m, s, k)
  BY <1>1 DEF Same
<1> QED BY <1>1, <1>2, <1>3 DEF m

LEMMA PutSound ==
  ASSUME NEW b, NEW s, SoundStore(s, b), NEW j \in Job, j \in b, NEW r \in Record, RecordOK(j, r)
  PROVE  SoundStore(Put(s, j, r), b)
<1>1. s \in Store
  BY DEF SoundStore
<1> DEFINE m == Put(s, j, r)
<1>2. /\ m \in Store
      /\ DOMAIN m = DOMAIN s \cup {j}
      /\ m[j] = r
      /\ \A k : k # j => Same(m, s, k)
  BY <1>1, PutSays, Zenon
<1> HIDE DEF m
<1>3. \A k \in DOMAIN m : k \in b /\ RecordOK(k, m[k])
  BY <1>2 DEF SoundStore, Same
<1> QED BY <1>2, <1>3 DEF SoundStore, m

LEMMA DropSound ==
  ASSUME NEW b, NEW s, SoundStore(s, b), NEW j \in Job
  PROVE  SoundStore(Drop(s, j), b)
<1>1. s \in Store
  BY DEF SoundStore
<1> QED BY <1>1, DropSays DEF SoundStore, Same

\* What a record can be.
LEMMA RecordFacts ==
  /\ \A r \in Record : /\ r.on \in BOOLEAN /\ r.at \in {"ahead", "past"}
                       /\ r.next \in {"none", "ahead", "due"}
                       /\ r = [on |-> r.on, at |-> r.at, next |-> r.next]
  /\ \A o \in BOOLEAN, a \in {"ahead", "past"}, n \in {"none", "ahead", "due"} :
       [on |-> o, at |-> a, next |-> n] \in Record
BY DEF Record

LEMMA ScheduleSays ==
  ASSUME NEW r \in Record
  PROVE  /\ Schedule(r) \in Record
         /\ Schedule(r).on = r.on /\ Schedule(r).at = r.at
         /\ Schedule(r).next = NextRun(r)
         /\ \A j : RecordOK(j, Schedule(r))
<1>1. r = [on |-> r.on, at |-> r.at, next |-> r.next] /\ r.on \in BOOLEAN
      /\ r.at \in {"ahead", "past"}
  BY RecordFacts
<1>2. NextRun(r) \in {"none", "ahead"} /\ (NextRun(r) = "ahead" => r.at = "ahead" /\ r.on)
  BY DEF NextRun
<1>3. /\ Schedule(r) \in Record
      /\ Schedule(r).on = r.on /\ Schedule(r).at = r.at /\ Schedule(r).next = NextRun(r)
  BY <1>1, <1>2 DEF Schedule, Record
<1> QED BY <1>2, <1>3 DEF RecordOK

\* The outcome of an execution.
LEMMA ExecutedSays ==
  ASSUME NEW s \in Store, NEW j \in Job, Kind[j] \in Kinds
  PROVE  /\ Executed(s, j) \in Store
         /\ \A k : k # j => Same(Executed(s, j), s, k)
         /\ j \notin DOMAIN s => j \notin DOMAIN Executed(s, j)
         /\ Kind[j] = "once" => j \notin DOMAIN Executed(s, j)
         /\ j \in DOMAIN s /\ Kind[j] = "keep" =>
              /\ j \in DOMAIN Executed(s, j) /\ Executed(s, j)[j].next = "none"
              /\ Executed(s, j)[j].at = s[j].at
              /\ Executed(s, j)[j] = [s[j] EXCEPT !.on = FALSE, !.next = "none"]
         /\ j \in DOMAIN s /\ Kind[j] = "every" =>
              /\ j \in DOMAIN Executed(s, j)
              /\ Executed(s, j)[j] = [s[j] EXCEPT !.next = "ahead"]
<1>1. CASE j \notin DOMAIN s
  <2>1. Executed(s, j) = s
    BY <1>1 DEF Executed
  <2> QED BY <1>1, <2>1 DEF Same
<1>2. CASE j \in DOMAIN s
  <2>1. s[j] \in Record
    BY <1>2, StoreFacts
  <2>2. CASE Kind[j] = "once"
    <3>1. Executed(s, j) = Drop(s, j)
      BY <1>2, <2>2 DEF Executed
    <3> QED BY <1>2, <2>2, <3>1, DropSays
  <2>3. CASE Kind[j] = "keep"
    <3> DEFINE r == [s[j] EXCEPT !.on = FALSE, !.next = "none"]
    <3>1. Executed(s, j) = Put(s, j, r)
      BY <1>2, <2>3 DEF Executed
    <3>2. r \in Record /\ r.next = "none" /\ r.at = s[j].at
      BY <2>1 DEF Record
    <3> HIDE DEF r
    <3>3. /\ Put(s, j, r) \in Store
          /\ DOMAIN Put(s, j, r) = DOMAIN s \cup {j}
          /\ Put(s, j, r)[j] = r
          /\ \A k : k # j => Same(Put(s, j, r), s, k)
      BY <3>2, PutSays, Zenon
    <3> QED BY <1>2, <2>3, <3>1, <3>2, <3>3 DEF r
  <2>4. CASE Kind[j] = "every"
    <3> DEFINE r == [s[j] EXCEPT !.next = "ahead"]
    <3>1. Executed(s, j) = Put(s, j, r)
      BY <1>2, <2>4 DEF Executed
    <3>2. r \in Record
      BY <2>1 DEF Record
    <3> HIDE DEF r
    <3>3. /\ Put(s, j, r) \in Store
          /\ DOMAIN Put(s, j, r) = DOMAIN s \cup {j}
          /\ Put(s, j, r)[j] = r
          /\ \A k : k # j => Same(Put(s, j, r), s, k)
      BY <3>2, PutSays, Zenon
    <3> QED BY <1>2, <2>4, <3>1, <3>2, <3>3 DEF r
  <2> QED BY <2>2, <2>3, <2>4 DEF Kinds
<1> QED BY <1>1, <1>2

LEMMA ExecutedSound ==
  ASSUME NEW b, NEW s, SoundStore(s, b), NEW j \in Job, Kind[j] \in Kinds
  PROVE  SoundStore(Executed(s, j), b)
<1> DEFINE m == Executed(s, j)
<1>1. s \in Store
  BY DEF SoundStore
<1>2. /\ m \in Store /\ \A k : k # j => Same(m, s, k)
      /\ j \notin DOMAIN s => j \notin DOMAIN m
      /\ Kind[j] = "once" => j \notin DOMAIN m
      /\ j \in DOMAIN s /\ Kind[j] = "keep" => j \in DOMAIN m /\ m[j].next = "none"
  BY <1>1, ExecutedSays
<1> HIDE DEF m
<1>3. \A k \in DOMAIN m : k \in DOMAIN s
  BY <1>2 DEF Same
<1>4. ASSUME NEW k \in DOMAIN m PROVE k \in b /\ RecordOK(k, m[k])
  <2>1. k \in DOMAIN s
    BY <1>3
  <2>2. CASE k # j
    BY <1>2, <2>1, <2>2 DEF Same, SoundStore
  <2>3. CASE k = j
    BY <1>2, <2>1, <2>3 DEF SoundStore, RecordOK, Kinds, OneShot
  <2> QED BY <2>2, <2>3
<1> QED BY <1>2, <1>4 DEF SoundStore, m

\* The time of a job comes.
LEMMA PassedSays ==
  ASSUME NEW j, NEW r \in Record
  PROVE  /\ Passed(j, r) \in Record
         /\ Passed(j, r).on = r.on
         /\ Passed(j, r).at = IF OneShot(j) THEN "past" ELSE r.at
         /\ Passed(j, r).next = IF r.next = "ahead" THEN "due" ELSE r.next
         /\ RecordOK(j, r) => RecordOK(j, Passed(j, r))
<1>1. r = [on |-> r.on, at |-> r.at, next |-> r.next] /\ r.on \in BOOLEAN
      /\ r.at \in {"ahead", "past"} /\ r.next \in {"none", "ahead", "due"}
  BY RecordFacts
<1>2. /\ Passed(j, r) \in Record
      /\ Passed(j, r).on = r.on
      /\ Passed(j, r).at = IF OneShot(j) THEN "past" ELSE r.at
      /\ Passed(j, r).next = IF r.next = "ahead" THEN "due" ELSE r.next
  BY <1>1 DEF Passed, Record
<1> QED BY <1>1, <1>2 DEF RecordOK

-----------------------------------------------------------------------------
(* The types, and what they rest on.                                        *)

\* The stores and the log are about ids in use.
Stores ==
  /\ SoundStore(mem, born) /\ SoundStore(disk, born) /\ SoundLog(log, born)
  /\ born \subseteq Job
  /\ faults \in 0 .. MaxFaults /\ failed \subseteq Job

\* The timer task has a job in execution, and the rest of its batch, while it runs.
Timers ==
  /\ timer \in {"off", "asleep", "running", "dead"} /\ unwinding \in BOOLEAN
  /\ cur \in Job \cup {None} /\ (timer = "running" => cur \in born \ batch)
  /\ batch \subseteq born /\ (timer # "running" => batch = {})
  /\ runs \in [Job -> 0 .. 2] /\ (\A j \in Job : runs[j] > 0 => j \in born)
  /\ cut \subseteq Job

\* A service is up and running from its start to stop(); run_job puts back what
\* it found, and what it runs it has noted.
Life ==
  /\ up \in {"no", "yes", "ending"} /\ running \in BOOLEAN
  /\ system \in {c.own : c \in Casts}
  /\ manual \in [Job -> {"no", "asked", "held", "stale"}]
  /\ was \in [Job -> BOOLEAN]
  /\ ops \in 0 .. MaxOps
  /\ byHand \subseteq Job
  /\ up = "no" => timer = "off" /\ \A j \in Job : manual[j] = "no"
  /\ up = "yes" => running
  /\ \A j \in Job : manual[j] \in {"held", "stale"} => /\ up = "yes" => was[j]
                                                       /\ OneShot(j) => j \in byHand

Base == Stores /\ Timers /\ Life

LEMMA BaseTypes == Base => TypeOK
BY DEF Base, Stores, Timers, Life, TypeOK, SoundStore, SoundLog

\* The jobs the gateway registers are its own, and recurring.
LEMMA SystemFacts ==
  ASSUME Life
  PROVE  /\ system \subseteq Job
         /\ \A j \in system : Kind[j] = "every" /\ ~OneShot(j)
<1>1. PICK c \in Casts : system = c.own
  BY DEF Life
<1>2. c \in [own : SUBSET Job, users : SUBSET Job] /\ \A j \in Job : j \in c.own => Kind[j] = "every"
  BY CronAssumption
<1> QED BY <1>1, <1>2 DEF OneShot

LEMMA KindFacts == \A j \in Job : Kind[j] \in Kinds
BY CronAssumption

\* A load reads sound stores and leaves sound ones.
LEMMA LoadedSound ==
  ASSUME Stores
  PROVE  /\ SoundStore(Merged, born) /\ SoundStore(Loaded, born)
         /\ \A r : SoundStore(DiskAfter(r), born) /\ SoundLog(LogLeft(r), born)
<1>1. SoundStore(Merged, born)
  BY MergeSound DEF Stores, Merged, MergedFrom
<1>2. SoundStore(Loaded, born)
  BY <1>1 DEF Stores, Loaded
<1>3. ASSUME NEW r PROVE SoundStore(DiskAfter(r), born) /\ SoundLog(LogLeft(r), born)
  BY <1>1, NoJobsSound DEF Stores, DiskAfter, LogLeft
<1> QED BY <1>1, <1>2, <1>3

\* The stores after a step are sound for the ids b.
SoundAfter(b) ==
  /\ SoundStore(mem', b) /\ SoundStore(disk', b) /\ SoundLog(log', b)
  /\ faults' \in 0 .. MaxFaults /\ failed' \subseteq Job

LEMMA FaultSound ==
  ASSUME faults \in 0 .. MaxFaults, Fault
  PROVE  faults' \in 0 .. MaxFaults
BY CronAssumption DEF Fault

LEMMA LoadKeeps ==
  ASSUME Stores, NEW r, Load(r) \/ LoadFails(r)
  PROVE  SoundAfter(born)
<1>1. CASE Load(r)
  BY <1>1, LoadedSound DEF Load, SoundAfter, Stores, faultVars
<1>2. CASE LoadFails(r)
  <2>1. failed' \subseteq Job
    BY <1>2, LineFacts DEF LoadFails, Stores, SoundLog
  <2> QED BY <1>2, <2>1, LoadedSound, NoJobsSound, FaultSound DEF LoadFails, SoundAfter, Stores
<1> QED BY <1>1, <1>2

LEMMA SaveKeeps ==
  ASSUME Stores, NEW b, born \subseteq b, NEW m, SoundStore(m, b), NEW r, NEW js \in SUBSET Job,
         Save(r, m) \/ SaveFails(r, m, js)
  PROVE  SoundAfter(b)
<1>1. SoundStore(DiskAfter(r), b) /\ SoundLog(LogLeft(r), b)
  BY LoadedSound, SoundGrows
<1>2. CASE Save(r, m)
  BY <1>1, <1>2 DEF Save, SoundAfter, Stores, faultVars
<1>3. CASE SaveFails(r, m, js)
  BY <1>1, <1>3, FaultSound DEF SaveFails, SoundAfter, Stores
<1> QED BY <1>2, <1>3

LEMMA CommitKeeps ==
  ASSUME Stores, NEW b, born \subseteq b, NEW j \in Job, NEW m, SoundStore(m, b), Commit(j, m)
  PROVE  SoundAfter(b)
<1>1. CASE Save(TRUE, m) \/ SaveFails(TRUE, m, {j})
  <2>1. {j} \in SUBSET Job
    OBVIOUS
  <2> QED BY <1>1, <2>1, SaveKeeps
<1>2. CASE LoadFails(TRUE)
  <2>1. SoundAfter(born)
    BY <1>2, LoadKeeps
  <2> QED BY <2>1, SoundGrows DEF SoundAfter
<1> QED BY <1>1, <1>2 DEF Commit

\* A line about an id in use.
SoundLine(x, b) == x \in Line /\ x.job \in b /\ (x.op = "add" => RecordOK(x.job, x.rec))

LEMMA NoteKeeps ==
  ASSUME Stores, NEW b, born \subseteq b, NEW x, SoundLine(x, b)
  PROVE  SoundLog(Append(log, x), b)
<1>1. SoundLog(log, b)
  BY SoundGrows DEF Stores
<1>2. /\ Append(log, x) \in Seq(Line)
      /\ \A i \in DOMAIN Append(log, x) : (i \in DOMAIN log /\ Append(log, x)[i] = log[i])
                                          \/ Append(log, x)[i] = x
  BY <1>1, AppendSays DEF SoundLog, SoundLine
<1> QED BY <1>1, <1>2 DEF SoundLog, SoundLine

LEMMA LinesSound ==
  ASSUME NEW b, NEW j \in Job, j \in b
  PROVE  /\ SoundLine(Delete(j), b) /\ Delete(j).job = j /\ Delete(j).op = "del"
         /\ \A r \in Record : /\ RecordOK(j, r) => SoundLine(Update(j, r), b)
                              /\ Update(j, r).job = j /\ Update(j, r).op = "add"
                              /\ Update(j, r).rec = r
BY DEF SoundLine, Delete, Update, Line

LEMMA NewRecordFacts ==
  ASSUME NEW j, NEW r \in NewRecords(j)
  PROVE  r \in Record /\ RecordOK(j, r)
<1>1. PICK a \in Times(j) : r = Schedule([on |-> TRUE, at |-> a, next |-> "none"])
  BY DEF NewRecords
<1>2. [on |-> TRUE, at |-> a, next |-> "none"] \in Record
  BY DEF Times, Record
<1> QED BY <1>1, <1>2, ScheduleSays

\* What the four edits of a job have in common: the store m they make of what
\* they load, the line x they write instead in a service that is stopped, and
\* what is particular to each.
Edit(j, m, x) ==
  /\ SoundStore(m, born') /\ SoundLine(x, born') /\ x.job = j
  /\ \A k : k # j => Same(m, Loaded, k)
  /\ IF x.op = "add" THEN j \in DOMAIN m /\ m[j] = x.rec ELSE j \notin DOMAIN m
  /\ \/ Commit(j, m)
     \/ Note(x) /\ mem' = m /\ manual' = Detached
     \/ Note(x) /\ UNCHANGED <<mem, manual>> /\ j \notin born
  /\ \/ /\ j \notin born \cup system /\ born' = born \cup {j}
        /\ runs' = runs /\ x.op = "add"
     \/ /\ j \in DOMAIN Loaded \ system /\ born' = born
        /\ \/ RemoveJob(j) /\ runs' = runs /\ x.op = "del"
           \/ /\ EnableJob(j) /\ runs' = runs /\ x.op = "add"
              /\ x.rec.at = Loaded[j].at /\ x.rec.next = NextRun(x.rec)
           \/ UpdateJob(j) /\ runs' = [runs EXCEPT ![j] = 0] /\ x.op = "add"
  /\ Op /\ UNCHANGED <<up, running, system, was, byHand>>

\* The store and the line that give job j the record r.
LEMMA PutShape ==
  ASSUME Stores, NEW b, born \subseteq b, NEW j \in Job, j \in b, NEW r \in Record, RecordOK(j, r)
  PROVE  /\ SoundStore(Put(Loaded, j, r), b)
         /\ \A k : k # j => Same(Put(Loaded, j, r), Loaded, k)
         /\ j \in DOMAIN Put(Loaded, j, r) /\ Put(Loaded, j, r)[j] = r
         /\ SoundLine(Update(j, r), b) /\ Update(j, r).job = j
         /\ Update(j, r).op = "add" /\ Update(j, r).rec = r
<1>1. SoundStore(Loaded, b)
  BY LoadedSound, SoundGrows
<1>2. SoundStore(Put(Loaded, j, r), b)
  BY <1>1, PutSound, Zenon
<1>3. Loaded \in Store
  BY <1>1 DEF SoundStore
<1>4. /\ \A k : k # j => Same(Put(Loaded, j, r), Loaded, k)
      /\ DOMAIN Put(Loaded, j, r) = DOMAIN Loaded \cup {j}
      /\ Put(Loaded, j, r)[j] = r
  BY <1>3, PutSays, Zenon
<1> QED BY <1>2, <1>4, LinesSound

LEMMA EditShape ==
  ASSUME Base, NEW j \in Job, AddJob(j) \/ RemoveJob(j) \/ EnableJob(j) \/ UpdateJob(j)
  PROVE  \E m, x : Edit(j, m, x)
<1>1. Stores /\ SoundStore(Loaded, born) /\ Loaded \in Store
  BY LoadedSound DEF Base, SoundStore
<1>2. CASE AddJob(j)
  <2>1. PICK r \in NewRecords(j) : \/ Commit(j, Put(Loaded, j, r))
                                   \/ Note(Update(j, r)) /\ UNCHANGED <<mem, manual>>
    BY <1>2 DEF AddJob
  <2>2. r \in Record /\ RecordOK(j, r)
    BY NewRecordFacts
  <2>3. /\ Op /\ j \notin born \cup system /\ born' = born \cup {j}
        /\ UNCHANGED <<up, running, system, was, runs, byHand>>
    BY <1>2 DEF AddJob
  <2> DEFINE m == Put(Loaded, j, r)
             x == Update(j, r)
  <2>4. /\ SoundStore(m, born') /\ SoundLine(x, born') /\ x.job = j
        /\ \A k : k # j => Same(m, Loaded, k)
        /\ j \in DOMAIN m /\ m[j] = x.rec /\ x.op = "add"
    <3>1. born \subseteq born' /\ j \in born'
      BY <2>3
    <3> QED BY <1>1, <2>2, <3>1, PutShape
  <2>5. Edit(j, m, x)
    <3> HIDE DEF m, x
    <3>1. \/ Commit(j, m)
          \/ Note(x) /\ mem' = m /\ manual' = Detached
          \/ Note(x) /\ UNCHANGED <<mem, manual>> /\ j \notin born
      BY <2>1, <2>3 DEF m, x
    <3> QED BY <2>3, <2>4, <3>1 DEF Edit
  <2> QED BY <2>5
<1>3. CASE RemoveJob(j)
  <2> DEFINE m == Drop(Loaded, j)
             x == Delete(j)
  <2>1. /\ Op /\ j \in DOMAIN Loaded \ system /\ born' = born
        /\ Commit(j, m) \/ (Note(x) /\ mem' = m /\ manual' = Detached)
        /\ UNCHANGED <<up, running, system, was, runs, byHand>>
    BY <1>3 DEF RemoveJob, Editable, Edited
  <2>2. j \in born
    BY <1>1, <2>1 DEF SoundStore
  <2>3. /\ SoundStore(m, born') /\ SoundLine(x, born') /\ x.job = j
        /\ \A k : k # j => Same(m, Loaded, k)
        /\ j \notin DOMAIN m /\ x.op = "del"
    BY <1>1, <2>1, <2>2, DropSound, DropSays, LinesSound
  <2>4. Edit(j, m, x)
    <3> HIDE DEF m, x
    <3> QED BY <1>3, <2>1, <2>3 DEF Edit
  <2> QED BY <2>4
<1>4. CASE EnableJob(j)
  <2>1. /\ Op /\ j \in DOMAIN Loaded \ system /\ born' = born
        /\ UNCHANGED <<up, running, system, was, runs, byHand>>
    BY <1>4 DEF EnableJob, Editable
  <2>2. PICK on \in BOOLEAN :
          LET r == Schedule([Loaded[j] EXCEPT !.on = on]) IN
          Edited(j, Put(Loaded, j, r), Update(j, r))
    BY <1>4 DEF EnableJob
  <2> DEFINE q == [Loaded[j] EXCEPT !.on = on]
             r == Schedule(q)
             m == Put(Loaded, j, r)
             x == Update(j, r)
  <2>3. j \in born /\ Loaded[j] \in Record
    BY <1>1, <2>1, StoreFacts DEF SoundStore
  <2>4. q \in Record /\ q.at = Loaded[j].at
    BY <2>3 DEF Record
  <2>5. /\ r \in Record /\ RecordOK(j, r)
        /\ r.at = Loaded[j].at /\ r.next = NextRun(r)
    <3> HIDE DEF q
    <3>1. r \in Record /\ RecordOK(j, r) /\ r.at = q.at /\ r.on = q.on /\ r.next = NextRun(q)
      BY <2>4, ScheduleSays
    <3> QED BY <2>4, <3>1 DEF NextRun
  <2>6. Commit(j, m) \/ (Note(x) /\ mem' = m /\ manual' = Detached)
    BY <2>2 DEF Edited
  <2> HIDE DEF r
  <2>7. /\ SoundStore(m, born') /\ SoundLine(x, born') /\ x.job = j
        /\ \A k : k # j => Same(m, Loaded, k)
        /\ j \in DOMAIN m /\ m[j] = x.rec /\ x.op = "add" /\ x.rec = r
    <3>1. born \subseteq born' /\ j \in born'
      BY <2>1, <2>3
    <3> QED BY <1>1, <2>5, <3>1, PutShape
  <2>8. Edit(j, m, x)
    <3> HIDE DEF m, x
    <3> QED BY <1>4, <2>1, <2>5, <2>6, <2>7 DEF Edit
  <2> QED BY <2>8
<1>5. CASE UpdateJob(j)
  <2>1. /\ Op /\ j \in DOMAIN Loaded \ system /\ born' = born
        /\ runs' = [runs EXCEPT ![j] = 0]
        /\ UNCHANGED <<up, running, system, was, byHand>>
    BY <1>5 DEF UpdateJob, Editable
  <2>2. PICK a \in Times(j) :
          LET r == Schedule([Loaded[j] EXCEPT !.at = a]) IN
          Edited(j, Put(Loaded, j, r), Update(j, r))
    BY <1>5 DEF UpdateJob
  <2> DEFINE q == [Loaded[j] EXCEPT !.at = a]
             r == Schedule(q)
             m == Put(Loaded, j, r)
             x == Update(j, r)
  <2>3. j \in born /\ Loaded[j] \in Record
    BY <1>1, <2>1, StoreFacts DEF SoundStore
  <2>4. q \in Record
    BY <2>3 DEF Record, Times
  <2>5. r \in Record /\ RecordOK(j, r)
    BY <2>4, ScheduleSays
  <2>6. Commit(j, m) \/ (Note(x) /\ mem' = m /\ manual' = Detached)
    BY <2>2 DEF Edited
  <2> HIDE DEF r
  <2>7. /\ SoundStore(m, born') /\ SoundLine(x, born') /\ x.job = j
        /\ \A k : k # j => Same(m, Loaded, k)
        /\ j \in DOMAIN m /\ m[j] = x.rec /\ x.op = "add"
    <3>1. born \subseteq born' /\ j \in born'
      BY <2>1, <2>3
    <3> QED BY <1>1, <2>5, <3>1, PutShape
  <2>8. Edit(j, m, x)
    <3> HIDE DEF m, x
    <3> QED BY <1>5, <2>1, <2>6, <2>7 DEF Edit
  <2> QED BY <2>8
<1> QED BY <1>2, <1>3, <1>4, <1>5

\* start: the stores it makes.
LEMMA RegisteredSays ==
  ASSUME Base
  PROVE  /\ SoundStore(Registered, born \cup system)
         /\ DOMAIN Registered = DOMAIN Merged \cup system
         /\ \A j : j \notin system => Same(Registered, Merged, j)
<1> DEFINE m == Registered
           r == [on |-> TRUE, at |-> "ahead", next |-> "ahead"]
<1>1. /\ m = [j \in DOMAIN m |-> m[j]]
      /\ DOMAIN m = DOMAIN Merged \cup system
      /\ \A j \in DOMAIN m : m[j] = IF j \in system THEN r ELSE Merged[j]
  BY DEF Registered
<1>2. SoundStore(Merged, born) /\ Merged \in Store
  BY LoadedSound DEF Base, SoundStore
<1>3. system \subseteq Job /\ \A j \in system : ~OneShot(j)
  BY SystemFacts DEF Base
<1>4. r \in Record
  BY DEF Record
<1> HIDE DEF m, r
<1>5. DOMAIN m \subseteq Job /\ \A j \in DOMAIN m : m[j] \in Record
  BY <1>1, <1>2, <1>3, <1>4, StoreFacts
<1>6. m \in Store
  BY <1>1, <1>5, StoreMade
<1>7. \A j \in DOMAIN m : j \in born \cup system /\ RecordOK(j, m[j])
  BY <1>1, <1>2, <1>3 DEF SoundStore, RecordOK
<1>8. \A j : j \notin system => Same(m, Merged, j)
  BY <1>1 DEF Same
<1> QED BY <1>1, <1>6, <1>7, <1>8 DEF SoundStore, m

LEMMA BeforeSays ==
  ASSUME Base
  PROVE  /\ SoundStore(Before, born \cup system)
         /\ Before = IF system = {} THEN disk ELSE Registered
<1>1. SoundStore(disk, born \cup system)
  BY SoundGrows DEF Base, Stores
<1> QED BY <1>1, RegisteredSays DEF Before

LEMMA RescheduledSays ==
  ASSUME NEW b, NEW m, SoundStore(m, b)
  PROVE  /\ SoundStore(Rescheduled(m), b)
         /\ DOMAIN Rescheduled(m) = DOMAIN m
         /\ \A j \in DOMAIN m : /\ Rescheduled(m)[j].at = m[j].at
                                /\ OneShot(j) /\ m[j].at = "past" => Rescheduled(m)[j].next = "none"
<1> DEFINE n == Rescheduled(m)
<1>1. /\ n = [j \in DOMAIN n |-> n[j]] /\ DOMAIN n = DOMAIN m
      /\ \A j \in DOMAIN m : n[j] = IF m[j].on THEN Schedule(m[j]) ELSE m[j]
  BY DEF Rescheduled
<1>2. m \in Store /\ \A j \in DOMAIN m : j \in Job /\ j \in b /\ m[j] \in Record /\ RecordOK(j, m[j])
  BY StoreFacts DEF SoundStore
<1> HIDE DEF n
<1>3. ASSUME NEW j \in DOMAIN m
      PROVE  /\ n[j] \in Record /\ RecordOK(j, n[j]) /\ n[j].at = m[j].at
             /\ OneShot(j) /\ m[j].at = "past" => n[j].next = "none"
  <2>1. CASE m[j].on
    <3>1. n[j] = Schedule(m[j])
      BY <1>1, <2>1
    <3> QED BY <1>2, <3>1, ScheduleSays DEF NextRun
  <2>2. CASE ~m[j].on
    <3>1. n[j] = m[j]
      BY <1>1, <2>2
    <3> QED BY <1>2, <2>2, <3>1, RecordFacts DEF RecordOK
  <2> QED BY <2>1, <2>2
<1>4. DOMAIN n \subseteq Job /\ \A j \in DOMAIN n : n[j] \in Record
  BY <1>1, <1>2, <1>3
<1>5. n \in Store
  BY <1>1, <1>4, StoreMade
<1> QED BY <1>1, <1>2, <1>3, <1>5 DEF SoundStore, n

\* The time of a job comes, in a store and in the log.
LEMMA PassedSound ==
  ASSUME NEW b, NEW s, SoundStore(s, b), NEW j \in Job
  PROVE  /\ SoundStore(PassedIn(s, j), b)
         /\ DOMAIN PassedIn(s, j) = DOMAIN s
         /\ \A k \in DOMAIN s : PassedIn(s, j)[k] = IF k = j THEN Passed(j, s[j]) ELSE s[k]
<1> DEFINE n == PassedIn(s, j)
<1>1. /\ n = [k \in DOMAIN n |-> n[k]] /\ DOMAIN n = DOMAIN s
      /\ \A k \in DOMAIN s : n[k] = IF k = j THEN Passed(j, s[j]) ELSE s[k]
  BY DEF PassedIn
<1>2. s \in Store /\ \A k \in DOMAIN s : k \in Job /\ k \in b /\ s[k] \in Record /\ RecordOK(k, s[k])
  BY StoreFacts DEF SoundStore
<1> HIDE DEF n
<1>3. ASSUME NEW k \in DOMAIN s PROVE n[k] \in Record /\ RecordOK(k, n[k])
  <2>1. CASE k # j
    BY <1>1, <1>2, <2>1
  <2>2. CASE k = j
    <3>1. n[k] = Passed(j, s[j])
      BY <1>1, <2>2
    <3>2. s[j] \in Record /\ RecordOK(j, s[j])
      BY <1>2, <2>2
    <3> QED BY <2>2, <3>1, <3>2, PassedSays
  <2> QED BY <2>1, <2>2
<1>4. DOMAIN n \subseteq Job /\ \A k \in DOMAIN n : n[k] \in Record
  BY <1>1, <1>2, <1>3
<1>5. n \in Store
  BY <1>1, <1>4, StoreMade
<1> QED BY <1>1, <1>2, <1>3, <1>5 DEF SoundStore, n

PassedLine(x, j) == IF x.job = j /\ x.op = "add" THEN [x EXCEPT !.rec = Passed(j, @)] ELSE x

LEMMA PassedLineSays ==
  ASSUME NEW x \in Line, NEW j \in Job
  PROVE  /\ PassedLine(x, j) \in Line
         /\ PassedLine(x, j).job = x.job /\ PassedLine(x, j).op = x.op
         /\ x.op = "add" => PassedLine(x, j).rec = IF x.job = j THEN Passed(j, x.rec) ELSE x.rec
<1>1. CASE x.job = j /\ x.op = "add"
  <2>1. x \in [op : {"add"}, job : Job, rec : Record]
    BY <1>1 DEF Line
  <2>2. Passed(j, x.rec) \in Record
    BY <2>1, PassedSays
  <2>3. PassedLine(x, j) = [x EXCEPT !.rec = Passed(j, x.rec)]
    BY <1>1 DEF PassedLine
  <2> HIDE DEF PassedLine
  <2>4. /\ [x EXCEPT !.rec = Passed(j, x.rec)] \in [op : {"add"}, job : Job, rec : Record]
        /\ [x EXCEPT !.rec = Passed(j, x.rec)].job = x.job
        /\ [x EXCEPT !.rec = Passed(j, x.rec)].op = x.op
        /\ [x EXCEPT !.rec = Passed(j, x.rec)].rec = Passed(j, x.rec)
    BY <2>1, <2>2
  <2> QED BY <1>1, <2>3, <2>4 DEF Line
<1>2. CASE ~(x.job = j /\ x.op = "add")
  BY <1>2 DEF PassedLine
<1> QED BY <1>1, <1>2

LEMMA ElapseLog ==
  ASSUME NEW b, SoundLog(log, b), NEW j \in Job, Elapse(j)
  PROVE  /\ SoundLog(log', b)
         /\ \A k : About(log', k) = About(log, k)
         /\ \A i \in DOMAIN log : log'[i] = PassedLine(log[i], j)
<1>1. /\ Len(log) \in Nat /\ DOMAIN log = 1 .. Len(log)
      /\ \A i \in DOMAIN log : log[i] \in Line
  BY LineFacts DEF SoundLog
<1>2. log' = [i \in DOMAIN log |-> PassedLine(log[i], j)]
  BY DEF Elapse, PassedLine
<1>3. \A i \in DOMAIN log : /\ PassedLine(log[i], j) \in Line
                            /\ PassedLine(log[i], j).job = log[i].job
                            /\ PassedLine(log[i], j).op = log[i].op
                            /\ log[i].op = "add" => PassedLine(log[i], j).rec =
                                 IF log[i].job = j THEN Passed(j, log[i].rec) ELSE log[i].rec
  BY <1>1, PassedLineSays
<1>4. log' \in [1 .. Len(log) -> Line]
  BY <1>1, <1>2, <1>3
<1>5. log' \in Seq(Line)
  BY <1>1, <1>4, IsASeq
<1>6. ASSUME NEW i \in DOMAIN log, log[i].op = "add", RecordOK(log[i].job, log[i].rec)
      PROVE  RecordOK(log[i].job, PassedLine(log[i], j).rec)
  <2>1. log[i].rec \in Record
    BY <1>6, LineFacts DEF SoundLog
  <2> QED BY <1>3, <1>6, <2>1, PassedSays
<1>7. SoundLog(log', b)
  BY <1>2, <1>3, <1>5, <1>6 DEF SoundLog
<1>8. ASSUME NEW k PROVE About(log', k) = About(log, k)
  BY <1>2, <1>3 DEF About
<1> QED BY <1>2, <1>7, <1>8

\* Each step leaves sound stores.
LEMMA SoundNext ==
  ASSUME SoundAfter(born'), born' \subseteq Job
  PROVE  Stores'
BY DEF SoundAfter, Stores

LEMMA SameStoresSound ==
  ASSUME Stores, UNCHANGED <<mem, disk, log, faults, failed>>
  PROVE  SoundAfter(born)
BY DEF Stores, SoundAfter

LEMMA StoresInit == Init => Stores
BY NoJobsSound, CronAssumption DEF Init, Stores

LEMMA StoresNext ==
  ASSUME Base, [Next]_vars
  PROVE  Stores' /\ born \subseteq born'
<1>1. Stores
  BY DEF Base
<1>2. ASSUME born' = born, SoundAfter(born) PROVE Stores' /\ born \subseteq born'
  BY <1>1, <1>2, SoundNext DEF Stores
<1>3. ASSUME born' = born, UNCHANGED <<mem, disk, log, faults, failed>> PROVE Stores' /\ born \subseteq born'
  BY <1>1, <1>2, <1>3, SameStoresSound
<1>4. DOMAIN mem \subseteq Job /\ DOMAIN disk \subseteq Job
  BY <1>1, StoreFacts DEF Stores, SoundStore
<1>5. CASE UNCHANGED vars
  BY <1>3, <1>5 DEF vars, storeVars, faultVars
<1>6. CASE Start
  <2>1. mem' = Rescheduled(Registered) /\ disk' = Rescheduled(Registered)
        /\ (log' = <<>> \/ log' = log) /\ born' = born \cup system
        /\ UNCHANGED <<faults, failed>>
    BY <1>6 DEF Start, faultVars
  <2>2. SoundStore(Rescheduled(Registered), born') /\ SoundLog(log, born')
    BY <1>1, <2>1, RegisteredSays, RescheduledSays, SoundGrows DEF Stores
  <2>3. SoundAfter(born')
    BY <1>1, <2>1, <2>2, NoJobsSound DEF SoundAfter, Stores
  <2>4. born' \subseteq Job
    BY <1>1, <2>1, SystemFacts DEF Base, Stores
  <2> QED BY <2>1, <2>3, <2>4, SoundNext
<1>7. CASE StartFails
  <2>1. /\ mem' = mem /\ (disk' = Before \/ disk' = Registered)
        /\ (log' = <<>> \/ log' = log) /\ born' = born \cup system /\ Fault
        /\ (failed' = failed \/ failed' = failed \cup {log[i].job : i \in DOMAIN log})
    BY <1>7 DEF StartFails
  <2>2. /\ SoundStore(Before, born') /\ SoundStore(Registered, born')
        /\ SoundStore(mem, born') /\ SoundLog(log, born')
    BY <1>1, <2>1, RegisteredSays, BeforeSays, SoundGrows DEF Stores
  <2>3. failed' \subseteq Job
    BY <1>1, <2>1, LineFacts DEF Stores, SoundLog
  <2>4. SoundAfter(born')
    BY <1>1, <2>1, <2>2, <2>3, NoJobsSound, FaultSound DEF SoundAfter, Stores
  <2>5. born' \subseteq Job
    BY <1>1, <2>1, SystemFacts DEF Base, Stores
  <2> QED BY <2>1, <2>4, <2>5, SoundNext
<1>8. CASE Stop
  BY <1>3, <1>8 DEF Stop, storeVars, faultVars
<1>9. CASE Crash
  <2>1. mem' = NoJobs /\ UNCHANGED <<disk, log, faults, failed>> /\ born' = born
    BY <1>9 DEF Crash, faultVars
  <2> QED BY <1>1, <1>2, <2>1, NoJobsSound DEF SoundAfter, Stores
<1>10. CASE Fire
  <2>1. born' = born
    BY <1>10 DEF Fire
  <2>2. \/ UNCHANGED <<mem, disk, log, faults, failed>>
        \/ Load(TRUE) \/ LoadFails(TRUE)
        \/ Save(TRUE, Merged) \/ SaveFails(TRUE, Merged, {})
    BY <1>10 DEF Fire, storeVars, faultVars
  <2>3. SoundStore(Merged, born) /\ {} \in SUBSET Job
    BY <1>1, LoadedSound
  <2>4. SoundAfter(born)
    BY <1>1, <2>2, <2>3, SameStoresSound, LoadKeeps, SaveKeeps
  <2> QED BY <1>2, <2>1, <2>4
<1>11. CASE TurnEnds
  <2>1. /\ born' = born /\ timer = "running"
        /\ mem' = Executed(mem, cur) /\ log' = log
        /\ disk' = disk \/ disk' = Executed(mem, cur)
        /\ \/ UNCHANGED <<faults, failed>>
           \/ Fault /\ failed' = failed \cup (DueJobs(disk) \ DueJobs(Executed(mem, cur)))
    BY <1>11 DEF TurnEnds, faultVars
  <2>2. cur \in Job
    BY <1>1, <2>1 DEF Base, Timers, Stores
  <2>3. SoundStore(Executed(mem, cur), born)
    BY <1>1, <2>2, ExecutedSound, KindFacts DEF Stores
  <2>4. failed' \subseteq Job
    BY <1>1, <1>4, <2>1 DEF Stores, DueJobs
  <2> QED BY <1>1, <1>2, <2>1, <2>3, <2>4, FaultSound DEF SoundAfter, Stores
<1>12. CASE Unwind
  BY <1>3, <1>12 DEF Unwind, storeVars, faultVars
<1>13. CASE ListJobs
  <2>1. born' = born /\ (Load(running) \/ LoadFails(running))
    BY <1>13 DEF ListJobs
  <2> QED BY <1>1, <1>2, <2>1, LoadKeeps
<1>14. ASSUME NEW j \in Job, AddJob(j) \/ RemoveJob(j) \/ EnableJob(j) \/ UpdateJob(j)
      PROVE  Stores' /\ born \subseteq born'
  <2>1. PICK m, x : Edit(j, m, x)
    BY <1>14, EditShape
  <2>2. born \subseteq born' /\ born' \subseteq Job
    BY <1>1, <2>1 DEF Edit, Stores
  <2>3. CASE Commit(j, m)
    <3>1. SoundStore(m, born')
      BY <2>1 DEF Edit
    <3> QED BY <1>1, <2>2, <2>3, <3>1, CommitKeeps, SoundNext
  <2>4. CASE Note(x) /\ (mem' = m \/ mem' = mem)
    <3>1. SoundStore(m, born') /\ SoundLine(x, born')
      BY <2>1 DEF Edit
    <3>2. SoundLog(log', born') /\ UNCHANGED <<disk, faults, failed>>
      BY <1>1, <2>2, <2>4, <3>1, NoteKeeps DEF Note, faultVars
    <3>3. SoundStore(mem, born') /\ SoundStore(disk, born')
      BY <1>1, <2>2, SoundGrows DEF Stores
    <3>4. SoundAfter(born')
      BY <1>1, <2>4, <3>1, <3>2, <3>3 DEF SoundAfter, Stores
    <3> QED BY <2>2, <3>4, SoundNext
  <2> QED BY <2>1, <2>3, <2>4 DEF Edit
<1>15. ASSUME NEW j \in Job, AskRun(j) PROVE Stores' /\ born \subseteq born'
  <2>1. born' = born /\ Load(running)
    BY <1>15 DEF AskRun
  <2> QED BY <1>1, <1>2, <2>1, LoadKeeps
<1>16. ASSUME NEW j \in Job, RunJob(j) PROVE Stores' /\ born \subseteq born'
  <2>1. born' = born /\ Load(TRUE)
    BY <1>16 DEF RunJob
  <2> QED BY <1>1, <1>2, <2>1, LoadKeeps
<1>17. ASSUME NEW j \in Job, RunRefused(j) PROVE Stores' /\ born \subseteq born'
  <2>1. born' = born /\ (Load(TRUE) \/ LoadFails(TRUE))
    BY <1>17 DEF RunRefused
  <2> QED BY <1>1, <1>2, <2>1, LoadKeeps
<1>18. ASSUME NEW j \in Job, RunJobEnds(j) PROVE Stores' /\ born \subseteq born'
  <2>1. PICK m \in {mem, Executed(mem, j)} :
          /\ mem' = m /\ (disk' = m \/ disk' = disk)
          /\ UNCHANGED <<faults, failed>> \/ (Fault /\ failed' = failed \cup {j})
    BY <1>18 DEF RunJobEnds, faultVars
  <2>2. born' = born /\ log' = log
    BY <1>18 DEF RunJobEnds
  <2>3. SoundStore(m, born)
    BY <1>1, <2>1, ExecutedSound, KindFacts DEF Stores
  <2> QED BY <1>1, <1>2, <2>1, <2>2, <2>3, FaultSound DEF SoundAfter, Stores
<1>19. ASSUME NEW j \in Job, AppendAdd(j) \/ AppendDel(j) PROVE Stores' /\ born \subseteq born'
  <2>1. /\ born \subseteq born' /\ born' \subseteq born \cup {j}
        /\ UNCHANGED <<mem, disk, faults, failed>>
        /\ \E x : log' = Append(log, x) /\ SoundLine(x, born')
    <3>1. CASE AppendAdd(j)
      <4>1. PICK r \in NewRecords(j) : log' = Append(log, Update(j, r))
        BY <3>1 DEF AppendAdd
      <4>2. r \in Record /\ RecordOK(j, r)
        BY NewRecordFacts
      <4>3. born' = born \cup {j} /\ UNCHANGED <<mem, disk, faults, failed>>
        BY <3>1 DEF AppendAdd, faultVars
      <4>4. SoundLine(Update(j, r), born')
        BY <4>2, <4>3, LinesSound
      <4> QED BY <4>1, <4>3, <4>4
    <3>2. CASE AppendDel(j)
      <4>1. /\ log' = Append(log, Delete(j)) /\ born' = born /\ j \in DOMAIN Merged
            /\ UNCHANGED <<mem, disk, faults, failed>>
        BY <3>2 DEF AppendDel, faultVars
      <4>2. j \in born'
        BY <1>1, <4>1, LoadedSound DEF SoundStore
      <4>3. SoundLine(Delete(j), born')
        BY <4>2, LinesSound
      <4> QED BY <4>1, <4>3
    <3> QED BY <1>19, <3>1, <3>2
  <2>2. SoundLog(log', born')
    BY <1>1, <2>1, NoteKeeps
  <2>3. SoundStore(mem, born') /\ SoundStore(disk, born')
    BY <1>1, <2>1, SoundGrows DEF Stores
  <2>4. SoundAfter(born')
    BY <1>1, <2>1, <2>2, <2>3 DEF SoundAfter, Stores
  <2>5. born' \subseteq Job
    BY <1>1, <2>1 DEF Stores
  <2> QED BY <2>1, <2>4, <2>5, SoundNext
<1>20. ASSUME NEW j \in Job, Elapse(j) PROVE Stores' /\ born \subseteq born'
  <2>1. /\ mem' = PassedIn(mem, j) /\ disk' = PassedIn(disk, j)
        /\ born' = born /\ UNCHANGED <<faults, failed>>
    BY <1>20 DEF Elapse, faultVars
  <2>2. SoundLog(log', born)
    BY <1>1, <1>20, ElapseLog DEF Stores
  <2>3. SoundStore(PassedIn(mem, j), born) /\ SoundStore(PassedIn(disk, j), born)
    BY <1>1, PassedSound DEF Stores
  <2> QED BY <1>1, <1>2, <2>1, <2>2, <2>3 DEF SoundAfter, Stores
<1> QED BY <1>5, <1>6, <1>7, <1>8, <1>9, <1>10, <1>11, <1>12, <1>13, <1>14, <1>15, <1>16, <1>17,
           <1>18, <1>19, <1>20 DEF Next, Call

\* A cancelled timer task leaves no job in execution and no batch.
LEMMA CancelKeeps ==
  ASSUME Base, Stores', CancelTimer
  PROVE  unwinding' \in BOOLEAN /\ cur' = None /\ batch' = {} /\ cut' \subseteq Job /\ cut \subseteq cut'
<1>1. DOMAIN disk' \subseteq Job
  BY StoreFacts DEF Stores, SoundStore
<1>2. timer = "running" => cur \in Job
  BY DEF Base, Timers, Stores
<1> QED BY <1>1, <1>2 DEF CancelTimer, DueJobs, Base, Timers

\* The next job in execution is one of the batch.
LEMMA NextDueKeeps ==
  ASSUME Base, NEW due \in SUBSET born, NextDue(due)
  PROVE  /\ timer' = "running" /\ cur' \in born \ batch' /\ batch' \subseteq born
         /\ runs' \in [Job -> 0 .. 2] /\ \A j \in Job : runs'[j] > 0 => j \in born
<1>1. PICK j \in due : timer' = "running" /\ cur' = j /\ batch' = due \ {j} /\ Count(j)
  BY DEF NextDue
<1>2. runs' = [runs EXCEPT ![j] = IF OneShot(j) /\ runs[j] < 2 THEN runs[j] + 1 ELSE runs[j]]
  BY <1>1 DEF Count
<1>3. runs \in [Job -> 0 .. 2] /\ j \in Job /\ \A k \in Job : runs[k] > 0 => k \in born
  BY DEF Base, Timers, Stores
<1> QED BY <1>1, <1>2, <1>3

LEMMA TimersNext ==
  ASSUME Base, [Next]_vars, Stores', born \subseteq born'
  PROVE  Timers'
<1>1. Stores /\ Timers /\ Life
  BY DEF Base
<1>2. SoundStore(Merged, born)
  BY <1>1, LoadedSound
<1>3. None \notin Job
  BY CronAssumption
<1>4. ASSUME UNCHANGED <<taskVars, cut, runs>> PROVE Timers'
  BY <1>1, <1>4 DEF Timers, taskVars
<1>5. ASSUME CancelTimer, timer' \in {"off", "asleep"}, UNCHANGED runs PROVE Timers'
  <2>1. unwinding' \in BOOLEAN /\ cur' = None /\ batch' = {} /\ cut' \subseteq Job
    BY <1>5, CancelKeeps
  <2> QED BY <1>1, <1>5, <2>1 DEF Timers
<1>6. ASSUME NEW due \in SUBSET born, NextDue(due), UNCHANGED <<unwinding, cut>> PROVE Timers'
  <2>1. /\ timer' = "running" /\ cur' \in born \ batch' /\ batch' \subseteq born
        /\ runs' \in [Job -> 0 .. 2] /\ \A j \in Job : runs'[j] > 0 => j \in born
    BY <1>6, NextDueKeeps
  <2>2. born \subseteq Job
    BY <1>1 DEF Stores
  <2> QED BY <1>1, <1>6, <2>1, <2>2 DEF Timers
<1>7. ASSUME NEW t \in {"off", "asleep", "dead"}, EndTask(t), UNCHANGED <<unwinding, cut>> PROVE Timers'
  BY <1>1, <1>7 DEF Timers, EndTask
<1>8. CASE UNCHANGED vars
  BY <1>4, <1>8 DEF vars, history
<1>9. CASE Start
  <2>1. timer' = "asleep" /\ UNCHANGED <<unwinding, cur, batch, runs, cut>>
    BY <1>9 DEF Start, history
  <2>2. batch = {}
    BY <1>1, <1>9 DEF Start, Timers, Life
  <2> QED BY <1>1, <2>1, <2>2 DEF Timers
<1>10. CASE StartFails
  BY <1>4, <1>10 DEF StartFails, history
<1>11. CASE Stop
  BY <1>5, <1>11 DEF Stop
<1>12. CASE Crash
  <2>1. timer' = "off" /\ unwinding' = FALSE /\ cur' = None /\ batch' = {} /\ UNCHANGED <<runs, cut>>
    BY <1>12 DEF Crash, history
  <2> QED BY <1>1, <2>1 DEF Timers
<1>13. CASE Fire
  <2>1. UNCHANGED <<unwinding, cut>>
    BY <1>13 DEF Fire
  <2>2. \/ EndTask("off") \/ EndTask("asleep") \/ EndTask("dead") \/ NextDue(DueJobs(Merged))
    BY <1>13 DEF Fire
  <2>3. DueJobs(Merged) \in SUBSET born
    BY <1>2 DEF SoundStore, DueJobs
  <2> QED BY <1>6, <1>7, <2>1, <2>2, <2>3
<1>14. CASE TurnEnds
  <2>1. UNCHANGED <<unwinding, cut>>
    BY <1>14 DEF TurnEnds
  <2>2. \/ EndTask("off") \/ EndTask("asleep") \/ EndTask("dead") \/ NextDue(batch)
    BY <1>14 DEF TurnEnds
  <2>3. batch \in SUBSET born
    BY <1>1 DEF Timers
  <2> QED BY <1>6, <1>7, <2>1, <2>2, <2>3
<1>15. CASE Unwind
  BY <1>1, <1>15 DEF Unwind, Timers, history
<1>16. CASE ListJobs
  BY <1>4, <1>16 DEF ListJobs, history
<1>17. ASSUME NEW j \in Job, AddJob(j) \/ RemoveJob(j) \/ EnableJob(j) \/ UpdateJob(j)
      PROVE  Timers'
  <2>1. PICK m, x : Edit(j, m, x)
    BY <1>17, EditShape
  <2>2. runs' = runs \/ runs' = [runs EXCEPT ![j] = 0]
    BY <2>1 DEF Edit
  <2>3. runs' \in [Job -> 0 .. 2] /\ \A k \in Job : runs'[k] > 0 => k \in born
    BY <1>1, <2>2 DEF Timers
  <2>4. CASE CancelTimer /\ timer' = "asleep"
    <3>1. unwinding' \in BOOLEAN /\ cur' = None /\ batch' = {} /\ cut' \subseteq Job
      BY <2>4, CancelKeeps
    <3> QED BY <2>3, <2>4, <3>1 DEF Timers
  <2>5. CASE UNCHANGED taskVars /\ cut' \subseteq Job
    BY <1>1, <2>3, <2>5 DEF Timers, taskVars
  <2>6. (CancelTimer /\ timer' = "asleep") \/ (UNCHANGED taskVars /\ cut' \subseteq Job)
    <3>1. CASE Commit(j, m)
      BY <1>1, <3>1 DEF Commit, Arm, Timers
    <3>2. CASE Note(x)
      BY <1>1, <3>2 DEF Note, Timers, Stores
    <3> QED BY <2>1, <3>1, <3>2 DEF Edit
  <2> QED BY <2>4, <2>5, <2>6
<1>18. ASSUME NEW j \in Job, AskRun(j) PROVE Timers'
  BY <1>4, <1>18 DEF AskRun, history
<1>19. ASSUME NEW j \in Job, RunJob(j) PROVE Timers'
  <2>1. UNCHANGED <<taskVars, cut>> /\ Count(j)
    BY <1>19 DEF RunJob
  <2>2. runs' = [runs EXCEPT ![j] = IF OneShot(j) /\ runs[j] < 2 THEN runs[j] + 1 ELSE runs[j]]
    BY <2>1 DEF Count
  <2>3. j \in born
    BY <1>1, <1>19, LoadedSound DEF RunJob, SoundStore
  <2>4. runs' \in [Job -> 0 .. 2] /\ \A k \in Job : runs'[k] > 0 => k \in born
    BY <1>1, <2>2, <2>3 DEF Timers
  <2> QED BY <1>1, <2>1, <2>4 DEF Timers, taskVars
<1>20. ASSUME NEW j \in Job, NEW r, Restore(j, r), UNCHANGED runs PROVE Timers'
  BY <1>4, <1>5, <1>20 DEF Restore, Arm
<1>21. ASSUME NEW j \in Job, RunJobEnds(j) \/ RunRefused(j) PROVE Timers'
  BY <1>20, <1>21 DEF RunJobEnds, RunRefused
<1>22. ASSUME NEW j \in Job, AppendAdd(j) \/ AppendDel(j) PROVE Timers'
  BY <1>4, <1>22 DEF AppendAdd, AppendDel, history
<1>23. ASSUME NEW j \in Job, Elapse(j) PROVE Timers'
  BY <1>4, <1>23 DEF Elapse, history
<1> QED BY <1>8, <1>9, <1>10, <1>11, <1>12, <1>13, <1>14, <1>15, <1>16, <1>17,
           <1>18, <1>19, <1>21, <1>22, <1>23 DEF Next, Call

\* A reload takes the job objects from the runs that hold them.
LEMMA DetachedSays ==
  ASSUME Life
  PROVE  /\ Detached \in [Job -> {"no", "asked", "held", "stale"}]
         /\ \A j \in Job : /\ Detached[j] \in {"held", "stale"} <=> manual[j] \in {"held", "stale"}
                           /\ Detached[j] = "no" <=> manual[j] = "no"
                           /\ Detached[j] = "asked" <=> manual[j] = "asked"
BY DEF Life, Detached

LEMMA OpKeeps ==
  ASSUME Life, Op
  PROVE  ops' \in 0 .. MaxOps /\ up # "no"
BY CronAssumption DEF Life, Op

LEMMA LifeNext ==
  ASSUME Base, [Next]_vars
  PROVE  Life'
<1>1. Stores /\ Timers /\ Life
  BY DEF Base
<1>2. ASSUME UNCHANGED <<up, running, system, was, byHand>>, ops' \in 0 .. MaxOps, up # "no",
             manual' = Detached \/ manual' = manual
      PROVE  Life'
  <2>1. /\ manual' \in [Job -> {"no", "asked", "held", "stale"}]
        /\ \A j \in Job : manual'[j] \in {"held", "stale"} <=> manual[j] \in {"held", "stale"}
    BY <1>1, <1>2, DetachedSays DEF Life
  <2> QED BY <1>1, <1>2, <2>1 DEF Life
<1>3. CASE UNCHANGED vars
  BY <1>1, <1>3 DEF vars, Life, runVars, taskVars, history
<1>4. CASE Start
  BY <1>1, <1>4 DEF Start, Life, runVars, history
<1>5. CASE StartFails
  BY <1>1, <1>5 DEF StartFails, Life, taskVars, runVars, history
<1>6. CASE Stop
  <2>1. ops' \in 0 .. MaxOps
    BY <1>1, <1>6, OpKeeps DEF Stop
  <2> QED BY <1>1, <1>6, <2>1 DEF Stop, Life, runVars
<1>7. CASE Crash
  <2>1. ops' \in 0 .. MaxOps
    BY <1>1, <1>7, OpKeeps DEF Crash, Life
  <2>2. /\ up' = "no" /\ running' = FALSE /\ timer' = "off"
        /\ manual' = [j \in Job |-> "no"] /\ was' = [j \in Job |-> FALSE]
        /\ UNCHANGED <<system, byHand>>
    BY <1>7 DEF Crash, history
  <2>3. /\ manual' \in [Job -> {"no", "asked", "held", "stale"}] /\ was' \in [Job -> BOOLEAN]
        /\ \A j \in Job : manual'[j] = "no"
    BY <2>2
  <2> QED BY <1>1, <2>1, <2>2, <2>3 DEF Life
<1>8. CASE Fire
  <2>1. UNCHANGED <<up, running, system, was, ops, byHand>>
    BY <1>8 DEF Fire
  <2>2. manual' = Detached \/ manual' = manual
    BY <1>8 DEF Fire
  <2>3. up # "no"
    BY <1>1, <1>8 DEF Fire, Life
  <2> QED BY <1>1, <1>2, <2>1, <2>2, <2>3 DEF Life
<1>9. CASE TurnEnds
  <2>1. UNCHANGED <<up, running, system, manual, was, ops, byHand>> /\ up # "no"
    BY <1>1, <1>9 DEF TurnEnds, runVars, Life
  <2> QED BY <1>1, <2>1 DEF Life
<1>10. CASE Unwind
  BY <1>1, <1>10 DEF Unwind, Life, runVars, history
<1>11. CASE ListJobs
  <2>1. /\ UNCHANGED <<up, running, system, was, ops, byHand>> /\ up # "no"
        /\ manual' = Detached
    BY <1>11 DEF ListJobs, history
  <2> QED BY <1>1, <1>2, <2>1 DEF Life
<1>12. ASSUME NEW j \in Job, AddJob(j) \/ RemoveJob(j) \/ EnableJob(j) \/ UpdateJob(j)
      PROVE  Life'
  <2>1. PICK m, x : Edit(j, m, x)
    BY <1>12, EditShape
  <2>2. /\ UNCHANGED <<up, running, system, was, byHand>> /\ Op
        /\ manual' = Detached \/ manual' = manual
    BY <2>1 DEF Edit, Commit
  <2> QED BY <1>1, <1>2, <2>2, OpKeeps
<1>13. ASSUME NEW j \in Job, AskRun(j) PROVE Life'
  <2>1. /\ UNCHANGED <<up, running, system, was, byHand>> /\ Op /\ manual[j] = "no"
        /\ manual' = [Detached EXCEPT ![j] = "asked"]
    BY <1>13 DEF AskRun, history
  <2>2. /\ manual' \in [Job -> {"no", "asked", "held", "stale"}]
        /\ \A k \in Job : manual'[k] \in {"held", "stale"} => manual[k] \in {"held", "stale"}
    BY <1>1, <2>1, DetachedSays
  <2>3. ops' \in 0 .. MaxOps /\ up # "no"
    BY <1>1, <2>1, OpKeeps
  <2> QED BY <1>1, <2>1, <2>2, <2>3 DEF Life
<1>14. ASSUME NEW j \in Job, RunJob(j) PROVE Life'
  <2>1. /\ UNCHANGED <<up, system, ops>> /\ manual[j] = "asked"
        /\ running' = TRUE /\ was' = [was EXCEPT ![j] = running]
        /\ manual' = [Detached EXCEPT ![j] = "held"]
        /\ byHand' = IF OneShot(j) THEN byHand \cup {j} ELSE byHand
    BY <1>14 DEF RunJob
  <2>2. /\ manual' \in [Job -> {"no", "asked", "held", "stale"}]
        /\ \A k \in Job : manual'[k] \in {"held", "stale"} => k = j \/ manual[k] \in {"held", "stale"}
    BY <1>1, <2>1, DetachedSays
  <2>3. up # "no"
    BY <1>1, <2>1 DEF Life
  <2>4. was' \in [Job -> BOOLEAN] /\ was'[j] = running /\ \A k \in Job : k # j => was'[k] = was[k]
    BY <1>1, <2>1 DEF Life
  <2>5. byHand' \subseteq Job /\ byHand \subseteq byHand' /\ (OneShot(j) => j \in byHand')
    BY <1>1, <2>1 DEF Life
  <2>6. ASSUME NEW k \in Job, manual'[k] \in {"held", "stale"}
        PROVE  (up' = "yes" => was'[k]) /\ (OneShot(k) => k \in byHand')
    <3>1. CASE k = j
      BY <1>1, <2>1, <2>4, <2>5, <3>1 DEF Life
    <3>2. CASE k # j
      BY <1>1, <2>1, <2>2, <2>4, <2>5, <2>6, <3>2 DEF Life
    <3> QED BY <3>1, <3>2
  <2> QED BY <1>1, <2>1, <2>2, <2>3, <2>4, <2>5, <2>6 DEF Life
<1>15. ASSUME NEW j \in Job, RunJobEnds(j) PROVE Life'
  <2>1. /\ UNCHANGED <<up, system, ops, byHand>> /\ manual[j] \in {"held", "stale"}
        /\ manual' = [manual EXCEPT ![j] = "no"]
        /\ running' = was[j] /\ was' = [was EXCEPT ![j] = FALSE]
    BY <1>15 DEF RunJobEnds, Restore
  <2>2. /\ manual' \in [Job -> {"no", "asked", "held", "stale"}] /\ was' \in [Job -> BOOLEAN]
        /\ running' \in BOOLEAN
        /\ \A k \in Job : manual'[k] \in {"held", "stale"} =>
             k # j /\ manual[k] \in {"held", "stale"} /\ was'[k] = was[k]
    BY <1>1, <2>1 DEF Life
  <2>3. up # "no"
    BY <1>1, <2>1 DEF Life
  <2>4. up = "yes" => running'
    BY <1>1, <2>1 DEF Life
  <2> QED BY <1>1, <2>1, <2>2, <2>3, <2>4 DEF Life
<1>16. ASSUME NEW j \in Job, RunRefused(j) PROVE Life'
  <2>1. /\ UNCHANGED <<up, system, ops, byHand>> /\ manual[j] = "asked"
        /\ manual' = [Detached EXCEPT ![j] = "no"]
        /\ running' = running /\ was' = [was EXCEPT ![j] = FALSE]
    BY <1>16 DEF RunRefused, Restore
  <2>2. /\ manual' \in [Job -> {"no", "asked", "held", "stale"}] /\ was' \in [Job -> BOOLEAN]
        /\ \A k \in Job : manual'[k] \in {"held", "stale"} =>
             k # j /\ manual[k] \in {"held", "stale"} /\ was'[k] = was[k]
    BY <1>1, <2>1, DetachedSays DEF Life
  <2>3. up # "no"
    BY <1>1, <2>1 DEF Life
  <2> QED BY <1>1, <2>1, <2>2, <2>3 DEF Life
<1>17. ASSUME NEW j \in Job, AppendAdd(j) \/ AppendDel(j) PROVE Life'
  <2>1. /\ UNCHANGED <<up, running, system, timer, manual, was, byHand>>
        /\ ops < MaxOps /\ ops' = ops + 1
    BY <1>17 DEF AppendAdd, AppendDel, taskVars, runVars, history
  <2>2. ops' \in 0 .. MaxOps
    BY <1>1, <2>1, CronAssumption DEF Life
  <2> QED BY <1>1, <2>1, <2>2 DEF Life
<1>18. ASSUME NEW j \in Job, Elapse(j) PROVE Life'
  BY <1>1, <1>18 DEF Elapse, Life, taskVars, runVars, history
<1> QED BY <1>3, <1>4, <1>5, <1>6, <1>7, <1>8, <1>9, <1>10, <1>11, <1>12, <1>13, <1>14,
           <1>15, <1>16, <1>17, <1>18 DEF Next, Call

LEMMA BaseInit == Init => Base
<1> SUFFICES ASSUME Init PROVE Base
  OBVIOUS
<1>1. PICK c \in Casts : system = c.own /\ born = Job \ (c.own \cup c.users)
  BY DEF Init
<1>2. Stores
  BY StoresInit
<1>3. Timers
  <2>1. /\ timer = "off" /\ unwinding = FALSE /\ cur = None /\ batch = {} /\ cut = {}
        /\ runs = [j \in Job |-> 0]
    BY DEF Init
  <2>2. runs \in [Job -> 0 .. 2] /\ \A j \in Job : ~(runs[j] > 0)
    BY <2>1
  <2> QED BY <2>1, <2>2 DEF Timers
<1>4. Life
  <2>1. /\ up = "no" /\ running = FALSE /\ timer = "off" /\ ops = 0 /\ byHand = {}
        /\ manual = [j \in Job |-> "no"] /\ was = [j \in Job |-> FALSE]
    BY DEF Init
  <2>2. /\ manual \in [Job -> {"no", "asked", "held", "stale"}] /\ was \in [Job -> BOOLEAN]
        /\ \A j \in Job : manual[j] = "no"
    BY <2>1
  <2>3. ops \in 0 .. MaxOps
    BY <2>1, CronAssumption
  <2> QED BY <1>1, <2>1, <2>2, <2>3 DEF Life
<1> QED BY <1>2, <1>3, <1>4 DEF Base

LEMMA BaseNext == Base /\ [Next]_vars => Base'
BY StoresNext, TimersNext, LifeNext DEF Base

\* Every variable keeps its type, whatever jobs, schedules and bounds there are:
\* what a merge, a failed write or a manual run leaves behind is a store of
\* records of jobs, and the timer runs only with a job in execution.
THEOREM CronTypes == Spec => []TypeOK
<1>1. Init => Base
  BY BaseInit
<1>2. Base /\ [Next]_vars => Base'
  BY BaseNext
<1>3. Base => TypeOK
  BY BaseTypes
<1> QED BY <1>1, <1>2, <1>3, PTL DEF Spec

-----------------------------------------------------------------------------
(* What a step does to the copies of one job: in memory, in jobs.json, and in
   the lines about it.                                                      *)

\* The lines about job k stay as they are.
SameLines(k) == About(log', k) = About(log, k) /\ \A i \in About(log, k) : log'[i] = log[i]

\* Job k is there for anyone who loads.
Vis(d, l, k) == IF About(l, k) = {} THEN k \in DOMAIN d ELSE LastLine(l, k).op = "add"

LEMMA VisibleIs ==
  ASSUME Stores, NEW k \in Job
  PROVE  k \in Visible <=> Vis(disk, log, k)
BY LastLineDecides DEF Visible, Merged, MergedFrom, Vis, Stores, SoundStore, SoundLog, Same

LEMMA VisibleIsNext ==
  ASSUME Stores', NEW k \in Job
  PROVE  k \in Visible' <=> Vis(disk', log', k)
BY LastLineDecides DEF Visible, Merged, MergedFrom, Vis, Stores, SoundStore, SoundLog, Same

\* Without lines about it, a job is what jobs.json says.
LEMMA MergedIs ==
  ASSUME Stores, NEW k \in Job
  PROVE  /\ About(log, k) = {} => Same(Merged, disk, k)
         /\ About(log, k) # {} => /\ k \in DOMAIN Merged <=> LastLine(log, k).op = "add"
                                  /\ k \in DOMAIN Merged => Merged[k] = LastLine(log, k).rec
         /\ k \in DOMAIN Merged <=> Vis(disk, log, k)
BY LastLineDecides DEF Merged, MergedFrom, Vis, Stores, SoundStore, SoundLog, Same

LEMMA SameLinesVis ==
  ASSUME Stores, NEW k, SameLines(k), About(log, k) # {}
  PROVE  LastLine(log', k) = LastLine(log, k)
<1>1. Max(About(log, k)) \in About(log, k)
  BY LastFacts DEF Stores, SoundLog
<1> QED BY <1>1 DEF SameLines, LastLine

\* Nothing.
Stays(k) == Same(mem', mem, k) /\ Same(disk', disk, k) /\ SameLines(k)

\* The job in memory is loaded; a service that runs finds nothing to merge.
Reloaded(k) ==
  /\ Reloads /\ up # "no"
  /\ Same(mem', Merged, k) /\ Same(disk', disk, k) /\ SameLines(k)
  /\ running => Same(Merged, disk, k)

\* It is merged into jobs.json, and its lines are gone.
MergedIn(k) ==
  /\ Reloads /\ up # "no"
  /\ Same(mem', Merged, k) /\ Same(disk', Merged, k) /\ About(log', k) = {}

\* What memory says is saved, beside the lines.
Flushed(k) == up # "no" /\ Same(mem', mem, k) /\ Same(disk', mem, k) /\ SameLines(k)

\* Its lines are lost.
Lost(k) == k \in failed' /\ About(log, k) # {}

Loads(k)   == Stays(k) \/ Reloaded(k) \/ MergedIn(k) \/ Lost(k)
Handled(k) == Loads(k) \/ Flushed(k)

\* A service that runs and reloads saves what it merged, and the lines that
\* stay say nothing.
LEMMA RunningLoad ==
  ASSUME Stores, Reloads
  PROVE  /\ DiskAfter(TRUE) = Merged /\ Loaded = Merged
         /\ LogLeft(TRUE) = <<>> \/ (LogLeft(TRUE) = log /\ Quiet(Merged, log) /\ Merged = disk)
<1>1. CASE Changes
  BY <1>1 DEF DiskAfter, LogLeft, Merges, Loaded
<1>2. CASE ~Changes
  <2>1. Quiet(disk, log) /\ Merged = disk
    BY <1>2, NoChange DEF Changes, Merged, Stores, SoundStore, SoundLog
  <2> QED BY <1>2, <2>1 DEF DiskAfter, LogLeft, Merges, Loaded
<1> QED BY <1>1, <1>2

LEMMA QuietLines ==
  ASSUME NEW d, NEW l, Quiet(d, l), NEW k, k \in DOMAIN d
  PROVE  About(l, k) = {}
BY DEF Quiet, About

LEMMA ActiveLoad ==
  ASSUME ~Reloads, NEW r
  PROVE  Loaded = mem /\ DiskAfter(r) = disk /\ LogLeft(r) = log
BY DEF Loaded, DiskAfter, LogLeft, Merges

LEMMA LoadEffect ==
  ASSUME Base, up # "no", NEW r \in BOOLEAN, running => r, Load(r) \/ LoadFails(r),
         NEW k \in Job
  PROVE  Loads(k)
<1>1. Stores
  BY DEF Base
<1>2. CASE Load(r) /\ ~Reloads
  BY <1>2, ActiveLoad DEF Load, Loads, Stays, Same, SameLines
<1>3. CASE Load(r) /\ Reloads /\ r
  <2>1. mem' = Merged /\ disk' = Merged
        /\ (log' = <<>> \/ (log' = log /\ Merged = disk))
    BY <1>1, <1>3, RunningLoad DEF Load
  <2>2. CASE log' = <<>>
    BY <1>3, <2>1, <2>2, EmptyLog DEF Loads, MergedIn, Same
  <2>3. CASE log' = log /\ Merged = disk
    BY <1>3, <2>1, <2>3 DEF Loads, Reloaded, Same, SameLines
  <2> QED BY <2>1, <2>2, <2>3
<1>4. CASE Load(r) /\ Reloads /\ ~r
  <2>1. mem' = Merged /\ disk' = disk /\ log' = log /\ ~running
    BY <1>4 DEF Load, Loaded, DiskAfter, LogLeft, Merges
  <2> QED BY <1>4, <2>1 DEF Loads, Reloaded, Same, SameLines
<1>5. CASE LoadFails(r)
  <2>1. Reloads /\ mem' = Merged /\ disk' = disk /\ log' = <<>>
        /\ failed' = failed \cup {log[i].job : i \in DOMAIN log}
    BY <1>5 DEF LoadFails, Merges
  <2>2. CASE About(log, k) = {}
    <3>1. Same(Merged, disk, k)
      BY <1>1, <2>2, MergedIs
    <3> QED BY <2>1, <3>1, EmptyLog DEF Loads, MergedIn, Same
  <2>3. CASE About(log, k) # {}
    BY <2>1, <2>3 DEF Loads, Lost, About
  <2> QED BY <2>2, <2>3
<1> QED BY <1>2, <1>3, <1>4, <1>5

LEMMA SaveEffect ==
  ASSUME Base, up # "no", NEW m, NEW js, Save(TRUE, m) \/ SaveFails(TRUE, m, js),
         NEW k \in Job, Same(m, Loaded, k)
  PROVE  Handled(k)
<1>1. Stores
  BY DEF Base
<1>2. CASE Reloads
  <2>1. /\ Same(mem', Merged, k) /\ Same(disk', Merged, k)
        /\ (log' = <<>> \/ (log' = log /\ Merged = disk))
    BY <1>1, <1>2, RunningLoad DEF Save, SaveFails, Same
  <2>2. CASE log' = <<>>
    BY <1>2, <2>1, <2>2, EmptyLog DEF Handled, Loads, MergedIn
  <2>3. CASE log' = log /\ Merged = disk
    BY <1>2, <2>1, <2>3 DEF Handled, Loads, Reloaded, Same, SameLines
  <2> QED BY <2>1, <2>2, <2>3
<1>3. CASE ~Reloads
  <2>1. /\ Same(mem', mem, k) /\ log' = log
        /\ disk' = disk \/ Same(disk', mem, k)
    BY <1>3, ActiveLoad DEF Save, SaveFails, Same
  <2> QED BY <2>1 DEF Handled, Loads, Stays, Flushed, Same, SameLines
<1> QED BY <1>2, <1>3

LEMMA NoteEffect ==
  ASSUME Base, up # "no", NEW m, NEW x, SoundLine(x, born'), Note(x), mem' = m \/ mem' = mem,
         NEW k \in Job, Same(m, Loaded, k), k # x.job
  PROVE  Loads(k)
<1>1. disk' = disk /\ ~running /\ log' = Append(log, x)
  BY DEF Note
<1>2. SameLines(k)
  <2>1. log \in Seq(Line) /\ x \in Line
    BY DEF Base, Stores, SoundLog, SoundLine
  <2>2. /\ About(Append(log, x), k) = About(log, k)
        /\ \A i \in About(log, k) : Append(log, x)[i] = log[i]
    BY <2>1, AppendSays
  <2> QED BY <1>1, <2>2 DEF SameLines
<1>3. CASE Reloads /\ mem' = m
  <2>1. Loaded = Merged
    BY <1>3 DEF Loaded
  <2> QED BY <1>1, <1>2, <1>3, <2>1 DEF Loads, Reloaded, Same
<1>4. CASE ~Reloads \/ mem' = mem
  <2>1. Same(mem', mem, k)
    BY <1>4, ActiveLoad DEF Same
  <2> QED BY <1>1, <1>2, <2>1 DEF Loads, Stays, Same
<1> QED BY <1>3, <1>4

\* An edit of another job.
LEMMA EditEffect ==
  ASSUME Base, NEW j \in Job, NEW m, NEW x, Edit(j, m, x), NEW k \in Job, k # j
  PROVE  Handled(k)
<1>1. up # "no" /\ Same(m, Loaded, k) /\ SoundLine(x, born') /\ x.job = j
  BY OpKeeps DEF Edit, Op
<1>2. CASE Commit(j, m)
  <2>1. CASE Save(TRUE, m) \/ SaveFails(TRUE, m, {j})
    BY <1>1, <2>1, SaveEffect
  <2>2. CASE LoadFails(TRUE)
    <3>1. Loads(k)
      BY <1>1, <2>2, LoadEffect
    <3> QED BY <3>1 DEF Handled
  <2> QED BY <1>2, <2>1, <2>2 DEF Commit
<1>3. CASE Note(x) /\ (mem' = m \/ mem' = mem)
  <2>1. Loads(k)
    BY <1>1, <1>3, NoteEffect
  <2> QED BY <2>1 DEF Handled
<1> QED BY <1>2, <1>3 DEF Edit

-----------------------------------------------------------------------------
(* What each step does to job k.                                            *)

\* History only grows.
LEMMA Grows ==
  ASSUME Base, [Next]_vars
  PROVE  failed \subseteq failed' /\ byHand \subseteq byHand'
<1>1. CASE UNCHANGED vars
  BY <1>1 DEF vars, faultVars, history
<1>2. CASE Start \/ StartFails \/ Stop \/ Crash \/ TurnEnds \/ Unwind
  BY <1>2 DEF Start, StartFails, Stop, Crash, TurnEnds, Unwind, faultVars, history
<1>3. CASE Fire \/ ListJobs
  BY <1>3 DEF Fire, ListJobs, Load, LoadFails, Save, SaveFails, faultVars, history
<1>4. ASSUME NEW j \in Job, Call(j) PROVE failed \subseteq failed' /\ byHand \subseteq byHand'
  <2>1. CASE AddJob(j) \/ RemoveJob(j) \/ EnableJob(j) \/ UpdateJob(j)
    <3>1. PICK m, x : Edit(j, m, x)
      BY <2>1, EditShape
    <3> QED BY <3>1 DEF Edit, Commit, Note, Save, SaveFails, LoadFails, faultVars
  <2>2. CASE AskRun(j) \/ RunJob(j) \/ RunRefused(j) \/ RunJobEnds(j)
    BY <2>2 DEF AskRun, RunJob, RunRefused, RunJobEnds, Load, LoadFails, faultVars, history
  <2> QED BY <1>4, <2>1, <2>2 DEF Call
<1>5. ASSUME NEW j \in Job, AppendAdd(j) \/ AppendDel(j) \/ Elapse(j)
      PROVE  failed \subseteq failed' /\ byHand \subseteq byHand'
  BY <1>5 DEF AppendAdd, AppendDel, Elapse, faultVars, history
<1> QED BY <1>1, <1>2, <1>3, <1>4, <1>5 DEF Next

\* A step that is about another job, or about none.
Passes(k) ==
  /\ Handled(k)
  /\ up' # "no" => up # "no"
  /\ runs[k] > 0 => runs'[k] > 0
  /\ system' = system /\ (k \in born' <=> k \in born)

LEMMA CountSays ==
  ASSUME Base, NEW j \in Job, Count(j), NEW k \in Job
  PROVE  /\ runs[k] > 0 => runs'[k] > 0
         /\ k = j /\ OneShot(j) => runs'[k] = IF runs[k] < 2 THEN runs[k] + 1 ELSE runs[k]
         /\ k = j /\ OneShot(j) => runs'[k] > 0
         /\ k # j => runs'[k] = runs[k]
<1>1. runs' = [runs EXCEPT ![j] = IF OneShot(j) /\ runs[j] < 2 THEN runs[j] + 1 ELSE runs[j]]
  BY DEF Count
<1>2. runs \in [Job -> 0 .. 2]
  BY DEF Base, Timers
<1>3. runs[k] \in 0 .. 2
  BY <1>2
<1>4. CASE k = j
  <2>1. runs'[k] = IF OneShot(j) /\ runs[k] < 2 THEN runs[k] + 1 ELSE runs[k]
    BY <1>1, <1>2, <1>4
  <2> QED BY <1>3, <1>4, <2>1
<1>5. CASE k # j
  BY <1>1, <1>2, <1>5
<1> QED BY <1>4, <1>5

LEMMA UnchangedStays ==
  ASSUME UNCHANGED storeVars, NEW k
  PROVE  Stays(k)
BY DEF storeVars, Stays, Same, SameLines

LEMMA Effects ==
  ASSUME Base, Next, NEW k \in Job
  PROVE  \/ Start \/ StartFails \/ Crash
         \/ Passes(k)
         \/ \E m, x : Edit(k, m, x)
         \/ RunJobEnds(k) \/ AppendAdd(k) \/ AppendDel(k) \/ Elapse(k)
         \/ TurnEnds /\ k = cur
<1>1. Stores /\ Timers /\ Life
  BY DEF Base
<1>2. Loaded \in Store /\ Merged \in Store
  BY <1>1, LoadedSound DEF SoundStore
<1>3. ASSUME Loads(k) PROVE Handled(k)
  BY <1>3 DEF Handled
<1>4. CASE Stop \/ Unwind
  <2>1. /\ UNCHANGED <<storeVars, system, born>> /\ runs' = runs
        /\ up' # "no" => up # "no"
    BY <1>4 DEF Stop, Unwind, history
  <2>2. Stays(k)
    BY <2>1, UnchangedStays
  <2> QED BY <2>1, <2>2 DEF Passes, Handled, Loads
<1>5. CASE Fire
  <2>1. UNCHANGED <<up, system, born>> /\ up # "no"
    BY <1>1, <1>5 DEF Fire, Life
  <2>2. runs[k] > 0 => runs'[k] > 0
    <3>1. (\E j \in Job : Count(j)) \/ runs' = runs
      <4>1. DueJobs(Merged) \subseteq Job
        BY <1>2, StoreFacts DEF DueJobs
      <4> QED BY <1>5, <4>1 DEF Fire, EndTask, NextDue
    <3> QED BY <3>1, CountSays
  <2>3. Handled(k)
    <3>1. CASE ~running
      <4>1. UNCHANGED storeVars
        BY <1>5, <3>1 DEF Fire
      <4> QED BY <4>1, UnchangedStays DEF Handled, Loads
    <3>2. CASE running
      <4>1. \/ Load(TRUE) \/ LoadFails(TRUE)
            \/ Save(TRUE, Merged) \/ SaveFails(TRUE, Merged, {})
        BY <1>5, <3>2 DEF Fire
      <4>2. CASE Load(TRUE) \/ LoadFails(TRUE)
        BY <1>3, <2>1, <4>2, LoadEffect
      <4>3. CASE Save(TRUE, Merged) \/ SaveFails(TRUE, Merged, {})
        <5>1. Same(Merged, Loaded, k)
          BY <1>5 DEF Fire, Loaded, Reloads, TimerActive, Same
        <5> QED BY <2>1, <4>3, <5>1, SaveEffect
      <4> QED BY <4>1, <4>2, <4>3
    <3> QED BY <3>1, <3>2
  <2> QED BY <2>1, <2>2, <2>3 DEF Passes
<1>6. CASE TurnEnds /\ k # cur
  <2>1. UNCHANGED <<up, system, born>> /\ up # "no" /\ cur \in Job /\ log' = log
    BY <1>1, <1>6 DEF TurnEnds, Life, Timers, Stores
  <2>2. mem' = Executed(mem, cur) /\ (disk' = disk \/ disk' = mem')
    BY <1>6 DEF TurnEnds
  <2>3. Same(Executed(mem, cur), mem, k)
    BY <1>1, <1>6, <2>1, KindFacts, ExecutedSays DEF Stores, SoundStore
  <2>4. Handled(k)
    BY <2>1, <2>2, <2>3 DEF Handled, Loads, Stays, Flushed, Same, SameLines
  <2>5. runs[k] > 0 => runs'[k] > 0
    <3>1. (\E j \in Job : Count(j)) \/ runs' = runs
      <4>1. batch \subseteq Job
        BY <1>1 DEF Timers, Stores
      <4> QED BY <1>6, <4>1 DEF TurnEnds, EndTask, NextDue
    <3> QED BY <3>1, CountSays
  <2> QED BY <2>1, <2>4, <2>5 DEF Passes
<1>7. CASE ListJobs
  <2>1. UNCHANGED <<up, system, born>> /\ up # "no" /\ runs' = runs /\ (Load(running) \/ LoadFails(running))
    BY <1>7 DEF ListJobs, history
  <2>2. running \in BOOLEAN
    BY <1>1 DEF Life
  <2> QED BY <1>3, <2>1, <2>2, LoadEffect DEF Passes
<1>8. ASSUME NEW j \in Job, AddJob(j) \/ RemoveJob(j) \/ EnableJob(j) \/ UpdateJob(j)
      PROVE  Passes(k) \/ \E m, x : Edit(k, m, x)
  <2>1. PICK m, x : Edit(j, m, x)
    BY <1>8, EditShape
  <2>2. CASE j = k
    BY <2>1, <2>2
  <2>3. CASE j # k
    <3>1. Handled(k)
      BY <2>1, <2>3, EditEffect
    <3>2. /\ UNCHANGED <<up, system>> /\ (born' = born \/ born' = born \cup {j})
          /\ (runs' = runs \/ runs' = [runs EXCEPT ![j] = 0])
      BY <2>1 DEF Edit
    <3>3. runs[k] > 0 => runs'[k] > 0
      BY <1>1, <2>3, <3>2 DEF Timers
    <3> QED BY <2>3, <3>1, <3>2, <3>3 DEF Passes
  <2> QED BY <2>2, <2>3
<1>9. ASSUME NEW j \in Job, AskRun(j) PROVE Passes(k)
  <2>1. UNCHANGED <<up, system, born>> /\ up # "no" /\ runs' = runs /\ Load(running)
    BY <1>1, <1>9, OpKeeps DEF AskRun, history
  <2>2. running \in BOOLEAN
    BY <1>1 DEF Life
  <2> QED BY <1>3, <2>1, <2>2, LoadEffect DEF Passes
<1>10. ASSUME NEW j \in Job, RunJob(j) PROVE Passes(k)
  <2>1. UNCHANGED <<up, system, born>> /\ up # "no" /\ Count(j) /\ Load(TRUE)
    BY <1>1, <1>10 DEF RunJob, Life
  <2> QED BY <1>3, <2>1, LoadEffect, CountSays DEF Passes
<1>11. ASSUME NEW j \in Job, RunRefused(j) PROVE Passes(k)
  <2>1. UNCHANGED <<up, system, born>> /\ up # "no" /\ runs' = runs /\ (Load(TRUE) \/ LoadFails(TRUE))
    BY <1>1, <1>11 DEF RunRefused, Life
  <2> QED BY <1>3, <2>1, LoadEffect DEF Passes
<1>12. ASSUME NEW j \in Job, RunJobEnds(j), j # k PROVE Passes(k)
  <2>1. UNCHANGED <<up, system, born>> /\ up # "no" /\ runs' = runs /\ log' = log
    BY <1>1, <1>12 DEF RunJobEnds, Life
  <2>2. PICK m \in {mem, Executed(mem, j)} : mem' = m /\ (disk' = m \/ disk' = disk)
    BY <1>12 DEF RunJobEnds
  <2>3. Same(m, mem, k)
    <3>1. Same(Executed(mem, j), mem, k)
      BY <1>1, <1>12, KindFacts, ExecutedSays DEF Stores, SoundStore
    <3> QED BY <2>2, <3>1 DEF Same
  <2>4. Handled(k)
    BY <2>1, <2>2, <2>3 DEF Handled, Loads, Stays, Flushed, Same, SameLines
  <2> QED BY <2>1, <2>4 DEF Passes
<1>13. ASSUME NEW j \in Job, AppendAdd(j) \/ AppendDel(j), j # k PROVE Passes(k)
  <2>1. UNCHANGED <<up, mem, disk, runs, system>> /\ (born' = born \/ born' = born \cup {j})
    BY <1>13 DEF AppendAdd, AppendDel, history
  <2>2. PICK x \in Line : x.job = j /\ log' = Append(log, x)
    <3>1. CASE AppendAdd(j)
      <4>1. PICK r \in NewRecords(j) : log' = Append(log, Update(j, r))
        BY <3>1 DEF AppendAdd
      <4>2. r \in Record
        BY NewRecordFacts
      <4> QED BY <4>1, <4>2 DEF Line, Update
    <3>2. CASE AppendDel(j)
      BY <3>2 DEF AppendDel, Line, Delete
    <3> QED BY <1>13, <3>1, <3>2
  <2>3. SameLines(k)
    <3>1. /\ About(Append(log, x), k) = About(log, k)
          /\ \A i \in About(log, k) : Append(log, x)[i] = log[i]
      BY <1>1, <1>13, <2>2, AppendSays DEF Stores, SoundLog
    <3> QED BY <2>2, <3>1 DEF SameLines
  <2> QED BY <1>13, <2>1, <2>3 DEF Passes, Handled, Loads, Stays, Same
<1>14. ASSUME NEW j \in Job, Elapse(j), j # k PROVE Passes(k)
  <2>1. UNCHANGED <<up, runs, system, born>> /\ mem' = PassedIn(mem, j) /\ disk' = PassedIn(disk, j)
    BY <1>14 DEF Elapse, history
  <2>2. Same(mem', mem, k) /\ Same(disk', disk, k)
    BY <1>1, <1>14, <2>1, PassedSound DEF Stores, Same
  <2>3. SameLines(k)
    <3>1. /\ About(log', k) = About(log, k)
          /\ \A i \in DOMAIN log : log'[i] = PassedLine(log[i], j)
      BY <1>1, <1>14, ElapseLog DEF Stores
    <3> QED BY <1>14, <3>1 DEF SameLines, About, PassedLine
  <2> QED BY <2>1, <2>2, <2>3 DEF Passes, Handled, Loads, Stays
<1> QED BY <1>4, <1>5, <1>6, <1>7, <1>8, <1>9, <1>10, <1>11, <1>12, <1>13, <1>14 DEF Next, Call

-----------------------------------------------------------------------------
(* Jobs come and go by edits and runs only.                                 *)

\* The only run of job k is over, or has begun.
Done(k) == Kind[k] = "once" /\ (runs[k] > 0 \/ k \in byHand)

\* Memory and jobs.json hold the same jobs, but for one whose only run memory
\* has recorded and jobs.json has not.
AgreeAt(k) ==
  up # "no" /\ k \notin failed /\ About(log, k) = {} =>
    /\ k \in DOMAIN mem => k \in DOMAIN disk
    /\ k \in DOMAIN disk => k \in DOMAIN mem \/ Done(k)

\* A job the gateway has registered is there, and no line is about it.
OwnAt(k) ==
  k \in system => /\ k \in born => k \in DOMAIN disk /\ About(log, k) = {}
                  /\ up # "no" => k \in DOMAIN mem /\ k \in born

\* A one-time job in execution has run, unless it got a new time since.
CurRuns ==
  timer = "running" /\ Kind[cur] = "once" =>
    runs[cur] > 0 \/ About(log, cur) # {} \/ cur \in failed

\* Job k comes, and goes, as JobsComeAndGo says.
Comes(k) ==
  k \notin Visible /\ k \in Visible' =>
    k \notin born \/ k \in failed' \/ (~running /\ (EnableJob(k) \/ UpdateJob(k)))
Goes(k) ==
  k \in Visible /\ k \notin Visible' =>
    \/ RemoveJob(k) \/ AppendDel(k)
    \/ Kind[k] = "once" /\ (runs[k] > 0 \/ k \in byHand)
    \/ k \in failed'

\* A log whose lines say nothing to a store with the same jobs.
LEMMA QuietVis ==
  ASSUME NEW d, NEW e, DOMAIN d = DOMAIN e, NEW l \in Seq(Line), Quiet(e, l), NEW k
  PROVE  Vis(d, l, k) <=> k \in DOMAIN d
<1>1. CASE About(l, k) = {}
  BY <1>1 DEF Vis
<1>2. CASE About(l, k) # {}
  <2>1. Max(About(l, k)) \in DOMAIN l /\ l[Max(About(l, k))].job = k
    BY <1>2, LastFacts DEF About
  <2>2. k \notin DOMAIN d /\ LastLine(l, k).op = "del"
    BY <2>1 DEF Quiet, LastLine
  <2> QED BY <1>2, <2>2 DEF Vis
<1> QED BY <1>1, <1>2

\* What start finds in jobs.json and in the log when nothing has to be merged.
LEMMA StartQuiet ==
  ASSUME Base, ~ChangesFrom(Before)
  PROVE  Quiet(Registered, log)
<1>1. SoundStore(Before, born \cup system) /\ Before = IF system = {} THEN disk ELSE Registered
  BY BeforeSays
<1>2. Before \in Store /\ log \in Seq(Line)
  BY <1>1 DEF SoundStore, Base, Stores, SoundLog
<1>3. Quiet(Before, log) /\ MergedFrom(Before) = Before
  BY <1>2, NoChange
<1>4. DOMAIN Registered = DOMAIN Before
  BY <1>1, <1>3, RegisteredSays DEF Merged
<1> QED BY <1>3, <1>4 DEF Quiet

\* start, and a start that fails: nothing comes but the jobs the gateway
\* registers, and nothing goes.
LEMMA StartEffect ==
  ASSUME Base, Stores', Start \/ StartFails, NEW k \in Job
  PROVE  /\ k \in failed' \/ (Vis(disk', log', k) <=> Vis(disk, log, k) \/ k \in system)
         /\ k \in system => k \in DOMAIN disk' /\ About(log', k) = {}
         /\ Start => mem' = disk'
<1>1. Stores
  BY DEF Base
<1>2. /\ DOMAIN Registered = DOMAIN Merged \cup system
      /\ DOMAIN Rescheduled(Registered) = DOMAIN Registered
  BY RegisteredSays, RescheduledSays
<1>3. k \in DOMAIN Merged <=> Vis(disk, log, k)
  BY <1>1, MergedIs
<1>4. \A d : DOMAIN d = DOMAIN Registered /\ (log' = <<>> \/ (log' = log /\ ~ChangesFrom(Before)))
               => /\ Vis(d, log', k) <=> k \in DOMAIN Registered
                  /\ k \in system => About(log', k) = {}
  <2> SUFFICES ASSUME NEW d, DOMAIN d = DOMAIN Registered,
                      log' = <<>> \/ (log' = log /\ ~ChangesFrom(Before))
               PROVE  /\ Vis(d, log', k) <=> k \in DOMAIN Registered
                      /\ k \in system => About(log', k) = {}
    OBVIOUS
  <2>1. CASE log' = <<>>
    BY <2>1, EmptyLog DEF Vis
  <2>2. CASE log' = log /\ ~ChangesFrom(Before)
    <3>1. Quiet(Registered, log) /\ log \in Seq(Line)
      BY <1>1, <2>2, StartQuiet DEF Stores, SoundLog
    <3> QED BY <1>2, <2>2, <3>1, QuietVis, QuietLines
  <2> QED BY <2>1, <2>2
<1>5. CASE Start
  <2>1. /\ mem' = disk' /\ disk' = Rescheduled(Registered)
        /\ log' = <<>> \/ (log' = log /\ ~ChangesFrom(Before))
    BY <1>5 DEF Start
  <2> QED BY <1>2, <1>3, <1>4, <2>1
<1>6. CASE StartFails /\ system # {}
  <2>1. disk' = Registered /\ (log' = <<>> \/ (log' = log /\ ~ChangesFrom(Before)))
    BY <1>6 DEF StartFails, Before
  <2>2. ~Start
    BY <1>6 DEF Start, StartFails, Fault, faultVars, Base, Stores
  <2> QED BY <1>2, <1>3, <1>4, <2>1, <2>2
<1>7. CASE StartFails /\ system = {}
  <2>1. \/ disk' = disk /\ log' = <<>> /\ failed' = failed \cup {log[i].job : i \in DOMAIN log}
        \/ disk' = Registered /\ log' = <<>>
        \/ disk' = disk /\ log' = log
    BY <1>7 DEF StartFails, Before
  <2>2. ~Start
    BY <1>7 DEF Start, StartFails, Fault, faultVars, Base, Stores
  <2>3. CASE disk' = disk /\ log' = <<>> /\ failed' = failed \cup {log[i].job : i \in DOMAIN log}
    <3>1. CASE About(log, k) = {}
      BY <1>7, <2>2, <2>3, <3>1, EmptyLog DEF Vis
    <3>2. CASE About(log, k) # {}
      BY <1>7, <2>2, <2>3, <3>2 DEF About
    <3> QED BY <3>1, <3>2
  <2>4. CASE disk' = Registered /\ log' = <<>>
    BY <1>2, <1>3, <1>4, <1>7, <2>2, <2>4
  <2>5. CASE disk' = disk /\ log' = log
    BY <1>7, <2>2, <2>5
  <2> QED BY <2>1, <2>3, <2>4, <2>5
<1> QED BY <1>5, <1>6, <1>7

\* A step about another job.
LEMMA PassesKeeps ==
  ASSUME Base, Stores', failed \subseteq failed', byHand \subseteq byHand',
         NEW k \in Job, AgreeAt(k), OwnAt(k), Passes(k)
  PROVE  /\ AgreeAt(k)' /\ OwnAt(k)'
         /\ k \in failed' \/ (Vis(disk', log', k) <=> Vis(disk, log, k))
            \/ (Vis(disk, log, k) /\ Done(k))
<1>1. Stores
  BY DEF Base
<1>2. Done(k) => Done(k)'
  BY DEF Passes, Done
<1>3. (up' # "no" => up # "no") /\ system' = system /\ (k \in born' <=> k \in born)
  BY DEF Passes
<1>4. ASSUME SameLines(k), About(log, k) # {} PROVE Vis(disk', log', k) <=> Vis(disk, log, k)
  BY <1>1, <1>4, SameLinesVis DEF Vis, SameLines
<1>5. /\ About(log, k) = {} => Same(Merged, disk, k)
      /\ k \in DOMAIN Merged <=> Vis(disk, log, k)
  BY <1>1, MergedIs
<1>6. CASE Stays(k)
  <2>1. /\ About(log', k) = About(log, k)
        /\ k \in DOMAIN mem' <=> k \in DOMAIN mem
        /\ k \in DOMAIN disk' <=> k \in DOMAIN disk
    BY <1>6 DEF Stays, SameLines, Same
  <2>2. AgreeAt(k)'
    BY <1>2, <1>3, <2>1 DEF AgreeAt
  <2>3. OwnAt(k)'
    BY <1>3, <2>1 DEF OwnAt
  <2>4. Vis(disk', log', k) <=> Vis(disk, log, k)
    BY <1>4, <1>6, <2>1 DEF Vis, Stays
  <2> QED BY <2>2, <2>3, <2>4
<1>7. CASE Reloaded(k)
  <2>1. /\ About(log', k) = About(log, k)
        /\ k \in DOMAIN mem' <=> k \in DOMAIN Merged
        /\ k \in DOMAIN disk' <=> k \in DOMAIN disk
        /\ up # "no"
    BY <1>7 DEF Reloaded, SameLines, Same
  <2>2. AgreeAt(k)'
    BY <1>5, <2>1 DEF AgreeAt, Same
  <2>3. OwnAt(k)'
    BY <1>3, <1>5, <2>1 DEF OwnAt, Same
  <2>4. Vis(disk', log', k) <=> Vis(disk, log, k)
    BY <1>4, <1>7, <2>1 DEF Vis, Reloaded
  <2> QED BY <2>2, <2>3, <2>4
<1>8. CASE MergedIn(k)
  <2>1. /\ About(log', k) = {}
        /\ k \in DOMAIN mem' <=> k \in DOMAIN Merged
        /\ k \in DOMAIN disk' <=> k \in DOMAIN Merged
        /\ up # "no"
    BY <1>8 DEF MergedIn, Same
  <2>2. AgreeAt(k)'
    BY <2>1 DEF AgreeAt
  <2>3. OwnAt(k)'
    BY <1>3, <1>5, <2>1 DEF OwnAt, Same
  <2>4. Vis(disk', log', k) <=> Vis(disk, log, k)
    BY <1>5, <2>1 DEF Vis
  <2> QED BY <2>2, <2>3, <2>4
<1>9. CASE Lost(k)
  <2>1. k \in failed' /\ About(log, k) # {}
    BY <1>9 DEF Lost
  <2>2. OwnAt(k)'
    BY <1>3, <2>1 DEF OwnAt
  <2> QED BY <2>1, <2>2 DEF AgreeAt
<1>10. CASE Flushed(k)
  <2>1. /\ About(log', k) = About(log, k)
        /\ k \in DOMAIN mem' <=> k \in DOMAIN mem
        /\ k \in DOMAIN disk' <=> k \in DOMAIN mem
        /\ up # "no"
    BY <1>10 DEF Flushed, SameLines, Same
  <2>2. AgreeAt(k)'
    BY <2>1 DEF AgreeAt
  <2>3. OwnAt(k)'
    BY <1>3, <2>1 DEF OwnAt
  <2>4. CASE About(log, k) # {}
    BY <1>4, <1>10, <2>2, <2>3, <2>4 DEF Flushed
  <2>5. CASE About(log, k) = {}
    <3>1. /\ Vis(disk', log', k) <=> k \in DOMAIN mem
          /\ Vis(disk, log, k) <=> k \in DOMAIN disk
      BY <2>1, <2>5 DEF Vis
    <3>2. CASE k \in failed
      BY <2>2, <2>3, <3>2
    <3>3. CASE k \notin failed
      BY <2>1, <2>2, <2>3, <2>5, <3>1, <3>3 DEF AgreeAt
    <3> QED BY <3>2, <3>3
  <2> QED BY <2>4, <2>5
<1> QED BY <1>6, <1>7, <1>8, <1>9, <1>10 DEF Passes, Handled, Loads

\* Steps about job k itself: a run of it that ends.
LEMMA EndKeeps ==
  ASSUME Base, failed \subseteq failed', NEW k \in Job, AgreeAt(k), OwnAt(k), CurRuns,
         RunJobEnds(k) \/ (TurnEnds /\ k = cur)
  PROVE  /\ AgreeAt(k)' /\ OwnAt(k)'
         /\ k \in failed' \/ (Vis(disk', log', k) <=> Vis(disk, log, k))
            \/ (Vis(disk, log, k) /\ Done(k))
<1>1. Stores /\ Timers /\ Life
  BY DEF Base
<1> DEFINE m == Executed(mem, k)
<1>2. /\ k \in DOMAIN m => k \in DOMAIN mem
      /\ k \in DOMAIN mem /\ k \notin DOMAIN m => Kind[k] = "once"
      /\ Kind[k] = "every" => (k \in DOMAIN m <=> k \in DOMAIN mem)
  <2>1. mem \in Store /\ Kind[k] \in Kinds
    BY <1>1, KindFacts DEF Stores, SoundStore
  <2> QED BY <2>1, ExecutedSays DEF Kinds
<1> HIDE DEF m
<1>3. /\ UNCHANGED <<up, log, system, born>> /\ up # "no"
      /\ mem' = m \/ mem' = mem
      /\ disk' = mem' \/ (disk' = disk /\ (k \in failed' \/ TurnEnds))
      /\ runs[k] > 0 => runs'[k] > 0
      /\ byHand' = byHand
  <2>1. CASE RunJobEnds(k)
    BY <1>1, <2>1 DEF RunJobEnds, Life, m
  <2>2. CASE TurnEnds /\ k = cur
    <3>1. (\E j \in Job : Count(j)) \/ runs' = runs
      <4>1. batch \subseteq Job
        BY <1>1 DEF Timers, Stores
      <4> QED BY <2>2, <4>1 DEF TurnEnds, EndTask, NextDue
    <3>2. runs[k] > 0 => runs'[k] > 0
      BY <3>1, CountSays
    <3> QED BY <1>1, <2>2, <3>2 DEF TurnEnds, Life, m
  <2> QED BY <2>1, <2>2
<1>4. ASSUME k \in DOMAIN mem, k \notin DOMAIN mem', About(log, k) = {}
      PROVE  Done(k) \/ k \in failed
  <2>1. Kind[k] = "once"
    BY <1>2, <1>3, <1>4
  <2>2. CASE RunJobEnds(k)
    BY <1>1, <2>1, <2>2 DEF RunJobEnds, Life, OneShot, Done
  <2>3. CASE TurnEnds /\ k = cur
    BY <1>4, <2>1, <2>3 DEF CurRuns, TurnEnds, Done
  <2> QED BY <2>2, <2>3
<1>5. Done(k) => Done(k)'
  BY <1>3 DEF Done
<1>6. k \in DOMAIN mem' => k \in DOMAIN mem
  BY <1>2, <1>3
<1>7. AgreeAt(k)'
  BY <1>3, <1>4, <1>5, <1>6 DEF AgreeAt
<1>8. OwnAt(k)'
  <2> SUFFICES ASSUME k \in system PROVE OwnAt(k)'
    BY <1>3 DEF OwnAt
  <2>1. k \in DOMAIN mem' <=> k \in DOMAIN mem
    BY <1>1, <1>2, <1>3, SystemFacts
  <2> QED BY <1>3, <2>1 DEF OwnAt
<1>9. CASE About(log, k) # {}
  BY <1>3, <1>7, <1>8, <1>9 DEF Vis
<1>10. CASE About(log, k) = {}
  <2>1. /\ Vis(disk', log', k) <=> k \in DOMAIN disk'
        /\ Vis(disk, log, k) <=> k \in DOMAIN disk
    BY <1>3, <1>10 DEF Vis
  <2>2. CASE k \in failed
    BY <1>7, <1>8, <2>2
  <2>3. CASE k \notin failed
    BY <1>3, <1>4, <1>6, <1>7, <1>8, <1>10, <2>1, <2>3 DEF AgreeAt
  <2> QED BY <2>2, <2>3
<1> QED BY <1>9, <1>10

\* An edit of it.
LEMMA EditKeeps ==
  ASSUME Base, Stores', failed \subseteq failed', NEW k \in Job, AgreeAt(k), OwnAt(k),
         NEW m, NEW x, Edit(k, m, x)
  PROVE  /\ AgreeAt(k)' /\ OwnAt(k)'
         /\ k \in failed'
            \/ (Vis(disk', log', k) <=> Vis(disk, log, k))
            \/ (Vis(disk', log', k) /\ (k \notin born \/ (~running /\ (EnableJob(k) \/ UpdateJob(k)))))
            \/ (~Vis(disk', log', k) /\ RemoveJob(k))
<1>1. Stores /\ log \in Seq(Line)
  BY DEF Base, Stores, SoundLog
<1>2. k \notin system /\ system' = system /\ up' = up /\ up # "no" /\ x.job = k /\ x \in Line
  BY OpKeeps DEF Edit, Op, SoundLine, Base
<1>3. OwnAt(k)'
  BY <1>2 DEF OwnAt
<1>4. k \in DOMAIN m <=> x.op = "add"
  BY DEF Edit
<1>5. \/ x.op = "add" /\ k \notin born
      \/ x.op = "del" /\ RemoveJob(k)
      \/ x.op = "add" /\ k \in DOMAIN Loaded /\ (EnableJob(k) \/ UpdateJob(k))
  BY DEF Edit
<1>6. k \in DOMAIN Merged <=> Vis(disk, log, k)
  BY <1>1, MergedIs
<1>7. k \notin born => About(log, k) = {}
  BY <1>1 DEF Stores, SoundLog, About
<1>8. CASE Note(x)
  <2>1. log' = Append(log, x) /\ ~running
    BY <1>8 DEF Note
  <2>2. About(log', k) # {} /\ LastLine(log', k) = x
    BY <1>1, <1>2, <2>1, AppendSays
  <2>3. Vis(disk', log', k) <=> x.op = "add"
    BY <2>2 DEF Vis
  <2>4. AgreeAt(k)'
    BY <2>2 DEF AgreeAt
  <2> QED BY <1>3, <1>5, <2>1, <2>3, <2>4
<1>9. CASE Save(TRUE, m)
  <2>1. mem' = m /\ disk' = m /\ log' = LogLeft(TRUE)
    BY <1>9 DEF Save
  <2>2. AgreeAt(k)'
    BY <2>1 DEF AgreeAt
  <2>3. CASE About(log', k) = {}
    <3>1. Vis(disk', log', k) <=> x.op = "add"
      BY <1>4, <2>1, <2>3 DEF Vis
    <3>2. ASSUME k \in DOMAIN Loaded, k \notin failed PROVE Vis(disk, log, k)
      <4>1. CASE Reloads
        BY <1>1, <1>6, <3>2, <4>1, RunningLoad
      <4>2. CASE ~Reloads
        <5>1. k \in DOMAIN mem /\ log' = log
          BY <2>1, <3>2, <4>2, ActiveLoad
        <5> QED BY <1>2, <2>3, <3>2, <5>1 DEF AgreeAt, Vis
      <4> QED BY <4>1, <4>2
    <3> QED BY <1>3, <1>5, <2>2, <3>1, <3>2
  <2>4. CASE About(log', k) # {}
    <3>1. log' = log
      BY <2>1, <2>4, EmptyLog DEF LogLeft
    <3>2. Vis(disk', log', k) <=> Vis(disk, log, k)
      BY <2>4, <3>1 DEF Vis
    <3> QED BY <1>3, <2>2, <3>2
  <2> QED BY <2>3, <2>4
<1>10. CASE SaveFails(TRUE, m, {k})
  <2>1. k \in failed'
    BY <1>10 DEF SaveFails
  <2> QED BY <1>3, <2>1 DEF AgreeAt
<1>11. CASE LoadFails(TRUE)
  <2>1. mem' = Merged /\ disk' = disk /\ log' = <<>>
        /\ failed' = failed \cup {log[i].job : i \in DOMAIN log}
    BY <1>11 DEF LoadFails
  <2>2. CASE About(log, k) # {}
    <3>1. k \in failed'
      BY <2>1, <2>2 DEF About
    <3> QED BY <1>3, <3>1 DEF AgreeAt
  <2>3. CASE About(log, k) = {}
    <3>1. Same(Merged, disk, k)
      BY <1>1, <2>3, MergedIs
    <3>2. Vis(disk', log', k) <=> Vis(disk, log, k)
      BY <2>1, <2>3, EmptyLog DEF Vis
    <3> QED BY <1>3, <2>1, <3>1, <3>2 DEF AgreeAt, Same
  <2> QED BY <2>2, <2>3
<1> QED BY <1>8, <1>9, <1>10, <1>11 DEF Edit, Commit

\* A line that another process appends about it.
LEMMA AppendKeeps ==
  ASSUME Base, NEW k \in Job, AgreeAt(k), OwnAt(k), AppendAdd(k) \/ AppendDel(k)
  PROVE  /\ AgreeAt(k)' /\ OwnAt(k)'
         /\ \/ Vis(disk', log', k) /\ k \notin born
            \/ ~Vis(disk', log', k) /\ AppendDel(k)
<1>1. log \in Seq(Line)
  BY DEF Base, Stores, SoundLog
<1>2. k \notin system /\ system' = system
  BY DEF AppendAdd, AppendDel
<1>3. PICK x \in Line : /\ x.job = k /\ log' = Append(log, x)
                        /\ \/ x.op = "add" /\ k \notin born
                           \/ x.op = "del" /\ AppendDel(k)
  <2>1. CASE AppendAdd(k)
    <3>1. PICK r \in NewRecords(k) : log' = Append(log, Update(k, r))
      BY <2>1 DEF AppendAdd
    <3>2. r \in Record /\ k \notin born
      BY <2>1, NewRecordFacts DEF AppendAdd
    <3>3. Update(k, r) \in Line /\ Update(k, r).job = k /\ Update(k, r).op = "add"
      BY <3>2 DEF Line, Update
    <3> QED BY <3>1, <3>2, <3>3
  <2>2. CASE AppendDel(k)
    <3>1. log' = Append(log, Delete(k))
      BY <2>2 DEF AppendDel
    <3>2. Delete(k) \in Line /\ Delete(k).job = k /\ Delete(k).op = "del"
      BY DEF Line, Delete
    <3> QED BY <2>2, <3>1, <3>2
  <2> QED BY <2>1, <2>2
<1>4. About(log', k) # {} /\ LastLine(log', k) = x
  BY <1>1, <1>3, AppendSays
<1>5. Vis(disk', log', k) <=> x.op = "add"
  BY <1>4 DEF Vis
<1> QED BY <1>2, <1>3, <1>4, <1>5 DEF AgreeAt, OwnAt

\* Its time comes.
LEMMA ElapseKeeps ==
  ASSUME Base, NEW k \in Job, AgreeAt(k), OwnAt(k), Elapse(k)
  PROVE  /\ AgreeAt(k)' /\ OwnAt(k)'
         /\ Vis(disk', log', k) <=> Vis(disk, log, k)
<1>1. Stores
  BY DEF Base
<1>2. /\ About(log', k) = About(log, k)
      /\ \A i \in DOMAIN log : log'[i] = PassedLine(log[i], k)
  BY <1>1, ElapseLog DEF Stores
<1>3. /\ UNCHANGED <<up, failed, runs, byHand, system, born>>
      /\ mem' = PassedIn(mem, k) /\ disk' = PassedIn(disk, k)
  BY DEF Elapse, faultVars, history
<1>4. DOMAIN mem' = DOMAIN mem /\ DOMAIN disk' = DOMAIN disk
  BY <1>1, <1>3, PassedSound DEF Stores
<1>5. ASSUME About(log, k) # {} PROVE LastLine(log', k).op = LastLine(log, k).op
  <2>1. Max(About(log, k)) \in DOMAIN log
    BY <1>1, <1>5, LastFacts DEF About, Stores, SoundLog
  <2>2. log[Max(About(log, k))] \in Line
    BY <1>1, <2>1, LineFacts DEF Stores, SoundLog
  <2> QED BY <1>2, <2>1, <2>2, PassedLineSays DEF LastLine
<1> QED BY <1>2, <1>3, <1>4, <1>5 DEF AgreeAt, OwnAt, Done, Vis

\* The job in execution stays one that has run.
LEMMA CurRunsNext ==
  ASSUME Base, Stores', failed \subseteq failed', CurRuns, [Next]_vars
  PROVE  CurRuns'
<1>1. Stores /\ Timers /\ Life
  BY DEF Base
<1> SUFFICES ASSUME timer' = "running", Kind[cur'] = "once"
             PROVE  runs'[cur'] > 0 \/ About(log', cur') # {} \/ cur' \in failed'
  BY DEF CurRuns
<1>2. CASE UNCHANGED vars
  BY <1>2 DEF vars, storeVars, taskVars, faultVars, history, CurRuns
<1>3. CASE Next /\ \E due \in SUBSET Job : NextDue(due)
  <2>1. PICK j \in Job : cur' = j /\ Count(j)
    BY <1>3 DEF NextDue
  <2> QED BY <2>1, CountSays DEF OneShot
<1>4. CASE Next /\ ~\E due \in SUBSET Job : NextDue(due)
  <2>1. DueJobs(Merged) \subseteq Job /\ batch \subseteq Job
    BY <1>1, LoadedSound, StoreFacts DEF SoundStore, DueJobs, Timers, Stores
  <2>2. ~Start /\ ~Stop /\ ~Crash /\ ~Fire /\ ~TurnEnds
    BY <1>4, <2>1 DEF Start, Stop, Crash, Fire, TurnEnds, EndTask
  <2>3. timer = "running" /\ cur' = cur
    <3>1. CASE StartFails \/ Unwind \/ ListJobs
      BY <3>1 DEF StartFails, Unwind, ListJobs, taskVars
    <3>2. ASSUME NEW j \in Job, AddJob(j) \/ RemoveJob(j) \/ EnableJob(j) \/ UpdateJob(j)
          PROVE  timer = "running" /\ cur' = cur
      <4>1. PICK m, x : Edit(j, m, x)
        BY <3>2, EditShape
      <4> QED BY <4>1 DEF Edit, Commit, Note, Arm, taskVars
    <3>3. ASSUME NEW j \in Job, AskRun(j) \/ RunJob(j) \/ RunRefused(j) \/ RunJobEnds(j)
          PROVE  timer = "running" /\ cur' = cur
      BY <3>3 DEF AskRun, RunJob, RunRefused, RunJobEnds, Restore, Arm, taskVars
    <3>4. ASSUME NEW j \in Job, AppendAdd(j) \/ AppendDel(j) \/ Elapse(j)
          PROVE  timer = "running" /\ cur' = cur
      BY <3>4 DEF AppendAdd, AppendDel, Elapse, taskVars
    <3> QED BY <1>4, <2>2, <3>1, <3>2, <3>3, <3>4 DEF Next, Call
  <2>4. cur \in Job /\ up # "no" /\ ~Reloads
    BY <1>1, <2>3 DEF Timers, Stores, Life, Reloads, TimerActive
  <2>5. runs[cur] > 0 \/ About(log, cur) # {} \/ cur \in failed
    BY <2>3 DEF CurRuns
  <2>6. CASE Passes(cur)
    <3>1. runs[cur] > 0 => runs'[cur] > 0
      BY <2>6 DEF Passes
    <3>2. About(log', cur) = About(log, cur) \/ cur \in failed'
      BY <2>4, <2>6 DEF Passes, Handled, Loads, Stays, Reloaded, MergedIn, Lost, Flushed, SameLines
    <3> QED BY <2>3, <2>5, <3>1, <3>2
  <2>7. ASSUME NEW m, NEW x, Edit(cur, m, x)
        PROVE  runs'[cur] > 0 \/ About(log', cur) # {} \/ cur \in failed'
    <3>1. CASE Note(x)
      <4>1. log \in Seq(Line) /\ x \in Line /\ x.job = cur /\ log' = Append(log, x)
        BY <1>1, <2>7, <3>1 DEF Stores, SoundLog, Edit, SoundLine, Note
      <4> QED BY <4>1, AppendSays
    <3>2. CASE Commit(cur, m)
      <4>1. ~Arm
        BY DEF Arm
      <4>2. ~LoadFails(TRUE)
        BY <2>4 DEF LoadFails, Merges
      <4>3. SaveFails(TRUE, m, {cur})
        BY <3>2, <4>1, <4>2 DEF Commit
      <4> QED BY <4>3 DEF SaveFails
    <3> QED BY <2>7, <3>1, <3>2 DEF Edit
  <2>8. CASE RunJobEnds(cur)
    BY <2>3, <2>5, <2>8 DEF RunJobEnds
  <2>9. CASE AppendAdd(cur) \/ AppendDel(cur)
    <3>1. \E x \in Line : x.job = cur /\ log' = Append(log, x)
      <4>1. CASE AppendAdd(cur)
        <5>1. PICK r \in NewRecords(cur) : log' = Append(log, Update(cur, r))
          BY <4>1 DEF AppendAdd
        <5>2. r \in Record
          BY NewRecordFacts
        <5>3. Update(cur, r) \in Line /\ Update(cur, r).job = cur
          BY <2>4, <5>2 DEF Line, Update
        <5> QED BY <5>1, <5>3
      <4>2. CASE AppendDel(cur)
        <5>1. Delete(cur) \in Line /\ Delete(cur).job = cur
          BY <2>4 DEF Line, Delete
        <5> QED BY <4>2, <5>1 DEF AppendDel
      <4> QED BY <2>9, <4>1, <4>2
    <3>2. log \in Seq(Line)
      BY <1>1 DEF Stores, SoundLog
    <3>3. About(log', cur) # {}
      BY <3>1, <3>2, AppendSays
    <3> QED BY <2>3, <3>3
  <2>10. CASE Elapse(cur)
    <3>1. About(log', cur) = About(log, cur) /\ UNCHANGED <<runs, failed>>
      BY <1>1, <2>4, <2>10, ElapseLog DEF Stores, Elapse, faultVars, history
    <3> QED BY <2>3, <2>5, <3>1
  <2>11. CASE StartFails
    BY <2>4, <2>11 DEF StartFails
  <2> QED BY <1>4, <2>2, <2>3, <2>4, <2>6, <2>7, <2>8, <2>9, <2>10, <2>11, Effects
<1> QED BY <1>2, <1>3, <1>4

\* What holds of every job, whatever has been done to it.
Kept == CurRuns /\ \A k \in Job : AgreeAt(k) /\ OwnAt(k)

LEMMA KeptInit == Init => Kept
<1> SUFFICES ASSUME Init PROVE Kept
  OBVIOUS
<1>1. up = "no" /\ timer = "off"
  BY DEF Init
<1>2. \A k \in system : k \notin born
  BY DEF Init
<1> QED BY <1>1, <1>2 DEF Kept, CurRuns, AgreeAt, OwnAt

LEMMA KeptStep ==
  ASSUME Base, Stores', Kept, Next, NEW k \in Job
  PROVE  /\ AgreeAt(k)' /\ OwnAt(k)'
         /\ Comes(k) /\ Goes(k)
<1>1. /\ Stores /\ Timers /\ Life
      /\ AgreeAt(k) /\ OwnAt(k) /\ CurRuns
  BY DEF Base, Kept
<1>2. failed \subseteq failed' /\ byHand \subseteq byHand'
  BY Grows
<1>3. /\ k \in Visible <=> Vis(disk, log, k)
      /\ k \in Visible' <=> Vis(disk', log', k)
  BY <1>1, VisibleIs, VisibleIsNext
<1>4. ASSUME k \in failed' \/ (Vis(disk', log', k) <=> Vis(disk, log, k))
             \/ (Vis(disk, log, k) /\ Done(k))
      PROVE  Comes(k) /\ Goes(k)
  BY <1>3, <1>4 DEF Comes, Goes, Done
<1>5. CASE Passes(k)
  <2>1. /\ AgreeAt(k)' /\ OwnAt(k)'
        /\ k \in failed' \/ (Vis(disk', log', k) <=> Vis(disk, log, k))
           \/ (Vis(disk, log, k) /\ Done(k))
    BY <1>1, <1>2, <1>5, PassesKeeps
  <2> QED BY <1>4, <2>1
<1>6. CASE RunJobEnds(k) \/ (TurnEnds /\ k = cur)
  <2>1. /\ AgreeAt(k)' /\ OwnAt(k)'
        /\ k \in failed' \/ (Vis(disk', log', k) <=> Vis(disk, log, k))
           \/ (Vis(disk, log, k) /\ Done(k))
    BY <1>1, <1>2, <1>6, EndKeeps
  <2> QED BY <1>4, <2>1
<1>7. CASE \E m, x : Edit(k, m, x)
  <2>1. PICK m, x : Edit(k, m, x)
    BY <1>7
  <2>2. /\ AgreeAt(k)' /\ OwnAt(k)'
        /\ k \in failed'
           \/ (Vis(disk', log', k) <=> Vis(disk, log, k))
           \/ (Vis(disk', log', k) /\ (k \notin born \/ (~running /\ (EnableJob(k) \/ UpdateJob(k)))))
           \/ (~Vis(disk', log', k) /\ RemoveJob(k))
    BY <1>1, <1>2, <2>1, EditKeeps
  <2>3. Comes(k)
    BY <1>3, <2>2 DEF Comes
  <2>4. Goes(k)
    BY <1>3, <2>2 DEF Goes
  <2> QED BY <2>2, <2>3, <2>4
<1>8. CASE AppendAdd(k) \/ AppendDel(k)
  <2>1. /\ AgreeAt(k)' /\ OwnAt(k)'
        /\ \/ Vis(disk', log', k) /\ k \notin born
           \/ ~Vis(disk', log', k) /\ AppendDel(k)
    BY <1>1, <1>8, AppendKeeps
  <2>2. Comes(k)
    BY <1>3, <2>1 DEF Comes
  <2>3. Goes(k)
    BY <1>3, <2>1 DEF Goes
  <2> QED BY <2>1, <2>2, <2>3
<1>9. CASE Elapse(k)
  <2>1. /\ AgreeAt(k)' /\ OwnAt(k)'
        /\ Vis(disk', log', k) <=> Vis(disk, log, k)
    BY <1>1, <1>9, ElapseKeeps
  <2> QED BY <1>4, <2>1
<1>10. CASE Start \/ StartFails
  <2>1. /\ k \in failed' \/ (Vis(disk', log', k) <=> Vis(disk, log, k) \/ k \in system)
        /\ k \in system => k \in DOMAIN disk' /\ About(log', k) = {}
        /\ Start => mem' = disk'
    BY <1>1, <1>10, StartEffect
  <2>2. /\ system' = system /\ born' = born \cup system
        /\ Start \/ (up' = "no" /\ up = "no")
    BY <1>10 DEF Start, StartFails
  <2>3. AgreeAt(k)' /\ OwnAt(k)'
    BY <2>1, <2>2 DEF AgreeAt, OwnAt
  <2>4. k \in system /\ k \in born => Vis(disk, log, k)
    BY <1>1 DEF OwnAt, Vis
  <2>5. Comes(k) /\ Goes(k)
    BY <1>3, <2>1, <2>4 DEF Comes, Goes
  <2> QED BY <2>3, <2>5
<1>11. CASE Crash
  <2>1. up' = "no" /\ UNCHANGED <<disk, log, born, system>>
    BY <1>11 DEF Crash
  <2>2. AgreeAt(k)' /\ OwnAt(k)'
    BY <1>1, <2>1 DEF AgreeAt, OwnAt
  <2> QED BY <1>4, <2>1, <2>2
<1> QED BY <1>5, <1>6, <1>7, <1>8, <1>9, <1>10, <1>11, Effects

LEMMA KeptNext ==
  ASSUME Base, Stores', Kept, [Next]_vars
  PROVE  Kept'
<1>1. failed \subseteq failed'
  BY Grows
<1>2. CurRuns'
  BY <1>1, CurRunsNext DEF Kept
<1>3. ASSUME NEW k \in Job PROVE AgreeAt(k)' /\ OwnAt(k)'
  <2>1. CASE UNCHANGED vars
    <3>1. UNCHANGED <<up, system, mem, disk, log, failed, runs, byHand, born>> /\ AgreeAt(k) /\ OwnAt(k)
      BY <2>1 DEF vars, storeVars, faultVars, history, Kept
    <3> QED BY <3>1 DEF AgreeAt, OwnAt, Done
  <2> QED BY <2>1, KeptStep
<1> QED BY <1>2, <1>3 DEF Kept

\* A job is there from the edit that adds it, in the gateway or in another
\* process, to the edit that removes it or the end of its only run: no save of
\* older objects (_save_store), merge (_merge_action), reload, shutdown, restart
\* or crash makes one come or go, nor does a write that fails for another job.
THEOREM CronJobsComeAndGo == Spec => JobsComeAndGo
<1>1. Init => Base /\ Kept
  BY BaseInit, KeptInit
<1>2. Base /\ Kept /\ [Next]_vars => Base' /\ Kept'
  <2> SUFFICES ASSUME Base, Kept, [Next]_vars PROVE Base' /\ Kept'
    OBVIOUS
  <2>1. Base'
    BY BaseNext
  <2>2. Kept'
    BY <2>1, KeptNext DEF Base
  <2> QED BY <2>1, <2>2
<1>3. Base /\ Base' /\ Kept /\ [Next]_vars =>
        [\A j \in Job :
           /\ j \notin Visible /\ j \in Visible' =>
                j \notin born \/ j \in failed' \/ (~running /\ (EnableJob(j) \/ UpdateJob(j)))
           /\ j \in Visible /\ j \notin Visible' =>
                \/ RemoveJob(j) \/ AppendDel(j)
                \/ Kind[j] = "once" /\ (runs[j] > 0 \/ j \in byHand)
                \/ j \in failed']_vars
  <2> SUFFICES ASSUME Base, Base', Kept, Next, NEW j \in Job
               PROVE  /\ j \notin Visible /\ j \in Visible' =>
                           j \notin born \/ j \in failed' \/ (~running /\ (EnableJob(j) \/ UpdateJob(j)))
                      /\ j \in Visible /\ j \notin Visible' =>
                           \/ RemoveJob(j) \/ AppendDel(j)
                           \/ Kind[j] = "once" /\ (runs[j] > 0 \/ j \in byHand)
                           \/ j \in failed'
    OBVIOUS
  <2>1. Stores'
    BY DEF Base
  <2>2. Comes(j) /\ Goes(j)
    BY <2>1, KeptStep
  <2> QED BY <2>2 DEF Comes, Goes
<1> QED BY <1>1, <1>2, <1>3, PTL DEF Spec, JobsComeAndGo

-----------------------------------------------------------------------------
(* A one-time job is run once.                                              *)

\* No line, no copy, can make job k due again.
Over(r)         == r.at = "past" /\ r.next = "none"
LinesOver(l, k) == \A i \in About(l, k) : l[i].op = "add" => Over(l[i].rec)
PastIn(s, k)    == k \in DOMAIN s => s[k].at = "past"
OverIn(s, k)    == k \in DOMAIN s => Over(s[k])

\* Job k is due in a batch that is executed.
Waits(k) == timer = "running" /\ k \in batch

\* A one-time job that has been submitted, or is about to be, is due in no copy
\* that a timer can get at: memory until its turn is over, and jobs.json until
\* the batch is saved or the gateway restarts, but no longer, and no line.
HasRunOnce(k) ==
  /\ runs[k] = IF Waits(k) THEN 0 ELSE 1
  /\ LinesOver(log, k)
  /\ PastIn(mem, k) /\ (OverIn(mem, k) \/ (timer = "running" /\ k \in batch \cup {cur}))
  /\ PastIn(disk, k) /\ (OverIn(disk, k) \/ timer = "running" \/ up = "no")
OnceAt(k) ==
  OneShot(k) /\ k \notin cut \cup byHand \cup failed /\ (runs[k] > 0 \/ Waits(k)) => HasRunOnce(k)

LEMMA SameOver ==
  ASSUME NEW s, NEW t, NEW k, Same(s, t, k)
  PROVE  /\ PastIn(t, k) => PastIn(s, k)
         /\ OverIn(t, k) => OverIn(s, k)
BY DEF Same, PastIn, OverIn

LEMMA MergedOver ==
  ASSUME Stores, NEW k \in Job, LinesOver(log, k), PastIn(disk, k)
  PROVE  /\ PastIn(Merged, k)
         /\ OverIn(disk, k) => OverIn(Merged, k)
<1>1. CASE About(log, k) = {}
  BY <1>1, MergedIs, SameOver
<1>2. CASE About(log, k) # {}
  <2>1. Max(About(log, k)) \in About(log, k)
    BY <1>2, LastFacts DEF Stores, SoundLog
  <2>2. k \in DOMAIN Merged => Over(Merged[k])
    BY <1>2, <2>1, MergedIs DEF LinesOver, LastLine
  <2> QED BY <2>2 DEF PastIn, OverIn, Over
<1> QED BY <1>1, <1>2

\* A one-time job whose time has passed is due or over.
LEMMA DueOrOver ==
  ASSUME NEW b, NEW s, SoundStore(s, b), NEW k \in Job, OneShot(k), PastIn(s, k)
  PROVE  /\ OverIn(s, k) \/ k \in DueJobs(s)
         /\ OverIn(s, k) => k \notin DueJobs(s)
<1>1. CASE k \notin DOMAIN s
  BY <1>1 DEF OverIn, DueJobs
<1>2. CASE k \in DOMAIN s
  <2>1. s[k] \in Record /\ RecordOK(k, s[k]) /\ s[k].at = "past"
    BY <1>2, StoreFacts DEF SoundStore, PastIn
  <2>2. s[k].next \in {"none", "due"} /\ (s[k].next = "due" => s[k].on)
    BY <2>1, RecordFacts DEF RecordOK
  <2> QED BY <1>2, <2>1, <2>2 DEF OverIn, Over, DueJobs, IsDue
<1> QED BY <1>1, <1>2

\* A due one-time job is past.
LEMMA DuePast ==
  ASSUME NEW b, NEW s, SoundStore(s, b), NEW k \in DueJobs(s), OneShot(k)
  PROVE  PastIn(s, k) /\ ~OverIn(s, k) /\ k \in DOMAIN s
<1>1. k \in DOMAIN s /\ s[k].next = "due"
  BY DEF DueJobs, IsDue
<1>2. RecordOK(k, s[k])
  BY <1>1 DEF SoundStore
<1> QED BY <1>1, <1>2 DEF PastIn, OverIn, Over, RecordOK

\* What a step about another job, or about none, leaves of it.
LEMMA HandledOver ==
  ASSUME Base, NEW k \in Job, Handled(k), k \notin failed',
         LinesOver(log, k), PastIn(mem, k), PastIn(disk, k)
  PROVE  /\ LinesOver(log', k) /\ PastIn(mem', k) /\ PastIn(disk', k)
         /\ OverIn(mem, k) /\ OverIn(disk, k) => OverIn(mem', k) /\ OverIn(disk', k)
         /\ timer = "running" => /\ Same(mem', mem, k)
                                 /\ Same(disk', disk, k) \/ Same(disk', mem, k)
         /\ up = "no" => Same(mem', mem, k)
<1>1. Stores
  BY DEF Base
<1>2. PastIn(Merged, k) /\ (OverIn(disk, k) => OverIn(Merged, k))
  BY <1>1, MergedOver
<1>3. timer = "running" => ~Reloads
  BY DEF Reloads, TimerActive
<1>4. SameLines(k) => LinesOver(log', k)
  BY DEF SameLines, LinesOver
<1>5. About(log', k) = {} => LinesOver(log', k)
  BY DEF LinesOver
<1>6. CASE Stays(k)
  BY <1>4, <1>6, SameOver DEF Stays
<1>7. CASE Reloaded(k)
  BY <1>2, <1>3, <1>4, <1>7, SameOver DEF Reloaded
<1>8. CASE MergedIn(k)
  BY <1>2, <1>3, <1>5, <1>8, SameOver DEF MergedIn
<1>9. CASE Flushed(k)
  BY <1>4, <1>9, SameOver DEF Flushed
<1> QED BY <1>6, <1>7, <1>8, <1>9 DEF Handled, Loads, Lost

LEMMA HandledOnce ==
  ASSUME Base, Stores', NEW k \in Job, OnceAt(k), Handled(k), up # "no" \/ up' = up,
         runs'[k] = runs[k],
         failed \subseteq failed', byHand \subseteq byHand', cut \subseteq cut',
         \/ UNCHANGED <<timer, cur, batch>>
         \/ timer' # "running" /\ (timer = "running" => CancelTimer)
         \/ timer # "running" /\ timer' = "running" /\ k \notin batch'
  PROVE  OnceAt(k)'
<1>1. Stores /\ Timers
  BY DEF Base
<1> SUFFICES ASSUME OneShot(k), k \notin cut' \cup byHand' \cup failed', runs'[k] > 0 \/ Waits(k)'
             PROVE  HasRunOnce(k)'
  BY DEF OnceAt
<1> USE DEF HasRunOnce
<1>2. Waits(k)' => Waits(k)
  BY DEF Waits
<1>3. /\ runs[k] = IF Waits(k) THEN 0 ELSE 1
      /\ LinesOver(log, k)
      /\ PastIn(mem, k) /\ (OverIn(mem, k) \/ (timer = "running" /\ k \in batch \cup {cur}))
      /\ PastIn(disk, k) /\ (OverIn(disk, k) \/ timer = "running" \/ up = "no")
  BY <1>2 DEF OnceAt
<1>4. /\ LinesOver(log', k) /\ PastIn(mem', k) /\ PastIn(disk', k)
      /\ OverIn(mem, k) /\ OverIn(disk, k) => OverIn(mem', k) /\ OverIn(disk', k)
      /\ timer = "running" => /\ Same(mem', mem, k)
                              /\ Same(disk', disk, k) \/ Same(disk', mem, k)
      /\ up = "no" => Same(mem', mem, k)
  BY <1>3, HandledOver
<1>5. runs'[k] = IF Waits(k)' THEN 0 ELSE 1
  BY <1>2, <1>3
<1>6. CASE timer # "running"
  <2>1. OverIn(mem', k) /\ (up = "no" \/ OverIn(disk', k))
    BY <1>3, <1>4, <1>6, SameOver
  <2> QED BY <1>4, <1>5, <2>1
<1>7. CASE timer = "running" /\ UNCHANGED <<timer, cur, batch>>
  BY <1>3, <1>4, <1>5, <1>7, SameOver
<1>8. CASE timer = "running" /\ timer' # "running" /\ CancelTimer
  <2>1. cut' = cut \cup {cur} \cup (DueJobs(disk') \ DueJobs(mem'))
    BY <1>8 DEF CancelTimer
  <2>2. ~Waits(k) /\ k # cur
    BY <1>3, <1>8, <2>1 DEF Waits
  <2>3. OverIn(mem, k)
    BY <1>3, <1>8, <2>2 DEF Waits
  <2>4. OverIn(mem', k)
    BY <1>4, <1>8, <2>3, SameOver
  <2>5. OverIn(disk', k)
    <3>1. SoundStore(mem', born') /\ SoundStore(disk', born')
      BY DEF Stores
    <3>2. k \notin DueJobs(mem')
      BY <1>4, <2>4, <3>1, DueOrOver
    <3>3. k \notin DueJobs(disk')
      BY <2>1, <3>2
    <3> QED BY <1>4, <3>1, <3>3, DueOrOver
  <2> QED BY <1>4, <1>5, <2>4, <2>5
<1> QED BY <1>6, <1>7, <1>8

LEMMA CutGrows ==
  ASSUME Base, [Next]_vars
  PROVE  cut \subseteq cut'
<1>1. CancelTimer => cut \subseteq cut'
  BY DEF CancelTimer
<1>2. CASE UNCHANGED vars
  BY <1>2 DEF vars, history
<1>3. CASE Start \/ StartFails \/ Crash \/ TurnEnds \/ Unwind \/ Fire \/ ListJobs
  BY <1>3 DEF Start, StartFails, Crash, TurnEnds, Unwind, Fire, ListJobs, history
<1>4. CASE Stop
  BY <1>1, <1>4 DEF Stop
<1>5. ASSUME NEW j \in Job, Call(j) PROVE cut \subseteq cut'
  <2>1. CASE AddJob(j) \/ RemoveJob(j) \/ EnableJob(j) \/ UpdateJob(j)
    <3>1. PICK m, x : Edit(j, m, x)
      BY <2>1, EditShape
    <3> QED BY <1>1, <3>1 DEF Edit, Commit, Note, Arm
  <2>2. CASE AskRun(j) \/ RunJob(j) \/ RunRefused(j) \/ RunJobEnds(j)
    BY <1>1, <2>2 DEF AskRun, RunJob, RunRefused, RunJobEnds, Restore, Arm, history
  <2> QED BY <1>5, <2>1, <2>2 DEF Call
<1>6. ASSUME NEW j \in Job, AppendAdd(j) \/ AppendDel(j) \/ Elapse(j)
      PROVE  cut \subseteq cut'
  BY <1>6 DEF AppendAdd, AppendDel, Elapse, history
<1> QED BY <1>2, <1>3, <1>4, <1>5, <1>6 DEF Next

\* The history of job k only grows.
Older == failed \subseteq failed' /\ byHand \subseteq byHand' /\ cut \subseteq cut'

\* The timer takes up a batch, or finds that there is none.
LEMMA FireOnce ==
  ASSUME Base, Stores', Older, NEW k \in Job, OnceAt(k), Fire
  PROVE  OnceAt(k)'
<1>1. Stores /\ Timers /\ Life
  BY DEF Base
<1>2. /\ timer = "asleep" /\ Reloads /\ batch = {} /\ up # "no" /\ up' = up
      /\ UNCHANGED <<cut, byHand>>
  BY <1>1 DEF Fire, Reloads, TimerActive, Timers, Life
<1>3. Handled(k)
  <2>1. CASE ~running
    <3>1. UNCHANGED storeVars
      BY <2>1 DEF Fire
    <3> QED BY <3>1, UnchangedStays DEF Handled, Loads
  <2>2. CASE Load(TRUE) \/ LoadFails(TRUE)
    BY <1>2, <2>2, LoadEffect DEF Handled
  <2>3. CASE Save(TRUE, Merged) \/ SaveFails(TRUE, Merged, {})
    <3>1. Same(Merged, Loaded, k)
      BY <1>2 DEF Loaded, Same
    <3> QED BY <1>2, <2>3, <3>1, SaveEffect
  <2> QED BY <2>1, <2>2, <2>3 DEF Fire
<1>4. CASE EndTask("off") \/ EndTask("asleep") \/ EndTask("dead")
  <2>1. runs' = runs /\ timer' # "running"
    BY <1>4 DEF EndTask
  <2> QED BY <1>2, <1>3, <2>1, HandledOnce DEF Older
<1> DEFINE due == DueJobs(Merged)
<1>5. CASE running /\ Load(TRUE) /\ NextDue(due)
  <2>1. SoundStore(Merged, born) /\ Merged \in Store
    BY <1>1, LoadedSound DEF SoundStore
  <2>2. PICK j \in due : timer' = "running" /\ cur' = j /\ batch' = due \ {j} /\ Count(j)
    BY <1>5 DEF NextDue
  <2>3. j \in Job
    BY <2>1, StoreFacts DEF DueJobs
  <2>4. CASE k \notin due
    <3>1. k # j /\ k \notin batch'
      BY <2>2, <2>4
    <3>2. runs'[k] = runs[k]
      BY <2>2, <2>3, <3>1, CountSays
    <3> QED BY <1>2, <1>3, <2>2, <3>1, <3>2, HandledOnce DEF Older
  <2>5. CASE k \in due
    <3> SUFFICES ASSUME OneShot(k), k \notin cut' \cup byHand' \cup failed'
                 PROVE  /\ runs'[k] = IF Waits(k)' THEN 0 ELSE 1
                        /\ LinesOver(log', k)
                        /\ PastIn(mem', k) /\ (timer' = "running" /\ k \in batch' \cup {cur'})
                        /\ PastIn(disk', k) /\ timer' = "running"
      BY DEF OnceAt, HasRunOnce
    <3>1. PastIn(Merged, k) /\ ~OverIn(Merged, k) /\ k \in DOMAIN Merged
      BY <2>1, <2>5, DuePast
    <3>2. runs[k] = 0
      <4>1. CASE runs[k] > 0
        <5>1. LinesOver(log, k) /\ PastIn(disk, k) /\ OverIn(disk, k)
          BY <1>2, <4>1 DEF OnceAt, HasRunOnce, Older
        <5> QED BY <1>1, <3>1, <5>1, MergedOver
      <4>2. runs[k] \in 0 .. 2
        BY <1>1 DEF Timers
      <4> QED BY <4>1, <4>2
    <3>3. Waits(k)' <=> k # j
      BY <2>2, <2>5 DEF Waits
    <3>4. runs'[k] = IF k = j THEN 1 ELSE 0
      BY <2>2, <2>3, <3>2, CountSays
    <3>5. mem' = Merged /\ disk' = Merged /\ (log' = <<>> \/ (log' = log /\ Quiet(Merged, log)))
      BY <1>1, <1>2, <1>5, RunningLoad DEF Load
    <3>6. About(log', k) = {}
      BY <3>1, <3>5, EmptyLog, QuietLines
    <3> QED BY <2>2, <2>5, <3>1, <3>3, <3>4, <3>5, <3>6 DEF LinesOver
  <2> QED BY <2>4, <2>5
<1> QED BY <1>4, <1>5 DEF Fire

\* The job in execution is over, and the next is taken up or the batch saved.
LEMMA TurnOnce ==
  ASSUME Base, Stores', Older, NEW k \in Job, OnceAt(k), TurnEnds
  PROVE  OnceAt(k)'
<1>1. Stores /\ Timers /\ Life
  BY DEF Base
<1>2. timer = "running" /\ cur \in Job /\ cur \notin batch /\ batch \subseteq Job /\ log' = log
  BY <1>1 DEF TurnEnds, Timers, Stores
<1> DEFINE m == Executed(mem, cur)
<1>3. mem' = m /\ (disk' = disk \/ disk' = m)
  BY DEF TurnEnds
<1>4. k # cur => Same(m, mem, k)
  BY <1>1, <1>2, KindFacts, ExecutedSays DEF Stores, SoundStore
<1>5. OneShot(k) /\ k = cur /\ PastIn(mem, k) => OverIn(m, k) /\ PastIn(m, k)
  <2> SUFFICES ASSUME OneShot(k), k = cur, PastIn(mem, k), k \in DOMAIN m PROVE Over(m[k])
    BY DEF OverIn, PastIn, Over
  <2>1. mem \in Store /\ Kind[k] \in Kinds
    BY <1>1, KindFacts DEF Stores, SoundStore
  <2>2. Kind[k] = "keep" /\ k \in DOMAIN mem
    BY <2>1, ExecutedSays DEF OneShot, Kinds
  <2>3. m[k].next = "none" /\ m[k].at = mem[k].at
    BY <2>1, <2>2, ExecutedSays
  <2> QED BY <2>2, <2>3 DEF Over, PastIn
<1> HIDE DEF m
<1> SUFFICES ASSUME OneShot(k), k \notin cut' \cup byHand' \cup failed', runs'[k] > 0 \/ Waits(k)'
             PROVE  HasRunOnce(k)'
  BY DEF OnceAt
<1> USE DEF HasRunOnce
<1>6. ASSUME runs[k] > 0 \/ Waits(k)
      PROVE  /\ runs[k] = IF Waits(k) THEN 0 ELSE 1
             /\ LinesOver(log', k)
             /\ PastIn(mem', k) /\ PastIn(disk', k)
             /\ k \notin batch => OverIn(mem', k)
  <2>1. /\ runs[k] = IF Waits(k) THEN 0 ELSE 1
        /\ LinesOver(log, k) /\ PastIn(mem, k) /\ PastIn(disk, k)
        /\ OverIn(mem, k) \/ k \in batch \cup {cur}
    BY <1>6 DEF OnceAt, Older
  <2>2. PastIn(m, k) /\ (k \notin batch => OverIn(m, k))
    BY <1>2, <1>4, <1>5, <2>1, SameOver
  <2> QED BY <1>2, <1>3, <2>1, <2>2
<1>7. CASE NextDue(batch)
  <2>1. PICK j \in batch : timer' = "running" /\ cur' = j /\ batch' = batch \ {j} /\ Count(j)
    BY <1>7 DEF NextDue
  <2>2. j \in Job /\ (k # j => runs'[k] = runs[k])
        /\ (k = j => runs'[k] = IF runs[k] < 2 THEN runs[k] + 1 ELSE runs[k])
    BY <1>2, <2>1, CountSays
  <2>3. runs[k] > 0 \/ Waits(k)
    BY <1>2, <2>1, <2>2 DEF Waits
  <2>4. k \in batch => k \in batch' \cup {cur'}
    BY <2>1
  <2>5. Waits(k)' <=> (Waits(k) /\ k # j)
    BY <1>2, <2>1 DEF Waits
  <2>6. runs'[k] = IF Waits(k)' THEN 0 ELSE 1
    BY <1>2, <1>6, <2>1, <2>2, <2>3, <2>5 DEF Waits
  <2> QED BY <1>6, <2>1, <2>3, <2>4, <2>6
<1>8. CASE batch = {} /\ runs' = runs /\ timer' # "running"
           /\ (disk' = m \/ failed' = failed \cup (DueJobs(disk) \ DueJobs(m)))
  <2>1. ~Waits(k) /\ ~Waits(k)'
    BY <1>8 DEF Waits
  <2>2. /\ runs'[k] = 1 /\ LinesOver(log', k) /\ PastIn(mem', k) /\ PastIn(disk', k) /\ OverIn(mem', k)
    BY <1>6, <1>8, <2>1
  <2>3. OverIn(disk', k)
    <3>1. SoundStore(mem', born') /\ SoundStore(disk', born')
      BY DEF Stores
    <3>2. k \notin DueJobs(m)
      BY <1>3, <2>2, <3>1, DueOrOver
    <3>3. CASE disk' = disk /\ k \notin DueJobs(disk)
      BY <2>2, <3>1, <3>3, DueOrOver
    <3> QED BY <1>3, <1>8, <2>2, <3>2, <3>3
  <2> QED BY <2>1, <2>2, <2>3
<1>9. NextDue(batch) \/ (/\ batch = {} /\ runs' = runs /\ timer' # "running"
                         /\ (disk' = m \/ failed' = failed \cup (DueJobs(disk) \ DueJobs(m))))
  BY DEF TurnEnds, EndTask, m
<1> QED BY <1>7, <1>8, <1>9

\* An edit of job k: what is loaded of a job that has run is over, and so is
\* what an edit that leaves its time makes of it.
LEMMA EditOnce ==
  ASSUME Base, Stores', Older, NEW k \in Job, OnceAt(k), NEW m, NEW x, Edit(k, m, x)
  PROVE  OnceAt(k)'
<1>1. Stores /\ Timers
  BY DEF Base
<1>2. up # "no" /\ x.job = k /\ x \in Line
  BY OpKeeps DEF Edit, Op, SoundLine, Base
<1>3. (timer' # "running" /\ CancelTimer) \/ (UNCHANGED taskVars /\ (Reloads \/ k \in failed'))
      \/ (UNCHANGED taskVars /\ Note(x))
  <2>1. CASE LoadFails(TRUE) /\ UNCHANGED taskVars
    BY <2>1 DEF LoadFails, Merges
  <2>2. CASE SaveFails(TRUE, m, {k}) /\ UNCHANGED taskVars
    BY <2>2 DEF SaveFails
  <2>3. CASE Arm
    BY <2>3 DEF Arm
  <2> QED BY <2>1, <2>2, <2>3 DEF Edit, Commit, Note
<1> SUFFICES ASSUME OneShot(k), k \notin cut' \cup byHand' \cup failed', runs'[k] > 0 \/ Waits(k)'
             PROVE  HasRunOnce(k)'
  BY DEF OnceAt
<1> USE DEF HasRunOnce
<1>4. ~Waits(k)'
  <2>1. CASE timer' # "running"
    BY <2>1 DEF Waits
  <2>2. CASE UNCHANGED taskVars /\ Reloads
    BY <2>2 DEF Waits, Reloads, TimerActive, taskVars
  <2>3. CASE UNCHANGED taskVars /\ Note(x)
    BY <1>2, <2>3 DEF Waits, Note, taskVars
  <2> QED BY <1>3, <2>1, <2>2, <2>3
<1>5. runs' = runs /\ k \in DOMAIN Loaded /\ runs[k] > 0
      /\ (x.op = "add" => x.rec.at = Loaded[k].at /\ x.rec.next = NextRun(x.rec))
  BY <1>1, <1>4 DEF Edit, Timers
<1>6. ~Waits(k)
  BY <1>5 DEF OnceAt, Older
<1>7. /\ runs[k] = 1 /\ LinesOver(log, k)
      /\ PastIn(mem, k) /\ (OverIn(mem, k) \/ (timer = "running" /\ k = cur))
      /\ PastIn(disk, k) /\ (OverIn(disk, k) \/ timer = "running")
  BY <1>2, <1>5, <1>6 DEF OnceAt, Older, Waits
<1>8. PastIn(Loaded, k)
  BY <1>1, <1>7, MergedOver DEF Loaded
<1>9. x.op = "add" => Over(x.rec)
  BY <1>5, <1>8 DEF PastIn, Over, NextRun
<1>10. PastIn(m, k) /\ OverIn(m, k)
  BY <1>9 DEF Edit, PastIn, OverIn, Over
<1>11. CASE Note(x)
  <2>1. log' = Append(log, x) /\ disk' = disk /\ UNCHANGED taskVars
    BY <1>11 DEF Note
  <2>2. LinesOver(log', k)
    <3> SUFFICES ASSUME NEW i \in About(log', k), log'[i].op = "add" PROVE Over(log'[i].rec)
      BY DEF LinesOver
    <3>1. (i \in DOMAIN log /\ log'[i] = log[i]) \/ log'[i] = x
      BY <1>1, <1>2, <2>1, AppendSays DEF About, Stores, SoundLog
    <3> QED BY <1>7, <1>9, <3>1 DEF LinesOver, About
  <2>3. mem' = m
    BY <1>1, <1>5, <1>11, LoadedSound DEF Edit, Commit, Note, SoundStore
  <2> QED BY <1>4, <1>5, <1>7, <1>10, <2>1, <2>2, <2>3 DEF taskVars
<1>12. CASE Save(TRUE, m)
  <2>1. mem' = m /\ disk' = m /\ (log' = log \/ log' = <<>>)
    BY <1>12 DEF Save, LogLeft
  <2>2. LinesOver(log', k)
    BY <1>7, <2>1, EmptyLog DEF LinesOver
  <2> QED BY <1>4, <1>5, <1>7, <1>10, <2>1, <2>2
<1>13. CASE SaveFails(TRUE, m, {k})
  BY <1>13 DEF SaveFails
<1>14. CASE LoadFails(TRUE)
  <2>1. /\ mem' = Merged /\ disk' = disk /\ log' = <<>> /\ Reloads
    BY <1>14 DEF LoadFails, Merges
  <2>2. timer # "running"
    BY <2>1 DEF Reloads, TimerActive
  <2>3. PastIn(Merged, k) /\ OverIn(Merged, k)
    BY <1>1, <1>7, <2>2, MergedOver
  <2> QED BY <1>4, <1>5, <1>7, <2>1, <2>2, <2>3, EmptyLog DEF LinesOver
<1> QED BY <1>11, <1>12, <1>13, <1>14 DEF Edit, Commit

\* The gateway starts, or fails to: a time that has passed is never due again.
LEMMA StartOnce ==
  ASSUME Base, Stores', Older, NEW k \in Job, OnceAt(k), Start \/ StartFails
  PROVE  OnceAt(k)'
<1>1. Stores /\ Timers /\ Life
  BY DEF Base
<1>2. timer = "off" /\ up = "no" /\ runs' = runs /\ timer' # "running"
  BY <1>1 DEF Start, StartFails, taskVars, history, Life
<1> SUFFICES ASSUME OneShot(k), k \notin cut' \cup byHand' \cup failed', runs'[k] > 0 \/ Waits(k)'
             PROVE  HasRunOnce(k)'
  BY DEF OnceAt
<1> USE DEF HasRunOnce
<1>3. ~Waits(k) /\ ~Waits(k)' /\ runs[k] > 0
  BY <1>2 DEF Waits
<1>4. /\ runs[k] = 1 /\ LinesOver(log, k) /\ PastIn(mem, k) /\ OverIn(mem, k) /\ PastIn(disk, k)
  BY <1>2, <1>3 DEF OnceAt, Older
<1>5. LinesOver(log', k)
  BY <1>4, EmptyLog DEF Start, StartFails, LinesOver
<1>6. PastIn(Registered, k)
  <2>1. PastIn(Merged, k)
    BY <1>1, <1>4, MergedOver
  <2>2. k \notin system
    BY <1>1, SystemFacts
  <2>3. Same(Registered, Merged, k)
    BY <2>2, RegisteredSays
  <2> QED BY <2>1, <2>3, SameOver
<1>7. CASE Start
  <2>1. mem' = Rescheduled(Registered) /\ disk' = Rescheduled(Registered)
    BY <1>7 DEF Start
  <2>2. /\ DOMAIN Rescheduled(Registered) = DOMAIN Registered
        /\ \A j \in DOMAIN Registered :
             /\ Rescheduled(Registered)[j].at = Registered[j].at
             /\ OneShot(j) /\ Registered[j].at = "past" => Rescheduled(Registered)[j].next = "none"
    BY RegisteredSays, RescheduledSays
  <2>3. PastIn(Rescheduled(Registered), k) /\ OverIn(Rescheduled(Registered), k)
    BY <1>6, <2>2 DEF PastIn, OverIn, Over
  <2> QED BY <1>2, <1>3, <1>4, <1>5, <2>1, <2>3
<1>8. CASE StartFails
  <2>1. mem' = mem /\ up' = up /\ (disk' = Registered \/ disk' = disk)
    BY <1>8 DEF StartFails, Before
  <2> QED BY <1>2, <1>3, <1>4, <1>5, <1>6, <2>1
<1> QED BY <1>7, <1>8

\* The gateway goes down: nothing due is left but in jobs.json.
LEMMA CrashOnce ==
  ASSUME Base, Older, NEW k \in Job, OnceAt(k), Crash
  PROVE  OnceAt(k)'
<1>1. /\ up' = "no" /\ timer' = "off" /\ mem' = NoJobs
      /\ UNCHANGED <<disk, log, runs>>
  BY DEF Crash, history
<1> SUFFICES ASSUME OneShot(k), k \notin cut' \cup byHand' \cup failed', runs'[k] > 0 \/ Waits(k)'
             PROVE  HasRunOnce(k)'
  BY DEF OnceAt
<1> USE DEF HasRunOnce
<1>2. ~Waits(k)' /\ runs[k] > 0
  BY <1>1 DEF Waits
<1>3. runs[k] = (IF Waits(k) THEN 0 ELSE 1) /\ LinesOver(log, k) /\ PastIn(disk, k)
  BY <1>2 DEF OnceAt, Older
<1>4. runs[k] = 1
  BY <1>2, <1>3
<1>5. PastIn(mem', k) /\ OverIn(mem', k)
  BY <1>1 DEF NoJobs, PastIn, OverIn
<1> QED BY <1>1, <1>2, <1>3, <1>4, <1>5

\* Its time comes: it is past already.
LEMMA ElapseOnce ==
  ASSUME Base, Older, NEW k \in Job, OnceAt(k), Elapse(k)
  PROVE  OnceAt(k)'
<1>1. Stores
  BY DEF Base
<1>2. /\ mem' = PassedIn(mem, k) /\ disk' = PassedIn(disk, k)
      /\ UNCHANGED <<up, timer, cur, batch, runs>>
  BY DEF Elapse, taskVars, history
<1>3. ASSUME NEW s, SoundStore(s, born) PROVE /\ PastIn(s, k) /\ OneShot(k) => PastIn(PassedIn(s, k), k)
                                              /\ OverIn(s, k) => OverIn(PassedIn(s, k), k)
  <2>1. CASE k \notin DOMAIN s
    BY <1>3, <2>1, PassedSound DEF PastIn, OverIn
  <2>2. CASE k \in DOMAIN s
    <3>1. PassedIn(s, k)[k] = Passed(k, s[k]) /\ s[k] \in Record
      BY <1>3, <2>2, PassedSound, StoreFacts DEF SoundStore
    <3> QED BY <2>2, <3>1, PassedSays DEF PastIn, OverIn, Over
  <2> QED BY <2>1, <2>2
<1>4. LinesOver(log, k) => LinesOver(log', k)
  <2>1. /\ About(log', k) = About(log, k)
        /\ \A i \in DOMAIN log : log'[i] = PassedLine(log[i], k)
    BY <1>1, ElapseLog DEF Stores
  <2> SUFFICES ASSUME LinesOver(log, k), NEW i \in About(log, k), log'[i].op = "add"
               PROVE  Over(log'[i].rec)
    BY <2>1 DEF LinesOver
  <2>2. i \in DOMAIN log /\ log[i] \in Line /\ log[i].job = k
    BY <1>1, LineFacts DEF About, Stores, SoundLog
  <2>3. log[i].op = "add" /\ log'[i].rec = Passed(k, log[i].rec)
    BY <2>1, <2>2, PassedLineSays
  <2>4. log[i].rec \in Record /\ Over(log[i].rec)
    BY <1>1, <2>2, <2>3, LineFacts DEF LinesOver, Stores, SoundLog
  <2> QED BY <2>3, <2>4, PassedSays DEF Over
<1>5. Waits(k)' <=> Waits(k)
  BY <1>2 DEF Waits
<1>6. /\ OneShot(k) /\ PastIn(mem, k) => PastIn(mem', k)
      /\ OneShot(k) /\ PastIn(disk, k) => PastIn(disk', k)
      /\ OverIn(mem, k) => OverIn(mem', k)
      /\ OverIn(disk, k) => OverIn(disk', k)
  BY <1>1, <1>2, <1>3 DEF Stores
<1> QED BY <1>2, <1>4, <1>5, <1>6 DEF OnceAt, HasRunOnce, Older

\* Another process appends a line about it: none that adds it again, since its
\* id is in use.
LEMMA AppendOnce ==
  ASSUME Base, Older, NEW k \in Job, OnceAt(k), AppendAdd(k) \/ AppendDel(k)
  PROVE  OnceAt(k)'
<1>1. Stores /\ Timers
  BY DEF Base
<1>2. UNCHANGED <<up, mem, disk, timer, cur, batch, runs>>
  BY DEF AppendAdd, AppendDel, taskVars, history
<1>3. CASE AppendAdd(k)
  <2>1. k \notin born
    BY <1>3 DEF AppendAdd
  <2>2. ~(runs'[k] > 0) /\ ~Waits(k)'
    BY <1>1, <1>2, <2>1 DEF Timers, Waits
  <2> QED BY <2>2 DEF OnceAt
<1>4. CASE AppendDel(k)
  <2>1. log' = Append(log, Delete(k))
    BY <1>4 DEF AppendDel
  <2>2. Delete(k) \in Line /\ Delete(k).op = "del"
    BY DEF Line, Delete
  <2>3. LinesOver(log, k) => LinesOver(log', k)
    <3> SUFFICES ASSUME LinesOver(log, k), NEW i \in About(log', k), log'[i].op = "add"
                 PROVE  Over(log'[i].rec)
      BY DEF LinesOver
    <3>1. i \in DOMAIN log /\ log'[i] = log[i]
      BY <1>1, <2>1, <2>2, AppendSays DEF About, Stores, SoundLog
    <3> QED BY <3>1 DEF LinesOver, About
  <2>4. Waits(k)' <=> Waits(k)
    BY <1>2 DEF Waits
  <2> QED BY <1>2, <2>3, <2>4 DEF OnceAt, HasRunOnce, Older
<1> QED BY <1>3, <1>4

LEMMA OnceStep ==
  ASSUME Base, Stores', Older, Next, NEW k \in Job, OnceAt(k)
  PROVE  OnceAt(k)'
<1>1. Stores /\ Timers /\ Life
  BY DEF Base
<1>2. CASE Fire
  BY <1>2, FireOnce
<1>3. CASE TurnEnds
  BY <1>3, TurnOnce
<1>4. CASE Start \/ StartFails
  BY <1>4, StartOnce
<1>5. CASE Crash
  BY <1>5, CrashOnce
<1>6. CASE \E m, x : Edit(k, m, x)
  BY <1>6, EditOnce
<1>7. CASE AppendAdd(k) \/ AppendDel(k)
  BY <1>7, AppendOnce
<1>8. CASE Elapse(k)
  BY <1>8, ElapseOnce
<1>9. ASSUME OneShot(k) => k \in byHand' PROVE OnceAt(k)'
  BY <1>9 DEF OnceAt
<1>10. CASE RunJobEnds(k) \/ RunJob(k)
  <2>1. OneShot(k) => k \in byHand'
    BY <1>1, <1>10 DEF RunJobEnds, RunJob, Life
  <2> QED BY <1>9, <2>1
<1>11. ASSUME Passes(k), runs'[k] = runs[k], up # "no" \/ up' = up,
              \/ UNCHANGED <<timer, cur, batch>>
              \/ timer' # "running" /\ CancelTimer
       PROVE  OnceAt(k)'
  BY <1>11, HandledOnce DEF Passes, Older
<1>12. CASE Passes(k) /\ (Stop \/ Unwind \/ ListJobs)
  BY <1>11, <1>12 DEF Stop, Unwind, ListJobs, taskVars, history
<1>13. ASSUME Passes(k), NEW j \in Job, AddJob(j) \/ RemoveJob(j) \/ EnableJob(j) \/ UpdateJob(j)
       PROVE  OnceAt(k)'
  <2>1. PICK m, x : Edit(j, m, x)
    BY <1>13, EditShape
  <2>2. CASE j = k
    BY <1>6, <2>1, <2>2
  <2>3. CASE j # k
    <3>1. runs'[k] = runs[k] /\ up' = up
      BY <1>1, <2>1, <2>3 DEF Edit, Timers
    <3>2. UNCHANGED taskVars \/ Arm
      BY <2>1 DEF Edit, Commit, Note
    <3> QED BY <1>11, <1>13, <3>1, <3>2 DEF taskVars, Arm
  <2> QED BY <2>2, <2>3
<1>14. ASSUME Passes(k), NEW j \in Job, AskRun(j) \/ RunRefused(j) \/ RunJobEnds(j)
       PROVE  OnceAt(k)'
  BY <1>11, <1>14 DEF AskRun, RunRefused, RunJobEnds, Restore, Arm, taskVars, history
<1>15. ASSUME Passes(k), NEW j \in Job, RunJob(j)
       PROVE  OnceAt(k)'
  <2>1. CASE j # k
    <3>1. UNCHANGED <<timer, cur, batch, up>> /\ Count(j)
      BY <1>15 DEF RunJob, taskVars
    <3>2. runs'[k] = runs[k]
      BY <2>1, <3>1, CountSays
    <3> QED BY <1>11, <1>15, <3>1, <3>2
  <2> QED BY <1>10, <1>15, <2>1
<1>16. ASSUME Passes(k), NEW j \in Job, AppendAdd(j) \/ AppendDel(j) \/ Elapse(j)
       PROVE  OnceAt(k)'
  BY <1>11, <1>16 DEF AppendAdd, AppendDel, Elapse, taskVars, history
<1> QED BY <1>2, <1>3, <1>4, <1>5, <1>6, <1>7, <1>8, <1>10, <1>12, <1>13, <1>14, <1>15, <1>16,
           Effects DEF Next, Call

Once == \A k \in Job : OnceAt(k)

LEMMA OnceInit == Init => Once
<1> SUFFICES ASSUME Init, NEW k \in Job PROVE OnceAt(k)
  BY DEF Once
<1>1. runs[k] = 0 /\ timer = "off"
  BY DEF Init
<1> QED BY <1>1 DEF OnceAt, Waits

LEMMA OnceNext ==
  ASSUME Base, Stores', Once, [Next]_vars
  PROVE  Once'
<1>1. Older
  BY Grows, CutGrows DEF Older
<1> SUFFICES ASSUME NEW k \in Job PROVE OnceAt(k)'
  BY DEF Once
<1>2. OnceAt(k)
  BY DEF Once
<1>3. CASE UNCHANGED vars
  <2>1. UNCHANGED <<up, mem, disk, log, timer, cur, batch, failed, runs, cut, byHand>>
    BY <1>3 DEF vars, storeVars, taskVars, faultVars, history
  <2> QED BY <1>2, <2>1 DEF OnceAt, HasRunOnce, Waits
<1>4. CASE Next
  BY <1>1, <1>2, <1>4, OnceStep
<1> QED BY <1>3, <1>4

\* The timer submits the turn of a one-time job once (_on_timer, _execute_job),
\* whatever reloads, restarts, crashes, edits and lines of other processes come
\* between: what else could run it again are a cancelled execution or an edit of
\* a job that waits in its batch, a manual run (run_job), and a write that fails.
THEOREM CronRunsOnce == Spec => []OnceUnlessCut
<1>1. Init => Base /\ Once
  BY BaseInit, OnceInit
<1>2. Base /\ Once /\ [Next]_vars => Base' /\ Once'
  <2> SUFFICES ASSUME Base, Once, [Next]_vars PROVE Base' /\ Once'
    OBVIOUS
  <2>1. Base'
    BY BaseNext
  <2>2. Once'
    BY <2>1, OnceNext DEF Base
  <2> QED BY <2>1, <2>2
<1>3. Base /\ Once => OnceUnlessCut
  <2> SUFFICES ASSUME Base, Once, NEW k \in Job, OneShot(k), runs[k] > 1
               PROVE  k \in cut \cup byHand \cup failed
    BY DEF OnceUnlessCut
  <2>1. OnceAt(k)
    BY DEF Once
  <2>2. runs[k] # 1 /\ runs[k] # 0 /\ runs[k] > 0
    BY DEF Base, Timers
  <2> QED BY <2>1, <2>2 DEF OnceAt, HasRunOnce
<1> QED BY <1>1, <1>2, <1>3, PTL DEF Spec

-----------------------------------------------------------------------------
(* What memory and jobs.json say of a job agrees.                           *)

\* The batch has executed job k, and has not been saved.
Unsaved(k) == timer = "running" /\ IsDue(disk, k) /\ Same(mem, Executed(disk, k), k)

\* In a gateway that is up, memory and jobs.json agree on job k, or will when
\* the batch is saved; what the batch has still to execute is due.
SavedAt(k) ==
  up = "yes" /\ k \notin cut \cup failed =>
    /\ Same(mem, disk, k) \/ Unsaved(k)
    /\ timer = "running" /\ k \in batch \cup {cur} => IsDue(mem, k)

LEMMA SameTwice ==
  \A s, t, u, k : /\ Same(s, t, k) => Same(t, s, k)
                  /\ Same(s, t, k) /\ Same(t, u, k) => Same(s, u, k)
                  /\ Same(s, t, k) => (IsDue(s, k) <=> IsDue(t, k))
BY DEF Same, IsDue

\* An executed job is not due; what it becomes is a matter of its own record.
LEMMA ExecutedOnce ==
  ASSUME NEW s \in Store, NEW t \in Store, NEW k \in Job
  PROVE  /\ ~IsDue(Executed(s, k), k)
         /\ Same(s, t, k) => Same(Executed(s, k), Executed(t, k), k)
<1>1. Kind[k] \in {"once", "keep", "every"}
  BY KindFacts DEF Kinds
<1>2. ASSUME NEW r \in Store
      PROVE  /\ k \in DOMAIN Executed(r, k) <=> k \in DOMAIN r /\ Kind[k] # "once"
             /\ k \in DOMAIN r /\ Kind[k] = "keep" =>
                  Executed(r, k)[k] = [r[k] EXCEPT !.on = FALSE, !.next = "none"]
             /\ k \in DOMAIN r /\ Kind[k] = "every" =>
                  Executed(r, k)[k] = [r[k] EXCEPT !.next = "ahead"]
             /\ k \in DOMAIN r => r[k] \in Record
  BY <1>1, ExecutedSays, StoreFacts DEF Kinds
<1>3. ~IsDue(Executed(s, k), k)
  <2> SUFFICES ASSUME k \in DOMAIN Executed(s, k) PROVE Executed(s, k)[k].next # "due"
    BY DEF IsDue
  <2>1. k \in DOMAIN s /\ s[k] \in Record
    BY <1>2
  <2>2. CASE Kind[k] = "keep"
    <3>1. Executed(s, k)[k] = [s[k] EXCEPT !.on = FALSE, !.next = "none"]
      BY <1>2, <2>1, <2>2
    <3> QED BY <2>1, <3>1 DEF Record
  <2>3. CASE Kind[k] = "every"
    <3>1. Executed(s, k)[k] = [s[k] EXCEPT !.next = "ahead"]
      BY <1>2, <2>1, <2>3
    <3> QED BY <2>1, <3>1 DEF Record
  <2> QED BY <1>1, <1>2, <2>2, <2>3
<1>4. Same(s, t, k) => Same(Executed(s, k), Executed(t, k), k)
  BY <1>1, <1>2 DEF Same
<1> QED BY <1>3, <1>4

\* A step about another job, or about none.
LEMMA HandledSaved ==
  ASSUME Base, Stores', Older, NEW k \in Job, SavedAt(k), Handled(k), up = "yes",
         \/ UNCHANGED <<timer, cur, batch>>
         \/ timer' # "running" /\ (timer = "running" => CancelTimer)
  PROVE  SavedAt(k)'
<1>1. Stores /\ running
  BY DEF Base, Life
<1> SUFFICES ASSUME k \notin cut' \cup failed'
             PROVE  /\ Same(mem', disk', k) \/ Unsaved(k)'
                    /\ timer' = "running" /\ k \in batch' \cup {cur'} => IsDue(mem', k)
  BY DEF SavedAt
<1>2. /\ Same(mem, disk, k) \/ Unsaved(k)
      /\ timer = "running" /\ k \in batch \cup {cur} => IsDue(mem, k)
  BY DEF SavedAt, Older
<1>3. timer = "running" => ~Reloads
  BY DEF Reloads, TimerActive
<1>4. \/ Same(mem', mem, k) /\ Same(disk', disk, k)
      \/ Same(mem', disk', k) /\ (timer = "running" => Same(mem', mem, k))
  <2>1. CASE Stays(k)
    BY <2>1 DEF Stays
  <2>2. CASE Reloaded(k)
    BY <1>1, <1>3, <2>2, SameTwice DEF Reloaded
  <2>3. CASE MergedIn(k)
    BY <1>3, <2>3, SameTwice DEF MergedIn
  <2>4. CASE Flushed(k)
    BY <2>4, SameTwice DEF Flushed
  <2> QED BY <2>1, <2>2, <2>3, <2>4 DEF Handled, Loads, Lost
<1>5. CASE timer # "running"
  <2>1. timer' # "running"
    BY <1>5
  <2>2. Same(mem, disk, k)
    BY <1>2, <1>5 DEF Unsaved
  <2>3. Same(mem', disk', k)
    BY <1>4, <2>2, SameTwice
  <2> QED BY <2>1, <2>3
<1>6. CASE timer = "running" /\ UNCHANGED <<timer, cur, batch>>
  <2>1. timer' = "running" /\ k \in batch' \cup {cur'} => IsDue(mem', k)
    BY <1>2, <1>4, <1>6, SameTwice
  <2>2. CASE Same(mem, disk, k) \/ Same(mem', disk', k)
    BY <1>4, <2>1, <2>2, SameTwice
  <2>3. CASE Unsaved(k) /\ Same(mem', mem, k) /\ Same(disk', disk, k)
    <3>1. Same(Executed(disk', k), Executed(disk, k), k)
      BY <1>1, <2>3, ExecutedOnce DEF Stores, SoundStore
    <3>2. Same(mem', Executed(disk', k), k)
      BY <2>3, <3>1, SameTwice DEF Unsaved
    <3>3. IsDue(disk', k)
      BY <2>3, SameTwice DEF Unsaved
    <3> QED BY <1>6, <2>1, <3>2, <3>3 DEF Unsaved
  <2> QED BY <1>2, <1>4, <2>2, <2>3
<1>7. CASE timer = "running" /\ timer' # "running" /\ CancelTimer
  <2>1. Same(mem', disk', k)
    <3>1. CASE Same(mem, disk, k) \/ Same(mem', disk', k)
      BY <1>4, <3>1, SameTwice
    <3>2. CASE Unsaved(k) /\ Same(mem', mem, k) /\ Same(disk', disk, k)
      <4>1. IsDue(disk', k)
        BY <3>2, SameTwice DEF Unsaved
      <4>2. ~IsDue(Executed(disk, k), k)
        BY <1>1, ExecutedOnce DEF Stores, SoundStore
      <4>3. ~IsDue(mem', k)
        BY <3>2, <4>2, SameTwice DEF Unsaved
      <4>4. k \in DueJobs(disk') \ DueJobs(mem')
        BY <4>1, <4>3 DEF DueJobs, IsDue
      <4> QED BY <1>7, <4>4 DEF CancelTimer
    <3> QED BY <1>2, <1>4, <3>1, <3>2
  <2> QED BY <1>7, <2>1
<1> QED BY <1>5, <1>6, <1>7

LEMMA FireSaved ==
  ASSUME Base, Stores', Older, NEW k \in Job, SavedAt(k), Fire
  PROVE  SavedAt(k)'
<1>1. Stores /\ Timers /\ Life
  BY DEF Base
<1>2. timer = "asleep" /\ Reloads /\ up' = up
  BY DEF Fire, Reloads, TimerActive
<1> SUFFICES ASSUME up = "yes", k \notin cut' \cup failed'
             PROVE  /\ Same(mem', disk', k) \/ Unsaved(k)'
                    /\ timer' = "running" /\ k \in batch' \cup {cur'} => IsDue(mem', k)
  BY <1>2 DEF SavedAt
<1>3. running
  BY <1>1 DEF Life
<1>4. CASE Load(TRUE) \/ Save(TRUE, Merged) \/ SaveFails(TRUE, Merged, {})
  <2>1. mem' = Merged /\ disk' = Merged
    BY <1>1, <1>2, <1>4, RunningLoad DEF Load, Save, SaveFails
  <2>2. timer' = "running" /\ k \in batch' \cup {cur'} => k \in DueJobs(Merged)
    BY <1>2 DEF Fire, NextDue, EndTask
  <2> QED BY <2>1, <2>2 DEF Same, DueJobs
<1>5. CASE LoadFails(TRUE)
  <2>1. mem' = Merged /\ disk' = disk /\ failed' = failed \cup {log[i].job : i \in DOMAIN log}
    BY <1>5 DEF LoadFails
  <2>2. About(log, k) = {}
    BY <2>1 DEF About
  <2>3. Same(mem', disk', k)
    BY <1>1, <2>1, <2>2, MergedIs
  <2>4. timer' = "running" /\ k \in batch' \cup {cur'} => k \in DueJobs(Merged)
    BY <1>2 DEF Fire, NextDue, EndTask
  <2> QED BY <2>1, <2>3, <2>4 DEF DueJobs
<1> QED BY <1>3, <1>4, <1>5 DEF Fire

LEMMA TurnSaved ==
  ASSUME Base, Stores', Older, NEW k \in Job, SavedAt(k), TurnEnds
  PROVE  SavedAt(k)'
<1>1. Stores /\ Timers
  BY DEF Base
<1>2. timer = "running" /\ cur \in Job /\ cur \notin batch /\ up' = up
  BY <1>1 DEF TurnEnds, Timers, Stores
<1> DEFINE m == Executed(mem, cur)
<1>3. mem' = m
  BY DEF TurnEnds
<1>4. k # cur => Same(m, mem, k)
  BY <1>1, <1>2, KindFacts, ExecutedSays DEF Stores, SoundStore
<1>5. mem \in Store /\ disk \in Store
  BY <1>1 DEF Stores, SoundStore
<1> SUFFICES ASSUME up = "yes", k \notin cut' \cup failed'
             PROVE  /\ Same(mem', disk', k) \/ Unsaved(k)'
                    /\ timer' = "running" /\ k \in batch' \cup {cur'} => IsDue(mem', k)
  BY <1>2 DEF SavedAt
<1>6. /\ Same(mem, disk, k) \/ Unsaved(k)
      /\ k \in batch \cup {cur} => IsDue(mem, k)
  BY <1>2 DEF SavedAt, Older
<1>7. Same(m, disk, k) \/ (IsDue(disk, k) /\ Same(m, Executed(disk, k), k))
  <2>1. CASE k # cur
    BY <1>4, <1>6, <2>1, SameTwice DEF Unsaved
  <2>2. CASE k = cur
    <3>1. ~IsDue(Executed(disk, k), k)
      BY <1>5, ExecutedOnce
    <3>2. Same(mem, disk, k)
      BY <1>6, <2>2, <3>1, SameTwice DEF Unsaved
    <3>3. Same(m, Executed(disk, k), k)
      BY <1>5, <2>2, <3>2, ExecutedOnce
    <3> QED BY <1>6, <2>2, <3>2, <3>3, SameTwice
  <2> QED BY <2>1, <2>2
<1> HIDE DEF m
<1>8. CASE NextDue(batch) /\ disk' = disk
  <2>1. timer' = "running" /\ batch' \cup {cur'} = batch
    BY <1>8 DEF NextDue
  <2>2. k \in batch => IsDue(mem', k)
    BY <1>2, <1>3, <1>4, <1>6, SameTwice
  <2> QED BY <1>3, <1>7, <1>8, <2>1, <2>2 DEF Unsaved
<1>9. CASE timer' # "running" /\ disk' = m
  BY <1>3, <1>9 DEF Same
<1>10. CASE timer' # "running" /\ disk' = disk /\ failed' = failed \cup (DueJobs(disk) \ DueJobs(m))
  <2>1. ~(IsDue(disk, k) /\ Same(m, Executed(disk, k), k))
    <3>1. ~IsDue(Executed(disk, k), k)
      BY <1>5, ExecutedOnce
    <3>2. IsDue(disk, k) => IsDue(m, k)
      BY <1>10 DEF DueJobs, IsDue
    <3> QED BY <3>1, <3>2, SameTwice
  <2> QED BY <1>3, <1>7, <1>10, <2>1
<1>11. \/ NextDue(batch) /\ disk' = disk
       \/ timer' # "running" /\ disk' = m
       \/ timer' # "running" /\ disk' = disk /\ failed' = failed \cup (DueJobs(disk) \ DueJobs(m))
  BY DEF TurnEnds, EndTask, m
<1> QED BY <1>8, <1>9, <1>10, <1>11

\* A service that runs saves an edit of job k, or says that it has not.
LEMMA EditSaved ==
  ASSUME Base, Stores', Older, NEW k \in Job, SavedAt(k), NEW m, NEW x, Edit(k, m, x)
  PROVE  SavedAt(k)'
<1>1. Stores /\ up' = up
  BY DEF Base, Edit
<1> SUFFICES ASSUME up = "yes", k \notin cut' \cup failed'
             PROVE  /\ Same(mem', disk', k) \/ Unsaved(k)'
                    /\ timer' = "running" /\ k \in batch' \cup {cur'} => IsDue(mem', k)
  BY <1>1 DEF SavedAt
<1>2. Commit(k, m)
  BY DEF Edit, Note, Base, Life
<1>3. CASE Save(TRUE, m) /\ Arm
  BY <1>3 DEF Save, Arm, Same
<1>4. CASE SaveFails(TRUE, m, {k})
  BY <1>4 DEF SaveFails
<1>5. CASE LoadFails(TRUE) /\ UNCHANGED <<taskVars, cut>>
  <2>1. mem' = Merged /\ disk' = disk /\ failed' = failed \cup {log[i].job : i \in DOMAIN log} /\ Reloads
    BY <1>5 DEF LoadFails, Merges
  <2>2. About(log, k) = {}
    BY <2>1 DEF About
  <2>3. Same(mem', disk', k)
    BY <1>1, <2>1, <2>2, MergedIs
  <2>4. timer' # "running"
    BY <1>5, <2>1 DEF Reloads, TimerActive, taskVars
  <2> QED BY <2>3, <2>4
<1> QED BY <1>2, <1>3, <1>4, <1>5 DEF Commit

\* An execution and the coming of the time, of a due record, in either order.
LEMMA PassedExecuted ==
  ASSUME NEW k, NEW r \in Record, r.next = "due"
  PROVE  /\ Passed(k, [r EXCEPT !.on = FALSE, !.next = "none"])
              = [Passed(k, r) EXCEPT !.on = FALSE, !.next = "none"]
         /\ ~OneShot(k) => Passed(k, [r EXCEPT !.next = "ahead"]) = Passed(k, r)
<1>1. \A a, b \in Record : a.on = b.on /\ a.at = b.at /\ a.next = b.next => a = b
  BY RecordFacts
<1>2. \A q \in Record :
        /\ [q EXCEPT !.on = FALSE, !.next = "none"] \in Record
        /\ [q EXCEPT !.on = FALSE, !.next = "none"].on = FALSE
        /\ [q EXCEPT !.on = FALSE, !.next = "none"].at = q.at
        /\ [q EXCEPT !.on = FALSE, !.next = "none"].next = "none"
        /\ [q EXCEPT !.next = "ahead"] \in Record
        /\ [q EXCEPT !.next = "ahead"].on = q.on
        /\ [q EXCEPT !.next = "ahead"].at = q.at
        /\ [q EXCEPT !.next = "ahead"].next = "ahead"
  BY DEF Record
<1> DEFINE e == [r EXCEPT !.on = FALSE, !.next = "none"]
           f == [r EXCEPT !.next = "ahead"]
           p == Passed(k, r)
           g == [p EXCEPT !.on = FALSE, !.next = "none"]
<1>3. e \in Record /\ e.on = FALSE /\ e.at = r.at /\ e.next = "none"
  BY <1>2
<1>4. f \in Record /\ f.on = r.on /\ f.at = r.at /\ f.next = "ahead"
  BY <1>2
<1>5. p \in Record /\ p.on = r.on /\ p.next = "due" /\ p.at = IF OneShot(k) THEN "past" ELSE r.at
  BY PassedSays
<1>6. g \in Record /\ g.on = FALSE /\ g.at = p.at /\ g.next = "none"
  BY <1>2, <1>5
<1> HIDE DEF e, f, p, g
<1>7. Passed(k, e) = g
  <2>1. /\ Passed(k, e) \in Record /\ Passed(k, e).on = FALSE /\ Passed(k, e).next = "none"
        /\ Passed(k, e).at = IF OneShot(k) THEN "past" ELSE r.at
    BY <1>3, PassedSays
  <2> QED BY <1>1, <1>5, <1>6, <2>1
<1>8. ~OneShot(k) => Passed(k, f) = p
  <2>1. /\ Passed(k, f) \in Record /\ Passed(k, f).on = r.on /\ Passed(k, f).next = "due"
        /\ Passed(k, f).at = IF OneShot(k) THEN "past" ELSE r.at
    BY <1>4, PassedSays
  <2> QED BY <1>1, <1>5, <2>1
<1> QED BY <1>7, <1>8 DEF e, f, p, g

\* The time of job k comes in memory and in jobs.json at once.
LEMMA ElapseSaved ==
  ASSUME Base, Older, NEW k \in Job, SavedAt(k), Elapse(k)
  PROVE  SavedAt(k)'
<1>1. Stores
  BY DEF Base
<1>2. /\ mem' = PassedIn(mem, k) /\ disk' = PassedIn(disk, k)
      /\ UNCHANGED <<up, timer, cur, batch, cut, failed>>
  BY DEF Elapse, taskVars, faultVars, history
<1>3. ASSUME NEW s \in Store, SoundStore(s, born)
      PROVE  /\ k \in DOMAIN PassedIn(s, k) <=> k \in DOMAIN s
             /\ k \in DOMAIN s => PassedIn(s, k)[k] = Passed(k, s[k]) /\ s[k] \in Record
  BY <1>3, PassedSound, StoreFacts
<1>4. /\ SoundStore(mem, born) /\ SoundStore(disk, born)
      /\ mem \in Store /\ disk \in Store
  BY <1>1 DEF Stores, SoundStore
<1>5. /\ k \in DOMAIN mem' <=> k \in DOMAIN mem
      /\ k \in DOMAIN mem => mem'[k] = Passed(k, mem[k]) /\ mem[k] \in Record
      /\ k \in DOMAIN disk' <=> k \in DOMAIN disk
      /\ k \in DOMAIN disk => disk'[k] = Passed(k, disk[k]) /\ disk[k] \in Record
  BY <1>2, <1>3, <1>4
<1>7. Same(mem, disk, k) => Same(mem', disk', k)
  BY <1>5 DEF Same
<1>8. /\ IsDue(mem, k) => IsDue(mem', k)
      /\ IsDue(disk, k) => IsDue(disk', k)
  BY <1>5, PassedSays DEF IsDue
<1>9. ASSUME Unsaved(k) PROVE Same(mem', disk', k) \/ Unsaved(k)'
  <2>1. timer = "running" /\ k \in DOMAIN disk /\ disk[k].next = "due"
        /\ Same(mem, Executed(disk, k), k) /\ IsDue(disk', k)
    BY <1>8, <1>9 DEF Unsaved, IsDue
  <2>2. disk' \in Store
    BY <1>2, <1>4, PassedSound DEF SoundStore
  <2>3. Kind[k] \in {"once", "keep", "every"}
    BY KindFacts DEF Kinds
  <2>4. CASE Kind[k] = "once"
    <3>1. k \notin DOMAIN mem'
      BY <1>4, <1>5, <2>1, <2>3, <2>4, ExecutedSays DEF Kinds, Same
    <3>2. k \notin DOMAIN Executed(disk', k)
      BY <2>2, <2>3, <2>4, ExecutedSays DEF Kinds
    <3> QED BY <1>2, <2>1, <3>1, <3>2 DEF Unsaved, Same
  <2>5. CASE Kind[k] = "keep"
    <3>1. k \in DOMAIN mem /\ mem[k] = [disk[k] EXCEPT !.on = FALSE, !.next = "none"]
      BY <1>4, <2>1, <2>3, <2>5, ExecutedSays DEF Kinds, Same
    <3>2. k \in DOMAIN Executed(disk', k)
          /\ Executed(disk', k)[k] = [disk'[k] EXCEPT !.on = FALSE, !.next = "none"]
      BY <1>5, <2>1, <2>2, <2>3, <2>5, ExecutedSays DEF Kinds
    <3>3. mem'[k] = [disk'[k] EXCEPT !.on = FALSE, !.next = "none"]
      <4>1. disk[k] \in Record /\ mem'[k] = Passed(k, mem[k]) /\ disk'[k] = Passed(k, disk[k])
        BY <1>5, <2>1, <3>1
      <4>2. Passed(k, [disk[k] EXCEPT !.on = FALSE, !.next = "none"])
              = [Passed(k, disk[k]) EXCEPT !.on = FALSE, !.next = "none"]
        BY <2>1, <4>1, PassedExecuted
      <4> QED BY <3>1, <4>1, <4>2
    <3>4. Same(mem', Executed(disk', k), k)
      BY <1>5, <3>1, <3>2, <3>3 DEF Same
    <3> QED BY <1>2, <2>1, <3>4 DEF Unsaved
  <2>6. CASE Kind[k] = "every"
    <3>1. k \in DOMAIN mem /\ mem[k] = [disk[k] EXCEPT !.next = "ahead"]
      BY <1>4, <2>1, <2>3, <2>6, ExecutedSays DEF Kinds, Same
    <3>2. mem'[k] = disk'[k]
      <4>1. disk[k] \in Record /\ mem'[k] = Passed(k, mem[k]) /\ disk'[k] = Passed(k, disk[k])
        BY <1>5, <2>1, <3>1
      <4>2. ~OneShot(k)
        BY <2>6 DEF OneShot
      <4>3. Passed(k, [disk[k] EXCEPT !.next = "ahead"]) = Passed(k, disk[k])
        BY <2>1, <4>1, <4>2, PassedExecuted
      <4> QED BY <3>1, <4>1, <4>3
    <3> QED BY <1>5, <2>1, <3>1, <3>2 DEF Same
  <2> QED BY <2>3, <2>4, <2>5, <2>6
<1> QED BY <1>2, <1>7, <1>8, <1>9 DEF SavedAt

LEMMA SavedStep ==
  ASSUME Base, Stores', Older, Next, NEW k \in Job, SavedAt(k)
  PROVE  SavedAt(k)'
<1>1. Stores /\ Timers /\ Life
  BY DEF Base
<1>2. ASSUME up' # "yes" PROVE SavedAt(k)'
  BY <1>2 DEF SavedAt
<1>3. CASE Fire
  BY <1>3, FireSaved
<1>4. CASE TurnEnds
  BY <1>4, TurnSaved
<1>5. CASE Start
  <2>1. mem' = disk' /\ timer' = "asleep"
    BY <1>5 DEF Start
  <2> QED BY <2>1 DEF SavedAt, Same
<1>6. CASE StartFails \/ Crash \/ Stop
  BY <1>2, <1>6 DEF StartFails, Crash, Stop
<1>7. CASE \E m, x : Edit(k, m, x)
  BY <1>7, EditSaved
<1>8. CASE AppendAdd(k) \/ AppendDel(k)
  <2>1. UNCHANGED <<up, mem, disk, timer, cur, batch>>
    BY <1>8 DEF AppendAdd, AppendDel, taskVars
  <2> QED BY <2>1 DEF SavedAt, Unsaved, Older
<1>9. CASE Elapse(k)
  BY <1>9, ElapseSaved
<1>10. CASE RunJobEnds(k)
  <2> SUFFICES ASSUME up = "yes", k \notin failed'
               PROVE  Same(mem', disk', k) /\ timer' = "asleep"
    BY <1>10 DEF SavedAt, RunJobEnds
  <2>1. was[k]
    BY <1>1, <1>10 DEF RunJobEnds, Life
  <2> QED BY <1>10, <2>1 DEF RunJobEnds, Restore, Arm, Same
<1>11. ASSUME Passes(k), up' = up,
              \/ UNCHANGED <<timer, cur, batch>>
              \/ timer' # "running" /\ CancelTimer
       PROVE  SavedAt(k)'
  BY <1>2, <1>11, HandledSaved DEF Passes
<1>12. CASE Passes(k) /\ (Unwind \/ ListJobs)
  BY <1>11, <1>12 DEF Unwind, ListJobs, taskVars
<1>13. ASSUME Passes(k), NEW j \in Job, AddJob(j) \/ RemoveJob(j) \/ EnableJob(j) \/ UpdateJob(j)
       PROVE  SavedAt(k)'
  <2>1. PICK m, x : Edit(j, m, x)
    BY <1>13, EditShape
  <2>2. UNCHANGED taskVars \/ Arm
    BY <2>1 DEF Edit, Commit, Note
  <2>3. up' = up
    BY <2>1 DEF Edit
  <2> QED BY <1>11, <1>13, <2>2, <2>3 DEF taskVars, Arm
<1>14. ASSUME Passes(k), NEW j \in Job, AskRun(j) \/ RunJob(j) \/ RunRefused(j) \/ RunJobEnds(j)
       PROVE  SavedAt(k)'
  BY <1>11, <1>14 DEF AskRun, RunJob, RunRefused, RunJobEnds, Restore, Arm, taskVars
<1>15. ASSUME Passes(k), NEW j \in Job, AppendAdd(j) \/ AppendDel(j) \/ Elapse(j)
       PROVE  SavedAt(k)'
  BY <1>11, <1>15 DEF AppendAdd, AppendDel, Elapse, taskVars
<1> QED BY <1>3, <1>4, <1>5, <1>6, <1>7, <1>8, <1>9, <1>10, <1>12, <1>13, <1>14, <1>15,
           Effects DEF Next, Call

Saved == \A k \in Job : SavedAt(k)

LEMMA SavedNext ==
  ASSUME Base, Stores', Saved, [Next]_vars
  PROVE  Saved'
<1>1. Older
  BY Grows, CutGrows DEF Older
<1> SUFFICES ASSUME NEW k \in Job PROVE SavedAt(k)'
  BY DEF Saved
<1>2. SavedAt(k)
  BY DEF Saved
<1>3. CASE UNCHANGED vars
  <2>1. UNCHANGED <<up, mem, disk, timer, cur, batch, failed, cut>>
    BY <1>3 DEF vars, storeVars, taskVars, faultVars, history
  <2> QED BY <1>2, <2>1 DEF SavedAt, Unsaved
<1>4. CASE Next
  BY <1>1, <1>2, <1>4, SavedStep
<1> QED BY <1>3, <1>4

\* Between two batches of a gateway that is up, memory and jobs.json say the
\* same of a job, unless its execution was cut or its own write failed: what a
\* crash or a reload (_load_store) loses is nothing but a batch in execution.
THEOREM CronSavedWhenQuiet == Spec => []SavedWhenQuiet
<1>1. Init => Base /\ Saved
  <2>1. Init => Saved
    BY DEF Init, Saved, SavedAt
  <2> QED BY <2>1, BaseInit
<1>2. Base /\ Saved /\ [Next]_vars => Base' /\ Saved'
  <2> SUFFICES ASSUME Base, Saved, [Next]_vars PROVE Base' /\ Saved'
    OBVIOUS
  <2>1. Base'
    BY BaseNext
  <2>2. Saved'
    BY <2>1, SavedNext DEF Base
  <2> QED BY <2>1, <2>2
<1>3. Saved => SavedWhenQuiet
  BY DEF Saved, SavedAt, SavedWhenQuiet, Unsaved, Same
<1> QED BY <1>1, <1>2, <1>3, PTL DEF Spec
=============================================================================
