------------------------ MODULE LocalTriggersProofs ------------------------
(***************************************************************************)
(* Proofs about LocalTriggers, for every set of triggers and deliveries and *)
(* all bounds: attempts cover turns, what is settled is recorded, nothing   *)
(* is repeated without need, and the files implement DeliveryQueue.         *)
(***************************************************************************)
EXTENDS LocalTriggers, TLAPS, WellFoundedInduction

\* The task has submitted the turn of d and not gone on since.
InTurn(d) == pc \in {"turn", "ok", "error"} /\ d = cur

\* The task holds a batch only while it works on it, and processing/ holds
\* nothing else unless the task is down.
LoopFits ==
  /\ pc \in {"down", "claim", "asleep"} => DOMAIN batch = {}
  /\ pc \in {"turn", "ok", "error"} => DOMAIN batch # {}
  /\ pc \in {"ok", "error"} => cur \in ended
  /\ pc # "down" => DOMAIN processing \subseteq DOMAIN batch

\* A file says how often its message may have been submitted; a second copy,
\* left by a crash, is exactly one attempt behind.
Fits(d) ==
  /\ turns[d] <= MaxAttempts
  /\ audit[d] = "none" =>
       turns[d] = 0 /\ d \notin ended \cup Pending \cup DOMAIN failed \cup DOMAIN batch
  /\ d \in DOMAIN inbox =>
       /\ inbox[d] < MaxAttempts /\ turns[d] <= inbox[d]
       /\ d \notin DOMAIN failed \cup DOMAIN batch
  /\ d \in DOMAIN processing =>
       /\ processing[d] < MaxAttempts /\ turns[d] <= processing[d] + 1
       /\ d \in DOMAIN inbox => inbox[d] = processing[d] + 1
       /\ d \in DOMAIN failed => processing[d] + 1 >= MaxAttempts
  /\ d \in DOMAIN batch =>
       /\ batch[d] < MaxAttempts /\ turns[d] <= batch[d] + 1
       /\ ~InTurn(d) => turns[d] <= batch[d]
       /\ d \notin DOMAIN failed
       /\ d \in DOMAIN processing => processing[d] = batch[d]
       /\ trigger[Target[d]] # "gone" => d \in DOMAIN processing

\* What is gone from the directories is recorded, and what has had its turn
\* and no fault since is not waiting.
Outcome(d) ==
  /\ audit[d] = "ok" => d \in ended
  /\ audit[d] # "none" /\ trigger[Target[d]] # "gone" /\ d \notin Pending \cup DOMAIN failed
       => audit[d] \in {"ok", "error"} \/ d \in unrecorded
  /\ d \in ended \ unsettled =>
       /\ d \notin DOMAIN inbox
       /\ d \in DOMAIN processing \cup DOMAIN batch => InTurn(d) /\ pc # "turn"

IInv ==
  /\ TypeOK
  /\ LoopFits
  /\ \A d \in Delivery : Fits(d) /\ Outcome(d)

-----------------------------------------------------------------------------
(* Directories.                                                             *)

\* What makes a directory.
LEMMA IsFiles ==
  ASSUME NEW f, f = [d \in DOMAIN f |-> f[d]],
         DOMAIN f \subseteq Delivery, \A d \in DOMAIN f : f[d] \in 0..MaxAttempts
  PROVE  f \in Files
<1>1. f \in [DOMAIN f -> 0..MaxAttempts]
  OBVIOUS
<1> QED
  BY <1>1 DEF Files

\* What a directory is.
LEMMA OfFiles ==
  ASSUME NEW f \in Files
  PROVE  /\ f = [d \in DOMAIN f |-> f[d]]
         /\ DOMAIN f \subseteq Delivery
         /\ \A d \in DOMAIN f : f[d] \in 0..MaxAttempts /\ f[d] \in Nat
<1>1. PICK D \in SUBSET Delivery : f \in [D -> 0..MaxAttempts]
  BY DEF Files
<1>2. \A i \in 0..MaxAttempts : i \in Nat
  BY LocalTriggersAssumption DEF LocalTriggersAssumption
<1> QED
  BY <1>1, <1>2

\* Unlinking files.
LEMMA WithoutFacts ==
  ASSUME NEW f \in Files, NEW D
  PROVE  /\ Without(f, D) \in Files
         /\ DOMAIN Without(f, D) = DOMAIN f \ D
         /\ \A d \in DOMAIN f \ D : Without(f, D)[d] = f[d]
<1>1. /\ DOMAIN Without(f, D) = DOMAIN f \ D
      /\ \A d \in DOMAIN f \ D : Without(f, D)[d] = f[d]
      /\ Without(f, D) = [d \in DOMAIN Without(f, D) |-> Without(f, D)[d]]
  BY DEF Without
<1> QED
  BY <1>1, OfFiles, IsFiles

\* Keeping some of the files.
LEMMA OnlyFacts ==
  ASSUME NEW f \in Files, NEW D
  PROVE  /\ Only(f, D) \in Files
         /\ DOMAIN Only(f, D) = DOMAIN f \cap D
         /\ \A d \in DOMAIN f \cap D : Only(f, D)[d] = f[d]
<1>1. /\ DOMAIN Only(f, D) = DOMAIN f \cap D
      /\ \A d \in DOMAIN f \cap D : Only(f, D)[d] = f[d]
      /\ Only(f, D) = [d \in DOMAIN Only(f, D) |-> Only(f, D)[d]]
  BY DEF Only
<1> QED
  BY <1>1, OfFiles, IsFiles

\* Writing files over those of the same names.
LEMMA WrittenFacts ==
  ASSUME NEW f \in Files, NEW g \in Files
  PROVE  /\ Written(f, g) \in Files
         /\ DOMAIN Written(f, g) = DOMAIN f \cup DOMAIN g
         /\ \A d \in DOMAIN g : Written(f, g)[d] = g[d]
         /\ \A d \in DOMAIN f \ DOMAIN g : Written(f, g)[d] = f[d]
<1>1. /\ DOMAIN Written(f, g) = DOMAIN f \cup DOMAIN g
      /\ \A d \in DOMAIN g : Written(f, g)[d] = g[d]
      /\ \A d \in DOMAIN f \ DOMAIN g : Written(f, g)[d] = f[d]
      /\ Written(f, g) = [d \in DOMAIN Written(f, g) |-> Written(f, g)[d]]
  BY DEF Written
<1> QED
  BY <1>1, OfFiles, IsFiles

\* The empty directory.
LEMMA NoFilesFacts == NoFiles \in Files /\ DOMAIN NoFiles = {}
BY IsFiles DEF NoFiles

\* What _retry_delivery_unlocked does to the three directories.
Retried(D, n, kept) ==
  LET again == {d \in D : n[d] + 1 < MaxAttempts} IN
  /\ inbox' \in Files /\ processing' \in Files /\ failed' \in Files
  /\ DOMAIN inbox' = DOMAIN inbox \cup again
  /\ \A d \in again : inbox'[d] = n[d] + 1
  /\ \A d \in DOMAIN inbox \ again : inbox'[d] = inbox[d]
  /\ DOMAIN failed' = DOMAIN failed \cup (D \ again)
  /\ DOMAIN processing' = DOMAIN processing \ (D \ kept)
  /\ \A d \in DOMAIN processing \ (D \ kept) : processing'[d] = processing[d]

\* The operator has that effect.
LEMMA RetryFacts ==
  ASSUME TypeOK, NEW n \in Files, NEW D \in SUBSET DOMAIN n, NEW kept,
         \A d \in D : n[d] < MaxAttempts, Retry(D, n, kept)
  PROVE  Retried(D, n, kept)
<1> DEFINE again == {d \in D : n[d] + 1 < MaxAttempts}
           tried(S) == [d \in S |-> n[d] + 1]
<1>1. ASSUME NEW S \in SUBSET D
      PROVE  tried(S) \in Files /\ DOMAIN tried(S) = S /\ \A d \in S : tried(S)[d] = n[d] + 1
  <2>1. \A d \in S : n[d] \in Nat /\ n[d] < MaxAttempts /\ d \in Delivery
    BY OfFiles
  <2>2. \A d \in S : tried(S)[d] \in 0..MaxAttempts
    BY <2>1, LocalTriggersAssumption DEF LocalTriggersAssumption
  <2>3. tried(S) = [d \in DOMAIN tried(S) |-> tried(S)[d]] /\ DOMAIN tried(S) = S
    OBVIOUS
  <2>4. DOMAIN tried(S) \subseteq Delivery /\ \A d \in DOMAIN tried(S) : tried(S)[d] \in 0..MaxAttempts
    BY <2>1, <2>2, <2>3
  <2>5. tried(S) \in Files
    <3> HIDE DEF tried
    <3> QED BY <2>3, <2>4, IsFiles
  <2> QED
    BY <2>3, <2>5
<1>2. /\ inbox' = Written(inbox, tried(again))
      /\ failed' = Written(failed, tried(D \ again))
      /\ processing' = Without(processing, D \ kept)
  BY DEF Retry
<1>3. again \in SUBSET D /\ D \ again \in SUBSET D
  OBVIOUS
<1>4. inbox \in Files /\ failed \in Files /\ processing \in Files
  BY DEF TypeOK
<1> HIDE DEF tried, again
<1>5. PICK g \in Files : inbox' = Written(inbox, g) /\ DOMAIN g = again
                        /\ \A d \in again : g[d] = n[d] + 1
  BY <1>1, <1>2, <1>3
<1>6. PICK h \in Files : failed' = Written(failed, h) /\ DOMAIN h = D \ again
  BY <1>1, <1>2, <1>3
<1>7. inbox' \in Files /\ DOMAIN inbox' = DOMAIN inbox \cup again
      /\ (\A d \in again : inbox'[d] = n[d] + 1)
      /\ (\A d \in DOMAIN inbox \ again : inbox'[d] = inbox[d])
  <2>1. /\ Written(inbox, g) \in Files
        /\ DOMAIN Written(inbox, g) = DOMAIN inbox \cup DOMAIN g
        /\ \A d \in DOMAIN g : Written(inbox, g)[d] = g[d]
        /\ \A d \in DOMAIN inbox \ DOMAIN g : Written(inbox, g)[d] = inbox[d]
    BY <1>4, <1>5, WrittenFacts
  <2> QED BY <1>5, <2>1
<1>8. failed' \in Files /\ DOMAIN failed' = DOMAIN failed \cup (D \ again)
  <2>1. Written(failed, h) \in Files /\ DOMAIN Written(failed, h) = DOMAIN failed \cup DOMAIN h
    BY <1>4, <1>6, WrittenFacts
  <2> QED BY <1>6, <2>1
<1>9. processing' \in Files /\ DOMAIN processing' = DOMAIN processing \ (D \ kept)
      /\ \A d \in DOMAIN processing \ (D \ kept) : processing'[d] = processing[d]
  BY <1>2, <1>4, WithoutFacts
<1> QED
  BY <1>7, <1>8, <1>9 DEF again, Retried

\* The delivery the task handles is the first of its batch.
LEMMA CurInBatch ==
  ASSUME TypeOK, DOMAIN batch # {}
  PROVE  cur \in DOMAIN batch /\ cur \in Delivery
<1>1. DOMAIN batch \subseteq Delivery /\ Delivery \subseteq Nat
  BY OfFiles, LocalTriggersAssumption DEF TypeOK, LocalTriggersAssumption
<1>2. PICK d \in DOMAIN batch : \A e \in DOMAIN batch : <<e, d>> \notin OpToRel(<, Nat)
  BY <1>1, WFMin, NatLessThanWellFounded, Zenon
<1>3. d \in Nat /\ \A e \in DOMAIN batch : e \in Nat
  BY <1>1, <1>2
<1>4. ASSUME NEW e \in DOMAIN batch
      PROVE  d <= e
  <2>1. ~(e < d)
    BY <1>2, <1>3, Zenon DEF OpToRel
  <2> QED
    BY <1>3, <2>1
<1>5. \E x \in DOMAIN batch : \A e \in DOMAIN batch : x <= e
  BY <1>2, <1>4
<1>6. cur \in DOMAIN batch
  BY <1>5, Zenon DEF cur
<1> QED
  BY <1>1, <1>6

\* The delivery in hand is the head of the batch.
LEMMA SameCur == batch' = batch => cur' = cur
BY DEF cur

-----------------------------------------------------------------------------
(* The invariant is inductive.                                              *)

\* The numbers in the files.
LEMMA Numbers ==
  ASSUME TypeOK
  PROVE  /\ MaxAttempts \in Nat \ {0}
         /\ \A d \in Delivery : turns[d] \in Nat
         /\ \A f \in {inbox, processing, failed, batch} :
              DOMAIN f \subseteq Delivery /\ \A d \in DOMAIN f : f[d] \in Nat
BY OfFiles, LocalTriggersAssumption DEF TypeOK, LocalTriggersAssumption

\* Nothing is queued at first.
LEMMA InitIInv == Init => IInv
<1> SUFFICES ASSUME Init PROVE IInv
  OBVIOUS
<1>1. TypeOK
  BY NoFilesFacts, LocalTriggersAssumption DEF Init, TypeOK, PC, Status, LocalTriggersAssumption
<1>2. LoopFits
  BY NoFilesFacts DEF Init, LoopFits
<1>3. ASSUME NEW d \in Delivery PROVE Fits(d) /\ Outcome(d)
  BY NoFilesFacts, LocalTriggersAssumption
     DEF Init, Fits, Outcome, Pending, LocalTriggersAssumption
<1> QED
  BY <1>1, <1>2, <1>3 DEF IInv

\* Steps that touch no file.
LEMMA QuietStep ==
  ASSUME IInv,
         \/ \E t \in Trigger : Create(t)
         \/ \E t \in Trigger, enabled \in {"on", "off"} : Enable(t, enabled)
         \/ Sleep \/ Wake \/ BatchDone \/ UNCHANGED vars
  PROVE  IInv'
<1>1. /\ UNCHANGED <<inbox, processing, failed, batch, audit, turns, ended, unsettled,
                      unrecorded, faults>>
      /\ \/ pc' = pc
         \/ pc' \in {"claim", "asleep"} /\ pc \in {"claim", "asleep", "next"} /\ DOMAIN batch = {}
      /\ trigger' \in [Trigger -> {"none", "on", "off", "gone"}]
      /\ \A t \in Trigger : trigger'[t] = "gone" <=> trigger[t] = "gone"
      /\ edits' \in 0..MaxEdits
  BY LocalTriggersAssumption DEF IInv, TypeOK, LoopFits, Create, Enable, Sleep, Wake, BatchDone,
     vars, dirs, history, LocalTriggersAssumption
<1>2. TypeOK'
  BY <1>1 DEF IInv, TypeOK, PC
<1>3. LoopFits'
  BY <1>1, SameCur DEF IInv, LoopFits
<1>4. ASSUME NEW d \in Delivery PROVE Fits(d)' /\ Outcome(d)'
  <2>1. Target[d] \in Trigger
    BY LocalTriggersAssumption DEF LocalTriggersAssumption
  <2>2. Fits(d) /\ Outcome(d)
    BY DEF IInv
  <2>3. InTurn(d)' <=> InTurn(d)
    BY <1>1, SameCur DEF InTurn
  <2>4. InTurn(d) => pc' = pc
    BY <1>1 DEF InTurn
  <2>5. Fits(d)'
    BY <1>1, <2>1, <2>2, <2>3 DEF Fits, Pending
  <2> QED
    BY <1>1, <2>1, <2>2, <2>3, <2>4, <2>5 DEF Outcome, Pending
<1> QED
  BY <1>2, <1>3, <1>4 DEF IInv

\* A new message keeps the invariant.
LEMMA EnqueueStep ==
  ASSUME IInv, NEW e \in Delivery, Enqueue(e) \/ CrashInEnqueue(e)
  PROVE  IInv'
<1>1. [x \in {e} |-> 0] \in Files /\ DOMAIN [x \in {e} |-> 0] = {e}
  <2> DEFINE g == [x \in {e} |-> 0]
  <2>1. DOMAIN g = {e} /\ g = [x \in DOMAIN g |-> g[x]] /\ \A x \in DOMAIN g : g[x] \in 0..MaxAttempts
    BY LocalTriggersAssumption DEF LocalTriggersAssumption
  <2> HIDE DEF g
  <2>2. g \in Files
    BY <2>1, IsFiles
  <2> QED
    BY <2>1, <2>2 DEF g
<1>2. /\ inbox' \in Files /\ DOMAIN inbox' = DOMAIN inbox \cup {e} /\ inbox'[e] = 0
      /\ \A d \in DOMAIN inbox \ {e} : inbox'[d] = inbox[d]
  <2>1. inbox \in Files /\ inbox' = Written(inbox, [x \in {e} |-> 0])
    BY DEF IInv, TypeOK, Enqueue, CrashInEnqueue, Accepted
  <2> QED
    BY <1>1, <2>1, WrittenFacts
<1>3. PICK status \in {"queued", "missing"} :
        /\ audit[e] = "none"
        /\ audit' = [audit EXCEPT ![e] = status]
        /\ unrecorded' = unrecorded \ {e}
        /\ faults' \in 0..MaxFaults
        /\ UNCHANGED <<trigger, processing, failed, pc, batch, turns, ended, unsettled, edits>>
  BY LocalTriggersAssumption
     DEF Enqueue, CrashInEnqueue, Accepted, Recorded, Fault, IInv, TypeOK, LocalTriggersAssumption
<1>4. TypeOK'
  BY <1>2, <1>3 DEF IInv, TypeOK, Status
<1>5. LoopFits'
  BY <1>3, SameCur DEF IInv, LoopFits
<1>6. ASSUME NEW d \in Delivery PROVE Fits(d)' /\ Outcome(d)'
  <2>1. Fits(d) /\ Outcome(d) /\ (InTurn(d)' <=> InTurn(d))
    BY <1>3, SameCur DEF IInv, InTurn
  <2>2. audit'[d] = IF d = e THEN status ELSE audit[d]
    BY <1>3 DEF IInv, TypeOK
  <2>3. MaxAttempts \in Nat \ {0} /\ turns[d] \in Nat
    BY Numbers DEF IInv
  <2>4. Fits(d)'
    BY <1>2, <1>3, <2>1, <2>2, <2>3 DEF Fits, Pending
  <2> QED
    BY <1>2, <1>3, <2>1, <2>2, <2>4 DEF Fits, Outcome, Pending
<1> QED
  BY <1>4, <1>5, <1>6 DEF IInv

\* What a deletion may have done: files are gone, all of a trigger that is gone.
Shrunk ==
  /\ inbox' \in Files /\ processing' \in Files /\ failed' \in Files
  /\ DOMAIN inbox' \subseteq DOMAIN inbox /\ \A d \in DOMAIN inbox' : inbox'[d] = inbox[d]
  /\ DOMAIN processing' \subseteq DOMAIN processing
  /\ \A d \in DOMAIN processing' : processing'[d] = processing[d]
  /\ DOMAIN failed' \subseteq DOMAIN failed
  /\ trigger' \in [Trigger -> {"none", "on", "off", "gone"}]
  /\ edits' \in 0..MaxEdits
  /\ \A d \in Delivery :
       \/ trigger'[Target[d]] = "gone"
       \/ /\ trigger'[Target[d]] = trigger[Target[d]]
          /\ d \in DOMAIN inbox => d \in DOMAIN inbox'
          /\ d \in DOMAIN processing => d \in DOMAIN processing'
          /\ d \in DOMAIN failed => d \in DOMAIN failed'

\* A deletion only takes files away, and only of its trigger.
LEMMA DeletionFacts ==
  ASSUME IInv, NEW t \in Trigger, NEW c \in 0..3, Deletion(t, c)
  PROVE  Shrunk
<1>1. inbox \in Files /\ processing \in Files /\ failed \in Files
      /\ trigger \in [Trigger -> {"none", "on", "off", "gone"}] /\ edits \in 0..MaxEdits
  BY DEF IInv, TypeOK
<1>2. ASSUME NEW f \in Files, NEW g, g \in {f, Without(f, Of(t))}
      PROVE  /\ g \in Files /\ DOMAIN g \subseteq DOMAIN f
             /\ \A d \in DOMAIN g : g[d] = f[d]
             /\ \A d \in DOMAIN f : d \in DOMAIN g \/ d \in Of(t)
  <2>1. CASE g = f
    BY <2>1
  <2>2. CASE g = Without(f, Of(t))
    <3>1. /\ Without(f, Of(t)) \in Files
          /\ DOMAIN Without(f, Of(t)) = DOMAIN f \ Of(t)
          /\ \A d \in DOMAIN f \ Of(t) : Without(f, Of(t))[d] = f[d]
      BY WithoutFacts
    <3> QED
      BY <2>2, <3>1
  <2> QED
    BY <1>2, <2>1, <2>2
<1>3. /\ inbox' \in {inbox, Without(inbox, Of(t))}
      /\ processing' \in {processing, Without(processing, Of(t))}
      /\ failed' \in {failed, Without(failed, Of(t))}
  BY DEF Deletion
<1>4. /\ inbox' \in Files /\ DOMAIN inbox' \subseteq DOMAIN inbox
      /\ \A d \in DOMAIN inbox' : inbox'[d] = inbox[d]
      /\ \A d \in DOMAIN inbox : d \in DOMAIN inbox' \/ d \in Of(t)
  BY <1>1, <1>2, <1>3
<1>5. /\ processing' \in Files /\ DOMAIN processing' \subseteq DOMAIN processing
      /\ \A d \in DOMAIN processing' : processing'[d] = processing[d]
      /\ \A d \in DOMAIN processing : d \in DOMAIN processing' \/ d \in Of(t)
  BY <1>1, <1>2, <1>3
<1>6. /\ failed' \in Files /\ DOMAIN failed' \subseteq DOMAIN failed
      /\ \A d \in DOMAIN failed : d \in DOMAIN failed' \/ d \in Of(t)
  BY <1>1, <1>2, <1>3
<1>7. /\ trigger' = [trigger EXCEPT ![t] = "gone"] /\ edits' = edits + 1 /\ edits < MaxEdits
  BY DEF Deletion
<1>8. \A d \in Delivery : Target[d] \in Trigger /\ (d \in Of(t) <=> Target[d] = t)
  BY LocalTriggersAssumption DEF LocalTriggersAssumption, Of
<1>9. edits' \in 0..MaxEdits /\ trigger' \in [Trigger -> {"none", "on", "off", "gone"}]
  BY <1>1, <1>7, LocalTriggersAssumption DEF LocalTriggersAssumption
<1> QED
  BY <1>1, <1>4, <1>5, <1>6, <1>7, <1>8, <1>9 DEF Shrunk

\* So does the deletion of a trigger.
LEMMA DeleteStep ==
  ASSUME IInv, NEW t \in Trigger, Delete(t)
  PROVE  IInv'
<1>1. /\ Deletion(t, 3)
      /\ UNCHANGED <<pc, batch, audit, turns, ended, unsettled, unrecorded, faults>>
  BY DEF Delete, Deletion
<1>2. Shrunk
  BY <1>1, DeletionFacts
<1>3. TypeOK'
  BY <1>1, <1>2 DEF IInv, TypeOK, Shrunk
<1>4. LoopFits'
  BY <1>1, <1>2, SameCur DEF IInv, LoopFits, Shrunk
<1>5. ASSUME NEW d \in Delivery PROVE Fits(d)' /\ Outcome(d)'
  <2>1. Fits(d) /\ Outcome(d) /\ (InTurn(d)' <=> InTurn(d))
    BY <1>1, SameCur DEF IInv, InTurn
  <2>2. Fits(d)'
    BY <1>1, <1>2, <2>1 DEF Fits, Pending, Shrunk
  <2> QED
    BY <1>1, <1>2, <2>1, <2>2 DEF Outcome, Pending, Shrunk
<1> QED
  BY <1>3, <1>4, <1>5 DEF IInv

\* A crash of the task, wherever it stands.
LEMMA DownFacts ==
  ASSUME IInv, Down, Fault
  PROVE  /\ pc' = "down" /\ DOMAIN batch' = {} /\ batch' \in Files
         /\ faults' \in 0..MaxFaults
         /\ unsettled' \subseteq Delivery
         /\ pc' \in PC
         /\ unsettled \subseteq unsettled'
         /\ pc \notin {"ok", "error"} => unsettled' = unsettled
         /\ \A d \in Delivery \ unsettled' : InTurn(d) => pc = "turn"
<1>1. /\ pc' = "down" /\ batch' = NoFiles
      /\ unsettled' = IF pc \in {"ok", "error"} THEN unsettled \cup {cur} ELSE unsettled
      /\ faults' \in 0..MaxFaults
  BY LocalTriggersAssumption DEF Down, Fault, IInv, TypeOK, LocalTriggersAssumption
<1>2. unsettled' \subseteq Delivery
  BY <1>1, CurInBatch DEF IInv, TypeOK, LoopFits
<1> QED
  BY <1>1, <1>2, NoFilesFacts DEF InTurn, PC

\* Also one that a crash cuts off.
LEMMA CrashInDeleteStep ==
  ASSUME IInv, NEW t \in Trigger, CrashInDelete(t)
  PROVE  IInv'
<1>1. Shrunk /\ UNCHANGED <<audit, turns, ended, unrecorded>>
  <2>1. PICK c \in 0..2 : Deletion(t, c)
    BY DEF CrashInDelete
  <2>2. c \in 0..3
    OBVIOUS
  <2> QED
    BY <2>1, <2>2, DeletionFacts DEF Deletion
<1>2. /\ pc' = "down" /\ pc' \in PC /\ DOMAIN batch' = {} /\ batch' \in Files
      /\ faults' \in 0..MaxFaults
      /\ unsettled \subseteq unsettled' /\ unsettled' \subseteq Delivery
      /\ \A d \in Delivery \ unsettled' : InTurn(d) => pc = "turn"
  BY DownFacts DEF CrashInDelete
<1>3. TypeOK'
  BY <1>1, <1>2 DEF IInv, TypeOK, Shrunk
<1>4. LoopFits'
  BY <1>2 DEF LoopFits
<1>5. ASSUME NEW d \in Delivery PROVE Fits(d)' /\ Outcome(d)'
  <2>1. Fits(d) /\ Outcome(d)
    BY DEF IInv
  <2>2. Fits(d)'
    BY <1>1, <1>2, <2>1 DEF Fits, Pending, Shrunk
  <2> QED
    BY <1>1, <1>2, <2>1, <2>2 DEF Outcome, Pending, Shrunk
<1> QED
  BY <1>3, <1>4, <1>5 DEF IInv


\* A claim moves files of inbox/ to processing/ as they are.
LEMMA ClaimedFacts ==
  ASSUME TypeOK, NEW D \in SUBSET DOMAIN inbox, Claimed(D)
  PROVE  /\ inbox' \in Files /\ processing' \in Files /\ Only(inbox, D) \in Files
         /\ DOMAIN inbox' = DOMAIN inbox \ D
         /\ \A d \in DOMAIN inbox \ D : inbox'[d] = inbox[d]
         /\ DOMAIN processing' = DOMAIN processing \cup D
         /\ \A d \in D : processing'[d] = inbox[d]
         /\ \A d \in DOMAIN processing \ D : processing'[d] = processing[d]
         /\ DOMAIN Only(inbox, D) = D
         /\ \A d \in D : Only(inbox, D)[d] = inbox[d]
<1>1. inbox \in Files /\ processing \in Files
  BY DEF TypeOK
<1>2. inbox' = Without(inbox, D) /\ processing' = Written(processing, Only(inbox, D))
  BY DEF Claimed
<1>3. /\ Only(inbox, D) \in Files /\ DOMAIN Only(inbox, D) = D
      /\ \A d \in D : Only(inbox, D)[d] = inbox[d]
  <2>1. /\ Only(inbox, D) \in Files /\ DOMAIN Only(inbox, D) = DOMAIN inbox \cap D
        /\ \A d \in DOMAIN inbox \cap D : Only(inbox, D)[d] = inbox[d]
    BY <1>1, OnlyFacts
  <2> QED
    BY <2>1
<1>4. inbox' \in Files /\ DOMAIN inbox' = DOMAIN inbox \ D
      /\ \A d \in DOMAIN inbox \ D : inbox'[d] = inbox[d]
  <2>1. /\ Without(inbox, D) \in Files /\ DOMAIN Without(inbox, D) = DOMAIN inbox \ D
        /\ \A d \in DOMAIN inbox \ D : Without(inbox, D)[d] = inbox[d]
    BY <1>1, WithoutFacts
  <2> QED
    BY <1>2, <2>1
<1>5. /\ processing' \in Files /\ DOMAIN processing' = DOMAIN processing \cup D
      /\ \A d \in D : processing'[d] = inbox[d]
      /\ \A d \in DOMAIN processing \ D : processing'[d] = processing[d]
  <2> DEFINE g == Only(inbox, D)
  <2> HIDE DEF g
  <2>1. g \in Files /\ DOMAIN g = D /\ \A d \in D : g[d] = inbox[d]
    BY <1>3 DEF g
  <2>2. /\ Written(processing, g) \in Files
        /\ DOMAIN Written(processing, g) = DOMAIN processing \cup DOMAIN g
        /\ \A d \in DOMAIN g : Written(processing, g)[d] = g[d]
        /\ \A d \in DOMAIN processing \ DOMAIN g : Written(processing, g)[d] = processing[d]
    BY <1>1, <2>1, WrittenFacts
  <2>3. processing' = Written(processing, g)
    BY <1>2 DEF g
  <2> QED
    BY <2>1, <2>2, <2>3
<1> QED
  BY <1>3, <1>4, <1>5

\* The claim of a batch only moves files.
LEMMA ClaimStep ==
  ASSUME IInv, Claim
  PROVE  IInv'
<1> DEFINE D == FirstNames(DOMAIN inbox, BatchSize)
<1>1. D \in SUBSET DOMAIN inbox
  BY DEF FirstNames
<1>2. /\ Claimed(D) /\ batch' = Only(inbox, D) /\ pc = "claim" /\ pc' = "next"
      /\ UNCHANGED <<trigger, failed, audit, turns, ended, unsettled, unrecorded, faults, edits>>
  BY DEF Claim, Claimed
<1> HIDE DEF D
<1>3. /\ inbox' \in Files /\ processing' \in Files /\ batch' \in Files
      /\ DOMAIN inbox' = DOMAIN inbox \ D
      /\ \A d \in DOMAIN inbox \ D : inbox'[d] = inbox[d]
      /\ DOMAIN processing' = DOMAIN processing \cup D
      /\ \A d \in D : processing'[d] = inbox[d]
      /\ DOMAIN batch' = D /\ \A d \in D : batch'[d] = inbox[d]
  BY <1>1, <1>2, ClaimedFacts DEF IInv
<1>4. DOMAIN processing = {} /\ DOMAIN batch = {}
  BY <1>2 DEF IInv, LoopFits
<1>5. TypeOK'
  BY <1>2, <1>3 DEF IInv, TypeOK, PC
<1>6. LoopFits'
  BY <1>2, <1>3, <1>4 DEF LoopFits
<1>7. ASSUME NEW d \in Delivery PROVE Fits(d)' /\ Outcome(d)'
  <2>1. Fits(d) /\ Outcome(d) /\ ~InTurn(d)
    BY <1>2 DEF IInv, InTurn
  <2>2. MaxAttempts \in Nat \ {0} /\ turns[d] \in Nat /\ (d \in DOMAIN inbox => inbox[d] \in Nat)
    BY Numbers DEF IInv
  <2>3. Fits(d)'
    BY <1>1, <1>2, <1>3, <1>4, <2>1, <2>2 DEF Fits, Pending
  <2> QED
    BY <1>1, <1>2, <1>3, <1>4, <2>1, <2>3 DEF Outcome, Pending
<1> QED
  BY <1>5, <1>6, <1>7 DEF IInv

\* Also a claim of a part of it, before a crash.
LEMMA CrashInClaimStep ==
  ASSUME IInv, CrashInClaim
  PROVE  IInv'
<1>1. PICK D \in SUBSET DOMAIN inbox : Claimed(D)
  BY DEF CrashInClaim, FirstNames
<1>2. /\ pc' = "down" /\ pc' \in PC /\ DOMAIN batch' = {} /\ batch' \in Files
      /\ faults' \in 0..MaxFaults /\ unsettled' = unsettled
  BY DownFacts DEF CrashInClaim
<1>3. UNCHANGED <<trigger, failed, audit, turns, ended, unrecorded, edits>> /\ pc = "claim"
  BY <1>1 DEF Claimed, CrashInClaim
<1>4. /\ inbox' \in Files /\ processing' \in Files
      /\ DOMAIN inbox' = DOMAIN inbox \ D
      /\ \A d \in DOMAIN inbox \ D : inbox'[d] = inbox[d]
      /\ DOMAIN processing' = DOMAIN processing \cup D
      /\ \A d \in D : processing'[d] = inbox[d]
  BY <1>1, ClaimedFacts DEF IInv
<1>5. DOMAIN processing = {} /\ DOMAIN batch = {}
  BY <1>3 DEF IInv, LoopFits
<1>6. TypeOK'
  BY <1>2, <1>3, <1>4 DEF IInv, TypeOK
<1>7. LoopFits'
  BY <1>2 DEF LoopFits
<1>8. ASSUME NEW d \in Delivery PROVE Fits(d)' /\ Outcome(d)'
  <2>1. Fits(d) /\ Outcome(d)
    BY DEF IInv
  <2>2. MaxAttempts \in Nat \ {0} /\ turns[d] \in Nat /\ (d \in DOMAIN inbox => inbox[d] \in Nat)
    BY Numbers DEF IInv
  <2>3. Fits(d)'
    BY <1>1, <1>2, <1>3, <1>4, <1>5, <2>1, <2>2 DEF Fits, Pending
  <2> QED
    BY <1>1, <1>2, <1>3, <1>4, <1>5, <2>1, <2>3 DEF Outcome, Pending
<1> QED
  BY <1>6, <1>7, <1>8 DEF IInv

\* The submission of a turn counts it before its end.
LEMMA SubmitStep ==
  ASSUME IInv, Submit
  PROVE  IInv'
<1>1. /\ pc = "next" /\ pc' = "turn" /\ trigger[Target[cur]] = "on" /\ DOMAIN batch # {}
      /\ audit' = [audit EXCEPT ![cur] = "processing"]
      /\ turns' = [turns EXCEPT ![cur] = @ + 1]
      /\ unrecorded' = unrecorded \ {cur}
      /\ UNCHANGED <<trigger, inbox, processing, failed, batch, ended, unsettled, faults, edits>>
  BY DEF Submit, Current, Recorded, dirs
<1>2. cur \in DOMAIN batch /\ cur \in Delivery /\ cur' = cur
  BY <1>1, CurInBatch, SameCur DEF IInv
<1>3. TypeOK'
  BY <1>1, <1>2 DEF IInv, TypeOK, PC, Status
<1>4. LoopFits'
  BY <1>1 DEF IInv, LoopFits
<1>5. ASSUME NEW d \in Delivery PROVE Fits(d)' /\ Outcome(d)'
  <2>1. Fits(d) /\ Outcome(d) /\ ~InTurn(d) /\ (InTurn(d)' <=> d = cur)
    BY <1>1, <1>2 DEF IInv, InTurn
  <2>2. /\ MaxAttempts \in Nat \ {0} /\ turns[d] \in Nat
        /\ d \in DOMAIN batch => batch[d] \in Nat
    BY Numbers DEF IInv
  <2>3. /\ audit'[d] = IF d = cur THEN "processing" ELSE audit[d]
        /\ turns'[d] = IF d = cur THEN turns[d] + 1 ELSE turns[d]
    BY <1>1 DEF IInv, TypeOK
  <2>4. Fits(d)'
    BY <1>1, <1>2, <2>1, <2>2, <2>3 DEF Fits, Pending
  <2>5. Outcome(d)'
    <3>1. CASE d = cur
      <4>1. d \in DOMAIN processing /\ d \notin ended \ unsettled
        BY <1>1, <1>2, <2>1, <3>1 DEF Fits, Outcome
      <4> QED
        BY <1>1, <2>3, <3>1, <4>1 DEF Outcome, Pending
    <3>2. CASE d # cur
      BY <1>1, <2>1, <2>3, <3>2 DEF Outcome, Pending
    <3> QED
      BY <3>1, <3>2
  <2> QED
    BY <2>4, <2>5
<1> QED
  BY <1>3, <1>4, <1>5 DEF IInv

\* The end of a turn is noted before its file is settled.
LEMMA TurnEndsStep ==
  ASSUME IInv, NEW outcome \in {"ok", "error"}, TurnEnds(outcome)
  PROVE  IInv'
<1>1. /\ pc = "turn" /\ pc' = outcome /\ ended' = ended \cup {cur} /\ DOMAIN batch # {}
      /\ UNCHANGED <<trigger, inbox, processing, failed, batch, audit, turns, unsettled,
                     unrecorded, faults, edits>>
  BY DEF TurnEnds, dirs, IInv, LoopFits
<1>2. cur \in DOMAIN batch /\ cur \in Delivery /\ cur' = cur
  BY <1>1, CurInBatch, SameCur DEF IInv
<1>3. TypeOK'
  BY <1>1, <1>2 DEF IInv, TypeOK, PC
<1>4. LoopFits'
  BY <1>1, <1>2 DEF IInv, LoopFits
<1>5. ASSUME NEW d \in Delivery PROVE Fits(d)' /\ Outcome(d)'
  <2>1. Fits(d) /\ Outcome(d) /\ (InTurn(d) <=> d = cur) /\ (InTurn(d)' <=> d = cur)
    BY <1>1, <1>2 DEF IInv, InTurn
  <2>2. Fits(d)'
    BY <1>1, <1>2, <2>1 DEF Fits, Pending
  <2> QED
    BY <1>1, <1>2, <2>1, <2>2 DEF Fits, Outcome, Pending
<1> QED
  BY <1>3, <1>4, <1>5 DEF IInv

\* The delivery in progress is unlinked, and the task goes on with the next.
LEMMA CompleteFacts ==
  ASSUME TypeOK, DOMAIN batch # {}, Complete, Handled
  PROVE  /\ pc' = "next"
         /\ processing' \in Files /\ DOMAIN processing' = DOMAIN processing \ {cur}
         /\ \A d \in DOMAIN processing \ {cur} : processing'[d] = processing[d]
         /\ batch' \in Files /\ DOMAIN batch' = DOMAIN batch \ {cur}
         /\ \A d \in DOMAIN batch \ {cur} : batch'[d] = batch[d]
<1>1. /\ processing' = Without(processing, {cur}) /\ batch' = Without(batch, {cur}) /\ pc' = "next"
      /\ processing \in Files /\ batch \in Files
  BY DEF Complete, Handled, TypeOK
<1>2. /\ Without(processing, {cur}) \in Files
      /\ DOMAIN Without(processing, {cur}) = DOMAIN processing \ {cur}
      /\ \A d \in DOMAIN processing \ {cur} : Without(processing, {cur})[d] = processing[d]
  BY <1>1, WithoutFacts
<1>3. /\ Without(batch, {cur}) \in Files
      /\ DOMAIN Without(batch, {cur}) = DOMAIN batch \ {cur}
      /\ \A d \in DOMAIN batch \ {cur} : Without(batch, {cur})[d] = batch[d]
  BY <1>1, WithoutFacts
<1> QED
  BY <1>1, <1>2, <1>3

\* A message whose trigger is off or gone, and one whose turn ended, leave alike:
\* with a final record, and "ok" only after a turn, or with none written.
LEMMA LeaveStep ==
  ASSUME IInv, Drop \/ Settle
  PROVE  IInv'
<1>1. PICK status \in {"ok", "error", audit[cur]} :
        /\ audit' = [audit EXCEPT ![cur] = status]
        /\ status = "ok" => audit[cur] = "ok" \/ cur \in ended
        /\ unrecorded \ {cur} \subseteq unrecorded' /\ unrecorded' \subseteq unrecorded \cup {cur}
        /\ status \in {"ok", "error"} \/ cur \in unrecorded'
  BY DEF Drop, Settle, Noted, Recorded, Unrecorded, IInv, LoopFits
<1>2. /\ DOMAIN batch # {} /\ Complete /\ Handled /\ faults' \in 0..MaxFaults
      /\ UNCHANGED <<trigger, inbox, failed, turns, ended, unsettled, edits>>
  BY LocalTriggersAssumption
     DEF Drop, Settle, Current, Noted, Fault, IInv, LoopFits, TypeOK, LocalTriggersAssumption
<1>3. /\ pc' = "next"
      /\ processing' \in Files /\ DOMAIN processing' = DOMAIN processing \ {cur}
      /\ \A d \in DOMAIN processing \ {cur} : processing'[d] = processing[d]
      /\ batch' \in Files /\ DOMAIN batch' = DOMAIN batch \ {cur}
      /\ \A d \in DOMAIN batch \ {cur} : batch'[d] = batch[d]
  BY <1>2, CompleteFacts DEF IInv
<1>4. cur \in DOMAIN batch /\ cur \in Delivery
  BY <1>2, CurInBatch DEF IInv
<1>5. TypeOK'
  BY <1>1, <1>2, <1>3, <1>4 DEF IInv, TypeOK, PC, Status
<1>6. LoopFits'
  <2>1. DOMAIN processing \subseteq DOMAIN batch
    BY <1>2 DEF IInv, LoopFits, Drop, Settle, Current
  <2> QED
    BY <1>3, <2>1 DEF LoopFits
<1>7. ASSUME NEW d \in Delivery PROVE Fits(d)' /\ Outcome(d)'
  <2>1. Fits(d) /\ Outcome(d) /\ ~InTurn(d)'
    BY <1>3 DEF IInv, InTurn
  <2>2. audit'[d] = IF d = cur THEN status ELSE audit[d]
    BY <1>1 DEF IInv, TypeOK
  <2>3. audit'[d] = "ok" => d \in ended
    BY <1>1, <2>1, <2>2 DEF Outcome
  <2>4. d # cur => ~InTurn(d)
    BY DEF InTurn
  <2>5. Fits(d)'
    BY <1>1, <1>2, <1>3, <1>4, <2>1, <2>2, <2>4 DEF Fits, Pending
  <2> QED
    BY <1>1, <1>2, <1>3, <1>4, <2>1, <2>2, <2>3, <2>4, <2>5 DEF Outcome, Pending
<1> QED
  BY <1>5, <1>6, <1>7 DEF IInv

\* The task dies, or is cancelled in its sleep, and no file changes.
LEMMA CrashStep ==
  ASSUME IInv, Down, Fault, UNCHANGED <<trigger, dirs, audit, turns, ended, unrecorded, edits>>
  PROVE  IInv'
<1>1. /\ pc' = "down" /\ pc' \in PC /\ DOMAIN batch' = {} /\ batch' \in Files
      /\ faults' \in 0..MaxFaults
      /\ unsettled \subseteq unsettled' /\ unsettled' \subseteq Delivery
      /\ \A d \in Delivery \ unsettled' : InTurn(d) => pc = "turn"
      /\ UNCHANGED <<trigger, inbox, processing, failed, audit, turns, ended, unrecorded, edits>>
  BY DownFacts DEF dirs
<1>2. TypeOK'
  BY <1>1 DEF IInv, TypeOK
<1>3. LoopFits'
  BY <1>1 DEF LoopFits
<1>4. ASSUME NEW d \in Delivery PROVE Fits(d)' /\ Outcome(d)'
  <2>1. Fits(d) /\ Outcome(d)
    BY DEF IInv
  <2>2. Fits(d)'
    BY <1>1, <2>1 DEF Fits, Pending
  <2> QED
    BY <1>1, <2>1, <2>2 DEF Outcome, Pending
<1> QED
  BY <1>2, <1>3, <1>4 DEF IInv

\* It dies with the final record of a delivery written and its file still there.
LEMMA CrashBeforeUnlinkStep ==
  ASSUME IInv, CrashBeforeUnlink
  PROVE  IInv'
<1>1. /\ DOMAIN batch # {}
      /\ UNCHANGED <<trigger, inbox, processing, failed, turns, ended, edits>>
  BY DEF CrashBeforeUnlink, Current, dirs, IInv, LoopFits
<1>2. PICK status \in {"ok", "error"} :
        /\ audit' = [audit EXCEPT ![cur] = status]
        /\ status = "ok" => cur \in ended
        /\ unrecorded' = unrecorded \ {cur}
  BY DEF CrashBeforeUnlink, Recorded, IInv, LoopFits
<1>3. cur \in DOMAIN batch /\ cur \in Delivery
  BY <1>1, CurInBatch DEF IInv
<1>4. /\ pc' = "down" /\ pc' \in PC /\ DOMAIN batch' = {} /\ batch' \in Files
      /\ faults' \in 0..MaxFaults
      /\ unsettled \subseteq unsettled' /\ unsettled' \subseteq Delivery
      /\ \A d \in Delivery \ unsettled' : InTurn(d) => pc = "turn"
  BY DownFacts DEF CrashBeforeUnlink
<1>5. TypeOK'
  BY <1>1, <1>2, <1>4 DEF IInv, TypeOK, Status
<1>6. LoopFits'
  BY <1>4 DEF LoopFits
<1>7. ASSUME NEW d \in Delivery PROVE Fits(d)' /\ Outcome(d)'
  <2>1. Fits(d) /\ Outcome(d)
    BY DEF IInv
  <2>2. audit'[d] = IF d = cur THEN status ELSE audit[d]
    BY <1>2 DEF IInv, TypeOK
  <2>3. Fits(d)'
    BY <1>1, <1>3, <1>4, <2>1, <2>2 DEF Fits, Pending
  <2>4. (audit[d] = "ok" => d \in ended)'
    BY <1>1, <1>2, <2>1, <2>2 DEF Outcome
  <2> QED
    BY <1>1, <1>2, <1>4, <2>1, <2>2, <2>3, <2>4 DEF Outcome, Pending
<1> QED
  BY <1>5, <1>6, <1>7 DEF IInv

\* The recovery of processing/, as far as it gets: each file is written anew
\* with one attempt more, to failed/ at the limit, and unlinked unless kept.
LEMMA RecoverStep ==
  ASSUME IInv, NEW D \in SUBSET DOMAIN processing, NEW kept, Retry(D, processing, kept),
         pc = "down", pc' \in {"down", "claim"},
         pc' = "claim" => D = DOMAIN processing /\ kept = {},
         faults' \in 0..MaxFaults,
         UNCHANGED <<trigger, batch, audit, turns, ended, unsettled, unrecorded, edits>>
  PROVE  IInv'
<1> DEFINE again == {d \in D : processing[d] + 1 < MaxAttempts}
<1>1. /\ inbox' \in Files /\ processing' \in Files /\ failed' \in Files
      /\ DOMAIN inbox' = DOMAIN inbox \cup again
      /\ \A d \in again : inbox'[d] = processing[d] + 1
      /\ \A d \in DOMAIN inbox \ again : inbox'[d] = inbox[d]
      /\ DOMAIN failed' = DOMAIN failed \cup (D \ again)
      /\ DOMAIN processing' = DOMAIN processing \ (D \ kept)
      /\ \A d \in DOMAIN processing \ (D \ kept) : processing'[d] = processing[d]
  <2>1. processing \in Files /\ TypeOK
    BY DEF IInv, TypeOK
  <2>2. \A d \in D : processing[d] < MaxAttempts
    BY OfFiles, <2>1 DEF IInv, Fits
  <2>3. Retried(D, processing, kept)
    BY <2>1, <2>2, RetryFacts
  <2> QED
    BY <2>3 DEF Retried
<1>2. \A d \in Delivery : d \in again <=> d \in D /\ processing[d] + 1 < MaxAttempts
  OBVIOUS
<1> HIDE DEF again
<1>3. TypeOK'
  BY <1>1 DEF IInv, TypeOK, PC
<1>4. LoopFits'
  BY <1>1 DEF IInv, LoopFits
<1>5. ASSUME NEW d \in Delivery PROVE Fits(d)' /\ Outcome(d)'
  <2>1. Fits(d) /\ Outcome(d) /\ ~InTurn(d) /\ ~InTurn(d)' /\ d \notin DOMAIN batch
    BY DEF IInv, InTurn, LoopFits
  <2>2. /\ MaxAttempts \in Nat \ {0} /\ turns[d] \in Nat
        /\ d \in DOMAIN inbox => inbox[d] \in Nat
        /\ d \in DOMAIN processing => processing[d] \in Nat
    BY Numbers DEF IInv
  <2>3. CASE d \in again
    <3>1. /\ d \in DOMAIN processing /\ d \in DOMAIN inbox' /\ inbox'[d] = processing[d] + 1
          /\ inbox'[d] < MaxAttempts /\ d \notin DOMAIN failed'
      BY <1>1, <1>2, <2>1, <2>2, <2>3 DEF Fits
    <3>2. Fits(d)'
      BY <1>1, <2>1, <2>2, <3>1 DEF Fits, Pending
    <3> QED
      BY <1>1, <2>1, <3>1, <3>2 DEF Outcome, Pending
  <2>4. CASE d \in D \ again
    <3>1. /\ d \in DOMAIN processing /\ d \notin DOMAIN inbox /\ d \notin DOMAIN inbox'
          /\ d \in DOMAIN failed' /\ processing[d] + 1 >= MaxAttempts
      BY <1>1, <1>2, <2>1, <2>2, <2>4 DEF Fits
    <3>2. Fits(d)'
      BY <1>1, <2>1, <2>2, <3>1 DEF Fits, Pending
    <3> QED
      BY <1>1, <2>1, <3>1, <3>2 DEF Outcome, Pending
  <2>5. CASE d \notin D
    <3>1. /\ d \in DOMAIN inbox' <=> d \in DOMAIN inbox
          /\ d \in DOMAIN inbox => inbox'[d] = inbox[d]
          /\ d \in DOMAIN failed' <=> d \in DOMAIN failed
          /\ d \in DOMAIN processing' <=> d \in DOMAIN processing
          /\ d \in DOMAIN processing => processing'[d] = processing[d]
      BY <1>1, <1>2, <2>5
    <3>2. Fits(d)'
      BY <2>1, <3>1 DEF Fits, Pending
    <3> QED
      BY <2>1, <3>1, <3>2 DEF Outcome, Pending
  <2> QED
    BY <2>3, <2>4, <2>5
<1> QED
  BY <1>3, <1>4, <1>5 DEF IInv

\* The recovery of a new gateway.
LEMMA StartStep ==
  ASSUME IInv, Start \/ CrashInStart
  PROVE  IInv'
<1>1. CASE Start
  <2>1. /\ Retry(DOMAIN processing, processing, {}) /\ pc = "down" /\ pc' = "claim"
        /\ faults' \in 0..MaxFaults
        /\ UNCHANGED <<trigger, batch, audit, turns, ended, unsettled, unrecorded, edits>>
    BY <1>1 DEF Start, history, IInv, TypeOK
  <2> QED
    BY <2>1, RecoverStep
<1>2. CASE CrashInStart
  <2>1. /\ pc = "down" /\ pc' = "down" /\ faults' \in 0..MaxFaults
        /\ UNCHANGED <<trigger, batch, audit, turns, ended, unsettled, unrecorded, edits>>
    BY <1>2, LocalTriggersAssumption
       DEF CrashInStart, Fault, history, IInv, TypeOK, LocalTriggersAssumption
  <2>2. PICK D \in SUBSET DOMAIN processing : \E kept : Retry(D, processing, kept)
    BY <1>2 DEF CrashInStart, FirstNames
  <2>3. PICK kept : Retry(D, processing, kept)
    BY <2>2
  <2> QED
    BY <2>1, <2>3, RecoverStep
<1> QED
  BY <1>1, <1>2

\* What giving back the delivery in progress does to its files and to others'.
LEMMA GiveBackFacts ==
  ASSUME IInv, DOMAIN batch # {}, NEW kept, Retry({cur}, batch, kept)
  PROVE  /\ inbox' \in Files /\ processing' \in Files /\ failed' \in Files
         /\ cur \in DOMAIN batch /\ cur \in Delivery
         /\ \/ /\ batch[cur] + 1 < MaxAttempts
               /\ cur \in DOMAIN inbox' /\ inbox'[cur] = batch[cur] + 1
               /\ cur \notin DOMAIN failed'
            \/ /\ batch[cur] + 1 >= MaxAttempts
               /\ cur \in DOMAIN failed' /\ cur \notin DOMAIN inbox'
         /\ cur \in DOMAIN processing' => cur \in kept /\ cur \in DOMAIN processing
                                          /\ processing'[cur] = batch[cur]
         /\ cur \in kept /\ cur \in DOMAIN processing => cur \in DOMAIN processing'
         /\ \A d \in Delivery \ {cur} :
              /\ d \in DOMAIN inbox' <=> d \in DOMAIN inbox
              /\ d \in DOMAIN inbox => inbox'[d] = inbox[d]
              /\ d \in DOMAIN failed' <=> d \in DOMAIN failed
              /\ d \in DOMAIN processing' <=> d \in DOMAIN processing
              /\ d \in DOMAIN processing => processing'[d] = processing[d]
<1>1. cur \in DOMAIN batch /\ cur \in Delivery
  BY CurInBatch DEF IInv
<1> DEFINE again == {d \in {cur} : batch[d] + 1 < MaxAttempts}
<1>2. /\ inbox' \in Files /\ processing' \in Files /\ failed' \in Files
      /\ DOMAIN inbox' = DOMAIN inbox \cup again
      /\ \A d \in again : inbox'[d] = batch[d] + 1
      /\ \A d \in DOMAIN inbox \ again : inbox'[d] = inbox[d]
      /\ DOMAIN failed' = DOMAIN failed \cup ({cur} \ again)
      /\ DOMAIN processing' = DOMAIN processing \ ({cur} \ kept)
      /\ \A d \in DOMAIN processing \ ({cur} \ kept) : processing'[d] = processing[d]
  <2>1. batch \in Files /\ TypeOK /\ {cur} \in SUBSET DOMAIN batch
    BY <1>1 DEF IInv, TypeOK
  <2>2. \A d \in {cur} : batch[d] < MaxAttempts
    BY <1>1 DEF IInv, Fits
  <2>3. Retried({cur}, batch, kept)
    BY <2>1, <2>2, RetryFacts
  <2> QED
    BY <2>3 DEF Retried
<1>3. again = IF batch[cur] + 1 < MaxAttempts THEN {cur} ELSE {}
  OBVIOUS
<1> HIDE DEF again
<1>4. MaxAttempts \in Nat /\ batch[cur] \in Nat
  BY <1>1, Numbers DEF IInv
<1>5. /\ cur \notin DOMAIN inbox /\ cur \notin DOMAIN failed
      /\ cur \in DOMAIN processing => processing[cur] = batch[cur]
  BY <1>1 DEF IInv, Fits
<1>6. /\ cur \in DOMAIN processing' => cur \in kept /\ cur \in DOMAIN processing
                                       /\ processing'[cur] = batch[cur]
      /\ cur \in kept /\ cur \in DOMAIN processing => cur \in DOMAIN processing'
  BY <1>2, <1>5
<1>7. \/ /\ batch[cur] + 1 < MaxAttempts
         /\ cur \in DOMAIN inbox' /\ inbox'[cur] = batch[cur] + 1
         /\ cur \notin DOMAIN failed'
      \/ /\ batch[cur] + 1 >= MaxAttempts
         /\ cur \in DOMAIN failed' /\ cur \notin DOMAIN inbox'
  BY <1>2, <1>3, <1>4, <1>5
<1>8. ASSUME NEW d \in Delivery \ {cur}
      PROVE  /\ d \in DOMAIN inbox' <=> d \in DOMAIN inbox
             /\ d \in DOMAIN inbox => inbox'[d] = inbox[d]
             /\ d \in DOMAIN failed' <=> d \in DOMAIN failed
             /\ d \in DOMAIN processing' <=> d \in DOMAIN processing
             /\ d \in DOMAIN processing => processing'[d] = processing[d]
  BY <1>2, <1>3
<1> QED
  BY <1>1, <1>2, <1>6, <1>7, <1>8

\* The delivery in progress is given back, whether the task goes on or not.
LEMMA GiveBackStep ==
  ASSUME IInv, DOMAIN batch # {}, pc # "down",
         NEW kept \in {{}, {cur}}, Retry({cur}, batch, kept),
         NEW status \in {audit[cur], "retrying", "interrupted", "error", "ok"},
         audit' = [audit EXCEPT ![cur] = status],
         status = "ok" => audit[cur] = "ok" \/ cur \in ended,
         unrecorded \ {cur} \subseteq unrecorded', unrecorded' \subseteq unrecorded \cup {cur},
         batch' \in Files, DOMAIN batch' \subseteq DOMAIN batch \ {cur},
         \A d \in DOMAIN batch' : batch'[d] = batch[d],
         \/ pc' = "down" /\ DOMAIN batch' = {}
         \/ pc' = "next" /\ DOMAIN batch' = DOMAIN batch \ {cur} /\ kept = {},
         unsettled \subseteq unsettled', unsettled' \subseteq Delivery,
         InTurn(cur) /\ pc # "turn" => cur \in unsettled',
         faults' \in 0..MaxFaults,
         UNCHANGED <<trigger, turns, ended, edits>>
  PROVE  IInv'
<1>1. /\ inbox' \in Files /\ processing' \in Files /\ failed' \in Files
      /\ cur \in DOMAIN batch /\ cur \in Delivery
      /\ \/ /\ batch[cur] + 1 < MaxAttempts
            /\ cur \in DOMAIN inbox' /\ inbox'[cur] = batch[cur] + 1
            /\ cur \notin DOMAIN failed'
         \/ /\ batch[cur] + 1 >= MaxAttempts
            /\ cur \in DOMAIN failed' /\ cur \notin DOMAIN inbox'
      /\ cur \in DOMAIN processing' => cur \in kept /\ processing'[cur] = batch[cur]
      /\ \A d \in Delivery \ {cur} :
           /\ d \in DOMAIN inbox' <=> d \in DOMAIN inbox
           /\ d \in DOMAIN inbox => inbox'[d] = inbox[d]
           /\ d \in DOMAIN failed' <=> d \in DOMAIN failed
           /\ d \in DOMAIN processing' <=> d \in DOMAIN processing
           /\ d \in DOMAIN processing => processing'[d] = processing[d]
  BY GiveBackFacts
<1>2. TypeOK'
  <2>1. audit' \in [Delivery -> Status]
    BY <1>1 DEF IInv, TypeOK, Status
  <2> QED
    BY <1>1, <2>1 DEF IInv, TypeOK, PC
<1>3. LoopFits'
  <2>1. DOMAIN processing \subseteq DOMAIN batch
    BY DEF IInv, LoopFits
  <2>2. DOMAIN processing' \subseteq Delivery
    BY <1>1, OfFiles
  <2>3. kept = {} => DOMAIN processing' \subseteq DOMAIN batch \ {cur}
    BY <1>1, <2>1, <2>2
  <2> QED
    BY <2>3 DEF LoopFits
<1>4. audit[cur] # "none"
  BY <1>1 DEF IInv, Fits
<1>5. ASSUME NEW d \in Delivery PROVE Fits(d)' /\ Outcome(d)'
  <2>1. Fits(d) /\ Outcome(d) /\ ~InTurn(d)'
    BY DEF IInv, InTurn
  <2>2. audit'[d] = IF d = cur THEN status ELSE audit[d]
    BY DEF IInv, TypeOK
  <2>3. /\ MaxAttempts \in Nat \ {0} /\ turns[d] \in Nat
        /\ d \in DOMAIN batch => batch[d] \in Nat
    BY Numbers DEF IInv
  <2>4. CASE d = cur
    <3>1. d \notin ended \ unsettled'
      BY <1>1, <2>1, <2>4 DEF Outcome
    <3>2. Fits(d)'
      BY <1>1, <1>4, <2>1, <2>2, <2>3, <2>4 DEF Fits, Pending
    <3>3. audit'[d] = "ok" => d \in ended
      BY <2>1, <2>2, <2>4 DEF Outcome
    <3> QED
      BY <1>1, <2>4, <3>1, <3>2, <3>3 DEF Outcome, Pending
  <2>5. CASE d # cur
    <3>1. /\ d \in DOMAIN inbox' <=> d \in DOMAIN inbox
          /\ d \in DOMAIN inbox => inbox'[d] = inbox[d]
          /\ d \in DOMAIN failed' <=> d \in DOMAIN failed
          /\ d \in DOMAIN processing' <=> d \in DOMAIN processing
          /\ d \in DOMAIN processing => processing'[d] = processing[d]
          /\ ~InTurn(d)
      BY <1>1, <2>5 DEF InTurn
    <3>2. Fits(d)'
      BY <2>1, <2>2, <2>5, <3>1 DEF Fits, Pending
    <3> QED
      BY <2>1, <2>2, <2>5, <3>1, <3>2 DEF Outcome, Pending
  <2> QED
    BY <2>4, <2>5
<1> QED
  BY <1>2, <1>3, <1>5 DEF IInv

\* An exception in the handler.
LEMMA FailsStep ==
  ASSUME IInv, Fails
  PROVE  IInv'
<1>1. /\ Retry({cur}, batch, {}) /\ DOMAIN batch # {} /\ pc \in {"next", "ok"} /\ pc' = "next"
      /\ batch' = Without(batch, {cur})
      /\ unsettled' = IF pc = "ok" THEN unsettled \cup {cur} ELSE unsettled
      /\ faults' \in 0..MaxFaults
      /\ UNCHANGED <<trigger, turns, ended, edits>>
  BY LocalTriggersAssumption
     DEF Fails, Current, Handled, Fault, IInv, TypeOK, LoopFits, LocalTriggersAssumption
<1>2. PICK status \in {audit[cur], "retrying", "interrupted", "error", "ok"} :
        /\ audit' = [audit EXCEPT ![cur] = status]
        /\ status = "ok" => audit[cur] = "ok" \/ cur \in ended
        /\ unrecorded \ {cur} \subseteq unrecorded' /\ unrecorded' \subseteq unrecorded \cup {cur}
  BY DEF Fails, Recorded, Unrecorded, IInv, LoopFits
<1>3. cur \in Delivery
  BY <1>1, CurInBatch DEF IInv
<1>4. batch' \in Files /\ DOMAIN batch' = DOMAIN batch \ {cur} /\ \A d \in DOMAIN batch' : batch'[d] = batch[d]
  <2>1. batch \in Files
    BY DEF IInv, TypeOK
  <2>2. /\ Without(batch, {cur}) \in Files
        /\ DOMAIN Without(batch, {cur}) = DOMAIN batch \ {cur}
        /\ \A d \in DOMAIN batch \ {cur} : Without(batch, {cur})[d] = batch[d]
    BY <2>1, WithoutFacts
  <2> QED
    BY <1>1, <2>2
<1>5. unsettled \subseteq unsettled' /\ unsettled' \subseteq Delivery
      /\ (InTurn(cur) /\ pc # "turn" => cur \in unsettled')
  BY <1>1, <1>3 DEF IInv, TypeOK, InTurn
<1> QED
  BY <1>1, <1>2, <1>4, <1>5, GiveBackStep

\* The shutdown puts the rest of the batch back.
LEMMA ShutdownStep ==
  ASSUME IInv, Shutdown \/ CrashInRetry
  PROVE  IInv'
<1>1. CASE Shutdown /\ pc = "asleep"
  BY <1>1, CrashStep DEF Shutdown
<1>2. CASE (Shutdown /\ pc # "asleep") \/ CrashInRetry
  <2>1. /\ Down /\ Fault /\ DOMAIN batch # {} /\ pc # "down"
        /\ UNCHANGED <<trigger, turns, ended, edits>>
    BY <1>2 DEF Shutdown, CrashInRetry, Awaits, Current, IInv, LoopFits
  <2>2. PICK kept \in {{}, {cur}} : Retry({cur}, batch, kept)
    BY <1>2 DEF Shutdown, CrashInRetry
  <2>3. PICK status \in {audit[cur], "interrupted"} :
          /\ audit' = [audit EXCEPT ![cur] = status]
          /\ unrecorded \ {cur} \subseteq unrecorded' /\ unrecorded' \subseteq unrecorded \cup {cur}
    <3>1. cur \in Delivery
      BY <2>1, CurInBatch DEF IInv
    <3>2. audit = [audit EXCEPT ![cur] = audit[cur]]
      BY <3>1 DEF IInv, TypeOK
    <3> QED
      BY <1>2, <3>2 DEF Shutdown, CrashInRetry, Recorded, Unrecorded
  <2>4. /\ pc' = "down" /\ DOMAIN batch' = {} /\ batch' \in Files
        /\ faults' \in 0..MaxFaults
        /\ unsettled \subseteq unsettled' /\ unsettled' \subseteq Delivery
        /\ \A d \in Delivery \ unsettled' : InTurn(d) => pc = "turn"
    BY <2>1, DownFacts
  <2>5. InTurn(cur) /\ pc # "turn" => cur \in unsettled'
    BY <2>1, <2>4, CurInBatch DEF IInv
  <2> QED
    BY <2>1, <2>2, <2>3, <2>4, <2>5, GiveBackStep
<1> QED
  BY <1>1, <1>2

\* Every step keeps the invariant.
LEMMA StepIInv == IInv /\ [Next]_vars => IInv'
<1> SUFFICES ASSUME IInv, [Next]_vars PROVE IInv'
  OBVIOUS
<1>1. CASE Callers
  BY <1>1, QuietStep, DeleteStep, CrashInDeleteStep, EnqueueStep DEF Callers
<1>2. CASE Loop
  BY <1>2, QuietStep, StartStep, ClaimStep, SubmitStep, LeaveStep DEF Loop
<1>3. CASE Agent
  BY <1>3, TurnEndsStep DEF Agent
<1>4. CASE Faults
  BY <1>4, StartStep, CrashInClaimStep, FailsStep, ShutdownStep, CrashStep, CrashBeforeUnlinkStep
     DEF Faults, Crash
<1>5. CASE UNCHANGED vars
  BY <1>5, QuietStep
<1> QED
  BY <1>1, <1>2, <1>3, <1>4, <1>5 DEF Next

\* It always holds.
LEMMA AlwaysIInv == Spec => []IInv
BY InitIInv, StepIInv, PTL DEF Spec

-----------------------------------------------------------------------------
(* What follows.                                                            *)

\* The directories hold deliveries with attempts, and the task stands where its
\* code can stand, whatever the triggers, deliveries and limits.
THEOREM TriggersTypeCorrect == Spec => []TypeOK
<1>1. IInv => TypeOK
  BY DEF IInv
<1> QED
  BY <1>1, AlwaysIInv, PTL

\* A message is submitted at most MaxAttempts times, however often the gateway
\* fails, shuts down or crashes (_retry_delivery_unlocked).
THEOREM AttemptLimitHolds == Spec => []AttemptsCoverTurns
<1>1. IInv => AttemptsCoverTurns
  BY DEF IInv, Fits, AttemptsCoverTurns
<1> QED
  BY <1>1, AlwaysIInv, PTL

\* What is given up is not waiting, a record says "ok" only after a turn, and what
\* is gone has a final record unless that record could not be written
\* (run_local_trigger_queue, _write_delivery_run_record).
THEOREM NothingLeavesUnrecorded == Spec => []SettledIsRecorded
<1>1. IInv => SettledIsRecorded
  BY DEF IInv, Fits, Outcome, SettledIsRecorded
<1> QED
  BY <1>1, AlwaysIInv, PTL

\* The turn a step of the task submits is that of a message that has had none, or
\* whose last one a fault kept from being settled (run_local_trigger_queue).
THEOREM RepeatsHaveCause == Spec => NoNeedlessRepeat
<1>1. IInv /\ [Next]_vars => [\A d \in ended \ unsettled : turns'[d] = turns[d]]_vars
  <2> SUFFICES ASSUME IInv, Next, NEW d \in ended \ unsettled
               PROVE  turns'[d] = turns[d]
    OBVIOUS
  <2>1. d \in Delivery
    BY DEF IInv, TypeOK
  <2>2. CASE Submit
    <3>1. pc = "next" /\ cur \in DOMAIN batch /\ turns' = [turns EXCEPT ![cur] = @ + 1]
      BY <2>2, CurInBatch DEF Submit, Current, IInv
    <3>2. d # cur
      BY <2>1, <3>1 DEF IInv, Outcome, InTurn
    <3> QED
      BY <2>1, <3>1, <3>2 DEF IInv, TypeOK
  <2>3. CASE ~Submit
    BY <2>3 DEF Next, Callers, Loop, Agent, Faults, Create, Enqueue, CrashInEnqueue, Accepted,
       CrashBeforeUnlink, Enable, Delete, CrashInDelete, Deletion, Start, CrashInStart, Claim, CrashInClaim, Claimed, Sleep, Wake, BatchDone, Drop,
       TurnEnds, Settle, Fails, Shutdown, Crash, CrashInRetry, history
  <2> QED
    BY <2>2, <2>3
<1> QED
  BY <1>1, AlwaysIInv, PTL DEF Spec, NoNeedlessRepeat

-----------------------------------------------------------------------------
(* The files implement the queue.                                           *)

Serving == IF pc = "turn" THEN {cur} ELSE {}

\* What DeliveryQueue sees of a delivery stays as it is.
Same(d) == Place(d)' = Place(d) /\ Tries(d)' = Tries(d)

\* The places and attempts, one line for each case.
LEMMA PlaceIs ==
  ASSUME NEW d \in Delivery
  PROVE  /\ trigger[Target[d]] = "gone" => Place(d) = "void"
         /\ trigger[Target[d]] # "gone" =>
              /\ audit[d] = "none" => Place(d) = "new"
              /\ audit[d] # "none" =>
                   /\ d \in DOMAIN failed => Place(d) = "failed"
                   /\ d \notin DOMAIN failed /\ d \in Pending => Place(d) = "waiting"
                   /\ d \notin DOMAIN failed /\ d \notin Pending => Place(d) = "settled"
         /\ Place(d) # "waiting" => Tries(d) = 0
         /\ Place(d) = "waiting" => Tries(d) = IF d \in DOMAIN inbox THEN inbox[d] ELSE processing[d]
<1>1. CASE trigger[Target[d]] = "gone"
  BY <1>1 DEF Place, Tries
<1>2. CASE trigger[Target[d]] # "gone" /\ audit[d] = "none"
  BY <1>2 DEF Place, Tries
<1>3. CASE trigger[Target[d]] # "gone" /\ audit[d] # "none" /\ d \in DOMAIN failed
  BY <1>3 DEF Place, Tries
<1>4. CASE trigger[Target[d]] # "gone" /\ audit[d] # "none" /\ d \notin DOMAIN failed /\ d \in Pending
  BY <1>4 DEF Place, Tries
<1>5. CASE trigger[Target[d]] # "gone" /\ audit[d] # "none" /\ d \notin DOMAIN failed /\ d \notin Pending
  BY <1>5 DEF Place, Tries
<1> QED
  BY <1>1, <1>2, <1>3, <1>4, <1>5

\* Before the first message, the queue is new.
LEMMA InitQueue == Init => Queue!Init
<1> SUFFICES ASSUME Init PROVE Queue!Init
  OBVIOUS
<1>1. ASSUME NEW d \in Delivery PROVE Place(d) = "new" /\ Tries(d) = 0
  <2>1. trigger[Target[d]] = "none" /\ audit[d] = "none"
    BY LocalTriggersAssumption DEF Init, LocalTriggersAssumption
  <2> QED
    BY <2>1, PlaceIs
<1> QED
  BY <1>1 DEF Init, Queue!Init

\* A step DeliveryQueue does not see.
LEMMA StillQueue ==
  ASSUME \A d \in Delivery : Same(d), Serving' = Serving,
         UNCHANGED <<trigger, turns, ended>>
  PROVE  UNCHANGED Queue!vars
<1>1. [d \in Delivery |-> Place(d)]' = [d \in Delivery |-> Place(d)]
  BY DEF Same
<1>2. [d \in Delivery |-> Tries(d)]' = [d \in Delivery |-> Tries(d)]
  BY DEF Same
<1> QED
  BY <1>1, <1>2 DEF Serving, Queue!vars

\* The messages of D are put back, seen one by one.
LEMMA PutBackQueue ==
  ASSUME NEW D \in SUBSET Delivery, \A d \in D : Place(d) = "waiting",
         \A d \in Delivery \ D : Same(d),
         \A d \in D : IF Tries(d) + 1 >= MaxAttempts
                      THEN Place(d)' = "failed" /\ Tries(d)' = 0
                      ELSE Place(d)' = Place(d) /\ Tries(d)' = Tries(d) + 1,
         Serving' = {}, UNCHANGED <<trigger, turns, ended>>
  PROVE  Queue!Next
<1> DEFINE place == [d \in Delivery |-> Place(d)]
           tries == [d \in Delivery |-> Tries(d)]
           spent == {d \in D : tries[d] + 1 >= MaxAttempts}
<1>1. D \in SUBSET Queue!Waiting
  BY DEF Queue!Waiting
<1>2. place' = [d \in Delivery |-> IF d \in spent THEN "failed" ELSE place[d]]
  BY DEF Same
<1>3. tries' = [d \in Delivery |-> IF d \in spent THEN 0
                                    ELSE IF d \in D THEN tries[d] + 1 ELSE tries[d]]
  BY DEF Same
<1>4. Queue!PutBack(D)
  BY <1>2, <1>3 DEF Queue!PutBack, Queue!Moved, Serving
<1> QED
  BY <1>1, <1>4 DEF Queue!Next

\* Steps that leave every file where it is, in these directories or among them.
LEMMA QuietQueue ==
  ASSUME IInv,
         \A d \in Delivery :
           /\ trigger'[Target[d]] = "gone" <=> trigger[Target[d]] = "gone"
           /\ audit'[d] = "none" <=> audit[d] = "none"
           /\ d \in DOMAIN failed' <=> d \in DOMAIN failed
           /\ d \in Pending' <=> d \in Pending
           /\ d \in Pending =>
                (IF d \in DOMAIN inbox' THEN inbox'[d] ELSE processing'[d])
                  = IF d \in DOMAIN inbox THEN inbox[d] ELSE processing[d]
  PROVE  \A d \in Delivery : Same(d)
<1> SUFFICES ASSUME NEW d \in Delivery PROVE Same(d)
  OBVIOUS
<1>1. Place(d)' = Place(d)
  BY DEF Place
<1>2. Place(d) = "waiting" => d \in Pending
  BY PlaceIs
<1> QED
  BY <1>1, <1>2 DEF Same, Tries

\* A step that moves no file DeliveryQueue tells apart and stops the task.
LEMMA StopsQueue ==
  ASSUME \A d \in Delivery : Same(d), Serving' = {}, UNCHANGED <<trigger, turns, ended>>
  PROVE  Queue!Next
BY PutBackQueue

\* A step that moves no file and starts no turn is a stutter.
LEMMA QuietStepQueue ==
  ASSUME IInv, Sleep \/ Wake \/ BatchDone \/ Crash \/ UNCHANGED vars \/ (Shutdown /\ pc = "asleep")
  PROVE  Queue!Next \/ UNCHANGED Queue!vars
<1>1. UNCHANGED <<trigger, inbox, processing, failed, audit, turns, ended>>
  BY DEF Sleep, Wake, BatchDone, Crash, Shutdown, vars, dirs, history
<1>2. \A d \in Delivery : Same(d)
  BY <1>1, QuietQueue DEF Pending
<1>3. Serving' = Serving \/ Serving' = {}
  BY SameCur DEF Serving, Sleep, Wake, BatchDone, Crash, Shutdown, Down, vars
<1> QED
  BY <1>1, <1>2, <1>3, StillQueue, StopsQueue

\* A trigger is created, enabled or disabled;
LEMMA CreateQueue ==
  ASSUME IInv, NEW t \in Trigger, Create(t) \/ \E enabled \in {"on", "off"} : Enable(t, enabled)
  PROVE  Queue!Next
<1>1. /\ UNCHANGED <<inbox, processing, failed, audit, turns, ended, pc, batch>>
      /\ \A s \in Trigger : trigger'[s] = "gone" <=> trigger[s] = "gone"
  BY DEF Create, Enable, dirs, history, IInv, TypeOK
<1>2. \A d \in Delivery : Same(d)
  BY <1>1, QuietQueue, LocalTriggersAssumption DEF Pending, LocalTriggersAssumption
<1>3. Serving' = Serving
  BY <1>1, SameCur DEF Serving
<1>4. /\ [d \in Delivery |-> Place(d)]' = [d \in Delivery |-> Place(d)]
      /\ [d \in Delivery |-> Tries(d)]' = [d \in Delivery |-> Tries(d)]
  BY <1>2 DEF Same
<1>5. CASE Create(t)
  BY <1>1, <1>3, <1>4, <1>5 DEF Create, Queue!Create, Queue!Next, Serving
<1>6. CASE \E enabled \in {"on", "off"} : Enable(t, enabled)
  <2>1. Queue!Switch(t)
    BY <1>1, <1>3, <1>4, <1>6 DEF Enable, Queue!Switch, Serving
  <2> QED
    BY <2>1 DEF Queue!Next
<1> QED
  BY <1>5, <1>6

\* A new message is accepted.
LEMMA EnqueueQueue ==
  ASSUME IInv, NEW e \in Delivery, Enqueue(e) \/ CrashInEnqueue(e)
  PROVE  Queue!Next
<1>1. inbox' = Written(inbox, [x \in {e} |-> 0])
  BY DEF Enqueue, CrashInEnqueue, Accepted
<1>2. /\ DOMAIN inbox' = DOMAIN inbox \cup {e} /\ inbox'[e] = 0
      /\ \A d \in DOMAIN inbox \ {e} : inbox'[d] = inbox[d]
  BY <1>1 DEF Written
<1>3. /\ audit[e] = "none" /\ trigger[Target[e]] = "on"
      /\ audit'[e] # "none" /\ \A d \in Delivery \ {e} : audit'[d] = audit[d]
      /\ UNCHANGED <<trigger, processing, failed, pc, batch, turns, ended>>
  BY DEF Enqueue, CrashInEnqueue, Accepted, Recorded, IInv, TypeOK
<1>4. e \notin Pending \cup DOMAIN failed
  BY <1>3 DEF IInv, Fits
<1>5. ASSUME NEW d \in Delivery, d # e PROVE Same(d)
  BY <1>2, <1>3, <1>5 DEF Same, Place, Tries, Pending
<1>6. Place(e) = "new" /\ Tries(e) = 0 /\ Place(e)' = "waiting" /\ Tries(e)' = 0
  BY <1>2, <1>3, <1>4 DEF Place, Tries, Pending
<1>7. Serving' = Serving
  BY <1>3, SameCur DEF Serving
<1>8. /\ [d \in Delivery |-> Place(d)]' =
           [d \in Delivery |-> IF d \in {e} THEN "waiting" ELSE [x \in Delivery |-> Place(x)][d]]
      /\ [d \in Delivery |-> Tries(d)]' = [d \in Delivery |-> Tries(d)]
  BY <1>5, <1>6 DEF Same
<1>9. Queue!Accept(e)
  BY <1>3, <1>6, <1>7, <1>8 DEF Queue!Accept, Queue!Moved, Serving
<1> QED
  BY <1>9 DEF Queue!Next

\* The messages of a deleted trigger are void.
LEMMA DeleteQueue ==
  ASSUME IInv, NEW t \in Trigger, Delete(t) \/ CrashInDelete(t)
  PROVE  Queue!Next
<1>1. PICK c \in 0..3 : Deletion(t, c)
  BY DEF Delete, CrashInDelete
<1>2. /\ Shrunk /\ trigger[t] \in {"on", "off"} /\ trigger' = [trigger EXCEPT ![t] = "gone"]
      /\ UNCHANGED <<audit, turns, ended>>
  BY <1>1, DeletionFacts DEF Deletion
<1>3. Serving' \in {Serving, {}}
  BY SameCur DEF Delete, CrashInDelete, Down, Serving
<1>4. ASSUME NEW d \in Delivery
      PROVE  /\ d \in Queue!Of(t) => Place(d)' = "void" /\ Tries(d)' = 0
             /\ d \notin Queue!Of(t) => Same(d)
  <2>1. Target[d] \in Trigger /\ (d \in Queue!Of(t) <=> Target[d] = t)
    BY LocalTriggersAssumption DEF LocalTriggersAssumption, Queue!Of
  <2>2. trigger'[Target[d]] = IF Target[d] = t THEN "gone" ELSE trigger[Target[d]]
    BY <1>2, <2>1 DEF IInv, TypeOK
  <2>3. CASE trigger'[Target[d]] = "gone"
    BY <2>1, <2>2, <2>3 DEF Same, Place, Tries
  <2>4. CASE trigger'[Target[d]] # "gone"
    <3>1. /\ d \in DOMAIN inbox <=> d \in DOMAIN inbox'
          /\ d \in DOMAIN processing <=> d \in DOMAIN processing'
          /\ d \in DOMAIN failed <=> d \in DOMAIN failed'
          /\ d \in DOMAIN inbox => inbox'[d] = inbox[d]
          /\ d \in DOMAIN processing => processing'[d] = processing[d]
      BY <1>2, <2>4 DEF Shrunk
    <3> QED
      BY <1>2, <2>1, <2>2, <2>4, <3>1 DEF Same, Place, Tries, Pending
  <2> QED
    BY <2>3, <2>4
<1>5. /\ [d \in Delivery |-> Place(d)]' =
           [d \in Delivery |-> IF d \in Queue!Of(t) THEN "void" ELSE [x \in Delivery |-> Place(x)][d]]
      /\ [d \in Delivery |-> Tries(d)]' =
           [d \in Delivery |-> IF d \in Queue!Of(t) THEN 0 ELSE [x \in Delivery |-> Tries(x)][d]]
  BY <1>4 DEF Same
<1>6. Queue!Delete(t)
  BY <1>2, <1>3, <1>5 DEF Queue!Delete, Queue!Moved, Queue!Reset, Queue!MayStop, Serving
<1> QED
  BY <1>6 DEF Queue!Next

\* A claim is nothing the queue sees.
LEMMA ClaimQueue ==
  ASSUME IInv, Claim \/ CrashInClaim
  PROVE  UNCHANGED Queue!vars
<1>1. PICK D \in SUBSET DOMAIN inbox : Claimed(D)
  BY DEF Claim, CrashInClaim, FirstNames
<1>2. /\ DOMAIN inbox' = DOMAIN inbox \ D
      /\ \A d \in DOMAIN inbox \ D : inbox'[d] = inbox[d]
      /\ DOMAIN processing' = DOMAIN processing \cup D
      /\ \A d \in D : processing'[d] = inbox[d]
  BY <1>1, ClaimedFacts DEF IInv
<1>3. UNCHANGED <<trigger, failed, audit, turns, ended>> /\ pc = "claim" /\ pc' # "turn"
  BY <1>1 DEF Claimed, Claim, CrashInClaim, Down
<1>4. DOMAIN processing = {}
  BY <1>3 DEF IInv, LoopFits
<1>5. \A d \in Delivery : Same(d)
  BY <1>1, <1>2, <1>3, <1>4, QuietQueue DEF Pending
<1>6. Serving' = Serving
  BY <1>3 DEF Serving
<1> QED
  BY <1>3, <1>5, <1>6, StillQueue

\* A submission serves a waiting message.
LEMMA SubmitQueue ==
  ASSUME IInv, Submit
  PROVE  Queue!Next
<1>1. /\ pc = "next" /\ pc' = "turn" /\ trigger[Target[cur]] = "on" /\ DOMAIN batch # {}
      /\ audit' = [audit EXCEPT ![cur] = "processing"]
      /\ turns' = [turns EXCEPT ![cur] = @ + 1]
      /\ UNCHANGED <<trigger, inbox, processing, failed, batch, ended>>
  BY DEF Submit, Current, Recorded, dirs
<1>2. cur \in DOMAIN batch /\ cur \in Delivery /\ cur' = cur
  BY <1>1, CurInBatch, SameCur DEF IInv
<1>3. /\ cur \in DOMAIN processing /\ processing[cur] = batch[cur] /\ turns[cur] <= batch[cur]
      /\ cur \notin DOMAIN inbox /\ cur \notin DOMAIN failed /\ audit[cur] # "none"
  BY <1>1, <1>2 DEF IInv, Fits, InTurn
<1>4. Place(cur) = "waiting" /\ Tries(cur) = batch[cur]
  BY <1>1, <1>3 DEF Place, Tries, Pending
<1>5. \A d \in Delivery : audit'[d] = "none" <=> audit[d] = "none"
  BY <1>1, <1>3 DEF IInv, TypeOK
<1>6. \A d \in Delivery : Same(d)
  BY <1>1, <1>5, QuietQueue DEF Pending
<1>7. /\ [d \in Delivery |-> Place(d)]' = [d \in Delivery |-> Place(d)]
      /\ [d \in Delivery |-> Tries(d)]' = [d \in Delivery |-> Tries(d)]
  BY <1>6 DEF Same
<1>8. Serving = {} /\ Serving' = {cur}
  BY <1>1, <1>2 DEF Serving
<1>9. Queue!Serve(cur)
  BY <1>1, <1>2, <1>3, <1>4, <1>7, <1>8 DEF Queue!Serve, Queue!Waiting, Serving
<1> QED
  BY <1>2, <1>9 DEF Queue!Next

\* The end of a turn is one of the queue.
LEMMA TurnEndsQueue ==
  ASSUME IInv, NEW outcome \in {"ok", "error"}, TurnEnds(outcome)
  PROVE  Queue!Next
<1>1. /\ pc = "turn" /\ pc' = outcome /\ ended' = ended \cup {cur} /\ DOMAIN batch # {}
      /\ UNCHANGED <<trigger, inbox, processing, failed, audit, turns>>
  BY DEF TurnEnds, dirs, IInv, LoopFits
<1>2. cur \in Delivery
  BY <1>1, CurInBatch DEF IInv
<1>3. \A d \in Delivery : Same(d)
  BY <1>1, QuietQueue DEF Pending
<1>4. /\ [d \in Delivery |-> Place(d)]' = [d \in Delivery |-> Place(d)]
      /\ [d \in Delivery |-> Tries(d)]' = [d \in Delivery |-> Tries(d)]
  BY <1>3 DEF Same
<1>5. Serving = {cur} /\ Serving' = {}
  BY <1>1 DEF Serving
<1>6. Queue!End(cur)
  BY <1>1, <1>4, <1>5 DEF Queue!End, Serving
<1> QED
  BY <1>2, <1>6 DEF Queue!Next

\* A message whose trigger is gone has no place to leave.
LEMMA LeaveQueue ==
  ASSUME IInv, Drop \/ Settle
  PROVE  Queue!Next \/ UNCHANGED Queue!vars
<1>1. /\ DOMAIN batch # {} /\ Complete /\ Handled
      /\ UNCHANGED <<trigger, inbox, failed, turns, ended>>
      /\ pc # "turn"
      /\ cur \in ended \/ trigger[Target[cur]] # "on"
      /\ \E status \in {"ok", "error", audit[cur]} : audit' = [audit EXCEPT ![cur] = status]
  BY DEF Drop, Settle, Current, Noted, Recorded, Unrecorded, IInv, LoopFits
<1>2. /\ pc' = "next" /\ DOMAIN processing' = DOMAIN processing \ {cur}
      /\ \A d \in DOMAIN processing \ {cur} : processing'[d] = processing[d]
  BY <1>1, CompleteFacts DEF IInv
<1>3. PICK c \in Delivery : c = cur /\ c \in DOMAIN batch
  BY <1>1, CurInBatch DEF IInv
<1>4. /\ c \notin DOMAIN inbox /\ c \notin DOMAIN failed /\ audit[c] # "none"
      /\ trigger[Target[c]] # "gone" => c \in DOMAIN processing
  BY <1>3 DEF IInv, Fits
<1>5. /\ audit'[c] # "none"
      /\ \A d \in Delivery \ {c} : audit'[d] = audit[d]
  BY <1>1, <1>3, <1>4 DEF IInv, TypeOK
<1>6. ASSUME NEW d \in Delivery, d # c PROVE Same(d)
  BY <1>1, <1>2, <1>3, <1>5, <1>6 DEF Same, Place, Tries, Pending
<1>7. Serving = {} /\ Serving' = {}
  BY <1>1, <1>2 DEF Serving
<1>8. CASE trigger[Target[c]] = "gone"
  <2>1. Same(c)
    BY <1>1, <1>8 DEF Same, Place, Tries
  <2> QED
    BY <1>1, <1>6, <1>7, <2>1, StillQueue
<1>9. CASE trigger[Target[c]] # "gone"
  <2>1. Place(c) = "waiting"
    BY <1>4, <1>9 DEF Place, Pending
  <2>2. Place(c)' = "settled" /\ Tries(c)' = 0
    BY <1>1, <1>2, <1>3, <1>4, <1>5, <1>9 DEF Place, Tries, Pending
  <2>3. /\ [d \in Delivery |-> Place(d)]' =
             [d \in Delivery |-> IF d \in {c} THEN "settled" ELSE [x \in Delivery |-> Place(x)][d]]
        /\ [d \in Delivery |-> Tries(d)]' =
             [d \in Delivery |-> IF d \in {c} THEN 0 ELSE [x \in Delivery |-> Tries(x)][d]]
    BY <1>6, <2>2 DEF Same
  <2>4. Queue!Settle(c)
    BY <1>1, <1>3, <1>7, <2>1, <2>3
       DEF Queue!Settle, Queue!Waiting, Queue!Moved, Queue!Reset, Serving
  <2> QED
    BY <1>3, <2>4 DEF Queue!Next
<1> QED
  BY <1>8, <1>9

\* The delivery in progress is put back, once, if its trigger is still there.
LEMMA GiveBackQueue ==
  ASSUME IInv, Fails \/ CrashInRetry \/ (Shutdown /\ pc # "asleep")
  PROVE  Queue!Next
<1>1. /\ DOMAIN batch # {} /\ pc' \in {"down", "next"}
      /\ UNCHANGED <<trigger, turns, ended>>
      /\ \/ audit' = audit
         \/ \E status \in {audit[cur], "retrying", "interrupted", "error", "ok"} :
              audit' = [audit EXCEPT ![cur] = status]
  BY DEF Fails, CrashInRetry, Shutdown, Awaits, Current, Down, Handled, Recorded, Unrecorded,
         IInv, LoopFits
<1>2. PICK kept : Retry({cur}, batch, kept)
  BY DEF Fails, CrashInRetry, Shutdown
<1>3. PICK c \in Delivery :
      /\ c = cur /\ c \in DOMAIN batch
      /\ \/ /\ batch[c] + 1 < MaxAttempts
            /\ c \in DOMAIN inbox' /\ inbox'[c] = batch[c] + 1
            /\ c \notin DOMAIN failed'
         \/ /\ batch[c] + 1 >= MaxAttempts
            /\ c \in DOMAIN failed' /\ c \notin DOMAIN inbox'
      /\ \A d \in Delivery \ {c} :
           /\ d \in DOMAIN inbox' <=> d \in DOMAIN inbox
           /\ d \in DOMAIN inbox => inbox'[d] = inbox[d]
           /\ d \in DOMAIN failed' <=> d \in DOMAIN failed
           /\ d \in DOMAIN processing' <=> d \in DOMAIN processing
           /\ d \in DOMAIN processing => processing'[d] = processing[d]
  BY <1>1, <1>2, GiveBackFacts
<1>4. /\ audit[c] # "none" /\ audit'[c] # "none"
      /\ \A d \in Delivery \ {c} : audit'[d] = audit[d]
  <2>1. audit[c] # "none"
    BY <1>3 DEF IInv, Fits
  <2> QED
    BY <1>1, <1>3, <2>1 DEF IInv, TypeOK
<1>5. ASSUME NEW d \in Delivery, d # c PROVE Same(d)
  BY <1>1, <1>3, <1>4, <1>5 DEF Same, Place, Tries, Pending
<1>6. Serving' = {}
  BY <1>1 DEF Serving
<1>7. CASE trigger[Target[c]] = "gone"
  <2>1. Same(c)
    BY <1>1, <1>7 DEF Same, Place, Tries
  <2> QED
    BY <1>1, <1>5, <1>6, <2>1, StopsQueue
<1>8. CASE trigger[Target[c]] # "gone"
  <2>1. /\ c \in DOMAIN processing /\ processing[c] = batch[c]
        /\ c \notin DOMAIN inbox /\ c \notin DOMAIN failed
    BY <1>3, <1>8 DEF IInv, Fits
  <2>2. Place(c) = "waiting" /\ Tries(c) = batch[c]
    BY <1>4, <1>8, <2>1 DEF Place, Tries, Pending
  <2>3. batch[c] \in Nat /\ MaxAttempts \in Nat
    BY <1>3, Numbers DEF IInv
  <2>4. /\ {c} \in SUBSET Delivery /\ \A d \in {c} : Place(d) = "waiting"
        /\ \A d \in Delivery \ {c} : Same(d)
        /\ Serving' = {} /\ UNCHANGED <<trigger, turns, ended>>
    BY <1>1, <1>5, <1>6, <2>2
  <2>5. CASE batch[c] + 1 < MaxAttempts
    <3>1. Place(c)' = "waiting" /\ Tries(c)' = batch[c] + 1
      BY <1>1, <1>3, <1>4, <1>8, <2>3, <2>5 DEF Place, Tries, Pending
    <3>2. \A d \in {c} : IF Tries(d) + 1 >= MaxAttempts
                          THEN Place(d)' = "failed" /\ Tries(d)' = 0
                          ELSE Place(d)' = Place(d) /\ Tries(d)' = Tries(d) + 1
      BY <2>2, <2>3, <2>5, <3>1
    <3> QED
      BY <2>4, <3>2, PutBackQueue, Zenon
  <2>6. CASE batch[c] + 1 >= MaxAttempts
    <3>1. Place(c)' = "failed" /\ Tries(c)' = 0
      BY <1>1, <1>3, <1>4, <1>8, <2>3, <2>6 DEF Place, Tries
    <3>2. \A d \in {c} : IF Tries(d) + 1 >= MaxAttempts
                          THEN Place(d)' = "failed" /\ Tries(d)' = 0
                          ELSE Place(d)' = Place(d) /\ Tries(d)' = Tries(d) + 1
      BY <2>2, <2>3, <2>6, <3>1
    <3> QED
      BY <2>4, <3>2, PutBackQueue, Zenon
  <2> QED
    BY <2>3, <2>5, <2>6
<1> QED
  BY <1>7, <1>8

\* A final record whose file is still there is nothing the queue sees.
LEMMA RecordQueue ==
  ASSUME IInv, CrashBeforeUnlink
  PROVE  Queue!Next
<1>1. /\ DOMAIN batch # {}
      /\ \E status \in {"ok", "error"} : audit' = [audit EXCEPT ![cur] = status]
      /\ UNCHANGED <<trigger, inbox, processing, failed, turns, ended>>
  BY DEF CrashBeforeUnlink, Current, Recorded, dirs, IInv, LoopFits
<1>2. cur \in Delivery /\ audit[cur] # "none"
  BY <1>1, CurInBatch DEF IInv, Fits
<1>3. \A d \in Delivery : audit'[d] = "none" <=> audit[d] = "none"
  BY <1>1, <1>2 DEF IInv, TypeOK
<1>4. \A d \in Delivery : Same(d)
  BY <1>1, <1>3, QuietQueue DEF Pending
<1>5. Serving' = {}
  BY DEF CrashBeforeUnlink, Down, Serving
<1> QED
  BY <1>1, <1>4, <1>5, StopsQueue

\* The recovery puts back what waits in processing/ alone; a second copy of what
\* was put back before the crash changes nothing.
LEMMA RecoverQueue ==
  ASSUME IInv, Start \/ CrashInStart
  PROVE  Queue!Next
<1>1. /\ pc = "down" /\ pc' \in {"down", "claim"}
      /\ UNCHANGED <<trigger, audit, turns, ended>>
  BY DEF Start, CrashInStart, history
<1>2. PICK D \in SUBSET DOMAIN processing : \E kept : Retry(D, processing, kept)
  BY DEF Start, CrashInStart, FirstNames
<1>3. PICK kept : Retry(D, processing, kept)
  BY <1>2
<1>4. Retried(D, processing, kept)
  <2>1. processing \in Files /\ TypeOK
    BY DEF IInv, TypeOK
  <2>2. \A d \in D : processing[d] < MaxAttempts
    BY OfFiles, <2>1 DEF IInv, Fits
  <2> QED
    BY <1>3, <2>1, <2>2, RetryFacts
<1> DEFINE again == {d \in D : processing[d] + 1 < MaxAttempts}
           B == {d \in D : Place(d) = "waiting" /\ d \notin DOMAIN inbox}
<1>5. /\ DOMAIN inbox' = DOMAIN inbox \cup again
      /\ \A d \in again : inbox'[d] = processing[d] + 1
      /\ \A d \in DOMAIN inbox \ again : inbox'[d] = inbox[d]
      /\ DOMAIN failed' = DOMAIN failed \cup (D \ again)
      /\ DOMAIN processing' = DOMAIN processing \ (D \ kept)
      /\ \A d \in DOMAIN processing \ (D \ kept) : processing'[d] = processing[d]
  BY <1>4 DEF Retried
<1>6. Serving' = {}
  BY <1>1 DEF Serving
<1>7. D \in SUBSET Delivery
  BY Numbers DEF IInv
<1>8. ASSUME NEW d \in Delivery
      PROVE  /\ MaxAttempts \in Nat
             /\ d \in DOMAIN processing => processing[d] \in Nat
             /\ d \in D => \/ d \in again /\ processing[d] + 1 < MaxAttempts
                           \/ d \notin again /\ processing[d] + 1 >= MaxAttempts
             /\ d \in again => d \in D
             /\ d \in DOMAIN processing =>
                  /\ d \in DOMAIN inbox => inbox[d] = processing[d] + 1 /\ inbox[d] < MaxAttempts
                  /\ d \in DOMAIN failed => processing[d] + 1 >= MaxAttempts
                  /\ audit[d] # "none"
             /\ d \in DOMAIN inbox => d \notin DOMAIN failed
  <2>1. MaxAttempts \in Nat /\ (d \in DOMAIN processing => processing[d] \in Nat)
    BY Numbers DEF IInv
  <2> QED
    BY <2>1 DEF IInv, Fits, Pending
<1>9. ASSUME NEW d \in Delivery \ B PROVE Same(d)
  <2>1. CASE d \notin D
    <3>1. /\ d \in DOMAIN inbox' <=> d \in DOMAIN inbox
          /\ d \in DOMAIN inbox => inbox'[d] = inbox[d]
          /\ d \in DOMAIN failed' <=> d \in DOMAIN failed
          /\ d \in DOMAIN processing' <=> d \in DOMAIN processing
          /\ d \in DOMAIN processing => processing'[d] = processing[d]
      BY <1>5, <1>8, <2>1
    <3> QED
      BY <1>1, <3>1 DEF Same, Place, Tries, Pending
  <2>2. CASE d \in D /\ d \in DOMAIN inbox
    <3>1. /\ d \in DOMAIN inbox' /\ inbox'[d] = inbox[d]
          /\ d \notin DOMAIN failed /\ d \notin DOMAIN failed'
      BY <1>5, <1>8, <2>2
    <3> QED
      BY <1>1, <2>2, <3>1 DEF Same, Place, Tries, Pending
  <2>3. CASE d \in D /\ d \notin DOMAIN inbox
    <3>1. Place(d) # "waiting" /\ d \in DOMAIN processing /\ audit[d] # "none"
      BY <1>8, <2>3
    <3>2. trigger[Target[d]] = "gone" \/ d \in DOMAIN failed
      BY <3>1 DEF Place, Pending
    <3>3. Place(d)' = Place(d)
      BY <1>1, <1>5, <3>1, <3>2 DEF Place
    <3> QED
      BY <3>1, <3>3 DEF Same, Tries
  <2> QED
    BY <2>1, <2>2, <2>3
<1>10. ASSUME NEW d \in B
       PROVE  IF Tries(d) + 1 >= MaxAttempts
              THEN Place(d)' = "failed" /\ Tries(d)' = 0
              ELSE Place(d)' = Place(d) /\ Tries(d)' = Tries(d) + 1
  <2>1. /\ d \in D /\ d \in Delivery /\ Place(d) = "waiting" /\ d \notin DOMAIN inbox
        /\ d \in DOMAIN processing
    BY <1>7
  <2>2. /\ trigger[Target[d]] # "gone" /\ audit[d] # "none" /\ d \notin DOMAIN failed
        /\ Tries(d) = processing[d]
    BY <2>1 DEF Place, Tries
  <2>3. processing[d] \in Nat /\ MaxAttempts \in Nat
    BY <1>8, <2>1
  <2>4. CASE d \in again
    <3>1. /\ d \in DOMAIN inbox' /\ inbox'[d] = processing[d] + 1 /\ d \notin DOMAIN failed'
          /\ processing[d] + 1 < MaxAttempts
      BY <1>5, <1>8, <2>1, <2>2, <2>4
    <3>2. Place(d)' = "waiting" /\ Tries(d)' = processing[d] + 1
      BY <1>1, <2>2, <3>1 DEF Place, Tries, Pending
    <3> QED
      BY <2>1, <2>2, <2>3, <3>1, <3>2
  <2>5. CASE d \notin again
    <3>1. d \in DOMAIN failed' /\ processing[d] + 1 >= MaxAttempts
      BY <1>5, <1>8, <2>1, <2>5
    <3>2. Place(d)' = "failed" /\ Tries(d)' = 0
      BY <1>1, <2>2, <3>1 DEF Place, Tries
    <3> QED
      BY <2>2, <3>1, <3>2
  <2> QED
    BY <2>4, <2>5
<1>11. B \in SUBSET Delivery /\ \A d \in B : Place(d) = "waiting"
  BY <1>7
<1>12. \A d \in Delivery \ B : Same(d)
  BY <1>9
<1>13. \A d \in B : IF Tries(d) + 1 >= MaxAttempts
                    THEN Place(d)' = "failed" /\ Tries(d)' = 0
                    ELSE Place(d)' = Place(d) /\ Tries(d)' = Tries(d) + 1
  BY <1>10
<1> HIDE DEF B
<1> QED
  BY <1>1, <1>6, <1>11, <1>12, <1>13, PutBackQueue, Zenon

\* Every step is one of the queue.
LEMMA StepQueue == IInv /\ [Next]_vars => [Queue!Next]_(Queue!vars)
<1> SUFFICES ASSUME IInv, [Next]_vars PROVE Queue!Next \/ UNCHANGED Queue!vars
  OBVIOUS
<1>1. CASE Callers
  BY <1>1, CreateQueue, DeleteQueue, EnqueueQueue DEF Callers
<1>2. CASE Loop
  BY <1>2, QuietStepQueue, RecoverQueue, ClaimQueue, SubmitQueue, LeaveQueue DEF Loop
<1>3. CASE Agent
  BY <1>3, TurnEndsQueue DEF Agent
<1>4. CASE Faults
  BY <1>4, RecoverQueue, ClaimQueue, GiveBackQueue, RecordQueue, QuietStepQueue DEF Faults
<1>5. CASE UNCHANGED vars
  BY <1>5, QuietStepQueue
<1> QED
  BY <1>1, <1>2, <1>3, <1>4, <1>5 DEF Next

\* The files, the recovery and the crashes between two file operations keep what
\* DeliveryQueue promises: every accepted message waits until a turn that ended,
\* its trigger or the attempt limit settles it, and a repeated turn is paid for by
\* an attempt (LocalTriggerStore, run_local_trigger_queue).
THEOREM FilesImplementQueue == Spec => ImplementsQueue
BY InitQueue, AlwaysIInv, StepQueue, PTL DEF Spec, ImplementsQueue, Queue!Spec
=============================================================================
