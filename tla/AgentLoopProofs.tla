-------------------------- MODULE AgentLoopProofs --------------------------
(***************************************************************************)
(* Proofs about AgentLoop, for every set of messages and sessions and every *)
(* capacity.  The lock alone does not serialise the turns of a session: a   *)
(* task is named after its message, so the argument also needs that the     *)
(* queues a message travels through never hold it twice, and never hold a   *)
(* message whose task is alive (IInv).                                      *)
(*                                                                          *)
(* The second part says that every permit of the gate and every message is  *)
(* accounted for, and that submitters are answered.  It needs moreover that *)
(* a follow-up folded into a turn, and a command executed inline, are       *)
(* nowhere else, and that a message is open exactly while it is somewhere.  *)
(* On that rests, at the end, that every step of the dispatcher is a step   *)
(* of SessionService.                                                       *)
(***************************************************************************)
EXTENDS AgentLoop, QueueLemmas, FiniteSetTheorems

\* The tasks inside `async with lock`.
HasLock(m) == phase[m] \in InTurn \cup {"gating"}

\* q lists, once each, messages whose task stands at ph.
Lists(q, ph) == IsInjective(q) /\ \A m \in ToSet(q) : phase[m] = ph

LockHeld == \A m \in Message : HasLock(m) => owner[SessionOf[m]] = m

\* A task waits in the one queue its phase says.
TaskQueues ==
  /\ Lists(ready, "created")
  /\ Lists(gateQ, "gating")
  /\ \A s \in Session : Lists(waiters[s], "locking")
  /\ \A s \in Session : \A m \in ToSet(waiters[s]) : SessionOf[m] = s

BusQueue == Lists(inbound, "idle")

\* Follow-ups wait in the queue of a turn of their own session.
PendingQueues == \A t \in Message :
  /\ Lists(queue[t], "idle")
  /\ \A m \in ToSet(queue[t]) :
       m \notin ToSet(inbound) /\ m \notin Automation /\ SessionOf[m] = SessionOf[t]

DeferredQueues == \A s \in Session :
  /\ Lists(deferred[s], "idle")
  /\ \A m \in ToSet(deferred[s]) :
       m \notin ToSet(inbound) /\ m \in Automation /\ SessionOf[m] = s

\* m is in none of the places where messages wait for a turn.
Unqueued(m) ==
  /\ m \notin ToSet(inbound)
  /\ \A t \in Message : m \notin ToSet(queue[t])
  /\ \A s \in Session : m \notin ToSet(deferred[s])

\* A message nobody has sent yet is nowhere.
NothingUnsentMoves ==
  \A m \in Message : outcome[m] = "unsent" => phase[m] = "idle" /\ Unqueued(m)

\* A direct call has no pending queue and stays away from the gate.
DirectCalls ==
  /\ Direct \cap ToSet(gateQ) = {}
  /\ \A m \in Direct : queue[m] = <<>> /\ injected[m] = {}
  /\ \A s \in Session : registered[s] \notin Direct

\* What the runner has folded in came out of its queue.
FoldedFollowUps == \A t \in Message : injected[t] \cap Automation = {}

Placed ==
  /\ LockHeld
  /\ QueueOwnership
  /\ TaskQueues
  /\ BusQueue
  /\ PendingQueues
  /\ DeferredQueues
  /\ NothingUnsentMoves
  /\ FoldedFollowUps
  /\ DirectCalls

IInv == TypeOK /\ Placed

-----------------------------------------------------------------------------
(* Type correctness.                                                        *)

\* The empty state of Init is well typed.
LEMMA InitTyped == Init => TypeOK
BY ConstantsAssumption
   DEF Init, TypeOK, Phase, InTurn, Outcome, ConstantsAssumption, CommandText

\* The follow-ups a turn takes, and those it leaves, are messages.
LEMMA KeptTyped ==
  ASSUME TypeOK, NEW m \in Message
  PROVE  /\ Kept(m) \in Seq(Message)
         /\ Drained(m) \subseteq Message
         /\ ToSet(Kept(m)) \subseteq ToSet(queue[m])
         /\ Drained(m) \subseteq ToSet(queue[m])
         /\ IsInjective(queue[m]) => IsInjective(Kept(m))
<1>1. queue[m] \in Seq(Message) /\ Len(queue[m]) \in Nat
  BY LenProperties DEF TypeOK
<1>2. DrainLen(m) \in Nat /\ DrainLen(m) <= Len(queue[m])
  BY <1>1, ConstantsAssumption DEF DrainLen, ConstantsAssumption
<1>3. ToSet(queue[m]) \subseteq Message
  BY <1>1, QueueElements
<1>4. ToSet(SubSeq(queue[m], 1, DrainLen(m))) \subseteq ToSet(queue[m])
  BY <1>1, <1>2, SliceQueue
<1>5. LET r == SubSeq(queue[m], DrainLen(m) + 1, Len(queue[m])) IN
      /\ r \in Seq(Message)
      /\ ToSet(r) \subseteq ToSet(queue[m])
      /\ IsInjective(queue[m]) => IsInjective(r)
  <2>1. DrainLen(m) + 1 \in Nat \ {0} /\ Len(queue[m]) <= Len(queue[m])
    BY <1>1, <1>2
  <2> QED BY <1>1, <2>1, SliceQueue
<1> QED BY <1>1, <1>3, <1>4, <1>5 DEF Kept, Drained

\* The automation turn that goes back to the bus, and those that stay behind.
LEMMA DeferredTyped ==
  ASSUME TypeOK, NEW s \in Session
  PROVE  /\ NextDeferred(s) \in Seq(Message)
         /\ LaterDeferred(s) \in Seq(Message)
         /\ ToSet(NextDeferred(s)) \subseteq ToSet(deferred[s])
         /\ ToSet(LaterDeferred(s)) \subseteq ToSet(deferred[s])
         /\ IsInjective(NextDeferred(s))
         /\ IsInjective(deferred[s]) =>
              /\ IsInjective(LaterDeferred(s))
              /\ ToSet(NextDeferred(s)) \cap ToSet(LaterDeferred(s)) = {}
<1>1. deferred[s] \in Seq(Message)
  BY DEF TypeOK
<1>2. CASE deferred[s] = <<>>
  BY <1>1, <1>2, EmptyQueue DEF NextDeferred, LaterDeferred
<1>3. CASE deferred[s] # <<>>
  <2>1. NextDeferred(s) = <<Head(deferred[s])>> /\ LaterDeferred(s) = Tail(deferred[s])
    BY <1>3 DEF NextDeferred, LaterDeferred
  <2>2. Head(deferred[s]) \in Message
    BY <1>1, <1>3, TailQueue
  <2> QED BY <1>1, <1>3, <2>1, <2>2, TailQueue, SingleQueue
<1> QED BY <1>2, <1>3

\* What a message becomes is an outcome.
LEMMA SettleTyped ==
  ASSUME TypeOK, NEW F, NEW o \in Outcome, Settle(F, o)
  PROVE  outcome' \in [Message -> Outcome]
BY DEF TypeOK, Settle

\* Messages arrive.
LEMMA ArriveTyped ==
  ASSUME TypeOK, NEW m \in Message, Publish(m) \/ Submit(m)
  PROVE  TypeOK'
<1>1. Settle({m}, "open")
  BY DEF Publish, Submit
<1>2. outcome' \in [Message -> Outcome]
  BY <1>1, SettleTyped DEF Outcome
<1>3. inbound' \in Seq(Message)
  <2>1. Append(inbound, m) \in Seq(Message)
    BY AppendQueue DEF TypeOK
  <2> QED BY <2>1 DEF Publish, Submit
<1> QED BY <1>2, <1>3 DEF TypeOK, Publish, Submit, busVars, taskVars, lockVars, turnVars, goalVars

\* The tasks a command cancels and waits for.
LEMMA CancelTyped ==
  ASSUME TypeOK, NEW m \in Message, Cancel(SessionOf[m], m)
  PROVE  /\ active' \subseteq Message
         /\ cancelled' \subseteq Message
         /\ victims' \in [Message -> SUBSET Message]
<1>1. TasksOf(SessionOf[m]) \subseteq Message
  BY DEF TypeOK, TasksOf
<1> QED BY <1>1 DEF TypeOK, Cancel

\* run() takes one message and routes it.
LEMMA RunTyped ==
  ASSUME TypeOK, NEW m \in Message, Run(m)
  PROVE  TypeOK'
<1> USE DEF busVars, taskVars, lockVars, turnVars, goalVars
<1>1. SessionOf[m] \in Session /\ m # None
  BY ConstantsAssumption DEF ConstantsAssumption
<1>2. ASSUME Consumes(m) PROVE inbound' \in Seq(Message)
  BY <1>2, TailQueue DEF TypeOK, Consumes
<1>3. CASE RunPriority(m)
  <2>1. /\ active' \subseteq Message
        /\ cancelled' \subseteq Message
        /\ victims' \in [Message -> SUBSET Message]
    BY <1>3, CancelTyped DEF TypeOK, RunPriority
  <2> QED BY <1>2, <1>3, <2>1 DEF TypeOK, RunPriority
<1>4. CASE RunDefer(m)
  <2>1. deferred' \in [Session -> Seq(Message)]
    BY <1>1, <1>4, AppendQueue DEF TypeOK, RunDefer
  <2> QED BY <1>2, <1>4, <2>1 DEF TypeOK, RunDefer
<1>5. CASE RunInline(m)
  <2>1. /\ active' \subseteq Message
        /\ cancelled' \subseteq Message
        /\ victims' \in [Message -> SUBSET Message]
    BY <1>5, CancelTyped DEF TypeOK, RunInline
  <2> QED BY <1>2, <1>5, <2>1 DEF TypeOK, RunInline
<1>6. CASE RunInject(m)
  <2>1. queue' \in [Message -> Seq(Message)]
    BY <1>1, <1>6, AppendQueue DEF TypeOK, RunInject
  <2> QED BY <1>2, <1>6, <2>1 DEF TypeOK, RunInject
<1>7. CASE RunSpawn(m)
  <2>1. ready' \in Seq(Message)
    BY <1>7, AppendQueue DEF TypeOK, RunSpawn
  <2> QED BY <1>2, <1>7, <2>1 DEF TypeOK, RunSpawn, Phase
<1>8. CASE RunReply(m)
  <2>1. outcome' \in [Message -> Outcome]
    BY <1>8 DEF TypeOK, RunReply, Outcome
  <2>2. queue' \in [Message -> Seq(Message)] /\ registered' \in [Session -> Message \cup {None}]
    <3> DEFINE s == SessionOf[m]
               t == registered[s]
    <3>1. \/ /\ t \in Message
             /\ registered' = [registered EXCEPT ![s] = None]
             /\ queue' = [queue EXCEPT ![t] = <<>>]
          \/ registered' = registered /\ queue' = queue
      BY <1>1, <1>8 DEF TypeOK, RunReply
    <3>2. <<>> \in Seq(Message)
      BY EmptySeq
    <3>3. CASE registered' = registered /\ queue' = queue
      BY <3>3 DEF TypeOK
    <3>4. ASSUME t \in Message, registered' = [registered EXCEPT ![s] = None],
                 queue' = [queue EXCEPT ![t] = <<>>]
          PROVE  /\ queue' \in [Message -> Seq(Message)]
                 /\ registered' \in [Session -> Message \cup {None}]
      BY <3>2, <3>4 DEF TypeOK
    <3> QED BY <3>1, <3>3, <3>4
  <2> QED BY <1>8, <2>1, <2>2 DEF TypeOK, RunReply
<1> QED BY <1>3, <1>4, <1>5, <1>6, <1>7, <1>8 DEF Run

\* A task gets the session lock and, unless it is a direct call, the gate.
LEMMA TakeLockTyped ==
  ASSUME TypeOK, NEW m \in Message, TakeLock(m)
  PROVE  /\ phase' \in [Message -> Phase]
         /\ owner' \in [Session -> Message \cup {None}]
         /\ gateQ' \in Seq(Message)
         /\ permits' \in Nat
         /\ registered' \in [Session -> Message \cup {None}]
         /\ queue' \in [Message -> Seq(Message)]
         /\ untimed' \subseteq Message
<1>1. SessionOf[m] \in Session
  BY ConstantsAssumption DEF ConstantsAssumption
<1>2. <<>> \in Seq(Message) /\ Append(gateQ, m) \in Seq(Message)
  BY EmptySeq, AppendQueue DEF TypeOK
<1>3. permits' \in Nat /\ gateQ' \in Seq(Message)
  <2>1. permits' = permits \/ (permits > 0 /\ permits' = permits - 1)
    BY DEF TakeLock, GateIsFree, StartRunning
  <2>2. gateQ' = gateQ \/ gateQ' = Append(gateQ, m)
    BY DEF TakeLock, StartRunning
  <2>3. permits' \in Nat
    BY <2>1 DEF TypeOK
  <2> QED BY <1>2, <2>2, <2>3 DEF TypeOK
<1>4. ASSUME OpenTurn(m)
      PROVE  /\ phase' \in [Message -> Phase]
             /\ registered' \in [Session -> Message \cup {None}]
             /\ queue' \in [Message -> Seq(Message)]
             /\ untimed' \subseteq Message
  BY <1>1, <1>2, <1>4 DEF TypeOK, OpenTurn, Phase, InTurn, StartRunning
<1>5. owner' \in [Session -> Message \cup {None}]
  BY <1>1 DEF TypeOK, TakeLock, StartRunning
<1>6. CASE OpenTurn(m)
  BY <1>3, <1>4, <1>5, <1>6
<1>7. CASE ~OpenTurn(m)
  <2>1. /\ phase' = [phase EXCEPT ![m] = "running"] \/ phase' = [phase EXCEPT ![m] = "gating"]
        /\ registered' = registered /\ queue' = queue
        /\ untimed' \subseteq untimed \cup {m}
    BY <1>7 DEF TakeLock, StartRunning
  <2>2. phase' \in [Message -> Phase]
    BY <2>1 DEF TypeOK, Phase, InTurn
  <2> QED BY <1>3, <1>5, <2>1, <2>2 DEF TypeOK
<1> QED BY <1>6, <1>7

\* A task, or a direct call, reaches the lock.
LEMMA ReachLockTyped ==
  ASSUME TypeOK, NEW m \in Message, ReachLock(m)
  PROVE  /\ phase' \in [Message -> Phase]
         /\ owner' \in [Session -> Message \cup {None}]
         /\ waiters' \in [Session -> Seq(Message)]
         /\ gateQ' \in Seq(Message)
         /\ permits' \in Nat
         /\ registered' \in [Session -> Message \cup {None}]
         /\ queue' \in [Message -> Seq(Message)]
         /\ untimed' \subseteq Message
<1>1. SessionOf[m] \in Session
  BY ConstantsAssumption DEF ConstantsAssumption
<1>2. CASE TakeLock(m) /\ UNCHANGED waiters
  BY <1>2, TakeLockTyped DEF TypeOK
<1>3. CASE AwaitLock(m)
  <2>1. Append(waiters[SessionOf[m]], m) \in Seq(Message)
    BY <1>1, AppendQueue DEF TypeOK
  <2> QED BY <1>1, <1>3, <2>1 DEF TypeOK, AwaitLock, Phase
<1> QED BY <1>2, <1>3 DEF ReachLock

\* Tasks are admitted to their session.
LEMMA AdmitTyped ==
  ASSUME TypeOK, NEW m \in Message, CallDirect(m) \/ Admit(m)
  PROVE  TypeOK'
<1> USE DEF busVars, taskVars, lockVars, turnVars, goalVars
<1>1. SessionOf[m] \in Session
  BY ConstantsAssumption DEF ConstantsAssumption
<1>2. CASE CallDirect(m)
  <2>1. outcome' \in [Message -> Outcome]
    BY <1>2, SettleTyped DEF CallDirect, Outcome
  <2> QED BY <1>2, <2>1, ReachLockTyped DEF TypeOK, CallDirect
<1>3. CASE StartTask(m)
  <2>1. ready' \in Seq(Message)
    BY <1>3, TailQueue DEF TypeOK, StartTask
  <2> QED BY <1>3, <2>1, ReachLockTyped DEF TypeOK, StartTask
<1>4. CASE GrantLock(m)
  <2>1. waiters' \in [Session -> Seq(Message)]
    BY <1>1, <1>4, TailQueue DEF TypeOK, GrantLock
  <2> QED BY <1>4, <2>1, TakeLockTyped DEF TypeOK, GrantLock
<1>5. CASE GrantGate(m)
  <2>1. gateQ' \in Seq(Message)
    BY <1>5, TailQueue DEF TypeOK, GrantGate
  <2>2. queue' \in [Message -> Seq(Message)]
    BY <1>5, EmptySeq DEF TypeOK, GrantGate, OpenTurn, StartRunning
  <2>3. permits' \in Nat
    BY <1>5 DEF TypeOK, GrantGate
  <2>4. phase' \in [Message -> Phase]
    BY <1>5 DEF TypeOK, GrantGate, OpenTurn, Phase, InTurn, StartRunning
  <2>5. registered' \in [Session -> Message \cup {None}]
    BY <1>1, <1>5 DEF TypeOK, GrantGate, OpenTurn, StartRunning
  <2>6. untimed' \subseteq Message
    BY <1>5 DEF TypeOK, GrantGate, OpenTurn, StartRunning
  <2> QED BY <1>5, <2>1, <2>2, <2>3, <2>4, <2>5, <2>6 DEF TypeOK, GrantGate
<1> QED BY <1>2, <1>3, <1>4, <1>5 DEF Admit

\* The rounds of a goal are counted.
LEMMA SpendRoundTyped ==
  ASSUME TypeOK, NEW m \in Message, SpendRound(m)
  PROVE  rounds' \in [Session -> Nat]
<1>1. SessionOf[m] \in Session
  BY ConstantsAssumption DEF ConstantsAssumption
<1>2. rounds[SessionOf[m]] + 1 \in Nat
  BY <1>1 DEF TypeOK
<1> QED BY <1>2 DEF TypeOK, SpendRound

\* What a turn does until its slice ends.
LEMMA WorkTyped ==
  ASSUME TypeOK, NEW m \in Message,
         \/ Work(m) \/ Answer(m) \/ Exhaust(m) \/ Yield(m) \/ BlockOnPut(m)
         \/ NewCommand(m)
  PROVE  TypeOK'
<1> USE DEF busVars, taskVars, lockVars, turnVars, goalVars
<1>1. SessionOf[m] \in Session
  BY ConstantsAssumption DEF ConstantsAssumption
<1>2. Kept(m) \in Seq(Message) /\ Drained(m) \subseteq Message
  BY KeptTyped
<1>3. CASE Inject(m)
  BY <1>2, <1>3 DEF TypeOK, Inject
<1>4. CASE StartGoal(m)
  BY <1>1, <1>4 DEF TypeOK, StartGoal
<1>5. CASE EndGoal(m)
  BY <1>5 DEF TypeOK, EndGoal
<1>6. CASE Answer(m)
  BY <1>6 DEF TypeOK, Answer, Phase, InTurn
<1>7. CASE Exhaust(m) \/ Yield(m)
  <2>1. LastDrain(m, "closing") \/ LastDrain(m, "yielding")
    BY <1>7 DEF Exhaust, Yield
  <2>2. phase' \in [Message -> Phase]
    BY <2>1 DEF TypeOK, LastDrain, Phase, InTurn
  <2>3. queue' \in [Message -> Seq(Message)]
    BY <1>2, <2>1 DEF TypeOK, LastDrain
  <2>4. injected' \in [Message -> SUBSET Message]
    <3>1. injected[m] \cup Drained(m) \in SUBSET Message
      BY <1>2 DEF TypeOK
    <3>2. injected' = [injected EXCEPT ![m] = injected[m] \cup Drained(m)]
      BY <2>1 DEF LastDrain
    <3> QED BY <3>1, <3>2 DEF TypeOK
  <2> QED BY <2>1, <2>2, <2>3, <2>4 DEF TypeOK, LastDrain
<1>8. CASE BlockOnPut(m)
  <2>1. phase' \in [Message -> Phase]
    BY <1>8 DEF TypeOK, BlockOnPut, Phase, InTurn
  <2>2. rounds' \in [Session -> Nat]
    BY <1>8, SpendRoundTyped DEF BlockOnPut
  <2> QED BY <1>2, <1>8, <2>1, <2>2 DEF TypeOK, BlockOnPut
<1>9. CASE NewCommand(m)
  BY <1>9 DEF TypeOK, NewCommand, Cancel, TasksOf, Phase, InTurn
<1> QED BY <1>3, <1>4, <1>5, <1>6, <1>7, <1>8, <1>9 DEF Work

\* A dispatched turn leaves: lock, permit, leftovers and one deferred turn.
LEMMA LeaveTurnTyped ==
  ASSUME TypeOK, NEW m \in Message, NEW left \in Seq(Message), LeaveTurn(m, left)
  PROVE  /\ inbound' \in Seq(Message)
         /\ loop' = loop
         /\ ready' = ready
         /\ active' \subseteq Message
         /\ cancelled' \subseteq Message
         /\ phase' \in [Message -> Phase]
         /\ owner' \in [Session -> Message \cup {None}]
         /\ waiters' = waiters
         /\ gateQ' = gateQ
         /\ permits' \in Nat
         /\ registered' \in [Session -> Message \cup {None}]
         /\ queue' \in [Message -> Seq(Message)]
         /\ injected' \in [Message -> SUBSET Message]
         /\ cycles' \in [Message -> Nat]
         /\ untimed' \subseteq Message
         /\ deferred' \in [Session -> Seq(Message)]
<1>1. SessionOf[m] \in Session
  BY ConstantsAssumption DEF ConstantsAssumption
<1>2. /\ NextDeferred(SessionOf[m]) \in Seq(Message)
      /\ LaterDeferred(SessionOf[m]) \in Seq(Message)
  BY <1>1, DeferredTyped
<1>3. inbound' \in Seq(Message)
  <2>1. inbound \o left \in Seq(Message)
    BY ConcatQueue DEF TypeOK
  <2>2. inbound \o left \o NextDeferred(SessionOf[m]) \in Seq(Message)
    BY <1>2, <2>1, ConcatQueue
  <2> QED BY <2>2 DEF LeaveTurn
<1>4. queue' \in [Message -> Seq(Message)]
  BY EmptySeq DEF TypeOK, LeaveTurn
<1>5. permits' \in Nat
  BY DEF TypeOK, LeaveTurn
<1>6. phase' \in [Message -> Phase]
  BY DEF TypeOK, LeaveTurn, Phase
<1>7. owner' \in [Session -> Message \cup {None}] /\ registered' \in [Session -> Message \cup {None}]
  BY <1>1 DEF TypeOK, LeaveTurn
<1>8. injected' \in [Message -> SUBSET Message] /\ cycles' \in [Message -> Nat] /\ untimed' \subseteq Message
  BY DEF TypeOK, LeaveTurn
<1>9. deferred' \in [Session -> Seq(Message)]
  BY <1>1, <1>2 DEF TypeOK, LeaveTurn
<1> QED BY <1>3, <1>4, <1>5, <1>6, <1>7, <1>8, <1>9 DEF TypeOK, LeaveTurn

\* Either way a turn ends.
LEMMA EndTurnTyped ==
  ASSUME TypeOK, NEW m \in Message, EndTurn(m)
  PROVE  /\ inbound' \in Seq(Message)
         /\ loop' = loop
         /\ ready' = ready
         /\ active' \subseteq Message
         /\ cancelled' \subseteq Message
         /\ phase' \in [Message -> Phase]
         /\ owner' \in [Session -> Message \cup {None}]
         /\ waiters' = waiters
         /\ gateQ' = gateQ
         /\ permits' \in Nat
         /\ registered' \in [Session -> Message \cup {None}]
         /\ queue' \in [Message -> Seq(Message)]
         /\ injected' \in [Message -> SUBSET Message]
         /\ cycles' \in [Message -> Nat]
         /\ untimed' \subseteq Message
         /\ deferred' \in [Session -> Seq(Message)]
<1>1. SessionOf[m] \in Session
  BY ConstantsAssumption DEF ConstantsAssumption
<1>2. CASE ReturnDirect(m)
  BY <1>1, <1>2 DEF TypeOK, ReturnDirect, busVars, turnVars, Phase
<1>3. CASE LeaveTurn(m, queue[m])
  BY <1>3, LeaveTurnTyped DEF TypeOK
<1> QED BY <1>2, <1>3 DEF EndTurn

\* Turns end, answered or not.
LEMMA CloseTyped ==
  ASSUME TypeOK, NEW m \in Message,
         CloseTurn(m) \/ Fail(m) \/ ContinueGoal(m) \/ CancelTurn(m)
  PROVE  TypeOK'
<1> USE DEF goalVars
<1>1. SessionOf[m] \in Session /\ queue[m] \in Seq(Message)
  BY ConstantsAssumption DEF ConstantsAssumption, TypeOK
<1>2. CASE Finish(m)
  <2>1. outcome' \in [Message -> Outcome]
    BY <1>2, SettleTyped DEF Finish, Outcome
  <2>2. EndTurn(m)
    BY <1>2 DEF Finish
  <2> QED BY <1>2, <2>1, <2>2, EndTurnTyped DEF TypeOK, Finish, Complete
<1>3. CASE FinishNew(m)
  <2>1. outcome' \in [Message -> Outcome]
    BY <1>3, SettleTyped DEF FinishNew, Outcome
  <2>2. EndTurn(m)
    BY <1>3 DEF FinishNew
  <2> QED BY <1>3, <2>1, <2>2, EndTurnTyped DEF TypeOK, FinishNew, Complete
<1>4. CASE Fail(m)
  <2>1. outcome' \in [Message -> Outcome]
    BY <1>4, SettleTyped DEF Fail, Outcome
  <2>2. EndTurn(m)
    BY <1>4 DEF Fail
  <2> QED BY <1>4, <2>1, <2>2, EndTurnTyped DEF TypeOK, Fail, Complete
<1>5. CASE ContinueGoal(m)
  <2>1. outcome' \in [Message -> Outcome]
    BY <1>5, SettleTyped DEF ContinueGoal, Outcome
  <2>2. Append(queue[m], m) \in Seq(Message)
    BY <1>1, AppendQueue
  <2>3. LeaveTurn(m, Append(queue[m], m))
    BY <1>5 DEF ContinueGoal
  <2>4. rounds' \in [Session -> Nat]
    BY <1>5, SpendRoundTyped DEF ContinueGoal
  <2> QED BY <1>1, <1>5, <2>1, <2>2, <2>3, <2>4, LeaveTurnTyped
          DEF TypeOK, ContinueGoal, Complete
<1>6. CASE CancelTurn(m)
  <2>1. outcome' \in [Message -> Outcome]
    BY <1>6, SettleTyped DEF CancelTurn, Outcome
  <2>2. LeaveTurn(m, queue[m])
    BY <1>6 DEF CancelTurn
  <2> QED BY <1>1, <1>6, <2>1, <2>2, LeaveTurnTyped DEF TypeOK, CancelTurn, Complete
<1> QED BY <1>2, <1>3, <1>4, <1>5, <1>6 DEF CloseTurn

\* A task is cancelled before it has the lock and the gate.
LEMMA GiveUpTyped ==
  ASSUME TypeOK, NEW m \in Message,
         CancelUnstarted(m) \/ CancelAtLock(m) \/ CancelAtGate(m) \/ CancelDirect(m)
  PROVE  TypeOK'
<1> USE DEF busVars, taskVars, lockVars, turnVars, goalVars
<1>1. SessionOf[m] \in Session
  BY ConstantsAssumption DEF ConstantsAssumption
<1>2. outcome' \in [Message -> Outcome]
  <2>1. Settle({m}, "cancelled") \/ Settle({m}, "failed")
    BY DEF CancelUnstarted, CancelAtLock, CancelAtGate, CancelDirect, AbandonWait
  <2> QED BY <2>1, SettleTyped DEF Outcome
<1>3. ASSUME AbandonWait(m)
      PROVE  inbound' \in Seq(Message) /\ deferred' \in [Session -> Seq(Message)]
  <2>1. /\ NextDeferred(SessionOf[m]) \in Seq(Message)
        /\ LaterDeferred(SessionOf[m]) \in Seq(Message)
    BY <1>1, DeferredTyped
  <2>2. inbound \o NextDeferred(SessionOf[m]) \in Seq(Message)
    BY <2>1, ConcatQueue DEF TypeOK
  <2> QED BY <1>1, <1>3, <2>1, <2>2 DEF TypeOK, AbandonWait
<1>4. \A i \in DOMAIN waiters[SessionOf[m]] :
        RemoveAt(waiters[SessionOf[m]], i) \in Seq(Message)
  BY <1>1, RemoveQueue DEF TypeOK
<1>5. CASE CancelUnstarted(m)
  <2>1. ready' \in Seq(Message)
    BY <1>5, TailQueue DEF TypeOK, CancelUnstarted
  <2> QED BY <1>2, <1>5, <2>1 DEF TypeOK, CancelUnstarted, Phase
<1>6. CASE CancelAtLock(m)
  <2>1. AbandonWait(m)
    BY <1>6 DEF CancelAtLock
  <2>2. waiters' \in [Session -> Seq(Message)]
    BY <1>1, <1>4, <1>6 DEF TypeOK, CancelAtLock
  <2> QED BY <1>2, <1>3, <1>6, <2>1, <2>2 DEF TypeOK, CancelAtLock, AbandonWait, Phase
<1>7. CASE CancelAtGate(m)
  <2>1. AbandonWait(m)
    BY <1>7 DEF CancelAtGate
  <2>2. gateQ' \in Seq(Message)
    BY <1>7, RemoveQueue DEF TypeOK, CancelAtGate
  <2>3. phase' \in [Message -> Phase]
    BY <2>1 DEF TypeOK, AbandonWait, Phase
  <2>4. owner' \in [Session -> Message \cup {None}]
    BY <1>1, <1>7 DEF TypeOK, CancelAtGate
  <2> QED BY <1>2, <1>3, <1>7, <2>1, <2>2, <2>3, <2>4 DEF TypeOK, CancelAtGate, AbandonWait
<1>8. CASE CancelDirect(m)
  <2>1. waiters' \in [Session -> Seq(Message)]
    BY <1>1, <1>4, <1>8 DEF TypeOK, CancelDirect
  <2> QED BY <1>2, <1>8, <2>1 DEF TypeOK, CancelDirect, Phase
<1> QED BY <1>5, <1>6, <1>7, <1>8

\* One step, whatever it is, preserves the types.
LEMMA NextTyped == TypeOK /\ [Next]_vars => TypeOK'
<1> SUFFICES ASSUME TypeOK, [Next]_vars PROVE TypeOK'
  OBVIOUS
<1>1. CASE Next
  <2> PICK m \in Message :
        \/ Arrive(m) \/ Run(m) \/ Admit(m) \/ Work(m) \/ EndSlice(m) \/ CloseTurn(m)
        \/ Fail(m) \/ Deliver(m) \/ CancelDirect(m)
    BY <1>1 DEF Next
  <2> QED BY ArriveTyped, RunTyped, AdmitTyped, WorkTyped, CloseTyped, GiveUpTyped
          DEF Arrive, EndSlice, Deliver
<1>2. CASE UNCHANGED vars
  BY <1>2 DEF TypeOK, vars, busVars, taskVars, lockVars, turnVars, goalVars
<1> QED BY <1>1, <1>2

\* The dispatcher's state always has the shape the code relies on: in
\* particular the gate never gives out more permits than it has.
THEOREM TypeCorrect == Spec => []TypeOK
BY InitTyped, NextTyped, PTL DEF Spec

-----------------------------------------------------------------------------
(* The inductive invariant.                                                 *)

\* Nothing has been sent, nothing is queued, no task is alive.
LEMMA InitPlaced == Init => Placed
<1> SUFFICES ASSUME Init PROVE Placed
  OBVIOUS
<1>1. /\ \A m \in Message : phase[m] = "idle" /\ queue[m] = <<>> /\ injected[m] = {}
      /\ \A s \in Session : registered[s] = None /\ waiters[s] = <<>> /\ deferred[s] = <<>>
      /\ inbound = <<>> /\ ready = <<>> /\ gateQ = <<>>
  BY DEF Init
<1>2. LockHeld /\ QueueOwnership
  BY <1>1 DEF LockHeld, HasLock, InTurn, QueueOwnership
<1>3. TaskQueues /\ BusQueue
  BY <1>1, EmptyQueue DEF TaskQueues, BusQueue, Lists
<1>4. PendingQueues /\ DeferredQueues /\ FoldedFollowUps
  BY <1>1, EmptyQueue DEF PendingQueues, DeferredQueues, FoldedFollowUps, Lists
<1>5. NothingUnsentMoves
  BY <1>1, EmptyQueue DEF NothingUnsentMoves, Unqueued
<1>6. DirectCalls
  BY <1>1, EmptyQueue, ConstantsAssumption DEF DirectCalls, ConstantsAssumption
<1> QED BY <1>2, <1>3, <1>4, <1>5, <1>6 DEF Placed

\* A message with a live task is in none of the places messages wait.
LEMMA LiveIsNotWaiting ==
  ASSUME IInv, NEW m \in Message, phase[m] # "idle"
  PROVE  Unqueued(m) /\ outcome[m] # "unsent"
BY DEF IInv, Placed, BusQueue, PendingQueues, DeferredQueues, Lists, NothingUnsentMoves, Unqueued

\* What run() has just taken from the bus is nowhere else.
LEMMA ConsumedIsFree ==
  ASSUME IInv, NEW m \in Message, Consumes(m)
  PROVE  /\ phase[m] = "idle"
         /\ outcome[m] # "unsent"
         /\ \A t \in Message : m \notin ToSet(queue[t])
         /\ \A s \in Session : m \notin ToSet(deferred[s])
         /\ IsInjective(inbound')
         /\ ToSet(inbound') = ToSet(inbound) \ {m}
<1>1. /\ m \in ToSet(inbound)
      /\ IsInjective(inbound')
      /\ ToSet(inbound') = ToSet(inbound) \ {m}
  BY TailQueue DEF IInv, TypeOK, Placed, BusQueue, Lists, Consumes
<1> QED BY <1>1 DEF IInv, Placed, BusQueue, PendingQueues, DeferredQueues, Lists,
                    NothingUnsentMoves, Unqueued

\* A new message joins the bus.
LEMMA ArrivePlaced ==
  ASSUME IInv, NEW m \in Message, Publish(m) \/ Submit(m)
  PROVE  Placed'
<1> USE DEF IInv, Placed
<1>1. /\ outcome[m] = "unsent"
      /\ inbound' = Append(inbound, m)
      /\ UNCHANGED <<loop, deferred, taskVars, lockVars, turnVars>>
      /\ outcome' = [x \in Message |-> IF x \in {m} THEN "open" ELSE outcome[x]]
  BY DEF Publish, Submit, Settle, lockVars, taskVars, turnVars
<1> USE DEF lockVars, taskVars, turnVars
<1>2. phase[m] = "idle" /\ Unqueued(m)
  BY <1>1 DEF NothingUnsentMoves
<1>3. ToSet(inbound') = ToSet(inbound) \cup {m} /\ IsInjective(inbound')
  BY <1>1, <1>2, AppendQueue DEF TypeOK, BusQueue, Lists, Unqueued
<1>4. LockHeld' /\ QueueOwnership' /\ TaskQueues' /\ FoldedFollowUps' /\ DirectCalls'
  BY <1>1 DEF LockHeld, HasLock, QueueOwnership, TaskQueues, Lists, FoldedFollowUps, DirectCalls
<1>5. BusQueue' /\ PendingQueues' /\ DeferredQueues'
  BY <1>1, <1>2, <1>3 DEF BusQueue, PendingQueues, DeferredQueues, Lists, Unqueued
<1>6. NothingUnsentMoves'
  BY <1>1, <1>3 DEF NothingUnsentMoves, Unqueued
<1> QED BY <1>4, <1>5, <1>6

\* A message leaves the bus: run() executes it, defers it, queues it for the
\* running turn or gives it a task.
LEMMA RunPlaced ==
  ASSUME IInv, NEW m \in Message, Run(m)
  PROVE  Placed'
<1> USE DEF IInv, Placed, busVars, lockVars, taskVars, turnVars
<1>1. SessionOf[m] \in Session
  BY ConstantsAssumption DEF ConstantsAssumption
<1>2. CASE RunPriority(m) \/ RunInline(m)
  <2>1. /\ Consumes(m)
        /\ UNCHANGED <<deferred, ready, phase, lockVars, turnVars, outcome>>
    BY <1>2 DEF RunPriority, RunInline
  <2>2. LockHeld' /\ QueueOwnership' /\ TaskQueues' /\ FoldedFollowUps' /\ DirectCalls'
    BY <2>1 DEF LockHeld, HasLock, QueueOwnership, TaskQueues, Lists, FoldedFollowUps, DirectCalls
  <2>3. BusQueue' /\ PendingQueues' /\ DeferredQueues' /\ NothingUnsentMoves'
    BY <2>1, ConsumedIsFree DEF BusQueue, PendingQueues, DeferredQueues, Lists,
                                NothingUnsentMoves, Unqueued
  <2> QED BY <2>2, <2>3
<1>3. CASE RunDefer(m)
  <2>1. /\ Consumes(m)
        /\ m \in Automation
        /\ deferred' = [deferred EXCEPT ![SessionOf[m]] = Append(@, m)]
        /\ UNCHANGED <<taskVars, lockVars, turnVars, outcome>>
    BY <1>3 DEF RunDefer, ShouldDefer
  <2>2. /\ ToSet(deferred'[SessionOf[m]]) = ToSet(deferred[SessionOf[m]]) \cup {m}
        /\ IsInjective(deferred'[SessionOf[m]])
    <3>1. /\ deferred'[SessionOf[m]] = Append(deferred[SessionOf[m]], m)
          /\ deferred[SessionOf[m]] \in Seq(Message)
      BY <1>1, <2>1 DEF TypeOK
    <3>2. m \notin ToSet(deferred[SessionOf[m]]) /\ IsInjective(deferred[SessionOf[m]])
      BY <1>1, <2>1, ConsumedIsFree DEF DeferredQueues, Lists
    <3> QED BY <3>1, <3>2, AppendQueue
  <2>3. \A s \in Session : s # SessionOf[m] => deferred'[s] = deferred[s]
    BY <2>1 DEF TypeOK
  <2>4. LockHeld' /\ QueueOwnership' /\ TaskQueues' /\ FoldedFollowUps' /\ DirectCalls'
    BY <2>1 DEF LockHeld, HasLock, QueueOwnership, TaskQueues, Lists, FoldedFollowUps, DirectCalls
  <2>5. BusQueue' /\ PendingQueues'
    BY <2>1, ConsumedIsFree DEF BusQueue, PendingQueues, Lists
  <2>6. DeferredQueues'
    BY <2>1, <2>2, <2>3, ConsumedIsFree DEF DeferredQueues, Lists
  <2>7. NothingUnsentMoves'
    BY <2>1, <2>2, <2>3, ConsumedIsFree DEF NothingUnsentMoves, Unqueued
  <2> QED BY <2>4, <2>5, <2>6, <2>7
<1>4. CASE RunInject(m)
  <2> DEFINE t == registered[SessionOf[m]]
  <2>1. /\ Consumes(m)
        /\ t # None
        /\ m \notin Automation
        /\ queue' = [queue EXCEPT ![t] = Append(@, m)]
        /\ UNCHANGED <<deferred, taskVars, lockVars, registered, injected, outcome>>
    BY <1>4 DEF RunInject, ShouldDefer, IsActive
  <2>2. t \in Message /\ SessionOf[t] = SessionOf[m] /\ phase[t] \in InTurn
    BY <1>1, <2>1 DEF TypeOK, QueueOwnership
  <2>3. ToSet(queue'[t]) = ToSet(queue[t]) \cup {m} /\ IsInjective(queue'[t])
    <3>1. queue'[t] = Append(queue[t], m) /\ queue[t] \in Seq(Message)
      BY <2>1, <2>2 DEF TypeOK
    <3>2. m \notin ToSet(queue[t]) /\ IsInjective(queue[t])
      BY <2>1, <2>2, ConsumedIsFree DEF PendingQueues, Lists
    <3> QED BY <3>1, <3>2, AppendQueue
  <2>4. \A u \in Message : u # t => queue'[u] = queue[u]
    BY <2>1, <2>2 DEF TypeOK
  <2>10. DirectCalls'
    BY <1>1, <2>1, <2>2, <2>4 DEF DirectCalls
  <2>5. LockHeld' /\ TaskQueues' /\ FoldedFollowUps'
    BY <2>1 DEF LockHeld, HasLock, TaskQueues, Lists, FoldedFollowUps, DirectCalls
  <2>6. QueueOwnership'
    BY <2>1, <2>2, <2>4 DEF QueueOwnership
  <2>7. BusQueue' /\ DeferredQueues'
    BY <2>1, ConsumedIsFree DEF BusQueue, DeferredQueues, Lists
  <2>8. PendingQueues'
    BY <2>1, <2>2, <2>3, <2>4, ConsumedIsFree DEF PendingQueues, Lists
  <2>9. NothingUnsentMoves'
    BY <2>1, <2>3, <2>4, ConsumedIsFree DEF NothingUnsentMoves, Unqueued
  <2> QED BY <2>5, <2>6, <2>7, <2>8, <2>9, <2>10
<1>5. CASE RunSpawn(m)
  <2>1. /\ Consumes(m)
        /\ ready' = Append(ready, m)
        /\ phase' = [phase EXCEPT ![m] = "created"]
        /\ UNCHANGED <<deferred, lockVars, turnVars, outcome>>
    BY <1>5 DEF RunSpawn
  <2>2. phase[m] = "idle" /\ outcome[m] # "unsent"
    BY <2>1, ConsumedIsFree
  <2>3. phase'[m] = "created" /\ \A x \in Message : x # m => phase'[x] = phase[x]
    BY <2>1 DEF TypeOK
  <2>4. ToSet(ready') = ToSet(ready) \cup {m} /\ IsInjective(ready')
    BY <2>1, <2>2, AppendQueue DEF TypeOK, TaskQueues, Lists
  <2>5. LockHeld' /\ QueueOwnership' /\ FoldedFollowUps' /\ DirectCalls'
    BY <2>1, <2>2, <2>3 DEF TypeOK, LockHeld, HasLock, InTurn, QueueOwnership, FoldedFollowUps,
                               DirectCalls
  <2>6. TaskQueues'
    <3>1. \A q \in {gateQ} \cup {waiters[s] : s \in Session} : m \notin ToSet(q)
      BY <2>2 DEF TaskQueues, Lists
    <3>2. ToSet(ready) \subseteq Message /\ ToSet(gateQ) \subseteq Message
          /\ \A s \in Session : ToSet(waiters[s]) \subseteq Message
      BY QueueElements DEF TypeOK
    <3> QED BY <2>1, <2>3, <2>4, <3>1, <3>2 DEF TaskQueues, Lists
  <2>7. BusQueue' /\ PendingQueues' /\ DeferredQueues' /\ NothingUnsentMoves'
    <3>1. ToSet(inbound) \subseteq Message
          /\ \A t \in Message : ToSet(queue[t]) \subseteq Message
          /\ \A s \in Session : ToSet(deferred[s]) \subseteq Message
      BY QueueElements DEF TypeOK
    <3> QED BY <2>1, <2>2, <2>3, <3>1, ConsumedIsFree
            DEF BusQueue, PendingQueues, DeferredQueues, Lists, NothingUnsentMoves, Unqueued
  <2> QED BY <2>5, <2>6, <2>7
<1>6. CASE RunReply(m)
  <2>1. /\ UNCHANGED <<inbound, deferred, taskVars, lockVars, injected>>
        /\ \A x \in Message : outcome'[x] = "unsent" => outcome[x] = "unsent"
    BY <1>6 DEF RunReply, TypeOK
  <2>2. \/ UNCHANGED <<registered, queue>>
        \/ /\ registered[SessionOf[m]] \in Message
           /\ registered' = [registered EXCEPT ![SessionOf[m]] = None]
           /\ queue' = [queue EXCEPT ![registered[SessionOf[m]]] = <<>>]
    BY <1>1, <1>6 DEF RunReply, TypeOK
  <2>3. \A t \in Message : queue'[t] = queue[t] \/ queue'[t] = <<>>
    BY <2>2 DEF TypeOK
  <2>4. \A s \in Session : registered'[s] = registered[s] \/ registered'[s] = None
    BY <2>2 DEF TypeOK
  <2>8. DirectCalls'
    BY <2>1, <2>3, <2>4, ConstantsAssumption DEF DirectCalls, ConstantsAssumption
  <2>5. LockHeld' /\ TaskQueues' /\ BusQueue' /\ DeferredQueues' /\ FoldedFollowUps'
    BY <2>1 DEF LockHeld, HasLock, TaskQueues, BusQueue, DeferredQueues, Lists, FoldedFollowUps,
      DirectCalls
  <2>6. QueueOwnership'
    BY <2>1, <2>3, <2>4 DEF QueueOwnership
  <2>7. PendingQueues' /\ NothingUnsentMoves'
    BY <2>1, <2>3, EmptyQueue DEF PendingQueues, Lists, NothingUnsentMoves, Unqueued
  <2> QED BY <2>5, <2>6, <2>7, <2>8
<1> QED BY <1>2, <1>3, <1>4, <1>5, <1>6 DEF Run

\* Messages that wait keep waiting when only the task of m, which is not one
\* of them, moves, and pending queues only lose messages.
LEMMA StillQueued ==
  ASSUME IInv, NEW m \in Message, Unqueued(m),
         UNCHANGED <<inbound, deferred>>,
         \A x \in Message : x # m => phase'[x] = phase[x],
         \A t \in Message : IsInjective(queue'[t]) /\ ToSet(queue'[t]) \subseteq ToSet(queue[t]),
         outcome'[m] # "unsent",
         \A x \in Message : outcome'[x] = "unsent" => outcome[x] = "unsent"
  PROVE  BusQueue' /\ PendingQueues' /\ DeferredQueues' /\ NothingUnsentMoves'
<1> USE DEF IInv, Placed
<1>1. /\ ToSet(inbound) \subseteq Message
      /\ \A t \in Message : ToSet(queue[t]) \subseteq Message
      /\ \A s \in Session : ToSet(deferred[s]) \subseteq Message
  BY QueueElements DEF TypeOK
<1>2. BusQueue'
  BY <1>1 DEF BusQueue, Lists, Unqueued
<1>3. PendingQueues'
  BY <1>1 DEF PendingQueues, Lists, Unqueued
<1>4. DeferredQueues'
  BY <1>1 DEF DeferredQueues, Lists, Unqueued
<1>5. NothingUnsentMoves'
  BY DEF NothingUnsentMoves, Unqueued
<1> QED BY <1>2, <1>3, <1>4, <1>5

\* The task of m leaves the queue it waited in and takes the free lock.
LEMMA TakeLockPlaced ==
  ASSUME IInv, NEW m \in Message, Unqueued(m), ~HasLock(m),
         owner[SessionOf[m]] = None, TakeLock(m),
         UNCHANGED <<inbound, deferred, injected>>,
         IsInjective(ready'), ToSet(ready') \subseteq ToSet(ready) \ {m},
         \A s \in Session : IsInjective(waiters'[s]) /\ ToSet(waiters'[s]) \subseteq ToSet(waiters[s]) \ {m},
         outcome'[m] # "unsent",
         \A x \in Message : outcome'[x] = "unsent" => outcome[x] = "unsent"
  PROVE  Placed'
<1> USE DEF IInv, Placed
<1>1. SessionOf[m] \in Session /\ None \notin Message
  BY ConstantsAssumption DEF ConstantsAssumption
<1>2. /\ \A x \in Message : x # m => phase'[x] = phase[x]
      /\ phase'[m] \in {"running", "gating"}
  BY DEF TakeLock, OpenTurn, TypeOK, StartRunning
<1>3. /\ owner'[SessionOf[m]] = m
      /\ \A s \in Session : s # SessionOf[m] => owner'[s] = owner[s]
  BY <1>1 DEF TakeLock, TypeOK, StartRunning
<1>4. \/ phase'[m] = "running" /\ m \in Direct /\ UNCHANGED <<registered, queue, gateQ>>
      \/ phase'[m] = "running" /\ m \notin Direct /\ gateQ' = gateQ /\ OpenTurn(m)
      \/ /\ phase'[m] = "gating" /\ m \notin Direct
         /\ gateQ' = Append(gateQ, m) /\ UNCHANGED <<registered, queue>>
  BY DEF TakeLock, OpenTurn, TypeOK, StartRunning
<1>5. /\ \A t \in Message : queue'[t] = queue[t] \/ queue'[t] = <<>>
      /\ \A s \in Session :
           \/ registered'[s] = registered[s]
           \/ /\ s = SessionOf[m] /\ registered'[s] = m
              /\ m \notin Direct /\ phase'[m] = "running"
  <2>1. CASE UNCHANGED <<registered, queue>>
    BY <2>1
  <2>2. CASE phase'[m] = "running" /\ m \notin Direct /\ OpenTurn(m)
    <3>1. \A t \in Message : queue'[t] = queue[t] \/ queue'[t] = <<>>
      BY <2>2 DEF OpenTurn, TypeOK, StartRunning
    <3>2. /\ registered'[SessionOf[m]] = m
          /\ \A s \in Session : s # SessionOf[m] => registered'[s] = registered[s]
      BY <1>1, <2>2 DEF OpenTurn, TypeOK, StartRunning
    <3> QED BY <2>2, <3>1, <3>2
  <2> QED BY <1>4, <2>1, <2>2
<1>6. LockHeld'
  <2> SUFFICES ASSUME NEW x \in Message, HasLock(x)' PROVE owner'[SessionOf[x]] = x
    BY DEF LockHeld
  <2>1. CASE x = m
    BY <1>3, <2>1
  <2>2. CASE x # m
    <3>1. HasLock(x) /\ SessionOf[x] \in Session
      BY <1>2, <2>2, ConstantsAssumption DEF HasLock, ConstantsAssumption
    <3>2. owner[SessionOf[x]] = x
      BY <3>1 DEF LockHeld
    <3> QED BY <1>1, <1>3, <3>1, <3>2
  <2> QED BY <2>1, <2>2
<1>7. QueueOwnership'
  <2>1. \A x \in Message : phase[x] \in InTurn => phase'[x] \in InTurn
    BY <1>2 DEF HasLock
  <2>2. ASSUME NEW s \in Session, registered'[s] # None
        PROVE  SessionOf[registered'[s]] = s /\ phase'[registered'[s]] \in InTurn
    <3>1. CASE registered'[s] = registered[s]
      <4>1. registered[s] \in Message /\ SessionOf[registered[s]] = s /\ phase[registered[s]] \in InTurn
        BY <2>2, <3>1 DEF QueueOwnership, TypeOK
      <4> QED BY <2>1, <3>1, <4>1
    <3>2. CASE s = SessionOf[m] /\ registered'[s] = m /\ phase'[m] = "running"
      BY <3>2 DEF InTurn
    <3> QED BY <1>5, <3>1, <3>2
  <2>3. ASSUME NEW x \in Message, phase'[x] \notin InTurn
        PROVE  queue'[x] = <<>> /\ injected'[x] = {}
    BY <1>5, <2>1, <2>3 DEF QueueOwnership
  <2> QED BY <2>2, <2>3 DEF QueueOwnership
<1>8. TaskQueues'
  <2>1. /\ ToSet(ready) \subseteq Message /\ ToSet(gateQ) \subseteq Message
        /\ \A s \in Session : ToSet(waiters[s]) \subseteq Message
        /\ gateQ \in Seq(Message)
    BY QueueElements DEF TypeOK
  <2>2. m \notin ToSet(gateQ)
    BY DEF TaskQueues, Lists, HasLock
  <2>3. Lists(gateQ, "gating")'
    <3>1. CASE gateQ' = gateQ
      BY <1>2, <2>1, <2>2, <3>1 DEF TaskQueues, Lists
    <3>2. CASE phase'[m] = "gating" /\ gateQ' = Append(gateQ, m)
      <4>1. IsInjective(gateQ') /\ ToSet(gateQ') = ToSet(gateQ) \cup {m}
        BY <2>1, <2>2, <3>2, AppendQueue DEF TaskQueues, Lists
      <4> QED BY <1>2, <2>1, <3>2, <4>1 DEF TaskQueues, Lists
    <3> QED BY <1>4, <3>1, <3>2
  <2> QED BY <1>2, <2>1, <2>3 DEF TaskQueues, Lists
<1>9. BusQueue' /\ PendingQueues' /\ DeferredQueues' /\ NothingUnsentMoves'
  <2>1. \A t \in Message :
          IsInjective(queue'[t]) /\ ToSet(queue'[t]) \subseteq ToSet(queue[t])
    BY <1>5, EmptyQueue DEF PendingQueues, Lists
  <2> QED BY <1>2, <2>1, StillQueued
<1>10. FoldedFollowUps'
  BY DEF FoldedFollowUps
<1>11. DirectCalls'
  <2>1. Direct \cap ToSet(gateQ') = {}
    <3>1. gateQ' = gateQ \/ (m \notin Direct /\ gateQ' = Append(gateQ, m))
      BY <1>4
    <3>2. gateQ \in Seq(Message)
      BY DEF TypeOK
    <3>3. ToSet(Append(gateQ, m)) = ToSet(gateQ) \cup {m}
      BY <3>2, AppendQueue
    <3>4. Direct \cap ToSet(gateQ) = {}
      BY DEF DirectCalls
    <3>5. CASE gateQ' = gateQ
      BY <3>4, <3>5
    <3>6. CASE m \notin Direct /\ gateQ' = Append(gateQ, m)
      <4>1. Direct \cap (ToSet(gateQ) \cup {m}) = {}
        BY <3>4, <3>6
      <4> QED BY <3>3, <3>6, <4>1
    <3> QED BY <3>1, <3>5, <3>6
  <2> QED BY <1>5, <2>1, ConstantsAssumption DEF DirectCalls, ConstantsAssumption
<1> QED BY <1>6, <1>7, <1>8, <1>9, <1>10, <1>11

\* The task of m leaves the queue it waited in, if any, and waits for the lock.
LEMMA AwaitLockPlaced ==
  ASSUME IInv, NEW m \in Message, Unqueued(m), phase[m] \in {"idle", "created"}, AwaitLock(m),
         UNCHANGED <<inbound, deferred, injected>>,
         IsInjective(ready'), ToSet(ready') \subseteq ToSet(ready) \ {m},
         outcome'[m] # "unsent",
         \A x \in Message : outcome'[x] = "unsent" => outcome[x] = "unsent"
  PROVE  Placed'
<1> USE DEF IInv, Placed
<1>1. SessionOf[m] \in Session
  BY ConstantsAssumption DEF ConstantsAssumption
<1>2. /\ phase'[m] = "locking"
      /\ \A x \in Message : x # m => phase'[x] = phase[x]
      /\ UNCHANGED <<owner, gateQ, registered, queue>>
  BY DEF AwaitLock, TypeOK
<1>3. LockHeld' /\ QueueOwnership'
  <2>1. \A x \in Message : phase'[x] = phase[x] \/ phase'[x] \notin InTurn \cup {"gating"}
    BY <1>2 DEF InTurn
  <2>2. phase[m] \notin InTurn
    BY DEF InTurn
  <2>3. LockHeld'
    BY <1>2, <2>1 DEF LockHeld, HasLock
  <2>4. \A s \in Session : registered[s] # m
    BY <2>2, ConstantsAssumption DEF QueueOwnership, ConstantsAssumption
  <2>5. QueueOwnership'
    <3>1. ASSUME NEW s \in Session, registered[s] # None
          PROVE  SessionOf[registered[s]] = s /\ phase'[registered[s]] \in InTurn
      <4>1. registered[s] \in Message /\ registered[s] # m
        BY <2>4, <3>1 DEF TypeOK
      <4> QED BY <1>2, <3>1, <4>1 DEF QueueOwnership
    <3>2. ASSUME NEW x \in Message, phase'[x] \notin InTurn
          PROVE  queue[x] = <<>> /\ injected[x] = {}
      BY <1>2, <2>2, <3>2 DEF QueueOwnership
    <3> QED BY <1>2, <3>1, <3>2 DEF QueueOwnership
  <2> QED BY <2>3, <2>5
<1>4. TaskQueues'
  <2>1. /\ ToSet(ready) \subseteq Message /\ ToSet(gateQ) \subseteq Message
        /\ \A s \in Session : ToSet(waiters[s]) \subseteq Message
        /\ waiters[SessionOf[m]] \in Seq(Message)
    BY <1>1, QueueElements DEF TypeOK
  <2>2. /\ waiters'[SessionOf[m]] = Append(waiters[SessionOf[m]], m)
        /\ \A s \in Session : s # SessionOf[m] => waiters'[s] = waiters[s]
    BY <1>1 DEF AwaitLock, TypeOK
  <2>3. m \notin ToSet(gateQ) /\ \A s \in Session : m \notin ToSet(waiters[s])
    BY DEF TaskQueues, Lists
  <2>4. /\ ToSet(waiters'[SessionOf[m]]) = ToSet(waiters[SessionOf[m]]) \cup {m}
        /\ IsInjective(waiters'[SessionOf[m]])
    BY <1>1, <2>1, <2>2, <2>3, AppendQueue DEF TaskQueues, Lists
  <2>5. Lists(ready, "created")' /\ Lists(gateQ, "gating")'
    BY <1>2, <2>1, <2>3 DEF TaskQueues, Lists
  <2>6. ASSUME NEW s \in Session
        PROVE  Lists(waiters[s], "locking")' /\ \A x \in ToSet(waiters'[s]) : SessionOf[x] = s
    <3>1. CASE s = SessionOf[m]
      BY <1>1, <1>2, <2>1, <2>4, <3>1 DEF TaskQueues, Lists
    <3>2. CASE s # SessionOf[m]
      BY <1>2, <2>1, <2>2, <2>3, <3>2 DEF TaskQueues, Lists
    <3> QED BY <3>1, <3>2
  <2> QED BY <2>5, <2>6 DEF TaskQueues
<1>5. BusQueue' /\ PendingQueues' /\ DeferredQueues' /\ NothingUnsentMoves'
  BY <1>2, StillQueued DEF PendingQueues, Lists
<1>6. FoldedFollowUps' /\ DirectCalls'
  BY <1>2 DEF FoldedFollowUps, DirectCalls
<1> QED BY <1>3, <1>4, <1>5, <1>6

\* A task or a direct call moves towards its turn.
LEMMA AdmitPlaced ==
  ASSUME IInv, NEW m \in Message, CallDirect(m) \/ Admit(m)
  PROVE  Placed'
<1> USE DEF IInv, Placed, busVars, taskVars, lockVars, turnVars
<1>1. SessionOf[m] \in Session
  BY ConstantsAssumption DEF ConstantsAssumption
<1>2. CASE CallDirect(m)
  <2>1. /\ UNCHANGED <<inbound, deferred, injected, ready>>
        /\ outcome[m] = "unsent"
        /\ outcome'[m] # "unsent"
        /\ \A x \in Message : outcome'[x] = "unsent" => outcome[x] = "unsent"
    BY <1>2 DEF CallDirect, Settle
  <2>2. phase[m] = "idle" /\ Unqueued(m)
    BY <2>1 DEF NothingUnsentMoves
  <2>3. ToSet(ready') \subseteq ToSet(ready) \ {m} /\ IsInjective(ready')
    BY <2>1, <2>2 DEF TaskQueues, Lists
  <2>4. CASE owner[SessionOf[m]] = None /\ TakeLock(m) /\ UNCHANGED waiters
    <3>1. ~HasLock(m) /\ \A s \in Session : m \notin ToSet(waiters[s])
      BY <2>2 DEF HasLock, InTurn, TaskQueues, Lists
    <3>2. \A s \in Session :
            IsInjective(waiters'[s]) /\ ToSet(waiters'[s]) \subseteq ToSet(waiters[s]) \ {m}
      BY <2>4, <3>1 DEF TaskQueues, Lists
    <3> QED BY <2>1, <2>2, <2>3, <2>4, <3>1, <3>2, TakeLockPlaced
  <2>5. CASE AwaitLock(m)
    BY <2>1, <2>2, <2>3, <2>5, AwaitLockPlaced
  <2> QED BY <1>2, <2>4, <2>5 DEF CallDirect, ReachLock, LockIsFree
<1>3. CASE StartTask(m)
  <2>1. /\ UNCHANGED <<inbound, deferred, injected, outcome>>
        /\ ready # <<>> /\ m = Head(ready) /\ ready' = Tail(ready)
    BY <1>3 DEF StartTask
  <2>2. ToSet(ready') = ToSet(ready) \ {m} /\ IsInjective(ready') /\ m \in ToSet(ready)
    BY <2>1, TailQueue DEF TypeOK, TaskQueues, Lists
  <2>3. phase[m] = "created"
    BY <2>2 DEF TaskQueues, Lists
  <2>4. Unqueued(m) /\ outcome[m] # "unsent"
    BY <2>3, LiveIsNotWaiting
  <2>5. CASE owner[SessionOf[m]] = None /\ TakeLock(m) /\ UNCHANGED waiters
    <3>1. ~HasLock(m) /\ \A s \in Session : m \notin ToSet(waiters[s])
      BY <2>3 DEF HasLock, InTurn, TaskQueues, Lists
    <3>2. \A s \in Session :
            IsInjective(waiters'[s]) /\ ToSet(waiters'[s]) \subseteq ToSet(waiters[s]) \ {m}
      BY <2>5, <3>1 DEF TaskQueues, Lists
    <3> QED BY <2>1, <2>2, <2>4, <2>5, <3>1, <3>2, TakeLockPlaced
  <2>6. CASE AwaitLock(m)
    BY <2>1, <2>2, <2>3, <2>4, <2>6, AwaitLockPlaced
  <2> QED BY <1>3, <2>5, <2>6 DEF StartTask, ReachLock, LockIsFree
<1>4. CASE GrantLock(m)
  <2> DEFINE s == SessionOf[m]
  <2>1. /\ UNCHANGED <<inbound, deferred, injected, ready, outcome>>
        /\ owner[s] = None /\ TakeLock(m)
        /\ waiters[s] # <<>> /\ m = Head(waiters[s])
        /\ waiters' = [waiters EXCEPT ![s] = Tail(@)]
    BY <1>4 DEF GrantLock
  <2>2. /\ waiters[s] \in Seq(Message)
        /\ waiters'[s] = Tail(waiters[s])
        /\ \A z \in Session : z # s => waiters'[z] = waiters[z]
    BY <1>1, <2>1 DEF TypeOK
  <2>3. /\ ToSet(waiters'[s]) = ToSet(waiters[s]) \ {m} /\ IsInjective(waiters'[s])
        /\ m \in ToSet(waiters[s])
    BY <1>1, <2>1, <2>2, TailQueue DEF TaskQueues, Lists
  <2>4. phase[m] = "locking"
    BY <1>1, <2>3 DEF TaskQueues, Lists
  <2>5. Unqueued(m) /\ outcome[m] # "unsent"
    BY <2>4, LiveIsNotWaiting
  <2>6. ~HasLock(m) /\ m \notin ToSet(ready)
    BY <2>4 DEF HasLock, InTurn, TaskQueues, Lists
  <2>7. \A z \in Session :
          IsInjective(waiters'[z]) /\ ToSet(waiters'[z]) \subseteq ToSet(waiters[z]) \ {m}
    BY <2>2, <2>3 DEF TaskQueues, Lists
  <2>8. IsInjective(ready') /\ ToSet(ready') \subseteq ToSet(ready) \ {m}
    BY <2>1, <2>6 DEF TaskQueues, Lists
  <2> QED BY <2>1, <2>5, <2>6, <2>7, <2>8, TakeLockPlaced
<1>5. CASE GrantGate(m)
  <2>1. /\ UNCHANGED <<inbound, deferred, injected, ready, owner, waiters, outcome>>
        /\ gateQ # <<>> /\ m = Head(gateQ) /\ gateQ' = Tail(gateQ)
        /\ OpenTurn(m)
    BY <1>5 DEF GrantGate
  <2>2. ToSet(gateQ') = ToSet(gateQ) \ {m} /\ IsInjective(gateQ') /\ m \in ToSet(gateQ)
    BY <2>1, TailQueue DEF TypeOK, TaskQueues, Lists
  <2>3. phase[m] = "gating" /\ m \notin Direct
    BY <2>2 DEF TaskQueues, Lists, DirectCalls
  <2>4. Unqueued(m) /\ outcome[m] # "unsent"
    BY <2>3, LiveIsNotWaiting
  <2>5. /\ phase'[m] = "running" /\ \A x \in Message : x # m => phase'[x] = phase[x]
        /\ queue'[m] = <<>> /\ \A t \in Message : t # m => queue'[t] = queue[t]
        /\ registered'[SessionOf[m]] = m
        /\ \A s \in Session : s # SessionOf[m] => registered'[s] = registered[s]
    BY <1>1, <2>1 DEF OpenTurn, TypeOK, StartRunning
  <2>6. LockHeld'
    BY <2>1, <2>3, <2>5 DEF LockHeld, HasLock, InTurn
  <2>7. QueueOwnership'
    <3>1. \A x \in Message : phase'[x] \in InTurn <=> x = m \/ phase[x] \in InTurn
      BY <2>5 DEF InTurn
    <3>2. ASSUME NEW s \in Session, registered'[s] # None
          PROVE  SessionOf[registered'[s]] = s /\ phase'[registered'[s]] \in InTurn
      <4>1. CASE s = SessionOf[m]
        BY <2>5, <3>1, <4>1
      <4>2. CASE s # SessionOf[m]
        <5>1. registered'[s] = registered[s] /\ registered[s] \in Message
          BY <2>5, <3>2, <4>2 DEF TypeOK
        <5> QED BY <3>1, <3>2, <5>1 DEF QueueOwnership
      <4> QED BY <4>1, <4>2
    <3>3. ASSUME NEW x \in Message, phase'[x] \notin InTurn
          PROVE  queue'[x] = <<>> /\ injected'[x] = {}
      BY <2>1, <2>5, <3>1, <3>3 DEF QueueOwnership
    <3> QED BY <3>2, <3>3 DEF QueueOwnership
  <2>8. TaskQueues'
    <3>1. /\ ToSet(ready) \subseteq Message /\ ToSet(gateQ) \subseteq Message
          /\ \A s \in Session : ToSet(waiters[s]) \subseteq Message
      BY QueueElements DEF TypeOK
    <3> QED BY <2>1, <2>2, <2>3, <2>5, <3>1 DEF TaskQueues, Lists
  <2>9. BusQueue' /\ PendingQueues' /\ DeferredQueues' /\ NothingUnsentMoves'
    <3>1. \A t \in Message :
            IsInjective(queue'[t]) /\ ToSet(queue'[t]) \subseteq ToSet(queue[t])
      BY <2>5, EmptyQueue DEF PendingQueues, Lists
    <3> QED BY <2>1, <2>4, <2>5, <3>1, StillQueued
  <2>10. FoldedFollowUps' /\ DirectCalls'
    BY <2>1, <2>2, <2>3, <2>5, ConstantsAssumption
       DEF FoldedFollowUps, DirectCalls, ConstantsAssumption
  <2> QED BY <2>6, <2>7, <2>8, <2>9, <2>10
<1> QED BY <1>2, <1>3, <1>4, <1>5 DEF Admit

\* What a running turn does: its queue may shrink into what it has folded in,
\* and it stays in the turn.
LEMMA WorkPlaced ==
  ASSUME IInv, NEW m \in Message,
         \/ Work(m) \/ Answer(m) \/ Exhaust(m) \/ Yield(m) \/ BlockOnPut(m)
         \/ NewCommand(m)
  PROVE  Placed'
<1> USE DEF IInv, Placed, busVars, taskVars, lockVars, turnVars
<1>1. /\ phase[m] \in {"running", "yielding"}
      /\ phase'[m] \in InTurn
      /\ \A x \in Message : x # m => phase'[x] = phase[x]
  BY DEF Work, Inject, StartGoal, EndGoal, Answer, Exhaust, Yield, LastDrain, BlockOnPut, Putting,
         NewCommand, InRunner, InTurn, TypeOK
<1>2. UNCHANGED <<inbound, deferred, ready, owner, waiters, gateQ, registered, outcome>>
  BY DEF Work, Inject, StartGoal, EndGoal, Answer, Exhaust, Yield, LastDrain, BlockOnPut, NewCommand
<1>3. \/ UNCHANGED <<queue, injected>>
      \/ /\ queue' = [queue EXCEPT ![m] = Kept(m)]
         /\ injected' = [injected EXCEPT ![m] = @ \cup Drained(m)]
  BY DEF Work, Inject, StartGoal, EndGoal, Answer, Exhaust, Yield, LastDrain, BlockOnPut, NewCommand
<1>4. /\ \A t \in Message : t # m => queue'[t] = queue[t] /\ injected'[t] = injected[t]
      /\ queue'[m] = queue[m] \/ queue'[m] = Kept(m)
      /\ injected'[m] \subseteq injected[m] \cup Drained(m)
  BY <1>3 DEF TypeOK
<1>5. /\ ToSet(Kept(m)) \subseteq ToSet(queue[m])
      /\ Drained(m) \subseteq ToSet(queue[m])
      /\ IsInjective(Kept(m))
  BY KeptTyped DEF PendingQueues, Lists
<1>6. \A t \in Message : IsInjective(queue'[t]) /\ ToSet(queue'[t]) \subseteq ToSet(queue[t])
  BY <1>4, <1>5 DEF PendingQueues, Lists
<1>7. Unqueued(m) /\ outcome[m] # "unsent"
  BY <1>1, LiveIsNotWaiting
<1>8. LockHeld'
  BY <1>1, <1>2 DEF LockHeld, HasLock, InTurn
<1>9. QueueOwnership'
  <2>1. \A x \in Message : phase'[x] \in InTurn <=> phase[x] \in InTurn
    BY <1>1 DEF InTurn
  <2>2. ASSUME NEW s \in Session, registered[s] # None
        PROVE  SessionOf[registered[s]] = s /\ phase'[registered[s]] \in InTurn
    BY <2>1, <2>2 DEF QueueOwnership, TypeOK
  <2>3. ASSUME NEW x \in Message, phase'[x] \notin InTurn
        PROVE  queue'[x] = <<>> /\ injected'[x] = {}
    BY <1>1, <1>4, <2>1, <2>3 DEF QueueOwnership
  <2> QED BY <1>2, <2>2, <2>3 DEF QueueOwnership
<1>10. TaskQueues'
  <2>1. /\ ToSet(ready) \subseteq Message /\ ToSet(gateQ) \subseteq Message
        /\ \A s \in Session : ToSet(waiters[s]) \subseteq Message
    BY QueueElements DEF TypeOK
  <2> QED BY <1>1, <1>2, <2>1 DEF TaskQueues, Lists
<1>11. BusQueue' /\ PendingQueues' /\ DeferredQueues' /\ NothingUnsentMoves'
  BY <1>1, <1>2, <1>6, <1>7, StillQueued
<1>12. FoldedFollowUps'
  BY <1>4, <1>5 DEF FoldedFollowUps, PendingQueues
<1>13. DirectCalls'
  <2>1. m \in Direct => queue'[m] = <<>> /\ injected'[m] = {}
    <3>1. m \in Direct => Kept(m) = <<>> /\ Drained(m) = {}
      BY DEF DirectCalls, Kept, Drained, CanDrain
    <3> QED BY <1>4, <3>1 DEF DirectCalls
  <2> QED BY <1>2, <1>4, <2>1, ConstantsAssumption DEF DirectCalls, ConstantsAssumption
<1> QED BY <1>8, <1>9, <1>10, <1>11, <1>12, <1>13

\* The task of m is over: `left` and one deferred turn go back to the bus.
LEMMA RepublishPlaced ==
  ASSUME IInv, NEW m \in Message, phase[m] # "idle", NEW left \in Seq(Message),
         phase'[m] = "idle",
         \A x \in Message : x # m => phase'[x] = phase[x],
         \A t \in Message : queue'[t] = queue[t] \/ queue'[t] = <<>>,
         inbound' = inbound \o left \o NextDeferred(SessionOf[m]),
         deferred' = [deferred EXCEPT ![SessionOf[m]] = LaterDeferred(SessionOf[m])],
         IsInjective(left),
         \A x \in ToSet(left) :
           /\ phase'[x] = "idle" /\ outcome[x] # "unsent"
           /\ x \notin ToSet(inbound)
           /\ \A s \in Session : x \notin ToSet(deferred[s])
           /\ \A t \in Message : x \notin ToSet(queue'[t]),
         \A x \in Message : outcome'[x] = "unsent" => outcome[x] = "unsent"
  PROVE  BusQueue' /\ PendingQueues' /\ DeferredQueues' /\ NothingUnsentMoves'
<1> USE DEF IInv, Placed
<1> DEFINE s == SessionOf[m]
           next == NextDeferred(s)
           later == LaterDeferred(s)
<1>1. s \in Session
  BY ConstantsAssumption DEF ConstantsAssumption
<1>2. /\ ToSet(inbound) \subseteq Message
      /\ ToSet(left) \subseteq Message
      /\ \A t \in Message : ToSet(queue[t]) \subseteq Message
      /\ \A z \in Session : ToSet(deferred[z]) \subseteq Message
  BY QueueElements DEF TypeOK
<1>3. /\ next \in Seq(Message) /\ IsInjective(next) /\ IsInjective(later)
      /\ ToSet(next) \subseteq ToSet(deferred[s])
      /\ ToSet(later) \subseteq ToSet(deferred[s])
      /\ ToSet(next) \cap ToSet(later) = {}
  BY <1>1, DeferredTyped DEF DeferredQueues, Lists
<1>4. /\ deferred'[s] = later /\ \A z \in Session : z # s => deferred'[z] = deferred[z]
      /\ inbound' = inbound \o left \o next
  BY <1>1 DEF TypeOK
<1> HIDE DEF next, later
<1>5. \A x \in ToSet(next) :
        /\ phase'[x] = "idle" /\ outcome[x] # "unsent" /\ x \in Automation
        /\ x \notin ToSet(inbound) /\ x \notin ToSet(left)
  <2> SUFFICES ASSUME NEW x \in ToSet(deferred[s]), x \in ToSet(next)
               PROVE  /\ phase'[x] = "idle" /\ outcome[x] # "unsent" /\ x \in Automation
                      /\ x \notin ToSet(inbound) /\ x \notin ToSet(left)
    BY <1>3
  <2>1. x \in Message /\ phase[x] = "idle"
    BY <1>1, <1>2 DEF DeferredQueues, Lists
  <2>2. phase'[x] = "idle" /\ x \in Automation /\ x \notin ToSet(inbound)
    BY <1>1, <2>1 DEF DeferredQueues
  <2>3. outcome[x] # "unsent"
    BY <1>1, <2>1 DEF NothingUnsentMoves, Unqueued
  <2>4. x \notin ToSet(left)
    BY <1>1
  <2> QED BY <2>2, <2>3, <2>4
<1>6. /\ IsInjective(inbound')
      /\ ToSet(inbound') = ToSet(inbound) \cup ToSet(left) \cup ToSet(next)
  <2>1. /\ inbound \o left \in Seq(Message)
        /\ ToSet(inbound \o left) = ToSet(inbound) \cup ToSet(left)
        /\ IsInjective(inbound \o left)
    BY ConcatQueue DEF TypeOK, BusQueue, Lists
  <2>2. ToSet(inbound \o left) \cap ToSet(next) = {}
    BY <1>5, <2>1
  <2>3. /\ ToSet((inbound \o left) \o next) = ToSet(inbound \o left) \cup ToSet(next)
        /\ IsInjective((inbound \o left) \o next)
    <3> DEFINE c == inbound \o left
    <3>1. /\ c \in Seq(Message) /\ IsInjective(c) /\ next \in Seq(Message) /\ IsInjective(next)
          /\ ToSet(c) \cap ToSet(next) = {}
      BY <1>3, <2>1, <2>2
    <3> HIDE DEF c
    <3>2. ToSet(c \o next) = ToSet(c) \cup ToSet(next) /\ IsInjective(c \o next)
      BY <3>1, ConcatQueue
    <3> QED BY <3>2 DEF c
  <2> QED BY <1>4, <2>1, <2>3
<1>7. BusQueue'
  <2>1. \A x \in ToSet(inbound) : phase'[x] = "idle"
    BY <1>2 DEF BusQueue, Lists
  <2> QED BY <1>5, <1>6, <2>1 DEF BusQueue, Lists
<1>8. PendingQueues'
  <2> SUFFICES ASSUME NEW t \in Message
               PROVE  /\ Lists(queue[t], "idle")'
                      /\ \A x \in ToSet(queue'[t]) :
                           x \notin ToSet(inbound') /\ x \notin Automation
                             /\ SessionOf[x] = SessionOf[t]
    BY DEF PendingQueues
  <2>1. CASE queue'[t] = <<>>
    BY <2>1, EmptyQueue DEF Lists
  <2>2. CASE queue'[t] = queue[t]
    <3>1. IsInjective(queue[t]) /\ \A x \in ToSet(queue[t]) : x \in Message /\ phase[x] = "idle"
      BY <1>2 DEF PendingQueues, Lists
    <3>2. Lists(queue[t], "idle")'
      BY <2>2, <3>1 DEF Lists
    <3>3. \A x \in ToSet(queue[t]) :
            /\ x \notin Automation /\ SessionOf[x] = SessionOf[t]
            /\ x \notin ToSet(inbound) \cup ToSet(left) \cup ToSet(next)
      BY <1>5, <2>2 DEF PendingQueues
    <3> QED BY <1>6, <2>2, <3>2, <3>3
  <2> QED BY <2>1, <2>2
<1>9. DeferredQueues'
  <2> SUFFICES ASSUME NEW z \in Session
               PROVE  /\ Lists(deferred[z], "idle")'
                      /\ \A x \in ToSet(deferred'[z]) :
                           x \notin ToSet(inbound') /\ x \in Automation /\ SessionOf[x] = z
    BY DEF DeferredQueues
  <2>1. ToSet(deferred'[z]) \subseteq ToSet(deferred[z]) /\ IsInjective(deferred'[z])
    BY <1>3, <1>4 DEF DeferredQueues, Lists
  <2>2. \A x \in ToSet(deferred[z]) :
          /\ phase'[x] = "idle" /\ x \in Automation /\ SessionOf[x] = z
          /\ x \notin ToSet(inbound) \cup ToSet(left)
    <3>1. ASSUME NEW x \in ToSet(deferred[z])
          PROVE  phase[x] = "idle" /\ x \in Message /\ x \in Automation /\ SessionOf[x] = z
                 /\ x \notin ToSet(inbound)
      BY <1>2 DEF DeferredQueues, Lists
    <3>2. \A x \in ToSet(deferred[z]) : x \notin ToSet(left)
      OBVIOUS
    <3> QED BY <3>1, <3>2
  <2>3. ToSet(deferred'[z]) \cap ToSet(next) = {}
    <3>1. CASE z = s
      BY <1>3, <1>4, <3>1
    <3>2. CASE z # s
      BY <1>1, <1>3, <3>2, <2>1, <2>2 DEF DeferredQueues
    <3> QED BY <3>1, <3>2
  <2> QED BY <1>6, <2>1, <2>2, <2>3 DEF Lists
<1>10. NothingUnsentMoves'
  <2> SUFFICES ASSUME NEW x \in Message, outcome'[x] = "unsent"
               PROVE  phase'[x] = "idle" /\ Unqueued(x)'
    BY DEF NothingUnsentMoves
  <2>1. phase[x] = "idle" /\ Unqueued(x) /\ outcome[x] = "unsent"
    BY DEF NothingUnsentMoves
  <2>2. phase'[x] = "idle" /\ x \notin ToSet(inbound')
    BY <1>5, <1>6, <2>1 DEF Unqueued
  <2>3. \A t \in Message : x \notin ToSet(queue'[t])
    BY <2>1, EmptyQueue DEF Unqueued
  <2>4. \A z \in Session : x \notin ToSet(deferred'[z])
    BY <1>1, <1>3, <1>4, <2>1 DEF Unqueued
  <2> QED BY <2>2, <2>3, <2>4 DEF Unqueued
<1> QED BY <1>7, <1>8, <1>9, <1>10

\* A dispatched turn ends.  What it left in its queue is nowhere else: another
\* turn that held it would be a turn of the same session.
LEMMA LeaveTurnPlaced ==
  ASSUME IInv, NEW m \in Message, phase[m] \in InTurn,
         NEW left \in Seq(Message), LeaveTurn(m, left),
         IsInjective(left), ToSet(left) \subseteq ToSet(queue[m]) \cup {m},
         \A x \in Message : outcome'[x] = "unsent" => outcome[x] = "unsent"
  PROVE  Placed'
<1> USE DEF IInv, Placed
<1> DEFINE s == SessionOf[m]
<1>1. s \in Session /\ None \notin Message
  BY ConstantsAssumption DEF ConstantsAssumption
<1>2. /\ phase'[m] = "idle" /\ \A x \in Message : x # m => phase'[x] = phase[x]
      /\ queue'[m] = <<>> /\ \A t \in Message : t # m => queue'[t] = queue[t]
      /\ injected'[m] = {} /\ \A t \in Message : t # m => injected'[t] = injected[t]
  BY DEF LeaveTurn, TypeOK
<1>3. /\ owner'[s] = None /\ \A z \in Session : z # s => owner'[z] = owner[z]
      /\ UNCHANGED <<ready, waiters, gateQ>>
  BY <1>1 DEF LeaveTurn, TypeOK
<1>4. \A z \in Session :
        \/ registered'[z] = None
        \/ registered'[z] = registered[z] /\ registered[z] # m
  <2>1. ASSUME NEW z \in Session, z # s PROVE registered'[z] = registered[z] /\ registered[z] # m
    BY <1>1, <2>1 DEF LeaveTurn, TypeOK, QueueOwnership
  <2>2. registered'[s] = None \/ (registered'[s] = registered[s] /\ registered[s] # m)
    BY <1>1 DEF LeaveTurn, TypeOK
  <2> QED BY <2>1, <2>2
<1>5. Unqueued(m) /\ outcome[m] # "unsent" /\ HasLock(m) /\ phase[m] # "idle"
  BY LiveIsNotWaiting DEF InTurn, HasLock
<1>6. \A t \in Message : t # m /\ SessionOf[t] = s => ~HasLock(t)
  BY <1>5 DEF LockHeld
<1>7. LockHeld'
  <2> SUFFICES ASSUME NEW x \in Message, HasLock(x)' PROVE owner'[SessionOf[x]] = x
    BY DEF LockHeld
  <2>1. x # m /\ HasLock(x)
    BY <1>2 DEF HasLock, InTurn
  <2>2. SessionOf[x] \in Session /\ SessionOf[x] # s
    BY <1>6, <2>1, ConstantsAssumption DEF ConstantsAssumption
  <2> QED BY <1>3, <2>1, <2>2 DEF LockHeld
<1>8. QueueOwnership'
  <2>1. ASSUME NEW z \in Session, registered'[z] # None
        PROVE  SessionOf[registered'[z]] = z /\ phase'[registered'[z]] \in InTurn
    <3>1. registered'[z] = registered[z] /\ registered[z] \in Message /\ registered[z] # m
      BY <1>4, <2>1 DEF TypeOK
    <3> QED BY <1>2, <2>1, <3>1 DEF QueueOwnership
  <2>2. ASSUME NEW x \in Message, phase'[x] \notin InTurn
        PROVE  queue'[x] = <<>> /\ injected'[x] = {}
    BY <1>2, <2>2 DEF QueueOwnership
  <2> QED BY <2>1, <2>2 DEF QueueOwnership
<1>9. TaskQueues'
  <2>1. /\ ToSet(ready) \subseteq Message /\ ToSet(gateQ) \subseteq Message
        /\ \A z \in Session : ToSet(waiters[z]) \subseteq Message
    BY QueueElements DEF TypeOK
  <2>2. phase[m] \notin {"created", "gating", "locking"}
    BY DEF InTurn
  <2> QED BY <1>2, <1>3, <2>1, <2>2 DEF TaskQueues, Lists
<1>10. BusQueue' /\ PendingQueues' /\ DeferredQueues' /\ NothingUnsentMoves'
  <2>1. ASSUME NEW x \in ToSet(left)
        PROVE  /\ phase'[x] = "idle" /\ outcome[x] # "unsent"
               /\ x \notin ToSet(inbound)
               /\ \A z \in Session : x \notin ToSet(deferred[z])
               /\ \A t \in Message : x \notin ToSet(queue'[t])
    <3>1. CASE x = m
      BY <1>2, <1>5, <3>1, EmptyQueue DEF Unqueued
    <3>2. CASE x # m
      <4>1. x \in ToSet(queue[m]) /\ x \in Message
        BY <3>2, QueueElements DEF TypeOK
      <4>2. /\ phase[x] = "idle" /\ x \notin ToSet(inbound)
            /\ x \notin Automation /\ SessionOf[x] = s
        BY <4>1 DEF PendingQueues, Lists
      <4>3. outcome[x] # "unsent"
        BY <4>1 DEF NothingUnsentMoves, Unqueued
      <4>4. \A z \in Session : x \notin ToSet(deferred[z])
        BY <4>2 DEF DeferredQueues
      <4>5. ASSUME NEW t \in Message PROVE x \notin ToSet(queue'[t])
        <5>1. CASE t = m
          BY <1>2, <5>1, EmptyQueue
        <5>2. CASE t # m /\ queue[t] = <<>>
          BY <1>2, <5>2, EmptyQueue
        <5>3. CASE t # m /\ queue[t] # <<>>
          <6>1. HasLock(t)
            BY <5>3 DEF QueueOwnership, HasLock
          <6>2. SessionOf[t] # s
            BY <1>6, <5>3, <6>1
          <6> QED BY <1>2, <4>2, <5>3, <6>2 DEF PendingQueues
        <5> QED BY <5>1, <5>2, <5>3
      <4> QED BY <1>2, <3>2, <4>1, <4>2, <4>3, <4>4, <4>5
    <3> QED BY <3>1, <3>2
  <2>2. /\ inbound' = inbound \o left \o NextDeferred(SessionOf[m])
        /\ deferred' = [deferred EXCEPT ![SessionOf[m]] = LaterDeferred(SessionOf[m])]
    BY DEF LeaveTurn
  <2>3. \A t \in Message : queue'[t] = queue[t] \/ queue'[t] = <<>>
    BY <1>2
  <2> QED BY <1>2, <1>5, <2>1, <2>2, <2>3, RepublishPlaced
<1>11. FoldedFollowUps'
  BY <1>2 DEF FoldedFollowUps
<1>12. DirectCalls'
  BY <1>2, <1>3, <1>4, ConstantsAssumption DEF DirectCalls, ConstantsAssumption
<1> QED BY <1>7, <1>8, <1>9, <1>10, <1>11, <1>12

\* A direct call that returns had no queue to leave.
LEMMA ReturnDirectPlaced ==
  ASSUME IInv, NEW m \in Direct, phase[m] \in InTurn, ReturnDirect(m),
         \A x \in Message : outcome'[x] = "unsent" => outcome[x] = "unsent"
  PROVE  Placed'
<1> USE DEF IInv, Placed, busVars, turnVars
<1> DEFINE s == SessionOf[m]
<1>1. m \in Message /\ s \in Session /\ None \notin Message
  BY ConstantsAssumption DEF ConstantsAssumption
<1>2. /\ phase'[m] = "idle" /\ \A x \in Message : x # m => phase'[x] = phase[x]
      /\ UNCHANGED <<inbound, deferred, ready, waiters, gateQ, registered, queue, injected>>
  BY <1>1 DEF ReturnDirect, TypeOK
<1>3. owner'[s] = None /\ \A z \in Session : z # s => owner'[z] = owner[z]
  BY <1>1 DEF ReturnDirect, TypeOK
<1>4. Unqueued(m) /\ outcome[m] # "unsent" /\ HasLock(m)
  BY <1>1, LiveIsNotWaiting DEF InTurn, HasLock
<1>5. LockHeld'
  <2> SUFFICES ASSUME NEW x \in Message, HasLock(x)' PROVE owner'[SessionOf[x]] = x
    BY DEF LockHeld
  <2>1. x # m /\ HasLock(x)
    BY <1>2 DEF HasLock, InTurn
  <2>2. SessionOf[x] \in Session /\ SessionOf[x] # s
    BY <1>1, <1>4, <2>1, ConstantsAssumption DEF LockHeld, ConstantsAssumption
  <2> QED BY <1>3, <2>1, <2>2 DEF LockHeld
<1>6. QueueOwnership'
  <2>1. ASSUME NEW z \in Session, registered[z] # None
        PROVE  SessionOf[registered[z]] = z /\ phase'[registered[z]] \in InTurn
    <3>1. registered[z] \in Message /\ registered[z] # m
      BY <2>1 DEF TypeOK, DirectCalls
    <3> QED BY <1>2, <2>1, <3>1 DEF QueueOwnership
  <2>2. ASSUME NEW x \in Message, phase'[x] \notin InTurn
        PROVE  queue[x] = <<>> /\ injected[x] = {}
    BY <1>2, <2>2 DEF QueueOwnership, DirectCalls
  <2> QED BY <1>2, <2>1, <2>2 DEF QueueOwnership
<1>7. TaskQueues'
  <2>1. /\ ToSet(ready) \subseteq Message /\ ToSet(gateQ) \subseteq Message
        /\ \A z \in Session : ToSet(waiters[z]) \subseteq Message
    BY QueueElements DEF TypeOK
  <2>2. phase[m] \notin {"created", "gating", "locking"}
    BY DEF InTurn
  <2> QED BY <1>2, <2>1, <2>2 DEF TaskQueues, Lists
<1>8. BusQueue' /\ PendingQueues' /\ DeferredQueues' /\ NothingUnsentMoves'
  <2>1. \A t \in Message : IsInjective(queue'[t]) /\ ToSet(queue'[t]) \subseteq ToSet(queue[t])
    BY <1>2 DEF PendingQueues, Lists
  <2>2. outcome'[m] # "unsent"
    BY <1>1, <1>4
  <2> QED BY <1>1, <1>2, <1>4, <2>1, <2>2, StillQueued
<1>9. FoldedFollowUps' /\ DirectCalls'
  BY <1>2 DEF FoldedFollowUps, DirectCalls
<1> QED BY <1>5, <1>6, <1>7, <1>8, <1>9

\* Turns end, answered or not.
LEMMA ClosePlaced ==
  ASSUME IInv, NEW m \in Message,
         CloseTurn(m) \/ Fail(m) \/ ContinueGoal(m) \/ CancelTurn(m)
  PROVE  Placed'
<1> USE DEF IInv, Placed
<1>1. phase[m] \in InTurn
  BY DEF CloseTurn, Finish, FinishNew, Fail, ContinueGoal, Putting, CancelTurn, InTurn
<1>2. ASSUME NEW x \in Message, outcome'[x] = "unsent" PROVE outcome[x] = "unsent"
  <2>1. \E F, o : o # "unsent" /\ Settle(F, o)
    BY DEF CloseTurn, Finish, FinishNew, Fail, ContinueGoal, CancelTurn
  <2> QED BY <1>2, <2>1 DEF Settle
<1>3. queue[m] \in Seq(Message) /\ IsInjective(queue[m])
  BY DEF TypeOK, PendingQueues, Lists
<1>4. CASE LeaveTurn(m, queue[m])
  BY <1>1, <1>2, <1>3, <1>4, LeaveTurnPlaced
<1>5. CASE m \in Direct /\ ReturnDirect(m)
  BY <1>1, <1>2, <1>5, ReturnDirectPlaced
<1>6. CASE LeaveTurn(m, Append(queue[m], m))
  <2>1. m \notin ToSet(queue[m])
    BY <1>1 DEF PendingQueues, Lists, InTurn
  <2>2. /\ Append(queue[m], m) \in Seq(Message) /\ IsInjective(Append(queue[m], m))
        /\ ToSet(Append(queue[m], m)) \subseteq ToSet(queue[m]) \cup {m}
    BY <1>3, <2>1, AppendQueue
  <2> QED BY <1>1, <1>2, <1>6, <2>2, LeaveTurnPlaced
<1> QED BY <1>4, <1>5, <1>6
        DEF CloseTurn, Finish, FinishNew, Fail, ContinueGoal, CancelTurn, EndTurn

\* A waiter of a queue gives up: the queue still lists, once each, the others.
LEMMA GiveUpQueue ==
  ASSUME NEW q \in Seq(Message), NEW ph, Lists(q, ph), NEW m \in Message,
         NEW i \in DOMAIN q, q[i] = m,
         \A x \in Message : x # m => phase'[x] = phase[x]
  PROVE  /\ IsInjective(RemoveAt(q, i))
         /\ ToSet(RemoveAt(q, i)) = ToSet(q) \ {m}
         /\ \A x \in ToSet(RemoveAt(q, i)) : phase'[x] = ph
<1>1. IsInjective(RemoveAt(q, i)) /\ ToSet(RemoveAt(q, i)) = ToSet(q) \ {m}
  BY RemoveQueue DEF Lists
<1>2. ToSet(q) \subseteq Message
  BY QueueElements
<1> QED BY <1>1, <1>2 DEF Lists

\* A task or a direct call is cancelled before its turn began.
LEMMA GiveUpPlaced ==
  ASSUME IInv, NEW m \in Message,
         CancelUnstarted(m) \/ CancelAtLock(m) \/ CancelAtGate(m) \/ CancelDirect(m)
  PROVE  Placed'
<1> USE DEF IInv, Placed, busVars, taskVars, lockVars, turnVars
<1> DEFINE s == SessionOf[m]
<1>1. s \in Session /\ None \notin Message
  BY ConstantsAssumption DEF ConstantsAssumption
<1>2. /\ phase'[m] = "idle" /\ \A x \in Message : x # m => phase'[x] = phase[x]
      /\ UNCHANGED <<registered, queue, injected>>
  BY DEF CancelUnstarted, CancelAtLock, CancelAtGate, CancelDirect, AbandonWait, TypeOK
<1>3. ASSUME NEW x \in Message, outcome'[x] = "unsent" PROVE outcome[x] = "unsent"
  <2>1. \E F, o : o # "unsent" /\ Settle(F, o)
    BY DEF CancelUnstarted, CancelAtLock, CancelAtGate, CancelDirect, AbandonWait
  <2> QED BY <1>3, <2>1 DEF Settle
<1>4. phase[m] \in {"created", "locking", "gating"}
  <2>1. CASE CancelUnstarted(m)
    <3>1. m \in ToSet(ready)
      BY <2>1, TailQueue DEF CancelUnstarted, TypeOK
    <3> QED BY <3>1 DEF TaskQueues, Lists
  <2> QED BY <2>1 DEF CancelAtLock, CancelAtGate, CancelDirect
<1>5. Unqueued(m) /\ outcome[m] # "unsent" /\ phase[m] \notin InTurn
  BY <1>4, LiveIsNotWaiting DEF InTurn
<1>6. QueueOwnership'
  <2>1. ASSUME NEW z \in Session, registered[z] # None
        PROVE  SessionOf[registered[z]] = z /\ phase'[registered[z]] \in InTurn
    <3>1. registered[z] \in Message /\ registered[z] # m
      BY <1>5, <2>1 DEF TypeOK, QueueOwnership
    <3> QED BY <1>2, <2>1, <3>1 DEF QueueOwnership
  <2>2. ASSUME NEW x \in Message, phase'[x] \notin InTurn
        PROVE  queue[x] = <<>> /\ injected[x] = {}
    BY <1>2, <1>5, <2>2 DEF QueueOwnership
  <2> QED BY <1>2, <2>1, <2>2 DEF QueueOwnership
<1>7. LockHeld'
  <2>1. CASE owner' = owner
    BY <1>2, <2>1 DEF LockHeld, HasLock, InTurn
  <2>2. CASE CancelAtGate(m)
    <3>1. owner'[s] = None /\ \A z \in Session : z # s => owner'[z] = owner[z]
      BY <1>1, <2>2 DEF CancelAtGate, TypeOK
    <3>2. HasLock(m)
      BY <2>2 DEF CancelAtGate, HasLock
    <3> SUFFICES ASSUME NEW x \in Message, HasLock(x)' PROVE owner'[SessionOf[x]] = x
      BY DEF LockHeld
    <3>3. x # m /\ HasLock(x)
      BY <1>2 DEF HasLock, InTurn
    <3>4. SessionOf[x] \in Session /\ SessionOf[x] # s
      BY <1>1, <3>2, <3>3, ConstantsAssumption DEF LockHeld, ConstantsAssumption
    <3> QED BY <3>1, <3>3, <3>4 DEF LockHeld
  <2> QED BY <2>1, <2>2 DEF CancelUnstarted, CancelAtLock, CancelDirect
<1>8. TaskQueues'
  <2>1. /\ ToSet(ready) \subseteq Message /\ ToSet(gateQ) \subseteq Message
        /\ \A z \in Session : ToSet(waiters[z]) \subseteq Message
    BY QueueElements DEF TypeOK
  <2>2. CASE CancelUnstarted(m)
    <3>1. UNCHANGED <<waiters, gateQ>> /\ ready' = Tail(ready) /\ m = Head(ready) /\ ready # <<>>
      BY <2>2 DEF CancelUnstarted
    <3>2. ToSet(ready') = ToSet(ready) \ {m} /\ IsInjective(ready') /\ m \in ToSet(ready)
      BY <3>1, TailQueue DEF TypeOK, TaskQueues, Lists
    <3>3. phase[m] = "created"
      BY <3>2 DEF TaskQueues, Lists
    <3> QED BY <1>2, <2>1, <3>1, <3>2, <3>3 DEF TaskQueues, Lists
  <2>3. CASE CancelAtLock(m) \/ CancelDirect(m)
    <3>1. /\ phase[m] = "locking" /\ UNCHANGED <<ready, gateQ>>
          /\ \E i \in DOMAIN waiters[s] :
               waiters[s][i] = m /\ waiters' = [waiters EXCEPT ![s] = RemoveAt(@, i)]
      BY <2>3 DEF CancelAtLock, CancelDirect, AbandonWait
    <3>2. PICK i \in DOMAIN waiters[s] :
            waiters[s][i] = m /\ waiters' = [waiters EXCEPT ![s] = RemoveAt(@, i)]
      BY <3>1
    <3>3. /\ waiters'[s] = RemoveAt(waiters[s], i)
          /\ \A z \in Session : z # s => waiters'[z] = waiters[z]
          /\ waiters[s] \in Seq(Message) /\ Lists(waiters[s], "locking")
      BY <1>1, <3>2 DEF TypeOK, TaskQueues
    <3>4. Lists(waiters[s], "locking")' /\ ToSet(waiters'[s]) = ToSet(waiters[s]) \ {m}
      <4>1. /\ IsInjective(RemoveAt(waiters[s], i))
            /\ ToSet(RemoveAt(waiters[s], i)) = ToSet(waiters[s]) \ {m}
            /\ \A x \in ToSet(RemoveAt(waiters[s], i)) : phase'[x] = "locking"
        BY <1>2, <3>2, <3>3, GiveUpQueue
      <4> QED BY <3>3, <4>1 DEF Lists
    <3>5. Lists(ready, "created")' /\ Lists(gateQ, "gating")'
      BY <1>2, <2>1, <3>1 DEF TaskQueues, Lists
    <3>6. ASSUME NEW z \in Session, z # s
          PROVE  Lists(waiters[z], "locking")' /\ \A x \in ToSet(waiters'[z]) : SessionOf[x] = z
      BY <1>1, <1>2, <2>1, <3>3, <3>6 DEF TaskQueues, Lists
    <3>7. \A x \in ToSet(waiters'[s]) : SessionOf[x] = s
      BY <1>1, <3>4 DEF TaskQueues
    <3> QED BY <3>4, <3>5, <3>6, <3>7 DEF TaskQueues
  <2>4. CASE CancelAtGate(m)
    <3>1. phase[m] = "gating" /\ UNCHANGED <<ready, waiters>>
      BY <2>4 DEF CancelAtGate, AbandonWait
    <3>2. PICK i \in DOMAIN gateQ : gateQ[i] = m /\ gateQ' = RemoveAt(gateQ, i)
      BY <2>4 DEF CancelAtGate
    <3>3. Lists(gateQ, "gating")'
      <4>1. gateQ \in Seq(Message) /\ Lists(gateQ, "gating")
        BY DEF TypeOK, TaskQueues
      <4>2. /\ IsInjective(RemoveAt(gateQ, i))
            /\ \A x \in ToSet(RemoveAt(gateQ, i)) : phase'[x] = "gating"
        BY <1>2, <3>2, <4>1, GiveUpQueue
      <4> QED BY <3>2, <4>2 DEF Lists
    <3> QED BY <1>2, <2>1, <3>1, <3>3 DEF TaskQueues, Lists
  <2> QED BY <2>2, <2>3, <2>4
<1>9. BusQueue' /\ PendingQueues' /\ DeferredQueues' /\ NothingUnsentMoves'
  <2>1. CASE UNCHANGED <<inbound, deferred>>
    <3>1. \A t \in Message : IsInjective(queue'[t]) /\ ToSet(queue'[t]) \subseteq ToSet(queue[t])
      BY <1>2 DEF PendingQueues, Lists
    <3>2. outcome'[m] # "unsent"
      BY <1>3, <1>5
    <3> QED BY <1>2, <1>3, <1>5, <2>1, <3>1, <3>2, StillQueued
  <2>2. CASE AbandonWait(m)
    <3>1. inbound' = inbound \o <<>> \o NextDeferred(s)
      <4>1. inbound \o <<>> = inbound
        BY ConcatEmptySeq DEF TypeOK
      <4> QED BY <2>2, <4>1 DEF AbandonWait
    <3>2. deferred' = [deferred EXCEPT ![s] = LaterDeferred(s)]
      BY <2>2 DEF AbandonWait
    <3>3. <<>> \in Seq(Message) /\ IsInjective(<<>>) /\ ToSet(<<>>) = {}
      BY EmptyQueue, EmptySeq
    <3> QED BY <1>2, <1>3, <1>4, <3>1, <3>2, <3>3, RepublishPlaced
  <2> QED BY <2>1, <2>2 DEF CancelUnstarted, CancelAtLock, CancelAtGate, CancelDirect
<1>10. FoldedFollowUps'
  BY <1>2 DEF FoldedFollowUps
<1>11. DirectCalls'
  <2>1. Direct \cap ToSet(gateQ') = {}
    <3>1. CASE gateQ' = gateQ
      BY <3>1 DEF DirectCalls
    <3>2. CASE CancelAtGate(m)
      <4>1. PICK i \in DOMAIN gateQ : gateQ' = RemoveAt(gateQ, i)
        BY <3>2 DEF CancelAtGate
      <4>2. ToSet(gateQ') \subseteq ToSet(gateQ)
        BY <4>1, RemoveQueue DEF TypeOK
      <4> QED BY <4>2 DEF DirectCalls
    <3> QED BY <3>1, <3>2 DEF CancelUnstarted, CancelAtLock, CancelDirect
  <2> QED BY <1>2, <2>1 DEF DirectCalls
<1> QED BY <1>6, <1>7, <1>8, <1>9, <1>10, <1>11

\* One step, whatever it is, preserves the invariant.
LEMMA NextPlaced == IInv /\ [Next]_vars => IInv'
<1> SUFFICES ASSUME IInv, [Next]_vars PROVE Placed'
  BY NextTyped DEF IInv
<1>1. CASE Next
  <2> PICK m \in Message :
        \/ Arrive(m) \/ Run(m) \/ Admit(m) \/ Work(m) \/ EndSlice(m) \/ CloseTurn(m)
        \/ Fail(m) \/ Deliver(m) \/ CancelDirect(m)
    BY <1>1 DEF Next
  <2> QED BY ArrivePlaced, RunPlaced, AdmitPlaced, WorkPlaced, ClosePlaced, GiveUpPlaced
          DEF Arrive, EndSlice, Deliver
<1>2. CASE UNCHANGED vars
  <2>1. UNCHANGED <<inbound, deferred, ready, phase, owner, waiters, gateQ, registered, queue,
                    injected, outcome>>
    BY <1>2 DEF vars, busVars, taskVars, lockVars, turnVars
  <2>2. LockHeld' /\ QueueOwnership' /\ TaskQueues' /\ BusQueue'
    BY <2>1 DEF IInv, Placed, LockHeld, HasLock, QueueOwnership, TaskQueues, BusQueue, Lists
  <2>3. PendingQueues' /\ DeferredQueues'
    BY <2>1 DEF IInv, Placed, PendingQueues, DeferredQueues, Lists
  <2>4. NothingUnsentMoves' /\ FoldedFollowUps' /\ DirectCalls'
    BY <2>1 DEF IInv, Placed, NothingUnsentMoves, Unqueued, FoldedFollowUps, DirectCalls
  <2> QED BY <2>2, <2>3, <2>4 DEF Placed
<1> QED BY <1>1, <1>2

\* Every reachable state satisfies it.
LEMMA Invariance == Spec => []IInv
<1>1. Init => IInv
  BY InitTyped, InitPlaced DEF IInv
<1> QED BY <1>1, NextPlaced, PTL DEF Spec

-----------------------------------------------------------------------------
(* What follows from it.                                                    *)

\* Two turns of one session are never in progress together, for any number of
\* sessions, messages and permits, whatever is cancelled and when.
THEOREM Serial == Spec => []SerialTurns
<1>1. IInv => SerialTurns
  BY DEF IInv, Placed, LockHeld, HasLock, SerialTurns
<1> QED BY <1>1, Invariance, PTL

\* A published pending queue belongs to a turn in progress of its session, and
\* a turn that is over leaves nothing behind in its queue.
THEOREM Ownership == Spec => []QueueOwnership
<1>1. IInv => QueueOwnership
  BY DEF IInv, Placed
<1> QED BY <1>1, Invariance, PTL

\* No automation turn is ever injected into another turn.
THEOREM StandsAlone == Spec => []AutomationStandsAlone
<1>1. IInv => AutomationStandsAlone
  BY DEF IInv, Placed, PendingQueues, FoldedFollowUps, AutomationStandsAlone
<1> QED BY <1>1, Invariance, PTL

-----------------------------------------------------------------------------
(* The accounts of permits and messages.                                    *)

\* The dispatched turns in progress: each holds a permit.
Holders == {m \in Message \ Direct : phase[m] \in InTurn}
Permits == IsFiniteSet(Holders) /\ permits + Cardinality(Holders) = Gate

\* A direct call never travels through the bus, nor is it tracked as a task.
DirectApart == \A m \in Direct :
  /\ m \notin ToSet(inbound) \cup active \cup cancelled
  /\ \A t \in Message : m \notin ToSet(queue[t])

\* The task of a /new never enters the runner.
Resetting == \A m \in Message :
  /\ phase[m] = "resetting" => CommandOf(m) = "new"
  /\ CommandOf(m) = "new" => injected[m] = {}

\* A follow-up folded into a turn is of that turn's session, and nowhere else.
FoldedApart == \A t \in Message : \A m \in injected[t] :
  /\ phase[m] = "idle" /\ Unqueued(m) /\ loop # m
  /\ SessionOf[m] = SessionOf[t]

\* Neither is the command run() is executing.
InlineApart == loop # None => phase[loop] = "idle" /\ Unqueued(loop)

Folded(m)    == \E t \in Message : m \in injected[t]
Somewhere(m) == ~Unqueued(m) \/ Folded(m) \/ phase[m] # "idle" \/ loop = m

\* What is open is somewhere, and what is somewhere is open.
Found == \A m \in Message : outcome[m] = "open" <=> Somewhere(m)

\* An automation that does not spell a priority command is never executed by
\* run() itself; while its submitter waits it is open, or was cut off.
Answering == \A a \in Automation : Command[a] \notin Priority =>
  /\ loop # a
  /\ waiter[a] = "waiting" => outcome[a] \in {"open", "cancelled"}

\* Somebody who will publish the next deferred turn of s, or a casualty.
Publisher(w) ==
  \/ phase[w] \in InTurn
  \/ /\ w \in Automation
     /\ phase[w] # "idle" \/ w \in ToSet(inbound) \/ outcome[w] = "cancelled"
Watched == \A s \in Session : deferred[s] # <<>> =>
  \E w \in Message \ Direct : SessionOf[w] = s /\ Publisher(w)

-----------------------------------------------------------------------------
(* A /new keeps out of the runner.                                          *)

\* A step starts a reset only for a /new, folds follow-ups only into a turn
\* that is not one, and makes continuations without unmaking any.
LEMMA StepResets ==
  ASSUME TypeOK, NEW m \in Message,
         \/ Arrive(m) \/ Run(m) \/ Admit(m) \/ Work(m) \/ EndSlice(m) \/ CloseTurn(m)
         \/ Fail(m) \/ Deliver(m) \/ CancelDirect(m)
  PROVE  /\ cont \subseteq cont'
         /\ \A x \in Message :
              /\ injected'[x] \subseteq injected[x] \/ CommandOf(x) # "new"
              /\ phase'[x] = "resetting" =>
                   \/ x \notin cont' /\ Command[x] = "new"
                   \/ phase[x] = "resetting" /\ (x \in cont' => x \in cont)
<1> USE DEF TypeOK, busVars, taskVars, lockVars, turnVars, goalVars
<1>1. CASE Publish(m) \/ Submit(m) \/ Run(m)
  <2>1. UNCHANGED <<cont, injected>> /\ (UNCHANGED phase \/ phase' = [phase EXCEPT ![m] = "created"])
    BY <1>1 DEF Publish, Submit, Run, RunPriority, RunDefer, RunInline, RunInject, RunSpawn,
      RunReply
  <2> QED BY <2>1
<1>2. CASE CallDirect(m) \/ Admit(m)
  <2>1. UNCHANGED <<cont, injected>>
    BY <1>2 DEF CallDirect, Admit, StartTask, GrantLock, GrantGate
  <2>2. \E ph \in {"running", "gating", "locking"} : phase' = [phase EXCEPT ![m] = ph]
    BY <1>2 DEF CallDirect, Admit, StartTask, GrantLock, GrantGate, ReachLock, TakeLock, AwaitLock,
                OpenTurn, StartRunning
  <2> QED BY <2>1, <2>2
<1>3. CASE Work(m) \/ Answer(m) \/ Exhaust(m) \/ Yield(m) \/ BlockOnPut(m)
  <2>1. (CommandOf(m) # "new" \/ UNCHANGED injected) /\ UNCHANGED cont
    BY <1>3 DEF Work, Inject, StartGoal, EndGoal, Answer, Exhaust, Yield, LastDrain, BlockOnPut, InRunner
  <2>2. UNCHANGED phase \/ \E ph \in {"closing", "yielding", "blocked"} : phase' = [phase EXCEPT ![m] = ph]
    BY <1>3 DEF Work, Inject, StartGoal, EndGoal, Answer, Exhaust, Yield, LastDrain, BlockOnPut
  <2>3. UNCHANGED injected \/ injected' = [injected EXCEPT ![m] = @ \cup Drained(m)]
    BY <1>3 DEF Work, Inject, StartGoal, EndGoal, Answer, Exhaust, Yield, LastDrain, BlockOnPut
  <2> QED BY <2>1, <2>2, <2>3
<1>4. CASE NewCommand(m)
  <2>1. UNCHANGED <<cont, injected>> /\ phase' = [phase EXCEPT ![m] = "resetting"]
    BY <1>4 DEF NewCommand
  <2>2. m \notin cont /\ Command[m] = "new"
    BY <1>4 DEF NewCommand, CommandOf
  <2> QED BY <2>1, <2>2
<1>5. CASE ContinueGoal(m) \/ CloseTurn(m) \/ Fail(m) \/ Deliver(m) \/ CancelDirect(m)
  <2>1. phase' = [phase EXCEPT ![m] = "idle"]
    BY <1>5 DEF ContinueGoal, CloseTurn, Finish, FinishNew, Fail, Deliver, CancelUnstarted, CancelAtLock,
                CancelAtGate, CancelTurn, CancelDirect, AbandonWait, EndTurn, LeaveTurn,
                ReturnDirect
  <2>2. cont' = cont \/ cont' = cont \cup {m}
    BY <1>5 DEF ContinueGoal, CloseTurn, Finish, FinishNew, Fail, Deliver, CancelUnstarted, CancelAtLock,
                CancelAtGate, CancelTurn, CancelDirect, AbandonWait
  <2>3. injected' = injected \/ injected' = [injected EXCEPT ![m] = {}]
    BY <1>5 DEF ContinueGoal, CloseTurn, Finish, FinishNew, Fail, Deliver, CancelUnstarted, CancelAtLock,
                CancelAtGate, CancelTurn, CancelDirect, AbandonWait, EndTurn, LeaveTurn,
                ReturnDirect
  <2> QED BY <2>1, <2>2, <2>3
<1> QED BY <1>1, <1>2, <1>3, <1>4, <1>5 DEF Arrive, EndSlice

\* Every step keeps /new out of the runner.
LEMMA NextResetting ==
  ASSUME TypeOK, Resetting, [Next]_vars
  PROVE  Resetting'
<1>1. CASE Next
  <2>1. PICK m \in Message :
        \/ Arrive(m) \/ Run(m) \/ Admit(m) \/ Work(m) \/ EndSlice(m) \/ CloseTurn(m)
        \/ Fail(m) \/ Deliver(m) \/ CancelDirect(m)
    BY <1>1 DEF Next
  <2>2. /\ cont \subseteq cont'
        /\ \A x \in Message :
             /\ injected'[x] \subseteq injected[x] \/ CommandOf(x) # "new"
             /\ phase'[x] = "resetting" =>
                  \/ x \notin cont' /\ Command[x] = "new"
                  \/ phase[x] = "resetting" /\ (x \in cont' => x \in cont)
    BY <2>1, StepResets
  <2> QED BY <2>2 DEF Resetting, CommandOf
<1>2. CASE UNCHANGED vars
  BY <1>2 DEF vars, turnVars, taskVars, goalVars, Resetting, CommandOf
<1> QED BY <1>1, <1>2

-----------------------------------------------------------------------------
(* Direct calls stay off the bus.                                           *)

\* What a turn gives back to the bus: what it leaves of its queue, and at most
\* one of the deferred turns of its session.
LEMMA GivesBack ==
  ASSUME IInv, NEW m \in Message, NEW left \in Seq(Message),
         inbound' = inbound \o left \o NextDeferred(SessionOf[m]),
         deferred' = [deferred EXCEPT ![SessionOf[m]] = LaterDeferred(SessionOf[m])]
  PROVE  \E N \in SUBSET ToSet(deferred[SessionOf[m]]) :
           /\ ToSet(inbound') = ToSet(inbound) \cup ToSet(left) \cup N
           /\ ToSet(deferred'[SessionOf[m]]) = ToSet(deferred[SessionOf[m]]) \ N
           /\ \A z \in Session \ {SessionOf[m]} : deferred'[z] = deferred[z]
           /\ deferred[SessionOf[m]] # <<>> => N # {}
<1> DEFINE s == SessionOf[m]
           next == NextDeferred(s)
           N == ToSet(next)
<1>1. s \in Session
  BY ConstantsAssumption DEF ConstantsAssumption
<1>2. deferred[s] \in Seq(Message) /\ IsInjective(deferred[s])
  BY <1>1 DEF IInv, TypeOK, Placed, DeferredQueues, Lists
<1>3. /\ next \in Seq(Message) /\ N \subseteq ToSet(deferred[s])
      /\ ToSet(LaterDeferred(s)) = ToSet(deferred[s]) \ N
      /\ deferred[s] # <<>> => N # {}
  <2>1. CASE deferred[s] = <<>>
    BY <2>1, EmptyQueue, EmptySeq DEF NextDeferred, LaterDeferred
  <2>2. CASE deferred[s] # <<>>
    <3>1. next = <<Head(deferred[s])>> /\ LaterDeferred(s) = Tail(deferred[s])
      BY <2>2 DEF NextDeferred, LaterDeferred
    <3>2. /\ Head(deferred[s]) \in Message /\ Head(deferred[s]) \in ToSet(deferred[s])
          /\ ToSet(Tail(deferred[s])) = ToSet(deferred[s]) \ {Head(deferred[s])}
      BY <1>2, <2>2, TailQueue
    <3>3. next \in Seq(Message) /\ N = {Head(deferred[s])}
      BY <3>1, <3>2, SingleQueue
    <3> QED BY <3>1, <3>2, <3>3
  <2> QED BY <2>1, <2>2
<1> HIDE DEF next
<1>4. ToSet((inbound \o left) \o next) = ToSet(inbound) \cup ToSet(left) \cup N
  <2>1. inbound \in Seq(Message)
    BY DEF IInv, TypeOK
  <2>2. inbound \o left \in Seq(Message) /\ ToSet(inbound \o left) = ToSet(inbound) \cup ToSet(left)
    BY <2>1, ConcatQueue
  <2> DEFINE c == inbound \o left
  <2>3. c \in Seq(Message)
    BY <2>2
  <2> HIDE DEF c
  <2>4. ToSet(c \o next) = ToSet(c) \cup N
    BY <1>3, <2>3, ConcatQueue
  <2> QED BY <2>2, <2>4 DEF c
<1>5. deferred'[s] = LaterDeferred(s) /\ \A z \in Session \ {s} : deferred'[z] = deferred[z]
  BY <1>1 DEF IInv, TypeOK
<1>6. inbound' = (inbound \o left) \o next
  BY DEF next
<1> QED BY <1>3, <1>4, <1>5, <1>6

\* No step puts a direct call on the bus, in a queue or among the tasks.
LEMMA StepDirect ==
  ASSUME IInv, DirectApart, NEW m \in Message,
         \/ Arrive(m) \/ Run(m) \/ Admit(m) \/ Work(m) \/ EndSlice(m) \/ CloseTurn(m)
         \/ Fail(m) \/ Deliver(m) \/ CancelDirect(m)
  PROVE  DirectApart'
<1> USE DEF busVars, taskVars, lockVars, turnVars, goalVars
<1>1. /\ Direct \subseteq Message \ Automation /\ SessionOf[m] \in Session
      /\ None \notin Message
  BY ConstantsAssumption DEF ConstantsAssumption
<1>2. TypeOK
  BY DEF IInv
<1>3. CASE Publish(m) \/ Submit(m)
  <2>1. m \notin Direct /\ inbound' = Append(inbound, m) /\ UNCHANGED <<active, cancelled, queue>>
    BY <1>1, <1>3 DEF Publish, Submit
  <2>2. ToSet(inbound') = ToSet(inbound) \cup {m}
    BY <1>2, <2>1, AppendQueue DEF TypeOK
  <2> QED BY <2>1, <2>2 DEF DirectApart
<1>4. CASE RunReply(m)
  <2>1. UNCHANGED <<inbound, active, cancelled>>
    BY <1>4 DEF RunReply
  <2>2. \A t \in Message : queue'[t] = queue[t] \/ queue'[t] = <<>>
    BY <1>2, <1>4 DEF RunReply, TypeOK
  <2> QED BY <2>1, <2>2, EmptyQueue DEF DirectApart
<1>5. CASE Consumes(m) /\ Run(m)
  <2>1. m \in ToSet(inbound) /\ ToSet(inbound') \subseteq ToSet(inbound)
    BY <1>2, <1>5, TailQueue DEF TypeOK, Consumes
  <2>2. m \notin Direct
    BY <2>1 DEF DirectApart
  <2>3. active' \subseteq active \cup {m} /\ cancelled' \subseteq cancelled \cup active
    <3>1. \/ UNCHANGED <<active, cancelled>>
          \/ active' = active \cup {m} /\ cancelled' = cancelled
          \/ Cancel(SessionOf[m], m)
          \/ RunReply(m)
      BY <1>5 DEF Run, RunPriority, RunDefer, RunInline, RunInject, RunSpawn
    <3>2. ~RunReply(m)
      BY <1>1, <1>5 DEF RunReply, Consumes
    <3> QED BY <3>1, <3>2 DEF Cancel, TasksOf
  <2>4. ASSUME NEW t \in Message PROVE ToSet(queue'[t]) \subseteq ToSet(queue[t]) \cup {m}
    <3>1. CASE UNCHANGED queue
      BY <3>1
    <3>2. CASE RunInject(m)
      <4>1. PICK u : queue' = [queue EXCEPT ![u] = Append(@, m)]
        BY <3>2 DEF RunInject
      <4>2. queue[t] \in Seq(Message)
        BY <1>2 DEF TypeOK
      <4>3. ToSet(Append(queue[t], m)) = ToSet(queue[t]) \cup {m}
        BY <4>2, AppendQueue
      <4>4. queue'[t] = queue[t] \/ queue'[t] = Append(queue[t], m)
        BY <1>2, <4>1 DEF TypeOK
      <4> QED BY <4>3, <4>4
    <3>3. ~RunReply(m)
      BY <1>1, <1>5 DEF RunReply, Consumes
    <3> QED BY <1>5, <3>1, <3>2, <3>3 DEF Run, RunPriority, RunDefer, RunInline, RunSpawn
  <2> QED BY <2>1, <2>2, <2>3, <2>4 DEF DirectApart
<1>6. CASE CallDirect(m) \/ Admit(m)
  <2>1. UNCHANGED <<inbound, active, cancelled>>
    BY <1>6 DEF CallDirect, Admit, StartTask, GrantLock, GrantGate
  <2>2. queue' = queue \/ queue' = [queue EXCEPT ![m] = <<>>]
    BY <1>6 DEF CallDirect, Admit, StartTask, GrantLock, GrantGate, ReachLock, TakeLock, AwaitLock,
                OpenTurn, StartRunning
  <2>3. \A t \in Message : queue'[t] = queue[t] \/ queue'[t] = <<>>
    BY <1>2, <2>2 DEF TypeOK
  <2> QED BY <2>1, <2>3, EmptyQueue DEF DirectApart
<1>7. CASE \/ Work(m) \/ Answer(m) \/ Exhaust(m) \/ Yield(m) \/ BlockOnPut(m)
           \/ NewCommand(m)
  <2>1. UNCHANGED inbound /\ active' \subseteq active /\ cancelled' \subseteq cancelled \cup active
    BY <1>7 DEF Work, Inject, StartGoal, EndGoal, Answer, Exhaust, Yield, LastDrain, BlockOnPut, NewCommand,
      Cancel, TasksOf
  <2>2. queue' = queue \/ queue' = [queue EXCEPT ![m] = Kept(m)]
    BY <1>7 DEF Work, Inject, StartGoal, EndGoal, Answer, Exhaust, Yield, LastDrain, BlockOnPut, NewCommand
  <2>3. \A t \in Message : ToSet(queue'[t]) \subseteq ToSet(queue[t])
    BY <1>2, <2>2, KeptTyped DEF TypeOK
  <2> QED BY <2>1, <2>3 DEF DirectApart
<1>8. CASE ContinueGoal(m) \/ CloseTurn(m) \/ Fail(m) \/ Deliver(m) \/ CancelDirect(m)
  <2>1. active' \subseteq active /\ cancelled' \subseteq cancelled
    BY <1>8 DEF ContinueGoal, CloseTurn, Finish, FinishNew, Fail, Deliver, CancelUnstarted, CancelAtLock,
                CancelAtGate, CancelTurn, CancelDirect, AbandonWait, EndTurn, LeaveTurn,
                ReturnDirect
  <2>2. queue' = queue \/ queue' = [queue EXCEPT ![m] = <<>>]
    BY <1>8 DEF ContinueGoal, CloseTurn, Finish, FinishNew, Fail, Deliver, CancelUnstarted, CancelAtLock,
                CancelAtGate, CancelTurn, CancelDirect, AbandonWait, EndTurn, LeaveTurn,
                ReturnDirect
  <2>3. \A t \in Message : queue'[t] = queue[t] \/ queue'[t] = <<>>
    BY <1>2, <2>2 DEF TypeOK
  <2>4. ToSet(inbound') \cap Direct = {}
    <3>1. CASE UNCHANGED inbound
      BY <3>1 DEF DirectApart
    <3>2. ASSUME NEW left \in Seq(Message),
                 inbound' = inbound \o left \o NextDeferred(SessionOf[m]),
                 deferred' = [deferred EXCEPT ![SessionOf[m]] = LaterDeferred(SessionOf[m])],
                 ToSet(left) \cap Direct = {}
          PROVE  ToSet(inbound') \cap Direct = {}
      <4>1. PICK N \in SUBSET ToSet(deferred[SessionOf[m]]) :
              ToSet(inbound') = ToSet(inbound) \cup ToSet(left) \cup N
        BY <3>2, GivesBack
      <4>2. ToSet(deferred[SessionOf[m]]) \subseteq Automation
        BY <1>1 DEF IInv, Placed, DeferredQueues
      <4> QED BY <1>1, <3>2, <4>1, <4>2 DEF DirectApart
    <3>3. CASE LeaveTurn(m, queue[m])
      <4>1. queue[m] \in Seq(Message) /\ ToSet(queue[m]) \cap Direct = {}
        BY <1>2 DEF TypeOK, DirectApart
      <4> QED BY <3>2, <3>3, <4>1 DEF LeaveTurn
    <3>4. CASE LeaveTurn(m, Append(queue[m], m)) /\ m \notin Direct
      <4>1. queue[m] \in Seq(Message) /\ ToSet(queue[m]) \cap Direct = {}
        BY <1>2 DEF TypeOK, DirectApart
      <4>2. /\ Append(queue[m], m) \in Seq(Message)
            /\ ToSet(Append(queue[m], m)) = ToSet(queue[m]) \cup {m}
        BY <4>1, AppendQueue
      <4>3. ToSet(Append(queue[m], m)) \cap Direct = {}
        BY <3>4, <4>1, <4>2
      <4> QED BY <3>2, <3>4, <4>2, <4>3 DEF LeaveTurn
    <3>5. CASE AbandonWait(m)
      <4>1. inbound \o <<>> = inbound
        BY <1>2, ConcatEmptySeq DEF TypeOK
      <4>2. <<>> \in Seq(Message) /\ ToSet(<<>>) \cap Direct = {}
        BY EmptyQueue, EmptySeq
      <4>3. /\ inbound' = inbound \o <<>> \o NextDeferred(SessionOf[m])
            /\ deferred' = [deferred EXCEPT ![SessionOf[m]] = LaterDeferred(SessionOf[m])]
        BY <3>5, <4>1 DEF AbandonWait
      <4> QED BY <3>2, <4>2, <4>3
    <3> QED
      BY <1>8, <3>1, <3>3, <3>4, <3>5
         DEF ContinueGoal, Putting, MayContinue, CloseTurn, Finish, FinishNew, Fail, Deliver, CancelUnstarted,
             CancelAtLock, CancelAtGate, CancelTurn, CancelDirect, EndTurn, ReturnDirect
  <2> QED BY <2>1, <2>3, <2>4, EmptyQueue DEF DirectApart
<1>9. CASE Run(m) /\ ~Consumes(m)
  BY <1>4, <1>9 DEF Run, RunPriority, RunDefer, RunInline, RunInject, RunSpawn
<1> QED BY <1>3, <1>5, <1>6, <1>7, <1>8, <1>9 DEF Arrive, EndSlice

-----------------------------------------------------------------------------
(* The permits of the gate.                                                 *)

\* The books of the gate when one dispatched turn begins or ends, or none.
LEMMA PermitMoves ==
  ASSUME TypeOK, Permits, NEW m \in Message,
         \A x \in Message : x # m => phase'[x] = phase[x],
         \/ /\ m \in Direct \/ (phase'[m] \in InTurn <=> phase[m] \in InTurn)
            /\ permits' = permits
         \/ /\ m \notin Direct /\ phase[m] \notin InTurn /\ phase'[m] \in InTurn
            /\ permits > 0 /\ permits' = permits - 1
         \/ /\ m \notin Direct /\ phase[m] \in InTurn /\ phase'[m] \notin InTurn
            /\ permits' = permits + 1
  PROVE  Permits'
<1>1. permits \in Nat /\ Gate \in Nat /\ IsFiniteSet(Holders) /\ permits + Cardinality(Holders) = Gate
  BY ConstantsAssumption DEF TypeOK, Permits, ConstantsAssumption
<1>2. Cardinality(Holders) \in Nat
  BY <1>1, FS_CardinalityType
<1>3. CASE Holders' = Holders /\ permits' = permits
  BY <1>1, <1>3 DEF Permits
<1>4. CASE m \notin Holders /\ Holders' = Holders \cup {m} /\ permits > 0 /\ permits' = permits - 1
  <2>1. /\ IsFiniteSet(Holders \cup {m})
        /\ Cardinality(Holders \cup {m}) = Cardinality(Holders) + 1
    BY <1>1, <1>4, FS_AddElement
  <2>2. IsFiniteSet(Holders') /\ permits' + Cardinality(Holders') = Gate
    BY <1>1, <1>2, <1>4, <2>1
  <2> QED BY <2>2 DEF Permits
<1>5. CASE m \in Holders /\ Holders' = Holders \ {m} /\ permits' = permits + 1
  <2>1. /\ IsFiniteSet(Holders \ {m})
        /\ Cardinality(Holders \ {m}) = Cardinality(Holders) - 1
    BY <1>1, <1>5, FS_RemoveElement
  <2>2. IsFiniteSet(Holders') /\ permits' + Cardinality(Holders') = Gate
    BY <1>1, <1>2, <1>5, <2>1
  <2> QED BY <2>2 DEF Permits
<1> QED BY <1>3, <1>4, <1>5 DEF Holders

\* Only dispatched turns take permits, and each gives back the one it took.
LEMMA StepPermits ==
  ASSUME IInv, DirectApart, Resetting, Permits, NEW m \in Message,
         \/ Arrive(m) \/ Run(m) \/ Admit(m) \/ Work(m) \/ EndSlice(m) \/ CloseTurn(m)
         \/ Fail(m) \/ Deliver(m) \/ CancelDirect(m)
  PROVE  Permits'
<1> USE DEF busVars, taskVars, lockVars, turnVars, goalVars
<1>1. TypeOK /\ SessionOf[m] \in Session /\ None \notin Message
  BY ConstantsAssumption DEF ConstantsAssumption, IInv
<1>2. CASE Publish(m) \/ Submit(m) \/ (Run(m) /\ ~RunSpawn(m))
  <2>1. UNCHANGED <<phase, permits>>
    BY <1>2 DEF Publish, Submit, Run, RunPriority, RunDefer, RunInline, RunInject, RunReply
  <2> QED BY <1>1, <2>1, PermitMoves
<1>3. CASE RunSpawn(m)
  <2>1. phase' = [phase EXCEPT ![m] = "created"] /\ UNCHANGED permits
    BY <1>3 DEF RunSpawn
  <2>2. phase[m] = "idle"
    BY <1>3, ConsumedIsFree DEF RunSpawn
  <2>3. phase[m] \notin InTurn /\ phase'[m] \notin InTurn
    BY <1>1, <2>1, <2>2 DEF TypeOK, InTurn
  <2> QED BY <1>1, <2>1, <2>3, PermitMoves DEF TypeOK
<1>4. CASE CallDirect(m) \/ Admit(m)
  <2>1. phase[m] \notin InTurn
    <3>1. phase[m] \in {"idle", "created", "locking", "gating"}
      <4>1. CASE CallDirect(m)
        BY <4>1 DEF CallDirect, IInv, Placed, NothingUnsentMoves
      <4>2. CASE StartTask(m)
        BY <1>1, <4>2, TailQueue DEF StartTask, TypeOK, IInv, Placed, TaskQueues, Lists
      <4>3. CASE GrantLock(m)
        BY <1>1, <4>3, TailQueue DEF GrantLock, TypeOK, IInv, Placed, TaskQueues, Lists
      <4>4. CASE GrantGate(m)
        BY <1>1, <4>4, TailQueue DEF GrantGate, TypeOK, IInv, Placed, TaskQueues, Lists
      <4> QED BY <1>4, <4>1, <4>2, <4>3, <4>4 DEF Admit
    <3> QED BY <3>1 DEF InTurn
  <2>2. \/ /\ \E ph \in {"gating", "locking"} : phase' = [phase EXCEPT ![m] = ph]
           /\ permits' = permits
        \/ phase' = [phase EXCEPT ![m] = "running"] /\ m \in Direct /\ permits' = permits
        \/ /\ phase' = [phase EXCEPT ![m] = "running"] /\ m \notin Direct
           /\ permits > 0 /\ permits' = permits - 1
    <3>1. CASE GrantGate(m)
      <4>1. m \in ToSet(gateQ)
        BY <1>1, <3>1, TailQueue DEF GrantGate, TypeOK
      <4>2. m \notin Direct
        BY <4>1 DEF IInv, Placed, DirectCalls
      <4> QED BY <3>1, <4>2 DEF GrantGate, OpenTurn, StartRunning
    <3>2. CASE TakeLock(m) \/ AwaitLock(m)
      BY <3>2 DEF TakeLock, AwaitLock, OpenTurn, GateIsFree, StartRunning
    <3> QED BY <1>4, <3>1, <3>2 DEF CallDirect, Admit, StartTask, GrantLock, ReachLock
  <2>3. /\ \A x \in Message : x # m => phase'[x] = phase[x]
        /\ \/ phase'[m] \notin InTurn /\ permits' = permits
           \/ m \in Direct /\ permits' = permits
           \/ m \notin Direct /\ phase'[m] \in InTurn /\ permits > 0 /\ permits' = permits - 1
    BY <1>1, <2>2 DEF TypeOK, InTurn
  <2> QED BY <1>1, <2>1, <2>3, PermitMoves
<1>5. CASE \/ Work(m) \/ Answer(m) \/ Exhaust(m) \/ Yield(m) \/ BlockOnPut(m)
           \/ NewCommand(m)
  <2>1. phase[m] \in {"running", "yielding"} /\ UNCHANGED permits
    BY <1>5 DEF Work, Inject, StartGoal, EndGoal, Answer, Exhaust, Yield, LastDrain, BlockOnPut, Putting,
                NewCommand, InRunner
  <2>2. UNCHANGED phase \/ \E ph \in {"closing", "yielding", "blocked", "resetting"} :
                            phase' = [phase EXCEPT ![m] = ph]
    BY <1>5 DEF Work, Inject, StartGoal, EndGoal, Answer, Exhaust, Yield, LastDrain, BlockOnPut, NewCommand
  <2>3. phase[m] \in InTurn /\ phase'[m] \in InTurn /\ \A x \in Message : x # m => phase'[x] = phase[x]
    BY <1>1, <2>1, <2>2 DEF TypeOK, InTurn
  <2> QED BY <1>1, <2>1, <2>3, PermitMoves
<1>6. CASE ContinueGoal(m) \/ CloseTurn(m) \/ Fail(m) \/ CancelTurn(m)
  <2>1. phase[m] \in InTurn
    BY <1>6 DEF CloseTurn, Finish, FinishNew, Fail, ContinueGoal, Putting, CancelTurn, InTurn
  <2>2. phase' = [phase EXCEPT ![m] = "idle"]
    BY <1>6 DEF ContinueGoal, CloseTurn, Finish, FinishNew, Fail, CancelTurn, EndTurn, LeaveTurn,
                ReturnDirect
  <2>3. \/ m \in Direct /\ permits' = permits
        \/ m \notin Direct /\ permits' = permits + 1
    <3>1. CASE Finish(m) \/ FinishNew(m) \/ Fail(m)
      BY <3>1 DEF Finish, FinishNew, Fail, EndTurn, LeaveTurn, ReturnDirect
    <3>2. CASE ContinueGoal(m)
      BY <3>2 DEF ContinueGoal, Putting, MayContinue, LeaveTurn
    <3>3. CASE CancelTurn(m)
      BY <3>3 DEF CancelTurn, LeaveTurn, DirectApart
    <3> QED BY <1>6, <3>1, <3>2, <3>3 DEF CloseTurn
  <2>4. phase'[m] \notin InTurn /\ \A x \in Message : x # m => phase'[x] = phase[x]
    BY <1>1, <2>2 DEF TypeOK, InTurn
  <2> QED BY <1>1, <2>1, <2>3, <2>4, PermitMoves
<1>7. CASE CancelUnstarted(m) \/ CancelAtLock(m) \/ CancelAtGate(m) \/ CancelDirect(m)
  <2>1. phase' = [phase EXCEPT ![m] = "idle"] /\ UNCHANGED permits
    BY <1>7 DEF CancelUnstarted, CancelAtLock, CancelAtGate, CancelDirect, AbandonWait
  <2>2. phase[m] \in {"created", "locking", "gating"}
    <3>1. CASE CancelUnstarted(m)
      BY <1>1, <3>1, TailQueue DEF CancelUnstarted, TypeOK, IInv, Placed, TaskQueues, Lists
    <3> QED BY <1>7, <3>1 DEF CancelAtLock, CancelAtGate, CancelDirect
  <2>3. /\ phase[m] \notin InTurn /\ phase'[m] \notin InTurn
        /\ \A x \in Message : x # m => phase'[x] = phase[x]
    BY <1>1, <2>1, <2>2 DEF TypeOK, InTurn
  <2> QED BY <1>1, <2>1, <2>3, PermitMoves
<1> QED BY <1>2, <1>3, <1>4, <1>5, <1>6, <1>7 DEF Arrive, EndSlice, Deliver

-----------------------------------------------------------------------------
(* Where messages are.                                                      *)

Located == FoldedApart /\ InlineApart /\ Found

\* A follow-up waits in one pending queue, or is folded into one turn, and
\* nothing that waits is in two of the places.
LEMMA OnePlace ==
  ASSUME IInv, Located, NEW x \in Message
  PROVE  /\ x \in ToSet(inbound) => /\ phase[x] = "idle" /\ loop # x /\ ~Folded(x)
                                    /\ \A t \in Message : x \notin ToSet(queue[t])
                                    /\ \A s \in Session : x \notin ToSet(deferred[s])
         /\ \A t \in Message : x \in ToSet(queue[t]) =>
              /\ phase[x] = "idle" /\ loop # x /\ ~Folded(x)
              /\ \A u \in Message \ {t} : x \notin ToSet(queue[u])
              /\ x \notin ToSet(inbound) /\ \A s \in Session : x \notin ToSet(deferred[s])
         /\ \A s \in Session : x \in ToSet(deferred[s]) =>
              /\ phase[x] = "idle" /\ loop # x /\ ~Folded(x) /\ s = SessionOf[x]
              /\ x \notin ToSet(inbound) /\ \A t \in Message : x \notin ToSet(queue[t])
         /\ \A t \in Message : x \in injected[t] =>
              /\ phase[x] = "idle" /\ loop # x /\ Unqueued(x)
              /\ \A u \in Message \ {t} : x \notin injected[u]
         /\ phase[x] # "idle" => Unqueued(x) /\ ~Folded(x) /\ loop # x
         /\ loop = x => phase[x] = "idle" /\ Unqueued(x) /\ ~Folded(x)
<1> USE DEF IInv, Placed, Located
<1>1. None \notin Message
  BY ConstantsAssumption DEF ConstantsAssumption
<1>2. \A t, u \in Message :
        t # u /\ SessionOf[t] = SessionOf[u] => phase[t] \notin InTurn \/ phase[u] \notin InTurn
  BY DEF LockHeld, HasLock
<1>3. Folded(x) => phase[x] = "idle" /\ Unqueued(x) /\ loop # x
  BY DEF Folded, FoldedApart
<1>4. loop = x => phase[x] = "idle" /\ Unqueued(x) /\ ~Folded(x)
  BY <1>1, <1>3 DEF InlineApart
<1>5. phase[x] # "idle" => Unqueued(x) /\ ~Folded(x) /\ loop # x
  BY <1>3, <1>4, LiveIsNotWaiting
<1>6. ASSUME NEW t \in Message, NEW u \in Message, t # u, x \in injected[t] PROVE x \notin injected[u]
  <2>1. x \in injected[u] => SessionOf[t] = SessionOf[u]
    BY <1>6 DEF FoldedApart
  <2>2. phase[t] \in InTurn /\ (x \in injected[u] => phase[u] \in InTurn)
    BY <1>6 DEF QueueOwnership
  <2> QED BY <1>2, <1>6, <2>1, <2>2
<1>7. ASSUME NEW t \in Message, NEW u \in Message, t # u, x \in ToSet(queue[t])
      PROVE  x \notin ToSet(queue[u])
  <2>1. x \in ToSet(queue[u]) => SessionOf[t] = SessionOf[u]
    BY <1>7 DEF PendingQueues
  <2>2. phase[t] \in InTurn /\ (x \in ToSet(queue[u]) => phase[u] \in InTurn)
    BY <1>7, EmptyQueue DEF QueueOwnership
  <2> QED BY <1>2, <1>7, <2>1, <2>2
<1>8. \A t \in Message : x \in ToSet(queue[t]) =>
        x \notin ToSet(inbound) /\ x \notin Automation /\ phase[x] = "idle"
  BY DEF PendingQueues, Lists
<1>9. \A s \in Session : x \in ToSet(deferred[s]) =>
        x \notin ToSet(inbound) /\ x \in Automation /\ phase[x] = "idle" /\ s = SessionOf[x]
  BY DEF DeferredQueues, Lists
<1>10. x \in ToSet(inbound) => phase[x] = "idle" /\ ~Unqueued(x)
  BY DEF BusQueue, Lists, Unqueued
<1>11. x \in ToSet(inbound) => /\ phase[x] = "idle" /\ loop # x /\ ~Folded(x)
                               /\ \A t \in Message : x \notin ToSet(queue[t])
                               /\ \A s \in Session : x \notin ToSet(deferred[s])
  BY <1>3, <1>4, <1>8, <1>9, <1>10
<1>12. ASSUME NEW t \in Message, x \in ToSet(queue[t])
       PROVE  /\ phase[x] = "idle" /\ loop # x /\ ~Folded(x)
              /\ \A u \in Message \ {t} : x \notin ToSet(queue[u])
              /\ x \notin ToSet(inbound) /\ \A s \in Session : x \notin ToSet(deferred[s])
  <2>1. ~Unqueued(x)
    BY <1>12 DEF Unqueued
  <2> QED BY <1>3, <1>4, <1>7, <1>8, <1>9, <1>12, <2>1
<1>13. ASSUME NEW s \in Session, x \in ToSet(deferred[s])
       PROVE  /\ phase[x] = "idle" /\ loop # x /\ ~Folded(x) /\ s = SessionOf[x]
              /\ x \notin ToSet(inbound) /\ \A t \in Message : x \notin ToSet(queue[t])
  <2>1. ~Unqueued(x)
    BY <1>13 DEF Unqueued
  <2> QED BY <1>3, <1>4, <1>8, <1>9, <1>13, <2>1
<1>14. ASSUME NEW t \in Message, x \in injected[t]
       PROVE  /\ phase[x] = "idle" /\ loop # x /\ Unqueued(x)
              /\ \A u \in Message \ {t} : x \notin injected[u]
  BY <1>6, <1>14 DEF FoldedApart
<1> QED BY <1>4, <1>5, <1>11, <1>12, <1>13, <1>14

\* The task of m ends.  L goes back to the bus, and N of the deferred turns of
\* its session with it; what m was, had folded in or held in its queue is
\* otherwise finished, all of it and nothing else.
Departure(m, L, N, F, o) ==
  /\ L \subseteq ToSet(queue[m]) \cup {m}
  /\ N \subseteq ToSet(deferred[SessionOf[m]])
  /\ F = ({m} \cup injected[m] \cup ToSet(queue[m])) \ L
  /\ phase'[m] = "idle" /\ \A x \in Message : x # m => phase'[x] = phase[x]
  /\ ToSet(queue'[m]) = {} /\ \A t \in Message : t # m => queue'[t] = queue[t]
  /\ injected'[m] = {} /\ \A t \in Message : t # m => injected'[t] = injected[t]
  /\ ToSet(inbound') = ToSet(inbound) \cup L \cup N
  /\ ToSet(deferred'[SessionOf[m]]) = ToSet(deferred[SessionOf[m]]) \ N
  /\ \A z \in Session : z # SessionOf[m] => deferred'[z] = deferred[z]
  /\ loop' = loop
  /\ Settle(F, o)

\* A departure keeps every message in its one place, or finishes it.
LEMMA Departed ==
  ASSUME IInv, Located, NEW m \in Message, phase[m] # "idle",
         NEW L, NEW N, NEW F, NEW o, o # "open", Departure(m, L, N, F, o)
  PROVE  Located'
<1> USE DEF Departure
<1> DEFINE s == SessionOf[m]
<1>1. s \in Session /\ None \notin Message
  BY ConstantsAssumption DEF ConstantsAssumption
<1>2. Unqueued(m) /\ ~Folded(m) /\ loop # m
  BY OnePlace
<1>3. ASSUME NEW x \in Message, phase[x] = "idle", Unqueued(x) PROVE phase'[x] = "idle" /\ Unqueued(x)'
  <2>1. x # m /\ x \notin L /\ x \notin N
    BY <1>1, <1>3 DEF Unqueued
  <2>2. x \notin ToSet(inbound')
    BY <1>3, <2>1 DEF Unqueued
  <2>3. \A t \in Message : x \notin ToSet(queue'[t])
    BY <1>3 DEF Unqueued
  <2>4. \A z \in Session : x \notin ToSet(deferred'[z])
    BY <1>1, <1>3 DEF Unqueued
  <2> QED BY <1>3, <2>1, <2>2, <2>3, <2>4 DEF Unqueued
<1>4. \A t \in Message : injected[t] \subseteq Message
  BY DEF IInv, TypeOK
<1>5. FoldedApart'
  <2> SUFFICES ASSUME NEW t \in Message, NEW x \in injected'[t]
               PROVE  /\ phase'[x] = "idle" /\ Unqueued(x)' /\ loop' # x
                      /\ SessionOf[x] = SessionOf[t]
    BY DEF FoldedApart
  <2>1. t # m /\ x \in injected[t] /\ x \in Message
    BY <1>4
  <2>2. phase[x] = "idle" /\ Unqueued(x) /\ loop # x /\ SessionOf[x] = SessionOf[t]
    BY <2>1 DEF Located, FoldedApart
  <2> QED BY <1>3, <2>1, <2>2
<1>6. InlineApart'
  <2>1. loop # None => loop \in Message /\ phase[loop] = "idle" /\ Unqueued(loop)
    BY DEF Located, InlineApart, IInv, TypeOK
  <2>2. ASSUME loop # None PROVE phase'[loop] = "idle" /\ Unqueued(loop)'
    <3>1. PICK l \in Message : l = loop
      BY <2>1, <2>2
    <3>2. phase'[l] = "idle" /\ Unqueued(l)'
      BY <1>3, <2>1, <2>2, <3>1
    <3> QED BY <3>1, <3>2 DEF Unqueued
  <2> QED BY <2>2 DEF InlineApart, Unqueued
<1>7. \A x \in Message : outcome'[x] = IF x \in F THEN o ELSE outcome[x]
  BY DEF Settle
<1>8. ASSUME NEW x \in Message, x \in F PROVE ~Somewhere(x)'
  <2>1. CASE x = m
    <3>1. x \notin L
      BY <1>8, <2>1
    <3>2. Unqueued(x)'
      <4>1. x \notin ToSet(inbound')
        BY <1>1, <1>2, <2>1, <3>1 DEF Unqueued
      <4>2. \A t \in Message : x \notin ToSet(queue'[t])
        BY <1>2, <2>1 DEF Unqueued
      <4>3. \A z \in Session : x \notin ToSet(deferred'[z])
        BY <1>1, <1>2, <2>1 DEF Unqueued
      <4> QED BY <4>1, <4>2, <4>3 DEF Unqueued
    <3>3. ~Folded(x)'
      BY <1>2, <2>1 DEF Folded
    <3> QED BY <1>2, <2>1, <3>2, <3>3 DEF Somewhere
  <2>2. CASE x \in injected[m]
    <3>1. phase[x] = "idle" /\ Unqueued(x) /\ loop # x /\ \A u \in Message \ {m} : x \notin injected[u]
      BY <2>2, OnePlace
    <3>2. phase'[x] = "idle" /\ Unqueued(x)'
      BY <1>3, <3>1
    <3>3. ~Folded(x)'
      BY <3>1 DEF Folded
    <3> QED BY <3>1, <3>2, <3>3 DEF Somewhere
  <2>3. CASE x \in ToSet(queue[m]) /\ x # m
    <3>1. /\ phase[x] = "idle" /\ loop # x /\ ~Folded(x)
          /\ \A u \in Message \ {m} : x \notin ToSet(queue[u])
          /\ x \notin ToSet(inbound) /\ \A z \in Session : x \notin ToSet(deferred[z])
      BY <2>3, OnePlace
    <3>2. Unqueued(x)'
      <4>1. x \notin ToSet(inbound')
        BY <1>1, <1>8, <3>1
      <4>2. \A t \in Message : x \notin ToSet(queue'[t])
        BY <3>1
      <4>3. \A z \in Session : x \notin ToSet(deferred'[z])
        BY <1>1, <3>1
      <4> QED BY <4>1, <4>2, <4>3 DEF Unqueued
    <3>3. ~Folded(x)' /\ phase'[x] = "idle"
      BY <2>3, <3>1 DEF Folded
    <3> QED BY <3>1, <3>2, <3>3 DEF Somewhere
  <2> QED BY <1>8, <2>1, <2>2, <2>3
<1>9. ASSUME NEW x \in Message, x \notin F PROVE Somewhere(x)' <=> Somewhere(x)
  <2>1. x \in ToSet(queue[m]) \cup {m} => x \in L
    BY <1>9
  <2>2. ASSUME Somewhere(x) PROVE Somewhere(x)'
    <3>1. CASE x \in ToSet(inbound)
      BY <3>1 DEF Somewhere, Unqueued
    <3>2. CASE \E t \in Message : x \in ToSet(queue[t])
      BY <2>1, <3>2 DEF Somewhere, Unqueued
    <3>3. CASE \E z \in Session : x \in ToSet(deferred[z])
      <4>1. PICK z \in Session : x \in ToSet(deferred[z])
        BY <3>3
      <4>2. x \in ToSet(inbound') \/ x \in ToSet(deferred'[z])
        BY <4>1
      <4> QED BY <4>1, <4>2 DEF Somewhere, Unqueued
    <3>4. CASE Folded(x)
      <4>1. PICK t \in Message : x \in injected[t]
        BY <3>4 DEF Folded
      <4>2. CASE t = m
        BY <1>9, <4>1, <4>2 DEF Somewhere, Unqueued
      <4>3. CASE t # m
        BY <4>1, <4>3 DEF Somewhere, Folded
      <4> QED BY <4>2, <4>3
    <3>5. CASE phase[x] # "idle"
      BY <2>1, <3>5 DEF Somewhere, Unqueued
    <3> QED BY <2>2, <3>1, <3>2, <3>3, <3>4, <3>5 DEF Somewhere, Unqueued
  <2>3. ASSUME Somewhere(x)' PROVE Somewhere(x)
    <3>1. CASE x \in ToSet(inbound')
      BY <1>1, <3>1 DEF Somewhere, Unqueued
    <3>2. CASE \E t \in Message : x \in ToSet(queue'[t])
      BY <3>2 DEF Somewhere, Unqueued
    <3>3. CASE \E z \in Session : x \in ToSet(deferred'[z])
      <4>1. PICK z \in Session : x \in ToSet(deferred'[z])
        BY <3>3
      <4>2. x \in ToSet(deferred[z])
        BY <4>1
      <4> QED BY <4>2 DEF Somewhere, Unqueued
    <3>4. CASE Folded(x)'
      BY <3>4 DEF Somewhere, Folded
    <3>5. CASE phase'[x] # "idle"
      BY <3>5 DEF Somewhere
    <3> QED BY <2>3, <3>1, <3>2, <3>3, <3>4, <3>5 DEF Somewhere, Unqueued
  <2> QED BY <2>2, <2>3
<1>10. Found'
  BY <1>7, <1>8, <1>9 DEF Located, Found
<1> QED BY <1>5, <1>6, <1>10 DEF Located

\* A drain splits the pending queue in two: each follow-up is taken or kept.
LEMMA DrainSplits ==
  ASSUME TypeOK, NEW m \in Message, IsInjective(queue[m])
  PROVE  /\ Drained(m) \subseteq ToSet(queue[m])
         /\ ToSet(Kept(m)) = ToSet(queue[m]) \ Drained(m)
<1> DEFINE q == queue[m]
           n == DrainLen(m)
<1>1. q \in Seq(Message) /\ Len(q) \in Nat /\ DOMAIN q = 1..Len(q)
  BY LenProperties DEF TypeOK
<1>2. n \in Nat /\ n <= Len(q)
  BY <1>1, ConstantsAssumption DEF DrainLen, ConstantsAssumption
<1> HIDE DEF n
<1>3. CASE ~CanDrain(m)
  BY <1>3 DEF Drained, Kept
<1>4. CASE CanDrain(m)
  <2>1. Drained(m) = ToSet(SubSeq(q, 1, n)) /\ Kept(m) = SubSeq(q, n + 1, Len(q))
    BY <1>4 DEF Drained, Kept, n
  <2>2. ToSet(SubSeq(q, 1, n)) = {q[i] : i \in 1..n}
    BY <1>1, <1>2, SliceQueue
  <2>3. ToSet(SubSeq(q, n + 1, Len(q))) = {q[i] : i \in (n + 1)..Len(q)}
    <3>1. n + 1 \in Nat \ {0} /\ Len(q) <= Len(q)
      BY <1>1, <1>2
    <3> QED BY <1>1, <3>1, SliceQueue
  <2>4. ToSet(q) = {q[i] : i \in 1..Len(q)}
    BY <1>1 DEF ToSet
  <2>5. \A i \in 1..n, j \in (n + 1)..Len(q) : q[i] # q[j]
    BY <1>1, <1>2 DEF IsInjective
  <2>6. 1..Len(q) = (1..n) \cup ((n + 1)..Len(q))
    BY <1>1, <1>2
  <2> QED BY <2>1, <2>2, <2>3, <2>4, <2>5, <2>6
<1> QED BY <1>3, <1>4

\* A message that is sent is on the bus; nothing else moves.
LEMMA ArriveLocated ==
  ASSUME IInv, Located, NEW m \in Message, Publish(m) \/ Submit(m)
  PROVE  Located'
<1> USE DEF Located
<1>1. /\ outcome[m] = "unsent"
      /\ inbound' = Append(inbound, m)
      /\ UNCHANGED <<loop, deferred, phase, queue, injected>>
      /\ \A x \in Message : outcome'[x] = IF x = m THEN "open" ELSE outcome[x]
  BY DEF Publish, Submit, Settle, lockVars, taskVars, turnVars
<1>2. ToSet(inbound') = ToSet(inbound) \cup {m}
  BY <1>1, AppendQueue DEF IInv, TypeOK
<1>3. ~Somewhere(m)
  BY <1>1 DEF Found
<1>4. \A x \in Message : Unqueued(x)' <=> Unqueued(x) /\ x # m
  BY <1>1, <1>2 DEF Unqueued
<1>5. \A x \in Message : Somewhere(x)' <=> Somewhere(x) \/ x = m
  BY <1>1, <1>4 DEF Somewhere, Folded
<1>6. Found'
  BY <1>1, <1>3, <1>5 DEF Found
<1>7. FoldedApart'
  <2>1. \A t \in Message : injected[t] \subseteq Message /\ m \notin injected[t]
    BY <1>3 DEF IInv, TypeOK, Somewhere, Folded
  <2> QED BY <1>1, <1>4, <2>1 DEF FoldedApart
<1>8. InlineApart'
  <2>1. loop # m /\ (loop # None => loop \in Message)
    BY <1>3 DEF Somewhere, IInv, TypeOK
  <2>2. ASSUME loop # None PROVE Unqueued(loop)'
    <3>1. PICK l \in Message : l = loop
      BY <2>1, <2>2
    <3>2. Unqueued(l)'
      BY <1>4, <2>1, <2>2, <3>1 DEF InlineApart
    <3> QED BY <1>1, <3>1, <3>2 DEF Unqueued
  <2> QED BY <1>1, <2>2 DEF InlineApart
<1> QED BY <1>6, <1>7, <1>8

\* m leaves the bus for one other place, and nothing else moves.
LEMMA ConsumedLocated ==
  ASSUME IInv, Located, NEW m \in Message, Consumes(m),
         UNCHANGED <<injected, outcome>>,
         \A x \in Message : x # m => phase'[x] = phase[x],
         \A x \in Message, t \in Message : x # m =>
           (x \in ToSet(queue'[t]) <=> x \in ToSet(queue[t])),
         \A x \in Message, s \in Session : x # m =>
           (x \in ToSet(deferred'[s]) <=> x \in ToSet(deferred[s])),
         \/ loop' = m /\ phase'[m] = "idle" /\ Unqueued(m)'
         \/ loop' = None /\ (phase'[m] # "idle" \/ ~Unqueued(m)')
  PROVE  Located'
<1> USE DEF Located
<1>1. loop = None /\ None \notin Message /\ m \in ToSet(inbound) /\ ToSet(inbound') = ToSet(inbound) \ {m}
  BY ConsumedIsFree, TailQueue, ConstantsAssumption
     DEF Consumes, IInv, TypeOK, ConstantsAssumption
<1>2. \A x \in Message : x # m => (Unqueued(x)' <=> Unqueued(x))
  BY <1>1 DEF Unqueued
<1>3. ~Folded(m) /\ Somewhere(m)
  BY <1>1, OnePlace DEF Somewhere, Unqueued
<1>4. Somewhere(m)'
  BY DEF Somewhere
<1>5. ASSUME NEW x \in Message, x # m PROVE Somewhere(x)' <=> Somewhere(x)
  <2>1. Folded(x)' <=> Folded(x)
    BY DEF Folded
  <2>2. loop' # x /\ loop # x
    BY <1>1, <1>5
  <2> QED BY <1>2, <1>5, <2>1, <2>2 DEF Somewhere
<1>6. Found'
  BY <1>3, <1>4, <1>5 DEF Found
<1>7. FoldedApart'
  <2>1. \A t \in Message : injected[t] \subseteq Message /\ m \notin injected[t]
    BY <1>3 DEF IInv, TypeOK, Folded
  <2> QED BY <1>1, <1>2, <2>1 DEF FoldedApart
<1>8. InlineApart'
  BY DEF InlineApart, Unqueued
<1> QED BY <1>6, <1>7, <1>8

\* run() moves the message it takes to the one place it chose for it; a
\* command that replies ends, and /stop drops what it found queued.
LEMMA RunLocated ==
  ASSUME IInv, Located, NEW m \in Message, Run(m)
  PROVE  Located'
<1> USE DEF busVars, taskVars, lockVars, turnVars
<1>1. TypeOK /\ SessionOf[m] \in Session /\ None \notin Message
  BY ConstantsAssumption DEF ConstantsAssumption, IInv
<1>2. CASE RunPriority(m) \/ RunInline(m)
  <2>1. Consumes(m) /\ loop' = m /\ UNCHANGED <<injected, outcome, phase, queue, deferred>>
    BY <1>2 DEF RunPriority, RunInline
  <2>2. /\ phase[m] = "idle" /\ ToSet(inbound') = ToSet(inbound) \ {m}
        /\ \A t \in Message : m \notin ToSet(queue[t])
        /\ \A s \in Session : m \notin ToSet(deferred[s])
    BY <2>1, ConsumedIsFree
  <2>3. Unqueued(m)'
    BY <2>1, <2>2 DEF Unqueued
  <2> QED BY <2>1, <2>2, <2>3, ConsumedLocated
<1>3. CASE RunDefer(m)
  <2> DEFINE s == SessionOf[m]
  <2>1. /\ Consumes(m) /\ UNCHANGED <<loop, injected, outcome, phase, queue>>
        /\ deferred' = [deferred EXCEPT ![s] = Append(@, m)]
    BY <1>3 DEF RunDefer
  <2>2. /\ deferred'[s] = Append(deferred[s], m) /\ \A z \in Session : z # s => deferred'[z] = deferred[z]
        /\ deferred[s] \in Seq(Message)
    BY <1>1, <2>1 DEF TypeOK
  <2>3. ToSet(deferred'[s]) = ToSet(deferred[s]) \cup {m}
    BY <2>2, AppendQueue
  <2>4. ~Unqueued(m)'
    BY <1>1, <2>3 DEF Unqueued
  <2>5. \A x \in Message, z \in Session : x # m => (x \in ToSet(deferred'[z]) <=> x \in ToSet(deferred[z]))
    BY <2>2, <2>3
  <2>6. loop' = None
    BY <2>1 DEF Consumes
  <2> QED BY <2>1, <2>4, <2>5, <2>6, ConsumedLocated
<1>4. CASE RunInject(m)
  <2> DEFINE t == registered[SessionOf[m]]
  <2>1. /\ Consumes(m) /\ UNCHANGED <<loop, injected, outcome, phase, deferred>>
        /\ t # None /\ queue' = [queue EXCEPT ![t] = Append(@, m)]
    BY <1>4 DEF RunInject
  <2>2. /\ t \in Message /\ queue[t] \in Seq(Message)
        /\ queue'[t] = Append(queue[t], m) /\ \A u \in Message : u # t => queue'[u] = queue[u]
    BY <1>1, <2>1 DEF TypeOK
  <2>3. ToSet(queue'[t]) = ToSet(queue[t]) \cup {m}
    BY <2>2, AppendQueue
  <2>4. ~Unqueued(m)'
    BY <2>2, <2>3 DEF Unqueued
  <2>5. \A x \in Message, u \in Message : x # m => (x \in ToSet(queue'[u]) <=> x \in ToSet(queue[u]))
    BY <2>2, <2>3
  <2>6. loop' = None
    BY <2>1 DEF Consumes
  <2> QED BY <2>1, <2>4, <2>5, <2>6, ConsumedLocated
<1>5. CASE RunSpawn(m)
  <2>1. /\ Consumes(m) /\ UNCHANGED <<loop, injected, outcome, queue, deferred>>
        /\ phase' = [phase EXCEPT ![m] = "created"]
    BY <1>5 DEF RunSpawn
  <2>2. phase'[m] # "idle" /\ \A x \in Message : x # m => phase'[x] = phase[x]
    BY <1>1, <2>1 DEF TypeOK
  <2>3. loop' = None
    BY <2>1 DEF Consumes
  <2> QED BY <2>1, <2>2, <2>3, ConsumedLocated
<1>6. CASE RunReply(m)
  <2> DEFINE t == registered[SessionOf[m]]
             stopping == CommandOf(m) = "stop" /\ t # None
             emptied == IF stopping THEN ToSet(queue[t]) ELSE {}
  <2>1. /\ loop = m /\ loop' = None
        /\ UNCHANGED <<inbound, deferred, phase, injected>>
        /\ IF stopping THEN queue' = [queue EXCEPT ![t] = <<>>] ELSE UNCHANGED queue
    BY <1>6 DEF RunReply
  <2>2. /\ m \notin emptied
        /\ phase[m] = "idle" /\ Unqueued(m) /\ ~Folded(m)
    BY <1>1, <2>1, OnePlace DEF TypeOK, Unqueued
  <2>3. outcome' = [x \in Message |-> CASE x = m -> "served"
                                       [] x \in emptied -> "dropped"
                                       [] OTHER -> outcome[x]]
    BY <1>6 DEF RunReply
  <2>4. /\ \A x \in Message : x \in emptied \cup {m} => outcome'[x] # "open"
        /\ \A x \in Message : x \notin emptied \cup {m} => outcome'[x] = outcome[x]
    BY <2>2, <2>3
  <2>5. \A x \in Message, u \in Message :
          x \in ToSet(queue'[u]) <=> x \in ToSet(queue[u]) /\ x \notin emptied
    <3>1. CASE stopping
      <4>1. t \in Message
        BY <1>1, <3>1 DEF TypeOK
      <4>2. queue'[t] = <<>> /\ \A u \in Message : u # t => queue'[u] = queue[u]
        BY <1>1, <2>1, <3>1, <4>1 DEF TypeOK
      <4>3. \A x \in Message, u \in Message : x \in ToSet(queue[t]) /\ u # t => x \notin ToSet(queue[u])
        BY <4>1, OnePlace
      <4> QED BY <3>1, <4>2, <4>3, EmptyQueue
    <3>2. CASE ~stopping
      BY <2>1, <3>2
    <3> QED BY <3>1, <3>2
  <2>6. \A x \in Message : x \in emptied =>
          /\ phase[x] = "idle" /\ loop # x /\ ~Folded(x)
          /\ x \notin ToSet(inbound) /\ \A z \in Session : x \notin ToSet(deferred[z])
    <3>1. CASE stopping
      <4>1. t \in Message
        BY <1>1, <3>1 DEF TypeOK
      <4> QED BY <3>1, <4>1, OnePlace
    <3> QED BY <3>1
  <2> HIDE DEF emptied
  <2>7. \A x \in Message : Unqueued(x) => Unqueued(x)'
    BY <2>1, <2>5 DEF Unqueued
  <2>8. \A x \in Message : x \in emptied => ~Somewhere(x)'
    BY <1>1, <2>1, <2>5, <2>6 DEF Somewhere, Unqueued, Folded
  <2>9. ~Somewhere(m)'
    BY <1>1, <2>1, <2>2, <2>7 DEF Somewhere, Folded
  <2>10. ASSUME NEW x \in Message, x \notin emptied, x # m PROVE Somewhere(x)' <=> Somewhere(x)
    <3>1. Unqueued(x)' <=> Unqueued(x)
      BY <2>1, <2>5, <2>10 DEF Unqueued
    <3>2. Folded(x)' <=> Folded(x)
      BY <2>1 DEF Folded
    <3>3. loop # x /\ loop' # x
      BY <1>1, <2>1, <2>10
    <3> QED BY <2>1, <3>1, <3>2, <3>3 DEF Somewhere
  <2>11. Found'
    BY <2>4, <2>8, <2>9, <2>10 DEF Located, Found
  <2>12. FoldedApart'
    <3>1. \A u \in Message : injected[u] \subseteq Message
      BY <1>1 DEF TypeOK
    <3> QED BY <1>1, <2>1, <2>7, <3>1 DEF Located, FoldedApart
  <2>13. InlineApart'
    BY <2>1 DEF InlineApart
  <2> QED BY <2>11, <2>12, <2>13 DEF Located
<1> QED BY <1>2, <1>3, <1>4, <1>5, <1>6 DEF Run

\* A task, or a direct call, waits or begins its turn: it stays where it is.
LEMMA AdmitLocated ==
  ASSUME IInv, Located, NEW m \in Message, CallDirect(m) \/ Admit(m)
  PROVE  Located'
<1> USE DEF busVars, taskVars, lockVars, turnVars
<1>1. TypeOK /\ None \notin Message
  BY ConstantsAssumption DEF ConstantsAssumption, IInv
<1>2. UNCHANGED <<inbound, loop, deferred, injected>>
  BY DEF CallDirect, Admit, StartTask, GrantLock, GrantGate
<1>3. /\ phase'[m] # "idle" /\ \A x \in Message : x # m => phase'[x] = phase[x]
      /\ UNCHANGED queue \/ queue' = [queue EXCEPT ![m] = <<>>]
  <2>1. /\ \E ph \in {"running", "gating", "locking"} : phase' = [phase EXCEPT ![m] = ph]
        /\ UNCHANGED queue \/ queue' = [queue EXCEPT ![m] = <<>>]
    BY DEF CallDirect, Admit, StartTask, GrantLock, GrantGate, ReachLock, TakeLock, AwaitLock,
      OpenTurn, StartRunning
  <2> QED BY <1>1, <2>1 DEF TypeOK
<1>4. \/ phase[m] \in {"created", "locking", "gating"}
      \/ CallDirect(m) /\ phase[m] = "idle" /\ outcome[m] = "unsent"
  <2>1. CASE CallDirect(m)
    BY <2>1 DEF CallDirect, IInv, Placed, NothingUnsentMoves
  <2>2. CASE StartTask(m)
    BY <1>1, <2>2, TailQueue DEF StartTask, TypeOK, IInv, Placed, TaskQueues, Lists
  <2>3. CASE GrantLock(m)
    <3>1. SessionOf[m] \in Session
      BY ConstantsAssumption DEF ConstantsAssumption
    <3> QED BY <1>1, <2>3, <3>1, TailQueue DEF GrantLock, TypeOK, IInv, Placed, TaskQueues, Lists
  <2>4. CASE GrantGate(m)
    BY <1>1, <2>4, TailQueue DEF GrantGate, TypeOK, IInv, Placed, TaskQueues, Lists
  <2> QED BY <2>1, <2>2, <2>3, <2>4 DEF Admit
<1>5. UNCHANGED queue
  <2>1. queue[m] = <<>>
    BY <1>4 DEF InTurn, IInv, Placed, QueueOwnership
  <2> QED BY <1>1, <1>3, <2>1 DEF TypeOK
<1>6. Unqueued(m) /\ ~Folded(m) /\ loop # m
  <2>1. CASE phase[m] # "idle"
    BY <2>1, OnePlace
  <2>2. CASE phase[m] = "idle"
    BY <1>4, <2>2 DEF Located, Found, Somewhere
  <2> QED BY <2>1, <2>2
<1>7. /\ \A x \in Message : x # m => outcome'[x] = outcome[x]
      /\ outcome'[m] = "open"
  <2>1. CASE CallDirect(m)
    BY <2>1 DEF CallDirect, Settle
  <2>2. CASE Admit(m) /\ ~CallDirect(m)
    <3>1. UNCHANGED outcome
      BY <2>2 DEF Admit, StartTask, GrantLock, GrantGate
    <3> QED BY <1>4, <2>2, <3>1 DEF Located, Found, Somewhere
  <2> QED BY <2>1, <2>2
<1>8. \A x \in Message : (Unqueued(x)' <=> Unqueued(x)) /\ (Folded(x)' <=> Folded(x))
  BY <1>2, <1>5 DEF Unqueued, Folded
<1>9. Found'
  BY <1>2, <1>3, <1>6, <1>7, <1>8 DEF Located, Found, Somewhere
<1>10. FoldedApart'
  <2>1. \A t \in Message : injected[t] \subseteq Message /\ m \notin injected[t]
    BY <1>1, <1>6 DEF TypeOK, Folded
  <2> QED BY <1>2, <1>3, <1>8, <2>1 DEF Located, FoldedApart
<1>11. InlineApart'
  <2>1. loop # None => loop \in Message /\ loop # m /\ phase[loop] = "idle" /\ Unqueued(loop)
    BY <1>1, <1>6 DEF TypeOK, Located, InlineApart
  <2>2. ASSUME loop # None PROVE phase'[loop] = "idle" /\ Unqueued(loop)'
    <3>1. PICK l \in Message : l = loop
      BY <2>1, <2>2
    <3>2. phase'[l] = "idle" /\ Unqueued(l)'
      BY <1>3, <1>8, <2>1, <2>2, <3>1
    <3> QED BY <1>2, <3>1, <3>2 DEF Unqueued
  <2> QED BY <1>2, <2>2 DEF InlineApart, Unqueued
<1> QED BY <1>9, <1>10, <1>11 DEF Located

\* A running turn folds in some of what its queue holds: each follow-up moves
\* from the queue to the turn.
LEMMA WorkLocated ==
  ASSUME IInv, Located, NEW m \in Message,
         \/ Work(m) \/ Answer(m) \/ Exhaust(m) \/ Yield(m) \/ BlockOnPut(m)
         \/ NewCommand(m)
  PROVE  Located'
<1> USE DEF busVars, taskVars, lockVars, turnVars
<1>1. TypeOK
  BY DEF IInv
<1>2. /\ UNCHANGED <<inbound, loop, deferred, outcome>>
      /\ phase[m] # "idle" /\ phase'[m] # "idle"
      /\ \A x \in Message : x # m => phase'[x] = phase[x]
  BY <1>1 DEF Work, Inject, StartGoal, EndGoal, Answer, Exhaust, Yield, LastDrain, BlockOnPut, Putting,
              NewCommand, InRunner, TypeOK
<1>3. \/ UNCHANGED <<queue, injected>>
      \/ /\ queue' = [queue EXCEPT ![m] = Kept(m)]
         /\ injected' = [injected EXCEPT ![m] = @ \cup Drained(m)]
  BY DEF Work, Inject, StartGoal, EndGoal, Answer, Exhaust, Yield, LastDrain, BlockOnPut, NewCommand
<1>4. PICK D \in SUBSET ToSet(queue[m]) :
        /\ ToSet(queue'[m]) = ToSet(queue[m]) \ D
        /\ injected'[m] = injected[m] \cup D
        /\ \A t \in Message : t # m => queue'[t] = queue[t] /\ injected'[t] = injected[t]
  <2>1. CASE UNCHANGED <<queue, injected>>
    <3>1. ToSet(queue'[m]) = ToSet(queue[m]) \ {} /\ injected'[m] = injected[m] \cup {}
      BY <2>1
    <3>2. {} \in SUBSET ToSet(queue[m])
      OBVIOUS
    <3>3. \A t \in Message : t # m => queue'[t] = queue[t] /\ injected'[t] = injected[t]
      BY <2>1
    <3> QED BY <3>1, <3>2, <3>3
  <2>2. CASE /\ queue' = [queue EXCEPT ![m] = Kept(m)]
             /\ injected' = [injected EXCEPT ![m] = @ \cup Drained(m)]
    <3>1. IsInjective(queue[m])
      BY DEF IInv, Placed, PendingQueues, Lists
    <3>2. Drained(m) \subseteq ToSet(queue[m]) /\ ToSet(Kept(m)) = ToSet(queue[m]) \ Drained(m)
      BY <1>1, <3>1, DrainSplits
    <3>3. /\ queue'[m] = Kept(m) /\ injected'[m] = injected[m] \cup Drained(m)
          /\ \A t \in Message : t # m => queue'[t] = queue[t] /\ injected'[t] = injected[t]
      BY <1>1, <2>2 DEF TypeOK
    <3> QED BY <3>2, <3>3
  <2> QED BY <1>3, <2>1, <2>2
<1>5. ToSet(queue[m]) \subseteq Message /\ \A t \in Message : injected[t] \subseteq Message
  BY <1>1, QueueElements DEF TypeOK
<1>6. \A x \in Message : x \in D =>
        /\ phase[x] = "idle" /\ loop # x /\ ~Folded(x) /\ SessionOf[x] = SessionOf[m]
        /\ \A u \in Message \ {m} : x \notin ToSet(queue[u])
        /\ x \notin ToSet(inbound) /\ \A s \in Session : x \notin ToSet(deferred[s])
  BY OnePlace DEF IInv, Placed, PendingQueues
<1>7. \A x \in Message : Unqueued(x)' <=> Unqueued(x) \/ x \in D
  <2> SUFFICES ASSUME NEW x \in Message PROVE Unqueued(x)' <=> Unqueued(x) \/ x \in D
    OBVIOUS
  <2>1. CASE x \in D
    BY <1>2, <1>4, <1>6, <2>1 DEF Unqueued
  <2>2. CASE x \notin D
    <3>1. \A t \in Message : x \in ToSet(queue'[t]) <=> x \in ToSet(queue[t])
      BY <1>4, <2>2
    <3> QED BY <1>2, <2>2, <3>1 DEF Unqueued
  <2> QED BY <2>1, <2>2
<1>8. \A x \in Message : Folded(x)' <=> Folded(x) \/ x \in D
  BY <1>4 DEF Folded
<1>9. \A x \in Message : x \in D => ~Unqueued(x)
  BY DEF Unqueued
<1>10. \A x \in Message : Somewhere(x)' <=> Somewhere(x)
  BY <1>2, <1>7, <1>8, <1>9 DEF Somewhere
<1>11. Found'
  BY <1>2, <1>10 DEF Located, Found
<1>12. FoldedApart'
  <2> SUFFICES ASSUME NEW t \in Message, NEW x \in injected'[t]
               PROVE  /\ phase'[x] = "idle" /\ Unqueued(x)' /\ loop' # x
                      /\ SessionOf[x] = SessionOf[t]
    BY DEF FoldedApart
  <2>1. x \in injected[t] \/ (t = m /\ x \in D)
    BY <1>4
  <2>2. CASE x \in injected[t]
    BY <1>2, <1>5, <1>7, <2>2 DEF Located, FoldedApart
  <2>3. CASE t = m /\ x \in D
    BY <1>2, <1>5, <1>6, <1>7, <2>3
  <2> QED BY <2>1, <2>2, <2>3
<1>13. InlineApart'
  <2>1. loop # None => loop \in Message /\ phase[loop] = "idle" /\ Unqueued(loop)
    BY <1>1 DEF TypeOK, Located, InlineApart
  <2>2. ASSUME loop # None PROVE phase'[loop] = "idle" /\ Unqueued(loop)'
    <3>1. PICK l \in Message : l = loop
      BY <2>1, <2>2
    <3>2. phase'[l] = "idle" /\ Unqueued(l)'
      BY <1>2, <1>7, <2>1, <2>2, <3>1
    <3> QED BY <1>2, <3>1, <3>2 DEF Unqueued
  <2> QED BY <1>2, <2>2 DEF InlineApart, Unqueued
<1> QED BY <1>11, <1>12, <1>13 DEF Located

\* A dispatched turn ends: what it leaves goes back to the bus, the rest of
\* what it had is finished with it.
LEMMA LeaveLocated ==
  ASSUME IInv, Located, NEW m \in Message, phase[m] \in InTurn,
         NEW left \in Seq(Message), LeaveTurn(m, left),
         ToSet(left) \subseteq ToSet(queue[m]) \cup {m},
         NEW F, F = ({m} \cup injected[m] \cup ToSet(queue[m])) \ ToSet(left),
         NEW o, o # "open", Settle(F, o)
  PROVE  Located'
<1> DEFINE s == SessionOf[m]
           L == ToSet(left)
<1>1. TypeOK /\ s \in Session
  BY ConstantsAssumption DEF ConstantsAssumption, IInv
<1>2. /\ phase[m] # "idle"
      /\ phase'[m] = "idle" /\ \A x \in Message : x # m => phase'[x] = phase[x]
      /\ queue'[m] = <<>> /\ \A t \in Message : t # m => queue'[t] = queue[t]
      /\ injected'[m] = {} /\ \A t \in Message : t # m => injected'[t] = injected[t]
      /\ loop' = loop
  BY <1>1 DEF LeaveTurn, TypeOK, InTurn
<1>3. PICK N \in SUBSET ToSet(deferred[s]) :
        /\ ToSet(inbound') = ToSet(inbound) \cup L \cup N
        /\ ToSet(deferred'[s]) = ToSet(deferred[s]) \ N
        /\ \A z \in Session \ {s} : deferred'[z] = deferred[z]
  BY GivesBack DEF LeaveTurn
<1>4. ToSet(queue'[m]) = {}
  BY <1>2, EmptyQueue
<1>5. L \in SUBSET (ToSet(queue[m]) \cup {m})
  OBVIOUS
<1>6. \A z \in Session : z # s => deferred'[z] = deferred[z]
  BY <1>3
<1> HIDE DEF L
<1>7. F = ({m} \cup injected[m] \cup ToSet(queue[m])) \ L
  BY DEF L
<1>8. Departure(m, L, N, F, o)
  BY <1>2, <1>3, <1>4, <1>5, <1>6, <1>7 DEF Departure
<1> QED BY <1>2, <1>8, Departed

\* A task that had no pending queue ends: nothing but itself is finished, and
\* at most deferred turns of its session go back to the bus.
LEMMA LoneLocated ==
  ASSUME IInv, Located, NEW m \in Message, phase[m] # "idle", queue[m] = <<>>, injected[m] = {},
         phase'[m] = "idle", \A x \in Message : x # m => phase'[x] = phase[x],
         UNCHANGED <<loop, queue, injected>>,
         UNCHANGED <<inbound, deferred>> \/ AbandonWait(m),
         NEW o, o # "open", Settle({m}, o)
  PROVE  Located'
<1> DEFINE s == SessionOf[m]
<1>1. TypeOK /\ s \in Session
  BY ConstantsAssumption DEF ConstantsAssumption, IInv
<1>2. PICK N \in SUBSET ToSet(deferred[s]) :
        /\ ToSet(inbound') = ToSet(inbound) \cup {} \cup N
        /\ ToSet(deferred'[s]) = ToSet(deferred[s]) \ N
        /\ \A z \in Session : z # s => deferred'[z] = deferred[z]
  <2>1. CASE UNCHANGED <<inbound, deferred>>
    <3>1. {} \in SUBSET ToSet(deferred[s])
      OBVIOUS
    <3>2. /\ ToSet(inbound') = ToSet(inbound) \cup {} \cup {}
          /\ ToSet(deferred'[s]) = ToSet(deferred[s]) \ {}
          /\ \A z \in Session : z # s => deferred'[z] = deferred[z]
      BY <2>1
    <3> QED BY <3>1, <3>2
  <2>2. CASE AbandonWait(m)
    <3>1. <<>> \in Seq(Message) /\ ToSet(<<>>) = {} /\ inbound \o <<>> = inbound
      BY <1>1, EmptyQueue, EmptySeq, ConcatEmptySeq DEF TypeOK
    <3>2. /\ inbound' = inbound \o <<>> \o NextDeferred(s)
          /\ deferred' = [deferred EXCEPT ![s] = LaterDeferred(s)]
      BY <2>2, <3>1 DEF AbandonWait
    <3>3. PICK N \in SUBSET ToSet(deferred[s]) :
            /\ ToSet(inbound') = ToSet(inbound) \cup ToSet(<<>>) \cup N
            /\ ToSet(deferred'[s]) = ToSet(deferred[s]) \ N
            /\ \A z \in Session \ {s} : deferred'[z] = deferred[z]
      BY <3>1, <3>2, GivesBack
    <3> QED BY <3>1, <3>3
  <2> QED BY <2>1, <2>2
<1>3. ToSet(queue'[m]) = {} /\ ToSet(queue[m]) = {} /\ injected'[m] = {}
  BY EmptyQueue
<1>4. {} \in SUBSET (ToSet(queue[m]) \cup {m}) /\ {m} = ({m} \cup injected[m] \cup ToSet(queue[m])) \ {}
  BY <1>3
<1> DEFINE F == {m}
           L == {}
<1>5. /\ L \in SUBSET (ToSet(queue[m]) \cup {m}) /\ F = ({m} \cup injected[m] \cup ToSet(queue[m])) \ L
      /\ ToSet(inbound') = ToSet(inbound) \cup L \cup N
      /\ Settle(F, o)
  BY <1>2, <1>4
<1>6. /\ \A t \in Message : t # m => queue'[t] = queue[t]
      /\ \A t \in Message : t # m => injected'[t] = injected[t]
      /\ loop' = loop
  OBVIOUS
<1> HIDE DEF F, L
<1>7. Departure(m, L, N, F, o)
  BY <1>2, <1>3, <1>5, <1>6 DEF Departure
<1> QED BY <1>7, Departed

\* However a task ends, everything it had is finished or back on the bus.
LEMMA EndLocated ==
  ASSUME IInv, Located, Resetting, NEW m \in Message,
         ContinueGoal(m) \/ CloseTurn(m) \/ Fail(m) \/ Deliver(m) \/ CancelDirect(m)
  PROVE  Located'
<1> USE DEF busVars, taskVars, lockVars, turnVars
<1>1. TypeOK /\ SessionOf[m] \in Session
  BY ConstantsAssumption DEF ConstantsAssumption, IInv
<1>2. /\ queue[m] \in Seq(Message) /\ IsInjective(queue[m]) /\ ToSet(queue[m]) \subseteq Message
      /\ \A x \in ToSet(queue[m]) : phase[x] = "idle" /\ x \notin injected[m]
      /\ \A x \in injected[m] : phase[x] = "idle"
  <2>1. queue[m] \in Seq(Message) /\ IsInjective(queue[m]) /\ ToSet(queue[m]) \subseteq Message
    BY <1>1, QueueElements DEF TypeOK, IInv, Placed, PendingQueues, Lists
  <2>2. ASSUME NEW x \in ToSet(queue[m]) PROVE phase[x] = "idle" /\ x \notin injected[m]
    <3>1. x \in Message
      BY <2>1
    <3>2. phase[x] = "idle" /\ ~Folded(x)
      BY <3>1, OnePlace
    <3> QED BY <3>2 DEF Folded
  <2>3. \A x \in injected[m] : phase[x] = "idle"
    BY DEF Located, FoldedApart
  <2> QED BY <2>1, <2>2, <2>3
<1>3. ASSUME LeaveTurn(m, queue[m]), phase[m] \in InTurn, NEW o, o # "open",
             Settle({m} \cup injected[m], o)
      PROVE  Located'
  <2>1. m \notin ToSet(queue[m])
    BY <1>2, <1>3 DEF InTurn
  <2>2. {m} \cup injected[m] = ({m} \cup injected[m] \cup ToSet(queue[m])) \ ToSet(queue[m])
    BY <1>2, <2>1
  <2> DEFINE F == {m} \cup injected[m]
  <2>3. F = ({m} \cup injected[m] \cup ToSet(queue[m])) \ ToSet(queue[m]) /\ Settle(F, o)
    BY <1>3, <2>2
  <2> HIDE DEF F
  <2> QED BY <1>2, <1>3, <2>3, LeaveLocated
<1>4. ASSUME Finish(m) \/ FinishNew(m) \/ Fail(m)
      PROVE  /\ phase[m] \in InTurn /\ phase[m] # "idle" /\ EndTurn(m)
             /\ \E o \in {"served", "failed"} : Settle({m} \cup injected[m], o)
  <2>1. CASE Finish(m) \/ Fail(m)
    BY <2>1 DEF Finish, Fail, InTurn
  <2>2. CASE FinishNew(m)
    <3>1. {m} \cup injected[m] = {m}
      BY <2>2 DEF FinishNew, Resetting
    <3>2. phase[m] = "resetting" /\ EndTurn(m) /\ Settle({m}, "served")
      BY <2>2 DEF FinishNew
    <3> QED BY <3>1, <3>2 DEF InTurn
  <2> QED BY <1>4, <2>1, <2>2
<1>5. CASE (Finish(m) \/ FinishNew(m) \/ Fail(m)) /\ m \notin Direct
  <2>1. LeaveTurn(m, queue[m])
    BY <1>4, <1>5 DEF EndTurn
  <2> QED BY <1>3, <1>4, <1>5, <2>1
<1>6. CASE (Finish(m) \/ FinishNew(m) \/ Fail(m)) /\ m \in Direct
  <2>1. queue[m] = <<>> /\ injected[m] = {}
    BY <1>6 DEF IInv, Placed, DirectCalls
  <2>2. ReturnDirect(m) /\ phase[m] # "idle"
    BY <1>4, <1>6 DEF EndTurn
  <2>3. \E o \in {"served", "failed"} : Settle({m}, o)
    <3>1. {m} \cup injected[m] = {m}
      BY <2>1
    <3> QED BY <1>4, <1>6, <3>1
  <2>4. /\ phase'[m] = "idle" /\ \A x \in Message : x # m => phase'[x] = phase[x]
        /\ UNCHANGED <<loop, queue, injected, inbound, deferred>>
    BY <1>1, <2>2 DEF ReturnDirect, TypeOK
  <2> QED BY <2>1, <2>2, <2>3, <2>4, LoneLocated
<1>7. CASE CancelTurn(m)
  <2>1. phase[m] \in InTurn /\ LeaveTurn(m, queue[m]) /\ Settle({m} \cup injected[m], "cancelled")
    BY <1>7 DEF CancelTurn
  <2> QED BY <1>3, <2>1
<1>8. CASE ContinueGoal(m)
  <2>1. /\ phase[m] \in InTurn /\ phase[m] # "idle"
        /\ LeaveTurn(m, Append(queue[m], m)) /\ Settle(injected[m], "served")
    BY <1>8 DEF ContinueGoal, Putting, InTurn
  <2>2. /\ Append(queue[m], m) \in Seq(Message)
        /\ ToSet(Append(queue[m], m)) = ToSet(queue[m]) \cup {m}
    BY <1>2, AppendQueue
  <2> DEFINE left == Append(queue[m], m)
             F == injected[m]
  <2>3. m \notin injected[m]
    BY <1>2, <2>1
  <2>4. F = ({m} \cup injected[m] \cup ToSet(queue[m])) \ ToSet(left)
    BY <1>2, <2>2, <2>3
  <2>5. /\ left \in Seq(Message) /\ ToSet(left) \subseteq ToSet(queue[m]) \cup {m}
        /\ LeaveTurn(m, left) /\ Settle(F, "served")
    BY <2>1, <2>2
  <2> HIDE DEF left, F
  <2> QED BY <2>1, <2>4, <2>5, LeaveLocated
<1>9. CASE CancelUnstarted(m) \/ CancelAtLock(m) \/ CancelAtGate(m) \/ CancelDirect(m)
  <2>1. phase[m] \in {"created", "locking", "gating"}
    <3>1. CASE CancelUnstarted(m)
      BY <1>1, <3>1, TailQueue DEF CancelUnstarted, TypeOK, IInv, Placed, TaskQueues, Lists
    <3> QED BY <1>9, <3>1 DEF CancelAtLock, CancelAtGate, CancelDirect
  <2>2. phase[m] # "idle" /\ queue[m] = <<>> /\ injected[m] = {}
    BY <2>1 DEF InTurn, IInv, Placed, QueueOwnership
  <2>3. /\ phase'[m] = "idle" /\ \A x \in Message : x # m => phase'[x] = phase[x]
        /\ UNCHANGED <<loop, queue, injected>>
        /\ UNCHANGED <<inbound, deferred>> \/ AbandonWait(m)
    BY <1>1, <1>9 DEF CancelUnstarted, CancelAtLock, CancelAtGate, CancelDirect, AbandonWait, TypeOK
  <2>4. \E o \in {"cancelled", "failed"} : Settle({m}, o)
    BY <1>9 DEF CancelUnstarted, CancelAtLock, CancelAtGate, CancelDirect, AbandonWait
  <2> QED BY <2>2, <2>3, <2>4, LoneLocated
<1> QED BY <1>4, <1>5, <1>6, <1>7, <1>8, <1>9 DEF CloseTurn, Deliver

\* Every step keeps every message in its one place.
LEMMA StepLocated ==
  ASSUME IInv, Located, Resetting, NEW m \in Message,
         \/ Arrive(m) \/ Run(m) \/ Admit(m) \/ Work(m) \/ EndSlice(m) \/ CloseTurn(m)
         \/ Fail(m) \/ Deliver(m) \/ CancelDirect(m)
  PROVE  Located'
BY ArriveLocated, RunLocated, AdmitLocated, WorkLocated, EndLocated DEF Arrive, EndSlice

DInv == IInv /\ Resetting /\ DirectApart /\ Permits /\ Located

\* Nothing has happened yet.
LEMMA InitDelivery == Init => DInv
<1> SUFFICES ASSUME Init PROVE DInv
  OBVIOUS
<1>1. IInv
  BY InitTyped, InitPlaced DEF IInv
<1>2. None \notin Message /\ Gate \in Nat
  BY ConstantsAssumption DEF ConstantsAssumption
<1>3. Resetting
  BY DEF Init, Resetting
<1>4. DirectApart
  BY EmptyQueue, ConstantsAssumption DEF Init, DirectApart, ConstantsAssumption
<1>5. Permits
  <2>1. Holders = {}
    BY DEF Init, Holders, InTurn
  <2> QED BY <1>2, <2>1, FS_EmptySet DEF Init, Permits
<1>6. \A m \in Message : Unqueued(m) /\ ~Somewhere(m)
  BY <1>2, EmptyQueue DEF Init, Unqueued, Somewhere, Folded
<1>7. Located
  BY <1>6 DEF Init, Located, FoldedApart, InlineApart, Found
<1> QED BY <1>1, <1>3, <1>4, <1>5, <1>7 DEF DInv

\* One step, whatever it is, preserves the accounts.
LEMMA NextDelivery == DInv /\ [Next]_vars => DInv'
<1> SUFFICES ASSUME DInv, [Next]_vars PROVE DInv'
  OBVIOUS
<1>1. IInv' /\ Resetting'
  BY NextPlaced, NextResetting DEF DInv, IInv
<1>2. CASE Next
  <2> PICK m \in Message :
        \/ Arrive(m) \/ Run(m) \/ Admit(m) \/ Work(m) \/ EndSlice(m) \/ CloseTurn(m)
        \/ Fail(m) \/ Deliver(m) \/ CancelDirect(m)
    BY <1>2 DEF Next
  <2>1. DirectApart'
    BY StepDirect DEF DInv
  <2>2. Permits'
    BY StepPermits DEF DInv
  <2>3. Located'
    BY StepLocated DEF DInv
  <2> QED BY <1>1, <2>1, <2>2, <2>3 DEF DInv
<1>3. CASE UNCHANGED vars
  <2>1. UNCHANGED <<inbound, deferred, phase, queue, injected, outcome, loop, active, cancelled, permits>>
    BY <1>3 DEF vars, busVars, taskVars, lockVars, turnVars
  <2>2. DirectApart'
    BY <2>1 DEF DInv, DirectApart
  <2>3. Permits'
    <3>1. Holders' = Holders
      BY <2>1 DEF Holders
    <3> QED BY <2>1, <3>1 DEF DInv, Permits
  <2>4. Located'
    <3>1. \A x \in Message : (Unqueued(x)' <=> Unqueued(x)) /\ (Somewhere(x)' <=> Somewhere(x))
      BY <2>1 DEF Unqueued, Somewhere, Folded
    <3>2. Found'
      BY <2>1, <3>1 DEF DInv, Located, Found
    <3>3. FoldedApart' /\ InlineApart'
      BY <2>1 DEF DInv, Located, FoldedApart, InlineApart, Unqueued
    <3> QED BY <3>2, <3>3 DEF Located
  <2> QED BY <1>1, <2>2, <2>3, <2>4 DEF DInv
<1> QED BY <1>2, <1>3

\* Every reachable state satisfies them.
LEMMA DeliveryInvariance == Spec => []DInv
BY InitDelivery, NextDelivery, PTL DEF Spec

\* In a queue without duplicates a message is at one position, or at none.
LEMMA OnePosition ==
  ASSUME NEW q \in Seq(Message), IsInjective(q), NEW m
  PROVE  /\ m \notin ToSet(q) => At(m, q) = {}
         /\ m \in ToSet(q) => \E i \in DOMAIN q : At(m, q) = {i}
<1>1. m \notin ToSet(q) => At(m, q) = {}
  BY DEF At, ToSet
<1>2. ASSUME m \in ToSet(q) PROVE \E i \in DOMAIN q : At(m, q) = {i}
  <2>1. PICK i \in DOMAIN q : q[i] = m
    BY <1>2 DEF ToSet
  <2>2. \A j \in DOMAIN q : q[j] = m => j = i
    BY <2>1 DEF IsInjective
  <2>3. At(m, q) = {i}
    BY <2>1, <2>2 DEF At
  <2> QED BY <2>3
<1> QED BY <1>1, <1>2

\* One place for a message that is somewhere, none for another.
LEMMA OneOfThePlaces ==
  ASSUME IInv, Located, NEW m \in Message
  PROVE  /\ Somewhere(m) => \E p : Places(m) = {p}
         /\ ~Somewhere(m) => Places(m) = {}
<1> DEFINE B == {<<"bus", i>> : i \in At(m, inbound)}
           QOf(t) == {<<"queue", t, i>> : i \in At(m, queue[t])}
           Q == UNION {QOf(t) : t \in Message}
           DOf(s) == {<<"deferred", s, i>> : i \in At(m, deferred[s])}
           D == UNION {DOf(s) : s \in Session}
           I == {<<"folded", t>> : t \in {u \in Message : m \in injected[u]}}
           T == {<<"task", t>> : t \in {u \in {m} : phase[u] # "idle"}}
           L == {<<"inline", t>> : t \in {u \in {m} : loop = u}}
<1>1. Places(m) = B \cup Q \cup D \cup I \cup T \cup L
  BY DEF Places
<1>2. /\ inbound \in Seq(Message) /\ IsInjective(inbound)
      /\ \A t \in Message : queue[t] \in Seq(Message) /\ IsInjective(queue[t])
      /\ \A s \in Session : deferred[s] \in Seq(Message) /\ IsInjective(deferred[s])
  BY DEF IInv, TypeOK, Placed, BusQueue, PendingQueues, DeferredQueues, Lists
<1>3. (m \notin ToSet(inbound) => B = {}) /\ (m \in ToSet(inbound) => \E p : B = {p})
  <2>1. m \notin ToSet(inbound) => B = {}
    BY <1>2, OnePosition
  <2>2. ASSUME m \in ToSet(inbound) PROVE \E p : B = {p}
    <3>1. PICK i \in DOMAIN inbound : At(m, inbound) = {i}
      BY <1>2, <2>2, OnePosition
    <3>2. B = {<<"bus", i>>}
      BY <3>1
    <3> QED BY <3>2
  <2> QED BY <2>1, <2>2
<1>4. ASSUME NEW t \in Message
      PROVE  (m \notin ToSet(queue[t]) => QOf(t) = {}) /\ (m \in ToSet(queue[t]) => \E p : QOf(t) = {p})
  <2>1. m \notin ToSet(queue[t]) => QOf(t) = {}
    BY <1>2, OnePosition
  <2>2. ASSUME m \in ToSet(queue[t]) PROVE \E p : QOf(t) = {p}
    <3>1. PICK i \in DOMAIN queue[t] : At(m, queue[t]) = {i}
      BY <1>2, <2>2, OnePosition
    <3>2. QOf(t) = {<<"queue", t, i>>}
      BY <3>1
    <3> QED BY <3>2
  <2> QED BY <2>1, <2>2
<1>5. ASSUME NEW s \in Session
      PROVE  (m \notin ToSet(deferred[s]) => DOf(s) = {}) /\ (m \in ToSet(deferred[s]) => \E p : DOf(s) = {p})
  <2>1. m \notin ToSet(deferred[s]) => DOf(s) = {}
    BY <1>2, OnePosition
  <2>2. ASSUME m \in ToSet(deferred[s]) PROVE \E p : DOf(s) = {p}
    <3>1. PICK i \in DOMAIN deferred[s] : At(m, deferred[s]) = {i}
      BY <1>2, <2>2, OnePosition
    <3>2. DOf(s) = {<<"deferred", s, i>>}
      BY <3>1
    <3> QED BY <3>2
  <2> QED BY <2>1, <2>2
<1>6. (phase[m] = "idle" => T = {}) /\ (phase[m] # "idle" => T = {<<"task", m>>})
  OBVIOUS
<1>7. (loop # m => L = {}) /\ (loop = m => L = {<<"inline", m>>})
  OBVIOUS
<1>8. ~Folded(m) => I = {}
  BY DEF Folded
<1>9. ASSUME NEW t \in Message, m \in injected[t], \A u \in Message \ {t} : m \notin injected[u]
      PROVE  I = {<<"folded", t>>}
  BY <1>9
<1> HIDE DEF B, QOf, DOf, I, T, L
<1>10. Unqueued(m) => B = {} /\ Q = {} /\ D = {}
  BY <1>3, <1>4, <1>5 DEF Unqueued
<1>11. CASE m \in ToSet(inbound)
  <2>1. /\ phase[m] = "idle" /\ loop # m /\ ~Folded(m)
        /\ \A t \in Message : m \notin ToSet(queue[t])
        /\ \A s \in Session : m \notin ToSet(deferred[s])
    BY <1>11, OnePlace
  <2>2. Q = {} /\ D = {} /\ I = {} /\ T = {} /\ L = {}
    BY <1>4, <1>5, <1>6, <1>7, <1>8, <2>1
  <2>3. PICK p : B = {p}
    BY <1>3, <1>11
  <2>4. Somewhere(m) /\ Places(m) = {p}
    BY <1>1, <1>11, <2>2, <2>3 DEF Somewhere, Unqueued
  <2> QED BY <2>4
<1>12. CASE \E t \in Message : m \in ToSet(queue[t])
  <2>1. PICK t \in Message : m \in ToSet(queue[t])
    BY <1>12
  <2>2. /\ phase[m] = "idle" /\ loop # m /\ ~Folded(m)
        /\ \A u \in Message \ {t} : m \notin ToSet(queue[u])
        /\ m \notin ToSet(inbound) /\ \A s \in Session : m \notin ToSet(deferred[s])
    BY <2>1, OnePlace
  <2>3. B = {} /\ D = {} /\ I = {} /\ T = {} /\ L = {} /\ \A u \in Message \ {t} : QOf(u) = {}
    BY <1>3, <1>4, <1>5, <1>6, <1>7, <1>8, <2>2
  <2>4. PICK p : QOf(t) = {p}
    BY <1>4, <2>1
  <2>5. Q = {p}
    BY <2>3, <2>4
  <2>6. Somewhere(m) /\ Places(m) = {p}
    BY <1>1, <2>1, <2>3, <2>5 DEF Somewhere, Unqueued
  <2> QED BY <2>6
<1>13. CASE \E s \in Session : m \in ToSet(deferred[s])
  <2>1. PICK s \in Session : m \in ToSet(deferred[s])
    BY <1>13
  <2>2. /\ phase[m] = "idle" /\ loop # m /\ ~Folded(m) /\ s = SessionOf[m]
        /\ m \notin ToSet(inbound) /\ \A t \in Message : m \notin ToSet(queue[t])
    BY <2>1, OnePlace
  <2>3. \A z \in Session \ {s} : m \notin ToSet(deferred[z])
    BY <2>2, OnePlace
  <2>4. B = {} /\ Q = {} /\ I = {} /\ T = {} /\ L = {} /\ \A z \in Session \ {s} : DOf(z) = {}
    BY <1>3, <1>4, <1>5, <1>6, <1>7, <1>8, <2>2, <2>3
  <2>5. PICK p : DOf(s) = {p}
    BY <1>5, <2>1
  <2>6. D = {p}
    BY <2>4, <2>5
  <2>7. Somewhere(m) /\ Places(m) = {p}
    BY <1>1, <2>1, <2>4, <2>6 DEF Somewhere, Unqueued
  <2> QED BY <2>7
<1>14. CASE Unqueued(m) /\ Folded(m)
  <2>1. PICK t \in Message : m \in injected[t]
    BY <1>14 DEF Folded
  <2>2. phase[m] = "idle" /\ loop # m /\ \A u \in Message \ {t} : m \notin injected[u]
    BY <2>1, OnePlace
  <2>3. I = {<<"folded", t>>}
    BY <1>9, <2>1, <2>2
  <2>4. Somewhere(m) /\ Places(m) = {<<"folded", t>>}
    BY <1>1, <1>6, <1>7, <1>10, <1>14, <2>2, <2>3 DEF Somewhere
  <2> QED BY <2>4
<1>15. CASE phase[m] # "idle"
  <2>1. Unqueued(m) /\ ~Folded(m) /\ loop # m
    BY <1>15, OnePlace
  <2>2. Somewhere(m) /\ Places(m) = {<<"task", m>>}
    BY <1>1, <1>6, <1>7, <1>8, <1>10, <1>15, <2>1 DEF Somewhere
  <2> QED BY <2>2
<1>16. CASE loop = m
  <2>1. Unqueued(m) /\ ~Folded(m) /\ phase[m] = "idle"
    BY <1>16, OnePlace
  <2>2. Somewhere(m) /\ Places(m) = {<<"inline", m>>}
    BY <1>1, <1>6, <1>7, <1>8, <1>10, <1>16, <2>1 DEF Somewhere
  <2> QED BY <2>2
<1>17. CASE Unqueued(m) /\ ~Folded(m) /\ phase[m] = "idle" /\ loop # m
  <2>1. Places(m) = {}
    BY <1>1, <1>6, <1>7, <1>8, <1>10, <1>17
  <2> QED BY <1>17, <2>1 DEF Somewhere
<1> QED BY <1>11, <1>12, <1>13, <1>14, <1>15, <1>16, <1>17 DEF Unqueued

-----------------------------------------------------------------------------
(* What follows.                                                            *)

\* Every permit of the gate is free or held by one dispatched turn in
\* progress, for any gate, however turns are admitted, cancelled or reset.
THEOREM PermitsBalance == Spec => []GateAccounting
<1>1. DInv => GateAccounting
  BY DEF DInv, Permits, Holders, GateAccounting
<1> QED BY <1>1, DeliveryInvariance, PTL

\* No message is lost or duplicated: one that is not finished is in exactly one
\* place, one that is finished or not sent is nowhere.
THEOREM NothingLost == Spec => []Conservation
<1>1. DInv => Conservation
  <2> SUFFICES ASSUME DInv, NEW m \in Message
               PROVE  Cardinality(Places(m)) = IF outcome[m] = "open" THEN 1 ELSE 0
    BY DEF Conservation
  <2>1. outcome[m] = "open" <=> Somewhere(m)
    BY DEF DInv, Located, Found
  <2>2. CASE Somewhere(m)
    <3>1. PICK p : Places(m) = {p}
      BY <2>2, OneOfThePlaces DEF DInv
    <3> QED BY <2>1, <2>2, <3>1, FS_Singleton
  <2>3. CASE ~Somewhere(m)
    <3>1. Places(m) = {}
      BY <2>3, OneOfThePlaces DEF DInv
    <3> QED BY <2>1, <2>3, <3>1, FS_EmptySet
  <2> QED BY <2>2, <2>3
<1> QED BY <1>1, DeliveryInvariance, PTL

-----------------------------------------------------------------------------
(* Submitters are answered.                                                 *)

\* The end of a task finishes what its turn had and no other automation turn
\* than its own; the submitter of that one hears of it, or it was cut off.
LEMMA EndFinishes ==
  ASSUME IInv, NEW m \in Message,
         ContinueGoal(m) \/ CloseTurn(m) \/ Fail(m) \/ Deliver(m) \/ CancelDirect(m)
  PROVE  /\ phase[m] # "idle"
         /\ \A x \in Message : x \notin {m} \cup injected[m] => outcome'[x] = outcome[x]
         /\ \A a \in Automation : a # m => outcome'[a] = outcome[a] /\ waiter'[a] = waiter[a]
         /\ m \in Automation => waiter'[m] # "waiting" \/ outcome'[m] = "cancelled"
<1> USE DEF taskVars, lockVars, turnVars, busVars
<1>1. /\ TypeOK /\ SessionOf[m] \in Session
      /\ Automation \subseteq Message /\ Direct \cap Automation = {}
  BY ConstantsAssumption DEF ConstantsAssumption, IInv
<1>2. \A a \in Automation : a \notin injected[m]
  BY DEF IInv, Placed, FoldedFollowUps
<1>3. CASE ContinueGoal(m) \/ CloseTurn(m) \/ Fail(m) \/ CancelTurn(m)
  <2>1. /\ \E answer \in {"result", "error"} : Complete(m, answer)
        /\ \E F \in {injected[m], {m} \cup injected[m], {m}} : \E o : Settle(F, o)
        /\ phase[m] # "idle"
    BY <1>3 DEF ContinueGoal, Putting, CloseTurn, Finish, FinishNew, Fail, CancelTurn, InTurn
  <2>2. \A x \in Message : x \notin {m} \cup injected[m] => outcome'[x] = outcome[x]
    BY <2>1 DEF Settle
  <2>3. waiter'[m] # "waiting" /\ \A a \in Message : a # m => waiter'[a] = waiter[a]
    BY <1>1, <2>1 DEF Complete, TypeOK
  <2> QED BY <1>1, <1>2, <2>1, <2>2, <2>3
<1>4. CASE CancelUnstarted(m) \/ CancelAtLock(m) \/ CancelAtGate(m) \/ CancelDirect(m)
  <2>1. phase[m] # "idle"
    <3>1. CASE CancelUnstarted(m)
      BY <1>1, <3>1, TailQueue DEF CancelUnstarted, TypeOK, IInv, Placed, TaskQueues, Lists
    <3> QED BY <1>4, <3>1 DEF CancelAtLock, CancelAtGate, CancelDirect
  <2>2. waiter' = waiter
    BY <1>4 DEF CancelUnstarted, CancelAtLock, CancelAtGate, CancelDirect, AbandonWait
  <2>3. \/ Settle({m}, "cancelled")
        \/ Settle({m}, "failed") /\ m \in Direct
    BY <1>4 DEF CancelUnstarted, CancelAtLock, CancelAtGate, CancelDirect, AbandonWait
  <2>4. /\ \A x \in Message : x # m => outcome'[x] = outcome[x]
        /\ outcome'[m] = "cancelled" \/ m \in Direct
    BY <2>3 DEF Settle
  <2> QED BY <1>1, <2>1, <2>2, <2>4
<1> QED BY <1>3, <1>4 DEF Deliver

\* What is finished stays as it was finished.
LEMMA FinishedStays ==
  ASSUME DInv, NEW m \in Message,
         \/ Arrive(m) \/ Run(m) \/ Admit(m) \/ Work(m) \/ EndSlice(m) \/ CloseTurn(m)
         \/ Fail(m) \/ Deliver(m) \/ CancelDirect(m),
         NEW x \in Message, outcome[x] \notin {"unsent", "open"}
  PROVE  outcome'[x] = outcome[x]
<1>1. ~Somewhere(x)
  BY DEF DInv, Located, Found
<1>2. CASE Arrive(m)
  <2>1. outcome[m] = "unsent" /\ Settle({m}, "open")
    BY <1>2 DEF Arrive, Publish, Submit, CallDirect
  <2> QED BY <2>1 DEF Settle
<1>3. CASE Run(m) /\ ~RunReply(m)
  BY <1>3 DEF Run, RunPriority, RunDefer, RunInline, RunInject, RunSpawn
<1>4. CASE RunReply(m)
  <2> DEFINE t == registered[SessionOf[m]]
             emptied == IF CommandOf(m) = "stop" /\ t # None THEN ToSet(queue[t]) ELSE {}
  <2>1. /\ loop = m
        /\ outcome' = [z \in Message |-> CASE z = m -> "served"
                                            [] z \in emptied -> "dropped"
                                            [] OTHER -> outcome[z]]
    BY <1>4 DEF RunReply
  <2>2. x # m /\ \A u \in Message : x \notin ToSet(queue[u])
    BY <1>1, <2>1 DEF Somewhere, Unqueued
  <2>3. t # None => t \in Message
    BY ConstantsAssumption DEF DInv, IInv, TypeOK, ConstantsAssumption
  <2>4. x \notin emptied
    BY <2>2, <2>3
  <2> HIDE DEF emptied
  <2> QED BY <2>1, <2>2, <2>4
<1>5. CASE \/ Admit(m) \/ Work(m) \/ Answer(m) \/ Exhaust(m) \/ Yield(m) \/ BlockOnPut(m)
           \/ NewCommand(m)
  BY <1>5 DEF Admit, StartTask, GrantLock, GrantGate, Work, Inject, StartGoal, EndGoal, Answer,
              Exhaust, Yield, LastDrain, BlockOnPut, NewCommand
<1>6. CASE ContinueGoal(m) \/ CloseTurn(m) \/ Fail(m) \/ Deliver(m) \/ CancelDirect(m)
  <2>1. /\ phase[m] # "idle"
        /\ x \notin {m} \cup injected[m] => outcome'[x] = outcome[x]
    BY <1>6, EndFinishes DEF DInv
  <2>2. x # m /\ x \notin injected[m]
    BY <1>1, <2>1 DEF Somewhere, Folded
  <2> QED BY <2>1, <2>2
<1> QED BY <1>2, <1>3, <1>4, <1>5, <1>6 DEF EndSlice

\* A message is finished once: after its turn, or the one it was folded into,
\* ended in some way, or a /stop or /new took it, no late answer, requeued
\* follow-up, cancellation or cleanup finishes or reopens it
\* (AgentLoop._dispatch with its finally, AgentLoop.run, process_direct).
THEOREM FinishedOnce ==
  Spec => [][\A x \in Message :
               outcome[x] \notin {"unsent", "open"} => outcome'[x] = outcome[x]]_vars
<1> DEFINE Stays == \A x \in Message :
                      outcome[x] \notin {"unsent", "open"} => outcome'[x] = outcome[x]
<1>1. DInv /\ [Next]_vars => [Stays]_vars
  <2> SUFFICES ASSUME DInv, Next PROVE Stays
    OBVIOUS
  <2> QED BY FinishedStays DEF Next
<1> QED BY <1>1, DeliveryInvariance, PTL DEF Spec

\* A step never leaves a submitter waiting for a turn that was finished.
LEMMA StepAnswers ==
  ASSUME IInv, Answering, NEW m \in Message,
         \/ Arrive(m) \/ Run(m) \/ Admit(m) \/ Work(m) \/ EndSlice(m) \/ CloseTurn(m)
         \/ Fail(m) \/ Deliver(m) \/ CancelDirect(m)
  PROVE  Answering'
<1> SUFFICES ASSUME NEW a \in Automation, Command[a] \notin Priority
             PROVE  /\ loop' # a
                    /\ waiter'[a] = "waiting" => outcome'[a] \in {"open", "cancelled"}
  BY DEF Answering
<1> USE DEF taskVars, lockVars, turnVars, busVars
<1>1. /\ TypeOK /\ SessionOf[m] \in Session /\ None \notin Message
      /\ Automation \subseteq Message /\ Direct \cap Automation = {}
  BY ConstantsAssumption DEF ConstantsAssumption, IInv
<1>2. loop # a /\ (waiter[a] = "waiting" => outcome[a] \in {"open", "cancelled"})
  BY DEF Answering
<1>3. CASE Arrive(m)
  <2>1. UNCHANGED loop /\ Settle({m}, "open")
    BY <1>3 DEF Arrive, Publish, Submit, CallDirect
  <2>2. a # m => waiter'[a] = waiter[a]
    BY <1>1, <1>3 DEF Arrive, Publish, Submit, CallDirect, TypeOK
  <2> QED BY <1>1, <1>2, <2>1, <2>2 DEF Settle
<1>4. CASE RunPriority(m) \/ RunInline(m)
  <2>1. loop' = m /\ UNCHANGED <<waiter, outcome>>
    BY <1>4 DEF RunPriority, RunInline
  <2>2. m # a
    BY <1>4 DEF RunPriority, RunInline, CommandOf, Priority, ShouldDefer
  <2> QED BY <1>2, <2>1, <2>2
<1>5. CASE RunDefer(m) \/ RunInject(m) \/ RunSpawn(m)
  BY <1>2, <1>5 DEF RunDefer, RunInject, RunSpawn
<1>6. CASE RunReply(m)
  <2> DEFINE t == registered[SessionOf[m]]
             emptied == IF CommandOf(m) = "stop" /\ t # None THEN ToSet(queue[t]) ELSE {}
  <2>1. /\ loop = m /\ loop' = None /\ UNCHANGED waiter
        /\ outcome' = [z \in Message |-> CASE z = m -> "served"
                                            [] z \in emptied -> "dropped"
                                            [] OTHER -> outcome[z]]
    BY <1>6 DEF RunReply
  <2>2. t # None => t \in Message
    BY <1>1 DEF TypeOK
  <2>3. a \notin emptied
    BY <2>2 DEF IInv, Placed, PendingQueues
  <2> HIDE DEF emptied
  <2> QED BY <1>1, <1>2, <2>1, <2>3
<1>7. CASE \/ Admit(m) \/ Work(m) \/ Answer(m) \/ Exhaust(m) \/ Yield(m) \/ BlockOnPut(m)
           \/ NewCommand(m)
  BY <1>2, <1>7 DEF Admit, StartTask, GrantLock, GrantGate, Work, Inject, StartGoal, EndGoal, Answer,
                    Exhaust, Yield, LastDrain, BlockOnPut, NewCommand
<1>8. CASE ContinueGoal(m) \/ CloseTurn(m) \/ Fail(m) \/ Deliver(m) \/ CancelDirect(m)
  <2>1. UNCHANGED loop
    BY <1>8 DEF ContinueGoal, CloseTurn, Finish, FinishNew, Fail, Deliver, CancelUnstarted, CancelAtLock,
                CancelAtGate, CancelTurn, CancelDirect, AbandonWait, EndTurn, LeaveTurn,
                ReturnDirect
  <2> QED BY <1>2, <1>8, <2>1, EndFinishes
<1> QED BY <1>3, <1>4, <1>5, <1>6, <1>7, <1>8 DEF Run, EndSlice

-----------------------------------------------------------------------------
(* Deferred turns are not stranded.                                         *)

\* Nothing of a session moves by a step of another session's message.
LEMMA EndWatched ==
  ASSUME DInv, NEW m \in Message, NEW s \in Session, NEW w \in Message \ Direct,
         ContinueGoal(m) \/ CloseTurn(m) \/ Fail(m) \/ Deliver(m) \/ CancelDirect(m),
         SessionOf[w] = s, Publisher(w), deferred[s] # <<>>
  PROVE  \E x \in Message \ Direct : SessionOf[x] = s /\ Publisher(x)'
<1> USE DEF taskVars, lockVars, turnVars, busVars
<1>1. /\ TypeOK /\ IInv /\ SessionOf[m] \in Session
      /\ Automation \subseteq Message /\ Direct \cap Automation = {}
  BY ConstantsAssumption DEF ConstantsAssumption, DInv, IInv
<1>2. /\ phase'[m] = "idle" /\ \A x \in Message : x # m => phase'[x] = phase[x]
  <2>1. phase' = [phase EXCEPT ![m] = "idle"]
    BY DEF ContinueGoal, CloseTurn, Finish, FinishNew, Fail, Deliver, CancelUnstarted, CancelAtLock,
           CancelAtGate, CancelTurn, CancelDirect, AbandonWait, EndTurn, LeaveTurn, ReturnDirect
  <2> QED BY <1>1, <2>1 DEF TypeOK
<1>3. outcome[w] = "cancelled" => outcome'[w] = "cancelled"
  BY FinishedStays DEF EndSlice
<1>4. ASSUME UNCHANGED inbound, w # m PROVE Publisher(w)'
  BY <1>2, <1>3, <1>4 DEF Publisher
<1>5. ASSUME NEW left \in Seq(Message),
             inbound' = inbound \o left \o NextDeferred(SessionOf[m]),
             deferred' = [deferred EXCEPT ![SessionOf[m]] = LaterDeferred(SessionOf[m])]
      PROVE  \E x \in Message \ Direct : SessionOf[x] = s /\ Publisher(x)'
  <2>1. PICK N \in SUBSET ToSet(deferred[SessionOf[m]]) :
          /\ ToSet(inbound') = ToSet(inbound) \cup ToSet(left) \cup N
          /\ deferred[SessionOf[m]] # <<>> => N # {}
    BY <1>1, <1>5, GivesBack
  <2>2. CASE s = SessionOf[m]
    <3>1. PICK a \in N : a \in ToSet(deferred[s])
      BY <2>1, <2>2
    <3>2. a \in Automation /\ SessionOf[a] = s
      BY <3>1 DEF DInv, IInv, Placed, DeferredQueues
    <3>3. a \in ToSet(inbound')
      BY <2>1, <3>1
    <3> QED BY <1>1, <3>2, <3>3 DEF Publisher
  <2>3. CASE s # SessionOf[m]
    <3>1. w # m
      BY <2>3
    <3>2. Publisher(w)'
      BY <1>2, <1>3, <2>1, <3>1 DEF Publisher
    <3> QED BY <3>2
  <2> QED BY <2>2, <2>3
<1>6. CASE (CloseTurn(m) \/ Fail(m)) /\ m \in Direct
  <2>1. UNCHANGED inbound
    BY <1>6 DEF CloseTurn, Finish, FinishNew, Fail, EndTurn, ReturnDirect
  <2> QED BY <1>4, <1>6, <2>1
<1>7. CASE LeaveTurn(m, queue[m])
  <2>1. queue[m] \in Seq(Message)
    BY <1>1 DEF TypeOK
  <2> QED BY <1>5, <1>7, <2>1 DEF LeaveTurn
<1>8. CASE ContinueGoal(m)
  <2>1. Append(queue[m], m) \in Seq(Message)
    BY <1>1, AppendQueue DEF TypeOK
  <2>2. LeaveTurn(m, Append(queue[m], m))
    BY <1>8 DEF ContinueGoal
  <2> QED BY <1>5, <2>1, <2>2 DEF LeaveTurn
<1>9. CASE AbandonWait(m)
  <2>1. <<>> \in Seq(Message) /\ inbound \o <<>> = inbound
    BY <1>1, EmptySeq, ConcatEmptySeq DEF TypeOK
  <2>2. /\ inbound' = inbound \o <<>> \o NextDeferred(SessionOf[m])
        /\ deferred' = [deferred EXCEPT ![SessionOf[m]] = LaterDeferred(SessionOf[m])]
    BY <1>9, <2>1 DEF AbandonWait
  <2> QED BY <1>5, <2>1, <2>2
<1>10. CASE CancelDirect(m)
  BY <1>4, <1>10 DEF CancelDirect
<1>11. CASE CancelUnstarted(m)
  <2>1. UNCHANGED inbound /\ outcome'[m] = "cancelled" /\ phase[m] = "created"
    BY <1>1, <1>11, TailQueue
       DEF CancelUnstarted, Settle, TypeOK, IInv, Placed, TaskQueues, Lists
  <2>2. CASE w = m
    <3>1. w \in Automation
      <4>1. phase[w] \notin InTurn
        BY <2>1, <2>2 DEF InTurn
      <4> QED BY <4>1 DEF Publisher
    <3>2. Publisher(w)'
      BY <2>1, <2>2, <3>1 DEF Publisher
    <3> QED BY <3>2
  <2>3. CASE w # m
    BY <1>4, <2>1, <2>3
  <2> QED BY <2>2, <2>3
<1> QED BY <1>6, <1>7, <1>8, <1>9, <1>10, <1>11
        DEF CloseTurn, Finish, FinishNew, Fail, Deliver, CancelAtLock, CancelAtGate, CancelTurn,
          EndTurn

\* When no automation spells a priority command, a step that sets a turn aside,
\* or takes a publisher away, leaves a publisher.
LEMMA StepWatched ==
  ASSUME \A a \in Automation : Command[a] \notin Priority,
         DInv, Watched, NEW m \in Message,
         \/ Arrive(m) \/ Run(m) \/ Admit(m) \/ Work(m) \/ EndSlice(m) \/ CloseTurn(m)
         \/ Fail(m) \/ Deliver(m) \/ CancelDirect(m)
  PROVE  Watched'
<1> SUFFICES ASSUME NEW s \in Session, deferred'[s] # <<>>
             PROVE  \E x \in Message \ Direct : SessionOf[x] = s /\ Publisher(x)'
  BY DEF Watched
<1> USE DEF taskVars, lockVars, turnVars, busVars
<1>1. /\ TypeOK /\ IInv /\ SessionOf[m] \in Session /\ None \notin Message
      /\ Automation \subseteq Message /\ Direct \cap Automation = {}
  BY ConstantsAssumption DEF ConstantsAssumption, DInv, IInv
<1>2. CASE deferred[s] = <<>> \/ (RunDefer(m) /\ s = SessionOf[m])
  <2>1. RunDefer(m) /\ s = SessionOf[m]
    <3>1. ASSUME ~RunDefer(m) PROVE deferred' = deferred \/ \E z : deferred' = [deferred EXCEPT ![z] = LaterDeferred(z)]
      <4>1. CASE Arrive(m) \/ Run(m) \/ Admit(m)
        BY <3>1, <4>1 DEF Arrive, Publish, Submit, CallDirect, Run, RunPriority, RunInline, RunInject, RunSpawn, RunReply, Admit,
                          StartTask, GrantLock, GrantGate
      <4>2. CASE Work(m) \/ EndSlice(m) \/ CloseTurn(m) \/ Fail(m) \/ Deliver(m) \/ CancelDirect(m)
        BY <4>2 DEF Work, Inject, StartGoal, EndGoal, EndSlice, Answer, Exhaust, Yield, LastDrain,
                    ContinueGoal, BlockOnPut, NewCommand, CloseTurn, Finish, FinishNew, Fail, Deliver, CancelUnstarted, CancelAtLock,
                    CancelAtGate, CancelTurn, CancelDirect, AbandonWait, EndTurn, LeaveTurn,
                    ReturnDirect
      <4> QED BY <4>1, <4>2
    <3>2. LaterDeferred(s) = <<>> \/ deferred[s] # <<>>
      BY DEF LaterDeferred
    <3>3. RunDefer(m)
      BY <1>1, <1>2, <3>1, <3>2 DEF TypeOK
    <3>4. deferred' = [deferred EXCEPT ![SessionOf[m]] = Append(@, m)]
      BY <3>3 DEF RunDefer
    <3> QED BY <1>1, <1>2, <3>3, <3>4 DEF TypeOK
  <2>2. /\ registered[s] # None /\ UNCHANGED phase
    BY <2>1 DEF RunDefer, ShouldDefer, IsActive
  <2>3. /\ registered[s] \in Message \ Direct /\ SessionOf[registered[s]] = s
        /\ phase[registered[s]] \in InTurn
    BY <1>1, <2>2 DEF TypeOK, IInv, Placed, QueueOwnership, DirectCalls
  <2>4. PICK x \in Message \ Direct : x = registered[s]
    BY <2>3
  <2>5. SessionOf[x] = s /\ Publisher(x)'
    BY <2>2, <2>3, <2>4 DEF Publisher
  <2> QED BY <2>5
<1>3. CASE deferred[s] # <<>> /\ ~(RunDefer(m) /\ s = SessionOf[m])
  <2>1. PICK w \in Message \ Direct : SessionOf[w] = s /\ Publisher(w)
    BY <1>3 DEF Watched
  <2>2. outcome[w] = "cancelled" => outcome'[w] = "cancelled"
    BY FinishedStays
  <2>3. CASE Arrive(m)
    <3>1. ToSet(inbound) \subseteq ToSet(inbound') /\ phase'[w] = phase[w]
      <4>1. CASE Publish(m) \/ Submit(m)
        <5>1. UNCHANGED phase /\ inbound' = Append(inbound, m)
          BY <4>1 DEF Publish, Submit
        <5> QED BY <1>1, <5>1, AppendQueue DEF TypeOK
      <4>2. CASE CallDirect(m)
        <5>1. m \in Direct /\ UNCHANGED inbound /\ \E ph : phase' = [phase EXCEPT ![m] = ph]
          BY <4>2 DEF CallDirect, ReachLock, TakeLock, AwaitLock, OpenTurn, StartRunning
        <5> QED BY <1>1, <5>1 DEF TypeOK
      <4> QED BY <2>3, <4>1, <4>2 DEF Arrive
    <3> QED BY <2>1, <2>2, <3>1 DEF Publisher
  <2>4. CASE Run(m) /\ Consumes(m)
    <3>1. ToSet(inbound') = ToSet(inbound) \ {m} /\ phase[m] = "idle"
      BY <1>1, <2>4, ConsumedIsFree
    <3>2. ~RunReply(m)
      BY <1>1, <2>4 DEF RunReply, Consumes
    <3>3. w = m /\ m \in Automation => phase'[m] = "created"
      <4>1. CASE RunPriority(m)
        BY <4>1 DEF RunPriority, CommandOf, Priority
      <4>2. CASE RunDefer(m)
        BY <1>3, <2>1, <4>2
      <4>3. CASE RunInline(m)
        BY <4>3 DEF RunInline, ShouldDefer
      <4>4. CASE RunInject(m)
        BY <4>4 DEF RunInject, ShouldDefer, IsActive
      <4>5. CASE RunSpawn(m)
        BY <1>1, <4>5 DEF RunSpawn, TypeOK
      <4> QED BY <2>4, <3>2, <4>1, <4>2, <4>3, <4>4, <4>5 DEF Run
    <3>4. \A x \in Message : x # m => phase'[x] = phase[x]
      BY <1>1, <2>4, <3>2 DEF Run, RunPriority, RunDefer, RunInline, RunInject, RunSpawn, TypeOK
    <3>5. CASE w = m
      <4>1. m \in Automation
        BY <2>1, <3>1, <3>5 DEF Publisher, InTurn
      <4> QED BY <2>1, <3>3, <3>5, <4>1 DEF Publisher
    <3>6. CASE w # m
      BY <2>1, <2>2, <3>1, <3>4, <3>6 DEF Publisher
    <3> QED BY <3>5, <3>6
  <2>5. CASE RunReply(m)
    BY <2>1, <2>2, <2>5 DEF RunReply, Publisher
  <2>6. CASE Admit(m)
    <3>1. UNCHANGED inbound
      BY <2>6 DEF Admit, StartTask, GrantLock, GrantGate
    <3>2. /\ \E ph \in {"running", "gating", "locking"} : phase' = [phase EXCEPT ![m] = ph]
          /\ phase[m] \in {"created", "locking", "gating"}
      <4>1. CASE StartTask(m)
        BY <1>1, <4>1, TailQueue
           DEF StartTask, ReachLock, TakeLock, AwaitLock, OpenTurn, TypeOK, IInv, Placed,
             TaskQueues, Lists, StartRunning
      <4>2. CASE GrantLock(m)
        <5> DEFINE q == waiters[SessionOf[m]]
        <5>1. phase[m] = "locking"
          <6>1. q \in Seq(Message) /\ q # <<>> /\ m = Head(q)
            BY <1>1, <4>2 DEF GrantLock, TypeOK
          <6>2. m \in ToSet(q)
            BY <6>1, TailQueue
          <6> QED BY <1>1, <6>2 DEF IInv, Placed, TaskQueues, Lists
        <5>2. \E ph \in {"running", "gating"} : phase' = [phase EXCEPT ![m] = ph]
          BY <4>2 DEF GrantLock, TakeLock, OpenTurn, StartRunning
        <5> QED BY <5>1, <5>2
      <4>3. CASE GrantGate(m)
        BY <1>1, <4>3, TailQueue DEF GrantGate, OpenTurn, TypeOK, IInv, Placed, TaskQueues,
          Lists, StartRunning
      <4> QED BY <2>6, <4>1, <4>2, <4>3 DEF Admit
    <3>3. /\ phase'[m] # "idle" /\ phase[m] \notin InTurn
          /\ \A x \in Message : x # m => phase'[x] = phase[x]
      BY <1>1, <3>2 DEF TypeOK, InTurn
    <3> QED BY <2>1, <2>2, <3>1, <3>3 DEF Publisher
  <2>7. CASE \/ Work(m) \/ Answer(m) \/ Exhaust(m) \/ Yield(m) \/ BlockOnPut(m)
             \/ NewCommand(m)
    <3>1. UNCHANGED inbound /\ phase[m] \in {"running", "yielding"}
      BY <2>7 DEF Work, Inject, StartGoal, EndGoal, Answer, Exhaust, Yield, LastDrain, BlockOnPut,
                  NewCommand, InRunner, Putting
    <3>2. \/ UNCHANGED phase
          \/ \E ph \in {"yielding", "closing", "blocked", "resetting"} :
               phase' = [phase EXCEPT ![m] = ph]
      BY <2>7 DEF Work, Inject, StartGoal, EndGoal, Answer, Exhaust, Yield, LastDrain, BlockOnPut,
                  NewCommand
    <3>3. phase'[m] \in InTurn /\ \A x \in Message : x # m => phase'[x] = phase[x]
      BY <1>1, <3>1, <3>2 DEF TypeOK, InTurn
    <3> QED BY <2>1, <2>2, <3>1, <3>3 DEF Publisher
  <2>8. CASE ContinueGoal(m) \/ CloseTurn(m) \/ Fail(m) \/ Deliver(m) \/ CancelDirect(m)
    BY <1>3, <2>1, <2>8, EndWatched
  <2>9. CASE Run(m) /\ ~Consumes(m)
    BY <2>5, <2>9 DEF Run, RunPriority, RunDefer, RunInline, RunInject, RunSpawn
  <2> QED BY <2>3, <2>4, <2>6, <2>7, <2>8, <2>9 DEF EndSlice
<1> QED BY <1>2, <1>3

\* A submitter of an automation turn is not left waiting for a turn that has
\* been finished, unless it was cancelled before it had the lock and the gate.
\* The text of the automation must not be a priority command: run() executes
\* that one itself and answers nobody.
THEOREM SubmittersAnswered ==
  ASSUME \A a \in Automation : Command[a] \notin Priority
  PROVE  Spec => []AnsweredUnlessCut
<1>1. Init => Answering
  BY ConstantsAssumption DEF Init, Answering, ConstantsAssumption
<1>2. DInv /\ Answering /\ [Next]_vars => Answering'
  <2> SUFFICES ASSUME DInv, Answering, [Next]_vars PROVE Answering'
    OBVIOUS
  <2>1. CASE Next
    BY <2>1, StepAnswers DEF Next, DInv
  <2>2. CASE UNCHANGED vars
    BY <2>2 DEF vars, busVars, Answering
  <2> QED BY <2>1, <2>2
<1>3. Answering => AnsweredUnlessCut
  BY DEF Answering, AnsweredUnlessCut
<1> QED BY <1>1, <1>2, <1>3, DeliveryInvariance, PTL DEF Spec

\* Under the same condition a deferred automation turn always has somebody who
\* will publish it, or waits behind an automation that was cancelled.
THEOREM DeferredWatched ==
  ASSUME \A a \in Automation : Command[a] \notin Priority
  PROVE  Spec => []DeferredHasPublisher
<1>1. Init => Watched
  BY DEF Init, Watched
<1>2. DInv /\ Watched /\ [Next]_vars => Watched'
  <2> SUFFICES ASSUME DInv, Watched, [Next]_vars PROVE Watched'
    OBVIOUS
  <2>1. CASE Next
    BY <2>1, StepWatched DEF Next
  <2>2. CASE UNCHANGED vars
    BY <2>2 DEF vars, busVars, taskVars, Watched, Publisher
  <2> QED BY <2>1, <2>2
<1>3. Watched => DeferredHasPublisher
  BY DEF Watched, Publisher, DeferredHasPublisher, InTurn
<1> QED BY <1>1, <1>2, <1>3, DeliveryInvariance, PTL DEF Spec

-----------------------------------------------------------------------------
(* The dispatcher implements SessionService.                                *)

\* A /stop or /new of session s has been sent.
StopGiven(s) == \E c \in Message :
  Command[c] \in {"stop", "new"} /\ SessionOf[c] = s /\ outcome[c] # "unsent"

\* run() executes commands only, and nothing is cancelled without a reason.
Caused ==
  /\ loop # None => Command[loop] # "none"
  /\ \A x \in cancelled : StopGiven(SessionOf[x])

\* What has been sent stays sent.
LEMMA SentStays ==
  ASSUME NEW m \in Message,
         \/ Arrive(m) \/ Run(m) \/ Admit(m) \/ Work(m) \/ EndSlice(m) \/ CloseTurn(m)
         \/ Fail(m) \/ Deliver(m) \/ CancelDirect(m),
         NEW x \in Message, outcome[x] # "unsent"
  PROVE  outcome'[x] # "unsent"
<1>1. CASE UNCHANGED outcome
  BY <1>1
<1>2. CASE \E F : \E o \in Outcome \ {"unsent"} : Settle(F, o)
  BY <1>2 DEF Settle
<1>3. CASE RunReply(m)
  <2> DEFINE t == registered[SessionOf[m]]
             emptied == IF CommandOf(m) = "stop" /\ t # None THEN ToSet(queue[t]) ELSE {}
  <2>1. outcome' = [z \in Message |-> CASE z = m -> "served"
                                        [] z \in emptied -> "dropped"
                                        [] OTHER -> outcome[z]]
    BY <1>3 DEF RunReply
  <2> HIDE DEF emptied
  <2> QED BY <2>1
<1>4. CASE Arrive(m)
  BY <1>2, <1>4 DEF Arrive, Publish, Submit, CallDirect, Outcome
<1>5. CASE Run(m)
  BY <1>1, <1>3, <1>5 DEF Run, RunPriority, RunDefer, RunInline, RunInject, RunSpawn
<1>6. CASE \/ Admit(m) \/ Work(m) \/ Answer(m) \/ Exhaust(m) \/ Yield(m) \/ BlockOnPut(m)
           \/ NewCommand(m)
  BY <1>1, <1>6 DEF Admit, StartTask, GrantLock, GrantGate, Work, Inject, StartGoal, EndGoal, Answer,
                    Exhaust, Yield, LastDrain, BlockOnPut, NewCommand
<1>7. CASE ContinueGoal(m) \/ CloseTurn(m) \/ Fail(m) \/ Deliver(m) \/ CancelDirect(m)
  BY <1>2, <1>7 DEF ContinueGoal, CloseTurn, Finish, FinishNew, Fail, Deliver, CancelUnstarted,
                    CancelAtLock, CancelAtGate, CancelTurn, CancelDirect, AbandonWait, Outcome
<1> QED BY <1>4, <1>5, <1>6, <1>7 DEF EndSlice

\* A step cancels tasks only as a /stop or /new of their session, and lets run()
\* execute nothing but a command.
LEMMA StepCaused ==
  ASSUME DInv, Caused, NEW m \in Message,
         \/ Arrive(m) \/ Run(m) \/ Admit(m) \/ Work(m) \/ EndSlice(m) \/ CloseTurn(m)
         \/ Fail(m) \/ Deliver(m) \/ CancelDirect(m)
  PROVE  Caused'
<1> USE DEF taskVars, busVars
<1>1. TypeOK /\ None \notin Message
  BY ConstantsAssumption DEF ConstantsAssumption, DInv, IInv
<1>2. \A s \in Session : StopGiven(s) => StopGiven(s)'
  BY SentStays DEF StopGiven
<1>3. /\ \/ UNCHANGED loop
         \/ loop' = None
         \/ loop' = m /\ Command[m] # "none"
      /\ \/ cancelled' \subseteq cancelled
         \/ /\ Cancel(SessionOf[m], m) /\ Command[m] \in {"stop", "new"}
            /\ m \in ToSet(inbound) \/ phase[m] # "idle"
  <2>1. CASE Arrive(m)
    BY <2>1 DEF Arrive, Publish, Submit, CallDirect
  <2>2. CASE RunPriority(m) \/ RunInline(m)
    <3>1. m \in ToSet(inbound)
      BY <1>1, <2>2, TailQueue DEF RunPriority, RunInline, Consumes, TypeOK
    <3> QED BY <2>2, <3>1 DEF RunPriority, RunInline, CommandOf, Priority
  <2>3. CASE RunDefer(m) \/ RunInject(m) \/ RunSpawn(m) \/ RunReply(m)
    BY <2>3 DEF RunDefer, RunInject, RunSpawn, RunReply
  <2>4. CASE Admit(m) \/ Work(m) \/ Answer(m) \/ Exhaust(m) \/ Yield(m) \/ BlockOnPut(m)
    BY <2>4 DEF Admit, StartTask, GrantLock, GrantGate, Work, Inject, StartGoal, EndGoal, Answer,
                Exhaust, Yield, LastDrain, BlockOnPut
  <2>5. CASE NewCommand(m)
    BY <2>5 DEF NewCommand, CommandOf
  <2>6. CASE ContinueGoal(m) \/ CloseTurn(m) \/ Fail(m) \/ Deliver(m) \/ CancelDirect(m)
    BY <2>6 DEF ContinueGoal, CloseTurn, Finish, FinishNew, Fail, Deliver, CancelUnstarted, CancelAtLock,
                CancelAtGate, CancelTurn, CancelDirect, AbandonWait, EndTurn, LeaveTurn,
                ReturnDirect
  <2> QED BY <2>1, <2>2, <2>3, <2>4, <2>5, <2>6 DEF Run, EndSlice
<1>4. loop' # None => Command[loop'] # "none"
  BY <1>3 DEF Caused
<1>5. ASSUME NEW x \in cancelled' PROVE StopGiven(SessionOf[x])'
  <2>1. cancelled \subseteq Message /\ active \subseteq Message
    BY <1>1 DEF TypeOK
  <2>2. CASE x \in cancelled
    <3>1. SessionOf[x] \in Session /\ StopGiven(SessionOf[x])
      BY <2>1, <2>2, ConstantsAssumption DEF Caused, ConstantsAssumption
    <3> QED BY <1>2, <3>1
  <2>3. CASE x \notin cancelled
    <3>1. /\ Cancel(SessionOf[m], m) /\ Command[m] \in {"stop", "new"}
          /\ m \in ToSet(inbound) \/ phase[m] # "idle"
      BY <1>3, <1>5, <2>3
    <3>2. SessionOf[x] = SessionOf[m] /\ SessionOf[x] \in Session
      BY <1>5, <2>1, <2>3, <3>1, ConstantsAssumption DEF Cancel, TasksOf, ConstantsAssumption
    <3>3. outcome[m] = "open"
      BY <3>1 DEF DInv, Located, Found, Somewhere, Unqueued
    <3>4. StopGiven(SessionOf[x])
      BY <3>1, <3>2, <3>3 DEF StopGiven
    <3> QED BY <1>2, <3>2, <3>4
  <2> QED BY <2>2, <2>3
<1> QED BY <1>4, <1>5 DEF Caused

\* Every reachable state has the accounts in order and the reasons at hand.
LEMMA CausedInvariance == Spec => [](DInv /\ Caused)
<1>1. Init => Caused
  BY DEF Init, Caused
<1>2. DInv /\ Caused /\ [Next]_vars => Caused'
  <2> SUFFICES ASSUME DInv, Caused, [Next]_vars PROVE Caused'
    OBVIOUS
  <2>1. CASE Next
    BY <2>1, StepCaused DEF Next
  <2>2. CASE UNCHANGED vars
    BY <2>2 DEF vars, busVars, taskVars, Caused, StopGiven
  <2> QED BY <2>1, <2>2
<1> QED BY <1>1, <1>2, DeliveryInvariance, PTL DEF Spec

\* The turns a message was folded into, and a message the service sees unmoved.
Hosts(x) == {t \in Message : x \in injected[t]}
Same(x)  == Standing(x)' = Standing(x) /\ Hosts(x)' = Hosts(x)

\* What the service sees of a message, by where the message is.
LEMMA Standings ==
  ASSUME DInv, NEW x \in Message
  PROVE  /\ phase[x] \in InTurn => Standing(x) = "serving" /\ ~Folded(x)
         /\ Standing(x) = "serving" => phase[x] \in InTurn
         /\ Folded(x) => Standing(x) = "folded"
         /\ phase[x] \notin InTurn /\ ~Folded(x) /\ Somewhere(x) => Standing(x) = "queued"
         /\ ~Somewhere(x) => Standing(x) = outcome[x]
         /\ Hosts(x) = {} <=> ~Folded(x)
<1>1. outcome[x] = "open" <=> Somewhere(x)
  BY DEF DInv, Located, Found
<1>2. phase[x] \in InTurn => phase[x] # "idle" /\ Somewhere(x)
  BY DEF InTurn, Somewhere
<1>3. phase[x] # "idle" => ~Folded(x)
  BY OnePlace DEF DInv
<1>4. outcome[x] \in Outcome
  BY DEF DInv, IInv, TypeOK
<1> QED BY <1>1, <1>2, <1>3, <1>4 DEF Standing, Folded, Somewhere, Outcome, Hosts

\* A message that did not move is seen unmoved.
LEMMA Unmoved ==
  ASSUME NEW x \in Message, phase'[x] = phase[x] \/ (phase[x] \in InTurn <=> phase'[x] \in InTurn),
         outcome'[x] = outcome[x], \A t \in Message : x \in injected'[t] <=> x \in injected[t]
  PROVE  Same(x)
BY DEF Same, Standing, Hosts

\* A step the service does not see.
LEMMA StillService ==
  ASSUME \A x \in Message : Same(x)
  PROVE  UNCHANGED Service!vars
<1>1. [x \in Message |-> Standing(x)]' = [x \in Message |-> Standing(x)]
  BY DEF Same
<1>2. [x \in Message |-> {t \in Message : x \in injected[t]}]' =
        [x \in Message |-> {t \in Message : x \in injected[t]}]
  BY DEF Same, Hosts
<1> QED BY <1>1, <1>2 DEF Service!vars

\* The steps of the service, message by message.
LEMMA AcceptService ==
  ASSUME NEW m \in Message, Standing(m) = "unsent", Standing(m)' = "queued",
         Hosts(m)' = Hosts(m), \A x \in Message \ {m} : Same(x)
  PROVE  Service!Next
<1>1. [x \in Message |-> Standing(x)]' =
        [x \in Message |-> IF x \in DOMAIN [y \in {m} |-> "queued"]
                           THEN [y \in {m} |-> "queued"][x] ELSE [y \in Message |-> Standing(y)][x]]
  BY DEF Same
<1>2. [x \in Message |-> {t \in Message : x \in injected[t]}]' =
        [x \in Message |-> {t \in Message : x \in injected[t]}]
  BY DEF Same, Hosts
<1>3. Service!Accept(m)
  BY <1>1, <1>2 DEF Service!Accept, Service!Become
<1> QED BY <1>3 DEF Service!Next

\* A waiting message gets its turn.
LEMMA ServeService ==
  ASSUME DInv, NEW m \in Message,
         Standing(m) = "queued" \/ (Standing(m) = "unsent" /\ m \in Direct),
         \A n \in Message : phase[n] \in InTurn => SessionOf[n] # SessionOf[m],
         m \notin Direct => permits > 0,
         Standing(m)' = "serving", Hosts(m)' = Hosts(m), \A x \in Message \ {m} : Same(x)
  PROVE  Service!Next
<1>1. [x \in Message |-> Standing(x)]' =
        [x \in Message |-> IF x \in DOMAIN [y \in {m} |-> "serving"]
                           THEN [y \in {m} |-> "serving"][x] ELSE [y \in Message |-> Standing(y)][x]]
  BY DEF Same
<1>2. [x \in Message |-> {t \in Message : x \in injected[t]}]' =
        [x \in Message |-> {t \in Message : x \in injected[t]}]
  BY DEF Same, Hosts
<1>3. \A n \in Message : Standing(n) = "serving" <=> phase[n] \in InTurn
  BY Standings
<1>4. Service!In("serving") = {n \in Message : phase[n] \in InTurn}
  BY <1>3 DEF Service!In
<1>5. m \notin Direct => Cardinality(Service!In("serving") \ Direct) < Gate
  <2>1. Service!In("serving") \ Direct = Holders
    BY <1>4 DEF Holders
  <2>2. PICK c \in Nat : c = Cardinality(Holders)
    BY FS_CardinalityType DEF DInv, Permits
  <2>3. permits + c = Gate /\ permits \in Nat
    BY <2>2 DEF DInv, Permits, IInv, TypeOK
  <2>4. m \notin Direct => c < Gate
    BY <2>3
  <2> QED BY <2>1, <2>2, <2>4
<1>6. Service!Cardinality(Service!In("serving") \ Direct) = Cardinality(Service!In("serving") \ Direct)
  BY DEF Service!Cardinality, Cardinality
<1>7. Service!Serve(m)
  BY <1>1, <1>2, <1>4, <1>5, <1>6 DEF Service!Serve, Service!Become
<1> QED BY <1>7 DEF Service!Next

\* The running turn takes in waiting messages of its session.
LEMMA FoldService ==
  ASSUME NEW m \in Message, NEW F \in SUBSET Message, F # {},
         Standing(m) = "serving", m \notin Direct,
         \A x \in F : /\ Standing(x) = "queued" /\ SessionOf[x] = SessionOf[m] /\ x \notin Automation
                      /\ Standing(x)' = "folded" /\ Hosts(x)' = {m},
         \A x \in Message \ F : Same(x)
  PROVE  Service!Next
<1>1. [x \in Message |-> Standing(x)]' =
        [x \in Message |-> IF x \in DOMAIN [y \in F |-> "folded"]
                           THEN [y \in F |-> "folded"][x] ELSE [y \in Message |-> Standing(y)][x]]
  BY DEF Same
<1>2. [x \in Message |-> {t \in Message : x \in injected[t]}]' =
        [x \in Message |-> IF x \in F THEN {m}
                           ELSE [y \in Message |-> {t \in Message : y \in injected[t]}][x]]
  BY DEF Same, Hosts
<1>3. F \in SUBSET Service!FollowUps(SessionOf[m])
  BY DEF Service!FollowUps, Service!Waiting, Service!In
<1>4. Service!Fold(m, F)
  BY <1>1, <1>2 DEF Service!Fold, Service!Become
<1> QED BY <1>3, <1>4 DEF Service!Next

\* A turn ends, and with it what it took in.
LEMMA SettleService ==
  ASSUME NEW m \in Message, NEW o \in {"served", "failed", "cancelled"},
         Standing(m) = "serving", o = "cancelled" => StopGiven(SessionOf[m]),
         \A c \in Message : outcome[c] # "unsent" => Standing(c) # "unsent",
         \A x \in {m} \cup injected[m] : Standing(x)' = o,
         \A x \in Message \ ({m} \cup injected[m]) : Standing(x)' = Standing(x),
         \A x \in Message : Hosts(x)' = IF m \in Hosts(x) THEN {} ELSE Hosts(x)
  PROVE  Service!Next
<1>1. Service!FoldedInto(m) = {x \in Message : x \in injected[m]}
  BY DEF Service!FoldedInto
<1> DEFINE D == {m} \cup Service!FoldedInto(m)
<1>2. [x \in Message |-> Standing(x)]' =
        [x \in Message |-> IF x \in DOMAIN [y \in D |-> o]
                           THEN [y \in D |-> o][x] ELSE [y \in Message |-> Standing(y)][x]]
  BY <1>1
<1>3. [x \in Message |-> {t \in Message : x \in injected[t]}]' =
        [x \in Message |-> IF m \in [y \in Message |-> {t \in Message : y \in injected[t]}][x] THEN {}
                           ELSE [y \in Message |-> {t \in Message : y \in injected[t]}][x]]
  BY DEF Hosts
<1>4. o = "cancelled" => Service!StopSent(SessionOf[m])
  BY DEF StopGiven, Service!StopSent
<1>5. Service!Settle(m, o)
  BY <1>2, <1>3, <1>4 DEF Service!Settle, Service!Become
<1>6. o \in Service!Final
  BY DEF Service!Final
<1> QED BY <1>5, <1>6 DEF Service!Next

\* A turn ends and its continuation waits.
LEMMA RequeueService ==
  ASSUME NEW m \in Message,
         Standing(m) = "serving", m \notin Direct, Standing(m)' = "queued",
         \A x \in injected[m] \ {m} : Standing(x)' = "served",
         \A x \in Message \ ({m} \cup injected[m]) : Standing(x)' = Standing(x),
         \A x \in Message : Hosts(x)' = IF m \in Hosts(x) THEN {} ELSE Hosts(x)
  PROVE  Service!Next
<1>1. Service!FoldedInto(m) = {x \in Message : x \in injected[m]}
  BY DEF Service!FoldedInto
<1> DEFINE D == {m} \cup Service!FoldedInto(m)
           become == [x \in D |-> IF x = m THEN "queued" ELSE "served"]
<1>2. [x \in Message |-> Standing(x)]' =
        [x \in Message |-> IF x \in DOMAIN become
                           THEN become[x] ELSE [y \in Message |-> Standing(y)][x]]
  BY <1>1
<1>3. [x \in Message |-> {t \in Message : x \in injected[t]}]' =
        [x \in Message |-> IF m \in [y \in Message |-> {t \in Message : y \in injected[t]}][x] THEN {}
                           ELSE [y \in Message |-> {t \in Message : y \in injected[t]}][x]]
  BY DEF Hosts
<1>4. Service!Requeue(m)
  BY <1>2, <1>3 DEF Service!Requeue, Service!Become
<1> QED BY <1>4 DEF Service!Next

\* Open messages of a session are taken back.
LEMMA WithdrawService ==
  ASSUME NEW m \in Message, NEW F \in SUBSET Message, NEW o,
         Standing(m) = "queued",
         \/ o = "served" /\ Command[m] # "none"
         \/ o = "failed" /\ m \in Direct
         \/ o = "cancelled" /\ StopGiven(SessionOf[m]),
         \A c \in Message : outcome[c] # "unsent" => Standing(c) # "unsent",
         F # {} => Command[m] \in {"stop", "new"} /\ m \notin F,
         \A x \in F : Standing(x) = "queued" /\ SessionOf[x] = SessionOf[m] /\ Standing(x)' = "dropped",
         Standing(m)' = o,
         \A x \in Message \ ({m} \cup F) : Standing(x)' = Standing(x),
         \A x \in Message : Hosts(x)' = Hosts(x)
  PROVE  Service!Next
<1> DEFINE become == [x \in {m} \cup F |-> IF x = m THEN o ELSE "dropped"]
<1>1. [x \in Message |-> Standing(x)]' =
        [x \in Message |-> IF x \in DOMAIN become
                           THEN become[x] ELSE [y \in Message |-> Standing(y)][x]]
  OBVIOUS
<1>2. [x \in Message |-> {t \in Message : x \in injected[t]}]' =
        [x \in Message |-> {t \in Message : x \in injected[t]}]
  BY DEF Hosts
<1>3. o = "cancelled" => Service!StopSent(SessionOf[m])
  BY DEF StopGiven, Service!StopSent
<1>4. F \in SUBSET Service!Waiting(SessionOf[m])
  BY DEF Service!Waiting, Service!In
<1>5. Service!Withdraw(m, o, F)
  BY <1>1, <1>2, <1>3 DEF Service!Withdraw, Service!Become
<1>6. o \in Service!Final
  BY DEF Service!Final
<1> QED BY <1>4, <1>5, <1>6 DEF Service!Next

\* Whoever was sent is seen as sent.
LEMMA SeenSent ==
  \A c \in Message : outcome[c] # "unsent" => Standing(c) # "unsent"
BY DEF Standing

\* A follow-up is folded into one turn only: turns of a session are serial.
LEMMA OneHost ==
  ASSUME DInv, NEW m \in Message, NEW x \in injected[m]
  PROVE  x \in Message /\ Hosts(x) = {m}
<1>1. x \in Message
  BY DEF DInv, IInv, TypeOK
<1>2. ASSUME NEW t \in Message, x \in injected[t]
      PROVE  phase[t] \in InTurn /\ SessionOf[t] = SessionOf[x]
  BY <1>2 DEF DInv, IInv, Placed, QueueOwnership, Located, FoldedApart
<1>3. ASSUME NEW t \in Message, x \in injected[t]
      PROVE  t = m
  <2>1. owner[SessionOf[t]] = t /\ owner[SessionOf[m]] = m
    BY <1>2, <1>3 DEF DInv, IInv, Placed, LockHeld, HasLock
  <2> QED BY <1>2, <1>3, <2>1
<1> QED BY <1>1, <1>3 DEF Hosts

\* A message arrives on the bus.
LEMMA ArriveStep ==
  ASSUME DInv, NEW m \in Message, Publish(m) \/ Submit(m)
  PROVE  Service!Next
<1>1. /\ outcome[m] = "unsent" /\ outcome'[m] = "open"
      /\ \A x \in Message : x # m => outcome'[x] = outcome[x]
      /\ UNCHANGED <<phase, injected>>
  BY DEF Publish, Submit, Settle, taskVars, turnVars
<1>2. ~Somewhere(m)
  BY <1>1 DEF DInv, Located, Found
<1>3. Standing(m) = "unsent" /\ Standing(m)' = "queued" /\ Hosts(m)' = Hosts(m)
  BY <1>1, <1>2 DEF Standing, Somewhere, Folded, Hosts, InTurn
<1>4. \A x \in Message \ {m} : Same(x)
  BY <1>1, Unmoved
<1> QED BY <1>3, <1>4, AcceptService

\* Routing moves nothing the service can see.
LEMMA RouteStep ==
  ASSUME DInv, NEW m \in Message, Run(m), ~RunReply(m)
  PROVE  UNCHANGED Service!vars
<1>1. TypeOK /\ UNCHANGED <<outcome, injected>>
  BY DEF DInv, IInv, Run, RunPriority, RunDefer, RunInline, RunInject, RunSpawn, turnVars
<1>2. m \in ToSet(inbound)
  BY <1>1, TailQueue DEF Run, RunPriority, RunDefer, RunInline, RunInject, RunSpawn, Consumes,
    TypeOK
<1>3. phase[m] = "idle"
  BY <1>2 DEF DInv, IInv, Placed, BusQueue, Lists
<1>4. UNCHANGED phase \/ phase' = [phase EXCEPT ![m] = "created"]
  BY DEF Run, RunPriority, RunDefer, RunInline, RunInject, RunSpawn, taskVars
<1>5. \A x \in Message : phase[x] \in InTurn <=> phase'[x] \in InTurn
  BY <1>1, <1>3, <1>4 DEF TypeOK, InTurn
<1>6. \A x \in Message : Same(x)
  BY <1>1, <1>5, Unmoved
<1> QED BY <1>6, StillService

\* The command run() was executing is over; a /stop drops what is still queued.
LEMMA ReplyStep ==
  ASSUME DInv, Caused, NEW m \in Message, RunReply(m)
  PROVE  Service!Next
<1> DEFINE t == registered[SessionOf[m]]
           emptied == IF CommandOf(m) = "stop" /\ t # None THEN ToSet(queue[t]) ELSE {}
<1>1. TypeOK /\ SessionOf[m] \in Session /\ m # None
  BY ConstantsAssumption DEF ConstantsAssumption, DInv, IInv
<1>2. /\ loop = m /\ UNCHANGED <<phase, injected>>
      /\ outcome' = [z \in Message |-> CASE z = m -> "served"
                                          [] z \in emptied -> "dropped"
                                          [] OTHER -> outcome[z]]
  BY DEF RunReply, taskVars
<1>3. /\ phase[m] = "idle" /\ Unqueued(m) /\ ~Folded(m) /\ Somewhere(m)
      /\ Command[m] # "none"
  <2>1. phase[m] = "idle" /\ Unqueued(m) /\ Somewhere(m) /\ Command[m] # "none"
    BY <1>1, <1>2 DEF DInv, Located, InlineApart, Caused, Somewhere
  <2>2. ~Folded(m)
    BY <1>2 DEF DInv, Located, FoldedApart, Folded
  <2> QED BY <2>1, <2>2
<1>4. ASSUME NEW x \in emptied
      PROVE  /\ x \in Message /\ x # m /\ phase[x] = "idle" /\ ~Unqueued(x) /\ ~Folded(x)
             /\ SessionOf[x] = SessionOf[m] /\ Command[m] = "stop"
  <2>1. t \in Message /\ x \in ToSet(queue[t]) /\ CommandOf(m) = "stop"
    BY <1>1, <1>4 DEF TypeOK
  <2>2. /\ queue[t] \in Seq(Message) /\ phase[x] = "idle"
        /\ SessionOf[x] = SessionOf[t] /\ SessionOf[t] = SessionOf[m]
    BY <1>1, <2>1 DEF TypeOK, DInv, IInv, Placed, PendingQueues, Lists, QueueOwnership
  <2>3. x \in Message /\ ~Unqueued(x)
    BY <2>1, <2>2, QueueElements DEF Unqueued
  <2>4. ~Folded(x)
    BY <2>3 DEF DInv, Located, FoldedApart, Folded
  <2>5. x # m
    BY <1>3, <2>3
  <2> QED BY <2>1, <2>2, <2>3, <2>4, <2>5 DEF CommandOf
<1> HIDE DEF emptied
<1>5. /\ outcome'[m] = "served"
      /\ \A x \in emptied : outcome'[x] = "dropped"
      /\ \A x \in Message : x \notin {m} \cup emptied => outcome'[x] = outcome[x]
  BY <1>2, <1>4
<1>6. Standing(m) = "queued" /\ \A x \in emptied : Standing(x) = "queued"
  <2>1. \A x \in emptied : x \in Message /\ Somewhere(x) /\ phase[x] \notin InTurn /\ ~Folded(x)
    BY <1>4 DEF Somewhere, InTurn
  <2> QED BY <1>3, <2>1, Standings DEF InTurn
<1>7. Standing(m)' = "served" /\ \A x \in emptied : Standing(x)' = "dropped"
  BY <1>5 DEF Standing
<1>8. \A x \in Message \ ({m} \cup emptied) : Same(x)
  BY <1>2, <1>5, Unmoved
<1>9. \A x \in Message : Hosts(x)' = Hosts(x)
  BY <1>2 DEF Hosts
<1>10. emptied \in SUBSET Message /\ (emptied # {} => Command[m] \in {"stop", "new"} /\ m \notin emptied)
  BY <1>4
<1>11. \A x \in emptied : Standing(x) = "queued" /\ SessionOf[x] = SessionOf[m] /\ Standing(x)' = "dropped"
  BY <1>4, <1>6, <1>7
<1>12. \A x \in Message \ ({m} \cup emptied) : Standing(x)' = Standing(x)
  BY <1>8 DEF Same
<1>13. Standing(m) = "queued" /\ Standing(m)' = "served" /\ Command[m] # "none"
  BY <1>3, <1>6, <1>7
<1> QED BY <1>9, <1>10, <1>11, <1>12, <1>13, SeenSent, WithdrawService

\* The lock and the gate let m begin its turn: no other turn of its session is
\* in progress and, unless it is a direct call, a permit is free.
LEMMA MayBegin ==
  ASSUME DInv, NEW m \in Message, CallDirect(m) \/ Admit(m), phase'[m] \in InTurn
  PROVE  /\ \A n \in Message : phase[n] \in InTurn => SessionOf[n] # SessionOf[m]
         /\ m \notin Direct => permits > 0
<1>1. TypeOK /\ SessionOf[m] \in Session /\ None \notin Message
  BY ConstantsAssumption DEF ConstantsAssumption, DInv, IInv
<1>2. \A n \in Message : phase[n] \in InTurn => owner[SessionOf[n]] = n
  BY DEF DInv, IInv, Placed, LockHeld, HasLock
<1>3. ASSUME TakeLock(m) PROVE m \notin Direct => permits > 0
  <2>1. phase' = [phase EXCEPT ![m] = "gating"] => phase'[m] = "gating"
    BY <1>1 DEF TypeOK
  <2> QED BY <1>3, <2>1 DEF TakeLock, GateIsFree, InTurn, StartRunning
<1>4. ASSUME ReachLock(m)
      PROVE  owner[SessionOf[m]] = None /\ TakeLock(m)
  <2>1. ~AwaitLock(m)
    BY <1>1 DEF AwaitLock, TypeOK, InTurn
  <2> QED BY <1>4, <2>1 DEF ReachLock, LockIsFree
<1>5. CASE CallDirect(m) \/ StartTask(m)
  BY <1>1, <1>2, <1>3, <1>4, <1>5 DEF CallDirect, StartTask
<1>6. CASE GrantLock(m)
  BY <1>1, <1>2, <1>3, <1>6 DEF GrantLock
<1>7. CASE GrantGate(m)
  <2>1. phase[m] = "gating"
    BY <1>1, <1>7, TailQueue DEF GrantGate, TypeOK, DInv, IInv, Placed, TaskQueues, Lists
  <2>2. owner[SessionOf[m]] = m
    BY <2>1 DEF DInv, IInv, Placed, LockHeld, HasLock
  <2>3. permits > 0
    BY <1>7 DEF GrantGate
  <2> QED BY <1>2, <2>1, <2>2, <2>3 DEF InTurn
<1> QED BY <1>5, <1>6, <1>7 DEF Admit

\* A task, or a direct call, waits or begins its turn.
LEMMA AdmitStep ==
  ASSUME DInv, NEW m \in Message, CallDirect(m) \/ Admit(m)
  PROVE  Service!Next \/ UNCHANGED Service!vars
<1> USE DEF turnVars
<1>1. TypeOK /\ SessionOf[m] \in Session
  BY ConstantsAssumption DEF ConstantsAssumption, DInv, IInv
<1>2. UNCHANGED injected
  BY DEF CallDirect, Admit, StartTask, GrantLock, GrantGate
<1>3. /\ phase'[m] \in {"running", "gating", "locking"}
      /\ \A x \in Message : x # m => phase'[x] = phase[x]
  <2>1. \E ph \in {"running", "gating", "locking"} : phase' = [phase EXCEPT ![m] = ph]
    BY DEF CallDirect, Admit, StartTask, GrantLock, GrantGate, ReachLock, TakeLock, AwaitLock,
      OpenTurn, StartRunning
  <2> QED BY <1>1, <2>1 DEF TypeOK
<1>4. \/ CallDirect(m) /\ m \in Direct /\ outcome[m] = "unsent" /\ Settle({m}, "open")
      \/ phase[m] \in {"created", "locking", "gating"} /\ UNCHANGED outcome
  <2>1. CASE CallDirect(m)
    BY <2>1 DEF CallDirect
  <2>2. CASE StartTask(m)
    BY <1>1, <2>2, TailQueue DEF StartTask, TypeOK, DInv, IInv, Placed, TaskQueues, Lists
  <2>3. CASE GrantLock(m)
    BY <1>1, <2>3, TailQueue DEF GrantLock, TypeOK, DInv, IInv, Placed, TaskQueues, Lists
  <2>4. CASE GrantGate(m)
    BY <1>1, <2>4, TailQueue DEF GrantGate, TypeOK, DInv, IInv, Placed, TaskQueues, Lists
  <2> QED BY <2>1, <2>2, <2>3, <2>4 DEF Admit
<1>5. /\ ~Folded(m) /\ phase[m] \notin InTurn
      /\ \/ Standing(m) = "queued" /\ outcome[m] = "open" /\ UNCHANGED outcome
         \/ Standing(m) = "unsent" /\ m \in Direct /\ Settle({m}, "open")
  <2>1. CASE m \in Direct /\ outcome[m] = "unsent" /\ Settle({m}, "open")
    <3>1. ~Somewhere(m)
      BY <2>1 DEF DInv, Located, Found
    <3> QED BY <2>1, <3>1 DEF Somewhere, Standing, InTurn
  <2>2. CASE phase[m] \in {"created", "locking", "gating"} /\ UNCHANGED outcome
    <3>1. Somewhere(m) /\ ~Folded(m) /\ phase[m] \notin InTurn /\ outcome[m] = "open"
      BY <2>2, OnePlace DEF DInv, Located, Found, Somewhere, InTurn
    <3> QED BY <2>2, <3>1, Standings
  <2> QED BY <1>4, <2>1, <2>2
<1>6. outcome'[m] = "open" /\ \A x \in Message : x # m => outcome'[x] = outcome[x]
  BY <1>5 DEF Settle
<1>7. \A x \in Message \ {m} : Same(x)
  BY <1>2, <1>3, <1>6, Unmoved
<1>8. Hosts(m)' = Hosts(m)
  BY <1>2 DEF Hosts
<1>9. CASE phase'[m] \in InTurn
  <2>1. Standing(m)' = "serving"
    BY <1>6, <1>9 DEF Standing
  <2> QED BY <1>5, <1>7, <1>8, <1>9, <2>1, MayBegin, ServeService
<1>10. CASE phase'[m] \notin InTurn
  <2>1. Standing(m)' = "queued"
    BY <1>2, <1>5, <1>6, <1>10 DEF Standing, Folded
  <2>2. CASE Standing(m) = "queued"
    <3>1. \A x \in Message : Same(x)
      BY <1>7, <1>8, <2>1, <2>2 DEF Same
    <3> QED BY <3>1, StillService
  <2>3. CASE Standing(m) = "unsent"
    BY <1>7, <1>8, <2>1, <2>3, AcceptService
  <2> QED BY <1>5, <2>2, <2>3
<1> QED BY <1>9, <1>10

\* A running turn may fold in some of what its queue holds.
LEMMA WorkStep ==
  ASSUME DInv, NEW m \in Message,
         \/ Work(m) \/ Answer(m) \/ Exhaust(m) \/ Yield(m) \/ BlockOnPut(m)
         \/ NewCommand(m)
  PROVE  Service!Next \/ UNCHANGED Service!vars
<1> USE DEF taskVars, turnVars
<1>1. TypeOK /\ UNCHANGED outcome
  BY DEF DInv, IInv, Work, Inject, StartGoal, EndGoal, Answer, Exhaust, Yield, LastDrain,
         BlockOnPut, NewCommand
<1>2. /\ phase[m] \in InTurn /\ phase'[m] \in InTurn
      /\ \A x \in Message : x # m => phase'[x] = phase[x]
  <2>1. phase[m] \in InTurn
    BY DEF Work, Inject, StartGoal, EndGoal, Answer, Exhaust, Yield, LastDrain, BlockOnPut,
           NewCommand, InRunner, Putting, InTurn
  <2>2. UNCHANGED phase \/ \E ph \in InTurn : phase' = [phase EXCEPT ![m] = ph]
    BY DEF Work, Inject, StartGoal, EndGoal, Answer, Exhaust, Yield, LastDrain, BlockOnPut,
           NewCommand, InTurn
  <2> QED BY <1>1, <2>1, <2>2 DEF TypeOK
<1>3. UNCHANGED injected \/ injected' = [injected EXCEPT ![m] = @ \cup Drained(m)]
  BY DEF Work, Inject, StartGoal, EndGoal, Answer, Exhaust, Yield, LastDrain, BlockOnPut,
         NewCommand
<1> DEFINE F == Drained(m)
<1>4. CASE UNCHANGED injected \/ (injected' = [injected EXCEPT ![m] = @ \cup F] /\ F = {})
  <2>1. \A t \in Message : injected'[t] = injected[t]
    <3>1. CASE UNCHANGED injected
      BY <3>1
    <3>2. CASE injected' = [injected EXCEPT ![m] = @ \cup F] /\ F = {}
      <4>1. injected' = [injected EXCEPT ![m] = injected[m]]
        BY <3>2
      <4> QED BY <1>1, <4>1 DEF TypeOK
    <3> QED BY <1>4, <3>1, <3>2
  <2>2. \A x \in Message : Same(x)
    BY <1>1, <1>2, <2>1, Unmoved
  <2> QED BY <2>2, StillService
<1>5. CASE injected' = [injected EXCEPT ![m] = @ \cup F] /\ F # {}
  <2>1. F \subseteq ToSet(queue[m]) /\ F \subseteq Message
    BY <1>1, KeptTyped
  <2>2. m \notin Direct
    <3>1. queue[m] # <<>>
      BY <1>5, <2>1, EmptyQueue
    <3> QED BY <3>1 DEF DInv, IInv, Placed, DirectCalls
  <2>3. /\ injected'[m] = injected[m] \cup F
        /\ \A t \in Message : t # m => injected'[t] = injected[t]
    BY <1>1, <1>5 DEF TypeOK
  <2> HIDE DEF F
  <2>4. ASSUME NEW x \in F
        PROVE  /\ Standing(x) = "queued" /\ SessionOf[x] = SessionOf[m] /\ x \notin Automation
               /\ Standing(x)' = "folded" /\ Hosts(x)' = {m}
    <3>1. /\ x \in ToSet(queue[m]) /\ x \in Message
          /\ phase[x] = "idle" /\ SessionOf[x] = SessionOf[m] /\ x \notin Automation
      BY <2>1 DEF DInv, IInv, Placed, PendingQueues, Lists
    <3>2. ~Folded(x) /\ Somewhere(x) /\ phase[x] \notin InTurn /\ x # m
      BY <1>2, <3>1, OnePlace DEF DInv, Somewhere, Unqueued, InTurn
    <3>3. Standing(x) = "queued" /\ outcome[x] = "open"
      BY <3>1, <3>2, Standings DEF DInv, Located, Found
    <3>4. Standing(x)' = "folded"
      BY <1>1, <1>2, <2>3, <3>1, <3>2, <3>3 DEF Standing
    <3>5. Hosts(x)' = {m}
      BY <2>3, <3>1, <3>2 DEF Hosts, Folded
    <3> QED BY <3>1, <3>3, <3>4, <3>5
  <2>5. ASSUME NEW x \in Message \ F PROVE Same(x)
    <3>1. \A t \in Message : x \in injected'[t] <=> x \in injected[t]
      BY <2>3
    <3>2. phase[x] \in InTurn <=> phase'[x] \in InTurn
      BY <1>2
    <3> QED BY <1>1, <3>1, <3>2, Unmoved
  <2>6. Standing(m) = "serving"
    BY <1>2, Standings
  <2> QED BY <1>5, <2>1, <2>2, <2>4, <2>5, <2>6, FoldService
<1> QED BY <1>3, <1>4, <1>5

\* A turn ends, and with it what was folded into it.
LEMMA TurnEnds ==
  ASSUME DInv, NEW m \in Message, phase[m] \in InTurn, phase'[m] = "idle",
         \A x \in Message : x # m => phase'[x] = phase[x],
         injected'[m] = {}, \A t \in Message : t # m => injected'[t] = injected[t],
         NEW o \in {"served", "failed", "cancelled"}, Settle({m} \cup injected[m], o),
         o = "cancelled" => StopGiven(SessionOf[m])
  PROVE  Service!Next
<1>1. injected[m] \subseteq Message
  BY DEF DInv, IInv, TypeOK
<1>2. /\ \A x \in {m} \cup injected[m] : outcome'[x] = o
      /\ \A x \in Message \ ({m} \cup injected[m]) : outcome'[x] = outcome[x]
  BY <1>1 DEF Settle
<1>3. \A x \in {m} \cup injected[m] : Standing(x)' = o
  BY <1>2 DEF Standing
<1>4. ASSUME NEW x \in Message \ ({m} \cup injected[m]) PROVE Same(x)
  <2>1. \A t \in Message : x \in injected'[t] <=> x \in injected[t]
    OBVIOUS
  <2> QED BY <1>2, <2>1, Unmoved
<1>5. ASSUME NEW x \in Message PROVE Hosts(x)' = IF m \in Hosts(x) THEN {} ELSE Hosts(x)
  <2>1. CASE x \in injected[m]
    <3>1. Hosts(x) = {m}
      BY <2>1, OneHost
    <3>2. \A t \in Message : x \notin injected'[t]
      BY <3>1 DEF Hosts
    <3> QED BY <3>1, <3>2 DEF Hosts
  <2>2. CASE x \notin injected[m]
    BY <2>2 DEF Hosts
  <2> QED BY <2>1, <2>2
<1>6. Standing(m) = "serving"
  BY Standings
<1>7. \A x \in Message \ ({m} \cup injected[m]) : Standing(x)' = Standing(x)
  BY <1>4 DEF Same
<1> QED BY <1>3, <1>5, <1>6, <1>7, SeenSent, SettleService

\* A slice ends: its continuation goes back to the bus, and what the slice had
\* folded in is answered.
LEMMA ContinueStep ==
  ASSUME DInv, NEW m \in Message, ContinueGoal(m)
  PROVE  Service!Next
<1>1. TypeOK /\ phase[m] \in InTurn /\ m \notin Direct /\ injected[m] \subseteq Message
  BY DEF DInv, IInv, ContinueGoal, Putting, MayContinue, InTurn, TypeOK
<1>2. /\ phase'[m] = "idle" /\ \A x \in Message : x # m => phase'[x] = phase[x]
      /\ injected'[m] = {} /\ \A t \in Message : t # m => injected'[t] = injected[t]
  BY <1>1 DEF ContinueGoal, LeaveTurn, TypeOK
<1>3. m \notin injected[m] /\ outcome[m] = "open" /\ ~Folded(m)
  <2>1. phase[m] # "idle" /\ Somewhere(m)
    BY <1>1 DEF InTurn, Somewhere
  <2>2. ~Folded(m)
    BY <2>1, OnePlace DEF DInv
  <2> QED BY <2>1, <2>2 DEF DInv, Located, Found, Folded
<1>4. /\ \A x \in injected[m] : outcome'[x] = "served"
      /\ \A x \in Message \ injected[m] : outcome'[x] = outcome[x]
  BY <1>1 DEF ContinueGoal, Settle
<1>5. \A x \in injected[m] \ {m} : Standing(x)' = "served"
  BY <1>4 DEF Standing
<1>6. ASSUME NEW x \in Message \ ({m} \cup injected[m]) PROVE Standing(x)' = Standing(x)
  <2>1. \A t \in Message : x \in injected'[t] <=> x \in injected[t]
    BY <1>2
  <2>2. Same(x)
    BY <1>2, <1>4, <2>1, Unmoved
  <2> QED BY <2>2 DEF Same
<1>7. ASSUME NEW x \in Message PROVE Hosts(x)' = IF m \in Hosts(x) THEN {} ELSE Hosts(x)
  <2>1. CASE x \in injected[m]
    <3>1. Hosts(x) = {m}
      BY <2>1, OneHost
    <3>2. \A t \in Message : x \notin injected'[t]
      BY <1>2, <3>1 DEF Hosts
    <3> QED BY <3>1, <3>2 DEF Hosts
  <2>2. CASE x \notin injected[m]
    BY <1>2, <2>2 DEF Hosts
  <2> QED BY <2>1, <2>2
<1>8. Standing(m)' = "queued"
  <2>1. outcome'[m] = "open" /\ phase'[m] \notin InTurn
    BY <1>2, <1>3, <1>4 DEF InTurn
  <2>2. \A t \in Message : m \notin injected'[t]
    BY <1>2, <1>3 DEF Folded
  <2> QED BY <2>1, <2>2 DEF Standing
<1>9. Standing(m) = "serving"
  BY <1>1, Standings
<1> QED BY <1>1, <1>5, <1>6, <1>7, <1>8, <1>9, RequeueService

\* A turn ends, for good or bad.
LEMMA EndStep ==
  ASSUME DInv, Caused, NEW m \in Message, CloseTurn(m) \/ Fail(m) \/ CancelTurn(m)
  PROVE  Service!Next
<1>1. TypeOK /\ phase[m] \in InTurn
  BY DEF DInv, IInv, CloseTurn, Finish, FinishNew, Fail, CancelTurn, InTurn
<1>2. (\E left : LeaveTurn(m, left)) \/ (ReturnDirect(m) /\ m \in Direct)
  BY DEF CloseTurn, Finish, FinishNew, Fail, CancelTurn, EndTurn
<1>3. /\ phase'[m] = "idle" /\ \A x \in Message : x # m => phase'[x] = phase[x]
      /\ injected'[m] = {} /\ \A t \in Message : t # m => injected'[t] = injected[t]
  <2>1. CASE \E left : LeaveTurn(m, left)
    BY <1>1, <2>1 DEF LeaveTurn, TypeOK
  <2>2. CASE ReturnDirect(m) /\ m \in Direct
    <3>1. injected[m] = {}
      BY <2>2 DEF DInv, IInv, Placed, DirectCalls
    <3> QED BY <1>1, <2>2, <3>1 DEF ReturnDirect, turnVars, TypeOK
  <2> QED BY <1>2, <2>1, <2>2
<1>4. \E o \in {"served", "failed", "cancelled"} :
        /\ Settle({m} \cup injected[m], o)
        /\ o = "cancelled" => StopGiven(SessionOf[m])
  <2>1. CASE Finish(m) \/ Fail(m)
    BY <2>1 DEF Finish, Fail
  <2>2. CASE FinishNew(m)
    <3>1. injected[m] = {}
      BY <2>2 DEF FinishNew, DInv, Resetting
    <3>2. {m} \cup injected[m] = {m}
      BY <3>1
    <3> QED BY <2>2, <3>2 DEF FinishNew
  <2>3. CASE CancelTurn(m)
    BY <2>3 DEF CancelTurn, Caused
  <2> QED BY <2>1, <2>2, <2>3 DEF CloseTurn
<1> QED BY <1>1, <1>3, <1>4, TurnEnds

\* A task that had not begun its turn ends.
LEMMA GiveUpStep ==
  ASSUME DInv, Caused, NEW m \in Message,
         CancelUnstarted(m) \/ CancelAtLock(m) \/ CancelAtGate(m) \/ CancelDirect(m)
  PROVE  Service!Next
<1>1. TypeOK
  BY DEF DInv, IInv
<1>2. phase[m] \in {"created", "locking", "gating"}
  <2>1. CASE CancelUnstarted(m)
    BY <1>1, <2>1, TailQueue DEF CancelUnstarted, TypeOK, DInv, IInv, Placed, TaskQueues, Lists
  <2> QED BY <2>1 DEF CancelAtLock, CancelAtGate, CancelDirect
<1>3. /\ phase'[m] = "idle" /\ \A x \in Message : x # m => phase'[x] = phase[x]
      /\ UNCHANGED injected
  BY <1>1 DEF CancelUnstarted, CancelAtLock, CancelAtGate, CancelDirect, AbandonWait, TypeOK,
    turnVars
<1>4. \E o \in {"failed", "cancelled"} :
        /\ Settle({m}, o)
        /\ o = "failed" => m \in Direct
        /\ o = "cancelled" => StopGiven(SessionOf[m])
  BY DEF CancelUnstarted, CancelAtLock, CancelAtGate, CancelDirect, AbandonWait, Caused
<1>5. PICK o \in {"failed", "cancelled"} :
        /\ Settle({m}, o)
        /\ o = "failed" => m \in Direct
        /\ o = "cancelled" => StopGiven(SessionOf[m])
  BY <1>4
<1>6. outcome'[m] = o /\ \A x \in Message \ {m} : outcome'[x] = outcome[x]
  BY <1>5 DEF Settle
<1>7. Standing(m) = "queued" /\ Standing(m)' = o
  <2>1. Somewhere(m) /\ ~Folded(m) /\ phase[m] \notin InTurn
    BY <1>2, OnePlace DEF DInv, Somewhere, InTurn
  <2>2. Standing(m)' = o
    BY <1>6 DEF Standing
  <2> QED BY <2>1, <2>2, Standings
<1>8. \A x \in Message \ {m} : Same(x)
  BY <1>3, <1>6, Unmoved
<1>9. \A x \in Message : Hosts(x)' = Hosts(x)
  BY <1>3 DEF Hosts
<1> DEFINE F == {}
<1>10. F \in SUBSET Message /\ F = {} /\ \A x \in Message \ ({m} \cup F) : Standing(x)' = Standing(x)
  BY <1>8 DEF Same
<1>11. \/ o = "failed" /\ m \in Direct
       \/ o = "cancelled" /\ StopGiven(SessionOf[m])
  BY <1>5
<1> HIDE DEF F
<1> QED BY <1>7, <1>9, <1>10, <1>11, SeenSent, WithdrawService

\* Every step of the dispatcher is a step of the service, or one it cannot see.
LEMMA StepService ==
  ASSUME DInv, Caused, [Next]_vars
  PROVE  [Service!Next]_(Service!vars)
<1>1. CASE Next
  <2> PICK m \in Message :
        \/ Arrive(m) \/ Run(m) \/ Admit(m) \/ Work(m) \/ EndSlice(m) \/ CloseTurn(m)
        \/ Fail(m) \/ Deliver(m) \/ CancelDirect(m)
    BY <1>1 DEF Next
  <2>1. CASE Arrive(m)
    BY <2>1, ArriveStep, AdmitStep DEF Arrive
  <2>2. CASE Run(m)
    BY <2>2, RouteStep, ReplyStep
  <2>3. CASE Admit(m)
    BY <2>3, AdmitStep
  <2>4. CASE Work(m) \/ EndSlice(m)
    BY <2>4, WorkStep, ContinueStep DEF EndSlice
  <2>5. CASE CloseTurn(m) \/ Fail(m) \/ Deliver(m) \/ CancelDirect(m)
    BY <2>5, EndStep, GiveUpStep DEF Deliver
  <2> QED BY <2>1, <2>2, <2>3, <2>4, <2>5
<1>2. CASE UNCHANGED vars
  <2>1. UNCHANGED <<phase, injected, outcome>>
    BY <1>2 DEF vars, taskVars, turnVars
  <2>2. \A x \in Message : Same(x)
    BY <2>1, Unmoved
  <2> QED BY <2>2, StillService
<1> QED BY <1>1, <1>2

\* Before anything is sent, the service has nothing either.
LEMMA InitService == Init => Service!Init
<1> SUFFICES ASSUME Init PROVE Service!Init
  OBVIOUS
<1>1. \A x \in Message : Standing(x) = "unsent" /\ {t \in Message : x \in injected[t]} = {}
  BY DEF Init, Standing
<1> QED BY <1>1 DEF Service!Init

\* The tasks, locks, queues and cancellations of the dispatcher keep what
\* SessionService promises: the turns of a session are serial, at most Gate
\* dispatched turns run, every message accepted is finished once, with the turn
\* it had or was folded into, an automation is never folded into a turn, and
\* nothing but a /stop or /new of its own session takes a message away
\* (AgentLoop.run, AgentLoop._dispatch, process_direct, cmd_stop, cmd_new).
THEOREM DispatcherImplementsService == Spec => ImplementsService
<1>1. DInv /\ Caused /\ [Next]_vars => [Service!Next]_(Service!vars)
  BY StepService
<1> QED BY <1>1, InitService, CausedInvariance, PTL DEF Spec, ImplementsService, Service!Spec
=============================================================================
