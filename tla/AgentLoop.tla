----------------------------- MODULE AgentLoop -----------------------------
(***************************************************************************)
(* The dispatcher of the agent runtime: AgentLoop.run and                   *)
(* AgentLoop._dispatch (agent/loop.py), with the parts of the runner, the   *)
(* automation coordinators, the turn-continuation policy and the /stop and  *)
(* /new commands that move messages between its queues.                     *)
(*                                                                          *)
(* One asyncio event loop runs everything, so a step of the model is what   *)
(* one task does between two suspension points.  A task is named after the  *)
(* message it was created for.  Publishing to the unbounded bus never       *)
(* suspends, so the `finally` block of _dispatch is one step.               *)
(***************************************************************************)
EXTENDS Naturals, FiniteSets, SequencesExt

CONSTANTS
  Message,      \* inbound messages and direct calls
  Session,      \* effective session keys
  None,         \* "no message" (Python None)
  SessionOf,    \* [Message -> Session]: _effective_session_key
  Command,      \* [Message -> CommandText]: the command the text spells, if any
  Automation,   \* messages submitted by cron or a local trigger
  Direct,       \* calls of process_direct (SDK, API server, heartbeat, Dream)
  Gate,         \* permits of the concurrency gate (3)
  PendingCap,   \* capacity of a pending queue (20)
  MaxInject,    \* _MAX_INJECTIONS_PER_TURN (3)
  MaxCycles,    \* _MAX_INJECTION_CYCLES (5)
  MaxRounds     \* _MAX_GOAL_CONTINUATION_ROUNDS (12)

CommandText == {"none", "stop", "status", "new", "goal"}

\* The commands routed by CommandRouter.priority, before any lock or queue.
Priority == {"stop", "status"}

ASSUME ConstantsAssumption ==
  /\ None \notin Message
  /\ SessionOf \in [Message -> Session]
  /\ Command \in [Message -> CommandText]
  /\ Automation \subseteq Message
  /\ Direct \subseteq Message \ Automation
  /\ \A m \in Direct : Command[m] \notin Priority
  /\ Gate \in Nat \ {0}
  /\ PendingCap \in Nat \ {0}
  /\ MaxInject \in Nat \ {0}
  /\ MaxCycles \in Nat
  /\ MaxRounds \in Nat

VARIABLES
  inbound,      \* MessageBus.inbound
  loop,         \* command run() is executing inline, or None: waiting on the bus
  ready,        \* dispatch tasks created and not yet started, in creation order
  active,       \* tasks listed in _active_tasks
  cancelled,    \* tasks whose cancel() has been requested and not yet delivered
  phase,        \* where each task stands
  owner,        \* holder of each session lock, or None
  waiters,      \* tasks queued on each session lock
  gateQ,        \* tasks queued on the concurrency gate
  permits,      \* free permits of the gate
  registered,   \* task whose queue is published in _pending_queues, per session
  queue,        \* the pending queue each running task created
  injected,     \* follow-ups the runner of a task has taken from its queue
  cycles,       \* injection cycles the runner of a task has used
  untimed,      \* turns whose model calls run without the wall-clock timeout
  deferred,     \* automation turns set aside, per session
  waiter,       \* future of each submitted automation turn
  victims,      \* tasks a /stop or /new is waiting for
  goal,         \* sessions with an active sustained goal
  rounds,       \* continuation rounds spent on the goal of a session
  mayGoal,      \* messages whose turn is permitted to set a goal
  cont,         \* messages that are internal continuations of an earlier slice
  outcome       \* what became of each message (history of the model)

busVars  == <<inbound, loop, deferred>>
taskVars == <<ready, active, cancelled, phase>>
lockVars == <<owner, waiters, gateQ, permits>>
turnVars == <<registered, queue, injected, cycles, untimed>>
goalVars == <<goal, rounds, mayGoal, cont>>
vars == <<busVars, taskVars, lockVars, turnVars, goalVars, waiter, victims, outcome>>

InTurn == {"running", "yielding", "blocked", "closing", "resetting"}
Phase  == {"idle", "created", "locking", "gating"} \cup InTurn

\* "open": accepted, not finished.  "served": answered, or folded into a turn
\* that was.  "failed", "cancelled": the turn ended so.  "dropped": removed
\* from a pending queue by /stop.
Outcome == {"unsent", "open", "served", "failed", "cancelled", "dropped"}

TypeOK ==
  /\ inbound \in Seq(Message)
  /\ loop \in Message \cup {None}
  /\ ready \in Seq(Message)
  /\ active \subseteq Message
  /\ cancelled \subseteq Message
  /\ phase \in [Message -> Phase]
  /\ owner \in [Session -> Message \cup {None}]
  /\ waiters \in [Session -> Seq(Message)]
  /\ gateQ \in Seq(Message)
  /\ permits \in Nat
  /\ registered \in [Session -> Message \cup {None}]
  /\ queue \in [Message -> Seq(Message)]
  /\ injected \in [Message -> SUBSET Message]
  /\ cycles \in [Message -> Nat]
  /\ untimed \subseteq Message
  /\ deferred \in [Session -> Seq(Message)]
  /\ waiter \in [Message -> {"none", "waiting", "result", "error"}]
  /\ victims \in [Message -> SUBSET Message]
  /\ goal \subseteq Session
  /\ rounds \in [Session -> Nat]
  /\ mayGoal \subseteq Message
  /\ cont \subseteq Message
  /\ outcome \in [Message -> Outcome]

Init ==
  /\ inbound = <<>>
  /\ loop = None
  /\ ready = <<>>
  /\ active = {}
  /\ cancelled = {}
  /\ phase = [m \in Message |-> "idle"]
  /\ owner = [s \in Session |-> None]
  /\ waiters = [s \in Session |-> <<>>]
  /\ gateQ = <<>>
  /\ permits = Gate
  /\ registered = [s \in Session |-> None]
  /\ queue = [m \in Message |-> <<>>]
  /\ injected = [m \in Message |-> {}]
  /\ cycles = [m \in Message |-> 0]
  /\ untimed = {}
  /\ deferred = [s \in Session |-> <<>>]
  /\ waiter = [m \in Message |-> "none"]
  /\ victims = [m \in Message |-> {}]
  /\ goal = {}
  /\ rounds = [s \in Session |-> 0]
  /\ mayGoal = {m \in Message : Command[m] = "goal"}
  /\ cont = {}
  /\ outcome = [m \in Message |-> "unsent"]

-----------------------------------------------------------------------------
(* Names for the questions the code asks.                                   *)

\* The command a message spells: the text of a continuation is a prompt.
CommandOf(m) == IF m \in cont THEN "none" ELSE Command[m]

TasksOf_AnySession(s) == active  \* mutant
TasksOf(s) == {m \in active : SessionOf[m] = s}

Settle(msgs, o) == outcome' = [m \in Message |-> IF m \in msgs THEN o ELSE outcome[m]]

\* AutomationTurnCoordinator.complete: the first answer wins.
Complete_ResultsOnly(m, answer) ==  \* mutant
  waiter' = [waiter EXCEPT ![m] = IF @ = "waiting" /\ answer = "result" THEN answer ELSE @]
Complete(m, answer) ==
  waiter' = [waiter EXCEPT ![m] = IF @ = "waiting" THEN answer ELSE @]

\* publish_next_deferred_turn: at most the head of the session's list.
NextDeferred_Lost(s) == <<>>  \* mutant
NextDeferred(s) == IF deferred[s] = <<>> THEN <<>> ELSE <<Head(deferred[s])>>
LaterDeferred(s) == IF deferred[s] = <<>> THEN <<>> ELSE Tail(deferred[s])

\* What _drain_pending hands to the runner of m, and what it leaves.
CanDrain(m) == cycles[m] < MaxCycles /\ queue[m] # <<>>
DrainLen(m) == IF Len(queue[m]) < MaxInject THEN Len(queue[m]) ELSE MaxInject
Drained(m)  == IF CanDrain(m) THEN ToSet(SubSeq(queue[m], 1, DrainLen(m))) ELSE {}
Kept(m)     == IF CanDrain(m) THEN SubSeq(queue[m], DrainLen(m) + 1, Len(queue[m]))
                              ELSE queue[m]

-----------------------------------------------------------------------------
(* Messages arrive.                                                         *)

\* A channel, or a finished subagent, publishes to the bus.
Publish(m) ==
  /\ outcome[m] = "unsent"
  /\ m \notin Automation \cup Direct
  /\ inbound' = Append(inbound, m)
  /\ Settle({m}, "open")
  /\ UNCHANGED <<loop, deferred, taskVars, lockVars, turnVars, goalVars, waiter, victims>>

\* Cron or the trigger queue submits a turn and awaits its future.
Submit(m) ==
  /\ outcome[m] = "unsent"
  /\ m \in Automation
  /\ waiter' = [waiter EXCEPT ![m] = "waiting"]
  /\ inbound' = Append(inbound, m)
  /\ Settle({m}, "open")
  /\ UNCHANGED <<loop, deferred, taskVars, lockVars, turnVars, goalVars, victims>>

-----------------------------------------------------------------------------
(* AgentLoop.run: one message is taken from the bus and routed.             *)

\* run() is back at consume_inbound and m is what it gets.
Consumes(m) ==
  /\ loop = None
  /\ inbound # <<>>
  /\ m = Head(inbound)
  /\ inbound' = Tail(inbound)

\* _cancel_active_tasks: cancel every tracked task of the session but self.
Cancel_Unrequested(s, self) ==  \* mutant
  /\ active' = active \ TasksOf(s)
  /\ victims' = [victims EXCEPT ![self] = TasksOf(s) \ {self}]
  /\ UNCHANGED cancelled
Cancel(s, self) ==
  /\ active' = active \ TasksOf(s)
  /\ cancelled' = cancelled \cup (TasksOf(s) \ {self})
  /\ victims' = [victims EXCEPT ![self] = TasksOf(s) \ {self}]

\* /stop cancels the session's tasks and then waits for them; /status only
\* reads.  Neither looks at what kind of message spelt the command.
RunPriority(m) ==
  /\ Consumes(m)
  /\ CommandOf(m) \in Priority
  /\ loop' = m
  /\ \/ CommandOf(m) = "stop" /\ Cancel(SessionOf[m], m)
     \/ CommandOf(m) = "status" /\ UNCHANGED <<active, cancelled, victims>>
  /\ UNCHANGED <<deferred, ready, phase, lockVars, turnVars, goalVars, waiter, outcome>>

IsActive(s) == registered[s] # None

\* An automation turn waits while its session has a turn in progress.
ShouldDefer_Never(m) == FALSE  \* mutant
ShouldDefer(m) == m \in Automation /\ IsActive(SessionOf[m])

RunDefer(m) ==
  /\ Consumes(m)
  /\ CommandOf(m) \notin Priority
  /\ ShouldDefer(m)
  /\ deferred' = [deferred EXCEPT ![SessionOf[m]] = Append(@, m)]
  /\ UNCHANGED <<loop, taskVars, lockVars, turnVars, goalVars, waiter, victims, outcome>>

\* /new and /goal sent to a running session are executed by run() itself.
RunInline(m) ==
  /\ Consumes(m)
  /\ CommandOf(m) \in {"new", "goal"}
  /\ ~ShouldDefer(m)
  /\ IsActive(SessionOf[m])
  /\ loop' = m
  /\ \/ CommandOf(m) = "new" /\ Cancel(SessionOf[m], m)
     \/ CommandOf(m) = "goal" /\ UNCHANGED <<active, cancelled, victims>>
  /\ UNCHANGED <<deferred, ready, phase, lockVars, turnVars, goalVars, waiter, outcome>>

\* A follow-up to a running session goes to the pending queue of its turn.
RunInject(m) ==
  LET t == registered[SessionOf[m]] IN
  /\ Consumes(m)
  /\ CommandOf(m) = "none"
  /\ ~ShouldDefer(m)
  /\ t # None
  /\ Len(queue[t]) < PendingCap
  /\ queue' = [queue EXCEPT ![t] = Append(@, m)]
  /\ UNCHANGED <<loop, deferred, taskVars, lockVars, registered, injected, cycles,
                 untimed, goalVars, waiter, victims, outcome>>

\* Everything else becomes a task of its own, a follow-up that finds the
\* pending queue full included.
RunSpawn(m) ==
  LET t == registered[SessionOf[m]] IN
  /\ Consumes(m)
  /\ CommandOf(m) \notin Priority
  /\ ~ShouldDefer(m)
  /\ \/ t = None
     \/ t # None /\ CommandOf(m) = "none" /\ Len(queue[t]) = PendingCap
  /\ ready' = Append(ready, m)
  /\ active' = active \cup {m}
  /\ phase' = [phase EXCEPT ![m] = "created"]
  /\ UNCHANGED <<loop, deferred, cancelled, lockVars, turnVars, goalVars, waiter,
                 victims, outcome>>

\* The inline command has seen every task it cancelled end.  cmd_stop then
\* empties a pending queue that is still published for the session.
RunReply(m) ==
  LET s == SessionOf[m]
      t == registered[s]
      emptied == IF CommandOf(m) = "stop" /\ t # None THEN ToSet(queue[t]) ELSE {}
  IN
  /\ loop = m
  /\ \A v \in victims[m] : phase[v] = "idle"
  /\ loop' = None
  /\ victims' = [victims EXCEPT ![m] = {}]
  /\ IF CommandOf(m) = "stop" /\ t # None
     THEN /\ registered' = [registered EXCEPT ![s] = None]
          /\ queue' = [queue EXCEPT ![t] = <<>>]
     ELSE UNCHANGED <<registered, queue>>
  /\ outcome' = [x \in Message |-> CASE x = m -> "served"
                                     [] x \in emptied -> "dropped"
                                     [] OTHER -> outcome[x]]
  /\ UNCHANGED <<inbound, deferred, taskVars, lockVars, injected, cycles, untimed, goalVars,
                 waiter>>

-----------------------------------------------------------------------------
(* _dispatch: `async with lock, gate`.                                      *)

LockIsFree_NoWaiters(s) == waiters[s] = <<>>  \* mutant
LockIsFree(s) == owner[s] = None /\ waiters[s] = <<>>
GateIsFree    == permits > 0 /\ gateQ = <<>>

\* A turn that works on a sustained goal, as far as its start can tell, calls
\* the model without the wall-clock timeout (runner_wall_llm_timeout_s).
Sustained(m) == CommandOf(m) # "new" /\ (SessionOf[m] \in goal \/ m \in mayGoal)

StartRunning(m) ==
  /\ phase' = [phase EXCEPT ![m] = "running"]
  /\ untimed' = IF Sustained(m) THEN untimed \cup {m} ELSE untimed

\* The turn of a dispatched task: its pending queue is created and published.
OpenTurn(m) ==
  /\ StartRunning(m)
  /\ registered' = [registered EXCEPT ![SessionOf[m]] = m]
  /\ queue' = [queue EXCEPT ![m] = <<>>]

\* m gets the lock and goes on to the gate; a direct call needs no gate and
\* publishes no queue.
TakeLock(m) ==
  /\ owner' = [owner EXCEPT ![SessionOf[m]] = m]
  /\ \/ /\ m \in Direct
        /\ StartRunning(m)
        /\ UNCHANGED <<gateQ, permits, registered, queue>>
     \/ /\ m \notin Direct
        /\ GateIsFree
        /\ permits' = permits - 1
        /\ OpenTurn(m)
        /\ UNCHANGED gateQ
     \/ /\ m \notin Direct
        /\ ~GateIsFree
        /\ gateQ' = Append(gateQ, m)
        /\ phase' = [phase EXCEPT ![m] = "gating"]
        /\ UNCHANGED <<permits, registered, queue, untimed>>

AwaitLock_PublishQueue(m) ==  \* mutant
  /\ waiters' = [waiters EXCEPT ![SessionOf[m]] = Append(@, m)]
  /\ phase' = [phase EXCEPT ![m] = "locking"]
  /\ registered' = [registered EXCEPT ![SessionOf[m]] = m]
  /\ UNCHANGED <<owner, gateQ, permits, queue, untimed>>
AwaitLock(m) ==
  /\ waiters' = [waiters EXCEPT ![SessionOf[m]] = Append(@, m)]
  /\ phase' = [phase EXCEPT ![m] = "locking"]
  /\ UNCHANGED <<owner, gateQ, permits, registered, queue, untimed>>

\* A task, or a direct call, reaches the session lock for the first time.
ReachLock(m) ==
  \/ LockIsFree(SessionOf[m]) /\ TakeLock(m) /\ UNCHANGED waiters
  \/ ~LockIsFree(SessionOf[m]) /\ AwaitLock(m)

CallDirect(m) ==
  /\ outcome[m] = "unsent"
  /\ m \in Direct
  /\ ReachLock(m)
  /\ Settle({m}, "open")
  /\ UNCHANGED <<busVars, ready, active, cancelled, injected, cycles, goalVars, waiter, victims>>

StartTask(m) ==
  /\ ready # <<>>
  /\ m = Head(ready)
  /\ m \notin cancelled
  /\ ready' = Tail(ready)
  /\ ReachLock(m)
  /\ UNCHANGED <<busVars, active, cancelled, injected, cycles, goalVars, waiter, victims, outcome>>

\* asyncio.Lock is first come, first served.
GrantLock(m) ==
  LET s == SessionOf[m] IN
  /\ owner[s] = None
  /\ waiters[s] # <<>>
  /\ m = Head(waiters[s])
  /\ m \notin cancelled
  /\ waiters' = [waiters EXCEPT ![s] = Tail(@)]
  /\ TakeLock(m)
  /\ UNCHANGED <<busVars, ready, active, cancelled, injected, cycles, goalVars, waiter,
                 victims, outcome>>

\* So is asyncio.Semaphore.
GrantGate(m) ==
  /\ permits > 0
  /\ gateQ # <<>>
  /\ m = Head(gateQ)
  /\ m \notin cancelled
  /\ gateQ' = Tail(gateQ)
  /\ permits' = permits - 1
  /\ OpenTurn(m)
  /\ UNCHANGED <<busVars, ready, active, cancelled, owner, waiters, injected, cycles,
                 goalVars, waiter, victims, outcome>>

-----------------------------------------------------------------------------
(* The turn: AgentRunner.run under the dispatch task.                       *)

\* The task of m is inside AgentRunner.run; /new never gets that far.
InRunner(m) == phase[m] = "running" /\ m \notin cancelled /\ CommandOf(m) # "new"

\* The runner takes follow-ups between two model calls (_try_drain_injections).
Inject(m) ==
  /\ InRunner(m)
  /\ CanDrain(m)
  /\ injected' = [injected EXCEPT ![m] = @ \cup Drained(m)]
  /\ queue' = [queue EXCEPT ![m] = Kept(m)]
  /\ cycles' = [cycles EXCEPT ![m] = @ + 1]
  /\ UNCHANGED <<busVars, taskVars, lockVars, registered, untimed, goalVars, waiter, victims,
                 outcome>>

\* The goal tools, called by the model.  Creating a goal, or replacing it, is
\* permitted in the first slice of a /goal turn until it ends one; ending it is
\* permitted in any turn.
StartGoal(m) ==
  LET s == SessionOf[m] IN
  /\ InRunner(m)
  /\ m \in mayGoal
  /\ goal' = goal \cup {s}
  /\ rounds' = [rounds EXCEPT ![s] = 0]
  /\ UNCHANGED <<busVars, taskVars, lockVars, turnVars, mayGoal, cont, waiter, victims, outcome>>

EndGoal(m) ==
  /\ InRunner(m)
  /\ SessionOf[m] \in goal
  /\ goal' = goal \ {SessionOf[m]}
  /\ mayGoal' = mayGoal \ {m}
  /\ UNCHANGED <<busVars, taskVars, lockVars, turnVars, rounds, cont, waiter, victims, outcome>>

\* The model answers and nothing can be drained: what the task still awaits
\* (hooks, stream end, save) leaves time for follow-ups to be queued.
Answer(m) ==
  /\ InRunner(m)
  /\ ~CanDrain(m)
  /\ phase' = [phase EXCEPT ![m] = "closing"]
  /\ UNCHANGED <<busVars, ready, active, cancelled, lockVars, turnVars, goalVars, waiter,
                 victims, outcome>>

\* maybe_continue_turn applies: a goal is active and has rounds left.
MayContinue(m) ==
  m \notin Direct /\ SessionOf[m] \in goal /\ rounds[SessionOf[m]] < MaxRounds

\* The iteration budget runs out: one last drain.
LastDrain(m, next) ==
  /\ InRunner(m)
  /\ phase' = [phase EXCEPT ![m] = next]
  /\ injected' = [injected EXCEPT ![m] = @ \cup Drained(m)]
  /\ queue' = [queue EXCEPT ![m] = Kept(m)]
  /\ UNCHANGED <<busVars, ready, active, cancelled, lockVars, registered, cycles, untimed,
                 goalVars, waiter, victims, outcome>>

\* With no continuation, a model call without tools then writes the answer.
Exhaust(m) == ~MayContinue(m) /\ LastDrain(m, "closing")

\* With one, what the task still awaits before it is put (that same model
\* call in the slice that created its goal, hooks) leaves time for follow-ups.
\* The goal is the runner's and the lock is held: MayContinue stays as it is.
Yield(m) == MayContinue(m) /\ LastDrain(m, "yielding")

\* The end of a dispatched turn.  `left`, what its own queue still holds, goes
\* back to the bus, then one deferred turn of the session; lock and permit are
\* given back.  Only its own queue is withdrawn from _pending_queues.
LeaveTurn(m, left) ==
  LET s == SessionOf[m] IN
  /\ phase' = [phase EXCEPT ![m] = "idle"]
  /\ registered' = [registered EXCEPT ![s] = IF @ = m THEN None ELSE @]
  /\ queue' = [queue EXCEPT ![m] = <<>>]
  /\ injected' = [injected EXCEPT ![m] = {}]
  /\ cycles' = [cycles EXCEPT ![m] = 0]
  /\ untimed' = untimed \ {m}
  /\ inbound' = inbound \o left \o NextDeferred(s)
  /\ deferred' = [deferred EXCEPT ![s] = LaterDeferred(s)]
  /\ owner' = [owner EXCEPT ![s] = None]
  /\ permits' = permits + 1
  /\ active' = active \ {m}
  /\ cancelled' = cancelled \ {m}
  /\ UNCHANGED <<loop, ready, waiters, gateQ>>

\* A direct call only gives the lock back.
ReturnDirect_GivesPermit(m) ==  \* mutant
  /\ phase' = [phase EXCEPT ![m] = "idle"]
  /\ owner' = [owner EXCEPT ![SessionOf[m]] = None]
  /\ permits' = permits + 1
  /\ untimed' = untimed \ {m}
  /\ UNCHANGED <<busVars, ready, active, cancelled, waiters, gateQ, registered, queue,
                 injected, cycles>>
ReturnDirect(m) ==
  /\ phase' = [phase EXCEPT ![m] = "idle"]
  /\ owner' = [owner EXCEPT ![SessionOf[m]] = None]
  /\ untimed' = untimed \ {m}
  /\ UNCHANGED <<busVars, ready, active, cancelled, waiters, gateQ, permits, registered, queue,
                 injected, cycles>>

EndTurn_LosesLeftovers(m) ==  \* mutant
  \/ m \in Direct /\ ReturnDirect(m)
  \/ m \notin Direct /\ LeaveTurn(m, <<>>)
EndTurn(m) ==
  \/ m \in Direct /\ ReturnDirect(m)
  \/ m \notin Direct /\ LeaveTurn(m, queue[m])

\* The turn is saved and answered.  Saving resets the rounds of an ended goal.
Finish(m) ==
  LET s == SessionOf[m] IN
  /\ phase[m] = "closing" /\ m \notin cancelled
  /\ EndTurn(m)
  /\ rounds' = [rounds EXCEPT ![s] = IF s \in goal THEN @ ELSE 0]
  /\ Settle({m} \cup injected[m], "served")
  /\ Complete(m, "result")
  /\ UNCHANGED <<goal, mayGoal, cont, victims>>

\* Anything the turn raises: an error reply, and the end of the turn.
Fail(m) ==
  /\ phase[m] \in {"running", "yielding", "closing"} /\ m \notin cancelled
  /\ EndTurn(m)
  /\ Settle({m} \cup injected[m], "failed")
  /\ Complete(m, "error")
  /\ UNCHANGED <<goalVars, victims>>

SpendRound_Free(m) == UNCHANGED rounds  \* mutant
SpendRound(m) == rounds' = [rounds EXCEPT ![SessionOf[m]] = @ + 1]

\* maybe_continue_turn is reached, and applies.
Putting(m) == phase[m] = "yielding" /\ m \notin cancelled /\ MayContinue(m)

\* The next slice is put on the turn's own queue and the slice ends without an
\* answer; the save suspends nowhere, and the `finally` of _dispatch hands the
\* next slice to the bus.
ContinueGoal(m) ==
  /\ Putting(m)
  /\ Len(queue[m]) < PendingCap
  /\ LeaveTurn(m, Append(queue[m], m))
  /\ SpendRound(m)
  /\ cont' = cont \cup {m}
  /\ mayGoal' = mayGoal \ {m}
  /\ Settle(injected[m], "served")
  /\ Complete(m, "result")
  /\ UNCHANGED <<goal, victims>>

\* The same put on a full queue waits for room, which only its own turn could
\* make: nothing but a cancellation ends this wait.
BlockOnPut(m) ==
  /\ Putting(m)
  /\ Len(queue[m]) = PendingCap
  /\ phase' = [phase EXCEPT ![m] = "blocked"]
  /\ SpendRound(m)
  /\ UNCHANGED <<busVars, ready, active, cancelled, lockVars, turnVars, goal, mayGoal, cont,
                 waiter, victims, outcome>>

\* /new run by its own task: cancel the session's other tasks, wait for them.
NewCommand(m) ==
  /\ phase[m] = "running" /\ m \notin cancelled
  /\ CommandOf(m) = "new"
  /\ Cancel(SessionOf[m], m)
  /\ phase' = [phase EXCEPT ![m] = "resetting"]
  /\ UNCHANGED <<busVars, ready, lockVars, turnVars, goalVars, waiter, outcome>>

FinishNew(m) ==
  /\ phase[m] = "resetting"
  /\ \A v \in victims[m] : phase[v] = "idle"
  /\ EndTurn(m)
  /\ victims' = [victims EXCEPT ![m] = {}]
  /\ Settle({m}, "served")
  /\ Complete(m, "result")
  /\ UNCHANGED goalVars

-----------------------------------------------------------------------------
(* CancelledError is delivered.                                             *)

\* A task that never ran runs nothing: not even its outer `finally`.
CancelUnstarted(m) ==
  /\ ready # <<>>
  /\ m = Head(ready)
  /\ m \in cancelled
  /\ ready' = Tail(ready)
  /\ phase' = [phase EXCEPT ![m] = "idle"]
  /\ cancelled' = cancelled \ {m}
  /\ Settle({m}, "cancelled")
  /\ UNCHANGED <<busVars, active, lockVars, turnVars, goalVars, waiter, victims>>

\* Outer `finally` with no queue of its own: the next deferred turn is
\* published, the coordinators are not told.
AbandonWait(m) ==
  LET s == SessionOf[m] IN
  /\ phase' = [phase EXCEPT ![m] = "idle"]
  /\ inbound' = inbound \o NextDeferred(s)
  /\ deferred' = [deferred EXCEPT ![s] = LaterDeferred(s)]
  /\ cancelled' = cancelled \ {m}
  /\ Settle({m}, "cancelled")
  /\ UNCHANGED <<loop, ready, active, permits, turnVars, goalVars, waiter, victims>>

CancelAtLock(m) ==
  LET s == SessionOf[m] IN
  /\ phase[m] = "locking" /\ m \in cancelled
  /\ \E i \in DOMAIN waiters[s] :
       waiters[s][i] = m /\ waiters' = [waiters EXCEPT ![s] = RemoveAt(@, i)]
  /\ AbandonWait(m)
  /\ UNCHANGED <<owner, gateQ>>

CancelAtGate(m) ==
  /\ phase[m] = "gating" /\ m \in cancelled
  /\ \E i \in DOMAIN gateQ : gateQ[i] = m /\ gateQ' = RemoveAt(gateQ, i)
  /\ owner' = [owner EXCEPT ![SessionOf[m]] = None]
  /\ AbandonWait(m)
  /\ UNCHANGED waiters

\* In the turn: what the runner had taken from the queue goes with it, what
\* is still queued goes back to the bus.
CancelTurn(m) ==
  /\ phase[m] \in InTurn \ {"resetting"} /\ m \in cancelled
  /\ LeaveTurn(m, queue[m])
  /\ Settle({m} \cup injected[m], "cancelled")
  /\ Complete(m, "error")
  /\ UNCHANGED <<goalVars, victims>>

\* The caller of a direct call waiting for the lock gives up.
CancelDirect(m) ==
  LET s == SessionOf[m] IN
  /\ phase[m] = "locking" /\ m \in Direct
  /\ \E i \in DOMAIN waiters[s] :
       waiters[s][i] = m /\ waiters' = [waiters EXCEPT ![s] = RemoveAt(@, i)]
  /\ phase' = [phase EXCEPT ![m] = "idle"]
  /\ Settle({m}, "failed")
  /\ UNCHANGED <<busVars, ready, active, cancelled, owner, gateQ, permits, turnVars, goalVars,
                 waiter, victims>>

-----------------------------------------------------------------------------
Arrive(m)  == Publish(m) \/ Submit(m) \/ CallDirect(m)
Run(m)     == \/ RunPriority(m) \/ RunDefer(m) \/ RunInline(m) \/ RunInject(m)
              \/ RunSpawn(m) \/ RunReply(m)
Admit(m)   == StartTask(m) \/ GrantLock(m) \/ GrantGate(m)
EndSlice(m)  == \/ Answer(m) \/ Exhaust(m) \/ Yield(m) \/ ContinueGoal(m) \/ BlockOnPut(m)
                \/ NewCommand(m)
CloseTurn(m) == Finish(m) \/ FinishNew(m)
Deliver(m) == CancelUnstarted(m) \/ CancelAtLock(m) \/ CancelAtGate(m) \/ CancelTurn(m)
Work(m)    == Inject(m) \/ StartGoal(m) \/ EndGoal(m)

Next == \E m \in Message :
  \/ Arrive(m) \/ Run(m) \/ Admit(m) \/ Work(m) \/ EndSlice(m) \/ CloseTurn(m)
  \/ Fail(m) \/ Deliver(m) \/ CancelDirect(m)

Spec == Init /\ [][Next]_vars

(***************************************************************************)
(* The event loop runs every task that can run, the runner has an iteration *)
(* budget and its model calls a wall-clock timeout, so a turn that can end  *)
(* ends; tools and hooks are taken to return.  A turn in `untimed` has no   *)
(* such timeout: its runner may wait for the model for ever, and only the   *)
(* delivery of a cancellation is certain.  Nothing is assumed of the        *)
(* outside world: messages need not arrive, the model need not fail, create *)
(* goals or finish them.                                                    *)
(***************************************************************************)
Fairness == \A m \in Message :
  /\ WF_vars(Run(m))
  /\ WF_vars(Admit(m))
  /\ WF_vars(m \notin untimed /\ (EndSlice(m) \/ Inject(m)))
  /\ WF_vars(m \notin untimed /\ CloseTurn(m))
  /\ WF_vars(Deliver(m))

FairSpec == Spec /\ Fairness

-----------------------------------------------------------------------------
(* Properties.                                                              *)

\* _dispatch and process_direct share one lock per session: two turns of a
\* session are never in progress together, whatever is cancelled and when.
SerialTurns ==
  \A m, n \in Message :
    m # n /\ SessionOf[m] = SessionOf[n] => ~(phase[m] \in InTurn /\ phase[n] \in InTurn)

\* No way out of _dispatch leaks a permit of the gate or gives one back twice.
GateAccounting ==
  permits + Cardinality({m \in Message \ Direct : phase[m] \in InTurn}) = Gate

\* _pending_queues names only a turn in progress of that very session, and
\* nothing is left in the queue of a turn that is over.
QueueOwnership ==
  /\ \A s \in Session : registered[s] # None =>
       SessionOf[registered[s]] = s /\ phase[registered[s]] \in InTurn
  /\ \A m \in Message : phase[m] \notin InTurn => queue[m] = <<>> /\ injected[m] = {}

\* Where a message is.
At(m, q) == {i \in DOMAIN q : q[i] = m}
Places(m) ==
  {<<"bus", i>> : i \in At(m, inbound)}
  \cup (UNION {{<<"queue", t, i>> : i \in At(m, queue[t])} : t \in Message})
  \cup (UNION {{<<"deferred", s, i>> : i \in At(m, deferred[s])} : s \in Session})
  \cup {<<"folded", t>> : t \in {u \in Message : m \in injected[u]}}
  \cup {<<"task", t>> : t \in {u \in {m} : phase[u] # "idle"}}
  \cup {<<"inline", t>> : t \in {u \in {m} : loop = u}}

\* Routing, draining, re-publication and cancellation neither lose nor
\* duplicate a message: one that is not finished is in exactly one place, one
\* that is finished, or not sent, is nowhere.
Conservation ==
  \A m \in Message : Cardinality(Places(m)) = IF outcome[m] = "open" THEN 1 ELSE 0

\* An automation turn "waits until the session becomes idle instead of being
\* injected into the active turn" (docs/automations.md).
AutomationStandsAlone ==
  \A a \in Automation, t \in Message : a \notin ToSet(queue[t]) \cup injected[t]

\* A deferred automation turn is not stranded: a dispatched turn of its
\* session, or an automation turn on its way to one, will publish it.  Only
\* behind an automation that was cancelled there may be nobody: a task
\* cancelled before its first step runs no `finally`.
DeferredHasPublisher ==
  \A s \in Session : deferred[s] # <<>> =>
    \E m \in Message \ Direct : SessionOf[m] = s /\
      \/ phase[m] # "idle"
      \/ m \in Automation /\ (m \in ToSet(inbound) \/ outcome[m] = "cancelled")

\* submit() waits "for its session response": when an automation is finished,
\* served or failed, its submitter has been answered.  One cancelled before it
\* had the lock and the gate is answered by nobody, and submit() still waits.
AnsweredUnlessCut ==
  \A a \in Automation : waiter[a] = "waiting" => outcome[a] \in {"open", "cancelled"}

\* A turn that nothing but a cancellation may ever end.
Stuck(t) == phase[t] = "blocked" \/ (t \in untimed /\ phase[t] \in InTurn)

\* Every message but an automation (DeferredHasPublisher is about those) is
\* finished, unless a stuck turn of its session, or as many stuck turns as the
\* gate has permits, are never cancelled.  Nothing keeps /stop and /status from
\* being executed.
EventuallyFinished ==
  \A m \in Message \ Automation :
    \/ outcome[m] = "open" ~> outcome[m] # "open"
    \/ /\ Command[m] \notin Priority
       /\ \/ \E t \in Message : SessionOf[t] = SessionOf[m] /\ <>[]Stuck(t)
          \/ \E T \in kSubset(Gate, Message \ Direct) : \A t \in T : <>[]Stuck(t)

\* The next slice of a goal is queued: putting it on the queue returns.
ContinuationIsQueued == \A m \in Message : phase[m] = "blocked" ~> phase[m] # "blocked"

\* run() comes back to the bus after every command it executes inline.
LoopReturns == loop # None ~> loop = None

\* What the service sees of a message.
Standing(m) ==
  IF outcome[m] # "open" THEN outcome[m]
  ELSE IF phase[m] \in InTurn THEN "serving"
  ELSE IF \E t \in Message : m \in injected[t] THEN "folded"
  ELSE "queued"

\* The dispatcher implements the service it promises.
Service == INSTANCE SessionService WITH
  Commands <- {m \in Message : Command[m] # "none"},
  Stopping <- {m \in Message : Command[m] \in {"stop", "new"}},
  Slots <- Gate,
  status <- [m \in Message |-> Standing(m)],
  host <- [m \in Message |-> {t \in Message : m \in injected[t]}]

ImplementsService == Service!Spec

=============================================================================
