# nanobot and LightRAG in TLA+

The repository holds two programs. **nanobot** (`src/nanobot`) is an agent
runtime: chat channels, automations and API callers send it messages, and it
answers each with a *turn* of a language model in the message's session.
**LightRAG** (`src/LightRAG`) is the retrieval service its `lightrag` tool
calls: documents go through a pipeline into graph and vector stores. nanobot is
one asyncio process; LightRAG's API server is several worker processes that
share state through a manager.

This directory holds TLA+ modules translated from that code, TLC
configurations that check them on small instances, and theorems about them
checked by TLAPS. `PROJECT.json` maps every definition to its lines.

## Inventory

| Part | State | Operations | Hard behaviour | What makes it correct |
|---|---|---|---|---|
| Agent dispatcher (`agent/loop.py`, `bus/queue.py`) | bus, dispatch tasks, session locks, gate, pending queues | `run`, `_dispatch`, `process_direct`, drain | cancellation at every await, queues that move messages into each other | one turn per session; no message lost or doubled; permits balance |
| Automation coordinators (`agent/automation_turns.py`, ...) | futures of submitters, deferred turns | submit, defer, publish next, complete | the turn waited for changes; commands and cancellations take other paths | never folded into a turn, never stranded, submitter always answered |
| Goals (`session/turn_continuation.py`, `agent/tools/long_task.py`) | active goal, rounds | create, end, continue | a turn re-queues itself | bounded rounds, no self-deadlock |
| Runner (`agent/runner.py`) | injected follow-ups, cycles | drain, answer, run out of budget | follow-ups arriving while the turn closes | a follow-up belongs to exactly one turn |
| Commands (`command/builtin.py`) | none of their own | /stop, /new, /goal, /status | executed inline by the loop, or by a task | the loop always comes back |
| Cron service (`cron/service.py`) | store in memory, `jobs.json`, `action.jsonl`, timer task, `_running` | edits, list, run now, timer, start, stop | the timer task is cancelled by edits; reload replaces objects; crash, failing writes, edits after stop | a one-time job runs once; jobs come and go by edits alone |
| Local triggers (`triggers/`) | files in inbox, processing, failed | enqueue, claim, retry, recover | crash at every file operation, shutdown in a batch | nothing accepted is lost; bounded attempts |
| Session files and checkpoints (`session/manager.py`, `agent/loop.py`) | history, checkpoint, pending marker | save, checkpoint, restore | crash in a turn, /stop in a turn | history neither loses nor doubles messages |
| Compaction and memory (`agent/autocompact.py`, `agent/memory.py`) | boundary, history cursor, summaries | consolidate, compact, dream | background compaction beside a turn | no unsummarised message dropped |
| Channel manager (`channels/manager.py`) | outbound queue, retry | dispatch, coalesce, retry | slow channel, duplicate suppression | order per stream |
| Pipeline reservations (LightRAG `kg/shared_storage.py`, `api/routers/document_routes.py`) | busy, destructive, scan, enqueue owners | acquire, hand over, release, reconcile | worker death, cancellation in a hand-over | exclusion; every reservation released once |
| Keyed locks, global slots (`kg/shared_storage.py`) | holder records, leases | acquire, release, renew, reap | process death, probe outside the guard, late heartbeats | mutual exclusion among live processes; never more slots than the limit |
| Model call queue (LightRAG `utils.py`) | physical queue, reservations, task states, held and parked leases | call, give up, dispatch, run, maintain, shut down | three parties settle one call; leases lost on the way | every call is answered once; counts and leases balance |

Subagents, providers, tools, channel adapters, pairing, configuration, the
WebUI, storages, parsers and chunkers are listed in `PROJECT.json` with the
reason they are not modelled.

**How the parts interact.** Channels and subagents publish to the bus; cron
and local triggers submit through the coordinators and await a future. `run`
takes one message at a time and routes it: a priority command inline, an
automation of a busy session to the deferred list, a follow-up of a busy
session to the pending queue of its turn, everything else to a dispatch task.
The task takes the session lock, then a permit of the gate, publishes a pending
queue and runs the turn, which drains the queue between model calls. Direct
calls take the same session lock and no permit. /stop and /new cancel the
session's tasks wherever they wait.

## Modules

| Module | What it is |
|---|---|
| `AgentLoop` | the dispatcher, with the coordinators, the goal continuation and the commands that touch queues and tasks |
| `SessionService` | what the dispatcher promises, without tasks, locks and queues |
| `MCAgentLoop` | values for TLC |
| `QueueLemmas` | lemmas about sequences of pairwise distinct elements, and about least and greatest numbers |
| `AgentLoopProofs` | the theorems about `AgentLoop`: turns, queues and automations, then messages, permits and submitters, and that it implements `SessionService` |
| `CronService` | the scheduler |
| `MCCronService` | values for TLC |
| `CronServiceProofs` | the theorems about `CronService`, with what merging the log does |
| `LocalTriggers` | the queue of trigger messages and the task that delivers them |
| `DeliveryQueue` | what the queue of local triggers promises, without files and process |
| `MCLocalTriggers` | values for TLC |
| `LocalTriggersProofs` | the theorems about `LocalTriggers`, and that it implements `DeliveryQueue` |
| `SessionHistory` | what is remembered of one conversation: session file, checkpoint, consolidation, idle compaction, /new |
| `SessionHistoryProofs` | the theorems about `SessionHistory`, with lemmas about rows, restorations, suffixes and the queue of the lock |
| `PipelineReservations` | LightRAG's shared `pipeline_status` and the requests that reserve, hand over and release the pipeline |
| `MCPipelineReservations` | values for TLC |
| `PipelineReservationsProofs` | the theorems about `PipelineReservations` |
| `KeyedLocks` | LightRAG's keyed locks between worker processes |
| `MCKeyedLocks` | values for TLC |
| `KeyedLocksProofs` | the theorems about `KeyedLocks` |
| `GlobalSlots` | the lease table of a concurrency group: acquire, release, renew, reap |
| `CallQueue` | LightRAG's queue in front of a model, its workers, slot pump, health check and shutdown, over `GlobalSlots` |
| `MCCallQueue` | values for TLC |
| `CallQueueProofs` | the theorems about `CallQueue`, with lemmas about the physical queue and the lease table |

### AgentLoop

Everything runs on one event loop, so an action is what a task does between two
suspension points. A dispatch task is named after its message.

| State | Code |
|---|---|
| `inbound` | `MessageBus.inbound` (unbounded) |
| `loop` | the command `run()` executes inline, if any |
| `ready`, `active`, `cancelled` | tasks not started yet, `_active_tasks`, tasks with a pending `cancel()` |
| `phase` | where a task stands: created, waiting for lock or gate, in its turn, on its way to the put of a continuation, blocked in that put, closing, waiting in /new |
| `owner`, `waiters`, `gateQ`, `permits` | `asyncio.Lock` per session, the semaphore |
| `registered`, `queue` | `_pending_queues`, and the queue each turn created |
| `injected`, `cycles` | what the runner took from the queue, `_MAX_INJECTION_CYCLES` |
| `untimed` | turns whose model calls have no wall-clock timeout (`runner_wall_llm_timeout_s`) |
| `deferred`, `waiter` | coordinator: deferred turns, futures |
| `goal`, `rounds`, `mayGoal`, `cont` | sustained goal of a session and its rounds |
| `outcome` | history: what became of each message |

`Publish`, `Submit`, `CallDirect` bring messages; `RunPriority`, `RunDefer`,
`RunInline`, `RunInject`, `RunSpawn` are the branches of `run`, `RunReply` its
return from an inline command; `StartTask`, `GrantLock`, `GrantGate` are
`async with lock, gate`; `Inject`, `StartGoal`, `EndGoal`, `Answer`, `Exhaust`, `Yield`,
`ContinueGoal`, `BlockOnPut` are what a turn does, `NewCommand` and `FinishNew`
are /new in a task of its own, or in a direct call that spells it; `Finish`, `Fail`, `CancelTurn` are the three ways
through `_dispatch`'s handlers, each with its whole `finally`;
`CancelUnstarted`, `CancelAtLock`, `CancelAtGate` the ways out before the turn.

Messages are members of a small set; a text is only the command it spells. An
error of the model, a tool or a channel is `Fail`. A runner that waits for
subagents in a drain is an `Inject` that has not happened yet.

When the iteration budget is used up the runner drains once more and then still
awaits: hooks, and a last model call, which the slice that created its goal makes too
because `finalize_on_max_iterations` is decided when the turn starts (`agent/loop.py:949`).
Only then `maybe_continue_turn` puts the continuation on the turn's queue. So `Yield` (the
drain) and `ContinueGoal` or `BlockOnPut` (the put) are separate steps, and follow-ups
that arrive between them may fill the queue with injection cycles left. A put that finds room
does not suspend, and neither does what follows it up to the `finally`: `ContinueGoal` is
both. A save that fails after the put is left out.

### SessionService

Six operations over a status per message: accept, serve, fold into the running
turn, settle a turn with everything folded into it, requeue a continuation (its
slice ends, what was folded into it is served), withdraw. It says that one turn of a session runs at a time and at most `Slots`
dispatched ones, that only waiting non-automations of the same session are
folded, that a message is finished once, with its turn, and that only a /stop
or /new *of the same session* takes a message away. `AgentLoop` implements it
under the mapping in `AgentLoop!Service`.

### CronService

| State | Code |
|---|---|
| `mem`, `disk`, `log` | `_store`, `jobs.json`, `action.jsonl` |
| `timer`, `cur`, `batch` | `_timer_task`, the job it executes, the due jobs left |
| `unwinding` | a cancelled timer task that has not had its `CancelledError` |
| `up`, `running` | the gateway, "ending" between `stop()` and its exit; `_running` |
| `system` | the jobs the gateway registers for itself (dream, heartbeat) |
| `manual`, `was` | where `run_job` stands with a job, "stale" once a reload replaced the object it holds; its `was_running` |
| `runs`, `cut`, `byHand`, `failed` | history: turns of one-time jobs, executions cancelled and jobs edited, in a shutdown, while they waited in the batch, one-time jobs run by hand, jobs whose last change a failed write lost or left in memory |

A moment is "ahead" or has come; `Elapse(j)` makes it come in every copy, in
memory, on disk and in the log. `Fire` is `_on_timer` up to its first await,
`TurnEnds` one job's end with the start of the next or the save and re-arming.
Each edit loads the store (or keeps it, while the timer executes), changes it,
saves it and arms the timer, which cancels a timer task in execution: `Unwind`
is that task leaving. The new task is created after the cancellation is queued,
so `Fire` waits for `Unwind`. `AskRun` and `RunJob` are two steps because the
WebUI makes a task; asyncio starts it soon, the model at any time. `AppendAdd`
and `AppendDel` are other processes.

`Start` registers the gateway's own jobs and starts the service. `Stop` is
`stop()`; until the gateway exits (`Crash`, which is also a kill) channels and turns still call the
service, whose edits then go to the log (`Note`), and a `run_job` in progress puts
back the `running` it found. One write may fail: the save of an edit, of a
batch or of `run_job` (`SaveFails`), which leaves the change in memory until the
next load, or the save inside a merge, whose lines have left the log by then
(`LoadFails`; a crash between the two writes is that and then `Crash`). An exception
out of the timer task ends it: `timer` is "dead" until an edit arms another.

### LocalTriggers

| State | Code |
|---|---|
| `trigger` | `triggers.json`: not created, enabled, disabled, deleted |
| `inbox`, `processing`, `failed` | the directories: which delivery files, and the attempts written in each |
| `pc`, `batch` | where `run_local_trigger_queue` stands and the claimed deliveries it holds |
| `audit` | `runs/`: the status in a delivery's run record |
| `turns`, `ended`, `unsettled`, `unrecorded` | history: turns submitted, turns that ended, those a fault kept from being unlinked, deliveries whose latest run record could not be written |

The delivery task awaits in two places, the poll interval and the turn, and
only there do the WebUI's `Enable` and `Delete` or a `Shutdown` come in;
`Enqueue` (`nanobot trigger`) is another process and comes between any two
uses of the file lock. `Start` is the recovery, `Claim` the renaming of a batch,
`Submit` and `Drop` the two ways through `_deliver_delivery`, `Settle` what
follows a turn that ended, `Fails` the `except Exception` clause. What is several
file operations under the lock is one action and, beside it, the crash in the
middle: `CrashInStart` and `CrashInRetry` leave a file in two directories,
`CrashInClaim` renames a part of the batch, `CrashInDelete` has saved the
trigger away and cleaned some directories, `CrashInEnqueue` leaves a file without a
record, `CrashBeforeUnlink` a final record beside the file. A run record that cannot
be written after the turn, or for a dropped or failed delivery, is only logged
(`_write_delivery_run_record`): the file goes its way and the record keeps its earlier status, which
`Noted`, `Fails` and `Shutdown` allow at the price of a fault. An exception in a handler ends the
task and with it the gateway, which is `Crash`. Names are numbers, so a message
enqueued later may sort first, as two of one millisecond do.

`DeliveryQueue` is what this promises without files and process: a message is
accepted, waits, is served (one at a time, only if its trigger is on, and only
if it was put back after each turn it had), put back, at the limit for good,
and settled by a turn that ended or a trigger that is off. `LocalTriggers!Queue`
maps a delivery to where its file is, an older copy in `processing/` aside, and to
the attempts written in it; the messages of a deleted trigger are void.

### SessionHistory

| State | Code |
|---|---|
| `file` | `sessions/<key>.jsonl`: messages, `last_consolidated` (`mark`), and of the metadata the checkpoint and the pending flag |
| `heap`, `cache` | `Session` objects and the one `SessionManager._cache` holds |
| `pc`, `sess`, `iter`, `produced` | the turn in progress, the object it holds, its tool iteration and its rows so far |
| `dispatched` | whether `_pending_queues` knows the turn; a direct call registers none |
| `lockQ`, `work` | the lock of the consolidator, holder first, and what the holder will write back after its summary |
| `snapshot`, `archived` | rows a /new left to a background task; rows in `history.jsonl` |
| `known`, `lost`, `newAt`, `raced` | history, for the properties |

Two tasks may hold different objects of one session: an idle compaction
reloads the file, a /new drops the object from the cache, a restart loads
another. So a save is not enough to be remembered, and every save names its
object. `Begin` is RESTORE up to the lock of BUILD, `Persist` the early saving
of the user's message, `CallTools`, `ToolsDone` and `Answer` the checkpoints of
the runner, `SaveTurn` is SAVE; `Fail`, `Stop` and `Crash` leave a turn where it
stands. `Consolidate`, `EndRound`, `Compact` and `EndCompact` are the two
critical sections before and after the model's summary. A row is named after its
turn and its role, which is what the restoration compares by content; one tool
call per iteration. Whether a prompt is too long is any outcome. Saving is
atomic in the code (temporary file and rename), so a crash falls between steps.
Two things are simplified. `Command` is one step, although the
handler of a command may suspend between the restoration and the saving of its two rows
(`agent/loop.py:1561`). And a consolidation ends at a message of the user: the boundary of the
replay window (`agent/memory.py:829-838`) is one too when the rows not yet consolidated
have one to extend to, and where they have none, or begin with rows that are not legal, it may be
another row, or the end, which `Boundaries` leaves out.

### PipelineReservations

| State | Code |
|---|---|
| `ps` | the shared dictionary `pipeline_status`; an owner record is `busyOwner` with `busyKind`, and `joinable` is what `adelete_by_doc_id` reads in `job_name` |
| `docs` | `doc_status`, for the document each task may enqueue |
| `kind`, `pc`, `todo` | what a task is, where it stands, the documents its processing run fetched |
| `dead` | processes that were killed; `ps` survives them |
| `torn` | history: tasks killed in the middle of a change that cannot be re-run |

Every critical section under `pipeline_status_lock` is an action; an acquisition
reconciles, decides and reserves in one. A task is also the token of its
reservation. `Begin(t)` is its request, `Continue(t)` everything it then does by
itself, `Interrupt(t)` an exception or cancellation between two sections, which
goes to the `finally` that covers the place (`Cleanup`). The hand-over from an
endpoint to its background task (`start_reserved_background_task`) is no step: both are one
task, whose interruption before its work starts runs the one release. That the endpoint's backstop
may release once more after the child did, which its look at the owner makes
harmless, is not checked. Releases run to completion in the code, so they cannot be
interrupted, but their worker can be killed. A batch settles every document in
one step. A deletion that joined a batch holds no slot, an insert through the
SDK no enqueue token. A scan's second processing call is left out: it is the
first one again, without a reservation in between.

### KeyedLocks

| State | Code |
|---|---|
| `alive`, `start` | process ids in use, and the start time `/proc` gives for each |
| `holders` | `_keyed_lock_holders`: per key the record that is the lock |
| `shared` | `_lock_registry_count`, with `_lock_registry` |
| `local`, `made`, `gate` | `KeyedUnifiedLock` of each process: `_async_lock_count`, which `asyncio.Lock` of a key is in `_async_lock`, and who holds and awaits each of them |
| `asked`, `entered` | the entries of `_KeyedLockContext._ul`, and their `entered` flags, as places of the caller's list |
| `seen` | the copy of a record that `acquire` probes |

A step is one section under `_registry_guard`, or what a task does between two
of them. From the gate on, `acquire` awaits nothing but its back-off, so a task
in a `Sync` phase keeps its event loop (`LoopFree`), while other processes step
in between: `Claim` writes the record and asks for the next key, `FindHeld`
copies a record, `Probe` asks the operating system, `Reclaim` looks again and
pops, `Wake` is the end of the back-off. `Cancel` can only come at a gate or in the
back-off; `Undo` is one entry of the rollback, `Exit` and `Release` are
`__aexit__` up to its release task and that task, one entry per step.
`GiveBack` is what both do with an entry; the record and the two counts are
three sections in the code and one step here, since nothing reads a count
together with a record. Cleanup may drop any gates and counts that are unused, at any
release, which is every outcome of its thresholds and clocks. `Kill` forgets what the
process had and keeps what it shared; `Restart` gives the same id to a new process.
A task cancelled in its rollback may go on before the rollback is over; its
next use of locks would be a task of its own here. Sections under the guard
are atomic: a worker killed inside one leaves the guard itself locked, a lock of
the manager that nobody reclaims.

### GlobalSlots and CallQueue

| State | Code |
|---|---|
| `table` | the `leases` of the group's gate state: who holds a lease and how old its heartbeat is |
| `limited` | `use_global_limit` |
| `phase`, `future`, `task` | where `wait_func` or `_limited_wait` stands with a call, its future, its entry in `task_states` with `worker_started` |
| `queue`, `unfinished`, `drained` | the physical queue in heap order, its count of unfinished tasks, a woken `join()` |
| `liveQueued` | `live_queued` |
| `stage`, `lease` | a dispatched call in `dispatch_queue`, in a worker's hands, or giving its lease back |
| `pump`, `pumpLease` | where `slot_pump` stands, and the lease it was granted |
| `held`, `pending` | `held_leases`, `pending_release` |
| `shut`, `healthy` | where `shutdown` stands; the health check task exists |
| `orphans`, `stalled` | history: leases whose acquisition or last release was cut off; heartbeats may have come late |

`GlobalSlots` has no behaviour of its own: each operator is a critical section
under the group's keyed lock (`KeyedLocks`), one table to the next. A
heartbeat has four ages, since the reaper asks only whether it is older than
the TTL and whether the grace since it noticed is over. Records of waiting
processes decide how long a process sleeps before it asks again and nothing
else, so they are left out.

`CallQueue` is one process: the others take slots, return them, reap or die.
A step runs from one suspension to the next; `task_states_lock`,
`initialization_lock` and the condition's lock are never contended across a
suspension and vanish in the steps. `Call`, `PassDoor`, `LeaveDoor`, `Return`,
`Cancel`, `Timeout` and `CleanupEnds` are a caller in both modes; `Take` is a
worker of the default mode, `Ask`, `AskFails`, `Dispatch` and `ReturnUnused`
the pump, `PickUp`, `RunEnds` and `GiveBack` a worker of the limited mode
(`RunEnds` of both). `Maintain` is a pass of the health check in one step, with
the compaction of the queue; `AnswerStuck` is its stuck-task detection, which
leaves lease and worker where they are. `StopWorkers` cancels pump and workers
at once; those that were in a release park the lease, whether or not the table was
reached. `asyncio.wait_for` is Python 3.12's (the Dockerfile's version): no second
task between a caller and `put()`. Which dispatched call a worker takes is left
open. Workers and pump do not die by themselves.

## Runs

| Run | Shows |
|---|---|
| `agent_stop` | /new at every point where a task can wait, around a turn blocked on its own queue and two automations: no message lost or doubled, no queue outlives its turn, automations stand alone, are published and, unless cancelled, answered; the loop comes back |
| `agent_service` | goal, follow-up, direct call, second session and /stop: the dispatcher implements `SessionService`; permits, serial turns; the goal's rounds end and everything is finished, unless a turn that only a cancellation ends is in the way |
| `agent_goal_full` (violation) | a continuation put on a full pending queue waits for itself: `ContinuationIsQueued` fails |
| `cron_jobs` | no one-time job runs twice unless its execution was cut, it was run by hand or its save failed; memory and disk agree unless an execution was cut or a write failed; a job comes and goes with the edit that adds or removes it, across merges, reloads, shutdowns, restarts and failing writes for others; due jobs run |
| `cron_once` (violation) | an edit during a one-time job's turn cuts the execution and the turn is submitted again |
| `triggers_queue` | across crashes, shutdowns and failing file operations the files implement `DeliveryQueue`: no accepted message is lost, none is submitted unless it waits and was put back since its last turn, up to the limit; once a turn of it has ended, none is submitted again without a fault; a failed message does not come back; run records tell the outcome; every message is settled |
| `session_history` | over exceptions, stops, crashes, /new and background jobs: every saved tool call has a result, no row is there twice, no two user messages meet; with two races excused, nothing saved is forgotten and nothing returns after /new |
| `pipeline` | any two kinds of request, three tasks, two workers, one killed anywhere, an interruption and a forced reset: who thinks to hold the pipeline does, teardown and classification are alone, a torn change fences the workspace, the dead block nobody, an accepted document is processed or deleted without further help (an SDK insert beside a clear excepted), every reservation ends |
| `pipeline_handover` (violation) | after a custom insertion handed its slot over, a document uploaded at the wrong moment waits for an unrelated request |
| `keyed_locks` | two workers, two keys in either order, cancellations, a killed worker whose id is used again: one holder per key, no record left behind, one poller per worker, balanced counts, everybody gets in |
| `keyed_locks_loop` (violation) | a task that lists a key twice waits for itself, and everybody who wants the key behind it |
| `call_queue` | both modes, with calls that are given up or cancelled, storage faults, a stall, another process and a shutdown at any point: reservations, unfinished tasks and leases are settled once, the limit holds, every call ends, every slot comes back |

### Bounds

- Gate 1 where the code has 3, so that the gate is contended by two sessions.
- `PendingCap` 1 to 3 for 20: full, overflowing and draining queues occur with
  two or three messages. `MaxInject` 1 for 3, so that a drain leaves something.
- `agent_service` has no automation, and its follow-up never overflows the queue:
  `EventuallyFinished` says nothing of automations, for which `DeferredHasPublisher` and
  `AnsweredUnlessCut` stand. A follow-up that finds the queue full and becomes a task of its own
  takes a third message of the session and is in no passing run; the theorems cover it.
- `MaxCycles` 1 for 5: before and after the cycles are used up. `agent_stop`
  sets 0, the state after the last cycle: follow-ups stay in the queue, which
  is how a queue of one gets full under a continuing goal. It has /new only,
  which cancels in both ways, inline and as a task; with /stop beside it (1.9
  million states, five minutes) its invariants hold as well.
- `MaxRounds` 1 or 2 for 12. Each run has three to five messages, chosen by
  name in `MCAgentLoop`; two sessions wherever sessions interact.
- `cron_jobs`: three casts (`MCCasts`), a one-time job beside a recurring one that
  users edit, and a one-time job of either kind beside a recurring one of the gateway;
  four of edits, manual runs, appended lines, shutdowns
  and kills (`MaxOps`), since a cut needs an edit, a job needs another, and
  two are left to interfere; one failing write (`MaxFaults`); two lines of log (`MaxLog`). Reloads, elapsing
  time and timers are not bounded. `runs` stops counting at 2, "several". All three
  jobs at once, with three operations, keep the properties as well.
- `triggers_queue`: two messages for two triggers, so that one waits in
  the batch behind the other and a deletion must spare the other trigger's
  files; three attempts for 10 (`MaxAttempts`) and three faults (`MaxFaults`), which
  is enough to reach the limit by any mix of them; two edits (`MaxEdits`), to
  disable and enable again.
- `session_history`: three turns of up to two iterations, so that a restored
  turn stands between two others; two faults, so that a restoration is itself
  interrupted; `Keep` 2 for 8, so that a compaction drops and keeps something;
  one /new and one idle compaction, each beside every other step. Four objects
  are more than can be referred to at once. The run stops when its bounds are used up.
- `pipeline`: nineteen casts of three tasks in which any two of the eight kinds of request
  meet, and two of a kind, except a custom insertion and a reprocessing: that pair
  is `pipeline_handover`. The second task runs in a worker that may die, and every kind is
  that task in some cast; one interruption, failing write or cancellation and one forced
  reset. A task runs once. `AcceptedProcessed` excuses what follows a fault or a reset, a cast
  with a deletion of one document (`deleteOne`), and an SDK insert beside a clear (`Disturbed`; see
  below for the last two); every other two kinds also meet in a cast where it excuses nothing
  of the sort. All 288 casts of three tasks, with the same faults, keep the invariants
  and `DeadNeverBlocks`. Without faults, in all 120 choices of three kinds, `AcceptedProcessed` fails
  for no others than those just named: an insert beside a clear, an upload or
  insert beside a custom insertion and a reprocessing, a deletion of one document.
- `keyed_locks`: two workers of two tasks, two keys, listed in both orders and
  alone, so that tasks meet at a gate, at a record and in opposite orders; each asks once,
  one worker dies and returns. Three workers or two uses keep the invariants,
  in minutes. The run stops when everybody has had the keys.
- `call_queue`: one worker, one place in the queue, one slot of the group, so
  every resource is contended by two calls, the third of higher priority; one zombie per
  drain (16 in the code) and a compaction as soon as there is one (64): both limits
  are crossed. Either three calls alone, or two with one fault (a failed
  release, a cut acquisition, a stall) and one slot taken by another process
  (`MCBounds`). Three leases: held, parked, orphaned. Acquiring draws an identifier
  that nobody knows (`Unknown`), which a small set may run out of; here it never does
  when somebody asks, and a fourth lease adds no state.
- `TypeOK` of every module was checked while the module was written and is what
  its proof starts from; no run repeats it.
- Deadlock is not checked for `AgentLoop`: when every message is finished, or the outside world
  is silent, it waits.

### Fairness

`AgentLoop` is weakly fair for the loop, for starting and granting, for the end
of a slice, of a turn, and for the delivery of cancellations: the event loop runs
what can run, the runner has an iteration budget and its model calls the wall-clock timeout
`NANOBOT_LLM_TIMEOUT_S`, asyncio's lock and semaphore are first come, first served; tools
and hooks are taken to return. A turn that works on a sustained goal when it starts has that timeout
disabled (`session/goal_state.py:114`, `agent/loop.py:939`): such a turn is in `untimed`, and nothing is assumed of it but
that a cancellation is delivered. `EventuallyFinished` therefore says that a message is finished
*unless* a turn of its session, or as many turns as the gate has permits, stay for ever in that state or
blocked on their own queue (`Stuck`). What remains is that
nothing else keeps a message from its end: no lost wake-up of lock or gate, no endless
rounds of a goal, no queue left unpublished, and /stop and /status always go through. Arrivals,
failures, goals and direct callers' cancellations are not fair. In
`CronService` the timer, the turns it awaits and `run_job` are fair; callers,
time, start, stop and crash are not. A turn that does not end (`agent_goal_full`) is
outside what `DueJobsRun` promises, and so is a timer task ended by a failed write
(`cron/service.py:578`), which nothing but the next edit replaces. In `LocalTriggers` only the task's own steps
are fair, the start of a gateway included. That a submitted turn returns is not
assumed, because the dispatcher may not answer a cancelled automation
(`AnsweredUnlessCut`):
`EventuallySettled` promises something only if `TurnsReturn`, and if the
gateway does not stay down. In `PipelineReservations` a task that has started
goes on (`Continue`), since it is a coroutine whose awaits end; requests, faults,
deaths and resets are not fair. `SessionHistory` states no liveness.
In `KeyedLocks` a process that lives runs the task it is running (weak fairness),
and a task that can go on is resumed although other tasks of its process run in
between (strong fairness: the ready queue of the event loop is first come, first
served, but "the loop is free" is not continuously true). Bodies end. Polling has
no order between processes, so a worker could lose every race for a key that is
always in use: `EveryoneEnters` holds because each task asks finitely often.
In `CallQueue` callers, workers, pump and health check are tasks of one event
loop, which runs what can run; a call to the model ends because
`max_execution_timeout` bounds it, a `join()` because it has a timeout. The
other processes return their slots and reap, and a lease nobody renews ages. Calls,
timeouts, cancellations, faults, deaths and the shutdown are not fair. A process
asks for a slot again and again, so it needs only that a slot is free when it
asks: the others take finitely many.

## What is proved

In `AgentLoopProofs`, for every set of messages and sessions and all capacities, from `ConstantsAssumption` alone:

| Theorem | Property |
|---|---|
| `TypeCorrect` | `Spec => []TypeOK` |
| `Serial` | `Spec => []SerialTurns` |
| `Ownership` | `Spec => []QueueOwnership` |
| `StandsAlone` | `Spec => []AutomationStandsAlone` |
| `PermitsBalance` | `Spec => []GateAccounting` |
| `NothingLost` | `Spec => []Conservation` |
| `FinishedOnce` | a message that is finished stays as it was finished |
| `DeferredWatched`, `SubmittersAnswered` | `Spec => []DeferredHasPublisher`, `Spec => []AnsweredUnlessCut`, if no automation spells a priority command |
| `DispatcherImplementsService` | `Spec => ImplementsService` |

In `PipelineReservationsProofs`, for every set of tasks and workers, every cast
and all bounds:

| Theorem | Property |
|---|---|
| `TypeCorrect` | `Spec => []TypeOK` |
| `HoldersOwn` | `Spec => []HolderOwns` |
| `NoOrphanFlags` | `Spec => []FlagsHaveOwner` |
| `TeardownIsAlone`, `ScansClassifyAlone` | `Spec => []TeardownAlone`, `Spec => []ClassifiesAlone` |
| `TornFences` | `Spec => []TornIsFenced` |
| `RefusedByTheLiving` | `Spec => DeadNeverBlocks` |

In `KeyedLocksProofs`, for every number of processes, tasks, keys, uses and
deaths and every list of keys, repeated ones included:

| Theorem | Property |
|---|---|
| `Exclusion` | `Spec => []MutualExclusion` |
| `NothingLeftBehind` | `Spec => []NoOrphan` |
| `OneTaskPastGate` | `Spec => []OnePoller` |
| `CountsBalance` | `Spec => []BooksBalance` |
| `LocksTypeCorrect` | `Spec => []TypeOK` |

In `LocalTriggersProofs`, for every number of triggers and messages and all
limits:

| Theorem | Property |
|---|---|
| `TriggersTypeCorrect` | `Spec => []TypeOK` |
| `AttemptLimitHolds` | `Spec => []AttemptsCoverTurns` |
| `NothingLeavesUnrecorded` | `Spec => []SettledIsRecorded` |
| `RepeatsHaveCause` | `Spec => NoNeedlessRepeat` |
| `FilesImplementQueue` | `Spec => ImplementsQueue` |

In `SessionHistoryProofs`, for every number of turns, iterations, faults, /new
and compactions, every `Keep` of two or more (8 in the code), and any set of objects that always has
one more to give:

| Theorem | Property |
|---|---|
| `HistoryTypeCorrect` | `Spec => []TypeOK` |
| `NoRowTwice` | `Spec => []NeverTwice` |
| `ToolCallsAnswered`, `HistoryIsLegal` | `Spec => []CallsAnswered`, `Spec => []LegalHistory` |
| `NothingForgotten` | `Spec => []Remembered` |
| `OldRowsStayAway` | `Spec => []NewIsFresh` |

In `CronServiceProofs`, for every set of jobs of either kind, every cast, every
number of processes' lines, edits and faults:

| Theorem | Property |
|---|---|
| `LastLineDecides` | what a loader reads of a job is what the last line about it says, or `jobs.json` without one |
| `CronTypes` | `Spec => []TypeOK` |
| `CronJobsComeAndGo` | `Spec => JobsComeAndGo` |
| `CronRunsOnce` | `Spec => []OnceUnlessCut` |
| `CronSavedWhenQuiet` | `Spec => []SavedWhenQuiet` |

In `CallQueueProofs`, for every number of calls, workers, processes, leases and
faults, every priority, capacity, limit and drain limit, and in both modes:

| Theorem | Property |
|---|---|
| `QueueTypeCorrect` | `Spec => []TypeOK` |
| `CountsAreExact` | `Spec => []CountsExact` |
| `LeasesAreAccounted` | `Spec => []LeasesAccounted` |

The first four about the dispatcher follow from one inductive invariant, `IInv == TypeOK /\ Placed`, proved
action by action in `Invariance`. None of them is inductive alone. Serial
turns follow from `LockHeld` (a task past the lock owns it), but to know that a
task granted a lock is not already elsewhere one must know where every message
is: `BusQueue`, `TaskQueues`, `PendingQueues`, `DeferredQueues` say that the
queues are duplicate-free and disjoint and agree with `phase`, `FoldedFollowUps`
and `NothingUnsentMoves` the same of injected and unsent messages, and
`DirectCalls` that direct calls never enter the dispatcher's queues.
`QueueLemmas` proves once what `Head`, `Tail`, `Append`, `\o`, `SubSeq` and
`RemoveAt` do to such queues.

The others need `DInv` on top of it. `IInv` keeps the bus, the queues and the
tasks apart; `Located` adds that a follow-up the runner took in and a command
that `run` executes inline are in none of them (`FoldedApart`, `InlineApart`), and that
a message is open exactly while it is somewhere (`Found`). `Conservation` counts
the places this leaves: at most one. `Permits` is `GateAccounting` with the
finiteness that arithmetic of cardinalities needs; it asks that a /new, which
ends its turn in another way, never enters the runner (`Resetting`), and that
direct calls, which hold no permit, are not tasks (`DirectApart`). `Answering` and `Watched` say of
the coordinators that a submitter who waits has an open or cancelled turn, and that deferred
turns have a turn, or an automation on its way to one, before them. Both exclude automations
that spell a priority command, because the code loses their submitters (see
below); this is a condition on what users schedule, and the theorems carry it as
a hypothesis.

`DispatcherImplementsService` maps every message to its status (`Standing`) and
every step to a step of `SessionService`:

| Step | Operation |
|---|---|
| `Publish`, `Submit`, a direct call that must wait for its lock | `Accept` |
| lock and gate are granted, by whichever step grants the last; a direct call that gets its lock at once | `Serve` |
| `Inject`, `Exhaust`, `Yield`, with something to drain | `Fold` |
| `Finish`, `Fail`, `CancelTurn`, the end of a /new | `Settle`, with all that was folded in |
| `ContinueGoal` | `Requeue`: the turn is over, what it took in is served, and its continuation waits |
| `RunReply` after an inline command | `Withdraw` as served, with what the command dropped |
| `CancelUnstarted`, `CancelAtLock`, `CancelAtGate`, `CancelDirect` | `Withdraw` as cancelled or failed |
| everything else | a stutter |

The service withdraws a message only for a /stop or /new of its session, hence `Caused`: what is cancelled was
cancelled by a command of that session that has been sent.

The seven about the pipeline follow from `IInv == TypeOK /\ Fits(ps)`. `Fits` says of
the status how its flags and owners fit together (`FlagsFit`), that a torn change
is fenced or still held by its dead owner under a kind that will fence it
(`TornFits`), and what each task may rely on in its phase (`TaskFits`): a
living task in a holder's phase owns the slot, one that tears down met no token, an
uploader has its token until it leaves. It is stated for a status `p` and not
for `ps`, because every acquisition first computes `Reconcile(ps)` and decides on
that: `ReconcileFits` proves once that reconciling keeps `Fits` and leaves only
living owners, and every action is then a small step from there.

`MutualExclusion` follows from `Recorded` (while a task is in, its record stands) and
`RecordedOnce` (a record names one task and place). Keeping `Recorded` needs `Records`: every
record, and every copy a task probes, has a start time that is not later than
that of the process now behind its id. So what `Probe` found dead was written by a
predecessor or by nobody alive, and `Reclaim`, which takes away only the
very record it saw, takes it from no task that is in. `NoOrphan` is the converse,
`Standing`: a record of a living process is that of a task that is in.
`OnePoller` and `BooksBalance` rest on `QInv`: the tickets in a gate are exactly those of the
tasks waiting at it or past it (`Gates`), whoever is past is at the head (`Heads`),
and a count is the number of entries (`Books`), or more once a process was killed.
A gate is dropped only when its count says that nobody has an entry, so no ticket
is left behind in the old one.

`LocalTriggersProofs` follows a delivery through files. `Fits` relates its copies: a second
one, left by a crash, is exactly one attempt behind, so
whichever copy recovery keeps counts every turn the message has had. `Outcome` relates files
and records. For `FilesImplementQueue`, `Create`, `Enable` and `Enqueue` are their counterparts,
`Submit` serves, `Settle` and `Drop` settle, `Retry` (in `Fails`, `Shutdown`, the recovery and each of their crashes) puts
back or gives up, a deletion voids the messages, and claims and sleep are stutters.

`SessionHistoryProofs` has two invariants. `Base` holds whatever races. Its `Stored` says that the file
and every object, stale ones too, contain legal rows and a checkpoint that is apart from
them: a restoration therefore finds no overlap (`OverlapNone`) and appends all of
it, and nothing is doubled. What a turn has produced (`Produced`) can follow its
message, because all it adds is of the turn's own number. What is hard is a compaction: it keeps
a suffix, and if that began with a result, the call before it would be gone. `Suffix` begins at
a user's message or, if it finds none, at any row but a result; `SuffixFacts` and `SuffixIsWhole`
show that it drops and keeps what it should, that a suffix is its own
suffix, and `Sure` that a session whose offset is at such a boundary still is one after it grew. This
must be true of whichever object the compaction will read once it has the lock,
hence `Handover`, which speaks of the cached object, of that of the turn before it in
the queue, and of the rounds of a consolidation; and hence `Lock`, which says
who can be in that queue, and `Agree`, that the cached object is what the file says.

`Unraced == ~raced => Calm` is inductive on top of `Base`. `Calm` says that a turn writes to the object
in the cache and no compaction waits beside it, that a job
works on that object, and that what it has sent to the model covers what it
will move the offset over, or not keep. From this every step accounts for the rows it
takes out of the session (`Covered`). A message of the user that stands last is
flagged or has a checkpoint behind it (`Lasts`), so the next turn closes it before
it adds its own; after a /new only rows of later turns are in file and checkpoint (`Fresh`).
The maxima and minima in `Overlap` and `Suffix` are dealt with by
`LeastNatural`, from the well-founded order of the naturals.

The invariant of `CallQueueProofs` is `QInv`. `Positions` says that a call is in the physical
queue once, in a worker's hands, or in neither, and that what a worker
has gave its reservation back: without it taking an item out of
the queue would not be one less. `Counts` and `Closing` are inductive with it: whoever finds an
entry `"waiting"` gives back one reservation, so each of
admission, pump, compaction and leaving caller moves `live_queued` with the set it
counts. A forced shutdown drops the entries and keeps the number, after which it is only not
too small. `Hands` says which lease is in whose hands and that the parked ones are
in nobody's, `Slots` what the table says of them: what is held or just granted
is there with a fresh heartbeat unless the process stalled, so neither a reaper
nor the maintenance, which releases what is parked, takes a slot in use; and what is there under this process is
`Known`. The limit (`Within`) is a lemma about `Acquire` on top of facts about
each critical section of `GlobalSlots`. Neither `Calls` nor `Leases` need be finite: the calls made so
far (`Made`), the parked leases and the taken entries are. The physical queue is cut
with `Pick`, whose facts (`PickFacts`, `InsertFacts`) say which elements stay and that their
number is that of the places.

`CronServiceProofs` begins with the merge. A loader folds `action.jsonl` into the
store; `LastLineDecides` replaces the fold by one look at the last line about a job. The
library's induction theorems cannot be instantiated (they take an operator), so
the recursive function behind the fold is unfolded, and `Closed` shows with
`LeastNatural` that it is the function it should be: of the sets of lines on which they differ one
would have the least bound, and its last line could be taken off. After that everything
is about one job: what memory, `jobs.json` and its lines say of it. `Effects` gives each step one
of two forms: it *handles* the job, which then stays as it is, is reloaded, merged,
flushed or lost to a failed write (`Handled`), or it is one of the few that are about this job. On the
types (`Base`) rest three inductive invariants:

- `Kept`: memory and file have the same jobs, but for one whose only run memory
  has recorded (`AgreeAt`); the gateway's own jobs are there and no line is about
  them (`OwnAt`). Without it a save of memory could drop a job of the file.
- `Once`: a one-time job that was submitted, or waits in the batch to be, is due
  in no copy a timer can get at (`HasRunOnce`): memory until its turn is over,
  the file until the batch is saved, no line ever. `runs[k] <= 1` alone says nothing of
  the copies that a reload would bring back.
- `Saved`: memory and file agree on a job, or the file still has it due
  and memory has what executing it makes of that (`Unsaved`).

Only model-checked: liveness (`EventuallyFinished`, `LoopReturns`, `DueJobsRun`, `EventuallySettled`,
`AcceptedProcessed`, `SlotsFreed`, `EveryoneEnters`, `EveryCallEnds`,
`SlotsComeBack`) is outside what the prover handles.

## Disagreements met

`PROJECT.json` lists four, each with a run that reproduces it:
a goal continuation that waits on its own full queue
(`session/turn_continuation.py:129`), jobs submitted again
because arming the timer cancels the task that executes them
(`cron/service.py:538`), a document stranded by a hand-over of the pipeline
that ends without a look at new requests (`pipeline.py:1130`), and a request
for one key listed twice, such as a relation from an entity to itself, that waits
for its own gate (`kg/shared_storage.py:1121`).

Others were met and have no run of their own:

- An automation cancelled before it has the lock and the gate leaves through the
  outer `finally` (`agent/loop.py:1229`) or through no code at all, and
  `coordinator.complete` is never called: `submit`, which
  `agent/automation_turns.py:62` says waits for the session's response, waits forever, and
  for a local trigger the delivery loop with it. `AnsweredUnlessCut` without
  `"cancelled"` fails. If its task had not started, the next deferred automation
  is not published either, which `DeferredHasPublisher` excuses.
- An automation whose text is a priority command takes the command's path
  (`agent/loop.py:1009`) and its submitter is never answered.
- A trigger message claimed and interrupted ten times is failed although no turn
  has seen it, where `triggers/local_store.py:352` promises a requeue.
- /stop and a crash keep the checkpoint of one iteration only. What earlier
  iterations of the turn produced is in no file until the turn is saved, so it is
  lost, where the comment at `agent/loop.py:1156` and
  `tests/agent/test_stop_preserves_context.py:3` speak of the tool results and
  assistant messages "accumulated so far". In `SessionHistory`, the property
  `[][Stop => ToSet(produced) \subseteq ToSet(file'.rows)]_vars` fails in
  the second iteration, and for an answer that has no checkpoint.
- /new during an idle compaction is undone: `agent/memory.py:1154` writes back the
  rows kept when it began. /new during a consolidation leaves an offset beyond
  the rows, behind which new rows are hidden until the session is reloaded. `raced`
  in `SessionHistory` marks exactly these and a turn beside an idle
  compaction; without it `NewIsFresh` and `Remembered` fail.
- Deleting one document through the SDK releases the pipeline without a look at
  `request_pending` (`lightrag.py:5268`): an upload accepted meanwhile is
  stranded. `AcceptedProcessed` fails with `upload` and `deleteOne` in one cast,
  which is why a cast with `deleteOne` counts as `Disturbed`.
- A clear forgets an SDK insert, without any fault. `ainsert` passes the guard of the
  enqueue and takes no token, so `_acquire_destructive_busy` does not see it; the
  clear takes the slot, resets `request_pending` (`document_routes.py:3528-3538`) and drops the storages;
  then the insert writes its row, finds the pipeline busy, asks for a run by `request_pending` and
  returns; `_clear_release` (`document_routes.py:3685-3705`) frees the slot without a look at it. The document
  stays pending until an unrelated request. A batch deletion, whose release looks, has no
  such gap, and an upload, which has a token, never meets a clear. `AcceptedProcessed` without
  the last disjunct of `Disturbed` fails in `<<"upload", "clear", "insert">>`.
- A shutdown of the model call queue in the default mode strands callers that wait
  for room. The forced drain (`utils.py:1885`) wakes one blocked `put()` per item it
  takes out; the others wait for good, as does a caller whose `put()` succeeds after
  `join()` has returned. Their futures are cancelled and they never look at
  them, where `llm_roles.py:405` says of this shutdown that it cancels pending futures.
  Five callers on a queue of one place, shut down with a timeout, leave two behind.
  `EveryCallEnds` fails without its second disjunct; the limited mode, whose
  condition is notified by the shutdown, has no such excuse and needs none.
- `run_job` puts back `running` as it found it (`cron/service.py:853`): a `stop()` during
  its turn is undone and the timer armed again in a gateway that shuts down; and one that
  begins after `stop()` makes the service run, so an edit during its turn arms the timer. Its docstring
  (`cron/service.py:835`) says "without disturbing the service's running state". The
  invariant `up = "ending" => timer = "off"` fails.
- A merge empties `action.jsonl` before it saves (`cron/service.py:334`): a failed save or a
  crash in between loses what other processes were told was done, `failed` in
  `CronService`. Without that excuse `JobsComeAndGo` fails.

Writing
`SavedWhenQuiet` showed a rarer form of the cron one: a `run_job` refused because its
job ended in the meantime arms the timer without saving, so jobs of the batch
already executed are due again after the next reload; the property is therefore
stated for jobs whose execution was not cut. Proving `CronRunsOnce` showed another, beyond the
bounds of its run: `run_job` in a shutdown makes the service run again, an edit arms the timer, the timer
takes its batch, and the end of `run_job` stops the service. An edit of a job
that waits in that batch now goes to the log; the timer, whose list is fixed
(`cron/service.py:575`), executes the job, and the line brings the edited one
back at the next start, due again. Such a job counts as `cut`.

## Plan

1. Done: `AgentLoop` with `SessionService` and its proofs; `CronService`;
   `LocalTriggers` with `DeliveryQueue`; `PipelineReservations` and its proofs; `SessionHistory`;
   `KeyedLocks` and its proofs; `GlobalSlots` and `CallQueue`; the proofs of `LocalTriggers`,
   `SessionHistory`, `CallQueue` and `CronService`, and that
   `AgentLoop` and `LocalTriggers` implement their abstract specifications.
2. Every safety property of a passing run is proved. Liveness stays with TLC.

## Not modelled

Wording, streaming, providers, tools, adapters, storages and parsers; in
`CronService` the migration of old payloads, jobs bound to no session, run
history and records; unreadable delivery files and stores; the
cancellation of an automation's submitter at shutdown; LightRAG with one worker (its
keyed locks are then the gates alone), its unkeyed locks and update flags; waiting
records and published statistics of the slots, death and re-creation of the
call queue's own workers and its re-initialisation; follow-ups and
continuations in `SessionHistory`, whose turns are those of one message, its
file cap and the history cursor; the stages of a document batch; subagents' own
life cycle. `PROJECT.json` gives the reason per component and names the hazards
that no property covers yet.
