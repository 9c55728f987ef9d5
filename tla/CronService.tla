---------------------------- MODULE CronService ----------------------------
(***************************************************************************)
(* The scheduler of automations: CronService (cron/service.py) in a running *)
(* gateway, the jobs.json file it saves to, and the action.jsonl file other *)
(* processes append to.                                                     *)
(*                                                                          *)
(* Everything but the turn a job waits for is synchronous, so a step of the *)
(* model is what the timer task, a "run now" task or a caller of the public *)
(* API does between two awaits.  Time is what the code compares it for: the *)
(* moment of a schedule is ahead or has come.                               *)
(***************************************************************************)
EXTENDS Naturals, FiniteSets, SequencesExt

CONSTANTS
  Job,      \* job ids; an id is given to one job only (uuid4)
  None,     \* "no job"
  Kind,     \* [Job -> {"once", "keep", "every"}]: the schedule of a job
  Casts,    \* the jobs of a behaviour: those the gateway registers for itself,
            \* and the ids others are given
  MaxOps,   \* bound on edits, manual runs, shutdowns and crashes
  MaxFaults,\* bound on writes that fail
  MaxLog    \* bound on the lines of action.jsonl

\* "once": at a time, delete_after_run.  "keep": at a time, disabled after its
\* run.  "every": an interval or a cron expression.
Kinds == {"once", "keep", "every"}

ASSUME CronAssumption ==
  /\ None \notin Job
  /\ Kind \in [Job -> Kinds]
  /\ Casts \subseteq [own: SUBSET Job, users: SUBSET Job]
  /\ \A c \in Casts, j \in Job : j \in c.own => Kind[j] = "every" /\ j \notin c.users
  /\ MaxOps \in Nat /\ MaxFaults \in Nat
  /\ MaxLog \in Nat

VARIABLES
  up,        \* the gateway: "no", "yes", or "ending" from stop() to its exit
  running,   \* self._running
  system,    \* the jobs it registers (dream, heartbeat); never changes
  mem,       \* self._store: the jobs it holds, by id
  disk,      \* jobs.json
  log,       \* action.jsonl
  timer,     \* self._timer_task: "off", "asleep", "running", or
             \* "dead" when an exception ended it
  unwinding, \* a cancelled timer task has not seen its CancelledError yet
  cur,       \* the job whose turn the timer task awaits
  batch,     \* the due jobs it has still to execute
  manual,    \* per job: where run_job stands with it, and if the store holds it
  was,       \* was_running of a run_job in progress
  born,      \* ids in use or used before, or of no job of this behaviour
  ops,       \* edits, manual runs, shutdowns and crashes so far
  faults,    \* failed writes so far
  failed,    \* jobs whose last change a failed write lost or left in memory (history)
  runs,      \* turns of a one-time job since it was scheduled: 0, 1 or 2 (several)
  cut,       \* jobs whose execution by the timer was cancelled, or that were
             \* edited while they waited for it (history)
  byHand     \* one-time jobs run_job has executed (history)

storeVars == <<mem, disk, log>>
taskVars  == <<timer, unwinding, cur, batch>>
runVars   == <<manual, was>>
faultVars == <<faults, failed>>
history   == <<runs, cut, byHand>>
vars == <<up, running, system, storeVars, taskVars, runVars, born, ops, faultVars, history>>

\* on: enabled.  at: the moment of an "at" schedule.  next: next_run_at_ms.
Record == [on: BOOLEAN, at: {"ahead", "past"}, next: {"none", "ahead", "due"}]

Store == UNION {[js -> Record] : js \in SUBSET Job}
Line  == [op: {"add"}, job: Job, rec: Record] \cup [op: {"del"}, job: Job]

TypeOK ==
  /\ up \in {"no", "yes", "ending"}
  /\ running \in BOOLEAN
  /\ system \in {c.own : c \in Casts}
  /\ mem \in Store
  /\ disk \in Store
  /\ log \in Seq(Line)
  /\ timer \in {"off", "asleep", "running", "dead"}
  /\ unwinding \in BOOLEAN
  /\ cur \in Job \cup {None}
  /\ batch \subseteq Job
  /\ manual \in [Job -> {"no", "asked", "held", "stale"}]
  /\ was \in [Job -> BOOLEAN]
  /\ born \subseteq Job
  /\ ops \in 0..MaxOps
  /\ faults \in 0..MaxFaults
  /\ failed \subseteq Job
  /\ runs \in [Job -> 0..2]
  /\ cut \subseteq Job
  /\ byHand \subseteq Job

NoJobs == [j \in {} |-> 0]

Init ==
  /\ up = "no"
  /\ running = FALSE
  /\ \E c \in Casts : system = c.own /\ born = Job \ (c.own \cup c.users)
  /\ mem = NoJobs
  /\ disk = NoJobs
  /\ log = <<>>
  /\ timer = "off"
  /\ unwinding = FALSE
  /\ cur = None
  /\ batch = {}
  /\ manual = [j \in Job |-> "no"]
  /\ was = [j \in Job |-> FALSE]
  /\ ops = 0
  /\ faults = 0
  /\ failed = {}
  /\ runs = [j \in Job |-> 0]
  /\ cut = {}
  /\ byHand = {}

-----------------------------------------------------------------------------
(* Jobs and stores.                                                         *)

OneShot(j) == Kind[j] # "every"

Put(store, j, r) == [k \in DOMAIN store \cup {j} |-> IF k = j THEN r ELSE store[k]]
Drop(store, j)   == [k \in DOMAIN store \ {j} |-> store[k]]

\* _compute_next_run: an "at" time that has passed gives no next run.
NextRun(r) == IF r.on /\ r.at = "ahead" THEN "ahead" ELSE "none"
Schedule(r) == [r EXCEPT !.next = NextRun(r)]

IsDue(store, j) == j \in DOMAIN store /\ store[j].on /\ store[j].next = "due"
DueJobs(store)  == {j \in DOMAIN store : IsDue(store, j)}

\* _merge_action: the lines in order; a "del" of an unknown id is an error
\* that is logged and does not count as a change.
Apply(store, line) ==
  IF line.op = "add" THEN Put(store, line.job, line.rec) ELSE Drop(store, line.job)
MergedFrom(d)  == FoldLeft(Apply, d, log)
ChangesFrom(d) == \E i \in DOMAIN log :
  log[i].op = "add" \/ log[i].job \in DOMAIN FoldLeft(Apply, d, SubSeq(log, 1, i - 1))
Merged  == MergedFrom(disk)
Changes == ChangesFrom(disk)

\* _timer_active, set around the jobs a timer task executes.
TimerActive == timer = "running" \/ unwinding

\* _load_store: while the timer executes jobs the store in memory is kept.
Reloads == ~TimerActive
Loaded  == IF Reloads THEN Merged ELSE mem
\* A service that runs (r) empties the log and saves what it merged.
Merges(r)  == r /\ Reloads /\ Changes
LogLeft_Dropped(r) == <<>>  \* mutant
LogLeft(r) == IF Merges(r) THEN <<>> ELSE log
DiskAfter(r) == IF Merges(r) THEN Merged ELSE disk

\* A reload replaces every job object, the ones in execution included.
Detached == [j \in Job |-> IF Reloads /\ manual[j] = "held" THEN "stale" ELSE manual[j]]

Load(r) ==
  /\ mem' = Loaded
  /\ disk' = DiskAfter(r)
  /\ log' = LogLeft(r)
  /\ UNCHANGED faultVars

Fault == faults < MaxFaults /\ faults' = faults + 1

\* The log is emptied before the merged jobs are saved, so when that fails its
\* lines are lost; a crash between the two is this and then a crash.
LoadFails(r) ==
  /\ Merges(r) /\ Fault
  /\ mem' = Merged /\ disk' = disk /\ log' = <<>>
  /\ failed' = failed \cup {log[i].job : i \in DOMAIN log}

\* A load, after which the store becomes m and is saved (_save_store).
Save(r, m) == mem' = m /\ disk' = m /\ log' = LogLeft(r) /\ UNCHANGED faultVars

\* The same with a write that fails: m, with its change of the jobs js, stays
\* in memory until the next load.
SaveFails(r, m, js) ==
  /\ Fault
  /\ mem' = m /\ disk' = DiskAfter(r) /\ log' = LogLeft(r)
  /\ failed' = failed \cup js

\* _execute_job, once the turn is over: m with the outcome for job j.
Executed_NotDropped(m, j) == m  \* mutant
Executed(m, j) ==
  IF j \notin DOMAIN m THEN m
  ELSE CASE Kind[j] = "once"  -> Drop(m, j)
         [] Kind[j] = "keep"  -> Put(m, j, [m[j] EXCEPT !.on = FALSE, !.next = "none"])
         [] Kind[j] = "every" -> Put(m, j, [m[j] EXCEPT !.next = "ahead"])

\* The turn of a one-time job is submitted once more; nothing is said of others.
Count(j) == runs' = [runs EXCEPT ![j] = IF OneShot(j) /\ @ < 2 THEN @ + 1 ELSE @]

-----------------------------------------------------------------------------
(* The timer task.                                                          *)

\* The timer task is cancelled, asleep or executing.  Cut are the job in
\* execution, and those of its batch executed and unsaved.
CancelTimer ==
  /\ unwinding' = (unwinding \/ timer = "running")
  /\ cur' = None
  /\ batch' = {}
  /\ cut' = IF timer = "running" THEN cut \cup {cur} \cup (DueJobs(disk') \ DueJobs(mem'))
            ELSE cut

\* _arm_timer of a service that runs.
Arm == CancelTimer /\ timer' = "asleep"

\* The task ends and leaves the timer t.
EndTask(t) == timer' = t /\ cur' = None /\ batch' = {} /\ UNCHANGED runs

\* It goes on to the next due job and submits its turn, or it has none left.
NextDue(due) ==
  \E j \in due :
    /\ timer' = "running"
    /\ cur' = j
    /\ batch' = due \ {j}
    /\ Count(j)

\* _on_timer up to its first await.  A task cancelled earlier has unwound.
Fire ==
  /\ timer = "asleep" /\ ~unwinding
  /\ \/ ~running /\ EndTask("off") /\ UNCHANGED <<storeVars, manual, faultVars>>
     \/ /\ running /\ manual' = Detached
        /\ LET due == DueJobs(Merged) IN
           \/ due # {} /\ Load(TRUE) /\ NextDue(due)
           \/ due = {} /\ Save(TRUE, Merged) /\ EndTask("asleep")
           \/ (LoadFails(TRUE) \/ (due = {} /\ SaveFails(TRUE, Merged, {}))) /\ EndTask("dead")
  /\ UNCHANGED <<up, running, system, unwinding, was, born, ops, cut, byHand>>

\* The turn is over, answered, failed or skipped alike.  After the last one the
\* task saves and arms the next timer, if it gets that far.
TurnEnds ==
  /\ timer = "running"
  /\ LET m == Executed(mem, cur) IN
     \/ mem' = m /\ NextDue(batch) /\ UNCHANGED <<disk, faultVars>>
     \/ /\ batch = {} /\ mem' = m /\ disk' = m
        /\ EndTask(IF running THEN "asleep" ELSE "off") /\ UNCHANGED faultVars
     \/ /\ batch = {} /\ mem' = m /\ disk' = disk
        /\ Fault /\ failed' = failed \cup (DueJobs(disk) \ DueJobs(m))
        /\ EndTask("dead")
  /\ UNCHANGED <<up, running, system, log, unwinding, runVars, born, ops, cut, byHand>>

\* A cancelled task gets its CancelledError out of on_job, which it raises
\* on: nothing of the job is recorded, and only _timer_active is reset.
Unwind ==
  /\ unwinding
  /\ unwinding' = FALSE
  /\ UNCHANGED <<up, running, system, storeVars, timer, cur, batch, runVars, born, ops, faultVars,
                 history>>

-----------------------------------------------------------------------------
(* The public API, called by the cron tool and the WebUI in the gateway.    *)

Op == up # "no" /\ ops < MaxOps /\ ops' = ops + 1

\* A running service saves the store as m and arms the timer, unless a write
\* fails, which the caller is told.
Commit(j, m) ==
  /\ running /\ manual' = Detached
  /\ \/ Save(TRUE, m) /\ Arm
     \/ (LoadFails(TRUE) \/ SaveFails(TRUE, m, {j})) /\ UNCHANGED <<taskVars, cut>>

\* A service that was stopped appends to the log instead, as other processes do.
\* A job of the batch, if a manual run has brought a timer back, is executed
\* from it whatever it has become.
Note(line) ==
  /\ ~running /\ Len(log) < MaxLog
  /\ log' = Append(log, line)
  /\ cut' = cut \cup (batch \cap {line.job})
  /\ UNCHANGED <<disk, taskVars, faultVars>>
Update(j, r) == [op |-> "add", job |-> j, rec |-> r]
Delete(j)    == [op |-> "del", job |-> j]

\* The cron tool takes a time in the past as well.
Times(j) == IF OneShot(j) THEN {"ahead", "past"} ELSE {"ahead"}
NewRecords(j) == {Schedule([on |-> TRUE, at |-> a, next |-> "none"]) : a \in Times(j)}

AddJob(j) ==
  /\ Op
  /\ j \notin born \cup system
  /\ \E r \in NewRecords(j) :
       \/ Commit(j, Put(Loaded, j, r))
       \/ Note(Update(j, r)) /\ UNCHANGED <<mem, manual>>
  /\ born' = born \cup {j}
  /\ UNCHANGED <<up, running, system, was, runs, byHand>>

\* What a caller may change is a job in the store that is not protected.
Editable(j) == j \in DOMAIN Loaded \ system

Edited(j, m, line) == Commit(j, m) \/ (Note(line) /\ mem' = m /\ manual' = Detached)

RemoveJob_NotSaved(j) ==  \* mutant
  /\ Op
  /\ Editable(j) /\ running
  /\ mem' = Drop(Loaded, j) /\ disk' = Loaded /\ log' = LogLeft(TRUE)
  /\ manual' = Detached
  /\ Arm
  /\ UNCHANGED <<up, running, system, was, born, faultVars, runs, byHand>>
RemoveJob(j) ==
  /\ Op
  /\ Editable(j)
  /\ Edited(j, Drop(Loaded, j), Delete(j))
  /\ UNCHANGED <<up, running, system, was, born, runs, byHand>>

EnableJob(j) ==
  /\ Op
  /\ Editable(j)
  /\ \E on \in BOOLEAN : LET r == Schedule([Loaded[j] EXCEPT !.on = on]) IN
       Edited(j, Put(Loaded, j, r), Update(j, r))
  /\ UNCHANGED <<up, running, system, was, born, runs, byHand>>

\* update_job with a new time: what was run before was another schedule.
UpdateJob(j) ==
  /\ Op
  /\ Editable(j)
  /\ \E a \in Times(j) : LET r == Schedule([Loaded[j] EXCEPT !.at = a]) IN
       Edited(j, Put(Loaded, j, r), Update(j, r))
  /\ runs' = [runs EXCEPT ![j] = 0]
  /\ UNCHANGED <<up, running, system, was, born, byHand>>

\* list_jobs and get_job reload the store.
ListJobs ==
  /\ up # "no"
  /\ Load(running) \/ LoadFails(running)
  /\ manual' = Detached
  /\ UNCHANGED <<up, running, system, taskVars, was, born, ops, history>>

\* The WebUI looks at the job and makes a task for run_job.
AskRun(j) ==
  /\ Op
  /\ manual[j] = "no"
  /\ Editable(j) /\ Loaded[j].on
  /\ Load(running)
  /\ manual' = [Detached EXCEPT ![j] = "asked"]
  /\ UNCHANGED <<up, running, system, taskVars, was, born, history>>

\* run_job says that the service runs, whether it does or not, and loads the
\* store, with whatever has become of the job since.  Up to the turn it awaits.
RunJob(j) ==
  /\ manual[j] = "asked"
  /\ j \in DOMAIN Loaded /\ Loaded[j].on
  /\ Load(TRUE)
  /\ running' = TRUE
  /\ was' = [was EXCEPT ![j] = running]
  /\ manual' = [Detached EXCEPT ![j] = "held"]
  /\ byHand' = IF OneShot(j) THEN byHand \cup {j} ELSE byHand
  /\ Count(j)
  /\ UNCHANGED <<up, system, taskVars, born, ops, cut>>

\* In the end it says again what it found in the beginning, and if that was
\* that the service runs, it arms the timer.
Restore(j, r) ==
  /\ running' = r
  /\ was' = [was EXCEPT ![j] = FALSE]
  /\ IF r THEN Arm ELSE UNCHANGED <<taskVars, cut>>

\* run_job, once the turn is over: the job object may have left the store, but
\* deletion goes by id.
RunJobEnds(j) ==
  /\ manual[j] \in {"held", "stale"}
  /\ manual' = [manual EXCEPT ![j] = "no"]
  /\ LET m == IF manual[j] = "held" \/ Kind[j] = "once" THEN Executed(mem, j) ELSE mem IN
     \/ mem' = m /\ disk' = m /\ UNCHANGED faultVars
     \/ mem' = m /\ disk' = disk /\ Fault /\ failed' = failed \cup {j}
  /\ Restore(j, was[j])
  /\ UNCHANGED <<up, system, log, born, ops, runs, byHand>>

\* run_job on a disabled or unknown job, or when its load fails.
RunRefused(j) ==
  /\ manual[j] = "asked"
  /\ \/ ~(j \in DOMAIN Loaded /\ Loaded[j].on) /\ Load(TRUE)
     \/ LoadFails(TRUE)
  /\ manual' = [Detached EXCEPT ![j] = "no"]
  /\ Restore(j, running)
  /\ UNCHANGED <<up, system, born, ops, runs, byHand>>

-----------------------------------------------------------------------------
(* Other processes (nanobot agent): a service that is not running appends   *)
(* to action.jsonl, having read jobs.json and the lines before its own.     *)

AppendAdd(j) ==
  /\ ops < MaxOps /\ Len(log) < MaxLog
  /\ j \notin born \cup system
  /\ \E r \in NewRecords(j) : log' = Append(log, Update(j, r))
  /\ born' = born \cup {j}
  /\ ops' = ops + 1
  /\ UNCHANGED <<up, running, system, mem, disk, taskVars, runVars, faultVars, history>>

AppendDel(j) ==
  /\ ops < MaxOps /\ Len(log) < MaxLog
  /\ j \in DOMAIN Merged \ system
  /\ log' = Append(log, Delete(j))
  /\ ops' = ops + 1
  /\ UNCHANGED <<up, running, system, mem, disk, taskVars, runVars, born, faultVars, history>>

-----------------------------------------------------------------------------
(* Time, and the life of the gateway.                                       *)

\* The time of a schedule comes, in every copy of it.
Passed(j, r) == [r EXCEPT !.at   = IF OneShot(j) THEN "past" ELSE @,
                          !.next = IF @ = "ahead" THEN "due" ELSE @]
PassedIn(store, j) ==
  [k \in DOMAIN store |-> IF k = j THEN Passed(j, store[k]) ELSE store[k]]

Elapse(j) ==
  /\ mem' = PassedIn(mem, j)
  /\ disk' = PassedIn(disk, j)
  /\ log' = [i \in DOMAIN log |-> IF log[i].job = j /\ log[i].op = "add"
                                  THEN [log[i] EXCEPT !.rec = Passed(j, @)] ELSE log[i]]
  /\ storeVars' # storeVars
  /\ UNCHANGED <<up, running, system, taskVars, runVars, born, ops, faultVars, history>>

\* Before start the gateway registers its own jobs (register_system_job), which
\* saves what it merged from the log and leaves the log as it is.
Registered ==
  [j \in DOMAIN Merged \cup system |->
     IF j \in system THEN [on |-> TRUE, at |-> "ahead", next |-> "ahead"] ELSE Merged[j]]
Before == IF system = {} THEN disk ELSE Registered

Rescheduled(m) == [j \in DOMAIN m |-> IF m[j].on THEN Schedule(m[j]) ELSE m[j]]

\* start: what became due while the gateway was down is scheduled anew, which
\* for a time in the past means never.
Start_KeepsDue ==  \* mutant
  /\ up = "no"
  /\ up' = "yes" /\ running' = TRUE
  /\ mem' = Registered /\ disk' = Registered
  /\ log' = IF ChangesFrom(Before) THEN <<>> ELSE log
  /\ timer' = "asleep"
  /\ born' = born \cup system
  /\ UNCHANGED <<system, unwinding, cur, batch, runVars, ops, faultVars, history>>
Start ==
  /\ up = "no"
  /\ up' = "yes" /\ running' = TRUE
  /\ mem' = Rescheduled(Registered) /\ disk' = Rescheduled(Registered)
  /\ log' = IF ChangesFrom(Before) THEN <<>> ELSE log
  /\ timer' = "asleep"
  /\ born' = born \cup system
  /\ UNCHANGED <<system, unwinding, cur, batch, runVars, ops, faultVars, history>>

\* A write of start fails, that of the merge or the last, and the gateway with it.
StartFails ==
  /\ up = "no" /\ Fault
  /\ \/ /\ ChangesFrom(Before)
        /\ disk' = Before /\ log' = <<>>
        /\ failed' = IF system = {} THEN failed \cup {log[i].job : i \in DOMAIN log} ELSE failed
     \/ /\ disk' = IF ChangesFrom(Before) THEN Registered ELSE Before
        /\ log' = IF ChangesFrom(Before) THEN <<>> ELSE log
        /\ UNCHANGED failed
  /\ born' = born \cup system
  /\ UNCHANGED <<up, running, system, mem, taskVars, runVars, ops, history>>

\* stop: the gateway shuts down.  Channels and turns may go on for a moment.
Stop ==
  /\ up = "yes" /\ Op
  /\ up' = "ending" /\ running' = FALSE
  /\ UNCHANGED <<system, storeVars, runVars, born, faultVars, runs, byHand>>
  /\ CancelTimer /\ timer' = "off"

\* The gateway exits after stop, or is killed between two steps; turns it runs
\* are lost.
Crash ==
  /\ \/ up = "yes" /\ Op
     \/ up = "ending" /\ UNCHANGED ops
  /\ up' = "no" /\ running' = FALSE
  /\ mem' = NoJobs
  /\ timer' = "off"
  /\ unwinding' = FALSE
  /\ cur' = None
  /\ batch' = {}
  /\ manual' = [j \in Job |-> "no"]
  /\ was' = [j \in Job |-> FALSE]
  /\ UNCHANGED <<system, disk, log, born, faultVars, history>>

-----------------------------------------------------------------------------
Call(j) == \/ AddJob(j) \/ RemoveJob(j) \/ EnableJob(j) \/ UpdateJob(j)
           \/ AskRun(j) \/ RunJob(j) \/ RunRefused(j) \/ RunJobEnds(j)

Next ==
  \/ Start \/ StartFails \/ Stop \/ Crash \/ Fire \/ TurnEnds \/ Unwind \/ ListJobs
  \/ \E j \in Job :
       Call(j) \/ AppendAdd(j) \/ AppendDel(j) \/ Elapse(j)

Spec == Init /\ [][Next]_vars

(***************************************************************************)
(* The event loop runs the timer, and a turn that can end ends.  Nobody     *)
(* need call the service, start it or let time pass.                        *)
(***************************************************************************)
Fairness ==
  /\ WF_vars(Fire)
  /\ WF_vars(TurnEnds)
  /\ WF_vars(Unwind)
  /\ \A j \in Job : WF_vars(RunJob(j) \/ RunRefused(j) \/ RunJobEnds(j))

FairSpec == Spec /\ Fairness

-----------------------------------------------------------------------------
(* Properties.                                                              *)

\* The jobs anyone who loads the store sees.
Visible == DOMAIN Merged

\* Nothing but a cancelled execution, a manual run, a failed save or an edit of a
\* job that waits in the timer's batch makes the turn of a one-time job be
\* submitted twice: not a reload in the middle of it, not a crash and restart,
\* not a line another process appends.
OnceUnlessCut ==
  \A j \in Job : OneShot(j) /\ runs[j] > 1 => j \in cut \cup byHand \cup failed

\* "one-time future tasks" (docs/automations.md): the scheduler by itself
\* submits the turn of a one-time job once.
OneTimeTask ==
  \A j \in Job : OneShot(j) /\ j \notin byHand \cup failed => runs[j] <= 1

\* A crash or a reload between two executions loses nothing: what memory and
\* jobs.json say of a job differs only if the execution of its batch was cut,
\* or if the write of that very job failed.
SavedWhenQuiet ==
  up = "yes" /\ timer = "asleep" => \A j \in Job \ (cut \cup failed) :
    /\ j \in DOMAIN mem <=> j \in DOMAIN disk
    /\ j \in DOMAIN mem => mem[j] = disk[j]

\* A job is there from the edit that adds it, here or in another process, to
\* the edit that removes it or the end of its only run, and a removed one stays
\* removed.  No save of older objects, merge, reload, shutdown, restart or
\* crash, whatever was being executed, and no write that fails for another job,
\* makes one come or go.  (A service in its shutdown may edit a job that another
\* process has removed since it last loaded; its line brings the job back.)
JobsComeAndGo ==
  [][\A j \in Job :
       /\ j \notin Visible /\ j \in Visible' =>
            j \notin born \/ j \in failed' \/ (~running /\ (EnableJob(j) \/ UpdateJob(j)))
       /\ j \in Visible /\ j \notin Visible' =>
            \/ RemoveJob(j) \/ AppendDel(j)
            \/ Kind[j] = "once" /\ (runs[j] > 0 \/ j \in byHand)
            \/ j \in failed']_vars

\* A due job does not stay due in a gateway that stays up, as long as no
\* failed write has ended the timer task.
DueJobsRun ==
  \A j \in Job : IsDue(mem, j) ~> ~IsDue(mem, j) \/ up # "yes" \/ timer = "dead"

=============================================================================
