---------------------------- MODULE SessionHistory ----------------------------
(***************************************************************************)
(* What nanobot remembers of one conversation: the session file, the       *)
(* Session objects that turns and background jobs hold, the checkpoint of  *)
(* an unfinished turn and its restoration, the consolidation of old rows   *)
(* into history.jsonl, and the compaction of an idle session. A step is    *)
(* what a task does between two awaits.                                    *)
(***************************************************************************)
EXTENDS Naturals, SequencesExt

CONSTANTS
    MaxTurns,    \* bound on messages
    MaxIter,     \* bound on the tool iterations of a turn
    Keep,        \* rows an idle compaction keeps, _RECENT_SUFFIX_MESSAGES
    MaxFaults,   \* bound on failed, stopped and crashed turns
    MaxNew,      \* bound on /new
    MaxIdle,     \* bound on idle compactions
    Objects,     \* Session objects in memory
    NoObject

ASSUME ConstantsAssumption ==
    /\ {MaxTurns, MaxIter, MaxFaults, MaxNew, MaxIdle} \subseteq Nat
    /\ Keep \in Nat \ {0, 1}
    /\ NoObject \notin Objects
    /\ \A a, b, c \in Objects \cup {NoObject} : Objects \ {a, b, c} # {}

VARIABLES
    file,      \* sessions/<key>.jsonl
    heap,      \* what each Session object contains
    cache,     \* the object SessionManager hands out
    pc, sess, dispatched,  \* the turn in progress, its object, whether run() knows of it
    turns, iter, produced, \* turns begun, tool iterations and rows of the last one
    lockQ,     \* the consolidation lock: its holder, then who waits
    work,      \* what the holder does while a model summarizes
    snapshot,  \* rows a /new left to be archived in the background
    archived,  \* rows whose summary, or raw dump, is in history.jsonl
    known, lost, newAt, raced,  \* history: rows once saved, rows a crash took from the
                                \* snapshot, turns before the last /new, see Races
    faults, news, idles    \* how often the bounded things happened

turnVars == <<pc, sess, dispatched, turns, iter, produced>>
jobVars == <<lockQ, work>>
bounds == <<faults, news, idles>>
observed == <<known, raced>>
vars == <<file, heap, cache, turnVars, jobVars, snapshot, archived, observed, lost, newAt, bounds>>

-----------------------------------------------------------------------------
(* Rows and contents. A row is named after the turn it belongs to.           *)

Rows == (1 .. MaxTurns) \X
            ({"user", "answer", "closed", "command", "reply"} \X {0}
             \cup {"call", "result", "cut"} \X (1 .. MaxIter))

Row(t, what, i) == <<t, <<what, i>>>>
What(row) == row[2][1]

IsUser(row) == What(row) \in {"user", "command"}
IsTool(row) == What(row) \in {"result", "cut"}

(* rows: messages, ckpt: what runtime_checkpoint will materialize, pending:    *)
(* pending_user_turn, mark: last_consolidated.                                 *)
Empty == [rows |-> <<>>, ckpt |-> <<>>, pending |-> FALSE, mark |-> 0]

NoWork == [obj |-> NoObject, chunk |-> <<>>, mark |-> 0, keep |-> <<>>]

Contents == [rows : Seq(Rows), ckpt : Seq(Rows), pending : BOOLEAN, mark : Nat]

Working == {"built", "model", "tools", "closing"}

(* Types, and the consolidation lock has at most one turn, one background job  *)
(* and one idle compaction in its queue.                                       *)
TypeOK ==
    /\ file \in Contents
    /\ heap \in [Objects -> Contents]
    /\ {cache, sess, work.obj} \subseteq Objects \cup {NoObject}
    /\ pc \in {"idle", "building"} \cup Working /\ dispatched \in BOOLEAN
    /\ turns \in 0 .. MaxTurns /\ iter \in 0 .. MaxIter /\ produced \in Seq(Rows)
    /\ ToSet(lockQ) \subseteq {"build", "after", "idle"} /\ IsInjective(lockQ)
    /\ work.chunk \in Seq(Rows) /\ work.keep \in Seq(Rows)
    /\ UNION {archived, snapshot, known, lost} \subseteq Rows
    /\ newAt \in 0 .. turns /\ raced \in BOOLEAN
    /\ faults \in 0 .. MaxFaults /\ news \in 0 .. MaxNew /\ idles \in 0 .. MaxIdle

Init ==
    /\ file = Empty
    /\ heap = [o \in Objects |-> Empty] /\ cache = NoObject
    /\ pc = "idle" /\ sess = NoObject /\ dispatched = FALSE
    /\ turns = 0 /\ iter = 0 /\ produced = <<>>
    /\ lockQ = <<>> /\ work = NoWork
    /\ snapshot = {} /\ archived = {} /\ known = {} /\ lost = {}
    /\ newAt = 0 /\ raced = FALSE
    /\ faults = 0 /\ news = 0 /\ idles = 0

(* An offset beyond the rows is reset when a session is loaded. *)
Loaded(c) == IF c.mark > Len(c.rows) THEN [c EXCEPT !.mark = 0] ELSE c

Unused == CHOOSE o \in Objects : o \notin {cache, sess, work.obj}

(* get_or_create: the object of the cache, or a new one with what is on disk. *)
Obtained == IF cache = NoObject THEN Unused ELSE cache
Content == IF cache = NoObject THEN Loaded(file) ELSE heap[cache]

(* save: writes the file and puts the object into the cache. *)
Save(o, c) ==
    /\ file' = c
    /\ heap' = [heap EXCEPT ![o] = c]
    /\ cache' = o

(* get_or_create, and a save if that changed something. *)
SaveIfChanged(c) ==
    IF c = Content
    THEN cache' = Obtained /\ heap' = [heap EXCEPT ![Obtained] = c] /\ UNCHANGED file
    ELSE Save(Obtained, c)

(* The longest end of rows that is the start of restored. *)
Overlap(rows, restored) ==
    Max({k \in 0 .. Min({Len(rows), Len(restored)}) :
             SubSeq(rows, Len(rows) - k + 1, Len(rows)) = SubSeq(restored, 1, k)})

(* Mutant: the checkpoint stays. *)
RestoreCheckpoint_Keeps(c) ==
    IF c.ckpt = <<>> THEN c
    ELSE [c EXCEPT !.rows = @ \o SubSeq(c.ckpt, Overlap(@, c.ckpt) + 1, Len(c.ckpt)),
                   !.pending = FALSE]

(* Mutant: interrupted tools get no result. *)
RestoreCheckpoint_NoCut(c) ==
    IF c.ckpt = <<>> THEN c
    ELSE [c EXCEPT !.rows = @ \o SelectSeq(SubSeq(c.ckpt, Overlap(@, c.ckpt) + 1, Len(c.ckpt)),
                                           LAMBDA r : What(r) # "cut"),
                   !.pending = FALSE, !.ckpt = <<>>]

(* _restore_runtime_checkpoint *)
RestoreCheckpoint(c) ==
    IF c.ckpt = <<>> THEN c
    ELSE [c EXCEPT !.rows = @ \o SubSeq(c.ckpt, Overlap(@, c.ckpt) + 1, Len(c.ckpt)),
                   !.pending = FALSE, !.ckpt = <<>>]

(* _restore_pending_user_turn: a message without an answer gets an error. *)
RestorePending(c) ==
    IF c.pending /\ c.rows # <<>> /\ IsUser(Last(c.rows))
    THEN [c EXCEPT !.rows = Append(@, Row(Last(@)[1], "closed", 0)), !.pending = FALSE]
    ELSE [c EXCEPT !.pending = FALSE]

Restored(c) == RestorePending(RestoreCheckpoint(c))

-----------------------------------------------------------------------------
(* Turns *)

(* RESTORE, COMPACT and COMMAND of a message for the model, up to the lock of  *)
(* the consolidator. A direct call registers no pending queue.                 *)
Begin ==
    /\ pc = "idle" /\ turns < MaxTurns
    /\ turns' = turns + 1 /\ iter' = 0 /\ produced' = <<>>
    /\ SaveIfChanged(Restored(Content))
    /\ sess' = Obtained
    /\ dispatched' \in BOOLEAN
    /\ pc' = "building" /\ lockQ' = Append(lockQ, "build")
    /\ UNCHANGED <<work, snapshot, archived, lost, newAt, bounds>>

(* A shortcut command: its rows are saved and the turn is over. The flag of    *)
(* the pending turn is cleared after the last save, in memory only.            *)
Command ==
    /\ pc = "idle" /\ turns < MaxTurns
    /\ turns' = turns + 1 /\ iter' = 0 /\ produced' = <<>>
    /\ LET c == Restored(Content)
           full == [c EXCEPT !.rows = @ \o <<Row(turns', "command", 0), Row(turns', "reply", 0)>>]
       IN  /\ file' = [full EXCEPT !.pending = TRUE]
           /\ heap' = [heap EXCEPT ![Obtained] = full]
    /\ cache' = Obtained
    /\ UNCHANGED <<pc, sess, dispatched, jobVars, snapshot, archived, lost, newAt, bounds>>

(* The end of BUILD: _persist_user_message_early *)
Persist ==
    /\ pc = "built"
    /\ Save(sess, [heap[sess] EXCEPT !.rows = Append(@, Row(turns, "user", 0)), !.pending = TRUE])
    /\ pc' = "model"
    /\ UNCHANGED <<sess, dispatched, turns, iter, produced, jobVars, snapshot, archived, lost,
                   newAt, bounds>>

(* _set_runtime_checkpoint *)
Checkpoint(rows) == Save(sess, [heap[sess] EXCEPT !.ckpt = rows])

CallTools ==
    /\ pc = "model" /\ iter < MaxIter
    /\ iter' = iter + 1
    /\ produced' = Append(produced, Row(turns, "call", iter'))
    /\ Checkpoint(<<Row(turns, "call", iter'), Row(turns, "cut", iter')>>)
    /\ pc' = "tools"
    /\ UNCHANGED <<sess, dispatched, turns, jobVars, snapshot, archived, lost, newAt, bounds>>

ToolsDone ==
    /\ pc = "tools"
    /\ produced' = Append(produced, Row(turns, "result", iter))
    /\ Checkpoint(<<Row(turns, "call", iter), Row(turns, "result", iter)>>)
    /\ pc' = "model"
    /\ UNCHANGED <<sess, dispatched, turns, iter, jobVars, snapshot, archived, lost, newAt, bounds>>

(* The final response, with a checkpoint of its own, or what replaces it after *)
(* an error, a fatal tool or the last iteration, without one.                  *)
Answer ==
    /\ pc = "model"
    /\ produced' = Append(produced, Row(turns, "answer", 0))
    /\ \/ Checkpoint(<<Row(turns, "answer", 0)>>)
       \/ UNCHANGED <<file, heap, cache>>
    /\ pc' = "closing"
    /\ UNCHANGED <<sess, dispatched, turns, iter, jobVars, snapshot, archived, lost, newAt, bounds>>

(* SAVE: _save_turn, and a consolidation in the background. *)
SaveTurn ==
    /\ pc = "closing"
    /\ Save(sess, [heap[sess] EXCEPT !.rows = @ \o produced, !.pending = FALSE, !.ckpt = <<>>])
    /\ lockQ' = Append(lockQ, "after")
    /\ pc' = "idle" /\ sess' = NoObject
    /\ UNCHANGED <<dispatched, turns, iter, produced, work, snapshot, archived, lost, newAt, bounds>>

EndTurn ==
    /\ pc' = "idle" /\ sess' = NoObject
    /\ UNCHANGED <<dispatched, turns, iter, produced>>

Without(q, job) ==
    IF job \in ToSet(q) THEN RemoveAt(q, CHOOSE n \in DOMAIN q : q[n] = job) ELSE q

(* A turn that is cancelled leaves the lock, as its holder or as a waiter. *)
LeaveLock ==
    /\ lockQ' = Without(lockQ, "build")
    /\ work' = IF lockQ # <<>> /\ Head(lockQ) = "build" THEN NoWork ELSE work

(* An exception, or a direct caller that gave up: the checkpoint and the flag  *)
(* stay for the next turn.                                                     *)
Fail ==
    /\ pc \in Working \/ (pc = "building" /\ ~dispatched)
    /\ faults < MaxFaults /\ faults' = faults + 1
    /\ EndTurn /\ LeaveLock
    /\ UNCHANGED <<file, heap, cache, snapshot, archived, lost, newAt, news, idles>>

(* /stop: the handler of _dispatch materializes the checkpoint. *)
Stop ==
    /\ pc # "idle" /\ dispatched /\ faults < MaxFaults
    /\ faults' = faults + 1
    /\ SaveIfChanged(RestoreCheckpoint(Content))
    /\ EndTurn /\ LeaveLock
    /\ UNCHANGED <<snapshot, archived, lost, newAt, news, idles>>

(* Mutant: the cleared session is not saved. *)
Renew_Unsaved(c) ==
    /\ news < MaxNew /\ news' = news + 1
    /\ heap' = [heap EXCEPT ![Obtained] = [c EXCEPT !.rows = <<>>, !.mark = 0]]
    /\ cache' = NoObject
    /\ snapshot' = snapshot \cup ToSet(SubSeq(c.rows, c.mark + 1, Len(c.rows)))
    /\ newAt' = turns
    /\ UNCHANGED <<file, archived, lost, idles>>

(* /new, on what the session contains: what is not consolidated is archived in *)
(* the background, the object leaves the cache.                                *)
Renew(c) ==
    /\ news < MaxNew /\ news' = news + 1
    /\ LET cleared == [c EXCEPT !.rows = <<>>, !.mark = 0]
       IN  file' = cleared /\ heap' = [heap EXCEPT ![Obtained] = cleared]
    /\ cache' = NoObject
    /\ snapshot' = snapshot \cup ToSet(SubSeq(c.rows, c.mark + 1, Len(c.rows)))
    /\ newAt' = turns
    /\ UNCHANGED <<archived, lost, idles>>

(* As a turn of its own, which restores first, or instead of the one it stops. *)
NewConversation ==
    \/ /\ pc = "idle" /\ Renew(Restored(Content))
       /\ UNCHANGED <<turnVars, jobVars, faults>>
    \/ /\ pc # "idle" /\ dispatched /\ Renew(RestoreCheckpoint(Content))
       /\ EndTurn /\ LeaveLock /\ UNCHANGED faults

-----------------------------------------------------------------------------
(* Background jobs *)

ArchiveSnapshot ==
    /\ snapshot # {}
    /\ archived' = archived \cup snapshot /\ snapshot' = {}
    /\ UNCHANGED <<file, heap, cache, turnVars, jobVars, lost, newAt, bounds>>

(* Offsets at which a user's turn begins behind the offset of c. *)
Boundaries(c) == {i \in c.mark + 1 .. Len(c.rows) - 1 : IsUser(c.rows[i + 1])}

Release ==
    /\ lockQ' = Tail(lockQ) /\ work' = NoWork
    /\ IF Head(lockQ) = "build" THEN pc' = "built" ELSE UNCHANGED pc
    /\ UNCHANGED <<sess, dispatched, turns, iter, produced>>

(* Rows up to a boundary go to the model, or the prompt is small enough. *)
NextRound(o, c) ==
    \/ Release
    \/ \E i \in Boundaries(c) :
           /\ work' = [obj |-> o, chunk |-> SubSeq(c.rows, c.mark + 1, i), mark |-> i, keep |-> <<>>]
           /\ UNCHANGED <<lockQ, turnVars>>

(* maybe_consolidate_by_tokens gets the lock, and a fresh look at the cache. *)
Consolidate ==
    /\ lockQ # <<>> /\ Head(lockQ) # "idle" /\ work = NoWork
    /\ cache' = Obtained /\ heap' = [heap EXCEPT ![Obtained] = Content]
    /\ NextRound(Obtained, Content)
    /\ UNCHANGED <<file, snapshot, archived, lost, newAt, bounds>>

(* Mutant: a failed answer leaves no trace of the rows. *)
EndRound_NoDump ==
    /\ work # NoWork /\ Head(lockQ) # "idle"
    /\ LET c == [heap[work.obj] EXCEPT !.mark = work.mark]
       IN  Save(work.obj, c) /\ NextRound(work.obj, c)
    /\ UNCHANGED <<snapshot, archived, lost, newAt, bounds>>

(* The model answered, or failed and the rows are dumped: the offset moves. *)
EndRound ==
    /\ work # NoWork /\ Head(lockQ) # "idle"
    /\ archived' = archived \cup ToSet(work.chunk)
    /\ LET c == [heap[work.obj] EXCEPT !.mark = work.mark]
       IN  Save(work.obj, c) /\ NextRound(work.obj, c)
    /\ UNCHANGED <<snapshot, lost, newAt, bounds>>

(* retain_recent_legal_suffix(Keep, extend_to_user): from the last user row at *)
(* or before the suffix, else from the first one in it.                        *)
Suffix(rows) ==
    LET s == Len(rows) - Keep + 1
        before == {i \in 1 .. s : IsUser(rows[i])}
        within == {i \in s .. Len(rows) : IsUser(rows[i])}
        first == IF before # {} THEN Max(before)
                 ELSE IF within # {} THEN Min(within)
                 ELSE Min({i \in s .. Len(rows) : ~IsTool(rows[i])})
    IN  IF Len(rows) <= Keep THEN rows ELSE SubSeq(rows, first, Len(rows))

Unconsolidated(c) == SubSeq(c.rows, c.mark + 1, Len(c.rows))

Dropped(rows) == SubSeq(rows, 1, Len(rows) - Len(Suffix(rows)))

(* An idle tick: the session has not changed for a while and has rows to drop, *)
(* and run() knows of no turn in it.                                           *)
IdleTick ==
    /\ ~(pc # "idle" /\ dispatched) /\ "idle" \notin ToSet(lockQ) /\ idles < MaxIdle
    /\ Dropped(Unconsolidated(Content)) # <<>>
    /\ idles' = idles + 1
    /\ cache' = Obtained /\ heap' = [heap EXCEPT ![Obtained] = Content]
    /\ lockQ' = Append(lockQ, "idle")
    /\ UNCHANGED <<file, turnVars, work, snapshot, archived, lost, newAt, faults, news>>

(* compact_idle_session reloads the session under the lock. *)
Compact ==
    /\ lockQ # <<>> /\ Head(lockQ) = "idle" /\ work = NoWork
    /\ LET o == Unused
           c == Loaded(file)
           tail == Unconsolidated(c)
       IN  IF Dropped(tail) = <<>>
           THEN /\ Save(o, IF tail = <<>> THEN c ELSE [c EXCEPT !.rows = tail, !.mark = 0])
                /\ Release
           ELSE /\ cache' = o /\ heap' = [heap EXCEPT ![o] = c]
                /\ work' = [obj |-> o, chunk |-> Dropped(tail), mark |-> 0, keep |-> Suffix(tail)]
                /\ UNCHANGED <<file, lockQ, turnVars>>
    /\ UNCHANGED <<snapshot, archived, lost, newAt, bounds>>

(* The session becomes what was kept when the compaction began. *)
EndCompact ==
    /\ work # NoWork /\ Head(lockQ) = "idle"
    /\ archived' = archived \cup ToSet(work.chunk)
    /\ Save(work.obj, [heap[work.obj] EXCEPT !.rows = work.keep, !.mark = 0])
    /\ Release
    /\ UNCHANGED <<snapshot, lost, newAt, bounds>>

(* SIGKILL. *)
Crash ==
    /\ faults < MaxFaults /\ faults' = faults + 1
    /\ heap' = [o \in Objects |-> Empty] /\ cache' = NoObject
    /\ EndTurn
    /\ lockQ' = <<>> /\ work' = NoWork
    /\ lost' = lost \cup snapshot /\ snapshot' = {}
    /\ UNCHANGED <<file, archived, newAt, news, idles>>

-----------------------------------------------------------------------------
(* A race: an idle compaction waits or works while a turn is in progress or    *)
(* the session is written by another, or /new comes while a consolidation does.*)
Races ==
    \/ "idle" \in ToSet(lockQ') /\ (pc' # "idle" \/ turns' # turns)
    \/ lockQ # <<>> /\ news' # news

Step ==
    \/ Begin \/ Command \/ Persist \/ CallTools \/ ToolsDone \/ Answer \/ SaveTurn
    \/ Fail \/ Stop \/ NewConversation
    \/ ArchiveSnapshot \/ Consolidate \/ EndRound \/ IdleTick \/ Compact \/ EndCompact
    \/ Crash

Next ==
    /\ Step
    /\ known' = known \cup ToSet(file'.rows)
    /\ raced' = (raced \/ Races)

Spec == Init /\ [][Next]_vars

-----------------------------------------------------------------------------
(* Properties *)

CallsAnswered ==
    \A k \in DOMAIN file.rows :
        LET row == file.rows[k]
            Fits(a, b) == What(a) = "call" /\ IsTool(b) /\ a[1] = b[1] /\ a[2][2] = b[2][2]
        IN  /\ What(row) = "call" => k < Len(file.rows) /\ Fits(row, file.rows[k + 1])
            /\ IsTool(row) => k > 1 /\ Fits(file.rows[k - 1], row)
UsersAnswered ==
    ~raced => \A k \in 2 .. Len(file.rows) : ~(IsUser(file.rows[k - 1]) /\ IsUser(file.rows[k]))

(* What providers insist on, through every crash, stop, restoration and        *)
(* compaction: a saved tool call is followed by its result or by the notice    *)
(* that it was interrupted, no result stands alone, and no message of the user *)
(* follows another one directly, as an interrupted turn leaves something.      *)
LegalHistory == CallsAnswered /\ UsersAnswered

(* A row is never in the session twice, however often a turn is restored: what *)
(* the restoration of the checkpoint matches by content for.                   *)
NeverTwice == IsInjective(file.rows)

(* What was saved once is still in the session, or archived, or about to be:   *)
(* unless a race or a crash right after /new took it.                          *)
Remembered ==
    ~raced => known \subseteq ToSet(Unconsolidated(file)) \cup archived \cup snapshot \cup lost

(* After /new nothing of the old conversation comes back. *)
NewIsFresh ==
    ~raced => \A k \in DOMAIN file.rows : file.rows[k][1] > newAt
=============================================================================
