-------------------------- MODULE MemoryTaskQueue --------------------------
(***************************************************************************)
(* The persistent task queue behind memory ingestion, enrichment and group *)
(* commit (src/watercooler_mcp/memory_queue/queue.py, task.py), with the   *)
(* threads that drain it.                                                  *)
(*                                                                         *)
(* The queue is a map in memory and three files: queue.jsonl, rewritten    *)
(* whole after every change, and dead_letter.jsonl and task_receipts.jsonl,*)
(* appended to when a task ends.  One mutex makes every operation atomic   *)
(* for other threads, but its file writes are separate: a process can die  *)
(* between any two of them, and each may fail and be swallowed.  So an     *)
(* operation is one action on the map that sets "step" to the first write  *)
(* it owes, and one action per write; the mutex is free when none is owed. *)
(*                                                                         *)
(* Times are kept as the facts the code asks of them: a task is "waiting"  *)
(* while next_retry_at is ahead, "fresh" until updated_at is older than    *)
(* the stale timeout, and "aged" once older than THROTTLE_MAX_AGE.         *)
(***************************************************************************)
EXTENDS Integers, Sequences, FiniteSets

CONSTANTS
    Tasks,          \* task ids; each MemoryTask object has its own
    Workers,        \* threads that dequeue
    KeyOf,          \* KeyOf[t]: dedup_key() of the task
    Anonymous,      \* tasks whose entry_id is empty
    CreatedAt,      \* CreatedAt[t]: created_at of the task
    NoTask,
    MaxDepth,       \* max_depth
    MaxAttempts,    \* max_attempts of every task
    MaxReceipts,    \* _max_receipts
    MaxRetry,       \* max_count of retry_dead_letters
    Faulty,         \* files whose writes may raise OSError
    Slow,           \* whether an execution may outlast the stale timeout
    MaxCrashes, MaxRecoveries, MaxRevivals   \* bounds on these events

ASSUME TasksAssumption ==
    /\ NoTask \notin Tasks
    /\ Anonymous \subseteq Tasks
    /\ CreatedAt \in [Tasks -> Nat]
ASSUME BoundsAssumption ==
    /\ MaxDepth \in Nat /\ MaxAttempts \in Nat \ {0}
    /\ MaxReceipts \in Nat \ {0} /\ MaxRetry \in Nat \ {0}
    /\ MaxCrashes \in Nat /\ MaxRecoveries \in Nat /\ MaxRevivals \in Nat
ASSUME FaultsAssumption ==
    /\ Faulty \subseteq {"queue", "dead_letter", "receipts"}
    /\ Slow \in BOOLEAN

VARIABLES
    tasks,          \* self._tasks
    queueFile,      \* queue.jsonl
    deadLetters,    \* dead_letter.jsonl, oldest line first
    receipts,       \* task_receipts.jsonl, oldest line first
    op,             \* the operation that holds self._lock, and its task
    step,           \* the file write it owes next; "free" when the lock is
    consumer,       \* the process: "down", "loaded" (queue built) or "started"
    inflight,       \* inflight[w]: the task worker w is executing
    aged,           \* tasks older than THROTTLE_MAX_AGE
    submitted,      \* tasks enqueue() has been called with
    accepted,       \* ... and has returned from
    executed,       \* tasks some executor has finished successfully
    crashes, recoveries, revivals

files    == <<queueFile, deadLetters, receipts>>
counters == <<crashes, recoveries, revivals>>
history  == <<aged, submitted, accepted, executed, counters>>
vars     == <<tasks, files, op, step, consumer, inflight, history>>
-----------------------------------------------------------------------------
Absent  == [status |-> "absent", attempt |-> 0, waiting |-> FALSE, fresh |-> FALSE]
Records == [status : {"absent", "pending", "running"}, attempt : Nat,
            waiting : BOOLEAN, fresh : BOOLEAN]

Active(t)  == tasks[t].status # "absent"
Stored(t)  == queueFile[t].status # "absent"
Running(t) == tasks[t].status = "running"
Depth      == Cardinality({t \in Tasks : Active(t)})

\* A slip: a task that is being executed counts as ready.
ReadyWhileRunning(t) == Active(t) /\ ~tasks[t].waiting

\* is_ready
Ready(t) == tasks[t].status = "pending" /\ ~tasks[t].waiting

\* A RUNNING task whose updated_at is older than the stale timeout.
Stale(t) == Running(t) /\ ~tasks[t].fresh

InDeadLetters(t) == \E i \in 1..Len(deadLetters) : deadLetters[i] = t
HasReceipt(t)    == \E i \in 1..Len(receipts) : receipts[i].task = t

Up       == consumer # "down"
LockFree == step = "free"
Executing(t) == \E w \in Workers : inflight[w] = t

Idle == [name |-> "none", task |-> NoTask]

\* The operation goes on to hold the lock for its first file write.
Owe(name, t, write) == op' = [name |-> name, task |-> t] /\ step' = write

Set(t, record) == tasks' = [tasks EXCEPT ![t] = record]

Init ==
    /\ tasks = [t \in Tasks |-> Absent]
    /\ queueFile = [t \in Tasks |-> Absent]
    /\ deadLetters = <<>> /\ receipts = <<>>
    /\ op = Idle /\ step = "free"
    /\ consumer = "loaded"
    /\ inflight = [w \in Workers |-> NoTask]
    /\ aged = {} /\ submitted = {} /\ accepted = {} /\ executed = {}
    /\ crashes = 0 /\ recoveries = 0 /\ revivals = 0
-----------------------------------------------------------------------------
(* Operations.  enqueue() that raises (full, duplicate) changes nothing.    *)

\* A slip: only tasks still waiting to be dequeued count as duplicates.
DuplicatePendingOnly(t) ==
    /\ t \notin Anonymous
    /\ \E u \in Tasks : tasks[u].status = "pending" /\ KeyOf[u] = KeyOf[t]

\* _find_duplicate, which enqueue() asks only for a task with an entry_id.
Duplicate(t) ==
    /\ t \notin Anonymous
    /\ \E u \in Tasks : Active(u) /\ KeyOf[u] = KeyOf[t]

Enqueue(t) ==
    /\ Up /\ LockFree
    /\ t \notin submitted
    /\ Depth < MaxDepth
    /\ ~Duplicate(t)
    /\ Set(t, [status |-> "pending", attempt |-> 0, waiting |-> FALSE, fresh |-> TRUE])
    /\ submitted' = submitted \cup {t}
    /\ Owe("enqueue", t, "persist")
    /\ UNCHANGED <<files, consumer, inflight, aged, accepted, executed, counters>>

\* The oldest ready task is marked RUNNING and charged an attempt.
Dequeue(w) ==
    /\ consumer = "started" /\ LockFree
    /\ inflight[w] = NoTask
    /\ \E t \in Tasks :
        /\ Ready(t)
        /\ \A u \in Tasks : Ready(u) => CreatedAt[t] <= CreatedAt[u]
        /\ Set(t, [tasks[t] EXCEPT !.status = "running", !.attempt = @ + 1, !.fresh = TRUE])
        /\ inflight' = [inflight EXCEPT ![w] = t]
        /\ Owe("dequeue", t, "persist")
    /\ UNCHANGED <<files, consumer, history>>

\* A slip: the task is removed and the queue saved before its receipt is written.
CompleteSavesFirst(w) ==
    /\ Up /\ LockFree
    /\ LET t == inflight[w] IN
        /\ t # NoTask
        /\ Active(t)
        /\ tasks' = [tasks EXCEPT ![t] = Absent]
        /\ queueFile' = tasks'
        /\ executed' = executed \cup {t}
        /\ Owe("complete", t, "receipt")
    /\ inflight' = [inflight EXCEPT ![w] = NoTask]
    /\ UNCHANGED <<deadLetters, receipts, consumer, aged, submitted, accepted, counters>>

\* The executor returned: receipt, then removal, whatever the task's status is by now.
Complete(w) ==
    /\ Up /\ LockFree
    /\ LET t == inflight[w] IN
        /\ t # NoTask
        /\ Active(t)
        /\ Set(t, Absent)
        /\ executed' = executed \cup {t}
        /\ Owe("complete", t, "receipt")
    /\ inflight' = [inflight EXCEPT ![w] = NoTask]
    /\ UNCHANGED <<files, consumer, aged, submitted, accepted, counters>>

\* _get_or_raise finds no such task: complete() raises TaskNotFoundError, the fail()
\* in the except branch raises it again, and the worker loop moves on.
NotFound(w, finished) ==
    /\ Up /\ LockFree
    /\ LET t == inflight[w] IN
        /\ t # NoTask
        /\ ~Active(t)
        /\ executed' = IF finished THEN executed \cup {t} ELSE executed
    /\ inflight' = [inflight EXCEPT ![w] = NoTask]
    /\ UNCHANGED <<tasks, files, op, step, consumer, aged, submitted, accepted, counters>>

\* mark_failed: which failures end in the dead-letter file.
Kinds == {"error", "permanent", "throttled"}
Refunded(t) == IF tasks[t].attempt = 0 THEN 0 ELSE tasks[t].attempt - 1

\* A slip: > for >= in the test of the retry budget.
BuriesLate(t, kind) ==
    CASE kind = "error"     -> tasks[t].attempt > MaxAttempts
      [] kind = "permanent" -> TRUE
      [] kind = "throttled" -> t \in aged

Buries(t, kind) ==
    CASE kind = "error"     -> tasks[t].attempt >= MaxAttempts
      [] kind = "permanent" -> TRUE
      [] kind = "throttled" -> t \in aged

\* A slip: a task that has used up its budget is dropped, with a receipt only.
FailDrops(w, kind) ==
    /\ Up /\ LockFree
    /\ LET t == inflight[w] IN
        /\ t # NoTask
        /\ Active(t)
        /\ Buries(t, kind)
        /\ Set(t, Absent)
        /\ Owe("bury", t, "receipt")
    /\ inflight' = [inflight EXCEPT ![w] = NoTask]
    /\ UNCHANGED <<files, consumer, history>>

Fail(w, kind) ==
    /\ Up /\ LockFree
    /\ LET t == inflight[w] IN
        /\ t # NoTask
        /\ Active(t)
        /\ IF Buries(t, kind)
           THEN /\ Set(t, Absent)
                /\ Owe("bury", t, "dead_letter")
           ELSE /\ Set(t, [status  |-> "pending",
                           attempt |-> IF kind = "throttled" THEN Refunded(t)
                                       ELSE tasks[t].attempt,
                           waiting |-> TRUE, fresh |-> TRUE])
                /\ Owe("retry_later", t, "persist")
    /\ inflight' = [inflight EXCEPT ![w] = NoTask]
    /\ UNCHANGED <<files, consumer, history>>

\* A slip: recovery stamps the task and leaves it RUNNING.
RecoveredHalfway ==
    [t \in Tasks |-> IF Stale(t) THEN [tasks[t] EXCEPT !.fresh = TRUE] ELSE tasks[t]]

Recovered ==
    [t \in Tasks |-> IF Stale(t) THEN [tasks[t] EXCEPT !.status = "pending", !.fresh = TRUE]
                     ELSE tasks[t]]

\* recover_stale, from a daemon's tick or an operator.
RecoverStale ==
    /\ Up /\ LockFree
    /\ recoveries < MaxRecoveries
    /\ \E t \in Tasks : Stale(t)
    /\ tasks' = Recovered
    /\ recoveries' = recoveries + 1
    /\ Owe("recover", NoTask, "persist")
    /\ UNCHANGED <<files, consumer, inflight, aged, submitted, accepted, executed,
                   crashes, revivals>>

Least(m, n) == IF m < n THEN m ELSE n
Taken   == Least(MaxRetry, Len(deadLetters))
Revived == {deadLetters[i] : i \in 1..Taken}

\* A slip: the dead-letter file is shortened before the queue is saved.
RetryShortensFirst ==
    /\ Up /\ LockFree
    /\ revivals < MaxRevivals
    /\ deadLetters # <<>>
    /\ tasks' = [t \in Tasks |->
                    IF t \in Revived
                    THEN [status |-> "pending", attempt |-> 0, waiting |-> FALSE, fresh |-> TRUE]
                    ELSE tasks[t]]
    /\ deadLetters' = SubSeq(deadLetters, Taken + 1, Len(deadLetters))
    /\ revivals' = revivals + 1
    /\ Owe("recover", NoTask, "persist")
    /\ UNCHANGED <<queueFile, receipts, consumer, inflight, aged, submitted, accepted,
                   executed, crashes, recoveries>>

\* retry_dead_letters: the oldest lines go back, whatever the depth and the keys of
\* the tasks already active, and over an active task of the same id.
RetryDeadLetters ==
    /\ Up /\ LockFree
    /\ revivals < MaxRevivals
    /\ deadLetters # <<>>
    /\ tasks' = [t \in Tasks |->
                    IF t \in Revived
                    THEN [status |-> "pending", attempt |-> 0, waiting |-> FALSE, fresh |-> TRUE]
                    ELSE tasks[t]]
    /\ revivals' = revivals + 1
    /\ Owe("revive", NoTask, "persist")
    /\ UNCHANGED <<files, consumer, inflight, aged, submitted, accepted, executed,
                   crashes, recoveries>>
-----------------------------------------------------------------------------
(* The file writes, in the order the operations make them.  Each swallows   *)
(* an OSError and the operation goes on as if it had been made.             *)

AppendDeadLetter ==
    /\ step = "dead_letter"
    /\ \/ deadLetters' = Append(deadLetters, op.task)
       \/ "dead_letter" \in Faulty /\ UNCHANGED deadLetters
    /\ step' = "receipt"
    /\ UNCHANGED <<tasks, queueFile, receipts, op, consumer, inflight, history>>

\* _trim_receipts_if_needed
Trimmed(s) ==
    IF Len(s) <= MaxReceipts THEN s ELSE SubSeq(s, Len(s) - MaxReceipts + 1, Len(s))

AppendReceipt ==
    /\ step = "receipt"
    /\ LET appended == Append(receipts, [task |-> op.task, outcome |-> op.name]) IN
        \/ receipts' = Trimmed(appended)
        \/ "receipts" \in Faulty /\ receipts' \in {receipts, appended}
    /\ step' = "persist"
    /\ UNCHANGED <<tasks, queueFile, deadLetters, op, consumer, inflight, history>>

\* _persist, after which the operation returns unless it still has to shorten the
\* dead-letter file.
Persist ==
    /\ step = "persist"
    /\ \/ queueFile' = tasks
       \/ "queue" \in Faulty /\ UNCHANGED queueFile
    /\ IF op.name = "revive"
       THEN step' = "rewrite" /\ UNCHANGED op
       ELSE step' = "free" /\ op' = Idle
    /\ accepted' = IF op.name = "enqueue" THEN accepted \cup {op.task} ELSE accepted
    /\ UNCHANGED <<tasks, deadLetters, receipts, consumer, inflight, aged, submitted,
                   executed, counters>>

\* A slip: the last task taken stays in the file.
RewriteKeepsOne ==
    /\ step = "rewrite"
    /\ deadLetters' = SubSeq(deadLetters, Taken, Len(deadLetters))
    /\ step' = "free" /\ op' = Idle
    /\ UNCHANGED <<tasks, queueFile, receipts, consumer, inflight, history>>

RewriteDeadLetters ==
    /\ step = "rewrite"
    /\ \/ deadLetters' = SubSeq(deadLetters, Taken + 1, Len(deadLetters))
       \/ "dead_letter" \in Faulty /\ UNCHANGED deadLetters
    /\ step' = "free" /\ op' = Idle
    /\ UNCHANGED <<tasks, queueFile, receipts, consumer, inflight, history>>

Write == AppendDeadLetter \/ AppendReceipt \/ Persist \/ RewriteDeadLetters
-----------------------------------------------------------------------------
(* The process around the queue                                            *)

\* MemoryTaskWorker.start recovers stale tasks once, before any thread runs; it
\* refuses while a thread of a stop() that timed out is still executing.
Start ==
    /\ consumer = "loaded" /\ LockFree
    /\ \A w \in Workers : inflight[w] = NoTask
    /\ consumer' = "started"
    /\ IF \E t \in Tasks : Stale(t)
       THEN /\ recoveries < MaxRecoveries
            /\ tasks' = Recovered
            /\ recoveries' = recoveries + 1
            /\ Owe("recover", NoTask, "persist")
       ELSE UNCHANGED <<tasks, recoveries, op, step>>
    /\ UNCHANGED <<files, inflight, aged, submitted, accepted, executed, crashes, revivals>>

\* stop() sets the stop event: the threads finish what they execute and dequeue no more.
Stop ==
    /\ consumer = "started"
    /\ consumer' = "loaded"
    /\ UNCHANGED <<tasks, files, op, step, inflight, history>>

\* The process dies, between any two steps; only the files remain.
Crash ==
    /\ Up /\ crashes < MaxCrashes
    /\ crashes' = crashes + 1
    /\ consumer' = "down"
    /\ tasks' = [t \in Tasks |-> Absent]
    /\ inflight' = [w \in Workers |-> NoTask]
    /\ op' = Idle /\ step' = "free"
    /\ UNCHANGED <<files, aged, submitted, accepted, executed, recoveries, revivals>>

\* _load: RUNNING tasks come back RUNNING.
Load ==
    /\ consumer = "down"
    /\ consumer' = "loaded"
    /\ tasks' = queueFile
    /\ UNCHANGED <<files, op, step, inflight, history>>

\* Time passes, for the timestamps in memory and in the file alike.
Elapse(t, field) ==
    /\ tasks' = [tasks EXCEPT ![t][field] = FALSE]
    /\ queueFile' = [queueFile EXCEPT ![t][field] = FALSE]
    /\ UNCHANGED <<deadLetters, receipts, op, step, consumer, inflight, history>>

BackoffElapses(t) ==
    /\ tasks[t].waiting \/ queueFile[t].waiting
    /\ Elapse(t, "waiting")

\* Only a task nobody executes gets stale, unless executions may be that slow.
GoesStale(t) ==
    /\ Running(t) \/ queueFile[t].status = "running"
    /\ tasks[t].fresh \/ queueFile[t].fresh
    /\ Slow \/ ~Executing(t)
    /\ Elapse(t, "fresh")

Ages(t) ==
    /\ t \in submitted \ aged
    /\ aged' = aged \cup {t}
    /\ UNCHANGED <<tasks, files, op, step, consumer, inflight, submitted, accepted,
                   executed, counters>>

Next ==
    \/ \E t \in Tasks : Enqueue(t) \/ BackoffElapses(t) \/ GoesStale(t) \/ Ages(t)
    \/ \E w \in Workers :
        \/ Dequeue(w) \/ Complete(w)
        \/ \E finished \in BOOLEAN : NotFound(w, finished)
        \/ \E kind \in Kinds : Fail(w, kind)
    \/ RecoverStale \/ RetryDeadLetters
    \/ Write
    \/ Start \/ Stop \/ Crash \/ Load

Spec == Init /\ [][Next]_vars
-----------------------------------------------------------------------------
(* What the queue promises                                                 *)

Steps   == {"free", "dead_letter", "receipt", "persist", "rewrite"}
OpNames == {"none", "enqueue", "dequeue", "complete", "bury", "retry_later",
            "recover", "revive"}
Outcomes == {"complete", "bury"}

\* Type invariant; the receipts file keeps its bound while its writes succeed.
TypeOK ==
    /\ tasks \in [Tasks -> Records] /\ queueFile \in [Tasks -> Records]
    /\ deadLetters \in Seq(Tasks)
    /\ receipts \in Seq([task : Tasks, outcome : Outcomes])
    /\ "receipts" \in Faulty \/ Len(receipts) <= MaxReceipts
    /\ op \in [name : OpNames, task : Tasks \cup {NoTask}]
    /\ step \in Steps
    /\ consumer \in {"down", "loaded", "started"}
    /\ inflight \in [Workers -> Tasks \cup {NoTask}]
    /\ aged \subseteq Tasks /\ submitted \subseteq Tasks
    /\ accepted \subseteq Tasks /\ executed \subseteq Tasks
    /\ crashes \in Nat /\ recoveries \in Nat /\ revivals \in Nat

\* Who has the mutex, and what it knows of its task and of the lines it revives.
OpInv ==
    /\ ~Up => LockFree
    /\ LockFree <=> op = Idle
    /\ step = "dead_letter" => op.name = "bury"
    /\ step = "receipt" => op.name \in Outcomes
    /\ step = "rewrite" => op.name = "revive"
    /\ op.name \in Outcomes => op.task \in Tasks /\ ~Active(op.task)
    /\ op.name = "enqueue" => step = "persist" /\ op.task \in submitted \ accepted /\ Active(op.task)
    /\ op.name = "revive" => step \in {"persist", "rewrite"} /\ \A t \in Revived : Active(t)
    /\ accepted \subseteq submitted

\* Attempts left: a pending task can be charged one more.
WithinBudget(record) ==
    /\ record.status # "absent" => record.attempt <= MaxAttempts + recoveries
    /\ record.status = "pending" => record.attempt < MaxAttempts + recoveries
BudgetInv == \A t \in Tasks : WithinBudget(tasks[t]) /\ WithinBudget(queueFile[t])

\* How map and files differ while an operation owes writes: only in its own task, or in
\* the revived ones, and never so that a crash would forget a task.
FilesInv == \A t \in Tasks :
    /\ Stored(t) \/ InDeadLetters(t) => t \in accepted
    /\ t \in accepted => Stored(t) \/ InDeadLetters(t) \/ t \in executed
    /\ Up /\ Active(t) /\ ~Stored(t) =>
        \/ op.name = "enqueue" /\ op.task = t
        \/ op.name = "revive" /\ step = "persist" /\ t \in Revived
    /\ Up /\ Stored(t) /\ ~Active(t) => op.name \in Outcomes /\ op.task = t
    /\ op.name \in Outcomes /\ op.task = t => Stored(t)
    /\ op.name = "complete" /\ op.task = t => t \in executed
    /\ op.name = "bury" /\ op.task = t /\ step # "dead_letter" => InDeadLetters(t)

\* The inductive invariant behind NoLoss, AttemptsWithinBudget and StoreSpec.
QueueInv == TypeOK /\ OpInv /\ BudgetInv /\ (Faulty = {} => FilesInv)

\* While file writes succeed, no task whose enqueue() returned is ever lost, whatever
\* the point the process dies at: it is in queue.jsonl, or in dead_letter.jsonl for
\* an operator to retry, or it has been executed.
NoLoss ==
    (Faulty = {}) => \A t \in accepted : Stored(t) \/ InDeadLetters(t) \/ t \in executed

\* Whoever polls get_receipt() for the outcome of a task (_wait_for_commit_receipt)
\* finds one: a task leaves queue.jsonl only after its receipt is written, and the
\* receipt is there until MaxReceipts later ones have pushed it out.
OutcomeVisible ==
    (Faulty = {} /\ Len(receipts) < MaxReceipts) =>
        \A t \in accepted : Stored(t) \/ HasReceipt(t)

\* A task is never charged more attempts than its budget, plus one for each time
\* recover_stale() has put it back without asking how many it has used.
AttemptsWithinBudget ==
    \A t \in Tasks : Active(t) => tasks[t].attempt <= MaxAttempts + recoveries

\* Two active tasks with entry_ids never share a dedup key: "one task per entry per
\* backend" (task.py:285).
NamedKeysUnique ==
    \A t, u \in Tasks \ Anonymous :
        (Active(t) /\ Active(u) /\ KeyOf[t] = KeyOf[u]) => t = u

\* Until an operator revives dead letters no two active tasks with an entry_id share a
\* dedup key, through crashes, slow executions and failed writes.
KeysUniqueBeforeRevival == (revivals = 0) => NamedKeysUnique

\* Until an operator revives dead letters the queue never holds more active tasks than
\* max_depth (queue.py:143), and neither does the file a restart loads: what one process
\* counts, the next one finds.
DepthBounded ==
    (revivals = 0) => /\ Depth <= MaxDepth
                      /\ Cardinality({t \in Tasks : Stored(t)}) <= MaxDepth

\* While no process dies and no execution outlasts the stale timeout, no two threads
\* ever execute one task, ...
ExecutorsExclusive ==
    (crashes = 0 /\ ~Slow) => \A v, w \in Workers :
        (inflight[v] = inflight[w] /\ inflight[v] # NoTask) => v = w

\* ... and a task that has been executed is never queued, revived or executed again.
ExecutedOnce ==
    (crashes = 0 /\ ~Slow) => \A t \in executed :
        ~Active(t) /\ ~Executing(t) /\ (LockFree => ~InDeadLetters(t))

\* The files alone, as a crash would leave them, implement the abstract task store:
\* what becomes of a task is decided by the write that makes it so.  A task that is
\* neither in a file nor executed has no counterpart there.
FateOf(t) ==
    IF Stored(t) THEN "active"
    ELSE IF InDeadLetters(t) THEN "parked"
    ELSE IF t \in accepted THEN IF t \in executed THEN "done" ELSE "lost"
    ELSE "new"

Store == INSTANCE TaskStore WITH fate <- [t \in Tasks |-> FateOf(t)]
StoreSpec == Store!Spec
-----------------------------------------------------------------------------
(* Liveness.  Threads run, a thread waiting for the mutex gets it in the    *)
(* end, executors return (they run under a timeout), clocks advance and a   *)
(* process that died or was stopped is started again.  Whether anybody      *)
(* calls recover_stale() again after start() depends on the consumer.       *)

Settles(w) ==
    \/ Complete(w) \/ (\E kind \in Kinds : Fail(w, kind))
    \/ (\E finished \in BOOLEAN : NotFound(w, finished))

WorkerFairness ==
    /\ WF_vars(Write) /\ WF_vars(Load) /\ SF_vars(Start)
    /\ \A t \in Tasks :
        WF_vars(BackoffElapses(t)) /\ WF_vars(GoesStale(t)) /\ WF_vars(Ages(t))
    /\ \A w \in Workers :
        /\ SF_vars(Dequeue(w))
        /\ SF_vars(Settles(w))

\* A consumer that only recovers when it starts (MemoryTaskWorker).
WorkerSpec == Spec /\ WorkerFairness

\* A consumer that recovers on every tick (CommitterDaemon.tick).
CommitterSpec == Spec /\ WorkerFairness /\ SF_vars(RecoverStale)

\* Every accepted task is executed or parked in the end, in spite of crashes.
EventuallySettled ==
    \A t \in Tasks : (t \in accepted) ~> (t \in executed \/ InDeadLetters(t))

\* "Seconds before a RUNNING task is considered stale and reset to PENDING"
\* (worker.py:83-84): no task stays RUNNING for good.
StaleIsReset == \A t \in Tasks : Stale(t) ~> ~Stale(t)
=============================================================================
