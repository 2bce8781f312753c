----------------------------- MODULE WritePath -----------------------------
(***************************************************************************)
(* From a write tool to origin: run_with_sync (watercooler_mcp/            *)
(* middleware.py) on the request threads, the committer daemon             *)
(* (daemons/committer.py) that commits and pushes in batches, the commit   *)
(* queue between them, the topic and worktree locks, and git.              *)
(*                                                                         *)
(* A write is one call of run_with_sync; what git holds is told by the     *)
(* sets of writes in the worktree (graph), in its branch (head) and on     *)
(* origin.  Other machines push to origin too; their commits touch other   *)
(* topics, so all that counts is whether the branch is behind.             *)
(*                                                                         *)
(* The queue's operations are whole steps here and a crash takes every     *)
(* thread and lock of the process; MemoryTaskQueue and AdvisoryLock have   *)
(* what happens inside.  One worktree, reconciled with or without a task   *)
(* when it is the seed.                                                    *)
(***************************************************************************)
EXTENDS Integers, FiniteSets

CONSTANTS
    Writes,         \* calls of run_with_sync
    TopicOf,        \* TopicOf[w]: its topic
    Existing,       \* topics with files in the branch from the start
    Async,          \* writes that go through the committer: async_sync, an entry_id
    Confirmed,      \* ... and wait for its receipt: confirm is not "accepted"
    Committer, Free,
    MaxDepth,       \* commit_queue_max_depth
    MaxBatch,       \* max_batch_size
    MaxAttempts,    \* max_attempts of a commit task
    Seeded,         \* the worktree is _seed_worktree()
    MaxCrashes, MaxFaults, MaxForeign   \* bounds on these events

ASSUME WritesAssumption ==
    /\ Async \subseteq Writes /\ Confirmed \subseteq Async
    /\ Committer \notin Writes /\ Free \notin Writes \cup {Committer}
    /\ IsFiniteSet(Writes)
ASSUME LimitsAssumption ==
    /\ MaxDepth \in Nat \ {0} /\ MaxBatch \in Nat \ {0} /\ MaxAttempts \in Nat \ {0}
    /\ Seeded \in BOOLEAN
    /\ MaxCrashes \in Nat /\ MaxFaults \in Nat /\ MaxForeign \in Nat

VARIABLES
    graph,          \* writes that have left something in the worktree's graph files
    head,           \* writes in the commits of the branch
    origin,         \* writes in the commits of origin's branch
    behind,         \* origin has commits of others the branch lacks
    lock,           \* who holds the worktree lock
    pc,             \* pc[w]: where the request thread of w is
    reply,          \* reply[w]: what its caller was told
    task,           \* task[w]: the commit task of w
    attempt,        \* attempt[w]: its attempt
    waiting,        \* tasks whose next_retry_at or stale timeout is ahead
    cpc,            \* where the committer is
    batch,          \* tasks of its batch it has not settled yet
    known,          \* a sweep covers the worktree: it is the seed or in _known_worktrees
    due,            \* a reconcile_interval has passed since the last sweep
    crashes, faults, foreign

git       == <<graph, head, origin, behind>>
queue     == <<task, attempt, waiting>>
committer == <<cpc, batch, known, due>>
requests  == <<pc, reply>>
bounds    == <<crashes, faults, foreign>>
vars      == <<git, lock, requests, queue, committer, bounds>>
-----------------------------------------------------------------------------
Dirty    == graph \ head
Unpushed == head \ origin
Of(topics) == {w \in Dirty : TopicOf[w] \in topics}

\* Changes git sees without an add: only files the branch has already.
Tracked(topic) == topic \in Existing \/ \E w \in head : TopicOf[w] = topic
Unstaged       == \E w \in Dirty : Tracked(TopicOf[w])

\* is_dirty(index=True) once the files of these topics are staged.
IsDirty(topics) == Of(topics) # {} \/ Unstaged

\* pull --ff-only, or pull --rebase, which refuses a tree with unstaged changes.
CanPull == Unpushed = {} \/ ~Unstaged

Live  == {w \in Writes : task[w] \in {"pending", "running"}}
Depth == Cardinality(Live)

InFlight == {"topic", "operate", "commit", "inline", "push", "receipt"}
TopicLocked(topic) == \E w \in Writes : TopicOf[w] = topic /\ pc[w] \in InFlight

Go(w, place)    == pc' = [pc EXCEPT ![w] = place]
Tell(w, answer) == Go(w, "returned") /\ reply' = [reply EXCEPT ![w] = answer]
LeftBy(p)       == IF lock = p THEN Free ELSE lock
Fault           == faults < MaxFaults /\ faults' = faults + 1 /\ UNCHANGED <<crashes, foreign>>

Init ==
    /\ graph = {} /\ head = {} /\ origin = {} /\ behind = FALSE
    /\ lock = Free
    /\ pc = [w \in Writes |-> "idle"] /\ reply = [w \in Writes |-> "none"]
    /\ task = [w \in Writes |-> "none"] /\ attempt = [w \in Writes |-> 0]
    /\ waiting = {}
    /\ cpc = "idle" /\ batch = {} /\ known = Seeded /\ due = FALSE
    /\ crashes = 0 /\ faults = 0 /\ foreign = 0
-----------------------------------------------------------------------------
(* push_with_retry.  A rejected push rebases and tries again; it fails for  *)
(* good when the rebase is refused, or by any other fault, and then may     *)
(* have reached origin all the same.                                        *)

PushSucceeds ==
    /\ behind => CanPull
    /\ origin' = origin \cup head /\ behind' = FALSE
    /\ UNCHANGED <<graph, head, bounds>>

PushFails ==
    \/ /\ behind /\ ~CanPull
       /\ UNCHANGED <<git, bounds>>
    \/ /\ Fault
       /\ \/ UNCHANGED <<origin, behind>>
          \/ /\ behind => CanPull
             /\ origin' = origin \cup head /\ behind' = FALSE
       /\ UNCHANGED <<graph, head>>
-----------------------------------------------------------------------------
(* run_with_sync                                                            *)

TakeTopic(w) ==
    /\ pc[w] = "idle"
    /\ ~TopicLocked(TopicOf[w])
    /\ Go(w, "topic")
    /\ UNCHANGED <<git, lock, reply, queue, committer, bounds>>

\* SyncError: nothing has been written.
TopicTimeout(w) ==
    /\ pc[w] = "idle"
    /\ TopicLocked(TopicOf[w])
    /\ Tell(w, "refused")
    /\ UNCHANGED <<git, lock, queue, committer, bounds>>

\* Fetch and pull under the worktree lock, which is then kept.
PullUnderLock(w) ==
    /\ pc[w] = "topic"
    /\ lock = Free
    /\ lock' = w
    /\ behind' \in {behind} \cup {b \in {FALSE} : CanPull}
    /\ Go(w, "operate")
    /\ UNCHANGED <<graph, head, origin, reply, queue, committer, bounds>>

\* The worktree lock timed out, or git could not be asked: go on without.
PullSkipped(w) ==
    /\ pc[w] = "topic"
    /\ \/ lock # Free /\ UNCHANGED bounds
       \/ Fault
    /\ Go(w, "operate")
    /\ UNCHANGED <<git, lock, reply, queue, committer>>

\* operation(): the write, or the first of its files, is in the worktree.
Operate(w) ==
    /\ pc[w] = "operate"
    /\ graph' = graph \cup {w}
    /\ Go(w, "commit")
    /\ UNCHANGED <<head, origin, behind, lock, reply, queue, committer, bounds>>

\* operation() raises (middleware.py:717): before it has written anything, or when its entry
\* is in the graph and the edges, the thread's metadata, the projection or the second part
\* of a handoff failed (ThreadGraph!WriteFails).  What is written stays, and no task names it.
OperateRaises(w) ==
    /\ pc[w] \in {"operate", "commit"}
    /\ Fault
    /\ lock' = LeftBy(w)
    /\ Tell(w, "raised")
    /\ UNCHANGED <<git, queue, committer>>

\* Enqueue a commit task and give the worktree lock up; the entry is stored.
HandOver(w) ==
    /\ pc[w] = "commit"
    /\ w \in Async /\ Depth < MaxDepth
    /\ task' = [task EXCEPT ![w] = "pending"]
    /\ lock' = LeftBy(w)
    /\ IF w \in Confirmed THEN Go(w, "receipt") /\ UNCHANGED reply
       ELSE Tell(w, "accepted")
    /\ UNCHANGED <<git, attempt, waiting, committer, bounds>>

\* No committer for this write, its queue is full, or it could not be asked:
\* commit on this thread, with the lock if it is held.
CommitInline(w) ==
    /\ pc[w] = "commit"
    /\ \/ (w \notin Async \/ Depth >= MaxDepth) /\ UNCHANGED bounds
       \/ w \in Async /\ Fault
    /\ Go(w, "inline")
    /\ UNCHANGED <<git, lock, reply, queue, committer>>

\* A slip: whatever the receipt says, there is one.
AnyReceipt(w) ==
    /\ pc[w] = "receipt"
    /\ task[w] \in {"done", "dead"}
    /\ Tell(w, "pushed")
    /\ UNCHANGED <<git, lock, queue, committer, bounds>>

\* _wait_for_commit_receipt
Receipt(w) ==
    /\ pc[w] = "receipt"
    /\ \/ task[w] = "done" /\ Tell(w, "pushed")
       \/ task[w] = "dead" /\ Tell(w, "unpushed")
    /\ UNCHANGED <<git, lock, queue, committer, bounds>>

ReceiptTimeout(w) ==
    /\ pc[w] = "receipt"
    /\ task[w] \notin {"done", "dead"}
    /\ Tell(w, "unpushed")
    /\ UNCHANGED <<git, lock, queue, committer, bounds>>

InlineLock(w) ==
    /\ pc[w] = "inline"
    /\ lock = Free
    /\ lock' = w
    /\ UNCHANGED <<git, requests, queue, committer, bounds>>

\* The worktree lock timed out, or staging failed; only logged.
InlineGivesUp(w) ==
    /\ pc[w] = "inline"
    /\ \/ lock \notin {Free, w} /\ UNCHANGED bounds
       \/ lock = w /\ Fault
    /\ lock' = LeftBy(w)
    /\ Tell(w, "local")
    /\ UNCHANGED <<git, queue, committer>>

InlineCommit(w) ==
    /\ pc[w] = "inline"
    /\ lock = w
    /\ IsDirty({TopicOf[w]})
    /\ head' = head \cup Of({TopicOf[w]})
    /\ Go(w, "push")
    /\ UNCHANGED <<graph, origin, behind, lock, reply, queue, committer, bounds>>

\* "No changes to commit": the committer was faster.
InlineClean(w) ==
    /\ pc[w] = "inline"
    /\ lock = w
    /\ ~IsDirty({TopicOf[w]})
    /\ lock' = Free
    /\ Tell(w, "local")
    /\ UNCHANGED <<git, queue, committer, bounds>>

InlinePush(w) ==
    /\ pc[w] = "push"
    /\ \/ PushSucceeds /\ Tell(w, "pushed")
       \/ PushFails /\ Tell(w, "unpushed")
    /\ lock' = Free
    /\ UNCHANGED <<queue, committer>>
-----------------------------------------------------------------------------
(* The committer daemon                                                     *)

\* A slip: a batch looks at pending tasks only.
ReadyPendingOnly == {w \in Writes : task[w] = "pending"} \ waiting

\* recover_stale makes old running tasks pending; all due ones can be drained.
Ready == Live \ waiting

\* tick: recover, then drain up to max_batch_size ready tasks.
TickDrains ==
    /\ cpc = "idle"
    /\ \E drained \in SUBSET Ready :
        /\ drained # {}
        /\ Cardinality(drained) = MaxBatch \/ (drained = Ready /\ Cardinality(drained) < MaxBatch)
        /\ batch' = drained
        /\ task' = [w \in Writes |-> IF w \in drained THEN "running"
                                     ELSE IF w \in Ready THEN "pending" ELSE task[w]]
        /\ attempt' = [w \in Writes |-> attempt[w] + (IF w \in drained THEN 1 ELSE 0)]
    /\ cpc' = "batch" /\ known' = TRUE
    /\ UNCHANGED <<git, lock, requests, waiting, due, bounds>>

\* _maybe_reconcile on a tick that drained nothing.
TickSweeps ==
    /\ cpc = "idle"
    /\ Ready = {} /\ due
    /\ due' = FALSE
    /\ cpc' = IF known THEN "sweep" ELSE "idle"
    /\ UNCHANGED <<git, lock, requests, queue, batch, known, bounds>>

Lock(from, to) ==
    /\ cpc = from
    /\ lock = Free
    /\ lock' = Committer /\ cpc' = to
    /\ UNCHANGED <<git, requests, queue, batch, known, due, bounds>>

BatchLock == Lock("batch", "stage")
SweepLock == Lock("sweep", "stage_all")

\* The lock timed out, or git failed before the push: every task fails.
BatchRaises ==
    /\ \/ cpc = "batch" /\ lock # Free /\ UNCHANGED bounds
       \/ cpc = "stage" /\ Fault
    /\ cpc' = "fail"
    /\ UNCHANGED <<git, lock, requests, queue, batch, known, due>>

Topics == {TopicOf[w] : w \in batch}

\* A slip: a clean index means an earlier batch has done the work.
BatchCompletesClean ==
    /\ cpc = "stage"
    /\ ~IsDirty(Topics)
    /\ cpc' = "complete"
    /\ UNCHANGED <<git, lock, requests, queue, batch, known, due, bounds>>

\* Nothing to commit and nothing unpushed: an earlier batch has done the work.
BatchIsDone ==
    /\ cpc = "stage"
    /\ ~IsDirty(Topics) /\ Unpushed = {}
    /\ cpc' = "complete"
    /\ UNCHANGED <<git, lock, requests, queue, batch, known, due, bounds>>

\* Otherwise commit what is dirty; a clean tree is pushed again even when
\* _has_unpushed_commits is merely unsure.
BatchCommit ==
    /\ cpc = "stage"
    /\ head' = head \cup Of(Topics)
    /\ cpc' = "push"
    /\ UNCHANGED <<graph, origin, behind, lock, requests, queue, batch, known, due, bounds>>

BatchPush ==
    /\ cpc = "push"
    /\ \/ PushSucceeds /\ cpc' = "complete"
       \/ PushFails /\ cpc' = "fail"
    /\ UNCHANGED <<lock, requests, queue, batch, known, due>>

\* fail(): attempt >= max_attempts
Exhausted(w) == attempt[w] >= MaxAttempts

\* complete() or fail() of one task of the batch; after the last one the
\* lock is released, and a sweep that was due skips this worktree.
Settle(w) ==
    /\ cpc \in {"complete", "fail"}
    /\ w \in batch
    /\ LET end == IF cpc = "complete" THEN "done"
                  ELSE IF Exhausted(w) THEN "dead" ELSE "pending"
       IN /\ task' = [task EXCEPT ![w] = end]
          /\ waiting' = waiting \cup {v \in {w} : end = "pending"}
    /\ batch' = batch \ {w}
    /\ IF batch = {w} THEN cpc' = "idle" /\ lock' = LeftBy(Committer) /\ due' = FALSE
                      ELSE UNCHANGED <<cpc, lock, due>>
    /\ UNCHANGED <<git, requests, attempt, known, bounds>>

SweepRaises ==
    /\ \/ cpc = "sweep" /\ lock # Free /\ UNCHANGED bounds
       \/ cpc = "stage_all" /\ Fault
    /\ cpc' = "idle" /\ lock' = LeftBy(Committer)
    /\ UNCHANGED <<git, requests, queue, batch, known, due>>

\* A slip: the sweep pushes what it has committed, and only then.
SweepCommitsThenPushes ==
    /\ cpc = "stage_all"
    /\ head' = graph
    /\ \/ Dirty # {} /\ cpc' = "sweep_push" /\ UNCHANGED lock
       \/ Dirty = {} /\ cpc' = "idle" /\ lock' = Free
    /\ UNCHANGED <<graph, origin, behind, requests, queue, batch, known, due, bounds>>

\* Stage and commit everything; push unless surely nothing is unpushed.
SweepCommit ==
    /\ cpc = "stage_all"
    /\ head' = graph
    /\ \/ cpc' = "sweep_push" /\ UNCHANGED lock
       \/ graph \subseteq origin /\ cpc' = "idle" /\ lock' = Free
    /\ UNCHANGED <<graph, origin, behind, requests, queue, batch, known, due, bounds>>

SweepPush ==
    /\ cpc = "sweep_push"
    /\ PushSucceeds \/ PushFails
    /\ cpc' = "idle" /\ lock' = Free
    /\ UNCHANGED <<requests, queue, batch, known, due>>
-----------------------------------------------------------------------------
(* Clocks, other machines, and the death of the server process              *)

\* next_retry_at or the stale timeout of a task has come.
TimeoutPasses(w) ==
    /\ w \in waiting
    /\ waiting' = waiting \ {w}
    /\ UNCHANGED <<git, lock, requests, task, attempt, committer, bounds>>

IntervalPasses ==
    /\ ~due
    /\ due' = TRUE
    /\ UNCHANGED <<git, lock, requests, queue, cpc, batch, known, bounds>>

OthersPush ==
    /\ foreign < MaxForeign
    /\ foreign' = foreign + 1
    /\ behind' = TRUE
    /\ UNCHANGED <<graph, head, origin, lock, requests, queue, committer, crashes, faults>>

\* The process dies and is started again; its lock file is found stale.
Crash ==
    /\ crashes < MaxCrashes
    /\ crashes' = crashes + 1
    /\ pc' = [w \in Writes |-> IF pc[w] \in InFlight THEN "crashed" ELSE pc[w]]
    /\ lock' = Free
    /\ waiting' = waiting \cup {w \in Writes : task[w] = "running"}
    /\ cpc' = "idle" /\ batch' = {} /\ known' = Seeded /\ due' = FALSE
    /\ UNCHANGED <<git, reply, task, attempt, faults, foreign>>

RequestStep(w) ==
    \/ TakeTopic(w) \/ TopicTimeout(w) \/ PullUnderLock(w) \/ PullSkipped(w)
    \/ Operate(w) \/ OperateRaises(w) \/ HandOver(w) \/ CommitInline(w)
    \/ Receipt(w) \/ ReceiptTimeout(w)
    \/ InlineLock(w) \/ InlineGivesUp(w) \/ InlineCommit(w) \/ InlineClean(w) \/ InlinePush(w)

CommitterStep ==
    \/ TickDrains \/ TickSweeps
    \/ BatchLock \/ BatchRaises \/ BatchIsDone \/ BatchCommit \/ BatchPush
    \/ \E w \in Writes : Settle(w)
    \/ SweepLock \/ SweepRaises \/ SweepCommit \/ SweepPush

Next ==
    \/ \E w \in Writes : RequestStep(w) \/ TimeoutPasses(w)
    \/ CommitterStep
    \/ IntervalPasses \/ OthersPush \/ Crash

Spec == Init /\ [][Next]_vars

\* Request threads and the daemon thread run, and clocks advance.
LiveSpec ==
    /\ Spec
    /\ \A w \in Writes : WF_vars(RequestStep(w)) /\ WF_vars(TimeoutPasses(w))
    /\ WF_vars(CommitterStep)
    /\ WF_vars(IntervalPasses)
-----------------------------------------------------------------------------
(* Correctness                                                              *)

CommitterLocked == {"stage", "push", "complete", "stage_all", "sweep_push"}

\* Types.  With them: the committer's lock and batch belong to its place, a
\* request holds the worktree lock only between its pull and its answer, and
\* no task is attempted more than max_attempts times, once more per crash.
TypeOK ==
    /\ graph \subseteq Writes /\ head \subseteq graph /\ origin \subseteq head
    /\ behind \in BOOLEAN /\ known \in BOOLEAN /\ due \in BOOLEAN
    /\ lock \in Writes \cup {Committer, Free}
    /\ lock \in Writes => pc[lock] \in {"operate", "commit", "inline", "push"}
    /\ lock = Committer => cpc \in CommitterLocked \cup {"fail"}
    /\ cpc \in CommitterLocked => lock = Committer
    /\ pc \in [Writes -> InFlight \cup {"idle", "returned", "crashed"}]
    /\ reply \in [Writes -> {"none", "refused", "raised", "local", "accepted", "unpushed", "pushed"}]
    /\ task \in [Writes -> {"none", "pending", "running", "done", "dead"}]
    /\ attempt \in [Writes -> 0..(MaxAttempts + crashes)]
    /\ waiting \subseteq Live
    /\ cpc \in CommitterLocked \cup {"idle", "batch", "fail", "sweep"}
    /\ batch \subseteq {w \in Writes : task[w] = "running"}
    /\ crashes \in 0..MaxCrashes /\ faults \in 0..MaxFaults /\ foreign \in 0..MaxForeign

\* Who has got how far: a write is in the graph from its operation on, its task
\* is queued after that, and nobody is answered before the call returns.
RequestsInv == \A w \in Writes :
    /\ pc[w] \in {"idle", "topic", "operate"} => w \notin graph
    /\ pc[w] \in {"commit", "inline", "push", "receipt"} => w \in graph
    /\ pc[w] = "push" => w \in head /\ lock = w
    /\ pc[w] \in InFlight \cup {"idle"} => reply[w] = "none"

\* What is known of a task: only a task outside a batch has an attempt left.
TasksInv == \A w \in Writes :
    /\ task[w] = "none" => attempt[w] = 0
    /\ task[w] # "none" => w \in graph /\ pc[w] \in {"receipt", "returned", "crashed"}
    /\ task[w] = "done" => w \in origin
    /\ w \in Live \ batch => attempt[w] < MaxAttempts + crashes

\* What a batch has achieved when it gets to its push and to its end.
BatchInv ==
    /\ cpc \notin {"batch", "stage", "push", "complete", "fail"} => batch = {}
    /\ batch \cap waiting = {}
    /\ cpc = "push" => batch \subseteq head
    /\ cpc = "complete" => batch \subseteq origin

\* The inductive invariant behind the properties below: what a request thread
\* and the committer know at each point of their way, whatever the other one,
\* a crash or a failed push has done meanwhile.
WriteInv == TypeOK /\ RequestsInv /\ TasksInv /\ BatchInv

\* A "completed" receipt is never false: the write of a completed commit
\* task is on origin, however often its batch failed, crashed between two
\* complete() calls or was pushed by somebody else (_commit_batch's branch
\* on push state, committer.py:383-397).
CompletedIsOnOrigin == \A w \in Writes : task[w] = "done" => w \in origin

\* run_with_sync implements WriteContract: whatever the pulls, locks, queue,
\* pushes and timeouts do, "pushed" is only answered of a write on origin,
\* "accepted", "unpushed" and a plain return only of one in the graph, and a
\* refused one never gets there; after an exception it may be there or not.
Contract == INSTANCE WriteContract
                WITH stored <- graph, published <- origin, answer <- reply
ContractSpec == Contract!Spec

\* "Data safety here rests entirely on the worktree lock" (middleware.py:840-845):
\* whoever has committed and not pushed yet, and the committer from its look at
\* the tree to its push, is alone in git, though requests also go on without the
\* lock when it times out (middleware.py:536, 921).
AtGit == {w \in Writes : pc[w] = "push"} \cup {p \in {Committer} : cpc \in CommitterLocked}
GitAccess == INSTANCE Mutex WITH Procs <- Writes \cup {Committer}, inside <- AtGit
GitAccessSpec == GitAccess!Spec

\* The commit queue, as the server uses it, forgets no task: one that was handed
\* over stays active through drains, failed batches and crashes until it is
\* completed or dead-lettered, and then stays so.
FateOf(status) ==
    CASE status = "none" -> "new" [] status \in {"pending", "running"} -> "active"
      [] status = "done" -> "done" [] status = "dead" -> "parked"
Fates == [w \in Writes |-> FateOf(task[w])]
CommitQueue == INSTANCE TaskStore WITH Tasks <- Writes, fate <- Fates
CommitQueueSpec == CommitQueue!Spec

\* Nothing that reached the graph is stranded off origin, be it written
\* without the lock, by a thread that died or an operation that raised before it
\* was enqueued, by a task that was dead-lettered, or behind a push that failed: retries and the sweep
\* publish it in the end.
EventuallyOnOrigin == \A w \in Writes : w \in graph ~> w \in origin

\* Every queued commit task ends, a crash in the middle of a batch included.
TasksEnd == \A w \in Writes : task[w] = "pending" ~> task[w] \in {"done", "dead"}
=============================================================================
