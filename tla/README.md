# Verification of watercooler

Watercooler keeps conversation threads of agents and people as files in a git
worktree and serves them through an MCP server.  The parts whose correctness is
hard to test are those where threads, processes, files and git meet: an advisory
lock made of a file, a store made of three files and a projection, a task queue
made of a map and three files, and a write path on which request threads and a
committer daemon share one worktree.  In hosted mode there is no worktree and no
lock: calls read and commit a thread's files through GitHub's API and depend on
compare-and-set, and the server runs a key cache, one fleet of daemons per
repository, and scopes that come and go.  Behind all of them daemons turn entries into
Decisions, with nothing but a log and their checkpoints to survive a restart.  This directory holds TLA+ models of
those parts, the TLC configurations that check them, and proofs checked by TLAPS.

Paths are relative to the repository's `src/` (the code is in `src/watercooler`
and `src/watercooler_mcp`); `PROJECT.json` maps every definition that models
code to the lines it stands for, and lists the hazards of the code line by line.

How to run, from this directory:

    tlc -config MCWritePath_safe.cfg MCWritePath     # or any other run
    tlapm WritePathProofs.tla     # or any other module named ...Proofs

## 1. The system

### Components that are modelled

| Component | Code | State | Operations | Module |
|---|---|---|---|---|
| Advisory lock | `watercooler/lock.py`, `commands.unlock` | a lock file: who created it, its mtime; per user: the next system call, time waited | acquire, release, `with`, unlock | `AdvisoryLock`, abstract `Mutex` |
| Thread graph store | `commands_graph.py`, `baseline_graph/writer.py`, `storage.py`, `projector.py` | `meta.json`, `entries.jsonl`, `edges.jsonl`, `<topic>.md` | init_thread, append_entry (say, handoff), ack, set_ball / set_status | `ThreadGraph`, abstract `EntryLog` |
| Enrichment | `baseline_graph/sync.py` | what it read before it called the language model | enrich_graph_entry | `ThreadGraph` |
| Memory task queue | `memory_queue/queue.py`, `task.py` | the task map; `queue.jsonl`, `dead_letter.jsonl`, `task_receipts.jsonl` | enqueue, dequeue, complete, fail, recover_stale, retry_dead_letters, load | `MemoryTaskQueue`, abstract `TaskStore` |
| Task worker | `memory_queue/worker.py` | what each thread executes, the stop event | start, stop, the dequeue/execute/settle cycle | `MemoryTaskQueue` |
| Write path | `middleware.py` (`run_with_sync`) | per call: where its thread is, what it answered | pull, operate, hand over or commit inline, push, wait for a receipt | `WritePath`, abstract `WriteContract` |
| Committer daemon | `daemons/committer.py` | its batch, the worktrees it knows, the time of its last sweep | tick, _commit_batch, _maybe_reconcile, _reconcile | `WritePath` |
| Git primitives | `sync/primitives.py`, `sync_common.py` | the worktree, its branch, origin | pull_ff_only, pull_rebase, push_with_retry, staging | `WritePath` |
| Hosted operations | `hosted_ops.py`, `github_api.py` (`commit_files`, `put_file`, `delete_file`) | six files on a branch; per call: the blobs it has read, its next request, its conflicts | say, ack, handoff, set_status, archive, delete_entry, delete_thread, append_annotation | `ThreadFiles`, `HostedThread`, abstract `SerialThread` |
| HMAC key resolver | `auth/hmac_resolver.py` | the cache entry, the event of the leader, the revoked-in-flight mark | resolve, flush | `KeyResolver` |
| Fleet scheduler | `daemons/hosted_fleet.py` | the fleet, its identity and worktree, what is due, in flight, submitted, running | ensure_fleet, the scheduler's pass, a pool thread's tick | `HostedFleet` |
| Scope coordinator | `daemons/hosted_coordinator.py`, `hosted_worktree.py` | the scope map, registrations under way, the clone directory, the reaper | ensure_scope, touch, the idle reaper, teardown, stop | `HostedScopes` |
| Decision detector and extractor | `daemons/decision_detector.py`, `decision_extractor.py`, `daemon_write.py`, `daemons/state.py` | the log of findings, both checkpoints in memory and on disk, the keys of what is reported, the batch | both ticks, append and acknowledge findings, save and load a checkpoint, write a Decision | `DecisionPipeline` |
| Daemon life cycle | `daemons/base.py` | the status, the thread, the events stop, wake and paused; where the loop is | start, stop, pause, resume, wake; the loop between two ticks | `DaemonLoop` |
| Migration of embeddings | `migration/t1.py`, `checkpoint.py`, `_orphan.py`, `_remote.py`, `hosted_semantic.py` (list, upsert) | two checkpoint files, the hosted nodes, the local nodes; per run: the ids it skips, the entries at hand, its cursor, its error count | `migrate t1` in both directions | `Migration` |

How they interact:

- Every writer of a thread takes the topic's `AdvisoryLock`; every pull, commit and
  push takes the worktree's.  `ThreadGraph` and `WritePath` see the lock from
  outside, as a variable that names its holder; `AdvisoryLock` is what happens
  inside, and `AdvisoryLockProofs` shows under which circumstances the outside view
  is right.  What the two make of it is a `Mutex` again, of the work done under it.
- `run_with_sync` calls one of `ThreadGraph`'s operations while it holds the topic
  lock and, if it got it, the worktree lock.  `WritePath` sees that operation as one
  step that puts a write into the graph, as `EntryLog` allows it.
- `run_with_sync` hands its commit to the committer through a `MemoryTaskQueue`
  and may wait for the receipt.  `WritePath` sees the queue's operations as whole
  steps; `MemoryTaskQueue` has the file writes inside them.
- Origin is shared with other machines, which push to it at any time.
- Hosted calls share a branch with each other and with the calls on other threads of the
  repository; what keeps them apart is that `commit_files` compares the blob shas a call has
  read with the tip it makes its parent, and that the branch only moves forward.
- The detector reads a thread's files and reports candidates in the log; the extractor reads
  the log, asks a language model, and appends Decisions to the same thread, which makes the
  detector look at it again.
- A migration reads the same orphan branch as everybody else, or the hosted graph page by page,
  while entries are written and embedded; its runs share nothing but the checkpoint file.
- The committer, the detector and the extractor tick in the loop of `DaemonLoop`; `WritePath` and
  `DecisionPipeline` take from it that one thread at a time calls `tick()`.
- The request threads of a hosted server ask the key resolver first, then touch the fleet of
  their repository (or their scope), whose daemons tick on a pool of their own.

### What is hard

- *Interleaving*: waiters that judge one stale lock file; several threads on one
  queue; the committer and a request thread committing one worktree inline.
- *State read too early*: the ball an `ack` passes on; the graph an enrichment writes
  back after a model call; a lock file judged stale some time ago; a batch that finds
  a clean index.
- *Torn reads*: a hosted call reads its files one request at a time; a fleet or a scope is
  in the map before its clone and its daemons are there; a key is revoked while it is fetched.
- *Checkpoints*: what a daemon has scanned, reported and extracted is recorded in three files
  at three moments, all of them later than the deed.
- *Crashes*: between two renames of the graph files, between two of the queue's file
  writes, between a push and the completion of its tasks, between storing an entry
  and queueing its commit.  Lock files of the dead stay behind.
- *Partial failure*: nearly all writers swallow exceptions into `False` or a log line.
- *Lost answers*: a commit that GitHub made and whose answer did not come.
- *Timeouts and retries*: lock timeouts after which the write goes on unlocked, stale
  timeouts that put a running task back, receipt timeouts, pushes that are rejected,
  or reported as failed although they reached origin.
- *Limits*: queue depth, batch size, attempt budget, the trimmed receipts file.

### Components that are not modelled

| Component | Why, or when |
|---|---|
| Daemon manager (`daemons/manager.py`) | calls start, stop and the queries of `DaemonLoop` for each of its daemons |
| Bulk ingestion checkpoint (`memory_queue/checkpoint.py`) | exported by its package and used nowhere in `src/` |
| Sync repair (`sync_repair.py`) | planned as one more actor of `WritePath` |
| Promotion and belief authority (`promotion.py`, `blessed_projection.py`, ...) | planned as operators checked against a reference definition |
| Hosted reconciliation (`reconcile_*_hosted`, `build_decision_index_hosted`, `write_thread_hosted`) | maintenance commands: they rebuild files from others with the same guarded commit; left out of `HostedThread` |
| Request routing (`hosted_rpc.py`, `server_http.py`) | dispatch without state of its own |
| Read cache, sessions | maps with expiry, each operation atomic under one mutex |
| Decision index, readers, search, federation | queries and derived indexes; pure functions of the files |
| Other analysis daemons, memory backends, Slack | calls to models and remote services; their control is the daemon loop and the queue |
| Secrets, capability checks, tools, CLI, configuration | decisions and wiring without state of their own |

## 2. The modules

### AdvisoryLock and Mutex

One instance is one lock path.  A lock is taken by creating the file exclusively
(`OpenCreates`), after which the pid is written (`WritePid`) with a `write_text` that
would also recreate the file; it is given back by unlinking the path, whoever made
the file (`Release`).  A waiter that finds the file looks at its mtime (`CheckStale`)
and unlinks it in a later step (`Unlink`); with `force_break` it does not look.
`UnlockChecks`/`UnlockRemoves` are `watercooler unlock`.  `Crash` and `WritePidFails`
leave the file behind.  `Tick` lets the file, the waits and the holds grow older
together; ages stop counting at the value beyond which no comparison can tell them
apart, so time needs no bound.  `Mutex` is the abstract lock.

Exclusion cannot hold unconditionally, because the file is all there is.  `Cooperative`
names the circumstances under which it does: nobody forces, no lock file is left
behind, and no hold is longer than the shortest ttl used on the path.

### MemoryTaskQueue and TaskStore

The mutex of the queue makes each operation one action on the map; the file writes it
owes follow one by one (`step`), so that a crash can come between any two of them and
each may fail if its file is in `Faulty`.  While a write is owed the mutex is taken.
Time is kept as the facts the code asks of it: `waiting` for next_retry_at, `fresh` for
updated_at against the stale timeout, `aged` for the throttle limit.  `Start` and `Stop`
are the worker's: `Stop` lets a thread finish what it executes, and `Start` refuses
while one still does.  Executions end in success, error, a permanent error or
throttling, in any order; with `Slow` they may outlast the stale timeout.

`TaskStore` says what becomes of a task: new, active, then done or parked, parked
tasks may be revived, and no action forgets one.  The refinement (`StoreSpec`) reads the
task's fate from the *files*: what a crash would leave at that moment.

### ThreadGraph and EntryLog

One topic.  Each rename of a graph file is a step, between taking the lock and giving
it back; what a caller read before the lock (ack's ball, the entry to be enriched) is
in `work[p]`.  `write_thread_graph` renames `meta.json` first, then `entries.jsonl`, then
`edges.jsonl`; the projection follows.  `Break` removes the lock file of a process that
died or, with `Overstay`, of one that waits for the language model longer than the
appenders' ttl of 10 seconds.  `WriteFails` follows the code in what each caller does
with a `False`: raise for the entry, go on for the ball and the thread node.

`EntryLog` is the promise of the store: a log that grows at its end, by each entry at most once,
and has an entry before its writer is told.  `LogSpec` reads the log from `entries.jsonl` alone and
the acknowledgements from `acked`, so that all other steps of the writers must be stutters of it.
`TopicLockSpec` says that those who work on a topic (`AtWork`) are a `Mutex`.

### WritePath and WriteContract

One worktree, one topic lock per topic, the worktree lock, one committer, and any set
of calls of `run_with_sync`.  A call takes its topic lock or is refused; pulls under
the worktree lock and keeps that lock, or goes on without it after a timeout; operates;
hands over to the committer and answers "accepted" or waits for the receipt, or
commits and pushes on its own thread.  The operation may raise (`OperateRaises`) before it has
written anything or after its entry is in the graph, which is where `ThreadGraph!WriteFails` leaves
it; no task names such a write, and a later commit of its topic or the sweep publishes it.  The committer drains a batch, locks, stages its
topics, commits, pushes, and settles its tasks one by one; on an idle tick after the
reconcile interval it sweeps the whole worktree.

What git holds is told by three sets of writes: in the worktree (`graph`), in the branch
(`head`), on origin (`origin`), and by whether the branch is behind.  Whether the branch can
be rebased depends on unstaged changes, and those on which topics git tracks already
(`Unstaged`, `CanPull`): this is what lets a push fail for good while another topic's
files lie uncommitted.  A push that fails by a fault may have reached origin.

Abstractions: stage and commit are one step; a write of another machine is only "the
branch is behind", and conflicts with it do not arise, as it touches other topics;
authentication and conflict errors end like any other failed push; stash, checkout
and parity repair of the primitives are left out; a crash frees the locks at once
(`AdvisoryLock` has the wait for the ttl); `Seeded` says that the worktree is the one the
sweep covers without a task.

`WriteContract` has only stored writes, published writes and answers: "pushed" is
answered of a published write, "local", "accepted" and "unpushed" of a stored one,
and a refused write, one that did not get its topic lock, is never stored.  An exception out of
the operation ("raised") leaves open whether the write is stored, and if it is it may be published like
any other.  Two more abstractions show a part of the write path each:
`GitAccessSpec` says that whoever stands between its commit and its push (`AtGit`) is alone
there, a `Mutex`; `CommitQueueSpec` that the commit queue, as this path uses it, is a `TaskStore`.

### ThreadFiles, HostedThread and SerialThread

`ThreadFiles` holds what an operation writes, as a function of the files it has read: the
new entry's index, the new `meta.json` (built anew for an entry, edited otherwise), the
edges, the markdown, the row of the shared decisions index.  `HostedThread` is the calls
that do so, every API request a step.  The operations that touch several files read
`meta.json`, `entries.jsonl`, `edges.jsonl`, and the index if a Decision is involved
(`ReadMeta` ... `ReadIndex`), compare the blobs they read with the tip they will build on
(`CheckParent`), and move the branch (`MoveBranch`); a sha is the file's content, so equal
shas are equal contents.  A conflict starts the call over, up to `DEFAULT_MAX_RETRIES` times.
An annotation is appended to its own file (`AppendNote`) and then copied into `meta.json`
(`EmbedNotes`), and a thread is deleted file by file (`DeleteFile`).  Other threads of the
repository move the branch or add to the index at any time; a request may fail, and the
answer to one that did its work may be lost (`RequestFails`, `AnswerLost`).

`SerialThread` is the promise: a call takes effect at most once, in one step, on the files
of that step, and "ok" is answered only if it did.  Left out: listing, reading and search,
the manifest, the Slack mirror, the text of an enrichment, and the maintenance commands.

### KeyResolver

The cache of one key id.  A step is a section under the resolver's lock or the HTTP request.
A miss is fetched by the thread that installs the event (`Lead`), the others wait and read
the cache again.  `Flush` empties the cache and marks a fetch under way; the mark keeps its
answer out of the cache (`Keep`) and is dropped by the two finally clauses (`DropMark`,
`Release`).  Expiry times are abstracted to whether the entry has expired.

### HostedFleet

The fleet of one repository.  `CreateFleet` publishes it, `CloneTree` and `Schedule` follow outside
the lock, and `TouchFleet` may bring another tenant's token between any two of them.
`CollectDue` submits what is due, not gated by idleness and not in flight; the pool begins
and ends ticks.  `stop()` and what a tick does are left out.

### HostedScopes

The incarnations of one scope.  Registration goes on outside the coordinator's lock
(`Clone`, `Publish`, `StartDaemons`) while the reaper (`PickIdle` ... `RemoveTree`) or `stop()` takes the
scope down.  All incarnations share one clone directory on disk (`directory`), and each only
knows whether it holds a worktree object (`tree`).  A clone that fails leaves nothing new, but a git
killed at its 60 s timeout leaves a "partial" directory that its worktree never names; the next
incarnation takes it over or removes it.  `alive` is the incarnations whose daemons nobody has told to
stop: a thread in its tick ends after it, as `DaemonLoop` has it.  Configuration, status, findings queries and
`refresh_if_stale` are left out, and no scope is created after `stop()`.

### DecisionPipeline

One thread of a local worktree, the detector and the extractor.  The detector reads the
entries (`ReadEntries`), later looks at `meta.json` (`Score`), appends what it found
(`AppendFindings`) and saves what it scanned (`SaveAudit`); between any two of these entries are
posted, summarised or decided, and the process may die.  An audit is "never", "current" or
"outdated", which is all the code asks of the recorded mtime; `Steady` says that no summary
comes between the detector's two looks.  The extractor takes the first candidates of the log's
ranking (`PickCandidates`), treats each (`SkipForGood`, `Reject`, `WriteDecision`,
`WriteUnverified`, `FailCounted`, `FailUncounted`), and moves its cursor at the end of the tick
(`EndTick`).  `uncounted` and `writtenToday` are history: the code keeps neither.  Crashes, failed
appends and saves, and failures that no counter counts share the bound `MaxMishaps`; counted
failures are not bounded.  Left out: the hosted ticks, how an entry is scored and judged, the
compaction of the log and with it the removal of findings it dropped from the cursor
(`_gc_processed_source_keys`), and the other daemons that use the same log and checkpoints.

### Migration

Runs of `watercooler migrate t1` in both directions, any number at once.  A run loads the ids of
its checkpoint file (`StartMove`) and has the entries of the branch before it, or asks the server
for pages (`FetchPage`); at each entry it skips, stops at --limit, or goes on to the upsert
(`Scan`, `WriteNode`), after which it appends the id to the file (`MarkDone`).  A row of the
hosted graph is "broken" if its embedding is no list of numbers, and then it is dropped from the
page, though not from the count that decides whether there is another one; it is "short" if it
has another dimension, which is an error.  Entries are written and embedded meanwhile, a run that
has not read their thread yet comes to them.  A run may die anywhere; a request may fail or its
answer be lost; an unreadable thread is skipped (`gap`).  `due` is history: what there was to
copy when the run started.  Left out: `migrate t2`, dry runs, the cost counters, and nodes that
are deleted from a graph.

### DaemonLoop

The loop of one daemon and the calls that steer it, one step for each event that is set, cleared
or looked at.  `loopAt` is where a loop thread is: at the head (`top`), waiting to be unpaused, past
the second look at the stop (`unpaused`), `asleep`, woken with the wake not yet cleared (`awake`),
before the third look (`cleared`), in the `tick`, in the sleep after a failed one (`backoff`).
`caller` is where the thread is that makes the calls.  A join is given up only while the loop is
in a tick or in its backoff, which is what can take that long.  An interval may end at any moment.
`owed` is history.  `Hasty` lets `start()` be called on a daemon that is starting or paused, which
nothing in `src/` does.  Left out: a disabled daemon, several callers, and the managed mode.

### Modules that compose for TLC

`MCGuards` runs `AdvisoryLock`, `HostedThread` and `Migration`, `MCStores` the queue, the graph and
the decision pipeline, `MCServices` the lock under faults, the resolver, the fleet and the scopes,
`MCBackground` the queue, the pipeline and the daemon loop under fairness.  In each the parts share
nothing, a behaviour is about one of them (`focus`), and the others do not move; the states
are the disjoint union of the parts', so nothing is lost or gained by the composition.

## 3. The runs

| Run | Instance | Shows |
|---|---|---|
| `guards_safe` | lock: 3 users (one that never waits) and an operator, ttl 2, holds of at most 2; hosted: 2 calls of any kind with one failed request or lost answer, or 3 of create, decide, remove without; 2 tries; migration: up to 3 entries, pages of 2, one run with a trouble or two without | exclusion, the file names its holder, implements `Mutex`; calls are serializable, numbering, projection, decisions index and annotations agree; a migration that reports no error has copied everything |
| `hosted_settled` | 2 annotation calls, no failed request | **violation**: the older of two copies wins and stays |
| `services` | lock: 2 users, an operator with --force, 2 crashes or failed pid writes; resolver: 2 threads; fleet: 2 tenants, 2 daemons, one pool thread; scopes: 3 incarnations; fair | every acquire returns, every orphan is broken; a revoked key stays out, fetches give way; the identity reaches the worktree, one tick at a time, due daemons tick; a worktree made or taken over is given back, also when gits are killed half-way |
| `lock_break_race` | 3 users with short holds, one crash | **violation**: two waiters break one dead holder's file, the second one unlinks the first one's fresh lock |
| `queue_crash` | 2 tasks, 2 threads, slow executions, one crash, one recovery, one revival | no accepted task is lost, every end is visible, the attempts are bounded, implements `TaskStore` |
| `stores` | queue: 2 tasks with one key, 2 threads, failing saves, one crash and one revival; graph: 2 writers, 3 entries, 2 crashes or failed writes; findings: 2 entries, a batch of two, every other limit one, one mishap | one active task per key until a revival; nothing executed twice or at once until a crash; the graph is append-only, its count never behind, acknowledged entries whole, markdown current; nothing reported twice, nothing skipped unreported, one extraction per entry and mishap, the day's cap |
| `background_live` | queue: 2 tasks, a consumer that recovers every tick; findings: a batch of one, 2 entries without a mishap or one entry with one; loop: one daemon, any calls; fair | every accepted task is executed or parked; every candidate is extracted or given up, and the checkpoint says so; a loop told to stop ends, a wake is followed by a tick |
| `queue_stuck` | 1 task, a consumer that recovers at start only; fair | **violation**: a RUNNING task found fresh by a quick restart stays RUNNING |
| `graph_overstay` | 2 writers, enrichment slower than 10 s | **violation**: an acknowledged entry is overwritten |
| `graph_ack` | 2 writers | **violation**: an ack undoes another writer's flip of the ball |
| `write_safe` | 3 writes of 2 topics, depth 2, batch 2, 2 attempts; a crash, a fault, a push of others | completed tasks are on origin, implements `WriteContract` |
| `write_live` | 2 writes of 2 topics, depth 1, batch 1, 2 attempts; the same events; fair | every stored write reaches origin, every task ends |

Why the bounds are enough to be interesting: two waiters and a dead holder are needed
for the lock race, and there are three users; a ttl of two ticks separates fresh from
stale by more than one clock reading.  Two tasks are enough for the order of dequeue,
for a key held by another task, and for a revival over an active task; `MaxReceipts = 1`
makes trimming happen in `stores`, 2 keeps a receipt long enough for its reader.
Three entries are needed to append after an entry a torn write left out.  In
`write_safe` the third write goes through neither the topic nor the committer of the
first, and a queue of two with a batch of two lets a batch be settled half; in
`write_live` a queue of one forces the inline path.  Crashes, faults, recoveries, revivals
and foreign pushes are bounded by the constants `Max...`; nothing else is cut off.
Two hosted calls are enough for every race on one file; the third one, which decides or
removes while two others do, is needed for the shared index and for renumbering, and two
tries make a call give up (`Apart` and `Paced` in `MCGuards` keep the larger of the two cases
without faults).  Two entries are enough for a finding that keeps another one out of the batch,
for a scan cut short by its cap and for a day's cap that puts one of them off; `Apart` in
`MCBackground` keeps the case of two without mishaps.  Three incarnations let one be torn down while its successor registers
and a third one waits for the directory.
The migration has one entry more than fits in a page, and one page whose rows are all there but
not all fit to be sent.
Type invariants that are proved for every instance are no longer among the runs' properties.
Deadlock is checked in the two lock runs and in the runs over `MCGuards`, where a call that
has replied may stutter; the others end when all entries, tasks or writes have been used.

The mutants in `PROJECT.json` name, for every property, a slip of the code (the
definitions marked "A slip") that breaks it.

### Fairness

- Lock: time passes, waiting users are scheduled, and users keep coming back;
  nobody has to run `unlock`.  Without the return of a user an orphan stays, since the
  waiters' 60 s timeout ends before the 120 s ttl.
- Queue: weak fairness for the file writes of an operation that has the mutex, for the
  loading of a restarted process and for clocks; *strong* fairness for what has to take
  the mutex (dequeue, settle, recover, start), which is enabled again and again but not
  always.  `CommitterSpec` adds recovery on each tick, as `committer.py:165` does;
  `WorkerSpec` has it at start only, as `worker.py:183-185` does.
- Services: the lock as above; in the resolver each thread that has missed goes on (the
  HTTP request has a timeout); in the fleet the scheduler's pass and the end of a tick are
  weakly fair, and *strongly* fair is the beginning of a submitted tick, since another
  daemon may take the pool's only thread again and again, which a FIFO pool prevents.
  Scopes need none: only safety is claimed of them.
- Decision pipeline: both loops keep ticking whatever a tick raises (`base.py:269-320` counts the
  error and goes on), and days end.  Nothing makes an attempt succeed: `EveryCandidateSettled`
  rests on the caps.
- Daemon loop: the loop's thread and a call that has begun go on, and ticks end; an event wakes
  those who wait for it.  Nobody has to call anything, and without `tick_on_interval` the sleep
  ends by a wake only.
- Write path: weak fairness of each request thread, of the daemon thread, and of the
  clocks.  Locks, pushes and pulls need none of their own: each wait ends in a timeout,
  and faults are finite.

## 4. Findings

Real disagreements between the code and its documentation, each shown by a run:

1. `lock_break_race`: the stale break of `AdvisoryLock` has the very race
   (stat, then unlink) for which `sync/__init__.py:119-122` says the manual break
   was removed.
2. `queue_stuck`: "reset to PENDING" after the stale timeout (`worker.py:83-84`) happens
   only if the timeout has passed by the time of `start()`.
3. `graph_overstay`: `enrich_graph_entry` promises that its lock covers the
   read-modify-write cycle (`sync.py:1376-1378`), but appenders break that lock by their
   own ttl of 10 s while the model is asked; the appended entry is lost.
4. `graph_ack`: "without auto-flipping ball" (`commands_graph.py:422`), but the ball is
   read before the lock.
5. `hosted_settled`: an annotation is copied into `meta.json` after it was appended, and on a
   conflict only `meta.json` is read again (`hosted_ops.py:2506-2524`); when two copies change
   places the older state stays, although `hosted_ops.py:1294-1296` calls it the latest.

Known limits of the code, met while modelling and reachable in the models with other
constants:

- Holders slower than the ttl are broken in the lock as in the graph; the committer
  pushes with retries under a lock of ttl 120 s.  `unlock` without --force judges by the
  default ttl of 30 s (`commands.py:200`).  After a timeout on the worktree lock a write goes
  on without it (`middleware.py:533`), although `committer.py:13` says that all worktree
  mutation is serialized by it; `WritePath` includes this.
- `retry_dead_letters` ignores the depth limit and the keys of active tasks, so the
  queue can exceed `max_depth` (`queue.py:277`) and hold one key twice (`task.py:285`).
- Attempts go beyond `max_attempts` by one for each recovery.
- A swallowed failure of the dead-letter append loses the task (`queue.py:552`).
- BULK tasks carry no entry_id and are never deduplicated (`queue.py:149`,
  `tools/memory.py:1497-1510`).
- `set_ball` on a thread that is not in the graph waits for its own lock
  (`commands_graph.py:615-621`).
- A dead-lettered commit task may never have been committed, although the caller is
  told "committed locally" (`middleware.py:312-314`); the sweep commits it later.
- A first write to a worktree that is not the seed, lost between operation and enqueue,
  is not swept (`committer.py:209-215` calls it a residual edge): `EventuallyOnOrigin` fails
  with `Seeded = FALSE`.
- Hosted: a say on an archived thread drops `archived` (`meta.json` is built anew); deleting a
  thread leaves its rows in the decisions index, which `decision_index.py:9-10` says can never
  drift; after a purge that failed half-way a status change leaves a count that no entry
  backs; `put_file` without a sha on a file that appeared meanwhile answers 422, which is not
  retried; a caller whose answer was lost is told of a failure though the call took effect.
- Migration: "`errored: 0` is the success criterion" (`docs/MIGRATION.md:312`), but a thread that
  cannot be read (`_orphan.py:49-51`) and a malformed embedding (`_remote.py:205-210`,
  `hosted_semantic.py:969-972`) are passed over without being counted: `CleanIsComplete` has to
  exclude the one (`gap`) and does not owe the other.  The default checkpoint file is one for all
  repositories and graphs (`t1.py:215`, `391`), so what was copied to one target is skipped for
  another unless --checkpoint names a file of its own.
- Two server processes on one queue directory are only warned of (`queue.py:49`); each saves its
  own map over the other's.
- An exception out of a write does not mean that nothing was written: an append can raise after
  `entries.jsonl` was renamed (`commands_graph.py:302-315`), a handoff between the ball and its entry
  (`thread_write.py:668-686`).  The caller is told of a failure, no commit task names the write, and a
  later commit or the sweep publishes it; a retry under a new `entry_id` makes a second entry.
- Scopes: a daemon is told to stop and waited for up to 10 s; one that is still in its tick then
  goes on to its end while its clone is removed.  `StopDaemons` stands for the telling.
- Scopes: a git clone killed after 60 s leaves a partial directory (`hosted_worktree.py:169-196`).  The
  worktree sets `_clone_dir` only on success (184), so neither `cleanup()` (272) nor a teardown removes it:
  `TakenIsGivenBack` excludes it.  The next incarnation takes it for a finished clone if there is a
  `.git` in it (145-151); "Remove stale partial clone" (153) is reached only without one.
- Scopes: a clone directory found on disk is taken for one of "a previous process lifecycle"
  (`hosted_worktree.py:146`) and may be the one the reaper is about to remove: `LiveTreeStays`,
  stated in `HostedScopes`, fails.
- Fleet: when `pool.submit` raises, the daemons collected after it stay in flight.
- Daemon loop: `start()` on a paused daemon finds a status other than RUNNING and starts a
  second loop (`base.py:121`; nothing in `src/` pauses one); a `stop()` that times out leaves the
  status RUNNING, so that a later `start()` returns without starting.  With `Hasty = TRUE` two calls
  of `start()` in a row make two loops, although `tests/unit/test_daemon_base.py:66` calls that
  idempotent: the second finds STARTING.  A loop that is asleep when `pause()` comes makes one more
  tick, although "next tick will block until resumed" (`base.py:164`), and pausing and resuming a
  stopped daemon leaves it RUNNING without a thread.
- Findings: a failed append drops the tick's findings, since the threads' state has
  been recorded in memory and is saved on the error path too (`base.py`); they are reported
  when the thread changes after the keys have been read from the log again.
- A summary written between the detector's two looks at its thread (`decision_detector.py:230`) is
  recorded as scanned: `SkippedIsReported` fails with `Steady = FALSE`.
- "Anything else is treated as infrastructure and maps to the write-failure counter"
  (`decision_extractor.py:67-68`), and so does `docs/DECISION_GATES.md:109-114`; but an unknown
  `error_type`, an exception (656-680) and a candidate Note without a body count for
  neither cap, and such a candidate stays in front of the others.  `FailuresCapped` states the
  comment's claim and fails with one mishap.
- `retry_dead_letters` whose rewrite of the dead-letter file fails revives a task that stays in
  the file and can be revived again while it is executed, so `ExecutorsExclusive` needs that file to
  be writable (the assumption of `OneExecutor`).

## 5. The proofs

The proof modules prove safety for every value of the constants that satisfies the
named assumptions of the component's module.  Some of the properties proved are about the parts of a
run's model and listed as no run's property: `GitAccessSpec`, `CommitQueueSpec`, `TopicLockSpec`,
`LogSpec`, `NoWakeIsLost`, `NoStopIsSlept`, `NoKeyAfterFlush`, `SettledForGood`, `DepthBounded` and
`RepliesTrue`.  They can be added to the configuration of that run to see them hold on its instance.

`AdvisoryLockProofs` proves `TypeCorrect` for all users.  The other theorems assume
`Cooperative`.  `ExclusionInv` is inductive: at most one process owns the file, the file is
there exactly while it has an owner, its content is the owner's, its age is at most
the owner's time since it stamped it, and nobody is about to unlink it.  Exclusion
alone is not inductive: the step that could break it is the unlink of a file judged
stale, and the reason it is never taken is the relation between the file's age, the
owner's hold and the waiters' ttls.  `Exclusion`, `InfoNamesHolder` and `ImplementsMutex`
follow.

`MemoryTaskQueueProofs` proves `QueueInvariant`.  `QueueInv` says which operation may
owe which write and what it knows of its task (`OpInv`); that a pending task can be
charged one more attempt, in the map and in the file a crash would bring back
(`BudgetInv`: `AttemptsWithinBudget` alone is not inductive, since `Dequeue` charges and
`Load` restores older counts); and, while writes succeed, how the map and the files
differ (`FilesInv`): an active task that is not stored is the one being enqueued or one
being revived, a stored task that is not active is the one being ended, and it stays
stored until it has been executed or parked.  `NoLoss` alone would not survive `Persist`,
which overwrites the file with a map that may lack the task.  `NothingLost`,
`AttemptsBounded` and `ImplementsTaskStore` follow; the last one and `NothingLost` assume or
state that no file is in `Faulty`, the others hold whatever fails.  Four more inductive
invariants rest on `QueueInv`.  `KeysInv` has the uniqueness of keys in the map *and* in the
log file, since a restart makes the file the map (`KeysStayUnique`).  `ReceiptsInv` adds to
`OutcomeVisible` that the receipt is there before the task leaves the log file
(`OutcomesVisible`).  `ExecutionInv` says, while no process died and nothing outlasts the stale timeout,
that what is executed is running, fresh, nobody else's and not parked, and that a revival in
the making is all that parked and active tasks have in common; from it follow `OneExecutor` and
`NeverExecutedAgain`.  `DepthInv` counts: until a revival there are at most `MaxDepth` active tasks and at
most as many in the file (`Fits`).  It has to
speak of the file too, since a restart makes the file the map, and of finite sets, since
the cardinality of anything else says nothing (`DepthStaysBounded`).

`WritePathProofs` proves `WriteInvariant`.  `WriteInv` has four parts: the types, with who
may hold the worktree lock at which point; what each request thread knows
(`RequestsInv`: a write in its own push is in the branch and has the lock); what is known
of each task (`TasksInv`: a done task's write is on origin; a task outside a batch has an
attempt left); and what the batch has achieved when it gets to its push and its end
(`BatchInv`: it is in the branch at the push, on origin at completion, and none of its
tasks waits for a clock).  `CompletedIsOnOrigin` by itself is not inductive: `Settle` may
complete a task only because the whole batch is known to be on origin, which holds
only because the batch was in the branch when the push began, and that because what
is staged covers the topics of the batch and the entries were in the graph before
their tasks were queued.  From `WriteInv` follow `TypeCorrect`, `CompletedOnOrigin` and,
step by step, `ImplementsContract`: an answer's honesty is `RequestsInv` or the receipt's
`TasksInv`, a refused write has never been at its operation (after one that raised the contract
promises nothing), and both outcomes of a push publish only writes of the graph
(`PushFacts`).  `GitUnderLock` follows from the part of `WriteInv` that says who is at git: whoever gets
there holds the worktree's lock, and those who go on without it are not there.
`NoCommitLost` rests on `TasksInv`, by which only a write without a task is handed over, and on the
types, by which the batch that is settled is running; a drain, a failed batch and a crash move a task
only between pending and running.

`HostedThreadProofs` proves, for any number of calls of any kinds, `CallsInv` and then
`RepoInv`.  `CallsInv` says where each call is, what it has read there, that it was not refused
on what it read, and the one fact all else rests on: a call about to move the branch whose
parent is still the tip has read exactly what the branch holds (`Unchanged`).  It survives
because everything that changes a file empties `fresh`.  `RepoInv` adds what the operations then
do to the files: consecutive indices in a finite set of entries (so that the next one is
free), and a markdown that shows what the graph holds.  `ProjectionMatches` is not inductive
without `Unchanged`: nobody compares the markdown's sha, and it is right only because the
files it is rendered from are compared.  `EntriesNumbered`, `MarkdownMatches`, `DecisionsAreListed`,
`AnnotationsAreKept` and the refinement `CallsSerializable` follow.  `RepliesTellTheTruth` is about the
caller's view: only the step that moves the branch posts a call's entry (`CommitPosts`), that very step is answered with "ok", or its answer is lost and it is an error,
and of the other steps only those of a purge touch the entries (`AnswersKept`, `AnswersStep`); that a call
in `append`, `embed` or `unlink` is an annotation or a purge is `CallsInv`.  The hypothesis `MarkersApart`
(the markers for "no file" and "not read" are no file's content) is not an ASSUME, since TLC
cannot evaluate it on model values; with model values it holds.

`ServicesProofs` proves `ResolverInv` for any number of threads: the threads at work on a
fetch are exactly the one named by the event, and an answer from before a flushed
revocation is marked until it has been dropped.  `RevokedStaysOut` alone is not
inductive: `Keep` stores what was fetched earlier.  `NoKeyReturned` is what a request sees of it: a
thread that hits the cache or reads it again returns what `RevokedStaysOut` says is in it.

It proves `FleetInv`: besides the types, the worktree's token differs from the
fleet's only where `Schedule` is still to bring it up, and a daemon in flight has
one tick, submitted or running, and any other none.  For the scopes it proves `ScopesInv`, from
which `ScopesGiveBack` follows: a clone that a worktree has made or taken over is in somebody's hands
(a registration about to publish it, the scope's entry, the reaper's victim), a partial one is in
nobody's, and until `stop()` only daemons of the scope and of the victim have not been told to stop.  Both rest on `RegistrationInv`: a scope is not idle before it is
registered, so an unfinished registration whose scope is gone was overtaken by `stop()`, after
which nothing new is created.

`ThreadGraphProofs` proves, for any number of writers, entries, crashes and failed writes, first
`TypeInv` (which operation can be at which step), which holds whatever happens.  `GraphInv` assumes
`~Overstay`; without it the run `graph_overstay` shows the violation.  It says that whoever is past
its `acquire` owns the lock, that entries are indexed by their place and counted by meta.json
(`Indexed`, `Counts`), and what a writer at each step knows (`Knows`): what it has read, and is going
to write, continues the files it has not written yet, and what it has written is in them.
`AcknowledgedWhole` alone is not inductive, since `WriteMeta` to `WriteEdges` replace whole files
with what was read steps ago.  `AcknowledgedIsWhole`, `CountIsCovered` and `EntriesAppendOnly` follow.
`WritersExclude` needs only that who is past its `acquire` owns the lock.  `ImplementsEntryLog` needs
all of it: the rename of `entries.jsonl` is the abstract append because what the writer read is still
what is there (`Knows`), and its entry is not in it yet because no two operations bring the same one
(`LogInv`).
`MarkdownInv` (with `MarkdownIsCurrent`) says the same of the markdown while nothing has failed:
whatever changes the graph under the lock comes to `project` before it releases.

`DecisionPipelineProofs` proves two invariants.  `DetectorInv`: an entry with an open finding is in
the dedup keys unless these are still to be read, what is about to be logged has none
(`ReportInv`), and what the checkpoint calls scanned is in the log or about to be (`ScanInv`).
`ExtractorInv`: an entry not yet recorded as done has at most as many Decisions as there
were mishaps (`RememberInv`), and the checkpoint on disk lags behind the day's Decisions by at most
one batch for each mishap, and the one in the making (`DailyInv`).  That a batch is no larger
than the room the day has is `ForemostFacts`: the chosen candidates map one-to-one to
the number of candidates in front of them.  `SavedInv` says that the checkpoint on disk is never ahead
of the one in memory.  With `ExtractorInv`, by which the candidate at hand is not done with,
`SettledStaysSettled` follows.

For the daemon loop `ServicesProofs` proves `OneLoopAtATime`, if nobody is `Hasty`: `LoopInv` says
that a loop that runs is the one in `_thread` and keeps the status from STOPPED, which is what
`start()` asks for, and that there is none while `start()` is under way or `stop()` has joined it.  On it rest the two facts
that make the loop's liveness possible: a wake is seen before it is cleared for good (`NoWakeLost`), and a
loop that is told to stop does not wait (`NoStopSlept`, by `StopInv`: what `stop()` has set so far at each
of its steps, and what a pause or resume that follows a timed-out join undoes).

`MigrationProofs` proves `MigrationInv`: what a checkpoint file lists has arrived
(`CheckpointIsTrue`), and while a run has seen no error, has no limit and skipped no thread, each
entry it owes has arrived or is `Pending`: at hand, being written, or in a row after the cursor.
`CleanIsComplete` speaks of the end of a run only, and is the case in which nothing is pending.
The cursor's part rests on the page being counted before it is filtered; the skips rest on
`MarkedHasArrived`, which in turn needs that a run at its mark has seen the upsert confirmed.
`OtherRuns` is why runs do not disturb each other: whatever one of them does only adds.

All safety properties of the runs that pass are proved in this way.  Only model-checked is what
the prover does not reach: liveness (fairness and ENABLED), of which `NoWakeLost`, `NoStopSlept` and
`NoCommitLost` are only the safe half.  Induction over recursive
definitions is beyond it too, but the models contain none.

## 6. Plan

In this order; each new module comes with its run or its part of one, properties, slips and
proof.

1. `sync_repair` as an actor of `WritePath`, and a second worktree.
2. The promotion ladder as operators checked against a reference definition.
3. The maintenance commands of `hosted_ops.py` as further calls of `HostedThread`.

Composition stays as it is now: the lock and the queue are abstracted where they are
used, and each abstraction is justified by a refinement (`Mutex`, `TaskStore`, `EntryLog`, `SerialThread`), which
the modules that use a lock or a queue implement in their turn, or, for the whole, by a
contract (`WriteContract`).
