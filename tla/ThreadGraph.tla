---------------------------- MODULE ThreadGraph ----------------------------
(***************************************************************************)
(* One thread of the graph-canonical store: the three graph files          *)
(* (meta.json, entries.jsonl, edges.jsonl), the markdown projected from    *)
(* them, and the operations that change them under the topic's advisory    *)
(* lock (src/watercooler/commands_graph.py, baseline_graph/writer.py,      *)
(* storage.py, projector.py, sync.py).                                     *)
(*                                                                         *)
(* Every operation reads the files, and writes them back whole, one        *)
(* rename at a time: a crash or an error can come between any two renames. *)
(* Some of what an operation writes it has read before it took the lock.   *)
(*                                                                         *)
(* The lock is AdvisoryLock seen from outside (AdvisoryLockProofs shows    *)
(* that it excludes while nobody overstays): a file named after who took   *)
(* it, broken when its process is gone or, with Overstay, while its holder *)
(* waits for the language model longer than the writers' ttl of 10 s.      *)
(***************************************************************************)
EXTENDS Integers, Sequences, FiniteSets

CONSTANTS
    Writers,        \* threads and processes that operate on the topic
    Entries,        \* entry ids; every write brings a new one
    Agents,         \* owners of the ball
    Codex,          \* the default owner
    Overstay,       \* whether an enrichment may hold the lock for more than 10 s
    MaxWriteFaults, \* crashes and failed writes in one behaviour
    Thread,         \* the thread's own node id
    NoWriter, NoEntry, NoBall, Missing

ASSUME GraphNamesAssumption ==
    /\ Codex \in Agents /\ NoBall \notin Agents
    /\ NoWriter \notin Writers /\ NoEntry \notin Entries /\ Thread \notin Entries
    /\ Overstay \in BOOLEAN /\ MaxWriteFaults \in Nat
ASSUME MissingAssumption ==
    /\ Missing \notin [count : Nat, ball : Agents]
    /\ Missing \notin [entries : Seq(Entries), ball : Agents]

VARIABLES
    lock,       \* who created the lock file that is there
    meta,       \* meta.json
    entries,    \* entries.jsonl, in file order
    edges,      \* edges.jsonl: pairs of node ids
    md,         \* <topic>.md: what it shows of the graph
    work,       \* work[p]: the operation p is in and what it has read
    used,       \* entry ids given to an operation
    acked,      \* entries whose append_entry() has returned
    writeFaults

graph == <<meta, entries, edges>>
graphVars  == <<lock, graph, md, work, used, acked, writeFaults>>
-----------------------------------------------------------------------------
Ids(s) == [i \in 1..Len(s) |-> s[i].id]
Listed(e, ids) == \E i \in 1..Len(ids) : ids[i] = e

Blank == [meta |-> Missing, entries |-> <<>>, edges |-> {}]
AtRest  == [op |-> "none", step |-> "idle", entry |-> NoEntry, ball |-> NoBall, read |-> Blank]

At(p, step) == work[p].step = step
Step(p, step) == work' = [work EXCEPT ![p].step = step]

\* From taking the lock to giving it back.
Critical(p) == work[p].step \notin {"idle", "acquire"}

Ask(p, op, e, b) ==
    /\ At(p, "idle")
    /\ work' = [work EXCEPT ![p] = [op |-> op, step |-> "acquire", entry |-> e,
                                    ball |-> b, read |-> Blank]]

\* get_next_entry_index and get_last_entry_id, of the entries sorted by index.
NextIndex == IF entries = <<>> THEN 0 ELSE entries[Len(entries)].index + 1
Larger(m, n) == IF m < n THEN n ELSE m

GraphInit ==
    /\ lock = NoWriter
    /\ meta = Missing /\ entries = <<>> /\ edges = {}
    /\ md = Missing
    /\ work = [p \in Writers |-> AtRest]
    /\ used = {} /\ acked = {} /\ writeFaults = 0
-----------------------------------------------------------------------------
(* What a caller does before it asks for the lock.                         *)

\* say and handoff name the ball's new owner; append_entry may leave it alone.
AppendEntry(p, e, b) ==
    /\ e \notin used
    /\ used' = used \cup {e}
    /\ Ask(p, "append", e, b)
    /\ UNCHANGED <<lock, graph, md, acked, writeFaults>>

\* ack reads the thread's ball to pass it on unchanged.
Ack(p, e) ==
    /\ e \notin used
    /\ used' = used \cup {e}
    /\ Ask(p, "ack", e, IF meta = Missing THEN NoBall ELSE meta.ball)
    /\ UNCHANGED <<lock, graph, md, acked, writeFaults>>

\* set_ball, and set_status for the status kept beside the ball.
SetBall(p, b) ==
    /\ Ask(p, "set_ball", NoEntry, b)
    /\ UNCHANGED <<lock, graph, md, used, acked, writeFaults>>

\* init_thread returns at once if the markdown exists.
InitThread(p, b) ==
    /\ md = Missing
    /\ Ask(p, "init", NoEntry, b)
    /\ UNCHANGED <<lock, graph, md, used, acked, writeFaults>>

\* enrich_graph_entry reads the entry, finds it without a summary and has one generated.
Enrich(p, i) ==
    /\ ~entries[i].summary
    /\ Ask(p, "enrich", entries[i].id, NoBall)
    /\ UNCHANGED <<lock, graph, md, used, acked, writeFaults>>
-----------------------------------------------------------------------------
(* The lock                                                                *)

Acquire(p) ==
    /\ At(p, "acquire") /\ lock = NoWriter
    /\ lock' = p
    /\ Step(p, CASE work[p].op \in {"append", "ack", "init"} -> "ensure"
                 [] work[p].op = "set_ball" -> "check"
                 [] work[p].op = "enrich"   -> "load")
    /\ UNCHANGED <<graph, md, used, acked, writeFaults>>

\* A slip: a waiter that lost patience breaks the lock of a live holder.
BreakAnyway(p) ==
    /\ At(p, "acquire") /\ lock # NoWriter
    /\ lock' = NoWriter
    /\ UNCHANGED <<graph, md, work, used, acked, writeFaults>>

\* The lock file has grown old: its process is gone, or waits for the model.
Break(p) ==
    /\ At(p, "acquire") /\ lock # NoWriter
    /\ \/ ~Critical(lock)
       \/ Overstay /\ At(lock, "think") /\ work[p].op # "enrich"
    /\ lock' = NoWriter
    /\ UNCHANGED <<graph, md, work, used, acked, writeFaults>>

\* AdvisoryLock.__enter__ raises TimeoutError.
GiveUp(p) ==
    /\ At(p, "acquire") /\ lock # NoWriter
    /\ work' = [work EXCEPT ![p] = AtRest]
    /\ UNCHANGED <<lock, graph, md, used, acked, writeFaults>>

\* release() unlinks the lock file, whosever it is.
GiveBack(p) ==
    /\ At(p, "release")
    /\ lock' = NoWriter
    /\ acked' = IF work[p].op \in {"append", "ack"} THEN acked \cup {work[p].entry} ELSE acked
    /\ work' = [work EXCEPT ![p] = AtRest]
    /\ UNCHANGED <<graph, md, used, writeFaults>>
-----------------------------------------------------------------------------
(* Reading and writing under the lock                                      *)

\* init_thread_in_graph: a thread node that is there is left alone.
Ensure(p) ==
    /\ At(p, "ensure")
    /\ meta' = IF meta # Missing THEN meta
               ELSE [count |-> 0, ball |-> IF work[p].op = "init" THEN work[p].ball ELSE Codex]
    /\ Step(p, IF work[p].op # "init" THEN "load"
               ELSE IF md = Missing THEN "header" ELSE "release")
    /\ UNCHANGED <<lock, entries, edges, md, used, acked, writeFaults>>

\* A slip: entry_count is set to the new entry's index.
WithEntryUncounted(e) ==
    [meta    |-> IF meta = Missing THEN [count |-> NextIndex, ball |-> Codex]
                 ELSE [meta EXCEPT !.count = Larger(@, NextIndex)],
     entries |-> Append(entries, [id |-> e, index |-> NextIndex, summary |-> FALSE]),
     edges   |-> edges \cup {<<Thread, e>>} \cup
                 (IF entries = <<>> THEN {} ELSE {<<entries[Len(entries)].id, e>>})]

\* upsert_entry_node computes all three files from what it reads.
WithEntry(e) ==
    [meta    |-> IF meta = Missing THEN [count |-> NextIndex + 1, ball |-> Codex]
                 ELSE [meta EXCEPT !.count = Larger(@, NextIndex + 1)],
     entries |-> Append(entries, [id |-> e, index |-> NextIndex, summary |-> FALSE]),
     edges   |-> edges \cup {<<Thread, e>>} \cup
                 (IF entries = <<>> THEN {} ELSE {<<entries[Len(entries)].id, e>>})]

\* enrich_graph_entry reads all three files too, and changes one entry's summary.
WithSummary(e) ==
    [meta    |-> meta,
     entries |-> [i \in 1..Len(entries) |->
                    IF entries[i].id = e THEN [entries[i] EXCEPT !.summary = TRUE]
                    ELSE entries[i]],
     edges   |-> edges]

LoadGraph(p) ==
    /\ At(p, "load")
    /\ LET e == work[p].entry IN
        IF work[p].op # "enrich"
        THEN work' = [work EXCEPT ![p].read = WithEntry(e), ![p].step = "meta"]
        ELSE IF Listed(e, Ids(entries))
        THEN work' = [work EXCEPT ![p].read = WithSummary(e), ![p].step = "think"]
        ELSE Step(p, "release")
    /\ UNCHANGED <<lock, graph, md, used, acked, writeFaults>>

\* The language model decides on the thread's summary, with the lock held.
Think(p) ==
    /\ At(p, "think")
    /\ Step(p, "meta")
    /\ UNCHANGED <<lock, graph, md, used, acked, writeFaults>>

\* write_thread_graph: three renames.
WriteMeta(p) ==
    /\ At(p, "meta")
    /\ meta' = work[p].read.meta
    /\ Step(p, "entries")
    /\ UNCHANGED <<lock, entries, edges, md, used, acked, writeFaults>>

WriteEntries(p) ==
    /\ At(p, "entries")
    /\ entries' = work[p].read.entries
    /\ Step(p, "edges")
    /\ UNCHANGED <<lock, meta, edges, md, used, acked, writeFaults>>

WriteEdges(p) ==
    /\ At(p, "edges")
    /\ edges' = work[p].read.edges
    /\ Step(p, IF work[p].op = "enrich" THEN "release"
               ELSE IF work[p].ball = NoBall THEN "project" ELSE "ball")
    /\ UNCHANGED <<lock, meta, entries, md, used, acked, writeFaults>>

\* set_ball on a thread that is not in the graph calls init_thread, which waits for the
\* lock its caller holds and times out, or finds the markdown and returns.
CheckThread(p) ==
    /\ At(p, "check")
    /\ Step(p, IF meta = Missing THEN "release" ELSE "ball")
    /\ UNCHANGED <<lock, graph, md, used, acked, writeFaults>>

\* A slip: set_ball returns without projecting.
WriteBallOnly(p) ==
    /\ At(p, "ball")
    /\ meta' = IF meta = Missing THEN Missing ELSE [meta EXCEPT !.ball = work[p].ball]
    /\ Step(p, IF work[p].op = "set_ball" THEN "release" ELSE "project")
    /\ UNCHANGED <<lock, entries, edges, md, used, acked, writeFaults>>

\* update_thread_metadata
WriteBall(p) ==
    /\ At(p, "ball")
    /\ meta' = IF meta = Missing THEN Missing ELSE [meta EXCEPT !.ball = work[p].ball]
    /\ Step(p, "project")
    /\ UNCHANGED <<lock, entries, edges, md, used, acked, writeFaults>>

\* project_and_write_thread: the whole markdown, from the files as they are now.
Projection == [entries |-> Ids(entries), ball |-> meta.ball]
Project(p) ==
    /\ At(p, "project")
    /\ md' = IF meta = Missing THEN md ELSE Projection
    /\ Step(p, "release")
    /\ UNCHANGED <<lock, graph, used, acked, writeFaults>>

\* create_thread_file: a header from init_thread's arguments.
WriteHeader(p) ==
    /\ At(p, "header")
    /\ md' = [entries |-> <<>>, ball |-> work[p].ball]
    /\ Step(p, "release")
    /\ UNCHANGED <<lock, graph, used, acked, writeFaults>>
-----------------------------------------------------------------------------
(* A write fails: the writer functions return False, which append_entry     *)
(* turns into an exception for the entry and ignores for the ball and for   *)
(* the thread node; projection lets the exception through.                  *)

Fault == writeFaults < MaxWriteFaults /\ writeFaults' = writeFaults + 1

Raises(p) == \/ work[p].step \in {"meta", "entries", "edges", "project", "header"}
             \/ At(p, "ball") /\ work[p].op = "set_ball"

\* A slip: append_entry ignores that upsert_entry_node returned False.
WriteFailsUnnoticed(p) ==
    /\ Fault
    /\ Raises(p)
    /\ Step(p, IF work[p].step \in {"meta", "entries", "edges"} THEN "project" ELSE "release")
    /\ UNCHANGED <<lock, graph, md, used, acked>>

WriteFails(p) ==
    /\ Fault
    /\ \/ /\ At(p, "ensure") /\ meta = Missing
          /\ Step(p, IF work[p].op = "init" THEN "header" ELSE "load")
       \/ /\ At(p, "ball") /\ work[p].op # "set_ball"
          /\ Step(p, "project")
       \/ /\ Raises(p)
          /\ work' = [work EXCEPT ![p].op = "failed", ![p].step = "release"]
    /\ UNCHANGED <<lock, graph, md, used, acked>>

\* The process dies; its lock file stays.
WriterDies(p) ==
    /\ Fault
    /\ ~At(p, "idle")
    /\ work' = [work EXCEPT ![p] = AtRest]
    /\ UNCHANGED <<lock, graph, md, used, acked>>

GraphNext == \E p \in Writers :
    \/ \E e \in Entries : Ack(p, e) \/ \E b \in Agents \cup {NoBall} : AppendEntry(p, e, b)
    \/ \E b \in Agents : SetBall(p, b) \/ InitThread(p, b)
    \/ \E i \in 1..Len(entries) : Enrich(p, i)
    \/ Acquire(p) \/ Break(p) \/ GiveUp(p) \/ GiveBack(p)
    \/ Ensure(p) \/ LoadGraph(p) \/ Think(p)
    \/ WriteMeta(p) \/ WriteEntries(p) \/ WriteEdges(p)
    \/ CheckThread(p) \/ WriteBall(p) \/ Project(p) \/ WriteHeader(p)
    \/ WriteFails(p) \/ WriterDies(p)

GraphSpec == GraphInit /\ [][GraphNext]_graphVars
-----------------------------------------------------------------------------
(* What the store promises                                                 *)

Ops     == {"none", "append", "ack", "set_ball", "init", "enrich", "failed"}
WorkSteps == {"idle", "acquire", "ensure", "load", "think", "meta", "entries", "edges",
              "check", "ball", "project", "header", "release"}
Metas   == [count : Nat, ball : Agents]
Nodes   == [id : Entries, index : Nat, summary : BOOLEAN]
Edges   == (Entries \cup {Thread}) \X Entries
Snapshots == [meta : Metas \cup {Missing}, entries : Seq(Nodes), edges : SUBSET Edges]
Works   == [op : Ops, step : WorkSteps, entry : Entries \cup {NoEntry},
            ball : Agents \cup {NoBall}, read : Snapshots]

\* Type invariant: the files, and what each operation has read of them.
GraphTypeOK ==
    /\ lock \in Writers \cup {NoWriter}
    /\ meta \in Metas \cup {Missing}
    /\ entries \in Seq(Nodes)
    /\ edges \subseteq Edges
    /\ md \in [entries : Seq(Entries), ball : Agents] \cup {Missing}
    /\ work \in [Writers -> Works]
    /\ used \subseteq Entries /\ acked \subseteq used
    /\ writeFaults \in 0..MaxWriteFaults

\* The append-only graph: whatever writer renames entries.jsonl from whatever it read
\* before, no entry is dropped, moved or renumbered, no summary is lost, and at most one
\* entry is added, at the end, with the next index.
AppendOnly ==
    [][/\ Len(entries) <= Len(entries') /\ Len(entries') <= Len(entries) + 1
       /\ \A i \in 1..Len(entries) :
            /\ entries'[i].id = entries[i].id /\ entries'[i].index = entries[i].index
            /\ entries[i].summary => entries'[i].summary
       /\ \A i \in 1..Len(entries') : entries'[i].index = i - 1]_entries

\* entry_count in meta.json, renamed first, never falls behind entries.jsonl, and runs
\* ahead of it by at most the one entry that a torn write left out.
CountCovers ==
    entries # <<>> => /\ meta # Missing
                      /\ meta.count \in {Len(entries), Len(entries) + 1}

\* An entry whose append returned is whole for good, whatever dies or fails later: it is
\* in entries.jsonl, contained in the thread, linked from its predecessor, and shown in
\* the markdown.
Whole(e) ==
    \E i \in 1..Len(entries) :
        /\ entries[i].id = e
        /\ <<Thread, e>> \in edges
        /\ i > 1 => <<entries[i - 1].id, e>> \in edges
        /\ md # Missing /\ Listed(e, md.entries)
AcknowledgedWhole == \A e \in acked : Whole(e)

\* While nothing has failed, the markdown is the projection of the graph whenever nobody
\* is at work: enrichments, balls and entries of different writers never leave it behind.
MarkdownCurrent ==
    (writeFaults = 0 /\ lock = NoWriter) =>
        (md = IF meta = Missing THEN Missing ELSE Projection)

\* ack "keeps the thread's current ball" (cli.py:1318-1319), "without auto-flipping ball"
\* (commands_graph.py:422): writing the ball on behalf of ack changes nothing.
AckKeepsBall ==
    [][\A p \in Writers : (At(p, "ball") /\ work[p].op = "ack") => meta' = meta]_graphVars

\* The lock seen from outside: of those who operate on a topic one at a time reads and
\* writes, and nobody starts before the other has finished, failed or died
\* (commands_graph.py:97, 200, 564, 615; AdvisoryLock shows the lock itself to be such a Mutex).
AtWork == {p \in Writers : Critical(p)}
TopicLock == INSTANCE Mutex WITH Procs <- Writers, inside <- AtWork
TopicLockSpec == TopicLock!Spec

\* The three renames of an append, the reads before them and the enrichments between them
\* amount to one step: the thread is a log to which each write adds its entry once.
Log == INSTANCE EntryLog WITH log <- Ids(entries), confirmed <- acked
LogSpec == Log!Spec
=============================================================================
