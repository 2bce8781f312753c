------------------------------ MODULE Migration ------------------------------
(***************************************************************************)
(* `watercooler migrate t1` (src/watercooler/migration): copying the       *)
(* embeddings of entries from the local graph up to the hosted one (or     *)
(* making them anew), and from the hosted graph down to the local one.     *)
(* Each direction has a checkpoint file, to which the id of an entry is    *)
(* appended after the entry was copied, and which later runs, and runs of  *)
(* other processes, skip.  A run is a process that may die at any point.   *)
(*                                                                         *)
(* Entries are numbered in the order of their ids.  Dry runs write nothing *)
(* and are left out; so are several hosted or local graphs under one       *)
(* checkpoint file, and nodes deleted from a graph.                        *)
(***************************************************************************)
EXTENDS Integers, FiniteSets

CONSTANTS
    Movers,      \* processes that run the command
    MaxEntries,
    PageSize,    \* rows of a page of the hosted graph
    Limits,      \* what --limit is called with, 0 for no cap
    MaxTroubles  \* failed or lost requests, unreadable threads and deaths of a run

ASSUME MigrationAssumption ==
    /\ MaxEntries \in Nat /\ PageSize \in Nat \ {0}
    /\ Limits \subseteq Nat /\ MaxTroubles \in Nat

VARIABLES
    branch,   \* the entries on the orphan branch
    rows,     \* rows[e]: the hosted node of e
    nodes,    \* the entries with a node in the local graph
    marked,   \* marked[d]: the checkpoint file of direction d
    mover,    \* mover[p]: the run of process p
    gap,      \* a thread that could not be read was passed over
    troubles  \* bounded by MaxTroubles

stores == <<branch, rows, nodes>>
migrationVars == <<branch, rows, nodes, marked, mover, gap, troubles>>
-----------------------------------------------------------------------------
Numbers    == 1..MaxEntries
Directions == {"hybrid", "stdio"}
Going      == {"fetch", "scan", "write", "mark"}

\* A node without an embedding is not listed, one whose embedding is no list of numbers is
\* dropped from the list, one with an embedding of another dimension is an error.
RowKinds == {"none", "broken", "short", "good"}

\* A run: the direction, the ids loaded from the checkpoint, the entries at hand and those
\* of them with a short embedding, the row after which the next page starts and whether there
\* is one, the entry being copied, --limit, how many it has tried, whether errored is 0.  due
\* is what there was to copy when it started.
Runs == [step : Going \cup {"idle", "done"}, to : Directions,
         seen : SUBSET Numbers, batch : SUBSET Numbers, short : SUBSET Numbers,
         after : 0..MaxEntries, more : BOOLEAN, item : 0..MaxEntries,
         limit : Nat, scanned : Nat, clean : BOOLEAN, due : SUBSET Numbers]

NoRun == [step |-> "idle", to |-> "hybrid", seen |-> {}, batch |-> {}, short |-> {}, after |-> 0,
          more |-> FALSE, item |-> 0, limit |-> 0, scanned |-> 0, clean |-> TRUE, due |-> {}]

Good         == {e \in Numbers : rows[e] = "good"}
Arrived(d)   == IF d = "hybrid" THEN Good ELSE nodes
ToCopy(d)    == IF d = "hybrid" THEN branch ELSE Good
In(p, s)     == mover[p].step = s

\* The entries that may be the next: those of the branch come thread by thread, the rows of a
\* page in order.
Following(run) ==
    IF run.to = "hybrid" THEN run.batch ELSE {e \in run.batch : \A f \in run.batch : e <= f}

MigrationInit ==
    /\ branch \in SUBSET Numbers /\ nodes \in SUBSET branch
    /\ rows \in [Numbers -> RowKinds] /\ \A e \in Numbers \ branch : rows[e] = "none"
    /\ marked = [d \in Directions |-> {}]
    /\ mover = [p \in Movers |-> NoRun]
    /\ gap = FALSE /\ troubles = 0

Trouble == troubles < MaxTroubles /\ troubles' = troubles + 1

Becomes(p, run) == mover' = [mover EXCEPT ![p] = run]

\* The entry is passed over with an error.
Erred(run) == [run EXCEPT !.step = "scan", !.clean = FALSE]

\* migrate_t1_to_hybrid() and migrate_t1_to_stdio() load the checkpoint.  The first has the
\* entries of the branch before it, the second asks for a page.
StartMove(p, d, n) ==
    /\ mover[p].step \in {"idle", "done"}
    /\ Becomes(p, [NoRun EXCEPT !.step = IF d = "hybrid" THEN "scan" ELSE "fetch", !.to = d,
                              !.seen = marked[d], !.batch = IF d = "hybrid" THEN branch ELSE {},
                              !.limit = n, !.due = ToCopy(d)])
    /\ UNCHANGED <<stores, marked, gap, troubles>>

\* A slip: the cursor is taken from what is fit to be sent.
FetchFiltered(p) ==
    /\ In(p, "fetch")
    /\ \E last \in Numbers \cup {MaxEntries} :
        LET page == {e \in Numbers : e > mover[p].after /\ e <= last /\ rows[e] # "none"}
            sent == {e \in page : rows[e] # "broken"}
        IN  /\ last = MaxEntries \/ last \in page
            /\ Cardinality(page) = PageSize \/ (last = MaxEntries /\ Cardinality(page) < PageSize)
            /\ Becomes(p, [mover[p] EXCEPT !.step = "scan", !.batch = sent, !.after = last,
                           !.short = {e \in page : rows[e] = "short"},
                           !.more = Cardinality(sent) = PageSize])
    /\ UNCHANGED <<stores, marked, gap, troubles>>

\* The rows after the cursor, in order, as many as a page has room for; a full page names
\* its last row, whether its embedding was fit to be sent or not.
FetchPage(p) ==
    /\ In(p, "fetch")
    /\ \E last \in Numbers \cup {MaxEntries} :
        LET rest   == {e \in Numbers : e > mover[p].after /\ rows[e] # "none"}
            page   == {e \in rest : e <= last}
            full   == last \in page /\ Cardinality(page) = PageSize
        IN  /\ full \/ (last = MaxEntries /\ Cardinality(page) < PageSize)
            /\ Becomes(p, [mover[p] EXCEPT !.step = "scan",
                           !.batch = {e \in page : rows[e] # "broken"},
                           !.short = {e \in page : rows[e] = "short"},
                           !.after = IF full THEN last ELSE @, !.more = full])
    /\ UNCHANGED <<stores, marked, gap, troubles>>

\* An answer that is an error, or none, ends the run with an error.
FetchFails(p) ==
    /\ In(p, "fetch") /\ Trouble
    /\ Becomes(p, [mover[p] EXCEPT !.step = "done", !.clean = FALSE])
    /\ UNCHANGED <<stores, marked, gap>>

\* An entry in the checkpoint is skipped, --limit ends the run, one with a short
\* embedding is an error.  After the last one comes the next page, or the end.
Scan(p) ==
    /\ In(p, "scan")
    /\ LET run == mover[p] IN
       \/ /\ run.batch = {}
          /\ Becomes(p, [run EXCEPT !.step = IF run.more THEN "fetch" ELSE "done"])
       \/ \E e \in Following(run) :
          LET passed == [run EXCEPT !.batch = @ \ {e}]
              tried  == [passed EXCEPT !.scanned = @ + 1]
              capped == run.limit > 0 /\ run.scanned >= run.limit
          IN  \/ e \in run.seen /\ Becomes(p, passed)
              \/ e \notin run.seen /\ capped /\ Becomes(p, [run EXCEPT !.step = "done"])
              \/ e \notin run.seen /\ ~capped /\ e \in run.short /\ Becomes(p, Erred(tried))
              \/ e \notin run.seen /\ ~capped /\ e \notin run.short
                 /\ Becomes(p, [tried EXCEPT !.step = "write", !.item = e])
    /\ UNCHANGED <<stores, marked, gap, troubles>>

\* scan_orphan_entries() passes over a thread it cannot read, without an error.
SkipUnreadable(p) ==
    /\ In(p, "scan") /\ mover[p].to = "hybrid" /\ Trouble
    /\ \E thread \in SUBSET mover[p].batch \ {{}} :
        Becomes(p, [mover[p] EXCEPT !.batch = @ \ thread])
    /\ gap' = TRUE
    /\ UNCHANGED <<stores, marked>>

\* The node is made, or replaced: MERGE on the entry's id.
Upsert(p) ==
    IF mover[p].to = "hybrid"
    THEN rows' = [rows EXCEPT ![mover[p].item] = "good"] /\ UNCHANGED <<branch, nodes>>
    ELSE nodes' = nodes \cup {mover[p].item} /\ UNCHANGED <<branch, rows>>

\* A slip: the entry is marked before it is copied.
MarkFirst(p) ==
    /\ In(p, "write")
    /\ marked' = [marked EXCEPT ![mover[p].to] = @ \cup {mover[p].item}]
    /\ \/ Upsert(p) /\ UNCHANGED troubles
          /\ Becomes(p, [mover[p] EXCEPT !.step = "scan", !.seen = @ \cup {mover[p].item}])
       \/ Trouble /\ Becomes(p, Erred(mover[p])) /\ UNCHANGED stores
    /\ UNCHANGED gap

\* The upsert succeeds; or it fails, or the embedding cannot be made; or its answer is lost.
WriteNode(p) ==
    /\ In(p, "write")
    /\ \/ Upsert(p) /\ Becomes(p, [mover[p] EXCEPT !.step = "mark"]) /\ UNCHANGED troubles
       \/ Trouble /\ Becomes(p, Erred(mover[p])) /\ (Upsert(p) \/ UNCHANGED stores)
    /\ UNCHANGED <<marked, gap>>

\* Checkpoint.add(): the id is appended, or the file cannot be written.
MarkDone(p) ==
    /\ In(p, "mark")
    /\ \/ /\ marked' = [marked EXCEPT ![mover[p].to] = @ \cup {mover[p].item}]
          /\ Becomes(p, [mover[p] EXCEPT !.step = "scan", !.seen = @ \cup {mover[p].item}])
          /\ UNCHANGED troubles
       \/ Trouble /\ Becomes(p, Erred(mover[p])) /\ UNCHANGED marked
    /\ UNCHANGED <<stores, gap>>

KillMover(p) ==
    /\ mover[p].step \in Going /\ Trouble
    /\ Becomes(p, NoRun)
    /\ UNCHANGED <<stores, marked, gap>>

\* Meanwhile an entry is written; the runs that have still to read its thread come to it.
PostElsewhere(e) ==
    /\ e \notin branch
    /\ branch' = branch \cup {e}
    /\ \E S \in SUBSET {p \in Movers : mover[p].step \in Going /\ mover[p].to = "hybrid"} :
        mover' = [p \in Movers |->
                    IF p \in S THEN [mover[p] EXCEPT !.batch = @ \cup {e}] ELSE mover[p]]
    /\ UNCHANGED <<rows, nodes, marked, gap, troubles>>

\* Or embedded, by the server.
EmbedElsewhere(e) ==
    /\ e \in branch /\ rows[e] = "none"
    /\ rows' = [rows EXCEPT ![e] = "good"]
    /\ UNCHANGED <<branch, nodes, marked, mover, gap, troubles>>

MigrationNext ==
    \/ \E e \in Numbers : PostElsewhere(e) \/ EmbedElsewhere(e)
    \/ \E p \in Movers :
        \/ \E d \in Directions, n \in Limits : StartMove(p, d, n)
        \/ FetchPage(p) \/ FetchFails(p) \/ Scan(p) \/ SkipUnreadable(p)
        \/ WriteNode(p) \/ MarkDone(p) \/ KillMover(p)

MigrationSpec == MigrationInit /\ [][MigrationNext]_migrationVars
-----------------------------------------------------------------------------
MigrationTypeOK ==
    /\ branch \subseteq Numbers /\ rows \in [Numbers -> RowKinds] /\ nodes \subseteq Numbers
    /\ marked \in [Directions -> SUBSET Numbers]
    /\ mover \in [Movers -> Runs]
    /\ gap \in BOOLEAN /\ troubles \in 0..MaxTroubles

\* An entry in a checkpoint file, which every later run skips, has been copied, wherever runs
\* died or failed ("The checkpoint is written AFTER each successful upsert returns", t1.py:128).
MarkedHasArrived == \A d \in Directions : marked[d] \subseteq Arrived(d)

\* "errored: 0 is the success criterion" (docs/MIGRATION.md:312): when a run without --limit
\* ends so and no thread was unreadable, everything there was to copy when it started has
\* arrived, whatever earlier runs have left undone and whatever is written while it runs.
CleanIsComplete ==
    \A p \in Movers :
        (In(p, "done") /\ mover[p].clean /\ mover[p].limit = 0 /\ ~gap)
            => mover[p].due \subseteq Arrived(mover[p].to)
=============================================================================
