---------------------------- MODULE ThreadFiles ----------------------------
(***************************************************************************)
(* What a hosted operation writes, as a function of the files it has read  *)
(* (the pure parts of src/watercooler_mcp/hosted_ops.py).  A hosted thread *)
(* is six files on one branch of a GitHub repository.                      *)
(***************************************************************************)
EXTENDS Integers, FiniteSets

CONSTANTS
    Requests,   \* tool calls; a call is its own agent, and its own ULID when it appends
    Old,        \* the entry a thread may have from the start, the one "remove" deletes
    Other,      \* the agent that holds the ball then, the one a handoff names
    Nobody,     \* no "ball" in meta.json
    Elsewhere,  \* a Decision of another thread: a row of the shared index
    Root,       \* the node of the thread itself, where its CONTAINS edges start
    Absent,     \* the file does not exist
    Unread      \* the call has not read the file

Dir     == {"annotations", "edges", "entries", "meta"}
Paths   == Dir \cup {"md", "index"}
PostIds == Requests \cup {Old}
Balls   == Requests \cup {Other, Nobody}

\* append_entry's operations, the ones that edit meta.json, and the others.
Says   == {"create", "say", "decide"}
Adds   == Says \cup {"ack", "note"}
Edits  == {"close", "pass", "archive", "unarchive"}
Atomic == Adds \cup Edits \cup {"remove"}
AllKinds == Atomic \cup {"annotate", "purge"}

Posts   == [id : PostIds, index : Nat, decision : BOOLEAN]
Headers == [status : {"OPEN", "CLOSED"}, ball : Balls, archived : BOOLEAN,
            count : Nat, notes : SUBSET Requests]
Pages   == [status : {"OPEN", "CLOSED"}, ball : Balls, ids : SUBSET PostIds]

\* What a file can hold.
Contents == [annotations |-> SUBSET Requests,
             edges       |-> SUBSET ((PostIds \cup {Root}) \X PostIds),
             entries     |-> SUBSET Posts,
             meta        |-> Headers,
             md          |-> Pages,
             index       |-> SUBSET (PostIds \cup {Elsewhere})]

ASSUME NamesAssumption ==
    /\ Old \notin Requests /\ Other \notin Requests /\ Nobody \notin Requests
    /\ Elsewhere \notin Requests \cup {Old}
    /\ Absent # Unread

\* The two markers are no file's content.  (TLC cannot ask it of a model value and a set
\* of sets, so it is not an ASSUME but the hypothesis of the theorems.)
MarkersApart == \A f \in Paths : Absent \notin Contents[f] /\ Unread \notin Contents[f]
-----------------------------------------------------------------------------
\* A file that is not there reads as the empty list.
Lines(content) == IF content = Absent THEN {} ELSE content

NewMeta == [status |-> "OPEN", ball |-> Nobody, archived |-> FALSE, count |-> 0, notes |-> {}]
MetaOf(files) == IF files.meta = Absent THEN NewMeta ELSE files.meta

IdsOf(posts) == {e.id : e \in posts}

\* A slip: the number of entries for the next index.
NextFreeByCount(posts) == Cardinality(posts)

\* max(indices, default=-1) + 1.
NextFree(posts) ==
    IF posts = {} THEN 0
    ELSE 1 + (CHOOSE i \in {e.index : e \in posts} : \A e \in posts : e.index <= i)

\* _reconstruct_markdown_from_graph: neither the flag nor the annotations are printed.
Render(meta, posts) == [status |-> meta.status, ball |-> meta.ball, ids |-> IdsOf(posts)]

NewBall(kind, r, meta) ==
    CASE kind \in Says -> r
      [] kind = "ack"  -> meta.ball
      [] OTHER         -> Other

\* _build_per_thread_graph_data with a new entry: meta.json is built anew, so of the
\* old one only the status, the title and the annotations survive (not "archived").
WithPost(kind, r, files) ==
    LET posts == Lines(files.entries)
        meta  == MetaOf(files)
        post  == [id |-> r, index |-> NextFree(posts), decision |-> kind = "decide"]
        prior == {e \in posts : e.index = post.index - 1}
    IN [entries |-> posts \cup {post},
        edges   |-> Lines(files.edges) \cup {<<Root, r>>} \cup {<<e.id, r>> : e \in prior},
        meta    |-> [status |-> meta.status, ball |-> NewBall(kind, r, meta),
                     archived |-> FALSE, count |-> Cardinality(posts) + 1,
                     notes |-> meta.notes]]

\* delete_entry_hosted: the edges of the deleted entry stay.
WithoutOld(files) ==
    LET kept == {e \in Lines(files.entries) : e.id # Old}
    IN [entries |-> kept,
        edges   |-> Lines(files.edges),
        meta    |-> [MetaOf(files) EXCEPT !.count = Cardinality(kept)]]

\* set_status, a handoff without a note, archive and unarchive: {**meta, ...}.
Edited(kind, meta) ==
    CASE kind = "close"     -> [meta EXCEPT !.status = "CLOSED"]
      [] kind = "pass"      -> [meta EXCEPT !.ball = Other]
      [] kind = "archive"   -> [meta EXCEPT !.status = "CLOSED", !.archived = TRUE]
      [] kind = "unarchive" -> [meta EXCEPT !.status = "OPEN", !.archived = FALSE]

WithMeta(kind, files) ==
    [entries |-> Lines(files.entries),
     edges   |-> Lines(files.edges),
     meta    |-> Edited(kind, files.meta)]

Graph(kind, r, files) ==
    IF kind \in Adds THEN WithPost(kind, r, files)
    ELSE IF kind = "remove" THEN WithoutOld(files)
    ELSE WithMeta(kind, files)

OldIsDecision(files) == \E e \in Lines(files.entries) : e.id = Old /\ e.decision

\* The calls that fold the decisions index into their commit.
FoldsIndex(kind, files) == kind = "decide" \/ (kind = "remove" /\ OldIsDecision(files))

\* A slip: the index is rewritten with the call's own row only.
ReindexedAlone(kind, r, seen, index) ==
    IF ~FoldsIndex(kind, seen) \/ seen.index = Unread THEN index
    ELSE IF kind = "decide" THEN {r}
    ELSE Lines(seen.index) \ {Old}

\* What the index becomes: a row more, a row less, or no write of the file.
Reindexed(kind, r, seen, index) ==
    IF ~FoldsIndex(kind, seen) \/ seen.index = Unread THEN index
    ELSE IF kind = "decide" THEN Lines(seen.index) \cup {r}
    ELSE Lines(seen.index) \ {Old}

\* A slip: only a new entry has the markdown rendered.
CommittedUnprojected(kind, r, seen, files) ==
    LET g == Graph(kind, r, seen)
    IN [files EXCEPT !.meta = g.meta, !.entries = g.entries, !.edges = g.edges,
                     !.md = IF kind \in Adds THEN Render(g.meta, g.entries) ELSE @,
                     !.index = Reindexed(kind, r, seen, files.index)]

\* The one commit of _write_per_thread_atomic, over the branch's `files`, when
\* the call has read `seen`.
Committed(kind, r, seen, files) ==
    LET g == Graph(kind, r, seen)
    IN [files EXCEPT !.meta = g.meta, !.entries = g.entries, !.edges = g.edges,
                     !.md = Render(g.meta, g.entries),
                     !.index = Reindexed(kind, r, seen, files.index)]

\* The early returns: no such thread, no such entry.
Refused(kind, files) ==
    \/ kind \in AllKinds \ {"create", "remove", "annotate", "purge"} /\ files.meta = Absent
    \/ kind = "remove" /\ Old \notin IdsOf(Lines(files.entries))
=============================================================================
