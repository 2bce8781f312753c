---------------------------- MODULE HostedThread ----------------------------
(***************************************************************************)
(* The hosted operations on one thread (src/watercooler_mcp/hosted_ops.py) *)
(* over the GitHub API (github_api.py).  There is no lock: a call reads    *)
(* the files it needs, one request each, and commits all it writes in one  *)
(* commit that carries the blob shas it read; a call that lost a race      *)
(* starts over.  A sha is the file's content, so equality of shas is       *)
(* equality of contents.                                                   *)
(*                                                                         *)
(* Every API request is a step.  Other threads of the repository share the *)
(* branch, so it may move at any time; a request may fail, and the answer  *)
(* to one that did its work may be lost.                                   *)
(***************************************************************************)
EXTENDS ThreadFiles

CONSTANTS
    KindsOf,    \* KindsOf[r]: the operations call r may ask for
    MaxTries,   \* DEFAULT_MAX_RETRIES
    MaxLosses   \* failed requests and lost answers in one behaviour

ASSUME HostedAssumption ==
    /\ KindsOf \in [Requests -> SUBSET AllKinds]
    /\ MaxTries \in Nat \ {0} /\ MaxLosses \in Nat

VARIABLES
    repo,       \* the thread's files on the branch
    fresh,      \* calls whose commit still has the tip of the branch as its parent
    asked,      \* asked[r]: the operation the call asks for
    at,         \* at[r]: its next API request, or what it has replied
    got,        \* got[r]: the files as the call has read them
    tries,      \* tries[r]: conflicts in the loop the call is in
    todo,       \* todo[r]: the files delete_thread_hosted has still to delete
    failed,     \* the delete_thread_hosted calls that could not delete one
    losses

calls      == <<asked, at, got, tries, todo, failed>>
hostedVars == <<repo, fresh, calls, losses>>
-----------------------------------------------------------------------------
Replies == {"ok", "refused", "conflict", "error"}
Reads   == {"meta", "entries", "edges", "index"}
Requested == Reads \cup {"check", "patch", "notes", "append", "resync", "embed",
                         "list", "fetch", "unlink"}

First(kind) == IF kind \in Atomic THEN "meta"
               ELSE IF kind = "annotate" THEN "notes" ELSE "list"

Nothing == [f \in Paths |-> Unread]

\* The call goes on to `step` having read `seen`.
Goes(r, step, seen) ==
    /\ at'  = [at EXCEPT ![r] = step]
    /\ got' = [got EXCEPT ![r] = seen]

Reply(r, answer) == Goes(r, answer, Nothing)

\* The blobs the call has read are the ones on the branch.
Unchanged(r) == \A f \in Paths : got[r][f] = Unread \/ got[r][f] = repo[f]

\* A commit moves the branch: nobody's parent is its tip any more.
Moves(files) == repo' = files /\ fresh' = {}

\* GitHubConflictError: read everything again, up to DEFAULT_MAX_RETRIES times.
StartOver(r, step, giveUp) ==
    /\ tries' = [tries EXCEPT ![r] = @ + 1]
    /\ IF tries[r] + 1 < MaxTries THEN Goes(r, step, Nothing) ELSE Reply(r, giveUp)

EmptyRepo == [f \in Paths |-> Absent]
OldPost(decision) == [id |-> Old, index |-> 0, decision |-> decision]
OldMeta == [status |-> "OPEN", ball |-> Other, archived |-> FALSE, count |-> 1, notes |-> {}]
OldRepo(decision) ==
    [annotations |-> Absent,
     edges       |-> {<<Root, Old>>},
     entries     |-> {OldPost(decision)},
     meta        |-> OldMeta,
     md          |-> Render(OldMeta, {OldPost(decision)}),
     index       |-> IF decision THEN {Old} ELSE Absent]

HostedInit ==
    /\ repo \in {EmptyRepo, OldRepo(TRUE), OldRepo(FALSE)}
    /\ fresh = {} /\ failed = {} /\ losses = 0
    /\ asked \in [Requests -> AllKinds] /\ \A r \in Requests : asked[r] \in KindsOf[r]
    /\ at    = [r \in Requests |-> First(asked[r])]
    /\ got   = [r \in Requests |-> Nothing]
    /\ tries = [r \in Requests |-> 0]
    /\ todo  = [r \in Requests |-> {}]
-----------------------------------------------------------------------------
(* The atomic operations: read, build, check the shas, move the branch.    *)

\* _read_per_thread_graph: one request a file; nothing makes them one snapshot.
Seen(r, f) == [got[r] EXCEPT ![f] = repo[f]]

ReadMeta(r) ==
    /\ at[r] = "meta"
    /\ Goes(r, "entries", Seen(r, "meta"))
    /\ UNCHANGED <<repo, fresh, asked, tries, todo, failed, losses>>

ReadEntries(r) ==
    /\ at[r] = "entries"
    /\ Goes(r, "edges", Seen(r, "entries"))
    /\ UNCHANGED <<repo, fresh, asked, tries, todo, failed, losses>>

ReadEdges(r) ==
    /\ at[r] = "edges"
    /\ LET seen == Seen(r, "edges")
       IN \/ Refused(asked[r], seen) /\ Reply(r, "refused")
          \/ ~Refused(asked[r], seen) /\ FoldsIndex(asked[r], seen) /\ Goes(r, "index", seen)
          \/ ~Refused(asked[r], seen) /\ ~FoldsIndex(asked[r], seen) /\ Goes(r, "check", seen)
    /\ UNCHANGED <<repo, fresh, asked, tries, todo, failed, losses>>

\* A row that is not there needs no pruning, and then the index is not guarded either.
ReadIndex(r) ==
    /\ at[r] = "index"
    /\ IF asked[r] = "remove" /\ Old \notin Lines(repo.index)
       THEN Goes(r, "check", got[r])
       ELSE Goes(r, "check", Seen(r, "index"))
    /\ UNCHANGED <<repo, fresh, asked, tries, todo, failed, losses>>

\* A slip: commit_files without expected_blob_shas, which then only sees the branch
\* move between its own first and last request.
CheckParentOnly(r) ==
    /\ at[r] = "check"
    /\ Goes(r, "patch", got[r])
    /\ fresh' = fresh \cup {r}
    /\ UNCHANGED <<repo, asked, tries, todo, failed, losses>>

\* commit_files 1 and 1b: the tip becomes the parent, its tree is compared.
CheckParent(r) ==
    /\ at[r] = "check"
    /\ \/ /\ Unchanged(r)
          /\ Goes(r, "patch", got[r])
          /\ fresh' = fresh \cup {r}
          /\ UNCHANGED tries
       \/ /\ ~Unchanged(r)
          /\ StartOver(r, "meta", "conflict")
          /\ UNCHANGED fresh
    /\ UNCHANGED <<repo, asked, todo, failed, losses>>

\* commit_files 5: fast-forward or 422.
MoveBranch(r) ==
    /\ at[r] = "patch"
    /\ \/ /\ r \in fresh
          /\ Moves(Committed(asked[r], r, got[r], repo))
          /\ Reply(r, "ok")
          /\ UNCHANGED tries
       \/ /\ r \notin fresh
          /\ StartOver(r, "meta", "conflict")
          /\ UNCHANGED <<repo, fresh>>
    /\ UNCHANGED <<asked, todo, failed, losses>>
-----------------------------------------------------------------------------
(* append_annotation_hosted: append to annotations.jsonl, then copy what   *)
(* was appended into meta.json (_sync_annotations_to_meta_hosted).         *)

ReadNotes(r) ==
    /\ at[r] = "notes"
    /\ Goes(r, "append", Seen(r, "annotations"))
    /\ UNCHANGED <<repo, fresh, asked, tries, todo, failed, losses>>

\* What the call appends to the lines it read; the copy is made of the same text.
WithNote(r) == Lines(got[r].annotations) \cup {r}

\* A slip: the file is put whatever is there now.
AppendNoteOver(r) ==
    /\ at[r] = "append"
    /\ Moves([repo EXCEPT !.annotations = WithNote(r)])
    /\ Goes(r, "resync", [got[r] EXCEPT !.annotations = WithNote(r)])
    /\ tries' = [tries EXCEPT ![r] = 0]
    /\ UNCHANGED <<asked, todo, failed, losses>>

\* put_file with the sha it read: 409 for another blob; without a sha and a file in
\* the way, 422, which is not retried.
AppendNote(r) ==
    /\ at[r] = "append"
    /\ \/ /\ Unchanged(r)
          /\ Moves([repo EXCEPT !.annotations = WithNote(r)])
          /\ Goes(r, "resync", [got[r] EXCEPT !.annotations = WithNote(r)])
          /\ tries' = [tries EXCEPT ![r] = 0]
       \/ /\ ~Unchanged(r) /\ got[r].annotations # Absent
          /\ StartOver(r, "notes", "conflict")
          /\ UNCHANGED <<repo, fresh>>
       \/ /\ ~Unchanged(r) /\ got[r].annotations = Absent
          /\ Reply(r, "error")
          /\ UNCHANGED <<repo, fresh, tries>>
    /\ UNCHANGED <<asked, todo, failed, losses>>

\* Without a meta.json there is nothing to update.
ReadHeader(r) ==
    /\ at[r] = "resync"
    /\ IF repo.meta = Absent THEN Reply(r, "ok") ELSE Goes(r, "embed", Seen(r, "meta"))
    /\ UNCHANGED <<repo, fresh, asked, tries, todo, failed, losses>>

\* Only meta.json is guarded; a conflict reads it again, never annotations.jsonl.
EmbedNotes(r) ==
    /\ at[r] = "embed"
    /\ \/ /\ repo.meta = got[r].meta
          /\ Moves([repo EXCEPT !.meta = [repo.meta EXCEPT !.notes = got[r].annotations]])
          /\ Reply(r, "ok")
          /\ UNCHANGED tries
       \/ /\ repo.meta # got[r].meta
          /\ tries' = [tries EXCEPT ![r] = @ + 1]
          /\ IF tries[r] + 1 < MaxTries
             THEN Goes(r, "resync", [got[r] EXCEPT !.meta = Unread])
             ELSE Reply(r, "ok")
          /\ UNCHANGED <<repo, fresh>>
    /\ UNCHANGED <<asked, todo, failed, losses>>
-----------------------------------------------------------------------------
(* delete_thread_hosted: the directory's files one by one, each with the   *)
(* sha it has when its turn comes, and at last the markdown.               *)

ListFiles(r) ==
    /\ at[r] = "list"
    /\ LET present == {f \in Dir : repo[f] # Absent}
       IN IF present = {} THEN Reply(r, "refused") /\ UNCHANGED todo
          ELSE /\ Goes(r, "fetch", Nothing)
               /\ todo' = [todo EXCEPT ![r] = present \cup {"md"}]
    /\ UNCHANGED <<repo, fresh, asked, tries, failed, losses>>

\* The directory is listed in alphabetical order; the markdown comes last.
Order == [annotations |-> 1, edges |-> 2, entries |-> 3, meta |-> 4, md |-> 5]
Turn(r) == CHOOSE f \in todo[r] : \A g \in todo[r] : Order[f] <= Order[g]

\* On to the next file; the markdown is only deleted when nothing failed, and its own
\* failure is passed over.
Passes(r, missed) ==
    LET f == Turn(r)
        rest == todo[r] \ {f}
        bad == r \in failed \/ (missed /\ f # "md")
    IN /\ failed' = IF bad THEN failed \cup {r} ELSE failed
       /\ todo' = [todo EXCEPT ![r] = rest]
       /\ IF rest = {} \/ (rest = {"md"} /\ bad)
          THEN Reply(r, IF bad THEN "error" ELSE "ok")
          ELSE Goes(r, "fetch", Nothing)

FetchSha(r) ==
    /\ at[r] = "fetch"
    /\ \/ /\ repo[Turn(r)] = Absent
          /\ Passes(r, TRUE)
       \/ /\ repo[Turn(r)] # Absent
          /\ Goes(r, "unlink", Seen(r, Turn(r)))
          /\ UNCHANGED <<todo, failed>>
    /\ UNCHANGED <<repo, fresh, asked, tries, losses>>

DeleteFile(r) ==
    /\ at[r] = "unlink"
    /\ \/ /\ Unchanged(r)
          /\ Moves([repo EXCEPT ![Turn(r)] = Absent])
          /\ Passes(r, FALSE)
       \/ /\ ~Unchanged(r)
          /\ Passes(r, TRUE)
          /\ UNCHANGED <<repo, fresh>>
    /\ UNCHANGED <<asked, tries, losses>>
-----------------------------------------------------------------------------
(* The repository and the network.                                         *)

\* A commit for another thread of the same branch; it may add a row to the index.
OtherThreadCommits ==
    /\ \/ fresh # {} /\ Moves(repo)
       \/ /\ Elsewhere \notin Lines(repo.index)
          /\ Moves([repo EXCEPT !.index = Lines(repo.index) \cup {Elsewhere}])
    /\ UNCHANGED <<calls, losses>>

Loses == losses < MaxLosses /\ losses' = losses + 1

\* A request is not answered, or not with success: GitHubAPIError.  Reading the index
\* is best effort, deleting a file counts as failed, embedding is dropped.
RequestFails(r) ==
    /\ Loses /\ at[r] \in Requested
    /\ CASE at[r] = "index"               -> Goes(r, "check", got[r]) /\ UNCHANGED <<todo, failed>>
         [] at[r] \in {"fetch", "unlink"} -> Passes(r, TRUE)
         [] at[r] = "embed"               -> Reply(r, "ok") /\ UNCHANGED <<todo, failed>>
         [] OTHER                         -> Reply(r, "error") /\ UNCHANGED <<todo, failed>>
    /\ UNCHANGED <<repo, fresh, asked, tries>>

\* The request did its work and its answer is lost.
AnswerLost(r) ==
    /\ Loses
    /\ \/ /\ at[r] = "patch" /\ r \in fresh
          /\ Moves(Committed(asked[r], r, got[r], repo))
          /\ Reply(r, "error") /\ UNCHANGED <<todo, failed>>
       \/ /\ at[r] = "append" /\ Unchanged(r)
          /\ Moves([repo EXCEPT !.annotations = WithNote(r)])
          /\ Reply(r, "error") /\ UNCHANGED <<todo, failed>>
       \/ /\ at[r] = "embed" /\ repo.meta = got[r].meta
          /\ Moves([repo EXCEPT !.meta = [repo.meta EXCEPT !.notes = got[r].annotations]])
          /\ Reply(r, "ok") /\ UNCHANGED <<todo, failed>>
       \/ /\ at[r] = "unlink" /\ Unchanged(r)
          /\ Moves([repo EXCEPT ![Turn(r)] = Absent])
          /\ Passes(r, TRUE)
    /\ UNCHANGED <<asked, tries>>

Serves(r) ==
    \/ ReadMeta(r) \/ ReadEntries(r) \/ ReadEdges(r) \/ ReadIndex(r)
    \/ CheckParent(r) \/ MoveBranch(r)
    \/ ReadNotes(r) \/ AppendNote(r) \/ ReadHeader(r) \/ EmbedNotes(r)
    \/ ListFiles(r) \/ FetchSha(r) \/ DeleteFile(r)

HostedNext ==
    \/ \E r \in Requests : Serves(r) \/ RequestFails(r) \/ AnswerLost(r)
    \/ OtherThreadCommits

HostedSpec == HostedInit /\ [][HostedNext]_hostedVars
-----------------------------------------------------------------------------
\* Type invariant of the hosted thread: what the files can hold, and that no call tries
\* more often than DEFAULT_MAX_RETRIES.
RepoTypeOK == DOMAIN repo = Paths /\ \A f \in Paths : repo[f] \in Contents[f] \cup {Absent}
CallsTypeOK ==
    /\ fresh \subseteq Requests /\ failed \subseteq Requests
    /\ asked \in [Requests -> AllKinds] /\ \A r \in Requests : asked[r] \in KindsOf[r]
    /\ at \in [Requests -> Requested \cup Replies]
    /\ DOMAIN got = Requests
    /\ \A r \in Requests :
        /\ DOMAIN got[r] = Paths
        /\ \A f \in Paths : got[r][f] \in Contents[f] \cup {Absent, Unread}
    /\ tries \in [Requests -> 0..MaxTries]
    /\ todo \in [Requests -> SUBSET (Dir \cup {"md"})]
    /\ losses \in 0..MaxLosses
HostedTypeOK == RepoTypeOK /\ CallsTypeOK

\* What a call knows where it is: the steps of its kind, the files it has read, that it
\* was not refused, and between its two looks at the branch that nothing has changed.
CallOK(r) ==
    /\ at[r] \in {"meta", "entries", "edges", "index", "check", "patch"} => asked[r] \in Atomic
    /\ at[r] \in {"notes", "append", "resync", "embed"} => asked[r] = "annotate"
    /\ at[r] \in {"list", "fetch", "unlink"} => asked[r] = "purge"
    /\ at[r] \in {"entries", "edges", "index", "check", "patch"} => got[r].meta # Unread
    /\ at[r] \in {"edges", "index", "check", "patch"} => got[r].entries # Unread
    /\ at[r] \in {"index", "check", "patch"} =>
            got[r].edges # Unread /\ ~Refused(asked[r], got[r])
    /\ (at[r] \in {"check", "patch"} /\ losses = 0 /\ asked[r] = "decide")
            => got[r].index # Unread
    /\ at[r] = "append" => got[r].annotations # Unread
    /\ at[r] \in {"resync", "embed"} =>
            got[r].annotations \in SUBSET Requests /\ r \in got[r].annotations
    /\ at[r] = "embed" => got[r].meta \notin {Absent, Unread}
    /\ at[r] \in {"fetch", "unlink"} => todo[r] # {}
    /\ at[r] \in Requested => tries[r] < MaxTries
    /\ (at[r] = "patch" /\ r \in fresh) => Unchanged(r)

\* The entries are numbered one by one, and only the old one, the first, can go.
WellNumbered(posts) ==
    /\ posts \in SUBSET Posts /\ IsFiniteSet(posts)
    /\ \A d, e \in posts : d.index = e.index => d = e
    /\ \A e \in posts : e.id = Old => e.index = 0
    /\ posts # {} => \E last \in posts : \A e \in posts : e.index <= last.index

\* The calls are serializable: what a call commits is its operation applied to the
\* files as they are at that moment, torn reads and races notwithstanding; it takes
\* effect once, and its reply is "ok" only when it did (SerialThread).
Outcome(step) ==
    CASE step = "ok" -> "ok"
      [] step \in {"refused", "conflict", "error"} -> "failed"
      [] step \in {"resync", "embed"} -> "half"
      [] OTHER -> "new"
Serial == INSTANCE SerialThread WITH outcome <- [r \in Requests |-> Outcome(at[r])]
Serializable == Serial!SerialSpec

\* Whatever calls run, until one of them deletes the thread: no two entries have an
\* index in common, and meta.json counts the entries there are.
Numbered ==
    (\A r \in Requests : asked[r] # "purge") =>
        /\ \A d, e \in Lines(repo.entries) : d.index = e.index => d = e
        /\ repo.meta # Absent => repo.meta.count = Cardinality(Lines(repo.entries))

\* Nobody compares the markdown's sha, yet wherever the three files are there, what
\* the markdown shows is what they hold.
ProjectionMatches ==
    (\A f \in {"meta", "entries", "md"} : repo[f] # Absent)
        => repo.md = Render(repo.meta, repo.entries)

\* While no request fails, the index lists every Decision the thread holds.
DecisionsListed ==
    losses = 0 =>
        \A e \in Lines(repo.entries) : e.decision => e.id \in Lines(repo.index)

\* An annotation the caller was told of is in annotations.jsonl, unless the thread
\* is being deleted.
AnnotationsKept ==
    (\A r \in Requests : asked[r] # "purge") =>
        \A r \in Requests : asked[r] = "annotate" /\ at[r] = "ok" => r \in Lines(repo.annotations)

\* What the reply to a call that appends an entry tells of the thread: after "ok" the entry
\* is there, unless the thread is being deleted; after a refusal or a conflict it is not, so
\* that asking again makes no second one; only an error leaves it open
\* (hosted_ops.py:1521-2157).
Posted(r) == r \in IdsOf(Lines(repo.entries))
RepliesTrue ==
    \A r \in Requests : asked[r] \in Adds =>
        /\ (at[r] = "ok" /\ \A q \in Requests : asked[q] # "purge") => Posted(r)
        /\ Posted(r) => at[r] \in {"ok", "error"}

\* What hosted_ops.py:1294-1296 says of meta.json: when no annotation is under way and
\* nothing has failed, it holds the annotations there are.
AnnotationsSettled ==
    (losses = 0 /\ repo.meta # Absent
     /\ \A r \in Requests : asked[r] = "annotate" => at[r] \in Replies)
        => repo.meta.notes = Lines(repo.annotations)

\* The inductive forms: what the calls know, and what the files hold.
CallsInv == CallsTypeOK /\ \A r \in Requests : CallOK(r)
RepoInv  == RepoTypeOK /\ WellNumbered(Lines(repo.entries)) /\ ProjectionMatches
=============================================================================
