---------------------------- MODULE SerialThread ----------------------------
(***************************************************************************)
(* What the hosted operations promise their callers.  A call takes effect  *)
(* at most once, in one step, on the thread as it is at that step; a call  *)
(* that reports success has taken effect, and one that reports a failure   *)
(* may have.  Two operations are more than one step: deleting a thread     *)
(* removes its files one by one, and an annotation is appended first and   *)
(* copied into meta.json afterwards.                                       *)
(***************************************************************************)
EXTENDS ThreadFiles

VARIABLES
    repo,       \* the thread's files on the branch
    asked,      \* asked[r]: the operation call r asks for
    outcome     \* outcome[r]: "new", "half" (annotated, not copied), "ok" or "failed"

Told(r, to) == outcome' = [outcome EXCEPT ![r] = to] /\ asked' = asked

SerialInit ==
    /\ \A f \in Paths : repo[f] \in Contents[f] \cup {Absent}
    /\ asked \in [Requests -> AllKinds]
    /\ outcome = [r \in Requests |-> "new"]

\* The whole operation on the current files; the decisions index may be left alone.
Serve(r) ==
    /\ asked[r] \in Atomic /\ outcome[r] = "new"
    /\ \E seen \in {repo, [repo EXCEPT !.index = Unread]} :
        /\ ~Refused(asked[r], seen)
        /\ repo' = Committed(asked[r], r, seen, repo)
    /\ Told(r, "ok") \/ Told(r, "failed")

Append(r) ==
    /\ asked[r] = "annotate" /\ outcome[r] = "new"
    /\ repo' = [repo EXCEPT !.annotations = Lines(repo.annotations) \cup {r}]
    /\ Told(r, "half") \/ Told(r, "failed")

\* The copy holds the call's own annotation; it need not be the newest.
Embed(r) ==
    /\ asked[r] = "annotate" /\ outcome[r] = "half"
    /\ repo.meta # Absent
    /\ \E notes \in SUBSET Requests :
        /\ r \in notes
        /\ repo' = [repo EXCEPT !.meta = [repo.meta EXCEPT !.notes = notes]]
    /\ Told(r, "ok")

Erase(r) ==
    /\ asked[r] = "purge" /\ outcome[r] = "new"
    /\ \E f \in Paths \ {"index"} : repo' = [repo EXCEPT ![f] = Absent]
    /\ \E to \in {"new", "ok", "failed"} : Told(r, to)

\* Nothing (more) happens to the files: the only success is that of a call whose
\* effect is there, or of a purge.
Conclude(r) ==
    /\ \/ outcome[r] \in {"new", "half"} /\ Told(r, "failed")
       \/ (asked[r] = "purge" \/ outcome[r] = "half") /\ outcome[r] # "failed" /\ Told(r, "ok")
    /\ UNCHANGED repo

\* Another thread of the repository gains a Decision.
Decided ==
    /\ repo' = [repo EXCEPT !.index = Lines(repo.index) \cup {Elsewhere}]
    /\ UNCHANGED <<asked, outcome>>

SerialNext ==
    \/ Decided
    \/ \E r \in Requests : Serve(r) \/ Append(r) \/ Embed(r) \/ Erase(r) \/ Conclude(r)

SerialSpec == SerialInit /\ [][SerialNext]_<<repo, asked, outcome>>
=============================================================================
