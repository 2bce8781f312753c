-------------------------- MODULE HostedThreadProofs --------------------------
(***************************************************************************)
(* What HostedThread guarantees for any number of calls, tries and lost    *)
(* requests: the calls are serializable, and the files agree with each     *)
(* other.  The argument has two halves.  CallsInv, what a call knows where *)
(* it is, is inductive: the blobs a call has compared stay as they are     *)
(* while its parent is the tip, because every commit takes the parent away *)
(* from all the others.  So every step is a step of SerialThread, and what *)
(* the files hold (FilesInv) need only be shown to survive those.          *)
(***************************************************************************)
EXTENDS HostedThread, FiniteSetTheorems, TLAPS

\* What a call can have read.
Typed(files) == /\ DOMAIN files = Paths
                /\ \A f \in Paths : files[f] \in Contents[f] \cup {Absent, Unread}

LEMMA NothingTyped == Typed(Nothing)
  BY DEF Typed, Nothing

LEMMA SeenTyped ==
  ASSUME RepoTypeOK, CallsTypeOK, NEW r \in Requests, NEW f \in Paths
  PROVE  /\ Typed(Seen(r, f)) /\ Seen(r, f)[f] = repo[f]
         /\ \A g \in Paths : g # f => Seen(r, f)[g] = got[r][g]
  BY DEF Typed, Seen, RepoTypeOK, CallsTypeOK

LEMMA RepoRead ==
  ASSUME MarkersApart, RepoTypeOK, NEW f \in Paths
  PROVE  repo[f] # Unread
  BY NamesAssumption DEF MarkersApart, RepoTypeOK

\* Where a call goes, what it has read is well-typed, and the other calls stay.
LEMMA GoesType ==
  ASSUME CallsTypeOK, NEW r \in Requests, NEW step \in Requested \cup Replies, NEW seen,
         Typed(seen), Goes(r, step, seen)
  PROVE  /\ at' \in [Requests -> Requested \cup Replies]
         /\ DOMAIN got' = Requests
         /\ \A q \in Requests : Typed(got'[q])
         /\ at'[r] = step /\ got'[r] = seen
         /\ \A q \in Requests : q # r => at'[q] = at[q] /\ got'[q] = got[q]
  BY DEF Goes, CallsTypeOK, Typed

\* A call keeps what it knows while others take steps: the branch moves for all of them.
LEMMA OthersStay ==
  ASSUME NEW q \in Requests, CallOK(q),
         at'[q] = at[q], got'[q] = got[q], asked' = asked, todo'[q] = todo[q],
         tries'[q] = tries[q], losses' = 0 => losses = 0,
         (repo' = repo /\ (q \in fresh' => q \in fresh)) \/ fresh' = {}
  PROVE  CallOK(q)'
  BY DEF CallOK, Unchanged

\* One call moves to a next request or replies; nothing is committed.
LEMMA QuietStep ==
  ASSUME CallsInv, NEW r \in Requests, NEW step \in Requested \cup Replies, NEW seen,
         Typed(seen), Goes(r, step, seen), repo' = repo, asked' = asked, losses' = losses,
         fresh' \subseteq fresh \cup {r}, failed' \subseteq Requests,
         tries' \in [Requests -> 0..MaxTries], todo' \in [Requests -> SUBSET (Dir \cup {"md"})],
         \A q \in Requests : q # r => tries'[q] = tries[q] /\ todo'[q] = todo[q],
         CallOK(r)'
  PROVE  CallsInv'
<1>1. CallsTypeOK'
  BY GoesType DEF CallsInv, CallsTypeOK, Typed
<1>2. ASSUME NEW q \in Requests PROVE CallOK(q)'
  BY <1>2, GoesType, OthersStay DEF CallsInv, CallsTypeOK
<1>3. QED
  BY <1>1, <1>2 DEF CallsInv

LEMMA ReadSteps ==
  ASSUME MarkersApart, RepoTypeOK, CallsInv, NEW r \in Requests,
         \/ ReadMeta(r) \/ ReadEntries(r) \/ ReadEdges(r) \/ ReadIndex(r)
         \/ ReadNotes(r) \/ ReadHeader(r)
  PROVE  CallsInv'
<1> USE DEF Requested, Reads, Replies
<1>0. CallsTypeOK /\ CallOK(r) /\ Typed(got[r])
  BY DEF CallsInv, CallsTypeOK, Typed
<1>n. {"meta", "entries", "edges", "index", "annotations"} \subseteq Paths
  BY DEF Paths, Dir
<1>1. CASE ReadMeta(r)
  <2>1. CallOK(r)'
    BY <1>0, <1>1, <1>n, SeenTyped, GoesType, RepoRead DEF ReadMeta, CallOK, CallsTypeOK
  <2>2. QED
    BY <1>0, <1>1, <1>n, <2>1, SeenTyped, QuietStep DEF ReadMeta, CallsTypeOK
<1>2. CASE ReadEntries(r)
  <2> DEFINE seen == Seen(r, "entries")
  <2>1. /\ at[r] = "entries" /\ Goes(r, "edges", seen)
        /\ UNCHANGED <<repo, fresh, asked, tries, todo, failed, losses>>
    BY <1>2 DEF ReadEntries
  <2>2. Typed(seen) /\ seen.meta # Unread /\ seen.entries # Unread
    BY <1>0, <1>n, <2>1, SeenTyped, RepoRead DEF CallOK
  <2> HIDE DEF seen
  <2>3. CallOK(r)'
    BY <1>0, <2>1, <2>2, GoesType DEF CallOK, CallsTypeOK
  <2>4. QED
    BY <1>0, <2>1, <2>2, <2>3, QuietStep DEF CallsTypeOK
<1>3. CASE ReadNotes(r)
  <2>1. CallOK(r)'
    BY <1>0, <1>3, <1>n, SeenTyped, GoesType, RepoRead DEF ReadNotes, CallOK, CallsTypeOK
  <2>2. QED
    BY <1>0, <1>3, <1>n, <2>1, SeenTyped, QuietStep DEF ReadNotes, CallsTypeOK
<1>4. CASE ReadHeader(r)
  <2>1. CASE repo.meta = Absent
    <3>1. Goes(r, "ok", Nothing)
      BY <1>4, <2>1 DEF ReadHeader, Reply
    <3>2. CallOK(r)'
      BY <1>0, <1>4, <3>1, NothingTyped, GoesType DEF ReadHeader, CallOK, CallsTypeOK
    <3>3. QED
      BY <1>0, <1>4, <3>1, <3>2, NothingTyped, QuietStep DEF ReadHeader, CallsTypeOK
  <2>2. CASE repo.meta # Absent
    <3>1. Goes(r, "embed", Seen(r, "meta"))
      BY <1>4, <2>2 DEF ReadHeader
    <3>2. CallOK(r)'
      BY <1>0, <1>4, <1>n, <2>2, <3>1, SeenTyped, GoesType, RepoRead
      DEF ReadHeader, CallOK, CallsTypeOK
    <3>3. QED
      BY <1>0, <1>4, <1>n, <3>1, <3>2, SeenTyped, QuietStep DEF ReadHeader, CallsTypeOK
  <2>3. QED
    BY <2>1, <2>2
<1>5. CASE ReadEdges(r)
  <2> DEFINE seen == Seen(r, "edges")
  <2>1. /\ at[r] = "edges"
        /\ UNCHANGED <<repo, fresh, asked, tries, todo, failed, losses>>
    BY <1>5 DEF ReadEdges
  <2>2. Typed(seen) /\ seen.meta # Unread /\ seen.entries # Unread /\ seen.edges # Unread
    BY <1>0, <1>n, <2>1, SeenTyped, RepoRead DEF CallOK
  <2> HIDE DEF seen
  <2>3. CASE Goes(r, "refused", Nothing)
    <3>1. CallOK(r)'
      BY <1>0, <2>1, <2>3, NothingTyped, GoesType DEF CallOK, CallsTypeOK
    <3>2. QED
      BY <1>0, <2>1, <2>3, <3>1, NothingTyped, QuietStep DEF CallsTypeOK
  <2>4. CASE ~Refused(asked[r], seen) /\ Goes(r, "index", seen)
    <3>1. CallOK(r)'
      BY <1>0, <2>1, <2>2, <2>4, GoesType DEF CallOK, CallsTypeOK
    <3>2. QED
      BY <1>0, <2>1, <2>2, <2>4, <3>1, QuietStep DEF CallsTypeOK
  <2>5. CASE ~Refused(asked[r], seen) /\ ~FoldsIndex(asked[r], seen) /\ Goes(r, "check", seen)
    <3>1. CallOK(r)'
      BY <1>0, <2>1, <2>2, <2>5, GoesType DEF CallOK, CallsTypeOK, FoldsIndex
    <3>2. QED
      BY <1>0, <2>1, <2>2, <2>5, <3>1, QuietStep DEF CallsTypeOK
  <2>6. QED
    BY <1>5, <2>3, <2>4, <2>5 DEF ReadEdges, Reply, seen
<1>6. CASE ReadIndex(r)
  <2>1. /\ at[r] = "index"
        /\ UNCHANGED <<repo, fresh, asked, tries, todo, failed, losses>>
    BY <1>6 DEF ReadIndex
  <2>2. CASE asked[r] = "remove" /\ Goes(r, "check", got[r])
    <3>1. CallOK(r)'
      BY <1>0, <2>1, <2>2, GoesType DEF CallOK, CallsTypeOK
    <3>2. QED
      BY <1>0, <2>1, <2>2, <3>1, QuietStep DEF CallsTypeOK
  <2>3. CASE Goes(r, "check", Seen(r, "index"))
    <3> DEFINE seen == Seen(r, "index")
    <3>1. Typed(seen) /\ seen.index # Unread /\ seen.meta = got[r].meta
          /\ seen.entries = got[r].entries /\ seen.edges = got[r].edges
      BY <1>0, <1>n, SeenTyped, RepoRead
    <3> HIDE DEF seen
    <3>2. Refused(asked[r], seen) <=> Refused(asked[r], got[r])
      BY <3>1 DEF Refused
    <3>3. CallOK(r)'
      BY <1>0, <2>1, <2>3, <3>1, <3>2, GoesType DEF CallOK, CallsTypeOK, seen
    <3>4. QED
      BY <1>0, <2>1, <2>3, <3>1, <3>3, QuietStep DEF CallsTypeOK, seen
  <2>4. QED
    BY <1>6, <2>2, <2>3 DEF ReadIndex
<1>7. QED
  BY <1>1, <1>2, <1>3, <1>4, <1>5, <1>6

\* A lost race: the call starts over with nothing read, or gives up.
LEMMA StartsOver ==
  ASSUME CallsInv, NEW r \in Requests, at[r] \in Requested,
         NEW step \in {"meta", "notes"},
         step = "meta" => asked[r] \in Atomic, step = "notes" => asked[r] = "annotate",
         StartOver(r, step, "conflict"), UNCHANGED <<repo, fresh, asked, todo, failed, losses>>
  PROVE  CallsInv'
<1> USE HostedAssumption DEF Requested, Reads, Replies
<1>0. CallsTypeOK /\ CallOK(r)
  BY DEF CallsInv
<1>1. tries[r] \in Nat /\ tries[r] < MaxTries /\ MaxTries \in Nat
  BY <1>0 DEF CallOK, CallsTypeOK
<1>2. /\ tries' = [tries EXCEPT ![r] = @ + 1]
      /\ tries' \in [Requests -> 0..MaxTries] /\ tries'[r] = tries[r] + 1
  BY <1>0, <1>1 DEF StartOver, CallsTypeOK
<1>3. CASE tries[r] + 1 < MaxTries /\ Goes(r, step, Nothing)
  <2>1. CallOK(r)'
    BY <1>0, <1>1, <1>2, <1>3, NothingTyped, GoesType DEF CallOK, CallsTypeOK
  <2>2. QED
    BY <1>0, <1>2, <1>3, <2>1, NothingTyped, QuietStep DEF CallsTypeOK
<1>4. CASE Goes(r, "conflict", Nothing)
  <2>1. CallOK(r)'
    BY <1>0, <1>2, <1>4, NothingTyped, GoesType DEF CallOK, CallsTypeOK
  <2>2. QED
    BY <1>0, <1>2, <1>4, <2>1, NothingTyped, QuietStep DEF CallsTypeOK
<1>5. QED
  BY <1>3, <1>4 DEF StartOver, Reply

\* A call replies, or a deletion goes on; the branch may have moved.
LEMMA RepliesStep ==
  ASSUME CallsInv, NEW r \in Requests, NEW answer \in Replies, Reply(r, answer),
         asked' = asked, tries' = tries, todo' = todo, failed' = failed,
         losses' \in 0..MaxLosses, losses' = 0 => losses = 0,
         (repo' = repo /\ fresh' = fresh) \/ fresh' = {}
  PROVE  CallsInv'
<1> USE DEF Requested, Reads, Replies
<1>0. CallsTypeOK /\ Goes(r, answer, Nothing)
  BY DEF CallsInv, Reply
<1>1. CallsTypeOK'
  BY <1>0, NothingTyped, GoesType DEF CallsTypeOK, Typed
<1>2. CallOK(r)'
  BY <1>0, NothingTyped, GoesType DEF CallOK, CallsTypeOK
<1>3. ASSUME NEW q \in Requests, q # r PROVE CallOK(q)'
  BY <1>0, <1>3, NothingTyped, GoesType, OthersStay DEF CallsInv, CallsTypeOK
<1>4. QED
  BY <1>1, <1>2, <1>3 DEF CallsInv

LEMMA CommitSteps ==
  ASSUME CallsInv, NEW r \in Requests, CheckParent(r) \/ MoveBranch(r)
  PROVE  CallsInv'
<1> USE HostedAssumption DEF Requested, Reads, Replies
<1>0. CallsTypeOK /\ CallOK(r) /\ Typed(got[r])
  BY DEF CallsInv, CallsTypeOK, Typed
<1>1. CASE CheckParent(r)
  <2>1. at[r] = "check" /\ UNCHANGED <<repo, asked, todo, failed, losses>>
    BY <1>1 DEF CheckParent
  <2>2. CASE Unchanged(r) /\ Goes(r, "patch", got[r]) /\ fresh' = fresh \cup {r} /\ tries' = tries
    <3>1. CallOK(r)'
      BY <1>0, <2>1, <2>2, GoesType DEF CallOK, CallsTypeOK, Unchanged
    <3>2. QED
      BY <1>0, <2>1, <2>2, <3>1, QuietStep DEF CallsTypeOK
  <2>3. CASE StartOver(r, "meta", "conflict") /\ fresh' = fresh
    BY <1>0, <2>1, <2>3, StartsOver DEF CallOK
  <2>4. QED
    BY <1>1, <2>2, <2>3 DEF CheckParent
<1>2. CASE MoveBranch(r)
  <2>1. at[r] = "patch" /\ UNCHANGED <<asked, todo, failed, losses>>
    BY <1>2 DEF MoveBranch
  <2>2. CASE fresh' = {} /\ Reply(r, "ok") /\ tries' = tries
    BY <1>0, <2>1, <2>2, RepliesStep DEF CallsTypeOK
  <2>3. CASE StartOver(r, "meta", "conflict") /\ UNCHANGED <<repo, fresh>>
    BY <1>0, <2>1, <2>3, StartsOver DEF CallOK
  <2>4. QED
    BY <1>2, <2>2, <2>3 DEF MoveBranch, Moves
<1>3. QED
  BY <1>1, <1>2

\* Appending moves the branch, so it is a step of its own kind: a sharper QuietStep.
LEMMA MovingStep ==
  ASSUME CallsInv, NEW r \in Requests, NEW step \in Requested \cup Replies, NEW seen,
         Typed(seen), Goes(r, step, seen), asked' = asked,
         losses' \in 0..MaxLosses, losses' = 0 => losses = 0,
         (repo' = repo /\ fresh' = fresh) \/ fresh' = {}, failed' \subseteq Requests,
         tries' \in [Requests -> 0..MaxTries], todo' \in [Requests -> SUBSET (Dir \cup {"md"})],
         \A q \in Requests : q # r => tries'[q] = tries[q] /\ todo'[q] = todo[q],
         CallOK(r)'
  PROVE  CallsInv'
<1>1. CallsTypeOK'
  BY GoesType DEF CallsInv, CallsTypeOK, Typed
<1>2. ASSUME NEW q \in Requests PROVE CallOK(q)'
  BY <1>2, GoesType, OthersStay DEF CallsInv, CallsTypeOK
<1>3. QED
  BY <1>1, <1>2 DEF CallsInv

LEMMA NoteSteps ==
  ASSUME CallsInv, NEW r \in Requests, AppendNote(r) \/ EmbedNotes(r)
  PROVE  CallsInv'
<1> USE HostedAssumption DEF Requested, Reads, Replies
<1>0. CallsTypeOK /\ CallOK(r) /\ Typed(got[r])
  BY DEF CallsInv, CallsTypeOK, Typed
<1>n. "annotations" \in Paths /\ "meta" \in Paths
  BY DEF Paths, Dir
<1>1. CASE AppendNote(r)
  <2>1. at[r] = "append" /\ UNCHANGED <<asked, todo, failed, losses>>
    BY <1>1 DEF AppendNote
  <2>2. CASE /\ fresh' = {} /\ tries' = [tries EXCEPT ![r] = 0]
             /\ Goes(r, "resync", [got[r] EXCEPT !.annotations = WithNote(r)])
    <3> DEFINE seen == [got[r] EXCEPT !.annotations = WithNote(r)]
    <3>1. got[r].annotations \in (SUBSET Requests) \cup {Absent}
      BY <1>0, <1>n, <2>1 DEF Typed, CallOK, Contents
    <3>2. WithNote(r) \in SUBSET Requests /\ r \in WithNote(r)
      BY <3>1 DEF WithNote, Lines
    <3>3. Typed(seen) /\ seen.annotations = WithNote(r) /\ Goes(r, "resync", seen)
      <4>1. Contents["annotations"] = SUBSET Requests
        BY DEF Contents
      <4>2. QED
        BY <1>0, <1>n, <2>2, <3>2, <4>1 DEF Typed
    <3> HIDE DEF seen
    <3>4. tries' \in [Requests -> 0..MaxTries] /\ tries'[r] = 0
          /\ \A q \in Requests : q # r => tries'[q] = tries[q]
      BY <1>0, <2>2 DEF CallsTypeOK
    <3>5. CallOK(r)'
      BY <1>0, <2>1, <2>2, <3>2, <3>3, <3>4, GoesType DEF CallOK, CallsTypeOK
    <3>6. QED
      BY <1>0, <2>1, <2>2, <3>3, <3>4, <3>5, MovingStep DEF CallsTypeOK
  <2>3. CASE StartOver(r, "notes", "conflict") /\ UNCHANGED <<repo, fresh>>
    BY <1>0, <2>1, <2>3, StartsOver DEF CallOK
  <2>4. CASE Reply(r, "error") /\ UNCHANGED <<repo, fresh, tries>>
    BY <1>0, <2>1, <2>4, RepliesStep DEF CallsTypeOK
  <2>5. QED
    BY <1>1, <2>2, <2>3, <2>4 DEF AppendNote, Moves
<1>2. CASE EmbedNotes(r)
  <2>1. at[r] = "embed" /\ UNCHANGED <<asked, todo, failed, losses>>
    BY <1>2 DEF EmbedNotes
  <2>2. CASE fresh' = {} /\ Reply(r, "ok") /\ tries' = tries
    BY <1>0, <2>1, <2>2, RepliesStep DEF CallsTypeOK
  <2>3. CASE /\ tries' = [tries EXCEPT ![r] = @ + 1] /\ UNCHANGED <<repo, fresh>>
             /\ IF tries[r] + 1 < MaxTries
                THEN Goes(r, "resync", [got[r] EXCEPT !.meta = Unread])
                ELSE Reply(r, "ok")
    <3>1. tries[r] \in Nat /\ tries[r] < MaxTries /\ MaxTries \in Nat
      BY <1>0, <2>1 DEF CallOK, CallsTypeOK
    <3>2. tries' \in [Requests -> 0..MaxTries] /\ tries'[r] = tries[r] + 1
      BY <1>0, <2>3, <3>1 DEF CallsTypeOK
    <3>3. CASE tries[r] + 1 < MaxTries
      <4> DEFINE seen == [got[r] EXCEPT !.meta = Unread]
      <4>1. Typed(seen) /\ seen.annotations = got[r].annotations /\ Goes(r, "resync", seen)
        BY <1>0, <1>n, <2>3, <3>3 DEF Typed
      <4> HIDE DEF seen
      <4>2. CallOK(r)'
        BY <1>0, <2>1, <2>3, <3>1, <3>2, <3>3, <4>1, GoesType DEF CallOK, CallsTypeOK
      <4>3. QED
        BY <1>0, <2>1, <2>3, <3>2, <4>1, <4>2, QuietStep DEF CallsTypeOK
    <3>4. CASE ~(tries[r] + 1 < MaxTries)
      <4>1. Goes(r, "ok", Nothing)
        BY <2>3, <3>4 DEF Reply
      <4>2. CallOK(r)'
        BY <1>0, <2>1, <2>3, <4>1, NothingTyped, GoesType DEF CallOK, CallsTypeOK
      <4>3. QED
        BY <1>0, <2>1, <2>3, <3>2, <4>1, <4>2, NothingTyped, QuietStep DEF CallsTypeOK
    <3>5. QED
      BY <3>3, <3>4
  <2>4. QED
    BY <1>2, <2>2, <2>3 DEF EmbedNotes, Moves
<1>3. QED
  BY <1>1, <1>2

\* delete_thread_hosted passes on to the next file.
LEMMA PassesStep ==
  ASSUME CallsInv, NEW r \in Requests, at[r] \in {"fetch", "unlink"}, NEW missed \in BOOLEAN,
         Passes(r, missed), asked' = asked, tries' = tries,
         losses' \in 0..MaxLosses, losses' = 0 => losses = 0,
         (repo' = repo /\ fresh' = fresh) \/ fresh' = {}
  PROVE  CallsInv'
<1> USE DEF Requested, Reads, Replies
<1>0. CallsTypeOK /\ CallOK(r)
  BY DEF CallsInv
<1> DEFINE rest == todo[r] \ {Turn(r)}
<1>1. /\ failed' \subseteq Requests
      /\ todo' \in [Requests -> SUBSET (Dir \cup {"md"})] /\ todo'[r] = rest
      /\ \A q \in Requests : q # r => todo'[q] = todo[q]
  BY <1>0 DEF Passes, CallsTypeOK
<1>2. CASE Goes(r, "fetch", Nothing) /\ rest # {}
  <2>1. CallOK(r)'
    BY <1>0, <1>1, <1>2, NothingTyped, GoesType DEF CallOK, CallsTypeOK
  <2>2. QED
    BY <1>0, <1>1, <1>2, <2>1, NothingTyped, MovingStep DEF CallsTypeOK
<1>3. ASSUME NEW answer \in {"ok", "error"}, Goes(r, answer, Nothing) PROVE CallsInv'
  <2>1. CallOK(r)'
    BY <1>0, <1>3, NothingTyped, GoesType DEF CallOK, CallsTypeOK
  <2>2. QED
    BY <1>0, <1>1, <1>3, <2>1, NothingTyped, MovingStep DEF CallsTypeOK
<1>4. QED
  BY <1>2, <1>3 DEF Passes, Reply

LEMMA PurgeSteps ==
  ASSUME RepoTypeOK, CallsInv, NEW r \in Requests, ListFiles(r) \/ FetchSha(r) \/ DeleteFile(r)
  PROVE  CallsInv'
<1> USE HostedAssumption DEF Requested, Reads, Replies
<1>0. CallsTypeOK /\ CallOK(r)
  BY DEF CallsInv
<1>1. CASE ListFiles(r)
  <2>1. at[r] = "list" /\ UNCHANGED <<repo, fresh, asked, tries, failed, losses>>
    BY <1>1 DEF ListFiles
  <2>2. CASE Reply(r, "refused") /\ UNCHANGED todo
    BY <1>0, <2>1, <2>2, RepliesStep DEF CallsTypeOK
  <2>3. ASSUME NEW present \in SUBSET Dir, Goes(r, "fetch", Nothing),
               todo' = [todo EXCEPT ![r] = present \cup {"md"}]
        PROVE  CallsInv'
    <3>1. todo' \in [Requests -> SUBSET (Dir \cup {"md"})] /\ todo'[r] = present \cup {"md"}
      BY <1>0, <2>3 DEF CallsTypeOK
    <3>2. CallOK(r)'
      BY <1>0, <2>1, <2>3, <3>1, NothingTyped, GoesType DEF CallOK, CallsTypeOK
    <3>3. QED
      BY <1>0, <2>1, <2>3, <3>1, <3>2, NothingTyped, QuietStep DEF CallsTypeOK
  <2>4. QED
    BY <1>1, <2>2, <2>3 DEF ListFiles
<1>2. CASE FetchSha(r)
  <2>1. at[r] = "fetch" /\ UNCHANGED <<repo, fresh, asked, tries, losses>>
    BY <1>2 DEF FetchSha
  <2>2. CASE Passes(r, TRUE)
    BY <1>0, <2>1, <2>2, PassesStep DEF CallsTypeOK
  <2>3. CASE repo[Turn(r)] # Absent /\ Goes(r, "unlink", Seen(r, Turn(r))) /\ UNCHANGED <<todo, failed>>
    <3> DEFINE seen == Seen(r, Turn(r))
    <3>1. Typed(seen)
      BY <1>0, <2>3 DEF Typed, Seen, CallsTypeOK, RepoTypeOK
    <3> HIDE DEF seen
    <3>2. CallOK(r)'
      BY <1>0, <2>1, <2>3, <3>1, GoesType DEF CallOK, CallsTypeOK, seen
    <3>3. QED
      BY <1>0, <2>1, <2>3, <3>1, <3>2, QuietStep DEF CallsTypeOK, seen
  <2>4. QED
    BY <1>2, <2>2, <2>3 DEF FetchSha
<1>3. CASE DeleteFile(r)
  <2>1. at[r] = "unlink" /\ UNCHANGED <<asked, tries, losses>>
    BY <1>3 DEF DeleteFile
  <2>2. CASE fresh' = {} /\ Passes(r, FALSE)
    BY <1>0, <2>1, <2>2, PassesStep DEF CallsTypeOK
  <2>3. CASE Passes(r, TRUE) /\ UNCHANGED <<repo, fresh>>
    BY <1>0, <2>1, <2>3, PassesStep DEF CallsTypeOK
  <2>4. QED
    BY <1>3, <2>2, <2>3 DEF DeleteFile, Moves
<1>4. QED
  BY <1>1, <1>2, <1>3

LEMMA NetworkSteps ==
  ASSUME CallsInv, NEW r \in Requests, RequestFails(r) \/ AnswerLost(r)
  PROVE  CallsInv'
<1> USE HostedAssumption DEF Requested, Reads, Replies
<1>0. CallsTypeOK /\ CallOK(r) /\ Typed(got[r])
  BY DEF CallsInv, CallsTypeOK, Typed
<1>1. UNCHANGED <<asked, tries>> /\ losses' \in 0..MaxLosses /\ losses' # 0
  <2>1. UNCHANGED <<asked, tries>> /\ Loses
    BY DEF RequestFails, AnswerLost
  <2>2. QED
    BY <1>0, <2>1 DEF Loses, CallsTypeOK
<1>2. CASE RequestFails(r)
  <2>1. at[r] \in Requested /\ UNCHANGED <<repo, fresh>>
    BY <1>2 DEF RequestFails
  <2>2. CASE at[r] = "index" /\ Goes(r, "check", got[r]) /\ UNCHANGED <<todo, failed>>
    <3>1. CallOK(r)'
      BY <1>0, <1>1, <2>1, <2>2, GoesType DEF CallOK, CallsTypeOK
    <3>2. QED
      BY <1>0, <1>1, <2>1, <2>2, <3>1, MovingStep DEF CallsTypeOK
  <2>3. CASE at[r] \in {"fetch", "unlink"} /\ Passes(r, TRUE)
    BY <1>0, <1>1, <2>1, <2>3, PassesStep
  <2>4. ASSUME NEW answer \in {"ok", "error"}, Reply(r, answer), UNCHANGED <<todo, failed>>
        PROVE  CallsInv'
    BY <1>0, <1>1, <2>1, <2>4, RepliesStep
  <2>5. QED
    BY <1>2, <2>1, <2>2, <2>3, <2>4 DEF RequestFails
<1>3. CASE AnswerLost(r)
  <2>1. ASSUME NEW answer \in {"ok", "error"}, Reply(r, answer), UNCHANGED <<todo, failed>>,
               fresh' = {}
        PROVE  CallsInv'
    BY <1>0, <1>1, <2>1, RepliesStep
  <2>2. CASE at[r] = "unlink" /\ fresh' = {} /\ Passes(r, TRUE)
    BY <1>0, <1>1, <2>2, PassesStep
  <2>3. QED
    BY <1>3, <2>1, <2>2 DEF AnswerLost, Moves
<1>4. QED
  BY <1>2, <1>3

LEMMA CallsInvInit == HostedInit => CallsInv
<1> SUFFICES ASSUME HostedInit PROVE CallsInv
  OBVIOUS
<1> USE HostedAssumption DEF HostedInit, Requested, Reads, Replies
<1>1. \A r \in Requests : got[r] = Nothing /\ Typed(got[r])
  BY NothingTyped
<1>2. \A r \in Requests : asked[r] \in AllKinds /\ at[r] = First(asked[r])
  OBVIOUS
<1>3. \A r \in Requests : at[r] \in {"meta", "notes", "list"} /\ CallOK(r)
  BY <1>2 DEF First, CallOK, AllKinds
<1>4. CallsTypeOK
  BY <1>1, <1>3 DEF CallsTypeOK, Typed
<1>5. QED
  BY <1>3, <1>4 DEF CallsInv

LEMMA CallsInvStep ==
  ASSUME MarkersApart, RepoTypeOK, CallsInv, [HostedNext]_hostedVars
  PROVE  CallsInv'
<1>1. ASSUME NEW r \in Requests, Serves(r) PROVE CallsInv'
  BY <1>1, ReadSteps, CommitSteps, NoteSteps, PurgeSteps DEF Serves
<1>2. ASSUME NEW r \in Requests, RequestFails(r) \/ AnswerLost(r) PROVE CallsInv'
  BY <1>2, NetworkSteps
<1>3. CASE OtherThreadCommits
  <2>1. fresh' = {} /\ UNCHANGED <<calls, losses>>
    BY <1>3 DEF OtherThreadCommits, Moves
  <2>2. \A q \in Requests : CallOK(q)'
    BY <2>1, OthersStay DEF CallsInv, calls
  <2>3. CallsTypeOK'
    BY <2>1 DEF CallsInv, CallsTypeOK, calls
  <2>4. QED
    BY <2>2, <2>3 DEF CallsInv
<1>4. CASE UNCHANGED hostedVars
  <2>1. \A q \in Requests : CallOK(q)'
    BY <1>4, OthersStay DEF CallsInv, calls, hostedVars
  <2>2. CallsTypeOK'
    BY <1>4 DEF CallsInv, CallsTypeOK, calls, hostedVars
  <2>3. QED
    BY <2>1, <2>2 DEF CallsInv
<1>5. QED
  BY <1>1, <1>2, <1>3, <1>4 DEF HostedNext
-----------------------------------------------------------------------------
(* The calls are serializable.                                             *)

\* A commit depends on the four files its call has read, and on nothing else it has seen.
LEMMA CommittedFromRead ==
  ASSUME NEW kind, NEW r, NEW seen, NEW same, NEW files,
         seen.meta = same.meta, seen.entries = same.entries, seen.edges = same.edges,
         seen.index = same.index
  PROVE  Committed(kind, r, seen, files) = Committed(kind, r, same, files)
<1>1. MetaOf(seen) = MetaOf(same)
  BY DEF MetaOf
<1>2. FoldsIndex(kind, seen) = FoldsIndex(kind, same)
  BY DEF FoldsIndex, OldIsDecision
<1>3. Reindexed(kind, r, seen, files.index) = Reindexed(kind, r, same, files.index)
  BY <1>2 DEF Reindexed
<1>4. WithPost(kind, r, seen) = WithPost(kind, r, same)
  BY <1>1, Zenon DEF WithPost
<1>5. WithoutOld(seen) = WithoutOld(same)
  BY <1>1, Zenon DEF WithoutOld
<1>6. WithMeta(kind, seen) = WithMeta(kind, same)
  BY Zenon DEF WithMeta
<1>7. Graph(kind, r, seen) = Graph(kind, r, same)
  BY <1>4, <1>5, <1>6, Zenon DEF Graph
<1>8. QED
  BY <1>3, <1>7, Zenon DEF Committed

SerialVars == <<repo, asked, [r \in Requests |-> Outcome(at[r])]>>

\* Where a call goes is what its caller is told.
LEMMA Tells ==
  ASSUME CallsInv, NEW r \in Requests, NEW step \in Requested \cup Replies, NEW seen,
         Goes(r, step, seen), asked' = asked
  PROVE  Serial!Told(r, Outcome(step))
<1>1. at' = [at EXCEPT ![r] = step] /\ at \in [Requests -> Requested \cup Replies]
  BY DEF Goes, CallsInv, CallsTypeOK
<1>2. at' \in [Requests -> Requested \cup Replies] /\ at'[r] = step
      /\ \A q \in Requests : q # r => at'[q] = at[q]
  BY <1>1
<1>3. [q \in Requests |-> Outcome(at[q])]' =
        [[q \in Requests |-> Outcome(at[q])] EXCEPT ![r] = Outcome(step)]
  BY <1>2
<1>4. QED
  BY <1>3 DEF Serial!Told

LEMMA Silent ==
  ASSUME CallsInv, NEW r \in Requests, NEW step \in Requested \cup Replies, NEW seen,
         Goes(r, step, seen), UNCHANGED <<repo, asked>>, Outcome(step) = Outcome(at[r])
  PROVE  UNCHANGED SerialVars
<1>1. at' = [at EXCEPT ![r] = step] /\ at \in [Requests -> Requested \cup Replies]
  BY DEF Goes, CallsInv, CallsTypeOK
<1>2. at' \in [Requests -> Requested \cup Replies] /\ at'[r] = step
      /\ \A q \in Requests : q # r => at'[q] = at[q]
  BY <1>1
<1>3. [q \in Requests |-> Outcome(at[q])]' = [q \in Requests |-> Outcome(at[q])]
  BY <1>2
<1>4. QED
  BY <1>3 DEF SerialVars

\* SerialThread means the same commit.
LEMMA SameNames ==
  /\ Serial!Atomic = Atomic /\ Serial!AllKinds = AllKinds /\ Serial!Paths = Paths
  /\ Serial!Contents = Contents
  /\ \A content : Serial!Lines(content) = Lines(content)
  /\ \A kind, files : Serial!Refused(kind, files) <=> Refused(kind, files)
<1> USE DEF Lines, Serial!Lines, Atomic, Serial!Atomic, AllKinds, Serial!AllKinds, Adds, Serial!Adds,
            Says, Serial!Says, Edits, Serial!Edits, Paths, Serial!Paths, Dir, Serial!Dir,
            PostIds, Serial!PostIds, IdsOf, Serial!IdsOf
<1>1. Serial!Contents = Contents
  BY Zenon DEF Contents, Serial!Contents, Posts, Serial!Posts, Headers, Serial!Headers,
               Pages, Serial!Pages, Balls, Serial!Balls
<1>2. \A kind, files : Serial!Refused(kind, files) <=> Refused(kind, files)
  BY Zenon DEF Refused, Serial!Refused
<1>3. QED
  BY <1>1, <1>2, Zenon

LEMMA SameCommitted ==
  ASSUME NEW kind, NEW r, NEW seen, NEW files
  PROVE  Serial!Committed(kind, r, seen, files) = Committed(kind, r, seen, files)
<1>0. \A S : Serial!Cardinality(S) = Cardinality(S)
  BY DEF Cardinality, Serial!Cardinality
<1>1. Serial!Lines(seen.entries) = Lines(seen.entries) /\ Serial!Lines(seen.edges) = Lines(seen.edges)
      /\ Serial!Lines(seen.index) = Lines(seen.index)
  BY DEF Lines, Serial!Lines
<1>2. Serial!MetaOf(seen) = MetaOf(seen)
  BY DEF MetaOf, Serial!MetaOf, NewMeta, Serial!NewMeta
<1>3. Serial!Adds = Adds /\ Serial!Says = Says
  BY DEF Adds, Serial!Adds, Says, Serial!Says
<1>4. \A posts : Serial!NextFree(posts) = NextFree(posts)
  BY Zenon DEF NextFree, Serial!NextFree
<1>5. \A meta : Serial!NewBall(kind, r, meta) = NewBall(kind, r, meta)
  BY <1>3, Zenon DEF NewBall, Serial!NewBall
<1>6. Serial!WithPost(kind, r, seen) = WithPost(kind, r, seen)
  BY <1>0, <1>1, <1>2, <1>4, <1>5 DEF WithPost, Serial!WithPost
<1>7. Serial!WithoutOld(seen) = WithoutOld(seen)
  <2> DEFINE kept == {e \in Lines(seen.entries) : e.id # Old}
             left == [entries |-> kept, edges |-> Lines(seen.edges),
                      meta    |-> [MetaOf(seen) EXCEPT !.count = Cardinality(kept)]]
  <2>1. WithoutOld(seen) = left
    BY Zenon DEF WithoutOld
  <2>2. {e \in Serial!Lines(seen.entries) : e.id # Old} = kept
    BY <1>1
  <2>3. Serial!WithoutOld(seen) = left
    BY <1>0, <1>1, <1>2, <2>2 DEF Serial!WithoutOld
  <2>4. QED
    BY <2>1, <2>3, Zenon
<1>8. Serial!WithMeta(kind, seen) = WithMeta(kind, seen)
  BY <1>1, Zenon DEF WithMeta, Serial!WithMeta, Edited, Serial!Edited
<1>9. Serial!Graph(kind, r, seen) = Graph(kind, r, seen)
  BY <1>3, <1>6, <1>7, <1>8, Zenon DEF Graph, Serial!Graph
<1>10. \A index : Serial!Reindexed(kind, r, seen, index) = Reindexed(kind, r, seen, index)
  BY <1>1, Zenon DEF Reindexed, Serial!Reindexed, FoldsIndex, Serial!FoldsIndex,
                     OldIsDecision, Serial!OldIsDecision
<1>11. \A meta, posts : Serial!Render(meta, posts) = Render(meta, posts)
  BY Zenon DEF Render, Serial!Render, IdsOf, Serial!IdsOf
<1>12. QED
  BY <1>9, <1>10, <1>11 DEF Committed, Serial!Committed

\* The commit of a call whose parent is the tip is its operation on the current files;
\* of the index it may be that it was not read.
LEMMA CommitSees ==
  ASSUME RepoTypeOK, CallsInv, NEW r \in Requests, at[r] = "patch", r \in fresh
  PROVE  \E seen \in {repo, [repo EXCEPT !.index = Unread]} :
            /\ seen.index = got[r].index /\ ~Refused(asked[r], seen)
            /\ Committed(asked[r], r, got[r], repo) = Committed(asked[r], r, seen, repo)
<1>0. CallOK(r) /\ Unchanged(r)
  BY DEF CallsInv, CallOK
<1> DEFINE seen == IF got[r].index = Unread THEN [repo EXCEPT !.index = Unread] ELSE repo
<1>1. seen \in {repo, [repo EXCEPT !.index = Unread]}
  OBVIOUS
<1>2. /\ seen.meta = got[r].meta /\ seen.entries = got[r].entries
      /\ seen.edges = got[r].edges /\ seen.index = got[r].index
  BY <1>0 DEF CallOK, Unchanged, Paths, Dir, RepoTypeOK
<1> HIDE DEF seen
<1>3. ~Refused(asked[r], seen)
  BY <1>0, <1>2 DEF CallOK, Refused
<1>4. Committed(asked[r], r, got[r], repo) = Committed(asked[r], r, seen, repo)
  BY <1>2, CommittedFromRead
<1>5. QED
  BY <1>1, <1>2, <1>3, <1>4

LEMMA CommitServes ==
  ASSUME RepoTypeOK, CallsInv, NEW r \in Requests, at[r] = "patch", r \in fresh,
         repo' = Committed(asked[r], r, got[r], repo),
         NEW answer \in {"ok", "error"}, Reply(r, answer), asked' = asked
  PROVE  Serial!Serve(r)
<1>1. PICK seen \in {repo, [repo EXCEPT !.index = Unread]} :
          ~Refused(asked[r], seen) /\ repo' = Committed(asked[r], r, seen, repo)
  BY CommitSees
<1>2. Serial!Told(r, "ok") \/ Serial!Told(r, "failed")
  <2>1. Serial!Told(r, Outcome(answer))
    BY Tells DEF Reply, Replies
  <2>2. Outcome(answer) \in {"ok", "failed"}
    BY DEF Outcome
  <2>3. QED
    BY <2>1, <2>2
<1>3. [q \in Requests |-> Outcome(at[q])][r] = "new"
  BY DEF Outcome
<1>4. asked[r] \in Atomic
  BY DEF CallsInv, CallOK
<1>5. QED
  BY <1>1, <1>2, <1>3, <1>4, SameNames, SameCommitted DEF Serial!Serve

\* The steps that only read, or only answer.
LEMMA QuietRefines ==
  ASSUME CallsInv, NEW r \in Requests, NEW step \in Requested \cup Replies, NEW seen,
         Goes(r, step, seen), UNCHANGED <<repo, asked>>,
         \/ Outcome(step) = Outcome(at[r])
         \/ Outcome(step) = "failed" /\ Outcome(at[r]) \in {"new", "half"}
         \/ Outcome(step) = "ok" /\ Outcome(at[r]) = "half"
         \/ Outcome(step) = "ok" /\ Outcome(at[r]) # "failed" /\ asked[r] = "purge"
  PROVE  [Serial!SerialNext]_SerialVars
<1>1. CASE Outcome(step) = Outcome(at[r])
  BY <1>1, Silent
<1>2. CASE Outcome(step) # Outcome(at[r])
  <2>1. Serial!Told(r, Outcome(step))
    BY Tells
  <2>2. [q \in Requests |-> Outcome(at[q])][r] = Outcome(at[r])
    OBVIOUS
  <2>3. Serial!Conclude(r)
    BY <1>2, <2>1, <2>2 DEF Serial!Conclude
  <2>4. QED
    BY <2>3 DEF Serial!SerialNext
<1>3. QED
  BY <1>1, <1>2

LEMMA AtomicRefines ==
  ASSUME MarkersApart, RepoTypeOK, CallsInv, NEW r \in Requests,
         \/ ReadMeta(r) \/ ReadEntries(r) \/ ReadEdges(r) \/ ReadIndex(r)
         \/ CheckParent(r) \/ MoveBranch(r)
  PROVE  [Serial!SerialNext]_SerialVars
<1> USE DEF Requested, Reads, Replies
<1>1. CASE ReadMeta(r) \/ ReadEntries(r) \/ ReadIndex(r)
  BY <1>1, QuietRefines DEF ReadMeta, ReadEntries, ReadIndex, Outcome
<1>2. CASE ReadEdges(r)
  BY <1>2, QuietRefines DEF ReadEdges, Reply, Outcome
<1>3. CASE CheckParent(r)
  BY <1>3, QuietRefines DEF CheckParent, StartOver, Reply, Outcome
<1>4. CASE MoveBranch(r)
  <2>1. CASE r \in fresh
    <3>1. Serial!Serve(r)
      BY <1>4, <2>1, CommitServes DEF MoveBranch, Moves
    <3>2. QED
      BY <3>1 DEF Serial!SerialNext
  <2>2. CASE r \notin fresh
    BY <1>4, <2>2, QuietRefines DEF MoveBranch, StartOver, Reply, Outcome
  <2>3. QED
    BY <2>1, <2>2
<1>5. QED
  BY <1>1, <1>2, <1>3, <1>4

\* The append of an annotation, and its copy into meta.json.
LEMMA NoteServes ==
  ASSUME RepoTypeOK, CallsInv, NEW r \in Requests, asked' = asked, NEW step \in Requested \cup Replies,
         NEW seen, Goes(r, step, seen)
  PROVE  /\ (at[r] = "append" /\ Unchanged(r) /\ repo' = [repo EXCEPT !.annotations = WithNote(r)]
              /\ Outcome(step) \in {"half", "failed"}) => Serial!Append(r)
         /\ (at[r] = "embed" /\ repo.meta = got[r].meta
              /\ repo' = [repo EXCEPT !.meta = [repo.meta EXCEPT !.notes = got[r].annotations]]
              /\ Outcome(step) = "ok") => Serial!Embed(r)
<1>0. CallOK(r) /\ Serial!Told(r, Outcome(step))
  BY Tells DEF CallsInv
<1>o. [q \in Requests |-> Outcome(at[q])][r] = Outcome(at[r])
  OBVIOUS
<1>1. ASSUME at[r] = "append", Unchanged(r), repo' = [repo EXCEPT !.annotations = WithNote(r)],
             Outcome(step) \in {"half", "failed"}
      PROVE  Serial!Append(r)
  <2>1. got[r].annotations = repo.annotations
    BY <1>0, <1>1 DEF CallOK, Unchanged, Paths, Dir
  <2>2. repo' = [repo EXCEPT !.annotations = Serial!Lines(repo.annotations) \cup {r}]
    BY <1>1, <2>1, SameNames DEF WithNote
  <2>3. asked[r] = "annotate" /\ Outcome(at[r]) = "new"
    BY <1>0, <1>1 DEF CallOK, Outcome
  <2>4. QED
    BY <1>0, <1>o, <1>1, <2>2, <2>3 DEF Serial!Append
<1>2. ASSUME at[r] = "embed", repo.meta = got[r].meta, Outcome(step) = "ok",
             repo' = [repo EXCEPT !.meta = [repo.meta EXCEPT !.notes = got[r].annotations]]
      PROVE  Serial!Embed(r)
  <2>1. /\ asked[r] = "annotate" /\ Outcome(at[r]) = "half" /\ repo.meta # Absent
        /\ got[r].annotations \in SUBSET Requests /\ r \in got[r].annotations
    BY <1>0, <1>2 DEF CallOK, Outcome
  <2>2. QED
    BY <1>0, <1>o, <1>2, <2>1 DEF Serial!Embed
<1>3. QED
  BY <1>1, <1>2

LEMMA NotesRefine ==
  ASSUME RepoTypeOK, CallsInv, NEW r \in Requests,
         ReadNotes(r) \/ AppendNote(r) \/ ReadHeader(r) \/ EmbedNotes(r)
  PROVE  [Serial!SerialNext]_SerialVars
<1> USE DEF Requested, Reads, Replies
<1>1. CASE ReadNotes(r) \/ ReadHeader(r)
  BY <1>1, QuietRefines DEF ReadNotes, ReadHeader, Reply, Outcome
<1>2. CASE AppendNote(r)
  <2>1. CASE /\ Unchanged(r) /\ repo' = [repo EXCEPT !.annotations = WithNote(r)]
             /\ Goes(r, "resync", [got[r] EXCEPT !.annotations = WithNote(r)])
    <3>1. Serial!Append(r)
      BY <1>2, <2>1, NoteServes DEF AppendNote, Outcome
    <3>2. QED
      BY <3>1 DEF Serial!SerialNext
  <2>2. CASE repo' = repo /\ (StartOver(r, "notes", "conflict") \/ Reply(r, "error"))
    BY <1>2, <2>2, QuietRefines DEF AppendNote, StartOver, Reply, Outcome
  <2>3. QED
    BY <1>2, <2>1, <2>2 DEF AppendNote, Moves
<1>3. CASE EmbedNotes(r)
  <2>1. CASE /\ repo.meta = got[r].meta /\ Reply(r, "ok")
             /\ repo' = [repo EXCEPT !.meta = [repo.meta EXCEPT !.notes = got[r].annotations]]
    <3>1. Serial!Embed(r)
      BY <1>3, <2>1, NoteServes DEF EmbedNotes, Reply, Outcome
    <3>2. QED
      BY <3>1 DEF Serial!SerialNext
  <2>2. CASE repo.meta # got[r].meta
    BY <1>3, <2>2, QuietRefines DEF EmbedNotes, Reply, Outcome
  <2>3. QED
    BY <1>3, <2>1, <2>2 DEF EmbedNotes, Moves
<1>4. QED
  BY <1>1, <1>2, <1>3

\* The file whose turn it is, is one of those still to be deleted.
LEMMA TurnIsNext ==
  ASSUME NEW r \in Requests, todo[r] \in SUBSET (Dir \cup {"md"}), todo[r] # {}
  PROVE  Turn(r) \in todo[r]
<1>1. \E f \in todo[r] : \A g \in todo[r] : Order[f] <= Order[g]
  <2>1. \A f \in todo[r] : f \in {"annotations", "edges", "entries", "meta", "md"}
    BY DEF Dir
  <2>2. /\ Order["annotations"] = 1 /\ Order["edges"] = 2 /\ Order["entries"] = 3
        /\ Order["meta"] = 4 /\ Order["md"] = 5
    BY DEF Order
  <2> HIDE DEF Order
  <2>3. CASE "annotations" \in todo[r]
    BY <2>1, <2>2, <2>3
  <2>4. CASE "annotations" \notin todo[r] /\ "edges" \in todo[r]
    BY <2>1, <2>2, <2>4
  <2>5. CASE todo[r] \cap {"annotations", "edges"} = {} /\ "entries" \in todo[r]
    BY <2>1, <2>2, <2>5
  <2>6. CASE todo[r] \cap {"annotations", "edges", "entries"} = {}
    BY <2>1, <2>2, <2>6
  <2>7. QED
    BY <2>3, <2>4, <2>5, <2>6
<1>2. QED
  BY <1>1 DEF Turn

\* Passing on without having deleted anything, and with.
LEMMA PassesRefines ==
  ASSUME CallsInv, NEW r \in Requests, at[r] \in {"fetch", "unlink"}, NEW missed \in BOOLEAN,
         Passes(r, missed), asked' = asked,
         repo' = repo \/ repo' = [repo EXCEPT ![Turn(r)] = Absent]
  PROVE  [Serial!SerialNext]_SerialVars
<1> USE DEF Requested, Reads, Replies
<1>1. PICK step \in {"fetch", "ok", "error"} : Goes(r, step, Nothing)
  BY DEF Passes, Reply
<1>2. asked[r] = "purge" /\ Outcome(at[r]) = "new" /\ Outcome(step) \in {"new", "ok", "failed"}
  BY DEF CallsInv, CallOK, Outcome
<1>3. CASE repo' = repo
  BY <1>1, <1>2, <1>3, QuietRefines
<1>4. CASE repo' = [repo EXCEPT ![Turn(r)] = Absent]
  <2>1. Turn(r) \in Serial!Paths \ {"index"}
    <3>1. todo[r] # {} /\ todo[r] \in SUBSET (Dir \cup {"md"})
      BY DEF CallsInv, CallOK, CallsTypeOK
    <3>2. QED
      BY <3>1, TurnIsNext, SameNames DEF Paths, Dir
  <2>2. Serial!Told(r, Outcome(step))
    BY <1>1, Tells
  <2>3. Serial!Erase(r)
    BY <1>2, <1>4, <2>1, <2>2 DEF Serial!Erase
  <2>4. QED
    BY <2>3 DEF Serial!SerialNext
<1>5. QED
  BY <1>3, <1>4

LEMMA PurgeRefines ==
  ASSUME CallsInv, NEW r \in Requests, ListFiles(r) \/ FetchSha(r) \/ DeleteFile(r)
  PROVE  [Serial!SerialNext]_SerialVars
<1> USE DEF Requested, Reads, Replies
<1>1. CASE ListFiles(r)
  BY <1>1, QuietRefines DEF ListFiles, Reply, Outcome
<1>2. CASE FetchSha(r)
  <2>1. at[r] = "fetch" /\ UNCHANGED <<repo, asked>>
    BY <1>2 DEF FetchSha
  <2>2. CASE Goes(r, "unlink", Seen(r, Turn(r)))
    BY <2>1, <2>2, QuietRefines DEF Outcome
  <2>3. CASE Passes(r, TRUE)
    BY <2>1, <2>3, PassesRefines
  <2>4. QED
    BY <1>2, <2>2, <2>3 DEF FetchSha
<1>3. CASE DeleteFile(r)
  <2>1. at[r] = "unlink" /\ asked' = asked
    BY <1>3 DEF DeleteFile
  <2>2. CASE Passes(r, FALSE) /\ repo' = [repo EXCEPT ![Turn(r)] = Absent]
    BY <2>1, <2>2, PassesRefines
  <2>3. CASE Passes(r, TRUE) /\ repo' = repo
    BY <2>1, <2>3, PassesRefines
  <2>4. QED
    BY <1>3, <2>2, <2>3 DEF DeleteFile, Moves
<1>4. QED
  BY <1>1, <1>2, <1>3

\* A failed request changes no file; an answer can be lost after its request did.
LEMMA NetworkRefines ==
  ASSUME MarkersApart, RepoTypeOK, CallsInv, NEW r \in Requests, RequestFails(r) \/ AnswerLost(r)
  PROVE  [Serial!SerialNext]_SerialVars
<1> USE DEF Requested, Reads, Replies
<1>1. CASE RequestFails(r)
  <2>1. UNCHANGED <<repo, asked>> /\ at[r] \in Requested
    BY <1>1 DEF RequestFails
  <2>2. CASE at[r] = "index" /\ Goes(r, "check", got[r])
    BY <2>1, <2>2, QuietRefines DEF Outcome
  <2>3. CASE at[r] \in {"fetch", "unlink"} /\ Passes(r, TRUE)
    BY <2>1, <2>3, PassesRefines
  <2>4. CASE at[r] = "embed" /\ Reply(r, "ok")
    BY <2>1, <2>4, QuietRefines DEF Reply, Outcome
  <2>5. CASE Reply(r, "error")
    BY <2>1, <2>5, QuietRefines DEF Reply, Outcome
  <2>6. QED
    BY <1>1, <2>2, <2>3, <2>4, <2>5 DEF RequestFails
<1>2. CASE AnswerLost(r)
  <2>1. asked' = asked
    BY <1>2 DEF AnswerLost
  <2>2. CASE at[r] = "patch" /\ r \in fresh /\ repo' = Committed(asked[r], r, got[r], repo)
             /\ Reply(r, "error")
    <3>1. Serial!Serve(r)
      BY <2>1, <2>2, CommitServes
    <3>2. QED
      BY <3>1 DEF Serial!SerialNext
  <2>3. CASE at[r] = "append" /\ Unchanged(r) /\ Reply(r, "error")
             /\ repo' = [repo EXCEPT !.annotations = WithNote(r)]
    <3>1. Serial!Append(r)
      BY <2>1, <2>3, NoteServes DEF Reply, Outcome
    <3>2. QED
      BY <3>1 DEF Serial!SerialNext
  <2>4. CASE at[r] = "embed" /\ repo.meta = got[r].meta /\ Reply(r, "ok")
             /\ repo' = [repo EXCEPT !.meta = [repo.meta EXCEPT !.notes = got[r].annotations]]
    <3>1. Serial!Embed(r)
      BY <2>1, <2>4, NoteServes DEF Reply, Outcome
    <3>2. QED
      BY <3>1 DEF Serial!SerialNext
  <2>5. CASE at[r] = "unlink" /\ Passes(r, TRUE) /\ repo' = [repo EXCEPT ![Turn(r)] = Absent]
    BY <2>1, <2>5, PassesRefines
  <2>6. QED
    BY <1>2, <2>2, <2>3, <2>4, <2>5 DEF AnswerLost, Moves
<1>3. QED
  BY <1>1, <1>2

LEMMA StepRefines ==
  ASSUME MarkersApart, RepoTypeOK, CallsInv, [HostedNext]_hostedVars
  PROVE  [Serial!SerialNext]_SerialVars
<1>1. ASSUME NEW r \in Requests, Serves(r) PROVE [Serial!SerialNext]_SerialVars
  BY <1>1, AtomicRefines, NotesRefine, PurgeRefines DEF Serves
<1>2. ASSUME NEW r \in Requests, RequestFails(r) \/ AnswerLost(r)
      PROVE  [Serial!SerialNext]_SerialVars
  BY <1>2, NetworkRefines
<1>3. CASE OtherThreadCommits
  <2>1. asked' = asked /\ at' = at
    BY <1>3 DEF OtherThreadCommits, calls
  <2>2. CASE repo' = repo
    BY <2>1, <2>2 DEF SerialVars
  <2>3. CASE repo' = [repo EXCEPT !.index = Lines(repo.index) \cup {Elsewhere}]
    <3>1. Serial!Decided
      BY <2>1, <2>3, SameNames DEF Serial!Decided
    <3>2. QED
      BY <3>1 DEF Serial!SerialNext
  <2>4. QED
    BY <1>3, <2>2, <2>3 DEF OtherThreadCommits, Moves
<1>4. CASE UNCHANGED hostedVars
  BY <1>4 DEF hostedVars, calls, SerialVars
<1>5. QED
  BY <1>1, <1>2, <1>3, <1>4 DEF HostedNext
-----------------------------------------------------------------------------
(* What the files hold.                                                    *)

\* NextFree() is above every index there is, when there is a last one.
LEMMA NextFreeAbove ==
  ASSUME NEW posts \in SUBSET Posts,
         posts # {} => \E last \in posts : \A e \in posts : e.index <= last.index
  PROVE  NextFree(posts) \in Nat /\ \A e \in posts : e.index < NextFree(posts)
<1>1. CASE posts = {}
  BY <1>1 DEF NextFree
<1>2. CASE posts # {}
  <2> DEFINE top == CHOOSE i \in {e.index : e \in posts} : \A e \in posts : e.index <= i
  <2>1. \E i \in {e.index : e \in posts} : \A e \in posts : e.index <= i
    BY <1>2
  <2>2. top \in {e.index : e \in posts} /\ \A e \in posts : e.index <= top
    BY <2>1
  <2>3. top \in Nat /\ \A e \in posts : e.index \in Nat
    BY <2>2 DEF Posts
  <2>4. NextFree(posts) = 1 + top
    BY <1>2 DEF NextFree
  <2> HIDE DEF top
  <2>5. QED
    BY <2>2, <2>3, <2>4
<1>3. QED
  BY <1>1, <1>2

\* A new entry is numbered after the others.
LEMMA AddingPost ==
  ASSUME NEW posts, WellNumbered(posts), NEW r \in Requests, NEW decision \in BOOLEAN,
         NEW post, post = [id |-> r, index |-> NextFree(posts), decision |-> decision]
  PROVE  /\ WellNumbered(posts \cup {post}) /\ post \in Posts
         /\ Cardinality(posts \cup {post}) = Cardinality(posts) + 1
<1>1. NextFree(posts) \in Nat /\ \A e \in posts : e.index < NextFree(posts)
  BY NextFreeAbove DEF WellNumbered
<1>2. post \in Posts /\ post.index = NextFree(posts) /\ post.id = r
  BY <1>1 DEF Posts, PostIds
<1>3. post \notin posts
  BY <1>1, <1>2
<1>4. IsFiniteSet(posts \cup {post}) /\ Cardinality(posts \cup {post}) = Cardinality(posts) + 1
  BY <1>3, FS_AddElement DEF WellNumbered
<1>5. \A e \in posts : e.index \in Nat
  BY DEF WellNumbered, Posts
<1>6. \A e \in posts \cup {post} : e.index <= post.index
  BY <1>1, <1>2, <1>5
<1>7. \A d, e \in posts \cup {post} : d.index = e.index => d = e
  BY <1>1, <1>2, <1>5 DEF WellNumbered
<1>8. \A e \in posts \cup {post} : e.id = Old => e.index = 0
  BY <1>2, NamesAssumption DEF WellNumbered
<1>9. QED
  BY <1>2, <1>4, <1>6, <1>7, <1>8 DEF WellNumbered

\* Taking the old entry away takes the first one, so the others still have a last one.
LEMMA RemovingOld ==
  ASSUME NEW posts, WellNumbered(posts)
  PROVE  WellNumbered({e \in posts : e.id # Old})
<1> DEFINE kept == {e \in posts : e.id # Old}
<1>1. kept \in SUBSET posts /\ IsFiniteSet(kept)
  BY FS_Subset DEF WellNumbered
<1>2. ASSUME kept # {} PROVE \E last \in kept : \A e \in kept : e.index <= last.index
  <2>1. PICK last \in posts : \A e \in posts : e.index <= last.index
    BY <1>2 DEF WellNumbered
  <2>2. PICK one \in kept : TRUE
    BY <1>2
  <2>3. one.index \in Nat /\ one.index <= last.index /\ last.index \in Nat
    BY <2>1, <2>2 DEF WellNumbered, Posts
  <2>4. last.id # Old
    <3>1. SUFFICES ASSUME last.id = Old PROVE FALSE
      OBVIOUS
    <3>2. last.index = 0 /\ one.index = 0
      BY <2>1, <2>3, <3>1 DEF WellNumbered
    <3>3. one = last
      BY <2>1, <2>2, <3>2 DEF WellNumbered
    <3>4. QED
      BY <2>2, <3>1, <3>3
  <2>5. QED
    BY <2>1, <2>4
<1>3. QED
  BY <1>1, <1>2 DEF WellNumbered

\* What an operation makes of the three files it rewrites.
LEMMA GraphTyped ==
  ASSUME MarkersApart, NEW files, Typed(files), WellNumbered(Lines(files.entries)),
         files.meta # Unread, files.edges # Unread,
         NEW r \in Requests, NEW kind \in Atomic, ~Refused(kind, files)
  PROVE  LET g == Graph(kind, r, files)
         IN  /\ g.meta \in Headers /\ g.edges \in Contents["edges"]
             /\ WellNumbered(g.entries)
             /\ (\/ kind \in Adds \cup {"remove"}
                 \/ files.meta # Absent => files.meta.count = Cardinality(Lines(files.entries)))
                => g.meta.count = Cardinality(g.entries)
<1> DEFINE posts == Lines(files.entries)
           meta  == MetaOf(files)
           edges == Lines(files.edges)
<1>1. files.meta \in Headers \cup {Absent} /\ meta \in Headers
  BY DEF Typed, Paths, Dir, Contents, MetaOf, NewMeta, Headers, Balls
<1>2. edges \in SUBSET ((PostIds \cup {Root}) \X PostIds)
  BY DEF Typed, Paths, Dir, Contents, Lines
<1>3. Contents["edges"] = SUBSET ((PostIds \cup {Root}) \X PostIds)
  BY DEF Contents
<1>4. WellNumbered(posts) /\ posts \in SUBSET Posts
  BY DEF WellNumbered
<1>5. Cardinality(posts) \in Nat
  BY <1>4, FS_CardinalityType DEF WellNumbered
<1> HIDE DEF posts, meta, edges
<1>6. CASE kind \in Adds
  <2> DEFINE post  == [id |-> r, index |-> NextFree(posts), decision |-> kind = "decide"]
             prior == {e \in posts : e.index = post.index - 1}
             g     == [entries |-> posts \cup {post},
                       edges   |-> edges \cup {<<Root, r>>} \cup {<<e.id, r>> : e \in prior},
                       meta    |-> [status |-> meta.status, ball |-> NewBall(kind, r, meta),
                                    archived |-> FALSE, count |-> Cardinality(posts) + 1,
                                    notes |-> meta.notes]]
  <2>1. Graph(kind, r, files) = g
    BY <1>6, Zenon DEF Graph, WithPost, posts, meta, edges
  <2>2. (kind = "decide") \in BOOLEAN
    OBVIOUS
  <2>3. WellNumbered(posts \cup {post}) /\ Cardinality(posts \cup {post}) = Cardinality(posts) + 1
    BY <1>4, <2>2, AddingPost
  <2>4. NewBall(kind, r, meta) \in Balls
    BY <1>1 DEF NewBall, Balls, Headers
  <2>5. g.meta \in Headers
    BY <1>1, <1>5, <2>4 DEF Headers
  <2>6. {<<e.id, r>> : e \in prior} \in SUBSET ((PostIds \cup {Root}) \X PostIds)
    BY <1>4 DEF Posts, PostIds
  <2>7. g.edges \in Contents["edges"]
    BY <1>2, <1>3, <2>6 DEF PostIds
  <2>8. QED
    BY <2>1, <2>3, <2>5, <2>7
<1>7. CASE kind = "remove"
  <2> DEFINE kept == {e \in posts : e.id # Old}
             g    == [entries |-> kept, edges |-> edges,
                      meta |-> [meta EXCEPT !.count = Cardinality(kept)]]
  <2>1. Graph(kind, r, files) = g
    BY <1>7 DEF Graph, WithoutOld, posts, meta, edges, Adds, Says
  <2>2. WellNumbered(kept)
    BY <1>4, RemovingOld
  <2>3. Cardinality(kept) \in Nat
    BY <2>2, FS_CardinalityType DEF WellNumbered
  <2> HIDE DEF kept
  <2>4. g.meta \in Headers /\ g.meta.count = Cardinality(kept)
    BY <1>1, <2>3 DEF Headers
  <2>5. QED
    BY <1>2, <1>3, <2>1, <2>2, <2>4
<1>8. CASE kind \in Edits
  <2>1. files.meta # Absent /\ meta = files.meta
    BY <1>8 DEF Refused, Edits, AllKinds, Atomic, Adds, Says, meta, MetaOf
  <2> DEFINE g == [entries |-> posts, edges |-> edges, meta |-> Edited(kind, meta)]
  <2>2. Graph(kind, r, files) = g
    BY <1>8, <2>1 DEF Graph, WithMeta, posts, edges, Adds, Says, Edits
  <2>3. Edited(kind, meta) \in Headers /\ Edited(kind, meta).count = meta.count
    BY <1>1, <1>8 DEF Edited, Edits, Headers, Balls
  <2>4. kind \notin Adds \cup {"remove"}
    BY <1>8 DEF Edits, Adds, Says
  <2>5. QED
    BY <1>2, <1>3, <1>4, <2>1, <2>2, <2>3, <2>4 DEF posts
<1>9. QED
  BY <1>6, <1>7, <1>8 DEF Atomic

\* The files of a commit, one by one.
LEMMA CommitFiles ==
  ASSUME MarkersApart, RepoInv, NEW r \in Requests, NEW kind \in Atomic,
         NEW seen \in {repo, [repo EXCEPT !.index = Unread]}, ~Refused(kind, seen),
         NEW new, new = Committed(kind, r, seen, repo)
  PROVE  /\ DOMAIN new = Paths /\ \A f \in Paths : new[f] \in Contents[f] \cup {Absent}
         /\ WellNumbered(new.entries) /\ new.entries # Absent
         /\ new.md = Render(new.meta, new.entries)
         /\ new.annotations = repo.annotations
         /\ new.index = Reindexed(kind, r, seen, repo.index)
         /\ new.entries = Graph(kind, r, seen).entries
         /\ (repo.meta # Absent => repo.meta.count = Cardinality(Lines(repo.entries)))
            => new.meta.count = Cardinality(new.entries)
<1> DEFINE g == Graph(kind, r, seen)
<1>p. Paths = {"annotations", "edges", "entries", "meta", "md", "index"}
  BY DEF Paths, Dir
<1>1. /\ Typed(seen) /\ seen.meta = repo.meta /\ seen.entries = repo.entries
      /\ seen.edges = repo.edges /\ seen.index \in {repo.index, Unread}
  BY <1>p DEF Typed, RepoInv, RepoTypeOK
<1>2. seen.meta # Unread /\ seen.edges # Unread
  BY <1>p, <1>1, RepoRead DEF RepoInv
<1>3. WellNumbered(Lines(seen.entries))
  BY <1>1 DEF RepoInv
<1>4. /\ g.meta \in Headers /\ g.edges \in Contents["edges"] /\ WellNumbered(g.entries)
      /\ (\/ kind \in Adds \cup {"remove"}
          \/ seen.meta # Absent => seen.meta.count = Cardinality(Lines(seen.entries)))
         => g.meta.count = Cardinality(g.entries)
  BY <1>1, <1>2, <1>3, GraphTyped
<1> HIDE DEF g
<1>5. g.entries \in SUBSET Posts
  BY <1>4 DEF WellNumbered
<1>6. Render(g.meta, g.entries) \in Pages
  BY <1>4, <1>5 DEF Render, Pages, IdsOf, Headers, Posts
<1>7. Reindexed(kind, r, seen, repo.index) \in Contents["index"] \cup {Absent}
  <2>1. Contents["index"] = SUBSET (PostIds \cup {Elsewhere})
    BY DEF Contents
  <2>2. repo.index \in Contents["index"] \cup {Absent}
    BY <1>p DEF RepoInv, RepoTypeOK
  <2>3. seen.index # Unread => seen.index = repo.index
    BY <1>1
  <2>4. QED
    BY <2>1, <2>2, <2>3 DEF Reindexed, Lines, PostIds
<1>8. /\ new = [repo EXCEPT !.meta = g.meta, !.entries = g.entries, !.edges = g.edges,
                            !.md = Render(g.meta, g.entries),
                            !.index = Reindexed(kind, r, seen, repo.index)]
      /\ DOMAIN repo = Paths
  BY DEF Committed, g, RepoInv, RepoTypeOK
<1>9. /\ DOMAIN new = Paths /\ new.meta = g.meta /\ new.entries = g.entries
      /\ new.edges = g.edges /\ new.md = Render(g.meta, g.entries)
      /\ new.index = Reindexed(kind, r, seen, repo.index)
      /\ new.annotations = repo.annotations
  BY <1>8, <1>p
<1>10. /\ Contents["meta"] = Headers /\ Contents["entries"] = SUBSET Posts
       /\ Contents["md"] = Pages
  BY DEF Contents
<1>11. \A f \in Paths : new[f] \in Contents[f] \cup {Absent}
  <2>1. repo["annotations"] \in Contents["annotations"] \cup {Absent}
    BY <1>p DEF RepoInv, RepoTypeOK
  <2>2. QED
    BY <1>p, <1>4, <1>5, <1>6, <1>7, <1>9, <1>10, <2>1
<1>12. g.entries # Absent
  BY <1>p, <1>5, <1>10 DEF MarkersApart
<1>13. QED
  BY <1>1, <1>4, <1>9, <1>11, <1>12 DEF g

\* Only files other than the markdown's three sources change, or a source disappears, or
\* meta.json gets other annotations, which the markdown does not show.
LEMMA RepoInvStep ==
  ASSUME MarkersApart, RepoInv, [Serial!SerialNext]_SerialVars
  PROVE  RepoInv'
<1>p. Paths = {"annotations", "edges", "entries", "meta", "md", "index"}
  BY DEF Paths, Dir
<1>0. DOMAIN repo = Paths /\ \A f \in Paths : repo[f] \in Contents[f] \cup {Absent}
  BY DEF RepoInv, RepoTypeOK
<1>1. CASE Serial!Decided
  <2>1. repo' = [repo EXCEPT !.index = Lines(repo.index) \cup {Elsewhere}]
    BY <1>1, SameNames DEF Serial!Decided
  <2>2. Lines(repo.index) \cup {Elsewhere} \in Contents["index"]
    BY <1>0, <1>p DEF Contents, Lines
  <2>3. QED
    BY <1>0, <1>p, <2>1, <2>2 DEF RepoInv, RepoTypeOK, ProjectionMatches
<1>2. ASSUME NEW r \in Requests, Serial!Serve(r) PROVE RepoInv'
  <2>1. PICK seen \in {repo, [repo EXCEPT !.index = Unread]} :
            ~Refused(asked[r], seen) /\ repo' = Committed(asked[r], r, seen, repo)
    BY <1>2, SameNames, SameCommitted DEF Serial!Serve
  <2>2. asked[r] \in Atomic
    BY <1>2, SameNames DEF Serial!Serve
  <2>3. /\ DOMAIN repo' = Paths /\ \A f \in Paths : repo'[f] \in Contents[f] \cup {Absent}
        /\ WellNumbered(repo'.entries) /\ repo'.entries # Absent
        /\ repo'.md = Render(repo'.meta, repo'.entries)
    BY <2>1, <2>2, CommitFiles
  <2>4. Lines(repo'.entries) = repo'.entries
    BY <2>3 DEF Lines
  <2>5. QED
    BY <2>3, <2>4 DEF RepoInv, RepoTypeOK, ProjectionMatches
<1>3. ASSUME NEW r \in Requests, Serial!Append(r) PROVE RepoInv'
  <2>1. repo' = [repo EXCEPT !.annotations = Lines(repo.annotations) \cup {r}]
    BY <1>3, SameNames DEF Serial!Append
  <2>2. Lines(repo.annotations) \cup {r} \in Contents["annotations"]
    BY <1>0, <1>p DEF Contents, Lines
  <2>3. QED
    BY <1>0, <1>p, <2>1, <2>2 DEF RepoInv, RepoTypeOK, ProjectionMatches
<1>4. ASSUME NEW r \in Requests, Serial!Embed(r) PROVE RepoInv'
  <2>1. PICK notes \in SUBSET Requests :
            repo' = [repo EXCEPT !.meta = [repo.meta EXCEPT !.notes = notes]]
    BY <1>4 DEF Serial!Embed
  <2>2. repo.meta \in Headers /\ repo.meta # Absent
    BY <1>0, <1>4, <1>p DEF Serial!Embed, Contents
  <2> DEFINE meta == [repo.meta EXCEPT !.notes = notes]
  <2>3. meta \in Headers /\ meta.status = repo.meta.status /\ meta.ball = repo.meta.ball
    BY <2>2 DEF Headers
  <2> HIDE DEF meta
  <2>4. \A posts : Render(meta, posts) = Render(repo.meta, posts)
    BY <2>3 DEF Render
  <2>5. Contents["meta"] = Headers
    BY DEF Contents
  <2>6. repo' = [repo EXCEPT !.meta = meta]
    BY <2>1 DEF meta
  <2>7. QED
    BY <1>0, <1>p, <2>2, <2>3, <2>4, <2>5, <2>6 DEF RepoInv, RepoTypeOK, ProjectionMatches
<1>5. ASSUME NEW r \in Requests, Serial!Erase(r) PROVE RepoInv'
  <2>1. PICK f \in Paths : repo' = [repo EXCEPT ![f] = Absent]
    BY <1>5, SameNames DEF Serial!Erase
  <2>2. DOMAIN repo' = Paths /\ repo'[f] = Absent /\ \A e \in Paths : e # f => repo'[e] = repo[e]
    BY <1>0, <2>1
  <2>3. Lines(repo'.entries) \in {{}, Lines(repo.entries)}
    BY <1>p, <2>2 DEF Lines
  <2>4. WellNumbered({})
    BY FS_EmptySet DEF WellNumbered
  <2>5. ProjectionMatches'
    BY <1>p, <2>2 DEF RepoInv, ProjectionMatches
  <2>6. QED
    BY <1>0, <2>2, <2>3, <2>4, <2>5 DEF RepoInv, RepoTypeOK
<1>6. CASE repo' = repo
  BY <1>6 DEF RepoInv, RepoTypeOK, ProjectionMatches
<1>7. QED
  BY <1>1, <1>2, <1>3, <1>4, <1>5, <1>6 DEF Serial!SerialNext, Serial!Conclude, SerialVars

\* Without a deletion of the thread, meta.json keeps counting the entries.
LEMMA NumberedStep ==
  ASSUME MarkersApart, RepoInv, asked' = asked, Numbered, [Serial!SerialNext]_SerialVars
  PROVE  Numbered'
<1>p. Paths = {"annotations", "edges", "entries", "meta", "md", "index"} /\ DOMAIN repo = Paths
  BY DEF Paths, Dir, RepoInv, RepoTypeOK
<1> DEFINE Counts(files) ==
      files.meta # Absent => files.meta.count = Cardinality(Lines(files.entries))
<1>1. SUFFICES ASSUME \A r \in Requests : asked[r] # "purge", Counts(repo) PROVE Counts(repo')
  <2>1. WellNumbered(Lines(repo'.entries))
    BY RepoInvStep DEF RepoInv
  <2>2. QED
    BY <2>1 DEF Numbered, WellNumbered
<1>2. CASE Serial!Decided
  BY <1>p, <1>1, <1>2 DEF Serial!Decided
<1>3. ASSUME NEW r \in Requests, Serial!Serve(r) PROVE Counts(repo')
  <2>1. PICK seen \in {repo, [repo EXCEPT !.index = Unread]} :
            ~Refused(asked[r], seen) /\ repo' = Committed(asked[r], r, seen, repo)
    BY <1>3, SameNames, SameCommitted DEF Serial!Serve
  <2>2. asked[r] \in Atomic
    BY <1>3, SameNames DEF Serial!Serve
  <2>3. repo'.meta.count = Cardinality(repo'.entries) /\ repo'.entries # Absent
    BY <1>1, <2>1, <2>2, CommitFiles
  <2>4. QED
    BY <2>3 DEF Lines
<1>4. ASSUME NEW r \in Requests, Serial!Append(r) PROVE Counts(repo')
  BY <1>p, <1>1, <1>4 DEF Serial!Append
<1>5. ASSUME NEW r \in Requests, Serial!Embed(r) PROVE Counts(repo')
  <2>1. PICK notes \in SUBSET Requests :
            repo' = [repo EXCEPT !.meta = [repo.meta EXCEPT !.notes = notes]]
    BY <1>5 DEF Serial!Embed
  <2>2. repo.meta \in Headers /\ repo.meta # Absent
    BY <1>5, <1>p DEF Serial!Embed, Contents, RepoInv, RepoTypeOK
  <2> DEFINE meta == [repo.meta EXCEPT !.notes = notes]
  <2>3. meta.count = repo.meta.count
    BY <2>2 DEF Headers
  <2> HIDE DEF meta
  <2>4. repo' = [repo EXCEPT !.meta = meta]
    BY <2>1 DEF meta
  <2>5. repo'.meta = meta /\ repo'.entries = repo.entries
    BY <1>p, <2>4
  <2>6. QED
    BY <1>1, <2>2, <2>3, <2>5
<1>6. ASSUME NEW r \in Requests, Serial!Erase(r) PROVE Counts(repo')
  BY <1>1, <1>6 DEF Serial!Erase
<1>7. CASE repo' = repo
  BY <1>1, <1>7
<1>8. QED
  BY <1>2, <1>3, <1>4, <1>5, <1>6, <1>7 DEF Serial!SerialNext, Serial!Conclude, SerialVars

\* An annotation that has been appended stays, and nobody is told "ok" before.
NotesKept ==
    (\A r \in Requests : asked[r] # "purge") =>
        \A r \in Requests :
            asked[r] = "annotate" /\ Outcome(at[r]) \in {"half", "ok"} => r \in Lines(repo.annotations)

LEMMA NotesKeptStep ==
  ASSUME MarkersApart, RepoInv, asked' = asked, NotesKept, [Serial!SerialNext]_SerialVars
  PROVE  NotesKept'
<1>p. Paths = {"annotations", "edges", "entries", "meta", "md", "index"} /\ DOMAIN repo = Paths
  BY DEF Paths, Dir, RepoInv, RepoTypeOK
<1> DEFINE told == [r \in Requests |-> Outcome(at[r])]
           told2 == [r \in Requests |-> Outcome(at'[r])]
<1>1. SUFFICES ASSUME \A q \in Requests : asked[q] # "purge",
                      \A q \in Requests : asked[q] = "annotate" /\ told[q] \in {"half", "ok"}
                                              => q \in Lines(repo.annotations),
                      NEW r \in Requests, asked[r] = "annotate", told2[r] \in {"half", "ok"}
               PROVE  r \in Lines(repo'.annotations)
  BY DEF NotesKept
<1>t. \A q \in Requests : \A to : Serial!Told(q, to) => told2 = [told EXCEPT ![q] = to]
  BY DEF Serial!Told
<1> HIDE DEF told2
<1>d. DOMAIN told = Requests
  OBVIOUS
<1> HIDE DEF told
<1>2. CASE Serial!Decided
  <2>1. repo'.annotations = repo.annotations /\ told2 = told
    BY <1>p, <1>2 DEF Serial!Decided, told, told2
  <2>2. QED
    BY <1>1, <2>1
<1>3. ASSUME NEW q \in Requests, Serial!Serve(q) PROVE r \in Lines(repo'.annotations)
  <2>1. PICK seen \in {repo, [repo EXCEPT !.index = Unread]} :
            ~Refused(asked[q], seen) /\ repo' = Committed(asked[q], q, seen, repo)
    BY <1>3, SameNames, SameCommitted DEF Serial!Serve
  <2>2. asked[q] \in Atomic
    BY <1>3, SameNames DEF Serial!Serve
  <2>3. repo'.annotations = repo.annotations
    BY <2>1, <2>2, CommitFiles
  <2>4. q # r
    BY <1>1, <2>2 DEF Atomic, Adds, Says, Edits
  <2>5. told2[r] = told[r]
    BY <1>3, <1>t, <1>d, <2>4 DEF Serial!Serve
  <2>6. QED
    BY <1>1, <2>3, <2>5
<1>4. ASSUME NEW q \in Requests, Serial!Append(q) PROVE r \in Lines(repo'.annotations)
  <2>1. repo' = [repo EXCEPT !.annotations = Lines(repo.annotations) \cup {q}]
    BY <1>4, SameNames DEF Serial!Append
  <2>2. repo'.annotations = Lines(repo.annotations) \cup {q}
    BY <1>p, <2>1
  <2>3. repo'.annotations # Absent
    <3>1. repo.annotations \in (SUBSET Requests) \cup {Absent}
      BY <1>p DEF RepoInv, RepoTypeOK, Contents
    <3>2. Lines(repo.annotations) \cup {q} \in SUBSET Requests
      BY <3>1 DEF Lines
    <3>3. Absent \notin SUBSET Requests
      BY <1>p DEF MarkersApart, Contents
    <3>4. QED
      BY <2>2, <3>2, <3>3
  <2>4. q # r => told2[r] = told[r]
    BY <1>4, <1>t, <1>d DEF Serial!Append
  <2>5. QED
    BY <1>1, <2>2, <2>3, <2>4 DEF Lines
<1>5. ASSUME NEW q \in Requests, Serial!Embed(q) \/ Serial!Conclude(q)
      PROVE  r \in Lines(repo'.annotations)
  <2>1. repo'.annotations = repo.annotations
    BY <1>p, <1>5 DEF Serial!Embed, Serial!Conclude
  <2>2. told[r] \in {"half", "ok"}
    <3>1. \E to \in {"ok", "failed"} :
              Serial!Told(q, to) /\ (to = "ok" => asked[q] = "purge" \/ told[q] = "half")
      BY <1>5 DEF Serial!Embed, Serial!Conclude, told
    <3>2. PICK to \in {"ok", "failed"} :
              told2 = [told EXCEPT ![q] = to] /\ (to = "ok" => asked[q] = "purge" \/ told[q] = "half")
      BY <3>1, <1>t
    <3>3. CASE q # r
      BY <1>1, <1>d, <3>2, <3>3
    <3>4. CASE q = r
      BY <1>1, <1>d, <3>2, <3>4
    <3>5. QED
      BY <3>3, <3>4
  <2>3. QED
    BY <1>1, <2>1, <2>2
<1>6. ASSUME NEW q \in Requests, Serial!Erase(q) PROVE r \in Lines(repo'.annotations)
  BY <1>1, <1>6 DEF Serial!Erase
<1>7. CASE UNCHANGED SerialVars
  BY <1>1, <1>7 DEF SerialVars, told, told2
<1>8. QED
  BY <1>2, <1>3, <1>4, <1>5, <1>6, <1>7 DEF Serial!SerialNext

\* What a commit made while no request has failed does to the Decisions.
LEMMA CommitListsDecisions ==
  ASSUME MarkersApart, RepoInv, CallsInv, DecisionsListed, losses = 0,
         NEW r \in Requests, at[r] = "patch", r \in fresh,
         NEW new, new = Committed(asked[r], r, got[r], repo),
         NEW e \in Lines(new.entries), e.decision
  PROVE  e.id \in Lines(new.index)
<1>p. Paths = {"annotations", "edges", "entries", "meta", "md", "index"} /\ DOMAIN repo = Paths
  BY DEF Paths, Dir, RepoInv, RepoTypeOK
<1> DEFINE kind == asked[r]
<1>0. kind \in Atomic /\ (kind = "decide" => got[r].index # Unread)
  BY DEF CallsInv, CallOK
<1>1. PICK seen \in {repo, [repo EXCEPT !.index = Unread]} :
          seen.index = got[r].index /\ ~Refused(kind, seen) /\ new = Committed(kind, r, seen, repo)
  BY CommitSees DEF RepoInv
<1>2. /\ new.entries # Absent /\ new.index = Reindexed(kind, r, seen, repo.index)
      /\ new.entries = Graph(kind, r, seen).entries
  BY <1>0, <1>1, CommitFiles
<1>3. seen.entries = repo.entries /\ seen.index \in {repo.index, Unread}
  BY <1>p
<1>4. repo.index \in (SUBSET (PostIds \cup {Elsewhere})) \cup {Absent}
      /\ Absent \notin SUBSET (PostIds \cup {Elsewhere})
  BY <1>p DEF RepoInv, RepoTypeOK, MarkersApart, Contents
<1>5. e \in Graph(kind, r, seen).entries
  BY <1>2 DEF Lines
<1>6. CASE kind = "decide"
  <2>1. e \in Lines(repo.entries) \/ e.id = r
    BY <1>3, <1>5, <1>6 DEF Graph, WithPost, Adds, Says
  <2>2. new.index = Lines(repo.index) \cup {r}
    BY <1>0, <1>1, <1>2, <1>3, <1>6 DEF Reindexed, FoldsIndex
  <2>3. Lines(new.index) = Lines(repo.index) \cup {r}
    BY <1>4, <2>2 DEF Lines, PostIds
  <2>4. QED
    BY <2>1, <2>3 DEF DecisionsListed
<1>7. CASE kind = "remove"
  <2>1. e \in Lines(repo.entries) /\ e.id # Old
    BY <1>3, <1>5, <1>7 DEF Graph, WithoutOld, Adds, Says
  <2>2. new.index \in {repo.index, Lines(repo.index) \ {Old}}
    BY <1>2, <1>3, <1>7 DEF Reindexed
  <2>3. Lines(repo.index) \ {Old} # Absent
    BY <1>4 DEF Lines
  <2>4. QED
    BY <2>1, <2>2, <2>3 DEF DecisionsListed, Lines
<1>8. CASE kind \notin {"decide", "remove"}
  <2>1. e \in Lines(repo.entries)
    <3>1. CASE kind \in Adds
      <4> DEFINE post == [id |-> r, index |-> NextFree(Lines(repo.entries)), decision |-> kind = "decide"]
      <4>1. e \in Lines(repo.entries) \cup {post}
        BY <1>3, <1>5, <3>1 DEF Graph, WithPost
      <4>2. post.decision <=> kind = "decide"
        OBVIOUS
      <4>3. ~post.decision
        BY <1>8, <4>2
      <4> HIDE DEF post
      <4>4. QED
        BY <4>1, <4>3
    <3>2. CASE kind \notin Adds
      BY <1>3, <1>5, <1>8, <3>2 DEF Graph, WithMeta
    <3>3. QED
      BY <3>1, <3>2
  <2>2. new.index = repo.index
    BY <1>2, <1>8 DEF Reindexed, FoldsIndex
  <2>3. QED
    BY <2>1, <2>2 DEF DecisionsListed
<1>9. QED
  BY <1>6, <1>7, <1>8

LEMMA DecisionsStep ==
  ASSUME MarkersApart, RepoInv, CallsInv, DecisionsListed, [HostedNext]_hostedVars
  PROVE  DecisionsListed'
<1>p. Paths = {"annotations", "edges", "entries", "meta", "md", "index"} /\ DOMAIN repo = Paths
  BY DEF Paths, Dir, RepoInv, RepoTypeOK
<1> USE DEF DecisionsListed
<1>1. ASSUME NEW r \in Requests, MoveBranch(r) PROVE DecisionsListed'
  <2>1. CASE r \in fresh
    <3>1. at[r] = "patch" /\ repo' = Committed(asked[r], r, got[r], repo) /\ losses' = losses
      BY <1>1, <2>1 DEF MoveBranch, Moves
    <3>2. QED
      BY <2>1, <3>1, CommitListsDecisions
  <2>2. CASE r \notin fresh
    BY <1>1, <2>2 DEF MoveBranch
  <2>3. QED
    BY <2>1, <2>2
<1>2. ASSUME NEW r \in Requests, AppendNote(r) \/ EmbedNotes(r) PROVE DecisionsListed'
  <2>1. losses' = losses /\ repo'.entries = repo.entries /\ repo'.index = repo.index
    BY <1>p, <1>2 DEF AppendNote, EmbedNotes, Moves
  <2>2. QED
    BY <2>1
<1>3. ASSUME NEW r \in Requests, DeleteFile(r) PROVE DecisionsListed'
  <2>1. CASE repo' = repo /\ losses' = losses
    BY <2>1
  <2>2. CASE repo' = [repo EXCEPT ![Turn(r)] = Absent] /\ losses' = losses
    <3>1. Turn(r) \in Dir \cup {"md"}
      BY <1>3, TurnIsNext DEF DeleteFile, CallsInv, CallOK, CallsTypeOK
    <3>2. repo'.index = repo.index /\ repo'.entries \in {repo.entries, Absent}
      BY <1>p, <2>2, <3>1 DEF Dir
    <3>3. QED
      BY <2>2, <3>2 DEF Lines
  <2>3. QED
    BY <1>3, <2>1, <2>2 DEF DeleteFile, Moves
<1>4. ASSUME NEW r \in Requests, RequestFails(r) \/ AnswerLost(r) PROVE DecisionsListed'
  <2>1. losses' = losses + 1 /\ losses \in Nat
    <3>1. Loses
      BY <1>4 DEF RequestFails, AnswerLost
    <3>2. QED
      BY <3>1, HostedAssumption DEF Loses, CallsInv, CallsTypeOK
  <2>2. QED
    BY <2>1
<1>5. CASE OtherThreadCommits
  <2>1. CASE repo' = repo /\ losses' = losses
    BY <2>1
  <2>2. CASE repo' = [repo EXCEPT !.index = Lines(repo.index) \cup {Elsewhere}] /\ losses' = losses
    <3>1. repo'.index = Lines(repo.index) \cup {Elsewhere} /\ repo'.entries = repo.entries
      BY <1>p, <2>2
    <3>2. Lines(repo.index) \cup {Elsewhere} # Absent
      <4>1. /\ repo.index \in (SUBSET (PostIds \cup {Elsewhere})) \cup {Absent}
            /\ Absent \notin SUBSET (PostIds \cup {Elsewhere})
        BY <1>p DEF RepoInv, RepoTypeOK, MarkersApart, Contents
      <4>2. QED
        BY <4>1 DEF Lines
    <3>3. QED
      BY <2>2, <3>1, <3>2 DEF Lines
  <2>3. QED
    BY <1>5, <2>1, <2>2 DEF OtherThreadCommits, Moves
<1>6. CASE UNCHANGED <<repo, losses>>
  BY <1>6
<1>7. ASSUME NEW r \in Requests, Serves(r) PROVE DecisionsListed'
  BY <1>1, <1>2, <1>3, <1>6, <1>7
  DEF Serves, ReadMeta, ReadEntries, ReadEdges, ReadIndex, CheckParent, ReadNotes, ReadHeader,
      ListFiles, FetchSha
<1>8. QED
  BY <1>4, <1>5, <1>6, <1>7 DEF HostedNext, hostedVars

LEMMA InitFiles ==
  ASSUME MarkersApart, HostedInit
  PROVE  RepoInv /\ Numbered /\ DecisionsListed /\ NotesKept
<1>p. Paths = {"annotations", "edges", "entries", "meta", "md", "index"}
  BY DEF Paths, Dir
<1>n. \A r \in Requests : Outcome(at[r]) = "new"
  BY DEF HostedInit, First, Outcome
<1>1. NotesKept
  BY <1>n DEF NotesKept
<1>2. CASE repo = EmptyRepo
  <2>1. DOMAIN repo = Paths /\ \A f \in Paths : repo[f] = Absent
    BY <1>2 DEF EmptyRepo
  <2>2. Lines(repo.entries) = {} /\ WellNumbered({})
    BY <1>p, <2>1, FS_EmptySet DEF Lines, WellNumbered
  <2>3. QED
    BY <1>p, <1>1, <2>1, <2>2
    DEF RepoInv, RepoTypeOK, ProjectionMatches, Numbered, DecisionsListed
<1>3. ASSUME NEW decision \in BOOLEAN, repo = OldRepo(decision)
      PROVE  RepoInv /\ Numbered /\ DecisionsListed
  <2> DEFINE old == OldPost(decision)
  <2>1. /\ DOMAIN repo = Paths /\ repo.annotations = Absent /\ repo.edges = {<<Root, Old>>}
        /\ repo.entries = {old} /\ repo.meta = OldMeta /\ repo.md = Render(OldMeta, {old})
        /\ repo.index = IF decision THEN {Old} ELSE Absent
    BY <1>3, <1>p DEF OldRepo
  <2>2. old \in Posts /\ old.id = Old /\ old.index = 0 /\ (old.decision <=> decision)
    BY DEF OldPost, Posts, PostIds
  <2> HIDE DEF old
  <2>3. OldMeta \in Headers /\ OldMeta.count = 1
    BY DEF OldMeta, Headers, Balls
  <2>4. Render(OldMeta, {old}) \in Pages
    BY <2>2, <2>3 DEF Render, Pages, IdsOf, Headers, PostIds
  <2>5. IsFiniteSet({old}) /\ Cardinality({old}) = 1
    BY FS_Singleton
  <2>6. WellNumbered({old})
    BY <2>2, <2>5 DEF WellNumbered
  <2>7. \A f \in Paths : repo[f] \in Contents[f] \cup {Absent}
    BY <1>p, <2>1, <2>2, <2>3, <2>4 DEF Contents, PostIds
  <2>8. Lines(repo.entries) = {old}
    BY <1>p, <2>1, <2>2 DEF Lines, MarkersApart, Contents
  <2>9. DecisionsListed
    <3>1. decision => Lines(repo.index) = {Old}
      BY <1>p, <2>1 DEF Lines, MarkersApart, Contents, PostIds
    <3>2. QED
      BY <2>2, <2>8, <3>1 DEF DecisionsListed
  <2>10. QED
    BY <2>1, <2>2, <2>3, <2>5, <2>6, <2>7, <2>8, <2>9
    DEF RepoInv, RepoTypeOK, ProjectionMatches, Numbered
<1>4. QED
  BY <1>1, <1>2, <1>3 DEF HostedInit

\* The inductive invariant of the hosted thread, and the refinement along it.
FilesInv == RepoInv /\ Numbered /\ DecisionsListed /\ NotesKept

LEMMA HostedInduction ==
  ASSUME MarkersApart, FilesInv, CallsInv, [HostedNext]_hostedVars
  PROVE  FilesInv' /\ CallsInv' /\ [Serial!SerialNext]_SerialVars
<1>1. asked' = asked
  BY DEF HostedNext, Serves, ReadMeta, ReadEntries, ReadEdges, ReadIndex, CheckParent, MoveBranch,
     ReadNotes, AppendNote, ReadHeader, EmbedNotes, ListFiles, FetchSha, DeleteFile,
     RequestFails, AnswerLost, OtherThreadCommits, calls, hostedVars
<1>2. CallsInv' /\ [Serial!SerialNext]_SerialVars
  BY CallsInvStep, StepRefines DEF FilesInv, RepoInv
<1>3. QED
  BY <1>1, <1>2, RepoInvStep, NumberedStep, DecisionsStep, NotesKeptStep DEF FilesInv

THEOREM HostedInvariant == MarkersApart => (HostedSpec => [](FilesInv /\ CallsInv))
<1> SUFFICES ASSUME MarkersApart PROVE HostedSpec => [](FilesInv /\ CallsInv)
  OBVIOUS
<1>1. HostedInit => FilesInv /\ CallsInv
  BY InitFiles, CallsInvInit DEF FilesInv
<1>2. FilesInv /\ CallsInv /\ [HostedNext]_hostedVars => (FilesInv /\ CallsInv)'
  BY HostedInduction
<1>3. QED
  BY <1>1, <1>2, PTL DEF HostedSpec

\* Type correctness: what the files can hold, and how often a call tries
\* (hosted_ops.py:717-1300, github_api.py:305-634).
THEOREM HostedTypes == MarkersApart => (HostedSpec => []HostedTypeOK)
<1>1. FilesInv /\ CallsInv => HostedTypeOK
  BY DEF FilesInv, RepoInv, CallsInv, HostedTypeOK
<1>2. QED
  BY <1>1, HostedInvariant, PTL

\* The entries of a hosted thread are numbered apart and counted, for any number of calls
\* (hosted_ops.py:1164-1300).
THEOREM EntriesNumbered == MarkersApart => (HostedSpec => []Numbered)
<1>1. FilesInv => Numbered
  BY DEF FilesInv
<1>2. QED
  BY <1>1, HostedInvariant, PTL

\* The markdown shows what the graph holds (hosted_ops.py:963-1161).
THEOREM MarkdownMatches == MarkersApart => (HostedSpec => []ProjectionMatches)
<1>1. FilesInv => ProjectionMatches
  BY DEF FilesInv, RepoInv
<1>2. QED
  BY <1>1, HostedInvariant, PTL

\* While no request fails, the shared index lists the thread's Decisions
\* (hosted_ops.py:2977-3039).
THEOREM DecisionsAreListed == MarkersApart => (HostedSpec => []DecisionsListed)
<1>1. FilesInv => DecisionsListed
  BY DEF FilesInv
<1>2. QED
  BY <1>1, HostedInvariant, PTL

\* An acknowledged annotation is in annotations.jsonl (hosted_ops.py:2534-2593).
THEOREM AnnotationsAreKept == MarkersApart => (HostedSpec => []AnnotationsKept)
<1>1. FilesInv => AnnotationsKept
  BY DEF FilesInv, NotesKept, AnnotationsKept, Outcome
<1>2. QED
  BY <1>1, HostedInvariant, PTL

\* The calls are serializable: each takes effect in one step, on the files as they are at
\* that step, and is answered accordingly (hosted_ops.py:1521-2895, github_api.py:354-567).
THEOREM CallsSerializable == MarkersApart => (HostedSpec => Serializable)
<1> SUFFICES ASSUME MarkersApart PROVE HostedSpec => Serializable
  OBVIOUS
<1>1. HostedInit => Serial!SerialInit
  <2> SUFFICES ASSUME HostedInit PROVE Serial!SerialInit
    OBVIOUS
  <2>1. RepoTypeOK /\ asked \in [Requests -> AllKinds]
    BY InitFiles DEF RepoInv, HostedInit
  <2>2. \A r \in Requests : Outcome(at[r]) = "new"
    BY DEF HostedInit, First, Outcome
  <2>3. [r \in Requests |-> Outcome(at[r])] = [r \in Requests |-> "new"]
    BY <2>2
  <2>4. QED
    BY <2>1, <2>3, SameNames DEF RepoTypeOK, Serial!SerialInit
<1>2. FilesInv /\ CallsInv /\ [HostedNext]_hostedVars => [Serial!SerialNext]_SerialVars
  BY HostedInduction
<1>3. QED
  BY <1>1, <1>2, HostedInvariant, PTL DEF HostedSpec, Serializable, Serial!SerialSpec, SerialVars
-----------------------------------------------------------------------------
(* What the replies tell.                                                  *)

\* A commit of a call that appends adds its entry, and takes none but the old one away.
LEMMA CommitPosts ==
  ASSUME MarkersApart, RepoInv, CallsInv, NEW r \in Requests, at[r] = "patch", r \in fresh,
         repo' = Committed(asked[r], r, got[r], repo)
  PROVE  \A q \in Requests : Posted(q)' <=> (Posted(q) \/ (q = r /\ asked[r] \in Adds))
<1> DEFINE kind == asked[r]
           posts == Lines(repo.entries)
<1>p. Paths = {"annotations", "edges", "entries", "meta", "md", "index"} /\ DOMAIN repo = Paths
  BY DEF Paths, Dir, RepoInv, RepoTypeOK
<1>0. kind \in Atomic
  BY DEF CallsInv, CallOK
<1>1. PICK seen \in {repo, [repo EXCEPT !.index = Unread]} :
          ~Refused(kind, seen) /\ repo' = Committed(kind, r, seen, repo)
  BY CommitSees DEF RepoInv
<1>2. repo'.entries # Absent /\ repo'.entries = Graph(kind, r, seen).entries
  BY <1>0, <1>1, CommitFiles
<1>3. Lines(repo'.entries) = Graph(kind, r, seen).entries /\ seen.entries = repo.entries
  BY <1>p, <1>2 DEF Lines
<1>4. CASE kind \in Adds
  <2> DEFINE post == [id |-> r, index |-> NextFree(posts), decision |-> kind = "decide"]
  <2>1. Lines(repo'.entries) = posts \cup {post} /\ post.id = r
    BY <1>3, <1>4 DEF Graph, WithPost
  <2> HIDE DEF post, posts
  <2>2. QED
    BY <1>4, <2>1 DEF Posted, IdsOf, posts
<1>5. CASE kind = "remove"
  <2>1. Lines(repo'.entries) = {e \in posts : e.id # Old} /\ kind \notin Adds
    BY <1>3, <1>5 DEF Graph, WithoutOld, Adds, Says
  <2>2. QED
    BY <2>1, NamesAssumption DEF Posted, IdsOf
<1>6. CASE kind \in Edits
  <2>1. Lines(repo'.entries) = posts /\ kind \notin Adds
    BY <1>3, <1>6 DEF Graph, WithMeta, Adds, Says, Edits
  <2>2. QED
    BY <2>1 DEF Posted
<1>7. QED
  BY <1>0, <1>4, <1>5, <1>6 DEF Atomic

\* One call goes on: it replies "ok" to an append only with the commit that made it.
LEMMA AnswersKept ==
  ASSUME CallsTypeOK, RepliesTrue, asked' = asked, NEW r \in Requests, NEW step,
         at[r] \in Requested, at' = [at EXCEPT ![r] = step],
         \/ repo'.entries = repo.entries /\ (asked[r] \in Adds => step # "ok")
         \/ /\ step \in {"ok", "error"}
            /\ \A q \in Requests : Posted(q)' <=> (Posted(q) \/ (q = r /\ asked[r] \in Adds))
         \/ asked[r] = "purge" /\ Lines(repo'.entries) = {}
  PROVE  RepliesTrue'
<1>1. /\ at'[r] = step
      /\ \A q \in Requests : q # r => at'[q] = at[q]
      /\ at[r] \notin {"ok", "error"}
  BY DEF CallsTypeOK, Requested, Reads
<1>2. CASE repo'.entries = repo.entries /\ (asked[r] \in Adds => step # "ok")
  <2>1. \A q \in Requests : Posted(q)' <=> Posted(q)
    BY <1>2 DEF Posted
  <2>2. QED
    BY <1>1, <1>2, <2>1 DEF RepliesTrue
<1>3. CASE /\ step \in {"ok", "error"}
           /\ \A q \in Requests : Posted(q)' <=> (Posted(q) \/ (q = r /\ asked[r] \in Adds))
  BY <1>1, <1>3 DEF RepliesTrue
<1>4. CASE asked[r] = "purge" /\ Lines(repo'.entries) = {}
  BY <1>1, <1>4 DEF RepliesTrue, Posted, IdsOf
<1>5. QED
  BY <1>2, <1>3, <1>4

LEMMA AnswersStep ==
  ASSUME MarkersApart, RepoInv, CallsInv, RepliesTrue, [HostedNext]_hostedVars, asked' = asked
  PROVE  RepliesTrue'
<1>p. Paths = {"annotations", "edges", "entries", "meta", "md", "index"} /\ DOMAIN repo = Paths
  BY DEF Paths, Dir, RepoInv, RepoTypeOK
<1>t. CallsTypeOK /\ \A r \in Requests : CallOK(r)
  BY DEF CallsInv
<1> USE DEF Requested, Reads, Replies
<1>1. ASSUME NEW r \in Requests, NEW step, NEW seen, Goes(r, step, seen), repo' = repo,
             at[r] \in Requested, asked[r] \in Adds => step # "ok"
      PROVE  RepliesTrue'
  BY <1>t, <1>1, AnswersKept DEF Goes
<1>k. \A kind \in Adds : kind # "annotate" /\ kind # "purge"
  BY DEF Adds, Says
<1>2. ASSUME NEW r \in Requests,
             ReadMeta(r) \/ ReadEntries(r) \/ ReadEdges(r) \/ ReadIndex(r) \/ CheckParent(r)
      PROVE  RepliesTrue'
  BY <1>1, <1>2 DEF ReadMeta, ReadEntries, ReadEdges, ReadIndex, CheckParent, StartOver, Reply
<1>3. ASSUME NEW r \in Requests, NEW answer \in {"ok", "error"}, Reply(r, answer),
             at[r] = "patch", r \in fresh, repo' = Committed(asked[r], r, got[r], repo)
      PROVE  RepliesTrue'
  <2>1. \A q \in Requests : Posted(q)' <=> (Posted(q) \/ (q = r /\ asked[r] \in Adds))
    BY <1>3, CommitPosts
  <2>2. QED
    BY <1>t, <1>3, <2>1, AnswersKept DEF Reply, Goes
<1>4. ASSUME NEW r \in Requests, MoveBranch(r) PROVE RepliesTrue'
  <2>1. CASE r \in fresh
    BY <1>3, <1>4, <2>1 DEF MoveBranch, Moves
  <2>2. CASE r \notin fresh
    BY <1>1, <1>4, <2>2 DEF MoveBranch, StartOver, Reply
  <2>3. QED
    BY <2>1, <2>2
\* Of an annotation no entry is to be expected.
<1>5. ASSUME NEW r \in Requests, NEW step, NEW seen, Goes(r, step, seen),
             at[r] \in {"notes", "append", "resync", "embed"}, repo'.entries = repo.entries
      PROVE  RepliesTrue'
  <2>1. asked[r] = "annotate"
    BY <1>t, <1>5 DEF CallOK
  <2>2. QED
    BY <1>t, <1>k, <1>5, <2>1, AnswersKept DEF Goes
<1>6. ASSUME NEW r \in Requests, ReadNotes(r) \/ AppendNote(r) \/ ReadHeader(r) \/ EmbedNotes(r)
      PROVE  RepliesTrue'
  <2>1. repo'.entries = repo.entries
    BY <1>p, <1>6 DEF ReadNotes, AppendNote, ReadHeader, EmbedNotes, Moves
  <2>2. QED
    BY <1>5, <1>6, <2>1 DEF ReadNotes, AppendNote, ReadHeader, EmbedNotes, StartOver, Reply
\* Nor of a deletion of the thread.
<1>7. ASSUME NEW r \in Requests, NEW step, NEW seen, Goes(r, step, seen),
             at[r] \in {"list", "fetch", "unlink"},
             repo'.entries = repo.entries \/ Lines(repo'.entries) = {}
      PROVE  RepliesTrue'
  <2>1. asked[r] = "purge"
    BY <1>t, <1>7 DEF CallOK
  <2>2. QED
    BY <1>t, <1>k, <1>7, <2>1, AnswersKept DEF Goes
<1>8. ASSUME NEW r \in Requests, NEW missed \in BOOLEAN, Passes(r, missed),
             at[r] \in {"fetch", "unlink"}, repo' = repo \/ repo' = [repo EXCEPT ![Turn(r)] = Absent]
      PROVE  RepliesTrue'
  <2>1. Turn(r) \in Dir \cup {"md"}
    BY <1>t, <1>8, TurnIsNext DEF CallsInv, CallOK, CallsTypeOK
  <2>2. repo'.entries = repo.entries \/ Lines(repo'.entries) = {}
    BY <1>p, <1>8, <2>1 DEF Dir, Lines
  <2>3. \E step, seen : Goes(r, step, seen)
    BY <1>8 DEF Passes, Reply
  <2>4. QED
    BY <1>7, <1>8, <2>2, <2>3
<1>9. ASSUME NEW r \in Requests, ListFiles(r) \/ FetchSha(r) \/ DeleteFile(r) PROVE RepliesTrue'
  <2>1. CASE ListFiles(r)
    BY <1>7, <2>1 DEF ListFiles, Reply
  <2>2. CASE FetchSha(r)
    BY <1>7, <1>8, <2>2 DEF FetchSha
  <2>3. CASE DeleteFile(r)
    BY <1>8, <2>3 DEF DeleteFile, Moves
  <2>4. QED
    BY <1>9, <2>1, <2>2, <2>3
<1>10. ASSUME NEW r \in Requests, RequestFails(r) PROVE RepliesTrue'
  <2>1. at[r] \in Requested /\ repo' = repo
    BY <1>10 DEF RequestFails
  <2>2. CASE at[r] = "index"
    BY <1>1, <1>10, <2>1, <2>2 DEF RequestFails
  <2>3. CASE at[r] \in {"fetch", "unlink"}
    BY <1>8, <1>10, <2>1, <2>3 DEF RequestFails
  <2>4. CASE at[r] = "embed"
    BY <1>5, <1>10, <2>1, <2>4 DEF RequestFails, Reply
  <2>5. CASE at[r] \notin {"index", "fetch", "unlink", "embed"}
    BY <1>1, <1>10, <2>1, <2>5 DEF RequestFails, Reply
  <2>6. QED
    BY <2>2, <2>3, <2>4, <2>5
<1>11. ASSUME NEW r \in Requests, AnswerLost(r) PROVE RepliesTrue'
  <2>1. CASE at[r] = "patch" /\ r \in fresh /\ Reply(r, "error")
             /\ repo' = Committed(asked[r], r, got[r], repo)
    BY <1>3, <2>1
  <2>2. CASE at[r] = "append" /\ Reply(r, "error")
             /\ repo' = [repo EXCEPT !.annotations = WithNote(r)]
    BY <1>p, <1>5, <2>2 DEF Reply
  <2>3. CASE at[r] = "embed" /\ Reply(r, "ok")
             /\ repo' = [repo EXCEPT !.meta = [repo.meta EXCEPT !.notes = got[r].annotations]]
    BY <1>p, <1>5, <2>3 DEF Reply
  <2>4. CASE at[r] = "unlink" /\ Passes(r, TRUE) /\ repo' = [repo EXCEPT ![Turn(r)] = Absent]
    BY <1>8, <2>4
  <2>5. QED
    BY <1>11, <2>1, <2>2, <2>3, <2>4 DEF AnswerLost, Moves
<1>12. ASSUME repo'.entries = repo.entries, at' = at PROVE RepliesTrue'
  BY <1>12 DEF RepliesTrue, Posted
<1>13. CASE OtherThreadCommits
  BY <1>p, <1>12, <1>13 DEF OtherThreadCommits, Moves, calls
<1>14. CASE UNCHANGED hostedVars
  BY <1>12, <1>14 DEF hostedVars, calls
<1>15. QED
  BY <1>2, <1>4, <1>6, <1>9, <1>10, <1>11, <1>13, <1>14 DEF HostedNext, Serves

\* The replies to calls that append tell the truth: "ok" means the entry is there, a refusal
\* or a conflict means it is not (hosted_ops.py:1521-2157).
THEOREM RepliesTellTheTruth == MarkersApart => (HostedSpec => []RepliesTrue)
<1> SUFFICES ASSUME MarkersApart PROVE HostedSpec => []RepliesTrue
  OBVIOUS
<1>1. HostedInit => RepliesTrue
  <2> SUFFICES ASSUME HostedInit, NEW r \in Requests
               PROVE  ~Posted(r) /\ at[r] # "ok"
    BY DEF RepliesTrue
  <2>1. at[r] # "ok"
    BY DEF HostedInit, First
  <2>2. CASE repo = EmptyRepo
    <3>1. repo.entries = Absent
      BY <2>2 DEF EmptyRepo, Paths, Dir
    <3>2. Lines(repo.entries) = {}
      BY <3>1 DEF Lines
    <3>3. ~Posted(r)
      BY <3>2 DEF Posted, IdsOf
    <3>4. QED
      BY <2>1, <3>3
  <2>3. ASSUME NEW decision \in BOOLEAN, repo = OldRepo(decision)
        PROVE  ~Posted(r)
    <3>1. repo.entries = {OldPost(decision)} /\ OldPost(decision).id = Old
      BY <2>3 DEF OldRepo, OldPost
    <3>2. QED
      BY <3>1, NamesAssumption DEF Posted, IdsOf, Lines
  <2>4. QED
    BY <2>1, <2>2, <2>3 DEF HostedInit
<1>2. FilesInv /\ CallsInv /\ RepliesTrue /\ [HostedNext]_hostedVars => RepliesTrue'
  <2> SUFFICES ASSUME FilesInv, CallsInv, RepliesTrue, [HostedNext]_hostedVars
               PROVE  RepliesTrue'
    OBVIOUS
  <2>1. asked' = asked
    BY DEF HostedNext, Serves, ReadMeta, ReadEntries, ReadEdges, ReadIndex, CheckParent, MoveBranch,
       ReadNotes, AppendNote, ReadHeader, EmbedNotes, ListFiles, FetchSha, DeleteFile,
       RequestFails, AnswerLost, OtherThreadCommits, calls, hostedVars
  <2>2. QED
    BY <2>1, AnswersStep DEF FilesInv
<1>3. QED
  BY <1>1, <1>2, HostedInvariant, PTL DEF HostedSpec
=============================================================================
