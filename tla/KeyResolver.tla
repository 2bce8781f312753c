----------------------------- MODULE KeyResolver -----------------------------
(***************************************************************************)
(* HttpResolver (src/watercooler_mcp/auth/hmac_resolver.py): the cache of  *)
(* one key id in front of the dashboard, as the request threads that       *)
(* resolve it and the operator who revokes it share it.  A miss is fetched *)
(* by one thread, the leader; the others wait for it and read the cache    *)
(* again.  A flush that arrives while a fetch is under way leaves a mark   *)
(* that keeps the answer out of the cache.                                 *)
(*                                                                         *)
(* A step is a section under the resolver's lock, or the HTTP request.     *)
(* Expiry times are abstracted to whether the entry has expired.           *)
(***************************************************************************)
EXTENDS Integers

CONSTANTS
    Resolvers,  \* the threads that call resolve() for the key id
    NoLeader    \* no thread has an Event in _inflight

ASSUME ResolversAssumption == NoLeader \notin Resolvers

VARIABLES
    dashboard,          \* what the dashboard says of the key: "active" or "revoked"
    cached,             \* _cache: "empty", "key" or "unknown" (a negative entry)
    expired,            \* the entry is past its expiry
    inflight,           \* _inflight: the thread that installed the Event
    revokedInflight,    \* _revoked_inflight holds the key id
    doing,              \* doing[r]: where thread r is in resolve()
    fetched,            \* fetched[r]: what the dashboard answered it
    verdict,            \* verdict[r]: what its last resolve() returned
    settled             \* a flush() has returned since the key was revoked

resolverVars == <<dashboard, cached, expired, inflight, revokedInflight,
                  doing, fetched, verdict, settled>>
-----------------------------------------------------------------------------
Entries  == {"empty", "key", "unknown"}
Leading  == {"fetching", "answered", "kept", "closing"}
Phases   == {"idle", "missed", "waiting", "reading"} \cup Leading
Verdicts == {"key", "none"}

ResolverInit ==
    /\ dashboard = "active" /\ settled = FALSE
    /\ cached = "empty" /\ expired = FALSE
    /\ inflight = NoLeader /\ revokedInflight = FALSE
    /\ doing = [r \in Resolvers |-> "idle"]
    /\ fetched = [r \in Resolvers |-> "empty"]
    /\ verdict = [r \in Resolvers |-> "none"]

Turns(r, phase) == doing' = [doing EXCEPT ![r] = phase]

\* What the cached entry makes resolve() return.
Returns(r) == verdict' = [verdict EXCEPT ![r] = IF cached = "key" THEN "key" ELSE "none"]

\* resolve() finds a live entry.
Hit(r) ==
    /\ doing[r] = "idle" /\ cached # "empty" /\ ~expired
    /\ Returns(r)
    /\ UNCHANGED <<dashboard, cached, expired, inflight, revokedInflight, doing, fetched, settled>>

\* resolve() finds none, or evicts an expired one.
Miss(r) ==
    /\ doing[r] = "idle" /\ (cached = "empty" \/ expired)
    /\ cached' = "empty" /\ expired' = FALSE
    /\ Turns(r, "missed")
    /\ UNCHANGED <<dashboard, inflight, revokedInflight, fetched, verdict, settled>>

\* Whoever finds no Event installs one and leads; everybody else follows.
Lead(r) ==
    /\ doing[r] = "missed" /\ inflight = NoLeader
    /\ inflight' = r
    /\ Turns(r, "fetching")
    /\ UNCHANGED <<dashboard, cached, expired, revokedInflight, fetched, verdict, settled>>

Follow(r) ==
    /\ doing[r] = "missed" /\ inflight # NoLeader
    /\ Turns(r, "waiting")
    /\ UNCHANGED <<dashboard, cached, expired, inflight, revokedInflight, fetched, verdict, settled>>

\* _fetch(): the key, a 404, or a transient failure ("empty": nothing to cache).
Fetch(r) ==
    /\ doing[r] = "fetching"
    /\ \E answer \in {"empty", IF dashboard = "active" THEN "key" ELSE "unknown"} :
         fetched' = [fetched EXCEPT ![r] = answer]
    /\ Turns(r, "answered")
    /\ UNCHANGED <<dashboard, cached, expired, inflight, revokedInflight, verdict, settled>>

\* _do_fetch_and_cache() stores the answer, unless it failed or was marked.
Keep(r) ==
    /\ doing[r] = "answered"
    /\ IF fetched[r] = "empty" \/ revokedInflight
       THEN UNCHANGED <<cached, expired>>
       ELSE cached' = fetched[r] /\ expired' = FALSE
    /\ Turns(r, "kept")
    /\ UNCHANGED <<dashboard, inflight, revokedInflight, fetched, verdict, settled>>

\* The finally of _do_fetch_and_cache().
DropMark(r) ==
    /\ doing[r] = "kept"
    /\ revokedInflight' = FALSE
    /\ Turns(r, "closing")
    /\ UNCHANGED <<dashboard, cached, expired, inflight, fetched, verdict, settled>>

\* A slip: the Event is taken down only after an answer.
ReleaseAnswered(r) ==
    /\ doing[r] = "closing"
    /\ inflight' = IF fetched[r] = "empty" THEN inflight ELSE NoLeader
    /\ revokedInflight' = FALSE
    /\ fetched' = [fetched EXCEPT ![r] = "empty"]
    /\ Turns(r, "reading")
    /\ UNCHANGED <<dashboard, cached, expired, verdict, settled>>

\* The finally of resolve(): the Event is taken down, set, and the mark dropped once more.
Release(r) ==
    /\ doing[r] = "closing"
    /\ inflight' = NoLeader /\ revokedInflight' = FALSE
    /\ fetched' = [fetched EXCEPT ![r] = "empty"]
    /\ Turns(r, "reading")
    /\ UNCHANGED <<dashboard, cached, expired, verdict, settled>>

\* The Event is set, or timeout_s + 1 has passed.
StopWaiting(r) ==
    /\ doing[r] = "waiting"
    /\ Turns(r, "reading")
    /\ UNCHANGED <<dashboard, cached, expired, inflight, revokedInflight, fetched, verdict, settled>>

\* _read_cache_unconditional(): what is there, expired or not.
ReadAgain(r) ==
    /\ doing[r] = "reading"
    /\ Returns(r)
    /\ Turns(r, "idle")
    /\ UNCHANGED <<dashboard, cached, expired, inflight, revokedInflight, fetched, settled>>

Expire ==
    /\ cached # "empty" /\ ~expired
    /\ expired' = TRUE
    /\ UNCHANGED <<dashboard, cached, inflight, revokedInflight, doing, fetched, verdict, settled>>

\* The owner revokes the key on the dashboard ...
RevokeAtDashboard ==
    /\ dashboard = "active"
    /\ dashboard' = "revoked"
    /\ UNCHANGED <<cached, expired, inflight, revokedInflight, doing, fetched, verdict, settled>>

\* A slip: the cache is emptied and the fetch under way forgotten.
FlushCache ==
    /\ cached' = "empty" /\ expired' = FALSE
    /\ settled' = (settled \/ dashboard = "revoked")
    /\ UNCHANGED <<dashboard, inflight, revokedInflight, doing, fetched, verdict>>

\* ... and KeyRegistry.revoke() flushes the resolver; a flush may also come alone.
Flush ==
    /\ cached' = "empty" /\ expired' = FALSE
    /\ revokedInflight' = (revokedInflight \/ inflight # NoLeader)
    /\ settled' = (settled \/ dashboard = "revoked")
    /\ UNCHANGED <<dashboard, inflight, doing, fetched, verdict>>

\* What a thread does by itself once it has missed.
Resolve(r) ==
    \/ Lead(r) \/ Follow(r) \/ Fetch(r) \/ Keep(r) \/ DropMark(r) \/ Release(r)
    \/ StopWaiting(r) \/ ReadAgain(r)

ResolverNext ==
    \/ \E r \in Resolvers : Hit(r) \/ Miss(r) \/ Resolve(r)
    \/ Expire \/ RevokeAtDashboard \/ Flush

ResolverSpec == ResolverInit /\ [][ResolverNext]_resolverVars
-----------------------------------------------------------------------------
\* Type invariant of the resolver; a leader holds the one Event.
ResolverTypeOK ==
    /\ dashboard \in {"active", "revoked"} /\ settled \in BOOLEAN
    /\ cached \in Entries /\ expired \in BOOLEAN
    /\ inflight \in Resolvers \cup {NoLeader} /\ revokedInflight \in BOOLEAN
    /\ doing \in [Resolvers -> Phases]
    /\ fetched \in [Resolvers -> Entries]
    /\ verdict \in [Resolvers -> Verdicts]

\* Once a revoked key has been flushed it stays out of the cache: no answer the
\* dashboard gave before the revocation is stored afterwards, however long it was on
\* its way ("skip the cache write if a flush arrived during the fetch",
\* hmac_resolver.py:409-413).
RevokedStaysOut == settled => cached # "key"

\* What a request sees of it: once a revocation has been flushed, no resolve() that
\* returns from then on returns the key, not even one that began before the revocation,
\* was waiting for the fetch of another or finds an entry that has expired
\* (hmac_resolver.py:220-289).
NoKeyAfterFlush ==
    [][settled => \A r \in Resolvers : Hit(r) \/ ReadAgain(r) => verdict'[r] = "none"]_resolverVars

\* The mark exists only while a fetch does, so that it never costs a later fetch its
\* answer ("the marker's lifetime is bounded by the in-flight window",
\* hmac_resolver.py:272-274).
MarkWithFetch == revokedInflight => inflight # NoLeader

\* A novel key id is asked of the dashboard by one thread at a time: the leader is the
\* thread whose Event is installed.
OneLeader == \A r \in Resolvers : doing[r] \in Leading <=> inflight = r

\* An answer from before the revocation that is still to be stored is marked.
LateAnswerMarked ==
    settled => \A r \in Resolvers :
        (doing[r] = "answered" /\ fetched[r] = "key") => revokedInflight

\* The inductive form of the two properties above.
ResolverInv ==
    /\ ResolverTypeOK /\ RevokedStaysOut /\ MarkWithFetch
    /\ OneLeader /\ LateAnswerMarked /\ (settled => dashboard = "revoked")

\* Every fetch ends, whatever its answer, and gives way to the next one: no Event is left
\* behind that would send every later request to wait for nobody.
FetchGivesWay == (inflight # NoLeader) ~> (inflight = NoLeader)
=============================================================================
