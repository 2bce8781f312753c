---------------------------- MODULE AdvisoryLock ----------------------------
(***************************************************************************)
(* The file-based advisory lock every writer of a threads worktree takes   *)
(* (src/watercooler/lock.py), and the operator command that clears one     *)
(* (commands.unlock).  One module instance is one lock path.               *)
(*                                                                         *)
(* The lock is a file: it is taken by creating the file exclusively, kept  *)
(* by nothing at all, and given back by unlinking the path.  A waiter that *)
(* finds the file older than ITS OWN ttl unlinks it and tries again, so    *)
(* exclusion rests on every holder being done before the file grows older  *)
(* than the shortest ttl anyone uses on that path.                         *)
(*                                                                         *)
(* Each system call is a step.  Clock ticks age the file, the waits and    *)
(* the holds together; every age stops counting where no comparison in the *)
(* code can tell it from a larger one, so the counters need no bound.      *)
(***************************************************************************)
EXTENDS Integers, FiniteSets

CONSTANTS
    Procs,      \* threads and processes that construct an AdvisoryLock on the path
    Operators,  \* the ones that only run `watercooler unlock`
    Breakers,   \* the ones that pass force_break=True (or unlock --force)
    TTL,        \* TTL[p]: ttl in ticks that p constructs its lock with; 0 is "never stale"
    Timeout,    \* Timeout[p]: timeout in ticks; 0 is "do not wait"
    MaxAge,     \* age at which the file's age stops counting
    MaxHold,    \* MaxHold[p]: the longest p takes from taking the lock to releasing it
    MaxFaults,  \* crashes and failed metadata writes in one behaviour
    NoFile,     \* nothing at the path
    NoPid       \* content of a file os.open has created and _write_pid not yet filled

\* The file at the path: the pid written in it, and time.time() - st_mtime.
Files == [pid : Procs \cup {NoPid}, age : 0..MaxAge]

ASSUME ProcsAssumption ==
    /\ Operators \subseteq Procs
    /\ Breakers \subseteq Procs
    /\ NoPid \notin Procs
    /\ NoFile \notin Files
ASSUME TimesAssumption ==
    /\ TTL \in [Procs -> Nat]
    /\ Timeout \in [Procs -> Nat]
    /\ MaxHold \in [Procs -> Nat]
    /\ MaxAge \in Nat /\ MaxFaults \in Nat
    /\ \A p \in Procs : TTL[p] < MaxAge

VARIABLES
    lockFile,   \* the file at the path: NoFile, or its content (pid) and its age
    pc,         \* the next system call of each process
    waited,     \* time since acquire() was called
    heldFor,    \* time since the process last stamped the file it created
    faults      \* crashes and failed writes so far

vars == <<lockFile, pc, waited, heldFor, faults>>
-----------------------------------------------------------------------------
Steps == {"idle", "open", "write", "exists", "unlink", "sleep", "held", "clear"}

Present == lockFile # NoFile

\* The processes for which acquire() has created the file and not yet released it.
Owners  == {p \in Procs : pc[p] \in {"write", "held"}}
Holders == {p \in Procs : pc[p] = "held"}

\* (time.time() - mtime) > ttl; a missing file is not stale.
IsStale(p) == Present /\ lockFile.age > TTL[p]

Go(p, step) == pc' = [pc EXCEPT ![p] = step]

Init ==
    /\ lockFile = NoFile
    /\ pc       = [p \in Procs |-> "idle"]
    /\ waited   = [p \in Procs |-> 0]
    /\ heldFor  = [p \in Procs |-> 0]
    /\ faults   = 0
-----------------------------------------------------------------------------
(* acquire()                                                               *)

Begin(p) ==
    /\ pc[p] = "idle" /\ p \notin Operators
    /\ Go(p, "open")
    /\ waited' = [waited EXCEPT ![p] = 0]
    /\ UNCHANGED <<lockFile, heldFor, faults>>

\* A slip: os.open without O_EXCL.
OpenAnyway(p) ==
    /\ pc[p] = "open"
    /\ lockFile' = [pid |-> NoPid, age |-> 0]
    /\ heldFor'  = [heldFor EXCEPT ![p] = 0]
    /\ Go(p, "write")
    /\ UNCHANGED <<waited, faults>>

\* os.open(O_CREAT | O_EXCL) succeeds: the file exists, still empty.
OpenCreates(p) ==
    /\ pc[p] = "open" /\ ~Present
    /\ lockFile' = [pid |-> NoPid, age |-> 0]
    /\ heldFor'  = [heldFor EXCEPT ![p] = 0]
    /\ Go(p, "write")
    /\ UNCHANGED <<waited, faults>>

\* ... or raises FileExistsError.  force_break looks at nothing else, timeout 0 gives up.
OpenFails(p) ==
    /\ pc[p] = "open" /\ Present
    /\ Go(p, IF p \in Breakers THEN "unlink"
             ELSE IF Timeout[p] = 0 THEN "idle" ELSE "exists")
    /\ UNCHANGED <<lockFile, waited, heldFor, faults>>

\* _write_pid(): write_text truncates whatever file is at the path now, creating
\* one if a breaker has unlinked ours meanwhile.
WritePid(p) ==
    /\ pc[p] = "write"
    /\ lockFile' = [pid |-> p, age |-> 0]
    /\ heldFor'  = [heldFor EXCEPT ![p] = 0]
    /\ Go(p, "held")
    /\ UNCHANGED <<waited, faults>>

\* _write_pid() raises (disk full, working directory gone): the exception leaves
\* acquire() with acquired still False, so nobody will ever unlink the file.
WritePidFails(p) ==
    /\ pc[p] = "write" /\ faults < MaxFaults
    /\ faults' = faults + 1
    /\ Go(p, "idle")
    /\ UNCHANGED <<lockFile, waited, heldFor>>

\* Slips CheckStale must not contain: >= for > in _is_stale(); no timeout test; the
\* timeout test before the staleness test.
CheckStaleEarly(p) ==
    /\ pc[p] = "exists"
    /\ Go(p, IF TTL[p] > 0 /\ Present /\ lockFile.age >= TTL[p] THEN "unlink"
             ELSE IF waited[p] >= Timeout[p] THEN "idle" ELSE "sleep")
    /\ UNCHANGED <<lockFile, waited, heldFor, faults>>
CheckStaleForever(p) ==
    /\ pc[p] = "exists"
    /\ Go(p, IF TTL[p] > 0 /\ IsStale(p) THEN "unlink" ELSE "sleep")
    /\ UNCHANGED <<lockFile, waited, heldFor, faults>>
CheckTimeoutFirst(p) ==
    /\ pc[p] = "exists"
    /\ Go(p, IF waited[p] >= Timeout[p] THEN "idle"
             ELSE IF TTL[p] > 0 /\ IsStale(p) THEN "unlink" ELSE "sleep")
    /\ UNCHANGED <<lockFile, waited, heldFor, faults>>

\* The stat() of _is_stale(), the comparison with the clock, the timeout test.
CheckStale(p) ==
    /\ pc[p] = "exists"
    /\ Go(p, IF TTL[p] > 0 /\ IsStale(p) THEN "unlink"
             ELSE IF waited[p] >= Timeout[p] THEN "idle" ELSE "sleep")
    /\ UNCHANGED <<lockFile, waited, heldFor, faults>>

\* The unlink of a file judged stale some time ago: it removes whatever is there now.
Unlink(p) ==
    /\ pc[p] = "unlink"
    /\ lockFile' = NoFile
    /\ Go(p, "open")
    /\ UNCHANGED <<waited, heldFor, faults>>

Wake(p) ==
    /\ pc[p] = "sleep"
    /\ Go(p, "open")
    /\ UNCHANGED <<lockFile, waited, heldFor, faults>>
-----------------------------------------------------------------------------
(* release(), and what else touches the file                               *)

\* release() unlinks the path without looking at who created the file.
Release(p) ==
    /\ pc[p] = "held"
    /\ lockFile' = NoFile
    /\ Go(p, "idle")
    /\ UNCHANGED <<waited, heldFor, faults>>

\* A process dies: its locks stay on disk.  The process may be started again.
Crash(p) ==
    /\ pc[p] # "idle" /\ faults < MaxFaults
    /\ faults' = faults + 1
    /\ Go(p, "idle")
    /\ UNCHANGED <<lockFile, waited, heldFor>>

\* A slip: unlock removes whatever it finds.
UnlockChecksNothing(p) ==
    /\ pc[p] = "idle" /\ p \in Operators
    /\ Present
    /\ Go(p, "clear")
    /\ UNCHANGED <<lockFile, waited, heldFor, faults>>

\* `watercooler unlock`: stat, then remove a lock that is stale (or any, forced).
UnlockChecks(p) ==
    /\ pc[p] = "idle" /\ p \in Operators
    /\ Present /\ (IsStale(p) \/ p \in Breakers)
    /\ Go(p, "clear")
    /\ UNCHANGED <<lockFile, waited, heldFor, faults>>

UnlockRemoves(p) ==
    /\ pc[p] = "clear"
    /\ lockFile' = NoFile
    /\ Go(p, "idle")
    /\ UNCHANGED <<waited, heldFor, faults>>

Older(n, top) == IF n < top THEN n + 1 ELSE top

\* Time passes, for the file and for every process; no process keeps the lock
\* longer than its MaxHold.
Tick ==
    /\ \A p \in Owners : heldFor[p] < MaxHold[p]
    /\ lockFile' = IF Present THEN [lockFile EXCEPT !.age = Older(@, MaxAge)] ELSE lockFile
    /\ waited'   = [p \in Procs |-> IF pc[p] \in {"open", "exists", "unlink", "sleep"}
                                    THEN Older(waited[p], Timeout[p]) ELSE waited[p]]
    /\ heldFor'  = [p \in Procs |-> IF p \in Owners THEN heldFor[p] + 1 ELSE heldFor[p]]
    /\ UNCHANGED <<pc, faults>>

\* What a process does by itself, without being asked or failing.
Proceed(p) ==
    \/ OpenCreates(p) \/ OpenFails(p) \/ WritePid(p) \/ CheckStale(p)
    \/ Unlink(p) \/ Wake(p) \/ Release(p) \/ UnlockRemoves(p)

Next ==
    \/ \E p \in Procs :
        Begin(p) \/ Proceed(p) \/ WritePidFails(p) \/ Crash(p) \/ UnlockChecks(p)
    \/ Tick

Spec == Init /\ [][Next]_vars
-----------------------------------------------------------------------------
(* What the lock promises                                                  *)

\* Type invariant: every variable of the lock stays in its range.
TypeOK ==
    /\ lockFile \in Files \cup {NoFile}
    /\ pc \in [Procs -> Steps]
    /\ waited \in [Procs -> Nat]
    /\ heldFor \in [Procs -> Nat] /\ \A p \in Procs : heldFor[p] <= MaxHold[p]
    /\ faults \in 0..MaxFaults

\* At most one process is between a successful acquire() and its release():
\* "all worktree mutation is serialized by the worktree lock" (committer.py:11-16).
\* Holds while nobody keeps the lock longer than the shortest ttl in use and no
\* lock file is left behind; see the README for what happens otherwise.
MutualExclusion == \A p, q \in Holders : p = q

\* While a process holds the lock the file is there and get_lock_info() names that
\* process: nobody's late write_text, unlink or stale break has touched it.
LockInfoNamesHolder == \A p \in Holders : Present /\ lockFile.pid = p

\* The circumstances under which exclusion is promised: no forced breaks, no lock
\* files left behind, and no hold longer than the shortest ttl on the path.
Cooperative ==
    /\ Breakers = {} /\ MaxFaults = 0
    /\ \A p, q \in Procs : (q \in Operators \/ TTL[q] > 0) => MaxHold[p] <= TTL[q]

\* The inductive form of the two properties above: the file exists exactly while
\* some process owns it, its content is that owner's, it is no older than that
\* owner's last stamp, and so nobody has judged it stale.
OneOwner      == \A p, q \in Owners : p = q
FileIsOwned   == Present <=> Owners # {}
FileIsOwners  == \A p \in Owners : /\ lockFile.age <= heldFor[p]
                                   /\ lockFile.pid = IF pc[p] = "write" THEN NoPid ELSE p
NoneBreaking  == \A p \in Procs : pc[p] \notin {"unlink", "clear"}
ExclusionInv  == OneOwner /\ FileIsOwned /\ FileIsOwners /\ NoneBreaking

\* The abstract lock this file implements (Mutex): entering is creating the file.
Abstract == INSTANCE Mutex WITH inside <- Owners
AbstractSpec == Abstract!Spec
-----------------------------------------------------------------------------
(* Liveness.  Processes are scheduled, time passes, and the daemons and     *)
(* writers that use a worktree keep coming back to it; nobody is obliged to *)
(* run `watercooler unlock`.                                                *)

LiveSpec ==
    /\ Spec
    /\ WF_vars(Tick)
    /\ \A p \in Procs \ Operators : WF_vars(Begin(p)) /\ WF_vars(Proceed(p))

\* acquire() never waits forever: it returns True, or False within its timeout,
\* whatever the other waiters, breakers and holders do.
EveryAcquireReturns ==
    \A p \in Procs : (pc[p] = "open") ~> (pc[p] \in {"held", "idle"})

\* A lock file whose process is gone is in nobody's way forever, although each
\* waiter gives up (60 s) before the file it waits for is stale (120 s).
OrphanIsBroken == (Present /\ Owners = {}) ~> ~(Present /\ Owners = {})
=============================================================================
