----------------------------- MODULE HostedScopes -----------------------------
(***************************************************************************)
(* HostedDaemonCoordinator without the fleet scheduler                     *)
(* (src/watercooler_mcp/daemons/hosted_coordinator.py) and the clone its   *)
(* daemons read (hosted_worktree.py), for one scope, that is one user and  *)
(* repository.  Requests create the scope's entry and register its daemons *)
(* outside the lock; the reaper picks the scopes that have been idle too   *)
(* long and tears them down one after the other, each in three steps that  *)
(* hold no lock in common.  Every incarnation of the scope has its own     *)
(* entry, daemons and HostedWorktree, but the directory of the clone is    *)
(* named after the scope, so they all share one.                           *)
(*                                                                         *)
(* The idle ttl (30 minutes) outlasts a registration (a clone is given     *)
(* 60 s), so a scope is not idle before its daemons are registered.        *)
(***************************************************************************)
EXTENDS Integers

CONSTANT MaxScopes  \* incarnations of the scope in one behaviour

ASSUME ScopesAssumption == MaxScopes \in Nat

VARIABLES
    entry,      \* the incarnation in _scopes, 0 for none
    made,       \* incarnations so far
    step,       \* step[g]: where the registration of incarnation g is
    tree,       \* tree[g]: its HostedWorktree is _ready
    kept,       \* kept[g]: the incarnation whose worktree the entry of g keeps, 0 for none
    directory,  \* the clone directory of the scope: "none", "partial" or "clone"
    alive,      \* the incarnations whose daemons run and have not been told to stop
    quiet,      \* the entry has not been touched for longer than idle_ttl
    reaper,     \* "waits", "picked", "stopping" or "cleaning"
    victim,     \* the incarnation the reaper is tearing down
    stopped     \* stop() has been called

scopesVars == <<entry, made, step, tree, kept, directory, alive, quiet, reaper, victim, stopped>>
registration == <<made, step>>
clone == <<tree, kept, directory>>
reaping == <<reaper, victim>>
-----------------------------------------------------------------------------
Incarnations == 1..MaxScopes

\* "partial" is what a git that was killed has left and no worktree knows of; "clone" is
\* what a worktree has made or taken for its own.
Directories == {"none", "partial", "clone"}

RegistrationSteps == {"unborn", "cloning", "publishing", "starting", "done"}

\* The server starts in a container of its own, without a clone from an earlier one.
ScopesInit ==
    /\ entry = 0 /\ made = 0 /\ victim = 0
    /\ step = [g \in Incarnations |-> "unborn"]
    /\ tree = [g \in Incarnations |-> FALSE]
    /\ kept = [g \in Incarnations |-> 0]
    /\ directory = "none" /\ alive = {}
    /\ quiet = FALSE /\ stopped = FALSE
    /\ reaper = "waits"

\* HostedWorktree.cleanup() of the worktree of incarnation g, if there is one.
CleansUp(g) ==
    IF g # 0 /\ tree[g]
    THEN directory' = "none" /\ tree' = [tree EXCEPT ![g] = FALSE]
    ELSE UNCHANGED <<directory, tree>>

\* ensure_scope() on a scope without an entry claims it.
CreateScope ==
    /\ ~stopped /\ entry = 0 /\ made < MaxScopes
    /\ made' = made + 1 /\ entry' = made + 1
    /\ step' = [step EXCEPT ![made + 1] = "cloning"]
    /\ quiet' = FALSE
    /\ UNCHANGED <<clone, alive, reaping, stopped>>

\* ensure_scope() and touch_scope() on a live one.
TouchScope ==
    /\ entry # 0 /\ quiet
    /\ quiet' = FALSE
    /\ UNCHANGED <<entry, registration, clone, alive, reaping, stopped>>

\* HostedWorktree.initialize() takes a directory with a .git for a clone, be it partial or
\* not, or removes one without and makes a clone.  A git that fails removes what it has
\* begun; one that is killed after 60 s does not, and the worktree, which names its
\* directory only after a success, will not either.  Without a token no clone is asked for.
Clone(g) ==
    /\ step[g] = "cloning"
    /\ \/ /\ directory' = "clone" /\ tree' = [tree EXCEPT ![g] = TRUE]
          /\ step' = [step EXCEPT ![g] = "publishing"]
       \/ /\ directory' \in IF directory = "clone" THEN {"clone"} ELSE {"none", "partial"}
          /\ step' = [step EXCEPT ![g] = "starting"]
          /\ UNCHANGED tree
    /\ UNCHANGED <<entry, made, kept, alive, quiet, reaping, stopped>>

\* A slip: a worktree nobody waits for any more is left alone.
PublishIfLive(g) ==
    /\ step[g] = "publishing"
    /\ step' = [step EXCEPT ![g] = "starting"]
    /\ kept' = IF entry # 0 THEN [kept EXCEPT ![entry] = g] ELSE kept
    /\ UNCHANGED <<entry, made, tree, directory, alive, quiet, reaping, stopped>>

\* The entry of the scope keeps the worktree; if the scope was torn down concurrently,
\* it is cleaned up at once.
Publish(g) ==
    /\ step[g] = "publishing"
    /\ step' = [step EXCEPT ![g] = "starting"]
    /\ IF entry # 0
       THEN kept' = [kept EXCEPT ![entry] = g] /\ UNCHANGED <<tree, directory>>
       ELSE CleansUp(g) /\ UNCHANGED kept
    /\ UNCHANGED <<entry, made, alive, quiet, reaping, stopped>>

\* The daemons are registered and start_all() starts them, whatever has become of the scope.
StartDaemons(g) ==
    /\ step[g] = "starting"
    /\ step' = [step EXCEPT ![g] = "done"]
    /\ alive' = alive \cup {g}
    /\ UNCHANGED <<entry, made, clone, quiet, reaping, stopped>>

GoQuiet ==
    /\ entry # 0 /\ ~quiet /\ step[entry] = "done"
    /\ quiet' = TRUE
    /\ UNCHANGED <<entry, registration, clone, alive, reaping, stopped>>

\* teardown_idle_scopes() lists the idle scopes under the lock ...
PickIdle ==
    /\ reaper = "waits" /\ entry # 0 /\ quiet /\ ~stopped
    /\ reaper' = "picked"
    /\ UNCHANGED <<entry, registration, clone, alive, quiet, victim, stopped>>

\* ... and has each torn down when its turn comes, touched in the meantime or not.
PopScope ==
    /\ reaper = "picked"
    /\ victim' = entry
    /\ reaper' = IF entry = 0 THEN "waits" ELSE "stopping"
    /\ entry' = 0
    /\ UNCHANGED <<registration, clone, alive, quiet, stopped>>

\* teardown_scope() then tells the daemons to stop and waits up to 10 s for each; one that
\* is still in its tick then ends after it (DaemonLoop) ...
StopDaemons ==
    /\ reaper = "stopping"
    /\ alive' = alive \ {victim}
    /\ reaper' = "cleaning"
    /\ UNCHANGED <<entry, registration, clone, quiet, victim, stopped>>

\* ... and removes the clone.
RemoveTree ==
    /\ reaper = "cleaning"
    /\ CleansUp(kept[victim])
    /\ reaper' = "waits" /\ victim' = 0
    /\ UNCHANGED <<entry, registration, kept, alive, quiet, stopped>>

\* The coordinator's stop(), under the lock.
StopCoordinator ==
    /\ ~stopped
    /\ stopped' = TRUE
    /\ entry' = 0
    /\ alive' = alive \ {entry}
    /\ CleansUp(IF entry = 0 THEN 0 ELSE kept[entry])
    /\ UNCHANGED <<registration, kept, quiet, reaping>>

ScopesNext ==
    \/ CreateScope \/ TouchScope \/ GoQuiet
    \/ PickIdle \/ PopScope \/ StopDaemons \/ RemoveTree \/ StopCoordinator
    \/ \E g \in Incarnations : Clone(g) \/ Publish(g) \/ StartDaemons(g)

ScopesSpec == ScopesInit /\ [][ScopesNext]_scopesVars
-----------------------------------------------------------------------------
ScopesTypeOK ==
    /\ entry \in 0..MaxScopes /\ made \in 0..MaxScopes /\ victim \in 0..MaxScopes
    /\ step \in [Incarnations -> RegistrationSteps]
    /\ tree \in [Incarnations -> BOOLEAN] /\ kept \in [Incarnations -> 0..MaxScopes]
    /\ directory \in Directories /\ quiet \in BOOLEAN /\ stopped \in BOOLEAN
    /\ alive \subseteq Incarnations
    /\ reaper \in {"waits", "picked", "stopping", "cleaning"}

Registered == \A g \in Incarnations : step[g] \in {"unborn", "done"}

\* When the scope has been torn down and nothing is under way, no clone that a worktree of
\* any incarnation had made or taken over is left and, while the server runs, no daemon
\* that nobody has told to stop, in whatever order registrations, the reaper and stop()
\* went ("Scope torn down concurrently - clean up worktree", hosted_coordinator.py:321-323).
\* What can be left is the partial clone of a git that was killed (hosted_worktree.py:169-196):
\* the next incarnation takes it over, or removes it, and then it goes with that one.
TakenIsGivenBack ==
    (entry = 0 /\ reaper = "waits" /\ Registered) =>
        directory # "clone" /\ (stopped \/ alive = {})

\* A clone directory that exists when a scope is set up is "from a previous process
\* lifecycle" (hosted_worktree.py:146), so it stays for as long as the scope does.  It may
\* be the one the reaper is about to remove.
LiveTreeStays == (entry # 0 /\ kept[entry] # 0 /\ tree[kept[entry]]) => directory = "clone"
=============================================================================
