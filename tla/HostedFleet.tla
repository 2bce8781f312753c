----------------------------- MODULE HostedFleet -----------------------------
(***************************************************************************)
(* HostedFleetScheduler (src/watercooler_mcp/daemons/hosted_fleet.py): the *)
(* fleet of daemons of one repository, shared by all its tenants.  The     *)
(* first tenant to touch the repository creates the fleet and registers    *)
(* its daemons outside the lock, while others already find it in the map   *)
(* and may bring newer tokens; then one scheduler thread hands the due     *)
(* daemons to a bounded pool.                                              *)
(*                                                                         *)
(* Times are abstracted to what is compared: a daemon is due or not, the   *)
(* fleet is idle past neither, one or both idle gates.                     *)
(***************************************************************************)
EXTENDS Integers, FiniteSets

CONSTANTS
    Tokens,     \* the tenants' GitHub tokens
    NoToken,    \* a tenant without one
    NoTree,     \* fleet.worktree is None
    Daemons,
    LightDaemons,   \* _LIGHT_DAEMONS: those with the longer idle gate
    PoolSize        \* max_workers

ASSUME FleetAssumption ==
    /\ NoToken \notin Tokens /\ NoTree \notin Tokens \cup {NoToken}
    /\ IsFiniteSet(Daemons) /\ LightDaemons \subseteq Daemons
    /\ PoolSize \in Nat \ {0}

VARIABLES
    fleet,          \* "none", "cloning", "registering" or "ready"
    firstToken,     \* the token of the tenant that creates the fleet
    scopeToken,     \* fleet.scope_ctx.github_token
    treeToken,      \* the token of fleet.worktree
    idle,           \* how many idle gates the time since last_activity has passed
    scheduled,      \* the daemons in next_due
    due,            \* those whose next_due has come
    inFlight,       \* fleet.in_flight
    queued,         \* queued[d]: ticks of d the pool has not begun
    running         \* running[d]: ticks of d pool threads are in

fleetVars == <<fleet, firstToken, scopeToken, treeToken, idle,
               scheduled, due, inFlight, queued, running>>
identity  == <<firstToken, scopeToken, treeToken>>
ticks     == <<scheduled, due, inFlight, queued, running>>
-----------------------------------------------------------------------------
FleetInit ==
    /\ fleet = "none" /\ idle = 0
    /\ firstToken = NoToken /\ scopeToken = NoToken /\ treeToken = NoTree
    /\ scheduled = {} /\ due = {} /\ inFlight = {}
    /\ queued = [d \in Daemons |-> 0] /\ running = [d \in Daemons |-> 0]

\* ensure_fleet() on a repository without a fleet publishes an empty one.
CreateFleet(token) ==
    /\ fleet = "none"
    /\ fleet' = "cloning" /\ idle' = 0
    /\ firstToken' = token /\ scopeToken' = token
    /\ UNCHANGED <<treeToken, ticks>>

\* _refresh_identity_locked(): a newer token is adopted, by the worktree too if there is one.
RefreshIdentity(token) ==
    IF token \in {NoToken, scopeToken} THEN UNCHANGED identity
    ELSE /\ scopeToken' = token
         /\ treeToken' = IF treeToken = NoTree THEN NoTree ELSE token
         /\ UNCHANGED firstToken

\* ensure_fleet() on a repository with a fleet, registered or not.
TouchFleet(token) ==
    /\ fleet # "none"
    /\ idle' = 0
    /\ RefreshIdentity(token)
    /\ UNCHANGED <<fleet, ticks>>

\* _register_daemons_for_fleet() clones with the token the creator brought, if any.
CloneTree ==
    /\ fleet = "cloning"
    /\ fleet' = "registering"
    /\ \/ firstToken # NoToken /\ treeToken' = firstToken
       \/ UNCHANGED treeToken
    /\ UNCHANGED <<firstToken, scopeToken, idle, ticks>>

\* A slip: the worktree keeps the token it was cloned with.
PutOnSchedule ==
    /\ fleet = "registering"
    /\ fleet' = "ready"
    /\ \E registered \in SUBSET Daemons : scheduled' = registered
    /\ UNCHANGED <<identity, idle, due, inFlight, queued, running>>

\* The daemons that could be registered are put on the schedule, after the worktree
\* has been brought up to the fleet's current token.
Schedule ==
    /\ fleet = "registering"
    /\ fleet' = "ready"
    /\ \E registered \in SUBSET Daemons : scheduled' = registered
    /\ treeToken' = IF treeToken # NoTree /\ scopeToken \notin {NoToken, firstToken}
                    THEN scopeToken ELSE treeToken
    /\ UNCHANGED <<firstToken, scopeToken, idle, due, inFlight, queued, running>>

ComesDue(d) ==
    /\ d \in scheduled \ due
    /\ due' = due \cup {d}
    /\ UNCHANGED <<fleet, identity, idle, scheduled, inFlight, queued, running>>

GrowIdle ==
    /\ fleet # "none" /\ idle < 2
    /\ idle' = idle + 1
    /\ UNCHANGED <<fleet, identity, ticks>>

Gated(d) == idle > IF d \in LightDaemons THEN 1 ELSE 0

Submits(daemons) ==
    /\ daemons # {}
    /\ inFlight' = inFlight \cup daemons
    /\ queued' = [d \in Daemons |-> IF d \in daemons THEN queued[d] + 1 ELSE queued[d]]
    /\ UNCHANGED <<fleet, identity, idle, scheduled, due, running>>

\* A slip: in_flight is not asked.
CollectAllDue == Submits({d \in due : ~Gated(d)})

\* One pass of the scheduler: _collect_due() and a submit() for each.
CollectDue == Submits({d \in due \ inFlight : ~Gated(d)})

\* A free thread of the pool begins the tick, under the fleet's current identity.
BeginTick(d) ==
    /\ queued[d] > 0
    /\ Cardinality({e \in Daemons : running[e] > 0}) < PoolSize
    /\ queued' = [queued EXCEPT ![d] = @ - 1]
    /\ running' = [running EXCEPT ![d] = @ + 1]
    /\ UNCHANGED <<fleet, identity, idle, scheduled, due, inFlight>>

\* A slip: a tick that crashes leaves its daemon in flight.
EndTickUnlessCrashed(d) ==
    /\ running[d] > 0
    /\ running' = [running EXCEPT ![d] = @ - 1]
    /\ due' = due \ {d}
    /\ \E crashed \in BOOLEAN : inFlight' = IF crashed THEN inFlight ELSE inFlight \ {d}
    /\ UNCHANGED <<fleet, identity, idle, scheduled, queued>>

\* The tick ends, or crashes: the daemon is rescheduled one interval later.
EndTick(d) ==
    /\ running[d] > 0
    /\ running' = [running EXCEPT ![d] = @ - 1]
    /\ due' = due \ {d}
    /\ inFlight' = inFlight \ {d}
    /\ UNCHANGED <<fleet, identity, idle, scheduled, queued>>

FleetNext ==
    \/ \E token \in Tokens \cup {NoToken} : CreateFleet(token) \/ TouchFleet(token)
    \/ CloneTree \/ Schedule \/ GrowIdle \/ CollectDue
    \/ \E d \in Daemons : ComesDue(d) \/ BeginTick(d) \/ EndTick(d)

FleetSpec == FleetInit /\ [][FleetNext]_fleetVars
-----------------------------------------------------------------------------
FleetTypeOK ==
    /\ fleet \in {"none", "cloning", "registering", "ready"} /\ idle \in 0..2
    /\ {firstToken, scopeToken} \subseteq Tokens \cup {NoToken}
    /\ treeToken \in Tokens \cup {NoTree}
    /\ scheduled \subseteq Daemons /\ due \subseteq scheduled /\ inFlight \subseteq scheduled
    /\ queued \in [Daemons -> Nat] /\ running \in [Daemons -> Nat]

\* Once the fleet is scheduled its worktree fetches and pushes with the token most
\* recently brought by a tenant, also when that came while the clone was under way
\* ("Close the first-touch identity race (D3)", hosted_fleet.py:191-196).
WorktreeIdentity == (fleet = "ready" /\ treeToken # NoTree) => treeToken = scopeToken

\* A daemon has at most one tick submitted or running, over however many threads, and
\* is marked in flight exactly for that time.
OneTickAtATime ==
    \A d \in Daemons : queued[d] + running[d] = IF d \in inFlight THEN 1 ELSE 0

\* While a clone is under way a worktree that lags behind still has the creator's token.
LagsOnlyBehind ==
    (fleet = "registering" /\ treeToken # NoTree) => treeToken \in {firstToken, scopeToken}

\* The inductive form of the two properties above.
FleetInv ==
    /\ FleetTypeOK /\ WorktreeIdentity /\ OneTickAtATime /\ LagsOnlyBehind
    /\ fleet \in {"none", "cloning"} => treeToken = NoTree
    /\ fleet # "ready" => scheduled = {}
    /\ (scopeToken = NoToken => firstToken = NoToken)

\* A due daemon ticks unless nobody touches its repository for longer than its gate; one
\* that was gated is due "the moment tenant activity resumes" (hosted_fleet.py:277-278).
EveryDueTicks == \A d \in Daemons : (d \in due /\ ~Gated(d)) ~> (d \notin due \/ Gated(d))
=============================================================================
