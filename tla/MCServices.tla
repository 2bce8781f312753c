----------------------------- MODULE MCServices -----------------------------
(***************************************************************************)
(* The services of a server process that must not stop serving, side by    *)
(* side: the advisory lock of a worktree, the key resolver, the fleet      *)
(* scheduler and the scopes.  They share no state, so a behaviour is about *)
(* one of them, the `focus`, and the fairness of each applies while it is  *)
(* the focus.                                                              *)
(***************************************************************************)
EXTENDS KeyResolver, HostedFleet, HostedScopes

CONSTANTS u1, u2, oper, NoFile, NoPid, t1, t2

VARIABLES
    focus,
    lockFile, pc, waited, heldFor, faults

lockVars  == <<lockFile, pc, waited, heldFor, faults>>
allVars   == <<focus, resolverVars, fleetVars, scopesVars, lockVars>>
-----------------------------------------------------------------------------
\* Two users of a worktree lock and an operator with --force, in ticks of a minute;
\* two crashes or failed metadata writes.
People  == {u1, u2, oper}
Forcing == {oper}
LockTTL     == [p \in People |-> IF p = oper THEN 1 ELSE 2]
LockTimeout == [p \in People |-> IF p = oper THEN 0 ELSE 1]
LockHold    == [p \in People |-> 2]
Lock == INSTANCE AdvisoryLock WITH
    Procs <- People, Operators <- Forcing, Breakers <- Forcing,
    TTL <- LockTTL, Timeout <- LockTimeout, MaxHold <- LockHold, MaxAge <- 3, MaxFaults <- 2

Services == {"lock", "resolver", "fleet", "scopes"}

ServicesInit ==
    /\ focus \in Services
    /\ ResolverInit /\ FleetInit /\ ScopesInit /\ Lock!Init

OnLock(step_)     == focus = "lock" /\ step_
                     /\ UNCHANGED <<focus, resolverVars, fleetVars, scopesVars>>
OnResolver(step_) == focus = "resolver" /\ step_
                     /\ UNCHANGED <<focus, fleetVars, scopesVars, lockVars>>
OnFleet(step_)    == focus = "fleet" /\ step_
                     /\ UNCHANGED <<focus, resolverVars, scopesVars, lockVars>>
OnScopes(step_)   == focus = "scopes" /\ step_
                     /\ UNCHANGED <<focus, resolverVars, fleetVars, lockVars>>

ServicesNext ==
    \/ OnLock(Lock!Next)
    \/ OnResolver(ResolverNext) \/ OnFleet(FleetNext) \/ OnScopes(ScopesNext)
-----------------------------------------------------------------------------
(* Fairness.  Threads run; a submitted tick gets a pool thread in the end;  *)
(* fetches and ticks end (each has a timeout); time passes.  Nobody is      *)
(* obliged to call: requests, tenants' touches and operators are not fair,  *)
(* and neither is anything of the scopes, about which nothing is promised   *)
(* but safety.                                                              *)

\* The focus never changes, so one condition can stand for one of each service.
Scheduled ==
    /\ WF_allVars(OnLock(Lock!Tick) \/ OnFleet(CollectDue))
    /\ \A p \in {u1, u2} :
        /\ WF_allVars(OnLock(Lock!Begin(p)) \/ OnResolver(Resolve(p)))
        /\ WF_allVars(OnLock(Lock!Proceed(p)) \/ OnFleet(EndTick(p)))
        /\ SF_allVars(OnFleet(BeginTick(p)))

ServicesSpec == ServicesInit /\ [][ServicesNext]_allVars /\ Scheduled

EveryAcquireReturns == Lock!EveryAcquireReturns
OrphanIsBroken      == Lock!OrphanIsBroken
=============================================================================
