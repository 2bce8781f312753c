--------------------------- MODULE ServicesProofs ---------------------------
(***************************************************************************)
(* What the server's services guarantee, one after the other.              *)
(*                                                                         *)
(* The resolver, for any set of threads: a revoked key that has been       *)
(* flushed stays out of the cache.  The argument: ResolverInv is           *)
(* inductive.  A fetch holds the one Event for as long as its answer may   *)
(* still be stored, so a flush in that time finds the Event and leaves the *)
(* mark; the mark goes down with the Event, after the answer was dropped;  *)
(* and what is fetched after the flush is no longer a key.                 *)
(*                                                                         *)
(* The fleet, for any tenants and daemons: the worktree of a scheduled     *)
(* fleet works under the newest token, and a daemon has one tick at a      *)
(* time.  The argument: FleetInv is inductive.  Before the schedule the    *)
(* worktree can lag behind, but then only with the token the creator       *)
(* brought, which Schedule compares with the current one; and only a       *)
(* daemon that is not in flight is submitted, only an ended tick takes it  *)
(* out again.                                                              *)
(*                                                                         *)
(* The scopes: what a scope had taken goes with it.  The argument:         *)
(* ScopesInv says that a clone somebody has taken always has one who is    *)
(* still to remove it, and a daemon somebody who is still to stop it.      *)
(*                                                                         *)
(* The loop of a daemon, for any number of threads: there is one at a      *)
(* time, if start() is left alone on a daemon that starts or is paused.    *)
(* The argument: LoopInv ties the loop to _thread and to the status.       *)
(***************************************************************************)
EXTENDS KeyResolver, HostedFleet, HostedScopes, DaemonLoop, TLAPS
-----------------------------------------------------------------------------
(* The resolver                                                            *)

LEMMA ResolverInvInit == ResolverInit => ResolverInv
  BY ResolversAssumption
  DEF ResolverInit, ResolverInv, ResolverTypeOK, RevokedStaysOut, MarkWithFetch, OneLeader,
      LateAnswerMarked, Entries, Phases, Leading, Verdicts

\* The steps of one thread.
LEMMA ResolverStep ==
  ASSUME ResolverInv, NEW r \in Resolvers, Hit(r) \/ Miss(r) \/ Resolve(r)
  PROVE  ResolverInv'
<1> USE ResolversAssumption
    DEF ResolverInv, ResolverTypeOK, RevokedStaysOut, MarkWithFetch, OneLeader,
        LateAnswerMarked, Entries, Phases, Leading, Verdicts, Turns, Returns
<1>1. CASE Hit(r)
  BY <1>1 DEF Hit
<1>2. CASE Miss(r)
  BY <1>2 DEF Miss
<1>3. CASE Lead(r)
  BY <1>3 DEF Lead
<1>4. CASE Follow(r)
  BY <1>4 DEF Follow
<1>5. CASE Fetch(r)
  BY <1>5 DEF Fetch
<1>6. CASE Keep(r)
  BY <1>6 DEF Keep
<1>7. CASE DropMark(r)
  BY <1>7 DEF DropMark
<1>8. CASE Release(r)
  BY <1>8 DEF Release
<1>9. CASE StopWaiting(r)
  BY <1>9 DEF StopWaiting
<1>10. CASE ReadAgain(r)
  BY <1>10 DEF ReadAgain
<1>11. QED
  BY <1>1, <1>2, <1>3, <1>4, <1>5, <1>6, <1>7, <1>8, <1>9, <1>10 DEF Resolve

LEMMA ResolverInvStep == ResolverInv /\ [ResolverNext]_resolverVars => ResolverInv'
<1> SUFFICES ASSUME ResolverInv, [ResolverNext]_resolverVars PROVE ResolverInv'
  OBVIOUS
<1>1. ASSUME NEW r \in Resolvers, Hit(r) \/ Miss(r) \/ Resolve(r) PROVE ResolverInv'
  BY <1>1, ResolverStep
<1> USE DEF ResolverInv, ResolverTypeOK, RevokedStaysOut, MarkWithFetch, OneLeader,
            LateAnswerMarked, Entries, Phases, Leading, Verdicts
<1>2. CASE Expire
  BY <1>2 DEF Expire
<1>3. CASE RevokeAtDashboard
  BY <1>3 DEF RevokeAtDashboard
<1>4. CASE Flush
  <2>1. revokedInflight' \in BOOLEAN /\ (revokedInflight' <=> revokedInflight \/ inflight # NoLeader)
    BY <1>4, Zenon DEF Flush
  <2>2. settled' \in BOOLEAN /\ (settled' <=> settled \/ dashboard = "revoked")
    BY <1>4, Zenon DEF Flush
  <2>3. /\ cached' = "empty" /\ expired' = FALSE
        /\ UNCHANGED <<dashboard, inflight, doing, fetched, verdict>>
    BY <1>4 DEF Flush
  <2>4. LateAnswerMarked'
    BY <2>1, <2>2, <2>3, ResolversAssumption
  <2>5. QED
    BY <2>1, <2>2, <2>3, <2>4
<1>5. CASE UNCHANGED resolverVars
  BY <1>5 DEF resolverVars
<1>6. QED
  BY <1>1, <1>2, <1>3, <1>4, <1>5 DEF ResolverNext

\* The invariant of the resolver: one leader, whose answer from before a revocation is marked.
THEOREM ResolverInvariant == ResolverSpec => []ResolverInv
  BY ResolverInvInit, ResolverInvStep, PTL DEF ResolverSpec

\* Once a revoked key has been flushed it stays out of the cache, however many threads
\* resolve it (hmac_resolver.py:400-427).
THEOREM RevokedKeyStaysOut == ResolverSpec => []RevokedStaysOut
<1>1. ResolverInv => RevokedStaysOut
  BY DEF ResolverInv
<1>2. QED
  BY <1>1, ResolverInvariant, PTL

\* No resolve() that returns after the flush returns the revoked key, whoever it waited for
\* (hmac_resolver.py:220-289).
THEOREM NoKeyReturned == ResolverSpec => NoKeyAfterFlush
<1>1. ASSUME ResolverInv, settled, NEW r \in Resolvers, Hit(r) \/ ReadAgain(r)
      PROVE  verdict'[r] = "none"
  <2>1. cached # "key" /\ verdict \in [Resolvers -> Verdicts]
    BY <1>1 DEF ResolverInv, RevokedStaysOut, ResolverTypeOK
  <2>2. Returns(r)
    BY <1>1 DEF Hit, ReadAgain
  <2>3. QED
    BY <2>1, <2>2 DEF Returns
<1>2. ResolverInv =>
        [settled => \A r \in Resolvers : Hit(r) \/ ReadAgain(r) => verdict'[r] = "none"]_resolverVars
  BY <1>1
<1>3. QED
  BY <1>2, ResolverInvariant, PTL DEF NoKeyAfterFlush

\* The mark of a flush never outlives the fetch it was left for (hmac_resolver.py:262-279).
THEOREM MarkGoesWithFetch == ResolverSpec => []MarkWithFetch
<1>1. ResolverInv => MarkWithFetch
  BY DEF ResolverInv
<1>2. QED
  BY <1>1, ResolverInvariant, PTL
-----------------------------------------------------------------------------
(* The fleet                                                                *)

LEMMA FleetInvInit == FleetInit => FleetInv
  BY FleetAssumption
  DEF FleetInit, FleetInv, FleetTypeOK, WorktreeIdentity, OneTickAtATime, LagsOnlyBehind

\* The steps that concern the fleet's identity leave the ticks alone ...
LEMMA IdentityStep ==
  ASSUME FleetInv,
         \/ \E token \in Tokens \cup {NoToken} : CreateFleet(token) \/ TouchFleet(token)
         \/ CloneTree \/ Schedule \/ GrowIdle
  PROVE  FleetInv'
<1> USE FleetAssumption
    DEF FleetInv, FleetTypeOK, WorktreeIdentity, OneTickAtATime, LagsOnlyBehind, identity, ticks
<1>1. ASSUME NEW token \in Tokens \cup {NoToken}, CreateFleet(token) PROVE FleetInv'
  BY <1>1 DEF CreateFleet
<1>2. ASSUME NEW token \in Tokens \cup {NoToken}, TouchFleet(token) PROVE FleetInv'
  BY <1>2 DEF TouchFleet, RefreshIdentity
<1>3. CASE CloneTree
  BY <1>3 DEF CloneTree
<1>4. CASE Schedule
  BY <1>4 DEF Schedule
<1>5. CASE GrowIdle
  BY <1>5 DEF GrowIdle
<1>6. QED
  BY <1>1, <1>2, <1>3, <1>4, <1>5

\* ... and the steps of the scheduler and its pool leave the identity alone.
LEMMA TickStep ==
  ASSUME FleetInv,
         \/ CollectDue
         \/ \E d \in Daemons : ComesDue(d) \/ BeginTick(d) \/ EndTick(d)
  PROVE  FleetInv'
<1> USE FleetAssumption
    DEF FleetInv, FleetTypeOK, WorktreeIdentity, OneTickAtATime, LagsOnlyBehind, identity, ticks
<1>1. CASE CollectDue
  <2> DEFINE S == {d \in due \ inFlight : ~Gated(d)}
  <2>1. S \subseteq due \ inFlight
    OBVIOUS
  <2> HIDE DEF S
  <2>2. /\ inFlight' = inFlight \cup S
        /\ queued' = [d \in Daemons |-> IF d \in S THEN queued[d] + 1 ELSE queued[d]]
        /\ UNCHANGED <<fleet, identity, idle, scheduled, due, running>>
    BY <1>1 DEF CollectDue, Submits, S
  <2>3. OneTickAtATime'
    BY <2>1, <2>2
  <2>4. QED
    BY <2>1, <2>2, <2>3
<1>2. ASSUME NEW d \in Daemons, ComesDue(d) PROVE FleetInv'
  BY <1>2 DEF ComesDue
<1>3. ASSUME NEW d \in Daemons, BeginTick(d) PROVE FleetInv'
  BY <1>3 DEF BeginTick
<1>4. ASSUME NEW d \in Daemons, EndTick(d) PROVE FleetInv'
  BY <1>4 DEF EndTick
<1>5. QED
  BY <1>1, <1>2, <1>3, <1>4

LEMMA FleetInvStep == FleetInv /\ [FleetNext]_fleetVars => FleetInv'
<1> SUFFICES ASSUME FleetInv, [FleetNext]_fleetVars PROVE FleetInv'
  OBVIOUS
<1>1. CASE FleetNext
  BY <1>1, IdentityStep, TickStep DEF FleetNext
<1>2. CASE UNCHANGED fleetVars
  BY <1>2 DEF fleetVars, FleetInv, FleetTypeOK, WorktreeIdentity, OneTickAtATime, LagsOnlyBehind
<1>3. QED
  BY <1>1, <1>2

\* The invariant of the fleet.
THEOREM FleetInvariant == FleetSpec => []FleetInv
  BY FleetInvInit, FleetInvStep, PTL DEF FleetSpec

\* A scheduled fleet's worktree works under the newest token (hosted_fleet.py:188-213).
THEOREM WorktreeKeepsIdentity == FleetSpec => []WorktreeIdentity
<1>1. FleetInv => WorktreeIdentity
  BY DEF FleetInv
<1>2. QED
  BY <1>1, FleetInvariant, PTL

\* A daemon has one tick at a time, whatever the size of the pool (hosted_fleet.py:273-325).
THEOREM TicksOneAtATime == FleetSpec => []OneTickAtATime
<1>1. FleetInv => OneTickAtATime
  BY DEF FleetInv
<1>2. QED
  BY <1>1, FleetInvariant, PTL
-----------------------------------------------------------------------------
(* The scopes                                                               *)

Underway == {"cloning", "publishing", "starting"}

\* The worktree of incarnation g is in somebody's hands: its registration's, its scope's or
\* the reaper's.
InHands(g) ==
    \/ step[g] = "publishing"
    \/ entry # 0 /\ kept[entry] = g
    \/ victim # 0 /\ kept[victim] = g

\* What the reaper has picked was registered long ago.
ReaperInv ==
    /\ reaper \in {"stopping", "cleaning"} <=> victim # 0
    /\ entry # 0 /\ quiet => step[entry] = "done"
    /\ reaper = "picked" => stopped \/ (entry # 0 /\ step[entry] = "done")

\* Until stop(), a scope outlives its registration, so only its own worktree comes into its
\* keeping.
RegistrationInv ==
    /\ stopped => entry = 0
    /\ ~stopped => \A g \in Incarnations : step[g] \in Underway => g = entry
    /\ \A g \in Incarnations : kept[g] \in {0, g}

\* A clone that a worktree has made or taken over has somebody who is still to remove it.
CloneInv == directory = "clone" => \E g \in Incarnations : tree[g] /\ InHands(g)

\* Until stop() only the daemons of the scope, or those of the reaper's victim, run.
DaemonsInv == ~stopped => \A g \in alive : g = entry \/ (reaper = "stopping" /\ g = victim)

ScopesInv == ScopesTypeOK /\ ReaperInv /\ RegistrationInv /\ CloneInv /\ DaemonsInv

LEMMA ScopesInvInit == ScopesInit => ScopesInv
<1>. SUFFICES ASSUME ScopesInit PROVE ScopesInv  OBVIOUS
<1>. USE ScopesAssumption DEF ScopesInit
<1>1. ScopesTypeOK
  <2>1. step \in [Incarnations -> RegistrationSteps]  BY DEF RegistrationSteps
  <2>2. tree \in [Incarnations -> BOOLEAN]  OBVIOUS
  <2>3. kept \in [Incarnations -> 0..MaxScopes]  OBVIOUS
  <2>4. /\ entry \in 0..MaxScopes /\ made \in 0..MaxScopes /\ victim \in 0..MaxScopes
        /\ alive \subseteq Incarnations
        /\ reaper \in {"waits", "picked", "stopping", "cleaning"}
    OBVIOUS
  <2>5. directory \in Directories /\ quiet \in BOOLEAN /\ stopped \in BOOLEAN
    BY DEF Directories
  <2>. QED  BY <2>1, <2>2, <2>3, <2>4, <2>5 DEF ScopesTypeOK
<1>2. ReaperInv  BY DEF ReaperInv
<1>3. RegistrationInv  BY DEF RegistrationInv, Underway
<1>4. CloneInv  BY DEF CloneInv
<1>5. DaemonsInv  BY DEF DaemonsInv
<1>. QED  BY <1>1, <1>2, <1>3, <1>4, <1>5 DEF ScopesInv

LEMMA CleaningUp ==
  ASSUME ScopesTypeOK, NEW g \in 0..MaxScopes, CleansUp(g)
  PROVE  /\ tree' \in [Incarnations -> BOOLEAN] /\ directory' \in Directories
         /\ directory' = "clone" => directory = "clone" /\ tree' = tree /\ (g = 0 \/ ~tree[g])
<1>1. CASE g # 0 /\ tree[g]
  <2>1. directory' = "none" /\ tree' = [tree EXCEPT ![g] = FALSE]  BY <1>1 DEF CleansUp
  <2>. QED  BY <2>1 DEF ScopesTypeOK, Directories
<1>2. CASE ~(g # 0 /\ tree[g])  BY <1>2 DEF CleansUp, ScopesTypeOK
<1>. QED  BY <1>1, <1>2

\* Requests, and time that passes.
LEMMA RequestStep ==
  ASSUME ScopesInv, CreateScope \/ TouchScope \/ GoQuiet
  PROVE  ScopesInv'
<1>. USE ScopesAssumption DEF registration, clone, reaping
<1>0. ScopesTypeOK /\ ReaperInv /\ RegistrationInv /\ CloneInv /\ DaemonsInv  BY DEF ScopesInv
<1>1. CASE CreateScope
  <2>1. ScopesTypeOK'
    <3>1. made + 1 \in Incarnations  BY <1>0, <1>1 DEF CreateScope, ScopesTypeOK, Incarnations
    <3>2. step' \in [Incarnations -> RegistrationSteps]
      BY <1>0, <1>1, <3>1 DEF CreateScope, ScopesTypeOK, RegistrationSteps
    <3>3. entry' \in 0..MaxScopes /\ made' \in 0..MaxScopes
      <4>1. entry' = made + 1 /\ made' = made + 1  BY <1>1 DEF CreateScope
      <4>. QED  BY <3>1, <4>1 DEF Incarnations
    <3>4. quiet' \in BOOLEAN /\ UNCHANGED <<tree, kept, directory, alive, victim, reaper, stopped>>
      BY <1>1 DEF CreateScope
    <3>. QED  BY <1>0, <3>2, <3>3, <3>4 DEF ScopesTypeOK
  <2>2. ReaperInv'
    BY <1>0, <1>1 DEF CreateScope, ReaperInv, RegistrationInv, Underway, ScopesTypeOK,
       Incarnations
  <2>3. RegistrationInv'
    BY <1>0, <1>1 DEF CreateScope, RegistrationInv, Underway, ScopesTypeOK, Incarnations
  <2>4. CloneInv'
    BY <1>0, <1>1 DEF CreateScope, CloneInv, InHands, RegistrationInv, ReaperInv, Underway,
       ScopesTypeOK, Incarnations
  <2>5. DaemonsInv'
    BY <1>0, <1>1 DEF CreateScope, DaemonsInv, RegistrationInv, Underway, ScopesTypeOK,
       Incarnations
  <2>. QED  BY <2>1, <2>2, <2>3, <2>4, <2>5 DEF ScopesInv
<1>2. CASE TouchScope
  BY <1>0, <1>2
  DEF TouchScope, ScopesInv, ScopesTypeOK, ReaperInv, RegistrationInv, CloneInv, InHands, DaemonsInv,
      Underway, RegistrationSteps, Incarnations
<1>3. CASE GoQuiet
  BY <1>0, <1>3
  DEF GoQuiet, ScopesInv, ScopesTypeOK, ReaperInv, RegistrationInv, CloneInv, InHands, DaemonsInv,
      Underway, RegistrationSteps, Incarnations
<1>. QED  BY <1>1, <1>2, <1>3

LEMMA RegistrationStep ==
  ASSUME ScopesInv, NEW g \in Incarnations, Clone(g) \/ Publish(g) \/ StartDaemons(g)
  PROVE  ScopesInv'
<1>. USE ScopesAssumption DEF registration, clone, reaping
<1>0. ScopesTypeOK /\ ReaperInv /\ RegistrationInv /\ CloneInv /\ DaemonsInv  BY DEF ScopesInv
<1>1. CASE Clone(g)
  <2>1. ScopesTypeOK'  BY <1>0, <1>1 DEF Clone, ScopesTypeOK, RegistrationSteps, Directories, Incarnations
  <2>2. ReaperInv'
    BY <1>0, <1>1 DEF Clone, ReaperInv, RegistrationInv, Underway, ScopesTypeOK, Incarnations
  <2>3. RegistrationInv'
    BY <1>0, <1>1 DEF Clone, RegistrationInv, Underway, ScopesTypeOK, Incarnations
  <2>4. CloneInv'
    BY <1>0, <1>1 DEF Clone, CloneInv, InHands, RegistrationInv, ReaperInv, Underway,
       ScopesTypeOK, Incarnations
  <2>5. DaemonsInv'
    BY <1>0, <1>1 DEF Clone, DaemonsInv, RegistrationInv, Underway, ScopesTypeOK, Incarnations
  <2>. QED  BY <2>1, <2>2, <2>3, <2>4, <2>5 DEF ScopesInv
<1>2. CASE Publish(g)
  <2>0. entry # 0 => g = entry  BY <1>0, <1>2 DEF Publish, RegistrationInv, Underway
  <2>1. ScopesTypeOK'
    <3>1. step' \in [Incarnations -> RegistrationSteps]
      BY <1>0, <1>2 DEF Publish, ScopesTypeOK, RegistrationSteps
    <3>2. CASE entry # 0
      BY <1>0, <1>2, <3>1, <3>2 DEF Publish, ScopesTypeOK, Directories, Incarnations
    <3>3. CASE entry = 0
      <4>1. g \in 0..MaxScopes /\ CleansUp(g) /\ kept' = kept
        BY <1>2, <3>3 DEF Publish, Incarnations
      <4>2. tree' \in [Incarnations -> BOOLEAN] /\ directory' \in Directories  BY <1>0, <4>1, CleaningUp
      <4>. QED  BY <1>0, <1>2, <3>1, <4>1, <4>2 DEF Publish, ScopesTypeOK
    <3>. QED  BY <3>2, <3>3
  <2>2. ReaperInv'
    BY <1>0, <1>2 DEF Publish, CleansUp, ReaperInv, RegistrationInv, Underway, ScopesTypeOK,
       Incarnations
  <2>3. RegistrationInv'
    BY <1>0, <1>2 DEF Publish, CleansUp, RegistrationInv, Underway, ScopesTypeOK, Incarnations
  <2>4. CloneInv'
    <3>. SUFFICES ASSUME directory' = "clone" PROVE \E h \in Incarnations : tree'[h] /\ InHands(h)'
      BY DEF CloneInv
    <3>1. directory = "clone" /\ tree' = tree /\ (entry # 0 \/ ~tree[g])
      <4>1. CASE entry # 0  BY <1>2, <4>1 DEF Publish
      <4>2. CASE entry = 0
        <5>1. g \in 0..MaxScopes /\ g # 0 /\ CleansUp(g)  BY <1>2, <4>2 DEF Publish, Incarnations
        <5>. QED  BY <1>0, <5>1, CleaningUp
      <4>. QED  BY <4>1, <4>2
    <3>2. PICK h \in Incarnations : tree[h] /\ InHands(h)  BY <1>0, <3>1 DEF CloneInv
    <3>3. InHands(h)'
      <4>1. CASE entry # 0
        <5>1. /\ kept' = [kept EXCEPT ![g] = g] /\ step' = [step EXCEPT ![g] = "starting"]
              /\ entry' = entry /\ victim' = victim /\ g = entry
          BY <1>2, <2>0, <4>1 DEF Publish
        <5>. QED  BY <1>0, <3>2, <4>1, <5>1 DEF InHands, RegistrationInv, ScopesTypeOK, Incarnations
      <4>2. CASE entry = 0
        <5>1. h # g  BY <3>1, <3>2, <4>2
        <5>. QED  BY <1>0, <1>2, <3>2, <4>2, <5>1 DEF Publish, InHands, ScopesTypeOK
      <4>. QED  BY <4>1, <4>2
    <3>. QED  BY <3>1, <3>2, <3>3
  <2>5. DaemonsInv'
    BY <1>0, <1>2 DEF Publish, CleansUp, DaemonsInv, RegistrationInv, Underway, ScopesTypeOK,
       Incarnations
  <2>. QED  BY <2>1, <2>2, <2>3, <2>4, <2>5 DEF ScopesInv
<1>3. CASE StartDaemons(g)
  BY <1>0, <1>3
  DEF StartDaemons, ScopesInv, ScopesTypeOK, ReaperInv, RegistrationInv, CloneInv, InHands, DaemonsInv,
      Underway, RegistrationSteps, Incarnations
<1>. QED  BY <1>1, <1>2, <1>3

\* The reaper and stop().
LEMMA TeardownStep ==
  ASSUME ScopesInv, PickIdle \/ PopScope \/ StopDaemons \/ RemoveTree \/ StopCoordinator
  PROVE  ScopesInv'
<1>. USE ScopesAssumption DEF registration, clone, reaping
<1>0. ScopesTypeOK /\ ReaperInv /\ RegistrationInv /\ CloneInv /\ DaemonsInv  BY DEF ScopesInv
<1>1. CASE PickIdle
  BY <1>0, <1>1
  DEF PickIdle, ScopesInv, ScopesTypeOK, ReaperInv, RegistrationInv, CloneInv, InHands, DaemonsInv,
      Underway, RegistrationSteps, Incarnations
<1>2. CASE PopScope
  <2>1. ScopesTypeOK'  BY <1>0, <1>2 DEF PopScope, ScopesTypeOK, RegistrationSteps, Incarnations
  <2>2. ReaperInv'
    BY <1>0, <1>2 DEF PopScope, ReaperInv, RegistrationInv, Underway, ScopesTypeOK, Incarnations
  <2>3. RegistrationInv'
    BY <1>0, <1>2 DEF PopScope, RegistrationInv, ReaperInv, Underway, ScopesTypeOK, Incarnations
  <2>4. CloneInv'
    BY <1>0, <1>2 DEF PopScope, CloneInv, InHands, RegistrationInv, ReaperInv, Underway,
       ScopesTypeOK, Incarnations
  <2>5. DaemonsInv'
    BY <1>0, <1>2 DEF PopScope, DaemonsInv, RegistrationInv, Underway, ScopesTypeOK,
       Incarnations
  <2>. QED  BY <2>1, <2>2, <2>3, <2>4, <2>5 DEF ScopesInv
<1>3. CASE StopDaemons
  BY <1>0, <1>3
  DEF StopDaemons, ScopesInv, ScopesTypeOK, ReaperInv, RegistrationInv, CloneInv, InHands, DaemonsInv,
      Underway, RegistrationSteps, Incarnations
<1>4. CASE RemoveTree
  <2>. DEFINE worktree == kept[victim]
  <2>6. worktree \in 0..MaxScopes /\ CleansUp(worktree)
    BY <1>0, <1>4 DEF RemoveTree, ScopesTypeOK, ReaperInv, Incarnations
  <2>7. /\ tree' \in [Incarnations -> BOOLEAN] /\ directory' \in Directories
        /\ directory' = "clone" => directory = "clone" /\ tree' = tree /\ (worktree = 0 \/ ~tree[worktree])
    BY <1>0, <2>6, CleaningUp
  <2>1. ScopesTypeOK'  BY <1>0, <1>4, <2>7 DEF RemoveTree, ScopesTypeOK
  <2>2. ReaperInv'
    BY <1>0, <1>4 DEF RemoveTree, CleansUp, ReaperInv, RegistrationInv, Underway, ScopesTypeOK,
       Incarnations
  <2>3. RegistrationInv'
    BY <1>0, <1>4 DEF RemoveTree, CleansUp, RegistrationInv, Underway, ScopesTypeOK,
       Incarnations
  <2>4. CloneInv'
    <3>. SUFFICES ASSUME directory' = "clone" PROVE \E h \in Incarnations : tree'[h] /\ InHands(h)'
      BY DEF CloneInv
    <3>1. PICK h \in Incarnations : tree[h] /\ InHands(h)  BY <1>0, <2>7 DEF CloneInv
    <3>2. h # worktree  BY <2>7, <3>1 DEF Incarnations
    <3>3. InHands(h)'  BY <1>0, <1>4, <3>1, <3>2 DEF RemoveTree, InHands, ReaperInv
    <3>. QED  BY <2>7, <3>1, <3>3
  <2>5. DaemonsInv'
    BY <1>0, <1>4 DEF RemoveTree, CleansUp, DaemonsInv, RegistrationInv, Underway, ScopesTypeOK,
       Incarnations
  <2>. QED  BY <2>1, <2>2, <2>3, <2>4, <2>5 DEF ScopesInv
<1>5. CASE StopCoordinator
  <2>. DEFINE worktree == IF entry = 0 THEN 0 ELSE kept[entry]
  <2>6. worktree \in 0..MaxScopes /\ CleansUp(worktree)
    BY <1>0, <1>5 DEF StopCoordinator, ScopesTypeOK, ReaperInv, Incarnations
  <2>7. /\ tree' \in [Incarnations -> BOOLEAN] /\ directory' \in Directories
        /\ directory' = "clone" => directory = "clone" /\ tree' = tree /\ (worktree = 0 \/ ~tree[worktree])
    BY <1>0, <2>6, CleaningUp
  <2>1. ScopesTypeOK'  BY <1>0, <1>5, <2>7 DEF StopCoordinator, ScopesTypeOK
  <2>2. ReaperInv'
    BY <1>0, <1>5 DEF StopCoordinator, CleansUp, ReaperInv, RegistrationInv, Underway,
       ScopesTypeOK, Incarnations
  <2>3. RegistrationInv'
    BY <1>0, <1>5 DEF StopCoordinator, CleansUp, RegistrationInv, Underway, ScopesTypeOK,
       Incarnations
  <2>4. CloneInv'
    <3>. SUFFICES ASSUME directory' = "clone" PROVE \E h \in Incarnations : tree'[h] /\ InHands(h)'
      BY DEF CloneInv
    <3>1. PICK h \in Incarnations : tree[h] /\ InHands(h)  BY <1>0, <2>7 DEF CloneInv
    <3>2. h # worktree  BY <2>7, <3>1 DEF Incarnations
    <3>3. InHands(h)'  BY <1>0, <1>5, <3>1, <3>2 DEF StopCoordinator, InHands, ReaperInv
    <3>. QED  BY <2>7, <3>1, <3>3
  <2>5. DaemonsInv'
    BY <1>0, <1>5 DEF StopCoordinator, CleansUp, DaemonsInv, RegistrationInv, Underway,
       ScopesTypeOK, Incarnations
  <2>. QED  BY <2>1, <2>2, <2>3, <2>4, <2>5 DEF ScopesInv
<1>. QED  BY <1>1, <1>2, <1>3, <1>4, <1>5

LEMMA ScopesInvStep == ScopesInv /\ [ScopesNext]_scopesVars => ScopesInv'
<1>. SUFFICES ASSUME ScopesInv, [ScopesNext]_scopesVars PROVE ScopesInv'
  OBVIOUS
<1>1. CASE ScopesNext
  BY <1>1, RequestStep, RegistrationStep, TeardownStep DEF ScopesNext
<1>2. CASE UNCHANGED scopesVars
  BY <1>2 DEF scopesVars, ScopesInv, ScopesTypeOK, ReaperInv, RegistrationInv, CloneInv,
     DaemonsInv, InHands
<1>. QED  BY <1>1, <1>2

\* Whoever has taken a clone, or has daemons that run, is still to remove or to stop them.
THEOREM ScopesInvariant == ScopesSpec => []ScopesInv
BY ScopesInvInit, ScopesInvStep, PTL DEF ScopesSpec

\* No clone that a worktree had made or taken over outlives its scope, and no daemon goes on
\* that nobody has told to stop, however registrations, the reaper and stop() come between
\* each other and whatever git leaves when it is killed (hosted_coordinator.py:321-323).
THEOREM ScopesGiveBack == ScopesSpec => []TakenIsGivenBack
<1>1. ScopesInv => TakenIsGivenBack
  BY DEF ScopesInv, ScopesTypeOK, ReaperInv, CloneInv, DaemonsInv, InHands, TakenIsGivenBack,
     Registered, Incarnations
<1>2. QED
  BY <1>1, ScopesInvariant, PTL
-----------------------------------------------------------------------------
(* The loop of a daemon                                                    *)

LEMMA LoopInvInit == LoopInit => LoopInv
  BY LoopAssumption
  DEF LoopInit, LoopInv, LoopTypeOK, LiveLoops, Statuses, LoopPlaces, CallPlaces

\* The thread of the loop.
LEMMA LoopStepKeeps ==
  ASSUME LoopInv, NEW t \in Threads, LoopStep(t) PROVE LoopInv'
<1> USE LoopAssumption
    DEF LoopInv, LoopTypeOK, LiveLoops, Statuses, LoopPlaces, CallPlaces, LoopIsAt, LoopGoes,
        loopEvents
<1>1. CASE EnterLoop(t)   BY <1>1 DEF EnterLoop
<1>2. CASE LooksAtStop(t) BY <1>2 DEF LooksAtStop
<1>3. CASE PassPause(t)   BY <1>3 DEF PassPause
<1>4. CASE WakeUp(t)      BY <1>4 DEF WakeUp
<1>5. CASE ClearWake(t)   BY <1>5 DEF ClearWake
<1>6. CASE EndLoopTick(t) BY <1>6 DEF EndLoopTick
<1>7. CASE ExitLoop(t)    BY <1>7 DEF ExitLoop
<1> QED BY <1>1, <1>2, <1>3, <1>4, <1>5, <1>6, <1>7 DEF LoopStep

\* The rest of a call that has begun.
LEMMA CallStepKeeps ==
  ASSUME LoopInv, CallStep PROVE LoopInv'
<1> USE LoopAssumption
    DEF LoopInv, LoopTypeOK, LiveLoops, Statuses, LoopPlaces, CallPlaces, LoopGoes, Calling,
        CallGoes, loopEvents
<1>1. CASE ClearStop     BY <1>1 DEF ClearStop
<1>2. CASE SpawnLoop     BY <1>2 DEF SpawnLoop
<1>3. CASE SetStop       BY <1>3 DEF SetStop
<1>4. CASE SetWake       BY <1>4 DEF SetWake
<1>5. CASE SetUnpaused   BY <1>5 DEF SetUnpaused
<1>6. CASE JoinLoop      BY <1>6 DEF JoinLoop
<1>7. CASE ReportStopped BY <1>7 DEF ReportStopped
<1>8. CASE MarkPaused    BY <1>8 DEF MarkPaused
<1>9. CASE MarkResumed   BY <1>9 DEF MarkResumed
<1> QED BY <1>1, <1>2, <1>3, <1>4, <1>5, <1>6, <1>7, <1>8, <1>9 DEF CallStep

\* The first step of a call, with the callers' discipline.
LEMMA CallBeginKeeps ==
  ASSUME LoopInv, ~Hasty,
         StartDaemon \/ StopDaemon \/ PauseDaemon \/ ResumeDaemon \/ WakeDaemon
  PROVE  LoopInv'
<1> USE LoopAssumption
    DEF LoopInv, LoopTypeOK, LiveLoops, Statuses, LoopPlaces, CallPlaces, Calling, CallGoes,
        loopEvents
<1>1. CASE StartDaemon  BY <1>1 DEF StartDaemon
<1>2. CASE StopDaemon   BY <1>2 DEF StopDaemon
<1>3. CASE PauseDaemon  BY <1>3 DEF PauseDaemon
<1>4. CASE ResumeDaemon BY <1>4 DEF ResumeDaemon
<1>5. CASE WakeDaemon   BY <1>5 DEF WakeDaemon
<1> QED BY <1>1, <1>2, <1>3, <1>4, <1>5

LEMMA LoopInvStep == ASSUME ~Hasty PROVE LoopInv /\ [LoopNext]_loopVars => LoopInv'
<1> SUFFICES ASSUME LoopInv, [LoopNext]_loopVars PROVE LoopInv'
    OBVIOUS
<1>1. CASE UNCHANGED loopVars
    BY <1>1 DEF LoopInv, LoopTypeOK, LiveLoops, loopVars, loopEvents
<1>2. CASE \E t \in Threads : LoopStep(t) BY <1>2, LoopStepKeeps
<1>3. CASE CallStep BY <1>3, CallStepKeeps
<1>4. CASE StartDaemon \/ StopDaemon \/ PauseDaemon \/ ResumeDaemon \/ WakeDaemon
    BY <1>4, CallBeginKeeps
<1> QED BY <1>1, <1>2, <1>3, <1>4 DEF LoopNext

\* A daemon never has two loops, whatever threads there are and however its starts, stops
\* whose join times out, pauses, resumes and wakes follow each other, as long as start() is
\* called on a stopped or running daemon only (base.py:112-177).
THEOREM OneLoopAtATime == ASSUME ~Hasty PROVE LoopSpec => []OneLoop
<1>1. LoopInv => OneLoop BY DEF LoopInv, OneLoop
<1>2. LoopInv /\ [LoopNext]_loopVars => LoopInv' BY LoopInvStep
<1> QED BY LoopInvInit, <1>1, <1>2, PTL DEF LoopSpec

\* A wake() is never lost, be it set while the loop wakes up, during a tick or between two
\* loops: what it asks for is in the event until a loop is on its way to a tick.
THEOREM NoWakeLost == LoopSpec => []NoWakeIsLost
<1>1. LoopInit => LoopTypeOK /\ NoWakeIsLost
  BY LoopInvInit DEF LoopInit, LoopInv, NoWakeIsLost
<1>2. LoopTypeOK /\ NoWakeIsLost /\ [LoopNext]_loopVars => (LoopTypeOK /\ NoWakeIsLost)'
  <2>. SUFFICES ASSUME LoopTypeOK, NoWakeIsLost, [LoopNext]_loopVars
                PROVE  (LoopTypeOK /\ NoWakeIsLost)'
    OBVIOUS
  <2>. USE LoopAssumption
       DEF LoopTypeOK, NoWakeIsLost, Statuses, LoopPlaces, CallPlaces, LoopIsAt, LoopGoes, Calling,
           CallGoes, loopEvents
  <2>1. ASSUME NEW t \in Threads, LoopStep(t) PROVE (LoopTypeOK /\ NoWakeIsLost)'
    <3>1. CASE EnterLoop(t)   BY <3>1 DEF EnterLoop
    <3>2. CASE LooksAtStop(t)
      <4>1. loopAt' \in [Threads -> LoopPlaces] /\ owed' \in BOOLEAN
        BY <3>2 DEF LooksAtStop
      <4>2. owed' => owed /\ loopAt[t] \in {"top", "unpaused"}  BY <3>2 DEF LooksAtStop
      <4>3. \A u \in Threads \ {t} : loopAt'[u] = loopAt[u]  BY <3>2 DEF LooksAtStop
      <4>4. NoWakeIsLost'  BY <3>2, <4>2, <4>3 DEF LooksAtStop
      <4>. QED  BY <3>2, <4>1, <4>4 DEF LooksAtStop
    <3>3. CASE PassPause(t)   BY <3>3 DEF PassPause
    <3>4. CASE WakeUp(t)      BY <3>4 DEF WakeUp
    <3>5. CASE ClearWake(t)   BY <3>5 DEF ClearWake
    <3>6. CASE EndLoopTick(t) BY <3>6 DEF EndLoopTick
    <3>7. CASE ExitLoop(t)    BY <3>7 DEF ExitLoop
    <3>. QED  BY <2>1, <3>1, <3>2, <3>3, <3>4, <3>5, <3>6, <3>7 DEF LoopStep
  <2>2. CASE CallStep
    <3>1. CASE ClearStop      BY <3>1 DEF ClearStop
    <3>6. CASE SetStop        BY <3>6 DEF SetStop
    <3>7. CASE SetWake        BY <3>7 DEF SetWake
    <3>8. CASE SetUnpaused    BY <3>8 DEF SetUnpaused
    <3>2. CASE SpawnLoop
      <4>1. PICK t \in Threads : loopAt[t] = "none" /\ LoopGoes(t, "enter") /\ ownThread' = t
        BY <3>2 DEF SpawnLoop, LiveLoops
      <4>. QED  BY <3>2, <4>1 DEF SpawnLoop
    <3>3. CASE JoinLoop       BY <3>3 DEF JoinLoop
    <3>4. CASE ReportStopped  BY <3>4 DEF ReportStopped
    <3>5. CASE MarkPaused \/ MarkResumed  BY <3>5 DEF MarkPaused, MarkResumed
    <3>. QED  BY <2>2, <3>1, <3>2, <3>3, <3>4, <3>5, <3>6, <3>7, <3>8 DEF CallStep
  <2>3. CASE StartDaemon    BY <2>3 DEF StartDaemon
  <2>4. CASE StopDaemon     BY <2>4 DEF StopDaemon
  <2>5. CASE PauseDaemon    BY <2>5 DEF PauseDaemon
  <2>6. CASE ResumeDaemon   BY <2>6 DEF ResumeDaemon
  <2>7. CASE WakeDaemon     BY <2>7 DEF WakeDaemon
  <2>8. CASE UNCHANGED loopVars  BY <2>8 DEF loopVars
  <2>. QED  BY <2>1, <2>2, <2>3, <2>4, <2>5, <2>6, <2>7, <2>8 DEF LoopNext
<1>. QED  BY <1>1, <1>2, PTL DEF LoopSpec

LEMMA StopInvStep == ASSUME ~Hasty PROVE StopInv /\ [LoopNext]_loopVars => StopInv'
<1> SUFFICES ASSUME StopInv, [LoopNext]_loopVars PROVE StopInv'
    OBVIOUS
<1>1. LoopInv /\ LoopInv'  BY LoopInvStep DEF StopInv
<1> USE LoopAssumption
    DEF StopInv, LoopTypeOK, LiveLoops, LoopPlaces, CallPlaces, LoopIsAt, LoopGoes, Calling,
        CallGoes, loopEvents
<1>2. ASSUME NEW t \in Threads, LoopStep(t) PROVE StopInv'
  <2>1. LoopTypeOK /\ \A u \in LiveLoops : u = t
    BY <1>1, <1>2 DEF LoopInv, LoopStep, EnterLoop, LooksAtStop, PassPause, WakeUp, ClearWake,
       EndLoopTick, ExitLoop
  <2>. USE <1>1, <2>1
  <2>2. CASE EnterLoop(t)    BY <2>2 DEF EnterLoop
  <2>3. CASE LooksAtStop(t)  BY <2>3 DEF LooksAtStop
  <2>4. CASE PassPause(t)    BY <2>4 DEF PassPause
  <2>5. CASE WakeUp(t)       BY <2>5 DEF WakeUp
  <2>6. CASE ClearWake(t)    BY <2>6 DEF ClearWake
  <2>7. CASE EndLoopTick(t)  BY <2>7 DEF EndLoopTick
  <2>8. CASE ExitLoop(t)     BY <2>8 DEF ExitLoop
  <2>. QED  BY <1>2, <2>2, <2>3, <2>4, <2>5, <2>6, <2>7, <2>8 DEF LoopStep
<1>3. CASE CallStep
  <2>. USE <1>1
  <2>1. CASE ClearStop      BY <2>1 DEF ClearStop
  <2>2. CASE SpawnLoop      BY <2>2 DEF SpawnLoop
  <2>3. CASE SetStop        BY <2>3 DEF SetStop
  <2>4. CASE SetWake        BY <2>4 DEF SetWake
  <2>5. CASE SetUnpaused    BY <2>5 DEF SetUnpaused
  <2>6. CASE JoinLoop
    <3>1. \A t \in LiveLoops : t = ownThread  BY DEF LoopInv
    <3>. QED  BY <2>6, <3>1 DEF JoinLoop
  <2>7. CASE ReportStopped
    <3>1. LiveLoops = {}  BY <2>7 DEF ReportStopped, LoopInv
    <3>. QED  BY <2>7, <3>1 DEF ReportStopped
  <2>8. CASE MarkPaused     BY <2>8 DEF MarkPaused
  <2>9. CASE MarkResumed    BY <2>9 DEF MarkResumed
  <2>. QED  BY <1>3, <2>1, <2>2, <2>3, <2>4, <2>5, <2>6, <2>7, <2>8, <2>9 DEF CallStep
<1>4. CASE StartDaemon \/ StopDaemon \/ PauseDaemon \/ ResumeDaemon \/ WakeDaemon
  BY <1>1, <1>4 DEF StartDaemon, StopDaemon, PauseDaemon, ResumeDaemon, WakeDaemon
<1>5. CASE UNCHANGED loopVars  BY <1>1, <1>5 DEF loopVars
<1>. QED  BY <1>2, <1>3, <1>4, <1>5 DEF LoopNext

\* A stop() is slept through nowhere: when its events are set, a loop that sleeps has its
\* wake and one that is paused may go on, whatever the interval, the joins that time out and
\* the calls between them, as long as start() is called on a stopped or running daemon only.
THEOREM NoStopSlept == ASSUME ~Hasty PROVE LoopSpec => []NoStopIsSlept
<1>1. LoopInit => StopInv
  <2>. SUFFICES ASSUME LoopInit PROVE StopInv  OBVIOUS
  <2>1. LiveLoops = {} /\ caller = "free"  BY DEF LoopInit, LiveLoops
  <2>. QED  BY <2>1, LoopInvInit DEF StopInv
<1>2. StopInv => NoStopIsSlept
  <2>. SUFFICES ASSUME StopInv PROVE NoStopIsSlept  OBVIOUS
  <2>1. caller \in {"clear", "spawn", "report"} => LiveLoops = {}  BY DEF StopInv, LoopInv
  <2>2. caller \in CallPlaces  BY DEF StopInv, LoopInv, LoopTypeOK
  <2>. QED  BY <2>1, <2>2 DEF StopInv, NoStopIsSlept, LoopIsAt, CallPlaces
<1>. QED  BY <1>1, <1>2, StopInvStep, PTL DEF LoopSpec
=============================================================================
