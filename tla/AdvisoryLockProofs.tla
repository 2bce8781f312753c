------------------------- MODULE AdvisoryLockProofs -------------------------
(***************************************************************************)
(* What AdvisoryLock guarantees for every set of processes and every       *)
(* choice of ttls and timeouts: its types always, and exclusion when its   *)
(* users are cooperative (nobody forces, dies, or outstays the shortest    *)
(* ttl).  The argument: ExclusionInv is inductive.  The one step that      *)
(* could break it is CheckStale, and a file whose age is its owner's time  *)
(* since the stamp cannot be older than any ttl.                           *)
(***************************************************************************)
EXTENDS AdvisoryLock, TLAPS

\* Type correctness: the lock's variables stay in their ranges, whatever the users do
\* (lock.py:74-112).
THEOREM TypeCorrect == Spec => []TypeOK
<1> USE ProcsAssumption, TimesAssumption
<1>1. Init => TypeOK
  BY DEF Init, TypeOK, Files, Steps
<1>2. TypeOK /\ [Next]_vars => TypeOK'
  <2> SUFFICES ASSUME TypeOK, [Next]_vars PROVE TypeOK'
    OBVIOUS
  <2> USE DEF TypeOK, Files, Steps, Go
  <2>1. ASSUME NEW p \in Procs, Begin(p) PROVE TypeOK'
    BY <2>1 DEF Begin
  <2>2. ASSUME NEW p \in Procs, Proceed(p) PROVE TypeOK'
    <3>1. CASE OpenCreates(p)
      BY <3>1 DEF OpenCreates
    <3>2. CASE OpenFails(p)
      BY <3>2 DEF OpenFails
    <3>3. CASE WritePid(p)
      BY <3>3 DEF WritePid
    <3>4. CASE CheckStale(p)
      BY <3>4 DEF CheckStale
    <3>5. CASE Unlink(p) \/ Wake(p)
      BY <3>5 DEF Unlink, Wake
    <3>6. CASE Release(p) \/ UnlockRemoves(p)
      BY <3>6 DEF Release, UnlockRemoves
    <3>7. QED
      BY <2>2, <3>1, <3>2, <3>3, <3>4, <3>5, <3>6 DEF Proceed
  <2>3. ASSUME NEW p \in Procs, WritePidFails(p) \/ Crash(p) PROVE TypeOK'
    BY <2>3 DEF WritePidFails, Crash
  <2>4. ASSUME NEW p \in Procs, UnlockChecks(p) PROVE TypeOK'
    BY <2>4 DEF UnlockChecks
  <2>5. CASE Tick
    <3>1. (lockFile \in Files \cup {NoFile})'
      BY <2>5 DEF Tick, Older, Present
    <3>2. (waited \in [Procs -> Nat])'
      BY <2>5 DEF Tick, Older
    <3>3. (heldFor \in [Procs -> Nat] /\ \A p \in Procs : heldFor[p] <= MaxHold[p])'
      BY <2>5 DEF Tick, Owners
    <3>4. QED
      BY <2>5, <3>1, <3>2, <3>3 DEF Tick
  <2>6. CASE UNCHANGED vars
    BY <2>6 DEF vars
  <2>7. QED
    BY <2>1, <2>2, <2>3, <2>4, <2>5, <2>6 DEF Next
<1>3. QED
  BY <1>1, <1>2, PTL DEF Spec
-----------------------------------------------------------------------------
(* Exclusion among cooperative users                                       *)

LEMMA InitExcludes == Init => ExclusionInv
  BY ProcsAssumption DEF Init, ExclusionInv, OneOwner, FileIsOwned, FileIsOwners, NoneBreaking,
     Owners, Present

\* Nobody finds the lock file stale: its age is its owner's, which is bounded by every ttl.
LEMMA NobodyJudgesStale ==
  ASSUME Cooperative, TypeOK, ExclusionInv, NEW p \in Procs, p \in Operators \/ TTL[p] > 0
  PROVE  ~IsStale(p)
<1> USE TimesAssumption
<1>1. SUFFICES ASSUME Present PROVE lockFile.age <= TTL[p]
  BY DEF IsStale, TypeOK, Files, Present
<1>2. PICK q \in Owners : TRUE
  BY <1>1 DEF ExclusionInv, FileIsOwned
<1>3. q \in Procs /\ lockFile.age <= heldFor[q] /\ heldFor[q] <= MaxHold[q]
  BY <1>2 DEF ExclusionInv, FileIsOwners, Owners, TypeOK
<1>4. MaxHold[q] <= TTL[p]
  BY <1>3 DEF Cooperative
<1>5. QED
  BY <1>1, <1>3, <1>4 DEF TypeOK, Files, Present

LEMMA StepExcludes ==
  ASSUME Cooperative, TypeOK, ExclusionInv, [Next]_vars
  PROVE  ExclusionInv'
<1> USE ProcsAssumption, TimesAssumption DEF TypeOK, Files, Steps, Go,
        ExclusionInv, OneOwner, FileIsOwned, FileIsOwners, NoneBreaking, Owners, Present
<1>1. ASSUME NEW p \in Procs, Begin(p) \/ Wake(p) PROVE ExclusionInv'
  BY <1>1 DEF Begin, Wake
<1>2. ASSUME NEW p \in Procs, OpenCreates(p) PROVE ExclusionInv'
  <2>1. \A q \in Procs : pc[q] \notin {"write", "held"}
    BY <1>2 DEF OpenCreates
  <2>2. Owners' = {p} /\ Present'
    BY <1>2, <2>1 DEF OpenCreates
  <2>3. QED
    BY <1>2, <2>1, <2>2 DEF OpenCreates
<1>3. ASSUME NEW p \in Procs, OpenFails(p) PROVE ExclusionInv'
  BY <1>3 DEF OpenFails, Cooperative
<1>4. ASSUME NEW p \in Procs, WritePid(p) PROVE ExclusionInv'
  BY <1>4 DEF WritePid
<1>5. ASSUME NEW p \in Procs, CheckStale(p) PROVE ExclusionInv'
  BY <1>5, NobodyJudgesStale DEF CheckStale
<1>6. ASSUME NEW p \in Procs, Unlink(p) \/ UnlockRemoves(p) PROVE ExclusionInv'
  BY <1>6 DEF Unlink, UnlockRemoves
<1>7. ASSUME NEW p \in Procs, Release(p) PROVE ExclusionInv'
  BY <1>7 DEF Release
<1>8. ASSUME NEW p \in Procs, WritePidFails(p) \/ Crash(p) PROVE ExclusionInv'
  BY <1>8 DEF WritePidFails, Crash, Cooperative
<1>9. ASSUME NEW p \in Procs, UnlockChecks(p) PROVE ExclusionInv'
  BY <1>9, NobodyJudgesStale DEF UnlockChecks, Cooperative
<1>10. CASE Tick
  <2>1. pc' = pc /\ Owners' = Owners
    BY <1>10 DEF Tick
  <2>2. CASE ~Present
    BY <1>10, <2>1, <2>2 DEF Tick
  <2>3. CASE Present
    <3>1. lockFile \in Files
      BY <2>3
    <3>2. /\ lockFile' = [lockFile EXCEPT !.age = Older(lockFile.age, MaxAge)]
          /\ lockFile.age \in 0..MaxAge
      BY <1>10, <2>3, <3>1 DEF Tick
    <3>3. /\ Older(lockFile.age, MaxAge) \in 0..MaxAge
          /\ Older(lockFile.age, MaxAge) <= lockFile.age + 1
      BY <3>2 DEF Older
    <3>4. lockFile' \in Files /\ lockFile'.pid = lockFile.pid
          /\ lockFile'.age = Older(lockFile.age, MaxAge)
      BY <3>1, <3>2, <3>3
    <3>5. ASSUME NEW p \in Owners PROVE lockFile'.age <= heldFor'[p]
      <4>1. lockFile.age <= heldFor[p] /\ heldFor[p] \in Nat /\ heldFor'[p] = heldFor[p] + 1
        BY <1>10, <3>5 DEF Tick
      <4>2. QED
        BY <3>2, <3>3, <3>4, <4>1
    <3>6. QED
      BY <2>1, <2>3, <3>4, <3>5
  <2>4. QED
    BY <2>2, <2>3
<1>11. CASE UNCHANGED vars
  BY <1>11 DEF vars
<1>12. QED
  BY <1>1, <1>2, <1>3, <1>4, <1>5, <1>6, <1>7, <1>8, <1>9, <1>10, <1>11 DEF Next, Proceed

\* Exclusion, inductively: among cooperative users the lock file exists exactly while
\* one process owns it, holds that process's pid and is younger than every ttl.
THEOREM ExclusionInvariant == Cooperative => (Spec => []ExclusionInv)
<1> SUFFICES ASSUME Cooperative PROVE Spec => []ExclusionInv
  OBVIOUS
<1>1. Init => ExclusionInv
  BY InitExcludes
<1>2. TypeOK /\ ExclusionInv /\ [Next]_vars => ExclusionInv'
  BY StepExcludes
<1>3. QED
  BY <1>1, <1>2, TypeCorrect, PTL DEF Spec

\* The worktree lock's promise, "all worktree mutation is serialized by the worktree
\* lock" (committer.py:11-16): no two processes are ever between acquire and release.
THEOREM Exclusion == Cooperative => (Spec => []MutualExclusion)
<1> SUFFICES ASSUME Cooperative PROVE Spec => []MutualExclusion
  OBVIOUS
<1>1. ExclusionInv => MutualExclusion
  BY DEF ExclusionInv, OneOwner, MutualExclusion, Holders, Owners
<1>2. QED
  BY <1>1, ExclusionInvariant, PTL

\* get_lock_info() names the holder for as long as it holds (lock.py:47-72).
THEOREM InfoNamesHolder == Cooperative => (Spec => []LockInfoNamesHolder)
<1> SUFFICES ASSUME Cooperative PROVE Spec => []LockInfoNamesHolder
  OBVIOUS
<1>1. ExclusionInv => LockInfoNamesHolder
  BY DEF ExclusionInv, FileIsOwned, FileIsOwners, LockInfoNamesHolder, Holders, Owners
<1>2. QED
  BY <1>1, ExclusionInvariant, PTL
-----------------------------------------------------------------------------
(* The lock file implements the abstract lock                              *)

\* Every step of a cooperative user is a step of Mutex or leaves it unchanged: creating
\* the file enters, and only the owner's own release leaves (lock.py:74-112).
THEOREM ImplementsMutex == Cooperative => (Spec => AbstractSpec)
<1> SUFFICES ASSUME Cooperative PROVE Spec => AbstractSpec
  OBVIOUS
<1> USE DEF Abstract!Next, Abstract!Enter, Abstract!Leave, Owners, Go, TypeOK, Steps
<1>1. Init => Abstract!Init
  BY DEF Init, Abstract!Init
<1>2. TypeOK /\ ExclusionInv /\ [Next]_vars => [Abstract!Next]_Owners
  <2> SUFFICES ASSUME TypeOK, ExclusionInv, [Next]_vars PROVE [Abstract!Next]_Owners
    OBVIOUS
  <2>1. ASSUME NEW p \in Procs, OpenCreates(p) PROVE Abstract!Enter(p)
    <3>1. Owners = {}
      BY <2>1 DEF OpenCreates, ExclusionInv, FileIsOwned
    <3>2. Owners' = {p}
      BY <2>1, <3>1 DEF OpenCreates
    <3>3. QED
      BY <3>1, <3>2
  <2>2. ASSUME NEW p \in Procs, Release(p) PROVE Abstract!Leave(p)
    <3>1. Owners = {p}
      BY <2>2 DEF Release, ExclusionInv, OneOwner
    <3>2. Owners' = {}
      BY <2>2, <3>1 DEF Release
    <3>3. QED
      BY <3>1, <3>2
  <2>3. ASSUME NEW p \in Procs,
               Begin(p) \/ OpenFails(p) \/ WritePid(p) \/ CheckStale(p) \/ Unlink(p)
                 \/ Wake(p) \/ UnlockChecks(p) \/ UnlockRemoves(p)
        PROVE  Owners' = Owners
    BY <2>3 DEF Begin, OpenFails, WritePid, CheckStale, Unlink, Wake, UnlockChecks, UnlockRemoves
  <2>4. ASSUME NEW p \in Procs, WritePidFails(p) \/ Crash(p) PROVE FALSE
    BY <2>4, TimesAssumption DEF WritePidFails, Crash, Cooperative
  <2>5. CASE Tick \/ UNCHANGED vars
    BY <2>5 DEF Tick, vars
  <2>6. QED
    BY <2>1, <2>2, <2>3, <2>4, <2>5 DEF Next, Proceed
<1>3. QED
  BY <1>1, <1>2, TypeCorrect, ExclusionInvariant, PTL DEF Spec, AbstractSpec, Abstract!Spec
=============================================================================
