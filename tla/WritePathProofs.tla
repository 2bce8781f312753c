-------------------------- MODULE WritePathProofs --------------------------
(***************************************************************************)
(* Proofs that the write path keeps its promises for any number of writes, *)
(* topics, crashes, faults and pushes of others, and any queue depth,      *)
(* batch size and attempt budget.  The inductive invariant is WriteInv.    *)
(***************************************************************************)
EXTENDS WritePath, TLAPS

USE WritesAssumption, LimitsAssumption

LEMMA InitWriteInv == Init => WriteInv
<1>. SUFFICES ASSUME Init PROVE WriteInv  OBVIOUS
<1>1. TypeOK
  <2>1. attempt \in [Writes -> 0..(MaxAttempts + crashes)]  BY DEF Init
  <2>2. waiting \subseteq Live /\ batch = {}  BY DEF Init
  <2>3. crashes \in 0..MaxCrashes /\ faults \in 0..MaxFaults /\ foreign \in 0..MaxForeign
    BY DEF Init
  <2>4. batch \subseteq {w \in Writes : task[w] = "running"}  BY <2>2
  <2>5. /\ pc \in [Writes -> InFlight \cup {"idle", "returned", "crashed"}]
        /\ reply \in [Writes -> {"none", "refused", "raised", "local", "accepted", "unpushed", "pushed"}]
        /\ task \in [Writes -> {"none", "pending", "running", "done", "dead"}]
    BY DEF Init
  <2>6. lock = Free /\ cpc = "idle" /\ graph = {} /\ head = {} /\ origin = {}
        /\ behind = FALSE /\ known \in BOOLEAN /\ due = FALSE
    BY DEF Init
  <2>. QED  BY <2>1, <2>2, <2>3, <2>4, <2>5, <2>6 DEF TypeOK, CommitterLocked
<1>2. RequestsInv  BY DEF Init, RequestsInv, InFlight
<1>3. TasksInv  BY DEF Init, TasksInv, Live
<1>4. BatchInv  BY DEF Init, BatchInv
<1>. QED  BY <1>1, <1>2, <1>3, <1>4 DEF WriteInv

\* What both outcomes of a push leave alone, and what the good one achieves.
LEMMA PushFacts ==
  ASSUME TypeOK, PushSucceeds \/ PushFails
  PROVE  /\ graph' = graph /\ head' = head
         /\ origin \subseteq origin' /\ origin' \subseteq head
         /\ behind' \in BOOLEAN
         /\ faults' \in 0..MaxFaults /\ crashes' = crashes /\ foreign' = foreign
         /\ PushSucceeds => head \subseteq origin'
<1>1. CASE PushSucceeds  BY <1>1 DEF PushSucceeds, TypeOK, bounds
<1>2. CASE PushFails
  <2>1. CASE UNCHANGED <<git, bounds>>  BY <2>1 DEF TypeOK, bounds, git, PushSucceeds
  <2>2. CASE Fault /\ graph' = graph /\ head' = head /\ origin' = origin /\ behind' = behind
    BY <2>2 DEF TypeOK, Fault, PushSucceeds
  <2>3. CASE /\ Fault /\ graph' = graph /\ head' = head
             /\ origin' = origin \cup head /\ behind' = FALSE
    <3>1. graph' = graph /\ head' = head /\ origin' = origin \cup head /\ behind' = FALSE
      BY <2>3
    <3>2. faults' \in 0..MaxFaults /\ crashes' = crashes /\ foreign' = foreign
      BY <2>3 DEF TypeOK, Fault
    <3>. QED  BY <3>1, <3>2 DEF TypeOK
  <2>. QED  BY <1>2, <2>1, <2>2, <2>3 DEF PushFails
<1>. QED  BY <1>1, <1>2 DEF PushSucceeds

LEMMA RequestKeepsInv ==
  ASSUME WriteInv, NEW w \in Writes, RequestStep(w)
  PROVE  WriteInv'
<1>. USE DEF WriteInv, TypeOK, RequestsInv, TasksInv, BatchInv, Live, InFlight, CommitterLocked,
         git, queue, committer, requests, bounds, Go, Tell, LeftBy
<1>1. CASE TakeTopic(w)  BY <1>1 DEF TakeTopic
<1>2. CASE TopicTimeout(w)  BY <1>2 DEF TopicTimeout
<1>3. CASE PullUnderLock(w)  BY <1>3 DEF PullUnderLock
<1>4. CASE PullSkipped(w)  BY <1>4 DEF PullSkipped, Fault
<1>5. CASE Operate(w)  BY <1>5 DEF Operate
<1>6. CASE OperateRaises(w)  BY <1>6 DEF OperateRaises, Fault
<1>7. CASE HandOver(w)  BY <1>7 DEF HandOver
<1>8. CASE CommitInline(w)  BY <1>8 DEF CommitInline, Fault
<1>9. CASE Receipt(w)  BY <1>9 DEF Receipt
<1>10. CASE ReceiptTimeout(w)  BY <1>10 DEF ReceiptTimeout
<1>11. CASE InlineLock(w)  BY <1>11 DEF InlineLock
<1>12. CASE InlineGivesUp(w)  BY <1>12 DEF InlineGivesUp, Fault
<1>13. CASE InlineCommit(w)  BY <1>13 DEF InlineCommit, Of, Dirty
<1>14. CASE InlineClean(w)  BY <1>14 DEF InlineClean
<1>15. CASE InlinePush(w)
  <2>1. w \in graph /\ w \in head  BY <1>15 DEF InlinePush
  <2>2. /\ PushSucceeds \/ PushFails
        /\ lock' = Free /\ pc' = [pc EXCEPT ![w] = "returned"]
        /\ \/ reply' = [reply EXCEPT ![w] = "pushed"]
           \/ reply' = [reply EXCEPT ![w] = "unpushed"]
        /\ UNCHANGED <<queue, committer>>
    BY <1>15 DEF InlinePush
  <2>3. /\ graph' = graph /\ head' = head
        /\ origin \subseteq origin' /\ origin' \subseteq head
        /\ behind' \in BOOLEAN
        /\ faults' \in 0..MaxFaults /\ crashes' = crashes /\ foreign' = foreign
    BY <2>2, PushFacts
  <2>7. /\ pc' \in [Writes -> InFlight \cup {"idle", "returned", "crashed"}]
        /\ reply' \in [Writes -> {"none", "refused", "raised", "local", "accepted", "unpushed", "pushed"}]
    BY <2>2
  <2>8. graph' \subseteq Writes /\ head' \subseteq graph' /\ origin' \subseteq head'  BY <2>3
  <2>9. attempt' \in [Writes -> 0..(MaxAttempts + crashes')]  BY <2>2, <2>3
  <2>10. waiting' \subseteq Live' /\ batch' \subseteq {v \in Writes : task'[v] = "running"}
    BY <2>2
  <2>11. cpc \notin CommitterLocked  BY <1>15 DEF InlinePush
  <2>4. TypeOK'  BY <2>2, <2>3, <2>7, <2>8, <2>9, <2>10, <2>11
  <2>5. RequestsInv'
    <3>1. ASSUME NEW v \in Writes, v # w PROVE pc'[v] = pc[v] /\ reply'[v] = reply[v] /\ pc[v] # "push"
      BY <1>15, <2>2, <3>1 DEF InlinePush
    <3>2. pc'[w] = "returned"  BY <2>2
    <3>. QED  BY <2>3, <3>1, <3>2
  <2>6. TasksInv' /\ BatchInv'  BY <1>15, <2>2, <2>3 DEF InlinePush
  <2>. QED  BY <2>4, <2>5, <2>6
<1>. QED  BY <1>1, <1>2, <1>3, <1>4, <1>5, <1>6, <1>7, <1>8, <1>9, <1>10, <1>11, <1>12,
             <1>13, <1>14, <1>15 DEF RequestStep

LEMMA CommitterKeepsInv ==
  ASSUME WriteInv, CommitterStep
  PROVE  WriteInv'
<1>. USE DEF WriteInv, TypeOK, RequestsInv, TasksInv, BatchInv, Live, InFlight, CommitterLocked,
         git, queue, committer, requests, bounds, LeftBy
<1>1. CASE TickDrains  BY <1>1 DEF TickDrains, Ready
<1>2. CASE TickSweeps  BY <1>2 DEF TickSweeps
<1>3. CASE BatchLock  BY <1>3 DEF BatchLock, Lock
<1>4. CASE BatchRaises  BY <1>4 DEF BatchRaises, Fault
<1>5. CASE BatchIsDone  BY <1>5 DEF BatchIsDone, IsDirty, Of, Dirty, Unpushed, Topics
<1>6. CASE BatchCommit  BY <1>6 DEF BatchCommit, Of, Dirty, Topics
<1>7. CASE BatchPush
  <2>1. CASE PushSucceeds /\ cpc' = "complete"
    BY <1>7, <2>1, PushFacts DEF BatchPush
  <2>2. CASE PushFails /\ cpc' = "fail"
    BY <1>7, <2>2, PushFacts DEF BatchPush
  <2>. QED  BY <1>7, <2>1, <2>2 DEF BatchPush
<1>8. ASSUME NEW w \in Writes, Settle(w) PROVE WriteInv'
  <2>. DEFINE end == IF cpc = "complete" THEN "done"
                     ELSE IF Exhausted(w) THEN "dead" ELSE "pending"
  <2>1. /\ task' = [task EXCEPT ![w] = end]
        /\ waiting' = waiting \cup {v \in {w} : end = "pending"}
        /\ batch' = batch \ {w}
        /\ w \in batch /\ cpc \in {"complete", "fail"}
        /\ UNCHANGED <<git, requests, attempt, known, bounds>>
    BY <1>8 DEF Settle
  <2>2. end = "done" => w \in origin  BY <2>1
  <2>3. end = "pending" => attempt[w] < MaxAttempts + crashes  BY <2>1 DEF Exhausted
  <2>4. end \in {"done", "dead", "pending"}  OBVIOUS
  <2>. HIDE DEF end
  <2>5. TasksInv'  BY <2>1, <2>2, <2>3, <2>4
  <2>6. BatchInv'  BY <1>8, <2>1 DEF Settle
  <2>8. task' \in [Writes -> {"none", "pending", "running", "done", "dead"}]  BY <2>1, <2>4
  <2>9. \A v \in Writes : task'[v] = IF v = w THEN end ELSE task[v]  BY <2>1
  <2>10. w \in Writes /\ w \notin batch' /\ batch' \subseteq batch  BY <2>1
  <2>11. batch' \subseteq {v \in Writes : task'[v] = "running"}  BY <2>9, <2>10
  <2>12. waiting' \subseteq Live'
    <3>1. ASSUME NEW v \in waiting', v # w PROVE v \in Live'
      BY <2>1, <2>9, <3>1
    <3>2. w \in waiting' => w \in Live'
      <4>1. CASE end = "pending"  BY <2>9, <4>1
      <4>2. CASE end # "pending"
        <5>1. w \notin waiting  BY <2>1
        <5>. QED  BY <2>1, <4>2, <5>1
      <4>. QED  BY <4>1, <4>2
    <3>. QED  BY <3>1, <3>2
  <2>13. \/ UNCHANGED <<cpc, lock, due>>
         \/ cpc' = "idle" /\ lock' = LeftBy(Committer) /\ due' = FALSE
    <3>1. CASE batch = {w}  BY <1>8, <3>1 DEF Settle
    <3>2. CASE batch # {w}
      BY <1>8, <3>2 DEF Settle
    <3>. QED  BY <3>1, <3>2
  <2>14. TypeOK'
    <3>1. CASE UNCHANGED <<cpc, lock, due>>  BY <2>1, <2>8, <2>11, <2>12, <3>1
    <3>2. CASE cpc' = "idle" /\ lock' = LeftBy(Committer) /\ due' = FALSE
      BY <2>1, <2>8, <2>11, <2>12, <3>2
    <3>. QED  BY <2>13, <3>1, <3>2
  <2>7. RequestsInv'  BY <2>1, <2>13
  <2>. QED  BY <2>5, <2>6, <2>7, <2>14
<1>9. CASE SweepLock  BY <1>9 DEF SweepLock, Lock
<1>10. CASE SweepRaises  BY <1>10 DEF SweepRaises, Fault
<1>11. CASE SweepCommit  BY <1>11 DEF SweepCommit
<1>12. CASE SweepPush  BY <1>12, PushFacts DEF SweepPush
<1>. QED  BY <1>1, <1>2, <1>3, <1>4, <1>5, <1>6, <1>7, <1>8, <1>9, <1>10, <1>11, <1>12 DEF CommitterStep

LEMMA EnvironmentKeepsInv ==
  ASSUME WriteInv, IntervalPasses \/ OthersPush \/ Crash \/ \E w \in Writes : TimeoutPasses(w)
  PROVE  WriteInv'
<1>. USE DEF WriteInv, TypeOK, RequestsInv, TasksInv, BatchInv, Live, InFlight, CommitterLocked,
         git, queue, committer, requests, bounds
<1>1. CASE IntervalPasses  BY <1>1 DEF IntervalPasses
<1>2. CASE OthersPush  BY <1>2 DEF OthersPush
<1>3. CASE Crash
  <2>1. crashes' = crashes + 1 /\ crashes' \in 0..MaxCrashes  BY <1>3 DEF Crash
  <2>2. \A w \in Writes : pc'[w] = IF pc[w] \in InFlight THEN "crashed" ELSE pc[w]
    BY <1>3 DEF Crash
  <2>3. attempt' \in [Writes -> 0..(MaxAttempts + crashes')]  BY <1>3, <2>1 DEF Crash
  <2>4. TypeOK'  BY <1>3, <2>1, <2>3 DEF Crash
  <2>5. RequestsInv'  BY <1>3, <2>2 DEF Crash
  <2>6. TasksInv'  BY <1>3, <2>1, <2>2 DEF Crash
  <2>7. BatchInv'  BY <1>3 DEF Crash
  <2>. QED  BY <2>4, <2>5, <2>6, <2>7
<1>4. ASSUME NEW w \in Writes, TimeoutPasses(w) PROVE WriteInv'  BY <1>4 DEF TimeoutPasses
<1>. QED  BY <1>1, <1>2, <1>3, <1>4

LEMMA StutterKeepsInv == WriteInv /\ UNCHANGED vars => WriteInv'
  BY DEF WriteInv, TypeOK, RequestsInv, TasksInv, BatchInv, Live, InFlight, CommitterLocked,
         vars, git, queue, committer, requests, bounds

\* WriteInv is an invariant: what the request threads and the committer know on
\* their way stays true under every step of the others.
THEOREM WriteInvariant == Spec => []WriteInv
<1>1. Init => WriteInv  BY InitWriteInv
<1>2. WriteInv /\ [Next]_vars => WriteInv'
  BY RequestKeepsInv, CommitterKeepsInv, EnvironmentKeepsInv, StutterKeepsInv DEF Next
<1>. QED  BY <1>1, <1>2, PTL DEF Spec

\* The write path's variables stay in their ranges, and no task is charged more
\* attempts than its budget and one per crash.
THEOREM TypeCorrect == Spec => []TypeOK
<1>1. WriteInv => TypeOK  BY DEF WriteInv
<1>. QED  BY <1>1, WriteInvariant, PTL

\* A completed commit task's write is on origin.
THEOREM CompletedOnOrigin == Spec => []CompletedIsOnOrigin
<1>1. WriteInv => CompletedIsOnOrigin  BY DEF WriteInv, TasksInv, CompletedIsOnOrigin
<1>. QED  BY <1>1, WriteInvariant, PTL
-----------------------------------------------------------------------------
(* The write path implements WriteContract.                                 *)

\* A step that touches neither the graph nor origin and answers w honestly, or
\* nobody, is a step of the contract or a stutter.
LEMMA AnswerIsContractStep ==
  ASSUME NEW w \in Writes, reply[w] = "none",
         NEW what \in {"refused", "raised", "local", "accepted", "unpushed", "pushed"},
         what = "refused" => w \notin graph,
         what = "pushed" => w \in origin,
         what \in {"local", "accepted", "unpushed"} => w \in graph,
         reply' = [reply EXCEPT ![w] = what],
         UNCHANGED <<graph, origin>>
  PROVE  Contract!Next
<1>1. Contract!Honest(w, what)
  <2>1. CASE what = "refused"  BY <2>1 DEF Contract!Honest
  <2>2. CASE what = "pushed"  BY <2>2 DEF Contract!Honest
  <2>3. CASE what \in {"local", "accepted", "unpushed"}  BY <2>3 DEF Contract!Honest
  <2>4. CASE what = "raised"  BY <2>4 DEF Contract!Honest
  <2>. QED  BY <2>1, <2>2, <2>3, <2>4
<1>2. what \in Contract!Answers \ {"none"}  BY DEF Contract!Answers
<1>. QED  BY <1>1, <1>2 DEF Contract!Answer, Contract!Next

\* A push publishes writes of the graph only, whether it is reported or not.
LEMMA PushIsContractStep ==
  ASSUME TypeOK, PushSucceeds \/ PushFails, UNCHANGED reply
  PROVE  Contract!Next
<1>1. graph' = graph /\ origin \subseteq origin' /\ origin' \subseteq graph
  BY PushFacts DEF TypeOK
<1>2. origin' \in SUBSET graph /\ origin' = origin \cup origin'  BY <1>1
<1>. QED  BY <1>1, <1>2 DEF Contract!Publish, Contract!Next

LEMMA RequestImplementsContract ==
  ASSUME WriteInv, NEW w \in Writes, RequestStep(w)
  PROVE  Contract!Next \/ UNCHANGED <<graph, origin, reply>>
<1>. USE DEF git, requests
<1>1. pc[w] \in InFlight \cup {"idle"} => reply[w] = "none"  BY DEF WriteInv, RequestsInv
<1>2. pc[w] \in {"idle", "operate"} => w \notin graph  BY DEF WriteInv, RequestsInv
<1>3. pc[w] \in {"commit", "inline", "push", "receipt"} => w \in graph
  BY DEF WriteInv, RequestsInv
<1>4. CASE TakeTopic(w) \/ PullUnderLock(w) \/ PullSkipped(w) \/ CommitInline(w)
           \/ InlineLock(w) \/ InlineCommit(w)
  BY <1>4 DEF TakeTopic, PullUnderLock, PullSkipped, CommitInline, InlineLock, InlineCommit, Go
<1>5. CASE TopicTimeout(w)
  <2>1. /\ reply[w] = "none" /\ w \notin graph
        /\ reply' = [reply EXCEPT ![w] = "refused"] /\ UNCHANGED <<graph, origin>>
    BY <1>1, <1>2, <1>5 DEF TopicTimeout, Tell, InFlight
  <2>. QED  BY <2>1, AnswerIsContractStep
<1>12. CASE OperateRaises(w)
  <2>1. reply[w] = "none" /\ reply' = [reply EXCEPT ![w] = "raised"] /\ UNCHANGED <<graph, origin>>
    BY <1>1, <1>12 DEF OperateRaises, Tell, InFlight
  <2>. QED  BY <2>1, AnswerIsContractStep
<1>6. CASE Operate(w)
  <2>1. reply[w] = "none" /\ graph' = graph \cup {w} /\ UNCHANGED <<origin, reply>>
    BY <1>1, <1>6 DEF Operate, InFlight
  <2>. QED  BY <2>1 DEF Contract!Store, Contract!Next
<1>7. CASE HandOver(w)
  <2>1. CASE w \in Confirmed  BY <1>7, <2>1 DEF HandOver
  <2>2. CASE w \notin Confirmed
    <3>1. /\ reply[w] = "none" /\ w \in graph
          /\ reply' = [reply EXCEPT ![w] = "accepted"] /\ UNCHANGED <<graph, origin>>
      BY <1>1, <1>3, <1>7, <2>2 DEF HandOver, Tell, InFlight
    <3>. QED  BY <3>1, AnswerIsContractStep
  <2>. QED  BY <2>1, <2>2
<1>8. CASE Receipt(w)
  <2>1. reply[w] = "none" /\ w \in graph /\ UNCHANGED <<graph, origin>>
    BY <1>1, <1>3, <1>8 DEF Receipt, InFlight
  <2>2. CASE task[w] = "done" /\ Tell(w, "pushed")
    <3>1. w \in origin  BY <2>2 DEF WriteInv, TasksInv
    <3>. QED  BY <2>1, <2>2, <3>1, AnswerIsContractStep DEF Tell
  <2>3. CASE Tell(w, "unpushed")  BY <2>1, <2>3, AnswerIsContractStep DEF Tell
  <2>. QED  BY <1>8, <2>2, <2>3 DEF Receipt
<1>9. CASE ReceiptTimeout(w)
  <2>1. /\ reply[w] = "none" /\ w \in graph
        /\ reply' = [reply EXCEPT ![w] = "unpushed"] /\ UNCHANGED <<graph, origin>>
    BY <1>1, <1>3, <1>9 DEF ReceiptTimeout, Tell, InFlight
  <2>. QED  BY <2>1, AnswerIsContractStep
<1>10. CASE InlineGivesUp(w) \/ InlineClean(w)
  <2>1. /\ reply[w] = "none" /\ w \in graph
        /\ reply' = [reply EXCEPT ![w] = "local"] /\ UNCHANGED <<graph, origin>>
    BY <1>1, <1>3, <1>10 DEF InlineGivesUp, InlineClean, Tell, InFlight
  <2>. QED  BY <2>1, AnswerIsContractStep
<1>11. CASE InlinePush(w)
  <2>1. reply[w] = "none" /\ w \in head /\ w \in graph
    BY <1>1, <1>3, <1>11 DEF InlinePush, InFlight, WriteInv, RequestsInv
  <2>2. PushSucceeds \/ PushFails  BY <1>11 DEF InlinePush
  <2>3. graph' = graph /\ origin \subseteq origin' /\ origin' \subseteq graph
    BY <2>2, PushFacts DEF WriteInv, TypeOK
  <2>4. origin' \in SUBSET graph /\ origin' = origin \cup origin'  BY <2>3
  <2>5. \/ w \in origin' /\ reply' = [reply EXCEPT ![w] = "pushed"]
        \/ reply' = [reply EXCEPT ![w] = "unpushed"]
    <3>1. CASE PushSucceeds /\ Tell(w, "pushed")
      BY <2>1, <3>1, PushFacts DEF Tell, WriteInv
    <3>2. CASE Tell(w, "unpushed")  BY <3>2 DEF Tell
    <3>. QED  BY <1>11, <3>1, <3>2 DEF InlinePush
  <2>6. Contract!PublishAndAnswer(w)
    BY <2>1, <2>3, <2>4, <2>5 DEF Contract!PublishAndAnswer
  <2>. QED  BY <2>6 DEF Contract!Next
<1>. QED  BY <1>4, <1>5, <1>6, <1>7, <1>8, <1>9, <1>10, <1>11, <1>12 DEF RequestStep

LEMMA CommitterImplementsContract ==
  ASSUME WriteInv, CommitterStep
  PROVE  Contract!Next \/ UNCHANGED <<graph, origin, reply>>
<1>. USE DEF git, requests
<1>1. CASE BatchPush \/ SweepPush
  <2>1. (PushSucceeds \/ PushFails) /\ UNCHANGED reply  BY <1>1 DEF BatchPush, SweepPush
  <2>. QED  BY <2>1, PushIsContractStep DEF WriteInv
<1>2. CASE TickDrains \/ TickSweeps \/ BatchLock \/ BatchRaises \/ BatchIsDone \/ BatchCommit
  BY <1>2 DEF TickDrains, TickSweeps, BatchLock, Lock, BatchRaises, BatchIsDone, BatchCommit
<1>3. CASE (\E w \in Writes : Settle(w)) \/ SweepLock \/ SweepRaises \/ SweepCommit
  BY <1>3 DEF Settle, SweepLock, Lock, SweepRaises, SweepCommit
<1>. QED  BY <1>1, <1>2, <1>3 DEF CommitterStep

\* run_with_sync implements its contract: every step of a request thread, of the
\* committer, of other machines and of a crash is a step of WriteContract.
THEOREM ImplementsContract == Spec => ContractSpec
<1>1. Init => Contract!Init  BY DEF Init, Contract!Init
<1>2. WriteInv /\ [Next]_vars => [Contract!Next]_<<graph, origin, reply>>
  <2>. SUFFICES ASSUME WriteInv, [Next]_vars
                PROVE  Contract!Next \/ UNCHANGED <<graph, origin, reply>>
    OBVIOUS
  <2>1. CASE IntervalPasses \/ OthersPush \/ Crash \/ \E w \in Writes : TimeoutPasses(w)
    BY <2>1 DEF IntervalPasses, OthersPush, Crash, TimeoutPasses, git, requests
  <2>2. CASE UNCHANGED vars  BY <2>2 DEF vars, git, requests
  <2>. QED  BY <2>1, <2>2, RequestImplementsContract, CommitterImplementsContract DEF Next
<1>. QED  BY <1>1, <1>2, WriteInvariant, PTL DEF Spec, ContractSpec, Contract!Spec
-----------------------------------------------------------------------------
(* The worktree lock makes the write path a Mutex around git.               *)

\* Who is at git holds the lock, so there is at most one.
LEMMA AtGitHoldsLock ==
  ASSUME WriteInv
  PROVE  /\ AtGit = {} \/ (lock \in Writes \cup {Committer} /\ AtGit = {lock})
         /\ \A w \in Writes : w \in AtGit <=> pc[w] = "push"
         /\ Committer \in AtGit <=> cpc \in CommitterLocked
<1>1. \A p \in AtGit : p \in Writes \cup {Committer} /\ lock = p
  BY DEF AtGit, WriteInv, TypeOK, RequestsInv
<1>. QED  BY <1>1 DEF AtGit

\* A step after which the lock is held as before, or free, and that brings nobody
\* to git, is a Leave or a stutter.
LEMMA RequestImplementsMutex ==
  ASSUME WriteInv, NEW w \in Writes, RequestStep(w)
  PROVE  [GitAccess!Next]_AtGit
<1>1. AtGit = {} \/ (lock \in Writes \cup {Committer} /\ AtGit = {lock})  BY AtGitHoldsLock
<1>2. CASE InlineCommit(w)
  <2>1. lock = w /\ pc[w] = "inline" /\ pc' = [pc EXCEPT ![w] = "push"] /\ cpc' = cpc
    BY <1>2 DEF InlineCommit, Go, committer
  <2>2. AtGit = {}  BY <1>1, <2>1, AtGitHoldsLock
  <2>3. AtGit' = AtGit \cup {w}  BY <2>1 DEF AtGit, WriteInv, TypeOK
  <2>. QED  BY <2>2, <2>3 DEF GitAccess!Next, GitAccess!Enter
<1>3. CASE InlinePush(w)
  <2>1. pc[w] = "push" /\ pc' = [pc EXCEPT ![w] = "returned"] /\ cpc' = cpc
    BY <1>3 DEF InlinePush, Tell, Go, committer
  <2>2. AtGit = {w}  BY <1>1, <2>1, AtGitHoldsLock
  <2>3. AtGit' = AtGit \ {w}  BY <2>1 DEF AtGit, WriteInv, TypeOK
  <2>. QED  BY <2>2, <2>3 DEF GitAccess!Next, GitAccess!Leave
<1>4. CASE ~InlineCommit(w) /\ ~InlinePush(w)
  <2>1. /\ pc[w] # "push" /\ cpc' = cpc
        /\ pc' = pc \/ \E place \in {"topic", "operate", "commit", "inline", "receipt", "returned"} :
                          pc' = [pc EXCEPT ![w] = place]
    BY <1>4 DEF RequestStep, TakeTopic, TopicTimeout, PullUnderLock, PullSkipped, Operate,
       OperateRaises, HandOver, CommitInline, Receipt, ReceiptTimeout, InlineLock, InlineGivesUp,
       InlineClean, Tell, Go, committer, requests
  <2>2. \A v \in Writes : pc'[v] = "push" <=> pc[v] = "push"  BY <2>1 DEF WriteInv, TypeOK
  <2>. QED  BY <2>1, <2>2 DEF AtGit
<1>. QED  BY <1>2, <1>3, <1>4

LEMMA CommitterImplementsMutex ==
  ASSUME WriteInv, CommitterStep
  PROVE  [GitAccess!Next]_AtGit
<1>1. AtGit = {} \/ (lock \in Writes \cup {Committer} /\ AtGit = {lock})  BY AtGitHoldsLock
<1>2. pc' = pc
  BY DEF CommitterStep, TickDrains, TickSweeps, BatchLock, SweepLock, Lock, BatchRaises,
     BatchIsDone, BatchCommit, BatchPush, Settle, SweepRaises, SweepCommit, SweepPush, requests
<1>3. CASE lock = Free
  <2>1. AtGit = {} /\ cpc \notin CommitterLocked
    BY <1>1, <1>3, AtGitHoldsLock DEF WriteInv, TypeOK
  <2>2. AtGit' = {} \/ AtGit' = {Committer}  BY <1>2, <2>1 DEF AtGit
  <2>. QED  BY <2>1, <2>2 DEF GitAccess!Next, GitAccess!Enter
<1>4. CASE lock = Committer
  <2>1. AtGit \in SUBSET {Committer}  BY <1>1, <1>4
  <2>2. AtGit' = {} \/ AtGit' = {Committer}
    BY <1>2, <1>4 DEF AtGit, WriteInv, TypeOK, RequestsInv
  <2>. QED  BY <2>1, <2>2 DEF GitAccess!Next, GitAccess!Enter, GitAccess!Leave
<1>5. CASE lock \in Writes
  <2>1. cpc \notin CommitterLocked  BY <1>5 DEF WriteInv, TypeOK
  <2>2. cpc' \notin CommitterLocked
    BY <1>5, <2>1 DEF CommitterStep, TickDrains, TickSweeps, BatchLock, SweepLock, Lock,
       BatchRaises, BatchIsDone, BatchCommit, BatchPush, Settle, SweepRaises, SweepCommit,
       SweepPush, CommitterLocked
  <2>. QED  BY <1>2, <2>1, <2>2 DEF AtGit
<1>. QED  BY <1>3, <1>4, <1>5 DEF WriteInv, TypeOK
LEMMA EnvironmentImplementsMutex ==
  ASSUME WriteInv, IntervalPasses \/ OthersPush \/ Crash \/ \E w \in Writes : TimeoutPasses(w)
  PROVE  [GitAccess!Next]_AtGit
<1>1. AtGit = {} \/ (lock \in Writes \cup {Committer} /\ AtGit = {lock})  BY AtGitHoldsLock
<1>2. CASE Crash
  <2>1. \A w \in Writes : pc'[w] # "push"  BY <1>2 DEF Crash, InFlight, WriteInv, TypeOK
  <2>2. AtGit' = {}  BY <1>2, <2>1 DEF AtGit, Crash, CommitterLocked
  <2>. QED  BY <1>1, <2>2 DEF GitAccess!Next, GitAccess!Leave
<1>3. CASE IntervalPasses \/ OthersPush \/ \E w \in Writes : TimeoutPasses(w)
  BY <1>3 DEF IntervalPasses, OthersPush, TimeoutPasses, requests, committer, AtGit
<1>. QED  BY <1>2, <1>3

\* Whoever works in git between a commit and its push is alone there, be it a request
\* thread or the committer, although requests go on without the lock when they cannot
\* get it in time and a crash takes every lock (middleware.py:840-845).
THEOREM GitUnderLock == Spec => GitAccessSpec
<1>1. Init => GitAccess!Init
  BY DEF Init, GitAccess!Init, AtGit, CommitterLocked
<1>2. WriteInv /\ [Next]_vars => [GitAccess!Next]_AtGit
  <2>. SUFFICES ASSUME WriteInv, [Next]_vars PROVE [GitAccess!Next]_AtGit  OBVIOUS
  <2>1. CASE UNCHANGED vars  BY <2>1 DEF vars, requests, committer, AtGit
  <2>. QED  BY <2>1, RequestImplementsMutex, CommitterImplementsMutex,
               EnvironmentImplementsMutex DEF Next
<1>. QED  BY <1>1, <1>2, WriteInvariant, PTL DEF Spec, GitAccessSpec, GitAccess!Spec
-----------------------------------------------------------------------------
(* The commit queue forgets no task: it implements TaskStore.               *)

\* A task that goes from one status to another, none of the others moving, becomes what
\* the new status says.
LEMMA TaskMoves ==
  ASSUME TypeOK, NEW w \in Writes,
         NEW to \in {"none", "pending", "running", "done", "dead"},
         task' = [task EXCEPT ![w] = to],
         <<FateOf(task[w]), FateOf(to)>> \in
            {<<"new", "active">>, <<"active", "active">>, <<"active", "done">>, <<"active", "parked">>}
  PROVE  [CommitQueue!Next]_Fates
<1>1. Fates' = [Fates EXCEPT ![w] = FateOf(to)]
  <2>1. Fates' = [v \in Writes |-> FateOf(task'[v])]  BY DEF Fates
  <2>2. \A v \in Writes : task'[v] = IF v = w THEN to ELSE task[v]  BY DEF TypeOK
  <2>3. \A v \in Writes : FateOf(task'[v]) = IF v = w THEN FateOf(to) ELSE FateOf(task[v])
    BY <2>2
  <2>. QED  BY <2>1, <2>3 DEF Fates
<1>2. Fates[w] = FateOf(task[w])  BY DEF Fates
<1>3. CASE FateOf(to) = "active" /\ FateOf(task[w]) = "active"
  <2>1. Fates' = Fates  BY <1>1, <1>2, <1>3 DEF Fates
  <2>. QED  BY <2>1
<1>4. CASE FateOf(to) = "active" /\ FateOf(task[w]) = "new"
  BY <1>1, <1>2, <1>4 DEF CommitQueue!Next, CommitQueue!Accept, CommitQueue!Become
<1>5. CASE FateOf(to) = "done" /\ FateOf(task[w]) = "active"
  BY <1>1, <1>2, <1>5 DEF CommitQueue!Next, CommitQueue!Finish, CommitQueue!Become
<1>6. CASE FateOf(to) = "parked" /\ FateOf(task[w]) = "active"
  BY <1>1, <1>2, <1>6 DEF CommitQueue!Next, CommitQueue!Park, CommitQueue!Become
<1>. QED  BY <1>3, <1>4, <1>5, <1>6

LEMMA StepImplementsQueue ==
  ASSUME WriteInv, [Next]_vars
  PROVE  [CommitQueue!Next]_Fates
<1>1. CASE UNCHANGED task  BY <1>1 DEF Fates
<1>2. ASSUME NEW w \in Writes, HandOver(w)
      PROVE  [CommitQueue!Next]_Fates
  <2>1. task[w] = "none"  BY <1>2 DEF HandOver, WriteInv, TasksInv
  <2>2. task' = [task EXCEPT ![w] = "pending"]  BY <1>2 DEF HandOver
  <2>. QED  BY <2>1, <2>2, TaskMoves DEF WriteInv, FateOf
<1>3. ASSUME NEW w \in Writes, Settle(w)
      PROVE  [CommitQueue!Next]_Fates
  <2>1. task[w] = "running"  BY <1>3 DEF Settle, WriteInv, TypeOK
  <2>2. PICK to \in {"done", "dead", "pending"} : task' = [task EXCEPT ![w] = to]
    BY <1>3 DEF Settle
  <2>3. <<FateOf(task[w]), FateOf(to)>> \in
            {<<"active", "active">>, <<"active", "done">>, <<"active", "parked">>}
    BY <2>1 DEF FateOf
  <2>. QED  BY <2>2, <2>3, TaskMoves DEF WriteInv
<1>4. CASE TickDrains
  <2>1. PICK drained \in SUBSET Ready :
          task' = [w \in Writes |-> IF w \in drained THEN "running"
                                    ELSE IF w \in Ready THEN "pending" ELSE task[w]]
    BY <1>4 DEF TickDrains
  <2>2. \A w \in Writes : FateOf(task'[w]) = FateOf(task[w])
    BY <2>1 DEF Ready, Live, FateOf
  <2>. QED  BY <2>2 DEF Fates
<1>5. ASSUME NEW w \in Writes, RequestStep(w), ~HandOver(w) PROVE UNCHANGED task
  BY <1>5 DEF RequestStep, TakeTopic, TopicTimeout, PullUnderLock, PullSkipped, Operate,
     OperateRaises, CommitInline, Receipt, ReceiptTimeout, InlineLock, InlineGivesUp,
     InlineCommit, InlineClean, InlinePush, queue
<1>6. ASSUME CommitterStep, ~TickDrains, ~\E w \in Writes : Settle(w) PROVE UNCHANGED task
  BY <1>6 DEF CommitterStep, TickSweeps, BatchLock, SweepLock, Lock, BatchRaises,
     BatchIsDone, BatchCommit, BatchPush, SweepRaises, SweepCommit, SweepPush, queue
<1>7. ASSUME \/ IntervalPasses \/ OthersPush \/ Crash \/ UNCHANGED vars
             \/ \E w \in Writes : TimeoutPasses(w)
      PROVE  UNCHANGED task
  BY <1>7 DEF IntervalPasses, OthersPush, Crash, TimeoutPasses, vars, queue
<1>. QED  BY <1>1, <1>2, <1>3, <1>4, <1>5, <1>6, <1>7 DEF Next

\* No commit task that was handed over is forgotten, and none that has ended comes back,
\* whatever batches, recoveries and crashes it goes through (committer.py:337-490).
THEOREM NoCommitLost == Spec => CommitQueueSpec
<1>1. Init => CommitQueue!Init  BY DEF Init, CommitQueue!Init, FateOf, Fates
<1>. QED  BY <1>1, StepImplementsQueue, WriteInvariant, PTL
          DEF Spec, CommitQueueSpec, CommitQueue!Spec
=============================================================================
