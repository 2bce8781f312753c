----------------------- MODULE MemoryTaskQueueProofs -----------------------
(***************************************************************************)
(* What the task queue guarantees for any number of tasks and threads, any *)
(* limits, and any number of crashes, recoveries and revivals.  The        *)
(* inductive invariant is QueueInv; its part FilesInv, and what rests on   *)
(* it, is promised while file writes succeed.  Three further inductive     *)
(* invariants are about keys, receipts and executions.                     *)
(***************************************************************************)
EXTENDS MemoryTaskQueue, SequenceTheorems, FiniteSetTheorems, TLAPS

USE TasksAssumption, BoundsAssumption, FaultsAssumption
-----------------------------------------------------------------------------
(* The sequences the files are                                              *)

LEMMA AppendedLines ==
  ASSUME NEW lines \in Seq(Tasks), NEW t \in Tasks
  PROVE  /\ Append(lines, t) \in Seq(Tasks)
         /\ \A u : (\E i \in 1..Len(Append(lines, t)) : Append(lines, t)[i] = u)
                   <=> (u = t \/ \E i \in 1..Len(lines) : lines[i] = u)
<1>1. /\ Append(lines, t) \in Seq(Tasks)
      /\ Len(Append(lines, t)) = Len(lines) + 1
      /\ \A i \in 1..Len(lines) : Append(lines, t)[i] = lines[i]
      /\ Append(lines, t)[Len(lines) + 1] = t
  BY AppendProperties
<1>2. Len(lines) \in Nat  BY LenProperties
<1>3. \A i \in 1..(Len(lines) + 1) : i \in 1..Len(lines) \/ i = Len(lines) + 1  BY <1>2
<1>4. Len(lines) + 1 \in 1..(Len(lines) + 1) /\ 1..Len(lines) \subseteq 1..(Len(lines) + 1)  BY <1>2
<1>. QED  BY <1>1, <1>3, <1>4

LEMMA DroppedLines ==
  ASSUME NEW lines \in Seq(Tasks), NEW k \in 0..Len(lines)
  PROVE  /\ SubSeq(lines, k + 1, Len(lines)) \in Seq(Tasks)
         /\ \A i \in 1..Len(SubSeq(lines, k + 1, Len(lines))) :
              \E j \in 1..Len(lines) : SubSeq(lines, k + 1, Len(lines))[i] = lines[j]
         /\ \A j \in 1..Len(lines) :
              \/ j \in 1..k
              \/ \E i \in 1..Len(SubSeq(lines, k + 1, Len(lines))) :
                    SubSeq(lines, k + 1, Len(lines))[i] = lines[j]
<1>. DEFINE rest == SubSeq(lines, k + 1, Len(lines))
<1>1. Len(lines) \in Nat /\ \A i \in 1..Len(lines) : lines[i] \in Tasks
  BY LenProperties, ElementOfSeq
<1>2. /\ rest \in Seq(Tasks)
      /\ Len(rest) = IF k + 1 <= Len(lines) THEN Len(lines) - (k + 1) + 1 ELSE 0
      /\ \A i \in 1..(Len(lines) - (k + 1) + 1) : rest[i] = lines[(k + 1) + i - 1]
  <2>1. \A i \in (k + 1)..Len(lines) : lines[i] \in Tasks  BY <1>1
  <2>. QED  BY <1>1, <2>1, SubSeqProperties
<1>3. Len(rest) = Len(lines) - k  BY <1>1, <1>2
<1>4. \A i \in 1..Len(rest) : rest[i] = lines[k + i]  BY <1>1, <1>2, <1>3
<1>. HIDE DEF rest
<1>5. \A i \in 1..Len(rest) : k + i \in 1..Len(lines)  BY <1>1, <1>3
<1>6. \A j \in 1..Len(lines) : j \in 1..k \/ (j - k \in 1..Len(rest) /\ k + (j - k) = j)
  BY <1>1, <1>3
<1>7. \A j \in 1..Len(lines) : j \in 1..k \/ \E i \in 1..Len(rest) : rest[i] = lines[j]
  BY <1>4, <1>6
<1>8. \A i \in 1..Len(rest) : \E j \in 1..Len(lines) : rest[i] = lines[j]  BY <1>4, <1>5
<1>. QED  BY <1>2, <1>7, <1>8 DEF rest

LEMMA TrimmedLines ==
  ASSUME NEW S, NEW lines \in Seq(S)
  PROVE  Trimmed(lines) \in Seq(S) /\ Len(Trimmed(lines)) <= MaxReceipts
<1>1. Len(lines) \in Nat /\ \A i \in 1..Len(lines) : lines[i] \in S
  BY LenProperties, ElementOfSeq
<1>2. CASE Len(lines) <= MaxReceipts  BY <1>2 DEF Trimmed
<1>3. CASE ~(Len(lines) <= MaxReceipts)
  <2>. DEFINE m == Len(lines) - MaxReceipts + 1
  <2>1. m \in Int /\ m \in 1..Len(lines) /\ \A i \in m..Len(lines) : lines[i] \in S
    BY <1>1, <1>3
  <2>2. /\ SubSeq(lines, m, Len(lines)) \in Seq(S)
        /\ Len(SubSeq(lines, m, Len(lines))) = Len(lines) - m + 1
    BY <1>1, <2>1, SubSeqProperties
  <2>. QED  BY <1>1, <1>3, <2>2 DEF Trimmed
<1>. QED  BY <1>2, <1>3

LEMMA TakenLines ==
  ASSUME TypeOK
  PROVE  Taken \in 0..Len(deadLetters) /\ Revived \subseteq Tasks
         /\ \A t \in Revived : InDeadLetters(t)
<1>1. Len(deadLetters) \in Nat /\ \A i \in 1..Len(deadLetters) : deadLetters[i] \in Tasks
  BY LenProperties, ElementOfSeq DEF TypeOK
<1>2. Taken \in 0..Len(deadLetters)  BY <1>1 DEF Taken, Least
<1>3. 1..Taken \subseteq 1..Len(deadLetters)  BY <1>1, <1>2
<1>. QED  BY <1>1, <1>2, <1>3 DEF Revived, InDeadLetters

LEMMA SameDeadLetters ==
  ASSUME UNCHANGED deadLetters
  PROVE  Revived' = Revived /\ \A t : InDeadLetters(t)' <=> InDeadLetters(t)
BY DEF Revived, Taken, InDeadLetters

\* What an append and a shortening of the dead-letter file do to its tasks.
LEMMA AppendFacts ==
  ASSUME TypeOK, op.task \in Tasks, deadLetters' = Append(deadLetters, op.task)
  PROVE  \A t : InDeadLetters(t)' <=> (t = op.task \/ InDeadLetters(t))
<1>1. deadLetters \in Seq(Tasks)  BY DEF TypeOK
<1>2. \A u : (\E i \in 1..Len(deadLetters') : deadLetters'[i] = u)
              <=> (u = op.task \/ \E i \in 1..Len(deadLetters) : deadLetters[i] = u)
  BY <1>1, AppendedLines
<1>. QED  BY <1>2 DEF InDeadLetters

LEMMA RewriteFacts ==
  ASSUME TypeOK, deadLetters' = SubSeq(deadLetters, Taken + 1, Len(deadLetters))
  PROVE  /\ \A t : InDeadLetters(t)' => InDeadLetters(t)
         /\ \A t : InDeadLetters(t) => t \in Revived \/ InDeadLetters(t)'
<1>1. deadLetters \in Seq(Tasks) /\ Taken \in 0..Len(deadLetters)  BY TakenLines DEF TypeOK
<1>2. /\ \A i \in 1..Len(deadLetters') :
            \E j \in 1..Len(deadLetters) : deadLetters'[i] = deadLetters[j]
      /\ \A j \in 1..Len(deadLetters) :
            j \in 1..Taken \/ \E i \in 1..Len(deadLetters') : deadLetters'[i] = deadLetters[j]
  <2>. DEFINE rest == SubSeq(deadLetters, Taken + 1, Len(deadLetters))
  <2>1. /\ \A i \in 1..Len(rest) : \E j \in 1..Len(deadLetters) : rest[i] = deadLetters[j]
        /\ \A j \in 1..Len(deadLetters) :
              j \in 1..Taken \/ \E i \in 1..Len(rest) : rest[i] = deadLetters[j]
    BY <1>1, DroppedLines
  <2>2. deadLetters' = rest  OBVIOUS
  <2>. QED  BY <2>1, <2>2
<1>3. ASSUME NEW t, InDeadLetters(t)' PROVE InDeadLetters(t)
  BY <1>2, <1>3 DEF InDeadLetters
<1>4. ASSUME NEW t, InDeadLetters(t) PROVE t \in Revived \/ InDeadLetters(t)'
  <2>1. PICK j \in 1..Len(deadLetters) : deadLetters[j] = t  BY <1>4 DEF InDeadLetters
  <2>2. CASE j \in 1..Taken  BY <2>1, <2>2 DEF Revived
  <2>3. CASE \E i \in 1..Len(deadLetters') : deadLetters'[i] = t  BY <2>3 DEF InDeadLetters
  <2>. QED  BY <1>2, <2>1, <2>2, <2>3
<1>. QED  BY <1>3, <1>4

\* Clocks change no status and no attempt count.
LEMMA ElapseFacts ==
  ASSUME TypeOK, NEW t \in Tasks, NEW field \in {"waiting", "fresh"}, Elapse(t, field)
  PROVE  /\ tasks' \in [Tasks -> Records] /\ queueFile' \in [Tasks -> Records]
         /\ \A u \in Tasks : /\ tasks'[u].status = tasks[u].status
                             /\ tasks'[u].attempt = tasks[u].attempt
                             /\ queueFile'[u].status = queueFile[u].status
                             /\ queueFile'[u].attempt = queueFile[u].attempt
         /\ UNCHANGED <<deadLetters, receipts, op, step, consumer, inflight, history>>
<1>. DEFINE Past(record) == [record EXCEPT ![field] = FALSE]
<1>1. ASSUME NEW record \in Records
      PROVE  /\ Past(record) \in Records
             /\ Past(record).status = record.status /\ Past(record).attempt = record.attempt
  <2>1. CASE field = "waiting"  BY <2>1 DEF Records
  <2>2. CASE field = "fresh"  BY <2>2 DEF Records
  <2>. QED  BY <2>1, <2>2
<1>2. tasks \in [Tasks -> Records] /\ queueFile \in [Tasks -> Records]  BY DEF TypeOK
<1>3. /\ tasks' = [tasks EXCEPT ![t] = Past(tasks[t])]
      /\ queueFile' = [queueFile EXCEPT ![t] = Past(queueFile[t])]
  BY DEF Elapse
<1>. HIDE DEF Past
<1>4. tasks' \in [Tasks -> Records] /\ queueFile' \in [Tasks -> Records]  BY <1>1, <1>2, <1>3
<1>5. ASSUME NEW u \in Tasks
      PROVE  /\ tasks'[u].status = tasks[u].status /\ tasks'[u].attempt = tasks[u].attempt
             /\ queueFile'[u].status = queueFile[u].status
             /\ queueFile'[u].attempt = queueFile[u].attempt
  <2>1. CASE u = t  BY <1>1, <1>2, <1>3, <2>1
  <2>2. CASE u # t  BY <1>2, <1>3, <2>2
  <2>. QED  BY <2>1, <2>2
<1>. QED  BY <1>4, <1>5 DEF Elapse
-----------------------------------------------------------------------------
(* Every step keeps QueueInv, part by part                                  *)

LEMMA TypeStep ==
  ASSUME TypeOK, OpInv, Next
  PROVE  TypeOK'
<1>. USE DEF TypeOK, Steps, OpNames, Outcomes, files, history, counters, Owe, Set, Idle
<1>1. Absent \in Records
      /\ \A n \in Nat, b \in BOOLEAN :
            [status |-> "pending", attempt |-> n, waiting |-> b, fresh |-> TRUE] \in Records
  BY DEF Absent, Records
<1>2. ASSUME NEW t \in Tasks, Enqueue(t) PROVE TypeOK'  BY <1>1, <1>2 DEF Enqueue
<1>3. ASSUME NEW t \in Tasks, NEW field \in {"waiting", "fresh"}, Elapse(t, field) PROVE TypeOK'
  BY <1>3, ElapseFacts
<1>20. ASSUME NEW t \in Tasks, BackoffElapses(t) \/ GoesStale(t) PROVE TypeOK'
  BY <1>3, <1>20 DEF BackoffElapses, GoesStale
<1>4. ASSUME NEW t \in Tasks, Ages(t) PROVE TypeOK'  BY <1>4 DEF Ages
<1>5. ASSUME NEW w \in Workers, Dequeue(w) PROVE TypeOK'
  <2>1. PICK t \in Tasks :
          /\ tasks' = [tasks EXCEPT ![t] = [tasks[t] EXCEPT !.status = "running",
                                                             !.attempt = @ + 1, !.fresh = TRUE]]
          /\ inflight' = [inflight EXCEPT ![w] = t]
          /\ op' = [name |-> "dequeue", task |-> t] /\ step' = "persist"
    BY <1>5 DEF Dequeue
  <2>2. [tasks[t] EXCEPT !.status = "running", !.attempt = @ + 1, !.fresh = TRUE] \in Records
    <3>1. tasks[t] \in Records /\ tasks[t].attempt + 1 \in Nat  BY DEF Records
    <3>. QED  BY <3>1 DEF Records
  <2>3. tasks' \in [Tasks -> Records]  BY <2>1, <2>2
  <2>. QED  BY <1>5, <2>1, <2>3 DEF Dequeue
<1>6. ASSUME NEW w \in Workers, Complete(w) PROVE TypeOK'
  <2>1. inflight[w] \in Tasks  BY <1>6 DEF Complete
  <2>. QED  BY <1>1, <1>6, <2>1 DEF Complete
<1>7. ASSUME NEW w \in Workers, NEW finished \in BOOLEAN, NotFound(w, finished) PROVE TypeOK'
  <2>1. inflight[w] \in Tasks  BY <1>7 DEF NotFound
  <2>. QED  BY <1>7, <2>1 DEF NotFound
<1>8. ASSUME NEW w \in Workers, NEW kind \in Kinds, Fail(w, kind) PROVE TypeOK'
  <2>. DEFINE t == inflight[w]
              left == IF kind = "throttled" THEN Refunded(t) ELSE tasks[t].attempt
  <2>1. t \in Tasks /\ tasks[t] \in Records  BY <1>8 DEF Fail
  <2>2. left \in Nat  BY <2>1 DEF Refunded, Records
  <2>3. \/ tasks' = [tasks EXCEPT ![t] = Absent] /\ op' = [name |-> "bury", task |-> t]
           /\ step' = "dead_letter"
        \/ /\ tasks' = [tasks EXCEPT ![t] = [status |-> "pending", attempt |-> left,
                                             waiting |-> TRUE, fresh |-> TRUE]]
           /\ op' = [name |-> "retry_later", task |-> t] /\ step' = "persist"
    BY <1>8 DEF Fail
  <2>. HIDE DEF left
  <2>4. tasks' \in [Tasks -> Records]
    <3>1. [status |-> "pending", attempt |-> left, waiting |-> TRUE, fresh |-> TRUE] \in Records
      BY <2>2 DEF Records
    <3>2. CASE tasks' = [tasks EXCEPT ![t] = Absent]  BY <1>1, <3>2
    <3>3. ASSUME NEW record \in Records, tasks' = [tasks EXCEPT ![t] = record]
          PROVE  tasks' \in [Tasks -> Records]
      BY <3>3
    <3>. QED  BY <2>3, <3>1, <3>2, <3>3
  <2>5. op' \in [name : OpNames, task : Tasks \cup {NoTask}] /\ step' \in Steps
    BY <2>1, <2>3
  <2>6. /\ inflight' = [inflight EXCEPT ![w] = NoTask]
        /\ UNCHANGED <<files, consumer, history>>
    BY <1>8 DEF Fail
  <2>. QED  BY <2>4, <2>5, <2>6
<1>9. Recovered \in [Tasks -> Records]
  <2>1. ASSUME NEW t \in Tasks
        PROVE  /\ tasks[t] \in Records
               /\ [tasks[t] EXCEPT !.status = "pending", !.fresh = TRUE] \in Records
    <3>1. tasks[t] \in Records  OBVIOUS
    <3>. QED  BY <3>1 DEF Records
  <2>. QED  BY <2>1 DEF Recovered
<1>10. CASE RecoverStale  BY <1>9, <1>10 DEF RecoverStale
<1>11. CASE RetryDeadLetters
  <2>1. tasks' \in [Tasks -> Records]  BY <1>1, <1>11 DEF RetryDeadLetters
  <2>. QED  BY <1>11, <2>1 DEF RetryDeadLetters
<1>12. CASE AppendDeadLetter
  <2>1. op.task \in Tasks  BY <1>12 DEF AppendDeadLetter, OpInv
  <2>2. deadLetters' \in Seq(Tasks)
    <3>1. deadLetters \in Seq(Tasks)  OBVIOUS
    <3>2. Append(deadLetters, op.task) \in Seq(Tasks)  BY <2>1, <3>1, AppendProperties
    <3>. QED  BY <1>12, <3>1, <3>2 DEF AppendDeadLetter
  <2>. QED  BY <1>12, <2>2 DEF AppendDeadLetter
<1>13. CASE AppendReceipt
  <2>. DEFINE S == [task : Tasks, outcome : Outcomes]
              line == [task |-> op.task, outcome |-> op.name]
  <2>1. line \in S  BY <1>13 DEF AppendReceipt, OpInv
  <2>2. Append(receipts, line) \in Seq(S)  BY <2>1, AppendProperties
  <2>3. /\ Trimmed(Append(receipts, line)) \in Seq(S)
        /\ Len(Trimmed(Append(receipts, line))) <= MaxReceipts
    BY <2>2, TrimmedLines
  <2>4. \/ receipts' = Trimmed(Append(receipts, line))
        \/ "receipts" \in Faulty /\ receipts' \in {receipts, Append(receipts, line)}
    BY <1>13 DEF AppendReceipt
  <2>5. receipts' \in Seq(S) /\ ("receipts" \in Faulty \/ Len(receipts') <= MaxReceipts)
    BY <2>2, <2>3, <2>4
  <2>. QED  BY <1>13, <2>5 DEF AppendReceipt
<1>14. CASE Persist
  <2>1. op.name = "enqueue" => op.task \in Tasks  BY DEF OpInv
  <2>2. queueFile' \in [Tasks -> Records] /\ accepted' \subseteq Tasks
    BY <1>14, <2>1 DEF Persist
  <2>3. op' \in [name : OpNames, task : Tasks \cup {NoTask}] /\ step' \in Steps
    BY <1>14 DEF Persist
  <2>. QED  BY <1>14, <2>2, <2>3 DEF Persist
<1>15. CASE RewriteDeadLetters
  <2>1. deadLetters' \in Seq(Tasks)
    <3>1. deadLetters \in Seq(Tasks)  OBVIOUS
    <3>2. Taken \in 0..Len(deadLetters)  BY TakenLines
    <3>3. SubSeq(deadLetters, Taken + 1, Len(deadLetters)) \in Seq(Tasks)
      BY <3>1, <3>2, DroppedLines
    <3>. QED  BY <1>15, <3>1, <3>3 DEF RewriteDeadLetters
  <2>. QED  BY <1>15, <2>1 DEF RewriteDeadLetters
<1>16. CASE Start  BY <1>9, <1>16 DEF Start
<1>17. CASE Stop  BY <1>17 DEF Stop
<1>18. CASE Crash  BY <1>1, <1>18 DEF Crash
<1>19. CASE Load  BY <1>19 DEF Load
<1>. HIDE DEF TypeOK
<1>. QED  BY <1>2, <1>4, <1>5, <1>6, <1>7, <1>8, <1>10, <1>11, <1>12, <1>13, <1>14, <1>15,
             <1>16, <1>17, <1>18, <1>19, <1>20 DEF Next, Write

LEMMA OpStep ==
  ASSUME TypeOK, OpInv, Next
  PROVE  OpInv'
<1>. USE DEF OpInv, Up, LockFree, Idle, Owe, Outcomes, Active, files, history, counters
<1>0. /\ tasks \in [Tasks -> Records] /\ op \in [name : OpNames, task : Tasks \cup {NoTask}]
      /\ accepted \subseteq Tasks /\ inflight \in [Workers -> Tasks \cup {NoTask}]
  BY DEF TypeOK
<1>1. UNCHANGED deadLetters => Revived' = Revived  BY SameDeadLetters
<1>2. ASSUME NEW t \in Tasks, Enqueue(t) PROVE OpInv'
  <2>1. tasks'[t].status = "pending"  BY <1>0, <1>2 DEF Enqueue, Set
  <2>2. t \notin accepted /\ op' = [name |-> "enqueue", task |-> t] /\ step' = "persist"
    BY <1>2 DEF Enqueue
  <2>. QED  BY <1>2, <2>1, <2>2 DEF Enqueue
<1>3. ASSUME NEW t \in Tasks, NEW field \in {"waiting", "fresh"}, Elapse(t, field) PROVE OpInv'
  <2>1. /\ \A u \in Tasks : tasks'[u].status = tasks[u].status
        /\ UNCHANGED <<deadLetters, op, step, consumer, accepted, submitted>>
    BY <1>3, ElapseFacts
  <2>2. Revived' = Revived /\ Revived \subseteq Tasks  BY <1>1, <2>1, TakenLines
  <2>3. \A u \in Tasks : Active(u)' <=> Active(u)  BY <2>1
  <2>4. submitted \subseteq Tasks  BY DEF TypeOK
  <2>. HIDE DEF Active
  <2>. QED  BY <2>1, <2>2, <2>3, <2>4
<1>4. ASSUME NEW t \in Tasks, BackoffElapses(t) \/ GoesStale(t) PROVE OpInv'
  BY <1>3, <1>4 DEF BackoffElapses, GoesStale
<1>5. ASSUME NEW t \in Tasks, Ages(t) PROVE OpInv'  BY <1>1, <1>5 DEF Ages
<1>6. ASSUME NEW w \in Workers, Dequeue(w) PROVE OpInv'
  <2>1. op'.name = "dequeue" /\ step' = "persist" /\ Up' /\ UNCHANGED <<accepted, submitted>>
    BY <1>6 DEF Dequeue
  <2>. QED  BY <1>6, <2>1 DEF Dequeue
<1>7. ASSUME NEW w \in Workers, Complete(w) PROVE OpInv'
  <2>1. inflight[w] \in Tasks /\ tasks' = [tasks EXCEPT ![inflight[w]] = Absent]
    BY <1>0, <1>7 DEF Complete, Set
  <2>2. tasks'[inflight[w]].status = "absent"  BY <1>0, <2>1 DEF Absent
  <2>. QED  BY <1>7, <2>1, <2>2 DEF Complete
<1>8. ASSUME NEW w \in Workers, NEW finished \in BOOLEAN, NotFound(w, finished) PROVE OpInv'
  BY <1>1, <1>8 DEF NotFound
<1>9. ASSUME NEW w \in Workers, NEW kind \in Kinds, Fail(w, kind) PROVE OpInv'
  <2>1. inflight[w] \in Tasks  BY <1>0, <1>9 DEF Fail
  <2>2. CASE Buries(inflight[w], kind)
    <3>1. tasks' = [tasks EXCEPT ![inflight[w]] = Absent]  BY <1>9, <2>2 DEF Fail, Set
    <3>2. tasks'[inflight[w]].status = "absent"  BY <1>0, <2>1, <3>1 DEF Absent
    <3>. QED  BY <1>9, <2>1, <2>2, <3>2 DEF Fail
  <2>3. CASE ~Buries(inflight[w], kind)
    <3>1. op'.name = "retry_later" /\ step' = "persist"  BY <1>9, <2>3 DEF Fail
    <3>. QED  BY <1>9, <3>1 DEF Fail
  <2>. QED  BY <2>2, <2>3
<1>10. CASE RecoverStale  BY <1>10 DEF RecoverStale
<1>11. CASE RetryDeadLetters
  <2>1. Revived' = Revived /\ Revived \subseteq Tasks  BY <1>1, <1>11, TakenLines DEF RetryDeadLetters
  <2>2. \A t \in Revived : tasks'[t].status = "pending"  BY <1>11, <2>1 DEF RetryDeadLetters
  <2>. QED  BY <1>11, <2>1, <2>2 DEF RetryDeadLetters
<1>12. CASE AppendDeadLetter  BY <1>12 DEF AppendDeadLetter
<1>13. CASE AppendReceipt  BY <1>13 DEF AppendReceipt
<1>14. CASE Persist
  <2>1. CASE op.name = "revive"
    <3>1. UNCHANGED <<tasks, op, accepted, submitted, deadLetters, consumer>> /\ step' = "rewrite"
      BY <1>14, <2>1 DEF Persist
    <3>. QED  BY <1>1, <2>1, <3>1
  <2>2. CASE op.name # "revive"
    <3>1. op' = Idle /\ step' = "free" /\ accepted' \subseteq submitted' /\ consumer' = consumer
      BY <1>14, <2>2 DEF Persist
    <3>. QED  BY <3>1
  <2>. QED  BY <2>1, <2>2
<1>15. CASE RewriteDeadLetters  BY <1>15 DEF RewriteDeadLetters
<1>16. CASE Start  BY <1>1, <1>16 DEF Start
<1>17. CASE Stop  BY <1>1, <1>17 DEF Stop
<1>18. CASE Crash  BY <1>18 DEF Crash
<1>19. CASE Load  BY <1>19 DEF Load
<1>. HIDE DEF OpInv
<1>. QED  BY <1>2, <1>4, <1>5, <1>6, <1>7, <1>8, <1>9, <1>10, <1>11, <1>12, <1>13, <1>14, <1>15,
             <1>16, <1>17, <1>18, <1>19 DEF Next, Write

LEMMA BudgetStep ==
  ASSUME TypeOK, BudgetInv, Next
  PROVE  BudgetInv'
<1>. USE DEF BudgetInv, WithinBudget, Active, files, history, counters
<1>0. /\ tasks \in [Tasks -> Records] /\ queueFile \in [Tasks -> Records]
      /\ recoveries \in Nat /\ \A t \in Tasks : tasks[t].attempt \in Nat
      /\ inflight \in [Workers -> Tasks \cup {NoTask}]
  BY DEF TypeOK, Records
<1>1. Absent.status = "absent"  BY DEF Absent
<1>2. ASSUME NEW t \in Tasks, Enqueue(t) PROVE BudgetInv'  BY <1>0, <1>2 DEF Enqueue, Set
<1>3. ASSUME NEW t \in Tasks, NEW field \in {"waiting", "fresh"}, Elapse(t, field) PROVE BudgetInv'
  BY <1>3, ElapseFacts
<1>4. ASSUME NEW t \in Tasks, BackoffElapses(t) \/ GoesStale(t) PROVE BudgetInv'
  BY <1>3, <1>4 DEF BackoffElapses, GoesStale
<1>5. ASSUME NEW t \in Tasks, Ages(t) PROVE BudgetInv'  BY <1>5 DEF Ages
<1>6. ASSUME NEW w \in Workers, Dequeue(w) PROVE BudgetInv'
  <2>1. PICK t \in Tasks :
          /\ Ready(t)
          /\ tasks' = [tasks EXCEPT ![t] = [tasks[t] EXCEPT !.status = "running",
                                                             !.attempt = @ + 1, !.fresh = TRUE]]
    BY <1>6 DEF Dequeue, Set
  <2>2. tasks[t] \in Records /\ tasks[t].attempt < MaxAttempts + recoveries
    BY <1>0, <2>1 DEF Ready
  <2>3. tasks'[t].status = "running" /\ tasks'[t].attempt = tasks[t].attempt + 1
    BY <1>0, <2>1, <2>2 DEF Records
  <2>4. WithinBudget(tasks[t])'  BY <1>0, <1>6, <2>2, <2>3 DEF Dequeue
  <2>5. \A u \in Tasks : u # t => tasks'[u] = tasks[u]  BY <1>0, <2>1
  <2>. QED  BY <1>6, <2>4, <2>5 DEF Dequeue
<1>7. ASSUME NEW w \in Workers, Complete(w) PROVE BudgetInv'
  BY <1>0, <1>1, <1>7 DEF Complete, Set
<1>8. ASSUME NEW w \in Workers, NEW finished \in BOOLEAN, NotFound(w, finished) PROVE BudgetInv'
  BY <1>8 DEF NotFound
<1>9. ASSUME NEW w \in Workers, NEW kind \in Kinds, Fail(w, kind) PROVE BudgetInv'
  <2>. DEFINE t == inflight[w]
              left == IF kind = "throttled" THEN Refunded(t) ELSE tasks[t].attempt
  <2>1. t \in Tasks /\ tasks[t].attempt \in Nat /\ tasks[t].attempt <= MaxAttempts + recoveries
    BY <1>0, <1>9 DEF Fail
  <2>2. ~Buries(t, kind) => left < MaxAttempts + recoveries
    <3>1. ASSUME kind = "throttled" PROVE left < MaxAttempts + recoveries
      BY <1>0, <2>1, <3>1 DEF Refunded
    <3>2. ASSUME kind = "error", ~Buries(t, kind) PROVE left < MaxAttempts + recoveries
      BY <1>0, <2>1, <3>2 DEF Buries
    <3>3. kind = "permanent" => Buries(t, kind)  BY DEF Buries
    <3>. QED  BY <3>1, <3>2, <3>3 DEF Kinds
  <2>3. \/ tasks' = [tasks EXCEPT ![t] = Absent]
        \/ /\ ~Buries(t, kind)
           /\ tasks' = [tasks EXCEPT ![t] = [status |-> "pending", attempt |-> left,
                                             waiting |-> TRUE, fresh |-> TRUE]]
    BY <1>9 DEF Fail, Set
  <2>. HIDE DEF left
  <2>4. left \in Nat \/ tasks' = [tasks EXCEPT ![t] = Absent]
    BY <2>1, <2>3 DEF left, Refunded
  <2>5. UNCHANGED <<queueFile, recoveries>>  BY <1>9 DEF Fail
  <2>. QED  BY <1>0, <1>1, <2>1, <2>2, <2>3, <2>4, <2>5
<1>10. ASSUME recoveries' = recoveries + 1, tasks' = Recovered, UNCHANGED queueFile
       PROVE  BudgetInv'
  <2>1. ASSUME NEW t \in Tasks
        PROVE  tasks'[t].attempt = tasks[t].attempt /\ (Active(t)' <=> Active(t))
    <3>1. tasks[t] \in Records  BY <1>0
    <3>2. CASE Stale(t)  BY <1>10, <3>1, <3>2 DEF Recovered, Records, Stale, Running
    <3>3. CASE ~Stale(t)  BY <1>10, <3>3 DEF Recovered
    <3>. QED  BY <3>2, <3>3
  <2>2. \A t \in Tasks : WithinBudget(tasks[t])'  BY <1>0, <1>10, <2>1
  <2>3. \A t \in Tasks : queueFile[t].attempt \in Nat  BY <1>0 DEF Records
  <2>4. \A t \in Tasks : WithinBudget(queueFile[t])'  BY <1>0, <1>10, <2>3
  <2>. QED  BY <2>2, <2>4
<1>11. CASE RecoverStale  BY <1>10, <1>11 DEF RecoverStale
<1>12. CASE RetryDeadLetters  BY <1>0, <1>12 DEF RetryDeadLetters
<1>13. CASE AppendDeadLetter \/ AppendReceipt \/ RewriteDeadLetters \/ Stop
  BY <1>13 DEF AppendDeadLetter, AppendReceipt, RewriteDeadLetters, Stop
<1>14. CASE Persist  BY <1>14 DEF Persist
<1>15. CASE Start
  <2>1. CASE tasks' = Recovered /\ recoveries' = recoveries + 1
    BY <1>10, <1>15, <2>1 DEF Start
  <2>2. CASE UNCHANGED <<tasks, recoveries>>  BY <1>15, <2>2 DEF Start
  <2>. QED  BY <1>15, <2>1, <2>2 DEF Start
<1>16. CASE Crash  BY <1>1, <1>16 DEF Crash
<1>17. CASE Load  BY <1>17 DEF Load
<1>. HIDE DEF BudgetInv
<1>. QED  BY <1>2, <1>4, <1>5, <1>6, <1>7, <1>8, <1>9, <1>11, <1>12, <1>13, <1>14, <1>15,
             <1>16, <1>17 DEF Next, Write

LEMMA FilesStep ==
  ASSUME TypeOK, OpInv, FilesInv, Faulty = {}, Next
  PROVE  FilesInv'
<1>. USE DEF FilesInv, Up, LockFree, Idle, Owe, Outcomes, Active, Stored, files, history, counters
<1>0. /\ tasks \in [Tasks -> Records] /\ queueFile \in [Tasks -> Records]
      /\ accepted \subseteq Tasks /\ inflight \in [Workers -> Tasks \cup {NoTask}]
      /\ deadLetters \in Seq(Tasks) /\ submitted \subseteq Tasks
  BY DEF TypeOK
<1>1. UNCHANGED deadLetters =>
        Revived' = Revived /\ \A t \in Tasks : InDeadLetters(t)' <=> InDeadLetters(t)
  BY SameDeadLetters
<1>2. ASSUME NEW t \in Tasks, Enqueue(t) PROVE FilesInv'
  <2>1. LockFree /\ Up /\ t \notin accepted /\ op = Idle  BY <1>2 DEF Enqueue, OpInv
  <2>2. /\ op' = [name |-> "enqueue", task |-> t] /\ step' = "persist"
        /\ UNCHANGED <<queueFile, deadLetters, consumer, accepted, executed>>
        /\ \A u \in Tasks : u # t => tasks'[u] = tasks[u]
        /\ tasks'[t].status = "pending"
    BY <1>0, <1>2 DEF Enqueue, Set
  <2>. QED  BY <1>0, <1>1, <2>1, <2>2
<1>3. ASSUME NEW t \in Tasks, BackoffElapses(t) \/ GoesStale(t) PROVE FilesInv'
  <2>1. /\ \A u \in Tasks : /\ tasks'[u].status = tasks[u].status
                            /\ queueFile'[u].status = queueFile[u].status
        /\ UNCHANGED <<deadLetters, op, step, consumer, accepted, executed>>
    BY <1>3, ElapseFacts DEF BackoffElapses, GoesStale
  <2>. QED  BY <1>1, <2>1
<1>4. ASSUME NEW t \in Tasks, Ages(t) PROVE FilesInv'  BY <1>1, <1>4 DEF Ages
<1>5. ASSUME NEW w \in Workers, Dequeue(w) PROVE FilesInv'
  <2>1. LockFree /\ Up /\ op = Idle  BY <1>5 DEF Dequeue, OpInv
  <2>2. PICK t \in Tasks :
          /\ Ready(t)
          /\ tasks' = [tasks EXCEPT ![t] = [tasks[t] EXCEPT !.status = "running",
                                                             !.attempt = @ + 1, !.fresh = TRUE]]
          /\ op' = [name |-> "dequeue", task |-> t] /\ step' = "persist"
    BY <1>5 DEF Dequeue, Set
  <2>3. tasks[t] \in Records  BY <1>0
  <2>4. tasks'[t].status = "running" /\ Active(t)  BY <1>0, <2>2, <2>3 DEF Records, Ready
  <2>5. \A u \in Tasks : Active(u)' <=> Active(u)  BY <1>0, <2>2, <2>4
  <2>6. UNCHANGED <<queueFile, deadLetters, consumer, accepted, executed>>  BY <1>5 DEF Dequeue
  <2>. QED  BY <1>1, <2>1, <2>2, <2>5, <2>6
<1>6. ASSUME NEW w \in Workers, Complete(w) PROVE FilesInv'
  <2>. DEFINE t == inflight[w]
  <2>1. LockFree /\ Up /\ op = Idle /\ t \in Tasks /\ Active(t)
    BY <1>0, <1>6 DEF Complete, OpInv
  <2>2. /\ op' = [name |-> "complete", task |-> t] /\ step' = "receipt"
        /\ executed' = executed \cup {t} /\ tasks' = [tasks EXCEPT ![t] = Absent]
        /\ UNCHANGED <<queueFile, deadLetters, consumer, accepted>>
    BY <1>6 DEF Complete, Set
  <2>. HIDE DEF t
  <2>3. Stored(t)  BY <2>1
  <2>4. \A u \in Tasks : u # t => tasks'[u] = tasks[u]  BY <1>0, <2>2
  <2>. QED  BY <1>1, <2>1, <2>2, <2>3, <2>4
<1>7. ASSUME NEW w \in Workers, NEW finished \in BOOLEAN, NotFound(w, finished) PROVE FilesInv'
  BY <1>1, <1>7 DEF NotFound
<1>8. ASSUME NEW w \in Workers, NEW kind \in Kinds, Fail(w, kind) PROVE FilesInv'
  <2>. DEFINE t == inflight[w]
              left == IF kind = "throttled" THEN Refunded(t) ELSE tasks[t].attempt
  <2>1. LockFree /\ Up /\ op = Idle /\ t \in Tasks /\ Active(t)
    BY <1>0, <1>8 DEF Fail, OpInv
  <2>2. /\ UNCHANGED <<queueFile, deadLetters, consumer, accepted, executed>>
        /\ \/ /\ tasks' = [tasks EXCEPT ![t] = Absent]
              /\ op' = [name |-> "bury", task |-> t] /\ step' = "dead_letter"
           \/ /\ op'.name = "retry_later" /\ step' = "persist"
              /\ tasks' = [tasks EXCEPT ![t] =
                    [status |-> "pending", attempt |-> left, waiting |-> TRUE, fresh |-> TRUE]]
    <3>1. UNCHANGED <<queueFile, deadLetters, consumer, accepted, executed>>  BY <1>8 DEF Fail
    <3>2. CASE Buries(t, kind)  BY <1>8, <3>1, <3>2 DEF Fail, Set
    <3>3. CASE ~Buries(t, kind)  BY <1>8, <3>1, <3>3 DEF Fail, Set
    <3>. QED  BY <3>2, <3>3
  <2>. HIDE DEF t, left
  <2>3. Stored(t)  BY <2>1
  <2>4. \A u \in Tasks : u # t => tasks'[u] = tasks[u]  BY <1>0, <2>2
  <2>5. CASE op' = [name |-> "bury", task |-> t] /\ step' = "dead_letter"
    BY <1>1, <2>1, <2>2, <2>3, <2>4, <2>5
  <2>6. CASE op'.name = "retry_later" /\ tasks'[t].status = "pending"
    BY <1>1, <2>1, <2>2, <2>3, <2>4, <2>6
  <2>. QED  BY <1>0, <2>1, <2>2, <2>5, <2>6
<1>9. \A t \in Tasks : Recovered[t].status = "absent" <=> tasks[t].status = "absent"
  <2>1. ASSUME NEW t \in Tasks PROVE Recovered[t].status = "absent" <=> tasks[t].status = "absent"
    <3>1. tasks[t] \in Records  BY <1>0
    <3>2. CASE Stale(t)  BY <3>1, <3>2 DEF Recovered, Records, Stale, Running
    <3>3. CASE ~Stale(t)  BY <3>3 DEF Recovered
    <3>. QED  BY <3>2, <3>3
  <2>. QED  BY <2>1
<1>10. CASE RecoverStale
  <2>1. LockFree /\ Up /\ op = Idle /\ op'.name = "recover" /\ step' = "persist"
        /\ UNCHANGED <<queueFile, deadLetters, consumer, accepted, executed>> /\ tasks' = Recovered
    BY <1>10 DEF RecoverStale, OpInv
  <2>. QED  BY <1>1, <1>9, <2>1
<1>11. CASE RetryDeadLetters
  <2>1. LockFree /\ Up /\ op = Idle /\ op'.name = "revive" /\ step' = "persist"
        /\ UNCHANGED <<queueFile, deadLetters, consumer, accepted, executed>>
        /\ \A t \in Tasks : tasks'[t].status = IF t \in Revived THEN "pending" ELSE tasks[t].status
    BY <1>11 DEF RetryDeadLetters, OpInv
  <2>. QED  BY <1>1, <2>1
<1>12. CASE AppendDeadLetter
  <2>1. /\ op.name = "bury" /\ op.task \in Tasks /\ Up /\ step = "dead_letter" /\ step' = "receipt"
        /\ deadLetters' = Append(deadLetters, op.task)
        /\ UNCHANGED <<tasks, queueFile, op, consumer, accepted, executed>>
    BY <1>12 DEF AppendDeadLetter, OpInv
  <2>2. \A t \in Tasks : InDeadLetters(t)' <=> (t = op.task \/ InDeadLetters(t))
    BY <2>1, AppendFacts
  <2>. QED  BY <2>1, <2>2
<1>13. CASE AppendReceipt  BY <1>1, <1>13 DEF AppendReceipt, OpInv
<1>14. CASE Persist
  <2>1. /\ step = "persist" /\ Up /\ op # Idle /\ queueFile' = tasks
        /\ UNCHANGED <<tasks, deadLetters, consumer, executed>>
        /\ accepted' = IF op.name = "enqueue" THEN accepted \cup {op.task} ELSE accepted
    BY <1>14 DEF Persist, OpInv
  <2>2. op.name = "enqueue" => Active(op.task)  BY DEF OpInv
  <2>3. op'.name \notin {"enqueue", "complete", "bury"}
    BY <1>14 DEF Persist
  <2>4. ASSUME NEW t \in Tasks, t \in accepted, ~Active(t)
        PROVE  InDeadLetters(t) \/ t \in executed
    BY <2>1, <2>4
  <2>5. ASSUME NEW t \in Tasks, Active(t)
        PROVE  t \in accepted'
    <3>1. CASE Stored(t)  BY <2>1, <3>1
    <3>2. CASE ~Stored(t)
      <4>1. t \in Revived => InDeadLetters(t)  BY TakenLines
      <4>. QED  BY <2>1, <2>5, <3>2, <4>1
    <3>. QED  BY <3>1, <3>2
  <2>. QED  BY <1>1, <2>1, <2>2, <2>3, <2>4, <2>5
<1>15. CASE RewriteDeadLetters
  <2>1. /\ step = "rewrite" /\ op.name = "revive" /\ Up /\ op' = Idle /\ step' = "free"
        /\ deadLetters' = SubSeq(deadLetters, Taken + 1, Len(deadLetters))
        /\ UNCHANGED <<tasks, queueFile, consumer, accepted, executed>>
        /\ \A t \in Revived : Active(t)
    BY <1>15 DEF RewriteDeadLetters, OpInv
  <2>2. Revived \subseteq Tasks  BY TakenLines
  <2>3. \A t \in Tasks : InDeadLetters(t)' => InDeadLetters(t)  BY <2>1, RewriteFacts
  <2>4. \A t \in Tasks : InDeadLetters(t) => t \in Revived \/ InDeadLetters(t)'
    BY <2>1, RewriteFacts
  <2>5. \A t \in Revived : Stored(t)  BY <2>1, <2>2
  <2>. QED  BY <2>1, <2>3, <2>4, <2>5
<1>16. CASE Start
  <2>1. LockFree /\ op = Idle /\ consumer = "loaded" /\ consumer' = "started"
        /\ UNCHANGED <<queueFile, deadLetters, accepted, executed>>
        /\ tasks' \in {tasks, Recovered} /\ (op' = op \/ op'.name = "recover")
    BY <1>16 DEF Start, OpInv
  <2>. QED  BY <1>1, <1>9, <2>1
<1>17. CASE Stop  BY <1>1, <1>17 DEF Stop
<1>18. CASE Crash  BY <1>1, <1>18 DEF Crash
<1>19. CASE Load  BY <1>1, <1>19 DEF Load, OpInv
<1>. HIDE DEF FilesInv
<1>. QED  BY <1>2, <1>3, <1>4, <1>5, <1>6, <1>7, <1>8, <1>10, <1>11, <1>12, <1>13, <1>14, <1>15,
             <1>16, <1>17, <1>18, <1>19 DEF Next, Write

LEMMA InitQueueInv == Init => QueueInv
<1>. SUFFICES ASSUME Init PROVE QueueInv  OBVIOUS
<1>1. TypeOK
  <2>1. tasks \in [Tasks -> Records] /\ queueFile \in [Tasks -> Records]
    BY DEF Init, Absent, Records
  <2>2. deadLetters \in Seq(Tasks) /\ receipts \in Seq([task : Tasks, outcome : Outcomes])
        /\ Len(receipts) <= MaxReceipts
    BY EmptySeq DEF Init
  <2>3. op \in [name : OpNames, task : Tasks \cup {NoTask}]  BY DEF Init, Idle, OpNames
  <2>. QED  BY <2>1, <2>2, <2>3 DEF Init, TypeOK, Steps
<1>2. OpInv  BY DEF Init, OpInv, Up, LockFree, Idle, Outcomes
<1>3. BudgetInv  BY DEF Init, BudgetInv, WithinBudget, Absent
<1>4. FilesInv  BY DEF Init, FilesInv, Stored, Active, InDeadLetters, Absent, Idle, Outcomes
<1>. QED  BY <1>1, <1>2, <1>3, <1>4 DEF QueueInv

LEMMA QueueInvStep == QueueInv /\ [Next]_vars => QueueInv'
<1>. SUFFICES ASSUME QueueInv, [Next]_vars PROVE QueueInv'  OBVIOUS
<1>1. CASE Next
  BY <1>1, TypeStep, OpStep, BudgetStep, FilesStep DEF QueueInv
<1>2. CASE UNCHANGED vars
  <2>1. UNCHANGED <<tasks, queueFile, deadLetters, receipts, op, step, consumer, inflight, aged,
                    submitted, accepted, executed, crashes, recoveries, revivals>>
    BY <1>2 DEF vars, files, history, counters
  <2>2. TypeOK'  BY <2>1 DEF QueueInv, TypeOK
  <2>3. OpInv'  BY <2>1 DEF QueueInv, OpInv, Up, LockFree, Active, Revived, Taken
  <2>4. BudgetInv'  BY <2>1 DEF QueueInv, BudgetInv, WithinBudget
  <2>5. Faulty = {} => FilesInv'
    BY <2>1 DEF QueueInv, FilesInv, Up, Active, Stored, InDeadLetters, Revived, Taken
  <2>. QED  BY <2>2, <2>3, <2>4, <2>5 DEF QueueInv
<1>. QED  BY <1>1, <1>2

\* QueueInv is an invariant: through every interleaving of operations, file writes,
\* crashes and restarts map and files differ only in what the operation at work owes.
THEOREM QueueInvariant == Spec => []QueueInv
BY InitQueueInv, QueueInvStep, PTL DEF Spec

\* The queue's map, files and operations stay in their ranges.
THEOREM TypeCorrect == Spec => []TypeOK
<1>1. QueueInv => TypeOK  BY DEF QueueInv
<1>. QED  BY <1>1, QueueInvariant, PTL

\* No task is charged more attempts than its budget and one for each recovery.
THEOREM AttemptsBounded == Spec => []AttemptsWithinBudget
<1>1. QueueInv => AttemptsWithinBudget
  BY DEF QueueInv, BudgetInv, WithinBudget, AttemptsWithinBudget, Active
<1>. QED  BY <1>1, QueueInvariant, PTL

\* While file writes succeed, no accepted task is lost, at whatever point and however
\* often the process dies.
THEOREM NothingLost == Spec => []NoLoss
<1>1. QueueInv => NoLoss  BY DEF QueueInv, TypeOK, FilesInv, NoLoss
<1>. QED  BY <1>1, QueueInvariant, PTL
-----------------------------------------------------------------------------
(* The files implement TaskStore                                            *)

\* One task's fate, told from the files.
Fates == [t \in Tasks |-> FateOf(t)]

LEMMA FatesUnchanged ==
  ASSUME \A t \in Tasks : FateOf(t)' = FateOf(t)
  PROVE  Fates' = Fates
BY DEF Fates

LEMMA OneFateChanges ==
  ASSUME NEW u \in Tasks, NEW end \in {"active", "done", "parked"},
         end = "active" => FateOf(u) = "new",
         end \in {"done", "parked"} => FateOf(u) = "active",
         FateOf(u)' = end,
         \A t \in Tasks : t # u => FateOf(t)' = FateOf(t)
  PROVE  Store!Next
<1>1. Fates' = [Fates EXCEPT ![u] = end]  BY DEF Fates
<1>2. Fates[u] = FateOf(u)  BY DEF Fates
<1>. QED  BY <1>1, <1>2 DEF Fates, Store!Next, Store!Accept, Store!Finish, Store!Park, Store!Become

LEMMA SomeFatesRevive ==
  ASSUME NEW T \in SUBSET Tasks,
         \A t \in T : FateOf(t) = "parked" /\ FateOf(t)' = "active",
         \A t \in Tasks \ T : FateOf(t)' = FateOf(t)
  PROVE  Store!Next
<1>1. Fates' = [t \in Tasks |-> IF t \in T THEN "active" ELSE Fates[t]]  BY DEF Fates
<1>2. \A t \in T : Fates[t] \in {"parked"}  BY DEF Fates
<1>. QED  BY <1>1, <1>2 DEF Store!Next, Store!Revive, Fates

LEMMA StepImplementsStore ==
  ASSUME QueueInv, Faulty = {}, Next
  PROVE  Store!Next \/ UNCHANGED Fates
<1>. USE DEF FateOf, Stored, Active, Outcomes, files, history, counters
<1>1. TypeOK /\ OpInv /\ FilesInv  BY DEF QueueInv
<1>2. UNCHANGED deadLetters => \A t \in Tasks : InDeadLetters(t)' <=> InDeadLetters(t)
  BY SameDeadLetters
<1>3. ASSUME UNCHANGED <<deadLetters, accepted, executed>>,
             \A t \in Tasks : queueFile'[t].status = queueFile[t].status
      PROVE  UNCHANGED Fates
  BY <1>2, <1>3, FatesUnchanged
<1>4. ASSUME NEW t \in Tasks, BackoffElapses(t) \/ GoesStale(t) PROVE UNCHANGED Fates
  BY <1>1, <1>3, <1>4, ElapseFacts DEF BackoffElapses, GoesStale
<1>5. ASSUME NEW t \in Tasks, Enqueue(t) \/ Ages(t) PROVE UNCHANGED Fates
  BY <1>3, <1>5 DEF Enqueue, Ages
<1>6. ASSUME NEW w \in Workers, Dequeue(w) \/ \E kind \in Kinds : Fail(w, kind)
      PROVE  UNCHANGED Fates
  BY <1>3, <1>6 DEF Dequeue, Fail
<1>7. CASE RecoverStale \/ RetryDeadLetters \/ AppendReceipt \/ Start \/ Stop \/ Crash \/ Load
  BY <1>3, <1>7 DEF RecoverStale, RetryDeadLetters, AppendReceipt, Start, Stop, Crash, Load
<1>8. ASSUME NEW w \in Workers, Complete(w) PROVE UNCHANGED Fates
  <2>1. /\ inflight[w] \in Tasks /\ Stored(inflight[w])
        /\ executed' = executed \cup {inflight[w]}
        /\ UNCHANGED <<queueFile, deadLetters, accepted>>
    BY <1>1, <1>8 DEF Complete, TypeOK, OpInv, FilesInv, LockFree, Idle
  <2>. QED  BY <1>2, <2>1, FatesUnchanged
<1>9. ASSUME NEW w \in Workers, NEW finished \in BOOLEAN, NotFound(w, finished)
      PROVE  UNCHANGED Fates
  <2>. DEFINE u == inflight[w]
  <2>1. /\ u \in Tasks /\ ~Active(u) /\ ~Stored(u)
        /\ executed' \in {executed, executed \cup {u}}
        /\ UNCHANGED <<queueFile, deadLetters, accepted>>
    BY <1>1, <1>9 DEF NotFound, TypeOK, OpInv, FilesInv, LockFree, Idle
  <2>2. u \in accepted => InDeadLetters(u) \/ u \in executed  BY <1>1, <2>1 DEF FilesInv
  <2>. HIDE DEF u
  <2>. QED  BY <1>2, <2>1, <2>2, FatesUnchanged
<1>10. CASE AppendDeadLetter
  <2>1. /\ op.task \in Tasks /\ Stored(op.task) /\ deadLetters' = Append(deadLetters, op.task)
        /\ UNCHANGED <<queueFile, accepted, executed>>
    BY <1>1, <1>10 DEF AppendDeadLetter, OpInv, FilesInv
  <2>3. \A t \in Tasks : InDeadLetters(t)' <=> (t = op.task \/ InDeadLetters(t))
    BY <1>1, <2>1, AppendFacts
  <2>. QED  BY <2>1, <2>3, FatesUnchanged
<1>11. CASE RewriteDeadLetters
  <2>1. /\ step = "rewrite" /\ op.name = "revive" /\ Up
        /\ deadLetters' = SubSeq(deadLetters, Taken + 1, Len(deadLetters))
        /\ UNCHANGED <<queueFile, accepted, executed>>
        /\ \A t \in Revived : Active(t)
    BY <1>1, <1>11 DEF RewriteDeadLetters, OpInv, LockFree
  <2>2. Revived \subseteq Tasks  BY <1>1, TakenLines
  <2>4. \A t \in Tasks : InDeadLetters(t)' => InDeadLetters(t)  BY <1>1, <2>1, RewriteFacts
  <2>5. \A t \in Tasks : InDeadLetters(t) => t \in Revived \/ InDeadLetters(t)'
    BY <1>1, <2>1, RewriteFacts
  <2>6. \A t \in Revived : Stored(t)  BY <1>1, <2>1, <2>2 DEF FilesInv
  <2>. QED  BY <2>1, <2>4, <2>5, <2>6, FatesUnchanged
<1>12. CASE Persist
  <2>1. /\ step = "persist" /\ Up /\ op # Idle /\ queueFile' = tasks
        /\ UNCHANGED <<deadLetters, executed>>
        /\ accepted' = IF op.name = "enqueue" THEN accepted \cup {op.task} ELSE accepted
    BY <1>1, <1>12 DEF Persist, OpInv, LockFree
  <2>2. CASE op.name = "enqueue"
    <3>. DEFINE u == op.task
    <3>1. u \in Tasks \ accepted /\ Active(u)  BY <1>1, <2>2 DEF OpInv, TypeOK
    <3>4. \A t \in Tasks : t # u => FateOf(t)' = FateOf(t)
      BY <1>1, <1>2, <2>1, <2>2 DEF FilesInv
    <3>5. PICK v \in Tasks : v = u  BY <3>1
    <3>2. FateOf(v) = "new"  BY <1>1, <3>1, <3>5 DEF FilesInv
    <3>3. FateOf(v)' = "active"  BY <2>1, <3>1, <3>5
    <3>. QED  BY <3>2, <3>3, <3>4, <3>5, OneFateChanges
  <2>3. CASE op.name \in Outcomes
    <3>1. op.task \in Tasks /\ ~Active(op.task) /\ Stored(op.task) /\ op.task \in accepted
      BY <1>1, <2>3 DEF OpInv, FilesInv
    <3>2. InDeadLetters(op.task) \/ op.task \in executed  BY <1>1, <2>1, <2>3, <3>1 DEF FilesInv
    <3>5. PICK v \in Tasks : v = op.task  BY <3>1
    <3>3. FateOf(v) = "active" /\ FateOf(v)' \in {"parked", "done"}
      BY <1>2, <2>1, <2>3, <3>1, <3>2, <3>5
    <3>4. \A t \in Tasks : t # op.task => FateOf(t)' = FateOf(t)
      BY <1>1, <1>2, <2>1, <2>3 DEF FilesInv
    <3>. QED  BY <3>3, <3>4, <3>5, OneFateChanges
  <2>4. CASE op.name = "revive"
    <3>. DEFINE T == {t \in Revived : ~Stored(t)}
    <3>1. T \subseteq Tasks /\ \A t \in Revived : Active(t) /\ InDeadLetters(t)
      BY <1>1, <2>1, <2>4, TakenLines DEF OpInv, LockFree
    <3>2. \A t \in T : FateOf(t) = "parked" /\ FateOf(t)' = "active"  BY <2>1, <3>1
    <3>3. \A t \in Tasks : t \notin T => FateOf(t)' = FateOf(t)
      BY <1>1, <1>2, <2>1, <2>4 DEF FilesInv
    <3>. HIDE DEF T
    <3>4. T \in SUBSET Tasks  BY <3>1
    <3>. QED  BY <3>2, <3>3, <3>4, SomeFatesRevive
  <2>5. CASE op.name \notin Outcomes \cup {"enqueue", "revive"}
    <3>1. \A t \in Tasks : FateOf(t)' = FateOf(t)  BY <1>1, <1>2, <2>1, <2>5 DEF FilesInv
    <3>. QED  BY <3>1, FatesUnchanged
  <2>. QED  BY <2>2, <2>3, <2>4, <2>5
<1>. QED  BY <1>4, <1>5, <1>6, <1>7, <1>8, <1>9, <1>10, <1>11, <1>12 DEF Next, Write

\* While file writes succeed, the queue's files implement TaskStore: no crash at any
\* point between two writes makes a task's fate change but by the write that decides it.
THEOREM ImplementsTaskStore == ASSUME Faulty = {} PROVE Spec => StoreSpec
<1>1. Init => Store!Init
  BY DEF Init, Store!Init, FateOf, Stored, InDeadLetters, Absent
<1>2. QueueInv /\ [Next]_vars => [Store!Next]_Fates
  <2>1. CASE UNCHANGED vars
    BY <2>1, FatesUnchanged
       DEF vars, files, history, FateOf, Stored, InDeadLetters
  <2>. QED  BY <2>1, StepImplementsStore
<1>. QED  BY <1>1, <1>2, QueueInvariant, PTL DEF Spec, StoreSpec, Store!Spec, Fates

-----------------------------------------------------------------------------
(* Keys and executions                                                      *)

\* Neither map nor file has two tasks with an entry_id and one key, while nothing was
\* revived.
KeysUniqueIn(records) ==
    \A t, u \in Tasks \ Anonymous :
        (records[t].status # "absent" /\ records[u].status # "absent" /\ KeyOf[t] = KeyOf[u])
            => t = u
KeysInv == (revivals = 0) => KeysUniqueIn(tasks) /\ KeysUniqueIn(queueFile)

\* A map whose tasks are among those of another.
LEMMA FewerKeys ==
  ASSUME NEW old, NEW new, KeysUniqueIn(old),
         \A t \in Tasks : new[t].status # "absent" => old[t].status # "absent"
  PROVE  KeysUniqueIn(new)
BY DEF KeysUniqueIn

LEMMA KeysStep ==
  ASSUME TypeOK, OpInv, KeysInv, Next
  PROVE  KeysInv'
<1>. USE DEF Active, files, history, counters
<1>0. tasks \in [Tasks -> Records] /\ queueFile \in [Tasks -> Records] /\ revivals \in Nat
      /\ inflight \in [Workers -> Tasks \cup {NoTask}]
  BY DEF TypeOK
<1>1. ASSUME UNCHANGED <<queueFile, revivals>>,
             \A t \in Tasks : tasks'[t].status # "absent" => tasks[t].status # "absent"
      PROVE  KeysInv'
  BY <1>1, FewerKeys DEF KeysInv
<1>2. ASSUME NEW t \in Tasks, Enqueue(t) PROVE KeysInv'
  <2>1. /\ tasks' = [tasks EXCEPT ![t] =
              [status |-> "pending", attempt |-> 0, waiting |-> FALSE, fresh |-> TRUE]]
        /\ UNCHANGED <<queueFile, revivals>> /\ ~Duplicate(t)
    BY <1>2 DEF Enqueue, Set
  <2>2. ASSUME revivals = 0 PROVE KeysUniqueIn(tasks')
    <3>1. KeysUniqueIn(tasks)  BY <2>2 DEF KeysInv
    <3>2. \A u \in Tasks : u # t => tasks'[u] = tasks[u]  BY <1>0, <2>1
    <3>3. t \notin Anonymous =>
            \A u \in Tasks : tasks[u].status # "absent" => KeyOf[u] # KeyOf[t]
      BY <2>1 DEF Duplicate
    <3>. QED  BY <3>1, <3>2, <3>3 DEF KeysUniqueIn
  <2>. QED  BY <2>1, <2>2 DEF KeysInv, KeysUniqueIn
<1>3. ASSUME NEW t \in Tasks, BackoffElapses(t) \/ GoesStale(t) PROVE KeysInv'
  <2>1. PICK field \in {"waiting", "fresh"} : Elapse(t, field)
    BY <1>3 DEF BackoffElapses, GoesStale
  <2>2. /\ \A u \in Tasks : tasks'[u].status = tasks[u].status
        /\ \A u \in Tasks : queueFile'[u].status = queueFile[u].status
        /\ UNCHANGED revivals
    BY <2>1, ElapseFacts
  <2>. QED  BY <2>2 DEF KeysInv, KeysUniqueIn
<1>4. ASSUME NEW t \in Tasks, Ages(t) PROVE KeysInv'  BY <1>1, <1>4 DEF Ages
<1>5. ASSUME NEW w \in Workers, Dequeue(w) PROVE KeysInv'
  <2>1. PICK t \in Tasks :
          /\ tasks[t].status = "pending"
          /\ tasks' = [tasks EXCEPT ![t] = [tasks[t] EXCEPT !.status = "running",
                                                             !.attempt = @ + 1, !.fresh = TRUE]]
          /\ UNCHANGED <<queueFile, revivals>>
    BY <1>5 DEF Dequeue, Ready, Set
  <2>. QED  BY <1>0, <1>1, <2>1
<1>6. ASSUME NEW w \in Workers, NEW record, inflight[w] # NoTask, Active(inflight[w]),
             Set(inflight[w], record), UNCHANGED <<queueFile, revivals>>
      PROVE  KeysInv'
  BY <1>0, <1>1, <1>6 DEF Set
<1>7. ASSUME NEW w \in Workers, Complete(w) \/ (\E kind \in Kinds : Fail(w, kind))
      PROVE  KeysInv'
  BY <1>6, <1>7 DEF Complete, Fail
<1>8. ASSUME NEW w \in Workers, NEW finished \in BOOLEAN, NotFound(w, finished) PROVE KeysInv'
  BY <1>1, <1>8 DEF NotFound
<1>9. \A t \in Tasks : Recovered[t].status # "absent" => tasks[t].status # "absent"
  BY DEF Recovered, Stale, Running
<1>10. CASE RecoverStale  BY <1>1, <1>9, <1>10 DEF RecoverStale
<1>11. CASE RetryDeadLetters  BY <1>0, <1>11 DEF RetryDeadLetters, KeysInv
<1>12. CASE AppendDeadLetter  BY <1>1, <1>12 DEF AppendDeadLetter
<1>13. CASE AppendReceipt  BY <1>1, <1>13 DEF AppendReceipt
<1>14. CASE Persist
  <2>1. queueFile' \in {tasks, queueFile} /\ UNCHANGED <<tasks, revivals>>  BY <1>14 DEF Persist
  <2>. QED  BY <2>1 DEF KeysInv, KeysUniqueIn
<1>15. CASE RewriteDeadLetters  BY <1>1, <1>15 DEF RewriteDeadLetters
<1>16. CASE Start  BY <1>1, <1>9, <1>16 DEF Start
<1>17. CASE Stop  BY <1>1, <1>17 DEF Stop
<1>18. CASE Crash
  <2>1. tasks' = [t \in Tasks |-> Absent] /\ UNCHANGED <<queueFile, revivals>>  BY <1>18 DEF Crash
  <2>. QED  BY <1>1, <2>1 DEF Absent
<1>19. CASE Load
  <2>1. tasks' = queueFile /\ UNCHANGED <<queueFile, revivals>>  BY <1>19 DEF Load
  <2>. QED  BY <2>1 DEF KeysInv, KeysUniqueIn
<1>. QED  BY <1>2, <1>3, <1>4, <1>5, <1>7, <1>8, <1>10, <1>11, <1>12, <1>13, <1>14, <1>15,
             <1>16, <1>17, <1>18, <1>19 DEF Next, Write

\* Until an operator revives dead letters, no two active tasks with an entry_id share a
\* dedup key, through crashes, slow executions and failed writes.
THEOREM KeysStayUnique == Spec => []KeysUniqueBeforeRevival
<1>1. Init => KeysInv  BY DEF Init, KeysInv, KeysUniqueIn, Absent
<1>2. QueueInv /\ KeysInv /\ [Next]_vars => KeysInv'
  <2>1. CASE UNCHANGED vars
    BY <2>1 DEF vars, files, history, counters, KeysInv, KeysUniqueIn
  <2>. QED  BY <2>1, KeysStep DEF QueueInv
<1>3. KeysInv => KeysUniqueBeforeRevival
  BY DEF KeysInv, KeysUniqueIn, KeysUniqueBeforeRevival, NamedKeysUnique, Active
<1>. QED  BY <1>1, <1>2, <1>3, QueueInvariant, PTL DEF Spec

-----------------------------------------------------------------------------
(* The number of tasks                                                      *)

\* The active tasks of a map, of which there are as many as fit.
ActiveIn(records) == {t \in Tasks : records[t].status # "absent"}
Fits(records)     == /\ IsFiniteSet(ActiveIn(records))
                     /\ Cardinality(ActiveIn(records)) <= MaxDepth
DepthInv == (revivals = 0) => Fits(tasks) /\ Fits(queueFile)

\* A map whose tasks are among those of another.
LEMMA FewerTasks ==
  ASSUME NEW old, NEW new, Fits(old),
         \A t \in Tasks : new[t].status # "absent" => old[t].status # "absent"
  PROVE  Fits(new)
<1>1. ActiveIn(new) \in SUBSET ActiveIn(old)  BY DEF ActiveIn
<1>2. /\ IsFiniteSet(ActiveIn(new)) /\ Cardinality(ActiveIn(new)) \in Nat
      /\ Cardinality(ActiveIn(old)) \in Nat
      /\ Cardinality(ActiveIn(new)) <= Cardinality(ActiveIn(old))
  BY <1>1, FS_Subset, FS_CardinalityType DEF Fits
<1>. QED  BY <1>2 DEF Fits

LEMMA DepthStep ==
  ASSUME TypeOK, OpInv, DepthInv, Next
  PROVE  DepthInv'
<1>. USE DEF Active, files, history, counters
<1>0. tasks \in [Tasks -> Records] /\ queueFile \in [Tasks -> Records] /\ revivals \in Nat
      /\ inflight \in [Workers -> Tasks \cup {NoTask}]
  BY DEF TypeOK
<1>1. ASSUME UNCHANGED <<queueFile, revivals>>,
             \A t \in Tasks : tasks'[t].status # "absent" => tasks[t].status # "absent"
      PROVE  DepthInv'
  <2>1. revivals = 0 => Fits(tasks)  BY DEF DepthInv
  <2>2. Fits(tasks) => Fits(tasks')  BY <1>1, FewerTasks
  <2>. HIDE DEF Fits
  <2>3. queueFile' = queueFile /\ revivals' = revivals  BY <1>1
  <2>. QED  BY <2>1, <2>2, <2>3 DEF DepthInv, Fits, ActiveIn
<1>2. ASSUME NEW t \in Tasks, Enqueue(t) PROVE DepthInv'
  <2>1. /\ tasks' = [tasks EXCEPT ![t] =
              [status |-> "pending", attempt |-> 0, waiting |-> FALSE, fresh |-> TRUE]]
        /\ UNCHANGED <<queueFile, revivals>> /\ Depth < MaxDepth
    BY <1>2 DEF Enqueue, Set
  <2>2. Depth = Cardinality(ActiveIn(tasks))  BY DEF Depth, ActiveIn
  <2>3. ActiveIn(tasks') = ActiveIn(tasks) \cup {t}  BY <1>0, <2>1 DEF ActiveIn
  <2>4. ASSUME revivals = 0 PROVE Fits(tasks')
    <3>1. IsFiniteSet(ActiveIn(tasks)) /\ Cardinality(ActiveIn(tasks)) \in Nat
      BY <2>4, FS_CardinalityType DEF DepthInv, Fits
    <3>2. /\ IsFiniteSet(ActiveIn(tasks'))
          /\ Cardinality(ActiveIn(tasks'))
               \in {Cardinality(ActiveIn(tasks)), Cardinality(ActiveIn(tasks)) + 1}
      BY <2>3, <3>1, FS_AddElement
    <3>. QED  BY <2>1, <2>2, <3>1, <3>2 DEF Fits
  <2>. QED  BY <2>1, <2>4 DEF DepthInv, Fits, ActiveIn
<1>3. ASSUME NEW t \in Tasks, BackoffElapses(t) \/ GoesStale(t) PROVE DepthInv'
  <2>1. PICK field \in {"waiting", "fresh"} : Elapse(t, field)
    BY <1>3 DEF BackoffElapses, GoesStale
  <2>2. /\ \A u \in Tasks : tasks'[u].status = tasks[u].status
        /\ \A u \in Tasks : queueFile'[u].status = queueFile[u].status
        /\ UNCHANGED revivals
    BY <2>1, ElapseFacts
  <2>3. ActiveIn(tasks') = ActiveIn(tasks) /\ ActiveIn(queueFile') = ActiveIn(queueFile)
    BY <2>2 DEF ActiveIn
  <2>. QED  BY <2>2, <2>3 DEF DepthInv, Fits, ActiveIn
<1>4. ASSUME NEW t \in Tasks, Ages(t) PROVE DepthInv'  BY <1>1, <1>4 DEF Ages
<1>5. ASSUME NEW w \in Workers, Dequeue(w) PROVE DepthInv'
  <2>1. PICK t \in Tasks :
          /\ tasks[t].status = "pending"
          /\ tasks' = [tasks EXCEPT ![t] = [tasks[t] EXCEPT !.status = "running",
                                                             !.attempt = @ + 1, !.fresh = TRUE]]
          /\ UNCHANGED <<queueFile, revivals>>
    BY <1>5 DEF Dequeue, Ready, Set
  <2>. QED  BY <1>0, <1>1, <2>1
<1>6. ASSUME NEW w \in Workers, NEW record, inflight[w] # NoTask, Active(inflight[w]),
             Set(inflight[w], record), UNCHANGED <<queueFile, revivals>>
      PROVE  DepthInv'
  BY <1>0, <1>1, <1>6 DEF Set
<1>7. ASSUME NEW w \in Workers, Complete(w) \/ (\E kind \in Kinds : Fail(w, kind))
      PROVE  DepthInv'
  BY <1>6, <1>7 DEF Complete, Fail
<1>8. ASSUME NEW w \in Workers, NEW finished \in BOOLEAN, NotFound(w, finished) PROVE DepthInv'
  BY <1>1, <1>8 DEF NotFound
<1>9. \A t \in Tasks : Recovered[t].status # "absent" => tasks[t].status # "absent"
  BY DEF Recovered, Stale, Running
<1>10. CASE RecoverStale  BY <1>1, <1>9, <1>10 DEF RecoverStale
<1>11. CASE RetryDeadLetters  BY <1>0, <1>11 DEF RetryDeadLetters, DepthInv
<1>12. CASE AppendDeadLetter  BY <1>1, <1>12 DEF AppendDeadLetter
<1>13. CASE AppendReceipt  BY <1>1, <1>13 DEF AppendReceipt
<1>14. CASE Persist
  <2>1. queueFile' \in {tasks, queueFile} /\ UNCHANGED <<tasks, revivals>>  BY <1>14 DEF Persist
  <2>. QED  BY <2>1 DEF DepthInv, Fits, ActiveIn
<1>15. CASE RewriteDeadLetters  BY <1>1, <1>15 DEF RewriteDeadLetters
<1>16. CASE Start  BY <1>1, <1>9, <1>16 DEF Start
<1>17. CASE Stop  BY <1>1, <1>17 DEF Stop
<1>18. CASE Crash
  <2>1. tasks' = [t \in Tasks |-> Absent] /\ UNCHANGED <<queueFile, revivals>>  BY <1>18 DEF Crash
  <2>. QED  BY <1>1, <2>1 DEF Absent
<1>19. CASE Load
  <2>1. tasks' = queueFile /\ UNCHANGED <<queueFile, revivals>>  BY <1>19 DEF Load
  <2>. QED  BY <2>1 DEF DepthInv, Fits, ActiveIn
<1>. QED  BY <1>2, <1>3, <1>4, <1>5, <1>7, <1>8, <1>10, <1>11, <1>12, <1>13, <1>14, <1>15,
             <1>16, <1>17, <1>18, <1>19 DEF Next, Write

\* Until an operator revives dead letters the queue holds at most max_depth active tasks,
\* through crashes, restarts, recoveries and failed saves, however many are submitted.
THEOREM DepthStaysBounded == Spec => []DepthBounded
<1>1. Init => DepthInv
  <2>. SUFFICES ASSUME Init PROVE DepthInv  OBVIOUS
  <2>1. ActiveIn(tasks) = {} /\ ActiveIn(queueFile) = {}  BY DEF Init, Absent, ActiveIn
  <2>. QED  BY <2>1, FS_EmptySet DEF DepthInv, Fits
<1>2. QueueInv /\ DepthInv /\ [Next]_vars => DepthInv'
  <2>1. CASE UNCHANGED vars
    BY <2>1 DEF vars, files, history, counters, DepthInv, Fits, ActiveIn
  <2>. QED  BY <2>1, DepthStep DEF QueueInv
<1>3. DepthInv => DepthBounded
  <2>1. Depth = Cardinality(ActiveIn(tasks))
        /\ {t \in Tasks : Stored(t)} = ActiveIn(queueFile)
    BY DEF Depth, Active, Stored, ActiveIn
  <2>. QED  BY <2>1 DEF DepthInv, Fits, DepthBounded
<1>. QED  BY <1>1, <1>2, <1>3, QueueInvariant, PTL DEF Spec

-----------------------------------------------------------------------------
(* Receipts                                                                 *)

\* While nothing was trimmed away: who is out of queue.jsonl has a receipt, and so has
\* who is about to leave it.
ReceiptsInv ==
    (Faulty = {} /\ Len(receipts) < MaxReceipts) =>
        /\ \A t \in accepted : Stored(t) \/ HasReceipt(t)
        /\ step = "persist" /\ op.name \in Outcomes => HasReceipt(op.task)

LEMMA AppendReceiptFacts ==
  ASSUME TypeOK, OpInv, Faulty = {}, AppendReceipt, Len(receipts') < MaxReceipts
  PROVE  /\ Len(receipts) < MaxReceipts
         /\ \A t : HasReceipt(t) => HasReceipt(t)'
         /\ HasReceipt(op.task)'
<1>. DEFINE S == [task : Tasks, outcome : Outcomes]
            line == [task |-> op.task, outcome |-> op.name]
            appended == Append(receipts, line)
<1>1. receipts \in Seq(S) /\ Len(receipts) \in Nat  BY LenProperties DEF TypeOK
<1>2. line \in S  BY DEF AppendReceipt, OpInv, Outcomes
<1>3. /\ appended \in Seq(S) /\ Len(appended) = Len(receipts) + 1
      /\ \A i \in 1..Len(receipts) : appended[i] = receipts[i]
      /\ appended[Len(receipts) + 1] = line
  BY <1>1, <1>2, AppendProperties
<1>4. receipts' = Trimmed(appended)  BY DEF AppendReceipt
<1>. HIDE DEF appended, S
<1>5. Len(appended) <= MaxReceipts
  <2>1. SUFFICES ASSUME ~(Len(appended) <= MaxReceipts) PROVE FALSE  OBVIOUS
  <2>. DEFINE m == Len(appended) - MaxReceipts + 1
  <2>1a. \A i \in 1..Len(appended) : appended[i] \in S  BY <1>3, ElementOfSeq
  <2>1b. m \in Int /\ m \in 1..Len(appended)  BY <1>1, <1>3, <2>1
  <2>2. m \in Int /\ m \in 1..Len(appended) /\ \A i \in m..Len(appended) : appended[i] \in S
    BY <1>1, <1>3, <2>1a, <2>1b
  <2>3. Len(SubSeq(appended, m, Len(appended))) = Len(appended) - m + 1
    BY <1>1, <1>3, <2>1, <2>2, SubSeqProperties
  <2>4. Len(receipts') = MaxReceipts  BY <1>1, <1>3, <1>4, <2>1, <2>3 DEF Trimmed
  <2>. QED  BY <2>4
<1>6. receipts' = appended  BY <1>4, <1>5 DEF Trimmed
<1>7. 1..Len(receipts) \subseteq 1..Len(receipts') /\ Len(receipts) + 1 \in 1..Len(receipts')
  BY <1>1, <1>3, <1>6
<1>8. HasReceipt(op.task)'
  <2>1. receipts'[Len(receipts) + 1].task = op.task  BY <1>3, <1>6
  <2>2. op' = op  BY DEF AppendReceipt
  <2>. QED  BY <1>7, <2>1, <2>2 DEF HasReceipt
<1>9. \A t : HasReceipt(t) => HasReceipt(t)'  BY <1>3, <1>6, <1>7 DEF HasReceipt
<1>10. Len(receipts) < MaxReceipts  BY <1>1, <1>3, <1>5
<1>. QED  BY <1>8, <1>9, <1>10

LEMMA ReceiptsStep ==
  ASSUME QueueInv, ReceiptsInv, Next
  PROVE  ReceiptsInv'
<1>. SUFFICES ASSUME Faulty = {}, Len(receipts') < MaxReceipts
              PROVE  /\ \A t \in accepted' : Stored(t)' \/ HasReceipt(t)'
                     /\ step' = "persist" /\ op'.name \in Outcomes => HasReceipt(op.task)'
  BY DEF ReceiptsInv
<1>0. TypeOK /\ OpInv /\ FilesInv  BY DEF QueueInv
<1>. USE DEF Stored, files, history, counters, Outcomes
<1>1. ASSUME UNCHANGED <<receipts, accepted>>,
             \A t \in Tasks : queueFile'[t].status = queueFile[t].status,
             \/ step' # "persist" \/ op'.name \notin Outcomes
             \/ UNCHANGED <<step, op>>
      PROVE  ReceiptsInv'
  BY <1>0, <1>1 DEF ReceiptsInv, HasReceipt, TypeOK
<1>2. ASSUME NEW t \in Tasks, BackoffElapses(t) \/ GoesStale(t) PROVE ReceiptsInv'
  BY <1>0, <1>1, <1>2, ElapseFacts DEF BackoffElapses, GoesStale
<1>3. ASSUME NEW t \in Tasks, Enqueue(t) \/ Ages(t) PROVE ReceiptsInv'
  BY <1>1, <1>3 DEF Enqueue, Ages, Owe
<1>4. ASSUME NEW w \in Workers, Dequeue(w) PROVE ReceiptsInv'
  BY <1>1, <1>4 DEF Dequeue, Owe
<1>8. ASSUME NEW w \in Workers, Complete(w) PROVE ReceiptsInv'
  BY <1>1, <1>8 DEF Complete, Owe
<1>9. ASSUME NEW w \in Workers, NEW kind \in Kinds, Fail(w, kind) PROVE ReceiptsInv'
  <2>1. CASE Buries(inflight[w], kind)  BY <1>1, <1>9, <2>1 DEF Fail, Owe
  <2>2. CASE ~Buries(inflight[w], kind)  BY <1>1, <1>9, <2>2 DEF Fail, Owe
  <2>. QED  BY <2>1, <2>2
<1>10. ASSUME NEW w \in Workers, NEW finished \in BOOLEAN, NotFound(w, finished)
       PROVE  ReceiptsInv'
  BY <1>1, <1>10 DEF NotFound
<1>5. ASSUME RecoverStale PROVE ReceiptsInv'  BY <1>1, <1>5 DEF RecoverStale, Owe
<1>11. ASSUME RetryDeadLetters PROVE ReceiptsInv'  BY <1>1, <1>11 DEF RetryDeadLetters, Owe
<1>12. ASSUME AppendDeadLetter PROVE ReceiptsInv'  BY <1>1, <1>12 DEF AppendDeadLetter
<1>13. ASSUME RewriteDeadLetters PROVE ReceiptsInv'  BY <1>1, <1>13 DEF RewriteDeadLetters
<1>14. ASSUME Start PROVE ReceiptsInv'
  <2>1. CASE \E t \in Tasks : Stale(t)  BY <1>1, <1>14, <2>1 DEF Start, Owe
  <2>2. CASE ~\E t \in Tasks : Stale(t)  BY <1>1, <1>14, <2>2 DEF Start
  <2>. QED  BY <2>1, <2>2
<1>15. ASSUME Stop PROVE ReceiptsInv'  BY <1>1, <1>15 DEF Stop
<1>16. ASSUME Crash PROVE ReceiptsInv'  BY <1>1, <1>16 DEF Crash
<1>17. ASSUME Load PROVE ReceiptsInv'  BY <1>1, <1>17 DEF Load
<1>6. CASE AppendReceipt
  <2>1. /\ Len(receipts) < MaxReceipts /\ HasReceipt(op.task)'
        /\ \A t : HasReceipt(t) => HasReceipt(t)'
    BY <1>0, <1>6, AppendReceiptFacts
  <2>2. UNCHANGED <<queueFile, op, accepted>>  BY <1>6 DEF AppendReceipt
  <2>. QED  BY <2>1, <2>2 DEF ReceiptsInv
<1>7. CASE Persist
  <2>1. /\ step = "persist" /\ Up /\ queueFile' = tasks /\ step' # "persist"
        /\ UNCHANGED <<receipts, tasks>>
        /\ accepted' = IF op.name = "enqueue" THEN accepted \cup {op.task} ELSE accepted
    BY <1>0, <1>7 DEF Persist, OpInv, LockFree
  <2>2. \A t : HasReceipt(t)' <=> HasReceipt(t)  BY <2>1 DEF HasReceipt
  <2>3. op.name = "enqueue" => Active(op.task)  BY <1>0 DEF OpInv
  <2>4. ASSUME NEW t \in Tasks, t \in accepted, ~Active(t) PROVE HasReceipt(t)
    <3>1. CASE Stored(t)
      <4>1. op.name \in Outcomes /\ op.task = t  BY <1>0, <2>1, <2>4, <3>1 DEF FilesInv
      <4>. QED  BY <2>1, <4>1 DEF ReceiptsInv
    <3>2. CASE ~Stored(t)  BY <2>1, <2>4, <3>2 DEF ReceiptsInv
    <3>. QED  BY <3>1, <3>2
  <2>. QED  BY <1>0, <2>1, <2>2, <2>3, <2>4 DEF Active, TypeOK
<1>. QED  BY <1>2, <1>3, <1>4, <1>5, <1>6, <1>7, <1>8, <1>9, <1>10, <1>11, <1>12, <1>13,
             <1>14, <1>15, <1>16, <1>17 DEF Next, Write, ReceiptsInv

\* While file writes succeed and no receipt was trimmed away, a task that has left
\* queue.jsonl has its receipt, so a waiter that polls finds the outcome.
THEOREM OutcomesVisible == Spec => []OutcomeVisible
<1>1. Init => ReceiptsInv  BY DEF Init, ReceiptsInv
<1>2. QueueInv /\ ReceiptsInv /\ [Next]_vars => ReceiptsInv'
  <2>1. CASE UNCHANGED vars
    BY <2>1 DEF vars, files, history, ReceiptsInv, Stored, HasReceipt
  <2>. QED  BY <2>1, ReceiptsStep
<1>3. ReceiptsInv => OutcomeVisible  BY DEF ReceiptsInv, OutcomeVisible
<1>. QED  BY <1>1, <1>2, <1>3, QueueInvariant, PTL DEF Spec

-----------------------------------------------------------------------------
(* Executions                                                               *)

\* No line of the dead-letter file names the task of another.
LinesDiffer == \A i, j \in 1..Len(deadLetters) : deadLetters[i] = deadLetters[j] => i = j

\* While no process died and no execution outlasts the stale timeout: what is executed is
\* running, fresh and nobody else's; what is parked is neither executed nor, but for what
\* is being revived, active.
ExecutionInv ==
    (crashes = 0 /\ ~Slow) =>
        /\ Up
        /\ \A w \in Workers : inflight[w] # NoTask =>
              Running(inflight[w]) /\ tasks[inflight[w]].fresh /\ ~InDeadLetters(inflight[w])
        /\ \A v, w \in Workers : inflight[v] = inflight[w] /\ inflight[v] # NoTask => v = w
        /\ \A t \in Tasks : Active(t) \/ InDeadLetters(t) \/ t \in executed => t \in submitted
        /\ \A t \in executed : ~Active(t) /\ ~InDeadLetters(t)
        /\ \A t \in Tasks : Active(t) /\ InDeadLetters(t) => op.name = "revive" /\ t \in Revived
        /\ LinesDiffer
        /\ step = "dead_letter" =>
              ~InDeadLetters(op.task) /\ op.task \notin executed /\ op.task \in submitted

LEMMA LinesAppended ==
  ASSUME TypeOK, LinesDiffer, op.task \in Tasks, ~InDeadLetters(op.task),
         deadLetters' = Append(deadLetters, op.task)
  PROVE  LinesDiffer'
<1>1. /\ deadLetters \in Seq(Tasks) /\ Len(deadLetters) \in Nat  BY LenProperties DEF TypeOK
<1>2. /\ Len(deadLetters') = Len(deadLetters) + 1
      /\ \A i \in 1..Len(deadLetters) : deadLetters'[i] = deadLetters[i]
      /\ deadLetters'[Len(deadLetters) + 1] = op.task
  BY <1>1, AppendProperties
<1>3. ASSUME NEW i \in 1..Len(deadLetters'), NEW j \in 1..Len(deadLetters'),
             deadLetters'[i] = deadLetters'[j], i # j
      PROVE  FALSE
  <2>1. CASE i \in 1..Len(deadLetters) /\ j \in 1..Len(deadLetters)
    BY <1>2, <1>3, <2>1 DEF LinesDiffer
  <2>2. CASE i = Len(deadLetters) + 1 /\ j \in 1..Len(deadLetters)
    BY <1>2, <1>3, <2>2 DEF InDeadLetters
  <2>3. CASE j = Len(deadLetters) + 1 /\ i \in 1..Len(deadLetters)
    BY <1>2, <1>3, <2>3 DEF InDeadLetters
  <2>. QED  BY <1>1, <1>2, <1>3, <2>1, <2>2, <2>3
<1>. QED  BY <1>3 DEF LinesDiffer

\* Shortening the file takes out the revived tasks, and leaves the others' lines.
LEMMA LinesDropped ==
  ASSUME TypeOK, LinesDiffer, deadLetters' = SubSeq(deadLetters, Taken + 1, Len(deadLetters))
  PROVE  LinesDiffer' /\ \A t \in Revived : ~InDeadLetters(t)'
<1>1. /\ deadLetters \in Seq(Tasks) /\ Len(deadLetters) \in Nat
      /\ Taken \in 0..Len(deadLetters)
      /\ \A i \in 1..Len(deadLetters) : deadLetters[i] \in Tasks
  BY LenProperties, TakenLines, ElementOfSeq DEF TypeOK
<1>. DEFINE rest == SubSeq(deadLetters, Taken + 1, Len(deadLetters))
<1>2. /\ Len(rest) = IF Taken + 1 <= Len(deadLetters)
                     THEN Len(deadLetters) - (Taken + 1) + 1 ELSE 0
      /\ \A i \in 1..(Len(deadLetters) - (Taken + 1) + 1) :
            rest[i] = deadLetters[(Taken + 1) + i - 1]
  <2>1. \A i \in (Taken + 1)..Len(deadLetters) : deadLetters[i] \in Tasks  BY <1>1
  <2>. QED  BY <1>1, <2>1, SubSeqProperties
<1>3. Len(rest) = Len(deadLetters) - Taken  BY <1>1, <1>2
<1>4. \A i \in 1..Len(rest) : rest[i] = deadLetters[Taken + i]  BY <1>1, <1>2, <1>3
<1>5. deadLetters' = rest  OBVIOUS
<1>. HIDE DEF rest
<1>6. \A i \in 1..Len(rest) : Taken + i \in 1..Len(deadLetters) /\ Taken + i \notin 1..Taken
  BY <1>1, <1>3
<1>7. ASSUME NEW i \in 1..Len(rest), NEW j \in 1..Len(rest), rest[i] = rest[j] PROVE i = j
  <2>1. Taken + i = Taken + j  BY <1>4, <1>6, <1>7 DEF LinesDiffer
  <2>. QED  BY <1>1, <1>3, <2>1
<1>8. ASSUME NEW k \in 1..Taken, NEW i \in 1..Len(rest), rest[i] = deadLetters[k] PROVE FALSE
  <2>1. k \in 1..Len(deadLetters)  BY <1>1
  <2>2. Taken + i = k  BY <1>4, <1>6, <1>8, <2>1 DEF LinesDiffer
  <2>. QED  BY <1>6, <2>2
<1>. QED  BY <1>5, <1>7, <1>8 DEF LinesDiffer, InDeadLetters, Revived

LEMMA ExecutionStep ==
  ASSUME TypeOK, OpInv, ExecutionInv, "dead_letter" \notin Faulty, Next
  PROVE  ExecutionInv'
<1>. SUFFICES ASSUME crashes' = 0, ~Slow PROVE ExecutionInv'
  BY DEF ExecutionInv
<1>. USE DEF Up, LockFree, Active, Running, Set, Owe, Idle, files, history, counters
<1>0. /\ tasks \in [Tasks -> Records] /\ inflight \in [Workers -> Tasks \cup {NoTask}]
      /\ op \in [name : OpNames, task : Tasks \cup {NoTask}]
      /\ submitted \subseteq Tasks /\ executed \subseteq Tasks /\ crashes \in Nat
      /\ NoTask \notin Tasks
  BY DEF TypeOK
<1>1. UNCHANGED deadLetters =>
        Revived' = Revived /\ LinesDiffer' = LinesDiffer
        /\ \A t : InDeadLetters(t)' <=> InDeadLetters(t)
  BY SameDeadLetters DEF LinesDiffer
<1>2. ASSUME NEW t \in Tasks, Enqueue(t) PROVE ExecutionInv'
  <2>0. crashes = 0  BY <1>2 DEF Enqueue
  <2>1. /\ tasks' = [tasks EXCEPT ![t] =
              [status |-> "pending", attempt |-> 0, waiting |-> FALSE, fresh |-> TRUE]]
        /\ UNCHANGED <<deadLetters, inflight, consumer, executed>>
        /\ submitted' = submitted \cup {t} /\ t \notin submitted
        /\ op' = [name |-> "enqueue", task |-> t] /\ step' = "persist" /\ op = Idle
    BY <1>2 DEF Enqueue, OpInv
  <2>2. \A u \in Tasks : u # t => tasks'[u] = tasks[u]  BY <1>0, <2>1
  <2>3. ~InDeadLetters(t) /\ t \notin executed /\ \A w \in Workers : inflight[w] # t
    BY <2>0, <2>1, <1>0 DEF ExecutionInv
  <2>. QED  BY <1>0, <1>1, <2>0, <2>1, <2>2, <2>3 DEF ExecutionInv
<1>3. ASSUME NEW t \in Tasks, BackoffElapses(t) PROVE ExecutionInv'
  <2>1. Elapse(t, "waiting")  BY <1>3 DEF BackoffElapses
  <2>2. /\ \A u \in Tasks : tasks'[u].status = tasks[u].status
        /\ UNCHANGED <<deadLetters, op, step, consumer, inflight, executed, submitted, crashes>>
    BY <2>1, ElapseFacts
  <2>3. \A u \in Tasks : tasks'[u].fresh = tasks[u].fresh
    BY <1>0, <2>1 DEF Elapse, Records
  <2>. QED  BY <1>0, <1>1, <2>2, <2>3 DEF ExecutionInv
<1>4. ASSUME NEW t \in Tasks, GoesStale(t) PROVE ExecutionInv'
  <2>1. Elapse(t, "fresh") /\ \A w \in Workers : inflight[w] # t
    BY <1>4 DEF GoesStale, Executing
  <2>2. /\ \A u \in Tasks : tasks'[u].status = tasks[u].status
        /\ UNCHANGED <<deadLetters, op, step, consumer, inflight, executed, submitted, crashes>>
    BY <2>1, ElapseFacts
  <2>3. \A u \in Tasks : u # t => tasks'[u] = tasks[u]  BY <1>0, <2>1 DEF Elapse
  <2>. QED  BY <1>0, <1>1, <2>1, <2>2, <2>3 DEF ExecutionInv
<1>5. ASSUME NEW t \in Tasks, Ages(t) PROVE ExecutionInv'
  BY <1>1, <1>5 DEF Ages, ExecutionInv
<1>6. ASSUME NEW w \in Workers, Dequeue(w) PROVE ExecutionInv'
  <2>1. PICK t \in Tasks :
          /\ tasks[t].status = "pending"
          /\ tasks' = [tasks EXCEPT ![t] = [tasks[t] EXCEPT !.status = "running",
                                                             !.attempt = @ + 1, !.fresh = TRUE]]
          /\ inflight' = [inflight EXCEPT ![w] = t]
          /\ op' = [name |-> "dequeue", task |-> t] /\ step' = "persist" /\ op = Idle
          /\ UNCHANGED <<deadLetters, consumer, executed, submitted, crashes>>
    BY <1>6 DEF Dequeue, Ready, OpInv
  <2>2. \A u \in Tasks : u # t => tasks'[u] = tasks[u]  BY <1>0, <2>1
  <2>3. tasks'[t].status = "running" /\ tasks'[t].fresh
    BY <1>0, <2>1 DEF Records
  <2>4. ~InDeadLetters(t) /\ t \notin executed /\ t \in submitted
        /\ \A v \in Workers : inflight[v] # t
    BY <1>0, <2>1 DEF ExecutionInv
  <2>5. inflight'[w] = t /\ \A v \in Workers : v # w => inflight'[v] = inflight[v]
    BY <1>0, <2>1
  <2>6. \A v \in Workers : inflight'[v] # NoTask =>
          /\ tasks'[inflight'[v]].status = "running" /\ tasks'[inflight'[v]].fresh
          /\ ~InDeadLetters(inflight'[v])
    BY <1>0, <2>1, <2>2, <2>3, <2>4, <2>5 DEF ExecutionInv
  <2>7. \A u \in Tasks : tasks'[u].status # "absent" <=> tasks[u].status # "absent"
    BY <2>1, <2>2, <2>3
  <2>. QED  BY <1>0, <1>1, <2>1, <2>4, <2>5, <2>6, <2>7 DEF ExecutionInv
<1>7. ASSUME NEW w \in Workers, NEW t \in Tasks, t = inflight[w], LockFree, crashes = 0,
             inflight' = [inflight EXCEPT ![w] = NoTask],
             \A u \in Tasks : u # t => tasks'[u] = tasks[u],
             step' # "dead_letter" \/ op'.task = t,
             step' = "dead_letter" => UNCHANGED executed,
             \/ tasks'[t].status = "absent" /\ executed' \in {executed, executed \cup {t}}
             \/ tasks'[t].status = "pending" /\ UNCHANGED executed,
             UNCHANGED <<deadLetters, consumer, submitted>>
      PROVE  ExecutionInv'
  <2>0. op = Idle  BY <1>7 DEF OpInv
  <2>1. /\ tasks[t].status = "running" /\ ~InDeadLetters(t) /\ t \in submitted
        /\ t \notin executed
        /\ \A v \in Workers : v # w => inflight[v] # t
    BY <1>0, <1>7 DEF ExecutionInv
  <2>2. inflight'[w] = NoTask /\ \A v \in Workers : v # w => inflight'[v] = inflight[v]
    BY <1>0, <1>7
  <2>3. \A v \in Workers : inflight'[v] # NoTask =>
          /\ tasks'[inflight'[v]].status = "running" /\ tasks'[inflight'[v]].fresh
          /\ ~InDeadLetters(inflight'[v])
    BY <1>0, <1>7, <2>1, <2>2 DEF ExecutionInv
  <2>4. \A u \in Tasks : tasks'[u].status # "absent" => tasks[u].status # "absent"
    BY <1>7, <2>1
  <2>5. \A u \in executed' : tasks'[u].status = "absent" /\ ~InDeadLetters(u)
    BY <1>0, <1>7, <2>1 DEF ExecutionInv
  <2>6. executed' \subseteq submitted /\ \A u \in Tasks : ~(tasks'[u].status # "absent" /\ InDeadLetters(u))
    BY <1>0, <1>7, <2>0, <2>1, <2>4 DEF ExecutionInv
  <2>. QED  BY <1>0, <1>1, <1>7, <2>1, <2>2, <2>3, <2>4, <2>5, <2>6 DEF ExecutionInv
<1>8. ASSUME NEW w \in Workers, Complete(w) PROVE ExecutionInv'
  <2>. DEFINE t == inflight[w]
  <2>1. /\ t \in Tasks /\ LockFree /\ crashes = 0 /\ inflight' = [inflight EXCEPT ![w] = NoTask]
        /\ tasks' = [tasks EXCEPT ![t] = Absent] /\ step' = "receipt"
        /\ executed' = executed \cup {t}
        /\ UNCHANGED <<deadLetters, consumer, submitted>>
    BY <1>0, <1>8 DEF Complete
  <2>2. tasks'[t].status = "absent" /\ \A u \in Tasks : u # t => tasks'[u] = tasks[u]
    BY <1>0, <2>1 DEF Absent
  <2>. QED  BY <1>7, <2>1, <2>2
<1>9. ASSUME NEW w \in Workers, NEW finished \in BOOLEAN, NotFound(w, finished)
      PROVE  ExecutionInv'
  BY <1>0, <1>9 DEF NotFound, ExecutionInv
<1>10. ASSUME NEW w \in Workers, NEW kind \in Kinds, Fail(w, kind) PROVE ExecutionInv'
  <2>. DEFINE t == inflight[w]
              left == IF kind = "throttled" THEN Refunded(t) ELSE tasks[t].attempt
  <2>1. /\ t \in Tasks /\ LockFree /\ crashes = 0 /\ inflight' = [inflight EXCEPT ![w] = NoTask]
        /\ UNCHANGED <<deadLetters, consumer, submitted, executed>>
    BY <1>0, <1>10 DEF Fail
  <2>2. \/ /\ tasks' = [tasks EXCEPT ![t] = Absent]
           /\ op' = [name |-> "bury", task |-> t] /\ step' = "dead_letter"
        \/ /\ step' = "persist"
           /\ tasks' = [tasks EXCEPT ![t] =
                 [status |-> "pending", attempt |-> left, waiting |-> TRUE, fresh |-> TRUE]]
    BY <1>10 DEF Fail
  <2>. HIDE DEF left
  <2>3. \A u \in Tasks : u # t => tasks'[u] = tasks[u]  BY <1>0, <2>1, <2>2
  <2>4. CASE step' = "dead_letter" /\ op'.task = t /\ tasks'[t].status = "absent"
    BY <1>7, <2>1, <2>3, <2>4
  <2>5. CASE step' = "persist" /\ tasks'[t].status = "pending"
    BY <1>7, <2>1, <2>3, <2>5
  <2>. QED  BY <1>0, <2>1, <2>2, <2>4, <2>5 DEF Absent
<1>11. \A t \in Tasks : /\ Recovered[t].status # "absent" <=> tasks[t].status # "absent"
                        /\ tasks[t].fresh => Recovered[t] = tasks[t]
  <2>1. ASSUME NEW t \in Tasks
        PROVE  /\ Recovered[t].status # "absent" <=> tasks[t].status # "absent"
               /\ tasks[t].fresh => Recovered[t] = tasks[t]
    <3>1. tasks[t] \in Records  BY <1>0
    <3>2. CASE Stale(t)  BY <3>1, <3>2 DEF Recovered, Records, Stale
    <3>3. CASE ~Stale(t)  BY <3>3 DEF Recovered
    <3>. QED  BY <3>2, <3>3
  <2>. QED  BY <2>1
<1>12. ASSUME tasks' \in {tasks, Recovered}, crashes = 0, op = Idle, step' # "dead_letter", consumer' # "down",
              UNCHANGED <<deadLetters, inflight, executed, submitted>>
       PROVE  ExecutionInv'
  BY <1>0, <1>1, <1>11, <1>12 DEF ExecutionInv
<1>13. CASE RecoverStale
  <2>1. op = Idle  BY <1>13 DEF RecoverStale, OpInv
  <2>. QED  BY <1>12, <1>13, <2>1 DEF RecoverStale
<1>14. CASE Start
  <2>1. op = Idle /\ step = "free"  BY <1>14 DEF Start, OpInv
  <2>2. step' # "dead_letter" /\ tasks' \in {tasks, Recovered}  BY <1>14, <2>1 DEF Start
  <2>. QED  BY <1>12, <1>14, <2>1, <2>2 DEF Start
<1>15. CASE Stop  BY <1>1, <1>15 DEF Stop, ExecutionInv
<1>16. CASE Crash  BY <1>0, <1>16 DEF Crash
<1>17. CASE Load  BY <1>17 DEF Load, ExecutionInv
<1>18. CASE RetryDeadLetters
  <2>1. /\ op = Idle /\ crashes = 0 /\ op'.name = "revive" /\ step' = "persist"
        /\ UNCHANGED <<deadLetters, consumer, inflight, executed, submitted>>
        /\ \A t \in Tasks : t \notin Revived => tasks'[t] = tasks[t]
    BY <1>18 DEF RetryDeadLetters, OpInv
  <2>2. Revived \subseteq Tasks /\ \A t \in Revived : InDeadLetters(t)  BY TakenLines
  <2>3. \A t \in Tasks : tasks'[t].status # "absent" => tasks[t].status # "absent" \/ t \in Revived
    BY <2>1
  <2>. QED  BY <1>0, <1>1, <2>1, <2>2, <2>3 DEF ExecutionInv
<1>19. CASE AppendDeadLetter
  <2>1. /\ step = "dead_letter" /\ step' = "receipt" /\ op.name = "bury" /\ op.task \in Tasks
        /\ ~Active(op.task) /\ crashes = 0
        /\ deadLetters' = Append(deadLetters, op.task)
        /\ UNCHANGED <<tasks, op, consumer, inflight, executed, submitted>>
    BY <1>19 DEF AppendDeadLetter, OpInv, Outcomes
  <2>2. \A t : InDeadLetters(t)' <=> (t = op.task \/ InDeadLetters(t))
    BY <2>1, AppendFacts
  <2>3. /\ ~InDeadLetters(op.task) /\ op.task \notin executed /\ op.task \in submitted
        /\ LinesDiffer
    BY <2>1 DEF ExecutionInv
  <2>4. LinesDiffer'  BY <2>1, <2>3, LinesAppended
  <2>5. \A t \in Tasks : ~(Active(t) /\ InDeadLetters(t))  BY <2>1 DEF ExecutionInv
  <2>. QED  BY <1>0, <2>1, <2>2, <2>3, <2>4, <2>5 DEF ExecutionInv
<1>20. CASE AppendReceipt
  <2>1. step = "receipt" /\ step' = "persist" /\ crashes = 0
        /\ UNCHANGED <<tasks, deadLetters, op, consumer, inflight, executed, submitted>>
    BY <1>20 DEF AppendReceipt
  <2>. QED  BY <1>1, <2>1 DEF ExecutionInv
<1>21. CASE Persist
  <2>1. /\ op.name = "revive" => UNCHANGED op
        /\ step' # "dead_letter" /\ crashes = 0
        /\ UNCHANGED <<tasks, deadLetters, consumer, inflight, executed, submitted>>
    BY <1>21 DEF Persist
  <2>. QED  BY <1>1, <2>1 DEF ExecutionInv
<1>22. CASE RewriteDeadLetters
  <2>1. /\ step' = "free" /\ op' = Idle /\ crashes = 0
        /\ deadLetters' = SubSeq(deadLetters, Taken + 1, Len(deadLetters))
        /\ UNCHANGED <<tasks, consumer, inflight, executed, submitted>>
    BY <1>22 DEF RewriteDeadLetters
  <2>2. LinesDiffer' /\ \A t \in Revived : ~InDeadLetters(t)'
    BY <2>1, LinesDropped DEF ExecutionInv
  <2>3. \A t \in Tasks : InDeadLetters(t)' => InDeadLetters(t)  BY <2>1, RewriteFacts
  <2>. QED  BY <1>0, <2>1, <2>2, <2>3 DEF ExecutionInv
<1>. QED  BY <1>2, <1>3, <1>4, <1>5, <1>6, <1>8, <1>9, <1>10, <1>13, <1>14, <1>15, <1>16, <1>17,
             <1>18, <1>19, <1>20, <1>21, <1>22 DEF Next, Write

LEMMA ExecutionInvariant ==
  ASSUME "dead_letter" \notin Faulty
  PROVE  Spec => []ExecutionInv
<1>1. Init => ExecutionInv
  BY EmptySeq DEF Init, ExecutionInv, Up, Active, Absent, InDeadLetters, LinesDiffer
<1>2. QueueInv /\ ExecutionInv /\ [Next]_vars => ExecutionInv'
  <2>1. CASE UNCHANGED vars
    BY <2>1 DEF vars, files, history, counters, ExecutionInv, Up, Active, Running, InDeadLetters,
                LinesDiffer, Revived, Taken
  <2>. QED  BY <2>1, ExecutionStep DEF QueueInv
<1>. QED  BY <1>1, <1>2, QueueInvariant, PTL DEF Spec

\* While no process dies, no execution outlasts the stale timeout and the dead-letter file
\* can be written, no two threads ever execute one task.
THEOREM OneExecutor ==
  ASSUME "dead_letter" \notin Faulty PROVE Spec => []ExecutorsExclusive
<1>1. ExecutionInv => ExecutorsExclusive  BY DEF ExecutionInv, ExecutorsExclusive
<1>. QED  BY <1>1, ExecutionInvariant, PTL

\* Nor is a task queued, revived or executed again once it has been executed.
THEOREM NeverExecutedAgain ==
  ASSUME "dead_letter" \notin Faulty PROVE Spec => []ExecutedOnce
<1>1. TypeOK /\ ExecutionInv => ExecutedOnce
  BY DEF TypeOK, ExecutionInv, ExecutedOnce, Executing, Running, Active
<1>. QED  BY <1>1, ExecutionInvariant, TypeCorrect, PTL
=============================================================================
