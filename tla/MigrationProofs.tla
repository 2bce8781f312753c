-------------------------- MODULE MigrationProofs --------------------------
(***************************************************************************)
(* What Migration guarantees for any number of processes and entries, any  *)
(* page size, and any troubles: what a checkpoint file lists has been      *)
(* copied, and a run that ends without an error has left nothing behind.   *)
(* The argument: MigrationInv is inductive.  A run skips only what it      *)
(* found in the checkpoint; every other entry it owes has arrived or is    *)
(* Pending: at hand, being written, or a row after the cursor.             *)
(***************************************************************************)
EXTENDS Migration, TLAPS

\* What a run will still come to.
Pending(run) ==
    {e \in Numbers :
        \/ run.step # "done" /\ e \in run.batch
        \/ run.step = "write" /\ e = run.item
        \/ run.step # "done" /\ run.to = "stdio" /\ (run.step = "fetch" \/ run.more)
           /\ e > run.after}

Promises(run) == run.clean /\ run.limit = 0 /\ ~gap

Sound(p) ==
    LET run == mover[p] IN
    /\ run.seen \subseteq marked[run.to]
    /\ run.step \in {"write", "mark"} => run.item \in Numbers
    /\ run.step = "mark" => run.item \in Arrived(run.to)
    /\ run.to = "stdio" => run.due \subseteq Good
    /\ run.step = "fetch" => run.to = "stdio" /\ run.batch = {}
    /\ run.step # "done" /\ run.more => run.to = "stdio"
    /\ Promises(run) => run.due \subseteq Arrived(run.to) \cup Pending(run)

MigrationInv == MigrationTypeOK /\ MarkedHasArrived /\ \A p \in Movers : Sound(p)

\* Nothing that was embedded, copied or marked is taken back.
Grows ==
    /\ Good \subseteq Good' /\ nodes \subseteq nodes'
    /\ \A d \in Directions : marked[d] \subseteq marked'[d]
    /\ gap => gap'

LEMMA NoRunIsRun == NoRun \in Runs
BY MigrationAssumption DEF NoRun, Runs, Going, Directions, Numbers

LEMMA MigrationInvInit == MigrationInit => MigrationInv
<1>. SUFFICES ASSUME MigrationInit PROVE MigrationInv
  OBVIOUS
<1>1. MigrationTypeOK
  <2>1. branch \subseteq Numbers /\ nodes \subseteq Numbers /\ rows \in [Numbers -> RowKinds]
    BY DEF MigrationInit
  <2>2. marked \in [Directions -> SUBSET Numbers] /\ mover \in [Movers -> Runs]
    BY NoRunIsRun DEF MigrationInit
  <2>3. gap \in BOOLEAN  BY DEF MigrationInit
  <2>4. troubles \in 0..MaxTroubles  BY MigrationAssumption DEF MigrationInit
  <2>. QED  BY <2>1, <2>2, <2>3, <2>4 DEF MigrationTypeOK
<1>2. MarkedHasArrived  BY DEF MigrationInit, MarkedHasArrived
<1>3. ASSUME NEW p \in Movers PROVE Sound(p)
  <2>1. mover[p] = NoRun  BY DEF MigrationInit
  <2>. QED  BY <2>1 DEF Sound, NoRun
<1>. QED  BY <1>1, <1>2, <1>3 DEF MigrationInv

\* A run that does not move is as sound as it was.
LEMMA OtherRuns ==
  ASSUME MigrationInv, Grows, NEW q \in Movers, mover'[q] = mover[q]
  PROVE  Sound(q)'
<1>1. mover[q] \in Runs /\ Sound(q)  BY DEF MigrationInv, MigrationTypeOK
<1>2. Arrived(mover[q].to) \subseteq Arrived(mover[q].to)'
  BY DEF Grows, Arrived
<1>3. marked[mover[q].to] \subseteq marked'[mover[q].to]
  BY <1>1 DEF Grows, Runs
<1>4. Promises(mover[q])' => Promises(mover[q])
  BY DEF Grows, Promises
<1>5. Pending(mover[q])' = Pending(mover[q])  BY DEF Pending
<1>. QED  BY <1>1, <1>2, <1>3, <1>4, <1>5 DEF Sound, Grows

\* So a step of one run need only be followed in that run and in what it writes.
LEMMA OneRun ==
  ASSUME MigrationInv, Grows, MarkedHasArrived', NEW p \in Movers, NEW run \in Runs,
         Becomes(p, run), Sound(p)',
         branch' \subseteq Numbers, rows' \in [Numbers -> RowKinds], nodes' \subseteq Numbers,
         marked' \in [Directions -> SUBSET Numbers],
         gap' \in BOOLEAN, troubles' \in 0..MaxTroubles
  PROVE  MigrationInv'
<1>1. mover' \in [Movers -> Runs]  BY DEF MigrationInv, MigrationTypeOK, Becomes
<1>2. \A q \in Movers \ {p} : mover'[q] = mover[q]  BY DEF MigrationInv, MigrationTypeOK, Becomes
<1>3. \A q \in Movers : Sound(q)'  BY <1>2, OtherRuns
<1>. QED  BY <1>1, <1>3 DEF MigrationInv, MigrationTypeOK

\* The steps that write nothing.
LEMMA QuietStep ==
  ASSUME MigrationInv, NEW p \in Movers, NEW run \in Runs, Becomes(p, run),
         UNCHANGED <<stores, marked>>, gap' \in BOOLEAN, gap => gap',
         troubles' \in 0..MaxTroubles, Sound(p)'
  PROVE  MigrationInv'
<1>1. Grows /\ MarkedHasArrived'
  BY DEF MigrationInv, MarkedHasArrived, Grows, Arrived, Good, stores
<1>2. branch' \subseteq Numbers /\ rows' \in [Numbers -> RowKinds] /\ nodes' \subseteq Numbers
  BY DEF MigrationInv, MigrationTypeOK, stores
<1>3. marked' \in [Directions -> SUBSET Numbers]  BY DEF MigrationInv, MigrationTypeOK
<1>. QED  BY <1>1, <1>2, <1>3, OneRun

LEMMA TroubleCounted ==
  ASSUME MigrationTypeOK, Trouble \/ UNCHANGED troubles
  PROVE  troubles' \in 0..MaxTroubles
BY MigrationAssumption DEF MigrationTypeOK, Trouble

LEMMA StartStep ==
  ASSUME MigrationInv, NEW p \in Movers, NEW d \in Directions, NEW n \in Limits,
         StartMove(p, d, n)
  PROVE  MigrationInv'
<1>. DEFINE run == [NoRun EXCEPT !.step = IF d = "hybrid" THEN "scan" ELSE "fetch", !.to = d,
                                 !.seen = marked[d], !.batch = IF d = "hybrid" THEN branch ELSE {},
                                 !.limit = n, !.due = ToCopy(d)]
<1>1. Becomes(p, run) /\ UNCHANGED <<stores, marked, gap, troubles>>  BY DEF StartMove
<1>2. ToCopy(d) \subseteq Numbers /\ branch \subseteq Numbers /\ marked[d] \subseteq Numbers
  BY DEF MigrationInv, MigrationTypeOK, ToCopy, Good
<1>3. run \in Runs
  BY <1>2, NoRunIsRun, MigrationAssumption DEF Runs, NoRun, Going
<1>4. mover'[p] = run  BY <1>1 DEF Becomes, MigrationInv, MigrationTypeOK
<1>5. Sound(p)'
  <2>1. run.due \subseteq Pending(run)
    BY <1>2, MigrationAssumption DEF Pending, NoRun, Numbers, ToCopy, Directions
  <2>2. run.to = "stdio" => run.due \subseteq Good'
    BY <1>1 DEF NoRun, ToCopy, Good, stores
  <2>3. run.seen \subseteq marked'[run.to] /\ run.step \notin {"write", "mark"}
    BY <1>1 DEF NoRun
  <2>4. /\ run.step = "fetch" => run.to = "stdio" /\ run.batch = {}
        /\ run.more = FALSE
    BY DEF NoRun, Directions
  <2>. HIDE DEF run
  <2>. QED  BY <1>4, <2>1, <2>2, <2>3, <2>4 DEF Sound, Pending
<1>. HIDE DEF run
<1>. QED
  BY <1>1, <1>3, <1>5, QuietStep, TroubleCounted DEF MigrationInv, MigrationTypeOK

LEMMA FetchStep ==
  ASSUME MigrationInv, NEW p \in Movers, FetchPage(p)
  PROVE  MigrationInv'
<1>. DEFINE run == mover[p]
            rest == {e \in Numbers : e > run.after /\ rows[e] # "none"}
<1>1. PICK last \in Numbers \cup {MaxEntries} :
        LET page == {e \in rest : e <= last}
            full == last \in page /\ Cardinality(page) = PageSize
        IN  /\ full \/ (last = MaxEntries /\ Cardinality(page) < PageSize)
            /\ Becomes(p, [run EXCEPT !.step = "scan",
                           !.batch = {e \in page : rows[e] # "broken"},
                           !.short = {e \in page : rows[e] = "short"},
                           !.after = IF full THEN last ELSE @, !.more = full])
  BY DEF FetchPage
<1>. DEFINE page == {e \in rest : e <= last}
            full == last \in page /\ Cardinality(page) = PageSize
            next == [run EXCEPT !.step = "scan", !.batch = {e \in page : rows[e] # "broken"},
                                !.short = {e \in page : rows[e] = "short"},
                                !.after = IF full THEN last ELSE @, !.more = full]
<1>2. /\ run.step = "fetch" /\ run \in Runs /\ Sound(p)
      /\ UNCHANGED <<stores, marked, gap, troubles>>
  BY DEF FetchPage, In, MigrationInv, MigrationTypeOK
<1>3. full \/ last = MaxEntries  BY <1>1
<1>4. Becomes(p, next)  BY <1>1
<1>5. full \in BOOLEAN /\ page \subseteq Numbers /\ last \in 0..MaxEntries
  BY MigrationAssumption DEF Numbers
<1>6. next \in Runs
  <2>. HIDE DEF full, page
  <2>. QED  BY <1>2, <1>5 DEF Runs, Going
<1>7. mover'[p] = next  BY <1>4 DEF Becomes, MigrationInv, MigrationTypeOK
<1>8. \A e \in Numbers : rows[e] = "good" /\ e > run.after
                           => e \in next.batch \/ (full /\ e > last)
  <2>. SUFFICES ASSUME NEW e \in Numbers, rows[e] = "good", e > run.after, ~(full /\ e > last)
                PROVE  e \in page
    BY <1>2 DEF Runs
  <2>1. e <= last  BY <1>3, <1>5, MigrationAssumption DEF Numbers
  <2>. QED  BY <2>1
<1>9. Sound(p)'
  <2>1. /\ next.step = "scan" /\ next.to = run.to /\ next.seen = run.seen /\ next.due = run.due
        /\ next.clean = run.clean /\ next.limit = run.limit /\ next.more = full
        /\ (full => next.after = last)
    BY <1>2 DEF Runs
  <2>2. Good' = Good /\ gap' = gap /\ marked' = marked  BY <1>2 DEF Good, stores
  <2>3. Arrived("stdio")' = nodes /\ Arrived("stdio") = nodes
    BY <1>2 DEF Arrived, stores
  <2>4. /\ run.to = "stdio" /\ run.batch = {} /\ run.due \subseteq Good
        /\ run.seen \subseteq marked[run.to]
        /\ run.clean /\ run.limit = 0 /\ ~gap => \A e \in run.due : e \in nodes \/ e > run.after
    BY <1>2, <2>3 DEF Sound, Pending, Promises
  <2>5. run.due \subseteq Numbers /\ \A e \in run.due : rows[e] = "good"
    BY <2>4 DEF Good
  <2>. HIDE DEF next, run, full, page
  <2>. QED  BY <1>7, <1>8, <2>1, <2>2, <2>3, <2>4, <2>5 DEF Sound, Pending, Promises
<1>. HIDE DEF next, run
<1>. QED
  BY <1>2, <1>4, <1>6, <1>9, QuietStep, TroubleCounted DEF MigrationInv, MigrationTypeOK

\* The steps at an entry: it is skipped, being marked; or it ends the run, or goes wrong, and
\* the run promises nothing any more; or it is the item now.
LEMMA ScanStep ==
  ASSUME MigrationInv, NEW p \in Movers, Scan(p)
  PROVE  MigrationInv'
<1>. DEFINE run == mover[p]
<1>1. /\ run.step = "scan" /\ run \in Runs /\ Sound(p)
      /\ UNCHANGED <<stores, marked, gap, troubles>>
  BY DEF Scan, In, MigrationInv, MigrationTypeOK
<1>2. Good' = Good /\ \A d \in Directions : Arrived(d)' = Arrived(d)
  BY <1>1 DEF Good, Arrived, stores
<1>3. ASSUME NEW next \in Runs, Becomes(p, next), next.step \in {"fetch", "scan", "write", "done"},
             next.seen = run.seen, next.to = run.to, next.due = run.due, next.more = run.more,
             next.step = "fetch" => run.more /\ next.batch = {},
             next.step = "write" => next.item \in Numbers,
             Promises(next) => Promises(run) /\ run.due \subseteq Arrived(run.to) \cup Pending(next)
      PROVE  MigrationInv'
  <2>1. mover'[p] = next  BY <1>3 DEF Becomes, MigrationInv, MigrationTypeOK
  <2>2. run.to \in Directions  BY <1>1 DEF Runs
  <2>3. Promises(next)' = Promises(next) /\ Pending(next)' = Pending(next)
    BY <1>1 DEF Promises, Pending
  <2>4. Arrived(next.to)' = Arrived(run.to) /\ marked'[next.to] = marked[run.to]
    BY <1>1, <1>2, <1>3, <2>2
  <2>5. Promises(next) => next.due \subseteq Arrived(next.to)' \cup Pending(next)
    BY <1>3, <2>4
  <2>6. Sound(p)'
    BY <1>1, <1>2, <1>3, <2>1, <2>3, <2>4, <2>5 DEF Sound
  <2>. QED
    BY <1>1, <1>3, <2>6, QuietStep, TroubleCounted DEF MigrationInv, MigrationTypeOK
<1>4. Promises(run) => run.due \subseteq Arrived(run.to) \cup Pending(run)
  BY <1>1 DEF Sound
<1>5. CASE run.batch = {}
  <2>. DEFINE next == [run EXCEPT !.step = IF run.more THEN "fetch" ELSE "done"]
  <2>1. Becomes(p, next)  BY <1>5 DEF Scan, Following
  <2>2. next \in Runs /\ run.more \in BOOLEAN  BY <1>1 DEF Runs, Going
  <2>3. next.step = "fetch" <=> run.more  BY <1>1, <2>2 DEF Runs
  <2>4. next.step \in {"fetch", "done"}  BY <1>1 DEF Runs
  <2>5. /\ next.seen = run.seen /\ next.to = run.to /\ next.due = run.due
        /\ next.more = run.more /\ next.batch = run.batch /\ next.after = run.after
        /\ next.clean = run.clean /\ next.limit = run.limit
    BY <1>1 DEF Runs
  <2>6. Pending(run) \subseteq Pending(next)
    BY <1>1, <1>5, <2>2, <2>3, <2>4, <2>5 DEF Pending
  <2>7. Promises(next) => Promises(run) /\ run.due \subseteq Arrived(run.to) \cup Pending(next)
    BY <1>4, <2>5, <2>6 DEF Promises
  <2>. HIDE DEF next
  <2>. QED  BY <1>3, <1>5, <2>1, <2>2, <2>3, <2>4, <2>5, <2>7
<1>6. ASSUME run.batch # {} PROVE MigrationInv'
  <2>. DEFINE passed(e) == [run EXCEPT !.batch = @ \ {e}]
              tried(e)  == [passed(e) EXCEPT !.scanned = @ + 1]
              capped    == run.limit > 0 /\ run.scanned >= run.limit
  <2>1. PICK e \in Following(run) :
          \/ e \in run.seen /\ Becomes(p, passed(e))
          \/ e \notin run.seen /\ capped /\ Becomes(p, [run EXCEPT !.step = "done"])
          \/ e \notin run.seen /\ ~capped /\ e \in run.short /\ Becomes(p, Erred(tried(e)))
          \/ e \notin run.seen /\ ~capped /\ e \notin run.short
             /\ Becomes(p, [tried(e) EXCEPT !.step = "write", !.item = e])
    BY <1>6 DEF Scan
  <2>2. e \in run.batch /\ e \in Numbers  BY <1>1 DEF Following, Runs
  <2>3. passed(e) \in Runs /\ passed(e).batch = run.batch \ {e}  BY <1>1 DEF Runs
  <2>4. tried(e) \in Runs
    <3>. HIDE DEF passed
    <3>. QED  BY <2>3 DEF Runs
  <2>5. CASE e \in run.seen /\ Becomes(p, passed(e))
    <3>1. e \in Arrived(run.to)
      BY <1>1, <2>5 DEF Sound, MigrationInv, MarkedHasArrived, Runs
    <3>2. Pending(run) \subseteq Pending(passed(e)) \cup {e}
      BY <1>1, <2>3 DEF Pending, Runs
    <3>3. /\ passed(e).step = "scan" /\ passed(e).seen = run.seen /\ passed(e).to = run.to
          /\ passed(e).due = run.due /\ passed(e).more = run.more
          /\ passed(e).clean = run.clean /\ passed(e).limit = run.limit
      BY <1>1 DEF Runs
    <3>4. Promises(passed(e)) => /\ Promises(run)
                                 /\ run.due \subseteq Arrived(run.to) \cup Pending(passed(e))
      BY <1>4, <3>1, <3>2, <3>3 DEF Promises
    <3>. HIDE DEF passed
    <3>. QED  BY <1>3, <2>3, <2>5, <3>3, <3>4
  <2>6. CASE capped /\ Becomes(p, [run EXCEPT !.step = "done"])
    <3>. DEFINE next == [run EXCEPT !.step = "done"]
    <3>1. next \in Runs  BY <1>1 DEF Runs
    <3>2. /\ next.step = "done" /\ next.seen = run.seen /\ next.to = run.to
          /\ next.due = run.due /\ next.more = run.more /\ next.limit = run.limit
      BY <1>1 DEF Runs
    <3>3. ~Promises(next)  BY <1>1, <2>6, <3>2 DEF Promises, Runs
    <3>4. Becomes(p, next)  BY <2>6
    <3>. HIDE DEF next
    <3>. QED  BY <1>3, <3>1, <3>2, <3>3, <3>4
  <2>7. CASE Becomes(p, Erred(tried(e)))
    <3>. DEFINE next == Erred(tried(e))
    <3>1. next \in Runs
      <4>. HIDE DEF tried
      <4>. QED  BY <2>4 DEF Runs, Erred, Going
    <3>2. /\ next.step = "scan" /\ next.seen = run.seen /\ next.to = run.to
          /\ next.due = run.due /\ next.more = run.more /\ next.clean = FALSE
      BY <1>1 DEF Runs, Erred
    <3>3. ~Promises(next)  BY <3>2 DEF Promises
    <3>4. Becomes(p, next)  BY <2>7
    <3>. HIDE DEF next
    <3>. QED  BY <1>3, <3>1, <3>2, <3>3, <3>4
  <2>8. CASE Becomes(p, [tried(e) EXCEPT !.step = "write", !.item = e])
    <3>. DEFINE next == [tried(e) EXCEPT !.step = "write", !.item = e]
    <3>1. next \in Runs
      <4>1. e \in 0..MaxEntries  BY <2>2, MigrationAssumption DEF Numbers
      <4>. HIDE DEF tried
      <4>. QED  BY <2>4, <4>1 DEF Runs, Going
    <3>2. /\ next.step = "write" /\ next.seen = run.seen /\ next.to = run.to
          /\ next.due = run.due /\ next.more = run.more /\ next.item = e
          /\ next.clean = run.clean /\ next.limit = run.limit
          /\ next.after = run.after /\ next.batch = run.batch \ {e}
      BY <1>1 DEF Runs
    <3>3. Pending(run) \subseteq Pending(next)  BY <1>1, <3>2 DEF Pending
    <3>4. Promises(next) => Promises(run) /\ run.due \subseteq Arrived(run.to) \cup Pending(next)
      BY <1>4, <3>2, <3>3 DEF Promises
    <3>5. Becomes(p, next)  BY <2>8
    <3>. HIDE DEF next
    <3>. QED  BY <1>3, <2>2, <3>1, <3>2, <3>4, <3>5
  <2>. QED  BY <2>1, <2>5, <2>6, <2>7, <2>8
<1>. QED  BY <1>5, <1>6

\* Unreadable threads, failed requests and deaths: the run promises nothing any more.
LEMMA TroubleStep ==
  ASSUME MigrationInv, NEW p \in Movers, FetchFails(p) \/ SkipUnreadable(p) \/ KillMover(p)
  PROVE  MigrationInv'
<1>. DEFINE run == mover[p]
<1>1. /\ run \in Runs /\ Sound(p) /\ gap \in BOOLEAN /\ troubles' \in 0..MaxTroubles
      /\ UNCHANGED <<stores, marked>>
  BY TroubleCounted
  DEF MigrationInv, MigrationTypeOK, FetchFails, SkipUnreadable, KillMover
<1>2. Good' = Good /\ \A d \in Directions : Arrived(d)' = Arrived(d)
  BY <1>1 DEF Good, Arrived, stores
<1>3. CASE FetchFails(p)
  <2>. DEFINE next == [run EXCEPT !.step = "done", !.clean = FALSE]
  <2>1. next \in Runs /\ Becomes(p, next) /\ gap' = gap  BY <1>1, <1>3 DEF Runs, FetchFails
  <2>2. /\ next.step = "done" /\ next.clean = FALSE /\ next.to = run.to
        /\ next.seen = run.seen /\ next.due = run.due
    BY <1>1 DEF Runs
  <2>3. mover'[p] = next  BY <2>1 DEF Becomes, MigrationInv, MigrationTypeOK
  <2>4. Sound(p)'
    <3>. HIDE DEF next
    <3>. QED  BY <1>1, <1>2, <2>2, <2>3 DEF Sound, Promises
  <2>. HIDE DEF next
  <2>. QED  BY <1>1, <2>1, <2>4, QuietStep
<1>4. CASE SkipUnreadable(p)
  <2>1. PICK thread \in SUBSET run.batch \ {{}} : Becomes(p, [run EXCEPT !.batch = @ \ thread])
    BY <1>4 DEF SkipUnreadable
  <2>. DEFINE next == [run EXCEPT !.batch = @ \ thread]
  <2>2. next \in Runs /\ gap' = TRUE  BY <1>1, <1>4 DEF Runs, SkipUnreadable
  <2>3. /\ next.step = "scan" /\ next.to = run.to /\ next.more = run.more
        /\ next.seen = run.seen /\ next.due = run.due
    BY <1>1, <1>4 DEF Runs, SkipUnreadable, In
  <2>4. mover'[p] = next  BY <2>1 DEF Becomes, MigrationInv, MigrationTypeOK
  <2>5. run.step = "scan"  BY <1>4 DEF SkipUnreadable, In
  <2>6. Sound(p)'
    <3>. HIDE DEF next
    <3>. QED  BY <1>1, <1>2, <2>2, <2>3, <2>4, <2>5 DEF Sound, Promises
  <2>. HIDE DEF next
  <2>. QED  BY <1>1, <2>1, <2>2, <2>6, QuietStep DEF next
<1>5. CASE KillMover(p)
  <2>1. Becomes(p, NoRun) /\ gap' = gap  BY <1>5 DEF KillMover
  <2>2. mover'[p] = NoRun  BY <2>1 DEF Becomes, MigrationInv, MigrationTypeOK
  <2>3. Sound(p)'  BY <2>2 DEF Sound, NoRun
  <2>. QED  BY <1>1, <2>1, <2>3, NoRunIsRun, QuietStep
<1>. QED  BY <1>3, <1>4, <1>5

LEMMA UpsertGrows ==
  ASSUME MigrationTypeOK, NEW p \in Movers, mover[p].item \in Numbers, Upsert(p),
         NEW d \in Directions, mover[p].to = d
  PROVE  /\ Good \subseteq Good' /\ nodes \subseteq nodes' /\ mover[p].item \in Arrived(d)'
         /\ branch' \subseteq Numbers /\ rows' \in [Numbers -> RowKinds] /\ nodes' \subseteq Numbers
<1>1. CASE mover[p].to = "hybrid"
  <2>1. rows' = [rows EXCEPT ![mover[p].item] = "good"] /\ UNCHANGED <<branch, nodes>>
    BY <1>1 DEF Upsert
  <2>2. rows' \in [Numbers -> RowKinds]  BY <2>1 DEF MigrationTypeOK, RowKinds
  <2>3. mover[p].item \in Good' /\ Good \subseteq Good'  BY <2>1 DEF Good, MigrationTypeOK
  <2>. QED  BY <1>1, <2>1, <2>2, <2>3 DEF Arrived, MigrationTypeOK
<1>2. CASE mover[p].to # "hybrid"
  BY <1>2 DEF Upsert, Good, Arrived, MigrationTypeOK
<1>. QED  BY <1>1, <1>2

LEMMA ArrivedStays ==
  ASSUME MigrationInv, Good \subseteq Good', nodes \subseteq nodes', marked' = marked
  PROVE  MarkedHasArrived' /\ \A d \in Directions : Arrived(d) \subseteq Arrived(d)'
<1>1. \A d \in Directions : Arrived(d) \subseteq Arrived(d)'  BY DEF Arrived
<1>. QED  BY <1>1 DEF MigrationInv, MarkedHasArrived

LEMMA WriteStep ==
  ASSUME MigrationInv, NEW p \in Movers, WriteNode(p)
  PROVE  MigrationInv'
<1>. DEFINE run == mover[p]
<1>1. /\ run \in Runs /\ Sound(p) /\ MigrationTypeOK /\ run.step = "write"
      /\ run.item \in Numbers /\ run.to \in Directions /\ marked' = marked /\ gap' = gap
  BY DEF MigrationInv, MigrationTypeOK, WriteNode, In, Sound, Runs
<1>2. /\ Good \subseteq Good' /\ nodes \subseteq nodes' /\ branch' \subseteq Numbers
      /\ rows' \in [Numbers -> RowKinds] /\ nodes' \subseteq Numbers
  <2>1. Upsert(p) \/ UNCHANGED stores  BY DEF WriteNode
  <2>2. CASE Upsert(p)  BY <1>1, <2>2, UpsertGrows
  <2>3. CASE UNCHANGED stores  BY <1>1, <2>3 DEF stores, Good, MigrationTypeOK
  <2>. QED  BY <2>1, <2>2, <2>3
<1>3. MarkedHasArrived' /\ \A d \in Directions : Arrived(d) \subseteq Arrived(d)'
  BY <1>1, <1>2, ArrivedStays
<1>4. Grows  BY <1>1, <1>2 DEF Grows
<1>5. marked' \in [Directions -> SUBSET Numbers] /\ gap' \in BOOLEAN
  BY <1>1 DEF MigrationTypeOK
<1>6. troubles' \in 0..MaxTroubles  BY <1>1, TroubleCounted DEF WriteNode
<1>7. CASE Upsert(p) /\ Becomes(p, [run EXCEPT !.step = "mark"])
  <2>. DEFINE next == [run EXCEPT !.step = "mark"]
  <2>1. next \in Runs  BY <1>1 DEF Runs, Going
  <2>2. /\ next.step = "mark" /\ next.to = run.to /\ next.more = run.more /\ next.item = run.item
        /\ next.seen = run.seen /\ next.due = run.due /\ next.batch = run.batch
        /\ next.clean = run.clean /\ next.limit = run.limit /\ next.after = run.after
    BY <1>1 DEF Runs
  <2>3. \A d \in Directions : d = run.to => run.item \in Arrived(d)'
    BY <1>1, <1>7, UpsertGrows
  <2>4. mover'[p] = next /\ Becomes(p, next)
    BY <1>7 DEF Becomes, MigrationInv, MigrationTypeOK
  <2>5. \A e \in Numbers : e \in Pending(run) => e = run.item \/ e \in Pending(next)
    BY <1>1, <2>2 DEF Pending
  <2>6. Promises(next) => \A e \in run.due :
                             e \in Arrived(run.to) \/ e = run.item \/ e \in Pending(next)
    BY <1>1, <2>2, <2>5 DEF Sound, Promises, Pending
  <2>. HIDE DEF next
  <2>7. Pending(mover[p])' = Pending(next)  BY <2>4 DEF Pending
  <2>8. Promises(mover[p])' = Promises(next)  BY <1>1, <2>4 DEF Promises
  <2>9. Sound(p)'
    BY <1>1, <1>2, <1>3, <2>2, <2>3, <2>4, <2>6, <2>7, <2>8 DEF Sound
  <2>. QED
    BY <1>2, <1>3, <1>4, <1>5, <1>6, <2>1, <2>4, <2>9, OneRun
<1>8. CASE Becomes(p, Erred(run))
  <2>. DEFINE next == Erred(run)
  <2>1. next \in Runs  BY <1>1 DEF Runs, Going, Erred
  <2>2. /\ next.step = "scan" /\ next.to = run.to /\ next.more = run.more
        /\ next.seen = run.seen /\ next.due = run.due /\ next.clean = FALSE
    BY <1>1 DEF Runs, Erred
  <2>3. mover'[p] = next /\ Becomes(p, next)
    BY <1>8 DEF Becomes, MigrationInv, MigrationTypeOK
  <2>. HIDE DEF next
  <2>4. ~Promises(mover[p])'  BY <2>2, <2>3 DEF Promises
  <2>5. Sound(p)'
    BY <1>1, <1>2, <2>2, <2>3, <2>4 DEF Sound
  <2>. QED
    BY <1>2, <1>3, <1>4, <1>5, <1>6, <2>1, <2>3, <2>5, OneRun
<1>. QED  BY <1>7, <1>8 DEF WriteNode

LEMMA MarkStep ==
  ASSUME MigrationInv, NEW p \in Movers, MarkDone(p)
  PROVE  MigrationInv'
<1>. DEFINE run == mover[p]
<1>1. /\ run \in Runs /\ Sound(p) /\ MigrationTypeOK /\ run.step = "mark"
      /\ run.item \in Arrived(run.to) /\ run.to \in Directions /\ run.item \in Numbers
      /\ stores' = stores /\ gap' = gap
  BY DEF MigrationInv, MigrationTypeOK, MarkDone, In, Sound, Runs
<1>2. Good' = Good /\ \A d \in Directions : Arrived(d)' = Arrived(d)
  BY <1>1 DEF Good, Arrived, stores
<1>3. troubles' \in 0..MaxTroubles  BY <1>1, TroubleCounted DEF MarkDone
<1>4. CASE /\ marked' = [marked EXCEPT ![run.to] = @ \cup {run.item}]
           /\ Becomes(p, [run EXCEPT !.step = "scan", !.seen = @ \cup {run.item}])
  <2>. DEFINE next == [run EXCEPT !.step = "scan", !.seen = @ \cup {run.item}]
  <2>1. next \in Runs  BY <1>1 DEF Runs, Going
  <2>2. /\ next.step = "scan" /\ next.to = run.to /\ next.more = run.more
        /\ next.seen = run.seen \cup {run.item} /\ next.due = run.due /\ next.batch = run.batch
        /\ next.clean = run.clean /\ next.limit = run.limit /\ next.after = run.after
    BY <1>1 DEF Runs
  <2>3. mover'[p] = next /\ Becomes(p, next)
    BY <1>4 DEF Becomes, MigrationInv, MigrationTypeOK
  <2>4. /\ marked' \in [Directions -> SUBSET Numbers]
        /\ marked'[run.to] = marked[run.to] \cup {run.item}
        /\ \A d \in Directions \ {run.to} : marked'[d] = marked[d]
    BY <1>1, <1>4 DEF MigrationTypeOK
  <2>5. MarkedHasArrived' /\ Grows
    BY <1>1, <1>2, <2>4 DEF MigrationInv, MarkedHasArrived, Grows, stores
  <2>6. Pending(run) \subseteq Pending(next)  BY <1>1, <2>2 DEF Pending
  <2>. HIDE DEF next
  <2>7. Pending(mover[p])' = Pending(next) /\ (Promises(mover[p])' <=> Promises(run))
    BY <1>1, <2>2, <2>3 DEF Pending, Promises
  <2>8. Sound(p)'
    BY <1>1, <1>2, <2>2, <2>3, <2>4, <2>6, <2>7 DEF Sound
  <2>. QED
    BY <1>1, <1>3, <2>1, <2>3, <2>4, <2>5, <2>8, OneRun DEF MigrationTypeOK, stores
<1>5. CASE UNCHANGED marked /\ Becomes(p, Erred(run))
  <2>. DEFINE next == Erred(run)
  <2>1. next \in Runs  BY <1>1 DEF Runs, Going, Erred
  <2>2. /\ next.step = "scan" /\ next.to = run.to /\ next.more = run.more
        /\ next.seen = run.seen /\ next.due = run.due /\ next.clean = FALSE
    BY <1>1 DEF Runs, Erred
  <2>3. mover'[p] = next /\ Becomes(p, next)
    BY <1>5 DEF Becomes, MigrationInv, MigrationTypeOK
  <2>. HIDE DEF next
  <2>4. ~Promises(mover[p])'  BY <2>2, <2>3 DEF Promises
  <2>5. Sound(p)'
    BY <1>1, <1>2, <1>5, <2>2, <2>3, <2>4 DEF Sound
  <2>. QED
    BY <1>1, <1>3, <1>5, <2>1, <2>3, <2>5, QuietStep DEF MigrationTypeOK
<1>. QED  BY <1>4, <1>5 DEF MarkDone

\* What others do only adds to what there is.
LEMMA ElsewhereStep ==
  ASSUME MigrationInv, NEW e \in Numbers, PostElsewhere(e) \/ EmbedElsewhere(e)
  PROVE  MigrationInv'
<1>1. MigrationTypeOK /\ \A q \in Movers : Sound(q)  BY DEF MigrationInv
<1>2. CASE PostElsewhere(e)
  <2>1. /\ branch' = branch \cup {e}
        /\ UNCHANGED <<rows, nodes, marked, gap, troubles>>
    BY <1>2 DEF PostElsewhere
  <2>2. PICK S \in SUBSET {p \in Movers : mover[p].step \in Going /\ mover[p].to = "hybrid"} :
          mover' = [p \in Movers |->
                      IF p \in S THEN [mover[p] EXCEPT !.batch = @ \cup {e}] ELSE mover[p]]
    BY <1>2 DEF PostElsewhere
  <2>3. mover' \in [Movers -> Runs]
    <3>1. ASSUME NEW p \in Movers PROVE [mover[p] EXCEPT !.batch = @ \cup {e}] \in Runs
      <4>1. mover[p] \in Runs  BY <1>1 DEF MigrationTypeOK
      <4>. QED  BY <4>1 DEF Runs
    <3>. QED  BY <1>1, <2>2, <3>1 DEF MigrationTypeOK
  <2>4. MarkedHasArrived' /\ Grows /\ \A d \in Directions : Arrived(d)' = Arrived(d)
    BY <2>1 DEF MigrationInv, MarkedHasArrived, Grows, Arrived, Good
  <2>5. ASSUME NEW q \in Movers PROVE Sound(q)'
    <3>1. CASE q \notin S  BY <2>2, <2>4, <3>1, OtherRuns
    <3>2. CASE q \in S
      <4>. DEFINE run == mover[q]  next == [run EXCEPT !.batch = @ \cup {e}]
      <4>1. /\ run \in Runs /\ run.step \in Going /\ run.to = "hybrid"
            /\ run.step # "fetch" /\ mover'[q] = next
        BY <1>1, <2>2, <3>2 DEF Sound, MigrationTypeOK
      <4>2. /\ next.step = run.step /\ next.to = run.to /\ next.more = run.more
            /\ next.seen = run.seen /\ next.due = run.due /\ next.batch = run.batch \cup {e}
            /\ next.clean = run.clean /\ next.limit = run.limit /\ next.after = run.after
            /\ next.item = run.item
        BY <4>1 DEF Runs
      <4>3. Pending(run) \subseteq Pending(next)  BY <4>2 DEF Pending
      <4>. HIDE DEF next
      <4>4. Pending(mover[q])' = Pending(next) /\ (Promises(mover[q])' <=> Promises(run))
        BY <2>1, <4>1, <4>2 DEF Pending, Promises
      <4>. QED
        BY <1>1, <2>1, <2>4, <4>1, <4>2, <4>3, <4>4 DEF Sound, Directions
    <3>. QED  BY <3>1, <3>2
  <2>. QED  BY <1>1, <2>1, <2>3, <2>4, <2>5 DEF MigrationInv, MigrationTypeOK
<1>3. CASE EmbedElsewhere(e)
  <2>1. /\ rows' = [rows EXCEPT ![e] = "good"]
        /\ UNCHANGED <<branch, nodes, marked, mover, gap, troubles>>
    BY <1>3 DEF EmbedElsewhere
  <2>2. rows' \in [Numbers -> RowKinds] /\ Good \subseteq Good'
    BY <1>1, <2>1 DEF MigrationTypeOK, RowKinds, Good
  <2>3. Grows  BY <2>1, <2>2 DEF Grows
  <2>4. MarkedHasArrived'  BY <2>1, <2>2, ArrivedStays
  <2>5. \A q \in Movers : Sound(q)'  BY <2>1, <2>3, OtherRuns
  <2>. QED  BY <1>1, <2>1, <2>2, <2>4, <2>5 DEF MigrationInv, MigrationTypeOK
<1>. QED  BY <1>2, <1>3

LEMMA MigrationInvStep == MigrationInv /\ [MigrationNext]_migrationVars => MigrationInv'
<1>. SUFFICES ASSUME MigrationInv, [MigrationNext]_migrationVars PROVE MigrationInv'
  OBVIOUS
<1>1. CASE \E e \in Numbers : PostElsewhere(e) \/ EmbedElsewhere(e)
  BY <1>1, ElsewhereStep
<1>2. ASSUME NEW p \in Movers,
             \/ \E d \in Directions, n \in Limits : StartMove(p, d, n)
             \/ FetchPage(p) \/ FetchFails(p) \/ Scan(p) \/ SkipUnreadable(p)
             \/ WriteNode(p) \/ MarkDone(p) \/ KillMover(p)
      PROVE  MigrationInv'
  BY <1>2, StartStep, FetchStep, ScanStep, TroubleStep, WriteStep, MarkStep
<1>3. CASE UNCHANGED migrationVars
  <2>1. /\ branch' = branch /\ rows' = rows /\ nodes' = nodes /\ marked' = marked
        /\ mover' = mover /\ gap' = gap /\ troubles' = troubles
    BY <1>3 DEF migrationVars
  <2>2. Good' = Good  BY <2>1 DEF Good
  <2>3. Grows  BY <2>1, <2>2 DEF Grows
  <2>4. MarkedHasArrived'  BY <2>1, <2>2, ArrivedStays
  <2>5. \A q \in Movers : Sound(q)'  BY <2>1, <2>3, OtherRuns
  <2>. QED  BY <2>1, <2>4, <2>5 DEF MigrationInv, MigrationTypeOK
<1>. QED  BY <1>1, <1>2, <1>3 DEF MigrationNext

\* The runs' knowledge of what is copied and what is left, under every interleaving, failure
\* and death of a run (t1.py:106-464).
THEOREM MigrationInvariant == MigrationSpec => []MigrationInv
BY MigrationInvInit, MigrationInvStep, PTL DEF MigrationSpec

\* "The checkpoint is written AFTER each successful upsert returns" (t1.py:128): what a
\* checkpoint file lists has been copied.
THEOREM CheckpointIsTrue == MigrationSpec => []MarkedHasArrived
<1>1. MigrationInv => MarkedHasArrived  BY DEF MigrationInv
<1>. QED  BY <1>1, MigrationInvariant, PTL

\* A run that ends without errors leaves nothing behind that was there when it started
\* (docs/MIGRATION.md:312), for any number of entries and runs and any page size.
THEOREM CleanRunIsComplete == MigrationSpec => []CleanIsComplete
<1>1. MigrationInv => CleanIsComplete
  BY DEF MigrationInv, MigrationTypeOK, CleanIsComplete, Sound, Promises, Pending, In
<1>. QED  BY <1>1, MigrationInvariant, PTL
=============================================================================
