------------------------ MODULE DecisionPipelineProofs ------------------------
(***************************************************************************)
(* What the two daemons guarantee for any number of entries, any caps, and *)
(* any number of mishaps.  The inductive invariants are DetectorInv, of    *)
(* what is scanned, reported and logged, and ExtractorInv, of what is      *)
(* picked, written and remembered.                                         *)
(***************************************************************************)
EXTENDS DecisionPipeline, FiniteSetTheorems, TLAPS

USE PipelineAssumption
-----------------------------------------------------------------------------
(* Who changes what                                                         *)

LEMMA DetectorLeaves ==
  ASSUME DetectorStep PROVE UNCHANGED <<text, dismissed, extractor>> /\ mishaps' \in {mishaps, mishaps + 1}
BY DEF DetectorStep, ReadEntries, Score, SkipThread, AppendFindings, SaveAudit, Mishap

LEMMA ExtractorLeaves ==
  ASSUME ExtractorStep
  PROVE  /\ UNCHANGED <<text, open, dismissed, keys, seen, found, dstep, lost>>
         /\ \/ UNCHANGED <<audited, auditedDisk, grown>>
            \/ Touched /\ grown' = (dstep = "read")
BY DEF ExtractorStep, PickCandidates, Handle, SkipForGood, Reject, WriteDecision, WriteUnverified,
       FailCounted, FailUncounted, EndTick, Takes, Appends, detector
-----------------------------------------------------------------------------
(* What is scanned, reported and logged                                     *)

DetectorTypes ==
    /\ text \in [Sources -> {"absent", "plain", "candidate"}]
    /\ open \in [Sources -> Nat] /\ dismissed \subseteq Sources
    /\ keys \subseteq Sources /\ seen \subseteq Sources /\ found \subseteq Sources
    /\ audited \in Audits /\ auditedDisk \in Audits
    /\ grown \in BOOLEAN /\ lost \in BOOLEAN
    /\ dstep \in {"waits", "read", "append", "save"}

\* What has a finding is known to have one, unless the keys are still to be read; what is
\* about to be logged has none.
ReportInv ==
    /\ \A e \in Sources : open[e] <= 1
    /\ \A e \in Sources : open[e] > 0 => e \in keys \/ (keys = {} /\ dstep = "waits")
    /\ found \subseteq keys
    /\ \A e \in found : open[e] = 0
    /\ found # {} => dstep = "append"

Known(e) == open[e] > 0 \/ e \in dismissed
AllKnown == \A e \in Candidates : Known(e)

\* What the detector takes for reported is so, or will be at the end of the tick; what it
\* takes for scanned has been.
ScanInv ==
    (Steady /\ ~lost) =>
        /\ \A e \in keys : Known(e) \/ e \in found
        /\ auditedDisk = "current" => AllKnown
        /\ audited = "current" /\ dstep # "append" => AllKnown
        /\ audited = "current" /\ dstep = "append" => \A e \in Candidates : Known(e) \/ e \in found
        /\ dstep = "read" /\ ~grown => Candidates \subseteq seen

DetectorInv == DetectorTypes /\ ReportInv /\ ScanInv

\* A write of the thread makes both records outdated.
LEMMA TouchedFacts ==
  ASSUME DetectorTypes, Touched
  PROVE  audited' \in Audits /\ auditedDisk' \in Audits /\ audited' # "current" /\ auditedDisk' # "current"
BY DEF DetectorTypes, Touched, Outdated, Audits

\* What the detector has found in a tick that was not cut short is all that is new.
LEMMA AllFound ==
  ASSUME NEW fresh \in SUBSET Sources, Reports(fresh), Cuts(fresh, FALSE)
  PROVE  found' = fresh
<1>1. IsFiniteSet(fresh)  BY FS_Subset
<1>2. Cardinality(fresh) \in Nat  BY <1>1, FS_CardinalityType
<1>3. Cardinality(found') = Cardinality(fresh)  BY <1>2 DEF Reports, Cuts, Smaller
<1>. QED  BY <1>1, <1>3, FS_Subset DEF Reports

LEMMA DetectorInvStep ==
  ASSUME DetectorInv, PipelineNext
  PROVE  DetectorInv'
<1>0. DetectorTypes /\ ReportInv /\ ScanInv  BY DEF DetectorInv
<1>1. ASSUME NEW e \in Sources, Post(e)  PROVE DetectorInv'
  <2>1. /\ text' \in [Sources -> {"absent", "plain", "candidate"}] /\ grown' \in BOOLEAN
        /\ grown' = (dstep = "read")
        /\ UNCHANGED <<open, dismissed, keys, seen, found, dstep, lost>>
    BY <1>0, <1>1 DEF Post, DetectorTypes
  <2>2. audited' \in Audits /\ auditedDisk' \in Audits /\ audited' # "current" /\ auditedDisk' # "current"
    BY <1>0, <1>1, TouchedFacts DEF Post
  <2>3. DetectorTypes'  BY <1>0, <2>1, <2>2 DEF DetectorTypes
  <2>4. ReportInv'  BY <1>0, <2>1 DEF ReportInv
  <2>5. ScanInv'  BY <1>0, <2>1, <2>2 DEF ScanInv, Known
  <2>. QED  BY <2>3, <2>4, <2>5 DEF DetectorInv
<1>2. ASSUME NEW e \in Sources, Summarise(e)  PROVE DetectorInv'
  <2>1. /\ text' \in [Sources -> {"absent", "plain", "candidate"}]
        /\ UNCHANGED <<open, dismissed, keys, seen, grown, found, dstep, lost>>
        /\ Steady => dstep # "read"
    BY <1>0, <1>2 DEF Summarise, DetectorTypes
  <2>2. audited' \in Audits /\ auditedDisk' \in Audits /\ audited' # "current" /\ auditedDisk' # "current"
    BY <1>0, <1>2, TouchedFacts DEF Summarise
  <2>3. DetectorTypes'  BY <1>0, <2>1, <2>2 DEF DetectorTypes
  <2>4. ReportInv'  BY <1>0, <2>1 DEF ReportInv
  <2>5. ScanInv'  BY <1>0, <2>1, <2>2 DEF ScanInv, Known
  <2>. QED  BY <2>3, <2>4, <2>5 DEF DetectorInv
<1>3. ASSUME NEW e \in Sources, Acknowledge(e)  PROVE DetectorInv'
  <2>1. /\ open' = [open EXCEPT ![e] = @ - 1] /\ open[e] > 0 /\ dismissed' = dismissed \cup {e}
        /\ UNCHANGED <<text, keys, audited, auditedDisk, seen, grown, found, dstep, lost>>
    BY <1>3 DEF Acknowledge, detector
  <2>2. /\ open' \in [Sources -> Nat]
        /\ \A d \in Sources : open'[d] <= open[d] /\ (d # e => open'[d] = open[d])
    BY <1>0, <2>1 DEF DetectorTypes
  <2>3. DetectorTypes'  BY <1>0, <2>1, <2>2 DEF DetectorTypes
  <2>4. \A d \in Sources : (open'[d] > 0 => open[d] > 0) /\ open'[d] \in Nat /\ open[d] \in Nat
    BY <1>0, <2>2 DEF DetectorTypes
  <2>5. ReportInv'  BY <1>0, <2>1, <2>2, <2>4 DEF ReportInv, DetectorTypes
  <2>6. \A d \in Sources : Known(d) => Known(d)'  BY <2>1, <2>2 DEF Known
  <2>7. Candidates' = Candidates /\ Candidates \subseteq Sources  BY <2>1 DEF Candidates
  <2>8. ScanInv'  BY <1>0, <2>1, <2>6, <2>7 DEF ScanInv, AllKnown, DetectorTypes
  <2>. QED  BY <2>3, <2>5, <2>8 DEF DetectorInv
<1>4. ASSUME ReadEntries  PROVE DetectorInv'
  <2>1. /\ dstep = "waits" /\ dstep' = "read" /\ seen' = Candidates /\ grown' = FALSE
        /\ keys' \in {keys, Open} /\ (keys = {} => keys' = Open)
        /\ UNCHANGED <<text, open, dismissed, audited, auditedDisk, found, lost>>
    BY <1>4 DEF ReadEntries
  <2>2. Open \subseteq Sources /\ Candidates \subseteq Sources  BY DEF Open, Candidates
  <2>3. found = {}  BY <1>0, <2>1 DEF ReportInv
  <2>4. DetectorTypes'  BY <1>0, <2>1, <2>2 DEF DetectorTypes
  <2>5. \A e \in Sources : open[e] > 0 => e \in keys'  BY <1>0, <2>1 DEF ReportInv, Open
  <2>6. ReportInv'  BY <1>0, <2>1, <2>3, <2>5 DEF ReportInv
  <2>7. \A e \in Open : Known(e)  BY DEF Open, Known
  <2>8. ScanInv'
    BY <1>0, <2>1, <2>3, <2>7 DEF ScanInv, Known, AllKnown, Candidates
  <2>. QED  BY <2>4, <2>6, <2>8 DEF DetectorInv
<1>5. ASSUME Score  PROVE DetectorInv'
  <2>1. /\ dstep = "read" /\ audited # "current" /\ Reports(seen \ keys)
        /\ seen' = {} /\ grown' = FALSE
        /\ UNCHANGED <<text, open, dismissed, auditedDisk, lost>>
        /\ dstep' = IF found' = {} THEN "save" ELSE "append"
    BY <1>5 DEF Score
  <2>2. PICK hit \in BOOLEAN : /\ Cuts(seen \ keys, hit)
                               /\ audited' = IF hit THEN audited ELSE IF grown THEN "outdated" ELSE "current"
    BY <1>5 DEF Score
  <2>3. found' \subseteq seen \ keys /\ keys' = keys \cup found'  BY <2>1 DEF Reports
  <2>4. DetectorTypes'  BY <1>0, <2>1, <2>2, <2>3 DEF DetectorTypes, Audits
  <2>5. \A e \in seen \ keys : open[e] = 0  BY <1>0, <2>1 DEF ReportInv, DetectorTypes
  <2>6. ReportInv'  BY <1>0, <2>1, <2>3, <2>5 DEF ReportInv
  <2>7. Candidates' = Candidates /\ \A e : Known(e)' <=> Known(e)  BY <2>1 DEF Candidates, Known
  <2>8. found = {}  BY <1>0, <2>1 DEF ReportInv
  <2>9. ASSUME Steady, ~lost, audited' = "current"
        PROVE  \A e \in Candidates : Known(e) \/ e \in found'
    <3>1. hit = FALSE /\ ~grown  BY <2>1, <2>2, <2>9
    <3>2. found' = seen \ keys  BY <1>0, <2>1, <2>2, <3>1, AllFound DEF DetectorTypes
    <3>3. Candidates \subseteq seen /\ \A e \in keys : Known(e)
      BY <1>0, <2>1, <2>8, <2>9, <3>1 DEF ScanInv
    <3>. QED  BY <3>2, <3>3
  <2>10. ScanInv'
    BY <1>0, <2>1, <2>3, <2>7, <2>8, <2>9 DEF ScanInv, AllKnown
  <2>. QED  BY <2>4, <2>6, <2>10 DEF DetectorInv
<1>6. ASSUME SkipThread  PROVE DetectorInv'
  <2>1. /\ dstep = "read" /\ audited = "current" /\ dstep' = "save" /\ seen' = {} /\ grown' = FALSE
        /\ UNCHANGED <<text, open, dismissed, keys, audited, auditedDisk, found, lost>>
    BY <1>6 DEF SkipThread
  <2>2. DetectorTypes'  BY <1>0, <2>1 DEF DetectorTypes
  <2>3. ReportInv'  BY <1>0, <2>1 DEF ReportInv
  <2>4. ScanInv'  BY <1>0, <2>1 DEF ScanInv, Known, AllKnown, Candidates
  <2>. QED  BY <2>2, <2>3, <2>4 DEF DetectorInv
<1>7. ASSUME AppendFindings  PROVE DetectorInv'
  <2>1. /\ dstep = "append" /\ dstep' = "save" /\ found' = {}
        /\ UNCHANGED <<text, dismissed, keys, audited, auditedDisk, seen, grown>>
    BY <1>7 DEF AppendFindings
  <2>2. CASE /\ open' = [e \in Sources |-> IF e \in found THEN open[e] + 1 ELSE open[e]]
             /\ lost' = lost
    <3>1. /\ open' \in [Sources -> Nat]
          /\ \A e \in Sources : open'[e] = IF e \in found THEN 1 ELSE open[e]
      BY <1>0, <2>2 DEF DetectorTypes, ReportInv
    <3>2. DetectorTypes'  BY <1>0, <2>1, <2>2, <3>1 DEF DetectorTypes
    <3>3. ReportInv'  BY <1>0, <2>1, <3>1 DEF ReportInv
    <3>4. \A e \in Sources : Known(e)' <=> Known(e) \/ e \in found
      BY <1>0, <2>1, <3>1 DEF Known, DetectorTypes
    <3>5. Candidates' = Candidates /\ Candidates \subseteq Sources  BY <2>1 DEF Candidates
    <3>6. ScanInv'  BY <1>0, <2>1, <2>2, <3>4, <3>5 DEF ScanInv, AllKnown, DetectorTypes
    <3>. QED  BY <3>2, <3>3, <3>6 DEF DetectorInv
  <2>3. CASE lost' = TRUE /\ open' = open
    <3>1. DetectorTypes'  BY <1>0, <2>1, <2>3 DEF DetectorTypes
    <3>2. ReportInv'  BY <1>0, <2>1, <2>3 DEF ReportInv
    <3>3. ScanInv'  BY <2>3 DEF ScanInv
    <3>. QED  BY <3>1, <3>2, <3>3 DEF DetectorInv
  <2>. QED  BY <1>7, <2>2, <2>3 DEF AppendFindings
<1>8. ASSUME SaveAudit  PROVE DetectorInv'
  <2>1. /\ dstep = "save" /\ dstep' = "waits" /\ auditedDisk' \in {audited, auditedDisk}
        /\ UNCHANGED <<text, open, dismissed, keys, audited, seen, grown, found, lost>>
    BY <1>8 DEF SaveAudit
  <2>2. DetectorTypes'  BY <1>0, <2>1 DEF DetectorTypes
  <2>3. ReportInv'  BY <1>0, <2>1 DEF ReportInv
  <2>4. ScanInv'  BY <1>0, <2>1 DEF ScanInv, Known, AllKnown, Candidates
  <2>. QED  BY <2>2, <2>3, <2>4 DEF DetectorInv
<1>9. ASSUME UNCHANGED <<text, open, dismissed, keys, seen, found, dstep, lost>>,
             \/ UNCHANGED <<audited, auditedDisk, grown>>
             \/ Touched /\ grown' = (dstep = "read")
      PROVE  DetectorInv'
  <2>1. CASE UNCHANGED <<audited, auditedDisk, grown>>
    BY <1>0, <1>9, <2>1 DEF DetectorInv, DetectorTypes, ReportInv, ScanInv, Known, AllKnown, Candidates
  <2>2. CASE Touched /\ grown' = (dstep = "read")
    <3>1. audited' \in Audits /\ auditedDisk' \in Audits /\ audited' # "current" /\ auditedDisk' # "current"
      BY <1>0, <2>2, TouchedFacts
    <3>2. DetectorTypes'  BY <1>0, <1>9, <2>2, <3>1 DEF DetectorTypes
    <3>3. ReportInv'  BY <1>0, <1>9 DEF ReportInv
    <3>4. ScanInv'  BY <1>0, <1>9, <2>2, <3>1 DEF ScanInv, Known, Candidates
    <3>. QED  BY <3>2, <3>3, <3>4 DEF DetectorInv
  <2>. QED  BY <1>9, <2>1, <2>2
<1>10. ASSUME ExtractorStep  PROVE DetectorInv'  BY <1>9, <1>10, ExtractorLeaves
<1>11. ASSUME Midnight  PROVE DetectorInv'  BY <1>9, <1>11 DEF Midnight, detector
<1>12. ASSUME Restart  PROVE DetectorInv'
  <2>1. /\ keys' = {} /\ audited' = auditedDisk /\ seen' = {} /\ grown' = FALSE /\ found' = {}
        /\ dstep' = "waits" /\ UNCHANGED <<text, open, dismissed, auditedDisk, lost>>
    BY <1>12 DEF Restart
  <2>2. DetectorTypes'  BY <1>0, <2>1 DEF DetectorTypes
  <2>3. ReportInv'  BY <1>0, <2>1 DEF ReportInv
  <2>4. ScanInv'  BY <1>0, <2>1 DEF ScanInv, Known, AllKnown, Candidates
  <2>. QED  BY <2>2, <2>3, <2>4 DEF DetectorInv
<1>. QED  BY <1>1, <1>2, <1>3, <1>4, <1>5, <1>6, <1>7, <1>8, <1>10, <1>11, <1>12
          DEF PipelineNext, DetectorStep

LEMMA DetectorInvariant == PipelineSpec => []DetectorInv
<1>1. PipelineInit => DetectorInv
  <2>. SUFFICES ASSUME PipelineInit PROVE DetectorInv  OBVIOUS
  <2>1. DetectorTypes  BY DEF PipelineInit, DetectorTypes, Audits
  <2>2. ReportInv  BY DEF PipelineInit, ReportInv
  <2>3. ScanInv  BY DEF PipelineInit, ScanInv
  <2>. QED  BY <2>1, <2>2, <2>3 DEF DetectorInv
<1>2. DetectorInv /\ [PipelineNext]_pipelineVars => DetectorInv'
  <2>1. CASE UNCHANGED pipelineVars
    BY <2>1 DEF pipelineVars, detector, DetectorInv, DetectorTypes, ReportInv, ScanInv, Known, AllKnown,
                Candidates
  <2>. QED  BY <2>1, DetectorInvStep
<1>. QED  BY <1>1, <1>2, PTL DEF PipelineSpec

\* The log never holds two open findings about one entry, whatever is scanned again.
THEOREM NeverReportedTwice == PipelineSpec => []ReportedOnce
<1>1. DetectorInv => ReportedOnce  BY DEF DetectorInv, ReportInv, ReportedOnce
<1>. QED  BY <1>1, DetectorInvariant, PTL

\* While no append has failed and no summary comes between the detector's two looks, the
\* thread is passed over only when all its candidates are in the log.
THEOREM SkippedWasReported == PipelineSpec => []SkippedIsReported
<1>1. DetectorInv => SkippedIsReported
  BY DEF DetectorInv, ScanInv, AllKnown, Known, SkippedIsReported, Logged
<1>. QED  BY <1>1, DetectorInvariant, PTL
-----------------------------------------------------------------------------
(* What is picked, written and remembered                                   *)

\* What a mishap may make the extractor forget of the day's count.
Forgets   == Smaller(MaxCandidates, MaxDaily)
Allowance == mishaps * Forgets

ExtractorTypes ==
    /\ cursor \in Cursors /\ cursorDisk \in Cursors
    /\ picked \subseteq Sources /\ finished \subseteq Sources
    /\ xstep \in {"waits", "picked", "working"}
    /\ decisions \in [Sources -> Nat] /\ uncounted \in [Sources -> Nat]
    /\ writtenToday \in Nat /\ mishaps \in 0..MaxMishaps

\* A candidate of the batch is neither done with nor treated in this tick; an entry has
\* been written for once if it is remembered as done with, and once for each mishap.
RememberInv ==
    /\ xstep = "waits" => picked = {} /\ finished = {}
    /\ picked \cap (cursor.done \cup finished) = {}
    /\ \A e \in Sources :
         decisions[e] <= mishaps + (IF e \in cursor.done \cup finished THEN 1 ELSE 0)
    /\ \A e \in Sources : uncounted[e] <= mishaps

\* What the day has room for includes the batch; what the checkpoint on disk does not know
\* of the day is at most one batch for each mishap, and the one in the making.
DailyInv ==
    /\ cursor.today + Cardinality(picked) <= MaxDaily
    /\ writtenToday <= cursor.today + Allowance
    /\ writtenToday + Cardinality(picked)
         <= cursorDisk.today + Allowance + (IF xstep = "waits" THEN 0 ELSE Forgets)

ExtractorInv == ExtractorTypes /\ RememberInv /\ DailyInv

LEMMA AllowanceFacts ==
  ASSUME ExtractorTypes
  PROVE  /\ Forgets \in Nat /\ Forgets >= 1 /\ Forgets <= MaxCandidates /\ Forgets <= MaxDaily
         /\ Allowance \in Nat
         /\ mishaps' = mishaps => Allowance' = Allowance
         /\ mishaps' = mishaps + 1 => Allowance' = Allowance + Forgets
<1>1. Forgets \in Nat /\ Forgets >= 1 /\ Forgets <= MaxCandidates /\ Forgets <= MaxDaily
  BY DEF Forgets, Smaller
<1>2. mishaps \in Nat  BY DEF ExtractorTypes
<1>3. \A m, k \in Nat : m * k \in Nat /\ (m + 1) * k = m * k + k  OBVIOUS
<1>. QED  BY <1>1, <1>2, <1>3 DEF Allowance, Forgets

\* The first n of a set are at most n: each is told by how many are in front of it.
LEMMA ForemostFacts ==
  ASSUME NEW all \in SUBSET Sources, NEW n \in Nat
  PROVE  Foremost(all, n) \subseteq all /\ Cardinality(Foremost(all, n)) <= n
<1>. DEFINE Before(e) == {d \in all : Rank[d] < Rank[e]}
            F == Foremost(all, n)
            place == [e \in F |-> Cardinality(Before(e))]
<1>1. IsFiniteSet(all)  BY FS_Subset
<1>2. \A e \in all : IsFiniteSet(Before(e)) /\ Cardinality(Before(e)) \in Nat
  <2>. SUFFICES ASSUME NEW e \in all PROVE IsFiniteSet(Before(e)) /\ Cardinality(Before(e)) \in Nat
    OBVIOUS
  <2>1. Before(e) \in SUBSET all  OBVIOUS
  <2>2. IsFiniteSet(Before(e))  BY <1>1, <2>1, FS_Subset
  <2>. QED  BY <2>2, FS_CardinalityType
<1>3. \A d, e \in all : Rank[d] < Rank[e] => Cardinality(Before(d)) # Cardinality(Before(e))
  <2>. SUFFICES ASSUME NEW d \in all, NEW e \in all, Rank[d] < Rank[e],
                       Cardinality(Before(d)) = Cardinality(Before(e))
                PROVE  FALSE
    OBVIOUS
  <2>1. \A x \in all : Rank[x] \in Nat  OBVIOUS
  <2>2. Before(d) \in SUBSET Before(e) /\ d \in Before(e) /\ d \notin Before(d)  BY <2>1
  <2>3. Before(d) = Before(e)  BY <1>2, <2>2, FS_Subset
  <2>. QED  BY <2>2, <2>3
<1>4. F \subseteq all /\ \A e \in F : Cardinality(Before(e)) < n  BY DEF Foremost
<1>5. \A e \in F : place[e] \in 0..(n - 1)  BY <1>2, <1>4
<1>6. \A d, e \in F : d # e => place[d] # place[e]
  <2>. SUFFICES ASSUME NEW d \in F, NEW e \in F, d # e PROVE place[d] # place[e]  OBVIOUS
  <2>1. d \in all /\ e \in all /\ Rank[d] \in Nat /\ Rank[e] \in Nat  BY <1>4
  <2>2. Rank[d] < Rank[e] \/ Rank[e] < Rank[d]  BY <2>1
  <2>. QED  BY <1>3, <2>1, <2>2
<1>7. place \in [F -> 0..(n - 1)]  BY <1>5
<1>. HIDE DEF place, Before
<1>8. place \in Injection(F, 0..(n - 1))  BY <1>6, <1>7 DEF Injection, IsInjective
<1>9. IsFiniteSet(0..(n - 1)) /\ Cardinality(0..(n - 1)) = n
  <2>1. Cardinality(0..(n - 1)) = IF 0 > n - 1 THEN 0 ELSE (n - 1) - 0 + 1  BY FS_Interval
  <2>. QED  BY <2>1, FS_Interval
<1>10. Cardinality(F) <= n  BY <1>8, <1>9, FS_Injection
<1>. QED  BY <1>4, <1>10

LEMMA TakesFacts ==
  ASSUME ExtractorInv, NEW e \in Sources, NEW ends \in BOOLEAN, Takes(e, ends)
  PROVE  /\ e \in picked /\ picked' = picked \ {e} /\ Cardinality(picked') = Cardinality(picked) - 1
         /\ Cardinality(picked) \in Nat
         /\ xstep # "waits" /\ xstep' = "working" /\ cursorDisk' = cursorDisk
         /\ finished' = IF ends THEN finished \cup {e} ELSE finished
         /\ e \notin cursor.done \cup finished
<1>1. /\ xstep \in {"picked", "working"} /\ xstep' = "working" /\ Foremost(picked, 1) = {e}
      /\ picked' = picked \ {e} /\ cursorDisk' = cursorDisk
      /\ finished' = IF ends THEN finished \cup {e} ELSE finished
  BY DEF Takes
<1>2. e \in picked  BY <1>1 DEF Foremost
<1>3. IsFiniteSet(picked)  BY FS_Subset DEF ExtractorInv, ExtractorTypes
<1>4. Cardinality(picked \ {e}) = Cardinality(picked) - 1 /\ Cardinality(picked) \in Nat
  BY <1>2, <1>3, FS_RemoveElement, FS_CardinalityType
<1>. QED  BY <1>1, <1>2, <1>4 DEF ExtractorInv, RememberInv

LEMMA ExtractorInvStep ==
  ASSUME ExtractorInv, PipelineNext
  PROVE  ExtractorInv'
<1>0. ExtractorTypes /\ RememberInv /\ DailyInv  BY DEF ExtractorInv
<1>1. /\ cursor \in Cursors /\ cursorDisk \in Cursors
      /\ cursor.done \subseteq Sources /\ cursor.today \in 0..MaxDaily
      /\ cursorDisk.today \in 0..MaxDaily /\ mishaps \in Nat /\ writtenToday \in Nat
      /\ cursor.llm \in [Sources -> 0..LlmTries] /\ cursor.write \in [Sources -> 0..WriteTries]
  BY <1>0 DEF ExtractorTypes, Cursors
<1>2. /\ Forgets \in Nat /\ Forgets >= 1 /\ Forgets <= MaxCandidates /\ Forgets <= MaxDaily
      /\ Allowance \in Nat
      /\ mishaps' = mishaps => Allowance' = Allowance
      /\ mishaps' = mishaps + 1 => Allowance' = Allowance + Forgets
  BY <1>0, AllowanceFacts
<1>3. Cardinality(picked) \in Nat
  BY <1>0, FS_Subset, FS_CardinalityType DEF ExtractorTypes
<1>4. ASSUME Mishap  PROVE mishaps' = mishaps + 1 /\ mishaps' \in 0..MaxMishaps
  BY <1>0, <1>4 DEF Mishap, ExtractorTypes
<1>. HIDE DEF Allowance, Forgets
\* What the extractor has is left alone.
<1>5. ASSUME UNCHANGED extractor, mishaps' = mishaps \/ Mishap
      PROVE  ExtractorInv'
  <2>1. mishaps' \in {mishaps, mishaps + 1} /\ mishaps' \in 0..MaxMishaps
    BY <1>0, <1>4, <1>5 DEF ExtractorTypes
  <2>2. UNCHANGED <<cursor, cursorDisk, picked, finished, xstep, decisions, writtenToday, uncounted>>
    BY <1>5 DEF extractor
  <2>3. ExtractorTypes'  BY <1>0, <2>1, <2>2 DEF ExtractorTypes
  <2>4. RememberInv'
    <3>1. \A e \in Sources : decisions[e] \in Nat /\ uncounted[e] \in Nat  BY <1>0 DEF ExtractorTypes
    <3>. QED  BY <1>0, <1>1, <2>1, <2>2, <3>1 DEF RememberInv
  <2>5. Allowance' \in {Allowance, Allowance + Forgets}  BY <1>2, <2>1
  <2>6. Forgets' = Forgets  BY DEF Forgets
  <2>7. DailyInv'  BY <1>0, <1>1, <1>2, <1>3, <2>2, <2>5, <2>6 DEF DailyInv
  <2>. QED  BY <2>3, <2>4, <2>7 DEF ExtractorInv
<1>6. Forgets' = Forgets  BY DEF Forgets
<1>7. ASSUME DetectorStep  PROVE ExtractorInv'
  <2>1. mishaps' = mishaps \/ Mishap
    BY <1>7 DEF DetectorStep, ReadEntries, Score, SkipThread, AppendFindings, SaveAudit
  <2>. QED  BY <1>5, <1>7, <2>1, DetectorLeaves
<1>8. ASSUME NEW e \in Sources, Post(e) \/ Summarise(e) \/ Acknowledge(e)  PROVE ExtractorInv'
  BY <1>5, <1>8 DEF Post, Summarise, Acknowledge
<1>9. ASSUME PickCandidates  PROVE ExtractorInv'
  <2>. DEFINE n == Smaller(MaxCandidates, Room)
  <2>1. /\ xstep = "waits" /\ xstep' = "picked" /\ picked' = Foremost(Due, n)
        /\ UNCHANGED <<cursor, cursorDisk, finished, decisions, writtenToday, uncounted, mishaps>>
    BY <1>9 DEF PickCandidates
  <2>2. Due \in SUBSET Sources /\ Due \cap cursor.done = {}  BY DEF Due, Open
  <2>3. n \in Nat /\ n <= MaxDaily - cursor.today /\ n <= Forgets
    <3>1. Room \in Nat /\ Room <= MaxDaily /\ Room = MaxDaily - cursor.today  BY <1>1 DEF Room
    <3>. QED  BY <3>1 DEF Smaller, Forgets
  <2>. HIDE DEF n
  <2>4. picked' \subseteq Due /\ Cardinality(picked') <= n  BY <2>1, <2>2, <2>3, ForemostFacts
  <2>5. Cardinality(picked') \in Nat  BY <2>2, <2>4, FS_Subset, FS_CardinalityType
  <2>6. picked = {} /\ finished = {}  BY <1>0, <2>1 DEF RememberInv
  <2>7. ExtractorTypes'  BY <1>0, <2>1, <2>2, <2>4 DEF ExtractorTypes
  <2>8. RememberInv'  BY <1>0, <2>1, <2>2, <2>4, <2>6 DEF RememberInv
  <2>9. Cardinality(picked) = 0  BY <2>6, FS_EmptySet
  <2>10. DailyInv'  BY <1>0, <1>1, <1>2, <1>6, <2>1, <2>3, <2>4, <2>5, <2>9 DEF DailyInv
  <2>. QED  BY <2>7, <2>8, <2>10 DEF ExtractorInv
\* A candidate without a write.
<1>10. ASSUME NEW e \in Sources, NEW ends \in BOOLEAN, Takes(e, ends),
              UNCHANGED <<decisions, writtenToday>>,
              cursor' \in Cursors, cursor'.done = cursor.done, cursor'.today = cursor.today,
              \/ UNCHANGED <<uncounted, mishaps>>
              \/ Mishap /\ uncounted' = [uncounted EXCEPT ![e] = @ + 1]
       PROVE  ExtractorInv'
  <2>1. /\ e \in picked /\ picked' = picked \ {e} /\ Cardinality(picked') = Cardinality(picked) - 1
        /\ xstep # "waits" /\ xstep' = "working" /\ cursorDisk' = cursorDisk
        /\ finished' = IF ends THEN finished \cup {e} ELSE finished
        /\ e \notin cursor.done \cup finished
    BY <1>10, TakesFacts
  <2>2. /\ mishaps' \in {mishaps, mishaps + 1} /\ mishaps' \in 0..MaxMishaps
        /\ uncounted' \in [Sources -> Nat] /\ \A d \in Sources : uncounted'[d] <= mishaps'
    <3>1. CASE UNCHANGED <<uncounted, mishaps>>  BY <1>0, <3>1 DEF ExtractorTypes, RememberInv
    <3>2. CASE Mishap /\ uncounted' = [uncounted EXCEPT ![e] = @ + 1]
      <4>1. mishaps' = mishaps + 1 /\ mishaps' \in 0..MaxMishaps  BY <1>4, <3>2
      <4>2. uncounted \in [Sources -> Nat] /\ \A d \in Sources : uncounted[d] <= mishaps
        BY <1>0 DEF ExtractorTypes, RememberInv
      <4>3. uncounted' \in [Sources -> Nat]
            /\ \A d \in Sources : uncounted'[d] \in {uncounted[d], uncounted[d] + 1}
        BY <3>2, <4>2
      <4>. QED  BY <1>1, <4>1, <4>2, <4>3
    <3>. QED  BY <1>10, <3>1, <3>2
  <2>3. finished' \subseteq Sources /\ finished \subseteq finished'  BY <1>0, <2>1 DEF ExtractorTypes
  <2>4. ExtractorTypes'  BY <1>0, <1>10, <2>1, <2>2, <2>3 DEF ExtractorTypes
  <2>5. RememberInv'
    <3>1. picked' \cap (cursor'.done \cup finished') = {}  BY <1>0, <1>10, <2>1 DEF RememberInv
    <3>2. \A d \in Sources : decisions[d] \in Nat  BY <1>0 DEF ExtractorTypes
    <3>3. \A d \in Sources :
            decisions[d] <= mishaps' + (IF d \in cursor'.done \cup finished' THEN 1 ELSE 0)
      BY <1>0, <1>1, <1>10, <2>2, <2>3, <3>2 DEF RememberInv
    <3>. QED  BY <1>10, <2>1, <2>2, <3>1, <3>3 DEF RememberInv
  <2>6. Allowance' \in {Allowance, Allowance + Forgets}  BY <1>2, <2>2
  <2>7. DailyInv'  BY <1>0, <1>1, <1>2, <1>3, <1>6, <1>10, <2>1, <2>6 DEF DailyInv
  <2>. QED  BY <2>4, <2>5, <2>7 DEF ExtractorInv
<1>11. ASSUME NEW e \in Sources, SkipForGood(e) \/ Reject(e)  PROVE ExtractorInv'
  BY <1>1, <1>10, <1>11 DEF SkipForGood, Reject
<1>12. ASSUME NEW e \in Sources, ~Spent(e), CountsWriteFailure(e)
       PROVE  cursor' \in Cursors /\ cursor'.done = cursor.done /\ cursor'.today = cursor.today
  <2>1. cursor' = [cursor EXCEPT !.write[e] = @ + 1]  BY <1>12 DEF CountsWriteFailure
  <2>2. cursor.write[e] # WriteTries  BY <1>12 DEF Spent
  <2>3. cursor.write[e] + 1 \in 0..WriteTries  BY <1>1, <2>2
  <2>. QED  BY <1>1, <2>1, <2>3 DEF Cursors
<1>13. ASSUME NEW e \in Sources, FailCounted(e)  PROVE ExtractorInv'
  <2>1. ~Spent(e) /\ Takes(e, FALSE) /\ UNCHANGED <<decisions, writtenToday, uncounted, mishaps>>
    BY <1>13 DEF FailCounted
  <2>2. cursor' \in Cursors /\ cursor'.done = cursor.done /\ cursor'.today = cursor.today
    <3>1. CASE cursor' = [cursor EXCEPT !.llm[e] = @ + 1]
      <4>1. cursor.llm[e] # LlmTries  BY <2>1 DEF Spent
      <4>2. cursor.llm[e] + 1 \in 0..LlmTries  BY <1>1, <4>1
      <4>. QED  BY <1>1, <3>1, <4>2 DEF Cursors
    <3>2. CASE CountsWriteFailure(e)  BY <1>12, <2>1, <3>2
    <3>. QED  BY <1>13, <3>1, <3>2 DEF FailCounted
  <2>. QED  BY <1>10, <2>1, <2>2
<1>14. ASSUME NEW e \in Sources, FailUncounted(e)  PROVE ExtractorInv'
  <2>1. /\ Takes(e, FALSE) /\ Mishap /\ uncounted' = [uncounted EXCEPT ![e] = @ + 1]
        /\ UNCHANGED <<cursor, decisions, writtenToday>>
    BY <1>14 DEF FailUncounted
  <2>. QED  BY <1>1, <1>10, <2>1
\* A candidate with one.
<1>15. ASSUME NEW e \in Sources, NEW ends \in BOOLEAN, Takes(e, ends), Appends(e),
              cursor' \in Cursors, cursor'.done = cursor.done,
              \/ ends /\ mishaps' = mishaps /\ cursor'.today = cursor.today + 1
              \/ ~ends /\ Mishap /\ cursor'.today = cursor.today
       PROVE  ExtractorInv'
  <2>1. /\ e \in picked /\ picked' = picked \ {e} /\ Cardinality(picked') = Cardinality(picked) - 1
        /\ xstep # "waits" /\ xstep' = "working" /\ cursorDisk' = cursorDisk
        /\ finished' = IF ends THEN finished \cup {e} ELSE finished
        /\ e \notin cursor.done \cup finished
    BY <1>15, TakesFacts
  <2>2. /\ decisions' = [decisions EXCEPT ![e] = @ + 1] /\ writtenToday' = writtenToday + 1
        /\ uncounted' = uncounted
    BY <1>15 DEF Appends
  <2>3. /\ mishaps' \in {mishaps, mishaps + 1} /\ mishaps' \in 0..MaxMishaps
        /\ (~ends => mishaps' = mishaps + 1)
    BY <1>0, <1>4, <1>15 DEF ExtractorTypes
  <2>4. finished' \subseteq Sources /\ finished \subseteq finished'  BY <1>0, <2>1 DEF ExtractorTypes
  <2>5. /\ decisions \in [Sources -> Nat] /\ decisions' \in [Sources -> Nat]
        /\ decisions'[e] = decisions[e] + 1
        /\ \A d \in Sources : d # e => decisions'[d] = decisions[d]
    BY <1>0, <2>2 DEF ExtractorTypes
  <2>6. ExtractorTypes'  BY <1>0, <1>15, <2>1, <2>2, <2>3, <2>4, <2>5 DEF ExtractorTypes
  <2>7. RememberInv'
    <3>1. picked' \cap (cursor'.done \cup finished') = {}  BY <1>0, <1>15, <2>1 DEF RememberInv
    <3>2. decisions[e] <= mishaps  BY <1>0, <1>1, <2>1 DEF RememberInv
    <3>3. decisions'[e] <= mishaps' + (IF e \in cursor'.done \cup finished' THEN 1 ELSE 0)
      <4>1. CASE ends
        <5>1. e \in finished'  BY <2>1, <4>1
        <5>. QED  BY <1>1, <2>3, <2>5, <3>2, <5>1
      <4>2. CASE ~ends
        <5>1. decisions'[e] <= mishaps'  BY <1>1, <2>3, <2>5, <3>2, <4>2
        <5>. QED  BY <1>1, <2>3, <2>5, <5>1
      <4>. QED  BY <4>1, <4>2
    <3>4. \A d \in Sources : d # e =>
            decisions'[d] <= mishaps' + (IF d \in cursor'.done \cup finished' THEN 1 ELSE 0)
      BY <1>0, <1>1, <1>15, <2>3, <2>4, <2>5 DEF RememberInv
    <3>5. \A d \in Sources : uncounted[d] \in Nat /\ uncounted[d] <= mishaps
      BY <1>0 DEF RememberInv, ExtractorTypes
    <3>. QED  BY <1>1, <2>1, <2>2, <2>3, <3>1, <3>3, <3>4, <3>5 DEF RememberInv
  <2>8. DailyInv'
    <3>1. CASE ends
      <4>1. Allowance' = Allowance /\ cursor'.today = cursor.today + 1  BY <1>2, <1>15, <3>1
      <4>. QED  BY <1>0, <1>1, <1>2, <1>3, <1>6, <2>1, <2>2, <4>1 DEF DailyInv
    <3>2. CASE ~ends
      <4>1. Allowance' = Allowance + Forgets /\ cursor'.today = cursor.today
        BY <1>2, <1>15, <2>3, <3>2
      <4>. QED  BY <1>0, <1>1, <1>2, <1>3, <1>6, <2>1, <2>2, <4>1 DEF DailyInv
    <3>. QED  BY <3>1, <3>2
  <2>. QED  BY <2>6, <2>7, <2>8 DEF ExtractorInv
<1>16. ASSUME NEW e \in Sources, WriteDecision(e)  PROVE ExtractorInv'
  <2>1. /\ Takes(e, TRUE) /\ Appends(e) /\ mishaps' = mishaps
        /\ cursor' = [cursor EXCEPT !.today = @ + 1]
    BY <1>16 DEF WriteDecision
  <2>2. e \in picked /\ Cardinality(picked') = Cardinality(picked) - 1 /\ picked' \subseteq Sources
    BY <1>0, <2>1, TakesFacts DEF ExtractorTypes
  <2>3. Cardinality(picked') \in Nat  BY <2>2, FS_Subset, FS_CardinalityType
  <2>4. cursor.today + 1 \in 0..MaxDaily  BY <1>0, <1>1, <1>3, <2>2, <2>3 DEF DailyInv
  <2>5. cursor' \in Cursors /\ cursor'.done = cursor.done /\ cursor'.today = cursor.today + 1
    BY <1>1, <2>1, <2>4 DEF Cursors
  <2>. QED  BY <1>15, <2>1, <2>5
<1>17. ASSUME NEW e \in Sources, WriteUnverified(e)  PROVE ExtractorInv'
  <2>1. ~Spent(e) /\ Mishap /\ Takes(e, FALSE) /\ Appends(e) /\ CountsWriteFailure(e)
    BY <1>17 DEF WriteUnverified
  <2>. QED  BY <1>12, <1>15, <2>1
<1>18. ASSUME EndTick  PROVE ExtractorInv'
  <2>1. /\ xstep # "waits" /\ xstep' = "waits" /\ picked' = {} /\ finished' = {}
        /\ cursor' = [cursor EXCEPT !.done = @ \cup finished]
        /\ UNCHANGED <<decisions, writtenToday, uncounted>>
    BY <1>18 DEF EndTick
  <2>2. /\ cursor' \in Cursors /\ cursor'.done = cursor.done \cup finished
        /\ cursor'.today = cursor.today
    BY <1>0, <1>1, <2>1 DEF Cursors, ExtractorTypes
  <2>3. \/ cursorDisk' = cursor' /\ mishaps' = mishaps
        \/ Mishap /\ cursorDisk' = cursorDisk
    BY <1>18 DEF EndTick
  <2>4. /\ mishaps' \in {mishaps, mishaps + 1} /\ mishaps' \in 0..MaxMishaps /\ cursorDisk' \in Cursors
    BY <1>0, <1>1, <1>4, <2>2, <2>3 DEF ExtractorTypes
  <2>5. ExtractorTypes'  BY <1>0, <2>1, <2>2, <2>4 DEF ExtractorTypes
  <2>6. RememberInv'
    <3>1. \A d \in Sources : decisions[d] \in Nat /\ uncounted[d] \in Nat  BY <1>0 DEF ExtractorTypes
    <3>. QED  BY <1>0, <1>1, <2>1, <2>2, <2>4, <3>1 DEF RememberInv
  <2>7. Cardinality(picked') = 0  BY <2>1, FS_EmptySet
  <2>8. DailyInv'
    <3>1. CASE cursorDisk' = cursor' /\ mishaps' = mishaps
      BY <1>0, <1>1, <1>2, <1>3, <2>1, <2>2, <2>7, <3>1 DEF DailyInv
    <3>2. CASE Mishap /\ cursorDisk' = cursorDisk
      <4>1. Allowance' = Allowance + Forgets  BY <1>2, <1>4, <3>2
      <4>. QED  BY <1>0, <1>1, <1>2, <1>3, <2>1, <2>2, <2>7, <3>2, <4>1 DEF DailyInv
    <3>. QED  BY <2>3, <3>1, <3>2
  <2>. QED  BY <2>5, <2>6, <2>8 DEF ExtractorInv
<1>19. ASSUME Midnight  PROVE ExtractorInv'
  <2>1. /\ xstep = "waits" /\ writtenToday' = 0
        /\ cursor' = [cursor EXCEPT !.today = 0] /\ cursorDisk' = [cursorDisk EXCEPT !.today = 0]
        /\ UNCHANGED <<picked, finished, xstep, decisions, uncounted, mishaps>>
    BY <1>19 DEF Midnight
  <2>2. /\ cursor' \in Cursors /\ cursorDisk' \in Cursors /\ cursor'.done = cursor.done
        /\ cursor'.today = 0 /\ cursorDisk'.today = 0
    BY <1>1, <2>1 DEF Cursors
  <2>3. ExtractorTypes'  BY <1>0, <2>1, <2>2 DEF ExtractorTypes
  <2>4. RememberInv'  BY <1>0, <2>1, <2>2 DEF RememberInv
  <2>5. Cardinality(picked) = 0  BY <1>0, <2>1, FS_EmptySet DEF RememberInv
  <2>6. DailyInv'  BY <1>2, <2>1, <2>2, <2>5 DEF DailyInv
  <2>. QED  BY <2>3, <2>4, <2>6 DEF ExtractorInv
<1>20. ASSUME Restart  PROVE ExtractorInv'
  <2>1. /\ Mishap /\ cursor' = cursorDisk /\ picked' = {} /\ finished' = {} /\ xstep' = "waits"
        /\ UNCHANGED <<cursorDisk, decisions, writtenToday, uncounted>>
    BY <1>20 DEF Restart
  <2>2. mishaps' = mishaps + 1 /\ mishaps' \in 0..MaxMishaps  BY <1>4, <2>1
  <2>3. ExtractorTypes'  BY <1>0, <2>1, <2>2 DEF ExtractorTypes
  <2>4. RememberInv'
    <3>1. \A d \in Sources : decisions[d] \in Nat /\ uncounted[d] \in Nat  BY <1>0 DEF ExtractorTypes
    <3>2. \A d \in Sources : decisions[d] <= mishaps + 1 /\ uncounted[d] <= mishaps
      BY <1>0, <1>1, <3>1 DEF RememberInv
    <3>. QED  BY <1>1, <2>1, <2>2, <3>1, <3>2 DEF RememberInv
  <2>5. Cardinality(picked') = 0 /\ Allowance' = Allowance + Forgets  BY <1>2, <2>1, <2>2, FS_EmptySet
  <2>6. writtenToday <= cursorDisk.today + Allowance + Forgets
    BY <1>0, <1>1, <1>2, <1>3 DEF DailyInv
  <2>7. DailyInv'  BY <1>1, <1>2, <2>1, <2>5, <2>6 DEF DailyInv
  <2>. QED  BY <2>3, <2>4, <2>7 DEF ExtractorInv
<1>. QED  BY <1>7, <1>8, <1>9, <1>11, <1>13, <1>14, <1>16, <1>17, <1>18, <1>19, <1>20
          DEF PipelineNext, ExtractorStep, Handle

LEMMA ExtractorInvariant == PipelineSpec => []ExtractorInv
<1>1. PipelineInit => ExtractorInv
  <2>. SUFFICES ASSUME PipelineInit PROVE ExtractorInv  OBVIOUS
  <2>1. NewCursor \in Cursors /\ NewCursor.done = {} /\ NewCursor.today = 0
    BY DEF NewCursor, Cursors
  <2>2. ExtractorTypes  BY <2>1 DEF PipelineInit, ExtractorTypes
  <2>3. RememberInv  BY <2>1 DEF PipelineInit, RememberInv
  <2>4. DailyInv  BY <2>1, <2>2, FS_EmptySet, AllowanceFacts DEF PipelineInit, DailyInv
  <2>. QED  BY <2>2, <2>3, <2>4 DEF ExtractorInv
<1>2. ExtractorInv /\ [PipelineNext]_pipelineVars => ExtractorInv'
  <2>1. CASE UNCHANGED pipelineVars
    BY <2>1 DEF pipelineVars, extractor, ExtractorInv, ExtractorTypes, RememberInv, DailyInv, Allowance,
                Forgets
  <2>. QED  BY <2>1, ExtractorInvStep
<1>. QED  BY <1>1, <1>2, PTL DEF PipelineSpec

\* The log, the checkpoints and both daemons keep their types.
THEOREM PipelineTypeCorrect == PipelineSpec => []PipelineTypeOK
<1>1. DetectorInv /\ ExtractorInv => PipelineTypeOK
  <2>. SUFFICES ASSUME DetectorInv, ExtractorInv PROVE PipelineTypeOK  OBVIOUS
  <2>1. \A e \in Sources : uncounted[e] \in 0..MaxMishaps
    BY DEF ExtractorInv, ExtractorTypes, RememberInv
  <2>2. uncounted \in [Sources -> 0..MaxMishaps]  BY <2>1 DEF ExtractorInv, ExtractorTypes
  <2>. QED  BY <2>2 DEF DetectorInv, DetectorTypes, ExtractorInv, ExtractorTypes, PipelineTypeOK
<1>. QED  BY <1>1, DetectorInvariant, ExtractorInvariant, PTL

\* An entry is extracted once, and once more for each mishap.
THEOREM ExtractedOncePerMishap == PipelineSpec => []ExtractedOnce
<1>1. ExtractorInv => ExtractedOnce
  <2>. SUFFICES ASSUME ExtractorInv, NEW e \in Sources PROVE decisions[e] <= 1 + mishaps
    BY DEF ExtractedOnce
  <2>1. decisions[e] \in Nat /\ mishaps \in Nat  BY DEF ExtractorInv, ExtractorTypes
  <2>. QED  BY <2>1 DEF ExtractorInv, RememberInv
<1>. QED  BY <1>1, ExtractorInvariant, PTL

\* The checkpoint on disk is never ahead of the one in memory.
SavedInv == cursorDisk.done \subseteq cursor.done

\* What happens to a candidate that is taken: it is not done with.
LEMMA SavedStep ==
  ASSUME ExtractorInv, SavedInv, PipelineNext
  PROVE  /\ SavedInv' /\ cursorDisk.done \subseteq cursorDisk'.done
         /\ \A e \in cursorDisk.done : decisions'[e] = decisions[e]
<1>. DEFINE Settled == /\ SavedInv' /\ cursorDisk.done \subseteq cursorDisk'.done
                       /\ \A e \in cursorDisk.done : decisions'[e] = decisions[e]
<1>1. /\ cursor \in Cursors /\ cursorDisk \in Cursors
      /\ cursor \in [done : SUBSET Sources, llm : [Sources -> 0..LlmTries],
                     write : [Sources -> 0..WriteTries], today : 0..MaxDaily]
      /\ decisions \in [Sources -> Nat]
  BY DEF ExtractorInv, ExtractorTypes, Cursors
<1>2. ASSUME UNCHANGED <<cursor, cursorDisk, decisions>>  PROVE Settled
  BY <1>2 DEF SavedInv
<1>3. ASSUME DetectorStep  PROVE Settled
  BY <1>2, <1>3, DetectorLeaves DEF extractor
<1>4. ASSUME NEW e \in Sources, Post(e) \/ Summarise(e) \/ Acknowledge(e)  PROVE Settled
  BY <1>2, <1>4 DEF Post, Summarise, Acknowledge, extractor
<1>5. ASSUME PickCandidates  PROVE Settled
  BY <1>2, <1>5 DEF PickCandidates
\* A candidate of the batch: only its own count of Decisions changes, and it is not done with.
<1>6. ASSUME NEW e \in Sources, NEW ends \in BOOLEAN, Takes(e, ends), cursor'.done = cursor.done,
             decisions' = decisions \/ decisions' = [decisions EXCEPT ![e] = @ + 1]
      PROVE  Settled
  <2>1. cursorDisk' = cursorDisk /\ e \notin cursor.done
    BY <1>6, TakesFacts
  <2>2. SavedInv' /\ e \notin cursorDisk.done
    BY <1>6, <2>1 DEF SavedInv
  <2>3. \A d \in Sources : d # e => decisions'[d] = decisions[d]
    BY <1>1, <1>6
  <2>4. cursorDisk.done \subseteq Sources
    BY <1>1 DEF Cursors
  <2>. QED  BY <2>1, <2>2, <2>3, <2>4
<1>7. ASSUME NEW e \in Sources, CountsWriteFailure(e)  PROVE cursor'.done = cursor.done
  BY <1>1, <1>7 DEF CountsWriteFailure
<1>8. ASSUME NEW e \in Sources, Handle(e)  PROVE Settled
  <2>1. CASE SkipForGood(e)  BY <1>6, <2>1 DEF SkipForGood
  <2>2. CASE Reject(e)  BY <1>6, <2>2 DEF Reject
  <2>3. CASE WriteDecision(e)
    <3>1. cursor'.done = cursor.done  BY <1>1, <2>3 DEF WriteDecision
    <3>. QED  BY <1>6, <2>3, <3>1 DEF WriteDecision, Appends
  <2>4. CASE WriteUnverified(e)  BY <1>6, <1>7, <2>4 DEF WriteUnverified, Appends
  <2>5. CASE FailCounted(e)
    <3>1. cursor'.done = cursor.done
      BY <1>1, <1>7, <2>5 DEF FailCounted
    <3>. QED  BY <1>6, <2>5, <3>1 DEF FailCounted
  <2>6. CASE FailUncounted(e)  BY <1>6, <2>6 DEF FailUncounted
  <2>. QED  BY <1>8, <2>1, <2>2, <2>3, <2>4, <2>5, <2>6 DEF Handle
<1>9. ASSUME EndTick  PROVE Settled
  <2>1. cursor'.done = cursor.done \cup finished /\ decisions' = decisions
        /\ cursorDisk' \in {cursor', cursorDisk}
    BY <1>1, <1>9 DEF EndTick
  <2>. QED  BY <2>1 DEF SavedInv
<1>10. ASSUME Midnight  PROVE Settled
  <2>1. cursor'.done = cursor.done /\ cursorDisk'.done = cursorDisk.done /\ decisions' = decisions
    BY <1>1, <1>10 DEF Midnight
  <2>. QED  BY <2>1 DEF SavedInv
<1>11. ASSUME Restart  PROVE Settled
  BY <1>11 DEF Restart, SavedInv
<1>. QED  BY <1>3, <1>4, <1>5, <1>8, <1>9, <1>10, <1>11 DEF PipelineNext, ExtractorStep

\* What the saved checkpoint calls done with stays so, and is never extracted again.
THEOREM SettledStaysSettled == PipelineSpec => SettledForGood
<1>1. PipelineInit => SavedInv
  BY DEF PipelineInit, SavedInv
<1>2. ASSUME SavedInv, UNCHANGED pipelineVars
      PROVE  SavedInv' /\ UNCHANGED <<cursorDisk, decisions>>
  BY <1>2 DEF pipelineVars, extractor, SavedInv
<1>3. ExtractorInv /\ SavedInv /\ [PipelineNext]_pipelineVars =>
        SavedInv' /\ [/\ cursorDisk.done \subseteq cursorDisk'.done
                      /\ \A e \in cursorDisk.done : decisions'[e] = decisions[e]]_pipelineVars
  BY <1>2, SavedStep
<1>. QED  BY <1>1, <1>3, ExtractorInvariant, PTL DEF PipelineSpec, SettledForGood

\* A day's Decisions exceed the cap by at most one batch for each mishap.
THEOREM DailyCapHolds == PipelineSpec => []WithinDailyCap
<1>1. ExtractorInv => WithinDailyCap
  <2>. SUFFICES ASSUME ExtractorInv PROVE WithinDailyCap  OBVIOUS
  <2>1. writtenToday <= cursor.today + Allowance /\ cursor.today \in 0..MaxDaily
        /\ writtenToday \in Nat /\ Allowance \in Nat
    BY AllowanceFacts DEF ExtractorInv, ExtractorTypes, DailyInv, Cursors
  <2>2. writtenToday <= MaxDaily + Allowance  BY <2>1
  <2>. QED  BY <2>2 DEF WithinDailyCap, Allowance, Forgets
<1>. QED  BY <1>1, ExtractorInvariant, PTL
=============================================================================
