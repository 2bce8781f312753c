-------------------------- MODULE DecisionPipeline --------------------------
(***************************************************************************)
(* How an entry becomes a Decision: the detector reports candidates in a   *)
(* log of findings (daemons/decision_detector.py, state.py), the extractor *)
(* works through the log with a language model and writes Decisions back   *)
(* (decision_extractor.py).  Each daemon ticks on a thread of its own      *)
(* (base.py) and keeps a checkpoint in memory that it saves at the end of  *)
(* a tick; the log and the checkpoints are all that outlives the process.  *)
(*                                                                         *)
(* One thread of a local worktree.  A step is one access to the thread's   *)
(* files, the log or a checkpoint, or one candidate.  Of the mtime only    *)
(* its comparison with the recorded one is kept (`audited`).               *)
(***************************************************************************)
EXTENDS Integers, FiniteSets

CONSTANTS
    Sources,        \* the entries of the thread, without those the extractor writes
    Rank,           \* Rank[e]: its place by score, highest first, then by age
    MaxFindings,    \* max_findings_per_run
    MaxCandidates,  \* max_candidates_per_tick
    MaxDaily,       \* max_extractions_per_day
    LlmTries,       \* max_extraction_attempts
    WriteTries,     \* max_write_failure_attempts
    Steady,         \* no entry is edited between the detector's two looks at its thread
    MaxMishaps      \* crashes, failed appends or saves, unverifiable writes, and
                    \* failures of a candidate that neither counter counts

ASSUME PipelineAssumption ==
    /\ IsFiniteSet(Sources) /\ Rank \in [Sources -> Nat]
    /\ \A d, e \in Sources : Rank[d] = Rank[e] => d = e
    /\ {MaxFindings, MaxCandidates, MaxDaily, LlmTries, WriteTries} \subseteq Nat \ {0}
    /\ Steady \in BOOLEAN /\ MaxMishaps \in Nat

VARIABLES
    text,           \* text[e]: entry e is "absent", "plain" or a "candidate" by its score
    open,           \* open[e]: unacknowledged findings about e in the detector's log
    dismissed,      \* entries with an acknowledged finding
    keys,           \* _existing_keys
    audited,        \* what the detector's checkpoint says of the thread, in memory ...
    auditedDisk,    \* ... and on disk
    seen,           \* the candidates in the entries the detector has read
    grown,          \* an entry was appended since, and meta.json has not been looked at
    found,          \* the findings of this tick
    dstep,          \* where the detector is
    cursor,         \* the extractor's checkpoint, in memory ...
    cursorDisk,     \* ... and on disk
    picked,         \* what is left of its batch
    finished,       \* processed_source_keys_this_tick
    xstep,          \* where the extractor is
    decisions,      \* decisions[e]: the entries it has written for e
    writtenToday,   \* how many since midnight
    uncounted,      \* uncounted[e]: failures no counter has seen
    lost,           \* an append of findings has failed
    mishaps

detector == <<keys, audited, auditedDisk, seen, grown, found, dstep>>
extractor == <<cursor, cursorDisk, picked, finished, xstep, decisions, writtenToday, uncounted>>
pipelineVars == <<text, open, dismissed, detector, extractor, lost, mishaps>>
-----------------------------------------------------------------------------
\* A thread's record in the checkpoint: none, one that is_thread_changed() takes for
\* the thread as it is, or one it does not.
Audits == {"never", "current", "outdated"}
Outdated(audit) == IF audit = "current" THEN "outdated" ELSE audit

Cursors == [done : SUBSET Sources, llm : [Sources -> 0..LlmTries],
            write : [Sources -> 0..WriteTries], today : 0..MaxDaily]
NewCursor == [done |-> {}, llm |-> [e \in Sources |-> 0],
              write |-> [e \in Sources |-> 0], today |-> 0]

Open       == {e \in Sources : open[e] > 0}
Candidates == {e \in Sources : text[e] = "candidate"}
Smaller(m, n) == IF m < n THEN m ELSE n

PipelineInit ==
    /\ text = [e \in Sources |-> "absent"] /\ open = [e \in Sources |-> 0] /\ dismissed = {}
    /\ keys = {} /\ audited = "never" /\ auditedDisk = "never"
    /\ seen = {} /\ grown = FALSE /\ found = {} /\ dstep = "waits"
    /\ cursor = NewCursor /\ cursorDisk = NewCursor
    /\ picked = {} /\ finished = {} /\ xstep = "waits"
    /\ decisions = [e \in Sources |-> 0] /\ uncounted = [e \in Sources |-> 0]
    /\ writtenToday = 0 /\ lost = FALSE /\ mishaps = 0

Mishap == mishaps < MaxMishaps /\ mishaps' = mishaps + 1
-----------------------------------------------------------------------------
(* The thread.                                                             *)

\* Every write of the thread renames a new meta.json into place.
Touched == audited' = Outdated(audited) /\ auditedDisk' = Outdated(auditedDisk)

Post(e) ==
    /\ text[e] = "absent"
    /\ \E score \in {"plain", "candidate"} : text' = [text EXCEPT ![e] = score]
    /\ Touched /\ grown' = (dstep = "read")
    /\ UNCHANGED <<open, dismissed, keys, seen, found, dstep, extractor, lost, mishaps>>

\* A summary raises the score of an entry; the number of entries stays.
Summarise(e) ==
    /\ text[e] = "plain" /\ (Steady => dstep # "read")
    /\ text' = [text EXCEPT ![e] = "candidate"]
    /\ Touched
    /\ UNCHANGED <<open, dismissed, keys, seen, grown, found, dstep, extractor, lost, mishaps>>
-----------------------------------------------------------------------------
(* The detector.                                                           *)

\* A slip: the keys are only ever those of this process.
ReadEntriesUnsynced ==
    /\ dstep = "waits" /\ dstep' = "read"
    /\ seen' = Candidates /\ grown' = FALSE
    /\ UNCHANGED <<text, open, dismissed, keys, audited, auditedDisk, found, extractor, lost, mishaps>>

\* The keys are read from the log when there are none, or once in a while; then the entries.
ReadEntries ==
    /\ dstep = "waits" /\ dstep' = "read"
    /\ keys' \in IF keys = {} THEN {Open} ELSE {keys, Open}
    /\ seen' = Candidates /\ grown' = FALSE
    /\ UNCHANGED <<text, open, dismissed, audited, auditedDisk, found, extractor, lost, mishaps>>

\* The cap of the tick came before the last entry.
Cuts(fresh, hit) ==
    /\ Cardinality(fresh) > MaxFindings => hit
    /\ Cardinality(fresh) < MaxFindings => ~hit

Reports(fresh) ==
    /\ found' \in SUBSET fresh
    /\ Cardinality(found') = Smaller(MaxFindings, Cardinality(fresh))
    /\ keys' = keys \cup found'

\* A slip: the thread is recorded although the cap cut it short.
ScoreAll ==
    /\ dstep = "read" /\ audited # "current"
    /\ Reports(seen \ keys)
    /\ audited' = IF grown THEN "outdated" ELSE "current"
    /\ dstep' = IF found' = {} THEN "save" ELSE "append"
    /\ seen' = {} /\ grown' = FALSE
    /\ UNCHANGED <<text, open, dismissed, auditedDisk, extractor, lost, mishaps>>

\* meta.json is looked at, and with the entries as they were read the thread is recorded,
\* unless the cap cut it short.
Score ==
    /\ dstep = "read" /\ audited # "current"
    /\ Reports(seen \ keys)
    /\ \E hit \in BOOLEAN :
        /\ Cuts(seen \ keys, hit)
        /\ audited' = IF hit THEN audited ELSE IF grown THEN "outdated" ELSE "current"
    /\ dstep' = IF found' = {} THEN "save" ELSE "append"
    /\ seen' = {} /\ grown' = FALSE
    /\ UNCHANGED <<text, open, dismissed, auditedDisk, extractor, lost, mishaps>>

\* The thread is as recorded.
SkipThread ==
    /\ dstep = "read" /\ audited = "current"
    /\ dstep' = "save"
    /\ seen' = {} /\ grown' = FALSE
    /\ UNCHANGED <<text, open, dismissed, keys, audited, auditedDisk, found, extractor, lost, mishaps>>

\* append_findings(), or its failure: the error path goes on to save the checkpoint.
AppendFindings ==
    /\ dstep = "append" /\ dstep' = "save"
    /\ \/ /\ open' = [e \in Sources |-> IF e \in found THEN open[e] + 1 ELSE open[e]]
          /\ UNCHANGED <<lost, mishaps>>
       \/ Mishap /\ lost' = TRUE /\ UNCHANGED open
    /\ found' = {}
    /\ UNCHANGED <<text, dismissed, keys, audited, auditedDisk, seen, grown, extractor>>

SaveAudit ==
    /\ dstep = "save" /\ dstep' = "waits"
    /\ \/ auditedDisk' = audited /\ UNCHANGED mishaps
       \/ Mishap /\ UNCHANGED auditedDisk
    /\ UNCHANGED <<text, open, dismissed, keys, audited, seen, grown, found, extractor, lost>>

DetectorStep == ReadEntries \/ Score \/ SkipThread \/ AppendFindings \/ SaveAudit
-----------------------------------------------------------------------------
(* The extractor.                                                          *)

Due == Open \ cursor.done
Room == MaxDaily - cursor.today

\* The first n of a set of entries.
Foremost(all, n) == {e \in all : Cardinality({d \in all : Rank[d] < Rank[e]}) < n}

\* A slip: the day's count is only looked at for being used up.
PickCandidatesFreely ==
    /\ xstep = "waits" /\ xstep' = "picked"
    /\ picked' = IF Room = 0 THEN {} ELSE Foremost(Due, MaxCandidates)
    /\ picked' # {} \/ cursor # cursorDisk
    /\ UNCHANGED <<text, open, dismissed, detector, cursor, cursorDisk, finished, decisions,
                   writtenToday, uncounted, lost, mishaps>>

\* A tick that has nothing to do still saves the checkpoint.
PickCandidates ==
    /\ xstep = "waits" /\ xstep' = "picked"
    /\ picked' = Foremost(Due, Smaller(MaxCandidates, Room))
    /\ picked' # {} \/ cursor # cursorDisk
    /\ UNCHANGED <<text, open, dismissed, detector, cursor, cursorDisk, finished, decisions,
                   writtenToday, uncounted, lost, mishaps>>

\* The next candidate of the batch, and whether it is done with.
Takes(e, ends) ==
    /\ xstep \in {"picked", "working"} /\ xstep' = "working"
    /\ Foremost(picked, 1) = {e} /\ picked' = picked \ {e}
    /\ finished' = IF ends THEN finished \cup {e} ELSE finished
    /\ UNCHANGED <<text, open, dismissed, keys, seen, found, dstep, cursorDisk, lost>>

Spent(e) == cursor.llm[e] = LlmTries \/ cursor.write[e] = WriteTries

\* A slip: the candidate is passed over, and stays in front of the others.
SkipForNow(e) ==
    /\ Spent(e)
    /\ Takes(e, FALSE)
    /\ UNCHANGED <<audited, auditedDisk, grown, cursor, decisions, writtenToday, uncounted, mishaps>>

\* The cap of either counter: "entry permanently skipped".
SkipForGood(e) ==
    /\ Spent(e)
    /\ Takes(e, TRUE)
    /\ UNCHANGED <<audited, auditedDisk, grown, cursor, decisions, writtenToday, uncounted, mishaps>>

\* Rejected by a gate, unparseable, deleted meanwhile, or over the weekly cap of Notes.
Reject(e) ==
    /\ ~Spent(e)
    /\ Takes(e, TRUE)
    /\ UNCHANGED <<audited, auditedDisk, grown, cursor, decisions, writtenToday, uncounted, mishaps>>

\* daemon_write_entry() appends an entry to the thread, one the detector does not score.
Appends(e) ==
    /\ decisions' = [decisions EXCEPT ![e] = @ + 1]
    /\ writtenToday' = writtenToday + 1
    /\ Touched /\ grown' = (dstep = "read")
    /\ UNCHANGED uncounted

\* A slip: a Decision whose push failed is tried again.
WriteDecisionOrRetry(e) ==
    /\ ~Spent(e)
    /\ \E pushed \in BOOLEAN : Takes(e, pushed)
    /\ Appends(e)
    /\ cursor' = [cursor EXCEPT !.today = @ + 1]
    /\ UNCHANGED mishaps

\* A Decision or a candidate Note, pushed or not.
WriteDecision(e) ==
    /\ ~Spent(e)
    /\ Takes(e, TRUE)
    /\ Appends(e)
    /\ cursor' = [cursor EXCEPT !.today = @ + 1]
    /\ UNCHANGED mishaps

CountsWriteFailure(e) == cursor' = [cursor EXCEPT !.write[e] = @ + 1]

\* The entry is there, and cannot be found to be: reported as not written.
WriteUnverified(e) ==
    /\ ~Spent(e) /\ Mishap
    /\ Takes(e, FALSE)
    /\ Appends(e)
    /\ CountsWriteFailure(e)

\* The model is not available or gives nothing; the write fails.
FailCounted(e) ==
    /\ ~Spent(e)
    /\ Takes(e, FALSE)
    /\ cursor' = [cursor EXCEPT !.llm[e] = @ + 1] \/ CountsWriteFailure(e)
    /\ UNCHANGED <<audited, auditedDisk, grown, decisions, writtenToday, uncounted, mishaps>>

\* An exception, or a candidate Note without a body.
FailUncounted(e) ==
    /\ ~Spent(e) /\ Mishap
    /\ Takes(e, FALSE)
    /\ uncounted' = [uncounted EXCEPT ![e] = @ + 1]
    /\ UNCHANGED <<audited, auditedDisk, grown, cursor, decisions, writtenToday>>

\* The batch is done, or the tick has lasted long enough; the cursor moves, and
\* save_checkpoint() stores it or fails.
EndTick ==
    /\ xstep = "working" \/ (xstep = "picked" /\ picked = {})
    /\ xstep' = "waits" /\ picked' = {} /\ finished' = {}
    /\ cursor' = [cursor EXCEPT !.done = @ \cup finished]
    /\ \/ cursorDisk' = cursor' /\ UNCHANGED mishaps
       \/ Mishap /\ UNCHANGED cursorDisk
    /\ UNCHANGED <<text, open, dismissed, detector, decisions, writtenToday, uncounted, lost>>

Handle(e) ==
    \/ SkipForGood(e) \/ Reject(e) \/ WriteDecision(e) \/ WriteUnverified(e)
    \/ FailCounted(e) \/ FailUncounted(e)

ExtractorStep == PickCandidates \/ (\E e \in Sources : Handle(e)) \/ EndTick
-----------------------------------------------------------------------------
(* The others.                                                             *)

\* acknowledge_finding(): somebody has acted on it, once for each entry.
Acknowledge(e) ==
    /\ open[e] > 0 /\ e \notin dismissed
    /\ open' = [open EXCEPT ![e] = @ - 1] /\ dismissed' = dismissed \cup {e}
    /\ UNCHANGED <<text, detector, extractor, lost, mishaps>>

\* A tick keeps the date it began with, so the day changes between ticks.
Midnight ==
    /\ xstep = "waits" /\ writtenToday + cursor.today + cursorDisk.today > 0
    /\ writtenToday' = 0
    /\ cursor' = [cursor EXCEPT !.today = 0] /\ cursorDisk' = [cursorDisk EXCEPT !.today = 0]
    /\ UNCHANGED <<text, open, dismissed, detector, picked, finished, xstep, decisions,
                   uncounted, lost, mishaps>>

\* The process dies and is started again.
Restart ==
    /\ Mishap
    /\ keys' = {} /\ audited' = auditedDisk
    /\ seen' = {} /\ grown' = FALSE /\ found' = {} /\ dstep' = "waits"
    /\ cursor' = cursorDisk
    /\ picked' = {} /\ finished' = {} /\ xstep' = "waits"
    /\ UNCHANGED <<text, open, dismissed, auditedDisk, cursorDisk, decisions, writtenToday,
                   uncounted, lost>>

PipelineNext ==
    \/ DetectorStep \/ ExtractorStep
    \/ \E e \in Sources : Post(e) \/ Summarise(e) \/ Acknowledge(e)
    \/ Midnight \/ Restart

PipelineSpec == PipelineInit /\ [][PipelineNext]_pipelineVars

\* Both loops keep ticking, in spite of what a tick raises, and days end.
PipelineFairness ==
    /\ WF_pipelineVars(DetectorStep) /\ WF_pipelineVars(ExtractorStep)
    /\ WF_pipelineVars(Midnight)

FairPipelineSpec == PipelineSpec /\ PipelineFairness
-----------------------------------------------------------------------------
\* Type invariant of the two daemons, their checkpoints and the log.
PipelineTypeOK ==
    /\ text \in [Sources -> {"absent", "plain", "candidate"}]
    /\ open \in [Sources -> Nat] /\ dismissed \subseteq Sources
    /\ keys \subseteq Sources /\ seen \subseteq Sources /\ found \subseteq Sources
    /\ {audited, auditedDisk} \subseteq Audits /\ {grown, lost} \subseteq BOOLEAN
    /\ dstep \in {"waits", "read", "append", "save"}
    /\ {cursor, cursorDisk} \subseteq Cursors
    /\ picked \subseteq Sources /\ finished \subseteq Sources
    /\ xstep \in {"waits", "picked", "working"}
    /\ decisions \in [Sources -> Nat] /\ uncounted \in [Sources -> 0..MaxMishaps]
    /\ writtenToday \in Nat /\ mishaps \in 0..MaxMishaps

\* The log never holds two unacknowledged findings about one entry, whatever is scanned
\* again after a restart, a change or a failed save; the extractor, which drops source
\* keys only at the end of its tick, counts on it.
ReportedOnce == \A e \in Sources : open[e] <= 1

\* A checkpoint that makes the detector pass over the thread, in memory or after a
\* restart, has every candidate of the thread in the log, unless an append has failed
\* ("Only update if we fully scanned the thread", decision_detector.py:322).
Logged == \A e \in Candidates : open[e] > 0 \/ e \in dismissed
SkippedIsReported ==
    (Steady /\ ~lost) =>
        /\ auditedDisk = "current" => Logged
        /\ audited = "current" /\ dstep = "waits" => Logged

\* An entry is extracted once, and once more for each crash, failed save or write that
\* could not be verified ("Mark finding processed to avoid duplicate writes on retry",
\* daemon_write.py:65).
ExtractedOnce == \A e \in Sources : decisions[e] <= 1 + mishaps

\* What the saved checkpoint calls done with stays so and is never extracted again, whatever
\* crashes, saves that fail and days that end come after it ("Progressive cursor: exclude
\* already-processed", decision_extractor.py:520-527, updated at 686-692).
SettledForGood ==
    [][/\ cursorDisk.done \subseteq cursorDisk'.done
       /\ \A e \in cursorDisk.done : decisions'[e] = decisions[e]]_pipelineVars

\* A day's Decisions stay within the cap, but for the ticks a mishap makes forget theirs.
WithinDailyCap == writtenToday <= MaxDaily + mishaps * Smaller(MaxCandidates, MaxDaily)

\* "Anything else is treated as infrastructure and maps to the write-failure counter"
\* (decision_extractor.py:67-68), and a counter at its cap ends the attempts: no entry
\* fails more often than both caps allow.
FailuresCapped ==
    \A e \in Sources : cursor.llm[e] + cursor.write[e] + uncounted[e] <= LlmTries + WriteTries

\* Every candidate is settled for good, extracted or given up, unless it was acknowledged
\* before or an append failed, although the day's cap and failing attempts put it off.
EveryCandidateSettled ==
    \A e \in Sources :
        (text[e] = "candidate") ~> (e \in cursorDisk.done \/ e \in dismissed \/ lost)
=============================================================================
