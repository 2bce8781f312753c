\* The queue: two tasks with one key, two threads, a crash, a revival, failing saves.
\* The graph: two writers, three entries, two crashes or failed writes.
\* The findings: two entries, two of them a batch, one of everything else, one mishap.
SPECIFICATION StoresSpec
CONSTANTS
    t1 = t1  t2 = t2  k1 = k1
    NoTask = NoTask
    Tasks = {t1, t2}
    Workers = {w1, w2}
    KeyOf <- SameKey
    Anonymous = {}
    CreatedAt <- InOrder
    MaxDepth = 2
    MaxAttempts = 1
    MaxReceipts = 1
    MaxRetry = 1
    Faulty = {"queue"}
    Slow = FALSE
    MaxCrashes = 1
    MaxRecoveries = 0
    MaxRevivals = 1
    Writers = {w1, w2}
    Entries = {e1, e2, e3}
    Agents = {codex, claude}
    Codex = codex
    Overstay = FALSE
    MaxWriteFaults = 2
    s1 = s1  s2 = s2
    Sources = {s1, s2}
    Rank <- Firsts
    MaxFindings = 1
    MaxCandidates = 2
    MaxDaily = 1
    LlmTries = 1
    WriteTries = 1
    Steady = TRUE
    MaxMishaps = 1
    Thread = Thread
    NoWriter = NoWriter
    NoEntry = NoEntry
    NoBall = NoBall
    Missing = Missing
SYMMETRY Alike
CHECK_DEADLOCK FALSE
INVARIANTS
    KeysUniqueBeforeRevival
    ExecutorsExclusive
    ExecutedOnce
    CountCovers
    AcknowledgedWhole
    MarkdownCurrent
    ReportedOnce
    SkippedIsReported
    ExtractedOnce
    WithinDailyCap
PROPERTY AppendOnly
