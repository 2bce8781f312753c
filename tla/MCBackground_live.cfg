\* The queue: two tasks, one thread, a crash, a call of recover_stale().
\* The findings: one candidate a batch; two entries, or one and one mishap.
\* The loop: one at a time, any calls.
SPECIFICATION BackgroundSpec
CONSTANTS
    t1 = t1  t2 = t2  k1 = k1
    NoTask = NoTask
    Tasks = {t1, t2}
    Workers = {w1}
    KeyOf <- Distinct
    Anonymous = {}
    CreatedAt <- InOrder
    MaxDepth = 2
    MaxAttempts = 1
    MaxReceipts = 2
    MaxRetry = 1
    Faulty = {}
    Slow = FALSE
    MaxCrashes = 1
    MaxRecoveries = 1
    MaxRevivals = 0
    s1 = s1  s2 = s2
    Sources = {s1, s2}
    Rank <- Firsts
    MaxFindings = 1
    MaxCandidates = 1
    MaxDaily = 1
    LlmTries = 1
    WriteTries = 1
    Steady = TRUE
    MaxMishaps = 1
    Threads = {d1, d2}
    NoThread = NoThread
    Hasty = FALSE
CHECK_DEADLOCK FALSE
PROPERTIES
    EventuallySettled
    EveryCandidateSettled
    StopIsHeeded
    WakeIsHeeded
