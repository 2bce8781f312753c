SPECIFICATION Spec
CONSTANTS
    t1 = t1  t2 = t2  k1 = k1
    NoTask = NoTask
    Tasks = {t1, t2}
    Workers = {w1, w2}
    KeyOf <- Distinct
    Anonymous = {}
    CreatedAt <- SameTime
    MaxDepth = 2
    MaxAttempts = 1
    MaxReceipts = 2
    MaxRetry = 1
    Faulty = {}
    Slow = TRUE
    MaxCrashes = 1
    MaxRecoveries = 1
    MaxRevivals = 1
CHECK_DEADLOCK FALSE
SYMMETRY Interchangeable
INVARIANTS
    NoLoss
    OutcomeVisible
    AttemptsWithinBudget
PROPERTY StoreSpec
