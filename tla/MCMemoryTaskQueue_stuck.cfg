SPECIFICATION WorkerSpec
CONSTANTS
    t1 = t1  t2 = t2  k1 = k1
    NoTask = NoTask
    Tasks = {t1}
    Workers = {w1}
    KeyOf <- Distinct
    Anonymous = {}
    CreatedAt <- InOrder
    MaxDepth = 1
    MaxAttempts = 1
    MaxReceipts = 1
    MaxRetry = 1
    Faulty = {}
    Slow = FALSE
    MaxCrashes = 1
    MaxRecoveries = 1
    MaxRevivals = 0
CHECK_DEADLOCK FALSE
PROPERTY StaleIsReset
