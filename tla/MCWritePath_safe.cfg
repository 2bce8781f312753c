\* Two writes of one topic and one of another; the queue holds two tasks.
SPECIFICATION Spec
CONSTANTS
    a = a  b = b  c = c  old = old  new = new
    Committer = Committer
    Free = Free
    Writes = {a, b, c}
    TopicOf <- Topic
    Existing = {old}
    Async = {a, c}
    Confirmed = {a}
    MaxDepth = 2
    MaxBatch = 2
    MaxAttempts = 2
    Seeded = TRUE
    MaxCrashes = 1
    MaxFaults = 1
    MaxForeign = 1
CHECK_DEADLOCK FALSE
INVARIANTS
    CompletedIsOnOrigin
PROPERTY
    ContractSpec
