\* A confirmed and an accepted write of two topics; the queue holds one task.
SPECIFICATION LiveSpec
CONSTANTS
    a = a  b = b  c = c  old = old  new = new
    Committer = Committer
    Free = Free
    Writes = {a, c}
    TopicOf <- Topic
    Existing = {old}
    Async = {a, c}
    Confirmed = {a}
    MaxDepth = 1
    MaxBatch = 1
    MaxAttempts = 2
    Seeded = TRUE
    MaxCrashes = 1
    MaxFaults = 1
    MaxForeign = 1
CHECK_DEADLOCK FALSE
PROPERTIES
    EventuallyOnOrigin
    TasksEnd
