\* Three users, every hold is short; one of them dies and two find its lock stale.
SPECIFICATION Spec
CONSTANTS
    a = a
    b = b
    c = c
    op = op
    NoFile = NoFile
    NoPid = NoPid
    Procs = {a, b, c}
    Operators = {}
    Breakers = {}
    TTL <- WorktreeTTL
    Timeout <- WorktreeTimeout
    MaxHold <- ShortHold
    MaxAge = 3
    MaxFaults = 1
INVARIANT
    MutualExclusion
