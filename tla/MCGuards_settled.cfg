\* Two annotation calls, no failed request.
SPECIFICATION GuardsSpec
CONSTANTS
    a = a
    b = b
    c = c
    op = op
    NoFile = NoFile
    NoPid = NoPid
    Procs = {a, b, c, op}
    Operators = {op}
    Breakers = {}
    TTL <- TopicTTL
    Timeout <- TopicTimeout
    MaxHold <- ShortHold
    MaxAge = 3
    MaxFaults = 0
    r1 = r1
    r2 = r2
    r3 = r3
    Requests = {r1, r2, r3}
    KindsOf <- Annotating
    MaxTries = 3
    MaxLosses = 0
    Old = Old
    Other = Other
    Nobody = Nobody
    Elsewhere = Elsewhere
    Root = Root
    Absent = Absent
    Unread = Unread
    m1 = m1
    m2 = m2
    Movers = {m1, m2}
    MaxEntries = 3
    PageSize = 2
    Limits = {0}
    MaxTroubles = 0
SYMMETRY CallsInterchangeable
INVARIANT
    AnnotationsSettled
