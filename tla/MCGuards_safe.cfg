\* The lock: three users, one of which never waits, and an operator; no hold outlives a
\* ttl, nobody crashes.  The hosted thread: two calls of any kind with one failed request,
\* or three of four kinds without; two tries each.  The migration: up to three entries, pages
\* of two, one trouble.
SPECIFICATION GuardsSpec
CONSTANTS
    a = a
    b = b
    c = c
    op = op
    NoFile = NoFile
    NoPid = NoPid
    Procs = {a, b, c, op}
    Operators = {op}
    Breakers = {}
    TTL <- TopicTTL
    Timeout <- TopicTimeout
    MaxHold <- ShortHold
    MaxAge = 3
    MaxFaults = 0
    r1 = r1
    r2 = r2
    r3 = r3
    Requests = {r1, r2, r3}
    KindsOf <- AnyKind
    MaxTries = 2
    MaxLosses = 1
    Old = Old
    Other = Other
    Nobody = Nobody
    Elsewhere = Elsewhere
    Root = Root
    Absent = Absent
    Unread = Unread
    m1 = m1
    m2 = m2
    Movers = {m1, m2}
    MaxEntries = 3
    PageSize = 2
    Limits = {0, 1}
    MaxTroubles = 1
SYMMETRY CallsInterchangeable
INVARIANTS
    MutualExclusion
    LockInfoNamesHolder
    Numbered
    ProjectionMatches
    DecisionsListed
    AnnotationsKept
    CleanIsComplete
PROPERTIES
    AbstractSpec
    Serializable
