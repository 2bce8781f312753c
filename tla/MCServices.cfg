\* The key resolver with two request threads, the fleet with two tenants, two daemons and
\* one pool thread, three incarnations of a scope, and the lock of MCServices.
SPECIFICATION ServicesSpec
CONSTANTS
    Resolvers = {u1, u2}
    NoLeader = NoLeader
    Tokens = {t1, t2}
    NoToken = NoToken
    NoTree = NoTree
    Daemons = {u1, u2}
    LightDaemons = {u2}
    PoolSize = 1
    MaxScopes = 3
    u1 = u1
    u2 = u2
    oper = oper
    NoFile = NoFile
    NoPid = NoPid
    t1 = t1
    t2 = t2
CHECK_DEADLOCK FALSE
INVARIANTS
    RevokedStaysOut
    WorktreeIdentity
    OneTickAtATime
    TakenIsGivenBack
PROPERTIES
    EveryAcquireReturns
    OrphanIsBroken
    FetchGivesWay
    EveryDueTicks
