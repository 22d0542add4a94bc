SPECIFICATION FairSpec
CONSTANTS
    c1 = c1
    c2 = c2
    Token = Token
    Calls <- MCCalls
    Mixes <- MCMixes
    TotalTimeout = 3
    AttemptTimeout = 1
    MaxRetries = 1
    RetryDelay = 1
    HealthTimeout = 1
    TokenLife = 5
    TokenBuffer = 4
    MinCacheTtl = 1
INVARIANTS
    TypeOK
    MutationSentOnce
    EndsInTime
    NoExpiredToken
PROPERTIES
    CallEnds
    HealthAnswers
CHECK_DEADLOCK FALSE
