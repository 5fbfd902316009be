\* Two requests over one pooled connection, at most three attempts each: any call, and
\* one that keeps the connection busy.
CONSTANTS
    r1 = r1
    r2 = r2
    Request = {r1, r2}
    PoolLimit = 1
    MaxAttempts = 3
    RespectRetryAfter = TRUE
    Method <- MCMethod
    Methods <- MCMethods
    Status <- MCStatus
    Statuses <- MCStatuses
    Exceptions <- MCExceptions
    Handlers <- MCHandlers
    Backoffs <- MCBackoffs
    Idempotent <- MCMethods
SPECIFICATION MCFairSpec
INVARIANTS
    TypeOK
    ConnectionsOnlyInExchange
    RepeatOnlyWhenSafe
    EveryResendIsAnAttempt
    ObserverHearsEveryRetry
    NoSilentGiveUp
    OnlyOriginalExceptions
PROPERTIES
    TerminalEventIsFinal
    EveryRequestFinishes
    ImplementsLogicalRequest
