\* A valid backoff strategy, every form of Retry-After.
CONSTANTS
    r1 = r1
    r2 = r2
    Request = {r1}
    PoolLimit = 1
    MaxAttempts = 3
    RespectRetryAfter = TRUE
    Method <- MCMethod
    Methods <- MCMethods
    Status <- MCStatus
    Statuses <- MCStatuses
    Exceptions <- MCExceptions
    Handlers <- MCHandlers
    Backoffs <- MCBackoff
    Idempotent <- MCMethods
SPECIFICATION Spec
INVARIANT InvalidRetryAfterFallsBack
