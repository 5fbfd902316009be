\* Every outcome, header and backoff answer over nine attempts.
CONSTANTS
    MaxAttempts = 9
    RespectRetryAfter = TRUE
    Method <- MCMethod
    Methods <- MCMethods
    Status <- MCStatus
    Statuses <- MCStatuses
    Exceptions <- MCExceptions
SPECIFICATION Spec
INVARIANTS
    DecisionsAgree
    DelayIsUsableOrRaised
\* The last attempt is the last.
CHECK_DEADLOCK FALSE
