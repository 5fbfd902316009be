---------------------------- MODULE MCRetryPolicy ----------------------------
(* The policy asked about the outcomes of the successive attempts of one    *)
(* request, for every outcome, every Retry-After header and every answer of *)
(* the backoff strategy.                                                    *)
EXTENDS RetryPolicy

VARIABLES context, header, backoff

vars == <<context, header, backoff>>

MCMethod == {"GET", "POST"}
MCMethods == {"GET"}
MCStatus == {200, 429, 503}
MCStatuses == {429, 503}
MCExceptions == {"ClientOSError", "TimeoutError", "CancelledError"}

\* An attempt ends with a status or with an exception, never with both.
Outcome(c) ==
    \/ c.response_status # NoStatus /\ c.exception = NoException
    \/ c.response_status = NoStatus /\ c.exception # NoException

Init ==
    /\ context \in {c \in RetryContext : c.attempt = 1 /\ Outcome(c)}
    /\ header \in RetryAfter
    /\ backoff \in BackoffResult

NextAttempt ==
    /\ context.attempt < MaxAttempts
    /\ \E s \in Status \cup {NoStatus}, e \in Exception \cup {NoException} :
           LET c == [context EXCEPT !.attempt = @ + 1, !.response_status = s,
                                    !.exception = e]
           IN  Outcome(c) /\ context' = c
    /\ header' \in RetryAfter
    /\ UNCHANGED backoff

Spec == Init /\ [][NextAttempt]_vars

-----------------------------------------------------------------------------

\* should_retry and _suppression_reason, which the code keeps apart, give the
\* same answer, and neither lets a cancellation be repeated, not even when the
\* policy lists CancelledError.
DecisionsAgree ==
    /\ ShouldRetry(context) <=>
           MatchesOutcome(context) /\ SuppressionReason(context) = NoReason
    /\ context.exception = "CancelledError" =>
           ~ShouldRetry(context) /\ SuppressionReason(context) = NoReason

\* The delay is usable or an exception: that of a valid header, else that of
\* the strategy.  The cap of the default one starts at half a second, doubles
\* with each attempt and stops at thirty seconds, as long as there is one: from
\* the attempt 1025 on it overflows.
DelayIsUsableOrRaised ==
    /\ GetDelay(header, backoff) \in Delay
    /\ GetDelay(header, backoff) = "backoff" <=>
           backoff = "backoff" /\ (~RespectRetryAfter \/ header \in {NoHeader, "text"})
    /\ FullJitterCap(1) = 1
    /\ context.attempt \in 2..1024 =>
           LET doubled == 2 * FullJitterCap(context.attempt - 1)
           IN  FullJitterCap(context.attempt) = IF doubled < MaxCap THEN doubled ELSE MaxCap
=============================================================================
