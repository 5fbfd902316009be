---------------------------- MODULE RetryPolicy ----------------------------
(***************************************************************************)
(* asyncly/client/retry.py: the immutable policy that decides, for the     *)
(* outcome of one physical attempt, whether another attempt may be made,   *)
(* why not, and how long to wait before it.                                *)
(*                                                                         *)
(* An outcome is described by a RetryContext: the response status OR the   *)
(* exception of the attempt that just ended.  Exceptions are named by      *)
(* their class; delays by where they come from (the server's Retry-After   *)
(* header or the backoff strategy), because no decision of the code        *)
(* depends on how many seconds a valid delay has.                          *)
(***************************************************************************)
EXTENDS Integers

CONSTANTS
    Method,             \* the HTTP methods callers use
    Status,             \* the response statuses servers answer with
    MaxAttempts,        \* RetryPolicy.max_attempts
    Statuses,           \* RetryPolicy.statuses
    Exceptions,         \* RetryPolicy.exceptions
    Methods,            \* RetryPolicy.methods
    RespectRetryAfter   \* RetryPolicy.respect_retry_after

NoStatus == 0
NoException == "None"

\* Exceptions aiohttp would retry by itself for idempotent methods.
TransportException == {"ClientOSError", "ServerDisconnectedError"}

Exception ==
    TransportException \cup
    {"TimeoutError", "ClientPayloadError", "HandlerError",
     "UnhandledStatusException", "CancelledError"}

\* RetryPolicy.__post_init__; statuses outside 100..599 are refused.
ASSUME PolicyAssumption ==
    /\ MaxAttempts \in Nat \ {0}
    /\ Status \subseteq 100..599
    /\ Statuses \subseteq Status
    /\ Exceptions \subseteq Exception
    /\ Methods \subseteq Method
    /\ RespectRetryAfter \in BOOLEAN

RetryContext ==
    [method : Method, attempt : 1..MaxAttempts, replayable : BOOLEAN,
     response_status : Status \cup {NoStatus},
     exception : Exception \cup {NoException}]

Reason ==
    {"status", "exception", "method_not_allowed", "body_not_replayable",
     "attempts_exhausted"}

-----------------------------------------------------------------------------
(* The decision *)

MatchesOutcome(c) ==
    /\ c.exception # "CancelledError"
    /\ \/ c.response_status # NoStatus /\ c.response_status \in Statuses
       \/ c.response_status = NoStatus /\ c.exception \in Exceptions

\* NoReason stands for Python's None: nothing suppresses the retry, or the
\* outcome is not one the policy retries.
NoReason == "None"

\* Mutation: a body that cannot be sent again is sent again.
SuppressionReasonForAnyBody(c) ==
    IF ~MatchesOutcome(c) THEN NoReason
    ELSE IF c.method \notin Methods THEN "method_not_allowed"
    ELSE IF c.attempt >= MaxAttempts THEN "attempts_exhausted"
    ELSE NoReason

\* Mutation: the method is only looked at when a response arrived.
SuppressionReasonForStatus(c) ==
    IF ~MatchesOutcome(c) THEN NoReason
    ELSE IF c.response_status # NoStatus /\ c.method \notin Methods
         THEN "method_not_allowed"
    ELSE IF ~c.replayable THEN "body_not_replayable"
    ELSE IF c.attempt >= MaxAttempts THEN "attempts_exhausted"
    ELSE NoReason

SuppressionReason(c) ==
    IF ~MatchesOutcome(c) THEN NoReason
    ELSE IF c.method \notin Methods THEN "method_not_allowed"
    ELSE IF ~c.replayable THEN "body_not_replayable"
    ELSE IF c.attempt >= MaxAttempts THEN "attempts_exhausted"
    ELSE NoReason

\* Mutation: off by one at the last attempt.
ShouldRetryOnceMore(c) ==
    /\ MatchesOutcome(c)
    /\ c.method \in Methods
    /\ c.replayable
    /\ c.attempt <= MaxAttempts

ShouldRetry(c) ==
    /\ MatchesOutcome(c)
    /\ c.method \in Methods
    /\ c.replayable
    /\ c.attempt < MaxAttempts

-----------------------------------------------------------------------------
(* The delay *)

(***************************************************************************)
(* The forms of a Retry-After header the code tells apart.                 *)
(*   "seconds"        decimal digits that fit a double                     *)
(*   "oversized"      decimal digits whose float() is infinite             *)
(*   "odd_digits"     str.isdigit() holds but float() refuses the text     *)
(*                    (a superscript two, for instance)                    *)
(*   "date"           an HTTP date, in the future or in the past           *)
(*   "text"           anything else                                        *)
(***************************************************************************)
NoHeader == "absent"
RetryAfter == {NoHeader, "seconds", "oversized", "odd_digits", "date", "text"}

\* A delay, by its origin or by what is wrong with it.  The elements of
\* RaisedByDelay are exceptions: no number is produced at all.
UsableDelay == {"retry_after", "backoff"}
UnusableNumber == {"infinite", "negative"}
RaisedByDelay == {"ValueError", "OverflowError"}
Delay == UsableDelay \cup RaisedByDelay
BackoffResult == {"backoff", "infinite", "negative", "OverflowError"}

ParseRetryAfter(h) ==
    CASE h = "seconds"    -> "retry_after"
      [] h = "date"       -> "retry_after"
      [] h = "oversized"  -> "infinite"
      [] h = "odd_digits" -> "ValueError"
      [] OTHER            -> "None"

\* Mutation: the delay is not checked.
GetDelayUnchecked(h, b) ==
    LET parsed == IF RespectRetryAfter /\ h # NoHeader
                  THEN ParseRetryAfter(h) ELSE "None"
    IN  IF parsed = "None" THEN b ELSE parsed

\* get_delay: the usable delay, or the exception it raises.  b is what the
\* configured backoff strategy would answer.
GetDelay(h, b) ==
    LET parsed == IF RespectRetryAfter /\ h # NoHeader
                  THEN ParseRetryAfter(h) ELSE "None"
        delay == IF parsed = "None" THEN b ELSE parsed
    IN  IF delay \in UnusableNumber THEN "ValueError" ELSE delay

\* full_jitter_backoff's cap, in half seconds.  The product of 0.5 and the
\* integer power is a double: it overflows from 2^1024 on, before min() can
\* cap it.
MaxCap == 60
CapOverflow == -1
FullJitterCap(attempt) ==
    IF attempt - 1 >= 1024 THEN CapOverflow
    ELSE IF attempt - 1 >= 6 THEN MaxCap
    ELSE 2 ^ (attempt - 1)

\* The answer of the default strategy: any delay between zero and the cap.
FullJitterBackoff(attempt) ==
    IF FullJitterCap(attempt) = CapOverflow THEN "OverflowError" ELSE "backoff"
=============================================================================
