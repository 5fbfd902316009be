----------------------------- MODULE HttpClient -----------------------------
(***************************************************************************)
(* asyncly/client/base.py: logical requests made through one BaseHttpClient *)
(* by concurrent asyncio tasks.  A logical request (_make_req) is a loop of *)
(* physical attempts (_request_once), each of which takes a connection of   *)
(* the shared aiohttp session, and sleeps between attempts.                 *)
(*                                                                         *)
(* A task only yields at an await, so one action is everything between two *)
(* awaits.  Cancellation may arrive at every await.                        *)
(***************************************************************************)
EXTENDS RetryPolicy, Sequences, FiniteSets

CONSTANTS
    Request,        \* the logical requests
    PoolLimit,      \* connections the session may hold open
    Handlers,       \* the status handlers: exact codes, "Nxx" groups, "*"
    Backoffs,       \* what the configured backoff strategy may answer
    Idempotent      \* the methods aiohttp repeats by itself

ASSUME ClientAssumption ==
    /\ PoolLimit \in Nat \ {0}
    /\ Handlers \in [exact : SUBSET Status, group : SUBSET (1..5), any : BOOLEAN]
    /\ Backoffs \subseteq BackoffResult
    /\ Idempotent \subseteq Method
    /\ IsFiniteSet(Request)

VARIABLES
    call,       \* the arguments of each _make_req
    pc,         \* where each task is suspended
    attempt,    \* context.attempt of the current loop iteration
    conns,      \* the requests that hold a connection of the pool
    sent,       \* physical requests that reached the wire
    resent,     \* the requests aiohttp has repeated in the current attempt
    response,   \* response.status while its handler runs
    events,     \* what the retry_observer was told
    outcome     \* what _make_req returned or raised

vars == <<call, pc, attempt, conns, sent, resent, response, events, outcome>>

\* What kwargs["data"] can be, as far as _is_request_replayable cares.
Data == {"absent", "buffered", "stream"}
Call == [retry : BOOLEAN, method : Method, data : Data]

IsRequestReplayable(c) == c.data # "stream"

\* "connecting" and "waiting" are inside session.request, "handling" is the
\* await of the status handler, "sleeping" the asyncio.sleep of the loop.
Suspended == {"connecting", "waiting", "handling", "sleeping"}

Pending == [returned |-> NoStatus, raised |-> NoException]

Context(r) ==
    [method |-> call[r].method, attempt |-> attempt[r],
     replayable |-> IsRequestReplayable(call[r]),
     response_status |-> NoStatus, exception |-> NoException]
ResponseContext(r, s) == [Context(r) EXCEPT !.response_status = s]
FailedContext(r, e) == [Context(r) EXCEPT !.exception = e]

Event ==
    [kind : {"scheduled", "suppressed", "exhausted"},
     attempt : 1..MaxAttempts, reason : Reason]
Scheduled(c, reason) ==
    [kind |-> "scheduled", attempt |-> c.attempt, reason |-> reason]
Terminal(c) ==
    [kind |-> IF SuppressionReason(c) = "attempts_exhausted"
              THEN "exhausted" ELSE "suppressed",
     attempt |-> c.attempt, reason |-> SuppressionReason(c)]

\* apply_handler: an exact status wins over its group, a group over "*".
FindHandler(s) ==
    IF s \in Handlers.exact THEN "exact"
    ELSE IF s \div 100 \in Handlers.group THEN "group"
    ELSE IF Handlers.any THEN "any"
    ELSE "None"

-----------------------------------------------------------------------------
(* Ways out of an attempt *)

\* An exception as _make_req catches it: the middleware of a retried request
\* wraps the transport errors aiohttp would otherwise retry by itself.
Wrapper == "_ObservableTransportError"

\* Mutation: the middleware is not installed.
ExposeTransportErrorAsIs(r, e) == [class |-> e, original |-> e]

ExposeTransportError(r, e) ==
    [class |-> IF call[r].retry /\ e \in TransportException THEN Wrapper ELSE e,
     original |-> e]

\* aiohttp repeats an idempotent request once when its connection breaks,
\* unless the exception it gets is not one of its own.
RepeatedByAiohttp(r, e) ==
    /\ ExposeTransportError(r, e).class \in TransportException
    /\ call[r].method \in Idempotent
    /\ r \notin resent

\* Mutation: what was caught is taken for the original.
UnwrapNothing(caught) == caught.class

Unwrap(caught) ==
    IF caught.class = Wrapper THEN caught.original ELSE caught.class

\* The exception e leaves _make_req; log is what the observer heard by then.
Escape(r, log, e) ==
    /\ pc' = [pc EXCEPT ![r] = "done"]
    /\ outcome' = [outcome EXCEPT ![r].raised = e]
    /\ events' = [events EXCEPT ![r] = log]

\* Mutation: the observer is not told of the retry.
ScheduleRetryUnobserved(r, log, c, reason, header) ==
    \E b \in Backoffs :
        LET delay == GetDelay(header, b) IN
        \/ /\ delay \in UsableDelay
           /\ pc' = [pc EXCEPT ![r] = "sleeping"]
           /\ events' = [events EXCEPT ![r] = log]
           /\ UNCHANGED outcome
        \/ /\ delay \in RaisedByDelay
           /\ Escape(r, log, delay)

\* get_delay, the "scheduled" notification and the start of asyncio.sleep.
ScheduleRetry(r, log, c, reason, header) ==
    \E b \in Backoffs :
        LET delay == GetDelay(header, b) IN
        \/ /\ delay \in UsableDelay
           /\ pc' = [pc EXCEPT ![r] = "sleeping"]
           /\ events' = [events EXCEPT ![r] = Append(log, Scheduled(c, reason))]
           /\ UNCHANGED outcome
        \/ /\ delay \in RaisedByDelay
           /\ Escape(r, log, delay)

\* Mutation: a suppressed exception is raised without a word.
RetryExceptionDelaySilent(r, log, caught) ==
    LET c == FailedContext(r, Unwrap(caught)) IN
    \/ /\ ~MatchesOutcome(c) \/ SuppressionReason(c) # NoReason
       /\ Escape(r, log, Unwrap(caught))
    \/ /\ MatchesOutcome(c)
       /\ SuppressionReason(c) = NoReason
       /\ ScheduleRetry(r, log, c, "exception", NoHeader)

\* _retry_exception_delay, called from the except clause of the loop.
RetryExceptionDelay(r, log, caught) ==
    LET c == FailedContext(r, Unwrap(caught)) IN
    \/ /\ ~MatchesOutcome(c)
       /\ Escape(r, log, Unwrap(caught))
    \/ /\ SuppressionReason(c) # NoReason
       /\ Escape(r, Append(log, Terminal(c)), Unwrap(caught))
    \/ /\ MatchesOutcome(c)
       /\ SuppressionReason(c) = NoReason
       /\ ScheduleRetry(r, log, c, "exception", NoHeader)

\* An Exception leaves _request_once: its "async with" gives the connection
\* back, then the loop (if there is one) decides.
RequestOnceRaises(r, log, caught) ==
    /\ conns' = conns \ {r}
    /\ response' = [response EXCEPT ![r] = NoStatus]
    /\ \/ ~call[r].retry /\ Escape(r, log, caught.class)
       \/ call[r].retry /\ RetryExceptionDelay(r, log, caught)

-----------------------------------------------------------------------------
Init ==
    /\ call \in [Request -> Call]
    /\ pc = [r \in Request |-> "idle"]
    /\ attempt = [r \in Request |-> 0]
    /\ conns = {}
    /\ sent = [r \in Request |-> 0]
    /\ resent = {}
    /\ response = [r \in Request |-> NoStatus]
    /\ events = [r \in Request |-> <<>>]
    /\ outcome = [r \in Request |-> Pending]

\* Mutation: the attempts are counted from zero.
MakeReqFromZero(r) ==
    /\ pc[r] = "idle"
    /\ pc' = [pc EXCEPT ![r] = "connecting"]
    /\ UNCHANGED <<call, attempt, conns, sent, resent, response, events, outcome>>

\* _make_req up to the first await inside session.request.
MakeReq(r) ==
    /\ pc[r] = "idle"
    /\ pc' = [pc EXCEPT ![r] = "connecting"]
    /\ attempt' = [attempt EXCEPT ![r] = 1]
    /\ UNCHANGED <<call, conns, sent, resent, response, events, outcome>>

\* The session hands out a connection and the request is written to it.
Connect(r) ==
    /\ pc[r] = "connecting"
    /\ Cardinality(conns) < PoolLimit
    /\ conns' = conns \cup {r}
    /\ sent' = [sent EXCEPT ![r] = @ + 1]
    /\ pc' = [pc EXCEPT ![r] = "waiting"]
    /\ UNCHANGED <<call, attempt, resent, response, events, outcome>>

\* No connection: refused, or the timeout of the attempt expired (in the
\* queue of the pool, perhaps).  aiohttp does not repeat what could not connect.
ConnectFails(r) ==
    /\ pc[r] = "connecting"
    /\ \E e \in {"ClientOSError", "TimeoutError"} :
           RequestOnceRaises(r, events[r], ExposeTransportError(r, e))
    /\ UNCHANGED <<call, attempt, sent, resent>>

\* The connection breaks before the headers and aiohttp tries again inside
\* session.request, where asyncly does not see it.
AiohttpRepeats(r) ==
    /\ pc[r] = "waiting"
    /\ \E e \in TransportException : RepeatedByAiohttp(r, e)
    /\ conns' = conns \ {r}
    /\ resent' = resent \cup {r}
    /\ pc' = [pc EXCEPT ![r] = "connecting"]
    /\ UNCHANGED <<call, attempt, sent, response, events, outcome>>

\* The connection dies, or the attempt times out, before the headers.
ExchangeFails(r) ==
    /\ pc[r] = "waiting"
    /\ \E e \in TransportException \cup {"TimeoutError"} :
           /\ ~RepeatedByAiohttp(r, e)
           /\ RequestOnceRaises(r, events[r], ExposeTransportError(r, e))
    /\ UNCHANGED <<call, attempt, sent, resent>>

\* Mutation: the loop sleeps inside the "async with" of the response.
RetryableResponseHeld(r) ==
    /\ pc[r] = "waiting"
    /\ call[r].retry
    /\ \E s \in Status, header \in RetryAfter :
           /\ MatchesOutcome(ResponseContext(r, s))
           /\ SuppressionReason(ResponseContext(r, s)) = NoReason
           /\ ScheduleRetry(r, events[r], ResponseContext(r, s), "status", header)
    /\ UNCHANGED <<call, attempt, conns, sent, resent, response>>

\* A response the policy will retry: _request_once returns a
\* _RetryableResponse, no handler sees the response, its connection is given
\* back before the loop computes the delay and sleeps.
RetryableResponse(r) ==
    /\ pc[r] = "waiting"
    /\ call[r].retry
    /\ \E s \in Status, header \in RetryAfter :
           /\ MatchesOutcome(ResponseContext(r, s))
           /\ SuppressionReason(ResponseContext(r, s)) = NoReason
           /\ ScheduleRetry(r, events[r], ResponseContext(r, s), "status", header)
    /\ conns' = conns \ {r}
    /\ response' = [response EXCEPT ![r] = NoStatus]
    /\ UNCHANGED <<call, attempt, sent, resent>>

\* Any other response: the observer hears why it is not retried when its
\* status is one the policy retries, then its handler is looked up.
FinalResponse(r) ==
    /\ pc[r] = "waiting"
    /\ \E s \in Status :
           LET c == ResponseContext(r, s)
               told == call[r].retry /\ MatchesOutcome(c)
               log == IF told THEN Append(events[r], Terminal(c)) ELSE events[r]
           IN
           /\ told => SuppressionReason(c) # NoReason
           /\ \/ /\ FindHandler(s) # "None"
                 /\ response' = [response EXCEPT ![r] = s]
                 /\ pc' = [pc EXCEPT ![r] = "handling"]
                 /\ events' = [events EXCEPT ![r] = log]
                 /\ UNCHANGED <<conns, outcome>>
              \/ /\ FindHandler(s) = "None"
                 /\ RequestOnceRaises(r, log,
                        ExposeTransportError(r, "UnhandledStatusException"))
    /\ UNCHANGED <<call, attempt, sent, resent>>

HandlerReturns(r) ==
    /\ pc[r] = "handling"
    /\ conns' = conns \ {r}
    /\ outcome' = [outcome EXCEPT ![r].returned = response[r]]
    /\ response' = [response EXCEPT ![r] = NoStatus]
    /\ pc' = [pc EXCEPT ![r] = "done"]
    /\ UNCHANGED <<call, attempt, sent, resent, events>>

\* The handler reads the body and decodes it: outside the middleware, so
\* nothing is wrapped here.
HandlerRaises(r) ==
    /\ pc[r] = "handling"
    /\ \E e \in {"ClientOSError", "ClientPayloadError", "TimeoutError",
                 "HandlerError"} :
           RequestOnceRaises(r, events[r], [class |-> e, original |-> e])
    /\ UNCHANGED <<call, attempt, sent, resent>>

\* asyncio.sleep is over: the next iteration, or the end of the loop.
Wake(r) ==
    /\ pc[r] = "sleeping"
    /\ \/ /\ attempt[r] < MaxAttempts
          /\ attempt' = [attempt EXCEPT ![r] = @ + 1]
          /\ resent' = resent \ {r}
          /\ pc' = [pc EXCEPT ![r] = "connecting"]
          /\ UNCHANGED <<events, outcome>>
       \/ /\ attempt[r] = MaxAttempts
          /\ Escape(r, events[r], "RuntimeError")
          /\ UNCHANGED <<attempt, resent>>
    /\ UNCHANGED <<call, conns, sent, response>>

\* task.cancel(): CancelledError is no Exception, so neither the loop nor the
\* policy sees it; "async with" still gives the connection back.
Cancel(r) ==
    /\ pc[r] \in Suspended
    /\ conns' = conns \ {r}
    /\ Escape(r, events[r], "CancelledError")
    /\ response' = [response EXCEPT ![r] = NoStatus]
    /\ UNCHANGED <<call, attempt, sent, resent>>

\* What the task of r does when the loop, the network or its timer lets it.
Progress(r) ==
    \/ ConnectFails(r) \/ ExchangeFails(r) \/ AiohttpRepeats(r)
    \/ RetryableResponse(r) \/ FinalResponse(r)
    \/ HandlerReturns(r) \/ HandlerRaises(r)
    \/ Wake(r)

Finished == \A r \in Request : pc[r] = "done"

Next ==
    \/ \E r \in Request : MakeReq(r) \/ Connect(r) \/ Progress(r) \/ Cancel(r)
    \/ Finished /\ UNCHANGED vars

Spec == Init /\ [][Next]_vars

(***************************************************************************)
(* Fairness.  The event loop runs every ready task; an exchange ends with  *)
(* headers, an error or the timeout of the attempt; handlers and sleeps    *)
(* end.  Connections are handed to waiters in order, so a task cannot be   *)
(* passed over for ever.  Nothing is assumed of ConnectFails: progress     *)
(* must not depend on the timeout of the pool queue.                       *)
(***************************************************************************)
Fairness ==
    \A r \in Request :
        /\ SF_vars(Connect(r))
        /\ WF_vars(\/ ExchangeFails(r) \/ AiohttpRepeats(r)
                   \/ RetryableResponse(r) \/ FinalResponse(r))
        /\ WF_vars(HandlerReturns(r) \/ HandlerRaises(r))
        /\ WF_vars(Wake(r))

FairSpec == Spec /\ Fairness

-----------------------------------------------------------------------------
(* Properties *)

\* Every request is where the code can be suspended, counts only attempts its
\* policy has, sends each at most once, and ends with a status, an exception it
\* met, or what computing a delay raises.
TypeOK ==
    /\ call \in [Request -> Call]
    /\ pc \in [Request -> {"idle", "done"} \cup Suspended]
    /\ attempt \in [Request -> 0..MaxAttempts]
    /\ conns \subseteq Request
    /\ sent \in [Request -> 0..(MaxAttempts + 1)]
    /\ resent \subseteq Request
    /\ response \in [Request -> Status \cup {NoStatus}]
    /\ events \in [Request -> Seq(Event)]
    /\ outcome \in [Request ->
           [returned : Status \cup {NoStatus},
            raised : Exception \cup RaisedByDelay
                         \cup {NoException, Wrapper, "RuntimeError"}]]

\* The observer was told that a retryable outcome is final.
ToldIn(log) == \E i \in 1..Len(log) : log[i].kind # "scheduled"
Told(r) == ToldIn(events[r])

MayRepeat(r) ==
    /\ call[r].retry
    /\ call[r].method \in Methods
    /\ IsRequestReplayable(call[r])

\* A connection is held exactly while an attempt is on the wire or its
\* handler runs: none is leaked by a failure, a cancellation or a retry, and
\* none is kept over the sleep between attempts.
ConnectionsOnlyInExchange ==
    conns = {r \in Request : pc[r] \in {"waiting", "handling"}}

\* A second attempt is made only under a policy that lists the method of the
\* request, and with a body that can be sent again.
RepeatOnlyWhenSafe ==
    \A r \in Request : attempt[r] > 1 => MayRepeat(r)

\* A request with a policy reaches the wire at most once in each attempt:
\* nothing is repeated behind the back of policy, observer and metrics.
EveryResendIsAnAttempt ==
    \A r \in Request : call[r].retry => sent[r] <= attempt[r]

\* log has one "scheduled" event for each attempt before the n-th, in order;
\* what follows is about the n-th, and only its first entry may schedule.
TellsRetries(log, n) ==
    /\ Len(log) >= n - 1
    /\ \A i \in 1..Len(log) :
           /\ log[i].attempt = IF i < n THEN i ELSE n
           /\ i < n => log[i].kind = "scheduled"
           /\ i > n => log[i].kind # "scheduled"

\* The observer hears one "scheduled" event for each retry, in order, before
\* the retry is made, and everything else it hears is about the last attempt.
ObserverHearsEveryRetry ==
    \A r \in Request : TellsRetries(events[r], attempt[r])

\* An outcome the policy lists reaches the caller, as a returned response or
\* as an exception, only after the observer heard that it will not be
\* retried.  (Cancellation is not the policy's business.)
NoSilentGiveUp ==
    \A r \in Request :
        (/\ pc[r] = "done" /\ call[r].retry
         /\ \/ outcome[r].returned \in Statuses
            \/ outcome[r].raised \in Exceptions \ {"CancelledError"}) => Told(r)

\* The caller never sees the client's own wrapper class, and the loop never
\* runs off its end.
OnlyOriginalExceptions ==
    \A r \in Request : outcome[r].raised \notin {Wrapper, "RuntimeError"}

NothingAfterTerminal ==
    \A r \in Request : Told(r) =>
        /\ attempt'[r] = attempt[r]
        /\ sent'[r] = sent[r]
        /\ pc'[r] # "sleeping"

\* Once the observer heard "suppressed" or "exhausted" for a request, the
\* request makes no further attempt and announces no further retry, whatever
\* its handler raises afterwards.
TerminalEventIsFinal == [][NothingAfterTerminal]_vars

\* A test of get_delay: an invalid Retry-After falls back to the backoff
\* strategy.  With a strategy that always answers a usable delay, computing
\* the delay would then never raise.
InvalidRetryAfterFallsBack ==
    \A r \in Request : outcome[r].raised \notin RaisedByDelay

\* However few connections there are, every request that was started ends.
EveryRequestFinishes ==
    \A r \in Request : pc[r] # "idle" ~> pc[r] = "done"

-----------------------------------------------------------------------------
(* What the loop promises its caller *)

Phase(r) ==
    CASE pc[r] = "idle"     -> "idle"
      [] pc[r] = "sleeping" -> "pausing"
      [] pc[r] = "done"     -> "finished"
      [] OTHER              -> "trying"

Promise == INSTANCE LogicalRequest WITH
    MaxTries   <- MaxAttempts,
    repeatable <- {r \in Request : MayRepeat(r)},
    phase      <- [r \in Request |-> Phase(r)],
    tries      <- attempt

\* The client implements the abstract logical request, its termination
\* included: pool, observers, handlers and server answers are hidden.
ImplementsLogicalRequest == Promise!Spec
=============================================================================
