------------------------- MODULE InstrumentedClient -------------------------
(***************************************************************************)
(* asyncly/client/metrics/instrumentable_client.py: the metrics            *)
(* configuration of one client, the instrument() blocks that change and    *)
(* restore it, and the physical attempts that report to it.                *)
(*                                                                         *)
(* The configuration is shared by every task that uses the client.  An     *)
(* attempt reads it before its awaits and, in its "finally", once more     *)
(* after them; enable_metrics, disable_metrics and blocks of other tasks   *)
(* may run in between.  BaseHttpClient._request_once is seen from outside: *)
(* HttpClient models its inside.                                           *)
(***************************************************************************)
EXTENDS Taxonomy, Sequences, SequencesExt

CONSTANTS
    Attempt,            \* the physical attempts
    Block,              \* the instrument() context managers
    Sink,               \* the metrics sinks
    StartSinks,         \* those that define on_request_start
    EndSinks,           \* those that define on_request_end
    PhaseSinks,         \* those that define observe_phase
    Noop,               \* the NoopSink
    NoOverride,         \* route_resolver=None
    Resolver,           \* custom route resolvers
    DefaultResolver,    \* default_route_resolver
    Status              \* the statuses servers answer with

ASSUME InstrumentedAssumption ==
    /\ StartSinks \subseteq Sink /\ EndSinks \subseteq Sink
    /\ PhaseSinks \subseteq Sink
    /\ Noop \notin Sink
    /\ DefaultResolver \notin Resolver
    /\ Status \subseteq 100..599

VARIABLES
    config,     \* _metrics_sink, its two flags and _resolve_route
    saved,      \* what each block's __enter__ remembered
    asked,      \* the sink each block was made for
    active,     \* ghost: the blocks entered and not exited, in that order
    pc,         \* where each attempt is suspended
    used,       \* the sink and the route resolver an attempt captured
    chosen,     \* chosen_status["value"] of an attempt
    calls,      \* the calls an attempt made on its sink
    result,     \* how an attempt ended for its caller: an exception by its class
    disturbed   \* ghost: the attempts in flight when the client was reconfigured

vars == <<config, saved, asked, active, pc, used, chosen, calls, result,
          disturbed>>

Config ==
    [sink : Sink \cup {Noop}, lifecycle : BOOLEAN, phases : BOOLEAN,
     resolver : Resolver \cup {DefaultResolver}]
Disabled ==
    [sink |-> Noop, lifecycle |-> FALSE, phases |-> FALSE,
     resolver |-> DefaultResolver]

\* Both hooks or none: a sink with one of them is enabled as one without.
DetectLifecycle(s) == s \in StartSinks \cap EndSinks
DetectPhases(s) == s \in PhaseSinks

\* Mutation: an absent route_resolver replaces the one in use.
EnabledReplacingResolver(s, override) ==
    [sink |-> s, lifecycle |-> DetectLifecycle(s), phases |-> DetectPhases(s),
     resolver |-> override]

Enabled(s, override) ==
    [sink |-> s, lifecycle |-> DetectLifecycle(s), phases |-> DetectPhases(s),
     resolver |-> IF override = NoOverride THEN config.resolver ELSE override]

-----------------------------------------------------------------------------
Init ==
    /\ config = Disabled
    /\ saved = [b \in Block |-> Disabled]
    /\ asked \in [Block -> Sink]
    /\ active = <<>>
    /\ pc = [a \in Attempt |-> "idle"]
    /\ used = [a \in Attempt |-> [sink |-> Noop, resolver |-> DefaultResolver,
                                  traced |-> FALSE]]
    /\ chosen = [a \in Attempt |-> NoStatus]
    /\ calls = [a \in Attempt |-> <<>>]
    /\ result = [a \in Attempt |-> "pending"]
    /\ disturbed = {}

InFlight == {a \in Attempt : pc[a] \in {"exchange", "handling"}}
Disturb == disturbed' = disturbed \cup InFlight

EnableMetrics ==
    /\ \E s \in Sink, override \in Resolver \cup {NoOverride} :
           config' = Enabled(s, override)
    /\ Disturb
    /\ UNCHANGED <<saved, asked, active, pc, used, chosen, calls, result>>

\* Mutation: the flags survive the sink they describe.
DisableMetricsKeepingFlags ==
    /\ config' = [config EXCEPT !.sink = Noop, !.resolver = DefaultResolver]
    /\ Disturb
    /\ UNCHANGED <<saved, asked, active, pc, used, chosen, calls, result>>

DisableMetrics ==
    /\ config' = Disabled
    /\ Disturb
    /\ UNCHANGED <<saved, asked, active, pc, used, chosen, calls, result>>

\* A block entered again overwrites what it had saved, so it is entered anew
\* only once it is out.
EnterBlock(b) ==
    /\ ~Contains(active, b)
    /\ saved' = [saved EXCEPT ![b] = config]
    /\ \E override \in Resolver \cup {NoOverride} :
           config' = Enabled(asked[b], override)
    /\ active' = Append(active, b)
    /\ Disturb
    /\ UNCHANGED <<asked, pc, used, chosen, calls, result>>

ExitBlock(b) ==
    /\ Contains(active, b)
    /\ config' = saved[b]
    /\ active' = Remove(active, b)
    /\ Disturb
    /\ UNCHANGED <<saved, asked, pc, used, chosen, calls, result>>

-----------------------------------------------------------------------------
(* One attempt *)

\* Mutation: the sink is read from the client again.
HookOnCurrentSink(a, name, sample) ==
    [hook |-> name, sink |-> config.sink, route |-> used[a].resolver,
     sample |-> sample]

\* A call on the sink the attempt captured, with the labels it carries.
Hook(a, name, sample) ==
    [hook |-> name, sink |-> used[a].sink, route |-> used[a].resolver,
     sample |-> sample]
NoSample == Sample(NoStatus, "none", "none")

\* Mutation: the start is only announced when the handler runs.
StartAttemptUnannounced(a) ==
    /\ pc[a] = "idle"
    /\ pc' = [pc EXCEPT ![a] = "exchange"]
    /\ used' = [used EXCEPT ![a] =
           [sink |-> config.sink, resolver |-> config.resolver,
            traced |-> config.phases]]
    /\ UNCHANGED <<config, saved, asked, active, disturbed, chosen, calls, result>>

\* _request_once up to its first await.  With the NoopSink the attempt is not
\* instrumented at all.
StartAttempt(a) ==
    /\ pc[a] = "idle"
    /\ pc' = [pc EXCEPT ![a] = "exchange"]
    /\ used' = [used EXCEPT ![a] =
           [sink |-> config.sink, resolver |-> config.resolver,
            traced |-> config.phases]]
    /\ calls' = [calls EXCEPT ![a] =
           IF config.sink # Noop /\ config.lifecycle
           THEN <<[hook |-> "on_request_start", sink |-> config.sink,
                   route |-> config.resolver, sample |-> NoSample]>>
           ELSE <<>>]
    /\ UNCHANGED <<config, saved, asked, active, disturbed, chosen, result>>

\* The wrapped handler runs: it marks the status, then awaits the real one.
RunHandler(a) ==
    /\ pc[a] = "exchange"
    /\ \E s \in Status : chosen' = [chosen EXCEPT ![a] = s]
    /\ pc' = [pc EXCEPT ![a] = "handling"]
    /\ UNCHANGED <<config, saved, asked, active, disturbed, used, calls, result>>

\* Mutation: the end is announced after the call instead of in "finally".
FinallyOfSuccess(a, sample, ended) ==
    /\ pc' = [pc EXCEPT ![a] = "done"]
    /\ result' = [result EXCEPT ![a] = ended]
    /\ calls' = [calls EXCEPT ![a] =
           IF used[a].sink = Noop THEN @
           ELSE @ \o (IF config.lifecycle /\ ended \in {"returned", "retryable"}
                      THEN <<Hook(a, "on_request_end", NoSample)>> ELSE <<>>)
                  \o <<Hook(a, "observe_request", sample)>>]
    /\ UNCHANGED <<config, saved, asked, active, disturbed, used, chosen>>

\* The "finally": the flag is that of the configuration of this moment, the
\* sink that of the start.  A sink that does not define on_request_end has no
\* such attribute, and the exception replaces the result and the sample.
Finally(a, sample, ended) ==
    /\ pc' = [pc EXCEPT ![a] = "done"]
    /\ \/ /\ used[a].sink = Noop
          /\ result' = [result EXCEPT ![a] = ended]
          /\ UNCHANGED calls
       \/ /\ used[a].sink # Noop
          /\ config.lifecycle
          /\ used[a].sink \notin EndSinks
          /\ result' = [result EXCEPT ![a] = "AttributeError"]
          /\ UNCHANGED calls
       \/ /\ used[a].sink # Noop
          /\ config.lifecycle => used[a].sink \in EndSinks
          /\ result' = [result EXCEPT ![a] = ended]
          /\ calls' = [calls EXCEPT ![a] = @ \o
                 (IF config.lifecycle
                  THEN <<Hook(a, "on_request_end", NoSample)>> ELSE <<>>)
                 \o <<Hook(a, "observe_request", sample)>>]
    /\ UNCHANGED <<config, saved, asked, active, disturbed, used, chosen>>

\* The handler returned.
Returns(a) ==
    /\ pc[a] = "handling"
    /\ Finally(a, Sample(chosen[a], "response", "none"), "returned")

\* The base client returned a _RetryableResponse: no handler ran.
ReturnsRetryable(a) ==
    /\ pc[a] = "exchange"
    /\ \E s \in Status : Finally(a, Sample(s, "response", "none"), "retryable")

\* A wrapped transport error is classified by the error inside.
Unwrap(e, original) == IF e = "_ObservableTransportError" THEN original ELSE e

\* The exchange fails before any handler runs, retried request or not.
ExchangeRaises(a) ==
    /\ pc[a] = "exchange"
    /\ \E original \in ExceptionClass
               \ {"HandlerError", "ClientPayloadError", "UnhandledStatusException",
                  "CancelledError", "_ObservableTransportError"} :
       \E e \in {original} \cup
               (IF Ancestors[original] \cap {"ClientOSError", "ServerDisconnectedError"} # {}
                THEN {"_ObservableTransportError"} ELSE {}) :
           Finally(a, ClassifyFailure(Unwrap(e, original), chosen[a], NoStatus), original)

\* No handler for the status: the exception carries the status.
StatusUnhandled(a) ==
    /\ pc[a] = "exchange"
    /\ \E s \in Status :
           Finally(a, ClassifyFailure("UnhandledStatusException", chosen[a], s),
                   "UnhandledStatusException")

\* Reading or decoding the body fails in the handler.
HandlerRaises(a) ==
    /\ pc[a] = "handling"
    /\ \E e \in {"HandlerError", "ClientPayloadError", "SocketTimeoutError",
                 "ConnectionReset"} :
           Finally(a, ClassifyFailure(e, chosen[a], NoStatus), e)

Cancel(a) ==
    /\ pc[a] \in {"exchange", "handling"}
    /\ Finally(a, ClassifyFailure("CancelledError", chosen[a], NoStatus),
               "CancelledError")

Reconfigure ==
    \/ EnableMetrics \/ DisableMetrics
    \/ \E b \in Block : EnterBlock(b) \/ ExitBlock(b)

Work(a) ==
    \/ StartAttempt(a) \/ RunHandler(a)
    \/ Returns(a) \/ ReturnsRetryable(a)
    \/ ExchangeRaises(a) \/ StatusUnhandled(a) \/ HandlerRaises(a) \/ Cancel(a)

Next == Reconfigure \/ \E a \in Attempt : Work(a)

Spec == Init /\ [][Next]_vars

-----------------------------------------------------------------------------
(* Blocks only *)

\* Metrics are only ever scoped to blocks, which tasks open and close freely.
BlocksSpec ==
    Init /\ [][\/ \E b \in Block : EnterBlock(b) \/ ExitBlock(b)
               \/ \E a \in Attempt : Work(a)]_vars

-----------------------------------------------------------------------------
(* Properties *)

Heard(a, name) == Cardinality({i \in 1..Len(calls[a]) : calls[a][i].hook = name})

\* The client always has a sink or the NoopSink and a resolver that can be
\* called, as enable, disable and the blocks leave them; attempts end with what
\* the attempt met or with the AttributeError of a missing hook.
TypeOK ==
    /\ config \in Config
    /\ saved \in [Block -> Config]
    /\ pc \in [Attempt -> {"idle", "exchange", "handling", "done"}]
    /\ used \in [Attempt -> [sink : Sink \cup {Noop}, traced : BOOLEAN,
                            resolver : Resolver \cup {DefaultResolver}]]
    /\ chosen \in [Attempt -> Status \cup {NoStatus}]
    /\ result \in [Attempt -> ExceptionClass \cup
                       {"pending", "returned", "retryable", "AttributeError"}]

\* However enable, disable and blocks interleave, the flags describe the sink
\* that is enabled: an attempt never starts by calling a hook that is missing.
FlagsDescribeSink ==
    /\ config.lifecycle <=> DetectLifecycle(config.sink)
    /\ config.phases <=> DetectPhases(config.sink)

\* An attempt reports to the sink that was enabled when it started, with the
\* route of that moment, wherever the client reports by the time it ends:
\* one sample, unless its sink broke, and nothing for an attempt that started
\* without metrics.
SampleGoesToStartSink ==
    \A a \in Attempt :
        /\ \A i \in 1..Len(calls[a]) :
               /\ calls[a][i].sink = used[a].sink
               /\ calls[a][i].route = used[a].resolver
        /\ pc[a] = "done" /\ result[a] # "AttributeError" =>
               Heard(a, "observe_request") = (IF used[a].sink = Noop THEN 0 ELSE 1)

\* A gauge that a sink with both hooks keeps never goes below zero: each end it
\* hears follows a start of the same attempt.  An end without a start is heard
\* only by a sink that defines on_request_end alone, and only of an attempt in
\* whose flight the client was reconfigured (the "finally" of _request_once).
LoneEndNeedsHalfSink ==
    \A a \in Attempt :
        Heard(a, "on_request_end") > Heard(a, "on_request_start") =>
            used[a].sink \in EndSinks \ StartSinks /\ a \in disturbed

\* A sample says what the caller saw: no error type exactly for a result or
\* a cancellation, outcome "response" exactly when it names a status, and the
\* status of the response whenever a handler ran and was not cancelled.
SampleMatchesResult ==
    \A a \in Attempt : \A i \in 1..Len(calls[a]) :
        LET s == calls[a][i].sample IN
        calls[a][i].hook = "observe_request" =>
            /\ s.error_type = "none" <=>
                   result[a] \in {"returned", "retryable", "CancelledError"}
            /\ s.outcome = "response" <=> s.status # NoStatus
            /\ s.outcome = "cancelled" <=> result[a] = "CancelledError"
            /\ chosen[a] # NoStatus /\ result[a] # "CancelledError" => s.status = chosen[a]

\* Before a response arrived, a failure keeps its name in spite of the
\* overlapping hierarchy and of the wrapper of retried requests: timeouts are
\* timeouts wherever they strike; failures of TLS and of the name lookup are
\* told from other failures to connect, and these from a reset; and "other" is
\* exactly what belongs to no class the vocabulary names.
FailsToResolve(e) == IsInstance(e, "ClientConnectorDNSError") \/ IsInstance(e, "gaierror")
FailsToConnect(e) == IsInstance(e, "ClientConnectorError") \/ IsInstance(e, "ConnectionTimeoutError")
NamedClasses ==
    {"CancelledError", "TimeoutError", "ClientConnectorError", "ServerDisconnectedError",
     "ECONNRESET", "ClientPayloadError"}

FailureIsNamed ==
    \A a \in Attempt : \A i \in 1..Len(calls[a]) :
        LET s == calls[a][i].sample
            e == result[a]
        IN  (/\ calls[a][i].hook = "observe_request" /\ e \in ExceptionClass
             /\ s.status = NoStatus) =>
                /\ s.outcome = "timeout" <=> IsInstance(e, "TimeoutError")
                /\ s.error_type = "tls_error" <=> IsInstance(e, "ClientSSLError")
                /\ s.error_type = "dns_error" <=> FailsToResolve(e)
                /\ s.error_type \in {"connect_error", "dns_error", "tls_error"} <=>
                       FailsToConnect(e)
                /\ s.error_type = "connection_reset" <=>
                       IsInstance(e, "ECONNRESET") /\ ~ FailsToConnect(e)
                /\ s.error_type = "other" <=> Ancestors[e] \cap NamedClasses = {}

\* The in-flight window of an attempt is bracketed: a sink that was told of
\* the start is told of the end.
FlightIsBracketed ==
    \A a \in Attempt : pc[a] = "done" =>
        Heard(a, "on_request_start") = Heard(a, "on_request_end")

\* While nobody reconfigures the client an attempt keeps its hooks, whichever
\* sinks came before: the window is bracketed, and a sink that implements only
\* observe_request keeps working.
UndisturbedFlightIsBracketed ==
    \A a \in Attempt : pc[a] = "done" /\ a \notin disturbed =>
        /\ Heard(a, "on_request_start") = Heard(a, "on_request_end")
        /\ result[a] # "AttributeError"

\* instrument() "enables sink for the duration of a block": the block entered
\* last, of those still open, has its sink enabled.
OpenBlockHasItsSink ==
    active # <<>> => config.sink = asked[Last(active)]
=============================================================================
