------------------------------ MODULE Telemetry ------------------------------
(***************************************************************************)
(* One instrumented client with its sink enabled and its TraceConfig on    *)
(* the session: the attempts report to the sink (instrumentable_client.py) *)
(* while aiohttp calls the _PhaseTracer of trace_config.py, which times    *)
(* the waits of every attempt by stamps on the attempt's own context.      *)
(*                                                                         *)
(* aiohttp is outside of src/: its callbacks are those the code registers, *)
(* in the order in which aiohttp makes them.  A request is over for the    *)
(* tracer when its headers are there, and its body is one chunk, received  *)
(* when somebody has read it.                                              *)
(***************************************************************************)
EXTENDS MetricsSinks

CONSTANTS
    Attempt,        \* physical attempts
    Method,         \* the method of each
    Path,           \* the path of its URL: a sequence of segments
    Operation,      \* the operation label it is given, or NoOperation
    NoOperation,
    Client,         \* client_name
    Foreign,        \* attempts whose caller may pass a trace_request_ctx of its own
    ReadEarly,      \* attempts with a middleware that reads the body
    Failures,       \* exceptions of an exchange: what session.request raises
    Ok,             \* the status with a handler
    MaxHops,        \* bound on the redirects each follows, plus one
    MaxTime         \* bound on the clock

\* A segment is its text, its length and whether it has digits or letters only.
ASSUME TelemetryAssumption ==
    /\ IsFiniteSet(Attempt)
    /\ \A a \in Attempt : \A i \in DOMAIN Path[a] : Path[a][i].len \in Nat
    /\ Failures \subseteq ExceptionClass \ {"HandlerError"}
    /\ Ok \in 200..599
    /\ Foreign \subseteq Attempt /\ ReadEarly \subseteq Attempt
    /\ MaxHops \in [Attempt -> Nat \ {0}] /\ MaxTime \in Nat

VARIABLES
    clock,          \* perf_counter
    pc,             \* where each attempt is suspended
    resolving,      \* attempts with a DNS lookup: it goes on when they are over
    hops,           \* connections an attempt asked for
    foreign,        \* the attempts whose trace_request_ctx has no labels
    ctx,            \* the trace_config_ctx of each attempt
    started,        \* when _request_once started
    prometheus,     \* the metrics of a PrometheusSink
    opentelemetry,  \* those of an OpenTelemetrySink given the same calls
    result,         \* what the caller of an attempt saw
    begun,          \* ghost: when the present wait of an attempt began
    waited          \* ghost: bag of the waits that came to their end

vars == <<clock, pc, resolving, foreign, hops, ctx, started, prometheus, opentelemetry,
          result, begun, waited>>
client == <<foreign, hops, started, result>>

-----------------------------------------------------------------------------
(* Labels *)

\* default_route_resolver, segment by segment
IsId(segment) ==
    \/ segment.digits
    \/ segment.len \in {8, 16, 32, 36} /\ segment.letters
Route(path) == [i \in DOMAIN path |-> IF IsId(path[i]) THEN ":id" ELSE path[i].text]

RouteOf(a) == Route(Path[a])
OperationOf(a) == IF Operation[a] = NoOperation THEN RouteOf(a) ELSE Operation[a]
LabelsOf(a) == [client |-> Client, method |-> Method[a], route |-> RouteOf(a),
                operation |-> OperationOf(a)]

-----------------------------------------------------------------------------
(* _PhaseTracer *)

Unset == -1     \* no stamp: getattr gives None
Stamps == {"req_start", "dns_start", "pool_start", "connect_start", "first_chunk"}

\* Mutation: the stamps are kept on the tracer, which all requests share.
StampShared(a, stamp) == ctx' = [b \in Attempt |-> [ctx[b] EXCEPT ![stamp] = clock]]

Stamp(a, stamp) == ctx' = [ctx EXCEPT ![a][stamp] = clock]

\* _emit_from: nothing without a stamp, or without the labels of _labels.
EmitFrom(a, stamp, phase) ==
    IF stamp = Unset \/ a \in foreign
    THEN UNCHANGED <<prometheus, opentelemetry>>
    ELSE /\ prometheus' =
                PrometheusPhase(prometheus, Client, OperationOf(a), phase, clock - stamp)
         /\ opentelemetry' =
                OpenTelemetryPhase(opentelemetry, Client, OperationOf(a), phase, clock - stamp)

\* Mutation: the flag of the first chunk is not looked at.
OnChunkReceivedAgain(a) ==
    /\ Stamp(a, "first_chunk")
    /\ EmitFrom(a, ctx[a]["req_start"], "ttfb")

OnChunkReceived(a) ==
    IF ctx[a]["first_chunk"] # Unset
    THEN UNCHANGED <<ctx, prometheus, opentelemetry>>
    ELSE /\ Stamp(a, "first_chunk")
         /\ EmitFrom(a, ctx[a]["req_start"], "ttfb")

OnRequestEnd(a) ==
    /\ EmitFrom(a, ctx[a]["first_chunk"], "body_read")
    /\ UNCHANGED ctx

-----------------------------------------------------------------------------
Init ==
    /\ clock \in 0..MaxTime
    /\ pc = [a \in Attempt |-> "idle"]
    /\ resolving = {}
    /\ foreign \in SUBSET Foreign
    /\ hops = [a \in Attempt |-> 0]
    /\ ctx = [a \in Attempt |-> [s \in Stamps |-> Unset]]
    /\ started = [a \in Attempt |-> 0]
    /\ prometheus = NoMetrics /\ opentelemetry = NoMetrics
    /\ result = [a \in Attempt |-> "pending"]
    /\ begun = [a \in Attempt |-> [dns |-> 0, pool_wait |-> 0, connect |-> 0]]
    /\ waited = EmptyBag

Tick ==
    /\ clock < MaxTime
    /\ clock' = clock + 1
    /\ UNCHANGED <<pc, resolving, foreign, hops, ctx, started, prometheus, opentelemetry,
                   result, begun, waited>>

Go(a, from, to) == pc[a] = from /\ pc' = [pc EXCEPT ![a] = to]

\* _request_once up to session.request, whose first callback is on_request_start.
Start(a) ==
    /\ Go(a, "idle", "connector")
    /\ started' = [started EXCEPT ![a] = clock]
    /\ hops' = [hops EXCEPT ![a] = 1]
    /\ prometheus' = PrometheusStart(prometheus, LabelsOf(a))
    /\ opentelemetry' = OpenTelemetryStart(opentelemetry, LabelsOf(a))
    /\ ctx' = [ctx EXCEPT ![a]["req_start"] = clock, ![a]["first_chunk"] = Unset]
    /\ UNCHANGED <<clock, resolving, foreign, result, begun, waited>>

\* A wait begins and ends: the ghosts keep what the tracer should tell.
Begin(a, wait) == begun' = [begun EXCEPT ![a][wait] = clock] /\ UNCHANGED waited
End(a, wait) ==
    /\ waited' = IF a \in foreign THEN waited
                 ELSE Observe(waited, [client |-> Client, operation |-> OperationOf(a),
                                       phase |-> wait], clock - begun[a][wait])
    /\ UNCHANGED begun

\* The connector is at its limit: it is waited for, once per hop (a bound: when
\* another request is faster, aiohttp waits again).
QueuedStart(a) ==
    /\ Go(a, "connector", "queued")
    /\ Stamp(a, "pool_start")
    /\ Begin(a, "pool_wait")
    /\ UNCHANGED <<clock, resolving, client, prometheus, opentelemetry>>

QueuedEnd(a) ==
    /\ Go(a, "queued", "dequeued")
    /\ EmitFrom(a, ctx[a]["pool_start"], "pool_wait")
    /\ End(a, "pool_wait")
    /\ UNCHANGED <<clock, resolving, client, ctx>>

\* A connection is reused: no callback the code registers.
Reuse(a) ==
    /\ Go(a, "connector", "exchange") \/ Go(a, "dequeued", "exchange")
    /\ UNCHANGED <<clock, resolving, client, ctx, prometheus, opentelemetry, begun, waited>>

ConnectStart(a) ==
    /\ Go(a, "connector", "connecting") \/ Go(a, "dequeued", "connecting")
    /\ Stamp(a, "connect_start")
    /\ Begin(a, "connect")
    /\ UNCHANGED <<clock, resolving, client, prometheus, opentelemetry>>

DnsStart(a) ==
    /\ Go(a, "connecting", "resolving")
    /\ Stamp(a, "dns_start")
    /\ Begin(a, "dns")
    /\ resolving' = resolving \cup {a}
    /\ UNCHANGED <<clock, client, prometheus, opentelemetry>>

\* The lookup is shielded: it ends though its attempt may be over.
DnsEnd(a) ==
    /\ a \in resolving
    /\ resolving' = resolving \ {a}
    /\ pc' = [pc EXCEPT ![a] = IF @ = "resolving" THEN "resolved" ELSE @]
    /\ EmitFrom(a, ctx[a]["dns_start"], "dns")
    /\ End(a, "dns")
    /\ UNCHANGED <<clock, client, ctx>>

ConnectEnd(a) ==
    /\ Go(a, "connecting", "exchange") \/ Go(a, "resolved", "exchange")
    /\ EmitFrom(a, ctx[a]["connect_start"], "connect")
    /\ End(a, "connect")
    /\ UNCHANGED <<clock, resolving, client, ctx>>

\* The headers are there, and a middleware reads the body.
ReadInMiddleware(a) ==
    /\ a \in ReadEarly
    /\ Go(a, "exchange", "headers")
    /\ OnChunkReceived(a)
    /\ UNCHANGED <<clock, resolving, client, begun, waited>>

Responded(a) == pc[a] = IF a \in ReadEarly THEN "headers" ELSE "exchange"

\* A redirect: the next hop asks for a connection of its own.
Redirect(a) ==
    /\ Responded(a)
    /\ hops[a] < MaxHops[a]
    /\ hops' = [hops EXCEPT ![a] = @ + 1]
    /\ pc' = [pc EXCEPT ![a] = "connector"]
    /\ UNCHANGED <<clock, resolving, foreign, ctx, started, prometheus, opentelemetry,
                   result, begun, waited>>

\* session.request returns: a handler runs.
Answered(a) ==
    /\ Responded(a)
    /\ pc' = [pc EXCEPT ![a] = "handling"]
    /\ OnRequestEnd(a)
    /\ UNCHANGED <<clock, resolving, client, begun, waited>>

\* The handler reads the body, unless that was done.
ReadBody(a) ==
    /\ a \notin ReadEarly
    /\ Go(a, "handling", "read")
    /\ OnChunkReceived(a)
    /\ UNCHANGED <<clock, resolving, client, begun, waited>>

-----------------------------------------------------------------------------
(* The end of _request_once *)

\* Mutation: a failed attempt is not told to the gauge.
FinallyOfSuccess(a, s, ended) ==
    /\ pc' = [pc EXCEPT ![a] = "done"]
    /\ result' = [result EXCEPT ![a] = ended]
    /\ prometheus' = PrometheusRequest(
           IF ended = "returned" THEN PrometheusEnd(prometheus, LabelsOf(a)) ELSE prometheus,
           LabelsOf(a), s, clock - started[a])
    /\ opentelemetry' = OpenTelemetryRequest(
           IF ended = "returned" THEN OpenTelemetryEnd(opentelemetry, LabelsOf(a))
           ELSE opentelemetry, LabelsOf(a), s, clock - started[a])
    /\ UNCHANGED <<clock, resolving, foreign, hops, ctx, started, begun, waited>>

Finally(a, s, ended) ==
    /\ pc' = [pc EXCEPT ![a] = "done"]
    /\ result' = [result EXCEPT ![a] = ended]
    /\ prometheus' = PrometheusRequest(PrometheusEnd(prometheus, LabelsOf(a)),
                                       LabelsOf(a), s, clock - started[a])
    /\ opentelemetry' = OpenTelemetryRequest(OpenTelemetryEnd(opentelemetry, LabelsOf(a)),
                                             LabelsOf(a), s, clock - started[a])
    /\ UNCHANGED <<clock, resolving, foreign, hops, ctx, started, begun, waited>>

\* The handler returns, whether it read the body or not.
Return(a) ==
    /\ pc[a] \in {"handling", "read"}
    /\ Finally(a, Sample(Ok, "response", "none"), "returned")

\* An exchange fails at any of its waits.
Fail(a) ==
    /\ pc[a] \notin {"idle", "handling", "read", "done"}
    /\ \E e \in Failures : Finally(a, ClassifyFailure(e, NoStatus, NoStatus), e)

HandlerFails(a) ==
    /\ pc[a] \in {"handling", "read"}
    /\ \E e \in {"HandlerError", "CancelledError"} :
           Finally(a, ClassifyFailure(e, Ok, NoStatus), e)

Next ==
    \/ Tick
    \/ \E a \in Attempt :
          \/ Start(a) \/ QueuedStart(a) \/ QueuedEnd(a) \/ Reuse(a)
          \/ ConnectStart(a) \/ DnsStart(a) \/ DnsEnd(a) \/ ConnectEnd(a)
          \/ ReadInMiddleware(a) \/ Redirect(a) \/ Answered(a) \/ ReadBody(a)
          \/ Return(a) \/ Fail(a) \/ HandlerFails(a)

Spec == Init /\ [][Next]_vars

-----------------------------------------------------------------------------
(* Properties *)

Phases(names) ==
    LET seen == prometheus.phases
    IN  [x \in {y \in DOMAIN seen : y.labels.phase \in names} |-> seen[x]]

\* What is in a bag, each copy told apart.
Copies(bag) == UNION {{x} \X (1..bag[x]) : x \in DOMAIN bag}

\* Each wait for a lookup, a pooled connection or a new one is told once and
\* for as long as it took, of the attempt and of the hop it was of: though
\* attempts overlap, redirects stamp the same context again, and a lookup ends
\* after its attempt.  A reused connection tells nothing.
PhasesTellTheWaits == Phases({"dns", "pool_wait", "connect"}) = waited

\* An attempt tells the time to the first byte at most once, whoever reads its
\* body and however many hops it took, and only when a body was read; body_read
\* is told at most as often.
FirstByteOnce ==
    LET read == {a \in Attempt \ foreign : ctx[a]["first_chunk"] # Unset}
        told(phase) == {copy \in Copies(prometheus.phases) : copy[1].labels.phase = phase}
    IN  /\ Cardinality(told("ttfb")) = Cardinality(read)
        /\ Cardinality(told("body_read")) <= Cardinality(read \cap ReadEarly)

Open(labels) ==
    {a \in Attempt : pc[a] \notin {"idle", "done"} /\ LabelsOf(a) = labels}

\* The gauge of every label set, the operation and the normalized route among
\* them, shows the attempts in flight: it is zero when they are over, however
\* they ended.
GaugeShowsOpenAttempts ==
    \A labels \in {LabelsOf(a) : a \in Attempt} :
        LET gauge == prometheus.in_flight
        IN  (IF labels \in DOMAIN gauge THEN gauge[labels] ELSE 0) = Cardinality(Open(labels))

Ended(results) == {a \in Attempt : pc[a] = "done" /\ result[a] \in results}

\* Two sinks given the same calls show the same series.  Their instruments
\* agree: the histogram has as many observations per outcome as the counter has
\* requests, and the errors are the requests that raised, cancellations aside.
SinksTellTheSame ==
    /\ prometheus = opentelemetry
    /\ LET total    == Copies(prometheus.total)
           latency  == Copies(prometheus.latency)
           answered == Cardinality(Ended({"returned", "HandlerError"}))
       IN  /\ Cardinality(total) = Cardinality(Ended(ExceptionClass \cup {"returned"}))
           /\ Cardinality(latency) = Cardinality(total)
           /\ Cardinality({x \in total : x[1].outcome = "response"}) = answered
           /\ Cardinality({x \in latency : x[1].labels.outcome = "response"}) = answered
    /\ Cardinality(Copies(prometheus.errors)) =
           Cardinality(Ended(ExceptionClass \ {"CancelledError"}))

\* The phases of a request are "dns, pool_wait, connect, ttfb and body_read": a
\* handler that has read the body has had the reading told.
BodyReadIsTold ==
    \A a \in Attempt \ foreign : pc[a] = "read" =>
        \E x \in DOMAIN prometheus.phases :
            x.labels.operation = OperationOf(a) /\ x.labels.phase = "body_read"
=============================================================================
