---------------------------- MODULE MetricsSinks ----------------------------
(***************************************************************************)
(* What the sinks of asyncly/client/metrics/sinks make of the calls of an  *)
(* instrumented client.  PrometheusSink passes label values by position to *)
(* metrics that declare the names; OpenTelemetrySink passes attributes by  *)
(* name.  A sink's metrics are a record of its instruments:                *)
(*   total, errors   bags of label sets, one copy per increment            *)
(*   latency, phases bags of [labels, seconds], one copy per observation   *)
(*   in_flight       the gauge, for the label sets it has seen             *)
(***************************************************************************)
EXTENDS Taxonomy, SequencesExt

NoMetrics ==
    [total |-> EmptyBag, latency |-> EmptyBag, errors |-> EmptyBag,
     in_flight |-> [l \in {} |-> 0], phases |-> EmptyBag]

Count(bag, x) == bag (+) SetToBag({x})
Observe(bag, labels, seconds) == Count(bag, [labels |-> labels, seconds |-> seconds])
Add(gauge, labels, n) ==
    [l \in DOMAIN gauge \cup {labels} |->
        (IF l \in DOMAIN gauge THEN gauge[l] ELSE 0) + (IF l = labels THEN n ELSE 0)]

\* str(status), where NoStatus stands for the string it is already
StatusLabel(status) == IF status = NoStatus THEN "none" ELSE ToString(status)
HistogramOutcome(outcome) == IF outcome = "response" THEN "response" ELSE "error"
CountsAsError(s) == s.error_type # "none"

-----------------------------------------------------------------------------
(* PrometheusSink *)

Common == <<"client", "method", "route", "operation">>
LatencyNames == Append(Common, "outcome")
TotalNames == Common \o <<"status", "outcome">>
ErrorNames == Append(Common, "error_type")
PhaseNames == <<"client", "operation", "phase">>

\* labels(*values)
Labels(names, values) ==
    [n \in ToSet(names) |-> values[CHOOSE i \in DOMAIN names : names[i] = n]]
Positional(c) == <<c.client, c.method, c.route, c.operation>>

PrometheusStart(m, c) == [m EXCEPT !.in_flight = Add(@, Labels(Common, Positional(c)), 1)]
PrometheusEnd(m, c) == [m EXCEPT !.in_flight = Add(@, Labels(Common, Positional(c)), -1)]

\* Mutation: the two last labels of the counter change places.
PrometheusRequestSwapped(m, c, s, duration) ==
    [m EXCEPT
       !.total = Count(@, Labels(TotalNames,
                    Positional(c) \o <<s.outcome, StatusLabel(s.status)>>)),
       !.latency = Observe(@, Labels(LatencyNames,
                    Append(Positional(c), HistogramOutcome(s.outcome))), duration),
       !.errors = IF CountsAsError(s)
                  THEN Count(@, Labels(ErrorNames, Append(Positional(c), s.error_type)))
                  ELSE @]

PrometheusRequest(m, c, s, duration) ==
    [m EXCEPT
       !.total = Count(@, Labels(TotalNames,
                    Positional(c) \o <<StatusLabel(s.status), s.outcome>>)),
       !.latency = Observe(@, Labels(LatencyNames,
                    Append(Positional(c), HistogramOutcome(s.outcome))), duration),
       !.errors = IF CountsAsError(s)
                  THEN Count(@, Labels(ErrorNames, Append(Positional(c), s.error_type)))
                  ELSE @]

PrometheusPhase(m, client, operation, phase, seconds) ==
    [m EXCEPT !.phases = Observe(@, Labels(PhaseNames, <<client, operation, phase>>), seconds)]

-----------------------------------------------------------------------------
(* OpenTelemetrySink *)

Base(c) == [client |-> c.client, method |-> c.method, route |-> c.route,
            operation |-> c.operation]

OpenTelemetryStart(m, c) == [m EXCEPT !.in_flight = Add(@, Base(c), 1)]
OpenTelemetryEnd(m, c) == [m EXCEPT !.in_flight = Add(@, Base(c), -1)]

\* {**base, ...}: the attributes written after base win.
With(base, more) ==
    [n \in DOMAIN base \cup DOMAIN more |-> IF n \in DOMAIN more THEN more[n] ELSE base[n]]

OpenTelemetryRequest(m, c, s, duration) ==
    [m EXCEPT
       !.total = Count(@, With(Base(c), [status |-> StatusLabel(s.status),
                                         outcome |-> s.outcome])),
       !.latency = Observe(@, With(Base(c), [outcome |-> HistogramOutcome(s.outcome)]), duration),
       !.errors = IF CountsAsError(s)
                  THEN Count(@, With(Base(c), [error_type |-> s.error_type])) ELSE @]

OpenTelemetryPhase(m, client, operation, phase, seconds) ==
    [m EXCEPT !.phases = Observe(@, [client |-> client, operation |-> operation,
                                     phase |-> phase], seconds)]
=============================================================================
