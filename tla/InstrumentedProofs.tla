------------------------- MODULE InstrumentedProofs -------------------------
(***************************************************************************)
(* Proofs about InstrumentedClient: for any sinks, blocks, resolvers and   *)
(* statuses, and any number of attempts at the same time.                  *)
(***************************************************************************)
EXTENDS InstrumentedClient, FiniteSetTheorems, TLAPS

(* the inductive invariant *)

\* The flags of a configuration, enabled or put aside by a block.
FlagsAreOf(c) ==
    /\ c.lifecycle <=> DetectLifecycle(c.sink)
    /\ c.phases <=> DetectPhases(c.sink)

Labels == [status : Status \cup {NoStatus},
           outcome : {"none", "response", "cancelled", "timeout", "network_error"},
           error_type : {"none", "connect_error", "read_timeout", "tls_error", "dns_error",
                         "server_disconnected", "connection_reset", "payload_error", "other",
                         "invalid_response"}]
Call == [hook : {"on_request_start", "on_request_end", "observe_request"},
         sink : Sink \cup {Noop}, route : Resolver \cup {DefaultResolver},
         sample : Labels]

\* A sample that says what the caller sees, with the status a handler ran for,
\* and names a failure before the response.
Fits(s, ended, status) ==
    /\ s.error_type = "none" <=> ended \in {"returned", "retryable", "CancelledError"}
    /\ s.outcome = "response" <=> s.status # NoStatus
    /\ s.outcome = "cancelled" <=> ended = "CancelledError"
    /\ status # NoStatus /\ ended # "CancelledError" => s.status = status
NamesType(error, ended) ==
    /\ error = "tls_error" <=> IsInstance(ended, "ClientSSLError")
    /\ error = "dns_error" <=> FailsToResolve(ended)
    /\ error \in {"connect_error", "dns_error", "tls_error"} <=> FailsToConnect(ended)
    /\ error = "connection_reset" <=> IsInstance(ended, "ECONNRESET") /\ ~ FailsToConnect(ended)
    /\ error = "other" <=> Ancestors[ended] \cap NamedClasses = {}
Names(s, ended) ==
    ended \in ExceptionClass /\ s.status = NoStatus =>
        /\ s.outcome = "timeout" <=> IsInstance(ended, "TimeoutError")
        /\ NamesType(s.error_type, ended)

\* Until it ends an attempt has only announced its start; a handler runs for a
\* response, whose status is marked then and not before.
AttemptOK(a) ==
    /\ pc[a] # "done" =>
           \A i \in 1..Len(calls[a]) : calls[a][i].hook = "on_request_start"
    /\ pc[a] = "done" =>
           \A i \in 1..Len(calls[a]) : calls[a][i].hook = "observe_request" =>
               /\ Fits(calls[a][i].sample, result[a], chosen[a])
               /\ Names(calls[a][i].sample, result[a])
    /\ pc[a] = "exchange" => chosen[a] = NoStatus
    /\ pc[a] = "idle" => chosen[a] = NoStatus
    /\ pc[a] = "handling" => chosen[a] \in Status

IInv ==
    /\ TypeOK
    /\ asked \in [Block -> Sink]
    /\ calls \in [Attempt -> Seq(Call)]
    /\ FlagsAreOf(config) /\ \A b \in Block : FlagsAreOf(saved[b])
    /\ \A a \in Attempt : AttemptOK(a)

-----------------------------------------------------------------------------
(* the ladder *)

LEMMA LadderFacts ==
    ASSUME NEW e \in ExceptionClass
    PROVE  LET c == ClassifyException(e)
           IN  /\ Sample(NoStatus, c[1], c[2]) \in Labels
               /\ c[1] # "response"
               /\ c[2] = "none" <=> e = "CancelledError"
               /\ c[1] = "cancelled" <=> e = "CancelledError"
               /\ c[1] = "timeout" <=> IsInstance(e, "TimeoutError")
  <1> DEFINE c == ClassifyException(e)
  <1>1. Sample(NoStatus, c[1], c[2]) \in Labels
    BY DEF ClassifyException, Sample, Labels
  <1>2. c[1] # "response" /\ (c[2] = "none" <=> c[1] = "cancelled")
    BY DEF ClassifyException
  <1>3. c[1] = "cancelled" <=> e = "CancelledError"
    BY DEF ExceptionClass, Ancestors, ClassifyException, IsInstance
  <1>4. c[1] = "timeout" <=> IsInstance(e, "TimeoutError")
    BY DEF ExceptionClass, Ancestors, ClassifyException, IsInstance
  <1>5. QED
    BY <1>1, <1>2, <1>3, <1>4

\* The order of the rungs names each class what it is.
LEMMA NamingFacts ==
    ASSUME NEW e \in ExceptionClass
    PROVE  NamesType(ClassifyException(e)[2], e)
  <1> DEFINE error == ClassifyException(e)[2]
  <1>1. /\ error = "tls_error" <=> IsInstance(e, "ClientSSLError")
        /\ error = "dns_error" <=> FailsToResolve(e)
    BY DEF ExceptionClass, Ancestors, ClassifyException, IsInstance, FailsToResolve
  <1>2. error \in {"connect_error", "dns_error", "tls_error"} <=> FailsToConnect(e)
    BY DEF ExceptionClass, Ancestors, ClassifyException, IsInstance, FailsToConnect
  <1>3. error = "connection_reset" <=> IsInstance(e, "ECONNRESET") /\ ~ FailsToConnect(e)
    BY DEF ExceptionClass, Ancestors, ClassifyException, IsInstance, FailsToConnect
  <1>4. error = "other" <=> Ancestors[e] \cap NamedClasses = {}
    BY DEF ExceptionClass, Ancestors, ClassifyException, IsInstance, NamedClasses
  <1>5. QED
    BY <1>1, <1>2, <1>3, <1>4 DEF NamesType

\* The sample of a failure fits it, whichever await it came from.
LEMMA FailureFits ==
    ASSUME NEW e \in ExceptionClass, NEW chosenStatus \in Status \cup {NoStatus},
           NEW own \in Status \cup {NoStatus}
    PROVE  LET s == ClassifyFailure(e, chosenStatus, own)
           IN  /\ Fits(s, e, chosenStatus) /\ Names(s, e)
               /\ s \in Labels
  <1> DEFINE c == ClassifyException(e)
             status == IF chosenStatus # NoStatus THEN chosenStatus ELSE own
             s == ClassifyFailure(e, chosenStatus, own)
  <1>1. /\ Sample(NoStatus, c[1], c[2]) \in Labels
        /\ c[1] # "response"
        /\ c[2] = "none" <=> e = "CancelledError"
        /\ c[1] = "cancelled" <=> e = "CancelledError"
        /\ c[1] = "timeout" <=> IsInstance(e, "TimeoutError")
    BY LadderFacts
  <1>2. e \notin {"returned", "retryable"}
    BY DEF ExceptionClass, Ancestors
  <1>3. s = IF e = "CancelledError" \/ status = NoStatus
            THEN Sample(NoStatus, c[1], c[2]) ELSE Sample(status, "response", "invalid_response")
    BY DEF ClassifyFailure
  <1> HIDE DEF c, s
  <1>4. ASSUME e = "CancelledError" \/ status = NoStatus
        PROVE  Fits(s, e, chosenStatus) /\ Names(s, e) /\ s \in Labels
    <2>1. s.status = NoStatus /\ s.outcome = c[1] /\ s.error_type = c[2]
      BY <1>3, <1>4 DEF Sample
    <2>2. s \in Labels
      BY <1>1, <1>3, <1>4
    <2>3. Fits(s, e, chosenStatus)
      BY <1>1, <1>2, <1>4, <2>1 DEF Fits
    <2>4. NamesType(c[2], e)
      BY NamingFacts DEF c
    <2>5. Names(s, e)
      BY <1>1, <2>1, <2>4 DEF Names
    <2>6. QED
      BY <2>2, <2>3, <2>5
  <1>5. ASSUME ~ (e = "CancelledError" \/ status = NoStatus)
        PROVE  Fits(s, e, chosenStatus) /\ Names(s, e) /\ s \in Labels
    <2>1. s.status = status /\ s.outcome = "response" /\ s.error_type = "invalid_response"
      BY <1>3, <1>5 DEF Sample
    <2>2. s \in Labels
      BY <1>3, <1>5 DEF Sample, Labels
    <2>3. QED
      BY <1>2, <1>5, <2>1, <2>2 DEF Fits, Names
  <1>6. QED
    BY <1>4, <1>5 DEF s

LEMMA ResponseFits ==
    ASSUME NEW status \in Status, NEW ended \in {"returned", "retryable"},
           NEW marked \in {NoStatus, status}
    PROVE  LET s == Sample(status, "response", "none")
           IN  /\ Fits(s, ended, marked) /\ Names(s, ended)
               /\ s \in Labels
  <1>1. status # NoStatus
    BY InstrumentedAssumption DEF NoStatus
  <1>2. ended \notin ExceptionClass
    BY DEF ExceptionClass, Ancestors
  <1>3. QED
    BY <1>1, <1>2 DEF Sample, Fits, Names, Labels

-----------------------------------------------------------------------------
(* the steps *)

LEMMA EnabledFacts ==
    ASSUME IInv, NEW s \in Sink, NEW override \in Resolver \cup {NoOverride}
    PROVE  Enabled(s, override) \in Config /\ FlagsAreOf(Enabled(s, override))
  <1> DEFINE resolver == IF override = NoOverride THEN config.resolver ELSE override
  <1>1. resolver \in Resolver \cup {DefaultResolver}
    BY DEF IInv, TypeOK, Config
  <1>2. Enabled(s, override) = [sink |-> s, lifecycle |-> DetectLifecycle(s),
                                phases |-> DetectPhases(s), resolver |-> resolver]
    BY DEF Enabled
  <1>3. DetectLifecycle(s) \in BOOLEAN /\ DetectPhases(s) \in BOOLEAN
    BY DEF DetectLifecycle, DetectPhases
  <1> HIDE DEF resolver
  <1>4. QED
    BY <1>1, <1>2, <1>3 DEF Config, FlagsAreOf

\* A step that only changes the configuration keeps the invariant if it leaves
\* a configuration whose flags are those of its sink.
LEMMA ReconfigureStep ==
    ASSUME IInv, Reconfigure
    PROVE  IInv'
  <1>1. UNCHANGED <<asked, pc, used, chosen, calls, result>>
    BY DEF Reconfigure, EnableMetrics, DisableMetrics, EnterBlock, ExitBlock
  <1>2. /\ config' \in Config /\ FlagsAreOf(config')
        /\ saved' \in [Block -> Config] /\ \A b \in Block : FlagsAreOf(saved'[b])
    <2>1. CASE EnableMetrics
      BY <2>1, EnabledFacts DEF EnableMetrics, IInv, TypeOK
    <2>2. CASE DisableMetrics
      BY <2>2, InstrumentedAssumption
      DEF DisableMetrics, Disabled, Config, FlagsAreOf, DetectLifecycle, DetectPhases, IInv, TypeOK
    <2>3. ASSUME NEW b \in Block, EnterBlock(b)
          PROVE  /\ config' \in Config /\ FlagsAreOf(config')
                 /\ saved' \in [Block -> Config] /\ \A d \in Block : FlagsAreOf(saved'[d])
      BY <2>3, EnabledFacts DEF EnterBlock, IInv, TypeOK
    <2>4. ASSUME NEW b \in Block, ExitBlock(b)
          PROVE  /\ config' \in Config /\ FlagsAreOf(config')
                 /\ saved' \in [Block -> Config] /\ \A d \in Block : FlagsAreOf(saved'[d])
      BY <2>4 DEF ExitBlock, IInv, TypeOK
    <2>5. QED
      BY <2>1, <2>2, <2>3, <2>4 DEF Reconfigure
  <1>3. TypeOK'
    BY <1>1, <1>2 DEF IInv, TypeOK
  <1>4. \A a \in Attempt : AttemptOK(a)'
    BY <1>1 DEF IInv, AttemptOK
  <1>5. QED
    BY <1>1, <1>2, <1>3, <1>4 DEF IInv

\* The other attempts are as they were.
LEMMA AttemptFrame ==
    ASSUME IInv, NEW a \in Attempt, AttemptOK(a)',
           UNCHANGED <<config, saved, asked>>, TypeOK', calls' \in [Attempt -> Seq(Call)],
           \A b \in Attempt \ {a} : /\ pc'[b] = pc[b] /\ calls'[b] = calls[b]
                                    /\ chosen'[b] = chosen[b] /\ result'[b] = result[b]
    PROVE  IInv'
  <1>1. ASSUME NEW b \in Attempt \ {a}
        PROVE  AttemptOK(b)'
    <2>1. AttemptOK(b)
      BY DEF IInv
    <2>2. /\ pc'[b] = pc[b] /\ calls'[b] = calls[b]
          /\ chosen'[b] = chosen[b] /\ result'[b] = result[b]
      OBVIOUS
    <2>3. QED
      BY <2>1, <2>2 DEF AttemptOK
  <1>2. QED
    BY <1>1 DEF IInv

LEMMA StartStep ==
    ASSUME IInv, NEW a \in Attempt, StartAttempt(a)
    PROVE  IInv'
  <1> DEFINE start == [hook |-> "on_request_start", sink |-> config.sink,
                       route |-> config.resolver, sample |-> NoSample]
  <1>1. config \in Config
    BY DEF IInv, TypeOK
  <1>2. start \in Call /\ start.hook = "on_request_start"
    BY <1>1 DEF Call, Config, NoSample, Sample, Labels
  <1> HIDE DEF start
  <1>3. calls' = [calls EXCEPT ![a] = <<start>>] \/ calls' = [calls EXCEPT ![a] = <<>>]
    BY DEF StartAttempt, start
  <1>4. calls' \in [Attempt -> Seq(Call)]
    <2>1. <<start>> \in Seq(Call) /\ <<>> \in Seq(Call)
      BY <1>2
    <2> HIDE DEF Call
    <2>2. QED
      BY <2>1, <1>3 DEF IInv
  <1>5. \A i \in 1..Len(calls'[a]) : calls'[a][i].hook = "on_request_start"
    BY <1>2, <1>3 DEF IInv
  <1>6. /\ pc' = [pc EXCEPT ![a] = "exchange"] /\ UNCHANGED <<config, saved, asked, chosen, result>>
        /\ pc[a] = "idle"
        /\ used' = [used EXCEPT ![a] = [sink |-> config.sink, resolver |-> config.resolver,
                                        traced |-> config.phases]]
    BY DEF StartAttempt
  <1>7. TypeOK'
    BY <1>1, <1>6 DEF IInv, TypeOK, Config
  <1>8. AttemptOK(a)'
    BY <1>5, <1>6 DEF IInv, TypeOK, AttemptOK
  <1>9. QED
    BY <1>3, <1>4, <1>6, <1>7, <1>8, AttemptFrame DEF IInv, TypeOK

LEMMA RunHandlerStep ==
    ASSUME IInv, NEW a \in Attempt, RunHandler(a)
    PROVE  IInv'
  <1>1. PICK s \in Status : chosen' = [chosen EXCEPT ![a] = s]
    BY DEF RunHandler
  <1>2. /\ pc[a] = "exchange" /\ pc' = [pc EXCEPT ![a] = "handling"]
        /\ UNCHANGED <<config, saved, asked, used, calls, result>>
    BY DEF RunHandler
  <1>3. TypeOK'
    BY <1>1, <1>2 DEF IInv, TypeOK
  <1>4. AttemptOK(a)'
    BY <1>1, <1>2 DEF IInv, TypeOK, AttemptOK
  <1>5. QED
    BY <1>1, <1>2, <1>3, <1>4, AttemptFrame DEF IInv, TypeOK

\* The "finally" adds at most the end and the sample to what the sink heard.
LEMMA FinallyStep ==
    ASSUME IInv, NEW a \in Attempt, pc[a] \in {"exchange", "handling"},
           NEW ended \in ExceptionClass \cup {"returned", "retryable"},
           NEW sample \in Labels,
           Fits(sample, ended, chosen[a]), Names(sample, ended), Finally(a, sample, ended)
    PROVE  IInv'
  <1> DEFINE end == Hook(a, "on_request_end", NoSample)
             observed == Hook(a, "observe_request", sample)
  <1>1. /\ pc' = [pc EXCEPT ![a] = "done"]
        /\ UNCHANGED <<config, saved, asked, used, chosen>>
        /\ \/ result' = [result EXCEPT ![a] = ended] /\ calls' = calls
           \/ result' = [result EXCEPT ![a] = "AttributeError"] /\ calls' = calls
           \/ /\ result' = [result EXCEPT ![a] = ended]
              /\ \/ calls' = [calls EXCEPT ![a] = @ \o <<end>> \o <<observed>>]
                 \/ calls' = [calls EXCEPT ![a] = @ \o <<>> \o <<observed>>]
    BY DEF Finally
  <1>2. /\ end \in Call /\ end.hook = "on_request_end"
        /\ observed \in Call /\ observed.sample = sample
    BY DEF Hook, Call, NoSample, Sample, Labels, IInv, TypeOK
  <1>3. calls[a] \in Seq(Call) /\ \A i \in 1..Len(calls[a]) : calls[a][i].hook = "on_request_start"
    BY DEF IInv, AttemptOK
  <1> HIDE DEF end, observed
  <1>4. /\ calls' \in [Attempt -> Seq(Call)]
        /\ \A i \in 1..Len(calls'[a]) : calls'[a][i].hook = "observe_request" =>
               calls'[a][i] = observed /\ result'[a] = ended
    <2>1. CASE calls' = calls
      BY <2>1, <1>3 DEF IInv
    <2>2. ASSUME calls' = [calls EXCEPT ![a] = @ \o <<end>> \o <<observed>>],
                 result' = [result EXCEPT ![a] = ended]
          PROVE  <1>4!1 /\ <1>4!2
      <3> DEFINE told == calls[a] \o <<end>> \o <<observed>>
      <3>1. /\ told \in Seq(Call) /\ Len(told) = Len(calls[a]) + 2
            /\ \A i \in 1..Len(calls[a]) : told[i] = calls[a][i]
            /\ told[Len(calls[a]) + 1] = end /\ told[Len(calls[a]) + 2] = observed
        BY <1>2, <1>3
      <3>2. calls' = [calls EXCEPT ![a] = told]
        BY <2>2
      <3> HIDE DEF told
      <3>3. calls'[a] = told /\ result'[a] = ended /\ calls' \in [Attempt -> Seq(Call)]
        BY <3>1, <3>2, <2>2 DEF IInv, TypeOK
      <3>4. \A i \in 1..Len(told) : i \in 1..Len(calls[a]) \/ i = Len(calls[a]) + 1
                                    \/ i = Len(calls[a]) + 2
        BY <3>1, <1>3
      <3>5. QED
        BY <3>1, <3>3, <3>4, <1>2, <1>3
    <2>3. ASSUME calls' = [calls EXCEPT ![a] = @ \o <<>> \o <<observed>>],
                 result' = [result EXCEPT ![a] = ended]
          PROVE  <1>4!1 /\ <1>4!2
      <3> DEFINE told == calls[a] \o <<>> \o <<observed>>
      <3>1. /\ told \in Seq(Call) /\ Len(told) = Len(calls[a]) + 1
            /\ \A i \in 1..Len(calls[a]) : told[i] = calls[a][i]
            /\ told[Len(calls[a]) + 1] = observed
        BY <1>2, <1>3
      <3>2. calls' = [calls EXCEPT ![a] = told]
        BY <2>3
      <3> HIDE DEF told
      <3>3. calls'[a] = told /\ result'[a] = ended /\ calls' \in [Attempt -> Seq(Call)]
        BY <3>1, <3>2, <2>3 DEF IInv, TypeOK
      <3>4. \A i \in 1..Len(told) : i \in 1..Len(calls[a]) \/ i = Len(calls[a]) + 1
        BY <3>1, <1>3
      <3>5. QED
        BY <3>1, <3>3, <3>4, <1>3
    <2>4. QED
      BY <1>1, <2>1, <2>2, <2>3
  <1>5. TypeOK'
    BY <1>1 DEF IInv, TypeOK
  <1>6. pc'[a] = "done"
    BY <1>1 DEF IInv, TypeOK
  <1>7. AttemptOK(a)'
    BY <1>1, <1>2, <1>4, <1>6 DEF AttemptOK
  <1>8. QED
    BY <1>1, <1>4, <1>5, <1>7, AttemptFrame DEF IInv, TypeOK

LEMMA EndSteps ==
    ASSUME IInv, NEW a \in Attempt,
           \/ Returns(a) \/ ReturnsRetryable(a) \/ ExchangeRaises(a)
           \/ StatusUnhandled(a) \/ HandlerRaises(a) \/ Cancel(a)
    PROVE  IInv'
  <1>1. /\ pc[a] = "exchange" => chosen[a] = NoStatus
        /\ pc[a] = "handling" => chosen[a] \in Status
        /\ NoStatus \notin Status
    BY InstrumentedAssumption DEF IInv, AttemptOK, NoStatus
  <1>2. CASE Returns(a)
    BY <1>1, <1>2, ResponseFits, FinallyStep DEF Returns
  <1>3. CASE ReturnsRetryable(a)
    BY <1>1, <1>3, ResponseFits, FinallyStep DEF ReturnsRetryable
  <1>4. CASE ExchangeRaises(a)
    <2>1. PICK original \in ExceptionClass
                 \ {"HandlerError", "ClientPayloadError", "UnhandledStatusException",
                    "CancelledError", "_ObservableTransportError"} :
            \E e \in {original, "_ObservableTransportError"} :
              Finally(a, ClassifyFailure(Unwrap(e, original), chosen[a], NoStatus), original)
      BY <1>4 DEF ExchangeRaises
    <2>2. Finally(a, ClassifyFailure(original, chosen[a], NoStatus), original)
      BY <2>1 DEF Unwrap
    <2>3. pc[a] = "exchange"
      BY <1>4 DEF ExchangeRaises
    <2>4. QED
      BY <1>1, <2>1, <2>2, <2>3, FailureFits, FinallyStep
  <1>5. CASE StatusUnhandled(a)
    <2>1. PICK s \in Status :
            Finally(a, ClassifyFailure("UnhandledStatusException", chosen[a], s),
                    "UnhandledStatusException")
      BY <1>5 DEF StatusUnhandled
    <2>2. pc[a] = "exchange" /\ "UnhandledStatusException" \in ExceptionClass
      BY <1>5 DEF StatusUnhandled, ExceptionClass, Ancestors
    <2>3. QED
      BY <1>1, <2>1, <2>2, FailureFits, FinallyStep
  <1>6. CASE HandlerRaises(a)
    <2>1. PICK e \in {"HandlerError", "ClientPayloadError", "SocketTimeoutError",
                      "ConnectionReset"} :
            Finally(a, ClassifyFailure(e, chosen[a], NoStatus), e)
      BY <1>6 DEF HandlerRaises
    <2>2. pc[a] = "handling" /\ e \in ExceptionClass
      BY <1>6 DEF HandlerRaises, ExceptionClass, Ancestors
    <2>3. QED
      BY <1>1, <2>1, <2>2, FailureFits, FinallyStep
  <1>7. CASE Cancel(a)
    <2>1. Finally(a, ClassifyFailure("CancelledError", chosen[a], NoStatus), "CancelledError")
      BY <1>7 DEF Cancel
    <2>2. pc[a] \in {"exchange", "handling"} /\ "CancelledError" \in ExceptionClass
      BY <1>7 DEF Cancel, ExceptionClass, Ancestors
    <2>3. QED
      BY <1>1, <2>1, <2>2, FailureFits, FinallyStep
  <1>8. QED
    BY <1>2, <1>3, <1>4, <1>5, <1>6, <1>7

-----------------------------------------------------------------------------
(* the invariant holds *)

LEMMA InitIInv == Init => IInv
  <1> SUFFICES ASSUME Init PROVE IInv
    OBVIOUS
  <1>1. Disabled \in Config /\ FlagsAreOf(Disabled)
    BY InstrumentedAssumption
    DEF Disabled, Config, FlagsAreOf, DetectLifecycle, DetectPhases
  <1>2. TypeOK
    BY <1>1 DEF Init, TypeOK
  <1>3. calls \in [Attempt -> Seq(Call)] /\ \A a \in Attempt : AttemptOK(a)
    BY DEF Init, AttemptOK
  <1>4. QED
    BY <1>1, <1>2, <1>3 DEF Init, IInv

LEMMA NextIInv == IInv /\ [Next]_vars => IInv'
  <1> SUFFICES ASSUME IInv, [Next]_vars PROVE IInv'
    OBVIOUS
  <1>1. ASSUME NEW a \in Attempt, Work(a) PROVE IInv'
    BY <1>1, StartStep, RunHandlerStep, EndSteps DEF Work
  <1>2. CASE UNCHANGED vars
    BY <1>2 DEF vars, IInv, TypeOK, AttemptOK
  <1>3. QED
    BY <1>1, <1>2, ReconfigureStep DEF Next

LEMMA Invariance == Spec => []IInv
  BY InitIInv, NextIInv, PTL DEF Spec

-----------------------------------------------------------------------------
(* what the sink of an attempt hears *)

Start(a) == Hook(a, "on_request_start", NoSample)
End(a) == Hook(a, "on_request_end", NoSample)
Observed(a, sample) == Hook(a, "observe_request", sample)

\* The start is announced to a sink that has the hook, and no other.
Announced(a) == IF DetectLifecycle(used[a].sink) THEN <<Start(a)>> ELSE <<>>

\* How an attempt is over: nothing was told at its end, because it had no sink
\* or the sink broke, or the sample alone, or the end and the sample.
TellsNothing(a) ==
    /\ calls[a] = Announced(a)
    /\ IF result[a] = "AttributeError" THEN a \in disturbed ELSE used[a].sink = Noop
TellsSample(a) ==
    /\ \E sample : calls[a] = Announced(a) \o <<>> \o <<Observed(a, sample)>>
    /\ used[a].sink # Noop /\ result[a] # "AttributeError"
    /\ DetectLifecycle(used[a].sink) => a \in disturbed
TellsEnd(a) ==
    /\ \E sample : calls[a] = Announced(a) \o <<End(a)>> \o <<Observed(a, sample)>>
    /\ used[a].sink # Noop /\ result[a] # "AttributeError"
    /\ used[a].sink \in EndSinks
    /\ DetectLifecycle(used[a].sink) \/ a \in disturbed

HeardOK(a) ==
    /\ pc[a] = "idle" => calls[a] = <<>>
    /\ pc[a] \in {"exchange", "handling"} =>
           /\ calls[a] = Announced(a)
           /\ a \in disturbed \/ (config.lifecycle <=> DetectLifecycle(used[a].sink))
    /\ pc[a] = "done" => TellsNothing(a) \/ TellsSample(a) \/ TellsEnd(a)

HInv == \A a \in Attempt : HeardOK(a)

\* A step that leaves an attempt leaves what its sink heard; whoever changes the
\* configuration disturbs the attempts in flight.
LEMMA HeardFrame ==
    ASSUME NEW a \in Attempt, HeardOK(a), disturbed \subseteq disturbed',
           pc'[a] = pc[a], calls'[a] = calls[a], used'[a] = used[a], result'[a] = result[a],
           config' = config \/ (pc[a] \in {"exchange", "handling"} => a \in disturbed')
    PROVE  HeardOK(a)'
  <1>1. /\ Announced(a)' = Announced(a) /\ End(a)' = End(a)
        /\ \A sample : Hook(a, "observe_request", sample)' = Hook(a, "observe_request", sample)
    BY DEF Announced, Start, End, Hook, NoSample, Sample
  <1>2. /\ TellsNothing(a) => TellsNothing(a)'
        /\ TellsSample(a) => TellsSample(a)'
        /\ TellsEnd(a) => TellsEnd(a)'
    BY <1>1 DEF TellsNothing, TellsSample, TellsEnd, Observed
  <1>3. QED
    BY <1>1, <1>2 DEF HeardOK

LEMMA HeardReconfigure ==
    ASSUME IInv, HInv, Reconfigure
    PROVE  HInv'
  <1>1. UNCHANGED <<pc, used, calls, result>> /\ disturbed' = disturbed \cup InFlight
    BY DEF Reconfigure, EnableMetrics, DisableMetrics, EnterBlock, ExitBlock, Disturb
  <1>2. QED
    BY <1>1, HeardFrame DEF HInv, InFlight

LEMMA HeardStart ==
    ASSUME IInv, HInv, NEW a \in Attempt, StartAttempt(a)
    PROVE  HInv'
  <1>1. /\ pc' = [pc EXCEPT ![a] = "exchange"] /\ UNCHANGED <<config, disturbed, result>>
        /\ used' = [used EXCEPT ![a] = [sink |-> config.sink, resolver |-> config.resolver,
                                        traced |-> config.phases]]
        /\ \A b \in Attempt \ {a} : calls'[b] = calls[b]
    BY DEF StartAttempt, IInv
  <1>2. used'[a].sink = config.sink /\ used'[a].resolver = config.resolver
    BY <1>1 DEF IInv, TypeOK
  <1>3. config.lifecycle <=> DetectLifecycle(config.sink)
    BY DEF IInv, FlagsAreOf
  <1>4. DetectLifecycle(config.sink) => config.sink # Noop
    BY InstrumentedAssumption DEF DetectLifecycle
  <1>5. calls'[a] = Announced(a)'
    BY <1>2, <1>3, <1>4 DEF StartAttempt, IInv, Announced, Start, Hook, NoSample, Sample
  <1>6. pc'[a] = "exchange" /\ \A b \in Attempt \ {a} : pc'[b] = pc[b] /\ used'[b] = used[b]
    BY <1>1 DEF IInv, TypeOK
  <1>7. HeardOK(a)'
    BY <1>1, <1>2, <1>3, <1>5, <1>6 DEF HeardOK, DetectLifecycle
  <1>8. \A b \in Attempt \ {a} : HeardOK(b)'
    BY <1>1, <1>6, HeardFrame DEF HInv
  <1>9. QED
    BY <1>7, <1>8 DEF HInv

LEMMA HeardHandler ==
    ASSUME IInv, HInv, NEW a \in Attempt, RunHandler(a)
    PROVE  HInv'
  <1>1. /\ pc[a] = "exchange" /\ pc' = [pc EXCEPT ![a] = "handling"]
        /\ UNCHANGED <<config, disturbed, used, calls, result>>
    BY DEF RunHandler
  <1>2. pc'[a] = "handling" /\ \A b \in Attempt \ {a} : pc'[b] = pc[b]
    BY <1>1 DEF IInv, TypeOK
  <1>3. Announced(a)' = Announced(a)
    BY <1>1 DEF Announced, Start, Hook, NoSample, Sample
  <1>4. HeardOK(a)'
    BY <1>1, <1>2, <1>3 DEF HInv, HeardOK
  <1>5. \A b \in Attempt \ {a} : HeardOK(b)'
    BY <1>1, <1>2, HeardFrame DEF HInv
  <1>6. QED
    BY <1>4, <1>5 DEF HInv

LEMMA HeardFinally ==
    ASSUME IInv, HInv, NEW a \in Attempt, pc[a] \in {"exchange", "handling"},
           NEW sample, NEW ended \in ExceptionClass \cup {"returned", "retryable"},
           Finally(a, sample, ended)
    PROVE  HInv'
  <1>1. /\ pc' = [pc EXCEPT ![a] = "done"]
        /\ UNCHANGED <<config, disturbed, used>>
    BY DEF Finally
  <1>2. /\ Announced(a)' = Announced(a) /\ End(a)' = End(a)
        /\ Hook(a, "observe_request", sample)' = Hook(a, "observe_request", sample)
    BY <1>1 DEF Announced, Start, End, Hook, NoSample, Sample
  <1>3. /\ calls[a] = Announced(a)
        /\ a \in disturbed \/ (config.lifecycle <=> DetectLifecycle(used[a].sink))
    BY DEF HInv, HeardOK
  <1>4. ended # "AttributeError"
    BY DEF ExceptionClass, Ancestors
  <1>5. CASE used[a].sink = Noop
    <2>1. calls' = calls /\ result' = [result EXCEPT ![a] = ended]
      BY <1>5 DEF Finally
    <2>2. TellsNothing(a)'
      BY <2>1, <1>1, <1>2, <1>3, <1>4, <1>5 DEF TellsNothing, IInv, TypeOK
    <2>3. QED
      BY <2>1, <2>2, <1>1, HeardFrame DEF HInv, HeardOK, IInv, TypeOK
  <1>6. CASE /\ used[a].sink # Noop /\ config.lifecycle /\ used[a].sink \notin EndSinks
    <2>1. calls' = calls /\ result' = [result EXCEPT ![a] = "AttributeError"]
      BY <1>6 DEF Finally
    <2>2. TellsNothing(a)'
      BY <2>1, <1>1, <1>2, <1>3, <1>6 DEF TellsNothing, DetectLifecycle, IInv, TypeOK
    <2>3. QED
      BY <2>1, <2>2, <1>1, HeardFrame DEF HInv, HeardOK, IInv, TypeOK
  <1>7. CASE used[a].sink # Noop /\ config.lifecycle /\ used[a].sink \in EndSinks
    <2>1. /\ calls' = [calls EXCEPT ![a] = @ \o <<End(a)>> \o <<Observed(a, sample)>>]
          /\ result' = [result EXCEPT ![a] = ended]
      BY <1>7 DEF Finally, End, Observed
    <2>2. calls'[a] = Announced(a) \o <<End(a)>> \o <<Observed(a, sample)>>
      BY <2>1, <1>3 DEF IInv
    <2>3. TellsEnd(a)'
      BY <2>1, <2>2, <1>1, <1>2, <1>3, <1>4, <1>7
      DEF TellsEnd, Observed, DetectLifecycle, IInv, TypeOK
    <2>4. QED
      BY <2>1, <2>3, <1>1, HeardFrame DEF HInv, HeardOK, IInv, TypeOK
  <1>8. CASE used[a].sink # Noop /\ ~ config.lifecycle
    <2>1. /\ calls' = [calls EXCEPT ![a] = @ \o <<>> \o <<Observed(a, sample)>>]
          /\ result' = [result EXCEPT ![a] = ended]
      BY <1>8 DEF Finally, Observed
    <2>2. calls'[a] = Announced(a) \o <<>> \o <<Observed(a, sample)>>
      BY <2>1, <1>3 DEF IInv
    <2>3. TellsSample(a)'
      BY <2>1, <2>2, <1>1, <1>2, <1>3, <1>4, <1>8
      DEF TellsSample, Observed, DetectLifecycle, IInv, TypeOK
    <2>4. QED
      BY <2>1, <2>3, <1>1, HeardFrame DEF HInv, HeardOK, IInv, TypeOK
  <1>9. QED
    BY <1>5, <1>6, <1>7, <1>8

LEMMA HeardEnds ==
    ASSUME IInv, HInv, NEW a \in Attempt,
           \/ Returns(a) \/ ReturnsRetryable(a) \/ ExchangeRaises(a)
           \/ StatusUnhandled(a) \/ HandlerRaises(a) \/ Cancel(a)
    PROVE  HInv'
  <1>1. pc[a] \in {"exchange", "handling"}
    BY DEF Returns, ReturnsRetryable, ExchangeRaises, StatusUnhandled, HandlerRaises, Cancel
  <1>2. /\ "UnhandledStatusException" \in ExceptionClass /\ "CancelledError" \in ExceptionClass
        /\ {"HandlerError", "ClientPayloadError", "SocketTimeoutError", "ConnectionReset"}
               \subseteq ExceptionClass
    BY DEF ExceptionClass, Ancestors
  <1>3. \E sample, ended :
            /\ ended \in ExceptionClass \cup {"returned", "retryable"}
            /\ Finally(a, sample, ended)
    BY <1>2 DEF Returns, ReturnsRetryable, ExchangeRaises, StatusUnhandled, HandlerRaises, Cancel
  <1>4. QED
    BY <1>1, <1>3, HeardFinally

LEMMA HeardInvariance == Spec => []HInv
  <1>1. Init => HInv
    BY DEF Init, HInv, HeardOK
  <1>2. IInv /\ HInv /\ [Next]_vars => HInv'
    <2> SUFFICES ASSUME IInv, HInv, [Next]_vars PROVE HInv'
      OBVIOUS
    <2>1. ASSUME NEW a \in Attempt, Work(a) PROVE HInv'
      BY <2>1, HeardStart, HeardHandler, HeardEnds DEF Work
    <2>2. CASE UNCHANGED vars
      BY <2>2, HeardFrame DEF vars, HInv
    <2>3. QED
      BY <2>1, <2>2, HeardReconfigure DEF Next
  <1>3. QED
    BY <1>1, <1>2, Invariance, PTL DEF Spec

\* How often each hook was called, from what was told.
LEMMA HeardCounts ==
    ASSUME NEW a \in Attempt, NEW n \in {0, 1}, NEW told \in {"nothing", "sample", "end"},
           n = IF DetectLifecycle(used[a].sink) THEN 1 ELSE 0,
           told = "nothing" => calls[a] = Announced(a),
           told = "sample" =>
               \E sample : calls[a] = Announced(a) \o <<>> \o <<Observed(a, sample)>>,
           told = "end" =>
               \E sample : calls[a] = Announced(a) \o <<End(a)>> \o <<Observed(a, sample)>>
    PROVE  /\ \A i \in 1..Len(calls[a]) : /\ calls[a][i].sink = used[a].sink
                                          /\ calls[a][i].route = used[a].resolver
           /\ Heard(a, "on_request_start") = n
           /\ Heard(a, "on_request_end") = IF told = "end" THEN 1 ELSE 0
           /\ Heard(a, "observe_request") = IF told = "nothing" THEN 0 ELSE 1
  <1> DEFINE m == IF told = "nothing" THEN n ELSE IF told = "sample" THEN n + 1 ELSE n + 2
  <1>1. PICK sample : /\ told = "sample" => calls[a] = Announced(a) \o <<>> \o <<Observed(a, sample)>>
                      /\ told = "end" =>
                             calls[a] = Announced(a) \o <<End(a)>> \o <<Observed(a, sample)>>
    OBVIOUS
  <1> DEFINE S == {Start(a), End(a), Observed(a, sample)}
  <1>2. /\ Announced(a) \in Seq(S) /\ Len(Announced(a)) = n
        /\ \A i \in 1..n : Announced(a)[i] = Start(a)
    <2>1. CASE n = 1
      <3>1. Announced(a) = <<Start(a)>> /\ Start(a) \in S
        BY <2>1 DEF Announced
      <3> HIDE DEF S
      <3>2. QED
        BY <3>1, <2>1
    <2>2. CASE n = 0
      BY <2>2 DEF Announced
    <2>3. QED
      BY <2>1, <2>2
  <1>3. /\ Len(calls[a]) = m
        /\ \A i \in 1..n : calls[a][i] = Start(a)
        /\ told = "sample" => calls[a][n + 1] = Observed(a, sample)
        /\ told = "end" => calls[a][n + 1] = End(a) /\ calls[a][n + 2] = Observed(a, sample)
    <2>1. <<End(a)>> \in Seq(S) /\ <<Observed(a, sample)>> \in Seq(S) /\ <<>> \in Seq(S)
      OBVIOUS
    <2> HIDE DEF S
    <2>2. CASE told = "nothing"
      BY <1>2, <2>2
    <2>3. CASE told = "sample"
      BY <1>1, <1>2, <2>1, <2>3
    <2>4. CASE told = "end"
      BY <1>1, <1>2, <2>1, <2>4
    <2>5. QED
      BY <2>2, <2>3, <2>4
  <1>4. /\ \A i \in 1..Len(calls[a]) : i \in 1..n \/ i = n + 1 \/ i = n + 2
        /\ m \in Nat /\ m >= n
    BY <1>3
  <1>5. /\ Start(a).hook = "on_request_start" /\ End(a).hook = "on_request_end"
        /\ Observed(a, sample).hook = "observe_request"
        /\ \A c \in S : c.sink = used[a].sink /\ c.route = used[a].resolver
    BY DEF Start, End, Observed, Hook
  <1>6. \A i \in 1..Len(calls[a]) : calls[a][i] \in S
    BY <1>3, <1>4
  <1> HIDE DEF S
  <1>7. Heard(a, "on_request_start") = n
    <2>1. {i \in 1..Len(calls[a]) : calls[a][i].hook = "on_request_start"} = 1..n
      BY <1>3, <1>4, <1>5
    <2>2. Cardinality(1..n) = n
      BY FS_Interval
    <2>3. QED
      BY <2>1, <2>2 DEF Heard
  <1>8. Heard(a, "on_request_end") = IF told = "end" THEN 1 ELSE 0
    <2>1. {i \in 1..Len(calls[a]) : calls[a][i].hook = "on_request_end"}
          = IF told = "end" THEN {n + 1} ELSE {}
      BY <1>3, <1>4, <1>5
    <2>2. QED
      BY <2>1, FS_Singleton, FS_EmptySet DEF Heard
  <1>9. Heard(a, "observe_request") = IF told = "nothing" THEN 0 ELSE 1
    <2>1. {i \in 1..Len(calls[a]) : calls[a][i].hook = "observe_request"}
          = IF told = "nothing" THEN {} ELSE {m}
      BY <1>3, <1>4, <1>5
    <2>2. QED
      BY <2>1, FS_Singleton, FS_EmptySet DEF Heard
  <1>10. QED
    BY <1>5, <1>6, <1>7, <1>8, <1>9

LEMMA HeardFacts ==
    ASSUME IInv, HInv, NEW a \in Attempt
    PROVE  /\ \A i \in 1..Len(calls[a]) : /\ calls[a][i].sink = used[a].sink
                                          /\ calls[a][i].route = used[a].resolver
           /\ Heard(a, "on_request_end") > Heard(a, "on_request_start") =>
                  used[a].sink \in EndSinks \ StartSinks /\ a \in disturbed
           /\ pc[a] = "done" =>
                  /\ result[a] # "AttributeError" =>
                         Heard(a, "observe_request") = IF used[a].sink = Noop THEN 0 ELSE 1
                  /\ a \notin disturbed =>
                         /\ Heard(a, "on_request_start") = Heard(a, "on_request_end")
                         /\ result[a] # "AttributeError"
  <1> DEFINE n == IF DetectLifecycle(used[a].sink) THEN 1 ELSE 0
  <1>1. CASE pc[a] = "idle"
    <2>1. calls[a] = <<>>
      BY <1>1 DEF HInv, HeardOK
    <2>2. \A name : {i \in 1..Len(calls[a]) : calls[a][i].hook = name} = {}
      BY <2>1
    <2>3. \A name : Heard(a, name) = 0
      BY <2>2, FS_EmptySet DEF Heard
    <2>4. QED
      BY <1>1, <2>1, <2>3
  <1>2. CASE pc[a] \in {"exchange", "handling"} \/ (pc[a] = "done" /\ TellsNothing(a))
    <2>1. calls[a] = Announced(a)
      BY <1>2 DEF HInv, HeardOK, TellsNothing
    <2>2. /\ \A i \in 1..Len(calls[a]) : /\ calls[a][i].sink = used[a].sink
                                         /\ calls[a][i].route = used[a].resolver
          /\ Heard(a, "on_request_start") = n
          /\ Heard(a, "on_request_end") = 0 /\ Heard(a, "observe_request") = 0
      BY <2>1, HeardCounts
    <2>3. used[a].sink = Noop => n = 0
      BY InstrumentedAssumption DEF DetectLifecycle
    <2>4. QED
      BY <1>2, <2>2, <2>3 DEF TellsNothing
  <1>3. CASE pc[a] = "done" /\ TellsSample(a)
    <2>1. /\ \A i \in 1..Len(calls[a]) : /\ calls[a][i].sink = used[a].sink
                                         /\ calls[a][i].route = used[a].resolver
          /\ Heard(a, "on_request_start") = n
          /\ Heard(a, "on_request_end") = 0 /\ Heard(a, "observe_request") = 1
      BY <1>3, HeardCounts DEF TellsSample
    <2>2. QED
      BY <1>3, <2>1 DEF TellsSample
  <1>4. CASE pc[a] = "done" /\ TellsEnd(a)
    <2>1. /\ \A i \in 1..Len(calls[a]) : /\ calls[a][i].sink = used[a].sink
                                         /\ calls[a][i].route = used[a].resolver
          /\ Heard(a, "on_request_start") = n
          /\ Heard(a, "on_request_end") = 1 /\ Heard(a, "observe_request") = 1
      BY <1>4, HeardCounts DEF TellsEnd
    <2>2. QED
      BY <1>4, <2>1 DEF TellsEnd, DetectLifecycle
  <1>5. QED
    BY <1>1, <1>2, <1>3, <1>4 DEF HInv, HeardOK, IInv, TypeOK

-----------------------------------------------------------------------------
(* the theorems *)

\* The configuration, what blocks put aside and what attempts captured keep
\* their types, and an attempt ends in one of the ways there are.
THEOREM TypeCorrect == Spec => []TypeOK
  <1>1. IInv => TypeOK
    BY DEF IInv
  <1>2. QED
    BY <1>1, Invariance, PTL

\* However enable_metrics, disable_metrics and instrument() blocks of any number
\* of tasks interleave, the two flags are those of the sink that is enabled.
THEOREM FlagsStayOfTheSink == Spec => []FlagsDescribeSink
  <1>1. IInv => FlagsDescribeSink
    BY DEF IInv, FlagsAreOf, FlagsDescribeSink
  <1>2. QED
    BY <1>1, Invariance, PTL

\* A sample agrees with what the caller of _request_once saw, whenever the
\* exchange, the handler or a cancellation ended it.
THEOREM SamplesMatchResults == Spec => []SampleMatchesResult
  <1>1. IInv => SampleMatchesResult
    <2> SUFFICES ASSUME IInv, NEW a \in Attempt, NEW i \in 1..Len(calls[a]),
                        calls[a][i].hook = "observe_request"
                 PROVE  Fits(calls[a][i].sample, result[a], chosen[a])
      BY DEF SampleMatchesResult, Fits
    <2>1. pc[a] = "done"
      BY DEF IInv, AttemptOK
    <2>2. QED
      BY <2>1 DEF IInv, AttemptOK
  <1>2. QED
    BY <1>1, Invariance, PTL

\* A failure before the response is named for what it was, in spite of the
\* overlapping hierarchy and of the wrapper of retried requests.
THEOREM FailuresAreNamed == Spec => []FailureIsNamed
  <1>1. IInv => FailureIsNamed
    <2> SUFFICES ASSUME IInv, NEW a \in Attempt, NEW i \in 1..Len(calls[a]),
                        calls[a][i].hook = "observe_request"
                 PROVE  Names(calls[a][i].sample, result[a])
      BY DEF FailureIsNamed, Names, NamesType
    <2>1. pc[a] = "done"
      BY DEF IInv, AttemptOK
    <2>2. QED
      BY <2>1 DEF IInv, AttemptOK
  <1>2. QED
    BY <1>1, Invariance, PTL

\* One sample for each attempt that started with metrics, on the sink and with
\* the route of its start, however often the client is reconfigured meanwhile.
THEOREM SamplesGoToTheStartSink == Spec => []SampleGoesToStartSink
  <1>1. IInv /\ HInv => SampleGoesToStartSink
    BY HeardFacts DEF SampleGoesToStartSink
  <1>2. QED
    BY <1>1, Invariance, HeardInvariance, PTL

\* No gauge of a sink with both hooks goes below zero, reconfigured client or not:
\* only a sink that defines on_request_end alone hears an end without a start, and
\* only when the client was reconfigured in the flight.
THEOREM LoneEndsNeedHalfSinks == Spec => []LoneEndNeedsHalfSink
  <1>1. IInv /\ HInv => LoneEndNeedsHalfSink
    BY HeardFacts DEF LoneEndNeedsHalfSink
  <1>2. QED
    BY <1>1, Invariance, HeardInvariance, PTL

\* Reconfiguration in flight is the only way to leave a window open, or to call
\* a hook that a sink does not have.
THEOREM UndisturbedFlightsAreBracketed == Spec => []UndisturbedFlightIsBracketed
  <1>1. IInv /\ HInv => UndisturbedFlightIsBracketed
    BY HeardFacts DEF UndisturbedFlightIsBracketed
  <1>2. QED
    BY <1>1, Invariance, HeardInvariance, PTL
=============================================================================
