--------------------------- MODULE TelemetryProofs ---------------------------
(***************************************************************************)
(* Proofs about Telemetry: the gauge of the attempts in flight, the phases *)
(* told of their waits and bodies, and the agreement of the sinks, for any *)
(* number of attempts, labels, redirects and failures.                     *)
(***************************************************************************)
EXTENDS Telemetry, FiniteSetTheorems, TLAPS

(* the gauge *)

\* What a gauge shows of labels it has not seen.
Shown(gauge, labels) == IF labels \in DOMAIN gauge THEN gauge[labels] ELSE 0
IsGauge(gauge) == \A labels \in DOMAIN gauge : gauge[labels] \in Int

LEMMA AddFacts ==
    ASSUME NEW gauge, NEW labels, NEW n \in Int, IsGauge(gauge)
    PROVE  /\ IsGauge(Add(gauge, labels, n))
           /\ \A l : Shown(Add(gauge, labels, n), l) =
                         Shown(gauge, l) + (IF l = labels THEN n ELSE 0)
  <1>1. /\ DOMAIN Add(gauge, labels, n) = DOMAIN gauge \cup {labels}
        /\ \A l \in DOMAIN gauge \cup {labels} :
               Add(gauge, labels, n)[l] = (IF l \in DOMAIN gauge THEN gauge[l] ELSE 0)
                                          + (IF l = labels THEN n ELSE 0)
    BY DEF Add
  <1>2. \A l : Shown(gauge, l) \in Int
    BY DEF Shown, IsGauge
  <1>3. QED
    BY <1>1, <1>2 DEF Shown, IsGauge

\* The values that PrometheusSink passes by position are those of the names.
LEMMA PositionsAreNames ==
    ASSUME NEW a \in Attempt
    PROVE  Labels(Common, Positional(LabelsOf(a))) = LabelsOf(a)
  <1> DEFINE c == LabelsOf(a)
             names == {"client", "method", "route", "operation"}
  <1>1. /\ DOMAIN Common = 1..4 /\ Common[1] = "client" /\ Common[2] = "method"
        /\ Common[3] = "route" /\ Common[4] = "operation"
    BY DEF Common
  <1>2. ToSet(Common) = names
    <2>1. 1 \in DOMAIN Common /\ 2 \in DOMAIN Common /\ 3 \in DOMAIN Common /\ 4 \in DOMAIN Common
      BY <1>1
    <2>2. \A i \in DOMAIN Common : Common[i] \in names
      BY <1>1
    <2>3. QED
      BY <1>1, <2>1, <2>2 DEF ToSet
  <1>3. /\ Positional(c)[1] = c.client /\ Positional(c)[2] = c.method
        /\ Positional(c)[3] = c.route /\ Positional(c)[4] = c.operation
    BY DEF Positional
  <1>4. /\ (CHOOSE i \in DOMAIN Common : Common[i] = "client") = 1
        /\ (CHOOSE i \in DOMAIN Common : Common[i] = "method") = 2
        /\ (CHOOSE i \in DOMAIN Common : Common[i] = "route") = 3
        /\ (CHOOSE i \in DOMAIN Common : Common[i] = "operation") = 4
    BY <1>1
  <1>5. Labels(Common, Positional(c)) =
            [x \in names |-> Positional(c)[CHOOSE i \in DOMAIN Common : Common[i] = x]]
    BY <1>2 DEF Labels
  <1>6. c = [x \in names |-> c[x]]
    BY DEF LabelsOf
  <1>7. \A x \in names : Positional(c)[CHOOSE i \in DOMAIN Common : Common[i] = x] = c[x]
    BY <1>3, <1>4
  <1> HIDE DEF c, names
  <1>8. QED
    BY <1>5, <1>6, <1>7 DEF c

-----------------------------------------------------------------------------
(* the inductive invariant *)

Instruments == {"total", "latency", "errors", "in_flight", "phases"}

IInv ==
    /\ DOMAIN pc = Attempt
    /\ DOMAIN prometheus = Instruments
    /\ IsGauge(prometheus.in_flight)
    /\ \A labels : Shown(prometheus.in_flight, labels) = Cardinality(Open(labels))

\* A step that starts no attempt and ends none, and tells a phase at most.
LEMMA QuietStep ==
    ASSUME IInv, DOMAIN pc' = Attempt,
           \A a \in Attempt : pc'[a] \in {"idle", "done"} <=> pc[a] \in {"idle", "done"},
           \/ prometheus' = prometheus
           \/ \E a \in Attempt : \E phase, seconds :
                  prometheus' = PrometheusPhase(prometheus, Client, OperationOf(a), phase, seconds)
    PROVE  IInv'
  <1>1. DOMAIN prometheus' = Instruments /\ prometheus'.in_flight = prometheus.in_flight
    BY DEF IInv, PrometheusPhase, Instruments
  <1>2. \A labels : Open(labels)' = Open(labels)
    BY DEF Open
  <1>3. QED
    BY <1>1, <1>2 DEF IInv

LEMMA OpenIsFinite ==
    ASSUME NEW labels
    PROVE  IsFiniteSet(Open(labels))
  BY TelemetryAssumption, FS_Subset DEF Open

-----------------------------------------------------------------------------
(* the steps *)

LEMMA EmitFacts ==
    ASSUME NEW a \in Attempt, NEW stamp, NEW phase, EmitFrom(a, stamp, phase)
    PROVE  \/ prometheus' = prometheus
           \/ \E b \in Attempt : \E p, seconds :
                  prometheus' = PrometheusPhase(prometheus, Client, OperationOf(b), p, seconds)
  BY DEF EmitFrom

\* The waits of an attempt, and the callbacks of the tracer.
LEMMA WaitSteps ==
    ASSUME IInv, NEW a \in Attempt,
           \/ QueuedStart(a) \/ QueuedEnd(a) \/ Reuse(a) \/ ConnectStart(a) \/ DnsStart(a)
           \/ DnsEnd(a) \/ ConnectEnd(a) \/ ReadInMiddleware(a) \/ Redirect(a) \/ Answered(a)
           \/ ReadBody(a)
    PROVE  IInv'
  <1>1. /\ DOMAIN pc' = Attempt
        /\ \A b \in Attempt : pc'[b] \in {"idle", "done"} <=> pc[b] \in {"idle", "done"}
    BY DEF IInv, QueuedStart, QueuedEnd, Reuse, ConnectStart, DnsStart, DnsEnd, ConnectEnd,
           ReadInMiddleware, Redirect, Answered, ReadBody, Responded, Go
  <1>2. CASE QueuedStart(a) \/ Reuse(a) \/ ConnectStart(a) \/ DnsStart(a) \/ Redirect(a)
    <2>1. prometheus' = prometheus
      BY <1>2 DEF QueuedStart, Reuse, ConnectStart, DnsStart, Redirect
    <2>2. QED
      BY <1>1, <2>1, QuietStep
  <1>3. CASE QueuedEnd(a) \/ DnsEnd(a) \/ ConnectEnd(a)
    <2>1. \E stamp, phase : EmitFrom(a, stamp, phase)
      BY <1>3 DEF QueuedEnd, DnsEnd, ConnectEnd
    <2>2. QED
      BY <1>1, <2>1, EmitFacts, QuietStep
  <1>4. CASE ReadInMiddleware(a) \/ Answered(a) \/ ReadBody(a)
    <2>1. prometheus' = prometheus \/ \E stamp, phase : EmitFrom(a, stamp, phase)
      BY <1>4 DEF ReadInMiddleware, Answered, ReadBody, OnChunkReceived, OnRequestEnd
    <2>2. QED
      BY <1>1, <2>1, EmitFacts, QuietStep
  <1>5. QED
    BY <1>2, <1>3, <1>4

LEMMA StartStep ==
    ASSUME IInv, NEW a \in Attempt, Start(a)
    PROVE  IInv'
  <1>1. /\ pc[a] = "idle" /\ pc' = [pc EXCEPT ![a] = "connector"]
        /\ prometheus' = PrometheusStart(prometheus, LabelsOf(a))
    BY DEF Start, Go
  <1>2. /\ DOMAIN prometheus' = Instruments
        /\ prometheus'.in_flight = Add(prometheus.in_flight, LabelsOf(a), 1)
    BY <1>1, PositionsAreNames DEF IInv, PrometheusStart, Instruments
  <1>3. /\ IsGauge(prometheus'.in_flight)
        /\ \A l : Shown(prometheus'.in_flight, l) =
                      Cardinality(Open(l)) + (IF l = LabelsOf(a) THEN 1 ELSE 0)
    BY <1>2, AddFacts DEF IInv
  <1>4. \A l : /\ Open(l)' = IF l = LabelsOf(a) THEN Open(l) \cup {a} ELSE Open(l)
               /\ a \notin Open(l)
    BY <1>1 DEF IInv, Open, LabelsOf
  <1>5. \A l : Cardinality(Open(l)') = Cardinality(Open(l)) + (IF l = LabelsOf(a) THEN 1 ELSE 0)
    BY <1>4, OpenIsFinite, FS_AddElement, FS_CardinalityType
  <1>6. QED
    BY <1>1, <1>2, <1>3, <1>5 DEF IInv

LEMMA FinallyStep ==
    ASSUME IInv, NEW a \in Attempt, pc[a] \notin {"idle", "done"},
           NEW s, NEW ended, Finally(a, s, ended)
    PROVE  IInv'
  <1>1. /\ pc' = [pc EXCEPT ![a] = "done"]
        /\ \E seconds : prometheus' = PrometheusRequest(PrometheusEnd(prometheus, LabelsOf(a)),
                                                        LabelsOf(a), s, seconds)
    BY DEF Finally
  <1>2. /\ DOMAIN prometheus' = Instruments
        /\ prometheus'.in_flight = Add(prometheus.in_flight, LabelsOf(a), -1)
    <2> DEFINE m == PrometheusEnd(prometheus, LabelsOf(a))
    <2>1. DOMAIN m = Instruments /\ m.in_flight = Add(prometheus.in_flight, LabelsOf(a), -1)
      BY PositionsAreNames DEF IInv, PrometheusEnd, Instruments
    <2> HIDE DEF m
    <2>2. \A seconds : LET x == PrometheusRequest(m, LabelsOf(a), s, seconds)
                       IN  DOMAIN x = Instruments /\ x.in_flight = m.in_flight
      BY <2>1 DEF PrometheusRequest, Instruments
    <2>3. QED
      BY <1>1, <2>1, <2>2 DEF m
  <1>3. /\ IsGauge(prometheus'.in_flight)
        /\ \A l : Shown(prometheus'.in_flight, l) =
                      Cardinality(Open(l)) + (IF l = LabelsOf(a) THEN -1 ELSE 0)
    BY <1>2, AddFacts DEF IInv
  <1>4. \A l : /\ Open(l)' = IF l = LabelsOf(a) THEN Open(l) \ {a} ELSE Open(l)
               /\ l = LabelsOf(a) => a \in Open(l)
    BY <1>1 DEF IInv, Open, LabelsOf
  <1>5. \A l : Cardinality(Open(l)') = Cardinality(Open(l)) + (IF l = LabelsOf(a) THEN -1 ELSE 0)
    <2>1. \A l : Cardinality(Open(l)) \in Nat
      BY OpenIsFinite, FS_CardinalityType
    <2>2. Cardinality(Open(LabelsOf(a)) \ {a}) = Cardinality(Open(LabelsOf(a))) - 1
      BY <1>4, OpenIsFinite, FS_RemoveElement
    <2>3. QED
      BY <1>4, <2>1, <2>2
  <1>6. QED
    BY <1>1, <1>2, <1>3, <1>5 DEF IInv

-----------------------------------------------------------------------------
(* the invariant holds *)

LEMMA InitIInv == Init => IInv
  <1> SUFFICES ASSUME Init PROVE IInv
    OBVIOUS
  <1>1. DOMAIN prometheus = Instruments /\ DOMAIN prometheus.in_flight = {}
    BY DEF Init, NoMetrics, Instruments
  <1>2. DOMAIN pc = Attempt /\ \A labels : Open(labels) = {}
    BY DEF Init, Open
  <1>3. QED
    BY <1>1, <1>2, FS_EmptySet DEF IInv, IsGauge, Shown

LEMMA NextIInv == IInv /\ [Next]_vars => IInv'
  <1> SUFFICES ASSUME IInv, [Next]_vars PROVE IInv'
    OBVIOUS
  <1>1. CASE Tick
    BY <1>1, QuietStep DEF Tick, IInv
  <1>2. ASSUME NEW a \in Attempt, Return(a) \/ Fail(a) \/ HandlerFails(a) PROVE IInv'
    <2>1. pc[a] \notin {"idle", "done"} /\ \E s, ended : Finally(a, s, ended)
      BY <1>2 DEF Return, Fail, HandlerFails
    <2>2. QED
      BY <2>1, FinallyStep
  <1>3. CASE UNCHANGED vars
    BY <1>3, QuietStep DEF vars, IInv
  <1>4. QED
    BY <1>1, <1>2, <1>3, StartStep, WaitSteps DEF Next

\* However attempts overlap, are redirected or fail, the gauge of every label
\* set shows those in flight: it comes back to zero.
THEOREM GaugeIsOfOpenAttempts == Spec => []GaugeShowsOpenAttempts
  <1>1. IInv => GaugeShowsOpenAttempts
    BY DEF IInv, GaugeShowsOpenAttempts, Shown
  <1>2. QED
    BY <1>1, InitIInv, NextIInv, PTL DEF Spec

-----------------------------------------------------------------------------
(* phases *)

Waits == {"dns", "pool_wait", "connect"}
Told(phase, operation) == [client |-> Client, operation |-> operation, phase |-> phase]
OfWaits(bag) == [x \in {y \in DOMAIN bag : y.labels.phase \in Waits} |-> bag[x]]

\* The labels PrometheusSink passes by position are those of the names.
LEMMA PhaseLabels ==
    ASSUME NEW operation, NEW phase
    PROVE  Labels(PhaseNames, <<Client, operation, phase>>) = Told(phase, operation)
  <1> DEFINE names == {"client", "operation", "phase"}
             values == <<Client, operation, phase>>
  <1>1. /\ DOMAIN PhaseNames = 1..3 /\ PhaseNames[1] = "client"
        /\ PhaseNames[2] = "operation" /\ PhaseNames[3] = "phase"
    BY DEF PhaseNames
  <1>2. ToSet(PhaseNames) = names
    <2>1. 1 \in DOMAIN PhaseNames /\ 2 \in DOMAIN PhaseNames /\ 3 \in DOMAIN PhaseNames
      BY <1>1
    <2>2. \A i \in DOMAIN PhaseNames : PhaseNames[i] \in names
      BY <1>1
    <2>3. QED
      BY <1>1, <2>1, <2>2 DEF ToSet
  <1>3. values[1] = Client /\ values[2] = operation /\ values[3] = phase
    OBVIOUS
  <1>4. /\ (CHOOSE i \in DOMAIN PhaseNames : PhaseNames[i] = "client") = 1
        /\ (CHOOSE i \in DOMAIN PhaseNames : PhaseNames[i] = "operation") = 2
        /\ (CHOOSE i \in DOMAIN PhaseNames : PhaseNames[i] = "phase") = 3
    BY <1>1
  <1> HIDE DEF values
  <1>5. Labels(PhaseNames, values) =
            [x \in names |-> values[CHOOSE i \in DOMAIN PhaseNames : PhaseNames[i] = x]]
    BY <1>2 DEF Labels
  <1>6. Told(phase, operation) = [x \in names |-> Told(phase, operation)[x]]
    BY DEF Told
  <1>7. \A x \in names : values[CHOOSE i \in DOMAIN PhaseNames : PhaseNames[i] = x]
                         = Told(phase, operation)[x]
    <2>1. /\ Told(phase, operation)["client"] = values[1]
          /\ Told(phase, operation)["operation"] = values[2]
          /\ Told(phase, operation)["phase"] = values[3]
      BY <1>3 DEF Told
    <2>2. QED
      BY <1>4, <2>1
  <1> HIDE DEF names
  <1>8. QED
    BY <1>5, <1>6, <1>7 DEF values

LEMMA CountFacts ==
    ASSUME NEW bag, NEW x
    PROVE  Count(bag, x) = [y \in DOMAIN bag \cup {x} |->
               (IF y \in DOMAIN bag THEN bag[y] ELSE 0) + (IF y = x THEN 1 ELSE 0)]
  <1> DEFINE one == SetToBag({x})
  <1>1. DOMAIN one = {x} /\ one[x] = 1
    BY DEF SetToBag
  <1> HIDE DEF one
  <1>2. Count(bag, x) = [y \in DOMAIN bag \cup DOMAIN one |->
            (IF y \in DOMAIN bag THEN bag[y] ELSE 0) + (IF y \in DOMAIN one THEN one[y] ELSE 0)]
    BY DEF Count, (+), one
  <1>3. QED
    BY <1>1, <1>2

LEMMA ObserveFacts ==
    ASSUME NEW bag, NEW labels, NEW seconds, \A x \in DOMAIN bag : bag[x] \in Int
    PROVE  /\ labels.phase \in Waits =>
                  OfWaits(Observe(bag, labels, seconds)) = Observe(OfWaits(bag), labels, seconds)
           /\ labels.phase \notin Waits => OfWaits(Observe(bag, labels, seconds)) = OfWaits(bag)
           /\ \A x \in DOMAIN Observe(bag, labels, seconds) :
                  Observe(bag, labels, seconds)[x] \in Int
  <1> DEFINE x == [labels |-> labels, seconds |-> seconds]
  <1>1. x.labels = labels
    OBVIOUS
  <1> HIDE DEF x
  <1>2. /\ Observe(bag, labels, seconds) = Count(bag, x)
        /\ Observe(OfWaits(bag), labels, seconds) = Count(OfWaits(bag), x)
    BY DEF Observe, x
  <1>3. Count(bag, x) = [y \in DOMAIN bag \cup {x} |->
            (IF y \in DOMAIN bag THEN bag[y] ELSE 0) + (IF y = x THEN 1 ELSE 0)]
    BY CountFacts
  <1>4. Count(OfWaits(bag), x) = [y \in DOMAIN OfWaits(bag) \cup {x} |->
            (IF y \in DOMAIN OfWaits(bag) THEN OfWaits(bag)[y] ELSE 0) + (IF y = x THEN 1 ELSE 0)]
    BY CountFacts
  <1>5. ASSUME labels.phase \in Waits
        PROVE  OfWaits(Count(bag, x)) = Count(OfWaits(bag), x)
    <2>1. /\ DOMAIN OfWaits(Count(bag, x)) = DOMAIN Count(OfWaits(bag), x)
          /\ \A y \in DOMAIN OfWaits(Count(bag, x)) :
                 OfWaits(Count(bag, x))[y] = Count(OfWaits(bag), x)[y]
      BY <1>1, <1>3, <1>4, <1>5 DEF OfWaits
    <2> DEFINE f == OfWaits(Count(bag, x))
               g == Count(OfWaits(bag), x)
    <2>2. f = [y \in DOMAIN f |-> f[y]] /\ g = [y \in DOMAIN g |-> g[y]]
      BY <1>4 DEF OfWaits
    <2> HIDE DEF f, g
    <2>3. DOMAIN f = DOMAIN g /\ \A y \in DOMAIN f : f[y] = g[y]
      BY <2>1 DEF f, g
    <2>4. f = g
      BY <2>2, <2>3
    <2>5. QED
      BY <2>4 DEF f, g
  <1>6. ASSUME labels.phase \notin Waits
        PROVE  OfWaits(Count(bag, x)) = OfWaits(bag)
    BY <1>1, <1>3, <1>6 DEF OfWaits
  <1>7. \A y \in DOMAIN Count(bag, x) : Count(bag, x)[y] \in Int
    BY <1>3
  <1>8. QED
    BY <1>2, <1>5, <1>6, <1>7

-----------------------------------------------------------------------------
(* what the stamps say *)

\* A wait that goes on is stamped with the moment it began, though the context
\* is used again for every hop.
Marked(a) ==
    /\ pc[a] = "queued" =>
           ctx[a]["pool_start"] = begun[a]["pool_wait"] /\ ctx[a]["pool_start"] # Unset
    /\ pc[a] \in {"connecting", "resolving", "resolved"} =>
           ctx[a]["connect_start"] = begun[a]["connect"] /\ ctx[a]["connect_start"] # Unset
    /\ a \in resolving =>
           ctx[a]["dns_start"] = begun[a]["dns"] /\ ctx[a]["dns_start"] # Unset

TracerInv ==
    /\ clock \in Nat
    /\ DOMAIN ctx = Attempt /\ \A a \in Attempt : DOMAIN ctx[a] = Stamps
    /\ DOMAIN begun = Attempt /\ \A a \in Attempt : DOMAIN begun[a] = Waits
    /\ \A a \in Attempt : Marked(a)
    /\ \A x \in DOMAIN prometheus.phases : prometheus.phases[x] \in Int
    /\ OfWaits(prometheus.phases) = waited

\* What is told to the sink of a phase.
LEMMA EmitPhase ==
    ASSUME IInv, TracerInv, NEW a \in Attempt, NEW stamp, NEW phase, EmitFrom(a, stamp, phase)
    PROVE  /\ \A x \in DOMAIN prometheus'.phases : prometheus'.phases[x] \in Int
           /\ OfWaits(prometheus'.phases) =
                  IF stamp = Unset \/ a \in foreign \/ phase \notin Waits THEN waited
                  ELSE Observe(waited, Told(phase, OperationOf(a)), clock - stamp)
  <1>1. CASE stamp = Unset \/ a \in foreign
    BY <1>1 DEF EmitFrom, TracerInv
  <1>2. CASE ~ (stamp = Unset \/ a \in foreign)
    <2> DEFINE labels == Told(phase, OperationOf(a))
    <2>1. prometheus'.phases = Observe(prometheus.phases, labels, clock - stamp)
      BY <1>2, PhaseLabels DEF EmitFrom, PrometheusPhase, IInv, Instruments
    <2>2. labels.phase = phase
      BY DEF Told
    <2> HIDE DEF labels
    <2>3. QED
      BY <1>2, <2>1, <2>2, ObserveFacts DEF TracerInv, labels
  <1>3. QED
    BY <1>1, <1>2

\* A step that tells of no wait and begins none.
LEMMA NoWaitStep ==
    ASSUME IInv, TracerInv, UNCHANGED <<begun, waited>>, clock' \in Nat,
           resolving' \subseteq resolving,
           \A x \in DOMAIN prometheus'.phases : prometheus'.phases[x] \in Int,
           OfWaits(prometheus'.phases) = waited,
           DOMAIN ctx' = Attempt,
           \A a \in Attempt :
               /\ DOMAIN ctx'[a] = Stamps
               /\ \A s \in {"pool_start", "connect_start", "dns_start"} : ctx'[a][s] = ctx[a][s]
               /\ pc'[a] = "queued" => pc[a] = "queued"
               /\ pc'[a] \in {"connecting", "resolving", "resolved"} =>
                      pc[a] \in {"connecting", "resolving", "resolved"}
    PROVE  TracerInv'
  <1>1. \A a \in Attempt : Marked(a)'
    BY DEF TracerInv, Marked
  <1>2. QED
    BY <1>1 DEF TracerInv, OfWaits, Waits

\* A wait begins: its stamp and the ghost are set together.
LEMMA BeginSteps ==
    ASSUME IInv, TracerInv, NEW a \in Attempt, QueuedStart(a) \/ ConnectStart(a) \/ DnsStart(a)
    PROVE  TracerInv'
  <1>1. /\ UNCHANGED <<clock, waited, prometheus>>
        /\ clock # Unset
    BY DEF QueuedStart, ConnectStart, DnsStart, Begin, TracerInv, Unset
  <1>2. /\ DOMAIN ctx' = Attempt /\ \A b \in Attempt : DOMAIN ctx'[b] = Stamps
        /\ DOMAIN begun' = Attempt /\ \A b \in Attempt : DOMAIN begun'[b] = Waits
    BY DEF QueuedStart, ConnectStart, DnsStart, Begin, Stamp, TracerInv
  <1>3. \A b \in Attempt : Marked(b)'
    <2>1. ASSUME NEW b \in Attempt, b # a PROVE Marked(b)'
      <3>1. /\ ctx'[b] = ctx[b] /\ begun'[b] = begun[b] /\ pc'[b] = pc[b]
            /\ b \in resolving' <=> b \in resolving
        BY <2>1 DEF QueuedStart, ConnectStart, DnsStart, Begin, Stamp, Go, TracerInv, IInv
      <3>2. QED
        BY <3>1 DEF TracerInv, Marked
    <2>2. Marked(a)'
      <3>1. CASE QueuedStart(a)
        BY <1>1, <3>1 DEF QueuedStart, Begin, Stamp, Go, TracerInv, IInv, Marked, Stamps, Waits
      <3>2. CASE ConnectStart(a)
        BY <1>1, <3>2 DEF ConnectStart, Begin, Stamp, Go, TracerInv, IInv, Marked, Stamps, Waits
      <3>3. CASE DnsStart(a)
        BY <1>1, <3>3 DEF DnsStart, Begin, Stamp, Go, TracerInv, IInv, Marked, Stamps, Waits
      <3>4. QED
        BY <3>1, <3>2, <3>3
    <2>3. QED
      BY <2>1, <2>2
  <1>4. QED
    BY <1>1, <1>2, <1>3 DEF TracerInv, OfWaits, Waits

\* A wait ends: what is told is what the ghost has.
LEMMA EndSteps ==
    ASSUME IInv, TracerInv, NEW a \in Attempt, QueuedEnd(a) \/ ConnectEnd(a) \/ DnsEnd(a)
    PROVE  TracerInv'
  <1>1. /\ UNCHANGED <<clock, ctx, begun>>
        /\ resolving' \subseteq resolving
        /\ \A b \in Attempt :
              /\ pc'[b] = "queued" => pc[b] = "queued"
              /\ pc'[b] \in {"connecting", "resolving", "resolved"} =>
                     pc[b] \in {"connecting", "resolving", "resolved"}
    BY DEF QueuedEnd, ConnectEnd, DnsEnd, End, Go, IInv
  <1>2. \A b \in Attempt : Marked(b)'
    BY <1>1 DEF TracerInv, Marked
  <1>3. \E stamp, wait :
           /\ EmitFrom(a, stamp, wait) /\ End(a, wait) /\ wait \in Waits
           /\ stamp = begun[a][wait] /\ stamp # Unset
    <2>1. CASE QueuedEnd(a)
      BY <2>1 DEF QueuedEnd, Go, TracerInv, Marked, Waits
    <2>2. CASE ConnectEnd(a)
      BY <2>2 DEF ConnectEnd, Go, TracerInv, Marked, Waits
    <2>3. CASE DnsEnd(a)
      BY <2>3 DEF DnsEnd, TracerInv, Marked, Waits
    <2>4. QED
      BY <2>1, <2>2, <2>3
  <1>4. PICK stamp, wait :
           /\ EmitFrom(a, stamp, wait) /\ End(a, wait) /\ wait \in Waits
           /\ stamp = begun[a][wait] /\ stamp # Unset
    BY <1>3
  <1>5. /\ \A x \in DOMAIN prometheus'.phases : prometheus'.phases[x] \in Int
        /\ OfWaits(prometheus'.phases) =
               IF a \in foreign THEN waited
               ELSE Observe(waited, Told(wait, OperationOf(a)), clock - stamp)
    BY <1>4, EmitPhase
  <1>6. OfWaits(prometheus'.phases) = waited'
    BY <1>4, <1>5 DEF End, Told
  <1>7. QED
    BY <1>1, <1>2, <1>5, <1>6 DEF TracerInv, OfWaits, Waits

\* The body is told of: no wait of the three.
LEMMA BodySteps ==
    ASSUME IInv, TracerInv, NEW a \in Attempt,
           ReadInMiddleware(a) \/ ReadBody(a) \/ Answered(a)
    PROVE  TracerInv'
  <1>1. /\ UNCHANGED <<clock, resolving, begun, waited>>
        /\ DOMAIN ctx' = Attempt
        /\ \A b \in Attempt :
              /\ DOMAIN ctx'[b] = Stamps
              /\ \A s \in {"pool_start", "connect_start", "dns_start"} : ctx'[b][s] = ctx[b][s]
    BY DEF ReadInMiddleware, ReadBody, Answered, OnChunkReceived, OnRequestEnd, Stamp, Stamps,
           TracerInv
  <1>2. \A b \in Attempt :
           /\ pc'[b] = "queued" => pc[b] = "queued"
           /\ pc'[b] \in {"connecting", "resolving", "resolved"} =>
                  pc[b] \in {"connecting", "resolving", "resolved"}
    BY DEF ReadInMiddleware, ReadBody, Answered, Go, IInv
  <1>3. \/ UNCHANGED prometheus
        \/ \E stamp : EmitFrom(a, stamp, "ttfb") \/ EmitFrom(a, stamp, "body_read")
    BY DEF ReadInMiddleware, ReadBody, Answered, OnChunkReceived, OnRequestEnd
  <1>4. /\ \A x \in DOMAIN prometheus'.phases : prometheus'.phases[x] \in Int
        /\ OfWaits(prometheus'.phases) = waited
    <2>1. "ttfb" \notin Waits /\ "body_read" \notin Waits
      BY DEF Waits
    <2>2. CASE UNCHANGED prometheus
      BY <2>2 DEF TracerInv
    <2>3. ASSUME NEW stamp, EmitFrom(a, stamp, "ttfb") \/ EmitFrom(a, stamp, "body_read")
          PROVE  <1>4!1 /\ <1>4!2
      BY <2>1, <2>3, EmitPhase
    <2>4. QED
      BY <1>3, <2>2, <2>3
  <1>5. QED
    BY <1>1, <1>2, <1>4, NoWaitStep DEF TracerInv

\* The other steps tell of no phase at all.
LEMMA OtherSteps ==
    ASSUME IInv, TracerInv, NEW a \in Attempt,
           \/ Start(a) \/ Reuse(a) \/ Redirect(a)
           \/ \E s, ended : Finally(a, s, ended)
    PROVE  TracerInv'
  <1>1. /\ UNCHANGED <<clock, resolving, begun, waited>>
        /\ DOMAIN ctx' = Attempt
        /\ \A b \in Attempt :
              /\ DOMAIN ctx'[b] = Stamps
              /\ \A s \in {"pool_start", "connect_start", "dns_start"} : ctx'[b][s] = ctx[b][s]
    BY DEF Start, Reuse, Redirect, Finally, TracerInv, Stamps, client
  <1>2. \A b \in Attempt :
           /\ pc'[b] = "queued" => pc[b] = "queued"
           /\ pc'[b] \in {"connecting", "resolving", "resolved"} =>
                  pc[b] \in {"connecting", "resolving", "resolved"}
    BY DEF Start, Reuse, Redirect, Finally, Go, IInv
  <1>3. prometheus'.phases = prometheus.phases
    <2>1. CASE Reuse(a) \/ Redirect(a)
      BY <2>1 DEF Reuse, Redirect
    <2>2. CASE Start(a)
      BY <2>2 DEF Start, PrometheusStart, IInv, Instruments
    <2>3. ASSUME NEW s, NEW ended, Finally(a, s, ended)
          PROVE  prometheus'.phases = prometheus.phases
      <3> DEFINE m == PrometheusEnd(prometheus, LabelsOf(a))
      <3>1. DOMAIN m = Instruments /\ m.phases = prometheus.phases
        BY DEF IInv, PrometheusEnd, Instruments
      <3> HIDE DEF m
      <3>2. prometheus' = PrometheusRequest(m, LabelsOf(a), s, clock - started[a])
        BY <2>3 DEF Finally, m
      <3>3. QED
        BY <3>1, <3>2 DEF PrometheusRequest, Instruments
    <2>4. QED
      BY <2>1, <2>2, <2>3
  <1>4. QED
    BY <1>1, <1>2, <1>3, NoWaitStep DEF TracerInv

LEMMA InitTracerInv == Init => TracerInv
  <1> SUFFICES ASSUME Init PROVE TracerInv
    OBVIOUS
  <1>1. /\ DOMAIN prometheus.phases = {} /\ prometheus.phases = EmptyBag /\ waited = EmptyBag
    BY DEF Init, NoMetrics, EmptyBag, SetToBag
  <1>2. OfWaits(prometheus.phases) = waited
    BY <1>1 DEF OfWaits, EmptyBag, SetToBag
  <1>3. \A a \in Attempt : Marked(a)
    BY DEF Init, Marked
  <1>4. QED
    BY <1>1, <1>2, <1>3, TelemetryAssumption DEF Init, TracerInv, Stamps, Waits

LEMMA NextTracerInv == IInv /\ TracerInv /\ [Next]_vars => TracerInv'
  <1> SUFFICES ASSUME IInv, TracerInv, [Next]_vars PROVE TracerInv'
    OBVIOUS
  <1>1. CASE Tick
    BY <1>1, NoWaitStep DEF Tick, TracerInv
  <1>2. ASSUME NEW a \in Attempt, Return(a) \/ Fail(a) \/ HandlerFails(a) PROVE TracerInv'
    <2>1. \E s, ended : Finally(a, s, ended)
      BY <1>2 DEF Return, Fail, HandlerFails
    <2>2. QED
      BY <2>1, OtherSteps
  <1>3. CASE UNCHANGED vars
    BY <1>3, NoWaitStep DEF vars, TracerInv
  <1>4. QED
    BY <1>1, <1>2, <1>3, BeginSteps, EndSteps, BodySteps, OtherSteps DEF Next

\* Whatever the attempts, the hops, the foreign contexts and the moments at
\* which requests fail, each wait is told once, of its own attempt and for as
\* long as it took.
THEOREM WaitsAreToldOnce == Spec => []PhasesTellTheWaits
  <1>1. TracerInv => PhasesTellTheWaits
    BY DEF TracerInv, PhasesTellTheWaits, Phases, OfWaits, Waits
  <1>2. QED
    BY <1>1, InitIInv, NextIInv, InitTracerInv, NextTracerInv, PTL DEF Spec

-----------------------------------------------------------------------------
(* label sets *)

\* Values passed by position are those of the names, where each is the value of its name.
LEMMA LabelsByPosition ==
    ASSUME NEW names, NEW values, NEW labels,
           labels = [n \in DOMAIN labels |-> labels[n]],
           DOMAIN labels = {names[i] : i \in DOMAIN names},
           \A i \in DOMAIN names : values[i] = labels[names[i]]
    PROVE  Labels(names, values) = labels
  <1>1. ToSet(names) = DOMAIN labels
    BY DEF ToSet
  <1>2. \A n \in DOMAIN labels : values[CHOOSE i \in DOMAIN names : names[i] = n] = labels[n]
    OBVIOUS
  <1>3. Labels(names, values) = [n \in DOMAIN labels |-> labels[n]]
    BY <1>1, <1>2 DEF Labels
  <1>4. QED
    BY <1>3

\* The label sets of a request are the same by position and by name.
LEMMA RequestLabels ==
    ASSUME NEW a \in Attempt, NEW status, NEW outcome, NEW error
    PROVE  /\ Base(LabelsOf(a)) = LabelsOf(a)
           /\ Labels(TotalNames, Positional(LabelsOf(a)) \o <<status, outcome>>) =
                  With(Base(LabelsOf(a)), [status |-> status, outcome |-> outcome])
           /\ Labels(LatencyNames, Append(Positional(LabelsOf(a)), outcome)) =
                  With(Base(LabelsOf(a)), [outcome |-> outcome])
           /\ Labels(ErrorNames, Append(Positional(LabelsOf(a)), error)) =
                  With(Base(LabelsOf(a)), [error_type |-> error])
  <1> DEFINE c == LabelsOf(a)
  <1>1. Base(c) = c
    BY DEF Base, LabelsOf
  <1>2. /\ DOMAIN c = {"client", "method", "route", "operation"}
        /\ Positional(c) = <<c.client, c.method, c.route, c.operation>>
    BY DEF LabelsOf, Positional
  <1> HIDE DEF c
  <1>3. Labels(TotalNames, Positional(c) \o <<status, outcome>>) =
            With(c, [status |-> status, outcome |-> outcome])
    <2> DEFINE labels == With(c, [status |-> status, outcome |-> outcome])
               values == Positional(c) \o <<status, outcome>>
    <2>1. /\ DOMAIN labels = {"client", "method", "route", "operation", "status", "outcome"}
          /\ labels = [n \in DOMAIN labels |-> labels[n]]
          /\ labels["client"] = c.client /\ labels["method"] = c.method
          /\ labels["route"] = c.route /\ labels["operation"] = c.operation
          /\ labels["status"] = status /\ labels["outcome"] = outcome
      BY <1>2 DEF With
    <2>2. /\ DOMAIN TotalNames = 1..6
          /\ TotalNames[1] = "client" /\ TotalNames[2] = "method" /\ TotalNames[3] = "route"
          /\ TotalNames[4] = "operation" /\ TotalNames[5] = "status"
          /\ TotalNames[6] = "outcome"
      BY DEF TotalNames, Common
    <2>3. /\ values[1] = c.client /\ values[2] = c.method /\ values[3] = c.route
          /\ values[4] = c.operation /\ values[5] = status /\ values[6] = outcome
      BY <1>2
    <2> HIDE DEF labels, values
    <2>4. \A i \in DOMAIN TotalNames : values[i] = labels[TotalNames[i]]
      BY <2>1, <2>2, <2>3
    <2>5. DOMAIN labels = {TotalNames[i] : i \in DOMAIN TotalNames}
      BY <2>1, <2>2
    <2>6. Labels(TotalNames, values) = labels
      BY <2>1, <2>4, <2>5, LabelsByPosition
    <2>7. QED
      BY <2>6 DEF labels, values
  <1>4. Labels(LatencyNames, Append(Positional(c), outcome)) = With(c, [outcome |-> outcome])
    <2> DEFINE labels == With(c, [outcome |-> outcome])
               values == Append(Positional(c), outcome)
    <2>1. /\ DOMAIN labels = {"client", "method", "route", "operation", "outcome"}
          /\ labels = [n \in DOMAIN labels |-> labels[n]]
          /\ labels["client"] = c.client /\ labels["method"] = c.method
          /\ labels["route"] = c.route /\ labels["operation"] = c.operation
          /\ labels["outcome"] = outcome
      BY <1>2 DEF With
    <2>2. /\ DOMAIN LatencyNames = 1..5
          /\ LatencyNames[1] = "client" /\ LatencyNames[2] = "method" /\ LatencyNames[3] = "route"
          /\ LatencyNames[4] = "operation" /\ LatencyNames[5] = "outcome"
      BY DEF LatencyNames, Common
    <2>3. /\ values[1] = c.client /\ values[2] = c.method /\ values[3] = c.route
          /\ values[4] = c.operation /\ values[5] = outcome
      BY <1>2
    <2> HIDE DEF labels, values
    <2>4. \A i \in DOMAIN LatencyNames : values[i] = labels[LatencyNames[i]]
      BY <2>1, <2>2, <2>3
    <2>5. DOMAIN labels = {LatencyNames[i] : i \in DOMAIN LatencyNames}
      BY <2>1, <2>2
    <2>6. Labels(LatencyNames, values) = labels
      BY <2>1, <2>4, <2>5, LabelsByPosition
    <2>7. QED
      BY <2>6 DEF labels, values
  <1>5. Labels(ErrorNames, Append(Positional(c), error)) = With(c, [error_type |-> error])
    <2> DEFINE labels == With(c, [error_type |-> error])
               values == Append(Positional(c), error)
    <2>1. /\ DOMAIN labels = {"client", "method", "route", "operation", "error_type"}
          /\ labels = [n \in DOMAIN labels |-> labels[n]]
          /\ labels["client"] = c.client /\ labels["method"] = c.method
          /\ labels["route"] = c.route /\ labels["operation"] = c.operation
          /\ labels["error_type"] = error
      BY <1>2 DEF With
    <2>2. /\ DOMAIN ErrorNames = 1..5
          /\ ErrorNames[1] = "client" /\ ErrorNames[2] = "method" /\ ErrorNames[3] = "route"
          /\ ErrorNames[4] = "operation" /\ ErrorNames[5] = "error_type"
      BY DEF ErrorNames, Common
    <2>3. /\ values[1] = c.client /\ values[2] = c.method /\ values[3] = c.route
          /\ values[4] = c.operation /\ values[5] = error
      BY <1>2
    <2> HIDE DEF labels, values
    <2>4. \A i \in DOMAIN ErrorNames : values[i] = labels[ErrorNames[i]]
      BY <2>1, <2>2, <2>3
    <2>5. DOMAIN labels = {ErrorNames[i] : i \in DOMAIN ErrorNames}
      BY <2>1, <2>2
    <2>6. Labels(ErrorNames, values) = labels
      BY <2>1, <2>4, <2>5, LabelsByPosition
    <2>7. QED
      BY <2>6 DEF labels, values
  <1>6. QED
    BY <1>1, <1>3, <1>4, <1>5 DEF c

-----------------------------------------------------------------------------
(* counting what a bag has *)

IsBag(bag) == (\A x \in DOMAIN bag : bag[x] \in Nat) /\ IsFiniteSet(Copies(bag))

\* One more of x is one more copy, of x.
LEMMA CountCopies ==
    ASSUME NEW bag, NEW x, IsBag(bag)
    PROVE  /\ IsBag(Count(bag, x))
           /\ \E n \in Nat : /\ <<x, n>> \notin Copies(bag)
                             /\ Copies(Count(bag, x)) = Copies(bag) \cup {<<x, n>>}
  <1> DEFINE more == Count(bag, x)
             n == IF x \in DOMAIN bag THEN bag[x] ELSE 0
  <1>1. /\ DOMAIN more = DOMAIN bag \cup {x}
        /\ \A y \in DOMAIN bag : y # x => more[y] = bag[y]
        /\ more[x] = n + 1 /\ n \in Nat
        /\ \A y \in DOMAIN more : more[y] \in Nat
    <2>1. more = [y \in DOMAIN bag \cup {x} |->
              (IF y \in DOMAIN bag THEN bag[y] ELSE 0) + (IF y = x THEN 1 ELSE 0)]
      BY CountFacts
    <2> HIDE DEF more
    <2>2. QED
      BY <2>1 DEF IsBag
  <1> HIDE DEF more
  <1>2. \A y, k : <<y, k>> \in Copies(bag) <=> y \in DOMAIN bag /\ k \in 1..bag[y]
    BY DEF Copies
  <1>3. \A y, k : <<y, k>> \in Copies(more) <=> y \in DOMAIN more /\ k \in 1..more[y]
    BY DEF Copies
  <1>4. <<x, n + 1>> \notin Copies(bag)
    BY <1>1, <1>2
  <1>5. 1..(n + 1) = (1..n) \cup {n + 1}
    BY <1>1
  <1>6. \A y, k : <<y, k>> \in Copies(more) <=>
                     <<y, k>> \in Copies(bag) \/ (y = x /\ k = n + 1)
    <2>1. ASSUME NEW k PROVE <<x, k>> \in Copies(more) <=> <<x, k>> \in Copies(bag) \/ k = n + 1
      <3>1. <<x, k>> \in Copies(more) <=> k \in 1..(n + 1)
        BY <1>1, <1>3
      <3>2. <<x, k>> \in Copies(bag) <=> k \in 1..n
        BY <1>1, <1>2
      <3> HIDE DEF n
      <3>3. QED
        BY <1>5, <3>1, <3>2
    <2>2. ASSUME NEW y, NEW k, y # x PROVE <<y, k>> \in Copies(more) <=> <<y, k>> \in Copies(bag)
      BY <1>1, <1>2, <1>3, <2>2
    <2>3. QED
      BY <2>1, <2>2
  <1>7. Copies(more) = Copies(bag) \cup {<<x, n + 1>>}
    <2>1. /\ \A c \in Copies(more) : c = <<c[1], c[2]>>
          /\ \A c \in Copies(bag) : c = <<c[1], c[2]>>
      BY DEF Copies
    <2> HIDE DEF n
    <2>2. QED
      BY <1>6, <2>1
  <1>8. IsFiniteSet(Copies(more))
    BY <1>7, FS_AddElement DEF IsBag
  <1>9. QED
    BY <1>1, <1>4, <1>7, <1>8 DEF IsBag, more

-----------------------------------------------------------------------------
(* the first byte *)

\* The observations of a phase.
OfPhase(bag, phase) == {copy \in Copies(bag) : copy[1].labels.phase = phase}

\* What an emission makes of the number of copies of each phase.
LEMMA EmitCopies ==
    ASSUME IInv, IsBag(prometheus.phases), NEW a \in Attempt, NEW stamp, NEW phase,
           EmitFrom(a, stamp, phase)
    PROVE  /\ IsBag(prometheus'.phases)
           /\ \A p : /\ Cardinality(OfPhase(prometheus.phases, p)) \in Nat
                     /\ Cardinality(OfPhase(prometheus'.phases, p)) =
                            Cardinality(OfPhase(prometheus.phases, p))
                            + (IF p = phase /\ stamp # Unset /\ a \notin foreign THEN 1 ELSE 0)
  <1> DEFINE bag == prometheus.phases
             more == prometheus'.phases
  <1>1. \A p : /\ IsFiniteSet(OfPhase(bag, p))
               /\ Cardinality(OfPhase(bag, p)) \in Nat
    <2>1. \A p : OfPhase(bag, p) \in SUBSET Copies(bag)
      BY DEF OfPhase
    <2> HIDE DEF bag
    <2>2. QED
      BY <2>1, FS_Subset, FS_CardinalityType DEF IsBag, bag
  <1>2. CASE stamp = Unset \/ a \in foreign
    <2>1. more = bag
      BY <1>2 DEF EmitFrom
    <2> HIDE DEF bag, more
    <2>2. QED
      BY <1>1, <1>2, <2>1 DEF bag, more
  <1>3. CASE ~ (stamp = Unset \/ a \in foreign)
    <2> DEFINE x == [labels |-> Told(phase, OperationOf(a)), seconds |-> clock - stamp]
    <2>1. more = Count(bag, x)
      BY <1>3, PhaseLabels DEF EmitFrom, PrometheusPhase, Observe, IInv, Instruments
    <2>2. x.labels.phase = phase
      BY DEF Told
    <2> HIDE DEF bag, more, x
    <2>3. PICK n \in Nat : /\ <<x, n>> \notin Copies(bag)
                           /\ Copies(more) = Copies(bag) \cup {<<x, n>>}
      BY <2>1, CountCopies DEF bag
    <2>4. IsBag(more)
      BY <2>1, CountCopies DEF bag
    <2>5. \A p : OfPhase(more, p) =
                     IF p = phase THEN OfPhase(bag, p) \cup {<<x, n>>} ELSE OfPhase(bag, p)
      BY <2>2, <2>3 DEF OfPhase
    <2>6. \A p : <<x, n>> \notin OfPhase(bag, p)
      BY <2>3 DEF OfPhase
    <2>7. \A p : Cardinality(OfPhase(more, p)) =
                     Cardinality(OfPhase(bag, p)) + (IF p = phase THEN 1 ELSE 0)
      BY <1>1, <2>5, <2>6, FS_AddElement
    <2>8. QED
      BY <1>1, <1>3, <2>4, <2>7 DEF bag, more
  <1>4. QED
    BY <1>2, <1>3

\* The attempts somebody read the body of, and those of them whose request is over.
HasRead == {a \in Attempt \ foreign : ctx[a]["first_chunk"] # Unset}
Over == {a \in HasRead \cap ReadEarly : pc[a] \in {"handling", "read", "done"}}

\* The first chunk is stamped once in an attempt: by the middleware that reads
\* early, or by the handler.
Stamped(a) ==
    /\ pc[a] = "idle" => ctx[a]["first_chunk"] = Unset
    /\ pc[a] # "idle" => ctx[a]["req_start"] # Unset
    /\ a \notin ReadEarly /\ ctx[a]["first_chunk"] # Unset => pc[a] \in {"read", "done"}

\* What is told of the two phases, by attempt.
ByteInv ==
    /\ IsBag(prometheus.phases)
    /\ \A a \in Attempt : Stamped(a)
    /\ Cardinality(OfPhase(prometheus.phases, "ttfb")) = Cardinality(HasRead)
    /\ Cardinality(OfPhase(prometheus.phases, "body_read")) <= Cardinality(Over)

\* They are finitely many.
LEMMA ReadersAreFinite ==
    /\ IsFiniteSet(HasRead) /\ IsFiniteSet(Over) /\ Over \subseteq HasRead \cap ReadEarly
    /\ Cardinality(HasRead) \in Nat /\ Cardinality(Over) \in Nat
  <1>1. HasRead \in SUBSET Attempt /\ Over \in SUBSET Attempt
    BY DEF HasRead, Over
  <1>2. Over \subseteq HasRead \cap ReadEarly
    BY DEF Over
  <1>3. IsFiniteSet(HasRead) /\ IsFiniteSet(Over)
    BY <1>1, TelemetryAssumption, FS_Subset
  <1>4. QED
    BY <1>2, <1>3, FS_CardinalityType

\* A step that tells of neither phase, and stamps no first chunk.
LEMMA NoByteStep ==
    ASSUME IInv, TracerInv, ByteInv, UNCHANGED foreign,
           IsBag(prometheus'.phases),
           \A p \in {"ttfb", "body_read"} :
               Cardinality(OfPhase(prometheus'.phases, p)) = Cardinality(OfPhase(prometheus.phases, p)),
           \A a \in Attempt :
               /\ Stamped(a)'
               /\ ctx'[a]["first_chunk"] = ctx[a]["first_chunk"]
               /\ pc[a] \in {"handling", "read", "done"} => pc'[a] \in {"handling", "read", "done"}
    PROVE  ByteInv'
  <1>1. HasRead' = HasRead /\ Over \in SUBSET Over'
    BY DEF HasRead, Over
  <1>2. IsFiniteSet(Over') /\ Cardinality(Over') \in Nat
    <2>1. Over' \in SUBSET Attempt
      BY DEF Over, HasRead
    <2>2. QED
      BY <2>1, TelemetryAssumption, FS_Subset, FS_CardinalityType
  <1>3. Cardinality(Over) <= Cardinality(Over')
    BY <1>1, <1>2, FS_Subset
  <1>4. Cardinality(OfPhase(prometheus.phases, "body_read")) \in Int
    <2>1. OfPhase(prometheus.phases, "body_read") \in SUBSET Copies(prometheus.phases)
      BY DEF OfPhase
    <2>2. QED
      BY <2>1, FS_Subset, FS_CardinalityType DEF ByteInv, IsBag
  <1>5. Cardinality(OfPhase(prometheus'.phases, "body_read")) <= Cardinality(Over')
    BY <1>2, <1>3, <1>4, ReadersAreFinite DEF ByteInv
  <1>6. QED
    BY <1>1, <1>5 DEF ByteInv

\* The waits tell of other phases.
LEMMA WaitsTellNoByte ==
    ASSUME IInv, TracerInv, ByteInv, NEW a \in Attempt,
           \/ QueuedStart(a) \/ QueuedEnd(a) \/ Reuse(a) \/ ConnectStart(a) \/ DnsStart(a)
           \/ DnsEnd(a) \/ ConnectEnd(a) \/ Redirect(a)
    PROVE  ByteInv'
  <1>1. /\ UNCHANGED foreign
        /\ \A b \in Attempt :
              /\ ctx'[b]["first_chunk"] = ctx[b]["first_chunk"]
              /\ ctx'[b]["req_start"] = ctx[b]["req_start"]
              /\ pc'[b] \in {"idle", "handling", "read", "done"}
                 \/ pc[b] \in {"idle", "handling", "read", "done"} => pc'[b] = pc[b]
    BY DEF QueuedStart, QueuedEnd, Reuse, ConnectStart, DnsStart, DnsEnd, ConnectEnd, Redirect,
           Responded, Go, Stamp, client, IInv, TracerInv, Stamps
  <1>2. \A b \in Attempt : Stamped(b)'
    BY <1>1 DEF ByteInv, Stamped
  <1>3. /\ IsBag(prometheus'.phases)
        /\ \A p \in {"ttfb", "body_read"} :
              Cardinality(OfPhase(prometheus'.phases, p)) = Cardinality(OfPhase(prometheus.phases, p))
    <2>1. CASE UNCHANGED prometheus
      BY <2>1 DEF ByteInv
    <2>2. ASSUME NEW stamp, NEW phase \in Waits, EmitFrom(a, stamp, phase)
          PROVE  <1>3!1 /\ <1>3!2
      <3>1. phase \notin {"ttfb", "body_read"}
        BY DEF Waits
      <3>2. QED
        BY <2>2, <3>1, EmitCopies DEF ByteInv
    <2>3. UNCHANGED prometheus \/ \E stamp : \E phase \in Waits : EmitFrom(a, stamp, phase)
      BY DEF QueuedStart, QueuedEnd, Reuse, ConnectStart, DnsStart, DnsEnd, ConnectEnd, Redirect,
             Waits
    <2>4. QED
      BY <2>1, <2>2, <2>3
  <1>4. QED
    BY <1>1, <1>2, <1>3, NoByteStep

\* The middleware or the handler reads: the first time, the byte is told with its stamp.
LEMMA ReadSteps ==
    ASSUME IInv, TracerInv, ByteInv, NEW a \in Attempt, ReadInMiddleware(a) \/ ReadBody(a)
    PROVE  ByteInv'
  <1>1. /\ UNCHANGED <<foreign, clock>> /\ OnChunkReceived(a)
        /\ pc[a] # "idle" /\ clock # Unset
        /\ \/ a \in ReadEarly /\ pc[a] = "exchange" /\ pc' = [pc EXCEPT ![a] = "headers"]
           \/ a \notin ReadEarly /\ pc[a] = "handling" /\ pc' = [pc EXCEPT ![a] = "read"]
    BY DEF ReadInMiddleware, ReadBody, Go, client, TracerInv, Unset
  <1>2. CASE ctx[a]["first_chunk"] # Unset
    <2>1. UNCHANGED <<ctx, prometheus>>
      BY <1>1, <1>2 DEF OnChunkReceived
    <2>2. \A b \in Attempt : /\ Stamped(b)'
                             /\ pc[b] \in {"handling", "read", "done"} =>
                                    pc'[b] \in {"handling", "read", "done"}
      BY <1>1, <2>1 DEF ByteInv, Stamped, IInv
    <2>3. QED
      BY <1>1, <2>1, <2>2, NoByteStep DEF ByteInv
  <1>3. CASE ctx[a]["first_chunk"] = Unset
    <2>1. /\ ctx' = [ctx EXCEPT ![a]["first_chunk"] = clock]
          /\ EmitFrom(a, ctx[a]["req_start"], "ttfb")
          /\ ctx[a]["req_start"] # Unset
      BY <1>1, <1>3 DEF OnChunkReceived, Stamp, ByteInv, Stamped
    <2>2. /\ ctx'[a]["first_chunk"] # Unset /\ ctx'[a]["req_start"] = ctx[a]["req_start"]
          /\ \A b \in Attempt : b # a => ctx'[b] = ctx[b] /\ pc'[b] = pc[b]
      BY <1>1, <2>1 DEF TracerInv, Stamps, IInv
    <2>3. \A b \in Attempt : Stamped(b)'
      BY <1>1, <2>2 DEF ByteInv, Stamped, IInv
    <2>4. /\ IsBag(prometheus'.phases)
          /\ Cardinality(OfPhase(prometheus'.phases, "ttfb")) =
                 Cardinality(HasRead) + (IF a \in foreign THEN 0 ELSE 1)
          /\ Cardinality(OfPhase(prometheus'.phases, "body_read")) =
                 Cardinality(OfPhase(prometheus.phases, "body_read"))
      BY <2>1, EmitCopies DEF ByteInv
    <2>5. /\ HasRead' = IF a \in foreign THEN HasRead ELSE HasRead \cup {a}
          /\ a \notin HasRead
      BY <1>1, <1>3, <2>2 DEF HasRead
    <2>6. Cardinality(HasRead') = Cardinality(HasRead) + (IF a \in foreign THEN 0 ELSE 1)
      <3>1. Cardinality(HasRead \cup {a}) = Cardinality(HasRead) + 1
        BY <2>5, ReadersAreFinite, FS_AddElement
      <3>2. QED
        BY <2>5, <3>1, ReadersAreFinite
    <2>7. Over' = Over
      BY <1>1, <1>3, <2>2 DEF Over, HasRead, IInv
    <2>8. QED
      BY <2>3, <2>4, <2>6, <2>7 DEF ByteInv
  <1>4. QED
    BY <1>2, <1>3

\* session.request returns: the reading of the body is told if there is a first chunk.
LEMMA AnsweredStep ==
    ASSUME IInv, TracerInv, ByteInv, NEW a \in Attempt, Answered(a)
    PROVE  ByteInv'
  <1>1. /\ UNCHANGED <<foreign, ctx>>
        /\ EmitFrom(a, ctx[a]["first_chunk"], "body_read")
        /\ pc[a] \in {"exchange", "headers"} /\ pc' = [pc EXCEPT ![a] = "handling"]
    BY DEF Answered, OnRequestEnd, Responded, client
  <1>2. \A b \in Attempt : Stamped(b)'
    BY <1>1 DEF ByteInv, Stamped, IInv
  <1>3. /\ IsBag(prometheus'.phases)
        /\ Cardinality(OfPhase(prometheus'.phases, "ttfb")) = Cardinality(HasRead)
        /\ Cardinality(OfPhase(prometheus.phases, "body_read")) \in Nat
        /\ Cardinality(OfPhase(prometheus'.phases, "body_read")) =
               Cardinality(OfPhase(prometheus.phases, "body_read"))
               + (IF a \in HasRead THEN 1 ELSE 0)
    BY <1>1, EmitCopies DEF ByteInv, HasRead
  <1>4. HasRead' = HasRead
    BY <1>1 DEF HasRead
  <1>5. /\ Over' = IF a \in HasRead THEN Over \cup {a} ELSE Over
        /\ a \notin Over
    <2>1. a \in HasRead => a \in ReadEarly
      BY <1>1 DEF HasRead, ByteInv, Stamped
    <2>2. QED
      BY <1>1, <1>4, <2>1 DEF Over, HasRead, IInv
  <1>6. Cardinality(Over') = Cardinality(Over) + (IF a \in HasRead THEN 1 ELSE 0)
    <2>1. Cardinality(Over \cup {a}) = Cardinality(Over) + 1
      BY <1>5, ReadersAreFinite, FS_AddElement
    <2>2. QED
      BY <1>5, <2>1, ReadersAreFinite
  <1>7. Cardinality(OfPhase(prometheus'.phases, "body_read")) <= Cardinality(Over')
    BY <1>3, <1>6, ReadersAreFinite DEF ByteInv
  <1>8. QED
    BY <1>2, <1>3, <1>4, <1>7 DEF ByteInv

\* An attempt starts or is over: no phase is told.
LEMMA EdgesTellNoByte ==
    ASSUME IInv, TracerInv, ByteInv, NEW a \in Attempt,
           \/ Start(a)
           \/ /\ pc[a] # "idle"
              /\ \E s, ended : Finally(a, s, ended)
    PROVE  ByteInv'
  <1>1. prometheus'.phases = prometheus.phases
    <2>1. CASE Start(a)
      BY <2>1 DEF Start, PrometheusStart, IInv, Instruments
    <2>2. ASSUME NEW s, NEW ended, Finally(a, s, ended)
          PROVE  prometheus'.phases = prometheus.phases
      <3> DEFINE m == PrometheusEnd(prometheus, LabelsOf(a))
      <3>1. DOMAIN m = Instruments /\ m.phases = prometheus.phases
        BY DEF IInv, PrometheusEnd, Instruments
      <3> HIDE DEF m
      <3>2. prometheus' = PrometheusRequest(m, LabelsOf(a), s, clock - started[a])
        BY <2>2 DEF Finally, m
      <3>3. QED
        BY <3>1, <3>2 DEF PrometheusRequest, Instruments
    <2>3. QED
      BY <2>1, <2>2
  <1>2. /\ UNCHANGED <<foreign, clock>> /\ clock # Unset
        /\ \/ /\ pc[a] = "idle" /\ pc' = [pc EXCEPT ![a] = "connector"]
              /\ ctx' = [ctx EXCEPT ![a]["req_start"] = clock, ![a]["first_chunk"] = Unset]
           \/ /\ pc[a] # "idle" /\ pc' = [pc EXCEPT ![a] = "done"]
              /\ ctx' = ctx
    BY DEF Start, Finally, Go, TracerInv, Unset
  <1>3. \A b \in Attempt : /\ Stamped(b)'
                           /\ ctx'[b]["first_chunk"] = ctx[b]["first_chunk"]
                           /\ pc[b] \in {"handling", "read", "done"} =>
                                  pc'[b] \in {"handling", "read", "done"}
    <2>1. ASSUME NEW b \in Attempt, b # a
          PROVE  /\ Stamped(b)'
                 /\ ctx'[b]["first_chunk"] = ctx[b]["first_chunk"]
                 /\ pc'[b] = pc[b]
      BY <1>2, <2>1 DEF ByteInv, Stamped, IInv, TracerInv
    <2>2. /\ Stamped(a)'
          /\ ctx'[a]["first_chunk"] = ctx[a]["first_chunk"]
          /\ pc[a] \in {"handling", "read", "done"} => pc'[a] \in {"handling", "read", "done"}
      BY <1>2 DEF ByteInv, Stamped, IInv, TracerInv, Stamps
    <2>3. QED
      BY <2>1, <2>2
  <1>4. QED
    BY <1>1, <1>2, <1>3, NoByteStep DEF ByteInv

\* It holds of every step.
LEMMA ByteInvariance == Spec => []ByteInv
  <1>1. Init => ByteInv
    <2> SUFFICES ASSUME Init PROVE ByteInv
      OBVIOUS
    <2>1. prometheus.phases = EmptyBag
      BY DEF Init, NoMetrics
    <2>2. DOMAIN EmptyBag = {} /\ Copies(EmptyBag) = {}
      BY DEF EmptyBag, SetToBag, Copies
    <2>3. \A p : OfPhase(EmptyBag, p) = {}
      BY <2>2 DEF OfPhase
    <2>4. HasRead = {} /\ \A a \in Attempt : Stamped(a)
      BY DEF Init, HasRead, Stamped, Stamps
    <2>5. Over = {}
      BY <2>4 DEF Over
    <2>6. IsBag(prometheus.phases)
      BY <2>1, <2>2, FS_EmptySet DEF IsBag
    <2>7. /\ Cardinality(OfPhase(prometheus.phases, "ttfb")) = 0
          /\ Cardinality(OfPhase(prometheus.phases, "body_read")) = 0
          /\ Cardinality(HasRead) = 0 /\ Cardinality(Over) = 0
      BY <2>1, <2>3, <2>4, <2>5, FS_EmptySet
    <2>8. QED
      BY <2>4, <2>6, <2>7 DEF ByteInv
  <1>2. IInv /\ TracerInv /\ ByteInv /\ [Next]_vars => ByteInv'
    <2> SUFFICES ASSUME IInv, TracerInv, ByteInv, [Next]_vars PROVE ByteInv'
      OBVIOUS
    <2>1. ASSUME UNCHANGED <<foreign, ctx, pc, prometheus>> PROVE ByteInv'
      BY <2>1, NoByteStep DEF ByteInv, Stamped
    <2>2. CASE Tick
      BY <2>1, <2>2 DEF Tick
    <2>3. CASE UNCHANGED vars
      BY <2>1, <2>3 DEF vars
    <2>4. ASSUME NEW a \in Attempt, Return(a) \/ Fail(a) \/ HandlerFails(a) PROVE ByteInv'
      <3>1. pc[a] # "idle" /\ \E s, ended : Finally(a, s, ended)
        BY <2>4 DEF Return, Fail, HandlerFails
      <3>2. QED
        BY <3>1, EdgesTellNoByte
    <2>5. QED
      BY <2>2, <2>3, <2>4, EdgesTellNoByte, WaitsTellNoByte, ReadSteps, AnsweredStep DEF Next
  <1>3. QED
    BY <1>1, <1>2, InitIInv, NextIInv, InitTracerInv, NextTracerInv, PTL DEF Spec

\* Whoever reads a body, however many hops and whatever fails, an attempt tells its first
\* byte once, and only if a body was read.
THEOREM FirstByteIsToldOnce == Spec => []FirstByteOnce
  <1>1. ByteInv => FirstByteOnce
    <2> SUFFICES ASSUME ByteInv PROVE FirstByteOnce
      OBVIOUS
    <2>1. Over \in SUBSET (HasRead \cap ReadEarly) /\ IsFiniteSet(HasRead \cap ReadEarly)
      <3>1. HasRead \cap ReadEarly \in SUBSET HasRead
        OBVIOUS
      <3>2. QED
        BY <3>1, ReadersAreFinite, FS_Subset
    <2>2. /\ Cardinality(Over) <= Cardinality(HasRead \cap ReadEarly)
          /\ Cardinality(HasRead \cap ReadEarly) \in Int
      BY <2>1, FS_Subset, FS_CardinalityType
    <2>3. Cardinality(OfPhase(prometheus.phases, "body_read")) \in Int
      <3>1. OfPhase(prometheus.phases, "body_read") \in SUBSET Copies(prometheus.phases)
        BY DEF OfPhase
      <3>2. QED
        BY <3>1, FS_Subset, FS_CardinalityType DEF ByteInv, IsBag
    <2>4. Cardinality(OfPhase(prometheus.phases, "body_read"))
          <= Cardinality(HasRead \cap ReadEarly)
      BY <2>2, <2>3, ReadersAreFinite DEF ByteInv
    <2>5. QED
      BY <2>4 DEF FirstByteOnce, ByteInv, OfPhase, HasRead
  <1>2. QED
    BY <1>1, ByteInvariance, PTL

-----------------------------------------------------------------------------
(* the instruments of a sink, and those of another *)

\* How each end of an attempt is counted: as a response, an error or neither.
Counted(s, ended) ==
    /\ ended \in ExceptionClass \cup {"returned"}
    /\ s.outcome = "response" <=> ended \in {"returned", "HandlerError"}
    /\ CountsAsError(s) <=> ended \in ExceptionClass \ {"CancelledError"}

\* Only a cancellation has no type of error, and no exception without a status is a response.
LEMMA ClassFacts ==
    ASSUME NEW e \in ExceptionClass
    PROVE  /\ ClassifyException(e)[1] # "response"
           /\ ClassifyException(e)[2] = "none" <=> e = "CancelledError"
  <1>1. IsInstance(e, "CancelledError") <=> e = "CancelledError"
    BY DEF IsInstance, Ancestors, ExceptionClass
  <1>2. CASE e = "CancelledError"
    BY <1>1, <1>2 DEF ClassifyException
  <1>3. CASE e # "CancelledError"
    BY <1>1, <1>3 DEF ClassifyException
  <1>4. QED
    BY <1>2, <1>3

\* Every end of an attempt observes a sample that is counted so.
LEMMA EndsAreCounted ==
    ASSUME NEW a \in Attempt, Return(a) \/ Fail(a) \/ HandlerFails(a)
    PROVE  /\ pc[a] \notin {"idle", "done"}
           /\ \E s, ended : Finally(a, s, ended) /\ Counted(s, ended)
  <1>1. /\ "HandlerError" \in ExceptionClass /\ "CancelledError" \in ExceptionClass
        /\ "returned" \notin ExceptionClass
    BY DEF ExceptionClass, Ancestors
  <1>2. Ok # NoStatus
    BY TelemetryAssumption DEF NoStatus
  <1>3. CASE Return(a)
    <2>1. Counted(Sample(Ok, "response", "none"), "returned")
      BY <1>1 DEF Counted, Sample, CountsAsError
    <2>2. QED
      BY <1>3, <2>1 DEF Return
  <1>4. CASE Fail(a)
    <2>1. PICK e \in Failures : Finally(a, ClassifyFailure(e, NoStatus, NoStatus), e)
      BY <1>4 DEF Fail
    <2>2. e \in ExceptionClass /\ e # "HandlerError"
      BY TelemetryAssumption
    <2>3. ClassifyFailure(e, NoStatus, NoStatus) =
              Sample(NoStatus, ClassifyException(e)[1], ClassifyException(e)[2])
      BY DEF ClassifyFailure
    <2>4. Counted(ClassifyFailure(e, NoStatus, NoStatus), e)
      BY <1>1, <2>2, <2>3, ClassFacts DEF Counted, Sample, CountsAsError
    <2>5. QED
      BY <1>4, <2>1, <2>4 DEF Fail
  <1>5. CASE HandlerFails(a)
    <2>1. PICK e \in {"HandlerError", "CancelledError"} :
              Finally(a, ClassifyFailure(e, Ok, NoStatus), e)
      BY <1>5 DEF HandlerFails
    <2>2. ClassifyFailure(e, Ok, NoStatus) =
              IF e = "CancelledError"
              THEN Sample(NoStatus, ClassifyException(e)[1], ClassifyException(e)[2])
              ELSE Sample(Ok, "response", "invalid_response")
      BY <1>2 DEF ClassifyFailure
    <2>3. Counted(ClassifyFailure(e, Ok, NoStatus), e)
      BY <1>1, <2>2, ClassFacts DEF Counted, Sample, CountsAsError
    <2>4. QED
      BY <1>5, <2>1, <2>3 DEF HandlerFails
  <1>6. QED
    BY <1>3, <1>4, <1>5

\* The copies each instrument has.
Totals == Copies(prometheus.total)
Latencies == Copies(prometheus.latency)
Errors == Copies(prometheus.errors)
Answers == {x \in Totals : x[1].outcome = "response"}
AnswerTimes == {x \in Latencies : x[1].labels.outcome = "response"}

\* The property, with what makes its counts finite.
SinkInv ==
    /\ opentelemetry = prometheus
    /\ DOMAIN result = Attempt
    /\ IsBag(prometheus.total) /\ IsBag(prometheus.latency) /\ IsBag(prometheus.errors)
    /\ Cardinality(Totals) = Cardinality(Ended(ExceptionClass \cup {"returned"}))
    /\ Cardinality(Latencies) = Cardinality(Ended(ExceptionClass \cup {"returned"}))
    /\ Cardinality(Answers) = Cardinality(Ended({"returned", "HandlerError"}))
    /\ Cardinality(AnswerTimes) = Cardinality(Ended({"returned", "HandlerError"}))
    /\ Cardinality(Errors) = Cardinality(Ended(ExceptionClass \ {"CancelledError"}))

\* A step that ends no attempt, and changes the two sinks alike.
LEMMA NoEndStep ==
    ASSUME SinkInv, UNCHANGED result,
           \A a \in Attempt : pc'[a] = "done" <=> pc[a] = "done",
           opentelemetry' = prometheus',
           prometheus'.total = prometheus.total,
           prometheus'.latency = prometheus.latency,
           prometheus'.errors = prometheus.errors
    PROVE  SinkInv'
  <1>1. \A results : Ended(results)' = Ended(results)
    BY DEF Ended
  <1>2. QED
    BY <1>1 DEF SinkInv, Totals, Latencies, Errors, Answers, AnswerTimes

\* An emission changes the phases of both, and nothing else.
LEMMA EmitAlike ==
    ASSUME IInv, SinkInv, NEW a \in Attempt, NEW stamp, NEW phase, EmitFrom(a, stamp, phase)
    PROVE  /\ opentelemetry' = prometheus'
           /\ prometheus'.total = prometheus.total
           /\ prometheus'.latency = prometheus.latency
           /\ prometheus'.errors = prometheus.errors
  <1>1. CASE stamp = Unset \/ a \in foreign
    BY <1>1 DEF EmitFrom, SinkInv
  <1>2. CASE ~ (stamp = Unset \/ a \in foreign)
    BY <1>2, PhaseLabels
       DEF EmitFrom, SinkInv, PrometheusPhase, OpenTelemetryPhase, IInv, Instruments, Told
  <1>3. QED
    BY <1>1, <1>2

\* The steps that end no attempt.
LEMMA QuietSinks ==
    ASSUME IInv, SinkInv, NEW a \in Attempt,
           \/ Start(a) \/ QueuedStart(a) \/ QueuedEnd(a) \/ Reuse(a) \/ ConnectStart(a)
           \/ DnsStart(a) \/ DnsEnd(a) \/ ConnectEnd(a) \/ ReadInMiddleware(a) \/ Redirect(a)
           \/ Answered(a) \/ ReadBody(a)
    PROVE  SinkInv'
  <1>1. UNCHANGED result /\ \A b \in Attempt : pc'[b] = "done" <=> pc[b] = "done"
    BY DEF Start, QueuedStart, QueuedEnd, Reuse, ConnectStart, DnsStart, DnsEnd, ConnectEnd,
           ReadInMiddleware, Redirect, Answered, ReadBody, Responded, Go, client, IInv
  <1>2. /\ opentelemetry' = prometheus'
        /\ prometheus'.total = prometheus.total
        /\ prometheus'.latency = prometheus.latency
        /\ prometheus'.errors = prometheus.errors
    <2>1. CASE Start(a)
      <3>1. Labels(Common, Positional(LabelsOf(a))) = Base(LabelsOf(a))
        BY PositionsAreNames, RequestLabels
      <3>2. QED
        BY <2>1, <3>1
           DEF Start, PrometheusStart, OpenTelemetryStart, SinkInv, IInv, Instruments
    <2>2. CASE UNCHANGED <<prometheus, opentelemetry>>
      BY <2>2 DEF SinkInv
    <2>3. CASE \E stamp, phase : EmitFrom(a, stamp, phase)
      BY <2>3, EmitAlike
    <2>4. \/ Start(a)
          \/ UNCHANGED <<prometheus, opentelemetry>>
          \/ \E stamp, phase : EmitFrom(a, stamp, phase)
      BY DEF Start, QueuedStart, QueuedEnd, Reuse, ConnectStart, DnsStart, DnsEnd, ConnectEnd,
             ReadInMiddleware, Redirect, Answered, ReadBody, OnChunkReceived, OnRequestEnd
    <2>5. QED
      BY <2>1, <2>2, <2>3, <2>4
  <1>3. QED
    BY <1>1, <1>2, NoEndStep

\* One observation of an attempt that is over: what it makes of each instrument.
LEMMA FinallyFacts ==
    ASSUME IInv, SinkInv, NEW a \in Attempt, NEW s, NEW ended, Finally(a, s, ended)
    PROVE  LET c == LabelsOf(a)
           IN  /\ opentelemetry' = prometheus'
               /\ \E x : /\ x.outcome = s.outcome
                         /\ prometheus'.total = Count(prometheus.total, x)
               /\ \E x : /\ x.labels.outcome = HistogramOutcome(s.outcome)
                         /\ prometheus'.latency = Count(prometheus.latency, x)
               /\ IF CountsAsError(s)
                  THEN \E x : prometheus'.errors = Count(prometheus.errors, x)
                  ELSE prometheus'.errors = prometheus.errors
  <1> DEFINE c == LabelsOf(a)
             m == PrometheusEnd(prometheus, c)
             t == With(Base(c), [status |-> StatusLabel(s.status), outcome |-> s.outcome])
             l == With(Base(c), [outcome |-> HistogramOutcome(s.outcome)])
             e == With(Base(c), [error_type |-> s.error_type])
             o == [labels |-> l, seconds |-> clock - started[a]]
  <1>1. /\ Labels(TotalNames, Positional(c) \o <<StatusLabel(s.status), s.outcome>>) = t
        /\ Labels(LatencyNames, Append(Positional(c), HistogramOutcome(s.outcome))) = l
        /\ Labels(ErrorNames, Append(Positional(c), s.error_type)) = e
    BY RequestLabels
  <1>2. t.outcome = s.outcome /\ o.labels.outcome = HistogramOutcome(s.outcome)
    BY DEF With
  <1>3. /\ DOMAIN m = Instruments /\ m = OpenTelemetryEnd(opentelemetry, c)
        /\ m.total = prometheus.total /\ m.latency = prometheus.latency
        /\ m.errors = prometheus.errors
    <2>1. Labels(Common, Positional(c)) = Base(c)
      BY PositionsAreNames, RequestLabels
    <2>2. QED
      BY <2>1 DEF PrometheusEnd, OpenTelemetryEnd, IInv, Instruments, SinkInv
  <1>4. /\ prometheus' = PrometheusRequest(m, c, s, clock - started[a])
        /\ opentelemetry' = OpenTelemetryRequest(m, c, s, clock - started[a])
    BY <1>3 DEF Finally
  <1> HIDE DEF c, m, t, l, e
  <1>5. /\ opentelemetry' = prometheus'
        /\ prometheus' = [m EXCEPT !.total = Count(@, t),
                                   !.latency = Observe(@, l, clock - started[a]),
                                   !.errors = IF CountsAsError(s) THEN Count(@, e) ELSE @]
    BY <1>1, <1>4 DEF PrometheusRequest, OpenTelemetryRequest, t, l, e
  <1>6. /\ prometheus'.total = Count(prometheus.total, t)
        /\ prometheus'.latency = Count(prometheus.latency, o)
        /\ prometheus'.errors =
               IF CountsAsError(s) THEN Count(prometheus.errors, e) ELSE prometheus.errors
    BY <1>3, <1>5 DEF Observe, Instruments
  <1> HIDE DEF o
  <1>7. QED
    BY <1>2, <1>5, <1>6

\* So each count grows with the attempts it is a count of.
LEMMA FinallyCounts ==
    ASSUME IInv, SinkInv, NEW a \in Attempt, pc[a] \notin {"idle", "done"},
           NEW s, NEW ended, Finally(a, s, ended), Counted(s, ended)
    PROVE  SinkInv'
  <1>1. /\ opentelemetry' = prometheus'
        /\ pc' = [pc EXCEPT ![a] = "done"] /\ result' = [result EXCEPT ![a] = ended]
    BY FinallyFacts DEF Finally
  <1>2. \A results : /\ Cardinality(Ended(results)) \in Nat
                     /\ Cardinality(Ended(results)') =
                            Cardinality(Ended(results)) + (IF ended \in results THEN 1 ELSE 0)
    <2>1. ASSUME NEW results
          PROVE  /\ Cardinality(Ended(results)) \in Nat
                 /\ Cardinality(Ended(results)') =
                        Cardinality(Ended(results)) + (IF ended \in results THEN 1 ELSE 0)
      <3>1. /\ Ended(results)' =
                   IF ended \in results THEN Ended(results) \cup {a} ELSE Ended(results)
            /\ a \notin Ended(results) /\ Ended(results) \in SUBSET Attempt
        BY <1>1 DEF Ended, IInv, SinkInv
      <3>2. IsFiniteSet(Ended(results)) /\ Cardinality(Ended(results)) \in Nat
        BY <3>1, TelemetryAssumption, FS_Subset, FS_CardinalityType
      <3>3. Cardinality(Ended(results) \cup {a}) = Cardinality(Ended(results)) + 1
        BY <3>1, <3>2, FS_AddElement
      <3>4. QED
        BY <3>1, <3>2, <3>3
    <2>2. QED
      BY <2>1
  <1>3. PICK x : x.outcome = s.outcome /\ prometheus'.total = Count(prometheus.total, x)
    BY FinallyFacts
  <1>4. PICK y : /\ y.labels.outcome = HistogramOutcome(s.outcome)
                 /\ prometheus'.latency = Count(prometheus.latency, y)
    BY FinallyFacts
  <1>5. /\ IsBag(prometheus'.total)
        /\ Cardinality(Totals') = Cardinality(Totals) + 1
        /\ Cardinality(Answers') =
               Cardinality(Answers) + (IF s.outcome = "response" THEN 1 ELSE 0)
    <2>1. PICK n \in Nat : <<x, n>> \notin Totals /\ Totals' = Totals \cup {<<x, n>>}
      BY <1>3, CountCopies DEF SinkInv, Totals
    <2>2. /\ Answers' = IF s.outcome = "response" THEN Answers \cup {<<x, n>>} ELSE Answers
          /\ <<x, n>> \notin Answers /\ Answers \in SUBSET Totals
      BY <1>3, <2>1 DEF Answers
    <2>3. IsFiniteSet(Totals) /\ IsFiniteSet(Answers)
      BY <2>2, FS_Subset DEF SinkInv, IsBag, Totals
    <2>4. Cardinality(Totals') = Cardinality(Totals) + 1
      BY <2>1, <2>3, FS_AddElement
    <2>5. Cardinality(Answers \cup {<<x, n>>}) = Cardinality(Answers) + 1
          /\ Cardinality(Answers) \in Nat
      BY <2>2, <2>3, FS_AddElement, FS_CardinalityType
    <2>6. IsBag(prometheus'.total)
      BY <1>3, CountCopies DEF SinkInv
    <2>7. QED
      BY <2>2, <2>4, <2>5, <2>6
  <1>6. /\ IsBag(prometheus'.latency)
        /\ Cardinality(Latencies') = Cardinality(Latencies) + 1
        /\ Cardinality(AnswerTimes') =
               Cardinality(AnswerTimes) + (IF s.outcome = "response" THEN 1 ELSE 0)
    <2>1. PICK n \in Nat : <<y, n>> \notin Latencies /\ Latencies' = Latencies \cup {<<y, n>>}
      BY <1>4, CountCopies DEF SinkInv, Latencies
    <2>2. y.labels.outcome = "response" <=> s.outcome = "response"
      BY <1>4 DEF HistogramOutcome
    <2>3. /\ AnswerTimes' =
                 IF s.outcome = "response" THEN AnswerTimes \cup {<<y, n>>} ELSE AnswerTimes
          /\ <<y, n>> \notin AnswerTimes /\ AnswerTimes \in SUBSET Latencies
      BY <2>1, <2>2 DEF AnswerTimes
    <2>4. IsFiniteSet(Latencies) /\ IsFiniteSet(AnswerTimes)
      BY <2>3, FS_Subset DEF SinkInv, IsBag, Latencies
    <2>5. Cardinality(Latencies') = Cardinality(Latencies) + 1
      BY <2>1, <2>4, FS_AddElement
    <2>6. Cardinality(AnswerTimes \cup {<<y, n>>}) = Cardinality(AnswerTimes) + 1
          /\ Cardinality(AnswerTimes) \in Nat
      BY <2>3, <2>4, FS_AddElement, FS_CardinalityType
    <2>7. IsBag(prometheus'.latency)
      BY <1>4, CountCopies DEF SinkInv
    <2>8. QED
      BY <2>3, <2>5, <2>6, <2>7
  <1>7. /\ IsBag(prometheus'.errors)
        /\ Cardinality(Errors') = Cardinality(Errors) + (IF CountsAsError(s) THEN 1 ELSE 0)
    <2>1. IsFiniteSet(Errors) /\ Cardinality(Errors) \in Nat
      BY FS_CardinalityType DEF SinkInv, IsBag, Errors
    <2>2. CASE CountsAsError(s)
      <3>1. PICK z : prometheus'.errors = Count(prometheus.errors, z)
        BY <2>2, FinallyFacts
      <3>2. PICK n \in Nat : <<z, n>> \notin Errors /\ Errors' = Errors \cup {<<z, n>>}
        BY <3>1, CountCopies DEF SinkInv, Errors
      <3>3. Cardinality(Errors') = Cardinality(Errors) + 1
        BY <2>1, <3>2, FS_AddElement
      <3>4. IsBag(prometheus'.errors)
        BY <3>1, CountCopies DEF SinkInv
      <3>5. QED
        BY <2>2, <3>3, <3>4
    <2>3. CASE ~ CountsAsError(s)
      <3>1. prometheus'.errors = prometheus.errors
        BY <2>3, FinallyFacts
      <3>2. QED
        BY <2>1, <2>3, <3>1 DEF SinkInv, Errors
    <2>4. QED
      BY <2>2, <2>3
  <1>8. /\ Cardinality(Totals') = Cardinality(Ended(ExceptionClass \cup {"returned"})')
        /\ Cardinality(Latencies') = Cardinality(Ended(ExceptionClass \cup {"returned"})')
        /\ Cardinality(Answers') = Cardinality(Ended({"returned", "HandlerError"})')
        /\ Cardinality(AnswerTimes') = Cardinality(Ended({"returned", "HandlerError"})')
        /\ Cardinality(Errors') = Cardinality(Ended(ExceptionClass \ {"CancelledError"})')
    BY <1>2, <1>5, <1>6, <1>7 DEF SinkInv, Counted
  <1>9. DOMAIN result' = Attempt
    BY <1>1 DEF SinkInv
  <1>10. QED
    BY <1>1, <1>5, <1>6, <1>7, <1>8, <1>9 DEF SinkInv

\* It holds of every step.
LEMMA SinkInvariance == Spec => []SinkInv
  <1>1. Init => SinkInv
    <2> SUFFICES ASSUME Init PROVE SinkInv
      OBVIOUS
    <2>1. /\ prometheus.total = EmptyBag /\ prometheus.latency = EmptyBag
          /\ prometheus.errors = EmptyBag
          /\ opentelemetry = prometheus /\ DOMAIN result = Attempt
      BY DEF Init, NoMetrics
    <2>2. DOMAIN EmptyBag = {} /\ Copies(EmptyBag) = {}
      BY DEF EmptyBag, SetToBag, Copies
    <2>3. IsBag(EmptyBag)
      BY <2>2, FS_EmptySet DEF IsBag
    <2>4. Totals = {} /\ Latencies = {} /\ Errors = {} /\ Answers = {} /\ AnswerTimes = {}
      BY <2>1, <2>2 DEF Totals, Latencies, Errors, Answers, AnswerTimes
    <2>5. \A results : Ended(results) = {}
      BY DEF Init, Ended
    <2>6. QED
      BY <2>1, <2>3, <2>4, <2>5 DEF SinkInv
  <1>2. IInv /\ SinkInv /\ [Next]_vars => SinkInv'
    <2> SUFFICES ASSUME IInv, SinkInv, [Next]_vars PROVE SinkInv'
      OBVIOUS
    <2>1. CASE Tick
      BY <2>1, NoEndStep DEF Tick, SinkInv
    <2>2. CASE UNCHANGED vars
      BY <2>2, NoEndStep DEF vars, SinkInv
    <2>3. ASSUME NEW a \in Attempt, Return(a) \/ Fail(a) \/ HandlerFails(a) PROVE SinkInv'
      BY <2>3, EndsAreCounted, FinallyCounts
    <2>4. QED
      BY <2>1, <2>2, <2>3, QuietSinks DEF Next
  <1>3. QED
    BY <1>1, <1>2, InitIInv, NextIInv, PTL DEF Spec

\* Two sinks given the same calls show the same, and their instruments agree on how many
\* attempts were over, answered and failed.
THEOREM SinksAgree == Spec => []SinksTellTheSame
  <1>1. SinkInv => SinksTellTheSame
    BY DEF SinkInv, SinksTellTheSame, Totals, Latencies, Errors, Answers, AnswerTimes
  <1>2. QED
    BY <1>1, SinkInvariance, PTL

=============================================================================
