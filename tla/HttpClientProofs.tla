-------------------------- MODULE HttpClientProofs --------------------------
(***************************************************************************)
(* Theorems about HttpClient, for any set of requests, pool limit and      *)
(* retry policy.  One inductive invariant, IInv, carries all of them.      *)
(***************************************************************************)
EXTENDS HttpClient, TLAPS

-----------------------------------------------------------------------------
(* The policy *)

\* should_retry and _suppression_reason, which decide the same question in
\* two places of the code, agree on every outcome.
THEOREM ShouldRetryAgrees ==
    ASSUME NEW c \in RetryContext
    PROVE  ShouldRetry(c) <=> MatchesOutcome(c) /\ SuppressionReason(c) = NoReason
  BY PolicyAssumption DEF RetryContext, ShouldRetry, SuppressionReason, NoReason

\* A retryable outcome is either retried or suppressed for a reason that can
\* be reported.
LEMMA SuppressionRange ==
    ASSUME NEW c \in RetryContext
    PROVE  SuppressionReason(c) \in {NoReason, "method_not_allowed",
                "body_not_replayable", "attempts_exhausted"}
  BY DEF SuppressionReason, NoReason

\* Why a retry is suppressed depends on the request and the number of the
\* attempt, never on the outcome: a decision cannot be undone by a later
\* outcome of the same attempt.
THEOREM SuppressionIsOutcomeIndependent ==
    ASSUME NEW c \in RetryContext, NEW d \in RetryContext,
           c.method = d.method, c.attempt = d.attempt,
           c.replayable = d.replayable,
           MatchesOutcome(c), MatchesOutcome(d)
    PROVE  SuppressionReason(c) = SuppressionReason(d)
  BY DEF SuppressionReason

\* get_delay answers a usable delay or raises; it never hands a negative or
\* infinite number to asyncio.sleep.
THEOREM DelayIsUsable ==
    ASSUME NEW h \in RetryAfter, NEW b \in BackoffResult
    PROVE  GetDelay(h, b) \in UsableDelay \cup RaisedByDelay
  BY DEF GetDelay, RetryAfter, NoHeader, BackoffResult, ParseRetryAfter,
         UnusableNumber, UsableDelay, RaisedByDelay

-----------------------------------------------------------------------------
(* Logs of the observer *)

Outcomes ==
    [returned : Status \cup {NoStatus},
     raised : Exception \cup RaisedByDelay \cup {NoException, Wrapper, "RuntimeError"}]

CanRetry(r) == MayRepeat(r) /\ attempt[r] < MaxAttempts

\* What an attempt in flight knows of the log of its request.
LogOK(r, log) ==
    /\ log \in Seq(Event)
    /\ TellsRetries(log, attempt[r])
    /\ ToldIn(log) => call[r].retry /\ ~CanRetry(r)
    /\ ~ToldIn(log) => Len(log) = attempt[r] - 1

\* What Append does to a log: one event more, the earlier ones unmoved.
LEMMA AppendFacts ==
    ASSUME NEW log \in Seq(Event), NEW e \in Event
    PROVE  /\ Append(log, e) \in Seq(Event)
           /\ Len(log) \in Nat
           /\ Len(Append(log, e)) = Len(log) + 1
           /\ \A i \in 1..Len(log) : Append(log, e)[i] = log[i]
           /\ Append(log, e)[Len(log) + 1] = e
  OBVIOUS

\* A terminal event keeps the shape of a log, and so does a "scheduled" event
\* in the first place it may take.
LEMMA TellsAppend ==
    ASSUME NEW n \in 1..MaxAttempts, NEW log \in Seq(Event), TellsRetries(log, n),
           NEW e \in Event, e.attempt = n,
           e.kind # "scheduled" \/ Len(log) = n - 1
    PROVE  TellsRetries(Append(log, e), n)
  <1> DEFINE new == Append(log, e)
             Fits(l, i) ==
               /\ l[i].attempt = IF i < n THEN i ELSE n
               /\ i < n => l[i].kind = "scheduled"
               /\ i > n => l[i].kind # "scheduled"
  <1>1. /\ Len(log) \in Nat
        /\ Len(new) = Len(log) + 1
        /\ \A i \in 1..Len(log) : new[i] = log[i]
        /\ new[Len(log) + 1] = e
    BY AppendFacts
  <1> HIDE DEF new
  <1>2. Len(log) >= n - 1 /\ \A i \in 1..Len(log) : Fits(log, i)
    BY DEF TellsRetries
  <1>3. \A i \in 1..Len(log) : Fits(new, i)
    BY <1>1, <1>2
  <1>4. Fits(new, Len(log) + 1)
    BY <1>1, <1>2, PolicyAssumption
  <1>5. \A i \in 1..Len(new) : Fits(new, i)
    <2> SUFFICES ASSUME NEW i \in 1..Len(new) PROVE Fits(new, i)
      OBVIOUS
    <2> HIDE DEF Fits
    <2>1. i \in 1..Len(log) \/ i = Len(log) + 1
      BY <1>1, PolicyAssumption
    <2>2. QED
      BY <2>1, <1>3, <1>4
  <1>6. Len(new) >= n - 1
    BY <1>1, <1>2, PolicyAssumption
  <1>7. QED
    BY <1>5, <1>6 DEF TellsRetries, new

\* The context a request builds from the exception of its current attempt.
LEMMA FailedContextFacts ==
    ASSUME TypeOK, NEW r \in Request, attempt[r] # 0, NEW e \in Exception
    PROVE  LET c == FailedContext(r, e) IN
           /\ c \in RetryContext
           /\ c.attempt = attempt[r]
           /\ MatchesOutcome(c) <=> e \in Exceptions /\ e # "CancelledError"
           /\ MatchesOutcome(c) /\ call[r].retry =>
                  (SuppressionReason(c) = NoReason <=> CanRetry(r))
  <1> DEFINE c == FailedContext(r, e)
  <1>1. call[r] \in Call /\ attempt[r] \in 1..MaxAttempts
    BY PolicyAssumption DEF TypeOK
  <1>2. /\ c \in RetryContext
        /\ c.method = call[r].method
        /\ c.attempt = attempt[r]
        /\ c.replayable = IsRequestReplayable(call[r])
        /\ c.response_status = NoStatus
        /\ c.exception = e
    BY <1>1 DEF FailedContext, Context, RetryContext, Call, IsRequestReplayable
  <1> HIDE DEF c
  <1>3. MatchesOutcome(c) <=> e \in Exceptions /\ e # "CancelledError"
    BY <1>2 DEF MatchesOutcome
  <1>4. ASSUME MatchesOutcome(c), call[r].retry
        PROVE  SuppressionReason(c) = NoReason <=> CanRetry(r)
    BY <1>1, <1>2, <1>4, PolicyAssumption
    DEF SuppressionReason, CanRetry, MayRepeat, NoReason
  <1>5. QED
    BY <1>2, <1>3, <1>4 DEF c

\* The context it builds from a response.
LEMMA ResponseContextFacts ==
    ASSUME TypeOK, NEW r \in Request, attempt[r] # 0, NEW s \in Status
    PROVE  LET c == ResponseContext(r, s) IN
           /\ c \in RetryContext
           /\ c.attempt = attempt[r]
           /\ MatchesOutcome(c) <=> s \in Statuses
           /\ MatchesOutcome(c) /\ call[r].retry =>
                  (SuppressionReason(c) = NoReason <=> CanRetry(r))
  <1> DEFINE c == ResponseContext(r, s)
  <1>1. /\ call[r] \in Call /\ attempt[r] \in 1..MaxAttempts
        /\ s # NoStatus /\ NoException # "CancelledError"
    BY PolicyAssumption DEF TypeOK, NoStatus, NoException
  <1>2. /\ c \in RetryContext
        /\ c.method = call[r].method
        /\ c.attempt = attempt[r]
        /\ c.replayable = IsRequestReplayable(call[r])
        /\ c.response_status = s
        /\ c.exception = NoException
    BY <1>1 DEF ResponseContext, Context, RetryContext, Call, IsRequestReplayable
  <1> HIDE DEF c
  <1>3. MatchesOutcome(c) <=> s \in Statuses
    BY <1>1, <1>2 DEF MatchesOutcome
  <1>4. ASSUME MatchesOutcome(c), call[r].retry
        PROVE  SuppressionReason(c) = NoReason <=> CanRetry(r)
    BY <1>1, <1>2, <1>4, PolicyAssumption
    DEF SuppressionReason, CanRetry, MayRepeat, NoReason
  <1>5. QED
    BY <1>2, <1>3, <1>4 DEF c

\* A terminal event may follow whatever an attempt in flight has logged.
LEMMA AppendTerminal ==
    ASSUME NEW r \in Request, attempt[r] \in 1..MaxAttempts,
           NEW log, LogOK(r, log), call[r].retry, ~CanRetry(r),
           NEW c \in RetryContext, c.attempt = attempt[r],
           SuppressionReason(c) # NoReason
    PROVE  /\ LogOK(r, Append(log, Terminal(c)))
           /\ ToldIn(Append(log, Terminal(c)))
  <1> DEFINE new == Append(log, Terminal(c))
  <1>1. /\ Terminal(c) \in Event
        /\ Terminal(c).kind # "scheduled"
        /\ Terminal(c).attempt = attempt[r]
    BY SuppressionRange DEF Terminal, Event, Reason, RetryContext
  <1>2. /\ new \in Seq(Event)
        /\ Len(log) \in Nat
        /\ Len(new) = Len(log) + 1
        /\ \A i \in 1..Len(log) : new[i] = log[i]
        /\ new[Len(log) + 1] = Terminal(c)
    BY <1>1, AppendFacts DEF LogOK
  <1> HIDE DEF new
  <1>3. ToldIn(new)
    BY <1>1, <1>2 DEF ToldIn
  <1>4. TellsRetries(new, attempt[r])
    BY <1>1, TellsAppend DEF LogOK, new
  <1>5. QED
    BY <1>2, <1>3, <1>4 DEF LogOK, new

\* A "scheduled" event may follow the log of an attempt that was not told
\* that it is the last.
LEMMA AppendScheduled ==
    ASSUME NEW r \in Request, attempt[r] \in 1..MaxAttempts,
           NEW log, LogOK(r, log), ~ToldIn(log),
           NEW c \in RetryContext, c.attempt = attempt[r],
           NEW reason \in {"status", "exception"}
    PROVE  LET new == Append(log, Scheduled(c, reason)) IN
           /\ new \in Seq(Event)
           /\ TellsRetries(new, attempt[r])
           /\ ~ToldIn(new)
           /\ Len(new) = attempt[r]
  <1> DEFINE new == Append(log, Scheduled(c, reason))
  <1>1. /\ Scheduled(c, reason) \in Event
        /\ Scheduled(c, reason).kind = "scheduled"
        /\ Scheduled(c, reason).attempt = attempt[r]
    BY DEF Scheduled, Event, Reason, RetryContext
  <1>2. /\ new \in Seq(Event)
        /\ Len(log) = attempt[r] - 1
        /\ Len(new) = attempt[r]
        /\ \A i \in 1..Len(log) : new[i] = log[i]
        /\ new[Len(log) + 1] = Scheduled(c, reason)
    BY <1>1, AppendFacts, PolicyAssumption DEF LogOK
  <1> HIDE DEF new
  <1>3. ~ToldIn(new)
    <2>1. \A i \in 1..Len(log) : new[i].kind = "scheduled"
      BY <1>2 DEF ToldIn
    <2>2. \A i \in 1..Len(new) : i \in 1..Len(log) \/ i = Len(log) + 1
      BY <1>2, PolicyAssumption
    <2>3. QED
      BY <1>1, <1>2, <2>1, <2>2 DEF ToldIn
  <1>4. TellsRetries(new, attempt[r])
    BY <1>1, TellsAppend DEF LogOK, new
  <1>5. QED
    BY <1>2, <1>3, <1>4 DEF new
-----------------------------------------------------------------------------
(* The inductive invariant *)

\* How often the attempts of r so far may have reached the wire.
Sendings(r) == attempt[r] + (IF r \in resent THEN 1 ELSE 0)

\* One request: where it is, how often it was sent, and what its log says.
RequestOK(r) ==
    /\ pc[r] = "idle" <=> attempt[r] = 0
    /\ pc[r] = "idle" => sent[r] = 0 /\ events[r] = <<>>
    /\ call[r].retry => r \notin resent
    /\ sent[r] <= Sendings(r)
    /\ pc[r] = "connecting" => sent[r] < Sendings(r)
    /\ attempt[r] > 1 => MayRepeat(r)
    /\ TellsRetries(events[r], attempt[r])
    /\ pc[r] \in {"connecting", "waiting"} => ~Told(r)
    /\ pc[r] \in {"connecting", "waiting", "handling"} => LogOK(r, events[r])
    /\ pc[r] = "sleeping" => ~Told(r) /\ CanRetry(r) /\ Len(events[r]) = attempt[r]
    /\ Told(r) => pc[r] \in {"handling", "done"}
    /\ pc[r] = "handling" /\ call[r].retry /\ response[r] \in Statuses => Told(r)
    /\ pc[r] # "done" => outcome[r] = Pending
    /\ pc[r] = "done" /\ call[r].retry
         /\ (outcome[r].returned \in Statuses
               \/ outcome[r].raised \in Exceptions \ {"CancelledError"}) => Told(r)
    /\ outcome[r].raised \notin {Wrapper, "RuntimeError"}

IInv ==
    /\ TypeOK
    /\ ConnectionsOnlyInExchange
    /\ \A r \in Request : RequestOK(r)

\* What one request's step leaves alone.
OthersUnchanged(r) ==
    \A q \in Request \ {r} :
        /\ pc'[q] = pc[q] /\ attempt'[q] = attempt[q] /\ sent'[q] = sent[q]
        /\ q \in resent' <=> q \in resent
        /\ response'[q] = response[q] /\ events'[q] = events[q]
        /\ outcome'[q] = outcome[q]

\* A step of r disturbs nothing that is known of another request.
LEMMA Frame ==
    ASSUME IInv, NEW r \in Request, NEW q \in Request \ {r},
           call' = call, OthersUnchanged(r)
    PROVE  RequestOK(q)'
  <1>1. RequestOK(q)
    BY DEF IInv
  <1>2. /\ pc'[q] = pc[q] /\ attempt'[q] = attempt[q] /\ sent'[q] = sent[q]
        /\ q \in resent' <=> q \in resent
        /\ response'[q] = response[q] /\ events'[q] = events[q]
        /\ outcome'[q] = outcome[q] /\ call'[q] = call[q]
    BY DEF OthersUnchanged
  <1>3. QED
    BY <1>1, <1>2 DEF RequestOK, Sendings, LogOK, CanRetry, MayRepeat, Told, Pending

\* Before any request starts (Init of the model: no _make_req has been
\* called) the inductive invariant holds.
THEOREM InitIInv == Init => IInv
  <1> SUFFICES ASSUME Init PROVE IInv
    OBVIOUS
  <1>1. NoStatus \notin Statuses /\ NoException \notin Exceptions
    BY PolicyAssumption DEF NoStatus, NoException, Exception, TransportException
  <1>2. TypeOK
    BY PolicyAssumption DEF Init, TypeOK, Pending
  <1>3. ConnectionsOnlyInExchange
    BY DEF Init, ConnectionsOnlyInExchange
  <1>4. ASSUME NEW r \in Request PROVE RequestOK(r)
    BY <1>1 DEF Init, RequestOK, Sendings, Told, ToldIn, TellsRetries, LogOK, Pending,
       Wrapper, NoException
  <1>5. QED
    BY <1>2, <1>3, <1>4 DEF IInv
-----------------------------------------------------------------------------
(* The ways out of an attempt *)

\* An exception leaves _make_req: the request is over, its connection is
\* back, and a retryable exception was announced.
LEMMA EscapeStep ==
    ASSUME IInv, NEW r \in Request, pc[r] \in Suspended,
           NEW log \in Seq(Event), TellsRetries(log, attempt[r]),
           NEW e \in Exception \cup RaisedByDelay,
           call[r].retry /\ e \in Exceptions \ {"CancelledError"} => ToldIn(log),
           Escape(r, log, e),
           conns' = conns \ {r},
           response' = [response EXCEPT ![r] = NoStatus],
           UNCHANGED <<call, attempt, sent, resent>>
    PROVE  IInv'
  <1>1. TypeOK /\ ConnectionsOnlyInExchange /\ RequestOK(r)
    BY DEF IInv
  <1>2. /\ pc[r] \notin {"idle", "done"}
        /\ e \notin {Wrapper, "RuntimeError"}
        /\ NoStatus \notin Statuses
    BY PolicyAssumption
    DEF Suspended, Wrapper, RaisedByDelay, NoStatus, Exception, TransportException
  <1>3. TypeOK'
    BY <1>1 DEF TypeOK, Escape
  <1>4. ConnectionsOnlyInExchange'
    BY <1>1 DEF TypeOK, ConnectionsOnlyInExchange, Escape
  <1>5. RequestOK(r)'
    <2>1. /\ pc'[r] = "done" /\ events'[r] = log
          /\ outcome'[r].raised = e /\ outcome'[r].returned = NoStatus
          /\ attempt'[r] = attempt[r] /\ sent'[r] = sent[r] /\ call'[r] = call[r]
      BY <1>1, <1>2 DEF TypeOK, Escape, RequestOK, Pending
    <2>2. QED
      BY <1>1, <1>2, <2>1 DEF RequestOK, Sendings, Told, CanRetry, MayRepeat, Wrapper
  <1>6. ASSUME NEW q \in Request \ {r} PROVE RequestOK(q)'
    BY <1>1, Frame DEF OthersUnchanged, TypeOK, Escape
  <1>7. QED
    BY <1>3, <1>4, <1>5, <1>6 DEF IInv

\* The loop announces a retry and sleeps, or get_delay raises.
LEMMA ScheduleStep ==
    ASSUME IInv, NEW r \in Request,
           pc[r] \in {"connecting", "waiting", "handling"},
           NEW log, LogOK(r, log), ~ToldIn(log), CanRetry(r),
           NEW c \in RetryContext, c.attempt = attempt[r],
           NEW reason \in {"status", "exception"},
           NEW header \in RetryAfter,
           ScheduleRetry(r, log, c, reason, header),
           conns' = conns \ {r},
           response' = [response EXCEPT ![r] = NoStatus],
           UNCHANGED <<call, attempt, sent, resent>>
    PROVE  IInv'
  <1> DEFINE new == Append(log, Scheduled(c, reason))
  <1>1. TypeOK /\ ConnectionsOnlyInExchange /\ RequestOK(r)
    BY DEF IInv
  <1>2. attempt[r] \in 1..MaxAttempts
    BY <1>1, PolicyAssumption DEF TypeOK, RequestOK
  <1>3. /\ new \in Seq(Event) /\ TellsRetries(new, attempt[r])
        /\ ~ToldIn(new) /\ Len(new) = attempt[r]
    BY <1>2, AppendScheduled
  <1> HIDE DEF new
  <1>4. CASE /\ pc' = [pc EXCEPT ![r] = "sleeping"]
             /\ events' = [events EXCEPT ![r] = new]
             /\ UNCHANGED outcome
    <2>1. TypeOK'
      BY <1>1, <1>3, <1>4 DEF TypeOK, Suspended
    <2>2. ConnectionsOnlyInExchange'
      BY <1>1, <1>4 DEF TypeOK, ConnectionsOnlyInExchange
    <2>3. RequestOK(r)'
      <3>1. /\ pc'[r] = "sleeping" /\ events'[r] = new /\ outcome'[r] = outcome[r]
            /\ attempt'[r] = attempt[r] /\ sent'[r] = sent[r] /\ call'[r] = call[r]
        BY <1>1, <1>4 DEF TypeOK
      <3>2. QED
        BY <1>1, <1>2, <1>3, <3>1
        DEF RequestOK, Sendings, Told, CanRetry, MayRepeat, Pending, Wrapper, NoException
    <2>4. ASSUME NEW q \in Request \ {r} PROVE RequestOK(q)'
      BY <1>1, <1>4, Frame DEF OthersUnchanged, TypeOK
    <2>5. QED
      BY <2>1, <2>2, <2>3, <2>4 DEF IInv
  <1>5. ASSUME NEW delay \in RaisedByDelay, Escape(r, log, delay)
        PROVE  IInv'
    <2>1. delay \notin Exceptions
      BY PolicyAssumption DEF RaisedByDelay, Exception, TransportException
    <2>2. log \in Seq(Event) /\ TellsRetries(log, attempt[r])
      BY DEF LogOK
    <2>3. QED
      BY <1>5, <2>1, <2>2, EscapeStep DEF Suspended
  <1>6. QED
    BY <1>4, <1>5 DEF ScheduleRetry, new

\* What _make_req catches from an attempt of r: an exception of the request
\* itself, or one the middleware of a retried request wrapped.
Caught(r, caught) ==
    \E e \in Exception \ {"CancelledError"} :
        \/ caught = [class |-> e, original |-> e]
        \/ caught = ExposeTransportError(r, e)

\* However an exception leaves _request_once, the invariant survives: the
\* connection is back and the loop raises, or schedules a retry it may make.
LEMMA RaisesStep ==
    ASSUME IInv, NEW r \in Request,
           pc[r] \in {"connecting", "waiting", "handling"},
           NEW log, LogOK(r, log),
           NEW caught, Caught(r, caught),
           RequestOnceRaises(r, log, caught),
           UNCHANGED <<call, attempt, sent, resent>>
    PROVE  IInv'
  <1>1. TypeOK /\ RequestOK(r) /\ attempt[r] # 0 /\ attempt[r] \in 1..MaxAttempts
    BY PolicyAssumption DEF IInv, TypeOK, RequestOK
  <1>2. PICK e \in Exception \ {"CancelledError"} :
           /\ Unwrap(caught) = e
           /\ ~call[r].retry => caught.class = e
    BY DEF Caught, Unwrap, ExposeTransportError, Wrapper, Exception, TransportException
  <1>3. /\ log \in Seq(Event) /\ TellsRetries(log, attempt[r])
        /\ pc[r] \in Suspended
    BY DEF LogOK, Suspended
  <1>4. /\ conns' = conns \ {r}
        /\ response' = [response EXCEPT ![r] = NoStatus]
    BY DEF RequestOnceRaises
  <1>5. CASE ~call[r].retry /\ Escape(r, log, caught.class)
    BY <1>2, <1>3, <1>4, <1>5, EscapeStep
  <1>6. CASE call[r].retry /\ RetryExceptionDelay(r, log, caught)
    <2> DEFINE c == FailedContext(r, e)
    <2>2. /\ c \in RetryContext /\ c.attempt = attempt[r]
          /\ MatchesOutcome(c) <=> e \in Exceptions
          /\ MatchesOutcome(c) => (SuppressionReason(c) = NoReason <=> CanRetry(r))
      BY <1>1, <1>6, FailedContextFacts
    <2> HIDE DEF c
    <2>3. CASE ~MatchesOutcome(c) /\ Escape(r, log, e)
      BY <1>3, <1>4, <2>2, <2>3, EscapeStep
    <2>4. CASE SuppressionReason(c) # NoReason /\ Escape(r, Append(log, Terminal(c)), e)
      <3>1. MatchesOutcome(c) /\ ~CanRetry(r)
        BY <2>2, <2>4 DEF SuppressionReason
      <3>2. /\ LogOK(r, Append(log, Terminal(c)))
            /\ ToldIn(Append(log, Terminal(c)))
        BY <1>1, <1>6, <2>2, <2>4, <3>1, AppendTerminal
      <3>3. QED
        BY <1>3, <1>4, <2>4, <3>2, EscapeStep DEF LogOK
    <2>5. CASE /\ MatchesOutcome(c) /\ SuppressionReason(c) = NoReason
               /\ ScheduleRetry(r, log, c, "exception", NoHeader)
      <3>1. CanRetry(r) /\ ~ToldIn(log)
        BY <2>2, <2>5 DEF LogOK
      <3>2. NoHeader \in RetryAfter
        BY DEF RetryAfter
      <3>3. QED
        BY <1>4, <2>2, <2>5, <3>1, <3>2, ScheduleStep
    <2>6. QED
      BY <1>2, <1>6, <2>3, <2>4, <2>5 DEF RetryExceptionDelay, c
  <1>7. QED
    BY <1>5, <1>6 DEF RequestOnceRaises
-----------------------------------------------------------------------------
(* One lemma per action *)

\* The first attempt of a request keeps the invariant.
LEMMA MakeReqStep ==
    ASSUME IInv, NEW r \in Request, MakeReq(r) PROVE IInv'
  <1>1. TypeOK /\ ConnectionsOnlyInExchange /\ RequestOK(r)
    BY DEF IInv
  <1>2. TypeOK' /\ ConnectionsOnlyInExchange'
    BY <1>1, PolicyAssumption
    DEF TypeOK, ConnectionsOnlyInExchange, MakeReq, Suspended
  <1>3. RequestOK(r)'
    <2>1. /\ pc'[r] = "connecting" /\ attempt'[r] = 1 /\ sent'[r] = 0
          /\ events'[r] = <<>> /\ outcome'[r] = outcome[r] /\ call'[r] = call[r]
      BY <1>1 DEF TypeOK, RequestOK, MakeReq
    <2>2. QED
      BY <1>1, <2>1
      DEF RequestOK, Sendings, LogOK, TellsRetries, Told, ToldIn, MakeReq, Pending, Wrapper, NoException
  <1>4. ASSUME NEW q \in Request \ {r} PROVE RequestOK(q)'
    BY <1>1, Frame DEF OthersUnchanged, TypeOK, MakeReq
  <1>5. QED
    BY <1>2, <1>3, <1>4 DEF IInv

\* Taking a connection sends the current attempt once: the invariant holds.
LEMMA ConnectStep ==
    ASSUME IInv, NEW r \in Request, Connect(r) PROVE IInv'
  <1>1. TypeOK /\ ConnectionsOnlyInExchange /\ RequestOK(r)
    BY DEF IInv
  <1>2. TypeOK' /\ ConnectionsOnlyInExchange'
    BY <1>1, PolicyAssumption
    DEF TypeOK, ConnectionsOnlyInExchange, Connect, Suspended, RequestOK, Sendings
  <1>3. RequestOK(r)'
    <2>1. /\ pc'[r] = "waiting" /\ attempt'[r] = attempt[r]
          /\ sent'[r] = sent[r] + 1 /\ sent[r] \in Nat /\ attempt[r] \in Nat
          /\ events'[r] = events[r] /\ outcome'[r] = outcome[r] /\ call'[r] = call[r]
      BY <1>1, PolicyAssumption DEF TypeOK, Connect
    <2>2. QED
      BY <1>1, <2>1 DEF RequestOK, Sendings, LogOK, Told, CanRetry, MayRepeat, Connect, Pending
  <1>4. ASSUME NEW q \in Request \ {r} PROVE RequestOK(q)'
    BY <1>1, Frame DEF OthersUnchanged, TypeOK, Connect
  <1>5. QED
    BY <1>2, <1>3, <1>4 DEF IInv

\* aiohttp repeats only requests without a policy: the middleware hides the
\* others' exceptions from it.
LEMMA AiohttpRepeatsStep ==
    ASSUME IInv, NEW r \in Request, AiohttpRepeats(r) PROVE IInv'
  <1>1. TypeOK /\ ConnectionsOnlyInExchange /\ RequestOK(r) /\ pc[r] = "waiting"
    BY DEF IInv, AiohttpRepeats
  <1>2. r \notin resent /\ ~call[r].retry
    BY DEF AiohttpRepeats, RepeatedByAiohttp, ExposeTransportError, Wrapper,
       TransportException
  <1>3. TypeOK' /\ ConnectionsOnlyInExchange'
    BY <1>1 DEF TypeOK, ConnectionsOnlyInExchange, AiohttpRepeats, Suspended
  <1>4. RequestOK(r)'
    <2>1. /\ pc'[r] = "connecting" /\ r \in resent'
          /\ attempt'[r] = attempt[r] /\ sent'[r] = sent[r] /\ call'[r] = call[r]
          /\ events'[r] = events[r] /\ outcome'[r] = outcome[r]
          /\ sent[r] \in Nat /\ attempt[r] \in Nat
      BY <1>1, PolicyAssumption DEF TypeOK, AiohttpRepeats
    <2>2. QED
      BY <1>1, <1>2, <2>1
      DEF RequestOK, Sendings, LogOK, Told, CanRetry, MayRepeat, Pending
  <1>5. ASSUME NEW q \in Request \ {r} PROVE RequestOK(q)'
    BY <1>1, Frame DEF OthersUnchanged, TypeOK, AiohttpRepeats
  <1>6. QED
    BY <1>3, <1>4, <1>5 DEF IInv

\* The actions in which an exchange or a handler raises are cases of
\* RaisesStep.
LEMMA FailureSteps ==
    ASSUME IInv, NEW r \in Request,
           ConnectFails(r) \/ ExchangeFails(r) \/ HandlerRaises(r)
    PROVE  IInv'
  <1>1. LogOK(r, events[r]) /\ pc[r] \in {"connecting", "waiting", "handling"}
    BY DEF IInv, RequestOK, ConnectFails, ExchangeFails, HandlerRaises
  <1>2. UNCHANGED <<call, attempt, sent, resent>>
    BY DEF ConnectFails, ExchangeFails, HandlerRaises
  <1>3. PICK caught : Caught(r, caught) /\ RequestOnceRaises(r, events[r], caught)
    BY DEF ConnectFails, ExchangeFails, HandlerRaises, Caught, Exception, TransportException
  <1>4. QED
    BY <1>1, <1>2, <1>3, RaisesStep

\* A retryable response gives its connection back before the loop sleeps.
LEMMA RetryableResponseStep ==
    ASSUME IInv, NEW r \in Request, RetryableResponse(r) PROVE IInv'
  <1>1. TypeOK /\ RequestOK(r) /\ pc[r] = "waiting" /\ attempt[r] # 0
    BY DEF IInv, RequestOK, RetryableResponse
  <1>2. PICK s \in Status, header \in RetryAfter :
           /\ MatchesOutcome(ResponseContext(r, s))
           /\ SuppressionReason(ResponseContext(r, s)) = NoReason
           /\ ScheduleRetry(r, events[r], ResponseContext(r, s), "status", header)
    BY DEF RetryableResponse
  <1>3. /\ ResponseContext(r, s) \in RetryContext
        /\ ResponseContext(r, s).attempt = attempt[r]
        /\ CanRetry(r)
    BY <1>1, <1>2, ResponseContextFacts DEF RetryableResponse
  <1>4. /\ LogOK(r, events[r]) /\ ~ToldIn(events[r])
        /\ response' = [response EXCEPT ![r] = NoStatus]
    BY <1>1 DEF RequestOK, Told, RetryableResponse
  <1>5. QED
    BY <1>1, <1>2, <1>3, <1>4, ScheduleStep DEF RetryableResponse

\* A response that is not retried runs its handler after the observer heard
\* why, or raises because no handler takes its status.
LEMMA FinalResponseStep ==
    ASSUME IInv, NEW r \in Request, FinalResponse(r) PROVE IInv'
  <1>1. TypeOK /\ ConnectionsOnlyInExchange /\ RequestOK(r)
        /\ pc[r] = "waiting" /\ attempt[r] # 0
    BY DEF IInv, RequestOK, FinalResponse
  <1>2. attempt[r] \in 1..MaxAttempts /\ LogOK(r, events[r])
    BY <1>1, PolicyAssumption DEF TypeOK, RequestOK
  <1> DEFINE c(s) == ResponseContext(r, s)
             told(s) == call[r].retry /\ MatchesOutcome(c(s))
             log(s) == IF told(s) THEN Append(events[r], Terminal(c(s))) ELSE events[r]
  <1>3. PICK s \in Status :
           /\ told(s) => SuppressionReason(c(s)) # NoReason
           /\ \/ /\ FindHandler(s) # "None"
                 /\ response' = [response EXCEPT ![r] = s]
                 /\ pc' = [pc EXCEPT ![r] = "handling"]
                 /\ events' = [events EXCEPT ![r] = log(s)]
                 /\ UNCHANGED <<conns, outcome>>
              \/ /\ FindHandler(s) = "None"
                 /\ RequestOnceRaises(r, log(s),
                        ExposeTransportError(r, "UnhandledStatusException"))
    BY DEF FinalResponse
  <1>4. /\ LogOK(r, log(s))
        /\ call[r].retry /\ s \in Statuses => ToldIn(log(s))
    <2>1. /\ c(s) \in RetryContext /\ c(s).attempt = attempt[r]
          /\ MatchesOutcome(c(s)) <=> s \in Statuses
          /\ told(s) => ~CanRetry(r)
      BY <1>1, <1>3, ResponseContextFacts
    <2>2. CASE told(s)
      BY <1>2, <1>3, <2>1, <2>2, AppendTerminal
    <2>3. CASE ~told(s)
      BY <1>2, <2>1, <2>3
    <2>4. QED
      BY <2>2, <2>3
  <1> DEFINE newlog == log(s)
  <1>5. /\ LogOK(r, newlog)
        /\ call[r].retry /\ s \in Statuses => ToldIn(newlog)
        /\ UNCHANGED <<call, attempt, sent, resent>>
    BY <1>4 DEF FinalResponse
  <1>6. CASE /\ response' = [response EXCEPT ![r] = s]
             /\ pc' = [pc EXCEPT ![r] = "handling"]
             /\ events' = [events EXCEPT ![r] = newlog]
             /\ UNCHANGED <<conns, outcome>>
    <2> HIDE DEF newlog
    <2>1. TypeOK' /\ ConnectionsOnlyInExchange'
      BY <1>1, <1>5, <1>6 DEF TypeOK, ConnectionsOnlyInExchange, Suspended, LogOK
    <2>2. RequestOK(r)'
      <3>1. /\ pc'[r] = "handling" /\ events'[r] = newlog /\ response'[r] = s
            /\ outcome'[r] = outcome[r] /\ attempt'[r] = attempt[r]
            /\ sent'[r] = sent[r] /\ call'[r] = call[r]
        BY <1>1, <1>5, <1>6 DEF TypeOK
      <3>2. QED
        BY <1>1, <1>5, <3>1 DEF RequestOK, Sendings, LogOK, Told, CanRetry, MayRepeat, Pending
    <2>3. ASSUME NEW q \in Request \ {r} PROVE RequestOK(q)'
      BY <1>1, <1>5, <1>6, Frame DEF OthersUnchanged, TypeOK
    <2>4. QED
      BY <2>1, <2>2, <2>3 DEF IInv
  <1>7. CASE RequestOnceRaises(r, newlog,
                 ExposeTransportError(r, "UnhandledStatusException"))
    <2>1. Caught(r, ExposeTransportError(r, "UnhandledStatusException"))
      BY DEF Caught, Exception
    <2>2. QED
      BY <1>1, <1>5, <1>7, <2>1, RaisesStep
  <1>8. QED
    BY <1>3, <1>6, <1>7

\* A handler that returns ends its request; a retryable status was announced
\* when its response arrived.
LEMMA HandlerReturnsStep ==
    ASSUME IInv, NEW r \in Request, HandlerReturns(r) PROVE IInv'
  <1>1. TypeOK /\ ConnectionsOnlyInExchange /\ RequestOK(r)
    BY DEF IInv
  <1>2. TypeOK' /\ ConnectionsOnlyInExchange'
    BY <1>1 DEF TypeOK, ConnectionsOnlyInExchange, HandlerReturns
  <1>3. RequestOK(r)'
    <2>1. /\ pc'[r] = "done" /\ events'[r] = events[r]
          /\ outcome'[r].returned = response[r] /\ outcome'[r].raised = NoException
          /\ attempt'[r] = attempt[r] /\ sent'[r] = sent[r] /\ call'[r] = call[r]
      BY <1>1 DEF TypeOK, RequestOK, HandlerReturns, Pending
    <2>2. NoException \notin Exceptions
      BY PolicyAssumption DEF NoException, Exception, TransportException
    <2>3. QED
      BY <1>1, <2>1, <2>2
      DEF RequestOK, Sendings, Told, CanRetry, MayRepeat, HandlerReturns, Wrapper, NoException
  <1>4. ASSUME NEW q \in Request \ {r} PROVE RequestOK(q)'
    BY <1>1, Frame DEF OthersUnchanged, TypeOK, HandlerReturns
  <1>5. QED
    BY <1>2, <1>3, <1>4 DEF IInv

\* The loop has an attempt left whenever it wakes.
LEMMA WakeStep ==
    ASSUME IInv, NEW r \in Request, Wake(r) PROVE IInv'
  <1>1. TypeOK /\ ConnectionsOnlyInExchange /\ RequestOK(r)
    BY DEF IInv
  <1>2. /\ pc[r] = "sleeping" /\ CanRetry(r) /\ attempt[r] \in 0..MaxAttempts
        /\ attempt[r] # 0 /\ ~Told(r) /\ Len(events[r]) = attempt[r]
        /\ events[r] \in Seq(Event)
    BY <1>1 DEF RequestOK, Wake, TypeOK
  <1>3. /\ pc' = [pc EXCEPT ![r] = "connecting"]
        /\ attempt' = [attempt EXCEPT ![r] = @ + 1]
        /\ resent' = resent \ {r} /\ r \notin resent
        /\ UNCHANGED <<call, conns, sent, response, events, outcome>>
    BY <1>1, <1>2, PolicyAssumption DEF Wake, CanRetry, MayRepeat, RequestOK
  <1>4. TypeOK' /\ ConnectionsOnlyInExchange'
    BY <1>1, <1>2, <1>3, PolicyAssumption
    DEF TypeOK, ConnectionsOnlyInExchange, CanRetry, Suspended
  <1>5. RequestOK(r)'
    <2>1. /\ pc'[r] = "connecting" /\ attempt'[r] = attempt[r] + 1
          /\ events'[r] = events[r] /\ outcome'[r] = outcome[r]
          /\ sent'[r] = sent[r] /\ call'[r] = call[r] /\ sent[r] \in Nat
          /\ r \notin resent /\ r \notin resent'
      BY <1>1, <1>2, <1>3, PolicyAssumption DEF TypeOK
    <2>2. TellsRetries(events[r], attempt[r] + 1)
      <3> DEFINE log == events[r]
                 n == attempt[r]
      <3>1. /\ n \in Nat /\ Len(log) = n
            /\ \A i \in 1..Len(log) : log[i].kind = "scheduled"
        BY <1>2, PolicyAssumption DEF Told, ToldIn
      <3>2. \A i \in 1..Len(log) : log[i].attempt = IF i < n THEN i ELSE n
        BY <1>1 DEF RequestOK, TellsRetries
      <3> HIDE DEF log, n
      <3>3. \A i \in 1..Len(log) : i < n + 1 /\ log[i].attempt = i
        BY <3>1, <3>2
      <3>4. TellsRetries(log, n + 1)
        BY <3>1, <3>3 DEF TellsRetries
      <3>5. QED
        BY <3>4 DEF log, n
    <2>3. QED
      BY <1>1, <1>2, <2>1, <2>2, PolicyAssumption
      DEF RequestOK, Sendings, LogOK, Told, CanRetry, MayRepeat, Pending
  <1>6. ASSUME NEW q \in Request \ {r} PROVE RequestOK(q)'
    BY <1>1, <1>3, Frame DEF OthersUnchanged, TypeOK
  <1>7. QED
    BY <1>4, <1>5, <1>6 DEF IInv

\* A cancellation, at whichever await, gives back the connection and raises
\* CancelledError only.
LEMMA CancelStep ==
    ASSUME IInv, NEW r \in Request, Cancel(r) PROVE IInv'
  <1>1. TypeOK /\ RequestOK(r)
    BY DEF IInv
  <1>2. events[r] \in Seq(Event) /\ TellsRetries(events[r], attempt[r])
    BY <1>1 DEF TypeOK, RequestOK
  <1>3. "CancelledError" \in Exception
    BY DEF Exception
  <1>4. QED
    BY <1>2, <1>3, EscapeStep DEF Cancel

\* Every step of the client keeps the inductive invariant IInv: requests of
\* other tasks are framed, the moving one is handled action by action.
THEOREM NextIInv == IInv /\ [Next]_vars => IInv'
  <1> SUFFICES ASSUME IInv, [Next]_vars PROVE IInv'
    OBVIOUS
  <1>1. ASSUME NEW r \in Request, MakeReq(r) PROVE IInv'
    BY <1>1, MakeReqStep
  <1>2. ASSUME NEW r \in Request, Connect(r) PROVE IInv'
    BY <1>2, ConnectStep
  <1>3. ASSUME NEW r \in Request,
               ConnectFails(r) \/ ExchangeFails(r) \/ HandlerRaises(r)
        PROVE  IInv'
    BY <1>3, FailureSteps
  <1>4. ASSUME NEW r \in Request, RetryableResponse(r) PROVE IInv'
    BY <1>4, RetryableResponseStep
  <1>5. ASSUME NEW r \in Request, FinalResponse(r) PROVE IInv'
    BY <1>5, FinalResponseStep
  <1>6. ASSUME NEW r \in Request, HandlerReturns(r) PROVE IInv'
    BY <1>6, HandlerReturnsStep
  <1>7. ASSUME NEW r \in Request, Wake(r) PROVE IInv'
    BY <1>7, WakeStep
  <1>8. ASSUME NEW r \in Request, Cancel(r) PROVE IInv'
    BY <1>8, CancelStep
  <1>9. ASSUME NEW r \in Request, AiohttpRepeats(r) PROVE IInv'
    BY <1>9, AiohttpRepeatsStep
  <1>10. CASE UNCHANGED vars
    BY <1>10 DEF vars, IInv, TypeOK, ConnectionsOnlyInExchange, RequestOK, Sendings, LogOK,
       CanRetry, MayRepeat, Told
  <1>11. QED
    BY <1>1, <1>2, <1>3, <1>4, <1>5, <1>6, <1>7, <1>8, <1>9, <1>10
    DEF Next, Progress
-----------------------------------------------------------------------------
(* The invariants TLC checks, for every value of the constants *)

\* IInv holds in every reachable state, for any number of requests, pool
\* size, policy, handlers and backoff answers.
THEOREM Invariance == Spec => []IInv
  <1>1. QED
    BY InitIInv, NextIInv, PTL DEF Spec

\* Every variable keeps its type: no request counts an attempt the policy
\* does not have.
THEOREM TypeCorrect == Spec => []TypeOK
  <1>1. IInv => TypeOK
    BY DEF IInv
  <1>2. QED
    BY <1>1, Invariance, PTL

\* Connections are held exactly by the attempts on the wire and the running
\* handlers: none leaks, none is kept while a request sleeps.
THEOREM NoConnectionLeak == Spec => []ConnectionsOnlyInExchange
  <1>1. IInv => ConnectionsOnlyInExchange
    BY DEF IInv
  <1>2. QED
    BY <1>1, Invariance, PTL

\* More than one attempt is made only for a request that may be repeated.
THEOREM RepeatsAreSafe == Spec => []RepeatOnlyWhenSafe
  <1>1. IInv => RepeatOnlyWhenSafe
    BY DEF IInv, RequestOK, RepeatOnlyWhenSafe
  <1>2. QED
    BY <1>1, Invariance, PTL

\* A request with a policy is sent at most once in each attempt.
THEOREM NoHiddenRepeats == Spec => []EveryResendIsAnAttempt
  <1>1. IInv => EveryResendIsAnAttempt
    BY PolicyAssumption
    DEF IInv, TypeOK, RequestOK, Sendings, EveryResendIsAnAttempt
  <1>2. QED
    BY <1>1, Invariance, PTL

\* The observer's log names every retry, in order.
THEOREM RetriesAreObserved == Spec => []ObserverHearsEveryRetry
  <1>1. IInv => ObserverHearsEveryRetry
    BY DEF IInv, RequestOK, ObserverHearsEveryRetry
  <1>2. QED
    BY <1>1, Invariance, PTL

\* A retryable outcome reaches the caller only after the observer was told.
THEOREM GivingUpIsObserved == Spec => []NoSilentGiveUp
  <1>1. IInv => NoSilentGiveUp
    BY DEF IInv, RequestOK, NoSilentGiveUp
  <1>2. QED
    BY <1>1, Invariance, PTL

\* Neither the wrapper class nor the loop's RuntimeError reaches a caller.
THEOREM CallersSeeOriginals == Spec => []OnlyOriginalExceptions
  <1>1. IInv => OnlyOriginalExceptions
    BY DEF IInv, RequestOK, OnlyOriginalExceptions
  <1>2. QED
    BY <1>1, Invariance, PTL

-----------------------------------------------------------------------------
(* Steps, seen through the phase of the request that takes them *)

Trying == {"connecting", "waiting", "handling"}

Goes(r, to) == pc' = [pc EXCEPT ![r] = to]

Moves(r) ==
    /\ call' = call
    /\ \/ /\ pc[r] = "idle" /\ Goes(r, "connecting")
          /\ attempt' = [attempt EXCEPT ![r] = 1] /\ sent' = sent
       \/ /\ pc[r] = "connecting" /\ Goes(r, "waiting")
          /\ attempt' = attempt /\ sent' = [sent EXCEPT ![r] = @ + 1]
       \/ /\ pc[r] = "waiting" /\ (Goes(r, "handling") \/ Goes(r, "connecting"))
          /\ attempt' = attempt /\ sent' = sent
       \/ /\ pc[r] \in Trying /\ Goes(r, "sleeping") /\ CanRetry(r)
          /\ attempt' = attempt /\ sent' = sent
       \/ /\ pc[r] = "sleeping" /\ Goes(r, "connecting")
          /\ attempt' = [attempt EXCEPT ![r] = @ + 1] /\ sent' = sent
       \/ /\ pc[r] \in Suspended /\ Goes(r, "done")
          /\ attempt' = attempt /\ sent' = sent

\* The way out of an attempt by an exception, as far as pc is concerned.
LEMMA RaisesMoves ==
    ASSUME NEW r, NEW log, NEW caught, RequestOnceRaises(r, log, caught)
    PROVE  Goes(r, "sleeping") \/ Goes(r, "done")
  BY DEF RequestOnceRaises, RetryExceptionDelay, ScheduleRetry, Escape, Goes

\* Every step moves one request along an edge of the control flow of
\* _make_req, or stutters.
LEMMA StepMoves ==
    ASSUME IInv, IInv', NEW r \in Request,
           MakeReq(r) \/ Connect(r) \/ Progress(r) \/ Cancel(r)
    PROVE  Moves(r)
  <1>1. TypeOK /\ RequestOK(r) /\ RequestOK(r)'
    BY DEF IInv
  <1>2. ASSUME Goes(r, "sleeping"), UNCHANGED <<call, attempt>> PROVE CanRetry(r)
    <2>1. pc'[r] = "sleeping"
      BY <1>1, <1>2 DEF Goes, TypeOK
    <2>2. QED
      BY <1>1, <1>2, <2>1 DEF RequestOK, CanRetry, MayRepeat
  <1>3. CASE MakeReq(r)
    BY <1>3 DEF MakeReq, Moves, Goes
  <1>4. CASE Connect(r)
    BY <1>4 DEF Connect, Moves, Goes
  <1>5. CASE ConnectFails(r) \/ ExchangeFails(r) \/ HandlerRaises(r)
    <2>1. Goes(r, "sleeping") \/ Goes(r, "done")
      BY <1>5, RaisesMoves DEF ConnectFails, ExchangeFails, HandlerRaises
    <2>2. pc[r] \in Trying /\ UNCHANGED <<call, attempt, sent, resent>>
      BY <1>5 DEF ConnectFails, ExchangeFails, HandlerRaises, Trying
    <2>3. QED
      BY <1>2, <2>1, <2>2 DEF Moves, Trying, Suspended
  <1>6. CASE RetryableResponse(r)
    <2>1. Goes(r, "sleeping") \/ Goes(r, "done")
      BY <1>6 DEF RetryableResponse, ScheduleRetry, Escape, Goes
    <2>2. pc[r] \in Trying /\ UNCHANGED <<call, attempt, sent, resent>>
      BY <1>6 DEF RetryableResponse, Trying
    <2>3. QED
      BY <1>2, <2>1, <2>2 DEF Moves, Trying, Suspended
  <1>7. CASE FinalResponse(r)
    <2>1. Goes(r, "handling") \/ Goes(r, "sleeping") \/ Goes(r, "done")
      BY <1>7, RaisesMoves DEF FinalResponse, Goes
    <2>2. pc[r] = "waiting" /\ UNCHANGED <<call, attempt, sent, resent>>
      BY <1>7 DEF FinalResponse
    <2>3. QED
      BY <1>2, <2>1, <2>2 DEF Moves, Trying, Suspended
  <1>8. CASE HandlerReturns(r)
    BY <1>8 DEF HandlerReturns, Moves, Goes, Suspended
  <1>9. CASE Wake(r)
    BY <1>1, <1>9, PolicyAssumption
    DEF Wake, Moves, Goes, RequestOK, CanRetry, TypeOK
  <1>10. CASE Cancel(r)
    BY <1>10 DEF Cancel, Escape, Moves, Goes
  <1>11. CASE AiohttpRepeats(r)
    BY <1>11 DEF AiohttpRepeats, Moves, Goes
  <1>12. QED
    BY <1>3, <1>4, <1>5, <1>6, <1>7, <1>8, <1>9, <1>10, <1>11 DEF Progress

\* After "suppressed" or "exhausted" a request neither sends nor schedules.
THEOREM TerminalIsFinal == Spec => TerminalEventIsFinal
  <1>1. IInv /\ IInv' /\ [Next]_vars => [NothingAfterTerminal]_vars
    <2> SUFFICES ASSUME IInv, IInv', Next PROVE NothingAfterTerminal
      OBVIOUS
    <2> SUFFICES ASSUME NEW q \in Request, Told(q)
                 PROVE  /\ attempt'[q] = attempt[q]
                        /\ sent'[q] = sent[q]
                        /\ pc'[q] # "sleeping"
      BY DEF NothingAfterTerminal
    <2>1. TypeOK /\ RequestOK(q)
      BY DEF IInv
    <2>2. pc[q] = "done" \/ (pc[q] = "handling" /\ ~CanRetry(q))
      BY <2>1 DEF RequestOK, LogOK, Told
    <2>3. CASE \E r \in Request : Moves(r)
      BY <2>1, <2>2, <2>3 DEF Moves, Goes, TypeOK, Trying, Suspended
    <2>4. CASE UNCHANGED vars
      BY <2>2, <2>4 DEF vars
    <2>5. QED
      BY <2>3, <2>4, StepMoves DEF Next
  <1>2. QED
    BY <1>1, Invariance, PTL DEF Spec, TerminalEventIsFinal
-----------------------------------------------------------------------------
(* The client implements the abstract logical request *)

Phases == [q \in Request |-> Phase(q)]

\* A move of one task changes the phase of its own request only.
LEMMA PhasesMove ==
    ASSUME TypeOK, NEW r \in Request, NEW to \in {"idle", "done"} \cup Suspended,
           Goes(r, to)
    PROVE  /\ to \in Trying => Phases' = [Phases EXCEPT ![r] = "trying"]
           /\ to = "sleeping" => Phases' = [Phases EXCEPT ![r] = "pausing"]
           /\ to = "done" => Phases' = [Phases EXCEPT ![r] = "finished"]
  <1>1. \A q \in Request : pc'[q] = IF q = r THEN to ELSE pc[q]
    BY DEF Goes, TypeOK
  <1>2. \A q \in Request : q # r => Phase(q)' = Phase(q)
    BY <1>1 DEF Phase
  <1>3. /\ to \in Trying => Phase(r)' = "trying"
        /\ to = "sleeping" => Phase(r)' = "pausing"
        /\ to = "done" => Phase(r)' = "finished"
    BY <1>1 DEF Phase, Trying
  <1>4. QED
    BY <1>2, <1>3 DEF Phases

\* The initial states of the client are initial states of LogicalRequest.
LEMMA InitImplements == Init => Promise!Init
  BY DEF Init, Promise!Init, Phase

\* A move of one request is a step of LogicalRequest or leaves its variables
\* alone.
LEMMA MoveImplements ==
    ASSUME TypeOK, NEW r \in Request, Moves(r)
    PROVE  [Promise!Next]_(Promise!vars)
  <1> DEFINE Repeatable == {q \in Request : MayRepeat(q)}
  <1>1. Repeatable' = Repeatable
    BY DEF Moves, MayRepeat
  <1>2. Phases[r] = Phase(r)
    BY DEF Phases
  <1>3. CASE pc[r] = "idle" /\ Goes(r, "connecting")
             /\ attempt' = [attempt EXCEPT ![r] = 1]
    <2>1. Phases[r] = "idle" /\ Phases' = [Phases EXCEPT ![r] = "trying"]
      BY <1>2, <1>3, PhasesMove DEF Phase, Trying, Suspended
    <2>2. Promise!Begin(r)
      BY <1>1, <1>3, <2>1 DEF Promise!Begin, Phases
    <2>3. QED
      BY <2>2 DEF Promise!Next
  <1>4. CASE /\ \/ pc[r] = "connecting" /\ Goes(r, "waiting")
                \/ pc[r] = "waiting" /\ (Goes(r, "handling") \/ Goes(r, "connecting"))
             /\ attempt' = attempt
    <2>1. Phases[r] = "trying" /\ Phases' = [Phases EXCEPT ![r] = "trying"]
      BY <1>2, <1>4, PhasesMove DEF Phase, Trying, Suspended
    <2>2. Phases' = Phases
      BY <2>1 DEF Phases
    <2>3. QED
      BY <1>1, <1>4, <2>2 DEF Promise!vars, Phases
  <1>5. CASE pc[r] \in Trying /\ Goes(r, "sleeping") /\ CanRetry(r)
             /\ attempt' = attempt
    <2>1. Phases[r] = "trying" /\ Phases' = [Phases EXCEPT ![r] = "pausing"]
      BY <1>2, <1>5, PhasesMove DEF Phase, Trying, Suspended
    <2>2. Promise!Pause(r)
      BY <1>1, <1>5, <2>1 DEF Promise!Pause, Phases, CanRetry
    <2>3. QED
      BY <2>2 DEF Promise!Next
  <1>6. CASE pc[r] = "sleeping" /\ Goes(r, "connecting")
             /\ attempt' = [attempt EXCEPT ![r] = @ + 1]
    <2>1. Phases[r] = "pausing" /\ Phases' = [Phases EXCEPT ![r] = "trying"]
      BY <1>2, <1>6, PhasesMove DEF Phase, Trying, Suspended
    <2>2. Promise!TryAgain(r)
      BY <1>1, <1>6, <2>1 DEF Promise!TryAgain, Phases
    <2>3. QED
      BY <2>2 DEF Promise!Next
  <1>7. CASE pc[r] \in Suspended /\ Goes(r, "done") /\ attempt' = attempt
    <2>1. /\ Phases[r] \in {"trying", "pausing"}
          /\ Phases' = [Phases EXCEPT ![r] = "finished"]
      BY <1>2, <1>7, PhasesMove DEF Phase, Suspended
    <2>2. Promise!Finish(r)
      BY <1>1, <1>7, <2>1 DEF Promise!Finish, Phases
    <2>3. QED
      BY <2>2 DEF Promise!Next
  <1>8. QED
    BY <1>3, <1>4, <1>5, <1>6, <1>7 DEF Moves

\* Every behaviour of the client is one of the abstract logical requests:
\* bounded attempts, repeated only where repeating is allowed.  (That it ends
\* is the fairness part of ImplementsLogicalRequest, left to TLC.)
THEOREM ClientImplementsLogicalRequest == Spec => Promise!SafeSpec
  <1>1. IInv /\ IInv' /\ [Next]_vars => [Promise!Next]_(Promise!vars)
    <2> SUFFICES ASSUME IInv, IInv', [Next]_vars
                 PROVE  [Promise!Next]_(Promise!vars)
      OBVIOUS
    <2>1. TypeOK
      BY DEF IInv
    <2>2. CASE \E r \in Request : Moves(r)
      BY <2>1, <2>2, MoveImplements
    <2>3. CASE UNCHANGED vars
      BY <2>3 DEF vars, Promise!vars, Phase, MayRepeat
    <2>4. QED
      BY <2>2, <2>3, StepMoves DEF Next
  <1>2. QED
    BY <1>1, InitImplements, Invariance, PTL DEF Spec, Promise!SafeSpec
=============================================================================
