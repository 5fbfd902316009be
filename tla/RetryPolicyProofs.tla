-------------------------- MODULE RetryPolicyProofs --------------------------
(***************************************************************************)
(* Proofs about the retry policy asked about the attempts of a request:    *)
(* for any policy, any statuses and methods, and any number of attempts.   *)
(***************************************************************************)
EXTENDS MCRetryPolicy, TLAPS

(* the inductive invariant *)

\* What the policy is asked about is a context that RetryContext admits.
TypeInv ==
    /\ context \in RetryContext
    /\ Outcome(context)
    /\ header \in RetryAfter
    /\ backoff \in BackoffResult

LEMMA TypeInvariance == Spec => []TypeInv
  <1>1. Init => TypeInv
    BY DEF Init, TypeInv
  <1>2. TypeInv /\ [NextAttempt]_vars => TypeInv'
    <2> SUFFICES ASSUME TypeInv, [NextAttempt]_vars PROVE TypeInv'
      OBVIOUS
    <2>1. CASE NextAttempt
      <3>1. PICK s \in Status \cup {NoStatus}, e \in Exception \cup {NoException} :
                /\ context' = [context EXCEPT !.attempt = @ + 1, !.response_status = s,
                                              !.exception = e]
                /\ Outcome(context')
        BY <2>1 DEF NextAttempt
      <3>2. context.attempt + 1 \in 1..MaxAttempts
        <4>1. context.attempt < MaxAttempts
          BY <2>1 DEF NextAttempt
        <4>2. context.attempt \in 1..MaxAttempts
          BY DEF TypeInv, RetryContext
        <4>3. QED
          BY <4>1, <4>2, PolicyAssumption
      <3>3. context' \in RetryContext
        <4>1. context' = [method |-> context.method, attempt |-> context.attempt + 1,
                          replayable |-> context.replayable, response_status |-> s,
                          exception |-> e]
          BY <3>1 DEF TypeInv, RetryContext
        <4>2. context.method \in Method /\ context.replayable \in BOOLEAN
          BY DEF TypeInv, RetryContext
        <4>3. QED
          BY <3>2, <4>1, <4>2 DEF RetryContext
      <3>4. QED
        BY <2>1, <3>1, <3>3 DEF NextAttempt, TypeInv
    <2>2. CASE UNCHANGED vars
      BY <2>2 DEF vars, TypeInv, Outcome
    <2>3. QED
      BY <2>1, <2>2
  <1>3. QED
    BY <1>1, <1>2, PTL DEF Spec

-----------------------------------------------------------------------------
(* the decision *)

\* The two ways of asking agree about every context, whatever the policy retries.
THEOREM AnswersAgree == Spec => []DecisionsAgree
  <1>1. TypeInv => DecisionsAgree
    <2> SUFFICES ASSUME TypeInv PROVE DecisionsAgree
      OBVIOUS
    <2>1. context.attempt \in Int /\ MaxAttempts \in Int
      BY PolicyAssumption DEF TypeInv, RetryContext
    <2>2. ShouldRetry(context) <=>
              MatchesOutcome(context) /\ SuppressionReason(context) = NoReason
      BY <2>1 DEF ShouldRetry, SuppressionReason, NoReason
    <2>3. ASSUME context.exception = "CancelledError"
          PROVE  ~ ShouldRetry(context) /\ SuppressionReason(context) = NoReason
      BY <2>3 DEF ShouldRetry, SuppressionReason, MatchesOutcome
    <2>4. QED
      BY <2>2, <2>3 DEF DecisionsAgree
  <1>2. QED
    BY <1>1, TypeInvariance, PTL

-----------------------------------------------------------------------------
(* the delay *)

\* The powers that are smaller than the cap.
LEMMA SmallCaps ==
    /\ FullJitterCap(1) = 1 /\ FullJitterCap(2) = 2 /\ FullJitterCap(3) = 4
    /\ FullJitterCap(4) = 8 /\ FullJitterCap(5) = 16 /\ FullJitterCap(6) = 32
  <1>1. 2^0 = 1 /\ 2^1 = 2 /\ 2^2 = 4 /\ 2^3 = 8 /\ 2^4 = 16 /\ 2^5 = 32
    OBVIOUS
  <1>2. QED
    BY <1>1 DEF FullJitterCap

\* Before it overflows, the cap doubles with each attempt, up to thirty seconds.
LEMMA CapDoubles ==
    ASSUME NEW attempt \in 2..1024
    PROVE  LET doubled == 2 * FullJitterCap(attempt - 1)
           IN  FullJitterCap(attempt) = IF doubled < MaxCap THEN doubled ELSE MaxCap
  <1>1. CASE attempt >= 8
    <2>1. FullJitterCap(attempt) = 60 /\ FullJitterCap(attempt - 1) = 60
      BY <1>1 DEF FullJitterCap, MaxCap
    <2>2. QED
      BY <2>1 DEF MaxCap
  <1>2. CASE attempt = 7
    <2>1. FullJitterCap(7) = 60
      BY DEF FullJitterCap, MaxCap
    <2>2. QED
      BY <1>2, <2>1, SmallCaps DEF MaxCap
  <1>3. CASE attempt \in 2..6
    <2>1. attempt = 2 \/ attempt = 3 \/ attempt = 4 \/ attempt = 5 \/ attempt = 6
      BY <1>3
    <2>2. QED
      BY <2>1, SmallCaps DEF MaxCap
  <1>4. QED
    BY <1>1, <1>2, <1>3

\* Whatever the header and the strategy, what get_delay answers is a delay that can be
\* slept or an exception, and that of the strategy only without a valid header.
THEOREM DelaysAreUsable == Spec => []DelayIsUsableOrRaised
  <1>1. TypeInv => DelayIsUsableOrRaised
    <2> SUFFICES ASSUME TypeInv PROVE DelayIsUsableOrRaised
      OBVIOUS
    <2>1. /\ GetDelay(header, backoff) \in Delay
          /\ GetDelay(header, backoff) = "backoff" <=>
                 backoff = "backoff" /\ (~RespectRetryAfter \/ header \in {NoHeader, "text"})
      BY DEF TypeInv, GetDelay, ParseRetryAfter, NoHeader, RetryAfter, BackoffResult, Delay,
             UsableDelay, UnusableNumber, RaisedByDelay
    <2>2. QED
      BY <2>1, SmallCaps, CapDoubles DEF DelayIsUsableOrRaised
  <1>2. QED
    BY <1>1, TypeInvariance, PTL
=============================================================================
