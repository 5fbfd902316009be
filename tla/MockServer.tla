----------------------------- MODULE MockServer -----------------------------
(***************************************************************************)
(* asyncly/srvmocker: the in-process mock server.  Each request is served  *)
(* by its own task (build_dispatcher's _dispatch), the tasks share the     *)
(* recorded history, the registered responses and the position of every   *)
(* SequenceResponse; the test registers responses while they run.          *)
(*                                                                         *)
(* A task yields where it awaits: reading the body, and sleeping in a      *)
(* LatencyResponse.  Everything between is one action.                     *)
(***************************************************************************)
EXTENDS Matching, SequencesExt

CONSTANTS
    Request,        \* requests whose (method, path) the server routes
    Content,        \* the body, headers and query of each
    Handler,        \* the declared handler names
    Routes,         \* the routes of that (method, path), in order
    Plain,          \* responses that answer at once
    Latency,        \* LatencyResponse objects
    Sequence,       \* SequenceResponse objects
    Wrapped,        \* what each LatencyResponse delays
    Items,          \* what each SequenceResponse plays
    OnExhausted,    \* "raise", "cycle" or "last", for each SequenceResponse
    Criteria,       \* predicates the test asserts with
    Times           \* counts it asserts, or Nothing

Response == Plain \cup Latency \cup Sequence

\* A sequence plays plain or delayed plain responses, a delay wraps a plain
\* response or a sequence of plain ones: compositions any deeper repeat these.
ASSUME ServerAssumption ==
    /\ \A i \in 1..Len(Routes) : Routes[i].handler \in Handler
    /\ Times \subseteq Nat \cup {Nothing}
    /\ \A criteria \in Criteria : criteria.json \notin {NotJson, NotText}
    /\ Nothing \notin Response /\ Nothing \notin Nat
    /\ Plain \cap Latency = {} /\ Plain \cap Sequence = {} /\ Latency \cap Sequence = {}
    /\ (Response \cup {Nothing}) \cap {"HTTPNotFound", "UnicodeDecodeError"} = {}
    /\ Wrapped \in [Latency -> Plain \cup Sequence]
    /\ Items \in [Sequence -> Seq(Plain \cup {l \in Latency : Wrapped[l] \in Plain})]
    /\ \A q \in Sequence : Len(Items[q]) > 0
    /\ OnExhausted \in [Sequence -> {"raise", "cycle", "last"}]

VARIABLES
    pc,             \* where the task of each request is
    handlers,       \* MockService.handlers
    history,        \* MockService.history
    history_map,    \* MockService.history_map
    index,          \* _index of each SequenceResponse
    serving,        \* the response a sleeping task will ask next
    answer,         \* what each request was answered
    picked          \* ghost: for each sequence, the requests that took an item

vars == <<pc, handlers, history, history_map, index, serving, answer, picked>>

Init ==
    /\ pc = [r \in Request |-> "idle"]
    /\ handlers = [h \in Handler |-> Nothing]
    /\ history = <<>>
    /\ history_map = [h \in Handler |-> <<>>]
    /\ index = [q \in Sequence |-> 0]
    /\ serving = [r \in Request |-> Nothing]
    /\ answer = [r \in Request |-> Nothing]
    /\ picked = [q \in Sequence |-> <<>>]

\* MockService.register, at any moment of the test.
Register(h) ==
    /\ \E x \in Response : handlers' = [handlers EXCEPT ![h] = x]
    /\ UNCHANGED <<pc, history, history_map, index, serving, answer, picked>>

Arrive(r) ==
    /\ pc[r] = "idle"
    /\ pc' = [pc EXCEPT ![r] = "reading"]
    /\ UNCHANGED <<handlers, history, history_map, index, serving, answer, picked>>

\* The client goes away before its body is read.
Abort(r) ==
    /\ pc[r] = "reading"
    /\ pc' = [pc EXCEPT ![r] = "aborted"]
    /\ UNCHANGED <<handlers, history, history_map, index, serving, answer, picked>>

-----------------------------------------------------------------------------
(* Responses *)

\* SequenceResponse._pick: the item after n picks; Nothing raises
\* SequenceExhausted.
Pick(q, n) ==
    LET len == Len(Items[q]) IN
    IF n < len THEN Items[q][n + 1]
    ELSE CASE OnExhausted[q] = "raise" -> Nothing
           [] OnExhausted[q] = "cycle" -> Items[q][(n % len) + 1]
           [] OTHER -> Items[q][len]

\* Mutation: the position stops at the last item instead of behind it.
AfterPickAtLast(q, n) == IF n + 1 < Len(Items[q]) THEN n + 1 ELSE n

\* The position after that pick: a repeated last item and a refusal do not
\* move it.
AfterPick(q, n) ==
    IF n < Len(Items[q]) \/ OnExhausted[q] = "cycle" THEN n + 1 ELSE n

Finish(r, a) ==
    /\ pc' = [pc EXCEPT ![r] = "done"]
    /\ answer' = [answer EXCEPT ![r] = a]
    /\ UNCHANGED serving

\* Mutation: after the delay the delaying response is asked again.
SleepForItself(r, x) ==
    /\ pc' = [pc EXCEPT ![r] = "sleeping"]
    /\ serving' = [serving EXCEPT ![r] = x]
    /\ UNCHANGED answer

Sleep(r, x) ==
    /\ pc' = [pc EXCEPT ![r] = "sleeping"]
    /\ serving' = [serving EXCEPT ![r] = Wrapped[x]]
    /\ UNCHANGED answer

\* A response other than a sequence: answer now, or sleep first.
ServeItem(r, x) ==
    \/ x \in Plain /\ Finish(r, x)
    \/ x \in Latency /\ Sleep(r, x)

\* Mutation: a sequence awaits something before it picks.
ServeAfterAwait(r, x) ==
    \/ /\ x \notin Sequence
       /\ ServeItem(r, x)
       /\ UNCHANGED <<index, picked>>
    \/ /\ x \in Sequence /\ pc[r] = "reading"
       /\ pc' = [pc EXCEPT ![r] = "sleeping"]
       /\ serving' = [serving EXCEPT ![r] = x]
       /\ UNCHANGED <<index, answer, picked>>
    \/ /\ x \in Sequence /\ pc[r] = "sleeping"
       /\ index' = [index EXCEPT ![x] = AfterPick(x, @)]
       /\ picked' = [picked EXCEPT ![x] = Append(@, r)]
       /\ LET item == Pick(x, index[x]) IN
          \/ item = Nothing /\ Finish(r, "SequenceExhausted")
          \/ item # Nothing /\ ServeItem(r, item)

\* x.response(request), up to its first await.
Serve(r, x) ==
    \/ /\ x \notin Sequence
       /\ ServeItem(r, x)
       /\ UNCHANGED <<index, picked>>
    \/ /\ x \in Sequence
       /\ index' = [index EXCEPT ![x] = AfterPick(x, @)]
       /\ picked' = [picked EXCEPT ![x] = Append(@, r)]
       /\ LET item == Pick(x, index[x]) IN
          \/ item = Nothing /\ Finish(r, "SequenceExhausted")
          \/ item # Nothing /\ ServeItem(r, item)

-----------------------------------------------------------------------------
(* The dispatcher *)

\* A route without a match matches every request.
RouteAnswer(i, r) ==
    IF Routes[i].match = Nothing THEN "yes" ELSE Answer(Routes[i].match, Content[r])

\* The first route whose match does not say no, 0 if all do.
Deciding == [r \in Request |->
    LET deciding == {i \in 1..Len(Routes) : RouteAnswer(i, r) # "no"}
    IN  IF deciding = {} THEN 0
        ELSE CHOOSE i \in deciding : \A j \in deciding : i <= j]
Matched(r) == Deciding[r] # 0 /\ RouteAnswer(Deciding[r], r) = "yes"
Chosen(r) == Routes[Deciding[r]].handler

\* No route matches: 404, and nothing is recorded.  Nor is it when a match
\* before the first that accepts cannot read the body as text: 500.
DispatchUnmatched(r) ==
    /\ pc[r] = "reading"
    /\ ~ Matched(r)
    /\ Finish(r, IF Deciding[r] = 0 THEN "HTTPNotFound" ELSE "UnicodeDecodeError")
    /\ UNCHANGED <<handlers, history, history_map, index, picked>>

\* Mutation: the per-handler history only knows calls that had a response.
DispatchMappingServed(r) ==
    /\ pc[r] = "reading"
    /\ Matched(r)
    /\ LET h == Chosen(r) IN
       /\ history' = Append(history, r)
       /\ \/ /\ handlers[h] = Nothing
             /\ Finish(r, "MissingResponseError")
             /\ UNCHANGED <<history_map, index, picked>>
          \/ /\ handlers[h] # Nothing
             /\ history_map' = [history_map EXCEPT ![h] = Append(@, r)]
             /\ Serve(r, handlers[h])
    /\ UNCHANGED handlers

\* Mutation: a call without a response is not recorded at all.
DispatchRecordingServed(r) ==
    /\ pc[r] = "reading"
    /\ Matched(r)
    /\ LET h == Chosen(r) IN
       \/ /\ handlers[h] = Nothing
          /\ Finish(r, "MissingResponseError")
          /\ UNCHANGED <<history, history_map, index, picked>>
       \/ /\ handlers[h] # Nothing
          /\ history' = Append(history, r)
          /\ history_map' = [history_map EXCEPT ![h] = Append(@, r)]
          /\ Serve(r, handlers[h])
    /\ UNCHANGED handlers

\* The first route that matches: the request is recorded, and only then is
\* the response of its handler looked up.
Dispatch(r) ==
    /\ pc[r] = "reading"
    /\ Matched(r)
    /\ LET h == Chosen(r) IN
       /\ history' = Append(history, r)
       /\ history_map' = [history_map EXCEPT ![h] = Append(@, r)]
       /\ \/ /\ handlers[h] = Nothing
             /\ Finish(r, "MissingResponseError")
             /\ UNCHANGED <<index, picked>>
          \/ /\ handlers[h] # Nothing
             /\ Serve(r, handlers[h])
    /\ UNCHANGED handlers

\* The latency is over.
WakeUp(r) ==
    /\ pc[r] = "sleeping"
    /\ Serve(r, serving[r])
    /\ UNCHANGED <<handlers, history, history_map>>

Next ==
    \/ \E h \in Handler : Register(h)
    \/ \E r \in Request :
           Arrive(r) \/ Abort(r) \/ DispatchUnmatched(r) \/ Dispatch(r) \/ WakeUp(r)

Spec == Init /\ [][Next]_vars

-----------------------------------------------------------------------------
(* Properties *)

\* Tasks are at an await or over, a sleeping task will ask a response that
\* answers without sleeping for itself again.
TypeOK ==
    /\ pc \in [Request -> {"idle", "reading", "sleeping", "done", "aborted"}]
    /\ handlers \in [Handler -> Response \cup {Nothing}]
    /\ ToSet(history) \subseteq Request
    /\ index \in [Sequence -> Nat]
    /\ serving \in [Request -> Plain \cup Sequence \cup {Nothing}]

\* sub has the elements of seq that are in S, each as often and in the same order:
\* the one with n of them before it is the one at n + 1.
Selects(sub, seq, S) ==
    LET places  == {k \in 1..Len(seq) : seq[k] \in S}
        rank(k) == Cardinality({i \in places : i <= k})
    IN  /\ Len(sub) = Cardinality(places)
        /\ \A k \in places : sub[rank(k)] = seq[k]

\* The per-handler histories are the one history, seen handler by handler:
\* assert_called counts what history shows.
HistoriesAgree ==
    \A h \in Handler :
        Selects(history_map[h], history, {r \in ToSet(history) : Chosen(r) = h})

\* A request is recorded exactly once if it reached a handler, even one that
\* had no response for it, and not at all if no route matched, a match raised
\* or its client went away.
RecordedOnce ==
    /\ IsInjective(history)
    /\ ToSet(history) =
           {r \in Request : pc[r] \in {"sleeping", "done"}
                   /\ answer[r] \notin {"HTTPNotFound", "UnicodeDecodeError"}}

\* What the i-th request a sequence serves is to be answered, in the end.
Promised(q, i) ==
    LET n == Len(Items[q])
        item == Items[q][IF i <= n THEN i
                         ELSE IF OnExhausted[q] = "cycle" THEN ((i - 1) % n) + 1 ELSE n]
    IN  IF i > n /\ OnExhausted[q] = "raise" THEN "SequenceExhausted"
        ELSE IF item \in Latency THEN Wrapped[item] ELSE item

\* A sequence gives its items in order, each to one request, whichever
\* handlers share it and however their delays interleave: n requests get the
\* n items, the next ones what on_exhausted says.
PlayedInOrder ==
    \A q \in Sequence : \A i \in 1..Len(picked[q]) :
        pc[picked[q][i]] = "done" => answer[picked[q][i]] = Promised(q, i)

\* Requests answered by an undelayed sequence take its items in the order in
\* which they are recorded, so a test may read the answers off the history.
SequenceFollowsHistory ==
    \A q \in Sequence :
        (\A l \in Latency : Wrapped[l] # q) =>
            Selects(picked[q], history, ToSet(picked[q]))

Received(h) == {i \in DOMAIN history : Chosen(history[i]) = h}
CallsOf(h) == [i \in DOMAIN history_map[h] |-> Content[history_map[h][i]]]

Satisfies(r, criteria) ==
    /\ criteria.body # Nothing => criteria.body = Content[r].body
    /\ criteria.json # Nothing => criteria.json = Json[Content[r].body]
    /\ HasAll(Content[r].headers, criteria.headers)
    /\ HasAll(Content[r].query, criteria.query)
Satisfying(h, criteria) == {i \in Received(h) : Satisfies(history[i], criteria)}

\* What the docstring of assert_called says: the exact count if one is given, and
\* a call that matched every predicate; else an AssertionError.
Documented(received, satisfying, times, criteria) ==
    IF /\ times # Nothing => Cardinality(received) = times
       /\ satisfying # {} \/ (criteria = NoCriteria /\ times = 0)
    THEN "passes" ELSE "AssertionError"

\* The assertions tell what the server received, in whatever order its requests
\* were answered: last_call is the latest request of the handler, and assert_called
\* does what its docstring says, wherever no request whose body is no text stands
\* in front of the first that satisfies the predicates.
AssertionsTellTheHistory ==
    \A h \in Handler :
        LET calls    == CallsOf(h)
            received == Received(h)
        IN  /\ AssertNotCalled(calls) = "passes" <=> received = {}
            /\ LastCall(calls) =
                   {Content[history[i]] : i \in {j \in received : \A k \in received : k <= j}}
            /\ \A criteria \in Criteria :
                   LET satisfying == Satisfying(h, criteria)
                       unreadable == {i \in received : /\ criteria.json # Nothing
                                                       /\ Json[Content[history[i]].body] = NotText}
                   IN  (\A i \in unreadable : \E j \in satisfying : j < i) =>
                           \A times \in Times :
                               AssertCalled(calls, times, criteria) =
                                   Documented(received, satisfying, times, criteria)

\* "Asserts at least one recorded call matched all of them" (the docstring of
\* assert_called): it passes whenever a recorded call of the handler matches and
\* the count is the expected one.
MatchingCallIsFound ==
    \A h \in Handler, criteria \in Criteria, times \in Times :
        Documented(Received(h), Satisfying(h, criteria), times, criteria) = "passes" =>
            AssertCalled(CallsOf(h), times, criteria) = "passes"
=============================================================================
