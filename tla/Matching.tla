------------------------------ MODULE Matching ------------------------------
(***************************************************************************)
(* Which requests a Match of a route accepts (matching.py) and which calls *)
(* assert_called counts as matching (assertions.py): the same four tests,  *)
(* in the same order, on a request being dispatched and on a recorded one. *)
(*                                                                         *)
(* A call is a record of its body, headers and query.  Headers and query   *)
(* are functions from the names present to the first value of each, which  *)
(* is what get() of a multidict returns.  Criteria are a record of the     *)
(* four predicates, each Nothing when it is not given.                     *)
(***************************************************************************)
EXTENDS Integers, Sequences, FiniteSets

CONSTANTS
    Nothing,        \* Python's None
    Json,           \* what json.loads makes of each body
    NotJson,        \* it raises JSONDecodeError
    NotText         \* the body is not UTF-8: it raises UnicodeDecodeError

NoCriteria == [json |-> Nothing, body |-> Nothing, headers |-> Nothing, query |-> Nothing]

Get(dict, key) == IF key \in DOMAIN dict THEN dict[key] ELSE Nothing

HasAll(dict, expected) ==
    expected # Nothing => \A k \in DOMAIN expected : Get(dict, k) = expected[k]

\* matches() and call_matches(): only a JSONDecodeError is a mismatch.
Answer(criteria, call) ==
    IF criteria.body # Nothing /\ call.body # criteria.body THEN "no"
    ELSE IF criteria.json # Nothing /\ Json[call.body] = NotText THEN "raises"
    ELSE IF /\ criteria.json # Nothing => Json[call.body] = criteria.json
            /\ HasAll(call.headers, criteria.headers)
            /\ HasAll(call.query, criteria.query)
         THEN "yes" ELSE "no"

\* Mutation: the count is not compared when there are predicates too.
AssertCalledAny(calls, times, criteria) ==
    LET decided == {i \in DOMAIN calls : Answer(criteria, calls[i]) # "no"}
    IN  IF criteria = NoCriteria /\ times # Nothing
        THEN IF Len(calls) = times THEN "passes" ELSE "AssertionError"
        ELSE IF decided = {} THEN "AssertionError" ELSE "passes"

\* assert_called: the count first, which is all that is asked without
\* predicates; then the first call that matches, or raises, decides.
AssertCalled(calls, times, criteria) ==
    LET decided == {i \in DOMAIN calls : Answer(criteria, calls[i]) # "no"}
        first   == CHOOSE i \in decided : \A j \in decided : i <= j
    IN  IF times # Nothing /\ Len(calls) # times THEN "AssertionError"
        ELSE IF times # Nothing /\ criteria = NoCriteria THEN "passes"
        ELSE IF decided = {} THEN "AssertionError"
        ELSE IF Answer(criteria, calls[first]) = "yes" THEN "passes"
        ELSE "UnicodeDecodeError"

AssertNotCalled(calls) == IF calls = <<>> THEN "passes" ELSE "AssertionError"

\* The call last_call returns, none when it raises AssertionError.
LastCall(calls) == {calls[i] : i \in {Len(calls)} \cap DOMAIN calls}
=============================================================================
