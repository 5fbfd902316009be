---------------------------- MODULE MCMockServer ----------------------------
(* Five requests: two for the handler "ha" and one for the fallback "hb"    *)
(* share a cycling sequence with a delayed item; one of two others matches  *)
(* no route, the other is asked for its JSON and is no text.  Nor is the    *)
(* body of one that "ha" gets, which only a JSON predicate notices.         *)
EXTENDS MockServer

CONSTANTS r1, r2, r3, r4, r5, ha, hb, ok, busy, slow, lag, play, once, tail,
          text, other, binary, Doc, Tag

MCRequest == {r1, r2, r3, r4, r5}
None == [k \in {} |-> Nothing]
Call(body, headers) == [body |-> body, headers |-> headers, query |-> None]
Tagged == [k \in {Tag} |-> Doc]
MCJson == (text :> Doc) @@ (other :> NotJson) @@ (binary :> NotText)
MCContent == (r1 :> Call(text, Tagged)) @@ (r2 :> Call(binary, Tagged))
             @@ (r3 :> Call(text, None)) @@ (r4 :> Call(other, None))
             @@ (r5 :> Call(binary, None))
MCRoutes ==
    <<[handler |-> ha, match |-> [NoCriteria EXCEPT !.headers = Tagged]],
      [handler |-> hb, match |-> [NoCriteria EXCEPT !.json = Doc]]>>
MCCriteria ==
    {NoCriteria, [NoCriteria EXCEPT !.json = Doc],
     [NoCriteria EXCEPT !.json = Doc, !.headers = Tagged]}
MCTimes == {Nothing, 0, 1}
MCWrapped == (slow :> ok) @@ (lag :> once)
MCItems == (play :> <<busy, slow>>) @@ (once :> <<ok>>) @@ (tail :> <<busy, ok>>)
MCOnExhausted == (play :> "cycle") @@ (once :> "raise") @@ (tail :> "last")

\* At most one of the requests no handler gets; busy and once are only items.
MCNext ==
    /\ Next
    /\ pc'[r4] = "idle" \/ pc'[r5] = "idle"
    /\ \A h \in Handler : handlers'[h] \notin {busy, once}
MCSpec == Init /\ [][MCNext]_vars
=============================================================================
