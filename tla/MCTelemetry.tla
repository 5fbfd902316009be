----------------------------- MODULE MCTelemetry -----------------------------
(* A read of one thing by its number, with an operation, and of another     *)
(* without; a middleware reads the bodies of the second.                    *)
EXTENDS Telemetry

CONSTANTS a1, a2

Segment(text, len, digits, letters, uuid) ==
    [text |-> text, len |-> len, digits |-> digits, letters |-> letters, uuid |-> uuid]
Word(text, len) == Segment(text, len, FALSE, TRUE, FALSE)
Number(text, len) == Segment(text, len, TRUE, FALSE, FALSE)

MCAttempt == {a1, a2}
MCMethod == [a \in MCAttempt |-> "GET"]
MCPath == (a1 :> <<Word("cats", 4), Number("42", 2)>>) @@ (a2 :> <<Word("cats", 4), Number("7", 1)>>)
MCOperation == (a1 :> <<"get_cat">>) @@ (a2 :> NoOperation)
MCSameOperation == [a \in MCAttempt |-> NoOperation]
\* the second follows a redirect
MCMaxHops == (a1 :> 1) @@ (a2 :> 2)

\* Where the first request uses a session that is not traced, time stands still.
MCInit == Init /\ (clock = 0 <=> foreign = {})
MCSpec == MCInit /\ [][Next]_vars
=============================================================================
