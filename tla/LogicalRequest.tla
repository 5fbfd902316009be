--------------------------- MODULE LogicalRequest ---------------------------
(***************************************************************************)
(* What one call of _make_req promises, whatever connections, responses,   *)
(* exceptions and observers do: it makes at most MaxTries attempts, more   *)
(* than one only if the request may be repeated, pauses between two        *)
(* attempts, and ends.                                                     *)
(***************************************************************************)
EXTENDS Naturals

CONSTANTS Request, MaxTries

VARIABLES
    repeatable,     \* the requests that may be sent more than once
    phase,          \* "idle", "trying", "pausing" or "finished"
    tries           \* attempts begun

vars == <<repeatable, phase, tries>>

Init ==
    /\ repeatable \in SUBSET Request
    /\ phase = [r \in Request |-> "idle"]
    /\ tries = [r \in Request |-> 0]

Begin(r) ==
    /\ phase[r] = "idle"
    /\ phase' = [phase EXCEPT ![r] = "trying"]
    /\ tries' = [tries EXCEPT ![r] = 1]
    /\ UNCHANGED repeatable

Pause(r) ==
    /\ phase[r] = "trying"
    /\ r \in repeatable
    /\ tries[r] < MaxTries
    /\ phase' = [phase EXCEPT ![r] = "pausing"]
    /\ UNCHANGED <<repeatable, tries>>

TryAgain(r) ==
    /\ phase[r] = "pausing"
    /\ phase' = [phase EXCEPT ![r] = "trying"]
    /\ tries' = [tries EXCEPT ![r] = @ + 1]
    /\ UNCHANGED repeatable

\* With a result, an exception, or because it was cancelled.
Finish(r) ==
    /\ phase[r] \in {"trying", "pausing"}
    /\ phase' = [phase EXCEPT ![r] = "finished"]
    /\ UNCHANGED <<repeatable, tries>>

Next == \E r \in Request : Begin(r) \/ Pause(r) \/ TryAgain(r) \/ Finish(r)

SafeSpec == Init /\ [][Next]_vars

\* A logical request ends, without a bound on how long it takes.
Spec == SafeSpec /\ \A r \in Request : WF_vars(Finish(r))
=============================================================================
