---------------------------- MODULE MCHttpClient ----------------------------
(* A small client for TLC: the default exceptions of RetryPolicy, one       *)
(* retryable status with a handler, one success, one status nobody handles. *)
EXTENDS HttpClient

CONSTANTS r1, r2

MCMethod == {"GET", "POST"}
MCMethods == {"GET"}
MCStatus == {200, 404, 503}
MCStatuses == {503}
MCExceptions ==
    {"ClientOSError", "ServerDisconnectedError", "ClientPayloadError", "TimeoutError"}
MCHandlers == [exact |-> {200}, group |-> {5}, any |-> FALSE]
MCBackoffs == {"backoff", "negative"}
MCBackoff == {"backoff"}

\* One request of any kind beside one that makes as many attempts as it can,
\* or only one and cannot be repeated.
Beside ==
    {[retry |-> TRUE, method |-> "GET", data |-> "absent"],
     [retry |-> FALSE, method |-> "POST", data |-> "stream"]}
MCInit == Init /\ call[r2] \in Beside
MCFairSpec == MCInit /\ [][Next]_vars /\ Fairness
=============================================================================
