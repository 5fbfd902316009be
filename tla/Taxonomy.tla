------------------------------ MODULE Taxonomy ------------------------------
(***************************************************************************)
(* asyncly/client/metrics/taxonomy.py and _classify_failure: how a failed  *)
(* attempt is named in the metrics.                                        *)
(*                                                                         *)
(* The classifier is a ladder of isinstance tests over the overlapping     *)
(* class hierarchy of aiohttp, which is why the order of its rungs counts. *)
(***************************************************************************)
EXTENDS Integers

\* The classes the ladder meets, each with the ancestors it tests for: the
\* part of aiohttp's and Python's hierarchies the code relies on.
Ancestors ==
    [CancelledError |-> {"CancelledError"},
     TimeoutError |-> {"TimeoutError"},
     ConnectionTimeoutError |->
        {"ConnectionTimeoutError", "ServerTimeoutError", "TimeoutError"},
     SocketTimeoutError |-> {"ServerTimeoutError", "TimeoutError"},
     ClientConnectorSSLError |->
        {"ClientSSLError", "ClientConnectorError", "ClientOSError"},
     ClientConnectorDNSError |->
        {"ClientConnectorDNSError", "ClientConnectorError", "ClientOSError"},
     UnresolvedProxyError |-> {"gaierror", "ClientConnectorError", "ClientOSError"},
     ClientConnectorError |-> {"ClientConnectorError", "ClientOSError"},
     ConnectorReset |-> {"ClientConnectorError", "ClientOSError", "ECONNRESET"},
     ConnectionReset |-> {"ClientOSError", "ECONNRESET"},
     ClientOSError |-> {"ClientOSError"},
     ServerDisconnectedError |-> {"ServerDisconnectedError"},
     ClientPayloadError |-> {"ClientPayloadError"},
     UnknownError |-> {}, \* any the ladder does not know: InvalidURL, ValueError, ...
     UnhandledStatusException |-> {},
     HandlerError |-> {},
     _ObservableTransportError |-> {}]

ExceptionClass == DOMAIN Ancestors

IsInstance(e, class) == class \in Ancestors[e]

\* Mutation: the rung of failures to connect comes before TLS and the lookup.
ClassifyExceptionConnectorFirst(e) ==
    IF IsInstance(e, "CancelledError") THEN <<"cancelled", "none">>
    ELSE IF IsInstance(e, "ConnectionTimeoutError") THEN <<"timeout", "connect_error">>
    ELSE IF IsInstance(e, "ServerTimeoutError") \/ IsInstance(e, "TimeoutError")
         THEN <<"timeout", "read_timeout">>
    ELSE IF IsInstance(e, "ClientConnectorError") THEN <<"network_error", "connect_error">>
    ELSE IF IsInstance(e, "ClientSSLError") THEN <<"network_error", "tls_error">>
    ELSE IF IsInstance(e, "ClientConnectorDNSError") \/ IsInstance(e, "gaierror")
         THEN <<"network_error", "dns_error">>
    ELSE IF IsInstance(e, "ServerDisconnectedError")
         THEN <<"network_error", "server_disconnected">>
    ELSE IF IsInstance(e, "ECONNRESET") THEN <<"network_error", "connection_reset">>
    ELSE IF IsInstance(e, "ClientPayloadError") THEN <<"network_error", "payload_error">>
    ELSE <<"network_error", "other">>

\* (outcome, error_type)
ClassifyException(e) ==
    IF IsInstance(e, "CancelledError") THEN <<"cancelled", "none">>
    ELSE IF IsInstance(e, "ConnectionTimeoutError") THEN <<"timeout", "connect_error">>
    ELSE IF IsInstance(e, "ServerTimeoutError") \/ IsInstance(e, "TimeoutError")
         THEN <<"timeout", "read_timeout">>
    ELSE IF IsInstance(e, "ClientSSLError") THEN <<"network_error", "tls_error">>
    ELSE IF IsInstance(e, "ClientConnectorDNSError") \/ IsInstance(e, "gaierror")
         THEN <<"network_error", "dns_error">>
    ELSE IF IsInstance(e, "ClientConnectorError") THEN <<"network_error", "connect_error">>
    ELSE IF IsInstance(e, "ServerDisconnectedError")
         THEN <<"network_error", "server_disconnected">>
    ELSE IF IsInstance(e, "ECONNRESET") THEN <<"network_error", "connection_reset">>
    ELSE IF IsInstance(e, "ClientPayloadError") THEN <<"network_error", "payload_error">>
    ELSE <<"network_error", "other">>

\* The three labels of an observe_request sample.  NoStatus as a label stands
\* for the text "none".
NoStatus == 0
Sample(status, outcome, error) ==
    [status |-> status, outcome |-> outcome, error_type |-> error]

\* Mutation: a cancellation after the headers is a failure like any other.
ClassifyFailureOfCancellation(e, chosen, own) ==
    LET status == IF chosen # NoStatus THEN chosen ELSE own
        class == ClassifyException(e)
    IN  IF status = NoStatus THEN Sample(NoStatus, class[1], class[2])
        ELSE Sample(status, "response", "invalid_response")

\* chosen is the status of the handler that ran, NoStatus if none did; own is
\* the status attribute of the exception, NoStatus if it has none.
ClassifyFailure(e, chosen, own) ==
    LET status == IF chosen # NoStatus THEN chosen ELSE own
        class == ClassifyException(e)
    IN  IF e = "CancelledError" \/ status = NoStatus
        THEN Sample(NoStatus, class[1], class[2])
        ELSE Sample(status, "response", "invalid_response")
=============================================================================
