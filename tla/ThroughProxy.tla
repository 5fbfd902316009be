---------------------------- MODULE ThroughProxy ----------------------------
(***************************************************************************)
(* Clients that send requests to a server directly or through the mock     *)
(* proxy of proxy.py.  Each exchange with the proxy has a handler task of  *)
(* its own there, which goes on when its client has given up and sent the  *)
(* request again; the proxy forwards with a session that has no retry      *)
(* policy, so that aiohttp repeats an idempotent request on its own.       *)
(***************************************************************************)
EXTENDS AuthHeaders, SequencesExt

CONSTANTS
    Request,            \* calls of _make_req
    Calls,              \* the keyword arguments that each may have, Absent if it is not made
    Idempotent,         \* the requests with an idempotent method
    DefaultProxyAuth,   \* proxy_auth of the client, whose proxy is the mock proxy
    ExpectedAuth,       \* auth of start_proxy, or Nothing
    MaxAttempts,        \* attempts of the client's retry policy
    TheProxy,           \* the URL of the mock proxy
    HopByHop            \* _HOP_BY_HOP

ASSUME ProxyAssumption ==
    /\ ProxyAuthorization \in HopByHop
    /\ Authorization \notin HopByHop
    /\ MaxAttempts \in Nat \ {0}

\* No header that is present has the value None.
ASSUME HeadersAssumption ==
    \A call \in Calls : \A r \in Request : call[r] # Absent =>
        \A headers \in {OrEmpty(call[r].headers), OrEmpty(call[r].proxy_headers)} :
            \A name \in DOMAIN headers : headers[name] # Nothing

VARIABLES
    kwargs,     \* the keyword arguments of each request
    pc,         \* per request: "idle", "waiting", "answered", "again" or "done"
    sent,       \* attempts made
    answer,     \* what the last attempt was answered: the target's answers are
                \* told apart by the attempt they answer
    tasks,      \* the exchanges in progress
    history,    \* MockProxyService.history
    received,   \* bag of what the target received
    server      \* of the proxy: "up", "closing" or "closed"

vars == <<kwargs, pc, sent, answer, tasks, history, received, server>>

By(what) == [by |-> what, attempt |-> 0]
Target(attempt) == [by |-> "target", attempt |-> attempt]
NoAnswer == By("none")

Passed(r) == Normalized(kwargs[r], TheProxy, DefaultProxyAuth)
SentHeaders(r) == OnConnection(Passed(r), ForwardPlainHttpProxyAuth(Passed(r)))

\* _relay_headers for the request
Relayed(headers) == Drop(headers, HopByHop)

Init ==
    /\ kwargs \in Calls
    /\ pc = [r \in Request |-> IF kwargs[r] = Absent THEN "done" ELSE "idle"]
    /\ sent = [r \in Request |-> 0]
    /\ answer = [r \in Request |-> NoAnswer]
    /\ tasks = {}
    /\ history = <<>>
    /\ received = EmptyBag
    /\ server = "up"

\* A request with credentials that are no BasicAuth is refused before it is sent.
Refuse(r) ==
    /\ pc[r] = "idle"
    /\ Passed(r) = Raises
    /\ pc' = [pc EXCEPT ![r] = "done"]
    /\ answer' = [answer EXCEPT ![r] = By("TypeError")]
    /\ UNCHANGED <<kwargs, sent, tasks, history, received, server>>

\* An attempt: a task of the proxy starts to read the body.
Send(r) ==
    /\ pc[r] \in {"idle", "again"}
    /\ Passed(r) # Raises
    /\ Passed(r).proxy # Nothing => server = "up"
    /\ pc' = [pc EXCEPT ![r] = "waiting"]
    /\ sent' = [sent EXCEPT ![r] = @ + 1]
    /\ answer' = [answer EXCEPT ![r] = NoAnswer]
    /\ tasks' = tasks \cup
           {[request |-> r, attempt |-> sent[r] + 1, repeated |-> FALSE,
             phase |-> IF Passed(r).proxy = Nothing THEN "sending" ELSE "reading",
             proxied |-> Passed(r).proxy # Nothing,
             headers |-> SentHeaders(r)]}
    /\ UNCHANGED <<kwargs, history, received, server>>

\* The proxy no longer listens.
FailToConnect(r) ==
    /\ pc[r] \in {"idle", "again"}
    /\ Passed(r) # Raises
    /\ Passed(r).proxy # Nothing /\ server # "up"
    /\ pc' = [pc EXCEPT ![r] = "answered"]
    /\ sent' = [sent EXCEPT ![r] = @ + 1]
    /\ answer' = [answer EXCEPT ![r] = By("ClientProxyConnectionError")]
    /\ UNCHANGED <<kwargs, tasks, history, received, server>>

\* The answer of a task, for a client that still waits for it.
Waits(t) == pc[t.request] = "waiting" /\ sent[t.request] = t.attempt

Reply(t, a) ==
    /\ tasks' = tasks \ {t}
    /\ IF Waits(t)
       THEN /\ answer' = [answer EXCEPT ![t.request] = a]
            /\ pc' = [pc EXCEPT ![t.request] = "answered"]
       ELSE UNCHANGED <<answer, pc>>

Becomes(t, u) == tasks' = (tasks \ {t}) \cup {u}

\* The answer, a failure or a timeout ends the attempt: the policy repeats it
\* or the call is over.
Decide(r) ==
    /\ \/ pc[r] = "answered"
       \/ pc[r] = "waiting"  \* timeout: the client closes the connection
    /\ \/ pc' = [pc EXCEPT ![r] = "done"]
       \/ sent[r] < MaxAttempts /\ pc' = [pc EXCEPT ![r] = "again"]
    /\ UNCHANGED <<kwargs, sent, answer, tasks, history, received, server>>

-----------------------------------------------------------------------------
(* The proxy's _handler *)

\* The client went away before its body was read: nothing is recorded.
LoseBody(t) ==
    /\ t.phase = "reading"
    /\ ~ Waits(t)
    /\ tasks' = tasks \ {t}
    /\ UNCHANGED <<kwargs, pc, sent, answer, history, received, server>>

\* Mutation: any credentials are accepted.
HandleAnyCredentials(t) ==
    /\ t.phase = "reading"
    /\ history' = Append(history, [request |-> t.request, attempt |-> t.attempt,
                                   headers |-> t.headers])
    /\ IF ExpectedAuth # Nothing /\ Get(t.headers, ProxyAuthorization) = Nothing
       THEN Reply(t, By("407"))
       ELSE /\ Becomes(t, [t EXCEPT !.phase = "sending", !.headers = Relayed(@)])
            /\ UNCHANGED <<pc, answer>>
    /\ UNCHANGED <<kwargs, sent, received, server>>

\* Mutation: a request is only recorded when its credentials are accepted.
HandleRecordingAccepted(t) ==
    /\ t.phase = "reading"
    /\ IF ExpectedAuth # Nothing /\ Get(t.headers, ProxyAuthorization) # Encoded(ExpectedAuth)
       THEN Reply(t, By("407")) /\ UNCHANGED history
       ELSE /\ history' = Append(history, [request |-> t.request, attempt |-> t.attempt,
                                           headers |-> t.headers])
            /\ Becomes(t, [t EXCEPT !.phase = "sending", !.headers = Relayed(@)])
            /\ UNCHANGED <<pc, answer>>
    /\ UNCHANGED <<kwargs, sent, received, server>>

\* The body is read: the request is recorded, then its credentials checked,
\* then it is forwarded without the headers of its hop.
Handle(t) ==
    /\ t.phase = "reading"
    /\ history' = Append(history, [request |-> t.request, attempt |-> t.attempt,
                                   headers |-> t.headers])
    /\ IF ExpectedAuth # Nothing /\ Get(t.headers, ProxyAuthorization) # Encoded(ExpectedAuth)
       THEN Reply(t, By("407"))
       ELSE /\ Becomes(t, [t EXCEPT !.phase = "sending", !.headers = Relayed(@)])
            /\ UNCHANGED <<pc, answer>>
    /\ UNCHANGED <<kwargs, sent, received, server>>

\* The request reaches the target.
Reach(t) ==
    /\ t.phase = "sending"
    /\ received' = received (+) SetToBag({[request |-> t.request, attempt |-> t.attempt,
                                           proxied |-> t.proxied, headers |-> t.headers]})
    /\ Becomes(t, [t EXCEPT !.phase = "sent"])
    /\ UNCHANGED <<kwargs, pc, sent, answer, history, server>>

\* The target's answer is read and relayed: it answers the attempt it got.
Relay(t) ==
    /\ t.phase = "sent"
    /\ Reply(t, Target(t.attempt))
    /\ UNCHANGED <<kwargs, sent, history, received, server>>

\* The target cannot be reached or closes the connection.  The forwarding
\* session repeats an idempotent request once; then the handler raises, 500.
Disconnect(t) ==
    /\ t.phase \in {"sending", "sent"}
    /\ IF t.proxied /\ t.request \in Idempotent /\ ~ t.repeated
       THEN /\ Becomes(t, [t EXCEPT !.phase = "sending", !.repeated = TRUE])
            /\ UNCHANGED <<pc, answer>>
       ELSE Reply(t, By(IF t.proxied THEN "500" ELSE "ServerDisconnectedError"))
    /\ UNCHANGED <<kwargs, sent, history, received, server>>

-----------------------------------------------------------------------------
(* start_proxy's finally: the server first, then the forwarding session *)

Proxied == {t \in tasks : t.proxied}

CloseServer ==
    /\ server = "up"
    /\ server' = "closing"
    /\ UNCHANGED <<kwargs, pc, sent, answer, tasks, history, received>>

\* What still runs when the server is closed is cancelled, its client disconnected.
CancelTask(t) ==
    /\ server = "closing"
    /\ t.proxied
    /\ Reply(t, By("ServerDisconnectedError"))
    /\ UNCHANGED <<kwargs, sent, history, received, server>>

CloseSession ==
    /\ server = "closing"
    /\ Proxied = {}
    /\ server' = "closed"
    /\ UNCHANGED <<kwargs, pc, sent, answer, tasks, history, received>>

Next ==
    \/ \E r \in Request : Refuse(r) \/ Send(r) \/ FailToConnect(r) \/ Decide(r)
    \/ \E t \in tasks : \/ LoseBody(t) \/ Handle(t) \/ Reach(t) \/ Relay(t)
                        \/ Disconnect(t) \/ CancelTask(t)
    \/ CloseServer \/ CloseSession

Spec == Init /\ [][Next]_vars

-----------------------------------------------------------------------------
(* Properties *)

\* The proxy is shown the credentials the caller means: those of the request's
\* headers before those for the proxy, and only then proxy_auth, of the call
\* before the client's.  They are the same for every attempt.  Without any
\* proxy_auth a Proxy-Authorization in proxy_headers is not sent to the proxy
\* of a plain request, which aiohttp shows those headers only on CONNECT.
Meant(r) ==
    LET given == OrEmpty(kwargs[r].proxy_headers)
        auth  == ProxyAuth(kwargs[r], DefaultProxyAuth)
        order == <<Get(OrEmpty(kwargs[r].headers), ProxyAuthorization),
                   IF auth = Nothing THEN Nothing ELSE Get(given, ProxyAuthorization),
                   Get(given, Authorization),
                   IF auth = Nothing THEN Nothing ELSE Encoded(auth)>>
        there == {i \in 1..4 : order[i] # Nothing}
    IN  IF there = {} THEN Nothing ELSE order[CHOOSE i \in there : \A j \in there : i <= j]

ProxySeesTheCallersCredentials ==
    \A i \in DOMAIN history :
        Get(history[i].headers, ProxyAuthorization) = Meant(history[i].request)

\* Credentials stay on their hop: through the proxy the target gets no header
\* of the hop before, directly no proxy credentials but those the caller put in
\* the request's headers, and either way the caller's own Authorization.
CredentialsStayOnTheirHop ==
    \A x \in BagToSet(received) :
        LET call    == kwargs[x.request]
            written == OrEmpty(call.headers)
        IN  /\ x.proxied => DOMAIN x.headers \cap HopByHop = {}
            /\ ~ x.proxied => Get(x.headers, ProxyAuthorization) = Get(written, ProxyAuthorization)
            /\ Get(x.headers, Authorization) =
                   IF Authorization \in DOMAIN written THEN written[Authorization]
                   ELSE IF call.auth \in Credentials THEN Encoded(call.auth) ELSE Nothing

Forwards(r, n) ==
    {x \in BagToSet(received) : x.request = r /\ x.attempt = n /\ x.proxied}
Records(r, n) == {i \in DOMAIN history : history[i].request = r /\ history[i].attempt = n}

\* What the target gets through the proxy was recorded there first and carried
\* the expected credentials; it gets it once, or twice if it is idempotent, also
\* from tasks whose client has long given up or repeated the request.
ForwardsAreAuthenticated ==
    \A x \in BagToSet(received) : x.proxied =>
        /\ \E j \in Records(x.request, x.attempt) : ExpectedAuth # Nothing =>
               Get(history[j].headers, ProxyAuthorization) = Encoded(ExpectedAuth)
        /\ received[x] <= (IF x.request \in Idempotent THEN 2 ELSE 1)

\* The history tells every attempt the proxy answered, once, one it refused
\* with 407 as well; what it relays is the target's answer to that very attempt,
\* never a late one to an earlier attempt, and it refuses no other than one
\* with wrong credentials.
AnswersAreRecorded ==
    \A r \in Request :
        /\ \A n \in 1..sent[r] : Cardinality(Records(r, n)) <= 1
        /\ LET n == sent[r] IN answer[r].by \in {"407", "500", "target"} =>
               /\ Passed(r).proxy # Nothing => Cardinality(Records(r, n)) = 1
               /\ answer[r].by = "407" =>
                      Forwards(r, n) = {} /\ Meant(r) # Encoded(ExpectedAuth)
               /\ answer[r].by = "target" =>
                      /\ answer[r].attempt = n
                      /\ \E x \in BagToSet(received) : x.request = r /\ x.attempt = n
=============================================================================
