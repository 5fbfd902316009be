-------------------------- MODULE ThroughProxyProofs --------------------------
(***************************************************************************)
(* Proofs about ThroughProxy: where credentials go, for any keyword        *)
(* arguments, any number of requests, attempts and late tasks, and any     *)
(* credentials the proxy expects.                                          *)
(***************************************************************************)
EXTENDS ThroughProxy, FiniteSetTheorems, TLAPS

(* headers *)

LEMMA PutNames ==
    ASSUME NEW dict, NEW key, NEW value
    PROVE  DOMAIN Put(dict, key, value) = DOMAIN dict \cup {key}
  BY DEF Put

LEMMA PutHere ==
    ASSUME NEW dict, NEW key, NEW value
    PROVE  Get(Put(dict, key, value), key) = value
  BY DEF Get, Put

LEMMA PutElsewhere ==
    ASSUME NEW dict, NEW key, NEW value, NEW other, other # key
    PROVE  Get(Put(dict, key, value), other) = Get(dict, other)
  BY DEF Get, Put

LEMMA DropNames ==
    ASSUME NEW dict, NEW keys
    PROVE  DOMAIN Drop(dict, keys) = DOMAIN dict \ keys
  BY DEF Drop, Restrict

LEMMA DropElsewhere ==
    ASSUME NEW dict, NEW keys, NEW other, other \notin keys
    PROVE  Get(Drop(dict, keys), other) = Get(dict, other)
  BY DEF Get, Drop, Restrict

LEMMA NamesDiffer == Authorization # ProxyAuthorization
  BY DEF Authorization, ProxyAuthorization

\* Headers whose values are not None: a header is present iff Get finds it.
Valued(dict) == \A k \in DOMAIN dict : dict[k] # Nothing

LEMMA ValuedFacts ==
    ASSUME NEW dict, Valued(dict), NEW k
    PROVE  k \in DOMAIN dict <=> Get(dict, k) # Nothing
  BY DEF Valued, Get

\* The Authorization of a call, on whichever hop.
Own(call) ==
    LET written == OrEmpty(call.headers)
    IN  IF Authorization \in DOMAIN written THEN written[Authorization]
        ELSE IF call.auth \in Credentials THEN Encoded(call.auth) ELSE Nothing

Usable(call) == call.auth \in Credentials \cup {Nothing, Absent}

LEMMA WithAuthFacts ==
    ASSUME NEW call, Usable(call)
    PROVE  /\ Get(WithAuth(call), Authorization) = Own(call)
           /\ Get(WithAuth(call), ProxyAuthorization) =
                  Get(OrEmpty(call.headers), ProxyAuthorization)
           /\ ProxyAuthorization \in DOMAIN WithAuth(call) <=>
                  ProxyAuthorization \in DOMAIN OrEmpty(call.headers)
  <1> DEFINE written == OrEmpty(call.headers)
  <1>1. CASE call.auth \in {Nothing, Absent} \/ Authorization \in DOMAIN written
    <2>1. WithAuth(call) = written
      BY <1>1 DEF WithAuth
    <2>2. Get(written, Authorization) = Own(call)
      BY <1>1, CredentialsAssumption DEF Get, Own
    <2>3. QED
      BY <2>1, <2>2
  <1>2. CASE ~ (call.auth \in {Nothing, Absent} \/ Authorization \in DOMAIN written)
    <2>1. WithAuth(call) = Put(written, Authorization, Encoded(call.auth))
      BY <1>2 DEF WithAuth
    <2>2. Own(call) = Encoded(call.auth)
      BY <1>2 DEF Own, Usable
    <2>3. Get(WithAuth(call), Authorization) = Own(call)
      BY <2>1, <2>2, PutHere
    <2>4. Get(WithAuth(call), ProxyAuthorization) = Get(written, ProxyAuthorization)
      BY <2>1, PutElsewhere, NamesDiffer
    <2>5. DOMAIN WithAuth(call) = DOMAIN written \cup {Authorization}
      BY <2>1, PutNames
    <2>6. QED
      BY <2>3, <2>4, <2>5, NamesDiffer
  <1>3. QED
    BY <1>1, <1>2

-----------------------------------------------------------------------------
(* what one attempt sends *)

LEMMA PassedFacts ==
    ASSUME NEW r, Passed(r) # Raises
    PROVE  LET call == kwargs[r]
               auth == ProxyAuth(call, DefaultProxyAuth)
           IN  /\ Usable(call)
               /\ auth \in Credentials \cup {Nothing}
               /\ Passed(r).headers = WithAuth(call)
               /\ Passed(r).proxy_headers = ProxyHeaders(call, DefaultProxyAuth, WithAuth(call))
               /\ Passed(r).forwards <=>
                      auth # Nothing \/ ProxyAuthorization \in DOMAIN WithAuth(call)
  BY DEF Passed, Normalized, Usable

LEMMA AuthorizationIsOwn ==
    ASSUME NEW r, Passed(r) # Raises
    PROVE  Get(SentHeaders(r), Authorization) = Own(kwargs[r])
  <1> DEFINE p == Passed(r)
             forwarded == ForwardPlainHttpProxyAuth(p)
  <1>1. Get(p.headers, Authorization) = Own(kwargs[r])
    BY PassedFacts, WithAuthFacts
  <1> HIDE DEF p
  <1>2. Get(forwarded, Authorization) = Get(p.headers, Authorization)
    BY PutElsewhere, NamesDiffer DEF ForwardPlainHttpProxyAuth
  <1> HIDE DEF forwarded
  <1>3. Get(OnConnection(p, forwarded), Authorization) = Get(forwarded, Authorization)
    BY PutElsewhere, NamesDiffer DEF OnConnection
  <1>4. QED
    BY <1>1, <1>2, <1>3 DEF SentHeaders, p, forwarded

\* Without a proxy the credentials for one stay where the caller put them.
LEMMA DirectKeepsProxyCredentials ==
    ASSUME NEW r, Passed(r) # Raises, Passed(r).proxy = Nothing
    PROVE  Get(SentHeaders(r), ProxyAuthorization) =
               Get(OrEmpty(kwargs[r].headers), ProxyAuthorization)
  <1>1. SentHeaders(r) = Passed(r).headers
    BY DEF SentHeaders, OnConnection, ForwardPlainHttpProxyAuth
  <1>2. QED
    BY <1>1, PassedFacts, WithAuthFacts

\* The first of four values that is not None.
LEMMA FirstFacts ==
    ASSUME NEW a, NEW b, NEW c, NEW d
    PROVE  LET order == <<a, b, c, d>>
               there == {i \in 1..4 : order[i] # Nothing}
           IN  (IF there = {} THEN Nothing
                ELSE order[CHOOSE i \in there : \A j \in there : i <= j]) =
               (IF a # Nothing THEN a ELSE IF b # Nothing THEN b ELSE IF c # Nothing THEN c ELSE d)
  <1> DEFINE order == <<a, b, c, d>>
             there == {i \in 1..4 : order[i] # Nothing}
             first == CHOOSE i \in there : \A j \in there : i <= j
  <1>1. order[1] = a /\ order[2] = b /\ order[3] = c /\ order[4] = d
    OBVIOUS
  <1> HIDE DEF order
  <1>2. there \subseteq 1..4 /\ \A i \in 1..4 : i \in there <=> order[i] # Nothing
    OBVIOUS
  <1> HIDE DEF there
  <1>3. ASSUME NEW i \in there, \A j \in there : i <= j
        PROVE  first = i
    <2>1. first \in there /\ \A j \in there : first <= j
      BY <1>3, Zenon
    <2> HIDE DEF first
    <2>2. first <= i /\ i <= first /\ first \in Int /\ i \in Int
      BY <1>2, <1>3, <2>1
    <2>3. QED
      BY <2>2
  <1> HIDE DEF first
  <1>4. CASE a # Nothing
    BY <1>1, <1>2, <1>3, <1>4 DEF first, there, order
  <1>5. CASE a = Nothing /\ b # Nothing
    BY <1>1, <1>2, <1>3, <1>5 DEF first, there, order
  <1>6. CASE a = Nothing /\ b = Nothing /\ c # Nothing
    BY <1>1, <1>2, <1>3, <1>6 DEF first, there, order
  <1>7. CASE a = Nothing /\ b = Nothing /\ c = Nothing /\ d # Nothing
    BY <1>1, <1>2, <1>3, <1>7 DEF first, there, order
  <1>8. CASE a = Nothing /\ b = Nothing /\ c = Nothing /\ d = Nothing
    BY <1>1, <1>2, <1>8 DEF first, there, order
  <1>9. QED
    BY <1>4, <1>5, <1>6, <1>7, <1>8

\* Whatever the sources of credentials, the proxy is sent those that are meant.
LEMMA MeantAreSent ==
    ASSUME kwargs \in Calls, NEW r \in Request, kwargs[r] # Absent,
           Passed(r) # Raises, Passed(r).proxy # Nothing
    PROVE  Get(SentHeaders(r), ProxyAuthorization) = Meant(r)
  <1> DEFINE call == kwargs[r]
             written == OrEmpty(call.headers)
             given == OrEmpty(call.proxy_headers)
             auth == ProxyAuth(call, DefaultProxyAuth)
             named == Get(written, ProxyAuthorization)
             p == Passed(r)
             forwarded == ForwardPlainHttpProxyAuth(p)
  <1>1. Valued(written) /\ Valued(given)
    BY HeadersAssumption DEF Valued
  <1>2. Meant(r) = IF named # Nothing THEN named
                   ELSE IF auth = Nothing THEN Get(given, Authorization)
                   ELSE IF Get(given, ProxyAuthorization) # Nothing
                        THEN Get(given, ProxyAuthorization)
                   ELSE IF Get(given, Authorization) # Nothing THEN Get(given, Authorization)
                   ELSE Encoded(auth)
    <2> DEFINE second == IF auth = Nothing THEN Nothing ELSE Get(given, ProxyAuthorization)
               third == Get(given, Authorization)
               fourth == IF auth = Nothing THEN Nothing ELSE Encoded(auth)
    <2>1. Meant(r) = IF named # Nothing THEN named ELSE IF second # Nothing THEN second
                     ELSE IF third # Nothing THEN third ELSE fourth
      BY FirstFacts DEF Meant
    <2> HIDE DEF named, given, auth
    <2>2. QED
      BY <2>1
  <1>3. /\ Get(p.headers, ProxyAuthorization) = named
        /\ ProxyAuthorization \in DOMAIN p.headers <=> named # Nothing
        /\ p.forwards <=> auth # Nothing \/ named # Nothing
        /\ auth # Nothing => Encoded(auth) # Nothing
    BY <1>1, PassedFacts, WithAuthFacts, ValuedFacts, CredentialsAssumption
  <1>4. p.proxy_headers =
            IF named # Nothing THEN Put(Drop(given, {Authorization}), ProxyAuthorization, named)
            ELSE IF auth = Nothing THEN given
            ELSE IF ProxyAuthorization \in DOMAIN given THEN Drop(given, {Authorization})
            ELSE Put(given, ProxyAuthorization, Encoded(auth))
    BY <1>3, PassedFacts DEF ProxyHeaders
  <1>5. \A k : /\ k \in DOMAIN given <=> Get(given, k) # Nothing
               /\ k \in DOMAIN given => Get(given, k) = given[k]
    BY <1>1, ValuedFacts DEF Get
  <1>6. SentHeaders(r) = OnConnection(p, forwarded)
    BY DEF SentHeaders
  <1> HIDE DEF named, auth, given, p, written
  <1>7. p.proxy # Nothing
    BY DEF p
  <1>8. CASE named # Nothing
    <2>1. DOMAIN p.proxy_headers = (DOMAIN given \ {Authorization}) \cup {ProxyAuthorization}
      <3>1. p.proxy_headers = Put(Drop(given, {Authorization}), ProxyAuthorization, named)
        BY <1>4, <1>8
      <3>2. DOMAIN Drop(given, {Authorization}) = DOMAIN given \ {Authorization}
        BY DropNames
      <3>3. DOMAIN p.proxy_headers = DOMAIN Drop(given, {Authorization}) \cup {ProxyAuthorization}
        BY <3>1, PutNames
      <3>4. QED
        BY <3>2, <3>3
    <2>2. forwarded = p.headers
      BY <1>3, <1>8 DEF ForwardPlainHttpProxyAuth
    <2>3. OnConnection(p, forwarded) = p.headers
      BY <2>1, <2>2, NamesDiffer DEF OnConnection
    <2>4. QED
      BY <1>2, <1>3, <1>6, <1>8, <2>3
  <1>9. CASE named = Nothing /\ auth = Nothing
    <2>1. forwarded = p.headers /\ p.proxy_headers = given
      BY <1>3, <1>4, <1>9 DEF ForwardPlainHttpProxyAuth
    <2>2. CASE Authorization \in DOMAIN given
      <3>1. OnConnection(p, forwarded) = Put(p.headers, ProxyAuthorization, given[Authorization])
        BY <1>7, <2>1, <2>2 DEF OnConnection
      <3>2. QED
        BY <1>2, <1>5, <1>6, <1>9, <2>2, <3>1, PutHere
    <2>3. CASE Authorization \notin DOMAIN given
      <3>1. OnConnection(p, forwarded) = p.headers
        BY <2>1, <2>3 DEF OnConnection
      <3>2. QED
        BY <1>2, <1>3, <1>5, <1>6, <1>9, <2>3, <3>1
    <2>4. QED
      BY <2>2, <2>3
  <1>10. CASE named = Nothing /\ auth # Nothing /\ ProxyAuthorization \in DOMAIN given
    <2>1. /\ p.proxy_headers = Drop(given, {Authorization})
          /\ DOMAIN p.proxy_headers = DOMAIN given \ {Authorization}
          /\ Get(p.proxy_headers, ProxyAuthorization) = Get(given, ProxyAuthorization)
      <3>1. p.proxy_headers = Drop(given, {Authorization})
        BY <1>4, <1>10
      <3>2. DOMAIN p.proxy_headers = DOMAIN given \ {Authorization}
        BY <3>1, DropNames
      <3>3. Get(p.proxy_headers, ProxyAuthorization) = Get(given, ProxyAuthorization)
        BY <3>1, DropElsewhere, NamesDiffer
      <3>4. QED
        BY <3>1, <3>2, <3>3
    <2>2. forwarded = Put(p.headers, ProxyAuthorization, Get(given, ProxyAuthorization))
      BY <1>3, <1>5, <1>7, <1>10, <2>1 DEF ForwardPlainHttpProxyAuth
    <2>3. OnConnection(p, forwarded) = forwarded
      BY <2>1 DEF OnConnection
    <2> HIDE DEF forwarded
    <2>4. Get(forwarded, ProxyAuthorization) = Get(given, ProxyAuthorization)
      BY <2>2, PutHere
    <2>5. QED
      BY <1>2, <1>5, <1>6, <1>10, <2>3, <2>4
  <1>11. CASE named = Nothing /\ auth # Nothing /\ ProxyAuthorization \notin DOMAIN given
    <2>1. /\ p.proxy_headers = Put(given, ProxyAuthorization, Encoded(auth))
          /\ DOMAIN p.proxy_headers = DOMAIN given \cup {ProxyAuthorization}
          /\ Get(p.proxy_headers, ProxyAuthorization) = Encoded(auth)
          /\ Get(p.proxy_headers, Authorization) = Get(given, Authorization)
      <3>1. p.proxy_headers = Put(given, ProxyAuthorization, Encoded(auth))
        BY <1>4, <1>11
      <3>2. DOMAIN p.proxy_headers = DOMAIN given \cup {ProxyAuthorization}
        BY <3>1, PutNames
      <3>3. Get(p.proxy_headers, ProxyAuthorization) = Encoded(auth)
        BY <3>1, PutHere
      <3>4. Get(p.proxy_headers, Authorization) = Get(given, Authorization)
        BY <3>1, PutElsewhere, NamesDiffer
      <3>5. QED
        BY <3>1, <3>2, <3>3, <3>4
    <2>2. forwarded = Put(p.headers, ProxyAuthorization, Encoded(auth))
      BY <1>3, <1>7, <1>11, <2>1 DEF ForwardPlainHttpProxyAuth
    <2> HIDE DEF forwarded
    <2>3. CASE Authorization \in DOMAIN given
      <3>1. p.proxy_headers[Authorization] = Get(given, Authorization)
        BY <2>1, <2>3 DEF Get
      <3>2. OnConnection(p, forwarded) =
                Put(forwarded, ProxyAuthorization, Get(given, Authorization))
        BY <1>7, <2>1, <2>3, <3>1 DEF OnConnection
      <3>3. QED
        BY <1>2, <1>5, <1>6, <1>11, <2>3, <3>2, PutHere
    <2>4. CASE Authorization \notin DOMAIN given
      <3>1. OnConnection(p, forwarded) = forwarded
        BY <2>1, <2>4, NamesDiffer DEF OnConnection
      <3>2. Get(forwarded, ProxyAuthorization) = Encoded(auth)
        BY <2>2, PutHere
      <3>3. QED
        BY <1>2, <1>5, <1>6, <1>11, <2>4, <3>1, <3>2
    <2>5. QED
      BY <2>3, <2>4
  <1>12. QED
    BY <1>8, <1>9, <1>10, <1>11

-----------------------------------------------------------------------------
(* the inductive invariant *)

Headers == {SentHeaders(r) : r \in Request} \cup {Relayed(SentHeaders(r)) : r \in Request}

Answers == {"none", "TypeError", "407", "500", "target", "ServerDisconnectedError",
            "ClientProxyConnectionError"}

TypeInv ==
    /\ kwargs \in Calls
    /\ pc \in [Request -> {"idle", "waiting", "answered", "again", "done"}]
    /\ sent \in [Request -> Nat]
    /\ answer \in [Request -> [by : Answers, attempt : Nat]]
    /\ tasks \subseteq [request : Request, attempt : Nat, repeated : BOOLEAN,
                        phase : {"reading", "sending", "sent"}, proxied : BOOLEAN,
                        headers : Headers]
    /\ history \in Seq([request : Request, attempt : Nat, headers : Headers])
    /\ DOMAIN received \subseteq [request : Request, attempt : Nat, proxied : BOOLEAN,
                                  headers : Headers]
    /\ \A x \in DOMAIN received : received[x] \in Nat \ {0}

Recorded(r, n) == \E i \in DOMAIN history : history[i].request = r /\ history[i].attempt = n
Reached(r, n) == {x \in DOMAIN received : x.request = r /\ x.attempt = n}
Authenticated(r) == ExpectedAuth # Nothing => Meant(r) = Encoded(ExpectedAuth)

\* Copies at the target that a task accounts for.
Allowed(t) == (IF t.repeated THEN 1 ELSE 0) + (IF t.phase = "sent" THEN 1 ELSE 0)

Sendable(r) == kwargs[r] # Absent /\ Passed(r) # Raises
UsesProxy(r) == Passed(r).proxy # Nothing

Made == \A r \in Request : pc[r] # "done" => kwargs[r] # Absent

TaskOK(t) ==
    /\ Sendable(t.request) /\ (t.proxied <=> UsesProxy(t.request))
    /\ t.headers = IF t.proxied /\ t.phase # "reading" THEN Relayed(SentHeaders(t.request))
                   ELSE SentHeaders(t.request)
    /\ t.attempt <= sent[t.request]
    /\ t.attempt = sent[t.request] => answer[t.request] = NoAnswer
    /\ t.repeated => t.request \in Idempotent /\ t.phase # "reading"
    /\ t.phase = "reading" => t.proxied /\ ~ Recorded(t.request, t.attempt)
    /\ t.proxied /\ t.phase # "reading" =>
           Recorded(t.request, t.attempt) /\ Authenticated(t.request)
    /\ \A x \in Reached(t.request, t.attempt) : received[x] <= Allowed(t)
    /\ t.phase = "sent" => Reached(t.request, t.attempt) # {}

TasksOK ==
    /\ \A t \in tasks : TaskOK(t)
    /\ \A t, u \in tasks : t.request = u.request /\ t.attempt = u.attempt => t = u

RecordOK(x) ==
    /\ Sendable(x.request) /\ UsesProxy(x.request)
    /\ x.headers = SentHeaders(x.request)
    /\ x.attempt <= sent[x.request]

HistoryOK ==
    /\ \A i \in DOMAIN history : RecordOK(history[i])
    /\ \A i, j \in DOMAIN history :
           history[i].request = history[j].request /\ history[i].attempt = history[j].attempt
           => i = j

ArrivalOK(x) ==
    /\ Sendable(x.request) /\ (x.proxied <=> UsesProxy(x.request))
    /\ x.headers = IF x.proxied THEN Relayed(SentHeaders(x.request)) ELSE SentHeaders(x.request)
    /\ x.attempt <= sent[x.request]
    /\ x.proxied => Recorded(x.request, x.attempt) /\ Authenticated(x.request)
    /\ received[x] <= (IF x.request \in Idempotent THEN 2 ELSE 1)

ReceivedOK == \A x \in DOMAIN received : ArrivalOK(x)

AnswerOK(r) ==
    LET n == sent[r]
    IN  /\ answer[r].by \in {"407", "500", "target"} /\ UsesProxy(r) =>
               Recorded(r, n)
        /\ answer[r].by = "407" =>
               /\ \A x \in Reached(r, n) : ~ x.proxied
               /\ Meant(r) # Encoded(ExpectedAuth)
        /\ answer[r].by = "target" => answer[r].attempt = n /\ Reached(r, n) # {}

AnswersOK == \A r \in Request : AnswerOK(r)

IInv == TypeInv /\ Made /\ TasksOK /\ HistoryOK /\ ReceivedOK /\ AnswersOK

-----------------------------------------------------------------------------
(* what the steps share *)

LEMMA Frame ==
    ASSUME kwargs' = kwargs
    PROVE  /\ \A r : /\ Passed(r)' = Passed(r)
                     /\ Meant(r)' = Meant(r)
                     /\ SentHeaders(r)' = SentHeaders(r)
           /\ \A r : /\ Sendable(r)' <=> Sendable(r)
                     /\ UsesProxy(r)' <=> UsesProxy(r)
                     /\ Authenticated(r)' <=> Authenticated(r)
           /\ Headers' = Headers
  <1>1. \A r : Passed(r)' = Passed(r) /\ Meant(r)' = Meant(r)
    BY DEF Passed, Meant
  <1>2. \A r : SentHeaders(r)' = SentHeaders(r)
    BY <1>1 DEF SentHeaders
  <1>3. Headers' = Headers
    BY <1>2 DEF Headers
  <1>4. \A r : /\ Sendable(r)' <=> Sendable(r)
               /\ UsesProxy(r)' <=> UsesProxy(r)
               /\ Authenticated(r)' <=> Authenticated(r)
    BY <1>1 DEF Sendable, UsesProxy, Authenticated
  <1>5. QED
    BY <1>1, <1>2, <1>3, <1>4

LEMMA ByFacts ==
    ASSUME NEW what \in Answers
    PROVE  By(what) \in [by : Answers, attempt : Nat] /\ By(what).by = what
  BY DEF By

LEMMA HistoryTypes ==
    ASSUME TypeInv
    PROVE  \A i \in DOMAIN history : history[i].request \in Request /\ history[i].attempt \in Nat
  <1> DEFINE S == [request : Request, attempt : Nat, headers : Headers]
  <1>1. history \in Seq(S)
    BY DEF TypeInv
  <1>2. \A x \in S : x.request \in Request /\ x.attempt \in Nat
    OBVIOUS
  <1> HIDE DEF S
  <1>3. \A i \in DOMAIN history : history[i] \in S
    BY <1>1
  <1>4. QED
    BY <1>2, <1>3

\* A step that leaves the exchanges alone.
LEMMA QuietStep ==
    ASSUME IInv, UNCHANGED <<kwargs, sent, tasks, history, received>>,
           pc' \in [Request -> {"idle", "waiting", "answered", "again", "done"}],
           \A r \in Request : pc'[r] # "done" => pc[r] # "done",
           answer' \in [Request -> [by : Answers, attempt : Nat]],
           \A r \in Request : \/ answer'[r] = answer[r]
                              \/ Passed(r) = Raises /\ answer'[r].by = "TypeError"
    PROVE  IInv'
  <1>1. TypeInv' /\ Made'
    BY Frame DEF IInv, TypeInv, Made
  <1>2. /\ \A r, n : Recorded(r, n)' <=> Recorded(r, n)
        /\ \A r, n : Reached(r, n)' = Reached(r, n)
    BY DEF Recorded, Reached
  <1>3. HistoryOK'
    BY Frame DEF IInv, HistoryOK, RecordOK
  <1>4. ReceivedOK'
    BY <1>2, Frame DEF IInv, ReceivedOK, ArrivalOK
  <1>5. TasksOK'
    <2>1. \A t \in tasks : answer'[t.request] = answer[t.request]
      BY DEF IInv, TasksOK, TaskOK, Sendable, TypeInv
    <2>2. QED
      BY <1>2, <2>1, Frame DEF IInv, TasksOK, TaskOK, Allowed
  <1>6. AnswersOK'
    BY <1>2, Frame DEF IInv, AnswersOK, AnswerOK
  <1>7. QED
    BY <1>1, <1>3, <1>4, <1>5, <1>6 DEF IInv

\* The start of an attempt, which may reach the proxy or not.
LEMMA AttemptStep ==
    ASSUME IInv, NEW r \in Request, Send(r) \/ FailToConnect(r)
    PROVE  IInv'
  <1> PICK n : n = sent[r] + 1
    OBVIOUS
  <1> PICK p \in BOOLEAN : p <=> Passed(r).proxy # Nothing
    OBVIOUS
  <1> PICK new : new = [request |-> r, attempt |-> n, repeated |-> FALSE,
                        phase |-> IF p THEN "reading" ELSE "sending",
                        proxied |-> p, headers |-> SentHeaders(r)]
    OBVIOUS
  <1>1. /\ UNCHANGED <<kwargs, history, received>>
        /\ sent' = [sent EXCEPT ![r] = n]
        /\ pc[r] # "done" /\ Passed(r) # Raises
        /\ \A q \in Request : pc'[q] # "done" => pc[q] # "done"
        /\ pc' \in [Request -> {"idle", "waiting", "answered", "again", "done"}]
    BY DEF Send, FailToConnect, IInv, TypeInv
  <1>2. /\ tasks' = tasks \/ (tasks' = tasks \cup {new} /\ answer'[r] = NoAnswer)
        /\ answer' \in [Request -> [by : Answers, attempt : Nat]]
        /\ answer'[r].by \notin {"407", "500", "target"}
        /\ \A q \in Request : q # r => answer'[q] = answer[q]
    <2>1. \/ tasks' = tasks \cup {new} /\ answer' = [answer EXCEPT ![r] = NoAnswer]
          \/ tasks' = tasks /\ answer' = [answer EXCEPT ![r] = By("ClientProxyConnectionError")]
      BY DEF Send, FailToConnect
    <2>2. /\ NoAnswer \in [by : Answers, attempt : Nat]
          /\ By("ClientProxyConnectionError") \in [by : Answers, attempt : Nat]
          /\ NoAnswer.by \notin {"407", "500", "target"}
          /\ By("ClientProxyConnectionError").by \notin {"407", "500", "target"}
      <3>1. "none" \in Answers /\ "ClientProxyConnectionError" \in Answers
        BY DEF Answers
      <3>2. NoAnswer \in [by : Answers, attempt : Nat] /\ NoAnswer.by = "none"
        BY <3>1, ByFacts DEF NoAnswer
      <3>3. /\ By("ClientProxyConnectionError") \in [by : Answers, attempt : Nat]
            /\ By("ClientProxyConnectionError").by = "ClientProxyConnectionError"
        BY <3>1, ByFacts
      <3>4. QED
        BY <3>2, <3>3
    <2>3. answer \in [Request -> [by : Answers, attempt : Nat]]
      BY DEF IInv, TypeInv
    <2>4. QED
      BY <2>1, <2>2, <2>3
  <1>3. /\ n \in Nat /\ kwargs[r] # Absent
        /\ sent' \in [Request -> Nat] /\ \A q \in Request : sent[q] <= sent'[q]
        /\ sent'[r] = n /\ \A q \in Request : q # r => sent'[q] = sent[q]
    BY <1>1 DEF IInv, TypeInv, Made
  <1>4. /\ new \in [request : Request, attempt : Nat, repeated : BOOLEAN,
                    phase : {"reading", "sending", "sent"}, proxied : BOOLEAN, headers : Headers]
        /\ Sendable(r) /\ (p <=> UsesProxy(r))
    <2>1. SentHeaders(r) \in Headers
      BY DEF Headers
    <2>2. Sendable(r) /\ (p <=> UsesProxy(r))
      BY <1>1, <1>3 DEF Sendable, UsesProxy
    <2>3. QED
      BY <1>3, <2>1, <2>2
  <1>5. TypeInv' /\ Made'
    BY <1>1, <1>2, <1>3, <1>4, Frame DEF IInv, TypeInv, Made
  <1>6. /\ \A q, m : Recorded(q, m)' <=> Recorded(q, m)
        /\ \A q, m : Reached(q, m)' = Reached(q, m)
    BY <1>1 DEF Recorded, Reached
  <1> \A i \in DOMAIN history : history[i].request \in Request /\ history[i].attempt \in Nat
    BY HistoryTypes DEF IInv
  <1>7. ~ Recorded(r, n) /\ Reached(r, n) = {}
    <2>1. ASSUME NEW i \in DOMAIN history, history[i].request = r
          PROVE  history[i].attempt # n
      BY <1>3, <2>1 DEF IInv, TypeInv, HistoryOK, RecordOK
    <2>2. ASSUME NEW x \in DOMAIN received, x.request = r
          PROVE  x.attempt # n
      BY <1>3, <2>2 DEF IInv, TypeInv, ReceivedOK, ArrivalOK
    <2>3. QED
      BY <2>1, <2>2 DEF Recorded, Reached
  <1>8. HistoryOK'
    BY <1>1, <1>3, Frame DEF IInv, TypeInv, HistoryOK, RecordOK
  <1>9. ReceivedOK'
    BY <1>1, <1>3, <1>6, Frame DEF IInv, TypeInv, ReceivedOK, ArrivalOK
  <1>10. AnswersOK'
    BY <1>1, <1>2, <1>3, <1>6, Frame DEF IInv, AnswersOK, AnswerOK
  <1>11. \A t \in tasks : TaskOK(t)'
    BY <1>1, <1>2, <1>3, <1>6, Frame DEF IInv, TypeInv, TasksOK, TaskOK, Allowed
  <1>12. ASSUME answer'[r] = NoAnswer, NEW t, t = new
         PROVE  TaskOK(t)'
    <2>1. /\ t.request = r /\ t.attempt = n /\ t.repeated = FALSE /\ t.proxied = p
          /\ t.phase = (IF p THEN "reading" ELSE "sending")
          /\ t.headers = SentHeaders(r)
      BY <1>12
    <2>2. Sendable(r)' /\ (p <=> UsesProxy(r)') /\ SentHeaders(r)' = SentHeaders(r)
      BY <1>1, <1>4, Frame
    <2>3. ~ Recorded(r, n)' /\ Reached(r, n)' = {}
      BY <1>1, <1>6, <1>7
    <2>4. CASE p
      BY <1>3, <1>12, <2>1, <2>2, <2>3, <2>4 DEF TaskOK
    <2>5. CASE ~ p
      BY <1>3, <1>12, <2>1, <2>2, <2>3, <2>5 DEF TaskOK
    <2>6. QED
      BY <2>4, <2>5
  <1>13. \A t \in tasks : ~ (t.request = r /\ t.attempt = n)
    BY <1>3 DEF IInv, TypeInv, TasksOK, TaskOK
  <1>14. TasksOK'
    <2>1. new.request = r /\ new.attempt = n
      OBVIOUS
    <2>2. \A t \in tasks' : TaskOK(t)'
      BY <1>2, <1>11, <1>12
    <2>3. \A t, u \in tasks' : t.request = u.request /\ t.attempt = u.attempt => t = u
      BY <1>2, <1>13, <2>1 DEF IInv, TasksOK
    <2>4. QED
      BY <2>2, <2>3 DEF TasksOK
  <1>15. QED
    BY <1>5, <1>8, <1>9, <1>10, <1>14 DEF IInv

\* What a task may do to the history: record its own exchange.
RecordsAtMost(t) ==
    /\ history' \in Seq([request : Request, attempt : Nat, headers : Headers])
    /\ HistoryOK'
    /\ \A r, n : Recorded(r, n) => Recorded(r, n)'
    /\ \A r, n : Recorded(r, n)' => Recorded(r, n) \/ (r = t.request /\ n = t.attempt)

LEMMA HistoryKept ==
    ASSUME IInv, UNCHANGED <<kwargs, sent, history>>, NEW t
    PROVE  RecordsAtMost(t)
  <1>1. HistoryOK'
    BY Frame DEF IInv, HistoryOK, RecordOK
  <1>2. history' \in Seq([request : Request, attempt : Nat, headers : Headers])
    BY DEF IInv, TypeInv
  <1>3. \A r, n : Recorded(r, n)' <=> Recorded(r, n)
    BY DEF Recorded
  <1>4. QED
    BY <1>1, <1>2, <1>3 DEF RecordsAtMost

LEMMA HistoryAppended ==
    ASSUME IInv, UNCHANGED <<kwargs, sent>>, NEW t \in tasks, t.phase = "reading",
           history' = Append(history, [request |-> t.request, attempt |-> t.attempt,
                                       headers |-> t.headers])
    PROVE  RecordsAtMost(t) /\ Recorded(t.request, t.attempt)'
  <1> PICK x : x = [request |-> t.request, attempt |-> t.attempt, headers |-> t.headers]
    OBVIOUS
  <1> DEFINE S == [request : Request, attempt : Nat, headers : Headers]
  <1>1. /\ x \in S
        /\ x.request = t.request /\ x.attempt = t.attempt /\ x.headers = t.headers
        /\ history \in Seq(S)
    BY DEF IInv, TypeInv
  <1>2. history' = Append(history, x)
    OBVIOUS
  <1> HIDE DEF S
  <1>3. /\ history' \in Seq(S) /\ Len(history) \in Nat
        /\ DOMAIN history = 1..Len(history) /\ DOMAIN history' = 1..Len(history) + 1
        /\ history'[Len(history) + 1] = x
        /\ \A i \in DOMAIN history : history'[i] = history[i]
    BY <1>1, <1>2
  <1>4. /\ \A r, n : Recorded(r, n) => Recorded(r, n)'
        /\ \A r, n : Recorded(r, n)' => Recorded(r, n) \/ (r = t.request /\ n = t.attempt)
        /\ Recorded(t.request, t.attempt)'
    BY <1>1, <1>3 DEF Recorded
  <1>5. RecordOK(x) /\ ~ Recorded(t.request, t.attempt)
    BY <1>1 DEF IInv, TasksOK, TaskOK, RecordOK
  <1>6. \A y : RecordOK(y)' <=> RecordOK(y)
    BY Frame DEF RecordOK
  <1>7. \A i \in DOMAIN history' : RecordOK(history'[i])
    BY <1>3, <1>5 DEF IInv, HistoryOK
  <1>8. \A i \in DOMAIN history' : RecordOK(history[i])'
    BY <1>6, <1>7
  <1>9. \A i, j \in DOMAIN history' :
            history'[i].request = history'[j].request /\ history'[i].attempt = history'[j].attempt
            => i = j
    BY <1>1, <1>3, <1>5 DEF IInv, HistoryOK, Recorded
  <1>10. HistoryOK'
    BY <1>8, <1>9 DEF HistoryOK
  <1>11. QED
    BY <1>3, <1>4, <1>10 DEF RecordsAtMost, S

\* A task that ends with an answer, which its client may have given up.
LEMMA ReplyStep ==
    ASSUME IInv, UNCHANGED <<kwargs, sent, received>>, NEW t \in tasks,
           NEW a \in [by : Answers, attempt : Nat], Reply(t, a), RecordsAtMost(t),
           a.by \in {"407", "500", "target"} /\ t.proxied => Recorded(t.request, t.attempt)',
           a.by = "407" => t.phase = "reading" /\ Meant(t.request) # Encoded(ExpectedAuth),
           a.by = "target" => a.attempt = t.attempt /\ t.phase = "sent"
    PROVE  IInv'
  <1> PICK r \in Request, n \in Nat : r = t.request /\ n = t.attempt
    BY DEF IInv, TypeInv
  <1>1. /\ tasks' = tasks \ {t}
        /\ \A q \in Request : q # r => answer'[q] = answer[q] /\ pc'[q] = pc[q]
        /\ answer'[r] = answer[r] \/ (answer'[r] = a /\ sent[r] = n)
        /\ pc'[r] = pc[r] \/ (pc[r] = "waiting" /\ pc'[r] = "answered")
        /\ pc' \in [Request -> {"idle", "waiting", "answered", "again", "done"}]
        /\ answer' \in [Request -> [by : Answers, attempt : Nat]]
    <2>1. CASE Waits(t)
      <3>1. /\ tasks' = tasks \ {t}
            /\ answer' = [answer EXCEPT ![r] = a] /\ pc' = [pc EXCEPT ![r] = "answered"]
            /\ pc[r] = "waiting" /\ sent[r] = n
        BY <2>1 DEF Reply, Waits
      <3>2. /\ answer \in [Request -> [by : Answers, attempt : Nat]]
            /\ pc \in [Request -> {"idle", "waiting", "answered", "again", "done"}]
        BY DEF IInv, TypeInv
      <3>3. QED
        BY <3>1, <3>2
    <2>2. CASE ~ Waits(t)
      BY <2>2 DEF Reply, IInv, TypeInv
    <2>3. QED
      BY <2>1, <2>2
  <1>2. TaskOK(t) /\ \A u \in tasks : TaskOK(u)
    BY DEF IInv, TasksOK
  <1>3. TypeInv' /\ Made'
    BY <1>1, Frame DEF IInv, TypeInv, Made, RecordsAtMost
  <1>4. \A q, m : Reached(q, m)' = Reached(q, m)
    BY DEF Reached
  <1>5. ReceivedOK'
    BY Frame DEF IInv, ReceivedOK, ArrivalOK, RecordsAtMost
  <1>6. TasksOK'
    <2>1. \A u \in tasks' : u \in tasks /\ ~ (u.request = r /\ u.attempt = n)
      BY <1>1 DEF IInv, TasksOK
    <2>2. \A u \in tasks' : TaskOK(u)'
      <3> SUFFICES ASSUME NEW u \in tasks' PROVE TaskOK(u)'
        OBVIOUS
      <3>1. u \in tasks /\ TaskOK(u) /\ ~ (u.request = r /\ u.attempt = n)
        BY <1>2, <2>1
      <3>2. Recorded(u.request, u.attempt)' <=> Recorded(u.request, u.attempt)
        BY <3>1 DEF RecordsAtMost
      <3>3. u.attempt = sent[u.request] => answer'[u.request] = answer[u.request]
        BY <1>1, <3>1 DEF IInv, TypeInv
      <3>4. QED
        BY <1>4, <3>1, <3>2, <3>3, Frame DEF TaskOK, Allowed
    <2>3. QED
      BY <2>1, <2>2 DEF IInv, TasksOK
  <1>7. AnswersOK'
    <2> SUFFICES ASSUME NEW q \in Request PROVE AnswerOK(q)'
      BY DEF AnswersOK
    <2>1. CASE answer'[q] = answer[q]
      BY <1>4, <2>1, Frame DEF IInv, AnswersOK, AnswerOK, RecordsAtMost
    <2>2. CASE q = r /\ answer'[r] = a /\ sent[r] = n
      <3>1. t.phase = "reading" => Reached(r, n) = {}
        BY <1>2 DEF TaskOK, Allowed, Reached, IInv, TypeInv
      <3>2. t.phase = "sent" => Reached(r, n) # {}
        BY <1>2 DEF TaskOK
      <3>3. UsesProxy(r) => t.proxied
        BY <1>2 DEF TaskOK
      <3>4. QED
        BY <1>4, <2>2, <3>1, <3>2, <3>3, Frame DEF AnswerOK
    <2>3. QED
      BY <1>1, <2>1, <2>2
  <1>8. QED
    BY <1>3, <1>5, <1>6, <1>7 DEF IInv, RecordsAtMost

\* A task that goes on, perhaps with its request received by the target.
LEMMA BecomesStep ==
    ASSUME IInv, UNCHANGED <<kwargs, pc, sent, answer>>, NEW t \in tasks,
           NEW u \in [request : Request, attempt : Nat, repeated : BOOLEAN,
                      phase : {"reading", "sending", "sent"}, proxied : BOOLEAN,
                      headers : Headers],
           u.request = t.request, u.attempt = t.attempt,
           Becomes(t, u), RecordsAtMost(t), TaskOK(u)',
           DOMAIN received' \subseteq [request : Request, attempt : Nat, proxied : BOOLEAN,
                                       headers : Headers],
           DOMAIN received \subseteq DOMAIN received',
           \A x \in DOMAIN received' : received'[x] \in Nat \ {0},
           \A x \in DOMAIN received' : ~ (x.request = t.request /\ x.attempt = t.attempt) =>
               x \in DOMAIN received /\ received'[x] = received[x],
           \A x \in DOMAIN received' : x.request = t.request /\ x.attempt = t.attempt =>
               ArrivalOK(x)'
    PROVE  IInv'
  <1>1. TypeInv' /\ Made'
    BY Frame DEF IInv, TypeInv, Made, RecordsAtMost, Becomes
  <1>2. ASSUME NEW r, NEW n, ~ (r = t.request /\ n = t.attempt)
        PROVE  /\ Reached(r, n)' = Reached(r, n)
               /\ \A x \in Reached(r, n) : received'[x] = received[x]
               /\ Recorded(r, n)' <=> Recorded(r, n)
    BY <1>2 DEF Reached, RecordsAtMost
  <1>3. TasksOK'
    <2>1. \A v \in tasks' : v = u \/
              (v \in tasks /\ TaskOK(v) /\ ~ (v.request = t.request /\ v.attempt = t.attempt))
      BY DEF Becomes, IInv, TasksOK
    <2>2. \A v \in tasks' : TaskOK(v)'
      <3> SUFFICES ASSUME NEW v \in tasks', v # u PROVE TaskOK(v)'
        OBVIOUS
      <3>1. TaskOK(v) /\ ~ (v.request = t.request /\ v.attempt = t.attempt)
        BY <2>1
      <3>2. /\ Reached(v.request, v.attempt)' = Reached(v.request, v.attempt)
            /\ \A x \in Reached(v.request, v.attempt) : received'[x] = received[x]
            /\ Recorded(v.request, v.attempt)' <=> Recorded(v.request, v.attempt)
        BY <1>2, <3>1
      <3>3. QED
        BY <3>1, <3>2, Frame DEF TaskOK, Allowed
    <2>3. QED
      BY <2>1, <2>2 DEF IInv, TasksOK
  <1>4. ReceivedOK'
    <2> SUFFICES ASSUME NEW x \in DOMAIN received',
                        ~ (x.request = t.request /\ x.attempt = t.attempt)
                 PROVE  ArrivalOK(x)'
      BY DEF ReceivedOK
    <2>1. ArrivalOK(x) /\ received'[x] = received[x]
      BY DEF IInv, ReceivedOK
    <2>2. QED
      BY <2>1, Frame DEF ArrivalOK, RecordsAtMost
  <1>5. AnswersOK'
    <2> SUFFICES ASSUME NEW r \in Request PROVE AnswerOK(r)'
      BY DEF AnswersOK
    <2>1. CASE r = t.request /\ sent[r] = t.attempt
      <3>1. answer[r].by = "none"
        BY <2>1 DEF IInv, TasksOK, TaskOK, NoAnswer, By
      <3>2. QED
        BY <3>1 DEF AnswerOK
    <2>2. CASE ~ (r = t.request /\ sent[r] = t.attempt)
      <3>1. AnswerOK(r)
        BY DEF IInv, AnswersOK
      <3>2. QED
        BY <1>2, <2>2, <3>1, Frame DEF AnswerOK
    <2>3. QED
      BY <2>1, <2>2
  <1>6. QED
    BY <1>1, <1>3, <1>4, <1>5 DEF IInv, RecordsAtMost

-----------------------------------------------------------------------------
(* the steps *)

LEMMA HandleStep ==
    ASSUME IInv, NEW t \in tasks, Handle(t)
    PROVE  IInv'
  <1> DEFINE u == [t EXCEPT !.phase = "sending", !.headers = Relayed(@)]
  <1>1. /\ t.phase = "reading" /\ UNCHANGED <<kwargs, sent, received>>
        /\ RecordsAtMost(t) /\ Recorded(t.request, t.attempt)'
    BY HistoryAppended DEF Handle
  <1>2. /\ TaskOK(t) /\ t.proxied /\ ~ t.repeated /\ t.headers = SentHeaders(t.request)
        /\ Sendable(t.request) /\ UsesProxy(t.request)
    BY <1>1 DEF IInv, TasksOK, TaskOK
  <1>3. Get(t.headers, ProxyAuthorization) = Meant(t.request)
    BY <1>2, MeantAreSent DEF IInv, TypeInv, Sendable, UsesProxy
  <1>4. CASE ExpectedAuth # Nothing /\ Get(t.headers, ProxyAuthorization) # Encoded(ExpectedAuth)
    <2>1. Reply(t, By("407"))
      BY <1>4 DEF Handle
    <2>2. By("407") \in [by : Answers, attempt : Nat] /\ By("407").by = "407"
      BY ByFacts DEF Answers
    <2>3. QED
      BY <1>1, <1>3, <1>4, <2>1, <2>2, ReplyStep
  <1>5. CASE ~ (ExpectedAuth # Nothing /\ Get(t.headers, ProxyAuthorization) # Encoded(ExpectedAuth))
    <2>1. Becomes(t, u) /\ UNCHANGED <<pc, answer>>
      BY <1>5 DEF Handle
    <2>2. Authenticated(t.request)
      BY <1>3, <1>5 DEF Authenticated
    <2>3. Relayed(t.headers) \in Headers
      BY <1>2 DEF IInv, TypeInv, Headers
    <2>4. /\ u \in [request : Request, attempt : Nat, repeated : BOOLEAN,
                    phase : {"reading", "sending", "sent"}, proxied : BOOLEAN, headers : Headers]
          /\ u.request = t.request /\ u.attempt = t.attempt /\ u.proxied = t.proxied
          /\ u.repeated = t.repeated /\ u.phase = "sending" /\ u.headers = Relayed(t.headers)
      BY <2>3 DEF IInv, TypeInv
    <2>5. Reached(t.request, t.attempt) = {}
      BY <1>1, <1>2 DEF TaskOK, Allowed, Reached, IInv, TypeInv
    <2>6. Reached(t.request, t.attempt)' = {}
      BY <1>1, <2>5 DEF Reached
    <2> PICK v : v = u
      OBVIOUS
    <2>7. TaskOK(v)'
      <3>1. /\ Recorded(v.request, v.attempt)' /\ Reached(v.request, v.attempt)' = {}
            /\ v.attempt <= sent[v.request]
            /\ v.attempt = sent[v.request] => answer[v.request] = NoAnswer
        BY <1>1, <1>2, <2>4, <2>6 DEF TaskOK
      <3>2. QED
        BY <1>1, <1>2, <2>1, <2>2, <2>4, <3>1, Frame DEF TaskOK
    <2>8. QED
      <3>1. /\ DOMAIN received' = DOMAIN received
            /\ \A x \in DOMAIN received : received'[x] = received[x]
            /\ \A x \in DOMAIN received : ~ (x.request = t.request /\ x.attempt = t.attempt)
            /\ DOMAIN received \subseteq [request : Request, attempt : Nat, proxied : BOOLEAN,
                                          headers : Headers]
            /\ \A x \in DOMAIN received : received[x] \in Nat \ {0}
        BY <1>1, <2>5 DEF Reached, IInv, TypeInv
      <3>2. Becomes(t, v)
        BY <2>1
      <3> HIDE DEF u
      <3>3. QED
        BY <1>1, <2>1, <2>4, <2>7, <3>1, <3>2, BecomesStep
  <1>6. QED
    BY <1>4, <1>5

LEMMA ReachStep ==
    ASSUME IInv, NEW t \in tasks, Reach(t)
    PROVE  IInv'
  <1> PICK x : x = [request |-> t.request, attempt |-> t.attempt,
                    proxied |-> t.proxied, headers |-> t.headers]
    OBVIOUS
  <1> PICK u : u = [t EXCEPT !.phase = "sent"]
    OBVIOUS
  <1>1. /\ UNCHANGED <<kwargs, pc, sent, answer, history>> /\ t.phase = "sending"
        /\ Becomes(t, u) /\ RecordsAtMost(t)
        /\ received' = received (+) SetToBag({x})
    BY HistoryKept DEF Reach
  <1>2. /\ t \in [request : Request, attempt : Nat, repeated : BOOLEAN,
                  phase : {"reading", "sending", "sent"}, proxied : BOOLEAN, headers : Headers]
        /\ TaskOK(t)
    BY DEF IInv, TypeInv, TasksOK
  <1>3. /\ u \in [request : Request, attempt : Nat, repeated : BOOLEAN,
                  phase : {"reading", "sending", "sent"}, proxied : BOOLEAN, headers : Headers]
        /\ u.request = t.request /\ u.attempt = t.attempt /\ u.proxied = t.proxied
        /\ u.repeated = t.repeated /\ u.phase = "sent" /\ u.headers = t.headers
    BY <1>2
  <1>4. /\ x \in [request : Request, attempt : Nat, proxied : BOOLEAN, headers : Headers]
        /\ x.request = t.request /\ x.attempt = t.attempt /\ x.proxied = t.proxied
        /\ x.headers = t.headers
    BY <1>2
  <1>5. /\ DOMAIN received' = DOMAIN received \cup {x}
        /\ \A y \in DOMAIN received : y # x => received'[y] = received[y]
        /\ received'[x] = (IF x \in DOMAIN received THEN received[x] ELSE 0) + 1
    <2> DEFINE one == SetToBag({x})
    <2>1. DOMAIN one = {x} /\ one[x] = 1
      BY DEF SetToBag
    <2> HIDE DEF one
    <2>2. received' = [y \in DOMAIN received \cup DOMAIN one |->
                           (IF y \in DOMAIN received THEN received[y] ELSE 0)
                           + (IF y \in DOMAIN one THEN one[y] ELSE 0)]
      BY <1>1 DEF (+), one
    <2>3. \A y \in DOMAIN received : received[y] \in Nat
      BY DEF IInv, TypeInv
    <2>4. QED
      BY <2>1, <2>2, <2>3
  <1>6. /\ DOMAIN received \subseteq [request : Request, attempt : Nat, proxied : BOOLEAN,
                                      headers : Headers]
        /\ \A y \in DOMAIN received : received[y] \in Nat \ {0}
        /\ \A y \in DOMAIN received : ArrivalOK(y)
    BY DEF IInv, TypeInv, ReceivedOK
  <1>7. /\ DOMAIN received' \subseteq [request : Request, attempt : Nat, proxied : BOOLEAN,
                                       headers : Headers]
        /\ \A y \in DOMAIN received' : received'[y] \in Nat \ {0}
    BY <1>4, <1>5, <1>6
  <1>8. ASSUME NEW y \in DOMAIN received', y.request = t.request, y.attempt = t.attempt
        PROVE  y = x
    <2>1. CASE y \in DOMAIN received
      <3>1. /\ y \in [request : Request, attempt : Nat, proxied : BOOLEAN, headers : Headers]
            /\ ArrivalOK(y)
        BY <1>6, <2>1
      <3>2. y.proxied = t.proxied
        BY <1>2, <1>8, <3>1 DEF ArrivalOK, TaskOK
      <3>3. y.headers = t.headers
        BY <1>1, <1>2, <1>8, <3>1, <3>2 DEF ArrivalOK, TaskOK
      <3>4. QED
        BY <1>4, <1>8, <3>1, <3>2, <3>3
    <2>2. QED
      BY <1>5, <2>1
  <1>9. Reached(t.request, t.attempt)' = {x}
    BY <1>4, <1>5, <1>8 DEF Reached
  <1>10. /\ received'[x] <= (IF t.repeated THEN 2 ELSE 1)
         /\ t.repeated => t.request \in Idempotent
    <2>1. x \in DOMAIN received => received[x] <= (IF t.repeated THEN 1 ELSE 0)
      BY <1>1, <1>2, <1>4 DEF TaskOK, Allowed, Reached
    <2>2. QED
      BY <1>2, <1>5, <1>6, <2>1 DEF TaskOK
  <1>11. ArrivalOK(x)'
    <2>1. received'[x] <= (IF x.request \in Idempotent THEN 2 ELSE 1)
      BY <1>4, <1>5, <1>7, <1>10
    <2>2. x.proxied => Recorded(x.request, x.attempt)' /\ Authenticated(x.request)
      BY <1>1, <1>2, <1>4 DEF TaskOK, RecordsAtMost
    <2>3. /\ Sendable(x.request) /\ (x.proxied <=> UsesProxy(x.request))
          /\ x.headers = IF x.proxied THEN Relayed(SentHeaders(x.request)) ELSE SentHeaders(x.request)
          /\ x.attempt <= sent[x.request]
      BY <1>1, <1>2, <1>4 DEF TaskOK
    <2>4. QED
      BY <1>1, <2>1, <2>2, <2>3, Frame DEF ArrivalOK
  <1>12. TaskOK(u)'
    <2>1. \A y \in Reached(u.request, u.attempt)' : received'[y] <= Allowed(u)
      BY <1>3, <1>5, <1>7, <1>9, <1>10 DEF Allowed
    <2>2. u.proxied => Recorded(u.request, u.attempt)' /\ Authenticated(u.request)
      BY <1>1, <1>2, <1>3 DEF TaskOK, RecordsAtMost
    <2>3. /\ Sendable(u.request) /\ (u.proxied <=> UsesProxy(u.request))
          /\ u.headers = IF u.proxied THEN Relayed(SentHeaders(u.request)) ELSE SentHeaders(u.request)
          /\ u.attempt <= sent[u.request]
          /\ u.attempt = sent[u.request] => answer[u.request] = NoAnswer
          /\ u.repeated => u.request \in Idempotent
      BY <1>1, <1>2, <1>3 DEF TaskOK
    <2>4. Allowed(u)' = Allowed(u) /\ Reached(u.request, u.attempt)' # {}
      BY <1>3, <1>9 DEF Allowed
    <2>5. QED
      BY <1>1, <1>3, <2>1, <2>2, <2>3, <2>4, Frame DEF TaskOK
  <1>13. QED
    BY <1>1, <1>3, <1>4, <1>5, <1>7, <1>8, <1>11, <1>12, BecomesStep

LEMMA DisconnectStep ==
    ASSUME IInv, NEW t \in tasks, Disconnect(t)
    PROVE  IInv'
  <1>1. /\ UNCHANGED <<kwargs, sent, history, received>> /\ t.phase \in {"sending", "sent"}
        /\ TaskOK(t) /\ RecordsAtMost(t)
        /\ t \in [request : Request, attempt : Nat, repeated : BOOLEAN,
                  phase : {"reading", "sending", "sent"}, proxied : BOOLEAN, headers : Headers]
    BY HistoryKept DEF Disconnect, IInv, TypeInv, TasksOK
  <1>2. CASE t.proxied /\ t.request \in Idempotent /\ ~ t.repeated
    <2> PICK u : u = [t EXCEPT !.phase = "sending", !.repeated = TRUE]
      OBVIOUS
    <2>1. Becomes(t, u) /\ UNCHANGED <<pc, answer>>
      BY <1>2 DEF Disconnect
    <2>2. /\ u \in [request : Request, attempt : Nat, repeated : BOOLEAN,
                    phase : {"reading", "sending", "sent"}, proxied : BOOLEAN, headers : Headers]
          /\ u.request = t.request /\ u.attempt = t.attempt /\ u.proxied = t.proxied
          /\ u.repeated = TRUE /\ u.phase = "sending" /\ u.headers = t.headers
      BY <1>1
    <2>3. /\ DOMAIN received \subseteq [request : Request, attempt : Nat, proxied : BOOLEAN,
                                        headers : Headers]
          /\ \A y \in DOMAIN received : received[y] \in Nat \ {0}
          /\ \A y \in DOMAIN received : ArrivalOK(y)
      BY DEF IInv, TypeInv, ReceivedOK
    <2>4. TaskOK(u)'
      <3>1. Reached(t.request, t.attempt)' = Reached(t.request, t.attempt)
        BY <1>1 DEF Reached
      <3>2. \A y \in Reached(t.request, t.attempt) : received[y] <= 1
        BY <1>1, <1>2, <2>3 DEF TaskOK, Allowed, Reached
      <3>3. Recorded(t.request, t.attempt)'
        BY <1>1, <1>2 DEF TaskOK, RecordsAtMost
      <3>4. Allowed(u) = 1 /\ Allowed(u)' = Allowed(u)
        BY <2>2 DEF Allowed
      <3>5. QED
        BY <1>1, <1>2, <2>1, <2>2, <3>1, <3>2, <3>3, <3>4, Frame DEF TaskOK
    <2>5. \A y : y \in DOMAIN received => ArrivalOK(y)'
      BY <1>1, <2>3, Frame DEF ArrivalOK, RecordsAtMost
    <2>6. QED
      BY <1>1, <2>1, <2>2, <2>3, <2>4, <2>5, BecomesStep
  <1>3. CASE ~ (t.proxied /\ t.request \in Idempotent /\ ~ t.repeated)
    <2>1. Reply(t, By("500")) \/ Reply(t, By("ServerDisconnectedError"))
      BY <1>3 DEF Disconnect
    <2>2. /\ By("500") \in [by : Answers, attempt : Nat] /\ By("500").by = "500"
          /\ By("ServerDisconnectedError") \in [by : Answers, attempt : Nat]
          /\ By("ServerDisconnectedError").by = "ServerDisconnectedError"
      BY ByFacts DEF Answers
    <2>3. t.proxied => Recorded(t.request, t.attempt)'
      BY <1>1 DEF TaskOK, RecordsAtMost
    <2>4. QED
      BY <1>1, <2>1, <2>2, <2>3, ReplyStep
  <1>4. QED
    BY <1>2, <1>3

LEMMA EndSteps ==
    ASSUME IInv, NEW t \in tasks, LoseBody(t) \/ Relay(t) \/ CancelTask(t)
    PROVE  IInv'
  <1>1. UNCHANGED <<kwargs, sent, history, received>> /\ TaskOK(t) /\ RecordsAtMost(t)
    BY HistoryKept DEF LoseBody, Relay, CancelTask, IInv, TasksOK
  <1>2. CASE LoseBody(t)
    <2>1. Reply(t, NoAnswer)
      BY <1>2 DEF LoseBody, Reply
    <2>2. NoAnswer \in [by : Answers, attempt : Nat] /\ NoAnswer.by = "none"
      BY ByFacts DEF Answers, NoAnswer
    <2>3. QED
      BY <1>1, <2>1, <2>2, ReplyStep
  <1>3. CASE Relay(t)
    <2>1. Reply(t, Target(t.attempt)) /\ t.phase = "sent"
      BY <1>3 DEF Relay
    <2>2. /\ Target(t.attempt) \in [by : Answers, attempt : Nat]
          /\ Target(t.attempt).by = "target" /\ Target(t.attempt).attempt = t.attempt
      BY DEF Answers, Target, IInv, TypeInv
    <2>3. t.proxied => Recorded(t.request, t.attempt)'
      BY <1>1, <2>1 DEF TaskOK, RecordsAtMost
    <2>4. QED
      BY <1>1, <2>1, <2>2, <2>3, ReplyStep
  <1>4. CASE CancelTask(t)
    <2>1. Reply(t, By("ServerDisconnectedError"))
      BY <1>4 DEF CancelTask
    <2>2. /\ By("ServerDisconnectedError") \in [by : Answers, attempt : Nat]
          /\ By("ServerDisconnectedError").by = "ServerDisconnectedError"
      BY ByFacts DEF Answers
    <2>3. QED
      BY <1>1, <2>1, <2>2, ReplyStep
  <1>5. QED
    BY <1>2, <1>3, <1>4

LEMMA RefuseStep ==
    ASSUME IInv, NEW r \in Request, Refuse(r)
    PROVE  IInv'
  <1>1. By("TypeError") \in [by : Answers, attempt : Nat] /\ By("TypeError").by = "TypeError"
    BY ByFacts DEF Answers
  <1>2. /\ pc' = [pc EXCEPT ![r] = "done"] /\ answer' = [answer EXCEPT ![r] = By("TypeError")]
        /\ Passed(r) = Raises /\ UNCHANGED <<kwargs, sent, tasks, history, received>>
    BY DEF Refuse
  <1>3. /\ pc \in [Request -> {"idle", "waiting", "answered", "again", "done"}]
        /\ answer \in [Request -> [by : Answers, attempt : Nat]]
    BY DEF IInv, TypeInv
  <1>4. QED
    BY <1>1, <1>2, <1>3, QuietStep

-----------------------------------------------------------------------------
(* the invariant holds *)

LEMMA InitIInv == Init => IInv
  <1> SUFFICES ASSUME Init PROVE IInv
    OBVIOUS
  <1>1. DOMAIN received = {} /\ DOMAIN history = {} /\ tasks = {}
    BY DEF Init, EmptyBag, SetToBag
  <1>2. NoAnswer \in [by : Answers, attempt : Nat] /\ NoAnswer.by = "none"
    BY ByFacts DEF Answers, NoAnswer
  <1>3. TypeInv /\ Made
    BY <1>1, <1>2 DEF Init, TypeInv, Made
  <1>4. TasksOK /\ HistoryOK /\ ReceivedOK
    BY <1>1 DEF TasksOK, HistoryOK, ReceivedOK
  <1>5. AnswersOK
    BY <1>2 DEF Init, AnswersOK, AnswerOK
  <1>6. QED
    BY <1>3, <1>4, <1>5 DEF IInv

LEMMA NextIInv == IInv /\ [Next]_vars => IInv'
  <1> SUFFICES ASSUME IInv, [Next]_vars PROVE IInv'
    OBVIOUS
  <1>1. CASE CloseServer \/ CloseSession \/ UNCHANGED vars
    BY <1>1, QuietStep DEF CloseServer, CloseSession, vars, IInv, TypeInv
  <1>2. ASSUME NEW r \in Request, Decide(r) PROVE IInv'
    <2>1. /\ UNCHANGED <<kwargs, sent, answer, tasks, history, received>>
          /\ pc' = [pc EXCEPT ![r] = "done"] \/ pc' = [pc EXCEPT ![r] = "again"]
          /\ pc[r] # "done"
      BY <1>2 DEF Decide
    <2>2. QED
      BY <2>1, QuietStep DEF IInv, TypeInv
  <1>3. QED
    BY <1>1, <1>2, RefuseStep, AttemptStep, HandleStep, ReachStep, DisconnectStep, EndSteps
       DEF Next

LEMMA Invariance == Spec => []IInv
  BY InitIInv, NextIInv, PTL DEF Spec

-----------------------------------------------------------------------------
(* the properties *)

\* Whatever combination of auth, proxy_auth, headers and defaults a call has, and
\* however its attempts overlap, the proxy is shown the credentials it means.
THEOREM TheMeantAreSeen == Spec => []ProxySeesTheCallersCredentials
  <1>1. IInv => ProxySeesTheCallersCredentials
    <2> SUFFICES ASSUME IInv, NEW i \in DOMAIN history
                 PROVE  Get(history[i].headers, ProxyAuthorization) = Meant(history[i].request)
      BY DEF ProxySeesTheCallersCredentials
    <2>1. RecordOK(history[i]) /\ history[i].request \in Request
      BY HistoryTypes DEF IInv, HistoryOK
    <2>2. QED
      BY <2>1, MeantAreSent DEF RecordOK, Sendable, UsesProxy, IInv, TypeInv
  <1>2. QED
    BY <1>1, Invariance, PTL

\* No credentials of a hop reach the next one, and the caller's own Authorization
\* reaches the target by either way.
THEOREM CredentialsStay == Spec => []CredentialsStayOnTheirHop
  <1>1. IInv => CredentialsStayOnTheirHop
    <2> SUFFICES ASSUME IInv, NEW x \in DOMAIN received
                 PROVE  /\ x.proxied => DOMAIN x.headers \cap HopByHop = {}
                        /\ ~ x.proxied => Get(x.headers, ProxyAuthorization) =
                               Get(OrEmpty(kwargs[x.request].headers), ProxyAuthorization)
                        /\ Get(x.headers, Authorization) = Own(kwargs[x.request])
      BY DEF CredentialsStayOnTheirHop, BagToSet, Own
    <2>1. ArrivalOK(x)
      BY DEF IInv, ReceivedOK
    <2>2. Get(SentHeaders(x.request), Authorization) = Own(kwargs[x.request])
      BY <2>1, AuthorizationIsOwn DEF ArrivalOK, Sendable
    <2>3. CASE x.proxied
      <3>1. x.headers = Drop(SentHeaders(x.request), HopByHop)
        BY <2>1, <2>3 DEF ArrivalOK, Relayed
      <3>2. DOMAIN x.headers = DOMAIN SentHeaders(x.request) \ HopByHop
        BY <3>1, DropNames
      <3>3. Get(x.headers, Authorization) = Get(SentHeaders(x.request), Authorization)
        BY <3>1, DropElsewhere, ProxyAssumption
      <3>4. QED
        BY <2>2, <2>3, <3>2, <3>3
    <2>4. CASE ~ x.proxied
      <3>1. /\ x.headers = SentHeaders(x.request)
            /\ Passed(x.request) # Raises /\ Passed(x.request).proxy = Nothing
        BY <2>1, <2>4 DEF ArrivalOK, Sendable, UsesProxy
      <3>2. QED
        BY <2>2, <2>4, <3>1, DirectKeepsProxyCredentials
    <2>5. QED
      BY <2>3, <2>4
  <1>2. QED
    BY <1>1, Invariance, PTL

\* What the target gets through the proxy was recorded and had the credentials
\* the proxy expects, and comes once, or twice if aiohttp may repeat it.
THEOREM ForwardsWereAuthenticated == Spec => []ForwardsAreAuthenticated
  <1>1. IInv => ForwardsAreAuthenticated
    <2> SUFFICES ASSUME IInv, NEW x \in DOMAIN received, x.proxied
                 PROVE  /\ \E j \in Records(x.request, x.attempt) : ExpectedAuth # Nothing =>
                               Get(history[j].headers, ProxyAuthorization) = Encoded(ExpectedAuth)
                        /\ received[x] <= (IF x.request \in Idempotent THEN 2 ELSE 1)
      BY DEF ForwardsAreAuthenticated, BagToSet
    <2>1. ArrivalOK(x) /\ Recorded(x.request, x.attempt) /\ Authenticated(x.request)
      BY DEF IInv, ReceivedOK, ArrivalOK
    <2>2. PICK j \in DOMAIN history : history[j].request = x.request /\ history[j].attempt = x.attempt
      BY <2>1 DEF Recorded
    <2>3. RecordOK(history[j]) /\ history[j].request \in Request
      BY HistoryTypes DEF IInv, HistoryOK
    <2>4. Get(history[j].headers, ProxyAuthorization) = Meant(x.request)
      BY <2>2, <2>3, MeantAreSent DEF RecordOK, Sendable, UsesProxy, IInv, TypeInv
    <2>5. QED
      BY <2>1, <2>2, <2>4 DEF Records, ArrivalOK, Authenticated
  <1>2. QED
    BY <1>1, Invariance, PTL

\* Each attempt is recorded at most once, and what the proxy answers is recorded
\* and answers that very attempt, late answers to earlier ones never.
THEOREM AnswersWereRecorded == Spec => []AnswersAreRecorded
  <1>1. IInv => AnswersAreRecorded
    <2> SUFFICES ASSUME IInv, NEW r \in Request
                 PROVE
        /\ \A n \in 1..sent[r] : Cardinality(Records(r, n)) <= 1
        /\ LET n == sent[r] IN answer[r].by \in {"407", "500", "target"} =>
               /\ Passed(r).proxy # Nothing => Cardinality(Records(r, n)) = 1
               /\ answer[r].by = "407" =>
                      Forwards(r, n) = {} /\ Meant(r) # Encoded(ExpectedAuth)
               /\ answer[r].by = "target" =>
                      /\ answer[r].attempt = n
                      /\ \E x \in BagToSet(received) : x.request = r /\ x.attempt = n
      BY DEF AnswersAreRecorded
    <2>1. ASSUME NEW n
          PROVE  /\ Cardinality(Records(r, n)) <= 1
                 /\ Recorded(r, n) => Cardinality(Records(r, n)) = 1
      <3>1. CASE Records(r, n) = {}
        BY <3>1, FS_EmptySet DEF Records, Recorded
      <3>2. ASSUME NEW i \in Records(r, n)
            PROVE  Cardinality(Records(r, n)) = 1
        <4>1. Records(r, n) = {i}
          BY DEF Records, IInv, HistoryOK
        <4>2. QED
          BY <4>1, FS_Singleton
      <3>3. QED
        BY <3>1, <3>2
    <2>2. AnswerOK(r)
      BY DEF IInv, AnswersOK
    <2>3. QED
      BY <2>1, <2>2 DEF AnswerOK, UsesProxy, Forwards, Reached, BagToSet
  <1>2. QED
    BY <1>1, Invariance, PTL

=============================================================================
