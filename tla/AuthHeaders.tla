----------------------------- MODULE AuthHeaders -----------------------------
(***************************************************************************)
(* Where a request's credentials go: base.py turns auth and proxy_auth     *)
(* into headers before the first attempt (_normalize_auth_kwargs), and a   *)
(* middleware copies the proxy's to a plain request that goes through one. *)
(*                                                                         *)
(* Headers are functions from the lower-case names present to values, and  *)
(* the keyword arguments a record, each Absent when it was not passed.     *)
(***************************************************************************)
EXTENDS Matching, Functions

CONSTANTS
    Absent,         \* a keyword argument that was not passed
    Credentials,    \* BasicAuth values
    Raises          \* _normalize_auth_kwargs raises TypeError

Authorization == "authorization"
ProxyAuthorization == "proxy-authorization"

Encoded(credentials) == [basic |-> credentials]

ASSUME CredentialsAssumption ==
    /\ Credentials \cap {Nothing, Absent} = {}
    /\ \A c \in Credentials : Encoded(c) # Nothing

Put(dict, key, value) ==
    [k \in DOMAIN dict \cup {key} |-> IF k = key THEN value ELSE dict[k]]
Drop(dict, keys) == Restrict(dict, DOMAIN dict \ keys)
OrEmpty(dict) == IF dict \in {Nothing, Absent} THEN [k \in {} |-> Nothing] ELSE dict

\* The auth argument: a header the caller wrote is kept.
WithAuth(kwargs) ==
    LET headers == OrEmpty(kwargs.headers)
    IN  IF kwargs.auth \in {Nothing, Absent} \/ Authorization \in DOMAIN headers
        THEN headers
        ELSE Put(headers, Authorization, Encoded(kwargs.auth))

\* The proxy_auth argument: None passed for a request switches the default off.
ProxyAuth(kwargs, default) ==
    IF kwargs.proxy_auth = Absent THEN default ELSE kwargs.proxy_auth

\* Mutation: the default credentials replace those of proxy_headers.
ProxyHeadersOfAuth(kwargs, default, headers) ==
    LET given == OrEmpty(kwargs.proxy_headers)
        named == Get(headers, ProxyAuthorization)
    IN  IF named # Nothing
        THEN Put(Drop(given, {Authorization}), ProxyAuthorization, named)
        ELSE IF ProxyAuth(kwargs, default) # Nothing
        THEN Put(given, ProxyAuthorization, Encoded(ProxyAuth(kwargs, default)))
        ELSE given

\* The headers for the proxy: those of the request before those of
\* proxy_headers, and these before proxy_auth.  Beside a Proxy-Authorization
\* that the caller wrote, an Authorization among them is dropped.
ProxyHeaders(kwargs, default, headers) ==
    LET given == OrEmpty(kwargs.proxy_headers)
        named == Get(headers, ProxyAuthorization)
        auth  == ProxyAuth(kwargs, default)
    IN  IF named # Nothing
        THEN Put(Drop(given, {Authorization}), ProxyAuthorization, named)
        ELSE IF auth = Nothing THEN given
        ELSE IF ProxyAuthorization \in DOMAIN given THEN Drop(given, {Authorization})
        ELSE Put(given, ProxyAuthorization, Encoded(auth))

\* _normalize_auth_kwargs after the default proxy of _make_req: what is passed
\* to every attempt.
Normalized(kwargs, default_proxy, default_proxy_auth) ==
    LET headers == WithAuth(kwargs)
        auth    == ProxyAuth(kwargs, default_proxy_auth)
    IN  IF \/ kwargs.auth \notin Credentials \cup {Nothing, Absent}
           \/ auth \notin Credentials \cup {Nothing}
        THEN Raises
        ELSE [headers       |-> headers,
              proxy         |-> IF kwargs.proxy = Absent THEN default_proxy ELSE kwargs.proxy,
              proxy_headers |-> ProxyHeaders(kwargs, default_proxy_auth, headers),
              forwards      |-> auth # Nothing \/ ProxyAuthorization \in DOMAIN headers]

\* Mutation: the middleware does not ask whether there is a proxy.
ForwardedAlways(request) ==
    LET named == Get(request.proxy_headers, ProxyAuthorization)
    IN  IF request.forwards /\ named # Nothing
        THEN Put(request.headers, ProxyAuthorization, named) ELSE request.headers

\* _forward_plain_http_proxy_auth, on a copy of the headers per attempt.
ForwardPlainHttpProxyAuth(request) ==
    LET named == Get(request.proxy_headers, ProxyAuthorization)
    IN  IF /\ request.forwards
           /\ request.proxy # Nothing
           /\ named # Nothing
           /\ ProxyAuthorization \notin DOMAIN request.headers
        THEN Put(request.headers, ProxyAuthorization, named)
        ELSE request.headers

\* aiohttp connects to the proxy of a plain request: an Authorization among
\* the headers for the proxy becomes the request's Proxy-Authorization.
OnConnection(request, headers) ==
    IF request.proxy # Nothing /\ Authorization \in DOMAIN request.proxy_headers
    THEN Put(headers, ProxyAuthorization, request.proxy_headers[Authorization])
    ELSE headers
=============================================================================
