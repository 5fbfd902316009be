--------------------------- MODULE MCThroughProxy ---------------------------
(***************************************************************************)
(* Every combination of credentials, one request at a time with all its    *)
(* attempts; and two requests at the same time, one of which the proxy     *)
(* refuses or which goes to the target directly.                           *)
(***************************************************************************)
EXTENDS ThroughProxy, TLC

CONSTANTS own, right, wrong, bearer, thing, r1, r2

None == [k \in {} |-> Nothing]
Kw(auth, proxy_auth, proxy, headers, proxy_headers) ==
    [auth |-> auth, proxy_auth |-> proxy_auth, proxy |-> proxy,
     headers |-> headers, proxy_headers |-> proxy_headers]
Hop == "connection"

MCHeaders ==
    {Absent, Put(None, Authorization, bearer),
     Put(None, ProxyAuthorization, Encoded(right)),
     Put(Put(Put(None, Hop, thing), Authorization, bearer), ProxyAuthorization, Encoded(wrong))}
MCProxyHeaders ==
    {Absent, Put(None, Authorization, Encoded(wrong)),
     Put(None, ProxyAuthorization, Encoded(right)),
     Put(Put(None, ProxyAuthorization, Encoded(right)), Authorization, Encoded(wrong))}

Single ==
    {Kw(a, pa, p, h, ph) : a \in {Absent, own}, pa \in {Absent, Nothing, right, wrong},
                           p \in {Absent, Nothing}, h \in MCHeaders, ph \in MCProxyHeaders}
    \cup {Kw(thing, Absent, Absent, Absent, Absent), Kw(Absent, thing, Nothing, Absent, Absent)}

Beside == Kw(own, Absent, Absent, Absent, Absent)
Among == {Kw(Absent, wrong, Absent, Absent, Absent), Kw(Absent, Absent, Nothing, Absent, Absent),
          Kw(Absent, right, Absent, Absent, Absent)}

\* r1 is a GET, r2 a POST
MCCalls ==
    {[r \in Request |-> IF r = q THEN k ELSE Absent] : q \in Request, k \in Single}
    \cup {[r \in Request |-> IF r \in Idempotent THEN Beside ELSE k] : k \in Among}
MCCredentials == {own, right, wrong}
MCHopByHop == {ProxyAuthorization, Hop}
=============================================================================
