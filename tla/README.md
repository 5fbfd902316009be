# Verification of asyncly

asyncly is a library around aiohttp: a base class for HTTP API clients with
retries, handlers per response status and metrics, and an in-process mock server
and mock proxy for tests of such clients. Its repository also holds the tool that
checks and edits its releases. This directory models the parts that keep state
across awaits, processes or callbacks, and the decisions these rest on, checks
them with TLC and proves the most important results with TLAPS.

Paths below are relative to the repository; line numbers are those of the commit
these modules were written for. `PROJECT.json` maps every definition to its lines.

## The system

| component | code | state | operations | modelled |
|---|---|---|---|---|
| logical request loop | `asyncly/client/base.py`, `client/handlers/base.py` | per call: attempt number, the response being handled; the session's connections (aiohttp) | `_make_req`, `_request_once`, `_retry_exception_delay`, `apply_handler` | yes |
| retry policy | `asyncly/client/retry.py` | none, immutable | `should_retry`, `get_delay`, `_matches_outcome`, `_suppression_reason`, `full_jitter_backoff` | yes |
| credentials, proxy options | `asyncly/client/base.py` 139-142, 263-328 | none | `_normalize_auth_kwargs`, `_forward_plain_http_proxy_auth` | yes |
| instrumented client | `asyncly/client/metrics/instrumentable_client.py` | sink, two feature flags, route resolver (per client); what a block saved; the sink and route an attempt captured | `enable_metrics`, `disable_metrics`, `instrument()`, `_request_once` | yes |
| failure taxonomy | `asyncly/client/metrics/taxonomy.py` | none | `classify_exception` | yes |
| route resolver | `asyncly/client/metrics/route_resolver.py` | none | `default_route_resolver` | yes |
| network phase tracer | `asyncly/client/metrics/trace_config.py` | stamps on the trace context of each request | aiohttp's trace callbacks | yes |
| metrics sinks | `asyncly/client/metrics/sinks/` | the instruments of Prometheus and OpenTelemetry | hooks | partly: not the pool collector |
| mock server | `asyncly/srvmocker/handlers.py`, `models.py`, `service.py`, `responses/sequence.py`, `responses/timeout.py` | handlers, history, history by handler, position of each sequence | `_dispatch`, `register`, `_pick`, `LatencyResponse.response`, `get_calls` | partly: not start and stop |
| matching, assertions | `asyncly/srvmocker/matching.py`, `assertions.py` | none | `matches`, `call_matches`, `assert_called`, `assert_not_called`, `last_call` | yes |
| mock proxy | `asyncly/srvmocker/proxy.py` | history, forwarding session | record, authenticate, forward, shut down | partly: not its assertions |
| release tool | `tools/release.py` | changelog, notes, manifest, version files, distributions | five commands, atomic write | yes |
| timeouts, decoders, response bodies and faults, pytest plugin | the other files of `asyncly/` | none | conversions, fixtures | no |

How they interact. A client method calls `_make_req`, which turns credentials
into headers once and then calls `_request_once` once per physical attempt;
`InstrumentableHttpClient` overrides `_request_once`, so that each attempt is
measured, and calls the base one. `_request_once` opens
an `async with session.request(...)` around the retry decision on the response
and the status handler. Every task of an application shares the session's
connections and the client's metrics configuration. The policy is asked twice,
by different code: on a response inside `_request_once` (base.py:237), on an
exception in the `except` clause of the loop (base.py:174). The retry observer
and the sink are synchronous callbacks; the tracer's callbacks come from aiohttp
while the attempt is suspended, and report to the same sink. On the test side,
the mock server and the mock proxy run one task per request; the tasks share the
histories, the registered responses and the sequences, which the test changes
while they run. The proxy forwards with a session of its own, which has no
policy. The release tool is run by a workflow and by hand: its commands share
the files of a checkout, and a command may be killed anywhere.

A client runs in one asyncio event loop: a task gives way only at an `await`.
An action of the models is what a task does between two awaits; in the release
tool, what a process does between two system calls that others can notice. What
makes the code hard to test are the orders in which tasks run between those
points, cancellation at any of them, failures before, during and after a
response, state read before an await and used after it, callbacks whose order
another library decides, and a process that dies between two writes.

## The modules

| module | models | extends |
|---|---|---|
| `RetryPolicy` | `retry.py`, as operators on an outcome | |
| `HttpClient` | `_make_req` and `_request_once` for concurrent requests over one pool | `RetryPolicy` |
| `LogicalRequest` | abstract specification: what a call of `_make_req` promises | |
| `Taxonomy` | `classify_exception` and `_classify_failure` | |
| `InstrumentedClient` | metrics configuration, blocks and attempts | `Taxonomy` |
| `MetricsSinks` | `PrometheusSink`, `OpenTelemetrySink` as operators on their instruments | `Taxonomy` |
| `Telemetry` | attempts that report to both sinks while the tracer times their waits | `MetricsSinks` |
| `Matching` | the predicates of matches and assertions | |
| `MockServer` | dispatcher, histories, sequences, latencies, assertions | `Matching` |
| `AuthHeaders` | from `auth`, `proxy_auth`, `headers`, `proxy_headers` to what is sent | `Matching` |
| `ThroughProxy` | client, mock proxy and target together | `AuthHeaders` |
| `ReleaseChecks` | what the release tool decides about texts and archives | |
| `ReleaseTool` | its commands as processes over shared files | `ReleaseChecks` |
| `HttpClientProofs`, `RetryPolicyProofs`, `InstrumentedProofs`, `TelemetryProofs`, `MockServerProofs`, `ThroughProxyProofs`, `ReleaseProofs` | theorems | the module named (`MCRetryPolicy` for the policy), `TLAPS` |
| `MCHttpClient`, `MCRetryPolicy`, `MCInstrumentedClient`, `MCTelemetry`, `MCMockServer`, `MCThroughProxy`, `MCRelease` | the instances TLC checks | the module named |

Operators whose comment begins with "Mutation" are not part of a model: each is
a definition as a plausible bug would change it, and shows that a property fails
when the code has that bug. `PROJECT.json` says which one refutes which property.

### HttpClient

Each request `r` has the arguments of its call (`call[r]`: with or without a
policy, method, kind of body), a place (`pc`), and `attempt`, the loop variable
of `_make_req`, which is also `context.attempt`.

| `pc` | suspended in | left by |
|---|---|---|
| `idle` | not called yet | `MakeReq` |
| `connecting` | `session.request`, waiting for a connection | `Connect`, `ConnectFails` |
| `waiting` | `session.request`, until the headers | `ExchangeFails`, `AiohttpRepeats`, `RetryableResponse`, `FinalResponse` |
| `handling` | `await handler(response=response)` | `HandlerReturns`, `HandlerRaises` |
| `sleeping` | `asyncio.sleep(delay)` | `Wake` |
| `done` | | |

`Cancel` leaves every suspended place. `conns` is the set of requests that hold
a connection; `sent` counts how often a request reached the wire; `events` is
what the observer heard; `outcome` what the caller got. The way out of an
attempt by an exception is one operator, `RequestOnceRaises`: the `async with`
releases the connection, the middleware's wrapper is taken off, and
`RetryExceptionDelay` raises, reports or schedules. All of it happens within one
action, as in the code, where no await lies between.

Abstractions: exceptions are class names; delays are where they come from (the
header, the backoff strategy, or an exception); a body is absent, replayable or
a stream. The policy is one for all requests, as a constant of the model, and a
request may be made without it. The observer and the backoff strategy do not
raise exceptions of their own, but the strategy may answer an unusable number.
aiohttp is external: a pool of `PoolLimit` connections, which a failed, returned
or cancelled `async with` gives back; and, as the comment at `base.py:347` says,
a session that repeats an idempotent request by itself when its connection
breaks (`AiohttpRepeats`, once per call; `resent` remembers it), unless the
exception is one it does not know. Connection reuse is not modelled.

### RetryPolicy

`GetDelay(h, b)` is `get_delay` for a header of kind `h` when the strategy would
answer `b`. A `Retry-After` is one of five kinds of text that
`_parse_retry_after` treats differently; `ParseRetryAfter` says what each
becomes. `FullJitterCap` is computed in half seconds, with the overflow of the
floating point product from 2^1024 on.

### LogicalRequest

What a caller may rely on, without responses, exceptions, connections or
observers: a request is tried, pauses, is tried again, at most `MaxTries` times
and more than once only if it may be repeated, and ends. `HttpClient` implements
it under `phase <- Phase`, `tries <- attempt`,
`repeatable <- {r : MayRepeat(r)}` (definition `Promise`).

### InstrumentedClient and Taxonomy

`config` is the four attributes of the client that configure metrics. A block
keeps in `saved` what its `__enter__` found. An attempt captures sink and
resolver in `used` at its start; its `finally` (operator `Finally`) looks at
`config.lifecycle` of the moment it runs, as line 203 does. `calls` is the list
of hook calls an attempt made, each with its sink, route and labels; `disturbed`
are the attempts during which somebody reconfigured the client. The inside
of `BaseHttpClient._request_once` is seen from outside: it returns, returns a
`_RetryableResponse`, or raises an exception of the hierarchy, wrapped or not.
A block that is open is not entered a second time. A sink's hooks do not raise.
`StartSinks` and `EndSinks` are the sinks that define `on_request_start` and
`on_request_end`; the flag is set for those that define both, but the `finally`
needs only the second, and fails with `AttributeError` only without it.

`Ancestors` gives, for each kind of exception, the classes `classify_exception`
asks about; it describes aiohttp and Python and is external. `UnknownError` stands
for every exception that belongs to none of them (`ValueError`, `InvalidURL`).

### MetricsSinks and Telemetry

A sink's instruments are one record: bags of label sets for the counters, bags
of labelled observations for the histograms, a function for the gauge. Prometheus
labels are made as the code makes them, from a sequence of values and a sequence
of names declared elsewhere (`Labels`); OpenTelemetry attributes are records.

`Telemetry` gives both sinks the same calls. An attempt walks through the waits
aiohttp makes (`connector`, `queued`, `connecting`, `resolving`, `exchange`,
`handling`), and each callback of `_PhaseTracer` is part of the action in which
aiohttp makes it. `ctx[a]` holds the stamps of the trace context. A redirect
goes back to `connector` with the same context; a lookup is shielded, so
`DnsEnd` may come after its attempt has failed. The ghosts `begun` and `waited`
measure the waits independently of the tracer. External, from aiohttp: the order
of the callbacks; that `on_request_end` comes with the headers, and
`on_response_chunk_received` once, with the whole body, when somebody reads it.
A path is a sequence of segments; a segment is its text, its length and what its
characters are, which is all `default_route_resolver` asks.

### Matching and MockServer

The requests have one method and path, so they share a dispatcher; the routes,
in their order, have criteria, each a predicate on the body, its JSON, the
headers or the query. A body's JSON may be a value, no JSON or no text, which
`Answer` distinguishes as `matches` and `call_matches` do: only the second is a
mismatch, the third an exception. A request is read (`Arrive`, then `Dispatch`
or `DispatchUnmatched`), or its client goes away first (`Abort`). `Dispatch`
appends to both histories, looks the response up and runs it to its first await;
a `LatencyResponse` sleeps and then asks what it wraps (`WakeUp`), which may be
a sequence. `picked` is a ghost: which requests took an item of each sequence.
Responses nest to depth two. The assertions are operators on the recorded calls
and are evaluated in every state, as a test may call them at any time;
`Documented` is what the docstring of `assert_called` says of the same requests.

### AuthHeaders and ThroughProxy

Keyword arguments are a record, each absent, None or a value; headers are
functions from the names present. `Normalized` is what `_make_req` passes to
every attempt, `ForwardPlainHttpProxyAuth` the middleware, `OnConnection` what
aiohttp does with headers for a proxy (external). A `Proxy-Authorization` that
comes in `proxy_headers` without any `proxy_auth` takes the early return at
`base.py:289`; on a plain request the proxy then never sees it, and `Meant`, which
says what `ProxySeesTheCallersCredentials` compares with, follows the code there.

In `ThroughProxy` a request is sent, answered, timed out or repeated (`Send`,
`Decide`); every exchange is a task of the proxy (or of the target, when the
call switches the proxy off), which goes on when its client has given up:
`Handle` records, then authenticates, then forwards without hop-by-hop headers.
The forwarding session is aiohttp's own, so an idempotent request is repeated
once when the target disconnects (`Disconnect`). `CloseServer`, `CancelTask` and
`CloseSession` are the `finally` of `start_proxy`. The retry decision is left
open here (`Decide` may repeat or end); `HttpClient` has it.

### ReleaseChecks and ReleaseTool

A changelog is reduced to what the tool looks at: the `[Unreleased]`
definitions, the version links and the dated sections. An archive is the list of
its members, each with a name and a type, and the metadata read from them; names
may repeat, and a later member replaces an earlier one when looked up by name,
as `by_name` does. `ReleaseChecks` holds the decisions as operators; its
constants `UnsafeNames`, `MetadataNames` and `OutsideNames` stand for the
classes of names the code distinguishes. The tool compares names as they are
spelled: `a//x` or `a/./x` beside `a/x` is no duplicate to it, and
`d/./METADATA` does not count as a METADATA file. `Respelled` are such names and
`PathOf` the path they lead to, which no decision looks at.

In `ReleaseTool` each process runs a command: one step that reads and decides
(`artifacts` two: the archives, then the directory), then, for a command that
writes, `Inspect`, `Create`, `Fill`, `Chmod`, `Replace` of `_write_text_atomic`,
each of which may fail into `Cleanup`, whose unlink may fail too. `Interrupt` is
a `KeyboardInterrupt`, which runs the `finally`; `Kill` is not caught. `litter`
are the temporary files that stay, with the reason. What the workflow and the
Makefile do between commands (towncrier and `uv version`, `uv build --clear`)
is in `PrepareVersion` and `Build`, and happens while no command runs.

## The runs

| run | instance | states | shows |
|---|---|---|---|
| `client` | 2 requests, 1 connection, 3 attempts, `MCFairSpec` | 152,941 | the safety properties of the loop; every request ends; the refinement of `LogicalRequest`, liveness included |
| `policy` | 9 attempts, every outcome, header and backoff answer | 8,640 | the pure decisions |
| `instrumented` | 1 attempt, 2 blocks, 3 sinks, 1 custom resolver | 2,367,288 | what holds however the client is reconfigured |
| `telemetry` | 2 attempts of one route, one with a redirect, 2 clock values | 1,161,290 | the phases told are the waits there were; both sinks show the same |
| `mock_server` | 5 requests, 2 handlers, 3 sequences, 2 latencies, 3 kinds of body | 814,506 | histories, sequences and what the assertions tell |
| `through_proxy` | 1 request with any of 258 argument combinations, or 2 at the same time; 2 attempts | 1,588,166 | which credentials reach whom; what the proxy records and forwards |
| `release` | 2 processes, 2 commands, a checkout with at most one oddity | 735,719 | files stay whole, links a chain, manifests verified |
| `retry_after` | 1 request, all headers, a sound backoff | | violation: see below |
| `instrumented_leak`, `instrumented_overlap` | 1 attempt, 2 blocks, 2 sinks | | violations: see below |
| `garbled_call` | as `mock_server` | | violation: see below |
| `body_read` | 2 attempts | | violation: see below |

Why the bounds are enough.

*Client*: two requests over one connection are the smallest instance where one
waits for the other; tasks do not influence each other except through the pool.
One request is of any kind, the other (`Beside`) either makes as many attempts as
it can or only one that cannot be repeated. Three attempts have a first, a middle
and a last one, so events before, at and after the limit exist; the proofs cover
the rest. The statuses are one that is retried and has a handler, one that
succeeds and one nobody handles. *Policy*: the cap of the backoff is reached in
the seventh attempt. *Instrumented*: one sink with every hook, one with none but
`observe_request` and one that also has `on_request_end`; two blocks, of which
one at least is for the first sink (`MCInit`), can nest, overlap and be separate;
an attempt only reads the configuration, and the proofs cover any number of them.

*Telemetry*: two attempts of the same labels are the smallest instance where
stamps can be mixed and a gauge counts to two. One follows a redirect, so each of
its stamps is set twice, and has its body read by a middleware; the other is
perhaps on a session whose trace context carries no labels (`Foreign`). The clock
stands still or moves once, so a wait measured from a wrong stamp shows as 0
instead of 1 or the reverse; where the first attempt carries no labels it does
not move, which `MCInit` states to keep the instance small.

*Mock server*: two requests of one handler and one of the other compete for a
cycling sequence of two items, which wraps around in the third. One of the first
two has a body that is no text: the header predicate of its route does not notice,
an assertion on its JSON does. Another matches no route, or, in its place, one has
such a body and no header, and the JSON predicate of the second route raises on it:
a 500 that is not recorded. `MCNext` lets at most one of these two arrive, and
leaves two responses to be items of sequences only.

*Through the proxy*: every combination of the four sources with and without
proxy, each with a retry; beside that, an idempotent request with credentials of
its own and one that is refused, direct or accepted. Two attempts are enough for
a late answer to an earlier one. *Release*: two commands are the smallest number
that interleave; `PrepareVersion` and `Build` come in any number between them.
Each checkout has at most one thing that is odd (a file of an unusual kind, a
malformed changelog, version files that disagree, one member of one archive), so
each refusal is reached for its own reason. The processes are symmetric.

Fairness (`HttpClient!Fairness`). The event loop runs every ready task, an
exchange ends with headers, an error or the timeout of the attempt (the default
timeout is finite), handlers and sleeps end: weak fairness. aiohttp gives
connections to waiters in order, so a waiter is not passed over for ever although
the pool is full again and again: strong fairness of `Connect`. Nothing is
assumed of `ConnectFails`, so a request must not depend on its timeout to get
out of the queue, nor of `Cancel`. A timeout configured as infinite together with
a server that never answers is excluded by this. The other components promise
nothing of the "eventually" kind, so their runs state no fairness.

Deadlock is checked in `client`, `retry_after`, the `instrumented` runs,
`mock_server` and `garbled_call`: a finished client stutters explicitly, and metrics and responses
can be reconfigured at any time. In the others the system really stops: `policy`
after its last attempt, `telemetry` (with `body_read`),
`through_proxy` and `release` when every attempt, request or command is over.

### What the properties say

Of the client: connections are held only during an exchange or a handler
(`ConnectionsOnlyInExchange`); a request is sent again only if its policy lists
the method and its body can be sent again (`RepeatOnlyWhenSafe`), and aiohttp
sends no request with a policy a second time by itself
(`EveryResendIsAnAttempt`); the observer hears every retry once, in order, before
it is made (`ObserverHearsEveryRetry`), and hears of every retryable outcome that
is handed to the caller instead (`NoSilentGiveUp`); what it heard to be final is
final (`TerminalEventIsFinal`), although two places decide; callers see neither
the wrapper class nor the loop's `RuntimeError` (`OnlyOriginalExceptions`).
Of the policy: the public answer and the private pair agree and no cancellation
is retried (`DecisionsAgree`); a delay is usable or an error, and the default cap
doubles up to its limit as long as it does not overflow (`DelayIsUsableOrRaised`).

Of the metrics: the flags describe the enabled sink (`FlagsDescribeSink`), an
attempt reports one sample to the sink of its start (`SampleGoesToStartSink`),
whose labels agree with what the caller saw, the status of the response included
(`SampleMatchesResult`), and tell timeouts, TLS, name lookup, other failures to
connect and resets apart, with `other` for exactly what belongs to none of the
named classes (`FailureIsNamed`); a sink with both hooks hears no end without a
start (`LoneEndNeedsHalfSink`); the in-flight window is bracketed unless someone
reconfigures the client inside it (`UndisturbedFlightIsBracketed`). The phases
told are exactly the waits there were, of the right attempt, hop and length
(`PhasesTellTheWaits`); the first byte is told once (`FirstByteOnce`); the gauge
counts the open attempts of each label set (`GaugeShowsOpenAttempts`); both sinks
end up with the same series, whose instruments agree (`SinksTellTheSame`).

Of the mock server: the two histories agree (`HistoriesAgree`), each request that
reaches a handler is recorded once (`RecordedOnce`), a sequence gives each item to
one request (`PlayedInOrder`), in the order the requests were recorded if no
latency delays the choice (`SequenceFollowsHistory`), and the assertions tell what
the server received, `assert_called` as its docstring says wherever no body that is
no text stands in front of the first match (`AssertionsTellTheHistory`; where one
does, see the run `garbled_call`). Of the proxy: it sees the
credentials the caller means (`ProxySeesTheCallersCredentials`), no credentials
leave their hop (`CredentialsStayOnTheirHop`), what is forwarded was recorded and
authenticated (`ForwardsAreAuthenticated`), and what is answered is recorded once
and answers that very attempt (`AnswersAreRecorded`).

Of the release tool: no file is torn or changes its kind or mode
(`OutputsAreWhole`), a temporary file stays only after a kill, an interrupt at
its creation or a failed unlink (`NothingIsLeftBehind`), the version links stay
one chain (`LinksFormAChain`), what `validate-next` accepts can be linked
(`AcceptedVersionCanBeLinked`), a manifest is of two verified archives
(`ManifestIsOfVerified`): each public file is there once under its name, and no
member leaves the directory. That does not say that installing gives the verified
file: a member that spells its path in another way is accepted and may take its
place, since `_validate_member_names` compares names and not paths
(`release.py:185`), and the property excepts exactly these (`Respelled`). A
manifest does not make a second run refuse (`AcceptedArtifactsStayAcceptable`).

### Where the code differs from what is written about it

1. `instrumented_leak`: metrics disabled, or a block left, while an attempt is in
   flight: its sink hears `on_request_start` but not `on_request_end`
   (`instrumentable_client.py:203` reads the flag again after the await). The doc
   of `MetricsSink` says the two hooks bracket the in-flight window. The other way
   around, a sink without hooks that is replaced by one with hooks gets a call of
   `on_request_end`, and the `AttributeError` replaces the result of the request;
   the same doc promises that such a sink keeps working. A sink that has
   `on_request_end` alone hears that call, an end without a start, where the doc
   says that hooks are called only if both are defined.
2. `instrumented_overlap`: `instrument()` of two tasks, left in the order they
   were entered, takes the sink from the block that is still open.
3. `retry_after`: a `Retry-After` made of digits `float()` refuses, or too many
   of them, makes the request raise `ValueError`, where a test and the doc of
   `get_delay` say that what is not valid falls back to the backoff strategy.
4. `body_read`: aiohttp calls `on_request_end` when the headers are there, before
   any handler reads the body, so the phase `body_read` that the guide and the
   changelog list is not reported (`trace_config.py:112`).
5. `garbled_call`: `assert_called(json=...)` raises `UnicodeDecodeError` when it
   comes upon a recorded body that is no text (`assertions.py:36` takes only
   `JSONDecodeError` for a mismatch), although a later call matches; its docstring
   promises success if at least one call matched, and `AssertionError` if none did.

## The proofs

| module | theorems | assumptions |
|---|---|---|
| `HttpClientProofs` | every safety property of the run `client`; `Spec` implements `Promise!SafeSpec`; facts of the policy | `PolicyAssumption`, `ClientAssumption` |
| `RetryPolicyProofs` | every property of the run `policy` | `PolicyAssumption` |
| `InstrumentedProofs` | every property of the run `instrumented` | `InstrumentedAssumption` |
| `TelemetryProofs` | every property of the run `telemetry` | `TelemetryAssumption` |
| `MockServerProofs` | every property of the run `mock_server` | `ServerAssumption` |
| `ThroughProxyProofs` | every property of the run `through_proxy` | `ProxyAssumption`, `HeadersAssumption`, `CredentialsAssumption` |
| `ReleaseProofs` | every property of the run `release` | `MalformedIsNotStable`, `ReleaseAssumption` |

Each holds for every value of the constants that satisfies the assumptions: any
number of requests, connections, attempts, sinks, blocks, processes, archives.
TLC evaluates the assumptions in the runs. `PolicyAssumption` is what
`RetryPolicy.__post_init__` enforces; `ReleaseAssumption` says that a changelog
the tool is first given links its versions as a chain; `HeadersAssumption` says
that no header has the value None, which aiohttp does not send;
`TelemetryAssumption` that `session.request` does not raise the exception of a
handler, which runs after it; `ServerAssumption` that a predicate asks for a JSON
value and not for the marks of a body that has none, and that `None` is no
number; the others are shapes of the constants, and that values of different
kinds, the names of outcomes among them, are different.

### HttpClientProofs

The properties are not inductive. That a request may be sent again, for
instance, is decided when it goes to sleep and used when it wakes. `IInv` says,
for each request, what is known at the await it is suspended at (`RequestOK`):

- a sleeping request may be repeated, has an attempt left, and its log ends with
  the `scheduled` event of the current attempt;
- a request that is connecting or waiting has been told nothing final, and its
  log consists of exactly one event for each earlier attempt;
- a request whose handler runs was told that its response is final, if it is a
  retryable one. This fact meets `SuppressionIsOutcomeIndependent`, that the
  reason to suppress a retry depends on the request and the attempt but not on
  the outcome: an exception of the handler cannot reverse the decision;
- a finished request has an outcome the observer knows about, and its exception
  is an original one;
- a request with a policy was not repeated by aiohttp, and none was sent more
  often than its attempts and that repetition allow;
- the connections are those of the waiting and handling requests.

The argument: `Frame` shows that a step of one request leaves what is known of
the others; `EscapeStep`, `ScheduleStep` and `RaisesStep` treat the ways out of
an attempt that several actions share; one lemma per action follows, and
`NextIInv` puts them together. `TerminalIsFinal` and the refinement go through
`StepMoves`, which reduces each action to the move of one request in the control
flow; `MoveImplements` maps each move to an action of `LogicalRequest` or to a
stutter. `ShouldRetryAgrees` and `DelayIsUsable` are about the policy alone.

### RetryPolicyProofs

`TypeInv` says that the policy is only asked about contexts its class admits, an
attempt within the limit and an outcome that is a status or an exception; without
it the negation of `>=` in one answer would not be the `<` of the other. The
powers of the default backoff are computed for the six attempts below the cap
(`SmallCaps`); from there to the overflow both sides of `CapDoubles` are the cap.

### InstrumentedProofs

That the flags describe the sink is not inductive, because a block restores a
configuration it put aside: the invariant says it of every saved configuration
too. For the samples, `AttemptOK` says that an attempt that is not over has
announced nothing but its start, and that a response is marked exactly when the
handler runs; `FinallyStep` needs both to know that the one sample of an attempt
is the one it makes. `LadderFacts` and `NamingFacts` go through the rungs of the
`isinstance` ladder for every kind of exception, the unknown one included;
`FailureFits` and `ResponseFits` say what the labels of an outcome are, wherever
it came from, and that a failed handler leaves the status of its response.

A second invariant, `HInv`, says what the sink of each attempt has heard. An
attempt in flight has told exactly its start, if its sink has that hook; and
either somebody has reconfigured the client meanwhile, or the flag that the
`finally` will read is still that of its sink. An attempt that is over has told
one of three things: nothing, its sample without an end, or its end and its
sample. `HeardReconfigure` shows that whoever changes the configuration disturbs
the attempts in flight, after which the `finally` of an attempt may tell a sink
its end although it was not told the start, if it has that hook alone;
`HeardEnds` what a `finally` adds, and `HeardCounts` turns the three forms into
the numbers the properties are about.

### TelemetryProofs

The gauge of a label set is the number of attempts that have started with those
labels and not ended: `StartStep` and `FinallyStep` are the only steps that
change either. `PositionsAreNames` is the fact about the code that this needs:
the label values `PrometheusSink` passes by position are those of the names the
metric declares. The attempts are a finite set.

For `PhasesTellTheWaits`, `Marked` ties each stamp that is about to be used to
the moment its wait began: the context of an attempt is used again for every
hop, and a lookup may end when the attempt is over, but a stamp is written only
where its wait begins (`BeginSteps`). `EndSteps` then adds the same observation
to the sink and to the ghost. The equality is of bags, copies
included.

The other two properties count what is in a bag. `Copies` tells the copies of an
element apart, so that a count is the size of a finite set; `CountCopies` says that
one more observation is one more copy. For `FirstByteOnce`, `ByteInv` counts the
`ttfb` observations by the attempts whose first chunk is stamped and the
`body_read` observations by those of them whose request is over; `Stamped` says
where in its course an attempt can have that stamp, which is why a redirect,
which uses the context again, does not tell a second time. For
`SinksTellTheSame`, `LabelsByPosition` and `RequestLabels` show that the values
passed by position make the label sets written by name; `EndsAreCounted` that
every end of an attempt, through whichever exception, makes a sample that says
`response` exactly if a handler ran to its own end, and has a type of error
exactly if something but a cancellation was raised. `SinkInv` then counts the
three instruments by the attempts that are over.

### MockServerProofs

`RecordedOnce` relates the history to the tasks that reached a handler, and needs
to know who did: a request that is not over has no answer yet, so no request that
is still being read counts as reached, and `Dispatch` appends one that was not
there. `ServeFacts` says what any response, nested or not, makes of a task, and
is used for the dispatch and for each awakening. For `PlayedInOrder`, `PlayInv`
ties the position of each sequence to the number of requests that took an item,
and says of each of them that it was answered what it was promised or sleeps
before exactly that; `PickFacts` compares the code's arithmetic with the promise
for the three kinds of exhaustion. A task that sleeps before it asks a sequence
has taken nothing yet, so none takes two.

`Selects(sub, seq, S)` says that `sub` is the part of `seq` in `S`, in its order,
by places: the element at a place of `seq` is found in `sub` at the rank of that
place. `SelectsGrows` is what an append does to it, and `SelectsOrder` turns it
around: the places, in order, as a function of the positions of `sub`.
`HistoriesAgree` follows (`MapInv`), since a dispatch appends to both histories in
one step. For `SequenceFollowsHistory`, `FollowInv` adds that a task asleep asks
only what a latency wraps; a sequence none wraps is therefore asked in the step
that records the request. For `AssertionsTellTheHistory`, `CalledFacts` says what
`assert_called` makes of any list of answers: it stops at the first call that
matches or raises, which exists because the natural numbers are well ordered
(`LeastOfSome`); `AssertionsLemma` carries this from the calls of a handler to the
places of its requests in the history, where the call it stops at is a match if no
unreadable body stands in front of every match.

### ThroughProxyProofs

`MeantAreSent` is about the headers alone: for every combination of the sources,
what `_make_req`, the middleware and aiohttp make of them is what `Meant` says.
The invariant carries this through time: it says what each exchange of the proxy
has sent, recorded and got through, by its phase (`TaskOK`), that there is at most
one exchange for an attempt, that a record or an arrival comes from an exchange
that was started, and how often an arrival may be there (`Allowed` counts the
copies an exchange accounts for). An answer that is stored belongs to the last
attempt (`AnswerOK`), since an exchange whose client has gone on finds no one who
waits for it. `ReplyStep` and `BecomesStep` are the two ways an exchange goes on.

### ReleaseProofs

`IInv` adds to the type invariant what is known of the files (`FilesAreWhole`: no
partial text, the changelog a chain, a manifest of the archives that are there)
and of each process by its next step (`Correct`): the text it is going to write
is a chain or the manifest of verified archives, the output it inspected is no
symbolic link and still has the mode it had, the temporary file holds the text
and the mode. What makes this inductive beside other processes is that none of
their steps changes a file's kind or mode (`Frame`, `ReplacementFacts`); builds
and preparations wait for all of them. `UpdatedLinksAreAChain` and
`NewerVersionIsUnlinked` are the facts about the changelog; `RequiredAreInstalled`
is about the members of a verified archive: names are unique, so the member looked
up by name is the only one so called, and another one at its path is respelled.

### Only model-checked

Liveness: `EveryRequestFinishes`, and the fairness part of
`ImplementsLogicalRequest`, which this prover cannot do. Every other property of a
passing run is a theorem. Sums over a bag and selections from a sequence are
recursive in the libraries and cannot be reasoned about there, which is why the
properties that need them are stated with `Copies` and `Selects`, by the size of
sets.

## What is not modelled

- Timeouts, decoders, response bodies and faults, the pytest plugin: conversions
  of one call's data, and two fixtures. Their effect on what is modelled is there:
  an attempt may time out or its handler raise anywhere.
- The pool collector (`prometheus.py:156-216`). It reads sizes of private aiohttp
  containers from the thread of a scrape; neither those containers nor that thread
  are in `src/`. The guide says it registers lazily (`instrumentation.md:137`),
  which no code of it does. `NoopSink` has no effect.
- `start_service` and the start of the proxy, TLS, ports: they run before the
  first request. The assertions of `MockProxyService` repeat those of
  `MockService` with two more tests, on target and method.
- HTTPS through a proxy: the proxy's headers then go with CONNECT, which the mock
  proxy does not serve. Several headers of a name that differ in case.
- Middlewares passed with a request replace those of the session in aiohttp;
  nothing of the session's is modelled that this would switch off.
- Seconds. A timeout or a delay may end at any moment; `Telemetry` has a clock of
  two values.
- Observers, backoff strategies, resolvers and sinks that raise. All run inside
  the loop or the `finally`, where an exception of theirs replaces the result.
- An attempt number beyond 1024, where the default backoff raises
  `OverflowError` (`retry.py:86`): `FullJitterCap` has it, no run reaches it, and
  `DelayIsUsableOrRaised` leaves it aside.
- What a route is good for. The resolver's rule is modelled as it is: any segment of
  8, 16, 32 or 36 characters with a letter becomes `:id` (`route_resolver.py:15`),
  words like `payments` and `accounts` included, where the guide speaks of numeric
  and UUID segments. Both sinks get the same merged series, so no property tells.
- What an installer makes of an archive beyond the path of each member: the order
  of unpacking, file systems that fold case.
- A build, or a preparation, while a command of the release tool runs; texts
  beyond what the commands look at: the notes of the last section run into the
  link definitions, which `NotesAt` keeps as `tail`. The workflows.

## Plan

1. Done: `RetryPolicy`, `HttpClient`, `LogicalRequest`, `Taxonomy`,
   `InstrumentedClient`, `MockServer` and the proofs of `HttpClient`; then
   `Matching`, `AuthHeaders`, `ThroughProxy`, `MetricsSinks`, `Telemetry`,
   `ReleaseChecks`, `ReleaseTool`, and the proofs of all safety properties.
2. A composition of `HttpClient` with `MockServer`: a client with a policy
   against a sequence of responses, as the repository's integration tests use
   them; the physical requests sent, the history and the observer's log agree.
3. An abstract sink (`Telemetry` as a counter of open attempts) that both sinks
   refine.
