# A TLA+ model of rpc2

rpc2 is an RPC library in Go in three generations that live side by side: version 1
(`src/`), version 2 (`src/v2`, persistent sessions) and version 3 (`src/v3`, JSON
transport, fallback to gob, a generic proxy). This directory holds TLA+ modules
for its parts, TLC configurations and TLAPS proofs.

## 1. The system

| Part | State | Operations | Talks to | What is hard | What makes it correct |
|---|---|---|---|---|---|
| v1 client (`client.go`) | none | `Call`: dial, call, close | v1 server over TCP | a connection that nobody will serve | a call returns |
| v1 server (`server.go`) | loop, one `waitForClient` goroutine, its channel | `Accept`, `waitForClient`, `ServeConn` | clients, context | a closed channel delivers a nil connection; select between context and channel | stopping is clean, accepted connections are served |
| v2 client (`v2/client.go`) | `mu`, `cl` | `Call`, `getClient`, `invalidate`, `Close` | many goroutines share it | a failed call and the reset it causes are different critical sections | one session, the failed connection is closed, calls return |
| v3 client (`v3/client.go`) | plus `activeTransport`, `jsonFallback` | the same, plus the fallback decision | v2 and v3 servers | invalidate, decision and retry are three critical sections; a retry may repeat work | at most one duplicate ever, sticky fallback |
| v2/v3 server | listener, one goroutine per connection | `Accept`, context watcher, `ServeConn` | peers, context | silent peers, panics, order of deferred calls | sockets released, loop never blocked, stops |
| codecs (`codec`, `v2/codec`, `v3/codec`) | write buffer, decoder buffers, byte budgets, keys | `WriteRequest/Response`, `Read…Header`, `Read…Body`, sniff | the two ends of one TCP stream | read-ahead, pipelining, half-written messages, ends with different keys, budgets charged for bytes of the next message | nothing lost, header and body belong together, bodies only between equal keys, limits neither overrun nor too strict |
| proxy service and invoker (`v3/proxy`) | `limitCh`, one client per call | `Service.Call`, `Invoke` | backends of both versions | slots, timeouts, defers on every path, retries of the client below, headers from two sources | slots balance, codes are true, calls are answered and run once, identity is the trusted one |
| proxy configuration (`v3/proxy/config.go`, `allowlist.go`, `router.go`) | tables built at start | `ConfigFromEnv`, `NewStaticRouter`, `NewAllowlist`, `Allowed` | environment | order and spelling of variables, empty lists, limits | the tables mean what the environment says |

Everything below `rpc.Client`, `rpc.Server` (module `go.slink.ws/rpc`) and TCP is
outside the repository. It is modelled by what the code in `src/` observes of it
and marked external in the map.

## 2. Modules

| Module | Models | Built on |
|---|---|---|
| `ClientV2` | `v2/client.go` | |
| `ClientV3` | `v3/client.go`; refinement of `ClientV2` | extends `ClientV2` |
| `CodecStream` | all codecs, one direction of a session, by messages | |
| `JSONBudget` | the size limits of the JSON codecs, by bytes | |
| `SessionV1` | `client.go` and `server.go` joined by TCP | |
| `Server` | `v2/server.go`, `v3/server.go` | |
| `ProxyRules` | `SplitMethod`, allowlist, checks of targets, transport of a client, identity headers (pure operators) | |
| `ProxySetup` | `ConfigFromEnv`, `NewStaticRouter`, `NewAllowlist` | extends `ProxyRules` |
| `Proxy` | `Service.Call`, `RPCInvoker.Invoke` | extends `ProxyRules` |
| `ClientV2Proofs` | theorems about `ClientV2` | |
| `ClientV3Proofs` | theorems about `ClientV3`, the refinement too | extends `ClientV2Proofs`, `ClientV3` |
| `CodecStreamProofs`, `JSONBudgetProofs`, `SessionV1Proofs`, `ServerProofs`, `ProxySetupProofs`, `ProxyProofs` | theorems about the module in the name | each extends it |

`MC*` modules hold only constants and symmetry sets for TLC. Definitions called
*faulty variant* are what the named action would be with a plausible bug; they are
not part of any `Next` and show that the properties can fail.

### ClientV2
`mu`, `cl` are the fields; `conns` is the state of every connection ever dialled
(numbered in order); `pc` says where each goroutine is in `Call`: `lock` (waiting
in `getClient`), `dial` (dialling, mutex held), `send`, `wait` (in `cl.Call`),
`failed` (about to `invalidate`). `getClient` is one step when a client is cached
and two when it dials, because the dial takes time under the mutex. `invalidate` is
one critical section and takes whatever is cached *then*. Errors are classes: the
two context errors, `link` (net.Error, EOF), `shutdown`, `app` (ServerError, codec).
A context may end wherever it will still be looked at; after that it makes no
difference. `sent` and `ran` are requests on the way and executed; a request may be
executed after its call was given up.

### ClientV3
The same steps, plus `kind` (codec of a connection), the two fields, and `attempt`.
A failed first attempt goes through `InvalidateV3` and, after a connection error,
through a second critical section `Mark`, where `jsonFallback` is set and the retry
is decided. `speaks` is what the server behind the address can decode. A server that
cannot decode a request may hang up (`Reject`) or wait for ever for more bytes, and
`Redeploy` replaces it by one of another version at any moment: all its connections
end, and what it had not executed is lost.

### CodecStream
Header, CRYPT prefix and body are tokens. `encBuf` is the writer's buffer, `wire`
the socket, `buf` what the reader's decoder has read ahead; a read returns any
non-empty prefix of what has arrived. The codecs differ in who owns the bytes
that were read ahead, in what remains buffered when a body cannot be encoded, and in
what they consume before they notice that a body is not what they expect. A
`Sessions` element fixes the encoding, the secrets of both ends, the direction,
whether bodies may fail to be encoded and whether calls overlap. `normalizeKey` is
applied to both secrets, so a passphrase and its digest are the same key; `Decrypt`
is what AES-GCM promises. A session is shut by the server after a failed write or cut
by the network anywhere (`Cut`).

The server's codec is chosen by `Sniff`, which looks at the first bytes (`FirstBytes`,
`isJSONStream`) and leaves them for the decoder. A gob stream may begin with a brace,
and of a stream that is cut inside its first two bytes (`SniffEOF`) only the brace may
be there: the server then takes gob for JSON. `TypeOK` allows that for a stream of
which nothing is ever decoded, and only for such a one. Any other error of the first
read leaves the connection without a codec (`SniffFails`).

The JSON crypto codec replaces its decoder after every body. What it puts back for the
new one is the last `rest` tokens of `buf`, which that decoder has not pulled yet; at
the next body `Buffered()` hands over only `Pulled`, and the rest is lost. For JSON
any object passes for a header (`PassesForHeader`), so a reader out of step may go on.
Two details are left out: a token that was cut is never decoded (a JSON number cut
between two digits would be taken for a shorter one), and a gob body never passes
for a header (it would have to share a field with it). v1's codecs have v2's text.

### JSONBudget
The bytes that `CodecStream` leaves out. `left` is `budgetReader`'s budget on the
connection, `buf` what the JSON decoder holds, `need` the bytes that it takes to
decode the current message: the separator in front of it, the message, and for
numbers and literals one byte behind that is not consumed. The codecs with a key read a
body through a second budget (`used` of `maxBody`) from the decoder's buffer and then
from the connection. The peer chooses every size and every segmentation.

### SessionV1, Server
Steps of the accept loop, of the goroutine next to it and of `ServeConn`, whose
deferred calls are steps of their own in the order in which Go runs them. v2 and v3
differ in when the codec is ready: v3 waits for the first two bytes. Panics are
those inside the goroutine of `ServeConn`. A response that cannot be encoded makes the
codec close the socket from the goroutine of the method (`WriteResponseFails`, the
connection is then in `broken`), while `ServeConn` waits for the next request or
unwinds a panic. In v1 a nil connection ends the process.

### ProxyRules, ProxySetup, Proxy
Names are sequences of their parts between dots (methods) or underscores (variables),
so the cuts that the code makes are the ones of the model; trimming of blanks and the
wording of errors are left out. `ProxySetup` reads the environment variable by
variable, as the loop does. `Proxy` runs requests concurrently: checks, slot, client,
call, deferred close and release, answer. The timeout of the invoker may be zero. A
call dials under its context (`call`), writes its request (`write`), which no context
ends, and waits for the reply (`wait`). Its client is the v3 client with the transport
that `ClientTransport` chooses, reduced to the error it returns and, in auto mode, its
retry; the backend runs what it can decode, rejects it without running a method, or is
cut off. Over gob hardly any reply fits `json.RawMessage`, so the codec may refuse
any. `IdentityHeaders` merges the caller's metadata with the headers of the context.
Sizes are small numbers; the codec may, but need not, refuse a reply above its limit
(`JSONBudget` says what is certain).

## 3. Runs

| Run | Bounds | Shows |
|---|---|---|
| `ClientV2` | 2 callers, 2 calls each, 2 connections | one session, the failed connection is closed, every call returns |
| `ClientV3_auto` | 2 callers, 1 call each, 2 connections, a server of either version that may be replaced | at most one duplicate over the client's life and never by gob alone, no JSON connection after the fallback (`FallbackSticks`), retry only after a JSON failure, one session that `activeTransport` describes and requests that their attempt accounts for (`IndInvV3`), every call with a deadline returns |
| `ClientV3_legacy` | 2 callers, 2 calls, 3 connections | the v3 client in legacy mode implements `ClientV2`; nothing runs twice |
| `ClientV3_retry` (violation) | 2 callers, 3 connections, v2 server | the retry can go out on a JSON connection |
| `CodecStream` | 5 calls, 5 pairs of secrets, all uses but the two below (`Sound`) | nothing lost, headers and bodies match, no body between different keys and none refused between equal ones, everything delivered or noticed, `StreamInv` |
| `JSONBudget` | limits 7 and 8, sizes 1 to 17, prefix of 5 bytes | memory bounded, limits as strict as stated and no stricter, `IndInv` |
| `CodecStream_readahead` (violation) | 3 calls, pipelined JSON crypto | messages that the blob decoder read ahead are dropped |
| `CodecStream_orphan` (violation) | 3 calls, JSON client | an orphan header precedes the next request |
| `SessionV1` | 3 calls | stopping never crashes, the loop stops, what was accepted is served after it (but for one connection), calls return while it is up |
| `Server` | 2 connections, v2 and v3 | sockets released on every path, a session ends after a response that cannot be written (`BrokenSessionEnds`), loop not blocked by silent peers, stops with its context |
| `Proxy` | 2 requests, 1 slot, sizes 1..3 around limits 1 and 2, timeout or none, 3 kinds of backend | slots balance, clients bounded, codes true, no call runs twice or is seen by a backend before all checks (`RunsAtMostOnce`), trusted identity, every call answered unless its backend does not read |
| `ProxySetup` | up to 3 variables of 8 names and 4 values, 32 allowlists, 8 methods | the table is what the environment defines, targets usable, allowlist as promised |

**Why the bounds are enough.** The session client shares one connection, so two
callers already give every interleaving of a failing call with a redial; two calls
each let a late `invalidate` meet the connection of a later call. In
`ClientV3_auto` the second connection is the one of the fallback, which is what its
liveness is about; a third dial fails, as it may anyway. Its safety properties were
also checked with four connections (two callers with two attempts each never need
more), without the liveness property: there `FallbackSticks` sees connections made after
the fallback was closed and dropped. In `Server` connections meet only in the backlog
and in the loop, so a second one is all that a first can hold up. Five calls
let the decoders be several messages behind or ahead. In `JSONBudget` 17 is beyond
twice the larger limit, and the limits leave one and two bytes for a body behind its
separator and prefix. In the proxy two requests for one slot give
contention; sizes lie below, between and above both limits. Three variables let a later one
override, complete or precede the others of its service. For the safety properties of
the passing runs the bounds do not matter in the end: they are proved (section 4).
Where deadlock is not checked, the system may stop: all calls of the bound are made.

**Fairness.** A runnable goroutine runs (weak fairness of its step). The lock steps
of the clients are strongly fair: `sync.Mutex` hands the lock to a goroutine that has
waited long enough. Every step of a caller leads it on, so fairness is stated once
for all steps that need the mutex and once for all that do not. A dial ends, by the
dialler's or the system's timeout. A server that can decode a request executes it and answers. `ClientV3_auto`
also assumes that every context ends, because a gob server may wait for ever for the
rest of a JSON header; the proxy always sets such a timeout. In `CodecStream` the
reader reads what has arrived; of a codec that is out of step nothing is assumed,
because gob may wait for the rest of a length that it misread. In `Proxy` timers
fire, and nothing is assumed of the backend, of the caller or of the order in which
slots are given. A backend need not even read: the write of a request is under no
fairness, and `EveryCallAnswered` excepts a call that stays in it for ever. In `Server`
and `SessionV1` the loop takes a branch that stays ready, the backlog is served, a read
on a connection that is closed or whose peer is gone returns, and methods return;
accept errors, peers and the context owe nothing. `JSONBudget` and `ProxySetup` state no
fairness.

## 4. Proofs

Every invariant, every action property and the refinement of the passing runs is
stated by a theorem, for every value of the constants. Where a property is not
inductive the inductive invariant that implies it is checked by a run as well, or as
a part of the property itself.

### ClientV2Proofs
For every set of callers and every bound on calls and connections, from
`ClientAssumption` (the bounds are naturals, `NoOne` is no caller): `Invariance`
(`Spec => []IndInv`), `TypeCorrect` (`TypeOK`), `SingleSession` (`OneSession`),
`FailedConnIsReset` (`FailedConnReset`, an action property).

`OneSession` (the open connections are exactly the cached one) is not inductive: a
dial that succeeds would leak a connection that somebody cached meanwhile. `LockInv`
excludes that: the mutex is held exactly by the caller that dials, and nothing is
cached while it is held. `InCallInv` says that a caller in `Call` works with a
connection that was dialled, which `FailedConnReset` needs: the connection that
failed is not `unused`, by `OneSession` it is closed or the cached one, and
`invalidate` closes the cached one. The lemmas about the steps are stated over any
set of locations, so that the v3 client, which has one more, uses the same ones.

### ClientV3Proofs
From `ClientAssumption` and `TransportAssumption` (a transport of the three, servers
that speak any subset of the two codecs and change at any moment):

* `InvarianceV3`: `SpecV3 => []IndInvV3`;
* `DuplicateIsUnique` (`AtMostOneDuplicate`): over the life of a client at most one call
  is executed twice, at least once over JSON, however many callers fail together;
* `FixedTransportOnce` (`AtMostOnce`): nothing is executed twice without auto mode;
* `FailedConnIsResetV3`, `FallbackIsSticky` (`FallbackSticks`), `RetryAnswersJSON`
  (`RetryAfterJSON`): action properties;
* `FixedImplementsV2` (`ImplementsV2`): a v3 client with a fixed transport and one
  server that speaks it implements `ClientV2`.

The duplicate is about requests that *may* have reached a server, so the invariant
counts `sent` and `ran` together (`Made`). `RetryInv` says how they came about:
`KindInv` (before the fallback every connection ever dialled is JSON, which is why
`wasJSON`, read from `activeTransport` after the fact, is right about the connection that
failed), `MadeInv` (a request belongs to a call that was begun and to a connection
that exists), `AttemptInv` (only one caller can be in a second attempt, because `Mark`
sets `jsonFallback` in the same critical section in which it allows the retry),
`OwnInv` (nothing was sent for a call before its first `Send`; before its second one
only over JSON, and then no other call has been sent twice) and `DuplicateInv`. The
steps that neither dial, send nor change the mode share one lemma (`QuietStep`).
`FallbackSticks` does not mention `jsonFallback`: it speaks of the gob connections and
repeated calls that have been seen. `KindInv` and `AttemptInv` say that these imply
the field, and `NewConnection` that only `DialOkV3` makes a connection, by the field.

For the refinement `mark` maps to `done`: what happens between `InvalidateV3` and
`Mark` has already been decided for the v2 client, so `InvalidateV3` maps to
`Invalidate` and `Mark` to a stutter. `MarkMaps` needs the fixed transport, since in
auto mode `Mark` may start over; `NoReject` needs the server that speaks it, since a
v2 server never rejects a request of a v2 client. These are the hypotheses of the
theorem and the constants of `ClientV3_legacy`.

### CodecStreamProofs
From `StreamAssumption`, for any number of calls, any segmentation and a cut anywhere:
`TypeCorrect` for all sessions, and for sessions that are all `Sound`:

* `StreamInductive`: `Spec => []StreamInv`; `StreamKeepsAll` (`NothingLost`);
* `HeadersGetTheirBodies` (`PairsMatch`);
* `KeysAreChecked` (`KeysGuardBodies`).

`Sound` excludes the two uses of section 5 in which the code loses bytes or leaves a
header behind: overlapping calls to a JSON reader that has a key, and request bodies
that a client other than the gob crypto one cannot encode. The runs
`CodecStream_readahead` and `CodecStream_orphan` show that the theorems fail without
it. `NothingLost` (taken, buffered and unread tokens are together what was flushed)
says that the reader is at a known place of the stream. `FramesInv` says what stands
there: header, prefix and body of one call behind each other, but for a header at the
very end of a stream that the server shut. `TurnsInv` is what saves the JSON crypto
codec when calls do not overlap: behind the message that is being read there is no
header, hence nothing to be lost with the blob decoder. `StepInv` says that its
decoders stay in step: between two calls nothing is put back (`rest = 0`), and a
header is read only behind a body. With these, the token that follows a header taken
is the body of the same call, from which the pairs and the keys follow.

### JSONBudgetProofs
For every default, every set of options (zero and negative ones too), every prefix
length and all message sizes, from `BudgetAssumption`:

* `BudgetInductive`: `Spec => []IndInv`;
* `MemoryIsBounded` (`MemoryBounded`): never more than twice the limit in memory;
* `AcceptedIsBounded` (`AcceptedBounded`): a plain message of at most twice the limit,
  an encrypted body of at most the limit;
* `RefusalIsJust` (`NoFalseRefusal`): a message within the limit is never refused.

None of the last three is inductive. `IndInv` adds the types and `BudgetInv`, which
says what the buffer and the budget are together: while the JSON decoder reads, `buf +
left` is at least the limit (so a budget that is used up has delivered a limit's worth
of bytes for this message) and at most twice the limit; once the budget is touched,
what the decoder holds beyond the message is less than one budget, which is why the
next message starts with at most one limit of bytes read ahead. For an encrypted body
the budget of the connection never ends before that of the body. There is one lemma
per action.

### SessionV1Proofs, ServerProofs
For any set of calls or connections. `StoppingIsClean` (`StopIsClean`): an accept
error of an open listener is the only source of a nil connection. `LoopInv` of
`SessionV1` makes it inductive: the listener is open exactly while the loop selects,
so an accept that fails because the listener was closed is seen by nobody;
`waitForClient` holds at most one connection. `SocketsAreReleased` (`SocketReleased`)
holds step by step along the deferred calls of `ServeConn`; before these the socket
can be closed, but only by a response that could not be written, and only once there
is a codec. `AcceptReturnsError` (`StopsForContext`) needs `LoopInv` of `Server`: the
watcher owns the listener and closes it only for the context, so `net.ErrClosed` means
that `ctx.Err()` is not nil.

### ProxyProofs
From `ProxyAssumption`, for any finite set of requests, any limit, table, sizes and
timeouts (zero and negative too). `Invariance` shows `SlotsMatch` and `RunsAtMostOnce`
together, for the slots depend on where every request is:

* `SlotsAreCounted` (`SlotsMatch`), by the cardinality theorems: a step moves one request
  into or out of the holders of slots exactly when it sends to or receives from
  `limitCh`;
* `CallsRunOnce` (`RunsAtMostOnce`): `StageInv` says how far a request can be,
  `ReachedInv` that the backend knows only of requests past every check, and that the
  one request sent is on its way, was run or was rejected;
* `ClientsAreBounded`, `IdentityIsTrusted`: consequences of the two;
* `CodesAreTruthful`, `NoTimeMeansNoCall`: each with an invariant about the answers
  given so far on top. The latter is about a disagreement (section 5): with a timeout
  of zero or less no request ever leaves the proxy.

The assumption that the transports of the table are among the known ones is not
taken on trust: it is what `ReadyTargetsAreUsable` proves of the table that
`ProxySetup` builds.

### ProxySetupProofs
From `SetupAssumption`, for every environment of any length, every set of names and
values: `TableIsTheEnvironments` (`TableMatchesEnv`), `ReadyTargetsAreUsable`
(`TargetsUsable`), `AllowlistKeepsPromise` (`AllowlistAsPromised`). `RawInv` is the loop
invariant of `ConfigFromEnv`: after each variable the map is what the variables read
so far define as a whole (`Settings`, `Effective`: the last one of its kind wins).
`CheckedInv` carries what the checks have established into the later stages.

### Only model-checked
Liveness, which is out of TLAPS's reach: `CallReturns` of both clients and of
v1, `CallReturnsV3`, `AllDelivered`, `MismatchNoticed`, `DrainsAfterStop`,
`AcceptStops`, `BacklogServed`, `GoneIsReleased`, `BrokenSessionEnds`,
`EveryCallAnswered`. The three
violations are TLC's counterexamples.

## 5. Disagreements between code and comments

Shown by runs: the retry that is not on a legacy connection (`ClientV3_retry`), the
messages that JSON crypto loses under pipelining (`CodecStream_readahead`), the
header that stays in the JSON client's buffer (`CodecStream_orphan`).

Seen while modelling, without a run of their own:
* `v2/client.go:108`: a late `invalidate` closes the healthy connection that another
  caller dialled meanwhile; that caller's call fails with `ErrShutdown`.
* `v3/client.go:98`: of two callers that fail together on a v2 server only one is
  repeated; `v3/client.go:94`: the fallback happens after any later connection error
  too, an expired deadline or an `ErrShutdown` caused by another caller's
  `invalidate` included, not only "on the first call" (line 25), and a client that
  was once downgraded stays so when the server is upgraded.
* `v3/codec/json_server_codec.go:39`: the limit is for what one `Decode` reads, not
  for one message: a plain message of up to twice the limit can pass, because part of
  it was read ahead at the cost of the one before. Encrypted bodies are held to it.
* Ends with different keys: the gob codecs may wait for bytes that never come when
  only one end has a key; the JSON codecs fail at once, and mostly end the session.
* `v3/proxy/invoke.go:60`: `InvokerWithCallTimeout(0)` stores 0 although its comment
  (lines 57-58, "≤0 — без изменения дефолта") promises the default; every call then
  starts with an expired context and none reaches a backend. The theorem
  `NoTimeMeansNoCall` is the proof of it.
* `v3/proxy/invoke.go:139`: the call timeout does not bound the write of the request: a
  backend that accepts the connection and does not read a large one keeps the
  call, its client and its slot.
* `v3/codec/negotiate.go:31`: a gob stream that begins with a brace and ends there is
  taken for JSON. Nothing is decoded of it either way.
* `v3/proxy/invoke.go:139`: the payload is measured as it came in; on the wire it is
  compacted and HTML-escaped by `json.Encoder`, so a payload within the limit can be
  longer there, and it is not passed on byte by byte.
* `v3/proxy/errors.go`: `backend_error` does not say that the method ran: an unknown
  method, an argument that cannot be decoded or another key are answered the same way.
* `v3/proxy/config.go`: service names from the environment are lower-cased, while
  `Resolve` compares them as they are.
* `v3/proxy/invoke.go:197`: the client factory does not pass on the payload limit, so
  a limit above 4MB does not apply to replies.
* `v3/proxy/errors.go:25`: every EOF is reported as `backend_not_json`.
* `server.go:92`: any accept error of the v1 server crashes the process;
  `server.go:64`: a connection in the hands of `waitForClient` when the context ends
  is neither served nor closed.
* `v3/proxy/config.go:77`: a service whose name ends in `_secret` or `_transport`
  cannot be given an address.

## 6. Not modelled

Nonces and tags of the cipher (library calls; `normalizeKey` and what decryption
promises are in `CodecStream`); `BytesReadWriteCloser` in `codec/buffer.go` (a test
helper that no codec uses); metrics and logging, which keep no state that anything
else reads; options that only store a value; the request and response helpers, plain
data types; a proxy service that is not fully configured (it returns a plain error
before anything happens); an invalid key, which makes the constructors panic; how
JSON and gob encode a value, but for the lengths that the limits depend on.

## 7. Plan

What is left is proofs:

1. `CodecStream`: what remains true in the sessions that are not `Sound`. Overlapping
   calls over the JSON crypto codec lose messages, but should never mix them: what the
   reader has not decoded is still one piece of the stream, though no longer the
   piece that follows. That needs an invariant weaker than `NothingLost`.
2. `ClientV3`: auto mode against servers that only speak gob executes nothing twice
   (`AtMostOneDuplicate` says that one of two executions is over JSON; that only
   decodable requests are executed is missing in `IndInvV3`).
3. `SessionV1`: what is left open after `Accept` has returned, as an invariant.
