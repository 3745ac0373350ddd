------------------------------- MODULE Proxy --------------------------------
(***************************************************************************)
(* The generic proxy of rpc2/v3/proxy: Service.Call (service.go) and       *)
(* RPCInvoker.Invoke (invoke.go), run concurrently for many requests.      *)
(*                                                                         *)
(* A request is validated, checked against the allowlist and routed, then  *)
(* it waits for a slot of limitCh, opens a client of its own, calls the    *)
(* backend under a timeout and gives everything back in deferred calls.    *)
(* SplitMethod, the allowlist, the transport and the headers come from     *)
(* ProxyRules; the client of rpc2/v3 (see ClientV3) is modelled by the     *)
(* error classes it returns and by its retry in auto mode.                 *)
(***************************************************************************)
EXTENDS ProxyRules, FiniteSets

CONSTANTS
    Requests,           \* concurrent calls of proxy.Call
    Methods,            \* method names that requests carry
    AllowEntries,       \* entries of the allowlist
    Policy,             \* policy of the allowlist
    Targets,            \* the routing table: the transport that is configured
                        \* for a service, and what its backend understands
    Sizes,              \* payload sizes of requests and replies
    Metadata,           \* metadata of each request
    Inbound,            \* headers of the context each request comes with
    MaxConcurrent,      \* capacity of limitCh; 0: no limit
    MaxPayload,         \* InvokerWithMaxPayload; 0: not set
    DefaultMaxJSONBody, \* limit of the JSON codecs at both ends
    Timeouts            \* values of InvokerWithCallTimeout

ASSUME ProxyAssumption ==
    /\ Policy \in Policies /\ NewAllowlist(AllowEntries, Policy).ok
    /\ \A s \in DOMAIN Targets : /\ Targets[s].transport \in {""} \cup Transports
                                /\ Targets[s].speaks \subseteq {"json", "legacy"}
    /\ Sizes \subseteq Nat
    /\ MaxConcurrent \in Nat
    /\ MaxPayload \in Int /\ DefaultMaxJSONBody \in Nat /\ Timeouts \subseteq Int
    /\ IsFiniteSet(Requests)

\* The codes of CallError; "ok" stands for a response without an error.
Refusals == {"bad_request", "allowlist_denied", "route_error"}
Codes == Refusals \cup {"backend_error", "transport_error", "payload_too_large",
                        "backend_not_json"}

\* What client.Call returns: nil, the context, a ServerError, the EOF family,
\* another error of the link, a reply that the codec cannot decode.
CtxErrors == {"deadline", "canceled"}

VARIABLES
    timeout,   \* callTimeout of the invoker
    pc,        \* where each request is
    method,    \* its method
    size,      \* length of its payload
    ctx,       \* the context it came with (its own deadline counts as a cancel)
    callCtx,   \* the context of the call: ctx with the timeout
    limitCh,   \* slots taken in limitCh
    client,    \* transport of the request's client, "none" while it has none
    sent,      \* <<request, transport>> on their way to the backend
    runs,      \* history: how often the backend ran the method for a request
    rejected,  \* requests that the backend answers without running a method
    passed,    \* history: headers that went out with a request
    res,       \* the code of the outcome, "none" while there is none
    reply      \* history: length of the backend's reply, -1 while there is none

inVars  == <<timeout, method, size, ctx>>
netVars == <<sent, runs, rejected, passed>>
vars    == <<pc, inVars, callCtx, limitCh, client, netVars, res, reply>>

\* StaticRouter.Resolve.
Resolves(service) == service \in DOMAIN Targets
TargetOf(r) == Targets[SplitMethod(method[r]).service]

\* The transport of the client that Invoke makes for r.
TransportOf(r) == ClientTransport(TargetOf(r).transport)

NoHeaders == [k \in {} |-> <<>>]

Locations == {"idle", "invoke", "limit", "client", "call", "write", "wait",
              "close", "release", "return", "done"}

\* Types of the requests' locals and of what the backends hold.
LocalTypeOK ==
    /\ timeout \in Timeouts
    /\ pc \in [Requests -> Locations]
    /\ method \in [Requests -> Methods]
    /\ size \in [Requests -> Sizes]
    /\ ctx \in [Requests -> {"live", "canceled"}]
    /\ callCtx \in [Requests -> {"live"} \cup CtxErrors]
    /\ client \in [Requests -> Transports \cup {"none"}]
    /\ sent \subseteq Requests \X {"json", "legacy"}
    /\ runs \in [Requests -> 0..2] /\ rejected \subseteq Requests
    /\ DOMAIN passed = Requests
    /\ res \in [Requests -> Codes \cup {"ok", "none"}]
    /\ reply \in [Requests -> Sizes \cup {-1}]

\* Types of the locals and of the shared invoker.
TypeOK == LocalTypeOK /\ limitCh \in 0..MaxConcurrent

Init ==
    /\ timeout \in Timeouts
    /\ pc = [r \in Requests |-> "idle"]
    /\ method \in [Requests -> Methods]
    /\ size \in [Requests -> Sizes]
    /\ ctx = [r \in Requests |-> "live"]
    /\ callCtx = [r \in Requests |-> "live"]
    /\ limitCh = 0
    /\ client = [r \in Requests |-> "none"]
    /\ sent = {}
    /\ runs = [r \in Requests |-> 0]
    /\ rejected = {}
    /\ passed = [r \in Requests |-> NoHeaders]
    /\ res = [r \in Requests |-> "none"]
    /\ reply = [r \in Requests |-> -1]

-----------------------------------------------------------------------------
(* Service.Call up to Invoke.                                              *)

Goto(r, to) == pc' = [pc EXCEPT ![r] = to]

\* r gets the code c and goes on at location to.
Answer(r, c, to) == Goto(r, to) /\ res' = [res EXCEPT ![r] = c]

\* The checks of Service.Call in their order; "ok" when all pass.
Refusal(m) ==
    IF ~SplitMethod(m).ok THEN "bad_request"
    ELSE IF ~Allowed(NewAllowlist(AllowEntries, Policy), m) THEN "allowlist_denied"
    ELSE IF ~Resolves(SplitMethod(m).service) THEN "route_error"
    ELSE "ok"

Validate(r) ==
    /\ pc[r] = "idle"
    /\ LET c == Refusal(method[r])
       IN IF c = "ok" THEN Goto(r, "invoke") /\ UNCHANGED res ELSE Answer(r, c, "done")
    /\ UNCHANGED <<inVars, callCtx, limitCh, client, netVars, reply>>

-----------------------------------------------------------------------------
(* Invoke.                                                                 *)

PayloadLimit == IF MaxPayload > 0 THEN MaxPayload ELSE DefaultMaxJSONBody

\* context.WithTimeout: a timeout that is not positive has already expired.
NewCallCtx == IF timeout > 0 THEN "live" ELSE "deadline"

\* Faulty variant of Enter: the payload is not measured.
EnterUnlimited(r) ==
    /\ pc[r] = "invoke"
    /\ \/ /\ ctx[r] # "live"
          /\ Answer(r, "transport_error", "return")
          /\ UNCHANGED callCtx
       \/ /\ ctx[r] = "live"
          /\ callCtx' = [callCtx EXCEPT ![r] = NewCallCtx]
          /\ Goto(r, IF MaxConcurrent > 0 THEN "limit" ELSE "client")
          /\ UNCHANGED res
    /\ UNCHANGED <<inVars, limitCh, client, netVars, reply>>

\* The context and the size of the payload are checked before any resource is
\* taken; then the timeout starts.
Enter(r) ==
    /\ pc[r] = "invoke"
    /\ \/ /\ ctx[r] # "live"
          /\ Answer(r, "transport_error", "return")
          /\ UNCHANGED callCtx
       \/ /\ ctx[r] = "live" /\ size[r] > PayloadLimit
          /\ Answer(r, "payload_too_large", "return")
          /\ UNCHANGED callCtx
       \/ /\ ctx[r] = "live" /\ size[r] <= PayloadLimit
          /\ callCtx' = [callCtx EXCEPT ![r] = NewCallCtx]
          /\ Goto(r, IF MaxConcurrent > 0 THEN "limit" ELSE "client")
          /\ UNCHANGED res
    /\ UNCHANGED <<inVars, limitCh, client, netVars, reply>>

\* select: a free slot ...
Acquire(r) ==
    /\ pc[r] = "limit"
    /\ limitCh < MaxConcurrent
    /\ limitCh' = limitCh + 1
    /\ Goto(r, "client")
    /\ UNCHANGED <<inVars, callCtx, client, netVars, res, reply>>

\* ... or the end of the context, which takes no slot.
LimitTimeout(r) ==
    /\ pc[r] = "limit"
    /\ callCtx[r] # "live"
    /\ Answer(r, "transport_error", "return")
    /\ UNCHANGED <<inVars, callCtx, limitCh, client, netVars, reply>>

NewClient(r) ==
    /\ pc[r] = "client"
    /\ client' = [client EXCEPT ![r] = TransportOf(r)]
    /\ Goto(r, "call")
    /\ UNCHANGED <<inVars, callCtx, limitCh, netVars, res, reply>>

\* Faulty variant of NewClientFail: the early return skips the slot.
NewClientFailKeepsSlot(r) ==
    /\ pc[r] = "client"
    /\ Answer(r, "transport_error", "return")
    /\ UNCHANGED <<inVars, callCtx, limitCh, client, netVars, reply>>

\* An injected client factory may fail: there is no client to close.
NewClientFail(r) ==
    /\ pc[r] = "client"
    /\ Answer(r, "transport_error", "release")
    /\ UNCHANGED <<inVars, callCtx, limitCh, client, netVars, reply>>

-----------------------------------------------------------------------------
(* client.Call and the backend.                                            *)

\* mapCallError.
MapCallError(e) ==
    CASE e = "server" -> "backend_error"
      [] e = "eof"    -> "backend_not_json"
      [] OTHER        -> "transport_error"

CallFails(r, e) == Answer(r, MapCallError(e), "close") /\ UNCHANGED reply

\* The transport of the next connection of a client.
Wire(transport) == IF transport = "auto" THEN "json" ELSE transport

\* The session is dialled under the context of the call.
Dial(r) ==
    /\ pc[r] = "call"
    /\ callCtx[r] = "live"
    /\ Goto(r, "write")
    /\ UNCHANGED <<inVars, callCtx, limitCh, client, netVars, res, reply>>

\* The context is over, or the dial fails.
DialFails(r) ==
    /\ pc[r] = "call"
    /\ CallFails(r, IF callCtx[r] = "live" THEN "link" ELSE callCtx[r])
    /\ UNCHANGED <<inVars, callCtx, limitCh, client, netVars>>

\* The request is written, with its headers.  The write pays no attention to
\* the context: it lasts as long as the backend does not read.
SendRequest(r) ==
    /\ pc[r] = "write"
    /\ sent' = sent \cup {<<r, Wire(client[r])>>}
    /\ passed' = [passed EXCEPT ![r] = IdentityHeaders(Metadata[r], Inbound[r])]
    /\ Goto(r, "wait")
    /\ UNCHANGED <<inVars, callCtx, limitCh, client, runs, rejected, res, reply>>

\* The link breaks under the write, or the payload is no JSON.
SendFails(r) ==
    /\ pc[r] = "write"
    /\ CallFails(r, "link")
    /\ UNCHANGED <<inVars, callCtx, limitCh, client, netVars>>

\* A backend that understands the transport takes the request, possibly after
\* the proxy gave it up, and runs the method ...
Dispatch(r, t) ==
    /\ <<r, t>> \in sent
    /\ t \in TargetOf(r).speaks
    /\ sent' = sent \ {<<r, t>>}
    /\ runs' = [runs EXCEPT ![r] = @ + 1]
    /\ UNCHANGED <<pc, inVars, callCtx, limitCh, client, rejected, passed, res, reply>>

\* ... or answers with an error: no such method, or an argument that it cannot
\* decode (its type, its size, its key; over gob nearly every one).
Reject(r, t) ==
    /\ <<r, t>> \in sent
    /\ t \in TargetOf(r).speaks
    /\ sent' = sent \ {<<r, t>>}
    /\ rejected' = rejected \cup {r}
    /\ UNCHANGED <<pc, inVars, callCtx, limitCh, client, runs, passed, res, reply>>

\* A reply of n bytes that the client's codec has decoded or not: the context
\* is over, or Invoke refuses it, or it is returned.
ReplyCode(r, n, decoded) ==
    IF ~decoded THEN MapCallError("codec")
    ELSE IF callCtx[r] # "live" THEN MapCallError(callCtx[r])
    ELSE IF n > PayloadLimit THEN "payload_too_large" ELSE "ok"

\* The backend answers, or reports an error.  The JSON codec may refuse a reply
\* above its limit, but need not (see JSONBudget); the gob codec has no limit,
\* but hardly any reply of a method fits json.RawMessage.
CallReturns(r) ==
    /\ pc[r] = "wait"
    /\ \/ /\ r \in rejected \/ runs[r] > 0
          /\ CallFails(r, "server")
       \/ /\ runs[r] > 0
          /\ \E n \in Sizes, decoded \in BOOLEAN :
                /\ decoded \/ Wire(client[r]) = "legacy" \/ n > DefaultMaxJSONBody
                /\ Answer(r, ReplyCode(r, n, decoded), "close")
                /\ reply' = [reply EXCEPT ![r] = n]
    /\ UNCHANGED <<inVars, callCtx, limitCh, client, netVars>>

\* The connection ends first: the backend hangs up on what it cannot decode
\* or stops at any moment (EOF), or the link breaks.  A client in auto mode
\* would repeat the call over gob.
CallCut(r) ==
    /\ pc[r] = "wait"
    /\ IF client[r] = "auto"
       THEN /\ client' = [client EXCEPT ![r] = "legacy"]
            /\ Goto(r, "call")
            /\ UNCHANGED <<res, reply>>
       ELSE /\ \E e \in {"eof", "link"} : CallFails(r, e)
            /\ UNCHANGED client
    /\ UNCHANGED <<inVars, callCtx, limitCh, netVars>>

\* Faulty variant of CallAborted: the call runs under the inbound context, the
\* timeout does not apply to it.
CallAbortedByCaller(r) ==
    /\ pc[r] = "wait"
    /\ ctx[r] # "live"
    /\ CallFails(r, ctx[r])
    /\ UNCHANGED <<inVars, callCtx, limitCh, client, netVars>>

\* The context ends the call.
CallAborted(r) ==
    /\ pc[r] = "wait"
    /\ callCtx[r] # "live"
    /\ CallFails(r, callCtx[r])
    /\ UNCHANGED <<inVars, callCtx, limitCh, client, netVars>>

-----------------------------------------------------------------------------
(* The deferred calls of Invoke, last registered first, and the response.  *)

\* Faulty variant of CloseClient: only the slot is given back, the client stays
\* open.
ReleaseFirst(r) ==
    /\ pc[r] = "close"
    /\ limitCh' = IF MaxConcurrent > 0 THEN limitCh - 1 ELSE limitCh
    /\ Goto(r, "return")
    /\ UNCHANGED <<inVars, callCtx, client, netVars, res, reply>>

CloseClient(r) ==
    /\ pc[r] = "close"
    /\ client' = [client EXCEPT ![r] = "none"]
    /\ Goto(r, "release")
    /\ UNCHANGED <<inVars, callCtx, limitCh, netVars, res, reply>>

Release(r) ==
    /\ pc[r] = "release"
    /\ limitCh' = IF MaxConcurrent > 0 THEN limitCh - 1 ELSE limitCh
    /\ Goto(r, "return")
    /\ UNCHANGED <<inVars, callCtx, client, netVars, res, reply>>

\* Service.Call stores the outcome and observes it.
Return(r) ==
    /\ pc[r] = "return"
    /\ Goto(r, "done")
    /\ UNCHANGED <<inVars, callCtx, limitCh, client, netVars, res, reply>>

\* The proxy's caller goes away: its context ends, and the derived one.
Cancel(r) ==
    /\ pc[r] \in {"invoke", "limit", "client", "call", "write", "wait"}
    /\ ctx[r] = "live"
    /\ ctx' = [ctx EXCEPT ![r] = "canceled"]
    /\ callCtx' = [callCtx EXCEPT ![r] = IF @ = "live" THEN "canceled" ELSE @]
    /\ UNCHANGED <<pc, timeout, method, size, limitCh, client, netVars, res, reply>>

\* The timeout of the call expires.
Expire(r) ==
    /\ pc[r] \in {"limit", "client", "call", "write", "wait"}
    /\ callCtx[r] = "live"
    /\ callCtx' = [callCtx EXCEPT ![r] = "deadline"]
    /\ UNCHANGED <<pc, inVars, limitCh, client, netVars, res, reply>>

Next == \E r \in Requests :
    \/ Validate(r) \/ Enter(r) \/ Acquire(r) \/ LimitTimeout(r)
    \/ NewClient(r) \/ NewClientFail(r)
    \/ Dial(r) \/ DialFails(r) \/ SendRequest(r) \/ SendFails(r)
    \/ \E t \in {"json", "legacy"} : Dispatch(r, t) \/ Reject(r, t)
    \/ CallReturns(r) \/ CallCut(r) \/ CallAborted(r)
    \/ CloseClient(r) \/ Release(r) \/ Return(r)
    \/ Cancel(r) \/ Expire(r)

\* Goroutines run and timers fire.  Nothing is assumed of the backend, not even
\* that it reads, nor of the proxy's caller, nor of the order in which waiting
\* requests get slots.
Fairness == \A r \in Requests :
    /\ WF_vars(Validate(r) \/ Enter(r) \/ NewClient(r) \/ NewClientFail(r)
               \/ Dial(r) \/ DialFails(r) \/ CloseClient(r) \/ Release(r) \/ Return(r))
    /\ WF_vars(Expire(r))
    /\ WF_vars(LimitTimeout(r))
    /\ WF_vars(CallAborted(r))

Spec     == Init /\ [][Next]_vars
FairSpec == Spec /\ Fairness
-----------------------------------------------------------------------------
(* Properties.                                                             *)

\* Locations of Invoke at which a slot is held.
Holders == {r \in Requests : pc[r] \in {"client", "call", "write", "wait", "close", "release"}}

\* The counter of limitCh is exactly the number of requests that hold a slot,
\* on every path through Invoke: none is lost and none is given back twice.
SlotsMatch == TypeOK /\ (MaxConcurrent > 0 => limitCh = Cardinality(Holders))

\* Requests whose client is open.
Open == {r \in Requests : client[r] # "none"}

\* The concurrency limit limits what it is for: never more clients, hence
\* connections to backends, than slots, although clients are closed and slots
\* released in separate deferred calls; and no client outlives its request.
ClientsBounded ==
    /\ MaxConcurrent > 0 => Cardinality(Open) <= MaxConcurrent
    /\ \A r \in Open : pc[r] # "done"

Reached(r) == runs[r] > 0 \/ r \in rejected \/ \E t \in {"json", "legacy"} : <<r, t>> \in sent

\* What the codes promise a caller that wants to retry: after a refusal, or a
\* refusal of the request's size, the backend never sees the request, not even
\* later; an answer comes from the method, an error of the backend from the
\* backend, and neither from one that does not understand the transport; no
\* reply above the limit is passed on.
CodesTruthful == \A r \in Requests :
    /\ res[r] \in Refusals \/ size[r] > PayloadLimit => ~Reached(r)
    /\ res[r] = "ok" => runs[r] > 0
    /\ res[r] = "backend_error" => runs[r] > 0 \/ r \in rejected
    /\ res[r] \in {"ok", "backend_error"} =>
          TransportOf(r) \in TargetOf(r).speaks
    /\ res[r] = "ok" => reply[r] <= PayloadLimit

\* How far r can be, given what is known of it: it is past the checks, its
\* client is open exactly during the call, and without time it is never sent.
StageInv(r) ==
    /\ pc[r] \in {"idle", "invoke", "limit", "client", "call", "write", "wait"}
          => res[r] = "none"
    /\ pc[r] \notin {"idle", "done"} => Refusal(method[r]) = "ok"
    /\ pc[r] \in {"limit", "client", "call", "write", "wait"} => size[r] <= PayloadLimit
    /\ client[r] = IF pc[r] \in {"call", "write", "wait", "close"} THEN TransportOf(r)
                   ELSE "none"
    /\ timeout <= 0 => /\ pc[r] \notin {"write", "wait"}
                       /\ pc[r] \in {"limit", "client", "call"} => callCtx[r] # "live"

\* What is known of r once the backend may see it.  Of the one request that is
\* sent, one of three is true: it is on its way, it was run, it was rejected.
ReachedInv(r) ==
    /\ Reached(r) =>
          /\ pc[r] \in {"wait", "close", "release", "return", "done"}
          /\ Refusal(method[r]) = "ok" /\ res[r] \notin Refusals
          /\ size[r] <= PayloadLimit /\ timeout > 0
          /\ passed[r] = IdentityHeaders(Metadata[r], Inbound[r])
    /\ \A t \in {"json", "legacy"} : <<r, t>> \in sent =>
          t = TransportOf(r) /\ runs[r] = 0 /\ r \notin rejected
    /\ runs[r] > 0 \/ r \in rejected => TransportOf(r) \in TargetOf(r).speaks
    /\ runs[r] > 0 => r \notin rejected

\* A proxied call runs at most once, although a client of rpc2/v3 may run a
\* call twice (ClientV3): "the proxy requires a JSON backend", whatever
\* transport its table says, so no client falls back and repeats a call.
RunsAtMostOnce == \A r \in Requests : runs[r] <= 1 /\ StageInv(r) /\ ReachedInv(r)

\* "The context of the auth middleware is the trusted source": the backend sees
\* the identity that the middleware established, never one that the caller
\* claims over it, and no header outside the list.
IdentityTrusted == \A r \in Requests : Reached(r) =>
    /\ DOMAIN passed[r] \subseteq IdentityHeaderKeys
    /\ \A k \in IdentityHeaderKeys :
          Inbound[r][k] # <<>> => k \in DOMAIN passed[r] /\ passed[r][k] = Inbound[r][k]

\* Every accepted call is answered: with all slots taken, with a backend that
\* never answers, and whatever the proxy's caller does; but for a call whose
\* request its backend never reads.  That one keeps its slot, yet no other call
\* from its answer.
EveryCallAnswered == \A r \in Requests :
    pc[r] = "invoke" ~> (pc[r] = "done" \/ [](pc[r] = "write"))
=============================================================================
