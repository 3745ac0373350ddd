----------------------------- MODULE ProxyRules -----------------------------
(***************************************************************************)
(* The decisions of the generic proxy about a request: SplitMethod         *)
(* (proxy/service.go), the allowlist (proxy/allowlist.go), the checks of   *)
(* the routing table (proxy/router.go), the client's transport and the     *)
(* headers that are passed on (proxy/invoke.go).                           *)
(*                                                                         *)
(* A method name, and an entry of the allowlist after TrimSpace, is the    *)
(* sequence of its parts between dots: "miki.A.B" is <<"miki", "A", "B">>, *)
(* "miki." is <<"miki", "">> and the empty string is <<"">>.               *)
(***************************************************************************)
EXTENDS Integers, Sequences

\* Faulty variant of SplitMethod: a dot at the end is accepted.
SplitMethodTrailing(m) == [service |-> m[1], ok |-> Len(m) > 1 /\ m[1] # ""]

\* The service is what stands before the first dot; a name without a dot, with
\* the first dot at its beginning or that dot at its end is malformed.
SplitMethod(m) == [service |-> m[1],
                   ok |-> Len(m) > 1 /\ m[1] # "" /\ m # <<m[1], "">>]

-----------------------------------------------------------------------------
(* Allowlist.                                                              *)

Policies == {"default", "denyEmpty"}

IsBlank(e)    == e = <<"">>
IsWildcard(e) == e[2] = "*"

\* "Service.Method" or "Service.*", with a single dot.
ValidEntry(e) == Len(e) = 2 /\ e[1] # "" /\ e[2] # ""

\* NewAllowlist of a set of entries: blank ones are skipped, one that is not
\* valid makes it fail (ok), wildcards and exact names go to different maps.
NewAllowlist(entries, policy) ==
    LET used == {e \in entries : ~IsBlank(e)}
    IN [ok       |-> \A e \in used : ValidEntry(e),
        policy   |-> policy,
        exact    |-> {e \in used : ValidEntry(e) /\ ~IsWildcard(e)},
        services |-> {e[1] : e \in {f \in used : ValidEntry(f) /\ IsWildcard(f)}}]

\* allows: the one place where a method is compared with the list.
Allows(a, m) ==
    \/ m \in a.exact
    \/ SplitMethod(m).ok /\ SplitMethod(m).service \in a.services

\* Allowed: a list without entries lets everything pass under the default
\* policy and nothing under the other.
Allowed(a, m) ==
    \/ a.policy = "default" /\ a.exact = {} /\ a.services = {}
    \/ Allows(a, m)

-----------------------------------------------------------------------------
(* Targets.                                                                *)

NoPort   == -1    \* an address without a port
JunkPort == -2    \* a port that is no number
DefaultTargetPort == 2233
MaxPort  == 65535

\* Faulty variant of SplitHostPortDefault: the lower bound is off by one.
SplitHostPortFromZero(a) ==
    [host |-> a.host,
     port |-> IF a.port = NoPort THEN DefaultTargetPort ELSE a.port,
     ok   |-> IF a.port = NoPort THEN a.host # "" ELSE a.port \in 0..MaxPort]

\* splitHostPortDefault of an address [host, port]; ok is FALSE on an error.
SplitHostPortDefault(a) ==
    [host |-> a.host,
     port |-> IF a.port = NoPort THEN DefaultTargetPort ELSE a.port,
     ok   |-> IF a.port = NoPort THEN a.host # "" ELSE a.port \in 1..MaxPort]

Transports == {"auto", "json", "legacy"}

\* The checks of NewStaticRouter on the target t of service s (a sequence of
\* parts between underscores).
ValidTarget(s, t) ==
    /\ s # <<"">>
    /\ t.addr # ""
    /\ t.port \in 0..MaxPort
    /\ t.transport \in {""} \cup Transports

\* What the client makes of its transport option.
ClientWithTransport(value) == IF value \in {"json", "legacy"} THEN value ELSE "auto"

\* Faulty variant of ClientTransport: only the missing transport is replaced.
ClientTransportKeepsAuto(transport) ==
    ClientWithTransport(IF transport = "" THEN "json" ELSE transport)

\* defaultClientFactory: of a routing table that passed its checks, no client
\* falls back.
ClientTransport(transport) ==
    ClientWithTransport(IF transport \in {"", "auto"} THEN "json" ELSE transport)

-----------------------------------------------------------------------------
(* Identity.                                                               *)

IdentityHeaderKeys == {"X-User-Id", "X-Tenant-Id", "X-Groups", "X-Request-Id"}

\* Faulty variant of IdentityHeaders: the metadata, set last, win.
IdentityHeadersMetadata(md, inbound) ==
    [k \in {k \in IdentityHeaderKeys : md[k] # "" \/ inbound[k] # <<>>} |->
        IF md[k] # "" THEN <<md[k]>> ELSE inbound[k]]

\* identityHeaders: the metadata of the request (one value a key, "" for none),
\* then the headers of the inbound context over them; other keys are dropped.
IdentityHeaders(md, inbound) ==
    [k \in {k \in IdentityHeaderKeys : md[k] # "" \/ inbound[k] # <<>>} |->
        IF inbound[k] # <<>> THEN inbound[k] ELSE <<md[k]>>]
=============================================================================
