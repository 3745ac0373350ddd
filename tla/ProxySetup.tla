----------------------------- MODULE ProxySetup -----------------------------
(***************************************************************************)
(* How the generic proxy gets its tables: ConfigFromEnv (proxy/config.go)  *)
(* reads the environment variable by variable, then NewStaticRouter and    *)
(* NewAllowlist check what it collected.                                   *)
(*                                                                         *)
(* A variable PROXY_TARGET_<rest>=value has the name <rest> as sequence of *)
(* its parts between underscores ("" is <<"">>), and a value that can be   *)
(* read as an address, as a transport and as a secret.                     *)
(***************************************************************************)
EXTENDS ProxyRules, FiniteSets

CONSTANTS
    Names,       \* names <rest> that occur in the environment
    Lower,       \* strings.ToLower of names, without a suffix or with
    Values,      \* values, read as address [host, port], as transport and as
                 \* secret ("" none, "hex", "junk")
    MaxVars,     \* bound: variables in the environment
    AllowEntries,\* entries that PROXY_ALLOWLIST may hold
    Methods      \* methods that are asked for

Vars == [name : Names, value : Values]

ASSUME SetupAssumption ==
    /\ MaxVars \in Nat
    /\ \A n \in Names : Len(n) > 0 /\ Len(Lower[n]) = Len(n)
    /\ AllowEntries \subseteq Seq(STRING)

VARIABLES
    env,      \* the environment, in the order of os.Environ
    next,     \* index of the next variable to read
    raw,      \* the map raw: what was collected for each service
    stage,    \* "env", "router", "allow", "ready", or "failed"
    entries,  \* entries of PROXY_ALLOWLIST
    targets,  \* the routing table
    allow     \* the allowlist

vars == <<env, next, raw, stage, entries, targets, allow>>

EmptyTable == [s \in {} |-> 0]
NoAllow    == NewAllowlist({}, "default")

-----------------------------------------------------------------------------
(* What a variable means.                                                  *)

HasSuffix(n, suffix) == Len(n) > 1 /\ n[Len(n)] = suffix

Kind(n) == CASE HasSuffix(n, "TRANSPORT") -> "transport"
             [] HasSuffix(n, "SECRET")    -> "secret"
             [] OTHER                     -> "addr"

\* The service a name is about, in lower case; the suffix is matched before
\* the case is lowered.
Service(n) == LET low == Lower[n]
              IN IF Kind(n) = "addr" THEN low ELSE SubSeq(low, 1, Len(low) - 1)

\* PROXY_TARGET_, PROXY_TARGET__TRANSPORT and PROXY_TARGET__SECRET.
NoService(n) == Service(n) = <<"">>

EmptyRaw == [addr |-> [host |-> "", port |-> NoPort], hasAddr |-> FALSE,
             transport |-> "", secret |-> ""]

-----------------------------------------------------------------------------
(* ConfigFromEnv.                                                          *)

Init ==
    /\ env \in UNION {[1..n -> Vars] : n \in 0..MaxVars}
    /\ entries = {}
    /\ next = 1
    /\ raw = EmptyTable
    /\ stage = "env"
    /\ targets = EmptyTable
    /\ allow = NoAllow

Fail == stage' = "failed" /\ UNCHANGED <<raw, targets, allow>>

\* The record t after a variable of kind k with value v.
Update(t, k, v) ==
    CASE k = "transport" -> [t EXCEPT !.transport = v.transport]
      [] k = "secret"    -> [t EXCEPT !.secret = v.secret]
      [] OTHER           -> [t EXCEPT !.addr = v.addr, !.hasAddr = TRUE]

\* Faulty variant of Get: every variable starts a new record.
GetFresh(s) == EmptyRaw

\* get: the record of a service, created when it is new.
Get(s) == IF s \in DOMAIN raw THEN raw[s] ELSE EmptyRaw

\* One iteration of the loop over the environment.
ReadVar ==
    /\ stage = "env" /\ next <= Len(env)
    /\ next' = next + 1
    /\ LET n == env[next].name
           s == Service(n)
       IN IF NoService(n) THEN Fail
          ELSE /\ raw' = [x \in DOMAIN raw \cup {s} |->
                             IF x = s THEN Update(Get(s), Kind(n), env[next].value)
                             ELSE raw[x]]
               /\ UNCHANGED <<stage, targets, allow>>
    /\ UNCHANGED <<env, entries>>

\* A service without an address, with a bad address or a bad secret.
BadRaw(t) == ~t.hasAddr \/ ~SplitHostPortDefault(t.addr).ok \/ t.secret = "junk"

TargetOf(t) == [addr |-> SplitHostPortDefault(t.addr).host,
                port |-> SplitHostPortDefault(t.addr).port,
                secret |-> t.secret, transport |-> t.transport]

\* After the loop PROXY_ALLOWLIST is split; then the first bad service that is
\* found ends ConfigFromEnv.
BuildConfig ==
    /\ stage = "env" /\ next > Len(env)
    /\ entries' \in SUBSET AllowEntries
    /\ IF \E s \in DOMAIN raw : BadRaw(raw[s]) THEN Fail
       ELSE /\ targets' = [s \in DOMAIN raw |-> TargetOf(raw[s])]
            /\ stage' = "router"
            /\ UNCHANGED <<raw, allow>>
    /\ UNCHANGED <<env, next>>

BuildRouter ==
    /\ stage = "router"
    /\ IF \A s \in DOMAIN targets : ValidTarget(s, targets[s])
       THEN stage' = "allow" /\ UNCHANGED <<raw, targets, allow>>
       ELSE Fail
    /\ UNCHANGED <<env, next, entries>>

BuildAllowlist ==
    /\ stage = "allow"
    /\ \E p \in Policies : LET a == NewAllowlist(entries, p)
       IN IF a.ok THEN allow' = a /\ stage' = "ready" /\ UNCHANGED <<raw, targets>>
          ELSE Fail
    /\ UNCHANGED <<env, next, entries>>

Next == ReadVar \/ BuildConfig \/ BuildRouter \/ BuildAllowlist

Spec == Init /\ [][Next]_vars
-----------------------------------------------------------------------------
(* Properties.                                                             *)

\* Indices of the first n variables that set kind k of service s.
Settings(n, s, k) ==
    {i \in 1..n : Service(env[i].name) = s /\ Kind(env[i].name) = k}

Last(I) == CHOOSE i \in I : \A j \in I : j <= i

\* The value that the first n variables give to kind k of service s: the last
\* one wins, none is the empty string.
Effective(n, s, k) ==
    IF Settings(n, s, k) = {} THEN "" ELSE env[Last(Settings(n, s, k))].value[k]

\* The map raw is what the variables read so far define as a whole.
RawInv ==
    /\ DOMAIN raw = {Service(env[i].name) : i \in 1..(next - 1)}
    /\ \A s \in DOMAIN raw :
          /\ raw[s].hasAddr <=> Settings(next - 1, s, "addr") # {}
          /\ raw[s].hasAddr => raw[s].addr = Effective(next - 1, s, "addr")
          /\ raw[s].secret = Effective(next - 1, s, "secret")
          /\ raw[s].transport = Effective(next - 1, s, "transport")

\* What ConfigFromEnv and NewStaticRouter have checked when they are done.
CheckedInv ==
    /\ stage \in {"router", "allow", "ready"} =>
          /\ next = Len(env) + 1
          /\ targets = [s \in DOMAIN raw |-> TargetOf(raw[s])]
          /\ \A s \in DOMAIN raw : ~BadRaw(raw[s])
    /\ stage \in {"allow", "ready"} =>
          \A s \in DOMAIN targets : ValidTarget(s, targets[s])

\* The table that the loop builds variable by variable is the one that the
\* environment defines as a whole, whatever its order and spelling: no setting
\* is lost or given to another service.  In particular a proxy that is ready
\* has not dropped a secret or a transport that somebody set.
TableMatchesEnv ==
    /\ stage # "failed" => RawInv
    /\ CheckedInv
    /\ stage = "ready" =>
          /\ DOMAIN targets = {Service(env[i].name) : i \in 1..Len(env)}
          /\ \A s \in DOMAIN targets :
                /\ Settings(Len(env), s, "addr") # {}
                /\ targets[s] =
                      LET addr == Effective(Len(env), s, "addr")
                      IN [addr      |-> addr.host,
                          port      |-> SplitHostPortDefault(addr).port,
                          secret    |-> Effective(Len(env), s, "secret"),
                          transport |-> Effective(Len(env), s, "transport")]

\* What can be used without further checks: a ready proxy dials no empty host
\* and no port outside 1..65535, has no secret that is no hex, and only the
\* transports that Proxy assumes of its table.
TargetsUsable == stage = "ready" => \A s \in DOMAIN targets :
    /\ s # <<"">>
    /\ targets[s].addr # "" /\ targets[s].port \in 1..MaxPort
    /\ targets[s].secret # "junk"
    /\ targets[s].transport \in {""} \cup Transports

\* What the comments of the allowlist promise, over the list as it was given:
\* "absent or empty: any method passes; a non-empty list: only its entries
\* (wildcard Service.*)".  A wildcard stands for every method of its service,
\* also one with dots, but not for the bare service.
Promised(m) ==
    \/ allow.policy = "default" /\ entries \subseteq {<<"">>}
    \/ \E e \in entries \ {<<"">>} :
          e = m \/ (e = <<m[1], "*">> /\ Len(m) > 1 /\ m # <<m[1], "">>)

\* The allowlist decides as promised, for both policies, for malformed names
\* and for names with several dots too.
AllowlistAsPromised == stage = "ready" =>
    \A m \in Methods : Allowed(allow, m) <=> Promised(m)
=============================================================================
