-------------------------- MODULE ProxySetupProofs --------------------------
(***************************************************************************)
(* Proofs about the configuration of the generic proxy, for environments   *)
(* of any length, any names and values, any list of allowed methods.       *)
(*                                                                         *)
(* The loop of ConfigFromEnv keeps one record per service and overwrites   *)
(* its fields; RawInv says what these records are after every iteration.   *)
(* CheckedInv carries the checks made at one stage to the stages behind.   *)
(***************************************************************************)
EXTENDS ProxySetup, TLAPS

Kinds == {"addr", "transport", "secret"}

RawRecords == [addr      : {v.addr : v \in Values} \cup {EmptyRaw.addr},
               hasAddr   : BOOLEAN,
               transport : {v.transport : v \in Values} \cup {""},
               secret    : {v.secret : v \in Values} \cup {""}]

\* env and raw are what they are declared to be, and the loop stays in env.
Shape ==
    /\ Len(env) \in Nat
    /\ \A i \in 1..Len(env) : env[i] \in Vars
    /\ next \in 1..(Len(env) + 1)
    /\ \A s \in DOMAIN raw : raw[s] \in RawRecords
    /\ stage \in {"env", "router", "allow", "ready", "failed"}

\* The allowlist is the one of the entries, which were all valid.
AllowBuilt == allow = NewAllowlist(entries, allow.policy) /\ allow.ok

AllowInv == stage = "ready" => AllowBuilt

LoopInv == Shape /\ (stage # "failed" => RawInv) /\ CheckedInv

-----------------------------------------------------------------------------
(* The operators.                                                          *)

\* The kind of a variable is one of three.
LEMMA KindIsOne == \A n : Kind(n) \in Kinds
<1> TAKE n
<1>1. CASE HasSuffix(n, "TRANSPORT")
  BY <1>1 DEF Kind, Kinds
<1>2. CASE ~HasSuffix(n, "TRANSPORT") /\ HasSuffix(n, "SECRET")
  BY <1>2 DEF Kind, Kinds
<1>3. CASE ~HasSuffix(n, "TRANSPORT") /\ ~HasSuffix(n, "SECRET")
  BY <1>3 DEF Kind, Kinds
<1> QED BY <1>1, <1>2, <1>3

\* A variable sets the field of its kind and leaves the others of its record.
LEMMA UpdateField ==
  ASSUME NEW t \in RawRecords, NEW v \in Values, NEW k \in Kinds
  PROVE  LET u == Update(t, k, v)
         IN /\ u \in RawRecords
            /\ u.hasAddr <=> t.hasAddr \/ k = "addr"
            /\ u.addr = IF k = "addr" THEN v.addr ELSE t.addr
            /\ u.secret = IF k = "secret" THEN v.secret ELSE t.secret
            /\ u.transport = IF k = "transport" THEN v.transport ELSE t.transport
<1> DEFINE A == {w.addr : w \in Values} \cup {EmptyRaw.addr}
           T == {w.transport : w \in Values} \cup {""}
           S == {w.secret : w \in Values} \cup {""}
<1>1. RawRecords = [addr : A, hasAddr : BOOLEAN, transport : T, secret : S]
  BY DEF RawRecords
<1>2. v.addr \in A /\ v.transport \in T /\ v.secret \in S
  OBVIOUS
<1> HIDE DEF A, T, S
<1>3. CASE k = "addr"
  <2>1. Update(t, k, v) = [t EXCEPT !.addr = v.addr, !.hasAddr = TRUE]
    BY <1>3 DEF Update
  <2> QED BY <1>1, <1>2, <1>3, <2>1
<1>4. CASE k = "secret"
  <2>1. Update(t, k, v) = [t EXCEPT !.secret = v.secret]
    BY <1>4 DEF Update
  <2> QED BY <1>1, <1>2, <1>4, <2>1
<1>5. CASE k = "transport"
  <2>1. Update(t, k, v) = [t EXCEPT !.transport = v.transport]
    BY <1>5 DEF Update
  <2> QED BY <1>1, <1>2, <1>5, <2>1
<1> QED BY <1>3, <1>4, <1>5 DEF Kinds

\* A variable more: it is the last setting of its own kind and service, and
\* none of any other.
LEMMA OneMore ==
  ASSUME NEW n \in Nat, NEW s, NEW k
  PROVE  IF Service(env[n + 1].name) = s /\ Kind(env[n + 1].name) = k
         THEN /\ Settings(n + 1, s, k) # {}
              /\ Effective(n + 1, s, k) = env[n + 1].value[k]
         ELSE /\ Settings(n + 1, s, k) = Settings(n, s, k)
              /\ Effective(n + 1, s, k) = Effective(n, s, k)
<1>1. CASE Service(env[n + 1].name) = s /\ Kind(env[n + 1].name) = k
  <2> DEFINE I == Settings(n + 1, s, k)
  <2>1. n + 1 \in I /\ \A j \in I : j \in 1..(n + 1)
    BY <1>1 DEF Settings
  <2> HIDE DEF I
  <2>2. Last(I) \in I /\ \A j \in I : j <= Last(I)
    BY <2>1 DEF Last
  <2>3. Last(I) = n + 1
    BY <2>1, <2>2
  <2> QED BY <1>1, <2>1, <2>3 DEF I, Effective
<1>2. CASE ~(Service(env[n + 1].name) = s /\ Kind(env[n + 1].name) = k)
  <2>1. Settings(n + 1, s, k) = Settings(n, s, k)
    BY <1>2 DEF Settings
  <2> QED BY <1>2, <2>1 DEF Effective
<1> QED BY <1>1, <1>2

\* A service that was not read yet has no setting.
LEMMA NotRead ==
  ASSUME NEW n, NEW s, s \notin {Service(env[i].name) : i \in 1..n}, NEW k
  PROVE  Settings(n, s, k) = {} /\ Effective(n, s, k) = ""
  BY DEF Settings, Effective

-----------------------------------------------------------------------------
(* The loop and the checks.                                                *)

\* No variable has been read at the start, and the table is empty.
LEMMA InitLoop == Init => LoopInv
<1> SUFFICES ASSUME Init PROVE LoopInv
  OBVIOUS
<1>1. PICK n \in 0..MaxVars : env \in [1..n -> Vars]
  BY DEF Init
<1>2. n \in Nat
  BY SetupAssumption
<1>3. Len(env) = n /\ \A i \in 1..n : env[i] \in Vars
  BY <1>1, <1>2
<1>4. DOMAIN raw = {} /\ next = 1 /\ stage = "env"
  BY DEF Init, EmptyTable
<1>5. Shape
  BY <1>2, <1>3, <1>4 DEF Shape
<1>6. RawInv
  BY <1>4 DEF RawInv
<1> QED BY <1>4, <1>5, <1>6 DEF LoopInv, CheckedInv

\* One iteration of the loop: the record of the variable's service changes in
\* the field of its kind, and so does what the variables read so far define.
LEMMA ReadVarLoop ==
  ASSUME LoopInv, ReadVar, stage' # "failed"
  PROVE  LoopInv'
<1> DEFINE n == next - 1
           nm == env[next].name
           v  == env[next].value
           s  == Service(nm)
           k  == Kind(nm)
<1>1. /\ n \in Nat /\ next = n + 1 /\ next <= Len(env) /\ next' = next + 1
      /\ next' - 1 = n + 1
      /\ env[next] \in Vars /\ v \in Values /\ Len(env) \in Nat
  BY DEF LoopInv, Shape, ReadVar, Vars
<1>2. /\ raw' = [x \in DOMAIN raw \cup {s} |->
                    IF x = s THEN Update(Get(s), k, v) ELSE raw[x]]
      /\ UNCHANGED <<env, entries, stage, targets, allow>>
      /\ stage = "env"
  BY DEF ReadVar, Fail
<1>3. RawInv
  BY <1>2 DEF LoopInv
<1>4. k \in Kinds
  BY KindIsOne
<1>5. Get(s) \in RawRecords
  BY DEF Get, LoopInv, Shape, RawRecords, EmptyRaw
<1> DEFINE u == Update(Get(s), k, v)
<1>6. /\ u \in RawRecords
      /\ u.hasAddr <=> Get(s).hasAddr \/ k = "addr"
      /\ u.addr = IF k = "addr" THEN v.addr ELSE Get(s).addr
      /\ u.secret = IF k = "secret" THEN v.secret ELSE Get(s).secret
      /\ u.transport = IF k = "transport" THEN v.transport ELSE Get(s).transport
  BY <1>1, <1>4, <1>5, UpdateField
<1> HIDE DEF u
<1>7. /\ DOMAIN raw' = DOMAIN raw \cup {s}
      /\ raw'[s] = u
      /\ \A x \in DOMAIN raw : x # s => raw'[x] = raw[x]
  BY <1>2 DEF u
<1>8. Shape'
  BY <1>1, <1>2, <1>6, <1>7 DEF LoopInv, Shape
<1>9. DOMAIN raw' = {Service(env[i].name) : i \in 1..(n + 1)}
  <2>1. DOMAIN raw = {Service(env[i].name) : i \in 1..n}
    BY <1>3 DEF RawInv
  <2>2. 1..(n + 1) = 1..n \cup {n + 1}
    BY <1>1
  <2> QED BY <1>1, <1>7, <2>1, <2>2
<1> DEFINE Fields(x, r, m) ==
       /\ r.hasAddr <=> Settings(m, x, "addr") # {}
       /\ r.hasAddr => r.addr = Effective(m, x, "addr")
       /\ r.secret = Effective(m, x, "secret")
       /\ r.transport = Effective(m, x, "transport")
<1>10. Fields(s, Get(s), n)
  <2>1. CASE s \in DOMAIN raw
    BY <1>3, <2>1 DEF RawInv, Get
  <2>2. CASE s \notin DOMAIN raw
    <3>1. s \notin {Service(env[i].name) : i \in 1..n}
      BY <1>3, <2>2 DEF RawInv
    <3>2. \A j : Settings(n, s, j) = {} /\ Effective(n, s, j) = ""
      BY <3>1, NotRead
    <3> QED BY <2>2, <3>2 DEF Get, EmptyRaw
  <2> QED BY <2>1, <2>2
<1>11. Fields(s, u, n + 1)
  <2>1. ASSUME NEW j
        PROVE  IF k = j
               THEN Settings(n + 1, s, j) # {} /\ Effective(n + 1, s, j) = v[j]
               ELSE /\ Settings(n + 1, s, j) = Settings(n, s, j)
                    /\ Effective(n + 1, s, j) = Effective(n, s, j)
    <3>1. env[n + 1] = env[next]
      BY <1>1
    <3> HIDE DEF n
    <3> QED BY <1>1, <3>1, OneMore
  <2> QED BY <1>6, <1>10, <2>1 DEF Kinds
<1>12. ASSUME NEW x \in DOMAIN raw, x # s
       PROVE  Fields(x, raw[x], n + 1)
  <2>1. Fields(x, raw[x], n)
    BY <1>3 DEF RawInv
  <2>2. \A j : /\ Settings(n + 1, x, j) = Settings(n, x, j)
               /\ Effective(n + 1, x, j) = Effective(n, x, j)
    BY <1>1, <1>12, OneMore
  <2> QED BY <2>1, <2>2
<1>13. \A x \in DOMAIN raw' : Fields(x, raw'[x], n + 1)
  BY <1>7, <1>11, <1>12
<1>14. \A x, j : /\ Settings(next - 1, x, j)' = Settings(n + 1, x, j)
                 /\ Effective(next - 1, x, j)' = Effective(n + 1, x, j)
  <2>1. env' = env /\ next' - 1 = n + 1
    BY <1>1, <1>2
  <2> HIDE DEF n
  <2> QED BY <2>1, Zenon DEF Settings, Effective
<1>15. RawInv'
  <2>1. (DOMAIN raw = {Service(env[i].name) : i \in 1..(next - 1)})'
    BY <1>1, <1>2, <1>9
  <2>2. ASSUME NEW x \in DOMAIN raw'
        PROVE  /\ raw'[x].hasAddr <=> Settings(next - 1, x, "addr")' # {}
               /\ raw'[x].hasAddr => raw'[x].addr = Effective(next - 1, x, "addr")'
               /\ raw'[x].secret = Effective(next - 1, x, "secret")'
               /\ raw'[x].transport = Effective(next - 1, x, "transport")'
    BY <1>13, <1>14
  <2> QED BY <2>1, <2>2 DEF RawInv
<1> QED BY <1>2, <1>8, <1>15 DEF LoopInv, CheckedInv

\* Outside the loop raw and env stay, and so does what they say of each other.
LEMMA SameRaw ==
  ASSUME UNCHANGED <<env, next, raw>>, RawInv
  PROVE  RawInv'
<1>1. \A x, j : /\ Settings(next - 1, x, j)' = Settings(next - 1, x, j)
                /\ Effective(next - 1, x, j)' = Effective(next - 1, x, j)
  BY Zenon DEF Settings, Effective
<1>2. (DOMAIN raw = {Service(env[i].name) : i \in 1..(next - 1)})'
  BY DEF RawInv
<1>3. ASSUME NEW x \in DOMAIN raw'
      PROVE  /\ raw'[x].hasAddr <=> Settings(next - 1, x, "addr")' # {}
             /\ raw'[x].hasAddr => raw'[x].addr = Effective(next - 1, x, "addr")'
             /\ raw'[x].secret = Effective(next - 1, x, "secret")'
             /\ raw'[x].transport = Effective(next - 1, x, "transport")'
  BY <1>1 DEF RawInv
<1> QED BY <1>2, <1>3 DEF RawInv

\* After a failure nothing is promised.
LEMMA Failed ==
  ASSUME Shape', stage' = "failed"
  PROVE  LoopInv'
  BY DEF LoopInv, CheckedInv

\* Every step keeps the invariant.
LEMMA NextLoop == LoopInv /\ [Next]_vars => LoopInv'
<1> SUFFICES ASSUME LoopInv, [Next]_vars PROVE LoopInv'
  OBVIOUS
<1>1. CASE ReadVar
  <2>1. CASE stage' = "failed"
    <3>1. Shape'
      <4>1. UNCHANGED <<env, raw>> /\ next' = next + 1 /\ next <= Len(env)
        BY <1>1, <2>1 DEF ReadVar, Fail
      <4> QED BY <2>1, <4>1 DEF LoopInv, Shape
    <3> QED BY <2>1, <3>1, Failed
  <2>2. CASE stage' # "failed"
    BY <1>1, <2>2, ReadVarLoop
  <2> QED BY <2>1, <2>2
<1>2. CASE BuildConfig
  <2>1. Shape'
    BY <1>2 DEF BuildConfig, Fail, LoopInv, Shape
  <2>2. CASE stage' # "failed"
    <3>1. /\ UNCHANGED <<env, next, raw>> /\ stage = "env" /\ stage' = "router"
          /\ targets' = [s \in DOMAIN raw |-> TargetOf(raw[s])]
          /\ \A s \in DOMAIN raw : ~BadRaw(raw[s])
          /\ next > Len(env)
      BY <1>2, <2>2 DEF BuildConfig, Fail
    <3>2. RawInv'
      BY <3>1, SameRaw DEF LoopInv
    <3>3. next = Len(env) + 1
      BY <3>1 DEF LoopInv, Shape
    <3> QED BY <2>1, <3>1, <3>2, <3>3 DEF LoopInv, CheckedInv
  <2> QED BY <2>1, <2>2, Failed
<1>3. CASE BuildRouter
  <2>1. /\ UNCHANGED <<env, next, raw, targets>> /\ stage = "router"
        /\ stage' \in {"allow", "failed"}
        /\ stage' = "allow" => \A s \in DOMAIN targets : ValidTarget(s, targets[s])
    BY <1>3 DEF BuildRouter, Fail
  <2>2. Shape'
    BY <2>1 DEF LoopInv, Shape
  <2>3. RawInv'
    BY <2>1, SameRaw DEF LoopInv
  <2> QED BY <2>1, <2>2, <2>3 DEF LoopInv, CheckedInv
<1>4. CASE BuildAllowlist
  <2>1. /\ UNCHANGED <<env, next, raw, targets>> /\ stage = "allow"
        /\ stage' \in {"ready", "failed"}
    BY <1>4 DEF BuildAllowlist, Fail
  <2>2. Shape'
    BY <2>1 DEF LoopInv, Shape
  <2>3. RawInv'
    BY <2>1, SameRaw DEF LoopInv
  <2> QED BY <2>1, <2>2, <2>3 DEF LoopInv, CheckedInv
<1>5. CASE UNCHANGED vars
  <2>1. UNCHANGED <<env, next, raw, targets, stage>>
    BY <1>5 DEF vars
  <2>2. Shape'
    BY <2>1 DEF LoopInv, Shape
  <2>3. stage # "failed" => RawInv'
    BY <2>1, SameRaw DEF LoopInv
  <2> QED BY <2>1, <2>2, <2>3 DEF LoopInv, CheckedInv
<1> QED BY <1>1, <1>2, <1>3, <1>4, <1>5 DEF Next

\* The table of a proxy that is ready, from the invariant.
LEMMA LoopTable == LoopInv => TableMatchesEnv
<1> SUFFICES ASSUME LoopInv PROVE TableMatchesEnv
  OBVIOUS
<1>1. ASSUME stage = "ready"
      PROVE  /\ DOMAIN targets = {Service(env[i].name) : i \in 1..Len(env)}
             /\ \A s \in DOMAIN targets :
                   /\ Settings(Len(env), s, "addr") # {}
                   /\ targets[s] =
                         LET addr == Effective(Len(env), s, "addr")
                         IN [addr      |-> addr.host,
                             port      |-> SplitHostPortDefault(addr).port,
                             secret    |-> Effective(Len(env), s, "secret"),
                             transport |-> Effective(Len(env), s, "transport")]
  <2>1. next - 1 = Len(env)
    BY <1>1 DEF LoopInv, Shape, CheckedInv
  <2>2. RawInv
    BY <1>1 DEF LoopInv
  <2>3. /\ targets = [s \in DOMAIN raw |-> TargetOf(raw[s])]
        /\ \A s \in DOMAIN raw : ~BadRaw(raw[s])
    BY <1>1 DEF LoopInv, CheckedInv
  <2>4. DOMAIN targets = {Service(env[i].name) : i \in 1..Len(env)}
    BY <2>1, <2>2, <2>3 DEF RawInv
  <2>5. ASSUME NEW s \in DOMAIN targets
        PROVE  /\ raw[s].hasAddr /\ Settings(Len(env), s, "addr") # {}
               /\ raw[s].addr = Effective(Len(env), s, "addr")
               /\ raw[s].secret = Effective(Len(env), s, "secret")
               /\ raw[s].transport = Effective(Len(env), s, "transport")
               /\ targets[s] = TargetOf(raw[s])
    BY <2>1, <2>2, <2>3 DEF RawInv, BadRaw
  <2> QED BY <2>4, <2>5 DEF TargetOf, SplitHostPortDefault
<1> QED BY <1>1 DEF TableMatchesEnv, LoopInv

\* The routing table is the one that the environment defines, whatever the
\* order and spelling of its variables, for environments of any length:
\* ConfigFromEnv loses no setting and gives none to another service.
THEOREM TableIsTheEnvironments == Spec => []TableMatchesEnv
<1> QED BY InitLoop, NextLoop, LoopTable, PTL DEF Spec

\* A proxy that is ready dials no empty host and no port outside 1..65535, and
\* uses no secret that is no hex and no unknown transport: what
\* splitHostPortDefault, ConfigFromEnv and NewStaticRouter check holds of the
\* table that the invoker gets.
THEOREM ReadyTargetsAreUsable == Spec => []TargetsUsable
<1>1. LoopInv => TargetsUsable
  <2> SUFFICES ASSUME LoopInv, stage = "ready", NEW s \in DOMAIN targets
               PROVE  /\ s # <<"">>
                      /\ targets[s].addr # "" /\ targets[s].port \in 1..MaxPort
                      /\ targets[s].secret # "junk"
                      /\ targets[s].transport \in {""} \cup Transports
    BY DEF TargetsUsable
  <2>1. /\ s \in DOMAIN raw
        /\ targets[s] = TargetOf(raw[s]) /\ ~BadRaw(raw[s])
        /\ ValidTarget(s, targets[s])
    BY DEF LoopInv, CheckedInv
  <2>2. /\ s # <<"">> /\ targets[s].addr # ""
        /\ targets[s].transport \in {""} \cup Transports
    BY <2>1 DEF ValidTarget
  <2>3. targets[s].secret # "junk"
    BY <2>1 DEF TargetOf, BadRaw
  <2>4. targets[s].port \in 1..MaxPort
    <3> DEFINE p == raw[s].addr.port
    <3>1. targets[s].port = IF p = NoPort THEN DefaultTargetPort ELSE p
      BY <2>1 DEF TargetOf, SplitHostPortDefault
    <3>2. p # NoPort => p \in 1..MaxPort
      BY <2>1 DEF BadRaw, SplitHostPortDefault
    <3>3. DefaultTargetPort \in 1..MaxPort
      BY DEF DefaultTargetPort, MaxPort
    <3> QED BY <3>1, <3>2, <3>3
  <2> QED BY <2>2, <2>3, <2>4
<1> QED BY <1>1, InitLoop, NextLoop, PTL DEF Spec

-----------------------------------------------------------------------------
(* The allowlist.                                                          *)

\* An allowlist without errors decides as promised over its entries.
LEMMA DecidesAsPromised ==
  ASSUME entries \subseteq Seq(STRING), AllowBuilt, NEW m
  PROVE  Allowed(allow, m) <=> Promised(m)
<1> DEFINE used == entries \ {<<"">>}
<1>1. \A e \in used : /\ e \in Seq(STRING) /\ Len(e) = 2
                       /\ e[1] # "" /\ e[2] # "" /\ e = <<e[1], e[2]>>
  <2>1. allow.ok = \A e \in {f \in entries : ~IsBlank(f)} : ValidEntry(e)
    BY DEF AllowBuilt, NewAllowlist
  <2>2. \A e \in used : ValidEntry(e) /\ e \in Seq(STRING)
    BY <2>1 DEF AllowBuilt, IsBlank
  <2>3. ASSUME NEW e \in Seq(STRING), Len(e) = 2
        PROVE  e = <<e[1], e[2]>>
    BY <2>3
  <2> QED BY <2>2, <2>3 DEF ValidEntry
<1>2. /\ allow.exact = {e \in used : e[2] # "*"}
      /\ allow.services = {e[1] : e \in {f \in used : f[2] = "*"}}
  <2>1. \A e \in used : ValidEntry(e)
    BY <1>1 DEF ValidEntry
  <2>2. allow.exact = {e \in {f \in entries : ~IsBlank(f)} :
                          ValidEntry(e) /\ ~IsWildcard(e)}
    BY DEF AllowBuilt, NewAllowlist
  <2>3. allow.services = {e[1] : e \in {f \in {g \in entries : ~IsBlank(g)} :
                                           ValidEntry(f) /\ IsWildcard(f)}}
    BY DEF AllowBuilt, NewAllowlist
  <2> QED BY <2>1, <2>2, <2>3 DEF IsBlank, IsWildcard
<1> HIDE DEF used
<1>3. (allow.exact = {} /\ allow.services = {}) <=> used = {}
  BY <1>2
<1>4. used = {} <=> entries \subseteq {<<"">>}
  BY DEF used
<1>5. ASSUME NEW e \in used, e = m
      PROVE  Allows(allow, m)
  <2>1. CASE e[2] = "*"
    <3>1. SplitMethod(m).ok /\ SplitMethod(m).service = e[1]
      <4>1. m # <<m[1], "">>
        BY <1>1, <1>5, <2>1
      <4>2. e[1] # ""
        BY <1>1
      <4>3. Len(e) = 2
        BY <1>1
      <4>4. Len(e) > 1
        BY <4>3
      <4> QED BY <1>5, <4>1, <4>2, <4>4 DEF SplitMethod
    <3>2. e[1] \in allow.services
      BY <1>2, <2>1
    <3> QED BY <3>1, <3>2 DEF Allows
  <2>2. CASE e[2] # "*"
    BY <1>2, <1>5, <2>2 DEF Allows
  <2> QED BY <2>1, <2>2
<1>6. ASSUME NEW e \in used, e = <<m[1], "*">>, Len(m) > 1, m # <<m[1], "">>
      PROVE  Allows(allow, m)
  <2>1. e[1] = m[1] /\ e[2] = "*"
    BY <1>6
  <2>2. m[1] # "" /\ m[1] \in allow.services
    BY <1>1, <1>2, <2>1
  <2> QED BY <1>6, <2>2 DEF Allows, SplitMethod
<1>7. ASSUME Allows(allow, m)
      PROVE  \E e \in used :
                e = m \/ (e = <<m[1], "*">> /\ Len(m) > 1 /\ m # <<m[1], "">>)
  <2>1. CASE m \in allow.exact
    BY <1>2, <2>1
  <2>2. CASE SplitMethod(m).ok /\ SplitMethod(m).service \in allow.services
    <3>1. Len(m) > 1 /\ m # <<m[1], "">> /\ m[1] \in allow.services
      BY <2>2 DEF SplitMethod
    <3>2. PICK e \in used : e[2] = "*" /\ e[1] = m[1]
      BY <1>2, <3>1
    <3>3. e = <<m[1], "*">>
      BY <1>1, <3>2
    <3> QED BY <3>1, <3>3
  <2> QED BY <1>7, <2>1, <2>2 DEF Allows
<1> QED BY <1>3, <1>4, <1>5, <1>6, <1>7 DEF Allowed, Promised, used

\* The allowlist of a ready proxy decides as its comments promise, for every
\* list of entries and every method that is asked for, under both policies.
THEOREM AllowlistKeepsPromise == Spec => []AllowlistAsPromised
<1> DEFINE Inv == entries \subseteq Seq(STRING) /\ AllowInv
<1>1. Init => Inv
  BY DEF Init, AllowInv
<1>2. Inv /\ [Next]_vars => Inv'
  <2> SUFFICES ASSUME Inv, [Next]_vars PROVE Inv'
    OBVIOUS
  <2>1. CASE ReadVar
    BY <2>1 DEF ReadVar, Fail, AllowInv, AllowBuilt
  <2>2. CASE BuildConfig
    <3>1. entries' \subseteq AllowEntries /\ stage' # "ready"
      BY <2>2 DEF BuildConfig, Fail
    <3>2. AllowEntries \subseteq Seq(STRING)
      BY SetupAssumption
    <3> QED BY <3>1, <3>2 DEF AllowInv
  <2>3. CASE BuildRouter
    BY <2>3 DEF BuildRouter, Fail, AllowInv, AllowBuilt
  <2>4. CASE BuildAllowlist
    <3>1. entries' = entries
      BY <2>4 DEF BuildAllowlist
    <3>2. ASSUME stage' = "ready"
          PROVE  allow' = NewAllowlist(entries, allow'.policy) /\ allow'.ok
      <4>1. PICK p \in Policies : /\ allow' = NewAllowlist(entries, p)
                                  /\ NewAllowlist(entries, p).ok
        BY <2>4, <3>2 DEF BuildAllowlist, Fail
      <4>2. NewAllowlist(entries, p).policy = p
        BY DEF NewAllowlist
      <4> QED BY <4>1, <4>2
    <3> QED BY <3>1, <3>2 DEF AllowInv, AllowBuilt
  <2>5. CASE UNCHANGED vars
    BY <2>5 DEF vars, AllowInv, AllowBuilt
  <2> QED BY <2>1, <2>2, <2>3, <2>4, <2>5 DEF Next
<1>3. Inv => AllowlistAsPromised
  BY DecidesAsPromised DEF AllowInv, AllowlistAsPromised
<1> QED BY <1>1, <1>2, <1>3, PTL DEF Spec
=============================================================================
