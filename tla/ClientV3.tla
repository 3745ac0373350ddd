------------------------------ MODULE ClientV3 ------------------------------
(***************************************************************************)
(* The RPC client of rpc2/v3 (v3/client.go): the v2 session client plus a  *)
(* transport per connection.  In mode "auto" it starts with JSON and falls *)
(* back to the legacy (gob) transport of v1/v2 servers after a connection  *)
(* error: the failed call is repeated once, and every later connection is  *)
(* legacy.                                                                 *)
(*                                                                         *)
(* The session part is literally that of v2 and comes from ClientV2; this  *)
(* module redefines the steps where v3 differs.  Call invalidates the      *)
(* session, releases the mutex, and only then locks it again to decide on  *)
(* the retry ("mark"), so other callers run in between.                    *)
(***************************************************************************)
EXTENDS ClientV2

CONSTANTS
    Transport,  \* the client's transport option: "auto", "json", "legacy"
    Peers       \* the servers that may stand behind the address, each by what
                \* it understands: v3 both kinds, v2 only "legacy"

Kinds == {"json", "legacy"}

ASSUME TransportAssumption ==
    /\ Transport \in {"auto"} \cup Kinds
    /\ Peers \subseteq SUBSET Kinds

VARIABLES
    kind,             \* codec of every connection ("none" before it exists)
    activeTransport,  \* c.activeTransport: codec of the last one dialled
    jsonFallback,     \* c.jsonFallback: JSON failed once
    attempt,          \* 1, or 2 in the repeated call
    speaks            \* what the present server understands

modeVars   == <<activeTransport, jsonFallback>>
clientVars == <<kind, modeVars, attempt>>
v3Vars     == <<clientVars, speaks>>
varsV3     == <<vars, v3Vars>>

\* Types of v3's own fields and locals, on top of those of the session.
TypeOKV3 ==
    /\ pc \in [Callers -> Locations \cup {"mark"}]
    /\ DataTypeOK /\ NoNilClient
    /\ kind \in [ConnIds -> Kinds \cup {"none"}]
    /\ activeTransport \in {"auto"} \cup Kinds
    /\ jsonFallback \in BOOLEAN
    /\ attempt \in [Callers -> {1, 2}]
    /\ speaks \in Peers

InitV3 ==
    /\ Init
    /\ kind = [c \in ConnIds |-> "none"]
    /\ activeTransport = "auto"
    /\ jsonFallback = FALSE
    /\ attempt = [p \in Callers |-> 1]
    /\ speaks \in Peers

-----------------------------------------------------------------------------
(* Decisions.                                                              *)

\* isConnError: errors after which JSON itself is suspected.  The error of an
\* expired deadline implements net.Error, that of a cancelled context does not.
IsConnError(e) == e \in {"deadline", "link", "shutdown"}

\* effectiveTransport: the codec for a new connection.
EffectiveTransport ==
    IF Transport # "auto" THEN Transport
    ELSE IF jsonFallback THEN "legacy" ELSE "json"

-----------------------------------------------------------------------------
(* Steps of Call that differ from v2.                                      *)

BeginV3(p) ==
    /\ Begin(p)
    /\ attempt' = [attempt EXCEPT ![p] = 1]
    /\ UNCHANGED <<kind, modeVars, speaks>>

\* Faulty variant of DialOkV3: activeTransport is not kept up to date.
DialOkStaleMode(p) ==
    /\ DialOk(p)
    /\ kind' = [kind EXCEPT ![cl'] = EffectiveTransport]
    /\ activeTransport' = IF activeTransport = "auto" THEN EffectiveTransport
                                                      ELSE activeTransport
    /\ UNCHANGED <<jsonFallback, attempt, speaks>>

\* The codec is chosen after the dial, with the mutex still held.
DialOkV3(p) ==
    /\ DialOk(p)
    /\ kind' = [kind EXCEPT ![cl'] = EffectiveTransport]
    /\ activeTransport' = EffectiveTransport
    /\ UNCHANGED <<jsonFallback, attempt, speaks>>

\* Call goes on to the fallback decision.
GotoMark(p) == Goto(p, "mark") /\ UNCHANGED <<conn, ctx>>

\* Faulty variant of InvalidateV3: only a connection error resets the session.
InvalidateConnErrors(p) ==
    /\ pc[p] = "failed"
    /\ IF IsConnError(result[p]) THEN ResetConn ELSE UNCHANGED connVars
    /\ IF attempt[p] = 1 /\ IsConnError(result[p]) THEN GotoMark(p) ELSE Leave(p)
    /\ UNCHANGED <<result, calls, srvVars, v3Vars>>

\* The session is dropped after every error; only the first attempt and only
\* a connection error leads on to the fallback decision.
InvalidateV3(p) ==
    /\ pc[p] = "failed"
    /\ ResetConn
    /\ IF attempt[p] = 1 /\ IsConnError(result[p]) THEN GotoMark(p) ELSE Leave(p)
    /\ UNCHANGED <<result, calls, srvVars, v3Vars>>

\* wasJSON and alreadyFallback as Call reads them under the second lock.
RetryAllowed == /\ Transport = "auto"
                /\ activeTransport = "json"
                /\ ~jsonFallback

\* getClient and cl.Call once more, for the same call.
Repeat(p) ==
    /\ Goto(p, "lock")
    /\ attempt' = [attempt EXCEPT ![p] = 2]
    /\ result' = [result EXCEPT ![p] = "none"]
    /\ UNCHANGED <<conn, ctx>>

GiveUp(p) == Leave(p) /\ UNCHANGED <<attempt, result>>

\* Faulty variant of Mark: jsonFallback is set, but not consulted.
MarkAlways(p) ==
    /\ pc[p] = "mark"
    /\ mu = NoOne
    /\ jsonFallback' = TRUE
    /\ IF Transport = "auto" THEN Repeat(p) ELSE GiveUp(p)
    /\ UNCHANGED <<connVars, calls, srvVars, kind, activeTransport, speaks>>

\* Faulty variant of Mark: every mode falls back.
MarkEveryMode(p) ==
    /\ pc[p] = "mark"
    /\ mu = NoOne
    /\ jsonFallback' = TRUE
    /\ IF ~jsonFallback THEN Repeat(p) ELSE GiveUp(p)
    /\ UNCHANGED <<connVars, calls, srvVars, kind, activeTransport, speaks>>

\* The fallback decision.  jsonFallback is set whatever the mode is.
Mark(p) ==
    /\ pc[p] = "mark"
    /\ mu = NoOne
    /\ jsonFallback' = TRUE
    /\ IF RetryAllowed THEN Repeat(p) ELSE GiveUp(p)
    /\ UNCHANGED <<connVars, calls, srvVars, kind, activeTransport, speaks>>

\* Faulty variant of CloseV3: a closed client starts over with JSON, also when it
\* has no session to close.
CloseForgets ==
    /\ Close \/ (mu = NoOne /\ cl = NoConn /\ UNCHANGED vars)
    /\ activeTransport' = "auto"
    /\ jsonFallback' = FALSE
    /\ UNCHANGED <<kind, attempt, speaks>>

\* Close drops the session as in v2 and leaves the mode alone.
CloseV3 == Close /\ UNCHANGED v3Vars

-----------------------------------------------------------------------------
(* The peer.                                                               *)

\* A server runs what it can decode ...
ExecuteV3(r) ==
    /\ kind[r[3]] \in speaks
    /\ Execute(r)
    /\ UNCHANGED v3Vars

\* ... and hangs up on what it cannot.  It may as well wait for more bytes
\* (the first byte of a JSON header is a plausible gob length), so no
\* fairness is assumed of this step.
Reject(r) ==
    /\ r \in sent
    /\ kind[r[3]] \notin speaks
    /\ sent' = sent \ {r}
    /\ conns' = [conns EXCEPT ![r[3]] = IF @ = "up" THEN "down" ELSE @]
    /\ UNCHANGED <<mu, cl, callVars, ran, v3Vars>>

\* The server is replaced by one of another version, at any moment: its
\* connections end, and what it had not executed yet is lost.
Redeploy ==
    /\ \E s \in Peers \ {speaks} : speaks' = s
    /\ conns' = [c \in ConnIds |-> IF conns[c] = "up" THEN "down" ELSE conns[c]]
    /\ sent' = {}
    /\ UNCHANGED <<mu, cl, callVars, ran, clientVars>>

\* Steps that v3 shares with v2.
SharedStep(p) ==
    /\ \/ CtxDone(p) \/ GetCached(p) \/ StartDial(p) \/ DialFail(p)
       \/ Send(p) \/ SendFail(p)
       \/ Reply(p) \/ ErrorReply(p) \/ Lost(p) \/ Abort(p)
    /\ UNCHANGED v3Vars

NextV3 ==
    \/ \E p \in Callers :
          BeginV3(p) \/ DialOkV3(p) \/ SharedStep(p) \/ InvalidateV3(p) \/ Mark(p)
    \/ \E r \in sent : ExecuteV3(r) \/ Reject(r)
    \/ Redeploy
    \/ CloseV3
    \/ \E c \in ConnIds : Drop(c) /\ UNCHANGED v3Vars

\* As in v2; in addition every context carries a deadline (the proxy always
\* sets one), because a peer may answer nothing to a codec it does not speak.
FairnessV3 ==
    /\ \A p \in Callers :
          /\ SF_varsV3(\/ (GetCached(p) \/ StartDial(p)) /\ UNCHANGED v3Vars
                       \/ InvalidateV3(p) \/ Mark(p))
          /\ WF_varsV3(\/ DialOkV3(p)
                       \/ /\ \/ DialFail(p) \/ Send(p) \/ SendFail(p)
                             \/ Reply(p) \/ ErrorReply(p) \/ Lost(p) \/ Abort(p)
                          /\ UNCHANGED v3Vars)
          /\ WF_varsV3(CtxDone(p) /\ UNCHANGED v3Vars)
    /\ WF_varsV3(\E r \in sent : ExecuteV3(r))

SpecV3     == InitV3 /\ [][NextV3]_varsV3
FairSpecV3 == SpecV3 /\ FairnessV3
-----------------------------------------------------------------------------
(* Properties.                                                             *)

SameCall(r, s) == r[1] = s[1] /\ r[2] = s[2]

\* Among the requests R no call is there twice; at most one call is there
\* twice, and then one of the two requests is on a JSON connection.
NoDuplicateIn(R) == \A r, s \in R : SameCall(r, s) => r = s

OneDuplicateIn(R) ==
    \A r, s, t, u \in R :
       (SameCall(r, s) /\ r # s /\ SameCall(t, u) /\ t # u) =>
           /\ {r, s} = {t, u}
           /\ "json" \in {kind[r[3]], kind[s[3]]}

\* The price of the fallback: over the whole life of the client at most one
\* call is executed twice, and none three times, although the retry can
\* repeat a request that the server has already run and although any number
\* of callers may fail together.  Only JSON is ever suspected: one of the two
\* executions came over a JSON connection, so a server that speaks only gob
\* executes nothing twice.
AtMostOneDuplicate == OneDuplicateIn(ran)

\* Without auto mode no call is ever executed twice.
AtMostOnce == NoDuplicateIn(ran)

\* The field that the fallback decision reads describes the cached session,
\* although it is read after the session was dropped and maybe redialled.
ModeMatchesSession == cl # NoConn => kind[cl] = activeTransport

\* Every connection has the codec of its time: that of the option, and in
\* auto mode JSON as long as nothing has failed.
KindInv ==
    \A c \in ConnIds : conns[c] # "unused" =>
       \/ Transport = "auto" /\ (jsonFallback \/ kind[c] = "json")
       \/ Transport # "auto" /\ kind[c] = Transport

\* Requests that may have reached the server, and those of p's present call.
Made           == sent \cup ran
OwnRequests(p) == {r \in Made : r[1] = p /\ r[2] = calls[p]}

MadeInv == \A r \in Made : r[2] <= calls[r[1]] /\ conns[r[3]] # "unused"

\* One caller at a time repeats a call, and only after the fallback.
AttemptInv ==
    \A p \in Callers : attempt[p] = 2 =>
       /\ jsonFallback /\ Transport = "auto"
       /\ \A q \in Callers : attempt[q] = 2 => q = p

\* What a caller's present call has sent: nothing before the first Send, only
\* on its own connection after it, only on JSON before the second Send.  While
\* that is still to come, no other call has been sent twice.
OwnInv ==
    \A p \in Callers :
       /\ pc[p] = "mark" => conn[p] # NoConn /\ conns[conn[p]] # "unused"
       /\ pc[p] \in {"lock", "dial", "send"} =>
             \/ attempt[p] = 1 /\ OwnRequests(p) = {}
             \/ /\ attempt[p] = 2 /\ NoDuplicateIn(Made)
                /\ \A r \in OwnRequests(p) : kind[r[3]] = "json"
       /\ pc[p] \in {"wait", "failed", "mark"} /\ attempt[p] = 1 =>
             \A r \in OwnRequests(p) : r[3] = conn[p]

DuplicateInv ==
    /\ OneDuplicateIn(Made)
    /\ (jsonFallback /\ Transport = "auto") \/ NoDuplicateIn(Made)

\* The session of the v3 client, through fallback, retry and changes of the
\* server: exactly the cached connection is open, the mutex is held by the
\* caller that dials, the mode describes the session, and every request was
\* made by the attempt that its caller is known to be in.
SessionInvV3 == TypeOKV3 /\ OneSession /\ LockInv /\ InCallInv /\ ModeMatchesSession
RetryInv     == KindInv /\ MadeInv /\ AttemptInv /\ OwnInv /\ DuplicateInv
IndInvV3     == SessionInvV3 /\ RetryInv

\* What shows that the client has fallen back: it has made a gob connection,
\* or repeats a call.
FellBack ==
    \/ \E d \in ConnIds : conns[d] # "unused" /\ kind[d] = "legacy"
    \/ \E p \in Callers : attempt[p] = 2

\* "sticky from then on": an auto client that once fell back never makes a JSON
\* connection again, whoever dials it, across drops, further errors, Close and
\* changes of the server.
FallbackSticks ==
    [][\A c \in ConnIds :
          Transport = "auto" /\ FellBack /\ conns[c] = "unused" /\ conns'[c] # "unused"
             => kind'[c] = "legacy"]_varsV3

\* The retry answers a failure of JSON: Mark looks at the transport dialled
\* last, not at the one that failed, and still only a call that failed on a
\* JSON connection is repeated.
RetryAfterJSON ==
    [][\A p \in Callers : pc[p] = "mark" /\ pc'[p] = "lock"
          => kind[conn[p]] = "json"]_varsV3

\* Call's comment: "repeats the call once on a legacy connection": the
\* repeated call is sent on a legacy connection.
RetryOnLegacy ==
    \A p \in Callers : pc[p] = "wait" /\ attempt[p] = 2 => kind[conn[p]] = "legacy"

\* The v3 client forced to the legacy transport behaves as the v2 client
\* ("always gob/crypto as in v2"): the fallback bookkeeping after an error
\* happens when the v2 call has already returned.
v2pc   == [p \in Callers |-> IF pc[p] = "mark" THEN "done" ELSE pc[p]]
v2conn == [p \in Callers |-> IF pc[p] = "mark" THEN NoConn ELSE conn[p]]
v2ctx  == [p \in Callers |-> IF pc[p] = "mark" THEN "live" ELSE ctx[p]]

V2 == INSTANCE ClientV2 WITH pc <- v2pc, conn <- v2conn, ctx <- v2ctx

ImplementsV2 == V2!Spec

\* FailedConnReset of v2 for the v3 client, over both attempts.
FailedConnResetV3 ==
    [][\A p \in Callers :
          pc[p] = "failed" /\ pc'[p] # "failed" => conns'[conn[p]] = "closed"]_varsV3

\* Every call returns, the fallback included, and even if the peer leaves a
\* request unanswered that it cannot decode.
CallReturnsV3 == \A p \in Callers : pc[p] = "lock" ~> pc[p] = "done"
=============================================================================
