------------------------------ MODULE ClientV2 ------------------------------
(***************************************************************************)
(* The persistent-session RPC client of rpc2/v2 (v2/client.go).            *)
(*                                                                         *)
(* Any number of goroutines (Callers) share one CustomRpcClient.  The      *)
(* client caches one rpc.Client (field cl) under a mutex (field mu), dials *)
(* while it holds the mutex, and drops the cached connection after ANY     *)
(* error of a call.  The call itself runs outside the mutex, so a failed   *)
(* call and the connection it resets can be several steps apart.           *)
(*                                                                         *)
(* The rpc.Client, the TCP connection and the server behind it belong to   *)
(* go.slink.ws/rpc and the operating system; they are modelled by what     *)
(* v2/client.go can observe of them.                                       *)
(***************************************************************************)
EXTENDS Naturals, FiniteSets

CONSTANTS
    Callers,    \* goroutines that use the shared client
    MaxConns,   \* bound: connections that can be dialled
    MaxCalls,   \* bound: calls that one caller makes
    NoOne       \* value of mu when the mutex is free

ASSUME ClientAssumption ==
    /\ NoOne \notin Callers
    /\ MaxConns \in Nat
    /\ MaxCalls \in Nat

ConnIds == 1..MaxConns
NoConn  == 0            \* the nil pointer in c.cl, and "no client yet"

\* How cl.Call and Call can fail, as far as the code tells errors apart: the
\* context; the link (a net.Error, EOF, unexpected EOF); ErrShutdown; and what
\* says nothing of the link (ServerError, an error of a codec).
CtxErrors  == {"deadline", "canceled"}
CallErrors == CtxErrors \cup {"link", "shutdown", "app"}

VARIABLES
    mu,      \* the mutex: the caller that holds it, or NoOne
    cl,      \* c.cl: the cached connection, or NoConn
    conns,   \* state of every connection: unused, up, down (the peer or the
             \* network ended it, the client has not noticed), closed
    pc,      \* where each caller is in Call
    conn,    \* the connection getClient returned to the caller
    ctx,     \* the caller's context
    result,  \* what Call returns ("none" while undecided)
    calls,   \* calls the caller has started
    sent,    \* requests <<caller, call, connection>> on their way to the server
    ran      \* requests that the server has executed

connVars == <<mu, cl, conns>>
callVars == <<pc, conn, ctx, result, calls>>
srvVars  == <<sent, ran>>
vars     == <<connVars, callVars, srvVars>>

Request(p) == <<p, calls[p], conn[p]>>

\* Where a caller can be in Call.
Locations == {"idle", "lock", "dial", "send", "wait", "failed", "done"}

DataTypeOK ==
    /\ mu \in Callers \cup {NoOne}
    /\ cl \in ConnIds \cup {NoConn}
    /\ conns \in [ConnIds -> {"unused", "up", "down", "closed"}]
    /\ conn \in [Callers -> ConnIds \cup {NoConn}]
    /\ ctx \in [Callers -> {"live"} \cup CtxErrors]
    /\ result \in [Callers -> {"none", "ok"} \cup CallErrors]
    /\ calls \in [Callers -> 0..MaxCalls]
    /\ sent \subseteq (Callers \X (1..MaxCalls) \X ConnIds)
    /\ ran \subseteq (Callers \X (1..MaxCalls) \X ConnIds)

\* Past getClient and before Call returns: the caller works with a client.
InCall == {"send", "wait", "failed"}

\* No nil client is ever called: whoever is past getClient holds a connection.
NoNilClient == \A p \in Callers : pc[p] \in InCall => conn[p] # NoConn

\* Types of the client's fields and of the callers' locals; the pointer that
\* getClient returns is never nil when its error is.
TypeOK == pc \in [Callers -> Locations] /\ DataTypeOK /\ NoNilClient

Init ==
    /\ mu = NoOne
    /\ cl = NoConn
    /\ conns = [c \in ConnIds |-> "unused"]
    /\ pc = [p \in Callers |-> "idle"]
    /\ conn = [p \in Callers |-> NoConn]
    /\ ctx = [p \in Callers |-> "live"]
    /\ result = [p \in Callers |-> "none"]
    /\ calls = [p \in Callers |-> 0]
    /\ sent = {}
    /\ ran = {}

-----------------------------------------------------------------------------
(* Call: entry and getClient.                                              *)

Goto(p, to) == pc' = [pc EXCEPT ![p] = to]

\* Call returns: its locals are gone.
Leave(p) ==
    /\ Goto(p, "done")
    /\ conn' = [conn EXCEPT ![p] = NoConn]
    /\ ctx' = [ctx EXCEPT ![p] = "live"]

\* Call returns r to the caller.
Return(p, r) ==
    /\ Leave(p)
    /\ result' = [result EXCEPT ![p] = r]

\* cl.Call returned the error e: Call goes on to invalidate.
Fail(p, e) ==
    /\ Goto(p, "failed")
    /\ result' = [result EXCEPT ![p] = e]

\* Call starts; the middlewares only derive a context, and a context that is
\* already done ends the call before getClient.
Begin(p) ==
    /\ pc[p] \in {"idle", "done"}
    /\ calls[p] < MaxCalls
    /\ calls' = [calls EXCEPT ![p] = @ + 1]
    /\ \/ /\ Goto(p, "lock")
          /\ result' = [result EXCEPT ![p] = "none"]
          /\ UNCHANGED <<conn, ctx>>
       \/ \E e \in CtxErrors : Return(p, e)
    /\ UNCHANGED <<connVars, srvVars>>

\* The context of a running call expires or is cancelled.  Only a caller's own
\* dial and call read its context, so the step is taken where one is to come.
CtxDone(p) ==
    /\ pc[p] \in {"lock", "dial", "send", "wait"}
    /\ ctx[p] = "live"
    /\ \E e \in CtxErrors : ctx' = [ctx EXCEPT ![p] = e]
    /\ UNCHANGED <<connVars, pc, conn, result, calls, srvVars>>

\* getClient finds a cached client.  It does not look at the context.
GetCached(p) ==
    /\ pc[p] = "lock"
    /\ mu = NoOne
    /\ cl # NoConn
    /\ conn' = [conn EXCEPT ![p] = cl]
    /\ Goto(p, "send")
    /\ UNCHANGED <<connVars, ctx, result, calls, srvVars>>

\* getClient finds none and dials with the mutex held.
StartDial(p) ==
    /\ pc[p] = "lock"
    /\ mu = NoOne
    /\ cl = NoConn
    /\ mu' = p
    /\ Goto(p, "dial")
    /\ UNCHANGED <<cl, conns, conn, ctx, result, calls, srvVars>>

\* Connections are numbered in the order in which they are dialled.
IsFresh(c) == /\ conns[c] = "unused"
              /\ \A d \in ConnIds : d < c => conns[d] # "unused"

\* The dial succeeds: the new client is cached and the mutex released.
DialOk(p) ==
    /\ pc[p] = "dial"
    /\ ctx[p] = "live"
    /\ \E c \in ConnIds :
          /\ IsFresh(c)
          /\ conns' = [conns EXCEPT ![c] = "up"]
          /\ cl' = c
          /\ conn' = [conn EXCEPT ![p] = c]
    /\ mu' = NoOne
    /\ Goto(p, "send")
    /\ UNCHANGED <<ctx, result, calls, srvVars>>

\* Faulty variant of DialFail: the mutex stays locked on the error path.
DialFailKeepsLock(p) ==
    /\ pc[p] = "dial"
    /\ Return(p, IF ctx[p] = "live" THEN "link" ELSE ctx[p])
    /\ UNCHANGED <<mu, cl, conns, calls, srvVars>>

\* The dial (or the codec constructor, which closes the fresh socket) fails,
\* because the server is unreachable or the context is done.
DialFail(p) ==
    /\ pc[p] = "dial"
    /\ mu' = NoOne
    /\ Return(p, IF ctx[p] = "live" THEN "link" ELSE ctx[p])
    /\ UNCHANGED <<cl, conns, calls, srvVars>>

-----------------------------------------------------------------------------
(* Call: cl.Call, outside the mutex (external: go.slink.ws/rpc).           *)

\* The request is written; the client may not know yet that it will hear
\* nothing more from the peer.
Send(p) ==
    /\ pc[p] = "send"
    /\ conns[conn[p]] \in {"up", "down"}
    /\ sent' = sent \cup {Request(p)}
    /\ Goto(p, "wait")
    /\ UNCHANGED <<connVars, conn, ctx, result, calls, ran>>

\* Errors of a request that never left: the client was closed since getClient
\* returned it, its reader or the write noticed that the peer is gone, or the
\* argument cannot be encoded.
SendErrors(state) ==
    CASE state = "closed" -> {"shutdown"}
      [] state = "down"   -> {"shutdown", "link", "app"}
      [] OTHER            -> {"app"}

SendFail(p) ==
    /\ pc[p] = "send"
    /\ \E e \in SendErrors(conns[conn[p]]) : Fail(p, e)
    /\ UNCHANGED <<connVars, conn, ctx, calls, srvVars>>

\* The server executes a request that reached it, possibly after the client
\* gave the call up.
Execute(r) ==
    /\ r \in sent
    /\ sent' = sent \ {r}
    /\ ran' = ran \cup {r}
    /\ UNCHANGED <<connVars, callVars>>

\* A reply arrives: cl.Call returns nil, and Call then reports the context.
Reply(p) ==
    /\ pc[p] = "wait"
    /\ Request(p) \in ran
    /\ conns[conn[p]] = "up"
    /\ Return(p, IF ctx[p] = "live" THEN "ok" ELSE ctx[p])
    /\ UNCHANGED <<connVars, calls, srvVars>>

\* The reply carries a ServerError, or its body cannot be decoded.
ErrorReply(p) ==
    /\ pc[p] = "wait"
    /\ Request(p) \in ran
    /\ conns[conn[p]] = "up"
    /\ Fail(p, "app")
    /\ UNCHANGED <<connVars, conn, ctx, calls, srvVars>>

\* The connection ended under a pending call: ErrShutdown when this client
\* closed it, an EOF or network error when the peer or the network did.
Lost(p) ==
    /\ pc[p] = "wait"
    /\ \/ conns[conn[p]] = "closed" /\ Fail(p, "shutdown")
       \/ conns[conn[p]] = "down" /\ Fail(p, "link")
    /\ UNCHANGED <<connVars, conn, ctx, calls, srvVars>>

\* The context ends a pending call.
Abort(p) ==
    /\ pc[p] = "wait"
    /\ ctx[p] # "live"
    /\ Fail(p, ctx[p])
    /\ UNCHANGED <<connVars, conn, ctx, calls, srvVars>>

-----------------------------------------------------------------------------
(* Resetting the session.                                                  *)

\* Faulty variant of ResetConn: the pointer is cleared, nothing is closed.
ResetConnLeaks ==
    /\ mu = NoOne
    /\ cl' = NoConn
    /\ UNCHANGED <<mu, conns>>

\* Drop whatever connection is cached at this moment.
ResetConn ==
    /\ mu = NoOne
    /\ conns' = IF cl = NoConn THEN conns ELSE [conns EXCEPT ![cl] = "closed"]
    /\ cl' = NoConn
    /\ UNCHANGED mu

\* Faulty variant of Invalidate: a call that its own context ended is taken
\* to leave the connection in order.
InvalidateUnlessCtx(p) ==
    /\ pc[p] = "failed"
    /\ IF result[p] \in CtxErrors THEN UNCHANGED connVars ELSE ResetConn
    /\ Leave(p)
    /\ UNCHANGED <<result, calls, srvVars>>

\* invalidate after a failed call, then Call returns the error.
Invalidate(p) ==
    /\ pc[p] = "failed"
    /\ ResetConn
    /\ Leave(p)
    /\ UNCHANGED <<result, calls, srvVars>>

\* Close by any goroutine; a later Call dials again.
Close ==
    /\ cl # NoConn
    /\ ResetConn
    /\ UNCHANGED <<callVars, srvVars>>

\* The peer or the network ends a connection.
Drop(c) ==
    /\ conns[c] = "up"
    /\ conns' = [conns EXCEPT ![c] = "down"]
    /\ UNCHANGED <<mu, cl, callVars, srvVars>>

Next ==
    \/ \E p \in Callers :
          \/ Begin(p) \/ CtxDone(p)
          \/ GetCached(p) \/ StartDial(p) \/ DialOk(p) \/ DialFail(p)
          \/ Send(p) \/ SendFail(p)
          \/ Reply(p) \/ ErrorReply(p) \/ Lost(p) \/ Abort(p)
          \/ Invalidate(p)
    \/ \E r \in sent : Execute(r)
    \/ Close
    \/ \E c \in ConnIds : Drop(c)

\* A running goroutine is scheduled, a dial ends (it has the dialer's and the
\* operating system's timeouts), a server that got a request runs it and
\* answers, and sync.Mutex hands the lock to a waiter that waits long enough
\* (its starvation mode), hence strong fairness of the lock steps.  A caller
\* is at one location at a time, so one condition covers all of a kind.
Fairness ==
    /\ \A p \in Callers :
          /\ SF_vars(GetCached(p) \/ StartDial(p) \/ Invalidate(p))
          /\ WF_vars(\/ DialOk(p) \/ DialFail(p) \/ Send(p) \/ SendFail(p)
                     \/ Reply(p) \/ ErrorReply(p) \/ Lost(p) \/ Abort(p))
    /\ WF_vars(\E r \in sent : Execute(r))

Spec     == Init /\ [][Next]_vars
FairSpec == Spec /\ Fairness
-----------------------------------------------------------------------------
(* Properties.                                                             *)

IsOpen(c) == conns[c] \in {"up", "down"}

\* The only connection that is not closed is the cached one: however calls,
\* resets, Close and drops interleave, getClient and invalidate leak no
\* connection (no socket or reader goroutine outlives its client) and a
\* cached connection was never closed.
OneSession == \A c \in ConnIds : IsOpen(c) <=> c = cl

\* Why the session is single.  The mutex is held exactly by the caller that
\* dials, and nothing is cached meanwhile; a caller in Call works with a
\* connection that was dialled.  OneSession is inductive only with these.
LockInv ==
    /\ \A p \in Callers : pc[p] = "dial" <=> mu = p
    /\ mu # NoOne => cl = NoConn

InCallInv ==
    \A p \in Callers :
       /\ pc[p] # "idle" => calls[p] > 0
       /\ pc[p] \in InCall => conns[conn[p]] # "unused"

IndInv == TypeOK /\ OneSession /\ LockInv /\ InCallInv

\* "any transport error means that the state of the connection is not
\* defined: we reset it": when Call returns an error of cl.Call, the very
\* connection that failed is closed, although invalidate closes whatever is
\* cached by then and another caller may have reconnected in between.
FailedConnReset ==
    [][\A p \in Callers :
          pc[p] = "failed" /\ pc'[p] # "failed" => conns'[conn[p]] = "closed"]_vars

\* No call hangs: whoever holds the mutex and however often the session is
\* reset under it, every started call returns to its caller.
CallReturns == \A p \in Callers : pc[p] = "lock" ~> pc[p] = "done"
=============================================================================
