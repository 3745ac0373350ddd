----------------------------- MODULE SessionV1 ------------------------------
(***************************************************************************)
(* rpc2 version 1: the client that dials for every call (client.go) and    *)
(* the server that serves one request per connection (server.go), joined   *)
(* by TCP.                                                                 *)
(*                                                                         *)
(* Accept starts one waitForClient goroutine per iteration and selects     *)
(* between its channel and the context.  The goroutine closes the channel  *)
(* when it ends, so a failed accept is received as a nil connection, which *)
(* ServeConn dereferences; nothing in v1 recovers that panic.  There is at *)
(* most one such goroutine, because the loop starts the next one after it  *)
(* received from the last.                                                 *)
(***************************************************************************)
EXTENDS FiniteSets, Naturals

CONSTANT Calls   \* calls of any v1 clients, one connection each

VARIABLES
    ctx,      \* context of Accept: "live" or "done"
    loop,     \* Accept: "start", "select", "returned"
    listener, \* "none", "open", "closed"
    waiter,   \* waitForClient: "none", "accept", "send", "closed" (its channel)
    nilConn,  \* a ServeConn goroutine was started with a nil connection
    crashed,  \* it has panicked: the process is gone
    failed,   \* history: AcceptTCP failed although the listener was open
    conn,     \* server side of each connection: "none", "queued", "accepted"
              \* (in the hands of waitForClient), "serving", "closing", "closed"
    call,     \* client side: "idle", "wait", "done"
    result,   \* what Call returned: "none", "ok", "error"
    ran       \* calls that the server executed

loopVars == <<ctx, loop, listener, waiter, nilConn, crashed, failed>>
cliVars  == <<call, result>>
vars     == <<loopVars, conn, cliVars, ran>>

\* Types of the loop, its goroutine, the connections and the calls; Call has a
\* connection from its dial on, and only then.
TypeOK ==
    /\ ctx \in {"live", "done"}
    /\ loop \in {"start", "select", "returned"}
    /\ listener \in {"none", "open", "closed"}
    /\ waiter \in {"none", "accept", "send", "closed"}
    /\ nilConn \in BOOLEAN /\ crashed \in BOOLEAN /\ failed \in BOOLEAN
    /\ conn \in [Calls -> {"none", "queued", "accepted", "serving", "closing", "closed"}]
    /\ call \in [Calls -> {"idle", "wait", "done"}]
    /\ result \in [Calls -> {"none", "ok", "error"}]
    /\ ran \subseteq Calls
    /\ \A c \in Calls : /\ call[c] = "idle" => conn[c] = "none"
                        /\ call[c] = "wait" => conn[c] # "none"

Init ==
    /\ ctx = "live" /\ loop = "start" /\ listener = "none" /\ waiter = "none"
    /\ nilConn = FALSE /\ crashed = FALSE /\ failed = FALSE
    /\ conn = [c \in Calls |-> "none"]
    /\ call = [c \in Calls |-> "idle"]
    /\ result = [c \in Calls |-> "none"]
    /\ ran = {}

-----------------------------------------------------------------------------
(* Accept and waitForClient.                                               *)

CtxDone ==
    /\ ctx = "live"
    /\ ctx' = "done"
    /\ UNCHANGED <<loop, listener, waiter, nilConn, crashed, failed, conn, cliVars, ran>>

\* Accept binds the address and starts the first iteration.
Listen ==
    /\ loop = "start"
    /\ loop' = "select" /\ listener' = "open" /\ waiter' = "accept"
    /\ UNCHANGED <<ctx, nilConn, crashed, failed, conn, cliVars, ran>>

ListenFail ==
    /\ loop = "start"
    /\ loop' = "returned"
    /\ UNCHANGED <<ctx, listener, waiter, nilConn, crashed, failed, conn, cliVars, ran>>

\* waitForClient got a connection and offers it on its channel.
AcceptConn(c) ==
    /\ ~crashed
    /\ waiter = "accept" /\ listener = "open"
    /\ conn[c] = "queued"
    /\ conn' = [conn EXCEPT ![c] = "accepted"]
    /\ waiter' = "send"
    /\ UNCHANGED <<ctx, loop, listener, nilConn, crashed, failed, cliVars, ran>>

\* waitForClient got an error, of a closed listener or another: it logs the
\* latter and closes its channel in any case.
AcceptFail ==
    /\ ~crashed
    /\ waiter = "accept"
    /\ waiter' = "closed"
    /\ failed' = (failed \/ listener = "open")
    /\ UNCHANGED <<ctx, loop, listener, nilConn, crashed, conn, cliVars, ran>>

\* Faulty variant of Receive: the connection is received and forgotten.
ReceiveForgets(c) ==
    /\ ~crashed
    /\ loop = "select" /\ waiter = "send"
    /\ conn[c] = "accepted"
    /\ waiter' = "accept"
    /\ UNCHANGED <<ctx, loop, listener, nilConn, crashed, failed, conn, cliVars, ran>>

\* select receives the connection; the next iteration starts a new goroutine.
Receive(c) ==
    /\ ~crashed
    /\ loop = "select" /\ waiter = "send"
    /\ conn[c] = "accepted"
    /\ conn' = [conn EXCEPT ![c] = "serving"]
    /\ waiter' = "accept"
    /\ UNCHANGED <<ctx, loop, listener, nilConn, crashed, failed, cliVars, ran>>

\* select receives from a closed channel: ServeConn gets a nil connection.
ReceiveNil ==
    /\ ~crashed
    /\ loop = "select" /\ waiter = "closed"
    /\ nilConn' = TRUE
    /\ waiter' = "accept"
    /\ UNCHANGED <<ctx, loop, listener, crashed, failed, conn, cliVars, ran>>

\* Faulty variants of Stop: the context is only looked at when a client has
\* arrived; the listener is closed, but the loop goes on to wait for its
\* goroutine.
StopAfterClient ==
    /\ ~crashed
    /\ loop = "select" /\ ctx = "done" /\ waiter = "send"
    /\ listener' = "closed"
    /\ conn' = [c \in Calls |-> IF conn[c] = "queued" THEN "closed" ELSE conn[c]]
    /\ loop' = "returned"
    /\ UNCHANGED <<ctx, waiter, nilConn, crashed, failed, cliVars, ran>>

StopAndWait ==
    /\ ~crashed
    /\ loop = "select" /\ ctx = "done"
    /\ listener' = "closed"
    /\ conn' = [c \in Calls |-> IF conn[c] = "queued" THEN "closed" ELSE conn[c]]
    /\ loop' = IF waiter = "accept" THEN "select" ELSE "returned"
    /\ UNCHANGED <<ctx, waiter, nilConn, crashed, failed, cliVars, ran>>

\* select sees the end of the context: Accept closes the listener (the kernel
\* resets its backlog) and returns.  Nobody receives from the goroutine again.
Stop ==
    /\ ~crashed
    /\ loop = "select" /\ ctx = "done"
    /\ listener' = "closed"
    /\ conn' = [c \in Calls |-> IF conn[c] = "queued" THEN "closed" ELSE conn[c]]
    /\ loop' = "returned"
    /\ UNCHANGED <<ctx, waiter, nilConn, crashed, failed, cliVars, ran>>

-----------------------------------------------------------------------------
(* ServeConn.                                                              *)

\* conn.RemoteAddr() of the nil connection panics.
Crash ==
    /\ nilConn /\ ~crashed
    /\ crashed' = TRUE
    /\ conn' = [c \in Calls |-> IF conn[c] = "none" THEN "none" ELSE "closed"]
    /\ UNCHANGED <<ctx, loop, listener, waiter, nilConn, failed, cliVars, ran>>

\* ServeRequest reads one request, runs it and writes the response.
ServeRequest(c) ==
    /\ ~crashed
    /\ conn[c] = "serving"
    /\ ran' = ran \cup {c}
    /\ conn' = [conn EXCEPT ![c] = "closing"]
    /\ UNCHANGED <<loopVars, cliVars>>

\* ServeRequest cannot read the request: its error is ignored.
ServeRequestFail(c) ==
    /\ ~crashed
    /\ conn[c] = "serving"
    /\ conn' = [conn EXCEPT ![c] = "closing"]
    /\ UNCHANGED <<loopVars, cliVars, ran>>

\* Faulty variant of CloseCodec: there is no deferred close.
CloseCodecMissing(c) ==
    /\ ~crashed
    /\ conn[c] = "closing" /\ call[c] = "done"
    /\ conn' = [conn EXCEPT ![c] = "closed"]
    /\ UNCHANGED <<loopVars, cliVars, ran>>

\* The deferred Close of the codec.
CloseCodec(c) ==
    /\ ~crashed
    /\ conn[c] = "closing"
    /\ conn' = [conn EXCEPT ![c] = "closed"]
    /\ UNCHANGED <<loopVars, cliVars, ran>>

-----------------------------------------------------------------------------
(* The client's Call.                                                      *)

\* The dial succeeds as soon as the connection is in the backlog, and cl.Call
\* writes the request.
Dial(c) ==
    /\ call[c] = "idle"
    /\ listener = "open" /\ ~crashed
    /\ conn' = [conn EXCEPT ![c] = "queued"]
    /\ call' = [call EXCEPT ![c] = "wait"]
    /\ UNCHANGED <<loopVars, result, ran>>

Return(c, r) ==
    /\ call' = [call EXCEPT ![c] = "done"]
    /\ result' = [result EXCEPT ![c] = r]
    /\ UNCHANGED <<loopVars, conn, ran>>

DialFail(c) == call[c] = "idle" /\ Return(c, "error")

\* The reply came before the server closed the connection.
Reply(c) ==
    /\ call[c] = "wait"
    /\ conn[c] \in {"closing", "closed"} /\ c \in ran
    /\ Return(c, "ok")

\* The connection ended, or the caller's context did.
CallFail(c) ==
    /\ call[c] = "wait"
    /\ conn[c] = "closed"
    /\ Return(c, "error")

CallAborted(c) == call[c] = "wait" /\ Return(c, "error")

Next ==
    \/ CtxDone \/ Listen \/ ListenFail \/ AcceptFail \/ ReceiveNil \/ Stop \/ Crash
    \/ \E c \in Calls :
          \/ AcceptConn(c) \/ Receive(c)
          \/ ServeRequest(c) \/ ServeRequestFail(c) \/ CloseCodec(c)
          \/ Dial(c) \/ DialFail(c) \/ Reply(c) \/ CallFail(c) \/ CallAborted(c)

\* Goroutines run, select takes a branch that stays ready, accepted requests
\* are executed.  Callers' contexts need not end.
Fairness ==
    /\ WF_vars(Listen \/ ListenFail)
    /\ WF_vars(\E c \in Calls : AcceptConn(c))
    /\ WF_vars(AcceptFail /\ listener = "closed")
    /\ WF_vars(ReceiveNil \/ \E c \in Calls : Receive(c))
    /\ WF_vars(Stop)
    /\ WF_vars(Crash)
    /\ \A c \in Calls :
          /\ WF_vars(ServeRequest(c) \/ ServeRequestFail(c))
          /\ WF_vars(CloseCodec(c))
          /\ WF_vars(Reply(c) \/ CallFail(c))

Spec     == Init /\ [][Next]_vars
FairSpec == Spec /\ Fairness
-----------------------------------------------------------------------------
(* Properties.                                                             *)

\* How the loop and its goroutine go together: the listener is open while the
\* loop selects; exactly while it offers it, waitForClient holds a connection,
\* and no second one; a channel closed under the loop means a failed accept.
LoopInv ==
    /\ loop = "select" <=> listener = "open"
    /\ loop = "start" => listener = "none"
    /\ waiter = "none" <=> listener = "none"
    /\ waiter = "closed" /\ loop = "select" => failed
    /\ \A c, d \in Calls : conn[c] = "accepted" /\ conn[d] = "accepted" => c = d
    /\ ~crashed => (waiter = "send" <=> \E c \in Calls : conn[c] = "accepted")

\* Stopping the server through its context never crashes it, although the
\* closed listener makes waitForClient fail and close its channel: a nil
\* connection is only served after an accept error of an open listener.  And
\* it leaves at most one connection behind, in the hands of waitForClient.
StopIsClean == TypeOK /\ LoopInv /\ (nilConn => failed)

\* After Accept has returned everything that was accepted is served to its end
\* and closed, but for at most one connection: the one that waitForClient held
\* when nobody would receive it any more.
DrainsAfterStop ==
    loop = "returned" ~> Cardinality({c \in Calls : conn[c] \notin {"none", "closed"}}) <= 1

\* The end of the context stops Accept, also under incoming connections.
AcceptStops == ctx = "done" ~> loop = "returned" \/ crashed

\* While the server is up no call hangs, even without a deadline: it is
\* served, or its connection is closed.  (After Accept has returned, the one
\* connection in the hands of waitForClient is never closed.)
CallReturns == \A c \in Calls : call[c] = "wait" ~> call[c] = "done" \/ loop = "returned"
=============================================================================
