------------------------------- MODULE Server -------------------------------
(***************************************************************************)
(* The accept loop and the per-connection goroutines of the rpc2 servers   *)
(* of version 2 (v2/server.go) and 3 (v3/server.go).                       *)
(*                                                                         *)
(* Accept listens, starts a goroutine that closes the listener when the    *)
(* context ends, and serves every connection in a goroutine of its own.    *)
(* ServeConn builds the codec (v3 waits there for the peer's first two     *)
(* bytes), hands it to the handler and gives codec and socket back in      *)
(* deferred calls, one of which also recovers a panic.                     *)
(***************************************************************************)
EXTENDS Naturals

CONSTANTS
    Conns,    \* connections that peers open
    Versions  \* servers to look at: "v2", "v3"

ASSUME VersionAssumption == Versions \subseteq {"v2", "v3"}

VARIABLES
    version,   \* the version of the server
    ctx,       \* context of Accept: "live" or "done"
    listener,  \* "none", "open", "closed"
    accept,    \* the loop: "start", "loop", "returned"
    returned,  \* what Accept returned: "none", "nil", "ctx", "listen"
    watcher,   \* the goroutine that waits for ctx: "none", "waiting", "gone"
    peer,      \* the other side: "away", "queued", "silent", "talking", "gone"
    serve,     \* ServeConn: "none", "codec", "handle", "closeCodec",
               \* "closeConn", "ended", or "crashed" (an unrecovered panic)
    panicking, \* connections whose goroutine is unwinding a panic
    sock,      \* the server's socket: "none", "open", "closed"
    broken     \* connections whose codec closed the socket after a response
               \* that it could not write

acceptVars == <<version, ctx, listener, accept, returned, watcher>>
connVars   == <<peer, serve, panicking, sock, broken>>
vars       == <<acceptVars, connVars>>

\* Types of the loop, the watcher and the connections; no panic leaves a
\* goroutine of ServeConn (it would end the process).
TypeOK ==
    /\ version \in Versions
    /\ ctx \in {"live", "done"}
    /\ listener \in {"none", "open", "closed"}
    /\ accept \in {"start", "loop", "returned"}
    /\ returned \in {"none", "nil", "ctx", "listen"}
    /\ watcher \in {"none", "waiting", "gone"}
    /\ peer \in [Conns -> {"away", "queued", "silent", "talking", "gone"}]
    /\ serve \in [Conns -> {"none", "codec", "handle", "closeCodec", "closeConn", "ended"}]
    /\ panicking \subseteq Conns
    /\ sock \in [Conns -> {"none", "open", "closed"}]
    /\ broken \subseteq Conns

Init ==
    /\ version \in Versions
    /\ ctx = "live"
    /\ listener = "none"
    /\ accept = "start"
    /\ returned = "none"
    /\ watcher = "none"
    /\ peer = [c \in Conns |-> "away"]
    /\ serve = [c \in Conns |-> "none"]
    /\ panicking = {}
    /\ sock = [c \in Conns |-> "none"]
    /\ broken = {}

-----------------------------------------------------------------------------
(* Accept.                                                                 *)

CtxDone ==
    /\ ctx = "live"
    /\ ctx' = "done"
    /\ UNCHANGED <<version, listener, accept, returned, watcher, connVars>>

\* The address cannot be resolved or bound: Accept returns that error.
ListenFail ==
    /\ accept = "start"
    /\ accept' = "returned"
    /\ returned' = "listen"
    /\ UNCHANGED <<version, ctx, listener, watcher, connVars>>

Listen ==
    /\ accept = "start"
    /\ listener' = "open"
    /\ watcher' = "waiting"
    /\ accept' = "loop"
    /\ UNCHANGED <<version, ctx, returned, connVars>>

\* Faulty variant of CloseListener: the watcher does not wait for the context.
CloseListenerEarly ==
    /\ watcher = "waiting"
    /\ listener' = "closed"
    /\ watcher' = "gone"
    /\ peer' = [c \in Conns |-> IF peer[c] = "queued" THEN "gone" ELSE peer[c]]
    /\ UNCHANGED <<version, ctx, accept, returned, serve, panicking, sock, broken>>

\* The watcher closes the listener; the kernel resets what is in its backlog.
CloseListener ==
    /\ watcher = "waiting"
    /\ ctx = "done"
    /\ listener' = "closed"
    /\ watcher' = "gone"
    /\ peer' = [c \in Conns |-> IF peer[c] = "queued" THEN "gone" ELSE peer[c]]
    /\ UNCHANGED <<version, ctx, accept, returned, serve, panicking, sock, broken>>

\* Faulty variant of AcceptConn: the loop serves the connection itself.
AcceptConnInline(c) ==
    /\ accept = "loop" /\ listener = "open"
    /\ \A d \in Conns : serve[d] \in {"none", "ended"}
    /\ peer[c] = "queued"
    /\ peer' = [peer EXCEPT ![c] = "silent"]
    /\ serve' = [serve EXCEPT ![c] = "codec"]
    /\ sock' = [sock EXCEPT ![c] = "open"]
    /\ UNCHANGED <<acceptVars, panicking, broken>>

\* A connection is accepted and handed to a goroutine.  (Any other error of
\* AcceptTCP is logged and the loop goes on: no state changes.)
AcceptConn(c) ==
    /\ accept = "loop" /\ listener = "open"
    /\ peer[c] = "queued"
    /\ peer' = [peer EXCEPT ![c] = "silent"]
    /\ serve' = [serve EXCEPT ![c] = "codec"]
    /\ sock' = [sock EXCEPT ![c] = "open"]
    /\ UNCHANGED <<acceptVars, panicking, broken>>

\* Faulty variant of AcceptClosed: the loop goes on after net.ErrClosed.
AcceptClosedIgnored ==
    /\ accept = "loop" /\ listener = "closed"
    /\ UNCHANGED vars

\* AcceptTCP reports net.ErrClosed: Accept returns ctx.Err().
AcceptClosed ==
    /\ accept = "loop" /\ listener = "closed"
    /\ accept' = "returned"
    /\ returned' = IF ctx = "done" THEN "ctx" ELSE "nil"
    /\ UNCHANGED <<version, ctx, listener, watcher, connVars>>

-----------------------------------------------------------------------------
(* The peer.                                                               *)

Connect(c) ==
    /\ listener = "open"
    /\ peer[c] = "away"
    /\ peer' = [peer EXCEPT ![c] = "queued"]
    /\ UNCHANGED <<acceptVars, serve, panicking, sock, broken>>

Speak(c) ==
    /\ peer[c] = "silent"
    /\ peer' = [peer EXCEPT ![c] = "talking"]
    /\ UNCHANGED <<acceptVars, serve, panicking, sock, broken>>

HangUp(c) ==
    /\ peer[c] \in {"silent", "talking"}
    /\ peer' = [peer EXCEPT ![c] = "gone"]
    /\ UNCHANGED <<acceptVars, serve, panicking, sock, broken>>

-----------------------------------------------------------------------------
(* ServeConn.                                                              *)

Step(c, to) == serve' = [serve EXCEPT ![c] = to] /\ UNCHANGED <<acceptVars, peer>>

\* The codec is built: v2 does not wait for the peer, v3 until the first bytes
\* are there or the stream has ended without any (the legacy codec is to find
\* out).
CodecOk(c) ==
    /\ serve[c] = "codec"
    /\ version = "v3" => peer[c] \in {"talking", "gone"}
    /\ Step(c, "handle")
    /\ UNCHANGED <<panicking, sock, broken>>

\* Faulty variant of CodecFail: the early return forgets the socket.
CodecFailLeaks(c) ==
    /\ serve[c] = "codec"
    /\ version = "v3" => peer[c] \in {"talking", "gone"}
    /\ Step(c, "ended")
    /\ UNCHANGED <<panicking, sock, broken>>

\* The read fails, or the key is invalid: there is no codec to close.
CodecFail(c) ==
    /\ serve[c] = "codec"
    /\ version = "v3" => peer[c] \in {"talking", "gone"}
    /\ Step(c, "closeConn")
    /\ UNCHANGED <<panicking, sock, broken>>

\* A method answers what cannot be encoded.  It runs in a goroutine of its own,
\* and may still run when ServeConn unwinds a panic.
Responding(c) ==
    /\ serve[c] = "handle" \/ (serve[c] = "closeCodec" /\ c \in panicking)
    /\ peer[c] \in {"talking", "gone"}
    /\ sock[c] = "open"

\* Faulty variant of WriteResponseFails: the error is only reported.
WriteResponseFailsOpen(c) ==
    /\ Responding(c)
    /\ broken' = broken \cup {c}
    /\ UNCHANGED <<acceptVars, peer, serve, panicking, sock>>

\* The codec closes the connection under the session: a header without its
\* body cannot be taken back.
WriteResponseFails(c) ==
    /\ Responding(c)
    /\ sock' = [sock EXCEPT ![c] = "closed"]
    /\ broken' = broken \cup {c}
    /\ UNCHANGED <<acceptVars, peer, serve, panicking>>

\* ServeCodec returns when a request cannot be read: the peer is gone, its
\* bytes cannot be decoded, or the socket was closed by WriteResponse.
HandleEnds(c) ==
    /\ serve[c] = "handle"
    /\ peer[c] \in {"talking", "gone"}
    /\ Step(c, "closeCodec")
    /\ UNCHANGED <<panicking, sock, broken>>

\* A panic in the codec or in the handler unwinds to the deferred calls.
Panic(c) ==
    /\ serve[c] \in {"codec", "handle"}
    /\ panicking' = panicking \cup {c}
    /\ Step(c, IF serve[c] = "handle" THEN "closeCodec" ELSE "closeConn")
    /\ UNCHANGED <<sock, broken>>

\* Deferred: the codec closes the socket it owns.
CloseCodec(c) ==
    /\ serve[c] = "closeCodec"
    /\ sock' = [sock EXCEPT ![c] = "closed"]
    /\ Step(c, "closeConn")
    /\ UNCHANGED <<panicking, broken>>

\* Faulty variant of CloseConn: nothing recovers the panic.
CloseConnNoRecover(c) ==
    /\ serve[c] = "closeConn"
    /\ sock' = [sock EXCEPT ![c] = "closed"]
    /\ Step(c, "ended")
    /\ UNCHANGED <<panicking, broken>>

\* Deferred first, hence last: recover, then close the socket.
CloseConn(c) ==
    /\ serve[c] = "closeConn"
    /\ panicking' = panicking \ {c}
    /\ sock' = [sock EXCEPT ![c] = "closed"]
    /\ Step(c, "ended")
    /\ UNCHANGED broken

Next ==
    \/ CtxDone \/ Listen \/ ListenFail \/ CloseListener \/ AcceptClosed
    \/ \E c \in Conns :
          \/ Connect(c) \/ Speak(c) \/ HangUp(c) \/ AcceptConn(c)
          \/ CodecOk(c) \/ CodecFail(c) \/ WriteResponseFails(c) \/ HandleEnds(c)
          \/ Panic(c) \/ CloseCodec(c) \/ CloseConn(c)

\* The loop, the watcher and the goroutines run, methods return, a read of a
\* closed socket or from a peer that is gone returns, and the backlog is a queue;
\* the peers and the owner of the context may do nothing for ever.
Fairness ==
    /\ WF_vars(Listen \/ ListenFail)
    /\ WF_vars(CloseListener)
    /\ WF_vars(AcceptClosed)
    /\ \A c \in Conns :
          /\ WF_vars(AcceptConn(c))
          /\ WF_vars(CodecOk(c) \/ CodecFail(c))
          /\ WF_vars(HandleEnds(c) /\ (peer[c] = "gone" \/ sock[c] = "closed"))
          /\ WF_vars(CloseCodec(c) \/ CloseConn(c))

Spec     == Init /\ [][Next]_vars
FairSpec == Spec /\ Fairness
-----------------------------------------------------------------------------
(* Properties.                                                             *)

\* ServeConn ends with its socket closed on every path (codec error, end of
\* the session, panic in either), and no panic leaves it, which would end the
\* whole server.  Only a response that cannot be written closes the socket
\* before the deferred calls do, and none does it before there is a codec.
SocketReleased ==
    /\ TypeOK
    /\ \A c \in Conns :
          /\ peer[c] \in {"away", "queued"} => serve[c] = "none"
          /\ sock[c] = "none" <=> serve[c] = "none"
          /\ sock[c] = "closed" => serve[c] \in {"closeConn", "ended"} \/ c \in broken
          /\ c \in broken => sock[c] = "closed" /\ serve[c] # "codec"
          /\ c \in panicking => serve[c] \in {"closeCodec", "closeConn"}
          /\ serve[c] = "ended" => sock[c] = "closed"

\* How loop, listener and watcher go together: the watcher owns the open
\* listener and closes it only for the context.
LoopInv ==
    /\ accept = "start" => watcher = "none"
    /\ accept = "loop" => watcher # "none"
    /\ accept = "returned" <=> returned # "none"
    /\ watcher = "none" <=> listener = "none"
    /\ watcher = "waiting" <=> listener = "open"
    /\ watcher = "gone" => ctx = "done"

\* Accept never returns nil: if it could listen at all, it returns only after its
\* context has ended, with that error, and leaves no watcher behind.
StopsForContext ==
    /\ LoopInv
    /\ returned # "none" => /\ returned = "listen" \/ (returned = "ctx" /\ ctx = "done")
                            /\ watcher # "waiting"

\* The end of the context stops the loop, whatever connections are open.
AcceptStops == ctx = "done" ~> accept = "returned"

\* Silent, slow or panicking peers do not keep others from being served: a
\* connection in the backlog is accepted, or the listener is closed.
BacklogServed == \A c \in Conns :
    peer[c] = "queued" ~> serve[c] # "none" \/ listener = "closed"

\* A peer that goes away leaves no socket behind on the server.
GoneIsReleased == \A c \in Conns :
    peer[c] = "gone" /\ sock[c] = "open" ~> sock[c] = "closed"

\* A response that cannot be written ends the session although the peer stays:
\* WriteResponse has no other way to tell the goroutine that waits for the next
\* request than to close the socket under it.
BrokenSessionEnds == \A c \in Conns : c \in broken ~> serve[c] = "ended"
=============================================================================
