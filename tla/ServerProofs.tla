---------------------------- MODULE ServerProofs ----------------------------
(***************************************************************************)
(* Proofs about the accept loop and ServeConn of the v2 and v3 servers,    *)
(* for any number of connections.  The connections and the loop have an    *)
(* inductive invariant each: SocketReleased and StopsForContext.           *)
(***************************************************************************)
EXTENDS Server, TLAPS

\* The steps that leave the loop, the listener and the watcher alone.
ConnStep(c) ==
    \/ Connect(c) \/ Speak(c) \/ HangUp(c) \/ AcceptConn(c)
    \/ CodecOk(c) \/ CodecFail(c) \/ WriteResponseFails(c) \/ HandleEnds(c)
    \/ Panic(c) \/ CloseCodec(c) \/ CloseConn(c)

-----------------------------------------------------------------------------
(* The sockets.                                                            *)

\* No step of the loop touches a connection that is being served; the listener
\* takes only its backlog along.
LEMMA LoopSockets ==
  ASSUME SocketReleased,
         CtxDone \/ Listen \/ ListenFail \/ CloseListener \/ AcceptClosed
  PROVE  SocketReleased'
<1> USE DEF SocketReleased, TypeOK, connVars
<1>1. CASE CtxDone \/ Listen \/ ListenFail \/ AcceptClosed
  BY <1>1 DEF CtxDone, Listen, ListenFail, AcceptClosed
<1>2. CASE CloseListener
  BY <1>2 DEF CloseListener
<1> QED BY <1>1, <1>2

\* Peers come, speak and leave; an accepted connection starts with an open
\* socket and no panic.
LEMMA PeerSockets ==
  ASSUME SocketReleased, NEW c \in Conns,
         Connect(c) \/ Speak(c) \/ HangUp(c) \/ AcceptConn(c)
  PROVE  SocketReleased'
<1> USE DEF SocketReleased, TypeOK, acceptVars
<1>1. CASE Connect(c)  BY <1>1 DEF Connect
<1>2. CASE Speak(c)  BY <1>2 DEF Speak
<1>3. CASE HangUp(c)  BY <1>3 DEF HangUp
<1>4. CASE AcceptConn(c)  BY <1>4 DEF AcceptConn
<1> QED BY <1>1, <1>2, <1>3, <1>4

\* The paths through ServeConn and its deferred calls.
LEMMA ServeSockets ==
  ASSUME SocketReleased, NEW c \in Conns,
         \/ CodecOk(c) \/ CodecFail(c) \/ WriteResponseFails(c) \/ HandleEnds(c)
         \/ Panic(c) \/ CloseCodec(c) \/ CloseConn(c)
  PROVE  SocketReleased'
<1> USE DEF SocketReleased, TypeOK, acceptVars, Step
<1>1. CASE CodecOk(c)  BY <1>1 DEF CodecOk
<1>2. CASE CodecFail(c)  BY <1>2 DEF CodecFail
<1>3. CASE HandleEnds(c)  BY <1>3 DEF HandleEnds
<1>4. CASE Panic(c)  BY <1>4 DEF Panic
<1>5. CASE CloseCodec(c)  BY <1>5 DEF CloseCodec
<1>6. CASE CloseConn(c)  BY <1>6 DEF CloseConn
<1>7. CASE WriteResponseFails(c)  BY <1>7 DEF WriteResponseFails, Responding
<1> QED BY <1>1, <1>2, <1>3, <1>4, <1>5, <1>6, <1>7

\* On every path ServeConn gives its socket back, before its deferred calls only
\* if a response could not be written, and no panic leaves it.
THEOREM SocketsAreReleased == Spec => []SocketReleased
<1>1. Init => SocketReleased
  BY DEF Init, SocketReleased, TypeOK
<1>2. SocketReleased /\ [Next]_vars => SocketReleased'
  <2> SUFFICES ASSUME SocketReleased, [Next]_vars PROVE SocketReleased'
    OBVIOUS
  <2>1. CASE UNCHANGED vars
    BY <2>1 DEF vars, acceptVars, connVars, SocketReleased, TypeOK
  <2>2. CASE Next
    BY <2>2, LoopSockets, PeerSockets, ServeSockets DEF Next
  <2> QED BY <2>1, <2>2
<1> QED BY <1>1, <1>2, PTL DEF Spec

-----------------------------------------------------------------------------
(* The loop.                                                               *)

\* Accept returns the error of its context or of the listen call, never nil,
\* and its watcher goroutine has ended by then.
THEOREM AcceptReturnsError == Spec => []StopsForContext
<1> USE DEF StopsForContext, LoopInv
<1>1. Init => StopsForContext
  BY DEF Init
<1>2. SocketReleased /\ StopsForContext /\ [Next]_vars => StopsForContext'
  <2> SUFFICES ASSUME SocketReleased, StopsForContext, [Next]_vars PROVE StopsForContext'
    OBVIOUS
  <2>1. TypeOK
    BY DEF SocketReleased
  <2>2. CASE UNCHANGED acceptVars
    BY <2>2 DEF acceptVars
  <2>3. CASE CtxDone \/ Listen \/ ListenFail
    BY <2>1, <2>3 DEF CtxDone, Listen, ListenFail, TypeOK
  <2>4. CASE CloseListener
    BY <2>1, <2>4 DEF CloseListener, TypeOK
  <2>5. CASE AcceptClosed
    BY <2>1, <2>5 DEF AcceptClosed, TypeOK
  <2>6. ASSUME NEW c \in Conns, ConnStep(c) PROVE UNCHANGED acceptVars
    BY <2>6 DEF ConnStep, Connect, Speak, HangUp, AcceptConn, CodecOk, CodecFail,
                WriteResponseFails, HandleEnds, Panic, CloseCodec, CloseConn, Step
  <2> QED BY <2>2, <2>3, <2>4, <2>5, <2>6 DEF Next, ConnStep, vars
<1> HIDE DEF StopsForContext, LoopInv
<1> QED BY <1>1, <1>2, SocketsAreReleased, PTL DEF Spec
=============================================================================
