--------------------------- MODULE SessionV1Proofs --------------------------
(***************************************************************************)
(* Proofs about the v1 server and client, for any number of calls.         *)
(* StopIsClean is inductive: its part LoopInv relates the loop, its one    *)
(* waitForClient goroutine, the listener and the accepted connections.     *)
(***************************************************************************)
EXTENDS SessionV1, TLAPS

\* Steps of the loop and of its goroutine that concern no single connection.
LEMMA LoopSteps ==
  ASSUME StopIsClean,
         CtxDone \/ Listen \/ ListenFail \/ AcceptFail \/ ReceiveNil \/ Stop \/ Crash
  PROVE  StopIsClean'
<1> USE DEF StopIsClean, TypeOK, LoopInv, cliVars
<1>1. CASE CtxDone  BY <1>1 DEF CtxDone
<1>2. CASE Listen  BY <1>2 DEF Listen
<1>3. CASE ListenFail  BY <1>3 DEF ListenFail
<1>4. CASE AcceptFail  BY <1>4 DEF AcceptFail
<1>5. CASE ReceiveNil  BY <1>5 DEF ReceiveNil
<1>6. CASE Stop
  <2>1. \A c \in Calls : conn'[c] = "accepted" <=> conn[c] = "accepted"
    BY <1>6 DEF Stop
  <2>2. LoopInv'
    BY <1>6, <2>1 DEF Stop
  <2>3. TypeOK'
    BY <1>6 DEF Stop
  <2> QED BY <1>6, <2>2, <2>3 DEF Stop
<1>7. CASE Crash  BY <1>7 DEF Crash
<1> QED BY <1>1, <1>2, <1>3, <1>4, <1>5, <1>6, <1>7

\* A connection comes into the hands of waitForClient only when it holds none,
\* and leaves them when the loop receives it.
LEMMA HandOver ==
  ASSUME StopIsClean, NEW c \in Calls, AcceptConn(c) \/ Receive(c)
  PROVE  StopIsClean'
<1> USE DEF StopIsClean, TypeOK, cliVars
<1>1. CASE AcceptConn(c)
  <2>1. \A d \in Calls : conn'[d] = "accepted" <=> d = c
    BY <1>1 DEF AcceptConn, LoopInv
  <2> QED BY <1>1, <2>1 DEF AcceptConn, LoopInv
<1>2. CASE Receive(c)
  <2>1. \A d \in Calls : conn'[d] # "accepted"
    BY <1>2 DEF Receive, LoopInv
  <2> QED BY <1>2, <2>1 DEF Receive, LoopInv
<1> QED BY <1>1, <1>2

\* Serving and calling touch neither the loop nor what its goroutine holds.
LEMMA ConnSteps ==
  ASSUME StopIsClean, NEW c \in Calls,
         \/ ServeRequest(c) \/ ServeRequestFail(c) \/ CloseCodec(c)
         \/ Dial(c) \/ DialFail(c) \/ Reply(c) \/ CallFail(c) \/ CallAborted(c)
  PROVE  StopIsClean'
<1> USE DEF StopIsClean, TypeOK, loopVars, cliVars
<1>1. UNCHANGED loopVars
  BY DEF ServeRequest, ServeRequestFail, CloseCodec, Dial, DialFail, Reply, CallFail,
         CallAborted, Return
<1>2. TypeOK'
  <2>1. CASE ServeRequest(c) \/ ServeRequestFail(c) \/ CloseCodec(c)
    BY <2>1 DEF ServeRequest, ServeRequestFail, CloseCodec
  <2>2. CASE Dial(c)
    BY <2>2 DEF Dial
  <2>3. CASE DialFail(c) \/ Reply(c) \/ CallFail(c) \/ CallAborted(c)
    BY <2>3 DEF DialFail, Reply, CallFail, CallAborted, Return
  <2> QED BY <2>1, <2>2, <2>3
<1>3. \A d \in Calls : conn'[d] = "accepted" <=> conn[d] = "accepted"
  BY DEF ServeRequest, ServeRequestFail, CloseCodec, Dial, DialFail, Reply, CallFail,
         CallAborted, Return
<1> QED BY <1>1, <1>2, <1>3 DEF LoopInv

\* Stopping through the context serves no nil connection, and leaves at most
\* one accepted connection behind.
THEOREM StoppingIsClean == Spec => []StopIsClean
<1>1. Init => StopIsClean
  BY DEF Init, StopIsClean, TypeOK, LoopInv
<1>2. StopIsClean /\ [Next]_vars => StopIsClean'
  <2> SUFFICES ASSUME StopIsClean, [Next]_vars PROVE StopIsClean'
    OBVIOUS
  <2>1. CASE UNCHANGED vars
    BY <2>1 DEF vars, loopVars, cliVars, StopIsClean, TypeOK, LoopInv
  <2>2. CASE Next
    BY <2>2, LoopSteps, HandOver, ConnSteps DEF Next
  <2> QED BY <2>1, <2>2
<1> QED BY <1>1, <1>2, PTL DEF Spec
=============================================================================
