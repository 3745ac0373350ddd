--------------------------- MODULE ClientV2Proofs ---------------------------
(***************************************************************************)
(* Proofs about the v2 session client, for any number of callers, calls    *)
(* and connections.  IndInv of ClientV2 is the inductive invariant.        *)
(*                                                                         *)
(* The v3 client takes the same session steps from more locations, so the  *)
(* lemmas about single steps are stated for any set L of locations that    *)
(* contains those of v2, and are used again in ClientV3Proofs.             *)
(***************************************************************************)
EXTENDS ClientV2, TLAPS

\* IndInv with the callers' locations taken from L.
SessionInv(L) ==
    /\ pc \in [Callers -> L]
    /\ DataTypeOK /\ NoNilClient /\ OneSession /\ LockInv /\ InCallInv

\* For v2 itself, L is Locations.
LEMMA IndInvIsSessionInv == IndInv <=> SessionInv(Locations)
  BY DEF IndInv, TypeOK, SessionInv

\* Nothing is dialled, locked or called at the start.
LEMMA InitIndInv == Init => IndInv
  BY ClientAssumption
  DEF Init, IndInv, TypeOK, DataTypeOK, NoNilClient, OneSession, IsOpen,
      LockInv, InCallInv, InCall, Locations, ConnIds, NoConn, CtxErrors

\* Call and getClient up to the point where the caller has a connection.
LEMMA GetClientSession ==
  ASSUME NEW L, Locations \subseteq L, SessionInv(L), NEW p \in Callers,
         Begin(p) \/ CtxDone(p) \/ GetCached(p) \/ StartDial(p) \/ DialOk(p) \/ DialFail(p)
  PROVE  SessionInv(L)'
<1> USE ClientAssumption
        DEF SessionInv, DataTypeOK, NoNilClient, OneSession, IsOpen, LockInv,
            InCallInv, InCall, Locations, ConnIds, NoConn, CtxErrors, CallErrors,
            connVars, callVars, srvVars, Goto
<1>1. CASE Begin(p)
  <2>1. CASE Goto(p, "lock") /\ result' = [result EXCEPT ![p] = "none"] /\ UNCHANGED <<conn, ctx>>
    BY <1>1, <2>1 DEF Begin
  <2>2. ASSUME NEW e \in CtxErrors, Return(p, e) PROVE SessionInv(L)'
    <3>1. (pc \in [Callers -> L] /\ DataTypeOK /\ NoNilClient)'
      BY <1>1, <2>2 DEF Begin, Return, Leave
    <3>2. (OneSession /\ LockInv)'  BY <1>1, <2>2 DEF Begin, Return, Leave
    <3>3. InCallInv'  BY <1>1, <2>2 DEF Begin, Return, Leave
    <3> QED BY <3>1, <3>2, <3>3
  <2> QED BY <1>1, <2>1, <2>2 DEF Begin
<1>2. CASE CtxDone(p)
  BY <1>2 DEF CtxDone
<1>3. CASE GetCached(p)
  <2>1. (pc \in [Callers -> L] /\ DataTypeOK /\ NoNilClient)'  BY <1>3 DEF GetCached
  <2>2. (OneSession /\ LockInv)'  BY <1>3 DEF GetCached
  <2>3. conns[cl] # "unused" /\ cl \in ConnIds
    BY <1>3 DEF GetCached
  <2>4. InCallInv'
    <3> SUFFICES ASSUME NEW q \in Callers
                 PROVE  /\ pc'[q] # "idle" => calls'[q] > 0
                        /\ pc'[q] \in InCall => conns'[conn'[q]] # "unused"
      OBVIOUS
    <3>1. CASE q = p  BY <1>3, <2>3, <3>1 DEF GetCached
    <3>2. CASE q # p  BY <1>3, <3>2 DEF GetCached
    <3> QED BY <3>1, <3>2
  <2> QED BY <2>1, <2>2, <2>4
<1>4. CASE StartDial(p)
  BY <1>4 DEF StartDial
<1>5. CASE DialOk(p)
  BY <1>5 DEF DialOk, IsFresh
<1>6. CASE DialFail(p)
  BY <1>6 DEF DialFail, Return, Leave
<1> QED BY <1>1, <1>2, <1>3, <1>4, <1>5, <1>6

\* cl.Call returns an error: only the caller's location and result change.
LEMMA FailSession ==
  ASSUME NEW L, Locations \subseteq L, SessionInv(L),
         NEW p \in Callers, pc[p] \in {"send", "wait"},
         NEW e \in CallErrors, Fail(p, e),
         UNCHANGED <<connVars, conn, ctx, calls, srvVars>>
  PROVE  SessionInv(L)'
<1> USE DEF Fail, Goto, connVars, srvVars
<1>1. (pc \in [Callers -> L] /\ DataTypeOK /\ NoNilClient)'
  BY DEF SessionInv, DataTypeOK, NoNilClient, InCall, Locations
<1>2. OneSession' /\ LockInv'
  BY DEF SessionInv, OneSession, IsOpen, LockInv
<1>3. InCallInv'
  BY DEF SessionInv, InCallInv, InCall
<1> QED BY <1>1, <1>2, <1>3 DEF SessionInv

\* cl.Call, the server and the network.
LEMMA CallSession ==
  ASSUME NEW L, Locations \subseteq L, SessionInv(L),
         \/ \E p \in Callers : \/ Send(p) \/ SendFail(p) \/ Reply(p)
                               \/ ErrorReply(p) \/ Lost(p) \/ Abort(p)
         \/ \E r \in sent : Execute(r)
         \/ \E c \in ConnIds : Drop(c)
  PROVE  SessionInv(L)'
<1> USE ClientAssumption
        DEF SessionInv, DataTypeOK, NoNilClient, OneSession, IsOpen, LockInv,
            InCallInv, InCall, Locations, ConnIds, NoConn, CtxErrors, CallErrors,
            connVars, callVars, srvVars, Goto
<1>1. ASSUME NEW p \in Callers, Send(p) PROVE SessionInv(L)'
  BY <1>1 DEF Send, Request
<1>2. ASSUME NEW p \in Callers, SendFail(p) PROVE SessionInv(L)'
  <2>1. PICK e \in CallErrors : Fail(p, e)
    BY <1>2 DEF SendFail, SendErrors
  <2> QED BY <1>2, <2>1, FailSession DEF SendFail
<1>3. ASSUME NEW p \in Callers, Reply(p) PROVE SessionInv(L)'
  <2>1. PICK r \in {"ok"} \cup CtxErrors : Return(p, r)
    BY <1>3 DEF Reply
  <2>2. (pc \in [Callers -> L] /\ DataTypeOK /\ NoNilClient)'
    BY <1>3, <2>1 DEF Reply, Return, Leave
  <2>3. (OneSession /\ LockInv)'  BY <1>3, <2>1 DEF Reply, Return, Leave
  <2>4. InCallInv'  BY <1>3, <2>1 DEF Reply, Return, Leave
  <2> QED BY <2>2, <2>3, <2>4
<1>4. ASSUME NEW p \in Callers, ErrorReply(p) PROVE SessionInv(L)'
  BY <1>4, FailSession DEF ErrorReply
<1>5. ASSUME NEW p \in Callers, Lost(p) PROVE SessionInv(L)'
  BY <1>5, FailSession DEF Lost
<1>6. ASSUME NEW p \in Callers, Abort(p) PROVE SessionInv(L)'
  <2>1. ctx[p] \in CallErrors
    BY <1>6 DEF Abort
  <2> QED BY <1>6, <2>1, FailSession DEF Abort
<1>7. ASSUME NEW r \in sent, Execute(r) PROVE SessionInv(L)'
  BY <1>7 DEF Execute
<1>8. ASSUME NEW c \in ConnIds, Drop(c) PROVE SessionInv(L)'
  <2>1. (pc \in [Callers -> L] /\ DataTypeOK /\ NoNilClient)'  BY <1>8 DEF Drop
  <2>2. (OneSession /\ LockInv)'  BY <1>8 DEF Drop
  <2>3. InCallInv'  BY <1>8 DEF Drop
  <2> QED BY <2>1, <2>2, <2>3
<1> QED BY <1>1, <1>2, <1>3, <1>4, <1>5, <1>6, <1>7, <1>8

\* Resetting the session, after a failed call or by Close.
LEMMA ResetSession ==
  ASSUME NEW L, Locations \subseteq L, SessionInv(L),
         (\E p \in Callers : Invalidate(p)) \/ Close
  PROVE  SessionInv(L)'
<1> USE ClientAssumption
        DEF SessionInv, DataTypeOK, NoNilClient, OneSession, IsOpen, LockInv,
            InCallInv, InCall, Locations, ConnIds, NoConn, CtxErrors, CallErrors,
            connVars, callVars, srvVars, Goto, ResetConn
<1>1. ASSUME NEW p \in Callers, Invalidate(p) PROVE SessionInv(L)'
  BY <1>1 DEF Invalidate, Leave
<1>2. CASE Close
  BY <1>2 DEF Close
<1> QED BY <1>1, <1>2

\* Every step preserves the inductive invariant.
LEMMA NextIndInv == IndInv /\ [Next]_vars => IndInv'
<1> SUFFICES ASSUME IndInv, [Next]_vars PROVE IndInv'
  OBVIOUS
<1>1. CASE UNCHANGED vars
  BY <1>1 DEF vars, connVars, callVars, srvVars, IndInv, TypeOK, DataTypeOK,
              NoNilClient, OneSession, IsOpen, LockInv, InCallInv
<1>2. CASE Next
  <2>1. SessionInv(Locations) /\ Locations \subseteq Locations
    BY IndInvIsSessionInv
  <2>2. SessionInv(Locations)'
    BY <1>2, <2>1, GetClientSession, CallSession, ResetSession DEF Next
  <2> QED BY <2>2 DEF SessionInv, IndInv, TypeOK
<1> QED BY <1>1, <1>2

\* The inductive invariant holds throughout: types, the lock discipline of
\* getClient, and the single session.
THEOREM Invariance == Spec => []IndInv
  BY InitIndInv, NextIndInv, PTL DEF Spec

\* No nil client is called and every field keeps its type.
THEOREM TypeCorrect == Spec => []TypeOK
<1>1. IndInv => TypeOK  BY DEF IndInv
<1> QED BY <1>1, Invariance, PTL

\* getClient and invalidate leak no connection and cache no closed one, for
\* any number of callers.
THEOREM SingleSession == Spec => []OneSession
<1>1. IndInv => OneSession  BY DEF IndInv
<1> QED BY <1>1, Invariance, PTL

\* A caller leaves "failed" only by its own invalidate.
LEMMA FailedStep ==
  ASSUME IndInv, [Next]_vars, NEW p \in Callers, pc[p] = "failed", pc'[p] # "failed"
  PROVE  Invalidate(p)
<1> USE DEF IndInv, TypeOK, callVars, Goto
<1>1. ~UNCHANGED vars
  BY DEF vars
<1>2. ASSUME NEW q \in Callers, q # p,
             \/ Begin(q) \/ CtxDone(q) \/ GetCached(q) \/ StartDial(q)
             \/ DialOk(q) \/ DialFail(q) \/ Send(q) \/ SendFail(q)
             \/ Reply(q) \/ ErrorReply(q) \/ Lost(q) \/ Abort(q) \/ Invalidate(q)
      PROVE FALSE
  BY <1>2 DEF Begin, CtxDone, GetCached, StartDial, DialOk, DialFail, Send, SendFail,
              Reply, ErrorReply, Lost, Abort, Invalidate, Return, Leave, Fail
<1>3. ~(\/ Begin(p) \/ CtxDone(p) \/ GetCached(p) \/ StartDial(p)
        \/ DialOk(p) \/ DialFail(p) \/ Send(p) \/ SendFail(p)
        \/ Reply(p) \/ ErrorReply(p) \/ Lost(p) \/ Abort(p))
  BY DEF Begin, CtxDone, GetCached, StartDial, DialOk, DialFail, Send, SendFail,
         Reply, ErrorReply, Lost, Abort
<1>4. ~((\E r \in sent : Execute(r)) \/ Close \/ (\E c \in ConnIds : Drop(c)))
  BY DEF Execute, Close, Drop
<1> QED BY <1>1, <1>2, <1>3, <1>4 DEF Next

\* When Call returns an error of cl.Call, the connection that failed is
\* closed, whatever other callers did since it failed.
THEOREM FailedConnIsReset == Spec => FailedConnReset
<1>1. ASSUME IndInv, [Next]_vars, NEW p \in Callers, pc[p] = "failed", pc'[p] # "failed"
      PROVE  conns'[conn[p]] = "closed"
  <2>1. Invalidate(p)
    BY <1>1, FailedStep
  <2>2. /\ conn[p] \in ConnIds
        /\ conns[conn[p]] \in {"up", "down", "closed"}
        /\ IsOpen(conn[p]) => cl = conn[p]
        /\ conns \in [ConnIds -> {"unused", "up", "down", "closed"}]
    BY <1>1 DEF IndInv, TypeOK, DataTypeOK, NoNilClient, InCallInv, InCall, OneSession,
                ConnIds, NoConn
  <2> QED BY <2>1, <2>2 DEF Invalidate, ResetConn, IsOpen, ConnIds, NoConn
<1>2. IndInv /\ [Next]_vars
        => [\A p \in Callers :
              pc[p] = "failed" /\ pc'[p] # "failed" => conns'[conn[p]] = "closed"]_vars
  BY <1>1
<1> QED BY <1>2, Invariance, PTL DEF Spec, FailedConnReset
=============================================================================
