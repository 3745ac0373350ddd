--------------------------- MODULE ClientV3Proofs ---------------------------
(***************************************************************************)
(* Proofs about the v3 client with its fallback, for any number of         *)
(* callers, calls and connections and for any sequence of servers behind   *)
(* the address.  IndInvV3 of ClientV3 is the inductive invariant: the      *)
(* session part rests on the lemmas of v2, the part about requests is new. *)
(***************************************************************************)
EXTENDS ClientV3, ClientV2Proofs

LocationsV3 == Locations \cup {"mark"}

-----------------------------------------------------------------------------
(* The session: SessionInvV3.                                              *)

\* The session part of the invariant is that of v2 with one location more,
\* and the types of v3's own variables.
ModeTypeOK ==
    /\ kind \in [ConnIds -> Kinds \cup {"none"}]
    /\ activeTransport \in {"auto"} \cup Kinds
    /\ jsonFallback \in BOOLEAN
    /\ attempt \in [Callers -> {1, 2}]
    /\ speaks \in Peers

\* The session of v3 is the session of v2 over more locations, plus the mode.
LEMMA SessionParts ==
  SessionInvV3 <=> SessionInv(LocationsV3) /\ ModeTypeOK /\ ModeMatchesSession
  BY DEF SessionInvV3, TypeOKV3, SessionInv, ModeTypeOK, LocationsV3

\* The codec of a new connection is always one of the two.
LEMMA EffectiveType == ModeTypeOK => EffectiveTransport \in Kinds
  BY TransportAssumption DEF EffectiveTransport, Kinds, ModeTypeOK

\* Nothing is dialled, locked or called at the start.
LEMMA InitSessionV3 == InitV3 => SessionInvV3
<1> SUFFICES ASSUME InitV3 PROVE SessionInvV3
  OBVIOUS
<1>1. IndInv
  BY InitIndInv DEF InitV3
<1>2. SessionInv(LocationsV3)
  BY <1>1 DEF IndInv, TypeOK, SessionInv, LocationsV3
<1>3. ModeTypeOK /\ ModeMatchesSession
  BY TransportAssumption DEF InitV3, Init, ModeTypeOK, ModeMatchesSession
<1> QED BY <1>2, <1>3, SessionParts

\* The steps shared with v2 keep the session: the lemmas of v2.
LEMMA SharedSession ==
  ASSUME SessionInv(LocationsV3), NEW p \in Callers, SharedStep(p) \/ Begin(p) \/ DialOk(p)
  PROVE  SessionInv(LocationsV3)'
<1>1. Locations \subseteq LocationsV3
  BY DEF LocationsV3
<1> QED BY <1>1, GetClientSession, CallSession DEF SharedStep

\* After invalidate the caller returns, or goes on to the fallback decision.
LEMMA InvalidateSession ==
  ASSUME SessionInv(LocationsV3), NEW p \in Callers, InvalidateV3(p)
  PROVE  SessionInv(LocationsV3)'
<1> USE ClientAssumption
        DEF SessionInv, LocationsV3, DataTypeOK, NoNilClient, OneSession, IsOpen, LockInv,
            InCallInv, InCall, Locations, ConnIds, NoConn, CtxErrors, CallErrors,
            srvVars, Goto, ResetConn
<1>1. CASE GotoMark(p)
  BY <1>1 DEF InvalidateV3, GotoMark
<1>2. CASE Leave(p)
  BY <1>2 DEF InvalidateV3, Leave
<1> QED BY <1>1, <1>2 DEF InvalidateV3

\* The fallback decision touches no connection.
LEMMA MarkSession ==
  ASSUME SessionInv(LocationsV3), NEW p \in Callers, Mark(p)
  PROVE  SessionInv(LocationsV3)'
<1> USE ClientAssumption
        DEF SessionInv, LocationsV3, DataTypeOK, NoNilClient, OneSession, IsOpen, LockInv,
            InCallInv, InCall, Locations, ConnIds, NoConn, CtxErrors, CallErrors,
            connVars, srvVars, Goto
<1>1. CASE Repeat(p)
  BY <1>1 DEF Mark, Repeat
<1>2. CASE GiveUp(p)
  BY <1>2 DEF Mark, GiveUp, Leave
<1> QED BY <1>1, <1>2 DEF Mark

\* The server and the network end connections; they open none.
LEMMA PeerSession ==
  ASSUME SessionInv(LocationsV3),
         \/ \E r \in sent : Execute(r) \/ Reject(r)
         \/ Redeploy
         \/ Close
         \/ \E c \in ConnIds : Drop(c)
  PROVE  SessionInv(LocationsV3)'
<1>0. Locations \subseteq LocationsV3
  BY DEF LocationsV3
<1>1. CASE (\E r \in sent : Execute(r)) \/ Close \/ (\E c \in ConnIds : Drop(c))
  BY <1>0, <1>1, CallSession, ResetSession
<1> USE DEF SessionInv, DataTypeOK, NoNilClient, OneSession, IsOpen, LockInv, InCallInv,
            callVars
<1>2. ASSUME NEW r \in sent, Reject(r) PROVE SessionInv(LocationsV3)'
  BY <1>2 DEF Reject
<1>3. CASE Redeploy
  BY <1>3 DEF Redeploy
<1> QED BY <1>1, <1>2, <1>3

\* The cached connection keeps its codec: kind changes only for a connection
\* that is being dialled, and activeTransport changes with it.
LEMMA DialMode ==
  ASSUME SessionInvV3, NEW p \in Callers, DialOkV3(p)
  PROVE  ModeTypeOK' /\ ModeMatchesSession'
<1>1. PICK c \in ConnIds : cl' = c
  BY DEF DialOkV3, DialOk
<1>2. EffectiveTransport \in Kinds
  BY SessionParts, EffectiveType
<1>3. ModeTypeOK
  BY SessionParts
<1> QED BY <1>1, <1>2, <1>3 DEF DialOkV3, ModeTypeOK, ModeMatchesSession

\* Every step keeps the session part of the invariant.
LEMMA NextSessionV3 == SessionInvV3 /\ [NextV3]_varsV3 => SessionInvV3'
<1> SUFFICES ASSUME SessionInvV3, [NextV3]_varsV3 PROVE SessionInvV3'
  OBVIOUS
<1>1. SessionInv(LocationsV3) /\ ModeTypeOK /\ ModeMatchesSession
  BY SessionParts
<1>2. SUFFICES SessionInv(LocationsV3)' /\ ModeTypeOK' /\ ModeMatchesSession'
  BY DEF SessionInvV3, TypeOKV3, SessionInv, ModeTypeOK, LocationsV3
<1> USE DEF v3Vars, clientVars, modeVars
<1>3. CASE UNCHANGED varsV3
  BY <1>1, <1>3 DEF varsV3, vars, connVars, callVars, srvVars, SessionInv, DataTypeOK,
                    NoNilClient, OneSession, IsOpen, LockInv, InCallInv,
                    ModeTypeOK, ModeMatchesSession
<1>4. ASSUME NEW p \in Callers, BeginV3(p)
      PROVE  SessionInv(LocationsV3)' /\ ModeTypeOK' /\ ModeMatchesSession'
  BY <1>1, <1>4, SharedSession
  DEF BeginV3, Begin, connVars, ModeTypeOK, ModeMatchesSession
<1>5. ASSUME NEW p \in Callers, DialOkV3(p)
      PROVE  SessionInv(LocationsV3)' /\ ModeTypeOK' /\ ModeMatchesSession'
  BY <1>1, <1>5, SharedSession, DialMode DEF DialOkV3
<1>6. ASSUME NEW p \in Callers, SharedStep(p)
      PROVE  SessionInv(LocationsV3)' /\ ModeTypeOK' /\ ModeMatchesSession'
  <2>1. SessionInv(LocationsV3)'
    BY <1>1, <1>6, SharedSession
  <2>2. cl' = cl
    BY <1>6 DEF SharedStep, CtxDone, GetCached, StartDial, DialFail, Send, SendFail,
                Reply, ErrorReply, Lost, Abort, connVars
  <2> QED BY <1>1, <1>6, <2>1, <2>2 DEF SharedStep, ModeTypeOK, ModeMatchesSession
<1>7. ASSUME NEW p \in Callers, InvalidateV3(p)
      PROVE  SessionInv(LocationsV3)' /\ ModeTypeOK' /\ ModeMatchesSession'
  BY <1>1, <1>7, InvalidateSession
  DEF InvalidateV3, ResetConn, ModeTypeOK, ModeMatchesSession
<1>8. ASSUME NEW p \in Callers, Mark(p)
      PROVE  SessionInv(LocationsV3)' /\ ModeTypeOK' /\ ModeMatchesSession'
  BY <1>1, <1>8, MarkSession
  DEF Mark, Repeat, GiveUp, connVars, ModeTypeOK, ModeMatchesSession
<1>9. ASSUME \/ \E r \in sent : ExecuteV3(r) \/ Reject(r)
             \/ Redeploy
             \/ Close /\ UNCHANGED v3Vars
             \/ \E c \in ConnIds : Drop(c) /\ UNCHANGED v3Vars
      PROVE  SessionInv(LocationsV3)' /\ ModeTypeOK' /\ ModeMatchesSession'
  <2>1. SessionInv(LocationsV3)'
    BY <1>1, <1>9, PeerSession DEF ExecuteV3
  <2>2. cl' \in {cl, NoConn} /\ UNCHANGED clientVars /\ speaks' \in {speaks} \cup Peers
    BY <1>9 DEF ExecuteV3, Execute, Reject, Redeploy, Close, ResetConn, Drop, connVars
  <2> QED BY <1>1, <2>1, <2>2 DEF ModeTypeOK, ModeMatchesSession
<1> QED BY <1>3, <1>4, <1>5, <1>6, <1>7, <1>8, <1>9 DEF NextV3, CloseV3

-----------------------------------------------------------------------------
(* The requests: RetryInv.                                                 *)

\* A step whose requests are among R, and that leaves the codec of those alone,
\* makes no duplicate that is not in R.
LEMMA NoNewDuplicate ==
  ASSUME NEW R, Made' \subseteq R, \A r \in R : kind'[r[3]] = kind[r[3]]
  PROVE  /\ NoDuplicateIn(R) => NoDuplicateIn(Made)'
         /\ OneDuplicateIn(R) => OneDuplicateIn(Made)'
<1>1. NoDuplicateIn(R) => NoDuplicateIn(Made)'
  BY DEF NoDuplicateIn
<1>2. OneDuplicateIn(R) => OneDuplicateIn(Made)'
  BY DEF OneDuplicateIn
<1> QED BY <1>1, <1>2

\* The first request of a call makes no duplicate.
LEMMA FreshRequest ==
  ASSUME NEW R, NEW x, \A r \in R : ~SameCall(r, x)
  PROVE  /\ NoDuplicateIn(R) => NoDuplicateIn(R \cup {x})
         /\ OneDuplicateIn(R) => OneDuplicateIn(R \cup {x})
<1>1. \A r \in R : ~SameCall(x, r)
  BY DEF SameCall
<1>2. \A r, s \in R \cup {x} : SameCall(r, s) /\ r # s => r \in R /\ s \in R
  BY <1>1
<1>3. NoDuplicateIn(R) => NoDuplicateIn(R \cup {x})
  BY <1>2 DEF NoDuplicateIn
<1>4. ASSUME OneDuplicateIn(R) PROVE OneDuplicateIn(R \cup {x})
  <2> SUFFICES ASSUME NEW r \in R \cup {x}, NEW s \in R \cup {x},
                      NEW t \in R \cup {x}, NEW u \in R \cup {x},
                      SameCall(r, s), r # s, SameCall(t, u), t # u
               PROVE  {r, s} = {t, u} /\ "json" \in {kind[r[3]], kind[s[3]]}
    BY DEF OneDuplicateIn
  <2>1. r \in R /\ s \in R /\ t \in R /\ u \in R
    BY <1>2
  <2> QED BY <1>4, <2>1 DEF OneDuplicateIn
<1> QED BY <1>3, <1>4

\* A repeated request makes one, if there was none and it repeats JSON.
LEMMA RepeatedRequest ==
  ASSUME NEW R, NEW x, NoDuplicateIn(R),
         \A r \in R : SameCall(r, x) => kind[r[3]] = "json"
  PROVE  OneDuplicateIn(R \cup {x})
<1>1. \A r, s \in R \cup {x} : SameCall(r, s) /\ r # s =>
         \/ r \in R /\ s = x /\ SameCall(r, x)
         \/ s \in R /\ r = x /\ SameCall(s, x)
  BY DEF NoDuplicateIn, SameCall
<1>2. \A r, s \in R : SameCall(r, x) /\ SameCall(s, x) => r = s
  BY DEF NoDuplicateIn, SameCall
<1> QED BY <1>1, <1>2 DEF OneDuplicateIn

\* A step on which no request is made, no connection is dialled and no caller
\* moves from one phase of an attempt into an earlier one.
Forward(q) ==
    \/ pc'[q] = pc[q] /\ conn'[q] = conn[q]
    \/ {pc[q], pc'[q]} \subseteq {"lock", "dial", "send"}
    \/ /\ pc[q] \in {"send", "wait", "failed"} /\ pc'[q] \in {"failed", "mark"}
       /\ conn'[q] = conn[q]
    \/ pc'[q] = "done"

\* Steps that neither dial nor send nor change mode or attempt keep RetryInv.
LEMMA QuietStep ==
  ASSUME SessionInvV3, RetryInv,
         Made' \subseteq Made,
         UNCHANGED <<calls, kind, attempt, jsonFallback>>,
         \A c \in ConnIds : conns'[c] = "unused" <=> conns[c] = "unused",
         \A q \in Callers : Forward(q)
  PROVE  RetryInv'
<1> USE DEF RetryInv
<1>1. SessionInvV3!1!1 /\ DataTypeOK /\ NoNilClient /\ InCallInv
  BY DEF SessionInvV3, TypeOKV3
<1>2. \A r \in Made : r[3] \in ConnIds
  BY <1>1 DEF DataTypeOK, Made
<1>3. KindInv'
  BY DEF KindInv
<1>4. MadeInv'
  BY <1>2 DEF MadeInv
<1>5. AttemptInv'
  BY DEF AttemptInv
<1>6. NoDuplicateIn(Made) => NoDuplicateIn(Made)'
  BY NoNewDuplicate
<1>7. DuplicateInv'
  BY NoNewDuplicate DEF DuplicateInv
<1>8. \A q \in Callers : OwnRequests(q)' \subseteq OwnRequests(q)
  BY DEF OwnRequests
<1>9. OwnInv'
  <2> SUFFICES ASSUME NEW q \in Callers PROVE OwnInv!(q)'
    BY DEF OwnInv
  <2> QED BY <1>1, <1>6, <1>8
          DEF OwnInv, Forward, NoNilClient, InCallInv, InCall, DataTypeOK, ConnIds, NoConn
<1> QED BY <1>3, <1>4, <1>5, <1>7, <1>9

\* A call that begins has a number that no request carries yet.
LEMMA BeginRetry ==
  ASSUME SessionInvV3, RetryInv, NEW p \in Callers, BeginV3(p)
  PROVE  RetryInv'
<1> USE DEF RetryInv, BeginV3, Begin, connVars, srvVars, modeVars, Made
<1>1. /\ pc \in [Callers -> LocationsV3] /\ DataTypeOK
      /\ attempt \in [Callers -> {1, 2}]
  BY DEF SessionInvV3, TypeOKV3, LocationsV3
<1>2. \A r \in Made : r[1] \in Callers /\ r[2] \in Nat /\ r[2] <= calls[r[1]]
  BY <1>1 DEF DataTypeOK, MadeInv
<1>3. calls \in [Callers -> Nat] /\ calls' = [calls EXCEPT ![p] = @ + 1]
  BY <1>1 DEF DataTypeOK
<1>4. KindInv' /\ DuplicateInv'
  BY NoNewDuplicate DEF KindInv, DuplicateInv
<1>5. MadeInv'
  BY <1>2, <1>3 DEF MadeInv
<1>6. AttemptInv'
  BY <1>1 DEF AttemptInv
<1>7. OwnInv'
  <2>1. OwnRequests(p)' = {}
    BY <1>2, <1>3 DEF OwnRequests
  <2>2. pc'[p] \in {"lock", "done"} /\ attempt'[p] = 1
    BY <1>1 DEF Goto, Return, Leave
  <2>3. ASSUME NEW q \in Callers, q # p PROVE OwnInv!(q)'
    <3>1. OwnRequests(q)' = OwnRequests(q)
      BY <1>3, <2>3 DEF OwnRequests
    <3>2. pc'[q] = pc[q] /\ conn'[q] = conn[q] /\ attempt'[q] = attempt[q]
      BY <1>1, <2>3 DEF Goto, Return, Leave, DataTypeOK
    <3> QED BY <3>1, <3>2 DEF OwnInv, NoDuplicateIn
  <2> QED BY <2>1, <2>2, <2>3 DEF OwnInv
<1> QED BY <1>4, <1>5, <1>6, <1>7

\* No request is on the new connection, so giving it its codec changes the
\* codec of no request.
LEMMA DialRetry ==
  ASSUME SessionInvV3, RetryInv, NEW p \in Callers, DialOkV3(p)
  PROVE  RetryInv'
<1> USE DEF RetryInv, DialOkV3, DialOk, srvVars, Made
<1>1. /\ pc \in [Callers -> LocationsV3] /\ DataTypeOK
      /\ kind \in [ConnIds -> Kinds \cup {"none"}]
  BY DEF SessionInvV3, TypeOKV3, LocationsV3
<1>2. PICK c \in ConnIds :
        /\ conns[c] = "unused"
        /\ conns' = [conns EXCEPT ![c] = "up"]
        /\ kind' = [kind EXCEPT ![c] = EffectiveTransport]
  BY DEF IsFresh
<1>3. \A r \in Made : r[3] \in ConnIds /\ r[3] # c /\ kind'[r[3]] = kind[r[3]]
  BY <1>1, <1>2 DEF MadeInv, DataTypeOK
<1>4. KindInv'
  BY <1>1, <1>2, TransportAssumption DEF KindInv, EffectiveTransport, Kinds, DataTypeOK
<1>5. MadeInv'
  BY <1>1, <1>2, <1>3 DEF MadeInv, DataTypeOK
<1>6. AttemptInv'
  BY DEF AttemptInv
<1>7. DuplicateInv'
  BY <1>3, NoNewDuplicate DEF DuplicateInv
<1>8. OwnInv'
  <2> SUFFICES ASSUME NEW q \in Callers PROVE OwnInv!(q)'
    BY DEF OwnInv
  <2>1. OwnRequests(q)' = OwnRequests(q)
    BY DEF OwnRequests
  <2>2. \A r \in OwnRequests(q) : kind'[r[3]] = kind[r[3]]
    BY <1>3 DEF OwnRequests
  <2>3. \/ pc[q] = "dial" /\ pc'[q] = "send"
        \/ pc'[q] = pc[q] /\ conn'[q] = conn[q]
    BY <1>1 DEF Goto, DataTypeOK
  <2>4. pc[q] = "mark" => conn[q] \in ConnIds /\ conns'[conn[q]] # "unused"
    BY <1>1, <1>2 DEF OwnInv, DataTypeOK
  <2>5. attempt' = attempt /\ (NoDuplicateIn(Made) => NoDuplicateIn(Made)')
    BY <1>3, NoNewDuplicate
  <2> HIDE DEF DialOkV3
  <2>6. OwnInv!(q)
    BY DEF OwnInv
  <2>7. (pc[q] = "mark" => conn[q] # NoConn /\ conns[conn[q]] # "unused")'
    BY <2>3, <2>4, <2>6
  <2> QED BY <2>1, <2>2, <2>3, <2>5, <2>6, <2>7
<1> QED BY <1>4, <1>5, <1>6, <1>7, <1>8

\* The first Send of a call makes a fresh request; the second makes the one
\* duplicate, of a request on JSON, and no other caller can be making one.
LEMMA SendRetry ==
  ASSUME SessionInvV3, RetryInv, NEW p \in Callers, Send(p), UNCHANGED v3Vars
  PROVE  RetryInv'
<1> DEFINE x == Request(p)
<1> USE DEF RetryInv, v3Vars, clientVars, modeVars
<1>1. /\ pc \in [Callers -> LocationsV3] /\ DataTypeOK
      /\ attempt \in [Callers -> {1, 2}]
      /\ conn[p] # NoConn /\ conns[conn[p]] # "unused"
  BY DEF Send, SessionInvV3, TypeOKV3, LocationsV3, NoNilClient, InCallInv, InCall
<1>2. /\ Made' = Made \cup {x}
      /\ UNCHANGED <<conns, conn, calls, kind, attempt, jsonFallback>>
      /\ pc[p] = "send" /\ pc' = [pc EXCEPT ![p] = "wait"]
  BY DEF Send, Made, Goto, connVars
<1>3. x[1] = p /\ x[2] = calls[p] /\ x[3] = conn[p] /\ calls[p] \in Nat
  BY <1>1 DEF Request, DataTypeOK
<1> HIDE DEF x
<1>4. \A r \in Made : SameCall(r, x) <=> r \in OwnRequests(p)
  BY <1>3 DEF SameCall, OwnRequests
<1>5. OwnInv!(p)
  BY DEF OwnInv
<1>6. attempt[p] = 1 => /\ NoDuplicateIn(Made) => NoDuplicateIn(Made \cup {x})
                        /\ OneDuplicateIn(Made \cup {x})
  BY <1>2, <1>4, <1>5, FreshRequest DEF DuplicateInv
<1>7. attempt[p] = 2 => jsonFallback /\ Transport = "auto" /\ OneDuplicateIn(Made \cup {x})
  BY <1>2, <1>4, <1>5, RepeatedRequest DEF AttemptInv
<1>8. kind' = kind
  BY DEF v3Vars, clientVars
<1>9. /\ NoDuplicateIn(Made \cup {x}) => NoDuplicateIn(Made)'
      /\ OneDuplicateIn(Made \cup {x}) => OneDuplicateIn(Made)'
  BY <1>2, <1>8, NoNewDuplicate
<1>10. DuplicateInv'
  BY <1>1, <1>2, <1>6, <1>7, <1>9 DEF DuplicateInv
<1>11. KindInv' /\ AttemptInv'
  BY <1>2 DEF KindInv, AttemptInv
<1>12. MadeInv'
  BY <1>1, <1>2, <1>3 DEF MadeInv
<1>13. ASSUME NEW q \in Callers PROVE OwnInv!(q)'
  <2>1. CASE q = p
    <3>1. attempt[p] = 1 => \A r \in OwnRequests(p)' : r[3] = conn[p]
      BY <1>2, <1>3, <1>5 DEF OwnRequests
    <3> QED BY <1>1, <1>2, <2>1, <3>1
  <2>2. CASE q # p
    <3>1. OwnRequests(q)' = OwnRequests(q)
      BY <1>2, <1>3, <2>2 DEF OwnRequests
    <3>2. attempt[q] = 2 /\ NoDuplicateIn(Made) => NoDuplicateIn(Made)'
      BY <1>1, <1>6, <1>9, <2>2 DEF AttemptInv
    <3>3. pc'[q] = pc[q]
      BY <1>1, <1>2, <2>2
    <3>4. OwnInv!(q)
      BY DEF OwnInv
    <3> QED BY <1>2, <3>1, <3>2, <3>3, <3>4
  <2> QED BY <2>1, <2>2
<1>14. OwnInv'
  BY <1>13 DEF OwnInv
<1> QED BY <1>10, <1>11, <1>12, <1>14

\* The fallback is decided once: before it there is no duplicate and every
\* connection speaks JSON, so what the caller has sent was sent on JSON.
LEMMA MarkRetry ==
  ASSUME SessionInvV3, RetryInv, NEW p \in Callers, Mark(p)
  PROVE  RetryInv'
<1> USE DEF RetryInv
<1>1. /\ pc \in [Callers -> LocationsV3] /\ DataTypeOK
      /\ attempt \in [Callers -> {1, 2}] /\ jsonFallback \in BOOLEAN
  BY DEF SessionInvV3, TypeOKV3, LocationsV3
<1>2. /\ pc[p] = "mark" /\ jsonFallback' = TRUE
      /\ UNCHANGED <<conns, calls, sent, ran, kind>>
      /\ \A q \in Callers \ {p} : pc'[q] = pc[q] /\ conn'[q] = conn[q] /\ attempt'[q] = attempt[q]
  BY <1>1 DEF Mark, Repeat, GiveUp, Leave, Goto, connVars, srvVars, DataTypeOK
<1>3. Made' = Made /\ \A q \in Callers : OwnRequests(q)' = OwnRequests(q)
  BY <1>2 DEF Made, OwnRequests
<1>4. NoDuplicateIn(Made) => NoDuplicateIn(Made)'
  BY <1>2, <1>3, NoNewDuplicate
<1>5. KindInv' /\ MadeInv'
  BY <1>2, <1>3 DEF KindInv, MadeInv
<1>6. DuplicateInv'
  BY <1>2, <1>3, <1>4, NoNewDuplicate DEF DuplicateInv
<1>7. OwnInv!(p)
  BY DEF OwnInv
<1>8. CASE RetryAllowed
  <2>1. Transport = "auto" /\ ~jsonFallback
    BY <1>8 DEF RetryAllowed
  <2>2. pc'[p] = "lock" /\ attempt' = [attempt EXCEPT ![p] = 2]
    BY <1>1, <1>8 DEF Mark, Repeat, Goto
  <2>3. \A q \in Callers : attempt[q] = 1
    BY <1>1, <2>1 DEF AttemptInv
  <2>4. AttemptInv'
    BY <1>1, <1>2, <2>1, <2>2, <2>3 DEF AttemptInv
  <2>5. conn[p] \in ConnIds /\ kind[conn[p]] = "json"
    BY <1>1, <1>2, <1>7, <2>1 DEF KindInv, DataTypeOK
  <2>6. \A r \in OwnRequests(p) : kind[r[3]] = "json"
    BY <1>2, <1>7, <2>3, <2>5
  <2>7. NoDuplicateIn(Made)
    BY <2>1 DEF DuplicateInv
  <2>8. ASSUME NEW q \in Callers PROVE OwnInv!(q)'
    <3>1. CASE q = p
      BY <1>1, <1>2, <1>3, <1>4, <2>2, <2>6, <2>7, <3>1
    <3>2. CASE q # p
      <4>1. OwnInv!(q)
        BY DEF OwnInv
      <4> QED BY <1>2, <1>3, <1>4, <3>2, <4>1
    <3> QED BY <3>1, <3>2
  <2>9. OwnInv'
    BY <2>8 DEF OwnInv
  <2> QED BY <1>5, <1>6, <2>4, <2>9
<1>9. CASE ~RetryAllowed
  <2>1. pc'[p] = "done" /\ attempt' = attempt
    BY <1>1, <1>9 DEF Mark, GiveUp, Leave, Goto
  <2>2. AttemptInv'
    BY <1>2, <2>1 DEF AttemptInv
  <2>3. ASSUME NEW q \in Callers PROVE OwnInv!(q)'
    <3>1. CASE q = p
      BY <2>1, <3>1
    <3>2. CASE q # p
      <4>1. OwnInv!(q)
        BY DEF OwnInv
      <4> QED BY <1>2, <1>3, <1>4, <3>2, <4>1
    <3> QED BY <3>1, <3>2
  <2>4. OwnInv'
    BY <2>3 DEF OwnInv
  <2> QED BY <1>5, <1>6, <2>2, <2>4
<1> QED BY <1>8, <1>9

\* The steps of one caller that make no request and dial nothing.
LEMMA CallerQuiet ==
  ASSUME SessionInvV3, RetryInv, NEW p \in Callers,
         (SharedStep(p) /\ ~Send(p)) \/ InvalidateV3(p)
  PROVE  RetryInv'
<1> USE DEF v3Vars, clientVars, modeVars, connVars, srvVars
<1>1. pc \in [Callers -> LocationsV3] /\ DataTypeOK
  BY DEF SessionInvV3, TypeOKV3, LocationsV3
<1>2. Made' \subseteq Made /\ UNCHANGED <<calls, kind, attempt, jsonFallback>>
  BY DEF SharedStep, CtxDone, GetCached, StartDial, DialFail, SendFail, Reply, ErrorReply,
         Lost, Abort, InvalidateV3, Made
<1>3. \A c \in ConnIds : conns'[c] = "unused" <=> conns[c] = "unused"
  <2>1. CASE SharedStep(p)
    BY <2>1 DEF SharedStep, CtxDone, GetCached, StartDial, DialFail, Send, SendFail,
                Reply, ErrorReply, Lost, Abort
  <2>2. CASE InvalidateV3(p)
    BY <1>1, <2>2 DEF InvalidateV3, ResetConn, SessionInvV3, OneSession, IsOpen, DataTypeOK
  <2> QED BY <2>1, <2>2
<1>4. \A q \in Callers : Forward(q)
  <2>1. ASSUME NEW q \in Callers, q # p PROVE Forward(q)
    BY <1>1, <2>1
    DEF SharedStep, CtxDone, GetCached, StartDial, DialFail, SendFail, Reply, ErrorReply,
        Lost, Abort, InvalidateV3, GotoMark, Return, Fail, Leave, Goto, Forward, DataTypeOK
  <2>2. Forward(p)
    BY <1>1
    DEF SharedStep, CtxDone, GetCached, StartDial, DialFail, SendFail, Reply, ErrorReply,
        Lost, Abort, InvalidateV3, GotoMark, Return, Fail, Leave, Goto, Forward
  <2> QED BY <2>1, <2>2
<1> QED BY <1>2, <1>3, <1>4, QuietStep

\* The steps of the server, of the network and of Close.
LEMMA PeerQuiet ==
  ASSUME SessionInvV3, RetryInv,
         \/ \E r \in sent : ExecuteV3(r) \/ Reject(r)
         \/ Redeploy
         \/ Close /\ UNCHANGED v3Vars
         \/ \E c \in ConnIds : Drop(c) /\ UNCHANGED v3Vars
  PROVE  RetryInv'
<1> USE DEF v3Vars, clientVars, modeVars, connVars, callVars, srvVars
<1>1. DataTypeOK /\ OneSession
  BY DEF SessionInvV3, TypeOKV3
<1>2. Made' \subseteq Made
  BY DEF ExecuteV3, Execute, Reject, Redeploy, Close, Drop, Made
<1>3. UNCHANGED <<calls, kind, attempt, jsonFallback, pc, conn>>
  BY DEF ExecuteV3, Execute, Reject, Redeploy, Close, Drop
<1>4. \A c \in ConnIds : conns'[c] = "unused" <=> conns[c] = "unused"
  <2>1. CASE \E r \in sent : ExecuteV3(r) \/ Reject(r)
    BY <1>1, <2>1 DEF ExecuteV3, Execute, Reject, DataTypeOK
  <2>2. CASE Redeploy
    BY <2>2 DEF Redeploy
  <2>3. CASE Close
    BY <1>1, <2>3 DEF Close, ResetConn, OneSession, IsOpen, DataTypeOK
  <2>4. CASE \E c \in ConnIds : Drop(c)
    BY <1>1, <2>4 DEF Drop, DataTypeOK
  <2> QED BY <2>1, <2>2, <2>3, <2>4
<1>5. \A q \in Callers : Forward(q)
  BY <1>3 DEF Forward
<1> QED BY <1>2, <1>3, <1>4, <1>5, QuietStep

\* Nothing has been requested at the start.
LEMMA InitIndInvV3 == InitV3 => IndInvV3
<1> SUFFICES ASSUME InitV3 PROVE RetryInv
  BY InitSessionV3 DEF IndInvV3
<1>1. Made = {}
  BY DEF InitV3, Init, Made
<1>2. KindInv /\ MadeInv /\ AttemptInv /\ OwnInv
  BY <1>1 DEF InitV3, Init, KindInv, MadeInv, AttemptInv, OwnInv
<1>3. DuplicateInv
  BY <1>1 DEF DuplicateInv, OneDuplicateIn, NoDuplicateIn
<1> QED BY <1>2, <1>3 DEF RetryInv

\* Every step preserves the inductive invariant.
LEMMA NextIndInvV3 == IndInvV3 /\ [NextV3]_varsV3 => IndInvV3'
<1> SUFFICES ASSUME IndInvV3, [NextV3]_varsV3 PROVE IndInvV3'
  OBVIOUS
<1>1. SessionInvV3 /\ RetryInv /\ SessionInvV3'
  BY NextSessionV3 DEF IndInvV3
<1>2. SUFFICES RetryInv'
  BY <1>1 DEF IndInvV3
<1>3. CASE UNCHANGED varsV3
  <2>1. \A q \in Callers : Forward(q)
    BY <1>3 DEF Forward, varsV3, vars, callVars
  <2> QED BY <1>1, <1>3, <2>1, QuietStep
          DEF varsV3, vars, connVars, callVars, srvVars, v3Vars, clientVars, modeVars, Made
<1>4. ASSUME NEW p \in Callers, SharedStep(p) PROVE RetryInv'
  BY <1>1, <1>4, SendRetry, CallerQuiet DEF SharedStep
<1>5. ASSUME NEW p \in Callers, BeginV3(p) \/ DialOkV3(p) \/ InvalidateV3(p) \/ Mark(p)
      PROVE  RetryInv'
  BY <1>1, <1>5, BeginRetry, DialRetry, CallerQuiet, MarkRetry
<1> QED BY <1>1, <1>3, <1>4, <1>5, PeerQuiet DEF NextV3, CloseV3

-----------------------------------------------------------------------------
(* Theorems.                                                               *)

\* The session, the mode and the history of requests stay consistent through
\* fallback, retry, resets and changes of the server.
THEOREM InvarianceV3 == SpecV3 => []IndInvV3
  BY InitIndInvV3, NextIndInvV3, PTL DEF SpecV3

\* Over the life of a client at most one call is executed twice, and one of
\* the two executions came over JSON.
THEOREM DuplicateIsUnique == SpecV3 => []AtMostOneDuplicate
<1>1. IndInvV3 => AtMostOneDuplicate
  <2> SUFFICES ASSUME OneDuplicateIn(Made) PROVE OneDuplicateIn(ran)
    BY DEF IndInvV3, RetryInv, DuplicateInv, AtMostOneDuplicate
  <2> QED BY DEF OneDuplicateIn, Made
<1> QED BY <1>1, InvarianceV3, PTL

\* A client whose transport is fixed executes no call twice.
THEOREM FixedTransportOnce == ASSUME Transport # "auto" PROVE SpecV3 => []AtMostOnce
<1>1. IndInvV3 => AtMostOnce
  BY DEF IndInvV3, RetryInv, DuplicateInv, AtMostOnce, NoDuplicateIn, Made
<1> QED BY <1>1, InvarianceV3, PTL

\* Only a caller's own steps move it.
LEMMA OwnStep ==
  ASSUME IndInvV3, [NextV3]_varsV3, NEW p \in Callers, pc'[p] # pc[p]
  PROVE  BeginV3(p) \/ DialOkV3(p) \/ SharedStep(p) \/ InvalidateV3(p) \/ Mark(p)
<1>1. pc \in [Callers -> LocationsV3]
  BY DEF IndInvV3, SessionInvV3, TypeOKV3, LocationsV3
<1>2. ASSUME NEW q \in Callers, q # p,
             BeginV3(q) \/ DialOkV3(q) \/ SharedStep(q) \/ InvalidateV3(q) \/ Mark(q)
      PROVE  FALSE
  BY <1>1, <1>2 DEF BeginV3, Begin, DialOkV3, DialOk, SharedStep, CtxDone, GetCached,
                    StartDial, DialFail, Send, SendFail, Reply, ErrorReply, Lost, Abort,
                    InvalidateV3, GotoMark, Mark, Repeat, GiveUp, Return, Fail, Leave, Goto
<1>3. \/ UNCHANGED varsV3
      \/ \E r \in sent : ExecuteV3(r) \/ Reject(r)
      \/ Redeploy \/ Close \/ \E c \in ConnIds : Drop(c)
      => FALSE
  BY DEF varsV3, vars, callVars, ExecuteV3, Execute, Reject, Redeploy, Close, Drop
<1> QED BY <1>2, <1>3 DEF NextV3, CloseV3

\* When a call fails on the transport, in either attempt, the connection that
\* failed is closed before the caller goes on.
THEOREM FailedConnIsResetV3 == SpecV3 => FailedConnResetV3
<1>1. ASSUME IndInvV3, [NextV3]_varsV3, NEW p \in Callers, pc[p] = "failed", pc'[p] # "failed"
      PROVE  conns'[conn[p]] = "closed"
  <2>1. InvalidateV3(p)
    BY <1>1, OwnStep DEF BeginV3, Begin, DialOkV3, DialOk, SharedStep, CtxDone, GetCached,
       StartDial, DialFail, Send, SendFail, Reply, ErrorReply, Lost, Abort, Mark
  <2>2. /\ conn[p] \in ConnIds
        /\ conns[conn[p]] \in {"up", "down", "closed"}
        /\ IsOpen(conn[p]) => cl = conn[p]
        /\ conns \in [ConnIds -> {"unused", "up", "down", "closed"}]
    BY <1>1 DEF IndInvV3, SessionInvV3, TypeOKV3, DataTypeOK, NoNilClient, InCallInv,
                InCall, OneSession, ConnIds, NoConn
  <2> QED BY <2>1, <2>2 DEF InvalidateV3, ResetConn, IsOpen, ConnIds, NoConn
<1>2. IndInvV3 /\ [NextV3]_varsV3
        => [\A p \in Callers :
              pc[p] = "failed" /\ pc'[p] # "failed" => conns'[conn[p]] = "closed"]_varsV3
  BY <1>1
<1> QED BY <1>2, InvarianceV3, PTL DEF SpecV3, FailedConnResetV3

\* Only a dial that succeeds makes a connection.
LEMMA NewConnection ==
  ASSUME IndInvV3, [NextV3]_varsV3, NEW c \in ConnIds,
         conns[c] = "unused", conns'[c] # "unused"
  PROVE  \E p \in Callers : DialOkV3(p) /\ c = cl'
<1>1. DataTypeOK /\ OneSession
  BY DEF IndInvV3, SessionInvV3, TypeOKV3
<1>2. ASSUME \/ \E r \in sent : ExecuteV3(r) \/ Reject(r)
             \/ Redeploy \/ Close \/ (\E d \in ConnIds : Drop(d))
             \/ \E p \in Callers : InvalidateV3(p)
      PROVE  FALSE
  BY <1>1, <1>2 DEF ExecuteV3, Execute, Reject, Redeploy, Close, ResetConn, Drop, InvalidateV3,
     OneSession, IsOpen, DataTypeOK, connVars
<1>3. ASSUME NEW p \in Callers, BeginV3(p) \/ SharedStep(p) \/ Mark(p) PROVE FALSE
  BY <1>3 DEF BeginV3, Begin, SharedStep, CtxDone, GetCached, StartDial, DialFail, Send,
     SendFail, Reply, ErrorReply, Lost, Abort, Mark, connVars
<1>4. ASSUME NEW p \in Callers, DialOkV3(p) PROVE c = cl'
  BY <1>1, <1>4 DEF DialOkV3, DialOk, DataTypeOK
<1>5. ~UNCHANGED varsV3
  BY DEF varsV3, vars, connVars
<1> QED BY <1>2, <1>3, <1>4, <1>5 DEF NextV3, CloseV3

\* A gob connection or a repeated call of an auto client means that jsonFallback
\* is set, and nothing ever resets it: every connection made later is a gob one.
THEOREM FallbackIsSticky == SpecV3 => FallbackSticks
<1>1. ASSUME IndInvV3, [NextV3]_varsV3, NEW c \in ConnIds,
             Transport = "auto", FellBack, conns[c] = "unused", conns'[c] # "unused"
      PROVE  kind'[c] = "legacy"
  <2>1. jsonFallback
    BY <1>1 DEF FellBack, IndInvV3, RetryInv, KindInv, AttemptInv
  <2>2. PICK p \in Callers : DialOkV3(p) /\ c = cl'
    BY <1>1, NewConnection
  <2>3. kind \in [ConnIds -> Kinds \cup {"none"}]
    BY <1>1 DEF IndInvV3, SessionInvV3, TypeOKV3
  <2> QED BY <1>1, <2>1, <2>2, <2>3 DEF DialOkV3, EffectiveTransport
<1>2. IndInvV3 /\ [NextV3]_varsV3
        => [\A c \in ConnIds :
              Transport = "auto" /\ FellBack /\ conns[c] = "unused" /\ conns'[c] # "unused"
                 => kind'[c] = "legacy"]_varsV3
  BY <1>1
<1> QED BY <1>2, InvarianceV3, PTL DEF SpecV3, FallbackSticks

\* Only a call that failed on a JSON connection is repeated, whatever was
\* dialled since.
THEOREM RetryAnswersJSON == SpecV3 => RetryAfterJSON
<1>1. ASSUME IndInvV3, [NextV3]_varsV3, NEW p \in Callers, pc[p] = "mark", pc'[p] = "lock"
      PROVE  kind[conn[p]] = "json"
  <2>1. Mark(p)
    BY <1>1, OwnStep DEF BeginV3, Begin, DialOkV3, DialOk, SharedStep, CtxDone, GetCached,
       StartDial, DialFail, Send, SendFail, Reply, ErrorReply, Lost, Abort, InvalidateV3
  <2>2. pc \in [Callers -> LocationsV3] /\ DataTypeOK
    BY <1>1 DEF IndInvV3, SessionInvV3, TypeOKV3, LocationsV3
  <2>3. Transport = "auto" /\ ~jsonFallback
    BY <1>1, <2>1, <2>2 DEF Mark, RetryAllowed, GiveUp, Leave, Goto
  <2>4. conn[p] \in ConnIds /\ conns[conn[p]] # "unused"
    BY <1>1, <2>2 DEF IndInvV3, RetryInv, OwnInv, DataTypeOK
  <2> QED BY <1>1, <2>3, <2>4 DEF IndInvV3, RetryInv, KindInv
<1>2. IndInvV3 /\ [NextV3]_varsV3
        => [\A p \in Callers :
              pc[p] = "mark" /\ pc'[p] = "lock" => kind[conn[p]] = "json"]_varsV3
  BY <1>1
<1> QED BY <1>2, InvarianceV3, PTL DEF SpecV3, RetryAfterJSON

-----------------------------------------------------------------------------
(* A v3 client with a fixed transport implements the v2 client.            *)

\* What a step of one caller does to the state that v2 sees of it.
LEMMA Mapped ==
  ASSUME SessionInvV3, NEW p \in Callers, pc[p] # "mark", pc'[p] # "mark",
         \A q \in Callers \ {p} : pc'[q] = pc[q]
  PROVE  /\ v2pc[p] = pc[p] /\ v2conn[p] = conn[p] /\ v2ctx[p] = ctx[p]
         /\ pc' = pc => v2pc' = v2pc
         /\ conn' = conn => v2conn' = v2conn
         /\ ctx' = ctx => v2ctx' = v2ctx
         /\ \A l : pc' = [pc EXCEPT ![p] = l] => v2pc' = [v2pc EXCEPT ![p] = l]
         /\ \A c : conn' = [conn EXCEPT ![p] = c] => v2conn' = [v2conn EXCEPT ![p] = c]
         /\ \A e : ctx' = [ctx EXCEPT ![p] = e] => v2ctx' = [v2ctx EXCEPT ![p] = e]
<1>1. /\ pc \in [Callers -> LocationsV3]
      /\ conn \in [Callers -> ConnIds \cup {NoConn}]
      /\ ctx \in [Callers -> {"live"} \cup CtxErrors]
  BY DEF SessionInvV3, TypeOKV3, DataTypeOK, LocationsV3
<1>2. \A q \in Callers : pc'[q] = "mark" <=> pc[q] = "mark"
  OBVIOUS
<1>3. v2pc[p] = pc[p] /\ v2conn[p] = conn[p] /\ v2ctx[p] = ctx[p]
  BY DEF v2pc, v2conn, v2ctx
<1>4. /\ pc' = pc => v2pc' = v2pc
      /\ \A l : pc' = [pc EXCEPT ![p] = l] => v2pc' = [v2pc EXCEPT ![p] = l]
  BY <1>1, <1>2 DEF v2pc
<1>5. /\ conn' = conn => v2conn' = v2conn
      /\ \A c : conn' = [conn EXCEPT ![p] = c] => v2conn' = [v2conn EXCEPT ![p] = c]
  BY <1>1, <1>2 DEF v2conn
<1>6. /\ ctx' = ctx => v2ctx' = v2ctx
      /\ \A e : ctx' = [ctx EXCEPT ![p] = e] => v2ctx' = [v2ctx EXCEPT ![p] = e]
  BY <1>1, <1>2 DEF v2ctx
<1> QED BY <1>3, <1>4, <1>5, <1>6

\* Call up to the point where it has a connection: the same step of v2.
LEMMA GetClientMaps ==
  ASSUME SessionInvV3, NEW p \in Callers,
         \/ Begin(p) \/ CtxDone(p) \/ GetCached(p) \/ StartDial(p)
         \/ DialOk(p) \/ DialFail(p)
  PROVE  \/ V2!Begin(p) \/ V2!CtxDone(p) \/ V2!GetCached(p) \/ V2!StartDial(p)
         \/ V2!DialOk(p) \/ V2!DialFail(p)
<1> USE DEF connVars, srvVars, V2!connVars, V2!srvVars, NoConn, V2!NoConn,
            ConnIds, V2!ConnIds, CtxErrors, V2!CtxErrors
<1>1. pc \in [Callers -> LocationsV3]
  BY DEF SessionInvV3, TypeOKV3, LocationsV3
<1>2. pc[p] # "mark" /\ pc'[p] # "mark" /\ \A q \in Callers \ {p} : pc'[q] = pc[q]
  BY <1>1 DEF Begin, CtxDone, GetCached, StartDial, DialOk, DialFail, Return, Leave, Goto
<1>3. CASE Begin(p)
  <2>1. CASE Goto(p, "lock") /\ result' = [result EXCEPT ![p] = "none"] /\ UNCHANGED <<conn, ctx>>
    <3>1. V2!Goto(p, "lock") /\ UNCHANGED <<v2conn, v2ctx>>
      BY <1>2, <2>1, Mapped DEF Goto, V2!Goto
    <3> QED BY <1>2, <1>3, <2>1, <3>1, Mapped DEF Begin, V2!Begin
  <2>2. ASSUME NEW e \in CtxErrors, Return(p, e) PROVE V2!Begin(p)
    <3>1. V2!Return(p, e)
      BY <1>2, <2>2, Mapped DEF Return, Leave, Goto, V2!Return, V2!Leave, V2!Goto
    <3> QED BY <1>2, <1>3, <3>1, Mapped DEF Begin, V2!Begin
  <2> QED BY <1>3, <2>1, <2>2 DEF Begin
<1>4. CASE CtxDone(p)
  BY <1>2, <1>4, Mapped DEF CtxDone, V2!CtxDone
<1>5. CASE GetCached(p)
  BY <1>2, <1>5, Mapped DEF GetCached, V2!GetCached, Goto, V2!Goto
<1>6. CASE StartDial(p)
  BY <1>2, <1>6, Mapped DEF StartDial, V2!StartDial, Goto, V2!Goto
<1>7. CASE DialOk(p)
  BY <1>2, <1>7, Mapped DEF DialOk, V2!DialOk, IsFresh, V2!IsFresh, Goto, V2!Goto
<1>8. CASE DialFail(p)
  BY <1>2, <1>8, Mapped
  DEF DialFail, V2!DialFail, Return, Leave, Goto, V2!Return, V2!Leave, V2!Goto
<1> QED BY <1>3, <1>4, <1>5, <1>6, <1>7, <1>8

\* cl.Call: the same step of v2.
LEMMA CallMaps ==
  ASSUME SessionInvV3, NEW p \in Callers,
         Send(p) \/ SendFail(p) \/ Reply(p) \/ ErrorReply(p) \/ Lost(p) \/ Abort(p)
  PROVE  \/ V2!Send(p) \/ V2!SendFail(p) \/ V2!Reply(p) \/ V2!ErrorReply(p)
         \/ V2!Lost(p) \/ V2!Abort(p)
<1> USE DEF connVars, srvVars, V2!connVars, V2!srvVars, NoConn, V2!NoConn
<1>1. pc \in [Callers -> LocationsV3]
  BY DEF SessionInvV3, TypeOKV3, LocationsV3
<1>2. pc[p] # "mark" /\ pc'[p] # "mark" /\ \A q \in Callers \ {p} : pc'[q] = pc[q]
  BY <1>1 DEF Send, SendFail, Reply, ErrorReply, Lost, Abort, Return, Fail, Leave, Goto
<1>3. V2!Request(p) = Request(p)
  BY <1>2, Mapped DEF Request, V2!Request
<1>4. ASSUME NEW e, Fail(p, e) PROVE V2!Fail(p, e)
  BY <1>2, <1>4, Mapped DEF Fail, V2!Fail, Goto, V2!Goto
<1>5. CASE Send(p)
  BY <1>2, <1>3, <1>5, Mapped DEF Send, V2!Send, Goto, V2!Goto
<1>6. CASE SendFail(p)
  BY <1>2, <1>4, <1>6, Mapped DEF SendFail, V2!SendFail, SendErrors, V2!SendErrors
<1>7. CASE Reply(p)
  BY <1>2, <1>3, <1>7, Mapped
  DEF Reply, V2!Reply, Return, Leave, Goto, V2!Return, V2!Leave, V2!Goto
<1>8. CASE ErrorReply(p)
  BY <1>2, <1>3, <1>4, <1>8, Mapped DEF ErrorReply, V2!ErrorReply
<1>9. CASE Lost(p)
  BY <1>2, <1>4, <1>9, Mapped DEF Lost, V2!Lost
<1>10. CASE Abort(p)
  BY <1>2, <1>4, <1>10, Mapped DEF Abort, V2!Abort
<1> QED BY <1>5, <1>6, <1>7, <1>8, <1>9, <1>10

\* invalidate: v2 returns here, whether or not v3 goes on to the fallback
\* decision, which in a fixed mode only lets the caller return.
LEMMA InvalidateMaps ==
  ASSUME SessionInvV3, NEW p \in Callers, InvalidateV3(p)
  PROVE  V2!Invalidate(p)
<1>1. /\ pc \in [Callers -> LocationsV3]
      /\ conn \in [Callers -> ConnIds \cup {NoConn}]
      /\ ctx \in [Callers -> {"live"} \cup CtxErrors]
  BY DEF SessionInvV3, TypeOKV3, DataTypeOK, LocationsV3
<1>2. V2!Leave(p)
  <2>1. CASE GotoMark(p)
    <3>1. v2pc' = [v2pc EXCEPT ![p] = "done"]
      BY <1>1, <2>1 DEF InvalidateV3, GotoMark, Goto, v2pc
    <3>2. v2conn' = [v2conn EXCEPT ![p] = NoConn]
      BY <1>1, <2>1 DEF InvalidateV3, GotoMark, Goto, v2conn
    <3>3. v2ctx' = [v2ctx EXCEPT ![p] = "live"]
      BY <1>1, <2>1 DEF InvalidateV3, GotoMark, Goto, v2ctx
    <3> QED BY <3>1, <3>2, <3>3 DEF V2!Leave, V2!Goto, NoConn, V2!NoConn
  <2>2. CASE Leave(p)
    <3>1. pc[p] # "mark" /\ pc'[p] # "mark" /\ \A q \in Callers \ {p} : pc'[q] = pc[q]
      BY <1>1, <2>2 DEF InvalidateV3, Leave, Goto
    <3> QED BY <2>2, <3>1, Mapped DEF Leave, Goto, V2!Leave, V2!Goto, NoConn, V2!NoConn
  <2> QED BY <2>1, <2>2 DEF InvalidateV3
<1>3. v2pc[p] = "failed"
  BY DEF InvalidateV3, v2pc
<1> QED BY <1>2, <1>3 DEF InvalidateV3, V2!Invalidate, ResetConn, V2!ResetConn, srvVars,
                          V2!srvVars, NoConn, V2!NoConn

\* With a fixed transport Mark is no step of the v2 client: the call has failed.
LEMMA MarkMaps ==
  ASSUME Transport # "auto", SessionInvV3, NEW p \in Callers, Mark(p)
  PROVE  UNCHANGED V2!vars
<1>1. /\ pc \in [Callers -> LocationsV3]
      /\ conn \in [Callers -> ConnIds \cup {NoConn}]
      /\ ctx \in [Callers -> {"live"} \cup CtxErrors]
  BY DEF SessionInvV3, TypeOKV3, DataTypeOK, LocationsV3
<1>2. /\ pc[p] = "mark" /\ Leave(p) /\ UNCHANGED <<result, calls, mu, cl, conns, sent, ran>>
  BY DEF Mark, RetryAllowed, GiveUp, connVars, srvVars
<1>3. UNCHANGED v2pc
  BY <1>1, <1>2 DEF Leave, Goto, v2pc
<1>4. UNCHANGED v2conn
  BY <1>1, <1>2 DEF Leave, Goto, v2conn
<1>5. UNCHANGED v2ctx
  BY <1>1, <1>2 DEF Leave, Goto, v2ctx
<1> QED BY <1>2, <1>3, <1>4, <1>5 DEF V2!vars, V2!connVars, V2!callVars, V2!srvVars

\* A server that speaks the transport rejects nothing, because every request
\* is on a connection of that transport.
LEMMA NoReject ==
  ASSUME Transport # "auto", NEW S, Peers = {S}, Transport \in S, IndInvV3,
         NEW r \in sent
  PROVE  ~Reject(r)
<1>1. r[3] \in ConnIds /\ conns[r[3]] # "unused" /\ speaks = S
  BY DEF IndInvV3, SessionInvV3, TypeOKV3, DataTypeOK, RetryInv, MadeInv, Made
<1> QED BY <1>1 DEF IndInvV3, RetryInv, KindInv, Reject

\* "always gob/crypto as in v2": against one server that speaks its transport,
\* a v3 client with a fixed transport does only what the v2 client does; the
\* fallback decision after an error is invisible.
THEOREM FixedImplementsV2 ==
  ASSUME Transport # "auto", NEW S, Peers = {S}, Transport \in S
  PROVE  SpecV3 => ImplementsV2
<1>1. InitV3 => V2!Init
  BY DEF InitV3, Init, V2!Init, v2pc, v2conn, v2ctx, NoConn, V2!NoConn, ConnIds, V2!ConnIds
<1>2. IndInvV3 /\ [NextV3]_varsV3 => [V2!Next]_(V2!vars)
  <2> SUFFICES ASSUME IndInvV3, [NextV3]_varsV3 PROVE V2!Next \/ UNCHANGED V2!vars
    OBVIOUS
  <2> USE DEF V2!vars, V2!connVars, V2!callVars, V2!srvVars
  <2>1. SessionInvV3
    BY DEF IndInvV3
  <2>2. ASSUME NEW p \in Callers,
               BeginV3(p) \/ DialOkV3(p) \/ SharedStep(p) \/ InvalidateV3(p)
        PROVE  V2!Next
    BY <2>1, <2>2, GetClientMaps, CallMaps, InvalidateMaps
    DEF BeginV3, DialOkV3, SharedStep, V2!Next
  <2>3. ASSUME NEW p \in Callers, Mark(p) PROVE UNCHANGED V2!vars
    BY <2>1, <2>3, MarkMaps
  <2>4. ASSUME UNCHANGED <<pc, conn, ctx>> PROVE UNCHANGED <<v2pc, v2conn, v2ctx>>
    BY <2>4 DEF v2pc, v2conn, v2ctx
  <2>5. ASSUME NEW r \in sent, ExecuteV3(r) PROVE V2!Next
    BY <2>4, <2>5 DEF ExecuteV3, Execute, V2!Execute, V2!Next, connVars, callVars
  <2>6. CASE Close
    BY <2>4, <2>6 DEF Close, ResetConn, V2!Close, V2!ResetConn, V2!Next, callVars, srvVars,
                      NoConn, V2!NoConn
  <2>7. ASSUME NEW c \in ConnIds, Drop(c) PROVE V2!Next
    BY <2>4, <2>7 DEF Drop, V2!Drop, V2!Next, callVars, srvVars, ConnIds, V2!ConnIds
  <2>8. ~Redeploy
    BY DEF Redeploy, IndInvV3, SessionInvV3, TypeOKV3
  <2>9. CASE UNCHANGED varsV3
    BY <2>4, <2>9 DEF varsV3, vars, connVars, callVars, srvVars
  <2> QED BY <2>2, <2>3, <2>5, <2>6, <2>7, <2>8, <2>9, NoReject DEF NextV3, CloseV3
<1> QED BY <1>1, <1>2, InvarianceV3, PTL DEF SpecV3, ImplementsV2, V2!Spec
=============================================================================
