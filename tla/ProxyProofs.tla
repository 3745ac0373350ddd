---------------------------- MODULE ProxyProofs -----------------------------
(***************************************************************************)
(* Proofs about Service.Call and Invoke of the generic proxy, for any set  *)
(* of concurrent requests, any allowlist, routing table and headers, any   *)
(* number of slots, limits and timeouts.                                   *)
(*                                                                         *)
(* SlotsMatch and RunsAtMostOnce are inductive together; the other         *)
(* properties follow from them or are preserved under them.                *)
(***************************************************************************)
EXTENDS Proxy, FiniteSetTheorems, TLAPS

CallInv(r) == runs[r] <= 1 /\ StageInv(r) /\ ReachedInv(r)

IndInv == SlotsMatch /\ RunsAtMostOnce

-----------------------------------------------------------------------------
(* The decisions.                                                          *)

\* A request that passed the checks has a target, and its client never falls
\* back: that of a table which passed NewStaticRouter's checks is forced to one
\* transport.
LEMMA FixedTransport ==
  ASSUME NEW r, Refusal(method[r]) = "ok"
  PROVE  TransportOf(r) \in {"json", "legacy"}
<1>1. SplitMethod(method[r]).service \in DOMAIN Targets
  BY DEF Refusal, Resolves
<1>2. TargetOf(r).transport \in {""} \cup Transports
  BY <1>1, ProxyAssumption DEF TargetOf
<1> QED BY <1>2 DEF TransportOf, ClientTransport, ClientWithTransport, Transports

\* The refusals are the only codes that the checks give.
LEMMA RefusalCodes == \A m : Refusal(m) \in Refusals \cup {"ok"}
  BY DEF Refusal, Refusals

\* mapCallError.
LEMMA MapCodes ==
  /\ MapCallError("server") = "backend_error"
  /\ MapCallError("eof") = "backend_not_json"
  /\ \A e \in CtxErrors \cup {"link", "codec"} : MapCallError(e) = "transport_error"
<1>1. MapCallError("server") = "backend_error"
  BY DEF MapCallError
<1>2. MapCallError("eof") = "backend_not_json"
  BY DEF MapCallError
<1>3. ASSUME NEW e \in CtxErrors \cup {"link", "codec"}
      PROVE  MapCallError(e) = "transport_error"
  BY DEF MapCallError, CtxErrors
<1> QED BY <1>1, <1>2, <1>3

\* Sizes, limits, timeouts and counters are numbers.
LEMMA Numbers ==
  ASSUME TypeOK
  PROVE  /\ PayloadLimit \in Int /\ timeout \in Int
         /\ \A r \in Requests : size[r] \in Nat /\ runs[r] \in Nat
<1>1. /\ Sizes \subseteq Nat /\ Timeouts \subseteq Int
      /\ MaxPayload \in Int /\ DefaultMaxJSONBody \in Nat
  BY ProxyAssumption
<1>2. PayloadLimit \in Int
  BY <1>1 DEF PayloadLimit
<1>3. timeout \in Int
  BY <1>1 DEF TypeOK, LocalTypeOK
<1>4. ASSUME NEW r \in Requests PROVE size[r] \in Nat /\ runs[r] \in Nat
  <2>1. size[r] \in Nat
    BY <1>1 DEF TypeOK, LocalTypeOK
  <2>2. runs[r] \in 0..2
    BY DEF TypeOK, LocalTypeOK
  <2> QED BY <2>1, <2>2
<1> QED BY <1>2, <1>3, <1>4

-----------------------------------------------------------------------------
(* Requests do not disturb each other.                                     *)

\* Nothing of q's call changes.
Same(q) ==
    /\ timeout' = timeout /\ method' = method /\ size' = size
    /\ pc'[q] = pc[q] /\ callCtx'[q] = callCtx[q] /\ client'[q] = client[q]
    /\ runs'[q] = runs[q] /\ passed'[q] = passed[q]
    /\ res'[q] = res[q] /\ reply'[q] = reply[q]
    /\ q \in rejected' <=> q \in rejected
    /\ \A t \in {"json", "legacy"} : <<q, t>> \in sent' <=> <<q, t>> \in sent

CallerStep(r) ==
    \/ Validate(r) \/ Enter(r) \/ Acquire(r) \/ LimitTimeout(r)
    \/ NewClient(r) \/ NewClientFail(r)
    \/ Dial(r) \/ DialFails(r) \/ SendRequest(r) \/ SendFails(r)
    \/ CallReturns(r) \/ CallCut(r) \/ CallAborted(r)
    \/ CloseClient(r) \/ Release(r) \/ Return(r) \/ Cancel(r) \/ Expire(r)

BackendStep(r) == \E t \in {"json", "legacy"} : Dispatch(r, t) \/ Reject(r, t)

\* Every step is one of a single request, at the proxy or at its backend.
LEMMA NextSteps == Next <=> \E r \in Requests : CallerStep(r) \/ BackendStep(r)
  BY DEF Next, CallerStep, BackendStep

\* Requests meet only at the slots: a step of one leaves the rest of another.
LEMMA OthersSame ==
  ASSUME TypeOK, NEW r \in Requests, CallerStep(r) \/ BackendStep(r),
         NEW q \in Requests, q # r
  PROVE  Same(q)
<1> USE DEF TypeOK, LocalTypeOK, Same, inVars, netVars
<1>1. CASE BackendStep(r)
  BY <1>1 DEF BackendStep, Dispatch, Reject
<1>2. CASE SendRequest(r)
  BY <1>2 DEF SendRequest, Goto
<1>3. CASE Validate(r) \/ Enter(r)
  BY <1>3 DEF Validate, Enter, Answer, Goto
<1>4. CASE Acquire(r) \/ LimitTimeout(r) \/ NewClient(r) \/ NewClientFail(r)
  BY <1>4 DEF Acquire, LimitTimeout, NewClient, NewClientFail, Answer, Goto
<1>8. CASE Dial(r) \/ DialFails(r) \/ SendFails(r)
  BY <1>8 DEF Dial, DialFails, SendFails, CallFails, Answer, Goto
<1>5. CASE CallReturns(r)
  BY <1>5 DEF CallReturns, CallFails, Answer, Goto
<1>6. CASE CallCut(r) \/ CallAborted(r)
  BY <1>6 DEF CallCut, CallAborted, CallFails, Answer, Goto
<1>7. CASE CloseClient(r) \/ Release(r) \/ Return(r) \/ Cancel(r) \/ Expire(r)
  BY <1>7 DEF CloseClient, Release, Return, Cancel, Expire, Goto
<1> QED BY <1>1, <1>2, <1>3, <1>4, <1>5, <1>6, <1>7, <1>8 DEF CallerStep

\* CallInv speaks of one request only.
LEMMA SameCallInv ==
  ASSUME NEW q \in Requests, CallInv(q), Same(q)
  PROVE  CallInv(q)'
<1>1. TransportOf(q)' = TransportOf(q) /\ TargetOf(q)' = TargetOf(q) /\ Reached(q)' = Reached(q)
  BY DEF Same, TransportOf, TargetOf, Reached
<1>2. StageInv(q)'
  BY <1>1 DEF CallInv, Same, StageInv
<1>3. ReachedInv(q)'
  BY <1>1 DEF CallInv, Same, ReachedInv
<1> QED BY <1>2, <1>3 DEF CallInv, Same

-----------------------------------------------------------------------------
(* The life of one call.                                                   *)

\* Whoever has not been sent yet is not known to the backend: what a request
\* is told before it is sent changes nothing at the backend.
LEMMA UnsentCallInv ==
  ASSUME TypeOK, NEW r \in Requests, CallInv(r),
         pc[r] \in {"idle", "invoke", "limit", "client", "call", "write"},
         UNCHANGED <<inVars, netVars>>, StageInv(r)'
  PROVE  CallInv(r)'
<1>1. ~Reached(r) /\ ~Reached(r)'
  BY DEF CallInv, ReachedInv, Reached, netVars
<1>2. ReachedInv(r)'
  BY <1>1 DEF ReachedInv, Reached
<1> QED BY <1>2 DEF CallInv, netVars

\* Service.Call's checks, Invoke's checks, and the slot.
LEMMA BeforeClient ==
  ASSUME TypeOK, NEW r \in Requests, CallInv(r),
         Validate(r) \/ Enter(r) \/ Acquire(r) \/ LimitTimeout(r)
  PROVE  CallInv(r)'
<1> USE DEF TypeOK, LocalTypeOK, inVars, CallInv
<1>1. CASE Validate(r)
  <2>1. StageInv(r)'
    BY <1>1, RefusalCodes DEF Validate, Answer, Goto, StageInv, TransportOf, TargetOf
  <2> QED BY <1>1, <2>1, UnsentCallInv DEF Validate
<1>2. CASE Enter(r)
  <2>1. PayloadLimit \in Int /\ size[r] \in Nat /\ timeout \in Int
    BY Numbers
  <2>2. timeout <= 0 => NewCallCtx # "live"
    BY <2>1 DEF NewCallCtx
  <2>3. StageInv(r)'
    BY <1>2, <2>2 DEF Enter, Answer, Goto, StageInv, TransportOf, TargetOf
  <2> QED BY <1>2, <2>3, UnsentCallInv DEF Enter
<1>3. CASE Acquire(r)
  <2>1. StageInv(r)'
    BY <1>3 DEF Acquire, Goto, StageInv, TransportOf, TargetOf
  <2> QED BY <1>3, <2>1, UnsentCallInv DEF Acquire
<1>4. CASE LimitTimeout(r)
  <2>1. StageInv(r)'
    BY <1>4 DEF LimitTimeout, Answer, Goto, StageInv, TransportOf, TargetOf
  <2> QED BY <1>4, <2>1, UnsentCallInv DEF LimitTimeout
<1> QED BY <1>1, <1>2, <1>3, <1>4

\* The client and the first half of its call.
LEMMA ClientSteps ==
  ASSUME TypeOK, NEW r \in Requests, CallInv(r),
         NewClient(r) \/ NewClientFail(r) \/ Dial(r) \/ DialFails(r) \/ SendFails(r)
  PROVE  CallInv(r)'
<1> USE DEF TypeOK, LocalTypeOK, inVars, CallInv
<1>1. CASE NewClient(r)
  <2>1. StageInv(r)'
    BY <1>1 DEF NewClient, Goto, StageInv, TransportOf, TargetOf
  <2> QED BY <1>1, <2>1, UnsentCallInv DEF NewClient
<1>2. CASE NewClientFail(r)
  <2>1. StageInv(r)'
    BY <1>2 DEF NewClientFail, Answer, Goto, StageInv, TransportOf, TargetOf
  <2> QED BY <1>2, <2>1, UnsentCallInv DEF NewClientFail
<1>3. CASE SendFails(r)
  <2>1. StageInv(r)'
    BY <1>3 DEF SendFails, CallFails, Answer, Goto, StageInv, TransportOf, TargetOf
  <2> QED BY <1>3, <2>1, UnsentCallInv DEF SendFails
<1>4. CASE Dial(r)
  <2>1. timeout \in Int
    BY Numbers
  <2>2. StageInv(r)'
    BY <1>4, <2>1 DEF Dial, Goto, StageInv, TransportOf, TargetOf
  <2> QED BY <1>4, <2>2, UnsentCallInv DEF Dial
<1>5. CASE DialFails(r)
  <2>1. StageInv(r)'
    BY <1>5 DEF DialFails, CallFails, Answer, Goto, StageInv, TransportOf, TargetOf
  <2> QED BY <1>5, <2>1, UnsentCallInv DEF DialFails
<1> QED BY <1>1, <1>2, <1>3, <1>4, <1>5

\* The one request of a call: it goes out over the client's only transport.
LEMMA SendStep ==
  ASSUME TypeOK, NEW r \in Requests, CallInv(r), SendRequest(r)
  PROVE  CallInv(r)'
<1> USE DEF SendRequest, inVars
<1>0. timeout \in Int /\ runs[r] \in Nat
  BY Numbers
<1>1. /\ pc[r] = "write" /\ pc'[r] = "wait" /\ res[r] = "none" /\ ~(timeout <= 0)
      /\ Refusal(method[r]) = "ok" /\ client[r] = TransportOf(r) /\ size[r] <= PayloadLimit
  BY DEF TypeOK, LocalTypeOK, Goto, CallInv, StageInv
<1>2. Wire(client[r]) = TransportOf(r) /\ TransportOf(r) \in {"json", "legacy"}
  BY <1>1, FixedTransport DEF Wire
<1>3. ~Reached(r)
  BY <1>1 DEF CallInv, ReachedInv
<1>4. TransportOf(r)' = TransportOf(r) /\ TargetOf(r)' = TargetOf(r)
  BY DEF TransportOf, TargetOf
<1>5. StageInv(r)'
  BY <1>1, <1>4 DEF StageInv
<1>6. passed'[r] = IdentityHeaders(Metadata[r], Inbound[r])
  BY DEF TypeOK, LocalTypeOK
<1>7. runs[r] = 0 /\ r \notin rejected
  BY <1>0, <1>3 DEF Reached
<1>8. \A t \in {"json", "legacy"} : <<r, t>> \in sent' => t = TransportOf(r)
  BY <1>2, <1>3 DEF Reached
<1>9. res[r] \notin Refusals
  BY <1>1 DEF Refusals
<1>10. ReachedInv(r)'
  BY <1>0, <1>1, <1>4, <1>6, <1>7, <1>8, <1>9 DEF ReachedInv
<1> QED BY <1>0, <1>5, <1>7, <1>10 DEF CallInv

\* The backend takes the one request that is on its way.
LEMMA BackendSteps ==
  ASSUME TypeOK, NEW r \in Requests, CallInv(r), BackendStep(r)
  PROVE  CallInv(r)'
<1>1. PICK t \in {"json", "legacy"} : Dispatch(r, t) \/ Reject(r, t)
  BY DEF BackendStep
<1>2. /\ <<r, t>> \in sent /\ t \in TargetOf(r).speaks /\ sent' = sent \ {<<r, t>>}
      /\ UNCHANGED <<pc, inVars, callCtx, client, passed, res>>
  BY <1>1 DEF Dispatch, Reject
<1>3. /\ TransportOf(r) = t /\ runs[r] = 0 /\ r \notin rejected /\ Reached(r)
      /\ \A u \in {"json", "legacy"} : <<r, u>> \in sent => u = t
  BY <1>2 DEF CallInv, ReachedInv, Reached
<1>4. (runs'[r] = 1 /\ rejected' = rejected) \/ (runs'[r] = 0 /\ r \in rejected')
  BY <1>1, <1>3 DEF Dispatch, Reject, TypeOK, LocalTypeOK
<1>5. TransportOf(r)' = TransportOf(r) /\ TargetOf(r)' = TargetOf(r)
  BY <1>2 DEF TransportOf, TargetOf, inVars
<1>6. StageInv(r)'
  BY <1>2, <1>5 DEF CallInv, StageInv, inVars
<1>7. \A u \in {"json", "legacy"} : <<r, u>> \notin sent'
  BY <1>2, <1>3
<1>8. ReachedInv(r)'
  BY <1>2, <1>3, <1>4, <1>5, <1>7 DEF CallInv, ReachedInv, inVars
<1> QED BY <1>4, <1>6, <1>8 DEF CallInv

\* Once sent, a request stays past that point, and is told no refusal.
LEMMA ReachedKept ==
  ASSUME NEW r \in Requests, ReachedInv(r), UNCHANGED <<timeout, method, size, netVars>>,
         pc[r] \in {"wait", "close", "release", "return", "done"}
           => pc'[r] \in {"wait", "close", "release", "return", "done"},
         res'[r] \in Refusals => res'[r] = res[r]
  PROVE  ReachedInv(r)'
<1>1. /\ TransportOf(r)' = TransportOf(r) /\ TargetOf(r)' = TargetOf(r)
      /\ Reached(r)' = Reached(r)
  BY DEF TransportOf, TargetOf, Reached, netVars
<1> QED BY <1>1 DEF ReachedInv, netVars

\* What client.Call returns becomes a code that is no refusal; a client with a
\* fixed transport has no second try.
LEMMA ReplySteps ==
  ASSUME TypeOK, NEW r \in Requests, CallInv(r),
         CallReturns(r) \/ CallCut(r) \/ CallAborted(r)
  PROVE  CallInv(r)' /\ UNCHANGED <<client, limitCh>> /\ res'[r] \in Codes \cup {"ok"}
<1> USE DEF inVars
<1>1. pc[r] = "wait" /\ client[r] = TransportOf(r) /\ client[r] # "auto"
  BY FixedTransport DEF CallInv, StageInv, CallReturns, CallCut, CallAborted
<1>2. callCtx[r] # "live" => MapCallError(callCtx[r]) = "transport_error"
  BY MapCodes DEF TypeOK, LocalTypeOK
<1>3. /\ pc' = [pc EXCEPT ![r] = "close"]
      /\ \E c \in {"backend_error", "backend_not_json", "transport_error",
                    "payload_too_large", "ok"} : res' = [res EXCEPT ![r] = c]
      /\ UNCHANGED <<inVars, callCtx, limitCh, client, netVars>>
  <2>1. CASE CallReturns(r)
    <3>1. ASSUME NEW n \in Sizes, NEW d \in BOOLEAN
          PROVE  ReplyCode(r, n, d) \in {"transport_error", "payload_too_large", "ok"}
      BY <1>2, MapCodes DEF ReplyCode
    <3> QED BY <2>1, <3>1, MapCodes DEF CallReturns, CallFails, Answer, Goto
  <2>2. CASE CallCut(r)
    BY <1>1, <2>2, MapCodes DEF CallCut, CallFails, Answer, Goto
  <2>3. CASE CallAborted(r)
    BY <1>2, <2>3 DEF CallAborted, CallFails, Answer, Goto
  <2> QED BY <2>1, <2>2, <2>3
<1>4. pc'[r] = "close" /\ res'[r] \in {"backend_error", "backend_not_json",
                                      "transport_error", "payload_too_large", "ok"}
  BY <1>3 DEF TypeOK, LocalTypeOK
<1>5. res'[r] \notin Refusals /\ res'[r] \in Codes \cup {"ok"}
  BY <1>4 DEF Refusals, Codes
<1>6. StageInv(r)'
  BY <1>1, <1>3, <1>4 DEF CallInv, StageInv, TransportOf, TargetOf
<1>7. ReachedInv(r)'
  BY <1>3, <1>4, <1>5, ReachedKept DEF CallInv
<1> QED BY <1>3, <1>5, <1>6, <1>7 DEF CallInv, netVars

\* The deferred calls, and the ends of the contexts.
LEMMA EndSteps ==
  ASSUME TypeOK, NEW r \in Requests, CallInv(r),
         CloseClient(r) \/ Release(r) \/ Return(r) \/ Cancel(r) \/ Expire(r)
  PROVE  CallInv(r)'
<1> USE DEF inVars
<1>1. UNCHANGED <<timeout, method, size, res, netVars>>
  BY DEF CloseClient, Release, Return, Cancel, Expire
<1>2. StageInv(r)'
  <2>1. CASE CloseClient(r) \/ Release(r) \/ Return(r)
    BY <2>1 DEF CloseClient, Release, Return, Goto, TypeOK, LocalTypeOK, CallInv, StageInv,
                TransportOf, TargetOf
  <2>2. CASE Cancel(r) \/ Expire(r)
    BY <2>2 DEF Cancel, Expire, TypeOK, LocalTypeOK, CallInv, StageInv, TransportOf, TargetOf
  <2> QED BY <2>1, <2>2
<1>3. pc[r] \in {"wait", "close", "release", "return", "done"}
        => pc'[r] \in {"wait", "close", "release", "return", "done"}
  BY DEF CloseClient, Release, Return, Cancel, Expire, Goto, TypeOK, LocalTypeOK
<1>4. ReachedInv(r)'
  BY <1>1, <1>3, ReachedKept DEF CallInv
<1> QED BY <1>1, <1>2, <1>4 DEF CallInv, netVars

\* Every step keeps CallInv of the request it belongs to, and of the others.
LEMMA StepCallInv ==
  ASSUME TypeOK, RunsAtMostOnce, NEW r \in Requests, CallerStep(r) \/ BackendStep(r)
  PROVE  RunsAtMostOnce'
<1>1. \A q \in Requests : CallInv(q)
  BY DEF RunsAtMostOnce, CallInv
<1>2. CallInv(r)'
  BY <1>1, BeforeClient, ClientSteps, SendStep, BackendSteps, ReplySteps, EndSteps DEF CallerStep
<1>3. \A q \in Requests : q # r => CallInv(q)'
  BY <1>1, OthersSame, SameCallInv
<1> QED BY <1>2, <1>3 DEF RunsAtMostOnce, CallInv

-----------------------------------------------------------------------------
(* The slots.                                                              *)

\* Finitely many requests hold a slot, so they can be counted.
LEMMA HoldersFinite == IsFiniteSet(Holders) /\ Cardinality(Holders) \in Nat
<1>1. IsFiniteSet(Requests)
  BY ProxyAssumption
<1>2. Holders \subseteq Requests
  BY DEF Holders
<1>3. IsFiniteSet(Holders)
  BY <1>1, <1>2, FS_Subset
<1> QED BY <1>3, FS_CardinalityType

\* A step of r changes nobody else's claim to a slot.
LEMMA HoldersStep ==
  ASSUME TypeOK, NEW r \in Requests, CallerStep(r) \/ BackendStep(r)
  PROVE  Holders' = IF r \in Holders' THEN Holders \cup {r} ELSE Holders \ {r}
<1>1. \A q \in Requests : q # r => pc'[q] = pc[q]
  BY OthersSame DEF Same
<1> QED BY <1>1 DEF Holders

\* Only Acquire and Release change the counter, and with it the holders; every
\* other step of Invoke leaves its request's claim as it is.
LEMMA SlotStep ==
  ASSUME TypeOK, RunsAtMostOnce, MaxConcurrent > 0, limitCh = Cardinality(Holders),
         NEW r \in Requests, CallerStep(r) \/ BackendStep(r)
  PROVE  limitCh' \in 0..MaxConcurrent /\ limitCh' = Cardinality(Holders')
<1>0. limitCh \in 0..MaxConcurrent /\ MaxConcurrent \in Nat /\ pc \in [Requests -> Locations]
  BY ProxyAssumption DEF TypeOK, LocalTypeOK
<1>1. CASE Acquire(r)
  <2>1. r \notin Holders /\ r \in Holders' /\ limitCh < MaxConcurrent /\ limitCh' = limitCh + 1
    BY <1>0, <1>1 DEF Acquire, Goto, Holders
  <2>2. Holders' = Holders \cup {r}
    BY <2>1, HoldersStep
  <2>3. Cardinality(Holders') = Cardinality(Holders) + 1
    BY <2>1, <2>2, HoldersFinite, FS_AddElement
  <2> QED BY <1>0, <2>1, <2>3
<1>2. CASE Release(r)
  <2>1. r \in Holders /\ r \notin Holders' /\ limitCh' = limitCh - 1
    BY <1>0, <1>2 DEF Release, Goto, Holders
  <2>2. Holders' = Holders \ {r}
    BY <2>1, HoldersStep
  <2>3. Cardinality(Holders') = Cardinality(Holders) - 1
    BY <2>1, <2>2, HoldersFinite, FS_RemoveElement
  <2>4. Cardinality(Holders) # 0
    BY <2>1, HoldersFinite, FS_EmptySet
  <2> QED BY <1>0, <2>1, <2>3, <2>4
<1>3. CASE ~Acquire(r) /\ ~Release(r)
  <2>1. limitCh' = limitCh
    BY <1>3 DEF CallerStep, BackendStep, Validate, Enter, LimitTimeout, NewClient, NewClientFail,
       Dial, DialFails, SendRequest, SendFails, Dispatch, Reject, CallReturns, CallCut,
       CallAborted, CloseClient, Return, Cancel, Expire
  <2>2. r \in Holders' <=> r \in Holders
    <3>1. CASE CallReturns(r) \/ CallCut(r) \/ CallAborted(r)
      BY <1>0, <3>1 DEF CallReturns, CallCut, CallAborted, CallFails, Answer, Goto, Holders
    <3>2. CASE Validate(r) \/ Enter(r) \/ LimitTimeout(r)
      BY <1>0, <3>2 DEF Validate, Enter, LimitTimeout, Answer, Goto, Holders
    <3>3. CASE \/ NewClient(r) \/ NewClientFail(r) \/ Dial(r) \/ DialFails(r)
               \/ SendRequest(r) \/ SendFails(r)
      BY <1>0, <3>3 DEF NewClient, NewClientFail, Dial, DialFails, SendRequest, SendFails,
                        CallFails, Answer, Goto, Holders
    <3>4. CASE \/ CloseClient(r) \/ Return(r) \/ Cancel(r) \/ Expire(r) \/ BackendStep(r)
      BY <1>0, <3>4 DEF CloseClient, Return, Cancel, Expire, BackendStep, Dispatch, Reject,
                        Goto, Holders
    <3> QED BY <1>3, <3>1, <3>2, <3>3, <3>4 DEF CallerStep
  <2>3. Holders' = Holders
    BY <2>2, HoldersStep
  <2> QED BY <1>0, <2>1, <2>3
<1> QED BY <1>1, <1>2, <1>3

\* Without a limit the channel is not used.
LEMMA NoSlotStep ==
  ASSUME TypeOK, ~(MaxConcurrent > 0), NEW r \in Requests, CallerStep(r) \/ BackendStep(r)
  PROVE  limitCh' \in 0..MaxConcurrent
<1>0. limitCh \in 0..MaxConcurrent /\ MaxConcurrent \in Nat
  BY ProxyAssumption DEF TypeOK, LocalTypeOK
<1>1. CASE Acquire(r)
  BY <1>0, <1>1 DEF Acquire
<1>2. CASE Release(r)
  BY <1>0, <1>2 DEF Release
<1>3. CASE ~Acquire(r) /\ ~Release(r)
  BY <1>0, <1>3 DEF CallerStep, BackendStep, Validate, Enter, LimitTimeout, NewClient,
     NewClientFail, Dial, DialFails, SendRequest, SendFails, Dispatch, Reject, CallReturns,
     CallCut, CallAborted, CloseClient, Return, Cancel, Expire
<1> QED BY <1>1, <1>2, <1>3

\* Every step keeps the types of the locals.
LEMMA TypeStep ==
  ASSUME TypeOK, RunsAtMostOnce, NEW r \in Requests, CallerStep(r) \/ BackendStep(r)
  PROVE  LocalTypeOK'
<1>1. LocalTypeOK /\ CallInv(r)
  BY DEF TypeOK, LocalTypeOK, RunsAtMostOnce, CallInv
<1> USE DEF LocalTypeOK, inVars, netVars, Goto
<1>2. CASE Validate(r) \/ Enter(r)
  <2>1. CASE Validate(r)
    BY <1>1, <2>1, RefusalCodes DEF Validate, Answer, Locations, Codes
  <2>2. CASE Enter(r)
    BY <1>1, <2>2 DEF Enter, Answer, Locations, Codes, NewCallCtx, CtxErrors
  <2> QED BY <1>2, <2>1, <2>2
<1>3. CASE Acquire(r) \/ LimitTimeout(r) \/ NewClientFail(r)
  BY <1>1, <1>3 DEF Acquire, LimitTimeout, NewClientFail, Answer, Locations, Codes
<1>4. CASE NewClient(r)
  <2>1. TransportOf(r) \in Transports
    BY <1>1, <1>4, FixedTransport DEF NewClient, CallInv, StageInv, Transports
  <2> QED BY <1>1, <1>4, <2>1 DEF NewClient, Locations
<1>5. CASE SendRequest(r)
  <2>1. Wire(client[r]) \in {"json", "legacy"}
    BY <1>1, <1>5, FixedTransport DEF SendRequest, CallInv, StageInv, Wire
  <2> QED BY <1>1, <1>5, <2>1 DEF SendRequest, Locations
<1>6. CASE Dial(r) \/ DialFails(r) \/ SendFails(r)
  <2>1. /\ MapCallError(IF callCtx[r] = "live" THEN "link" ELSE callCtx[r]) = "transport_error"
        /\ MapCallError("link") = "transport_error"
    BY <1>1, MapCodes
  <2> QED BY <1>1, <1>6, <2>1 DEF Dial, DialFails, SendFails, CallFails, Answer, Locations, Codes
<1>7. CASE BackendStep(r)
  <2>1. runs[r] \in {0, 1}
    BY <1>1, Numbers DEF CallInv
  <2> QED BY <1>1, <1>7, <2>1 DEF BackendStep, Dispatch, Reject
<1>8. CASE CallReturns(r) \/ CallCut(r) \/ CallAborted(r)
  <2>1. UNCHANGED client /\ res'[r] \in Codes \cup {"ok"}
    BY <1>1, <1>8, ReplySteps
  <2>2. /\ pc' \in [Requests -> Locations] /\ DOMAIN res' = Requests
        /\ res' \in [Requests -> {res[q] : q \in Requests} \cup {res'[r]}]
    BY <1>1, <1>8 DEF CallReturns, CallCut, CallAborted, CallFails, Answer, Locations
  <2>3. reply' \in [Requests -> Sizes \cup {-1}]
    BY <1>1, <1>8 DEF CallReturns, CallCut, CallAborted, CallFails, Answer
  <2>4. UNCHANGED <<inVars, callCtx, netVars>>
    BY <1>8 DEF CallReturns, CallCut, CallAborted
  <2>5. res' \in [Requests -> Codes \cup {"ok", "none"}]
    BY <1>1, <2>1, <2>2
  <2> QED BY <1>1, <2>1, <2>2, <2>3, <2>4, <2>5
<1>9. CASE CloseClient(r) \/ Release(r) \/ Return(r)
  BY <1>1, <1>9 DEF CloseClient, Release, Return, Locations
<1>10. CASE Cancel(r) \/ Expire(r)
  BY <1>1, <1>10 DEF Cancel, Expire, CtxErrors
<1> QED BY <1>2, <1>3, <1>4, <1>5, <1>6, <1>7, <1>8, <1>9, <1>10 DEF CallerStep

-----------------------------------------------------------------------------
(* Theorems.                                                               *)

\* No request has come in and no slot is taken at the start.
LEMMA InitIndInv == Init => IndInv
<1> SUFFICES ASSUME Init PROVE IndInv
  OBVIOUS
<1>1. TypeOK
  <2>1. MaxConcurrent \in Nat
    BY ProxyAssumption
  <2>2. limitCh \in 0..MaxConcurrent
    BY <2>1 DEF Init
  <2>3. LocalTypeOK
    BY DEF Init, LocalTypeOK, Locations, CtxErrors
  <2> QED BY <2>2, <2>3 DEF TypeOK
<1>2. Holders = {}
  BY DEF Init, Holders
<1>3. limitCh = Cardinality(Holders)
  BY <1>2, FS_EmptySet DEF Init
<1>4. ASSUME NEW r \in Requests PROVE CallInv(r)
  <2>1. ~Reached(r)
    BY DEF Init, Reached
  <2> QED BY <2>1 DEF Init, CallInv, StageInv, ReachedInv
<1> QED BY <1>1, <1>3, <1>4 DEF IndInv, SlotsMatch, RunsAtMostOnce, CallInv

\* The slots change with their holders, the calls as the steps above say.
LEMMA NextIndInv == IndInv /\ [Next]_vars => IndInv'
<1> SUFFICES ASSUME IndInv, [Next]_vars PROVE IndInv'
  OBVIOUS
<1>1. TypeOK /\ RunsAtMostOnce /\ (MaxConcurrent > 0 => limitCh = Cardinality(Holders))
  BY DEF IndInv, SlotsMatch
<1>2. ASSUME NEW r \in Requests, CallerStep(r) \/ BackendStep(r) PROVE IndInv'
  <2>1. RunsAtMostOnce'
    BY <1>1, <1>2, StepCallInv
  <2>2. LocalTypeOK'
    BY <1>1, <1>2, TypeStep
  <2>3. limitCh' \in 0..MaxConcurrent /\ (MaxConcurrent > 0 => limitCh' = Cardinality(Holders'))
    BY <1>1, <1>2, SlotStep, NoSlotStep
  <2> QED BY <2>1, <2>2, <2>3 DEF IndInv, SlotsMatch, TypeOK
<1>3. CASE UNCHANGED vars
  <2> USE <1>3 DEF vars, inVars, netVars
  <2>1. TypeOK' /\ Holders' = Holders
    BY <1>1 DEF TypeOK, LocalTypeOK, Holders
  <2>2. \A q \in Requests : Same(q) /\ CallInv(q)
    BY <1>1 DEF Same, RunsAtMostOnce, CallInv
  <2>3. RunsAtMostOnce'
    BY <2>2, SameCallInv DEF RunsAtMostOnce, CallInv
  <2> QED BY <1>1, <2>1, <2>3 DEF IndInv, SlotsMatch
<1> QED BY <1>2, <1>3, NextSteps

\* What holds of every request at every stage.
THEOREM Invariance == Spec => []IndInv
  BY InitIndInv, NextIndInv, PTL DEF Spec

\* limitCh counts exactly the requests that hold a slot.
THEOREM SlotsAreCounted == Spec => []SlotsMatch
<1>1. IndInv => SlotsMatch  BY DEF IndInv
<1> QED BY <1>1, Invariance, PTL

\* No request is sent twice, and each is known to its backend only after every
\* check has passed and over the one transport of its client.
THEOREM CallsRunOnce == Spec => []RunsAtMostOnce
<1>1. IndInv => RunsAtMostOnce  BY DEF IndInv
<1> QED BY <1>1, Invariance, PTL

\* Never more clients than slots, and none after its request has returned.
THEOREM ClientsAreBounded == Spec => []ClientsBounded
<1>1. IndInv => ClientsBounded
  <2> SUFFICES ASSUME IndInv PROVE ClientsBounded
    OBVIOUS
  <2>1. \A r \in Open : pc[r] \in {"call", "write", "wait", "close"}
    BY DEF Open, IndInv, RunsAtMostOnce, StageInv
  <2>2. Open \subseteq Holders
    BY <2>1 DEF Open, Holders
  <2>3. Cardinality(Open) \in Nat /\ Cardinality(Open) <= Cardinality(Holders)
    BY <2>2, HoldersFinite, FS_Subset, FS_CardinalityType
  <2>4. limitCh \in 0..MaxConcurrent /\ MaxConcurrent \in Nat
        /\ (MaxConcurrent > 0 => limitCh = Cardinality(Holders))
    BY ProxyAssumption DEF IndInv, SlotsMatch, TypeOK
  <2>5. MaxConcurrent > 0 => Cardinality(Open) <= MaxConcurrent
    BY <2>3, <2>4
  <2> QED BY <2>1, <2>5 DEF ClientsBounded
<1> QED BY <1>1, Invariance, PTL

\* The backend sees the identity that the auth middleware established.
THEOREM IdentityIsTrusted == Spec => []IdentityTrusted
<1>1. IndInv => IdentityTrusted
  <2> SUFFICES ASSUME IndInv, NEW r \in Requests, Reached(r)
               PROVE  /\ DOMAIN passed[r] \subseteq IdentityHeaderKeys
                      /\ \A k \in IdentityHeaderKeys : Inbound[r][k] # <<>> =>
                            k \in DOMAIN passed[r] /\ passed[r][k] = Inbound[r][k]
    BY DEF IdentityTrusted
  <2>1. passed[r] = IdentityHeaders(Metadata[r], Inbound[r])
    BY DEF IndInv, RunsAtMostOnce, ReachedInv
  <2> QED BY <2>1 DEF IdentityHeaders
<1> QED BY <1>1, Invariance, PTL

\* The backend forgets nothing.
LEMMA BackendGrows ==
  ASSUME TypeOK, NEW r \in Requests, CallerStep(r) \/ BackendStep(r), NEW q \in Requests
  PROVE  (runs[q] > 0 => runs'[q] > 0) /\ (q \in rejected => q \in rejected')
<1>1. runs[q] \in Nat /\ runs \in [Requests -> 0..2]
  BY Numbers DEF TypeOK, LocalTypeOK
<1>2. CASE BackendStep(r)
  BY <1>1, <1>2 DEF BackendStep, Dispatch, Reject
<1>3. CASE CallerStep(r)
  BY <1>3 DEF CallerStep, Validate, Enter, Acquire, LimitTimeout, NewClient, NewClientFail,
     Dial, DialFails, SendRequest, SendFails, CallReturns, CallCut, CallAborted, CloseClient,
     Release, Return, Cancel, Expire, netVars
<1> QED BY <1>2, <1>3

\* Only CallReturns answers with "ok" or with an error of the backend.
LEMMA AnswerStep ==
  ASSUME TypeOK, NEW r \in Requests, CallInv(r), CallerStep(r) \/ BackendStep(r)
  PROVE  \/ res'[r] = res[r] /\ reply'[r] = reply[r]
         \/ res'[r] \notin {"ok", "backend_error"}
         \/ res'[r] = "backend_error" /\ (runs[r] > 0 \/ r \in rejected)
         \/ res'[r] = "ok" /\ runs[r] > 0 /\ reply'[r] <= PayloadLimit
<1> USE DEF TypeOK, LocalTypeOK, Answer
<1>1. CASE \/ Acquire(r) \/ NewClient(r) \/ Dial(r) \/ SendRequest(r) \/ BackendStep(r)
           \/ CloseClient(r) \/ Release(r) \/ Return(r) \/ Cancel(r) \/ Expire(r)
  BY <1>1 DEF Acquire, NewClient, Dial, SendRequest, BackendStep, Dispatch, Reject, CloseClient,
     Release, Return, Cancel, Expire
<1>2. CASE Validate(r)
  BY <1>2, RefusalCodes DEF Validate, Refusals
<1>3. CASE Enter(r)
  BY <1>3 DEF Enter
<1>4. CASE LimitTimeout(r) \/ NewClientFail(r)
  BY <1>4 DEF LimitTimeout, NewClientFail
<1>5. callCtx[r] # "live" => MapCallError(callCtx[r]) = "transport_error"
  BY MapCodes
<1>6. CASE DialFails(r) \/ SendFails(r)
  BY <1>5, <1>6, MapCodes DEF DialFails, SendFails, CallFails
<1>7. CASE CallAborted(r)
  BY <1>5, <1>7 DEF CallAborted, CallFails
<1>8. CASE CallCut(r)
  BY <1>8, MapCodes DEF CallCut, CallFails
<1>9. CASE CallReturns(r)
  <2>1. CASE (r \in rejected \/ runs[r] > 0) /\ CallFails(r, "server")
    BY <2>1, MapCodes DEF CallFails
  <2>2. ASSUME NEW n \in Sizes, NEW d \in BOOLEAN, runs[r] > 0,
               Answer(r, ReplyCode(r, n, d), "close"), reply' = [reply EXCEPT ![r] = n]
        PROVE  \/ res'[r] \notin {"ok", "backend_error"}
               \/ res'[r] = "ok" /\ runs[r] > 0 /\ reply'[r] <= PayloadLimit
    <3>0. Sizes \subseteq Nat
      BY ProxyAssumption
    <3>1. n \in Int /\ PayloadLimit \in Int
      BY <3>0, Numbers
    <3>2. res'[r] = ReplyCode(r, n, d) /\ reply'[r] = n
      BY <2>2
    <3> QED BY <1>5, <2>2, <3>1, <3>2, MapCodes DEF ReplyCode
  <2> QED BY <1>9, <2>1, <2>2 DEF CallReturns
<1> QED BY <1>1, <1>2, <1>3, <1>4, <1>6, <1>7, <1>8, <1>9 DEF CallerStep

\* An answer is never invented: what it says of the backend is true.
AnswersInv == \A r \in Requests :
    /\ res[r] = "ok" => runs[r] > 0 /\ reply[r] <= PayloadLimit
    /\ res[r] = "backend_error" => runs[r] > 0 \/ r \in rejected

\* An answer is given once, from what the backend did before.
LEMMA NextAnswers == IndInv /\ AnswersInv /\ [Next]_vars => AnswersInv'
<1> SUFFICES ASSUME IndInv, AnswersInv, [Next]_vars PROVE AnswersInv'
  OBVIOUS
<1>1. TypeOK /\ \A q \in Requests : CallInv(q)
  BY DEF IndInv, SlotsMatch, RunsAtMostOnce, CallInv
<1>2. PayloadLimit' = PayloadLimit
  BY DEF PayloadLimit
<1>3. ASSUME NEW r \in Requests, CallerStep(r) \/ BackendStep(r) PROVE AnswersInv'
  <2>1. AnswersInv!(r)'
    BY <1>1, <1>2, <1>3, AnswerStep, BackendGrows DEF AnswersInv
  <2>2. ASSUME NEW q \in Requests, q # r PROVE AnswersInv!(q)'
    <3>1. Same(q)
      BY <1>1, <1>3, <2>2, OthersSame
    <3> QED BY <1>2, <3>1 DEF AnswersInv, Same
  <2> QED BY <2>1, <2>2 DEF AnswersInv
<1>4. CASE UNCHANGED vars
  BY <1>4 DEF vars, netVars, AnswersInv
<1> QED BY <1>3, <1>4, NextSteps

\* What a code says of the backend is true, now and later.
THEOREM CodesAreTruthful == Spec => []CodesTruthful
<1>1. Init => AnswersInv
  BY DEF Init, AnswersInv
<1>2. IndInv /\ AnswersInv => CodesTruthful
  <2> SUFFICES ASSUME IndInv, AnswersInv, NEW r \in Requests PROVE CodesTruthful!(r)
    BY DEF CodesTruthful
  <2>1. TypeOK /\ CallInv(r) /\ AnswersInv!(r)
    BY DEF IndInv, SlotsMatch, RunsAtMostOnce, CallInv, AnswersInv
  <2>2. PayloadLimit \in Int /\ size[r] \in Nat
    BY <2>1, Numbers
  <2>3. res[r] \in Refusals \/ size[r] > PayloadLimit => ~Reached(r)
    BY <2>1, <2>2 DEF CallInv, ReachedInv
  <2>4. res[r] \in {"ok", "backend_error"} => TransportOf(r) \in TargetOf(r).speaks
    BY <2>1 DEF CallInv, ReachedInv
  <2> QED BY <2>1, <2>3, <2>4
<1> QED BY <1>1, <1>2, NextAnswers, Invariance, PTL DEF Spec

\* Without time the checks, the limits and the context are all that answers.
TimelessInv == timeout <= 0 => \A r \in Requests :
    res[r] \in Refusals \cup {"none", "transport_error", "payload_too_large"}

\* Without time no reply is waited for, so no answer comes of one.
LEMMA NextTimeless == IndInv /\ TimelessInv /\ [Next]_vars => TimelessInv'
<1> SUFFICES ASSUME IndInv, TimelessInv, [Next]_vars PROVE TimelessInv'
  OBVIOUS
<1>1. TypeOK /\ \A q \in Requests : CallInv(q)
  BY DEF IndInv, SlotsMatch, RunsAtMostOnce, CallInv
<1>2. CASE UNCHANGED vars
  BY <1>2 DEF vars, inVars, TimelessInv
<1>3. ASSUME NEW r \in Requests, CallerStep(r) \/ BackendStep(r), timeout <= 0
      PROVE  res'[r] \in Refusals \cup {"none", "transport_error", "payload_too_large"}
  <2> USE DEF TypeOK, LocalTypeOK, Answer
  <2>0. res[r] \in Refusals \cup {"none", "transport_error", "payload_too_large"}
    BY <1>3 DEF TimelessInv
  <2>1. pc[r] \notin {"write", "wait"}
    BY <1>1, <1>3 DEF CallInv, StageInv
  <2>2. CASE \/ Acquire(r) \/ NewClient(r) \/ Dial(r) \/ BackendStep(r)
             \/ CloseClient(r) \/ Release(r) \/ Return(r) \/ Cancel(r) \/ Expire(r)
    BY <2>0, <2>2 DEF Acquire, NewClient, Dial, BackendStep, Dispatch, Reject,
       CloseClient, Release, Return, Cancel, Expire
  <2>3. CASE Validate(r)
    BY <1>1, <2>0, <2>3, RefusalCodes DEF Validate
  <2>4. CASE Enter(r) \/ LimitTimeout(r) \/ NewClientFail(r)
    BY <1>1, <2>0, <2>4 DEF Enter, LimitTimeout, NewClientFail
  <2>5. CASE DialFails(r)
    <3>1. MapCallError(IF callCtx[r] = "live" THEN "link" ELSE callCtx[r]) = "transport_error"
      BY <1>1, MapCodes
    <3> QED BY <1>1, <2>5, <3>1 DEF DialFails, CallFails
  <2> QED BY <1>3, <2>1, <2>2, <2>3, <2>4, <2>5
          DEF CallerStep, SendRequest, SendFails, CallReturns, CallCut, CallAborted
<1>4. ASSUME NEW r \in Requests, CallerStep(r) \/ BackendStep(r) PROVE TimelessInv'
  <2>1. \A q \in Requests : q # r => res'[q] = res[q]
    BY <1>1, <1>4, OthersSame DEF Same
  <2>2. timeout' = timeout
    BY <1>4 DEF CallerStep, BackendStep, Validate, Enter, Acquire, LimitTimeout, NewClient,
       NewClientFail, Dial, DialFails, SendRequest, SendFails, Dispatch, Reject, CallReturns,
       CallCut, CallAborted, CloseClient, Release, Return, Cancel, Expire, inVars
  <2> QED BY <1>3, <1>4, <2>1, <2>2 DEF TimelessInv
<1> QED BY <1>2, <1>4, NextSteps

\* No request ever leaves the proxy, and all that passed the checks fail alike,
\* though slots and clients are still taken.
NeverCalls == \A r \in Requests :
    /\ ~Reached(r)
    /\ res[r] \in Refusals \cup {"none", "transport_error", "payload_too_large"}

\* A timeout of zero or less does not leave the default in force, as the comment
\* on InvokerWithCallTimeout has it: the invoker is unable to call anything.
THEOREM NoTimeMeansNoCall == Spec => [](timeout <= 0 => NeverCalls)
<1>1. Init => TimelessInv
  BY DEF Init, TimelessInv
<1>2. IndInv /\ TimelessInv => (timeout <= 0 => NeverCalls)
  <2> SUFFICES ASSUME IndInv, TimelessInv, timeout <= 0, NEW r \in Requests PROVE ~Reached(r)
    BY DEF TimelessInv, NeverCalls
  <2>1. timeout \in Int
    BY Numbers DEF IndInv, SlotsMatch
  <2>2. Reached(r) => timeout > 0
    BY DEF IndInv, RunsAtMostOnce, ReachedInv
  <2> QED BY <2>1, <2>2
<1> QED BY <1>1, <1>2, NextTimeless, Invariance, PTL DEF Spec
=============================================================================
