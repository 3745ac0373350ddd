-------------------------- MODULE JSONBudgetProofs --------------------------
(***************************************************************************)
(* The size limit of the JSON codecs, proved for every limit and for       *)
(* messages of every size.  BudgetInv is inductive together with TypeOK    *)
(* and with what was accepted and refused so far.                          *)
(***************************************************************************)
EXTENDS JSONBudget, TLAPS

\* A codec's limit is positive, whatever it was created with.
LEMMA LimitPositive ==
    ASSUME NEW o \in Options
    PROVE  Limit(o) \in Nat \ {0}
BY BudgetAssumption DEF Limit

\* The first message finds a full budget and an empty buffer.
LEMMA InitInv == Init => IndInv
<1> SUFFICES ASSUME Init PROVE IndInv
  OBVIOUS
<1>1. maxBody \in Nat \ {0}
  BY LimitPositive DEF Init
<1>2. TypeOK
  BY <1>1, BudgetAssumption DEF Init, TypeOK
<1>3. BudgetInv /\ AcceptedBounded /\ NoFalseRefusal
  BY <1>1 DEF Init, BudgetInv, AcceptedBounded, NoFalseRefusal, Encrypted
<1> QED
  BY <1>2, <1>3 DEF IndInv

\* json.Decoder reads: the bytes move from the budget to the buffer.
LEMMA RefillStep ==
    ASSUME IndInv, NEW n \in 1..(2 * maxBody), Refill(n)
    PROVE  IndInv'
<1>1. TypeOK'
  BY DEF IndInv, TypeOK, Refill, Read
<1>2. BudgetInv'
  BY DEF IndInv, TypeOK, BudgetInv, Refill, Read, Encrypted, Inner
<1>3. AcceptedBounded' /\ NoFalseRefusal'
  BY DEF IndInv, TypeOK, AcceptedBounded, NoFalseRefusal, Refill, Read
<1> QED
  BY <1>1, <1>2, <1>3 DEF IndInv

\* An encrypted body is read through both budgets.
LEMMA ReadBodyStep ==
    ASSUME IndInv, NEW n \in 1..(2 * maxBody), ReadBody(n)
    PROVE  IndInv'
<1>1. TypeOK'
  BY DEF IndInv, TypeOK, ReadBody, Read, Inner
<1>2. BudgetInv'
  BY DEF IndInv, TypeOK, BudgetInv, ReadBody, Read, Encrypted, Inner
<1>3. AcceptedBounded' /\ NoFalseRefusal'
  BY DEF IndInv, TypeOK, AcceptedBounded, NoFalseRefusal, ReadBody, Read
<1> QED
  BY <1>1, <1>2, <1>3 DEF IndInv

\* What Decode leaves behind for the next message.
LEMMA DecodeStep == ASSUME IndInv, Decode PROVE IndInv'
<1> PICK size \in Sizes, tail \in {0, 1} :
        IF at = "body"
        THEN tail = 0 /\ Expect("header", 1, size, 0)
        ELSE IF crypto
             THEN tail = 0 /\ Expect("body", 1 + MagicLen, size, 0)
             ELSE Expect("body", 1, size, tail)
  BY DEF Decode
<1> size \in Nat \ {0} /\ MagicLen \in Nat
  BY BudgetAssumption
\* The next message begins with a full budget.
<1>1. /\ left' = maxBody /\ used' = 0
      /\ at' \in {"header", "body"}
      /\ need' \in Nat \ {0}
      /\ extra' \in 0..1 /\ extra' <= need'
  BY DEF Expect
<1>2. /\ buf' = buf - (need - extra) /\ buf >= need
      /\ ~Encrypted /\ state = "open"
      /\ UNCHANGED <<crypto, maxBody, state>>
  BY DEF Decode
\* What was read ahead is at most one budget.
<1>3. buf' \in 0..maxBody
  BY <1>2 DEF IndInv, TypeOK, BudgetInv
<1>4. /\ accepted' \in [{"plain", "encrypted"} -> Nat]
      /\ accepted'["plain"] <= 2 * maxBody
      /\ accepted'["encrypted"] <= maxBody
  <2>1. need <= 2 * maxBody
    BY <1>2 DEF IndInv, TypeOK, BudgetInv
  <2> QED
    BY <2>1 DEF Decode, Accept, IndInv, TypeOK, AcceptedBounded
<1>5. TypeOK'
  BY <1>1, <1>2, <1>3, <1>4 DEF IndInv, TypeOK
<1>6. BudgetInv'
  BY <1>1, <1>2, <1>3 DEF IndInv, TypeOK, BudgetInv, Encrypted, Inner
<1>7. AcceptedBounded' /\ NoFalseRefusal'
  BY <1>2, <1>4 DEF AcceptedBounded, NoFalseRefusal
<1> QED
  BY <1>5, <1>6, <1>7 DEF IndInv

\* After an encrypted body the rest of the buffer is for the next header.
LEMMA DecodeBodyStep == ASSUME IndInv, DecodeBody PROVE IndInv'
<1> PICK size \in Sizes : Expect("header", 1, size, 0)
  BY DEF DecodeBody
<1> size \in Nat \ {0}
  BY BudgetAssumption
<1>1. /\ left' = maxBody /\ used' = 0 /\ at' = "header"
      /\ need' \in Nat \ {0} /\ extra' = 0
  BY DEF Expect
<1>2. /\ UNCHANGED <<crypto, maxBody, buf>>
      /\ Encrypted /\ state = "open" /\ used >= need
      /\ state' \in {"open", "skewed"}
  BY DEF DecodeBody
<1>3. /\ accepted' \in [{"plain", "encrypted"} -> Nat]
      /\ accepted'["plain"] <= 2 * maxBody
      /\ accepted'["encrypted"] <= maxBody
  <2>1. need <= maxBody
    BY <1>2 DEF IndInv, TypeOK
  <2> QED
    BY <2>1 DEF DecodeBody, Accept, IndInv, TypeOK, AcceptedBounded
<1>4. TypeOK'
  BY <1>1, <1>2, <1>3 DEF IndInv, TypeOK
<1>5. BudgetInv'
  BY <1>1, <1>2 DEF IndInv, TypeOK, BudgetInv, Encrypted, Inner
<1>6. AcceptedBounded' /\ NoFalseRefusal'
  BY <1>2, <1>3 DEF AcceptedBounded, NoFalseRefusal
<1> QED
  BY <1>4, <1>5, <1>6 DEF IndInv

\* A refusal, and the end of the connection, change nothing but the state.
LEMMA EndStep == ASSUME IndInv, TooLarge \/ BodyTooLarge \/ ConnEnds PROVE IndInv'
<1>1. CASE TooLarge
  <2>1. need > maxBody
    BY <1>1 DEF TooLarge, IndInv, TypeOK, BudgetInv
  <2> QED
    BY <1>1, <2>1 DEF TooLarge, IndInv, TypeOK, BudgetInv, AcceptedBounded,
                      NoFalseRefusal, Encrypted, Inner
<1>2. CASE BodyTooLarge
  <2>1. need > maxBody
    BY <1>2 DEF BodyTooLarge, IndInv, TypeOK, BudgetInv, Inner
  <2> QED
    BY <1>2, <2>1 DEF BodyTooLarge, IndInv, TypeOK, BudgetInv, AcceptedBounded,
                      NoFalseRefusal, Encrypted, Inner
<1>3. CASE ConnEnds
  BY <1>3 DEF ConnEnds, IndInv, TypeOK, BudgetInv, AcceptedBounded,
              NoFalseRefusal, Encrypted, Inner
<1> QED
  BY <1>1, <1>2, <1>3

\* Every step preserves the invariant.
LEMMA NextInv == IndInv /\ [Next]_vars => IndInv'
<1> SUFFICES ASSUME IndInv, [Next]_vars PROVE IndInv'
  OBVIOUS
<1>1. CASE \E n \in 1..(2 * maxBody) : Refill(n) \/ ReadBody(n)
  BY <1>1, RefillStep, ReadBodyStep
<1>2. CASE Decode
  BY <1>2, DecodeStep
<1>3. CASE DecodeBody
  BY <1>3, DecodeBodyStep
<1>4. CASE TooLarge \/ BodyTooLarge \/ ConnEnds
  BY <1>4, EndStep
<1>5. CASE UNCHANGED vars
  BY <1>5 DEF vars, IndInv, TypeOK, BudgetInv, AcceptedBounded, NoFalseRefusal,
              Encrypted, Inner
<1> QED
  BY <1>1, <1>2, <1>3, <1>4, <1>5 DEF Next

\* The budgets work as BudgetInv says, for every limit and every stream.
THEOREM BudgetInductive == Spec => []IndInv
BY InitInv, NextInv, PTL DEF Spec

\* No stream makes a JSON codec hold more than twice its limit.
THEOREM MemoryIsBounded == Spec => []MemoryBounded
<1>1. IndInv => MemoryBounded
  BY DEF IndInv, TypeOK, BudgetInv, MemoryBounded, Encrypted
<1> QED
  BY <1>1, BudgetInductive, PTL

\* What the limit comes to for plain messages and for encrypted bodies.
THEOREM AcceptedIsBounded == Spec => []AcceptedBounded
<1>1. IndInv => AcceptedBounded
  BY DEF IndInv
<1> QED
  BY <1>1, BudgetInductive, PTL

\* A message within the limit is never refused.
THEOREM RefusalIsJust == Spec => []NoFalseRefusal
<1>1. IndInv => NoFalseRefusal
  BY DEF IndInv
<1> QED
  BY <1>1, BudgetInductive, PTL
=============================================================================
