----------------------------- MODULE JSONBudget -----------------------------
(***************************************************************************)
(* The size limit of the JSON codecs (v3/codec): how many bytes of a       *)
(* stream a reader holds, accepts and refuses.                             *)
(*                                                                         *)
(* A json.Decoder sits on a budgetReader.  The budget is filled up before  *)
(* every Decode and charged for what the decoder reads, but the decoder    *)
(* reads ahead: bytes of the next message are charged to this one and are  *)
(* free for the next.  The codecs with a key read a body by another way:   *)
(* first what the JSON decoder has buffered, then the connection, through  *)
(* a second budget that is charged for both.                               *)
(*                                                                         *)
(* A message is the number of bytes that must be there to decode it.  The  *)
(* peer sends what it likes, in pieces of any size; it may stop or vanish. *)
(***************************************************************************)
EXTENDS Integers

CONSTANTS
    DefaultMaxJSONBody,   \* the codecs' own limit
    Options,              \* limits that a codec may be created with
    MagicLen,             \* length of the prefix of an encrypted body
    Sizes                 \* bound: sizes of messages

ASSUME BudgetAssumption ==
    /\ DefaultMaxJSONBody \in Nat \ {0}
    /\ Options \subseteq Int
    /\ MagicLen \in Nat
    /\ Sizes \subseteq Nat \ {0}

VARIABLES
    crypto,     \* the codec has a key
    maxBody,    \* limit of the codec
    left,       \* what remains of the budget of the connection
    buf,        \* bytes that the decoder has read and not consumed
    at,         \* the message being decoded: "header" or "body"
    need,       \* bytes it takes to decode it
    extra,      \* of these, bytes that only show its end and are not consumed
    used,       \* bytes the decoder of an encrypted body has taken
    state,      \* "open", "refused" (ErrBodyTooLarge), "ended", "skewed"
    accepted    \* history: size of the largest message of each sort decoded

vars == <<crypto, maxBody, left, buf, at, need, extra, used, state, accepted>>

\* Faulty variant of Limit: the option is taken as it is.
LimitAsGiven(option) == option

\* The codecs' constructors: a limit that is not positive is the default.
Limit(option) == IF option <= 0 THEN DefaultMaxJSONBody ELSE option

\* The message that is being decoded is read by decodeCryptoBodySource.
Encrypted == crypto /\ at = "body"
\* What is left of the budget that decodeCryptoBodySource makes for one body.
Inner == maxBody - used

\* Types; a budget is never overdrawn.
TypeOK ==
    /\ crypto \in BOOLEAN
    /\ maxBody \in Nat \ {0}
    /\ left \in 0..maxBody
    /\ buf \in Nat
    /\ at \in {"header", "body"}
    /\ need \in Nat \ {0}
    /\ extra \in 0..1 /\ extra <= need
    /\ used \in 0..maxBody
    /\ state \in {"open", "refused", "ended", "skewed"}
    /\ accepted \in [{"plain", "encrypted"} -> Nat]

\* Faulty variant of Expect: the budget is filled up for headers only, so a
\* call shares one.
ExpectPerCall(part, lead, size, tail) ==
    /\ left' = IF part = "header" THEN maxBody ELSE left
    /\ at' = part
    /\ need' = lead + size + tail
    /\ extra' = tail
    /\ used' = 0

\* The next call of ReadRequestHeader, ReadRequestBody or of their mirrors:
\* resetBudget.  json.Encoder ends every message with a separator that the
\* decoder of the next one skips (lead); a number, a string or a literal
\* ends where the byte behind it says so (tail).
Expect(part, lead, size, tail) ==
    /\ left' = maxBody
    /\ at' = part
    /\ need' = lead + size + tail
    /\ extra' = tail
    /\ used' = 0

Init ==
    /\ crypto \in BOOLEAN
    /\ maxBody \in {Limit(o) : o \in Options}
    /\ left = maxBody
    /\ buf = 0
    /\ at = "header"
    /\ need \in Sizes
    /\ extra = 0
    /\ used = 0
    /\ state = "open"
    /\ accepted = [s \in {"plain", "encrypted"} |-> 0]

-----------------------------------------------------------------------------
\* Faulty variant of Read: the buffer is not cut to the budget.
ReadUncut(n) ==
    /\ left > 0
    /\ n <= 2 * maxBody
    /\ left' = left - n

\* budgetReader.Read: at most what is left, and nothing when nothing is left.
Read(n) ==
    /\ left > 0
    /\ n <= left
    /\ left' = left - n

\* json.Decoder lacks bytes of a message and reads n.
Refill(n) ==
    /\ state = "open" /\ ~Encrypted
    /\ buf < need
    /\ Read(n)
    /\ buf' = buf + n
    /\ UNCHANGED <<crypto, maxBody, at, need, extra, used, state, accepted>>

\* The message that was decoded is in the books.
Accept(sort) == accepted' =
    [accepted EXCEPT ![sort] = IF need > @ THEN need ELSE @]

\* json.Decoder has a whole value: the codec goes on with the next message.
\* Headers are objects; bodies are values of any sort, encrypted ones begin
\* with the prefix.
Decode ==
    /\ state = "open" /\ ~Encrypted
    /\ buf >= need
    /\ buf' = buf - (need - extra)
    /\ Accept("plain")
    /\ \E size \in Sizes, tail \in {0, 1} :
          IF at = "body"
          THEN tail = 0 /\ Expect("header", 1, size, 0)
          ELSE IF crypto
               THEN tail = 0 /\ Expect("body", 1 + MagicLen, size, 0)
               ELSE Expect("body", 1, size, tail)
    /\ UNCHANGED <<crypto, maxBody, state>>

\* The budget is used up and the value is not complete: ErrBodyTooLarge, which
\* the decoder returns from then on.
TooLarge ==
    /\ state = "open" /\ ~Encrypted
    /\ buf < need /\ left = 0
    /\ state' = "refused"
    /\ UNCHANGED <<crypto, maxBody, left, buf, at, need, extra, used, accepted>>

\* Faulty variant of ReadBody: no budget of its own for the body, only that of
\* the connection.
ReadBodyOuter(n) ==
    /\ state = "open" /\ Encrypted
    /\ used < need
    /\ n = 1 \/ used > MagicLen
    /\ IF buf > 0
       THEN n <= buf /\ buf' = buf - n /\ UNCHANGED left
       ELSE Read(n) /\ UNCHANGED buf
    /\ used' = used + n
    /\ UNCHANGED <<crypto, maxBody, at, need, extra, state, accepted>>

\* readCryptoBodySource reads n bytes through its own budget: the prefix byte
\* by byte, the blob in pieces; one read returns from one source, the rest of
\* the JSON decoder's buffer or the connection.
ReadBody(n) ==
    /\ state = "open" /\ Encrypted
    /\ used < need
    /\ n = 1 \/ used > MagicLen
    /\ n <= Inner
    /\ IF buf > 0
       THEN n <= buf /\ buf' = buf - n /\ UNCHANGED left
       ELSE Read(n) /\ UNCHANGED buf
    /\ used' = used + n
    /\ UNCHANGED <<crypto, maxBody, at, need, extra, state, accepted>>

\* The blob is complete.  What was read beyond it is lost with its decoder
\* (CodecStream follows that); the rest of the buffer is for the new decoder.
DecodeBody ==
    /\ state = "open" /\ Encrypted
    /\ used >= need
    /\ Accept("encrypted")
    /\ state' = IF used > need THEN "skewed" ELSE state
    /\ \E size \in Sizes : Expect("header", 1, size, 0)
    /\ UNCHANGED <<crypto, maxBody, buf>>

\* A budget is used up before the blob is complete: ErrBodyTooLarge.  The rest
\* of the blob, which is no header, ends the session.
BodyTooLarge ==
    /\ state = "open" /\ Encrypted
    /\ used < need
    /\ Inner = 0 \/ (buf = 0 /\ left = 0)
    /\ state' = "refused"
    /\ UNCHANGED <<crypto, maxBody, left, buf, at, need, extra, used, accepted>>

\* The connection ends while bytes are missing.
ConnEnds ==
    /\ state = "open"
    /\ IF Encrypted THEN used < need /\ buf = 0 ELSE buf < need
    /\ state' = "ended"
    /\ UNCHANGED <<crypto, maxBody, left, buf, at, need, extra, used, accepted>>

Next == \/ \E n \in 1..(2 * maxBody) : Refill(n) \/ ReadBody(n)
        \/ Decode \/ TooLarge \/ DecodeBody \/ BodyTooLarge \/ ConnEnds

Spec == Init /\ [][Next]_vars
-----------------------------------------------------------------------------
(* Properties.                                                             *)

\* A peer cannot make a codec hold more than twice the limit, whatever it
\* sends: "without the limit a hostile stream can exhaust the memory".
MemoryBounded == buf + used <= 2 * maxBody

\* The size limit in force, separators included: twice the limit for a message
\* that json.Decoder reads, because of what it has read ahead; exactly the
\* limit, prefix included, for an encrypted body.
AcceptedBounded == /\ accepted["plain"] <= 2 * maxBody
                   /\ accepted["encrypted"] <= maxBody

\* A message within the limit, separators and prefix included, is never
\* refused, whatever was read before it: "the limit is for one message, not
\* for the stream as a whole".
NoFalseRefusal == state = "refused" => need > maxBody

\* Why these hold.  What one Decode reads ahead is at
\* most one budget, and what was read ahead never costs the next message any
\* of its own; for an encrypted body the budget of the connection outlasts the
\* body's.
BudgetInv ==
    IF Encrypted
    THEN /\ buf + used <= 2 * maxBody
         /\ buf <= maxBody
         /\ left >= Inner
    ELSE /\ buf + left <= 2 * maxBody
         /\ left = maxBody \/ buf + left < need + maxBody
         /\ buf + left >= maxBody
         /\ used = 0

\* The inductive invariant: the size limit works for every stream.
IndInv == TypeOK /\ BudgetInv /\ AcceptedBounded /\ NoFalseRefusal
=============================================================================
