------------------------- MODULE CodecStreamProofs --------------------------
(***************************************************************************)
(* Proofs about the codecs of a session, for any number of calls, any      *)
(* pipelining, any segmentation of the stream and a cut at any point.      *)
(*                                                                         *)
(* The types hold for all sessions.  What the codecs promise of messages   *)
(* is proved for sessions that are used as Sound says: StreamInv is        *)
(* inductive, and with it the next token of a reader that wants a body is  *)
(* known, from which the pairs and the keys follow.                        *)
(***************************************************************************)
EXTENDS CodecStream, SequenceTheorems, TLAPS

\* What the reader has not yet decoded, and all it has ever got.
Ready == buf \o wire
Seen  == taken \o buf \o wire

-----------------------------------------------------------------------------
(* Sequences.                                                              *)

\* A read that returns the first k elements of s, and what it leaves.
LEMMA CutSeq ==
  ASSUME NEW S, NEW s \in Seq(S), NEW k \in 0..Len(s)
  PROVE  /\ SubSeq(s, 1, k) \in Seq(S)
         /\ SubSeq(s, k + 1, Len(s)) \in Seq(S)
         /\ Len(SubSeq(s, 1, k)) = k
         /\ SubSeq(s, 1, k) \o SubSeq(s, k + 1, Len(s)) = s
<1>1. Len(s) \in Nat /\ k \in Nat /\ k <= Len(s) /\ \A i \in 1..Len(s) : s[i] \in S
  BY LenProperties, ElementOfSeq
<1>2. SubSeq(s, 1, k) \in Seq(S) /\ Len(SubSeq(s, 1, k)) = k
  BY <1>1, SubSeqProperties
<1>3. SubSeq(s, k + 1, Len(s)) \in Seq(S)
  BY <1>1, SubSeqProperties
<1>4. SubSeq(s, 1, k) \o SubSeq(s, k + 1, Len(s)) = SubSeq(s, 1, Len(s))
  <2>1. 1 \in 1..Len(s) + 1 /\ k \in 1 - 1..Len(s) /\ Len(s) \in k..Len(s)
    BY <1>1
  <2> QED BY <2>1, ConcatAdjacentSubSeq
<1> QED BY <1>2, <1>3, <1>4, SubSeqFull

\* Concatenation is associative on what the codecs send.
LEMMA TokensAssociate ==
  \A a, b, c \in Seq(Tokens) : (a \o b) \o c = a \o (b \o c)
<1> TAKE a, b, c \in Seq(Tokens)
<1> QED BY ConcatAssociative

\* The head of s moves to the end of t.
LEMMA MoveHead ==
  ASSUME NEW S, NEW s \in Seq(S), NEW t \in Seq(S), s # <<>>
  PROVE  /\ Head(s) \in S /\ Tail(s) \in Seq(S) /\ Len(Tail(s)) = Len(s) - 1
         /\ Append(t, Head(s)) \in Seq(S)
         /\ Len(Append(t, Head(s))) = Len(t) + 1
         /\ Append(t, Head(s))[Len(t) + 1] = Head(s)
         /\ Append(t, Head(s)) \o Tail(s) = t \o s
<1>1. Head(s) \in S /\ Tail(s) \in Seq(S) /\ Len(Tail(s)) = Len(s) - 1
  BY HeadTailProperties
<1>2. /\ Append(t, Head(s)) \in Seq(S)
      /\ Len(Append(t, Head(s))) = Len(t) + 1
      /\ Append(t, Head(s))[Len(t) + 1] = Head(s)
  BY <1>1, AppendProperties
<1>3. Append(t, Head(s)) = t \o <<Head(s)>> /\ <<Head(s)>> \in Seq(S)
  BY <1>1, AppendIsConcat
<1>4. <<Head(s)>> \o Tail(s) = s
  BY <1>1, HeadTailProperties
<1>5. (t \o <<Head(s)>>) \o Tail(s) = t \o (<<Head(s)>> \o Tail(s))
  BY <1>1, <1>3, ConcatAssociative
<1> QED BY <1>1, <1>2, <1>3, <1>4, <1>5

\* Concatenations of the reader's three buffers.
LEMMA Buffers ==
  ASSUME TypeOK
  PROVE  /\ Ready \in Seq(Tokens) /\ Seen \in Seq(Tokens)
         /\ Seen = taken \o Ready
         /\ Len(Ready) = Len(buf) + Len(wire)
         /\ Len(Seen) = Len(taken) + Len(Ready)
         /\ \A i \in 1..Len(taken) : Seen[i] = taken[i]
         /\ \A i \in 1..Len(Ready) : Seen[Len(taken) + i] = Ready[i]
<1>1. buf \in Seq(Tokens) /\ wire \in Seq(Tokens) /\ taken \in Seq(Tokens)
  BY DEF TypeOK
<1>2. Ready \in Seq(Tokens) /\ Len(Ready) = Len(buf) + Len(wire)
  BY <1>1, ConcatProperties DEF Ready
<1>3. Seen = taken \o Ready
  BY <1>1, ConcatAssociative DEF Seen, Ready
<1>4. /\ Seen \in Seq(Tokens) /\ Len(Seen) = Len(taken) + Len(Ready)
      /\ \A i \in 1 .. Len(taken) + Len(Ready) :
            Seen[i] = IF i <= Len(taken) THEN taken[i] ELSE Ready[i - Len(taken)]
  BY <1>1, <1>2, <1>3, ConcatProperties
<1>5. Len(taken) \in Nat /\ Len(Ready) \in Nat
  BY <1>1, <1>2, LenProperties
<1> QED BY <1>2, <1>3, <1>4, <1>5

-----------------------------------------------------------------------------
(* Types.                                                                  *)

\* A reader that has something to read and is past the sniffing uses the
\* writer's encoding.
LEMMA RightEncoding ==
  ASSUME TypeOK, reader # "unknown", buf # <<>> \/ wire # <<>>
  PROVE  reader = codec.enc
<1>1. Len(Seen) = 0 => Len(buf) = 0 /\ Len(wire) = 0
  BY Buffers, LenProperties DEF TypeOK
<1>2. Len(<<>>) = 0 /\ (Len(buf) = 0 => buf = <<>>) /\ (Len(wire) = 0 => wire = <<>>)
  BY EmptySeq DEF TypeOK
<1>3. Seen # <<>>
  BY <1>1, <1>2
<1> QED BY <1>3 DEF TypeOK, Seen

\* The call of a reader that wants a body.
LEMMA CurrentCall ==
  ASSUME TypeOK, at = "body"
  PROVE  /\ Len(taken) \in Nat \ {0} /\ taken[Len(taken)] \in Tokens
         /\ Current \in Calls
<1>1. Len(taken) \in Nat \ {0}
  BY EmptySeq DEF TypeOK
<1>2. taken[Len(taken)] \in Tokens
  BY <1>1, ElementOfSeq DEF TypeOK
<1> QED BY <1>1, <1>2 DEF Current, Tokens

\* A decoder that has something to decode.
LEMMA SomePulled ==
  ASSUME TypeOK, Len(buf) > rest
  PROVE  buf # <<>>
<1>1. Len(<<>>) = 0 /\ Len(buf) \in Nat /\ rest \in Nat
  BY EmptySeq, LenProperties DEF TypeOK
<1> QED BY <1>1

\* What the JSON decoder hands over, all of its buffer if nothing was put back.
LEMMA PulledTypes ==
  ASSUME TypeOK
  PROVE  /\ Pulled \in Seq(Tokens) /\ Len(Pulled) = Len(buf) - rest
         /\ Pulled \o wire \in Seq(Tokens)
         /\ Len(Pulled \o wire) = Len(Pulled) + Len(wire)
         /\ Pulled \o wire # <<>> => buf # <<>> \/ wire # <<>>
         /\ rest = 0 => Pulled = buf
<1>1. /\ buf \in Seq(Tokens) /\ wire \in Seq(Tokens)
      /\ Len(buf) \in Nat /\ Len(wire) \in Nat /\ rest \in 0..Len(buf)
  BY LenProperties DEF TypeOK
<1>2. Len(buf) - rest \in 0..Len(buf)
  BY <1>1
<1>3. Pulled \in Seq(Tokens) /\ Len(Pulled) = Len(buf) - rest
  BY <1>1, <1>2, CutSeq DEF Pulled
<1>4. /\ Pulled \o wire \in Seq(Tokens)
      /\ Len(Pulled \o wire) = Len(Pulled) + Len(wire)
  BY <1>1, <1>3, ConcatProperties
<1>5. ASSUME buf = <<>>, wire = <<>> PROVE Pulled \o wire = <<>>
  <2>1. Len(Pulled) = 0 /\ Len(wire) = 0
    <3>1. Len(<<>>) = 0
      BY EmptySeq
    <3> QED BY <1>1, <1>2, <1>3, <1>5, <3>1
  <2> QED BY <1>4, <2>1, EmptySeq
<1>6. ASSUME rest = 0 PROVE Pulled = buf
  <2>1. Len(buf) - rest = Len(buf)
    BY <1>1, <1>6
  <2>2. Pulled = SubSeq(buf, 1, Len(buf))
    BY <2>1 DEF Pulled
  <2> QED BY <1>1, <2>2, SubSeqFull
<1> QED BY <1>3, <1>4, <1>5, <1>6

\* What a step of the reader has to show.
LEMMA ReaderTypes ==
  ASSUME TypeOK, UNCHANGED wVars, reader' = codec.enc,
         wire' \in Seq(Tokens), buf' \in Seq(Tokens), taken' \in Seq(Tokens),
         at' \in {"header", "body", "closed"},
         at' = "body" => taken' # <<>>,
         rest' \in 0..Len(buf'), reader' # "json" => rest' = 0,
         pairs' \in Seq(Calls \X Calls), refused' \subseteq Calls
  PROVE  TypeOK'
  BY DEF TypeOK, wVars

\* What a step of the writer has to show.
LEMMA WriterTypes ==
  ASSUME TypeOK, UNCHANGED <<codec, rVars>>, conn = "up",
         written' \in 0..MaxCalls, encBuf' \in Seq(Tokens),
         wire' \in Seq(Tokens), flushed' \in Seq(Tokens),
         conn' \in {"up", "shut", "cut"}
  PROVE  TypeOK'
  BY DEF TypeOK, rVars

\* The tokens of a call.
LEMMA FrameTypes ==
  ASSUME NEW n \in Calls
  PROVE  Frame(n) \in Seq(Tokens) /\ Leftover(n) \in Seq(Tokens)
<1>1. Token("header", n) \in Tokens /\ Token("magic", n) \in Tokens /\ Token("body", n) \in Tokens
  BY DEF Token, Tokens
<1>2. /\ <<Token("header", n)>> \in Seq(Tokens) /\ <<Token("body", n)>> \in Seq(Tokens)
      /\ <<Token("magic", n), Token("body", n)>> \in Seq(Tokens) /\ <<>> \in Seq(Tokens)
  BY <1>1
<1>3. Leftover(n) \in Seq(Tokens)
  BY <1>2 DEF Leftover
<1> DEFINE tail == IF Seals THEN CryptoBody(n) ELSE <<Token("body", n)>>
<1>4. tail \in Seq(Tokens)
  BY <1>2 DEF CryptoBody
<1>5. <<Token("header", n)>> \o tail \in Seq(Tokens)
  BY <1>2, <1>4, ConcatProperties
<1> QED BY <1>3, <1>5 DEF Frame

\* The buffers of the writer after a flush.
LEMMA FlushTypes ==
  ASSUME TypeOK, NEW tokens \in Seq(Tokens), Flush(tokens)
  PROVE  wire' \in Seq(Tokens) /\ flushed' \in Seq(Tokens) /\ encBuf' \in Seq(Tokens)
<1>1. /\ wire \o encBuf \in Seq(Tokens) /\ flushed \o encBuf \in Seq(Tokens)
      /\ <<>> \in Seq(Tokens)
  BY ConcatProperties, EmptySeq DEF TypeOK
<1>2. /\ (wire \o encBuf) \o tokens \in Seq(Tokens)
      /\ (flushed \o encBuf) \o tokens \in Seq(Tokens)
  BY <1>1, ConcatProperties
<1> QED BY <1>1, <1>2 DEF Flush

\* The four ways to write, and a cut, keep the types.
LEMMA WriteTypes ==
  ASSUME TypeOK,
         WriteRequest \/ WriteResponse \/ WriteRequestFail \/ WriteResponseFail \/ Cut
  PROVE  TypeOK'
<1>0. MaxCalls \in Nat /\ written \in 0..MaxCalls
  BY StreamAssumption DEF TypeOK
<1>1. ASSUME NextCall
      PROVE  /\ conn = "up" /\ written' \in 0..MaxCalls
             /\ Frame(written + 1) \in Seq(Tokens) /\ Leftover(written + 1) \in Seq(Tokens)
  <2>1. written + 1 \in Calls /\ written' = written + 1 /\ conn = "up"
    BY <1>0, <1>1 DEF NextCall, Calls
  <2>2. written' \in 0..MaxCalls
    BY <1>0, <2>1 DEF Calls
  <2> QED BY <2>1, <2>2, FrameTypes
<1>2. CASE WriteRequest \/ WriteResponse
  <2>1. NextCall /\ Flush(Frame(written + 1)) /\ UNCHANGED <<codec, conn, rVars>>
    BY <1>2 DEF WriteRequest, WriteResponse
  <2>2. wire' \in Seq(Tokens) /\ flushed' \in Seq(Tokens) /\ encBuf' \in Seq(Tokens)
    BY <1>1, <2>1, FlushTypes
  <2> QED BY <1>1, <2>1, <2>2, WriterTypes
<1>3. CASE WriteRequestFail
  <2>1. /\ NextCall /\ UNCHANGED <<codec, flushed, conn, wire, rVars>>
        /\ encBuf' = encBuf \o Leftover(written + 1)
    BY <1>3 DEF WriteRequestFail
  <2>2. encBuf' \in Seq(Tokens)
    BY <1>1, <2>1, ConcatProperties DEF TypeOK
  <2>3. wire' \in Seq(Tokens) /\ flushed' \in Seq(Tokens)
    BY <2>1 DEF TypeOK
  <2> QED BY <1>1, <2>1, <2>2, <2>3, WriterTypes
<1>4. CASE WriteResponseFail
  <2>1. NextCall /\ Flush(Leftover(written + 1)) /\ UNCHANGED <<codec, rVars>> /\ conn' = "shut"
    BY <1>4 DEF WriteResponseFail
  <2>2. wire' \in Seq(Tokens) /\ flushed' \in Seq(Tokens) /\ encBuf' \in Seq(Tokens)
    BY <1>1, <2>1, FlushTypes
  <2> QED BY <1>1, <2>1, <2>2, WriterTypes
<1>5. CASE Cut
  <2>1. PICK k \in 0..Len(wire) : wire' = SubSeq(wire, 1, k)
    BY <1>5 DEF Cut
  <2>2. wire' \in Seq(Tokens)
    BY <2>1, CutSeq DEF TypeOK
  <2>3. /\ conn = "up" /\ conn' = "cut"
        /\ UNCHANGED <<codec, written, encBuf, flushed, rVars>>
    BY <1>5 DEF Cut
  <2>4. encBuf' \in Seq(Tokens) /\ flushed' \in Seq(Tokens) /\ written' \in 0..MaxCalls
    BY <2>3 DEF TypeOK
  <2> QED BY <2>2, <2>3, <2>4, WriterTypes
<1> QED BY <1>2, <1>3, <1>4, <1>5

\* A step of the reader that moves tokens to where it needs them.
Moves == Seen' = Seen /\ Len(taken) <= Len(taken')

\* sniffServerConn finds out what the writer uses.
LEMMA SniffIsRight ==
  ASSUME TypeOK, Sniff
  PROVE  reader' = codec.enc
<1>1. codec.enc \in {"json", "gob"}
  BY StreamAssumption DEF TypeOK, AllSessions
<1>2. PICK bytes \in FirstBytes : reader' = Chosen(bytes)
  BY DEF Sniff
<1>3. CASE codec.enc = "json"
  <2>1. bytes = <<"{", "quote">>
    BY <1>3 DEF FirstBytes
  <2>2. isJSONStream(<<"{", "quote">>)
    BY DEF isJSONStream
  <2> QED BY <1>2, <1>3, <2>1, <2>2 DEF Chosen
<1>4. CASE codec.enc = "gob"
  <2>1. bytes = <<"length", "id">> \/ bytes = <<"{", "id">>
    BY <1>4 DEF FirstBytes
  <2>2. ~isJSONStream(<<"length", "id">>) /\ ~isJSONStream(<<"{", "id">>)
    BY DEF isJSONStream
  <2> QED BY <1>2, <1>4, <2>1, <2>2 DEF Chosen
<1> QED BY <1>1, <1>3, <1>4

\* A new decoder pulls in what was put back for it.
LEMMA PullMoves ==
  ASSUME TypeOK, Fill, rest' \in 0..(rest - 1)
  PROVE  TypeOK' /\ Moves
<1>1. UNCHANGED <<wVars, reader, taken, at, pairs, refused>>
  BY DEF Fill
<1>2. rest \in 0..Len(buf) /\ Len(buf) \in Nat /\ Len(taken) \in Nat
  BY LenProperties DEF TypeOK
<1>3. UNCHANGED <<wire, buf>>
  <2>1. rest > 0 /\ Len(buf) > 0
    BY <1>2
  <2>2. buf # <<>>
    BY <2>1, EmptySeq
  <2> QED BY <2>2 DEF Fill
<1>4. rest' \in 0..Len(buf') /\ (reader' # "json" => rest' = 0)
  BY <1>1, <1>2, <1>3 DEF TypeOK
<1>5. TypeOK'
  BY <1>1, <1>3, <1>4 DEF TypeOK, wVars
<1> QED BY <1>1, <1>2, <1>3, <1>5 DEF Moves, Seen

\* Sniff and Fill: some of the wire goes to the decoder's empty buffer.
LEMMA FillMoves ==
  ASSUME TypeOK, Sniff \/ (Fill /\ ~(rest' \in 0..(rest - 1)))
  PROVE  TypeOK' /\ Moves /\ rest' = 0
<1>1. buf \in Seq(Tokens) /\ wire \in Seq(Tokens) /\ taken \in Seq(Tokens)
  BY DEF TypeOK
<1>2. PICK k \in 1..Len(wire) :
         buf' = SubSeq(wire, 1, k) /\ wire' = SubSeq(wire, k + 1, Len(wire))
  BY DEF Sniff, Fill
<1>3. UNCHANGED <<wVars, rest, taken, at, pairs, refused>>
  BY DEF Sniff, Fill
<1>4. buf = <<>> /\ rest = 0
  <2>1. CASE Fill /\ ~(rest' \in 0..(rest - 1))
    <3>1. Len(<<>>) = 0
      BY EmptySeq
    <3> QED BY <2>1, <3>1 DEF Fill
  <2>2. CASE Sniff
    <3>1. taken \o buf = <<>> /\ rest = 0
      BY <2>2, StreamAssumption DEF Sniff, TypeOK, AllSessions
    <3> QED BY <1>1, <3>1, ConcatEqualIffEmpty
  <2> QED BY <2>1, <2>2
<1>5. reader' = codec.enc
  <2>1. CASE Fill
    <3>1. reader' = reader /\ reader # "unknown"
      BY <2>1 DEF Fill
    <3>2. wire # <<>>
      BY <1>1, <1>2, EmptySeq, LenProperties
    <3> QED BY <3>1, <3>2, RightEncoding
  <2> QED BY <2>1, SniffIsRight
<1>6. k \in 0..Len(wire) /\ Len(taken) \in Nat
  BY <1>1, LenProperties
<1>7. buf' \in Seq(Tokens) /\ wire' \in Seq(Tokens)
  BY <1>1, <1>2, <1>6, CutSeq
<1>8. TypeOK'
  <2>1. /\ taken' \in Seq(Tokens) /\ at' \in {"header", "body", "closed"}
        /\ at' = "body" => taken' # <<>>
        /\ pairs' \in Seq(Calls \X Calls) /\ refused' \subseteq Calls
    BY <1>3 DEF TypeOK
  <2>2. rest' \in 0..Len(buf') /\ rest' = 0
    BY <1>3, <1>4, <1>7, LenProperties
  <2> QED BY <1>3, <1>5, <1>7, <2>1, <2>2, ReaderTypes
<1>9. Seen' = Seen
  <2>1. Seen = taken \o wire
    BY <1>1, <1>4, ConcatEmptySeq DEF Seen
  <2>2. (taken \o buf') \o wire' = taken \o (buf' \o wire')
    <3>1. taken \in Seq(Tokens) /\ buf' \in Seq(Tokens) /\ wire' \in Seq(Tokens)
      BY <1>1, <1>7
    <3> QED BY <3>1, TokensAssociate, Zenon
  <2>3. buf' \o wire' = wire
    BY <1>1, <1>2, <1>6, CutSeq
  <2> QED BY <1>3, <2>1, <2>2, <2>3, Zenon DEF Seen
<1> QED BY <1>3, <1>4, <1>6, <1>8, <1>9 DEF Moves

\* A stream that ends before its first message, for which either codec may be
\* chosen, or none.
LEMMA SniffEOFMoves ==
  ASSUME TypeOK, SniffEOF \/ SniffFails
  PROVE  TypeOK' /\ Moves
<1>1. taken \o buf = <<>> /\ rest = 0
  BY StreamAssumption DEF SniffEOF, SniffFails, TypeOK, AllSessions
<1>2. taken \o buf \o wire = <<>>
  BY <1>1, ConcatEmptySeq DEF SniffEOF, SniffFails
<1>3. /\ UNCHANGED <<wVars, wire, buf, rest, taken, pairs, refused>>
      /\ conn # "up" /\ at = "header"
      /\ \/ reader' \in {"json", "gob"} /\ at' = at
         \/ reader = "unknown" /\ reader' = reader /\ at' = "closed"
  BY DEF SniffEOF, SniffFails, Chosen
<1>4. TypeOK'
  BY <1>1, <1>2, <1>3 DEF TypeOK, wVars
<1>5. Len(taken) \in Nat
  BY LenProperties DEF TypeOK
<1> QED BY <1>3, <1>4, <1>5 DEF Moves, Seen

\* ReadRequestHeader and ReadResponseHeader take one token.
LEMMA ReadHeaderMoves ==
  ASSUME TypeOK, ReadHeader
  PROVE  TypeOK' /\ Moves
<1>1. buf \in Seq(Tokens) /\ wire \in Seq(Tokens) /\ taken \in Seq(Tokens)
  BY DEF TypeOK
<1>2. /\ Len(buf) > rest /\ buf # <<>> /\ reader # "unknown" /\ reader' = reader
      /\ taken' = Append(taken, Head(buf)) /\ buf' = Tail(buf)
      /\ at' \in {"body", "closed"}
      /\ UNCHANGED <<wVars, wire, rest, pairs, refused>>
  BY SomePulled DEF ReadHeader
<1>3. /\ buf' \in Seq(Tokens) /\ taken' \in Seq(Tokens) /\ Len(buf') = Len(buf) - 1
      /\ Len(taken') = Len(taken) + 1 /\ taken'[Len(taken) + 1] = Head(buf)
      /\ taken' \o buf' = taken \o buf
  BY <1>1, <1>2, MoveHead
<1>4. Len(taken) \in Nat
  BY <1>1, LenProperties
<1>5. TypeOK'
  <2>1. taken' # <<>>
    BY <1>3, <1>4
  <2>2. rest' \in 0..Len(buf') /\ (reader' # "json" => rest' = 0)
    BY <1>1, <1>2, <1>3, LenProperties DEF TypeOK
  <2>3. reader' = codec.enc
    BY <1>2, RightEncoding
  <2>4. wire' \in Seq(Tokens) /\ pairs' \in Seq(Calls \X Calls) /\ refused' \subseteq Calls
    BY <1>2 DEF TypeOK
  <2>5. at' \in {"header", "body", "closed"}
    BY <1>2
  <2> QED BY <1>2, <1>3, <2>1, <2>2, <2>3, <2>4, <2>5, ReaderTypes
<1> QED BY <1>2, <1>3, <1>4, <1>5 DEF Moves, Seen

\* A body is delivered or refused.
LEMMA BodyTypes ==
  ASSUME TypeOK, at = "body", NEW t \in Tokens, Deliver(t) \/ Refuse
  PROVE  /\ at' \in {"header", "closed"}
         /\ pairs' \in Seq(Calls \X Calls) /\ refused' \subseteq Calls
<1>1. Current \in Calls /\ t.call \in Calls
  BY CurrentCall DEF Tokens
<1>2. CASE Deliver(t)
  <2>1. Append(pairs, <<Current, t.call>>) \in Seq(Calls \X Calls)
    BY <1>1, AppendProperties DEF TypeOK
  <2> QED BY <1>2, <2>1 DEF Deliver, TypeOK
<1>3. CASE Refuse
  BY <1>1, <1>3 DEF Refuse, TypeOK
<1> QED BY <1>2, <1>3

\* The codecs without a key take one token.
LEMMA TakeBodyMoves ==
  ASSUME TypeOK, TakeBody, reader # "unknown"
  PROVE  TypeOK' /\ Moves
<1>1. buf \in Seq(Tokens) /\ wire \in Seq(Tokens) /\ taken \in Seq(Tokens)
  BY DEF TypeOK
<1>2. /\ Len(buf) > rest /\ buf # <<>> /\ at = "body" /\ Deliver(Head(buf))
      /\ reader' = reader
      /\ taken' = Append(taken, Head(buf)) /\ buf' = Tail(buf)
      /\ UNCHANGED <<wVars, wire, rest>>
  BY SomePulled DEF TakeBody
<1>3. /\ buf' \in Seq(Tokens) /\ taken' \in Seq(Tokens) /\ Head(buf) \in Tokens
      /\ Len(buf') = Len(buf) - 1
      /\ Len(taken') = Len(taken) + 1 /\ taken' \o buf' = taken \o buf
  BY <1>1, <1>2, MoveHead
<1>4. Len(taken) \in Nat
  BY <1>1, LenProperties
<1>5. /\ at' \in {"header", "closed"}
      /\ pairs' \in Seq(Calls \X Calls) /\ refused' \subseteq Calls
  BY <1>2, <1>3, BodyTypes
<1>6. reader' = codec.enc
  BY <1>2, RightEncoding
<1>7. TypeOK'
  <2>1. rest' \in 0..Len(buf') /\ (reader' # "json" => rest' = 0)
    BY <1>1, <1>2, <1>3, LenProperties DEF TypeOK
  <2> QED BY <1>1, <1>2, <1>3, <1>5, <1>6, <2>1, ReaderTypes
<1>8. Len(taken') > Len(taken)
  BY <1>3, <1>4
<1>9. Seen' = Seen
  BY <1>2, <1>3 DEF Seen
<1> QED BY <1>2, <1>5, <1>7, <1>8, <1>9 DEF Moves

\* The first tokens of what is ready.
LEMMA ReadyTypes ==
  ASSUME TypeOK
  PROVE  /\ Ready \in Seq(Tokens) /\ Len(Ready) \in Nat
         /\ Ready # <<>> <=> Len(Ready) > 0
         /\ Ready # <<>> => buf # <<>> \/ wire # <<>>
         /\ \A i \in 1..Len(Ready) : Ready[i] \in Tokens
<1>1. Ready \in Seq(Tokens) /\ Len(Ready) \in Nat /\ Len(Ready) = Len(buf) + Len(wire)
  BY Buffers, LenProperties
<1>2. Ready # <<>> <=> Len(Ready) > 0
  BY <1>1, EmptySeq
<1>3. Len(<<>>) = 0
  BY EmptySeq
<1>4. Ready # <<>> => buf # <<>> \/ wire # <<>>
  BY <1>1, <1>2, <1>3
<1> QED BY <1>1, <1>2, <1>4, ElementOfSeq

\* The gob crypto codecs take two tokens out of the one buffer.
LEMMA TakeSealedMoves ==
  ASSUME TypeOK, TakeSealed
  PROVE  TypeOK' /\ Moves
<1>1. buf \in Seq(Tokens) /\ wire \in Seq(Tokens) /\ taken \in Seq(Tokens)
  BY DEF TypeOK
<1>2. /\ Len(Ready) > 1 /\ at = "body" /\ wire' = <<>> /\ reader' = reader
      /\ reader = "gob" /\ rest' = rest
      /\ taken' = taken \o SubSeq(Ready, 1, 2)
      /\ buf' = SubSeq(Ready, 3, Len(Ready))
      /\ Deliver(Ready[2]) \/ Refuse
      /\ UNCHANGED wVars
  BY DEF TakeSealed, Ready
<1>3. Ready \in Seq(Tokens) /\ Len(Ready) \in Nat /\ 2 \in 0..Len(Ready)
  BY <1>2, ReadyTypes
<1>4. /\ SubSeq(Ready, 1, 2) \in Seq(Tokens) /\ SubSeq(Ready, 3, Len(Ready)) \in Seq(Tokens)
      /\ Len(SubSeq(Ready, 1, 2)) = 2
  <2>1. 2 + 1 = 3
    OBVIOUS
  <2> QED BY <1>3, <2>1, CutSeq
<1>5. taken' \in Seq(Tokens) /\ Len(taken') = Len(taken) + 2 /\ Len(taken) \in Nat
  BY <1>1, <1>2, <1>4, ConcatProperties, LenProperties
<1>6. Seen' = Seen
  <2> DEFINE two == SubSeq(Ready, 1, 2)
             tail == SubSeq(Ready, 3, Len(Ready))
  <2>0. two \o tail = Ready
    <3>1. 2 + 1 = 3
      OBVIOUS
    <3> QED BY <1>3, <3>1, CutSeq
  <2>1. (taken \o two) \o tail = taken \o Ready
    <3>1. two \in Seq(Tokens) /\ tail \in Seq(Tokens)
      BY <1>4
    <3> HIDE DEF two, tail
    <3>2. (taken \o two) \o tail = taken \o (two \o tail)
      <4>1. taken \in Seq(Tokens)
        BY <1>1
      <4> QED BY <3>1, <4>1, TokensAssociate, Zenon
    <3> QED BY <2>0, <3>2, Zenon
  <2>2. (taken' \o buf') \o wire' = taken' \o buf'
    <3>1. taken' \o buf' \in Seq(Tokens)
      BY <1>2, <1>4, <1>5, ConcatProperties
    <3> QED BY <1>2, <3>1, ConcatEmptySeq
  <2> QED BY <1>2, <2>1, <2>2, Buffers DEF Seen
<1>7. TypeOK'
  <2>1. Ready[2] \in Tokens
    BY <1>3, ReadyTypes
  <2>2. /\ at' \in {"header", "closed"}
        /\ pairs' \in Seq(Calls \X Calls) /\ refused' \subseteq Calls
    BY <1>2, <2>1, BodyTypes
  <2>3. Ready # <<>>
    BY <1>2, <1>3, ReadyTypes
  <2>4. reader' = codec.enc
    BY <1>2, <2>3, ReadyTypes, RightEncoding
  <2>5. wire' \in Seq(Tokens)
    BY <1>2, EmptySeq
  <2>6. rest' = 0 /\ rest' \in 0..Len(buf')
    BY <1>2, <1>4, LenProperties DEF TypeOK
  <2> QED BY <1>2, <1>4, <1>5, <2>2, <2>4, <2>5, <2>6, ReaderTypes
<1> QED BY <1>5, <1>6, <1>7 DEF Moves

\* The gob crypto codecs leave a body without a prefix where it is.
LEMMA WrongPrefixMoves ==
  ASSUME TypeOK, ReadBodyWrongPrefix
  PROVE  TypeOK' /\ Moves
<1>1. buf \in Seq(Tokens) /\ wire \in Seq(Tokens) /\ taken \in Seq(Tokens)
  BY DEF TypeOK
<1>2. /\ Ready # <<>> /\ at = "body" /\ wire' = <<>> /\ buf' = Ready
      /\ reader = "gob" /\ Refuse /\ UNCHANGED <<wVars, reader, taken, rest>>
  BY DEF ReadBodyWrongPrefix, Ready
<1>3. Ready \in Seq(Tokens) /\ Len(Ready) \in Nat /\ Len(Ready) > 0
  BY <1>2, ReadyTypes
<1>4. Ready[1] \in Tokens /\ Len(taken) \in Nat
  BY <1>1, <1>3, ReadyTypes, LenProperties
<1>5. Seen' = Seen
  <2>1. taken \o Ready \in Seq(Tokens)
    BY <1>1, <1>3, ConcatProperties
  <2>2. (taken \o Ready) \o <<>> = taken \o Ready
    BY <2>1, ConcatEmptySeq
  <2> QED BY <1>2, <2>2, Buffers DEF Seen
<1>6. TypeOK'
  <2>1. /\ at' \in {"header", "closed"}
        /\ pairs' \in Seq(Calls \X Calls) /\ refused' \subseteq Calls
    BY <1>2, <1>4, BodyTypes
  <2>2. reader' = codec.enc
    BY <1>2, ReadyTypes, RightEncoding
  <2>3. wire' \in Seq(Tokens) /\ buf' \in Seq(Tokens) /\ taken' \in Seq(Tokens)
    BY <1>1, <1>2, <1>3, EmptySeq
  <2>4. rest' = 0 /\ rest' \in 0..Len(buf')
    BY <1>2, <1>3 DEF TypeOK
  <2> QED BY <1>2, <2>1, <2>2, <2>3, <2>4, ReaderTypes
<1> QED BY <1>2, <1>4, <1>5, <1>6 DEF Moves

\* What a decoder leaves of a sequence.
LEMMA RestTypes ==
  ASSUME NEW S, NEW s \in Seq(S), NEW m \in Nat \ {0}
  PROVE  /\ SubSeq(s, m, Len(s)) \in Seq(S)
         /\ Len(s) < m => SubSeq(s, m, Len(s)) = <<>>
<1>1. Len(s) \in Nat /\ \A i \in 1..Len(s) : s[i] \in S
  BY LenProperties, ElementOfSeq
<1>2. \A i \in m..Len(s) : s[i] \in S
  BY <1>1
<1> QED BY <1>1, <1>2, SubSeqProperties, SubSeqEmpty

\* The JSON crypto codecs: the types are kept whatever the blob decoder reads
\* ahead; tokens stay where they belong if there was nothing to read ahead.
LEMMA SourceMoves ==
  ASSUME TypeOK, readCryptoBodySource
  PROVE  /\ TypeOK'
         /\ rest = 0 /\ Len(Ready) <= 2 => Moves /\ rest' = 0
<1> DEFINE ready == Pulled \o wire
           avail == IF Len(Pulled) > 1 THEN Len(Pulled) ELSE Len(ready)
<1>1. /\ wire \in Seq(Tokens) /\ taken \in Seq(Tokens) /\ Pulled \in Seq(Tokens)
      /\ Len(wire) \in Nat /\ Len(taken) \in Nat /\ Len(Pulled) \in Nat
  BY PulledTypes, LenProperties DEF TypeOK
<1>2. /\ at = "body" /\ reader = "json" /\ reader' = reader /\ UNCHANGED wVars
      /\ ready # <<>> /\ rest' = Len(buf')
  BY DEF readCryptoBodySource
<1>3. PICK k \in 2..avail :
         /\ taken' = taken \o SubSeq(ready, 1, 2)
         /\ buf' = SubSeq(Pulled, k + 1, Len(Pulled))
         /\ wire' = IF Len(Pulled) > 1 THEN wire ELSE SubSeq(ready, k + 1, Len(ready))
         /\ Deliver(ready[2]) \/ Refuse
  BY DEF readCryptoBodySource
<1>4. ready \in Seq(Tokens) /\ Len(ready) \in Nat /\ Len(ready) = Len(Pulled) + Len(wire)
  BY PulledTypes, LenProperties
<1>5. k \in Nat /\ 2 <= k /\ k <= avail /\ 2 \in 0..Len(ready) /\ k + 1 \in Nat \ {0}
  BY <1>1, <1>4
<1>6. SubSeq(ready, 1, 2) \in Seq(Tokens) /\ Len(SubSeq(ready, 1, 2)) = 2
  BY <1>4, <1>5, CutSeq
<1>7. taken' \in Seq(Tokens) /\ Len(taken') = Len(taken) + 2
  <2> DEFINE two == SubSeq(ready, 1, 2)
  <2>1. taken' = taken \o two /\ two \in Seq(Tokens) /\ Len(two) = 2
    BY <1>3, <1>6
  <2> HIDE DEF two
  <2>2. taken \o two \in Seq(Tokens) /\ Len(taken \o two) = Len(taken) + Len(two)
    <3>1. taken \in Seq(Tokens)
      BY <1>1
    <3> QED BY <2>1, <3>1, ConcatProperties
  <2> QED BY <2>1, <2>2
<1>8. /\ SubSeq(Pulled, k + 1, Len(Pulled)) \in Seq(Tokens)
      /\ SubSeq(ready, k + 1, Len(ready)) \in Seq(Tokens)
  BY <1>1, <1>4, <1>5, RestTypes
<1>9. TypeOK'
  <2>1. ready[2] \in Tokens
    BY <1>4, <1>5, ElementOfSeq
  <2>2. /\ at' \in {"header", "closed"}
        /\ pairs' \in Seq(Calls \X Calls) /\ refused' \subseteq Calls
    BY <1>2, <1>3, <2>1, BodyTypes
  <2>3. reader' = codec.enc
    BY <1>2, PulledTypes, RightEncoding
  <2>4. buf' \in Seq(Tokens) /\ wire' \in Seq(Tokens)
    BY <1>1, <1>3, <1>8
  <2>5. rest' \in 0..Len(buf')
    BY <1>2, <2>4, LenProperties
  <2> QED BY <1>2, <1>7, <2>2, <2>3, <2>4, <2>5, ReaderTypes
<1>10. ASSUME rest = 0, Len(Ready) <= 2
       PROVE  Moves /\ rest' = 0
  <2>0. Pulled = buf /\ ready = Ready
    BY <1>10, PulledTypes DEF Ready
  <2>1. k = 2 /\ Len(ready) = 2
    BY <1>1, <1>4, <1>5, <1>10, <2>0
  <2>2. buf' = <<>>
    <3>1. Len(Pulled) < k + 1
      BY <1>1, <1>4, <2>1
    <3> QED BY <1>1, <1>3, <1>5, <3>1, RestTypes
  <2>3. wire' = <<>>
    <3>1. CASE Len(Pulled) > 1
      <4>1. Len(wire) = 0
        BY <1>1, <1>4, <2>1, <3>1
      <4>2. wire = <<>>
        BY <1>1, <4>1, EmptySeq
      <4> QED BY <1>3, <3>1, <4>2
    <3>2. CASE ~(Len(Pulled) > 1)
      <4>1. Len(ready) < k + 1
        BY <1>4, <2>1
      <4> QED BY <1>3, <1>4, <1>5, <3>2, <4>1, RestTypes
    <3> QED BY <3>1, <3>2
  <2>4. SubSeq(ready, 1, 2) = ready
    <3>1. SubSeq(ready, 1, Len(ready)) = ready
      BY <1>4, SubSeqFull
    <3> QED BY <2>1, <3>1
  <2>5. taken' = taken \o Ready
    BY <1>3, <2>0, <2>4
  <2>6. (taken' \o <<>>) \o <<>> = taken'
    BY <1>7, ConcatEmptySeq
  <2>7. Seen' = Seen
    BY <2>2, <2>3, <2>5, <2>6, Buffers DEF Seen
  <2>8. rest' = 0
    BY <1>2, <2>2, EmptySeq
  <2> QED BY <1>1, <1>7, <2>7, <2>8 DEF Moves
<1> QED BY <1>9, <1>10

\* A JSON crypto codec that does not find its prefix.
LEMMA InvalidMagicMoves ==
  ASSUME TypeOK, ReadBodyInvalidMagic
  PROVE  /\ TypeOK'
         /\ rest = 0 => Moves
         /\ rest = 0 /\ Len(Ready) <= 1 => rest' = 0
<1> DEFINE ready == Pulled \o wire
<1>1. /\ wire \in Seq(Tokens) /\ taken \in Seq(Tokens) /\ Pulled \in Seq(Tokens)
      /\ Len(taken) \in Nat /\ pairs \in Seq(Calls \X Calls) /\ refused \subseteq Calls
      /\ Len(Pulled) \in Nat /\ Len(wire) \in Nat
      /\ buf \in Seq(Tokens) /\ rest \in 0..Len(buf)
  BY PulledTypes, LenProperties DEF TypeOK
<1>2. /\ at = "body" /\ reader = "json" /\ reader' = reader /\ UNCHANGED wVars
      /\ ready # <<>>
  BY DEF ReadBodyInvalidMagic
<1>3. reader' = codec.enc
  BY <1>2, PulledTypes, RightEncoding
<1>4. CASE /\ at' = "closed" /\ refused' = refused \cup {Current}
           /\ UNCHANGED <<wire, buf, rest, taken, pairs>>
  <2>1. TypeOK'
    <3>1. refused' \subseteq Calls
      BY <1>1, <1>2, <1>4, CurrentCall
    <3> QED BY <1>1, <1>2, <1>3, <1>4, <3>1, ReaderTypes
  <2> QED BY <1>1, <1>4, <2>1 DEF Moves, Seen
<1>5. CASE /\ taken' = Append(taken, ready[1])
           /\ buf' = SubSeq(Pulled, 2, Len(Pulled)) /\ rest' = Len(buf')
           /\ wire' = IF Pulled = <<>> THEN Tail(wire) ELSE wire
           /\ Refuse
  <2>0. ready \in Seq(Tokens) /\ Len(ready) \in Nat /\ Len(ready) = Len(Pulled) + Len(wire)
    BY PulledTypes, LenProperties
  <2>1. ready[1] \in Tokens
    <3>1. Len(ready) > 0
      BY <1>2, <2>0, EmptySeq
    <3>2. 1 \in 1..Len(ready)
      BY <2>0, <3>1
    <3> QED BY <2>0, <3>2, ElementOfSeq
  <2>2. /\ taken' \in Seq(Tokens) /\ Len(taken') = Len(taken) + 1
    BY <1>1, <1>5, <2>1, AppendProperties
  <2>3. /\ buf' \in Seq(Tokens) /\ wire' \in Seq(Tokens)
        /\ (taken' \o buf') \o wire' = (taken \o Pulled) \o wire
    <3>1. CASE Pulled = <<>>
      <4>1. ready = wire /\ wire # <<>>
        BY <1>1, <1>2, <3>1, ConcatEmptySeq
      <4>2. ready[1] = Head(wire)
        BY <4>1
      <4>3. buf' = <<>>
        BY <1>5, <3>1, SubSeqEmpty, EmptySeq
      <4>4. /\ Tail(wire) \in Seq(Tokens)
            /\ Append(taken, Head(wire)) \o Tail(wire) = taken \o wire
        BY <1>1, <4>1, MoveHead
      <4>5. taken' \o <<>> = taken' /\ taken \o <<>> = taken
        BY <1>1, <2>2, ConcatEmptySeq
      <4>6. taken' = Append(taken, Head(wire)) /\ wire' = Tail(wire)
        BY <1>5, <3>1, <4>2
      <4>7. (taken' \o buf') \o wire' = (taken \o Pulled) \o wire
        BY <3>1, <4>3, <4>4, <4>5, <4>6, Zenon
      <4> QED BY <1>5, <3>1, <4>3, <4>4, <4>7, EmptySeq
    <3>2. CASE Pulled # <<>>
      <4>1. ready[1] = Head(Pulled)
        <5>1. Len(Pulled) \in Nat \ {0} /\ Len(wire) \in Nat
          BY <1>1, <3>2, EmptySeq
        <5>2. ready[1] = Pulled[1]
          BY <1>1, <5>1, ConcatProperties
        <5> QED BY <1>1, <3>2, <5>2
      <4>2. buf' = Tail(Pulled)
        BY <1>1, <1>5, <3>2, TailIsSubSeq
      <4>3. /\ Tail(Pulled) \in Seq(Tokens)
            /\ Append(taken, Head(Pulled)) \o Tail(Pulled) = taken \o Pulled
        BY <1>1, <3>2, MoveHead
      <4>4. wire' = wire /\ taken' = Append(taken, Head(Pulled))
        BY <1>5, <3>2, <4>1
      <4>5. (taken' \o buf') \o wire' = (taken \o Pulled) \o wire
        BY <4>2, <4>3, <4>4, Zenon
      <4> QED BY <1>1, <4>2, <4>3, <4>4, <4>5
    <3> QED BY <3>1, <3>2
  <2>4. /\ at' \in {"header", "closed"}
        /\ pairs' \in Seq(Calls \X Calls) /\ refused' \subseteq Calls
    BY <1>2, <1>5, <2>1, BodyTypes
  <2>5. TypeOK'
    <3>1. rest' \in 0..Len(buf')
      BY <1>5, <2>3, LenProperties
    <3> QED BY <1>2, <1>3, <2>2, <2>3, <2>4, <3>1, ReaderTypes
  <2>6. rest = 0 => Moves
    <3>1. rest = 0 => Pulled = buf
      BY PulledTypes
    <3>2. (taken' \o buf') \o wire' = (taken \o Pulled) \o wire
      BY <2>3
    <3>3. rest = 0 => Seen' = Seen
      BY <3>1, <3>2, Zenon DEF Seen
    <3>4. Len(taken) \in Nat /\ Len(taken') = Len(taken) + 1
      BY <1>1, <2>2, LenProperties
    <3>5. Len(taken) <= Len(taken')
      BY <3>4
    <3> QED BY <3>3, <3>5 DEF Moves
  <2>7. ASSUME rest = 0, Len(Ready) <= 1 PROVE rest' = 0
    <3>1. Pulled = buf /\ ready = Ready
      BY <2>7, PulledTypes DEF Ready
    <3>2. Len(Pulled) < 2
      BY <1>1, <2>0, <2>7, <3>1
    <3>3. buf' = <<>>
      BY <1>1, <1>5, <3>2, RestTypes
    <3> QED BY <1>5, <3>3, EmptySeq
  <2> QED BY <2>5, <2>6, <2>7
<1> QED BY <1>4, <1>5 DEF ReadBodyInvalidMagic

\* The session ends on the reader's side.
LEMMA EndMoves ==
  ASSUME TypeOK, ReadEOF \/ ReadBodyGarbled
  PROVE  TypeOK' /\ Moves
<1>1. /\ at' = "closed"
      /\ UNCHANGED <<wVars, reader, wire, buf, rest, taken, pairs, refused>>
  BY DEF ReadEOF, ReadBodyGarbled
<1>2. TypeOK'
  BY <1>1 DEF TypeOK, wVars
<1>3. Len(taken) \in Nat
  BY LenProperties DEF TypeOK
<1> QED BY <1>1, <1>2, <1>3 DEF Moves, Seen

\* Every step keeps the types.
LEMMA NextTypes == TypeOK /\ [Next]_vars => TypeOK'
<1> SUFFICES ASSUME TypeOK, [Next]_vars PROVE TypeOK'
  OBVIOUS
<1>1. CASE WriteRequest \/ WriteResponse \/ WriteRequestFail \/ WriteResponseFail \/ Cut
  BY <1>1, WriteTypes
<1>2. CASE Sniff \/ Fill
  BY <1>2, FillMoves, PullMoves
<1>3. CASE SniffEOF \/ SniffFails
  BY <1>3, SniffEOFMoves
<1>4. CASE ReadHeader
  BY <1>4, ReadHeaderMoves
<1>5. CASE ReadBody
  <2>1. CASE ReadBodyGob \/ ReadBodyJSON
    BY <2>1, TakeBodyMoves DEF ReadBodyGob, ReadBodyJSON
  <2>2. CASE ReadRequestBodyGobCrypto \/ ReadResponseBodyGobCrypto
    BY <2>2, TakeSealedMoves DEF ReadRequestBodyGobCrypto, ReadResponseBodyGobCrypto
  <2>3. CASE ReadRequestBodyJSONCrypto \/ ReadResponseBodyJSONCrypto
    BY <2>3, SourceMoves DEF ReadRequestBodyJSONCrypto, ReadResponseBodyJSONCrypto
  <2> QED BY <1>5, <2>1, <2>2, <2>3 DEF ReadBody
<1>6. CASE ReadEOF \/ ReadBodyGarbled
  BY <1>6, EndMoves
<1>7. CASE ReadBodyWrongPrefix
  BY <1>7, WrongPrefixMoves
<1>8. CASE ReadBodyInvalidMagic
  BY <1>8, InvalidMagicMoves
<1>9. CASE UNCHANGED vars
  BY <1>9 DEF vars, wVars, rVars, TypeOK
<1> QED BY <1>1, <1>2, <1>3, <1>4, <1>5, <1>6, <1>7, <1>8, <1>9 DEF Next

\* A new session has sent and read nothing.
LEMMA InitTypes == Init => TypeOK
<1> SUFFICES ASSUME Init PROVE TypeOK
  OBVIOUS
<1>1. /\ <<>> \in Seq(Tokens) /\ <<>> \in Seq(Calls \X Calls)
      /\ 0 \in 0..MaxCalls
  BY StreamAssumption, EmptySeq
<1>2. <<>> \o <<>> = <<>>
  BY <1>1, ConcatEmptySeq
<1> QED BY <1>1, <1>2 DEF Init, TypeOK

\* Buffers keep their types for every session, also one that loses messages: a
\* reader that has got a message uses the writer's encoding.  isJSONStream can be
\* wrong about a stream that was cut inside its first two bytes (a single brace
\* of a gob stream counts as JSON), and then no message ever reaches the codec.
THEOREM TypeCorrect == Spec => []TypeOK
<1> QED BY InitTypes, NextTypes, PTL DEF Spec

-----------------------------------------------------------------------------
(* The stream of a session that is used as Sound says.                     *)

\* A sequence is a prefix of itself with something behind it.
LEMMA PrefixOfConcat ==
  ASSUME NEW S, NEW s \in Seq(S), NEW t \in Seq(S)
  PROVE  IsPrefix(s, s \o t)
<1>1. /\ Len(s) \in Nat /\ Len(t) \in Nat /\ Len(s \o t) = Len(s) + Len(t)
  BY LenProperties, ConcatProperties
<1>2. Len(s) <= Len(s \o t)
  BY <1>1
<1>3. SubSeq(s, 1, Len(s)) = SubSeq(s \o t, 1, Len(s))
  <2>1. CASE Len(s) = 0
    BY <2>1, SubSeqEmpty
  <2>2. CASE Len(s) # 0
    <3>1. 1 \in 1..Len(s) /\ Len(s) \in 1..Len(s)
      BY <1>1, <2>2
    <3>2. SubSeq(s \o t, 1, Len(s)) = SubSeq(s, 1, Len(s))
      BY <3>1, SubSeqOfConcat1
    <3> QED BY <3>2
  <2> QED BY <2>1, <2>2
<1> QED BY <1>2, <1>3 DEF IsPrefix

\* A prefix agrees with the sequence, element by element.
LEMMA PrefixElements ==
  ASSUME NEW S, NEW s \in Seq(S), NEW t \in Seq(S), IsPrefix(s, t)
  PROVE  /\ Len(s) <= Len(t)
         /\ \A i \in 1..Len(s) : s[i] = t[i]
<1>1. Len(s) \in Nat /\ Len(t) \in Nat /\ Len(s) <= Len(t)
  BY LenProperties DEF IsPrefix
<1>2. SubSeq(s, 1, Len(s)) = SubSeq(t, 1, Len(s))
  BY DEF IsPrefix
<1>3. /\ \A i \in 1..Len(s) : s[i] \in S
      /\ \A i \in 1..Len(s) : t[i] \in S
  BY <1>1, ElementOfSeq
<1>4. ASSUME NEW i \in 1..Len(s)
      PROVE  SubSeq(s, 1, Len(s))[i] = s[i] /\ SubSeq(t, 1, Len(s))[i] = t[i]
  <2>1. i \in 1..Len(s) - 1 + 1 /\ 1 + i - 1 = i
    BY <1>1
  <2> QED BY <1>1, <1>3, <2>1, SubSeqProperties
<1> QED BY <1>1, <1>2, <1>4

\* What the reader has got is what was flushed.
LEMMA SeenIsFlushed ==
  ASSUME TypeOK, NothingLost
  PROVE  /\ Len(Seen) <= Len(flushed) /\ Len(Seen) \in Nat /\ Len(flushed) \in Nat
         /\ \A i \in 1..Len(Seen) : Seen[i] = flushed[i]
         /\ conn # "cut" => Seen = flushed
<1>1. Seen \in Seq(Tokens) /\ flushed \in Seq(Tokens)
  BY Buffers DEF TypeOK
<1>2. IsPrefix(Seen, flushed) /\ (conn # "cut" => Seen = flushed)
  BY DEF NothingLost, Seen
<1> QED BY <1>1, <1>2, PrefixElements, LenProperties

\* A step of the reader that moves tokens keeps the stream in order.
LEMMA ReaderStep ==
  ASSUME StreamInv, TypeOK', StepInv', Moves, UNCHANGED wVars
  PROVE  StreamInv'
<1>1. NothingLost'
  BY DEF StreamInv, NothingLost, Moves, Seen, wVars
<1>2. FramesInv'
  BY DEF StreamInv, FramesInv, Follows, Seals, wVars
<1>3. TurnsInv'
  <2>1. Len(taken) \in Nat /\ Len(taken') \in Nat /\ Len(flushed) \in Nat
    BY LenProperties DEF StreamInv, TypeOK
  <2>2. flushed' = flushed /\ codec' = codec /\ Len(taken) <= Len(taken')
    BY DEF wVars, Moves
  <2> QED BY <2>1, <2>2 DEF StreamInv, TurnsInv
<1> QED BY <1>1, <1>2, <1>3 DEF StreamInv

\* A step of the reader that takes nothing keeps it in step.
LEMMA IdleStep ==
  ASSUME StreamInv, TypeOK', Moves, UNCHANGED <<wVars, taken>>,
         at' \in {at, "closed"}, rest' = 0
  PROVE  StreamInv'
<1>1. StepInv'
  BY DEF StreamInv, StepInv, LastTaken, wVars
<1> QED BY <1>1, ReaderStep

\* A reader that wants a header finds one in front, unless it is the gob codec
\* that left a body in the buffer; what passes for a header is one.
LEMMA NextHeader ==
  ASSUME StreamInv, at = "header", reader # "unknown", buf # <<>>, PassesForHeader(Head(buf))
  PROVE  Head(buf).kind = "header"
<1> DEFINE p == Len(taken)
<1>1. TypeOK /\ NothingLost /\ FramesInv /\ StepInv
  BY DEF StreamInv
<1>2. /\ buf \in Seq(Tokens) /\ wire \in Seq(Tokens) /\ taken \in Seq(Tokens)
      /\ Len(buf) \in Nat \ {0} /\ Len(wire) \in Nat /\ p \in Nat
  BY <1>1, EmptySeq, LenProperties DEF TypeOK
<1>3. Ready[1] = Head(buf) /\ Len(Ready) \in Nat \ {0}
  <2>1. Ready[1] = buf[1] /\ Len(Ready) = Len(buf) + Len(wire)
    BY <1>2, ConcatProperties DEF Ready
  <2> QED BY <1>2, <2>1
<1>4. Head(buf) = flushed[p + 1] /\ p + 1 \in 1..Len(flushed) /\ Len(flushed) \in Nat
  <2>1. Len(Seen) = p + Len(Ready) /\ Seen[p + 1] = Ready[1]
    BY <1>1, <1>3, Buffers
  <2>2. p + 1 \in 1..Len(Seen) /\ Len(Seen) <= Len(flushed) /\ Len(flushed) \in Nat
    BY <1>1, <1>2, <1>3, <2>1, SeenIsFlushed
  <2> QED BY <1>1, <1>2, <1>3, <2>1, <2>2, SeenIsFlushed
<1>5. CASE reader # "json"
  BY <1>5 DEF PassesForHeader
<1>6. CASE reader = "json" /\ taken = <<>>
  <2>1. p + 1 = 1
    BY <1>6, EmptySeq
  <2>2. flushed # <<>>
    BY <1>4, EmptySeq
  <2> QED BY <1>1, <1>4, <2>1, <2>2 DEF FramesInv
<1>7. CASE reader = "json" /\ taken # <<>>
  <2>1. codec.enc = "json"
    BY <1>1, <1>7, RightEncoding
  <2>2. p > 0 /\ taken[p].kind = "body"
    BY <1>1, <1>2, <1>7, <2>1, EmptySeq DEF StepInv, LastTaken
  <2>3. flushed[p] = taken[p]
    <3>1. p \in 1..p /\ p \in 1..Len(Seen)
      BY <1>1, <1>2, <1>3, <2>2, Buffers
    <3> QED BY <1>1, <3>1, Buffers, SeenIsFlushed
  <2>4. p \in 1..Len(flushed) /\ p < Len(flushed)
    BY <1>2, <1>4, <2>2
  <2>5. Follows(flushed[p], flushed[p + 1])
    BY <1>1, <2>4 DEF FramesInv
  <2> QED BY <1>4, <2>2, <2>3, <2>5 DEF Follows
<1> QED BY <1>5, <1>6, <1>7

\* A reader that wants a body finds that of its call in front, behind a prefix
\* if the writer has a key, and nothing else when callers take turns.
LEMMA NextToken ==
  ASSUME StreamInv, at = "body", Ready # <<>>
  PROVE  /\ Ready[1] = Token(IF Seals THEN "magic" ELSE "body", Current)
         /\ Seals /\ Len(Ready) > 1 => Ready[2] = Token("body", Current)
         /\ ~codec.pipelined => Len(Ready) <= (IF Seals THEN 2 ELSE 1)
<1> DEFINE p == Len(taken)
<1>1. TypeOK /\ NothingLost /\ FramesInv /\ TurnsInv /\ StepInv
  BY DEF StreamInv
<1>2. p \in Nat \ {0} /\ taken[p].kind = "header"
  BY <1>1, CurrentCall DEF StepInv, LastTaken
<1>3. Len(Ready) \in Nat /\ Len(Ready) > 0 /\ Len(Seen) = p + Len(Ready)
  BY <1>1, ReadyTypes, Buffers
<1>4. /\ Len(Seen) <= Len(flushed) /\ Len(flushed) \in Nat
      /\ \A i \in 1..Len(Seen) : Seen[i] = flushed[i]
  BY <1>1, SeenIsFlushed
<1>5. /\ \A i \in 1..p : Seen[i] = taken[i]
      /\ \A i \in 1..Len(Ready) : Seen[p + i] = Ready[i]
  BY <1>1, Buffers
<1> HIDE DEF p
<1>6. flushed[p] = taken[p]
  <2>1. p \in 1..p /\ p \in 1..Len(Seen)
    BY <1>2, <1>3
  <2> QED BY <1>4, <1>5, <2>1
<1>7. \A i \in 1..Len(Ready) : Ready[i] = flushed[p + i]
  <2>1. \A i \in 1..Len(Ready) : p + i \in 1..Len(Seen)
    BY <1>2, <1>3
  <2> QED BY <1>4, <1>5, <2>1
<1>8. \A i \in 1..Len(flushed) : i < Len(flushed) => Follows(flushed[i], flushed[i + 1])
  BY <1>1 DEF FramesInv
<1>9. taken[p].call = Current
  BY DEF Current, p
<1>10. Ready[1] = Token(IF Seals THEN "magic" ELSE "body", Current)
  <2>1. p \in 1..Len(flushed) /\ p < Len(flushed) /\ 1 \in 1..Len(Ready)
    BY <1>2, <1>3, <1>4
  <2>2. Follows(taken[p], Ready[1])
    BY <1>6, <1>7, <1>8, <2>1
  <2> QED BY <1>2, <1>9, <2>2 DEF Follows
<1>11. ASSUME Seals, Len(Ready) > 1
       PROVE  Ready[2] = Token("body", Current)
  <2>1. /\ p + 1 \in 1..Len(flushed) /\ p + 1 < Len(flushed) /\ (p + 1) + 1 = p + 2
        /\ 1 \in 1..Len(Ready) /\ 2 \in 1..Len(Ready)
    BY <1>2, <1>3, <1>4, <1>11
  <2>2. Follows(Ready[1], Ready[2])
    BY <1>7, <1>8, <2>1
  <2>3. Ready[1].kind = "magic" /\ Ready[1].call = Current
    BY <1>10, <1>11 DEF Token
  <2> QED BY <2>2, <2>3 DEF Follows
<1>12. ASSUME Seals, ~codec.pipelined, Len(Ready) > 2
       PROVE  FALSE
  <2>1. /\ p + 2 \in 1..Len(flushed) /\ p + 2 < Len(flushed) /\ (p + 2) + 1 = p + 3
        /\ 2 \in 1..Len(Ready) /\ 3 \in 1..Len(Ready) /\ Len(Ready) > 1
        /\ p + 3 \in (p + 2)..Len(flushed)
    BY <1>2, <1>3, <1>4, <1>12
  <2>2. Follows(Ready[2], flushed[p + 3])
    BY <1>7, <1>8, <2>1
  <2>3. Ready[2].kind = "body"
    BY <1>11, <1>12, <2>1 DEF Token
  <2>4. flushed[p + 3].kind = "header"
    BY <2>2, <2>3 DEF Follows
  <2> QED BY <1>1, <1>12, <2>1, <2>4 DEF TurnsInv, p
<1>13. ASSUME ~Seals, ~codec.pipelined, Len(Ready) > 1
       PROVE  FALSE
  <2>1. /\ p + 1 \in 1..Len(flushed) /\ p + 1 < Len(flushed) /\ (p + 1) + 1 = p + 2
        /\ 1 \in 1..Len(Ready) /\ p + 2 \in (p + 2)..Len(flushed)
    BY <1>2, <1>3, <1>4, <1>13
  <2>2. Follows(Ready[1], flushed[p + 2])
    BY <1>7, <1>8, <2>1
  <2>3. Ready[1].kind = "body"
    BY <1>10, <1>13 DEF Token
  <2>4. flushed[p + 2].kind = "header"
    BY <2>2, <2>3 DEF Follows
  <2> QED BY <1>1, <1>13, <2>1, <2>4 DEF TurnsInv, p
<1>14. ~codec.pipelined => Len(Ready) <= (IF Seals THEN 2 ELSE 1)
  BY <1>3, <1>12, <1>13
<1> QED BY <1>10, <1>11, <1>14

\* A flush of the tokens of one call: the reader can see all that was flushed,
\* also behind it.
LEMMA FlushSeen ==
  ASSUME StreamInv, conn = "up", NEW tokens \in Seq(Tokens), Flush(tokens),
         UNCHANGED <<taken, buf>>, TypeOK'
  PROVE  /\ flushed' = flushed \o tokens /\ encBuf' = <<>>
         /\ NothingLost'
<1>1. /\ wire \in Seq(Tokens) /\ flushed \in Seq(Tokens) /\ encBuf = <<>>
      /\ taken \o buf \in Seq(Tokens) /\ flushed' \in Seq(Tokens)
  BY ConcatProperties DEF StreamInv, TypeOK, FramesInv
<1>2. wire \o <<>> = wire /\ flushed \o <<>> = flushed
  BY <1>1, ConcatEmptySeq
<1>3. wire' = wire \o tokens /\ flushed' = flushed \o tokens /\ encBuf' = <<>>
  BY <1>1, <1>2 DEF Flush
<1>4. Seen = flushed
  BY SeenIsFlushed DEF StreamInv
<1>5. (taken \o buf) \o (wire \o tokens) = ((taken \o buf) \o wire) \o tokens
  <2>1. taken \o buf \in Seq(Tokens) /\ wire \in Seq(Tokens) /\ tokens \in Seq(Tokens)
    BY <1>1
  <2> QED BY <2>1, TokensAssociate, Zenon
<1>6. Seen' = flushed'
  BY <1>3, <1>4, <1>5, Zenon DEF Seen
<1>7. IsPrefix(flushed', flushed')
  <2>1. flushed' \o <<>> = flushed'
    BY <1>1, ConcatEmptySeq
  <2>2. <<>> \in Seq(Tokens)
    BY EmptySeq
  <2>3. IsPrefix(flushed', flushed' \o <<>>)
    BY <1>1, <2>2, PrefixOfConcat
  <2> QED BY <2>1, <2>3
<1> QED BY <1>3, <1>6, <1>7 DEF NothingLost, Seen

\* The tokens of one call on a connection that is c afterwards: a header without
\* a body is the last token of a stream that is shut.
OneCall(tokens, c) ==
    /\ Len(tokens) > 0 => tokens[1].kind = "header"
    /\ \A i \in 1..Len(tokens) :
          IF i < Len(tokens) THEN Follows(tokens[i], tokens[i + 1])
          ELSE tokens[i].kind = "body" \/ (tokens[i].kind = "header" /\ c = "shut")
    /\ \A i \in 2..Len(tokens) : tokens[i].kind # "header"

\* What WriteRequest and WriteResponse flush for a call.
LEMMA FrameIsOneCall ==
  ASSUME NEW n \in Calls, NEW c
  PROVE  OneCall(Frame(n), c)
<1> DEFINE head == <<Token("header", n)>>
           tail == IF Seals THEN CryptoBody(n) ELSE <<Token("body", n)>>
           f    == Frame(n)
<1>1. Token("header", n) \in Tokens /\ Token("magic", n) \in Tokens /\ Token("body", n) \in Tokens
  BY DEF Token, Tokens
<1>2. /\ head \in Seq(Tokens) /\ Len(head) = 1 /\ head[1] = Token("header", n)
  BY <1>1
<1>3. Seals => /\ tail \in Seq(Tokens) /\ Len(tail) = 2
               /\ tail[1] = Token("magic", n) /\ tail[2] = Token("body", n)
  BY <1>1 DEF CryptoBody
<1>4. ~Seals => /\ tail \in Seq(Tokens) /\ Len(tail) = 1
                /\ tail[1] = Token("body", n)
  BY <1>1
<1>5. f = head \o tail
  BY DEF Frame
<1> HIDE DEF head, tail, f
<1>6. /\ Len(f) = Len(head) + Len(tail)
      /\ \A i \in 1 .. Len(head) + Len(tail) :
            f[i] = IF i <= Len(head) THEN head[i] ELSE tail[i - Len(head)]
  BY <1>2, <1>3, <1>4, <1>5, ConcatProperties
<1>7. CASE Seals
  <2>1. Len(f) = 3 /\ f[1] = head[1] /\ f[2] = tail[1] /\ f[3] = tail[2]
    <3>1. Len(head) = 1 /\ Len(tail) = 2
      BY <1>2, <1>3, <1>7
    <3> QED BY <1>6, <3>1
  <2>2. /\ f[1] = Token("header", n) /\ f[2] = Token("magic", n) /\ f[3] = Token("body", n)
    BY <1>2, <1>3, <1>7, <2>1
  <2>3. Follows(f[1], f[2]) /\ Follows(f[2], f[3])
    BY <1>7, <2>2 DEF Follows, Token
  <2>4. f[1].kind = "header" /\ f[2].kind = "magic" /\ f[3].kind = "body"
    BY <2>2 DEF Token
  <2>5. OneCall(f, c)
    BY <2>1, <2>3, <2>4 DEF OneCall
  <2> QED BY <2>5 DEF f
<1>8. CASE ~Seals
  <2>1. Len(f) = 2 /\ f[1] = head[1] /\ f[2] = tail[1]
    <3>1. Len(head) = 1 /\ Len(tail) = 1
      BY <1>2, <1>4, <1>8
    <3> QED BY <1>6, <3>1
  <2>2. /\ f[1] = Token("header", n) /\ f[2] = Token("body", n)
    BY <1>2, <1>4, <1>8, <2>1
  <2>3. Follows(f[1], f[2])
    BY <1>8, <2>2 DEF Follows, Token
  <2>4. f[1].kind = "header" /\ f[2].kind = "body"
    BY <2>2 DEF Token
  <2>5. OneCall(f, c)
    BY <2>1, <2>3, <2>4 DEF OneCall
  <2> QED BY <2>5 DEF f
<1> QED BY <1>7, <1>8

\* What a server flushes for a body that it cannot encode.
LEMMA LeftoverIsOneCall == \A n \in Calls : OneCall(Leftover(n), "shut")
<1> TAKE n \in Calls
<1>1. OneCall(<<>>, "shut")
  BY DEF OneCall
<1>2. OneCall(<<Token("header", n)>>, "shut")
  BY DEF OneCall, Token
<1> QED BY <1>1, <1>2 DEF Leftover

\* The tokens of one call behind the frames of others.
LEMMA FlushFrames ==
  ASSUME StreamInv, conn = "up", NEW tokens \in Seq(Tokens),
         OneCall(tokens, conn'),
         flushed' = flushed \o tokens, encBuf' = <<>>, UNCHANGED <<codec, taken>>,
         codec.pipelined \/ (buf = <<>> /\ wire = <<>>)
  PROVE  FramesInv' /\ TurnsInv'
<1> DEFINE L == Len(flushed)
           T == Len(tokens)
<1>1. /\ flushed \in Seq(Tokens) /\ L \in Nat /\ T \in Nat
      /\ Len(flushed') = L + T
      /\ \A i \in 1..L + T : flushed'[i] = IF i <= L THEN flushed[i] ELSE tokens[i - L]
  BY LenProperties, ConcatProperties DEF StreamInv, TypeOK
<1>2. /\ \A i \in 1..L : i < L => Follows(flushed[i], flushed[i + 1])
      /\ L > 0 => flushed[L].kind = "body" /\ flushed[1].kind = "header"
  <2>1. FramesInv
    BY DEF StreamInv
  <2>2. L > 0 => flushed # <<>>
    BY EmptySeq
  <2> QED BY <1>1, <2>1, <2>2 DEF FramesInv
<1>3. /\ T > 0 => tokens[1].kind = "header"
      /\ \A i \in 1..T : i < T => Follows(tokens[i], tokens[i + 1])
      /\ T > 0 => tokens[T].kind = "body" \/ (tokens[T].kind = "header" /\ conn' = "shut")
      /\ \A i \in 2..T : tokens[i].kind # "header"
  <2>1. T > 0 => tokens[1].kind = "header"
    BY DEF OneCall
  <2>2. \A i \in 1..T : i < T => Follows(tokens[i], tokens[i + 1])
    BY DEF OneCall
  <2>3. \A i \in 1..T : ~(i < T) =>
           tokens[i].kind = "body" \/ (tokens[i].kind = "header" /\ conn' = "shut")
    BY DEF OneCall
  <2>4. T > 0 => T \in 1..T /\ ~(T < T)
    BY <1>1
  <2>5. \A i \in 2..T : tokens[i].kind # "header"
    BY DEF OneCall
  <2> QED BY <2>1, <2>2, <2>3, <2>4, <2>5
<1> HIDE DEF L, T
<1>0. L \in Nat /\ T \in Nat
  BY <1>1
<1>4. ASSUME NEW i \in 1..L + T, i < L + T
      PROVE  Follows(flushed'[i], flushed'[i + 1])
  <2>1. CASE i < L
    <3>1. i \in 1..L /\ i + 1 \in 1..L + T /\ i <= L /\ i + 1 <= L
      BY <1>0, <2>1
    <3>2. flushed'[i] = flushed[i] /\ flushed'[i + 1] = flushed[i + 1]
      BY <1>1, <3>1
    <3> QED BY <1>2, <2>1, <3>1, <3>2
  <2>2. CASE i = L
    <3>1. flushed'[i].kind = "body"
      BY <1>1, <1>2, <1>4, <2>2
    <3>2. flushed'[i + 1] = tokens[1] /\ T > 0
      BY <1>1, <1>4, <2>2
    <3> QED BY <1>3, <3>1, <3>2 DEF Follows
  <2>3. CASE i > L
    <3>1. /\ i - L \in 1..T /\ i - L < T /\ (i + 1) - L = (i - L) + 1
          /\ i + 1 \in 1..L + T /\ ~(i <= L) /\ ~(i + 1 <= L)
      BY <1>1, <1>4, <2>3
    <3>2. flushed'[i] = tokens[i - L] /\ flushed'[i + 1] = tokens[(i - L) + 1]
      <4>1. /\ flushed'[i] = tokens[i - L] /\ flushed'[i + 1] = tokens[(i + 1) - L]
        BY <1>1, <3>1
      <4> QED BY <3>1, <4>1
    <3> QED BY <1>3, <3>1, <3>2
  <2>4. i < L \/ i = L \/ i > L
    BY <1>0
  <2> QED BY <2>1, <2>2, <2>3, <2>4, Zenon
<1>5. ASSUME L + T > 0
      PROVE  \/ flushed'[L + T].kind = "body"
             \/ flushed'[L + T].kind = "header" /\ conn' = "shut"
  <2>1. CASE T = 0
    <3>1. L + T = L /\ L > 0 /\ L \in 1..L + T
      BY <1>0, <1>5, <2>1
    <3> QED BY <1>1, <1>2, <3>1
  <2>2. CASE T > 0
    <3>1. flushed'[L + T] = tokens[T]
      BY <1>1, <2>2
    <3> QED BY <1>3, <2>2, <3>1
  <2>3. T = 0 \/ T > 0
    BY <1>0
  <2> QED BY <2>1, <2>2, <2>3, Zenon
<1>6. FramesInv'
  <2>1. ASSUME NEW i \in 1..Len(flushed')
        PROVE  IF i < Len(flushed') THEN Follows(flushed'[i], flushed'[i + 1])
               ELSE \/ flushed'[i].kind = "body"
                    \/ flushed'[i].kind = "header" /\ conn' = "shut"
    <3>1. i \in 1..L + T /\ (i < L + T \/ (i = L + T /\ L + T > 0))
      BY <1>1
    <3> QED BY <1>1, <1>4, <1>5, <3>1
  <2>2. codec' = codec /\ encBuf' = <<>>
    OBVIOUS
  <2>3. ASSUME flushed' # <<>> PROVE flushed'[1].kind = "header"
    <3>1. L + T > 0
      <4>1. flushed' \in Seq(Tokens)
        BY <1>1, ConcatProperties
      <4>2. Len(flushed') # 0
        BY <2>3, <4>1, EmptySeq
      <4> QED BY <1>0, <1>1, <4>2
    <3>2. CASE L > 0
      BY <1>0, <1>1, <1>2, <3>2
    <3>3. CASE L = 0
      <4>1. T > 0 /\ 1 \in 1..L + T /\ ~(1 <= L) /\ 1 - L = 1
        BY <1>0, <3>1, <3>3
      <4> QED BY <1>1, <1>3, <4>1
    <3>4. L > 0 \/ L = 0
      BY <1>0
    <3> QED BY <3>2, <3>3, <3>4, Zenon
  <2> QED BY <2>1, <2>2, <2>3 DEF FramesInv, Follows, Seals
<1>7. TurnsInv'
  <2> SUFFICES ASSUME ~codec.pipelined,
                      NEW i \in (Len(taken) + 2)..(L + T)
               PROVE  flushed'[i].kind # "header"
    BY <1>1 DEF TurnsInv
  <2>1. Len(taken) = L
    <3>1. Len(Ready) = 0
      BY ReadyTypes, ConcatEmptySeq, EmptySeq DEF StreamInv, Ready
    <3>2. Len(Seen) = Len(taken) + Len(Ready) /\ Len(taken) \in Nat
      BY Buffers, LenProperties DEF StreamInv, TypeOK
    <3>3. Seen = flushed
      BY SeenIsFlushed DEF StreamInv
    <3> QED BY <3>1, <3>2, <3>3 DEF L
  <2>2. i \in 1..L + T /\ ~(i <= L) /\ i - L \in 2..T
    BY <1>1, <2>1
  <2> QED BY <1>1, <1>3, <2>2
<1> QED BY <1>6, <1>7

\* The four ways to write keep the stream in order.
LEMMA WriteStep ==
  ASSUME StreamInv, Sound(codec), TypeOK',
         WriteRequest \/ WriteResponse \/ WriteRequestFail \/ WriteResponseFail
  PROVE  StreamInv' /\ UNCHANGED <<codec, rVars>>
<1>0. /\ NextCall /\ UNCHANGED <<codec, rVars>>
      /\ conn = "up"
      /\ codec.pipelined \/ (buf = <<>> /\ wire = <<>>)
  BY DEF WriteRequest, WriteResponse, WriteRequestFail, WriteResponseFail, NextCall
<1>1. written + 1 \in Calls /\ UNCHANGED <<codec, taken, buf>>
  <2>1. MaxCalls \in Nat /\ written \in 0..MaxCalls /\ written < MaxCalls
    BY <1>0, StreamAssumption DEF StreamInv, TypeOK, NextCall
  <2> QED BY <1>0, <2>1 DEF Calls, rVars
<1>2. Frame(written + 1) \in Seq(Tokens) /\ Leftover(written + 1) \in Seq(Tokens)
  BY <1>1, FrameTypes
<1>3. ASSUME NEW tokens \in Seq(Tokens), Flush(tokens), OneCall(tokens, conn')
      PROVE  StreamInv'
  <2>1. flushed' = flushed \o tokens /\ encBuf' = <<>> /\ NothingLost'
    BY <1>0, <1>1, <1>3, FlushSeen
  <2>2. FramesInv' /\ TurnsInv'
    BY <1>0, <1>1, <1>3, <2>1, FlushFrames
  <2>3. StepInv'
    BY <1>0 DEF StreamInv, StepInv, LastTaken, rVars
  <2> QED BY <2>1, <2>2, <2>3 DEF StreamInv
<1>4. CASE WriteRequest \/ WriteResponse
  <2>1. Flush(Frame(written + 1)) /\ conn' = "up"
    BY <1>0, <1>4 DEF WriteRequest, WriteResponse
  <2>2. OneCall(Frame(written + 1), conn')
    BY <1>1, FrameIsOneCall
  <2> QED BY <1>0, <1>2, <1>3, <2>1, <2>2
<1>5. CASE WriteResponseFail
  <2>1. Flush(Leftover(written + 1)) /\ conn' = "shut"
    BY <1>5 DEF WriteResponseFail
  <2>2. OneCall(Leftover(written + 1), conn')
    BY <1>1, <2>1, LeftoverIsOneCall
  <2> QED BY <1>0, <1>2, <1>3, <2>1, <2>2
<1>6. CASE WriteRequestFail
  <2>1. /\ codec.encodeFails /\ codec.writer = "client"
        /\ encBuf' = encBuf \o Leftover(written + 1)
        /\ UNCHANGED <<codec, flushed, conn, wire, rVars>>
    BY <1>6 DEF WriteRequestFail
  <2>2. Leftover(written + 1) = <<>>
    BY <2>1 DEF Sound, Leftover, Seals
  <2>3. encBuf' = <<>>
    BY <2>1, <2>2 DEF StreamInv, FramesInv
  <2>4. UNCHANGED <<taken, buf, rest, at, wire, flushed, conn, codec>>
    BY <2>1 DEF rVars
  <2>5. FramesInv' /\ TurnsInv' /\ StepInv' /\ NothingLost'
    BY <2>3, <2>4
    DEF StreamInv, FramesInv, Follows, Seals, TurnsInv, StepInv, LastTaken, NothingLost
  <2> QED BY <1>0, <2>5 DEF StreamInv
<1> QED BY <1>4, <1>5, <1>6

\* A cut loses the end of the stream and nothing else.
LEMMA CutStep ==
  ASSUME StreamInv, TypeOK', Cut
  PROVE  StreamInv'
<1>1. /\ conn = "up" /\ conn' = "cut"
      /\ UNCHANGED <<codec, encBuf, flushed, taken, buf, rest, at>>
  BY DEF Cut, rVars
<1>2. PICK k \in 0..Len(wire) : wire' = SubSeq(wire, 1, k)
  BY DEF Cut
<1> DEFINE lost == SubSeq(wire, k + 1, Len(wire))
<1>3. /\ wire \in Seq(Tokens) /\ taken \o buf \in Seq(Tokens)
      /\ wire' \in Seq(Tokens) /\ lost \in Seq(Tokens)
  BY <1>2, ConcatProperties, CutSeq DEF StreamInv, TypeOK
<1>4. wire' \o lost = wire
  BY <1>2, CutSeq DEF StreamInv, TypeOK
<1> HIDE DEF lost
<1>5. ((taken \o buf) \o wire') \o lost = (taken \o buf) \o (wire' \o lost)
  <2>1. taken \o buf \in Seq(Tokens) /\ wire' \in Seq(Tokens) /\ lost \in Seq(Tokens)
    BY <1>3
  <2> QED BY <2>1, TokensAssociate, Zenon
<1>6. Seen' \o lost = Seen
  BY <1>1, <1>4, <1>5, Zenon DEF Seen
<1>7. Seen = flushed
  BY <1>1, SeenIsFlushed DEF StreamInv
<1>8. IsPrefix(Seen', flushed')
  <2>1. Seen' \in Seq(Tokens)
    BY <1>1, <1>3, ConcatProperties DEF Seen
  <2>2. IsPrefix(Seen', Seen' \o lost)
    BY <1>3, <2>1, PrefixOfConcat
  <2> QED BY <1>1, <1>6, <1>7, <2>2
<1>9. NothingLost'
  BY <1>1, <1>8 DEF NothingLost, Seen
<1>10. FramesInv' /\ TurnsInv' /\ StepInv'
  BY <1>1 DEF StreamInv, FramesInv, Follows, Seals, TurnsInv, StepInv, LastTaken
<1> QED BY <1>9, <1>10 DEF StreamInv

\* A codec with a key finds the prefix only if the writer has a key too.
LEMMA PrefixMeansKey ==
  ASSUME StreamInv, at = "body", Ready # <<>>
  PROVE  Ready[1].kind = "magic" <=> Seals
  BY NextToken DEF Token

\* The first token of a decoder's buffer is the first that is ready.
LEMMA BufIsReady ==
  ASSUME TypeOK, buf # <<>>
  PROVE  Ready # <<>> /\ Ready[1] = Head(buf)
<1>1. buf \in Seq(Tokens) /\ wire \in Seq(Tokens)
  BY DEF TypeOK
<1>2. Len(buf) \in Nat \ {0} /\ Len(wire) \in Nat
  BY <1>1, EmptySeq, LenProperties
<1>3. Ready[1] = buf[1]
  BY <1>1, <1>2, ConcatProperties DEF Ready
<1>4. Ready # <<>>
  BY <1>1, ConcatEqualIffEmpty DEF Ready
<1> QED BY <1>1, <1>3, <1>4

\* A reader in step hands over its whole buffer, and callers of a JSON codec
\* with a key take turns.
LEMMA JSONCryptoReader ==
  ASSUME StreamInv, Sound(codec), reader = "json", Opens, Pulled \o wire # <<>>
  PROVE  Pulled \o wire = Ready /\ codec.enc = "json" /\ ~codec.pipelined
<1>1. TypeOK /\ rest = 0
  BY DEF StreamInv, StepInv
<1>2. Pulled = buf
  BY <1>1, PulledTypes
<1>3. codec.enc = "json"
  BY <1>1, PulledTypes, RightEncoding
<1> QED BY <1>2, <1>3 DEF Ready, Sound, Opens

\* readCryptoBodySource between callers that take turns.
LEMMA SourceStep ==
  ASSUME StreamInv, Sound(codec), TypeOK', readCryptoBodySource
  PROVE  StreamInv'
<1>1. TypeOK /\ rest = 0
  BY DEF StreamInv, StepInv
<1>2. /\ reader = "json" /\ at = "body" /\ Opens /\ UNCHANGED wVars
      /\ Pulled \o wire # <<>>
  BY DEF readCryptoBodySource
<1>3. Pulled \o wire = Ready /\ ~codec.pipelined
  BY <1>2, JSONCryptoReader
<1>4. Ready # <<>> /\ Ready[1].kind = "magic"
  BY <1>2, <1>3 DEF readCryptoBodySource
<1>5. Seals
  BY <1>2, <1>4, PrefixMeansKey
<1>6. Len(Ready) <= 2
  BY <1>2, <1>3, <1>4, <1>5, NextToken
<1>7. Moves /\ rest' = 0
  BY <1>1, <1>6, SourceMoves
<1>8. /\ taken' = taken \o SubSeq(Ready, 1, 2)
      /\ at' \in {"header", "closed"} /\ Len(Ready) > 1
  <2>1. PICK k \in 2..(IF Len(Pulled) > 1 THEN Len(Pulled) ELSE Len(Ready)) :
           /\ taken' = taken \o SubSeq(Ready, 1, 2)
           /\ at' \in {"header", "closed"}
    BY <1>3 DEF readCryptoBodySource, Deliver, Refuse
  <2>2. /\ Len(Ready) \in Nat /\ Len(Pulled) \in Nat /\ Len(wire) \in Nat
        /\ Len(Ready) = Len(Pulled) + Len(wire)
    BY <1>1, <1>3, PulledTypes, LenProperties DEF TypeOK
  <2> QED BY <2>1, <2>2
<1>9. LastTaken'.kind = "body"
  <2>1. Ready \in Seq(Tokens) /\ Len(Ready) = 2 /\ taken \in Seq(Tokens) /\ Len(taken) \in Nat
    <3>1. Ready \in Seq(Tokens)
      BY <1>1, ReadyTypes
    <3>2. Len(Ready) = 2
      <4> DEFINE m == Len(Ready)
      <4>1. m \in Nat /\ m <= 2 /\ m > 1
        BY <1>6, <1>8, <3>1, LenProperties
      <4> HIDE DEF m
      <4>2. m = 2
        BY <4>1
      <4> QED BY <4>2 DEF m
    <3>3. taken \in Seq(Tokens) /\ Len(taken) \in Nat
      BY <1>1, LenProperties DEF TypeOK
    <3> QED BY <3>1, <3>2, <3>3
  <2>2. taken' = taken \o Ready
    <3>1. SubSeq(Ready, 1, Len(Ready)) = Ready
      BY <2>1, SubSeqFull
    <3> QED BY <1>8, <2>1, <3>1
  <2>3. Len(taken') = Len(taken) + 2 /\ taken'[Len(taken) + 2] = Ready[2]
    <3> DEFINE n == Len(taken)
               all == taken \o Ready
    <3>0. /\ Len(taken \o Ready) = Len(taken) + Len(Ready)
          /\ \A i \in 1 .. Len(taken) + Len(Ready) :
               (taken \o Ready)[i] = IF i <= Len(taken) THEN taken[i] ELSE Ready[i - Len(taken)]
      BY <2>1, ConcatProperties
    <3>1. /\ Len(all) = n + 2
          /\ \A i \in 1 .. n + 2 : all[i] = IF i <= n THEN taken[i] ELSE Ready[i - n]
      BY <2>1, <3>0
    <3>2. n \in Nat /\ all = taken'
      BY <2>1, <2>2
    <3> HIDE DEF n, all
    <3>3. n + 2 \in 1 .. n + 2 /\ ~(n + 2 <= n) /\ (n + 2) - n = 2
      BY <3>2
    <3>4. all[n + 2] = Ready[2]
      BY <3>1, <3>3
    <3> QED BY <3>1, <3>2, <3>4 DEF n
  <2>4. Ready[2] = Token("body", Current)
    BY <1>2, <1>4, <1>5, <1>8, NextToken
  <2> QED BY <2>3, <2>4 DEF LastTaken, Token
<1>10. StepInv'
  BY <1>7, <1>8, <1>9 DEF StepInv
<1> QED BY <1>2, <1>7, <1>10, ReaderStep

\* A body without a prefix, between callers that take turns.
LEMMA InvalidMagicStep ==
  ASSUME StreamInv, Sound(codec), TypeOK', ReadBodyInvalidMagic
  PROVE  StreamInv'
<1>1. TypeOK /\ rest = 0 /\ taken \in Seq(Tokens) /\ Len(taken) \in Nat
  BY LenProperties DEF StreamInv, StepInv, TypeOK
<1>2. /\ reader = "json" /\ at = "body" /\ Opens /\ UNCHANGED wVars
      /\ Pulled \o wire # <<>>
  BY DEF ReadBodyInvalidMagic
<1>3. Pulled \o wire = Ready /\ ~codec.pipelined
  BY <1>2, JSONCryptoReader
<1>4. Ready # <<>> /\ Ready[1].kind # "magic"
  BY <1>2, <1>3 DEF ReadBodyInvalidMagic
<1>5. ~Seals
  BY <1>2, <1>4, PrefixMeansKey
<1>6. Len(Ready) <= 1
  BY <1>2, <1>3, <1>4, <1>5, NextToken
<1>7. Moves /\ rest' = 0
  BY <1>1, <1>6, InvalidMagicMoves
<1>8. \/ at' = "closed"
      \/ /\ at' \in {"header", "closed"} /\ Ready[1].kind = "body"
         /\ taken' = Append(taken, Ready[1])
  BY <1>3 DEF ReadBodyInvalidMagic, Refuse
<1>9. at' = "closed" \/ (at' = "header" /\ LastTaken'.kind = "body")
  <2>1. Ready[1] \in Tokens
    BY <1>1, <1>4, ReadyTypes
  <2>2. taken' = Append(taken, Ready[1]) =>
           Len(taken') = Len(taken) + 1 /\ taken'[Len(taken) + 1] = Ready[1]
    BY <1>1, <2>1, AppendProperties
  <2> QED BY <1>8, <2>2 DEF LastTaken
<1>10. StepInv'
  BY <1>7, <1>9 DEF StepInv
<1> QED BY <1>2, <1>7, <1>10, ReaderStep

\* Every step keeps the stream in order.
LEMMA NextStream ==
  ASSUME \A s \in Sessions : Sound(s), StreamInv, [Next]_vars
  PROVE  StreamInv'
<1>1. TypeOK /\ TypeOK' /\ Sound(codec)
  BY NextTypes DEF StreamInv, TypeOK
<1>2. CASE WriteRequest \/ WriteResponse \/ WriteRequestFail \/ WriteResponseFail
  BY <1>1, <1>2, WriteStep
<1>3. CASE Cut
  BY <1>1, <1>3, CutStep
<1>4. CASE Sniff \/ Fill
  <2>1. UNCHANGED <<wVars, taken, at>>
    BY <1>4 DEF Sniff, Fill
  <2>2. ~(rest' \in 0..(rest - 1))
    BY DEF StreamInv, StepInv
  <2> QED BY <1>1, <1>4, <2>1, <2>2, FillMoves, IdleStep
<1>5. CASE SniffEOF \/ SniffFails
  <2>1. UNCHANGED <<wVars, taken>> /\ at' \in {at, "closed"} /\ rest' = 0
    BY <1>5 DEF SniffEOF, SniffFails, StreamInv, StepInv
  <2> QED BY <1>1, <1>5, <2>1, SniffEOFMoves, IdleStep
<1>6. CASE ReadHeader
  <2>1. /\ UNCHANGED wVars /\ rest' = 0 /\ at = "header" /\ reader # "unknown"
        /\ buf # <<>> /\ taken' = Append(taken, Head(buf))
        /\ at' = "closed" \/ (at' = "body" /\ PassesForHeader(Head(buf)))
    BY <1>1, <1>6, SomePulled DEF ReadHeader, StreamInv, StepInv
  <2>2. LastTaken' = Head(buf)
    BY <1>1, <2>1, MoveHead DEF TypeOK, LastTaken
  <2>3. StepInv'
    BY <2>1, <2>2, NextHeader DEF StepInv
  <2> QED BY <1>1, <1>6, <2>1, <2>3, ReadHeaderMoves, ReaderStep
<1>7. CASE ReadBodyGob \/ ReadBodyJSON
  <2>1. /\ TakeBody /\ reader # "unknown" /\ UNCHANGED wVars /\ rest' = 0 /\ at = "body"
        /\ buf # <<>> /\ taken' = Append(taken, Head(buf)) /\ Head(buf).kind # "magic"
        /\ at' = "header"
    BY <1>1, <1>7, SomePulled
    DEF ReadBodyGob, ReadBodyJSON, TakeBody, Deliver, StreamInv, StepInv
  <2>2. LastTaken' = Head(buf)
    BY <1>1, <2>1, MoveHead DEF TypeOK, LastTaken
  <2>3. Head(buf).kind = "body"
    BY <1>1, <2>1, BufIsReady, NextToken DEF Token
  <2>4. StepInv'
    BY <2>1, <2>2, <2>3 DEF StepInv
  <2> QED BY <1>1, <2>1, <2>4, TakeBodyMoves, ReaderStep
<1>8. CASE ReadRequestBodyGobCrypto \/ ReadResponseBodyGobCrypto \/ ReadBodyWrongPrefix
  <2>1. TakeSealed \/ ReadBodyWrongPrefix
    BY <1>8 DEF ReadRequestBodyGobCrypto, ReadResponseBodyGobCrypto
  <2>2. /\ reader = "gob" /\ at' \in {"header", "closed"} /\ rest' = 0 /\ Ready # <<>>
        /\ UNCHANGED wVars
    <3>1. Len(Ready) > 1 => Ready # <<>>
      BY <1>1, ReadyTypes
    <3> QED BY <2>1, <3>1 DEF TakeSealed, ReadBodyWrongPrefix, Deliver, Refuse, Ready,
                              StreamInv, StepInv
  <2>3. codec.enc = "gob"
    BY <1>1, <2>2, ReadyTypes, RightEncoding
  <2>4. StepInv'
    BY <2>2, <2>3 DEF StepInv, wVars
  <2> QED BY <1>1, <2>1, <2>2, <2>4, TakeSealedMoves, WrongPrefixMoves, ReaderStep
<1>9. CASE \/ ReadRequestBodyJSONCrypto \/ ReadResponseBodyJSONCrypto
           \/ ReadBodyInvalidMagic
  <2>1. readCryptoBodySource \/ ReadBodyInvalidMagic
    BY <1>9 DEF ReadRequestBodyJSONCrypto, ReadResponseBodyJSONCrypto
  <2> QED BY <1>1, <2>1, SourceStep, InvalidMagicStep
<1>10. CASE ReadEOF \/ ReadBodyGarbled
  <2>1. UNCHANGED <<wVars, taken>> /\ at' = "closed" /\ rest' = 0
    BY <1>10 DEF ReadEOF, ReadBodyGarbled, StreamInv, StepInv
  <2> QED BY <1>1, <1>10, <2>1, EndMoves, IdleStep
<1>11. CASE UNCHANGED vars
  <2>1. Len(taken) \in Nat
    BY <1>1, LenProperties DEF TypeOK
  <2>2. UNCHANGED <<wVars, taken, at>> /\ Moves /\ rest' = 0
    BY <1>11, <2>1 DEF vars, rVars, Moves, Seen, StreamInv, StepInv
  <2> QED BY <1>1, <2>2, IdleStep
<1> QED
  BY <1>2, <1>3, <1>4, <1>5, <1>6, <1>7, <1>8, <1>9, <1>10, <1>11
  DEF Next, ReadBody

\* Nothing has been framed, taken or lost at the start.
LEMMA InitStream == Init => StreamInv
<1> SUFFICES ASSUME Init PROVE StreamInv
  OBVIOUS
<1>1. taken = <<>> /\ buf = <<>> /\ wire = <<>> /\ flushed = <<>> /\ encBuf = <<>>
  BY DEF Init
<1>2. Len(<<>>) = 0 /\ <<>> \o <<>> = <<>>
  BY EmptySeq, ConcatEmptySeq
<1>3. IsPrefix(<<>>, <<>>)
  BY DEF IsPrefix
<1>4. NothingLost
  BY <1>1, <1>2, <1>3 DEF NothingLost
<1>5. FramesInv /\ TurnsInv /\ StepInv
  BY <1>1, <1>2 DEF Init, FramesInv, TurnsInv, StepInv
<1> QED BY <1>4, <1>5, InitTypes DEF StreamInv

\* How the two ends of a session fit together: frames in order, nothing left in
\* the writer's buffer, nothing lost but by a cut.  For every session that is
\* used as Sound says, for any number of calls and any segmentation.
THEOREM StreamInductive ==
  ASSUME \A s \in Sessions : Sound(s)
  PROVE  Spec => []StreamInv
<1>1. StreamInv /\ [Next]_vars => StreamInv'
  BY NextStream
<1> QED BY <1>1, InitStream, PTL DEF Spec

\* No message is lost, duplicated or reordered between the two ends: the buffers
\* that the gob codecs share, the JSON decoders' rest of a buffer and, for calls
\* that do not overlap, the blob decoder of the JSON crypto codec keep every byte
\* for its reader.
THEOREM StreamKeepsAll ==
  ASSUME \A s \in Sessions : Sound(s)
  PROVE  Spec => []NothingLost
<1>1. StreamInv => NothingLost
  BY DEF StreamInv
<1> QED BY <1>1, StreamInductive, PTL

-----------------------------------------------------------------------------
(* Pairs and keys.                                                         *)

\* Keys that match: both ends have one or none, and what one seals the other
\* opens.
LEMMA MatchingKeys ==
  /\ Decrypt => SameKey
  /\ SameKey => (Opens <=> Seals)
  /\ SameKey /\ Opens => Decrypt
  BY DEF Decrypt, SameKey, Opens, Seals, normalizeKey

\* A body that is read is that of the header in front of it and the keys match,
\* or nothing is handed on and the keys do not match.
LEMMA BodyOutcome ==
  ASSUME StreamInv, ReadBody \/ ReadBodyWrongPrefix \/ ReadBodyInvalidMagic
  PROVE  /\ codec' = codec /\ at = "body"
         /\ \/ SameKey /\ pairs' = Append(pairs, <<Current, Current>>) /\ refused' = refused
            \/ ~SameKey /\ pairs' = pairs
<1>0. TypeOK
  BY DEF StreamInv
<1>1. CASE ReadBodyGob \/ ReadBodyJSON
  <2>1. /\ codec' = codec /\ at = "body" /\ ~Opens /\ buf # <<>>
        /\ Head(buf).kind # "magic" /\ Deliver(Head(buf))
    BY <1>0, <1>1, SomePulled DEF ReadBodyGob, ReadBodyJSON, TakeBody, wVars
  <2>2. Ready # <<>> /\ Ready[1] = Head(buf)
    BY <1>0, <2>1, BufIsReady
  <2>3. ~Seals
    BY <2>1, <2>2, PrefixMeansKey
  <2>4. Head(buf) = Token("body", Current)
    BY <2>1, <2>2, <2>3, NextToken
  <2>5. SameKey
    BY <2>1, <2>3 DEF SameKey, Seals, Opens
  <2>6. Head(buf).call = Current
    BY <2>4 DEF Token
  <2> QED BY <2>1, <2>5, <2>6 DEF Deliver
<1>2. CASE \/ ReadRequestBodyGobCrypto \/ ReadResponseBodyGobCrypto
           \/ ReadRequestBodyJSONCrypto \/ ReadResponseBodyJSONCrypto
  <2>1. TakeSealed \/ readCryptoBodySource
    BY <1>2 DEF ReadRequestBodyGobCrypto, ReadResponseBodyGobCrypto,
                ReadRequestBodyJSONCrypto, ReadResponseBodyJSONCrypto
  <2>2. /\ codec' = codec /\ at = "body" /\ Opens /\ Len(Ready) > 1
        /\ Ready[1].kind = "magic"
        /\ IF Decrypt THEN Deliver(Ready[2]) ELSE Refuse
    <3>1. CASE TakeSealed
      BY <3>1 DEF TakeSealed, Ready, wVars
    <3>2. CASE readCryptoBodySource
      <4>1. Pulled \o wire = Ready
        BY <1>0, PulledTypes DEF StreamInv, StepInv, Ready
      <4>2. /\ Len(Ready) \in Nat /\ Len(Pulled) \in Nat /\ Len(wire) \in Nat
            /\ Len(Ready) = Len(Pulled) + Len(wire)
        BY <1>0, <4>1, PulledTypes, LenProperties DEF TypeOK
      <4>3. PICK k \in 2..(IF Len(Pulled) > 1 THEN Len(Pulled) ELSE Len(Ready)) : TRUE
        BY <3>2, <4>1 DEF readCryptoBodySource
      <4>4. Len(Ready) > 1
        BY <4>2, <4>3
      <4> QED BY <3>2, <4>1, <4>4 DEF readCryptoBodySource, wVars
    <3> QED BY <2>1, <3>1, <3>2
  <2>3. Ready # <<>>
    BY <1>0, <2>2, ReadyTypes
  <2>4. Seals
    BY <2>2, <2>3, PrefixMeansKey
  <2>5. Ready[2] = Token("body", Current)
    BY <2>2, <2>3, <2>4, NextToken
  <2>6. Ready[2].call = Current
    BY <2>5 DEF Token
  <2>7. CASE Decrypt
    BY <2>2, <2>6, <2>7, MatchingKeys DEF Deliver
  <2>8. CASE ~Decrypt
    BY <2>2, <2>8, MatchingKeys DEF Refuse
  <2> QED BY <2>7, <2>8
<1>3. CASE ReadBodyWrongPrefix \/ ReadBodyInvalidMagic
  <2>1. /\ codec' = codec /\ at = "body" /\ Opens /\ Ready # <<>>
        /\ Ready[1].kind # "magic" /\ pairs' = pairs
    <3>1. Pulled \o wire = Ready
      BY <1>0, PulledTypes DEF StreamInv, StepInv, Ready
    <3>2. CASE ReadBodyWrongPrefix
      BY <3>2 DEF ReadBodyWrongPrefix, Refuse, Ready, wVars
    <3>3. CASE ReadBodyInvalidMagic
      BY <3>1, <3>3 DEF ReadBodyInvalidMagic, Refuse, wVars
    <3> QED BY <1>3, <3>2, <3>3
  <2>2. ~Seals
    BY <2>1, PrefixMeansKey
  <2> QED BY <2>1, <2>2, MatchingKeys
<1> QED BY <1>1, <1>2, <1>3 DEF ReadBody

\* The other steps hand on no body.
LEMMA NoBody ==
  ASSUME [Next]_vars, ~(ReadBody \/ ReadBodyWrongPrefix \/ ReadBodyInvalidMagic)
  PROVE  UNCHANGED <<codec, pairs, refused>>
  BY DEF Next, WriteRequest, WriteResponse, WriteRequestFail, WriteResponseFail, Cut,
         Sniff, SniffEOF, SniffFails, Fill, ReadHeader, ReadEOF, ReadBodyGarbled, vars, wVars, rVars

\* Every header is paired with the body of its own call.
THEOREM HeadersGetTheirBodies ==
  ASSUME \A s \in Sessions : Sound(s)
  PROVE  Spec => []PairsMatch
<1>1. Init => PairsMatch
  BY EmptySeq DEF Init, PairsMatch
<1>2. StreamInv /\ PairsMatch /\ [Next]_vars => PairsMatch'
  <2> SUFFICES ASSUME StreamInv, PairsMatch, [Next]_vars PROVE PairsMatch'
    OBVIOUS
  <2>1. CASE pairs' = pairs
    BY <2>1 DEF PairsMatch
  <2>2. CASE pairs' = Append(pairs, <<Current, Current>>) /\ at = "body"
    <3>1. pairs \in Seq(Calls \X Calls) /\ <<Current, Current>> \in Calls \X Calls
      BY <2>2, CurrentCall DEF StreamInv, TypeOK
    <3>2. /\ Len(pairs) \in Nat /\ Len(pairs') = Len(pairs) + 1
          /\ \A i \in 1..Len(pairs) : pairs'[i] = pairs[i]
          /\ pairs'[Len(pairs) + 1] = <<Current, Current>>
      BY <2>2, <3>1, AppendProperties, LenProperties
    <3>3. ASSUME NEW i \in 1..Len(pairs')
          PROVE  pairs'[i][1] = pairs'[i][2]
      <4>1. i \in 1..Len(pairs) \/ i = Len(pairs) + 1
        BY <3>2
      <4> QED BY <3>2, <4>1 DEF PairsMatch
    <3> QED BY <3>3 DEF PairsMatch
  <2> QED BY <2>1, <2>2, BodyOutcome, NoBody
<1> QED BY <1>1, <1>2, StreamInductive, PTL DEF Spec

\* No body passes between ends whose keys do not match, one of which may have
\* none; between ends whose keys match, none is refused.
THEOREM KeysAreChecked ==
  ASSUME \A s \in Sessions : Sound(s)
  PROVE  Spec => []KeysGuardBodies
<1>1. Init => KeysGuardBodies
  BY DEF Init, KeysGuardBodies
<1>2. StreamInv /\ KeysGuardBodies /\ [Next]_vars => KeysGuardBodies'
  <2> SUFFICES ASSUME StreamInv, KeysGuardBodies, [Next]_vars PROVE KeysGuardBodies'
    OBVIOUS
  <2>1. /\ codec' = codec
        /\ SameKey => refused' = refused
        /\ ~SameKey => pairs' = pairs
    BY BodyOutcome, NoBody
  <2> QED BY <2>1 DEF KeysGuardBodies, SameKey
<1> QED BY <1>1, <1>2, StreamInductive, PTL DEF Spec
=============================================================================
