---------------------------- MODULE CodecStream -----------------------------
(***************************************************************************)
(* One direction of an rpc2 session as the codecs see it: the writer puts  *)
(* a header and a body per call on the stream, the reader takes them off.  *)
(* Four codecs: gob, gob with encrypted bodies (codec and v2/codec, which  *)
(* have the same text), JSON and JSON with encrypted bodies (v3/codec).    *)
(*                                                                         *)
(* A session is shared by many callers, so calls are pipelined: a message  *)
(* may be on the wire before the one in front of it was read.  A read      *)
(* returns as many messages as have arrived, so every decoder reads ahead; *)
(* what matters is who owns the bytes that were read ahead.  The two ends  *)
(* are configured apart: their keys may differ, and one may have none.     *)
(*                                                                         *)
(* A message (header, CRYPT prefix, body) is a token; the bytes of a token *)
(* are not modelled, but for the first two of a stream.                    *)
(***************************************************************************)
EXTENDS Integers, Sequences, SequencesExt

CONSTANTS
    Sessions,    \* sessions to look at, see below
    MaxCalls     \* bound: calls on the session

\* Secrets that an end may be configured with; "digest" is the SHA-256 digest
\* of "secret".
Secrets == {"none", "secret", "digest", "other"}

\* A session has an encoding, the secrets of its writer and its reader, a
\* writing side (requests come from clients, responses from servers), bodies
\* that may fail to be encoded or none, and callers that overlap or take turns.
AllSessions == [enc : {"json", "gob"}, wkey : Secrets, rkey : Secrets,
                writer : {"client", "server"}, encodeFails : BOOLEAN, pipelined : BOOLEAN]

\* Two ways to use a session are known to break it: overlapping calls read by the
\* JSON crypto codec, which loses what it read ahead, and requests that cannot be
\* encoded, of clients whose codec buffers the header first.
Sound(s) ==
    /\ s.pipelined => s.enc = "gob" \/ s.rkey = "none"
    /\ s.encodeFails => s.writer = "server" \/ (s.enc = "gob" /\ s.wkey # "none")

ASSUME StreamAssumption ==
    /\ Sessions \subseteq AllSessions
    /\ MaxCalls \in Nat

Calls == 1..MaxCalls

VARIABLES
    codec,    \* the session's codecs and use
    reader,   \* encoding the reader uses; "unknown" until the server sniffed
    written,  \* calls for which WriteRequest or WriteResponse was called
    encBuf,   \* tokens encoded but not flushed
    wire,     \* tokens in the socket
    buf,      \* tokens that the reader's decoder has read ahead
    rest,     \* how many of them, at the end, were put back in front of the
              \* connection for a new decoder that has not pulled them yet
    flushed,  \* history: all tokens flushed so far
    taken,    \* history: all tokens decoded so far
    at,       \* what the reader wants next: "header", "body", "closed"
    pairs,    \* history: <<header, body>> pairs handed to the rpc package
    refused,  \* history: calls whose body was read with an error
    conn      \* "up", "shut" by the writer or "cut"

wVars == <<codec, written, encBuf, flushed, conn>>
rVars == <<reader, buf, rest, taken, at, pairs, refused>>
vars  == <<wVars, wire, rVars>>

Token(kind, n) == [kind |-> kind, call |-> n]
Tokens == [kind : {"header", "magic", "body"}, call : Calls]

\* Types of the buffers.  The reader uses the writer's encoding as soon as one
\* message has arrived; the choice can be wrong only for a stream that was cut
\* before that, of which nothing will be decoded.
TypeOK ==
    /\ codec \in Sessions
    /\ \/ reader = codec.enc
       \/ reader = "unknown" /\ taken \o buf = <<>> /\ at # "body"
       \/ reader \in {"json", "gob"} /\ taken \o buf \o wire = <<>> /\ conn # "up"
    /\ written \in 0..MaxCalls
    /\ encBuf \in Seq(Tokens) /\ wire \in Seq(Tokens) /\ buf \in Seq(Tokens)
    /\ flushed \in Seq(Tokens) /\ taken \in Seq(Tokens)
    /\ at \in {"header", "body", "closed"}
    /\ at = "body" => taken # <<>>
    /\ rest \in 0..Len(buf) /\ (reader # "json" => rest = 0)
    /\ pairs \in Seq(Calls \X Calls)
    /\ refused \subseteq Calls
    /\ conn \in {"up", "shut", "cut"}

Init ==
    /\ codec \in Sessions
    /\ reader = IF codec.writer = "client" THEN "unknown" ELSE codec.enc
    /\ written = 0
    /\ encBuf = <<>> /\ wire = <<>> /\ buf = <<>> /\ rest = 0
    /\ flushed = <<>> /\ taken = <<>>
    /\ at = "header"
    /\ pairs = <<>>
    /\ refused = {}
    /\ conn = "up"

-----------------------------------------------------------------------------
(* Keys.                                                                   *)

\* A secret of the length of an AES key is the key, any other is hashed to one.
normalizeKey(secret) == IF secret = "secret" THEN "digest" ELSE secret

\* NewServerCodec, NewClientCodec: without a key, the codecs without encryption.
Seals == codec.wkey # "none"
Opens == codec.rkey # "none"

\* Faulty variant of Decrypt: the tag of the ciphertext is not verified.
DecryptUnverified == Seals

\* AES-GCM opens what was sealed with the same key, and nothing else.
Decrypt == Seals /\ normalizeKey(codec.wkey) = normalizeKey(codec.rkey)

\* The two ends can talk: the same key, or none.
SameKey == normalizeKey(codec.wkey) = normalizeKey(codec.rkey)

-----------------------------------------------------------------------------
(* The writer.  The rpc package serialises the writers of a session.       *)

\* What the codecs with a key write for a body: a prefix and a blob.
CryptoBody(n) == <<Token("magic", n), Token("body", n)>>

\* The tokens of call n.
Frame(n) == <<Token("header", n)>> \o (IF Seals THEN CryptoBody(n)
                                                  ELSE <<Token("body", n)>>)

\* What is in encBuf when the body of call n cannot be encoded: the gob crypto
\* codec encodes the body before anything else, the others the header first.
Leftover(n) == IF codec.enc = "gob" /\ Seals THEN <<>> ELSE <<Token("header", n)>>

Flush(tokens) ==
    /\ wire' = wire \o encBuf \o tokens
    /\ flushed' = flushed \o encBuf \o tokens
    /\ encBuf' = <<>>

\* The writer's next call: at any time when calls are pipelined, else when the
\* reader has dealt with the one before.
NextCall ==
    /\ written < MaxCalls /\ conn = "up"
    /\ codec.pipelined \/ (buf = <<>> /\ wire = <<>> /\ at # "body")
    /\ written' = written + 1

\* WriteRequest and WriteResponse of a body that can be encoded.
WriteRequest ==
    /\ NextCall
    /\ codec.writer = "client"
    /\ Flush(Frame(written + 1))
    /\ UNCHANGED <<codec, conn, rVars>>

WriteResponse ==
    /\ NextCall
    /\ codec.writer = "server"
    /\ Flush(Frame(written + 1))
    /\ UNCHANGED <<codec, conn, rVars>>

\* WriteRequest fails in the body: the error is returned and nothing else
\* happens; the header stays in the buffer.
WriteRequestFail ==
    /\ NextCall
    /\ codec.encodeFails /\ codec.writer = "client"
    /\ encBuf' = encBuf \o Leftover(written + 1)
    /\ UNCHANGED <<codec, flushed, conn, wire, rVars>>

\* Faulty variant of WriteResponseFail: the connection stays open.
WriteResponseFailStaysOpen ==
    /\ NextCall
    /\ codec.encodeFails /\ codec.writer = "server"
    /\ Flush(Leftover(written + 1))
    /\ UNCHANGED <<codec, conn, rVars>>

\* WriteResponse fails in the body: what is buffered is flushed and the
\* connection is closed.  (The gob crypto codec closes without a flush, with
\* nothing in its buffer.)
WriteResponseFail ==
    /\ NextCall
    /\ codec.encodeFails /\ codec.writer = "server"
    /\ Flush(Leftover(written + 1))
    /\ conn' = "shut"
    /\ UNCHANGED <<codec, rVars>>

\* The connection breaks: what the reader has not yet got may be lost, but for
\* a first part of it.
Cut ==
    /\ conn = "up"
    /\ conn' = "cut"
    /\ \E k \in 0..Len(wire) : wire' = SubSeq(wire, 1, k)
    /\ UNCHANGED <<codec, written, encBuf, flushed, rVars>>

-----------------------------------------------------------------------------
(* The reader.                                                             *)

\* Faulty variant of isJSONStream: only the first byte is looked at.
isJSONStreamFirstByte(bytes) == bytes # <<>> /\ Head(bytes) = "{"

\* The test of a stream's first bytes: a brace and, if there is a second byte,
\* a quote (or a space, which this encoder does not write).
isJSONStream(bytes) ==
    /\ bytes # <<>> /\ Head(bytes) = "{"
    /\ Len(bytes) > 1 => bytes[2] = "quote"

\* The first two bytes of the streams of each encoding.  A gob stream begins with
\* the length of a type definition, which may happen to be that of a brace, and a
\* type id.
FirstBytes ==
    IF codec.enc = "json" THEN {<<"{", "quote">>} ELSE {<<"length", "id">>, <<"{", "id">>}

\* The encoding that follows from the bytes that could be peeked.
Chosen(bytes) == IF isJSONStream(bytes) THEN "json" ELSE "gob"

\* Faulty variant of Sniff: the bytes that were looked at are not given back.
SniffConsumes ==
    /\ reader = "unknown"
    /\ wire # <<>>
    /\ reader' = codec.enc
    /\ wire' = Tail(wire)
    /\ UNCHANGED <<wVars, buf, rest, taken, at, pairs, refused>>

\* sniffServerConn: the codec follows from the first bytes, which stay in the
\* connection's buffer for the decoder.
Sniff ==
    /\ reader = "unknown"
    /\ wire # <<>>
    /\ \E bytes \in FirstBytes : reader' = Chosen(bytes)
    /\ \E k \in 1..Len(wire) :
          /\ buf' = SubSeq(wire, 1, k)
          /\ wire' = SubSeq(wire, k + 1, Len(wire))
    /\ UNCHANGED <<wVars, rest, taken, at, pairs, refused>>

\* The connection ends before its first message is complete, perhaps inside the
\* first two bytes: a single brace counts as JSON, whoever wrote it, and nothing
\* at all is left to the gob codec.  Either decoder will see the end of the
\* stream.
SniffEOF ==
    /\ reader = "unknown" /\ at = "header"
    /\ wire = <<>> /\ conn # "up"
    /\ \E bytes \in FirstBytes, k \in 0..(IF flushed = <<>> THEN 0 ELSE 2) :
          reader' = Chosen(SubSeq(bytes, 1, k))
    /\ UNCHANGED <<wVars, wire, buf, rest, taken, at, pairs, refused>>

\* The first read fails with another error than the end of the stream: there
\* will be no codec.
SniffFails ==
    /\ reader = "unknown" /\ at = "header"
    /\ wire = <<>> /\ conn # "up"
    /\ at' = "closed"
    /\ UNCHANGED <<wVars, wire, reader, buf, rest, taken, pairs, refused>>

\* A decoder whose buffer is empty reads what is there, up to any point: first
\* what was put back, then what has arrived.
Fill ==
    /\ reader # "unknown"
    /\ at = "header" \/ (at = "body" /\ ~Opens)
    /\ rest = Len(buf)
    /\ \/ /\ rest' \in 0..(rest - 1)
          /\ UNCHANGED <<wire, buf>>
       \/ /\ buf = <<>> /\ wire # <<>>
          /\ \E k \in 1..Len(wire) :
                /\ buf' = SubSeq(wire, 1, k)
                /\ wire' = SubSeq(wire, k + 1, Len(wire))
          /\ UNCHANGED rest
    /\ UNCHANGED <<wVars, reader, taken, at, pairs, refused>>

\* What passes for a header: for JSON any object does, and a body that is not
\* encrypted may be one.
PassesForHeader(t) ==
    t.kind = "header" \/ (reader = "json" /\ t.kind = "body" /\ ~Seals)

\* ReadRequestHeader or ReadResponseHeader.  What cannot be decoded ends the
\* session.
ReadHeader ==
    /\ reader # "unknown" /\ at = "header"
    /\ Len(buf) > rest
    /\ taken' = Append(taken, Head(buf))
    /\ buf' = Tail(buf)
    /\ \/ at' = "body" /\ PassesForHeader(Head(buf))
       \/ at' = "closed" /\ Head(buf).kind # "header"
    /\ UNCHANGED <<wVars, reader, wire, rest, pairs, refused>>

\* The call whose header was decoded last.
Current == taken[Len(taken)].call

\* Body token t completes the call: the reader goes on with the next header.
\* With body = nil it is consumed all the same.
Deliver(t) ==
    /\ pairs' = Append(pairs, <<Current, t.call>>)
    /\ at' = "header"
    /\ UNCHANGED refused

\* The body is read with an error: the server answers with the error and reads
\* the next header, the client ends the session.
Refuse ==
    /\ refused' = refused \cup {Current}
    /\ at' = IF codec.writer = "client" THEN "header" ELSE "closed"
    /\ UNCHANGED pairs

\* The body that the codecs without a key take: the next message, whatever it
\* is.
TakeBody ==
    /\ at = "body" /\ ~Opens
    /\ Len(buf) > rest /\ Head(buf).kind # "magic"
    /\ Deliver(Head(buf))
    /\ taken' = Append(taken, Head(buf))
    /\ buf' = Tail(buf)
    /\ UNCHANGED <<wVars, reader, wire, rest>>

\* gob: Decode(nil) discards.
ReadBodyGob == reader = "gob" /\ TakeBody

\* Faulty variant of ReadBodyJSON: a body that nobody wants is not read.
ReadBodyJSONNoDiscard ==
    /\ reader = "json"
    /\ \/ TakeBody
       \/ /\ at = "body" /\ ~Opens
          /\ at' = "header"
          /\ UNCHANGED <<wVars, reader, wire, taken, buf, rest, pairs, refused>>

\* JSON: with body = nil the value is decoded into a RawMessage and dropped.
ReadBodyJSON == reader = "json" /\ TakeBody

\* An encrypted body reaches a codec without a key: no JSON value begins with
\* the prefix, and for gob its first byte is the length of a message that ends
\* somewhere in the blob or behind it.  The codec is out of step and no header
\* follows.  (The gob codec may also wait for the rest of that message.)
ReadBodyGarbled ==
    /\ at = "body" /\ ~Opens
    /\ Len(buf) > rest /\ Head(buf).kind = "magic"
    /\ at' = "closed"
    /\ UNCHANGED <<wVars, reader, wire, taken, buf, rest, pairs, refused>>

\* Faulty variant of TakeSealed: the blob is left in the buffer when it cannot
\* be decrypted.
TakeSealedLeavesBlob ==
    /\ reader = "gob" /\ at = "body" /\ Opens
    /\ LET ready == buf \o wire
           n     == IF Decrypt THEN 2 ELSE 1
       IN /\ Len(ready) > 1 /\ ready[1].kind = "magic"
          /\ wire' = <<>>
          /\ taken' = taken \o SubSeq(ready, 1, n)
          /\ buf' = SubSeq(ready, n + 1, Len(ready))
          /\ IF Decrypt THEN Deliver(ready[2]) ELSE Refuse
    /\ UNCHANGED <<wVars, reader, rest>>

\* The gob crypto codecs: prefix and blob come out of the one buffer that the
\* header decoder uses too.
TakeSealed ==
    /\ reader = "gob" /\ at = "body" /\ Opens
    /\ LET ready == buf \o wire
       IN /\ Len(ready) > 1 /\ ready[1].kind = "magic"
          /\ wire' = <<>>
          /\ taken' = taken \o SubSeq(ready, 1, 2)
          /\ buf' = SubSeq(ready, 3, Len(ready))
          /\ IF Decrypt THEN Deliver(ready[2]) ELSE Refuse
    /\ UNCHANGED <<wVars, reader, rest>>

\* cryptoServerCodec and cryptoClientCodec.
ReadRequestBodyGobCrypto  == codec.writer = "client" /\ TakeSealed
ReadResponseBodyGobCrypto == codec.writer = "server" /\ TakeSealed

\* A gob crypto codec finds something else than the prefix: it is only peeked
\* at, and stays for the header decoder.  (Peek waits for five bytes; a short
\* body alone does not make them.)
ReadBodyWrongPrefix ==
    /\ reader = "gob" /\ at = "body" /\ Opens
    /\ LET ready == buf \o wire
       IN /\ ready # <<>> /\ ready[1].kind # "magic"
          /\ wire' = <<>> /\ buf' = ready
    /\ Refuse
    /\ UNCHANGED <<wVars, reader, taken, rest>>

\* What the JSON decoder hands over with Buffered(): what it has pulled.
Pulled == SubSeq(buf, 1, Len(buf) - rest)

\* The JSON crypto codecs: the prefix is read byte by byte, first from what the
\* JSON decoder has buffered, then from the connection.  The blob is read by
\* a new gob decoder, which wraps its source (no io.ByteReader) in a buffer of
\* its own and reads ahead; that buffer is dropped with the decoder, and only
\* what it did not take is put back for the next header.  What had been put back
\* before and not been pulled is dropped with the JSON decoder.
readCryptoBodySource ==
    /\ reader = "json" /\ at = "body" /\ Opens
    /\ LET ready == Pulled \o wire
           \* A read of the blob returns from one source: the rest of the JSON
           \* decoder's buffer if there is any, else the connection.
           avail == IF Len(Pulled) > 1 THEN Len(Pulled) ELSE Len(ready)
       IN /\ ready # <<>> /\ ready[1].kind = "magic"
          /\ \E k \in 2..avail :
                /\ taken' = taken \o SubSeq(ready, 1, 2)
                /\ buf' = SubSeq(Pulled, k + 1, Len(Pulled))
                /\ wire' = IF Len(Pulled) > 1 THEN wire ELSE SubSeq(ready, k + 1, Len(ready))
                /\ IF Decrypt THEN Deliver(ready[2]) ELSE Refuse
    /\ rest' = Len(buf')
    /\ UNCHANGED <<wVars, reader>>

\* jsonCryptoServerCodec and jsonCryptoClientCodec.
ReadRequestBodyJSONCrypto  == codec.writer = "client" /\ readCryptoBodySource
ReadResponseBodyJSONCrypto == codec.writer = "server" /\ readCryptoBodySource

\* A JSON crypto codec finds something else than the prefix and has consumed its
\* first byte.  If that was all of it (a body of one digit), the next header
\* follows; else the rest is no header and ends the session.
ReadBodyInvalidMagic ==
    /\ reader = "json" /\ at = "body" /\ Opens
    /\ LET ready == Pulled \o wire
       IN /\ ready # <<>> /\ ready[1].kind # "magic"
          /\ \/ /\ at' = "closed" /\ refused' = refused \cup {Current}
                /\ UNCHANGED <<wire, buf, rest, taken, pairs>>
             \/ /\ ready[1].kind = "body"
                /\ taken' = Append(taken, ready[1])
                /\ buf' = SubSeq(Pulled, 2, Len(Pulled)) /\ rest' = Len(buf')
                /\ wire' = IF Pulled = <<>> THEN Tail(wire) ELSE wire
                /\ Refuse
    /\ UNCHANGED <<wVars, reader>>

\* The stream has ended: the next read fails and the session is over.
ReadEOF ==
    /\ reader # "unknown"
    /\ at # "closed" /\ conn # "up"
    /\ IF at = "body" /\ Opens THEN Len(Pulled \o wire) < 2 ELSE buf \o wire = <<>>
    /\ at' = "closed"
    /\ UNCHANGED <<wVars, reader, wire, buf, rest, taken, pairs, refused>>

ReadBody == \/ ReadBodyGob \/ ReadBodyJSON
            \/ ReadRequestBodyGobCrypto \/ ReadResponseBodyGobCrypto
            \/ ReadRequestBodyJSONCrypto \/ ReadResponseBodyJSONCrypto

Next == \/ WriteRequest \/ WriteResponse \/ WriteRequestFail \/ WriteResponseFail \/ Cut
        \/ Sniff \/ SniffEOF \/ SniffFails \/ Fill \/ ReadHeader \/ ReadBody \/ ReadEOF
        \/ ReadBodyGarbled \/ ReadBodyWrongPrefix \/ ReadBodyInvalidMagic

\* The reading goroutine reads what has arrived; the writer may stop.  Codecs
\* out of step may wait for more.
Fairness == WF_vars(\/ Sniff \/ SniffEOF \/ SniffFails
                    \/ Fill \/ ReadHeader \/ ReadBody \/ ReadEOF)

Spec     == Init /\ [][Next]_vars
FairSpec == Spec /\ Fairness
-----------------------------------------------------------------------------
(* Properties.                                                             *)

\* No message is lost, duplicated or reordered between the two ends: what the
\* reader has decoded, has buffered and can still read is what was flushed, up
\* to the point where the connection was cut.
NothingLost == LET seen == taken \o buf \o wire
               IN IsPrefix(seen, flushed) /\ (conn # "cut" => seen = flushed)

\* Every header is paired with the body of its own call: "on every call two
\* messages lie in the stream in a row, the header and the body".
PairsMatch == \A i \in 1..Len(pairs) : pairs[i][1] = pairs[i][2]

\* No body gets through between ends whose keys do not match, one of which may
\* have none; between ends whose keys match no body is refused.
KeysGuardBodies ==
    /\ ~SameKey => pairs = <<>>
    /\ SameKey => refused = {}

\* Token u may follow token t.
Follows(t, u) ==
    \/ t.kind = "header" /\ u = Token(IF Seals THEN "magic" ELSE "body", t.call)
    \/ t.kind = "magic" /\ u = Token("body", t.call)
    \/ t.kind = "body" /\ u.kind = "header"

\* What was flushed are the frames of calls, but for a header in front of the
\* end of a server's stream; nothing waits in encBuf.
FramesInv ==
    /\ encBuf = <<>>
    /\ flushed # <<>> => flushed[1].kind = "header"
    /\ \A i \in 1..Len(flushed) :
          IF i < Len(flushed) THEN Follows(flushed[i], flushed[i + 1])
          ELSE flushed[i].kind = "body" \/ (flushed[i].kind = "header" /\ conn = "shut")

\* Callers that take turns: no header is on its way behind another message.
TurnsInv == ~codec.pipelined =>
    \A i \in (Len(taken) + 2)..Len(flushed) : flushed[i].kind # "header"

LastTaken == taken[Len(taken)]

\* The reader is in step: it wants a body behind a header and, but for the gob
\* codec that leaves a body without its prefix in the buffer, a header behind a
\* body.  No decoder is replaced while it has something to put back.
StepInv ==
    /\ rest = 0
    /\ at = "body" => LastTaken.kind = "header"
    /\ codec.enc = "json" /\ at = "header" /\ taken # <<>> => LastTaken.kind = "body"

\* How the bytes of the two ends fit together while a session is used as Sound
\* says.
StreamInv == TypeOK /\ FramesInv /\ TurnsInv /\ StepInv /\ NothingLost

FlushedBody(n) == \E i \in 1..Len(flushed) : flushed[i] = Token("body", n)

\* Every call that was written completely reaches the other side, however
\* the reads cut the stream, if the ends can talk and stay connected.
AllDelivered == \A n \in Calls :
    (SameKey /\ FlushedBody(n))
        ~> (conn = "cut" \/ \E i \in 1..Len(pairs) : pairs[i][1] = n)

\* A body that cannot be decrypted is noticed for every call, and the session
\* gets over it: the server goes on to the calls behind it.
MismatchNoticed == \A n \in Calls :
    (Seals /\ Opens /\ ~SameKey /\ FlushedBody(n))
        ~> (conn = "cut" \/ n \in refused \/ (at = "closed" /\ codec.writer = "server"))
=============================================================================
