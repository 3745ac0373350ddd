--------------------------- MODULE MCCodecStream ----------------------------
(* TLC instances of the codecs.                                            *)
EXTENDS CodecStream

\* No key, the same key in two forms, a key at one end only, different keys.
KeyPairs == {<<"none", "none">>, <<"secret", "digest">>, <<"secret", "none">>,
             <<"none", "secret">>, <<"secret", "other">>}
Keyless(s) == s.wkey = "none" /\ s.rkey = "none"

KeyedSessions == {s \in AllSessions : <<s.wkey, s.rkey>> \in KeyPairs}

\* Every way to use a session but two.
SoundSessions == {s \in KeyedSessions : Sound(s)}

\* The two ways that are left out.
PipelinedJSONCrypto == {s \in KeyedSessions :
    s.enc = "json" /\ s.wkey = "secret" /\ s.rkey = "digest" /\ s.pipelined /\ ~s.encodeFails}
OrphanJSONHeader == {s \in KeyedSessions :
    s.enc = "json" /\ s.writer = "client" /\ Keyless(s) /\ s.encodeFails}
=============================================================================
