----------------------------- MODULE MCClientV3 -----------------------------
(* TLC instances of the v3 client.                                         *)
EXTENDS ClientV3, TLC

\* Callers are interchangeable: every action treats them alike.
CallerSymmetry == Permutations(Callers)

\* A v3 server answers in the codec it sniffs; a v2 server knows only gob.
ServerV3 == {"json", "legacy"}
ServerV2 == {"legacy"}

OnlyV2    == {ServerV2}
AnyServer == {ServerV2, ServerV3}
=============================================================================
