----------------------------- MODULE MCClientV2 -----------------------------
(* TLC instances of the v2 client.                                         *)
EXTENDS ClientV2, TLC

\* Callers are interchangeable: every action treats them alike.
CallerSymmetry == Permutations(Callers)
=============================================================================
