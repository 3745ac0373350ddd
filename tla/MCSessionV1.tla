---------------------------- MODULE MCSessionV1 -----------------------------
(* TLC instance of the version 1 client and server.                        *)
EXTENDS SessionV1
=============================================================================
