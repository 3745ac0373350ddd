------------------------------ MODULE MCServer ------------------------------
(* TLC instance of the server's accept loop.                               *)
EXTENDS Server
=============================================================================
