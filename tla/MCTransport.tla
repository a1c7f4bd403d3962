---------------------------- MODULE MCTransport -----------------------------
(* The threads that send, for the run of Transport.                        *)
EXTENDS Transport

CONSTANTS s1, s2
=============================================================================
