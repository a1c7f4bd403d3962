---------------------------- MODULE MCAdmission -----------------------------
(* Instances of Admission.                                                 *)
EXTENDS Admission, TLC

\* Every peer has an address of its own.
OwnAddress == [p \in Peers |-> p]

\* Peers 1 and 2 collide.
Colliding == [p \in Peers |-> IF p = 2 THEN 1 ELSE p]

TicketSymmetry == Permutations(Tickets)
=============================================================================
