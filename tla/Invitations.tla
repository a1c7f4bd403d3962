---------------------------- MODULE Invitations -----------------------------
(***************************************************************************)
(* What a node promises about whom it lets into its network: every peer it *)
(* trusts was let in by an invitation of its own, an invitation lets in one*)
(* peer and is no good after it, and who was told that it is accepted stays*)
(* trusted, also when the node stops and starts again.                     *)
(***************************************************************************)
CONSTANTS Tickets, Peers

VARIABLES
    issued, \* invitations handed out
    good,   \* those that can still let a peer in
    known,  \* peers the node trusts, now or when it starts again
    told    \* peers that were told they are accepted

vars == <<issued, good, known, told>>

Init == issued = {} /\ good = {} /\ known = {} /\ told = {}

\* Invitations may lapse at any time, and do so when others are issued.
Issue(t) ==
    /\ t \notin issued
    /\ issued' = issued \cup {t}
    /\ \E left \in SUBSET good : good' = left \cup {t}
    /\ UNCHANGED <<known, told>>

Lapse ==
    /\ good' \in SUBSET good
    /\ UNCHANGED <<issued, known, told>>

Admit(t, p) ==
    /\ t \in good
    /\ good' = good \ {t}
    /\ known' = known \cup {p}
    /\ UNCHANGED <<issued, told>>

Accept(p) ==
    /\ p \in known
    /\ told' = told \cup {p}
    /\ good' \in SUBSET good
    /\ UNCHANGED <<issued, known>>

\* A peer that was accepted never hears of it, or does not want it any more.
GiveUp(p) ==
    /\ told' = told \ {p}
    /\ UNCHANGED <<issued, good, known>>

\* The node stops.  Peers it has not told it may forget.
Stop ==
    /\ known' \in SUBSET known
    /\ told \subseteq known'
    /\ good' \in SUBSET good
    /\ UNCHANGED <<issued, told>>

Next ==
    \/ \E t \in Tickets : Issue(t)
    \/ Lapse
    \/ \E t \in Tickets, p \in Peers : Admit(t, p)
    \/ \E p \in Peers : Accept(p) \/ GiveUp(p)
    \/ Stop

Spec == Init /\ [][Next]_vars
=============================================================================
