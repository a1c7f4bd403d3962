---------------------------- MODULE MCDataPlane -----------------------------
(* The data plane and the port filter of its local delivery, in one run.   *)
(* They share no state, so every behaviour moves one of the two and leaves *)
(* the other as it started.                                                *)
EXTENDS DataPlane, PortFilter

BothInit == Init /\ FilterInit

BothNext ==
    \/ FilterInit /\ Next /\ UNCHANGED filterVars
    \/ Init /\ FilterNext /\ UNCHANGED vars

BothSpec == BothInit /\ [][BothNext]_<<vars, filterVars>> /\ ForwardingFairness
=============================================================================
