------------------------- MODULE MCNeighborThreads --------------------------
(* Instances of NeighborThreads.                                           *)
EXTENDS NeighborThreads, TLC

CONSTANTS w1, w2

\* Two sessions, one after the other, with the same peer.
SamePeer == (w1 :> 1) @@ (w2 :> 1)

\* One peer, one session at a time.
OnePeer == w1 :> 1

\* A neighbor whose only neighbor is this node, node 2, advertises nothing but
\* the poisoned route back to it.
LeafVectors == {[d \in {2} |-> Infinity]}

\* A neighbor with node 3 one hop away.
Node3Behind == {[d \in {3} |-> 1]}
=============================================================================
