---------------------------- MODULE MCLifecycle -----------------------------
(* An instance of Lifecycle: each connection is with a peer of its own.    *)
EXTENDS Lifecycle

OwnPeer == [s \in Sessions |-> s]
=============================================================================
