--------------------------- MODULE MCMeshRouting ----------------------------
(* Instances of MeshRouting: the shapes of small networks.                 *)
EXTENDS MeshRouting

Line == {{1, 2}, {2, 3}}

\* Hops between nodes of a network of at most three nodes.
Hops == [a \in Nodes |-> [b \in Nodes |->
            IF a = b THEN 0 ELSE IF {a, b} \in Links THEN 1 ELSE 2]]
=============================================================================
