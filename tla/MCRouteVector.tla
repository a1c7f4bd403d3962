--------------------------- MODULE MCRouteVector ----------------------------
(***************************************************************************)
(* The advertisements for the run of RouteVector: one destination with any *)
(* metric (0 for the neighbors), two (node 3 and another) with the metric 1*)
(* or Infinity, and every set with the metric 1 in both orders, where a    *)
(* full table makes the order matter.                                      *)
(***************************************************************************)
EXTENDS RouteVector, SequencesExt

AscendingOf(D, f) ==
    LET order == SetToSortSeq(D, LAMBDA a, b : a < b)
    IN  [i \in DOMAIN order |-> [destination |-> order[i], metric |-> f[order[i]]]]

Ascending(sets, metrics) ==
    UNION {{AscendingOf(D, f) : f \in [D -> metrics]} : D \in sets}

ManyAdvertisements ==
    LET all == Ascending(SUBSET Nodes, {1})
    IN  Ascending({{d} : d \in Nodes}, {1, 2, Infinity})
            \cup Ascending({{d} : d \in Peers}, {0})
            \cup Ascending({D \in SUBSET Nodes : Cardinality(D) = 2 /\ 3 \in D}, {1, Infinity})
            \cup all \cup {Reverse(a) : a \in all}
=============================================================================
