---------------------------- MODULE RoutingTable ----------------------------
(***************************************************************************)
(* The distance-vector computations of src/network, as operators on maps.  *)
(* A RouteTable is a vector of routes with one entry per destination; here *)
(* it is the function from the destinations it holds to [next_hop, metric].*)
(* An advertisement's routes are the function from destination to metric:  *)
(* it is made from such a table, so it has one route per destination (the  *)
(* receiver does not check this). RouteVector.tla keeps the vector, the    *)
(* order of its entries and its capacity, and its run compares it with     *)
(* these definitions.                                                      *)
(*                                                                         *)
(* Node ids are 32-byte strings compared lexicographically: any totally    *)
(* ordered set serves, so they are natural numbers here.  A destination's  *)
(* IPv6 address is a function of its id (virtual_address), checked when an *)
(* advertisement is validated, so same_destination is equality of ids.     *)
(***************************************************************************)
EXTENDS Integers, FiniteSets

CONSTANTS
    Nodes,      \* the ids of the nodes of the network
    Infinity    \* ROUTE_METRIC_INFINITY (16)

ASSUME NodesAssumption == Nodes \subseteq Nat
ASSUME InfinityAssumption == Infinity \in Nat /\ Infinity > 2

\* The link_cost every caller in daemon.cpp passes.
LinkCost == 1

Routes == [next_hop : Nodes, metric : 1 .. Infinity]

\* f is a function from a subset of S to T.
IsMap(f, S, T) == DOMAIN f \subseteq S /\ f \in [DOMAIN f -> T]

With(f, x, v) == [y \in DOMAIN f \cup {x} |-> IF y = x THEN v ELSE f[y]]

Without(f, S) == [x \in DOMAIN f \ S |-> f[x]]

IsTable(t) == IsMap(t, Nodes, Routes)

\* What validate_route_advertisement lets through: any metric up to Infinity,
\* also 0, which no table holds and so no node sends.
Vectors == UNION {[D -> 0 .. Infinity] : D \in SUBSET Nodes}

NoRoutes == [d \in {} |-> [next_hop |-> d, metric |-> Infinity]]

-----------------------------------------------------------------------------
(***************************************************************************)
(* distance_vector.cpp: apply_routes                                       *)
(***************************************************************************)

\* Mutant: the link is free.
AdvertisedMetric(advertised) == advertised

CandidateMetric(advertised) ==
    IF LinkCost + advertised < Infinity THEN LinkCost + advertised ELSE Infinity

\* The metric the routing tables order routes by, ties by next hop.
Preferred(r, q) ==
    \/ r.metric < q.metric
    \/ r.metric = q.metric /\ r.next_hop < q.next_hop

\* Destinations whose advertised metric can be used: the neighbor itself is
\* skipped, and an infinite metric never creates or replaces an entry.
Usable(neighbor, vector) ==
    {d \in DOMAIN vector \ {neighbor} : CandidateMetric(vector[d]) < Infinity}

\* Routes through the neighbor that it no longer advertises are erased.
Withdrawn(table, neighbor, vector) ==
    {d \in DOMAIN table \ {neighbor} :
        table[d].next_hop = neighbor /\ d \notin DOMAIN vector}

\* Routes through the neighbor that it now advertises as unreachable stay in
\* the table with an infinite metric.
Poisoned(table, neighbor, vector) ==
    {d \in (DOMAIN table \cap DOMAIN vector) \ {neighbor} :
        /\ table[d].next_hop = neighbor
        /\ CandidateMetric(vector[d]) = Infinity}

Candidate(neighbor, vector, d) ==
    [next_hop |-> neighbor, metric |-> CandidateMetric(vector[d])]

Replaces(table, neighbor, vector, d) ==
    \/ d \notin DOMAIN table
    \/ table[d].next_hop = neighbor
    \/ Preferred(Candidate(neighbor, vector, d), table[d])

ApplyRoutes(table, neighbor, vector) ==
    LET usable == Usable(neighbor, vector)
        kept   == DOMAIN table \ Withdrawn(table, neighbor, vector)
    IN  [d \in kept \cup usable |->
            IF d \in usable /\ Replaces(table, neighbor, vector, d)
            THEN Candidate(neighbor, vector, d)
            ELSE IF d \in Poisoned(table, neighbor, vector)
                 THEN [table[d] EXCEPT !.metric = Infinity]
                 ELSE table[d]]

-----------------------------------------------------------------------------
(***************************************************************************)
(* distance_vector.cpp: distance_vector_update.  An origin state is        *)
(* [generation, sequence]; the update is refused unless it is newer.       *)
(***************************************************************************)

Fresher(stamp, last) ==
    \/ stamp.generation > last.generation
    \/ stamp.generation = last.generation /\ stamp.sequence > last.sequence

-----------------------------------------------------------------------------
(***************************************************************************)
(* daemon.cpp: rebuild_routing_table.  "direct" are the connected peers    *)
(* that are alive, "connected" the connected ones, "stored" the function   *)
(* from neighbor to its last accepted advertisement.                       *)
(*                                                                         *)
(* The code installs the direct routes and then applies the stored         *)
(* advertisements in the order of their senders' ids.  What that computes  *)
(* is the most preferred of all candidate routes.                          *)
(***************************************************************************)

RouteCandidates(direct, connected, stored, d) ==
    {[next_hop |-> n, metric |-> LinkCost] : n \in direct \cap {d}}
    \cup {Candidate(n, stored[n], d) :
            n \in {m \in connected \cap DOMAIN stored : d \in Usable(m, stored[m])}}

MostPreferred(R) ==
    CHOOSE r \in R : \A q \in R \ {r} : Preferred(r, q)

Rebuild(direct, connected, stored) ==
    [d \in {x \in Nodes : RouteCandidates(direct, connected, stored, x) # {}} |->
        MostPreferred(RouteCandidates(direct, connected, stored, d))]

-----------------------------------------------------------------------------
(***************************************************************************)
(* route_advertisement.cpp: route_create_advertisement with PoisonReverse, *)
(* the mode the daemon uses.                                               *)
(***************************************************************************)

\* Mutant: one more than the metric of an unreachable destination.
PoisonBeyondInfinity(table, target) ==
    [d \in DOMAIN table |->
        IF table[d].next_hop = target THEN Infinity + 1 ELSE table[d].metric]

PoisonReverse(table, target) ==
    [d \in DOMAIN table |->
        IF table[d].next_hop = target THEN Infinity ELSE table[d].metric]
=============================================================================
