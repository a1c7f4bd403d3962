---------------------------- MODULE RouteVector -----------------------------
(***************************************************************************)
(* One node's RouteTable as the bounded vector it is: the loops of         *)
(* apply_routes and rebuild_routing_table, with the order of the entries   *)
(* and MAX_ROUTE_TABLE_ENTRIES, driven by the neighbors that come and go   *)
(* and by the advertisements they send.  The runs compare the vector with  *)
(* the maps of RoutingTable.tla and look at what happens when it is full.  *)
(*                                                                         *)
(* A loop of the code is the function from the number of turns done to the *)
(* table after them.                                                       *)
(***************************************************************************)
EXTENDS RoutingTable, Sequences, Functions

CONSTANTS
    Peers,          \* the ids of the neighbors
    MaxId,          \* the largest id (2^256 - 1)
    MaxPeers,       \* MAX_TOPOLOGY_PEERS (16)
    MaxRoutes,      \* MAX_ROUTE_TABLE_ENTRIES (16)
    Advertisements  \* sequences of [destination, metric] that neighbors may send

\* The topology holds at most as many peers as the routing table has entries,
\* and no node has the id 0.
ASSUME PeersAssumption ==
    /\ MaxId \in Nat
    /\ MaxPeers \in Nat
    /\ MaxRoutes \in Nat
    /\ MaxPeers <= MaxRoutes
    /\ Peers \subseteq Nodes \cap 1 .. MaxId

\* Metrics are any that validate_route_advertisement lets through, 0 included.
\* No destination is named twice: that is not checked, but an advertisement is
\* made from the sender's table, which has one entry per destination (see
\* EveryRouteBacked).
ASSUME AdvertisementsAssumption ==
    \A a \in Advertisements :
        /\ a \in Seq([destination : Nodes, metric : 0 .. Infinity])
        /\ \A i, j \in DOMAIN a : a[i].destination = a[j].destination => i = j

VARIABLES
    peers,      \* the ids in app.topology.peers, in their order
    routes,     \* app.routing_table.routes
    connected,  \* ids of the peers in state Connected
    direct,     \* those that were alive at the last rebuild
    stored      \* app.route_advertisements: neighbor -> routes advertised

vars == <<peers, routes, connected, direct, stored>>

Entry(d, n, m) == [destination |-> d, next_hop |-> n, metric |-> m]

IndexOf(table, d) ==
    LET found == {i \in DOMAIN table : table[i].destination = d}
    IN  IF found = {} THEN 0 ELSE CHOOSE i \in found : \A j \in found : i <= j

-----------------------------------------------------------------------------
(***************************************************************************)
(* routing_add_route: replace a matching entry only by a better one, append*)
(* while there is room.                                                    *)
(***************************************************************************)
AddRoute(table, entry) ==
    LET i == IndexOf(table, entry.destination)
    IN  IF i # 0
        THEN IF Preferred(entry, table[i]) THEN [table EXCEPT ![i] = entry] ELSE table
        ELSE IF Len(table) < MaxRoutes THEN Append(table, entry) ELSE table

\* Mutant: withdrawn routes are left in the table.
EraseNothing(table, neighbor, advertised) == table

\* The route stays when the neighbor's advertisement comes.
Stays(r, neighbor, advertised) ==
    \/ r.next_hop # neighbor
    \/ r.destination = neighbor
    \/ \E i \in DOMAIN advertised : advertised[i].destination = r.destination

\* The erase_if at the head of apply_routes: the entries left of the first i.
Kept(table, neighbor, advertised) ==
    LET kept[i \in 0 .. Len(table)] ==
            IF i = 0 THEN <<>>
            ELSE IF Stays(table[i], neighbor, advertised)
                 THEN Append(kept[i - 1], table[i]) ELSE kept[i - 1]
    IN  kept

EraseWithdrawn(table, neighbor, advertised) ==
    Kept(table, neighbor, advertised)[Len(table)]

\* Mutant: a neighbor's worse metric does not replace its better one.
ReplacesIfBetter(entry, old) == Preferred(entry, old)

\* better_metric, deterministic_tie or refresh_same_neighbor.
ReplacesEntry(entry, old) == Preferred(entry, old) \/ old.next_hop = entry.next_hop

\* One turn of apply_routes' loop: the table after one advertised route.
ApplyOne(table, neighbor, route) ==
    LET m     == CandidateMetric(route.metric)
        i     == IndexOf(table, route.destination)
        entry == Entry(route.destination, neighbor, m)
    IN  CASE route.destination = neighbor -> table
          [] route.destination # neighbor /\ m >= Infinity ->
                IF i # 0 /\ table[i].next_hop = neighbor
                THEN [table EXCEPT ![i].metric = Infinity] ELSE table
          [] route.destination # neighbor /\ m < Infinity /\ i = 0 ->
                IF Len(table) < MaxRoutes THEN Append(table, entry) ELSE table
          [] OTHER ->
                IF ReplacesEntry(entry, table[i])
                THEN [table EXCEPT ![i] = entry] ELSE table

\* The loop of apply_routes over the advertised routes.
Applied(table, neighbor, advertised) ==
    LET turn[i \in 0 .. Len(advertised)] ==
            IF i = 0 THEN EraseWithdrawn(table, neighbor, advertised)
            ELSE ApplyOne(turn[i - 1], neighbor, advertised[i])
    IN  turn

\* apply_routes.  Its result "changed" is "the table differs": every branch
\* that assigns sets it only when the entry differs (last_update aside).
ApplyVector(table, neighbor, advertised) ==
    Applied(table, neighbor, advertised)[Len(advertised)]

\* The direct routes of the peers that are alive, in the order of the topology.
DirectAdded(table, known, alive) ==
    LET turn[i \in 0 .. Len(known)] ==
            IF i = 0 THEN table
            ELSE IF known[i] \in alive
                 THEN AddRoute(turn[i - 1], Entry(known[i], known[i], LinkCost))
                 ELSE turn[i - 1]
    IN  turn

AddDirect(table, known, alive) == DirectAdded(table, known, alive)[Len(known)]

\* The stored advertisements of the connected neighbors, in the order of their ids.
AdvertisedAdded(table, conn, store) ==
    LET turn[n \in 0 .. MaxId] ==
            IF n = 0 THEN table
            ELSE IF n \in conn \cap DOMAIN store
                 THEN ApplyVector(turn[n - 1], n, store[n]) ELSE turn[n - 1]
    IN  turn

AddAdvertised(table, conn, store) == AdvertisedAdded(table, conn, store)[MaxId]

\* Mutant: the advertised routes come first.
RebuildAdvertisedFirst(known, alive, conn, store) ==
    AddDirect(AddAdvertised(<<>>, conn, store), known, alive)

\* rebuild_routing_table: direct routes first, then the stored advertisements.
RebuildVector(known, alive, conn, store) ==
    AddAdvertised(AddDirect(<<>>, known, alive), conn, store)

-----------------------------------------------------------------------------
Init ==
    /\ peers = <<>>
    /\ routes = <<>>
    /\ connected = {}
    /\ direct = {}
    /\ stored = [n \in {} |-> <<>>]

Rebuilt(alive) ==
    /\ direct' = alive
    /\ routes' = RebuildVector(peers', alive, connected', stored')

\* A peer that is new enters the topology while there is room.
Enters(n) ==
    \/ n \in Range(peers) /\ UNCHANGED peers
    \/ n \notin Range(peers) /\ Len(peers) < MaxPeers /\ peers' = Append(peers, n)

\* activate_neighbor or touch_neighbor of a peer that was not Connected.  Some
\* other connected peers may have been silent for more than 5 s.
NeighborUp(n) ==
    /\ n \notin connected
    /\ Enters(n)
    /\ connected' = connected \cup {n}
    /\ UNCHANGED stored
    /\ \E alive \in SUBSET connected : Rebuilt(alive \cup {n})

\* deactivate_neighbor: the stored advertisement goes too.
NeighborDown(n) ==
    /\ n \in connected
    /\ connected' = connected \ {n}
    /\ stored' = Without(stored, {n})
    /\ UNCHANGED peers
    /\ \E alive \in SUBSET connected' : Rebuilt(alive)

\* routing_loop erases an advertisement it has not seen renewed for 6 s.
AdvertisementExpires(n) ==
    /\ n \in DOMAIN stored
    /\ stored' = Without(stored, {n})
    /\ UNCHANGED <<peers, connected>>
    /\ \E alive \in SUBSET connected : Rebuilt(alive)

\* The ROUTE_ADVERTISEMENT branch of run_session, for an accepted one: apply
\* it, store it, and rebuild only when applying it changed the table.
ReceiveAdvertisement(n, advertised) ==
    LET applied == ApplyVector(routes, n, advertised)
    IN  /\ n \in connected
        /\ stored' = With(stored, n, advertised)
        /\ UNCHANGED <<peers, connected>>
        /\ IF applied # routes
           THEN \E alive \in SUBSET connected : n \in alive /\ Rebuilt(alive)
           ELSE UNCHANGED <<routes, direct>>

Next ==
    \E n \in Peers :
        \/ NeighborUp(n)
        \/ NeighborDown(n)
        \/ AdvertisementExpires(n)
        \/ \E a \in Advertisements : ReceiveAdvertisement(n, a)

Spec == Init /\ [][Next]_vars
-----------------------------------------------------------------------------
\* The map a vector stands for, and that of an advertisement.
AsMap(table) ==
    [d \in {table[i].destination : i \in DOMAIN table} |->
        [next_hop |-> table[IndexOf(table, d)].next_hop,
         metric   |-> table[IndexOf(table, d)].metric]]

VectorOf(advertised) ==
    [d \in {advertised[i].destination : i \in DOMAIN advertised} |->
        advertised[IndexOf(advertised, d)].metric]

StoredVectors == [n \in DOMAIN stored |-> VectorOf(stored[n])]

\* Every destination anyone connected has fits into the vector.
Fits ==
    Cardinality(direct \cup UNION {DOMAIN StoredVectors[n] : n \in connected \cap DOMAIN stored})
        <= MaxRoutes

\* While every destination fits, the vector - also after an advertisement that
\* changed nothing and so caused no rebuild, and also when more had to fit a
\* step before - is what a rebuild from the stored advertisements would compute:
\* for each destination the most preferred candidate (rebuild_routing_table, and
\* the "if (!changed) continue" of the ROUTE_ADVERTISEMENT handler).
VectorIsRebuild ==
    Fits => AsMap(routes) = Rebuild(direct, connected, StoredVectors)

\* The loop of apply_routes computes ApplyRoutes, whatever advertisement comes
\* next that fits, and does not depend on the order of the advertised routes.
LoopIsApplyRoutes ==
    \A n \in connected, a \in Advertisements :
        Cardinality(DOMAIN AsMap(routes) \cup DOMAIN VectorOf(a)) <= MaxRoutes =>
            AsMap(ApplyVector(routes, n, a)) = ApplyRoutes(AsMap(routes), n, VectorOf(a))

\* The connected neighbor h says that its distance to n is 0.
ClaimsToBe(h, n) ==
    /\ h \in connected \cap DOMAIN stored
    /\ \E i \in DOMAIN stored[h] : stored[h][i] = [destination |-> n, metric |-> 0]

\* A direct neighbor never loses its place in the table, however many
\* destinations the others advertise, nor gets a longer route: it keeps its own
\* (rebuild_routing_table adds the direct routes before any advertised one, and
\* apply_routes never evicts), unless a connected neighbor with a lower id
\* claims the distance 0 to it and wins the tie. Whoever else advertises it,
\* and with whatever metric, does not get it.
DirectRoutesKept ==
    \A n \in direct :
        /\ IndexOf(routes, n) # 0
        /\ LET h == routes[IndexOf(routes, n)].next_hop
           IN  /\ routes[IndexOf(routes, n)] = Entry(n, h, LinkCost)
               /\ h # n => h < n /\ ClaimsToBe(h, n)

\* The table is bounded, holds one entry per destination, and every entry is
\* backed by a direct neighbor or by what its next hop advertises now: nothing
\* outlives the information it came from, even when the table is full.
EveryRouteBacked ==
    /\ Len(routes) <= MaxRoutes
    /\ \A i, j \in DOMAIN routes : routes[i].destination = routes[j].destination => i = j
    /\ \A i \in DOMAIN routes :
        [next_hop |-> routes[i].next_hop, metric |-> routes[i].metric]
            \in RouteCandidates(direct, connected, StoredVectors, routes[i].destination)
=============================================================================
