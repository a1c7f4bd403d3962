---------------------------- MODULE MeshRouting -----------------------------
(***************************************************************************)
(* The routing plane of a network of madoka nodes: sessions that are       *)
(* dialled, lost and found lost by each end on its own, neighbors that fall*)
(* silent, nodes that restart, and the route advertisements that travel    *)
(* between them.  Each handler of daemon.cpp that changes the topology, the*)
(* stored advertisements or the routing table is one atomic step here;     *)
(* NeighborThreads.tla splits one node's handlers at their locks.          *)
(*                                                                         *)
(* A session is a TCP connection between two daemons.  Both ends register  *)
(* it on their own and drop it on their own, so session[n] and session[p]  *)
(* may disagree for a while.  What n has sent to p and p has not read yet  *)
(* is channel[n][p], in order.                                             *)
(***************************************************************************)
EXTENDS RoutingTable, Sequences

CONSTANTS
    Links,          \* pairs {a, b} of nodes that trust each other
    MaxSequence,    \* bound: advertisements a node sends per generation
    MaxGeneration,  \* bound: times a node starts
    MaxInFlight,    \* bound: unread advertisements per direction of a session
    MaxFaults,      \* bound: failures and timeouts in a behaviour
    Distance        \* Distance[n][d]: hops from n to d if all Links are up

ASSUME LinksAssumption ==
    \A l \in Links : \E a, b \in Nodes : a # b /\ l = {a, b}
ASSUME BoundsAssumption ==
    /\ MaxSequence \in Nat
    /\ MaxGeneration \in Nat
    /\ MaxInFlight \in Nat
    /\ MaxFaults \in Nat
\* All that is used of a distance: a link is one hop, and going through a
\* linked neighbor is never shorter than the distance.
ASSUME DistanceAssumption ==
    /\ Distance \in [Nodes -> [Nodes -> Nat]]
    /\ \A a, b \in Nodes : {a, b} \in Links =>
        /\ Distance[a][b] <= 1
        /\ \A d \in Nodes : Distance[a][d] <= 1 + Distance[b][d]

VARIABLES
    session,    \* session[n]: peers n has a registered, open session with
    dialing,    \* <<a, b>>: a sent JOIN_REQUEST to b and awaits the response
    connected,  \* connected[n]: peers in state Connected in n's topology
    silent,     \* silent[n]: those not heard from for more than 5 s
    table,      \* table[n]: app.routing_table
    stored,     \* stored[n]: app.route_advertisements
    origin,     \* origin[n]: app.route_origins
    generation, \* generation[n]: identity.generation, kept on disk
    sequence,   \* sequence[n]: app.next_route_sequence
    channel,    \* channel[n][p]: advertisements sent by n, unread by p
    faults      \* failures so far, to bound them

nodeVars == <<connected, silent, table, stored, origin>>
vars == <<session, dialing, nodeVars, generation, sequence, channel, faults>>

Stamps == [generation : Nat, sequence : Nat]

\* What nodes send: the metrics of a table start at 1, a direct route's.
SentVectors == UNION {[D -> 1 .. Infinity] : D \in SUBSET Nodes}

Messages == [stamp : Stamps, vector : SentVectors]

TypeOK ==
    /\ session \in [Nodes -> SUBSET Nodes]
    /\ dialing \subseteq Nodes \X Nodes
    /\ connected \in [Nodes -> SUBSET Nodes]
    /\ silent \in [Nodes -> SUBSET Nodes]
    /\ DOMAIN table = Nodes
    /\ DOMAIN stored = Nodes
    /\ DOMAIN origin = Nodes
    /\ \A n \in Nodes :
        /\ IsTable(table[n])
        /\ IsMap(stored[n], Nodes, SentVectors)
        /\ IsMap(origin[n], Nodes, Stamps)
    /\ generation \in [Nodes -> Nat]
    /\ sequence \in [Nodes -> Nat]
    /\ channel \in [Nodes -> [Nodes -> Seq(Messages)]]
    /\ faults \in Nat

-----------------------------------------------------------------------------
Nothing == [x \in {} |-> x]

\* rebuild_routing_table at n, given n's new topology and advertisements.
RebuiltAt(n, conn, quiet, store) == Rebuild(conn \ quiet, conn, store)

\* Mutant: the table is rebuilt before the change.
RebuildBefore(n, conn, quiet, store) ==
    /\ connected' = [connected EXCEPT ![n] = conn]
    /\ silent' = [silent EXCEPT ![n] = quiet]
    /\ stored' = [stored EXCEPT ![n] = store]
    /\ table' = [table EXCEPT ![n] = RebuiltAt(n, connected[n], silent[n], stored[n])]

\* A step of node n sets its topology and its stored advertisements, and then
\* rebuilds its table.
RebuildAfter(n, conn, quiet, store) ==
    /\ connected' = [connected EXCEPT ![n] = conn]
    /\ silent' = [silent EXCEPT ![n] = quiet]
    /\ stored' = [stored EXCEPT ![n] = store]
    /\ table' = [table EXCEPT ![n] = RebuiltAt(n, conn, quiet, store)]

Init ==
    /\ session = [n \in Nodes |-> {}]
    /\ dialing = {}
    /\ connected = [n \in Nodes |-> {}]
    /\ silent = [n \in Nodes |-> {}]
    /\ table = [n \in Nodes |-> NoRoutes]
    /\ stored = [n \in Nodes |-> Nothing]
    /\ origin = [n \in Nodes |-> Nothing]
    /\ generation = [n \in Nodes |-> 1]
    /\ sequence = [n \in Nodes |-> 1]
    /\ channel = [n \in Nodes |-> [p \in Nodes |-> <<>>]]
    /\ faults = 0

\* Something went wrong that the program did not choose.
Fault == faults < MaxFaults /\ faults' = faults + 1

-----------------------------------------------------------------------------
(***************************************************************************)
(* Sessions                                                                *)
(***************************************************************************)

\* reconnect_step at a (only the lower id dials) up to the wait for the
\* response, together with accept_loop and the JOIN_REQUEST handler at b, which
\* registers the session, answers and activates a (bind_session).
Dial(a, b) ==
    /\ {a, b} \in Links
    /\ a < b
    /\ b \notin session[a]
    /\ a \notin session[b]
    /\ <<a, b>> \notin dialing
    /\ dialing' = dialing \cup {<<a, b>>}
    /\ session' = [session EXCEPT ![b] = @ \cup {a}]
    /\ channel' = [channel EXCEPT ![a][b] = <<>>, ![b][a] = <<>>]
    /\ RebuildAfter(b, connected[b] \cup {a}, silent[b] \ {a}, stored[b])
    /\ UNCHANGED <<origin, generation, sequence, faults>>

\* The JOIN_RESPONSE reaches a: register_session, activate_neighbor.
DialSucceeds(a, b) ==
    /\ <<a, b>> \in dialing
    /\ dialing' = dialing \ {<<a, b>>}
    /\ session' = [session EXCEPT ![a] = @ \cup {b}]
    /\ RebuildAfter(a, connected[a] \cup {b}, silent[a] \ {b}, stored[a])
    /\ UNCHANGED <<origin, generation, sequence, channel, faults>>

\* No response within 1500 ms, or another message first: a closes the
\* connection and b will notice.
DialFails(a, b) ==
    /\ <<a, b>> \in dialing
    /\ dialing' = dialing \ {<<a, b>>}
    /\ channel' = [channel EXCEPT ![b][a] = <<>>]
    /\ Fault
    /\ UNCHANGED <<session, nodeVars, generation, sequence>>

\* The worker of n's session with p leaves its loop (the connection failed or
\* the other end closed it): close_session, remove_session and
\* deactivate_neighbor.  What p sent is not read any more; what n sent may be.
SessionLost(n, p) ==
    /\ p \in session[n]
    /\ IF n \in session[p] \/ <<p, n>> \in dialing THEN Fault ELSE UNCHANGED faults
    /\ session' = [session EXCEPT ![n] = @ \ {p}]
    /\ channel' = [channel EXCEPT ![p][n] = <<>>]
    /\ RebuildAfter(n, connected[n] \ {p}, silent[n] \ {p}, Without(stored[n], {p}))
    /\ UNCHANGED <<dialing, origin, generation, sequence>>

\* Mutant: the generation of the previous start is used again.
SameGeneration(g) == g

\* identity_bump_generation.
NextGeneration(g) == g + 1

\* The daemon of n stops, losing all it holds in memory, and starts again:
\* identity_bump_generation writes the next generation before the network
\* starts, and next_route_sequence begins at 1.
Restart(n) ==
    /\ generation[n] < MaxGeneration
    /\ Fault
    /\ generation' = [generation EXCEPT ![n] = NextGeneration(@)]
    /\ sequence' = [sequence EXCEPT ![n] = 1]
    /\ session' = [session EXCEPT ![n] = {}]
    /\ dialing' = {e \in dialing : e[1] # n}
    /\ channel' = [p \in Nodes |-> [channel[p] EXCEPT ![n] = <<>>]]
    /\ origin' = [origin EXCEPT ![n] = Nothing]
    /\ connected' = [connected EXCEPT ![n] = {}]
    /\ silent' = [silent EXCEPT ![n] = {}]
    /\ stored' = [stored EXCEPT ![n] = Nothing]
    /\ table' = [table EXCEPT ![n] = NoRoutes]

-----------------------------------------------------------------------------
(***************************************************************************)
(* Messages                                                                *)
(***************************************************************************)

\* routing_loop sends its table to one active session, periodically or because
\* the table changed: the peer has a session, is Connected and is alive.
AdvertiseTo(n, p) ==
    /\ p \in session[n] \cap (connected[n] \ silent[n])
    /\ sequence[n] <= MaxSequence
    /\ Len(channel[n][p]) < MaxInFlight
    /\ sequence' = [sequence EXCEPT ![n] = @ + 1]
    /\ channel' = [channel EXCEPT ![n][p] = Append(@,
            [stamp  |-> [generation |-> generation[n], sequence |-> sequence[n]],
             vector |-> PoisonReverse(table[n], p)])]
    /\ UNCHANGED <<session, dialing, nodeVars, generation, faults>>

\* Mutant: a neighbor that is back causes no rebuild.
TouchedOnly(n, p) == table[n]

\* touch_neighbor: the table n has after hearing from p; it is rebuilt only
\* when p was not Connected.
Touched(n, p) ==
    IF p \in connected[n] THEN table[n]
    ELSE RebuiltAt(n, connected[n] \cup {p}, silent[n] \ {p}, stored[n])

\* n hears a HELLO, a FIND_NODE, a data packet: only touch_neighbor matters to
\* the routing plane.  p must still hold its end, or be about to.
HearFrom(n, p) ==
    /\ p \in session[n]
    /\ n \in session[p] \/ <<p, n>> \in dialing
    /\ p \notin connected[n] \ silent[n]
    /\ connected' = [connected EXCEPT ![n] = @ \cup {p}]
    /\ silent' = [silent EXCEPT ![n] = @ \ {p}]
    /\ table' = [table EXCEPT ![n] = Touched(n, p)]
    /\ UNCHANGED <<session, dialing, stored, origin, generation, sequence, channel, faults>>

\* distance_vector_update accepts an advertisement newer than the last one it
\* accepted from that sender.
Accepts(n, p, stamp) ==
    p \in DOMAIN origin[n] => Fresher(stamp, origin[n][p])

\* The ROUTE_ADVERTISEMENT branch of run_session: touch, check freshness, apply,
\* store, and rebuild if applying changed the table.
ReceiveAdvertisement(n, p) ==
    LET msg     == Head(channel[p][n])
        conn    == connected[n] \cup {p}
        quiet   == silent[n] \ {p}
        store   == With(stored[n], p, msg.vector)
        before  == Touched(n, p)
        applied == ApplyRoutes(before, p, msg.vector)
    IN  /\ p \in session[n]
        /\ channel[p][n] # <<>>
        /\ channel' = [channel EXCEPT ![p][n] = Tail(@)]
        /\ connected' = [connected EXCEPT ![n] = conn]
        /\ silent' = [silent EXCEPT ![n] = quiet]
        /\ IF Accepts(n, p, msg.stamp)
           THEN /\ origin' = [origin EXCEPT ![n] = With(@, p, msg.stamp)]
                /\ stored' = [stored EXCEPT ![n] = store]
                /\ table' = [table EXCEPT ![n] =
                        IF applied = before THEN before
                        ELSE RebuiltAt(n, conn, quiet, store)]
           ELSE /\ table' = [table EXCEPT ![n] = before]
                /\ UNCHANGED <<origin, stored>>
        /\ UNCHANGED <<session, dialing, generation, sequence, faults>>

-----------------------------------------------------------------------------
(***************************************************************************)
(* Time                                                                    *)
(***************************************************************************)

\* Five seconds pass without a message from p.
FallSilent(n, p) ==
    /\ p \in connected[n] \ silent[n]
    /\ Fault
    /\ silent' = [silent EXCEPT ![n] = @ \cup {p}]
    /\ UNCHANGED <<session, dialing, connected, table, stored, origin,
                   generation, sequence, channel>>

\* One pass of routing_loop that finds something to do: topology_prune_stale
\* disconnects the silent peers, the advertisements older than 6 s are erased,
\* and the table is rebuilt if either happened.
RoutingPass(n, expired) ==
    /\ expired \subseteq DOMAIN stored[n]
    /\ silent[n] # {} \/ expired # {}
    /\ IF expired = {} THEN UNCHANGED faults ELSE Fault
    /\ RebuildAfter(n, connected[n] \ silent[n], {}, Without(stored[n], expired))
    /\ UNCHANGED <<session, dialing, origin, generation, sequence, channel>>

-----------------------------------------------------------------------------
NodeStep(n) ==
    \/ Restart(n)
    \/ \E expired \in SUBSET Nodes : RoutingPass(n, expired)
    \/ \E p \in Nodes :
        \/ Dial(n, p)
        \/ DialSucceeds(n, p)
        \/ DialFails(n, p)
        \/ SessionLost(n, p)
        \/ AdvertiseTo(n, p)
        \/ HearFrom(n, p)
        \/ ReceiveAdvertisement(n, p)
        \/ FallSilent(n, p)

Next == \E n \in Nodes : NodeStep(n)

Spec == Init /\ [][Next]_vars

-----------------------------------------------------------------------------
\* The neighbors a table has direct routes for.
DirectOf(t) == {d \in DOMAIN t : t[d].next_hop = d}

\* At every node, after every handler, the table is what a rebuild from the
\* current topology and the current stored advertisements would give, with
\* direct routes for some of the connected peers.  It is not obvious: an
\* advertisement that "changes nothing" is stored but causes no rebuild, an
\* advertisement of a pruned neighbor stays stored, and a peer that comes back
\* brings its old advertisement back into use.
TableIsRebuild ==
    \A n \in Nodes :
        /\ DirectOf(table[n]) \subseteq connected[n]
        /\ table[n] = Rebuild(DirectOf(table[n]), connected[n], stored[n])

\* Whatever is in flight to a node that still holds the session will pass its
\* freshness check, in the order sent: the counters restarted by a daemon that
\* restarts are covered by the generation, and no session delivers what an
\* earlier one sent.
InFlightIsFresh ==
    \A n, p \in Nodes :
        LET c == channel[p][n]
        IN  p \in session[n] =>
            /\ \A i \in DOMAIN c : Accepts(n, p, c[i].stamp)
            /\ \A i, j \in DOMAIN c : i < j => Fresher(c[j].stamp, c[i].stamp)

\* Once a node dropped its last session with a neighbor, no route of it leads
\* through that neighbor.
NoRouteWithoutSession ==
    \A n \in Nodes : \A d \in DOMAIN table[n] : table[n][d].next_hop \in session[n]

\* A vector of n claims no path shorter than there can be; Infinity stands for
\* any number of hops.
HonestVector(n, v) ==
    \A d \in DOMAIN v : v[d] = Infinity \/ Distance[n][d] <= v[d]

\* No node ever believes in a path shorter than the network can have, in its
\* table, in what it stored or in what is on its way to it: metrics grow by one
\* link on every hop they travel, through any history of failures.
MetricsNotOptimistic ==
    \A n \in Nodes :
        /\ \A d \in DOMAIN table[n] : Distance[n][d] <= table[n][d].metric
        /\ \A p \in DOMAIN stored[n] : HonestVector(p, stored[n][p])
        /\ \A p \in Nodes : \A i \in DOMAIN channel[n][p] :
                HonestVector(n, channel[n][p][i].vector)
=============================================================================
