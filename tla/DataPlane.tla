----------------------------- MODULE DataPlane ------------------------------
(***************************************************************************)
(* Packets of the virtual interfaces on their way through the mesh         *)
(* (data_plane_loop, handle_data_message and forward_data_packet of        *)
(* daemon.cpp, forwarding.cpp). The routing plane is the environment: any  *)
(* route of any node may change at any time, so tables may disagree and    *)
(* packets may travel in circles.                                          *)
(*                                                                         *)
(* A thread copies the route under routing_mutex and looks for the session *)
(* later; between the two it holds the packet (outgoing). The filter on    *)
(* ports at the destination is the module PortFilter.                      *)
(***************************************************************************)
EXTENDS Integers, Sequences, FiniteSets

CONSTANTS
    Nodes,
    Destinations,  \* bound: nodes that packets are sent to
    InitialTtl,    \* 64 in data_plane_loop
    MaxPackets,    \* bound: packets sent
    NoRoute        \* no entry, or one with an infinite metric

ASSUME DataAssumption ==
    /\ IsFiniteSet(Nodes)
    /\ Destinations \subseteq Nodes
    /\ InitialTtl \in 1 .. 255
    /\ MaxPackets \in Nat
    /\ NoRoute \notin Nodes

\* A packet that is never sent to a node twice cannot run out of TTL: with the
\* destination, a path has at most as many nodes as the TTL allows.
ASSUME TtlAssumption == Cardinality(Nodes) <= InitialTtl + 1

VARIABLES
    route,      \* route[n][d]: the next hop of n's table for d, or NoRoute
    link,       \* the pairs <<n, m>> such that n finds an open session to m
    channel,    \* channel[n][m]: the packets n sent to m
    outgoing,   \* outgoing[n]: packets held by threads of n, with next hop
    sent,       \* number of packets sent
    delivered,  \* packets written to an interface, with the node
    expired     \* packets dropped because of their TTL

vars == <<route, link, channel, outgoing, sent, delivered, expired>>

\* The header of a DataPacket, and the nodes it has been at (not in the code).
Packet == [id : 1 .. MaxPackets, destination : Nodes, ttl : 1 .. InitialTtl, path : Seq(Nodes)]

\* A packet a thread is about to send; from is the session it came in on, or
\* the node itself for the thread that reads the interface.
Held == [packet : Packet, from : Nodes, hop : Nodes]

Hops == Nodes \cup {NoRoute}

TypeOK ==
    /\ route \in [Nodes -> [Nodes -> Hops]]
    /\ link \subseteq Nodes \X Nodes
    /\ channel \in [Nodes -> [Nodes -> Seq(Packet)]]
    /\ outgoing \in [Nodes -> SUBSET Held]
    /\ sent \in 0 .. MaxPackets
    /\ delivered \subseteq [packet : Packet, at : Nodes]
    /\ expired \subseteq Packet

Init ==
    /\ route = [n \in Nodes |-> [d \in Nodes |-> NoRoute]]
    /\ link = {}
    /\ channel = [n \in Nodes |-> [m \in Nodes |-> <<>>]]
    /\ outgoing = [n \in Nodes |-> {}]
    /\ sent = 0
    /\ delivered = {}
    /\ expired = {}

-----------------------------------------------------------------------------
\* The thread of n that serves from is not busy with a packet.
Idle(n, from) == \A o \in outgoing[n] : o.from # from

\* The route is copied; without one the packet is dropped.
LookUp(n, from, p) ==
    LET hop == route[n][p.destination]
    IN  outgoing' =
            IF hop = NoRoute THEN outgoing
            ELSE [outgoing EXCEPT ![n] = @ \cup {[packet |-> p, from |-> from, hop |-> hop]}]

\* data_plane_loop reads a packet for d from the interface of n, and
\* forwarding_forward_origin sends it off with its first TTL.
ReadTun(n, d) ==
    /\ sent < MaxPackets
    /\ d # n
    /\ Idle(n, n)
    /\ LookUp(n, n, [id |-> sent + 1, destination |-> d, ttl |-> InitialTtl, path |-> <<n>>])
    /\ sent' = sent + 1
    /\ UNCHANGED <<route, link, channel, delivered, expired>>

\* Mutant: the packet goes on until its TTL is zero.
ExpiresAtZero(ttl) == ttl = 0

\* Mutant: the last hop is not used.
ExpiresEarly(ttl) == ttl <= 2

\* forward_impl: a packet that arrives with its last TTL goes no further.
Expires(ttl) == ttl <= 1

\* Mutant: the TTL is not counted down.
SameTtl(ttl) == ttl

NextTtl(ttl) == ttl - 1

\* forward_impl at m: the packet is delivered, whatever its TTL, or dropped, or
\* looked up with the TTL counted down.
Forward(m, from, p) ==
    \/ /\ p.destination = m
       /\ delivered' = delivered \cup {[packet |-> p, at |-> m]}
       /\ UNCHANGED <<outgoing, expired>>
    \/ /\ p.destination # m
       /\ Expires(p.ttl)
       /\ expired' = expired \cup {p}
       /\ UNCHANGED <<outgoing, delivered>>
    \/ /\ p.destination # m
       /\ ~Expires(p.ttl)
       /\ LookUp(m, from, [p EXCEPT !.ttl = NextTtl(@)])
       /\ UNCHANGED <<delivered, expired>>

\* handle_data_message: the worker of the session with n takes a packet at m.
ReceiveData(n, m) ==
    /\ channel[n][m] # <<>>
    /\ Idle(m, n)
    /\ channel' = [channel EXCEPT ![n][m] = Tail(@)]
    /\ Forward(m, n, Head(channel[n][m]))
    /\ UNCHANGED <<route, link, sent>>

\* find_session_by_next_hop
HasSession(n, hop) == <<n, hop>> \in link

\* Mutant: without a session the packet is kept.
KeepUnsent(n, o) == IF HasSession(n, o.hop) THEN outgoing[n] \ {o} ELSE outgoing[n]

\* The thread is done with the packet, sent or not.
LetGo(n, o) == outgoing[n] \ {o}

\* The transmit handler: the packet goes out on a session with the next hop, or
\* is dropped when there is none by now.
Transmit(n, o) ==
    /\ o \in outgoing[n]
    /\ outgoing' = [outgoing EXCEPT ![n] = LetGo(n, o)]
    /\ channel' =
          IF HasSession(n, o.hop)
          THEN [channel EXCEPT ![n][o.hop] =
                   Append(@, [o.packet EXCEPT !.path = Append(@, o.hop)])]
          ELSE channel
    /\ UNCHANGED <<route, link, sent, delivered, expired>>

\* The routing plane (external to this module) changes a route.
SetRoute(n, d, hop) ==
    /\ hop # n
    /\ route' = [route EXCEPT ![n][d] = hop]
    /\ UNCHANGED <<link, channel, outgoing, sent, delivered, expired>>

\* A session comes up, or is lost with what is on its way.
LinkUp(n, m) ==
    /\ n # m
    /\ link' = link \cup {<<n, m>>, <<m, n>>}
    /\ UNCHANGED <<route, channel, outgoing, sent, delivered, expired>>

LinkDown(n, m) ==
    /\ <<n, m>> \in link
    /\ link' = link \ {<<n, m>>, <<m, n>>}
    /\ channel' = [channel EXCEPT ![n][m] = <<>>, ![m][n] = <<>>]
    /\ UNCHANGED <<route, outgoing, sent, delivered, expired>>

Forwarding ==
    \/ \E n \in Nodes, d \in Destinations : ReadTun(n, d)
    \/ \E n, m \in Nodes : ReceiveData(n, m)
    \/ \E n \in Nodes : \E o \in outgoing[n] : Transmit(n, o)

Environment ==
    \/ \E n \in Nodes, d \in Destinations, hop \in Hops : SetRoute(n, d, hop)
    \/ \E n, m \in Nodes : LinkUp(n, m) \/ LinkDown(n, m)

Next == Forwarding \/ Environment

Spec == Init /\ [][Next]_vars

\* Workers take what arrives and finish what they began. Routes and sessions
\* may go on changing for ever.
ForwardingFairness ==
    /\ \A n, m \in Nodes : WF_vars(ReceiveData(n, m))
    /\ \A n \in Nodes : WF_vars(\E o \in outgoing[n] : Transmit(n, o))

FairSpec == Spec /\ ForwardingFairness

-----------------------------------------------------------------------------
(***************************************************************************)
(* The TTL and the nodes a packet has been at add up, on the wire and in a *)
(* thread's hands; as the TTL is never less than 1 there (TypeOK), no      *)
(* packet is sent more than InitialTtl times.                              *)
(***************************************************************************)
HopsAccounted ==
    /\ \A n, m \in Nodes : \A i \in 1 .. Len(channel[n][m]) :
          Len(channel[n][m][i].path) + channel[n][m][i].ttl = InitialTtl + 2
    /\ \A n \in Nodes : \A o \in outgoing[n] :
          Len(o.packet.path) + o.packet.ttl = InitialTtl + 1

(***************************************************************************)
(* The TTL takes only packets that went in a circle: whoever was on a path *)
(* without a repeated node is never dropped by forward_impl for its TTL.   *)
(***************************************************************************)
OnlyLoopsExpire ==
    \A p \in expired : \E i, j \in 1 .. Len(p.path) : i # j /\ p.path[i] = p.path[j]

\* Packet i is still in the mesh.
Travelling(i) ==
    \/ \E n, m \in Nodes : \E k \in 1 .. Len(channel[n][m]) : channel[n][m][k].id = i
    \/ \E n \in Nodes : \E o \in outgoing[n] : o.packet.id = i

(***************************************************************************)
(* Every packet is delivered or dropped in the end, even if tables never   *)
(* agree.                                                                  *)
(***************************************************************************)
EveryPacketEnds == \A i \in 1 .. MaxPackets : Travelling(i) ~> ~Travelling(i)
=============================================================================
