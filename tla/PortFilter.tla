----------------------------- MODULE PortFilter -----------------------------
(***************************************************************************)
(* Which packets from the mesh reach the virtual interface of a node that  *)
(* does not share all its ports (the local delivery handler of             *)
(* forward_data_packet and data_plane_loop, daemon.cpp). A port a local    *)
(* program sends from is open for answers for two minutes after the last   *)
(* packet; active_outbound_ports keeps the time of that packet, and is     *)
(* cleaned only when it has grown large.                                   *)
(*                                                                         *)
(* Both handlers work under outbound_ports_mutex. Time is in steps much    *)
(* longer than a handler takes, so the clock read before the lock is now.  *)
(***************************************************************************)
EXTENDS Integers, FiniteSets, Functions

CONSTANTS
    Ports,
    SharedPorts,  \* config.shared_ports
    Window,       \* 120 seconds
    CleanAbove,   \* 512 entries
    MaxTime       \* bound on the clock

ASSUME FilterAssumption ==
    /\ SharedPorts \subseteq Ports
    /\ Window \in Nat
    /\ CleanAbove \in Nat
    /\ MaxTime \in Nat

VARIABLES
    now,
    active,    \* active_outbound_ports: a partial function from ports to times
    traffic,   \* when each port last carried a packet out, or in and accepted
    lastIn     \* the last packet from the mesh, and whether it was written

filterVars == <<now, active, traffic, lastIn>>

Never == -Window - 1

\* What parse_ipv6_transport finds: ICMPv6, a protocol with ports, or another.
Kinds == {"icmp", "ports", "other"}

Nothing == [kind |-> "none"]

FilterTypeOK ==
    /\ now \in 0 .. MaxTime
    /\ DOMAIN active \subseteq Ports
    /\ \A p \in DOMAIN active : active[p] \in 0 .. now
    /\ traffic \in [Ports -> {Never} \cup 0 .. now]
    /\ lastIn \in {Nothing} \cup [kind : Kinds, port : Ports, written : BOOLEAN, due : BOOLEAN]

FilterInit ==
    /\ now = 0
    /\ active = [p \in {} |-> 0]
    /\ traffic = [p \in Ports |-> Never]
    /\ lastIn = Nothing

-----------------------------------------------------------------------------
\* Mutant: the entry says how long the port stays open.
StampEnd(f, p, t) == [q \in DOMAIN f \cup {p} |-> IF q = p THEN t + Window ELSE f[q]]

\* The entry of p gets the time t. A packet without ports changes nothing.
Stamp(f, p, t) == [q \in DOMAIN f \cup {p} |-> IF q = p THEN t ELSE f[q]]

\* Mutant: entries go when they are as old as the window.
CleanTooEarly(f) ==
    IF Cardinality(DOMAIN f) > CleanAbove
    THEN Restrict(f, {p \in DOMAIN f : now - f[p] < Window})
    ELSE f

\* Entries older than the window go once there are too many.
Clean(f) ==
    IF Cardinality(DOMAIN f) > CleanAbove
    THEN Restrict(f, {p \in DOMAIN f : now - f[p] <= Window})
    ELSE f

\* A local program sends from port p.
Outbound(p) ==
    /\ active' = Clean(Stamp(active, p, now))
    /\ traffic' = [traffic EXCEPT ![p] = now]
    /\ UNCHANGED <<now, lastIn>>

\* The port has carried traffic within the window.
Recent(p) == p \in DOMAIN active /\ now - active[p] <= Window

\* The same by the times no table can lose.
Due(p) == now - traffic[p] <= Window

\* Mutant: an entry is enough, however old.
Known(p) == p \in DOMAIN active

\* The verdict on a packet for a port that is not shared.
Allowed(p) == Recent(p)

\* A packet with ports arrives for p, which is not shared: it is written and
\* the port stays open, or it is dropped and an old entry goes.
InboundUnshared(p) ==
    /\ p \notin SharedPorts
    /\ active' =
          IF Recent(p) THEN Stamp(active, p, now)
          ELSE Restrict(active, DOMAIN active \ {p})
    /\ traffic' = IF Recent(p) THEN [traffic EXCEPT ![p] = now] ELSE traffic
    /\ lastIn' = [kind |-> "ports", port |-> p, written |-> Allowed(p), due |-> Due(p)]
    /\ UNCHANGED now

\* Any other packet arrives: shared ports and ICMPv6 are written, and the table
\* is not looked at.
InboundOther(kind, p) ==
    /\ kind = "ports" => p \in SharedPorts
    /\ lastIn' = [kind |-> kind, port |-> p, written |-> kind # "other", due |-> Due(p)]
    /\ UNCHANGED <<now, active, traffic>>

Tick ==
    /\ now < MaxTime
    /\ now' = now + 1
    /\ UNCHANGED <<active, traffic, lastIn>>

FilterNext ==
    \/ \E p \in Ports : Outbound(p)
    \/ \E p \in Ports : InboundUnshared(p)
    \/ \E kind \in Kinds, p \in Ports : InboundOther(kind, p)
    \/ Tick

FilterSpec == FilterInit /\ [][FilterNext]_filterVars

-----------------------------------------------------------------------------
(***************************************************************************)
(* The table decides as one that never forgets would: neither cleaning it, *)
(* nor dropping an entry that was too old, ever closes a port on which an  *)
(* answer is due, or opens one.                                            *)
(***************************************************************************)
AnswersGetThrough == \A p \in Ports : Recent(p) <=> Due(p)

(***************************************************************************)
(* A packet for a port that is not shared was written only if the port had *)
(* carried traffic within the window.                                      *)
(***************************************************************************)
NothingUnasked ==
    lastIn # Nothing =>
        (lastIn.written /\ lastIn.kind = "ports" /\ lastIn.port \notin SharedPorts => lastIn.due)
=============================================================================
