-------------------------- MODULE DataPlaneProofs ---------------------------
(***************************************************************************)
(* Proofs about what carries packets. DataPlane: for any network, any      *)
(* history of routes and any TTL, TTL and path add up, and only packets    *)
(* that went in a circle run out of TTL. PortFilter (FilterSpec,           *)
(* filterVars): for any ports, window and limit, the table of ports        *)
(* decides as one that never forgets. Transport (SessionSpec,              *)
(* sessionVars): for any sizes and any number of threads, a session is a   *)
(* message stream.                                                         *)
(***************************************************************************)
EXTENDS DataPlane, PortFilter, Transport, FiniteSetTheorems, SequenceTheorems, TLAPS

\* A packet on its way to m.
OnWire(p, m) ==
    /\ p \in Packet
    /\ Len(p.path) + p.ttl = InitialTtl + 2
    /\ p.path[Len(p.path)] = m
    /\ \A i \in 1 .. Len(p.path) - 1 : p.path[i] # p.destination

\* A packet in the hands of a thread.
InHand(p) ==
    /\ p \in Packet
    /\ Len(p.path) + p.ttl = InitialTtl + 1
    /\ \A i \in 1 .. Len(p.path) : p.path[i] # p.destination

\* A packet that has used up its TTL.
Spent(p) ==
    /\ p \in Packet
    /\ Len(p.path) = InitialTtl + 1
    /\ \A i \in 1 .. Len(p.path) : p.path[i] # p.destination

WireInv == \A n, m \in Nodes : \A i \in 1 .. Len(channel[n][m]) : OnWire(channel[n][m][i], m)

HandInv == \A n \in Nodes : \A o \in outgoing[n] : InHand(o.packet)

SpentInv == \A p \in expired : Spent(p)

IInv == TypeOK /\ WireInv /\ HandInv /\ SpentInv

-----------------------------------------------------------------------------
\* A packet that is sent is on the wire.
LEMMA SendingPuts ==
    ASSUME NEW p, InHand(p), NEW hop \in Nodes
    PROVE  OnWire([p EXCEPT !.path = Append(@, hop)], hop)
<1> DEFINE q == [p EXCEPT !.path = Append(@, hop)]
<1>1. p \in Packet /\ p.path \in Seq(Nodes) /\ p.ttl \in Int
  BY DataAssumption DEF InHand, Packet
<1>2. Append(p.path, hop) \in Seq(Nodes)
  BY <1>1
<1>3. q \in Packet /\ q.path = Append(p.path, hop) /\ q.ttl = p.ttl /\ q.destination = p.destination
  BY <1>1, <1>2 DEF Packet
<1>4. /\ Len(q.path) = Len(p.path) + 1
      /\ q.path[Len(p.path) + 1] = hop
      /\ \A i \in 1 .. Len(p.path) : q.path[i] = p.path[i]
  BY <1>1, <1>3
<1> HIDE DEF q
<1>5. OnWire(q, hop)
  <2>1. Len(p.path) \in Nat /\ InitialTtl \in Nat /\ Len(p.path) + p.ttl = InitialTtl + 1
    BY <1>1, DataAssumption DEF InHand
  <2>2. Len(q.path) - 1 = Len(p.path) /\ Len(q.path) + q.ttl = InitialTtl + 2
    BY <2>1, <1>1, <1>3, <1>4
  <2>3. \A i \in 1 .. Len(p.path) : q.path[i] # q.destination
    BY <1>3, <1>4 DEF InHand
  <2> QED
    BY <1>3, <1>4, <2>2, <2>3 DEF OnWire
<1> QED
  BY <1>5 DEF q

\* A packet that goes on is in hand again, with the TTL counted down.
LEMMA TakingGoesOn ==
    ASSUME NEW p, NEW m \in Nodes, OnWire(p, m), p.destination # m, ~Expires(p.ttl)
    PROVE  InHand([p EXCEPT !.ttl = NextTtl(@)])
<1> DEFINE q == [p EXCEPT !.ttl = NextTtl(@)]
<1>1. p \in Packet /\ p.path \in Seq(Nodes) /\ p.ttl \in 1 .. InitialTtl /\ Len(p.path) \in Nat
  BY DEF OnWire, Packet
<1>2. p.ttl - 1 \in 1 .. InitialTtl
  BY <1>1, DataAssumption DEF Expires
<1>3. q \in Packet /\ q.path = p.path /\ q.ttl = p.ttl - 1 /\ q.destination = p.destination
  BY <1>1, <1>2 DEF Packet, NextTtl
<1>4. \A i \in 1 .. Len(p.path) : p.path[i] # p.destination
  BY <1>1 DEF OnWire
<1> HIDE DEF q
<1>5. Len(q.path) + q.ttl = InitialTtl + 1
  BY <1>1, <1>3, DataAssumption DEF OnWire
<1>6. InHand(q)
  BY <1>3, <1>4, <1>5 DEF InHand
<1> QED
  BY <1>6 DEF q

\* A packet dropped for its TTL has been sent InitialTtl times.
LEMMA ExpiringIsSpent ==
    ASSUME NEW p, NEW m \in Nodes, OnWire(p, m), p.destination # m, Expires(p.ttl)
    PROVE  Spent(p)
<1>1. p \in Packet /\ p.path \in Seq(Nodes) /\ p.ttl \in 1 .. InitialTtl /\ Len(p.path) \in Nat
  BY DEF OnWire, Packet
<1>2. p.ttl = 1
  BY <1>1, DataAssumption DEF Expires
<1> QED
  BY <1>1, <1>2, DataAssumption DEF OnWire, Spent

\* Its path is longer than there are nodes besides its destination.
LEMMA SpentLooped ==
    ASSUME NEW p, Spent(p)
    PROVE  \E i, j \in 1 .. Len(p.path) : i # j /\ p.path[i] = p.path[j]
<1> DEFINE S == 1 .. Len(p.path)
           T == Nodes \ {p.destination}
           f == [i \in S |-> p.path[i]]
<1>1. p.path \in Seq(Nodes) /\ p.destination \in Nodes /\ Len(p.path) = InitialTtl + 1
  BY DEF Spent, Packet
<1>2. IsFiniteSet(Nodes) /\ Cardinality(Nodes) \in Nat /\ InitialTtl \in Nat
  BY DataAssumption, FS_CardinalityType
<1>3. IsFiniteSet(T) /\ Cardinality(T) = Cardinality(Nodes) - 1
  BY <1>1, <1>2, FS_RemoveElement
<1>4. IsFiniteSet(S) /\ Cardinality(S) = InitialTtl + 1
  <2>1. 1 \in Int /\ Len(p.path) \in Int /\ 1 <= Len(p.path)
    BY <1>1, <1>2
  <2> QED
    BY <2>1, <1>1, <1>2, FS_Interval
<1>5. Cardinality(T) < Cardinality(S)
  BY <1>2, <1>3, <1>4, TtlAssumption
<1>6. f \in [S -> T]
  BY <1>1 DEF Spent
<1> HIDE DEF S, T, f
<1>7. \E x, y \in S : x # y /\ f[x] = f[y]
  BY <1>3, <1>4, <1>5, <1>6, FS_PigeonHole
<1> QED
  BY <1>7 DEF S, f

-----------------------------------------------------------------------------
\* What a thread looks up is in hand.
LEMMA LookUpHolds ==
    ASSUME TypeOK, HandInv, NEW n \in Nodes, NEW from \in Nodes, NEW p, InHand(p),
           LookUp(n, from, p)
    PROVE  outgoing' \in [Nodes -> SUBSET Held] /\ HandInv'
<1> DEFINE hop == route[n][p.destination]
           o == [packet |-> p, from |-> from, hop |-> hop]
<1>1. p \in Packet /\ p.destination \in Nodes
  BY DEF InHand, Packet
<1>2. CASE hop = NoRoute
  BY <1>2 DEF LookUp, HandInv, TypeOK
<1>3. CASE hop # NoRoute
  <2>1. hop \in Nodes
    BY <1>1, <1>3 DEF TypeOK, Hops
  <2>2. o \in Held /\ o.packet = p
    BY <1>1, <2>1 DEF Held
  <2>3. outgoing' = [outgoing EXCEPT ![n] = @ \cup {o}]
    BY <1>3 DEF LookUp
  <2> HIDE DEF o
  <2>4. outgoing' \in [Nodes -> SUBSET Held]
    BY <2>2, <2>3 DEF TypeOK
  <2>5. \A k \in Nodes : outgoing'[k] \subseteq outgoing[k] \cup {o}
    BY <2>3 DEF TypeOK
  <2> QED
    BY <2>2, <2>4, <2>5 DEF HandInv
<1> QED
  BY <1>2, <1>3

\* The invariant holds at the start.
LEMMA StartIInv == Init => IInv
<1> SUFFICES ASSUME Init PROVE IInv
  OBVIOUS
<1>1. TypeOK
  BY DataAssumption DEF Init, TypeOK, Hops
<1>2. WireInv /\ HandInv /\ SpentInv
  BY DEF Init, WireInv, HandInv, SpentInv
<1> QED
  BY <1>1, <1>2 DEF IInv

\* Every step preserves it.
LEMMA StepIInv == IInv /\ [Next]_vars => IInv'
<1> SUFFICES ASSUME IInv, [Next]_vars PROVE IInv'
  OBVIOUS
<1> USE DEF IInv
<1>1. ASSUME NEW n \in Nodes, NEW d \in Destinations, ReadTun(n, d) PROVE IInv'
  <2> DEFINE p == [id |-> sent + 1, destination |-> d, ttl |-> InitialTtl, path |-> <<n>>]
  <2>1. sent \in Nat /\ sent + 1 \in 1 .. MaxPackets /\ d \in Nodes
    BY <1>1, DataAssumption DEF ReadTun, TypeOK
  <2>2. p \in Packet
    BY <2>1, DataAssumption DEF Packet
  <2>3. p.destination = d /\ p.path = <<n>> /\ p.ttl = InitialTtl /\ d # n /\ LookUp(n, n, p)
    BY <1>1 DEF ReadTun
  <2> HIDE DEF p
  <2>4. InHand(p)
    BY <2>2, <2>3, DataAssumption DEF InHand
  <2>5. outgoing' \in [Nodes -> SUBSET Held] /\ HandInv'
    BY <2>3, <2>4, LookUpHolds
  <2>6. TypeOK'
    <3>1. sent' \in 0 .. MaxPackets
      BY <1>1, <2>1, DataAssumption DEF ReadTun
    <3> QED
      BY <1>1, <2>5, <3>1 DEF TypeOK, ReadTun
  <2> QED
    BY <1>1, <2>5, <2>6 DEF ReadTun, WireInv, SpentInv
<1>2. ASSUME NEW n \in Nodes, NEW m \in Nodes, ReceiveData(n, m) PROVE IInv'
  <2> DEFINE p == Head(channel[n][m])
  <2>1. /\ channel[n][m] \in Seq(Packet)
        /\ channel[n][m] # <<>>
        /\ p = channel[n][m][1]
        /\ 1 \in 1 .. Len(channel[n][m])
    BY <1>2 DEF ReceiveData, Forward, TypeOK
  <2>2. OnWire(p, m) /\ p \in Packet
    <3>1. OnWire(channel[n][m][1], m)
      BY <2>1 DEF WireInv
    <3>2. OnWire(p, m)
      BY <3>1, <2>1
    <3> QED
      BY <3>2 DEF OnWire
  <2>3. channel' \in [Nodes -> [Nodes -> Seq(Packet)]]
    <3>1. Tail(channel[n][m]) \in Seq(Packet)
      BY <2>1
    <3> QED
      BY <3>1, <1>2 DEF ReceiveData, Forward, TypeOK
  <2>4. WireInv'
    <3>1. \A i \in 1 .. Len(Tail(channel[n][m])) : OnWire(Tail(channel[n][m])[i], m)
      <4>1. \A i \in 1 .. Len(Tail(channel[n][m])) :
               i + 1 \in 1 .. Len(channel[n][m]) /\ Tail(channel[n][m])[i] = channel[n][m][i + 1]
        BY <2>1
      <4> QED
        BY <4>1 DEF WireInv
    <3>2. \A k, l \in Nodes :
             channel'[k][l] = IF k = n /\ l = m THEN Tail(channel[n][m]) ELSE channel[k][l]
      BY <1>2 DEF ReceiveData, Forward, TypeOK
    <3> QED
      BY <3>1, <3>2 DEF WireInv
  <2> HIDE DEF p
  <2>5. CASE p.destination = m
    <3>1. delivered' = delivered \cup {[packet |-> p, at |-> m]} /\ UNCHANGED <<outgoing, expired>>
      BY <1>2, <2>5 DEF ReceiveData, Forward, p
    <3>2. TypeOK'
      BY <1>2, <2>2, <2>3, <3>1 DEF TypeOK, ReceiveData, Forward
    <3> QED
      BY <2>4, <3>1, <3>2 DEF HandInv, SpentInv
  <2>6. CASE p.destination # m /\ Expires(p.ttl)
    <3>1. expired' = expired \cup {p} /\ UNCHANGED <<outgoing, delivered>>
      BY <1>2, <2>6 DEF ReceiveData, Forward, p
    <3>2. Spent(p)
      BY <2>2, <2>6, ExpiringIsSpent
    <3>3. TypeOK'
      BY <1>2, <2>2, <2>3, <3>1 DEF TypeOK, ReceiveData, Forward
    <3> QED
      BY <2>4, <3>1, <3>2, <3>3 DEF HandInv, SpentInv
  <2>7. CASE p.destination # m /\ ~Expires(p.ttl)
    <3> DEFINE q == [p EXCEPT !.ttl = NextTtl(@)]
    <3>1. LookUp(m, n, q) /\ UNCHANGED <<delivered, expired>>
      BY <1>2, <2>7 DEF ReceiveData, Forward, p
    <3>2. InHand(q)
      BY <2>2, <2>7, TakingGoesOn
    <3> HIDE DEF q
    <3>3. outgoing' \in [Nodes -> SUBSET Held] /\ HandInv'
      BY <3>1, <3>2, LookUpHolds
    <3>4. TypeOK'
      BY <1>2, <2>3, <3>1, <3>3 DEF TypeOK, ReceiveData, Forward
    <3> QED
      BY <2>4, <3>1, <3>3, <3>4 DEF SpentInv
  <2> QED
    BY <2>5, <2>6, <2>7
<1>3. ASSUME NEW n \in Nodes, NEW o \in outgoing[n], Transmit(n, o) PROVE IInv'
  <2>1. o \in Held /\ InHand(o.packet) /\ o.hop \in Nodes
    BY DEF TypeOK, HandInv, Held
  <2> DEFINE q == [o.packet EXCEPT !.path = Append(@, o.hop)]
  <2>2. OnWire(q, o.hop)
    BY <2>1, SendingPuts
  <2>3. q \in Packet
    BY <2>2 DEF OnWire
  <2>4. channel' = channel \/ channel' = [channel EXCEPT ![n][o.hop] = Append(@, q)]
    BY <1>3 DEF Transmit, HasSession
  <2> HIDE DEF q
  <2>5. channel' \in [Nodes -> [Nodes -> Seq(Packet)]] /\ WireInv'
    <3>1. CASE channel' = channel
      BY <3>1 DEF TypeOK, WireInv
    <3>2. CASE channel' = [channel EXCEPT ![n][o.hop] = Append(@, q)]
      <4>1. channel[n][o.hop] \in Seq(Packet) /\ Append(channel[n][o.hop], q) \in Seq(Packet)
        BY <2>1, <2>3 DEF TypeOK
      <4>2. \A k, l \in Nodes :
               channel'[k][l] = IF k = n /\ l = o.hop THEN Append(channel[n][o.hop], q)
                                ELSE channel[k][l]
        BY <2>1, <3>2 DEF TypeOK
      <4>3. \A i \in 1 .. Len(Append(channel[n][o.hop], q)) :
               \/ Append(channel[n][o.hop], q)[i] = q
               \/ i \in 1 .. Len(channel[n][o.hop])
                  /\ Append(channel[n][o.hop], q)[i] = channel[n][o.hop][i]
        BY <4>1
      <4>4. \A i \in 1 .. Len(Append(channel[n][o.hop], q)) :
               OnWire(Append(channel[n][o.hop], q)[i], o.hop)
        BY <2>1, <2>2, <4>3 DEF WireInv
      <4>5. WireInv'
        BY <4>2, <4>4 DEF WireInv
      <4>6. channel' \in [Nodes -> [Nodes -> Seq(Packet)]]
        BY <2>1, <3>2, <4>1 DEF TypeOK
      <4> QED
        BY <4>5, <4>6
    <3> QED
      BY <2>4, <3>1, <3>2
  <2>6. outgoing' = [outgoing EXCEPT ![n] = @ \ {o}] /\ UNCHANGED <<route, link, sent, delivered, expired>>
    BY <1>3 DEF Transmit, LetGo, HasSession
  <2>7. outgoing' \in [Nodes -> SUBSET Held] /\ \A k \in Nodes : outgoing'[k] \subseteq outgoing[k]
    BY <2>6 DEF TypeOK
  <2>8. TypeOK'
    BY <2>5, <2>6, <2>7 DEF TypeOK
  <2> QED
    BY <2>5, <2>6, <2>7, <2>8 DEF HandInv, SpentInv
<1>4. ASSUME NEW n \in Nodes, NEW d \in Destinations, NEW hop \in Hops, SetRoute(n, d, hop)
      PROVE  IInv'
  <2>1. TypeOK'
    BY <1>4, DataAssumption DEF SetRoute, TypeOK
  <2> QED
    BY <1>4, <2>1 DEF SetRoute, WireInv, HandInv, SpentInv
<1>5. ASSUME NEW n \in Nodes, NEW m \in Nodes, LinkUp(n, m) PROVE IInv'
  BY <1>5 DEF LinkUp, TypeOK, WireInv, HandInv, SpentInv
<1>6. ASSUME NEW n \in Nodes, NEW m \in Nodes, LinkDown(n, m) PROVE IInv'
  <2>1. channel' \in [Nodes -> [Nodes -> Seq(Packet)]]
    <3>1. <<>> \in Seq(Packet)
      OBVIOUS
    <3> QED
      BY <1>6, <3>1 DEF LinkDown, TypeOK
  <2>2. \A k, l \in Nodes : channel'[k][l] = <<>> \/ channel'[k][l] = channel[k][l]
    BY <1>6 DEF LinkDown, TypeOK
  <2>3. WireInv'
    BY <2>2 DEF WireInv
  <2> QED
    BY <1>6, <2>1, <2>3 DEF LinkDown, TypeOK, HandInv, SpentInv
<1>7. CASE UNCHANGED vars
  BY <1>7 DEF vars, TypeOK, WireInv, HandInv, SpentInv
<1> QED
  BY <1>1, <1>2, <1>3, <1>4, <1>5, <1>6, <1>7 DEF Next, Forwarding, Environment

\* The invariant of every behavior.
THEOREM PlaneInvariant == Spec => []IInv
<1> QED
  BY StartIInv, StepIInv, PTL DEF Spec

\* Every variable keeps its type: TTLs in flight stay between 1 and InitialTtl,
\* so forward_impl never counts one below zero.
THEOREM PlaneTypes == Spec => []TypeOK
<1>1. IInv => TypeOK
  BY DEF IInv
<1> QED
  BY <1>1, PlaneInvariant, PTL

\* TTL and path add up in every network: no packet is sent more than InitialTtl
\* times, whatever the tables say.
THEOREM HopsAddUp == Spec => []HopsAccounted
<1>1. IInv => HopsAccounted
  <2> SUFFICES ASSUME IInv PROVE HopsAccounted
    OBVIOUS
  <2>1. \A n, m \in Nodes : \A i \in 1 .. Len(channel[n][m]) :
           Len(channel[n][m][i].path) + channel[n][m][i].ttl = InitialTtl + 2
    BY DEF IInv, WireInv, OnWire
  <2>2. \A n \in Nodes : \A o \in outgoing[n] :
           Len(o.packet.path) + o.packet.ttl = InitialTtl + 1
    BY DEF IInv, HandInv, InHand
  <2> QED
    BY <2>1, <2>2 DEF HopsAccounted
<1> QED
  BY <1>1, PlaneInvariant, PTL

\* In every network of at most InitialTtl + 1 nodes, forward_impl drops for its
\* TTL only what has been at some node twice.
THEOREM ExpiredWereLooping == Spec => []OnlyLoopsExpire
<1>1. IInv => OnlyLoopsExpire
  BY SpentLooped DEF IInv, SpentInv, OnlyLoopsExpire
<1> QED
  BY <1>1, PlaneInvariant, PTL

-----------------------------------------------------------------------------
\* The table has the right times, and lacks only what is too old.
Agrees ==
    /\ \A p \in DOMAIN active : active[p] = traffic[p]
    /\ \A p \in Ports : Due(p) => p \in DOMAIN active

FilterInv == FilterTypeOK /\ Agrees /\ NothingUnasked

\* A table that agrees decides right.
LEMMA AgreesDecides == FilterTypeOK /\ Agrees => AnswersGetThrough
BY DEF FilterTypeOK, Agrees, AnswersGetThrough, Recent, Due

\* An empty table has forgotten nothing.
LEMMA FilterStart == FilterInit => FilterInv
<1> SUFFICES ASSUME FilterInit PROVE FilterInv
  OBVIOUS
<1>1. Window \in Nat /\ MaxTime \in Nat
  BY FilterAssumption
<1>2. FilterTypeOK
  BY <1>1 DEF FilterInit, FilterTypeOK, Never, Nothing
<1>3. Agrees
  BY <1>1 DEF FilterInit, Agrees, Due, Never
<1> QED
  BY <1>2, <1>3 DEF FilterInv, FilterInit, NothingUnasked

\* Sending, receiving, cleaning and time keep the table in agreement.
LEMMA FilterStep == FilterInv /\ [FilterNext]_filterVars => FilterInv'
<1> SUFFICES ASSUME FilterInv, [FilterNext]_filterVars PROVE FilterInv'
  OBVIOUS
<1>1. /\ Window \in Nat /\ MaxTime \in Nat /\ now \in 0 .. MaxTime
      /\ DOMAIN active \subseteq Ports
      /\ \A p \in DOMAIN active : active[p] \in 0 .. now
      /\ traffic \in [Ports -> {Never} \cup 0 .. now]
      /\ \A p \in Ports : traffic[p] \in Int
      /\ Agrees
  BY FilterAssumption DEF FilterInv, FilterTypeOK, Never
<1>2. ASSUME NEW p \in Ports, Outbound(p) PROVE FilterInv'
  <2> DEFINE f == Stamp(active, p, now)
  <2>1. /\ DOMAIN f = DOMAIN active \cup {p}
        /\ f[p] = now
        /\ \A q \in DOMAIN active : q # p => f[q] = active[q]
    BY DEF Stamp
  <2>2. /\ now' = now /\ lastIn' = lastIn
        /\ traffic' = [traffic EXCEPT ![p] = now]
        /\ active' = Clean(f)
    BY <1>2 DEF Outbound
  <2>3. /\ DOMAIN active' \subseteq DOMAIN f
        /\ \A q \in DOMAIN active' : active'[q] = f[q]
        /\ \A q \in DOMAIN f : now - f[q] <= Window => q \in DOMAIN active'
    <3> HIDE DEF f
    <3> QED
      BY <2>2 DEF Clean, Restrict
  <2> HIDE DEF f
  <2>4. FilterTypeOK'
    BY <1>1, <2>1, <2>2, <2>3 DEF FilterTypeOK, FilterInv
  <2>5. Agrees'
    BY <1>1, <2>1, <2>2, <2>3 DEF Agrees, Due
  <2> QED
    BY <2>2, <2>4, <2>5 DEF FilterInv, NothingUnasked
<1>3. ASSUME NEW p \in Ports, InboundUnshared(p) PROVE FilterInv'
  <2>1. Recent(p) <=> Due(p)
    BY AgreesDecides DEF FilterInv, AnswersGetThrough
  <2>2. Recent(p) \in BOOLEAN /\ Due(p) \in BOOLEAN /\ now' = now
    BY <1>3 DEF Recent, Due, InboundUnshared
  <2>3. /\ lastIn' = [kind |-> "ports", port |-> p, written |-> Recent(p), due |-> Due(p)]
        /\ lastIn' \in [kind : Kinds, port : Ports, written : BOOLEAN, due : BOOLEAN]
    BY <1>3, <2>2 DEF InboundUnshared, Allowed, Kinds
  <2>4. NothingUnasked'
    BY <2>1, <2>3 DEF NothingUnasked
  <2>5. CASE Recent(p)
    <3>1. active' = Stamp(active, p, now) /\ traffic' = [traffic EXCEPT ![p] = now]
      BY <1>3, <2>5 DEF InboundUnshared
    <3>2. /\ DOMAIN active' = DOMAIN active \cup {p}
          /\ active'[p] = now
          /\ \A q \in DOMAIN active : q # p => active'[q] = active[q]
      BY <3>1 DEF Stamp
    <3>3. FilterTypeOK'
      BY <1>1, <2>2, <2>3, <3>1, <3>2 DEF FilterTypeOK
    <3>4. Agrees'
      BY <1>1, <2>2, <3>1, <3>2 DEF Agrees, Due
    <3> QED
      BY <2>4, <3>3, <3>4 DEF FilterInv
  <2>6. CASE ~Recent(p)
    <3>1. active' = Restrict(active, DOMAIN active \ {p}) /\ traffic' = traffic
      BY <1>3, <2>6 DEF InboundUnshared
    <3>2. /\ DOMAIN active' = DOMAIN active \ {p}
          /\ \A q \in DOMAIN active' : active'[q] = active[q]
      BY <3>1 DEF Restrict
    <3>3. FilterTypeOK'
      BY <1>1, <2>2, <2>3, <3>1, <3>2 DEF FilterTypeOK
    <3>4. Agrees'
      BY <1>1, <2>1, <2>2, <2>6, <3>1, <3>2 DEF Agrees, Due
    <3> QED
      BY <2>4, <3>3, <3>4 DEF FilterInv
  <2> QED
    BY <2>5, <2>6
<1>4. ASSUME NEW kind \in Kinds, NEW p \in Ports, InboundOther(kind, p) PROVE FilterInv'
  <2>1. /\ now' = now /\ active' = active /\ traffic' = traffic
        /\ lastIn' = [kind |-> kind, port |-> p, written |-> kind # "other", due |-> Due(p)]
        /\ kind = "ports" => p \in SharedPorts
    BY <1>4 DEF InboundOther
  <2>2. Due(p) \in BOOLEAN /\ (kind # "other") \in BOOLEAN
    BY DEF Due
  <2>3. lastIn' \in [kind : Kinds, port : Ports, written : BOOLEAN, due : BOOLEAN]
    BY <2>1, <2>2
  <2>4. FilterTypeOK'
    BY <2>1, <2>3 DEF FilterInv, FilterTypeOK
  <2>5. NothingUnasked'
    BY <2>1 DEF NothingUnasked
  <2> QED
    BY <2>1, <2>4, <2>5 DEF FilterInv, Agrees, Due
<1>5. ASSUME Tick PROVE FilterInv'
  <2>1. /\ now' = now + 1 /\ now' \in 0 .. MaxTime
        /\ active' = active /\ traffic' = traffic /\ lastIn' = lastIn
    BY <1>1, <1>5 DEF Tick
  <2>2. FilterTypeOK'
    BY <1>1, <2>1 DEF FilterInv, FilterTypeOK
  <2>3. Agrees'
    BY <1>1, <2>1 DEF Agrees, Due
  <2> QED
    BY <2>1, <2>2, <2>3 DEF FilterInv, NothingUnasked
<1>6. CASE UNCHANGED filterVars
  BY <1>6 DEF filterVars, FilterInv, FilterTypeOK, Agrees, Due, NothingUnasked
<1> QED
  BY <1>2, <1>3, <1>4, <1>5, <1>6 DEF FilterNext

\* active_outbound_ports always agrees with the times of the last packets.
THEOREM FilterInvariant == FilterSpec => []FilterInv
<1> QED
  BY FilterStart, FilterStep, PTL DEF FilterSpec

\* The entries of the table lie in the past, and name ports.
THEOREM FilterTypes == FilterSpec => []FilterTypeOK
<1>1. FilterInv => FilterTypeOK
  BY DEF FilterInv
<1> QED
  BY <1>1, FilterInvariant, PTL

\* Whatever was sent when, and however often the table was cleaned, it opens the
\* ports on which an answer is due and no other.
THEOREM FilterNeverForgets == FilterSpec => []AnswersGetThrough
<1>1. FilterInv => AnswersGetThrough
  BY AgreesDecides DEF FilterInv
<1> QED
  BY <1>1, FilterInvariant, PTL

\* No packet is written to a port that is neither shared nor in use.
THEOREM FilterKeepsOut == FilterSpec => []NothingUnasked
<1>1. FilterInv => NothingUnasked
  BY DEF FilterInv
<1> QED
  BY <1>1, FilterInvariant, PTL

-----------------------------------------------------------------------------
(***************************************************************************)
(* The session                                                             *)
(***************************************************************************)

\* A non-empty set of natural numbers has a least element.
LEMMA NatHasMin ==
    ASSUME NEW S, S \subseteq Nat, S # {}
    PROVE  \E m \in S : \A k \in S : m <= k
<1> DEFINE R == OpToRel(<, Nat)
<1>1. IsWellFoundedOn(R, Nat)
  BY NatLessThanWellFounded
<1>2. PICK m \in S : \A k \in S : ~(<<k, m>> \in R)
  <2> HIDE DEF R
  <2> QED BY <1>1, WFMin
<1>3. \A k \in S : ~(k < m)
  BY <1>2 DEF OpToRel
<1> QED
  BY <1>3

\* Where a byte stands in the stream.
Places == [msg : Nat, pos : Nat]

First(m) == [msg |-> m, pos |-> 1]

FrameSize(sizes, m) == HeaderSize + sizes[m]

\* A byte of the messages with these payloads.
InStream(sizes, b) ==
    /\ b \in Places
    /\ b.msg \in 1 .. Len(sizes)
    /\ b.pos \in 1 .. FrameSize(sizes, b.msg)

\* A byte of them, or the place after the last.
InOrAfter(sizes, b) == InStream(sizes, b) \/ b = First(Len(sizes) + 1)

\* The place after b.
After(sizes, b) ==
    IF b.pos < FrameSize(sizes, b.msg) THEN [msg |-> b.msg, pos |-> b.pos + 1] ELSE First(b.msg + 1)

\* s is the stream from place a to before place b.
Runs(sizes, s, a, b) ==
    /\ InOrAfter(sizes, a) /\ InOrAfter(sizes, b)
    /\ \A i \in 1 .. Len(s) : InStream(sizes, s[i])
    /\ \A i \in 1 .. Len(s) - 1 : s[i + 1] = After(sizes, s[i])
    /\ s = <<>> => a = b
    /\ s # <<>> => s[1] = a /\ After(sizes, s[Len(s)]) = b

Sizes == Seq(Nat)

\* The place after a byte is one.
LEMMA AfterIs ==
    ASSUME NEW sizes \in Sizes, NEW b, InStream(sizes, b)
    PROVE  InOrAfter(sizes, After(sizes, b))
<1> USE DEF InOrAfter, InStream, After, Places, First, FrameSize, Sizes
<1>1. HeaderSize \in Nat \ {0}
  BY SizesAssumption
<1>2. CASE b.pos < FrameSize(sizes, b.msg)
  BY <1>1, <1>2
<1>3. CASE ~ (b.pos < FrameSize(sizes, b.msg)) /\ b.msg = Len(sizes)
  BY <1>3
<1>4. CASE ~ (b.pos < FrameSize(sizes, b.msg)) /\ b.msg # Len(sizes)
  <2>1. b.msg + 1 \in 1 .. Len(sizes) /\ sizes[b.msg + 1] \in Nat
    BY <1>4
  <2> QED
    BY <1>1, <1>4, <2>1
<1> QED
  BY <1>2, <1>3, <1>4

\* A piece of the stream and the one after it.
LEMMA RunsConcat ==
    ASSUME NEW sizes \in Sizes, NEW s \in Seq(Places), NEW t \in Seq(Places),
           NEW a, NEW b, NEW c, Runs(sizes, s, a, b), Runs(sizes, t, b, c)
    PROVE  Runs(sizes, s \o t, a, c)
<1>1. CASE s = <<>>
  <2>1. s \o t = t
    BY <1>1
  <2> QED
    BY <1>1, <2>1 DEF Runs
<1>2. CASE t = <<>>
  <2>1. s \o t = s
    BY <1>2
  <2> QED
    BY <1>2, <2>1 DEF Runs
<1>3. CASE s # <<>> /\ t # <<>>
  <2> DEFINE u == s \o t
  <2>1. /\ Len(s) \in Nat \ {0} /\ Len(t) \in Nat \ {0} /\ Len(u) = Len(s) + Len(t)
        /\ \A i \in 1 .. Len(s) : u[i] = s[i]
        /\ \A i \in 1 .. Len(t) : u[Len(s) + i] = t[i]
    BY <1>3
  <2>2. \A i \in 1 .. Len(u) : i \in 1 .. Len(s) \/ \E j \in 1 .. Len(t) : i = Len(s) + j
    <3> SUFFICES ASSUME NEW i \in 1 .. Len(u), i \notin 1 .. Len(s)
                 PROVE  \E j \in 1 .. Len(t) : i = Len(s) + j
      OBVIOUS
    <3> WITNESS i - Len(s) \in 1 .. Len(t)
    <3> QED
      BY <2>1
  <2> HIDE DEF u
  <2>3. \A i \in 1 .. Len(u) : InStream(sizes, u[i])
    BY <2>1, <2>2 DEF Runs
  <2>4. ASSUME NEW i \in 1 .. Len(u) - 1 PROVE u[i + 1] = After(sizes, u[i])
    <3>1. CASE i \in 1 .. Len(s) - 1
      BY <2>1, <3>1 DEF Runs
    <3>2. CASE i = Len(s)
      BY <1>3, <2>1, <3>2 DEF Runs
    <3>3. CASE i > Len(s)
      <4>1. i - Len(s) \in 1 .. Len(t) - 1 /\ i - Len(s) \in 1 .. Len(t) /\ i - Len(s) + 1 \in 1 .. Len(t)
        BY <2>1, <3>3
      <4>2. u[Len(s) + (i - Len(s))] = t[i - Len(s)] /\ u[Len(s) + (i - Len(s) + 1)] = t[i - Len(s) + 1]
        BY <2>1, <4>1
      <4>3. Len(s) + (i - Len(s)) = i /\ Len(s) + (i - Len(s) + 1) = i + 1
        BY <2>1, <4>1
      <4> QED
        BY <4>1, <4>2, <4>3 DEF Runs
    <3> QED
      BY <2>1, <3>1, <3>2, <3>3
  <2>5. u # <<>> /\ u[1] = a /\ After(sizes, u[Len(u)]) = c
    BY <1>3, <2>1 DEF Runs
  <2>6. InOrAfter(sizes, a) /\ InOrAfter(sizes, c)
    BY DEF Runs
  <2>7. Runs(sizes, u, a, c)
    BY <2>3, <2>4, <2>5, <2>6 DEF Runs
  <2> QED
    BY <2>7 DEF u
<1> QED
  BY <1>1, <1>2, <1>3

\* A piece of the stream in two.
LEMMA RunsSplit ==
    ASSUME NEW sizes \in Sizes, NEW s \in Seq(Places), NEW k \in 0 .. Len(s),
           NEW a, NEW c, Runs(sizes, s, a, c)
    PROVE  \E b \in Places :
              /\ Runs(sizes, SubSeq(s, 1, k), a, b)
              /\ Runs(sizes, SubSeq(s, k + 1, Len(s)), b, c)
              /\ k > 0 => b = After(sizes, s[k])
<1> DEFINE p == SubSeq(s, 1, k)
           q == SubSeq(s, k + 1, Len(s))
           b == IF k = Len(s) THEN c ELSE s[k + 1]
<1>1. /\ Len(s) \in Nat /\ k \in Nat /\ k <= Len(s)
      /\ Len(p) = k /\ \A i \in 1 .. k : p[i] = s[i]
      /\ Len(q) = Len(s) - k /\ \A i \in 1 .. Len(s) - k : q[i] = s[k + i]
      /\ (p = <<>> <=> k = 0) /\ (q = <<>> <=> k = Len(s)) /\ (s = <<>> <=> Len(s) = 0)
  <2>1. Len(s) \in Nat /\ k \in Nat /\ k <= Len(s) /\ (s = <<>> <=> Len(s) = 0)
    OBVIOUS
  <2>2. Len(p) = k /\ (\A i \in 1 .. k : p[i] = s[i]) /\ p \in Seq(Places)
    BY <2>1
  <2>3. Len(q) = Len(s) - k /\ (\A i \in 1 .. Len(s) - k : q[i] = s[k + i]) /\ q \in Seq(Places)
    <3>1. Len(q) = Len(s) - k /\ q \in Seq(Places)
      BY <2>1
    <3>2. ASSUME NEW i \in 1 .. Len(s) - k PROVE q[i] = s[k + i]
      <4>1. q[i] = s[(k + 1) + i - 1] /\ (k + 1) + i - 1 = k + i
        BY <2>1
      <4> QED
        BY <4>1
    <3> QED
      BY <3>1, <3>2
  <2> HIDE DEF p, q
  <2>4. \A t \in Seq(Places) : t = <<>> <=> Len(t) = 0
    OBVIOUS
  <2> QED
    BY <2>1, <2>2, <2>3, <2>4
<1>2. InOrAfter(sizes, a) /\ InOrAfter(sizes, c) /\ \A i \in 1 .. Len(s) : InStream(sizes, s[i])
  BY DEF Runs
<1>3. InOrAfter(sizes, b) /\ b \in Places
  <2>1. \A x : InOrAfter(sizes, x) => x \in Places
    BY DEF InOrAfter, InStream, Places, First, Sizes
  <2>2. k # Len(s) => k + 1 \in 1 .. Len(s)
    BY <1>1
  <2> QED
    BY <1>2, <2>1, <2>2 DEF InOrAfter
<1> HIDE DEF p, q
<1>4. Runs(sizes, p, a, b)
  <2>1. \A i \in 1 .. Len(p) : InStream(sizes, p[i])
    BY <1>1, <1>2
  <2>2. \A i \in 1 .. Len(p) - 1 : p[i + 1] = After(sizes, p[i])
    BY <1>1 DEF Runs
  <2>3. p = <<>> => a = b
    BY <1>1 DEF Runs
  <2>4. p # <<>> => p[1] = a /\ After(sizes, p[Len(p)]) = b
    BY <1>1 DEF Runs
  <2> QED
    BY <1>2, <1>3, <2>1, <2>2, <2>3, <2>4 DEF Runs
<1>5. Runs(sizes, q, b, c)
  <2>1. \A i \in 1 .. Len(q) : InStream(sizes, q[i])
    <3> SUFFICES ASSUME NEW i \in 1 .. Len(q) PROVE InStream(sizes, q[i])
      OBVIOUS
    <3>1. k + i \in 1 .. Len(s) /\ q[i] = s[k + i]
      BY <1>1
    <3> QED
      BY <1>2, <3>1
  <2>2. ASSUME NEW i \in 1 .. Len(q) - 1 PROVE q[i + 1] = After(sizes, q[i])
    <3>1. k + i \in 1 .. Len(s) - 1 /\ i \in 1 .. Len(s) - k /\ i + 1 \in 1 .. Len(s) - k
      BY <1>1
    <3>2. q[i] = s[k + i] /\ q[i + 1] = s[k + (i + 1)] /\ k + (i + 1) = (k + i) + 1
      BY <1>1, <3>1
    <3> QED
      BY <3>1, <3>2 DEF Runs
  <2>3. q = <<>> => b = c
    BY <1>1
  <2>4. ASSUME q # <<>> PROVE q[1] = b /\ After(sizes, q[Len(q)]) = c
    <3>1. k # Len(s) /\ Len(q) \in 1 .. Len(s) - k /\ 1 \in 1 .. Len(s) - k /\ k + Len(q) = Len(s) /\ s # <<>>
      BY <1>1, <2>4
    <3>2. q[1] = s[k + 1] /\ q[Len(q)] = s[k + Len(q)]
      BY <1>1, <3>1
    <3> QED
      BY <3>1, <3>2 DEF Runs
  <2> QED
    BY <1>2, <1>3, <2>1, <2>2, <2>3, <2>4 DEF Runs
<1>6. k > 0 => b = After(sizes, s[k])
  BY <1>1 DEF Runs
<1> QED
  BY <1>3, <1>4, <1>5, <1>6 DEF p, q

\* A piece of the stream is still one when another message is sent.
LEMMA RunsMore ==
    ASSUME NEW sizes \in Sizes, NEW size \in Nat, NEW s \in Seq(Places),
           NEW a, NEW b, Runs(sizes, s, a, b)
    PROVE  Runs(Append(sizes, size), s, a, b)
<1> DEFINE more == Append(sizes, size)
<1>1. /\ Len(sizes) \in Nat /\ Len(more) = Len(sizes) + 1 /\ more[Len(sizes) + 1] = size
      /\ \A i \in 1 .. Len(sizes) : more[i] = sizes[i]
      /\ HeaderSize \in Nat \ {0}
  BY SizesAssumption DEF Sizes
<1> HIDE DEF more
<1>2. ASSUME NEW x, InStream(sizes, x) PROVE InStream(more, x) /\ After(more, x) = After(sizes, x)
  <2>1. FrameSize(more, x.msg) = FrameSize(sizes, x.msg)
    BY <1>1, <1>2 DEF InStream, FrameSize
  <2> QED
    BY <1>1, <1>2, <2>1 DEF InStream, After
<1>3. InStream(more, First(Len(sizes) + 1))
  BY <1>1 DEF InStream, First, Places, FrameSize
<1>4. \A x : InOrAfter(sizes, x) => InOrAfter(more, x)
  BY <1>2, <1>3 DEF InOrAfter
<1>5. /\ \A i \in 1 .. Len(s) : InStream(more, s[i])
      /\ \A i \in 1 .. Len(s) - 1 : s[i + 1] = After(more, s[i])
      /\ s # <<>> => After(more, s[Len(s)]) = b
  BY <1>2 DEF Runs
<1>6. Runs(more, s, a, b)
  BY <1>4, <1>5 DEF Runs
<1> QED
  BY <1>6 DEF more

\* A frame is the stream from its first byte to the next message.
LEMMA FrameRuns ==
    ASSUME NEW sizes \in Sizes, NEW m \in 1 .. Len(sizes)
    PROVE  Runs(sizes, Frame(m, sizes[m]), First(m), First(m + 1))
<1> DEFINE s == Frame(m, sizes[m])
           n == HeaderSize + sizes[m]
<1>1. HeaderSize \in Nat \ {0} /\ sizes[m] \in Nat /\ n \in Nat \ {0} /\ Len(sizes) \in Nat /\ m \in Nat
  BY SizesAssumption DEF Sizes
<1>2. /\ Len(s) = n /\ s # <<>> /\ s \in Seq(Places)
      /\ \A i \in 1 .. n : s[i] = [msg |-> m, pos |-> i]
  <2>1. s = [i \in 1 .. n |-> [msg |-> m, pos |-> i]]
    BY DEF Frame
  <2> HIDE DEF s, n
  <2>2. \A i \in 1 .. n : [msg |-> m, pos |-> i] \in Places
    BY <1>1 DEF Places
  <2>3. s \in [1 .. n -> Places] /\ \A i \in 1 .. n : s[i] = [msg |-> m, pos |-> i]
    BY <2>1, <2>2
  <2>4. s \in Seq(Places) /\ Len(s) = n
    BY <1>1, <2>3
  <2> QED
    BY <1>1, <2>3, <2>4
<1>3. FrameSize(sizes, m) = n
  BY DEF FrameSize
<1> HIDE DEF s, n
<1>4. \A i \in 1 .. n : InStream(sizes, s[i])
  BY <1>1, <1>2, <1>3 DEF InStream, Places
<1>5. \A i \in 1 .. n - 1 : s[i + 1] = After(sizes, s[i])
  BY <1>1, <1>2, <1>3 DEF After
<1>6. s[1] = First(m) /\ After(sizes, s[n]) = First(m + 1)
  BY <1>1, <1>2, <1>3 DEF After, First
<1>7. InOrAfter(sizes, First(m)) /\ InOrAfter(sizes, First(m + 1))
  <2>1. 1 \in 1 .. n /\ n \in 1 .. n
    BY <1>1
  <2> QED
    BY <1>4, <1>6, <2>1, AfterIs DEF InOrAfter
<1>8. Runs(sizes, s, First(m), First(m + 1))
  BY <1>2, <1>4, <1>5, <1>6, <1>7 DEF Runs
<1> QED
  BY <1>8 DEF s

\* A buffer that begins with a message begins with that message's bytes in
\* order, as far as it and the message reach.
LEMMA RunsWhole ==
    ASSUME NEW sizes \in Sizes, NEW s \in Seq(Places), NEW m \in 1 .. Len(sizes), NEW b,
           Runs(sizes, s, First(m), b)
    PROVE  \A i \in 1 .. Len(s) : i <= FrameSize(sizes, m) => s[i] = [msg |-> m, pos |-> i]
<1> DEFINE Bad == {i \in 1 .. Len(s) : i <= FrameSize(sizes, m) /\ s[i] # [msg |-> m, pos |-> i]}
<1> SUFFICES ASSUME Bad # {} PROVE FALSE
  OBVIOUS
<1>1. PICK k \in Bad : \A i \in Bad : k <= i
  <2>1. Bad \subseteq Nat
    OBVIOUS
  <2> HIDE DEF Bad
  <2> QED
    BY <2>1, NatHasMin
<1>2. FrameSize(sizes, m) \in Nat /\ Len(s) \in Nat
  BY SizesAssumption DEF Sizes, FrameSize
<1>3. k # 1
  BY <1>1, <1>2 DEF Runs, First
<1>4. k - 1 \in 1 .. Len(s) - 1 /\ k - 1 \in 1 .. Len(s) /\ k - 1 < FrameSize(sizes, m) /\ k - 1 \notin Bad
  BY <1>1, <1>2, <1>3
<1>5. s[k - 1] = [msg |-> m, pos |-> k - 1]
  BY <1>2, <1>4
<1>6. s[k] = After(sizes, s[k - 1])
  <2>1. (k - 1) + 1 = k
    BY <1>4
  <2> QED
    BY <1>4, <2>1 DEF Runs
<1>7. s[k] = [msg |-> m, pos |-> k]
  BY <1>4, <1>5, <1>6 DEF After
<1> QED
  BY <1>1, <1>7

-----------------------------------------------------------------------------
\* One thread at a time sends, and only what fits.
SendInv ==
    /\ Len(accepted) <= MaxSends
    /\ \A i \in 1 .. Len(accepted) : Valid(accepted[i])
    /\ \A s, t \in Senders : unwritten[s] # <<>> /\ unwritten[t] # <<>> => s = t

\* What was read fits; no honest stream was refused.
RecvInv ==
    /\ pc = "insert" => Len(recvBuffer) + Len(chunk) <= MaxBufferSize
    /\ pc # "insert" => chunk = <<>>
    /\ report \in {"overflow", "header"} => ~receiverOpen

\* What is still to be written is the stream from place d to its end.
SentFrom(d) ==
    senderOpen =>
        /\ (\A s \in Senders : unwritten[s] = <<>>) => d = First(Len(accepted) + 1)
        /\ \A s \in Senders :
              unwritten[s] # <<>> => Runs(accepted, unwritten[s], d, First(Len(accepted) + 1))

\* While the receiving end is open, what it returned are the first messages, and
\* the buffer, what was just read, the wire and what is still to be written are
\* the rest of the stream, in this order.
StreamInv ==
    receiverOpen =>
        /\ \A i \in 1 .. Len(received) : received[i] = i
        /\ \E b, c, d \in Places :
              /\ Runs(accepted, recvBuffer, First(Len(received) + 1), b)
              /\ Runs(accepted, chunk, b, c)
              /\ Runs(accepted, wire, c, d)
              /\ SentFrom(d)

\* The buffer holds less than the next message.
Incomplete ==
    Len(recvBuffer) < HeaderSize \/ Len(recvBuffer) < FrameSize(accepted, Len(received) + 1)

\* These bytes begin within the message after the last that was returned.
OfNext(s) == s # <<>> => s[1].msg = Len(received) + 1 /\ Len(received) < Len(accepted)

\* Nothing complete is in the buffer during a read, and so not when the TLS
\* session is freed in one; what a receive puts into the buffer after the close
\* has emptied it is of the next message.
LateInv ==
    /\ receiverOpen /\ (dropped \/ pc \in {"read", "insert"}) => Incomplete
    /\ dropped => pc # "insert"
    /\ ~receiverOpen /\ (dropped \/ pc = "insert") => recvBuffer = <<>>
    /\ ~receiverOpen /\ pc = "insert" => OfNext(chunk)
    /\ ~receiverOpen /\ pc = "check" => OfNext(recvBuffer)

SessionInv == SessionTypeOK /\ SendInv /\ RecvInv /\ StreamInv /\ LateInv

\* Pieces of a sequence.
LEMMA PiecesAre ==
    ASSUME NEW T, NEW s \in Seq(T), NEW k \in 0 .. Len(s)
    PROVE  /\ SubSeq(s, 1, k) \in Seq(T) /\ Len(SubSeq(s, 1, k)) = k
           /\ SubSeq(s, k + 1, Len(s)) \in Seq(T) /\ Len(SubSeq(s, k + 1, Len(s))) = Len(s) - k
OBVIOUS

\* A sequence of bytes is one of places.
LEMMA BytesArePlaces ==
    /\ \A s \in Seq(Byte) : s \in Seq(Places)
    /\ \A s \in Seq(Payloads) : s \in Sizes
<1>1. Byte \subseteq Places
  BY SizesAssumption DEF Byte, Places
<1>2. \A S, T : S \subseteq T => \A s \in Seq(S) : s \in Seq(T)
  OBVIOUS
<1> QED
  BY <1>1, <1>2, SizesAssumption DEF Sizes

\* A frame of one of the messages that may be sent.
LEMMA FrameIsBytes ==
    ASSUME NEW n \in 1 .. MaxSends, NEW size \in Nat
    PROVE  Frame(n, size) \in Seq(Byte)
<1> DEFINE k == HeaderSize + size
<1>1. k \in Nat
  BY SizesAssumption
<1>2. Frame(n, size) = [i \in 1 .. k |-> [msg |-> n, pos |-> i]]
  BY DEF Frame
<1> HIDE DEF k
<1>3. \A i \in 1 .. k : [msg |-> n, pos |-> i] \in Byte
  BY <1>1 DEF Byte
<1>4. Frame(n, size) \in [1 .. k -> Byte]
  BY <1>2, <1>3
<1> QED
  BY <1>1, <1>4

\* No sooner is a session open than the invariant holds.
LEMMA SessionStart == SessionInit => SessionInv
<1> SUFFICES ASSUME SessionInit PROVE SessionInv
  OBVIOUS
<1> USE SizesAssumption DEF SessionInit
<1>1. SessionTypeOK
  <2>1. senderOpen \in BOOLEAN /\ receiverOpen \in BOOLEAN /\ dropped \in BOOLEAN
    OBVIOUS
  <2>2. accepted \in Seq(Payloads) /\ wire \in Seq(Byte) /\ chunk \in Seq(Byte) /\ recvBuffer \in Seq(Byte)
        /\ received \in Seq(0 .. MaxSends) /\ unwritten \in [Senders -> Seq(Byte)]
    OBVIOUS
  <2>3. Len(chunk) <= ChunkSize /\ Len(recvBuffer) <= MaxBufferSize
    OBVIOUS
  <2>4. pc \in {"idle", "check", "read", "insert"} /\ report \in Reports
    BY DEF Reports
  <2> QED
    BY <2>1, <2>2, <2>3, <2>4 DEF SessionTypeOK
<1>2. SendInv /\ RecvInv /\ LateInv
  BY DEF SendInv, RecvInv, LateInv
<1>3. StreamInv
  <2>1. First(1) \in Places /\ Len(accepted) + 1 = 1 /\ Len(received) + 1 = 1
    BY DEF First, Places
  <2>2. Runs(accepted, <<>>, First(1), First(1))
    BY <2>1 DEF Runs, InOrAfter
  <2>3. SentFrom(First(1))
    BY <2>1 DEF SentFrom
  <2>4. \A i \in 1 .. Len(received) : received[i] = i
    OBVIOUS
  <2> QED
    BY <2>1, <2>2, <2>3, <2>4 DEF StreamInv
<1> QED
  BY <1>1, <1>2, <1>3 DEF SessionInv

\* Every step keeps the types.
LEMMA SessionTypeStep == SessionInv /\ [SessionNext]_sessionVars => SessionTypeOK'
<1> SUFFICES ASSUME SessionInv, [SessionNext]_sessionVars PROVE SessionTypeOK'
  OBVIOUS
<1>1. SessionTypeOK /\ SendInv /\ RecvInv
  BY DEF SessionInv
<1> USE <1>1, SizesAssumption
<1>0. <<>> \in Seq(Byte) /\ Len(<<>>) = 0
  OBVIOUS
<1>c. ASSUME CloseReceiver
      PROVE  recvBuffer' \in Seq(Byte) /\ Len(recvBuffer') <= MaxBufferSize /\ receiverOpen' \in BOOLEAN
  <2>1. recvBuffer' = <<>> /\ receiverOpen' = FALSE
    BY <1>c DEF CloseReceiver
  <2>2. Len(recvBuffer') = 0 /\ recvBuffer' \in Seq(Byte)
    BY <2>1, EmptySeq
  <2>3. Len(recvBuffer') <= MaxBufferSize
    BY <2>2
  <2>4. receiverOpen' \in BOOLEAN
    BY <2>1
  <2> QED
    BY <2>2, <2>3, <2>4, Zenon
<1>2. ASSUME NEW s \in Senders, NEW size \in Payloads, StartSend(s, size) PROVE SessionTypeOK'
  <2>1. Frame(Len(accepted) + 1, size) \in Seq(Byte)
    <3>1. Len(accepted) + 1 \in 1 .. MaxSends /\ size \in Nat
      BY <1>2 DEF StartSend, SessionTypeOK
    <3> QED
      BY <3>1, FrameIsBytes
  <2>2. unwritten' \in [Senders -> Seq(Byte)]
    BY <1>2, <2>1 DEF StartSend, SessionTypeOK
  <2>3. accepted' \in Seq(Payloads)
    BY <1>2 DEF StartSend, SessionTypeOK
  <2> QED
    BY <1>2, <2>2, <2>3 DEF StartSend, recvVars, SessionTypeOK
<1>3. ASSUME NEW s \in Senders, Write(s) PROVE SessionTypeOK'
  <2>1. PICK k \in 1 .. Len(unwritten[s]) :
           /\ wire' = wire \o SubSeq(unwritten[s], 1, k)
           /\ unwritten' = [unwritten EXCEPT ![s] = SubSeq(@, k + 1, Len(@))]
    BY <1>3 DEF Write
  <2>2. unwritten[s] \in Seq(Byte) /\ k \in 0 .. Len(unwritten[s])
    BY DEF SessionTypeOK
  <2>3. SubSeq(unwritten[s], 1, k) \in Seq(Byte) /\ SubSeq(unwritten[s], k + 1, Len(unwritten[s])) \in Seq(Byte)
    BY <2>2, PiecesAre
  <2>4. wire' \in Seq(Byte) /\ unwritten' \in [Senders -> Seq(Byte)]
    BY <2>1, <2>3 DEF SessionTypeOK
  <2> QED
    BY <1>3, <2>4 DEF Write, recvVars, SessionTypeOK
<1>4. CASE SenderCloses
  <2>1. unwritten' \in [Senders -> Seq(Byte)]
    BY <1>0, <1>4 DEF SenderCloses
  <2> QED
    BY <1>4, <2>1 DEF SenderCloses, recvVars, SessionTypeOK
<1>5. CASE Receive
  BY <1>5 DEF Receive, sendVars, SessionTypeOK
<1>6. CASE TakeMessage
  <2>1. PICK size \in Declared :
           /\ size \in HeaderSize .. MaxMessageSize
           /\ Complete(size)
           /\ received' = Append(received, IF Whole(size) THEN recvBuffer[1].msg ELSE Corrupt)
           /\ recvBuffer' = Rest(size)
    BY <1>6 DEF TakeMessage
  <2>2. size \in 0 .. Len(recvBuffer) /\ recvBuffer \in Seq(Byte) /\ 1 \in 1 .. Len(recvBuffer)
    BY <2>1 DEF Complete, SessionTypeOK
  <2>3. recvBuffer' \in Seq(Byte) /\ Len(recvBuffer') <= MaxBufferSize
    BY <2>1, <2>2, PiecesAre DEF Rest, SessionTypeOK
  <2>4. recvBuffer[1].msg \in 0 .. MaxSends
    <3>1. recvBuffer[1] \in Byte
      BY <2>2
    <3> QED
      BY <3>1 DEF Byte
  <2>5. received' \in Seq(0 .. MaxSends)
    BY <2>1, <2>4 DEF Corrupt, SessionTypeOK
  <2> QED
    BY <1>6, <2>3, <2>5 DEF TakeMessage, sendVars, SessionTypeOK
<1>7. CASE RefuseHeader
  BY <1>c, <1>7 DEF RefuseHeader, Return, sendVars, SessionTypeOK, Reports
<1>8. CASE NeedMore
  BY <1>c, <1>8 DEF NeedMore, Return, sendVars, SessionTypeOK, Reports
<1>9. CASE Read
  <2>1. PICK k \in 1 .. ReadSize :
           /\ k <= Len(wire)
           /\ chunk' = SubSeq(wire, 1, k)
           /\ wire' = SubSeq(wire, k + 1, Len(wire))
    BY <1>9 DEF Read
  <2>2. k \in 0 .. Len(wire) /\ k <= ChunkSize /\ wire \in Seq(Byte)
    BY <2>1 DEF ReadSize, SessionTypeOK
  <2>3. /\ chunk' \in Seq(Byte) /\ Len(chunk') <= ChunkSize
        /\ wire' \in Seq(Byte)
    BY <2>1, <2>2, PiecesAre
  <2> QED
    BY <1>9, <2>3 DEF Read, sendVars, SessionTypeOK
<1>10. CASE Insert
  <2>1. recvBuffer' \in Seq(Byte) /\ Len(recvBuffer') <= MaxBufferSize
    BY <1>10 DEF Insert, RecvInv, SessionTypeOK
  <2> QED
    BY <1>10, <2>1 DEF Insert, sendVars, SessionTypeOK
<1>11. CASE Timeout
  BY <1>11 DEF Timeout, Return, sendVars, SessionTypeOK, Reports
<1>12. CASE ReadEnd
  BY <1>c, <1>12 DEF ReadEnd, EndReport, Return, sendVars, SessionTypeOK, Reports
<1>13. CASE ReadError
  BY <1>c, <1>13 DEF ReadError, Return, sendVars, SessionTypeOK, Reports
<1>14. CASE CloseSession
  BY <1>c, <1>14 DEF CloseSession, sendVars, SessionTypeOK
<1>15. CASE OwnSendFails
  BY <1>c, <1>15 DEF OwnSendFails, sendVars, SessionTypeOK
<1>16. CASE UNCHANGED sessionVars
  BY <1>16 DEF sessionVars, sendVars, recvVars, SessionTypeOK
<1> QED
  BY <1>2, <1>3, <1>4, <1>5, <1>6, <1>7, <1>8, <1>9, <1>10, <1>11, <1>12, <1>13, <1>14, <1>15, <1>16
     DEF SessionNext

\* Every step leaves at most one message half written.
LEMMA SendStep == SessionInv /\ [SessionNext]_sessionVars => SendInv'
<1> SUFFICES ASSUME SessionInv, [SessionNext]_sessionVars PROVE SendInv'
  OBVIOUS
<1>1. /\ SendInv /\ accepted \in Seq(Payloads) /\ Payloads \subseteq Nat
      /\ unwritten \in [Senders -> Seq(Byte)]
  BY SizesAssumption DEF SessionInv, SessionTypeOK
<1>2. ASSUME NEW s \in Senders, NEW size \in Payloads, StartSend(s, size) PROVE SendInv'
  <2>1. /\ Len(accepted') = Len(accepted) + 1 /\ Len(accepted') <= MaxSends
        /\ \A i \in 1 .. Len(accepted) : accepted'[i] = accepted[i]
        /\ accepted'[Len(accepted) + 1] = size
    BY <1>1, <1>2, SizesAssumption DEF StartSend
  <2>2. ASSUME NEW i \in 1 .. Len(accepted') PROVE Valid(accepted'[i])
    <3>1. i \in 1 .. Len(accepted) \/ i = Len(accepted) + 1
      BY <1>1, <2>1
    <3> QED
      BY <1>1, <1>2, <2>1, <3>1 DEF StartSend, SendInv
  <2>3. \A t \in Senders : t # s => unwritten'[t] = <<>>
    BY <1>1, <1>2 DEF StartSend, MayStart
  <2> QED
    BY <2>1, <2>2, <2>3 DEF SendInv, Valid
<1>3. ASSUME NEW s \in Senders, Write(s) PROVE SendInv'
  <2>1. unwritten[s] # <<>>
    BY <1>1, <1>3 DEF Write
  <2>2. \A t \in Senders : t # s => unwritten[t] = <<>>
    BY <1>1, <2>1 DEF SendInv
  <2>3. \A t \in Senders : t # s => unwritten'[t] = <<>>
    BY <1>1, <1>3, <2>2 DEF Write
  <2>4. accepted' = accepted
    BY <1>3 DEF Write
  <2> QED
    BY <1>1, <2>3, <2>4 DEF SendInv, Valid
<1>4. CASE SenderCloses
  BY <1>1, <1>4 DEF SenderCloses, SendInv, Valid
<1>5. CASE UNCHANGED sendVars
  BY <1>1, <1>5 DEF sendVars, SendInv, Valid
<1>6. SessionNext => \/ \E s \in Senders, size \in Payloads : StartSend(s, size)
                     \/ \E s \in Senders : Write(s)
                     \/ SenderCloses \/ UNCHANGED sendVars
  BY DEF SessionNext, Receive, TakeMessage, RefuseHeader, NeedMore, Read, Insert, Timeout,
         ReadEnd, ReadError, CloseSession, OwnSendFails
<1>7. UNCHANGED sessionVars => UNCHANGED sendVars
  BY DEF sessionVars
<1> QED
  BY <1>2, <1>3, <1>4, <1>5, <1>6, <1>7

\* While the session is open, a header in the buffer is that of the next
\* message, whose frame begins the buffer and fits it.
LEMMA OpenHeader ==
    ASSUME SessionInv, receiverOpen, HasHeader
    PROVE  LET m == Len(received) + 1
               n == HeaderSize + accepted[m]
           IN  /\ m \in 1 .. Len(accepted)
               /\ n \in HeaderSize .. MaxMessageSize
               /\ Declared = {n}
               /\ \A i \in 1 .. Len(recvBuffer) : i <= n => recvBuffer[i] = [msg |-> m, pos |-> i]
<1> DEFINE m == Len(received) + 1
           n == HeaderSize + accepted[m]
<1>1. /\ accepted \in Sizes /\ recvBuffer \in Seq(Places) /\ HeaderSize \in Nat \ {0} /\ MaxMessageSize \in Nat
      /\ Len(recvBuffer) \in Nat /\ Len(recvBuffer) >= HeaderSize
  BY BytesArePlaces, SizesAssumption DEF SessionInv, SessionTypeOK, HasHeader
<1>2. PICK b \in Places : Runs(accepted, recvBuffer, First(m), b)
  BY DEF SessionInv, StreamInv
<1>3. recvBuffer[1] = First(m) /\ InStream(accepted, recvBuffer[1])
  <2>1. 1 \in 1 .. Len(recvBuffer) /\ recvBuffer # <<>>
    BY <1>1
  <2> QED
    BY <1>2, <2>1 DEF Runs
<1>4. m \in 1 .. Len(accepted) /\ recvBuffer[1].msg = m
  BY <1>3 DEF InStream, First
<1>5. n \in HeaderSize .. MaxMessageSize /\ FrameSize(accepted, m) = n
  <2>1. Valid(accepted[m]) /\ accepted[m] \in Nat
    BY <1>1, <1>4 DEF SessionInv, SendInv, Sizes
  <2> QED
    BY <1>1, <2>1 DEF Valid, FrameSize
<1>6. \A i \in 1 .. Len(recvBuffer) : i <= n => recvBuffer[i] = [msg |-> m, pos |-> i]
  BY <1>1, <1>2, <1>4, <1>5, RunsWhole
<1>7. Whole(HeaderSize)
  <2>1. \A i \in 1 .. HeaderSize : i \in 1 .. Len(recvBuffer) /\ i <= n
    BY <1>1, <1>5
  <2> QED
    BY <1>4, <1>6, <2>1 DEF Whole
<1>8. Declared = {n}
  BY <1>4, <1>7 DEF Declared
<1> QED
  BY <1>4, <1>5, <1>6, <1>8

\* An open session takes the next message, whole.
LEMMA TakesNext ==
    ASSUME SessionInv, receiverOpen, TakeMessage
    PROVE  LET m == Len(received) + 1
               n == FrameSize(accepted, m)
           IN  /\ m \in 1 .. Len(accepted)
               /\ n \in 1 .. Len(recvBuffer) /\ recvBuffer[n] = [msg |-> m, pos |-> n]
               /\ received' = Append(received, m)
               /\ recvBuffer' = Rest(n)
<1> DEFINE m == Len(received) + 1
           n == FrameSize(accepted, m)
<1>1. HasHeader /\ Len(recvBuffer) \in Nat /\ HeaderSize \in Nat \ {0}
  BY SizesAssumption DEF TakeMessage, SessionInv, SessionTypeOK
<1>2. PICK size \in Declared :
         /\ size \in HeaderSize .. MaxMessageSize
         /\ Complete(size)
         /\ received' = Append(received, IF Whole(size) THEN recvBuffer[1].msg ELSE Corrupt)
         /\ recvBuffer' = Rest(size)
  BY DEF TakeMessage
<1>3. /\ m \in 1 .. Len(accepted)
      /\ size = n
      /\ \A i \in 1 .. Len(recvBuffer) : i <= size => recvBuffer[i] = [msg |-> m, pos |-> i]
  BY <1>1, <1>2, OpenHeader DEF FrameSize
<1>4. size \in 1 .. Len(recvBuffer) /\ 1 \in 1 .. Len(recvBuffer)
  BY <1>1, <1>2, SizesAssumption DEF Complete
<1>5. recvBuffer[1] = [msg |-> m, pos |-> 1] /\ recvBuffer[size] = [msg |-> m, pos |-> size]
  BY <1>3, <1>4
<1>6. Whole(size)
  <2>1. \A i \in 1 .. size : i \in 1 .. Len(recvBuffer) /\ i <= size
    BY <1>4
  <2> QED
    BY <1>3, <1>5, <2>1 DEF Whole
<1>7. received' = Append(received, m)
  BY <1>2, <1>5, <1>6
<1> QED
  BY <1>2, <1>3, <1>4, <1>5, <1>7

\* An open session refuses nothing and does not run full.
LEMMA NothingRefused ==
    ASSUME SessionInv, receiverOpen
    PROVE  ~RefuseHeader /\ ~ (NeedMore /\ Len(recvBuffer) >= MaxBufferSize)
<1>1. /\ HeaderSize \in Nat /\ MaxMessageSize \in Nat /\ MaxBufferSize \in Nat
      /\ HeaderSize <= MaxMessageSize /\ MaxMessageSize <= MaxBufferSize
      /\ Len(recvBuffer) \in Nat
  BY SizesAssumption DEF SessionInv, SessionTypeOK
<1>2. ~RefuseHeader
  BY OpenHeader DEF RefuseHeader
<1>3. ASSUME NeedMore, Len(recvBuffer) >= MaxBufferSize PROVE FALSE
  <2>1. HasHeader
    BY <1>1, <1>3 DEF HasHeader
  <2>2. PICK size \in Declared : size \in HeaderSize .. MaxMessageSize /\ ~Complete(size)
    BY <1>3, <2>1 DEF NeedMore
  <2> QED
    BY <1>1, <1>3, <2>2 DEF Complete
<1> QED
  BY <1>2, <1>3

\* Every step leaves room for what was read, and no refusal on an open session.
LEMMA RecvStep == SessionInv /\ [SessionNext]_sessionVars => RecvInv'
<1> SUFFICES ASSUME SessionInv, [SessionNext]_sessionVars PROVE RecvInv'
  OBVIOUS
<1>1. /\ RecvInv /\ wire \in Seq(Byte) /\ recvBuffer \in Seq(Byte) /\ chunk \in Seq(Byte)
      /\ MaxBufferSize \in Nat /\ ChunkSize \in Nat /\ Len(recvBuffer) <= MaxBufferSize
  BY SizesAssumption DEF SessionInv, SessionTypeOK
<1>2. ASSUME NEW s \in Senders, NEW size \in Payloads, StartSend(s, size) PROVE RecvInv'
  BY <1>1, <1>2 DEF StartSend, recvVars, RecvInv
<1>3. ASSUME NEW s \in Senders, Write(s) PROVE RecvInv'
  BY <1>1, <1>3 DEF Write, recvVars, RecvInv
<1>4. CASE SenderCloses
  BY <1>1, <1>4 DEF SenderCloses, recvVars, RecvInv
<1>5. CASE Receive
  BY <1>1, <1>5 DEF Receive, RecvInv
<1>6. CASE TakeMessage
  BY <1>1, <1>6 DEF TakeMessage, RecvInv
<1>7. CASE RefuseHeader
  BY <1>1, <1>7 DEF RefuseHeader, CloseReceiver, Return, RecvInv
<1>8. CASE NeedMore
  <2>1. pc = "check" /\ chunk' = chunk
    BY <1>8 DEF NeedMore
  <2>2. CASE Len(recvBuffer) >= MaxBufferSize
    BY <1>1, <1>8, <2>1, <2>2 DEF NeedMore, CloseReceiver, Return, RecvInv
  <2>3. CASE ~ (Len(recvBuffer) >= MaxBufferSize)
    BY <1>1, <1>8, <2>1, <2>3 DEF NeedMore, RecvInv
  <2> QED
    BY <2>2, <2>3
<1>9. CASE Read
  <2>1. PICK k \in 1 .. ReadSize : k <= Len(wire) /\ chunk' = SubSeq(wire, 1, k)
    BY <1>9 DEF Read
  <2>2. k \in 0 .. Len(wire) /\ k <= MaxBufferSize - Len(recvBuffer)
    BY <1>1, <2>1 DEF ReadSize
  <2>3. Len(chunk') = k
    BY <1>1, <2>1, <2>2, PiecesAre
  <2> QED
    BY <1>1, <1>9, <2>2, <2>3 DEF Read, RecvInv
<1>10. CASE Insert
  BY <1>1, <1>10 DEF Insert, RecvInv
<1>11. CASE Timeout
  BY <1>1, <1>11 DEF Timeout, Return, RecvInv
<1>12. CASE ReadEnd
  BY <1>1, <1>12 DEF ReadEnd, EndReport, CloseReceiver, Return, RecvInv
<1>13. CASE ReadError
  BY <1>1, <1>13 DEF ReadError, CloseReceiver, Return, RecvInv
<1>14. CASE CloseSession
  BY <1>1, <1>14 DEF CloseSession, CloseReceiver, RecvInv
<1>15. CASE OwnSendFails
  <2>1. recvBuffer' = <<>> /\ receiverOpen' = FALSE /\ UNCHANGED <<pc, chunk, report>>
    BY <1>15 DEF OwnSendFails, CloseReceiver
  <2>2. Len(recvBuffer') = 0 /\ Len(recvBuffer) >= 0 /\ Len(chunk) \in Nat /\ Len(recvBuffer) \in Nat
    BY <1>1, <2>1
  <2>3. pc' = "insert" => Len(recvBuffer') + Len(chunk') <= MaxBufferSize
    BY <1>1, <2>1, <2>2 DEF RecvInv
  <2> QED
    BY <1>1, <2>1, <2>3 DEF RecvInv
<1>16. CASE UNCHANGED sessionVars
  BY <1>1, <1>16 DEF sessionVars, recvVars, RecvInv
<1> QED
  BY <1>2, <1>3, <1>4, <1>5, <1>6, <1>7, <1>8, <1>9, <1>10, <1>11, <1>12, <1>13, <1>14, <1>15, <1>16
     DEF SessionNext

\* Every step that leaves the session open leaves the rest of the stream in
\* its places.
LEMMA StreamStep == SessionInv /\ [SessionNext]_sessionVars => StreamInv'
<1> SUFFICES ASSUME SessionInv, [SessionNext]_sessionVars, receiverOpen'
             PROVE  StreamInv'
  BY DEF StreamInv
<1>1. /\ accepted \in Sizes /\ recvBuffer \in Seq(Places) /\ chunk \in Seq(Places) /\ wire \in Seq(Places)
      /\ unwritten \in [Senders -> Seq(Places)]
      /\ received \in Seq(Nat) /\ Len(received) \in Nat
      /\ SendInv /\ RecvInv
  <2>1. \A s \in Senders : unwritten[s] \in Seq(Places)
    BY BytesArePlaces DEF SessionInv, SessionTypeOK
  <2>2. received \in Seq(Nat)
    <3>1. 0 .. MaxSends \subseteq Nat /\ received \in Seq(0 .. MaxSends)
      BY SizesAssumption DEF SessionInv, SessionTypeOK
    <3> QED
      BY <3>1, SeqMonotonic
  <2> QED
    BY <2>1, <2>2, BytesArePlaces DEF SessionInv, SessionTypeOK
<1>2. receiverOpen
  <2> SUFFICES ASSUME ~receiverOpen PROVE FALSE
    OBVIOUS
  <2>1. receiverOpen' = receiverOpen \/ CloseReceiver
    BY DEF SessionNext, sessionVars, sendVars, recvVars, StartSend, Write, SenderCloses, Receive, TakeMessage,
           RefuseHeader, NeedMore, Read, Insert, Timeout, ReadEnd, ReadError, CloseSession, OwnSendFails
  <2> QED
    BY <2>1 DEF CloseReceiver
<1>3. \A i \in 1 .. Len(received) : received[i] = i
  BY <1>2 DEF SessionInv, StreamInv
<1>4. PICK b \in Places, c \in Places, d \in Places :
        /\ Runs(accepted, recvBuffer, First(Len(received) + 1), b)
        /\ Runs(accepted, chunk, b, c)
        /\ Runs(accepted, wire, c, d)
        /\ SentFrom(d)
  BY <1>2 DEF SessionInv, StreamInv
<1>5. ASSUME NEW s \in Senders, NEW size \in Payloads, StartSend(s, size) PROVE StreamInv'
  <2>1. UNCHANGED <<pc, chunk, recvBuffer, receiverOpen, received, report, wire, senderOpen>> /\ size \in Nat
        /\ accepted' = Append(accepted, size) /\ senderOpen
    BY <1>5, SizesAssumption DEF StartSend, recvVars
  <2> DEFINE m == Len(accepted) + 1
  <2>2. accepted' \in Sizes /\ Len(accepted') = m /\ accepted'[m] = size /\ m \in 1 .. Len(accepted')
    BY <1>1, <2>1 DEF Sizes
  <2>3. /\ Runs(accepted', recvBuffer', First(Len(received') + 1), b)
        /\ Runs(accepted', chunk', b, c)
        /\ Runs(accepted', wire', c, d)
    BY <1>1, <1>4, <2>1, RunsMore
  <2>4. d = First(m)
    BY <1>4, <1>5, <2>1 DEF SentFrom, StartSend, MayStart
  <2>5. Runs(accepted', Frame(m, size), First(m), First(m + 1))
    BY <2>2, FrameRuns
  <2>6. unwritten'[s] = Frame(m, size) /\ \A t \in Senders : t # s => unwritten'[t] = <<>>
    BY <1>1, <1>5 DEF StartSend, MayStart
  <2>7. SentFrom(d)'
    <3> HIDE DEF m
    <3>1. \A t \in Senders : unwritten'[t] # <<>> => Runs(accepted', unwritten'[t], d, First(Len(accepted') + 1))
      BY <2>2, <2>4, <2>5, <2>6
    <3>2. (\A t \in Senders : unwritten'[t] = <<>>) => d = First(Len(accepted') + 1)
      BY <2>2, <2>4, <2>5, <2>6 DEF Runs
    <3> QED
      BY <3>1, <3>2 DEF SentFrom
  <2> QED
    BY <1>3, <2>1, <2>3, <2>7 DEF StreamInv
<1>6. ASSUME NEW s \in Senders, Write(s) PROVE StreamInv'
  <2> DEFINE u == unwritten[s]
             end == First(Len(accepted) + 1)
  <2>1. PICK k \in 1 .. Len(u) :
           /\ wire' = wire \o SubSeq(u, 1, k)
           /\ unwritten' = [unwritten EXCEPT ![s] = SubSeq(@, k + 1, Len(@))]
    BY <1>6 DEF Write
  <2>2. UNCHANGED <<pc, chunk, recvBuffer, receiverOpen, received, report, accepted, senderOpen>> /\ senderOpen
    BY <1>6 DEF Write, recvVars
  <2>3. u \in Seq(Places) /\ u # <<>> /\ k \in 0 .. Len(u)
    BY <1>1
  <2>4. Runs(accepted, u, d, end)
    BY <1>4, <2>2, <2>3 DEF SentFrom
  <2>5. PICK e \in Places : Runs(accepted, SubSeq(u, 1, k), d, e) /\ Runs(accepted, SubSeq(u, k + 1, Len(u)), e, end)
    <3> HIDE DEF u, end
    <3> QED
      BY <1>1, <2>3, <2>4, RunsSplit
  <2>6. Runs(accepted, wire', c, e)
    <3>1. SubSeq(u, 1, k) \in Seq(Places)
      BY <2>3, PiecesAre
    <3> QED
      BY <1>1, <1>4, <2>1, <2>5, <3>1, RunsConcat
  <2>7. unwritten'[s] = SubSeq(u, k + 1, Len(u)) /\ \A t \in Senders : t # s => unwritten'[t] = <<>>
    BY <1>1, <2>1, <2>3 DEF SendInv
  <2>8. SentFrom(e)'
    <3> HIDE DEF u
    <3>1. \A t \in Senders : unwritten'[t] # <<>> => Runs(accepted', unwritten'[t], e, First(Len(accepted') + 1))
      BY <2>2, <2>5, <2>7
    <3>2. (\A t \in Senders : unwritten'[t] = <<>>) => e = First(Len(accepted') + 1)
      BY <2>2, <2>5, <2>7 DEF Runs
    <3> QED
      BY <3>1, <3>2 DEF SentFrom
  <2>9. Runs(accepted', recvBuffer', First(Len(received') + 1), b) /\ Runs(accepted', chunk', b, c)
        /\ Runs(accepted', wire', c, e)
    BY <1>4, <2>2, <2>6
  <2> QED
    BY <1>3, <2>2, <2>8, <2>9 DEF StreamInv
<1>7. CASE SenderCloses
  <2>1. UNCHANGED <<pc, chunk, recvBuffer, receiverOpen, received, report, accepted, wire>> /\ senderOpen' = FALSE
    BY <1>7 DEF SenderCloses, recvVars
  <2>2. SentFrom(d)'
    BY <2>1 DEF SentFrom
  <2>3. Runs(accepted', recvBuffer', First(Len(received') + 1), b) /\ Runs(accepted', chunk', b, c)
        /\ Runs(accepted', wire', c, d)
    BY <1>4, <2>1
  <2> QED
    BY <1>3, <2>1, <2>2, <2>3 DEF StreamInv
<1>8. ASSUME UNCHANGED sendVars PROVE \A x : SentFrom(x) => SentFrom(x)'
  BY <1>8 DEF SentFrom, sendVars
<1>9. ASSUME UNCHANGED <<sendVars, wire, chunk, recvBuffer, received>> PROVE StreamInv'
  <2>1. SentFrom(d)' /\ accepted' = accepted
    BY <1>4, <1>8, <1>9 DEF sendVars
  <2>2. Runs(accepted', recvBuffer', First(Len(received') + 1), b) /\ Runs(accepted', chunk', b, c)
        /\ Runs(accepted', wire', c, d)
    BY <1>4, <1>9, <2>1
  <2> QED
    BY <1>3, <1>9, <2>1, <2>2 DEF StreamInv
<1>10. CASE TakeMessage
  <2> DEFINE m == Len(received) + 1
             n == FrameSize(accepted, m)
  <2>1. UNCHANGED <<sendVars, wire, chunk, receiverOpen>> /\ accepted' = accepted
    BY <1>10 DEF TakeMessage, sendVars
  <2>2. /\ m \in 1 .. Len(accepted)
        /\ n \in 1 .. Len(recvBuffer) /\ recvBuffer[n] = [msg |-> m, pos |-> n]
        /\ received' = Append(received, m)
        /\ recvBuffer' = Rest(n)
    BY <1>2, <1>10, TakesNext
  <2>3. Len(received') = m /\ \A i \in 1 .. Len(received') : received'[i] = i
    <3>1. m \in Nat
      BY <1>1
    <3>2. Len(received') = m /\ received'[m] = m /\ \A i \in 1 .. Len(received) : received'[i] = received[i]
      BY <1>1, <2>2, <3>1
    <3>3. \A i \in 1 .. m : i \in 1 .. Len(received) \/ i = m
      BY <1>1
    <3> QED
      BY <1>3, <3>2, <3>3
  <2>4. n \in 0 .. Len(recvBuffer) /\ n > 0
    BY <2>2
  <2>5. After(accepted, recvBuffer[n]) = First(m + 1)
    BY <2>2, <2>4 DEF After
  <2>6. Runs(accepted, Rest(n), First(m + 1), b)
    <3>1. PICK e \in Places :
             /\ Runs(accepted, SubSeq(recvBuffer, n + 1, Len(recvBuffer)), e, b)
             /\ n > 0 => e = After(accepted, recvBuffer[n])
      BY <1>1, <1>4, <2>4, RunsSplit
    <3> QED
      BY <2>4, <2>5, <3>1 DEF Rest
  <2>7. Runs(accepted', recvBuffer', First(Len(received') + 1), b) /\ Runs(accepted', chunk', b, c)
        /\ Runs(accepted', wire', c, d)
    BY <1>4, <2>1, <2>2, <2>3, <2>6
  <2>8. SentFrom(d)'
    BY <1>4, <1>8, <2>1
  <2> QED
    BY <2>3, <2>7, <2>8 DEF StreamInv
<1>11. CASE Read
  <2>1. PICK k \in 1 .. ReadSize :
           /\ k <= Len(wire)
           /\ chunk' = SubSeq(wire, 1, k)
           /\ wire' = SubSeq(wire, k + 1, Len(wire))
    BY <1>11 DEF Read
  <2>2. UNCHANGED <<sendVars, recvBuffer, receiverOpen, received>> /\ accepted' = accepted /\ pc = "read"
    BY <1>11 DEF Read, sendVars
  <2>3. k \in 0 .. Len(wire)
    BY <1>1, <2>1
  <2>4. PICK e \in Places :
           Runs(accepted, SubSeq(wire, 1, k), c, e) /\ Runs(accepted, SubSeq(wire, k + 1, Len(wire)), e, d)
    BY <1>1, <1>4, <2>3, RunsSplit
  <2>5. b = c
    BY <1>1, <1>4, <2>2 DEF RecvInv, Runs
  <2>6. Runs(accepted', recvBuffer', First(Len(received') + 1), b) /\ Runs(accepted', chunk', b, e)
        /\ Runs(accepted', wire', e, d)
    BY <1>4, <2>1, <2>2, <2>4, <2>5
  <2>7. SentFrom(d)'
    BY <1>4, <1>8, <2>2
  <2> QED
    BY <1>3, <2>2, <2>6, <2>7 DEF StreamInv
<1>12. CASE Insert
  <2>1. UNCHANGED <<sendVars, wire, receiverOpen, received>> /\ accepted' = accepted
        /\ recvBuffer' = recvBuffer \o chunk /\ chunk' = <<>>
    BY <1>12 DEF Insert, sendVars
  <2>2. Runs(accepted', recvBuffer', First(Len(received') + 1), c)
    BY <1>1, <1>4, <2>1, RunsConcat
  <2>3. Runs(accepted', chunk', c, c)
    BY <1>4, <2>1 DEF Runs
  <2>4. Runs(accepted', wire', c, d) /\ SentFrom(d)'
    BY <1>4, <1>8, <2>1
  <2> QED
    BY <1>3, <2>1, <2>2, <2>3, <2>4 DEF StreamInv
<1>13. CASE Receive
  BY <1>9, <1>13 DEF Receive
<1>14. CASE NeedMore
  BY <1>9, <1>14 DEF NeedMore, CloseReceiver
<1>15. CASE Timeout
  BY <1>9, <1>15 DEF Timeout
<1>16. CASE UNCHANGED sessionVars
  BY <1>9, <1>16 DEF sessionVars, recvVars
<1>17. ~RefuseHeader /\ ~ReadEnd /\ ~ReadError /\ ~CloseSession /\ ~OwnSendFails
  BY DEF RefuseHeader, ReadEnd, ReadError, CloseSession, OwnSendFails, CloseReceiver
<1> QED
  BY <1>5, <1>6, <1>7, <1>10, <1>11, <1>12, <1>13, <1>14, <1>15, <1>16, <1>17 DEF SessionNext

\* What was read into an open, incomplete buffer goes on where it ends, within the
\* next message.
LEMMA ChunkIsOfNext ==
    ASSUME SessionInv, receiverOpen, Incomplete
    PROVE  OfNext(chunk)
<1> SUFFICES ASSUME chunk # <<>>
             PROVE  chunk[1].msg = Len(received) + 1 /\ Len(received) < Len(accepted)
  BY DEF OfNext
<1> DEFINE m == Len(received) + 1
           k == Len(recvBuffer)
<1>1. /\ accepted \in Sizes /\ recvBuffer \in Seq(Places) /\ chunk \in Seq(Places)
      /\ Len(received) \in Nat /\ Len(accepted) \in Nat /\ k \in Nat /\ Len(chunk) \in Nat
      /\ HeaderSize \in Nat \ {0}
  BY BytesArePlaces, SizesAssumption DEF SessionInv, SessionTypeOK
<1>2. PICK b \in Places, c \in Places :
        Runs(accepted, recvBuffer, First(m), b) /\ Runs(accepted, chunk, b, c)
  BY DEF SessionInv, StreamInv
<1>3. chunk[1] = b /\ InStream(accepted, b)
  <2>1. 1 \in 1 .. Len(chunk)
    BY <1>1
  <2> QED
    BY <1>2, <2>1 DEF Runs
<1>4. CASE recvBuffer = <<>>
  <2>1. b = First(m)
    BY <1>2, <1>4 DEF Runs
  <2> QED
    BY <1>1, <1>3, <2>1 DEF InStream, First
<1>5. CASE recvBuffer # <<>>
  <2>1. k \in 1 .. k /\ 1 \in 1 .. k
    BY <1>1, <1>5
  <2>2. recvBuffer[1] = First(m) /\ InStream(accepted, recvBuffer[1]) /\ b = After(accepted, recvBuffer[k])
    BY <1>2, <1>5, <2>1 DEF Runs
  <2>3. m \in 1 .. Len(accepted)
    BY <2>2 DEF InStream, First
  <2>4. k < FrameSize(accepted, m)
    <3>1. accepted[m] \in Nat
      BY <1>1, <2>3 DEF Sizes
    <3>2. FrameSize(accepted, m) \in Nat /\ FrameSize(accepted, m) >= HeaderSize
      BY <1>1, <3>1 DEF FrameSize
    <3> QED
      BY <1>1, <3>2 DEF Incomplete
  <2>5. recvBuffer[k] = [msg |-> m, pos |-> k]
    <3>1. k <= FrameSize(accepted, m)
      <4>1. FrameSize(accepted, m) \in Nat
        BY <1>1, <2>3 DEF FrameSize, Sizes
      <4> QED
        BY <1>1, <2>4, <4>1
    <3> QED
      BY <1>1, <1>2, <2>1, <2>3, <3>1, RunsWhole
  <2>6. b = [msg |-> m, pos |-> k + 1]
    BY <2>2, <2>4, <2>5 DEF After
  <2> QED
    BY <1>1, <1>3, <2>3, <2>6
<1> QED
  BY <1>4, <1>5

\* A message is not returned when the buffer is incomplete.
LEMMA IncompleteTakesNone ==
    ASSUME SessionInv, receiverOpen, Incomplete
    PROVE  ~TakeMessage
<1> SUFFICES ASSUME TakeMessage PROVE FALSE
  OBVIOUS
<1> DEFINE n == FrameSize(accepted, Len(received) + 1)
<1>1. HasHeader /\ HeaderSize \in Nat /\ Len(recvBuffer) \in Nat
  BY SizesAssumption DEF TakeMessage, SessionInv, SessionTypeOK
<1>2. n \in 1 .. Len(recvBuffer)
  BY TakesNext
<1> HIDE DEF n
<1>3. Len(recvBuffer) < HeaderSize \/ Len(recvBuffer) < n
  BY DEF Incomplete, n
<1> QED
  BY <1>1, <1>2, <1>3 DEF HasHeader

\* A new message makes no difference to a buffer that is incomplete.
LEMMA StaysIncomplete ==
    ASSUME SessionInv, receiverOpen, Incomplete, UNCHANGED <<recvBuffer, received>>,
           accepted' = accepted \/ \E size \in Payloads : accepted' = Append(accepted, size)
    PROVE  Incomplete'
<1> DEFINE m == Len(received) + 1
<1>1. accepted \in Seq(Payloads) /\ Len(recvBuffer) \in Nat /\ HeaderSize \in Nat
  BY SizesAssumption DEF SessionInv, SessionTypeOK
<1>2. CASE Len(recvBuffer) < HeaderSize
  BY <1>2 DEF Incomplete
<1>3. CASE ~ (Len(recvBuffer) < HeaderSize)
  <2>1. m \in 1 .. Len(accepted)
    BY <1>1, <1>3, OpenHeader DEF HasHeader
  <2>2. accepted'[m] = accepted[m]
    BY <1>1, <2>1
  <2>3. Len(recvBuffer) < FrameSize(accepted, m)
    BY <1>3 DEF Incomplete
  <2> QED
    BY <2>2, <2>3 DEF Incomplete, FrameSize
<1> QED
  BY <1>2, <1>3

\* Every step keeps what a late receive depends on.
LEMMA LateStep == SessionInv /\ [SessionNext]_sessionVars => LateInv'
<1> SUFFICES ASSUME SessionInv, [SessionNext]_sessionVars PROVE LateInv'
  OBVIOUS
<1>1. /\ LateInv /\ RecvInv /\ accepted \in Seq(Payloads) /\ Len(accepted) \in Nat
      /\ Len(received) \in Nat /\ recvBuffer \in Seq(Byte) /\ chunk \in Seq(Byte)
      /\ receiverOpen \in BOOLEAN /\ dropped \in BOOLEAN
      /\ pc \in {"idle", "check", "read", "insert"}
  BY DEF SessionInv, SessionTypeOK
<1>2. ASSUME UNCHANGED recvVars,
             accepted' = accepted \/ \E size \in Payloads : accepted' = Append(accepted, size)
      PROVE  LateInv'
  <2>1. Len(accepted) <= Len(accepted') /\ Len(accepted') \in Nat
    BY <1>1, <1>2
  <2>2. UNCHANGED <<pc, chunk, recvBuffer, receiverOpen, dropped, received>>
    BY <1>2 DEF recvVars
  <2>3. OfNext(chunk) => OfNext(chunk)'
    BY <1>1, <2>1, <2>2 DEF OfNext
  <2>4. OfNext(recvBuffer) => OfNext(recvBuffer)'
    BY <1>1, <2>1, <2>2 DEF OfNext
  <2>5. receiverOpen /\ Incomplete => Incomplete'
    BY <1>2, <2>2, StaysIncomplete
  <2> QED
    BY <1>1, <2>2, <2>3, <2>4, <2>5 DEF LateInv
<1>3. ASSUME NEW s \in Senders, NEW size \in Payloads, StartSend(s, size) PROVE LateInv'
  BY <1>2, <1>3 DEF StartSend
<1>4. ASSUME NEW s \in Senders, Write(s) PROVE LateInv'
  BY <1>2, <1>4 DEF Write
<1>5. CASE SenderCloses
  BY <1>2, <1>5 DEF SenderCloses
<1>6. CASE UNCHANGED sessionVars
  BY <1>2, <1>6 DEF sessionVars, sendVars
<1>7. CASE CloseReceiver /\ pc' \in {"idle", "check", "read"}
  BY <1>7 DEF CloseReceiver, LateInv, OfNext
<1>8. CASE OwnSendFails
  <2>1. UNCHANGED <<pc, chunk, dropped, received, accepted>> /\ ~receiverOpen' /\ recvBuffer' = <<>>
        /\ receiverOpen
    BY <1>8 DEF OwnSendFails, CloseReceiver, sendVars
  <2>2. CASE pc = "insert"
    <3>1. OfNext(chunk) /\ ~dropped
      BY <1>1, <2>1, <2>2, ChunkIsOfNext DEF LateInv
    <3>2. OfNext(chunk)'
      BY <2>1, <3>1 DEF OfNext
    <3> QED
      BY <2>1, <2>2, <3>1, <3>2 DEF LateInv
  <2>3. CASE pc # "insert"
    BY <2>1, <2>3 DEF LateInv, OfNext
  <2> QED
    BY <2>2, <2>3
<1>9. CASE Receive
  <2>1. pc' = "check" /\ receiverOpen /\ UNCHANGED <<accepted, recvBuffer, receiverOpen, dropped, received>>
    BY <1>9 DEF Receive, sendVars
  <2>2. dropped => Incomplete'
    BY <1>1, <2>1, StaysIncomplete DEF LateInv
  <2> QED
    BY <2>1, <2>2 DEF LateInv
<1>10. CASE TakeMessage
  <2>1. pc = "check" /\ pc' = "idle" /\ UNCHANGED <<receiverOpen, dropped>> /\ HasHeader
    BY <1>10 DEF TakeMessage
  <2>2. ~dropped
    <3>1. recvBuffer # <<>>
      BY <2>1, SizesAssumption DEF HasHeader
    <3> QED
      BY <1>1, <1>10, <3>1, IncompleteTakesNone DEF LateInv
  <2> QED
    BY <2>1, <2>2 DEF LateInv
<1>11. CASE NeedMore /\ ~CloseReceiver
  <2>1. pc = "check" /\ pc' = "read" /\ UNCHANGED <<accepted, recvBuffer, receiverOpen, dropped, received>>
    BY <1>11 DEF NeedMore, sendVars
  <2>2. ASSUME receiverOpen PROVE Incomplete
    <3>1. CASE ~HasHeader
      BY <1>1, <3>1, SizesAssumption DEF HasHeader, Incomplete
    <3>2. CASE HasHeader
      <4>1. PICK size \in Declared : ~Complete(size) /\ size \in HeaderSize .. MaxMessageSize
        BY <1>11, <3>2 DEF NeedMore
      <4>2. size = FrameSize(accepted, Len(received) + 1)
        BY <2>2, <3>2, <4>1, OpenHeader DEF FrameSize
      <4> QED
        BY <1>1, <4>1, <4>2, SizesAssumption DEF Complete, Incomplete
    <3> QED
      BY <3>1, <3>2
  <2>3. receiverOpen => Incomplete'
    BY <2>1, <2>2, StaysIncomplete
  <2> QED
    BY <1>1, <2>1, <2>3 DEF LateInv
<1>12. CASE Read
  <2>1. pc = "read" /\ pc' = "insert" /\ receiverOpen /\ ~dropped
        /\ UNCHANGED <<accepted, recvBuffer, receiverOpen, dropped, received>>
    BY <1>12 DEF Read, sendVars
  <2>2. Incomplete'
    BY <1>1, <2>1, StaysIncomplete DEF LateInv
  <2> QED
    BY <2>1, <2>2 DEF LateInv
<1>13. CASE Insert
  <2>1. pc = "insert" /\ pc' = "check" /\ recvBuffer' = recvBuffer \o chunk
        /\ UNCHANGED <<accepted, receiverOpen, dropped, received>>
    BY <1>13 DEF Insert, sendVars
  <2>2. ~dropped
    BY <1>1, <2>1 DEF LateInv
  <2>3. ~receiverOpen => OfNext(recvBuffer)'
    <3> SUFFICES ASSUME ~receiverOpen PROVE OfNext(recvBuffer)'
      OBVIOUS
    <3>1. recvBuffer = <<>> /\ OfNext(chunk)
      BY <1>1, <2>1 DEF LateInv
    <3>2. recvBuffer' = chunk
      BY <1>1, <2>1, <3>1
    <3> QED
      BY <2>1, <3>1, <3>2 DEF OfNext
  <2> QED
    BY <2>1, <2>2, <2>3 DEF LateInv
<1>14. CASE Timeout
  <2>1. pc = "read" /\ pc' = "idle" /\ receiverOpen
        /\ UNCHANGED <<accepted, recvBuffer, receiverOpen, received>>
    BY <1>14 DEF Timeout, Return, sendVars
  <2>2. Incomplete'
    BY <1>1, <2>1, StaysIncomplete DEF LateInv
  <2> QED
    BY <2>1, <2>2 DEF LateInv
<1>15. CASE RefuseHeader \/ ReadEnd \/ ReadError \/ CloseSession \/ (NeedMore /\ CloseReceiver)
  <2>1. CloseReceiver /\ pc' \in {"idle", "check", "read"}
    BY <1>15 DEF RefuseHeader, ReadEnd, ReadError, CloseSession, NeedMore, Return
  <2> QED
    BY <1>7, <2>1
<1> QED
  BY <1>3, <1>4, <1>5, <1>6, <1>8, <1>9, <1>10, <1>11, <1>12, <1>13, <1>14, <1>15 DEF SessionNext

\* The invariant of a session.
THEOREM SessionInvariant == SessionSpec => []SessionInv
<1>1. SessionInv /\ [SessionNext]_sessionVars => SessionInv'
  BY SessionTypeStep, SendStep, RecvStep, StreamStep, LateStep DEF SessionInv
<1> QED
  BY <1>1, SessionStart, PTL DEF SessionSpec

(***************************************************************************)
(* Every variable of a session keeps its type, recv_buffer its limit       *)
(* (session.cpp), for any sizes and any number of threads.                 *)
(***************************************************************************)
THEOREM SessionTypes == SessionSpec => []SessionTypeOK
<1>1. SessionInv => SessionTypeOK
  BY DEF SessionInv
<1> QED
  BY <1>1, SessionInvariant, PTL

(***************************************************************************)
(* An open end refuses no header and never overflows, whatever sizes the   *)
(* messages and the pieces they arrive in have: the limits of              *)
(* message_validate at one end and of transport_receive at the other agree.*)
(***************************************************************************)
THEOREM HonestIsNotRefused == SessionSpec => HonestStreamNotRefused
<1>1. SessionInv /\ [SessionNext]_sessionVars
         => [report' \in {"overflow", "header"} => ~receiverOpen]_sessionVars
  <2> SUFFICES ASSUME SessionInv, [SessionNext]_sessionVars, report' \in {"overflow", "header"}, receiverOpen
               PROVE  UNCHANGED sessionVars
    BY DEF sessionVars
  <2>1. report \notin {"overflow", "header"}
    BY DEF SessionInv, RecvInv
  <2>2. report' # report
    BY <2>1
  <2>3. ~RefuseHeader /\ ~ (NeedMore /\ Len(recvBuffer) >= MaxBufferSize)
    BY NothingRefused
  <2>4. CASE NeedMore
    BY <2>2, <2>3, <2>4 DEF NeedMore
  <2>5. CASE SessionNext /\ ~NeedMore
    BY <2>2, <2>3, <2>5
       DEF SessionNext, recvVars, StartSend, Write, SenderCloses, Receive, TakeMessage, Read, Insert,
           Timeout, Return, ReadEnd, EndReport, ReadError, CloseSession, OwnSendFails
  <2> QED
    BY <2>4, <2>5
<1> QED
  BY <1>1, SessionInvariant, PTL DEF SessionSpec, HonestStreamNotRefused

\* What a step does to the messages sent, returned and to the end that receives is
\* a step of the message stream.
LEMMA SessionStepIsStream == SessionInv /\ [SessionNext]_sessionVars => [Stream!Next]_(Stream!vars)
<1> SUFFICES ASSUME SessionInv, [SessionNext]_sessionVars PROVE [Stream!Next]_(Stream!vars)
  OBVIOUS
<1>1. /\ accepted \in Sizes /\ Len(accepted) \in Nat /\ Len(accepted) <= MaxSends /\ MaxSends \in Nat
      /\ Len(received) \in Nat
  BY BytesArePlaces, SizesAssumption DEF SessionInv, SessionTypeOK, SendInv
<1>2. ASSUME NEW s \in Senders, NEW size \in Payloads, StartSend(s, size) PROVE Stream!Next
  <2> DEFINE m == Len(accepted) + 1
  <2>1. m \in 1 .. MaxSends /\ size \in Nat /\ accepted' = Append(accepted, size)
    BY <1>1, <1>2, SizesAssumption DEF StartSend
  <2>2. Len(accepted') = m
    BY <1>1, <2>1 DEF Sizes
  <2>3. Numbers' = Append(Numbers, m)
    <3>1. Numbers' = [i \in 1 .. m |-> i] /\ Numbers = [i \in 1 .. Len(accepted) |-> i]
      BY <2>2 DEF Numbers
    <3>2. Numbers \in Seq(Nat) /\ Len(Numbers) = Len(accepted)
      BY <1>1, <3>1
    <3>3. Append(Numbers, m) = [i \in 1 .. m |-> i]
      BY <1>1, <3>1, <3>2
    <3> QED
      BY <3>1, <3>3
  <2>4. UNCHANGED <<received, Phase>>
    BY <1>2 DEF StartSend, recvVars, Phase
  <2> QED
    BY <2>1, <2>3, <2>4 DEF Stream!Next, Stream!Send
<1>3. CASE TakeMessage /\ receiverOpen
  <2> DEFINE m == Len(received) + 1
  <2>1. UNCHANGED <<accepted, receiverOpen, dropped>>
    BY <1>3 DEF TakeMessage, sendVars
  <2>2. m \in 1 .. Len(accepted) /\ received' = Append(received, m)
    BY <1>3, TakesNext
  <2>3. Len(Numbers) = Len(accepted) /\ Numbers[m] = m /\ Numbers' = Numbers
    BY <1>1, <2>1, <2>2 DEF Numbers
  <2>4. Phase = "open" /\ Phase' = "open"
    <3>1. ~dropped
      BY <1>3, IncompleteTakesNone DEF SessionInv, LateInv
    <3> QED
      BY <1>3, <2>1, <3>1 DEF Phase
  <2>5. Stream!Deliver
    BY <1>1, <2>2, <2>3, <2>4 DEF Stream!Deliver, Stream!ReturnNext
  <2> QED
    BY <2>5 DEF Stream!Next
<1>4. CASE TakeMessage /\ ~receiverOpen
  <2>1. UNCHANGED <<accepted, receiverOpen, dropped>> /\ pc = "check" /\ pc' = "idle"
    BY <1>4 DEF TakeMessage, sendVars
  <2>2. recvBuffer # <<>>
    BY <1>4, SizesAssumption DEF TakeMessage, HasHeader
  <2>3. Phase = "closing" /\ Phase' = "closed"
    BY <1>4, <2>1, <2>2 DEF Phase, SessionInv, LateInv
  <2>4. recvBuffer[1].msg = Len(received) + 1 /\ Len(received) < Len(accepted)
    BY <1>4, <2>1, <2>2 DEF SessionInv, LateInv, OfNext
  <2>5. \/ received' = Append(received, Len(received) + 1)
        \/ received' = Append(received, Corrupt)
    BY <1>4, <2>4 DEF TakeMessage
  <2>6. /\ Len(Numbers) = Len(accepted) /\ Numbers' = Numbers
        /\ Numbers[Len(received) + 1] = Len(received) + 1
    BY <1>1, <2>1, <2>4 DEF Numbers
  <2>7. Stream!Finish
    BY <2>3, <2>4, <2>5, <2>6 DEF Stream!Finish, Stream!ReturnNext
  <2> QED
    BY <2>7 DEF Stream!Next
<1>5. ASSUME UNCHANGED <<accepted, received>>,
             \/ Phase' = Phase
             \/ Phase = "open" /\ Phase' \in {"closing", "closed"}
             \/ Phase = "closing" /\ Phase' = "closed"
      PROVE  [Stream!Next]_(Stream!vars)
  <2>1. UNCHANGED <<Numbers, received>>
    BY <1>5 DEF Numbers
  <2> QED
    BY <1>5, <2>1 DEF Stream!Next, Stream!Close, Stream!Finish, Stream!vars
<1>6. ASSUME receiverOpen' => receiverOpen, dropped => dropped',
             ~receiverOpen /\ pc = "idle" => pc' = "idle"
      PROVE  \/ Phase' = Phase
             \/ Phase = "open" /\ Phase' \in {"closing", "closed"}
             \/ Phase = "closing" /\ Phase' = "closed"
  BY <1>6 DEF Phase
<1>7. \/ \E s \in Senders, size \in Payloads : StartSend(s, size)
      \/ TakeMessage
      \/ /\ UNCHANGED <<accepted, received>>
         /\ receiverOpen' => receiverOpen
         /\ dropped => dropped'
         /\ ~receiverOpen /\ pc = "idle" => pc' = "idle"
  BY DEF SessionNext, sessionVars, sendVars, recvVars, Write, SenderCloses, Receive, CloseReceiver, Return,
         RefuseHeader, NeedMore, Read, Insert, Timeout, ReadEnd, ReadError, CloseSession, OwnSendFails
<1> QED
  BY <1>2, <1>3, <1>4, <1>5, <1>6, <1>7

(***************************************************************************)
(* A session is a message stream (the safety part of IsMessageStream): as  *)
(* long as the receiving end is open, transport_receive returns the        *)
(* messages sent, whole, once and in order, for any sizes, any number of   *)
(* threads and any pieces the bytes arrive in; and a receive overtaken by  *)
(* the close returns at most one more, the next one or a mis-framed one.   *)
(***************************************************************************)
THEOREM SessionIsStream == SessionSpec => Stream!Safety
<1>1. SessionInit => Stream!Init
  <2> SUFFICES ASSUME SessionInit PROVE Stream!Init
    OBVIOUS
  <2>1. Numbers = <<>>
    BY DEF SessionInit, Numbers
  <2> QED
    BY <2>1 DEF SessionInit, Stream!Init, Phase
<1> QED
  BY <1>1, SessionStepIsStream, SessionInvariant, PTL DEF SessionSpec, Stream!Safety
=============================================================================
