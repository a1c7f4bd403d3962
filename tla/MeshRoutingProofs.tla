------------------------- MODULE MeshRoutingProofs --------------------------
(***************************************************************************)
(* Proofs about MeshRouting, for every network and every bound.            *)
(***************************************************************************)
EXTENDS MeshRouting, RoutingTableProofs

\* Neighbors and sessions follow the links.
Linked ==
    /\ \A n \in Nodes : connected[n] \subseteq session[n]
    /\ \A n \in Nodes : \A p \in session[n] : {n, p} \in Links
    /\ \A a, b \in Nodes : <<a, b>> \in dialing => {a, b} \in Links

\* One node's table agrees with its topology and its stored advertisements.
Agrees(t, conn, store) ==
    DirectOf(t) \subseteq conn /\ t = Rebuild(DirectOf(t), conn, store)

-----------------------------------------------------------------------------
(***************************************************************************)
(* Helpers                                                                 *)
(***************************************************************************)

\* The empty maps of Init and Restart.
LEMMA EmptyMaps ==
    IsTable(NoRoutes) /\ \A T : IsMap(Nothing, Nodes, T)
  BY DEF IsTable, IsMap, NoRoutes, Nothing

\* What nodes send is let through by the validation.
LEMMA SentAreVectors ==
    /\ SentVectors \subseteq Vectors
    /\ \A store : IsMap(store, Nodes, SentVectors) => IsMap(store, Nodes, Vectors)
<1>1. SentVectors \subseteq Vectors
  <2> SUFFICES ASSUME NEW v \in SentVectors PROVE v \in Vectors
    OBVIOUS
  <2>1. PICK D \in SUBSET Nodes : v \in [D -> 1 .. Infinity]
    BY DEF SentVectors
  <2>2. v \in [D -> 0 .. Infinity]
    BY <2>1, InfinityAssumption
  <2> QED
    BY <2>1, <2>2 DEF Vectors
<1> QED
  BY <1>1 DEF IsMap

\* A poisoned copy of a table is a vector.
LEMMA PoisonReverseType ==
    ASSUME NEW t, IsTable(t), NEW p
    PROVE  PoisonReverse(t, p) \in SentVectors
<1>1. PoisonReverse(t, p) \in [DOMAIN t -> 1 .. Infinity]
  BY InfinityAssumption DEF IsTable, IsMap, PoisonReverse, Routes
<1> QED
  BY <1>1 DEF IsTable, IsMap, SentVectors

\* Emptying one direction of a session, or reading from it, keeps the types.
LEMMA ChannelType ==
    ASSUME NEW c \in [Nodes -> [Nodes -> Seq(Messages)]], NEW n \in Nodes, NEW p \in Nodes
    PROVE  /\ [c EXCEPT ![n][p] = <<>>] \in [Nodes -> [Nodes -> Seq(Messages)]]
           /\ \A m \in Messages :
                [c EXCEPT ![n][p] = Append(@, m)] \in [Nodes -> [Nodes -> Seq(Messages)]]
           /\ c[n][p] # <<>> =>
                /\ Head(c[n][p]) \in Messages
                /\ [c EXCEPT ![n][p] = Tail(@)] \in [Nodes -> [Nodes -> Seq(Messages)]]
<1> DEFINE M == Messages
<1> HIDE DEF M
<1>1. c \in [Nodes -> [Nodes -> Seq(M)]] /\ <<>> \in Seq(M)
  BY DEF M
<1>2. c[n][p] \in Seq(M)
  BY <1>1
<1>3. c[n][p] # <<>> => Head(c[n][p]) \in M /\ Tail(c[n][p]) \in Seq(M)
  BY <1>2
<1>4. \A m \in M : Append(c[n][p], m) \in Seq(M)
  BY <1>2
<1>5. \A q \in Seq(M) : [c EXCEPT ![n][p] = q] \in [Nodes -> [Nodes -> Seq(M)]]
  BY <1>1
<1> QED
  BY <1>1, <1>3, <1>4, <1>5 DEF M

\* The direct routes of a rebuilt table are those it was asked to install: no
\* advertised route is as good, and none leads to its own sender.
LEMMA RebuiltDirect ==
    ASSUME NEW direct, NEW conn, NEW store, Inputs(direct, conn, store),
           IsMap(store, Nodes, SentVectors)
    PROVE  DirectOf(Rebuild(direct, conn, store)) = direct
<1> DEFINE T == Rebuild(direct, conn, store)
           R(d) == RouteCandidates(direct, conn, store, d)
<1>1. /\ DOMAIN T = {d \in Nodes : R(d) # {}}
      /\ \A d \in DOMAIN T : T[d] \in R(d) /\ \A q \in R(d) \ {T[d]} : Preferred(T[d], q)
  BY RebuildIs
<1> HIDE DEF T
<1>2. ASSUME NEW d \in DOMAIN T PROVE T[d].next_hop = d <=> d \in direct
  <2>1. d \in Nodes /\ T[d] \in R(d)
    BY <1>1
  <2>2. CASE d \in direct
    <3> DEFINE r == [next_hop |-> d, metric |-> 1]
    <3>1. r \in R(d)
      BY <2>2 DEF RouteCandidates, LinkCost
    <3>2. T[d] \in Routes
      BY <2>1, CandidatesType
    <3>3. T[d] # r => T[d].metric < 1 \/ (T[d].metric = 1 /\ T[d].next_hop < d)
      BY <1>1, <3>1 DEF Preferred
    <3>4. T[d].metric >= 1 /\ T[d].next_hop \in Nodes
      BY <3>2, InfinityAssumption DEF Routes
    <3>5. T[d] = r
      <4> SUFFICES ASSUME T[d] # r PROVE FALSE
        OBVIOUS
      <4>1. T[d].metric = 1
        BY <3>2, <3>3, <3>4, InfinityAssumption DEF Routes
      <4>2. /\ T[d] = Candidate(T[d].next_hop, store[T[d].next_hop], d)
            /\ T[d].next_hop \in conn \cap DOMAIN store
            /\ d \in Usable(T[d].next_hop, store[T[d].next_hop])
        BY <2>1, CandidatesAre
      <4>3. T[d].next_hop \in Nodes /\ store[T[d].next_hop] \in SentVectors
        BY <4>2 DEF IsMap
      <4>4. store[T[d].next_hop][d] >= 1
        BY <4>2, <4>3, InfinityAssumption DEF SentVectors, Usable
      <4>5. T[d].metric = store[T[d].next_hop][d] + 1
        BY <4>2, <4>3, CandidateType, SentAreVectors
      <4>6. T[d].metric # 1
        <5>1. store[T[d].next_hop][d] \in Nat
          BY <4>2, <4>3, InfinityAssumption DEF SentVectors, Usable
        <5> QED
          BY <4>4, <4>5, <5>1
      <4> QED
        BY <4>1, <4>6
    <3> QED
      BY <2>2, <3>5
  <2>3. CASE d \notin direct
    <3>1. d \in Usable(T[d].next_hop, store[T[d].next_hop])
      BY <2>1, <2>3, CandidatesAre
    <3> QED
      BY <2>3, <3>1 DEF Usable
  <2> QED
    BY <2>2, <2>3
<1>3. ASSUME NEW d \in direct PROVE d \in DOMAIN T
  <2>1. d \in Nodes
    BY DEF Inputs
  <2>2. [next_hop |-> d, metric |-> LinkCost] \in R(d)
    BY DEF RouteCandidates
  <2> QED
    BY <1>1, <2>1, <2>2
<1>4. DirectOf(T) = direct
  BY <1>2, <1>3 DEF DirectOf
<1> QED
  BY <1>4 DEF T

\* A rebuilt table agrees with what it was rebuilt from.
LEMMA RebuiltAgrees ==
    ASSUME NEW n, NEW conn \in SUBSET Nodes, NEW quiet, NEW store,
           IsMap(store, Nodes, SentVectors)
    PROVE  /\ Agrees(RebuiltAt(n, conn, quiet, store), conn, store)
           /\ IsTable(RebuiltAt(n, conn, quiet, store))
<1>1. Inputs(conn \ quiet, conn, store)
  BY SentAreVectors DEF Inputs
<1> QED
  BY <1>1, RebuiltDirect, RebuildType DEF Agrees, RebuiltAt

\* A node's handler that sets its topology and advertisements and rebuilds its
\* table leaves every node typed and in agreement.
LEMMA RebuildAfterIs ==
    ASSUME TypeOK, TableIsRebuild, NEW n \in Nodes,
           NEW conn \in SUBSET Nodes, NEW quiet \in SUBSET Nodes,
           NEW store, IsMap(store, Nodes, SentVectors),
           RebuildAfter(n, conn, quiet, store)
    PROVE  /\ connected' \in [Nodes -> SUBSET Nodes]
           /\ silent' \in [Nodes -> SUBSET Nodes]
           /\ DOMAIN table' = Nodes /\ DOMAIN stored' = Nodes
           /\ \A m \in Nodes : IsTable(table'[m]) /\ IsMap(stored'[m], Nodes, SentVectors)
           /\ TableIsRebuild'
<1> DEFINE t == RebuiltAt(n, conn, quiet, store)
<1>1. Agrees(t, conn, store) /\ IsTable(t)
  BY RebuiltAgrees
<1> HIDE DEF t
<1>2. /\ connected' = [connected EXCEPT ![n] = conn]
      /\ silent' = [silent EXCEPT ![n] = quiet]
      /\ stored' = [stored EXCEPT ![n] = store]
      /\ table' = [table EXCEPT ![n] = t]
  BY DEF RebuildAfter, t
<1>3. /\ connected' \in [Nodes -> SUBSET Nodes]
      /\ silent' \in [Nodes -> SUBSET Nodes]
      /\ DOMAIN table' = Nodes /\ DOMAIN stored' = Nodes
      /\ \A m \in Nodes : IsTable(table'[m]) /\ IsMap(stored'[m], Nodes, SentVectors)
  BY <1>1, <1>2 DEF TypeOK
<1>4. ASSUME NEW m \in Nodes PROVE Agrees(table'[m], connected'[m], stored'[m])
  BY <1>1, <1>2 DEF TypeOK, TableIsRebuild, Agrees
<1> QED
  BY <1>3, <1>4 DEF TableIsRebuild, Agrees

\* Hearing from p changes nothing but p's place in the topology, or rebuilds.
LEMMA TouchedAgrees ==
    ASSUME TypeOK, TableIsRebuild, NEW n \in Nodes, NEW p \in Nodes
    PROVE  /\ IsTable(Touched(n, p))
           /\ Agrees(Touched(n, p), connected[n] \cup {p}, stored[n])
<1>1. CASE p \in connected[n]
  <2>1. connected[n] \cup {p} = connected[n] /\ Touched(n, p) = table[n]
    BY <1>1 DEF TypeOK, Touched
  <2> QED
    BY <2>1 DEF TypeOK, TableIsRebuild, Agrees
<1>2. CASE p \notin connected[n]
  <2>1. connected[n] \cup {p} \in SUBSET Nodes /\ IsMap(stored[n], Nodes, SentVectors)
    BY DEF TypeOK
  <2>2. Touched(n, p) = RebuiltAt(n, connected[n] \cup {p}, silent[n] \ {p}, stored[n])
    BY <1>2 DEF Touched
  <2> QED
    BY <2>1, <2>2, RebuiltAgrees
<1> QED
  BY <1>1, <1>2

\* An accepted advertisement that changes nothing when applied leaves the table
\* a rebuild of the new advertisements: the daemon may skip rebuilding.
LEMMA AppliedAgrees ==
    ASSUME NEW conn \in SUBSET Nodes, NEW store, IsMap(store, Nodes, SentVectors),
           NEW t, Agrees(t, conn, store), NEW p \in conn, NEW v \in SentVectors,
           ApplyRoutes(t, p, v) = t
    PROVE  Agrees(t, conn, With(store, p, v))
<1>1. Inputs(DirectOf(t), conn, store)
  BY SentAreVectors DEF Agrees, Inputs
<1>2. t = Rebuild(DirectOf(t), conn, store)
  BY DEF Agrees
<1>3. Rebuild(DirectOf(t), conn, With(store, p, v)) = Rebuild(DirectOf(t), conn, store)
  <2> DEFINE D == DirectOf(t)
  <2>1. ApplyRoutes(Rebuild(D, conn, store), p, v) = Rebuild(D, conn, store)
    BY <1>2
  <2> HIDE DEF D
  <2>2. Inputs(D, conn, store)
    BY <1>1 DEF D
  <2>3. Rebuild(D, conn, With(store, p, v)) = Rebuild(D, conn, store)
    BY <2>1, <2>2, UnchangedNeedsNoRebuild, SentAreVectors
  <2> QED
    BY <2>3 DEF D
<1> QED
  BY <1>2, <1>3 DEF Agrees

-----------------------------------------------------------------------------
(***************************************************************************)
(* The inductive invariant: types, topology within the sessions, tables    *)
(* that are rebuilds, and honest advertisements.                           *)
(***************************************************************************)

Advertised ==
    \A n \in Nodes :
        /\ \A p \in DOMAIN stored[n] : HonestVector(p, stored[n][p])
        /\ \A p \in Nodes : \A i \in DOMAIN channel[n][p] :
                HonestVector(n, channel[n][p][i].vector)

IInv == TypeOK /\ TableIsRebuild /\ Linked /\ Advertised

\* The tables of a network that starts are empty, and so are their rebuilds.
LEMMA EmptyAgrees == Agrees(NoRoutes, {}, Nothing)
<1>1. DirectOf(NoRoutes) = {}
  BY DEF DirectOf, NoRoutes
<1>2. \A d \in Nodes : RouteCandidates({}, {}, Nothing, d) = {}
  BY DEF RouteCandidates
<1>3. Inputs({}, {}, Nothing)
  BY EmptyMaps DEF Inputs
<1>4. Rebuild({}, {}, Nothing) = NoRoutes
  <2>1. \A d \in Nodes :
          d \in DOMAIN NoRoutes <=> RouteCandidates({}, {}, Nothing, d) # {}
    BY <1>2 DEF NoRoutes
  <2>2. DOMAIN NoRoutes = {}
    BY DEF NoRoutes
  <2> QED
    BY <1>3, <2>1, <2>2, EmptyMaps, RebuildIsUnique
<1> QED
  BY <1>1, <1>4 DEF Agrees

\* The mesh starts within the inductive invariant.
LEMMA InitIInv == Init => IInv
<1> SUFFICES ASSUME Init PROVE IInv
  OBVIOUS
<1>1. TypeOK
  BY EmptyMaps DEF Init, TypeOK
<1>2. TableIsRebuild
  BY EmptyAgrees DEF Init, TableIsRebuild, Agrees
<1>3. Linked
  BY DEF Init, Linked
<1>4. Advertised
  BY DEF Init, Advertised, Nothing
<1> QED
  BY <1>1, <1>2, <1>3, <1>4 DEF IInv

-----------------------------------------------------------------------------
\* Every step keeps the types and keeps every table a rebuild.
LEMMA NextRebuild ==
    ASSUME TypeOK, TableIsRebuild, [Next]_vars
    PROVE  TypeOK' /\ TableIsRebuild'
<1>1. ASSUME NEW n \in Nodes, NEW p \in Nodes, Dial(n, p)
      PROVE  TypeOK' /\ TableIsRebuild'
  <2>1. RebuildAfter(p, connected[p] \cup {n}, silent[p] \ {n}, stored[p])
    BY <1>1 DEF Dial
  <2>2. /\ connected[p] \cup {n} \in SUBSET Nodes /\ silent[p] \ {n} \in SUBSET Nodes
        /\ IsMap(stored[p], Nodes, SentVectors)
    BY DEF TypeOK
  <2>3. channel' \in [Nodes -> [Nodes -> Seq(Messages)]]
    <3>1. [channel EXCEPT ![n][p] = <<>>] \in [Nodes -> [Nodes -> Seq(Messages)]]
      BY ChannelType DEF TypeOK
    <3>2. channel' = [[channel EXCEPT ![n][p] = <<>>] EXCEPT ![p][n] = <<>>]
      BY <1>1 DEF Dial
    <3> QED
      BY <3>1, <3>2, ChannelType
  <2>4. /\ session' \in [Nodes -> SUBSET Nodes] /\ dialing' \subseteq Nodes \X Nodes
        /\ UNCHANGED <<origin, generation, sequence, faults>>
    <3>1. /\ session' = [session EXCEPT ![p] = @ \cup {n}]
          /\ dialing' = dialing \cup {<<n, p>>}
          /\ UNCHANGED <<origin, generation, sequence, faults>>
      BY <1>1 DEF Dial
    <3> QED
      BY <3>1 DEF TypeOK
  <2> QED
    BY <2>1, <2>2, <2>3, <2>4, RebuildAfterIs DEF TypeOK
<1>2. ASSUME NEW n \in Nodes, NEW p \in Nodes, DialSucceeds(n, p)
      PROVE  TypeOK' /\ TableIsRebuild'
  <2>1. RebuildAfter(n, connected[n] \cup {p}, silent[n] \ {p}, stored[n])
    BY <1>2 DEF DialSucceeds
  <2>2. /\ connected[n] \cup {p} \in SUBSET Nodes /\ silent[n] \ {p} \in SUBSET Nodes
        /\ IsMap(stored[n], Nodes, SentVectors)
    BY DEF TypeOK
  <2> QED
    BY <1>2, <2>1, <2>2, RebuildAfterIs DEF DialSucceeds, TypeOK
<1>3. ASSUME NEW n \in Nodes, NEW p \in Nodes, DialFails(n, p)
      PROVE  TypeOK' /\ TableIsRebuild'
  <2>1. channel' \in [Nodes -> [Nodes -> Seq(Messages)]]
    BY <1>3, ChannelType DEF DialFails, TypeOK
  <2>2. TableIsRebuild'
    BY <1>3 DEF DialFails, nodeVars, TableIsRebuild
  <2>3. dialing' \subseteq Nodes \X Nodes /\ faults' \in Nat
    BY <1>3 DEF DialFails, Fault, TypeOK
  <2>4. UNCHANGED <<session, nodeVars, generation, sequence>>
    BY <1>3 DEF DialFails
  <2> QED
    BY <2>1, <2>2, <2>3, <2>4 DEF nodeVars, TypeOK
<1>4. ASSUME NEW n \in Nodes, NEW p \in Nodes, SessionLost(n, p)
      PROVE  TypeOK' /\ TableIsRebuild'
  <2>1. RebuildAfter(n, connected[n] \ {p}, silent[n] \ {p}, Without(stored[n], {p}))
    BY <1>4 DEF SessionLost
  <2>2. /\ connected[n] \ {p} \in SUBSET Nodes /\ silent[n] \ {p} \in SUBSET Nodes
        /\ IsMap(Without(stored[n], {p}), Nodes, SentVectors)
    BY MapType DEF TypeOK
  <2>3. faults' \in Nat
    BY <1>4 DEF SessionLost, Fault, TypeOK
  <2>4. channel' \in [Nodes -> [Nodes -> Seq(Messages)]]
    BY <1>4, ChannelType DEF SessionLost, TypeOK
  <2> QED
    BY <1>4, <2>1, <2>2, <2>3, <2>4, RebuildAfterIs DEF SessionLost, TypeOK
<1>5. ASSUME NEW n \in Nodes, Restart(n)
      PROVE  TypeOK' /\ TableIsRebuild'
  <2>1. channel' \in [Nodes -> [Nodes -> Seq(Messages)]]
    <3> DEFINE M == Messages
    <3>1. channel \in [Nodes -> [Nodes -> Seq(M)]] /\ <<>> \in Seq(M)
      BY DEF TypeOK
    <3> HIDE DEF M
    <3>2. channel' \in [Nodes -> [Nodes -> Seq(M)]]
      BY <1>5, <3>1 DEF Restart
    <3> QED
      BY <3>2 DEF M
  <2>3. /\ DOMAIN table' = Nodes /\ DOMAIN stored' = Nodes /\ DOMAIN origin' = Nodes
        /\ \A m \in Nodes :
            /\ IsTable(table'[m]) /\ IsMap(stored'[m], Nodes, SentVectors)
            /\ IsMap(origin'[m], Nodes, Stamps)
    BY <1>5, EmptyMaps DEF Restart, TypeOK
  <2>2. ASSUME NEW m \in Nodes PROVE Agrees(table'[m], connected'[m], stored'[m])
    BY <1>5, EmptyAgrees DEF Restart, TypeOK, TableIsRebuild, Agrees
  <2>4. TableIsRebuild'
    BY <2>2 DEF TableIsRebuild, Agrees
  <2>5. dialing' \subseteq Nodes \X Nodes /\ faults' \in Nat
    BY <1>5 DEF Restart, Fault, TypeOK
  <2> QED
    BY <1>5, <2>1, <2>3, <2>4, <2>5 DEF Restart, NextGeneration, TypeOK
<1>6. ASSUME NEW n \in Nodes, NEW p \in Nodes, AdvertiseTo(n, p)
      PROVE  TypeOK' /\ TableIsRebuild'
  <2> DEFINE msg == [stamp  |-> [generation |-> generation[n], sequence |-> sequence[n]],
                     vector |-> PoisonReverse(table[n], p)]
  <2>1. msg \in Messages
    BY PoisonReverseType DEF TypeOK, Messages, Stamps
  <2>2. channel' = [channel EXCEPT ![n][p] = Append(@, msg)]
    BY <1>6 DEF AdvertiseTo
  <2>3. channel' \in [Nodes -> [Nodes -> Seq(Messages)]]
    BY <2>1, <2>2, ChannelType DEF TypeOK
  <2>4. TableIsRebuild'
    BY <1>6 DEF AdvertiseTo, nodeVars, TableIsRebuild
  <2>5. sequence' \in [Nodes -> Nat]
    BY <1>6 DEF AdvertiseTo, TypeOK
  <2>6. UNCHANGED <<session, dialing, nodeVars, generation, faults>>
    BY <1>6 DEF AdvertiseTo
  <2> QED
    BY <2>3, <2>4, <2>5, <2>6 DEF nodeVars, TypeOK
<1>7. ASSUME NEW n \in Nodes, NEW p \in Nodes, HearFrom(n, p)
      PROVE  TypeOK' /\ TableIsRebuild'
  <2>1. /\ table' = [table EXCEPT ![n] = Touched(n, p)]
        /\ connected' = [connected EXCEPT ![n] = connected[n] \cup {p}]
        /\ stored' = stored
    BY <1>7 DEF HearFrom
  <2>2. IsTable(Touched(n, p)) /\ Agrees(Touched(n, p), connected[n] \cup {p}, stored[n])
    BY TouchedAgrees
  <2>3. ASSUME NEW m \in Nodes
        PROVE  IsTable(table'[m]) /\ Agrees(table'[m], connected'[m], stored'[m])
    BY <2>1, <2>2 DEF TypeOK, TableIsRebuild, Agrees
  <2>4. TableIsRebuild'
    BY <2>3 DEF TableIsRebuild, Agrees
  <2> QED
    BY <1>7, <2>3, <2>4 DEF HearFrom, TypeOK
<1>8. ASSUME NEW n \in Nodes, NEW p \in Nodes, ReceiveAdvertisement(n, p)
      PROVE  TypeOK' /\ TableIsRebuild'
  <2> DEFINE msg     == Head(channel[p][n])
             conn    == connected[n] \cup {p}
             quiet   == silent[n] \ {p}
             store   == With(stored[n], p, msg.vector)
             before  == Touched(n, p)
             applied == ApplyRoutes(before, p, msg.vector)
             t       == IF applied = before THEN before ELSE RebuiltAt(n, conn, quiet, store)
  <2>1. msg \in Messages /\ msg.vector \in SentVectors /\ msg.stamp \in Stamps
    <3>1. msg \in Messages
      BY <1>8, ChannelType DEF ReceiveAdvertisement, TypeOK
    <3> QED
      BY <3>1 DEF Messages
  <2>2. /\ conn \in SUBSET Nodes /\ quiet \in SUBSET Nodes
        /\ IsMap(stored[n], Nodes, SentVectors) /\ IsMap(store, Nodes, SentVectors)
        /\ IsMap(With(origin[n], p, msg.stamp), Nodes, Stamps)
    BY <2>1, MapType DEF TypeOK
  <2>3. IsTable(before) /\ Agrees(before, conn, stored[n])
    BY TouchedAgrees
  <2>4. IsTable(t) /\ Agrees(t, conn, store)
    <3>1. CASE applied = before
      BY <2>1, <2>2, <2>3, <3>1, AppliedAgrees
    <3>2. CASE applied # before
      BY <2>2, <3>2, RebuiltAgrees
    <3> QED
      BY <3>1, <3>2
  <2>5. /\ connected' = [connected EXCEPT ![n] = conn]
        /\ silent' = [silent EXCEPT ![n] = quiet]
        /\ channel' = [channel EXCEPT ![p][n] = Tail(@)]
        /\ channel[p][n] # <<>>
        /\ \/ /\ stored' = [stored EXCEPT ![n] = store]
              /\ table' = [table EXCEPT ![n] = t]
              /\ origin' = [origin EXCEPT ![n] = With(origin[n], p, msg.stamp)]
           \/ stored' = stored /\ origin' = origin /\ table' = [table EXCEPT ![n] = before]
    BY <1>8 DEF ReceiveAdvertisement
  <2> HIDE DEF conn, quiet, store, before, t, msg, applied
  <2>6. ASSUME NEW m \in Nodes
        PROVE  /\ IsTable(table'[m]) /\ Agrees(table'[m], connected'[m], stored'[m])
               /\ IsMap(stored'[m], Nodes, SentVectors) /\ IsMap(origin'[m], Nodes, Stamps)
    BY <2>2, <2>3, <2>4, <2>5 DEF TypeOK, TableIsRebuild, Agrees
  <2>7. TableIsRebuild'
    BY <2>6 DEF TableIsRebuild, Agrees
  <2>8. channel' \in [Nodes -> [Nodes -> Seq(Messages)]]
    BY <2>5, ChannelType DEF TypeOK
  <2>9. DOMAIN table' = Nodes /\ DOMAIN stored' = Nodes /\ DOMAIN origin' = Nodes
    BY <2>5 DEF TypeOK
  <2>10. connected' \in [Nodes -> SUBSET Nodes] /\ silent' \in [Nodes -> SUBSET Nodes]
    BY <2>2, <2>5 DEF TypeOK
  <2> QED
    BY <1>8, <2>6, <2>7, <2>8, <2>9, <2>10 DEF ReceiveAdvertisement, TypeOK
<1>9. ASSUME NEW n \in Nodes, NEW p \in Nodes, FallSilent(n, p)
      PROVE  TypeOK' /\ TableIsRebuild'
  <2>1. TableIsRebuild'
    BY <1>9 DEF FallSilent, TableIsRebuild
  <2> QED
    BY <1>9, <2>1 DEF FallSilent, Fault, TypeOK
<1>10. ASSUME NEW n \in Nodes, NEW expired \in SUBSET Nodes, RoutingPass(n, expired)
       PROVE  TypeOK' /\ TableIsRebuild'
  <2>1. RebuildAfter(n, connected[n] \ silent[n], {}, Without(stored[n], expired))
    BY <1>10 DEF RoutingPass
  <2>2. /\ connected[n] \ silent[n] \in SUBSET Nodes
        /\ IsMap(Without(stored[n], expired), Nodes, SentVectors)
    BY MapType DEF TypeOK
  <2>3. faults' \in Nat
    BY <1>10 DEF RoutingPass, Fault, TypeOK
  <2> QED
    BY <1>10, <2>1, <2>2, <2>3, RebuildAfterIs DEF RoutingPass, TypeOK
<1>11. CASE UNCHANGED vars
  BY <1>11 DEF vars, nodeVars, TypeOK, TableIsRebuild
<1> QED
  BY <1>1, <1>2, <1>3, <1>4, <1>5, <1>6, <1>7, <1>8, <1>9, <1>10, <1>11 DEF Next, NodeStep

\* Every step keeps the topology within the sessions and these on the links.
LEMMA NextLinked ==
    ASSUME TypeOK, Linked, [Next]_vars
    PROVE  Linked'
<1> USE DEF Linked, TypeOK
<1>1. ASSUME NEW n \in Nodes, NEW p \in Nodes, Dial(n, p) PROVE Linked'
  <2>1. {n, p} \in Links /\ {p, n} = {n, p}
    BY <1>1 DEF Dial
  <2>2. /\ session' = [session EXCEPT ![p] = @ \cup {n}]
        /\ connected' = [connected EXCEPT ![p] = connected[p] \cup {n}]
        /\ dialing' = dialing \cup {<<n, p>>}
    BY <1>1 DEF Dial, RebuildAfter
  <2> QED
    BY <2>1, <2>2
<1>2. ASSUME NEW n \in Nodes, NEW p \in Nodes, DialSucceeds(n, p) PROVE Linked'
  BY <1>2 DEF DialSucceeds, RebuildAfter
<1>3. ASSUME NEW n \in Nodes, NEW p \in Nodes, DialFails(n, p) PROVE Linked'
  BY <1>3 DEF DialFails, nodeVars
<1>4. ASSUME NEW n \in Nodes, NEW p \in Nodes, SessionLost(n, p) PROVE Linked'
  BY <1>4 DEF SessionLost, RebuildAfter
<1>5. ASSUME NEW n \in Nodes, Restart(n) PROVE Linked'
  BY <1>5 DEF Restart
<1>6. ASSUME NEW n \in Nodes, NEW p \in Nodes, AdvertiseTo(n, p) PROVE Linked'
  BY <1>6 DEF AdvertiseTo, nodeVars
<1>7. ASSUME NEW n \in Nodes, NEW p \in Nodes, HearFrom(n, p) PROVE Linked'
  BY <1>7 DEF HearFrom
<1>8. ASSUME NEW n \in Nodes, NEW p \in Nodes, ReceiveAdvertisement(n, p) PROVE Linked'
  BY <1>8 DEF ReceiveAdvertisement
<1>9. ASSUME NEW n \in Nodes, NEW p \in Nodes, FallSilent(n, p) PROVE Linked'
  BY <1>9 DEF FallSilent
<1>10. ASSUME NEW n \in Nodes, NEW expired \in SUBSET Nodes, RoutingPass(n, expired)
       PROVE  Linked'
  BY <1>10 DEF RoutingPass, RebuildAfter
<1>11. CASE UNCHANGED vars
  BY <1>11 DEF vars, nodeVars
<1> QED
  BY <1>1, <1>2, <1>3, <1>4, <1>5, <1>6, <1>7, <1>8, <1>9, <1>10, <1>11 DEF Next, NodeStep

-----------------------------------------------------------------------------
\* What a table claims follows from what its neighbors advertised.
LEMMA TableIsHonest ==
    ASSUME IInv, NEW n \in Nodes, NEW d \in DOMAIN table[n]
    PROVE  /\ Distance[n][d] <= table[n][d].metric
           /\ table[n][d].next_hop \in session[n]
<1> DEFINE t      == table[n]
           direct == DirectOf(table[n])
           conn   == connected[n]
           store  == stored[n]
<1>1. Inputs(direct, conn, store)
  BY SentAreVectors DEF IInv, TypeOK, TableIsRebuild, Inputs
<1>2. t = Rebuild(direct, conn, store)
  BY DEF IInv, TableIsRebuild
<1>3. d \in Nodes /\ t[d] \in RouteCandidates(direct, conn, store, d)
  <2> HIDE DEF t, direct, conn, store
  <2>1. d \in DOMAIN Rebuild(direct, conn, store)
    BY <1>2 DEF t
  <2> DEFINE T == Rebuild(direct, conn, store)
             R(x) == RouteCandidates(direct, conn, store, x)
  <2>3. /\ DOMAIN T = {x \in Nodes : R(x) # {}}
        /\ \A x \in DOMAIN T :
             T[x] \in R(x) /\ \A q \in R(x) \ {T[x]} : Preferred(T[x], q)
    BY <1>1, RebuildIs
  <2>2. d \in Nodes /\ T[d] \in R(d)
    <3> HIDE DEF T, R
    <3>1. d \in DOMAIN T
      BY <2>1 DEF T
    <3> QED
      BY <2>3, <3>1
  <2> QED
    BY <1>2, <2>2
<1>4. t[d].next_hop \in conn /\ t[d].next_hop \in session[n]
  BY <1>1, <1>3, CandidatesType DEF IInv, Linked
<1>5. {n, t[d].next_hop} \in Links /\ t[d].next_hop \in Nodes
  BY <1>4 DEF IInv, Linked, TypeOK
<1>6. CASE d \in direct /\ t[d] = [next_hop |-> d, metric |-> 1]
  <2>1. t[d].next_hop = d /\ t[d].metric = 1
    BY <1>6
  <2>2. {n, d} \in Links
    BY <1>5, <2>1
  <2>3. Distance[n][d] <= 1
    BY <1>3, <2>2, DistanceAssumption
  <2> QED
    BY <1>4, <2>1, <2>3
<1>7. CASE /\ t[d].next_hop \in conn \cap DOMAIN store
           /\ d \in Usable(t[d].next_hop, store[t[d].next_hop])
           /\ t[d] = Candidate(t[d].next_hop, store[t[d].next_hop], d)
  <2> DEFINE h == t[d].next_hop
             v == store[h]
  <2>1. h \in Nodes /\ v \in SentVectors /\ d \in Usable(h, v) /\ t[d] = Candidate(h, v, d)
    BY <1>7, <1>5 DEF IInv, TypeOK, IsMap
  <2>2. HonestVector(h, v)
    BY <1>7 DEF IInv, Advertised
  <2> HIDE DEF h, v
  <2>3. t[d].metric = v[d] + 1 /\ t[d].metric \in 1 .. (Infinity - 1) /\ d \in DOMAIN v
    BY <2>1, CandidateType, SentAreVectors DEF Usable
  <2>4. v[d] \in Nat /\ v[d] # Infinity
    BY <2>1, <2>3, VectorType, SentAreVectors, InfinityAssumption
  <2>5. Distance[h][d] <= v[d]
    BY <2>2, <2>3, <2>4 DEF HonestVector
  <2>6. Distance[n][d] <= 1 + Distance[h][d]
    BY <1>3, <1>5, DistanceAssumption DEF h
  <2>7. Distance[n][d] \in Nat /\ Distance[h][d] \in Nat
    BY <1>3, <2>1, DistanceAssumption
  <2>8. Distance[n][d] <= t[d].metric
    BY <2>3, <2>4, <2>5, <2>6, <2>7
  <2> QED
    BY <1>4, <2>8
<1> QED
  BY <1>1, <1>3, <1>4, <1>6, <1>7, CandidatesAre

\* Emptying, reading and adding to a direction keeps an honest channel honest.
LEMMA ChannelHonest ==
    ASSUME NEW c \in Seq(Messages), NEW n, \A i \in DOMAIN c : HonestVector(n, c[i].vector)
    PROVE  /\ \A m \in Messages : HonestVector(n, m.vector) =>
                \A i \in DOMAIN Append(c, m) : HonestVector(n, Append(c, m)[i].vector)
           /\ c # <<>> =>
                /\ HonestVector(n, Head(c).vector)
                /\ \A i \in DOMAIN Tail(c) : HonestVector(n, Tail(c)[i].vector)
<1> DEFINE M == Messages
           H(m) == HonestVector(n, m.vector)
<1>1. c \in Seq(M) /\ \A i \in DOMAIN c : H(c[i])
  OBVIOUS
<1> HIDE DEF M, H
<1>2. \A m \in M : H(m) => \A i \in DOMAIN Append(c, m) : H(Append(c, m)[i])
  BY <1>1
<1>3. c # <<>> => H(Head(c)) /\ \A i \in DOMAIN Tail(c) : H(Tail(c)[i])
  BY <1>1
<1> QED
  BY <1>2, <1>3 DEF M, H

\* Steps that empty channels and drop stored advertisements keep both honest.
LEMMA NothingAdvertised ==
    ASSUME TypeOK, Advertised,
           \A n \in Nodes : \A p \in DOMAIN stored'[n] :
                p \in DOMAIN stored[n] /\ stored'[n][p] = stored[n][p],
           \A n \in Nodes : \A p \in Nodes :
                channel'[n][p] = channel[n][p] \/ channel'[n][p] = <<>>
    PROVE  Advertised'
<1> SUFFICES ASSUME NEW n \in Nodes
             PROVE  /\ \A p \in DOMAIN stored'[n] : HonestVector(p, stored'[n][p])
                    /\ \A p \in Nodes : \A i \in DOMAIN channel'[n][p] :
                            HonestVector(n, channel'[n][p][i].vector)
  BY DEF Advertised, HonestVector
<1>1. \A p \in DOMAIN stored'[n] : HonestVector(p, stored'[n][p])
  BY DEF Advertised
<1>2. ASSUME NEW p \in Nodes, NEW i \in DOMAIN channel'[n][p]
      PROVE  HonestVector(n, channel'[n][p][i].vector)
  <2>1. channel'[n][p] # <<>>
    BY <1>2
  <2> QED
    BY <2>1 DEF Advertised
<1> QED
  BY <1>1, <1>2

\* Every step keeps honest what is stored and what is in flight.
LEMMA NextAdvertised ==
    ASSUME IInv, [Next]_vars
    PROVE  Advertised'
<1> USE DEF IInv, TypeOK
<1>1. ASSUME NEW n \in Nodes, NEW p \in Nodes, Dial(n, p) PROVE Advertised'
  <2>1. stored' = [stored EXCEPT ![p] = stored[p]]
        /\ channel' = [channel EXCEPT ![n][p] = <<>>, ![p][n] = <<>>]
    BY <1>1 DEF Dial, RebuildAfter
  <2>2. \A m \in Nodes : \A q \in Nodes :
            channel'[m][q] = channel[m][q] \/ channel'[m][q] = <<>>
    BY <2>1
  <2> QED
    BY <2>1, <2>2, NothingAdvertised
<1>2. ASSUME NEW n \in Nodes, NEW p \in Nodes, DialSucceeds(n, p) PROVE Advertised'
  BY <1>2, NothingAdvertised DEF DialSucceeds, RebuildAfter
<1>3. ASSUME NEW n \in Nodes, NEW p \in Nodes, DialFails(n, p) PROVE Advertised'
  BY <1>3, NothingAdvertised DEF DialFails, nodeVars
<1>4. ASSUME NEW n \in Nodes, NEW p \in Nodes, SessionLost(n, p) PROVE Advertised'
  <2>1. stored' = [stored EXCEPT ![n] = Without(stored[n], {p})]
        /\ channel' = [channel EXCEPT ![p][n] = <<>>]
    BY <1>4 DEF SessionLost, RebuildAfter
  <2> QED
    BY <2>1, NothingAdvertised DEF Without
<1>5. ASSUME NEW n \in Nodes, Restart(n) PROVE Advertised'
  BY <1>5, NothingAdvertised DEF Restart, Nothing
<1>6. ASSUME NEW n \in Nodes, NEW p \in Nodes, AdvertiseTo(n, p) PROVE Advertised'
  <2> DEFINE msg == [stamp  |-> [generation |-> generation[n], sequence |-> sequence[n]],
                     vector |-> PoisonReverse(table[n], p)]
  <2>1. msg \in Messages
    BY PoisonReverseType DEF Messages, Stamps
  <2>2. HonestVector(n, msg.vector)
    BY TableIsHonest DEF HonestVector, PoisonReverse
  <2>3. channel' = [channel EXCEPT ![n][p] = Append(@, msg)] /\ stored' = stored
    BY <1>6 DEF AdvertiseTo, nodeVars
  <2> HIDE DEF msg
  <2>4. \A i \in DOMAIN Append(channel[n][p], msg) :
            HonestVector(n, Append(channel[n][p], msg)[i].vector)
    BY <2>1, <2>2, ChannelHonest DEF Advertised
  <2>5. ASSUME NEW m \in Nodes, NEW q \in Nodes, NEW i \in DOMAIN channel'[m][q]
        PROVE  HonestVector(m, channel'[m][q][i].vector)
    <3>1. CASE m = n /\ q = p
      <4>1. channel'[m][q] = Append(channel[n][p], msg)
        BY <2>3, <3>1
      <4> QED
        BY <2>4, <2>5, <3>1, <4>1
    <3>2. CASE ~(m = n /\ q = p)
      <4>1. channel'[m][q] = channel[m][q]
        BY <2>3, <3>2
      <4> QED
        BY <2>5, <4>1 DEF Advertised
    <3> QED
      BY <3>1, <3>2
  <2>6. \A m \in Nodes : \A q \in DOMAIN stored'[m] : HonestVector(q, stored'[m][q])
    BY <2>3 DEF Advertised
  <2> QED
    BY <2>5, <2>6 DEF Advertised, HonestVector
<1>7. ASSUME NEW n \in Nodes, NEW p \in Nodes, HearFrom(n, p) PROVE Advertised'
  BY <1>7, NothingAdvertised DEF HearFrom
<1>8. ASSUME NEW n \in Nodes, NEW p \in Nodes, ReceiveAdvertisement(n, p) PROVE Advertised'
  <2> DEFINE msg == Head(channel[p][n])
  <2>1. /\ HonestVector(p, msg.vector)
        /\ \A i \in DOMAIN Tail(channel[p][n]) :
                HonestVector(p, Tail(channel[p][n])[i].vector)
    BY <1>8, ChannelHonest DEF ReceiveAdvertisement, Advertised
  <2>2. /\ channel' = [channel EXCEPT ![p][n] = Tail(@)]
        /\ stored' = stored \/ stored' = [stored EXCEPT ![n] = With(stored[n], p, msg.vector)]
    BY <1>8 DEF ReceiveAdvertisement
  <2> HIDE DEF msg
  <2>3. ASSUME NEW m \in Nodes, NEW q \in DOMAIN stored'[m]
        PROVE  HonestVector(q, stored'[m][q])
    <3>1. CASE m = n /\ q = p /\ stored' # stored
      <4>1. stored'[m][q] = msg.vector
        BY <2>2, <3>1 DEF With
      <4> QED
        BY <2>1, <3>1, <4>1
    <3>2. CASE ~(m = n /\ q = p /\ stored' # stored)
      <4>1. q \in DOMAIN stored[m] /\ stored'[m][q] = stored[m][q]
        BY <2>2, <2>3, <3>2 DEF With
      <4> QED
        BY <4>1 DEF Advertised
    <3> QED
      BY <3>1, <3>2
  <2>4. ASSUME NEW m \in Nodes, NEW q \in Nodes, NEW i \in DOMAIN channel'[m][q]
        PROVE  HonestVector(m, channel'[m][q][i].vector)
    <3>1. CASE m = p /\ q = n
      <4>1. channel'[m][q] = Tail(channel[p][n])
        BY <2>2, <3>1
      <4> QED
        BY <2>1, <2>4, <3>1, <4>1
    <3>2. CASE ~(m = p /\ q = n)
      <4>1. channel'[m][q] = channel[m][q]
        BY <2>2, <3>2
      <4> QED
        BY <2>4, <4>1 DEF Advertised
    <3> QED
      BY <3>1, <3>2
  <2> QED
    BY <2>3, <2>4 DEF Advertised, HonestVector
<1>9. ASSUME NEW n \in Nodes, NEW p \in Nodes, FallSilent(n, p) PROVE Advertised'
  BY <1>9, NothingAdvertised DEF FallSilent
<1>10. ASSUME NEW n \in Nodes, NEW expired \in SUBSET Nodes, RoutingPass(n, expired)
       PROVE  Advertised'
  <2>1. stored' = [stored EXCEPT ![n] = Without(stored[n], expired)] /\ channel' = channel
    BY <1>10 DEF RoutingPass, RebuildAfter
  <2> QED
    BY <2>1, NothingAdvertised DEF Without
<1>11. CASE UNCHANGED vars
  BY <1>11, NothingAdvertised DEF vars, nodeVars
<1> QED
  BY <1>1, <1>2, <1>3, <1>4, <1>5, <1>6, <1>7, <1>8, <1>9, <1>10, <1>11 DEF Next, NodeStep

-----------------------------------------------------------------------------
(***************************************************************************)
(* Freshness                                                               *)
(***************************************************************************)

\* The stamp of p's next advertisement.
NextStamp(p) == [generation |-> generation[p], sequence |-> sequence[p]]

\* Channel c from p, read by a node that accepted o: everything in it is newer
\* than what was accepted, in order, and older than what p stamps next.
InOrder(c, next, o, p) ==
    /\ \A i \in DOMAIN c : Fresher(next, c[i].stamp)
    /\ \A i, j \in DOMAIN c : i < j => Fresher(c[j].stamp, c[i].stamp)
    /\ p \in DOMAIN o => Fresher(next, o[p]) /\ \A i \in DOMAIN c : Fresher(c[i].stamp, o[p])

FreshInv ==
    \A n, p \in Nodes : InOrder(channel[p][n], NextStamp(p), origin[n], p)

LEMMA FresherIsTransitive ==
    ASSUME NEW r \in Stamps, NEW s \in Stamps, NEW t \in Stamps,
           Fresher(r, s), Fresher(s, t)
    PROVE  Fresher(r, t)
BY DEF Stamps, Fresher

\* Losing what is in flight or what was accepted, and stamping later, keep the order.
LEMMA OrderOfLess ==
    ASSUME NEW c \in Seq(Messages), NEW next \in Stamps, NEW o, IsMap(o, Nodes, Stamps),
           NEW p \in Nodes, InOrder(c, next, o, p),
           NEW later \in Stamps, later = next \/ Fresher(later, next),
           NEW d, d = c \/ d = <<>>, NEW q, q = o \/ q = Nothing
    PROVE  InOrder(d, later, q, p)
<1>1. \A i \in DOMAIN c : c[i].stamp \in Stamps
  <2>1. \A i \in DOMAIN c : c[i] \in Messages
    OBVIOUS
  <2> QED
    BY <2>1 DEF Messages
<1>2. p \in DOMAIN o => o[p] \in Stamps
  BY DEF IsMap
<1>3. InOrder(c, later, o, p)
  BY <1>1, <1>2, FresherIsTransitive DEF InOrder
<1>4. DOMAIN <<>> = {} /\ DOMAIN Nothing = {}
  BY DEF Nothing
<1> QED
  BY <1>3, <1>4 DEF InOrder

\* What p sends with its next stamp is in order.
LEMMA OrderOfSent ==
    ASSUME NEW c \in Seq(Messages), NEW next \in Stamps, NEW o, IsMap(o, Nodes, Stamps),
           NEW p \in Nodes, InOrder(c, next, o, p),
           NEW m \in Messages, m.stamp = next,
           NEW later \in Stamps, Fresher(later, next)
    PROVE  InOrder(Append(c, m), later, o, p)
<1> DEFINE M == Messages
           d == Append(c, m)
<1>1. c \in Seq(M) /\ m \in M /\ \A x \in M : x.stamp \in Stamps
  BY DEF Messages
<1> HIDE DEF M
<1>2. /\ DOMAIN d = 1 .. Len(c) + 1 /\ DOMAIN c = 1 .. Len(c) /\ Len(c) \in Nat
      /\ \A i \in 1 .. Len(c) : d[i] = c[i] /\ c[i].stamp \in Stamps
      /\ d[Len(c) + 1] = m
  BY <1>1
<1>3. InOrder(c, later, o, p)
  BY OrderOfLess
<1> HIDE DEF d
<1>4. \A i \in DOMAIN d : (i \in DOMAIN c /\ d[i] = c[i]) \/ (i = Len(c) + 1 /\ d[i] = m)
  <2>1. \A i \in 1 .. Len(c) + 1 : i \in 1 .. Len(c) \/ i = Len(c) + 1
    BY <1>2
  <2>2. \A i \in 1 .. Len(c) : i \in DOMAIN c /\ d[i] = c[i]
    BY <1>2
  <2> QED
    BY <1>2, <2>1, <2>2
<1>5. \A i \in DOMAIN c : i < Len(c) + 1 /\ Fresher(m.stamp, d[i].stamp)
  BY <1>2 DEF InOrder
<1>6. \A i \in DOMAIN d : Fresher(later, d[i].stamp)
  BY <1>3, <1>4 DEF InOrder
<1>7. ASSUME NEW i \in DOMAIN d, NEW j \in DOMAIN d, i < j PROVE Fresher(d[j].stamp, d[i].stamp)
  <2>1. i \in DOMAIN c
    BY <1>2, <1>4, <1>7
  <2>2. CASE j \in DOMAIN c /\ d[j] = c[j]
    BY <1>2, <1>7, <2>1, <2>2 DEF InOrder
  <2>3. CASE j = Len(c) + 1 /\ d[j] = m
    BY <1>5, <2>1, <2>3
  <2> QED
    BY <1>4, <2>2, <2>3
<1>8. p \in DOMAIN o => Fresher(later, o[p]) /\ \A i \in DOMAIN d : Fresher(d[i].stamp, o[p])
  BY <1>3, <1>4 DEF InOrder
<1>9. InOrder(d, later, o, p)
  BY <1>6, <1>7, <1>8 DEF InOrder
<1> QED
  BY <1>9 DEF d

\* Reading the first message, and accepting it or not, keeps the order.
LEMMA OrderOfRead ==
    ASSUME NEW c \in Seq(Messages), NEW next, NEW o, NEW p, InOrder(c, next, o, p), c # <<>>
    PROVE  /\ InOrder(Tail(c), next, o, p)
           /\ InOrder(Tail(c), next, With(o, p, Head(c).stamp), p)
<1> DEFINE d == Tail(c)
<1>1. /\ Len(c) \in Nat \ {0} /\ DOMAIN c = 1 .. Len(c) /\ DOMAIN d = 1 .. Len(c) - 1
      /\ \A i \in 1 .. Len(c) - 1 : d[i] = c[i + 1]
      /\ Head(c) = c[1]
  <2> DEFINE M == Messages
  <2>1. c \in Seq(M)
    OBVIOUS
  <2> HIDE DEF M
  <2> QED
    BY <2>1
<1> HIDE DEF d
<1>2. \A i \in DOMAIN d : i + 1 \in DOMAIN c /\ d[i] = c[i + 1] /\ 1 < i + 1 /\ 1 \in DOMAIN c
  BY <1>1
<1>3. InOrder(d, next, o, p)
  <2>1. \A i \in DOMAIN d : Fresher(next, d[i].stamp)
    BY <1>2 DEF InOrder
  <2>2. ASSUME NEW i \in DOMAIN d, NEW j \in DOMAIN d, i < j PROVE Fresher(d[j].stamp, d[i].stamp)
    <3>1. i + 1 < j + 1
      BY <1>1, <2>2
    <3> QED
      BY <1>2, <3>1 DEF InOrder
  <2>3. p \in DOMAIN o => Fresher(next, o[p]) /\ \A i \in DOMAIN d : Fresher(d[i].stamp, o[p])
    BY <1>2 DEF InOrder
  <2> QED
    BY <2>1, <2>2, <2>3 DEF InOrder
<1>4. \A i \in DOMAIN d : Fresher(d[i].stamp, c[1].stamp)
  BY <1>2 DEF InOrder
<1>5. Fresher(next, c[1].stamp)
  BY <1>1 DEF InOrder
<1>6. With(o, p, Head(c).stamp)[p] = c[1].stamp
  BY <1>1 DEF With
<1>7. InOrder(d, next, With(o, p, Head(c).stamp), p)
  BY <1>3, <1>4, <1>5, <1>6 DEF InOrder
<1> QED
  BY <1>3, <1>7 DEF d

\* Steps that send and read nothing keep every channel in order.
LEMMA OrderKept ==
    ASSUME TypeOK, FreshInv, TypeOK',
           \A n, p \in Nodes : channel'[p][n] = channel[p][n] \/ channel'[p][n] = <<>>,
           \A n \in Nodes : origin'[n] = origin[n] \/ origin'[n] = Nothing,
           \A p \in Nodes : \/ generation'[p] = generation[p] /\ sequence'[p] = sequence[p]
                            \/ generation'[p] > generation[p]
    PROVE  FreshInv'
<1> SUFFICES ASSUME NEW n \in Nodes, NEW p \in Nodes
             PROVE  InOrder(channel'[p][n], NextStamp(p)', origin'[n], p)
  BY DEF FreshInv, InOrder
<1>1. /\ channel[p][n] \in Seq(Messages) /\ NextStamp(p) \in Stamps
      /\ IsMap(origin[n], Nodes, Stamps) /\ NextStamp(p)' \in Stamps
  BY DEF TypeOK, NextStamp, Stamps
<1>2. InOrder(channel[p][n], NextStamp(p), origin[n], p)
  BY DEF FreshInv
<1>3. NextStamp(p)' = NextStamp(p) \/ Fresher(NextStamp(p)', NextStamp(p))
  BY DEF NextStamp, Fresher
<1> QED
  BY <1>1, <1>2, <1>3, OrderOfLess

LEMMA InitFresh == Init => FreshInv
BY DEF Init, FreshInv, InOrder, Nothing

LEMMA NextFresh ==
    ASSUME TypeOK, FreshInv, TypeOK', [Next]_vars
    PROVE  FreshInv'
<1>1. ASSUME NEW n \in Nodes, NEW p \in Nodes, Dial(n, p) PROVE FreshInv'
  <2>1. /\ channel' = [channel EXCEPT ![n][p] = <<>>, ![p][n] = <<>>]
        /\ UNCHANGED <<origin, generation, sequence>>
    BY <1>1 DEF Dial
  <2>2. \A m, q \in Nodes : channel'[q][m] = channel[q][m] \/ channel'[q][m] = <<>>
    BY <2>1 DEF TypeOK
  <2> QED
    BY <2>1, <2>2, OrderKept
<1>2. ASSUME NEW n \in Nodes, NEW p \in Nodes, DialSucceeds(n, p) PROVE FreshInv'
  BY <1>2, OrderKept DEF DialSucceeds
<1>3. ASSUME NEW n \in Nodes, NEW p \in Nodes, DialFails(n, p) PROVE FreshInv'
  <2>1. /\ channel' = [channel EXCEPT ![p][n] = <<>>]
        /\ UNCHANGED <<origin, generation, sequence>>
    BY <1>3 DEF DialFails, nodeVars
  <2>2. \A m, q \in Nodes : channel'[q][m] = channel[q][m] \/ channel'[q][m] = <<>>
    BY <2>1 DEF TypeOK
  <2> QED
    BY <2>1, <2>2, OrderKept
<1>4. ASSUME NEW n \in Nodes, NEW p \in Nodes, SessionLost(n, p) PROVE FreshInv'
  <2>1. /\ channel' = [channel EXCEPT ![p][n] = <<>>]
        /\ UNCHANGED <<origin, generation, sequence>>
    BY <1>4 DEF SessionLost
  <2>2. \A m, q \in Nodes : channel'[q][m] = channel[q][m] \/ channel'[q][m] = <<>>
    BY <2>1 DEF TypeOK
  <2> QED
    BY <2>1, <2>2, OrderKept
<1>5. ASSUME NEW n \in Nodes, Restart(n) PROVE FreshInv'
  <2>1. /\ generation' = [generation EXCEPT ![n] = @ + 1]
        /\ sequence' = [sequence EXCEPT ![n] = 1]
        /\ channel' = [p \in Nodes |-> [channel[p] EXCEPT ![n] = <<>>]]
        /\ origin' = [origin EXCEPT ![n] = Nothing]
    BY <1>5 DEF Restart, NextGeneration
  <2>2. \A m, q \in Nodes : channel'[q][m] = channel[q][m] \/ channel'[q][m] = <<>>
    BY <2>1 DEF TypeOK
  <2>3. \A m \in Nodes : origin'[m] = origin[m] \/ origin'[m] = Nothing
    BY <2>1 DEF TypeOK
  <2>4. \A q \in Nodes : \/ generation'[q] = generation[q] /\ sequence'[q] = sequence[q]
                         \/ generation'[q] > generation[q]
    BY <2>1 DEF TypeOK
  <2> QED
    BY <2>2, <2>3, <2>4, OrderKept
<1>6. ASSUME NEW n \in Nodes, NEW p \in Nodes, AdvertiseTo(n, p) PROVE FreshInv'
  <2> DEFINE msg == [stamp  |-> NextStamp(n), vector |-> PoisonReverse(table[n], p)]
  <2>1. /\ channel' = [channel EXCEPT ![n][p] = Append(@, msg)]
        /\ sequence' = [sequence EXCEPT ![n] = @ + 1]
        /\ UNCHANGED <<origin, generation>>
    BY <1>6 DEF AdvertiseTo, nodeVars, NextStamp
  <2>2. msg \in Messages
    BY PoisonReverseType DEF TypeOK, Messages, Stamps, NextStamp
  <2>3. msg.stamp = NextStamp(n)
    OBVIOUS
  <2> HIDE DEF msg
  <2>4. ASSUME NEW q \in Nodes
        PROVE  /\ NextStamp(q) \in Stamps /\ NextStamp(q)' \in Stamps
               /\ NextStamp(q)' = NextStamp(q) \/ Fresher(NextStamp(q)', NextStamp(q))
               /\ q = n => Fresher(NextStamp(q)', NextStamp(q))
    <3>1. generation[q] \in Nat /\ sequence[q] \in Nat /\ generation'[q] = generation[q]
      BY <2>1 DEF TypeOK
    <3>2. sequence'[q] = IF q = n THEN sequence[q] + 1 ELSE sequence[q]
      BY <2>1 DEF TypeOK
    <3> QED
      BY <3>1, <3>2 DEF NextStamp, Fresher, Stamps
  <2> SUFFICES ASSUME NEW m \in Nodes, NEW q \in Nodes
               PROVE  InOrder(channel'[q][m], NextStamp(q)', origin[m], q)
    BY <2>1 DEF FreshInv, InOrder
  <2>5. /\ channel[q][m] \in Seq(Messages) /\ IsMap(origin[m], Nodes, Stamps)
        /\ InOrder(channel[q][m], NextStamp(q), origin[m], q)
    BY DEF TypeOK, FreshInv
  <2>6. CASE q = n /\ m = p
    <3>1. channel'[q][m] = Append(channel[q][m], msg)
      BY <2>1, <2>6 DEF TypeOK
    <3> QED
      BY <2>2, <2>3, <2>4, <2>5, <2>6, <3>1, OrderOfSent
  <2>7. CASE ~(q = n /\ m = p)
    <3>1. channel'[q][m] = channel[q][m]
      BY <2>1, <2>7 DEF TypeOK
    <3> QED
      BY <2>4, <2>5, <3>1, OrderOfLess
  <2> QED
    BY <2>6, <2>7
<1>7. ASSUME NEW n \in Nodes, NEW p \in Nodes, HearFrom(n, p) PROVE FreshInv'
  BY <1>7, OrderKept DEF HearFrom
<1>8. ASSUME NEW n \in Nodes, NEW p \in Nodes, ReceiveAdvertisement(n, p) PROVE FreshInv'
  <2> DEFINE s == Head(channel[p][n]).stamp
  <2>1. /\ channel[p][n] # <<>>
        /\ channel' = [channel EXCEPT ![p][n] = Tail(@)]
        /\ origin' = origin \/ origin' = [origin EXCEPT ![n] = With(@, p, s)]
        /\ UNCHANGED <<generation, sequence>>
    BY <1>8 DEF ReceiveAdvertisement
  <2> HIDE DEF s
  <2> SUFFICES ASSUME NEW m \in Nodes, NEW q \in Nodes
               PROVE  InOrder(channel'[q][m], NextStamp(q), origin'[m], q)
    BY <2>1 DEF FreshInv, InOrder, NextStamp
  <2>2. channel[q][m] \in Seq(Messages) /\ InOrder(channel[q][m], NextStamp(q), origin[m], q)
    BY DEF TypeOK, FreshInv
  <2>3. CASE m = n /\ q = p
    <3>1. channel'[q][m] = Tail(channel[q][m])
      BY <2>1, <2>3 DEF TypeOK
    <3>2. origin'[m] = origin[m] \/ origin'[m] = With(origin[m], q, Head(channel[q][m]).stamp)
      BY <2>1, <2>3 DEF TypeOK, s
    <3> QED
      BY <2>1, <2>2, <2>3, <3>1, <3>2, OrderOfRead
  <2>4. CASE ~(m = n /\ q = p)
    <3>1. channel'[q][m] = channel[q][m]
      BY <2>1, <2>4 DEF TypeOK
    <3>2. /\ q \in DOMAIN origin'[m] <=> q \in DOMAIN origin[m]
          /\ q \in DOMAIN origin[m] => origin'[m][q] = origin[m][q]
      <4>1. CASE origin'[m] = origin[m]
        BY <4>1
      <4>2. CASE m = n /\ origin'[m] = With(origin[m], p, s)
        BY <2>4, <4>2 DEF With
      <4>3. origin'[m] = origin[m] \/ (m = n /\ origin'[m] = With(origin[m], p, s))
        <5>1. DOMAIN origin = Nodes
          BY DEF TypeOK
        <5> DEFINE w == With(origin[n], p, s)
        <5>2. origin' = origin \/ origin' = [origin EXCEPT ![n] = w]
          BY <2>1
        <5> HIDE DEF w
        <5>3. origin'[m] = origin[m] \/ (m = n /\ origin'[m] = w)
          BY <5>1, <5>2
        <5> QED
          BY <5>3 DEF w
      <4> QED
        BY <4>1, <4>2, <4>3
    <3> QED
      BY <2>2, <3>1, <3>2 DEF InOrder
  <2> QED
    BY <2>3, <2>4
<1>9. ASSUME NEW n \in Nodes, NEW p \in Nodes, FallSilent(n, p) PROVE FreshInv'
  BY <1>9, OrderKept DEF FallSilent
<1>10. ASSUME NEW n \in Nodes, NEW expired \in SUBSET Nodes, RoutingPass(n, expired)
       PROVE  FreshInv'
  BY <1>10, OrderKept DEF RoutingPass
<1>11. CASE UNCHANGED vars
  BY <1>11, OrderKept DEF vars, nodeVars
<1> QED
  BY <1>1, <1>2, <1>3, <1>4, <1>5, <1>6, <1>7, <1>8, <1>9, <1>10, <1>11 DEF Next, NodeStep

-----------------------------------------------------------------------------
\* The inductive invariant holds of every behaviour of every network.
THEOREM MeshInvariant == Spec => []IInv
<1>1. Init => IInv
  BY InitIInv
<1>2. IInv /\ [Next]_vars => IInv'
  <2> SUFFICES ASSUME IInv, [Next]_vars PROVE IInv'
    OBVIOUS
  <2>1. TypeOK' /\ TableIsRebuild'
    BY NextRebuild DEF IInv
  <2>2. Linked'
    BY NextLinked DEF IInv
  <2>3. Advertised'
    BY NextAdvertised
  <2> QED
    BY <2>1, <2>2, <2>3 DEF IInv
<1> QED
  BY <1>1, <1>2, PTL DEF Spec

\* The variables keep their types.
THEOREM MeshTypes == Spec => []TypeOK
<1>1. IInv => TypeOK
  BY DEF IInv
<1> QED
  BY <1>1, MeshInvariant, PTL

\* At every node the table is a rebuild of its current topology and stored
\* advertisements: the rebuild that run_session skips when an advertisement
\* "changed nothing" would indeed have changed nothing.
THEOREM TablesAreRebuilds == Spec => []TableIsRebuild
<1>1. IInv => TableIsRebuild
  BY DEF IInv
<1> QED
  BY <1>1, MeshInvariant, PTL

\* No route leads through a neighbor without a session.
THEOREM RoutesHaveSessions == Spec => []NoRouteWithoutSession
<1>1. IInv => NoRouteWithoutSession
  BY TableIsHonest DEF NoRouteWithoutSession
<1> QED
  BY <1>1, MeshInvariant, PTL

\* No table, stored advertisement or message claims a path shorter than the
\* network has, whatever failures count metrics up in between.
THEOREM MetricsAreHonest == Spec => []MetricsNotOptimistic
<1>1. IInv => MetricsNotOptimistic
  BY TableIsHonest DEF IInv, Advertised, MetricsNotOptimistic
<1> QED
  BY <1>1, MeshInvariant, PTL

\* Whatever is in flight passes the freshness check in the order sent, through
\* restarts, lost sessions and new ones.
THEOREM InFlightPasses == Spec => []InFlightIsFresh
<1>1. IInv /\ [Next]_vars /\ IInv' /\ FreshInv => FreshInv'
  BY NextFresh DEF IInv
<1>2. FreshInv => InFlightIsFresh
  BY DEF FreshInv, InOrder, InFlightIsFresh, Accepts
<1> QED
  BY <1>1, <1>2, InitFresh, MeshInvariant, PTL DEF Spec
=============================================================================
