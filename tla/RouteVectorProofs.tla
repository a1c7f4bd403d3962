------------------------- MODULE RouteVectorProofs --------------------------
(***************************************************************************)
(* The properties of RouteVector for any nodes, advertisements and sizes   *)
(* of the tables.  The loops of apply_routes and rebuild_routing_table are *)
(* recursive functions: LoopRuns shows that they are defined, LoopKeeps    *)
(* that they keep an invariant.                                            *)
(***************************************************************************)
EXTENDS RouteVector, RoutingTableProofs, FiniteSetTheorems

-----------------------------------------------------------------------------
IsLoop(T, n, base, step) == n \in Nat /\ base \in T /\ step \in [T \X (1 .. n) -> T]

Runs(T, n, base, step) ==
    \E run \in [0 .. n -> T] :
        run = [i \in 0 .. n |-> IF i = 0 THEN base ELSE step[<<run[i - 1], i>>]]

\* A loop of n turns over tables of any kind runs.
LEMMA LoopRuns ==
    ASSUME NEW T, NEW n, NEW base, NEW step, IsLoop(T, n, base, step)
    PROVE  Runs(T, n, base, step)
<1> USE DEF IsLoop
<1> DEFINE Run(g, k) == g[0] = base /\ \A i \in 1 .. k : g[i] = step[<<g[i - 1], i>>]
           Bad == {k \in 0 .. n : ~ \E g \in [0 .. k -> T] : Run(g, k)}
<1>1. Bad = {}
  <2> SUFFICES ASSUME Bad # {} PROVE FALSE
    OBVIOUS
  <2>1. PICK m \in Bad : \A k \in Bad : m <= k
    <3>1. Bad \subseteq Nat
      OBVIOUS
    <3> HIDE DEF Bad
    <3> QED
      BY <3>1, NatHasMin
  <2>2. CASE m = 0
    <3> DEFINE g == [i \in 0 .. 0 |-> base]
    <3>1. g \in [0 .. 0 -> T] /\ Run(g, 0)
      OBVIOUS
    <3> QED
      BY <2>1, <2>2, <3>1
  <2>3. CASE m # 0
    <3>1. m - 1 \in 0 .. n /\ m \in 1 .. n /\ m - 1 \notin Bad
      BY <2>1, <2>3
    <3>2. PICK g \in [0 .. m - 1 -> T] : Run(g, m - 1)
      BY <3>1
    <3> DEFINE h == [i \in 0 .. m |-> IF i = m THEN step[<<g[m - 1], m>>] ELSE g[i]]
    <3>3. h \in [0 .. m -> T]
      BY <3>1, <3>2
    <3>4. /\ \A i \in 0 .. m - 1 : h[i] = g[i]
          /\ h[m] = step[<<g[m - 1], m>>]
      BY <3>1
    <3> HIDE DEF h
    <3>5. h[0] = base /\ h[m] = step[<<h[m - 1], m>>]
      BY <3>1, <3>2, <3>4
    <3>6. ASSUME NEW i \in 1 .. m - 1 PROVE h[i] = step[<<h[i - 1], i>>]
      <4>1. i \in 0 .. m - 1 /\ i - 1 \in 0 .. m - 1
        BY <3>1
      <4> QED
        BY <3>2, <3>4, <4>1
    <3>7. Run(h, m)
      <4>1. \A i \in 1 .. m : i \in 1 .. m - 1 \/ i = m
        BY <3>1
      <4> QED
        BY <3>5, <3>6, <4>1
    <3> QED
      BY <2>1, <3>3, <3>7
  <2> QED
    BY <2>2, <2>3
<1>2. PICK g \in [0 .. n -> T] : Run(g, n)
  BY <1>1
<1>3. g = [i \in 0 .. n |-> IF i = 0 THEN base ELSE step[<<g[i - 1], i>>]]
  BY <1>2
<1> QED
  BY <1>3 DEF Runs

\* What holds before the first turn and is kept by every turn holds to the end.
LEMMA LoopKeeps ==
    ASSUME NEW n \in Nat, NEW Inv, 0 \in Inv, \A i \in 1 .. n : i - 1 \in Inv => i \in Inv
    PROVE  \A i \in 0 .. n : i \in Inv
<1> DEFINE Bad == {k \in 0 .. n : k \notin Inv}
<1> SUFFICES ASSUME Bad # {} PROVE FALSE
  OBVIOUS
<1>1. PICK m \in Bad : \A k \in Bad : m <= k
  <2>1. Bad \subseteq Nat
    OBVIOUS
  <2> HIDE DEF Bad
  <2> QED
    BY <2>1, NatHasMin
<1>2. m \in 1 .. n /\ m - 1 \in 0 .. n
  BY <1>1
<1>3. m - 1 \in Inv
  BY <1>1, <1>2
<1> QED
  BY <1>1, <1>2, <1>3

-----------------------------------------------------------------------------
Entries == [destination : Nodes, next_hop : Nodes, metric : 1 .. Infinity]

AdvertisedRoutes == [destination : Nodes, metric : 0 .. Infinity]

Distinct(t) == \A i, j \in DOMAIN t : t[i].destination = t[j].destination => i = j

\* A routing table as the code keeps it.
Proper(t) == t \in Seq(Entries) /\ Len(t) <= MaxRoutes /\ Distinct(t)

Advertisement(a) == a \in Seq(AdvertisedRoutes) /\ Distinct(a)

Dests(t) == {t[i].destination : i \in DOMAIN t}

RouteOf(e) == [next_hop |-> e.next_hop, metric |-> e.metric]

\* find_if finds the only entry for a destination.
LEMMA IndexIs ==
    ASSUME NEW t, Distinct(t), DOMAIN t \subseteq Nat \ {0}
    PROVE  /\ \A i \in DOMAIN t : IndexOf(t, t[i].destination) = i
           /\ \A d : d \notin Dests(t) => IndexOf(t, d) = 0
           /\ \A d \in Dests(t) : IndexOf(t, d) \in DOMAIN t /\ t[IndexOf(t, d)].destination = d
           /\ \A d : IndexOf(t, d) # 0 => d \in Dests(t)
<1>1. ASSUME NEW i \in DOMAIN t PROVE IndexOf(t, t[i].destination) = i
  <2>1. {j \in DOMAIN t : t[j].destination = t[i].destination} = {i}
    BY DEF Distinct
  <2>2. i <= i
    OBVIOUS
  <2> QED
    BY <2>1, <2>2 DEF IndexOf
<1>2. ASSUME NEW d, d \notin Dests(t) PROVE IndexOf(t, d) = 0
  <2>1. {j \in DOMAIN t : t[j].destination = d} = {}
    BY <1>2 DEF Dests
  <2> QED
    BY <2>1 DEF IndexOf
<1>3. ASSUME NEW d \in Dests(t)
      PROVE  IndexOf(t, d) \in DOMAIN t /\ t[IndexOf(t, d)].destination = d
  BY <1>1 DEF Dests
<1> QED
  BY <1>1, <1>2, <1>3

\* The map of a table.
LEMMA AsMapIs ==
    ASSUME NEW t, Proper(t)
    PROVE  /\ IsTable(AsMap(t))
           /\ DOMAIN AsMap(t) = Dests(t)
           /\ \A i \in DOMAIN t : AsMap(t)[t[i].destination] = RouteOf(t[i])
           /\ Dests(t) \subseteq Nodes
<1>1. DOMAIN t = 1 .. Len(t) /\ Len(t) \in Nat /\ \A i \in DOMAIN t : t[i] \in Entries
  BY DEF Proper
<1>2. DOMAIN t \subseteq Nat \ {0} /\ Distinct(t)
  BY <1>1 DEF Proper
<1>3. DOMAIN AsMap(t) = Dests(t)
  BY DEF AsMap, Dests
<1>4. ASSUME NEW i \in DOMAIN t PROVE AsMap(t)[t[i].destination] = RouteOf(t[i])
  <2>1. t[i].destination \in Dests(t)
    BY DEF Dests
  <2> QED
    BY <1>2, <2>1, IndexIs DEF AsMap, Dests, RouteOf
<1>5. \A i \in DOMAIN t : RouteOf(t[i]) \in Routes /\ t[i].destination \in Nodes
  BY <1>1 DEF Entries, RouteOf, Routes
<1>6. ASSUME NEW d \in Dests(t) PROVE d \in Nodes /\ AsMap(t)[d] \in Routes
  BY <1>4, <1>5 DEF Dests
<1>7. AsMap(t) = [d \in Dests(t) |-> AsMap(t)[d]]
  BY <1>3 DEF AsMap
<1> QED
  BY <1>3, <1>4, <1>6, <1>7 DEF IsTable, IsMap

\* push_back of an entry for a new destination.
LEMMA AppendIs ==
    ASSUME NEW t, Proper(t), NEW e \in Entries, e.destination \notin Dests(t),
           Len(t) < MaxRoutes
    PROVE  /\ Proper(Append(t, e))
           /\ AsMap(Append(t, e)) = With(AsMap(t), e.destination, RouteOf(e))
           /\ Len(Append(t, e)) = Len(t) + 1
<1> DEFINE u == Append(t, e)
<1>1. t \in Seq(Entries) /\ u \in Seq(Entries) /\ Len(u) = Len(t) + 1
  BY DEF Proper
<1>2. /\ \A i \in 1 .. Len(t) : u[i] = t[i]
      /\ u[Len(t) + 1] = e
      /\ DOMAIN u = 1 .. Len(t) + 1 /\ DOMAIN t = 1 .. Len(t) /\ Len(t) \in Nat
  BY <1>1
<1>3. \A i \in DOMAIN t : t[i].destination # e.destination
  BY DEF Dests
<1> HIDE DEF u
<1>4. Distinct(u)
  BY <1>2, <1>3 DEF Distinct, Proper
<1>5. Proper(u)
  BY <1>1, <1>4, PeersAssumption DEF Proper
<1>6. Dests(u) = Dests(t) \cup {e.destination}
  BY <1>2 DEF Dests
<1>7. /\ DOMAIN AsMap(u) = Dests(u)
      /\ \A i \in DOMAIN u : AsMap(u)[u[i].destination] = RouteOf(u[i])
      /\ DOMAIN AsMap(t) = Dests(t)
      /\ \A i \in DOMAIN t : AsMap(t)[t[i].destination] = RouteOf(t[i])
  BY <1>5, AsMapIs
<1>8. AsMap(u)[e.destination] = RouteOf(e)
  BY <1>2, <1>7
<1>9. \A d \in Dests(t) : AsMap(u)[d] = AsMap(t)[d] /\ d # e.destination
  BY <1>2, <1>3, <1>7 DEF Dests
<1>10. AsMap(u) = [d \in Dests(u) |-> AsMap(u)[d]]
  BY <1>7 DEF AsMap
<1>11. AsMap(u) = With(AsMap(t), e.destination, RouteOf(e))
  BY <1>6, <1>7, <1>8, <1>9, <1>10 DEF With
<1> QED
  BY <1>1, <1>5, <1>11 DEF u

\* An entry is replaced by one for the same destination.
LEMMA ReplaceIs ==
    ASSUME NEW t, Proper(t), NEW i \in DOMAIN t, NEW e \in Entries,
           e.destination = t[i].destination
    PROVE  /\ Proper([t EXCEPT ![i] = e])
           /\ AsMap([t EXCEPT ![i] = e]) = With(AsMap(t), e.destination, RouteOf(e))
           /\ Len([t EXCEPT ![i] = e]) = Len(t)
<1> DEFINE u == [t EXCEPT ![i] = e]
<1>1. t \in Seq(Entries) /\ u \in Seq(Entries) /\ Len(u) = Len(t)
  BY DEF Proper
<1>2. /\ \A j \in DOMAIN t : u[j] = IF j = i THEN e ELSE t[j]
      /\ DOMAIN u = DOMAIN t
  OBVIOUS
<1> HIDE DEF u
<1>3. \A j \in DOMAIN t : u[j].destination = t[j].destination
  BY <1>2
<1>4. Proper(u) /\ Dests(u) = Dests(t) /\ e.destination \in Dests(t)
  BY <1>1, <1>2, <1>3 DEF Distinct, Proper, Dests
<1>5. /\ DOMAIN AsMap(u) = Dests(u)
      /\ \A j \in DOMAIN u : AsMap(u)[u[j].destination] = RouteOf(u[j])
      /\ DOMAIN AsMap(t) = Dests(t)
      /\ \A j \in DOMAIN t : AsMap(t)[t[j].destination] = RouteOf(t[j])
  BY <1>4, AsMapIs
<1>6. AsMap(u)[e.destination] = RouteOf(e)
  BY <1>2, <1>5
<1>7. \A d \in Dests(t) : d # e.destination => AsMap(u)[d] = AsMap(t)[d]
  BY <1>2, <1>5 DEF Dests
<1>8. AsMap(u) = [d \in Dests(u) |-> AsMap(u)[d]]
  BY <1>5 DEF AsMap
<1>9. AsMap(u) = With(AsMap(t), e.destination, RouteOf(e))
  BY <1>4, <1>5, <1>6, <1>7, <1>8 DEF With
<1> QED
  BY <1>1, <1>4, <1>9 DEF u

\* The map of an advertisement.
LEMMA VectorIs ==
    ASSUME NEW a, Advertisement(a)
    PROVE  /\ VectorOf(a) \in Vectors
           /\ DOMAIN VectorOf(a) = Dests(a)
           /\ \A i \in DOMAIN a : VectorOf(a)[a[i].destination] = a[i].metric
<1>1. DOMAIN a = 1 .. Len(a) /\ Len(a) \in Nat /\ \A i \in DOMAIN a : a[i] \in AdvertisedRoutes
  BY DEF Advertisement
<1>2. DOMAIN a \subseteq Nat \ {0} /\ Distinct(a)
  BY <1>1 DEF Advertisement
<1>3. DOMAIN VectorOf(a) = Dests(a)
  BY DEF VectorOf, Dests
<1>4. ASSUME NEW i \in DOMAIN a PROVE VectorOf(a)[a[i].destination] = a[i].metric
  <2>1. a[i].destination \in Dests(a)
    BY DEF Dests
  <2> QED
    BY <1>2, <2>1, IndexIs DEF VectorOf, Dests
<1>5. \A i \in DOMAIN a : a[i].destination \in Nodes /\ a[i].metric \in 0 .. Infinity
  BY <1>1 DEF AdvertisedRoutes
<1>6. \A d \in Dests(a) : d \in Nodes /\ VectorOf(a)[d] \in 0 .. Infinity
  BY <1>4, <1>5 DEF Dests
<1>7. VectorOf(a) = [d \in Dests(a) |-> VectorOf(a)[d]]
  BY <1>3 DEF VectorOf
<1>8. VectorOf(a) \in [Dests(a) -> 0 .. Infinity] /\ Dests(a) \in SUBSET Nodes
  BY <1>6, <1>7
<1> QED
  BY <1>3, <1>4, <1>8 DEF Vectors

-----------------------------------------------------------------------------
\* The loop of erase_if.
LEMMA KeptRuns ==
    ASSUME NEW t \in Seq(Entries), NEW n, NEW a
    PROVE  LET K == Kept(t, n, a)
           IN  /\ K[0] = <<>>
               /\ \A i \in 1 .. Len(t) :
                    K[i] = IF Stays(t[i], n, a) THEN Append(K[i - 1], t[i]) ELSE K[i - 1]
<1> DEFINE l == Len(t)
           S == Seq(Entries)
           step == [x \in S \X (1 .. l) |->
                        IF Stays(t[x[2]], n, a) THEN Append(x[1], t[x[2]]) ELSE x[1]]
           K == Kept(t, n, a)
<1>1. step \in [S \X (1 .. l) -> S] /\ l \in Nat /\ <<>> \in S
  OBVIOUS
<1>2. PICK run \in [0 .. l -> S] :
         run = [i \in 0 .. l |-> IF i = 0 THEN <<>> ELSE step[<<run[i - 1], i>>]]
  <2>1. IsLoop(S, l, <<>>, step)
    BY <1>1 DEF IsLoop
  <2> HIDE DEF step, S, l
  <2>2. Runs(S, l, <<>>, step)
    BY <2>1, LoopRuns
  <2> QED
    BY <2>2 DEF Runs
<1>3. ASSUME NEW i \in 1 .. l PROVE i - 1 \in 0 .. l /\ run[i - 1] \in S
  <2>1. i - 1 \in 0 .. l
    BY <1>1
  <2> HIDE DEF S, l
  <2> QED
    BY <1>2, <2>1
<1>4. \A i \in 1 .. l : step[<<run[i - 1], i>>]
          = IF Stays(t[i], n, a) THEN Append(run[i - 1], t[i]) ELSE run[i - 1]
  BY <1>3
<1>5. run = [i \in 0 .. l |-> IF i = 0 THEN <<>>
                              ELSE IF Stays(t[i], n, a) THEN Append(run[i - 1], t[i])
                                   ELSE run[i - 1]]
  <2>1. \A i \in 0 .. l : i # 0 => i \in 1 .. l
    BY <1>1
  <2> HIDE DEF step, S, l
  <2> QED
    BY <1>2, <1>4, <2>1
<1>6. K = [i \in 0 .. l |-> IF i = 0 THEN <<>>
                            ELSE IF Stays(t[i], n, a) THEN Append(K[i - 1], t[i])
                                 ELSE K[i - 1]]
  BY <1>5 DEF Kept
<1> HIDE DEF K
<1>7. K[0] = <<>> /\ \A i \in 1 .. l :
         K[i] = IF Stays(t[i], n, a) THEN Append(K[i - 1], t[i]) ELSE K[i - 1]
  <2>1. 0 \in 0 .. l /\ \A i \in 1 .. l : i \in 0 .. l /\ i # 0
    BY <1>1
  <2> HIDE DEF l
  <2> QED
    BY <1>6, <2>1
<1> QED
  BY <1>7 DEF K

\* What erase_if leaves.
LEMMA EraseKeeps ==
    ASSUME NEW t, Proper(t), NEW n, NEW a
    PROVE  LET r == EraseWithdrawn(t, n, a)
           IN  /\ Proper(r) /\ Len(r) <= Len(t)
               /\ \A e : (\E i \in DOMAIN r : r[i] = e)
                            <=> (\E k \in DOMAIN t : t[k] = e /\ Stays(e, n, a))
<1> DEFINE l == Len(t)
           K == Kept(t, n, a)
           Ok(i) == /\ K[i] \in Seq(Entries) /\ Len(K[i]) <= i /\ Distinct(K[i])
                    /\ \A e : (\E j \in DOMAIN K[i] : K[i][j] = e)
                                 <=> (\E k \in 1 .. i : t[k] = e /\ Stays(e, n, a))
           Inv == {i \in 0 .. l : Ok(i)}
<1>1. /\ t \in Seq(Entries) /\ l \in Nat /\ DOMAIN t = 1 .. l /\ l <= MaxRoutes
      /\ \A i \in 1 .. l : t[i] \in Entries
      /\ Distinct(t)
  BY DEF Proper
<1>2. /\ K[0] = <<>>
      /\ \A i \in 1 .. l : K[i] = IF Stays(t[i], n, a) THEN Append(K[i - 1], t[i]) ELSE K[i - 1]
  BY <1>1, KeptRuns
<1> HIDE DEF K
<1>3. 0 \in Inv
  <2>1. K[0] \in Seq(Entries) /\ Len(K[0]) = 0 /\ DOMAIN K[0] = {}
    BY <1>2
  <2>2. Distinct(K[0])
    BY <2>1 DEF Distinct
  <2>3. \A e : (\E j \in DOMAIN K[0] : K[0][j] = e) <=> (\E k \in 1 .. 0 : t[k] = e /\ Stays(e, n, a))
    BY <2>1
  <2> QED
    BY <1>1, <2>1, <2>2, <2>3
<1>4. ASSUME NEW i \in 1 .. l, i - 1 \in Inv PROVE i \in Inv
  <2> DEFINE p == K[i - 1]
  <2>1. /\ i - 1 \in 0 .. l /\ i \in 0 .. l /\ Ok(i - 1)
        /\ \A k : k \in 1 .. i <=> k \in 1 .. i - 1 \/ k = i
    BY <1>1, <1>4
  <2>2. CASE ~Stays(t[i], n, a)
    <3>1. K[i] = K[i - 1]
      BY <1>2, <2>2
    <3>2. Len(K[i - 1]) <= i
      BY <2>1
    <3> QED
      BY <2>1, <2>2, <3>1, <3>2
  <2>3. CASE Stays(t[i], n, a)
    <3>1. K[i] = Append(p, t[i])
      BY <1>2, <2>3
    <3>2. /\ p \in Seq(Entries) /\ Len(p) <= i - 1 /\ Distinct(p)
          /\ \A e : (\E j \in DOMAIN p : p[j] = e)
                       <=> (\E k \in 1 .. i - 1 : t[k] = e /\ Stays(e, n, a))
      BY <2>1
    <3> HIDE DEF p
    <3>3. /\ K[i] \in Seq(Entries) /\ Len(K[i]) = Len(p) + 1 /\ DOMAIN K[i] = 1 .. Len(p) + 1
          /\ DOMAIN p = 1 .. Len(p) /\ Len(p) \in Nat
          /\ \A j \in 1 .. Len(p) : K[i][j] = p[j]
          /\ K[i][Len(p) + 1] = t[i]
      BY <1>1, <3>1, <3>2
    <3>4. \A j \in DOMAIN p : p[j].destination # t[i].destination
      <4>1. \A k \in 1 .. i - 1 : t[k].destination # t[i].destination
        BY <1>1 DEF Distinct
      <4> QED
        BY <3>2, <4>1
    <3>5. Distinct(K[i])
      BY <3>2, <3>3, <3>4 DEF Distinct
    <3>6. \A e : (\E j \in DOMAIN K[i] : K[i][j] = e)
                    <=> (\E j \in DOMAIN p : p[j] = e) \/ t[i] = e
      BY <3>3
    <3>7. \A e : (\E k \in 1 .. i : t[k] = e /\ Stays(e, n, a))
                    <=> (\E k \in 1 .. i - 1 : t[k] = e /\ Stays(e, n, a)) \/ t[i] = e
      BY <2>1, <2>3
    <3>8. \A e : (\E j \in DOMAIN K[i] : K[i][j] = e)
                    <=> (\E k \in 1 .. i : t[k] = e /\ Stays(e, n, a))
      BY <3>2, <3>6, <3>7
    <3>9. Len(K[i]) <= i
      BY <2>1, <3>2, <3>3
    <3>10. Ok(i)
      BY <3>3, <3>5, <3>8, <3>9
    <3> QED
      BY <2>1, <3>10
  <2> QED
    BY <2>2, <2>3
<1>5. Ok(l)
  <2>1. l \in Nat /\ l \in 0 .. l
    BY <1>1
  <2> HIDE DEF Inv, l
  <2>2. \A i \in 0 .. l : i \in Inv
    BY <1>3, <1>4, <2>1, LoopKeeps
  <2>3. l \in Inv
    BY <2>1, <2>2
  <2> QED
    BY <2>3 DEF Inv
<1>6. EraseWithdrawn(t, n, a) = K[l]
  BY DEF EraseWithdrawn, K
<1>7. Proper(K[l]) /\ Len(K[l]) <= l
  BY <1>1, <1>5, PeersAssumption DEF Proper
<1>8. \A e : (\E i \in DOMAIN K[l] : K[l][i] = e)
                <=> (\E k \in DOMAIN t : t[k] = e /\ Stays(e, n, a))
  BY <1>1, <1>5
<1> QED
  BY <1>6, <1>7, <1>8

\* In maps, erase_if takes out the withdrawn routes.
LEMMA EraseIs ==
    ASSUME NEW t, Proper(t), NEW n \in Nodes, NEW a, Advertisement(a)
    PROVE  LET r == EraseWithdrawn(t, n, a)
               f == AsMap(t)
           IN  Proper(r) /\ AsMap(r) = Without(f, Withdrawn(f, n, VectorOf(a)))
<1> DEFINE r == EraseWithdrawn(t, n, a)
           f == AsMap(t)
           W == Withdrawn(f, n, VectorOf(a))
<1>1. /\ Proper(r)
      /\ \A e : (\E i \in DOMAIN r : r[i] = e) <=> (\E k \in DOMAIN t : t[k] = e /\ Stays(e, n, a))
  BY EraseKeeps
<1>2. DOMAIN f = Dests(t) /\ \A i \in DOMAIN t : f[t[i].destination] = RouteOf(t[i])
  BY AsMapIs
<1> HIDE DEF r, f, W
<1>8. /\ DOMAIN AsMap(r) = Dests(r)
      /\ \A i \in DOMAIN r : AsMap(r)[r[i].destination] = RouteOf(r[i])
  BY <1>1, AsMapIs
<1>7. AsMap(r) = [d \in Dests(r) |-> AsMap(r)[d]]
  BY <1>8 DEF AsMap
<1>3. ASSUME NEW k \in DOMAIN t PROVE Stays(t[k], n, a) <=> t[k].destination \notin W
  <2>1. f[t[k].destination].next_hop = t[k].next_hop /\ t[k].destination \in DOMAIN f
    <3>1. f[t[k].destination] = RouteOf(t[k]) /\ t[k].destination \in Dests(t)
      BY <1>2 DEF Dests
    <3> QED
      BY <1>2, <3>1 DEF RouteOf
  <2>2. (\E i \in DOMAIN a : a[i].destination = t[k].destination)
           <=> t[k].destination \in DOMAIN VectorOf(a)
    <3>1. DOMAIN VectorOf(a) = Dests(a)
      BY VectorIs
    <3> QED
      BY <3>1 DEF Dests
  <2> QED
    BY <2>1, <2>2 DEF Stays, Withdrawn, W
<1>4. Dests(r) = Dests(t) \ W
  <2>1. ASSUME NEW d \in Dests(r) PROVE d \in Dests(t) \ W
    BY <1>1, <1>3 DEF Dests
  <2>2. ASSUME NEW d \in Dests(t) \ W PROVE d \in Dests(r)
    BY <1>1, <1>3 DEF Dests
  <2> QED
    BY <2>1, <2>2
<1>5. ASSUME NEW d \in Dests(r) PROVE AsMap(r)[d] = f[d]
  <2>1. PICK i \in DOMAIN r : r[i].destination = d
    BY DEF Dests
  <2>2. PICK k \in DOMAIN t : t[k] = r[i]
    BY <1>1
  <2> QED
    BY <1>2, <1>8, <2>1, <2>2
<1>6. AsMap(r) = Without(f, W)
  BY <1>2, <1>4, <1>5, <1>7 DEF Without
<1> QED
  BY <1>1, <1>6 DEF r, f, W

-----------------------------------------------------------------------------
\* What ApplyRoutes makes of the entry for d.
Turned(f, n, v, d) ==
    IF d \in Usable(n, v) /\ Replaces(f, n, v, d) THEN Candidate(n, v, d)
    ELSE IF d \in Poisoned(f, n, v) THEN [f[d] EXCEPT !.metric = Infinity] ELSE f[d]

\* In maps, one turn of apply_routes' loop treats one destination.
LEMMA TurnIs ==
    ASSUME NEW t, Proper(t), NEW n \in Nodes, NEW r \in AdvertisedRoutes,
           NEW v \in Vectors, r.destination \in DOMAIN v, v[r.destination] = r.metric
    PROVE  LET d == r.destination
               u == ApplyOne(t, n, r)
               f == AsMap(t)
               g == AsMap(u)
           IN  /\ Proper(u) /\ Len(t) <= Len(u)
               /\ DOMAIN f \subseteq DOMAIN g
               /\ DOMAIN g \subseteq DOMAIN f \cup ({d} \cap Usable(n, v))
               /\ \A x \in DOMAIN g \ {d} : g[x] = f[x]
               /\ d \in DOMAIN g => g[d] = Turned(f, n, v, d)
               /\ d \in Usable(n, v) => d \in DOMAIN g \/ Len(u) = MaxRoutes
<1> DEFINE d == r.destination
           m == CandidateMetric(r.metric)
           u == ApplyOne(t, n, r)
           f == AsMap(t)
           i == IndexOf(t, d)
           c == Entry(d, n, m)
           Good(s) == /\ Proper(s) /\ Len(t) <= Len(s)
                      /\ DOMAIN f \subseteq DOMAIN AsMap(s)
                      /\ DOMAIN AsMap(s) \subseteq DOMAIN f \cup ({d} \cap Usable(n, v))
                      /\ \A x \in DOMAIN AsMap(s) \ {d} : AsMap(s)[x] = f[x]
                      /\ d \in DOMAIN AsMap(s) => AsMap(s)[d] = Turned(f, n, v, d)
                      /\ d \in Usable(n, v) => d \in DOMAIN AsMap(s) \/ Len(s) = MaxRoutes
<1>1. /\ d \in Nodes /\ r.metric \in 0 .. Infinity /\ m \in 1 .. Infinity
      /\ m = CandidateMetric(v[d]) /\ d \in DOMAIN v
  BY InfinityAssumption DEF AdvertisedRoutes, CandidateMetric, LinkCost
<1>2. d \in Usable(n, v) <=> d # n /\ m < Infinity
  BY <1>1 DEF Usable
<1>3. c \in Entries /\ RouteOf(c) = Candidate(n, v, d) /\ c.destination = d
      /\ c.next_hop = n /\ c.metric = m
  BY <1>1, InfinityAssumption DEF Entries, Entry, RouteOf, Candidate
<1>4. Len(t) \in Nat /\ DOMAIN t = 1 .. Len(t) /\ Len(t) <= MaxRoutes /\ t \in Seq(Entries)
      /\ \A k \in DOMAIN t : t[k] \in Entries
  BY DEF Proper
<1>5. DOMAIN f = Dests(t) /\ \A k \in DOMAIN t : f[t[k].destination] = RouteOf(t[k])
  BY AsMapIs
<1>6. /\ d \notin Dests(t) => i = 0
      /\ d \in Dests(t) => i \in DOMAIN t /\ t[i].destination = d /\ i # 0
  <2>1. DOMAIN t \subseteq Nat \ {0} /\ Distinct(t)
    BY <1>4 DEF Proper
  <2>2. /\ \A x : x \notin Dests(t) => IndexOf(t, x) = 0
        /\ \A x \in Dests(t) : IndexOf(t, x) \in DOMAIN t /\ t[IndexOf(t, x)].destination = x
    BY <2>1, IndexIs
  <2> QED
    BY <2>1, <2>2
<1> HIDE DEF f, i, c, m, d
<1>7. d \in Dests(t) => f[d] = RouteOf(t[i])
  BY <1>5, <1>6
<1>8. ASSUME u = t, d \in Dests(t) => Turned(f, n, v, d) = f[d],
             d \in Usable(n, v) => d \in Dests(t) \/ Len(t) = MaxRoutes
      PROVE  Good(u)
  BY <1>4, <1>5, <1>8 DEF f
<1>9. ASSUME Proper(u), Len(t) <= Len(u), AsMap(u) = With(f, d, Turned(f, n, v, d)),
             d \in Dests(t) \cup Usable(n, v)
      PROVE  Good(u)
  BY <1>5, <1>9 DEF With
<1> SUFFICES Good(u)
  BY DEF f, d
<1> HIDE DEF Good, u
<1>10. CASE d = n
  <2>1. u = t
    BY <1>10 DEF ApplyOne, u, d
  <2>2. d \notin Usable(n, v) /\ Turned(f, n, v, d) = f[d]
    BY <1>2, <1>10 DEF Turned, Poisoned
  <2> QED
    BY <1>8, <2>1, <2>2
<1>11. CASE d # n /\ m = Infinity
  <2>1. d \notin Usable(n, v)
    BY <1>1, <1>2, <1>11
  <2>2. u = IF i # 0 /\ t[i].next_hop = n THEN [t EXCEPT ![i].metric = Infinity] ELSE t
    BY <1>1, <1>11, InfinityAssumption DEF ApplyOne, u, d, m, i
  <2>3. CASE i # 0 /\ t[i].next_hop = n
    <3> DEFINE e == [t[i] EXCEPT !.metric = Infinity]
    <3>1. d \in Dests(t) /\ i \in DOMAIN t /\ t[i] \in Entries
      BY <1>4, <1>6, <2>3
    <3>2. e \in Entries /\ e.destination = t[i].destination /\ e.destination = d
      BY <1>6, <3>1, InfinityAssumption DEF Entries
    <3>3. u = [t EXCEPT ![i] = e]
      BY <2>2, <2>3
    <3>4. d \in Poisoned(f, n, v)
      <4>1. f[d].next_hop = n
        BY <1>7, <2>3, <3>1 DEF RouteOf
      <4>2. d \in (DOMAIN f \cap DOMAIN v) \ {n} /\ CandidateMetric(v[d]) = Infinity
        BY <1>1, <1>5, <1>11, <3>1
      <4> QED
        BY <4>1, <4>2 DEF Poisoned
    <3>5. Turned(f, n, v, d) = RouteOf(e)
      BY <1>7, <2>1, <3>1, <3>4 DEF Turned, RouteOf, Entries
    <3> HIDE DEF e
    <3>6. Proper(u) /\ Len(u) = Len(t) /\ AsMap(u) = With(f, d, Turned(f, n, v, d))
      BY <3>1, <3>2, <3>3, <3>5, ReplaceIs DEF f
    <3> QED
      BY <1>4, <1>9, <3>1, <3>6
  <2>4. CASE ~(i # 0 /\ t[i].next_hop = n)
    <3>1. d \in Dests(t) => d \notin Poisoned(f, n, v)
      BY <1>6, <1>7, <2>4 DEF Poisoned, RouteOf
    <3>2. d \in Dests(t) => Turned(f, n, v, d) = f[d]
      BY <2>1, <3>1 DEF Turned
    <3> QED
      BY <1>8, <2>1, <2>2, <2>4, <3>2
  <2> QED
    BY <2>3, <2>4
<1>12. CASE d # n /\ m # Infinity
  <2>1. d \in Usable(n, v) /\ m < Infinity /\ ~(m >= Infinity)
    BY <1>1, <1>2, <1>12, InfinityAssumption
  <2>2. CASE i = 0
    <3>1. d \notin Dests(t)
      BY <1>6, <2>2
    <3>2. Turned(f, n, v, d) = RouteOf(c)
      BY <1>3, <1>5, <2>1, <3>1 DEF Turned, Replaces
    <3>3. u = IF Len(t) < MaxRoutes THEN Append(t, c) ELSE t
      BY <1>12, <2>1, <2>2 DEF ApplyOne, u, d, m, i, c
    <3>4. CASE Len(t) < MaxRoutes
      <4>1. Proper(u) /\ Len(u) = Len(t) + 1 /\ AsMap(u) = With(f, d, Turned(f, n, v, d))
        BY <1>3, <3>1, <3>2, <3>3, <3>4, AppendIs DEF f
      <4> QED
        BY <1>4, <1>9, <2>1, <4>1
    <3>5. CASE ~(Len(t) < MaxRoutes)
      <4>1. Len(t) = MaxRoutes
        <5>1. Len(t) \in Nat /\ Len(t) <= MaxRoutes /\ MaxRoutes \in Nat
          BY <1>4, PeersAssumption
        <5> QED
          BY <3>5, <5>1
      <4> QED
        BY <1>8, <3>1, <3>3, <3>5, <4>1
    <3> QED
      BY <3>4, <3>5
  <2>3. CASE i # 0
    <3>1. d \in Dests(t) /\ i \in DOMAIN t /\ t[i].destination = d
      BY <1>6, <2>3
    <3>2. u = IF ReplacesEntry(c, t[i]) THEN [t EXCEPT ![i] = c] ELSE t
      BY <1>12, <2>1, <2>3 DEF ApplyOne, u, d, m, i, c
    <3>3. ReplacesEntry(c, t[i]) <=> Replaces(f, n, v, d)
      <4>1. /\ f[d].next_hop = t[i].next_hop /\ f[d].metric = t[i].metric
            /\ Candidate(n, v, d).next_hop = c.next_hop /\ Candidate(n, v, d).metric = c.metric
        BY <1>3, <1>7, <3>1 DEF RouteOf
      <4> QED
        BY <1>3, <1>5, <3>1, <4>1 DEF ReplacesEntry, Replaces, Preferred
    <3>4. CASE ReplacesEntry(c, t[i])
      <4>1. Turned(f, n, v, d) = RouteOf(c)
        BY <1>3, <2>1, <3>3, <3>4 DEF Turned
      <4>2. Proper(u) /\ Len(u) = Len(t) /\ AsMap(u) = With(f, d, Turned(f, n, v, d))
        BY <1>3, <3>1, <3>2, <3>4, <4>1, ReplaceIs DEF f
      <4> QED
        BY <1>4, <1>9, <3>1, <4>2
    <3>5. CASE ~ReplacesEntry(c, t[i])
      <4>1. d \notin Poisoned(f, n, v)
        BY <1>1, <1>12 DEF Poisoned
      <4>2. Turned(f, n, v, d) = f[d]
        BY <3>3, <3>5, <4>1 DEF Turned
      <4> QED
        BY <1>8, <3>1, <3>2, <3>5, <4>2
    <3> QED
      BY <3>4, <3>5
  <2> QED
    BY <2>2, <2>3
<1> QED
  BY <1>1, <1>10, <1>11, <1>12

\* The loop of apply_routes.
LEMMA AppliedRuns ==
    ASSUME NEW t, Proper(t), NEW n \in Nodes, NEW a, Advertisement(a)
    PROVE  LET A == Applied(t, n, a)
           IN  /\ A[0] = EraseWithdrawn(t, n, a)
               /\ \A i \in 1 .. Len(a) : A[i] = ApplyOne(A[i - 1], n, a[i])
<1> DEFINE l == Len(a)
           S == {s \in Seq(Entries) : Proper(s)}
           base == EraseWithdrawn(t, n, a)
           step == [x \in S \X (1 .. l) |-> ApplyOne(x[1], n, a[x[2]])]
           A == Applied(t, n, a)
<1>1. l \in Nat /\ \A i \in 1 .. l : a[i] \in AdvertisedRoutes /\ i \in DOMAIN a
  BY DEF Advertisement
<1>2. base \in S
  <2>1. Proper(base)
    BY EraseKeeps
  <2> QED
    BY <2>1 DEF Proper
<1>3. ASSUME NEW s \in S, NEW i \in 1 .. l PROVE ApplyOne(s, n, a[i]) \in S
  <2>1. a[i].destination \in DOMAIN VectorOf(a) /\ VectorOf(a)[a[i].destination] = a[i].metric
        /\ VectorOf(a) \in Vectors
    BY <1>1, VectorIs DEF Dests
  <2>2. Proper(ApplyOne(s, n, a[i]))
    BY <1>1, <2>1, TurnIs
  <2> QED
    BY <2>2 DEF Proper
<1> HIDE DEF S, l, base
<1>4. step \in [S \X (1 .. l) -> S]
  <2>1. ASSUME NEW x \in S \X (1 .. l) PROVE ApplyOne(x[1], n, a[x[2]]) \in S
    <3>1. x[1] \in S /\ x[2] \in 1 .. l
      OBVIOUS
    <3> QED
      BY <1>3, <3>1
  <2> QED
    BY <2>1
<1>5. PICK run \in [0 .. l -> S] :
         run = [i \in 0 .. l |-> IF i = 0 THEN base ELSE step[<<run[i - 1], i>>]]
  <2>1. IsLoop(S, l, base, step)
    BY <1>1, <1>2, <1>4 DEF IsLoop
  <2> HIDE DEF step
  <2>2. Runs(S, l, base, step)
    BY <2>1, LoopRuns
  <2> QED
    BY <2>2 DEF Runs
<1>6. ASSUME NEW i \in 1 .. l PROVE step[<<run[i - 1], i>>] = ApplyOne(run[i - 1], n, a[i])
  <2>1. i - 1 \in 0 .. l
    BY <1>1
  <2>2. run[i - 1] \in S
    BY <1>5, <2>1
  <2> QED
    BY <2>2
<1>7. run = [i \in 0 .. l |-> IF i = 0 THEN base ELSE ApplyOne(run[i - 1], n, a[i])]
  <2>1. \A i \in 0 .. l : i # 0 => i \in 1 .. l
    BY <1>1
  <2> HIDE DEF step
  <2> QED
    BY <1>5, <1>6, <2>1
<1>8. A = [i \in 0 .. l |-> IF i = 0 THEN base ELSE ApplyOne(A[i - 1], n, a[i])]
  BY <1>7 DEF Applied, l, base
<1> HIDE DEF A
<1>9. A[0] = base /\ \A i \in 1 .. l : A[i] = ApplyOne(A[i - 1], n, a[i])
  <2>1. 0 \in 0 .. l /\ \A i \in 1 .. l : i \in 0 .. l /\ i # 0
    BY <1>1
  <2> QED
    BY <1>8, <2>1
<1> QED
  BY <1>9 DEF A, base, l

\* apply_routes computes ApplyRoutes, except for destinations that are new when
\* the table is full.
LEMMA ApplyVectorIs ==
    ASSUME NEW t, Proper(t), NEW n \in Nodes, NEW a, Advertisement(a)
    PROVE  LET f == AsMap(t)
               v == VectorOf(a)
               u == ApplyVector(t, n, a)
               g == AsMap(u)
               M == ApplyRoutes(f, n, v)
           IN  /\ Proper(u)
               /\ DOMAIN f \ Withdrawn(f, n, v) \subseteq DOMAIN g
               /\ DOMAIN g \subseteq DOMAIN M
               /\ \A d \in DOMAIN g : g[d] = M[d]
               /\ DOMAIN g # DOMAIN M => Len(u) = MaxRoutes
<1> DEFINE f == AsMap(t)
           v == VectorOf(a)
           l == Len(a)
           A == Applied(t, n, a)
           kept == DOMAIN f \ Withdrawn(f, n, v)
           D(i) == {a[j].destination : j \in 1 .. i}
           U == Usable(n, v)
           Ok(s, i) == /\ Proper(s)
                       /\ kept \subseteq DOMAIN AsMap(s)
                       /\ DOMAIN AsMap(s) \subseteq kept \cup (U \cap D(i))
                       /\ \A d \in DOMAIN AsMap(s) :
                             AsMap(s)[d] = IF d \in D(i) THEN Turned(f, n, v, d) ELSE f[d]
                       /\ U \cap D(i) \subseteq DOMAIN AsMap(s) \/ Len(s) = MaxRoutes
           Inv == {i \in 0 .. l : Ok(A[i], i)}
           M == ApplyRoutes(f, n, v)
<1>1. /\ l \in Nat /\ DOMAIN a = 1 .. l /\ Distinct(a)
      /\ \A i \in 1 .. l : a[i] \in AdvertisedRoutes
  BY DEF Advertisement
<1>2. v \in Vectors /\ DOMAIN v = Dests(a) /\ \A i \in 1 .. l : v[a[i].destination] = a[i].metric
  BY <1>1, VectorIs
<1>3. /\ A[0] = EraseWithdrawn(t, n, a)
      /\ \A i \in 1 .. l : A[i] = ApplyOne(A[i - 1], n, a[i])
  BY AppliedRuns
<1>4. DOMAIN v = D(l)
  BY <1>1, <1>2 DEF Dests
<1> HIDE DEF f, v, A, U
<1>5. 0 \in Inv
  <2>1. Proper(A[0]) /\ AsMap(A[0]) = Without(f, Withdrawn(f, n, v))
    BY <1>3, EraseIs DEF f, v
  <2>2. DOMAIN AsMap(A[0]) = kept /\ \A d \in kept : AsMap(A[0])[d] = f[d]
    BY <2>1 DEF Without
  <2>3. D(0) = {}
    OBVIOUS
  <2>4. Ok(A[0], 0)
    BY <2>1, <2>2, <2>3
  <2> QED
    BY <1>1, <2>4
<1>6. ASSUME NEW i \in 1 .. l, i - 1 \in Inv PROVE i \in Inv
  <2> DEFINE s == A[i - 1]
             d == a[i].destination
             g == AsMap(A[i])
             h == AsMap(s)
  <2>1. i \in 0 .. l /\ Ok(s, i - 1) /\ A[i] = ApplyOne(s, n, a[i]) /\ a[i] \in AdvertisedRoutes
    BY <1>1, <1>3, <1>6
  <2>2. d \in DOMAIN v /\ v[d] = a[i].metric
    BY <1>1, <1>2 DEF Dests
  <2>3. D(i) = D(i - 1) \cup {d}
    <3>1. \A j : j \in 1 .. i <=> j \in 1 .. i - 1 \/ j = i
      BY <1>1
    <3> QED
      BY <3>1
  <2>4. d \notin D(i - 1)
    <3>1. ASSUME NEW j \in 1 .. i - 1 PROVE a[j].destination # d
      <4>1. j \in DOMAIN a /\ i \in DOMAIN a /\ j # i
        BY <1>1
      <4> QED
        BY <1>1, <4>1 DEF Distinct
    <3> QED
      BY <3>1
  <2> HIDE DEF D
  <2>5. /\ Proper(s) /\ kept \subseteq DOMAIN h
        /\ DOMAIN h \subseteq kept \cup (U \cap D(i - 1))
        /\ \A x \in DOMAIN h : h[x] = IF x \in D(i - 1) THEN Turned(f, n, v, x) ELSE f[x]
        /\ U \cap D(i - 1) \subseteq DOMAIN h \/ Len(s) = MaxRoutes
    BY <2>1
  <2> HIDE DEF s, d
  <2>6. /\ Proper(A[i]) /\ Len(s) <= Len(A[i])
        /\ DOMAIN h \subseteq DOMAIN g
        /\ DOMAIN g \subseteq DOMAIN h \cup ({d} \cap U)
        /\ \A x \in DOMAIN g \ {d} : g[x] = h[x]
        /\ d \in DOMAIN g => g[d] = Turned(h, n, v, d)
        /\ d \in U => d \in DOMAIN g \/ Len(A[i]) = MaxRoutes
    BY <1>2, <2>1, <2>2, <2>5, TurnIs DEF d, U
  <2> HIDE DEF g, h, Ok
  <2>7. d \in DOMAIN h <=> d \in DOMAIN f
    BY <2>2, <2>4, <2>5 DEF Withdrawn
  <2>8. d \in DOMAIN f => h[d] = f[d]
    BY <2>4, <2>5, <2>7
  <2>9. d \in DOMAIN g => g[d] = Turned(f, n, v, d)
    <3>1. CASE d \in DOMAIN f
      BY <2>6, <2>7, <2>8, <3>1 DEF Turned, Replaces, Poisoned
    <3>2. CASE d \notin DOMAIN f
      BY <2>6, <2>7, <3>2 DEF Turned, Replaces, U
    <3> QED
      BY <3>1, <3>2
  <2>10. Len(A[i]) \in Nat /\ Len(s) \in Nat /\ Len(A[i]) <= MaxRoutes /\ MaxRoutes \in Nat
    BY <2>5, <2>6, PeersAssumption DEF Proper
  <2>11. U \cap D(i) \subseteq DOMAIN g \/ Len(A[i]) = MaxRoutes
    BY <2>3, <2>5, <2>6, <2>10
  <2>12. \A x \in DOMAIN g : g[x] = IF x \in D(i) THEN Turned(f, n, v, x) ELSE f[x]
    BY <2>3, <2>4, <2>5, <2>6, <2>9
  <2>13. kept \subseteq DOMAIN g /\ DOMAIN g \subseteq kept \cup (U \cap D(i))
    BY <2>3, <2>5, <2>6
  <2>14. Ok(A[i], i)
    BY <2>6, <2>11, <2>12, <2>13 DEF Ok, g
  <2> QED
    BY <2>1, <2>14
<1>7. Ok(A[l], l)
  <2>1. l \in 0 .. l
    BY <1>1
  <2> HIDE DEF Inv, l
  <2>2. \A i \in 0 .. l : i \in Inv
    BY <1>1, <1>5, <1>6, LoopKeeps
  <2>3. l \in Inv
    BY <2>1, <2>2
  <2> QED
    BY <2>3 DEF Inv
<1> DEFINE u == A[l]
<1>8. ApplyVector(t, n, a) = u
  BY DEF ApplyVector, A
<1> HIDE DEF u, l
<1>9. /\ Proper(u) /\ kept \subseteq DOMAIN AsMap(u)
      /\ DOMAIN AsMap(u) \subseteq kept \cup (U \cap DOMAIN v)
      /\ \A d \in DOMAIN AsMap(u) :
            AsMap(u)[d] = IF d \in DOMAIN v THEN Turned(f, n, v, d) ELSE f[d]
      /\ U \cap DOMAIN v \subseteq DOMAIN AsMap(u) \/ Len(u) = MaxRoutes
  BY <1>4, <1>7 DEF u
<1>10. U \subseteq DOMAIN v
  BY DEF U, Usable
<1>11. DOMAIN M = kept \cup U /\ \A d \in kept \cup U : M[d] = Turned(f, n, v, d)
  BY DEF ApplyRoutes, Turned, U
<1>12. \A d : d \notin DOMAIN v => Turned(f, n, v, d) = f[d]
  BY <1>10 DEF Turned, Poisoned, U
<1>13. /\ DOMAIN AsMap(u) \subseteq DOMAIN M
       /\ \A d \in DOMAIN AsMap(u) : AsMap(u)[d] = M[d]
       /\ DOMAIN AsMap(u) # DOMAIN M => Len(u) = MaxRoutes
  BY <1>9, <1>10, <1>11, <1>12
<1> QED
  BY <1>8, <1>9, <1>13 DEF f, v

-----------------------------------------------------------------------------
\* The table has as many entries as destinations.
LEMMA CountIs ==
    ASSUME NEW t, Proper(t)
    PROVE  IsFiniteSet(Dests(t)) /\ Cardinality(Dests(t)) = Len(t)
<1> DEFINE l == Len(t)
           b == [i \in 1 .. l |-> t[i].destination]
           T == Dests(t)
<1>1. l \in Nat /\ DOMAIN t = 1 .. l /\ Distinct(t)
  BY DEF Proper
<1>2. /\ b \in [1 .. l -> T]
      /\ \A i, j \in 1 .. l : b[i] = b[j] => i = j
      /\ \A d \in T : \E i \in 1 .. l : b[i] = d
  BY <1>1 DEF Dests, Distinct
<1>3. DOMAIN b = 1 .. l
  OBVIOUS
<1> HIDE DEF b, T, l
<1>4. b \in Bijection(1 .. l, T)
  BY <1>2, <1>3 DEF Bijection, Injection, Surjection, IsInjective
<1>5. ExistsBijection(1 .. l, T)
  BY <1>4 DEF ExistsBijection
<1>6. IsFiniteSet(T)
  BY <1>1, <1>5, FS_NatBijection
<1>7. Cardinality(T) = l
  BY <1>1, <1>5, FS_CountingElements
<1> QED
  BY <1>6, <1>7 DEF T, l

\* A table that holds another's destinations has as many entries, and no more
\* destinations when the other is full.
LEMMA FullHolds ==
    ASSUME NEW t, Proper(t), NEW u, Proper(u), Dests(t) \subseteq Dests(u)
    PROVE  /\ Len(t) <= Len(u)
           /\ Len(t) = MaxRoutes => Len(u) = MaxRoutes /\ Dests(u) = Dests(t)
<1>1. /\ IsFiniteSet(Dests(u)) /\ Cardinality(Dests(u)) = Len(u)
      /\ Cardinality(Dests(t)) = Len(t)
  BY CountIs
<1>2. Len(t) <= Len(u) /\ (Len(t) = Len(u) => Dests(u) = Dests(t))
  BY <1>1, FS_Subset
<1>3. Len(t) \in Nat /\ Len(u) \in Nat /\ Len(u) <= MaxRoutes
  BY DEF Proper
<1> QED
  BY <1>2, <1>3, PeersAssumption

\* Every entry of the map is the candidate that is preferred to all others.
Best(f, alive, conn, vectors) ==
    \A d \in DOMAIN f :
        /\ f[d] \in RouteCandidates(alive, conn, vectors, d)
        /\ \A q \in RouteCandidates(alive, conn, vectors, d) \ {f[d]} : Preferred(f[d], q)

\* The table has an entry for every destination anyone has, or it is full.
Complete(t, alive, conn, vectors) ==
    \A d \in Nodes : RouteCandidates(alive, conn, vectors, d) # {} =>
        d \in Dests(t) \/ Len(t) = MaxRoutes

\* What a rebuild gives, and what an advertisement that changes nothing leaves.
Backed(t, alive, conn, vectors) ==
    /\ Proper(t)
    /\ Best(AsMap(t), alive, conn, vectors)
    /\ Complete(t, alive, conn, vectors)
    /\ alive \subseteq Dests(t)

\* An advertisement stored for n leaves an entry the best, if applying it leaves
\* the routes through n as they are.
LEMMA BestAfter ==
    ASSUME NEW alive, NEW conn, NEW vectors, Inputs(alive, conn, vectors),
           NEW n \in conn, NEW v \in Vectors, NEW f, NEW d \in DOMAIN f, d \in Nodes,
           LET Old == RouteCandidates(alive, conn, vectors, d)
           IN  f[d] \in Old /\ \A q \in Old \ {f[d]} : Preferred(f[d], q),
           d # n /\ f[d].next_hop = n => d \in DOMAIN v /\ Turned(f, n, v, d) = f[d]
    PROVE  LET New == RouteCandidates(alive, conn, With(vectors, n, v), d)
               e   == Turned(f, n, v, d)
           IN  e \in New /\ \A q \in New \ {e} : Preferred(e, q)
<1> DEFINE Old == RouteCandidates(alive, conn, vectors, d)
           New == RouteCandidates(alive, conn, With(vectors, n, v), d)
           e   == Turned(f, n, v, d)
           c   == Candidate(n, v, d)
<1>1. n \in Nodes
  BY DEF Inputs
<1>2. /\ \A r \in Old : r.next_hop # n \/ d = n => r \in New
      /\ d \in Usable(n, v) => c \in New
      /\ \A r \in New : r \in Old \/ (d \in Usable(n, v) /\ r = c)
  BY CandidatesAfterStore
<1>3. /\ RouteSet(Old) /\ \A r \in Old : r \in Routes /\ r.metric < Infinity
  BY CandidatesType
<1>4. d \in Usable(n, v) =>
         c \in [next_hop : Nodes, metric : Nat] /\ c.next_hop = n /\ d # n
           /\ CandidateMetric(v[d]) < Infinity
  BY <1>1, CandidateType DEF Usable
<1>5. f[d] \in Old /\ \A q \in Old \ {f[d]} : Preferred(f[d], q)
  OBVIOUS
<1> HIDE DEF Old, New, c
<1>6. f[d] \in [next_hop : Nodes, metric : Nat] /\ f[d].metric < Infinity
      /\ \A r \in Old : r \in [next_hop : Nodes, metric : Nat]
  BY <1>3, <1>5 DEF RouteSet
<1>7. CASE d \in Usable(n, v) /\ Replaces(f, n, v, d)
  <2>1. e = c
    BY <1>7 DEF Turned, c
  <2>2. c = f[d] \/ Preferred(c, f[d])
    <3>1. CASE f[d].next_hop = n
      BY <1>4, <1>7, <2>1, <3>1
    <3>2. CASE f[d].next_hop # n
      BY <1>7, <3>2 DEF Replaces, c
    <3> QED
      BY <3>1, <3>2
  <2>3. ASSUME NEW q \in Old, q # c PROVE Preferred(c, q)
    <3>1. q = f[d] \/ Preferred(f[d], q)
      BY <1>5, <2>3
    <3>2. c = f[d] \/ q = f[d] => Preferred(c, q)
      BY <2>2, <2>3, <3>1
    <3>3. Preferred(c, f[d]) /\ Preferred(f[d], q) => Preferred(c, q)
      <4>1. /\ c.metric \in Nat /\ f[d].metric \in Nat /\ q.metric \in Nat
            /\ c.next_hop \in Nat /\ f[d].next_hop \in Nat /\ q.next_hop \in Nat
        BY <1>4, <1>6, <1>7, NodesAssumption
      <4> QED
        BY <4>1 DEF Preferred
    <3> QED
      BY <2>2, <3>1, <3>2, <3>3
  <2> QED
    BY <1>2, <1>7, <2>1, <2>3 DEF New, Old, c
<1>8. CASE ~(d \in Usable(n, v) /\ Replaces(f, n, v, d))
  <2>1. d = n \/ f[d].next_hop # n
    <3>1. SUFFICES ASSUME d # n, f[d].next_hop = n PROVE FALSE
      OBVIOUS
    <3>2. d \in DOMAIN v /\ Turned(f, n, v, d) = f[d]
      BY <3>1
    <3>3. d \notin Usable(n, v)
      BY <1>8, <3>1 DEF Replaces
    <3>4. d \in Poisoned(f, n, v)
      <4>1. CandidateMetric(v[d]) = Infinity
        BY <3>1, <3>2, <3>3, InfinityAssumption DEF Usable, CandidateMetric, LinkCost
      <4> QED
        BY <3>1, <3>2, <4>1 DEF Poisoned
    <3>5. [f[d] EXCEPT !.metric = Infinity] = f[d]
      BY <3>2, <3>3, <3>4 DEF Turned
    <3> QED
      BY <1>6, <3>5, InfinityAssumption
  <2>2. e = f[d]
    BY <1>8, <2>1 DEF Turned, Poisoned
  <2>3. f[d] \in New
    BY <1>2, <1>5, <2>1
  <2>4. ASSUME NEW q \in New, q # f[d] PROVE Preferred(f[d], q)
    <3>1. CASE q \in Old
      BY <1>5, <2>4, <3>1
    <3>2. CASE d \in Usable(n, v) /\ q = c
      <4>1. ~Preferred(c, f[d])
        BY <1>8, <3>2 DEF Replaces, c
      <4> QED
        BY <1>4, <1>6, <2>4, <3>2, <4>1, PreferredIsTotal
    <3> QED
      BY <1>2, <3>1, <3>2
  <2> QED
    BY <2>2, <2>3, <2>4 DEF New
<1> QED
  BY <1>7, <1>8

\* apply_routes keeps the table backed, the advertisement being stored.
LEMMA ApplyKeepsBacked ==
    ASSUME NEW alive, NEW conn, NEW vectors, Inputs(alive, conn, vectors),
           NEW t, Backed(t, alive, conn, vectors),
           NEW n \in conn, NEW a, Advertisement(a),
           LET f == AsMap(t)
               M == ApplyRoutes(f, n, VectorOf(a))
           IN  \A d \in DOMAIN f : d # n /\ f[d].next_hop = n => d \in DOMAIN M /\ M[d] = f[d]
    PROVE  Backed(ApplyVector(t, n, a), alive, conn, With(vectors, n, VectorOf(a)))
<1> DEFINE f == AsMap(t)
           v == VectorOf(a)
           W == With(vectors, n, v)
           u == ApplyVector(t, n, a)
           g == AsMap(u)
           M == ApplyRoutes(f, n, v)
           Old(d) == RouteCandidates(alive, conn, vectors, d)
           New(d) == RouteCandidates(alive, conn, W, d)
<1>1. n \in Nodes /\ v \in Vectors /\ Proper(t)
  BY VectorIs DEF Inputs, Backed
<1>2. /\ Proper(u)
      /\ DOMAIN f \ Withdrawn(f, n, v) \subseteq DOMAIN g
      /\ DOMAIN g \subseteq DOMAIN M
      /\ \A d \in DOMAIN g : g[d] = M[d]
      /\ DOMAIN g # DOMAIN M => Len(u) = MaxRoutes
  BY <1>1, ApplyVectorIs
<1>3. DOMAIN f = Dests(t) /\ DOMAIN g = Dests(u) /\ Dests(t) \subseteq Nodes /\ Dests(u) \subseteq Nodes
  BY <1>1, <1>2, AsMapIs
<1>4. /\ \A d \in DOMAIN f : f[d] \in Old(d) /\ \A q \in Old(d) \ {f[d]} : Preferred(f[d], q)
      /\ \A d \in Nodes : Old(d) # {} => d \in Dests(t) \/ Len(t) = MaxRoutes
      /\ alive \subseteq Dests(t)
  BY DEF Backed, Best, Complete
<1>5. \A d \in DOMAIN f : d # n /\ f[d].next_hop = n => d \in DOMAIN M /\ M[d] = f[d]
  OBVIOUS
<1> HIDE DEF f, v, u, g
<1>6. /\ DOMAIN M = (DOMAIN f \ Withdrawn(f, n, v)) \cup Usable(n, v)
      /\ \A d \in DOMAIN M : M[d] = Turned(f, n, v, d)
  BY DEF ApplyRoutes, Turned
<1>7. Usable(n, v) \subseteq DOMAIN v
  BY DEF Usable
<1> HIDE DEF M
<1>8. \A d \in DOMAIN f : d # n /\ f[d].next_hop = n => d \in DOMAIN v /\ Turned(f, n, v, d) = f[d]
  BY <1>5, <1>6, <1>7 DEF Withdrawn
<1>9. Withdrawn(f, n, v) = {}
  BY <1>8 DEF Withdrawn
<1>10. DOMAIN f \subseteq DOMAIN g /\ \A d \in DOMAIN g : d \notin DOMAIN f => d \in Usable(n, v)
  BY <1>2, <1>6, <1>9
<1>11. Len(t) <= Len(u) /\ (Len(t) = MaxRoutes => Len(u) = MaxRoutes /\ DOMAIN g = DOMAIN f)
  BY <1>1, <1>2, <1>3, <1>10, FullHolds
<1>12. \A d \in Nodes : /\ d \in Usable(n, v) => Candidate(n, v, d) \in New(d)
                        /\ \A r \in New(d) : r \in Old(d) \/ (d \in Usable(n, v) /\ r = Candidate(n, v, d))
  BY <1>1, CandidatesAfterStore
<1>13. ASSUME NEW d \in DOMAIN g
       PROVE  g[d] \in New(d) /\ \A q \in New(d) \ {g[d]} : Preferred(g[d], q)
  <2>1. d \in Nodes /\ g[d] = Turned(f, n, v, d)
    BY <1>2, <1>3, <1>6
  <2>2. CASE d \in DOMAIN f
    <3>1. /\ f[d] \in Old(d) /\ \A q \in Old(d) \ {f[d]} : Preferred(f[d], q)
          /\ d # n /\ f[d].next_hop = n => d \in DOMAIN v /\ Turned(f, n, v, d) = f[d]
      BY <1>4, <1>8, <2>2
    <3> QED
      BY <1>1, <2>1, <2>2, <3>1, BestAfter
  <2>3. CASE d \notin DOMAIN f
    <3>1. d \in Usable(n, v) /\ g[d] = Candidate(n, v, d)
      BY <1>10, <2>1, <2>3 DEF Turned, Replaces
    <3>2. Old(d) = {}
      BY <1>3, <1>4, <1>11, <2>1, <2>3
    <3> HIDE DEF Old, New
    <3> QED
      BY <1>12, <2>1, <3>1, <3>2
  <2> QED
    BY <2>2, <2>3
<1>14. ASSUME NEW d \in Nodes, New(d) # {}
       PROVE  d \in Dests(u) \/ Len(u) = MaxRoutes
  <2>1. PICK r \in New(d) : TRUE
    BY <1>14
  <2>2. CASE r \in Old(d)
    BY <1>3, <1>4, <1>10, <1>11, <2>2
  <2>3. CASE d \in Usable(n, v)
    BY <1>2, <1>3, <1>6, <2>3
  <2> QED
    BY <1>12, <2>1, <2>2, <2>3
<1>15. alive \subseteq Dests(u)
  BY <1>3, <1>4, <1>10
<1>16. Backed(u, alive, conn, W)
  BY <1>2, <1>13, <1>14, <1>15 DEF Backed, Best, Complete, g
<1> QED
  BY <1>16 DEF u, v

-----------------------------------------------------------------------------
\* routing_add_route of a route that is there, or is new and has room.
LEMMA AddRouteIs ==
    ASSUME NEW t, Proper(t), NEW e \in Entries
    PROVE  LET u == AddRoute(t, e)
               f == AsMap(t)
               d == e.destination
           IN  /\ Proper(u)
               /\ d \in Dests(t) /\ f[d] = RouteOf(e) => u = t
               /\ d \notin Dests(t) /\ Len(t) < MaxRoutes =>
                    AsMap(u) = With(f, d, RouteOf(e)) /\ Len(u) = Len(t) + 1
<1> DEFINE d == e.destination
           i == IndexOf(t, d)
           u == AddRoute(t, e)
           f == AsMap(t)
<1>1. DOMAIN t = 1 .. Len(t) /\ Len(t) \in Nat /\ \A k \in DOMAIN t : t[k] \in Entries
  BY DEF Proper
<1>2. /\ d \notin Dests(t) => i = 0
      /\ d \in Dests(t) => i \in DOMAIN t /\ t[i].destination = d /\ i # 0
  <2>1. DOMAIN t \subseteq Nat \ {0} /\ Distinct(t)
    BY <1>1 DEF Proper
  <2>2. /\ \A x : x \notin Dests(t) => IndexOf(t, x) = 0
        /\ \A x \in Dests(t) : IndexOf(t, x) \in DOMAIN t /\ t[IndexOf(t, x)].destination = x
    BY <2>1, IndexIs
  <2> QED
    BY <2>1, <2>2
<1>3. u = IF i # 0 THEN IF Preferred(e, t[i]) THEN [t EXCEPT ![i] = e] ELSE t
          ELSE IF Len(t) < MaxRoutes THEN Append(t, e) ELSE t
  BY DEF AddRoute
<1>4. \A k \in DOMAIN t : f[t[k].destination] = RouteOf(t[k])
  BY AsMapIs
<1> HIDE DEF i, u, f
<1>5. CASE d \in Dests(t)
  <2>1. i \in DOMAIN t /\ t[i].destination = d /\ i # 0 /\ t[i] \in Entries
    BY <1>1, <1>2, <1>5
  <2>2. Proper(u)
    <3>1. Proper([t EXCEPT ![i] = e])
      BY <2>1, ReplaceIs
    <3> QED
      BY <1>3, <2>1, <3>1
  <2>3. f[d] = RouteOf(e) => ~Preferred(e, t[i])
    <3>1. f[d] = RouteOf(t[i])
      BY <1>4, <2>1
    <3>2. RouteOf(t[i]) = RouteOf(e) => t[i].metric = e.metric /\ t[i].next_hop = e.next_hop
      BY DEF RouteOf
    <3>3. /\ e.metric \in Nat /\ e.next_hop \in Nat
      <4>1. e.metric \in 1 .. Infinity /\ e.next_hop \in Nodes
        BY DEF Entries
      <4>2. \A x \in 1 .. Infinity : x \in Nat
        BY InfinityAssumption
      <4>3. \A x \in Nodes : x \in Nat
        BY NodesAssumption
      <4> QED
        BY <4>1, <4>2, <4>3
    <3> QED
      BY <3>1, <3>2, <3>3 DEF Preferred
  <2> QED
    BY <1>3, <1>5, <2>1, <2>2, <2>3 DEF f, u
<1>6. CASE d \notin Dests(t)
  <2>1. u = IF Len(t) < MaxRoutes THEN Append(t, e) ELSE t
    BY <1>2, <1>3, <1>6
  <2>2. Len(t) < MaxRoutes =>
           /\ Proper(Append(t, e)) /\ AsMap(Append(t, e)) = With(f, d, RouteOf(e))
           /\ Len(Append(t, e)) = Len(t) + 1
    BY <1>6, AppendIs DEF f
  <2> QED
    BY <1>6, <2>1, <2>2 DEF f, u
<1> QED
  BY <1>5, <1>6

\* The loop over the topology's peers.
LEMMA DirectRuns ==
    ASSUME NEW known \in Seq(Nodes), NEW alive
    PROVE  LET A == DirectAdded(<<>>, known, alive)
           IN  /\ A[0] = <<>>
               /\ \A i \in 1 .. Len(known) :
                    A[i] = IF known[i] \in alive
                           THEN AddRoute(A[i - 1], Entry(known[i], known[i], LinkCost))
                           ELSE A[i - 1]
<1> DEFINE l == Len(known)
           S == {s \in Seq(Entries) : Proper(s)}
           turn(s, i) == IF known[i] \in alive
                         THEN AddRoute(s, Entry(known[i], known[i], LinkCost)) ELSE s
           step == [x \in S \X (1 .. l) |-> turn(x[1], x[2])]
           A == DirectAdded(<<>>, known, alive)
<1>1. l \in Nat
  OBVIOUS
<1>2. <<>> \in S
  <2>1. <<>> \in Seq(Entries) /\ Len(<<>>) <= MaxRoutes
    BY PeersAssumption
  <2> QED
    BY <2>1 DEF Proper, Distinct
<1>3. ASSUME NEW s \in S, NEW i \in 1 .. l PROVE turn(s, i) \in S
  <2>1. Entry(known[i], known[i], LinkCost) \in Entries
    BY InfinityAssumption DEF Entry, Entries, LinkCost
  <2>2. Proper(AddRoute(s, Entry(known[i], known[i], LinkCost)))
    BY <2>1, AddRouteIs
  <2> QED
    BY <2>2 DEF Proper
<1> HIDE DEF S, l, turn
<1>4. step \in [S \X (1 .. l) -> S]
  <2>1. ASSUME NEW x \in S \X (1 .. l) PROVE turn(x[1], x[2]) \in S
    <3>1. x[1] \in S /\ x[2] \in 1 .. l
      OBVIOUS
    <3> QED
      BY <1>3, <3>1
  <2> QED
    BY <2>1
<1>5. PICK run \in [0 .. l -> S] :
         run = [i \in 0 .. l |-> IF i = 0 THEN <<>> ELSE step[<<run[i - 1], i>>]]
  <2>1. IsLoop(S, l, <<>>, step)
    BY <1>1, <1>2, <1>4 DEF IsLoop
  <2> HIDE DEF step
  <2>2. Runs(S, l, <<>>, step)
    BY <2>1, LoopRuns
  <2> QED
    BY <2>2 DEF Runs
<1>6. ASSUME NEW i \in 1 .. l PROVE step[<<run[i - 1], i>>] = turn(run[i - 1], i)
  <2>1. i - 1 \in 0 .. l
    BY <1>1
  <2>2. run[i - 1] \in S
    BY <1>5, <2>1
  <2> QED
    BY <2>2
<1>7. run = [i \in 0 .. l |-> IF i = 0 THEN <<>> ELSE turn(run[i - 1], i)]
  <2>1. \A i \in 0 .. l : i # 0 => i \in 1 .. l
    BY <1>1
  <2> HIDE DEF step
  <2> QED
    BY <1>5, <1>6, <2>1
<1>8. A = [i \in 0 .. l |-> IF i = 0 THEN <<>> ELSE turn(A[i - 1], i)]
  BY <1>7 DEF DirectAdded, l, turn
<1> HIDE DEF A
<1>9. A[0] = <<>> /\ \A i \in 1 .. l : A[i] = turn(A[i - 1], i)
  <2>1. 0 \in 0 .. l /\ \A i \in 1 .. l : i \in 0 .. l /\ i # 0
    BY <1>1
  <2> QED
    BY <1>8, <2>1
<1> QED
  BY <1>9 DEF A, l, turn

\* The direct routes of the peers that are alive, and nothing else.
LEMMA DirectIs ==
    ASSUME NEW known \in Seq(Nodes), Len(known) <= MaxRoutes,
           NEW alive, alive \subseteq Range(known),
           NEW conn, NEW vectors, DOMAIN vectors = {}
    PROVE  Backed(AddDirect(<<>>, known, alive), alive, conn, vectors)
<1> DEFINE l == Len(known)
           A == DirectAdded(<<>>, known, alive)
           D(i) == {known[j] : j \in 1 .. i} \cap alive
           Ok(s, i) == /\ Proper(s) /\ Len(s) <= i
                       /\ Dests(s) = D(i)
                       /\ \A d \in D(i) : AsMap(s)[d] = [next_hop |-> d, metric |-> 1]
           Inv == {i \in 0 .. l : Ok(A[i], i)}
           R(d) == RouteCandidates(alive, conn, vectors, d)
<1>1. l \in Nat /\ DOMAIN known = 1 .. l /\ \A i \in 1 .. l : known[i] \in Nodes
  OBVIOUS
<1>2. /\ A[0] = <<>>
      /\ \A i \in 1 .. l : A[i] = IF known[i] \in alive
                                  THEN AddRoute(A[i - 1], Entry(known[i], known[i], LinkCost))
                                  ELSE A[i - 1]
  BY DirectRuns
<1> HIDE DEF A
<1>3. 0 \in Inv
  <2>1. <<>> \in Seq(Entries) /\ Len(<<>>) = 0 /\ DOMAIN <<>> = {}
    OBVIOUS
  <2>2. Proper(<<>>) /\ Dests(<<>>) = {}
    BY <2>1, PeersAssumption DEF Proper, Distinct, Dests
  <2>3. D(0) = {}
    OBVIOUS
  <2>4. Ok(A[0], 0)
    BY <1>2, <2>1, <2>2, <2>3
  <2> QED
    BY <1>1, <2>4
<1>4. ASSUME NEW i \in 1 .. l, i - 1 \in Inv PROVE i \in Inv
  <2> DEFINE s == A[i - 1]
             d == known[i]
             e == Entry(d, d, LinkCost)
  <2>1. i \in 0 .. l /\ Ok(s, i - 1)
    BY <1>1, <1>4
  <2>2. D(i) = D(i - 1) \cup ({d} \cap alive)
    <3>1. \A j : j \in 1 .. i <=> j \in 1 .. i - 1 \/ j = i
      BY <1>1
    <3> QED
      BY <3>1
  <2>3. Len(s) \in Nat /\ Len(s) <= i - 1 /\ Len(s) < MaxRoutes /\ Len(s) <= i
    BY <1>1, <2>1, PeersAssumption DEF Proper
  <2>4. CASE d \notin alive
    <3>1. A[i] = s /\ D(i) = D(i - 1)
      BY <1>2, <2>2, <2>4
    <3> HIDE DEF D
    <3>2. Ok(A[i], i)
      BY <2>1, <2>3, <3>1
    <3> QED
      BY <2>1, <3>2
  <2>5. CASE d \in alive
    <3>1. /\ e \in Entries /\ e.destination = d
          /\ RouteOf(e) = [next_hop |-> d, metric |-> 1]
      BY <1>1, InfinityAssumption DEF Entry, Entries, LinkCost, RouteOf
    <3>2. A[i] = AddRoute(s, e)
      BY <1>2, <2>5
    <3> HIDE DEF D, e, d
    <3>3. /\ Proper(s) /\ Dests(s) = D(i - 1)
          /\ \A x \in D(i - 1) : AsMap(s)[x] = [next_hop |-> x, metric |-> 1]
      BY <2>1
    <3> HIDE DEF s
    <3>4. /\ Proper(A[i])
          /\ d \in Dests(s) => A[i] = s
          /\ d \notin Dests(s) => AsMap(A[i]) = With(AsMap(s), d, RouteOf(e)) /\ Len(A[i]) = Len(s) + 1
      BY <2>3, <3>1, <3>2, <3>3, AddRouteIs
    <3>5. CASE d \in Dests(s)
      <4>1. D(i) = D(i - 1) /\ A[i] = s
        BY <2>2, <2>5, <3>3, <3>4, <3>5
      <4>2. Ok(A[i], i)
        BY <2>3, <3>3, <4>1
      <4> QED
        BY <2>1, <4>2
    <3>6. CASE d \notin Dests(s)
      <4>1. AsMap(A[i]) = With(AsMap(s), d, RouteOf(e)) /\ Len(A[i]) <= i
        BY <1>1, <2>3, <3>4, <3>6
      <4>2. DOMAIN AsMap(A[i]) = Dests(A[i]) /\ DOMAIN AsMap(s) = Dests(s)
        BY <3>3, <3>4, AsMapIs
      <4>3. Dests(A[i]) = D(i)
        BY <2>2, <2>5, <3>3, <4>1, <4>2 DEF With
      <4>4. \A x \in D(i) : AsMap(A[i])[x] = [next_hop |-> x, metric |-> 1]
        BY <2>2, <2>5, <3>1, <3>3, <4>1, <4>2 DEF With
      <4>5. Ok(A[i], i)
        BY <3>4, <4>1, <4>3, <4>4
      <4> QED
        BY <2>1, <4>5
    <3> QED
      BY <3>5, <3>6
  <2> QED
    BY <2>4, <2>5
<1>5. Ok(A[l], l)
  <2>1. l \in 0 .. l
    BY <1>1
  <2> HIDE DEF Inv, l
  <2>2. \A i \in 0 .. l : i \in Inv
    BY <1>1, <1>3, <1>4, LoopKeeps
  <2>3. l \in Inv
    BY <2>1, <2>2
  <2> QED
    BY <2>3 DEF Inv
<1>6. D(l) = alive
  BY <1>1 DEF Range
<1> DEFINE u == A[l]
<1>7. AddDirect(<<>>, known, alive) = u
  BY DEF AddDirect, A
<1> HIDE DEF u, D, l
<1>8. Proper(u) /\ Dests(u) = alive /\ \A d \in alive : AsMap(u)[d] = [next_hop |-> d, metric |-> 1]
  BY <1>5, <1>6 DEF u
<1>9. \A d : R(d) = {[next_hop |-> n, metric |-> 1] : n \in alive \cap {d}}
  BY DEF RouteCandidates, LinkCost
<1>10. DOMAIN AsMap(u) = alive
  BY <1>8, AsMapIs
<1> HIDE DEF R
<1>11. \A d \in alive : R(d) = {[next_hop |-> d, metric |-> 1]}
  BY <1>9
<1>12. \A d : R(d) # {} => d \in alive
  BY <1>9
<1>13. Best(AsMap(u), alive, conn, vectors)
  BY <1>8, <1>10, <1>11 DEF Best, R
<1>14. Complete(u, alive, conn, vectors)
  BY <1>8, <1>12 DEF Complete, R
<1> QED
  BY <1>7, <1>8, <1>13, <1>14 DEF Backed

\* The loop over the stored advertisements.
LEMMA AdvertisedRuns ==
    ASSUME NEW t, Proper(t), NEW conn, conn \subseteq Nodes,
           NEW store, \A n \in DOMAIN store : Advertisement(store[n])
    PROVE  LET A == AdvertisedAdded(t, conn, store)
           IN  /\ A[0] = t
               /\ \A n \in 1 .. MaxId :
                    A[n] = IF n \in conn \cap DOMAIN store
                           THEN ApplyVector(A[n - 1], n, store[n]) ELSE A[n - 1]
<1> DEFINE S == {s \in Seq(Entries) : Proper(s)}
           turn(s, n) == IF n \in conn \cap DOMAIN store
                         THEN ApplyVector(s, n, store[n]) ELSE s
           step == [x \in S \X (1 .. MaxId) |-> turn(x[1], x[2])]
           A == AdvertisedAdded(t, conn, store)
<1>1. MaxId \in Nat
  BY PeersAssumption
<1>2. t \in S
  BY DEF Proper
<1>3. ASSUME NEW s \in S, NEW n \in 1 .. MaxId PROVE turn(s, n) \in S
  <2>1. n \in conn \cap DOMAIN store => Proper(ApplyVector(s, n, store[n]))
    BY ApplyVectorIs
  <2> QED
    BY <2>1 DEF Proper
<1> HIDE DEF S, turn
<1>4. step \in [S \X (1 .. MaxId) -> S]
  <2>1. ASSUME NEW x \in S \X (1 .. MaxId) PROVE turn(x[1], x[2]) \in S
    <3>1. x[1] \in S /\ x[2] \in 1 .. MaxId
      OBVIOUS
    <3> QED
      BY <1>3, <3>1
  <2> QED
    BY <2>1
<1>5. PICK run \in [0 .. MaxId -> S] :
         run = [i \in 0 .. MaxId |-> IF i = 0 THEN t ELSE step[<<run[i - 1], i>>]]
  <2>1. IsLoop(S, MaxId, t, step)
    BY <1>1, <1>2, <1>4 DEF IsLoop
  <2> HIDE DEF step
  <2>2. Runs(S, MaxId, t, step)
    BY <2>1, LoopRuns
  <2> QED
    BY <2>2 DEF Runs
<1>6. ASSUME NEW n \in 1 .. MaxId PROVE step[<<run[n - 1], n>>] = turn(run[n - 1], n)
  <2>1. n - 1 \in 0 .. MaxId
    BY <1>1
  <2>2. run[n - 1] \in S
    BY <1>5, <2>1
  <2> QED
    BY <2>2
<1>7. run = [n \in 0 .. MaxId |-> IF n = 0 THEN t ELSE turn(run[n - 1], n)]
  <2>1. \A n \in 0 .. MaxId : n # 0 => n \in 1 .. MaxId
    BY <1>1
  <2> HIDE DEF step
  <2> QED
    BY <1>5, <1>6, <2>1
<1>8. A = [n \in 0 .. MaxId |-> IF n = 0 THEN t ELSE turn(A[n - 1], n)]
  BY <1>7 DEF AdvertisedAdded, turn
<1> HIDE DEF A
<1>9. A[0] = t /\ \A n \in 1 .. MaxId : A[n] = turn(A[n - 1], n)
  <2>1. 0 \in 0 .. MaxId /\ \A n \in 1 .. MaxId : n \in 0 .. MaxId /\ n # 0
    BY <1>1
  <2> QED
    BY <1>8, <2>1
<1> QED
  BY <1>9 DEF A, turn

\* The vectors of the stored advertisements.
VectorsOf(store) == [n \in DOMAIN store |-> VectorOf(store[n])]

\* The stored advertisements are maps from nodes to vectors.
LEMMA VectorsOfIs ==
    ASSUME NEW store, IsMap(store, Peers, Advertisements)
    PROVE  /\ \A n \in DOMAIN store : Advertisement(store[n]) /\ n \in Nodes /\ n \in 1 .. MaxId
           /\ \A X : IsMap([n \in DOMAIN store \cap X |-> VectorOf(store[n])], Nodes, Vectors)
           /\ IsMap(VectorsOf(store), Nodes, Vectors)
<1>1. ASSUME NEW n \in DOMAIN store
      PROVE  Advertisement(store[n]) /\ n \in Nodes /\ n \in 1 .. MaxId
  <2>1. store[n] \in Advertisements /\ n \in Peers
    BY DEF IsMap
  <2> QED
    BY <2>1, PeersAssumption, AdvertisementsAssumption
       DEF Advertisement, AdvertisedRoutes, Distinct
<1>2. \A n \in DOMAIN store : VectorOf(store[n]) \in Vectors
  BY <1>1, VectorIs
<1> QED
  BY <1>1, <1>2 DEF IsMap, VectorsOf

\* rebuild_routing_table, whatever was in the table before.
LEMMA RebuildIsBacked ==
    ASSUME NEW known \in Seq(Peers), Len(known) <= MaxPeers,
           NEW conn, conn \subseteq Range(known), NEW alive, alive \subseteq conn,
           NEW store, IsMap(store, Peers, Advertisements)
    PROVE  Backed(RebuildVector(known, alive, conn, store), alive, conn, VectorsOf(store))
<1> DEFINE t == AddDirect(<<>>, known, alive)
           A == AdvertisedAdded(t, conn, store)
           X(k) == {m \in conn : m <= k}
           Upto(k) == [m \in DOMAIN store \cap X(k) |-> VectorOf(store[m])]
           Inv == {k \in 0 .. MaxId : Backed(A[k], alive, conn, Upto(k))}
<1>1. /\ MaxId \in Nat /\ Peers \subseteq Nodes /\ Peers \subseteq 1 .. MaxId
      /\ Len(known) <= MaxRoutes /\ known \in Seq(Nodes)
  BY PeersAssumption
<1>2. conn \subseteq Nodes /\ conn \subseteq 1 .. MaxId /\ alive \subseteq Range(known)
  <2>1. Range(known) \subseteq Peers
    BY DEF Range
  <2> QED
    BY <1>1, <2>1
<1>3. \A n \in DOMAIN store : Advertisement(store[n])
  BY VectorsOfIs
<1>4. ASSUME NEW k PROVE Inputs(alive, conn, Upto(k)) /\ DOMAIN Upto(k) = DOMAIN store \cap X(k)
  <2>1. IsMap(Upto(k), Nodes, Vectors)
    BY VectorsOfIs
  <2> QED
    BY <1>2, <2>1 DEF Inputs
<1>5. Backed(t, alive, conn, Upto(0))
  <2>1. DOMAIN Upto(0) = {}
    BY <1>1, <1>2
  <2> HIDE DEF Upto
  <2> QED
    BY <1>1, <1>2, <2>1, DirectIs
<1>6. /\ A[0] = t
      /\ \A n \in 1 .. MaxId :
           A[n] = IF n \in conn \cap DOMAIN store
                  THEN ApplyVector(A[n - 1], n, store[n]) ELSE A[n - 1]
  <2>1. Proper(t)
    BY <1>5 DEF Backed
  <2>2. conn \subseteq Nodes
    BY <1>2
  <2> HIDE DEF t
  <2>3. LET B == AdvertisedAdded(t, conn, store)
        IN  /\ B[0] = t
            /\ \A n \in 1 .. MaxId :
                 B[n] = IF n \in conn \cap DOMAIN store
                        THEN ApplyVector(B[n - 1], n, store[n]) ELSE B[n - 1]
    BY <1>3, <2>1, <2>2, AdvertisedRuns
  <2> QED
    BY <2>3
<1> HIDE DEF A, t
<1>7. 0 \in Inv
  BY <1>1, <1>5, <1>6
<1>8. ASSUME NEW n \in 1 .. MaxId, n - 1 \in Inv PROVE n \in Inv
  <2> DEFINE s == A[n - 1]
             V == Upto(n - 1)
  <2>1. n \in 0 .. MaxId /\ Backed(s, alive, conn, V)
    BY <1>1, <1>8
  <2>2. \A m \in conn : m <= n <=> m <= n - 1 \/ m = n
    BY <1>1, <1>2
  <2>3. CASE n \notin conn \cap DOMAIN store
    <3>1. DOMAIN store \cap X(n) = DOMAIN store \cap X(n - 1)
      BY <2>2, <2>3
    <3> HIDE DEF X
    <3>2. Upto(n) = V
      BY <3>1
    <3>3. A[n] = s
      BY <1>6, <2>3
    <3> HIDE DEF Upto
    <3> QED
      BY <2>1, <3>2, <3>3
  <2>4. CASE n \in conn \cap DOMAIN store
    <3> DEFINE v == VectorOf(store[n])
               f == AsMap(s)
               M == ApplyRoutes(f, n, v)
    <3>1. DOMAIN store \cap X(n) = (DOMAIN store \cap X(n - 1)) \cup {n}
      BY <2>2, <2>4
    <3>2. n \notin X(n - 1)
      BY <1>1
    <3>3. Upto(n) = With(V, n, v)
      <4> HIDE DEF X
      <4> QED
        BY <3>1, <3>2 DEF With
    <3>4. A[n] = ApplyVector(s, n, store[n])
      BY <1>6, <2>4
    <3>5. Inputs(alive, conn, V) /\ n \notin DOMAIN V
      BY <1>4, <3>2
    <3> HIDE DEF Upto, X, V, s
    <3>6. \A d \in DOMAIN f : f[d] \in RouteCandidates(alive, conn, V, d) /\ d \in Nodes
      <4>1. Proper(s) /\ Best(f, alive, conn, V)
        BY <2>1 DEF Backed
      <4> QED
        BY <4>1, AsMapIs DEF Best
    <3>7. ASSUME NEW d \in DOMAIN f, d # n PROVE f[d].next_hop # n
      <4>1. \/ f[d] = [next_hop |-> d, metric |-> 1]
            \/ f[d].next_hop \in conn \cap DOMAIN V
        BY <3>5, <3>6, CandidatesAre
      <4> QED
        BY <3>5, <3>7, <4>1
    <3>8. \A d \in DOMAIN f : d # n /\ f[d].next_hop = n => d \in DOMAIN M /\ M[d] = f[d]
      BY <3>7
    <3>9. Advertisement(store[n]) /\ n \in conn
      BY <1>3, <2>4
    <3>10. Backed(ApplyVector(s, n, store[n]), alive, conn, With(V, n, v))
      BY <2>1, <3>5, <3>8, <3>9, ApplyKeepsBacked
    <3> QED
      BY <2>1, <3>3, <3>4, <3>10 DEF V
  <2> QED
    BY <2>3, <2>4
<1>9. Backed(A[MaxId], alive, conn, Upto(MaxId))
  <2>1. MaxId \in 0 .. MaxId
    BY <1>1
  <2> HIDE DEF Inv
  <2>2. \A k \in 0 .. MaxId : k \in Inv
    BY <1>1, <1>7, <1>8, LoopKeeps
  <2>3. MaxId \in Inv
    BY <2>1, <2>2
  <2> QED
    BY <2>3 DEF Inv
<1>10. \A d : RouteCandidates(alive, conn, Upto(MaxId), d)
                 = RouteCandidates(alive, conn, VectorsOf(store), d)
  <2>1. X(MaxId) = conn
    <3>1. ASSUME NEW m \in conn PROVE m <= MaxId
      <4>1. m \in 1 .. MaxId
        BY <1>2
      <4> QED
        BY <4>1, <1>1
    <3> QED
      BY <3>1
  <2>2. /\ conn \cap DOMAIN Upto(MaxId) = conn \cap DOMAIN VectorsOf(store)
        /\ \A m \in conn \cap DOMAIN store : Upto(MaxId)[m] = VectorsOf(store)[m]
    BY <2>1 DEF VectorsOf
  <2>3. DOMAIN VectorsOf(store) = DOMAIN store
    BY DEF VectorsOf
  <2> HIDE DEF Upto
  <2> QED
    BY <2>2, <2>3 DEF RouteCandidates
<1>11. RebuildVector(known, alive, conn, store) = A[MaxId]
  BY DEF RebuildVector, AddAdvertised, A, t
<1> HIDE DEF Upto
<1> QED
  BY <1>9, <1>10, <1>11 DEF Backed, Best, Complete

-----------------------------------------------------------------------------
TopologyInv ==
    /\ peers \in Seq(Peers) /\ Len(peers) <= MaxPeers
    /\ connected \subseteq Range(peers)
    /\ direct \subseteq connected
    /\ IsMap(stored, Peers, Advertisements)

\* The table is what a rebuild would give, up to what has no room; and it was
\* one when the last advertisement that changed something came.
IInv == TopologyInv /\ Backed(routes, direct, connected, VectorsOf(stored))

LEMMA InitIInv == Init => IInv
<1> SUFFICES ASSUME Init PROVE IInv
  OBVIOUS
<1>1. /\ <<>> \in Seq(Peers) /\ Len(<<>>) = 0 /\ Range(<<>>) = {}
      /\ <<>> \in Seq(Entries) /\ DOMAIN <<>> = {}
  BY DEF Range
<1>2. TopologyInv
  BY <1>1, PeersAssumption DEF Init, TopologyInv, IsMap
<1>3. Proper(<<>>) /\ Dests(<<>>) = {} /\ DOMAIN AsMap(<<>>) = {}
  BY <1>1, PeersAssumption DEF Proper, Distinct, Dests, AsMap
<1>4. \A d, V : RouteCandidates({}, {}, V, d) = {}
  BY DEF RouteCandidates
<1>5. Backed(<<>>, {}, {}, VectorsOf(stored))
  <2>1. Best(AsMap(<<>>), {}, {}, VectorsOf(stored))
    BY <1>3 DEF Best
  <2>2. Complete(<<>>, {}, {}, VectorsOf(stored))
    BY <1>4 DEF Complete
  <2> QED
    BY <1>3, <2>1, <2>2 DEF Backed
<1>6. routes = <<>> /\ direct = {} /\ connected = {}
  BY DEF Init
<1> QED
  BY <1>2, <1>5, <1>6 DEF IInv

\* A step that rebuilds gives the invariant, if the topology is one.
LEMMA RebuiltIInv ==
    ASSUME peers' \in Seq(Peers), Len(peers') <= MaxPeers, connected' \subseteq Range(peers'),
           IsMap(stored', Peers, Advertisements),
           NEW alive, alive \subseteq connected', Rebuilt(alive)
    PROVE  IInv'
<1>1. direct' = alive /\ routes' = RebuildVector(peers', alive, connected', stored')
  BY DEF Rebuilt
<1>2. Backed(routes', direct', connected', VectorsOf(stored'))
  BY <1>1, RebuildIsBacked
<1>3. TopologyInv'
  BY <1>1 DEF TopologyInv
<1>4. Backed(routes, direct, connected, VectorsOf(stored))'
  BY <1>2 DEF Backed, VectorsOf, VectorOf, Proper, Distinct, Dests, Best, Complete, AsMap, RouteCandidates, IndexOf
<1> QED
  BY <1>3, <1>4 DEF IInv

\* An advertisement that changes nothing needs no rebuild.
LEMMA UnchangedIInv ==
    ASSUME IInv, NEW n \in Peers, NEW a \in Advertisements, n \in connected,
           ApplyVector(routes, n, a) = routes
    PROVE  Backed(routes, direct, connected, VectorsOf(With(stored, n, a)))
<1> DEFINE f == AsMap(routes)
           v == VectorOf(a)
           M == ApplyRoutes(f, n, v)
           V == VectorsOf(stored)
<1>1. Inputs(direct, connected, V) /\ n \in Nodes /\ Advertisement(a) /\ IsMap(stored, Peers, Advertisements)
  <2>1. Range(peers) \subseteq Nodes
    BY PeersAssumption DEF IInv, TopologyInv, Range
  <2>2. IsMap(stored, Peers, Advertisements)
    BY DEF IInv, TopologyInv
  <2>3. Advertisement(a)
    BY AdvertisementsAssumption DEF Advertisement, AdvertisedRoutes, Distinct
  <2>4. IsMap(V, Nodes, Vectors)
    BY <2>2, VectorsOfIs
  <2> QED
    BY <2>1, <2>2, <2>3, <2>4, PeersAssumption DEF IInv, TopologyInv, Inputs
<1>2. Backed(routes, direct, connected, V) /\ Proper(routes)
  BY DEF IInv, Backed
<1>3. /\ DOMAIN f \subseteq DOMAIN M
      /\ \A d \in DOMAIN f : f[d] = M[d]
  BY <1>1, <1>2, ApplyVectorIs
<1> HIDE DEF M, V, f
<1>4. \A d \in DOMAIN f : d # n /\ f[d].next_hop = n => d \in DOMAIN M /\ M[d] = f[d]
  BY <1>3
<1>5. Backed(ApplyVector(routes, n, a), direct, connected, With(V, n, v))
  BY <1>1, <1>2, <1>4, ApplyKeepsBacked DEF M, f
<1>6. With(V, n, v) = VectorsOf(With(stored, n, a))
  BY DEF V, VectorsOf, With
<1> QED
  BY <1>5, <1>6

LEMMA NextIInv == IInv /\ [Next]_vars => IInv'
<1> SUFFICES ASSUME IInv, [Next]_vars PROVE IInv'
  OBVIOUS
<1>1. /\ peers \in Seq(Peers) /\ Len(peers) <= MaxPeers
      /\ connected \subseteq Range(peers)
      /\ direct \subseteq connected
      /\ IsMap(stored, Peers, Advertisements)
  BY DEF IInv, TopologyInv
<1>2. /\ \A X : IsMap(Without(stored, X), Peers, Advertisements)
      /\ \A n \in Peers, a \in Advertisements : IsMap(With(stored, n, a), Peers, Advertisements)
  BY <1>1, MapType
<1>3. ASSUME NEW n \in Peers, NeighborUp(n) PROVE IInv'
  <2>1. /\ Enters(n) /\ connected' = connected \cup {n} /\ stored' = stored
    BY <1>3 DEF NeighborUp
  <2>2. PICK alive \in SUBSET connected : Rebuilt(alive \cup {n})
    BY <1>3 DEF NeighborUp
  <2>3. /\ peers' \in Seq(Peers) /\ Len(peers') <= MaxPeers
        /\ Range(peers) \subseteq Range(peers') /\ n \in Range(peers')
    <3>1. CASE n \in Range(peers) /\ UNCHANGED peers
      BY <1>1, <3>1
    <3>2. CASE Len(peers) < MaxPeers /\ peers' = Append(peers, n)
      <4>1. /\ peers' \in Seq(Peers) /\ Len(peers') = Len(peers) + 1
            /\ Len(peers) \in Nat /\ DOMAIN peers = 1 .. Len(peers)
            /\ DOMAIN peers' = 1 .. Len(peers) + 1
            /\ \A i \in 1 .. Len(peers) : peers'[i] = peers[i]
            /\ peers'[Len(peers) + 1] = n
        BY <1>1, <3>2
      <4>2. Len(peers') <= MaxPeers
        BY <3>2, <4>1, PeersAssumption
      <4>3. Range(peers) \subseteq Range(peers') /\ n \in Range(peers')
        BY <4>1 DEF Range
      <4> QED
        BY <4>1, <4>2, <4>3
    <3> QED
      BY <2>1, <3>1, <3>2 DEF Enters
  <2>4. connected' \subseteq Range(peers') /\ alive \cup {n} \subseteq connected'
    BY <1>1, <2>1, <2>3
  <2> QED
    BY <1>1, <2>1, <2>2, <2>3, <2>4, RebuiltIInv
<1>4. ASSUME NEW n \in Peers, NeighborDown(n) PROVE IInv'
  <2>1. /\ connected' = connected \ {n} /\ stored' = Without(stored, {n}) /\ peers' = peers
    BY <1>4 DEF NeighborDown
  <2>2. PICK alive \in SUBSET connected' : Rebuilt(alive)
    BY <1>4 DEF NeighborDown
  <2>3. IsMap(stored', Peers, Advertisements) /\ connected' \subseteq Range(peers')
    BY <1>1, <1>2, <2>1
  <2> QED
    BY <1>1, <2>1, <2>2, <2>3, RebuiltIInv
<1>5. ASSUME NEW n \in Peers, AdvertisementExpires(n) PROVE IInv'
  <2>1. /\ connected' = connected /\ stored' = Without(stored, {n}) /\ peers' = peers
    BY <1>5 DEF AdvertisementExpires
  <2>2. PICK alive \in SUBSET connected : Rebuilt(alive)
    BY <1>5 DEF AdvertisementExpires
  <2>3. IsMap(stored', Peers, Advertisements)
    BY <1>2, <2>1
  <2> QED
    BY <1>1, <2>1, <2>2, <2>3, RebuiltIInv
<1>6. ASSUME NEW n \in Peers, NEW a \in Advertisements, ReceiveAdvertisement(n, a) PROVE IInv'
  <2>1. /\ n \in connected /\ stored' = With(stored, n, a)
        /\ peers' = peers /\ connected' = connected
        /\ IsMap(stored', Peers, Advertisements)
    BY <1>2, <1>6 DEF ReceiveAdvertisement
  <2>2. CASE ApplyVector(routes, n, a) # routes
    <3>1. PICK alive \in SUBSET connected : Rebuilt(alive)
      BY <1>6, <2>2 DEF ReceiveAdvertisement
    <3> QED
      BY <1>1, <2>1, <3>1, RebuiltIInv
  <2>3. CASE ApplyVector(routes, n, a) = routes
    <3>1. routes' = routes /\ direct' = direct
      BY <1>6, <2>3 DEF ReceiveAdvertisement
    <3>2. Backed(routes, direct, connected, VectorsOf(With(stored, n, a)))
      BY <2>1, <2>3, UnchangedIInv
    <3>5. Backed(routes', direct', connected', VectorsOf(stored'))
      BY <2>1, <3>1, <3>2
    <3>3. Backed(routes, direct, connected, VectorsOf(stored))'
      BY <3>5 DEF Backed, VectorsOf, VectorOf, Proper, Distinct, Dests, Best, Complete, AsMap, RouteCandidates, IndexOf
    <3>4. TopologyInv'
      BY <1>1, <2>1, <3>1 DEF TopologyInv
    <3> QED
      BY <3>3, <3>4 DEF IInv
  <2> QED
    BY <2>2, <2>3
<1>7. ASSUME UNCHANGED vars PROVE IInv'
  <2>1. peers' = peers /\ routes' = routes /\ connected' = connected /\ direct' = direct /\ stored' = stored
    BY <1>7 DEF vars
  <2>2. TopologyInv'
    BY <1>1, <2>1 DEF TopologyInv
  <2>4. Backed(routes', direct', connected', VectorsOf(stored'))
    BY <2>1 DEF IInv
  <2>3. Backed(routes, direct, connected, VectorsOf(stored))'
    BY <2>4 DEF Backed, VectorsOf, VectorOf, Proper, Distinct, Dests, Best, Complete, AsMap, RouteCandidates, IndexOf
  <2> QED
    BY <2>2, <2>3 DEF IInv
<1> QED
  BY <1>3, <1>4, <1>5, <1>6, <1>7 DEF Next

\* The invariant holds whatever neighbors come and go and whatever they advertise.
THEOREM VectorInvariant == Spec => []IInv
<1>1. Init => IInv
  BY InitIInv
<1>2. IInv /\ [Next]_vars => IInv'
  BY NextIInv
<1> QED
  BY <1>1, <1>2, PTL DEF Spec

-----------------------------------------------------------------------------
\* Facts the four theorems share.
LEMMA InvFacts ==
    ASSUME IInv
    PROVE  /\ Inputs(direct, connected, VectorsOf(stored))
           /\ StoredVectors = VectorsOf(stored)
           /\ Backed(routes, direct, connected, VectorsOf(stored))
           /\ Proper(routes)
           /\ IsTable(AsMap(routes)) /\ DOMAIN AsMap(routes) = Dests(routes)
           /\ \A d \in Dests(routes) :
                AsMap(routes)[d] \in RouteCandidates(direct, connected, VectorsOf(stored), d)
<1>1. Range(peers) \subseteq Nodes /\ direct \subseteq connected /\ connected \subseteq Range(peers)
      /\ IsMap(stored, Peers, Advertisements)
  BY PeersAssumption DEF IInv, TopologyInv, Range
<1>2. IsMap(VectorsOf(stored), Nodes, Vectors)
  BY <1>1, VectorsOfIs
<1>3. Backed(routes, direct, connected, VectorsOf(stored)) /\ Proper(routes)
      /\ Best(AsMap(routes), direct, connected, VectorsOf(stored))
  BY DEF IInv, Backed
<1>4. IsTable(AsMap(routes)) /\ DOMAIN AsMap(routes) = Dests(routes)
  BY <1>3, AsMapIs
<1> QED
  BY <1>1, <1>2, <1>3, <1>4 DEF Inputs, StoredVectors, VectorsOf, Best

\* The image of a finite set.
LEMMA ImageIsFinite ==
    ASSUME NEW S, IsFiniteSet(S), NEW T, NEW f \in [S -> T]
    PROVE  IsFiniteSet({f[x] : x \in S})
<1> DEFINE U == {f[x] : x \in S}
<1>1. f \in [S -> U]
  OBVIOUS
<1>2. f \in Surjection(S, U)
  BY <1>1 DEF Surjection
<1> HIDE DEF U
<1>3. IsFiniteSet(U)
  BY <1>2, FS_Surjection
<1> QED
  BY <1>3 DEF U

\* The destinations of an advertisement are finitely many.
LEMMA AdvertisedIsFinite ==
    ASSUME NEW a, Advertisement(a)
    PROVE  IsFiniteSet(Dests(a))
<1> DEFINE S == 1 .. Len(a)
           b == [i \in S |-> a[i].destination]
<1>1. Len(a) \in Nat /\ DOMAIN a = S
  BY DEF Advertisement
<1>2. IsFiniteSet(S)
  BY <1>1, FS_Interval
<1>3. b \in [S -> Dests(a)]
  BY <1>1 DEF Dests
<1>4. {b[i] : i \in S} = Dests(a)
  BY <1>1 DEF Dests
<1> HIDE DEF b, S
<1>5. IsFiniteSet({b[i] : i \in S})
  BY <1>2, <1>3, ImageIsFinite
<1> QED
  BY <1>4, <1>5

\* What anyone has, as Fits counts it.
Reachable == direct \cup UNION {DOMAIN StoredVectors[n] : n \in connected \cap DOMAIN stored}

\* It is finite.
LEMMA ReachableIsFinite ==
    ASSUME IInv
    PROVE  IsFiniteSet(Reachable)
<1>1. /\ peers \in Seq(Peers) /\ Len(peers) \in Nat /\ connected \subseteq Range(peers)
      /\ direct \subseteq connected /\ IsMap(stored, Peers, Advertisements)
  BY DEF IInv, TopologyInv
<1>2. IsFiniteSet(Range(peers))
  <2>1. IsFiniteSet(1 .. Len(peers))
    BY <1>1, FS_Interval
  <2>2. peers \in [1 .. Len(peers) -> Peers] /\ DOMAIN peers = 1 .. Len(peers)
    BY <1>1
  <2>3. IsFiniteSet({peers[i] : i \in 1 .. Len(peers)})
    BY <2>1, <2>2, ImageIsFinite
  <2> QED
    BY <2>2, <2>3 DEF Range
<1> DEFINE X == connected \cap DOMAIN stored
           h == [n \in X |-> DOMAIN StoredVectors[n]]
           H == {h[n] : n \in X}
<1>3. IsFiniteSet(X) /\ IsFiniteSet(direct)
  BY <1>1, <1>2, FS_Subset
<1>4. ASSUME NEW n \in X PROVE IsFiniteSet(h[n])
  <2>1. Advertisement(stored[n])
    BY <1>1, VectorsOfIs
  <2>2. h[n] = Dests(stored[n])
    BY <2>1, VectorIs DEF StoredVectors
  <2> QED
    BY <2>1, <2>2, AdvertisedIsFinite
<1>5. h \in [X -> {h[n] : n \in X}]
  OBVIOUS
<1>6. {DOMAIN StoredVectors[n] : n \in connected \cap DOMAIN stored} = H
  OBVIOUS
<1> HIDE DEF X, h
<1>7. IsFiniteSet(H)
  BY <1>3, <1>5, ImageIsFinite
<1>8. \A Y \in H : IsFiniteSet(Y)
  BY <1>4
<1> HIDE DEF H
<1>9. IsFiniteSet(UNION H)
  BY <1>7, <1>8, FS_UNION
<1>10. IsFiniteSet(direct \cup UNION H)
  BY <1>3, <1>9, FS_Union
<1> QED
  BY <1>6, <1>10 DEF Reachable

\* A destination with a candidate is reachable.
LEMMA CandidateIsReachable ==
    ASSUME IInv, NEW d \in Nodes,
           RouteCandidates(direct, connected, VectorsOf(stored), d) # {}
    PROVE  d \in Reachable
<1>1. PICK r \in RouteCandidates(direct, connected, VectorsOf(stored), d) : TRUE
  OBVIOUS
<1>2. \/ d \in direct
      \/ /\ r.next_hop \in connected \cap DOMAIN VectorsOf(stored)
         /\ d \in Usable(r.next_hop, VectorsOf(stored)[r.next_hop])
  BY InvFacts, CandidatesAre
<1>3. DOMAIN VectorsOf(stored) = DOMAIN stored
  BY DEF VectorsOf
<1>4. StoredVectors = VectorsOf(stored)
  BY InvFacts
<1> QED
  BY <1>2, <1>3, <1>4 DEF Reachable, Usable

LEMMA InvRebuild == IInv => VectorIsRebuild
<1> SUFFICES ASSUME IInv, Fits
             PROVE  AsMap(routes) = Rebuild(direct, connected, StoredVectors)
  BY DEF VectorIsRebuild
<1> DEFINE V == VectorsOf(stored)
           R(d) == RouteCandidates(direct, connected, V, d)
           f == AsMap(routes)
<1>1. /\ Inputs(direct, connected, V) /\ StoredVectors = V
      /\ Proper(routes) /\ IsTable(f) /\ DOMAIN f = Dests(routes)
      /\ Best(f, direct, connected, V) /\ Complete(routes, direct, connected, V)
  BY InvFacts DEF Backed
<1>2. Dests(routes) \subseteq Nodes
  BY <1>1, AsMapIs
<1>3. \A d \in Dests(routes) : d \in Reachable
  <2>1. \A d \in Dests(routes) : R(d) # {}
    BY InvFacts
  <2> QED
    BY <1>2, <2>1, CandidateIsReachable
<1>4. ASSUME NEW d \in Nodes, R(d) # {} PROVE d \in Dests(routes)
  <2> SUFFICES ASSUME d \notin Dests(routes) PROVE FALSE
    OBVIOUS
  <2>1. Len(routes) = MaxRoutes
    BY <1>1, <1>4 DEF Complete
  <2>2. IsFiniteSet(Dests(routes)) /\ Cardinality(Dests(routes)) = MaxRoutes
    BY <1>1, <2>1, CountIs
  <2>3. Cardinality(Dests(routes) \cup {d}) = MaxRoutes + 1
    BY <2>2, FS_AddElement
  <2>4. Dests(routes) \cup {d} \subseteq Reachable /\ IsFiniteSet(Reachable)
    BY <1>3, <1>4, CandidateIsReachable, ReachableIsFinite
  <2>5. Cardinality(Dests(routes) \cup {d}) <= Cardinality(Reachable)
    BY <2>4, FS_Subset
  <2>6. Cardinality(Reachable) <= MaxRoutes /\ Cardinality(Reachable) \in Nat
    BY <2>4, FS_CardinalityType DEF Fits, Reachable
  <2> QED
    BY <2>3, <2>5, <2>6, PeersAssumption
<1>5. \A d \in Nodes : d \in DOMAIN f <=> R(d) # {}
  BY <1>1, <1>4, InvFacts
<1>6. \A d \in DOMAIN f : f[d] \in R(d) /\ \A q \in R(d) \ {f[d]} : Preferred(f[d], q)
  BY <1>1 DEF Best
<1>7. Rebuild(direct, connected, V) = f
  <2> HIDE DEF f, V
  <2> QED
    BY <1>1, <1>5, <1>6, RebuildIsUnique
<1> QED
  BY <1>1, <1>7

\* While every destination fits, the vector is what a rebuild from the stored
\* advertisements would compute, also where "if (!changed) continue" spared one.
THEOREM RebuildIsSpared == Spec => []VectorIsRebuild
BY VectorInvariant, InvRebuild, PTL

LEMMA InvLoop == IInv => LoopIsApplyRoutes
<1> SUFFICES ASSUME IInv, NEW n \in connected, NEW a \in Advertisements,
                    Cardinality(DOMAIN AsMap(routes) \cup DOMAIN VectorOf(a)) <= MaxRoutes
             PROVE  AsMap(ApplyVector(routes, n, a)) = ApplyRoutes(AsMap(routes), n, VectorOf(a))
  BY DEF LoopIsApplyRoutes
<1> DEFINE f == AsMap(routes)
           v == VectorOf(a)
           u == ApplyVector(routes, n, a)
           g == AsMap(u)
           M == ApplyRoutes(f, n, v)
<1>1. n \in Nodes /\ Advertisement(a) /\ Proper(routes) /\ DOMAIN f = Dests(routes)
  BY InvFacts, AdvertisementsAssumption DEF Advertisement, AdvertisedRoutes, Distinct, Inputs
<1>2. /\ Proper(u) /\ DOMAIN g \subseteq DOMAIN M
      /\ \A d \in DOMAIN g : g[d] = M[d]
      /\ DOMAIN g # DOMAIN M => Len(u) = MaxRoutes
  BY <1>1, ApplyVectorIs
<1>3. DOMAIN g = Dests(u)
  BY <1>2, AsMapIs
<1>4. DOMAIN M \subseteq DOMAIN f \cup DOMAIN v
  BY DEF ApplyRoutes, Usable
<1>5. IsFiniteSet(DOMAIN f \cup DOMAIN v)
  <2>1. IsFiniteSet(Dests(a))
    BY <1>1, AdvertisedIsFinite
  <2>2. DOMAIN v = Dests(a)
    BY <1>1, VectorIs
  <2>3. IsFiniteSet(Dests(routes))
    BY <1>1, CountIs
  <2> QED
    BY <1>1, <2>1, <2>2, <2>3, FS_Union
<1> HIDE DEF f, v, u, g, M
<1>6. DOMAIN g = DOMAIN M
  <2> SUFFICES ASSUME DOMAIN g # DOMAIN M PROVE FALSE
    OBVIOUS
  <2>1. Cardinality(DOMAIN g) = MaxRoutes
    BY <1>2, <1>3, CountIs
  <2>2. IsFiniteSet(DOMAIN M) /\ Cardinality(DOMAIN M) <= Cardinality(DOMAIN f \cup DOMAIN v)
    BY <1>4, <1>5, FS_Subset
  <2>3. /\ Cardinality(DOMAIN g) <= Cardinality(DOMAIN M)
        /\ Cardinality(DOMAIN g) = Cardinality(DOMAIN M) => DOMAIN g = DOMAIN M
    BY <1>2, <2>2, FS_Subset
  <2>4. /\ Cardinality(DOMAIN M) \in Nat /\ Cardinality(DOMAIN f \cup DOMAIN v) \in Nat
        /\ Cardinality(DOMAIN f \cup DOMAIN v) <= MaxRoutes
    BY <1>5, <2>2, FS_CardinalityType DEF f, v
  <2> QED
    BY <2>1, <2>2, <2>3, <2>4, PeersAssumption
<1>7. g = [d \in DOMAIN g |-> g[d]]
  BY DEF g, AsMap
<1>8. M = [d \in DOMAIN M |-> M[d]]
  BY DEF M, ApplyRoutes
<1>9. g = M
  BY <1>2, <1>6, <1>7, <1>8
<1> QED
  BY <1>9 DEF g, M, u, f, v

\* The loop of apply_routes is ApplyRoutes for every advertisement that fits,
\* in any order of its routes.
THEOREM LoopComputesApplyRoutes == Spec => []LoopIsApplyRoutes
BY VectorInvariant, InvLoop, PTL

LEMMA InvDirect == IInv => DirectRoutesKept
<1> DEFINE i(n) == IndexOf(routes, n)
           h(n) == routes[i(n)].next_hop
<1> SUFFICES ASSUME IInv, NEW n \in direct
             PROVE  /\ i(n) # 0
                    /\ routes[i(n)] = Entry(n, h(n), LinkCost)
                    /\ h(n) # n => h(n) < n /\ ClaimsToBe(h(n), n)
  BY DEF DirectRoutesKept
<1> DEFINE V == VectorsOf(stored)
           f == AsMap(routes)
           R == RouteCandidates(direct, connected, V, n)
<1>1. /\ Inputs(direct, connected, V) /\ n \in Nodes /\ n \in Dests(routes)
      /\ Best(f, direct, connected, V) /\ DOMAIN f = Dests(routes) /\ Proper(routes)
  BY InvFacts DEF Backed, Inputs
<1>2. i(n) \in DOMAIN routes /\ routes[i(n)].destination = n /\ i(n) # 0 /\ routes[i(n)] \in Entries
  <2>1. DOMAIN routes \subseteq Nat \ {0} /\ Distinct(routes) /\ routes \in Seq(Entries)
    BY <1>1 DEF Proper
  <2>2. i(n) \in DOMAIN routes /\ routes[i(n)].destination = n
    BY <1>1, <2>1, IndexIs
  <2> QED
    BY <2>1, <2>2
<1>3. f[n] = RouteOf(routes[i(n)])
  BY <1>1, <1>2, AsMapIs
<1>4. f[n] \in R /\ \A q \in R \ {f[n]} : Preferred(f[n], q)
  BY <1>1 DEF Best
<1>5. [next_hop |-> n, metric |-> 1] \in R
  BY DEF RouteCandidates, LinkCost
<1>6. /\ f[n].metric = 1
      /\ f[n].next_hop # n => f[n].next_hop < n /\ ClaimsToBe(f[n].next_hop, n)
  <2>1. CASE f[n] = [next_hop |-> n, metric |-> 1]
    BY <2>1
  <2>2. CASE f[n] # [next_hop |-> n, metric |-> 1]
    <3> DEFINE m == f[n].next_hop
    <3>1. Preferred(f[n], [next_hop |-> n, metric |-> 1])
      BY <1>4, <1>5, <2>2
    <3>2. m \in connected \cap DOMAIN V /\ n \in Usable(m, V[m]) /\ f[n] = Candidate(m, V[m], n)
      BY <1>1, <1>4, <2>2, CandidatesAre
    <3>3. m \in Nodes /\ V[m] \in Vectors
      BY <1>1, <3>2 DEF Inputs, IsMap
    <3>4. f[n].metric = V[m][n] + 1 /\ f[n].metric \in 1 .. (Infinity - 1)
      BY <3>2, <3>3, CandidateType
    <3>5. n \in DOMAIN V[m] /\ V[m][n] \in 0 .. Infinity
      BY <3>2, <3>3, VectorType DEF Usable
    <3> HIDE DEF f, V
    <3>6. f[n].metric < 1 \/ (f[n].metric = 1 /\ m < n)
      BY <3>1 DEF Preferred
    <3>7. f[n].metric = 1 /\ m < n /\ V[m][n] = 0
      BY <3>4, <3>5, <3>6, InfinityAssumption
    <3>8. m \in DOMAIN stored /\ V[m] = VectorOf(stored[m])
      BY <3>2 DEF V, VectorsOf
    <3>9. Advertisement(stored[m])
      BY <3>8, AdvertisementsAssumption
         DEF IInv, TopologyInv, IsMap, Advertisement, AdvertisedRoutes, Distinct
    <3>10. PICK k \in DOMAIN stored[m] : stored[m][k].destination = n
      <4>1. DOMAIN VectorOf(stored[m]) = Dests(stored[m])
        BY <3>9, VectorIs
      <4>2. n \in Dests(stored[m])
        BY <3>5, <3>8, <4>1
      <4> QED
        BY <4>2 DEF Dests
    <3>11. stored[m][k].metric = 0 /\ stored[m][k] \in AdvertisedRoutes
      BY <3>7, <3>8, <3>9, <3>10, VectorIs DEF Advertisement
    <3>12. stored[m][k] = [destination |-> n, metric |-> 0]
      BY <3>10, <3>11 DEF AdvertisedRoutes
    <3> QED
      BY <3>2, <3>7, <3>8, <3>12 DEF ClaimsToBe
  <2> QED
    BY <2>1, <2>2
<1> HIDE DEF i, f
<1>7. h(n) = f[n].next_hop /\ routes[i(n)].metric = 1
  BY <1>3, <1>6 DEF RouteOf
<1>8. routes[i(n)] = Entry(n, h(n), LinkCost)
  BY <1>2, <1>7 DEF Entries, Entry, LinkCost
<1> QED
  BY <1>2, <1>6, <1>7, <1>8

\* However full the table, a direct neighbor keeps its place and its metric, and
\* its own route unless a lower neighbor claims the distance 0 to it.
THEOREM DirectRoutesStay == Spec => []DirectRoutesKept
BY VectorInvariant, InvDirect, PTL

LEMMA InvBacked == IInv => EveryRouteBacked
<1> SUFFICES ASSUME IInv PROVE EveryRouteBacked
  OBVIOUS
<1>1. Proper(routes) /\ StoredVectors = VectorsOf(stored)
  BY InvFacts
<1>2. ASSUME NEW i \in DOMAIN routes
      PROVE  RouteOf(routes[i])
                \in RouteCandidates(direct, connected, StoredVectors, routes[i].destination)
  <2>1. routes[i].destination \in Dests(routes)
    BY DEF Dests
  <2>2. AsMap(routes)[routes[i].destination] = RouteOf(routes[i])
    BY <1>1, AsMapIs
  <2>3. AsMap(routes)[routes[i].destination]
           \in RouteCandidates(direct, connected, VectorsOf(stored), routes[i].destination)
    BY <2>1, InvFacts
  <2> QED
    BY <1>1, <2>2, <2>3
<1> QED
  BY <1>1, <1>2 DEF EveryRouteBacked, Proper, Distinct, RouteOf

\* Nothing in the table outlives the information it came from, even when it is full.
THEOREM RoutesAreBacked == Spec => []EveryRouteBacked
BY VectorInvariant, InvBacked, PTL
=============================================================================
