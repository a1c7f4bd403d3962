------------------------- MODULE RoutingTableProofs -------------------------
(***************************************************************************)
(* Facts about the operators of RoutingTable, for every set of nodes and   *)
(* every metric bound.                                                     *)
(***************************************************************************)
EXTENDS RoutingTable, WellFoundedInduction, TLAPS

\* A non-empty set of natural numbers has a least element.
LEMMA NatHasMin ==
    ASSUME NEW S, S \subseteq Nat, S # {}
    PROVE  \E m \in S : \A k \in S : m <= k
<1> DEFINE R == OpToRel(<, Nat)
<1>1. IsWellFoundedOn(R, Nat)
  BY NatLessThanWellFounded
<1>2. PICK m \in S : \A k \in S : ~(<<k, m>> \in R)
  <2> HIDE DEF R
  <2> QED BY <1>1, WFMin
<1>3. \A k \in S : ~(k < m)
  BY <1>2 DEF OpToRel
<1> QED
  BY <1>3

\* A candidate route as it occurs in RouteCandidates.
RouteSet(R) == R \subseteq [next_hop : Nodes, metric : Nat]

\* Of a non-empty set of routes exactly one is preferred to all others, so the
\* choice in MostPreferred is well defined.
LEMMA MostPreferredIs ==
    ASSUME NEW R, RouteSet(R), R # {}
    PROVE  /\ MostPreferred(R) \in R
           /\ \A q \in R \ {MostPreferred(R)} : Preferred(MostPreferred(R), q)
<1> USE NodesAssumption DEF RouteSet
<1> DEFINE M == {r.metric : r \in R}
<1>1. PICK m \in M : \A k \in M : m <= k
  <2>1. M \subseteq Nat /\ M # {}
    OBVIOUS
  <2> HIDE DEF M
  <2> QED BY <2>1, NatHasMin
<1> DEFINE H == {r.next_hop : r \in {q \in R : q.metric = m}}
<1>2. PICK h \in H : \A k \in H : h <= k
  <2>1. H \subseteq Nat /\ H # {}
    OBVIOUS
  <2> HIDE DEF H
  <2> QED BY <2>1, NatHasMin
<1>3. PICK r \in R : r.metric = m /\ r.next_hop = h
  OBVIOUS
<1>4. \A q \in R \ {r} : Preferred(r, q)
  <2> SUFFICES ASSUME NEW q \in R, q # r PROVE Preferred(r, q)
    OBVIOUS
  <2>1. m <= q.metric
    BY <1>1
  <2>2. q.metric = m => h <= q.next_hop
    BY <1>2
  <2>3. q.metric # r.metric \/ q.next_hop # r.next_hop
    OBVIOUS
  <2>4. q.metric \in Nat /\ r.metric \in Nat /\ q.next_hop \in Nat /\ r.next_hop \in Nat
    OBVIOUS
  <2> QED
    BY <1>3, <2>1, <2>2, <2>3, <2>4 DEF Preferred
<1> QED
  BY <1>4 DEF MostPreferred

\* Two routes that differ are ordered, one way only.
LEMMA PreferredIsTotal ==
    ASSUME NEW r \in [next_hop : Nodes, metric : Nat],
           NEW q \in [next_hop : Nodes, metric : Nat]
    PROVE  /\ r # q => Preferred(r, q) \/ Preferred(q, r)
           /\ ~(Preferred(r, q) /\ Preferred(q, r))
<1>1. r # q => r.metric # q.metric \/ r.next_hop # q.next_hop
  OBVIOUS
<1>2. r.metric \in Nat /\ q.metric \in Nat /\ r.next_hop \in Nat /\ q.next_hop \in Nat
  BY NodesAssumption
<1> QED
  BY <1>1, <1>2 DEF Preferred

-----------------------------------------------------------------------------
\* Taking entries out of a map, or replacing one, gives a map.
LEMMA MapType ==
    ASSUME NEW S, NEW T, NEW f, IsMap(f, S, T)
    PROVE  /\ \A X : IsMap(Without(f, X), S, T)
           /\ \A x \in S, v \in T : IsMap(With(f, x, v), S, T)
  BY DEF IsMap, Without, With

\* What is known of a node's topology and advertisements.
Inputs(direct, connected, stored) ==
    /\ direct \subseteq connected
    /\ connected \subseteq Nodes
    /\ IsMap(stored, Nodes, Vectors)

\* An advertised vector gives metrics up to Infinity to some nodes.
LEMMA VectorType ==
    ASSUME NEW v \in Vectors
    PROVE  DOMAIN v \subseteq Nodes /\ \A d \in DOMAIN v : v[d] \in 0 .. Infinity
  BY DEF Vectors

\* The candidate a usable advertised route gives has a finite metric of at least 1.
LEMMA CandidateType ==
    ASSUME NEW n \in Nodes, NEW v \in Vectors, NEW d \in Usable(n, v)
    PROVE  /\ d \in Nodes /\ d # n
           /\ Candidate(n, v, d) \in [next_hop : Nodes, metric : Nat]
           /\ Candidate(n, v, d).next_hop = n
           /\ Candidate(n, v, d).metric = v[d] + 1
           /\ Candidate(n, v, d).metric \in 1 .. (Infinity - 1)
  BY VectorType, InfinityAssumption DEF Usable, Candidate, CandidateMetric, LinkCost

\* A candidate for d is the direct route or comes from one connected neighbor.
LEMMA CandidatesAre ==
    ASSUME NEW direct, NEW connected, NEW stored, Inputs(direct, connected, stored),
           NEW d \in Nodes, NEW r \in RouteCandidates(direct, connected, stored, d)
    PROVE  \/ d \in direct /\ r = [next_hop |-> d, metric |-> 1]
           \/ /\ r.next_hop \in connected \cap DOMAIN stored
              /\ d \in Usable(r.next_hop, stored[r.next_hop])
              /\ r = Candidate(r.next_hop, stored[r.next_hop], d)
  BY DEF RouteCandidates, Candidate, LinkCost

\* Candidates are routes with a finite metric.
LEMMA CandidatesType ==
    ASSUME NEW direct, NEW connected, NEW stored, Inputs(direct, connected, stored),
           NEW d \in Nodes
    PROVE  /\ RouteSet(RouteCandidates(direct, connected, stored, d))
           /\ \A r \in RouteCandidates(direct, connected, stored, d) :
                r \in Routes /\ r.metric < Infinity /\ r.next_hop \in connected
<1> SUFFICES ASSUME NEW r \in RouteCandidates(direct, connected, stored, d)
             PROVE  /\ r \in [next_hop : Nodes, metric : Nat]
                    /\ r \in Routes /\ r.metric < Infinity /\ r.next_hop \in connected
  BY DEF RouteSet
<1>1. CASE d \in direct /\ r = [next_hop |-> d, metric |-> 1]
  BY <1>1, InfinityAssumption DEF Inputs, Routes
<1>2. ASSUME NEW n \in connected \cap DOMAIN stored, d \in Usable(n, stored[n]),
             r = Candidate(n, stored[n], d)
      PROVE  /\ r \in [next_hop : Nodes, metric : Nat]
             /\ r \in Routes /\ r.metric < Infinity /\ r.next_hop \in connected
  <2>1. n \in Nodes /\ stored[n] \in Vectors
    BY DEF Inputs, IsMap
  <2>2. /\ r \in [next_hop : Nodes, metric : Nat]
        /\ r.next_hop = n
        /\ r.metric \in 1 .. (Infinity - 1)
    BY <1>2, <2>1, CandidateType
  <2> QED
    BY <2>2, InfinityAssumption DEF Routes
<1> QED
  BY <1>1, <1>2, CandidatesAre

\* What rebuild_routing_table computes.
LEMMA RebuildIs ==
    ASSUME NEW direct, NEW connected, NEW stored, Inputs(direct, connected, stored)
    PROVE  LET T == Rebuild(direct, connected, stored)
               R(d) == RouteCandidates(direct, connected, stored, d)
           IN  /\ DOMAIN T = {d \in Nodes : R(d) # {}}
               /\ \A d \in DOMAIN T :
                    T[d] \in R(d) /\ \A q \in R(d) \ {T[d]} : Preferred(T[d], q)
<1> DEFINE T == Rebuild(direct, connected, stored)
           R(d) == RouteCandidates(direct, connected, stored, d)
<1>1. DOMAIN T = {d \in Nodes : R(d) # {}}
  BY DEF Rebuild
<1>2. ASSUME NEW d \in DOMAIN T
      PROVE  T[d] \in R(d) /\ \A q \in R(d) \ {T[d]} : Preferred(T[d], q)
  <2>1. T[d] = MostPreferred(R(d))
    BY DEF Rebuild
  <2>2. d \in Nodes /\ R(d) # {}
    BY <1>1
  <2>3. RouteSet(R(d))
    BY <2>2, CandidatesType
  <2> HIDE DEF R, T
  <2> QED
    BY <2>1, <2>2, <2>3, MostPreferredIs
<1> QED
  BY <1>1, <1>2

\* A table rebuilt from well-typed inputs is a table, of finite routes that lead
\* to connected neighbors.
LEMMA RebuildType ==
    ASSUME NEW direct, NEW connected, NEW stored, Inputs(direct, connected, stored)
    PROVE  LET T == Rebuild(direct, connected, stored)
           IN  /\ IsTable(T)
               /\ \A d \in DOMAIN T : T[d].metric < Infinity /\ T[d].next_hop \in connected
<1> DEFINE T == Rebuild(direct, connected, stored)
<1>1. \A d \in DOMAIN T : d \in Nodes /\ T[d] \in RouteCandidates(direct, connected, stored, d)
  BY RebuildIs
<1>2. \A d \in DOMAIN T :
        T[d] \in Routes /\ T[d].metric < Infinity /\ T[d].next_hop \in connected
  BY <1>1, CandidatesType
<1>3. T = [d \in DOMAIN T |-> T[d]]
  BY DEF Rebuild
<1> QED
  BY <1>1, <1>2, <1>3 DEF IsTable, IsMap

\* A table with the properties of RebuildIs is the rebuilt table.
LEMMA RebuildIsUnique ==
    ASSUME NEW direct, NEW connected, NEW stored, Inputs(direct, connected, stored),
           NEW t, IsTable(t),
           \A d \in Nodes : d \in DOMAIN t <=> RouteCandidates(direct, connected, stored, d) # {},
           \A d \in DOMAIN t :
             /\ t[d] \in RouteCandidates(direct, connected, stored, d)
             /\ \A q \in RouteCandidates(direct, connected, stored, d) \ {t[d]} :
                    Preferred(t[d], q)
    PROVE  Rebuild(direct, connected, stored) = t
<1> DEFINE T == Rebuild(direct, connected, stored)
           R(d) == RouteCandidates(direct, connected, stored, d)
<1>1. DOMAIN T = {d \in Nodes : R(d) # {}} /\ DOMAIN t = DOMAIN T
  BY RebuildIs DEF IsTable, IsMap
<1>2. ASSUME NEW d \in DOMAIN T PROVE T[d] = t[d]
  <2>1. d \in Nodes /\ T[d] \in R(d) /\ \A q \in R(d) \ {T[d]} : Preferred(T[d], q)
    BY RebuildIs, <1>1
  <2>2. t[d] \in R(d) /\ \A q \in R(d) \ {t[d]} : Preferred(t[d], q)
    BY <1>1
  <2>3. RouteSet(R(d))
    BY <2>1, CandidatesType
  <2> HIDE DEF R, T
  <2>4. SUFFICES ASSUME T[d] # t[d] PROVE FALSE
    OBVIOUS
  <2>5. Preferred(T[d], t[d]) /\ Preferred(t[d], T[d])
    BY <2>1, <2>2, <2>4
  <2> QED
    BY <2>1, <2>2, <2>3, <2>5, PreferredIsTotal DEF RouteSet
<1>3. T = [d \in DOMAIN T |-> T[d]]
  BY DEF Rebuild
<1>4. t = [d \in DOMAIN t |-> t[d]]
  BY DEF IsTable, IsMap
<1>5. T = t
  <2> HIDE DEF T
  <2> QED BY <1>1, <1>2, <1>3, <1>4
<1> QED
  BY <1>5

-----------------------------------------------------------------------------
\* Storing n's new vector changes nothing but n's own candidate.
LEMMA CandidatesAfterStore ==
    ASSUME NEW direct, NEW connected, NEW stored, Inputs(direct, connected, stored),
           NEW n \in connected, NEW v \in Vectors, NEW d \in Nodes
    PROVE  LET Old == RouteCandidates(direct, connected, stored, d)
               New == RouteCandidates(direct, connected, With(stored, n, v), d)
           IN  /\ \A r \in Old : r.next_hop # n \/ d = n => r \in New
               /\ d \in Usable(n, v) => Candidate(n, v, d) \in New
               /\ \A r \in New : r \in Old \/ (d \in Usable(n, v) /\ r = Candidate(n, v, d))
<1> DEFINE W == With(stored, n, v)
           Old == RouteCandidates(direct, connected, stored, d)
           New == RouteCandidates(direct, connected, W, d)
<1>1. DOMAIN W = DOMAIN stored \cup {n} /\ W[n] = v
  BY DEF With
<1>2. \A m \in DOMAIN stored \ {n} : W[m] = stored[m]
  BY DEF With
<1> HIDE DEF W
<1>3. ASSUME NEW r \in Old, r.next_hop # n \/ d = n PROVE r \in New
  <2>1. CASE d \in direct /\ r = [next_hop |-> d, metric |-> 1]
    BY <2>1 DEF RouteCandidates, LinkCost
  <2>2. CASE /\ r.next_hop \in connected \cap DOMAIN stored
             /\ d \in Usable(r.next_hop, stored[r.next_hop])
             /\ r = Candidate(r.next_hop, stored[r.next_hop], d)
    <3>1. r.next_hop # n
      BY <1>3, <2>2 DEF Usable
    <3> QED
      BY <1>1, <1>2, <2>2, <3>1 DEF RouteCandidates
  <2> QED
    BY <2>1, <2>2, CandidatesAre
<1>4. d \in Usable(n, v) => Candidate(n, v, d) \in New
  BY <1>1 DEF RouteCandidates
<1>5. ASSUME NEW r \in New
      PROVE  r \in Old \/ (d \in Usable(n, v) /\ r = Candidate(n, v, d))
  BY <1>1, <1>2 DEF RouteCandidates
<1> QED
  BY <1>3, <1>4, <1>5 DEF W

\* An advertisement that changes nothing when it is applied would change nothing
\* in a rebuild either: the ROUTE_ADVERTISEMENT handler may skip the rebuild when
\* distance_vector_update reports no change.
THEOREM UnchangedNeedsNoRebuild ==
    ASSUME NEW direct, NEW connected, NEW stored, Inputs(direct, connected, stored),
           NEW n \in connected, NEW v \in Vectors,
           ApplyRoutes(Rebuild(direct, connected, stored), n, v)
                = Rebuild(direct, connected, stored)
    PROVE  Rebuild(direct, connected, With(stored, n, v)) = Rebuild(direct, connected, stored)
<1> DEFINE T == Rebuild(direct, connected, stored)
           W == With(stored, n, v)
           Old(d) == RouteCandidates(direct, connected, stored, d)
           New(d) == RouteCandidates(direct, connected, W, d)
<1>1. Inputs(direct, connected, W)
  BY DEF Inputs, IsMap, With
<1>2. n \in Nodes
  BY DEF Inputs
<1>3. /\ DOMAIN T = {d \in Nodes : Old(d) # {}}
      /\ \A d \in DOMAIN T : T[d] \in Old(d) /\ \A q \in Old(d) \ {T[d]} : Preferred(T[d], q)
  BY RebuildIs
<1>4. IsTable(T) /\ \A d \in DOMAIN T : T[d].metric < Infinity
  BY RebuildType
<1>5. ApplyRoutes(T, n, v) = T
  OBVIOUS
<1> HIDE DEF T
<1>6. Usable(n, v) \subseteq DOMAIN T
  BY <1>5 DEF ApplyRoutes
<1>7. \A d \in Usable(n, v) : Replaces(T, n, v, d) => T[d] = Candidate(n, v, d)
  BY <1>5, <1>6 DEF ApplyRoutes
<1>8. ASSUME NEW d \in DOMAIN T, d # n, T[d].next_hop = n PROVE d \in Usable(n, v)
  <2>1. d \in DOMAIN v
    BY <1>5, <1>8 DEF ApplyRoutes, Withdrawn, Usable
  <2>2. SUFFICES ASSUME d \notin Usable(n, v) PROVE FALSE
    OBVIOUS
  <2>3. CandidateMetric(v[d]) = Infinity
    BY <1>8, <2>1, <2>2, VectorType, InfinityAssumption DEF Usable, CandidateMetric, LinkCost
  <2>4. d \in Poisoned(T, n, v)
    BY <1>8, <2>1, <2>3 DEF Poisoned
  <2>5. T[d] = [T[d] EXCEPT !.metric = Infinity]
    BY <1>5, <2>2, <2>4 DEF ApplyRoutes
  <2>6. T[d].metric = Infinity
    BY <1>4, <2>5 DEF IsTable, IsMap, Routes
  <2> QED
    BY <1>4, <2>6, InfinityAssumption
<1>9. ASSUME NEW d \in DOMAIN T PROVE T[d] \in New(d)
  <2>1. d \in Nodes /\ T[d] \in Old(d)
    BY <1>3
  <2>2. CASE T[d].next_hop # n \/ d = n
    BY <2>1, <2>2, CandidatesAfterStore
  <2>3. CASE T[d].next_hop = n /\ d # n
    <3>1. d \in Usable(n, v)
      BY <1>8, <2>3
    <3>2. T[d] = Candidate(n, v, d)
      BY <1>7, <2>3, <3>1 DEF Replaces
    <3> QED
      BY <2>1, <3>1, <3>2, CandidatesAfterStore
  <2> QED
    BY <2>2, <2>3
<1>10. ASSUME NEW d \in DOMAIN T, NEW q \in New(d), q # T[d] PROVE Preferred(T[d], q)
  <2>1. d \in Nodes
    BY <1>3
  <2>2. CASE q \in Old(d)
    BY <1>3, <1>10, <2>2
  <2>3. CASE d \in Usable(n, v) /\ q = Candidate(n, v, d)
    <3>1. ~Replaces(T, n, v, d)
      BY <1>7, <1>10, <2>3
    <3>2. ~Preferred(q, T[d])
      BY <2>3, <3>1 DEF Replaces
    <3>3. q \in [next_hop : Nodes, metric : Nat]
      BY <1>2, <2>3, CandidateType
    <3>4. T[d] \in [next_hop : Nodes, metric : Nat]
      BY <1>4, InfinityAssumption DEF IsTable, IsMap, Routes
    <3> QED
      BY <1>10, <3>2, <3>3, <3>4, PreferredIsTotal
  <2> QED
    BY <2>1, <2>2, <2>3, CandidatesAfterStore
<1>11. ASSUME NEW d \in Nodes PROVE d \in DOMAIN T <=> New(d) # {}
  <2>1. New(d) # {} => Old(d) # {} \/ d \in Usable(n, v)
    BY CandidatesAfterStore
  <2> QED
    BY <1>3, <1>6, <1>9, <2>1
<1>12. Rebuild(direct, connected, W) = T
  <2> HIDE DEF W
  <2> QED BY <1>1, <1>4, <1>9, <1>10, <1>11, RebuildIsUnique
<1> QED
  BY <1>12 DEF T
=============================================================================
