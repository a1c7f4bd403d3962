--------------------------- MODULE JoiningProofs ----------------------------
(***************************************************************************)
(* Proofs about Kademlia and Joining, for ids of any length, any limit of  *)
(* the buckets, any two nodes and any number of contacts, connections,     *)
(* faults and messages.                                                    *)
(***************************************************************************)
EXTENDS Joining, FiniteSetTheorems, SequenceTheorems, TLAPS

\* The joining node is still on its own: nothing but run_join touches its state.
Alone == phase # "active"

\* An answer the joining node can store whole next to the inviter: at most K
\* contacts, and the node itself is one of them or they share more bits with it
\* than the inviter does.
Storable(peers) ==
    /\ peers \subseteq Ids \ {id["inviter"]}
    /\ Cardinality(peers) <= K
    /\ \/ id["joiner"] \in peers
       \/ \A c \in peers : BucketIndex(id["joiner"], c)
                             > BucketIndex(id["joiner"], id["inviter"])

\* Who sends an acceptance trusts, and the inviter's can be stored.
Acceptances == {m \in Messages : m.accepted => trusts["inviter"] /\ Storable(m.peers)}

MailInv == \A e \in Ends : e[1] = "joiner" => inbox[e] \in Seq(Acceptances)

\* What a worker at "reply" has to answer, and to whom it has decided to.
ReplyInv ==
    \A e \in Ends : at[e] = "reply" =>
        /\ handling[e] \in {"JOIN_REQUEST", "FIND_NODE", "NODE_ANNOUNCE"}
        /\ handling[e] = "JOIN_REQUEST" => trusts[e[1]]

\* Until it is active the joining node has no workers, and run_join has a
\* connection while it talks to the inviter.
AloneInv ==
    /\ Alone => \A e \in Ends : e[1] = "joiner" => at[e] = "none"
    /\ phase \notin {"connect", "failed", "active"} => on["joiner"] \in Conns

\* What the node knows: nothing at first; what it was told, until it has asked.
KnownInv ==
    /\ phase \in {"connect", "response"} => table["joiner"] = {} /\ told = {}
    /\ told \subseteq table["joiner"]
    /\ phase \notin {"connect", "response", "failed"} =>
          /\ \A n \in Nodes : trusts[n]
          /\ id["inviter"] \in told

\* The lookup, which looks at the K nearest contacts, must ask the inviter.
ToAskInviter == id["inviter"] \in FindClosest(told, id["joiner"], K)

\* Until it does, it has asked a full round of contacts each time.
LookupInv ==
    /\ phase \in {"connect", "response"} => queried = {} /\ round = 0
    /\ phase = "lookup" /\ id["inviter"] \notin queried =>
          /\ table["joiner"] = told
          /\ ToAskInviter =>
                /\ queried \subseteq FindClosest(told, id["joiner"], K)
                /\ Cardinality(queried) >= Alpha * round
    /\ phase = "neighbors" => id["inviter"] \in queried
    /\ phase \in {"announce", "ack", "start", "active"} /\ ToAskInviter =>
          id["inviter"] \in queried

IInv ==
    /\ TypeOK /\ MailInv /\ ReplyInv /\ AloneInv /\ KnownInv /\ LookupInv

-----------------------------------------------------------------------------
(***************************************************************************)
(* Ids, distances and buckets                                              *)
(***************************************************************************)

\* A set of natural numbers that is not empty has a least element.
LEMMA NatHasMin ==
    ASSUME NEW S, S \subseteq Nat, S # {}
    PROVE  \E m \in S : \A k \in S : m <= k
<1> DEFINE R == OpToRel(<, Nat)
<1>1. IsWellFoundedOn(R, Nat)
  BY NatLessThanWellFounded
<1>2. PICK m \in S : \A k \in S : ~(<<k, m>> \in R)
  <2> HIDE DEF R
  <2> QED BY <1>1, WFMin
<1>3. \A k \in S : ~(k < m)
  BY <1>2 DEF OpToRel
<1> QED
  BY <1>3

\* The first bit of a set of bits.
LEMMA FirstOf ==
    ASSUME NEW S, S \subseteq Nat, S # {}
    PROVE  First(S) \in S /\ \A j \in S : First(S) <= j
  BY NatHasMin DEF First

\* It is the only one.
LEMMA FirstIs ==
    ASSUME NEW S, S \subseteq Nat, NEW m \in S, \A j \in S : m <= j
    PROVE  First(S) = m
<1>1. First(S) \in S /\ First(S) <= m
  BY FirstOf
<1>2. m <= First(S) /\ m \in Nat /\ First(S) \in Nat
  BY <1>1
<1> QED
  BY <1>1, <1>2

\* Ids and distances are sets of bits.
LEMMA BitsAre ==
    /\ Bits \subseteq Nat
    /\ Ids \subseteq SUBSET Nat
    /\ \A a, b \in SUBSET Nat : Distance(a, b) \in SUBSET Nat
    /\ IsFiniteSet(Ids)
<1>1. Bits \subseteq Nat /\ IsFiniteSet(Bits)
  BY KademliaAssumption, FS_Interval DEF Bits
<1>2. IsFiniteSet(SUBSET Bits)
  BY <1>1, FS_SUBSET
<1>3. IsFiniteSet(Ids)
  BY <1>2, FS_Subset DEF Ids
<1> QED
  BY <1>1, <1>3 DEF Ids, Distance

\* One id or distance is below another when it lacks a bit of the other and they
\* have the same bits before it.
LEMMA BelowIs ==
    ASSUME NEW a \in SUBSET Nat, NEW b \in SUBSET Nat
    PROVE  Below(a, b) <=> \E i \in b \ a : \A j \in Nat : j < i => (j \in a <=> j \in b)
<1> DEFINE D == Distance(a, b)
<1>1. D \subseteq Nat /\ (D = {} <=> a = b) /\ \A j : j \in D <=> ~(j \in a <=> j \in b)
  BY DEF Distance
<1>2. ASSUME Below(a, b)
      PROVE  \E i \in b \ a : \A j \in Nat : j < i => (j \in a <=> j \in b)
  <2>1. a # b /\ First(D) \in b
    BY <1>2 DEF Below
  <2>2. First(D) \in D /\ \A j \in D : First(D) <= j
    <3> HIDE DEF D
    <3> QED BY <1>1, <2>1, FirstOf
  <2>3. First(D) \in b \ a /\ First(D) \in Nat
    BY <1>1, <2>1, <2>2
  <2>4. ASSUME NEW j \in Nat, j < First(D) PROVE j \in a <=> j \in b
    <3>1. j \notin D
      BY <2>2, <2>3, <2>4
    <3> QED BY <3>1, <1>1
  <2> QED BY <2>3, <2>4
<1>3. ASSUME NEW i \in b \ a, \A j \in Nat : j < i => (j \in a <=> j \in b)
      PROVE  Below(a, b)
  <2>1. i \in D
    BY <1>1
  <2>2. \A j \in D : i <= j
    <3>1. SUFFICES ASSUME NEW j \in D PROVE ~(j < i)
      BY <1>1, <2>1
    <3> QED BY <1>1, <1>3
  <2>3. First(D) = i
    <3> HIDE DEF D
    <3> QED BY <1>1, <2>1, <2>2, FirstIs
  <2> QED BY <2>3 DEF Below
<1> QED
  BY <1>2, <1>3

\* The order of ids and distances is a strict total order.
LEMMA BelowOrder ==
    ASSUME NEW a \in SUBSET Nat, NEW b \in SUBSET Nat, NEW c \in SUBSET Nat
    PROVE  /\ ~Below(a, a)
           /\ Below(a, b) /\ Below(b, c) => Below(a, c)
           /\ a # b => Below(a, b) \/ Below(b, a)
<1>1. ~Below(a, a)
  BY DEF Below
<1>2. ASSUME Below(a, b), Below(b, c) PROVE Below(a, c)
  <2>1. PICK i \in b \ a : \A j \in Nat : j < i => (j \in a <=> j \in b)
    BY <1>2, BelowIs
  <2>2. PICK k \in c \ b : \A j \in Nat : j < k => (j \in b <=> j \in c)
    BY <1>2, BelowIs
  <2>3. i \in Nat /\ k \in Nat /\ i # k
    OBVIOUS
  <2>4. CASE i < k
    <3>1. i \in c \ a
      BY <2>1, <2>2, <2>3, <2>4
    <3>2. \A j \in Nat : j < i => (j \in a <=> j \in c)
      BY <2>1, <2>2, <2>3, <2>4
    <3> QED BY <3>1, <3>2, BelowIs
  <2>5. CASE k < i
    <3>1. k \in c \ a
      BY <2>1, <2>2, <2>3, <2>5
    <3>2. \A j \in Nat : j < k => (j \in a <=> j \in c)
      BY <2>1, <2>2, <2>3, <2>5
    <3> QED BY <3>1, <3>2, BelowIs
  <2> QED BY <2>3, <2>4, <2>5
<1>3. ASSUME a # b PROVE Below(a, b) \/ Below(b, a)
  <2>1. Distance(a, b) \subseteq Nat /\ Distance(a, b) # {} /\ Distance(b, a) = Distance(a, b)
    BY <1>3 DEF Distance
  <2>2. First(Distance(a, b)) \in Distance(a, b)
    BY <2>1, FirstOf
  <2>3. First(Distance(a, b)) \in a \/ First(Distance(a, b)) \in b
    BY <2>2 DEF Distance
  <2> QED BY <1>3, <2>1, <2>3 DEF Below
<1> QED
  BY <1>1, <1>2, <1>3

\* Two ids at one distance of a target are the same.
LEMMA DistanceInjective ==
    ASSUME NEW a, NEW b, NEW t, Distance(a, t) = Distance(b, t)
    PROVE  a = b
<1>1. \A x : x \in Distance(a, t) <=> x \in Distance(b, t)
  OBVIOUS
<1>2. \A x : x \in a <=> x \in b
  BY <1>1 DEF Distance
<1> QED
  BY <1>2

-----------------------------------------------------------------------------
(***************************************************************************)
(* The closest contacts of a set                                           *)
(***************************************************************************)

\* Who is nearer to the target than a nearer contact is nearer, and of two
\* contacts one is nearer.
LEMMA NearerOrder ==
    ASSUME NEW S, S \subseteq Ids, NEW t \in Ids, NEW c \in S, NEW d \in S
    PROVE  /\ c \notin Nearer(S, t, c)
           /\ c \in Nearer(S, t, d) =>
                Nearer(S, t, c) \subseteq Nearer(S, t, d) \ {c}
           /\ c # d => c \in Nearer(S, t, d) \/ d \in Nearer(S, t, c)
<1>1. \A x \in S : Distance(x, t) \in SUBSET Nat
  BY BitsAre
<1>2. c \notin Nearer(S, t, c)
  BY <1>1, BelowOrder DEF Nearer
<1>3. ASSUME c \in Nearer(S, t, d), NEW x \in Nearer(S, t, c)
      PROVE  x \in Nearer(S, t, d) \ {c}
  <2>1. x \in S /\ Below(Distance(x, t), Distance(c, t)) /\ Below(Distance(c, t), Distance(d, t))
    BY <1>3 DEF Nearer
  <2>2. Below(Distance(x, t), Distance(d, t))
    BY <1>1, <2>1, BelowOrder
  <2> QED BY <1>2, <1>3, <2>1, <2>2 DEF Nearer
<1>4. ASSUME c # d PROVE c \in Nearer(S, t, d) \/ d \in Nearer(S, t, c)
  <2>1. Distance(c, t) # Distance(d, t)
    BY <1>4, DistanceInjective
  <2>2. Below(Distance(c, t), Distance(d, t)) \/ Below(Distance(d, t), Distance(c, t))
    BY <1>1, <2>1, BelowOrder
  <2> QED BY <2>2 DEF Nearer
<1> QED
  BY <1>2, <1>3, <1>4

\* The numbers of nearer contacts are different, and less than the size of the set.
LEMMA Ranks ==
    ASSUME NEW S, S \subseteq Ids, NEW t \in Ids, NEW c \in S, NEW d \in S
    PROVE  /\ Cardinality(Nearer(S, t, c)) \in Nat
           /\ Cardinality(Nearer(S, t, c)) < Cardinality(S)
           /\ c \in Nearer(S, t, d) =>
                Cardinality(Nearer(S, t, c)) < Cardinality(Nearer(S, t, d))
           /\ Cardinality(Nearer(S, t, c)) = Cardinality(Nearer(S, t, d)) => c = d
<1>1. IsFiniteSet(S)
  BY BitsAre, FS_Subset
<1>2. \A T \in SUBSET S : IsFiniteSet(T) /\ Cardinality(T) \in Nat
  BY <1>1, FS_Subset, FS_CardinalityType
<1>3. ASSUME NEW T \in SUBSET S, NEW U \in SUBSET T, NEW x \in T \ U
      PROVE  Cardinality(U) < Cardinality(T)
  <2>1. IsFiniteSet(T) /\ Cardinality(T) \in Nat /\ Cardinality(U) \in Nat
    BY <1>2, <1>3
  <2>2. Cardinality(U) <= Cardinality(T) /\ Cardinality(U) # Cardinality(T)
    BY <1>3, <2>1, FS_Subset
  <2> QED BY <2>1, <2>2
<1>4. \A x \in S : Nearer(S, t, x) \in SUBSET S
  BY DEF Nearer
<1>5. Cardinality(Nearer(S, t, c)) < Cardinality(S)
  BY <1>3, <1>4, NearerOrder
<1>6. ASSUME NEW x \in S, NEW y \in S, x \in Nearer(S, t, y)
      PROVE  Cardinality(Nearer(S, t, x)) < Cardinality(Nearer(S, t, y))
  <2>1. Nearer(S, t, x) \subseteq Nearer(S, t, y) \ {x}
    BY <1>6, NearerOrder
  <2> QED BY <1>3, <1>4, <1>6, <2>1
<1>7. Cardinality(Nearer(S, t, c)) = Cardinality(Nearer(S, t, d)) => c = d
  <2> SUFFICES ASSUME c # d PROVE Cardinality(Nearer(S, t, c)) # Cardinality(Nearer(S, t, d))
    OBVIOUS
  <2>1. Cardinality(Nearer(S, t, c)) \in Nat /\ Cardinality(Nearer(S, t, d)) \in Nat
    BY <1>2, <1>4
  <2> QED BY <1>6, <2>1, NearerOrder
<1> QED
  BY <1>2, <1>4, <1>5, <1>6, <1>7

\* The closest contacts are a part of the set, at most as many as asked for, and
\* as many when the set has as many.
LEMMA ClosestAre ==
    ASSUME NEW S, S \subseteq Ids, NEW t \in Ids, NEW n \in Nat
    PROVE  /\ Closest(S, t, n) \subseteq S
           /\ IsFiniteSet(S)
           /\ Cardinality(Closest(S, t, n)) \in Nat
           /\ Cardinality(Closest(S, t, n)) <= n
           /\ Cardinality(S) >= n => Cardinality(Closest(S, t, n)) = n
<1> DEFINE C == Closest(S, t, n)
           R == S \ C
           rank == [c \in S |-> Cardinality(Nearer(S, t, c))]
           N == Cardinality(S)
<1>1. C \subseteq S /\ IsFiniteSet(S) /\ IsFiniteSet(C) /\ IsFiniteSet(R)
  <2>1. C \subseteq S
    BY DEF Closest
  <2> QED BY <2>1, BitsAre, FS_Subset
<1>2. N \in Nat /\ Cardinality(C) \in Nat /\ Cardinality(R) \in Nat
  BY <1>1, FS_CardinalityType
<1>3. Cardinality(R) = N - Cardinality(C)
  <2>1. S \cap C = C
    BY <1>1
  <2> QED BY <1>1, <2>1, FS_Difference
<1>4. \A c, d \in S : /\ rank[c] \in Nat /\ rank[c] < N
                      /\ rank[c] = rank[d] => c = d
                      /\ c \in C <=> rank[c] < n
  <2> SUFFICES ASSUME NEW c \in S, NEW d \in S
               PROVE  /\ rank[c] \in Nat /\ rank[c] < N
                      /\ rank[c] = rank[d] => c = d
                      /\ c \in C <=> rank[c] < n
    OBVIOUS
  <2>1. rank[c] = Cardinality(Nearer(S, t, c)) /\ rank[d] = Cardinality(Nearer(S, t, d))
    OBVIOUS
  <2>2. c \in C <=> Cardinality(Nearer(S, t, c)) < n
    BY DEF Closest
  <2> HIDE DEF C, rank
  <2>3. rank[c] \in Nat /\ rank[c] < N
    BY <2>1, Ranks
  <2>4. rank[c] = rank[d] => c = d
    BY <2>1, Ranks
  <2> QED BY <2>1, <2>2, <2>3, <2>4
<1> HIDE DEF C, rank, N
<1>5. Cardinality(C) <= n
  <2> DEFINE f == [c \in C |-> rank[c]]
  <2>1. f \in [C -> 0 .. n - 1]
    BY <1>1, <1>4
  <2>2. f \in Injection(C, 0 .. n - 1)
    BY <2>1, <1>1, <1>4 DEF Injection, IsInjective
  <2>3. IsFiniteSet(0 .. n - 1) /\ Cardinality(0 .. n - 1) = n
    BY FS_Interval
  <2> QED BY <2>2, <2>3, FS_Injection
<1>6. ASSUME N >= n PROVE Cardinality(C) = n
  <2> DEFINE f == [c \in R |-> rank[c]]
  <2>1. f \in [R -> n .. N - 1]
    BY <1>1, <1>2, <1>4
  <2>2. f \in Injection(R, n .. N - 1)
    BY <2>1, <1>1, <1>4 DEF Injection, IsInjective
  <2>3. IsFiniteSet(n .. N - 1) /\ Cardinality(n .. N - 1) = N - n
    <3>1. n \in Int /\ N - 1 \in Int /\ (IF n > N - 1 THEN 0 ELSE (N - 1) - n + 1) = N - n
      BY <1>2, <1>6
    <3> QED BY <3>1, FS_Interval
  <2>4. Cardinality(R) <= N - n
    BY <2>2, <2>3, FS_Injection
  <2> QED BY <1>2, <1>3, <1>5, <2>4
<1> QED
  BY <1>1, <1>2, <1>5, <1>6 DEF C, N

-----------------------------------------------------------------------------
(***************************************************************************)
(* Buckets                                                                 *)
(***************************************************************************)

\* Two ids have the same bits before their bucket index, and differ there.
LEMMA BucketIs ==
    ASSUME NEW a \in Ids, NEW b \in Ids
    PROVE  /\ BucketIndex(a, b) \in Nat
           /\ a = b => BucketIndex(a, b) = IdBits
           /\ a # b => /\ BucketIndex(a, b) \in Bits
                       /\ ~(BucketIndex(a, b) \in a <=> BucketIndex(a, b) \in b)
           /\ \A j \in Nat : j < BucketIndex(a, b) => (j \in a <=> j \in b)
<1>1. CASE a = b
  BY <1>1, KademliaAssumption DEF BucketIndex
<1>2. CASE a # b
  <2> DEFINE D == Distance(a, b)
  <2>1. D \subseteq Bits /\ D # {}
    BY <1>2 DEF Distance, Ids
  <2>2. Bits \subseteq Nat
    BY BitsAre
  <2>3. \A j : j \in D <=> ~(j \in a <=> j \in b)
    BY DEF Distance
  <2>4. BucketIndex(a, b) = First(D)
    BY <1>2 DEF BucketIndex
  <2> HIDE DEF D
  <2>5. First(D) \in D /\ \A j \in D : First(D) <= j
    BY <2>1, <2>2, FirstOf
  <2>6. First(D) \in Nat /\ \A j \in D : ~(j < First(D))
    <3>1. D \subseteq Nat
      BY <2>1, <2>2
    <3>2. First(D) \in Nat
      BY <2>5, <3>1
    <3>3. SUFFICES ASSUME NEW j \in D PROVE ~(j < First(D))
      BY <3>2
    <3> QED BY <2>5, <3>1, <3>2
  <2> QED BY <1>2, <2>1, <2>2, <2>3, <2>4, <2>5, <2>6
<1> QED
  BY <1>1, <1>2

\* A contact of a deeper bucket is nearer.
LEMMA DeeperIsNearer ==
    ASSUME NEW t \in Ids, NEW c \in Ids, NEW d \in Ids,
           BucketIndex(t, d) > BucketIndex(t, c)
    PROVE  Below(Distance(d, t), Distance(c, t))
<1> DEFINE m == BucketIndex(t, c)
<1>1. c # t
  <2> SUFFICES ASSUME c = t PROVE FALSE
    OBVIOUS
  <2>1. BucketIndex(t, c) = IdBits /\ BucketIndex(t, d) > IdBits
    BY BucketIs
  <2>2. BucketIndex(t, d) = IdBits \/ BucketIndex(t, d) \in Bits
    BY BucketIs
  <2> QED BY <2>1, <2>2, KademliaAssumption DEF Bits
<1>2. m \in Nat /\ ~(m \in t <=> m \in c) /\ \A j \in Nat : j < m => (j \in t <=> j \in c)
  BY <1>1, BucketIs, BitsAre
<1>3. \A j \in Nat : j <= m => (j \in t <=> j \in d)
  <2> SUFFICES ASSUME NEW j \in Nat, j <= m PROVE j \in t <=> j \in d
    OBVIOUS
  <2>1. BucketIndex(t, d) \in Nat /\ j < BucketIndex(t, d)
    BY <1>2, BucketIs
  <2> QED BY <2>1, BucketIs
<1> HIDE DEF m
<1>4. m \in Distance(c, t) \ Distance(d, t)
  BY <1>2, <1>3 DEF Distance
<1>5. \A j \in Nat : j < m => (j \in Distance(d, t) <=> j \in Distance(c, t))
  BY <1>2, <1>3 DEF Distance
<1>6. Distance(c, t) \in SUBSET Nat /\ Distance(d, t) \in SUBSET Nat
  BY BitsAre
<1> QED
  BY <1>4, <1>5, <1>6, BelowIs

\* Two contacts of one bucket share more bits with each other than with the node.
LEMMA BucketMates ==
    ASSUME NEW t \in Ids, NEW c \in Ids \ {t}, NEW d \in Ids,
           BucketIndex(t, d) = BucketIndex(t, c)
    PROVE  BucketIndex(c, d) > BucketIndex(c, t)
<1> DEFINE m == BucketIndex(t, c)
<1>1. m \in Bits /\ m \in Nat /\ m < IdBits
  BY BucketIs, KademliaAssumption DEF Bits
<1>2. d # t
  BY <1>1, BucketIs
<1>3. ~(m \in t <=> m \in c) /\ ~(m \in t <=> m \in d)
  BY <1>2, BucketIs
<1>4. \A j \in Nat : j < m => (j \in t <=> j \in c) /\ (j \in t <=> j \in d)
  BY BucketIs
<1> HIDE DEF m
<1>5. BucketIndex(c, t) = m
  <2> DEFINE i == BucketIndex(c, t)
  <2>1. i \in Nat /\ ~(i \in c <=> i \in t) /\ \A j \in Nat : j < i => (j \in c <=> j \in t)
    BY BucketIs
  <2> HIDE DEF i
  <2>2. ~(i < m) /\ ~(m < i)
    BY <1>1, <1>3, <1>4, <2>1
  <2>3. i = m
    BY <1>1, <2>1, <2>2
  <2> QED BY <2>3 DEF i
<1>6. BucketIndex(c, d) > m
  <2>1. CASE c = d
    BY <1>1, <2>1, BucketIs
  <2>2. CASE c # d
    <3> DEFINE i == BucketIndex(c, d)
    <3>1. i \in Nat /\ ~(i \in c <=> i \in d)
      BY <2>2, BucketIs
    <3> HIDE DEF i
    <3>2. ~(i < m) /\ i # m
      BY <1>3, <1>4, <3>1
    <3>3. i > m
      BY <1>1, <3>1, <3>2
    <3> QED BY <3>3 DEF i
  <2> QED BY <2>1, <2>2
<1> QED
  BY <1>5, <1>6

\* The buckets of a table are finite, and no contact is in two of them.
LEMMA BucketsAre ==
    ASSUME NEW tab, tab \subseteq Ids, NEW me \in Ids, NEW i
    PROVE  /\ IsFiniteSet(Bucket(tab, me, i))
           /\ Cardinality(Bucket(tab, me, i)) \in Nat
           /\ Bucket(tab, me, i) \subseteq tab
<1>1. Bucket(tab, me, i) \subseteq tab
  BY DEF Bucket
<1>2. IsFiniteSet(Bucket(tab, me, i))
  BY <1>1, BitsAre, FS_Subset
<1> QED
  BY <1>1, <1>2, FS_CardinalityType

\* kademlia_insert keeps the limit of the buckets; a contact that finds less than K
\* in its bucket is inserted.
LEMMA InsertKeeps ==
    ASSUME NEW me \in Ids, NEW tab, WellFormed(tab, me), NEW contact \in Ids
    PROVE  /\ WellFormed(Insert(tab, me, contact), me)
           /\ tab \subseteq Insert(tab, me, contact)
           /\ Insert(tab, me, contact) \subseteq tab \cup {contact}
           /\ /\ contact # me
              /\ Cardinality(Bucket(tab, me, BucketIndex(me, contact))) < K
              => contact \in Insert(tab, me, contact)
           /\ contact # me /\ contact \notin Insert(tab, me, contact) =>
                Cardinality(Bucket(tab, me, BucketIndex(me, contact))) = K
<1> DEFINE i == BucketIndex(me, contact)
           new == Insert(tab, me, contact)
<1>1. tab \subseteq Ids \ {me} /\ \A j \in Bits : Cardinality(Bucket(tab, me, j)) <= K
  BY DEF WellFormed
<1>2. \A j : IsFiniteSet(Bucket(tab, me, j)) /\ Cardinality(Bucket(tab, me, j)) \in Nat
  BY <1>1, BucketsAre
<1>3. CASE contact = me
  BY <1>3 DEF Insert
<1>4. CASE contact # me
  <2>1. i \in Bits
    BY <1>4, BucketIs
  <2>2. CASE contact \in tab
    <3>1. new = tab /\ contact \in new
      BY <1>4, <2>2 DEF Insert, Bucket
    <3> QED BY <3>1
  <2>3. CASE contact \notin tab /\ Cardinality(Bucket(tab, me, i)) < K
    <3>1. new = tab \cup {contact}
      BY <1>4, <2>3 DEF Insert
    <3>2. ASSUME NEW j \in Bits PROVE Cardinality(Bucket(new, me, j)) <= K
      <4>1. CASE j = i
        <5>1. Bucket(new, me, j) = Bucket(tab, me, i) \cup {contact}
          BY <3>1, <4>1 DEF Bucket
        <5>2. Cardinality(Bucket(new, me, j)) = Cardinality(Bucket(tab, me, i))
              \/ Cardinality(Bucket(new, me, j)) = Cardinality(Bucket(tab, me, i)) + 1
          BY <1>2, <5>1, FS_AddElement
        <5> QED BY <1>2, <2>3, <5>2, KademliaAssumption
      <4>2. CASE j # i
        <5>1. Bucket(new, me, j) = Bucket(tab, me, j)
          BY <3>1, <4>2 DEF Bucket
        <5> QED BY <1>1, <5>1
      <4> QED BY <4>1, <4>2
    <3>3. WellFormed(new, me)
      BY <1>1, <1>4, <3>1, <3>2 DEF WellFormed
    <3> QED BY <3>1, <3>3
  <2>4. CASE contact \notin tab /\ ~(Cardinality(Bucket(tab, me, i)) < K)
    <3>1. contact \notin Bucket(tab, me, i)
      BY <2>4 DEF Bucket
    <3>2. new = tab
      BY <2>4, <3>1 DEF Insert
    <3>3. Cardinality(Bucket(tab, me, i)) = K
      BY <1>1, <1>2, <2>1, <2>4, KademliaAssumption
    <3> QED BY <2>4, <3>2, <3>3
  <2> QED BY <2>2, <2>3, <2>4
<1> QED
  BY <1>3, <1>4

\* What the insertion of an answer makes of a bucket.
LEMMA InsertAllBucket ==
    ASSUME NEW me \in Ids, NEW tab, WellFormed(tab, me),
           NEW contacts, contacts \subseteq Ids, NEW i \in Bits
    PROVE  LET new == Bucket(contacts \ (tab \cup {me}), me, i)
               room == K - Cardinality(Bucket(tab, me, i))
           IN  /\ room \in Nat
               /\ Bucket(InsertAll(tab, me, contacts), me, i)
                    = Bucket(tab, me, i) \cup Closest(new, me, room)
               /\ Bucket(tab, me, i) \cap new = {}
               /\ new \subseteq Ids
<1> DEFINE New(j) == Bucket(contacts \ (tab \cup {me}), me, j)
           Room(j) == K - Cardinality(Bucket(tab, me, j))
<1>1. Room(i) \in Nat
  <2>1. Cardinality(Bucket(tab, me, i)) \in Nat /\ Cardinality(Bucket(tab, me, i)) <= K
    BY BucketsAre DEF WellFormed
  <2> QED BY <2>1, KademliaAssumption
<1>2. \A j : Closest(New(j), me, Room(j)) \subseteq New(j)
  BY DEF Closest
<1>3. New(i) \subseteq Ids /\ Bucket(tab, me, i) \cap New(i) = {}
  BY DEF Bucket
<1>4. InsertAll(tab, me, contacts)
        = tab \cup UNION {Closest(New(j), me, Room(j)) : j \in Bits}
  BY DEF InsertAll
<1>5. \A j : \A c \in New(j) : BucketIndex(me, c) = j
  BY DEF Bucket
<1> HIDE DEF New, Room
<1>6. Bucket(InsertAll(tab, me, contacts), me, i)
        = Bucket(tab, me, i) \cup Closest(New(i), me, Room(i))
  <2> DEFINE after == InsertAll(tab, me, contacts)
  <2>1. ASSUME NEW c \in after, BucketIndex(me, c) = i
        PROVE  c \in Bucket(tab, me, i) \cup Closest(New(i), me, Room(i))
    <3>1. CASE c \in tab
      BY <2>1, <3>1 DEF Bucket
    <3>2. CASE c \notin tab
      <4>1. PICK j \in Bits : c \in Closest(New(j), me, Room(j))
        BY <1>4, <2>1, <3>2
      <4>2. j = i
        BY <1>2, <1>5, <2>1, <4>1
      <4> QED BY <4>1, <4>2
    <3> QED BY <3>1, <3>2
  <2>2. ASSUME NEW c \in Closest(New(i), me, Room(i))
        PROVE  c \in after /\ BucketIndex(me, c) = i
    BY <1>2, <1>4, <1>5, <2>2
  <2>3. tab \subseteq after
    BY <1>4
  <2> HIDE DEF after
  <2>4. \A c : c \in Bucket(after, me, i) <=> c \in after /\ BucketIndex(me, c) = i
    BY DEF Bucket
  <2>5. \A c : c \in Bucket(tab, me, i) <=> c \in tab /\ BucketIndex(me, c) = i
    BY DEF Bucket
  <2>6. Bucket(after, me, i) = Bucket(tab, me, i) \cup Closest(New(i), me, Room(i))
    BY <2>1, <2>2, <2>3, <2>4, <2>5
  <2> QED BY <2>6 DEF after
<1> QED
  BY <1>1, <1>3, <1>6 DEF New, Room

\* The insertion of an answer keeps the limit of the buckets; a contact is inserted
\* when the bucket has room for all the new ones.
LEMMA InsertAllKeeps ==
    ASSUME NEW me \in Ids, NEW tab, WellFormed(tab, me),
           NEW contacts, contacts \subseteq Ids
    PROVE  /\ WellFormed(InsertAll(tab, me, contacts), me)
           /\ tab \subseteq InsertAll(tab, me, contacts)
           /\ InsertAll(tab, me, contacts) \subseteq tab \cup (contacts \ {me})
           /\ \A c \in contacts \ ({me} \cup tab) :
                LET i == BucketIndex(me, c)
                IN  Cardinality(Bucket(tab, me, i))
                      + Cardinality(Bucket(contacts \ (tab \cup {me}), me, i)) <= K
                    => c \in InsertAll(tab, me, contacts)
<1> DEFINE after == InsertAll(tab, me, contacts)
           New(j) == Bucket(contacts \ (tab \cup {me}), me, j)
           Room(j) == K - Cardinality(Bucket(tab, me, j))
<1>1. tab \subseteq Ids \ {me}
  BY DEF WellFormed
<1>2. tab \subseteq after
  BY DEF InsertAll
<1>3. after \subseteq tab \cup (contacts \ {me})
  <2>1. \A j : Closest(New(j), me, Room(j)) \subseteq contacts \ {me}
    BY DEF Closest, Bucket
  <2>2. after = tab \cup UNION {Closest(New(j), me, Room(j)) : j \in Bits}
    BY DEF InsertAll
  <2> HIDE DEF New, Room, after
  <2> QED BY <2>1, <2>2
<1>4. \A j \in Bits : /\ Room(j) \in Nat
                      /\ Bucket(after, me, j)
                            = Bucket(tab, me, j) \cup Closest(New(j), me, Room(j))
                      /\ New(j) \subseteq Ids
  BY InsertAllBucket
<1> HIDE DEF after, New
<1>5. ASSUME NEW j \in Bits PROVE Cardinality(Bucket(after, me, j)) <= K
  <2> DEFINE B == Bucket(tab, me, j)
             C == Closest(New(j), me, Room(j))
  <2>1. IsFiniteSet(B) /\ Cardinality(B) \in Nat
    BY <1>1, BucketsAre
  <2>2. C \subseteq Ids /\ Cardinality(C) \in Nat /\ Cardinality(C) <= Room(j)
    BY <1>4, ClosestAre
  <2>3. IsFiniteSet(C)
    BY <2>2, BitsAre, FS_Subset
  <2>4. Bucket(after, me, j) = B \cup C
    BY <1>4
  <2>5. Room(j) = K - Cardinality(B)
    OBVIOUS
  <2> HIDE DEF B, C, Room
  <2>6. Cardinality(B \cup C) = Cardinality(B) + Cardinality(C) - Cardinality(B \cap C)
    BY <2>1, <2>3, FS_Union
  <2>7. Cardinality(B \cap C) \in Nat
    BY <2>1, FS_Intersection, FS_CardinalityType
  <2> QED BY <2>1, <2>2, <2>4, <2>5, <2>6, <2>7, KademliaAssumption
<1>6. WellFormed(after, me)
  BY <1>1, <1>3, <1>5 DEF WellFormed
<1>7. ASSUME NEW c \in contacts \ ({me} \cup tab),
             Cardinality(Bucket(tab, me, BucketIndex(me, c)))
               + Cardinality(New(BucketIndex(me, c))) <= K
      PROVE  c \in after
  <2> DEFINE i == BucketIndex(me, c)
  <2>1. i \in Bits
    BY BucketIs
  <2>2. c \in New(i)
    BY DEF New, Bucket
  <2> HIDE DEF i
  <2>3. New(i) \subseteq Ids /\ Room(i) \in Nat /\ Cardinality(New(i)) <= Room(i)
    <3>1. Cardinality(Bucket(tab, me, i)) \in Nat
      BY <1>1, BucketsAre
    <3>2. IsFiniteSet(New(i)) /\ Cardinality(New(i)) \in Nat
      BY <1>4, <2>1, BitsAre, FS_Subset, FS_CardinalityType
    <3> QED BY <1>4, <1>7, <2>1, <3>1, <3>2, KademliaAssumption DEF i
  <2>4. Cardinality(Nearer(New(i), me, c)) < Room(i)
    <3>1. Cardinality(Nearer(New(i), me, c)) < Cardinality(New(i))
          /\ Cardinality(Nearer(New(i), me, c)) \in Nat
      BY <2>2, <2>3, Ranks
    <3>2. Cardinality(New(i)) \in Nat
      BY <2>3, BitsAre, FS_Subset, FS_CardinalityType
    <3> HIDE DEF Room
    <3> QED BY <2>3, <3>1, <3>2
  <2>5. c \in Closest(New(i), me, Room(i))
    BY <2>2, <2>4 DEF Closest
  <2>6. c \in Bucket(after, me, i)
    BY <1>4, <2>1, <2>5
  <2> QED BY <2>6 DEF Bucket
<1> QED
  BY <1>2, <1>3, <1>6, <1>7 DEF after, New

\* What InsertAll is: the loops of handle_neighbors and its like, which insert the
\* contacts one after the other, the nearest first.  It is the table when there is
\* nothing to insert, and one contact more, farther than the others, is inserted
\* into the table that the others have made.
THEOREM InsertAllIsTheLoop ==
    ASSUME NEW me \in Ids, NEW tab, WellFormed(tab, me),
           NEW contacts, contacts \subseteq Ids, NEW c \in Ids,
           \A x \in contacts : Below(Distance(x, me), Distance(c, me))
    PROVE  /\ InsertAll(tab, me, {}) = tab
           /\ InsertAll(tab, me, contacts \cup {c})
                = Insert(InsertAll(tab, me, contacts), me, c)
<1> DEFINE New(j) == Bucket(contacts \ (tab \cup {me}), me, j)
           New2(j) == Bucket((contacts \cup {c}) \ (tab \cup {me}), me, j)
           Room(j) == K - Cardinality(Bucket(tab, me, j))
           first == InsertAll(tab, me, contacts)
           all == InsertAll(tab, me, contacts \cup {c})
           i == BucketIndex(me, c)
<1>0. InsertAll(tab, me, {}) = tab
  BY DEF InsertAll, Bucket, Closest
<1>1. first = tab \cup UNION {Closest(New(j), me, Room(j)) : j \in Bits}
  BY DEF InsertAll
<1>2. all = tab \cup UNION {Closest(New2(j), me, Room(j)) : j \in Bits}
  BY DEF InsertAll
<1>3. \A j : New(j) \subseteq Ids /\ New(j) \subseteq contacts
  BY DEF Bucket
<1>4. c \notin contacts
  BY BitsAre, BelowOrder
<1>5. first \subseteq tab \cup (contacts \ {me}) /\ tab \subseteq first
  BY InsertAllKeeps
<1>6. CASE c = me \/ c \in tab
  <2>1. \A j : New2(j) = New(j)
    BY <1>6
  <2> HIDE DEF New, New2
  <2>2. all = first
    BY <1>1, <1>2, <2>1
  <2>3. Insert(first, me, c) = first
    <3> HIDE DEF first
    <3>1. CASE c = me
      BY <3>1 DEF Insert
    <3>2. CASE c \in tab
      <4>1. c \in first
        BY <1>5, <3>2
      <4> QED BY <4>1 DEF Insert
    <3> QED BY <1>6, <3>1, <3>2
  <2> QED BY <1>0, <2>2, <2>3
<1>7. CASE c # me /\ c \notin tab
  <2>1. i \in Bits
    BY <1>7, BucketIs
  <2>2. \A j : j # i => New2(j) = New(j)
    BY DEF Bucket
  <2>3. New2(i) = New(i) \cup {c} /\ c \notin New(i)
    BY <1>4, <1>7 DEF Bucket
  <2>4. Bucket(first, me, i) = Bucket(tab, me, i) \cup Closest(New(i), me, Room(i))
        /\ Room(i) \in Nat /\ Bucket(tab, me, i) \cap New(i) = {}
    BY <2>1, InsertAllBucket
  <2>5. c \notin first
    BY <1>4, <1>5, <1>7
  <2> HIDE DEF New, New2, first, all, i
  <2>6. \A x \in New(i) : Nearer(New2(i), me, x) = Nearer(New(i), me, x)
    <3> SUFFICES ASSUME NEW x \in New(i)
                 PROVE  ~Below(Distance(c, me), Distance(x, me))
      BY <2>3 DEF Nearer
    <3>1. Below(Distance(x, me), Distance(c, me))
      BY <1>3
    <3>2. Distance(x, me) \in SUBSET Nat /\ Distance(c, me) \in SUBSET Nat
      BY <1>3, BitsAre
    <3> QED BY <3>1, <3>2, BelowOrder
  <2>7. Nearer(New2(i), me, c) = New(i)
    <3>1. \A x \in New(i) : Below(Distance(x, me), Distance(c, me))
      BY <1>3
    <3>2. ~Below(Distance(c, me), Distance(c, me))
      BY BitsAre, BelowOrder
    <3> QED BY <2>3, <3>1, <3>2 DEF Nearer
  <2>8. Closest(New2(i), me, Room(i))
          = Closest(New(i), me, Room(i))
              \cup IF Cardinality(New(i)) < Room(i) THEN {c} ELSE {}
    <3> HIDE DEF Room
    <3>1. \A x \in New(i) : x \in Closest(New2(i), me, Room(i))
                              <=> x \in Closest(New(i), me, Room(i))
      BY <2>3, <2>6 DEF Closest
    <3>2. c \in Closest(New2(i), me, Room(i)) <=> Cardinality(New(i)) < Room(i)
      BY <2>3, <2>7 DEF Closest
    <3>3. Closest(New2(i), me, Room(i)) \subseteq New(i) \cup {c}
      BY <2>3 DEF Closest
    <3>4. Closest(New(i), me, Room(i)) \subseteq New(i)
      BY DEF Closest
    <3> QED BY <2>3, <3>1, <3>2, <3>3, <3>4
  <2>9. Cardinality(New(i)) < Room(i) <=> Cardinality(Bucket(first, me, i)) < K
    <3> DEFINE B == Bucket(tab, me, i)
               C == Closest(New(i), me, Room(i))
    <3>1. tab \subseteq Ids
      BY DEF WellFormed
    <3>2. IsFiniteSet(B) /\ Cardinality(B) \in Nat
      BY <3>1, BucketsAre
    <3>3. /\ C \subseteq New(i) /\ IsFiniteSet(New(i)) /\ Cardinality(C) \in Nat
          /\ Cardinality(C) <= Room(i)
          /\ Cardinality(New(i)) >= Room(i) => Cardinality(C) = Room(i)
      BY <1>3, <2>4, ClosestAre
    <3>4. IsFiniteSet(C) /\ Cardinality(C) <= Cardinality(New(i)) /\ Cardinality(New(i)) \in Nat
      BY <3>3, FS_Subset, FS_CardinalityType
    <3>5. B \cap C = {}
      BY <2>4, <3>3
    <3>6. Room(i) = K - Cardinality(B)
      OBVIOUS
    <3> HIDE DEF B, C, Room
    <3>7. Cardinality(B \cup C) = Cardinality(B) + Cardinality(C)
      <4>1. Cardinality(B \cup C) = Cardinality(B) + Cardinality(C) - Cardinality(B \cap C)
        BY <3>2, <3>4, FS_Union
      <4>2. Cardinality(B \cap C) = 0
        BY <3>5, FS_EmptySet
      <4> QED BY <3>2, <3>3, <4>1, <4>2
    <3>8. Bucket(first, me, i) = B \cup C
      BY <2>4 DEF B, C
    <3> QED BY <2>4, <3>2, <3>3, <3>4, <3>6, <3>7, <3>8, KademliaAssumption
  <2>10. all = first \cup IF Cardinality(New(i)) < Room(i) THEN {c} ELSE {}
    <3> HIDE DEF Room
    <3>1. \A j \in Bits \ {i} : Closest(New2(j), me, Room(j)) = Closest(New(j), me, Room(j))
      BY <2>2
    <3> QED BY <1>1, <1>2, <2>1, <2>8, <3>1
  <2>11. Insert(first, me, c)
           = first \cup IF Cardinality(Bucket(first, me, i)) < K THEN {c} ELSE {}
    <3>1. c \notin Bucket(first, me, i)
      BY <2>5 DEF Bucket
    <3> QED BY <1>7, <3>1 DEF Insert, i
  <2>12. all = Insert(first, me, c)
    BY <2>9, <2>10, <2>11
  <2> QED BY <1>0, <2>12 DEF all, first
<1> QED
  BY <1>6, <1>7

-----------------------------------------------------------------------------
(***************************************************************************)
(* The answer to a join, and the lookup                                    *)
(***************************************************************************)

\* What the inviter answers to a JOIN_REQUEST can be stored: when it has no room for
\* the joining node, the bucket it falls into is full of nodes that are nearer to it
\* than the inviter is.
LEMMA AnswerIsStorable ==
    ASSUME NEW v \in Ids, NEW j \in Ids, j # v, NEW tab, WellFormed(tab, v)
    PROVE  LET answer == FindClosest(Insert(tab, v, j), j, K)
           IN  /\ answer \subseteq Ids \ {v}
               /\ Cardinality(answer) <= K
               /\ j \in answer \/ \A c \in answer : BucketIndex(j, c) > BucketIndex(j, v)
<1> DEFINE known == Insert(tab, v, j)
           answer == FindClosest(known, j, K)
           full == Bucket(tab, v, BucketIndex(v, j))
<1>1. known \subseteq Ids \ {v} /\ tab \subseteq known /\ tab \subseteq Ids
      /\ (j \notin known => Cardinality(full) = K)
  BY InsertKeeps DEF WellFormed
<1> HIDE DEF known
<1>2. answer \subseteq known /\ Cardinality(answer) <= K /\ IsFiniteSet(known)
  BY <1>1, ClosestAre, KademliaAssumption DEF FindClosest
<1>3. ASSUME j \in known PROVE j \in answer
  <2>1. \A x : ~Below(x, Distance(j, j))
    BY DEF Below, Distance
  <2>2. Nearer(known, j, j) = {}
    BY <2>1 DEF Nearer
  <2>3. Cardinality(Nearer(known, j, j)) = 0
    BY <2>2, FS_EmptySet
  <2> QED BY <1>3, <2>3, KademliaAssumption DEF FindClosest, Closest
<1>4. ASSUME j \notin known, NEW c \in answer
      PROVE  BucketIndex(j, c) > BucketIndex(j, v)
  <2> SUFFICES ASSUME ~(BucketIndex(j, c) > BucketIndex(j, v)) PROVE FALSE
    OBVIOUS
  <2>1. c \in Ids /\ BucketIndex(j, c) \in Nat /\ BucketIndex(j, v) \in Nat
    BY <1>1, <1>2, BucketIs
  <2>2. ASSUME NEW b \in full PROVE b \in Nearer(known, j, c)
    <3>1. b \in Ids /\ b \in known /\ BucketIndex(v, b) = BucketIndex(v, j)
      BY <1>1 DEF Bucket
    <3>2. BucketIndex(j, b) > BucketIndex(j, v)
      BY <3>1, BucketMates
    <3>3. BucketIndex(j, b) > BucketIndex(j, c)
      BY <2>1, <3>1, <3>2, BucketIs
    <3>4. Below(Distance(b, j), Distance(c, j))
      BY <2>1, <3>1, <3>3, DeeperIsNearer
    <3> QED BY <3>1, <3>4 DEF Nearer
  <2>3. IsFiniteSet(Nearer(known, j, c)) /\ Cardinality(Nearer(known, j, c)) \in Nat
    <3>1. Nearer(known, j, c) \subseteq known
      BY DEF Nearer
    <3> QED BY <1>2, <3>1, FS_Subset, FS_CardinalityType
  <2>4. K <= Cardinality(Nearer(known, j, c))
    <3> HIDE DEF full
    <3>1. full \subseteq Nearer(known, j, c)
      BY <2>2
    <3> QED BY <1>1, <1>4, <2>3, <3>1, FS_Subset
  <2>5. Cardinality(Nearer(known, j, c)) < K
    BY DEF FindClosest, Closest
  <2> QED BY <2>3, <2>4, <2>5, KademliaAssumption
<1> QED
  BY <1>1, <1>2, <1>3, <1>4 DEF known

\* An empty table takes the inviter and such an answer whole.
LEMMA AnswerIsStored ==
    ASSUME NEW v \in Ids, NEW j \in Ids, j # v, NEW answer,
           answer \subseteq Ids \ {v}, Cardinality(answer) <= K,
           j \in answer \/ \A c \in answer : BucketIndex(j, c) > BucketIndex(j, v)
    PROVE  /\ InsertAll(Insert({}, j, v), j, answer) = ({v} \cup answer) \ {j}
           /\ WellFormed(InsertAll(Insert({}, j, v), j, answer), j)
<1>1. WellFormed({}, j)
  <2>1. \A i : Bucket({}, j, i) = {}
    BY DEF Bucket
  <2> QED BY <2>1, FS_EmptySet, KademliaAssumption DEF WellFormed
<1>2. Insert({}, j, v) = {v}
  <2>1. Bucket({}, j, BucketIndex(j, v)) = {}
    BY DEF Bucket
  <2> QED BY <2>1, FS_EmptySet, KademliaAssumption DEF Insert
<1>3. WellFormed({v}, j)
  <2>1. WellFormed(Insert({}, j, v), j)
    BY <1>1, InsertKeeps
  <2> QED BY <1>2, <2>1
<1>4. /\ WellFormed(InsertAll({v}, j, answer), j)
      /\ {v} \subseteq InsertAll({v}, j, answer)
      /\ InsertAll({v}, j, answer) \subseteq {v} \cup (answer \ {j})
  BY <1>3, InsertAllKeeps
<1>5. ASSUME NEW c \in answer \ {j} PROVE c \in InsertAll({v}, j, answer)
  <2> DEFINE i == BucketIndex(j, c)
             old == Bucket({v}, j, i)
             new == Bucket(answer \ ({v} \cup {j}), j, i)
  <2>1. IsFiniteSet(answer) /\ Cardinality(answer) \in Nat
    BY BitsAre, FS_Subset, FS_CardinalityType
  <2>2. new \subseteq answer \ {j} /\ old \subseteq {v}
    BY DEF Bucket
  <2>3. Cardinality(old) + Cardinality(new) <= K
    <3>1. IsFiniteSet({v}) /\ Cardinality({v}) = 1
      BY FS_Singleton
    <3>2. Cardinality(old) \in Nat /\ Cardinality(old) <= 1
      <4> HIDE DEF old
      <4> QED BY <2>2, <3>1, FS_Subset, FS_CardinalityType
    <3>3. CASE j \in answer
      <4> HIDE DEF old, new
      <4>1. IsFiniteSet(answer \ {j}) /\ Cardinality(answer \ {j}) = Cardinality(answer) - 1
        BY <2>1, <3>3, FS_RemoveElement
      <4>2. Cardinality(new) \in Nat /\ Cardinality(new) <= Cardinality(answer \ {j})
        BY <2>2, <4>1, FS_Subset, FS_CardinalityType
      <4> QED BY <2>1, <3>2, <4>1, <4>2, KademliaAssumption
    <3>4. CASE \A x \in answer : BucketIndex(j, x) > BucketIndex(j, v)
      <4>1. i > BucketIndex(j, v) /\ BucketIndex(j, v) \in Nat /\ i \in Nat
        BY <3>4, BucketIs
      <4>2. BucketIndex(j, v) # i
        <5> HIDE DEF i
        <5> QED BY <4>1
      <4>3. old = {}
        BY <4>2 DEF Bucket
      <4>4. Cardinality(old) = 0
        BY <4>3, FS_EmptySet
      <4> HIDE DEF old, new
      <4>5. Cardinality(new) \in Nat /\ Cardinality(new) <= Cardinality(answer)
        BY <2>1, <2>2, FS_Subset, FS_CardinalityType
      <4> QED BY <2>1, <4>4, <4>5, KademliaAssumption
    <3> QED BY <3>3, <3>4
  <2>4. c \in answer \ ({j} \cup {v})
    OBVIOUS
  <2> QED BY <1>3, <2>3, <2>4, InsertAllKeeps
<1>6. InsertAll({v}, j, answer) = ({v} \cup answer) \ {j}
  BY <1>4, <1>5
<1> QED
  BY <1>2, <1>4, <1>6

\* A lookup that has to ask the inviter and has not done so has a round left and
\* somebody to ask, and asks the inviter or a full round of others.
LEMMA LookupGoesOn ==
    ASSUME NEW v, NEW j \in Ids, NEW contacts, contacts \subseteq Ids,
           v \in FindClosest(contacts, j, K),
           NEW asked, v \notin asked, asked \subseteq FindClosest(contacts, j, K),
           NEW r \in 0 .. MaxRounds, Cardinality(asked) >= Alpha * r
    PROVE  LET candidates == FindClosest(contacts, j, K)
               next == Closest(candidates \ asked, j, Alpha)
           IN  /\ r < MaxRounds
               /\ next # {}
               /\ next \subseteq candidates
               /\ v \notin next => Cardinality(asked \cup next) >= Alpha * (r + 1)
<1> DEFINE candidates == FindClosest(contacts, j, K)
           left == candidates \ asked
           next == Closest(left, j, Alpha)
<1>1. /\ Alpha \in Nat /\ MaxRounds \in Nat /\ Alpha * MaxRounds >= K
      /\ K \in Nat /\ K >= 1 /\ r \in Nat
  BY KademliaAssumption, JoiningAssumption
<1>2. Alpha >= 1
  BY <1>1
<1>3. candidates \subseteq Ids /\ Cardinality(candidates) <= K
      /\ IsFiniteSet(candidates) /\ Cardinality(candidates) \in Nat
  <2>1. candidates \subseteq contacts /\ Cardinality(candidates) <= K
    BY <1>1, ClosestAre DEF FindClosest
  <2> QED BY <2>1, BitsAre, FS_Subset, FS_CardinalityType
<1>4. v \in left /\ left \subseteq Ids
  BY <1>3
<1> HIDE DEF candidates
<1>5. IsFiniteSet(asked) /\ Cardinality(asked) \in Nat /\ Cardinality(asked) < K
  <2>1. asked \subseteq candidates \ {v} /\ v \in candidates
    BY DEF candidates
  <2>2. IsFiniteSet(candidates \ {v}) /\ Cardinality(candidates \ {v}) = Cardinality(candidates) - 1
    BY <1>3, <2>1, FS_RemoveElement
  <2>3. IsFiniteSet(asked) /\ Cardinality(asked) <= Cardinality(candidates \ {v})
    BY <2>1, <2>2, FS_Subset
  <2> QED BY <1>1, <1>3, <2>2, <2>3, FS_CardinalityType
<1>6. r < MaxRounds
  <2>1. r # MaxRounds
    BY <1>1, <1>5
  <2> QED BY <1>1, <2>1
<1> HIDE DEF left
<1>7. /\ next \subseteq left /\ IsFiniteSet(left)
      /\ Cardinality(next) \in Nat
      /\ Cardinality(left) >= Alpha => Cardinality(next) = Alpha
  BY <1>1, <1>4, ClosestAre
<1>8. IsFiniteSet(next) /\ Cardinality(left) \in Nat
  BY <1>7, FS_Subset, FS_CardinalityType
<1>9. ASSUME v \notin next PROVE Cardinality(next) = Alpha
  <2>1. ~(Cardinality(Nearer(left, j, v)) < Alpha)
    BY <1>4, <1>9 DEF Closest
  <2>2. Cardinality(Nearer(left, j, v)) \in Nat
        /\ Cardinality(Nearer(left, j, v)) < Cardinality(left)
    BY <1>4, Ranks
  <2>3. Cardinality(left) >= Alpha
    BY <1>1, <1>8, <2>1, <2>2
  <2> QED BY <1>7, <2>3
<1> HIDE DEF next
<1>10. next # {}
  <2>1. CASE v \in next
    BY <2>1
  <2>2. CASE v \notin next
    <3>1. Cardinality(next) # 0
      BY <1>1, <1>2, <1>9, <2>2
    <3> QED BY <3>1, FS_EmptySet
  <2> QED BY <2>1, <2>2
<1>11. ASSUME v \notin next PROVE Cardinality(asked \cup next) >= Alpha * (r + 1)
  <2>1. Cardinality(asked \cup next) = Cardinality(asked) + Cardinality(next)
    <3>1. Cardinality(asked \cup next)
            = Cardinality(asked) + Cardinality(next) - Cardinality(asked \cap next)
      BY <1>5, <1>8, FS_Union
    <3>2. asked \cap next = {}
      BY <1>7 DEF left
    <3>3. Cardinality(asked \cap next) = 0
      BY <3>2, FS_EmptySet
    <3> QED BY <1>5, <1>7, <3>1, <3>3
  <2>2. Alpha * (r + 1) = Alpha * r + Alpha /\ Alpha * r \in Nat
    BY <1>1
  <2> QED BY <1>1, <1>5, <1>7, <1>9, <1>11, <2>1, <2>2
<1>12. next \subseteq candidates
  BY <1>7 DEF left
<1> QED
  BY <1>6, <1>10, <1>11, <1>12 DEF candidates, left, next

-----------------------------------------------------------------------------
(***************************************************************************)
(* The inductive invariant: mailboxes                                      *)
(***************************************************************************)

\* The two ids, and the two ends of a connection.
LEMMA PairIs ==
    ASSUME id \in Pairs
    PROVE  /\ id["joiner"] \in Ids /\ id["inviter"] \in Ids
           /\ id["joiner"] # id["inviter"]
           /\ \A n \in Nodes : id[n] \in Ids /\ id[Other(n)] \in Ids /\ id[Other(n)] # id[n]
<1>1. id \in [Nodes -> Ids] /\ id["joiner"] # id["inviter"]
  BY JoiningAssumption
<1>2. Other("joiner") = "inviter" /\ Other("inviter") = "joiner"
  BY DEF Other, Nodes
<1> QED
  BY <1>1, <1>2 DEF Nodes

LEMMA EndsAre ==
    /\ Other("joiner") = "inviter" /\ Other("inviter") = "joiner"
    /\ \A n \in Nodes : Other(n) \in Nodes
    /\ \A e \in Ends : /\ e[1] \in Nodes /\ e[2] \in Conns /\ e = <<e[1], e[2]>>
                       /\ Far(e) \in Ends
                       /\ Far(e)[1] = Other(e[1]) /\ Far(e)[2] = e[2]
<1>1. Other("joiner") = "inviter" /\ Other("inviter") = "joiner"
  BY DEF Other, Nodes
<1>2. \A n \in Nodes : Other(n) \in Nodes
  BY <1>1 DEF Nodes
<1> QED
  BY <1>1, <1>2 DEF Ends, Far

\* The messages, and which of them are acceptances.
LEMMA MessagesAre ==
    /\ \A type \in Types : /\ Message(type) \in Messages
                           /\ Message(type).type = type
                           /\ ~Message(type).accepted
    /\ \A token \in BOOLEAN : Request(token) \in Messages /\ ~Request(token).accepted
    /\ Rejection \in Messages /\ ~Rejection.accepted
    /\ \A P \in SUBSET Ids :
         /\ Response(P) \in Messages /\ Response(P).peers = P
         /\ Neighbors(P) \in Messages /\ ~Neighbors(P).accepted
  BY DEF Message, Request, Rejection, Response, Neighbors, Messages, Types

\* Mailboxes that hold messages, those of the joining node only acceptances by
\* which it can go on.
Mail(boxes) ==
    /\ boxes \in [Ends -> Seq(Messages)]
    /\ \A e \in Ends : e[1] = "joiner" => boxes[e] \in Seq(Acceptances)

LEMMA MailIs == inbox \in [Ends -> Seq(Messages)] /\ MailInv <=> Mail(inbox)
  BY DEF MailInv, Mail

\* They still do after a receive, a close and a send.
LEMMA TailKeeps ==
    ASSUME NEW boxes, Mail(boxes), NEW e \in Ends, boxes[e] # <<>>
    PROVE  /\ Mail([boxes EXCEPT ![e] = Tail(@)])
           /\ Head(boxes[e]) \in Messages
           /\ e[1] = "joiner" => Head(boxes[e]) \in Acceptances
<1>1. \A S : \A s \in Seq(S) : s # <<>> => Head(s) \in S /\ Tail(s) \in Seq(S)
  OBVIOUS
<1>2. boxes[e] \in Seq(Messages) /\ (e[1] = "joiner" => boxes[e] \in Seq(Acceptances))
  BY DEF Mail
<1>3. Head(boxes[e]) \in Messages /\ Tail(boxes[e]) \in Seq(Messages)
  BY <1>1, <1>2
<1>4. e[1] = "joiner" => Head(boxes[e]) \in Acceptances /\ Tail(boxes[e]) \in Seq(Acceptances)
  BY <1>1, <1>2
<1>5. Mail([boxes EXCEPT ![e] = Tail(@)])
  BY <1>3, <1>4 DEF Mail
<1> QED
  BY <1>3, <1>4, <1>5

LEMMA EmptyKeeps ==
    ASSUME NEW boxes, Mail(boxes), NEW e
    PROVE  Mail([boxes EXCEPT ![e] = <<>>])
<1>1. \A S : <<>> \in Seq(S)
  OBVIOUS
<1> QED
  BY <1>1 DEF Mail

LEMMA SentKeeps ==
    ASSUME NEW boxes, Mail(boxes), NEW e \in Ends, NEW m \in Messages,
           e[1] = "inviter" => m \in Acceptances
    PROVE  Mail(Sent(boxes, e, m))
<1>1. \A S : \A s \in Seq(S) : \A x \in S : Append(s, x) \in Seq(S)
  OBVIOUS
<1>2. Far(e) \in Ends /\ Far(e)[1] = Other(e[1]) /\ e[1] \in Nodes
      /\ (Other(e[1]) = "joiner" => e[1] = "inviter")
  BY EndsAre DEF Nodes
<1>3. Append(boxes[Far(e)], m) \in Seq(Messages)
  BY <1>1, <1>2 DEF Mail
<1>4. Far(e)[1] = "joiner" => Append(boxes[Far(e)], m) \in Seq(Acceptances)
  BY <1>1, <1>2 DEF Mail
<1> QED
  BY <1>2, <1>3, <1>4 DEF Mail, Sent

\* Messages that accept nobody.
LEMMA OthersAccept == \A m \in Messages : ~m.accepted => m \in Acceptances
  BY DEF Acceptances

\* What is in the mailboxes stays good when trust only grows.
LEMMA MailCarries ==
    ASSUME Mail(inbox'), id' = id, trusts["inviter"] => trusts'["inviter"]
    PROVE  inbox' \in [Ends -> Seq(Messages)] /\ MailInv'
<1>1. Acceptances \subseteq Acceptances'
  BY DEF Acceptances, Storable
<1>2. \A S, T : S \subseteq T => Seq(S) \subseteq Seq(T)
  OBVIOUS
<1>3. Seq(Acceptances) \subseteq Seq(Acceptances')
  BY <1>1, <1>2
<1> QED
  BY <1>3 DEF Mail, MailInv

\* Ids do not change and nobody who is trusted loses the trust.
LEMMA Keeps ==
    ASSUME TypeOK, Next
    PROVE  /\ id' = id
           /\ \A n \in Nodes : trusts[n] => trusts'[n]
<1> USE DEF TypeOK, local
<1>1. CASE RunJoin
  BY <1>1 DEF RunJoin, Join, Connect, JoinFails, JoinAccepted, LookupRound, QueryAnswered,
              QueryFails, LookupDone, Announce, Announced, AnnounceFails, Activate
<1>2. ASSUME NEW n \in Nodes, Reconnect(n)
      PROVE  id' = id /\ trusts' = trusts
  BY <1>2 DEF Reconnect, Redial, Connect, RedialAccepted, RedialFails
<1>3. ASSUME NEW e \in Ends, Worker(e)
      PROVE  id' = id /\ \A n \in Nodes : trusts[n] => trusts'[n]
  <2>1. CASE WorkerAdmits(e)
    BY <2>1, EndsAre DEF WorkerAdmits
  <2> QED
    BY <1>3, <2>1 DEF Worker, WorkerRejects, WorkerReceives, WorkerReplies, WorkerBinds,
                      WorkerEnds, WorkerCloses, WorkerRemoves
<1>4. ASSUME NEW e \in Ends, WorkerRefreshes(e) \/ RoutingSends(e)
      PROVE  id' = id /\ trusts' = trusts
  BY <1>4 DEF WorkerRefreshes, RoutingSends, Chats
<1>5. ASSUME NEW c \in Others, Learn(c) PROVE id' = id /\ trusts' = trusts
  BY <1>5 DEF Learn
<1> QED
  BY <1>1, <1>2, <1>3, <1>4, <1>5 DEF Next

\* What a worker answers, and that the inviter's acceptances can be stored.
LEMMA RepliesAre ==
    ASSUME TypeOK, ReplyInv, NEW e \in Ends, at[e] = "reply"
    PROVE  LET n == e[1]
               asked == handling[e]
               closest == FindClosest(KnownAfter(n, asked), id[Other(n)], K)
               answer == CASE asked = "JOIN_REQUEST" -> Response(closest)
                           [] asked = "FIND_NODE" -> Neighbors(closest)
                           [] asked = "NODE_ANNOUNCE" -> Message("NODE_ANNOUNCE_ACK")
           IN  /\ WellFormed(KnownAfter(n, asked), id[n])
               /\ table[n] \subseteq KnownAfter(n, asked)
               /\ answer \in Messages
               /\ n = "inviter" => answer \in Acceptances
<1> DEFINE n == e[1]
           asked == handling[e]
           known == KnownAfter(n, asked)
           closest == FindClosest(known, id[Other(n)], K)
           answer == CASE asked = "JOIN_REQUEST" -> Response(closest)
                       [] asked = "FIND_NODE" -> Neighbors(closest)
                       [] asked = "NODE_ANNOUNCE" -> Message("NODE_ANNOUNCE_ACK")
<1>1. n \in Nodes /\ id[n] \in Ids /\ id[Other(n)] \in Ids /\ id[Other(n)] # id[n]
  BY EndsAre, PairIs DEF TypeOK
<1>2. WellFormed(table[n], id[n])
  BY <1>1 DEF TypeOK
<1>3. /\ asked \in {"JOIN_REQUEST", "FIND_NODE", "NODE_ANNOUNCE"}
      /\ asked = "JOIN_REQUEST" => trusts[n]
  BY DEF ReplyInv
<1>4. known = IF asked = "FIND_NODE" THEN table[n] ELSE Insert(table[n], id[n], id[Other(n)])
  BY DEF KnownAfter
<1> HIDE DEF n, asked, known
<1>5. WellFormed(known, id[n]) /\ table[n] \subseteq known
  BY <1>1, <1>2, <1>4, InsertKeeps
<1>6. closest \subseteq Ids
  <2>1. known \subseteq Ids
    BY <1>5 DEF WellFormed
  <2> QED BY <1>1, <2>1, ClosestAre, KademliaAssumption DEF FindClosest
<1>7. ASSUME asked = "JOIN_REQUEST", n = "inviter"
      PROVE  Storable(closest) /\ trusts["inviter"]
  <2>1. id[n] = id["inviter"] /\ id[Other(n)] = id["joiner"]
    BY <1>7, EndsAre
  <2>2. closest = FindClosest(Insert(table[n], id[n], id[Other(n)]), id[Other(n)], K)
    BY <1>4, <1>7
  <2> HIDE DEF closest
  <2>3. /\ closest \subseteq Ids \ {id[n]}
        /\ Cardinality(closest) <= K
        /\ \/ id[Other(n)] \in closest
           \/ \A c \in closest : BucketIndex(id[Other(n)], c) > BucketIndex(id[Other(n)], id[n])
    BY <1>1, <1>2, <2>2, AnswerIsStorable
  <2> QED BY <1>3, <1>7, <2>1, <2>3 DEF Storable
<1> HIDE DEF closest
<1>8. CASE asked = "JOIN_REQUEST"
  <2>1. answer = Response(closest)
    BY <1>8
  <2> QED BY <1>5, <1>6, <1>7, <1>8, <2>1, MessagesAre DEF Acceptances, n, asked, known, closest
<1>9. CASE asked = "FIND_NODE"
  <2>1. answer = Neighbors(closest)
    BY <1>9
  <2> QED BY <1>5, <1>6, <2>1, MessagesAre, OthersAccept DEF n, asked, known, closest
<1>10. CASE asked = "NODE_ANNOUNCE"
  <2>1. answer = Message("NODE_ANNOUNCE_ACK")
    BY <1>10
  <2>2. "NODE_ANNOUNCE_ACK" \in Types
    BY DEF Types
  <2> QED BY <1>5, <2>1, <2>2, MessagesAre, OthersAccept DEF n, asked, known, closest
<1> QED
  BY <1>3, <1>8, <1>9, <1>10

\* The connection of run_join, while it has one.
LEMMA MineIs ==
    ASSUME TypeOK, AloneInv, phase \notin {"connect", "failed", "active"}
    PROVE  Mine \in Ends /\ Mine[1] = "joiner"
  BY DEF AloneInv, Mine, Ends, Nodes

\* Every step keeps the mailboxes good.
LEMMA MailStep ==
    ASSUME TypeOK, MailInv, ReplyInv, AloneInv, Next
    PROVE  inbox' \in [Ends -> Seq(Messages)] /\ MailInv'
<1>1. Mail(inbox)
  BY MailIs DEF TypeOK
<1> SUFFICES Mail(inbox')
  BY MailCarries, Keeps DEF Nodes
<1>2. \A type \in Types : Message(type) \in Messages /\ Message(type) \in Acceptances
  BY MessagesAre, OthersAccept
<1>3. {"FIND_NODE", "NODE_ANNOUNCE", "HELLO"} \subseteq Types
  BY DEF Types
<1>4. ASSUME NEW n \in Nodes, NEW c \in Conns, NEW token \in BOOLEAN, Connect(n, c, token)
      PROVE  Mail(inbox')
  <2> DEFINE far == <<Other(n), c>>
  <2>1. CASE UNCHANGED inbox
    BY <1>1, <2>1
  <2>2. CASE inbox' = [inbox EXCEPT ![far] = <<Request(token)>>]
    <3>1. Request(token) \in Messages /\ Request(token) \in Acceptances
      BY MessagesAre, OthersAccept
    <3>2. \A S : \A x \in S : <<x>> \in Seq(S)
      OBVIOUS
    <3>3. <<Request(token)>> \in Seq(Messages) /\ <<Request(token)>> \in Seq(Acceptances)
      BY <3>1, <3>2
    <3> QED BY <1>1, <2>2, <3>3 DEF Mail
  <2> QED BY <1>4, <2>1, <2>2 DEF Connect
<1>5. ASSUME NEW e, inbox' = Closed(e) PROVE Mail(inbox')
  BY <1>1, <1>5, EmptyKeeps DEF Closed
<1>6. ASSUME NEW e \in Ends, inbox[e] # <<>>, inbox' = Received(e) PROVE Mail(inbox')
  BY <1>1, <1>6, TailKeeps DEF Received
<1>7. ASSUME NEW e \in Ends, NEW type \in Types, inbox' = Sent(inbox, e, Message(type))
      PROVE  Mail(inbox')
  BY <1>1, <1>2, <1>7, SentKeeps
<1>8. CASE RunJoin
  <2>1. ASSUME NEW c \in Conns, Join(c) PROVE Mail(inbox')
    BY <1>4, <2>1 DEF Join, Nodes
  <2>2. CASE JoinFails
    BY <1>1, <1>5, <2>2 DEF JoinFails
  <2>3. CASE JoinAccepted
    BY <1>6, <2>3, MineIs DEF JoinAccepted
  <2>4. CASE LookupRound
    BY <1>1, <1>3, <1>7, <2>4, MineIs DEF LookupRound
  <2>5. CASE QueryAnswered
    BY <1>6, <2>5, MineIs DEF QueryAnswered, Awaited
  <2>6. CASE QueryFails
    BY <1>5, <2>6 DEF QueryFails, Drop
  <2>7. CASE LookupDone
    BY <1>1, <2>7 DEF LookupDone
  <2>8. CASE Announce
    BY <1>1, <1>3, <1>7, <2>8, MineIs DEF Announce
  <2>9. CASE Announced
    BY <1>6, <2>9, MineIs DEF Announced, Awaited
  <2>10. CASE AnnounceFails
    BY <1>5, <2>10 DEF AnnounceFails, Drop
  <2>11. CASE Activate
    BY <1>1, <2>11 DEF Activate
  <2> QED BY <1>8, <2>1, <2>2, <2>3, <2>4, <2>5, <2>6, <2>7, <2>8, <2>9, <2>10, <2>11 DEF RunJoin
<1>9. ASSUME NEW n \in Nodes, Reconnect(n) PROVE Mail(inbox')
  <2>1. ASSUME NEW c \in Conns, Redial(n, c) PROVE Mail(inbox')
    BY <1>4, <2>1 DEF Redial
  <2>2. CASE RedialAccepted(n)
    <3>1. <<n, on[n]>> \in Ends
      BY <2>2 DEF RedialAccepted, Dialling, TypeOK, Ends
    <3> QED BY <1>6, <2>2, <3>1 DEF RedialAccepted
  <2>3. CASE RedialFails(n)
    BY <1>5, <2>3 DEF RedialFails
  <2> QED BY <1>9, <2>1, <2>2, <2>3 DEF Reconnect
<1>10. ASSUME NEW e \in Ends, Worker(e) PROVE Mail(inbox')
  <2>1. CASE WorkerAdmits(e)
    BY <1>6, <2>1 DEF WorkerAdmits
  <2>2. CASE WorkerRejects(e)
    <3>1. Mail(Received(e))
      BY <1>1, <2>2, TailKeeps DEF WorkerRejects, Received
    <3>2. Rejection \in Messages /\ Rejection \in Acceptances
      BY MessagesAre, OthersAccept
    <3> QED BY <2>2, <3>1, <3>2, SentKeeps DEF WorkerRejects
  <2>3. CASE WorkerReceives(e)
    BY <1>6, <2>3 DEF WorkerReceives
  <2>4. CASE WorkerReplies(e)
    BY <1>1, <2>4, RepliesAre, SentKeeps DEF WorkerReplies
  <2>5. CASE WorkerBinds(e) \/ WorkerEnds(e) \/ WorkerRemoves(e)
    BY <1>1, <2>5 DEF WorkerBinds, WorkerEnds, WorkerRemoves
  <2>6. CASE WorkerCloses(e)
    BY <1>5, <2>6 DEF WorkerCloses
  <2> QED BY <1>10, <2>1, <2>2, <2>3, <2>4, <2>5, <2>6 DEF Worker
<1>11. ASSUME NEW e \in Ends, WorkerRefreshes(e) \/ RoutingSends(e) PROVE Mail(inbox')
  BY <1>3, <1>7, <1>11 DEF WorkerRefreshes, RoutingSends, Chats
<1>12. ASSUME NEW c \in Others, Learn(c) PROVE Mail(inbox')
  BY <1>1, <1>12 DEF Learn
<1> QED
  BY <1>8, <1>9, <1>10, <1>11, <1>12 DEF Next

-----------------------------------------------------------------------------
(***************************************************************************)
(* The inductive invariant: types, workers and tables                      *)
(***************************************************************************)

\* The types of what is neither a table nor a mailbox.
PlainTypes ==
    /\ id \in Pairs
    /\ phase \in Phases
    /\ trusts \in [Nodes -> BOOLEAN]
    /\ peer \in [Nodes -> {"unknown", "disconnected", "connected"}]
    /\ on \in [Nodes -> Conns \cup {None}]
    /\ open \subseteq Ends /\ registered \subseteq Ends /\ trusted \subseteq Ends
    /\ at \in [Ends -> {"none", "receive", "reply", "bind", "close", "remove"}]
    /\ handling \in [Ends -> Types \cup {"none"}]
    /\ told \subseteq Ids /\ queried \subseteq Ids /\ round \in 0 .. MaxRounds
    /\ chatter \in 0 .. MaxChatter /\ faults \in 0 .. MaxFaults

Tables ==
    /\ table \in [Nodes -> SUBSET Ids]
    /\ \A n \in Nodes : WellFormed(table[n], id[n])

LEMMA TypesAre == TypeOK <=> PlainTypes /\ inbox \in [Ends -> Seq(Messages)] /\ Tables
  BY DEF TypeOK, PlainTypes, Tables

\* The counters stay within their bounds.
LEMMA FailsCounts ==
    ASSUME TypeOK, NEW e, Fails(e)
    PROVE  chatter' \in 0 .. MaxChatter /\ faults' \in 0 .. MaxFaults
  BY JoiningAssumption DEF Fails, TypeOK, bounds

\* A new connection.
LEMMA ConnectTypes ==
    ASSUME TypeOK, NEW n \in Nodes, NEW c \in Conns, NEW token, Connect(n, c, token)
    PROVE  /\ on' \in [Nodes -> Conns \cup {None}]
           /\ open' \subseteq Ends /\ registered' \subseteq Ends
           /\ at' \in [Ends -> {"none", "receive", "reply", "bind", "close", "remove"}]
           /\ UNCHANGED <<id, trusts, peer, trusted, handling, table, chatter>>
<1>1. <<n, c>> \in Ends /\ <<Other(n), c>> \in Ends
  BY EndsAre DEF Ends
<1>2. on' \in [Nodes -> Conns \cup {None}]
  BY DEF Connect, TypeOK
<1>3. open' \subseteq Ends /\ registered' \subseteq Ends
  <2>1. open \subseteq Ends /\ registered \subseteq Ends
    BY DEF TypeOK
  <2>2. open' \subseteq open \cup {<<n, c>>, <<Other(n), c>>}
        /\ registered' \subseteq registered \cup {<<Other(n), c>>}
    <3>1. CASE CanRegister(Other(n))
      BY <3>1 DEF Connect
    <3>2. CASE ~CanRegister(Other(n))
      BY <3>2 DEF Connect
    <3> QED BY <3>1, <3>2
  <2> QED BY <1>1, <2>1, <2>2
<1>4. at' \in [Ends -> {"none", "receive", "reply", "bind", "close", "remove"}]
  <2>1. at' = at \/ at' = [at EXCEPT ![<<Other(n), c>>] = "receive"]
    BY DEF Connect
  <2> QED BY <2>1 DEF TypeOK
<1> QED
  BY <1>2, <1>3, <1>4 DEF Connect

\* A round asks contacts of the table.
LEMMA ToQueryIs ==
    ASSUME TypeOK
    PROVE  /\ ToQuery \subseteq FindClosest(table["joiner"], id["joiner"], K)
           /\ FindClosest(table["joiner"], id["joiner"], K) \subseteq table["joiner"]
           /\ table["joiner"] \subseteq Ids
<1>1. WellFormed(table["joiner"], id["joiner"])
  BY DEF TypeOK, Nodes
<1>2. table["joiner"] \subseteq Ids
  BY <1>1 DEF WellFormed
<1> QED
  BY <1>2 DEF ToQuery, FindClosest, Closest

\* Every step of run_join keeps these types.
LEMMA RunJoinTypes ==
    ASSUME TypeOK, MailInv, AloneInv, RunJoin
    PROVE  PlainTypes'
<1> USE DEF TypeOK, PlainTypes, local, sessions, worker, bounds
<1>1. ASSUME NEW c \in Conns, Join(c) PROVE PlainTypes'
  <2>1. Connect("joiner", c, TRUE) /\ "joiner" \in Nodes
    BY <1>1 DEF Join, Nodes
  <2> QED BY <1>1, <2>1, ConnectTypes DEF Join, Phases
<1>2. CASE JoinFails
  <2>1. chatter' \in 0 .. MaxChatter /\ faults' \in 0 .. MaxFaults
    BY <1>2, FailsCounts, JoiningAssumption DEF JoinFails
  <2> QED BY <1>2, <2>1 DEF JoinFails, Phases, Nodes
<1>3. CASE JoinAccepted
  <2>1. Mine \in Ends /\ "joiner" \in Nodes
    BY <1>3, MineIs DEF JoinAccepted, Nodes
  <2>2. Head(inbox[Mine]) \in Messages
    BY <1>3, <2>1, MailIs, TailKeeps DEF JoinAccepted
  <2>3. Head(inbox[Mine]).peers \subseteq Ids /\ id["inviter"] \in Ids
    BY <2>2, PairIs DEF Messages
  <2> HIDE DEF Mine
  <2> QED BY <1>3, <2>1, <2>3 DEF JoinAccepted, Phases
<1>4. CASE LookupRound
  <2>1. ToQuery \subseteq Ids
    BY ToQueryIs
  <2>2. round + 1 \in 0 .. MaxRounds
    BY <1>4, JoiningAssumption DEF LookupRound
  <2> HIDE DEF ToQuery
  <2> QED BY <1>4, <2>1, <2>2 DEF LookupRound, Phases
<1>5. CASE QueryAnswered \/ LookupDone \/ Announce \/ Announced
  BY <1>5 DEF QueryAnswered, LookupDone, Announce, Announced, Phases
<1>6. CASE QueryFails \/ AnnounceFails
  <2>1. chatter' \in 0 .. MaxChatter /\ faults' \in 0 .. MaxFaults
    BY <1>6, FailsCounts DEF QueryFails, AnnounceFails, Unexpected
  <2> QED BY <1>6, <2>1 DEF QueryFails, AnnounceFails, Drop, Removed, Phases, Nodes
<1>7. CASE Activate
  <2>1. Mine \in registered => Mine \in Ends
    OBVIOUS
  <2> QED BY <1>7, <2>1 DEF Activate, Phases, Nodes
<1> QED
  BY <1>1, <1>2, <1>3, <1>4, <1>5, <1>6, <1>7 DEF RunJoin

\* So does every other step.
LEMMA OtherTypes ==
    ASSUME TypeOK, ReplyInv, Next, ~RunJoin
    PROVE  PlainTypes'
<1> USE DEF TypeOK, PlainTypes, local, sessions, worker, bounds
<1>1. ASSUME NEW n \in Nodes, Reconnect(n) PROVE PlainTypes'
  <2>1. ASSUME NEW c \in Conns, Redial(n, c) PROVE PlainTypes'
    <3>1. Connect(n, c, FALSE)
      BY <2>1 DEF Redial
    <3>2. faults' \in 0 .. MaxFaults
      BY <2>1, JoiningAssumption DEF Redial
    <3> QED BY <2>1, <3>1, <3>2, ConnectTypes DEF Redial
  <2>2. CASE RedialAccepted(n)
    <3>1. <<n, on[n]>> \in Ends
      BY <2>2 DEF RedialAccepted, Dialling, Ends
    <3> QED BY <2>2, <3>1 DEF RedialAccepted
  <2>3. CASE RedialFails(n)
    <3>1. chatter' \in 0 .. MaxChatter /\ faults' \in 0 .. MaxFaults
      BY <2>3, FailsCounts DEF RedialFails
    <3> QED BY <2>3, <3>1 DEF RedialFails
  <2> QED BY <1>1, <2>1, <2>2, <2>3 DEF Reconnect
<1>2. ASSUME NEW e \in Ends, Worker(e) PROVE PlainTypes'
  <2>1. e[1] \in Nodes /\ "JOIN_REQUEST" \in Types
    BY EndsAre DEF Types
  <2>2. CASE WorkerAdmits(e)
    BY <2>1, <2>2 DEF WorkerAdmits, Touched
  <2>3. CASE WorkerRejects(e)
    <3>1. chatter' \in 0 .. MaxChatter /\ faults' \in 0 .. MaxFaults
      BY <2>3, JoiningAssumption DEF WorkerRejects
    <3> QED BY <2>3, <3>1 DEF WorkerRejects, Goes
  <2>4. CASE WorkerReceives(e)
    <3>1. Head(inbox[e]).type \in {"FIND_NODE", "NODE_ANNOUNCE"} => Head(inbox[e]).type \in Types
      BY DEF Types
    <3> QED BY <2>1, <2>4, <3>1 DEF WorkerReceives, Touched
  <2>5. CASE WorkerReplies(e)
    BY <2>5 DEF WorkerReplies
  <2>6. CASE WorkerBinds(e)
    BY <2>1, <2>6 DEF WorkerBinds, Goes
  <2>7. CASE WorkerEnds(e)
    <3>1. chatter' \in 0 .. MaxChatter /\ faults' \in 0 .. MaxFaults
      BY <2>7, FailsCounts DEF WorkerEnds
    <3> QED BY <2>7, <3>1 DEF WorkerEnds, Goes
  <2>8. CASE WorkerCloses(e)
    BY <2>8 DEF WorkerCloses, Goes
  <2>9. CASE WorkerRemoves(e)
    BY <2>1, <2>9 DEF WorkerRemoves, Removed
  <2> QED BY <1>2, <2>2, <2>3, <2>4, <2>5, <2>6, <2>7, <2>8, <2>9 DEF Worker
<1>3. ASSUME NEW e \in Ends, WorkerRefreshes(e) \/ RoutingSends(e) PROVE PlainTypes'
  BY <1>3, JoiningAssumption DEF WorkerRefreshes, RoutingSends, Chats
<1>4. ASSUME NEW c \in Others, Learn(c) PROVE PlainTypes'
  BY <1>4 DEF Learn
<1> QED
  BY <1>1, <1>2, <1>3, <1>4 DEF Next

\* What an acceptance makes of the joining node's table: what it was told.
LEMMA AcceptedIs ==
    ASSUME TypeOK, MailInv, AloneInv, KnownInv, JoinAccepted
    PROVE  /\ table'["joiner"] = told'
           /\ WellFormed(table'["joiner"], id["joiner"])
           /\ table'["inviter"] = table["inviter"]
           /\ id["inviter"] \in told'
           /\ trusts["inviter"] /\ trusts'["joiner"]
<1> DEFINE m == Head(inbox[Mine])
<1>1. Mine \in Ends /\ Mine[1] = "joiner" /\ inbox[Mine] # <<>> /\ m.accepted
  BY MineIs DEF JoinAccepted
<1>2. m \in Acceptances
  BY <1>1, MailIs, TailKeeps DEF TypeOK
<1>3. Storable(m.peers) /\ trusts["inviter"]
  BY <1>1, <1>2 DEF Acceptances
<1>4. id["joiner"] \in Ids /\ id["inviter"] \in Ids /\ id["joiner"] # id["inviter"]
  BY PairIs DEF TypeOK
<1>5. table["joiner"] = {}
  BY DEF KnownInv, JoinAccepted
<1>6. /\ table' = [table EXCEPT !["joiner"] = HandleJoinResponse(@, m)]
      /\ told' = ({id["inviter"]} \cup m.peers) \ {id["joiner"]}
      /\ trusts' = [trusts EXCEPT !["joiner"] = TRUE]
  BY DEF JoinAccepted
<1> HIDE DEF m
<1>7. HandleJoinResponse({}, m) = told' /\ WellFormed(told', id["joiner"])
  <2> DEFINE v == id["inviter"]
             j == id["joiner"]
             answer == m.peers
  <2>1. HandleJoinResponse({}, m) = InsertAll(Insert({}, j, v), j, answer)
    BY DEF HandleJoinResponse
  <2>2. /\ answer \subseteq Ids \ {v} /\ Cardinality(answer) <= K
        /\ j \in answer \/ \A c \in answer : BucketIndex(j, c) > BucketIndex(j, v)
    BY <1>3 DEF Storable
  <2>3. v \in Ids /\ j \in Ids /\ j # v /\ told' = ({v} \cup answer) \ {j}
    BY <1>4, <1>6
  <2> HIDE DEF v, j, answer
  <2>4. /\ InsertAll(Insert({}, j, v), j, answer) = ({v} \cup answer) \ {j}
        /\ WellFormed(InsertAll(Insert({}, j, v), j, answer), j)
    BY <2>2, <2>3, AnswerIsStored
  <2>5. HandleJoinResponse({}, m) = told' /\ WellFormed(told', j)
    BY <2>1, <2>3, <2>4
  <2> QED BY <2>5 DEF j
<1>8. DOMAIN trusts = Nodes /\ "joiner" \in Nodes /\ "inviter" \in Nodes
  BY DEF TypeOK, Nodes
<1>9. table'["joiner"] = told' /\ table'["inviter"] = table["inviter"]
  BY <1>5, <1>6, <1>7, <1>8 DEF TypeOK
<1> QED
  BY <1>3, <1>4, <1>6, <1>7, <1>8, <1>9

\* The table of a node only grows, by contacts its buckets have room for.  The
\* joining node's is the same in a step before it is active that neither accepts
\* it nor answers its query.
LEMMA TableStep ==
    ASSUME TypeOK, MailInv, ReplyInv, AloneInv, KnownInv, Next
    PROVE  /\ table' \in [Nodes -> SUBSET Ids]
           /\ \A n \in Nodes : WellFormed(table'[n], id[n]) /\ table[n] \subseteq table'[n]
           /\ Alone /\ ~JoinAccepted /\ ~QueryAnswered => table'["joiner"] = table["joiner"]
<1> DEFINE Grown(n) == WellFormed(table'[n], id[n]) /\ table[n] \subseteq table'[n]
<1>1. /\ "joiner" \in Nodes /\ "inviter" \in Nodes
      /\ table \in [Nodes -> SUBSET Ids]
      /\ \A n \in Nodes : id[n] \in Ids /\ id[Other(n)] \in Ids /\ WellFormed(table[n], id[n])
  BY PairIs DEF TypeOK, Nodes
<1>2. SUFFICES ASSUME table' # table
      PROVE  /\ table' \in [Nodes -> SUBSET Ids]
             /\ \A n \in Nodes : Grown(n)
             /\ Alone /\ ~JoinAccepted /\ ~QueryAnswered =>
                   table'["joiner"] = table["joiner"]
  BY <1>1
<1>3. ASSUME NEW n \in Nodes, NEW T, table' = [table EXCEPT ![n] = T],
             WellFormed(T, id[n]), table[n] \subseteq T
      PROVE  /\ table' \in [Nodes -> SUBSET Ids]
             /\ \A k \in Nodes : Grown(k)
             /\ n = "inviter" => table'["joiner"] = table["joiner"]
  <2>1. T \subseteq Ids
    BY <1>3 DEF WellFormed
  <2>2. table' \in [Nodes -> SUBSET Ids] /\ table'[n] = T
        /\ \A k \in Nodes \ {n} : table'[k] = table[k]
    BY <1>1, <1>3, <2>1
  <2> QED BY <1>1, <1>3, <2>2
<1> HIDE DEF Grown
<1>4. ASSUME NEW m \in Messages, NEW n \in Nodes,
             table' = [table EXCEPT ![n] = InsertAll(@, id[n], m.peers)]
      PROVE  /\ table' \in [Nodes -> SUBSET Ids]
             /\ \A k \in Nodes : Grown(k)
             /\ n = "inviter" => table'["joiner"] = table["joiner"]
  <2>1. m.peers \subseteq Ids
    BY DEF Messages
  <2>2. WellFormed(InsertAll(table[n], id[n], m.peers), id[n])
        /\ table[n] \subseteq InsertAll(table[n], id[n], m.peers)
    BY <1>1, <2>1, InsertAllKeeps
  <2> QED BY <1>3, <1>4, <2>2
<1>5. CASE JoinAccepted
  <2>1. table'["joiner"] = told' /\ WellFormed(table'["joiner"], id["joiner"])
        /\ table'["inviter"] = table["inviter"]
    BY <1>5, AcceptedIs
  <2>2. table' = [table EXCEPT !["joiner"] = table'["joiner"]] /\ table["joiner"] = {}
    BY <1>1, <1>5, <2>1 DEF JoinAccepted, KnownInv
  <2> QED BY <1>1, <1>3, <1>5, <2>1, <2>2
<1>6. CASE QueryAnswered
  <2>1. Mine \in Ends /\ inbox[Mine] # <<>>
    BY <1>6, MineIs DEF QueryAnswered, Awaited
  <2>2. Head(inbox[Mine]) \in Messages
    BY <2>1, MailIs, TailKeeps DEF TypeOK
  <2> QED BY <1>1, <1>4, <1>6, <2>2 DEF QueryAnswered
<1>7. ASSUME NEW c \in Others, Learn(c)
      PROVE  /\ table' \in [Nodes -> SUBSET Ids]
             /\ \A n \in Nodes : Grown(n)
             /\ table'["joiner"] = table["joiner"]
  <2>1. c \in Ids
    BY JoiningAssumption
  <2>2. WellFormed(Insert(table["inviter"], id["inviter"], c), id["inviter"])
        /\ table["inviter"] \subseteq Insert(table["inviter"], id["inviter"], c)
    BY <1>1, <2>1, InsertKeeps
  <2> QED BY <1>1, <1>3, <1>7, <2>2 DEF Learn
<1>8. ASSUME NEW e \in Ends, Worker(e)
      PROVE  /\ table' \in [Nodes -> SUBSET Ids]
             /\ \A n \in Nodes : Grown(n)
             /\ Alone => table'["joiner"] = table["joiner"]
  <2>1. e[1] \in Nodes
    BY EndsAre
  <2>2. Alone => at[e] = "none" \/ e[1] = "inviter"
    BY <2>1 DEF AloneInv, Nodes
  <2>3. CASE WorkerReceives(e)
    <3>1. Head(inbox[e]) \in Messages
      BY <2>3, MailIs, TailKeeps DEF TypeOK, WorkerReceives
    <3>2. table' = [table EXCEPT ![e[1]] = InsertAll(@, id[e[1]], Head(inbox[e]).peers)]
      BY <1>2, <2>3 DEF WorkerReceives
    <3>3. at[e] # "none"
      BY <2>3 DEF WorkerReceives
    <3> QED BY <1>4, <2>1, <2>2, <3>1, <3>2, <3>3
  <2>4. CASE WorkerReplies(e)
    <3>1. at[e] = "reply" /\ table' = [table EXCEPT ![e[1]] = KnownAfter(e[1], handling[e])]
      BY <2>4 DEF WorkerReplies
    <3>2. WellFormed(KnownAfter(e[1], handling[e]), id[e[1]])
          /\ table[e[1]] \subseteq KnownAfter(e[1], handling[e])
      BY <3>1, RepliesAre
    <3> QED BY <1>3, <2>1, <2>2, <3>1, <3>2
  <2> QED
    BY <1>2, <1>8, <2>3, <2>4 DEF Worker, WorkerAdmits, WorkerRejects, WorkerBinds, WorkerEnds,
                                  WorkerCloses, WorkerRemoves
<1>9. CASE RunJoin /\ ~JoinAccepted /\ ~QueryAnswered
  BY <1>2, <1>9 DEF RunJoin, Join, Connect, JoinFails, LookupRound, QueryFails, LookupDone,
                    Announce, Announced, AnnounceFails, Activate
<1>10. ASSUME NEW n \in Nodes, Reconnect(n) PROVE FALSE
  BY <1>2, <1>10 DEF Reconnect, Redial, Connect, RedialAccepted, RedialFails
<1>11. ASSUME NEW e \in Ends, WorkerRefreshes(e) \/ RoutingSends(e) PROVE FALSE
  BY <1>2, <1>11 DEF WorkerRefreshes, RoutingSends, Chats
<1> QED
  BY <1>5, <1>6, <1>7, <1>8, <1>9, <1>10, <1>11 DEF Next, Grown

\* Who is asked for and what is decided about it stays so until the answer.
LEMMA ReplyStep ==
    ASSUME TypeOK, ReplyInv, Next
    PROVE  ReplyInv'
<1>1. \A n \in Nodes : trusts[n] => trusts'[n]
  BY Keeps
<1>2. SUFFICES ASSUME NEW x \in Ends, at'[x] = "reply"
      PROVE  /\ handling'[x] \in {"JOIN_REQUEST", "FIND_NODE", "NODE_ANNOUNCE"}
             /\ handling'[x] = "JOIN_REQUEST" => trusts'[x[1]]
  BY DEF ReplyInv
<1>3. x[1] \in Nodes /\ DOMAIN at = Ends /\ DOMAIN handling = Ends
  BY EndsAre DEF TypeOK
<1>4. CASE at[x] = "reply" /\ handling'[x] = handling[x]
  BY <1>1, <1>3, <1>4 DEF ReplyInv
<1>5. CASE RunJoin
  BY <1>2, <1>3, <1>4, <1>5
     DEF RunJoin, Join, Connect, JoinFails, JoinAccepted, LookupRound, QueryAnswered, QueryFails,
         LookupDone, Announce, Announced, AnnounceFails, Activate, worker
<1>6. ASSUME NEW n \in Nodes, Reconnect(n)
      PROVE  at[x] = "reply" /\ handling'[x] = handling[x]
  BY <1>2, <1>3, <1>6 DEF Reconnect, Redial, Connect, RedialAccepted, RedialFails, worker
<1>7. ASSUME NEW e \in Ends, Worker(e)
      PROVE  /\ handling'[x] \in {"JOIN_REQUEST", "FIND_NODE", "NODE_ANNOUNCE"}
             /\ handling'[x] = "JOIN_REQUEST" => trusts'[x[1]]
  <2>1. CASE WorkerAdmits(e)
    <3>1. trusts' = [trusts EXCEPT ![e[1]] = TRUE] /\ DOMAIN trusts = Nodes
      BY <2>1 DEF WorkerAdmits, TypeOK
    <3>2. CASE x = e
      BY <1>3, <2>1, <3>1, <3>2 DEF WorkerAdmits
    <3>3. CASE x # e
      BY <1>2, <1>3, <1>4, <2>1, <3>3 DEF WorkerAdmits
    <3> QED BY <3>2, <3>3
  <2>2. CASE WorkerReceives(e)
    <3>1. CASE x = e /\ Head(inbox[e]).type \in {"FIND_NODE", "NODE_ANNOUNCE"}
      BY <1>3, <2>2, <3>1 DEF WorkerReceives
    <3>2. CASE ~(x = e /\ Head(inbox[e]).type \in {"FIND_NODE", "NODE_ANNOUNCE"})
      BY <1>2, <1>3, <1>4, <2>2, <3>2 DEF WorkerReceives
    <3> QED BY <3>1, <3>2
  <2>3. CASE WorkerReplies(e)
    <3>1. at'[e] # "reply"
      BY <1>3, <2>3 DEF WorkerReplies
    <3>2. x # e
      BY <1>2, <3>1
    <3> QED BY <1>2, <1>3, <1>4, <2>3, <3>2 DEF WorkerReplies
  <2>4. CASE WorkerRejects(e) \/ WorkerBinds(e) \/ WorkerEnds(e) \/ WorkerCloses(e)
    BY <1>2, <1>3, <1>4, <2>4 DEF WorkerRejects, WorkerBinds, WorkerEnds, WorkerCloses, Goes
  <2>5. CASE WorkerRemoves(e)
    <3>1. at'[e] = "none"
      BY <1>3, <2>5 DEF WorkerRemoves
    <3>2. x # e
      BY <1>2, <3>1
    <3> QED BY <1>2, <1>3, <1>4, <2>5, <3>2 DEF WorkerRemoves
  <2> QED BY <1>7, <2>1, <2>2, <2>3, <2>4, <2>5 DEF Worker
<1>8. ASSUME NEW e \in Ends, WorkerRefreshes(e) \/ RoutingSends(e)
      PROVE  at[x] = "reply" /\ handling'[x] = handling[x]
  BY <1>2, <1>8 DEF WorkerRefreshes, RoutingSends, Chats, worker
<1>9. ASSUME NEW c \in Others, Learn(c) PROVE at[x] = "reply" /\ handling'[x] = handling[x]
  BY <1>2, <1>9 DEF Learn, worker
<1> QED
  BY <1>4, <1>5, <1>6, <1>7, <1>8, <1>9 DEF Next

\* What the other threads leave alone.
LEMMA OthersKeep ==
    ASSUME TypeOK, Next, ~RunJoin
    PROVE  /\ UNCHANGED <<id, phase, told, queried, round>>
           /\ Alone => on'["joiner"] = on["joiner"]
<1> USE DEF local
<1>1. ASSUME NEW n \in Nodes, Reconnect(n)
      PROVE  /\ UNCHANGED <<id, phase, told, queried, round>>
             /\ Alone => on'["joiner"] = on["joiner"]
  <2>1. UNCHANGED <<id, phase, told, queried, round>>
    BY <1>1 DEF Reconnect, Redial, Connect, RedialAccepted, RedialFails
  <2>2. on' = [on EXCEPT ![n] = on'[n]] /\ Running(n)
    BY <1>1 DEF Reconnect, Redial, Connect, RedialAccepted, RedialFails, Dialling, TypeOK
  <2>3. Alone => n # "joiner"
    BY <2>2 DEF Alone, Running
  <2>4. DOMAIN on = Nodes /\ "joiner" \in Nodes
    BY DEF TypeOK, Nodes
  <2>5. n # "joiner" => on'["joiner"] = on["joiner"]
    BY <2>2, <2>4
  <2>6. Alone => on'["joiner"] = on["joiner"]
    BY <2>3, <2>5
  <2> QED BY <2>1, <2>6
<1>2. ASSUME NEW e \in Ends, Worker(e)
      PROVE  UNCHANGED <<id, phase, told, queried, round, on>>
  BY <1>2 DEF Worker, WorkerAdmits, WorkerRejects, WorkerReceives, WorkerReplies, WorkerBinds,
              WorkerEnds, WorkerCloses, WorkerRemoves
<1>3. ASSUME NEW e \in Ends, WorkerRefreshes(e) \/ RoutingSends(e)
      PROVE  UNCHANGED <<id, phase, told, queried, round, on>>
  BY <1>3 DEF WorkerRefreshes, RoutingSends, Chats
<1>4. ASSUME NEW c \in Others, Learn(c)
      PROVE  UNCHANGED <<id, phase, told, queried, round, on>>
  BY <1>4 DEF Learn
<1> QED
  BY <1>1, <1>2, <1>3, <1>4 DEF Next

\* A joining node stays alone until it is active, and its connection stays.
LEMMA AloneStep ==
    ASSUME TypeOK, AloneInv, Next
    PROVE  AloneInv'
<1>1. ASSUME NEW x \in Ends, x[1] = "joiner", Alone'
      PROVE  at'[x] = "none"
  <2>1. /\ DOMAIN at = Ends /\ x = <<x[1], x[2]>> /\ Other("joiner") = "inviter"
        /\ Other("inviter") = "joiner"
    BY EndsAre DEF TypeOK
  <2>2. Alone
    BY <1>1, OthersKeep DEF Alone, RunJoin, Join, JoinFails, JoinAccepted, LookupRound,
                            QueryAnswered, QueryFails, LookupDone, Announce, Announced,
                            AnnounceFails, Activate
  <2>3. at[x] = "none"
    BY <1>1, <2>2 DEF AloneInv
  <2>4. CASE at' = at
    BY <2>3, <2>4
  <2>5. ASSUME NEW c \in Conns, Join(c) PROVE at'[x] = "none"
    <3>1. at' = at \/ at' = [at EXCEPT ![<<"inviter", c>>] = "receive"]
      BY <2>1, <2>5 DEF Join, Connect
    <3>2. x # <<"inviter", c>>
      BY <1>1
    <3> QED BY <2>1, <2>3, <3>1, <3>2
  <2>6. CASE RunJoin
    BY <1>1, <2>4, <2>5, <2>6 DEF RunJoin, JoinFails, JoinAccepted, LookupRound, QueryAnswered,
        QueryFails, LookupDone, Announce, Announced, AnnounceFails, Activate, Alone, worker
  <2>7. ASSUME NEW n \in Nodes, Reconnect(n) PROVE at'[x] = "none"
    <3>1. ASSUME NEW c \in Conns, Redial(n, c) PROVE FALSE
      BY <2>1, <2>2, <3>1 DEF Redial, Running, Alone, Nodes
    <3>2. CASE RedialAccepted(n)
      <4>1. n # "joiner"
        BY <2>2, <3>2 DEF RedialAccepted, Dialling, Running, Alone
      <4>2. x # <<n, on[n]>>
        BY <1>1, <4>1
      <4> QED BY <2>1, <2>3, <3>2, <4>2 DEF RedialAccepted
    <3>3. CASE RedialFails(n)
      BY <2>4, <3>3 DEF RedialFails, worker
    <3> QED BY <2>7, <3>1, <3>2, <3>3 DEF Reconnect
  <2>8. ASSUME NEW e \in Ends, Worker(e) PROVE at'[x] = "none"
    <3>1. at[e] # "none"
      BY <2>8 DEF Worker, WorkerAdmits, WorkerRejects, WorkerReceives, WorkerReplies, WorkerBinds,
                  WorkerEnds, WorkerCloses, WorkerRemoves
    <3>2. x # e
      BY <2>3, <3>1
    <3>3. at' = [at EXCEPT ![e] = at'[e]]
      BY <2>1, <2>8 DEF Worker, WorkerAdmits, WorkerRejects, WorkerReceives, WorkerReplies,
                   WorkerBinds, WorkerEnds, WorkerCloses, WorkerRemoves, Goes, TypeOK
    <3> QED BY <2>1, <2>3, <3>2, <3>3
  <2>9. ASSUME NEW e \in Ends, WorkerRefreshes(e) \/ RoutingSends(e) PROVE at'[x] = "none"
    BY <2>4, <2>9 DEF WorkerRefreshes, RoutingSends, Chats, worker
  <2>10. ASSUME NEW c \in Others, Learn(c) PROVE at'[x] = "none"
    BY <2>4, <2>10 DEF Learn, worker
  <2> QED BY <2>6, <2>7, <2>8, <2>9, <2>10 DEF Next
<1>2. ASSUME phase' \notin {"connect", "failed", "active"} PROVE on'["joiner"] \in Conns
  <2>1. CASE ~RunJoin
    BY <1>2, <2>1, OthersKeep DEF AloneInv, Alone
  <2>2. ASSUME NEW c \in Conns, Join(c) PROVE on'["joiner"] \in Conns
    BY <2>2 DEF Join, Connect, TypeOK, Nodes
  <2> QED
    BY <1>2, <2>1, <2>2 DEF RunJoin, JoinFails, JoinAccepted, LookupRound, QueryAnswered,
        QueryFails, LookupDone, Announce, Announced, AnnounceFails, Activate, AloneInv, local
<1> QED
  BY <1>1, <1>2 DEF AloneInv

\* What the joining node knows stays in its table.
LEMMA KnownStep ==
    ASSUME TypeOK, MailInv, ReplyInv, AloneInv, KnownInv, Next
    PROVE  KnownInv'
<1>1. /\ id' = id /\ \A n \in Nodes : trusts[n] => trusts'[n]
      /\ \A n \in Nodes : table[n] \subseteq table'[n]
      /\ Alone /\ ~JoinAccepted /\ ~QueryAnswered => table'["joiner"] = table["joiner"]
      /\ "joiner" \in Nodes
  BY Keeps, TableStep DEF Nodes
<1>2. CASE ~RunJoin
  BY <1>1, <1>2, OthersKeep DEF KnownInv, Alone, RunJoin
<1>3. ASSUME NEW c \in Conns, Join(c) PROVE KnownInv'
  BY <1>1, <1>3 DEF Join, JoinAccepted, QueryAnswered, KnownInv, Alone
<1>4. CASE JoinFails
  BY <1>1, <1>4 DEF JoinFails, KnownInv
<1>5. CASE JoinAccepted
  BY <1>1, <1>5, AcceptedIs DEF JoinAccepted, KnownInv, Nodes
<1>6. CASE LookupRound \/ QueryAnswered \/ QueryFails \/ LookupDone \/ Announce \/ Announced
           \/ AnnounceFails \/ Activate
  <2>1. /\ told' = told /\ phase \notin {"connect", "response", "failed"}
        /\ phase' \notin {"connect", "response", "failed"}
    BY <1>6 DEF LookupRound, QueryAnswered, QueryFails, LookupDone, Announce, Announced,
                AnnounceFails, Activate
  <2> QED BY <1>1, <2>1 DEF KnownInv
<1> QED
  BY <1>2, <1>3, <1>4, <1>5, <1>6 DEF RunJoin

\* The lookup asks the inviter when it has to.
LEMMA LookupStep ==
    ASSUME TypeOK, MailInv, ReplyInv, AloneInv, KnownInv, LookupInv, Next
    PROVE  LookupInv'
<1> DEFINE v == id["inviter"]
           j == id["joiner"]
<1>1. /\ id' = id
      /\ Alone /\ ~JoinAccepted /\ ~QueryAnswered => table'["joiner"] = table["joiner"]
  BY Keeps, TableStep
<1>2. j \in Ids /\ told \subseteq Ids
  BY PairIs DEF TypeOK
<1>3. ASSUME phase = "lookup", v \notin queried, ToAskInviter
      PROVE  /\ round < MaxRounds /\ ToQuery # {}
             /\ ToQuery \subseteq FindClosest(told, j, K)
             /\ v \notin ToQuery => Cardinality(queried \cup ToQuery) >= Alpha * (round + 1)
  <2>1. /\ table["joiner"] = told /\ queried \subseteq FindClosest(told, j, K)
        /\ Cardinality(queried) >= Alpha * round
        /\ v \in FindClosest(told, j, K) /\ round \in 0 .. MaxRounds
    BY <1>3 DEF LookupInv, ToAskInviter, TypeOK
  <2>2. ToQuery = Closest(FindClosest(told, j, K) \ queried, j, Alpha)
    BY <2>1 DEF ToQuery
  <2> HIDE DEF v, j
  <2>3. v \notin queried
    BY <1>3
  <2> QED BY <1>2, <2>1, <2>2, <2>3, LookupGoesOn
<1>4. CASE ~RunJoin
  <2>1. UNCHANGED <<id, phase, told, queried, round>>
    BY <1>4, OthersKeep
  <2>2. Alone => table'["joiner"] = table["joiner"]
    BY <1>1, <1>4 DEF RunJoin
  <2> QED BY <2>1, <2>2 DEF LookupInv, Alone, ToAskInviter
<1>5. ASSUME NEW c \in Conns, Join(c) PROVE LookupInv'
  BY <1>5 DEF Join, LookupInv
<1>6. CASE JoinFails
  BY <1>6 DEF JoinFails, LookupInv
<1>7. CASE JoinAccepted
  <2>1. table'["joiner"] = told' /\ queried' = {} /\ round' = 0 /\ phase' = "lookup"
    BY <1>7, AcceptedIs DEF JoinAccepted, LookupInv
  <2>2. Cardinality(queried') >= Alpha * round'
    BY <2>1, FS_EmptySet, JoiningAssumption
  <2> QED BY <2>1, <2>2 DEF LookupInv
<1>8. CASE LookupRound
  <2>1. /\ phase = "lookup" /\ queried' = queried \cup ToQuery /\ round' = round + 1
        /\ told' = told /\ table' = table
        /\ phase' = IF v \in ToQuery THEN "neighbors" ELSE "lookup"
    BY <1>8 DEF LookupRound
  <2>2. CASE v \in ToQuery
    BY <1>1, <2>1, <2>2 DEF LookupInv
  <2>3. CASE v \notin ToQuery
    <3>1. ToAskInviter' <=> ToAskInviter
      BY <1>1, <2>1 DEF ToAskInviter
    <3>2. ASSUME v \notin queried PROVE
            /\ table["joiner"] = told
            /\ ToAskInviter => /\ queried' \subseteq FindClosest(told, j, K)
                               /\ Cardinality(queried') >= Alpha * round'
      BY <1>3, <2>1, <2>3, <3>2 DEF LookupInv
    <3> QED BY <1>1, <2>1, <2>3, <3>1, <3>2 DEF LookupInv
  <2> QED BY <2>2, <2>3
<1>9. CASE QueryAnswered \/ QueryFails
  <2>1. phase = "neighbors" /\ queried' = queried /\ phase' = "lookup" /\ v \in queried
    BY <1>9 DEF QueryAnswered, QueryFails, LookupInv
  <2> QED BY <1>1, <2>1 DEF LookupInv
<1>10. CASE LookupDone
  <2>1. /\ phase = "lookup" /\ phase' = "announce" /\ queried' = queried /\ told' = told
        /\ round = MaxRounds \/ ToQuery = {}
    BY <1>10 DEF LookupDone
  <2>2. ToAskInviter => v \in queried
    <3>1. round = MaxRounds => ~(round < MaxRounds)
      BY JoiningAssumption
    <3> QED BY <1>3, <2>1, <3>1
  <2> QED BY <1>1, <2>1, <2>2 DEF LookupInv, ToAskInviter
<1>11. CASE Announce \/ Announced \/ AnnounceFails \/ Activate
  <2>1. /\ phase \in {"announce", "ack", "start"} /\ phase' \in {"ack", "start", "active"}
        /\ queried' = queried /\ told' = told
    BY <1>11 DEF Announce, Announced, AnnounceFails, Activate
  <2> QED BY <1>1, <2>1 DEF LookupInv, ToAskInviter
<1> QED
  BY <1>4, <1>5, <1>6, <1>7, <1>8, <1>9, <1>10, <1>11 DEF RunJoin

-----------------------------------------------------------------------------
(***************************************************************************)
(* The theorems                                                            *)
(***************************************************************************)

\* At the start both tables are empty and nothing is under way.
LEMMA InitIInv == Init => IInv
<1> SUFFICES ASSUME Init PROVE IInv
  OBVIOUS
<1> USE DEF Init, local, sessions, worker, bounds
<1>1. PlainTypes
  BY JoiningAssumption DEF PlainTypes, Phases, Nodes
<1>2. Tables
  <2>1. ASSUME NEW n \in Nodes PROVE WellFormed({}, id[n])
    <3>1. \A i : Bucket({}, id[n], i) = {}
      BY DEF Bucket
    <3>2. Cardinality({}) <= K
      BY FS_EmptySet, KademliaAssumption
    <3> QED BY <3>1, <3>2 DEF WellFormed
  <2>2. table \in [Nodes -> SUBSET Ids] /\ \A n \in Nodes : table[n] = {}
    OBVIOUS
  <2> QED BY <2>1, <2>2 DEF Tables
<1>3. \A S : <<>> \in Seq(S)
  OBVIOUS
<1>4. inbox \in [Ends -> Seq(Messages)] /\ MailInv
  BY <1>3 DEF MailInv
<1>5. ReplyInv /\ AloneInv
  BY DEF ReplyInv, AloneInv
<1>6. KnownInv
  BY DEF KnownInv, Nodes
<1>7. LookupInv
  BY DEF LookupInv
<1> QED
  BY <1>1, <1>2, <1>4, <1>5, <1>6, <1>7, TypesAre DEF IInv

\* Every step of the two nodes keeps the invariant.
LEMMA NextIInv == IInv /\ [Next]_vars => IInv'
<1> SUFFICES ASSUME IInv, [Next]_vars PROVE IInv'
  OBVIOUS
<1>1. TypeOK /\ MailInv /\ ReplyInv /\ AloneInv /\ KnownInv /\ LookupInv
  BY DEF IInv
<1>2. CASE Next
  <2>1. PlainTypes'
    BY <1>1, <1>2, RunJoinTypes, OtherTypes
  <2>2. Tables'
    BY <1>1, <1>2, TableStep, Keeps DEF Tables
  <2>3. inbox' \in [Ends -> Seq(Messages)] /\ MailInv'
    BY <1>1, <1>2, MailStep
  <2>4. TypeOK'
    BY <2>1, <2>2, <2>3 DEF TypeOK, PlainTypes, Tables
  <2>5. ReplyInv' /\ AloneInv' /\ KnownInv' /\ LookupInv'
    BY <1>1, <1>2, ReplyStep, AloneStep, KnownStep, LookupStep
  <2> QED BY <2>3, <2>4, <2>5 DEF IInv
<1>3. CASE UNCHANGED vars
  <2> USE <1>3 DEF vars, local, sessions, worker, bounds
  <2>1. TypeOK'
    BY <1>1 DEF TypeOK
  <2>2. MailInv'
    BY <1>1 DEF MailInv, Acceptances, Storable
  <2>3. ReplyInv' /\ AloneInv' /\ KnownInv'
    BY <1>1 DEF ReplyInv, AloneInv, Alone, KnownInv
  <2>4. LookupInv'
    BY <1>1 DEF LookupInv, ToAskInviter
  <2> QED BY <2>1, <2>2, <2>3, <2>4 DEF IInv
<1> QED
  BY <1>2, <1>3

\* What the invariant says of a node that is active: that fewer than K contacts of
\* the answer are nearer makes the inviter one of those the lookup must ask.
LEMMA IInvImplies == IInv => TypeOK /\ JoinComplete
<1> SUFFICES ASSUME IInv PROVE JoinComplete
  BY DEF IInv
<1>1. told \subseteq table["joiner"]
  BY DEF IInv, KnownInv
<1>2. ASSUME phase = "active"
      PROVE  /\ \A n \in Nodes : trusts[n]
             /\ Cardinality(Nearer(told, id["joiner"], id["inviter"])) < K =>
                   id["inviter"] \in queried
  <2>1. (\A n \in Nodes : trusts[n]) /\ id["inviter"] \in told
    BY <1>2 DEF IInv, KnownInv
  <2>2. ToAskInviter => id["inviter"] \in queried
    BY <1>2 DEF IInv, LookupInv
  <2>3. Cardinality(Nearer(told, id["joiner"], id["inviter"])) < K => ToAskInviter
    BY <2>1 DEF ToAskInviter, FindClosest, Closest
  <2> QED BY <2>1, <2>2, <2>3
<1> QED
  BY <1>1, <1>2 DEF JoinComplete

LEMMA SpecIInv == Spec => []IInv
  BY InitIInv, NextIInv, PTL DEF Spec

\* kademlia_insert is called with whatever a message or another session brings:
\* no bucket ever holds more than K contacts, no node is its own contact, and the
\* two daemons, their workers and their counters stay where the code expects them.
THEOREM JoiningTypes == Spec => []TypeOK
  BY SpecIInv, IInvImplies, PTL

\* A join is complete whatever the ids: the two nodes trust each other before the
\* joining node runs, all contacts of the JOIN_RESPONSE and the inviter on top of
\* them fit into the buckets although these take no more than K, and the lookup,
\* which stops after max_rounds, has asked the inviter unless K contacts are
\* nearer.  That the answer fits rests on the inviter: what it leaves out of its
\* own table is missing because a bucket is full of nodes nearer to the new one.
THEOREM JoinIsComplete == Spec => []JoinComplete
  BY SpecIInv, IInvImplies, PTL
=============================================================================
