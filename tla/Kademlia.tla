------------------------------ MODULE Kademlia ------------------------------
(***************************************************************************)
(* The table of contacts a node keeps (kademlia.cpp).  A table is the set  *)
(* of the ids in it: the bucket of a contact follows from its id, and the  *)
(* order inside a bucket matters only to ping_fn, which no caller in the   *)
(* daemon passes, so that a contact for a full bucket is refused.          *)
(*                                                                         *)
(* An id is the set of its one bits, where bit 0 is the first bit of the   *)
(* first byte.  The exclusive or of two ids is then the bits that only one *)
(* of them has, and ids and distances, which the code compares byte by     *)
(* byte, are decided by the first bit in which they differ.                *)
(***************************************************************************)
EXTENDS Naturals, FiniteSets

CONSTANTS
    IdBits, \* KADEMLIA_BUCKETS: the bits of an id
    K       \* KADEMLIA_K: the contacts in a bucket and in an answer

ASSUME KademliaAssumption == IdBits \in Nat \ {0} /\ K \in Nat \ {0}

Bits == 0 .. IdBits - 1

Ids == SUBSET Bits \ {{}}  \* no node has the id 0

First(bits) == CHOOSE i \in bits : \A j \in bits : i <= j

\* kademlia_distance
Distance(a, b) == (a \ b) \cup (b \ a)

\* The order of ids and of distances: b has the first bit that differs.
Below(a, b) == a # b /\ First(Distance(a, b)) \in b

\* kademlia_bucket_index: the number of leading bits two ids share.
BucketIndex(local, remote) ==
    IF remote = local THEN IdBits ELSE First(Distance(local, remote))

Bucket(table, local, i) == {c \in table : BucketIndex(local, c) = i}

\* Mutant: a bucket takes any number of contacts.
InsertAlways(table, local, contact) ==
    IF contact # local THEN table \cup {contact} ELSE table

\* kademlia_insert
Insert(table, local, contact) ==
    LET bucket == Bucket(table, local, BucketIndex(local, contact)) IN
    IF contact # local /\ (contact \in bucket \/ Cardinality(bucket) < K)
    THEN table \cup {contact}
    ELSE table

\* The contacts of a set that are nearer to the target than a given one.
Nearer(contacts, target, contact) ==
    {c \in contacts : Below(Distance(c, target), Distance(contact, target))}

\* The first of the contacts, sorted by their distance to the target.
Closest(contacts, target, count) ==
    {c \in contacts : Cardinality(Nearer(contacts, target, c)) < count}

\* Mutant: one contact too many is kept.
FindOneMore(table, target, count) == Closest(table, target, count + 1)

\* kademlia_find_closest
FindClosest(table, target, count) == Closest(table, target, count)

\* The loops that insert the contacts of an answer.  Every answer of the daemon
\* is sorted by the distance to the node that receives it, so that of the new
\* contacts of a bucket the nearest find room.
InsertAll(table, local, contacts) ==
    LET new == contacts \ (table \cup {local})
        Room(i) == K - Cardinality(Bucket(table, local, i))
    IN  table \cup UNION {Closest(Bucket(new, local, i), local, Room(i)) : i \in Bits}

\* The buckets keep their limit and the node is not its own contact.
WellFormed(table, local) ==
    /\ table \subseteq Ids \ {local}
    /\ \A i \in Bits : Cardinality(Bucket(table, local, i)) <= K
=============================================================================
