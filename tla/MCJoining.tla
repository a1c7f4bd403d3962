----------------------------- MODULE MCJoining ------------------------------
EXTENDS Joining

\* Ids of three bits, by their numbers.
Id(number) == {i \in Bits : (number \div 2^(IdBits - 1 - i)) % 2 = 1}

\* Either of the two may have the lower id; the inviter's half of the ids can
\* be full of nodes nearer to the joining one, or nearer to itself.
BothOrders == {[joiner |-> Id(1), inviter |-> Id(4)],
               [joiner |-> Id(5), inviter |-> Id(1)]}

Contacts == {Id(2), Id(3), Id(6)}
=============================================================================
