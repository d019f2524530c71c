----------------------------- MODULE MCAdjacency -----------------------------
(* Instances of Adjacency for TLC. *)
EXTENDS Adjacency, TLC

CONSTANTS n1, n2, n3, eth0

OneLink == [n \in Nbr |-> eth0]
Alike   == Permutations(Nbr)
=============================================================================
