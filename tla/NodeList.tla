------------------------------ MODULE NodeList ------------------------------
(* The nodes in the order of nodes.json, and the loops over them.           *)
EXTENDS Nodes, Integers, Sequences, FiniteSets

CONSTANT NodeOrder   \* the nodes in the order of nodes.json

ASSUME OrderAssumption ==
    /\ IsFiniteSet(Node) /\ Node # {}
    /\ NodeOrder \in [1..Cardinality(Node) -> Node]
    /\ \A n \in Node : \E i \in DOMAIN NodeOrder : NodeOrder[i] = n
    /\ \A i, j \in DOMAIN NodeOrder : NodeOrder[i] = NodeOrder[j] => i = j

\* The other nodes, in the order of nodes.json.
Others(n) ==
    [i \in 1..(Len(NodeOrder) - 1) |->
        NodeOrder[IF \E j \in 1..i : NodeOrder[j] = n THEN i + 1 ELSE i]]

\* A mutant of Pairs: the loop over the publishers visits the subscriber too.
PairsWithSelf ==
    LET N == Len(NodeOrder)
    IN  [i \in 1..(N * N) |-> <<NodeOrder[((i - 1) \div N) + 1], NodeOrder[((i - 1) % N) + 1]>>]

\* Subscribers and publishers as the nested loops of the setup visit them: each
\* node with all others, one node after the other.
Pairs ==
    LET M == Len(NodeOrder) - 1
        at(i) == LET s == NodeOrder[(i \div M) + 1] IN <<s, Others(s)[(i % M) + 1]>>
    IN  [i \in 1..(Len(NodeOrder) * M) |-> at(i - 1)]
=============================================================================
