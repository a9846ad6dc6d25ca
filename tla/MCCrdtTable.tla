---------------------------- MODULE MCCrdtTable ----------------------------
(* Constants for checking CrdtTable: the nodes are numbers, which are their *)
(* own rank.                                                                *)
EXTENDS CrdtTable

CONSTANTS v1, v2

MCValue == {v1, v2}
MCRank == [n \in Node |-> n]
MCSeedRow == [val |-> v1, hlc |-> [ts |-> 1, counter |-> 1], node |-> 1]
=============================================================================
