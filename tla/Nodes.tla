------------------------------- MODULE Nodes -------------------------------
(* The entries of nodes.json, identified by their "name".                   *)
CONSTANT Node
=============================================================================
