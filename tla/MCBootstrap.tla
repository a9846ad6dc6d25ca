---------------------------- MODULE MCBootstrap ----------------------------
(* Constants for checking Bootstrap: a cluster without containers, two        *)
(* containers that join one node, and three containers started together.     *)
EXTENDS Bootstrap, MCInitialSync

MCDeployments ==
    {[containers |-> {}, rows |-> Row, kills |-> 0],
     [containers |-> {1, 2}, rows |-> {"r1"}, kills |-> 1],
     [containers |-> Node, rows |-> {}, kills |-> 0]}

MCGap == {[containers |-> {2}, rows |-> Row, kills |-> 0]}
=============================================================================
