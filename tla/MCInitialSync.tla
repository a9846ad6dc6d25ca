--------------------------- MODULE MCInitialSync ---------------------------
(* Constants for checking InitialSync.                                       *)
EXTENDS InitialSync

MCNodeOrder == [i \in Node |-> i]
MCEmpty == [n \in Node |-> {}]
MCJoin == [n \in Node |-> IF n = 3 THEN {} ELSE {"r1"}]
=============================================================================
