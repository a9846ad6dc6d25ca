--------------------------- MODULE MCHlcSessions ---------------------------
(* Constants for checking HlcSessions.                                      *)
EXTENDS HlcSessions

CONSTANTS s1, s2

MCSession == {s1, s2}
MCRank == [n \in Node |-> n]
MCIncoming == {[ts |-> 1, counter |-> 0], [ts |-> 2, counter |-> 3]}
=============================================================================
