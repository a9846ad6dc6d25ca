----------------------------- MODULE MCLwwTable -----------------------------
(* Constants for checking LwwTable.                                          *)
EXTENDS LwwTable

CONSTANTS a, b, v1, v2

MCNode2 == {a, b}
MCValue == {v1, v2}
=============================================================================
