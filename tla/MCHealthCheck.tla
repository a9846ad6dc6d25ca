--------------------------- MODULE MCHealthCheck ---------------------------
(* Constants for checking ReplicationSetup and HealthCheck.                  *)
EXTENDS HealthCheck

MCSetupAll == {[verb |-> "setup-replication", node |-> All]}
MCCommand == [verb : Verb, node : {1, All}]
MCTable == {"orders", "users"}
MCKeyType == [t \in MCTable |-> "serial"]
MCForeign == [t \in MCTable |-> IF t = "orders" THEN {[table |-> "users", type |-> "uuid"]} ELSE {}]
MCNodeOrder == [i \in Node |-> i]
MCStray == [n \in Node |-> IF n = 1 THEN 1 ELSE 0]
=============================================================================
