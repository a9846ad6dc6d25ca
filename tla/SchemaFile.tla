---------------------------- MODULE SchemaFile ----------------------------
(***************************************************************************)
(* What generate makes of schema.json: generated.sql creates one table     *)
(* after the other in the order of a Go map, which is another one each     *)
(* time, and a foreign key is part of its CREATE TABLE.                    *)
(***************************************************************************)
EXTENDS Integers, Sequences, FiniteSets

CONSTANTS
    Table,    \* the tables of schema.json
    KeyType,  \* KeyType[t]: the data type of t's primary key
    Foreign   \* Foreign[t]: the tables t refers to and the types of its columns

ASSUME SchemaAssumption ==
    /\ IsFiniteSet(Table)
    /\ KeyType \in [Table -> STRING]
    /\ Foreign \in [Table -> SUBSET [table : Table, type : STRING]]

\* The orders in which a range over the map may visit the tables.
File == {f \in [1..Cardinality(Table) -> Table] :
            \A i, j \in DOMAIN f : f[i] = f[j] => i = j}

\* A serial primary key becomes a uuid; other columns keep their type.
Generated(type) == IF type = "serial" THEN "uuid" ELSE type

\* CREATE TABLE accepts the foreign keys of t when the given tables exist.
Creatable(t, present) ==
    \A fk \in Foreign[t] :
        fk.table \in present \cup {t} /\ fk.type = Generated(KeyType[fk.table])

\* Run in one transaction, the file creates every table or none.
Loads(f) == \A i \in DOMAIN f : Creatable(f[i], {f[j] : j \in 1..(i - 1)})
=============================================================================
