------------------------------ MODULE Catalog ------------------------------
(***************************************************************************)
(* What the PostgreSQL servers remember of the replication topology, and   *)
(* the calls pgconverge makes to change it.  A pair <<s, p>> stands for    *)
(* the name sub_<s>_from_<p>, which the subscription on s and its slot on  *)
(* p share.                                                                *)
(***************************************************************************)
EXTENDS Nodes

VARIABLES
    named,   \* nodes whose database has pgconverge.node_name set
    tables,  \* nodes that have the tables of generated.sql
    pubs,    \* nodes p that have pub_<p>
    slots,   \* slots that exist on their publisher
    subs,    \* subscriptions that exist on their subscriber
    fed      \* subscriptions that know the tables of their publisher

catalog == <<named, tables, pubs, slots, subs, fed>>

Pair == {q \in Node \X Node : q[1] # q[2]}

CatalogOK ==
    /\ named \in SUBSET Node
    /\ tables \in SUBSET Node
    /\ pubs \in SUBSET Node
    /\ slots \in SUBSET Pair
    /\ subs \in SUBSET Pair
    /\ fed \in SUBSET subs

\* A call about one node has it as sub and as pub.
Call == [what : {"name", "schema", "publication", "slot", "subscription"},
         sub : Node, pub : Node]

Edge(c) == <<c.sub, c.pub>>

\* The DO blocks look for the object they are about to create.
Exists(c) ==
    \/ c.what = "publication" /\ c.pub \in pubs
    \/ c.what = "slot" /\ Edge(c) \in slots
    \/ c.what = "subscription" /\ Edge(c) \in subs

\* FOR TABLES IN SCHEMA public
Publishes(p) == p \in pubs /\ p \in tables

\* CREATE SUBSCRIPTION fails when a published table is missing locally.
Refused(c) == c.what = "subscription" /\ Publishes(c.pub) /\ c.sub \notin tables

\* CREATE SUBSCRIPTION asks the publisher for the published tables, once: a
\* publication that is missing is a warning and no table.  A change of a table
\* the subscription does not know is skipped, and nothing here ever runs ALTER
\* SUBSCRIPTION ... REFRESH PUBLICATION.
Effect(c) ==
    \/ /\ c.what = "name"
       /\ named' = named \cup {c.pub}
       /\ UNCHANGED <<tables, pubs, slots, subs, fed>>
    \/ /\ c.what = "schema"
       /\ tables' = tables \cup {c.pub}
       /\ UNCHANGED <<named, pubs, slots, subs, fed>>
    \/ /\ c.what = "publication"
       /\ pubs' = pubs \cup {c.pub}
       /\ UNCHANGED <<named, tables, slots, subs, fed>>
    \/ /\ c.what = "slot"
       /\ slots' = slots \cup {Edge(c)}
       /\ UNCHANGED <<named, tables, pubs, subs, fed>>
    \/ /\ c.what = "subscription"
       /\ subs' = subs \cup {Edge(c)}
       /\ fed' = IF Publishes(c.pub) THEN fed \cup {Edge(c)} ELSE fed
       /\ UNCHANGED <<named, tables, pubs, slots>>
=============================================================================
