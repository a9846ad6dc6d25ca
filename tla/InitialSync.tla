---------------------------- MODULE InitialSync ----------------------------
(***************************************************************************)
(* How the rows of a table get to all nodes while setup-replication        *)
(* creates its subscriptions with copy_data = true and origin = 'none'.    *)
(* A subscription first copies what the publisher has, wherever that came  *)
(* from, and then follows the publisher's own changes.  A node may hold a  *)
(* copy of another node's subscription, which then shares its slot.        *)
(***************************************************************************)
EXTENDS Mesh, NodeList

CONSTANTS
    Row,       \* rows, each inserted once on one node (uuid keys)
    Start,     \* Start[n]: the rows n has when the setup starts
    Meshed     \* nodes whose subscriptions to each other exist and are in sync

Edge == {q \in Node \X Node : q[1] # q[2]}

ASSUME SyncAssumption ==
    /\ Start \in [Node -> SUBSET Row]
    /\ Meshed \subseteq Node

VARIABLES
    rows,   \* rows[n]: the rows of the table on n
    plan,   \* the subscriptions still to be created, in the order of the setup
    slots,  \* the slots sub_<s>_from_<p>, each on its publisher p
    sub,    \* sub[n][<<s, p>>]: the state of subscription sub_<s>_from_<p> on n
    fresh   \* the rows the application has not inserted yet

vars == <<rows, stream, plan, slots, sub, fresh>>

\* A subscription is "dead" if its publication was missing when it was created:
\* it knows no table of its publisher, and applies nothing.
State == {"none", "init", "ready", "dead"}

TypeOK ==
    /\ rows \in [Node -> SUBSET Row]
    /\ stream \in [Node -> [Node -> Seq(Row)]]
    /\ plan \in Seq(Edge)
    /\ slots \in SUBSET Edge
    /\ sub \in [Node -> [Edge -> State]]
    /\ fresh \in SUBSET Row

Own(q) == sub[q[1]][q]

\* The nodes of meshed have their subscriptions to each other already; the rows
\* of new are to be inserted.
Joining(meshed, setup, new) ==
    LET old == {q \in Edge : q[1] \in meshed /\ q[2] \in meshed}
    IN  /\ rows = Start
        /\ stream = Idle
        /\ plan = setup
        /\ slots = old
        /\ sub = [n \in Node |-> [q \in Edge |->
                      IF q \in old /\ q[1] = n THEN "ready" ELSE "none"]]
        /\ fresh = new

Init == Joining(Meshed, Pairs, Row \ UNION {Start[n] : n \in Node})

\* The slot exists from now on and keeps what the publisher commits.  What
\* exists already is left as it is.
CreateSubscription ==
    /\ plan # << >>
    /\ plan' = Tail(plan)
    /\ LET q == Head(plan)
       IN  /\ slots' = slots \cup {q}
           /\ sub' = IF Own(q) = "none" THEN [sub EXCEPT ![q[1]][q] = "init"] ELSE sub
    /\ UNCHANGED <<rows, stream, fresh>>

\* A mutant of Copy: the subscription has copy_data = false.
CopyNothing(n, q) ==
    /\ sub[n][q] = "init"
    /\ sub' = [sub EXCEPT ![n][q] = "ready"]
    /\ UNCHANGED <<rows, stream, plan, slots, fresh>>

\* The tablesync worker copies a snapshot of the publisher's table in one
\* transaction; a key that is there already makes it fail and start over.  The
\* changes the slot holds by then are part of the snapshot.
Copy(n, q) ==
    /\ sub[n][q] = "init"
    /\ rows[n] \cap rows[q[2]] = {}
    /\ rows' = [rows EXCEPT ![n] = @ \cup rows[q[2]]]
    /\ sub' = [sub EXCEPT ![n][q] = "ready"]
    /\ stream' = [stream EXCEPT ![q[2]][q[1]] = << >>]
    /\ UNCHANGED <<plan, slots, fresh>>

LocalInsert(n, r) ==
    /\ r \in fresh
    /\ fresh' = fresh \ {r}
    /\ rows' = [rows EXCEPT ![n] = @ \cup {r}]
    /\ stream' = [stream EXCEPT ![n] =
                    [s \in Node |-> IF <<s, n>> \in slots THEN Append(@[s], r) ELSE @[s]]]
    /\ UNCHANGED <<plan, slots, sub>>

Arrived(n, q) == stream[q[2]][q[1]] # << >> /\ sub[n][q] = "ready"

\* A mutant of ApplyInsert: origin = 'any', so that the other subscribers of n
\* get the row from n once more.
ApplyInsertForwards(n, q) ==
    /\ Arrived(n, q)
    /\ LET r == Head(stream[q[2]][q[1]])
       IN  /\ r \notin rows[n]
           /\ rows' = [rows EXCEPT ![n] = @ \cup {r}]
           /\ stream' = [p \in Node |-> [s \in Node |->
                           IF <<s, p>> = q THEN Tail(stream[p][s])
                           ELSE IF p = n /\ s \notin {n, q[2]} THEN Append(stream[p][s], r)
                           ELSE stream[p][s]]]
    /\ UNCHANGED <<plan, slots, sub, fresh>>

\* The apply worker fails and starts over when the key is there already.
ApplyInsert(n, q) ==
    /\ Arrived(n, q)
    /\ Head(stream[q[2]][q[1]]) \notin rows[n]
    /\ rows' = [rows EXCEPT ![n] = @ \cup {Head(stream[q[2]][q[1]])}]
    /\ Consume(q[2], q[1])
    /\ UNCHANGED <<plan, slots, sub, fresh>>

Worker(n, q) == Copy(n, q) \/ ApplyInsert(n, q)

Next ==
    \/ CreateSubscription
    \/ \E n \in Node, q \in Edge : Worker(n, q)
    \/ \E n \in Node, r \in Row : LocalInsert(n, r)

Spec == Init /\ [][Next]_vars

\* The setup goes on, and the launcher restarts every worker that has failed.
FairSpec ==
    /\ Spec
    /\ WF_vars(CreateSubscription)
    /\ \A n \in Node, q \in Edge : WF_vars(Worker(n, q))

-----------------------------------------------------------------------------
(* Properties. *)

Copied == \A q \in Edge : Own(q) = "ready"
InSync == plan = << >> /\ Copied /\ Drained
Same == \A m, n \in Node : rows[m] = rows[n]

\* The worker of q on n is about to insert a key that is there: it fails.
Conflict(n, q) ==
    \/ sub[n][q] = "init" /\ rows[n] \cap rows[q[2]] # {}
    \/ Arrived(n, q) /\ Head(stream[q[2]][q[1]]) \in rows[n]

\* Every subscription of the setup gets in sync in the end and has nothing left
\* to apply (copy_data = true).
EventuallyInSync == <>[]InSync
=============================================================================
