------------------------------ MODULE LwwTable ------------------------------
(***************************************************************************)
(* One table without CRDT mode on every node of the mesh: its updated_at   *)
(* column and the two triggers of writeLWWTriggers.  PostgreSQL fires them *)
(* in the order of their names:                                            *)
(*                                                                         *)
(*   conflict_resolution_T  BEFORE UPDATE, ENABLE ALWAYS: local, applied   *)
(*   set_updated_at_T       BEFORE INSERT OR UPDATE, local sessions only   *)
(*                                                                         *)
(* so a local UPDATE is judged by the time it assigns, and the time it     *)
(* stores is another one: NOW(), the start of its transaction, which may   *)
(* lie before the time of the row it replaces.  The clocks of the nodes    *)
(* agree perfectly, as the README asks.                                    *)
(***************************************************************************)
EXTENDS Mesh

CONSTANTS
    Key, Value, NoRow,
    Seeded,      \* the keys whose row is on every node at the start
    Statements,  \* the kinds of statement the application runs
    MaxTime,     \* bound on the clock
    MaxWrites    \* bound on the number of local statements

\* TOUCH is an UPDATE that assigns some time to updated_at, UPDATE one that
\* leaves that column alone.
Kind == {"INSERT", "UPDATE", "TOUCH", "DELETE"}
Time == 0..MaxTime

\* What a TOUCH may assign: NOW(), clock_timestamp(), a time of the client, which
\* may be ahead of the clock.
Assigned == 0..(MaxTime + 1)

Version == [val : Value, at : Time]
Change == [op : {"INSERT", "UPDATE"}, key : Key, new : Version]
              \cup [op : {"DELETE"}, key : Key, new : {NoRow}]

ASSUME LwwAssumption ==
    /\ NoRow \notin Version
    /\ Seeded \subseteq Key
    /\ Statements \subseteq Kind
    /\ MaxTime \in Nat /\ MaxWrites \in Nat

VARIABLES
    now,      \* the clock of every node
    row,      \* row[n][k]: the version of row k stored on n
    used,     \* the keys that have been inserted (primary keys are uuids)
    writes,   \* local statements so far
    backdated \* the keys of which a statement has set back the time (history)

vars == <<now, row, stream, used, writes, backdated>>

TypeOK ==
    /\ now \in Time
    /\ row \in [Node -> [Key -> Version \cup {NoRow}]]
    /\ stream \in [Node -> [Node -> Seq(Change)]]
    /\ used \in SUBSET Key
    /\ writes \in Nat
    /\ backdated \in SUBSET Key

\* Every node has applied the INSERTs of the rows in Seeded, made at time 0.
Init ==
    /\ now = 0
    /\ \E v \in Value :
         row = [n \in Node |-> [k \in Key |->
                  IF k \in Seeded THEN [val |-> v, at |-> 0] ELSE NoRow]]
    /\ stream = Idle
    /\ used = Seeded
    /\ writes = 0
    /\ backdated = {}

Tick == now < MaxTime /\ now' = now + 1 /\ UNCHANGED <<row, stream, used, writes, backdated>>

Statement(kind) ==
    /\ kind \in Statements
    /\ writes < MaxWrites
    /\ writes' = writes + 1
    /\ UNCHANGED now

\* There is a row and conflict_resolution_T lets its new version through.
Newer(new, old) == old # NoRow /\ new.at > old.at

-----------------------------------------------------------------------------
(* Local statements, in a transaction that started at t. *)

\* A mutant of LocalInsert: the key is a natural one, which another node may
\* insert as well.
LocalInsertNaturalKey(n, k, v, t) ==
    LET new == [val |-> v, at |-> t]
    IN  /\ Statement("INSERT")
        /\ row[n][k] = NoRow
        /\ used' = used \cup {k}
        /\ row' = [row EXCEPT ![n][k] = new]
        /\ Publish(n, [op |-> "INSERT", key |-> k, new |-> new])
        /\ UNCHANGED backdated

LocalInsert(n, k, v, t) ==
    LET new == [val |-> v, at |-> t]
    IN  /\ Statement("INSERT")
        /\ k \notin used
        /\ used' = used \cup {k}
        /\ row' = [row EXCEPT ![n][k] = new]
        /\ Publish(n, [op |-> "INSERT", key |-> k, new |-> new])
        /\ UNCHANGED backdated

\* An UPDATE that reaches the triggers with updated_at = x: conflict_resolution_T
\* compares x, and set_updated_at_T then stores t.
UpdateRow(n, k, v, t, x) ==
    LET new == [val |-> v, at |-> t]
    IN  \/ /\ Newer([val |-> v, at |-> x], row[n][k])
           /\ row' = [row EXCEPT ![n][k] = new]
           /\ Publish(n, [op |-> "UPDATE", key |-> k, new |-> new])
           /\ backdated' = IF t < row[n][k].at THEN backdated \cup {k} ELSE backdated
        \/ /\ ~Newer([val |-> v, at |-> x], row[n][k])
           /\ UNCHANGED <<row, stream, backdated>>

LocalUpdate(n, k, v, t) ==
    /\ Statement("UPDATE")
    /\ row[n][k] # NoRow
    /\ UpdateRow(n, k, v, t, row[n][k].at)
    /\ UNCHANGED used

LocalTouch(n, k, v, t, x) ==
    /\ Statement("TOUCH")
    /\ row[n][k] # NoRow
    /\ UpdateRow(n, k, v, t, x)
    /\ UNCHANGED used

\* A mutant of LocalDelete: the deletion is published as an UPDATE.
LocalDeleteAsUpdate(n, k) ==
    /\ Statement("DELETE")
    /\ row[n][k] # NoRow
    /\ row' = [row EXCEPT ![n][k] = NoRow]
    /\ Publish(n, [op |-> "UPDATE", key |-> k, new |-> NoRow])
    /\ UNCHANGED <<used, backdated>>

LocalDelete(n, k) ==
    /\ Statement("DELETE")
    /\ row[n][k] # NoRow
    /\ row' = [row EXCEPT ![n][k] = NoRow]
    /\ Publish(n, [op |-> "DELETE", key |-> k, new |-> NoRow])
    /\ UNCHANGED <<used, backdated>>

-----------------------------------------------------------------------------
(* The apply worker of subscription sub_<s>_from_<p>. *)

\* No trigger fires; a row with the same key stops the worker.
ApplyInsert(p, s) ==
    LET change == Head(stream[p][s])
    IN  /\ Pending(p, s, "INSERT")
        /\ row[s][change.key] = NoRow
        /\ row' = [row EXCEPT ![s][change.key] = change.new]
        /\ Consume(p, s)
        /\ UNCHANGED <<now, used, writes, backdated>>

\* Mutants of ApplyUpdate: the trigger is not ENABLE ALWAYS, so that the
\* incoming version always wins; and a missing row stops the worker.
ApplyUpdateNoTrigger(p, s) ==
    LET change == Head(stream[p][s])
    IN  /\ Pending(p, s, "UPDATE")
        /\ row' = [row EXCEPT ![s][change.key] = IF @ = NoRow THEN NoRow ELSE change.new]
        /\ Consume(p, s)
        /\ UNCHANGED <<now, used, writes, backdated>>

ApplyUpdateNeedsRow(p, s) ==
    LET change == Head(stream[p][s])
        old    == row[s][change.key]
    IN  /\ Pending(p, s, "UPDATE")
        /\ old # NoRow
        /\ row' = [row EXCEPT ![s][change.key] = IF Newer(change.new, @) THEN change.new ELSE @]
        /\ Consume(p, s)
        /\ UNCHANGED <<now, used, writes, backdated>>

\* conflict_resolution_T alone fires; an UPDATE of a missing row is skipped.
ApplyUpdate(p, s) ==
    LET change == Head(stream[p][s])
        old    == row[s][change.key]
    IN  /\ Pending(p, s, "UPDATE")
        /\ \/ /\ Newer(change.new, old)
              /\ row' = [row EXCEPT ![s][change.key] = change.new]
           \/ /\ ~Newer(change.new, old)
              /\ UNCHANGED row
        /\ Consume(p, s)
        /\ UNCHANGED <<now, used, writes, backdated>>

ApplyDelete(p, s) ==
    LET change == Head(stream[p][s])
    IN  /\ Pending(p, s, "DELETE")
        /\ row' = [row EXCEPT ![s][change.key] = NoRow]
        /\ Consume(p, s)
        /\ UNCHANGED <<now, used, writes, backdated>>

Apply(p, s) == ApplyInsert(p, s) \/ ApplyUpdate(p, s) \/ ApplyDelete(p, s)

Next ==
    \/ Tick
    \/ \E n \in Node, k \in Key, v \in Value, t \in 0..now : LocalInsert(n, k, v, t)
    \/ \E n \in Node, k \in Key, v \in Value, t \in 0..now : LocalUpdate(n, k, v, t)
    \/ \E n \in Node, k \in Key, v \in Value, t \in 0..now, x \in Assigned :
         LocalTouch(n, k, v, t, x)
    \/ \E n \in Node, k \in Key : LocalDelete(n, k)
    \/ \E p, s \in Node : Apply(p, s)

Spec == Init /\ [][Next]_vars

\* A stopped apply worker is started again by the launcher.
FairSpec == Spec /\ \A p, s \in Node : WF_vars(Apply(p, s))

-----------------------------------------------------------------------------
(* Properties. *)

\* Two nodes have the same row k, or two versions written at the very same time.
SameButForTies(m, n, k) ==
    \/ row[m][k] = row[n][k]
    \/ row[m][k] # NoRow /\ row[n][k] # NoRow /\ row[m][k].at = row[n][k].at

\* Once the streams are drained, two nodes agree about a row but for ties: whatever
\* the interleaving, a later write wins everywhere and a deletion wins over all
\* (conflict_resolution_T).  The only other rows they disagree about are those of
\* which a statement has set back the time: the other nodes refuse such a version.
OnlyTiesDiverge ==
    Drained => \A m, n \in Node, k \in Key \ backdated : SameButForTies(m, n, k)

\* Once the streams are drained, all nodes store the same rows.
Convergence == Drained => \A m, n \in Node : row[m] = row[n]

\* An INSERT that arrives finds its key free, so that no apply worker fails on a
\* primary key and stands still for ever (serial keys become uuid keys), whatever
\* has been deleted and has overtaken it meanwhile.
InsertsFindNoRow ==
    \A p, s \in Node :
        Pending(p, s, "INSERT") => row[s][Head(stream[p][s]).key] = NoRow

\* A stored row is only ever replaced by one that was written later, or deleted;
\* but a local statement that assigns a time later than the row's, in a transaction
\* that is not, puts one in its place that is as old or older (set_updated_at_T
\* stores NOW() over the time that was compared).  No applied change ever does.
TimesAscend ==
    [][\A n \in Node, k \in Key :
         \/ row[n][k] \in {NoRow, row'[n][k]}
         \/ row'[n][k] = NoRow \/ Newer(row'[n][k], row[n][k])
         \/ writes' # writes /\ (row'[n][k].at = row[n][k].at \/ k \in backdated')]_vars

\* An UPDATE of a row in a transaction that started after the row was written
\* stores the new contents with the time of the write.
UpdateTakesEffect ==
    [][\A n \in Node, k \in Key, v \in Value, t \in 0..now :
         LocalUpdate(n, k, v, t) /\ t > row[n][k].at => row'[n][k] = [val |-> v, at |-> t]]_vars

\* Once the application stops writing, the streams drain for good.
EventuallyDrained == <>[]Drained
=============================================================================
