----------------------------- MODULE CrdtTable -----------------------------
(***************************************************************************)
(* One table in CRDT mode ("crdt": {"enabled": true}) on every node of the *)
(* mesh: the columns and triggers sqlgen generates for it, fired by local  *)
(* statements and by the apply workers of the node's subscriptions.        *)
(*                                                                         *)
(*   a_stamp_hlc         BEFORE INSERT OR UPDATE, local sessions only      *)
(*   z_resolve_conflict  BEFORE UPDATE, ENABLE ALWAYS: local and applied   *)
(*                                                                         *)
(* A statement is one transaction (HlcSessions opens it up).  Every call   *)
(* of clock_timestamp() may return any reading in Wall, so clocks are      *)
(* skewed, drift and jump backwards without restriction.                   *)
(***************************************************************************)
EXTENDS HLC, Mesh

CONSTANTS
    Key,            \* primary key values
    Value,          \* contents of the application's columns
    NoRow,          \* absence of a row
    Seeded,         \* the keys whose row is on every node at the start
    SeedRow,        \* the version those rows have
    Statements,     \* the kinds of statement the application runs
    GeneratedKeys,  \* TRUE: keys come from gen_random_uuid(), never twice
    Wall,           \* readings of clock_timestamp()
    MaxInt4,        \* the largest hlc_counter (an INTEGER column)
    MaxWrites       \* bound on the number of local statements

\* The stamps there can be: a timestamp was read from some clock.
Stamp == [ts : Wall \cup {SeedRow.hlc.ts}, counter : 0..MaxInt4]
Version == [val : Value, hlc : Stamp, node : Node]
Op == {"INSERT", "UPDATE", "DELETE"}
Change == [op : {"INSERT", "UPDATE"}, key : Key, new : Version]
              \cup [op : {"DELETE"}, key : Key, new : {NoRow}]

ASSUME CrdtAssumption ==
    /\ NoRow \notin Version
    /\ Seeded \subseteq Key
    /\ SeedRow \in Version /\ SeedRow.hlc.ts \in Nat /\ SeedRow.hlc.counter < MaxInt4
    /\ Statements \subseteq Op
    /\ GeneratedKeys \in BOOLEAN
    /\ Wall \subseteq Nat
    /\ MaxInt4 \in Nat /\ MaxWrites \in Nat

VARIABLES
    hlc,      \* hlc[n]: the row of n in _pgconverge.hlc_state on n
    row,      \* row[n][k]: the version of row k stored on n
    used,     \* the keys that have been inserted
    writes    \* local statements so far

vars == <<hlc, row, stream, used, writes>>

TypeOK ==
    /\ hlc \in [Node -> Stamp]
    /\ row \in [Node -> [Key -> Version \cup {NoRow}]]
    /\ stream \in [Node -> [Node -> Seq(Change)]]
    /\ used \in SUBSET Key
    /\ writes \in Nat

\* The rows in Seeded were updated to SeedRow and every node has applied it.
Init ==
    /\ hlc = [n \in Node |-> Advance(SeedRow.hlc, SeedRow.hlc, 0)]
    /\ row = [n \in Node |-> [k \in Key |-> IF k \in Seeded THEN SeedRow ELSE NoRow]]
    /\ stream = Idle
    /\ used = Seeded
    /\ writes = 0

\* The counter fits its column; otherwise the transaction fails with "integer
\* out of range": a local statement is undone, an apply worker tries again.
FitsBigint(clock) == clock \in Clock  \* a mutant: the column is not checked

Fits(clock) == clock.counter <= MaxInt4

\* A mutant of Stamped: no node knows its name.
StampedUnknown(n, v, clock) == [val |-> v, hlc |-> clock, node |-> CHOOSE m \in Node : TRUE]

Stamped(n, v, clock) == [val |-> v, hlc |-> clock, node |-> n]

Statement(op) ==
    /\ op \in Statements
    /\ writes < MaxWrites
    /\ writes' = writes + 1

-----------------------------------------------------------------------------
(* Local statements. *)

\* A mutant of Unused: a "serial" key stays a number.
UsedOrNot(k) == k \in Key

\* The default of a uuid key, gen_random_uuid(), repeats no key on any node.
Unused(k) == GeneratedKeys => k \notin used

LocalInsert(n, k, v) ==
    \E w \in Wall :
      LET clock == Advance(hlc[n], Zero, w)
          new   == Stamped(n, v, clock)
      IN  /\ Statement("INSERT")
          /\ row[n][k] = NoRow
          /\ Unused(k)
          /\ Fits(clock)
          /\ hlc' = [hlc EXCEPT ![n] = clock]
          /\ row' = [row EXCEPT ![n][k] = new]
          /\ used' = used \cup {k}
          /\ Publish(n, [op |-> "INSERT", key |-> k, new |-> new])

\* Both triggers fire.  The clock moves twice, and stays moved when
\* z_resolve_conflict returns NULL and thereby drops the statement.
LocalUpdate(n, k, v) ==
    \E w1, w2 \in Wall :
      LET clock == Advance(hlc[n], Zero, w1)
          new   == Stamped(n, v, clock)
          after == Advance(clock, clock, w2)
      IN  /\ Statement("UPDATE")
          /\ row[n][k] # NoRow
          /\ Fits(clock) /\ Fits(after)
          /\ hlc' = [hlc EXCEPT ![n] = after]
          /\ \/ /\ Precedes(row[n][k], new)
                /\ row' = [row EXCEPT ![n][k] = new]
                /\ Publish(n, [op |-> "UPDATE", key |-> k, new |-> new])
             \/ /\ ~Precedes(row[n][k], new)
                /\ UNCHANGED <<row, stream>>
          /\ UNCHANGED used

LocalDelete(n, k) ==
    /\ Statement("DELETE")
    /\ row[n][k] # NoRow
    /\ row' = [row EXCEPT ![n][k] = NoRow]
    /\ Publish(n, [op |-> "DELETE", key |-> k, new |-> NoRow])
    /\ UNCHANGED <<hlc, used>>

-----------------------------------------------------------------------------
(* The apply worker of subscription sub_<s>_from_<p>. *)

\* An applied INSERT fires neither trigger.  A row with the same key makes the
\* worker fail and start over, so the stream stands still until it is gone.
ApplyInsert(p, s) ==
    LET change == Head(stream[p][s])
    IN  /\ Pending(p, s, "INSERT")
        /\ row[s][change.key] = NoRow
        /\ row' = [row EXCEPT ![s][change.key] = change.new]
        /\ Consume(p, s)
        /\ UNCHANGED <<hlc, used, writes>>

\* Mutants of ApplyUpdateMissing: it inserts the row, or fails and starts over.
ApplyUpdateMissingInserts(p, s) ==
    LET change == Head(stream[p][s])
    IN  /\ Pending(p, s, "UPDATE")
        /\ row[s][change.key] = NoRow
        /\ row' = [row EXCEPT ![s][change.key] = change.new]
        /\ Consume(p, s)
        /\ UNCHANGED <<hlc, used, writes>>

ApplyUpdateMissingFails(p, s) == FALSE

\* An UPDATE of a row that is not there is skipped.
ApplyUpdateMissing(p, s) ==
    /\ Pending(p, s, "UPDATE")
    /\ row[s][Head(stream[p][s]).key] = NoRow
    /\ Consume(p, s)
    /\ UNCHANGED <<hlc, row, used, writes>>

\* A mutant of ApplyUpdate: the incoming version always wins.
ApplyUpdateAlways(p, s) ==
    \E w \in Wall :
      LET change == Head(stream[p][s])
          after  == Advance(hlc[s], change.new.hlc, w)
      IN  /\ Pending(p, s, "UPDATE")
          /\ row[s][change.key] # NoRow
          /\ Fits(after)
          /\ hlc' = [hlc EXCEPT ![s] = after]
          /\ row' = [row EXCEPT ![s][change.key] = change.new]
          /\ Consume(p, s)
          /\ UNCHANGED <<used, writes>>

\* z_resolve_conflict moves the clock of s past the incoming stamp, then keeps
\* the greater of the two versions.
ApplyUpdate(p, s) ==
    \E w \in Wall :
      LET change == Head(stream[p][s])
          k      == change.key
          after  == Advance(hlc[s], change.new.hlc, w)
      IN  /\ Pending(p, s, "UPDATE")
          /\ row[s][k] # NoRow
          /\ Fits(after)
          /\ hlc' = [hlc EXCEPT ![s] = after]
          /\ row' = [row EXCEPT ![s][k] = IF Precedes(@, change.new) THEN change.new ELSE @]
          /\ Consume(p, s)
          /\ UNCHANGED <<used, writes>>

\* No trigger compares a DELETE: it removes the row whatever its stamp.
ApplyDelete(p, s) ==
    LET change == Head(stream[p][s])
    IN  /\ Pending(p, s, "DELETE")
        /\ row' = [row EXCEPT ![s][change.key] = NoRow]
        /\ Consume(p, s)
        /\ UNCHANGED <<hlc, used, writes>>

Apply(p, s) ==
    \/ ApplyInsert(p, s)
    \/ ApplyUpdateMissing(p, s)
    \/ ApplyUpdate(p, s)
    \/ ApplyDelete(p, s)

Next ==
    \/ \E n \in Node, k \in Key, v \in Value : LocalInsert(n, k, v)
    \/ \E n \in Node, k \in Key, v \in Value : LocalUpdate(n, k, v)
    \/ \E n \in Node, k \in Key : LocalDelete(n, k)
    \/ \E p, s \in Node : Apply(p, s)

Spec == Init /\ [][Next]_vars

\* The logical replication launcher restarts an apply worker that has stopped,
\* so a change that can be applied is applied.
FairSpec == Spec /\ \A p, s \in Node : WF_vars(Apply(p, s))

-----------------------------------------------------------------------------
(* Properties. *)

\* The versions of row k that are stored or under way anywhere, absence included.
InSystem(k) ==
    {row[n][k] : n \in Node}
        \cup {c.new : c \in {d \in UNION {Arriving(n) : n \in Node} : d.key = k}}

\* Every stamp a node has handed out is at or below its stored clock: the clock
\* of a node never falls behind its own writes, whatever it hears from peers or
\* reads from clock_timestamp() (advance_hlc).
OwnStampsCovered ==
    \A k \in Key : \A x \in InSystem(k) \ {NoRow} : ~Before(hlc[x.node], x.hlc)

\* Two copies of a row with the same stamp have the same contents: the stamp
\* identifies the write, so a comparison of stamps never ties between writes
\* (the total order claimed for (_hlc_ts, _hlc_counter, _hlc_node)).
StampsIdentifyWrites ==
    \A k \in Key : \A x, y \in InSystem(k) \ {NoRow} :
        (x.hlc = y.hlc /\ x.node = y.node) => x = y

\* Convergence: once every apply worker has caught up, all nodes store the same
\* version of every row, in whatever order the streams were interleaved.
Convergence == Drained => \A m, n \in Node : row[m] = row[n]

\* An INSERT that arrives finds its key free, so that no apply worker fails on a
\* primary key and stands still for ever with all that follows in its stream
\* (serial keys become uuid keys).
InsertsFindNoRow ==
    \A p, s \in Node :
        Pending(p, s, "INSERT") => row[s][Head(stream[p][s]).key] = NoRow

\* The clock of a node has tracked every row it stores, so its next stamp is
\* later than what the session can read (z_resolve_conflict's advance_hlc).
ClockCoversRows ==
    \A n \in Node, k \in Key : row[n][k] # NoRow => ~Before(hlc[n], row[n][k].hlc)

\* The table as one register per key and node: the messages are the changes
\* under way, and a missing row is a deleted one.
Sent == UNION {{[to |-> s, key |-> c.key, new |-> c.new] : c \in Arriving(s)} : s \in Node}

Register == INSTANCE MaxRegister WITH
    Item <- Key, Value <- Version, Gone <- NoRow, reg <- row, sent <- Sent

\* A node never replaces a row by an older version of it.
RowsAscend ==
    [][\A n \in Node, k \in Key :
         row[n][k] # NoRow => Register!AtMost(row[n][k], row'[n][k])]_vars

\* A local UPDATE of a row is never dropped in favour of the version it was
\* meant to replace: the session read that version, so its own is later.
LocalUpdateTakesEffect ==
    [][\A n \in Node, k \in Key, v \in Value :
         LocalUpdate(n, k, v) => Precedes(row[n][k], row'[n][k])]_vars

\* Once the application stops writing, the apply workers bring all nodes to
\* the same contents for good.
EventualConvergence == <>[](Drained /\ \A m, n \in Node : row[m] = row[n])

\* Without INSERT (an applied INSERT compares no stamps) every statement and
\* every applied change is a Write or a Receive of MaxRegister, or changes
\* nothing there: rows only move up the order of the stamps, with deletion on
\* top, and no version is lost on its way to a node.
RefinesRegister == Register!Spec
=============================================================================
