-------------------------------- MODULE HLC --------------------------------
(***************************************************************************)
(* The hybrid logical clock that sqlgen writes into generated.sql for the  *)
(* tables in CRDT mode: the row of _pgconverge.hlc_state, the arithmetic   *)
(* of _pgconverge.advance_hlc() and the comparison of the row values       *)
(* (_hlc_ts, _hlc_counter, _hlc_node).                                     *)
(***************************************************************************)
EXTENDS Integers, Nodes

CONSTANT Rank   \* the position of a node name in the order of text values

ASSUME RankAssumption ==
    /\ Rank \in [Node -> Nat]
    /\ \A m, n \in Node : Rank[m] = Rank[n] => m = n

\* A row of hlc_state without its key; a row that is Absent reads as Zero.
Clock == [ts : Nat, counter : Nat]
Zero == [ts |-> 0, counter |-> 0]
Absent == [ts |-> -1, counter |-> -1]

Before(c, d) ==
    \/ c.ts < d.ts
    \/ c.ts = d.ts /\ c.counter < d.counter

\* Mutants of Advance.  AdvanceTrustsWall drops the comparison of the wall clock
\* with the stored clock, AdvanceIgnoresRemote all comparisons with the remote.
AdvanceTrustsWall(local, remote, wall) ==
    IF wall > remote.ts THEN [ts |-> wall, counter |-> 0]
    ELSE IF local.ts > remote.ts THEN [local EXCEPT !.counter = @ + 1]
    ELSE [remote EXCEPT !.counter = @ + 1]

AdvanceIgnoresRemote(local, remote, wall) ==
    IF wall > local.ts THEN [ts |-> wall, counter |-> 0]
    ELSE [local EXCEPT !.counter = @ + 1]

\* What advance_hlc(remote) stores and returns, given the stored clock and the
\* reading of clock_timestamp().
Advance(local, remote, wall) ==
    IF wall > local.ts /\ wall > remote.ts THEN [ts |-> wall, counter |-> 0]
    ELSE IF local.ts > remote.ts THEN [local EXCEPT !.counter = @ + 1]
    ELSE IF remote.ts > local.ts THEN [remote EXCEPT !.counter = @ + 1]
    ELSE [ts |-> local.ts,
          counter |-> (IF local.counter >= remote.counter
                       THEN local.counter ELSE remote.counter) + 1]

\* A mutant of Precedes: the node name does not break ties.
PrecedesWithoutNode(x, y) == Before(x.hlc, y.hlc)

\* (x._hlc_ts, x._hlc_counter, x._hlc_node) < (y._hlc_ts, ...), a row
\* comparison of SQL.
Precedes(x, y) ==
    \/ Before(x.hlc, y.hlc)
    \/ x.hlc = y.hlc /\ Rank[x.node] < Rank[y.node]
=============================================================================
