---------------------------- MODULE HlcSessions ----------------------------
(***************************************************************************)
(* The statements CrdtTable takes as atomic, opened up: the transactions   *)
(* of one node (client sessions and apply workers, READ COMMITTED) that    *)
(* meet in _pgconverge.advance_hlc().  A call reads the wall clock, then   *)
(* SELECTs the node's hlc_state row FOR UPDATE, then writes it with        *)
(* INSERT ... ON CONFLICT DO UPDATE; the row stays locked to the end of    *)
(* the transaction, like the table rows the transaction has updated.       *)
(* The triggers fire FOR EACH ROW, so the unit is the row: as no lock goes *)
(* before the end of the transaction, it makes no difference whether the   *)
(* next row is one of the same statement or of the next.                   *)
(***************************************************************************)
EXTENDS HLC, Sequences, FiniteSets

CONSTANTS
    Session, None,
    Key,            \* the rows of the table
    Wall,           \* readings of clock_timestamp()
    Incoming,       \* stamps of the updates that arrive from other nodes
    MaxRows         \* bound on the rows the transactions of the node write

\* What happens to a row.  UPSERT is the second half of INSERT ... ON CONFLICT
\* DO UPDATE, once the key has been found.
Kind == {"INSERT", "UPSERT", "UPDATE", "APPLY"}

ASSUME SessionsAssumption ==
    /\ None \notin Session \cup Key
    /\ None \notin Kind
    /\ IsFiniteSet(Session)
    /\ Wall \subseteq Nat
    /\ Incoming \subseteq Clock
    /\ MaxRows \in Nat

VARIABLES
    hlc,      \* the committed row of hlc_state, Absent until the first commit
    holder,   \* the session that has locked that row or is inserting it
    lock,     \* lock[k]: the session that has locked row k of the table
    pc,       \* pc[s]: what s does next
    stmt,     \* stmt[s]: what it does to which row
    call,     \* call[s]: the argument and local variables of its advance_hlc
    draft,    \* draft[s]: hlc_state as its transaction sees it
    rows,     \* rows[s]: how many rows its transaction has begun to write
    blind,    \* blind[s]: its transaction has found no row in hlc_state
    stamps,   \* stamps[s]: the stamps its transaction has taken
    log,      \* what committed transactions have stamped, in commit order
    epoch,    \* how often the clock has started from zero: committed blind transactions
    begun     \* rows all transactions have begun to write

vars == <<hlc, holder, lock, pc, stmt, call, draft, rows, blind, stamps, log, epoch, begun>>

NoStatement == [kind |-> None, key |-> None]
NoCall == [remote |-> Zero, wall |-> 0, local |-> Zero]

TypeOK ==
    /\ hlc \in Clock \cup {Absent}
    /\ holder \in Session \cup {None}
    /\ lock \in [Key -> Session \cup {None}]
    /\ pc \in [Session -> {"idle", "row", "wall", "select", "store", "open"}]
    /\ stmt \in [Session -> [kind : Kind, key : Key] \cup {NoStatement}]
    /\ call \in [Session -> [remote : Clock, wall : Wall \cup {0}, local : Clock]]
    /\ draft \in [Session -> Clock \cup {Absent}]
    /\ rows \in [Session -> Nat]
    /\ blind \in [Session -> BOOLEAN]
    /\ stamps \in [Session -> Seq(Clock)]
    /\ log \in Seq([stamp : Clock, epoch : Nat])
    /\ epoch \in Nat
    /\ begun \in 0..MaxRows

Init ==
    /\ hlc = Absent
    /\ holder = None
    /\ lock = [k \in Key |-> None]
    /\ pc = [s \in Session |-> "idle"]
    /\ stmt = [s \in Session |-> NoStatement]
    /\ call = [s \in Session |-> NoCall]
    /\ draft = [s \in Session |-> Absent]
    /\ rows = [s \in Session |-> 0]
    /\ blind = [s \in Session |-> FALSE]
    /\ stamps = [s \in Session |-> << >>]
    /\ log = << >>
    /\ epoch = 0
    /\ begun = 0

Free(l, s) == l \in {None, s}

\* The next row of a statement or of a new one: an INSERT of row k, which may be
\* there, an UPDATE of it, or an UPDATE of it that an apply worker replays.
Begin(s, kind, k) ==
    /\ pc[s] \in {"idle", "open"} /\ kind # "UPSERT"
    /\ begun < MaxRows
    /\ begun' = begun + 1
    /\ rows' = [rows EXCEPT ![s] = @ + 1]
    /\ stmt' = [stmt EXCEPT ![s] = [kind |-> kind, key |-> k]]
    /\ \E r \in IF kind = "APPLY" THEN Incoming ELSE {Zero} :
         call' = [call EXCEPT ![s].remote = r]
    /\ pc' = [pc EXCEPT ![s] = IF kind = "INSERT" THEN "wall" ELSE "row"]
    /\ UNCHANGED <<hlc, holder, lock, draft, blind, stamps, log, epoch>>

\* PostgreSQL locks the row before it fires the BEFORE UPDATE triggers.
LockRow(s) ==
    /\ pc[s] = "row"
    /\ Free(lock[stmt[s].key], s)
    /\ lock' = [lock EXCEPT ![stmt[s].key] = s]
    /\ pc' = [pc EXCEPT ![s] = "wall"]
    /\ UNCHANGED <<hlc, holder, stmt, call, draft, rows, blind, stamps, log, epoch, begun>>

ReadWall(s) ==
    /\ pc[s] = "wall"
    /\ \E w \in Wall : call' = [call EXCEPT ![s].wall = w]
    /\ pc' = [pc EXCEPT ![s] = "select"]
    /\ UNCHANGED <<hlc, holder, lock, stmt, draft, rows, blind, stamps, log, epoch, begun>>

\* Mutants of SelectClock: a SELECT without FOR UPDATE, and no IF NOT FOUND.
SelectClockUnlocked(s) ==
    /\ pc[s] = "select"
    /\ call' = [call EXCEPT ![s].local =
                  IF holder = s THEN draft[s] ELSE IF hlc = Absent THEN Zero ELSE hlc]
    /\ blind' = [blind EXCEPT ![s] = @ \/ (holder # s /\ hlc = Absent)]
    /\ pc' = [pc EXCEPT ![s] = "store"]
    /\ UNCHANGED <<hlc, holder, lock, stmt, draft, rows, stamps, log, epoch, begun>>

SelectClockNull(s) ==
    /\ pc[s] = "select"
    /\ hlc = Absent \/ Free(holder, s)
    /\ call' = [call EXCEPT ![s].local = IF holder = s THEN draft[s] ELSE hlc]
    /\ pc' = [pc EXCEPT ![s] = "store"]
    /\ UNCHANGED <<hlc, holder, lock, stmt, draft, rows, blind, stamps, log, epoch, begun>>

\* SELECT ... FOR UPDATE waits for the lock and then sees the newest committed
\* row, or the transaction's own; with no row to see it locks nothing.
SelectClock(s) ==
    /\ pc[s] = "select"
    /\ \/ /\ holder = s
          /\ call' = [call EXCEPT ![s].local = draft[s]]
          /\ UNCHANGED <<holder, draft, blind>>
       \/ /\ holder = None /\ hlc # Absent
          /\ holder' = s
          /\ call' = [call EXCEPT ![s].local = hlc]
          /\ draft' = [draft EXCEPT ![s] = hlc]
          /\ UNCHANGED blind
       \/ /\ holder # s /\ hlc = Absent
          /\ call' = [call EXCEPT ![s].local = Zero]
          /\ blind' = [blind EXCEPT ![s] = TRUE]
          /\ UNCHANGED <<holder, draft>>
    /\ pc' = [pc EXCEPT ![s] = "store"]
    /\ UNCHANGED <<hlc, lock, stmt, rows, stamps, log, epoch, begun>>

\* A mutant of StoreClock: the row is unlocked as soon as it is written.
StoreClockUnlocks(s) ==
    LET clock  == Advance(call[s].local, call[s].remote, call[s].wall)
        taking == call[s].remote = Zero
    IN  /\ pc[s] = "store"
        /\ Free(holder, s)
        /\ holder' = None
        /\ draft' = [draft EXCEPT ![s] = clock]
        /\ stamps' = [stamps EXCEPT ![s] = IF taking THEN Append(@, clock) ELSE @]
        /\ call' = [call EXCEPT ![s] = NoCall]
        /\ pc' = [pc EXCEPT ![s] = "open"]
        /\ stmt' = [stmt EXCEPT ![s] = NoStatement]
        /\ UNCHANGED <<hlc, lock, rows, blind, log, epoch, begun>>

\* INSERT ... ON CONFLICT waits for whoever has locked the row or is inserting
\* it, and overwrites what it finds then.  The call made by a_stamp_hlc takes
\* a stamp; an UPDATE then calls advance_hlc again with it (z_resolve_conflict).
\* INSERT ... ON CONFLICT DO UPDATE fires a_stamp_hlc before it looks for the key:
\* if it is there, the row is locked now and both triggers fire for the UPDATE.
StoreClock(s) ==
    LET clock  == Advance(call[s].local, call[s].remote, call[s].wall)
        taking == call[s].remote = Zero
    IN  /\ pc[s] = "store"
        /\ Free(holder, s)
        /\ holder' = s
        /\ draft' = [draft EXCEPT ![s] = clock]
        /\ stamps' = [stamps EXCEPT ![s] = IF taking THEN Append(@, clock) ELSE @]
        /\ \/ /\ taking /\ stmt[s].kind \in {"UPDATE", "UPSERT"}
              /\ call' = [call EXCEPT ![s] = [NoCall EXCEPT !.remote = clock]]
              /\ pc' = [pc EXCEPT ![s] = "wall"]
              /\ UNCHANGED stmt
           \/ /\ stmt[s].kind = "INSERT"
              /\ call' = [call EXCEPT ![s] = NoCall]
              /\ pc' = [pc EXCEPT ![s] = "row"]
              /\ stmt' = [stmt EXCEPT ![s].kind = "UPSERT"]
           \/ /\ ~(taking /\ stmt[s].kind \in {"UPDATE", "UPSERT"})
              /\ call' = [call EXCEPT ![s] = NoCall]
              /\ pc' = [pc EXCEPT ![s] = "open"]
              /\ stmt' = [stmt EXCEPT ![s] = NoStatement]
        /\ UNCHANGED <<hlc, lock, rows, blind, log, epoch, begun>>

\* A mutant of Release: the lock on hlc_state is one of the session.
ReleaseKeepsClock(s) ==
    /\ lock' = [k \in Key |-> IF lock[k] = s THEN None ELSE lock[k]]
    /\ pc' = [pc EXCEPT ![s] = "idle"]
    /\ stmt' = [stmt EXCEPT ![s] = NoStatement]
    /\ call' = [call EXCEPT ![s] = NoCall]
    /\ draft' = [draft EXCEPT ![s] = IF holder = s THEN @ ELSE Absent]
    /\ rows' = [rows EXCEPT ![s] = 0]
    /\ blind' = [blind EXCEPT ![s] = FALSE]
    /\ stamps' = [stamps EXCEPT ![s] = << >>]
    /\ UNCHANGED <<holder, begun>>

\* The end of a transaction lets go of everything it has locked.
Release(s) ==
    /\ holder' = IF holder = s THEN None ELSE holder
    /\ lock' = [k \in Key |-> IF lock[k] = s THEN None ELSE lock[k]]
    /\ pc' = [pc EXCEPT ![s] = "idle"]
    /\ stmt' = [stmt EXCEPT ![s] = NoStatement]
    /\ call' = [call EXCEPT ![s] = NoCall]
    /\ draft' = [draft EXCEPT ![s] = Absent]
    /\ rows' = [rows EXCEPT ![s] = 0]
    /\ blind' = [blind EXCEPT ![s] = FALSE]
    /\ stamps' = [stamps EXCEPT ![s] = << >>]
    /\ UNCHANGED begun

Commit(s) ==
    /\ pc[s] = "open"
    /\ hlc' = draft[s]
    /\ epoch' = IF blind[s] THEN epoch + 1 ELSE epoch
    /\ log' = log \o [i \in DOMAIN stamps[s] |-> [stamp |-> stamps[s][i], epoch |-> epoch']]
    /\ Release(s)

\* ROLLBACK, an error after the statement, a cancelled statement.
Rollback(s) ==
    /\ pc[s] # "idle"
    /\ Release(s)
    /\ UNCHANGED <<hlc, log, epoch>>

\* The session s waits for, or None.
WaitsFor(s) ==
    CASE pc[s] = "row" /\ lock[stmt[s].key] # s -> lock[stmt[s].key]
      [] pc[s] = "select" /\ hlc # Absent /\ holder # s -> holder
      [] pc[s] = "store" /\ holder # s -> holder
      [] OTHER -> None

\* s waits for a session that waits for ... s.
InCycle(s) ==
    \E n \in 1..Cardinality(Session) : \E path \in [0..n -> Session] :
        /\ path[0] = s /\ path[n] = s
        /\ \A i \in 1..n : WaitsFor(path[i - 1]) = path[i]

\* The deadlock detector of PostgreSQL rolls one waiter of a cycle back.
Victim(s) ==
    /\ InCycle(s)
    /\ Release(s)
    /\ UNCHANGED <<hlc, log, epoch>>

Step(s) == LockRow(s) \/ ReadWall(s) \/ SelectClock(s) \/ StoreClock(s) \/ Victim(s)

Next == \E s \in Session :
    \/ \E kind \in Kind, k \in Key : Begin(s, kind, k)
    \/ Step(s)
    \/ Commit(s)
    \/ Rollback(s)

Spec == Init /\ [][Next]_vars

\* A session that is not waiting goes on, the deadlock detector runs, and a
\* client commits what it has begun unless it rolls it back.
FairSpec == Spec /\ \A s \in Session : WF_vars(Step(s)) /\ WF_vars(Commit(s))

-----------------------------------------------------------------------------
(* Properties. *)

\* The stamps of the rows a node commits ascend strictly in commit order, so
\* none is used twice, whatever transactions run beside each other, roll back
\* or fall to the deadlock detector.  Only the commit of a transaction that asked
\* for the clock before the very first one had committed can make it start over:
\* SELECT ... FOR UPDATE locks no row when there is none (advance_hlc).
StampsAscend ==
    \A i, j \in DOMAIN log :
        i < j /\ log[i].epoch = log[j].epoch => Before(log[i].stamp, log[j].stamp)

\* The committed clock is at or past every committed stamp since it last started
\* over.
ClockCoversLog ==
    \A i \in DOMAIN log : log[i].epoch = epoch => ~Before(hlc, log[i].stamp)

\* Nobody moves the committed clock back but a transaction that saw no clock.
ClockAscends ==
    [][\A s \in Session : Commit(s) => hlc' = hlc \/ Before(hlc, hlc') \/ blind[s]]_vars

\* No two transactions hold stamps at the same time: a session that has taken
\* one keeps the clock until its transaction ends.
OneStamper == \A s, t \in Session : stamps[s] # << >> /\ stamps[t] # << >> => s = t

\* Every deadlock has the same cause: a transaction that has the clock asks for a
\* row of the table.  It has written another row before, maybe in the same
\* statement, or it is an INSERT that has found its key.  Whoever writes one row
\* by INSERT or UPDATE locks it before the clock, and cannot close a cycle.
DeadlockTakesClockFirst ==
    \A s \in Session : InCycle(s) =>
        \E t \in Session :
            /\ InCycle(t) /\ pc[t] = "row" /\ holder = t
            /\ rows[t] > 1 \/ stmt[t].kind = "UPSERT"

Atomic == INSTANCE AtomicClock WITH
    clock <- hlc,
    turn <- holder,
    working <- IF holder = None THEN Absent ELSE draft[holder],
    taken <- IF holder = None THEN << >> ELSE stamps[holder],
    asked <- {s \in Session : blind[s]}

\* The calls of advance_hlc, each several statements beside those of other
\* sessions, have the effect of atomic calls made by one transaction at a time:
\* what CrdtTable relies on.
RefinesAtomicClock == Atomic!Spec

\* Every transaction ends, although transactions that write several rows can
\* deadlock on the clock even if all of them write them in the same order.
TransactionsEnd == \A s \in Session : pc[s] # "idle" ~> pc[s] = "idle"
=============================================================================
