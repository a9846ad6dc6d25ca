---------------------------- MODULE AtomicClock ----------------------------
(***************************************************************************)
(* What _pgconverge.advance_hlc() promises to the transactions of a node:  *)
(* each call happens at once, as CrdtTable takes it to, and one            *)
(* transaction at a time has the clock.  Its calls start from the          *)
(* committed clock; nobody sees them before it commits.  Transactions that *)
(* ask before the clock has ever been committed are the exception: each of *)
(* them starts it from zero when its turn comes.                           *)
(***************************************************************************)
EXTENDS HLC, Sequences

CONSTANTS
    Session, None,
    Wall,       \* readings of clock_timestamp()
    Incoming    \* stamps of the updates that arrive from other nodes

VARIABLES
    clock,      \* the committed clock, Absent until the first commit
    turn,       \* the session whose transaction has the clock, or None
    working,    \* the clock as that transaction has left it
    taken,      \* the stamps it has taken
    asked,      \* the sessions that have found no clock in their transaction
    log,        \* what committed transactions have stamped, in commit order
    epoch       \* how often the clock has started from zero

vars == <<clock, turn, working, taken, asked, log, epoch>>

Init ==
    /\ clock = Absent
    /\ turn = None
    /\ working = Absent
    /\ taken = << >>
    /\ asked = {}
    /\ log = << >>
    /\ epoch = 0

Ask(s) ==
    /\ turn # s /\ clock = Absent
    /\ asked' = asked \cup {s}
    /\ UNCHANGED <<clock, turn, working, taken, log, epoch>>

Take(s) ==
    /\ turn = None /\ s \notin asked /\ clock # Absent
    /\ turn' = s
    /\ working' = clock
    /\ UNCHANGED <<clock, taken, asked, log, epoch>>

\* advance_hlc(remote), which returns new: a stamp if there is no remote stamp.
Move(s, remote, new) ==
    /\ turn' = s
    /\ working' = new
    /\ taken' = IF remote = Zero THEN Append(taken, new) ELSE taken
    /\ UNCHANGED <<clock, asked, log, epoch>>

\* A remote stamp is one that has arrived or that the transaction has just taken.
Remote == {Zero} \cup Incoming \cup {taken[i] : i \in DOMAIN taken}

Call(s) ==
    /\ turn = s
    /\ \E remote \in Remote, w \in Wall : Move(s, remote, Advance(working, remote, w))

StartOver(s) ==
    /\ turn = None /\ s \in asked
    /\ \E remote \in Remote, w \in Wall : Move(s, remote, Advance(Zero, remote, w))

Leave(s) ==
    /\ turn' = IF turn = s THEN None ELSE turn
    /\ working' = IF turn = s THEN Absent ELSE working
    /\ taken' = IF turn = s THEN << >> ELSE taken
    /\ asked' = asked \ {s}

Commit(s) ==
    /\ turn = s
    /\ clock' = working
    /\ epoch' = IF s \in asked THEN epoch + 1 ELSE epoch
    /\ log' = log \o [i \in DOMAIN taken |-> [stamp |-> taken[i], epoch |-> epoch']]
    /\ Leave(s)

Abort(s) == Leave(s) /\ UNCHANGED <<clock, log, epoch>>

Next == \E s \in Session : Ask(s) \/ Take(s) \/ Call(s) \/ StartOver(s) \/ Commit(s) \/ Abort(s)

Spec == Init /\ [][Next]_vars
=============================================================================
