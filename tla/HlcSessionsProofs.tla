------------------------- MODULE HlcSessionsProofs -------------------------
(***************************************************************************)
(* Theorems about HlcSessions, for any number of sessions, rows and        *)
(* transactions, and every set of clock readings.                          *)
(***************************************************************************)
EXTENDS HlcSessions, TLAPS

-----------------------------------------------------------------------------
(* The clock. *)

\* What advance_hlc returns is a clock after both its arguments.
LEMMA AdvanceAscends ==
    ASSUME NEW local \in Clock, NEW remote \in Clock, NEW w \in Nat
    PROVE  /\ Advance(local, remote, w) \in Clock
           /\ Before(local, Advance(local, remote, w))
           /\ Before(remote, Advance(local, remote, w))
<1> DEFINE new == Advance(local, remote, w)
<1>1. /\ local.ts \in Nat /\ local.counter \in Nat
      /\ remote.ts \in Nat /\ remote.counter \in Nat
      /\ local = [ts |-> local.ts, counter |-> local.counter]
      /\ remote = [ts |-> remote.ts, counter |-> remote.counter]
  BY DEF Clock
<1>2. \E t \in Nat, c \in Nat :
        /\ new = [ts |-> t, counter |-> c]
        /\ t > local.ts \/ (t = local.ts /\ c > local.counter)
        /\ t > remote.ts \/ (t = remote.ts /\ c > remote.counter)
  <2>1. CASE w > local.ts /\ w > remote.ts
    <3>1. new = [ts |-> w, counter |-> 0]
      BY <2>1 DEF Advance
    <3> QED
      BY <2>1, <3>1
  <2>2. CASE ~(w > local.ts /\ w > remote.ts) /\ local.ts > remote.ts
    <3>1. new = [local EXCEPT !.counter = @ + 1]
      BY <2>2 DEF Advance
    <3>2. new = [ts |-> local.ts, counter |-> local.counter + 1]
      BY <1>1, <3>1
    <3> HIDE DEF new
    <3>3. local.counter + 1 \in Nat /\ local.counter + 1 > local.counter
      BY <1>1
    <3> QED
      BY <1>1, <2>2, <3>2, <3>3
  <2>3. CASE ~(w > local.ts /\ w > remote.ts) /\ remote.ts > local.ts
    <3>1. ~(local.ts > remote.ts)
      BY <1>1, <2>3
    <3>2. new = [remote EXCEPT !.counter = @ + 1]
      BY <2>3, <3>1 DEF Advance
    <3>3. new = [ts |-> remote.ts, counter |-> remote.counter + 1]
      BY <1>1, <3>2
    <3> HIDE DEF new
    <3>4. remote.counter + 1 \in Nat /\ remote.counter + 1 > remote.counter
      BY <1>1
    <3> QED
      BY <1>1, <2>3, <3>3, <3>4
  <2>4. CASE ~(w > local.ts /\ w > remote.ts) /\ local.ts = remote.ts
    <3> DEFINE c == (IF local.counter >= remote.counter
                     THEN local.counter ELSE remote.counter) + 1
    <3>1. c \in Nat /\ c > local.counter /\ c > remote.counter
      BY <1>1
    <3>2. ~(local.ts > remote.ts) /\ ~(remote.ts > local.ts)
      BY <1>1, <2>4
    <3>3. new = [ts |-> local.ts, counter |-> c]
      BY <2>4, <3>2 DEF Advance
    <3> HIDE DEF c
    <3> QED
      BY <1>1, <2>4, <3>1, <3>3
  <2> QED
    BY <1>1, <2>1, <2>2, <2>3, <2>4
<1> HIDE DEF new
<1>3. new \in Clock /\ Before(local, new) /\ Before(remote, new)
  BY <1>1, <1>2 DEF Clock, Before
<1> QED
  BY <1>3 DEF new

\* Clocks are ordered strictly by (ts, counter), and Absent is none.
LEMMA ClockOrder ==
    ASSUME NEW a \in Clock, NEW b \in Clock, NEW c \in Clock
    PROVE  /\ ~Before(a, a) /\ a # Absent
           /\ Before(a, b) /\ Before(b, c) => Before(a, c)
           /\ ~Before(b, a) /\ Before(b, c) => Before(a, c)
           /\ ~Before(b, a) /\ ~Before(c, b) => ~Before(c, a)
           /\ Before(a, b) => ~Before(b, a)
           /\ ~Before(b, a) /\ ~Before(a, b) => a = b
<1>1. \A x \in Clock : /\ x.ts \in Nat /\ x.counter \in Nat
                       /\ x = [ts |-> x.ts, counter |-> x.counter]
  BY DEF Clock
<1>2. a # Absent
  BY <1>1 DEF Absent
<1>3. ~Before(b, a) /\ ~Before(a, b) => a = b
  <2>1. ~Before(b, a) /\ ~Before(a, b) => a.ts = b.ts /\ a.counter = b.counter
    BY <1>1 DEF Before
  <2> QED
    BY <1>1, <2>1
<1> QED
  BY <1>1, <1>2, <1>3 DEF Before

LEMMA ZeroClock == Zero \in Clock /\ NoCall \in [remote : Clock, wall : Wall \cup {0}, local : Clock]
BY DEF Zero, Clock, NoCall

\* What a commit appends to the log.
LEMMA LogEntries ==
    ASSUME NEW q \in Seq(Clock), NEW e \in Nat
    PROVE  LET new == [i \in DOMAIN q |-> [stamp |-> q[i], epoch |-> e]]
           IN  /\ new \in Seq([stamp : Clock, epoch : Nat])
               /\ Len(new) = Len(q)
               /\ \A i \in 1..Len(q) : new[i] = [stamp |-> q[i], epoch |-> e] /\ q[i] \in Clock
<1> DEFINE new == [i \in DOMAIN q |-> [stamp |-> q[i], epoch |-> e]]
<1>1. DOMAIN q = 1..Len(q) /\ Len(q) \in Nat /\ \A i \in 1..Len(q) : q[i] \in Clock
  OBVIOUS
<1>2. new \in [1..Len(q) -> [stamp : Clock, epoch : Nat]]
  BY <1>1
<1>3. new \in Seq([stamp : Clock, epoch : Nat])
  BY <1>1, <1>2
<1>4. Len(new) = Len(q)
  BY <1>1, <1>2
<1> QED
  BY <1>1, <1>3, <1>4

-----------------------------------------------------------------------------
(* Type correctness. *)

LEMMA InitTypes == Init => TypeOK
BY SessionsAssumption, ZeroClock DEF Init, TypeOK, NoStatement

LEMMA BeginTypes ==
    ASSUME TypeOK, NEW s \in Session, NEW kind \in Kind, NEW k \in Key, Begin(s, kind, k)
    PROVE  TypeOK'
<1>1. PICK r \in Clock : call' = [call EXCEPT ![s].remote = r]
  BY SessionsAssumption, ZeroClock DEF Begin
<1>2. call' \in [Session -> [remote : Clock, wall : Wall \cup {0}, local : Clock]]
  BY <1>1 DEF TypeOK
<1>3. rows' \in [Session -> Nat]
  BY DEF Begin, TypeOK
<1>4. begun' \in 0..MaxRows
  BY SessionsAssumption DEF Begin, TypeOK
<1>5. pc' \in [Session -> {"idle", "row", "wall", "select", "store", "open"}]
  BY DEF Begin, TypeOK
<1>6. stmt' \in [Session -> [kind : Kind, key : Key] \cup {NoStatement}]
  BY DEF Begin, TypeOK
<1> QED
  BY <1>2, <1>3, <1>4, <1>5, <1>6 DEF Begin, TypeOK

LEMMA LockRowTypes ==
    ASSUME TypeOK, NEW s \in Session, LockRow(s)
    PROVE  TypeOK'
<1>1. lock' \in [Key -> Session \cup {None}]
  BY DEF LockRow, TypeOK
<1>2. pc' \in [Session -> {"idle", "row", "wall", "select", "store", "open"}]
  BY DEF LockRow, TypeOK
<1> QED
  BY <1>1, <1>2 DEF LockRow, TypeOK

LEMMA ReadWallTypes ==
    ASSUME TypeOK, NEW s \in Session, ReadWall(s)
    PROVE  TypeOK'
<1>1. PICK w \in Wall : call' = [call EXCEPT ![s].wall = w]
  BY DEF ReadWall
<1>2. call' \in [Session -> [remote : Clock, wall : Wall \cup {0}, local : Clock]]
  BY <1>1 DEF TypeOK
<1>3. pc' \in [Session -> {"idle", "row", "wall", "select", "store", "open"}]
  BY DEF ReadWall, TypeOK
<1> QED
  BY <1>2, <1>3 DEF ReadWall, TypeOK

\* What a session holds while it has the clock.
Held(s) ==
    /\ holder # s => draft[s] = Absent /\ stamps[s] = << >>
    /\ holder = s => draft[s] \in Clock
    /\ pc[s] = "open" => holder = s
    /\ pc[s] = "store" => IF holder = s THEN call[s].local = draft[s] ELSE blind[s]

LEMMA SelectClockTypes ==
    ASSUME TypeOK, NEW s \in Session, Held(s), SelectClock(s)
    PROVE  TypeOK'
<1>1. PICK c \in Clock : call' = [call EXCEPT ![s].local = c]
  BY ZeroClock DEF SelectClock, Held, TypeOK
<1>2. call' \in [Session -> [remote : Clock, wall : Wall \cup {0}, local : Clock]]
  BY <1>1 DEF TypeOK
<1>3. pc' \in [Session -> {"idle", "row", "wall", "select", "store", "open"}]
  BY DEF SelectClock, TypeOK
<1>4. /\ holder' \in Session \cup {None}
      /\ draft' \in [Session -> Clock \cup {Absent}]
      /\ blind' \in [Session -> BOOLEAN]
  BY DEF SelectClock, TypeOK
<1> QED
  BY <1>2, <1>3, <1>4 DEF SelectClock, TypeOK

\* The clock a call stores is after the one it has read and after its argument.
LEMMA StoredClock ==
    ASSUME TypeOK, NEW s \in Session
    PROVE  LET clock == Advance(call[s].local, call[s].remote, call[s].wall)
           IN  clock \in Clock /\ Before(call[s].local, clock) /\ Before(call[s].remote, clock)
<1>1. call[s].local \in Clock /\ call[s].remote \in Clock /\ call[s].wall \in Nat
  <2>1. call[s] \in [remote : Clock, wall : Wall \cup {0}, local : Clock]
    BY DEF TypeOK
  <2>2. Wall \cup {0} \subseteq Nat
    BY SessionsAssumption
  <2> QED
    BY <2>1, <2>2
<1> QED
  BY <1>1, AdvanceAscends

LEMMA StoreClockTypes ==
    ASSUME TypeOK, NEW s \in Session, StoreClock(s)
    PROVE  TypeOK'
<1> DEFINE clock == Advance(call[s].local, call[s].remote, call[s].wall)
<1>1. clock \in Clock
  BY StoredClock
<1>2. /\ holder' = s
      /\ draft' = [draft EXCEPT ![s] = clock]
      /\ stamps' = stamps \/ stamps' = [stamps EXCEPT ![s] = Append(@, clock)]
      /\ call' = [call EXCEPT ![s] = NoCall] \/ call' = [call EXCEPT ![s] = [NoCall EXCEPT !.remote = clock]]
      /\ \E p \in {"wall", "row", "open"} : pc' = [pc EXCEPT ![s] = p]
      /\ \/ stmt' = stmt \/ stmt' = [stmt EXCEPT ![s] = NoStatement]
         \/ stmt[s].kind = "INSERT" /\ stmt' = [stmt EXCEPT ![s].kind = "UPSERT"]
      /\ UNCHANGED <<hlc, lock, rows, blind, log, epoch, begun>>
  <2>1. stamps' = stamps \/ stamps' = [stamps EXCEPT ![s] = Append(@, clock)]
    BY DEF StoreClock, TypeOK
  <2> QED
    BY <2>1 DEF StoreClock
<1> HIDE DEF clock
<1>3. [NoCall EXCEPT !.remote = clock] \in [remote : Clock, wall : Wall \cup {0}, local : Clock]
  BY <1>1, ZeroClock DEF NoCall
<1>4. call' \in [Session -> [remote : Clock, wall : Wall \cup {0}, local : Clock]]
  <2> DEFINE C == [remote : Clock, wall : Wall \cup {0}, local : Clock]
             again == [NoCall EXCEPT !.remote = clock]
  <2>1. call \in [Session -> C] /\ NoCall \in C /\ again \in C
    BY <1>3, ZeroClock DEF TypeOK
  <2>2. call' = [call EXCEPT ![s] = NoCall] \/ call' = [call EXCEPT ![s] = again]
    BY <1>2
  <2> HIDE DEF C, again
  <2>3. call' \in [Session -> C]
    BY <2>1, <2>2
  <2> QED
    BY <2>3 DEF C
<1>5. stamps' \in [Session -> Seq(Clock)]
  <2>1. stamps \in [Session -> Seq(Clock)] /\ Append(stamps[s], clock) \in Seq(Clock)
    BY <1>1 DEF TypeOK
  <2>2. CASE stamps' = [stamps EXCEPT ![s] = Append(stamps[s], clock)]
    BY <2>1, <2>2
  <2> QED
    BY <1>2, <2>1, <2>2
<1>6. draft' \in [Session -> Clock \cup {Absent}]
  BY <1>1, <1>2 DEF TypeOK
<1>7. pc' \in [Session -> {"idle", "row", "wall", "select", "store", "open"}]
  BY <1>2 DEF TypeOK
<1>8. stmt' \in [Session -> [kind : Kind, key : Key] \cup {NoStatement}]
  <2>1. CASE stmt[s].kind = "INSERT" /\ stmt' = [stmt EXCEPT ![s].kind = "UPSERT"]
    <3>1. stmt[s] \in [kind : Kind, key : Key] \cup {NoStatement}
      BY DEF TypeOK
    <3>2. [stmt[s] EXCEPT !.kind = "UPSERT"] \in [kind : Kind, key : Key]
      <4>1. CASE stmt[s] \in [kind : Kind, key : Key]
        BY <4>1 DEF Kind
      <4>2. CASE stmt[s] = NoStatement
        BY <2>1, <4>2, SessionsAssumption DEF NoStatement, Kind
      <4> QED
        BY <3>1, <4>1, <4>2
    <3> QED
      BY <2>1, <3>2 DEF TypeOK
  <2> QED
    BY <1>2, <2>1 DEF TypeOK
<1> QED
  BY <1>2, <1>4, <1>5, <1>6, <1>7, <1>8 DEF TypeOK

\* The end of a transaction leaves everything but the committed clock and the log
\* well typed.
LEMMA ReleaseTypes ==
    ASSUME TypeOK, NEW s \in Session, Release(s),
           hlc' \in Clock \cup {Absent},
           log' \in Seq([stamp : Clock, epoch : Nat]), epoch' \in Nat
    PROVE  TypeOK'
<1>1. lock' \in [Key -> Session \cup {None}]
  BY DEF Release, TypeOK
<1>2. call' \in [Session -> [remote : Clock, wall : Wall \cup {0}, local : Clock]]
  BY ZeroClock DEF Release, TypeOK
<1>3. rows' \in [Session -> Nat]
  BY DEF Release, TypeOK
<1>4. /\ holder' \in Session \cup {None}
      /\ pc' \in [Session -> {"idle", "row", "wall", "select", "store", "open"}]
      /\ stmt' \in [Session -> [kind : Kind, key : Key] \cup {NoStatement}]
  BY DEF Release, TypeOK
<1>5. /\ draft' \in [Session -> Clock \cup {Absent}]
      /\ blind' \in [Session -> BOOLEAN]
      /\ stamps' \in [Session -> Seq(Clock)]
      /\ begun' \in 0..MaxRows
  BY DEF Release, TypeOK
<1> QED
  BY <1>1, <1>2, <1>3, <1>4, <1>5 DEF TypeOK

\* A commit makes the draft the clock, and appends what it has stamped.
LEMMA CommitEffect ==
    ASSUME TypeOK, NEW s \in Session, Held(s), Commit(s)
    PROVE  LET q == stamps[s]
               new == [i \in DOMAIN q |-> [stamp |-> q[i], epoch |-> epoch']]
           IN  /\ holder = s /\ hlc' = draft[s] /\ hlc' \in Clock
               /\ epoch' \in Nat /\ epoch' = IF blind[s] THEN epoch + 1 ELSE epoch
               /\ log' = log \o new
               /\ new \in Seq([stamp : Clock, epoch : Nat]) /\ Len(new) = Len(q)
               /\ \A i \in 1..Len(q) : /\ new[i] = [stamp |-> q[i], epoch |-> epoch']
                                       /\ q[i] \in Clock
<1>1. holder = s /\ draft[s] \in Clock /\ stamps[s] \in Seq(Clock)
  BY DEF Commit, Held, TypeOK
<1>2. epoch' = (IF blind[s] THEN epoch + 1 ELSE epoch) /\ epoch' \in Nat
  BY DEF Commit, TypeOK
<1>3. log' = log \o [i \in DOMAIN stamps[s] |-> [stamp |-> stamps[s][i], epoch |-> epoch']]
  BY DEF Commit
<1> QED
  BY <1>1, <1>2, <1>3, LogEntries DEF Commit

LEMMA CommitTypes ==
    ASSUME TypeOK, NEW s \in Session, Held(s), Commit(s)
    PROVE  TypeOK'
<1>1. \E new \in Seq([stamp : Clock, epoch : Nat]) : log' = log \o new
  BY CommitEffect
<1>2. log' \in Seq([stamp : Clock, epoch : Nat])
  BY <1>1 DEF TypeOK
<1>3. hlc' \in Clock /\ epoch' \in Nat
  BY CommitEffect
<1> QED
  BY <1>2, <1>3, ReleaseTypes DEF Commit

LEMMA StepTypes ==
    ASSUME TypeOK, \A s \in Session : Held(s), [Next]_vars
    PROVE  TypeOK'
<1>1. CASE UNCHANGED vars
  BY <1>1 DEF vars, TypeOK
<1>2. ASSUME NEW s \in Session, Rollback(s) \/ Victim(s)
      PROVE  TypeOK'
  BY <1>2, ReleaseTypes DEF Rollback, Victim, TypeOK
<1> QED
  BY <1>1, <1>2, BeginTypes, LockRowTypes, ReadWallTypes, SelectClockTypes, StoreClockTypes,
     CommitTypes DEF Next, Step

-----------------------------------------------------------------------------
(* The stamps of the transactions under way. *)

\* The stamps of a transaction ascend and its draft of the clock covers them.
\* Unless it is blind they all come after the committed clock.
Ordered(s) ==
    /\ \A i, j \in DOMAIN stamps[s] : i < j => Before(stamps[s][i], stamps[s][j])
    /\ \A i \in DOMAIN stamps[s] : ~Before(draft[s], stamps[s][i])
    /\ holder = s /\ ~blind[s] =>
         /\ hlc # Absent /\ ~Before(draft[s], hlc)
         /\ \A i \in DOMAIN stamps[s] : Before(hlc, stamps[s][i])

Act(s) ==
    \/ \E kind \in Kind, k \in Key : Begin(s, kind, k)
    \/ Step(s)
    \/ Commit(s)
    \/ Rollback(s)

\* A step of one session does not touch what another knows and holds.
LEMMA Untouched ==
    ASSUME TypeOK, NEW s \in Session, NEW t \in Session, t # s, Held(t), Act(t)
    PROVE  /\ pc'[s] = pc[s] /\ stmt'[s] = stmt[s] /\ rows'[s] = rows[s]
           /\ call'[s] = call[s] /\ draft'[s] = draft[s]
           /\ blind'[s] = blind[s] /\ stamps'[s] = stamps[s]
           /\ holder' = s <=> holder = s
           /\ holder = s => hlc' = hlc
           /\ \A k \in Key : lock'[k] = s => lock[k] = s
<1>1. None # s /\ None # t
  BY SessionsAssumption
<1>2. /\ pc'[s] = pc[s] /\ stmt'[s] = stmt[s] /\ rows'[s] = rows[s]
      /\ call'[s] = call[s] /\ draft'[s] = draft[s]
      /\ blind'[s] = blind[s] /\ stamps'[s] = stamps[s]
  <2>1. CASE \E kind \in Kind, k \in Key : Begin(t, kind, k)
    BY <2>1 DEF Begin, TypeOK
  <2>2. CASE LockRow(t) \/ ReadWall(t)
    BY <2>2 DEF LockRow, ReadWall, TypeOK
  <2>3. CASE SelectClock(t)
    BY <2>3 DEF SelectClock, TypeOK
  <2>4. CASE StoreClock(t)
    BY <2>4 DEF StoreClock, TypeOK
  <2>5. CASE Release(t)
    BY <2>5 DEF Release, TypeOK
  <2> QED
    BY <2>1, <2>2, <2>3, <2>4, <2>5 DEF Act, Step, Victim, Commit, Rollback
<1>3. (holder' = s <=> holder = s) /\ (holder = s => hlc' = hlc)
  <2>1. CASE (\E kind \in Kind, k \in Key : Begin(t, kind, k)) \/ LockRow(t) \/ ReadWall(t)
    BY <2>1 DEF Begin, LockRow, ReadWall
  <2>2. CASE SelectClock(t)
    BY <1>1, <2>2 DEF SelectClock
  <2>3. CASE StoreClock(t)
    BY <1>1, <2>3 DEF StoreClock, Free
  <2>4. CASE Victim(t) \/ Rollback(t)
    BY <1>1, <2>4 DEF Victim, Rollback, Release
  <2>5. CASE Commit(t)
    BY <1>1, <2>5 DEF Commit, Release, Held
  <2> QED
    BY <2>1, <2>2, <2>3, <2>4, <2>5 DEF Act, Step
<1>4. \A k \in Key : lock'[k] = s => lock[k] = s
  <2>1. CASE LockRow(t)
    BY <2>1 DEF LockRow, TypeOK
  <2>2. CASE Release(t)
    BY <1>1, <2>2 DEF Release
  <2> QED
    BY <2>1, <2>2 DEF Act, Begin, Step, ReadWall, SelectClock, StoreClock, Victim, Commit, Rollback
<1> QED
  BY <1>2, <1>3, <1>4

LEMMA Elsewhere ==
    ASSUME TypeOK, NEW s \in Session, NEW t \in Session, t # s,
           Held(s), Held(t), Ordered(s), Act(t)
    PROVE  Held(s)' /\ Ordered(s)'
BY Untouched DEF Held, Ordered

\* A step that is not about the clock leaves its session with what it holds.
LEMMA NoClockStep ==
    ASSUME TypeOK, NEW s \in Session, Held(s), Ordered(s),
           pc'[s] \in {"row", "wall", "select"}, holder' = holder, hlc' = hlc,
           draft' = draft, blind' = blind, stamps' = stamps
    PROVE  Held(s)' /\ Ordered(s)'
BY DEF Held, Ordered

LEMMA SelectClockHolds ==
    ASSUME TypeOK, NEW s \in Session, Held(s), Ordered(s), SelectClock(s)
    PROVE  Held(s)' /\ Ordered(s)'
<1>1. pc'[s] = "store" /\ hlc' = hlc /\ stamps' = stamps
  BY DEF SelectClock, TypeOK
<1>2. CASE /\ holder = s
           /\ call' = [call EXCEPT ![s].local = draft[s]]
           /\ UNCHANGED <<holder, draft, blind>>
  <2>1. call'[s].local = draft[s]
    BY <1>2 DEF TypeOK
  <2> QED
    BY <1>1, <1>2, <2>1 DEF Held, Ordered
<1>3. CASE /\ holder = None /\ hlc # Absent
           /\ holder' = s
           /\ call' = [call EXCEPT ![s].local = hlc]
           /\ draft' = [draft EXCEPT ![s] = hlc]
           /\ UNCHANGED blind
  <2>1. call'[s].local = hlc /\ draft'[s] = hlc /\ hlc \in Clock
    BY <1>3 DEF TypeOK
  <2>2. stamps[s] = << >>
    BY <1>3, SessionsAssumption DEF Held
  <2>3. ~Before(hlc, hlc)
    BY <2>1, ClockOrder
  <2> QED
    BY <1>1, <1>3, <2>1, <2>2, <2>3 DEF Held, Ordered
<1>4. CASE /\ holder # s /\ hlc = Absent
           /\ blind' = [blind EXCEPT ![s] = TRUE]
           /\ UNCHANGED <<holder, draft>>
  <2>1. blind'[s]
    BY <1>4 DEF TypeOK
  <2> QED
    BY <1>1, <1>4, <2>1 DEF Held, Ordered
<1> QED
  BY <1>2, <1>3, <1>4 DEF SelectClock

LEMMA StoreClockHolds ==
    ASSUME TypeOK, NEW s \in Session, Held(s), Ordered(s), StoreClock(s)
    PROVE  Held(s)' /\ Ordered(s)'
<1> DEFINE clock == Advance(call[s].local, call[s].remote, call[s].wall)
           q == stamps[s]
<1>1. /\ pc[s] = "store" /\ holder' = s /\ hlc' = hlc /\ blind' = blind
      /\ draft'[s] = clock
      /\ stamps'[s] = q \/ stamps'[s] = Append(q, clock)
      /\ pc'[s] \in {"wall", "row", "open"}
  <2>1. stamps'[s] = q \/ stamps'[s] = Append(q, clock)
    BY DEF StoreClock, TypeOK
  <2> QED
    BY <2>1 DEF StoreClock, TypeOK
<1>2. clock \in Clock /\ Before(call[s].local, clock)
  BY StoredClock
<1> HIDE DEF clock
<1>3. q \in Seq(Clock) /\ Len(q) \in Nat /\ DOMAIN q = 1..Len(q) /\ \A i \in DOMAIN q : q[i] \in Clock
  <2>1. q \in Seq(Clock)
    BY DEF TypeOK
  <2> HIDE DEF q
  <2> QED
    BY <2>1
<1>4. CASE holder = s
  <2>1. draft[s] \in Clock /\ Before(draft[s], clock)
    BY <1>1, <1>2, <1>4 DEF Held
  <2>2. ASSUME NEW i \in DOMAIN q PROVE Before(q[i], clock) /\ ~Before(clock, q[i])
    BY <1>2, <1>3, <2>1, ClockOrder DEF Ordered
  <2>3. ~blind[s] => hlc # Absent /\ Before(hlc, clock) /\ ~Before(clock, hlc)
    <3>1. ~blind[s] => hlc \in Clock /\ ~Before(draft[s], hlc)
      BY <1>4 DEF Ordered, TypeOK
    <3> QED
      BY <1>2, <2>1, <3>1, ClockOrder
  <2>4. Held(s)'
    BY <1>1, <1>2 DEF Held
  <2>5. CASE stamps'[s] = q
    BY <1>1, <1>4, <2>2, <2>3, <2>4, <2>5 DEF Ordered
  <2>6. CASE stamps'[s] = Append(q, clock)
    <3> HIDE DEF q
    <3>1. /\ DOMAIN stamps'[s] = 1..(Len(q) + 1) /\ stamps'[s][Len(q) + 1] = clock
          /\ \A i \in DOMAIN q : stamps'[s][i] = q[i]
      BY <1>3, <2>6
    <3>2. \A i \in DOMAIN stamps'[s] : i \in DOMAIN q \/ i = Len(q) + 1
      BY <1>3, <3>1
    <3>3. ~Before(clock, clock)
      BY <1>2, ClockOrder
    <3>4. \A i, j \in DOMAIN stamps'[s] : i < j => Before(stamps'[s][i], stamps'[s][j])
      <4> SUFFICES ASSUME NEW i \in DOMAIN stamps'[s], NEW j \in DOMAIN stamps'[s], i < j
                   PROVE  Before(stamps'[s][i], stamps'[s][j])
        OBVIOUS
      <4>1. i \in DOMAIN q
        BY <1>3, <3>1
      <4>2. CASE j \in DOMAIN q
        BY <3>1, <4>1, <4>2 DEF Ordered, q
      <4>3. CASE j = Len(q) + 1
        BY <2>2, <3>1, <4>1, <4>3
      <4> QED
        BY <3>2, <4>2, <4>3
    <3>5. \A i \in DOMAIN stamps'[s] : ~Before(clock, stamps'[s][i])
      BY <2>2, <3>1, <3>2, <3>3
    <3>6. ~blind[s] => \A i \in DOMAIN stamps'[s] : Before(hlc, stamps'[s][i])
      BY <1>4, <2>3, <3>1, <3>2 DEF Ordered, q
    <3> QED
      BY <1>1, <2>3, <2>4, <3>4, <3>5, <3>6 DEF Ordered
  <2> QED
    BY <1>1, <2>5, <2>6
<1>5. CASE holder # s
  <2>1. q = << >> /\ blind[s]
    BY <1>1, <1>5 DEF Held
  <2>2. Held(s)'
    BY <1>1, <1>2 DEF Held
  <2>3. ~Before(clock, clock)
    BY <1>2, ClockOrder
  <2>4. CASE stamps'[s] = << >>
    BY <1>1, <2>1, <2>2, <2>4 DEF Ordered
  <2>5. CASE stamps'[s] = Append(<< >>, clock)
    <3>1. DOMAIN stamps'[s] = 1..1 /\ stamps'[s][1] = clock
      BY <2>5
    <3> QED
      BY <1>1, <2>1, <2>2, <2>3, <3>1 DEF Ordered
  <2> QED
    BY <1>1, <2>1, <2>4, <2>5
<1> QED
  BY <1>4, <1>5

LEMMA ReleaseHolds ==
    ASSUME TypeOK, NEW s \in Session, Release(s)
    PROVE  Held(s)' /\ Ordered(s)'
<1>1. holder' # s /\ draft'[s] = Absent /\ stamps'[s] = << >> /\ pc'[s] = "idle"
  BY SessionsAssumption DEF Release, TypeOK
<1> QED
  BY <1>1 DEF Held, Ordered

\* Every session keeps what it holds and the order of its stamps.
LEMMA SessionsHold ==
    ASSUME TypeOK, \A s \in Session : Held(s) /\ Ordered(s), [Next]_vars
    PROVE  \A s \in Session : Held(s)' /\ Ordered(s)'
<1> SUFFICES ASSUME NEW s \in Session PROVE Held(s)' /\ Ordered(s)'
  OBVIOUS
<1>1. CASE UNCHANGED vars
  BY <1>1 DEF vars, Held, Ordered
<1>2. ASSUME NEW t \in Session, Act(t)
      PROVE  Held(s)' /\ Ordered(s)'
  <2>1. CASE t # s
    BY <1>2, <2>1, Elsewhere
  <2>2. CASE Act(s)
    <3>1. CASE (\E kind \in Kind, k \in Key : Begin(s, kind, k)) \/ LockRow(s) \/ ReadWall(s)
      <4>1. pc'[s] \in {"row", "wall", "select"}
        BY <3>1 DEF Begin, LockRow, ReadWall, TypeOK
      <4> QED
        BY <3>1, <4>1, NoClockStep DEF Begin, LockRow, ReadWall
    <3>2. CASE Victim(s) \/ Commit(s) \/ Rollback(s)
      BY <3>2, ReleaseHolds DEF Victim, Commit, Rollback
    <3> QED
      BY <2>2, <3>1, <3>2, SelectClockHolds, StoreClockHolds DEF Act, Step
  <2> QED
    BY <1>2, <2>1, <2>2
<1> QED
  BY <1>1, <1>2 DEF Next, Act

-----------------------------------------------------------------------------
(* The log. *)

History ==
    /\ hlc = Absent => log = << >>
    /\ \A i \in DOMAIN log : log[i].epoch <= epoch
    /\ StampsAscend
    /\ ClockCoversLog

\* The elements of two sequences put together.
LEMMA Concatenation ==
    ASSUME NEW S, NEW u \in Seq(S), NEW v \in Seq(S)
    PROVE  /\ Len(u) \in Nat /\ Len(v) \in Nat /\ DOMAIN u = 1..Len(u)
           /\ \A i \in 1..Len(u) : u[i] \in S
           /\ DOMAIN (u \o v) = 1..(Len(u) + Len(v))
           /\ \A i \in 1..(Len(u) + Len(v)) :
                 (u \o v)[i] = IF i <= Len(u) THEN u[i] ELSE v[i - Len(u)]
OBVIOUS

\* A blind transaction opens an epoch of its own; any other has taken its stamps
\* after the committed clock, which covers those of the epoch.
LEMMA CommitHistory ==
    ASSUME TypeOK, NEW s \in Session, Held(s), Ordered(s), History, Commit(s)
    PROVE  History'
<1> DEFINE q == stamps[s]
           new == [i \in DOMAIN q |-> [stamp |-> q[i], epoch |-> epoch']]
           L == Len(log)
<1>1. /\ holder = s /\ hlc' = draft[s] /\ draft[s] \in Clock /\ hlc' \in Clock
      /\ epoch' \in Nat /\ epoch' = IF blind[s] THEN epoch + 1 ELSE epoch
      /\ log' = log \o new
      /\ new \in Seq([stamp : Clock, epoch : Nat]) /\ Len(new) = Len(q)
      /\ \A i \in 1..Len(q) : new[i] = [stamp |-> q[i], epoch |-> epoch'] /\ q[i] \in Clock
  BY CommitEffect
<1>2. q \in Seq(Clock) /\ log \in Seq([stamp : Clock, epoch : Nat]) /\ epoch \in Nat
  BY DEF TypeOK
<1>3. /\ \A i, j \in 1..Len(q) : i < j => Before(q[i], q[j])
      /\ \A i \in 1..Len(q) : ~Before(hlc', q[i])
      /\ ~blind[s] => /\ hlc # Absent /\ ~Before(hlc', hlc)
                      /\ \A i \in 1..Len(q) : Before(hlc, q[i])
  <2>1. DOMAIN q = 1..Len(q)
    BY <1>2
  <2> QED
    BY <1>1, <2>1 DEF Ordered
<1> HIDE DEF q, new
<1>4. /\ L \in Nat /\ Len(q) \in Nat /\ DOMAIN log = 1..L /\ DOMAIN log' = 1..(L + Len(q))
      /\ \A i \in 1..L : log'[i] = log[i] /\ log[i].stamp \in Clock /\ log[i].epoch \in Nat
      /\ \A i \in (L + 1)..(L + Len(q)) : log'[i] = new[i - L] /\ i - L \in 1..Len(q)
  <2> DEFINE Entry == [stamp : Clock, epoch : Nat]
  <2>0. log \in Seq(Entry) /\ new \in Seq(Entry)
    BY <1>1, <1>2
  <2> HIDE DEF Entry
  <2>1. L \in Nat /\ Len(q) \in Nat /\ DOMAIN log = 1..L
    BY <1>1, <2>0, Concatenation
  <2>2. \A i \in 1..L : log[i].stamp \in Clock /\ log[i].epoch \in Nat
    <3>1. \A i \in 1..L : log[i] \in Entry
      BY <2>0, Concatenation
    <3> QED
      BY <3>1 DEF Entry
  <2>3. /\ DOMAIN log' = 1..(L + Len(q))
        /\ \A i \in 1..(L + Len(q)) : log'[i] = IF i <= L THEN log[i] ELSE new[i - L]
    <3>1. log' = log \o new /\ Len(new) = Len(q)
      BY <1>1
    <3>2. /\ DOMAIN (log \o new) = 1..(Len(log) + Len(new))
          /\ \A i \in 1..(Len(log) + Len(new)) :
                (log \o new)[i] = IF i <= Len(log) THEN log[i] ELSE new[i - Len(log)]
      BY <2>0, Concatenation, Zenon
    <3> QED
      BY <3>1, <3>2, Zenon
  <2> HIDE DEF L
  <2>4. /\ \A i \in 1..L : i \in 1..(L + Len(q)) /\ i <= L
        /\ \A i \in (L + 1)..(L + Len(q)) :
              i \in 1..(L + Len(q)) /\ ~(i <= L) /\ i - L \in 1..Len(q)
    BY <2>1
  <2> QED
    BY <2>1, <2>2, <2>3, <2>4
<1> HIDE DEF L
<1>5. ASSUME NEW i \in 1..L
      PROVE  /\ log'[i] = log[i] /\ log[i].stamp \in Clock /\ log[i].epoch <= epoch'
             /\ log[i].epoch = epoch' => ~blind[s] /\ log[i].epoch = epoch
  <2>1. log[i].epoch <= epoch /\ log[i].epoch \in Nat
    BY <1>4 DEF History
  <2>2. CASE blind[s]
    BY <1>1, <1>2, <1>4, <2>1, <2>2
  <2>3. CASE ~blind[s]
    BY <1>1, <1>2, <1>4, <2>1, <2>3
  <2> QED
    BY <2>2, <2>3
<1>6. ASSUME NEW i \in (L + 1)..(L + Len(q))
      PROVE  log'[i].epoch = epoch' /\ log'[i].stamp = q[i - L] /\ i - L \in 1..Len(q)
  <2>1. log'[i] = [stamp |-> q[i - L], epoch |-> epoch']
    BY <1>1, <1>4
  <2> QED
    BY <1>4, <2>1
<1>7. \A i \in 1..L : log[i].epoch = epoch' =>
        ~Before(hlc', log[i].stamp) /\ \A j \in 1..Len(q) : Before(log[i].stamp, q[j])
  <2> SUFFICES ASSUME NEW i \in 1..L, log[i].epoch = epoch'
               PROVE  /\ ~Before(hlc', log[i].stamp)
                      /\ \A j \in 1..Len(q) : Before(log[i].stamp, q[j])
    OBVIOUS
  <2>1. ~blind[s] /\ log[i].epoch = epoch
    BY <1>5
  <2>2. hlc \in Clock /\ log[i].stamp \in Clock
    BY <1>3, <1>4, <2>1 DEF TypeOK
  <2>3. ~Before(hlc, log[i].stamp)
    BY <1>4, <2>1 DEF History, ClockCoversLog
  <2> QED
    BY <1>1, <1>3, <2>1, <2>2, <2>3, ClockOrder
<1>8. \A i \in DOMAIN log' : i \in 1..L \/ i \in (L + 1)..(L + Len(q))
  BY <1>4
<1>9. hlc' # Absent
  BY <1>1, ClockOrder
<1>10. \A i \in DOMAIN log' : log'[i].epoch <= epoch'
  BY <1>1, <1>5, <1>6, <1>8
<1>11. StampsAscend'
  <2> SUFFICES ASSUME NEW i \in DOMAIN log', NEW j \in DOMAIN log', i < j,
                      log'[i].epoch = log'[j].epoch
               PROVE  Before(log'[i].stamp, log'[j].stamp)
    BY DEF StampsAscend
  <2>1. CASE i \in 1..L /\ j \in 1..L
    <3>1. i \in DOMAIN log /\ j \in DOMAIN log /\ log'[i] = log[i] /\ log'[j] = log[j]
      BY <1>4, <2>1
    <3> QED
      BY <3>1 DEF History, StampsAscend
  <2>2. CASE i \in 1..L /\ j \in (L + 1)..(L + Len(q))
    BY <1>5, <1>6, <1>7, <2>2
  <2>3. CASE i \in (L + 1)..(L + Len(q)) /\ j \in (L + 1)..(L + Len(q))
    <3>1. i - L < j - L
      BY <1>4, <2>3
    <3> QED
      BY <1>3, <1>6, <2>3, <3>1
  <2>4. ~(i \in (L + 1)..(L + Len(q)) /\ j \in 1..L)
    BY <1>4
  <2> QED
    BY <1>8, <2>1, <2>2, <2>3, <2>4
<1>12. ClockCoversLog'
  <2> SUFFICES ASSUME NEW i \in DOMAIN log', log'[i].epoch = epoch'
               PROVE  ~Before(hlc', log'[i].stamp)
    BY DEF ClockCoversLog
  <2>1. CASE i \in 1..L
    BY <1>5, <1>7, <2>1
  <2>2. CASE i \in (L + 1)..(L + Len(q))
    BY <1>3, <1>6, <2>2
  <2> QED
    BY <1>8, <2>1, <2>2
<1> QED
  BY <1>9, <1>10, <1>11, <1>12 DEF History

SessionsInv == TypeOK /\ (\A s \in Session : Held(s) /\ Ordered(s)) /\ History

\* Neither the order of the log nor its cover by the clock is inductive alone: the
\* log grows by what a transaction has noted, so the notes must be in order too,
\* and after the committed clock.
THEOREM Invariance == Spec => []SessionsInv
<1>1. Init => SessionsInv
  <2> SUFFICES ASSUME Init PROVE SessionsInv
    OBVIOUS
  <2>1. \A s \in Session : Held(s) /\ Ordered(s)
    BY SessionsAssumption DEF Init, Held, Ordered
  <2>2. History
    BY DEF Init, History, StampsAscend, ClockCoversLog
  <2> QED
    BY <2>1, <2>2, InitTypes DEF SessionsInv
<1>2. SessionsInv /\ [Next]_vars => SessionsInv'
  <2> SUFFICES ASSUME SessionsInv, [Next]_vars PROVE SessionsInv'
    OBVIOUS
  <2>1. TypeOK'
    BY StepTypes DEF SessionsInv
  <2>2. \A s \in Session : Held(s)' /\ Ordered(s)'
    BY SessionsHold DEF SessionsInv
  <2>3. History'
    <3>1. CASE UNCHANGED <<hlc, log, epoch>>
      BY <3>1 DEF SessionsInv, History, StampsAscend, ClockCoversLog
    <3>2. CASE \E s \in Session : Commit(s)
      BY <3>2, CommitHistory DEF SessionsInv
    <3>3. UNCHANGED <<hlc, log, epoch>> \/ \E s \in Session : Commit(s)
      BY DEF Next, Step, Begin, LockRow, ReadWall, SelectClock, StoreClock, Rollback, Victim, vars
    <3> QED
      BY <3>1, <3>2, <3>3
  <2> QED
    BY <2>1, <2>2, <2>3 DEF SessionsInv
<1> QED
  BY <1>1, <1>2, PTL DEF Spec

\* All variables keep their types, in particular every draft of the clock is one.
THEOREM Typing == Spec => []TypeOK
BY Invariance, PTL DEF SessionsInv

\* Stamps ascend in commit order until a blind transaction commits, for any number
\* of concurrent transactions, rollbacks and deadlocks.
THEOREM CommitsAscend == Spec => []StampsAscend
BY Invariance, PTL DEF SessionsInv, History

\* The committed clock covers every stamp since it last started over.
THEOREM ClockCovers == Spec => []ClockCoversLog
BY Invariance, PTL DEF SessionsInv, History

\* A session that has taken a stamp keeps all others from taking one.
THEOREM StampersExclude == Spec => []OneStamper
<1>1. SessionsInv => OneStamper
  BY DEF SessionsInv, Held, OneStamper
<1> QED
  BY <1>1, Invariance, PTL

\* Only a transaction that saw no clock can move the committed clock back.
THEOREM ClockMovesUp == Spec => ClockAscends
<1>1. ASSUME SessionsInv, NEW s \in Session, Commit(s), ~blind[s]
      PROVE  hlc' = hlc \/ Before(hlc, hlc')
  <2>1. holder = s /\ hlc' = draft[s] /\ hlc' \in Clock
    BY <1>1, CommitEffect DEF SessionsInv
  <2>2. hlc \in Clock /\ ~Before(hlc', hlc)
    BY <1>1, <2>1 DEF SessionsInv, Ordered, TypeOK
  <2> QED
    BY <2>1, <2>2, ClockOrder
<1>2. SessionsInv /\ [Next]_vars =>
        [\A s \in Session : Commit(s) => hlc' = hlc \/ Before(hlc, hlc') \/ blind[s]]_vars
  BY <1>1
<1> QED
  BY <1>2, Invariance, PTL DEF Spec, ClockAscends
-----------------------------------------------------------------------------
(* Deadlocks. *)

\* Who waits for the lock of a row and has locked anything already has the clock,
\* and is past the first row of its transaction or in the middle of an upsert.
Locking(s) ==
    /\ pc[s] = "idle" => holder # s /\ \A k \in Key : lock[k] # s
    /\ pc[s] # "idle" => rows[s] >= 1
    /\ pc[s] = "row" => stmt[s].key \in Key
    /\ pc[s] = "row" /\ (holder = s \/ \E k \in Key : lock[k] = s) =>
         /\ holder = s
         /\ rows[s] > 1 \/ stmt[s].kind = "UPSERT"

LEMMA LockingElsewhere ==
    ASSUME TypeOK, NEW s \in Session, NEW t \in Session, t # s, Held(t), Locking(s), Act(t)
    PROVE  Locking(s)'
BY Untouched DEF Locking

LEMMA LockingOwn ==
    ASSUME TypeOK, NEW s \in Session, Held(s), Locking(s), Act(s)
    PROVE  Locking(s)'
<1>1. ASSUME NEW kind \in Kind, NEW k \in Key, Begin(s, kind, k)
      PROVE  Locking(s)'
  <2>1. /\ pc[s] \in {"idle", "open"} /\ pc'[s] # "idle"
        /\ rows[s] \in Nat /\ rows'[s] = rows[s] + 1 /\ holder' = holder /\ lock' = lock
        /\ stmt'[s].key = k
    BY <1>1 DEF Begin, TypeOK
  <2>2. pc[s] = "open" => holder = s
    BY DEF Held
  <2> QED
    BY <2>1, <2>2 DEF Locking
<1>2. CASE LockRow(s) \/ ReadWall(s) \/ SelectClock(s)
  <2>1. pc[s] # "idle" /\ pc'[s] \notin {"idle", "row"} /\ rows' = rows
    BY <1>2 DEF LockRow, ReadWall, SelectClock, TypeOK
  <2> QED
    BY <2>1 DEF Locking
<1>3. CASE StoreClock(s)
  <2>1. /\ pc[s] # "idle" /\ pc'[s] # "idle" /\ rows' = rows /\ holder' = s
        /\ pc'[s] = "row" => /\ stmt[s].kind = "INSERT"
                             /\ stmt'[s] = [stmt[s] EXCEPT !.kind = "UPSERT"]
    BY <1>3 DEF StoreClock, TypeOK
  <2>2. pc'[s] = "row" => stmt'[s].kind = "UPSERT" /\ stmt'[s].key \in Key
    <3>1. stmt[s] \in [kind : Kind, key : Key] \cup {NoStatement}
      BY DEF TypeOK
    <3>2. ASSUME stmt[s] = NoStatement PROVE stmt[s].kind # "INSERT"
      BY <3>2, SessionsAssumption DEF NoStatement, Kind
    <3> QED
      BY <2>1, <3>1, <3>2
  <2> QED
    BY <2>1, <2>2 DEF Locking
<1>4. CASE Release(s)
  <2>1. /\ pc'[s] = "idle" /\ holder' # s /\ \A k \in Key : lock'[k] # s
    BY <1>4, SessionsAssumption DEF Release, TypeOK
  <2> QED
    BY <2>1 DEF Locking
<1> QED
  BY <1>1, <1>2, <1>3, <1>4 DEF Act, Step, Victim, Commit, Rollback

\* The session a session of a cycle is waited for by is in that cycle too.
LEMMA CycleBack ==
    ASSUME NEW s \in Session, InCycle(s)
    PROVE  /\ WaitsFor(s) \in Session
           /\ \E p \in Session : InCycle(p) /\ WaitsFor(p) = s
<1>0. PICK n \in 1..Cardinality(Session) : \E path \in [0..n -> Session] :
        /\ path[0] = s /\ path[n] = s
        /\ \A i \in 1..n : WaitsFor(path[i - 1]) = path[i]
  BY DEF InCycle
<1>1. PICK path \in [0..n -> Session] :
        /\ path[0] = s /\ path[n] = s
        /\ \A i \in 1..n : WaitsFor(path[i - 1]) = path[i]
  BY <1>0
<1>2. n \in Nat /\ n >= 1 /\ n \in 1..n /\ 1 \in 1..n /\ 1 \in 0..n
  <2>1. n \in Int /\ n >= 1
    OBVIOUS
  <2> QED
    BY <2>1
<1>3. WaitsFor(s) \in Session
  BY <1>1, <1>2
<1> DEFINE turned == [i \in 0..n |-> IF i = 0 THEN path[n - 1] ELSE path[i - 1]]
<1>4. \A i \in 0..n : i # 0 => i - 1 \in 0..n
  BY <1>2
<1>5. path[n - 1] \in Session /\ n - 1 \in 0..n
  BY <1>2
<1>6. turned \in [0..n -> Session] /\ turned[0] = path[n - 1] /\ turned[n] = path[n - 1]
  BY <1>2, <1>4, <1>5
<1>7. \A i \in 1..n : WaitsFor(turned[i - 1]) = turned[i]
  <2> SUFFICES ASSUME NEW i \in 1..n PROVE WaitsFor(turned[i - 1]) = turned[i]
    OBVIOUS
  <2>1. i \in 0..n /\ i # 0 /\ i - 1 \in 0..n /\ turned[i] = path[i - 1]
    BY <1>2
  <2>2. CASE i = 1
    <3>1. turned[i - 1] = path[n - 1] /\ turned[i] = path[0]
      BY <1>2, <2>1, <2>2
    <3> QED
      BY <1>1, <1>2, <3>1
  <2>3. CASE i # 1
    <3>1. i - 1 # 0 /\ i - 1 \in 1..n
      BY <1>2, <2>3
    <3>2. turned[i - 1] = path[(i - 1) - 1]
      BY <2>1, <3>1
    <3> QED
      BY <1>1, <2>1, <3>1, <3>2
  <2> QED
    BY <2>2, <2>3
<1>8. InCycle(path[n - 1])
  <2> HIDE DEF turned
  <2> QED
    BY <1>6, <1>7 DEF InCycle
<1>9. WaitsFor(path[n - 1]) = s
  BY <1>1, <1>2
<1> QED
  BY <1>3, <1>5, <1>8, <1>9

\* A session waits for the holder of a table row, before it has asked for the
\* clock, or for the holder of the clock.
LEMMA Waiting ==
    ASSUME NEW s \in Session, NEW t \in Session, Locking(s), WaitsFor(s) = t
    PROVE  \/ pc[s] = "row" /\ \E k \in Key : lock[k] = t
           \/ pc[s] # "row" /\ holder = t /\ holder # s
<1>1. None # t
  BY SessionsAssumption
<1>2. CASE pc[s] = "row"
  <2>1. lock[stmt[s].key] = t
    BY <1>1, <1>2 DEF WaitsFor
  <2> QED
    BY <1>2, <2>1 DEF Locking
<1>3. CASE pc[s] # "row"
  BY <1>1, <1>3 DEF WaitsFor
<1> QED
  BY <1>2, <1>3

\* A session of a cycle that waits for a row has held another lock before.
LEMMA RowWaiter ==
    ASSUME \A s \in Session : Locking(s), NEW s \in Session, InCycle(s), pc[s] = "row"
    PROVE  holder = s /\ (rows[s] > 1 \/ stmt[s].kind = "UPSERT")
<1>1. PICK p \in Session : WaitsFor(p) = s
  BY CycleBack
<1>2. holder = s \/ \E k \in Key : lock[k] = s
  BY <1>1, Waiting
<1> QED
  BY <1>2 DEF Locking

\* In every deadlock the transaction that has the clock asks for a row of the
\* table, after another row or as an INSERT that has found its key: a cycle in
\* which all wait for the clock would be one of its holder alone, who does not
\* wait for it, and who waits for a row with a lock in hand has the clock.
THEOREM DeadlocksTakeClockFirst == Spec => []DeadlockTakesClockFirst
<1> DEFINE Locks == \A s \in Session : Locking(s)
           Culprit(t) == /\ InCycle(t) /\ pc[t] = "row" /\ holder = t
                         /\ rows[t] > 1 \/ stmt[t].kind = "UPSERT"
<1>1. Init => Locks
  BY SessionsAssumption DEF Init, Locking
<1>2. SessionsInv /\ Locks /\ [Next]_vars => Locks'
  <2> SUFFICES ASSUME SessionsInv, Locks, [Next]_vars, NEW s \in Session PROVE Locking(s)'
    OBVIOUS
  <2>1. CASE UNCHANGED vars
    BY <2>1 DEF vars, Locking
  <2>2. ASSUME NEW t \in Session, Act(t) PROVE Locking(s)'
    BY <2>2, LockingOwn, LockingElsewhere DEF SessionsInv
  <2> QED
    BY <2>1, <2>2 DEF Next, Act
<1>3. Locks => DeadlockTakesClockFirst
  <2> SUFFICES ASSUME Locks, NEW s \in Session, InCycle(s)
               PROVE  \E t \in Session : Culprit(t)
    BY DEF DeadlockTakesClockFirst
  <2>1. CASE pc[s] = "row"
    BY <2>1, RowWaiter
  <2>2. CASE pc[s] # "row"
    <3>1. PICK p \in Session : InCycle(p) /\ WaitsFor(p) = s
      BY CycleBack
    <3>2. holder # s
      BY <2>2, CycleBack, Waiting
    <3>3. pc[p] = "row"
      BY <3>1, <3>2, Waiting
    <3> QED
      BY <3>1, <3>3, RowWaiter
  <2> QED
    BY <2>1, <2>2
<1> QED
  BY <1>1, <1>2, <1>3, Invariance, PTL DEF Spec

-----------------------------------------------------------------------------
(* Atomic calls. *)

\* A call under way has arguments AtomicClock allows for, and has read zero if its
\* session does not have the clock.  To have found no clock matters to a session
\* until it stores one.
Called(s) ==
    /\ pc[s] \in {"row", "wall", "select", "store"} =>
         call[s].remote \in {Zero} \cup Incoming \cup {stamps[s][i] : i \in DOMAIN stamps[s]}
    /\ pc[s] \in {"select", "store"} => call[s].wall \in Wall
    /\ pc[s] = "store" /\ holder # s => call[s].local = Zero
    /\ pc[s] # "store" /\ blind[s] => holder = s

LEMMA CalledElsewhere ==
    ASSUME TypeOK, NEW s \in Session, NEW t \in Session, t # s, Held(t), Called(s), Act(t)
    PROVE  Called(s)'
BY Untouched DEF Called

LEMMA CalledOwn ==
    ASSUME TypeOK, NEW s \in Session, Held(s), Called(s), Act(s)
    PROVE  Called(s)'
<1>1. ASSUME NEW kind \in Kind, NEW k \in Key, Begin(s, kind, k)
      PROVE  Called(s)'
  <2>1. PICK r \in IF kind = "APPLY" THEN Incoming ELSE {Zero} : call' = [call EXCEPT ![s].remote = r]
    BY <1>1 DEF Begin
  <2>2. call'[s].remote \in {Zero} \cup Incoming
    BY <2>1 DEF TypeOK
  <2>3. /\ pc[s] \in {"idle", "open"} /\ pc'[s] \in {"row", "wall"}
        /\ UNCHANGED <<holder, blind, stamps>>
    BY <1>1 DEF Begin, TypeOK
  <2> QED
    BY <2>2, <2>3 DEF Called
<1>2. CASE LockRow(s)
  <2>1. pc[s] = "row" /\ pc'[s] = "wall" /\ UNCHANGED <<call, holder, blind, stamps>>
    BY <1>2 DEF LockRow, TypeOK
  <2> QED
    BY <2>1 DEF Called
<1>3. CASE ReadWall(s)
  <2>1. /\ pc[s] = "wall" /\ pc'[s] = "select" /\ UNCHANGED <<holder, blind, stamps>>
        /\ call'[s].remote = call[s].remote /\ call'[s].wall \in Wall
    BY <1>3 DEF ReadWall, TypeOK
  <2> QED
    BY <2>1 DEF Called
<1>4. CASE SelectClock(s)
  <2>1. /\ pc[s] = "select" /\ pc'[s] = "store" /\ UNCHANGED stamps
        /\ call'[s].remote = call[s].remote /\ call'[s].wall = call[s].wall
        /\ holder' = s \/ call'[s].local = Zero
    BY <1>4 DEF SelectClock, TypeOK
  <2> QED
    BY <2>1 DEF Called
<1>5. CASE StoreClock(s)
  <2> DEFINE clock == Advance(call[s].local, call[s].remote, call[s].wall)
  <2>1. /\ holder' = s /\ blind' = blind
        /\ \/ pc'[s] = "open" \/ (pc'[s] = "row" /\ call'[s].remote = Zero)
           \/ pc'[s] = "wall" /\ call'[s].remote = clock /\ stamps'[s] = Append(stamps[s], clock)
    BY <1>5 DEF StoreClock, TypeOK, NoCall
  <2>2. clock \in Clock /\ stamps[s] \in Seq(Clock)
    BY StoredClock DEF TypeOK
  <2> HIDE DEF clock
  <2> DEFINE q == stamps[s]
  <2>3. \E i \in DOMAIN Append(q, clock) : Append(q, clock)[i] = clock
    <3>1. q \in Seq(Clock)
      BY <2>2
    <3> HIDE DEF q
    <3>2. Len(q) + 1 \in DOMAIN Append(q, clock) /\ Append(q, clock)[Len(q) + 1] = clock
      BY <2>2, <3>1
    <3> QED
      BY <3>2
  <2> QED
    BY <2>1, <2>3 DEF Called
<1>6. CASE Release(s)
  <2>1. pc'[s] = "idle" /\ ~blind'[s]
    BY <1>6 DEF Release, TypeOK
  <2> QED
    BY <2>1 DEF Called
<1> QED
  BY <1>1, <1>2, <1>3, <1>4, <1>5, <1>6 DEF Act, Step, Victim, Commit, Rollback

\* The clock and the stamps of the transaction that has it, and who found none.
Working == IF holder = None THEN Absent ELSE draft[holder]
Taken == IF holder = None THEN << >> ELSE stamps[holder]
Asked == {s \in Session : blind[s]}

LEMMA SameAdvance == \A c, r, w : Atomic!Advance(c, r, w) = Advance(c, r, w)
BY DEF Atomic!Advance, Advance

\* The SELECT takes the clock, finds none, or finds the one it holds already.
LEMMA SelectIsTakeOrAsk ==
    ASSUME TypeOK, NEW s \in Session, Held(s), Called(s), SelectClock(s)
    PROVE  Atomic!Take(s) \/ Atomic!Ask(s) \/ UNCHANGED Atomic!vars
<1>1. pc[s] = "select" /\ s # None
  BY SessionsAssumption DEF SelectClock
<1>2. CASE holder = s /\ UNCHANGED <<holder, draft, blind>>
  BY <1>2 DEF SelectClock, Atomic!vars
<1>3. CASE /\ holder = None /\ hlc # Absent /\ holder' = s
           /\ draft' = [draft EXCEPT ![s] = hlc] /\ UNCHANGED blind
  <2>1. s \notin Asked /\ stamps[s] = << >> /\ draft'[s] = hlc
    BY <1>1, <1>3 DEF Called, Held, Asked, TypeOK
  <2>2. Working' = hlc /\ Taken = << >> /\ Taken' = << >> /\ Asked' = Asked
    BY <1>1, <1>3, <2>1 DEF Working, Taken, Asked, SelectClock
  <2> QED
    BY <1>1, <1>3, <2>1, <2>2 DEF Atomic!Take, Atomic!Absent, Absent, SelectClock, Working, Taken, Asked
<1>4. CASE /\ holder # s /\ hlc = Absent
           /\ blind' = [blind EXCEPT ![s] = TRUE] /\ UNCHANGED <<holder, draft>>
  <2>1. Asked' = Asked \cup {s} /\ Working' = Working /\ Taken' = Taken
    BY <1>4 DEF Asked, Working, Taken, SelectClock, TypeOK
  <2> QED
    BY <1>4, <2>1 DEF Atomic!Ask, Atomic!Absent, Absent, SelectClock, Working, Taken, Asked
<1> QED
  BY <1>2, <1>3, <1>4 DEF SelectClock

LEMMA StoreIsCall ==
    ASSUME TypeOK, NEW s \in Session, Held(s), Called(s), StoreClock(s)
    PROVE  Atomic!Call(s) \/ Atomic!StartOver(s)
<1> DEFINE r == call[s].remote
           w == call[s].wall
           clock == Advance(call[s].local, r, w)
<1>1. /\ pc[s] = "store" /\ s # None /\ holder \in {None, s} /\ holder' = s
      /\ draft'[s] = clock /\ stamps'[s] = IF r = Zero THEN Append(stamps[s], clock) ELSE stamps[s]
      /\ UNCHANGED <<hlc, blind, log, epoch>>
  BY SessionsAssumption DEF StoreClock, Free, TypeOK
<1>2. stamps[s] = Taken /\ w \in Wall
  BY <1>1 DEF Called, Held, Taken
<1>3. r \in Atomic!Remote
  BY <1>1, <1>2 DEF Called, Atomic!Remote, Atomic!Zero, Zero, Taken
<1>4. Atomic!Move(s, r, clock)
  <2>1. Working' = clock /\ Taken' = (IF r = Zero THEN Append(Taken, clock) ELSE Taken)
    BY <1>1, <1>2 DEF Working, Taken
  <2>2. Asked' = Asked
    BY <1>1 DEF Asked
  <2> HIDE DEF clock, r
  <2> QED
    BY <1>1, <2>1, <2>2 DEF Atomic!Move, Atomic!Zero, Zero, Working, Taken, Asked
<1>5. CASE holder = s
  <2>1. call[s].local = Working
    BY <1>1, <1>5 DEF Held, Working
  <2>2. clock = Atomic!Advance(Working, r, w)
    BY <2>1, SameAdvance
  <2> HIDE DEF clock, r, w
  <2> QED
    BY <1>2, <1>3, <1>4, <1>5, <2>2 DEF Atomic!Call, Working
<1>6. CASE holder = None
  <2>1. call[s].local = Zero /\ s \in Asked
    BY <1>1, <1>6 DEF Called, Held, Asked
  <2>2. clock = Atomic!Advance(Atomic!Zero, r, w)
    BY <2>1, SameAdvance DEF Atomic!Zero, Zero
  <2> HIDE DEF clock, r, w
  <2> QED
    BY <1>2, <1>3, <1>4, <1>6, <2>1, <2>2 DEF Atomic!StartOver, Asked
<1> QED
  BY <1>1, <1>5, <1>6

LEMMA ReleaseIsLeave ==
    ASSUME TypeOK, NEW s \in Session, Release(s)
    PROVE  Atomic!Leave(s)
<1>1. s # None /\ holder' = IF holder = s THEN None ELSE holder
  BY SessionsAssumption DEF Release
<1>2. /\ Working' = IF holder = s THEN Absent ELSE Working
      /\ Taken' = IF holder = s THEN << >> ELSE Taken
  <2>1. holder \in Session \cup {None}
    BY DEF TypeOK
  <2>2. \A t \in Session : t # s => draft'[t] = draft[t] /\ stamps'[t] = stamps[t]
    BY DEF Release, TypeOK
  <2> QED
    BY <1>1, <2>1, <2>2 DEF Working, Taken
<1>3. Asked' = Asked \ {s}
  BY DEF Asked, Release, TypeOK
<1> QED
  BY <1>1, <1>2, <1>3 DEF Atomic!Leave, Atomic!Absent, Absent, Working, Taken, Asked

LEMMA CommitIsCommit ==
    ASSUME TypeOK, NEW s \in Session, Held(s), Commit(s)
    PROVE  Atomic!Commit(s)
<1>1. holder = s /\ s # None /\ Working = draft[s] /\ Taken = stamps[s]
  BY SessionsAssumption DEF Commit, Held, Working, Taken
<1>2. s \in Asked <=> blind[s]
  BY DEF Asked
<1>3. Atomic!Leave(s)
  BY ReleaseIsLeave DEF Commit
<1>4. /\ hlc' = Working
      /\ epoch' = IF s \in Asked THEN epoch + 1 ELSE epoch
      /\ log' = log \o [i \in DOMAIN Taken |-> [stamp |-> Taken[i], epoch |-> epoch']]
  BY <1>1, <1>2 DEF Commit
<1> QED
  BY <1>1, <1>3, <1>4 DEF Atomic!Commit, Working, Taken, Asked

\* The statements of advance_hlc have the effect of atomic calls: the reading of
\* the wall clock, the lock of the row and the write of any number of sessions
\* interleave, but only the write is visible, and it is that of one call made
\* with the clock in hand.
THEOREM CallsAreAtomic == Spec => RefinesAtomicClock
<1> DEFINE Calls == \A s \in Session : Called(s)
<1>1. Init => Atomic!Init /\ Calls
  <2>1. Init => Atomic!Init
    BY DEF Init, Atomic!Init, Atomic!Absent, Absent
  <2>2. Init => Calls
    BY DEF Init, Called
  <2> QED
    BY <2>1, <2>2
<1>2. SessionsInv /\ Calls /\ [Next]_vars => Calls'
  <2> SUFFICES ASSUME SessionsInv, Calls, [Next]_vars, NEW s \in Session PROVE Called(s)'
    OBVIOUS
  <2>1. CASE UNCHANGED vars
    BY <2>1 DEF vars, Called
  <2>2. ASSUME NEW t \in Session, Act(t) PROVE Called(s)'
    BY <2>2, CalledOwn, CalledElsewhere DEF SessionsInv
  <2> QED
    BY <2>1, <2>2 DEF Next, Act
<1>3. SessionsInv /\ Calls /\ [Next]_vars => [Atomic!Next]_(Atomic!vars)
  <2> SUFFICES ASSUME SessionsInv, Calls, [Next]_vars PROVE Atomic!Next \/ UNCHANGED Atomic!vars
    OBVIOUS
  <2>1. CASE UNCHANGED <<hlc, holder, draft, blind, stamps, log, epoch>>
    BY <2>1 DEF Atomic!vars
  <2>2. ASSUME NEW s \in Session, Act(s) PROVE Atomic!Next \/ UNCHANGED Atomic!vars
    <3>1. TypeOK /\ Held(s) /\ Called(s)
      BY DEF SessionsInv
    <3>2. CASE (\E kind \in Kind, k \in Key : Begin(s, kind, k)) \/ LockRow(s) \/ ReadWall(s)
      BY <2>1, <3>2 DEF Begin, LockRow, ReadWall
    <3>3. CASE SelectClock(s)
      BY <3>1, <3>3, SelectIsTakeOrAsk DEF Atomic!Next
    <3>4. CASE StoreClock(s)
      BY <3>1, <3>4, StoreIsCall DEF Atomic!Next
    <3>5. CASE Commit(s)
      BY <3>1, <3>5, CommitIsCommit DEF Atomic!Next
    <3>6. CASE Rollback(s) \/ Victim(s)
      BY <3>1, <3>6, ReleaseIsLeave DEF Rollback, Victim, Atomic!Abort, Atomic!Next
    <3> QED
      BY <2>2, <3>2, <3>3, <3>4, <3>5, <3>6 DEF Act, Step
  <2> QED
    BY <2>1, <2>2 DEF Next, Act, vars
<1> QED
  BY <1>1, <1>2, <1>3, Invariance, PTL DEF Spec, RefinesAtomicClock, Atomic!Spec
=============================================================================
