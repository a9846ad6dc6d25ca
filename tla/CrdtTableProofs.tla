-------------------------- MODULE CrdtTableProofs --------------------------
(***************************************************************************)
(* Theorems about CrdtTable, for every set of nodes, keys, contents and    *)
(* clock readings.                                                         *)
(***************************************************************************)
EXTENDS CrdtTable, MeshProofs

-----------------------------------------------------------------------------
(* The clock. *)

\* A reading that fits its column is a stamp after both its arguments.
LEMMA AdvanceStamp ==
    ASSUME NEW local \in Stamp, NEW remote \in Stamp \cup {Zero}, NEW w \in Wall,
           Fits(Advance(local, remote, w))
    PROVE  /\ Advance(local, remote, w) \in Stamp
           /\ Before(local, Advance(local, remote, w))
           /\ Before(remote, Advance(local, remote, w))
<1> DEFINE T == Wall \cup {SeedRow.hlc.ts}
           new == Advance(local, remote, w)
<1>1. T \subseteq Nat /\ MaxInt4 \in Nat /\ w \in T
  BY CrdtAssumption
<1>2. local.ts \in T /\ local.counter \in Nat
  BY <1>1 DEF Stamp
<1>3. remote.ts \in Nat /\ remote.counter \in Nat /\ (remote.ts \in T \/ remote.ts = 0)
  BY <1>1 DEF Stamp, Zero
<1>4. /\ local = [ts |-> local.ts, counter |-> local.counter]
      /\ remote = [ts |-> remote.ts, counter |-> remote.counter]
  <2>1. \A x \in Stamp : x = [ts |-> x.ts, counter |-> x.counter]
    BY DEF Stamp
  <2> QED
    BY <2>1 DEF Zero
<1>5. \/ w > local.ts /\ w > remote.ts /\ new = [ts |-> w, counter |-> 0]
      \/ local.ts > remote.ts /\ new = [ts |-> local.ts, counter |-> local.counter + 1]
      \/ remote.ts > local.ts /\ new = [ts |-> remote.ts, counter |-> remote.counter + 1]
      \/ /\ local.ts = remote.ts
         /\ \E c \in Nat : /\ new = [ts |-> local.ts, counter |-> c]
                          /\ c > local.counter /\ c > remote.counter
  <2>1. CASE w > local.ts /\ w > remote.ts
    BY <2>1 DEF Advance
  <2>2. CASE ~(w > local.ts /\ w > remote.ts) /\ local.ts > remote.ts
    BY <1>4, <2>2 DEF Advance
  <2>3. CASE ~(w > local.ts /\ w > remote.ts) /\ remote.ts > local.ts
    <3>1. ~(local.ts > remote.ts)
      BY <1>1, <1>2, <1>3, <2>3
    <3>2. new = [remote EXCEPT !.counter = @ + 1]
      BY <2>3, <3>1 DEF Advance
    <3>3. [remote EXCEPT !.counter = @ + 1] = [ts |-> remote.ts, counter |-> remote.counter + 1]
      BY <1>4
    <3> QED
      BY <2>3, <3>2, <3>3
  <2>4. CASE ~(w > local.ts /\ w > remote.ts) /\ local.ts = remote.ts
    <3> DEFINE c == (IF local.counter >= remote.counter
                     THEN local.counter ELSE remote.counter) + 1
    <3>1. c \in Nat /\ c > local.counter /\ c > remote.counter
      BY <1>2, <1>3
    <3>2. ~(local.ts > remote.ts) /\ ~(remote.ts > local.ts)
      BY <1>1, <1>2, <1>3, <2>4
    <3>3. new = [ts |-> local.ts, counter |-> c]
      BY <2>4, <3>2 DEF Advance
    <3> QED
      BY <2>4, <3>1, <3>3
  <2> QED
    BY <1>1, <1>2, <1>3, <2>1, <2>2, <2>3, <2>4
<1> HIDE DEF new
<1>6. \E t \in T, c \in Nat : new = [ts |-> t, counter |-> c]
  <2>1. CASE new = [ts |-> w, counter |-> 0]
    BY <1>1, <2>1
  <2>2. CASE \E c \in Nat : new = [ts |-> local.ts, counter |-> c]
    BY <1>2, <2>2
  <2>3. CASE remote.ts > local.ts /\ new = [ts |-> remote.ts, counter |-> remote.counter + 1]
    <3>1. remote.ts \in T /\ remote.counter + 1 \in Nat
      BY <1>1, <1>2, <1>3, <2>3
    <3> QED
      BY <2>3, <3>1
  <2> QED
    BY <1>2, <1>5, <2>1, <2>2, <2>3
<1>7. new \in Stamp
  <2>1. PICK t \in T, c \in Nat : new = [ts |-> t, counter |-> c]
    BY <1>6
  <2>2. new.counter <= MaxInt4
    BY DEF Fits, new
  <2>3. c \in 0..MaxInt4
    BY <1>1, <2>1, <2>2
  <2> QED
    BY <2>1, <2>3 DEF Stamp
<1>8. Before(local, new) /\ Before(remote, new)
  BY <1>1, <1>2, <1>3, <1>5 DEF Before
<1> QED
  BY <1>7, <1>8 DEF new

\* The order of stamps is that of a strict order on (ts, counter).
LEMMA BeforeOrder ==
    ASSUME NEW a \in Stamp, NEW b \in Stamp, NEW c \in Stamp
    PROVE  /\ ~Before(a, a)
           /\ Before(a, b) /\ Before(b, c) => Before(a, c)
           /\ ~Before(b, a) /\ Before(b, c) => Before(a, c)
           /\ ~Before(b, a) /\ ~Before(a, b) => a = b
<1>1. \A x \in Stamp : /\ x.ts \in Nat /\ x.counter \in Nat
                       /\ x = [ts |-> x.ts, counter |-> x.counter]
  <2>1. \A x \in Stamp : x = [ts |-> x.ts, counter |-> x.counter]
    BY DEF Stamp
  <2>2. \A x \in Stamp : x.ts \in Nat /\ x.counter \in Nat
    BY CrdtAssumption DEF Stamp
  <2> QED
    BY <2>1, <2>2
<1>2. ~Before(b, a) /\ ~Before(a, b) => a = b
  <2>1. ~Before(b, a) /\ ~Before(a, b) => a.ts = b.ts /\ a.counter = b.counter
    BY <1>1 DEF Before
  <2> QED
    BY <1>1, <2>1
<1> QED
  BY <1>1, <1>2 DEF Before

-----------------------------------------------------------------------------
(* Type correctness. *)

\* The streams carry changes.
LEMMA TypedStreams == TypeOK => Carries(Change)
BY DEF TypeOK, Carries

LEMMA InitTyping == Init => TypeOK
<1> SUFFICES ASSUME Init PROVE TypeOK
  OBVIOUS
<1>1. Advance(SeedRow.hlc, SeedRow.hlc, 0) \in Stamp
  BY CrdtAssumption DEF Advance, Version, Stamp
<1>2. Carries(Change)
  BY IdleMesh DEF Init
<1> QED
  BY <1>1, <1>2, CrdtAssumption DEF Init, TypeOK, Carries

\* What a local INSERT does, given typed variables.
LEMMA LocalInsertEffect ==
    ASSUME TypeOK, NEW n \in Node, NEW k \in Key, NEW v \in Value, LocalInsert(n, k, v)
    PROVE  \E clock \in Stamp :
             /\ Before(hlc[n], clock)
             /\ Stamped(n, v, clock) \in Version
             /\ hlc' = [hlc EXCEPT ![n] = clock]
             /\ row' = [row EXCEPT ![n][k] = Stamped(n, v, clock)]
             /\ [op |-> "INSERT", key |-> k, new |-> Stamped(n, v, clock)] \in Change
             /\ Publish(n, [op |-> "INSERT", key |-> k, new |-> Stamped(n, v, clock)])
<1>1. PICK w \in Wall :
        LET clock == Advance(hlc[n], Zero, w)
            new   == Stamped(n, v, clock)
        IN  /\ Fits(clock)
            /\ hlc' = [hlc EXCEPT ![n] = clock]
            /\ row' = [row EXCEPT ![n][k] = new]
            /\ Publish(n, [op |-> "INSERT", key |-> k, new |-> new])
  BY DEF LocalInsert
<1> DEFINE clock == Advance(hlc[n], Zero, w)
<1>2. clock \in Stamp /\ Before(hlc[n], clock)
  BY <1>1, AdvanceStamp DEF TypeOK
<1>3. Stamped(n, v, clock) \in Version
  BY <1>2 DEF Stamped, Version
<1>4. [op |-> "INSERT", key |-> k, new |-> Stamped(n, v, clock)] \in Change
  BY <1>3 DEF Change
<1> QED
  BY <1>1, <1>2, <1>3, <1>4

\* What a local UPDATE does: the clock moves, and the row gets the stamp it
\* moved to first, or keeps what it has.
LEMMA LocalUpdateEffect ==
    ASSUME TypeOK, NEW n \in Node, NEW k \in Key, NEW v \in Value, LocalUpdate(n, k, v)
    PROVE  \E clock \in Stamp, after \in Stamp :
             /\ Before(hlc[n], clock) /\ Before(clock, after)
             /\ Stamped(n, v, clock) \in Version
             /\ row[n][k] # NoRow
             /\ hlc' = [hlc EXCEPT ![n] = after]
             /\ \/ /\ Precedes(row[n][k], Stamped(n, v, clock))
                   /\ row' = [row EXCEPT ![n][k] = Stamped(n, v, clock)]
                   /\ [op |-> "UPDATE", key |-> k, new |-> Stamped(n, v, clock)] \in Change
                   /\ Publish(n, [op |-> "UPDATE", key |-> k, new |-> Stamped(n, v, clock)])
                \/ /\ ~Precedes(row[n][k], Stamped(n, v, clock))
                   /\ UNCHANGED <<row, stream>>
<1>1. PICK w1 \in Wall, w2 \in Wall :
        LET clock == Advance(hlc[n], Zero, w1)
            new   == Stamped(n, v, clock)
            after == Advance(clock, clock, w2)
        IN  /\ row[n][k] # NoRow
            /\ Fits(clock) /\ Fits(after)
            /\ hlc' = [hlc EXCEPT ![n] = after]
            /\ \/ /\ Precedes(row[n][k], new)
                  /\ row' = [row EXCEPT ![n][k] = new]
                  /\ Publish(n, [op |-> "UPDATE", key |-> k, new |-> new])
               \/ /\ ~Precedes(row[n][k], new)
                  /\ UNCHANGED <<row, stream>>
  BY DEF LocalUpdate
<1> DEFINE clock == Advance(hlc[n], Zero, w1)
           after == Advance(clock, clock, w2)
<1>2. clock \in Stamp /\ Before(hlc[n], clock)
  BY <1>1, AdvanceStamp DEF TypeOK
<1>3. after \in Stamp /\ Before(clock, after)
  BY <1>1, <1>2, AdvanceStamp
<1>4. Stamped(n, v, clock) \in Version
  BY <1>2 DEF Stamped, Version
<1>5. [op |-> "UPDATE", key |-> k, new |-> Stamped(n, v, clock)] \in Change
  BY <1>4 DEF Change
<1> HIDE DEF clock, after
<1>6. /\ hlc' = [hlc EXCEPT ![n] = after]
      /\ \/ /\ Precedes(row[n][k], Stamped(n, v, clock))
            /\ row' = [row EXCEPT ![n][k] = Stamped(n, v, clock)]
            /\ Publish(n, [op |-> "UPDATE", key |-> k, new |-> Stamped(n, v, clock)])
         \/ /\ ~Precedes(row[n][k], Stamped(n, v, clock))
            /\ UNCHANGED <<row, stream>>
  BY <1>1 DEF clock, after
<1> QED
  BY <1>1, <1>2, <1>3, <1>4, <1>5, <1>6

\* What the change at the head of a stream is, by its kind.
LEMMA PendingChange ==
    ASSUME TypeOK, NEW p \in Node, NEW s \in Node, NEW op, Pending(p, s, op)
    PROVE  LET change == Head(stream[p][s])
           IN  /\ stream[p][s] # << >> /\ change \in Change /\ change.key \in Key
               /\ op # "DELETE" => change.new \in Version
               /\ op = "DELETE" => change.new = NoRow
<1>1. stream[p][s] \in Seq(Change) /\ stream[p][s] # << >> /\ Head(stream[p][s]).op = op
  BY DEF Pending, TypeOK
<1>2. Head(stream[p][s]) \in Change
  BY <1>1
<1> QED
  BY <1>1, <1>2 DEF Change

\* What applying an UPDATE does to the clock.
LEMMA ApplyUpdateEffect ==
    ASSUME TypeOK, NEW p \in Node, NEW s \in Node, ApplyUpdate(p, s)
    PROVE  \E after \in Stamp : Before(hlc[s], after) /\ hlc' = [hlc EXCEPT ![s] = after]
<1> DEFINE change == Head(stream[p][s])
<1>1. PICK w \in Wall : /\ Fits(Advance(hlc[s], change.new.hlc, w))
                         /\ hlc' = [hlc EXCEPT ![s] = Advance(hlc[s], change.new.hlc, w)]
                         /\ Pending(p, s, "UPDATE")
  BY DEF ApplyUpdate
<1>2. change.new.hlc \in Stamp /\ hlc[s] \in Stamp
  BY <1>1, PendingChange DEF Version, TypeOK
<1> QED
  BY <1>1, <1>2, AdvanceStamp

\* Every variable keeps its type: in particular every timestamp in the clocks,
\* the rows and the streams was read from some node's clock, and no counter
\* leaves its column.
THEOREM Typing == Spec => []TypeOK
<1>1. TypeOK /\ [Next]_vars => TypeOK'
  <2> SUFFICES ASSUME TypeOK, [Next]_vars PROVE TypeOK'
    OBVIOUS
  <2>1. CASE UNCHANGED vars
    BY <2>1 DEF vars, TypeOK
  <2>2. ASSUME NEW n \in Node, NEW k \in Key, NEW v \in Value, LocalInsert(n, k, v)
        PROVE  TypeOK'
    <3>1. PICK clock \in Stamp :
            /\ Stamped(n, v, clock) \in Version
            /\ hlc' = [hlc EXCEPT ![n] = clock]
            /\ row' = [row EXCEPT ![n][k] = Stamped(n, v, clock)]
            /\ [op |-> "INSERT", key |-> k, new |-> Stamped(n, v, clock)] \in Change
            /\ Publish(n, [op |-> "INSERT", key |-> k, new |-> Stamped(n, v, clock)])
      BY <2>2, LocalInsertEffect
    <3>2. Carries(Change)'
      BY <3>1, TypedStreams, PublishEffect
    <3>3. used' \in SUBSET Key /\ writes' \in Nat
      BY <2>2 DEF LocalInsert, Statement, TypeOK
    <3> QED
      BY <3>1, <3>2, <3>3 DEF TypeOK, Carries
  <2>3. ASSUME NEW n \in Node, NEW k \in Key, NEW v \in Value, LocalUpdate(n, k, v)
        PROVE  TypeOK'
    <3>1. PICK clock \in Stamp, after \in Stamp :
             /\ Stamped(n, v, clock) \in Version
             /\ hlc' = [hlc EXCEPT ![n] = after]
             /\ \/ /\ row' = [row EXCEPT ![n][k] = Stamped(n, v, clock)]
                   /\ [op |-> "UPDATE", key |-> k, new |-> Stamped(n, v, clock)] \in Change
                   /\ Publish(n, [op |-> "UPDATE", key |-> k, new |-> Stamped(n, v, clock)])
                \/ UNCHANGED <<row, stream>>
      BY <2>3, LocalUpdateEffect
    <3>2. Carries(Change)'
      <4>1. CASE UNCHANGED stream
        BY <4>1, TypedStreams DEF Carries
      <4>2. CASE ~UNCHANGED stream
        BY <3>1, <4>2, TypedStreams, PublishEffect
      <4> QED
        BY <4>1, <4>2
    <3>3. used' \in SUBSET Key /\ writes' \in Nat
      BY <2>3 DEF LocalUpdate, Statement, TypeOK
    <3>4. hlc' \in [Node -> Stamp]
      BY <3>1 DEF TypeOK
    <3>5. row' \in [Node -> [Key -> Version \cup {NoRow}]]
      <4>1. CASE row' = [row EXCEPT ![n][k] = Stamped(n, v, clock)]
        BY <3>1, <4>1 DEF TypeOK
      <4> QED
        BY <3>1, <4>1 DEF TypeOK
    <3> QED
      BY <3>2, <3>3, <3>4, <3>5 DEF TypeOK, Carries
  <2>4. ASSUME NEW n \in Node, NEW k \in Key, LocalDelete(n, k)
        PROVE  TypeOK'
    <3>1. [op |-> "DELETE", key |-> k, new |-> NoRow] \in Change
      BY DEF Change
    <3>2. Carries(Change)'
      BY <2>4, <3>1, TypedStreams, PublishEffect DEF LocalDelete
    <3>3. used' \in SUBSET Key /\ writes' \in Nat /\ hlc' \in [Node -> Stamp]
      BY <2>4 DEF LocalDelete, Statement, TypeOK
    <3>4. row' \in [Node -> [Key -> Version \cup {NoRow}]]
      BY <2>4 DEF LocalDelete, TypeOK
    <3> QED
      BY <3>2, <3>3, <3>4 DEF TypeOK, Carries
  <2>5. ASSUME NEW p \in Node, NEW s \in Node, Apply(p, s)
        PROVE  TypeOK'
    <3> DEFINE change == Head(stream[p][s])
    <3>1. /\ stream[p][s] # << >> /\ Consume(p, s)
          /\ change \in Change /\ change.key \in Key
          /\ UNCHANGED <<used, writes>>
      BY <2>5, PendingChange
         DEF Apply, ApplyInsert, ApplyUpdateMissing, ApplyUpdate, ApplyDelete
    <3>2. Carries(Change)'
      BY <3>1, TypedStreams, ConsumeEffect
    <3>3. hlc' \in [Node -> Stamp]
      <4>1. CASE ApplyUpdate(p, s)
        BY <4>1, ApplyUpdateEffect DEF TypeOK
      <4> QED
        BY <2>5, <4>1 DEF Apply, ApplyInsert, ApplyUpdateMissing, ApplyDelete, TypeOK
    <3>4. change.new \in Version \cup {NoRow}
      BY <3>1 DEF Change
    <3>5. row' \in [Node -> [Key -> Version \cup {NoRow}]]
      <4>1. CASE UNCHANGED row
        BY <4>1 DEF TypeOK
      <4>2. CASE \E x \in Version \cup {NoRow} : row' = [row EXCEPT ![s][change.key] = x]
        BY <3>1, <4>2 DEF TypeOK
      <4>3. row[s][change.key] \in Version \cup {NoRow}
        BY <3>1 DEF TypeOK
      <4> QED
        BY <2>5, <3>4, <4>1, <4>2, <4>3
           DEF Apply, ApplyInsert, ApplyUpdateMissing, ApplyUpdate, ApplyDelete
    <3> QED
      BY <3>1, <3>2, <3>3, <3>5 DEF TypeOK, Carries
  <2> QED
    BY <2>1, <2>2, <2>3, <2>4, <2>5 DEF Next
<1> QED
  BY <1>1, InitTyping, PTL DEF Spec

-----------------------------------------------------------------------------
(* Stamps. *)

\* The versions of a row are versions.
LEMMA InSystemType ==
    ASSUME TypeOK, NEW k \in Key
    PROVE  InSystem(k) \subseteq Version \cup {NoRow}
<1>1. \A n \in Node : Arriving(n) \subseteq Change
  BY TypedStreams, ArrivingType
<1>2. \A c \in Change : c.new \in Version \cup {NoRow}
  BY DEF Change
<1> QED
  BY <1>1, <1>2 DEF InSystem, TypeOK

\* A statement that stores and publishes a version brings in that version.
LEMMA PublishInSystem ==
    ASSUME TypeOK, NEW n \in Node, NEW k \in Key, NEW c \in Change, c.key = k,
           row' = [row EXCEPT ![n][k] = c.new], Publish(n, c),
           NEW l \in Key, NEW y \in InSystem(l)'
    PROVE  y \in InSystem(l) \/ (l = k /\ y = c.new)
<1>1. \A m \in Node : Arriving(m)' \subseteq Arriving(m) \cup {c}
  BY TypedStreams, PublishEffect
<1>2. \A m \in Node : row'[m][l] = row[m][l] \/ (l = k /\ row'[m][l] = c.new)
  BY DEF TypeOK
<1>3. CASE \E m \in Node : y = row'[m][l]
  BY <1>2, <1>3 DEF InSystem
<1>4. CASE \E m \in Node : \E d \in Arriving(m)' : d.key = l /\ y = d.new
  BY <1>1, <1>4 DEF InSystem
<1> QED
  BY <1>3, <1>4 DEF InSystem

\* Applying a change brings in no version: it copies one that was under way.
LEMMA ApplyInSystem ==
    ASSUME TypeOK, NEW p \in Node, NEW s \in Node, Apply(p, s),
           NEW l \in Key, NEW y \in InSystem(l)', y # NoRow
    PROVE  y \in InSystem(l)
<1> DEFINE change == Head(stream[p][s])
<1>1. stream[p][s] # << >> /\ Consume(p, s) /\ change \in Change /\ change.key \in Key
  BY PendingChange DEF Apply, ApplyInsert, ApplyUpdateMissing, ApplyUpdate, ApplyDelete
<1>2. change \in Arriving(s) /\ \A m \in Node : Arriving(m)' \subseteq Arriving(m)
  <2>1. /\ Arriving(s) = Arriving(s)' \cup {change}
        /\ \A m \in Node \ {s} : Arriving(m)' = Arriving(m)
    BY <1>1, TypedStreams, ConsumeEffect
  <2> QED
    BY <2>1
<1>3. CASE \E m \in Node : y = row'[m][l]
  <2>1. PICK m \in Node : y = row'[m][l]
    BY <1>3
  <2>2. CASE y = row[m][l]
    BY <2>2 DEF InSystem
  <2>3. CASE y # row[m][l]
    <3>1. \/ row' = row
          \/ \E z \in {change.new, NoRow, row[s][change.key]} :
               row' = [row EXCEPT ![s][change.key] = z]
      <4>1. CASE ApplyUpdate(p, s)
        BY <4>1 DEF ApplyUpdate
      <4>2. CASE ApplyInsert(p, s) \/ ApplyUpdateMissing(p, s) \/ ApplyDelete(p, s)
        BY <4>2 DEF ApplyInsert, ApplyUpdateMissing, ApplyDelete
      <4> QED
        BY <4>1, <4>2 DEF Apply
    <3>2. PICK z \in {change.new, NoRow, row[s][change.key]} :
            row' = [row EXCEPT ![s][change.key] = z]
      BY <2>1, <2>3, <3>1
    <3>3. m = s /\ l = change.key /\ y = z
      BY <1>1, <2>1, <2>3, <3>2 DEF TypeOK
    <3>4. y = change.new
      BY <2>3, <3>2, <3>3
    <3> QED
      BY <1>2, <3>3, <3>4 DEF InSystem
  <2> QED
    BY <2>2, <2>3
<1>4. CASE \E m \in Node : \E d \in Arriving(m)' : d.key = l /\ y = d.new
  BY <1>2, <1>4 DEF InSystem
<1> QED
  BY <1>3, <1>4 DEF InSystem

Stamps == TypeOK /\ OwnStampsCovered /\ StampsIdentifyWrites

\* No clock goes back.
ClocksAscend == \A m \in Node : hlc'[m] = hlc[m] \/ Before(hlc[m], hlc'[m])

\* A step that moves clocks forward and brings in no version, or one version
\* whose stamp is new on its node, keeps the invariants of the stamps.
LEMMA StampStep ==
    ASSUME Stamps, TypeOK', ClocksAscend, NEW x,
           \A l \in Key : \A y \in InSystem(l)' \ {NoRow} : y \in InSystem(l) \/ y = x,
           \/ \A l \in Key : InSystem(l)' \ {NoRow} \subseteq InSystem(l)
           \/ /\ x \in Version
              /\ Before(hlc[x.node], x.hlc)
              /\ ~Before(hlc'[x.node], x.hlc)
    PROVE  OwnStampsCovered' /\ StampsIdentifyWrites'
<1>1. \A l \in Key : InSystem(l) \subseteq Version \cup {NoRow}
  BY InSystemType DEF Stamps
<1>2. \A y \in Version : y.hlc \in Stamp /\ y.node \in Node
  BY DEF Version
<1>3. \A m \in Node : hlc[m] \in Stamp /\ hlc'[m] \in Stamp
  BY DEF Stamps, TypeOK
<1>4. ASSUME NEW l \in Key, NEW y \in InSystem(l) \ {NoRow}
      PROVE  ~Before(hlc'[y.node], y.hlc)
  BY <1>1, <1>2, <1>3, <1>4, BeforeOrder DEF Stamps, OwnStampsCovered, ClocksAscend
<1>5. OwnStampsCovered'
  BY <1>4 DEF OwnStampsCovered
<1>6. ASSUME NEW l \in Key, NEW y \in InSystem(l) \ {NoRow},
             Before(hlc[x.node], x.hlc), x \in Version, y.hlc = x.hlc
      PROVE  y.node # x.node
  BY <1>6 DEF Stamps, OwnStampsCovered
<1>7. StampsIdentifyWrites'
  <2> SUFFICES ASSUME NEW l \in Key, NEW y \in InSystem(l)' \ {NoRow},
                      NEW z \in InSystem(l)' \ {NoRow}, y.hlc = z.hlc, y.node = z.node
               PROVE  y = z
    BY DEF StampsIdentifyWrites
  <2>1. CASE y \in InSystem(l) /\ z \in InSystem(l)
    BY <2>1 DEF Stamps, StampsIdentifyWrites
  <2>2. CASE y \notin InSystem(l) \/ z \notin InSystem(l)
    BY <1>6, <2>2
  <2> QED
    BY <2>1, <2>2
<1> QED
  BY <1>5, <1>7

\* The clocks ascend in every step.
LEMMA NextClocksAscend ==
    ASSUME TypeOK, [Next]_vars
    PROVE  ClocksAscend
<1>1. CASE UNCHANGED vars
  BY <1>1 DEF vars, ClocksAscend
<1>2. ASSUME NEW n \in Node, NEW k \in Key, NEW v \in Value, LocalInsert(n, k, v)
      PROVE  ClocksAscend
  <2>1. PICK clock \in Stamp : Before(hlc[n], clock) /\ hlc' = [hlc EXCEPT ![n] = clock]
    BY <1>2, LocalInsertEffect
  <2> QED
    BY <2>1 DEF ClocksAscend, TypeOK
<1>3. ASSUME NEW n \in Node, NEW k \in Key, NEW v \in Value, LocalUpdate(n, k, v)
      PROVE  ClocksAscend
  <2>1. PICK clock \in Stamp, after \in Stamp :
          Before(hlc[n], clock) /\ Before(clock, after) /\ hlc' = [hlc EXCEPT ![n] = after]
    BY <1>3, LocalUpdateEffect
  <2>2. Before(hlc[n], after)
    BY <2>1, BeforeOrder DEF TypeOK
  <2> QED
    BY <2>1, <2>2 DEF ClocksAscend, TypeOK
<1>4. ASSUME NEW n \in Node, NEW k \in Key, LocalDelete(n, k)
      PROVE  ClocksAscend
  BY <1>4 DEF LocalDelete, ClocksAscend
<1>5. ASSUME NEW p \in Node, NEW s \in Node, Apply(p, s)
      PROVE  ClocksAscend
  <2>1. CASE ApplyUpdate(p, s)
    BY <2>1, ApplyUpdateEffect DEF ClocksAscend, TypeOK
  <2> QED
    BY <1>5, <2>1 DEF Apply, ApplyInsert, ApplyUpdateMissing, ApplyDelete, ClocksAscend
<1> QED
  BY <1>1, <1>2, <1>3, <1>4, <1>5 DEF Next

\* The invariants of the stamps hold in every reachable state.
THEOREM StampsInvariance == Spec => []Stamps
<1>1. Init => Stamps
  <2> SUFFICES ASSUME Init, TypeOK PROVE OwnStampsCovered /\ StampsIdentifyWrites
    BY InitTyping DEF Stamps
  <2>1. \A n \in Node : Arriving(n) = {}
    BY IdleMesh DEF Init
  <2>2. \A k \in Key : \A x \in InSystem(k) \ {NoRow} : x = SeedRow
    BY <2>1 DEF InSystem, Init
  <2>3. SeedRow.node \in Node /\ SeedRow.hlc \in Stamp
    BY CrdtAssumption DEF Version
  <2>4. ~Before(hlc[SeedRow.node], SeedRow.hlc)
    BY <2>3, CrdtAssumption DEF Init, Advance, Before, Stamp
  <2> QED
    BY <2>2, <2>4 DEF OwnStampsCovered, StampsIdentifyWrites
<1>2. Stamps /\ TypeOK' /\ [Next]_vars => Stamps'
  <2> SUFFICES ASSUME Stamps, TypeOK', [Next]_vars
               PROVE  OwnStampsCovered' /\ StampsIdentifyWrites'
    BY DEF Stamps
  <2>0. ClocksAscend /\ TypeOK
    BY NextClocksAscend DEF Stamps
  <2>1. CASE UNCHANGED vars
    BY <2>1 DEF vars, Stamps, OwnStampsCovered, StampsIdentifyWrites, InSystem, Arriving
  <2>2. ASSUME NEW n \in Node, NEW k \in Key, NEW v \in Value, LocalInsert(n, k, v)
        PROVE  OwnStampsCovered' /\ StampsIdentifyWrites'
    <3>1. PICK clock \in Stamp :
             /\ Before(hlc[n], clock)
             /\ Stamped(n, v, clock) \in Version
             /\ hlc' = [hlc EXCEPT ![n] = clock]
             /\ row' = [row EXCEPT ![n][k] = Stamped(n, v, clock)]
             /\ [op |-> "INSERT", key |-> k, new |-> Stamped(n, v, clock)] \in Change
             /\ Publish(n, [op |-> "INSERT", key |-> k, new |-> Stamped(n, v, clock)])
      BY <2>0, <2>2, LocalInsertEffect
    <3> DEFINE x == Stamped(n, v, clock)
               c == [op |-> "INSERT", key |-> k, new |-> x]
    <3>2. x.node = n /\ x.hlc = clock
      BY DEF Stamped
    <3>3. ~Before(hlc'[n], clock)
      BY <2>0, <3>1, BeforeOrder DEF TypeOK
    <3> HIDE DEF x
    <3>4. c.key = k /\ c.new = x
      OBVIOUS
    <3>5. c \in Change /\ row' = [row EXCEPT ![n][k] = c.new] /\ Publish(n, c)
      BY <3>1 DEF x
    <3> HIDE DEF c
    <3>6. \A l \in Key : \A y \in InSystem(l)' : y \in InSystem(l) \/ y = x
      BY <2>0, <3>4, <3>5, PublishInSystem
    <3>7. x \in Version
      BY <3>1 DEF x
    <3> QED
      BY <2>0, <3>1, <3>2, <3>3, <3>6, <3>7, StampStep
  <2>3. ASSUME NEW n \in Node, NEW k \in Key, NEW v \in Value, LocalUpdate(n, k, v)
        PROVE  OwnStampsCovered' /\ StampsIdentifyWrites'
    <3>1. PICK clock \in Stamp, after \in Stamp :
             /\ Before(hlc[n], clock) /\ Before(clock, after)
             /\ Stamped(n, v, clock) \in Version
             /\ hlc' = [hlc EXCEPT ![n] = after]
             /\ \/ /\ row' = [row EXCEPT ![n][k] = Stamped(n, v, clock)]
                   /\ [op |-> "UPDATE", key |-> k, new |-> Stamped(n, v, clock)] \in Change
                   /\ Publish(n, [op |-> "UPDATE", key |-> k, new |-> Stamped(n, v, clock)])
                \/ UNCHANGED <<row, stream>>
      BY <2>0, <2>3, LocalUpdateEffect
    <3> DEFINE x == Stamped(n, v, clock)
               c == [op |-> "UPDATE", key |-> k, new |-> x]
    <3>2. x.node = n /\ x.hlc = clock /\ x \in Version
      BY <3>1 DEF Stamped
    <3>3. ~Before(hlc'[n], clock)
      BY <2>0, <3>1, BeforeOrder DEF TypeOK
    <3>4. CASE c \in Change /\ row' = [row EXCEPT ![n][k] = x] /\ Publish(n, c)
      <4> HIDE DEF x
      <4>1. c.key = k /\ c.new = x
        OBVIOUS
      <4>2. c \in Change /\ row' = [row EXCEPT ![n][k] = c.new] /\ Publish(n, c)
        BY <3>4
      <4> HIDE DEF c
      <4>3. \A l \in Key : \A y \in InSystem(l)' : y \in InSystem(l) \/ y = x
        BY <2>0, <4>1, <4>2, PublishInSystem
      <4> QED
        BY <2>0, <3>1, <3>2, <3>3, <4>3, StampStep
    <3>5. CASE UNCHANGED <<row, stream>>
      <4>1. \A l \in Key : InSystem(l)' = InSystem(l)
        BY <3>5 DEF InSystem, Arriving
      <4> QED
        BY <2>0, <4>1, StampStep
    <3> QED
      BY <3>1, <3>4, <3>5
  <2>4. ASSUME NEW n \in Node, NEW k \in Key, LocalDelete(n, k)
        PROVE  OwnStampsCovered' /\ StampsIdentifyWrites'
    <3> DEFINE c == [op |-> "DELETE", key |-> k, new |-> NoRow]
    <3>1. c.key = k /\ c.new = NoRow /\ c \in Change
      BY DEF Change
    <3>2. row' = [row EXCEPT ![n][k] = c.new] /\ Publish(n, c)
      BY <2>4 DEF LocalDelete
    <3> HIDE DEF c
    <3>3. \A l \in Key : InSystem(l)' \ {NoRow} \subseteq InSystem(l)
      BY <2>0, <3>1, <3>2, PublishInSystem
    <3> QED
      BY <2>0, <3>3, StampStep
  <2>5. ASSUME NEW p \in Node, NEW s \in Node, Apply(p, s)
        PROVE  OwnStampsCovered' /\ StampsIdentifyWrites'
    <3>1. \A l \in Key : InSystem(l)' \ {NoRow} \subseteq InSystem(l)
      BY <2>0, <2>5, ApplyInSystem
    <3> QED
      BY <2>0, <3>1, StampStep
  <2> QED
    BY <2>1, <2>2, <2>3, <2>4, <2>5 DEF Next
<1> QED
  BY <1>1, <1>2, Typing, PTL DEF Spec

\* The clock of a node covers every stamp the node has handed out, in every
\* reachable state.
THEOREM ClocksCoverStamps == Spec => []OwnStampsCovered
BY StampsInvariance, PTL DEF Stamps

\* No two writes carry the same stamp, in every reachable state.
THEOREM StampsAreUnique == Spec => []StampsIdentifyWrites
BY StampsInvariance, PTL DEF Stamps

-----------------------------------------------------------------------------
(* Inserts of generated keys. *)

\* Only one row is written.
LEMMA RowWritten ==
    ASSUME TypeOK, NEW n \in Node, NEW k \in Key, NEW x, row' = [row EXCEPT ![n][k] = x]
    PROVE  Stores(row, row', n, k, x, Key)
BY DEF TypeOK, Stores

\* A statement that stores and publishes c, as an operation on rows and streams.
LEMMA PublishAdded ==
    ASSUME TypeOK, NEW n \in Node, NEW c \in Change,
           row' = [row EXCEPT ![n][c.key] = c.new], Publish(n, c)
    PROVE  Added(stream, stream', n, c) /\ Stores(row, row', n, c.key, c.new, Key)
<1>1. Added(stream, stream', n, c)
  BY PublishAdds DEF TypeOK, Carries
<1> DEFINE k == c.key
           x == c.new
<1>2. k \in Key /\ row' = [row EXCEPT ![n][k] = x]
  BY DEF Change
<1> HIDE DEF k, x
<1>3. Stores(row, row', n, k, x, Key)
  BY <1>2, RowWritten
<1> QED
  BY <1>1, <1>3 DEF k, x

OneInsert == InsertsOnce(stream, row, used, Key, NoRow)

\* With generated keys no apply worker ever stands still before an INSERT of a key
\* that is there already, for any number of nodes, keys and statements.
THEOREM InsertsAreNew ==
    ASSUME GeneratedKeys
    PROVE  Spec => []InsertsFindNoRow
<1>1. Init => OneInsert
  BY InsertsOnceIfIdle DEF Init, OneInsert
<1>2. TypeOK /\ OneInsert /\ [Next]_vars => OneInsert'
  <2> SUFFICES ASSUME TypeOK, OneInsert, [Next]_vars PROVE OneInsert'
    OBVIOUS
  <2>1. CASE UNCHANGED <<row, stream, used>>
    BY <2>1 DEF OneInsert, InsertsOnce, Inserts
  <2>2. ASSUME NEW n \in Node, NEW c \in Change, row[n][c.key] # NoRow, c.op # "INSERT", used' = used,
               row' = [row EXCEPT ![n][c.key] = c.new], Publish(n, c)
        PROVE  OneInsert'
    <3>1. c.key \in Key
      BY DEF Change
    <3>2. InsertsOnce(stream', row', used', Key, NoRow)
      BY <2>2, <3>1, PublishAdded, ChangeInsertsOnce DEF OneInsert
    <3> QED
      BY <3>2 DEF OneInsert, InsertsOnce, Inserts
  <2>3. ASSUME NEW n \in Node, NEW k \in Key, NEW v \in Value, LocalInsert(n, k, v)
        PROVE  OneInsert'
    <3>1. PICK x \in Version :
            /\ row' = [row EXCEPT ![n][k] = x]
            /\ [op |-> "INSERT", key |-> k, new |-> x] \in Change
            /\ Publish(n, [op |-> "INSERT", key |-> k, new |-> x])
      BY <2>3, LocalInsertEffect
    <3> DEFINE c == [op |-> "INSERT", key |-> k, new |-> x]
    <3>2. k \notin used /\ used' = used \cup {k}
      BY <2>3 DEF LocalInsert, Unused
    <3>3. Added(stream, stream', n, c) /\ Stores(row, row', n, k, x, Key)
      BY <3>1, PublishAdded
    <3>4. InsertsOnce(stream', row', used', Key, NoRow)
      BY <3>2, <3>3, InsertInsertsOnce DEF OneInsert
    <3> QED
      BY <3>4 DEF OneInsert, InsertsOnce, Inserts
  <2>4. ASSUME NEW n \in Node, NEW k \in Key, NEW v \in Value, LocalUpdate(n, k, v)
        PROVE  OneInsert'
    <3>1. row[n][k] # NoRow /\ used' = used
      BY <2>4 DEF LocalUpdate
    <3>2. CASE UNCHANGED <<row, stream>>
      BY <2>1, <3>1, <3>2
    <3>3. CASE ~UNCHANGED <<row, stream>>
      <4>1. PICK x \in Version :
              /\ row' = [row EXCEPT ![n][k] = x]
              /\ [op |-> "UPDATE", key |-> k, new |-> x] \in Change
              /\ Publish(n, [op |-> "UPDATE", key |-> k, new |-> x])
        BY <2>4, <3>3, LocalUpdateEffect
      <4> QED
        BY <2>2, <3>1, <4>1
    <3> QED
      BY <3>2, <3>3
  <2>5. ASSUME NEW n \in Node, NEW k \in Key, LocalDelete(n, k)
        PROVE  OneInsert'
    <3>1. [op |-> "DELETE", key |-> k, new |-> NoRow] \in Change
      BY DEF Change
    <3> QED
      BY <2>2, <2>5, <3>1 DEF LocalDelete
  <2>6. ASSUME NEW p \in Node, NEW s \in Node, Apply(p, s)
        PROVE  OneInsert'
    <3> DEFINE c == Head(stream[p][s])
    <3>1. stream[p][s] # << >> /\ Consume(p, s) /\ c.key \in Key /\ used' = used
      BY <2>6, PendingChange
         DEF Apply, ApplyInsert, ApplyUpdateMissing, ApplyUpdate, ApplyDelete
    <3>2. \E x : /\ row' = [row EXCEPT ![s][c.key] = x]
                 /\ x # NoRow => c.op = "INSERT" \/ row[s][c.key] # NoRow
      <4>1. CASE ApplyInsert(p, s)
        BY <4>1 DEF ApplyInsert, Pending
      <4>2. CASE ApplyUpdateMissing(p, s)
        <5>1. row' = [row EXCEPT ![s][c.key] = row[s][c.key]]
          BY <3>1, <4>2 DEF ApplyUpdateMissing, TypeOK
        <5> QED
          BY <5>1
      <4>3. CASE ApplyUpdate(p, s)
        BY <4>3 DEF ApplyUpdate
      <4>4. CASE ApplyDelete(p, s)
        BY <4>4 DEF ApplyDelete
      <4> QED
        BY <2>6, <4>1, <4>2, <4>3, <4>4 DEF Apply
    <3>3. Removed(stream, stream', p, s, c)
      BY <3>1, ConsumeRemoves DEF TypeOK, Carries
    <3> HIDE DEF c
    <3>4. InsertsOnce(stream', row', used', Key, NoRow)
      <4>1. PICK x : /\ row' = [row EXCEPT ![s][c.key] = x]
                     /\ x # NoRow => c.op = "INSERT" \/ row[s][c.key] # NoRow
        BY <3>2
      <4>2. ASSUME NEW k \in Key, k = c.key PROVE Stores(row, row', s, c.key, x, Key)
        <5>1. row' = [row EXCEPT ![s][k] = x]
          BY <4>1, <4>2
        <5> QED
          BY <4>2, <5>1, RowWritten
      <4>3. Stores(row, row', s, c.key, x, Key)
        BY <3>1, <4>2
      <4> QED
        BY <3>1, <3>3, <4>1, <4>3, ApplyInsertsOnce DEF OneInsert
    <3> QED
      BY <3>4 DEF OneInsert, InsertsOnce, Inserts
  <2> QED
    BY <2>1, <2>3, <2>4, <2>5, <2>6 DEF Next, vars
<1>3. TypeOK /\ OneInsert => InsertsFindNoRow
  <2> SUFFICES ASSUME TypeOK, OneInsert, NEW p \in Node, NEW s \in Node, Pending(p, s, "INSERT")
               PROVE  row[s][Head(stream[p][s]).key] = NoRow
    BY DEF InsertsFindNoRow
  <2>1. Carries(Change)
    BY DEF TypeOK, Carries
  <2>2. Head(stream[p][s]).key \in Key
    BY PendingChange DEF Pending
  <2> QED
    BY <2>1, <2>2, FirstInsertIsNew DEF OneInsert
<1> QED
  BY <1>1, <1>2, <1>3, Typing, PTL DEF Spec
=============================================================================
