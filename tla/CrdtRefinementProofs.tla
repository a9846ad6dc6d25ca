----------------------- MODULE CrdtRefinementProofs -----------------------
(***************************************************************************)
(* Without INSERT a CRDT table implements MaxRegister, and therefore       *)
(* converges, for every set of nodes, keys, contents and clock readings.   *)
(***************************************************************************)
EXTENDS CrdtTableProofs

\* A stream never carries an INSERT.
NoInserts == \A m \in Node : \A c \in Arriving(m) : c.op # "INSERT"

Inv == Stamps /\ NoInserts

\* What a node publishes is sent to every other node, and nothing else is.
LEMMA PublishSends ==
    ASSUME TypeOK, NEW n \in Node, NEW c \in Change, Publish(n, c)
    PROVE  /\ Sent' = Sent \cup {[to |-> s, key |-> c.key, new |-> c.new] : s \in Node \ {n}}
           /\ \A m \in Node : Arriving(m)' \subseteq Arriving(m) \cup {c}
<1>1. \A m \in Node : Arriving(m)' = IF m = n THEN Arriving(m) ELSE Arriving(m) \cup {c}
  BY TypedStreams, PublishEffect
<1> QED
  BY <1>1 DEF Sent

\* A consumed change takes its message away, unless another change with the
\* same contents is still under way.
LEMMA ConsumeSends ==
    ASSUME TypeOK, NEW p \in Node, NEW s \in Node, stream[p][s] # << >>, Consume(p, s)
    PROVE  LET c == Head(stream[p][s])
               m == [to |-> s, key |-> c.key, new |-> c.new]
           IN  /\ c \in Arriving(s) /\ m \in Sent /\ Sent' \in {Sent, Sent \ {m}}
               /\ \A l \in Node : Arriving(l)' \subseteq Arriving(l)
<1> DEFINE c == Head(stream[p][s])
           m == [to |-> s, key |-> c.key, new |-> c.new]
<1>1. /\ Arriving(s) = Arriving(s)' \cup {c}
      /\ \A l \in Node \ {s} : Arriving(l)' = Arriving(l)
  BY TypedStreams, ConsumeEffect
<1> HIDE DEF c
<1>2. m \in Sent /\ Sent = Sent' \cup {m}
  BY <1>1 DEF Sent
<1>3. Sent' \in {Sent, Sent \ {m}}
  BY <1>2
<1> QED
  BY <1>1, <1>2, <1>3 DEF c

\* No INSERT is under way if none is run.
LEMMA NoInsertsStep ==
    ASSUME "INSERT" \notin Statements, Inv, [Next]_vars
    PROVE  NoInserts'
<1>0. TypeOK /\ NoInserts
  BY DEF Inv, Stamps
<1>1. CASE UNCHANGED vars
  BY <1>0, <1>1 DEF vars, NoInserts, Arriving
<1>2. ASSUME NEW n \in Node, NEW k \in Key, NEW v \in Value, LocalInsert(n, k, v)
      PROVE  NoInserts'
  BY <1>2 DEF LocalInsert, Statement
<1>3. ASSUME NEW n \in Node, NEW k \in Key, NEW v \in Value, LocalUpdate(n, k, v)
      PROVE  NoInserts'
  <2>1. PICK x : \/ /\ [op |-> "UPDATE", key |-> k, new |-> x] \in Change
                    /\ Publish(n, [op |-> "UPDATE", key |-> k, new |-> x])
                 \/ UNCHANGED stream
    BY <1>0, <1>3, LocalUpdateEffect
  <2> DEFINE c == [op |-> "UPDATE", key |-> k, new |-> x]
  <2>2. CASE c \in Change /\ Publish(n, c)
    <3>1. c.op # "INSERT"
      OBVIOUS
    <3> HIDE DEF c
    <3>2. \A m \in Node : Arriving(m)' \subseteq Arriving(m) \cup {c}
      BY <1>0, <2>2, PublishSends
    <3> QED
      BY <1>0, <3>1, <3>2 DEF NoInserts
  <2>3. CASE UNCHANGED stream
    BY <1>0, <2>3 DEF NoInserts, Arriving
  <2> QED
    BY <2>1, <2>2, <2>3
<1>4. ASSUME NEW n \in Node, NEW k \in Key, LocalDelete(n, k)
      PROVE  NoInserts'
  <2>1. [op |-> "DELETE", key |-> k, new |-> NoRow] \in Change
    BY DEF Change
  <2> QED
    BY <1>0, <1>4, <2>1, PublishSends DEF NoInserts, LocalDelete
<1>5. ASSUME NEW p \in Node, NEW s \in Node, Apply(p, s)
      PROVE  NoInserts'
  <2>1. stream[p][s] # << >> /\ Consume(p, s)
    BY <1>5 DEF Apply, ApplyInsert, ApplyUpdateMissing, ApplyUpdate, ApplyDelete, Pending
  <2> QED
    BY <1>0, <2>1, ConsumeSends DEF NoInserts
<1> QED
  BY <1>1, <1>2, <1>3, <1>4, <1>5 DEF Next

\* The values of the abstract register are the versions in the system.
LEMMA RegisterPresent ==
    ASSUME NEW k \in Key
    PROVE  Register!Present(k) = InSystem(k)
<1>1. ASSUME NEW y, \E m \in Sent : m.key = k /\ y = m.new
      PROVE  \E n \in Node : \E c \in Arriving(n) : c.key = k /\ y = c.new
  BY <1>1 DEF Sent
<1>2. ASSUME NEW y, NEW n \in Node, NEW c \in Arriving(n), c.key = k, y = c.new
      PROVE  \E m \in Sent : m.key = k /\ y = m.new
  <2> DEFINE m == [to |-> n, key |-> c.key, new |-> c.new]
  <2>1. m \in Sent /\ m.key = k /\ y = m.new
    BY <1>2 DEF Sent
  <2> QED
    BY <2>1
<1>3. ASSUME NEW y
      PROVE  y \in Register!Present(k)
               <=> \/ \E n \in Node : y = row[n][k]
                   \/ \E m \in Sent : m.key = k /\ y = m.new
  BY DEF Register!Present
<1>4. ASSUME NEW y
      PROVE  y \in InSystem(k)
               <=> \/ \E n \in Node : y = row[n][k]
                   \/ \E n \in Node : \E c \in Arriving(n) : c.key = k /\ y = c.new
  BY DEF InSystem
<1>5. \A y : y \in Register!Present(k) <=> y \in InSystem(k)
  BY <1>1, <1>2, <1>3, <1>4
<1> QED
  BY <1>5

\* Two versions with different stamps are ordered.
LEMMA StampsOrdered ==
    ASSUME NEW x \in Version, NEW y \in Version, ~(x.hlc = y.hlc /\ x.node = y.node)
    PROVE  Precedes(x, y) \/ Precedes(y, x)
<1>1. x.hlc \in Stamp /\ y.hlc \in Stamp /\ x.node \in Node /\ y.node \in Node
  BY DEF Version
<1>2. CASE x.hlc = y.hlc
  BY <1>1, <1>2, RankAssumption DEF Precedes
<1>3. CASE x.hlc # y.hlc
  BY <1>1, <1>3, BeforeOrder DEF Precedes
<1> QED
  BY <1>2, <1>3

\* Both modules order stamps by the same comparison.
LEMMA SameOrder == \A x, y : Register!Precedes(x, y) <=> Precedes(x, y)
BY DEF Register!Precedes, Register!Before, Precedes, Before

\* A statement that stores and publishes a version above the one it replaces,
\* with a new stamp or a deletion, is a Write of the register.
LEMMA PublishWrites ==
    ASSUME Inv, NEW n \in Node, NEW c \in Change,
           Register!Below(row[n][c.key], c.new),
           \/ c.new = NoRow
           \/ c.new \in Version /\ Before(hlc[c.new.node], c.new.hlc),
           row' = [row EXCEPT ![n][c.key] = c.new], Publish(n, c)
    PROVE  Register!Next
<1>0. TypeOK /\ OwnStampsCovered
  BY DEF Inv, Stamps
<1>1. c.key \in Key /\ c.new \in Version \cup {NoRow} /\ NoRow \notin Version
  BY CrdtAssumption DEF Change
<1>2. ASSUME NEW y \in InSystem(c.key)
      PROVE  Register!AtMost(c.new, y) \/ Register!Below(y, c.new)
  <2>1. y \in Version \cup {NoRow}
    BY <1>0, <1>1, InSystemType
  <2>2. CASE y = NoRow
    BY <2>2 DEF Register!AtMost, Register!Below
  <2>3. CASE y # NoRow /\ c.new = NoRow
    BY <2>3 DEF Register!Below
  <2>4. CASE y # NoRow /\ c.new # NoRow
    <3>1. ~Before(hlc[y.node], y.hlc)
      BY <1>0, <1>1, <2>4 DEF OwnStampsCovered
    <3>2. ~(y.hlc = c.new.hlc /\ y.node = c.new.node)
      BY <1>1, <2>4, <3>1
    <3> QED
      BY <1>1, <2>1, <2>4, <3>2, StampsOrdered, SameOrder DEF Register!AtMost, Register!Below
  <2> QED
    BY <2>2, <2>3, <2>4
<1>3. Sent' = Sent \cup {[to |-> s, key |-> c.key, new |-> c.new] : s \in Node \ {n}}
  BY <1>0, PublishSends
<1>4. Register!Write(n, c.key, c.new)
  BY <1>1, <1>2, <1>3, RegisterPresent DEF Register!Write
<1> QED
  BY <1>1, <1>4 DEF Register!Next

\* Applying a change is a Receive of the register.
LEMMA ApplyReceives ==
    ASSUME Inv, NEW p \in Node, NEW s \in Node, Apply(p, s)
    PROVE  Register!Next
<1>0. TypeOK /\ NoInserts
  BY DEF Inv, Stamps
<1> DEFINE c == Head(stream[p][s])
           m == [to |-> s, key |-> c.key, new |-> c.new]
<1>1. stream[p][s] # << >> /\ Consume(p, s)
  BY DEF Apply, ApplyInsert, ApplyUpdateMissing, ApplyUpdate, ApplyDelete, Pending
<1>2. c \in Arriving(s) /\ m \in Sent /\ Sent' \in {Sent, Sent \ {m}}
  BY <1>0, <1>1, ConsumeSends
<1>3. c.op # "INSERT"
  BY <1>0, <1>2 DEF NoInserts
<1>4. row' = [row EXCEPT ![s][c.key] = Register!Join(row[s][c.key], c.new)]
  <2>1. CASE ApplyUpdateMissing(p, s)
    <3>1. /\ row[s][c.key] = NoRow /\ row' = row
      BY <2>1 DEF ApplyUpdateMissing
    <3>2. Register!Join(row[s][c.key], c.new) = row[s][c.key]
      BY <3>1 DEF Register!Join, Register!Below
    <3> QED
      BY <1>0, <3>1, <3>2 DEF TypeOK
  <2>2. CASE ApplyUpdate(p, s)
    <3>1. /\ row[s][c.key] # NoRow /\ c.new \in Version
          /\ row' = [row EXCEPT ![s][c.key] = IF Precedes(row[s][c.key], c.new)
                                             THEN c.new ELSE row[s][c.key]]
      BY <1>0, <2>2, PendingChange DEF ApplyUpdate
    <3>2. c.new # NoRow
      BY <3>1, CrdtAssumption
    <3>3. Register!Join(row[s][c.key], c.new)
            = IF Precedes(row[s][c.key], c.new) THEN c.new ELSE row[s][c.key]
      BY <3>1, <3>2, SameOrder DEF Register!Join, Register!Below
    <3> QED
      BY <3>1, <3>3
  <2>3. CASE ApplyDelete(p, s)
    <3>1. c.new = NoRow /\ row' = [row EXCEPT ![s][c.key] = NoRow]
      BY <1>0, <2>3, PendingChange DEF ApplyDelete
    <3>2. Register!Join(row[s][c.key], c.new) = NoRow
      BY <3>1 DEF Register!Join, Register!Below
    <3> QED
      BY <3>1, <3>2
  <2>4. ~ApplyInsert(p, s)
    BY <1>3 DEF ApplyInsert, Pending
  <2> QED
    BY <2>1, <2>2, <2>3, <2>4 DEF Apply
<1>5. Register!Receive(m)
  BY <1>2, <1>4 DEF Register!Receive
<1> QED
  BY <1>2, <1>5 DEF Register!Next

\* Without INSERT every behaviour of the table is one of MaxRegister.
THEOREM Refinement ==
    ASSUME "INSERT" \notin Statements
    PROVE  Spec => RefinesRegister
<1>1. Init => Register!Init /\ NoInserts
  <2> SUFFICES ASSUME Init PROVE Register!Init /\ NoInserts
    OBVIOUS
  <2>1. \A m \in Node : Arriving(m) = {}
    BY IdleMesh DEF Init
  <2>2. Sent = {} /\ NoInserts
    BY <2>1 DEF Sent, NoInserts
  <2> DEFINE start == [k \in Key |-> IF k \in Seeded THEN SeedRow ELSE NoRow]
  <2>3. row = [n \in Node |-> start] /\ start \in [Key -> Version \cup {NoRow}]
    BY CrdtAssumption DEF Init
  <2> QED
    BY <2>2, <2>3 DEF Register!Init
<1>2. Inv /\ [Next]_vars => [Register!Next]_(Register!vars)
  <2> SUFFICES ASSUME Inv, [Next]_vars PROVE Register!Next \/ UNCHANGED <<row, Sent>>
    BY DEF Register!vars
  <2>0. TypeOK
    BY DEF Inv, Stamps
  <2>1. CASE UNCHANGED <<row, stream>>
    BY <2>1 DEF Sent, Arriving
  <2>2. ASSUME NEW n \in Node, NEW k \in Key, NEW v \in Value, LocalInsert(n, k, v)
        PROVE  FALSE
    BY <2>2 DEF LocalInsert, Statement
  <2>3. ASSUME NEW n \in Node, NEW k \in Key, NEW v \in Value, LocalUpdate(n, k, v)
        PROVE  Register!Next \/ UNCHANGED <<row, stream>>
    <3>1. PICK clock \in Stamp :
             /\ Before(hlc[n], clock)
             /\ Stamped(n, v, clock) \in Version
             /\ row[n][k] # NoRow
             /\ \/ /\ Precedes(row[n][k], Stamped(n, v, clock))
                   /\ row' = [row EXCEPT ![n][k] = Stamped(n, v, clock)]
                   /\ [op |-> "UPDATE", key |-> k, new |-> Stamped(n, v, clock)] \in Change
                   /\ Publish(n, [op |-> "UPDATE", key |-> k, new |-> Stamped(n, v, clock)])
                \/ UNCHANGED <<row, stream>>
      BY <2>0, <2>3, LocalUpdateEffect
    <3> DEFINE x == Stamped(n, v, clock)
               c == [op |-> "UPDATE", key |-> k, new |-> x]
    <3>2. x.node = n /\ x.hlc = clock
      BY DEF Stamped
    <3> HIDE DEF x
    <3>3. c.key = k /\ c.new = x /\ x \in Version /\ x # NoRow
      BY <3>1, CrdtAssumption DEF x
    <3>4. CASE /\ Precedes(row[n][k], x) /\ row' = [row EXCEPT ![n][k] = x]
               /\ c \in Change /\ Publish(n, c)
      <4>1. Register!Below(row[n][c.key], c.new)
        BY <3>1, <3>3, <3>4, SameOrder DEF Register!Below
      <4> HIDE DEF c
      <4> QED
        BY <3>1, <3>2, <3>3, <3>4, <4>1, PublishWrites
    <3> QED
      BY <3>1, <3>4 DEF x
  <2>4. ASSUME NEW n \in Node, NEW k \in Key, LocalDelete(n, k)
        PROVE  Register!Next
    <3> DEFINE c == [op |-> "DELETE", key |-> k, new |-> NoRow]
    <3>1. c.key = k /\ c.new = NoRow /\ c \in Change
      BY DEF Change
    <3>2. Register!Below(row[n][k], NoRow)
      BY <2>4 DEF LocalDelete, Register!Below
    <3>3. row' = [row EXCEPT ![n][k] = NoRow] /\ Publish(n, c)
      BY <2>4 DEF LocalDelete
    <3> HIDE DEF c
    <3> QED
      BY <3>1, <3>2, <3>3, PublishWrites
  <2>5. ASSUME NEW p \in Node, NEW s \in Node, Apply(p, s)
        PROVE  Register!Next
    BY <2>5, ApplyReceives
  <2> QED
    BY <2>1, <2>2, <2>3, <2>4, <2>5 DEF Next, vars
<1>3. Inv /\ [Next]_vars => NoInserts'
  BY NoInsertsStep
<1>4. Stamps /\ NoInserts => Inv
  BY DEF Inv
<1> QED
  BY <1>1, <1>2, <1>3, <1>4, StampsInvariance, PTL DEF Spec, RefinesRegister, Register!Spec

\* Without INSERT all nodes store the same rows whenever the streams are
\* drained: MaxRegister agrees when nothing is under way.
THEOREM Converges ==
    ASSUME "INSERT" \notin Statements
    PROVE  Spec => []Convergence
<1>1. Register!Agreement => Convergence
  <2> SUFFICES ASSUME Register!Agreement, Drained PROVE \A m, n \in Node : row[m] = row[n]
    BY DEF Convergence
  <2>1. Sent = {}
    BY DrainedMesh DEF Sent
  <2> QED
    BY <2>1 DEF Register!Agreement
<1>2. Register!Spec => []Register!Agreement
  <2>1. Register!RankAssumption
    BY RankAssumption DEF Register!RankAssumption
  <2>2. Register!ValueAssumption
    <3>1. Stamp \subseteq Register!Clock
      <4>1. Wall \cup {SeedRow.hlc.ts} \subseteq Nat
        BY CrdtAssumption
      <4>2. MaxInt4 \in Nat
        BY CrdtAssumption
      <4>3. 0..MaxInt4 \subseteq Nat
        BY <4>2
      <4> QED
        BY <4>1, <4>3 DEF Stamp, Register!Clock
    <3> QED
      BY <3>1, CrdtAssumption DEF Register!ValueAssumption, Version
  <2> QED
    BY <2>1, <2>2, Register!Convergence, PTL
<1> QED
  BY <1>1, <1>2, Refinement, PTL DEF RefinesRegister

-----------------------------------------------------------------------------
(* Rows. *)

\* A stored row is only replaced by a greater version: with INSERT too, for any
\* order in which the changes of different publishers arrive.
THEOREM RowsOnlyAscend == Spec => RowsAscend
<1>1. TypeOK /\ [Next]_vars =>
        [\A n \in Node, k \in Key :
           row[n][k] # NoRow => Register!AtMost(row[n][k], row'[n][k])]_vars
  <2> SUFFICES ASSUME TypeOK, Next, NEW n \in Node, NEW k \in Key, row[n][k] # NoRow,
                      row'[n][k] # row[n][k]
               PROVE  row'[n][k] = NoRow \/ Precedes(row[n][k], row'[n][k])
    BY SameOrder DEF Register!AtMost, Register!Below
  <2>1. ASSUME NEW m \in Node, NEW l \in Key, NEW v \in Value, LocalInsert(m, l, v)
        PROVE  FALSE
    BY <2>1 DEF LocalInsert, TypeOK
  <2>2. ASSUME NEW m \in Node, NEW l \in Key, NEW v \in Value, LocalUpdate(m, l, v)
        PROVE  Precedes(row[n][k], row'[n][k])
    <3>1. PICK clock \in Stamp :
            \/ /\ Precedes(row[m][l], Stamped(m, v, clock))
               /\ row' = [row EXCEPT ![m][l] = Stamped(m, v, clock)]
               /\ [op |-> "UPDATE", key |-> l, new |-> Stamped(m, v, clock)] \in Change
               /\ Publish(m, [op |-> "UPDATE", key |-> l, new |-> Stamped(m, v, clock)])
            \/ UNCHANGED <<row, stream>>
      BY <2>2, LocalUpdateEffect
    <3> DEFINE x == Stamped(m, v, clock)
    <3>2. Precedes(row[m][l], x) /\ row' = [row EXCEPT ![m][l] = x]
      BY <3>1
    <3> HIDE DEF x
    <3>3. Stores(row, row', m, l, x, Key)
      BY <3>2, RowWritten
    <3> QED
      BY <3>2, <3>3 DEF Stores
  <2>3. ASSUME NEW m \in Node, NEW l \in Key, LocalDelete(m, l)
        PROVE  row'[n][k] = NoRow
    BY <2>3 DEF LocalDelete, TypeOK
  <2>4. ASSUME NEW p \in Node, NEW s \in Node, Apply(p, s)
        PROVE  row'[n][k] = NoRow \/ Precedes(row[n][k], row'[n][k])
    <3>1. CASE ApplyUpdate(p, s)
      BY <3>1 DEF ApplyUpdate, TypeOK
    <3>2. CASE ApplyInsert(p, s) \/ ApplyUpdateMissing(p, s) \/ ApplyDelete(p, s)
      BY <3>2 DEF ApplyInsert, ApplyUpdateMissing, ApplyDelete, TypeOK
    <3> QED
      BY <2>4, <3>1, <3>2 DEF Apply
  <2> QED
    BY <2>1, <2>2, <2>3, <2>4 DEF Next
<1> QED
  BY <1>1, Typing, PTL DEF Spec, RowsAscend

\* Without INSERT, a stamp is stored on a node only after the clock has passed it.
LEMMA CoverStep ==
    ASSUME "INSERT" \notin Statements, Inv, TypeOK', ClockCoversRows, [Next]_vars
    PROVE  ClockCoversRows'
<1>0. TypeOK /\ NoInserts
  BY DEF Inv, Stamps
<1> SUFFICES ASSUME NEW m \in Node, NEW l \in Key, row'[m][l] # NoRow
             PROVE  ~Before(hlc'[m], row'[m][l].hlc)
  BY DEF ClockCoversRows
<1>1. hlc[m] \in Stamp /\ hlc'[m] \in Stamp /\ row'[m][l].hlc \in Stamp
  BY <1>0 DEF TypeOK, Version
<1>2. CASE row'[m][l] = row[m][l]
  <2>1. hlc'[m] = hlc[m] \/ Before(hlc[m], hlc'[m])
    BY <1>0, NextClocksAscend DEF ClocksAscend
  <2>2. ~Before(hlc[m], row'[m][l].hlc)
    BY <1>2 DEF ClockCoversRows
  <2> QED
    BY <1>1, <2>1, <2>2, BeforeOrder
<1>3. CASE row'[m][l] # row[m][l]
  <2>1. ASSUME NEW n \in Node, NEW k \in Key, NEW v \in Value, LocalInsert(n, k, v)
        PROVE  FALSE
    BY <2>1 DEF LocalInsert, Statement
  <2>2. ASSUME NEW n \in Node, NEW k \in Key, NEW v \in Value, LocalUpdate(n, k, v)
        PROVE  ~Before(hlc'[m], row'[m][l].hlc)
    <3>1. PICK clock \in Stamp, after \in Stamp :
            /\ Before(clock, after)
            /\ hlc' = [hlc EXCEPT ![n] = after]
            /\ \/ /\ row' = [row EXCEPT ![n][k] = Stamped(n, v, clock)]
                  /\ [op |-> "UPDATE", key |-> k, new |-> Stamped(n, v, clock)] \in Change
                  /\ Publish(n, [op |-> "UPDATE", key |-> k, new |-> Stamped(n, v, clock)])
               \/ UNCHANGED <<row, stream>>
      BY <1>0, <2>2, LocalUpdateEffect
    <3>2. row' = [row EXCEPT ![n][k] = Stamped(n, v, clock)]
      BY <1>3, <3>1
    <3>3. m = n /\ row'[m][l] = Stamped(n, v, clock)
      BY <1>0, <1>3, <3>2 DEF TypeOK
    <3>4. row'[m][l].hlc = clock /\ hlc'[m] = after
      BY <1>0, <3>1, <3>3 DEF TypeOK, Stamped
    <3> QED
      BY <3>1, <3>4, BeforeOrder
  <2>3. ASSUME NEW n \in Node, NEW k \in Key, LocalDelete(n, k)
        PROVE  FALSE
    BY <1>0, <1>3, <2>3 DEF LocalDelete, TypeOK
  <2>4. ASSUME NEW p \in Node, NEW s \in Node, Apply(p, s)
        PROVE  ~Before(hlc'[m], row'[m][l].hlc)
    <3> DEFINE c == Head(stream[p][s])
    <3>1. CASE ApplyUpdate(p, s)
      <4>1. PICK w \in Wall :
              /\ Fits(Advance(hlc[s], c.new.hlc, w))
              /\ hlc' = [hlc EXCEPT ![s] = Advance(hlc[s], c.new.hlc, w)]
              /\ row' = [row EXCEPT ![s][c.key] = IF Precedes(row[s][c.key], c.new)
                                                  THEN c.new ELSE row[s][c.key]]
        BY <3>1 DEF ApplyUpdate
      <4>2. c.new.hlc \in Stamp /\ hlc[s] \in Stamp
        BY <1>0, <3>1, PendingChange DEF ApplyUpdate, Version, TypeOK
      <4>3. Before(c.new.hlc, Advance(hlc[s], c.new.hlc, w))
        BY <4>1, <4>2, AdvanceStamp
      <4>4. m = s /\ row'[m][l] = c.new
        BY <1>0, <1>3, <4>1 DEF TypeOK
      <4>5. hlc'[m] = Advance(hlc[s], c.new.hlc, w)
        BY <1>0, <4>1, <4>4 DEF TypeOK
      <4> QED
        BY <1>1, <4>3, <4>4, <4>5, BeforeOrder
    <3>2. CASE ApplyUpdateMissing(p, s) \/ ApplyDelete(p, s)
      <4>1. \/ row' = row
            \/ row' = [row EXCEPT ![s][c.key] = NoRow]
        BY <3>2 DEF ApplyUpdateMissing, ApplyDelete
      <4>2. c.key \in Key
        BY <1>0, <3>2, PendingChange DEF ApplyUpdateMissing, ApplyDelete
      <4>3. row' = row \/ Stores(row, row', s, c.key, NoRow, Key)
        BY <1>0, <4>1, <4>2, RowWritten
      <4> HIDE DEF c
      <4>4. row'[m][l] \in {row[m][l], NoRow}
        BY <4>3 DEF Stores
      <4> QED
        BY <1>3, <4>4
    <3>3. ~ApplyInsert(p, s)
      <4>1. ASSUME ApplyInsert(p, s) PROVE c \in Arriving(s) /\ c.op = "INSERT"
        BY <1>0, <4>1, ConsumeSends DEF ApplyInsert, Pending
      <4> QED
        BY <1>0, <4>1 DEF NoInserts
    <3> QED
      BY <2>4, <3>1, <3>2, <3>3 DEF Apply
  <2> QED
    BY <1>3, <2>1, <2>2, <2>3, <2>4 DEF Next, vars
<1> QED
  BY <1>2, <1>3

\* Without INSERT the clock of a node has tracked every row it stores.  The
\* hypothesis is necessary: applying an INSERT moves no clock.
THEOREM ClocksCoverRows ==
    ASSUME "INSERT" \notin Statements
    PROVE  Spec => []ClockCoversRows
<1>1. Init => NoInserts /\ ClockCoversRows
  <2> SUFFICES ASSUME Init PROVE NoInserts /\ ClockCoversRows
    OBVIOUS
  <2>1. NoInserts
    BY IdleMesh DEF Init, NoInserts
  <2>2. SeedRow.hlc \in Stamp
    BY CrdtAssumption DEF Version
  <2>3. ~Before(Advance(SeedRow.hlc, SeedRow.hlc, 0), SeedRow.hlc)
    BY <2>2, CrdtAssumption DEF Advance, Before, Stamp
  <2>4. ClockCoversRows
    BY <2>3 DEF Init, ClockCoversRows
  <2> QED
    BY <2>1, <2>4
<1>2. Stamps /\ NoInserts /\ [Next]_vars => NoInserts'
  BY NoInsertsStep DEF Inv
<1>3. Stamps /\ TypeOK' /\ NoInserts /\ ClockCoversRows /\ [Next]_vars => ClockCoversRows'
  BY CoverStep DEF Inv
<1> QED
  BY <1>1, <1>2, <1>3, StampsInvariance, Typing, PTL DEF Spec

\* Without INSERT no local UPDATE is dropped in favour of the version it was
\* meant to replace.
THEOREM UpdatesTakeEffect ==
    ASSUME "INSERT" \notin Statements
    PROVE  Spec => LocalUpdateTakesEffect
<1>1. ASSUME TypeOK, ClockCoversRows,
             NEW n \in Node, NEW k \in Key, NEW v \in Value, LocalUpdate(n, k, v)
      PROVE  Precedes(row[n][k], row'[n][k])
  <2>1. PICK clock \in Stamp :
          /\ Before(hlc[n], clock) /\ row[n][k] # NoRow
          /\ \/ /\ Precedes(row[n][k], Stamped(n, v, clock))
                /\ row' = [row EXCEPT ![n][k] = Stamped(n, v, clock)]
             \/ ~Precedes(row[n][k], Stamped(n, v, clock))
    BY <1>1, LocalUpdateEffect
  <2>2. hlc[n] \in Stamp /\ row[n][k].hlc \in Stamp /\ ~Before(hlc[n], row[n][k].hlc)
    BY <1>1, <2>1 DEF TypeOK, Version, ClockCoversRows
  <2>3. Before(row[n][k].hlc, clock)
    BY <2>1, <2>2, BeforeOrder
  <2>4. Precedes(row[n][k], Stamped(n, v, clock))
    BY <2>3 DEF Precedes, Stamped
  <2> QED
    BY <1>1, <2>1, <2>4 DEF TypeOK
<1>2. TypeOK /\ ClockCoversRows /\ [Next]_vars =>
        [\A n \in Node, k \in Key, v \in Value :
           LocalUpdate(n, k, v) => Precedes(row[n][k], row'[n][k])]_vars
  BY <1>1
<1> QED
  BY <1>2, ClocksCoverRows, Typing, PTL DEF Spec, LocalUpdateTakesEffect

-----------------------------------------------------------------------------
(* Two nodes converge, whatever is inserted. *)

Content == Version \cup {NoRow}

\* y is as far as x: it is not the lesser version, or is the deletion of the row.
Reached(x, y) == y = NoRow \/ (x # NoRow /\ ~Precedes(y, x))

Order == {d \in Content \X Content : Reached(d[1], d[2])}

LEMMA ReachedOrder ==
    /\ Ordering(Content, NoRow, Order)
    /\ \A x, y \in Content : <<x, y>> \in Order <=> Reached(x, y)
    /\ \A x, y \in Version : Precedes(x, y) => Reached(x, y)
<1>1. \A x \in Version : /\ x.hlc.ts \in Nat /\ x.hlc.counter \in Nat /\ Rank[x.node] \in Nat
                         /\ x.hlc = [ts |-> x.hlc.ts, counter |-> x.hlc.counter]
  <2> TAKE x \in Version
  <2>1. x.hlc \in Stamp /\ x.node \in Node
    BY DEF Version
  <2>2. Rank[x.node] \in Nat
    BY <2>1, RankAssumption
  <2>3. x.hlc.ts \in Nat /\ x.hlc.counter \in Nat
    <3>1. Wall \cup {SeedRow.hlc.ts} \subseteq Nat /\ MaxInt4 \in Nat
      BY CrdtAssumption
    <3>2. 0..MaxInt4 \subseteq Nat
      BY <3>1
    <3> QED
      BY <2>1, <3>1, <3>2 DEF Stamp
  <2>4. x.hlc = [ts |-> x.hlc.ts, counter |-> x.hlc.counter]
    BY <2>1 DEF Stamp
  <2> QED
    BY <2>2, <2>3, <2>4
<1>2. ASSUME NEW x \in Version, NEW y \in Version
      PROVE  Precedes(x, y) <=> \/ x.hlc.ts < y.hlc.ts
                                \/ x.hlc.ts = y.hlc.ts /\ x.hlc.counter < y.hlc.counter
                                \/ /\ x.hlc.ts = y.hlc.ts /\ x.hlc.counter = y.hlc.counter
                                   /\ Rank[x.node] < Rank[y.node]
  <2>1. x.hlc = y.hlc <=> x.hlc.ts = y.hlc.ts /\ x.hlc.counter = y.hlc.counter
    BY <1>1
  <2> QED
    BY <2>1 DEF Precedes, Before
<1>3. ASSUME NEW x \in Version, NEW y \in Version, NEW z \in Version
      PROVE  /\ ~Precedes(x, x)
             /\ Precedes(x, y) => ~Precedes(y, x)
             /\ ~Precedes(y, x) /\ ~Precedes(z, y) => ~Precedes(z, x)
  <2> DEFINE ts(v) == v.hlc.ts
             counter(v) == v.hlc.counter
             rank(v) == Rank[v.node]
             Less(v, w) == \/ ts(v) < ts(w)
                           \/ ts(v) = ts(w) /\ counter(v) < counter(w)
                           \/ ts(v) = ts(w) /\ counter(v) = counter(w) /\ rank(v) < rank(w)
  <2>1. \A v \in {x, y, z} : ts(v) \in Nat /\ counter(v) \in Nat /\ rank(v) \in Nat
    BY <1>1
  <2>2. \A v, w \in {x, y, z} : Precedes(v, w) <=> Less(v, w)
    BY <1>2
  <2> HIDE DEF ts, counter, rank
  <2>3. ~Less(x, x) /\ (Less(x, y) => ~Less(y, x)) /\ (~Less(y, x) /\ ~Less(z, y) => ~Less(z, x))
    BY <2>1
  <2> HIDE DEF Less
  <2> QED
    BY <2>2, <2>3
<1>4. \A x, y \in Content : <<x, y>> \in Order <=> Reached(x, y)
  BY DEF Order
<1>5. NoRow \in Content /\ NoRow \notin Version /\ \A x \in Version : x \in Content /\ x # NoRow
  BY CrdtAssumption DEF Content
<1>6. \A x, y \in Version : Precedes(x, y) => Reached(x, y)
  BY <1>3, <1>5 DEF Reached
<1>7. ASSUME NEW x \in Content, NEW y \in Content, NEW z \in Content
      PROVE  /\ Reached(x, x) /\ Reached(x, NoRow)
             /\ Reached(x, y) /\ Reached(y, z) => Reached(x, z)
  <2>1. (x = NoRow \/ x \in Version) /\ (y = NoRow \/ y \in Version) /\ (z = NoRow \/ z \in Version)
    BY DEF Content
  <2> QED
    BY <1>3, <2>1 DEF Reached
<1>8. Ordering(Content, NoRow, Order)
  <2> SUFFICES ASSUME NEW x \in Content, NEW y \in Content, NEW z \in Content
               PROVE  /\ <<x, x>> \in Order /\ <<x, NoRow>> \in Order
                      /\ <<x, y>> \in Order /\ <<y, z>> \in Order => <<x, z>> \in Order
    BY <1>5 DEF Ordering
  <2> QED
    BY <1>4, <1>5, <1>7
<1> QED
  BY <1>4, <1>6, <1>8

\* Keys that are still to be generated are nowhere, and no version is lost.
Fresh == Unknown(stream, row, used, Key, NoRow)
TableAgrees == Agreeing(stream, row, Key, NoRow, Order)

\* What a step proves about stream' and row' holds in the next state.
LEMMA NextAgrees ==
    ASSUME Unknown(stream', row', used', Key, NoRow), Agreeing(stream', row', Key, NoRow, Order)
    PROVE  Fresh' /\ TableAgrees'
<1>1. Fresh'
  BY DEF Fresh, Unknown
<1>2. TableAgrees'
  BY DEF TableAgrees, Agreeing, Mute, InsertsFirst, Ahead, NoneLost, Due, Coming, Order, Reached,
         Content
<1> QED
  BY <1>1, <1>2

LEMMA TableContents == TypeOK => Contents(stream, row, Key, Content)
<1> SUFFICES ASSUME TypeOK
             PROVE  \A p, q \in Node : \A i \in DOMAIN stream[p][q] :
                       /\ i \in Nat \ {0} /\ stream[p][q][i].key \in Key
                       /\ stream[p][q][i].new \in Content
  BY DEF Contents, TypeOK, Content
<1> TAKE p, q \in Node
<1> TAKE i \in DOMAIN stream[p][q]
<1>1. stream[p][q] \in Seq(Change)
  BY DEF TypeOK
<1>2. i \in Nat \ {0} /\ stream[p][q][i] \in Change
  BY <1>1
<1> QED
  BY <1>2 DEF Change, Content

LEMMA InitAgrees == Init => Fresh /\ TableAgrees
<1> SUFFICES ASSUME Init PROVE Fresh /\ TableAgrees
  OBVIOUS
<1>1. \A m, n \in Node, k \in Key : row[m][k] = row[n][k] /\ row[m][k] \in Content
  BY CrdtAssumption DEF Init, Content
<1>2. TableAgrees
  BY <1>1, AgreeingIfIdle, ReachedOrder DEF Init, TableAgrees
<1>3. Fresh
  BY UnknownIfIdle DEF Init, Fresh
<1> QED
  BY <1>2, <1>3

\* A statement that stores and publishes c.
LEMMA PublishAgrees ==
    ASSUME TypeOK, Fresh, TableAgrees, NEW n \in Node, NEW c \in Change,
           row' = [row EXCEPT ![n][c.key] = c.new], Publish(n, c), used \subseteq used',
           c.key \in used',
           IF c.op = "INSERT" THEN c.key \notin used
           ELSE row[n][c.key] # NoRow /\ Reached(row[n][c.key], c.new)
    PROVE  Fresh' /\ TableAgrees'
<1>1. c.key \in Key /\ c.new \in Content /\ row[n][c.key] \in Content
  BY DEF Change, Content, TypeOK
<1>2. Added(stream, stream', n, c)
  BY PublishAdded
<1>3. Stores(row, row', n, c.key, c.new, Key)
  BY PublishAdded
<1>4. Unknown(stream', row', used', Key, NoRow)
  BY <1>1, <1>2, <1>3, AddedUnknown DEF Fresh
<1>5. CASE c.op = "INSERT"
  <2>1. Agreeing(stream', row', Key, NoRow, Order)
    BY <1>1, <1>2, <1>3, <1>5, TableContents, ReachedOrder, InsertAgrees DEF Fresh, TableAgrees
  <2> QED
    BY <1>4, <2>1, NextAgrees
<1>6. CASE c.op # "INSERT"
  <2>1. <<row[n][c.key], c.new>> \in Order
    BY <1>1, <1>6, ReachedOrder
  <2>2. Agreeing(stream', row', Key, NoRow, Order)
    BY <1>1, <1>2, <1>3, <1>6, <2>1, TableContents, ReachedOrder, ChangeAgrees DEF TableAgrees
  <2> QED
    BY <1>4, <2>2, NextAgrees
<1> QED
  BY <1>5, <1>6

\* An apply worker stores the change, or keeps a row that is as far.
LEMMA ApplyMerges ==
    ASSUME TypeOK, NEW p \in Node, NEW s \in Node, Apply(p, s)
    PROVE  /\ stream[p][s] # << >> /\ Consume(p, s) /\ used' = used
           /\ \E c \in Change, x \in Content :
                /\ c = Head(stream[p][s])
                /\ Merges(c, row[s][c.key], x, NoRow, Order)
                /\ row' = [row EXCEPT ![s][c.key] = x]
<1> DEFINE c == Head(stream[p][s])
           old == row[s][c.key]
<1>1. stream[p][s] # << >> /\ Consume(p, s) /\ used' = used /\ c \in Change /\ c.key \in Key
  BY PendingChange DEF Apply, ApplyInsert, ApplyUpdateMissing, ApplyUpdate, ApplyDelete
<1>2. c.new \in Content /\ old \in Content
  BY <1>1 DEF Change, Content, TypeOK
<1>3. \A y \in Content : <<y, y>> \in Order /\ <<y, NoRow>> \in Order
  BY ReachedOrder DEF Ordering
<1>4. NoRow \in Content
  BY DEF Content
<1>5. CASE ApplyInsert(p, s)
  <2>1. c.op = "INSERT" /\ old = NoRow /\ row' = [row EXCEPT ![s][c.key] = c.new]
    BY <1>5 DEF ApplyInsert, Pending
  <2>2. Merges(c, old, c.new, NoRow, Order)
    BY <1>2, <1>3, <2>1 DEF Merges
  <2> QED
    BY <1>1, <1>2, <2>1, <2>2
<1>6. CASE ApplyUpdateMissing(p, s)
  <2>1. c.op = "UPDATE" /\ old = NoRow /\ row' = row
    BY <1>6 DEF ApplyUpdateMissing, Pending
  <2>2. row' = [row EXCEPT ![s][c.key] = NoRow]
    BY <1>1, <2>1 DEF TypeOK
  <2>3. Merges(c, old, NoRow, NoRow, Order)
    BY <1>2, <1>3, <1>4, <2>1 DEF Merges
  <2> QED
    BY <1>1, <1>4, <2>2, <2>3
<1>7. CASE ApplyUpdate(p, s)
  <2> DEFINE x == IF Precedes(old, c.new) THEN c.new ELSE old
  <2>1. c.op = "UPDATE" /\ old # NoRow /\ row' = [row EXCEPT ![s][c.key] = x]
    BY <1>7 DEF ApplyUpdate, Pending
  <2>2. old \in Version /\ c.new \in Version /\ c.new # NoRow
    <3>1. old \in Version
      BY <1>2, <2>1 DEF Content
    <3>2. c.new \in Version
      BY <1>7, PendingChange DEF ApplyUpdate
    <3> QED
      BY <3>1, <3>2, CrdtAssumption
  <2>3. <<c.new, x>> \in Order /\ <<old, x>> \in Order
    <3>1. CASE Precedes(old, c.new)
      <4>1. Reached(old, c.new)
        BY <2>2, <3>1, ReachedOrder
      <4> QED
        BY <1>2, <1>3, <3>1, <4>1, ReachedOrder
    <3>2. CASE ~Precedes(old, c.new)
      <4>1. Reached(c.new, old)
        BY <2>2, <3>2 DEF Reached
      <4> QED
        BY <1>2, <1>3, <3>2, <4>1, ReachedOrder
    <3> QED
      BY <3>1, <3>2
  <2>4. Merges(c, old, x, NoRow, Order)
    BY <2>1, <2>3 DEF Merges
  <2> QED
    BY <1>1, <1>2, <2>1, <2>4
<1>8. CASE ApplyDelete(p, s)
  <2>1. c.op = "DELETE" /\ c.new = NoRow /\ row' = [row EXCEPT ![s][c.key] = NoRow]
    BY <1>8, PendingChange DEF ApplyDelete, Pending
  <2>2. Merges(c, old, NoRow, NoRow, Order)
    BY <1>2, <1>3, <1>4, <2>1 DEF Merges
  <2> QED
    BY <1>1, <1>4, <2>1, <2>2
<1> QED
  BY <1>1, <1>5, <1>6, <1>7, <1>8 DEF Apply

LEMMA ApplyRemoved ==
    ASSUME TypeOK, NEW p \in Node, NEW s \in Node, Apply(p, s)
    PROVE  /\ used' = used
           /\ \E c \in Change, x \in Content :
                /\ Merges(c, row[s][c.key], x, NoRow, Order)
                /\ Removed(stream, stream', p, s, c) /\ Stores(row, row', s, c.key, x, Key)
<1>1. stream[p][s] # << >> /\ Consume(p, s) /\ used' = used
  BY ApplyMerges
<1>2. PICK c \in Change, x \in Content :
         /\ c = Head(stream[p][s]) /\ Merges(c, row[s][c.key], x, NoRow, Order)
         /\ row' = [row EXCEPT ![s][c.key] = x]
  BY ApplyMerges
<1>3. Removed(stream, stream', p, s, c)
  BY <1>1, <1>2, ConsumeRemoves DEF TypeOK, Carries
<1>4. Stores(row, row', s, c.key, x, Key)
  <2> DEFINE k == c.key
  <2>1. k \in Key /\ row' = [row EXCEPT ![s][k] = x]
    BY <1>2 DEF Change
  <2> HIDE DEF k
  <2>2. Stores(row, row', s, k, x, Key)
    BY <2>1, RowWritten
  <2> QED
    BY <2>2 DEF k
<1> QED
  BY <1>1, <1>2, <1>3, <1>4

LEMMA AppliedAgrees ==
    ASSUME AtMostTwo, TypeOK, Fresh, TableAgrees, NEW p \in Node, NEW s \in Node, Apply(p, s)
    PROVE  Fresh' /\ TableAgrees'
<1>1. PICK c \in Change, x \in Content :
         /\ Merges(c, row[s][c.key], x, NoRow, Order)
         /\ Removed(stream, stream', p, s, c) /\ Stores(row, row', s, c.key, x, Key)
  BY ApplyRemoved
<1>2. c.key \in Key /\ used' = used
  BY ApplyRemoved DEF Change
<1>3. Unknown(stream', row', used', Key, NoRow)
  BY <1>1, <1>2, RemovedUnknown DEF Fresh
<1>4. Agreeing(stream', row', Key, NoRow, Order)
  BY <1>1, TableContents, ReachedOrder, ApplyAgrees DEF TableAgrees
<1> QED
  BY <1>3, <1>4, NextAgrees

\* Two nodes whose rows are as far as each other have the same row: stamps identify
\* writes.
LEMMA MutuallyReached ==
    ASSUME Stamps, NEW m \in Node, NEW n \in Node, NEW k \in Key,
           <<row[m][k], row[n][k]>> \in Order, <<row[n][k], row[m][k]>> \in Order
    PROVE  row[m][k] = row[n][k]
<1>0. TypeOK /\ StampsIdentifyWrites
  BY DEF Stamps
<1>1. row[m][k] \in Content /\ row[n][k] \in Content
  BY <1>0 DEF TypeOK, Content
<1>2. Reached(row[m][k], row[n][k]) /\ Reached(row[n][k], row[m][k])
  BY <1>1, ReachedOrder
<1>3. CASE row[m][k] # NoRow /\ row[n][k] # NoRow
  <2>1. row[m][k] \in Version /\ row[n][k] \in Version
    BY <1>1, <1>3 DEF Content
  <2>2. row[m][k].hlc = row[n][k].hlc /\ row[m][k].node = row[n][k].node
    BY <1>2, <1>3, <2>1, StampsOrdered DEF Reached
  <2>3. row[m][k] \in InSystem(k) \ {NoRow} /\ row[n][k] \in InSystem(k) \ {NoRow}
    BY <1>3 DEF InSystem
  <2> QED
    BY <1>0, <2>2, <2>3 DEF StampsIdentifyWrites
<1> QED
  BY <1>2, <1>3 DEF Reached

\* With generated keys two nodes store the same rows whenever the streams are
\* drained, whatever was inserted, updated and deleted where and in which order.
\* With three it fails, as an UPDATE may overtake its INSERT (CrdtLateInsert).
THEOREM TwoNodesConverge ==
    ASSUME AtMostTwo, GeneratedKeys
    PROVE  Spec => []Convergence
<1>1. TypeOK /\ Fresh /\ TableAgrees /\ [Next]_vars => Fresh' /\ TableAgrees'
  <2> SUFFICES ASSUME TypeOK, Fresh, TableAgrees, [Next]_vars PROVE Fresh' /\ TableAgrees'
    OBVIOUS
  <2>1. CASE UNCHANGED <<row, stream>> /\ used' = used
    <3>1. /\ Unknown(stream', row', used', Key, NoRow)
          /\ Agreeing(stream', row', Key, NoRow, Order)
      BY <2>1 DEF Fresh, TableAgrees
    <3> QED
      BY <3>1, NextAgrees
  <2>2. ASSUME NEW n \in Node, NEW k \in Key, NEW v \in Value, LocalInsert(n, k, v)
        PROVE  Fresh' /\ TableAgrees'
    <3>1. PICK x \in Version :
             /\ row' = [row EXCEPT ![n][k] = x]
             /\ [op |-> "INSERT", key |-> k, new |-> x] \in Change
             /\ Publish(n, [op |-> "INSERT", key |-> k, new |-> x])
      BY <2>2, LocalInsertEffect
    <3> DEFINE c == [op |-> "INSERT", key |-> k, new |-> x]
    <3>2. c.op = "INSERT" /\ c.key = k /\ c.new = x /\ c \in Change /\ Publish(n, c)
      BY <3>1
    <3>3. k \notin used /\ used' = used \cup {k}
      BY <2>2 DEF LocalInsert, Unused
    <3> HIDE DEF c
    <3> QED
      BY <3>1, <3>2, <3>3, PublishAgrees
  <2>3. ASSUME NEW n \in Node, NEW k \in Key, NEW v \in Value, LocalUpdate(n, k, v)
        PROVE  Fresh' /\ TableAgrees'
    <3>1. PICK x \in Version :
             \/ /\ Precedes(row[n][k], x)
                /\ row' = [row EXCEPT ![n][k] = x]
                /\ [op |-> "UPDATE", key |-> k, new |-> x] \in Change
                /\ Publish(n, [op |-> "UPDATE", key |-> k, new |-> x])
             \/ UNCHANGED <<row, stream>>
      BY <2>3, LocalUpdateEffect
    <3>2. row[n][k] # NoRow /\ row[n][k] \in Version /\ k \in used /\ used' = used
      BY <2>3 DEF LocalUpdate, Fresh, Unknown, TypeOK
    <3>3. CASE UNCHANGED <<row, stream>>
      BY <2>1, <3>2, <3>3
    <3>4. CASE ~UNCHANGED <<row, stream>>
      <4> DEFINE c == [op |-> "UPDATE", key |-> k, new |-> x]
      <4>1. c.op = "UPDATE" /\ c.key = k /\ c.new = x /\ c \in Change
        BY <3>1, <3>4
      <4>2. row' = [row EXCEPT ![n][k] = x] /\ Publish(n, c) /\ Reached(row[n][k], x)
        BY <3>1, <3>2, <3>4, ReachedOrder
      <4> HIDE DEF c
      <4> QED
        BY <3>2, <4>1, <4>2, PublishAgrees
    <3> QED
      BY <3>3, <3>4
  <2>4. ASSUME NEW n \in Node, NEW k \in Key, LocalDelete(n, k)
        PROVE  Fresh' /\ TableAgrees'
    <3> DEFINE c == [op |-> "DELETE", key |-> k, new |-> NoRow]
    <3>1. c.op = "DELETE" /\ c.key = k /\ c.new = NoRow /\ c \in Change
      BY DEF Change
    <3>2. row[n][k] # NoRow /\ k \in used /\ used' = used
      BY <2>4 DEF LocalDelete, Fresh, Unknown
    <3>3. row' = [row EXCEPT ![n][k] = NoRow] /\ Publish(n, c) /\ Reached(row[n][k], NoRow)
      BY <2>4 DEF LocalDelete, Reached
    <3> HIDE DEF c
    <3> QED
      BY <3>1, <3>2, <3>3, PublishAgrees
  <2> QED
    BY <2>1, <2>2, <2>3, <2>4, AppliedAgrees DEF Next, vars
<1>2. Stamps /\ TableAgrees => Convergence
  <2> SUFFICES ASSUME Stamps, TableAgrees, Drained, NEW m \in Node, NEW n \in Node, m # n
               PROVE  row[m] = row[n]
    BY DEF Convergence
  <2>0. TypeOK /\ StampsIdentifyWrites
    BY DEF Stamps
  <2>1. Agreeing(Idle, row, Key, NoRow, Order)
    BY DEF Drained, TableAgrees
  <2>2. ASSUME NEW k \in Key PROVE row[m][k] = row[n][k]
    <3>1. <<row[m][k], row[n][k]>> \in Order /\ <<row[n][k], row[m][k]>> \in Order
      BY <2>1, AgreeingWhenIdle
    <3> QED
      BY <3>1, MutuallyReached
  <2>3. row[m] \in [Key -> Content] /\ row[n] \in [Key -> Content]
    BY <2>0 DEF TypeOK, Content
  <2> QED
    BY <2>2, <2>3
<1> QED
  BY <1>1, <1>2, InitAgrees, StampsInvariance, Typing, PTL DEF Spec
-----------------------------------------------------------------------------
(* Any number of nodes: the rows that every node has from the start, and tables *)
(* that only grow.                                                            *)

\* No INSERT of a row in Seeded is published.
NoSeedInserts == {d \in Op \X Key : d[1] = "INSERT" => d[2] \notin Seeded}

SeededCovered == Seeded \subseteq used /\ Settled(stream, row, Seeded, NoSeedInserts, Order)

LEMMA OrderIsPreorder == Preorder(Content, Order)
BY ReachedOrder DEF Ordering, Preorder

\* What a step proves about stream' and row' holds in the next state.
LEMMA NextSeeded ==
    Seeded \subseteq used' /\ Settled(stream', row', Seeded, NoSeedInserts, Order) => SeededCovered'
BY DEF SeededCovered, Settled, Sends, NoSeedInserts, AllCovered, Covered, Coming, Order, Reached,
       Content

LEMMA InitSeeded == Init => SeededCovered
<1> SUFFICES ASSUME Init PROVE SeededCovered
  OBVIOUS
<1>1. \A m, n \in Node, k \in Seeded : row[m][k] = row[n][k] /\ row[m][k] \in Content
  BY CrdtAssumption DEF Init, Content
<1>2. Settled(Idle, row, Seeded, NoSeedInserts, Order)
  BY <1>1, SettledIfIdle, OrderIsPreorder
<1> QED
  BY <1>2 DEF Init, SeededCovered

LEMMA PublishSeeded ==
    ASSUME TypeOK, SeededCovered, NEW n \in Node, NEW c \in Change,
           row' = [row EXCEPT ![n][c.key] = c.new], Publish(n, c), used \subseteq used',
           c.key \in Seeded => c.op # "INSERT" /\ Reached(row[n][c.key], c.new)
    PROVE  SeededCovered'
<1>1. c.op \in Op /\ c.key \in Key /\ c.new \in Content /\ row[n][c.key] \in Content
  BY DEF Change, Content, TypeOK, Op
<1>2. Added(stream, stream', n, c) /\ Stores(row, row', n, c.key, c.new, Key)
  BY PublishAdded
<1>3. <<c.op, c.key>> \in NoSeedInserts
  BY <1>1 DEF NoSeedInserts
<1>4. c.key \in Seeded => <<row[n][c.key], c.new>> \in Order
  BY <1>1, ReachedOrder
<1>5. Seeded \in SUBSET Key /\ Contents(stream, row, Key, Content)
  BY CrdtAssumption, TableContents
<1>6. Settled(stream', row', Seeded, NoSeedInserts, Order)
  BY <1>1, <1>2, <1>3, <1>4, <1>5, OrderIsPreorder, WriteSettles DEF SeededCovered
<1> QED
  BY <1>6, NextSeeded DEF SeededCovered

LEMMA ApplySeeded ==
    ASSUME TypeOK, SeededCovered, NEW p \in Node, NEW s \in Node, Apply(p, s)
    PROVE  SeededCovered'
<1>1. PICK c \in Change, x \in Content :
         /\ Merges(c, row[s][c.key], x, NoRow, Order)
         /\ Removed(stream, stream', p, s, c) /\ Stores(row, row', s, c.key, x, Key)
  BY ApplyRemoved
<1>2. <<c.op, c.key>> \in NoSeedInserts /\ c.key \in Seeded =>
         /\ x \in {row[s][c.key], c.new}
         /\ <<row[s][c.key], x>> \in Order /\ <<c.new, x>> \in Order
  BY <1>1 DEF Merges, NoSeedInserts
<1>3. Seeded \in SUBSET Key /\ Contents(stream, row, Key, Content)
  BY CrdtAssumption, TableContents
<1>4. Settled(stream', row', Seeded, NoSeedInserts, Order)
  BY <1>1, <1>2, <1>3, OrderIsPreorder, JoinSettles DEF SeededCovered
<1> QED
  BY <1>4, ApplyRemoved, NextSeeded DEF SeededCovered

\* Any number of nodes store the same version of the rows they all started with once
\* the streams are drained, whatever they insert beside them and wherever those rows
\* are updated and deleted: only a change that overtakes the INSERT of its row can
\* make nodes diverge (CrdtLateInsert).
THEOREM SeededRowsConverge ==
    ASSUME "INSERT" \in Statements => GeneratedKeys
    PROVE  Spec => [](Drained => \A m, n \in Node, k \in Seeded : row[m][k] = row[n][k])
<1>1. TypeOK /\ SeededCovered /\ [Next]_vars => SeededCovered'
  <2> SUFFICES ASSUME TypeOK, SeededCovered, [Next]_vars PROVE SeededCovered'
    OBVIOUS
  <2>1. CASE UNCHANGED <<row, stream, used>>
    BY <2>1, NextSeeded DEF SeededCovered
  <2>2. ASSUME NEW n \in Node, NEW k \in Key, NEW v \in Value, LocalInsert(n, k, v)
        PROVE  SeededCovered'
    <3>1. PICK x \in Version :
             /\ row' = [row EXCEPT ![n][k] = x]
             /\ [op |-> "INSERT", key |-> k, new |-> x] \in Change
             /\ Publish(n, [op |-> "INSERT", key |-> k, new |-> x])
      BY <2>2, LocalInsertEffect
    <3> DEFINE c == [op |-> "INSERT", key |-> k, new |-> x]
    <3>2. c.op = "INSERT" /\ c.key = k /\ c.new = x /\ c \in Change /\ Publish(n, c)
      BY <3>1
    <3>3. k \notin Seeded /\ used \subseteq used'
      BY <2>2 DEF LocalInsert, Statement, Unused, SeededCovered
    <3> HIDE DEF c
    <3> QED
      BY <3>1, <3>2, <3>3, PublishSeeded
  <2>3. ASSUME NEW n \in Node, NEW k \in Key, NEW v \in Value, LocalUpdate(n, k, v)
        PROVE  SeededCovered'
    <3>1. PICK x \in Version :
             \/ /\ Precedes(row[n][k], x)
                /\ row' = [row EXCEPT ![n][k] = x]
                /\ [op |-> "UPDATE", key |-> k, new |-> x] \in Change
                /\ Publish(n, [op |-> "UPDATE", key |-> k, new |-> x])
             \/ UNCHANGED <<row, stream>>
      BY <2>3, LocalUpdateEffect
    <3>2. row[n][k] \in Version /\ used' = used
      BY <2>3 DEF LocalUpdate, TypeOK
    <3>3. CASE UNCHANGED <<row, stream>>
      BY <2>1, <3>2, <3>3
    <3>4. CASE ~UNCHANGED <<row, stream>>
      <4> DEFINE c == [op |-> "UPDATE", key |-> k, new |-> x]
      <4>1. c.op = "UPDATE" /\ c.key = k /\ c.new = x /\ c \in Change
        BY <3>1, <3>4
      <4>2. row' = [row EXCEPT ![n][k] = x] /\ Publish(n, c) /\ Reached(row[n][k], x)
        BY <3>1, <3>2, <3>4, ReachedOrder
      <4> HIDE DEF c
      <4> QED
        BY <3>2, <4>1, <4>2, PublishSeeded
    <3> QED
      BY <3>3, <3>4
  <2>4. ASSUME NEW n \in Node, NEW k \in Key, LocalDelete(n, k)
        PROVE  SeededCovered'
    <3> DEFINE c == [op |-> "DELETE", key |-> k, new |-> NoRow]
    <3>1. c.op = "DELETE" /\ c.key = k /\ c.new = NoRow /\ c \in Change
      BY DEF Change
    <3>2. /\ row' = [row EXCEPT ![n][k] = NoRow] /\ Publish(n, c) /\ used' = used
          /\ Reached(row[n][k], NoRow)
      BY <2>4 DEF LocalDelete, Reached
    <3> HIDE DEF c
    <3> QED
      BY <3>1, <3>2, PublishSeeded
  <2> QED
    BY <2>1, <2>2, <2>3, <2>4, ApplySeeded DEF Next, vars
<1>2. Stamps /\ SeededCovered => (Drained => \A m, n \in Node, k \in Seeded : row[m][k] = row[n][k])
  <2> SUFFICES ASSUME Stamps, SeededCovered, Drained, NEW m \in Node, NEW n \in Node, NEW k \in Seeded
               PROVE  row[m][k] = row[n][k]
    OBVIOUS
  <2>1. Settled(Idle, row, Seeded, NoSeedInserts, Order) /\ k \in Key
    BY CrdtAssumption DEF Drained, SeededCovered
  <2>2. <<row[m][k], row[n][k]>> \in Order /\ <<row[n][k], row[m][k]>> \in Order
    BY <2>1, SettledWhenIdle
  <2> QED
    BY <2>1, <2>2, MutuallyReached
<1> QED
  BY <1>1, <1>2, InitSeeded, StampsInvariance, Typing, PTL DEF Spec

OnlyInserts == {"INSERT"} \X Key

GrowthCovered == Settled(stream, row, Key, OnlyInserts, Grown(Content, NoRow))

\* What a step proves about stream' and row' holds in the next state.
LEMMA NextGrowth == Settled(stream', row', Key, OnlyInserts, Grown(Content, NoRow)) => GrowthCovered'
BY DEF GrowthCovered, Settled, Sends, OnlyInserts, AllCovered, Covered, Coming, Grown, Content

\* In a table that is only inserted into any number of nodes store the same rows once
\* the streams are drained (Convergence), generated keys or not: an INSERT that finds
\* another row keeps its stream from draining.
THEOREM InsertsConverge ==
    ASSUME Statements \subseteq {"INSERT"}
    PROVE  Spec => []Convergence
<1> DEFINE R == Grown(Content, NoRow)
<1>0. /\ Preorder(Content, R) /\ NoRow \in Content
      /\ \A x, y \in Content : <<x, y>> \in R <=> x = NoRow \/ x = y
  BY GrownOrder DEF Content
<1>1. Init => GrowthCovered
  <2> SUFFICES ASSUME Init PROVE GrowthCovered
    OBVIOUS
  <2>1. \A m, n \in Node, k \in Key : row[m][k] = row[n][k] /\ row[m][k] \in Content
    BY CrdtAssumption DEF Init, Content
  <2>2. Settled(Idle, row, Key, OnlyInserts, R)
    BY <1>0, <2>1, SettledIfIdle
  <2> QED
    BY <2>2 DEF Init, GrowthCovered
<1>2. TypeOK /\ GrowthCovered /\ [Next]_vars => GrowthCovered'
  <2> SUFFICES ASSUME TypeOK, GrowthCovered, [Next]_vars PROVE GrowthCovered'
    OBVIOUS
  <2> HIDE DEF R
  <2>0. Settled(stream, row, Key, OnlyInserts, R) /\ Contents(stream, row, Key, Content)
    BY TableContents DEF GrowthCovered, R
  <2>1. CASE UNCHANGED <<row, stream>>
    BY <2>1, NextGrowth DEF GrowthCovered
  <2>2. ASSUME NEW n \in Node, NEW k \in Key, NEW v \in Value, LocalInsert(n, k, v)
        PROVE  GrowthCovered'
    <3>1. PICK x \in Version :
             /\ row' = [row EXCEPT ![n][k] = x]
             /\ [op |-> "INSERT", key |-> k, new |-> x] \in Change
             /\ Publish(n, [op |-> "INSERT", key |-> k, new |-> x])
      BY <2>2, LocalInsertEffect
    <3> DEFINE c == [op |-> "INSERT", key |-> k, new |-> x]
    <3>2. c.op = "INSERT" /\ c.key = k /\ c.new = x /\ c \in Change /\ Publish(n, c)
      BY <3>1
    <3>3. row[n][k] = NoRow /\ x \in Content
      BY <2>2 DEF LocalInsert, Content
    <3>4. <<row[n][k], x>> \in R
      BY <1>0, <3>3
    <3> HIDE DEF c
    <3>5. Added(stream, stream', n, c) /\ Stores(row, row', n, k, x, Key)
      BY <3>1, <3>2, PublishAdded
    <3>6. <<c.op, k>> \in OnlyInserts
      BY <3>2 DEF OnlyInserts
    <3>7. Settled(stream', row', Key, OnlyInserts, R)
      BY <1>0, <2>0, <3>2, <3>3, <3>4, <3>5, <3>6, WriteSettles
    <3> QED
      BY <3>7, NextGrowth DEF R
  <2>3. ASSUME NEW p \in Node, NEW s \in Node, Apply(p, s)
        PROVE  GrowthCovered'
    <3>1. PICK c \in Change, x \in Content :
             /\ Merges(c, row[s][c.key], x, NoRow, Order)
             /\ Removed(stream, stream', p, s, c) /\ Stores(row, row', s, c.key, x, Key)
      BY <2>3, ApplyRemoved
    <3>2. <<c.op, c.key>> \in OnlyInserts =>
             /\ x \in {row[s][c.key], c.new}
             /\ <<row[s][c.key], x>> \in R /\ <<c.new, x>> \in R
      BY <1>0, <3>1 DEF Merges, OnlyInserts
    <3>3. Settled(stream', row', Key, OnlyInserts, R)
      BY <1>0, <2>0, <3>1, <3>2, JoinSettles
    <3> QED
      BY <3>3, NextGrowth DEF R
  <2>4. ASSUME NEW n \in Node, NEW k \in Key, NEW v \in Value, LocalUpdate(n, k, v) \/ LocalDelete(n, k)
        PROVE  FALSE
    BY <2>4 DEF LocalUpdate, LocalDelete, Statement
  <2>5. ASSUME NEW n \in Node, NEW k \in Key, LocalDelete(n, k)
        PROVE  FALSE
    BY <2>5 DEF LocalDelete, Statement
  <2> QED
    BY <2>1, <2>2, <2>3, <2>4, <2>5 DEF Next, vars
<1>3. TypeOK /\ GrowthCovered => Convergence
  <2> SUFFICES ASSUME TypeOK, GrowthCovered, Drained, NEW m \in Node, NEW n \in Node
               PROVE  row[m] = row[n]
    BY DEF Convergence
  <2>1. ASSUME NEW k \in Key PROVE row[m][k] = row[n][k]
    <3>1. Settled(Idle, row, Key, OnlyInserts, R)
      BY DEF Drained, GrowthCovered
    <3>2. <<row[m][k], row[n][k]>> \in R /\ <<row[n][k], row[m][k]>> \in R
      BY <3>1, SettledWhenIdle
    <3>3. row[m][k] \in Content /\ row[n][k] \in Content
      BY DEF TypeOK, Content
    <3> HIDE DEF R
    <3> QED
      BY <1>0, <3>2, <3>3
  <2> QED
    BY <2>1 DEF TypeOK
<1> QED
  BY <1>1, <1>2, <1>3, Typing, PTL DEF Spec
=============================================================================
