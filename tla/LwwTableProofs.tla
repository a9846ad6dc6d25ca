--------------------------- MODULE LwwTableProofs ---------------------------
(***************************************************************************)
(* Proofs about LwwTable: types, ascending times and, but for ties and     *)
(* rows that a statement has set back, the convergence of two nodes, and   *)
(* of any number of nodes as long as no change can overtake the INSERT of  *)
(* its row.                                                                *)
(***************************************************************************)
EXTENDS LwwTable, MeshProofs

Content == Version \cup {NoRow}

LEMMA ChangeFacts ==
    ASSUME NEW c \in Change
    PROVE  /\ c.key \in Key /\ c.new \in Content
           /\ c.op \in {"INSERT", "UPDATE", "DELETE"}
           /\ c.op = "DELETE" <=> c.new = NoRow
BY LwwAssumption DEF Change, Content

LEMMA HeadFacts ==
    ASSUME TypeOK, NEW p \in Node, NEW s \in Node, stream[p][s] # << >>
    PROVE  Head(stream[p][s]) \in Change
<1>1. stream[p][s] \in Seq(Change)
  BY DEF TypeOK
<1> QED
  BY <1>1

\* Only one row is written.
LEMMA RowWritten ==
    ASSUME TypeOK, NEW n \in Node, NEW k \in Key, NEW x, row' = [row EXCEPT ![n][k] = x]
    PROVE  Stores(row, row', n, k, x, Key)
BY DEF TypeOK, Stores

\* Node n stores x as row k and publishes it.
Written(n, k, op, x) ==
    /\ row' = [row EXCEPT ![n][k] = x]
    /\ [op |-> op, key |-> k, new |-> x] \in Change
    /\ Publish(n, [op |-> op, key |-> k, new |-> x])

\* An UPDATE of row k that may assign a time to updated_at.
Updates(n, k) ==
    \E v \in Value, t \in 0..now :
        LocalUpdate(n, k, v, t) \/ \E x \in Assigned : LocalTouch(n, k, v, t, x)

\* What an UPDATE does: nothing, or it stores a version that is not older, or the
\* row is noted as set back.
LEMMA UpdateEffect ==
    ASSUME TypeOK, NEW n \in Node, NEW k \in Key, Updates(n, k)
    PROVE  \/ UNCHANGED <<row, stream, backdated>>
           \/ \E x \in Version :
                /\ Written(n, k, "UPDATE", x)
                /\ \/ x.at >= row[n][k].at /\ backdated' = backdated
                   \/ backdated' = backdated \cup {k}
<1>1. PICK v \in Value, t \in 0..now :
         LocalUpdate(n, k, v, t) \/ \E x \in Assigned : LocalTouch(n, k, v, t, x)
  BY DEF Updates
<1> DEFINE new == [val |-> v, at |-> t]
<1>2. new \in Version /\ [op |-> "UPDATE", key |-> k, new |-> new] \in Change
  BY LwwAssumption DEF TypeOK, Time, Version, Change
<1>3. row[n][k] # NoRow /\ row[n][k].at \in Int /\ new.at \in Int
  BY <1>1 DEF TypeOK, Version, Time, LocalUpdate, LocalTouch
<1>4. PICK x : UpdateRow(n, k, v, t, x)
  BY <1>1 DEF LocalUpdate, LocalTouch
<1>5. CASE UNCHANGED <<row, stream, backdated>>
  BY <1>5
<1>6. CASE /\ row' = [row EXCEPT ![n][k] = new]
           /\ Publish(n, [op |-> "UPDATE", key |-> k, new |-> new])
           /\ backdated' = IF t < row[n][k].at THEN backdated \cup {k} ELSE backdated
  <2>1. Written(n, k, "UPDATE", new)
    BY <1>2, <1>6 DEF Written
  <2>2. \/ new.at >= row[n][k].at /\ backdated' = backdated
        \/ backdated' = backdated \cup {k}
    BY <1>3, <1>6
  <2> QED
    BY <1>2, <2>1, <2>2
<1> QED
  BY <1>4, <1>5, <1>6 DEF UpdateRow

LEMMA UpdateKeeps ==
    ASSUME NEW n \in Node, NEW k \in Key, Updates(n, k)
    PROVE  /\ now' = now /\ used' = used /\ writes' = writes + 1
           /\ row[n][k] # NoRow
           /\ {"UPDATE", "TOUCH"} \cap Statements # {}
BY DEF Updates, LocalUpdate, LocalTouch, Statement

LEMMA InsertEffect ==
    ASSUME TypeOK, NEW n \in Node, NEW k \in Key, NEW v \in Value, NEW t \in 0..now,
           LocalInsert(n, k, v, t)
    PROVE  /\ \E x \in Version : Written(n, k, "INSERT", x)
           /\ backdated' = backdated
<1> DEFINE x == [val |-> v, at |-> t]
<1>1. x \in Version
  BY LwwAssumption DEF TypeOK, Time, Version
<1>2. [op |-> "INSERT", key |-> k, new |-> x] \in Change
  BY <1>1 DEF Change
<1>3. Written(n, k, "INSERT", x)
  BY <1>2 DEF LocalInsert, Written
<1> QED
  BY <1>1, <1>3 DEF LocalInsert

LEMMA DeleteEffect ==
    ASSUME NEW n \in Node, NEW k \in Key, LocalDelete(n, k)
    PROVE  Written(n, k, "DELETE", NoRow) /\ backdated' = backdated
BY DEF LocalDelete, Written, Change

\* What applying a change does: it stores the change, or finds a row that is not
\* older.
Resolved(c, old, new) ==
    \/ c.op = "INSERT" /\ old = NoRow /\ new = c.new
    \/ c.op = "UPDATE" /\ new = IF Newer(c.new, old) THEN c.new ELSE old
    \/ c.op = "DELETE" /\ new = NoRow

LEMMA ApplyEffect ==
    ASSUME TypeOK, NEW p \in Node, NEW s \in Node, Apply(p, s)
    PROVE  /\ stream[p][s] # << >> /\ Consume(p, s)
           /\ UNCHANGED <<now, used, writes, backdated>>
           /\ \E c \in Change, x \in Content :
                /\ c = Head(stream[p][s])
                /\ Resolved(c, row[s][c.key], x)
                /\ row' = [row EXCEPT ![s][c.key] = x]
<1> DEFINE c == Head(stream[p][s])
<1>1. stream[p][s] # << >> /\ Consume(p, s) /\ UNCHANGED <<now, used, writes, backdated>>
  BY DEF Apply, ApplyInsert, ApplyUpdate, ApplyDelete, Pending
<1>2. c \in Change /\ c.key \in Key /\ c.new \in Content /\ row[s][c.key] \in Content
  BY <1>1, HeadFacts, ChangeFacts DEF TypeOK, Content
<1>3. NoRow \in Content
  BY DEF Content
<1>4. CASE ApplyInsert(p, s)
  <2>1. /\ Resolved(c, row[s][c.key], c.new)
        /\ row' = [row EXCEPT ![s][c.key] = c.new]
    BY <1>4 DEF ApplyInsert, Pending, Resolved
  <2> QED
    BY <1>1, <1>2, <2>1
<1>5. CASE ApplyUpdate(p, s)
  <2> DEFINE x == IF Newer(c.new, row[s][c.key]) THEN c.new ELSE row[s][c.key]
  <2>1. Resolved(c, row[s][c.key], x)
    BY <1>5 DEF ApplyUpdate, Pending, Resolved
  <2>2. row' = [row EXCEPT ![s][c.key] = x]
    <3>1. row = [row EXCEPT ![s][c.key] = row[s][c.key]]
      BY <1>2 DEF TypeOK
    <3> QED
      BY <1>5, <3>1 DEF ApplyUpdate
  <2>3. x \in Content
    BY <1>2
  <2> QED
    BY <1>1, <1>2, <2>1, <2>2, <2>3
<1>6. CASE ApplyDelete(p, s)
  <2>1. /\ Resolved(c, row[s][c.key], NoRow)
        /\ row' = [row EXCEPT ![s][c.key] = NoRow]
    BY <1>6 DEF ApplyDelete, Pending, Resolved
  <2> QED
    BY <1>1, <1>2, <1>3, <2>1
<1> QED
  BY <1>4, <1>5, <1>6 DEF Apply

-----------------------------------------------------------------------------
(* Types. *)

LEMMA RowTyping ==
    ASSUME TypeOK, NEW n \in Node, NEW k \in Key, NEW x \in Content,
           row' = [row EXCEPT ![n][k] = x]
    PROVE  row' \in [Node -> [Key -> Version \cup {NoRow}]]
BY DEF TypeOK, Content

LEMMA WriteTyping ==
    ASSUME TypeOK, NEW n \in Node, NEW k \in Key, NEW op, NEW x \in Content,
           Written(n, k, op, x), now' \in Time, used' \in SUBSET Key, writes' \in Nat, backdated' \in SUBSET Key
    PROVE  TypeOK'
<1>1. Carries(Change)'
  BY PublishEffect DEF Written, TypeOK, Carries
<1> QED
  BY <1>1, RowTyping DEF Written, TypeOK, Carries

\* Times, rows and changes keep their types: every stored time was read from the
\* clock, and what deletes a row carries none.
THEOREM Typing == Spec => []TypeOK
<1>1. Init => TypeOK
  <2> SUFFICES ASSUME Init PROVE TypeOK
    OBVIOUS
  <2>1. now \in Time /\ writes \in Nat /\ used \in SUBSET Key /\ backdated \in SUBSET Key
    BY LwwAssumption DEF Init, Time
  <2>2. \A v \in Value : [val |-> v, at |-> 0] \in Version
    BY LwwAssumption DEF Version, Time
  <2>3. row \in [Node -> [Key -> Version \cup {NoRow}]]
    BY <2>2 DEF Init
  <2>4. stream \in [Node -> [Node -> Seq(Change)]]
    BY IdleMesh DEF Init, Carries
  <2> QED
    BY <2>1, <2>3, <2>4 DEF TypeOK
<1>2. TypeOK /\ [Next]_vars => TypeOK'
  <2> SUFFICES ASSUME TypeOK, [Next]_vars PROVE TypeOK'
    OBVIOUS
  <2>0. Carries(Change)
    BY DEF TypeOK, Carries
  <2>1. CASE UNCHANGED vars
    BY <2>1 DEF vars, TypeOK
  <2>2. CASE Tick
    BY <2>2, LwwAssumption DEF Tick, TypeOK, Time
  <2>3. ASSUME NEW n \in Node, NEW k \in Key, NEW v \in Value, NEW t \in 0..now,
               LocalInsert(n, k, v, t)
        PROVE  TypeOK'
    <3>1. /\ now' \in Time /\ used' \in SUBSET Key /\ writes' \in Nat
          /\ backdated' \in SUBSET Key
      BY <2>3 DEF LocalInsert, Statement, TypeOK
    <3> QED
      BY <2>3, <3>1, InsertEffect, WriteTyping DEF Content
  <2>4. ASSUME NEW n \in Node, NEW k \in Key, Updates(n, k)
        PROVE  TypeOK'
    <3>1. now' \in Time /\ used' \in SUBSET Key /\ writes' \in Nat
      BY <2>4, UpdateKeeps DEF TypeOK
    <3>2. CASE UNCHANGED <<row, stream, backdated>>
      BY <3>1, <3>2 DEF TypeOK
    <3>3. ASSUME NEW x \in Version, Written(n, k, "UPDATE", x),
                 backdated' = backdated \/ backdated' = backdated \cup {k}
          PROVE  TypeOK'
      <4>1. backdated' \in SUBSET Key /\ x \in Content
        BY <3>3 DEF TypeOK, Content
      <4> QED
        BY <3>1, <3>3, <4>1, WriteTyping
    <3> QED
      BY <2>4, <3>2, <3>3, UpdateEffect
  <2>5. ASSUME NEW n \in Node, NEW k \in Key, LocalDelete(n, k)
        PROVE  TypeOK'
    <3>1. /\ now' \in Time /\ used' \in SUBSET Key /\ writes' \in Nat
          /\ backdated' \in SUBSET Key
      BY <2>5 DEF LocalDelete, Statement, TypeOK
    <3> QED
      BY <2>5, <3>1, DeleteEffect, WriteTyping DEF Content
  <2>6. ASSUME NEW p \in Node, NEW s \in Node, Apply(p, s)
        PROVE  TypeOK'
    <3>1. /\ stream[p][s] # << >> /\ Consume(p, s)
          /\ UNCHANGED <<now, used, writes, backdated>>
      BY <2>6, ApplyEffect
    <3>2. PICK c \in Change, x \in Content : row' = [row EXCEPT ![s][c.key] = x]
      BY <2>6, ApplyEffect
    <3>3. row' \in [Node -> [Key -> Version \cup {NoRow}]]
      BY <3>2, RowTyping, ChangeFacts
    <3>4. Carries(Change)'
      BY <2>0, <3>1, ConsumeEffect
    <3> QED
      BY <3>1, <3>3, <3>4 DEF TypeOK, Carries
  <2> QED
    BY <2>1, <2>2, <2>3, <2>4, <2>5, <2>6 DEF Next, Updates
<1> QED
  BY <1>1, <1>2, PTL DEF Spec

-----------------------------------------------------------------------------
(* What statements and apply workers do to rows and streams. *)

LEMMA WriteAdds ==
    ASSUME TypeOK, NEW n \in Node, NEW k \in Key, NEW op, NEW x, Written(n, k, op, x)
    PROVE  \E c : /\ c.op = op /\ c.key = k /\ c.new = x
                 /\ Added(stream, stream', n, c) /\ Stores(row, row', n, k, x, Key)
<1> DEFINE c == [op |-> op, key |-> k, new |-> x]
<1>1. c.op = op /\ c.key = k /\ c.new = x /\ c \in Change /\ Publish(n, c)
  BY DEF Written
<1>2. Stores(row, row', n, k, x, Key)
  BY RowWritten DEF Written
<1> HIDE DEF c
<1>3. Added(stream, stream', n, c)
  BY <1>1, PublishAdds DEF TypeOK, Carries
<1> QED
  BY <1>1, <1>2, <1>3

LEMMA ApplyRemoves ==
    ASSUME TypeOK, NEW p \in Node, NEW s \in Node, Apply(p, s)
    PROVE  /\ used' = used /\ backdated' = backdated
           /\ \E c \in Change, x \in Content :
                /\ Resolved(c, row[s][c.key], x)
                /\ Removed(stream, stream', p, s, c) /\ Stores(row, row', s, c.key, x, Key)
<1>1. stream[p][s] # << >> /\ Consume(p, s) /\ used' = used /\ backdated' = backdated
  BY ApplyEffect
<1>2. PICK c \in Change, x \in Content :
         /\ c = Head(stream[p][s]) /\ Resolved(c, row[s][c.key], x)
         /\ row' = [row EXCEPT ![s][c.key] = x]
  BY ApplyEffect
<1>3. Removed(stream, stream', p, s, c)
  BY <1>1, <1>2, ConsumeRemoves DEF TypeOK, Carries
<1>4. Stores(row, row', s, c.key, x, Key)
  BY <1>2, RowWritten, ChangeFacts
<1> QED
  BY <1>1, <1>2, <1>3, <1>4

-----------------------------------------------------------------------------
(* Stored times. *)

\* A key that is still to be generated is nowhere.
Fresh == Unknown(stream, row, used, Key, NoRow)

LEMMA WriteFresh ==
    ASSUME TypeOK, Fresh, NEW n \in Node, NEW k \in Key, NEW op, NEW x, Written(n, k, op, x),
           used \subseteq used', k \in used'
    PROVE  Fresh'
<1>1. Unknown(stream', row', used', Key, NoRow)
  BY WriteAdds, AddedUnknown DEF Fresh
<1> QED
  BY <1>1 DEF Fresh, Unknown

LEMMA ApplyFresh ==
    ASSUME TypeOK, Fresh, NEW p \in Node, NEW s \in Node, Apply(p, s)
    PROVE  Fresh'
<1>1. PICK c \in Change, x \in Content :
         Removed(stream, stream', p, s, c) /\ Stores(row, row', s, c.key, x, Key)
  BY ApplyRemoves
<1>2. c.key \in Key /\ used' = used
  BY ApplyRemoves, ChangeFacts
<1>3. Unknown(stream', row', used', Key, NoRow)
  BY <1>1, <1>2, RemovedUnknown DEF Fresh
<1> QED
  BY <1>3 DEF Fresh, Unknown

LEMMA InitFresh == Init => Fresh
BY UnknownIfIdle DEF Init, Fresh

LEMMA NextFresh == TypeOK /\ Fresh /\ [Next]_vars => Fresh'
<1> SUFFICES ASSUME TypeOK, Fresh, [Next]_vars PROVE Fresh'
  OBVIOUS
<1>1. CASE UNCHANGED <<row, stream, used>>
  BY <1>1 DEF Fresh, Unknown
<1>2. ASSUME NEW n \in Node, NEW k \in Key, NEW v \in Value, NEW t \in 0..now,
             LocalInsert(n, k, v, t)
      PROVE  Fresh'
  <2>1. PICK x \in Version : Written(n, k, "INSERT", x)
    BY <1>2, InsertEffect
  <2>2. used \subseteq used' /\ k \in used'
    BY <1>2 DEF LocalInsert
  <2> QED
    BY <2>1, <2>2, WriteFresh
<1>3. ASSUME NEW n \in Node, NEW k \in Key, Updates(n, k)
      PROVE  Fresh'
  <2>1. used' = used /\ k \in used
    BY <1>3, UpdateKeeps DEF Fresh, Unknown
  <2>2. CASE UNCHANGED <<row, stream>>
    BY <1>1, <2>1, <2>2
  <2>3. CASE \E x \in Version : Written(n, k, "UPDATE", x)
    BY <2>1, <2>3, WriteFresh
  <2> QED
    BY <1>3, <2>2, <2>3, UpdateEffect
<1>4. ASSUME NEW n \in Node, NEW k \in Key, LocalDelete(n, k)
      PROVE  Fresh'
  <2>1. used' = used /\ k \in used
    BY <1>4 DEF LocalDelete, Fresh, Unknown
  <2> QED
    BY <1>4, <2>1, DeleteEffect, WriteFresh
<1> QED
  BY <1>1, <1>2, <1>3, <1>4, ApplyFresh DEF Next, Updates, Tick, vars

\* No step stores a row in place of one that is as new, for any number of nodes,
\* keys and statements, but for the local statements that set a row back
\* (TimesAscend): conflict_resolution_T sees every UPDATE, and an INSERT never meets
\* a row.
THEOREM TimesOnlyAscend == Spec => TimesAscend
<1> DEFINE Up == \A n \in Node, k \in Key :
                    \/ row[n][k] \in {NoRow, row'[n][k]}
                    \/ row'[n][k] = NoRow \/ Newer(row'[n][k], row[n][k])
                    \/ writes' # writes /\ (row'[n][k].at = row[n][k].at \/ k \in backdated')
<1>1. ASSUME TypeOK, NEW n \in Node, NEW k \in Key, NEW x, row' = [row EXCEPT ![n][k] = x],
             \/ row[n][k] \in {NoRow, x} \/ x = NoRow \/ Newer(x, row[n][k])
             \/ writes' # writes /\ (x.at = row[n][k].at \/ k \in backdated')
      PROVE  Up
  BY <1>1, RowWritten DEF Stores
<1>2. TypeOK /\ Fresh /\ [Next]_vars => [Up]_vars
  <2> SUFFICES ASSUME TypeOK, Fresh, Next PROVE Up
    OBVIOUS
  <2>1. CASE UNCHANGED row
    BY <2>1
  <2>2. ASSUME NEW n \in Node, NEW k \in Key, NEW v \in Value, NEW t \in 0..now,
               LocalInsert(n, k, v, t)
        PROVE  Up
    <3>1. row[n][k] = NoRow
      BY <2>2 DEF LocalInsert, Fresh, Unknown
    <3>2. PICK x \in Version : Written(n, k, "INSERT", x)
      BY <2>2, InsertEffect
    <3>3. row' = [row EXCEPT ![n][k] = x]
      BY <3>2 DEF Written
    <3> HIDE DEF Up
    <3> QED
      BY <1>1, <3>1, <3>3
  <2>3. ASSUME NEW n \in Node, NEW k \in Key, Updates(n, k)
        PROVE  Up
    <3>1. CASE UNCHANGED <<row, stream, backdated>>
      BY <2>1, <3>1
    <3>2. writes' # writes /\ row[n][k] \in Version
      BY <2>3, UpdateKeeps DEF TypeOK
    <3>3. ASSUME NEW x \in Version, Written(n, k, "UPDATE", x),
                 \/ x.at >= row[n][k].at /\ backdated' = backdated
                 \/ backdated' = backdated \cup {k}
          PROVE  Up
      <4>1. x.at \in Int /\ row[n][k].at \in Int /\ row[n][k] # NoRow
        BY <3>2, LwwAssumption DEF Version, Time
      <4>2. Newer(x, row[n][k]) \/ x.at = row[n][k].at \/ k \in backdated'
        BY <3>3, <4>1 DEF Newer
      <4>3. row' = [row EXCEPT ![n][k] = x]
        BY <3>3 DEF Written
      <4> HIDE DEF Up
      <4> QED
        BY <1>1, <3>2, <4>2, <4>3
    <3> HIDE DEF Up
    <3> QED
      BY <2>3, <3>1, <3>3, UpdateEffect
  <2>4. ASSUME NEW n \in Node, NEW k \in Key, LocalDelete(n, k)
        PROVE  Up
    <3> HIDE DEF Up
    <3> QED
      BY <1>1, <2>4, DeleteEffect DEF Written
  <2>5. ASSUME NEW p \in Node, NEW s \in Node, Apply(p, s)
        PROVE  Up
    <3>1. PICK c \in Change, x \in Content :
             Resolved(c, row[s][c.key], x) /\ row' = [row EXCEPT ![s][c.key] = x]
      BY <2>5, ApplyEffect
    <3>2. row[s][c.key] \in {NoRow, x} \/ x = NoRow \/ Newer(x, row[s][c.key])
      BY <3>1 DEF Resolved
    <3>3. c.key \in Key
      BY ChangeFacts
    <3> HIDE DEF Up
    <3> QED
      BY <1>1, <3>1, <3>2, <3>3
  <2> QED
    BY <2>1, <2>2, <2>3, <2>4, <2>5 DEF Next, Updates, Tick
<1> QED
  BY <1>2, InitFresh, NextFresh, Typing, PTL DEF Spec, TimesAscend

-----------------------------------------------------------------------------
(* Inserts of generated keys. *)

OneInsert == InsertsOnce(stream, row, used, Key, NoRow)

\* No apply worker of any number of nodes ever stands still before an INSERT whose
\* key is there already (InsertsFindNoRow).
THEOREM InsertsAreNew == Spec => []InsertsFindNoRow
<1>1. Init => OneInsert
  BY InsertsOnceIfIdle DEF Init, OneInsert
<1>2. TypeOK /\ OneInsert /\ [Next]_vars => OneInsert'
  <2> SUFFICES ASSUME TypeOK, OneInsert, [Next]_vars PROVE OneInsert'
    OBVIOUS
  <2>1. CASE UNCHANGED <<row, stream, used>>
    BY <2>1 DEF OneInsert, InsertsOnce, Inserts
  <2>2. ASSUME NEW n \in Node, NEW k \in Key, row[n][k] # NoRow, used' = used, NEW op, NEW x,
               op # "INSERT", Written(n, k, op, x)
        PROVE  OneInsert'
    <3>1. InsertsOnce(stream', row', used', Key, NoRow)
      BY <2>2, WriteAdds, ChangeInsertsOnce DEF OneInsert
    <3> QED
      BY <3>1 DEF OneInsert, InsertsOnce, Inserts
  <2>3. ASSUME NEW n \in Node, NEW k \in Key, NEW v \in Value, NEW t \in 0..now,
               LocalInsert(n, k, v, t)
        PROVE  OneInsert'
    <3>1. k \notin used /\ used' = used \cup {k}
      BY <2>3 DEF LocalInsert
    <3>2. PICK x \in Version : Written(n, k, "INSERT", x)
      BY <2>3, InsertEffect
    <3>3. InsertsOnce(stream', row', used', Key, NoRow)
      BY <3>1, <3>2, WriteAdds, InsertInsertsOnce DEF OneInsert
    <3> QED
      BY <3>3 DEF OneInsert, InsertsOnce, Inserts
  <2>4. ASSUME NEW n \in Node, NEW k \in Key, Updates(n, k)
        PROVE  OneInsert'
    <3>1. row[n][k] # NoRow /\ used' = used
      BY <2>4, UpdateKeeps
    <3> QED
      BY <2>1, <2>2, <2>4, <3>1, UpdateEffect
  <2>5. ASSUME NEW n \in Node, NEW k \in Key, LocalDelete(n, k) PROVE OneInsert'
    BY <2>2, <2>5, DeleteEffect DEF LocalDelete
  <2>6. ASSUME NEW p \in Node, NEW s \in Node, Apply(p, s) PROVE OneInsert'
    <3>1. PICK c \in Change, x \in Content :
             /\ Resolved(c, row[s][c.key], x)
             /\ Removed(stream, stream', p, s, c) /\ Stores(row, row', s, c.key, x, Key)
      BY <2>6, ApplyRemoves
    <3>2. c.key \in Key /\ used' = used /\ (x # NoRow => c.op = "INSERT" \/ row[s][c.key] # NoRow)
      BY <2>6, <3>1, ApplyRemoves, ChangeFacts DEF Resolved, Newer
    <3>3. InsertsOnce(stream', row', used', Key, NoRow)
      BY <3>1, <3>2, ApplyInsertsOnce DEF OneInsert
    <3> QED
      BY <3>3 DEF OneInsert, InsertsOnce, Inserts
  <2> QED
    BY <2>1, <2>3, <2>4, <2>5, <2>6 DEF Next, Updates, Tick, vars
<1>3. TypeOK /\ OneInsert => InsertsFindNoRow
  <2> SUFFICES ASSUME TypeOK, OneInsert, NEW p \in Node, NEW s \in Node, Pending(p, s, "INSERT")
               PROVE  row[s][Head(stream[p][s]).key] = NoRow
    BY DEF InsertsFindNoRow
  <2>1. Carries(Change)
    BY DEF TypeOK, Carries
  <2>2. Head(stream[p][s]).key \in Key
    BY HeadFacts, ChangeFacts DEF Pending
  <2> QED
    BY <2>1, <2>2, FirstInsertIsNew DEF OneInsert
<1> QED
  BY <1>1, <1>2, <1>3, Typing, PTL DEF Spec

-----------------------------------------------------------------------------
(* Two nodes agree but for ties. *)

\* y is as far as x: it is not older, or is the deletion of the row.
Reached(x, y) == y = NoRow \/ (x # NoRow /\ x.at <= y.at)

Order == {d \in Content \X Content : Reached(d[1], d[2])}

LEMMA ReachedOrder ==
    /\ Ordering(Content, NoRow, Order)
    /\ \A x, y \in Content : <<x, y>> \in Order <=> Reached(x, y)
    /\ \A x, y \in Content : Newer(y, x) => Reached(x, y)
    /\ \A x, y \in Content : y # NoRow /\ ~Newer(y, x) => Reached(y, x)
<1>1. \A x \in Content : x # NoRow => x.at \in Int
  BY LwwAssumption DEF Content, Version, Time
<1>2. \A x, y \in Content : <<x, y>> \in Order <=> Reached(x, y)
  BY DEF Order
<1>3. /\ \A x \in Content : Reached(x, x) /\ Reached(x, NoRow)
      /\ \A x, y, z \in Content : Reached(x, y) /\ Reached(y, z) => Reached(x, z)
      /\ \A x, y \in Content : Newer(y, x) => Reached(x, y)
      /\ \A x, y \in Content : y # NoRow /\ ~Newer(y, x) => Reached(y, x)
  BY <1>1 DEF Reached, Newer
<1>4. \A d \in Order : d[1] \in Content /\ d[2] \in Content /\ d = <<d[1], d[2]>>
  BY DEF Order
<1>5. NoRow \in Content
  BY DEF Content
<1>6. Ordering(Content, NoRow, Order)
  <2> SUFFICES ASSUME NEW x \in Content, NEW y \in Content, NEW z \in Content
               PROVE  /\ <<x, x>> \in Order /\ <<x, NoRow>> \in Order
                      /\ <<x, y>> \in Order /\ <<y, z>> \in Order => <<x, z>> \in Order
    BY <1>5 DEF Ordering
  <2> QED
    BY <1>2, <1>3, <1>5
<1> QED
  BY <1>2, <1>3, <1>6

TableAgrees == Agreeing(stream, row, Key \ backdated, NoRow, Order)

\* What a step proves about stream' and row' holds in the next state.
LEMMA NextAgrees == Agreeing(stream', row', Key \ backdated', NoRow, Order) => TableAgrees'
BY DEF TableAgrees, Agreeing, Mute, InsertsFirst, Ahead, NoneLost, Due, Coming, Order, Reached

LEMMA TableContents == TypeOK => Contents(stream, row, Key, Content)
<1> SUFFICES ASSUME TypeOK, NEW p \in Node, NEW q \in Node, NEW i \in DOMAIN stream[p][q]
             PROVE  i \in Nat \ {0} /\ stream[p][q][i] \in Change
  BY ChangeFacts DEF Contents, TypeOK, Content
<1>1. stream[p][q] \in Seq(Change)
  BY DEF TypeOK
<1> QED
  BY <1>1

LEMMA InitAgrees == Init => TableAgrees
<1> SUFFICES ASSUME Init PROVE TableAgrees
  OBVIOUS
<1>1. \A m, n \in Node, k \in Key : row[m][k] = row[n][k] /\ row[m][k] \in Content
  BY LwwAssumption DEF Init, Content, Version, Time
<1>2. Agreeing(stream, row, Key, NoRow, Order)
  BY <1>1, AgreeingIfIdle, ReachedOrder DEF Init
<1> QED
  BY <1>2, AgreeingFewer DEF TableAgrees

\* A statement that does not note row k as set back stores one that is as far.
LEMMA WriteAgrees ==
    ASSUME TypeOK, TableAgrees, NEW n \in Node, NEW k \in Key, NEW op, NEW x \in Content,
           op # "INSERT", row[n][k] # NoRow, Written(n, k, op, x),
           \/ Reached(row[n][k], x) /\ backdated' = backdated
           \/ backdated' = backdated \cup {k}
    PROVE  TableAgrees'
<1> DEFINE L == Key \ backdated'
<1>1. PICK c : /\ c.op = op /\ c.key = k /\ c.new = x
               /\ Added(stream, stream', n, c) /\ Stores(row, row', n, k, x, Key)
  BY WriteAdds
<1>2. row[n][k] \in Content
  BY DEF TypeOK, Content
<1>3. k \in L => row[n][k] # NoRow /\ <<row[n][k], x>> \in Order
  BY <1>2, ReachedOrder
<1>4. L \in SUBSET Key /\ Agreeing(stream, row, L, NoRow, Order)
  <2>1. L \in SUBSET (Key \ backdated)
    OBVIOUS
  <2> HIDE DEF L
  <2>2. Agreeing(stream, row, L, NoRow, Order)
    BY <2>1, AgreeingFewer DEF TableAgrees
  <2> QED
    BY <2>1, <2>2
<1> HIDE DEF L
<1>5. Agreeing(stream', row', L, NoRow, Order)
  BY <1>1, <1>3, <1>4, TableContents, ReachedOrder, ChangeAgrees
<1> QED
  BY <1>5, NextAgrees DEF L

LEMMA NewRowAgrees ==
    ASSUME TypeOK, Fresh, TableAgrees, NEW n \in Node, NEW k \in Key, k \notin used,
           NEW x \in Version, Written(n, k, "INSERT", x), backdated' = backdated
    PROVE  TableAgrees'
<1> DEFINE L == Key \ backdated
<1>1. PICK c : /\ c.op = "INSERT" /\ c.key = k /\ c.new = x
               /\ Added(stream, stream', n, c) /\ Stores(row, row', n, k, x, Key)
  BY WriteAdds
<1>2. x \in Content /\ L \in SUBSET Key /\ Agreeing(stream, row, L, NoRow, Order)
  BY DEF Content, TableAgrees
<1> HIDE DEF L
<1>3. Agreeing(stream', row', L, NoRow, Order)
  BY <1>1, <1>2, TableContents, ReachedOrder, InsertAgrees DEF Fresh
<1> QED
  BY <1>3, NextAgrees DEF L

LEMMA AppliedAgrees ==
    ASSUME AtMostTwo, TypeOK, TableAgrees, NEW p \in Node, NEW s \in Node, Apply(p, s)
    PROVE  TableAgrees'
<1>1. PICK c \in Change, x \in Content :
         /\ Resolved(c, row[s][c.key], x)
         /\ Removed(stream, stream', p, s, c) /\ Stores(row, row', s, c.key, x, Key)
  BY ApplyRemoves
<1> DEFINE old == row[s][c.key]
<1>2. /\ c.key \in Key /\ c.new \in Content /\ old \in Content
      /\ c.op \in {"INSERT", "UPDATE", "DELETE"} /\ (c.op = "DELETE" <=> c.new = NoRow)
  BY ChangeFacts DEF TypeOK, Content
<1> HIDE DEF old
<1>3. Merges(c, old, x, NoRow, Order)
  <2>1. \A y \in Content : <<y, y>> \in Order /\ <<y, NoRow>> \in Order
    BY ReachedOrder DEF Ordering
  <2>2. CASE c.op = "INSERT"
    BY <1>1, <1>2, <2>1, <2>2 DEF Resolved, Merges, old
  <2>3. CASE c.op = "UPDATE"
    <3>1. x = IF Newer(c.new, old) THEN c.new ELSE old
      BY <1>1, <2>3 DEF Resolved, old
    <3>2. <<c.new, x>> \in Order /\ <<old, x>> \in Order
      BY <1>2, <2>1, <2>3, <3>1, ReachedOrder
    <3> QED
      BY <2>3, <3>1, <3>2 DEF Merges
  <2>4. CASE c.op = "DELETE"
    BY <1>1, <1>2, <2>1, <2>4 DEF Resolved, Merges
  <2> QED
    BY <1>2, <2>2, <2>3, <2>4
<1> DEFINE L == Key \ backdated
<1>4. L \in SUBSET Key /\ Agreeing(stream, row, L, NoRow, Order) /\ backdated' = backdated
  BY ApplyRemoves DEF TableAgrees
<1> HIDE DEF L
<1>5. Agreeing(stream', row', L, NoRow, Order)
  BY <1>1, <1>3, <1>4, TableContents, ReachedOrder, ApplyAgrees DEF old
<1> QED
  BY <1>4, <1>5, NextAgrees DEF L

\* Two versions that are as far as each other tie.
LEMMA MutuallyReached ==
    ASSUME TypeOK, NEW m \in Node, NEW n \in Node, NEW k \in Key,
           <<row[m][k], row[n][k]>> \in Order, <<row[n][k], row[m][k]>> \in Order
    PROVE  SameButForTies(m, n, k)
<1>1. row[m][k] \in Content /\ row[n][k] \in Content
  BY DEF TypeOK, Content
<1>2. Reached(row[m][k], row[n][k]) /\ Reached(row[n][k], row[m][k])
  BY <1>1, ReachedOrder
<1>3. \A o \in Node : row[o][k] # NoRow => row[o][k].at \in Int
  BY LwwAssumption DEF TypeOK, Version, Time
<1> QED
  BY <1>2, <1>3 DEF Reached, SameButForTies

\* At most two nodes disagree only about writes of the same time and rows that a
\* statement has set back, when nothing is on its way, whatever was inserted, updated
\* and deleted where and in which order (OnlyTiesDiverge).  With three it fails, as an
\* UPDATE may overtake its INSERT.
THEOREM TwoNodesAgree ==
    ASSUME AtMostTwo
    PROVE  Spec => []OnlyTiesDiverge
<1>1. TypeOK /\ Fresh /\ TableAgrees /\ [Next]_vars => TableAgrees'
  <2> SUFFICES ASSUME TypeOK, Fresh, TableAgrees, [Next]_vars PROVE TableAgrees'
    OBVIOUS
  <2>1. CASE UNCHANGED <<row, stream, backdated>>
    <3>1. Agreeing(stream', row', Key \ backdated', NoRow, Order)
      BY <2>1 DEF TableAgrees
    <3> QED
      BY <3>1, NextAgrees
  <2>2. ASSUME NEW n \in Node, NEW k \in Key, NEW v \in Value, NEW t \in 0..now,
               LocalInsert(n, k, v, t)
        PROVE  TableAgrees'
    <3>1. k \notin used
      BY <2>2 DEF LocalInsert
    <3> QED
      BY <2>2, <3>1, InsertEffect, NewRowAgrees
  <2>3. ASSUME NEW n \in Node, NEW k \in Key, Updates(n, k)
        PROVE  TableAgrees'
    <3>1. row[n][k] # NoRow /\ row[n][k] \in Content
      BY <2>3, UpdateKeeps DEF TypeOK, Content
    <3>2. CASE UNCHANGED <<row, stream, backdated>>
      BY <2>1, <3>2
    <3>3. ASSUME NEW x \in Version, Written(n, k, "UPDATE", x),
                 \/ x.at >= row[n][k].at /\ backdated' = backdated
                 \/ backdated' = backdated \cup {k}
          PROVE  TableAgrees'
      <4>1. x \in Content /\ (x.at >= row[n][k].at => Reached(row[n][k], x))
        <5>1. x.at \in Int /\ row[n][k].at \in Int
          BY <3>1, LwwAssumption DEF Content, Version, Time
        <5> QED
          BY <3>1, <5>1 DEF Content, Reached
      <4> QED
        BY <3>1, <3>3, <4>1, WriteAgrees
    <3> QED
      BY <2>3, <3>2, <3>3, UpdateEffect
  <2>4. ASSUME NEW n \in Node, NEW k \in Key, LocalDelete(n, k)
        PROVE  TableAgrees'
    <3>1. row[n][k] # NoRow /\ NoRow \in Content /\ Reached(row[n][k], NoRow)
      BY <2>4 DEF LocalDelete, Content, Reached
    <3> QED
      BY <2>4, <3>1, DeleteEffect, WriteAgrees
  <2> QED
    BY <2>1, <2>2, <2>3, <2>4, AppliedAgrees DEF Next, Updates, Tick, vars
<1>2. TypeOK /\ TableAgrees => OnlyTiesDiverge
  <2> SUFFICES ASSUME TypeOK, TableAgrees, Drained, NEW m \in Node, NEW n \in Node,
                      NEW k \in Key \ backdated, m # n
               PROVE  SameButForTies(m, n, k)
    BY DEF OnlyTiesDiverge, SameButForTies
  <2> DEFINE L == Key \ backdated
  <2>1. Agreeing(Idle, row, L, NoRow, Order) /\ k \in L
    BY DEF Drained, TableAgrees
  <2> HIDE DEF L
  <2>2. <<row[m][k], row[n][k]>> \in Order /\ <<row[n][k], row[m][k]>> \in Order
    BY <2>1, AgreeingWhenIdle
  <2> QED
    BY <2>2, MutuallyReached
<1> QED
  BY <1>1, <1>2, InitFresh, NextFresh, InitAgrees, Typing, PTL DEF Spec
-----------------------------------------------------------------------------
(* Any number of nodes: the rows that every node has from the start, and tables *)
(* that only grow.                                                            *)

\* No INSERT of a row in Seeded is published.
NoSeedInserts == {d \in {"INSERT", "UPDATE", "DELETE"} \X Key : d[1] = "INSERT" => d[2] \notin Seeded}

\* The seeded rows that no statement has set back.
Steady == Seeded \ backdated

SeededCovered == Seeded \subseteq used /\ Settled(stream, row, Steady, NoSeedInserts, Order)

LEMMA OrderIsPreorder == Preorder(Content, Order)
BY ReachedOrder DEF Ordering, Preorder

\* What a step proves about stream' and row' holds in the next state.
LEMMA NextSeeded ==
    Seeded \subseteq used' /\ Settled(stream', row', Steady', NoSeedInserts, Order) => SeededCovered'
BY DEF Steady, SeededCovered, Settled, Sends, NoSeedInserts, AllCovered, Covered, Coming, Order, Reached,
       Content, Version, Time

LEMMA InitSeeded == Init => SeededCovered
<1> SUFFICES ASSUME Init PROVE SeededCovered
  OBVIOUS
<1>1. \A m, n \in Node, k \in Seeded : row[m][k] = row[n][k] /\ row[m][k] \in Content
  BY LwwAssumption DEF Init, Content, Version, Time
<1>2. \A m, n \in Node, k \in Steady : row[m][k] = row[n][k] /\ row[m][k] \in Content
  BY <1>1 DEF Steady
<1>3. Settled(Idle, row, Steady, NoSeedInserts, Order)
  BY <1>2, SettledIfIdle, OrderIsPreorder
<1> QED
  BY <1>3 DEF Init, SeededCovered

LEMMA WriteSeeded ==
    ASSUME TypeOK, SeededCovered, NEW n \in Node, NEW k \in Key, NEW op \in {"INSERT", "UPDATE", "DELETE"},
           NEW x \in Content, Written(n, k, op, x), used \subseteq used',
           k \in Seeded => op # "INSERT",
           \/ (k \in Seeded => Reached(row[n][k], x)) /\ backdated' = backdated
           \/ backdated' = backdated \cup {k}
    PROVE  SeededCovered'
<1>1. PICK c : /\ c.op = op /\ c.key = k /\ c.new = x
               /\ Added(stream, stream', n, c) /\ Stores(row, row', n, k, x, Key)
  BY WriteAdds
<1>2. <<c.op, k>> \in NoSeedInserts
  BY <1>1 DEF NoSeedInserts
<1> DEFINE L == Steady'
<1>3. k \in L => <<row[n][k], x>> \in Order
  <2>1. row[n][k] \in Content
    BY DEF TypeOK, Content
  <2> QED
    BY <2>1, ReachedOrder DEF Steady
<1>4. /\ L \in SUBSET Key /\ Contents(stream, row, Key, Content)
      /\ Settled(stream, row, L, NoSeedInserts, Order)
  BY LwwAssumption, TableContents DEF Steady, SeededCovered, Settled
<1> HIDE DEF L
<1>5. Settled(stream', row', L, NoSeedInserts, Order)
  BY <1>1, <1>2, <1>3, <1>4, OrderIsPreorder, WriteSettles
<1> QED
  BY <1>5, NextSeeded DEF SeededCovered, L

LEMMA ApplySeeded ==
    ASSUME TypeOK, SeededCovered, NEW p \in Node, NEW s \in Node, Apply(p, s)
    PROVE  SeededCovered'
<1>1. PICK c \in Change, x \in Content :
         /\ Resolved(c, row[s][c.key], x)
         /\ Removed(stream, stream', p, s, c) /\ Stores(row, row', s, c.key, x, Key)
  BY ApplyRemoves
<1>2. /\ c.new \in Content /\ row[s][c.key] \in Content
      /\ c.op = "DELETE" <=> c.new = NoRow
  BY ChangeFacts DEF TypeOK, Content
<1>3. \A y \in Content : <<y, y>> \in Order /\ <<y, NoRow>> \in Order
  BY ReachedOrder DEF Ordering
<1>4. <<c.op, c.key>> \in NoSeedInserts /\ c.key \in Seeded =>
         /\ x \in {row[s][c.key], c.new}
         /\ <<row[s][c.key], x>> \in Order /\ <<c.new, x>> \in Order
  BY <1>1, <1>2, <1>3, ReachedOrder DEF Resolved, NoSeedInserts
<1>5. /\ Steady \in SUBSET Key /\ Contents(stream, row, Key, Content)
      /\ \A k \in Steady : k \in Seeded
  BY LwwAssumption, TableContents DEF Steady
<1>6. Settled(stream', row', Steady, NoSeedInserts, Order)
  BY <1>1, <1>4, <1>5, OrderIsPreorder, JoinSettles DEF SeededCovered
<1>7. Steady' = Steady
  BY ApplyRemoves DEF Steady
<1> QED
  BY <1>6, <1>7, ApplyRemoves, NextSeeded DEF SeededCovered

LEMMA SeededInvariance == Spec => []SeededCovered
<1>1. TypeOK /\ SeededCovered /\ [Next]_vars => SeededCovered'
  <2> SUFFICES ASSUME TypeOK, SeededCovered, [Next]_vars PROVE SeededCovered'
    OBVIOUS
  <2>1. CASE UNCHANGED <<row, stream, used, backdated>>
    BY <2>1, NextSeeded DEF SeededCovered, Steady
  <2>2. ASSUME NEW n \in Node, NEW k \in Key, NEW v \in Value, NEW t \in 0..now,
               LocalInsert(n, k, v, t)
        PROVE  SeededCovered'
    <3>1. k \notin Seeded /\ used \subseteq used'
      BY <2>2 DEF LocalInsert, SeededCovered
    <3>2. PICK x \in Version : Written(n, k, "INSERT", x)
      BY <2>2, InsertEffect
    <3>3. backdated' = backdated /\ x \in Content
      BY <2>2, InsertEffect DEF Content
    <3> QED
      BY <3>1, <3>2, <3>3, WriteSeeded
  <2>3. ASSUME NEW n \in Node, NEW k \in Key, Updates(n, k)
        PROVE  SeededCovered'
    <3>1. row[n][k] # NoRow /\ row[n][k] \in Content /\ used' = used
      BY <2>3, UpdateKeeps DEF TypeOK, Content
    <3>2. CASE UNCHANGED <<row, stream, backdated>>
      BY <2>1, <3>1, <3>2
    <3>3. ASSUME NEW x \in Version, Written(n, k, "UPDATE", x),
                 \/ x.at >= row[n][k].at /\ backdated' = backdated
                 \/ backdated' = backdated \cup {k}
          PROVE  SeededCovered'
      <4>1. x \in Content /\ (x.at >= row[n][k].at => Reached(row[n][k], x))
        <5>1. x.at \in Int /\ row[n][k].at \in Int
          BY <3>1, LwwAssumption DEF Content, Version, Time
        <5> QED
          BY <3>1, <5>1 DEF Content, Reached
      <4> QED
        BY <3>1, <3>3, <4>1, WriteSeeded
    <3> QED
      BY <2>3, <3>2, <3>3, UpdateEffect
  <2>4. ASSUME NEW n \in Node, NEW k \in Key, LocalDelete(n, k)
        PROVE  SeededCovered'
    <3>1. NoRow \in Content /\ Reached(row[n][k], NoRow) /\ used' = used
      BY <2>4 DEF LocalDelete, Content, Reached
    <3> QED
      BY <2>4, <3>1, DeleteEffect, WriteSeeded
  <2> QED
    BY <2>1, <2>2, <2>3, <2>4, ApplySeeded DEF Next, Updates, Tick, vars
<1> QED
  BY <1>1, InitSeeded, Typing, PTL DEF Spec

\* Any number of nodes agree, but for ties and rows that a statement has set back,
\* about the rows they all started with, whatever they insert beside them and wherever
\* those rows are updated and deleted: only a change that overtakes the INSERT of its
\* row can make them diverge besides.
THEOREM SeededRowsAgree ==
    Spec => [](Drained => \A m, n \in Node, k \in Seeded \ backdated : SameButForTies(m, n, k))
<1> DEFINE Same == Drained => \A m, n \in Node, k \in Seeded \ backdated : SameButForTies(m, n, k)
<1>1. TypeOK /\ SeededCovered => Same
  <2> SUFFICES ASSUME TypeOK, SeededCovered, Drained, NEW m \in Node, NEW n \in Node,
                      NEW k \in Seeded \ backdated
               PROVE  SameButForTies(m, n, k)
    OBVIOUS
  <2>1. Settled(Idle, row, Steady, NoSeedInserts, Order) /\ k \in Key /\ k \in Steady
    BY LwwAssumption DEF Drained, SeededCovered, Steady
  <2> QED
    BY <2>1, SettledWhenIdle, MutuallyReached
<1> HIDE DEF Same
<1>2. Spec => []Same
  BY <1>1, SeededInvariance, Typing, PTL
<1> QED
  BY <1>2 DEF Same

\* If the application never inserts, any number of nodes disagree only about writes
\* of the same time and rows that a statement has set back, once nothing is on its way
\* (OnlyTiesDiverge).
THEOREM UpdatesAgree ==
    ASSUME "INSERT" \notin Statements
    PROVE  Spec => []OnlyTiesDiverge
<1> DEFINE Same == Drained => \A m, n \in Node, k \in Seeded \ backdated : SameButForTies(m, n, k)
<1>1. Init => used = Seeded
  BY DEF Init
<1>2. used = Seeded /\ [Next]_vars => (used = Seeded)'
  <2> SUFFICES ASSUME [Next]_vars PROVE used' = used
    OBVIOUS
  <2>1. ASSUME NEW n \in Node, NEW k \in Key, NEW v \in Value, NEW t \in 0..now,
               LocalInsert(n, k, v, t)
        PROVE  FALSE
    BY <2>1 DEF LocalInsert, Statement
  <2> QED
    BY <2>1 DEF Next, Tick, LocalUpdate, LocalTouch, LocalDelete, Apply, ApplyInsert, ApplyUpdate,
                ApplyDelete, vars
<1>3. used = Seeded /\ Fresh /\ Same => OnlyTiesDiverge
  <2> SUFFICES ASSUME used = Seeded, Fresh, Same, Drained, NEW m \in Node, NEW n \in Node, NEW k \in Key \ backdated
               PROVE  SameButForTies(m, n, k)
    BY DEF OnlyTiesDiverge, SameButForTies
  <2>1. CASE k \in Seeded
    BY <2>1
  <2>2. CASE k \notin Seeded
    BY <2>2 DEF Fresh, Unknown, SameButForTies
  <2> QED
    BY <2>1, <2>2
<1>4. Spec => []Same
  BY SeededRowsAgree
<1> HIDE DEF Same
<1> QED
  BY <1>1, <1>2, <1>3, <1>4, InitFresh, NextFresh, Typing, PTL DEF Spec
-----------------------------------------------------------------------------
(* A table that only grows. *)

OnlyInserts == {"INSERT"} \X Key

GrowthCovered == Settled(stream, row, Key, OnlyInserts, Grown(Content, NoRow))

\* What a step proves about stream' and row' holds in the next state.
LEMMA NextGrowth == Settled(stream', row', Key, OnlyInserts, Grown(Content, NoRow)) => GrowthCovered'
BY DEF GrowthCovered, Settled, Sends, OnlyInserts, AllCovered, Covered, Coming, Grown, Content,
       Version, Time

\* In a table that is only inserted into any number of nodes have the same rows once
\* nothing is on its way (Convergence, which implies OnlyTiesDiverge): a row is the
\* same wherever its INSERT has arrived, and no INSERT is lost.
THEOREM InsertsConverge ==
    ASSUME Statements \subseteq {"INSERT"}
    PROVE  Spec => []Convergence
<1> DEFINE R == Grown(Content, NoRow)
<1>0. /\ Preorder(Content, R) /\ NoRow \in Content
      /\ \A x, y \in Content : <<x, y>> \in R <=> (x = NoRow \/ x = y)
  BY GrownOrder DEF Content
<1>1. Init => GrowthCovered
  <2> SUFFICES ASSUME Init PROVE GrowthCovered
    OBVIOUS
  <2>1. \A m, n \in Node, k \in Key : row[m][k] = row[n][k] /\ row[m][k] \in Content
    BY LwwAssumption DEF Init, Content, Version, Time
  <2>2. Settled(Idle, row, Key, OnlyInserts, R)
    BY <1>0, <2>1, SettledIfIdle
  <2> QED
    BY <2>2 DEF Init, GrowthCovered
<1>2. TypeOK /\ Fresh /\ GrowthCovered /\ [Next]_vars => GrowthCovered'
  <2> SUFFICES ASSUME TypeOK, Fresh, GrowthCovered, [Next]_vars PROVE GrowthCovered'
    OBVIOUS
  <2> HIDE DEF R
  <2>0. Settled(stream, row, Key, OnlyInserts, R) /\ Contents(stream, row, Key, Content)
    BY TableContents DEF GrowthCovered, R
  <2>1. CASE UNCHANGED <<row, stream>>
    BY <2>1, NextGrowth DEF GrowthCovered
  <2>2. ASSUME NEW n \in Node, NEW k \in Key, NEW v \in Value, NEW t \in 0..now,
               LocalInsert(n, k, v, t)
        PROVE  GrowthCovered'
    <3>1. PICK x \in Version : Written(n, k, "INSERT", x)
      BY <2>2, InsertEffect
    <3>2. PICK c : /\ c.op = "INSERT" /\ c.key = k /\ c.new = x
                   /\ Added(stream, stream', n, c) /\ Stores(row, row', n, k, x, Key)
      BY <3>1, WriteAdds
    <3>3. row[n][k] = NoRow /\ x \in Content
      BY <2>2 DEF LocalInsert, Fresh, Unknown, Content
    <3>4. <<row[n][k], x>> \in R /\ <<c.op, k>> \in OnlyInserts
      BY <1>0, <3>2, <3>3 DEF OnlyInserts
    <3>5. Settled(stream', row', Key, OnlyInserts, R)
      BY <1>0, <2>0, <3>2, <3>3, <3>4, WriteSettles
    <3> QED
      BY <3>5, NextGrowth DEF R
  <2>3. ASSUME NEW p \in Node, NEW s \in Node, Apply(p, s)
        PROVE  GrowthCovered'
    <3>1. PICK c \in Change, x \in Content :
             /\ Resolved(c, row[s][c.key], x)
             /\ Removed(stream, stream', p, s, c) /\ Stores(row, row', s, c.key, x, Key)
      BY ApplyRemoves, <2>3
    <3>2. <<c.op, c.key>> \in OnlyInserts =>
             /\ x \in {row[s][c.key], c.new}
             /\ <<row[s][c.key], x>> \in R /\ <<c.new, x>> \in R
      BY <1>0, <3>1 DEF Resolved, OnlyInserts
    <3>3. Settled(stream', row', Key, OnlyInserts, R)
      BY <1>0, <2>0, <3>1, <3>2, JoinSettles
    <3> QED
      BY <3>3, NextGrowth DEF R
  <2>4. ASSUME NEW n \in Node, NEW k \in Key, Updates(n, k)
        PROVE  FALSE
    BY <2>4, UpdateKeeps
  <2>5. ASSUME NEW n \in Node, NEW k \in Key, LocalDelete(n, k)
        PROVE  FALSE
    BY <2>5 DEF LocalDelete, Statement
  <2> QED
    BY <2>1, <2>2, <2>3, <2>4, <2>5 DEF Next, Updates, Tick, vars
<1>3. TypeOK /\ GrowthCovered => Convergence
  <2> SUFFICES ASSUME TypeOK, GrowthCovered, Drained, NEW m \in Node, NEW n \in Node
               PROVE  row[m] = row[n]
    BY DEF Convergence
  <2>1. ASSUME NEW k \in Key PROVE row[m][k] = row[n][k]
    <3>1. Settled(Idle, row, Key, OnlyInserts, R)
      BY DEF Drained, GrowthCovered
    <3>2. <<row[m][k], row[n][k]>> \in R /\ <<row[n][k], row[m][k]>> \in R
      BY <3>1, SettledWhenIdle
    <3>3. row[m][k] \in Content /\ row[n][k] \in Content
      BY DEF TypeOK, Content
    <3> HIDE DEF R
    <3> QED
      BY <1>0, <3>2, <3>3
  <2> QED
    BY <2>1 DEF TypeOK
<1> QED
  BY <1>1, <1>2, <1>3, InitFresh, NextFresh, Typing, PTL DEF Spec
=============================================================================
