---------------------------- MODULE SetupProofs ----------------------------
(***************************************************************************)
(* Proofs about ReplicationSetup, for every set of nodes, every number of  *)
(* runs that overlap in any way, and any number of faults; and about what  *)
(* the verdicts of HealthCheck say of the mesh beside them.                *)
(***************************************************************************)
EXTENDS HealthCheck, FiniteSetTheorems, TLAPS

N == Cardinality(Node)

LEMMA Count == N \in Nat \ {0} /\ Len(NodeOrder) = N /\ NodeOrder \in Seq(Node)
  BY OrderAssumption, FS_CardinalityType, FS_EmptySet DEF N

-----------------------------------------------------------------------------
(* Arithmetic of the nested loops. *)

LEMMA QuotientBelow ==
  ASSUME NEW K \in Nat, NEW M \in Nat \ {0}, NEW i \in 0..(K * M - 1)
  PROVE  i \div M \in 0..(K - 1) /\ i % M \in 0..(M - 1)
  <1> DEFINE q == i \div M
  <1>1. /\ M \in Int /\ M > 0 /\ i \in Int /\ 0 <= i /\ i < K * M
        /\ q \in Int /\ i % M \in 0..(M - 1)
    <2>1. K * M \in Nat
      OBVIOUS
    <2> QED
      BY <2>1
  <1>2. M * q <= i /\ i < M * q + M
    BY <1>1
  <1>3. ~(q < 0)
    <2>1. SUFFICES ASSUME q < 0 PROVE FALSE
      OBVIOUS
    <2>2. M * (-1 - q) >= 0 /\ M * (-1 - q) = -M - M * q
      BY <1>1, <2>1
    <2> QED
      BY <1>1, <1>2, <2>2
  <1>4. ~(K <= q)
    <2>1. SUFFICES ASSUME K <= q PROVE FALSE
      OBVIOUS
    <2>2. M * (q - K) >= 0 /\ M * (q - K) = M * q - K * M
      BY <1>1, <2>1
    <2> QED
      BY <1>1, <1>2, <2>2
  <1> QED
    BY <1>1, <1>3, <1>4

LEMMA LoopIndex ==
  ASSUME NEW K \in Nat, NEW M \in Nat \ {0}, NEW a \in 0..(K - 1), NEW b \in 0..(M - 1)
  PROVE  /\ a * M + b \in 0..(K * M - 1)
         /\ (a * M + b) \div M = a
         /\ (a * M + b) % M = b
  <1>1. M \in Int /\ M > 0 /\ a \in Int /\ a * M + b \in Int /\ a * M >= 0
    OBVIOUS
  <1>2. a * M + b < K * M
    <2>1. (K - 1 - a) * M >= 0 /\ (K - 1 - a) * M = K * M - M - a * M
      OBVIOUS
    <2> QED
      BY <1>1, <2>1
  <1>3. (a * M + b) \div M = a /\ (a * M + b) % M = b
    BY <1>1
  <1> QED
    BY <1>1, <1>2, <1>3

-----------------------------------------------------------------------------
(* The tasks of a command. *)

\* The calls that some run has made, or need not make.
Had ==
    {c \in Call :
        \/ c.what = "name" /\ c.pub \in named
        \/ c.what = "schema" /\ c.pub \in tables
        \/ c.what = "publication" /\ c.pub \in pubs
        \/ c.what = "slot" /\ Edge(c) \in slots
        \/ c.what = "subscription" /\ Edge(c) \in subs}

\* Calls as the commands make them, and those that must not come before another.
Proper == {c \in Call : c.what \in {"slot", "subscription"} => Edge(c) \in Pair}
Late == {c \in Proper : c.what \in {"schema", "subscription"}}
Prerequisite(c) == [c EXCEPT !.what = IF c.what = "schema" THEN "name" ELSE "slot"]

\* If the calls of had are made, each late call of the task comes after its
\* prerequisite.
Prepared(task, had) ==
    \A j \in DOMAIN task : task[j] \in Late =>
        Prerequisite(task[j]) \in had \/ \E k \in 1..(j - 1) : task[k] = Prerequisite(task[j])

\* Tasks a run may still have before it.
Feasible(tasks, had) ==
    /\ tasks \in Seq(Seq(Proper))
    /\ \A i \in DOMAIN tasks : tasks[i] # << >> /\ Prepared(tasks[i], had)

Comes(c, tasks) == \E i \in DOMAIN tasks : \E j \in DOMAIN tasks[i] : tasks[i][j] = c

\* The calls that Done(cmd) asks for.
Goal(cmd) ==
    LET ns == IF cmd.node = All THEN Node ELSE {cmd.node}
    IN  IF cmd.verb = "apply-schema"
        THEN {At(w, n, n) : w \in {"name", "schema"}, n \in ns}
        ELSE {At("publication", n, n) : n \in ns}
               \cup {At(w, q[1], q[2]) : w \in {"slot", "subscription"}, q \in Edges(cmd)}

LEMMA OthersAre ==
  ASSUME NEW n \in Node
  PROVE  /\ Others(n) \in [1..(N - 1) -> Node \ {n}] /\ Len(Others(n)) = N - 1
         /\ \A m \in Node \ {n} : \E i \in 1..(N - 1) : Others(n)[i] = m
  <1>1. Others(n) \in [1..(N - 1) -> Node \ {n}]
    <2>1. ASSUME NEW i \in 1..(N - 1)
          PROVE  NodeOrder[IF \E j \in 1..i : NodeOrder[j] = n THEN i + 1 ELSE i] \in Node \ {n}
      <3>1. i \in 1..N /\ i + 1 \in 1..N /\ \A j \in 1..N : NodeOrder[j] \in Node
        BY Count
      <3>2. CASE \E j \in 1..i : NodeOrder[j] = n
        <4>1. PICK j \in 1..i : NodeOrder[j] = n
          BY <3>2
        <4>2. j \in 1..N /\ j # i + 1
          BY Count
        <4>3. NodeOrder[i + 1] # n
          BY <3>1, <4>1, <4>2, OrderAssumption DEF N
        <4> QED
          BY <3>1, <3>2, <4>3
      <3>3. CASE ~\E j \in 1..i : NodeOrder[j] = n
        BY <3>1, <3>3
      <3> QED
        BY <3>2, <3>3
    <2> QED
      BY <2>1, Count DEF Others
  <1>2. ASSUME NEW m \in Node \ {n} PROVE \E i \in 1..(N - 1) : Others(n)[i] = m
    <2>1. PICK k \in 1..N, l \in 1..N : NodeOrder[k] = m /\ NodeOrder[l] = n
      BY Count, OrderAssumption DEF N
    <2>2. \A j \in 1..N : NodeOrder[j] = n <=> j = l
      BY <2>1, OrderAssumption DEF N
    <2>3. k # l
      BY <2>1
    <2>4. CASE k < l
      <3>1. k \in 1..(N - 1) /\ ~\E j \in 1..k : NodeOrder[j] = n
        BY Count, <2>1, <2>2, <2>4
      <3>2. Others(n)[k] = m
        BY Count, <2>1, <3>1 DEF Others
      <3> QED
        BY <3>1, <3>2
    <2>5. CASE l < k
      <3>1. k - 1 \in 1..(N - 1) /\ l \in 1..(k - 1)
        BY Count, <2>1, <2>5
      <3>2. Others(n)[k - 1] = m
        BY Count, <2>1, <3>1 DEF Others
      <3> QED
        BY <3>1, <3>2
    <2> QED
      BY Count, <2>1, <2>3, <2>4, <2>5
  <1> QED
    BY <1>1, <1>2, Count

LEMMA TasksOfOneNode ==
  ASSUME NEW n \in Node, NEW had
  PROVE  /\ SchemaTask(n) \in Seq(Proper) \ {<< >>} /\ Prepared(SchemaTask(n), had)
         /\ PublicationTask(n) \in Seq(Proper) \ {<< >>} /\ Prepared(PublicationTask(n), had)
  BY DEF SchemaTask, PublicationTask, Prepared, Prerequisite, Late, Proper, Edge, Pair, At, Call

LEMMA TasksOfAPair ==
  ASSUME NEW m \in Node, NEW n \in Node \ {m}, NEW had
  PROVE  SubscriptionTask(m, n) \in Seq(Proper) \ {<< >>} /\ Prepared(SubscriptionTask(m, n), had)
  BY DEF SubscriptionTask, Prepared, Prerequisite, Late, Proper, Edge, Pair, At, Call

LEMMA FeasibleConcat ==
  ASSUME NEW had, NEW ss, NEW ts, Feasible(ss, had), Feasible(ts, had)
  PROVE  /\ Feasible(ss \o ts, had)
         /\ \A c : Comes(c, ss) \/ Comes(c, ts) => Comes(c, ss \o ts)
  <1>1. /\ ss \in Seq(Seq(Proper)) /\ ts \in Seq(Seq(Proper)) /\ ss \o ts \in Seq(Seq(Proper))
        /\ Len(ss \o ts) = Len(ss) + Len(ts)
        /\ \A i \in 1..Len(ss) : (ss \o ts)[i] = ss[i]
        /\ \A i \in 1..Len(ts) : (ss \o ts)[Len(ss) + i] = ts[i]
        /\ \A i \in (Len(ss) + 1)..(Len(ss) + Len(ts)) : (ss \o ts)[i] = ts[i - Len(ss)]
    BY DEF Feasible
  <1>2. ASSUME NEW i \in DOMAIN (ss \o ts)
        PROVE  (ss \o ts)[i] # << >> /\ Prepared((ss \o ts)[i], had)
    <2>1. CASE i <= Len(ss)
      BY <1>1, <2>1 DEF Feasible
    <2>2. CASE i > Len(ss)
      <3>1. i - Len(ss) \in 1..Len(ts) /\ (ss \o ts)[i] = ts[i - Len(ss)]
        BY <1>1, <2>2
      <3> QED
        BY <1>1, <3>1 DEF Feasible
    <2> QED
      BY <1>1, <2>1, <2>2
  <1>3. ASSUME NEW c, Comes(c, ss) PROVE Comes(c, ss \o ts)
    <2>1. PICK i \in DOMAIN ss : \E j \in DOMAIN ss[i] : ss[i][j] = c
      BY <1>3 DEF Comes
    <2>2. i \in DOMAIN (ss \o ts) /\ (ss \o ts)[i] = ss[i]
      BY <1>1
    <2> QED
      BY <2>1, <2>2 DEF Comes
  <1>4. ASSUME NEW c, Comes(c, ts) PROVE Comes(c, ss \o ts)
    <2>1. PICK i \in DOMAIN ts : \E j \in DOMAIN ts[i] : ts[i][j] = c
      BY <1>4 DEF Comes
    <2>2. Len(ss) + i \in DOMAIN (ss \o ts) /\ (ss \o ts)[Len(ss) + i] = ts[i]
      BY <1>1
    <2> QED
      BY <2>1, <2>2 DEF Comes
  <1> QED
    BY <1>1, <1>2, <1>3, <1>4 DEF Feasible

LEMMA FeasibleList ==
  ASSUME NEW had, NEW len \in Nat, NEW ts, DOMAIN ts = 1..len, ts = [i \in 1..len |-> ts[i]],
         \A i \in 1..len : ts[i] \in Seq(Proper) \ {<< >>} /\ Prepared(ts[i], had)
  PROVE  Feasible(ts, had)
  BY DEF Feasible

LEMMA PublicationTasks ==
  ASSUME NEW had
  PROVE
  /\ Feasible(Each(PublicationTask, NodeOrder), had)
  /\ \A n \in Node : Comes(At("publication", n, n), Each(PublicationTask, NodeOrder))
  <1> DEFINE ts == Each(PublicationTask, NodeOrder)
  <1>1. ts = [i \in 1..N |-> PublicationTask(NodeOrder[i])]
    BY Count, OrderAssumption DEF Each, N
  <1>2. \A i \in 1..N : NodeOrder[i] \in Node
    BY Count
  <1>3. Feasible(ts, had)
    <2>1. \A i \in 1..N : ts[i] \in Seq(Proper) \ {<< >>} /\ Prepared(ts[i], had)
      BY <1>1, <1>2, TasksOfOneNode
    <2> QED
      BY <1>1, <2>1, Count, FeasibleList
  <1>4. ASSUME NEW n \in Node PROVE Comes(At("publication", n, n), ts)
    <2>1. PICK i \in 1..N : NodeOrder[i] = n
      BY OrderAssumption DEF N
    <2>2. i \in DOMAIN ts /\ ts[i] = <<At("publication", n, n)>>
      BY <1>1, <2>1 DEF PublicationTask
    <2>3. 1 \in DOMAIN ts[i] /\ ts[i][1] = At("publication", n, n)
      BY <2>2
    <2> QED
      BY <2>2, <2>3 DEF Comes
  <1> QED
    BY <1>3, <1>4

LEMMA SchemaTasks ==
  ASSUME NEW had, NEW ns \in Seq(Node)
  PROVE  /\ Feasible(Each(SchemaTask, ns), had)
         /\ \A i \in 1..Len(ns) : \A w \in {"name", "schema"} :
               Comes(At(w, ns[i], ns[i]), Each(SchemaTask, ns))
  <1> DEFINE ts == Each(SchemaTask, ns)
  <1>1. ts = [i \in 1..Len(ns) |-> SchemaTask(ns[i])]
    BY DEF Each
  <1>2. \A i \in 1..Len(ns) : ns[i] \in Node
    OBVIOUS
  <1>3. Feasible(ts, had)
    <2>1. \A i \in 1..Len(ns) : ts[i] \in Seq(Proper) \ {<< >>} /\ Prepared(ts[i], had)
      BY <1>1, <1>2, TasksOfOneNode
    <2>2. Len(ns) \in Nat /\ DOMAIN ts = 1..Len(ns) /\ ts = [i \in 1..Len(ns) |-> ts[i]]
      BY <1>1
    <2> HIDE DEF ts
    <2> QED
      BY <2>1, <2>2, FeasibleList
  <1>4. ASSUME NEW i \in 1..Len(ns), NEW w \in {"name", "schema"}
        PROVE  Comes(At(w, ns[i], ns[i]), ts)
    <2>1. i \in DOMAIN ts /\ ts[i] = <<At("name", ns[i], ns[i]), At("schema", ns[i], ns[i])>>
      BY <1>1 DEF SchemaTask
    <2>2. PICK j \in {1, 2} : w = IF j = 1 THEN "name" ELSE "schema"
      OBVIOUS
    <2>3. j \in DOMAIN ts[i] /\ ts[i][j] = At(w, ns[i], ns[i])
      BY <2>1, <2>2
    <2> QED
      BY <2>1, <2>3 DEF Comes
  <1> QED
    BY <1>3, <1>4

\* A list of subscription tasks, whatever the order.
LEMMA SubscriptionTasks ==
  ASSUME NEW len \in Nat, NEW from \in [1..len -> Node], NEW to \in [1..len -> Node],
         \A i \in 1..len : from[i] # to[i], NEW had,
         NEW ts, ts = [i \in 1..len |-> SubscriptionTask(from[i], to[i])]
  PROVE  /\ Feasible(ts, had)
         /\ \A i \in 1..len : \A w \in {"slot", "subscription"} : Comes(At(w, from[i], to[i]), ts)
  <1>1. Feasible(ts, had)
    <2>1. \A i \in 1..len : from[i] \in Node /\ to[i] \in Node \ {from[i]}
      OBVIOUS
    <2> QED
      BY <2>1, TasksOfAPair, FeasibleList
  <1>2. ASSUME NEW i \in 1..len, NEW w \in {"slot", "subscription"}
        PROVE  Comes(At(w, from[i], to[i]), ts)
    <2>1. i \in DOMAIN ts /\ ts[i] = <<At("slot", from[i], to[i]), At("subscription", from[i], to[i])>>
      BY DEF SubscriptionTask
    <2>2. PICK j \in {1, 2} : w = IF j = 1 THEN "slot" ELSE "subscription"
      OBVIOUS
    <2>3. j \in DOMAIN ts[i] /\ ts[i][j] = At(w, from[i], to[i])
      BY <2>1, <2>2
    <2> QED
      BY <2>1, <2>3 DEF Comes
  <1> QED
    BY <1>1, <1>2

LEMMA AllSubscriptionsAre ==
  ASSUME NEW had
  PROVE
  /\ Feasible(AllSubscriptions, had)
  /\ \A q \in Pair : \A w \in {"slot", "subscription"} : Comes(At(w, q[1], q[2]), AllSubscriptions)
  <1> DEFINE M == N - 1
             from == [i \in 1..(N * M) |-> NodeOrder[((i - 1) \div M) + 1]]
             to == [i \in 1..(N * M) |-> Others(from[i])[((i - 1) % M) + 1]]
  <1>1. AllSubscriptions = [i \in 1..(N * M) |-> SubscriptionTask(from[i], to[i])]
    <2>1. Pairs = [i \in 1..(N * M) |-> <<from[i], to[i]>>]
      BY Count DEF Pairs
    <2> HIDE DEF M, from, to
    <2> QED
      BY <2>1 DEF AllSubscriptions
  <1>2. N \in Nat /\ M \in Nat /\ N * M \in Nat
    BY Count
  <1>3. ASSUME NEW i \in 1..(N * M)
        PROVE  /\ ((i - 1) \div M) + 1 \in 1..N /\ ((i - 1) % M) + 1 \in 1..M
    <2>1. M # 0
      BY <1>2
    <2>2. i - 1 \in 0..(N * M - 1)
      BY <1>2
    <2>3. (i - 1) \div M \in 0..(N - 1) /\ (i - 1) % M \in 0..(M - 1)
      BY <1>2, <2>1, <2>2, QuotientBelow
    <2> QED
      BY <1>2, <2>3
  <1>4. from \in [1..(N * M) -> Node]
    BY <1>3, Count
  <1>5. to \in [1..(N * M) -> Node] /\ \A i \in 1..(N * M) : from[i] # to[i]
    <2>1. ASSUME NEW i \in 1..(N * M)
          PROVE  Others(from[i])[((i - 1) % M) + 1] \in Node \ {from[i]}
      <3>1. from[i] \in Node
        BY <1>4
      <3> QED
        BY <1>3, <3>1, OthersAre
    <2> QED
      BY <2>1
  <1>6. ASSUME NEW q \in Pair PROVE \E i \in 1..(N * M) : from[i] = q[1] /\ to[i] = q[2]
    <2>1. q[1] \in Node /\ q[2] \in Node \ {q[1]}
      BY DEF Pair
    <2>2. PICK a \in 1..N : NodeOrder[a] = q[1]
      BY <2>1, OrderAssumption DEF N
    <2>3. PICK b \in 1..M : Others(q[1])[b] = q[2]
      BY <2>1, OthersAre
    <2>4. M # 0 /\ a - 1 \in 0..(N - 1) /\ b - 1 \in 0..(M - 1)
      BY <1>2
    <2> DEFINE k == (a - 1) * M + (b - 1)
    <2>5. k \in 0..(N * M - 1) /\ k \div M = a - 1 /\ k % M = b - 1
      <3>1. M \in Nat \ {0}
        BY <1>2, <2>4
      <3>2. \A x \in 0..(N - 1) : \A y \in 0..(M - 1) :
              /\ x * M + y \in 0..(N * M - 1)
              /\ (x * M + y) \div M = x
              /\ (x * M + y) % M = y
        <4> HIDE DEF M
        <4> QED
          BY <1>2, <3>1, LoopIndex
      <3> HIDE DEF M
      <3> QED
        BY <2>4, <3>2
    <2> HIDE DEF k
    <2>6. k + 1 \in 1..(N * M) /\ (k + 1) - 1 = k /\ (a - 1) + 1 = a /\ (b - 1) + 1 = b
      BY <1>2, <2>5
    <2>7. from[k + 1] = q[1]
      BY <2>2, <2>5, <2>6
    <2>8. to[k + 1] = q[2]
      BY <2>3, <2>5, <2>6, <2>7
    <2> QED
      BY <2>6, <2>7, <2>8
  <1> HIDE DEF from, to
  <1>7. /\ Feasible(AllSubscriptions, had)
        /\ \A i \in 1..(N * M) : \A w \in {"slot", "subscription"} :
             Comes(At(w, from[i], to[i]), AllSubscriptions)
    BY <1>1, <1>2, <1>4, <1>5, SubscriptionTasks
  <1> QED
    BY <1>6, <1>7

LEMMA TasksForNode ==
  ASSUME NEW had, NEW n \in Node
  PROVE  /\ Feasible(SetupReplicationForNode(n), had)
         /\ Comes(At("publication", n, n), SetupReplicationForNode(n))
         /\ \A m \in Node \ {n} : \A w \in {"slot", "subscription"} :
               /\ Comes(At(w, n, m), SetupReplicationForNode(n))
               /\ Comes(At(w, m, n), SetupReplicationForNode(n))
  <1> DEFINE M == N - 1
             others == [i \in 1..M |-> Others(n)[i]]
             same == [i \in 1..M |-> n]
             as == <<PublicationTask(n)>>
             bs == [i \in 1..M |-> SubscriptionTask(n, Others(n)[i])]
             cs == [i \in 1..M |-> SubscriptionTask(Others(n)[i], n)]
  <1>1. SetupReplicationForNode(n) = (as \o bs) \o cs
    <2>1. Len(Others(n)) = M /\ DOMAIN Others(n) = 1..M
      BY OthersAre
    <2> QED
      BY <2>1 DEF SetupReplicationForNode, Each
  <1>2. Feasible(as, had) /\ Comes(At("publication", n, n), as)
    <2>1. 1 \in DOMAIN as /\ as[1] = <<At("publication", n, n)>>
      BY DEF PublicationTask
    <2>2. 1 \in DOMAIN as[1] /\ as[1][1] = At("publication", n, n)
      BY <2>1
    <2>3. Feasible(as, had)
      <3>1. \A i \in 1..1 : as[i] \in Seq(Proper) \ {<< >>} /\ Prepared(as[i], had)
        BY TasksOfOneNode
      <3>2. as = [i \in 1..1 |-> as[i]] /\ DOMAIN as = 1..1
        <4> DEFINE task == PublicationTask(n)
        <4> HIDE DEF task
        <4>1. <<task>> = [i \in 1..1 |-> <<task>>[i]] /\ DOMAIN <<task>> = 1..1
          OBVIOUS
        <4> QED
          BY <4>1 DEF task
      <3> HIDE DEF as
      <3> QED
        BY <3>1, <3>2, FeasibleList
    <2> QED
      BY <2>1, <2>2, <2>3 DEF Comes
  <1>3. M \in Nat /\ others \in [1..M -> Node] /\ same \in [1..M -> Node]
        /\ \A i \in 1..M : same[i] # others[i]
    BY Count, OthersAre
  <1>4. /\ bs = [i \in 1..M |-> SubscriptionTask(same[i], others[i])]
        /\ cs = [i \in 1..M |-> SubscriptionTask(others[i], same[i])]
    OBVIOUS
  <1>5. /\ Feasible(bs, had)
        /\ \A i \in 1..M : \A w \in {"slot", "subscription"} : Comes(At(w, same[i], others[i]), bs)
    <2> HIDE DEF M, others, same, bs
    <2> QED
      BY <1>3, <1>4, SubscriptionTasks
  <1>6. /\ Feasible(cs, had)
        /\ \A i \in 1..M : \A w \in {"slot", "subscription"} : Comes(At(w, others[i], same[i]), cs)
    <2> HIDE DEF M, others, same, cs
    <2> QED
      BY <1>3, <1>4, SubscriptionTasks
  <1>7. \A m \in Node \ {n} : \E i \in 1..M : others[i] = m /\ same[i] = n
    BY OthersAre
  <1> HIDE DEF M, others, same, as, bs, cs
  <1>8. /\ Feasible((as \o bs) \o cs, had)
        /\ \A c : Comes(c, as) \/ Comes(c, bs) \/ Comes(c, cs) => Comes(c, (as \o bs) \o cs)
    <2>1. Feasible(as \o bs, had) /\ \A c : Comes(c, as) \/ Comes(c, bs) => Comes(c, as \o bs)
      BY <1>2, <1>5, FeasibleConcat
    <2> QED
      BY <1>6, <2>1, FeasibleConcat
  <1> QED
    BY <1>1, <1>2, <1>5, <1>6, <1>7, <1>8

LEMMA TasksReachGoal ==
  ASSUME NEW had, NEW cmd \in Commands
  PROVE  Feasible(Tasks(cmd), had) /\ \A c \in Goal(cmd) : Comes(c, Tasks(cmd))
  <1>1. cmd.verb \in Verb /\ cmd.node \in Node \cup {All}
    BY SetupAssumption DEF Command
  <1>2. CASE cmd.verb = "apply-schema"
    <2> DEFINE ns == IF cmd.node = All THEN NodeOrder ELSE <<cmd.node>>
    <2>1. Tasks(cmd) = Each(SchemaTask, ns)
      BY <1>2 DEF Tasks
    <2>2. /\ ns \in Seq(Node)
          /\ \A n \in IF cmd.node = All THEN Node ELSE {cmd.node} : \E i \in 1..Len(ns) : ns[i] = n
      <3>1. CASE cmd.node = All
        <4>1. \A n \in Node : \E i \in 1..N : NodeOrder[i] = n
          BY OrderAssumption DEF N
        <4> QED
          BY <3>1, <4>1, Count
      <3>2. CASE cmd.node # All
        <4>1. ns = <<cmd.node>> /\ cmd.node \in Node
          BY <1>1, <3>2
        <4> QED
          BY <3>2, <4>1
      <3> QED
        BY <3>1, <3>2
    <2> HIDE DEF ns
    <2>4. /\ Feasible(Tasks(cmd), had)
          /\ \A i \in 1..Len(ns) : \A w \in {"name", "schema"} : Comes(At(w, ns[i], ns[i]), Tasks(cmd))
      BY <2>1, <2>2, SchemaTasks
    <2>5. ASSUME NEW c \in Goal(cmd) PROVE Comes(c, Tasks(cmd))
      <3>1. PICK w \in {"name", "schema"}, n \in IF cmd.node = All THEN Node ELSE {cmd.node} :
              c = At(w, n, n)
        BY <1>2 DEF Goal
      <3>2. PICK i \in 1..Len(ns) : ns[i] = n
        BY <2>2
      <3> QED
        BY <2>4, <3>1, <3>2
    <2> QED
      BY <2>4, <2>5
  <1>3. CASE cmd.verb = "setup-replication" /\ cmd.node = All
    <2>1. Tasks(cmd) = Each(PublicationTask, NodeOrder) \o AllSubscriptions
      BY <1>3 DEF Tasks, SetupBidirectionalReplication
    <2>2. /\ Feasible(Tasks(cmd), had)
          /\ \A c : Comes(c, Each(PublicationTask, NodeOrder)) \/ Comes(c, AllSubscriptions)
                     => Comes(c, Tasks(cmd))
      BY <2>1, PublicationTasks, AllSubscriptionsAre, FeasibleConcat
    <2>3. Edges(cmd) = Pair
      BY <1>3 DEF Edges
    <2> QED
      BY <1>3, <2>2, <2>3, PublicationTasks, AllSubscriptionsAre DEF Goal
  <1>4. CASE cmd.verb = "setup-replication" /\ cmd.node # All
    <2>1. Tasks(cmd) = SetupReplicationForNode(cmd.node)
      BY <1>4 DEF Tasks
    <2>2. \A q \in Edges(cmd) : \E m \in Node \ {cmd.node} :
             \/ q[1] = cmd.node /\ q[2] = m
             \/ q[1] = m /\ q[2] = cmd.node
      <3>1. ASSUME NEW q \in Edges(cmd)
            PROVE  /\ q[1] \in Node /\ q[2] \in Node /\ q[1] # q[2]
                   /\ cmd.node = q[1] \/ cmd.node = q[2]
        BY <1>4 DEF Edges, Pair
      <3> QED
        BY <3>1
    <2>3. ASSUME NEW c \in Goal(cmd) PROVE Comes(c, Tasks(cmd))
      <3>1. CASE c = At("publication", cmd.node, cmd.node)
        BY <1>1, <1>4, <2>1, <3>1, TasksForNode
      <3>2. CASE \E w \in {"slot", "subscription"} : \E q \in Edges(cmd) : c = At(w, q[1], q[2])
        BY <1>1, <1>4, <2>1, <2>2, <3>2, TasksForNode
      <3>3. Goal(cmd) = {At("publication", n, n) : n \in {cmd.node}}
                 \cup {At(w, q[1], q[2]) : w \in {"slot", "subscription"}, q \in Edges(cmd)}
        BY <1>4 DEF Goal
      <3> QED
        BY <3>1, <3>2, <3>3
    <2> QED
      BY <1>1, <1>4, <2>1, <2>3, TasksForNode
  <1> QED
    BY <1>1, <1>2, <1>3, <1>4 DEF Verb

-----------------------------------------------------------------------------
(* Calls and their effects. *)

\* The first call of a feasible list may be made now.
LEMMA FirstCall ==
  ASSUME NEW had, NEW tasks, Feasible(tasks, had), tasks # << >>
  PROVE  /\ Head(tasks) \in Seq(Proper) /\ Head(tasks) # << >>
         /\ Head(Head(tasks)) \in Proper
         /\ Head(Head(tasks)) \in Late => Prerequisite(Head(Head(tasks))) \in had
  <1>1. 1 \in DOMAIN tasks /\ Head(tasks) = tasks[1] /\ tasks[1] \in Seq(Proper)
    BY DEF Feasible
  <1>2. tasks[1] # << >> /\ Prepared(tasks[1], had)
    BY <1>1 DEF Feasible
  <1>3. 1 \in DOMAIN tasks[1] /\ Head(tasks[1]) = tasks[1][1] /\ tasks[1][1] \in Proper
    BY <1>1, <1>2
  <1>4. tasks[1][1] \in Late => Prerequisite(tasks[1][1]) \in had
    BY <1>2, <1>3 DEF Prepared
  <1> QED
    BY <1>1, <1>2, <1>3, <1>4

\* More calls are made.
LEMMA FeasibleGrows ==
  ASSUME NEW had, NEW more, had \subseteq more, NEW tasks, Feasible(tasks, had)
  PROVE  Feasible(tasks, more)
  BY DEF Feasible, Prepared

\* What is left of a list whose first task is given up.
LEMMA RestOfTasks ==
  ASSUME NEW had, NEW tasks, Feasible(tasks, had), tasks # << >>
  PROVE  Feasible(Tail(tasks), had)
  <1>1. /\ tasks \in Seq(Seq(Proper)) /\ Tail(tasks) \in Seq(Seq(Proper))
        /\ \A i \in DOMAIN Tail(tasks) : i + 1 \in DOMAIN tasks /\ Tail(tasks)[i] = tasks[i + 1]
    BY DEF Feasible
  <1> QED
    BY <1>1 DEF Feasible

\* What is left of a list whose first call has been made.
Left(tasks) ==
    LET task == Tail(Head(tasks))
        rest == Tail(tasks)
    IN  IF task = << >> THEN rest ELSE <<task>> \o rest

LEMMA LeftIsFeasible ==
  ASSUME NEW had, NEW tasks, Feasible(tasks, had), tasks # << >>, Head(Head(tasks)) \in had
  PROVE  /\ Feasible(Left(tasks), had)
         /\ \A c : Comes(c, tasks) => c \in had \/ Comes(c, Left(tasks))
  <1> DEFINE first == Head(tasks)
             task == Tail(first)
             rest == Tail(tasks)
  <1>1. first \in Seq(Proper) /\ first # << >> /\ task \in Seq(Proper)
    BY FirstCall
  <1>2. Feasible(rest, had)
    BY RestOfTasks
  <1>3. /\ \A j \in DOMAIN task : j + 1 \in DOMAIN first /\ task[j] = first[j + 1]
        /\ \A j \in DOMAIN first : j = 1 \/ (j - 1 \in DOMAIN task /\ task[j - 1] = first[j])
        /\ first[1] = Head(first)
    BY <1>1
  <1>4. /\ 1 \in DOMAIN tasks /\ tasks[1] = first
        /\ \A i \in DOMAIN tasks : i = 1 \/ (i - 1 \in DOMAIN rest /\ rest[i - 1] = tasks[i])
    BY DEF Feasible
  <1>5. Prepared(first, had)
    BY <1>4 DEF Feasible
  <1>6. Prepared(task, had)
    <2>1. SUFFICES ASSUME NEW j \in DOMAIN task, task[j] \in Late, Prerequisite(task[j]) \notin had
                   PROVE  \E k \in 1..(j - 1) : task[k] = Prerequisite(task[j])
      BY DEF Prepared
    <2>2. j \in Nat \ {0} /\ j + 1 \in DOMAIN first /\ task[j] = first[j + 1]
      BY <1>1, <1>3
    <2>3. PICK k \in 1..j : first[k] = Prerequisite(task[j])
      BY <1>5, <2>1, <2>2 DEF Prepared
    <2>4. k # 1
      BY <1>3, <2>1, <2>3
    <2>5. k - 1 \in 1..(j - 1) /\ k \in DOMAIN first /\ task[k - 1] = first[k]
      BY <1>1, <1>3, <2>2, <2>3, <2>4
    <2> QED
      BY <2>3, <2>5
  <1>7. ASSUME NEW c, Comes(c, tasks), c \notin had
        PROVE  \/ \E j \in DOMAIN task : task[j] = c
               \/ Comes(c, rest)
    <2>1. PICK i \in DOMAIN tasks : \E j \in DOMAIN tasks[i] : tasks[i][j] = c
      BY <1>7 DEF Comes
    <2>2. CASE i = 1
      BY <1>3, <1>4, <1>7, <2>1, <2>2
    <2>3. CASE i # 1
      BY <1>4, <2>1, <2>3 DEF Comes
    <2> QED
      BY <2>2, <2>3
  <1>8. CASE task = << >>
    <2>1. Left(tasks) = rest
      BY <1>8 DEF Left
    <2>2. DOMAIN task = {}
      BY <1>8
    <2> QED
      BY <1>2, <1>7, <2>1, <2>2
  <1>9. CASE task # << >>
    <2> DEFINE one == <<task>>
    <2>1. Left(tasks) = one \o rest
      BY <1>9 DEF Left
    <2>2. 1 \in DOMAIN one /\ one[1] = task
      OBVIOUS
    <2>3. Feasible(one, had)
      <3>1. task \in Seq(Proper) \ {<< >>}
        BY <1>1, <1>9
      <3>2. one = [i \in 1..1 |-> one[i]] /\ DOMAIN one = 1..1
        OBVIOUS
      <3>3. \A i \in 1..1 : one[i] = task
        OBVIOUS
      <3> HIDE DEF one, task
      <3> QED
        BY <1>6, <3>1, <3>2, <3>3, FeasibleList
    <2>4. ASSUME NEW c, \E j \in DOMAIN task : task[j] = c PROVE Comes(c, one)
      BY <2>2, <2>4 DEF Comes
    <2> HIDE DEF one
    <2> QED
      BY <1>2, <1>7, <2>1, <2>3, <2>4, FeasibleConcat
  <1> QED
    BY <1>8, <1>9

\* Existing objects count as made, and no call undoes another.
LEMMA ExistingIsHad ==
  ASSUME NEW c \in Call, Exists(c)
  PROVE  c \in Had
  BY DEF Exists, Had

LEMMA EffectAdds ==
  ASSUME NEW c \in Call, Effect(c)
  PROVE  Had \subseteq Had' /\ c \in Had'
  BY DEF Effect, Had

\* A call that may be made keeps the catalogs in order.
InOrder == CatalogOK /\ SubscriptionsHaveSlots /\ TablesHaveIdentity

LEMMA EffectKeepsOrder ==
  ASSUME InOrder, NEW c \in Proper, c \in Late => Prerequisite(c) \in Had, Effect(c)
  PROVE  InOrder'
  <1>1. c.what = "schema" => c.pub \in named
    BY DEF Late, Prerequisite, Had, Proper, Call
  <1>2. c.what = "subscription" => Edge(c) \in slots
    BY DEF Late, Prerequisite, Had, Proper, Call, Edge
  <1>3. c \in Call /\ (c.what \in {"slot", "subscription"} => Edge(c) \in Pair) /\ c.pub \in Node
    BY DEF Proper, Call
  <1> QED
    BY <1>1, <1>2, <1>3 DEF Effect, InOrder, CatalogOK, SubscriptionsHaveSlots, TablesHaveIdentity

-----------------------------------------------------------------------------
(* The inductive invariant. *)

\* Whatever run r has not yet done of its command is still before it, unless it
\* has noticed a failure.
RunOK(r) ==
    /\ Feasible(run[r].tasks, Had)
    /\ Running(r) => run[r].tasks # << >>
    /\ run[r].status \in {"ok", "failed"} => run[r].tasks = << >>
    /\ run[r].status \in {"running", "ok"} => run[r].cmd \in Commands
    /\ run[r].status = "ok" => ~run[r].failed
    /\ run[r].status \in {"running", "ok"} /\ ~run[r].failed =>
          \A c \in Goal(run[r].cmd) : c \in Had \/ Comes(c, run[r].tasks)

SetupInv == TypeOK /\ InOrder /\ \A r \in Run : RunOK(r)

LEMMA FileExists == NoFile \in File
  <1> DEFINE k == Cardinality(Table)
  <1>1. ExistsBijection(1..k, Table)
    BY SchemaAssumption, FS_NatBijection, FS_CountingElements
  <1>2. PICK f \in Bijection(1..k, Table) : TRUE
    BY <1>1 DEF ExistsBijection
  <1>3. f \in File
    BY <1>2 DEF File, Bijection, Injection, IsInjective
  <1> QED
    BY <1>3 DEF NoFile

LEMMA InitInv == Init => SetupInv
  <1> SUFFICES ASSUME Init PROVE SetupInv
    OBVIOUS
  <1>1. TypeOK
    BY FileExists, SetupAssumption DEF Init, TypeOK, CatalogOK, NoCommand
  <1>2. InOrder
    BY <1>1 DEF Init, TypeOK, InOrder, SubscriptionsHaveSlots, TablesHaveIdentity
  <1>3. ASSUME NEW r \in Run PROVE RunOK(r)
    <2>1. run[r].tasks = << >> /\ run[r].status = "new"
      BY DEF Init
    <2>2. Feasible(<< >>, Had)
      BY DEF Feasible
    <2> QED
      BY <2>1, <2>2 DEF RunOK, Running
  <1> QED
    BY <1>1, <1>2, <1>3 DEF SetupInv

\* If the order of the catalogs is kept and the calls that were made stay made, a
\* run that takes no step stays in order.
LEMMA OtherRuns ==
  ASSUME NEW r \in Run, RunOK(r), Had \subseteq Had', run'[r] = run[r]
  PROVE  RunOK(r)'
  <1>1. Feasible(run[r].tasks, Had')
    BY FeasibleGrows DEF RunOK
  <1> QED
    BY <1>1 DEF RunOK, Running

LEMMA CatalogUnchanged ==
  ASSUME UNCHANGED catalog
  PROVE  Had' = Had /\ (InOrder => InOrder')
  BY DEF catalog, Had, InOrder, CatalogOK, SubscriptionsHaveSlots, TablesHaveIdentity

LEMMA GoOnType ==
  ASSUME TypeOK, NEW r \in Run, NEW tasks \in Seq(Seq(Call)), NEW failed \in BOOLEAN,
         GoOn(r, tasks, failed)
  PROVE  /\ run' \in [Run -> [cmd : Commands \cup {NoCommand}, file : File,
                               tasks : Seq(Seq(Call)), checked : BOOLEAN, failed : BOOLEAN,
                               status : {"new", "running", "ok", "failed"}]]
         /\ \A q \in Run \ {r} : run'[q] = run[q]
         /\ run'[r].cmd = run[r].cmd /\ run'[r].tasks = tasks /\ run'[r].failed = failed
         /\ run'[r].status = IF tasks # << >> THEN "running" ELSE IF failed THEN "failed" ELSE "ok"
  <1> DEFINE status == IF tasks # << >> THEN "running" ELSE IF failed THEN "failed" ELSE "ok"
             next == [run[r] EXCEPT !.tasks = tasks, !.checked = FALSE, !.failed = failed,
                                   !.status = status]
  <1>1. run' = [run EXCEPT ![r] = next]
    BY DEF GoOn
  <1>2. /\ next.cmd = run[r].cmd /\ next.tasks = tasks /\ next.failed = failed
        /\ next.status = status
        /\ next \in [cmd : Commands \cup {NoCommand}, file : File,
                    tasks : Seq(Seq(Call)), checked : BOOLEAN, failed : BOOLEAN,
                    status : {"new", "running", "ok", "failed"}]
    BY DEF TypeOK
  <1> HIDE DEF next, status
  <1> QED
    BY <1>1, <1>2 DEF TypeOK, status

\* Run r goes on with the rest of its list, and other runs see only that more
\* calls have been made.
LEMMA GoOnKeepsInv ==
  ASSUME SetupInv, NEW r \in Run, Running(r), NEW tasks, NEW failed \in BOOLEAN,
         GoOn(r, tasks, failed), InOrder', faults' \in 0..MaxFaults,
         Had \subseteq Had', Feasible(tasks, Had'),
         ~failed => /\ ~run[r].failed
                    /\ \A c : Comes(c, run[r].tasks) => c \in Had' \/ Comes(c, tasks)
  PROVE  SetupInv'
  <1>1. tasks \in Seq(Seq(Call)) /\ TypeOK
    <2>1. tasks \in Seq(Seq(Proper)) /\ Proper \subseteq Call
      BY DEF Feasible, Proper
    <2> QED
      BY <2>1 DEF SetupInv
  <1>2. /\ run' \in [Run -> [cmd : Commands \cup {NoCommand}, file : File,
                              tasks : Seq(Seq(Call)), checked : BOOLEAN, failed : BOOLEAN,
                              status : {"new", "running", "ok", "failed"}]]
        /\ \A q \in Run \ {r} : run'[q] = run[q]
        /\ run'[r].cmd = run[r].cmd /\ run'[r].tasks = tasks /\ run'[r].failed = failed
        /\ run'[r].status = IF tasks # << >> THEN "running" ELSE IF failed THEN "failed" ELSE "ok"
    BY <1>1, GoOnType
  <1>3. TypeOK'
    BY <1>2 DEF TypeOK, InOrder
  <1>4. RunOK(r)'
    <2>1. run[r].cmd \in Commands /\ run[r].status = "running"
      BY DEF SetupInv, RunOK, Running
    <2>2. ASSUME ~failed, NEW c \in Goal(run[r].cmd) PROVE c \in Had' \/ Comes(c, tasks)
      <3>1. c \in Had \/ Comes(c, run[r].tasks)
        BY <2>1, <2>2 DEF SetupInv, RunOK
      <3> QED
        BY <2>2, <3>1
    <2>3. Feasible(run'[r].tasks, Had')
      BY <1>2
    <2>4. ~run'[r].failed => \A c \in Goal(run'[r].cmd) : c \in Had' \/ Comes(c, run'[r].tasks)
      BY <1>2, <2>2
    <2> QED
      BY <1>2, <2>1, <2>3, <2>4 DEF RunOK, Running
  <1>5. ASSUME NEW q \in Run \ {r} PROVE RunOK(q)'
    BY <1>2, OtherRuns DEF SetupInv
  <1> QED
    BY <1>3, <1>4, <1>5 DEF SetupInv

LEMMA StartInv ==
  ASSUME SetupInv, NEW r \in Run, Start(r)
  PROVE  SetupInv'
  <1>1. Had' = Had /\ InOrder'
    BY CatalogUnchanged DEF Start, SetupInv
  <1>2. PICK cmd \in Commands, file \in File :
          run' = [run EXCEPT ![r] = [@ EXCEPT !.cmd = cmd, !.file = file, !.tasks = Tasks(cmd),
                                             !.status = "running"]]
    BY FileExists DEF Start
  <1>3. Feasible(Tasks(cmd), Had) /\ \A c \in Goal(cmd) : Comes(c, Tasks(cmd))
    BY TasksReachGoal
  <1>4. Tasks(cmd) # << >>
    <2>1. PICK n \in Node : n \in IF cmd.node = All THEN Node ELSE {cmd.node}
      BY SetupAssumption, OrderAssumption DEF Command
    <2>2. At("name", n, n) \in Goal(cmd) \/ At("publication", n, n) \in Goal(cmd)
      BY <2>1 DEF Goal
    <2> QED
      BY <1>3, <2>2 DEF Comes
  <1>5. Tasks(cmd) \in Seq(Seq(Call))
    <2>1. Tasks(cmd) \in Seq(Seq(Proper)) /\ Proper \subseteq Call
      BY <1>3 DEF Feasible, Proper
    <2> QED
      BY <2>1
  <1>6. /\ run' \in [Run -> [cmd : Commands \cup {NoCommand}, file : File,
                              tasks : Seq(Seq(Call)), checked : BOOLEAN, failed : BOOLEAN,
                              status : {"new", "running", "ok", "failed"}]]
        /\ \A q \in Run \ {r} : run'[q] = run[q]
        /\ run'[r].cmd = cmd /\ run'[r].tasks = Tasks(cmd) /\ run'[r].status = "running"
    BY <1>2, <1>5 DEF SetupInv, TypeOK
  <1>7. TypeOK'
    BY <1>1, <1>6 DEF SetupInv, TypeOK, InOrder, Start
  <1>8. RunOK(r)'
    BY <1>1, <1>3, <1>4, <1>6 DEF RunOK, Running
  <1>9. ASSUME NEW q \in Run \ {r} PROVE RunOK(q)'
    BY <1>1, <1>6, OtherRuns DEF SetupInv
  <1> QED
    BY <1>1, <1>7, <1>8, <1>9 DEF SetupInv

\* The next call of a run that goes on.
LEMMA NextCall ==
  ASSUME SetupInv, NEW r \in Run, Running(r)
  PROVE  /\ Feasible(run[r].tasks, Had) /\ run[r].tasks # << >>
         /\ TheCall(r) \in Proper /\ TheCall(r) \in Call
         /\ TheCall(r) \in Late => Prerequisite(TheCall(r)) \in Had
  <1>1. Feasible(run[r].tasks, Had) /\ run[r].tasks # << >>
    BY DEF SetupInv, RunOK
  <1> QED
    BY <1>1, FirstCall DEF TheCall, Proper

\* The call of run r has been made, or was not necessary.
LEMMA SucceedInv ==
  ASSUME SetupInv, NEW r \in Run, Running(r), Succeed(r), InOrder', faults' \in 0..MaxFaults,
         Had \subseteq Had', TheCall(r) \in Had'
  PROVE  SetupInv'
  <1>1. Feasible(run[r].tasks, Had') /\ run[r].tasks # << >>
    BY NextCall, FeasibleGrows
  <1>2. /\ Feasible(Left(run[r].tasks), Had')
        /\ \A c : Comes(c, run[r].tasks) => c \in Had' \/ Comes(c, Left(run[r].tasks))
    BY <1>1, LeftIsFeasible DEF TheCall
  <1>3. GoOn(r, Left(run[r].tasks), run[r].failed)
    BY DEF Succeed, Left
  <1>4. run[r].failed \in BOOLEAN
    BY DEF SetupInv, TypeOK
  <1> QED
    BY <1>2, <1>3, <1>4, GoOnKeepsInv

\* The run notices a failure and goes on with other tasks, or with none.
LEMMA FailureInv ==
  ASSUME SetupInv, NEW r \in Run, Running(r), NEW tasks, Feasible(tasks, Had), GoOn(r, tasks, TRUE),
         InOrder', faults' \in 0..MaxFaults, Had \subseteq Had'
  PROVE  SetupInv'
  <1>1. Feasible(tasks, Had')
    BY FeasibleGrows
  <1> QED
    BY <1>1, GoOnKeepsInv

LEMMA CheckInv ==
  ASSUME SetupInv, NEW r \in Run, Check(r)
  PROVE  SetupInv'
  <1>1. Running(r) /\ Had' = Had /\ InOrder' /\ faults' \in 0..MaxFaults
    BY CatalogUnchanged DEF Check, SetupInv, TypeOK
  <1>2. CASE Exists(TheCall(r)) /\ Succeed(r)
    BY <1>1, <1>2, NextCall, ExistingIsHad, SucceedInv
  <1>3. CASE run' = [run EXCEPT ![r].checked = TRUE]
    <2>1. TypeOK'
      BY <1>1, <1>3 DEF SetupInv, TypeOK, InOrder
    <2>2. ASSUME NEW q \in Run
          PROVE  /\ run'[q].tasks = run[q].tasks /\ run'[q].status = run[q].status
                 /\ run'[q].cmd = run[q].cmd /\ run'[q].failed = run[q].failed
      BY <1>3 DEF SetupInv, TypeOK
    <2>3. ASSUME NEW q \in Run PROVE RunOK(q)'
      BY <1>1, <2>2 DEF SetupInv, RunOK, Running
    <2> QED
      BY <1>1, <2>1, <2>3 DEF SetupInv
  <1> QED
    BY <1>2, <1>3 DEF Check

LEMMA CreateInv ==
  ASSUME SetupInv, NEW r \in Run, Create(r)
  PROVE  SetupInv'
  <1>1. Running(r) /\ Effect(TheCall(r)) /\ Succeed(r) /\ faults' \in 0..MaxFaults
    BY DEF Create, SetupInv, TypeOK
  <1>2. Had \subseteq Had' /\ TheCall(r) \in Had'
    BY <1>1, NextCall, EffectAdds
  <1>3. InOrder'
    BY <1>1, NextCall, EffectKeepsOrder DEF SetupInv
  <1> QED
    BY <1>1, <1>2, <1>3, SucceedInv

LEMMA RejectInv ==
  ASSUME SetupInv, NEW r \in Run, Reject(r)
  PROVE  SetupInv'
  <1>1. Running(r) /\ GiveUp(r) /\ Had' = Had /\ InOrder' /\ faults' \in 0..MaxFaults
    BY CatalogUnchanged DEF Reject, SetupInv, TypeOK
  <1>2. Feasible(Tail(run[r].tasks), Had)
    BY <1>1, NextCall, RestOfTasks
  <1> QED
    BY <1>1, <1>2, FailureInv DEF GiveUp

\* A call that fails leaves the catalogs as they are, or has taken effect.
LEMMA InDoubtInv ==
  ASSUME SetupInv, NEW r \in Run, Running(r), InDoubt(r)
  PROVE  Had \subseteq Had' /\ InOrder'
  <1>1. CASE UNCHANGED catalog
    BY <1>1, CatalogUnchanged DEF SetupInv
  <1>2. CASE Effect(TheCall(r))
    BY <1>2, NextCall, EffectAdds, EffectKeepsOrder DEF SetupInv
  <1> QED
    BY <1>1, <1>2 DEF InDoubt

LEMMA FailInv ==
  ASSUME SetupInv, NEW r \in Run, Fail(r)
  PROVE  SetupInv'
  <1>1. Running(r) /\ GiveUp(r) /\ Had \subseteq Had' /\ InOrder' /\ faults' \in 0..MaxFaults
    BY InDoubtInv, SetupAssumption DEF Fail, SetupInv, TypeOK
  <1>2. Feasible(Tail(run[r].tasks), Had)
    BY <1>1, NextCall, RestOfTasks
  <1> QED
    BY <1>1, <1>2, FailureInv DEF GiveUp

LEMMA StopInv ==
  ASSUME SetupInv, NEW r \in Run, Stop(r)
  PROVE  SetupInv'
  <1>1. Running(r) /\ InDoubt(r) /\ GoOn(r, << >>, TRUE) /\ faults' \in 0..MaxFaults
    <2>1. Running(r) /\ InDoubt(r) /\ GoOn(r, << >>, TRUE)
      BY DEF Stop
    <2>2. faults' \in 0..MaxFaults
      BY SetupAssumption DEF Stop, SetupInv, TypeOK
    <2> QED
      BY <2>1, <2>2
  <1>2. Feasible(<< >>, Had)
    BY DEF Feasible
  <1>3. Had \subseteq Had' /\ InOrder'
    BY <1>1, InDoubtInv
  <1> QED
    BY <1>1, <1>2, <1>3, FailureInv

LEMMA NextInv == SetupInv /\ [SetupNext]_vars => SetupInv'
  <1> SUFFICES ASSUME SetupInv, [SetupNext]_vars PROVE SetupInv'
    OBVIOUS
  <1>1. ASSUME NEW r \in Run, Start(r) PROVE SetupInv'
    BY <1>1, StartInv
  <1>2. ASSUME NEW r \in Run, Step(r) PROVE SetupInv'
    BY <1>2, CheckInv, CreateInv, RejectInv DEF Step
  <1>3. ASSUME NEW r \in Run, Fail(r) PROVE SetupInv'
    BY <1>3, FailInv
  <1>4. ASSUME NEW r \in Run, Stop(r) PROVE SetupInv'
    BY <1>4, StopInv
  <1>5. CASE UNCHANGED vars
    <2>1. UNCHANGED catalog /\ UNCHANGED <<run, faults>>
      BY <1>5 DEF vars, catalog
    <2>2. Had' = Had /\ InOrder'
      BY <2>1, CatalogUnchanged DEF SetupInv
    <2>3. \A r \in Run : RunOK(r)'
      BY <2>1, <2>2, OtherRuns DEF SetupInv
    <2>4. TypeOK'
      BY <2>1, <2>2 DEF SetupInv, TypeOK, InOrder
    <2> QED
      BY <2>2, <2>3, <2>4 DEF SetupInv
  <1> QED
    BY <1>1, <1>2, <1>3, <1>4, <1>5 DEF SetupNext

\* Whatever fails, stops or runs beside it, what the tasks of a run rest on exists
\* or still comes before them.
THEOREM Invariance == Spec => []SetupInv
  BY InitInv, NextInv, PTL DEF Spec

-----------------------------------------------------------------------------
(* What the invariant says of the commands. *)

\* Catalogs and runs keep their types.
THEOREM Typing == Spec => []TypeOK
  <1>1. SetupInv => TypeOK
    BY DEF SetupInv
  <1> QED
    BY <1>1, Invariance, PTL

\* No subscription without its slot, whatever fails, stops or runs beside.
THEOREM SlotsComeFirst == Spec => []SubscriptionsHaveSlots
  <1>1. SetupInv => SubscriptionsHaveSlots
    BY DEF SetupInv, InOrder
  <1> QED
    BY <1>1, Invariance, PTL

\* A node with the tables knows its name.
THEOREM NamesComeFirst == Spec => []TablesHaveIdentity
  <1>1. SetupInv => TablesHaveIdentity
    BY DEF SetupInv, InOrder
  <1> QED
    BY <1>1, Invariance, PTL

\* A run that reports success has brought about what it was asked for.
THEOREM SuccessIsDone == Spec => []SuccessMeansDone
  <1>1. ASSUME SetupInv, NEW r \in Run, run[r].status = "ok" PROVE Done(run[r].cmd)
    <2> DEFINE cmd == run[r].cmd
               ns == IF cmd.node = All THEN Node ELSE {cmd.node}
    <2>1. cmd \in Commands /\ run[r].tasks = << >> /\ ~run[r].failed
      BY <1>1 DEF SetupInv, RunOK
    <2>2. \A c : ~Comes(c, << >>)
      BY DEF Comes
    <2>3. \A c \in Goal(cmd) : c \in Had
      BY <1>1, <2>1, <2>2 DEF SetupInv, RunOK
    <2>4. CASE cmd.verb = "apply-schema"
      <3>1. ASSUME NEW n \in ns PROVE n \in tables /\ n \in named
        <4>1. At("name", n, n) \in Had /\ At("schema", n, n) \in Had
          BY <2>3, <2>4 DEF Goal
        <4> QED
          BY <4>1 DEF Had, At
      <3> QED
        BY <2>4, <3>1 DEF Done
    <2>5. CASE cmd.verb # "apply-schema"
      <3>1. ASSUME NEW n \in ns PROVE n \in pubs
        <4>1. At("publication", n, n) \in Had
          BY <2>3, <2>5 DEF Goal
        <4> QED
          BY <4>1 DEF Had, At
      <3>2. ASSUME NEW q \in Edges(cmd) PROVE q \in subs /\ q \in slots
        <4>1. At("slot", q[1], q[2]) \in Had /\ At("subscription", q[1], q[2]) \in Had
          BY <2>3, <2>5 DEF Goal
        <4>2. q = <<q[1], q[2]>>
          BY DEF Edges, Pair
        <4> QED
          BY <4>1, <4>2 DEF Had, At, Edge
      <3> QED
        BY <2>5, <3>1, <3>2 DEF Done
    <2> QED
      BY <2>4, <2>5
  <1>2. SetupInv => SuccessMeansDone
    BY <1>1 DEF SuccessMeansDone
  <1> QED
    BY <1>2, Invariance, PTL

-----------------------------------------------------------------------------
(* Counting the subscriptions of a node. *)

Peerings(n) == {q \in Pair : q[1] = n}
Subscriptions(n) == {q \in subs : q[1] = n}

LEMMA CountPeerings ==
  ASSUME NEW n \in Node
  PROVE  IsFiniteSet(Peerings(n)) /\ Cardinality(Peerings(n)) = N - 1
  <1> DEFINE peers == Node \ {n}
             f == [m \in peers |-> <<n, m>>]
  <1>1. IsFiniteSet(peers) /\ Cardinality(peers) = N - 1
    BY OrderAssumption, FS_RemoveElement DEF N
  <1>2. f \in Bijection(peers, Peerings(n))
    <2>1. ASSUME NEW m \in peers PROVE <<n, m>> \in Peerings(n)
      BY DEF Peerings, Pair
    <2>2. f \in [peers -> Peerings(n)]
      BY <2>1
    <2>3. \A a, b \in peers : f[a] = f[b] => a = b
      OBVIOUS
    <2>4. ASSUME NEW q \in Peerings(n) PROVE \E m \in peers : f[m] = q
      <3>1. q[2] \in peers /\ q = <<n, q[2]>>
        BY DEF Peerings, Pair
      <3> QED
        BY <3>1
    <2> QED
      BY <2>2, <2>3, <2>4 DEF Bijection, Injection, Surjection, IsInjective
  <1>3. ExistsBijection(peers, Peerings(n))
    BY <1>2 DEF ExistsBijection
  <1> QED
    BY <1>1, <1>3, FS_Bijection

LEMMA CountSubscriptions ==
  ASSUME subs \subseteq Pair, NEW n \in Node
  PROVE  /\ IsFiniteSet(Subscriptions(n)) /\ Cardinality(Subscriptions(n)) \in 0..(N - 1)
         /\ Cardinality(Lacking(n)) = N - 1 - Cardinality(Subscriptions(n))
  <1>1. Subscriptions(n) \in SUBSET Peerings(n)
    BY DEF Subscriptions, Peerings
  <1>2. /\ IsFiniteSet(Subscriptions(n))
        /\ Cardinality(Subscriptions(n)) <= N - 1
    BY <1>1, CountPeerings, FS_Subset
  <1>3. Cardinality(Subscriptions(n)) \in Nat
    BY <1>2, FS_CardinalityType
  <1>4. Cardinality(Lacking(n)) = N - 1 - Cardinality(Subscriptions(n))
    <2>1. Lacking(n) = Peerings(n) \ Subscriptions(n)
      BY DEF Lacking, Peerings, Subscriptions
    <2>2. Peerings(n) \cap Subscriptions(n) = Subscriptions(n)
      BY <1>1
    <2>3. Cardinality(Peerings(n) \ Subscriptions(n))
            = Cardinality(Peerings(n)) - Cardinality(Peerings(n) \cap Subscriptions(n))
      BY CountPeerings, <1>2, FS_Difference
    <2> QED
      BY <2>1, <2>2, <2>3, CountPeerings
  <1> QED
    BY <1>2, <1>3, <1>4, Count

-----------------------------------------------------------------------------
(* The inductive invariant. *)

\* What a node was seen to have, it has, and what is counted beside the mesh.
Witnessed(i) ==
    /\ seen[i].publication => NodeOrder[i] \in pubs
    /\ seen[i].subscriptions <= Cardinality(Subscriptions(NodeOrder[i])) + Stray[NodeOrder[i]]

HealthInv ==
    /\ SetupInv
    /\ HealthTypeOK
    /\ asking = "ping" => Len(seen) < N
    /\ asking \in {"publications", "subscriptions", "slots"} => Len(seen) > 0
    /\ asking = "idle" => seen = << >>
    /\ asking = "done" => Len(seen) = N
    /\ \A i \in DOMAIN seen : Witnessed(i)

LEMMA HealthInitInv == HealthInit => HealthInv
  <1> SUFFICES ASSUME HealthInit PROVE HealthInv
    OBVIOUS
  <1>1. SetupInv
    BY InitInv DEF HealthInit
  <1>2. HealthTypeOK
    BY <1>1, Count DEF HealthInit, HealthTypeOK, SetupInv, N
  <1> QED
    BY <1>1, <1>2 DEF HealthInit, HealthInv

\* Publications and subscriptions only grow.
LEMMA EffectGrows ==
  ASSUME NEW c, Effect(c)
  PROVE  pubs \subseteq pubs' /\ subs \subseteq subs'
  BY DEF Effect

LEMMA SetupGrows ==
  ASSUME SetupNext
  PROVE  pubs \subseteq pubs' /\ subs \subseteq subs'
  <1>1. UNCHANGED catalog \/ \E c : Effect(c)
    BY DEF SetupNext, Start, Step, Check, Create, Reject, Fail, Stop, InDoubt
  <1> QED
    BY <1>1, EffectGrows DEF catalog

LEMMA StillWitnessed ==
  ASSUME subs' \subseteq Pair, pubs \subseteq pubs', subs \subseteq subs',
         NEW i \in 1..N, Witnessed(i), seen[i].subscriptions \in Nat,
         seen'[i].publication = seen[i].publication,
         seen'[i].subscriptions = seen[i].subscriptions
  PROVE  Witnessed(i)'
  <1> DEFINE n == NodeOrder[i]
  <1>1. n \in Node
    BY Count
  <1>2. IsFiniteSet(Subscriptions(n)') /\ Cardinality(Subscriptions(n)') \in Nat
    <2>1. Subscriptions(n)' \in SUBSET Peerings(n)
      BY DEF Subscriptions, Peerings
    <2> QED
      BY <1>1, <2>1, CountPeerings, FS_Subset, FS_CardinalityType
  <1>3. Subscriptions(n) \in SUBSET (Subscriptions(n)')
    BY DEF Subscriptions
  <1>4. /\ Cardinality(Subscriptions(n)) <= Cardinality(Subscriptions(n)')
        /\ Cardinality(Subscriptions(n)) \in Nat
    BY <1>2, <1>3, FS_Subset, FS_CardinalityType
  <1>5. Stray[n] \in Nat
    BY <1>1, HealthAssumption
  <1> QED
    BY <1>2, <1>4, <1>5 DEF Witnessed

\* A query changes neither the catalogs nor the runs.
LEMMA QueryKeeps ==
  ASSUME SetupInv, UNCHANGED <<catalog, run>>, faults' \in 0..MaxFaults
  PROVE  SetupInv' /\ pubs' = pubs /\ subs' = subs /\ subs \subseteq Pair
  <1>1. Had' = Had /\ InOrder' /\ UNCHANGED run
    BY CatalogUnchanged DEF SetupInv
  <1>2. \A r \in Run : RunOK(r)'
    BY <1>1, OtherRuns DEF SetupInv
  <1>3. TypeOK'
    BY <1>1 DEF SetupInv, TypeOK, InOrder
  <1>4. pubs' = pubs /\ subs' = subs /\ subs \subseteq Pair
    BY DEF catalog, SetupInv, TypeOK, CatalogOK
  <1> QED
    BY <1>1, <1>2, <1>3, <1>4 DEF SetupInv

LEMMA SetupStepInv ==
  ASSUME HealthInv, SetupNext, UNCHANGED <<asking, seen>>
  PROVE  HealthInv'
  <1>1. SetupInv'
    BY NextInv DEF HealthInv
  <1>2. HealthTypeOK'
    BY <1>1 DEF HealthInv, HealthTypeOK, SetupInv
  <1>3. subs' \subseteq Pair
    BY <1>1 DEF SetupInv, TypeOK, CatalogOK
  <1>4. ASSUME NEW i \in DOMAIN seen' PROVE Witnessed(i)'
    <2>1. i \in DOMAIN seen /\ i \in 1..N /\ seen[i].subscriptions \in Nat /\ Witnessed(i)
      <3>1. seen \in Seq(NodeStatus) /\ Len(seen) <= N /\ N \in Nat
        BY Count DEF HealthInv, HealthTypeOK, N
      <3>2. i \in DOMAIN seen /\ i \in 1..N /\ seen[i] \in NodeStatus
        BY <3>1
      <3> QED
        BY <3>2 DEF HealthInv, NodeStatus
    <2> QED
      BY <1>3, <2>1, SetupGrows, StillWitnessed
  <1> QED
    BY <1>1, <1>2, <1>4 DEF HealthInv

\* A query that replaces the last status by one that is witnessed, or notes a
\* warning in it.
LEMMA AnswerInv ==
  ASSUME HealthInv, NEW now \in {"publications", "subscriptions", "slots"},
         NEW next, Query(now, next), NEW status \in NodeStatus, Answer(status),
         status.publication => seen[Len(seen)].publication \/ TheNode \in pubs,
         \/ status.subscriptions = seen[Len(seen)].subscriptions
         \/ status.subscriptions = Cardinality(Subscriptions(TheNode)) + Stray[TheNode],
         \/ next \in {"subscriptions", "slots"}
         \/ next = AfterNode
  PROVE  HealthInv'
  <1> PICK l \in Nat : l = Len(seen)
    BY DEF HealthInv, HealthTypeOK
  <1>1. /\ seen \in Seq(NodeStatus) /\ l \in 1..N /\ N \in Nat /\ Len(NodeOrder) = N
        /\ seen[l] \in NodeStatus /\ asking = now
    BY Count DEF HealthInv, HealthTypeOK, N, Query
  <1>2. faults' \in 0..MaxFaults
    BY SetupAssumption, OrderAssumption DEF HealthInv, HealthTypeOK, TypeOK, Answer
  <1>3. SetupInv' /\ pubs' = pubs /\ subs' = subs /\ subs \subseteq Pair
    BY <1>2, QueryKeeps DEF HealthInv, Query
  <1>4. PICK new \in NodeStatus :
          /\ seen' = [seen EXCEPT ![l] = new]
          /\ new.publication => seen[l].publication \/ TheNode \in pubs
          /\ \/ new.subscriptions = seen[l].subscriptions
             \/ new.subscriptions = Cardinality(Subscriptions(TheNode)) + Stray[TheNode]
    <2>1. CASE seen' = [seen EXCEPT ![l] = status]
      BY <2>1
    <2>2. CASE seen' = [seen EXCEPT ![l].warning = TRUE]
      <3> DEFINE new == [seen[l] EXCEPT !.warning = TRUE]
      <3>1. new \in NodeStatus /\ new.publication = seen[l].publication
            /\ new.subscriptions = seen[l].subscriptions
        BY <1>1 DEF NodeStatus
      <3>2. seen' = [seen EXCEPT ![l] = new]
        BY <2>2
      <3> QED
        BY <3>1, <3>2
    <2> QED
      BY <2>1, <2>2 DEF Answer
  <1>5. /\ seen' \in Seq(NodeStatus) /\ Len(seen') = l /\ seen'[l] = new
        /\ \A i \in DOMAIN seen' : i \in 1..l /\ (i # l => seen'[i] = seen[i])
    BY <1>1, <1>4
  <1>6. asking' = next /\ next \in {"subscriptions", "slots", "ping", "done"}
        /\ (next = "ping" => l < N) /\ (next = "done" => l = N)
    BY <1>1 DEF Query, AfterNode
  <1>7. HealthTypeOK'
    BY <1>1, <1>3, <1>5, <1>6 DEF HealthTypeOK, SetupInv, N
  <1>8. Witnessed(l)'
    <2>1. Witnessed(l)
      BY <1>1 DEF HealthInv
    <2>2. (TheNode = NodeOrder[l]) /\ Subscriptions(NodeOrder[l])' = Subscriptions(NodeOrder[l])
      BY <1>3 DEF TheNode, Subscriptions
    <2>3. Cardinality(Subscriptions(NodeOrder[l])) + Stray[NodeOrder[l]] \in Nat
      <3>1. NodeOrder[l] \in Node
        BY <1>1, Count
      <3>2. Cardinality(Subscriptions(NodeOrder[l])) \in Nat
        BY <1>1, <1>3, <3>1, Count, CountSubscriptions
      <3> QED
        BY <3>1, <3>2, HealthAssumption
    <2>4. new.publication => NodeOrder[l] \in pubs
      BY <1>4, <2>1, <2>2 DEF Witnessed
    <2>5. new.subscriptions <= Cardinality(Subscriptions(NodeOrder[l])) + Stray[NodeOrder[l]]
      BY <1>4, <2>1, <2>2, <2>3 DEF Witnessed
    <2> QED
      BY <1>3, <1>5, <2>2, <2>4, <2>5 DEF Witnessed
  <1>9. ASSUME NEW i \in DOMAIN seen' PROVE Witnessed(i)'
    <2>1. CASE i = l
      BY <1>8, <2>1
    <2>2. CASE i # l
      <3>1. i \in 1..N /\ i \in DOMAIN seen /\ seen'[i] = seen[i] /\ seen[i] \in NodeStatus
        BY <1>1, <1>5, <2>2
      <3>2. Witnessed(i) /\ seen[i].subscriptions \in Nat
        BY <3>1 DEF HealthInv, NodeStatus
      <3> QED
        BY <1>3, <3>1, <3>2, StillWitnessed
    <2> QED
      BY <2>1, <2>2
  <1> QED
    BY <1>1, <1>3, <1>5, <1>6, <1>7, <1>9 DEF HealthInv

LEMMA AskPublicationsInv ==
  ASSUME HealthInv, AskPublications
  PROVE  HealthInv'
  <1> DEFINE status == [seen[Len(seen)] EXCEPT !.publication = TheNode \in pubs]
  <1>1. Query("publications", "subscriptions") /\ Answer(status)
    BY DEF AskPublications
  <1>2. seen[Len(seen)] \in NodeStatus
    BY <1>1 DEF HealthInv, HealthTypeOK, Query
  <1>3. /\ status \in NodeStatus /\ (status.publication => TheNode \in pubs)
        /\ status.subscriptions = seen[Len(seen)].subscriptions
    <2>1. CASE TheNode \in pubs
      <3>1. status = [seen[Len(seen)] EXCEPT !.publication = TRUE]
        BY <2>1
      <3> QED
        BY <1>2, <2>1, <3>1 DEF NodeStatus
    <2>2. CASE TheNode \notin pubs
      <3>1. (TheNode \in pubs) = FALSE
        BY <2>2
      <3>2. status = [seen[Len(seen)] EXCEPT !.publication = FALSE]
        BY <3>1
      <3> QED
        BY <1>2, <2>2, <3>2 DEF NodeStatus
    <2> QED
      BY <2>1, <2>2
  <1> HIDE DEF status
  <1> QED
    BY <1>1, <1>3, AnswerInv

LEMMA AskSubscriptionsInv ==
  ASSUME HealthInv, AskSubscriptions
  PROVE  HealthInv'
  <1> DEFINE count == Cardinality(Subscriptions(TheNode)) + Stray[TheNode]
             status == [seen[Len(seen)] EXCEPT !.subscriptions = count]
  <1>1. Query("subscriptions", "slots") /\ Answer(status)
    BY DEF AskSubscriptions, Subscriptions
  <1>2. seen[Len(seen)] \in NodeStatus /\ TheNode \in Node
    <2>1. seen \in Seq(NodeStatus) /\ Len(seen) \in 1..N
      BY <1>1, Count DEF HealthInv, HealthTypeOK, Query, N
    <2> QED
      BY <2>1, Count DEF TheNode
  <1>3. count \in Nat
    <2>1. subs \subseteq Pair
      BY DEF HealthInv, SetupInv, TypeOK, CatalogOK
    <2>2. Cardinality(Subscriptions(TheNode)) \in 0..(N - 1)
      BY <1>2, <2>1, CountSubscriptions
    <2> QED
      BY <1>2, <2>2, Count, HealthAssumption
  <1>4. /\ status \in NodeStatus /\ status.publication = seen[Len(seen)].publication
        /\ status.subscriptions = Cardinality(Subscriptions(TheNode)) + Stray[TheNode]
    BY <1>2, <1>3 DEF NodeStatus
  <1> HIDE DEF status
  <1>5. status.publication => seen[Len(seen)].publication
    BY <1>4
  <1> QED
    BY <1>1, <1>4, <1>5, AnswerInv

LEMMA AskSlotsInv ==
  ASSUME HealthInv, AskSlots
  PROVE  HealthInv'
  <1>1. Query("slots", AfterNode) /\ Answer(seen[Len(seen)])
    BY DEF AskSlots
  <1>2. seen[Len(seen)] \in NodeStatus
    BY <1>1 DEF HealthInv, HealthTypeOK, Query
  <1> QED
    BY <1>1, <1>2, AnswerInv

LEMMA BeginCheckInv ==
  ASSUME HealthInv, BeginCheck
  PROVE  HealthInv'
  <1>1. faults' \in 0..MaxFaults
    BY DEF BeginCheck, HealthInv, HealthTypeOK, TypeOK
  <1>2. SetupInv' /\ UNCHANGED <<pubs, subs>>
    BY <1>1, QueryKeeps DEF HealthInv, BeginCheck, Query
  <1>3. seen = << >> /\ seen' = << >> /\ asking' = "ping"
    BY DEF BeginCheck, Query, HealthInv
  <1> QED
    BY <1>2, <1>3, Count DEF HealthInv, HealthTypeOK, SetupInv, N

LEMMA AskNodeInv ==
  ASSUME HealthInv, AskNode
  PROVE  HealthInv'
  <1>1. PICK new \in NodeStatus, next \in {"publications", "ping", "done"} :
          /\ asking = "ping" /\ asking' = next /\ UNCHANGED <<catalog, run>>
          /\ seen' = Append(seen, new) /\ ~new.publication /\ new.subscriptions = 0
          /\ next # "publications" =>
                next = IF Len(seen) + 1 < Len(NodeOrder) THEN "ping" ELSE "done"
          /\ faults' \in 0..MaxFaults
    <2> DEFINE n == NodeOrder[Len(seen) + 1]
    <2>1. faults \in 0..MaxFaults /\ MaxFaults \in Nat /\ Cardinality(Node) \in Nat
      BY SetupAssumption, Count DEF HealthInv, HealthTypeOK, TypeOK, N
    <2>2. ASSUME NEW logical \in BOOLEAN, NEW warning \in BOOLEAN
          PROVE  /\ Reached(logical, warning) \in NodeStatus
                 /\ ~Reached(logical, warning).publication
                 /\ Reached(logical, warning).subscriptions = 0
      BY <2>1 DEF NodeStatus, Reached
    <2>3. Unreachable \in NodeStatus /\ ~Unreachable.publication /\ Unreachable.subscriptions = 0
      BY <2>1 DEF Unreachable, NodeStatus
    <2>4. CASE /\ Query("ping", "publications")
               /\ seen' = Append(seen, Reached(n \in Logical, FALSE))
               /\ UNCHANGED faults
      <3>1. Reached(n \in Logical, FALSE) = Reached(TRUE, FALSE)
              \/ Reached(n \in Logical, FALSE) = Reached(FALSE, FALSE)
        <4>1. CASE n \in Logical
          <5>1. (n \in Logical) = TRUE
            BY <4>1
          <5> QED
            BY <5>1
        <4>2. CASE n \notin Logical
          <5>1. (n \in Logical) = FALSE
            BY <4>2
          <5> QED
            BY <5>1
        <4> QED
          BY <4>1, <4>2
      <3>2. PICK new : new \in NodeStatus /\ ~new.publication /\ new.subscriptions = 0
                        /\ seen' = Append(seen, new)
        BY <2>2, <2>4, <3>1
      <3>3. asking = "ping" /\ asking' = "publications" /\ UNCHANGED <<catalog, run>>
        BY <2>4 DEF Query
      <3>4. faults' \in 0..MaxFaults
        BY <2>1, <2>4
      <3> QED
        BY <3>2, <3>3, <3>4
    <2>5. CASE /\ Query("ping", "publications")
               /\ faults < MaxFaults
               /\ faults' = faults + 1
               /\ \E logical \in BOOLEAN :
                    /\ logical => n \in Logical
                    /\ seen' = Append(seen, Reached(logical, TRUE))
      <3>1. PICK logical \in BOOLEAN : seen' = Append(seen, Reached(logical, TRUE))
        BY <2>5
      <3>2. PICK new : new \in NodeStatus /\ ~new.publication /\ new.subscriptions = 0
                        /\ seen' = Append(seen, new)
        BY <2>2, <3>1
      <3>3. asking = "ping" /\ asking' = "publications" /\ UNCHANGED <<catalog, run>>
        BY <2>5 DEF Query
      <3>4. faults' \in 0..MaxFaults
        BY <2>1, <2>5
      <3> QED
        BY <3>2, <3>3, <3>4
    <2>6. CASE /\ Query("ping", IF Len(seen) + 1 < Len(NodeOrder) THEN "ping" ELSE "done")
               /\ faults < MaxFaults
               /\ faults' = faults + 1
               /\ seen' = Append(seen, Unreachable)
      BY <2>1, <2>3, <2>6 DEF Query
    <2> QED
      BY <2>4, <2>5, <2>6 DEF AskNode
  <1>2. SetupInv' /\ pubs' = pubs /\ subs' = subs /\ subs \subseteq Pair
    BY <1>1, QueryKeeps DEF HealthInv
  <1>3. /\ seen \in Seq(NodeStatus) /\ Len(seen) \in Nat /\ Len(seen) < N /\ Len(NodeOrder) = N
        /\ seen' \in Seq(NodeStatus) /\ Len(seen') = Len(seen) + 1
        /\ \A i \in DOMAIN seen' : i \in 1..N
             /\ \/ i \in DOMAIN seen /\ seen'[i] = seen[i]
                \/ seen'[i] = new
    BY <1>1, Count DEF HealthInv, HealthTypeOK
  <1>4. ASSUME NEW i \in DOMAIN seen' PROVE Witnessed(i)'
    <2>1. CASE i \in DOMAIN seen /\ seen'[i] = seen[i]
      <3>1. seen[i] \in NodeStatus
        BY <1>3, <2>1
      <3>2. Witnessed(i) /\ seen[i].subscriptions \in Nat
        BY <2>1, <3>1 DEF HealthInv, NodeStatus
      <3> QED
        BY <1>2, <1>3, <2>1, <3>2, StillWitnessed
    <2>2. CASE seen'[i] = new
      <3>1. NodeOrder[i] \in Node
        BY <1>3, Count
      <3>2. Cardinality(Subscriptions(NodeOrder[i])) + Stray[NodeOrder[i]] \in Nat
        <4>1. Cardinality(Subscriptions(NodeOrder[i])) \in Nat
          BY <1>2, <3>1, Count, CountSubscriptions
        <4> QED
          BY <3>1, <4>1, HealthAssumption
      <3>3. Subscriptions(NodeOrder[i])' = Subscriptions(NodeOrder[i])
        BY <1>2 DEF Subscriptions
      <3> QED
        BY <1>1, <2>2, <3>2, <3>3 DEF Witnessed
    <2> QED
      BY <1>3, <2>1, <2>2
  <1>5. HealthTypeOK'
    BY <1>1, <1>2, <1>3 DEF HealthTypeOK, SetupInv, N
  <1> QED
    BY <1>1, <1>2, <1>3, <1>4, <1>5, Count DEF HealthInv

LEMMA HealthNextInv == HealthInv /\ [HealthNext]_healthVars => HealthInv'
  <1> SUFFICES ASSUME HealthInv, [HealthNext]_healthVars PROVE HealthInv'
    OBVIOUS
  <1>1. CASE SetupNext /\ UNCHANGED <<asking, seen>>
    BY <1>1, SetupStepInv
  <1>2. CASE CheckHealth
    BY <1>2, BeginCheckInv, AskNodeInv, AskPublicationsInv, AskSubscriptionsInv, AskSlotsInv
       DEF CheckHealth
  <1>3. CASE UNCHANGED healthVars
    <2>1. UNCHANGED <<catalog, run>> /\ UNCHANGED <<faults, asking, seen, pubs, subs>>
      BY <1>3 DEF healthVars, catalog
    <2>2. SetupInv'
      BY <2>1, QueryKeeps DEF HealthInv, HealthTypeOK, TypeOK
    <2>3. \A i \in DOMAIN seen : Witnessed(i)'
      BY <2>1 DEF Witnessed, Subscriptions, HealthInv
    <2>4. HealthTypeOK'
      BY <2>1, <2>2 DEF HealthInv, HealthTypeOK, SetupInv
    <2> QED
      BY <2>1, <2>2, <2>3, <2>4 DEF HealthInv
  <1> QED
    BY <1>1, <1>2, <1>3 DEF HealthNext

\* The runs, the catalogs and the answers of a health check keep their types.
THEOREM HealthTyping == HealthSpec => []HealthTypeOK
  <1>1. HealthInv => HealthTypeOK
    BY DEF HealthInv
  <1> QED
    BY <1>1, HealthInitInv, HealthNextInv, PTL DEF HealthSpec

\* A health check without issues has found every publication, and every
\* subscription but for as many as the node has of others, although it only counts
\* and looks at each node at another time.
THEOREM NoIssuesIsMesh == HealthSpec => []NoIssuesMeansMesh
  <1>1. ASSUME HealthInv, asking = "done", NoIssues
        PROVE  /\ Healthy /\ pubs = Node
               /\ \A n \in Node : Cardinality(Lacking(n)) <= Stray[n]
    <2>1. /\ subs \subseteq Pair /\ pubs \subseteq Node
          /\ seen \in Seq(NodeStatus) /\ Len(seen) = N /\ N \in Nat
      BY <1>1, Count DEF HealthInv, HealthTypeOK, SetupInv, TypeOK, CatalogOK
    <2>2. ASSUME NEW n \in Node PROVE n \in pubs /\ Cardinality(Lacking(n)) <= Stray[n]
      <3>1. PICK i \in 1..N : NodeOrder[i] = n
        BY OrderAssumption DEF N
      <3>2. i \in DOMAIN seen /\ seen[i] \in NodeStatus /\ Witnessed(i) /\ ~HasIssue(seen[i])
        BY <1>1, <2>1 DEF HealthInv, NoIssues
      <3>3. seen[i].publication /\ ~(seen[i].subscriptions < N - 1) /\ seen[i].subscriptions \in Nat
        BY <3>2 DEF HasIssue, NodeStatus, N
      <3>4. /\ Cardinality(Subscriptions(n)) \in 0..(N - 1)
            /\ Cardinality(Lacking(n)) = N - 1 - Cardinality(Subscriptions(n))
        BY <2>1, CountSubscriptions
      <3>5. n \in pubs /\ Cardinality(Subscriptions(n)) + Stray[n] >= N - 1
        BY <2>1, <3>1, <3>2, <3>3, <3>4, HealthAssumption DEF Witnessed
      <3> QED
        BY <2>1, <3>4, <3>5, HealthAssumption
    <2>3. Healthy
      BY <1>1 DEF NoIssues, HasIssue, Healthy
    <2> QED
      BY <2>1, <2>2, <2>3
  <1>2. HealthInv => NoIssuesMeansMesh
    BY <1>1 DEF NoIssuesMeansMesh
  <1> QED
    BY <1>2, HealthInitInv, HealthNextInv, PTL DEF HealthSpec

-----------------------------------------------------------------------------
(* A check of a complete mesh. *)

\* Nothing is missing, and nothing fails any more.
Complete == pubs = Node /\ subs = Pair /\ Logical = Node /\ faults = MaxFaults

\* What has been asked of node i so far has no issue.
Clean(i) ==
    /\ seen[i].reachable /\ seen[i].logical /\ ~seen[i].warning
    /\ i < Len(seen) \/ asking # "publications" => seen[i].publication
    /\ i < Len(seen) \/ asking \notin {"publications", "subscriptions"} =>
         seen[i].subscriptions >= N - 1

AllClean == Complete /\ \A i \in DOMAIN seen : Clean(i)

\* A step that leaves the answers alone and only ends the wait for one.
LEMMA CleanAnswers ==
  ASSUME HealthInv, AllClean, Complete',
         NEW l \in 1..N, l = Len(seen), asking \in {"publications", "subscriptions", "slots"},
         NEW new \in NodeStatus, seen' = [seen EXCEPT ![l] = new],
         new.reachable /\ new.logical /\ ~new.warning,
         asking' # "publications" => new.publication,
         asking' \notin {"publications", "subscriptions"} => new.subscriptions >= N - 1
  PROVE  AllClean'
  <1>1. seen \in Seq(NodeStatus)
    BY DEF HealthInv, HealthTypeOK
  <1>2. Len(seen') = l /\ DOMAIN seen' = 1..l /\ seen'[l] = new
        /\ \A i \in 1..l : i # l => seen'[i] = seen[i] /\ i < l
    BY <1>1
  <1>3. ASSUME NEW i \in 1..l PROVE Clean(i)'
    <2>1. CASE i = l
      BY <1>2, <2>1 DEF Clean
    <2>2. CASE i # l
      <3>1. Clean(i) /\ seen'[i] = seen[i] /\ i < Len(seen) /\ i < Len(seen')
        BY <1>1, <1>2, <2>2 DEF AllClean
      <3> QED
        BY <3>1 DEF Clean
    <2> QED
      BY <2>1, <2>2
  <1> QED
    BY <1>2, <1>3 DEF AllClean

\* The commands change nothing in a complete mesh that the check looks at.
LEMMA CompleteStays ==
  ASSUME HealthInv, HealthInv', Complete, [HealthNext]_healthVars
  PROVE  Complete'
  <1>1. pubs \subseteq pubs' /\ subs \subseteq subs'
    <2>1. CASE SetupNext
      BY <2>1, SetupGrows
    <2>2. CASE CheckHealth
      BY <2>2 DEF CheckHealth, BeginCheck, AskNode, AskPublications, AskSubscriptions, AskSlots,
                  Query, catalog
    <2>3. CASE UNCHANGED healthVars
      BY <2>3 DEF healthVars
    <2> QED
      BY <2>1, <2>2, <2>3 DEF HealthNext
  <1>2. pubs' \subseteq Node /\ subs' \subseteq Pair
    BY DEF HealthInv, SetupInv, TypeOK, CatalogOK
  <1>3. faults' = faults
    <2>1. ~(faults < MaxFaults)
      BY SetupAssumption DEF Complete
    <2> QED
      BY <2>1 DEF HealthNext, SetupNext, Start, Step, Check, Create, Reject, Fail, Stop,
                  CheckHealth, BeginCheck, AskNode, AskPublications, AskSubscriptions, AskSlots,
                  Answer, healthVars
  <1> QED
    BY <1>1, <1>2, <1>3 DEF Complete

LEMMA CheckStaysClean ==
  ASSUME HealthInv, AllClean, Complete', CheckHealth
  PROVE  AllClean'
  <1>1. ~(faults < MaxFaults)
    BY SetupAssumption DEF AllClean, Complete
  <1>2. seen \in Seq(NodeStatus) /\ Len(seen) \in Nat /\ N \in Nat
    BY Count DEF HealthInv, HealthTypeOK
  <1>3. CASE BeginCheck
    <2>1. seen' = seen /\ seen = << >>
      BY <1>3 DEF BeginCheck, Query, HealthInv
    <2> QED
      BY <2>1 DEF AllClean
  <1>4. CASE AskNode
    <2> DEFINE n == NodeOrder[Len(seen) + 1]
    <2>1. /\ asking = "ping" /\ asking' = "publications"
          /\ seen' = Append(seen, Reached(n \in Logical, FALSE))
      BY <1>1, <1>4 DEF AskNode, Query
    <2>2. n \in Logical
      BY <1>2, <2>1, Count DEF HealthInv, AllClean, Complete
    <2>3. (n \in Logical) = TRUE
      BY <2>2
    <2>4. PICK new \in NodeStatus :
            /\ seen' = Append(seen, new)
            /\ new.reachable /\ new.logical /\ ~new.warning
      <3>1. Reached(TRUE, FALSE) \in NodeStatus
        BY DEF Reached, NodeStatus
      <3>2. Reached(TRUE, FALSE).reachable /\ Reached(TRUE, FALSE).logical
            /\ ~Reached(TRUE, FALSE).warning
        BY DEF Reached
      <3>3. seen' = Append(seen, Reached(TRUE, FALSE))
        BY <2>1, <2>3
      <3> QED
        BY <3>1, <3>2, <3>3
    <2> HIDE DEF n
    <2>6. /\ DOMAIN seen' = 1..(Len(seen) + 1) /\ Len(seen') = Len(seen) + 1
          /\ seen'[Len(seen) + 1] = new
          /\ \A i \in 1..Len(seen) : seen'[i] = seen[i]
      BY <1>2, <2>4
    <2>7. ASSUME NEW i \in 1..(Len(seen) + 1) PROVE Clean(i)'
      <3>1. CASE i = Len(seen) + 1
        <4>1. seen'[i] = new
          BY <2>6, <3>1
        <4>2. ~(i < Len(seen'))
          <5>1. Len(seen) \in Nat /\ Len(seen') = Len(seen) + 1 /\ i = Len(seen) + 1
            BY <1>2, <2>6, <3>1
          <5> QED
            BY ONLY <5>1
        <4>3. asking' = "publications"
          BY <2>1
        <4> QED
          BY <2>4, <4>1, <4>2, <4>3 DEF Clean
      <3>2. CASE i # Len(seen) + 1
        <4>1. i \in DOMAIN seen /\ seen'[i] = seen[i]
          BY <1>2, <2>6, <3>2
        <4>2. Clean(i)
          BY <4>1 DEF AllClean
        <4>3. seen[i].publication /\ seen[i].subscriptions >= N - 1
          BY <2>1, <4>2 DEF Clean
        <4> QED
          BY <4>1, <4>2, <4>3 DEF Clean
      <3> QED
        BY <3>1, <3>2
    <2> QED
      BY <2>6, <2>7 DEF AllClean
  <1>5. CASE AskPublications \/ AskSubscriptions \/ AskSlots
    <2>1. PICK l \in 1..N : l = Len(seen)
      BY <1>2, <1>5 DEF AskPublications, AskSubscriptions, AskSlots, Query, HealthInv,
                        HealthTypeOK, N
    <2>2. /\ seen[l] \in NodeStatus /\ Clean(l) /\ TheNode = NodeOrder[l] /\ TheNode \in Node
          /\ l \in DOMAIN seen
      BY <1>2, <2>1, Count DEF AllClean, TheNode
    <2>3. CASE AskPublications
      <3>1. (TheNode \in pubs) = TRUE
        BY <2>2 DEF AllClean, Complete
      <3> DEFINE new == [seen[l] EXCEPT !.publication = TRUE]
      <3>2. seen' = [seen EXCEPT ![l] = new]
        BY <1>1, <2>1, <2>3, <3>1 DEF AskPublications, Answer
      <3>3. /\ new \in NodeStatus /\ new.publication
            /\ new.reachable /\ new.logical /\ ~new.warning
        BY <2>2 DEF NodeStatus, Clean
      <3>4. asking = "publications" /\ asking' = "subscriptions"
        BY <2>3 DEF AskPublications, Query
      <3> QED
        BY <2>1, <3>2, <3>3, <3>4, CleanAnswers
    <2>4. CASE AskSubscriptions
      <3> DEFINE count == Cardinality(Subscriptions(TheNode)) + Stray[TheNode]
                 new == [seen[l] EXCEPT !.subscriptions = count]
      <3>1. count \in Nat /\ count >= N - 1
        <4>1. Subscriptions(TheNode) = Peerings(TheNode)
          BY DEF AllClean, Complete, Subscriptions, Peerings
        <4> QED
          BY <1>2, <2>2, <4>1, CountPeerings, FS_CardinalityType, HealthAssumption
      <3>2. seen' = [seen EXCEPT ![l] = new]
        BY <1>1, <2>1, <2>4 DEF AskSubscriptions, Answer, Subscriptions
      <3>3. asking = "subscriptions" /\ asking' = "slots"
        BY <2>4 DEF AskSubscriptions, Query
      <3>4. /\ new \in NodeStatus /\ new.publication /\ new.subscriptions >= N - 1
            /\ new.reachable /\ new.logical /\ ~new.warning
        <4> HIDE DEF count
        <4> QED
          BY <2>2, <3>1, <3>3 DEF NodeStatus, Clean
      <3> QED
        BY <2>1, <3>2, <3>3, <3>4, CleanAnswers
    <2>5. CASE AskSlots
      <3>1. seen' = [seen EXCEPT ![l] = seen[l]] /\ asking = "slots"
        BY <1>1, <2>1, <2>5 DEF AskSlots, Answer, Query
      <3>2. /\ seen[l].publication /\ seen[l].subscriptions >= N - 1
            /\ seen[l].reachable /\ seen[l].logical /\ ~seen[l].warning
        BY <2>2, <3>1 DEF Clean
      <3> QED
        BY <2>1, <2>2, <3>1, <3>2, CleanAnswers
    <2> QED
      BY <1>5, <2>3, <2>4, <2>5
  <1> QED
    BY <1>3, <1>4, <1>5 DEF CheckHealth

\* A check that begins when the mesh is complete finds nothing to complain of, for
\* any number of nodes and of other subscriptions, whatever runs beside it: what a
\* node has been asked so far has no issue.
THEOREM NoFalseAlarm == HealthSpec => CompleteMeshIsHealthy
  <1> DEFINE Beginning == asking = "idle" /\ Complete
             Verdict == asking = "done" => Healthy /\ NoIssues
  <1>1. HealthInv /\ Beginning => AllClean
    BY DEF HealthInv, AllClean
  <1>2. HealthInv /\ HealthInv' /\ AllClean /\ [HealthNext]_healthVars => AllClean'
    <2> SUFFICES ASSUME HealthInv, HealthInv', AllClean, [HealthNext]_healthVars PROVE AllClean'
      OBVIOUS
    <2>1. Complete'
      BY CompleteStays DEF AllClean
    <2>2. CASE UNCHANGED <<asking, seen>>
      BY <2>1, <2>2 DEF AllClean, Clean
    <2>3. CASE CheckHealth
      BY <2>1, <2>3, CheckStaysClean
    <2> QED
      BY <2>2, <2>3 DEF HealthNext, healthVars
  <1>3. HealthInv /\ AllClean => Verdict
    <2> SUFFICES ASSUME HealthInv, AllClean, asking = "done", NEW i \in DOMAIN seen
                 PROVE  seen[i].reachable /\ seen[i].logical /\ ~HasIssue(seen[i])
      BY DEF Healthy, NoIssues
    <2>1. Clean(i) /\ seen[i] \in NodeStatus
      BY DEF AllClean, HealthInv, HealthTypeOK
    <2> QED
      BY <2>1, Count DEF Clean, HasIssue, NodeStatus, N
  <1>4. CompleteMeshIsHealthy <=> [](Beginning => []Verdict)
    BY PTL DEF CompleteMeshIsHealthy, Complete
  <1> QED
    BY <1>1, <1>2, <1>3, <1>4, HealthInitInv, HealthNextInv, PTL DEF HealthSpec
=============================================================================
