-------------------------- MODULE BootstrapProofs --------------------------
(***************************************************************************)
(* Proofs about Bootstrap: that slots lose nothing, which subscriptions are *)
(* without one, that a setup which is in sync has the same rows everywhere, *)
(* and that no worker fails in a setup whose application waits for it, for  *)
(* every number of nodes, containers and kills.                             *)
(***************************************************************************)
EXTENDS Bootstrap, MeshProofs, FiniteSetTheorems

-----------------------------------------------------------------------------
(* The loops over the nodes. *)

LEMMA Order ==
    /\ Len(NodeOrder) \in Nat \ {0}
    /\ \A i \in 1..Len(NodeOrder) : NodeOrder[i] \in Node
    /\ \A i, j \in 1..Len(NodeOrder) : NodeOrder[i] = NodeOrder[j] => i = j
<1>1. Cardinality(Node) \in Nat \ {0}
  BY OrderAssumption, FS_CardinalityType, FS_EmptySet
<1>2. Len(NodeOrder) = Cardinality(Node) /\ DOMAIN NodeOrder = 1..Len(NodeOrder)
  BY <1>1, OrderAssumption
<1> QED
  BY <1>1, <1>2, OrderAssumption

\* The loops of the script leave out the node itself.
LEMMA OthersType == \A n \in Node : Others(n) \in Seq(Node \ {n})
<1> SUFFICES ASSUME NEW n \in Node PROVE Others(n) \in Seq(Node \ {n})
  OBVIOUS
<1> DEFINE N == Len(NodeOrder)
           at(i) == IF \E j \in 1..i : NodeOrder[j] = n THEN i + 1 ELSE i
<1>1. ASSUME NEW i \in 1..(N - 1) PROVE NodeOrder[at(i)] \in Node \ {n}
  <2>1. i \in 1..N /\ i + 1 \in 1..N /\ \A j \in 1..i : j \in 1..N /\ j # i + 1
    BY Order
  <2>2. CASE \E j \in 1..i : NodeOrder[j] = n
    <3>1. PICK j \in 1..i : NodeOrder[j] = n
      BY <2>2
    <3>2. NodeOrder[i + 1] # n
      BY <2>1, <3>1, Order
    <3> QED
      BY <2>1, <2>2, <3>2, Order
  <2>3. CASE ~\E j \in 1..i : NodeOrder[j] = n
    BY <2>1, <2>3, Order
  <2> QED
    BY <2>2, <2>3
<1>2. Others(n) = [i \in 1..(N - 1) |-> NodeOrder[at(i)]]
  BY DEF Others
<1>3. Others(n) \in [1..(N - 1) -> Node \ {n}]
  <2> HIDE DEF N, at
  <2> QED
    BY <1>1, <1>2
<1>4. N - 1 \in Nat
  BY Order
<1> QED
  BY <1>3, <1>4

\* The quotient and the remainder by the length of the inner loop.
LEMMA QuotientBelow ==
  ASSUME NEW K \in Nat, NEW M \in Nat \ {0}, NEW i \in 0..(K * M - 1)
  PROVE  i \div M \in 0..(K - 1) /\ i % M \in 0..(M - 1)
  <1> DEFINE q == i \div M
  <1>1. /\ M \in Int /\ M > 0 /\ i \in Int /\ 0 <= i /\ i < K * M
        /\ q \in Int /\ i % M \in 0..(M - 1)
    <2>1. K * M \in Nat
      OBVIOUS
    <2> QED
      BY <2>1
  <1>2. M * q <= i /\ i < M * q + M
    BY <1>1
  <1>3. ~(q < 0)
    <2>1. SUFFICES ASSUME q < 0 PROVE FALSE
      OBVIOUS
    <2>2. M * (-1 - q) >= 0 /\ M * (-1 - q) = -M - M * q
      BY <1>1, <2>1
    <2> QED
      BY <1>1, <1>2, <2>2
  <1>4. ~(K <= q)
    <2>1. SUFFICES ASSUME K <= q PROVE FALSE
      OBVIOUS
    <2>2. M * (q - K) >= 0 /\ M * (q - K) = M * q - K * M
      BY <1>1, <2>1
    <2> QED
      BY <1>1, <1>2, <2>2
  <1> QED
    BY <1>1, <1>3, <1>4

\* The loops of the setup leave out the pairs of a node with itself.
LEMMA PairsType == Pairs \in Seq(Edge)
<1> DEFINE N == Len(NodeOrder)
           M == N - 1
           S(i) == NodeOrder[((i - 1) \div M) + 1]
           P(i) == Others(S(i))[((i - 1) % M) + 1]
<1>1. N \in Nat /\ M \in Nat /\ N * M \in Nat
  BY Order
<1>2. ASSUME NEW i \in 1..(N * M) PROVE <<S(i), P(i)>> \in Edge
  <2>1. M > 0 /\ M \in Int /\ i - 1 \in 0..(N * M - 1) /\ i - 1 \in Int
    BY <1>1
  <2>2. (i - 1) \div M \in 0..(N - 1) /\ (i - 1) % M \in 0..(M - 1)
    <3> HIDE DEF N, M
    <3>1. N \in Nat /\ M \in Nat \ {0}
      BY <1>1, <2>1
    <3> QED
      BY <2>1, <3>1, QuotientBelow
  <2>3. S(i) \in Node
    BY <2>2, Order
  <2>4. P(i) \in Node \ {S(i)}
    <3>1. Others(S(i)) \in Seq(Node \ {S(i)})
      BY <2>3, OthersType
    <3>2. Len(Others(S(i))) = M
      <4> HIDE DEF S
      <4> QED
        BY <1>1 DEF Others
    <3> HIDE DEF M, S
    <3> QED
      BY <1>1, <2>2, <3>1, <3>2
  <2> QED
    BY <2>3, <2>4 DEF Edge
<1>3. Pairs = [i \in 1..(N * M) |-> <<S(i), P(i)>>]
  BY Order DEF Pairs
<1> HIDE DEF N, M, S, P
<1> QED
  BY <1>1, <1>2, <1>3

-----------------------------------------------------------------------------
(* The inductive invariant. *)

ScriptTyping ==
    /\ pc \in [Node -> Label]
    /\ todo \in [Node -> Seq(Node)]
    /\ volume \in [Node -> {"empty", "partial", "full"}]
    /\ pubs \in SUBSET Node
    /\ kills \in Nat
    /\ refused \in SUBSET Edge

\* What a script that has come to l knows of its list t and its directory v.
Fits(l, t, v) ==
    /\ l \in Serving => v = "full"
    /\ l = "look" => v = "empty"
    /\ l = "clone" => v = "partial"
    /\ l \in {"clone", "wait", "slot", "subscribe"} => t # << >>

Places == \A n \in Node : todo[n] \in Seq(Node \ {n}) /\ Fits(pc[n], todo[n], volume[n])

DataTyping == TypeOK /\ given \in [Edge -> SUBSET Row]

\* A node without a complete data directory has neither subscriptions nor changes
\* for anybody, so that a clone overwrites nothing.
Blank ==
    \A n \in Node : volume[n] # "full" =>
        /\ plan = << >>
        /\ \A q \in Edge : sub[n][q] = "none"
        /\ \A s \in Node : stream[n][s] = << >>

\* What a slot holds is stored on its publisher, so that a copy includes it.
Stored == \A p, s \in Node : Range(stream[p][s]) \subseteq rows[p]

\* Each row has a node, the one it was inserted on, from which all subscribers
\* that are in sync have it or will get it.
Offered(r, o) ==
    /\ r \in rows[o]
    /\ \A s \in Node \ {o} :
          sub[s][<<s, o>>] = "ready" => r \in rows[s] \/ r \in Range(stream[o][s])

Spread ==
    NoContainers =>
        /\ \A n \in Node, q \in Edge : sub[n][q] # "none" => n = q[1] /\ q \in slots
        /\ \A n \in Node : \A r \in rows[n] : \E o \in Node : Offered(r, o)

\* What a node that has the subscription of q has of the rows q's slot was given.
Applied(q, r) == \E n \in Node : sub[n][q] # "none" /\ r \in rows[n]

Kept == \A q \in Edge : \A r \in given[q] : r \in Range(stream[q[2]][q[1]]) \/ Applied(q, r)

BootInv ==
    ScriptTyping /\ Places /\ DataTyping /\ Blank /\ Stored /\ Kept /\ Spread

-----------------------------------------------------------------------------
(* The scripts. *)

Move(n, l, t, v) ==
    /\ pc' = [pc EXCEPT ![n] = l]
    /\ todo' = [todo EXCEPT ![n] = t]
    /\ volume' = [volume EXCEPT ![n] = v]

\* A script that moves to a place that fits keeps what is known of all scripts.
LEMMA MoveKeeps ==
    ASSUME ScriptTyping, Places, NEW n \in Node,
           NEW l \in Label, NEW t \in Seq(Node \ {n}), NEW v \in {"empty", "partial", "full"},
           Fits(l, t, v), Move(n, l, t, v), pubs' \in SUBSET Node, kills' \in Nat,
           refused' \in SUBSET Edge
    PROVE  ScriptTyping' /\ Places'
<1>1. pc' \in [Node -> Label] /\ volume' \in [Node -> {"empty", "partial", "full"}]
  BY DEF ScriptTyping, Move
<1>2. todo' \in [Node -> Seq(Node)]
  <2>1. t \in Seq(Node)
    OBVIOUS
  <2> QED
    BY <2>1 DEF ScriptTyping, Move
<1>3. ASSUME NEW m \in Node
      PROVE  todo'[m] \in Seq(Node \ {m}) /\ Fits(pc'[m], todo'[m], volume'[m])
  <2>1. CASE m = n
    BY <2>1 DEF Move, ScriptTyping
  <2>2. CASE m # n
    BY <2>2 DEF Move, Places, ScriptTyping
  <2> QED
    BY <2>1, <2>2
<1> QED
  BY <1>1, <1>2, <1>3 DEF ScriptTyping, Places

\* A step of a script that leaves the tables and streams alone.
LEMMA QuietMove ==
    ASSUME BootInv, NEW n \in Node, pc[n] # "peer",
           NEW l \in Label \ {"peer"}, NEW t \in Seq(Node \ {n}),
           NEW v \in {"empty", "partial", "full"},
           Fits(l, t, v), Move(n, l, t, v), pubs' \in SUBSET Node, kills' \in Nat,
           refused' \in SUBSET Edge,
           volume[n] = "full" => v = "full", UNCHANGED <<data, given>>
    PROVE  BootInv'
<1>1. ScriptTyping' /\ Places'
  BY MoveKeeps DEF BootInv
<1>2. DataTyping' /\ Stored' /\ Kept'
  BY DEF BootInv, DataTyping, TypeOK, Stored, Kept, Applied, data
<1>3. Blank'
  <2>1. \A m \in Node : volume'[m] # "full" => volume[m] # "full"
    BY DEF Move, BootInv, ScriptTyping
  <2> QED
    BY <2>1 DEF BootInv, Blank, data
<1>4. Spread'
  <2>1. pc'[n] # "peer"
    BY DEF Move, BootInv, ScriptTyping
  <2> QED
    BY <2>1 DEF Spread, NoContainers
<1> QED
  BY <1>1, <1>2, <1>3, <1>4 DEF BootInv

LEMMA ScriptFacts ==
    ASSUME BootInv, NEW n \in Node
    PROVE  /\ todo = [todo EXCEPT ![n] = todo[n]] /\ volume = [volume EXCEPT ![n] = volume[n]]
           /\ pubs \in SUBSET Node /\ kills \in Nat /\ refused \in SUBSET Edge
           /\ pc[n] \in Label /\ volume[n] \in {"empty", "partial", "full"}
           /\ todo[n] \in Seq(Node \ {n}) /\ Fits(pc[n], todo[n], volume[n])
           /\ Others(n) \in Seq(Node \ {n})
           /\ todo[n] # << >> => Head(todo[n]) \in Node \ {n} /\ Tail(todo[n]) \in Seq(Node \ {n})
<1>1. todo[n] \in Seq(Node \ {n}) /\ Fits(pc[n], todo[n], volume[n])
  BY DEF BootInv, Places
<1>2. todo = [todo EXCEPT ![n] = todo[n]] /\ volume = [volume EXCEPT ![n] = volume[n]]
  BY DEF BootInv, ScriptTyping
<1>3. pubs \in SUBSET Node /\ kills \in Nat /\ refused \in SUBSET Edge
      /\ pc[n] \in Label /\ volume[n] \in {"empty", "partial", "full"}
  BY DEF BootInv, ScriptTyping
<1>4. todo[n] # << >> => Head(todo[n]) \in Node \ {n} /\ Tail(todo[n]) \in Seq(Node \ {n})
  BY <1>1
<1> QED
  BY <1>1, <1>2, <1>3, <1>4, OthersType

\* The steps of a script that only concern itself, and its end.
LEMMA QuietSteps ==
    ASSUME BootInv, NEW n \in Node,
           \/ StartContainer(n) \/ FindDonor(n) \/ SkipDonor(n) \/ CloneFails(n) \/ Boot(n)
           \/ Configure(n) \/ FindPeer(n) \/ SkipPeer(n) \/ MakeSlotErrs(n) \/ MakeSlotFails(n)
           \/ Kill(n)
    PROVE  BootInv'
<1> DEFINE Moves(l, t, v) ==
             /\ l \in Label \ {"peer"} /\ t \in Seq(Node \ {n})
             /\ v \in {"empty", "partial", "full"} /\ Fits(l, t, v) /\ Move(n, l, t, v)
             /\ pubs' \in SUBSET Node /\ kills' \in Nat /\ refused' \in SUBSET Edge /\ pc[n] # "peer"
             /\ volume[n] = "full" => v = "full"
             /\ UNCHANGED <<data, given>>
<1>1. SUFFICES \E l, t, v : Moves(l, t, v)
  BY QuietMove
<1> USE ScriptFacts
<1>0. << >> \in Seq(Node \ {n})
  OBVIOUS
<1>2. CASE StartContainer(n)
  <2> DEFINE l == IF volume[n] = "empty" THEN "look" ELSE "boot"
  <2>1. Moves(l, Others(n), volume[n])
    BY <1>2 DEF StartContainer, Goto, Move, Fits, Label, Serving
  <2> QED
    BY <2>1
<1>3. CASE FindDonor(n)
  <2>1. Moves("clone", todo[n], "partial")
    BY <1>3 DEF FindDonor, Goto, Move, Fits, Label, Serving
  <2> QED
    BY <2>1
<1>4. CASE SkipDonor(n)
  <2>1. Moves("look", Tail(todo[n]), volume[n])
    BY <1>4 DEF SkipDonor, Goto, Move, Fits, Label, Serving
  <2> QED
    BY <2>1
<1>5. CASE CloneFails(n)
  <2>1. Moves("off", << >>, "empty")
    BY <1>0, <1>5 DEF CloneFails, Exit, Move, Fits, Label, Serving
  <2> QED
    BY <2>1
<1>6. CASE Boot(n)
  <2>1. Moves("publish", Others(n), "full")
    BY <1>6 DEF Boot, Goto, Move, Fits, Label, Serving
  <2> QED
    BY <2>1
<1>7. CASE Configure(n)
  <2> DEFINE l == IF todo[n] = << >> THEN "done" ELSE "wait"
  <2>1. Moves(l, todo[n], volume[n])
    BY <1>7 DEF Configure, Goto, Move, Fits, Label, Serving
  <2> QED
    BY <2>1
<1>8. CASE FindPeer(n)
  <2>1. Moves("slot", todo[n], volume[n])
    BY <1>8 DEF FindPeer, Goto, Move, Fits, Label, Serving
  <2> QED
    BY <2>1
<1>9. CASE SkipPeer(n)
  <2> DEFINE l == IF Len(todo[n]) = 1 THEN "done" ELSE "wait"
  <2>1. todo[n] # << >> /\ l \in {"wait", "done"} /\ (l = "wait" => Tail(todo[n]) # << >>)
    <3> DEFINE t == todo[n]
    <3>1. t \in Seq(Node \ {n}) /\ t # << >>
      BY <1>9 DEF SkipPeer, NextPeer, Goto, Fits
    <3>2. IF Len(t) = 1 THEN l = "done" ELSE l = "wait"
      OBVIOUS
    <3> HIDE DEF t, l
    <3>3. Len(t) # 1 => Tail(t) # << >>
      <4>1. Len(t) \in Nat /\ Len(t) # 0 /\ Len(Tail(t)) = Len(t) - 1
        BY <3>1
      <4>2. Len(<< >>) = 0
        OBVIOUS
      <4> QED
        BY <4>1, <4>2
    <3> QED
      BY <3>1, <3>2, <3>3 DEF t
  <2> HIDE DEF l
  <2>2. Move(n, l, Tail(todo[n]), volume[n])
    BY <1>9 DEF SkipPeer, NextPeer, Goto, Move, l
  <2>3. Moves(l, Tail(todo[n]), volume[n])
    BY <1>9, <2>1, <2>2 DEF SkipPeer, NextPeer, Goto, Fits, Label, Serving
  <2> QED
    BY <2>3
<1>10. CASE MakeSlotFails(n)
  <2>1. Moves("off", << >>, volume[n])
    BY <1>0, <1>10 DEF MakeSlotFails, Exit, Move, Fits, Label, Serving
  <2> QED
    BY <2>1
<1>11. CASE Kill(n)
  <2>1. kills' \in Nat
    <3>1. kills \in Nat
      OBVIOUS
    <3>2. kills > 0 /\ kills' = kills - 1
      BY <1>11 DEF Kill
    <3> QED
      BY ONLY <3>1, <3>2
  <2>2. Move(n, "off", << >>, volume[n])
    BY <1>11 DEF Kill, Exit, Move
  <2>3. pc[n] # "peer" /\ UNCHANGED <<data, given, pubs, refused>>
    BY <1>11 DEF Kill
  <2>4. Moves("off", << >>, volume[n])
    BY <1>0, <2>1, <2>2, <2>3 DEF Fits, Label, Serving
  <2> QED
    BY <2>4
<1>12. CASE MakeSlotErrs(n)
  <2>1. todo[n] # << >> /\ volume[n] = "full" /\ <<n, Head(todo[n])>> \in Edge
    BY <1>12 DEF MakeSlotErrs, Goto, Fits, Serving, Edge
  <2>2. Moves("subscribe", todo[n], volume[n])
    BY <1>12, <2>1 DEF MakeSlotErrs, Goto, Move, Fits, Label, Serving
  <2> QED
    BY <2>2
<1> QED
  BY <1>2, <1>3, <1>4, <1>5, <1>6, <1>7, <1>8, <1>9, <1>10, <1>11, <1>12

LEMMA Types ==
    ASSUME BootInv
    PROVE  /\ rows \in [Node -> SUBSET Row] /\ stream \in [Node -> [Node -> Seq(Row)]]
           /\ plan \in Seq(Edge) /\ slots \in SUBSET Edge /\ fresh \in SUBSET Row
           /\ sub \in [Node -> [Edge -> State]] /\ given \in [Edge -> SUBSET Row]
           /\ volume \in [Node -> {"empty", "partial", "full"}] /\ pc \in [Node -> Label]
BY DEF BootInv, DataTyping, TypeOK, ScriptTyping

\* A clone overwrites nothing: the node was blank.
LEMMA CloneStep ==
    ASSUME BootInv, NEW n \in Node, Clone(n)
    PROVE  BootInv'
<1> DEFINE donor == Head(todo[n])
<1>1. /\ volume[n] = "partial" /\ donor \in Node \ {n} /\ pc[n] = "clone"
      /\ Move(n, "boot", todo[n], "full") /\ UNCHANGED <<pubs, kills, refused>>
  BY ScriptFacts DEF Clone, Goto, Fits, Move
<1>2. /\ rows' = [rows EXCEPT ![n] = rows[donor]] /\ sub' = [sub EXCEPT ![n] = sub[donor]]
      /\ UNCHANGED <<stream, plan, slots, fresh, given>>
  BY DEF Clone
<1> HIDE DEF donor
<1>3. ScriptTyping' /\ Places'
  <2>1. "boot" \in Label /\ Fits("boot", todo[n], "full")
    BY DEF Label, Serving, Fits
  <2> QED
    BY <1>1, <2>1, ScriptFacts, MoveKeeps DEF BootInv
<1>4. DataTyping'
  BY <1>1, <1>2, Types DEF DataTyping, TypeOK
<1>5. \A m \in Node : m # n => /\ rows'[m] = rows[m] /\ sub'[m] = sub[m]
                              /\ volume'[m] = volume[m]
  BY <1>1, <1>2, Types DEF Move
<1>6. volume'[n] = "full" /\ pc'[n] = "boot"
  BY <1>1, Types DEF Move
<1>7. (\A q \in Edge : sub[n][q] = "none") /\ (\A s \in Node : stream[n][s] = << >>)
  BY <1>1 DEF BootInv, Blank
<1>8. Blank'
  BY <1>2, <1>5, <1>6 DEF BootInv, Blank
<1>9. Stored'
  <2>1. Range(<< >>) = {}
    BY DEF Range
  <2> QED
    BY <1>2, <1>5, <1>7, <2>1 DEF BootInv, Stored
<1>10. Kept'
  BY <1>2, <1>5, <1>7 DEF BootInv, Kept, Applied
<1>11. Spread'
  BY <1>6 DEF Spread, NoContainers
<1> QED
  BY <1>3, <1>4, <1>8, <1>9, <1>10, <1>11 DEF BootInv

\* Slots of the script are made and never remade.
LEMMA MakeSlotStep ==
    ASSUME BootInv, NEW n \in Node, MakeSlot(n)
    PROVE  BootInv'
<1> DEFINE q == <<n, Head(todo[n])>>
<1>1. /\ q \in Edge /\ pc[n] = "slot" /\ volume[n] = "full" /\ todo[n] # << >>
      /\ Move(n, "subscribe", todo[n], "full") /\ UNCHANGED <<pubs, kills, refused>>
  BY ScriptFacts DEF MakeSlot, Goto, Fits, Serving, Move, Edge
<1>2. slots' = slots \cup {q} /\ UNCHANGED <<rows, stream, plan, sub, fresh, given>>
  BY DEF MakeSlot
<1> HIDE DEF q
<1>3. ScriptTyping' /\ Places'
  <2>1. "subscribe" \in Label /\ Fits("subscribe", todo[n], "full")
    BY <1>1 DEF Label, Serving, Fits
  <2> QED
    BY <1>1, <2>1, ScriptFacts, MoveKeeps DEF BootInv
<1>4. DataTyping'
  BY <1>1, <1>2, Types DEF DataTyping, TypeOK
<1>5. volume' = volume /\ pc'[n] = "subscribe"
  BY <1>1, Types DEF Move
<1>6. Blank' /\ Stored' /\ Kept'
  BY <1>2, <1>5 DEF BootInv, Blank, Stored, Kept, Applied
<1>7. Spread'
  BY <1>5 DEF Spread, NoContainers
<1> QED
  BY <1>3, <1>4, <1>6, <1>7 DEF BootInv

LEMMA SubscribeStep ==
    ASSUME BootInv, NEW n \in Node, Subscribe(n)
    PROVE  BootInv'
<1> DEFINE q == <<n, Head(todo[n])>>
           l == IF Len(todo[n]) = 1 THEN "done" ELSE "wait"
           t == todo[n]
<1>1. /\ q \in Edge /\ pc[n] = "subscribe" /\ volume[n] = "full"
      /\ t \in Seq(Node \ {n}) /\ t # << >> /\ Tail(t) \in Seq(Node \ {n})
      /\ UNCHANGED <<pubs, kills, refused>>
  BY ScriptFacts DEF Subscribe, NextPeer, Goto, Fits, Serving, Edge
<1>2. Move(n, l, Tail(t), "full")
  BY <1>1, ScriptFacts DEF Subscribe, NextPeer, Goto, Move
<1>3. /\ UNCHANGED <<rows, stream, plan, slots, fresh, given>>
      /\ \/ sub' = sub
         \/ sub[n][q] = "none" /\ \E x \in State \ {"none"} : sub' = [sub EXCEPT ![n][q] = x]
  BY DEF Subscribe, State, Own
<1>4. l \in {"wait", "done"} /\ (l = "wait" => Tail(t) # << >>)
  <2>1. IF Len(t) = 1 THEN l = "done" ELSE l = "wait"
    OBVIOUS
  <2> HIDE DEF t, l
  <2>2. Len(t) \in Nat /\ Len(t) # 0 /\ Len(Tail(t)) = Len(t) - 1
    BY <1>1
  <2>3. Len(<< >>) = 0
    OBVIOUS
  <2> QED
    BY <2>1, <2>2, <2>3
<1> HIDE DEF q, t, l
<1>5. ScriptTyping' /\ Places'
  <2>1. l \in Label /\ Fits(l, Tail(t), "full")
    BY <1>4 DEF Label, Serving, Fits
  <2> QED
    BY <1>1, <1>2, <2>1, ScriptFacts, MoveKeeps DEF BootInv
<1>6. sub' \in [Node -> [Edge -> State]]
  <2>1. ASSUME NEW x \in State PROVE [sub EXCEPT ![n][q] = x] \in [Node -> [Edge -> State]]
    BY <1>1, Types
  <2> QED
    BY <1>3, <2>1, Types
<1>7. DataTyping'
  BY <1>3, <1>6, Types DEF DataTyping, TypeOK
<1>8. volume' = volume /\ pc'[n] = l
  BY <1>1, <1>2, Types DEF Move
<1>9. \A m \in Node, p \in Edge :
         /\ m # n => sub'[m][p] = sub[m][p]
         /\ sub[m][p] # "none" => sub'[m][p] # "none"
  <2> TAKE m \in Node, p \in Edge
  <2>1. CASE sub' = sub
    BY <2>1
  <2>2. CASE \E x \in State \ {"none"} : sub' = [sub EXCEPT ![n][q] = x] /\ sub[n][q] = "none"
    <3>1. PICK x \in State \ {"none"} : sub' = [sub EXCEPT ![n][q] = x] /\ sub[n][q] = "none"
      BY <2>2
    <3>2. sub'[m][p] = IF m = n /\ p = q THEN x ELSE sub[m][p]
      BY <1>1, <3>1, Types
    <3> QED
      BY <3>1, <3>2
  <2> QED
    BY <1>3, <2>1, <2>2
<1>10. Blank' /\ Stored'
  BY <1>1, <1>3, <1>8, <1>9 DEF BootInv, Blank, Stored
<1>11. Kept'
  BY <1>3, <1>9 DEF BootInv, Kept, Applied
<1>12. Spread'
  BY <1>4, <1>8 DEF Spread, NoContainers
<1> QED
  BY <1>5, <1>7, <1>10, <1>11, <1>12 DEF BootInv

-----------------------------------------------------------------------------
(* The setup, the workers and the application. *)

\* Before plan is empty every node has a complete data directory.
LEMMA SetupStep ==
    ASSUME BootInv, Setup
    PROVE  BootInv'
<1>1. PICK q \in Edge :
        /\ plan # << >> /\ plan' = Tail(plan) /\ Tail(plan) \in Seq(Edge)
        /\ slots' = slots \cup {q}
        /\ sub' = IF Own(q) = "none" THEN [sub EXCEPT ![q[1]][q] = "init"] ELSE sub
        /\ UNCHANGED <<rows, stream, fresh, pc, todo, volume, pubs, kills, refused, given>>
  <2>1. Head(plan) \in Edge /\ Tail(plan) \in Seq(Edge)
    BY Types DEF Setup, CreateSubscription
  <2> QED
    BY <2>1 DEF Setup, CreateSubscription, script
<1>2. q[1] \in Node
  BY DEF Edge
<1>3. \A m \in Node, p \in Edge :
        sub'[m][p] = IF m = q[1] /\ p = q /\ sub[m][p] = "none" THEN "init" ELSE sub[m][p]
  BY <1>1, <1>2, Types DEF Own
<1>4. sub' \in [Node -> [Edge -> State]]
  <2>1. "init" \in State
    BY DEF State
  <2> QED
    BY <1>1, <1>2, <2>1, Types
<1>5. ScriptTyping' /\ Places' /\ DataTyping'
  BY <1>1, <1>4, Types DEF BootInv, ScriptTyping, Places, DataTyping, TypeOK
<1>6. Blank' /\ Stored'
  <2>1. \A m \in Node : volume[m] = "full"
    BY <1>1 DEF BootInv, Blank
  <2> QED
    BY <1>1, <2>1 DEF BootInv, Blank, Stored
<1>7. Kept'
  BY <1>1, <1>3 DEF BootInv, Kept, Applied
<1>8. Spread'
  <2> SUFFICES ASSUME NoContainers'
               PROVE  /\ \A n \in Node, p \in Edge : sub'[n][p] # "none" => n = p[1] /\ p \in slots'
                      /\ \A n \in Node : \A r \in rows'[n] : \E o \in Node : Offered(r, o)'
    BY DEF Spread
  <2>1. Spread /\ NoContainers
    BY <1>1 DEF BootInv, NoContainers
  <2>2. \A n \in Node, p \in Edge : sub'[n][p] # "none" => n = p[1] /\ p \in slots'
    BY <1>1, <1>3, <2>1 DEF Spread
  <2>3. ASSUME NEW r, NEW o \in Node, Offered(r, o) PROVE Offered(r, o)'
    <3>1. \A s \in Node \ {o} : <<s, o>> \in Edge
      BY DEF Edge
    <3>2. \A s \in Node \ {o} : sub'[s][<<s, o>>] = "ready" => sub[s][<<s, o>>] = "ready"
      BY <1>3, <3>1
    <3> QED
      BY <1>1, <2>3, <3>2 DEF Offered
  <2> QED
    BY <1>1, <2>1, <2>2, <2>3 DEF Spread
<1> QED
  BY <1>5, <1>6, <1>7, <1>8 DEF BootInv

\* A node gets rows of a publisher: by a copy all that are stored there, by a change
\* the first that its slot holds.  What leaves the slot has arrived.
LEMMA Receive ==
    ASSUME BootInv, NEW n \in Node, NEW q \in Edge, Up(n), Up(q[2]), sub[n][q] # "none",
           NEW got \in SUBSET rows[q[2]], NEW left \in Seq(Row),
           rows' = [rows EXCEPT ![n] = rows[n] \cup got],
           sub' = [sub EXCEPT ![n][q] = "ready"],
           stream' = [stream EXCEPT ![q[2]][q[1]] = left],
           Range(left) \subseteq Range(stream[q[2]][q[1]]),
           Range(stream[q[2]][q[1]]) \subseteq Range(left) \cup got,
           sub[n][q] = "ready" \/ got = rows[q[2]],
           UNCHANGED <<plan, slots, fresh, script, given>>
    PROVE  BootInv'
<1>1. q[1] \in Node /\ q[2] \in Node /\ q[1] # q[2] /\ q = <<q[1], q[2]>>
  BY DEF Edge
<1>2. \A m \in Node : rows'[m] = IF m = n THEN rows[m] \cup got ELSE rows[m]
  BY Types
<1>3. \A m \in Node, p \in Edge : sub'[m][p] = IF m = n /\ p = q THEN "ready" ELSE sub[m][p]
  BY Types
<1>4. \A p, s \in Node : stream'[p][s] = IF <<s, p>> = q THEN left ELSE stream[p][s]
  <2> TAKE p, s \in Node
  <2>1. <<s, p>> = q <=> s = q[1] /\ p = q[2]
    BY <1>1
  <2> QED
    BY <1>1, <2>1, Types
<1>5. DataTyping'
  <2>1. got \subseteq Row
    BY <1>1, Types
  <2>2. rows' \in [Node -> SUBSET Row]
    BY <2>1, Types
  <2>3. sub' \in [Node -> [Edge -> State]]
    <3>1. "ready" \in State
      BY DEF State
    <3> QED
      BY <3>1, Types
  <2>4. stream' \in [Node -> [Node -> Seq(Row)]]
    BY <1>1, Types
  <2> QED
    BY <2>2, <2>3, <2>4, Types DEF DataTyping, TypeOK
<1>6. ScriptTyping' /\ Places'
  BY DEF BootInv, ScriptTyping, Places, script
<1>7. Blank'
  <2>1. volume[n] = "full" /\ volume[q[2]] = "full"
    BY <1>1 DEF BootInv, Places, Fits, Up
  <2>2. ASSUME NEW m \in Node, volume'[m] # "full"
        PROVE  /\ plan' = << >> /\ \A p \in Edge : sub'[m][p] = "none"
               /\ \A s \in Node : stream'[m][s] = << >>
    <3>1. volume[m] # "full" /\ m # n /\ m # q[2]
      BY <2>1, <2>2 DEF script
    <3>2. \A s \in Node : <<s, m>> # q
      BY <3>1
    <3> QED
      BY <1>3, <1>4, <3>1, <3>2 DEF BootInv, Blank
  <2> QED
    BY <2>2 DEF Blank
<1>8. Stored'
  <2> SUFFICES ASSUME NEW p \in Node, NEW s \in Node PROVE Range(stream'[p][s]) \subseteq rows'[p]
    BY DEF Stored
  <2>1. Range(stream'[p][s]) \subseteq Range(stream[p][s])
    BY <1>1, <1>4
  <2> QED
    BY <1>2, <2>1 DEF BootInv, Stored
<1>9. Kept'
  <2> SUFFICES ASSUME NEW p \in Edge, NEW r \in given[p]
               PROVE  r \in Range(stream'[p[2]][p[1]]) \/ Applied(p, r)'
    BY DEF Kept
  <2>1. Applied(p, r) => Applied(p, r)'
    BY <1>2, <1>3 DEF Applied
  <2>2. r \in Range(stream[p[2]][p[1]]) \/ Applied(p, r)
    BY DEF BootInv, Kept
  <2>3. CASE p # q
    <3>1. p[1] \in Node /\ p[2] \in Node /\ p = <<p[1], p[2]>>
      BY DEF Edge
    <3>2. stream'[p[2]][p[1]] = stream[p[2]][p[1]]
      BY <1>4, <2>3, <3>1
    <3> QED
      BY <2>1, <2>2, <3>2
  <2>4. CASE p = q /\ r \in Range(stream[p[2]][p[1]])
    <3>1. CASE r \in got
      <4>1. rows'[n] = rows[n] \cup got /\ sub'[n][q] = "ready" /\ "ready" # "none"
        <5>1. rows'[n] = rows[n] \cup got
          BY ONLY <1>2
        <5>2. sub'[n][q] = "ready"
          BY ONLY <1>3
        <5> QED
          BY ONLY <5>1, <5>2
      <4> QED
        BY <2>4, <3>1, <4>1 DEF Applied
    <3>2. CASE r \in Range(left)
      BY <1>1, <1>4, <2>4, <3>2
    <3> QED
      BY <2>4, <3>1, <3>2
  <2> QED
    BY <2>1, <2>2, <2>3, <2>4
<1>10. Spread'
  <2> SUFFICES ASSUME NoContainers'
               PROVE  /\ \A m \in Node, p \in Edge : sub'[m][p] # "none" => m = p[1] /\ p \in slots'
                      /\ \A m \in Node : \A r \in rows'[m] : \E o \in Node : Offered(r, o)'
    BY DEF Spread
  <2>1. Spread /\ NoContainers
    BY DEF BootInv, NoContainers, script
  <2>2. \A m \in Node, p \in Edge : sub'[m][p] # "none" => m = p[1] /\ p \in slots'
    BY <1>3, <2>1 DEF Spread
  <2>3. ASSUME NEW r, NEW o \in Node, Offered(r, o) PROVE Offered(r, o)'
    <3>1. r \in rows'[o] /\ \A m \in Node : rows[m] \subseteq rows'[m]
      BY <1>2, <2>3 DEF Offered
    <3>2. ASSUME NEW s \in Node \ {o}, sub'[s][<<s, o>>] = "ready"
          PROVE  r \in rows'[s] \/ r \in Range(stream'[o][s])
      <4>1. <<s, o>> \in Edge /\ n = q[1]
        BY <2>1 DEF Edge, Spread
      <4>2. CASE <<s, o>> # q
        <5>1. sub[s][<<s, o>>] = "ready" /\ stream'[o][s] = stream[o][s]
          BY <1>3, <1>4, <3>2, <4>1, <4>2
        <5> QED
          BY <2>3, <3>1, <5>1 DEF Offered
      <4>3. CASE <<s, o>> = q /\ got = rows[o]
        <5>1. s = n
          BY <4>1, <4>3
        <5>2. r \in got
          BY <2>3, <4>3 DEF Offered
        <5>3. rows'[n] = rows[n] \cup got
          BY <1>2
        <5> QED
          BY <5>1, <5>2, <5>3
      <4>4. CASE <<s, o>> = q /\ sub[n][q] = "ready"
        <5>1. s = n /\ o = q[2] /\ q[1] = s /\ sub[s][<<s, o>>] = "ready"
          BY <4>1, <4>4
        <5>2. r \in rows[s] \/ r \in Range(stream[o][s])
          BY <2>3, <5>1 DEF Offered
        <5>3. CASE r \in rows[s]
          BY <3>1, <5>3
        <5>4. CASE r \in Range(stream[o][s])
          <6>1. r \in Range(left) \/ r \in got
            BY <5>1, <5>4
          <6>2. rows'[s] = rows[s] \cup got /\ stream'[o][s] = left
            BY <1>2, <1>4, <4>4, <5>1
          <6> QED
            BY <6>1, <6>2
        <5> QED
          BY <5>2, <5>3, <5>4
      <4> QED
        BY <4>2, <4>3, <4>4
    <3> QED
      BY <3>1, <3>2 DEF Offered
  <2>4. ASSUME NEW m \in Node, NEW r \in rows'[m] PROVE \E o \in Node : Offered(r, o)
    BY <1>1, <1>2, <2>1 DEF Spread
  <2> QED
    BY <2>2, <2>3, <2>4
<1> QED
  BY <1>5, <1>6, <1>7, <1>8, <1>9, <1>10 DEF BootInv

LEMMA WorkStep ==
    ASSUME BootInv, NEW n \in Node, NEW q \in Edge, Work(n, q)
    PROVE  BootInv'
<1>1. /\ q[1] \in Node /\ q[2] \in Node
      /\ stream[q[2]][q[1]] \in Seq(Row)
      /\ Range(stream[q[2]][q[1]]) \subseteq rows[q[2]]
  BY Types DEF Edge, BootInv, Stored
<1>2. Up(n) /\ Up(q[2]) /\ UNCHANGED <<script, given>> /\ Worker(n, q)
  BY DEF Work
<1>3. CASE Copy(n, q)
  <2> DEFINE got == rows[q[2]]
  <2>1. /\ sub[n][q] # "none" /\ rows' = [rows EXCEPT ![n] = rows[n] \cup got]
        /\ sub' = [sub EXCEPT ![n][q] = "ready"]
        /\ stream' = [stream EXCEPT ![q[2]][q[1]] = << >>]
        /\ UNCHANGED <<plan, slots, fresh, script, given>>
    BY <1>2, <1>3 DEF Copy
  <2>2. << >> \in Seq(Row) /\ Range(<< >>) = {}
    BY DEF Range
  <2> QED
    BY <1>1, <1>2, <2>1, <2>2, Receive
<1>4. CASE ApplyInsert(n, q)
  <2> DEFINE old == stream[q[2]][q[1]]
             got == {Head(old)}
             left == Tail(old)
  <2>1. /\ old # << >> /\ sub[n][q] = "ready"
        /\ rows' = [rows EXCEPT ![n] = rows[n] \cup got]
        /\ stream' = [stream EXCEPT ![q[2]][q[1]] = left]
        /\ UNCHANGED <<plan, slots, sub, fresh, script, given>>
    BY <1>2, <1>4 DEF ApplyInsert, Arrived, Consume
  <2>2. left \in Seq(Row) /\ Range(old) = Range(left) \cup got
    BY <1>1, <2>1, RangeTail
  <2>3. sub' = [sub EXCEPT ![n][q] = "ready"]
    BY <2>1, Types
  <2> HIDE DEF old, got, left
  <2>4. got \in SUBSET rows[q[2]]
    BY <1>1, <2>2 DEF old
  <2> QED
    BY <1>1, <1>2, <2>1, <2>2, <2>3, <2>4, Receive DEF old
<1> QED
  BY <1>2, <1>3, <1>4 DEF Worker

\* What is inserted goes to every slot there is.
LEMMA WriteStep ==
    ASSUME BootInv, NEW n \in Node, NEW r \in Row, Write(n, r)
    PROVE  BootInv'
<1>1. /\ Up(n) /\ rows' = [rows EXCEPT ![n] = @ \cup {r}]
      /\ fresh' = fresh \ {r} /\ UNCHANGED <<plan, slots, sub, script>>
      /\ given' = [q \in Edge |-> IF q[2] = n /\ q \in slots THEN given[q] \cup {r} ELSE given[q]]
      /\ stream' = [stream EXCEPT ![n] =
            [s \in Node |-> IF <<s, n>> \in slots THEN Append(@[s], r) ELSE @[s]]]
  BY DEF Write, LocalInsert
<1>2. \A m \in Node : rows'[m] = IF m = n THEN rows[m] \cup {r} ELSE rows[m]
  BY <1>1, Types
<1>3. \A p, s \in Node :
        stream'[p][s] = IF p = n /\ <<s, n>> \in slots THEN Append(stream[p][s], r)
                        ELSE stream[p][s]
  BY <1>1, Types
<1>4. \A p, s \in Node : stream[p][s] \in Seq(Row)
  BY Types
<1>5. \A p, s \in Node :
        Range(stream'[p][s]) = IF p = n /\ <<s, n>> \in slots THEN Range(stream[p][s]) \cup {r}
                               ELSE Range(stream[p][s])
  <2> TAKE p, s \in Node
  <2>1. stream[p][s] \in Seq(Row)
    BY <1>4
  <2>2. Range(Append(stream[p][s], r)) = Range(stream[p][s]) \cup {r}
    BY <2>1, RangeAppend
  <2> QED
    BY <1>3, <2>2
<1>6. DataTyping'
  <2>1. stream' \in [Node -> [Node -> Seq(Row)]]
    <3>1. [s \in Node |-> IF <<s, n>> \in slots THEN Append(stream[n][s], r) ELSE stream[n][s]]
            \in [Node -> Seq(Row)]
      BY <1>4
    <3> QED
      BY <1>1, <3>1, Types
  <2>2. rows' \in [Node -> SUBSET Row] /\ fresh' \in SUBSET Row
    BY <1>1, Types
  <2>3. given' \in [Edge -> SUBSET Row]
    BY <1>1, Types
  <2> QED
    BY <1>1, <2>1, <2>2, <2>3, Types DEF DataTyping, TypeOK
<1>7. ScriptTyping' /\ Places'
  BY <1>1 DEF BootInv, ScriptTyping, Places, script
<1>8. Blank'
  <2>1. volume[n] = "full"
    BY <1>1 DEF BootInv, Places, Fits, Up
  <2>2. \A m \in Node : m # n => \A s \in Node : stream'[m][s] = stream[m][s]
    BY <1>3
  <2> QED
    BY <1>1, <2>1, <2>2 DEF BootInv, Blank, script
<1>9. Stored'
  BY <1>2, <1>5 DEF BootInv, Stored
<1>10. Kept'
  <2> SUFFICES ASSUME NEW q \in Edge, NEW x \in given'[q]
               PROVE  x \in Range(stream'[q[2]][q[1]]) \/ Applied(q, x)'
    BY DEF Kept
  <2>1. q[1] \in Node /\ q[2] \in Node /\ q = <<q[1], q[2]>>
    BY DEF Edge
  <2>2. Applied(q, x) => Applied(q, x)'
    BY <1>1, <1>2 DEF Applied
  <2>3. CASE x \in given[q]
    <3>1. x \in Range(stream[q[2]][q[1]]) \/ Applied(q, x)
      BY <2>3 DEF BootInv, Kept
    <3> QED
      BY <1>5, <2>1, <2>2, <3>1
  <2>4. CASE x \notin given[q]
    <3>1. x = r /\ q[2] = n /\ q \in slots
      BY <1>1, <2>4
    <3> QED
      BY <1>5, <2>1, <3>1
  <2> QED
    BY <2>3, <2>4
<1>11. Spread'
  <2> SUFFICES ASSUME NoContainers'
               PROVE  /\ \A m \in Node, p \in Edge : sub'[m][p] # "none" => m = p[1] /\ p \in slots'
                      /\ \A m \in Node : \A x \in rows'[m] : \E o \in Node : Offered(x, o)'
    BY DEF Spread
  <2>1. Spread /\ NoContainers
    BY <1>1 DEF BootInv, NoContainers, script
  <2>2. \A m \in Node, p \in Edge : sub'[m][p] # "none" => m = p[1] /\ p \in slots'
    BY <1>1, <2>1 DEF Spread
  <2>3. ASSUME NEW x, NEW o \in Node, Offered(x, o) PROVE Offered(x, o)'
    <3>1. \A s \in Node : rows[s] \subseteq rows'[s] /\ Range(stream[o][s]) \subseteq Range(stream'[o][s])
      BY <1>2, <1>5
    <3> QED
      BY <1>1, <2>3, <3>1 DEF Offered
  <2>4. Offered(r, n)'
    <3>1. ASSUME NEW s \in Node \ {n}, sub'[s][<<s, n>>] = "ready" PROVE r \in Range(stream'[n][s])
      <4>1. <<s, n>> \in Edge
        BY DEF Edge
      <4>2. <<s, n>> \in slots
        BY <1>1, <2>1, <3>1, <4>1 DEF Spread
      <4> QED
        BY <1>5, <4>2
    <3> QED
      BY <1>2, <3>1 DEF Offered
  <2>5. ASSUME NEW m \in Node, NEW x \in rows'[m] PROVE \E o \in Node : Offered(x, o)'
    <3>1. x = r \/ x \in rows[m]
      BY <1>2
    <3> QED
      BY <2>1, <2>3, <2>4, <3>1 DEF Spread
  <2> QED
    BY <2>2, <2>5
<1> QED
  BY <1>6, <1>7, <1>8, <1>9, <1>10, <1>11 DEF BootInv

-----------------------------------------------------------------------------
(* The theorems. *)

LEMMA InitInv == BootInit => BootInv
<1> SUFFICES ASSUME BootInit PROVE BootInv
  OBVIOUS
<1>1. PICK d \in Deployments :
        /\ IF d.containers = {} THEN Joining({}, Pairs, d.rows)
           ELSE Joining(Node \ d.containers, << >>, d.rows)
        /\ pc = [n \in Node |-> IF n \in d.containers THEN "off" ELSE "peer"]
        /\ todo = [n \in Node |-> << >>]
        /\ volume = [n \in Node |-> IF n \in d.containers THEN "empty" ELSE "full"]
        /\ pubs = Node \ d.containers
        /\ kills = d.kills
        /\ refused = {}
        /\ given = [q \in Edge |-> {}]
  BY DEF BootInit
<1>2. d.containers \subseteq Node /\ d.rows \subseteq Row /\ d.kills \in Nat
  BY BootstrapAssumption DEF Deployment
<1>3. /\ rows = Start /\ stream = Idle /\ fresh = d.rows
      /\ plan = IF d.containers = {} THEN Pairs ELSE << >>
      /\ slots \in SUBSET Edge
      /\ \E old \in SUBSET Edge :
           /\ sub = [n \in Node |-> [q \in Edge |-> IF q \in old /\ q[1] = n THEN "ready" ELSE "none"]]
           /\ \A q \in old : q[1] \notin d.containers
           /\ d.containers = {} => old = {}
  BY <1>1 DEF Joining
<1>4. PICK old \in SUBSET Edge :
        /\ sub = [n \in Node |-> [q \in Edge |-> IF q \in old /\ q[1] = n THEN "ready" ELSE "none"]]
        /\ \A q \in old : q[1] \notin d.containers
        /\ d.containers = {} => old = {}
  BY <1>3
<1>5. \A m, n \in Node : Range(stream[m][n]) = {} /\ stream[m][n] = << >>
  BY <1>3 DEF Idle, Range
<1>6. ScriptTyping /\ Places
  BY <1>1, <1>2 DEF ScriptTyping, Places, Fits, Label, Serving
<1>7. DataTyping
  <2>1. plan \in Seq(Edge)
    BY <1>3, PairsType
  <2>2. sub \in [Node -> [Edge -> State]]
    BY <1>4 DEF State
  <2>3. stream \in [Node -> [Node -> Seq(Row)]]
    BY <1>3 DEF Idle
  <2>4. given \in [Edge -> SUBSET Row]
    BY <1>1
  <2> QED
    BY <1>2, <1>3, <2>1, <2>2, <2>3, <2>4, SyncAssumption DEF DataTyping, TypeOK
<1>8. Blank
  <2> SUFFICES ASSUME NEW n \in Node, volume[n] # "full"
               PROVE  /\ plan = << >> /\ \A q \in Edge : sub[n][q] = "none"
                      /\ \A s \in Node : stream[n][s] = << >>
    BY DEF Blank
  <2>1. n \in d.containers
    BY <1>1
  <2> QED
    BY <1>3, <1>4, <1>5, <2>1
<1>9. Stored /\ Kept
  BY <1>1, <1>5 DEF Stored, Kept
<1>10. Spread
  <2> SUFFICES ASSUME NoContainers PROVE
        /\ \A n \in Node, q \in Edge : sub[n][q] # "none" => n = q[1] /\ q \in slots
        /\ \A n \in Node : \A r \in rows[n] : \E o \in Node : Offered(r, o)
    BY DEF Spread
  <2>1. d.containers = {}
    BY <1>1, <1>2 DEF NoContainers
  <2>2. \A n \in Node, q \in Edge : sub[n][q] = "none"
    BY <1>4, <2>1
  <2>3. \A s, o \in Node : s # o => <<s, o>> \in Edge
    BY DEF Edge
  <2>4. \A n \in Node : \A r \in rows[n] : Offered(r, n)
    BY <2>2, <2>3 DEF Offered
  <2> QED
    BY <2>2, <2>4
<1> QED
  BY <1>6, <1>7, <1>8, <1>9, <1>10 DEF BootInv

\* The invariant holds in every reachable state.
THEOREM BootInvariance == BootSpec => []BootInv
<1>1. BootInv /\ [BootNext]_bootVars => BootInv'
  <2> SUFFICES ASSUME BootInv, [BootNext]_bootVars PROVE BootInv'
    OBVIOUS
  <2>1. CASE UNCHANGED bootVars
    <3>1. UNCHANGED <<rows, stream, plan, slots, sub, fresh, pc, todo, volume, pubs, kills, refused, given>>
      BY <2>1 DEF bootVars, data, script
    <3>2. ScriptTyping' /\ Places' /\ DataTyping'
      BY <3>1 DEF BootInv, ScriptTyping, Places, DataTyping, TypeOK
    <3>3. Blank' /\ Stored' /\ Kept'
      BY <3>1 DEF BootInv, Blank, Stored, Kept, Applied
    <3>4. Spread'
      BY <3>1 DEF BootInv, Spread, NoContainers, Offered
    <3> QED
      BY <3>2, <3>3, <3>4 DEF BootInv
  <2>2. ASSUME NEW n \in Node, StartContainer(n) \/ Script(n) \/ Kill(n) PROVE BootInv'
    BY <2>2, QuietSteps, CloneStep, MakeSlotStep, SubscribeStep DEF Script
  <2>3. CASE Setup
    BY <2>3, SetupStep
  <2>4. ASSUME NEW n \in Node, NEW q \in Edge, Work(n, q) PROVE BootInv'
    BY <2>4, WorkStep
  <2>5. ASSUME NEW n \in Node, NEW r \in Row, Write(n, r) PROVE BootInv'
    BY <2>5, WriteStep
  <2> QED
    BY <2>1, <2>2, <2>3, <2>4, <2>5 DEF BootNext
<1> QED
  BY <1>1, InitInv, PTL DEF BootSpec

\* Types, for any number of nodes, containers, rows and kills.
THEOREM BootTyping == BootSpec => []BootTypeOK
<1>1. BootInv => BootTypeOK
  BY DEF BootInv, ScriptTyping, DataTyping, BootTypeOK
<1> QED
  BY <1>1, BootInvariance, PTL

\* What a slot was given is still in it or has reached its subscriber, or a clone
\* that competes for it, through any number of kills, restarts and clones
\* (SlotsLoseNothing).
THEOREM NothingIsLost == BootSpec => []SlotsLoseNothing
<1>1. BootInv => SlotsLoseNothing
  BY DEF BootInv, Kept, Applied, SlotsLoseNothing, Rivals
<1> QED
  BY <1>1, BootInvariance, PTL

\* A setup without containers that is in sync has the same rows on all nodes,
\* whatever order the copies took and whatever was inserted meanwhile.
THEOREM InSyncIsSame == BootSpec => []InSyncMeansSame
<1>1. ASSUME BootInv PROVE InSyncMeansSame
  <2> SUFFICES ASSUME NoContainers, InSync, NEW m \in Node, NEW n \in Node, NEW r \in rows[m]
               PROVE  r \in rows[n]
    BY DEF InSyncMeansSame, Same
  <2>1. PICK o \in Node : Offered(r, o)
    BY <1>1 DEF BootInv, Spread
  <2>2. CASE n = o
    BY <2>1, <2>2 DEF Offered
  <2>3. CASE n # o
    <3>1. <<n, o>> \in Edge /\ sub[n][<<n, o>>] = "ready"
      BY <2>3 DEF InSync, Copied, Own, Edge
    <3>2. Range(stream[o][n]) = {}
      BY DEF InSync, Drained, Idle, Range
    <3> QED
      BY <2>1, <2>3, <3>1, <3>2 DEF Offered
  <2> QED
    BY <2>2, <2>3
<1> QED
  BY <1>1, BootInvariance, PTL
-----------------------------------------------------------------------------
(* Slots. *)

\* The slots that exist, and those whose publisher has refused to make them.
Asked == slots \cup refused

\* Subscriptions have their slots unless those were refused, and a script that is
\* about to create one has asked for the slot before.
Slotted ==
    /\ \A n \in Node, q \in Edge : sub[n][q] # "none" => q \in Asked
    /\ \A n \in Node : pc[n] = "subscribe" => <<n, Head(todo[n])>> \in Asked

\* What a step adds to the subscriptions has been asked for, and no script gets to
\* "subscribe" without one.
LEMMA SlottedStays ==
    ASSUME Slotted, Asked \subseteq Asked',
           \A n \in Node, q \in Edge : sub'[n][q] # "none" => q \in Asked',
           \A n \in Node : pc'[n] = "subscribe" =>
              \/ pc[n] = "subscribe" /\ todo'[n] = todo[n]
              \/ <<n, Head(todo'[n])>> \in Asked'
    PROVE  Slotted'
BY DEF Slotted

\* One subscription more, to a slot that was asked for.
LEMMA SubscribedToSlot ==
    ASSUME BootInv, Slotted, NEW n \in Node, NEW q \in Edge, NEW x,
           Asked \subseteq Asked', q \in Asked',
           sub' = sub \/ sub' = [sub EXCEPT ![n][q] = x]
    PROVE  \A m \in Node, p \in Edge : sub'[m][p] # "none" => p \in Asked'
<1>1. \A m \in Node, p \in Edge : sub[m][p] # "none" => p \in Asked
  BY DEF Slotted
<1>2. CASE sub' = sub
  BY <1>1, <1>2
<1>3. CASE sub' = [sub EXCEPT ![n][q] = x]
  <2> SUFFICES ASSUME NEW m \in Node, NEW p \in Edge, sub'[m][p] # "none" PROVE p \in Asked'
    OBVIOUS
  <2>1. sub \in [Node -> [Edge -> State]]
    BY Types
  <2>2. CASE p = q
    BY <2>2
  <2>3. CASE p # q
    <3>1. sub'[m] = IF m = n THEN [sub[n] EXCEPT ![q] = x] ELSE sub[m]
      BY <1>3, <2>1
    <3>2. sub[n] \in [Edge -> State]
      BY <2>1
    <3>3. [sub[n] EXCEPT ![q] = x][p] = sub[n][p]
      BY <3>2, <2>3
    <3>4. sub'[m][p] = sub[m][p]
      BY <3>1, <3>3
    <3> QED
      BY <3>4, <1>1
  <2> QED
    BY <2>2, <2>3
<1> QED
  BY <1>2, <1>3

\* A script that moves to l with the list t leaves the others where they are.
LEMMA Moved ==
    ASSUME BootInv, Slotted, NEW n \in Node, NEW l \in Label, NEW t,
           pc' = [pc EXCEPT ![n] = l], todo' = [todo EXCEPT ![n] = t],
           Asked \subseteq Asked', l = "subscribe" => <<n, Head(t)>> \in Asked',
           \A m \in Node, q \in Edge : sub'[m][q] # "none" => q \in Asked'
    PROVE  Slotted'
<1>1. \A m \in Node : /\ pc'[m] = IF m = n THEN l ELSE pc[m]
                      /\ todo'[m] = IF m = n THEN t ELSE todo[m]
  BY DEF BootInv, ScriptTyping
<1> QED
  BY <1>1, SlottedStays

LEMMA ScriptSlotted ==
    ASSUME BootInv, Slotted, NEW n \in Node, StartContainer(n) \/ Script(n) \/ Kill(n)
    PROVE  Slotted'
<1> DEFINE q == <<n, Head(todo[n])>>
<1>0. \A m \in Node, p \in Edge : sub[m][p] # "none" => p \in Asked
  BY DEF Slotted
<1>1. todo = [todo EXCEPT ![n] = todo[n]]
  BY ScriptFacts
<1>2. CASE \/ StartContainer(n) \/ FindDonor(n) \/ SkipDonor(n) \/ CloneFails(n) \/ Boot(n)
           \/ Configure(n) \/ FindPeer(n) \/ SkipPeer(n) \/ MakeSlotFails(n) \/ Kill(n)
  <2>1. UNCHANGED <<Asked, sub>>
    BY <1>2 DEF Asked, StartContainer, FindDonor, SkipDonor, CloneFails, Boot, Configure, FindPeer,
                SkipPeer, MakeSlotFails, Kill, data
  <2>2. \E l \in Label \ {"subscribe"} : \E t :
           pc' = [pc EXCEPT ![n] = l] /\ todo' = [todo EXCEPT ![n] = t]
    BY <1>1, <1>2 DEF StartContainer, FindDonor, SkipDonor, CloneFails, Boot, Configure, FindPeer,
                      SkipPeer, MakeSlotFails, Kill, Goto, Exit, NextPeer, Label, Serving
  <2> QED
    BY <1>0, <2>1, <2>2, Moved
<1>3. CASE Clone(n)
  <2>1. /\ pc' = [pc EXCEPT ![n] = "boot"] /\ "boot" \in Label /\ todo' = [todo EXCEPT ![n] = todo[n]]
        /\ Asked' = Asked /\ sub' = [sub EXCEPT ![n] = sub[Head(todo[n])]]
    BY <1>1, <1>3 DEF Clone, Goto, Label, Asked
  <2>2. Head(todo[n]) \in Node
    BY <1>3, ScriptFacts DEF Clone, Goto, Fits
  <2>3. \A m \in Node, p \in Edge : sub'[m][p] # "none" => p \in Asked'
    BY <1>0, <2>1, <2>2, Types
  <2> QED
    BY <2>1, <2>3, Moved
<1>4. CASE MakeSlot(n) \/ MakeSlotErrs(n)
  <2>1. /\ pc' = [pc EXCEPT ![n] = "subscribe"] /\ "subscribe" \in Label
        /\ todo' = [todo EXCEPT ![n] = todo[n]] /\ Asked' = Asked \cup {q} /\ sub' = sub
    BY <1>1, <1>4 DEF MakeSlot, MakeSlotErrs, Goto, Label, Serving, Asked, data
  <2> QED
    BY <1>0, <2>1, Moved
<1>5. CASE Subscribe(n)
  <2>1. q \in Asked /\ q \in Edge /\ Asked' = Asked
    <3>1. pc[n] = "subscribe" /\ Asked' = Asked
      BY <1>5 DEF Subscribe, NextPeer, Goto, Asked
    <3>2. Head(todo[n]) \in Node \ {n}
      BY <3>1, ScriptFacts DEF Fits
    <3> QED
      BY <3>1, <3>2 DEF Slotted, Edge
  <2>2. \E l \in Label \ {"subscribe"} :
           pc' = [pc EXCEPT ![n] = l] /\ todo' = [todo EXCEPT ![n] = Tail(todo[n])]
    <3>1. /\ pc' = [pc EXCEPT ![n] = IF Len(todo[n]) = 1 THEN "done" ELSE "wait"]
          /\ todo' = [todo EXCEPT ![n] = Tail(todo[n])]
      BY <1>5 DEF Subscribe, NextPeer, Goto
    <3>2. {"done", "wait"} \subseteq Label \ {"subscribe"}
      BY DEF Label, Serving
    <3> QED
      BY <3>1, <3>2
  <2>3. \/ sub' = sub
        \/ \E x : sub' = [sub EXCEPT ![n][q] = x]
    BY <1>5 DEF Subscribe
  <2>4. \A m \in Node, p \in Edge : sub'[m][p] # "none" => p \in Asked'
    <3> HIDE DEF q
    <3> QED
      BY <2>1, <2>3, SubscribedToSlot
  <2> QED
    BY <2>1, <2>2, <2>4, Moved
<1> QED
  BY <1>2, <1>3, <1>4, <1>5 DEF Script

\* In every deployment and through any number of kills, restarts, clones and refused
\* slots, a subscription has its slot unless it was refused (SubscriptionsFindSlots).
THEOREM SlotsAreFound == BootSpec => []SubscriptionsFindSlots
<1>1. BootInit => Slotted
  <2> SUFFICES ASSUME BootInit PROVE Slotted
    OBVIOUS
  <2>1. \A n \in Node : pc[n] # "subscribe"
    BY DEF BootInit
  <2>2. \A n \in Node, q \in Edge : sub[n][q] # "none" => q \in Asked
    BY DEF BootInit, Joining, Asked
  <2> QED
    BY <2>1, <2>2 DEF Slotted
<1>2. BootInv /\ Slotted /\ [BootNext]_bootVars => Slotted'
  <2> SUFFICES ASSUME BootInv, Slotted, [BootNext]_bootVars PROVE Slotted'
    OBVIOUS
  <2>0. \A m \in Node, p \in Edge : sub[m][p] # "none" => p \in Asked
    BY DEF Slotted
  <2>1. CASE UNCHANGED <<slots, refused, sub, pc, todo>>
    BY <2>0, <2>1, SlottedStays DEF Asked
  <2>2. ASSUME NEW n \in Node, StartContainer(n) \/ Script(n) \/ Kill(n) PROVE Slotted'
    BY <2>2, ScriptSlotted
  <2>3. CASE Setup
    <3>1. PICK q \in Edge :
            /\ Asked' = Asked \cup {q} /\ UNCHANGED <<pc, todo>>
            /\ sub' = IF Own(q) = "none" THEN [sub EXCEPT ![q[1]][q] = "init"] ELSE sub
      <4>1. Head(plan) \in Edge
        BY <2>3, Types DEF Setup, CreateSubscription
      <4> QED
        BY <2>3, <4>1 DEF Setup, CreateSubscription, script, Asked
    <3>2. \A m \in Node, p \in Edge : sub'[m][p] # "none" => p \in Asked'
      <4>1. q[1] \in Node /\ q \in Asked' /\ Asked \subseteq Asked'
        BY <3>1 DEF Edge
      <4> QED
        BY <3>1, <4>1, SubscribedToSlot
    <3> QED
      BY <3>1, <3>2, SlottedStays
  <2>4. ASSUME NEW n \in Node, NEW q \in Edge, Work(n, q) PROVE Slotted'
    <3>1. /\ sub[n][q] # "none" /\ UNCHANGED <<Asked, pc, todo>>
          /\ sub' = sub \/ sub' = [sub EXCEPT ![n][q] = "ready"]
      BY <2>4 DEF Work, Worker, Copy, ApplyInsert, Arrived, script, Asked
    <3>2. \A m \in Node, p \in Edge : sub'[m][p] # "none" => p \in Asked'
      BY <2>0, <3>1, SubscribedToSlot
    <3> QED
      BY <3>1, <3>2, SlottedStays
  <2>5. ASSUME NEW n \in Node, NEW r \in Row, Write(n, r) PROVE Slotted'
    BY <2>1, <2>5 DEF Write, LocalInsert, script
  <2> QED
    BY <2>1, <2>2, <2>3, <2>4, <2>5 DEF BootNext, bootVars, data, script
<1>3. Slotted => SubscriptionsFindSlots
  BY DEF Slotted, SubscriptionsFindSlots, Asked
<1> QED
  BY <1>1, <1>2, <1>3, BootInvariance, PTL DEF BootSpec
-----------------------------------------------------------------------------
(* Conflicts. *)

Distinct(s) == \A i, j \in DOMAIN s : s[i] = s[j] => i = j

LEMMA DistinctAppend ==
    ASSUME NEW C, NEW s \in Seq(C), NEW c \in C, Distinct(s), c \notin Range(s)
    PROVE  Distinct(Append(s, c))
<1>1. /\ DOMAIN Append(s, c) = DOMAIN s \cup {Len(s) + 1}
      /\ \A i \in DOMAIN s : Append(s, c)[i] = s[i]
      /\ Append(s, c)[Len(s) + 1] = c
  OBVIOUS
<1>2. \A i \in DOMAIN s : s[i] # c
  BY DEF Range
<1> QED
  BY <1>1, <1>2 DEF Distinct

LEMMA DistinctTail ==
    ASSUME NEW C, NEW s \in Seq(C), s # << >>, Distinct(s)
    PROVE  Distinct(Tail(s)) /\ Head(s) \notin Range(Tail(s))
<1>1. /\ 1 \in DOMAIN s /\ s[1] = Head(s)
      /\ \A i \in DOMAIN Tail(s) : i \in Nat \ {0} /\ i + 1 \in DOMAIN s /\ Tail(s)[i] = s[i + 1]
  OBVIOUS
<1>2. Distinct(Tail(s))
  BY <1>1 DEF Distinct
<1>3. \A i \in DOMAIN Tail(s) : Tail(s)[i] # Head(s)
  BY <1>1 DEF Distinct
<1> QED
  BY <1>2, <1>3 DEF Range

\* A row is on its way to a node at most once, and not if the node has it.
Clean ==
    /\ \A n \in Node : rows[n] \cap fresh = {}
    /\ \A p, s \in Node :
          /\ Range(stream[p][s]) \cap rows[s] = {}
          /\ Distinct(stream[p][s])
          /\ \A o \in Node \ {p} : Range(stream[p][s]) \cap Range(stream[o][s]) = {}

\* While a copy is outstanding nobody has a row, so that it copies nothing.
LEMMA CopyClean ==
    ASSUME BootInv, NoContainers, Clean, fresh # Row => Copied,
           NEW n \in Node, NEW q \in Edge, sub[n][q] = "init"
    PROVE  /\ \A m \in Node : rows[m] = {}
           /\ Copy(n, q) => Clean'
<1>1. n = q[1] /\ q[2] \in Node
  BY DEF BootInv, Spread, Edge
<1>2. fresh = Row
  BY <1>1 DEF Copied, Own
<1>3. \A m \in Node : rows[m] = {}
  BY <1>2, Types DEF Clean
<1>4. ASSUME Copy(n, q) PROVE Clean'
  <2>1. fresh' = fresh /\ \A m \in Node : rows'[m] = {}
    BY <1>1, <1>3, <1>4, Types DEF Copy
  <2>2. \A p, s \in Node : stream'[p][s] = IF p = q[2] /\ s = n THEN << >> ELSE stream[p][s]
    BY <1>1, <1>4, Types DEF Copy
  <2>3. Range(<< >>) = {} /\ Distinct(<< >>)
    BY DEF Range, Distinct
  <2>4. \A p, s \in Node : Range(stream'[p][s]) \subseteq Range(stream[p][s]) /\ Distinct(stream'[p][s])
    BY <2>2, <2>3 DEF Clean
  <2> QED
    BY <2>1, <2>4 DEF Clean
<1> QED
  BY <1>3, <1>4

\* What a node applies comes to it only once.
LEMMA ApplyClean ==
    ASSUME BootInv, NoContainers, Clean, NEW n \in Node, NEW q \in Edge, ApplyInsert(n, q)
    PROVE  Clean'
<1> DEFINE old == stream[q[2]][n]
           r == Head(old)
<1>1. n = q[1] /\ q[2] \in Node
  BY DEF BootInv, Spread, Edge, ApplyInsert, Arrived
<1>2. old \in Seq(Row) /\ old # << >> /\ Distinct(old)
  BY <1>1, Types DEF ApplyInsert, Arrived, Clean
<1>3. /\ fresh' = fresh
      /\ \A m \in Node : rows'[m] = IF m = n THEN rows[m] \cup {r} ELSE rows[m]
      /\ \A p, s \in Node : stream'[p][s] = IF p = q[2] /\ s = n THEN Tail(old) ELSE stream[p][s]
  BY <1>1, Types DEF ApplyInsert, Consume
<1>4. /\ Distinct(Tail(old)) /\ r \notin Range(Tail(old))
      /\ Range(old) = Range(Tail(old)) \cup {r}
  BY <1>2, DistinctTail, RangeTail
<1>5. \A p, s \in Node : Range(stream'[p][s]) \subseteq Range(stream[p][s]) /\ Distinct(stream'[p][s])
  BY <1>3, <1>4 DEF Clean
<1>6. \A p \in Node : r \notin Range(stream'[p][n])
  <2> TAKE p \in Node
  <2>1. CASE p = q[2]
    BY <1>1, <1>3, <1>4, <2>1
  <2>2. CASE p # q[2]
    <3>1. Range(stream[p][n]) \cap Range(old) = {}
      BY <1>1, <2>2 DEF Clean
    <3> QED
      BY <1>4, <1>5, <3>1
  <2> QED
    BY <2>1, <2>2
<1>7. r \notin fresh
  <2>1. r \in rows[q[2]]
    BY <1>1, <1>4 DEF BootInv, Stored
  <2> QED
    BY <1>1, <2>1 DEF Clean
<1> HIDE DEF old, r
<1>8. \A m \in Node : rows'[m] \cap fresh' = {}
  <2> TAKE m \in Node
  <2>1. rows[m] \cap fresh = {}
    BY DEF Clean
  <2>2. rows'[m] \subseteq rows[m] \cup {r}
    BY <1>3
  <2>3. fresh' = fresh
    BY <1>3
  <2> QED
    BY <1>7, <2>1, <2>2, <2>3
<1>9. \A p, s \in Node : Range(stream'[p][s]) \cap rows'[s] = {}
  <2> TAKE p, s \in Node
  <2>1. Range(stream'[p][s]) \cap rows[s] = {}
    BY <1>5 DEF Clean
  <2>2. CASE s = n
    <3>1. rows'[n] = rows[n] \cup {r} /\ r \notin Range(stream'[p][n])
      BY <1>3, <1>6
    <3> QED
      BY <2>1, <2>2, <3>1
  <2>3. CASE s # n
    BY <1>3, <2>1, <2>3
  <2> QED
    BY <2>2, <2>3
<1>10. \A p, s \in Node, o \in Node : o # p => Range(stream'[p][s]) \cap Range(stream'[o][s]) = {}
  BY <1>5 DEF Clean
<1> QED
  BY <1>5, <1>8, <1>9, <1>10 DEF Clean

\* A new row is nowhere, and goes to other nodes from one stream only.
LEMMA InsertClean ==
    ASSUME BootInv, Clean, NEW n \in Node, NEW r \in Row, LocalInsert(n, r)
    PROVE  Clean'
<1>1. /\ r \in fresh /\ fresh' = fresh \ {r}
      /\ \A m \in Node : rows'[m] = IF m = n THEN rows[m] \cup {r} ELSE rows[m]
      /\ \A p, s \in Node :
            stream'[p][s] = IF p = n /\ <<s, n>> \in slots THEN Append(stream[p][s], r) ELSE stream[p][s]
  BY Types DEF LocalInsert
<1>2. \A p, s \in Node : r \notin rows[p] /\ r \notin Range(stream[p][s])
  BY <1>1 DEF Clean, BootInv, Stored
<1>3. \A s \in Node : <<s, n>> \in slots => s # n
  BY Types DEF Edge
<1>4. \A p, s \in Node :
         /\ Distinct(stream'[p][s])
         /\ Range(stream'[p][s]) \subseteq
               IF p = n /\ s # n THEN Range(stream[p][s]) \cup {r} ELSE Range(stream[p][s])
  <2> TAKE p, s \in Node
  <2>1. stream[p][s] \in Seq(Row) /\ Distinct(stream[p][s]) /\ r \notin Range(stream[p][s])
    BY <1>2, Types DEF Clean
  <2>2. Distinct(Append(stream[p][s], r)) /\ Range(Append(stream[p][s], r)) = Range(stream[p][s]) \cup {r}
    BY <2>1, DistinctAppend, RangeAppend
  <2> QED
    BY <1>1, <1>3, <2>1, <2>2
<1>5. \A m \in Node : rows'[m] \cap fresh' = {}
  BY <1>1 DEF Clean
<1>6. \A p, s \in Node : Range(stream'[p][s]) \cap rows'[s] = {}
  <2> TAKE p, s \in Node
  <2>1. Range(stream[p][s]) \cap rows[s] = {} /\ r \notin rows[s] /\ r \notin Range(stream[p][s])
    BY <1>2 DEF Clean
  <2>2. CASE s = n
    <3>1. rows'[n] = rows[n] \cup {r} /\ Range(stream'[p][n]) \subseteq Range(stream[p][n])
      BY <1>1, <1>4
    <3> QED
      BY <2>1, <2>2, <3>1
  <2>3. CASE s # n
    <3>1. rows'[s] = rows[s] /\ Range(stream'[p][s]) \subseteq Range(stream[p][s]) \cup {r}
      BY <1>1, <1>4, <2>3
    <3> QED
      BY <2>1, <2>3, <3>1
  <2> QED
    BY <2>2, <2>3
<1>7. \A p, s \in Node, o \in Node : o # p => Range(stream'[p][s]) \cap Range(stream'[o][s]) = {}
  BY <1>2, <1>4 DEF Clean
<1> QED
  BY <1>4, <1>5, <1>6, <1>7 DEF Clean

\* In a setup of empty tables that is quiet until all have been copied, no worker
\* fails on a key that is there, for any number of nodes and rows and any order of
\* the copies (QuietSetupHasNoConflict).
THEOREM QuietSetupsNeverConflict == BootSpec => QuietSetupHasNoConflict
<1> DEFINE Empty == \A n \in Node : Start[n] = {}
           Quiet == fresh # Row => Copied
           Safe == \A n \in Node, q \in Edge : ~Conflict(n, q)
<1>1. BootInit /\ Empty => Clean
  <2> SUFFICES ASSUME BootInit, Empty PROVE Clean
    OBVIOUS
  <2>1. rows = Start /\ stream = Idle
    BY DEF BootInit, Joining
  <2>2. \A p, s \in Node : stream[p][s] = << >> /\ Range(stream[p][s]) = {} /\ Distinct(stream[p][s])
    BY <2>1 DEF Idle, Range, Distinct
  <2> QED
    BY <2>1, <2>2 DEF Clean
<1>2. BootInv /\ NoContainers /\ Clean /\ Quiet /\ [BootNext]_bootVars => (NoContainers /\ Clean)'
  <2> SUFFICES ASSUME BootInv, NoContainers, Clean, Quiet, [BootNext]_bootVars
               PROVE  NoContainers' /\ Clean'
    OBVIOUS
  <2>1. CASE UNCHANGED <<pc, rows, stream, fresh>>
    BY <2>1 DEF NoContainers, Clean
  <2>2. ASSUME NEW n \in Node, StartContainer(n) \/ Script(n) \/ Kill(n) PROVE FALSE
    <3>1. pc[n] = "peer"
      BY DEF NoContainers
    <3> QED
      BY <2>2, <3>1 DEF StartContainer, Script, Kill, FindDonor, SkipDonor, Clone, CloneFails, Boot,
                        Configure, FindPeer, SkipPeer, MakeSlot, MakeSlotErrs, MakeSlotFails, Subscribe, NextPeer, Goto
  <2>3. CASE Setup
    BY <2>1, <2>3 DEF Setup, CreateSubscription, script
  <2>4. ASSUME NEW n \in Node, NEW q \in Edge, Work(n, q) PROVE NoContainers' /\ Clean'
    <3>1. NoContainers' /\ (Copy(n, q) \/ ApplyInsert(n, q))
      BY <2>4 DEF Work, Worker, script, NoContainers
    <3>2. CASE Copy(n, q)
      BY <3>1, <3>2, CopyClean DEF Copy
    <3> QED
      BY <3>1, <3>2, ApplyClean
  <2>5. ASSUME NEW n \in Node, NEW r \in Row, Write(n, r) PROVE NoContainers' /\ Clean'
    BY <2>5, InsertClean DEF Write, script, NoContainers
  <2> QED
    BY <2>1, <2>2, <2>3, <2>4, <2>5 DEF BootNext, bootVars, data, script
<1>3. BootInv /\ NoContainers /\ Clean /\ Quiet => Safe
  <2> SUFFICES ASSUME BootInv, NoContainers, Clean, Quiet, NEW n \in Node, NEW q \in Edge
               PROVE  ~Conflict(n, q)
    OBVIOUS
  <2>1. ASSUME sub[n][q] = "init" PROVE rows[n] \cap rows[q[2]] = {}
    BY <2>1, CopyClean
  <2>2. ASSUME Arrived(n, q) PROVE Head(stream[q[2]][q[1]]) \notin rows[n]
    <3>1. n = q[1] /\ q[2] \in Node
      BY <2>2 DEF BootInv, Spread, Edge, Arrived
    <3>2. Head(stream[q[2]][n]) \in Range(stream[q[2]][n])
      BY <2>2, <3>1, Types, RangeTail DEF Arrived
    <3> QED
      BY <3>1, <3>2 DEF Clean
  <2> QED
    BY <2>1, <2>2 DEF Conflict
<1> HIDE DEF Empty, Quiet, Safe
<1>4. BootSpec => (Empty /\ NoContainers /\ []Quiet => []Safe)
  BY <1>1, <1>2, <1>3, BootInvariance, PTL DEF BootSpec
<1> QED
  BY <1>4, PTL DEF QuietSetupHasNoConflict, Empty, Quiet, Safe
=============================================================================
