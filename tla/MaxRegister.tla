---------------------------- MODULE MaxRegister ----------------------------
(***************************************************************************)
(* What a replicated row promises: a register per key and node that only   *)
(* moves up a total order.  A write puts a new value above the writer's    *)
(* own; the network brings it to every other node in any order and any     *)
(* number of times; a node that receives a value keeps the greater one.    *)
(* The order is that of the stamps, and a deletion (Gone) is above all.    *)
(***************************************************************************)
EXTENDS HLC, TLAPS

CONSTANTS
    Item,   \* what is replicated
    Value,  \* what can be written: records with a stamp in hlc and node
    Gone    \* the deletion

\* What the theorems below assume of the values; who instantiates the module
\* shows it of its own.
ValueAssumption ==
    /\ \A x \in Value : x.hlc \in Clock /\ x.node \in Node
    /\ Gone \notin Value

VARIABLES
    reg,    \* reg[n][k]: the value of k at node n
    sent    \* the messages that may still arrive

vars == <<reg, sent>>

Message == [to : Node, key : Item, new : Value \cup {Gone}]

Below(x, y) ==
    \/ x # Gone /\ y = Gone
    \/ x # Gone /\ y # Gone /\ Precedes(x, y)

AtMost(x, y) == x = y \/ Below(x, y)

Join(x, y) == IF Below(x, y) THEN y ELSE x

\* The values of k that are at a node or on the way to one.
Present(k) == {reg[n][k] : n \in Node} \cup {m.new : m \in {l \in sent : l.key = k}}

Init ==
    \E start \in [Item -> Value \cup {Gone}] :
        /\ reg = [n \in Node |-> start]
        /\ sent = {}

\* A new value compares with every value there is: stamps do not tie.
Write(n, k, x) ==
    /\ Below(reg[n][k], x)
    /\ \A y \in Present(k) : AtMost(x, y) \/ Below(y, x)
    /\ reg' = [reg EXCEPT ![n][k] = x]
    /\ sent' = sent \cup {[to |-> s, key |-> k, new |-> x] : s \in Node \ {n}}

Receive(m) ==
    /\ reg' = [reg EXCEPT ![m.to][m.key] = Join(@, m.new)]
    /\ sent' \in {sent, sent \ {m}}

Next ==
    \/ \E n \in Node, k \in Item, x \in Value \cup {Gone} : Write(n, k, x)
    \/ \E m \in sent : Receive(m)

Spec == Init /\ [][Next]_vars

TypeOK ==
    /\ reg \in [Node -> [Item -> Value \cup {Gone}]]
    /\ sent \in SUBSET Message

\* Node n has x or a greater value, or such a value is on its way to n.
Covered(n, k, x) ==
    \/ AtMost(x, reg[n][k])
    \/ \E m \in sent : m.to = n /\ m.key = k /\ AtMost(x, m.new)

\* No value is ever forgotten: whatever is stored at a node or under way to
\* one has reached every node, is under way to it, or is exceeded there.
NothingLost == \A k \in Item : \A x \in Present(k) : \A n \in Node : Covered(n, k, x)

\* When nothing is under way, all nodes agree.
Agreement == sent = {} => \A m, n \in Node : reg[m] = reg[n]
-----------------------------------------------------------------------------
(* Proofs.  Agreement is not inductive: it says nothing while messages are   *)
(* under way.  NothingLost is, given that no two values tie (Comparable).    *)

\* Any two values of one key are ordered.
Comparable ==
    \A k \in Item : \A x, y \in Present(k) : AtMost(x, y) \/ Below(y, x)

Inv == TypeOK /\ Comparable /\ NothingLost

\* The order of stamps is transitive and irreflexive, so AtMost is a partial
\* order on the values.
LEMMA BelowTransitive ==
    ASSUME ValueAssumption,
           NEW x \in Value \cup {Gone}, NEW y \in Value \cup {Gone},
           NEW z \in Value \cup {Gone}, Below(x, y), Below(y, z)
    PROVE  Below(x, z)
BY RankAssumption DEF ValueAssumption, Below, Precedes, Before, Clock

LEMMA BelowIrreflexive ==
    ASSUME ValueAssumption, NEW x \in Value \cup {Gone}
    PROVE  ~Below(x, x)
BY RankAssumption DEF ValueAssumption, Below, Precedes, Before, Clock

LEMMA AtMostTransitive ==
    ASSUME ValueAssumption,
           NEW x \in Value \cup {Gone}, NEW y \in Value \cup {Gone},
           NEW z \in Value \cup {Gone}, AtMost(x, y), AtMost(y, z)
    PROVE  AtMost(x, z)
BY BelowTransitive DEF AtMost

LEMMA AtMostAntisymmetric ==
    ASSUME ValueAssumption,
           NEW x \in Value \cup {Gone}, NEW y \in Value \cup {Gone},
           AtMost(x, y), AtMost(y, x)
    PROVE  x = y
BY BelowTransitive, BelowIrreflexive DEF AtMost

\* The values of a key are values.
LEMMA PresentType ==
    ASSUME TypeOK, NEW k \in Item
    PROVE  Present(k) \subseteq Value \cup {Gone}
BY DEF TypeOK, Present, Message

\* A node that joins two ordered values has at least each of them.
LEMMA JoinIsUpperBound ==
    ASSUME NEW x, NEW y, AtMost(x, y) \/ Below(y, x)
    PROVE  AtMost(x, Join(x, y)) /\ AtMost(y, Join(x, y))
BY DEF AtMost, Join

\* The registers and messages have the declared form.
THEOREM Typing == Spec => []TypeOK
<1>1. Init => TypeOK
  BY DEF Init, TypeOK
<1>2. TypeOK /\ [Next]_vars => TypeOK'
  <2> SUFFICES ASSUME TypeOK, [Next]_vars PROVE TypeOK'
    OBVIOUS
  <2>1. CASE UNCHANGED vars
    BY <2>1 DEF TypeOK, vars
  <2>2. ASSUME NEW n \in Node, NEW k \in Item, NEW x \in Value \cup {Gone}, Write(n, k, x)
        PROVE  TypeOK'
    BY <2>2 DEF TypeOK, Write, Message
  <2>3. ASSUME NEW m \in sent, Receive(m) PROVE TypeOK'
    <3>1. m \in Message
      BY DEF TypeOK
    <3>2. Join(reg[m.to][m.key], m.new) \in Value \cup {Gone}
      BY <3>1 DEF TypeOK, Message, Join
    <3>3. reg' \in [Node -> [Item -> Value \cup {Gone}]]
      BY <2>3, <3>1, <3>2 DEF TypeOK, Receive, Message
    <3> QED
      BY <2>3, <3>3 DEF TypeOK, Receive
  <2> QED
    BY <2>1, <2>2, <2>3 DEF Next
<1> QED
  BY <1>1, <1>2, PTL DEF Spec

\* A message carries a value of its key, and so does every register.
LEMMA PresentMembers ==
    ASSUME TypeOK
    PROVE  /\ \A n \in Node, k \in Item : reg[n][k] \in Present(k)
           /\ \A m \in sent : m.new \in Present(m.key)
BY DEF Present, TypeOK, Message

\* A write brings in its own value and no other.
LEMMA WritePresent ==
    ASSUME TypeOK, NEW n \in Node, NEW k \in Item, NEW x \in Value \cup {Gone},
           Write(n, k, x), NEW l \in Item, NEW y \in Present(l)'
    PROVE  y \in Present(l) \/ (l = k /\ y = x)
BY DEF Present, TypeOK, Message, Write

\* A step of Receive brings in no value.
LEMMA ReceivePresent ==
    ASSUME TypeOK, NEW m \in sent, Receive(m), NEW l \in Item, NEW y \in Present(l)'
    PROVE  y \in Present(l)
<1>1. m \in Message /\ sent' \subseteq sent
  BY DEF TypeOK, Receive
<1>2. CASE \E n \in Node : y = reg'[n][l]
  <2>1. PICK n \in Node : y = reg'[n][l]
    BY <1>2
  <2>2. CASE n = m.to /\ l = m.key
    <3>1. y \in {reg[n][l], m.new}
      BY <1>1, <2>1, <2>2 DEF Receive, TypeOK, Message, Join
    <3> QED
      BY <3>1, <2>2, PresentMembers
  <2>3. CASE ~(n = m.to /\ l = m.key)
    <3>1. y = reg[n][l]
      BY <1>1, <2>1, <2>3 DEF Receive, TypeOK, Message
    <3> QED
      BY <3>1, PresentMembers
  <2> QED
    BY <2>2, <2>3
<1>3. CASE \E d \in sent' : d.key = l /\ y = d.new
  BY <1>1, <1>3 DEF Present
<1> QED
  BY <1>2, <1>3 DEF Present

\* What a node has of a key never gets less, and a message that disappears has
\* been joined to the register it was for: a covered value stays covered.
LEMMA ReceiveKeepsCovered ==
    ASSUME ValueAssumption, Inv, NEW m \in sent, Receive(m),
           NEW k \in Item, NEW x \in Present(k), NEW n \in Node, Covered(n, k, x)
    PROVE  Covered(n, k, x)'
<1>1. m \in Message /\ TypeOK /\ Comparable
  BY DEF Inv, TypeOK
<1>2. x \in Value \cup {Gone}
  BY <1>1, PresentType
<1> DEFINE old == reg[m.to][m.key]
           new == reg'[m.to][m.key]
<1>3. old \in Present(m.key) /\ m.new \in Present(m.key)
  BY <1>1, PresentMembers DEF Message
<1>4. /\ old \in Value \cup {Gone} /\ m.new \in Value \cup {Gone} /\ new = Join(old, m.new)
      /\ new \in Value \cup {Gone}
  BY <1>1 DEF TypeOK, Message, Receive, Join
<1>5. AtMost(old, new) /\ AtMost(m.new, new)
  BY <1>1, <1>3, <1>4, JoinIsUpperBound DEF Comparable, Message
<1>6. CASE AtMost(x, reg[n][k])
  <2>1. CASE n = m.to /\ k = m.key
    BY <1>2, <1>4, <1>5, <1>6, <2>1, AtMostTransitive DEF Covered
  <2>2. CASE ~(n = m.to /\ k = m.key)
    <3>1. reg'[n][k] = reg[n][k]
      BY <1>1, <2>2 DEF Receive, TypeOK, Message
    <3> QED
      BY <1>6, <3>1 DEF Covered
  <2> QED
    BY <2>1, <2>2
<1>7. ASSUME NEW d \in sent, d.to = n, d.key = k, AtMost(x, d.new) PROVE Covered(n, k, x)'
  <2>1. CASE d \in sent'
    BY <1>7, <2>1 DEF Covered
  <2>2. CASE d \notin sent'
    <3>1. d = m
      BY <2>2 DEF Receive
    <3>2. AtMost(x, new)
      BY <1>2, <1>4, <1>5, <1>7, <3>1, AtMostTransitive
    <3> QED
      BY <1>7, <3>1, <3>2 DEF Covered
  <2> QED
    BY <2>1, <2>2
<1> QED
  BY <1>6, <1>7 DEF Covered

\* Every value is covered at every node in every reachable state, and no two
\* values tie.
THEOREM Invariance ==
    ASSUME ValueAssumption
    PROVE  Spec => []Inv
<1>1. Init => Inv
  BY BelowIrreflexive DEF Init, Inv, TypeOK, Comparable, NothingLost, Covered, Present, AtMost
<1>2. Inv /\ TypeOK' /\ [Next]_vars => Inv'
  <2> SUFFICES ASSUME Inv, TypeOK', [Next]_vars PROVE Comparable' /\ NothingLost'
    BY DEF Inv
  <2> USE DEF Inv
  <2>1. CASE UNCHANGED vars
    BY <2>1 DEF vars, Comparable, NothingLost, Covered, Present
  <2>2. ASSUME NEW n \in Node, NEW k \in Item, NEW x \in Value \cup {Gone}, Write(n, k, x)
        PROVE  Comparable' /\ NothingLost'
    <3>1. Comparable'
      <4> SUFFICES ASSUME NEW l \in Item, NEW y \in Present(l)', NEW z \in Present(l)'
                   PROVE  AtMost(y, z) \/ Below(z, y)
        BY DEF Comparable
      <4>1. /\ y \in Present(l) \/ (l = k /\ y = x)
            /\ z \in Present(l) \/ (l = k /\ z = x)
        BY <2>2, WritePresent
      <4> QED
        BY <2>2, <4>1 DEF Comparable, Write, AtMost
    <3>2. NothingLost'
      <4> SUFFICES ASSUME NEW l \in Item, NEW y \in Present(l)', NEW s \in Node
                   PROVE  Covered(s, l, y)'
        BY DEF NothingLost
      <4>1. y \in Present(l) \/ (l = k /\ y = x)
        BY <2>2, WritePresent
      <4>2. /\ y \in Value \cup {Gone} /\ reg[s][l] \in Value \cup {Gone}
            /\ reg'[s][l] \in Value \cup {Gone} /\ sent \subseteq sent'
        BY <2>2, <4>1, PresentType DEF TypeOK, Write
      <4>3. AtMost(reg[s][l], reg'[s][l])
        BY <2>2 DEF Write, TypeOK, AtMost
      <4>4. CASE y \in Present(l)
        <5>1. Covered(s, l, y)
          BY <4>4 DEF NothingLost
        <5> QED
          BY <4>2, <4>3, <5>1, AtMostTransitive DEF Covered
      <4>5. CASE l = k /\ y = x
        <5>1. CASE s = n
          BY <2>2, <4>5, <5>1 DEF Covered, Write, TypeOK, AtMost
        <5>2. CASE s # n
          <6>1. [to |-> s, key |-> k, new |-> x] \in sent'
            BY <2>2, <5>2 DEF Write
          <6> QED
            BY <4>5, <6>1 DEF Covered, AtMost
        <5> QED
          BY <5>1, <5>2
      <4> QED
        BY <4>1, <4>4, <4>5
    <3> QED
      BY <3>1, <3>2
  <2>3. ASSUME NEW m \in sent, Receive(m) PROVE Comparable' /\ NothingLost'
    <3>1. Comparable'
      BY <2>3, ReceivePresent DEF Comparable
    <3>2. NothingLost'
      <4> SUFFICES ASSUME NEW l \in Item, NEW y \in Present(l)', NEW s \in Node
                   PROVE  Covered(s, l, y)'
        BY DEF NothingLost
      <4>1. y \in Present(l)
        BY <2>3, ReceivePresent
      <4>2. Covered(s, l, y)
        BY <4>1 DEF NothingLost
      <4> QED
        BY <2>3, <4>1, <4>2, ReceiveKeepsCovered
    <3> QED
      BY <3>1, <3>2
  <2> QED
    BY <2>1, <2>2, <2>3 DEF Next
<1> QED
  BY <1>1, <1>2, Typing, PTL DEF Spec

\* In every reachable state no value is forgotten by any node.
THEOREM NeverLost ==
    ASSUME ValueAssumption
    PROVE  Spec => []NothingLost
BY Invariance, PTL DEF Inv

\* In every reachable state with nothing under way, all nodes have the same
\* value of every key.
THEOREM Convergence ==
    ASSUME ValueAssumption
    PROVE  Spec => []Agreement
<1>1. Inv => Agreement
  <2> SUFFICES ASSUME Inv, sent = {}, NEW m \in Node, NEW n \in Node
               PROVE  reg[m] = reg[n]
    BY DEF Agreement
  <2>1. \A k \in Item : reg[m][k] = reg[n][k]
    <3> TAKE k \in Item
    <3>1. reg[m][k] \in Present(k) /\ reg[n][k] \in Present(k)
      BY DEF Present
    <3>2. AtMost(reg[m][k], reg[n][k]) /\ AtMost(reg[n][k], reg[m][k])
      BY <3>1 DEF Inv, NothingLost, Covered
    <3> QED
      BY <3>2, AtMostAntisymmetric DEF Inv, TypeOK
  <2> QED
    BY <2>1 DEF Inv, TypeOK
<1> QED
  BY <1>1, Invariance, PTL
=============================================================================
