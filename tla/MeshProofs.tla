---------------------------- MODULE MeshProofs ----------------------------
(* What publishing and consuming a change does to the changes on their way  *)
(* to each node, for any set of changes.                                    *)
EXTENDS Mesh, TLAPS

Carries(C) == stream \in [Node -> [Node -> Seq(C)]]

\* Append adds one element to the range of a sequence.
LEMMA RangeAppend ==
    ASSUME NEW C, NEW q \in Seq(C), NEW c \in C
    PROVE  Range(Append(q, c)) = Range(q) \cup {c}
<1>1. Range(Append(q, c)) \subseteq Range(q) \cup {c}
  BY DEF Range
<1>2. c \in Range(Append(q, c))
  <2>1. Append(q, c)[Len(q) + 1] = c /\ Len(q) + 1 \in DOMAIN Append(q, c)
    OBVIOUS
  <2> QED
    BY <2>1 DEF Range
<1>3. ASSUME NEW i \in DOMAIN q PROVE q[i] \in Range(Append(q, c))
  <2>1. Append(q, c)[i] = q[i] /\ i \in DOMAIN Append(q, c)
    OBVIOUS
  <2> QED
    BY <2>1 DEF Range
<1> QED
  BY <1>1, <1>2, <1>3 DEF Range

\* The range of a sequence is that of its tail and its head.
LEMMA RangeTail ==
    ASSUME NEW C, NEW q \in Seq(C), q # << >>
    PROVE  /\ Head(q) \in C /\ Tail(q) \in Seq(C)
           /\ Range(q) = Range(Tail(q)) \cup {Head(q)}
<1>1. Head(q) \in C /\ Tail(q) \in Seq(C) /\ Head(q) \in Range(q)
  BY DEF Range
<1>2. ASSUME NEW i \in DOMAIN Tail(q) PROVE Tail(q)[i] \in Range(q)
  <2>1. Tail(q)[i] = q[i + 1] /\ i + 1 \in DOMAIN q
    OBVIOUS
  <2> QED
    BY <2>1 DEF Range
<1>3. ASSUME NEW i \in DOMAIN q, i # 1 PROVE q[i] \in Range(Tail(q))
  <2>1. q[i] = Tail(q)[i - 1] /\ i - 1 \in DOMAIN Tail(q)
    BY <1>3
  <2> QED
    BY <2>1 DEF Range
<1>4. q[1] = Head(q)
  OBVIOUS
<1> QED
  BY <1>1, <1>2, <1>3, <1>4 DEF Range

\* A published change is on its way to every other node.
LEMMA PublishEffect ==
    ASSUME NEW C, Carries(C), NEW n \in Node, NEW c \in C, Publish(n, c)
    PROVE  /\ Carries(C)'
           /\ \A m \in Node : Arriving(m)' = IF m = n THEN Arriving(m)
                                             ELSE Arriving(m) \cup {c}
<1>1. Carries(C)'
  BY DEF Carries, Publish
<1>2. ASSUME NEW m \in Node, NEW p \in Node
      PROVE  Range(stream'[p][m]) = IF p = n /\ m # n THEN Range(stream[p][m]) \cup {c}
                                    ELSE Range(stream[p][m])
  <2>1. stream[p][m] \in Seq(C)
    BY DEF Carries
  <2>2. stream'[p][m] = IF p = n /\ m # n THEN Append(stream[p][m], c) ELSE stream[p][m]
    BY DEF Carries, Publish
  <2>3. Range(Append(stream[p][m], c)) = Range(stream[p][m]) \cup {c}
    BY <2>1, RangeAppend
  <2> QED
    BY <2>2, <2>3
<1>3. ASSUME NEW m \in Node
      PROVE  Arriving(m)' = IF m = n THEN Arriving(m) ELSE Arriving(m) \cup {c}
  <2>1. CASE m = n
    BY <1>2, <2>1 DEF Arriving
  <2>2. CASE m # n
    <3>1. \A p \in Node : Range(stream'[p][m]) \subseteq Range(stream[p][m]) \cup {c}
      BY <1>2
    <3>2. \A p \in Node : Range(stream[p][m]) \subseteq Range(stream'[p][m])
      BY <1>2
    <3>3. c \in Range(stream'[n][m])
      BY <1>2, <2>2
    <3> QED
      BY <2>2, <3>1, <3>2, <3>3 DEF Arriving
  <2> QED
    BY <2>1, <2>2
<1> QED
  BY <1>1, <1>3

\* Consuming a change takes at most that change out of what is on its way to
\* the subscriber, and touches nothing that is on its way elsewhere.
LEMMA ConsumeEffect ==
    ASSUME NEW C, Carries(C), NEW p \in Node, NEW s \in Node,
           stream[p][s] # << >>, Consume(p, s)
    PROVE  /\ Carries(C)'
           /\ Head(stream[p][s]) \in C
           /\ Arriving(s) = Arriving(s)' \cup {Head(stream[p][s])}
           /\ \A m \in Node \ {s} : Arriving(m)' = Arriving(m)
<1>1. /\ Head(stream[p][s]) \in C /\ Tail(stream[p][s]) \in Seq(C)
      /\ Range(stream[p][s]) = Range(Tail(stream[p][s])) \cup {Head(stream[p][s])}
  BY RangeTail DEF Carries
<1>2. Carries(C)'
  BY <1>1 DEF Carries, Consume
<1>3. \A q, m \in Node : stream'[q][m] = IF q = p /\ m = s THEN Tail(stream[p][s])
                                         ELSE stream[q][m]
  BY DEF Carries, Consume
<1>4. \A m \in Node \ {s} : Arriving(m)' = Arriving(m)
  BY <1>3 DEF Arriving
<1>5. Arriving(s) = Arriving(s)' \cup {Head(stream[p][s])}
  BY <1>1, <1>3 DEF Arriving
<1> QED
  BY <1>1, <1>2, <1>4, <1>5

\* What arrives is what was published.
LEMMA ArrivingType ==
    ASSUME NEW C, Carries(C), NEW m \in Node
    PROVE  Arriving(m) \subseteq C
<1>1. \A p \in Node : Range(stream[p][m]) \subseteq C
  <2> TAKE p \in Node
  <2>1. stream[p][m] \in Seq(C)
    BY DEF Carries
  <2> QED
    BY <2>1 DEF Range
<1> QED
  BY <1>1 DEF Arriving

\* A drained mesh has nothing on its way.
LEMMA DrainedMesh ==
    ASSUME Drained, NEW m \in Node
    PROVE  Arriving(m) = {}
<1>1. \A p \in Node : stream[p][m] = << >>
  BY DEF Drained, Idle
<1>2. Range(<< >>) = {}
  BY DEF Range
<1> QED
  BY <1>1, <1>2 DEF Arriving

\* An idle mesh carries anything.
LEMMA IdleMesh ==
    ASSUME NEW C, stream = Idle
    PROVE  Carries(C) /\ \A m \in Node : Arriving(m) = {}
BY DrainedMesh DEF Carries, Idle, Drained

-----------------------------------------------------------------------------
(* Tables whose rows are r[n][k], or gone if a node has no such row, and whose *)
(* changes in the streams s have an op, a key and the new contents.  R orders  *)
(* the contents: <<x, y>> \in R if y is as far as x; gone is furthest.         *)

Ordering(V, gone, R) ==
    /\ gone \in V
    /\ \A x \in V : <<x, x>> \in R /\ <<x, gone>> \in R
    /\ \A x, y, z \in V : <<x, y>> \in R /\ <<y, z>> \in R => <<x, z>> \in R

Contents(s, r, K, V) ==
    /\ \A p, q \in Node : \A i \in DOMAIN s[p][q] :
          i \in Nat \ {0} /\ s[p][q][i].key \in K /\ s[p][q][i].new \in V
    /\ \A n \in Node, k \in K : r[n][k] \in V

\* Only row k of node n differs: it is x.
Stores(r, r2, n, k, x, K) ==
    \A m \in Node, l \in K : r2[m][l] = IF m = n /\ l = k THEN x ELSE r[m][l]

\* Change c of node n comes last in the streams to all other nodes.
Added(s, s2, n, c) ==
    \A p, q \in Node :
        /\ \A i \in DOMAIN s[p][q] : i \in DOMAIN s2[p][q] /\ s2[p][q][i] = s[p][q][i]
        /\ \A i \in DOMAIN s2[p][q] :
              \/ i \in DOMAIN s[p][q] /\ s2[p][q][i] = s[p][q][i]
              \/ /\ p = n /\ q # n /\ i \in Nat \ {0} /\ s2[p][q][i] = c
                 /\ \A j \in DOMAIN s2[p][q] : j <= i
        /\ p = n /\ q # n => \E i \in DOMAIN s2[p][q] : s2[p][q][i] = c

\* The first change from p to q is c, and is no longer there in s2.
Removed(s, s2, p, q, c) ==
    /\ \A m, n \in Node : ~(m = p /\ n = q) => s2[m][n] = s[m][n]
    /\ 1 \in DOMAIN s[p][q] /\ s[p][q][1] = c
    /\ \A i \in DOMAIN s2[p][q] :
          i \in Nat \ {0} /\ i + 1 \in DOMAIN s[p][q] /\ s2[p][q][i] = s[p][q][i + 1]
    /\ \A i \in DOMAIN s[p][q] :
          i = 1 \/ (i - 1 \in DOMAIN s2[p][q] /\ s2[p][q][i - 1] = s[p][q][i])

LEMMA PublishAdds ==
    ASSUME NEW C, Carries(C), NEW n \in Node, NEW c \in C, Publish(n, c)
    PROVE  Added(stream, stream', n, c)
<1> SUFFICES ASSUME NEW p \in Node, NEW q \in Node
             PROVE  /\ \A i \in DOMAIN stream[p][q] :
                          i \in DOMAIN stream'[p][q] /\ stream'[p][q][i] = stream[p][q][i]
                    /\ \A i \in DOMAIN stream'[p][q] :
                          \/ i \in DOMAIN stream[p][q] /\ stream'[p][q][i] = stream[p][q][i]
                          \/ /\ p = n /\ q # n /\ i \in Nat \ {0} /\ stream'[p][q][i] = c
                             /\ \A j \in DOMAIN stream'[p][q] : j <= i
                    /\ p = n /\ q # n => \E i \in DOMAIN stream'[p][q] : stream'[p][q][i] = c
  BY DEF Added
<1>1. stream[p][q] \in Seq(C)
  BY DEF Carries
<1>2. stream'[p][q] = IF p = n /\ q # n THEN Append(stream[p][q], c) ELSE stream[p][q]
  BY DEF Carries, Publish
<1>3. CASE p = n /\ q # n
  <2> DEFINE old == stream[p][q]
  <2>1. old \in Seq(C) /\ stream'[p][q] = Append(old, c)
    BY <1>1, <1>2, <1>3
  <2> HIDE DEF old
  <2>2. /\ Len(old) + 1 \in Nat \ {0}
        /\ DOMAIN Append(old, c) = DOMAIN old \cup {Len(old) + 1}
        /\ \A i \in DOMAIN old : Append(old, c)[i] = old[i] /\ i <= Len(old) + 1
        /\ Append(old, c)[Len(old) + 1] = c
    BY <2>1
  <2> QED
    BY <1>3, <2>1, <2>2 DEF old
<1>4. CASE ~(p = n /\ q # n)
  BY <1>2, <1>4
<1> QED
  BY <1>3, <1>4

LEMMA ConsumeRemoves ==
    ASSUME NEW C, Carries(C), NEW p \in Node, NEW q \in Node, stream[p][q] # << >>, Consume(p, q)
    PROVE  Removed(stream, stream', p, q, Head(stream[p][q]))
<1> DEFINE old == stream[p][q]
<1>1. old \in Seq(C) /\ old # << >>
  BY DEF Carries
<1>2. stream'[p][q] = Tail(old) /\ \A m, n \in Node : ~(m = p /\ n = q) => stream'[m][n] = stream[m][n]
  BY DEF Carries, Consume
<1> HIDE DEF old
<1>3. /\ 1 \in DOMAIN old /\ old[1] = Head(old)
      /\ \A i \in DOMAIN Tail(old) : i \in Nat \ {0} /\ i + 1 \in DOMAIN old /\ Tail(old)[i] = old[i + 1]
      /\ \A i \in DOMAIN old : i = 1 \/ (i - 1 \in DOMAIN Tail(old) /\ Tail(old)[i - 1] = old[i])
  BY <1>1
<1> QED
  BY <1>2, <1>3 DEF old, Removed

-----------------------------------------------------------------------------
(* Keys that are generated once. *)

\* A key that is still to be generated is nowhere.
Unknown(s, r, used, K, gone) ==
    \A k \in K : k \notin used =>
        /\ \A n \in Node : r[n][k] = gone
        /\ \A p, q \in Node : \A i \in DOMAIN s[p][q] : s[p][q][i].key # k

LEMMA UnknownIfIdle ==
    ASSUME NEW r, NEW used, NEW K, NEW gone, \A n \in Node, k \in K : k \notin used => r[n][k] = gone
    PROVE  Unknown(Idle, r, used, K, gone)
BY DEF Unknown, Idle

LEMMA AddedUnknown ==
    ASSUME NEW s, NEW s2, NEW r, NEW r2, NEW used, NEW used2, NEW K, NEW gone,
           Unknown(s, r, used, K, gone), NEW n \in Node, NEW k \in K, NEW x, NEW c,
           Added(s, s2, n, c), Stores(r, r2, n, k, x, K), c.key = k, used \subseteq used2, k \in used2
    PROVE  Unknown(s2, r2, used2, K, gone)
<1>1. \A p, q \in Node : \A i \in DOMAIN s2[p][q] :
          (i \in DOMAIN s[p][q] /\ s2[p][q][i] = s[p][q][i]) \/ s2[p][q][i] = c
  BY DEF Added
<1>2. \A m \in Node, l \in K : l # k => r2[m][l] = r[m][l]
  BY DEF Stores
<1> QED
  BY <1>1, <1>2 DEF Unknown

LEMMA RemovedUnknown ==
    ASSUME NEW s, NEW s2, NEW r, NEW r2, NEW used, NEW K, NEW gone, Unknown(s, r, used, K, gone),
           NEW p \in Node, NEW q \in Node, NEW c, c.key \in K, NEW x,
           Removed(s, s2, p, q, c), Stores(r, r2, q, c.key, x, K)
    PROVE  Unknown(s2, r2, used, K, gone)
<1>1. \A m, n \in Node : \A i \in DOMAIN s2[m][n] : \E j \in DOMAIN s[m][n] : s2[m][n][i] = s[m][n][j]
  BY DEF Removed
<1>2. c.key \in used
  BY DEF Removed, Unknown
<1>3. \A m \in Node, l \in K : l # c.key => r2[m][l] = r[m][l]
  BY DEF Stores
<1> QED
  BY <1>1, <1>2, <1>3 DEF Unknown

\* The i-th change from p to q is the INSERT of row k.
Inserts(s, p, q, i, k) == i \in DOMAIN s[p][q] /\ s[p][q][i].op = "INSERT" /\ s[p][q][i].key = k

\* While an INSERT is on its way to q, its key is used, q has no such row, and no
\* other INSERT of the key is on its way to q.
InsertsOnce(s, r, used, K, gone) ==
    /\ \A n \in Node, k \in K : r[n][k] # gone => k \in used
    /\ \A p, q \in Node, k \in K : \A i : Inserts(s, p, q, i, k) =>
          /\ k \in used /\ r[q][k] = gone
          /\ \A o \in Node : \A j : Inserts(s, o, q, j, k) => o = p /\ j = i

LEMMA InsertsOnceIfIdle ==
    ASSUME NEW r, NEW used, NEW K, NEW gone, \A n \in Node, k \in K : k \notin used => r[n][k] = gone
    PROVE  InsertsOnce(Idle, r, used, K, gone)
BY DEF InsertsOnce, Inserts, Idle

\* A change of a row the node has, which is no INSERT, disturbs no INSERT.
LEMMA ChangeInsertsOnce ==
    ASSUME NEW s, NEW s2, NEW r, NEW r2, NEW used, NEW K, NEW gone, InsertsOnce(s, r, used, K, gone),
           NEW n \in Node, NEW c, c.op # "INSERT", Added(s, s2, n, c),
           NEW k \in K, r[n][k] # gone, NEW x, Stores(r, r2, n, k, x, K)
    PROVE  InsertsOnce(s2, r2, used, K, gone)
<1>1. \A p, q \in Node, l \in K : \A i : Inserts(s2, p, q, i, l) => Inserts(s, p, q, i, l)
  BY DEF Added, Inserts
<1>2. \A m \in Node, l \in K : r2[m][l] # gone => r[m][l] # gone
  BY DEF Stores
<1> QED
  BY <1>1, <1>2 DEF InsertsOnce

\* A key that is used for the first time is inserted nowhere else.
LEMMA InsertInsertsOnce ==
    ASSUME NEW s, NEW s2, NEW r, NEW r2, NEW used, NEW K, NEW gone, InsertsOnce(s, r, used, K, gone),
           NEW n \in Node, NEW k \in K, k \notin used, NEW c, c.key = k, Added(s, s2, n, c),
           NEW x, Stores(r, r2, n, k, x, K)
    PROVE  InsertsOnce(s2, r2, used \cup {k}, K, gone)
<1>1. \A p, q \in Node : \A i : ~Inserts(s, p, q, i, k)
  BY DEF InsertsOnce
<1>2. \A m \in Node : r[m][k] = gone
  BY DEF InsertsOnce
<1>3. ASSUME NEW p \in Node, NEW q \in Node, NEW l \in K, NEW i, Inserts(s2, p, q, i, l)
      PROVE  /\ l # k => Inserts(s, p, q, i, l)
             /\ l = k => /\ p = n /\ q # n /\ i \in Nat
                         /\ \A j \in DOMAIN s2[p][q] : j <= i
  BY <1>1, <1>3 DEF Added, Inserts
<1>4. \A m \in Node, l \in K : r2[m][l] # gone => l \in used \cup {k}
  BY DEF InsertsOnce, Stores
<1>5. ASSUME NEW p \in Node, NEW q \in Node, NEW l \in K, NEW i, Inserts(s2, p, q, i, l)
      PROVE  /\ l \in used \cup {k} /\ r2[q][l] = gone
             /\ \A o \in Node : \A j : Inserts(s2, o, q, j, l) => o = p /\ j = i
  <2>1. CASE l = k
    <3>1. p = n /\ q # n /\ r2[q][k] = gone
      BY <1>2, <1>3, <1>5, <2>1 DEF Stores
    <3>2. ASSUME NEW o \in Node, NEW j, Inserts(s2, o, q, j, l) PROVE o = p /\ j = i
      <4>1. o = p
        BY <1>3, <2>1, <3>1, <3>2
      <4>2. i \in DOMAIN s2[p][q] /\ j \in DOMAIN s2[p][q]
        BY <1>5, <3>2, <4>1 DEF Inserts
      <4>3. i \in Nat /\ j \in Nat /\ i <= j /\ j <= i
        BY <1>3, <1>5, <2>1, <3>2, <4>1, <4>2
      <4> QED
        BY <4>1, <4>3
    <3> QED
      BY <2>1, <3>1, <3>2
  <2>2. CASE l # k
    <3>1. Inserts(s, p, q, i, l) /\ \A o \in Node : \A j : Inserts(s2, o, q, j, l) => Inserts(s, o, q, j, l)
      BY <1>3, <1>5, <2>2
    <3>2. r2[q][l] = r[q][l]
      BY <2>2 DEF Stores
    <3> QED
      BY <3>1, <3>2 DEF InsertsOnce
  <2> QED
    BY <2>1, <2>2
<1> QED
  BY <1>4, <1>5 DEF InsertsOnce

\* A row that appears where a change is applied is that of an INSERT.
LEMMA ApplyInsertsOnce ==
    ASSUME NEW s, NEW s2, NEW r, NEW r2, NEW used, NEW K, NEW gone, InsertsOnce(s, r, used, K, gone),
           NEW p \in Node, NEW q \in Node, NEW c, c.key \in K, Removed(s, s2, p, q, c),
           NEW x, Stores(r, r2, q, c.key, x, K),
           x # gone => c.op = "INSERT" \/ r[q][c.key] # gone
    PROVE  InsertsOnce(s2, r2, used, K, gone)
<1> DEFINE old(m, n, i) == IF m = p /\ n = q THEN i + 1 ELSE i
<1>1. ASSUME NEW m \in Node, NEW n \in Node, NEW k \in K, NEW i, Inserts(s2, m, n, i, k)
      PROVE  /\ Inserts(s, m, n, old(m, n, i), k)
             /\ m = p /\ n = q => i \in Nat \ {0}
  <2>1. CASE m = p /\ n = q
    BY <1>1, <2>1 DEF Removed, Inserts
  <2>2. CASE ~(m = p /\ n = q)
    BY <1>1, <2>2 DEF Removed, Inserts
  <2> QED
    BY <2>1, <2>2
<1>2. \A n \in Node, k \in K : r2[n][k] # gone => r[n][k] # gone \/ (n = q /\ Inserts(s, p, q, 1, k))
  BY DEF Stores, Removed, Inserts
<1>3. \A n \in Node, k \in K : r2[n][k] # gone => k \in used
  BY <1>2 DEF InsertsOnce
<1>4. ASSUME NEW m \in Node, NEW n \in Node, NEW k \in K, NEW i, Inserts(s2, m, n, i, k)
      PROVE  /\ k \in used /\ r2[n][k] = gone
             /\ \A o \in Node : \A j : Inserts(s2, o, n, j, k) => o = m /\ j = i
  <2>1. /\ Inserts(s, m, n, old(m, n, i), k)
        /\ m = p /\ n = q => i \in Nat \ {0}
    BY <1>1, <1>4
  <2>2. /\ k \in used /\ r[n][k] = gone
        /\ \A o \in Node : \A j : Inserts(s, o, n, j, k) => o = m /\ j = old(m, n, i)
    BY <2>1 DEF InsertsOnce
  <2>3. ~(n = q /\ Inserts(s, p, q, 1, k))
    <3>1. SUFFICES ASSUME n = q, Inserts(s, p, q, 1, k) PROVE FALSE
      OBVIOUS
    <3>2. p = m /\ 1 = old(m, n, i)
      BY <2>2, <3>1
    <3> QED
      BY <2>1, <3>1, <3>2
  <2>4. r2[n][k] = gone
    BY <1>2, <2>2, <2>3
  <2>5. ASSUME NEW o \in Node, NEW j, Inserts(s2, o, n, j, k) PROVE o = m /\ j = i
    <3>1. /\ Inserts(s, o, n, old(o, n, j), k)
          /\ o = p /\ n = q => j \in Nat \ {0}
      BY <1>1, <2>5
    <3>2. o = m /\ old(o, n, j) = old(m, n, i)
      BY <2>2, <3>1
    <3> QED
      BY <2>1, <3>1, <3>2
  <2> QED
    BY <2>2, <2>4, <2>5
<1> QED
  BY <1>3, <1>4 DEF InsertsOnce

\* The first change of a stream, if an INSERT, finds no row.
LEMMA FirstInsertIsNew ==
    ASSUME NEW C, Carries(C), NEW r, NEW used, NEW K, NEW gone, InsertsOnce(stream, r, used, K, gone),
           NEW p \in Node, NEW q \in Node, Pending(p, q, "INSERT"), Head(stream[p][q]).key \in K
    PROVE  r[q][Head(stream[p][q]).key] = gone
<1>1. stream[p][q] \in Seq(C) /\ stream[p][q] # << >> /\ Head(stream[p][q]).op = "INSERT"
  BY DEF Carries, Pending
<1>2. 1 \in DOMAIN stream[p][q] /\ stream[p][q][1] = Head(stream[p][q])
  BY <1>1
<1>3. Inserts(stream, p, q, 1, Head(stream[p][q]).key)
  BY <1>1, <1>2 DEF Inserts
<1> QED
  BY <1>3 DEF InsertsOnce

-----------------------------------------------------------------------------
(* Two nodes get the same rows. *)

AtMostTwo == \A m, n, o \in Node : m # n => o \in {m, n}

\* The INSERT of row k is on its way from p to q.
Due(s, p, q, k) == \E i \in DOMAIN s[p][q] : s[p][q][i].op = "INSERT" /\ s[p][q][i].key = k

\* A change that takes row k as far as x is on its way from p to q.
Coming(s, p, q, k, x, R) == \E i \in DOMAIN s[p][q] : s[p][q][i].key = k /\ <<x, s[p][q][i].new>> \in R

\* No node sends changes to itself.
Mute(s) == \A n \in Node : DOMAIN s[n][n] = {}

\* An INSERT comes first: before it its subscriber neither has nor changes the row.
InsertsFirst(s, r, L, gone) ==
    \A p, q \in Node : \A i \in DOMAIN s[p][q] :
        s[p][q][i].op = "INSERT" /\ s[p][q][i].key \in L =>
            /\ r[q][s[p][q][i].key] = gone
            /\ \A j \in DOMAIN s[p][q] : s[p][q][j].key = s[p][q][i].key => i <= j
            /\ \A j \in DOMAIN s[q][p] : s[q][p][j].key # s[p][q][i].key

\* A publisher stays as far as what it has published.
Ahead(s, r, L, R) ==
    \A p, q \in Node : \A i \in DOMAIN s[p][q] :
        s[p][q][i].key \in L => <<s[p][q][i].new, r[p][s[p][q][i].key]>> \in R

\* What one node has, the other has reached or will reach.
NoneLost(s, r, L, R) ==
    \A m, n \in Node, k \in L : m # n =>
        \/ Due(s, n, m, k)
        \/ Coming(s, m, n, k, r[m][k], R)
        \/ ~Due(s, m, n, k) /\ <<r[m][k], r[n][k]>> \in R

\* The rows L of all nodes are or will be the same.
Agreeing(s, r, L, gone, R) ==
    Mute(s) /\ InsertsFirst(s, r, L, gone) /\ Ahead(s, r, L, R) /\ NoneLost(s, r, L, R)

LEMMA AgreeingFewer ==
    ASSUME NEW s, NEW r, NEW L, NEW gone, NEW R, Agreeing(s, r, L, gone, R), NEW M \in SUBSET L
    PROVE  Agreeing(s, r, M, gone, R)
<1>1. Mute(s) /\ InsertsFirst(s, r, M, gone)
  BY DEF Agreeing, InsertsFirst
<1>2. Ahead(s, r, M, R) /\ NoneLost(s, r, M, R)
  BY DEF Agreeing, Ahead, NoneLost
<1> QED
  BY <1>1, <1>2 DEF Agreeing

LEMMA AgreeingIfIdle ==
    ASSUME NEW r, NEW K, NEW V, NEW gone, NEW R, Ordering(V, gone, R),
           \A m, n \in Node, k \in K : r[m][k] = r[n][k] /\ r[m][k] \in V
    PROVE  Agreeing(Idle, r, K, gone, R)
<1>1. \A p, q \in Node : DOMAIN Idle[p][q] = {}
  BY DEF Idle
<1>2. Mute(Idle) /\ InsertsFirst(Idle, r, K, gone) /\ Ahead(Idle, r, K, R)
  BY <1>1 DEF Mute, InsertsFirst, Ahead
<1>3. NoneLost(Idle, r, K, R)
  BY <1>1 DEF NoneLost, Due, Ordering
<1> QED
  BY <1>2, <1>3 DEF Agreeing

LEMMA AgreeingWhenIdle ==
    ASSUME NEW r, NEW K, NEW gone, NEW R, Agreeing(Idle, r, K, gone, R),
           NEW m \in Node, NEW n \in Node, NEW k \in K, m # n
    PROVE  <<r[m][k], r[n][k]>> \in R
<1>1. \A p, q \in Node : DOMAIN Idle[p][q] = {}
  BY DEF Idle
<1> QED
  BY <1>1 DEF Agreeing, NoneLost, Due, Coming

\* A node that has a row changes or deletes it.
LEMMA ChangeAgrees ==
    ASSUME NEW K, NEW V, NEW gone, NEW R, Ordering(V, gone, R),
           NEW s, NEW r, Contents(s, r, K, V), NEW L \in SUBSET K, Agreeing(s, r, L, gone, R),
           NEW n \in Node, NEW k \in K, NEW x \in V, NEW c,
           c.op # "INSERT", c.key = k, c.new = x, k \in L => r[n][k] # gone /\ <<r[n][k], x>> \in R,
           NEW s2, NEW r2, Added(s, s2, n, c), Stores(r, r2, n, k, x, K)
    PROVE  Agreeing(s2, r2, L, gone, R)
<1>1. \A m \in Node, l \in K : r2[m][l] = IF m = n /\ l = k THEN x ELSE r[m][l]
  BY DEF Stores
<1>2. \A p, q \in Node : \A i \in DOMAIN s[p][q] : i \in DOMAIN s2[p][q] /\ s2[p][q][i] = s[p][q][i]
  BY DEF Added
<1>3. \A p, q \in Node : \A i \in DOMAIN s2[p][q] :
          \/ i \in DOMAIN s[p][q] /\ s2[p][q][i] = s[p][q][i]
          \/ /\ p = n /\ q # n /\ i \in Nat \ {0} /\ s2[p][q][i] = c
             /\ \A j \in DOMAIN s2[p][q] : j <= i
  BY DEF Added
<1>4. \A m \in Node, l \in L : r[m][l] \in V /\ r2[m][l] \in V /\ <<r[m][l], r2[m][l]>> \in R
  BY <1>1 DEF Contents, Ordering
<1>5. \A p, q \in Node : \A i \in DOMAIN s[p][q] :
          i \in Nat \ {0} /\ s[p][q][i].key \in K /\ s[p][q][i].new \in V
  BY DEF Contents
<1>6. \A u, v, w \in V : <<u, v>> \in R /\ <<v, w>> \in R => <<u, w>> \in R
  BY DEF Ordering
<1>7. Mute(s2)
  BY <1>3 DEF Agreeing, Mute
<1>8. InsertsFirst(s2, r2, L, gone)
  <2> SUFFICES ASSUME NEW p \in Node, NEW q \in Node, NEW i \in DOMAIN s2[p][q],
                      s2[p][q][i].op = "INSERT", s2[p][q][i].key \in L
               PROVE  /\ r2[q][s2[p][q][i].key] = gone
                      /\ \A j \in DOMAIN s2[p][q] : s2[p][q][j].key = s2[p][q][i].key => i <= j
                      /\ \A j \in DOMAIN s2[q][p] : s2[q][p][j].key # s2[p][q][i].key
    BY DEF InsertsFirst
  <2>1. i \in DOMAIN s[p][q] /\ s2[p][q][i] = s[p][q][i]
    BY <1>3
  <2> DEFINE l == s[p][q][i].key
  <2>2. /\ r[q][l] = gone
        /\ \A j \in DOMAIN s[p][q] : s[p][q][j].key = l => i <= j
        /\ \A j \in DOMAIN s[q][p] : s[q][p][j].key # l
    BY <2>1 DEF Agreeing, InsertsFirst
  <2>3. l \in L /\ i \in Nat /\ ~(q = n /\ l = k)
    BY <1>5, <2>1, <2>2
  <2> HIDE DEF l
  <2>4. r2[q][l] = gone
    BY <1>1, <2>2, <2>3
  <2>5. \A j \in DOMAIN s2[p][q] : s2[p][q][j].key = l => i <= j
    BY <1>3, <2>1, <2>2, <2>3
  <2>6. \A j \in DOMAIN s2[q][p] : s2[q][p][j].key # l
    BY <1>3, <2>2, <2>3
  <2> QED
    BY <2>1, <2>4, <2>5, <2>6 DEF l
<1>9. Ahead(s2, r2, L, R)
  <2> SUFFICES ASSUME NEW p \in Node, NEW q \in Node, NEW i \in DOMAIN s2[p][q], s2[p][q][i].key \in L
               PROVE  <<s2[p][q][i].new, r2[p][s2[p][q][i].key]>> \in R
    BY DEF Ahead
  <2>1. CASE i \in DOMAIN s[p][q] /\ s2[p][q][i] = s[p][q][i]
    <3> DEFINE e == s[p][q][i]
    <3>1. e.key \in L /\ e.new \in V /\ <<e.new, r[p][e.key]>> \in R
      BY <1>5, <2>1 DEF Agreeing, Ahead
    <3>2. r[p][e.key] \in V /\ r2[p][e.key] \in V /\ <<r[p][e.key], r2[p][e.key]>> \in R
      BY <1>4, <3>1
    <3>3. <<e.new, r2[p][e.key]>> \in R
      BY <1>6, <3>1, <3>2
    <3> QED
      BY <2>1, <3>3
  <2>2. CASE p = n /\ s2[p][q][i] = c
    BY <1>1, <2>2 DEF Ordering
  <2> QED
    BY <1>3, <2>1, <2>2
<1>10. NoneLost(s2, r2, L, R)
  <2> SUFFICES ASSUME NEW m \in Node, NEW o \in Node, NEW l \in L, m # o
               PROVE  \/ Due(s2, o, m, l)
                      \/ Coming(s2, m, o, l, r2[m][l], R)
                      \/ ~Due(s2, m, o, l) /\ <<r2[m][l], r2[o][l]>> \in R
    BY DEF NoneLost
  <2>1. CASE m = n /\ l = k
    <3>1. PICK i \in DOMAIN s2[m][o] : s2[m][o][i] = c
      BY <2>1 DEF Added
    <3>2. <<r2[m][l], s2[m][o][i].new>> \in R /\ s2[m][o][i].key = l
      BY <1>1, <2>1, <3>1 DEF Ordering
    <3> QED
      BY <3>2 DEF Coming
  <2>2. CASE ~(m = n /\ l = k)
    <3>1. r2[m][l] = r[m][l]
      BY <1>1, <2>2
    <3>2. CASE Due(s, o, m, l)
      BY <1>2, <3>2 DEF Due
    <3>3. CASE Coming(s, m, o, l, r[m][l], R)
      BY <1>2, <3>1, <3>3 DEF Coming
    <3>4. CASE ~Due(s, m, o, l) /\ <<r[m][l], r[o][l]>> \in R
      <4>1. ~Due(s2, m, o, l)
        BY <1>3, <3>4 DEF Due
      <4>2. <<r2[m][l], r2[o][l]>> \in R
        BY <1>4, <1>6, <3>1, <3>4
      <4> QED
        BY <4>1, <4>2
    <3> QED
      BY <3>2, <3>3, <3>4 DEF Agreeing, NoneLost
  <2> QED
    BY <2>1, <2>2
<1> QED
  BY <1>7, <1>8, <1>9, <1>10 DEF Agreeing

\* A row is inserted under a key that is nowhere.
LEMMA InsertAgrees ==
    ASSUME NEW K, NEW V, NEW gone, NEW R, Ordering(V, gone, R),
           NEW s, NEW r, Contents(s, r, K, V), NEW L \in SUBSET K, Agreeing(s, r, L, gone, R),
           NEW used, Unknown(s, r, used, K, gone),
           NEW n \in Node, NEW k \in K, k \notin used, NEW x \in V, NEW c,
           c.op = "INSERT", c.key = k, c.new = x,
           NEW s2, NEW r2, Added(s, s2, n, c), Stores(r, r2, n, k, x, K)
    PROVE  Agreeing(s2, r2, L, gone, R)
<1>1. \A m \in Node, l \in K : r2[m][l] = IF m = n /\ l = k THEN x ELSE r[m][l]
  BY DEF Stores
<1>2. \A p, q \in Node : \A i \in DOMAIN s[p][q] : i \in DOMAIN s2[p][q] /\ s2[p][q][i] = s[p][q][i]
  BY DEF Added
<1>3. \A p, q \in Node : \A i \in DOMAIN s2[p][q] :
          \/ i \in DOMAIN s[p][q] /\ s2[p][q][i] = s[p][q][i]
          \/ /\ p = n /\ q # n /\ i \in Nat \ {0} /\ s2[p][q][i] = c
             /\ \A j \in DOMAIN s2[p][q] : j <= i
  BY DEF Added
<1>4. \A m \in Node : r[m][k] = gone
  BY DEF Unknown
<1>5. \A p, q \in Node : \A i \in DOMAIN s[p][q] :
          i \in Nat \ {0} /\ s[p][q][i].key \in K /\ s[p][q][i].key # k
  BY DEF Contents, Unknown
<1>6. Mute(s2)
  BY <1>3 DEF Agreeing, Mute
<1>7. InsertsFirst(s2, r2, L, gone)
  <2> SUFFICES ASSUME NEW p \in Node, NEW q \in Node, NEW i \in DOMAIN s2[p][q],
                      s2[p][q][i].op = "INSERT", s2[p][q][i].key \in L
               PROVE  /\ r2[q][s2[p][q][i].key] = gone
                      /\ \A j \in DOMAIN s2[p][q] : s2[p][q][j].key = s2[p][q][i].key => i <= j
                      /\ \A j \in DOMAIN s2[q][p] : s2[q][p][j].key # s2[p][q][i].key
    BY DEF InsertsFirst
  <2>1. CASE i \in DOMAIN s[p][q] /\ s2[p][q][i] = s[p][q][i]
    <3> DEFINE l == s[p][q][i].key
    <3>1. /\ r[q][l] = gone
          /\ \A j \in DOMAIN s[p][q] : s[p][q][j].key = l => i <= j
          /\ \A j \in DOMAIN s[q][p] : s[q][p][j].key # l
      BY <2>1 DEF Agreeing, InsertsFirst
    <3>2. l \in K /\ l # k /\ i \in Nat
      BY <1>5, <2>1
    <3> HIDE DEF l
    <3>3. r2[q][l] = gone
      BY <1>1, <3>1, <3>2
    <3>4. \A j \in DOMAIN s2[p][q] : s2[p][q][j].key = l => i <= j
      BY <1>3, <3>1, <3>2
    <3>5. \A j \in DOMAIN s2[q][p] : s2[q][p][j].key # l
      BY <1>3, <3>1, <3>2
    <3> QED
      BY <2>1, <3>3, <3>4, <3>5 DEF l
  <2>2. CASE /\ p = n /\ q # n /\ i \in Nat \ {0} /\ s2[p][q][i] = c
             /\ \A j \in DOMAIN s2[p][q] : j <= i
    <3>1. r2[q][k] = gone
      BY <1>1, <1>4, <2>2
    <3>2. \A j \in DOMAIN s2[p][q] : s2[p][q][j].key = k => i <= j
      BY <1>3, <1>5
    <3>3. \A j \in DOMAIN s2[q][p] : s2[q][p][j].key # k
      BY <1>3, <1>5, <2>2
    <3> QED
      BY <2>2, <3>1, <3>2, <3>3
  <2> QED
    BY <1>3, <2>1, <2>2
<1>8. Ahead(s2, r2, L, R)
  <2> SUFFICES ASSUME NEW p \in Node, NEW q \in Node, NEW i \in DOMAIN s2[p][q], s2[p][q][i].key \in L
               PROVE  <<s2[p][q][i].new, r2[p][s2[p][q][i].key]>> \in R
    BY DEF Ahead
  <2>1. CASE i \in DOMAIN s[p][q] /\ s2[p][q][i] = s[p][q][i]
    <3>1. <<s[p][q][i].new, r[p][s[p][q][i].key]>> \in R
      BY <2>1 DEF Agreeing, Ahead
    <3> QED
      BY <1>1, <1>5, <2>1, <3>1
  <2>2. CASE p = n /\ s2[p][q][i] = c
    BY <1>1, <2>2 DEF Ordering
  <2> QED
    BY <1>3, <2>1, <2>2
<1>9. NoneLost(s2, r2, L, R)
  <2> SUFFICES ASSUME NEW m \in Node, NEW o \in Node, NEW l \in L, m # o
               PROVE  \/ Due(s2, o, m, l)
                      \/ Coming(s2, m, o, l, r2[m][l], R)
                      \/ ~Due(s2, m, o, l) /\ <<r2[m][l], r2[o][l]>> \in R
    BY DEF NoneLost
  <2>1. CASE l = k /\ m = n
    <3>1. PICK i \in DOMAIN s2[m][o] : s2[m][o][i] = c
      BY <2>1 DEF Added
    <3>2. <<r2[m][l], s2[m][o][i].new>> \in R /\ s2[m][o][i].key = l
      BY <1>1, <2>1, <3>1 DEF Ordering
    <3> QED
      BY <3>2 DEF Coming
  <2>2. CASE l = k /\ o = n
    <3>1. PICK i \in DOMAIN s2[o][m] : s2[o][m][i] = c
      BY <2>2 DEF Added
    <3> QED
      BY <2>2, <3>1 DEF Due
  <2>3. CASE ~(l = k /\ (m = n \/ o = n))
    <3>1. r2[m][l] = r[m][l] /\ r2[o][l] = r[o][l]
      BY <1>1, <2>3
    <3>2. CASE Due(s, o, m, l)
      BY <1>2, <3>2 DEF Due
    <3>3. CASE Coming(s, m, o, l, r[m][l], R)
      BY <1>2, <3>1, <3>3 DEF Coming
    <3>4. CASE ~Due(s, m, o, l) /\ <<r[m][l], r[o][l]>> \in R
      BY <1>3, <2>3, <3>1, <3>4 DEF Due
    <3> QED
      BY <3>2, <3>3, <3>4 DEF Agreeing, NoneLost
  <2> QED
    BY <2>1, <2>2, <2>3
<1> QED
  BY <1>6, <1>7, <1>8, <1>9 DEF Agreeing

\* What applying c to old may give: an INSERT finds no row, and otherwise the row
\* becomes as far as c, being c or the row that was there.
Merges(c, old, x, gone, R) ==
    /\ <<c.new, x>> \in R
    /\ \/ c.op = "INSERT" /\ old = gone /\ x = c.new
       \/ c.op # "INSERT" /\ x \in {c.new, old} /\ <<old, x>> \in R

\* One of two nodes applies what the other has published.
LEMMA ApplyAgrees ==
    ASSUME AtMostTwo, NEW K, NEW V, NEW gone, NEW R, Ordering(V, gone, R),
           NEW s, NEW r, Contents(s, r, K, V), NEW L \in SUBSET K, Agreeing(s, r, L, gone, R),
           NEW p \in Node, NEW q \in Node, NEW c, NEW s2, Removed(s, s2, p, q, c),
           NEW x \in V, c.key \in L => Merges(c, r[q][c.key], x, gone, R),
           NEW r2, Stores(r, r2, q, c.key, x, K)
    PROVE  Agreeing(s2, r2, L, gone, R)
<1> DEFINE k == c.key
<1>1. \A m, n \in Node : ~(m = p /\ n = q) => s2[m][n] = s[m][n]
  BY DEF Removed
<1>2. /\ 1 \in DOMAIN s[p][q] /\ s[p][q][1] = c
      /\ \A i \in DOMAIN s2[p][q] :
            i \in Nat \ {0} /\ i + 1 \in DOMAIN s[p][q] /\ s2[p][q][i] = s[p][q][i + 1]
      /\ \A i \in DOMAIN s[p][q] :
            i = 1 \/ (i - 1 \in DOMAIN s2[p][q] /\ s2[p][q][i - 1] = s[p][q][i])
  BY DEF Removed
<1>3. \A m, n \in Node : \A i \in DOMAIN s[m][n] :
          i \in Nat \ {0} /\ s[m][n][i].key \in K /\ s[m][n][i].new \in V
  BY DEF Contents
<1>4. k \in K /\ c.new \in V /\ r[q][k] \in V /\ x \in V
  <2>1. k \in K /\ c.new \in V
    BY <1>2, <1>3
  <2>2. r[q][k] \in V
    BY <2>1 DEF Contents
  <2> QED
    BY <2>1, <2>2
<1>5. \A m \in Node, l \in K : r2[m][l] = IF m = q /\ l = k THEN x ELSE r[m][l]
  BY DEF Stores
<1>6. k \in L => /\ <<c.new, x>> \in R
                 /\ c.op # "INSERT" => <<r[q][k], x>> \in R
                 /\ x = c.new \/ (c.op # "INSERT" /\ x = r[q][k])
  BY DEF Merges
<1>7. \A u, v, w \in V : <<u, v>> \in R /\ <<v, w>> \in R => <<u, w>> \in R
  BY DEF Ordering
<1> HIDE DEF k
<1>8. p # q /\ \A m, n \in Node : \A i \in DOMAIN s[m][n] : (m = p /\ n = q) \/ (m = q /\ n = p)
  BY <1>2 DEF Agreeing, Mute, AtMostTwo
\* An INSERT at the head is the only change of k but for those that follow it, and
\* with another change of k at the head no INSERT of k is due.
<1>9. k \in L => /\ c.op = "INSERT" => \A j \in DOMAIN s[q][p] : s[q][p][j].key # k
                 /\ ~Due(s, q, p, k)
                 /\ c.op # "INSERT" => ~Due(s, p, q, k)
                 /\ \A i \in DOMAIN s[p][q] : s[p][q][i].op = "INSERT" /\ s[p][q][i].key = k => i = 1
  <2> HAVE k \in L
  <2>1. \A i \in DOMAIN s[p][q] : s[p][q][i].op = "INSERT" /\ s[p][q][i].key = k => i <= 1
    BY <1>2 DEF Agreeing, InsertsFirst, k
  <2>2. \A i \in DOMAIN s[p][q] : s[p][q][i].op = "INSERT" /\ s[p][q][i].key = k => i = 1
    BY <1>3, <2>1
  <2>3. \A i \in DOMAIN s[q][p] : s[q][p][i].op = "INSERT" /\ s[q][p][i].key \in L =>
            \A j \in DOMAIN s[p][q] : s[p][q][j].key # s[q][p][i].key
    BY DEF Agreeing, InsertsFirst
  <2>4. ~Due(s, q, p, k)
    BY <1>2, <2>3 DEF Due, k
  <2>5. c.op # "INSERT" => ~Due(s, p, q, k)
    BY <1>2, <2>2 DEF Due
  <2>6. c.op = "INSERT" => \A j \in DOMAIN s[q][p] : s[q][p][j].key # k
    BY <1>2 DEF Agreeing, InsertsFirst, k
  <2> QED
    BY <2>2, <2>4, <2>5, <2>6
\* Each change was there before, and no INSERT of k is left.
<1>10. ASSUME NEW m \in Node, NEW n \in Node, NEW i \in DOMAIN s2[m][n]
       PROVE  /\ IF m = p /\ n = q
                 THEN /\ i \in Nat \ {0} /\ i + 1 \in DOMAIN s[m][n]
                      /\ s2[m][n][i] = s[m][n][i + 1]
                 ELSE i \in DOMAIN s[m][n] /\ s2[m][n][i] = s[m][n][i]
              /\ k \in L => ~(s2[m][n][i].op = "INSERT" /\ s2[m][n][i].key = k)
  <2>1. CASE m = p /\ n = q
    <3>1. i \in Nat \ {0} /\ i + 1 \in DOMAIN s[p][q] /\ s2[p][q][i] = s[p][q][i + 1]
      BY <1>2, <2>1
    <3>2. i + 1 # 1
      BY <3>1
    <3> QED
      BY <1>9, <2>1, <3>1, <3>2
  <2>2. CASE ~(m = p /\ n = q)
    <3>1. i \in DOMAIN s[m][n] /\ s2[m][n][i] = s[m][n][i]
      BY <1>1, <2>2
    <3>2. m = q /\ n = p
      BY <1>8, <2>2, <3>1
    <3> QED
      BY <1>9, <2>2, <3>1, <3>2 DEF Due
  <2> QED
    BY <2>1, <2>2
<1>11. k \in L => \A m, n \in Node : ~Due(s2, m, n, k)
  BY <1>10 DEF Due
<1>12. (k \in L => <<c.new, r[p][k]>> \in R) /\ \A m \in Node, l \in K : r[m][l] \in V
  BY <1>2 DEF Agreeing, Ahead, Contents, k
<1>13. Mute(s2)
  BY <1>1, <1>8 DEF Agreeing, Mute
<1>14. InsertsFirst(s2, r2, L, gone)
  <2> SUFFICES ASSUME NEW m \in Node, NEW n \in Node, NEW i \in DOMAIN s2[m][n],
                      s2[m][n][i].op = "INSERT", s2[m][n][i].key \in L
               PROVE  /\ r2[n][s2[m][n][i].key] = gone
                      /\ \A j \in DOMAIN s2[m][n] : s2[m][n][j].key = s2[m][n][i].key => i <= j
                      /\ \A j \in DOMAIN s2[n][m] : s2[n][m][j].key # s2[m][n][i].key
    BY DEF InsertsFirst
  <2> DEFINE l == s2[m][n][i].key
             old == IF m = p /\ n = q THEN i + 1 ELSE i
  <2>1. old \in DOMAIN s[m][n] /\ s2[m][n][i] = s[m][n][old] /\ l # k
    BY <1>10
  <2>2. /\ r[n][l] = gone
        /\ \A j \in DOMAIN s[m][n] : s[m][n][j].key = l => old <= j
        /\ \A j \in DOMAIN s[n][m] : s[n][m][j].key # l
    BY <2>1 DEF Agreeing, InsertsFirst
  <2>3. r2[n][l] = gone
    BY <1>3, <1>5, <2>1, <2>2
  <2>4. \A j \in DOMAIN s2[m][n] : s2[m][n][j].key = l => i <= j
    <3>1. CASE m = p /\ n = q
      <4>1. i \in Nat /\ old = i + 1
        BY <1>10, <3>1
      <4>2. \A j \in DOMAIN s2[m][n] :
               j \in Nat /\ j + 1 \in DOMAIN s[m][n] /\ s2[m][n][j] = s[m][n][j + 1]
        BY <1>10, <3>1
      <4> HIDE DEF old, l
      <4> QED
        BY <2>2, <4>1, <4>2
    <3>2. CASE ~(m = p /\ n = q)
      <4> HIDE DEF l
      <4> QED
        BY <1>10, <2>2, <3>2
    <3> QED
      BY <3>1, <3>2
  <2>5. \A j \in DOMAIN s2[n][m] : s2[n][m][j].key # l
    <3> HIDE DEF l, old
    <3> QED
      BY <1>10, <2>2
  <2> QED
    BY <2>3, <2>4, <2>5
<1>15. Ahead(s2, r2, L, R)
  <2> SUFFICES ASSUME NEW m \in Node, NEW n \in Node, NEW i \in DOMAIN s2[m][n], s2[m][n][i].key \in L
               PROVE  <<s2[m][n][i].new, r2[m][s2[m][n][i].key]>> \in R
    BY DEF Ahead
  <2>1. PICK j \in DOMAIN s[m][n] : s2[m][n][i] = s[m][n][j]
    BY <1>10
  <2> DEFINE e == s[m][n][j]
  <2>2. e.new \in V /\ e.key \in L /\ <<e.new, r[m][e.key]>> \in R
    BY <1>3, <2>1 DEF Agreeing, Ahead
  <2>3. CASE m = q /\ e.key = k
    <3>1. n = p
      BY <1>8, <2>3
    <3>2. c.op # "INSERT"
      BY <1>9, <2>2, <2>3, <3>1
    <3>3. <<e.new, x>> \in R
      BY <1>4, <1>6, <1>7, <2>2, <2>3, <3>2
    <3> QED
      BY <1>4, <1>5, <2>1, <2>3, <3>3
  <2>4. CASE ~(m = q /\ e.key = k)
    BY <1>5, <2>1, <2>2, <2>4
  <2> QED
    BY <2>3, <2>4
<1>16. NoneLost(s2, r2, L, R)
  <2> SUFFICES ASSUME NEW m \in Node, NEW o \in Node, NEW l \in L, m # o
               PROVE  \/ Due(s2, o, m, l)
                      \/ Coming(s2, m, o, l, r2[m][l], R)
                      \/ ~Due(s2, m, o, l) /\ <<r2[m][l], r2[o][l]>> \in R
    BY DEF NoneLost
  <2>1. (m = p /\ o = q) \/ (m = q /\ o = p)
    BY <1>8 DEF AtMostTwo
  <2>2. CASE l # k
    <3>1. r2[m][l] = r[m][l] /\ r2[o][l] = r[o][l]
      BY <1>5, <2>2
    <3>2. ASSUME NEW n \in Node, NEW t \in Node, NEW i \in DOMAIN s[n][t], s[n][t][i].key = l
          PROVE  \E j \in DOMAIN s2[n][t] : s2[n][t][j] = s[n][t][i]
      BY <1>1, <1>2, <2>2, <3>2 DEF k
    <3>3. CASE Due(s, o, m, l)
      BY <3>2, <3>3 DEF Due
    <3>4. CASE Coming(s, m, o, l, r[m][l], R)
      BY <3>1, <3>2, <3>4 DEF Coming
    <3>5. CASE ~Due(s, m, o, l) /\ <<r[m][l], r[o][l]>> \in R
      <4>1. \A i \in DOMAIN s2[m][o] : \E j \in DOMAIN s[m][o] : s2[m][o][i] = s[m][o][j]
        BY <1>10
      <4> QED
        BY <3>1, <3>5, <4>1 DEF Due
    <3> QED
      BY <3>3, <3>4, <3>5 DEF Agreeing, NoneLost
  <2>3. CASE l = k /\ m = p /\ o = q
    <3>1. r2[p][k] = r[p][k] /\ r2[q][k] = x
      BY <1>4, <1>5, <1>8
    <3>2. CASE Coming(s, p, q, k, r[p][k], R)
      <4>1. PICK i \in DOMAIN s[p][q] : s[p][q][i].key = k /\ <<r[p][k], s[p][q][i].new>> \in R
        BY <3>2 DEF Coming
      <4>2. CASE i = 1
        <5>1. <<r[p][k], x>> \in R
          BY <1>2, <1>4, <1>6, <1>7, <1>12, <2>3, <4>1, <4>2
        <5> QED
          BY <1>11, <2>3, <3>1, <5>1
      <4>3. CASE i # 1
        <5>1. i - 1 \in DOMAIN s2[p][q] /\ s2[p][q][i - 1] = s[p][q][i]
          BY <1>2, <4>3
        <5> QED
          BY <2>3, <3>1, <4>1, <5>1 DEF Coming
      <4> QED
        BY <4>2, <4>3
    <3>3. CASE ~Due(s, p, q, k) /\ <<r[p][k], r[q][k]>> \in R
      <4>1. c.op # "INSERT"
        BY <1>2, <3>3 DEF Due, k
      <4>2. <<r[p][k], x>> \in R
        BY <1>4, <1>6, <1>7, <1>12, <2>3, <3>3, <4>1
      <4> QED
        BY <1>11, <2>3, <3>1, <4>2
    <3> QED
      BY <1>4, <1>8, <1>9, <2>3, <3>2, <3>3 DEF Agreeing, NoneLost
  <2>4. CASE l = k /\ m = q /\ o = p
    <3>1. r2[p][k] = r[p][k] /\ r2[q][k] = x
      BY <1>4, <1>5, <1>8
    <3>2. CASE x = c.new
      BY <1>11, <1>12, <2>4, <3>1, <3>2
    <3>3. CASE c.op # "INSERT" /\ x = r[q][k]
      <4>1. ~Due(s, p, q, k)
        BY <1>9, <2>4, <3>3
      <4>2. s2[q][p] = s[q][p]
        BY <1>1, <1>8
      <4>3. Coming(s, q, p, k, r[q][k], R) => Coming(s2, q, p, k, r2[q][k], R)
        BY <3>1, <3>3, <4>2 DEF Coming
      <4>4. Coming(s, q, p, k, r[q][k], R) \/ <<r[q][k], r[p][k]>> \in R
        BY <1>4, <1>8, <2>4, <4>1 DEF Agreeing, NoneLost
      <4> QED
        BY <1>11, <2>4, <3>1, <3>3, <4>3, <4>4
    <3> QED
      BY <1>6, <2>4, <3>2, <3>3
  <2> QED
    BY <2>1, <2>2, <2>3, <2>4
<1> QED
  BY <1>13, <1>14, <1>15, <1>16 DEF Agreeing
-----------------------------------------------------------------------------
(* Any number of nodes get the same row k, if no step takes it back. *)

Preorder(V, R) ==
    /\ \A x \in V : <<x, x>> \in R
    /\ \A x, y, z \in V : <<x, y>> \in R /\ <<y, z>> \in R => <<x, z>> \in R

\* The ops and keys of the changes under way are in D.
Sends(s, D) == \A p, q \in Node : \A i \in DOMAIN s[p][q] : <<s[p][q][i].op, s[p][q][i].key>> \in D

\* Node n has row k as far as x, or a change that takes it there is on its way.
Covered(s, r, n, k, x, R) == <<x, r[n][k]>> \in R \/ \E p \in Node : Coming(s, p, n, k, x, R)

\* Every node gets as far as what any node has and any stream carries.
AllCovered(s, r, k, R) ==
    \A n \in Node :
        /\ \A m \in Node : Covered(s, r, n, k, r[m][k], R)
        /\ \A p, q \in Node : \A i \in DOMAIN s[p][q] :
              s[p][q][i].key = k => Covered(s, r, n, k, s[p][q][i].new, R)

LEMMA AddedSends ==
    ASSUME NEW s, NEW s2, NEW n \in Node, NEW c, Added(s, s2, n, c),
           NEW D, Sends(s, D), <<c.op, c.key>> \in D
    PROVE  Sends(s2, D)
<1> SUFFICES ASSUME NEW p \in Node, NEW q \in Node, NEW i \in DOMAIN s2[p][q]
             PROVE  <<s2[p][q][i].op, s2[p][q][i].key>> \in D
  BY DEF Sends
<1>1. CASE i \in DOMAIN s[p][q] /\ s2[p][q][i] = s[p][q][i]
  <2>1. <<s[p][q][i].op, s[p][q][i].key>> \in D
    BY <1>1 DEF Sends
  <2> QED
    BY <1>1, <2>1
<1>2. CASE s2[p][q][i] = c
  BY <1>2
<1> QED
  BY <1>1, <1>2 DEF Added

LEMMA RemovedSends ==
    ASSUME NEW s, NEW s2, NEW p \in Node, NEW q \in Node, NEW c, Removed(s, s2, p, q, c),
           NEW D, Sends(s, D)
    PROVE  Sends(s2, D) /\ <<c.op, c.key>> \in D
<1>1. <<c.op, c.key>> \in D
  <2>1. 1 \in DOMAIN s[p][q] /\ s[p][q][1] = c
    BY DEF Removed
  <2>2. <<s[p][q][1].op, s[p][q][1].key>> \in D
    BY <2>1 DEF Sends
  <2> QED
    BY <2>1, <2>2
<1>2. ASSUME NEW m \in Node, NEW n \in Node, NEW i \in DOMAIN s2[m][n]
      PROVE  <<s2[m][n][i].op, s2[m][n][i].key>> \in D
  <2>1. PICK j \in DOMAIN s[m][n] : s2[m][n][i] = s[m][n][j]
    BY DEF Removed
  <2>2. <<s[m][n][j].op, s[m][n][j].key>> \in D
    BY DEF Sends
  <2> QED
    BY <2>1, <2>2
<1> QED
  BY <1>1, <1>2 DEF Sends

LEMMA CoveredIfIdle ==
    ASSUME NEW r, NEW V, NEW R, Preorder(V, R), NEW k,
           \A m, n \in Node : r[m][k] = r[n][k] /\ r[m][k] \in V
    PROVE  AllCovered(Idle, r, k, R) /\ \A D : Sends(Idle, D)
<1>1. \A p, q \in Node : DOMAIN Idle[p][q] = {}
  BY DEF Idle
<1> QED
  BY <1>1 DEF AllCovered, Covered, Preorder, Sends

LEMMA CoveredWhenIdle ==
    ASSUME NEW r, NEW R, NEW k, AllCovered(Idle, r, k, R), NEW m \in Node, NEW n \in Node
    PROVE  <<r[m][k], r[n][k]>> \in R
<1>1. \A p, q \in Node : DOMAIN Idle[p][q] = {}
  BY DEF Idle
<1> QED
  BY <1>1 DEF AllCovered, Covered, Coming

\* A node that takes its row l further, or writes another row than k, covers all.
LEMMA WriteCovers ==
    ASSUME NEW K, NEW V, NEW R, Preorder(V, R), NEW k \in K,
           NEW s, NEW r, Contents(s, r, K, V), AllCovered(s, r, k, R),
           NEW n \in Node, NEW l \in K, NEW x \in V, NEW c, c.key = l, c.new = x,
           l = k => <<r[n][k], x>> \in R,
           NEW s2, NEW r2, Added(s, s2, n, c), Stores(r, r2, n, l, x, K)
    PROVE  AllCovered(s2, r2, k, R)
<1>1. \A m \in Node : r2[m][k] = IF m = n /\ l = k THEN x ELSE r[m][k]
  BY DEF Stores
<1>2. \A m \in Node : r[m][k] \in V /\ r2[m][k] \in V /\ <<r[m][k], r2[m][k]>> \in R
  BY <1>1 DEF Contents, Preorder
<1>3. ASSUME NEW o \in Node, NEW y \in V, Covered(s, r, o, k, y, R)
      PROVE  Covered(s2, r2, o, k, y, R)
  <2>1. CASE <<y, r[o][k]>> \in R
    <3>1. <<y, r2[o][k]>> \in R
      BY <1>2, <2>1 DEF Preorder
    <3> QED
      BY <3>1 DEF Covered
  <2>2. ASSUME NEW p \in Node, Coming(s, p, o, k, y, R)
        PROVE  Coming(s2, p, o, k, y, R)
    <3>1. \A i \in DOMAIN s[p][o] : i \in DOMAIN s2[p][o] /\ s2[p][o][i] = s[p][o][i]
      BY DEF Added
    <3> QED
      BY <2>2, <3>1 DEF Coming
  <2> QED
    BY <1>3, <2>1, <2>2 DEF Covered
<1>4. ASSUME l = k, NEW o \in Node
      PROVE  Covered(s2, r2, o, k, x, R)
  <2>1. <<x, x>> \in R
    BY DEF Preorder
  <2>2. CASE o = n
    BY <1>1, <1>4, <2>1, <2>2 DEF Covered
  <2>3. CASE o # n
    <3>1. \E i \in DOMAIN s2[n][o] : s2[n][o][i] = c
      BY <2>3 DEF Added
    <3>2. Coming(s2, n, o, k, x, R)
      BY <1>4, <2>1, <3>1 DEF Coming
    <3> QED
      BY <3>2 DEF Covered
  <2> QED
    BY <2>2, <2>3
<1> SUFFICES ASSUME NEW o \in Node
             PROVE  /\ \A m \in Node : Covered(s2, r2, o, k, r2[m][k], R)
                    /\ \A p, q \in Node : \A i \in DOMAIN s2[p][q] :
                          s2[p][q][i].key = k => Covered(s2, r2, o, k, s2[p][q][i].new, R)
  BY DEF AllCovered
<1>5. ASSUME NEW m \in Node PROVE Covered(s2, r2, o, k, r2[m][k], R)
  <2>1. Covered(s2, r2, o, k, r[m][k], R)
    BY <1>2, <1>3 DEF AllCovered
  <2> QED
    BY <1>1, <1>4, <2>1
<1>6. ASSUME NEW p \in Node, NEW q \in Node, NEW i \in DOMAIN s2[p][q], s2[p][q][i].key = k
      PROVE  Covered(s2, r2, o, k, s2[p][q][i].new, R)
  <2>1. (i \in DOMAIN s[p][q] /\ s2[p][q][i] = s[p][q][i]) \/ s2[p][q][i] = c
    BY DEF Added
  <2>2. CASE i \in DOMAIN s[p][q] /\ s2[p][q][i] = s[p][q][i]
    <3>1. s[p][q][i].new \in V /\ Covered(s, r, o, k, s[p][q][i].new, R)
      BY <1>6, <2>2 DEF Contents, AllCovered
    <3> QED
      BY <1>3, <2>2, <3>1
  <2>3. CASE s2[p][q][i] = c
    BY <1>4, <1>6, <2>3
  <2> QED
    BY <2>1, <2>2, <2>3
<1> QED
  BY <1>5, <1>6

\* A node that applies a change and keeps the further of two contents covers all.
LEMMA JoinCovers ==
    ASSUME NEW K, NEW V, NEW R, Preorder(V, R), NEW k \in K,
           NEW s, NEW r, Contents(s, r, K, V), AllCovered(s, r, k, R),
           NEW p \in Node, NEW q \in Node, NEW c, NEW s2, Removed(s, s2, p, q, c), NEW x,
           c.key = k => /\ x \in {r[q][k], c.new}
                        /\ <<r[q][k], x>> \in R /\ <<c.new, x>> \in R,
           NEW r2, Stores(r, r2, q, c.key, x, K)
    PROVE  AllCovered(s2, r2, k, R)
<1>1. \A m \in Node : r2[m][k] = IF m = q /\ c.key = k THEN x ELSE r[m][k]
  BY DEF Stores
<1>2. 1 \in DOMAIN s[p][q] /\ s[p][q][1] = c
  BY DEF Removed
<1>3. c.new \in V /\ \A m \in Node : r[m][k] \in V
  BY <1>2 DEF Contents
<1>4. \A m \in Node : r2[m][k] \in V /\ <<r[m][k], r2[m][k]>> \in R
  BY <1>1, <1>3 DEF Preorder
<1>5. ASSUME NEW o \in Node, NEW y \in V, Covered(s, r, o, k, y, R)
      PROVE  Covered(s2, r2, o, k, y, R)
  <2>1. CASE <<y, r[o][k]>> \in R
    <3>1. <<y, r2[o][k]>> \in R
      BY <1>3, <1>4, <2>1 DEF Preorder
    <3> QED
      BY <3>1 DEF Covered
  <2>2. ASSUME NEW a \in Node, NEW i \in DOMAIN s[a][o],
               s[a][o][i].key = k, <<y, s[a][o][i].new>> \in R
        PROVE  Covered(s2, r2, o, k, y, R)
    <3>1. CASE a = p /\ o = q /\ i = 1
      <4>1. r2[q][k] = x /\ <<y, c.new>> \in R /\ <<c.new, x>> \in R /\ x \in V
        BY <1>1, <1>2, <1>3, <2>2, <3>1
      <4>2. <<y, r2[q][k]>> \in R
        BY <1>3, <4>1 DEF Preorder
      <4> QED
        BY <3>1, <4>2 DEF Covered
    <3>2. CASE ~(a = p /\ o = q /\ i = 1)
      <4>1. \E j \in DOMAIN s2[a][o] : s2[a][o][j] = s[a][o][i]
        BY <3>2 DEF Removed
      <4>2. Coming(s2, a, o, k, y, R)
        BY <2>2, <4>1 DEF Coming
      <4> QED
        BY <4>2 DEF Covered
    <3> QED
      BY <3>1, <3>2
  <2> QED
    BY <1>5, <2>1, <2>2 DEF Covered, Coming
<1> SUFFICES ASSUME NEW o \in Node
             PROVE  /\ \A m \in Node : Covered(s2, r2, o, k, r2[m][k], R)
                    /\ \A a, b \in Node : \A i \in DOMAIN s2[a][b] :
                          s2[a][b][i].key = k => Covered(s2, r2, o, k, s2[a][b][i].new, R)
  BY DEF AllCovered
<1>6. ASSUME NEW m \in Node PROVE Covered(s2, r2, o, k, r[m][k], R)
  BY <1>3, <1>5 DEF AllCovered
<1>7. ASSUME NEW a \in Node, NEW b \in Node, NEW i \in DOMAIN s[a][b], s[a][b][i].key = k
      PROVE  Covered(s2, r2, o, k, s[a][b][i].new, R)
  <2>1. s[a][b][i].new \in V /\ Covered(s, r, o, k, s[a][b][i].new, R)
    BY <1>7 DEF Contents, AllCovered
  <2> QED
    BY <1>5, <2>1
<1>8. c.key = k => Covered(s2, r2, o, k, x, R)
  <2>1. c.key = k => Covered(s2, r2, o, k, c.new, R) /\ Covered(s2, r2, o, k, r[q][k], R)
    BY <1>2, <1>6, <1>7
  <2> QED
    BY <2>1
<1>9. ASSUME NEW m \in Node PROVE Covered(s2, r2, o, k, r2[m][k], R)
  BY <1>1, <1>6, <1>8
<1>10. ASSUME NEW a \in Node, NEW b \in Node, NEW i \in DOMAIN s2[a][b], s2[a][b][i].key = k
       PROVE  Covered(s2, r2, o, k, s2[a][b][i].new, R)
  <2>1. \E j \in DOMAIN s[a][b] : s2[a][b][i] = s[a][b][j]
    BY DEF Removed
  <2> QED
    BY <1>7, <1>10, <2>1
<1> QED
  BY <1>9, <1>10
\* The rows L of all nodes are covered, and only changes in D are under way.
Settled(s, r, L, D, R) == Sends(s, D) /\ \A k \in L : AllCovered(s, r, k, R)

LEMMA SettledIfIdle ==
    ASSUME NEW r, NEW V, NEW R, Preorder(V, R), NEW L, NEW D,
           \A m, n \in Node, k \in L : r[m][k] = r[n][k] /\ r[m][k] \in V
    PROVE  Settled(Idle, r, L, D, R)
<1>1. Sends(Idle, D)
  BY DEF Sends, Idle
<1>2. \A k \in L : AllCovered(Idle, r, k, R)
  BY CoveredIfIdle
<1> QED
  BY <1>1, <1>2 DEF Settled

LEMMA WriteSettles ==
    ASSUME NEW K, NEW V, NEW R, Preorder(V, R), NEW L \in SUBSET K, NEW D,
           NEW s, NEW r, Contents(s, r, K, V), Settled(s, r, L, D, R),
           NEW n \in Node, NEW k \in K, NEW x \in V, NEW c, c.key = k, c.new = x,
           <<c.op, k>> \in D, k \in L => <<r[n][k], x>> \in R,
           NEW s2, NEW r2, Added(s, s2, n, c), Stores(r, r2, n, k, x, K)
    PROVE  Settled(s2, r2, L, D, R)
<1>1. Sends(s2, D)
  BY AddedSends DEF Settled
<1>2. ASSUME NEW l \in L PROVE AllCovered(s2, r2, l, R)
  <2>1. l \in K /\ AllCovered(s, r, l, R) /\ (k = l => <<r[n][l], x>> \in R)
    BY DEF Settled
  <2> QED
    BY <2>1, WriteCovers
<1> QED
  BY <1>1, <1>2 DEF Settled

LEMMA JoinSettles ==
    ASSUME NEW K, NEW V, NEW R, Preorder(V, R), NEW L \in SUBSET K, NEW D,
           NEW s, NEW r, Contents(s, r, K, V), Settled(s, r, L, D, R),
           NEW p \in Node, NEW q \in Node, NEW c, NEW s2, Removed(s, s2, p, q, c), NEW x,
           <<c.op, c.key>> \in D /\ c.key \in L =>
               x \in {r[q][c.key], c.new} /\ <<r[q][c.key], x>> \in R /\ <<c.new, x>> \in R,
           NEW r2, Stores(r, r2, q, c.key, x, K)
    PROVE  Settled(s2, r2, L, D, R)
<1>1. Sends(s2, D) /\ <<c.op, c.key>> \in D
  BY RemovedSends DEF Settled
<1>2. ASSUME NEW l \in L PROVE AllCovered(s2, r2, l, R)
  <2>1. l \in K /\ AllCovered(s, r, l, R)
    BY DEF Settled
  <2>2. c.key = l => x \in {r[q][l], c.new} /\ <<r[q][l], x>> \in R /\ <<c.new, x>> \in R
    BY <1>1
  <2> QED
    BY <2>1, <2>2, JoinCovers
<1> QED
  BY <1>1, <1>2 DEF Settled

LEMMA SettledWhenIdle ==
    ASSUME NEW r, NEW R, NEW L, NEW D, Settled(Idle, r, L, D, R),
           NEW m \in Node, NEW n \in Node, NEW k \in L
    PROVE  <<r[m][k], r[n][k]>> \in R /\ <<r[n][k], r[m][k]>> \in R
BY CoveredWhenIdle DEF Settled

\* The order of a table that only grows: a row is the same wherever it is.
Grown(V, gone) == {d \in V \X V : d[1] = gone \/ d[1] = d[2]}

LEMMA GrownOrder ==
    ASSUME NEW V, NEW gone
    PROVE  /\ Preorder(V, Grown(V, gone))
           /\ \A x, y \in V : <<x, y>> \in Grown(V, gone) <=> x = gone \/ x = y
<1>1. \A x, y \in V : <<x, y>> \in Grown(V, gone) <=> x = gone \/ x = y
  BY DEF Grown
<1>2. Preorder(V, Grown(V, gone))
  <2> SUFFICES ASSUME NEW x \in V, NEW y \in V, NEW z \in V
               PROVE  /\ <<x, x>> \in Grown(V, gone)
                      /\ <<x, y>> \in Grown(V, gone) /\ <<y, z>> \in Grown(V, gone)
                           => <<x, z>> \in Grown(V, gone)
    BY DEF Preorder
  <2> QED
    BY <1>1
<1> QED
  BY <1>1, <1>2
=============================================================================
