-------------------------------- MODULE Mesh --------------------------------
(***************************************************************************)
(* The full mesh of subscriptions that setup-replication builds, once it   *)
(* is up.  Subscription sub_<s>_from_<p> gives subscriber s the changes    *)
(* committed by publisher p, in commit order.  origin = 'none' keeps a     *)
(* publisher from sending what it has itself applied from a peer, so a     *)
(* change travels exactly one hop.                                         *)
(***************************************************************************)
EXTENDS Integers, Sequences, Functions, Nodes

VARIABLE stream   \* stream[p][s]: the changes slot sub_<s>_from_<p> still holds

Idle == [p \in Node |-> [s \in Node |-> << >>]]

Publish(n, change) ==
    stream' = [stream EXCEPT ![n] =
                 [s \in Node |-> IF s = n THEN stream[n][s]
                                 ELSE Append(stream[n][s], change)]]

\* The apply worker of s commits the change at the head of its stream from p.
Consume(p, s) == stream' = [stream EXCEPT ![p][s] = Tail(@)]

Pending(p, s, op) == stream[p][s] # << >> /\ Head(stream[p][s]).op = op

Arriving(n) == UNION {Range(stream[p][n]) : p \in Node}

Drained == stream = Idle
=============================================================================
