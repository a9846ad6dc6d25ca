----------------------------- MODULE Bootstrap -----------------------------
(***************************************************************************)
(* entrypoint.sh, one process per container, beside the application and    *)
(* the apply workers.  Containers are started at any time, stop when a     *)
(* command of the script fails, and may be killed; the data directory      *)
(* survives.  Without containers setup-replication builds the cluster; the *)
(* nodes that containers join are in a mesh it has built before.  A donor  *)
(* that goes down and comes back during one clone is not noticed.          *)
(***************************************************************************)
EXTENDS InitialSync

CONSTANTS
    Deployments,   \* the clusters that are considered
    MaxErrors      \* bound on the pairs whose slot a server refuses to make

\* The nodes that have a container, the rows the application inserts, and a bound
\* on the containers that are killed.
Deployment == [containers : SUBSET Node, rows : SUBSET Row, kills : Nat]

ASSUME BootstrapAssumption == Deployments \subseteq Deployment /\ MaxErrors \in Nat

VARIABLES
    pc,      \* pc[n]: what the script of n does next
    todo,    \* todo[n]: the nodes its loop still has to visit
    volume,  \* volume[n]: the state of n's data directory
    pubs,    \* nodes n that have pub_<n>
    kills,   \* containers that may still be killed
    refused, \* pairs whose publisher has once refused to make the slot
    given    \* given[<<s, p>>]: the rows slot sub_<s>_from_<p> was ever given

data == <<rows, stream, plan, slots, sub, fresh>>
script == <<pc, todo, volume, pubs, kills, refused>>
bootVars == <<data, script, given>>

\* In these states PostgreSQL accepts connections; "peer" is a node without a
\* container.
Serving == {"peer", "publish", "wait", "slot", "subscribe", "done"}
Label == {"off", "look", "clone", "boot"} \cup Serving

BootTypeOK ==
    /\ TypeOK
    /\ pc \in [Node -> Label]
    /\ todo \in [Node -> Seq(Node)]
    /\ volume \in [Node -> {"empty", "partial", "full"}]
    /\ pubs \in SUBSET Node
    /\ kills \in Nat
    /\ refused \in SUBSET Edge
    /\ given \in [Edge -> SUBSET Row]

BootInit ==
    \E d \in Deployments :
        /\ IF d.containers = {} THEN Joining({}, Pairs, d.rows)
           ELSE Joining(Node \ d.containers, << >>, d.rows)
        /\ pc = [n \in Node |-> IF n \in d.containers THEN "off" ELSE "peer"]
        /\ todo = [n \in Node |-> << >>]
        /\ volume = [n \in Node |-> IF n \in d.containers THEN "empty" ELSE "full"]
        /\ pubs = Node \ d.containers
        /\ kills = d.kills
        /\ refused = {}
        /\ given = [q \in Edge |-> {}]

Up(n) == pc[n] \in Serving

Goto(n, from, to) ==
    /\ pc[n] = from
    /\ pc' = [pc EXCEPT ![n] = to]

Exit(n) ==
    /\ pc' = [pc EXCEPT ![n] = "off"]
    /\ todo' = [todo EXCEPT ![n] = << >>]

-----------------------------------------------------------------------------
(* The script of node n. *)

\* docker compose up, or a restart: the script begins anew.  The only node of a
\* cluster gets no further than this: grep -v finds nobody else, and set -e ends
\* the script.
StartContainer(n) ==
    /\ volume[n] = "empty" => Others(n) # << >>
    /\ Goto(n, "off", IF volume[n] = "empty" THEN "look" ELSE "boot")
    /\ todo' = [todo EXCEPT ![n] = Others(n)]
    /\ UNCHANGED <<data, volume, pubs, kills, refused, given>>

\* pg_isready decides whether the next of the other nodes is the donor.
FindDonor(n) ==
    /\ Goto(n, "look", "clone")
    /\ todo[n] # << >> /\ Up(Head(todo[n]))
    /\ volume' = [volume EXCEPT ![n] = "partial"]
    /\ UNCHANGED <<data, todo, pubs, kills, refused, given>>

SkipDonor(n) ==
    /\ Goto(n, "look", "look")
    /\ todo[n] # << >> /\ ~Up(Head(todo[n]))
    /\ todo' = [todo EXCEPT ![n] = Tail(@)]
    /\ UNCHANGED <<data, volume, pubs, kills, refused, given>>

\* pg_basebackup ends: the clone has the donor's rows and subscriptions, but no
\* slots.
Clone(n) ==
    LET donor == Head(todo[n])
    IN  /\ Goto(n, "clone", "boot")
        /\ Up(donor)
        /\ rows' = [rows EXCEPT ![n] = rows[donor]]
        /\ sub' = [sub EXCEPT ![n] = sub[donor]]
        /\ volume' = [volume EXCEPT ![n] = "full"]
        /\ UNCHANGED <<stream, plan, slots, fresh, todo, pubs, kills, refused, given>>

\* A pg_basebackup that fails clears the directory, and set -e ends the script.
CloneFails(n) ==
    /\ pc[n] = "clone" /\ ~Up(Head(todo[n]))
    /\ Exit(n)
    /\ volume' = [volume EXCEPT ![n] = "empty"]
    /\ UNCHANGED <<data, pubs, kills, refused, given>>

\* Without a donor the node is a seed, which docker-entrypoint.sh initialises.
\* PostgreSQL does not start from a part of a clone, and the script waits on.
Boot(n) ==
    /\ \/ Goto(n, "boot", "publish")
       \/ todo[n] = << >> /\ Goto(n, "look", "publish")
    /\ volume[n] # "partial"
    /\ volume' = [volume EXCEPT ![n] = "full"]
    /\ todo' = [todo EXCEPT ![n] = Others(n)]
    /\ UNCHANGED <<data, pubs, kills, refused, given>>

\* Identity, schema and publication of the node itself.
Configure(n) ==
    /\ Goto(n, "publish", IF todo[n] = << >> THEN "done" ELSE "wait")
    /\ pubs' = pubs \cup {n}
    /\ UNCHANGED <<data, todo, volume, kills, refused, given>>

\* The loop over the peers goes on with the next one.
NextPeer(n, from) ==
    /\ Goto(n, from, IF Len(todo[n]) = 1 THEN "done" ELSE "wait")
    /\ todo' = [todo EXCEPT ![n] = Tail(@)]

FindPeer(n) ==
    /\ Goto(n, "wait", "slot")
    /\ Up(Head(todo[n]))
    /\ UNCHANGED <<data, todo, volume, pubs, kills, refused, given>>

\* A mutant of SkipPeer: the script waits for ever.
SkipNoPeer(n) == FALSE /\ UNCHANGED bootVars

\* The peer was down at each of MAX_RETRIES attempts.
SkipPeer(n) ==
    /\ NextPeer(n, "wait")
    /\ ~Up(Head(todo[n]))
    /\ UNCHANGED <<data, volume, pubs, kills, refused, given>>

\* A mutant of MakeSlot: a slot that exists is taken for a finished setup.
MakeSlotOnce(n) ==
    LET q == <<n, Head(todo[n])>>
    IN  /\ pc[n] = "slot" /\ Up(q[2])
        /\ IF q \in slots THEN NextPeer(n, "slot")
           ELSE Goto(n, "slot", "subscribe") /\ UNCHANGED todo
        /\ slots' = slots \cup {q}
        /\ UNCHANGED <<rows, stream, plan, sub, fresh, volume, pubs, kills, refused, given>>

\* A mutant of MakeSlot: a slot left by an earlier run is dropped first.
MakeSlotAnew(n) ==
    /\ Goto(n, "slot", "subscribe")
    /\ Up(Head(todo[n]))
    /\ slots' = slots \cup {<<n, Head(todo[n])>>}
    /\ stream' = [stream EXCEPT ![Head(todo[n])][n] = << >>]
    /\ UNCHANGED <<rows, plan, sub, fresh, todo, volume, pubs, kills, refused, given>>

MakeSlot(n) ==
    /\ Goto(n, "slot", "subscribe")
    /\ Up(Head(todo[n]))
    /\ slots' = slots \cup {<<n, Head(todo[n])>>}
    /\ UNCHANGED <<rows, stream, plan, sub, fresh, todo, volume, pubs, kills, refused, given>>

\* A mutant of MakeSlotFails: without set -e the script goes on.
MakeSlotFailsOn(n) ==
    /\ Goto(n, "slot", "subscribe")
    /\ ~Up(Head(todo[n]))
    /\ UNCHANGED <<data, todo, volume, pubs, kills, refused, given>>

\* The peer refuses to make the slot: none is free, or its wal_level is not
\* logical.  Without ON_ERROR_STOP psql reports the SQL error and succeeds, and the
\* script goes on to subscribe.
MakeSlotErrs(n) ==
    LET q == <<n, Head(todo[n])>>
    IN  /\ Goto(n, "slot", "subscribe")
        /\ Up(q[2]) /\ q \notin slots
        /\ Cardinality(refused) < MaxErrors
        /\ refused' = refused \cup {q}
        /\ UNCHANGED <<data, todo, volume, pubs, kills, given>>

\* psql cannot connect to the peer, and set -e ends the script.
MakeSlotFails(n) ==
    /\ pc[n] = "slot" /\ ~Up(Head(todo[n]))
    /\ Exit(n)
    /\ UNCHANGED <<data, volume, pubs, kills, refused, given>>

\* copy_data = false.  The statement fails if the peer is down, which psql
\* reports without failing itself.
Subscribe(n) ==
    LET q == <<n, Head(todo[n])>>
    IN  /\ NextPeer(n, "subscribe")
        /\ sub' = IF Own(q) = "none" /\ Up(q[2])
                  THEN [sub EXCEPT ![n][q] = IF q[2] \in pubs THEN "ready" ELSE "dead"]
                  ELSE sub
        /\ UNCHANGED <<rows, stream, plan, slots, fresh, volume, pubs, kills, refused, given>>

Script(n) ==
    \/ FindDonor(n) \/ SkipDonor(n) \/ Clone(n) \/ CloneFails(n) \/ Boot(n)
    \/ Configure(n) \/ FindPeer(n) \/ SkipPeer(n) \/ MakeSlot(n) \/ MakeSlotErrs(n)
    \/ MakeSlotFails(n) \/ Subscribe(n)

Kill(n) ==
    /\ pc[n] \notin {"off", "peer"}
    /\ kills > 0
    /\ kills' = kills - 1
    /\ Exit(n)
    /\ UNCHANGED <<data, volume, pubs, refused, given>>

-----------------------------------------------------------------------------
(* The rest of the system beside the scripts. *)

Setup == CreateSubscription /\ UNCHANGED <<script, given>>

\* A worker runs where both of its nodes are up.
Work(n, q) ==
    /\ Up(n) /\ Up(q[2])
    /\ Worker(n, q)
    /\ UNCHANGED <<script, given>>

Write(n, r) ==
    /\ Up(n) /\ n \in pubs
    /\ LocalInsert(n, r)
    /\ given' = [q \in Edge |-> IF q[2] = n /\ q \in slots THEN given[q] \cup {r} ELSE given[q]]
    /\ UNCHANGED script

BootNext ==
    \/ \E n \in Node : StartContainer(n) \/ Script(n) \/ Kill(n)
    \/ Setup
    \/ \E n \in Node, q \in Edge : Work(n, q)
    \/ \E n \in Node, r \in Row : Write(n, r)

BootSpec == BootInit /\ [][BootNext]_bootVars

\* A script that has begun goes on; containers need not be started.
BootFairSpec ==
    /\ BootSpec
    /\ WF_bootVars(Setup)
    /\ \A n \in Node : WF_bootVars(Script(n))
    /\ \A n \in Node, q \in Edge : WF_bootVars(Work(n, q))

-----------------------------------------------------------------------------
(* Properties. *)

NoContainers == \A n \in Node : pc[n] = "peer"

\* Without containers: if every subscription gets in sync and has nothing left
\* to apply, all nodes have the same rows.  Nothing falls between the copy and
\* the changes that follow it, although origin = 'none' holds back what a
\* publisher was sent (copy_data = true).
InSyncMeansSame == NoContainers /\ InSync => Same

\* A setup of empty tables gets in sync if the application writes only when all
\* have been copied, whatever the order of the copies.
QuietSetupSyncs == NoContainers /\ [](fresh # Row => Copied) => EventuallyInSync

\* In such a setup no worker ever fails: each row reaches a node once, by the
\* stream of the node it was inserted on (origin = 'none') and not by a copy too.
QuietSetupHasNoConflict ==
    /\ \A n \in Node : Start[n] = {}
    /\ NoContainers /\ [](fresh # Row => Copied)
    => [](\A n \in Node, q \in Edge : ~Conflict(n, q))

\* The clones that have brought a copy of the subscription of q with them, and
\* take changes from its slot.
Rivals(q) == {n \in Node \ {q[1]} : sub[n][q] # "none"}

\* What a slot was given is still in it or has reached its subscriber, through kills
\* and restarts: a script that runs again leaves slots alone.  The exception is a
\* row that a rival has taken, which the subscriber may never get.
SlotsLoseNothing ==
    \A q \in Edge : \A r \in given[q] :
        \/ r \in Range(stream[q[2]][q[1]])
        \/ r \in rows[q[1]]
        \/ \E n \in Rivals(q) : r \in rows[n]

\* A node, a clone included, has a subscription whose slot does not exist only if the
\* publisher has refused to make it; with create_slot = false the worker then fails
\* until a script that is started again gets the slot.  set -e keeps a script that
\* could not reach the peer from subscribing to it.
SubscriptionsFindSlots ==
    \A n \in Node, q \in Edge : sub[n][q] # "none" => q \in slots \cup refused

AllUp == \A n \in Node : Up(n)
Subscribed(n) == \A q \in Edge : q[1] = n => Own(q) # "none"

\* A script that enters its loop over the peers while all nodes are up leaves its
\* node subscribed to all of them, whatever an earlier run has skipped or left
\* half done, unless some node stops.
RestartSubscribes ==
    \A n \in Node :
        pc[n] = "wait" /\ todo[n] = Others(n) /\ AllUp ~> Subscribed(n) \/ ~AllUp

\* A script neither waits for ever for a donor or a peer, nor for its own server
\* unless a clone was interrupted.
ScriptsEnd ==
    \A n \in Node : pc[n] \notin {"off", "done"} ~> pc[n] \in {"off", "done", "peer"} \/ volume[n] = "partial"

\* A node whose script is done, whose subscriptions all follow their publishers
\* and have nothing left to apply has the rows of its peers: "Subscriptions are
\* created with copy_data = false since the clone already has all data".
CloneHasAllData ==
    \A n \in Node :
        pc[n] = "done" /\ (\A q \in Edge : q[1] = n => Own(q) = "ready" /\ stream[q[2]][n] = << >>)
        => \A p \in Node : rows[p] \subseteq rows[n]
=============================================================================
