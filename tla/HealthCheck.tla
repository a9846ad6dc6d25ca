---------------------------- MODULE HealthCheck ----------------------------
(***************************************************************************)
(* The health check of the command status, beside runs that set the        *)
(* cluster up.  It asks one node after the other, and each node in several *)
(* queries, so it never sees the cluster at one moment.  It has two        *)
(* verdicts.  The one the command prints, "All nodes are healthy and       *)
(* properly configured.", depends only on connections and wal_level        *)
(* (Healthy); the list of issues, which it prints if that fails, also on   *)
(* publications and on the number of subscriptions (NoIssues).             *)
(***************************************************************************)
EXTENDS ReplicationSetup

CONSTANTS
    Logical,  \* the nodes with wal_level = logical
    Stray     \* Stray[n]: subscriptions on n that are not of the mesh: those a
              \* clone has copied from its donor, those of other databases

ASSUME HealthAssumption ==
    /\ Logical \subseteq Node
    /\ Stray \in [Node -> Nat]

VARIABLES
    asking,  \* the query under way: "idle" before the check, "done" after it
    seen     \* the NodeStatus of each node that has been asked, in NodeOrder

healthVars == <<named, tables, pubs, slots, subs, fed, run, faults, asking, seen>>

NodeStatus == [reachable : BOOLEAN, logical : BOOLEAN, warning : BOOLEAN,
               publication : BOOLEAN, subscriptions : Nat]

HealthTypeOK ==
    /\ TypeOK
    /\ asking \in {"idle", "ping", "publications", "subscriptions", "slots", "done"}
    /\ seen \in Seq(NodeStatus) /\ Len(seen) <= Cardinality(Node)

HealthInit ==
    /\ Init
    /\ asking = "idle"
    /\ seen = << >>

Unreachable == [reachable |-> FALSE, logical |-> FALSE, warning |-> FALSE,
                publication |-> FALSE, subscriptions |-> 0]

Reached(logical, warning) == [reachable |-> TRUE, logical |-> logical, warning |-> warning,
                              publication |-> FALSE, subscriptions |-> 0]

TheNode == NodeOrder[Len(seen)]

Query(now, next) ==
    /\ asking = now
    /\ asking' = next
    /\ UNCHANGED <<catalog, run>>

\* A query may fail; its answer is then empty and a warning is noted.
Answer(status) ==
    \/ /\ seen' = [seen EXCEPT ![Len(seen)] = status]
       /\ UNCHANGED faults
    \/ /\ faults < MaxFaults
       /\ faults' = faults + 1
       /\ seen' = [seen EXCEPT ![Len(seen)].warning = TRUE]

AfterNode == IF Len(seen) < Len(NodeOrder) THEN "ping" ELSE "done"

BeginCheck ==
    /\ Query("idle", "ping")
    /\ UNCHANGED <<seen, faults>>

\* Connect, Ping, version and wal_level; one of the latter two may fail.  A node
\* that cannot be reached is not asked any further.
AskNode ==
    LET n == NodeOrder[Len(seen) + 1]
    IN  \/ /\ Query("ping", "publications")
           /\ \/ /\ seen' = Append(seen, Reached(n \in Logical, FALSE))
                 /\ UNCHANGED faults
              \/ /\ faults < MaxFaults
                 /\ faults' = faults + 1
                 /\ \E logical \in BOOLEAN :
                      /\ logical => n \in Logical
                      /\ seen' = Append(seen, Reached(logical, TRUE))
        \/ /\ Query("ping", IF Len(seen) + 1 < Len(NodeOrder) THEN "ping" ELSE "done")
           /\ faults < MaxFaults
           /\ faults' = faults + 1
           /\ seen' = Append(seen, Unreachable)

\* A mutant of AskPublications: the answer starts a new NodeStatus.
AskPublicationsAppends ==
    /\ Query("publications", "subscriptions")
    /\ seen' = Append(seen, [Reached(FALSE, FALSE) EXCEPT !.publication = TheNode \in pubs])
    /\ UNCHANGED faults

AskPublications ==
    /\ Query("publications", "subscriptions")
    /\ Answer([seen[Len(seen)] EXCEPT !.publication = TheNode \in pubs])

\* All rows of pg_subscription are counted, whatever their names and databases.
AskSubscriptions ==
    /\ Query("subscriptions", "slots")
    /\ Answer([seen[Len(seen)] EXCEPT
                 !.subscriptions = Cardinality({q \in subs : q[1] = TheNode}) + Stray[TheNode]])

\* The verdict makes no use of the slots, only of a failure to list them.
AskSlots ==
    /\ Query("slots", AfterNode)
    /\ Answer(seen[Len(seen)])

CheckHealth == BeginCheck \/ AskNode \/ AskPublications \/ AskSubscriptions \/ AskSlots

HealthNext ==
    \/ SetupNext /\ UNCHANGED <<asking, seen>>
    \/ CheckHealth

HealthSpec == HealthInit /\ [][HealthNext]_healthVars

\* The runs of apply-schema and setup-replication go on.
HealthFairSpec ==
    HealthSpec /\ \A r \in Run : WF_healthVars(Step(r) /\ UNCHANGED <<asking, seen>>)

-----------------------------------------------------------------------------
(* The verdict, computed from what was seen. *)

Healthy == \A i \in DOMAIN seen : seen[i].reachable /\ seen[i].logical

\* Mutants of HasIssue: one subscription may be missing, or one too many is
\* expected.
HasIssueOffByOne(status) ==
    \/ ~status.reachable \/ status.warning \/ ~status.logical \/ ~status.publication
    \/ status.subscriptions < Cardinality(Node) - 2

HasIssueWithSelf(status) ==
    \/ ~status.reachable \/ status.warning \/ ~status.logical \/ ~status.publication
    \/ status.subscriptions < Cardinality(Node)

HasIssue(status) ==
    \/ ~status.reachable \/ status.warning \/ ~status.logical \/ ~status.publication
    \/ status.subscriptions < Cardinality(Node) - 1

NoIssues == \A i \in DOMAIN seen : ~HasIssue(seen[i])

-----------------------------------------------------------------------------
(* Properties. *)

\* The peers a node does not subscribe to.
Lacking(n) == {q \in Pair \ subs : q[1] = n}

\* A check that notes no issue has found all publications, and on each node a
\* subscription to every peer, but for as many as the node has subscriptions that
\* are not of the mesh: these count too.  It holds although the check sees every
\* node at another moment, since nothing is ever dropped (CheckReplicationHealth).
NoIssuesMeansMesh ==
    asking = "done" /\ NoIssues =>
        /\ Healthy /\ pubs = Node
        /\ \A n \in Node : Cardinality(Lacking(n)) <= Stray[n]

\* A check of a complete mesh raises no alarm, unless one of its own queries fails:
\* it is healthy and has no issues, whatever else the nodes subscribe to.
CompleteMeshIsHealthy ==
    [](asking = "idle" /\ pubs = Node /\ subs = Pair /\ Logical = Node /\ faults = MaxFaults
         => [](asking = "done" => Healthy /\ NoIssues))
=============================================================================
