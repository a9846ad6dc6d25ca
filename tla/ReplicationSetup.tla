-------------------------- MODULE ReplicationSetup --------------------------
(***************************************************************************)
(* Runs of the commands apply-schema and setup-replication, one after the  *)
(* other or beside each other.  A run is a list of tasks, a task a list of *)
(* calls; a call that fails ends its task, is remembered, and the run goes *)
(* on with its next task.                                                  *)
(***************************************************************************)
EXTENDS Catalog, NodeList, SchemaFile

CONSTANTS
    All,         \* the --node flag is absent
    Run,         \* runs of the CLI
    Commands,    \* the commands these runs may be given
    Ready,       \* the nodes to which the schema has been applied before
    Concurrent,  \* TRUE: runs may overlap
    MaxFaults    \* bound on failed calls and stopped runs

Verb == {"apply-schema", "setup-replication"}
Command == [verb : Verb, node : Node \cup {All}]

ASSUME SetupAssumption ==
    /\ All \notin Node
    /\ Commands \subseteq Command
    /\ Ready \subseteq Node
    /\ Concurrent \in BOOLEAN
    /\ MaxFaults \in Nat

-----------------------------------------------------------------------------
(* The tasks of a command. *)

At(what, s, p) == [what |-> what, sub |-> s, pub |-> p]

\* A mutant of SchemaTask: the name is set after the tables are there.
SchemaTaskUnnamed(n) == <<At("schema", n, n), At("name", n, n)>>

SchemaTask(n) == <<At("name", n, n), At("schema", n, n)>>

PublicationTask(n) == <<At("publication", n, n)>>

\* A mutant of SubscriptionTask: the slot comes second.
SubscriptionTaskFirst(s, p) == <<At("subscription", s, p), At("slot", s, p)>>

SubscriptionTask(s, p) == <<At("slot", s, p), At("subscription", s, p)>>

Each(Task(_), ns) == [i \in DOMAIN ns |-> Task(ns[i])]

AllSubscriptions == [i \in DOMAIN Pairs |-> SubscriptionTask(Pairs[i][1], Pairs[i][2])]

SetupBidirectionalReplication == Each(PublicationTask, NodeOrder) \o AllSubscriptions

SetupReplicationForNode(n) ==
    <<PublicationTask(n)>>
      \o Each(LAMBDA p : SubscriptionTask(n, p), Others(n))
      \o Each(LAMBDA s : SubscriptionTask(s, n), Others(n))

Tasks(cmd) ==
    CASE cmd.verb = "apply-schema" ->
             Each(SchemaTask, IF cmd.node = All THEN NodeOrder ELSE <<cmd.node>>)
      [] cmd.verb = "setup-replication" /\ cmd.node = All -> SetupBidirectionalReplication
      [] cmd.verb = "setup-replication" /\ cmd.node # All -> SetupReplicationForNode(cmd.node)

-----------------------------------------------------------------------------
VARIABLES
    run,    \* run[r]: the state of run r
    faults  \* failed calls and stopped runs so far

vars == <<named, tables, pubs, slots, subs, fed, run, faults>>

NoCommand == [verb |-> "none", node |-> All]
NoFile == CHOOSE f \in File : TRUE

TypeOK ==
    /\ CatalogOK
    /\ run \in [Run -> [cmd : Commands \cup {NoCommand}, file : File,
                        tasks : Seq(Seq(Call)), checked : BOOLEAN, failed : BOOLEAN,
                        status : {"new", "running", "ok", "failed"}]]
    /\ faults \in 0..MaxFaults

Init ==
    /\ named = Ready
    /\ tables = Ready
    /\ pubs = {} /\ slots = {} /\ subs = {} /\ fed = {}
    /\ run = [r \in Run |-> [cmd |-> NoCommand, file |-> NoFile, tasks |-> << >>,
                             checked |-> FALSE, failed |-> FALSE, status |-> "new"]]
    /\ faults = 0

Running(r) == run[r].status = "running"
TheCall(r) == Head(Head(run[r].tasks))

\* Run r goes on with the given tasks, or ends if there are none.
GoOn(r, tasks, failed) ==
    run' = [run EXCEPT ![r] = [@ EXCEPT
              !.tasks = tasks, !.checked = FALSE, !.failed = failed,
              !.status = IF tasks # << >> THEN "running"
                         ELSE IF failed THEN "failed" ELSE "ok"]]

Succeed(r) ==
    LET task == Tail(Head(run[r].tasks))
        rest == Tail(run[r].tasks)
    IN  GoOn(r, IF task = << >> THEN rest ELSE <<task>> \o rest, run[r].failed)

\* A mutant of GiveUp: the error is dropped.
GiveUpSilently(r) == GoOn(r, Tail(run[r].tasks), run[r].failed)

GiveUp(r) == GoOn(r, Tail(run[r].tasks), TRUE)

\* A run of apply-schema reads the file that some run of generate has left.
Start(r) ==
    /\ run[r].status = "new"
    /\ Concurrent \/ \A q \in Run : ~Running(q)
    /\ \E cmd \in Commands :
       \E file \in IF cmd.verb = "apply-schema" THEN File ELSE {NoFile} :
         run' = [run EXCEPT ![r] = [@ EXCEPT !.cmd = cmd, !.file = file, !.tasks = Tasks(cmd),
                                             !.status = "running"]]
    /\ UNCHANGED <<catalog, faults>>

\* A mutant of Check: the call creates the object without looking.
CheckNothing(r) ==
    /\ Running(r)
    /\ ~run[r].checked
    /\ run' = [run EXCEPT ![r].checked = TRUE]
    /\ UNCHANGED <<catalog, faults>>

\* IF NOT EXISTS (SELECT ...), in the calls that have it.
Check(r) ==
    /\ Running(r)
    /\ ~run[r].checked
    /\ \/ Exists(TheCall(r)) /\ Succeed(r)
       \/ ~Exists(TheCall(r)) /\ run' = [run EXCEPT ![r].checked = TRUE]
    /\ UNCHANGED <<catalog, faults>>

\* CREATE TABLE IF NOT EXISTS passes over a table that is there.
Unloadable(r) ==
    TheCall(r).what = "schema" /\ TheCall(r).pub \notin tables /\ ~Loads(run[r].file)

Possible(r) == ~Exists(TheCall(r)) /\ ~Refused(TheCall(r)) /\ ~Unloadable(r)

Create(r) ==
    /\ Running(r)
    /\ run[r].checked
    /\ Possible(r)
    /\ Effect(TheCall(r))
    /\ Succeed(r)
    /\ UNCHANGED faults

\* Another run has created the object since, or PostgreSQL refuses.
Reject(r) ==
    /\ Running(r)
    /\ run[r].checked
    /\ ~Possible(r)
    /\ GiveUp(r)
    /\ UNCHANGED <<catalog, faults>>

\* The call under way may have taken effect although it reports an error.
InDoubt(r) ==
    \/ UNCHANGED catalog
    \/ run[r].checked /\ Possible(r) /\ Effect(TheCall(r))

\* The node cannot be reached, or the connection breaks.
Fail(r) ==
    /\ Running(r)
    /\ faults < MaxFaults
    /\ faults' = faults + 1
    /\ InDoubt(r)
    /\ GiveUp(r)

\* The deadline of the context passes, so that every later call fails too, or
\* the process is killed.
Stop(r) ==
    /\ Running(r)
    /\ faults < MaxFaults
    /\ faults' = faults + 1
    /\ InDoubt(r)
    /\ GoOn(r, << >>, TRUE)

Step(r) == Check(r) \/ Create(r) \/ Reject(r)

SetupNext == \E r \in Run : Start(r) \/ Step(r) \/ Fail(r) \/ Stop(r)

Spec == Init /\ [][SetupNext]_vars

\* A run goes on.
FairSpec == Spec /\ \A r \in Run : WF_vars(Step(r))

-----------------------------------------------------------------------------
(* Properties. *)

\* A subscription never exists without the slot it reads from, at whatever call
\* a run fails or stops and whatever runs beside it: CREATE SUBSCRIPTION has
\* create_slot = false and would retry for ever (CreateSubscription).
SubscriptionsHaveSlots == subs \subseteq slots

\* A node with the tables knows its name, so its triggers stamp no row with
\* 'unknown' (ApplySchema).
TablesHaveIdentity == tables \subseteq named

\* The pairs a run of setup-replication is about.
Edges(cmd) == {q \in Pair : cmd.node \in {All, q[1], q[2]}}

\* What the command is to bring about is there.
Done(cmd) ==
    LET ns == IF cmd.node = All THEN Node ELSE {cmd.node}
    IN  IF cmd.verb = "apply-schema" THEN ns \subseteq tables \cap named
        ELSE ns \subseteq pubs /\ Edges(cmd) \subseteq subs \cap slots

\* What a successful run reports is there: the tables of apply-schema, the
\* publications, slots and subscriptions of setup-replication, whatever it ran
\* beside and whatever failed runs came before (hasErrors in cli).
SuccessMeansDone == \A r \in Run : run[r].status = "ok" => Done(run[r].cmd)

\* After a successful run of setup-replication every subscription it is about
\* carries the changes of its publisher.
SuccessMeansReplicating ==
    \A r \in Run : run[r].status = "ok" /\ run[r].cmd.verb = "setup-replication" =>
        Edges(run[r].cmd) \subseteq fed

\* No subscription r creates is refused: all nodes have the tables, or none has
\* them and no run of apply-schema can come between.
Settled(r) ==
    \/ tables = Node
    \/ tables = {} /\ \A q \in Run \ {r} : run[q].cmd.verb = "setup-replication"

\* A run that starts when nothing fails any more completes whatever the failed
\* runs before it have left, even if it loses races against other runs, provided
\* that the tables are in a good order.
LaterRunCompletes ==
    \A r \in Run :
        /\ Running(r) /\ run[r].tasks = Tasks(run[r].cmd) /\ ~run[r].failed
        /\ faults = MaxFaults
        /\ IF run[r].cmd.verb = "setup-replication" THEN Settled(r) ELSE Loads(run[r].file)
        ~> Done(run[r].cmd)
=============================================================================
