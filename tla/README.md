# A verification development for pgconverge

pgconverge turns a `schema.json` and a `nodes.json` into a multi-master
PostgreSQL cluster: SQL with conflict-resolution triggers (`sqlgen`), a full
mesh of publications, slots and subscriptions (`db`, or `entrypoint.sh` in
Docker), and a status command (`db/status.go`). It keeps no daemon of its own:
what runs afterwards is PostgreSQL, firing the triggers pgconverge wrote. The
modules here model those triggers inside the mesh, and the commands that build
and inspect the mesh.

## 1. Inventory

| Component | Source | State | Operations | Hard part |
|---|---|---|---|---|
| Hybrid logical clock | `sqlgen/generator.go:49-110` | one row of `_pgconverge.hlc_state` per node, row lock | `advance_hlc(remote_ts, remote_counter)` | skewed and jumping clocks, concurrent callers, first use, rollback, `INTEGER` counter |
| CRDT triggers | `sqlgen/generator.go:233-287` | `_hlc_ts`, `_hlc_counter`, `_hlc_node` of each row | `a_stamp_hlc` (local), `z_resolve_conflict` (always) | concurrent writes on several nodes, streams in any relative order, inserts and deletes |
| LWW triggers | `sqlgen/generator.go:191-231` | `updated_at` of each row | `conflict_resolution`, `set_updated_at` | trigger order, ties, `NOW()` is the start of the transaction, statements that assign `updated_at` themselves |
| Mesh | PostgreSQL, as configured at `db/replication.go:78-123` | slots and their contents, subscriptions | publish, apply, retry | one hop (`origin = 'none'`), no order between publishers |
| Schema file | `sqlgen/generator.go:21-46,127-186` | `generated.sql` | one `CREATE TABLE` after the other | the order of a Go map, foreign keys, `serial` keys that become `uuid` |
| Schema and replication setup | `db/replication.go`, `db/schema.go`, `cli/apply_schema.go`, `cli/setup_replication.go` | system catalogs of every node | `apply-schema`, `setup-replication`, each for one node or all | partial failure, lost answers, deadlines, reruns, overlapping runs |
| Health check | `db/status.go`, `cli/status.go` | `NodeStatus` of each node | `GetNodeStatus`, `CheckReplicationHealth` | not a snapshot; two verdicts; counts subscriptions of any name |
| Initial copy | `db/replication.go:111` | per-subscription table state | `copy_data = true` | several publishers with the same rows, writes during the copy |
| Docker bootstrap | `entrypoint.sh` | data directory, catalogs, publication of each node | donor search, clone, start, identity, publication, slots, subscriptions | gap between clone and slots, the donor's catalogs in the clone, restarts after an interrupted clone, peers that are not ready, `set -e` without `ON_ERROR_STOP` |
| Connection pools | `db/connection.go` | map of pools, RW lock | `GetPool`, `Connect`, `Close` | none in this program, which uses a manager from one goroutine |
| Generators, CLI, helpers | `compose`, `cli`, `util`, `schema`, `db/sanitize.go` | none | rendering, parsing | map order of tables, ports |

The commands act on the nodes by SQL; nodes act on each other only through the
streams of the mesh; local sessions and apply workers of one node meet in the
row of `hlc_state` and in the rows of the tables.

What makes each of them correct: stamps are unique and ascend on a node; rows
never go back; all nodes agree once the streams are drained, and the streams do
drain; a local write the application sees succeed is not lost; a subscription
never exists without its slot; a run that reports success has brought about what
it reports, and a run can be repeated until it does; the health check tells a
full mesh from another one; the initial copy neither loses nor repeats a row; a
container that is restarted leaves what its slots hold alone and completes what
the run before has left.

## 2. Modules

```
Nodes ─ HLC ─┬─ MaxRegister ◄─ INSTANCE ─┐
             ├─ CrdtTable ───────────────┴─ CrdtTableProofs ─ CrdtRefinementProofs
             │                                       (CrdtTableProofs uses MeshProofs)
             ├─ AtomicClock ◄─ INSTANCE ─┐
             └─ HlcSessions ─────────────┴─ HlcSessionsProofs
Nodes ─ Mesh ─┬─ CrdtTable, LwwTable ─ LwwTableProofs (uses MeshProofs)
              ├─ MeshProofs
              └─ InitialSync ─ Bootstrap ─ BootstrapProofs (uses MeshProofs)
Nodes ─ NodeList ─ InitialSync, ReplicationSetup
Catalog, NodeList, SchemaFile ─ ReplicationSetup ─ HealthCheck ─ SetupProofs
```

* **Nodes** declares `Node`, the names of `nodes.json`; **NodeList** their order,
  and the loops over them: `Others(n)`, and `Pairs`, the subscribers and publishers
  as the nested loops of the setup visit them.
* **HLC** is the arithmetic: `Advance(local, remote, wall)` is the `IF` of
  `advance_hlc`, `Precedes` the row comparison of `z_resolve_conflict`. `Rank`
  stands for the order of node names as text.
* **Mesh** is the part of logical replication the triggers rely on:
  `stream[p][s]` is what slot `sub_<s>_from_<p>` still holds. A change goes from
  its publisher to every peer, in commit order per publisher, once. A change that
  fails to apply stays at the head of its stream.
* **CrdtTable** is a table in CRDT mode on all nodes. A local statement fires
  both triggers (`LocalUpdate` moves the clock twice, and keeps it moved if the
  second trigger drops the row), an applied `UPDATE` only `z_resolve_conflict`
  (`ENABLE ALWAYS`), an applied `INSERT` neither (the trigger is `BEFORE
  UPDATE`), a `DELETE` none. Each call of `clock_timestamp()` returns any reading
  in `Wall`: clocks differ, drift and jump back.
* **MaxRegister** is the abstract specification of a replicated row: a register
  per node that moves up a total order, deletion on top, with messages that may be
  reordered and repeated. `CrdtTable!RefinesRegister` states that the table
  implements it: `reg` is `row`, and `sent` the set of changes in the streams.
* **LwwTable** is a table without CRDT mode. Clocks agree, as `README.md:446` of
  the repository asks, but a transaction may be older than its write. A local
  `UPDATE` is judged by the time `x` it assigns to `updated_at` (`LocalTouch`: any
  time, also one of the client that is ahead of the clock) or leaves there
  (`LocalUpdate`); what is stored is the start `t` of its transaction. If `x` is
  later than the row and `t` is earlier, the row goes back in time, the other nodes
  refuse its version, and they keep different rows. `backdated` notes the keys this
  has happened to.
* **HlcSessions** opens up the statements that `CrdtTable` takes as atomic: one
  action for each point at which `advance_hlc` can meet another session (row lock
  of the table, wall clock, `SELECT ... FOR UPDATE`, `INSERT ... ON CONFLICT`,
  commit, rollback, deadlock victim). The triggers fire `FOR EACH ROW`, so `Begin`
  is the next row a transaction writes, of the same statement or of another: no lock
  goes before the end of the transaction, and nothing tells the two apart. An `INSERT`
  may find its key and become an `UPSERT` (`ON CONFLICT DO UPDATE`), which locks the
  row after `a_stamp_hlc` has taken the clock. It starts before the row of `hlc_state`
  exists. A transaction that found no row (`blind`) starts the clock from zero, and
  overwrites what another has committed meanwhile; `epoch` counts such commits.
* **AtomicClock** is the abstract specification of `advance_hlc`: a call reads the
  clock and moves it in one step. `CrdtTable` takes the calls to be such steps, and
  `HlcSessions!RefinesAtomicClock` states that the separate `SELECT` and `INSERT` of
  the function, with row locks, rollbacks and deadlock victims, come to that.
* **Catalog** is what the servers remember of the topology and the effect of
  each SQL call; **ReplicationSetup** runs lists of such calls as the two commands
  make them. A call is two steps, the `IF NOT EXISTS` and the creation, so that
  runs can race; a failed call may have taken effect or not (`InDoubt`). A run of
  `apply-schema` reads a file with the tables in any order (**SchemaFile**), which
  loads or does not.
* **HealthCheck** adds the queries of `GetNodeStatus`, one step each, and the
  verdicts of `CheckReplicationHealth`: `Healthy`, which decides what the command
  prints, and `NoIssues`, the list it prints only where `Healthy` fails. `Stray[n]` is
  the number of rows of `pg_subscription` on `n` that are not of the mesh (copies a
  clone has of its donor's, other databases of the server); they count like the rest.
* **InitialSync** follows rows through the initial copy: the snapshot taken by
  `copy_data`, the changes the slot keeps meanwhile, then the stream. A node may
  hold a copy of another node's subscription (`sub[n][q]`), which shares its slot.
* **Bootstrap** adds the containers. `pc[n]` is where the script of node `n` is:
  `off`, `look` for a donor, `clone`, `boot`, `publish` (identity, schema and own
  publication), then for each peer `wait`, `slot`, `subscribe`, and `done`;
  `volume[n]` is its data directory, which survives a `Kill` and may hold a part of
  a clone. A command that fails ends the script where `set -e` does so, and only
  there: a peer that cannot be reached ends it (`MakeSlotFails`), an SQL error of a
  peer that refuses to make the slot does not (`MakeSlotErrs`), as `psql` reports it
  and succeeds. Application and apply workers run beside the scripts. `Deployments`
  says which nodes are containers; `setup-replication` runs beside the application in
  a cluster without any, and never beside scripts: the nodes that containers join are
  in a mesh it has built before.
* **MC...** modules give constants their values. An operator whose comment calls
  it a mutant is a bug planted on purpose: no specification uses it, and putting
  it in the place of the definition that follows it makes a property fail.

`PROJECT.json` maps each definition to the lines it stands for. Definitions
marked external describe PostgreSQL 16 as the options in the source configure it.

## 3. Runs

| Run | Instance | What it shows |
|---|---|---|
| `CrdtUpdates` | 3 nodes, 1 row known to all, 2 statements (update, delete), clocks in {1, 2} | stamps identify writes, rows ascend, no local update is dropped, nodes converge (safety and liveness), the table refines `MaxRegister` |
| `CrdtInserts` | 2 nodes, 2 uuid keys, 4 statements of all kinds, counter limited to 4 | stamps also cover writes, and the same (safety) with inserts between two nodes and with the counter at its limit; no apply worker meets a key that is there |
| `LwwTable` | 2 nodes, 2 keys, 4 statements, times 0..2 | nodes disagree only about writes with equal `updated_at` and rows a statement has set back; stored times ascend but for those; no apply worker meets a key that is there; streams drain |
| `Sessions` | 2 sessions, 4 rows written in transactions of any length, 1 table row, 2 incoming stamps | stamps ascend in commit order but after a first-use race; every deadlock has a transaction that has the clock before the row it asks for; calls of `advance_hlc` are atomic (`AtomicClock`); every transaction ends |
| `Setup` | 2 nodes, 2 tables with a foreign key, 2 overlapping runs of any command with any file, 1 failure, 1 health check, 1 subscription on node 1 that is not of the mesh | slots before subscriptions, success means done, reruns complete, "no issues" means mesh but for what other subscriptions make up for, and a complete mesh raises no alarm |
| `Bootstrap` | 3 nodes: no containers and 2 rows; or 2 containers that join one node, 1 row, 1 kill; or 3 containers at once; in each 1 slot may be refused | slots lose nothing through kills and restarts but what a clone takes; no subscription, copied by a clone or not, is without its slot unless that was refused; a script that finds all nodes up leaves its node subscribed to all; scripts end unless a clone was interrupted; in sync means same rows; without writes during the copy the setup gets in sync |
| `CrdtDroppedUpdate` | 2 nodes, 1 insert and 1 update | *violated*: an update of a row from a node with a faster clock is dropped |
| `CrdtLateInsert` | 3 nodes, 1 insert and 1 update | *violated*: an update that overtakes its insert is lost on the third node |
| `LwwUpdate` | 1 update | *violated*: `UPDATE` without `updated_at` changes nothing |
| `SetupDeadSubscription` | 2 nodes, 2 consecutive runs, 1 failure | *violated*: the second run reports success over a subscription without tables |
| `BootstrapGap` | 2 nodes, one a container | *violated*: a row committed between the clone and the slot never reaches the clone |
| `SyncJoin` | third node joins two that share a row | *violated*: the copy from the second peer fails for ever |

The last six each have a finding in `PROJECT.json` that quotes what the
repository says.

**Bounds.** `MaxWrites`, `MaxTime`, `MaxRows`, `MaxFaults` and `MaxErrors` bound
the number of statements, ticks, rows that transactions write, faults and refused
slots; they stand in guards, and liveness says what happens after the last of them. Two
concurrent writes are what a conflict takes and the third node is what reordering
takes; two clock readings are enough for skew and for a clock that jumps back,
since only comparisons matter; four statements on two nodes include insert,
update, delete and an update that meets the deletion. `MaxInt4` stands for
2147483647: 4 in `CrdtInserts`, so that statements and apply workers do run into
it (an apply worker that does is stuck, so that run claims no liveness), and out
of reach elsewhere. Two sessions are what a race and a deadlock take; four rows
give each of them a transaction of two, or leave one row after a race of two for a
transaction that meets what the race has left. In `Setup` two runs cover
rerun and race; `Ready = {}` makes `setup-replication` meet nodes without tables;
one foreign key is what makes one order of two tables good and the other bad; one
`Stray` subscription hides a missing one, and only on its own node. In
`Bootstrap` the deployments are one for each way to build a cluster: by the
commands, by joining, by starting everything at once; two containers that join are
what makes a clone copy the subscriptions of a node that was itself a container,
and one kill is enough to interrupt a clone or a setup and to restart it. The
largest state spaces are those of `Sessions` (about 790 000 states), `Setup` (about
750 000) and `LwwTable` (about 510 000).

`CHECK_DEADLOCK FALSE` is in every configuration because the systems stop when
their bounds are used up.

**Fairness.** Apply and tablesync workers (`WF` on `Apply`, `Worker`): the logical
replication launcher restarts a worker that failed, so that a change which can be
applied is applied. Runs (`WF` on `Step`): the commands are loops without waits;
starting a command, failures and deadlines are not fair. Scripts (`WF` on
`Script`): each wait has a bound or ends with the server's start; nobody has to
start a container, and kills are bounded, not fair. Sessions (`WF` on `Step`
and `Commit`): a backend that is not waiting executes, the deadlock detector
picks a victim, and the client of an open transaction ends it. Statements of the
application are never fair.

**Restrictions the passing runs depend on.** Convergence in `CrdtUpdates` is for
rows every node has; with inserts it is checked, and proved, for two nodes, since
for three it fails (`CrdtLateInsert`). Section 4 has what remains true of any number. `LocalUpdateTakesEffect` likewise fails once rows are
inserted (`CrdtDroppedUpdate`). `OnlyTiesDiverge` and `TimesAscend` leave out the rows a
statement has set back. `SlotsLoseNothing` leaves out the rows a clone has taken from
the slot of its donor: the donor then goes without them, against what `README.md:14`
of the repository says. `SubscriptionsFindSlots` leaves out slots that were refused.
`QuietSetupSyncs` asks for a cluster without writes during the copy, `InSyncMeansSame` for one without containers (for clones it
fails, `BootstrapGap`), and `RestartSubscribes` for nodes that stay up.
`LaterRunCompletes` asks for tables in a good order.

## 4. Proofs

All theorems hold for every value of the constants (nodes, keys, rows, clock
readings, runs, sessions, every bound) under the named assumptions of the modules:
`RankAssumption` (node names are distinct), `OrderAssumption` (`NodeOrder` lists
each node once), `CrdtAssumption`, `SyncAssumption` and the like (types, and a
seed row with a stamp inside the range).

**CRDT table.**

* `CrdtTableProofs!Typing`: `TypeOK` is inductive by itself. The work is in
  `AdvanceStamp` (what `Advance` returns is a stamp after both arguments, if it
  fits its column) and in the lemmas of `MeshProofs` on what publishing and
  consuming do to the contents of the streams.
* `ClocksCoverStamps`, `StampsAreUnique`: neither is inductive alone. Uniqueness
  needs that a new stamp differs from every one in the system, which is that the
  node's clock covers all stamps the node has handed out; and for that to be kept,
  clocks must ascend in every step (`NextClocksAscend`). The conjunction `Stamps` is
  inductive: a step moves clocks forward and brings at most one version into the
  system, whose stamp its node's old clock does not reach (`StampStep`).
* `InsertsAreNew`: with generated keys no `INSERT` meets its key. `InsertsOnce` of
  `MeshProofs` says that no key in the system is still to be generated, and that at
  most one `INSERT` of a key is under way to a node, none if the node has the row.
  `LwwTableProofs!InsertsAreNew` is the same for the other kind of table: the part
  of `EventuallyDrained` that is not about fairness.
* `MaxRegister!NeverLost`, `Convergence`: agreement of the nodes is not inductive,
  as it says nothing while messages are under way. `NothingLost` is, together with
  `Comparable`: whatever value is present anywhere has reached each node, is under
  way to it, or is exceeded there. With nothing under way each node holds a value
  at least as great as every other, so all are equal.
* `CrdtRefinementProofs!Refinement`, `Converges`: if the application runs no
  `INSERT`, every step of `CrdtTable` is a `Write` or a `Receive` of `MaxRegister`
  or changes nothing there. That a local update is a `Write` needs the uniqueness
  of stamps; that an update is never applied over a deletion is the order that puts
  deletion on top. Convergence follows from the register's. The hypothesis is
  necessary: with `INSERT` the run `CrdtLateInsert` is a counterexample.
* `RowsOnlyAscend` needs no such hypothesis; `ClocksCoverRows` and
  `UpdatesTakeEffect` do (`CrdtDroppedUpdate`): every row of a node was stamped by
  it or has passed its `z_resolve_conflict`, so the next stamp is greater.

**Two nodes.** With inserts a table is no `MaxRegister`: an `INSERT` compares
nothing and an `UPDATE` that finds no row is skipped. `LwwTableProofs!TwoNodesAgree`
and `CrdtRefinementProofs!TwoNodesConverge` show that between two nodes
(`AtMostTwo`) this loses nothing, for any number of keys and statements. Both are
the same argument about streams and an order of contents with deletion on top,
made once in `MeshProofs`; its invariant `Agreeing` has three parts. An `INSERT`
that is under way comes before every other change of its row in its stream, its
subscriber has no such row and sends none (`InsertsFirst`: with a third node it
does not hold, as a stream from there may be faster). A publisher is as far as what
it has published (`Ahead`). What one node has, the other has reached, or a change
that takes it as far is under way, or the node has not seen the `INSERT` of the row
yet (`NoneLost`). With nothing under way each of the two is as far as the other.
For the CRDT table that makes them equal, by the uniqueness of stamps; for the
other it leaves the ties. New keys being nowhere (`Unknown`) is the second part of
the invariant.

**Any number of nodes.** What breaks with a third node is one thing: a change that
overtakes the `INSERT` of its row. Where that cannot happen tables of both kinds
converge, for any number of nodes, keys and statements. For the rows every node
starts with: `CrdtRefinementProofs!SeededRowsConverge` and
`LwwTableProofs!SeededRowsAgree` (but for ties), whatever is inserted beside them
and wherever those rows are updated and deleted; without `INSERT` these are all rows
(`Converges`, `LwwTableProofs!UpdatesAgree`). And for rows that are only inserted:
`InsertsConverge` of both modules, where nothing ties. The argument is in
`MeshProofs`, for any preorder of contents: `AllCovered` says that whatever is in a
row anywhere is reached at every other node, by its row or by a change on its way
there. Writing covers what it publishes (`WriteCovers`), a change that is applied
leaves behind what it covered (`JoinCovers`), and once nothing is under way each
node is as far as every other (`SettledWhenIdle`). An `UPDATE` that finds no row
leaves nothing behind unless the row was deleted, which is furthest in the order for
rows that all nodes know (`Settled` says that nobody sends their `INSERT`). For
tables without updates the order is the other way round (`Grown`: a missing row is
least), so that an `INSERT` is progress.

**Last-write-wins table.** `LwwTableProofs!Typing` and `TimesOnlyAscend`, for any
number of nodes: an `UPDATE` stores a row only through `conflict_resolution_T`, and
an `INSERT` of a generated key replaces nothing. What is excepted, there and in
`TwoNodesAgree`, `SeededRowsAgree` and `UpdatesAgree`, is exactly what
`set_updated_at_T` breaks by storing `NOW()` over the time that was compared: rows in
`backdated`, of which `README.md:446` ("the node whose write happened later (by
wall-clock time) wins") is not true. The invariants of the streams are stated for a
set of keys, here those that are not in `backdated`: such a row disturbs no other.

**Sessions.** `HlcSessionsProofs` proves every invariant and action property of the
run, and the refinement. `StampersExclude` rests on `Held`: a session with
uncommitted stamps holds the lock of the clock row, unless it found no row; the
lock has one holder. `CommitsAscend`, `ClockCovers` and `ClockMovesUp` come from one
invariant that orders what a transaction has taken after the committed clock, and
the log before it, within an `epoch`. The proof is what showed that the epoch is
needed: the commit of a blind transaction moves the clock back without a trace in
the log when it has only applied changes. `DeadlocksTakeClockFirst` is about cycles
of waiting sessions of any length. If all of a cycle waited for the clock, they would
wait for its one holder, who does not wait for it; so one of them waits for a row of
the table. Who is waited for while it waits for a row has a lock in hand, and with a
lock from an earlier row it has the clock too (`Locking`): only the first row of a
transaction, if it is no upsert, comes before the clock. `CallsAreAtomic` is
the refinement of `AtomicClock`, whose working clock is that of the session which holds
the row. A call takes effect with its write; `Called` says of a call under way that its
session holds the row, or has found none and read zero.

**Setup.** `SlotsComeFirst`, `NamesComeFirst`: that a subscription has its slot is
not inductive, since it depends on the position of a run in its list. The
invariant says that in the tasks left to each run every `schema` and every
`subscription` comes after its `name` or `slot`, which exists already or still
stands before it in the same task: failed calls drop whole tasks, so nothing can
come between. `SuccessIsDone`: for a run without failure, each of its goals is done
or still to come. That the lists of `Tasks` are such lists, for every number of
nodes, is arithmetic of the nested loops (`QuotientBelow`, `LoopIndex`). Nothing in
the catalogs is ever undone.

**Health check.** `NoIssuesIsMesh`: catalogs only grow, so what a query has
witnessed stays true although the cluster changes between queries. If each node has
been seen with as many subscriptions as it has peers, then by counting it lacks no
more of them than it has others that count. `NoFalseAlarm` is the other direction:
once the mesh is complete it stays so, and what the check has noted of each node so
far (`Clean`) has no issue, query by query.

**Bootstrap.** `NothingIsLost`: what a slot was given is in the slot, or on its
subscriber, or on a clone of the subscriber that has a copy of the subscription,
through kills, restarts and clones. The last case is the one in which a node loses a
row: both of them read the one slot, and whoever gets the row consumes it. Nothing
else loses one. The other danger is the clone itself, which overwrites rows and
subscriptions of a node. `Blank` excludes it: a node
whose data directory is not complete has no subscription, and its slots hold
nothing. `InSyncIsSame`: for a setup without containers, `Spread` says that each
row has an origin from which every subscriber in sync has it or will get it; when
all are in sync and nothing is under way, every node has every row. `SlotsAreFound`:
a subscription has its slot, on whatever node a clone has carried it to, unless the
publisher has refused to make it. The invariant `Slotted` adds that a script which is
about to subscribe has made the slot of the peer at the head of its list, or has been
refused it; nothing ever drops a slot, and a script that could not reach the peer has
ended (`set -e`). `QuietSetupsNeverConflict` is the half of
`QuietSetupSyncs` that is not about fairness, and is stated by
`QuietSetupHasNoConflict`. While a copy is outstanding no node has
a row; afterwards (`Clean`) a row is under way to a node at most once, in one stream,
and only while the node has not got it: nothing forwards what it has applied
(`origin = 'none'`). With rows to begin with on two nodes it fails (`SyncJoin`).

Only model-checked: what needs fairness, which is out of the prover's reach, namely
`EventualConvergence`, `EventuallyDrained`, `TransactionsEnd`, `LaterRunCompletes`,
`QuietSetupSyncs`, `RestartSubscribes` and `ScriptsEnd`.

## 5. Not modelled

* Transactions of several changes in one stream, `TRUNCATE`, foreign keys, unique
  constraints other than the primary key, updates of a primary key.
* Sessions that were open before `pgconverge.node_name` was set ('unknown').
* Slots that are invalidated (`max_slot_wal_keep_size`), changes of the schema
  after the setup, nodes that leave. No code removes or refreshes anything.
* Updates and deletes during the initial copy or beside a container; a schema that
  loads in part and a publication of the node itself that SQL refuses (the script has
  no `ON_ERROR_STOP`); `setup-replication` beside containers.
* `DELETE` and `SELECT ... FOR UPDATE` in `HlcSessions`, which lock rows of the table
  without a call of `advance_hlc`, and foreign keys, which lock rows of other tables:
  they can add deadlocks in which nobody has the clock.
* The temporary server of `docker-entrypoint.sh` on a seed: while it runs,
  `pg_isready` may answer a script that looks for a donor or a peer, and the
  commands that follow fail; `Kill` covers a script that ends there.
* Connection pools: the commands use a manager from one goroutine, so no two of
  its operations ever meet in this program.
* Generators, command line, escaping: pure functions without a protocol.
* `hlc_ts` as a 64-bit integer: microseconds stay far from its limit.

## 6. Plan

Done: the clock, the mesh and both kinds of tables; the sessions that share a
clock; the commands, the order of the schema file and the health check; the initial
copy and the containers; the proofs of section 4.

Left, in this order:

1. Updates and deletes during the initial copy; tables with natural keys
   (`GeneratedKeys = FALSE`), whose conflicting inserts stop the apply workers.
2. Slot invalidation in `Mesh`; identity of the sessions of a clone before `ALTER
   DATABASE`; a schema that loads in part.
3. `setup-replication` in a cluster that has containers.
