# TLA+ models of MilevaDB

MilevaDB is a SQL layer in Go over a transactional key-value store. The
repository holds the mock of that store (`causetstore/mockstore/mockeinsteindb`),
the per-server domain that keeps the schema current (`petri`), the in-memory
schema, the transaction buffer and union store, bind info, the memory tracker,
and encodings. This directory models the parts whose correctness depends on the
order of steps: the MVCC store with the transactions that run over it, the mock
cluster and its clients, the schema lease and the goroutines of a server, and the
parts a statement goes through (buffer, bindings, schema, executors, trackers).

## Inventory

| Component | State | Operations | Interaction | What makes it correct |
|---|---|---|---|---|
| MVCC store (`mvcc_leveldb.go`, `mvcc.go`) | per key one lock and the records (type, startTS, commitTS); the wait-for graph of the deadlock detector | Prewrite, Commit, Rollback, PessimisticLock, PessimisticRollback, Cleanup, CheckTxnStatus, TxnHeartBeat, ScanLock, ResolveLock, BatchResolveLock, GC, DeleteRange, Get, scans, raw KV | one RWMutex, each operation is one critical section; called by the RPC handlers | one outcome per transaction and key, rollback is final, GC keeps visible versions, no wait cycle |
| RPC handlers (`rpc.go`) | the region range of a request | one handler per command, region and epoch checks | cluster, store | a request acts only on the region it was checked for |
| Transactions over the store | the client's progress, requests in flight | two-phase commit, pessimistic locking, snapshot read, lock resolution | handlers, timestamp oracle | atomic commit, snapshot reads, no lost update, blocked readers end |
| Oracle and PD mock (`fidel.go`) | last timestamp, GC safe points | GetTS, region lookups, safe points | cluster | timestamps are unique and increase |
| Mock cluster (`cluster.go`) | stores, regions, epochs, leaders | split, merge, peers, leader change, split of a range | handlers | regions partition the key space, an epoch names one range |
| Schema validator (`schema_validator.go`) | latest version, its expiry, queue of changes | UFIDelate, Check, Stop, Restart, Reset | Reload, SchemaChecker | no transaction commits across a change of its tables |
| Domain (`petri.go`) | loaded schema, reload lock, etcd session | Reload, loadSchemaInLoop, history reads, background workers | DDL owner through etcd, validator | at most two schema versions in use |
| Transaction buffer (`memdb.go`, `memdb_arena.go`) | red-black tree, value log, stages, checkpoints | Set, Delete, Staging, Release, Cleanup, snapshot reads | union store | a stage is undone exactly, a snapshot is unaffected |
| Union store (`solomonkey`) | buffer, snapshot, options | Get, Iter, key errors, RunInNewTxn | buffer, snapshot | the merged view is buffer over snapshot |
| Rows and indices (`spacetime`) | keys and values in the union store | AddRecord, RemoveRecord, unique index | union store | row and index entries agree |
| Bind info (`handle.go`, `cache.go`) | cache, last update time, pending and invalid records | create, drop, add, capture, evolve, load | `bind_info` table, other servers | a server that has loaded everything uses no dropped binding |
| Slow queries (`topn_slow_query.go`) | two channels, two heaps, recent queries | log, show, close | sessions, the loop | nothing is sent after close, the longest are kept, every client is answered |
| Session pool, workers, Close (`petri.go`) | pooled sessions, wait group, exit channel | get, put, close; one loop per worker | bootstrap, owner campaigns, etcd | Close ends every worker, no session is left |
| Global variables (`global_vars_cache.go`) | cached rows, time | get, load, update | table of variables, single flight | neither cache nor server go back |
| Memory tracker (`mem/tracker.go`) | tree of counters | Consume, AttachTo, Detach, ReplaceChild | exceed actions | an ancestor's count is the sum below it |
| In-memory schema (`builder.go`) | databases, tables, buckets shared between versions | ApplyDiff, full load | Reload | diffs give what a full load gives, a published schema never changes |
| Coprocessor (`interlocking_*.go`, `entangledstore/interlockhandler`) | position and partial result of a request | scan, select, limit, top-N, aggregate, analyze, stream | store, locks | each engine answers with exactly the rows selected |
| Codecs, constants, schema tables | none of their own | pure functions | | |

Hard behaviours: requests are lost, repeated and overtake each other; clients
crash between the phases of a commit; locks expire while a commit is under way;
readers push the commit timestamp of a writer; several goroutines meet between
the critical sections of Reload; the etcd session is lost and comes back; regions
split, merge and move under clients that cached them; a stage of the buffer is
undone after values were overwritten in place; servers change bindings while
others load them; trackers are moved while others consume; Close races with
borrowers and with a bootstrap that is still under way.

## Plan

Done: `Mvcc`, `MvccStore`, `Percolator`, `SchemaValidator`, `SchemaLease`,
`MvccStoreProofs` first; then `Regions`, the buffer (`StagedMap`, `MemBuffer`,
`RBTree`, `UnionStore`), `BindInfo`, `InfoSchema`, `Coprocessor`, `GlobalVars`,
`SafePoint`, `MemTracker`, `SlowQuery` and `PetriWorkers`.

The proofs followed the same order of importance: the store, transactions over it,
the schema lease, the buffer and its refinement, then the smaller parts (see
Proofs).

Then the readers (`SnapshotProofs`) and the books of the buffer. Left:

1. `BindInfo`: `DroppedNotUsed` (the three steps of a load against changes of other
   servers), with the rows as a set instead of a sequence.
2. `InfoSchema`: `SchemaExact`, at least that building the next version changes no
   published one.

`RBTree` and `MemTracker` use RECURSIVE operators and stay with TLC.

## Modules

### Mvcc: the store's operations

`lock[k]` is the lock column of key `k` (`mvccLock`), `write[k]` the set of its
records (`mvccValue`), `waitFor` the edges of the deadlock detector. The store's
mutex makes every operation one step, and a failing key of a request discards the
whole batch, which is why an operation is a test over all keys (`PrewriteOK`,
`CommitOK`, `RollbackOK`) followed by one update. Values are not modelled: a
record is identified by its transaction, which is what reads return. Records are
keyed by version, so `PutValue` replaces a record with the same version, as
`batch.Put` does. TTL arithmetic uses `ExtractPhysical(ts) = ts \div Logical`.
The detector is external and modelled as a graph: an edge is refused if it closes
a cycle, and a finished transaction's waits are dropped. Its time-to-live for
edges is left out. `MaxUint64` is the timestamp of the newest version.

### MvccStore: arbitrary requests

One action per handler of `rpc.go`, with every request the constants allow, in
any order and repeated. Only the oracle's discipline is assumed: a start
timestamp is nobody's commit timestamp, and a commit timestamp belongs to one
transaction. `rolledBack` and `cleanedUp` remember the answers clients got; GC
and DeleteRange release the promises whose tombstones they may remove.

### Percolator: clients, readers and resolvers

The committing client, the reader and the resolver are not in this repository;
they follow from the requests the handlers accept. `msgs` keeps every request for
ever and nothing forces it to be handled, so requests are lost, delayed and
repeated; a client that takes no further step has crashed. Each region of a
transaction gets its own request, the primary's region is committed first. A
reader that meets a lock asks `CheckTxnStatus` at the primary and either skips
the lock (minCommitTS pushed), waits or resolves the region.

### SchemaValidator and SchemaLease

The validator's operations are steps under its mutex. `SchemaLease` follows
`Reload` one lock or remote call at a time: read the version (`ReloadBegin`),
load diffs or everything and publish the schema (`ReloadLoad`), report the
version to etcd (`ReloadSync`, `ReloadSyncFail`), reset and update the validator
(`ReloadReset`, `ReloadUpdate`). `loop` is the position of `loadSchemaInLoop`
when the session is lost. The DDL owner is external: it publishes the next
version when this server has reported the current one, is not registered, or two
leases have passed. The constant `Events` switches faults on.

### Regions: the mock cluster and its clients

`regions` maps IDs to key range, epoch, peers and leader, as `Cluster.regions`
does; each operation of `Cluster` is one step. A request is two: `CheckRequest`
checks store, region, epoch and size and keeps the region's range (`checkArgs`,
`checkRequestContext`), and a `Run...` action accesses the data with that range,
as the handlers do. Between the two anything may happen. Clients cache a region
and react to region errors as the errors ask them to (external). `SplitRegion`
has two critical sections of its own, `SplitLookup` and `SplitApply`. Keys are
numbers; committed data does not change, so a scan has one right answer.

### StagedMap, MemBuffer, UnionStore, RBTree: the transaction buffer

`MemBuffer` has the nodes with their flags, the value log in blocks and the stack
of checkpoints; addresses are (block, offset) and a freed part of the log is
really gone, so a stale address cannot be read by accident. `StagedMap` is what
callers rely on: a map and a stack of copies. `Staged` in `MemBuffer` is its
instance under the mapping *current map = values the buffer returns, saved copies
= values the snapshot of each stage returns*, and `ImplementsStagedMap` is the
abstract specification as a property of the detailed one. It covers in-place
overwriting, which is allowed only for values newer than the last checkpoint, and
discarding the values of a buffer whose locks stay. `UnionStore` lays the buffer
over a snapshot. `RBTree` is the tree with its rotations, written once per side.

### BindInfo

The shared table, and per server the cache, the loads in progress (time read,
rows read, rows applied are three steps, as in `UFIDelate`), the transaction that
holds the server's session context, and the changes that are committed but not
yet in the cache. A load applies the rows whose hints can be built and passes over the
others (`Unbuildable`, any of the rows of `Fragile` bindings that are not deletions),
and moves its time past all of them. `seen`, `late` and `skipped` are history: which rows were loaded,
which of the server's own changes came after a load that had passed them, and which
rows were passed over.

### InfoSchema

Schemas hold references into two heaps, `isDBs` and `isBuckets`; building the next
one changes heap cells in place exactly where the code does, so that forgetting a
copy would change a published schema. Diffs are applied with the definitions of the
newest version in the snapshot, as `loadSchemaReplicant` does. A database or table that
is dropped may spend a version as not public, when a full load skips it
(`fetchSchemasWithBlocks`); diffs take it out with the first step of the drop. The
changes of the owner include those that alter the partitions of a table and those of
TiFlash replicas, whose ids `tryLoadSchemaDiffs` leaves out (`CanSkipSchemaChecker`). A
load may begin in full, which stands for too many diffs or a missing one.

### Coprocessor

One request against one store content, run by one of three engines: the chain of
executors answered at once (`unary`), the same chain read chunk by chunk
(`stream`), and the closures of the entangled store (`closure`). Locks interrupt a
request; a stream then gives a response without rows, whose range reaches from the
chunk's start to the lock (`RecvLocked`). The client (external) resolves the locks and
tries again, a stream from the end of the last range that came with a chunk
(`Remaining`). The range in a response with a lock will not do: it covers the rows that
were read and dropped, and it is not swapped in a descending scan, so with it
`CoAnswerExact` fails.

### GlobalVars, SafePoint, MemTracker

Small concurrent parts, one step per atomic access. In `MemTracker` a goroutine
runs a list of atomic steps; a subtree is moved by its owner while the rest of the
tree is in use, which is how the executor uses it. `remove` looks for its child under
the mutex and, as in the code, does nothing when it finds none: a global tracker keeps
no children, and only `AttachToGlobalTracker` and `DetachFromGlobalTracker` know that. A
tracker's action either logs or panics (`LogOnExceed`, `PanicOnExceed`); a panic gives
the mutexes back and leaves the rest of the operation undone. `left` is history: what a
tracker counts too much or too little for these two reasons. `Detach` is not called
below a global tracker, as the comment of `DetachFromGlobalTracker` asks.

### SlowQuery, PetriWorkers

`SlowQuery` is the loop with its two channels, the heaps as sets whose minimum is
taken out. `PetriWorkers` is the start-up, one exit action per worker with the
condition its select waits for, owner campaigns, the session pool and `Close`.

## Runs

| Run | Checks |
|---|---|
| MvccStoreOneKey | one key, two transactions, two commit timestamps for one of them, a later forUpdateTS for the other, all mutations: one outcome, no lock after it, final rollback, history, GC, monotone primary lock |
| Contention | actors that meet in one structure: deadlock detection over requests on two keys with crossed primaries (`WaitForAcyclic`); bindings of two servers and a session (`DroppedNotUsed`); trackers of two goroutines, with actions that log or panic (`TrackerSums`) |
| PercolatorOptimistic | two transactions that write both keys in two regions, and a point get: atomicity, no lost update, durability of acknowledged commits, no effect of aborted ones, a point get that misses no acknowledged commit |
| PercolatorReaders | a snapshot reader against a large and a small transaction: it reads its snapshot and ends although the writers crash |
| PercolatorPessimistic | a pessimistic transaction that retries its statement against an optimistic one |
| SchemaLease | the lease without faults: reported versions are in use, a known change stops older transactions, an unexpired lease bounds the lag |
| SchemaLeaseFaults | all faults: only transactions that overlap a fault are at risk |
| Regions | a scanner (forward, reverse, coprocessor), a splitter and raw clients against all cluster operations: the regions partition the keys, scans are exact, scans end |
| Petri | the lease recovers and catches up (`EventuallyRestarted`, `LeaseCatchesUp`); slow queries are kept, clients of ShowSlowQuery are answered; Close returns and leaves nothing |
| Parts | buffer (`ImplementsStagedMap`, `BufferBooks`, `BufferReadsAgree`), tree (`TreeCorrect`), schema (`SchemaExact`, `ChangesReported`), executors (`CoAnswerExact`), variables (`VarsNeverGoBack`), safe points (`SafePointRespected`) |
| MvccStoreCleanup, PercolatorLeftover | violations, see below |

`Petri`, `Parts` and `Contention` are sums of components that share no state: the variable `part`,
chosen at the start, says which one runs, and the others keep their initial state.
Nothing is lost, because no action of one reads a variable of another, and one run
per group keeps the whole development quick to check. For the bindings
it chooses among seven mixes of servers, goroutines and operations: evolution,
explicit reload beside the loop, capture with invalid records, two servers that change
one binding, a server that only loads what another one writes, two statements with one
plan, and the bindings of a session. The type invariants of
`Percolator` and `SchemaLease` are kept as documentation of the state and for
proofs; the runs spend their time on the other properties.

Bounds. Two transactions suffice for every conflict of the store, because an
operation compares one transaction with the lock or a record of one other; the
wait-for graph then has cycles of length two. Timestamps run to 5 or 6: two starts,
two commits, and the rest for a retry, a reader or a clock tick. TTLs are small enough
to expire within that range and large enough not to at once. `SchemaLease` has
four versions and a queue of two, so a Reload skips versions, entries are merged
and dropped; the clock passes the lease of one unit twice.
`Regions` has four keys, all with data, and two cluster changes besides a split:
one to make a cache stale and one to change the region between check and access.
The limit of a scan, 2, is below the number of keys. The split key is a boundary of
what SplitKeys makes, so a split may also come at the start of its region. In `Parts` the buffer has
three keys, values of two lengths (the in-place rule compares lengths) and two
stages over a log of two blocks; six tree keys reach every case of the
delete fix-up; three DDL changes and two databases let a load skip two versions;
chunks of two rows over four keys end inside, at and after a range. In `Contention` only the
second of the two transactions that wait for each other may commit, and only the
evolved binding of the server that loads what another one writes is `Fragile`: a row
that cannot be built then follows a row that can, the case that leaves an old binding
in use. Two loads and three
transactions per behaviour of the bindings let a load overlap a change, and a later one
see what it missed. Two operations on four trackers are every pair of racing
operations, among them two that move trackers. Three queries and a heap of one let a query be displaced and expire.
The configurations of `Petri` are an etcd server, one that only loads statistics
and one that updates them.
`SchemaLeaseFaults` never lets the lease expire, the case in which the most
transactions pass. The clocks and counters that would grow for ever are bounded
by `MaxTS`, `MaxNow`, `MaxVer`, `MaxStatements` and `LastReadTS`; because of these
bounds the runs of `Percolator` and `SchemaLease` may stop, so they do not check
for deadlock. `MvccStoreOneKey` does.

Because of their bounds, and because clients and servers finish, `Regions`, `Petri`,
`Parts` and `Contention` do not check for deadlock either.

Fairness. `PercolatorReaders`: the clock advances and a reader keeps retrying, which
is the back-off loop of the client; nothing is assumed of writers or of requests
in flight. Readers start early enough (`LastReadTS`) for locks to expire before
the bounded clock ends. `LeaseFairness`: the loop goroutine runs (weak fairness
of its local steps), and repeated attempts to reload and to report succeed
eventually (strong fairness), which is what `mustReload` and the ticker of
`loadSchemaInLoop` rely on. `RegionsFairness`: each client repeats its request; the
conclusion is drawn only for behaviours in which the stores stay up and every
region has a leader from some time on, and no split has left a region empty or a
range twice. `SlowFairness`: the loop takes a step when
one is ready, and Go's select does not overlook a ready case for ever.
`PetriFairness`: Close and the workers run; a worker whose exit case is ready takes
it eventually even if its ticker fires as well.

## Findings

- `MvccStoreCleanup`: `Cleanup` of a key that was never prewritten puts the
  tombstone into a batch that is not written.
- `PercolatorLeftover`: `commitLock` turns a leftover pessimistic lock into a
  delete when a committed transaction's region is resolved.

Observations that need only a change of a constant or a dropped conjunct.

Schema lease:

- A failed report loses the change for the validator (petri.go:113, against
  schema_validator.go:45): `KnownChangesCaught` with `Events = {"syncFail"}`.
- `Restart` after a lost session leaves version 0 and the old expiry
  (schema_validator.go:117, against petri.go:552): `KnownChangesCaught` with
  `Events = {"sessionLost"}`.
- The version is reported to etcd (petri.go:113) before the validator has the
  change (petri.go:384), so during a Reload a transaction two versions behind can
  pass: `LeaseBoundsLag` without `reload.pc = "idle"`.
- `Check` does not look at the expiry for an older version
  (schema_validator.go:229): `LeaseBoundsLag` without the lease's conjunct.
- `Reset` keeps the expiry, so after a full load all pass until the update:
  `KnownChangesCaught` with `Events = {"missingDiff"}`.
- A history read at the present time reports a version that is not in use:
  `ReportedInUse` with `Events = {"historyRead"}`.

`SchemaLeaseFaults` bounds the damage of a failed report, a reset, a stop or a
restart: a transaction that begins after it is checked correctly.

Point gets:

- A point get that meets the primary lock of another transaction reads below it, at
  the lock's start timestamp less one (mvcc.go:206-217, "for point get latest
  version"). An optimistic lock has seen no commit after its start. A pessimistic one
  has: a transaction that started at 2 may lock the key at for-update timestamp 4 and
  prewrite it over a commit at 3 that was acknowledged; the point get reads at 1 and
  misses it: `PointGetFresh` in `PercolatorPessimistic` with a point get of the
  pessimistic primary.

Mock cluster:

- A split that was looked up before its region lost the key is applied all the
  same (rpc.go:661-671) and leaves overlapping or empty ranges: `RegionsPartition`
  without `StaleSplit`. If the region was merged away or its peers changed, the
  handler panics.
- A SplitRegion at an existing boundary makes an empty region, because an encoded start
  key is compared with a raw split key (rpc.go:662). A reverse scan that
  GetPrevRegionByKey sends to it passes all region checks and panics (rpc.go:299):
  `ScanExact` without its exception for `RepeatedSplit`, `ScansEnd` without
  `RepeatedSplit` in `Healthy`.
- SplitKeys over a range without data removes the old regions and creates none
  (cluster.go:472): `RegionsPartition` with a smaller `Data`.
- RemovePeer compares its store ID with peer IDs; a cancelled store that is met
  first fails requests to other stores (GetAndCheckStoreByAddr); RawBatchDelete
  goes on after a region error; the region properties command dereferences the
  region without a test; GetPrevRegionByKey takes a read lock twice.

Bindings:

- A transaction that commits with an update time older than the last one loaded is
  never loaded; a server's own change can reach its cache after a load that had
  passed it (`late`).
- A row that a load cannot build is logged and passed over (handle.go:157), after the
  time of the load was moved to it, so it is never read again, and the binding it
  replaces stays in use. `DroppedNotUsed` names these three cases.
- Rows with the same update time are applied in an unspecified order
  (handle.go:131).
- DropBindRecord that matches no row still removes a binding another server has
  just created; an evolve task can bring a dropped binding back; the logical delete
  in CreateBindRecord tests the wrong error variable.

In-memory schema:

- ADD, DROP and TRUNCATE PARTITION report the ids of the new definition only, because
  what `applyDropBlock` found is kept only if the table's id has changed
  (builder.go:102), although `tryLoadSchemaDiffs` speaks of the changed block and
  partition ids (petri.go:242): a partition that went away is not among them. Diffs of TiFlash
  replicas report nothing (petri.go:270). `ChangesReported` names both cases.
- A full load that meets a database which is being dropped keeps its name with no
  tables (builder.go:402), where diffs have removed the database.

Executors:

- The range in a stream's response with a lock error covers rows that were dropped
  and is not swapped in a descending scan (interlocking_handler_dag.go:645): it must
  not be used to go on.
- A descending stream over points reports a range that skips a point it has not
  read (`DescPoints`), and the column analysis of the entangled store ends early
  (`EarlyAnalyzeEnd`); `CoAnswerExact` exempts both.
- Cursor and ResetCounts index past the ranges when there are none, or when a chunk
  ends exactly with the last point.
- The closure executor answers LIMIT 0 over a point with an internal error and
  counts points before the selection; the engines differ on an aggregate over no
  rows.

Server and statement:

- `remove` consumes while it holds the tracker's mutex (tracker.go:165), and the
  log-on-exceed action prints the tree and takes it again (mmap.go:48): the
  goroutine waits for itself. In `MemTracker` it stops in front of `RunAct`.
- With the panic action in its place, `remove` is left between the subtraction and the
  unlinking (tracker.go:165-167): the child stays attached and its bytes are gone.
- `AttachTo` does not take a tracker away from a global parent (tracker.go:136), against
  its comment (tracker.go:131): the bytes stay counted at the global tracker and are
  counted at the new parent as well. `TrackerSums` names these two cases; without
  `left` it is violated.
- After the slow query loop has ended, a client of ShowSlowQuery waits for ever;
  `ShowAnswered` excuses a closed server.
- The keeper of the server information may register the server again after Close
  has removed it, which is why `CloseLeavesNothing` does not mention it.
- The placement driver mock refuses a collector whose point lies below the least
  registered one, and the first service registers freely.

## Proofs

A theorem holds for every value of the constants that satisfies the named
assumptions of the modules, so without the bounds of the runs. What each module
proves and along which argument:

| Module | Theorems | Stands on |
|---|---|---|
| `MvccStoreProofs` | `TypeOK`, `OneFate`, `LockExcludesRecord`, `RollbackFinal`, `HistoryKept`, `WaitForAcyclic`, `GCKeepsReads`, `PrimaryLockMonotone` | `IInv` |
| `PercolatorProofs` | `CommitAtomic`, `AckedDurable`, `AbortedNeverCommits`, `NoLostUpdate` | `PInv` |
| `SnapshotProofs` | `SnapshotRead`, `PointGetFresh` | `PInv` and `RInv` |
| `SchemaLeaseProofs` | `FaultsHarmOnlyOverlapping`, `KnownChangesCaught`, `ReportedInUse`, `LeaseBoundsLag` | `LeaseInv` |
| `MemBufferProofs` | `ImplementsStagedMap`, `BufferBooks` | `BufferInv`, `BookKeeping` |
| `RegionsProofs` | `RegionsPartition`, `ScanExact` | `RegionsInv`, `ScansInv` |
| `PetriProofs` | `CloseLeavesNothing`, `SlowQueriesKept` | `PetriInv`, `SlowInv` |
| `PartsProofs` | `SafePointRespected`, `VarsNeverGoBack` | `SafePointInv`, `VarInv` |

**The store.** `OneFate` is not inductive: a record is put after a test of the
lock, so one has to know that the holder of a lock has no record
(`LockExcludesRecord`); and `PutValue` could overwrite a record of another
transaction, so one has to know where records are stored (`RecordShape`: rollbacks
at start timestamps, commits at commit timestamps of their transaction).
`RollbackFinal` follows once each promise is known to have its tombstone
(`Tombstoned`). `IInv` is the conjunction of these with the types. Every request
other than GC and DeleteRange changes a key in one of three ways (`KeyStep`): the
lock is kept or removed, a transaction without a record takes or changes the lock,
or a transaction without a record gets one and holds no lock. That KeySteps keep
the invariant is shown once; that a request consists of KeySteps is shown operation
by operation. GC and DeleteRange only remove (`KeyShrink`) and release the promises
they affect. `WaitForAcyclic` is inductive: the new edges of a request all leave the same
waiter and none of their ends reaches it, so what an end reaches stays closed under
the new edges (`Reaches` is stated with closed sets and needs no paths).
`GCKeepsReads` compares the newest visible record before and after the pass over a
key. `PrimaryLockMonotone` classifies what a request does to the fields of a lock
(`LockStep`). Assumptions: timestamps are an initial segment of the positive
numbers, start and commit timestamps are disjoint, a commit timestamp belongs to
one transaction and follows its start (`CommitAssumption`).

**Transactions.** None of the four properties is inductive, because what makes them
true is in the messages: a delayed commit request would break atomicity if its
transaction could still be rolled back at the primary. `PInv` therefore says what
every request in flight (`MsgOK`), every answer (`RespOK`) and everything a resolver
has learnt (`KnownOK`) implies about the primary, that the primary decides
(`Decided`), that a commit timestamp exists only when every key is prewritten or
settled (`CommitPrewritten`), and that a lock taken or kept has seen all commits up
to its own for-update timestamp (`LockSeen`, `SeenBefore`), which is where
`NoLostUpdate` comes from. `CommitAtomic` reads it off `Decided`. Requests stay in
`msgs` for ever, so loss, repetition and reordering are all covered, with any number
of transactions, keys, regions and readers. `PercolatorAssumption` only says that a
transaction's primary is one of its keys, that its mutations are ones a committing
client sends (CheckNotExists leaves nothing to commit), and that readers read keys.

**The readers.** A value read at `c` is right when it is read; the question is
whether a commit can still appear at or below `c`. `RInv` says that it cannot: each
transaction that holds a lock on the key (`ReadAt`), or that the reader was told to
skip (`SnapshotOK`), is `Late`: its commit timestamp exists and lies above `c`, or
its primary is rolled back, or its primary lock was pushed above `c` (`Pushed`) and
refuses commits below. That a lock ignored because it is newer, a lock on a key the
transaction does not change, a pushed lock and no lock at all each leave this true is
shown for every request and every reader step. A snapshot reader has one `c`, its
start timestamp; a point get (`PointOK`) has one for every key, not below any commit
that was acknowledged before it began (`FreshAt`). The theorems have hypotheses, and
both are needed. `OwnLockSets`: a statement locks only keys its transaction writes;
`PercolatorLeftover` is the counterexample without it. `PlainPointKeys`, for
`PointGetFresh` only: no point get reads the primary key of a pessimistic
transaction (see the stale point get under Findings).

**The schema lease.** `LeaseInv` says what a Reload under way has read
(`ReloadOK`), that the validator is behind the loaded schema only by what that
Reload still holds (`NoGap`), and that the validator's queue tells of every change
after the version of a transaction, or tells that it cannot (`WatchedCovered`), for
each transaction that no fault overlaps (`exposed`). The queue's merging and
dropping (`enqueue`) keep this. The hypotheses of the theorems are the ones the
findings above show to be needed: `Lease # 0`, because the validator of a server
without a lease lets everything pass; no fault (`Quiet`) for `KnownChangesCaught`; no history
read for `ReportedInUse`; for `LeaseBoundsLag` no fault at all and no more
versions than a Reload loads as diffs, because a full load resets the validator and
keeps its expiry. `LeaseBoundsLag` adds the times of the last grant and of the one
a Reload is about to give (`GrantTimes`, `ReloadTimes`). The runs `SchemaLease` and
`SchemaLeaseFaults` satisfy them.

**The buffer.** `MemBufferProofs` shows that the buffer implements `StagedMap`. The
invariant has two cases. `Live`: the log is a sequence of blocks whose entries are
in order (`LogOK`), a node points at the newest entry of its key and an entry at the
one before it (`ChainOK`), a checkpoint is the address of an entry or the beginning,
and later stages have later ones (`StagesOK`). `Discarded`: the values were given
up, and both views are empty. From `Live` it follows what a read returns: `Get` the
newest entry of the key, a snapshot the newest up to its checkpoint (`ReadsNewest`;
following the chain ends because it moves towards the front). A write changes the
newest entry only: in place, if it lies behind the last checkpoint, or by an entry
behind every checkpoint. `Cleanup` is the long part. The loop of
`revertToCheckpoint` has the invariant that the nodes are chained to the part of the
log the cursor has not passed; each turn moves the cursor to the entry before, so the
number of entries up to it falls and bounds the loop, and at the end every node is at
its newest entry up to the checkpoint, which is what the stage's snapshot returned.
Then truncating the log removes only entries nobody reaches. The books are a second invariant
over the first (`BookKeeping`): the counters are the number of nodes and the sum of the
lengths the nodes point at (`Counted`; sums are defined by what adding an element
does, and the fold of `SizeExact` is one), a clean buffer has no persistent flag
(`Flagless`) and nothing below its first stage (`CleanBase`). Each turn of the revert
loop keeps the counters, since it adds what comes back and takes off what goes, and
`Release` of the first stage leaves the buffer clean only if nothing was appended
since it began. `InspectStage` needs no invariant of its own: its walk moves as the
loop of `revertToCheckpoint` does, meets every entry behind the checkpoint once
(`Walks`), and of these the newest entry of a key is the one its node points at.
`MemBufferAssumption`
says that an entry fits a block; values have the lengths 0 (a deletion), 1 and 2,
which is all that the rule for overwriting in place compares.

**The regions.** `Tiling` says that every position, the empty start key included, lies
in one region and that no region ends before it starts; it is inductive, because a split
or merge exchanges regions for others that hold the same positions. `RegionsInv` adds
the types of regions and of clients, since a split uses what its client looked up; once
a split was applied to a region that had lost its key (`StaleSplit`), the partition is
no longer claimed. `SplitKeys` is the long case: what `evacuateOldRegionRanges` leaves
of the old regions ends where the range begins and goes on where it ends
(`EvacuateKeeps`), and the groups of pairs tile the range (`NewRangesTile`, from the
division in `getEntriesGroupByRegions`, `GroupsGrow`). From `Tiling` the proof derives
what `ScanRegions` returns: the sorted regions meet (`NeighboursMeet`), so the two
binary searches find their place and there is no gap (`NoGap`). Sorting is written by
rank (`Ordered`), and that it sorts is proved (`OrderedSorts`). Both theorems have the
hypothesis `SplitRangesHoldData`: a SplitKeys over a range without data leaves a hole
(see Findings). A region of empty range is in nobody's way, but it shares its start with
its neighbour and the order of the two is left open by the sort of `ScanRegions`, so
`ScanHasNoGap` is claimed when there is none.

`ScanExact` is about what a client knows of the regions while they change, and holds
after a stale split as well. Each step of the cluster leaves a region as it was or
raises its version whenever its range changes (`SameOrNewer`), and IDs never come back
(`Aged`, part of `Onward`): so a cached region whose version is still the current one
has the current range (`CacheOK`), and a request that passes `checkRequestContext` runs
on the range its client has in mind. `ScansInv` adds that the cached region holds the
next key (`CacheFits`), and that the answer so far is the sorted data on one side of it
(`ScanProgress`); a page that is cut at the limit or at the end of the region joins on
without a gap and without a repetition (`PageUp`, `PageDown`, from `OrderedJoin` and
`OrderedFirst`). The one region that does not hold the next key of a scan is the empty
one GetPrevRegionByKey may give to a reverse scan; `Proper` says that there is none
before a split has been stale or repeated, which is the exception the property makes for
a panic.

**Close.** Each session made is in the pool, with a borrower or closed
(`SessionsKept`); after the write lock in the pool's Close every Put finds the pool
closed (`PoolPhases`); a campaign has a worker that will cancel it (`WorkersOwn`).

**Slow queries.** A query that is in no heap is expired or beaten by at least `TopN`
others that came to the loop (`ForgottenRightly`); this needs that a query comes once
(`ComesOnce`), or it would be beaten by itself.

**Safe points and variables.** The collector's own registration protects a service
that registers between its question and its collection (`SafePointInv`). There is one
load at a time, and what it has read lies between the cache and the table (`VarInv`).

Induction over data is done with sets: the library's induction theorems take an
operator and cannot be used, but `WFMin` (a nonempty set of positions has a first
one) and the set form of induction over the naturals can, and carry the recursive
functions of `MemBuffer` (`Doubled`, `SnapshotValue`, the loop of
`RevertToCheckpoint`) and the minimum of `SafePoint`.

### Only model-checked

- Liveness (`ReadsComplete`, `ScansEnd`, `EventuallyRestarted`, `LeaseCatchesUp`,
  `ShowAnswered`, `CloseReturns`): fairness and ENABLED are beyond the prover.
- `SnapshotRead` and `PointGetFresh` without the hypotheses of their theorems do not
  hold for all constants.
- `RBTree` and `MemTracker`: RECURSIVE operators.
- `DroppedNotUsed`: what a load makes of the rows it has read is a fold over a
  sequence, so the proof is an induction over data.
- `BufferReadsAgree`, `CoAnswerExact`, `SchemaExact`, `ChangesReported`: the merging
  iterator recurses over both of its sides, the executors and the Builder fold over
  rows, diffs and tables, so their proofs are inductions over data; and the prover
  takes `SortSeq` and `SelectSeq`, on which `SetToSortSeq` rests, as operators
  without a definition (`Regions` sorts by rank for that reason).

## Not modelled

- Values, encodings and I/O errors of LevelDB; debugging reads of the store, and
  the recursion of read locks inside one operation (`MvccGetByStartTS`,
  `GetPrevRegionByKey`), because an operation is one step.
- Rows and indices (`spacetime/index.go`, `spacetime/table/blocks.go`, `tables.go`):
  the files do not compile and have no definite behaviour.
- RunInNewTxn, fault injection and error formatting of `solomonkey`.
- Expression evaluation, plan parsing and hint generation (outside the
  repository); the checksum handler, which answers a constant.
- `entangledstore/rpc.go`, `raw_handler.go`: an adapter to a store outside the
  repository.
- The databases of the virtual tables and the repair mode in a full load of the schema;
  log hooks and fallbacks of exceed actions, and limits or actions that are changed while
  trackers are in use.
- Virtual tables, metrics, constants, error codes, codecs, logging: data and
  formatting without state of their own. Together they are a large part of the
  repository's lines (`metric_table_def.go`, `tables.go`, `errcode.go`).
