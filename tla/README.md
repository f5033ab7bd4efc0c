# A verification project for lakeql

TLA+ models of the parts of this repository where order, failure and sharing decide
whether it is right; TLC runs that check them on small instances; TLAPS proofs that
carry the most important results to every instance. `PROJECT.json` lists runs,
theorems, the lines each definition models and the hazards the properties are for.

Paths below are relative to `packages/` of the repository.

## 1. The system

lakeql is a TypeScript library (no server, no threads) that queries and writes
Parquet, Iceberg, CSV and JSON in object stores, from Workers, browsers and Node.
Everything shared lives in an object store or in an adapter the caller provides; inside
a process, concurrency is the event loop's: whatever runs between two `await`s is atomic
and anything may run at an `await`.

| Component | State it keeps | Operations | What is hard |
|---|---|---|---|
| Iceberg table and object-store commit catalog (`iceberg/src/index.ts`) | `v{id}.metadata.json`, manifests, `version-hint.text` and its etag; handles in memory | load (hint, else list), `appendFiles`, `commitAppend` (check, head, three puts) | several writers, five store calls per commit, only the last conditional; crashes between them; stale handles |
| Iceberg REST catalog (same file) | the server's snapshots and `main`, files in the store | `loadTable`, `commitAppend` (two puts, one POST) | lost or late requests and answers, other engines |
| Iceberg planning and deletes (same file) | a promise cache of manifests | `planFiles`, hydrate, apply deletes | failures cached, matching deletes to files |
| Read controls (`core/src/store.ts`) | `ReadSemaphore`: a counter and a queue; an abort signal | `get`, `getRange` under a limit | a released slot is taken between wake-up and continuation; leaks on abort and error |
| Object-store cache (`core/src/object-store-cache.ts`) | entries in use order, byte count | read-through get, range and head; invalidating put and delete; expiry; eviction | answers that arrive after a write; failed writes |
| Task checkpoints, partitioned writes (`core/src/manifest.ts`, `parquet/src/index.ts`) | a checkpoint per task, the files written | `advanceTaskCheckpoint`, `writePartitionedParquetTask` | redelivery, two workers, get and put not atomic, stale takeover, crashes between files |
| Manifests and bookmarks (`core/src/manifest.ts`) | serialised plans | plan a job, collect outputs, resume a slice | ids and fingerprints that must agree across calls |
| Work-unit fan-in (`core/src/work-unit.ts`) | running count, buffered partials, a notify callback | run, buffer, reduce in order | lost wake-ups, a full buffer, failures |
| Query engine, evaluator, vector operators (`core/src/query.ts`, `evaluator.ts`, `batch*.ts`, `vector-*.ts`, `join.ts`) | per-query state: sort runs, aggregation states, bookmarks, a planning cache | scan, filter, sort, group, join, slice, resume, spill | equivalence of the fast paths with the plain ones; slices of a store that changes |
| Parquet reader (`parquet/src`) | range, metadata and column caches; row-group statistics | range reads, pruning, decode, scan tasks | caches shared by concurrent slices; sound pruning; columns whose pages end at different rows |
| Side-car indexes (`core/src/sidecar-index.ts`) | bounds and cells of a file, beside it | build, prune | sound pruning |
| Stores (`s3`, `r2`, `http`, `fs`, `opfs`, `core/src/memory-store.ts`) | objects | get, put, conditional put, list | conditional writes |
| SQL and the command line (`sql/src`, `cli/src`) | none that is shared | parse, format, plan joins and subqueries | what is written must be read back; conditions pushed below joins |
| Formats (`csv`, `json`, `geo`, `arrow`), engine facade | none that is shared | parse, infer types, wire up | quoting, limits, truncated input |

Interactions: the query engine reads through read controls over a cached store over a
store; a write task writes files and advances a checkpoint, and the output manifest
collects checkpoints into an Iceberg append; aggregate tasks are combined by the
fan-in.

What makes each component correct:

* commits: an append is in the table once or not at all, its answer is the truth, what
  readers reach is always complete, and sequence numbers never collide;
* read controls: the fan-out stays in its limit, no slot leaks, nobody waits for ever;
* cache: an answer is what the store holds, the budget is kept;
* checkpoints: recorded outputs exist, a live worker keeps its task, a task gets done;
* fan-in: every input is reduced once and in order, memory is bounded, the call returns;
* slices: together they are one reading of the query, or a change is refused;
* hydration and range caches: a failure or an abort of one caller leaves nothing behind
  for another, and the count of bytes means something;
* the query engine: every fast path, every division of the work into tasks and every
  form in which partial work is stored gives what the plain definition gives; pruning
  loses no row; deletes of a table apply exactly;
* text: what is written (SQL, CSV) is read back.

## 2. Modules

State machines, one module per component:

| Module | Models | State and actions |
|---|---|---|
| `IcebergMetadata` | a metadata file and what `appendFiles` makes of it | operators: `NextMetadata` is the base with one more current snapshot that carries the old entries over, `MaxSequenceNumber` as in `maxSequenceNumber` |
| `IcebergCommit` | the default catalog | one action per store call: `ReadHint`, `ListLatest`, `GetMetadata`; `Begin`; `CheckBase`/`RejectStale`, `HeadHint`, `PutManifest`, `PutMetadata`, `PutHint`/`PutHintUnanswered`/`HintConflict`; any call may throw (`FailLoad`, `FailAppend`) |
| `RestCommit` | the REST catalog and the server it talks to | writers put, put, `Post`; the server takes requests out of a set in any order (`ServerCommit`, `ServerRefuse`); a call may give up at any time and its request still arrive |
| `AppendTable` | what a commit catalog promises | abstract: an append takes effect at most once; "committed" means it did, "conflict" that it never will |
| `ReadControls` | `withObjectStoreReadControls`, `controlledRead`, `ReadSemaphore` | one action per stretch between awaits; a resolved waiter is "woken" until its continuation runs |
| `SharedMemoryCache` | the cache class, as operators | `Set`, `AfterGet`, `Delete`, `DeleteWhere`, `Evict` on entries in use order and a byte count; the loops of the last two delete one entry after the other, as the code does |
| `CachedObjectStore` | `cachedObjectStore` | a call of the inner store is issued, takes effect and answers in three steps |
| `RangeCache` | `cachedRangeBuffer` without a shared cache | `Hit`, `Miss`, `Answer`, `Fail` of concurrent slices; `Answer` counts, places and evicts in one step, as the code does after its await |
| `TableHydration` | `hydrateMetadataManifests` with the map of promises of a load and the cache loads share | `Lookup`, `Read`, `Store`, `Fail` of a promise; `Start`, `Continue`, `End`, `Abort` of a load; `Recreate` is another engine's |
| `SliceResume` | `slice`, `resumableBatches`, `Lake.resume`, bookmarks, the planning cache | `Plan` (list, fingerprint, compare), `Open` (list again), `ReadObject`, `Deliver`; `Write` is another writer's |
| `TaskCheckpoint` | the checkpoint transition rules under `writePartitionedParquetTask` | one action per call of the adapter or the store; `Deliver` and `Crash` are the queue's and the host's |
| `FanIn` | `fanInWorkUnits` | `Main` is the caller's loop between awaits, `TaskDone`/`TaskFails` the ends of tasks |

Algorithms, as operators (each names the functions it stands for):

| Module | Models |
|---|---|
| `SqlValues` | the values of the engine, their types, three-valued logic, comparison, arithmetic, the JSON form of a value |
| `Evaluator` | expressions over a row: `evaluate`, casts, functions, CASE, `matches` |
| `BatchEvaluator` | column vectors, dictionaries, the kernels that compare them, masks |
| `Spatial` | geometries, envelopes, distances, the spatial predicates by rows and by masks, WKB |
| `Statistics` | what the statistics of a row group say of a comparison, a list, a range, a connective |
| `Pruning` | `rowGroupMayMatch`, `rowGroupMustMatch`, conjunct levels, ranges, work units, both scans of a task |
| `PageReader` | pages, dictionaries and definition levels into batches and windows |
| `SidecarIndex` | min/max and H3 indexes of files, built and asked |
| `Aggregates`, `GroupBy` | states of aggregates, distinct values in runs, group-by of vectors, dictionaries and rows, snapshots, merges |
| `Ordering`, `Joins` | sort runs and their merge, row and columnar top-k, late materialisation, vector sort; broadcast, lookup and vector joins |
| `Queries` | the row, columnar and late paths of a query, DISTINCT, paging, hive partitions, policies |
| `IcebergScan` | snapshot selection, manifests, planning, deletes, the scan of a table |
| `TextFormats` | CSV and JSON readers, type inference, the CSV a query writes, tables of many files |
| `SqlDialect` | the parser from tokens on, scopes, joins, subqueries, and the formatter |
| `SqlCommands` | how the command line runs a statement |

For TLC: `MCIcebergCommit`, `MCRestCommit`, `MCTaskCheckpoint` give constants;
`Caches` puts the four caching machines side by side, with the assumptions on their
constants, for the proofs about them, and `MCCaches` runs them; `MCEvaluation`, `MCTables`,
`MCFormats` hold inputs and reference definitions, and `MCOperators` asks.
Proofs are in `*_proofs` (section 5).

Data is abstracted to what the properties tell apart: a manifest is the set of
(append call, index, sequence number) entries it lists, object content is the number of
the write that left it, a file is its idempotency key and ordinal, a partial result is
its input. In the algorithms a value is its type and an integer key by which values of
the type are ordered; a text is a key and, if it reads as one, an instant; a geometry
lies on a grid; a token of SQL is a record. Sums and averages are exact rationals where
the code has doubles. Operators marked "Fault" or "Plausible bug" are not part of any
specification: each is a definition with a bug, and substituting it for the definition
that follows it makes a run fail, which shows that the property looks at the code.

Modelling decisions worth knowing:

* Snapshot ids the code draws at random from 2^53 are never drawn twice; the ids a
  caller passes in `nextSnapshotId` may be (`ReuseIds`).
* A handle of a table is not refreshed by its own append, as in the code.
* A crash of a writer is a call that throws followed by no further use of the handle;
  nothing the code does on a throw changes shared state, so no separate action is needed.
* The conditional put of the stores compares and writes in one step
  (`MemoryStore.conditionalPut`; S3, R2 and the file system give the same).
* The clock of a task run is read once, when the run starts.
* The REST server is modelled from the request lakeql sends: `assert-ref-snapshot-id`,
  then `add-snapshot` and `set-snapshot-ref`, atomically.
* A slice of `SliceResume` has no filter, no order and no projection: rows come in
  listing order, which is what a bookmark counts in, and a row is what is delivered of
  it. What filters, orders and projections do is `Queries` and `Ordering`; that
  `Lake.resume` forgets projections is finding 5.
* Hydration keeps one promise per path; a path is a list or a manifest, never both, so
  the two maps of the code are one here.
* The H3 grid, Turf's predicates and the writer of WKB are external and given by what
  the code relies on.

## 3. Runs

| Run | Instance | What it shows |
|---|---|---|
| `commit_hint` | 2 writers, up to 2 appends each, 3 in all, 2 files an append, a hint | every interleaving of 20 store calls, lost answers and failures: the hint names complete metadata; a rejected append stays invisible; handles hold published states; a commit on the hint it was loaded from loses nothing and publishes its own files only |
| `commit_harsh` | 2 writers, 1 append each, no hint, reused ids, one in-place rewrite | the published table is complete even so |
| `commit_lost` | as `commit_hint` | finding 1 |
| `rest` | 2 writers, up to 2 appends each, one commit of another engine, 3 of all these | the REST protocol implements `AppendTable`; one lineage; manifests before snapshots |
| `reads` | 4 chains of reads, limit 2 | slots, queue and wake-ups agree under errors and aborts; waiters are served |
| `reads_fanout` | 3 chains, limit 1 | finding 2 |
| `task_race` | 2 workers (one in create mode), 2 keys, 2 files, 1 crash, clock to 2 | recorded outputs are complete, in the store and never early; takeovers only of stale tasks |
| `task_retry` | 1 worker, 3 crashes | the task gets done |
| `task_final` | 2 workers, 2 keys | finding 3 |
| `caches` | the four machines below | byte counts and budgets, priorities, coherence, hydration, slices |
| `fan_in` | 6 inputs, 2 at once, buffer 3 | bounds, order, completeness, and the call settles |
| `operators` | the inputs below | the algorithms agree with their definitions |

`caches` picks one of four machines in its initial state (they share nothing, so running
them side by side would only multiply states):

* the object-store cache: 2 calls on one path, 2 writes, object of 2 bytes, range of 1,
  head of 0, budget 2, expiry 1, clock to 2;
* the range cache: 2 slices at once, ranges of 1, 2, 3 and 5 bytes, a budget of 4, an
  entry limit of 3: one range is too large for an entry, two together for the budget;
* hydration: 2 loads of two snapshots that share a manifest, one through a list, one
  inline; one failed call each, aborts, a table made again once;
* slices: two paths, three versions of which two have one size, rows that repeat, slices
  of one and two rows, every combination of DISTINCT, OFFSET, LIMIT, etags, planning
  cache and way of resuming, and two puts or deletes by others at any moment.

`operators` first picks a question, then an input, then answers; its behaviours end
there (hence no deadlock check). The questions and their inputs:

| Property | Inputs | Answered against |
|---|---|---|
| `BatchAgreesWithRows` | about 100 predicates on every column type and each other, NaN and literals finer than a timestamp column among them, batches of two rows, dictionaries | the evaluator on each row |
| `PruningSound` | filters of comparisons with literals on both sides, BETWEEN, IN, NOT, AND, OR; files of two row groups with NULLs, known and unknown null counts; timestamps and texts in ISO form that sort as their instants, or not; indexes; H3 cells | a filter of all rows, however tasks are cut |
| `SpatialAgrees` | points, lines, polygons and boxes on a 3x3 grid, five predicates, three distances; WKB with every header, cut at every length | sets of points |
| `AggregatesMerge` | up to three rows of two keys, eleven aggregates, every division into three tasks | one pass, and the definition of each aggregate |
| `SortAgrees` | three rows of four types, ties and NULLs, five orders, offsets and limits, every cut | a plain stable sort |
| `JoinAgrees` | up to two rows a side, keys that are NULL or agree as text only | pairs of rows whose keys `join.ts` takes for equal |
| `QueryPathsAgree` | two hive-partitioned objects of up to three rows with NULL and NaN, nine filters, projections, DISTINCT, pages, policies | filter, project, tell apart, page |
| `PagesReadBack` | columns of three rows in five cuts into pages, some of dictionary indices, windows | the rows |
| `TextReadsBack` | CSV records of NULL, numbers, booleans and texts that need quoting or look like a number or a boolean; JSON lines in three formats | the records |
| `TableScansExact` | two data files of different partitions and a renamed column, up to two delete files of five kinds, three layouts, three modes, five filters | the deletes' meaning |
| `SqlReadsBack` | expressions of depth two; statements with joins, subqueries, groups | the query |
| `CommandsMeanSql` | tables of up to three rows with NULLs, the statements above | SQL's meaning, pair by pair: a pair joins when the comparison of its keys is true |

Why the bounds are enough to be interesting: two writers with two appends give a stale
handle after a commit of one's own and of the other. Four ids are that of the base and
those of three appends, so each behaviour has room for both appends of one writer and
one of the other's (with `rest`, another engine's commit takes one of the three). With a
fifth `commit_hint` passes too, on 5.3 million states, but `rest` takes more than the
five minutes within which runs are kept. Three ids are enough to reuse one. Four reads
on two slots leave two in the queue while a third party can overtake. Two keys and a
clock of two ticks allow a takeover and a takeover back. A budget of two bytes is
exceeded by an object and a range together. Six inputs and a buffer of three allow two
later partials to wait for the next one. Three rows hold a tie, a NULL and a value
beside them; a batch size of two leaves a batch that is not full; expressions of depth
two are where precedence and three-valued logic first go wrong.

Bounds in the guards: `MaxAppends`, `MaxRewrites`, `MaxEngine`, `MaxCrashes`,
`MaxTime`, `MaxWrites`, `MaxFailures`, `Generations`. Deadlock is checked in all runs
except those of `TaskCheckpoint` and `FanIn`, where the work ends, and `caches` and
`operators`, where queries, loads and questions end.

Exceptions the properties name, each of which a run without it refutes:

* `SlicesReadOnce`: a change of the store between a slice's listing and its last read, one
  that leaves path, size and etag alike, a planning cache, and DISTINCT resumed through
  `Lake.resume`.
* `HydrationExact`: a table made again while an old load reads it.
* `CoherentUnlessOverlapped`: writes that overlap reads.
* `BatchAgreesWithRows`: CASE, all of whose branches a batch evaluates (`HasCase`); rows
  whose NaN is compared by equality or its like (`NaNDiffers`) and rows compared with a
  timestamp finer than the unit of the column (`FinerLiteral`), where the two evaluators
  disagree (section 4).
* `PruningSound`: texts that sort otherwise than the instants they denote
  (`TimesInOrder`), `TurnedAround` (section 4). Its inputs have no NaN in a column with
  bounds.
* `AggregatesMerge`: the row engine resumed after a NaN (`EnginesAgree`).
* `SortAgrees`: rows restored from a bookmark, unless JSON keeps their values
  (`JsonKeeps`): bigints and timestamps are left out. Columnar top-k is stated to refuse
  batches of which a column is of one type in one and of another, all NULL for example,
  in the next (`MixedColumns`), and to answer otherwise.
* `JoinAgrees`: the vector join of a side whose keys are of several types (`mixes`), which
  no vector holds.
* `TextReadsBack`: the empty text, which is NULL; columns of several types; columns whose
  texts all look like numbers or all like booleans (`Mistaken`).
* `CommandsMeanSql`: NULL keys on both sides of ON (`NullKeysMeet`), and NULL keys of an
  IN over a subquery.
* `SqlReadsBack`, `TableScansExact`: `WellBound` and `unnormalised` (section 4).

Fairness. `ReadControls`: each read's continuation runs, and an inner read answers
(`WF` of `Continue`); nobody has to start or abort. `FanIn`: the loop's continuation
runs and every task ends. `TaskCheckpoint`: a run that is not crashed proceeds, and
the queue delivers a task again that is not done; crashes are bounded. These are the
event loop and an at-least-once queue; no fairness is assumed of writers, and the caches
and slices promise nothing that would need it.

## 4. Findings

With a run that shows them:

1. `commit_lost` (`iceberg/src/index.ts:639`). The stale check of `commitAppend` reads
   the metadata file the handle was loaded from, which no append ever rewrites, and the
   etag it passes to the conditional put is read at commit time. It protects only
   against a writer that moves the hint between the two calls: an append from a handle
   loaded before another commit replaces that commit, and both report success.
   `docs/catalogs.md:4` promises compare-and-swap.
2. `reads_fanout` (`core/src/store.ts:375`). A woken waiter increments `active`
   without testing the limit again; a read that started in between has taken the slot.
   The overshoot lasts as long as the reads do; the runs and proofs show that the
   count itself stays right.
3. `task_final` (`core/src/manifest.ts:284`). A worker that read the checkpoint before
   another completed it writes its own earlier state over the complete one.

Without a run of their own (the properties above make room for them by name, or the model
stops where the code does):

4. `iceberg/src/index.ts:1887`. The snapshot posted to a REST catalog has the path of a
   manifest as its `manifest-list`; `loadTable` cannot hydrate the table afterwards
   (`Hydratable` in `RestCommit`).
5. `core/src/manifest.ts:686`. A bookmark keeps neither DISTINCT nor projections, so
   `Lake.resume` continues another query.
6. `core/src/sidecar-index.ts:302`. A literal on the left of an order comparison is
   looked up as if it were on the right, and a file with matches is skipped
   (`TurnedAround`).
7. `sql/src/index.ts:911`. The formatter puts parentheses round the operands of AND, OR
   and NOT only; other text is parsed as another expression (`WellBound`).
8. `parquet/src/index.ts:945`. Position deletes that name files by absolute path match
   none (`unnormalised`).
9. `parquet/src/row-group-pruning.ts:399`. The bounds of a text column are the least and
   the greatest of its texts, but a literal that reads as an instant is compared with
   them as instants. `...00.5Z` sorts before `...00Z` and is later: a group that holds
   both has the bounds `...00.5Z` and `...00Z`, and a query for `...00Z`, which the
   evaluator compares as text, skips it (`TimesInOrder`; met when the proof of
   `DroppedGroupsHoldNoMatch` would not go through without `InTimeOrder`).
10. `core/src/batch.ts:787`. The kernels compare numbers with JavaScript's operators, for
   which NaN equals nothing; the row evaluator gives NaN and any number the order 0
   (`core/src/evaluator.ts:266`), so NaN = x, NaN <= x and NaN >= x are true. The same
   filter keeps or drops a NaN row by the path that reads it (`NaNDiffers`).
11. `core/src/batch.ts:775`. The kernels cut a timestamp literal down to the unit of the
   column (milliseconds, microseconds), the row evaluator compares nanoseconds: t <
   00:00:00.0005 leaves 00:00:00 out of a column of milliseconds (`FinerLiteral`).
12. `core/src/query.ts:2735`. `snapshotValue` puts a bigint into a resumable sort or top-k
   as a number and a timestamp as its text. After the resume such a text stands beside
   timestamps and such a number beside bigints: they are refused, or sort as what they
   have become, and the rows returned are not those that were read (`JsonKeeps`).
13. `core/src/vector-sort.ts:324`. Columnar top-k concatenates what it retained with the
   candidates of the next batch (`core/src/query.ts:1417`), and a column that is all NULL
   in one of them has another vector type: the query is refused by where its NULLs lie
   (`MixedColumns`).
14. `core/src/join.ts:161`. Two NULL keys join. The tests want this of the join itself
   (`core/src/vector-join.test.ts:87`), but a SELECT of the command line runs on it, and
   `docs/sql-dialect.md:183` promises three-valued logic (`NullKeysMeet`).

Not wrong but worth knowing: a CSV that lakeql streams does not say what its cells were.
The reader takes `007`, `1e3` and `TRUE` for 7, 1000 and true where a whole column looks
like that (`csv/src/index.ts:236`, `248`, `253`), and with the header left to "auto" it
reads the header of a table that has only texts as a row (`csv/src/index.ts:177`).

Also met while modelling:

* Commits: without a version hint a rejected append becomes visible to the next load,
  which takes the highest metadata number (`iceberg/src/index.ts:1814`;
  `RejectedInvisible` is checked with a hint).
* Tasks: a stale task in state planned is never taken over, since only running is
  allowed as the target of a stale requeue (`parquet/src/index.ts:371`); a create-mode
  run is blocked by the files of its crashed predecessor with the same key
  (`parquet/src/index.ts:908`); `fanInWorkUnits` waits for ever for an input that is
  `undefined` (`core/src/work-unit.ts:50`), which no caller passes.
* Caches: a get answered before a put and settled after it leaves the old content
  (`core/src/object-store-cache.ts:141`); two misses of one range count its bytes twice
  and never give them back, until a full budget of such bytes leaves the cache holding
  nothing (`parquet/src/range-cache.ts:58`); the planning cache never expires by itself
  (`docs/performance.md:87` speaks of a window the caller's adapter has to give).
* Slices: `slice` lists the objects twice (`core/src/query.ts:1010` and `1018`), and its
  bookmark carries the first listing's fingerprint.
* Tables: delete files are matched by partition, sequence numbers are not compared
  (`iceberg/src/index.ts:1357`); a load that reads while its table is made again caches
  the new table's files under the old one's key.
* Engine: a NaN compares equal to every number where rows are evaluated (finding 10),
  while the bounds that prune are those of the other numbers, so inputs have no NaN in a
  column with bounds; a sum or a mean that is NaN is null in JSON: a resumable
  aggregation refuses the state it wrote (`core/src/query.ts:2657`), a NaN kept by first
  or last comes back as NULL (`core/src/query.ts:2230`), and the partials of tasks
  become null if the caller passes `jsonWorkUnitBoundary` (`core/src/work-unit.ts:89`,
  an option of `parquet/src/aggregate-task.ts:134` and `249` that is not modelled); a
  query with a filter and no SELECT returns the filter's columns only
  (`core/src/query.ts:3213`); a bigint and the text of its digits join
  (`core/src/join.ts:161`); the group limit is not enforced when states are merged
  (`core/src/vector-group-by.ts:462`); an index entry carries nothing that identifies
  the file it describes.

## 5. Proofs

Each theorem holds for every value of the constants that meets the assumptions the
modules state (`CommitAssumption`, `RestAssumption`, `TaskAssumption`,
`CacheAssumption`, `RangeAssumption`, `HydrationAssumption`, `SliceAssumption`, ...: sizes
and bounds are numbers, rows and sizes are given for every version, a slice has at least
one row, "none" is none of the values; TLC evaluates each on the instances) and the
hypotheses listed here, which theorems name in their statements. The invariants
behind them were first run through TLC as invariants of the instances of section 3.

| Module | Theorems | Hypotheses | Inductive invariant |
|---|---|---|---|
| `IcebergCommit_proofs` | `TypeCorrect`, `PublishedIsComplete`, `SequenceNumbersAreDistinct` | none | `Typing`, `Completeness`, `Numbered` |
| | `HandlesArePublished` | the table has a hint at the start | `OnHint` |
| | `RejectedStaysInvisible` | a hint at the start, fresh ids | `IdsApart`, `Pending`, `NoneRejected` |
| | `CommitsPublishTheirOwn`, `FreshCommitsKeepAppends` | fresh ids, no in-place rewrite | `Owned` |
| `RestCommit_proofs` | `SnapshotsAreOneLine`, `ManifestsPrecedeSnapshots`, `ReportsAreComplete`, `RestImplementsAppendTable` | none | `Safe` |
| `TaskCheckpoint_proofs` | `OutputsAreWritten`, `TakeoversAreOfStale` | none | `Safe` |
| `ReadControls_proofs` | `NoSlotLeaks`, `NoWakeUpLost`, `QueueHoldsWaiting`, `AbortStopsAllReads` | none | `Slots` |
| `FanIn_proofs` | `FanInIsBounded`, `FanInWaitsForNext`, `FanInIsComplete` | none | `Sound` |
| `Caches_proofs` | `CacheStaysInBudget`, `CacheIsCoherent`, `RoomIsMadeLowestFirst` | none | `Safe` |
| | `RangeCacheStaysInBudget` | none | `RangeSafe` |
| | `HydrationIsExact` | none | `HydrationSafe` |
| `SliceResume_proofs` | `SlicesAreOneReading` | none | `SliceSafe` |
| `Statistics_proofs` | `DroppedGroupsHoldNoMatch`, `SatisfiedGroupsMatch`, `ListsDropNoMatch` | `Recorded`, `InTimeOrder` | |
| | `RangesDropNoMatch` | the same; both bounds read as instants or neither does | |
| | `FiltersKeepAnswers` | the same of every comparison (`Described`); none is refused | |
| | `ComparisonsTurnRound` | none | |

Where the hypotheses come from. A hint at the start: without one a rejected append does
become visible (section 4), so the property is false. Fresh ids: the ids the code draws
are random in 2^53; only a caller who passes `nextSnapshotId` can repeat one, and then a
writer's metadata file can be overwritten by another's between its two puts. No rewrite:
a file rewritten in place under a handle makes the base of an append differ from what
the hint shows, and no operation of this repository rewrites one; the model's rewrite
stands for another engine. `Recorded`: bounds are those of the column's values, which
have one type, and a null count of zero is true, which is what a writer of Parquet
promises. `InTimeOrder`: finding 9. `SatisfiedGroupsMatch` and its half of
`RangesDropNoMatch` also ask that a cell compared with a timestamp denote an instant: the
evaluator refuses another one, and a scan that does not test the rows does not notice.
Bounds of which one reads as an instant and one does not are left out of
`RangesDropNoMatch` since JavaScript then compares a text with the text of a timestamp,
which the model's keys do not have.

How the arguments go:

* Lemmas on `IcebergMetadata` come first: a bounded set of numbers has a maximum (by
  well-founded minimality, no induction), new entries are numbered above everything in
  the base, `NextMetadata` keeps metadata well typed (what the REST proofs need, too)
  and well numbered.
* `TypeCorrect` is not inductive alone: a commit writes the metadata its writer carries,
  so `Typing` adds that a writer past the load holds a path and a base (`Loaded`) and one
  past `Begin` an id and the metadata it is to write (`UnderWay`).
* The hint names complete metadata because of what is known of the metadata about to be
  written: `Completeness` says that every metadata file in the store has its manifests
  (`Manifested`), that a writer at each step has put what comes before it and that its
  next metadata extends a base whose manifests are there (`InOrder`), and that the hinted
  file exists (`HintThere`). It holds with reused ids and rewrites since the catalog
  never deletes.
* Sequence numbers: metadata in the store, in handles and on the way is well numbered
  (`Numbered`); one append step keeps that by the lemma.
* A rejected append stays invisible because of whose ids metadata carries: an append
  under way has an id to itself, not yet published (`IdsApart`), a call has one outcome,
  from its own writer (`Pending`), and neither a published metadata file nor a base
  lists an append that was rejected (`NoneRejected`). What makes it inductive is that
  the file a commit publishes is read again from the store, where its id is its own.
* The two action properties rest on `Owned`: a writer's etag is the etag of the hint it
  saw (`EtagTellsHint`), and the metadata under the id it is about to publish is what it
  put there (`HandleKept`). The conditional put then succeeds only where the hint is
  still the one that was seen.
* REST: `OwnIds` keeps ids of appends apart although requests outlive their calls;
  `Answered` follows each append through its request, whose fate is known to the writer
  or not (`Unposted`, `Posted`, `Told`); `Lineage` is the line of snapshots with the base
  of every append on it; `Ordered` puts the manifest before the request; `Contents` says
  that the files a metadata file lists are those of the line that ends at its snapshot.
  The refinement maps a snapshot's arrival at the server to `TakeEffect` and the writer's
  end of a call to `Answer`; every other step is a stutter.
* Tasks: what a checkpoint or a worker's copy of one records is tied to the files of its
  key that are in the store, in every state of every run; files are never deleted.
* Read controls: the count is the number of holders, the queue holds the waiting reads
  once each, and a queue that is not empty implies that holders and woken reads fill the
  limit.
* Fan-in: what is started and not reduced is running or buffered (or failed), and while
  the loop waits the next input is among the running ones.
* Object-store cache: the loops of the class (sum, delete by path, evict) are recursive functions on
  an initial segment of the naturals. That such a function exists, and that a set of
  naturals closed under successor holds them all, is proved first (`LoopRuns`,
  `Induction`, again from well-foundedness: no operator parameter). Each operation is
  then described by the set of entries it leaves (`DeleteDrops`, `InvalidateDrops`,
  `EvictFits`, `SetFits`): n turns of the eviction loop leave the count in the budget or
  n entries fewer, so it ends within it. On top of these, `AnswersCurrent` (an answer on
  its way is the content, unless its path is overlapped) is what makes `EntriesCurrent`
  inductive.
* Range cache: a range that a second miss answers is among those the budget already
  holds, so its length is at most what they sum up to (`PartOfTotal`), and what is counted
  for nothing stays within the budget with it. Eviction takes a prefix; a cut divides the
  sum (`TotalCut`), so with nothing left only that waste is counted and the loop always
  stops within the budget (`RangeEvictKeeps`).
* Hydration: a promise that is held holds the generation its load began with, and the
  shared cache holds of a generation what that generation wrote, unless it is among
  those a load mixed; a snapshot that waits has its promise in the map.
* Slices: listing, the rows of a listing and DISTINCT are loops, here recursive functions
  on `0 .. n`. Each has one history (`HistoriesAgree`), so what it returns for a part of
  its input begins what it returns for the whole (`RowsOfPart`, `DistinctBegins`), and
  therefore so does an answer with OFFSET and LIMIT (`AnswerBegins`). The invariant then
  follows a slice: plan and bookmark have the fingerprint of the first slice's listing,
  and as long as no change went unseen the store lists the same while a slice reads
  (`Planned`); what is read is the rows of the part of that listing that is no
  longer queued (`ReadSoFar`); and the rows delivered are those before the bookmark's
  offset (`Delivered`). `DeliverStep` joins two adjacent stretches of one answer. That a
  slice may stop before the end of its listing is right because the answer it has then
  already fills its LIMIT, or holds one row more than the slice gives out.
* Statistics: whether a cell and a literal are compared as numbers, as text or as
  instants, the cell lies between its bounds in the order that pruning uses
  (`CellBetweenBounds`); each operator then follows from three signs. With `Scalars` for
  every value the engine has, all types and NULL meet all others.
  `FiltersKeepAnswers` puts these answers under `Connected`, the connective of both
  `MayMatch` and `MustMatch`, and compares what comes out with the result the evaluator
  gives the filter (`LogicalResult`): any number of comparisons on any columns, two levels
  of AND and OR, so every filter in disjunctive or conjunctive normal form. An induction
  over the shape of a filter is not available here; `PruningSound` runs NOT, IN, BETWEEN
  and tests for NULL beside them.

`QueueHoldsWaiting`, `FanInWaitsForNext`, the theorems on statistics and the hypotheses
above aside, each theorem states a property a run checks. Of the properties of state
machines only liveness is left without a theorem.

Model-checked only:

* liveness (`WaitersServed`, `TaskCompletes`, `Settles`), which needs fairness and
  ENABLED;
* everything `operators` checks: recursive operators, and induction over data.

## 6. Not modelled

* Bytes: codecs, Thrift, Avro and Arrow encodings, signing, HTTP, characters of SQL and
  JSON, formatting of numbers and dates, regular expressions: values TLC cannot
  enumerate, and no state.
* Pass-through operations (`list`, `head` of uncached stores), the remote and local
  stores themselves (one request an operation), adapters of the runtime. Spilled runs:
  a map of buffers and a counter that only a caller's release shrinks.
* The configuration request of the REST catalog; table listing.
* Output manifests and the signature of pagination tokens: one pass over checkpoints that
  no longer change, and one call of the host's cryptography.
* The metadata and decoded-column caches, which hand entries to `SharedMemoryCache`
  under keys of path and etag.
* Budgets in rows, bytes and milliseconds of a query: they stop it with an error and
  change no result.
* Floating-point rounding: sums and averages are exact in the model.

## 7. What is left

The components that keep state or decide results are modelled, and the safety properties
of the state machines are proved. A next step would be a run of its own for finding 9 and
for a NaN in a pruned column, once the code says which of the two orders it means.
