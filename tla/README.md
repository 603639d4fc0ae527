# TouchHouse, verified

TouchHouse is a column-oriented SQL server written in Rust. This directory holds
TLA+ modules that model it, TLC configurations that check them on small instances, and
proofs that TLAPS checks for all instances. File names of the code are relative to
`src/src/` of the repository unless they start with `src/`.

## 1. The system

| Component | Code | State it keeps | Operations |
|---|---|---|---|
| Table parts | `storage/table_part.rs`, `storage/tables/native.rs` | part directories `<table>/<uuid>`, `<uuid>.old`, `raw/<uuid>`; `TABLE_DATA[table].infos` in memory | INSERT writes a part, SELECT scans them |
| Background merging | `background_merge.rs` | `PartsToMerge` of the merge thread | take the two oldest parts, load, combine, save, move |
| Catalog | `sql/execution/{create,drop}.rs`, `storage/table_metadata.rs`, `lib.rs` | `TABLE_DATA` (a DashMap, one lock per shard), database and table directories, `.metadata` files | CREATE/DROP DATABASE/TABLE, start-up |
| Scanning | `storage/tables/*.rs`, `sql/execution/select/strategy.rs` | the loaded granule of a scan, rows read | next chunk, column of the chunk, stop early |
| SELECT execution | `sql/execution/select/*.rs`, `sql/compiled_filter.rs` | columns or groups collected so far | filter, aggregate, order, cut |
| Engines | `engines/*.rs` | none | order and deduplicate the rows of a part or an answer |
| SQL planning | `sql/logical_plan/*.rs`, `sql/sql_parser.rs` | none | check statements, fill in defaults, choose columns |
| Values | `storage/value.rs` | none | type literals, compare, hash, serialize |
| Command runner | `sql/command_runner.rs`, `runtime_config.rs` | `DATABASE_LOAD`, `ComplexityGuard` | plan, count the load, execute, give the load back |
| Server | `main.rs`, `lib.rs` | connection permits, one task per connection | accept, execute, answer, hang up |
| Protocol | `tcp_io_parser.rs` | the receive buffer of a connection | decode frames, encode answers |

**How they meet.** There is one tokio task per connection, one blocking thread per running
command, and one merge thread. They share `TABLE_DATA`, `DATABASE_LOAD` and the
file system. An INSERT holds the write lock of the table's shard from before it names its
part until the part is published; a SELECT holds the read lock for the whole of its scan;
a merge holds the read lock while it looks for parts and while it loads each of
them, nothing in between, and the write lock for its renames. CREATE TABLE holds
a vacant map entry, which is a write lock, until the directory and the metadata are
written. DROP TABLE takes the write lock, lets it go, removes the entry and then
removes the directory without a lock.

**What is hard.** The steps of a merge against INSERTs and SELECTs; what a crash or a
failing rename leaves behind, in memory and on disk; error paths that hold locks;
start-up on whatever the last run left; DROP against CREATE, INSERT and merges;
scans that stop early over granules of uneven length; groups, orders and duplicates over
several chunks and parts; comparison with NULL; streams cut anywhere, clients that finish
or leave at any moment, and permits and load that must survive errors and panics.

**What makes each part correct.**
- Parts and merging: an acknowledged INSERT is never lost and never counted twice, a
  failed one is never seen, a SELECT sees an instant of the table, merging
  is invisible and ends, every command is answered. (Findings 1 to 3 of section 4 are where
  the code falls short of it.)
- Catalog: memory and disk hold the same tables, no table replaces another, no dropped
  table comes back, start-up succeeds on what commands leave behind; where a removal
  fails or a DROP is overlapped, exactly that is what differs.
- Scanning and SELECT: the answer is the one SQL allows.
- Engines: MergeTree keeps every row whole, ReplacingMergeTree keeps one row of each
  primary key, the last by the ORDER BY columns and, among equals, the newest. That is
  the newest of the key only where ORDER BY has no more columns than the key (section 4, `NewestOfEachKey`).
- Planner: no statement gets through that the executor would answer with less than asked.
- Server and protocol: permits and load are given back whatever ends a connection or a
  command, frames are cut where they were announced, commands are answered one by one and
  in order; an answer or a permit stays away only behind a command that does not end, a client
  that does not read, or one that stays connected and is silent.

`PROJECT.json` lists every hazard with its line in the code under `hazards`.

## 2. Modules

| Module | Models | State and actions |
|---|---|---|
| `Granules` | marks, granules, and how `advance_chunk_metadata` walks them; `MergeRead`, the closed form of what a merge reads of a part | operators only |
| `PartStore` | one table: parts, clients, merge thread, failing calls, crashes, start-up | `infos` is the list in memory; `normal`, `old`, `raw` are the three kinds of directory; `writer` and `readers` the shard's lock; `pc`, `mpc` the positions of the clients and the merge thread. One action per lock request, file-system call or answer, with a `...Fails` twin where the call may fail |
| `PartStoreInvariant` | the inductive invariant `IInv` of PartStore | |
| `TableService` | what a table promises its clients: an INSERT takes effect at an instant, a SELECT answers from one | `batches`, `call`, `result` |
| `PartStoreRefinement` | the mapping under which PartStore implements TableService | a part counts for the INSERTs it stands for |
| `Catalog` | which tables exist: entries, databases, directories, metadata | `entry`, `lock`, `databases`, `dir`; CREATE in four steps, DROP in its halves with `remove_dir_all` entry by entry, INSERT and merge as far as they touch the directory; every removal may fail and leave what it has not removed; `overlapped` records the tables that were created while a DROP was past its removal of the entry, or written by a merge that found its parts before that removal, `leftover` those a failing removal left a directory of |
| `TcpParser` | framing: `from_le_bytes`, `decode`, the sum that may overflow | operators only; `Radix` is 256 and `HeaderSize` 8 in the code |
| `Server` | `main.rs`, `accept_conn`, `handle_connection`, `execute_command` with the load | `permits` is the semaphore, `acceptor` the main loop, `task[c]` where the task of a connection stands, `buf` its receive buffer, `load` is `DATABASE_LOAD`; `peer`, `wire` and `inbox` are the client and the network, which are external |
| `Dialogue` | what a connection promises its client, without bytes, permits and threads | `asked`, `taken`, `answers` |
| `TableScan` | one scan call by call, over a table, over a nested SELECT's result, or for a merge | `stand` is `loaded_chunk`, `linesRead` is `Strategy::lines_read`, `out` the collected rows, `fill` the length of a projected literal's column |
| `Values`, `Scans` | literals and comparison; keeping some rows of many, in their order | operators only |
| `Filter` | WHERE: an expression is the sequence of its nodes, each after its operands; it is compiled node by node, and the mask of the compiled nodes is taken on a granule buffer | operators, with what the expression means (`Holds`) beside them |
| `Engines` | `order_columns` of both engines, the permutation in place, the removal of duplicates | operators only |
| `Query` | CREATE TABLE with columns, constraints, options and keys, INSERTs and one SELECT in values: planner, engines, scan, aggregation, ORDER BY, LIMIT | `table` is the metadata, `parts` the stored rows, `values`/`groups` the aggregator, `output` the columns of the answer |
| `..._proofs` | the proofs of section 5, one module per component; `Lists_proofs`, `Granules_proofs` and `Rows_proofs` hold what several of them rest on | |
| `MC...` | instances for TLC: sizes, stamps, statements, symmetry | |

PartStore, TableScan and Query look at the same code from three sides: PartStore has the
interleavings and failures and takes a scan as a walk over parts; TableScan has the calls
on a storage and takes WHERE as a set of rows; Query has the values and one
client. They share `Granules` and `Scans`. TableScan justifies an abstraction of
PartStore: its invariant `LoadIsMergeRead`, which is proved, shows that the calls `load_part_cols` makes
return exactly `MergeRead`, which is what PartStore's merge uses. Catalog has many tables
and no rows. Server takes what a command does as a result, an error or a panic, which is
what the others show a command to end in; the load it keeps is the one behind the gate that
PartStore's `MergeGate` passes only while few commands run. A command need not end there, because
findings 3 and 5 are ways in which one does not.

What the models leave out: bytes, checksums, compression and memory maps (a file is
whole or absent); the bits of numbers; text parsing (the sqlparser crate). A table is
taken to be in a shard of its own. Every INSERT's name is distinct and grows with the
time it was taken under the lock, as `Uuid::now_v7` promises; `Stamp` gives the millisecond in it,
the only part the merge compares, and may repeat.

## 3. Runs

| Run | Shows | Bounds, and why they are enough |
|---|---|---|
| `parts_safety` | with any two failing calls and a crash anywhere: types, `IInv`, no acknowledged INSERT without a directory, none stood for twice, no failed INSERT visible, `.old` emptied only when replaced | 2 clients, 3 INSERTs, two of them in one millisecond, granules of 1 row and parts of 1 and 2. Three parts give a merge of a merged part; two faults give every failing undo |
| `parts_service` | memory names exactly the directories whenever the lock is free, merging keeps the parts in order of age, a SELECT reads all that was acknowledged before it, and PartStore implements TableService | 2 clients, 3 INSERTs, two of them in one millisecond, 2 faults of all kinds except a failing publication and a failing undo, without crashes: TableService has no crash, and after those two faults the code hangs or asks for repair by hand. That memory names the directories after a crash as well is what the proof of `MemoryIsDisk` shows |
| `parts_live` | every command is answered, except commands behind a merge thread that waits for its own lock (finding 3), and INSERTs kept off by SELECTs that read and overlap for ever; a table left alone ends up with one part, unless the merge thread ended over a part of one granule (finding 1), waits for its own lock, or a `.old` directory is in the way | 3 clients, so that two SELECTs may overlap while an INSERT waits; `Inserter` lets one of them send the INSERTs, as several that wait are told apart by nothing but who is first; 3 INSERTs, parts of one granule and of two; 1 fault, a failing publication or removal, the two after which the code does not try again |
| `catalog_commands` | two clients creating and dropping, one inserting, the merge thread, metadata writes, clean-ups and removals that fail, and a crash anywhere: no entry is replaced by another table's; between commands memory and disk agree on every table but those that a DROP overlapped, and those of which a removal failed, which have no entry and keep a directory; no INSERT revives a dropped table; start-up is refused only after a kill inside a CREATE or DROP, or for a directory that a failing removal or an overlap left without metadata; every command is answered, whichever of its calls fail | 1 table, 2 CREATEs, 1 INSERT, 1 merge, 1 crash: every overlap is between two commands, or a command and the merge, on one table; the proofs of section 5 have no bounds |
| `connections` | permits and load are conserved, every connection implements Dialogue; a command stays unanswered only behind a command that does not end or a client that does not read; a connection is never accepted only if all permits stay with connections that are served; a connection keeps its permit for ever only behind such a command, such a client, or a client that is connected and silent | 2 connections over 1 permit, one of which sends 2 commands ahead; a header of 2 bits, so that the stream is cut at every place and the size that overflows exists; 1 failing accept; a window of 1 answer, so that a task meets a full network |
| `scan_exact` | SELECTs with every LIMIT, OFFSET, order and filter over up to three parts, and short nested SELECTs, return exactly the rows asked for; a projected literal is as long as the other columns where parts are whole granules; LIMITs up to `usize::MAX` are answered; loads for a merge return `MergeRead`; scans of a table end | granules of 2 rows, parts of 1 to 4: empty, short, full and two granules; `usize::MAX` is 15 |
| `query_answers` | statements compared with SQL in values; engines; planner; several ORDER BY lists; commands panic only over NULLs in an ORDER BY column, an OFFSET that overflows, and columns WHERE cannot find | 16 CREATE TABLEs, of which 12 are refused for a key, a column, a constraint or an option; 9 INSERTs of which 4 are refused and 2 hold NULLs, at most 2 in a table and 5 rows; granules of 2 rows, so that groups and filters cross granules and parts; 189 SELECTs with every comparison, constants on both sides of AND and OR, five aggregates, four groupings, OFFSETs at `usize::MAX`, which is 9 |
| `parts_rows` (violation) | merging loses rows: see finding 1 | 3 INSERTs of one row, no fault |
| `parts_atomic` (violation) | finding 2 | 2 INSERTs, 1 crash |
| `parts_rollback` (violation) | finding 3 | 1 client, 1 failing publication |
| `catalog_race` (violation) | finding 4 | 2 clients on 1 table, no fault |
| `scan_forever` (violation) | finding 5 | a nested SELECT of two full granules |

Deadlock is checked where the system runs on for ever (`parts_service`,
`parts_rows`, `parts_atomic`). The other configurations stop: a scan and a query are one
command; the catalog's bounds run out, and so do the clients of `connections`; in
`parts_safety` a last crash may find no command left, and in `parts_rollback` and `parts_live`
a merge thread may wait for itself. The liveness properties say that nobody is left waiting where these stop.

**Fairness.** A thread that can go on does so in the end: they are operating-system threads.
A lock request that finds the lock free again and again is granted in the end:
the lock keeps no queue, and that a thread is not passed over for ever is the assumption here.
Strong fairness of the steps of a thread says both, because a thread stays at a step until
it takes it. The merge thread of Catalog needs none.
Nothing keeps readers from overlapping for ever while a writer waits: then the lock is never
free for the writer, strong fairness says nothing, and the INSERT is the exception that
`CommandsAnswered` of PartStore names. The same holds of a lock that a hanging merge thread
never gives back.
In `connections` the runtime polls the main loop and the task of every connection that can go on,
and bytes that were sent arrive; `accept` works in the end, because only `MaxFaults` calls fail.
No fairness is assumed of the command on its blocking thread, which need not end (findings 3 and 5), nor
of a client's asking, reading its answers, finishing or leaving, of failing calls, or of
crashes.

**Mutants.** Every property of a passing run has a mutant in `PROJECT.json`: a plausible
bug in one mapped definition (an operator named `<definition>_<what>` in the same
module) under which TLC finds the property violated.

## 4. What the code does not keep

1. *Merging loses rows* (`parts_rows`). `load_part_cols` opens a storage that already stands
   on granule 1 and calls `load_next_chunk` before it reads, so that each part's first
   granule is skipped and, after the last, the next listed part's first granule is read in its
   place. The sources are then removed. For a part listed last there is no next granule:
   with several granules the last one is read a second time, and with only one nothing was
   loaded, so that the access panics and ends the merge thread (`MergeReadPanics`).
2. *The move is not atomic* (`parts_atomic`). After a crash between the renames the rows of
   an acknowledged INSERT are only in `.old`, which start-up skips, and in `raw`, which
   start-up deletes. They are not lost from the disk until then: `AckedCovered` is proved.
3. *No rollback* (`parts_rollback`). When `move_to_normal` fails, the error branch asks
   for the lock its own thread holds; the merge thread and the shard hang.
4. *DROP against CREATE* (`catalog_race`). A CREATE between the removal of the entry and of the
   directory ends with an entry without a directory, or fails without a reason.
5. *Nested SELECTs that never end* (`scan_forever`). Over two full granules or more,
   `VirtualStorage` starts again from the first.
Further observations. Where an item begins with a property, it is defined in the module, is violated
when it is added to a configuration, and is kept out of the runs so that the list of runs stays one per
question:
- `PartStore!MergerRuns`: the panic of finding 1 ends the merge thread.
- With equal milliseconds the comparison of names (`background_merge.rs:305`) answers `Less`
  both ways. The merge may take such parts in either order, and under either name; `PartsInAgeOrder` is
  stated, and proved, for that. An order that contradicts itself is also one over
  which Rust's sort may panic; the model takes the sort to return.
- A `.old` directory that could not be removed blocks every later merge into its name: an exception
  that `MergesConverge` names (`MergingEnded`), with the ends of findings 1 and 3.
- `TableScan!CountExact`: `SELECT count(x) ... LIMIT n` stops reading after a chunk of n
  rows, and counts only what it read.
- `TableScan!ColumnsAligned`: a projected literal yields 8192 values for every chunk,
  whatever its length. `LiteralAligned` is what holds: it does no harm where every part read
  consists of whole granules.
- `TableScan!NestedNeverPanics`: a granule of a nested result is sliced in full, past the end of
  the result when the last one is short. With finding 5, and as a scan goes on until it has
  kept enough rows, only nested results of no rows, or of exactly 8192 of which enough are kept, are
  answered.
- `Catalog!StartsAgain` and `Catalog!PartsMatchSchema`: a kill inside CREATE or DROP makes the
  next start fail; an INSERT planned against a table that is dropped and created again writes
  the old schema's columns. A merge that found its parts before a DROP revives the
  directory; `OnlyOverlapsRevive` and `DisagreementExplained` say exactly when that, and
  finding 4, can happen.
- `remove_dir_all` may fail in both DROPs and in the clean-up of a CREATE (`create.rs:68`): the entry
  is gone, the directory stays wholly or in part, a CREATE of the name fails from then on, and
  without `.metadata` the next start is refused. `DisagreementExplained` and `RefusalExplained` name these tables.
- `Query!FilterReadsItsColumns`: a compiled WHERE holds indices of the schema and uses them
  on the columns that were read. `SELECT name, age ... WHERE id > 2`
  (`src/test_queries.sql:6`) filters on `name`; an index past the selected columns panics.
  Instance: `MCQuery!DocumentedSelects` for `Selects`.
- `Query!NewestOfEachKey`: `src/docs/arch.md:60` and `engines/replacing_merge_tree.rs:10` say that
  ReplacingMergeTree replaces rows of one primary key by the newest. The code sorts by all ORDER BY
  columns and keeps the last row of each key: with `ORDER BY (k, n)` and `PRIMARY KEY (k)`, of (1, 2)
  and then (1, 1) the older row stays. `LastOfEachKey` says what is kept, which is the newest only
  where the ORDER BY has no more columns than the key.
- `Query!InsertsNeverPanic`: NULL beside a value in an ORDER BY column panics.
  `PanicsExplained` says that nothing else does, but for the item before and an OFFSET that overflows. It is
  about the statements of `Query`, of columns and aggregates: a projected literal that is filtered over a short granule
  panics too (`TableScan!ColumnsAligned`).
- `ORDER BY a, b` orders by `a` and then, unstably, by `b` alone (`OrderedByLast`);
  `ORDER BY (a, b)` is what orders by both. HAVING is ignored. ORDER BY on an aliased column is
  an error, because the aggregator drops the alias. The planner does not look at DISTINCT, LIMIT BY or FETCH,
  nor at DESC and NULLS FIRST in an ORDER BY (`sql/logical_plan/select.rs`): they are accepted and change
  nothing. The statements of `Query` do not have them, so that no property speaks of them. An aggregate other than count fails on
  NULL. Without any group an aggregate's column is named after its argument.
- `NOT NULL DEFAULT NULL` is accepted and stores NULL, and `PRIMARY KEY (k, k)` is accepted
  although a comment (`sql/logical_plan/create_table.rs:198`) says duplicates are refused.
- LIMIT plus OFFSET, and an announced body size plus the header, are added with overflow
  checks on: the first ends the command, the second the connection, in a panic. Both are
  caught (`LargeLimitsAnswered`, `PanicsExplained`, `PermitsConserved`).
- A permit is held as long as the client stays connected, idle or not; as long as it does not read
  its answers; and as long as its command runs, also when it has left, which with finding 3 or 5 is
  for ever. `PermitsComeBack` says that there is no further reason, `WaitingIsAccepted` that
  nothing but permits in use keeps a connection from being accepted.
- Merging waits while the load is at the gate or above. `LoadIsRunning` says that no command that
  ended counts; commands that overlap without a pause, two SELECTs by default, or that never end (finding 5),
  keep merging off for as long. The merge thread always looks at the first table that has two parts, and a table whose merge
  fails every time keeps the others from being merged (`background_merge.rs:103`).
- Nothing is synced. After a power failure a torn column file is noticed when it is
  read (its CRC), a torn `part.inf` makes start-up skip the part with a warning, and a torn
  `.metadata` makes start-up fail.

`AnswerIsSQL` and `GroupsAreExact` are therefore stated for the queries that the
definition `Dependable` describes: WHERE finds its columns, at most one ORDER BY list,
no LIMIT on a single aggregate.

## 5. Proofs

Every theorem is for all values of the constants: any number of clients, INSERTs, tables,
connections, parts and rows, any granularity, and as many failing calls and crashes as the
faults allow.

| Module | Theorem | Says |
|---|---|---|
| `PartStore_proofs` | `Invariance` | `Spec => []IInv` |
| | `TypeCorrect` | `Spec => []TypeOK` |
| | `AcknowledgedStaysOnDisk` | `Spec => []AckedCovered`: an acknowledged INSERT has a complete directory |
| | `NoInsertTwice` | `Spec => []EachInsertOnce`: no two part directories stand for one INSERT |
| | `OldKeptUntilReplaced` | `Spec => OldRemovedOnlyWhenReplaced`: a `.old` directory is emptied only when a part stands for it |
| | `FailedStaysInvisible` | `Spec => []FailedNeverVisible`: an INSERT that answered an error is in no part, neither by itself nor carried there by a merge |
| | `MemoryIsDisk` | `MemoryKept => (Spec => []MemoryMatchesDisk)`: while nobody writes, the list in memory names the part directories, each once |
| | `MergingKeepsAgeOrder` | `MemoryKept => (Spec => []PartsInAgeOrder)`: all that is in a part is older than all that is in a part of a later millisecond, however many names share one |
| | `SelectReadsAcked` | `MemoryKept /\ NoCrash => (Spec => []ScanCoversAcked)`: a SELECT reads all that was acknowledged when it was issued |
| | `PartsAreInvisible` | `MemoryKept /\ NoCrash /\ PublishKept => (Spec => ImplementsService)`: every step is one step of the table without parts, locks and merging, or a stutter |
| `TableScan_proofs` | `AnswersAreExact` | `Spec => []AnswerExact`: a scan answers the rows asked for, wherever it is cut and however early it stops |
| | `LoadsAreMergeRead` | `Spec => []LoadIsMergeRead`: the calls that load a part for a merge return the closed form PartStore uses |
| | `LiteralsAreAligned` | `Spec => []LiteralAligned`: over whole granules a projected literal is as long as the other columns |
| | `ScanTypes` | `Spec => []TypeOK` |
| `Catalog_proofs` | `TypeCorrect` | `Spec => []TypeOK` |
| | `NoTableReplaced` | `Spec => EntryNeverReplaced`: two CREATEs of a name never both succeed without a DROP between |
| | `OnlyMergesRevive` | `Spec => OnlyOverlapsRevive`: a removed directory comes back only through CREATE or an overlap with a DROP |
| | `DiskAgrees` | `Spec => []DisagreementExplained`: when nothing runs, memory and disk hold the same tables with the same schemas, but for such overlaps, and for tables of which a removal failed: those have no entry and keep a directory |
| | `RefusalsExplained` | `Spec => []RefusalExplained`: start-up fails only after a kill inside a CREATE or DROP, or for a directory that a failing removal or such an overlap left without metadata |
| `Server_proofs` | `PermitsNeverLost` | `Spec => []PermitsConserved`: every permit is free, with the main loop, or with one served connection |
| | `ServedAtMostMax` | at most `max_connections` connections are served |
| | `LoadNeverLeaks` | `Spec => []LoadIsRunning`: `DATABASE_LOAD` is the complexity of the commands that run |
| | `QuietOpensGate` | when no command runs the gate of merging is open |
| | `ServerTypes` | `Spec => []TypeOK` |
| | `StreamsAreDialogues` | `Spec => ImplementsDialogue`: wherever the stream is cut, every step takes up the next command that was asked, answers the one taken up last, hangs up on a client that said exit, finished or left, or is invisible |
| `Query_proofs` | `SelectAnswersSQL` | `Spec => []AnswerIsSQL`: a SELECT without aggregates answers what SQL says, row by row |
| | `GroupsAnswerSQL` | `Spec => []GroupsAreExact`: one row for every key, each over exactly the rows of that key |
| | `LastListOrders` | `Spec => []OrderedByLast`: of several ORDER BY lists the last one decides alone |
| | `NothingIsDropped` | `Spec => []EveryItemAnswered`: the planner refuses what the aggregator would drop |
| | `PanicsAreExplained` | `Spec => []PanicsExplained`: INSERTs panic only over NULLs in an ORDER BY column; SELECTs of columns and aggregates only there, over an OFFSET that overflows, and over columns WHERE cannot find |
| | `PartsKeepRows` | `Spec => []RowsStayWhole`: a MergeTree part has the rows of its INSERT, whole and each once, sorted |
| | `PartsKeepLast` | `Spec => []LastOfEachKey`: a ReplacingMergeTree part has one row of every primary key, the last by the ORDER BY columns and, among equals, the one given last, for all keys CREATE TABLE accepts |
| | `TypeCorrect` | `Spec => []TypeOK`: stored values have their columns' types |
| | `StoreIsInvariant`, `AnswerIsInvariant`, `AnswersByLast` | the invariants behind them |
| `Rows_proofs` | `PermutationApplied` | following the cycles of any permutation by swaps puts every element in its place |
| | `MergeTreeOrders` | `order_columns` of MergeTree permutes all columns by one sorted order |
| | `ReplacingKeepsLast` | `order_columns` of ReplacingMergeTree keeps, of the rows as it sorts them, the last of every primary key, and no other, if the primary key begins the ORDER BY |
| | `FilterKeeps` | the mask of a compiled WHERE is the rows the expression holds for, whatever constants were folded |

Three modules hold lemmas these rest on. `Lists_proofs` is about sequences, flattening and
counting, and knows nothing of the server. `Granules_proofs` is about lists of parts
and about granules: each row of a part is in exactly one. `Rows_proofs` is about the pure
algorithms on rows, the filter and the engines.

**Assumptions.** `PartStoreAssumption` (the bounds are numbers, the roles are distinct,
stamps grow with names), the one of `Granules` (`Granularity` is a positive number),
`CatalogAssumption`, `ServerAssumption`, `TcpParserAssumption` (bodies fit their header) and
`TableScanAssumption`: a list of parts names each once, which is what `MemoryIsDisk` proves; no
part is empty, as an INSERT has rows; queries are of the shape the planner builds; and the bound
on collected rows, which is the model's only, is larger than what a scan that ends collects.
`QueryAssumption` says what the parser delivers: statements have their clauses, SELECTs have an
item, expressions are well founded, LIMIT and OFFSET are from 0 to `usize::MAX`.
Four theorems of the part store say what else they need: `MemoryIsDisk` and
`MergingKeepsAgeOrder` the first of these, `SelectReadsAcked` the first two,
`PartsAreInvisible` all three:
- `MemoryKept`: neither a rename back nor the loading of a part at start-up fails. Each of the
  two is answered by a log line only, and leaves a directory that memory does not name or a
  part that stands in `.old`; without it `MemoryMatchesDisk` is false.
- `NoCrash`: finding 2 is that a crash may hide acknowledged rows from every later SELECT.
- `PublishKept`: the rename that publishes a merged part does not fail. Finding 3 is that
  the error branch then waits for its own lock with both sources shelved.

**The part store.** `AckedCovered` alone is not inductive: whether a rename loses an INSERT
depends on what the merge thread holds. `IInv` adds
- `LockInv`: who writes holds the write lock. It makes the steps of INSERTs and of a move
  exclude each other, so that a fact about the directories established under the lock
  holds until the lock is given back;
- `NameInv`: names in use were handed out, and directories that exist stand for something;
- `FreshInv`: a part being inserted is new to every directory and to the merge;
- `MergeInv`: at each step of a merge, what the loaded data and the raw directory stand for
  is what the two sources stand for, wherever they are at that step. It is what makes the two
  removals safe;
- `ApartInv`: between the renames and the publication, the shelved parts share nothing with
  the parts in place, which keeps `EachInsertOnce` when the merged part appears;
- `PromiseInv`: what is acknowledged, or about to be, stands in some directory.

`MergeInv` holds across the gap in which the merge holds no lock because only merging
removes parts, and there is one merge thread: INSERTs only add directories with new names.
There is one lemma per action (`InsertPublishInv`, `MergeRename2Inv`, ...), each by the
conjuncts the action can disturb; `NextInv` collects them. TLC checks `IInv` as an
invariant of `parts_safety`.

The later theorems strengthen `IInv`, one layer after the other:
- `VisibleInv`: whatever a reader, a merge or a restart may find, and the raw directory about
  to be published, holds only *settled* INSERTs: named, not failed and not being written. A failing
  INSERT was never settled, and a settled one never fails.
- `ListInv`: the list is the part directories and those a merge has shelved, without
  repetition. Removing a name from a list that has it once is a lemma about sequences
  (`ForgetDistinct`), as `Forget` is defined by position.
- `AgeInv`: the merge holds two parts such that none other is of an earlier millisecond, and what it
  has shelved is not younger than what is in place; the name an INSERT writes is the newest, because it
  holds the lock since it took the name.
- `ServiceInv`: readers exclude whoever changes the list, an acknowledged INSERT stands in
  place or on the merge's shelf, and a SELECT has read exactly the parts listed up to its
  position.

*Refinement.* The mapping (`PartStoreRefinement`) takes a table's INSERTs to be what its
listed parts stand for, and a SELECT's result to be what it has read and what is left to read
while it holds the read lock. A merge step leaves both alone by `MergeInv` and `ListInv`; an
INSERT takes effect when its part is pushed on the list; a SELECT takes effect when it is
granted the lock, and its later steps are stutters because what it has read and what it has left
are always the whole list (`ReadsWholeList`), which nobody changes while it reads.

**A scan.** `AnswerExact` says something only of the end; the loop has to be followed there.
`ScanInv` adds
- `TableRead`: a scan that stands on granule `k` of part `n` has collected exactly the rows that
  WHERE keeps of a *beginning* of all rows (`ReadTo`), the one that ends before that granule;
  filtering granule by granule is filtering the beginning (`FilteredCat`);
- `NestedRead`: as long as a nested SELECT has not started over, the same. Afterwards no
  granule alone has enough rows to end, as `lines_read` is the last granule's only, so that it
  never ends, which is finding 5;
- `LoadSoFar`: what loading a part for a merge has collected is a beginning of `MergeRead`;
- `LiteralFilled`: over whole granules the literal's column grows with the rows.

A scan ends at the end of the last part, where the beginning is all, or when one chunk has
`LinesToRead` rows. Then LIMIT and OFFSET cut the same rows out of the beginning as out of all
(`Enough`); with an ORDER BY the early end is taken only where `LinesToRead` is the number of
all rows. TLC checks the conjuncts of `ScanInv` on the instance of `scan_exact`.
Flattening and filtering are defined by recursion, and induction over a predicate is not
available. `CountingUp` replaces it, an induction over a *set* of numbers, from the theorem of
the library for a set; `RecursionExists` gives the function that a recursion describes.

**The server.** `CInv` adds to `PermitsConserved` and `LoadIsRunning` that a connection waits for
`accept` once and before it has a task (`BacklogInv`), so that a new task is never
counted twice, and that a command that runs was planned (`RunInv`), so that what is given
back is what was counted. The counts are cardinalities of sets of connections; one lemma
says how a task that moves changes them.

The refinement of Dialogue first needs the codec. The numbers of a header are digits in base
`Radix`: `SizeReadBack` says that `FromLeBytes` reads what `ToLeBytes` wrote, for every number
of bytes, by division one digit at a time. `FirstFrame` says that a stream which begins with
an encoded command, and of which only a part has arrived, has a frame as soon as that command
has arrived, never before, and that the frame is the command and leaves exactly what follows
it. `NoLastFrame` says that the last bytes of a client, which are the beginning of a
command or an overflowing header, never hold a frame.

`DInv` adds to `CInv`
- `StreamInv`: what is in the receive buffer, then what is on its way, then what a broken
  connection lost is exactly the encoding of the commands asked and not yet taken up, followed
  by the client's last bytes; bytes are lost, and last bytes sent, only by a client that left or
  finished. Receiving moves the cut, decoding takes the first command off (`FlowReceive`,
  `FlowFrame`), and a size overflows only behind the last command (`FlowFits`);
- `TurnInv`: between reading and replying a task has one command, the one taken up last, and
  otherwise as many are answered as were taken up.

Each kind of step then maps to one of Dialogue (`TakeMaps`, `ReplyMaps`, `EndMaps`, ...) or
to a stutter (`HiddenMaps`). The delicate ones end a task: an `exit` has to be the next
command that was asked (`FrameIsNext`), and a decoder that panics has to be
that of a client which does not listen any more.

**The catalog.** `EntryNeverReplaced` needs `HoldInv`: a CREATE past its vacant entry holds the
table's lock and there is no entry yet. `OnlyOverlapsRevive` needs `DirInv`: a table in
use that is not `overlapped` has its directory, and no DROP is at work on it; and
`InsertInv`: an INSERT that looked its table up keeps the lock. Together: an INSERT
writes only where the directory is there. `RoleInv`, `OneTable` and `DownInv` say which
commands work on how many tables, and that a process that is down has none.

`DisagreementExplained` is about moments when nothing runs, and needs to know what each
running command has left on the disk. `DiskInv` says
- `MetaInv`: unless the table is `overlapped`, an entry has the schema of its metadata file, and so
  has a CREATE that is about to publish one;
- `PassInv`: if a table is there again while a DROP of it is past the removal of its entry, all
  tables of that DROP are `overlapped`;
- `WalkInv`: the walk of a DROP, unless it is overlapped, has all that is in the directory on
  its list;
- `WorkInv`: a directory without an entry, unless overlapped, is being made or removed by somebody, or is
  what a failing removal left;
- `StayInv`: what a failing removal left has no entry, and no CREATE is at work on it, because
  the directory is in its way;
- `LeftInv`: a process that was not killed inside a CREATE or a DROP leaves a metadata file in the directory
  of every table that was not overlapped and of which no removal failed, so that the next start succeeds;

and three smaller facts (`BareInv`, `WholeInv`, `SchemaInv`). When nothing runs nobody makes or
removes anything, and `WorkInv` with `MetaInv` is the property. `MetaInv`,
`WalkInv` and `WorkInv` leave out the tables that are `overlapped`, and are inductive all the same.

**A query in values.** The argument goes from the algorithms to the answer.

*WHERE.* Compiled nodes name their operands by position, so that the mask is computed from the
first node to the last. `FilterKeeps` is an induction along them: a node that compiles, has its columns
where the buffer has them, and was not folded away, keeps the rows it holds for; a constant
that decides AND or OR is right whatever the other side is, even if that does not compile.

*Engines.* `PermutationApplied`: after the cycles that begin below `k`, every element of
a visited place is the one the order wants there, and the others are where they were; a cycle
closes because the order is injective and the data finite. ReplacingMergeTree compares neighbours
only. That this drops all but the last row of a key (`ReplacingKeepsLast`) needs that the
order is by columns which begin with the primary key, so that rows of a key are neighbours, and that
the sort is stable; that a stable sorted order exists is proved too, one row at a time, for comparable rows.

*The table.* `StoreInv` says that the table is one CREATE TABLE accepts, that each part is what
the engine makes of its INSERT's rows (`Stored`), that the query is one the planner accepts
(`Phases`), and where an INSERT may have panicked. The keys that CREATE TABLE accepts are what
gives `ReplacingKeepsLast` its hypothesis.

*The SELECT.* `AnswerInv` follows its rows.
- `Collected`: while the scan goes on, the columns or the accumulators are those of `Kept`, the rows
  that WHERE keeps of the chunks read so far: the chunks are all rows in their order, masks
  are taken chunk by chunk, and a row that is added to its group makes the group that of one more row. Count,
  sum, least and greatest value are each shown to grow that way.
- `Finished`: where the scan stops, `Kept` is all rows that WHERE keeps, or LIMIT
  applies and `Kept` begins them and has all that OFFSET and LIMIT ask for.
- `Headed`: the columns of the output are the ones asked for, in the planner's order.
- `Shown`: the output shows, column by column, some rows `R` that are the kept ones, or one for each
  group, each once; before the first ORDER BY list as they are, afterwards ordered by the last
  list applied. A list permutes all columns alike (`MergeTreeOrders`), and the column it names in the
  output holds what it selects (`PositionMeans`), except in an output without rows.

`AnswersByLast` joins them: OFFSET and LIMIT cut each column as they cut the rows, and rows
that suffice are cut to the same answer as all rows (`SameWindow`). With at most one list this is
`IsSQLAnswer`. Everything about answers is under `Counted`, the conditions of section 4. An
average is the quotient the model computes of an exact sum and count; floating point is not modelled.

`PanicsAreExplained` rests on the same rows: two values of a column differ in type only if one is a
Null, which the column allows or has as its default; and aggregates are never ordered by, since
ORDER BY names columns. The sum of LIMIT and OFFSET is made only once, before the scan.

**Model-checked only.** Liveness under fairness (`CommandsAnswered`, `MergesConverge`,
`WaitingIsAccepted`, `PermitsComeBack`, `TableScanEnds`, `LargeLimitsAnswered`). Every invariant
and every step property that a run checks, and both refinements, are proved.

## 6. Not modelled

- `sql/plan_optimization/query_flattening.rs`: not compiled (the `mod` line is commented out).
- `config.rs`, `error.rs`, logging, `storage/output_table.rs`: constants and formatting.
- Encodings: `compression.rs`, checksums, rkyv layouts, the MessagePack bytes of an answer and
  errors of encoding them, widths of numbers, floating point, hashing.
- The memory a receive buffer may reserve for an announced size, and headers on a machine whose
  `usize` is narrower than 64 bits.
- The planning of nested SELECTs over a subquery's columns; TableScan has their granules.
- Power failures: nothing is synced to disk, and a crash here keeps what was written.
- Several tables in one DashMap shard: a table's lock is its own.
- The Python client.

## 7. Plan

Order of the modules, the most important behaviour first. Done: Granules, PartStore with its
invariant and proofs, TableService and the refinement with its proof, TableScan and Catalog with their
proofs, Values, Filter, Engines and Query with their proofs, TcpParser, Dialogue, Server with its
proofs. Left:

1. `Query` over nested SELECTs: planning over a subquery's columns and `VirtualStorage` in values.
2. `PartStore` with the engine: ReplacingMergeTree across merges, later parts last
   (`PartsInAgeOrder` is the invariant it rests on, `ReplacingKeepsLast` what one merge does).
3. Unsynced writes: a crash that keeps a rename and loses the file.
4. Several tables behind one merge thread: who is merged when one table's merge keeps failing.
5. That Query's scan, which reads chunk by chunk, is TableScan's, as a refinement.
