# TLA+ models of the Zed lake

This directory holds TLA+ models of the parts of Zed where steps of several
actors, failures or the order of events decide whether it is correct: the
storage of lakes (journal, pools, branches, commits, data objects), the scans
that read them, and the operators of the query runtime that run in goroutines.
TLC checks them on small instances, and TLAPS proves the main safety results about
the journal, pools, the lake root, scans, deletes and compactions of the lake,
combine and merge, summarize and the ZNG scanner for instances of any size.
`PROJECT.json` maps the definitions to the Go lines they model and lists the runs,
the mutants, the hazards and the findings.

## The system

A Zed lake is a directory tree in a file system or in S3. Several processes (a
`zed serve`, `zed manage`, command-line clients on a shared file system) and
many goroutines in each of them change it without talking to one another: all
coordination goes through files. A query is compiled to a flowgraph of operators
that pull batches from one another, some of them through goroutines and
channels. The parts, from the bottom up:

| Part | State | Operations | What makes it correct |
|---|---|---|---|
| Storage engine (`pkg/storage`) | files | `Put` (truncate, then write), `PutIfNotExists` (exclusive create, file system only), `Get`, `Delete` | exclusive creation is atomic; nothing else is |
| Journal queue (`lake/journal/queue.go`) | numbered entries, HEAD and TAIL files | `ReadHead`, `CommitAt`, `Open` | entries never change, HEAD only advances and reaches the end |
| Journal store (`lake/journal/store.go`) | cached table, its position `at`, load time; `snap.zng` | `Insert`, `Move`, `Delete`, `Update`, `All`, `Keys`, `Values`, `Lookup` | behaves as an atomic table; reads are not stale |
| Branches store (`lake/branches`) | a journal store: name to commit | `Add`, `Update` with a constraint, `Remove` | a tip moves only from the value its mover saw |
| Commits store (`lake/commits`) | commit objects, snapshot files, LRU caches | `Put`, `Remove`, `Snapshot`, `Path`, `PatchOfPath`, `PatchOfCommit`, `Vacuumable` | the snapshot of every branch can be computed |
| Branch (`lake/branch.go`), compaction (`runtime/exec/compact.go`) | none of its own | `Load`, `Delete`, `DeleteWhere`, `Revert`, `CommitCompact`, `mergeInto`, `AddVectors`, `DeleteVectors` | an operation that succeeds has its effect on the tip of that moment, exactly once |
| Pool (`lake/pool.go`) | data objects | `CreateBranch`, `removeBranch`, `Vacuum` | no object a branch needs is removed |
| Root and pools store (`lake/root.go`, `lake/pools`) | a journal store: name to pool; `lake.zng` | `Create`, `Open`, `CreatePool`, `RenamePool`, `RemovePool`, listings | a name stands for one pool, a listed pool can be opened |
| Data objects (`lake/data`, `lake/writer.go`, `lake/seekindex`) | object, seek index and vector files; write buffers | `Writer`, `SortedWriter`, range lookup | rows are found by range, none is lost between buffers |
| Lake scans (`runtime/sam/op/meta`) | `Lister`, `Slicer`, one scanner per trunk | pull, prune, delete | each row the filter selects is returned once, in order |
| Lake manager (`cmd/zed/internal/lakemanage`) | run builder | scans for runs to compact | after a pass no objects overlap |
| Query operators (`runtime/sam/op`) | goroutines and channels | pull, done, EOS | the done/EOS protocol neither hangs nor loses a platoon |
| Summarize (`runtime/sam/op/groupby`, `spill`) | table, spilled runs, a goroutine | consume, spill, early and final results | each group once, with all of its values |
| ZNG scanner (`zio/zngio/scanner.go`) | reading goroutine, workers, channels | pull, done | batches in file order; nothing reads after done |
| Service, vector runtime, compiler, formats, command line | - | - | see "Not modelled" |

What is hard: the two writes of `CommitAt` with a crash in between; files that
other processes read half written; checks made before the step they protect;
loads of one process that overwrite each other's table; commit objects built on
a tip that moves; cleaning up after an error that may not be one; merges and
reverts against a history that went on; an EOS that crosses a done; goroutines
that wait for one another in a circle; workers that finish out of order; rows
excluded by key ranges alone; groups delivered before their platoon has ended.
`PROJECT.json` lists these as hazards, each at its line, with the properties
that would catch it.

## Modules

Lake storage:
- `KVTable`: tables, operations, what an operation's check demands and what its
  entry does. `CheckOK` is the closure that `Insert`, `Move`, `Delete` or
  `Update` hands to `Store.commit`; `Apply` is what `load` does with the entry.
- `KVStore`: the abstract specification, an atomic table.
- `Journal`: queue and store. Each storage access and each critical section of
  `Store.mu` is an action; `pc` says where a goroutine is, `ld` holds the locals
  of `load` and its reader, `cat` the local `at` of `commit`. `table`, `at` and
  `fresh` are the fields of a process's `Store`. `hist` and `seen` are history
  variables that only properties read. `Engine` selects the file system or S3.
- `JournalProofs`: the theorems about it.
- `Commits`: commit objects, snapshots and patches as operators.
- `Pool`: branches, commit objects, data objects and the workers that change
  them. `Start` actions are the calls (with everything they do before
  `Branch.commit`), `Lookup`, `Create`, `Update`, `Conflict` and so on are the
  steps of `Branch.commit`. It uses `KVTable` for the branches store.
- `PoolProofs`, `PoolRowProofs`: the theorems about it, the second module building
  on the first: commit objects, tips and snapshots; rows and data objects.
- `Root`: the lake and its pools. `proc[p].pc` names the call a process is about
  to make; `CreatePool` and `RemovePool` are sequences of calls with a failure
  and a crash possible before and after each. It uses `KVTable` for the pools
  store, and `log` and `ahead` for what a second creation of the lake does to its
  journal. `crossed` (pools that a late rename has met) and `lost` (pools whose
  entry was created with an error) are history variables that only properties read.
  `RootProofs` has the theorems about it.

Scans of the lake:
- `Predicate`: filters over a key, evaluated as the kernel compiles them, and the
  range pruner the optimizer derives from them. Evaluation and pruning are
  written from their own sources, so that comparing them means something.
- `LakeData`: data objects with their key range and seek index, the lookup of the
  parts of an object a pruner cannot exclude, and `sortObjects`, the order in which
  a list of objects is scanned.
- `LakeScan`: queries, `delete -where` and the lake manager over the objects of a
  branch. Trunks share a `Lister` (`listing`) and a `Slicer` (`slicer`); `writer`
  is `lake.Writer` with its second buffer in the hands of a goroutine; `mgr` is a
  pass of the manager.
- `LakeScanProofs`: the theorems about these three: filters against pruner, the
  writers' objects, the lake manager, queries and deletes.

Query runtime:
- `Stream`: the abstract specification of a `Puller`, from its comment.
- `Router`: `op.Router` with the selectors of fork and switch, and the legs
  behind its routes (pass, head or tail, each pulled by a goroutine).
- `Combine`, `Merge`: the two operators that join legs, extending `Router`.
- `Flow`: the composition: source, router, legs, join, client. `FlowProofs` has a
  theorem about its combines and one about its merges.
- `Scan`: the threaded ZNG scanner, with its theorems in `ScanProofs`.
- `GroupBy`: the summarize operator with spilling; `GroupByProofs` has its theorem.

`MCJournal`, `MCPool`, `MCRoot`, `MCLakeScan`, `MCFlow`, `MCScan` and `MCGroupBy`
are the instances for TLC.

How the layers fit: `Journal` implements `KVStore` (`Implements`, checked and
proved for the file engine), and `Pool` and `Root` use the branches store and the
pools store as that atomic table. What the abstraction leaves behind is
represented there by faults: `StorageError` and `CallFails` for every error a
store operation can return, exhausted retries included, and `LostReply` and
`ReplyLost` for an operation that took effect and reported an error (the entry was
created, writing HEAD failed). `Pool` treats an operation's data objects as
written in one step and its filter as one row; `LakeScan` has the writing and the
filtering in detail, with a commit as one step. `Flow` implements `Stream`.

### What is abstracted

Journal:
- `snap.zng` is empty or complete, and of two concurrent writers the last wins.
  Put truncates first, so the empty file is a state of its own. A table cut in
  the middle needs more than one ZNG frame and is not modelled.
- TAIL stays at 1: no code moves it.
- `readID` retries while HEAD is empty, up to ten times. The model either reads
  a complete HEAD or gives up while it is empty; how often it looked is not
  counted. Cancelled contexts behave as storage errors.
- A journal entry holds one operation. `Move`, which writes a Delete and an Add
  in one entry, is one operation on two keys.
- `Lookup` of a fresh table is `Peek`; time is the flag `fresh`, which may
  expire at any moment.
- `CommitAt` makes an entry in one step. The code creates its file exclusively,
  writes it, and deletes it when the writing fails (`file.go:51-61`). Nobody reads an
  entry before HEAD covers it, and a crash before the writing has ended leaves a
  position that is taken and that HEAD never reaches, as a crash between the two
  writes of `CommitAt` does.
- An error of reading or writing `snap.zng` is logged and ignored; the load goes on
  without the file (`GetSnapshotFails`, `PutSnapshotFails`). That a read fails in the
  middle of the file needs, as above, a table of more than one frame.

Pool:
- Commit and data objects are numbered as they are created, so IDs grow along
  every path. The snapshot at each commit is kept in `views`; the LRU caches and
  `.snap.zng` files are taken to agree with it.
- An operation writes one data object; a row is named after the object that
  loaded it; the filter of `DeleteWhere` matches one row.
- Within one commit object, actions come in the order deletes, adds, vector
  deletes, vector adds, which is the order every constructor produces.
- `Repeats` says whether callers may name an ID twice in one call. The runs take
  FALSE; with TRUE, `Delete` and `AddVectors` commit objects that cannot be
  played (a listed hazard).

Root:
- A pool's files are its branches journal: nothing, the journal without the
  branch main, or both. The other fields of a configuration never change.
- Clients call what they like when they like. A second creation of the lake, begun
  before `lake.zng` is there, resets HEAD and leaves the entries: readers then see no
  pool, and who commits goes for the first position, which is taken, so that every
  commit fails but one that had passed its check before (`ahead`). That is the file
  engine; on S3 the first entry would be overwritten.
- `snap.zng` of the pools store, which is written after more than ten entries, and a
  `Store` that goes on showing the table it has cached are left out; the
  commits of such a `Store` fail as well.

Scans:
- A key is encoded as its value, and null as no bytes, which is also how the integer
  0 is encoded (`SameBytes`). `SliceStable` is an insertion sort, which is what
  `sort.SliceStable` does with lists of up to twenty; it shows where the order it is
  given is none. For an order, how it sorts makes no difference.
- A row is a key (an integer, null or missing), and the outcome of one further
  condition on it; byte offsets are row counts, so `Stride` and `Threshold` are
  numbers of rows. Trunks deliver rows one at a time.
- The filter of a query is up to two comparisons of the key with a literal, or
  the further condition, joined by and or or; this is where the pruner's
  recursion has all of its cases.

Query runtime:
- Channels are unbuffered, so a send and its receive are one step; the one
  buffered channel (`combine`'s queue, the scanner's `resultChCh`) is a sequence
  with its capacity.
- A batch is a number or, for a merge, a short sequence of sort keys. Reference
  counts and value lifetimes are left out.
- The source of a flowgraph restarts with its next platoon after each EOS, as the
  comment on `Puller` demands of operators.
- `GroupBy` counts. A value that is a partial result carries its count; a spilled
  run is a set of partial results, which merging reads in key order. The record
  that sets `maxSpillKey` is any record of the table: `Spill` is commented to sort
  the slice it is given but does not. A first key is an integer, missing
  (`Missing`, which sorts last), or `error("quiet")`. Keys of several types are not
  modelled; where the table tells keys apart that `keysComparator` takes for equal
  (null and missing, 1 and 1.0), a spill adds their groups together.

### Bounds

`MaxLog` bounds the journal entries, a setting's `ids` the commit objects and the
data objects of a pool. Both are in the guards that start an operation, so an
operation that has begun is never cut short: `Room` reserves what it may still
write, its retries included. `MaxRetries` and `SnapEvery` stand for the code's 10
and 10. The runs take at most 2 and 1, so that running out of retries and writing
a snapshot happen within the bounds. `IDRange` stands for 2^64: any value larger
than `MaxLog + SnapEvery` shows the wrapped subtraction. Two or three journal
entries are enough for a key to be inserted, updated and deleted, and 5 or 6 IDs
for two loads, two operations on what they loaded that race, and a retry of each.

`Root` has two processes, three names, two pools, two faults and a listing, so that
one process can look a name up while the other takes it away and gives it to another
pool (three processes with one fault and no listing pass as well, in 1.7 million
states). `LakeScan` takes every way to spread four or five rows over up to three
objects, for both orders, with keys that are equal, null or missing, and in ascending
order 0 beside null: objects that nest, touch at one key or do not overlap, and seek
indexes of one to three entries. `Flow` has
platoons of up to three batches and a second platoon, which is what a done or an
EOS gone astray damages. `Scan` has two workers and files with more frames than
the channels hold. `GroupBy` has four values in every cut into batches and tables
of one, two and three groups, so that a group is completed in the table, spilled
once, or spilled in several parts; one of the sorted inputs ends with values whose
first key is missing.

The runs of `Pool`, `Root`, `Flow`, `Scan`, `LakeScan` and `GroupBy` say
`CHECK_DEADLOCK FALSE` because their actors stop for good, at the bound or with
the end of the query; the journal runs keep the check.

## Runs

Passing:
- `journal_procs` - two processes with one goroutine each, one of them crashing
  and meeting I/O errors anywhere, every kind of operation on two keys, three
  entries. Tables are never older than their label, commits are valid where
  they land, HEAD is at or next to the end, reads are not older than the HEAD at
  their call, and the whole implements `KVStore`.
- `journal_threads` - two goroutines of one process on one `Store`, with
  `Lookup`: they overwrite each other's cached table and invalidate it. Every
  operation returns, HEAD always catches up. (The safety properties hold for
  goroutines in any arrangement by the proofs, but for `ReadsFresh`: see below.)
- `pool_revert` - loads, deletes, vectors and reverts of any known commit (so
  reverts of reverts) by two workers: a revert undoes exactly what its commit
  did to the rows and the tip still shows, the branch stays readable, every
  operation returns.
- `pool_share` - three settings of two workers. Compactions, `DeleteWhere`, vacuums
  of any revision and loads on one branch; loads, compactions and removals of the
  branch, which is then created again, with crashes and storage errors; two
  branches that load and merge in both directions, with crashes, storage errors
  and lost replies. No row is lost or duplicated, every operation has its effect on
  the tip of its moment, the branches stay readable and only grow, and no commit
  or data object they need is vacuumed or cleaned up.
- `root` - two processes create and open the lake, create, rename and remove pools and
  list branches, in any order and at any time, with two faults (crashes, failing
  calls, lost replies). A listed pool can be opened, has one name and leaves the table
  only by its own removal, and without faults no files are left behind; but for the
  pools that a late rename has met (`crossed`) and those whose creation was told that
  its entry had failed when it had not (`lost`). See the table below for both.
- `lakescan` - queries by parallel trunks, ordered and not, `delete -where`, and
  passes of the lake manager, with a failing read or write. What a query returns
  and what a delete removes is compared with the filter evaluated row by row, for
  every way to spread the rows over objects; trunks are sorted, objects written
  are well formed, after a pass of the manager no objects overlap, and every
  operation ends although the writer's goroutine may fail.
- `flow` - eight flowgraphs: fork and switch into combine and merge, with pass,
  head and tail legs, under a client that stops platoons and cancels the query at
  any moment. The flowgraph implements `Stream`: each platoon reaches the client
  completely and in order unless the client stopped it, and a done never costs a
  later platoon. Merges are sorted, no announcement in combine's queue is stale, no
  Pull hangs and after a cancellation every goroutine ends.
- `scan` - two workers over every file of up to two frames and some longer ones,
  with filtered, undecodable, control and torn frames. Results come in file order,
  a done returns only when nothing reads the input any more, no Pull hangs and no
  goroutine is left.
- `groupby` - summarizes of sorted and unsorted input, stopped, cancelled, with
  failing parents and disks. Every group with a first key is delivered once with all
  of its values; what is delivered of one without adds up to its values. Output of
  sorted input is sorted, every Pull returns and the temporary files are gone when
  `Cancel` returns.

Violations, each of a statement made by the repository:
- `pool_merge_deletes` - both branches delete an object, then merge: the
  resulting commit deletes it a second time and the branch cannot be read.
- `flow_merge_hang` - `fork (=> pass => put key:=key+10) | merge key`: merge waits
  for the first leg, the router is blocked sending to the second, and the second
  leg's puller offers a batch that merge does not want yet.
- `delete_literal_first` - `delete -where '2 <= key'`: the pruner mirrors `<=` to
  `>`, excludes an object whose largest key is 2, and the row stays.

Every property of a passing run has a mutant in `PROJECT.json`: a plausible bug
in one mapped definition under which TLC finds the property violated.

### Settings in which a property fails

The passing runs leave out the following, because the code does not do what the
property says there. Each can be seen by changing the configuration named.

| Configuration | Change | Fails | What happens |
|---|---|---|---|
| `JournalThreads` | `Faulty = {p1}`, `BusySpec` | `HeadCatchesUp` | after a crash or an error between the two writes of `CommitAt` HEAD stays behind for good and every commit fails, against `docs/lake/format.md:194` |
| `JournalProcs` | `Faulty = {}`, `Ops <- MCKeyOps`, invariant `AlwaysReplayable` | `AlwaysReplayable` | a load files a newer snapshot under an older ID and later replays fail on an Update of a missing key; what is committed stays correct (see the proofs) |
| `JournalThreads` | `Engine = "s3"`, property `EntriesImmutable` | `EntriesImmutable` | without put-if-missing two goroutines overwrite each other's entry, against `docs/lake/format.md:165` |
| `JournalThreads` | property `ReadsFresh` | `ReadsFresh` | goroutines that share a `Store` replace its table by an older one while a read is under way |
| `PoolShare` | `TipsReachable` without its premise | `TipsReachable` | an update that took effect and reported an error: the commit object the branch points to is removed |
| `PoolShare` | a setting with Load, Merge, Compact on two branches | `NoDuplicateRows` | merge, compact the parent, merge again: the rows merged first are there twice, in the sequence `docs/commands/zed.md:641` proposes |
| `PoolRevert` | a setting with Revert and Compact | `NoDuplicateRows` | reverting a compaction whose rollup was compacted again adds rows a second time |
| `PoolShare` | two branches in the first setting | `DataPresent` | a vacuum removes what another branch needs |
| `PoolShare` | a setting with Load, Compact and lost replies | `DataPresent` | a compaction whose update took effect and reported an error deletes the rollup the branch now has |
| `PoolRevert` | `Repeats = TRUE` | `TipsReadable` | a call that names an ID twice commits an object that cannot be played |
| `Root` | `OneName`, `PoolsKept`, `NoOrphans` or `ListedComplete` without `crossed` | the same | a rename looks its pool up, the pool is renamed by somebody else and its old name given to another pool, whose entry the rename then moves: that pool has no entry and keeps its files, the renamed one has two names, or one whose files are being removed is listed again |
| `Root` | property `RenameTakesOwnName` | `RenameTakesOwnName` | the same, against `docs/commands/zed.md:768`: `Store.Rename` calls `Move`, which takes no constraint |
| `Root` | property `InitDoesNothing` | `InitDoesNothing` | two processes create the lake; the second one, which found no `lake.zng`, resets HEAD after the first has finished: readers see no pool, and commits fail, against `docs/commands/zed.md:444` |
| `Root` | `ListedComplete` without `lost` | `ListedComplete` | a pool was added with an error, and its creation removes the files of a listed pool |
| `Root` | `NoOrphans` without `faults = 0` | `NoOrphans` | a creation or a removal that crashes half way leaves files behind |
| `Root` | invariant `ListingGoesOn` | `ListingGoesOn` | a pool removed while branches are listed fails the listing, which tests for another error than the one it gets |
| `Flow` | `SourceFails = TRUE` | `Refines` | the router drops its parent's error and sends a plain EOS |
| `Flow` | a merge with two platoons and `dones` | `Refines` | a puller that holds an EOS answers done with Pull(true), which reaches into the next platoon |
| `LakeScan` | a row whose other condition is an error | `DeletesExactly` | `not p or missing(p)` is an error then, and the row is deleted |
| `LakeScan` | `Pools <- ZeroPools`, `Preds <- AnyRow`, `MaxFaults = 0`, invariant `PartitionsInOrder` | `PartitionsInOrder` | in a descending pool with the keys 0 and null, which have the same bytes, `sortObjects` is no order: partitions are handed out that are not in order, against `slicer.go:111-112` |
| `LakeScan` | the same, invariant `ObjectsWellFormed` or `NoOverlapAfterPass` | the same | a compaction of a list out of order writes an object whose rows are not sorted and whose seek index is wrong |
| `GroupBy` | `Inputs <- MissingQueries`, invariant `GroupsOnce` | `GroupsOnce` | on sorted input a spilled group without a first key is delivered at once and again after the next batch: `readSpills` holds no error back |
| `GroupBy` | `Inputs <- PanicQueries`, invariant `NoPanic` | `NoPanic` | each spill ended with a record without a first key, so that `maxSpillKey` is nil when the early reading compares another key with it |
| `GroupBy` | `Inputs <- SecondKeySorted`, invariant `GroupsOnce` | `GroupsOnce` | a summarize by `a, ts` of input sorted by `ts`, which the optimizer announces as sorted, delivers a group of the smaller `a` before all of its values have come |
| `GroupBy` | `dones` TRUE in `UnsortedQueries` | `GroupsExact` | a done while final results are sent pulls the parent with done after its EOS and cuts the next platoon |

Further observations that no configuration shows: `vcache.Cache.lock` waits for an
object's mutex while it holds the one its holder needs; `service.publishEvent`
sends to a subscriber while it holds the lock the subscriber needs to leave; a
scanner pulled again after a cancellation can wait on a nil channel
(`scanner.go:82`); `scan` of the lake manager takes a failing listing for its end
(`scan.go:44`); null and missing first keys of sorted input interleave, since the
pool orders them as equal while groupby does not; a null of an integer type
compares as 0 in `CompareInt64` and last in the pruner; `Compare.Eval` compares
strings with themselves (`eval.go:318`).

### Fairness

Fairness is weak and says that a goroutine that can take its next step takes it,
which is what the Go scheduler gives: `FairSpec` of `Journal`, `Pool` and
`LakeScan`, `Fairness` of `Flow`, and the specifications of `Scan` and `GroupBy`.
Nothing is asked of callers: nobody has to call an operation or pull again, faults
need not stop, and a contended commit need not succeed; operations return because
retries are counted. Where Go's `select` has several ready cases the choice is
free, and no fairness is assumed between them. `BusySpec` of `Journal` adds that
clients keep calling.

## Proofs

The theorems hold for every value of the constants: any number of processes,
goroutines, workers, keys, objects and branches, any file, any flowgraph, any bounds. Their
assumptions are the named `ASSUME`s of the modules, which TLC evaluates in every
run, and what the last column says. Each such hypothesis excludes a setting of the
table above, or of a violation run, in which the code breaks the property; those
marked also exclude settings in which it holds on the instances that TLC explored.
Of the `ASSUME`s, these say more than a type: legs that are merged are sorted by the
merge's key (`SortedAssumption`, what the compiler sees to when it inserts a merge);
a pool starts with objects as its writers make them, with IDs and rows of their own
(`PoolsAssumption`); filters are those of `Predicate` (`PredsAssumption`). That the
objects written later are such objects as well is a theorem (`ObjectsStayWellFormed`).

| Module | Theorem | Statement | Only if |
|---|---|---|---|
| `JournalProofs` | `TypeCorrect` | `Spec => []TypeOK` | |
| | `TablesNotOlder` | `Spec => []LabelsNotAhead` | file engine |
| | `Serializable` | `Spec => []CommitsValid` | file engine |
| | `JournalImplementsKV` | `Spec => Implements` | file engine |
| | `HeadAtEnd` | `Spec => []HeadNearEnd` | file engine |
| | `HeadOnlyAdvances` | `Spec => HeadMonotone` | file engine |
| | `ReadsAreFresh` | `Spec => ReadsFresh` | file engine, one goroutine per `Store` |
| `PoolProofs` | `NeededCommitsStay` | `Spec => []TipsReachable` | |
| | `BranchesOnlyGrow` | `Spec => HistoryKept` | |
| | `BranchesAreReadable` | `Spec => []TipsReadable` | `NoMerges`: no ID named twice, no merges (*) |
| `PoolRowProofs` | `NoRowTwice` | `Spec => []NoDuplicateRows` | `Plain`: `NoMerges` and no reverts (*) |
| | `OperationsApply` | `Spec => AppliesToTip` | `Plain` (*) |
| | `BranchDataStays` | `Spec => []DataPresent` | `Covered`: `Plain`, no compactions where replies get lost, vacuums only with one branch (*) |
| `RootProofs` | `ListedPoolsComplete` | `Spec => []ListedComplete` | |
| | `PoolsHaveOneName` | `Spec => []OneName` | |
| | `PoolsAreKept` | `Spec => PoolsKept` | |
| | `NothingLeftBehind` | `Spec => []NoOrphans` | |
| `ScanProofs` | `BatchesInOrder` | `Spec => []InOrder` | |
| | `DoneMeansStopped` | `Spec => []DoneStopsReading` | |
| `FlowProofs` | `AnnouncedPullersOffer` | `Spec => []AnnouncedOffer` | |
| | `MergeKeepsOrder` | `Spec => []Sorted` | |
| `GroupByProofs` | `SortedInSortedOut` | `Spec => []OutputSorted` | `SortedInput`: the input is in order by its first key |
| `LakeScanProofs` | `PrunerIsSound` | `PrunesFor(p, row, min, max)` | `Fits`: no `null(int64)` key left of a literal, only `<`, `>`, `==` right of one |
| | `DeleteKeepsTheRest` | a delete keeps a row iff its predicate does not select it | no error in the predicate |
| | `PrunedObjectsAreKept` | a delete that skips a pruned object misses no row | `Fits`, no error |
| | `LakeSafe` | `Spec => []LakeInv` | `ZeroIsNotNull`: 0 and null keys do not meet in a descending pool |
| | `TrunksStaySorted` | `Spec => []TrunksSorted` | `ZeroIsNotNull` |
| | `ObjectsStayWellFormed` | `Spec => []ObjectsWellFormed` | `ZeroIsNotNull` |
| | `PassLeavesNoOverlap` | `Spec => []NoOverlapAfterPass` | `ZeroIsNotNull` |
| | `QueriesAreExact` | `Spec => []QueryExact` | `ZeroIsNotNull`, `FitPreds`: every comparison `Fits` every row |
| | `DeletesAreExact` | `Spec => DeletesExactly` | `ZeroIsNotNull`, `FitPreds`, `NoErrors`: no predicate is an error on a row |
| | `RowsAreKept` | `Spec => RowsKept` | `ZeroIsNotNull` |

(*) Merges with deletes break `TipsReadable` (`PoolMergeDeletes`), merges or reverts
with compactions break `NoDuplicateRows`. Merges of loads alone, and reverts without
compactions, pass the runs `PoolShare` and `PoolRevert`; a merge takes its actions from
the diff of two paths and a revert plays old ones backwards, and the proofs cover
neither, except that `BranchesAreReadable` allows reverts.

### The arguments

**Journal.** One would expect the cached table to be the table at position
`at`, but that is not invariant: a snapshot can be newer than the HEAD the load
began with, and replaying old entries over it gives a mixture. What is
invariant is weaker. `NotOlder(tbl, n)` says that every key of `tbl` has the
value it had at position `n` or at some later one. Replaying entry `n+1` over a
table not older than `n` gives one not older than `n+1`: the keys it touches get
their value at `n+1`, and the others are either unchanged by the entry or
already later. So every table in memory and in `snap.zng` is not older than its
label (`LabelInv`). A commit checked against a table labelled `n` creates entry
`n+1` only if it does not exist, and then `n` is the end of the log; at the end
there is no later position, so the table is exact and the check was made in the
very table the entry extends. `ThreadOK` carries this through the program
counter: after `Check`, as long as the log has not grown past `cat`, the check
holds at the end of the log. This gives `Serializable` and, with it, the
refinement: creating an entry is a `KVStore` commit and every other step
stutters.

`HeadInv` says that only the goroutine that created the last entry can be
between `CommitAt`'s two writes: the next entry can only be created by someone
who read the new HEAD. A crash there leaves HEAD one behind forever, which is
why the theorem says "or one entry before it" and why nothing stronger holds.
`ReadsAreFresh` adds what a goroutine alone on its store knows: from its read of
HEAD until it returns, nobody else replaces the table it has loaded.

**Pool.** Three inductive invariants, each resting on the one before.
- Commit objects (`PoolProofs`): `OwnInv` says that a commit object a worker has put and not yet made
  a tip is its own. It is on no branch's path and on nothing another worker builds
  on, so that removing it after a failed update harms nobody; an update can
  only succeed if the tip is still the parent it was built on.
  `TreeInv` describes `Path`, a recursive function over a growing sequence of
  commits: instead of an induction over commits it is known by an induction along
  the behaviour, since creating a commit adds one equation to those that hold.
- Snapshots (`PoolProofs`): `SnapInv` says that every commit object, on a branch or not, can
  be played on its parent's snapshot; `JobInv` types what a worker carries, and
  `FreshInv` says that the data object it has written is in no commit that it or
  anyone may build on. Then, whatever the tip is by the time of a retry, the
  actions rebuilt on it delete only what is there and add only what is not.
  What a fold over a sequence of IDs computes is shown from its stages, with an
  induction over a set of naturals (`NatSetInduction`, from the library's
  theorem on least elements, which takes a set and not an operator).
- Rows (`PoolRowProofs`): `RowInv` says that the objects of *every* commit have disjoint rows
  and that a waiting commit changes its parent's rows as its operation says;
  since an update needs the tip to be that parent, this is what happens to the
  branch. `DataInv` is about storage: an object added on the way to a commit and
  absent from it is in none of its descendants (`AddedInv`), what an operation has
  written is on no such way (`PendingInv`), so that what a vacuum has picked stays
  unneeded until it is deleted (`VacuumInv`), however long that takes.

**Root.** `IInv` ties each process's program counter to the table: until the lake
file exists there are no pools and nobody but founders, of which there may be several
(`FoundingInv`); a pool being created is listed nowhere and is in one process's hands
(`CreatorInv`); a listed pool has all files and one name, and a pool being purged is
not listed (`ListedInv`); without faults, files that no name leads to belong to a
process that is creating or purging them (`OrphanInv`). Nothing is assumed about who
calls what and when. A pool in `crossed` is excepted where a late rename breaks the
claim, one in `lost` where its creation purges what is listed; that a creator's pool
is in nobody else's hands holds without exception. A second creation of the lake
disturbs none of this, since it leaves the entries alone.

**Scan.** `OrderInv` says that what the operator has got, waits for, has queued and
is reading follow each other in the file; `CoverInv` that no frame that was read and
has to be delivered is missing from these; `ChanInv` and `FrameInv` that a channel
can be closed empty only for a frame without a match or at the end of the input.
`EndInv` says that only the input goroutine's end closes `resultChCh`.

**Flow.** `QueueInv` says that an announced puller offers a batch, once, and is not
the one being received from. It fails while a done is propagated, when pullers
withdraw batches they announced, and must hold again when `Propagated` has emptied
the queue; `BlockedInv` accounts for every leg meanwhile, as blocked or
still to be sent the done.

For merges, `Ahead(l)` is the set of keys that the router may still send leg `l`
before an EOS, and `Future(l)` of those that the leg may still deliver before one; both
are all keys where the EOS has passed, for then nothing is known of what comes next.
`HoldInv` says that the batch a leg holds precedes what it is still sent, `HolInv` that
the leg's values in the heap precede what it will deliver, and `MergeInv` that what
was taken in this platoon is in order and precedes all that is in the heap, which
includes every leg but the one being refilled. A step of router, leg or operator can
only shrink `Future(l)`, except when an EOS is delivered or a done is answered: and
then the leg is not in the heap, or nothing is being served.

**GroupBy.** Keys move on in order, from the parent to the batch being consumed, to
the table, to the spilled runs, to the result on offer, to the client; `Delivered`,
`Held`, `Consuming` and `Passed` say that each place holds no key after one of the
places before it, and `Primaries` that the key a group is compared with is its own.
With early results a group leaves the table only if its key is before the largest
one seen, which bounds what is ahead. Final results without a spiller come in the
order of Go's map, that is, in any: they are sorted since all groups left in the
table have the largest key (`Settled`).

**LakeScan.**
- Filters: by cases on the kinds of key and literal, from the order of keys: the
  pruner's two comparisons with the bounds exclude what the filter's comparison
  accepts. The cases outside `Fits` are the ones in which `CompareInt64` or
  `reverseComparator` departs from that order.
- Order of the list: `sortObjects` inserts object after object, and the result is in
  order of the first keys if `ObjectBefore` agrees with that order on all objects
  (`Agrees`). It does (`ObjectsAgree`) unless an object begins with 0 and another with
  null, equal by their bytes, in a descending pool: hence `ZeroIsNotNull`. (In an ascending
  one an object that begins with null ends with it, and comes before no other.)
- Trunks: `ListInv` says that the list is in the pool's order, that the slicer holds at
  most one object, not after any in the list, and that partitions handed out end
  before what is left begins. `TrunkInv` says that a trunk returns rows of its own
  partitions, each once and in order. Hence a trunk's rows are sorted although
  it does not know what the others were given.
- Writers: an object is a sorted run of rows cut where the key changes, and
  `CompactInv` says that all that is yet to be written is after the last object; the
  seek index is known from the stages of the fold that builds it, by an induction
  over the rows (of a set of naturals, as for `Pool`).
- Manager: an object of the branch is in the run being built (`InRun`), still to
  be scanned (`ToDo`), in the run being compacted (`Moving`), or settled. `Separated`
  says that settled objects overlap nothing, now or later, while the scan goes on
  ahead of the compaction. At the end everything is settled.
- Exactness: `ReadInv` says that every object of the operation is pending, pruned or
  given out, and that the rows read of what was given out are at the trunks.
  `HitInv` says that the objects a delete rewrites are those that `hasDeletes` finds:
  it compares the number of rows that are kept with the object's count, and
  the two differ exactly if some row is selected. `SpreadInv` says that what the trunks
  have returned is in the writer's buffer, in the goroutine's or in an object,
  in one of them only, until the writer has closed.

### Only model-checked

- Liveness under fairness, which the prover cannot do: `OpsReturn`, `HeadCatchesUp`,
  `PullReturns`, `NoLeak`, `Ends`.
- `Refines` of `Flow`: it needs an invariant over router, legs and join together
  that says, for every point a done can cross, which batches of which platoon are
  still due. The invariants above bound what may come; none says that it does.
- `GroupsExact` of `GroupBy`: that counts add up, over batches, tables and spilled
  runs, is a sum over sequences, an induction over data.
- `TypeOK` of `Pool`; the proofs carry the parts of it they need (`WorkInv`, `JobInv`).
- The properties of `Pool` with merges, and with reverts beyond `TipsReachable`,
  `HistoryKept` and `TipsReadable`.

## Not modelled

- The LRU caches and `.snap.zng` files of the commits store (a process that reads
  such a file half written caches an empty snapshot).
- Vector files and the vector runtime (`runtime/vam`, `runtime/vcache`): evaluation
  over arrays, most of it generated.
- mux, mirror and the scopes of traverse; sort, join, top and the other sequential
  operators, which transform one stream in one goroutine.
- The service and the command line: handlers around the lake API.
- The compiler, except for the range pruner and the filters: term rewriting over a
  large AST. Its parser is generated (17,600 lines in one file).
- The data formats, except for the ZNG scanner: encoders and decoders, covered by
  the repository's round-trip tests.

These are by far the most lines of the repository: the generated parser and vector
functions, the AST with its formatters, the type system, marshaling and some
twenty file formats. They keep no state between calls and nothing runs
concurrently in them, so that a model would only repeat their case distinctions.
Of the parts that do have such behaviour, the vector cache, the service's event
subscriptions, mux and the commits store's snapshot files are left (see the plan).

## Plan

1. Done: the storage of the lake (`Journal`, `Pool`, `Root`), its scans
   (`LakeScan`), the goroutines of the query runtime (`Flow`, `Scan`, `GroupBy`);
   the theorems listed under Proofs.
2. Next theorems: `TipsReadable` with merges of loads, for which `Diff` of two
   paths has to be related to the snapshots at their ends; `TypeOK` of `Pool`, on the
   invariants of `PoolProofs`; `Refines` of `Flow`, first for a single leg.
3. Next modules: the commits store's snapshot files with several processes; the
   lock of `vcache.Cache`; the event subscriptions of the service.
