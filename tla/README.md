# A TLA+ model of msort, bsort and what they stand on

The repository holds two programs that sort a file of fixed-size records, the library
they share, and the two libraries they are built with:

* `msort` (`msort.cc`): an external merge sort. It writes sorted runs of the input
  to `tmp_file` and merges them, pass after pass, through `tmp_file2` and back,
  until a pass writes the output file.
* `bsort` (`bsort.cc`): it puts every record into a LevelDB tree in `./leveldb_dir`
  under its sort attributes and then writes the tree in key order.
* `library.cc`: the schema and the comparison of records, `mk_runs`, the class
  `RunIterator` (a buffered scan of one run) and `merge_runs`.
* `jsoncpp.cpp`, with which `read_schema` reads the schema.
* `leveldb-1.15.0`: the database under `bsort`.

The two programs are sequential. What makes them hard is elsewhere: several iterators
share one `FILE*`; iterator state is inferred from counters that short reads change;
the choice of the file a pass writes has many boundary cases; temporary files and the
tree have fixed names and survive a process that is killed. LevelDB is concurrent
(writers, readers without locks, a background thread, other processes) and promises
to survive crashes at any point.

## Modules

The sorts:

| Module | Models | Actions |
|---|---|---|
| `Records` | records, `record_object_comparator`, `fread` | none |
| `RunIteratorOps` | the methods of `RunIterator` as operators | none |
| `RunIterator` | several iterators on one stream, called in any order | `New`, `HasNext`, `Next_`, `GetCurrentRecord`, `Delete` |
| `MergeRuns` | `merge_runs`, `iterators_have_records`, `get_iterator_with_smallest_value` | one per iterator looked at, record copied, buffer written |
| `MkRuns` | `mk_runs` | `ReadChunk`, `WriteRecord`: one per chunk read and record written |
| `PassSizes` | `filesize`, `number_of_records`, `num_runs` with the widths of `int` and `float` | `Measure`, `OpenPass`, `ClosePass` |
| `MSort` | `msort`'s `main`, composed with `MkRuns` and `MergeRuns` | `Refuse`, `Open`, `MakeRuns`, `OpenPass`, `Merge`, `ClosePass`, `Finish`, `Kill`, `InvokeAgain` |
| `BSort` | `bsort`'s `main` | `Refuse`, `Open`, `PutRecord`, `SeekToFirst`, `WriteLine`, `Finish`, `Kill`, `InvokeAgain` |
| `Schema` | `read_schema`, `init_sort_attrs`, `offset_to_attribute`, the comparator and `bsort`'s key, on bytes | one per turn of each loop |

jsoncpp:

| Module | Models | Actions |
|---|---|---|
| `JsonValue` | `Value`: conversions, comparison, members, `resize`, `Path` | none |
| `JsonReader` | `Reader` with comments and error recovery, `FastWriter`, `StyledWriter`; `read_schema` on top | none |
| `Json` | a document that is typed piece by piece; a value that is edited | `Type`, `SetIndex`, `SetMember`, `AppendValue`, `ResizeTo`, `Remove`, `ClearAll`, `MakePath`, `Store` |

LevelDB:

| Module | Models | Actions |
|---|---|---|
| `PosixEnv` | `util/env_posix.cc`: `LockFile`, the limit on mapped files, `Schedule` and `BGThread` | one per system call, mutex section or wait |
| `MemEnv` | `helpers/memenv`: files in memory with reference counts | one per method |
| `SkipList`, `MemTable` | `db/skiplist.h`, `db/memtable.cc`: one writer, readers without locks | one per pointer read or written |
| `LogFile` | `db/log_writer.cc`, `db/log_reader.cc` on bytes | `AddFragment`, three ways to find the file again, `ReadRecord`, `ReadBlock`, `ReadFragment`, `ReadFails` |
| `Codecs`, `Formats` | varints, write batches, version edits, footers, file names; objects that are built and encoded | one per call that changes the object |
| `Tables` | block builder, separators, bloom filter, filter block, table builder and `Table::Open` | none |
| `Cursor` | what `include/leveldb/iterator.h` promises: a position in an ordered sequence | `Call`, `Return` |
| `Iterators` | all iterator classes and their composition; `Table::InternalGet` | `Call`, `Return` |
| `LRUCache`, `TableCache` | `util/cache.cc`; threads that read blocks through `db/table_cache.cc` and `table/table.cc` | `FindTable`, `OpenTable`, `BlockReader`, `ReadBlock`, `ReleaseBlock`, `UnrefEntry`, `Evict` |
| `InternalKeys`, `Versions` | internal keys; `db/version_set.cc`: `Version::Builder`, `PickCompaction`, `CompactRange`, `SetupOtherInputs`, `PickLevelForMemTableOutput` | none |
| `Compactions` | `db/db_impl.cc`: clients and the background thread | one per mutex section, or per key of a compaction |
| `Recovery` | `db/db_impl.cc`, `db/version_set.cc`, `db/repair.cc`: what is on disk when | one per write to a file, sync, rename or mutex section; crashes |

The `...Proofs` modules hold the proofs. The `MC...` modules give the constants small
values; `MCLibrary`, `MCData`, `MCStorage` and `MCReading` check several modules in one
run: a behaviour is about one part, chosen in its first state, and the variables of the
other parts stay as they are. The modules that `MCLibrary` and `MCStorage` extend have
prefixes in their names where these would clash (`ScanInit`, `MkInit`, `EnvInit`); the
other parts are instances, and the properties about them name the ones of the part.

### How the modules fit together

Each layer is modelled on what the layer below is shown to do. `MSort` uses the actions
of `MkRuns` and `MergeRuns`, which use the operators of `RunIteratorOps`, through
`INSTANCE`. `BSort` takes the tree for a persistent map in key order. For LevelDB that
is the subject of `Compactions` (a Get gives what was written, whatever is being merged)
and `Recovery` (what was acknowledged survives a kill). These two take a log for a
sequence of records of which a crash keeps a prefix (`LogFile`), a memtable for a set
(`MemTable`), a table for a sorted sequence (`Tables`, `Iterators`), files for what the
environment makes them. `Iterators` implements `Cursor`: the property `MovesAsCursor`
is the specification of `Cursor` with its position computed from the entry that the
iterator shows. `SchemaIsRead` composes `read_schema` with jsoncpp's parser on the text
of a schema.

### How the data is abstracted

A record is opaque; `Key` is the rank of its sort attributes. `Schema` justifies
this: `ComparatorFollowsRank` shows that comparing bytes attribute by attribute has the
sign of a difference of two numbers. A file of runs is a sequence of records and a
position counts records, because every position the code seeks to is a multiple of
`record_size`. Sizes in bytes (`buf_size`, `mem_capacity`) stay bytes and are divided
by `RecordSize` where the code does. The only thing smaller than a record is an
unterminated last line (`tail`): `mk_runs` keeps it, filled with zeros, unless `fread`
finds no complete record in its chunk, and `bsort` drops it.

The memory that the constructor of `RunIterator` allocates for `current_record` and
does not write is the value `Garbage`. `qsort` is not stable: `IsFirst` allows
every order of records with equal keys. A missing sort attribute leaves `sort_attrs`
unwritten in `bsort`, which goes on: the order it then uses is any of `Ranks`, or it
crashes.

In LevelDB's formats bytes have few values and headers, blocks and words few bytes; the
limits are constants, so every boundary of the code is there. Checksums are right or
wrong. A user key in `Compactions` is a number, in `Tables` and `Iterators` a sequence
of bytes. The value of an entry is its sequence number, so a read shows which write it
saw. In `Recovery` all writes are of different keys, and contents are sets.

`odd` in `Compactions` and `Recovery` records that something has happened which a
property has to exclude; what is excluded is listed under *What the runs found*.

Definitions named `Dev...` are deviations: each is the definition that follows it
with one plausible mistake (a dropped `fseek`, a missing `break`, an off-by-one).
They are not part of any specification; substituting one must violate the property
that `PROJECT.json` pairs it with.

## Runs

* **library** (154,021 states). Two iterators, files of 0 to 6 records, run lengths 1 to
  4, buffers of 1 to 7 bytes with records of 2; every merge of up to 6 records with two
  keys and sorted runs of 1 to 5; every input of `mk_runs` of up to 5 records, with and
  without a tail; files of up to 260 bytes with an 8-bit `int` and a 5-bit `float`.
  - `ScansConsecutively`: the shared stream does no harm. `RunIsExact`: an iterator
    returns its run, and more only if the file ends within a buffer of the run's end.
    `CurrentRecordIsLast`: `get_current_record` returns the record that was read last.
    (That NULL is final, `NullIsFinal`, is proved and not in this run.)
  - `MergeSorts`: the output is the stable sort of the file; in the case `Overreads`
    (the last refill of the last full run is short and holds the whole last run, so its
    iterator goes on into that run) it repeats the last run and nothing else; the output
    buffer is never overrun and no uninitialised record is compared.
  - `MakesSortedRuns`, `SizesAreRight` (below the limits of `int` and `float` every pass
    has exactly the runs of the file), `LibraryReturns`.
* **msort** (305,523 states). Command lines with no, one, two and three passes, buffers of
  no record, one and more, full and partial last runs, refused arguments; and two
  invocations in a row, each killed at any step. `SortsItsInput` says when the output is
  the sorted input, `LeavesOutput` when it is never written, `PassesAreSound` what a pass
  reads and that the first one merges all runs, `MSortTerminates`.
* **data** (212,714 states). `BSortIsSound`: three invocations, killed at any step, with
  or without `rm -rf leveldb_dir` in between, write in order, lose nothing, and running a
  killed sort again repairs it; `BSortEnds`. `OrdersAgree`: for six schemas, every one or
  two sort attributes and every pair of records, `msort`'s comparator and `bsort`'s keys
  order as numbers would. `SchemaIsRead`: the attributes a schema file declares are read,
  and a file cut short is refused. `JsonPrintsBack`, `JsonFailsOpenly`: documents of up to
  four pieces, numbers at every limit, comments, values edited at will.
  `BatchesAreReplayed`, `EncodingsReadBack`: encodings whole, joined and cut at every
  byte; varints of any bytes, also too long or too large ones; block handles of every
  number that `BlockHandle::EncodeTo` does not assert away.
* **storage** (660,941 states). `LocksExclude`: threads of two processes lock one
  directory. `EnvKeepsCount`: mapped files, and the queue of the background thread.
  `SearchesAreRight`, `SnapshotReads`: a reader walks the skip list while a writer links
  entries. `LogReadsBack`, `LogDamageIsReported`: logs of three records in blocks of 7
  bytes, read whole, cut, with one byte changed, with a failing read, from any offset.
  `StorageGoesOn`: scheduled functions run, searches and reads return.
* **reading** (916,430 states). `TablesAreSound`: tables of up to ten entries with filters
  and shortened index keys; a failed write is reported. `MovesAsCursor`: iterators over a
  table, over everything and for the user move as a cursor, forth and back.
  `ErrorsAreKept`: with an unreadable block the error that was met is reported and stays.
  `CachedReads`: threads, two caches at their capacity, files deleted meanwhile.
  `OpenFilesAreKept`: memenv's files under rename and delete.
* **compactions** (100,962 states). Four levels, three user keys, up to two snapshots, a
  call of `CompactRange`, a Get that overlaps a compaction, a failing write, closing.
  `LevelsAreSound`, `ReadsAreRight` (at the last sequence number and every snapshot),
  `LiveFilesExist`, `CompactRangeIsSound`, `WorkSettles`.
* **recovery** (298,909 states). Up to four writes by queueing threads, groups, log
  switches, flushes, up to two crashes and four Opens, RepairDB, failing writes and
  syncs. `AcknowledgedSurvives`, `SequencesAreUnique`, `CrashPointsRecover` (at every
  moment, whatever unsynced part a crash takes, CURRENT names a MANIFEST that opens, with
  its tables and the log it starts from),
  `WritesReturn`.

Runs that show a disagreement between the code and what the repository says of it:

* **merged_output_is_written**: when the last pass has exactly `k` runs it writes a
  temporary file, which is removed, and `msort` exits 0 without having written the
  output (7 records of 2 bytes, capacity 12, `k = 2`). That the output is not written
  either when all records fit in one run and there is no pass is in `LeavesOutput`.
* **output_is_sorted**: an iterator that runs into the last run makes the output
  unsorted, with records twice.
* **any_k**: full runs and more than `k` of them make the second pass open a
  `tmp_file2` that does not exist.
* **memory**: a pass has one buffer per run, not per `k` runs, and frees none.
* **sync_covers_earlier**: LevelDB switches to a new log without a sync of the old one,
  so a crash of the machine may lose a write that was acknowledged before a later one
  with `sync`, against the hybrid scheme of `doc/index.html`.

### What the runs found

Met on the way, without a run of their own. In the sorts:

* the destructor of `RunIterator` dereferences `current_record`, which is `NULL` after
  the last `next` (`msort` never deletes an iterator);
* `has_next` before `get_current_record` on a run that the file holds only in part
  exposes the uninitialised record (the exception in `CurrentRecordIsLast`);
* an accepted capacity whose `k + 1`-th part is less than a record gives an empty output;
* the second pass of *any_k* reads stale data if a killed sort left a `tmp_file2`;
* `bsort` writes the records that an earlier sort left in the tree;
* above 2 GB or 2^24 records the numbers of records and runs are wrong (`PassSizes`);
* `read_schema` accepts a negative length.

In LevelDB, with the value of `odd` or the premise that excludes it:

* `gap`: while a manual compaction of files with a gap between them runs, a memtable may
  be flushed into the gap in the output level; the output then overlaps it, against the
  assertion at `version_set.cc:769-773`. Excluded by `LevelsAreSound`, `ReadsAreRight`.
* `split`: the entries of a user key may be split over two tables of a level, and the
  newer one be moved down alone; a Get then returns the older. Excluded by
  `ReadsAreRight`.
* `crashed`: `TEST_CompactRange` returns on a background error and withdraws its request;
  `BackgroundCompaction` then dereferences NULL at `db_impl.cc:726`. `WorkSettles` allows it.
* `joined`: the NULL batch with which `CompactRange` waits for a flush may be taken into
  another writer's group, and the memtable is not flushed. Excluded, with the others, by
  `CompactRangeIsSound`.
* `overlooked`: the loop of `Recover` overwrites the status of one log with that of the
  next. `unsynced`: `NewDB` and `RepairDB` do not sync their MANIFEST. `unrepaired`: an
  interrupted `RepairDB`, then `Open`, loses writes. `removed`: `RepairDB` that finds
  neither logs nor tables starts the numbers at 1, the next Open writes its MANIFEST over
  number 1, which CURRENT names, and removes it when the sync fails. Excluded in
  `Recovery`'s properties.
* `slipped`: a refused second `LockFile`, or `UnlockFile`'s late close, drops the lock
  that another thread of the process has. `LocksExclude` is about processes until then.
* A record of length 0 whose type byte is zeroed is taken for preallocated space, and its
  block is dropped without a report; `LastRecordOffset` may be the start of the trailer
  before the record. `VersionEdit::Clear` leaves `compact_pointers_`.

In jsoncpp: text after the root value is accepted; so is `{"":1,}`; after a comment in
an object any token but `}` counts as a comma; `-` is 0; `resize` asserts when it shrinks
an array with a hole; a double of exactly 2^63 or 2^64 passes the range check.

### Bounds and fairness

What an iterator does depends on the position of its run in the file, the buffer and
the run length relative to each other; files of 6 records with runs up to 4 and
buffers up to 3 records have every such relation: a run that is a multiple of the
buffer and one that is not, a short read in and after the run, an empty last run.
The overread needs `rl % B + len % rl < B`, which first happens with buffers of 3
records and runs of 4. Three passes are enough for `flip` to take each value before and
after a pass that writes the output. Two invocations are enough for leftovers of `msort`,
which keeps nothing that a completed sort does not remove; `bsort` gets three. Twelve
records give record numbers of one digit and two. Invocations have `k > 1` and, if the
capacity holds a record, more than `k` bytes, so that a buffer has at least one byte.

Log blocks of 7 bytes with headers of 3 give records in one to three fragments, trailers
of 0 to 2 bytes and records that end a block. Skip lists of height 2 have a level above
the one that holds everything. Tables have up to four blocks, with restart points within
and at the ends, and filters that share a range. Levels: level 0 compacts at 2 files and
stops at 3, a memtable is full with one entry, tables with two, so that a few writes
reach level 2 with files to overlap and move. `Bounds` in `Compactions` and `Recovery`
is a set of scenarios: each allows much of one thing and little of the others.

Fairness is weak fairness of the steps of a program or thread that nothing blocks: the
sorts, the background thread, a reader in a search, a writer at the front of the queue,
Open. Killing, crashing, failing and invoking again are never required.

`CHECK_DEADLOCK FALSE` is set everywhere because the programs end and because the
behaviours of LevelDB end when their bounds are used up.

## Proofs

| Module | Proves |
|---|---|
| `MergeRunsProofs` | lemmas on the methods of `RunIterator` and on counting records; `MergeSorts` |
| `RunIteratorProofs` | `ScansConsecutively`, `RunIsExact`, `CurrentRecordIsLast` of iterators called in any order |
| `MkRunsProofs` | `MakesSortedRuns` |
| `MSortProofs` | `SortsItsInput`, `LeavesOutput`, `PassesAreSound` of the whole program |
| `StorageProofs` | `SearchesAreRight`, `SnapshotReads` of the memtable; `LocksExclude`, `EnvKeepsCount` of the environment |
| `RecoveryOpenProofs` | the steps of `DB::Open` keep the invariant of `RecoveryInvariant` |
| `RecoveryWriteProofs` | the steps of writers and of the background thread keep it |
| `RecoveryProofs` | closing, crashes and `RepairDB` keep it; `AcknowledgedSurvives`, `SequencesAreUnique`, `CrashPointsRecover` |

The properties are those the runs check, word for word. Where a module is used through
`INSTANCE` it has no `ASSUME`: what a proof needs of its constants is an operator
(`MergesAssumption`, `MkCallsAssumption`, `ListAssumptions`, `MemTableAssumptions`) that
is a hypothesis of the theorem, and an `ASSUME` of the `MC` module has TLC evaluate it.

### The iterators

`RunIteratorProofs` proves, for every file, record size, run length, buffer size and
number of iterators, what run *library* checks of `RunIterator`. The assumptions are
those of `Records` and `RunIterator`: `NULL`, `Garbage` and the records differ, sizes are
positive, no iterator is `NULL`. None of the properties is inductive. The invariant
`IInv` describes each live iterator by `IterInv`:

* `BufferInv`: the buffer is the stretch of the file that ends at `file_pos`, and
  `file_pos` is the start of the run plus what was returned plus what is left in the
  buffer. This is what makes the position of the shared stream irrelevant.
* `ScanInv`: what was returned is the file from the start of the run.
* `CountInv`: either no refill was short, and `records_left` plus the records
  returned is `run_length`; or one was, and then `records_left` is what is left in
  the buffer, the file has ended, and it ends within a buffer of the end of the run.
* `CurrentInv`: `current_record` is the last record returned, or `NULL` at the end.

`RefillLemma`, `HasNextLemma` and `NextLemma` (in `MergeRunsProofs`) show that each method keeps `IterInv`
and what it returns; `MethodLemma` lifts that to the state, the other iterators being
unchanged; `StepLemma` has one step per action. `Invariance` then gives
`TypeCorrectness`, `ScansConsecutivelyTheorem`, `RunIsExactTheorem`,
`NullIsFinalTheorem` and `CurrentRecordIsLastTheorem`.

### merge_runs

`MergeSortsTheorem`: for every file, record size, run length, buffer size and number of
runs. `MergeInv` adds to the type

* `IteratorsInv`: every iterator has its `IterInv` (see *The iterators*), and one without a
  record has its whole run left, so that `get_current_record` reads a record;
* `ControlInv`: at each place of the code, what the loops have established: `min` is the
  first of the smallest records among the iterators looked at (`Smallest`), the output
  buffer has room for the record that is copied, and at the end no iterator has one;
* `OutputInv`: the output and the buffer hold the records of the *pairs* of an iterator
  and a position it has copied, each once. With sorted runs and no overread the pairs
  are positions, and the output is the beginning of the stable sort of the file
  (`SortedPrefix`).

Pairs, and not positions, are needed for the overread: two iterators then copy the last
run. `SortedPrefixStep` shows that the record copied is the least of those left,
`DoneLemma` that at the end all positions are copied, or all and the last run twice.

### mk_runs

`MakesSortedRunsTheorem`: for every input, with and without an unterminated record, and
every run length. The *source* is the input and the unterminated record behind it.
`MkInv` says that for some multiple `base` of the run length the chunk is the stretch of
the source from `base` on (`ChunkInv`), that the records of the output come from
different positions of the source, each from its own run and none from a record still
unwritten (`TakenInv`), and that no unwritten record is smaller than one of its chunk
that is written (`OrderInv`). A one-to-one map of a finite set into itself is onto,
hence the counts of `RunsKeepRecords`.

### msort

`SortsItsInputTheorem`, `LeavesOutputTheorem` and `PassesAreSoundTheorem`: for every set
of invocations, any number of them in a row, each killed anywhere. The assumptions are
those of `MSort`: `InvocationsAssumption` (`k > 1`, and more than `k` bytes if a record
fits), `FileAssumption` (a missing file is not a sequence of records), and a positive
number of invocations.

The run lengths of the passes are those of the recursive function `Lengths`; since
induction principles cannot be instantiated, `NatSetInduction` gets induction over a
*set* of numbers from the well-foundedness of `<`. `LastPassLemma`,
`EarlierPassLemma` and `NeverWrittenLemma` settle the boundary cases of the "ugly
logic" that chooses the file to write (all in `MSortProofs`). `MainInv` has one predicate per place of `main`:
`LoopInv` says which file has the result of the last pass, `PassInv` that the file read
is that one, `ExitInv` what the output is. In `mk_runs` and `merge_runs` the invariant
is that of `MkRunsProofs` and of `MergeRunsProofs`, instantiated; what they leave when
they return (`ResultLemma`, `MergeResultLemma`) is what `LoopInv` needs.

### The memtable

`SearchesAreRightTheorem` and `SnapshotReadsTheorem`: for every ordered set of user keys,
every maximal height, any number of entries and of readers. The assumptions are
`MemTableAssumptions`: the user's comparator is a strict total order, keys have the form
of internal keys, and pointers that are not keys differ from them.

`ListInv` does not speak of reachability. A key is *placed* on a level if its node is
high enough and, for the node being inserted, if `Publish` has reached that level;
`Chain` says that a pointer of a level leads to the next larger placed key. A search
stands on a placed node before the key it looks for (`SearchInv`). Placed keys stay
placed, so nothing the writer does can disturb a search; and the writer's `prev` stays
right because there is one writer (`WriterInv`). `SequenceInv` and `GetsInv` add the
sequence numbers: an entry that is not linked yet has a number above `last_sequence`, so
all entries that a snapshot sees are placed when `Get` begins.

### The environment

`StorageProofs` also proves `LocksExcludeTheorem` and `EnvKeepsCountTheorem` for any
processes, any finite set of threads and any number of slots and functions. The
assumption is `EnvAssumption`: the threads are finitely many, `MaxMmaps` is a number, and
`None` is neither a process nor a number. The invariant has three parts:

* `LockInv`: the name is in a process's `locked_files_` exactly while one of its threads
  is between the insertion and the removal, which at most one is; and who holds the lock
  has the `fcntl` lock, unless a close has dropped it.
* `MmapInv`: `allowed_` and the threads that have a slot add up to the limit. The look at
  `allowed_` before the mutex is taken needs nothing: the second look decides.
* `QueueInv`: what was sent is what ran, the item that runs and the queue, in this order;
  before the thread is started nothing is in hand.

`LockLemma`, `MmapLemma` and `QueueLemma` have one step per action.

### The database on disk

`AcknowledgedTheorem`, `SequencesTheorem` and `CrashPointsTheorem`: for every set of
`Bounds` (any number of writes, batches of any size, any number of Opens, repairs and
crashes of the process or the machine, with and without failing I/O), every size of the
memtable, of a group and of the queue. The assumptions are those of `Recovery`: the
bounds have their types, and `NULL` is not a number. None of the three is inductive.
`RecoveryInvariant` has the invariant, in three parts. `IInv` describes the directory and
the process:

* `CurrentInv`: for every length to which a crash may cut the MANIFEST that CURRENT names
  (`Kept`), if `Recover` would accept it, its tables exist, and its counters are after the
  numbers of these tables and of their entries. `CompleteInv`: it would be accepted.
  Only the first edit, the snapshot, may lack the counters (`Orderly`), so that whether a
  cut is accepted depends on its last edit alone.
* `EntriesInv`: no two entries of the memtables, tables and logs together have one
  sequence number. `SequenceInv`: all are up to `last_sequence` but those of the record
  that is in the log and not yet in the memtable, and that one is numbered from
  `last_sequence + 1` (`GroupInv`). While Open reads the logs, what it has read is up to
  `max_sequence` (`LogsInv`).
* `EditInv`: the background thread's edit is a flush of the immutable memtable or a
  compaction of all tables, the MANIFEST holds it as its last edit once it is written, and
  the tables that it adds hold exactly what it replaces.

`DInv` says where the writes are that must not be lost: with the database closed, in the
tables of every acceptable cut of the MANIFEST and in the logs from its log number on,
those acknowledged with sync in the synced parts of the logs (`Recoverable`), and
in any case in some table or log, where `RepairDB` looks (`OnDisk`); while Open runs, in
the version, the tables it has added, its memtable and the records that it has not read
(`RecoveryInv`); in the open database, in its contents (`ContentsInv`), with every
memtable covered by a log that no acceptable cut of the MANIFEST has given up (`Covers`).
`DInv` is inductive given `IInv`. `OpenIsRecoverable` leads from `ContentsInv` to
`Recoverable`, which makes every step a possible last one; `LogCut` and `ManifestCut` say
what a crash of the machine leaves.

`LogInv` is for `CrashPointsTheorem` and says which log must be there: the one that every
acceptable cut of the MANIFEST starts from (`LogsKept`), and that of the open database. It
is inductive given `IInv`: an edit names the log in use or the one already named, and logs
are deleted only once the edit which gives them up is synced (`BackgroundKeepsLogs`).

Entries are counted by `Cardinality`, without recursion: `CountGrows` and
`NumberedEntries` show that the numbers of a group are different and fill an interval.

### What is only model-checked

* Liveness (`LibraryReturns`, `MSortTerminates`, `BSortEnds`, `StorageGoesOn`,
  `WorkSettles`, `WritesReturn`): out of the prover's reach.
* Results of recursive operators and of folds over data, which need induction over data:
  the tables, the encodings, the log on bytes, the parser and the schema, `Iterators`
  (`MovesAsCursor`), and the helpers of `LRUCache`, `TableCache`, `MemEnv`, `Versions` and `Compactions`, whose
  modules the prover cannot take while they declare recursive operators.
* `PassSizes` and `BSort`, for which there are no proofs yet.

## Not modelled

* A buffer of 0 bytes (`mem_capacity <= k`), `k = 1`, the size of the stack, concurrent
  sorts in one directory, disk errors in the sorts.
* Sort keys of different widths in one leftover tree; lines that do not fit the schema.
* LevelDB: `DestroyDB`, RepairDB's scan of damaged tables and the levels it gives them,
  an append to the log that fails half way, compression, iterators' read sampling in
  `DBIter`, writers' one-millisecond delays, the arena, checksums and hashes as functions,
  the file system below `Env` (the order in which a directory becomes durable), the C
  binding, tools, benchmarks and ports.
* jsoncpp: allocators, the wording and positions of errors.
* UnitTest++, the tests, the data generator and the scripts, which were read for what
  they expect.

## Plan

Next, in this order: the numbers of runs of `PassSizes` proved; the reference counts of
`LRUCache` and the order of a level in `Compactions` proved, for which their recursive
helpers have to become functions; an abstract database (a map and its snapshots) that
`Compactions` implements; `Compactions` and `Recovery` composed.
