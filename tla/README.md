# A verification project for SchemaCodeGen

TLA+ models of the stateful parts of this repository, the TLC configurations
that check them on small instances, and TLAPS proofs of what matters most for
every instance.

## The system

The repository holds a console tool and, beside it, the sources of LevelDB.

* **SchemaCodeGen** (`app/main.cpp`, `src/CreateDOM.cpp`) reads CSV schema
  files into an object model (`CreateDOM::create`, `parseCSV`, once per file)
  and prints C++, JSON codecs, TypeScript and protobuf from it (`saveCPP` and
  the other savers). It is sequential.
* **LevelDB** (`src/leveldb`) is a key-value store: client threads write
  through a queue into a log and a memtable, one background thread turns full
  memtables into table files and compacts them. CMake's file list does not
  match its `.cc` files and its public headers are not in the repository, so
  the header's promises are not used here: what a call promises is taken from
  comments in the sources that are present.

### Components

| Component | State | Operations | What is hard | Modelled in |
| --- | --- | --- | --- | --- |
| CSV reader, `CreateDOMDef` | the object being read, `mHaveObject`, `mEndOfFile`, the DOM's object vector and map | `parseCSV`, `processArgs`, `DOM::importComplete` | several files into one DOM, order of rows, passes that run again over old objects, pointers into a growing vector | `SchemaRows`, `SchemaImport` |
| Code printers and output files | one buffer per output file, `mFinalized`, the files of earlier runs | `printCode`, `finalize`, `saveCPP` and the other savers | failure part way through a set of files, files taken for unchanged | `OutputFiles` |
| Generated codecs | the document read or written | the printed serializers and deserializers | two printed functions that must agree, also between versions of a schema | `Codec` |
| `DBImpl` writers | `writers_`, memtables, log, `LastSequence` | `Write`, `BuildBatchGroup`, `MakeRoomForWrite` | group commit without the mutex, condition variables, failures | `DBImpl`, `BatchStore` |
| `DBImpl` background work | `imm_`, `manual_compaction_`, `background_compaction_scheduled_`, `bg_error_` | `BackgroundCall`, `CompactMemTable`, `DoCompactionWork`, `TEST_CompactRange`, `~DBImpl` | windows without the mutex, stale pointers, lost wakeups, shutdown | `DBImpl` |
| `VersionSet` | files per level, MANIFEST, log number | `LogAndApply`, `PickCompaction`, `CompactRange` | disjoint levels under concurrent edits | `LsmTree`, `Recovery` |
| Recovery, repair | files on disk | `Recover`, `RecoverLogFile`, `Repairer` | crashes between any two steps | `Recovery` |
| Log format | block offset, fragments | `AddRecord`, `ReadRecord` | resynchronisation after damage | `LogFormat` |
| Reads | snapshots, iterators, skip list | `Get`, `DBIter`, `MergingIterator`, `TwoLevelIterator`, `SkipList` | direction changes, readers beside a writer, blocks that cannot be read | `Iterators`, `SkipList`, `LsmTree` |
| Versions and caches | reference counts, the cache's lists, `pending_outputs_` | `Ref`, `Unref`, `LRUCache`, `TableCache`, `RemoveObsoleteFiles` | lifetime of files and of entries | `TableFiles` |
| Tables, blocks, filters | none | builders and readers | restart points, index keys | in part `Iterators` |
| Environment, encodings, C interface, dump tool, text helpers, rapidjson | little or none | system calls, pure functions, vendored code | | choices in the models above |

The parts interact by direct calls. `parseCSV` calls `processArgs` per row and
`importComplete` at the end of the file; the savers read the DOM. In LevelDB
all shared state is behind `DBImpl::mutex_`, except in marked windows in which
a thread writes a log, a memtable or a table, in readers of the memtable, which
take no lock, and in the cache, which has locks of its own;
`background_work_finished_signal_` and one condition variable per writer
connect the threads.

What makes each component correct: the reader loses and misplaces nothing and
its result does not depend on file boundaries; another run repairs what a
failed one left; a document is read back as it was written, by newer and older
code too; a batch is atomic, an acknowledged one is kept, nobody sleeps for
ever, nothing is used after it is freed; levels stay disjoint; recovery returns
what was promised; a log reader never invents a record; a cursor shows exactly
its snapshot; a file lives as long as somebody needs it and a cache entry
exactly as long as it is in use. `PROJECT.json` lists the hazards line by line.

## The modules

| Module | Content |
| --- | --- |
| `SchemaImport` | the passes of `DOM::importComplete` as operators over a sequence of objects |
| `SchemaRows` | the row machine of `parseCSV` and `processArgs` over `SchemaImport` |
| `Codec` | what the printed serializer and deserializer of a class do with a document |
| `OutputFiles` | `saveCPP` and `finalize` over several runs of the tool |
| `DBImpl` | the threads of an open database |
| `BatchStore` | what `Write` promises: a batch takes effect as a whole, once, between call and return, if and only if the call returns OK |
| `LsmTree` | entries in memtables and levels of files; how flushes and compactions move them; point reads |
| `LogFormat` | the fragments and blocks of a log, written, damaged and read |
| `Recovery` | the database's files, steps between file operations, crashes, `DB::Open` and `RepairDB`, over `LogFormat` |
| `Iterators` | `DBIter` over a merging iterator over the memtable and a table |
| `SkipList` | one writer and a reader of the memtable's skip list under the C++ memory model |
| `TableFiles` | versions, `pending_outputs_` and the table cache against `RemoveObsoleteFiles` |
| `MCSchemaRows`, `MCDBImpl`, `MCLsmTree`, `MCRecovery` | instances for TLC |
| `MCTool` | `SchemaRows`, `Codec` and `OutputFiles`, one of them per behaviour |
| `MCReads` | `Iterators`, `SkipList` and `TableFiles`, one of them per behaviour |
| `DataLemmas`, `SchemaRowsProofs` | lemmas on sequences and sets; theorems about `SchemaRows` |
| `DBImplProofs` | theorems about `DBImpl`: queue, request, errors, sleepers and shutdown; what is kept of a write and what is seen of it |
| `LsmTreeProofs` | theorems about `LsmTree`: age order and shape of the levels; what reads find and manual compactions leave |
| `RecoveryProofs` | theorems about `LogFormat` and `Recovery`: a log is read back as it was written; a database opens again |
| `ReadsProofs` | theorems about `Iterators` and `SkipList` |
| `TableFilesProofs` | theorems about `TableFiles`: which tables are there and open |
| `GeneratedProofs` | theorems about `OutputFiles` and `Codec` |

### SchemaRows

A state is what a `CreateDOMDef` holds between two rows. `OpenFile` and
`FinishFile` are the beginning and the end of `parseCSV`, `EmptyFile` is a file
without a byte, and one action per kind of row is `processArgs`. Both ends
(`EndFile`) include the whole of `importComplete`. Names are uninterpreted; a cell
is kept only if a pass reads it; `settings` are the members of the DOM that rows
without objects set. `mObjectMap` has pointers into the vector: such a pointer is
the position of the object it leads to, or `Dangling`. A `push_back` may move the
vector, and whether it does is a choice (`TableAfterPush`); once it does, every entry
dangles until the last pass of `importComplete` writes it again (`LookupTable`,
over what the table held before). Nothing of `parseCSV` follows a pointer in
between, so that this is no defect; that no entry of an earlier file is left over
afterwards is `LookupCurrent`. `log` is a history
variable: the rows that were read, with "end" between files; a member carries
the position of its row, which makes losing, doubling and moving a member
visible. Children are registered when a derived class's row is read, with the
objects whose rows came before. `ChildrenInherit` says that this registers only
classes that inherit, and all of them where no derived row comes before its base's;
`InheritingAreChildren`, which is what the comment on `mChildren` says, fails where
one does. Three facts of the code show in the model and are not stated as
properties: rows of members before the first object row are kept, also across
files, and become members of the first object; a last row without a line feed
is never processed; and reflection is decided from direct members only, so that
a class that declares a member of a marked class is not itself marked further up,
although the comment at `CreateDOM.cpp:3650-3651` says that anyone declaring such an
object needs reflection as well.

`ImportComplete` writes a pass over the vector as one function: each pass
writes to an object only fields that no later object's turn in the same pass
reads.

### Codec

`Codec` is about the program the tool prints, not about its text: which entries
`saveSerialize`'s output adds to a document, and what `saveDeserialize`'s
output makes of any document. A schema is a class and its base class; `Declare`
adds one member at a time, to the version of the writer, to that of the reader,
or to both, the older one perhaps with a compatible older type (text that
became a number, a whole number that became a real one, an enum by name that
became one by number, required that became optional or back). A document is an
ordered list of entries in which names may repeat, as in rapidjson.

| Code (`CreateDOM.cpp`) | Definitions |
| --- | --- |
| the serializer | `SerializeMember`, `Serialize` |
| the deserializer | `Filters`, `Takes`, `ReadMap`, `ReadMember`, `Missing`, `Target`, `DeserializeMember`, `Accept` |

Only schemas whose printed code compiles are considered: arrays of bools and
reals, pointers, integers of 8 and 16 bits, maps of bools, reals and classes,
and optional arrays and maps of strings give code that does not compile; arrays
of enums compile only if the class has a member `acl`; maps of numbers only
beside maps (an assertion at line 870). Values are two symbols, nested objects
are abstract.

Some shapes compile and still do not do what they should; `Unserved` names them
and `Understood` excludes them. Each exclusion is necessary: without
any one of them TLC finds a counterexample.

* An array of strings is rejected whatever it holds: `IsString` is asked of the
  array (line 990).
* An array of enums is pushed to `r.acl`, whatever the member's name (line 1117).
* A map takes every entry that fits and that its own class does not know, so
  also members of a derived class, entries of another map of the class, and
  members that a newer version added; a map of enums rejects all it does not
  take. A map of strings asks whether its class or the base class knows the
  name only if the class has plain members of its own (`Filters`, line 889): one
  with nothing but maps takes its base's plain strings as well, against the
  comment printed for the loop (`KeysSkipped`).
* A required plain enum that is missing is accepted (1174-1195), a map is never
  missed, and the getter of a whole number asserts on a real one.

### OutputFiles

`SaveCPP` begins a run over the files it prints, in the order of `saveCPP`
(TypeScript, header, source); `Compare` is `finalize` up to where it has
compared the new text with the file, then `Truncate`, `Write`, which may be
short, and `OpenFails`. Between runs the schema may change and a user may edit
a file; the tool may be stopped anywhere. `failed` is a history variable. The
tool reports no failure, so after one the set of files may be of two schemas
and nobody is told; `RunRepairs` says that a further run in which nothing fails
makes every file right, also if it has the size of what should be there. The
other savers write one file each in the same way.

### DBImpl

`mutex` is a variable and each action is the code between two points where
the thread takes or gives up `mutex_`, or, in the windows without it, one call
to the log, the file or the memtable. A condition variable is the set of its
sleepers; a signal without sleepers is lost, as in the code. `pc` and `frame`
hold where a thread is and its locals (`Writer`, the `ManualCompaction`
request, the variables of `Write`). The background thread is `bg`;
`scheduled` is `background_compaction_scheduled_`, and the environment runs one
scheduled call at a time.

| Code | Actions |
| --- | --- |
| `Write`, until it is this writer's turn | `Write`, `TurnWait`, `TurnDone`, `TurnLead` |
| `MakeRoomForWrite`, one action per branch | `RoomError`, `RoomDelay`, `RoomFits`, `RoomWait`, `RoomNoLog`, `RoomSwitch` |
| `BuildBatchGroup` | `BuildGroup`, `NoGroup` |
| the window without the mutex | `AddRecord`, `AddRecordFails`, `Sync`, `SyncFails`, `InsertUpdate` |
| the end of `Write` | `Relock`, `Pop` |
| `TEST_CompactMemTable` | `Write` with a null batch, then `FlushStep` |
| `TEST_CompactRange` | `CompactRange`, `ManualWait`, `ManualReturn` |
| `~DBImpl` | `Close`, `CloseStep` |
| `BackgroundCall`, `BackgroundCompaction` | `BGNothing`, `BGMemTable`, `BGManualDone`, `BGCompaction`, `EndCall`, `EndCompaction` |
| `CompactMemTable`, `RemoveObsoleteFiles` | `BGTableBuilt`, `BGTableFailed`, `BGApplied`, `BGApplyFailed`, `BGUnlinked` |
| `DoCompactionWork` | `BGInnerMemTable`, `BGCompacted`, `BGCompactionFailed`, `BGInstalled`, `BGInstallFailed`, `BGCleaned` |

Abstractions: an update is a name; sizes are counts, and since sizes in bytes
are data, any batch may be the one that makes a group too big; deeper levels
are only the place where compacted files go, and an automatic compaction is
due when level 0 is full (not for the size of a deeper level or for seeks); a
manual compaction may take any number of level 0's files, depending on its range; a
compaction of a level keeps every update in `tables`; a failed LogAndApply
leaves the version in memory unchanged. `hist` is a history of the calls.

### LsmTree

`DBImpl` is about who runs when, `LsmTree` about where the data is. Only the
background thread edits the version, so what `DBImpl` spreads over the steps of
the background thread is here two actions per compaction, and writes, switches
of memtables, snapshots and flushes run between them, as they do while
`DoCompactionWork` has released the mutex. An entry is a sequence number; keys
are numbers in the comparator's order.

| Code | Definitions |
| --- | --- |
| `GetOverlappingInputs`, `AddBoundaryInputs`, `SetupOtherInputs` | operators of these names, `GrownRange` |
| `PickCompaction`, `Finalize` | `AutoPicks` from `SizePicks` and `SeekPicks` |
| `VersionSet::CompactRange` | `ManualPicks` |
| `PickLevelForMemTableOutput` | `PickLevels` |
| `Version::Get`, `ForEachOverlapping` | `Get`, `Searched`, `Charged` |
| `IsTrivialMove`, `IsBaseLevelForKey`, `ShouldStopBefore` | `Movable`, `BaseKeys`, `Outputs` |
| the loop of `DoCompactionWork` | `Kept`, `OutputFiles` |
| `VersionSet::Builder` | `Edited` |
| `BackgroundCompaction`, `CompactMemTable`, `InstallCompactionResults` | `BackgroundCompaction`, `CompactMemTable`, `EndCompaction` and their failures |
| `TEST_CompactRange` | `CompactRange`, `PostAgain`, `ManualReturn` |

Every comparison of sizes in bytes is a choice: a level above 0 may be due when
it has files, a range may be cut after any file, an output may end before any
entry, grandparents may be too big if there are any. Binary searches are the
search for the first file that fits, which is the same on the disjoint levels
that `LevelsDisjoint` establishes. `FindFile` on overlapping files is not part
of the module.

### LogFormat and Recovery

`LogFormat` has a log as a sequence of cells, where a header takes `HeaderSize`
and a payload cell stands for a share of a record's bytes. `Fragments` is
`AddRecord`, with the trailer of a block and the fragment without payload: a
header that just fills a block is a first fragment, and what follows it in the next
block is a middle or a last one, since `begin` holds in the first turn only;
`ReadAll` is `ReadRecord` until it ends, over any cells, damaged ones too. The
initial offset, which no caller uses, is left out.

A state of `Recovery` is the directory (CURRENT, MANIFESTs, logs, tables, and
how much of each file is synced) and, if a process has the database open, what
it knows. An action is the code up to and including one operation on a file, so
that a crash or the end of the process may come between any two.

| Code | Definitions |
| --- | --- |
| `DBImpl::NewDB`, `SetCurrentFile` | `NewDBManifest`, `NewDBCurrent`, `RenameCurrent` |
| `VersionSet::Recover`, `DBImpl::Recover` | `RecoverVersions`, `LogsToReplay`, `RecoverLogFile`, `LastSequence` |
| `RecoverLogFile`, with memtables that fill up and logs that are reused | `ReadLog`, `Segment`, `Replay`, `Reuses` |
| `LogAndApply` with the file operations apart | `WriteEdit`, `SyncEdit`, `RenameCurrent`, `InstallEdit`, `EditFails`, `OpenEditFails` |
| `RemoveObsoleteFiles`, which does nothing after a background error | `RemoveObsoleteFiles`, `Obsolete`, `Removed`, `NotRemoved` |
| the end of `DB::Open`, or its failure | `FinishRecover`, `GiveUp` |
| `Write`, `MakeRoomForWrite`, `CompactMemTable`, a compaction | `WriteLog`, `WriteLogFails`, `FinishWrite`, `SyncFails`, `SwitchMemTable`, `BuildTable`, `CompactMemTable`, `Compact` |
| `RepairDB` | `StartRepair`, `RepairLog`, `ArchiveLog` for each log, `ArchiveManifest` for each MANIFEST, `RenameDescriptor`, `RepairCurrent` |

The file system is external and assumed as little of as possible: a crash of
the machine leaves any prefix of what was not synced, or zeros in its place
(`Losses`), each file by itself; renames and removals last. `SyncedSurvives`
says that an update acknowledged as synced is found by the next `DB::Open`.
`damaged` collects what the properties except because the code does not protect
it:

* Logs in which an append failed: `log_writer.cc:110` advances `block_offset_`
  all the same, so that later records are misplaced (`SyncedSurvives`,
  `NoGapsInALog`).
* Databases whose repair was broken off at any step: converted logs are moved away
  before a MANIFEST names their tables, and `DB::Open` in between removes the tables
  (`SyncedSurvives`).
* Databases from where a repair puts its MANIFEST 1 in place of the old ones, since
  it reads logs without checksums (`NothingInvented`).
* MANIFEST files, for `OpensAgain`, in two cases. RepairDB archives them one after the
  other and renames the new one only then (`repair.cc:392-398`), and until CURRENT
  follows (line 400) it may name a file that is not there: if the process ends in
  this window, `DB::Open` refuses, and RepairDB has to be run again; the
  new MANIFEST is never synced. And a crash that leaves zeros at the end of the
  current MANIFEST may make it read as corrupt. A MANIFEST that a crash cut off, at
  whatever place, is not excepted: it must open. Neither is a missing table, ever
  (`refused = "missing"`).

`sessions` counts the ends of the process; `NoGapsInALog` compares the updates of
one process. The comment at
`repair.cc:163` speaks of checksums while the reader is created without them.

`ReuseLogs` is `{FALSE}` in the run, as `reuse_logs` is by default. With
`{TRUE}` TLC violates `SyncedSurvives` in two ways: records appended behind the
torn end of a log are lost with its block; and a reused MANIFEST whose last edit
was never synced makes `DB::Open` remove a log that the edit made obsolete, and
a crash then takes the edit back.

### Iterators

The memtable is an ordered set of entries, the table a sequence of blocks of
entries with restart points and an index of last keys. `BlockSeek`, `TableSeek`,
`MergeNext` and their like are the iterators' methods as operators on a record
of the iterator's fields; the actions are `DBIter`'s calls, cut where a call
moves the merging iterator once, with `Insert`, the writer, in between. A turn
of the merging iterator positions each other child by two calls, which are two
steps. Any blocks may be unreadable. `CursorCorrect` says that after every
call the cursor is where the reference definition puts it: at the least or
greatest visible key of its snapshot on its side; `GapsReported` that after every
call that leaves it anywhere else, because a block was passed over, `status` says
so. Both are proved for any database, any sizes of
blocks and restart intervals and any calls. The loops of `Block::Iter::Seek` and
`SkipEmptyDataBlocks...` are recursive functions over as many iterations as they can
take (`Searched`, `Skipped`).

### SkipList

A thread's view of a node's pointer is the index of the newest store it must
see: a load may return any store from there on (`Loads`), and a load with
acquire of a store with release takes over the writer's view at that store.
`max_height_` is relaxed. `ListInsert` is the writer's search and plan, all of it, since
only the writer stores (`PrevOf` is `prev[]` as `FindGreaterOrEqual` fills it, and
`LastBefore` its way along one level); `WriterStores` does one planned store per
step. `Search`, `SearchStep` and `Follow` are the reader. `NoWildRead` says that a
reader never follows a pointer to a node it does not see constructed,
`SearchIsAtomic` that a search returns what it would have returned at one moment
between its first and its last load, which is what allows `Iterators` to search
the memtable in one step. Both are proved for any number of keys and any height.

### TableFiles

A version is its set of files. Readers (`DBImpl::Get`, iterators) take and give
up a version and open tables through the cache; the background thread flushes
and compacts, and its places are named in `at`. `FindTable`, `OpenFile` and
`InsertTable` are `TableCache::FindTable` with the window in which the file is
opened without a lock. `RemoveObsoleteFiles` makes its list and evicts under the
mutex, `RemoveFile` removes one file later; a file that is open stays, as on
Windows. `FinishErase` erases a set of entries at once, since they are different
entries and their order makes no difference. Operations that fail are `Recovery`'s. It is not true, and not stated,
that the cache keeps within its capacity: `Release` may put an entry on `lru_`
that only the next `Insert` evicts. `pending_outputs_` loses a flush's number
before `LogAndApply` installs its file (`db_impl.cc:525`); that is safe only
because the same thread is the only one to run `RemoveObsoleteFiles`, which is
what the proof of `NoTableMissing` uses.

## Runs

| Run | Bounds | What it shows |
| --- | --- | --- |
| `tool` | `SchemaRows`: 2 names, 5 rows, 2 files, symmetry in the names; `Codec`: 2 members, all six kinds and all shapes; `OutputFiles`: 2 schemas, 3 runs | types; every item row becomes one member, of the object above it; children, bases of bases, lookup and reflection marks do not depend on file boundaries; a document is read back as it was written, between any two classes and their versions; another run repairs the files |
| `schema_children` | a class and its base, violation | a class read before its base is not among the base's children |
| `generated_map_keys` | `Codec` with 2 members, violation | a map of strings in a class without plain members takes its base's strings |
| `db_writers` | 3 threads, 4 writes, memtable of one batch, triggers 1, 1, 2, every operation but a compaction may fail, symmetry in the threads | one logger; no lost wakeup; no success after an error; synced means on disk; nothing unlogged; whole batches; `DBImpl` implements `BatchStore` |
| `db_background` | 2 threads, 3 writes or flushes, 2 manual compactions, compactions may fail, fairness | no lost wakeup among all kinds of waiters; the pointer to a request never dangles; nothing runs after the destructor; every call returns |
| `db_forced_flush` | 3 threads, violation | a forced flush may leave the memtable as it was |
| `db_manual_error` | 2 threads, violation | an error during a manual compaction makes the background thread follow a null pointer |
| `lsm_tree` | 2 keys, 3 updates with deletions, 1 snapshot at a time, 3 levels, background work may fail | newer entries are found first; reads return what was written, at the end and at snapshots |
| `lsm_gaps` | 3 keys, 4 updates, 3 levels | levels stay disjoint; newer entries first; a manual compaction, of the whole range or a part, leaves nothing of it behind |
| `lsm_overlap` | 3 keys, 4 updates, clients go on during a manual compaction, violation | two files of a level overlap |
| `recovery` | 2 writes, 2 faults, blocks of 5 cells, headers of 2, records of 4, edits of 2 | synced updates survive crashes, failures and repairs at any point; a log is found without gaps; nothing is invented; sequence numbers are unique; the database opens again |
| `reads` | 2 keys, 5 updates of which 3 in two blocks, 2 snapshots; skip list of 3 keys and height 2; 1 reader, 3 tables, cache of 1 | cursors are where they belong and report gaps; readers of the skip list never go wild and are atomic; the cache is consistent, no table in use is removed, none that is removed is open |

Why the bounds are enough.

* Five rows over two files give an object split from its members by a file
  boundary, a base before and after two derived classes, and a repeated name on
  both sides of a boundary.
* Two members give a member and its neighbour in one class, in base and derived
  class, or one of them known to one version only, in every combination of
  kinds; three members, of the kinds that meet in maps, were checked once and
  showed nothing further. Two texts of the same size and three runs are a
  failure, its neighbour and the repair.
* Three writers give a leader, a follower and a writer that arrives meanwhile;
  four writes with a memtable of one batch fill the memtable, the immutable
  memtable and level 0 up to `StopTrigger`, so every wait of `MakeRoomForWrite`
  happens. `MaxCalls`, `MaxManual`, `MaxRows` and `MaxFiles` are the only bounds
  on behaviour; the level triggers are scaled down from 4, 8 and 12 and keep
  their order (`TriggerAssumption`).
* In `LsmTree`, three levels are the two a compaction works on and the one
  below; two keys and three updates give a key cut between two files, a deletion
  above an old value, and a snapshot between two versions; three keys give a
  gap, and four updates several overlapping files in level 0 (`MaxWrites` and
  `MaxSnapshots` are its only bounds on behaviour). `OneClient` in the two
  passing runs is a client that waits for its manual compaction before it does
  anything else; flushes inside automatic compactions remain.
* In `Recovery`, a record of four cells behind a header of two does not fit a
  block of five, so that the first record is cut in two; what is left of the second
  block is just a header, so the second record begins with an empty first fragment
  and has a middle and a last one. An edit of two cells leaves one cell of its
  block, too short for a header, so that a trailer occurs in MANIFESTs; two faults give a crash during the recovery from a crash, or a failure
  and then a crash. `MaxWrites` and `MaxFaults` are the bounds on behaviour.
* In `Iterators`, three versions of a key, a key cut between blocks and between
  table and memtable, a deletion and a hidden newer entry all occur; three keys
  (4 minutes) and longer blocks with two entries per restart were checked once.
  In `SkipList` two levels are enough for a node linked in one and not yet in
  the other, and three keys for a search that passes one node and stops before
  the next. In `TableFiles` two readers with two tables were checked once.
  `MaxUpdates`, `MaxKey` and `MaxFile` are the bounds.

`MCReads` and `MCTool` run one of their modules per behaviour: the modules
share no state, and their states add up rather than multiply.

Deadlock is checked in every `DBImpl` run; it is off for the others, whose
environments may stop: when the files are read, when nothing more is written, no
fault is left, or the cursor is not called again.

Fairness (`FairSpec` of `DBImpl`): weak fairness of each thread's steps and of the
background thread: the operating system runs a thread that can run, a mutex
that is free is eventually obtained, and `Env::Schedule` eventually runs a
scheduled call. Clients are not required to call. `CallsReturn` is checked
with compactions that may fail, and not with the failures after which the
background thread may crash (`db_manual_error`). The other modules promise
nothing that takes fairness: each of their calls runs by itself to its end.

## Findings

1. `InheritingAreChildren` (`CreateDOM.cpp:3686`): a derived class whose row comes
   before its base's is never registered with the base.
2. `ForcedFlush` (`db_impl.h:57`): a null batch taken into another writer's
   group forces nothing, and `TEST_CompactMemTable` returns OK.
3. `RequestOutlivesCompaction` (`db_impl.cc:778-779`): after an error,
   `TEST_CompactRange` clears `manual_compaction_` while its compaction is
   running, and `BackgroundCompaction` dereferences it.
4. `LevelsDisjoint` in `lsm_overlap` (`version_set.cc:727`): a manual compaction
   takes two files with a gap between them, a memtable whose keys lie in the gap
   is flushed meanwhile into the level of the output, and the output spans the
   gap. The assertion in `MaybeAddFile` fails; without assertions `FindFile` no
   longer finds one of the two files.
5. `KeysSkipped` (`CreateDOM.cpp:891`): the check that keeps members out of a map of
   strings is printed only if the class has plain members of its own (line 889), so
   that a class with such a map only takes the plain strings of its base class.

## Proofs

Theorems assume the named assumptions on the constants (`BlankAssumption`,
`RowsAssumption`, `DBAssumption`, `TriggerAssumption`, `LsmAssumption`,
`SkipListAssumption`, `IteratorsAssumption`, `CodecAssumption`, `FormatAssumption`,
`RecoveryAssumption`); those about `Recovery`'s properties assume that no log is reused; three
theorems about `LsmTree` assume `OneClient`; those about `TableFiles` assume that
readers, the background thread and the version set have different names
(`NamesApart`) and, but for `NoTableMissingAlways`, that the cache's capacity is a
natural number. Every safety property of `SchemaRows`, `DBImpl`, `LsmTree`,
`TableFiles`, `SkipList`, `Iterators`, `OutputFiles` and `Codec` is proved,
and two of `Recovery`'s six.

`MCReads` extends `TableFiles`, `SkipList` and `Iterators`, `MCTool` extends
`SchemaRows`, `OutputFiles` and `Codec`, and they check the properties of these as they stand there; in the
behaviours in which another module moves, these stay in an initial state.

* `TypeCorrect` (`SchemaRows`, `TypeOK`). `TypeOK` is inductive because it says that
  an object in the vector has a name, and the open one if a row opened it; without
  that the domain of the lookup table could contain `Blank`. The passes of
  `importComplete` are covered by lemmas that each keeps the vector's length and types.
* `MembersConserved` (`SchemaRows`, `ItemsConserved`). Pushing, clearing, child
  registration and `importComplete` leave the members of the documents as they
  are (`SameDocumentsSameMembers`), and an item row adds the one member whose
  row is new (`ItemRowConserves`).
* `ItemsOwnedAlways` (`SchemaRows`, `ItemsOwned`). `OwnedInv` adds that the last row
  belongs to an object row only while an object is open. This is what puts the
  next item row in its object, also when an item row stood before the first
  object row of a file and filled an object that nobody opened. The place of an
  object is the number of object rows up to its own (`PlaceOfRow`, `LogGrows`).
* `ChildrenAlways` (`SchemaRows`, `ChildrenInherit`). `ChildInv` is stronger: the
  children of an object are the names of the later documents that name it as their
  base, in order. It says so of the open object too, which has no children yet, and that an object that no
  row opened names no base; then a row's registration with the pushed objects is
  registration with all documents before its own (`FollowLinked`).
* `LookupCurrentAlways` and `ImportOrderFreeAlways` (`SchemaRows`, `LookupCurrent`,
  `ImportOrderFree`). Only the end of a file leaves the loop (`OnlyEndFileLeaves`), and
  it runs the passes over the whole vector after the push (`AfterEndFile`,
  `ImportWrites`, `MultipleInheritanceFound`). That no old entry of the lookup table
  keeps dangling needs an invariant of its own: the table has only names of objects in
  the vector, also while its pointers dangle (`TableNamesObjects`), so that the last pass
  writes every entry (`LookupTableWritten`).
* `OneLoggerAlways` (`DBImpl`, `OneLogger`). The inductive invariant `QueueInv`
  adds to it where in the queue the last writer of a group stands: writers
  enter at the back only, so the group a leader formed is still the front part
  of the queue when it takes it out.
* `ManualInScopeAlways` (`DBImpl`, `ManualInScope`), from the same `QueueInv`:
  the two need each other, since the background thread writes `done` into the
  frame the pointer leads to, and that must not be the frame of a writer.
* `NoWriteAfterErrorAlways` (`DBImpl`, `NoWriteAfterError`). `StatusInv` says why
  a group cannot smuggle in a late writer: the leader holds the mutex from its
  test of `bg_error_` until it has formed its group (`TestedUnderMutex`), so
  whoever is in the group entered before an error that comes later
  (`GroupCameBefore`); an error is never taken back; and a leader that sees one
  hands it to the writers it pops (`DoneCameBefore`).
* `NoLostWakeupAlways` and `ClosedIsQuietAlways` (`DBImpl`, `NoLostWakeup`,
  `ClosedIsQuiet`). `WakeInv` says that while no background call is
  scheduled nothing is due, unless an error was recorded or
  the database closes (`ScheduledIfDue`); a writer that waits because level 0 is
  full needs `CompactionTrigger <= StopTrigger` for this. `ShutDown` says that
  the destructor leaves its wait only when nothing is scheduled and that nobody
  schedules afterwards.
* `StoreIsLoggedAlways` and `SyncedWhenAcknowledgedAlways` (`DBImpl`,
  `StoreIsLogged`, `SyncedWhenAcknowledged`). `DurabilityInv` follows an update on
  its way. What is in `mem_` is in the current log, what is in `imm_` in a log
  that is no older than LogNumber (`MemLogged`, `ImmLogged`), and a log is removed
  or LogNumber moved only once a table holds what the log was kept for. A leader's
  record has the updates of the writers it pops and no others (`GroupRecordHolds`), it is
  in the current log before the first of them is inserted, and synced before that
  if one of the group asked for it (`Progress`); after its last insertion the
  batches of the whole group are stored, and every step carries that on
  (`Stored`, `Durable`). Both assume that `Null` is not itself a set of entries
  (`NullIsNoMemtable`).
* `WholeBatchesAlways` (`DBImpl`, `WholeBatches`), under the same hypothesis.
  `BatchInv` says that what is in the store and ahead of LastSequence is what the
  one leader is inserting, numbered without gaps (`NumberShape`), so that only
  `Relock` changes what a reader sees, and shows the whole record at once
  (`Publishes`). A call in progress belongs to one thread (`CallsApart`); a writer
  in the queue is unseen unless the leader of its group is about to return OK
  (`QueueUnseen`), and a follower that was told of an error is unseen
  (`FailedUnseen`).
* `BatchesAreAtomicAlways` (`DBImpl`, the refinement `BatchesAreAtomic`). `Write` is
  `Call`, a `Relock` that shows a group is `Apply`, `TurnDone` and `Pop` are
  `ReturnOK` or `ReturnError`, and every other step of a thread or of the
  background thread leaves the abstract state alone. That a call returns OK only
  if its batch is seen combines `DurabilityInv` (it is stored) with `BatchInv`
  (what is stored and not seen belongs to a writer still in the queue).
* `TypesAlways` (`DBImpl`, `TypeOK`), under the same hypothesis. `TypeInv` rests on the
  invariants above and has three parts: the shape of a thread's locals at each place
  of its call (`ThreadShape`); that level 0 never has fewer files than the compaction
  under way has taken as inputs (`CompactionShape`); and that the request of a
  manual compaction that runs is the registered one, or one that an error or the
  destructor cancelled (`RequestOpen`), so that its end counts down its own request
  only.
* `TypeCorrect` and `NewerFirstAlways` (`LsmTree`, `TypeOK`, `NewerFirst`), for any
  number of clients. `NewerFirst` alone is not inductive: that a compaction
  may put its outputs below what stays in its level depends on how its inputs
  were chosen, and while it works flushes change the version. `Inv`
  has four parts. `Typed` are the types. `NewerFirst` is the property.
  `LevelsParted` is what remains of disjointness when clients go on during a manual
  compaction: two files of a level above 0 are in order, or one lies in a gap of the
  other, and a file that shares a key with another one is in no gap; without it
  `AddBoundaryInputs` could stop short of a file that goes on with a key.
  `WorkKept` is what the compaction under way keeps relying on: its inputs are
  still there, whatever stays in their level is newer (`LeftNewer`), its outputs
  fit between the files that stay in the next level (`Fits`), no deeper level has
  the keys whose deletions it may drop (`DeletesLast`), and no snapshot is older
  than the one it spares (`SnapshotOldest`). `CompactionWork` shows that every pick,
  automatic or manual, begins that way, `WorkFlush` that a flush into any level
  `PickLevelForMemTableOutput` may choose leaves it so.
* `LevelsDisjointAlways` (`LsmTree`, `LevelsDisjoint`), with `OneClient`; the run
  `lsm_overlap` is its counterexample without. `OneInv` adds to `Inv` that
  no file lies in a gap of another (`NoSpan`) and that none will: the inputs of an
  automatic compaction are connected (`Joined`, since they grow from one file by
  overlaps), so that a flushed file gets into no gap between them, and during a manual
  compaction the one client waits and nothing is left to flush (`ManualHeld`).
* `PreservedAlways` (`LsmTree`), for any number of clients: of each key and each
  snapshot, the newest update a read may see is held in a memtable or a file, or it
  is a deletion and nothing older is held. The step that matters is `EndPreserved`,
  where the two rules of `DoCompactionWork` drop entries; it needs `LeftNewer`,
  `DeletesLast` and `SnapshotOldest` of `Inv`.
* `ReadsAreCurrentAlways` (`LsmTree`, `ReadsAreCurrent`), with `OneClient`. What is
  held (`Preserved`) is found: on a disjoint level the one file `FindFile` leads to
  is the one that has the update (`LevelFinds`), in level 0 the newest file that has
  the key is (`PlacesFind`), and nothing in an earlier place hides it (`NewerFirst`,
  by `PlacesOrdered`).
* `ManualCoversAlways` (`LsmTree`, `ManualCovers`), with `OneClient`. `Covered` says
  what an open request has done so far: the entries its level had are not above the
  level, those of its range with keys below `manual.lo` are not in it either, and a
  manual compaction under way takes the next ones up to the key where the rest
  begins (`Taken`). What is below a level never comes back (`SunkStays`), whatever
  automatic compactions run between the parts. That `lo` may move to the largest key
  of the last input is `ManualTakes`: the inputs, with boundary files and widened or
  not, are a run of files of the level (`Contiguous`), which needs disjoint levels.
* `RunRepairsAlways` (`OutputFiles`, `RunRepairs`). In a run without a failure
  every file of the run is as printed or still to be finalized (`RepairInv`).
* `UnderstoodAlways` (`Codec`, `Understood`), for any number of members with different
  names, none of which is the key of a map. `CodecInv` has three parts: members of
  the same name are versions of each other (`ClassesDeclared`); every entry of the
  document was written by one member, and every member that goes has an entry
  (`DocumentIsSent`); and what was read is as `Understood` promises, what was not is
  as in a new object, no array having been pushed to before (`ReadSoFar`). A member
  that is no map is found by its name, which no other entry has (`MemberIsFound`).
  What a map takes is its own entry: any other that passes its filter, where one is
  printed, belongs to a member it may be mistaken for, and the schema is in
  `Unserved` (`TakenIsOwn`).
* `LogReadBack` and `LogTornTail` (`LogFormat`, with the files of `Recovery`): for any size of
  blocks and headers and any records, whoever opened the file again in between,
  `ReadRecord` returns the records that `AddRecord` was given, and from a file that was
  cut, or reads as zeros from some place on, just those that are whole before it. A
  fragment begins where its header fits into a block and crosses no boundary
  (`FragmentPlaced`, `WrittenLaid`), so that a turn of the reader that stands at a fragment
  or at the trailer before it gets that fragment and stands at the next one
  (`TurnPiece`), or finds it cut and ends (`ReadOn`). `ReadAll` is followed over all its turns
  by two inductions over numbers (`ReadingExists`, `ReadingEnds`).
* `TypeOKAlways` and `OpensAgainAlways` (`Recovery`, `TypeOK`, `OpensAgain`), with
  `ReuseLogs` \subseteq {FALSE}, which is `reuse_logs` by default and the run's setting: a log or
  MANIFEST that is reused may be appended to behind a torn tail, which is how the run
  fails otherwise (see above). `OpensAgain` alone says nothing of what a crash will leave.
  `IInv` says it of the MANIFEST that CURRENT names (`CurrentOK`): it holds a list
  of edits, of which a crash keeps at least the synced ones, and, by `LogTornTail`, whole
  edits only; and whichever number of them it keeps, the version they describe has its
  tables on the disk, and numbers (`SoundFrom`). Everything else serves that. An edit
  under way has its tables on the disk before it is written, and what it makes obsolete
  is removed once it is synced (`EditOK`); the version set of an open database is what
  the edits say unless an edit is under way or failed (`RunningOK`), which is where
  it matters that `RemoveObsoleteFiles` does nothing after a background error; CURRENT goes
  to a MANIFEST that is synced, or was written by a repair and may be lost. `Harmed`
  is the exception of `OpensAgain` (see above): a MANIFEST that ends in zeros, or that RepairDB
  archived or wrote. `DB::Open` itself is covered at every step, logs half replayed included
  (`LogsOK`, `OpenOK`).
* `NoTableMissingAlways` (`TableFiles`, `NoTableMissing`). `FilesInv`: `refs_`
  counts who refers to a version, so a version that a reader, a compaction or
  the version set holds is live; files of live versions and outputs are on the
  disk, and not on the list of what is about to be removed. What the cache does
  is irrelevant, and the proof never looks at it.
* `CacheConsistentAlways` and `RemovalSucceedsAlways` (`TableFiles`), for any
  capacity. `CacheInv` counts the references of an entry against the threads that
  hold it (`EntriesCounted`), ties `lru_` to the entries with one reference
  (`Linked`), and says that a thread holds one entry of a file at most
  (`HoldsOnce`), of a file that its version or its compaction has
  (`InUseIsWanted`). An entry that is evicted while somebody holds it stays open; that
  it is not of a listed file needs `FilesInv` beside `CacheInv`, because whoever
  holds it keeps its file alive. What `LRU_Remove` leaves of a list is an
  induction over its length (`UnlinkedHolds`).
* `NoWildReadAlways` and `SearchIsAtomicAlways` (`SkipList`). `SkipInv` is about one
  sequence, `History`: the stores that were done and, after them, those an insert
  has planned, so that doing a store changes nothing in it. What a pointer leads to
  has its pointers, from that level down, before the pointer is stored, and is in
  level 0 no later (`PointersBuilt`, `BottomFirst`); only the first store to a pointer
  is relaxed (`RelaxedFirst`); level 0 is in order at every moment with nothing left
  out (`Sorted`). `NoWildRead` alone is not inductive: a reader that loads a relaxed
  pointer acquires nothing, and is safe because that pointer was the first one of a
  node it sees already, so that what it leads to is seen as well (`LoadHolds`).
  `max_height_` may be read as too high, and then the pointers of `head_` are null,
  or lead to a node that is built that high. A search keeps that its node is below the
  key, in the list and of its level as the reader sees it (`Searching`). Its last load
  is on level 0: it returns a store that was the last one at some moment since
  the search began, and the list was in order at that moment (`BottomLoad`). For
  the writer, `PrevHolds` says that `FindGreaterOrEqual` finds the place of a key on
  every level, by one induction along a level and one down the levels
  (`AscentHolds`, `DescentExists`), and `InsertSorts` that one link more leaves
  level 0 in order before and after.

* `CursorCorrectAlways`, `GapsReportedAlways` and `TypeOKAlways` (`Iterators`), for any
  entries, cut into blocks of any size, at any snapshot, whichever blocks cannot be
  read. The proof goes up through the iterators. A block's binary search ends at the
  last restart point before the target, wherever the present position let it start
  (`BlockSeekIs` rests on an induction over its iterations, `SearchExists`); the index
  key of a block leads to the block with the first entry that is not before the target,
  whether it was shortened or not (`DataSeekLeads`); each method of the two-level
  iterator gets to the first or last entry of a set, or its status has failed
  (`GetsToFirst`, `GetsToLast`; a walk over blocks that could not be read is an
  induction, `SkipExists`). For the merging iterator the state is what it has *ahead*:
  the visible entries that each child, by itself, still has to come to (`Ahead`,
  `MovesTo`). `Next` takes away the entry shown, and after a turn leaves just the
  entries behind it (`MergeNextIs`, `MergePrevIs`), although the writer may have come
  in between the two calls that position a child, because what is inserted is newer
  than the iterator's snapshot. `CursorCorrect` alone is not inductive: `IInv` says for
  every place in `DBIter` what is ahead (`IdleIs`, `NextIs`, `ScanIs`, `PrevIs`), for
  instance that an iterator that goes back and is valid stands before all the
  entries of its key. What does not depend on what is ahead (`StateOK`) holds also
  after a block could not be read; the rest is claimed as long as the status has
  not failed, from which `GapsReported` follows, since a failure stays (`Keeps`).

Only model-checked, and why:

* liveness (`CallsReturn`): the prover does not do `ENABLED` and fairness;
* `SyncedSurvives`, `NoGapsInALog`, `NothingInvented` and `SequencesUnique` (`Recovery`).
  `OpensAgain` needs of a log only that it is there; these need what is in it, record by
  record: which updates, with which numbers, what was synced, and which logs are
  misplaced or were read by a repair without checksums. `LogTornTail` is the
  step from there to what the next replay finds; the invariant of the logs' contents, over
  switches of memtables and flushes during a replay, is not stated.

An induction over data is done over a set of numbers (`UpToInduction` in
`DataLemmas`), one per recursive definition: the record of a group
(`ConcatExists`), `AddBoundaryInputs` (`ExtendedExists`), `LRU_Remove`
(`UnlinkedHolds`), the skip list's search (`AscentExists`, `DescentExists`), the loops
of the iterators (`SearchExists`, `SkipExists`), the turns of a log's reader
(`ReadingExists`).

## Plan

Done: all modules of the first plan, that is the row machine and the generated
codecs of the tool, and the writers, background work, levels, recovery, logs,
reads and file lifetimes of LevelDB; the theorems above.

Left: `DBImpl` and `Recovery` in one module, so that crashes meet group commit
(today `Recovery` has one writer).

## Not modelled

* rapidjson, vendored, which is a third of the repository's lines; what it does
  to a document is in `Codec` as far as printed code uses it.
* Text: the split of a row into cells, the layout of `printCode`, the classes,
  TypeScript, Python and protobuf that are printed, formatting and parsing of
  numbers. Most of `CreateDOM.cpp` is calls that print lines, and a model of them
  would repeat them.
* Functions of bytes: varints, CRCs, hashes, the arena, comparators, batches and
  edits as strings, prefix compression, the Bloom filter. Keys, batches, edits
  and files are values here, and a checksum is what tells a whole fragment from
  a damaged one.
* System calls (`env_windows.cc`): their failures, the single background thread,
  what is lost without a sync and that open files cannot be removed are choices
  and guards of `DBImpl`, `Recovery` and `TableFiles`. The limiter of memory maps
  is left out.
* `GetProperty`, statistics, read samples, `ApproximateOffsetOf`, the C
  interface, the dump tool and the command line tool, which call what is modelled
  and print.

That is why the mapped share of the lines stays well below a third: what is left
is vendored, text or bytes. `PROJECT.json` gives the reason per component.
