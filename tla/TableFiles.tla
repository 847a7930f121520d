------------------------------ MODULE TableFiles ------------------------------
(***************************************************************************)
(* Who keeps a table file: the versions that readers and a compaction hold *)
(* (db/db_impl.cc, db/version_set.cc), pending_outputs_, and the open files*)
(* of the table cache (db/table_cache.cc over util/cache.cc), against      *)
(* RemoveObsoleteFiles, which evicts and removes what none of them needs.  *)
(* On Windows a file that is open cannot be removed (util/env_windows.cc). *)
(*                                                                         *)
(* A step is what happens under DBImpl::mutex_, or under the mutex of the  *)
(* cache, or one call of the file system. One shard of the cache is        *)
(* modelled; every table has charge 1. Levels, keys and failing operations *)
(* are left out (LsmTree, Recovery).                                       *)
(***************************************************************************)
EXTENDS Integers, Sequences, FiniteSets, SequencesExt, FiniteSetsExt

CONSTANTS Readers,      \* threads in DBImpl::Get or with an iterator
          MaxFile,      \* bound: table numbers that are given out
          Capacity      \* capacity_ of the table cache

VARIABLES
    disk,       \* table files that exist
    current,    \* VersionSet::current_, a version being its set of files
    versions,   \* the versions that are not deleted, with their refs_; those with
                \* the same files are counted together
    pending,    \* pending_outputs_
    nextFile,   \* next_file_number_
    entries,    \* the LRUHandles, several of a file perhaps, with refs and in_cache
    lru,        \* the lru_ list, oldest first
    threads,    \* what readers and the background thread do
    compaction, \* the Compaction under way: version, inputs, outputs
    doomed,     \* files_to_delete of the RemoveObsoleteFiles under way
    missing     \* history: a table file was not there when it was opened

fileVars == <<disk, current, versions, pending, nextFile, entries, lru, threads, compaction,
              doomed, missing>>
versionVars == <<current, versions>>
cacheVars   == <<entries, lru>>
workVars    == <<compaction, doomed, pending, nextFile>>

Background == "background"
Threads == Readers \union {Background}
EmptyFunction == [x \in {} |-> 0]
NoCompaction == [version |-> {}, inputs |-> {}, outputs |-> {}]

Without(f, x) == [y \in DOMAIN f \ {x} |-> f[y]]

(* Version::Ref and Unref, on the versions vs with their reference counts  *)
Referred(vs, v) == [vs EXCEPT ![v] = @ + 1]
Unreferred(vs, v) == IF vs[v] = 1 THEN Without(vs, v) ELSE [vs EXCEPT ![v] = @ - 1]
AppendVersion(vs, v) ==
    LET others == Unreferred(vs, current)
    IN  IF v \in DOMAIN others THEN Referred(others, v)
        ELSE [w \in DOMAIN others \union {v} |-> IF w = v THEN 1 ELSE others[w]]

-----------------------------------------------------------------------------
(* LRUCache. An entry that is in the cache is in the hash table; lru_ has  *)
(* those of them that no one else refers to. A method maps a cache, the    *)
(* record of entries and lru, to the next.                                 *)

FileOf(e) == e[1]
Cache == [entries |-> entries, lru |-> lru]
InCache(c) == {e \in DOMAIN c.entries : c.entries[e].cached}
EntryFor(c, f) == {e \in InCache(c) : FileOf(e) = f}

(* LRU_Remove, of all of es *)
Unlinked(list, es) ==
    LET kept[i \in 0..Len(list)] ==
          IF i = 0 THEN <<>>
          ELSE IF list[i] \in es THEN kept[i - 1] ELSE Append(kept[i - 1], list[i])
    IN  kept[Len(list)]

Ref(c, e) == [entries |-> [c.entries EXCEPT ![e].refs = @ + 1], lru |-> Unlinked(c.lru, {e})]

(* Mutant: an entry that is no longer in use is not put on lru_. *)
UnrefOnly(c, e) == IF c.entries[e].refs = 1 THEN [c EXCEPT !.entries = Without(@, e)]
                   ELSE [c EXCEPT !.entries[e].refs = @ - 1]

Unref(c, e) ==
    IF c.entries[e].refs = 1 THEN [c EXCEPT !.entries = Without(@, e)]
    ELSE [entries |-> [c.entries EXCEPT ![e].refs = @ - 1],
          lru |-> IF c.entries[e].cached /\ c.entries[e].refs = 2 THEN Append(c.lru, e) ELSE c.lru]

(* FinishErase, of all of es *)
FinishErase(c, es) ==
    LET freed == {e \in es : c.entries[e].refs = 1}
    IN  [entries |-> [e \in DOMAIN c.entries \ freed |->
                        IF e \in es THEN [refs |-> c.entries[e].refs - 1, cached |-> FALSE]
                        ELSE c.entries[e]],
         lru |-> Unlinked(c.lru, es)]

(* Insert, which replaces an entry another thread has put in meanwhile. *)
NewEntry(f) ==
    <<f, Min({i \in 1..(Cardinality(DOMAIN entries) + 1) : <<f, i>> \notin DOMAIN entries})>>
Inserted(c, f) ==
    LET new   == IF Capacity > 0 THEN [refs |-> 2, cached |-> TRUE] ELSE [refs |-> 1, cached |-> FALSE]
        added == [e \in DOMAIN c.entries \union {NewEntry(f)} |->
                     IF e \in DOMAIN c.entries THEN c.entries[e] ELSE new]
        with  == FinishErase([c EXCEPT !.entries = added], EntryFor(c, f))
        over  == Max({0, Min({Cardinality(InCache(with)) - Capacity, Len(with.lru)})})
    IN  FinishErase(with, {with.lru[i] : i \in 1..over})

SetCache(c) == entries' = c.entries /\ lru' = c.lru

-----------------------------------------------------------------------------
(* TableCache, on behalf of any thread t. holds are the handles it has.    *)

FindTable(t, f) ==
    /\ threads[t].opening = 0
    /\ \A e \in threads[t].holds : FileOf(e) # f
    /\ \/ \E e \in EntryFor(Cache, f) :
            /\ SetCache(Ref(Cache, e))
            /\ threads' = [threads EXCEPT ![t].holds = @ \union {e}]
       \/ /\ EntryFor(Cache, f) = {}
          /\ threads' = [threads EXCEPT ![t].opening = f]
          /\ UNCHANGED cacheVars
    /\ UNCHANGED <<disk, versionVars, workVars, missing>>

(* NewRandomAccessFile and Table::Open *)
OpenFile(t) ==
    /\ threads[t].opening # 0 /\ ~threads[t].opened
    /\ IF threads[t].opening \in disk
       THEN threads' = [threads EXCEPT ![t].opened = TRUE] /\ UNCHANGED missing
       ELSE threads' = [threads EXCEPT ![t].opening = 0] /\ missing' = TRUE
    /\ UNCHANGED <<disk, versionVars, cacheVars, workVars>>

InsertTable(t) ==
    /\ threads[t].opened
    /\ SetCache(Inserted(Cache, threads[t].opening))
    /\ threads' = [threads EXCEPT ![t].opening = 0, ![t].opened = FALSE,
                                  ![t].holds = @ \union {NewEntry(threads[t].opening)}]
    /\ UNCHANGED <<disk, versionVars, workVars, missing>>

Release(t, e) ==
    /\ threads[t].opening = 0 /\ e \in threads[t].holds
    /\ SetCache(Unref(Cache, e))
    /\ threads' = [threads EXCEPT ![t].holds = @ \ {e}]
    /\ UNCHANGED <<disk, versionVars, workVars, missing>>

(* A file is open from OpenFile until the entry is freed. *)
IsOpen(f) ==
    \/ \E e \in DOMAIN entries : FileOf(e) = f
    \/ \E t \in Threads : threads[t].opened /\ threads[t].opening = f

-----------------------------------------------------------------------------
(* Readers: DBImpl::Get, and NewInternalIterator with CleanupIteratorState. *)

(* Mutant: the version is given up while tables of it are still open. *)
MayUnrefAnyTime(r) == TRUE

(* The handles of an iterator go before its cleanup runs. *)
MayUnref(r) == threads[r].opening = 0 /\ threads[r].holds = {}

RefCurrent(r) ==
    /\ threads[r].version = {}
    /\ threads' = [threads EXCEPT ![r].version = {current}]
    /\ versions' = Referred(versions, current)
    /\ UNCHANGED <<disk, current, cacheVars, workVars, missing>>

ReadTable(r) == \E v \in threads[r].version : \E f \in v : FindTable(r, f)

UnrefVersion(r) ==
    /\ MayUnref(r)
    /\ \E v \in threads[r].version : versions' = Unreferred(versions, v)
    /\ threads' = [threads EXCEPT ![r].version = {}]
    /\ UNCHANGED <<disk, current, cacheVars, workVars, missing>>


-----------------------------------------------------------------------------
(* The background thread. at is where it is in BackgroundCompaction, in    *)
(* DoCompactionWork ("compacting") or in CompactMemTable; back is where    *)
(* CompactMemTable returns to.                                             *)

Bg == threads[Background]
At(place) == Bg.at = place /\ Bg.opening = 0
GoTo(place) == [threads EXCEPT ![Background].at = place]
Holding(f) == \E e \in Bg.holds : FileOf(e) = f

(* OpenCompactionOutputFile and WriteLevel0Table take a number. *)
NewTable(place) ==
    /\ nextFile <= MaxFile
    /\ nextFile' = nextFile + 1 /\ pending' = pending \union {nextFile}
    /\ threads' = [threads EXCEPT ![Background].at = place, ![Background].back = Bg.at,
                                  ![Background].file = nextFile]
    /\ UNCHANGED <<disk, versionVars, cacheVars, doomed, missing>>

(* CompactMemTable; imm_ may turn up at any time. *)
StartFlush ==
    /\ At("idle") \/ At("compacting")
    /\ NewTable("flush")
    /\ UNCHANGED compaction

WriteTable ==
    /\ At("flush") \/ At("output")
    /\ disk' = disk \union {Bg.file}
    /\ threads' = GoTo(IF At("flush") THEN "verify flush" ELSE "compacting")
    /\ UNCHANGED <<versionVars, cacheVars, workVars, missing>>

(* NewIterator on a table that is written, and its deletion *)
Verify(place, f) == At(place) /\ ~Holding(f) /\ FindTable(Background, f)
Verified(place, f, next) ==
    /\ At(place) /\ Holding(f)
    /\ LET e == CHOOSE e \in Bg.holds : FileOf(e) = f
       IN  /\ SetCache(Unref(Cache, e))
           /\ threads' = [GoTo(next) EXCEPT ![Background].holds = @ \ {e}]
    /\ UNCHANGED <<disk, versionVars, missing, compaction, doomed, nextFile>>

VerifyFlush == Verify("verify flush", Bg.file)

(* The number leaves pending_outputs_, and LogAndApply unlocks meanwhile. *)
FlushVerified == Verified("verify flush", Bg.file, "apply flush") /\ pending' = pending \ {Bg.file}

LiveFiles(vs) == UNION DOMAIN vs                                        \* AddLiveFiles

(* Mutant: the table cache keeps what is removed. *)
KeepsEntries(files) == {}

Evicted(files) == UNION {EntryFor(Cache, f) : f \in files}

(* RemoveObsoleteFiles, up to where it unlocks, with the versions vs. *)
RemoveObsoleteFiles(vs, outputs) ==
    LET obsolete == disk \ (outputs \union LiveFiles(vs))
    IN  /\ versions' = vs /\ pending' = outputs
        /\ doomed' = obsolete
        /\ SetCache(FinishErase(Cache, Evicted(obsolete)))

ApplyFlush ==
    /\ At("apply flush")
    /\ current' = current \union {Bg.file}
    /\ RemoveObsoleteFiles(AppendVersion(versions, current'), pending)
    /\ threads' = GoTo("remove")
    /\ UNCHANGED <<disk, compaction, nextFile, missing>>

RemoveFile(f) ==
    /\ At("remove") /\ f \in doomed
    /\ doomed' = doomed \ {f}
    /\ disk' = IF IsOpen(f) THEN disk ELSE disk \ {f}
    /\ UNCHANGED <<versionVars, cacheVars, pending, nextFile, threads, compaction, missing>>

Removed ==
    /\ At("remove") /\ doomed = {}
    /\ threads' = [GoTo(Bg.back) EXCEPT ![Background].file = 0]
    /\ UNCHANGED <<disk, versionVars, cacheVars, workVars, missing>>

(* PickCompaction; a trivial move touches no file. *)
StartCompaction(inputs) ==
    /\ At("idle") /\ inputs # {}
    /\ compaction' = [version |-> current, inputs |-> inputs, outputs |-> {}]
    /\ versions' = Referred(versions, current)
    /\ threads' = GoTo("compacting")
    /\ UNCHANGED <<disk, current, cacheVars, pending, nextFile, doomed, missing>>

ReadInput  == At("compacting") /\ \E f \in compaction.inputs : FindTable(Background, f)
LeaveInput == (At("compacting") \/ At("finish")) /\ \E e \in Bg.holds : Release(Background, e)

OpenOutput ==
    /\ At("compacting") /\ compaction.outputs = {}
    /\ NewTable("output")
    /\ compaction' = [compaction EXCEPT !.outputs = {nextFile}]

(* FinishCompactionOutputFile, the input being read or not *)
FinishOutput ==
    /\ At("compacting") /\ compaction.outputs # {}
    /\ threads' = GoTo("verify output")
    /\ UNCHANGED <<disk, versionVars, cacheVars, workVars, missing>>
Output == CHOOSE f \in compaction.outputs : TRUE
VerifyOutput   == At("verify output") /\ Verify("verify output", Output)
OutputVerified == At("verify output") /\ Verified("verify output", Output, "finish") /\ UNCHANGED pending

(* The input is deleted, which closes what it has open, perhaps after      *)
(* everything in it was dropped.                                           *)
DeleteInput ==
    /\ At("finish") \/ (At("compacting") /\ compaction.outputs = {})
    /\ Bg.holds = {}
    /\ threads' = GoTo("apply compaction")
    /\ UNCHANGED <<disk, versionVars, cacheVars, workVars, missing>>

ApplyCompaction ==
    /\ At("apply compaction")
    /\ current' = (current \ compaction.inputs) \union compaction.outputs
    /\ RemoveObsoleteFiles(Unreferred(AppendVersion(versions, current'), compaction.version),
                           pending \ compaction.outputs)
    /\ compaction' = NoCompaction
    /\ threads' = [GoTo("remove") EXCEPT ![Background].back = "idle"]
    /\ UNCHANGED <<disk, nextFile, missing>>

-----------------------------------------------------------------------------
Init ==
    /\ disk = {} /\ current = {} /\ versions = [v \in {{}} |-> 1] /\ pending = {} /\ nextFile = 1
    /\ entries = EmptyFunction /\ lru = <<>> /\ doomed = {} /\ missing = FALSE
    /\ threads = [t \in Threads |-> [version |-> {}, opening |-> 0, opened |-> FALSE, holds |-> {},
                                     at |-> "idle", back |-> "idle", file |-> 0]]
    /\ compaction = NoCompaction

Next ==
    \/ \E r \in Readers : RefCurrent(r) \/ ReadTable(r) \/ UnrefVersion(r)
    \/ \E r \in Readers : \E e \in threads[r].holds : Release(r, e)
    \/ \E t \in Threads : OpenFile(t) \/ InsertTable(t)
    \/ StartFlush \/ WriteTable \/ VerifyFlush \/ FlushVerified \/ ApplyFlush
    \/ \E f \in doomed : RemoveFile(f)
    \/ Removed
    \/ \E inputs \in SUBSET current : StartCompaction(inputs)
    \/ ReadInput \/ LeaveInput \/ OpenOutput \/ FinishOutput \/ VerifyOutput \/ OutputVerified
    \/ DeleteInput \/ ApplyCompaction

Spec == Init /\ [][Next]_fileVars

-----------------------------------------------------------------------------
(* The cache, as cache.cc:25-40 describes it: lru_ has exactly the entries *)
(* that no one but the cache refers to, references are counted, and a file *)
(* has one entry at most.                                                  *)
CacheConsistent ==
    /\ {lru[i] : i \in DOMAIN lru} = {e \in InCache(Cache) : entries[e].refs = 1}
    /\ IsInjective(lru)
    /\ \A e \in DOMAIN entries :
          entries[e].refs = Cardinality({t \in Threads : e \in threads[t].holds})
                              + (IF entries[e].cached THEN 1 ELSE 0)
    /\ \A f \in 1..MaxFile : Cardinality(EntryFor(Cache, f)) <= 1

(* A table that a reader, a compaction or a check of an output opens is    *)
(* there, although files are removed without the mutex being held.         *)
NoTableMissing == ~missing

(* What RemoveObsoleteFiles is about to remove is not open, in the cache   *)
(* or in a thread, nor will it be: on Windows the file would stay.         *)
RemovalSucceeds == \A f \in doomed : ~IsOpen(f)
=============================================================================
