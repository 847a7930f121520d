------------------------------- MODULE Recovery -------------------------------
(***************************************************************************)
(* What survives a crash of a LevelDB database: the files of a database,   *)
(* the order in which a running process writes, syncs and removes them,    *)
(* and what DB::Open makes of what is left (src/src/leveldb/db/db_impl.cc, *)
(* version_set.cc, repair.cc).  Logs and MANIFEST files have the format of *)
(* LogFormat.                                                              *)
(*                                                                         *)
(* An update is its place in writes, which remembers its sequence number   *)
(* and the log it went to, 0 if AddRecord failed; a table file is the set  *)
(* of its updates.  One writer and one background thread are enough here:  *)
(* DBImpl models the queue of writers, and LsmTree where the entries of    *)
(* tables go.                                                              *)
(*                                                                         *)
(* External: a file keeps what was synced; of the rest a machine crash     *)
(* keeps some part, and the lost space is cut off or reads as zeros.       *)
(* Creating, renaming and removing a file are atomic and durable, as       *)
(* env_windows.cc assumes (WindowsWritableFile::Sync).                     *)
(***************************************************************************)
EXTENDS LogFormat, FiniteSets

CONSTANTS Sizes,            \* the sizes of clients' records, in cells
          EditSize,         \* the size of a VersionEdit
          ReuseLogs,        \* the values of options_.reuse_logs
          Losses,           \* what lost space reads as: a subset of {"cut", "zeros"}
          MaxWrites,        \* bound: updates
          MaxFaults         \* bound: crashes, ends of the process, operations that fail, repairs

ASSUME RecoveryAssumption ==
    /\ Sizes \subseteq Nat \ {0} /\ EditSize \in Nat \ {0}
    /\ ReuseLogs \subseteq BOOLEAN
    /\ Losses \subseteq {"cut", "zeros"}
    /\ {MaxWrites, MaxFaults} \subseteq Nat

VARIABLES
    logs, manifests,        \* the files: number -> [cells, synced]
    tables,                 \* number -> set of updates
    current,                \* the number in CURRENT, 0 if there is no such file
    pc,                     \* what the process is doing
    open,                   \* the locals of DB::Open and of RepairDB
    db,                     \* the members of DBImpl
    vset,                   \* the members of VersionSet
    writing,                \* the write under way, or NoWrite
    apply,                  \* the VersionEdit under way, or NoEdit
    writes,                 \* history: every update
    damaged,                \* history: files written behind bytes that cannot be read,
                            \* and MANIFEST files that lost more than a torn tail
    refused,                \* history: why DB::Open gave up
    sessions,               \* history: how often the process ended
    faults

disk    == <<logs, manifests, tables, current>>
history == <<writes, damaged, refused, sessions>>
ghosts  == <<history, faults>>
vars    == <<disk, pc, open, db, vset, writing, apply, ghosts>>

NoWrite == [id |-> 0]
NoEdit  == [stage |-> "none"]
NoDB    == [mem |-> {}, imm |-> {}, log |-> 0, offset |-> 0, failed |-> FALSE]
NoVset  == [live |-> {}, log |-> 0, next |-> 2, last |-> 0, manifest |-> 0, open |-> FALSE]
NoOpen  == [reuse |-> FALSE, tolerant |-> FALSE, todo |-> {}, add |-> {},
            save |-> FALSE, last |-> 0]

Updates == 1..Len(writes)
Garbage == 0                \* what is no update that was ever written
Fault == faults < MaxFaults /\ faults' = faults + 1
Busy  == faults < MaxFaults \* bound: after the last fault the database is only opened

EmptyFile == [cells |-> <<>>, synced |-> 0]
Put(f, n, x) == [m \in DOMAIN f \union {n} |-> IF m = n THEN x ELSE f[m]]
Without(f, S) == [m \in DOMAIN f \ S |-> f[m]]

AddRecord(file, record, offset) ==
    [file EXCEPT !.cells = @ \o Emitted(Fragments(record, offset))]
OffsetAfter(record, offset) == Last(Fragments(record, offset)).after
SyncFile(file) == [file EXCEPT !.synced = Len(file.cells)]

UpdateOf(record) ==
    IF \E i \in Updates : record = Record(i, writes[i].size)
    THEN CHOOSE i \in Updates : record = Record(i, writes[i].size)
    ELSE Garbage
Sequence(i) == IF i = Garbage THEN 0 ELSE writes[i].seq

Contents == db.mem \union db.imm \union UNION {tables[t] : t \in vset.live}

-----------------------------------------------------------------------------
(* VersionEdits and the MANIFEST *)

Edit(add, del, log, next, last) ==
    [kind |-> "edit", add |-> add, del |-> del, log |-> log, next |-> next, last |-> last]
(* WriteSnapshot saves no numbers. *)
Snapshot(live) ==
    [kind |-> "snapshot", add |-> live, del |-> {}, log |-> 0, next |-> 0, last |-> 0]

ManifestWith(file, edit) ==
    AddRecord(file, Record(edit, EditSize), Len(file.cells) % BlockSize)

(* VersionSet::Recover: every record is an edit.  A table is live if no    *)
(* edit deletes it after one that adds it; of the numbers, the last count. *)
EditsIn(read) == [i \in DOMAIN read.records |-> read.records[i][1][2]]
LiveAfter(edits) ==
    {t \in UNION {edits[i].add : i \in DOMAIN edits} :
        \E i \in DOMAIN edits : /\ t \in edits[i].add
                                /\ \A j \in DOMAIN edits : j > i => t \notin edits[j].del}
Numbered(edits) == {i \in DOMAIN edits : edits[i].kind = "edit"}
Numbers(edits)  == edits[Max(Numbered(edits))]

-----------------------------------------------------------------------------
(* Removing files *)

(* RemoveObsoleteFiles keeps the logs from LogNumber on, this MANIFEST and *)
(* newer ones, and the tables of the version.                              *)
(* Mutant: the log that the version names goes too. *)
ObsoleteLogToo(v) ==
    [logs |-> {n \in DOMAIN logs : n <= v.log},
     manifests |-> {n \in DOMAIN manifests : n < v.manifest},
     tables |-> DOMAIN tables \ v.live]

Obsolete(v) ==
    [logs |-> {n \in DOMAIN logs : n < v.log},
     manifests |-> {n \in DOMAIN manifests : n < v.manifest},
     tables |-> DOMAIN tables \ v.live]

(* Whether RemoveFile succeeds is ignored: it does for all, or for none    *)
(* (bound).                                                                *)
Removed(v) ==
    /\ logs' = Without(logs, Obsolete(v).logs)
    /\ manifests' = Without(manifests, Obsolete(v).manifests)
    /\ tables' = Without(tables, Obsolete(v).tables)
    /\ UNCHANGED faults
NotRemoved(v) ==
    /\ Obsolete(v) # [logs |-> {}, manifests |-> {}, tables |-> {}]
    /\ Fault
    /\ UNCHANGED <<logs, manifests, tables>>
(* After a background error it does nothing. *)
RemoveObsoleteFiles(v) ==
    \/ ~db.failed /\ Removed(v)
    \/ ~db.failed /\ NotRemoved(v)
    \/ db.failed /\ UNCHANGED <<logs, manifests, tables, faults>>

-----------------------------------------------------------------------------
(* DB::Open *)

(* NewDB: MANIFEST 1, synced, and then CURRENT. *)
NewDBManifest ==
    /\ pc = "down" /\ current = 0
    /\ manifests' = Put(manifests, 1, SyncFile(ManifestWith(EmptyFile, Edit({}, {}, 0, 2, 0))))
    /\ pc' = "newdb"
    /\ UNCHANGED <<logs, tables, current, open, db, vset, writing, apply, ghosts>>

NewDBCurrent ==
    /\ pc = "newdb"
    /\ current' = 1
    /\ pc' = "versions"
    /\ UNCHANGED <<logs, manifests, tables, open, db, vset, writing, apply, ghosts>>

GiveUp(why) ==
    /\ refused' = why
    /\ pc' = "down" /\ open' = NoOpen /\ db' = NoDB /\ vset' = NoVset
    /\ UNCHANGED <<disk, writing, apply, writes, damaged, sessions, faults>>

(* The log files that are needed, replayed in the order of their numbers. *)
LogsToReplay(v) == {n \in DOMAIN logs : n >= v.log}

(* VersionSet::Recover, with ReuseManifest, and the first part of          *)
(* DBImpl::Recover.  Any file with the number of a table stands for it.    *)
RecoverVersions(option) ==
    /\ pc \in {"down", "versions"} /\ current # 0
    /\ LET read    == ReadAll(manifests[current].cells, TRUE)
           edits   == EditsIn(read)
           live    == LiveAfter(edits)
           found   == current \in DOMAIN manifests /\ ~read.corrupt /\ Numbered(edits) # {}
           numbers == DOMAIN tables \union DOMAIN logs \union DOMAIN manifests
       IN  \/ ~found /\ GiveUp("manifest")
           \/ found /\ ~(live \subseteq numbers) /\ GiveUp("missing")
           \/ /\ found /\ live \subseteq numbers
              /\ \E reuse \in {FALSE, option} : \* ReuseManifest may fail
                   LET last == Numbers(edits)
                       v == [live |-> live, log |-> last.log, next |-> last.next + 1,
                             last |-> last.last, open |-> reuse,
                             manifest |-> IF reuse THEN current ELSE last.next]
                   IN  /\ vset' = v
                       /\ open' = [NoOpen EXCEPT !.reuse = option, !.save = ~reuse,
                                                 !.todo = LogsToReplay(v)]
                       /\ pc' = "logs"
                       /\ UNCHANGED <<disk, db, writing, apply, ghosts>>

(* RecoverLogFile: the records of a log fill memtables; each that grew too *)
(* large, at any record, becomes a table, and so does the last one unless  *)
(* the log is reused.                                                      *)
Flushed(ids, cuts, i) ==
    LET from == IF \E c \in cuts : c < i THEN Max({c \in cuts : c < i}) ELSE 0
    IN  {ids[j] : j \in from + 1..i}

(* Mutant: the update that made the memtable too large is left out. *)
SegmentLeavesLast(ids, cuts, i) == Flushed(ids, cuts \ {i}, IF i \in cuts THEN i - 1 ELSE i)

Segment(ids, cuts, i) == Flushed(ids, cuts, i)

(* Mutant: no checksums. *)
ReadLogUnchecked(n) == ReadAll(logs[n].cells, FALSE)

ReadLog(n) == ReadAll(logs[n].cells, TRUE)

Reuses(cuts) == open.reuse /\ Cardinality(open.todo) = 1 /\ cuts = {}

(* The tables are numbered in the order of what is in them. *)
Replay(n, read) ==
    LET ids  == [i \in DOMAIN read.records |-> UpdateOf(read.records[i])]
        end  == Len(ids)
    IN  \E cuts \in SUBSET (1..end) :
          LET reuse == Reuses(cuts)
              ends  == IF reuse THEN {} ELSE cuts \union ({end} \ {0})
              Number(e) == vset.next + Cardinality({c \in ends : c < e})
              new   == {Number(e) : e \in ends}
              after == vset.next + Cardinality(ends)
          IN  /\ tables' = [t \in DOMAIN tables \union new |->
                              IF t \in new
                              THEN Segment(ids, cuts, CHOOSE e \in ends : Number(e) = t)
                              ELSE tables[t]]
              /\ db' = IF ~reuse THEN db
                       ELSE [db EXCEPT !.mem = ToSet(ids), !.log = n,
                                       !.offset = Len(logs[n].cells) % BlockSize]
              /\ vset' = [vset EXCEPT !.next = IF n >= after THEN n + 1 ELSE after]
              /\ open' = [open EXCEPT !.todo = @ \ {n}, !.add = @ \union new,
                             !.save = @ \/ new # {},
                             !.tolerant = @ \/ read.corrupt,
                             !.last = Max({@} \union {Sequence(i) : i \in ToSet(ids)})]

(* paranoid_checks matters at the first corruption and is chosen there. *)
RecoverLogFile ==
    /\ pc = "logs" /\ open.todo # {}
    /\ LET n    == Min(open.todo)
           read == ReadLog(n)
       IN  \/ /\ read.corrupt /\ ~open.tolerant
              /\ GiveUp("paranoid")
           \/ /\ Replay(n, read)
              /\ UNCHANGED <<logs, manifests, current, pc, writing, apply, ghosts>>

(* Mutant: the sequence numbers found in the logs are forgotten. *)
LastSequenceOfManifest == vset.last

LastSequence == Max({vset.last, open.last})

(* LogAndApply up to the unsynced edit, for the version set v; the first   *)
(* one after Recover begins a new MANIFEST with a snapshot.                *)
WriteEdit(v, e, kind) ==
    LET base == IF v.open THEN manifests[v.manifest]
                ELSE ManifestWith(EmptyFile, Snapshot(v.live))
    IN  /\ manifests' = Put(manifests, v.manifest, ManifestWith(base, e))
        /\ apply' = [stage |-> "written", kind |-> kind, edit |-> e, new |-> ~v.open]

(* The end of Recover and of DB::Open: a new log unless one was reused,    *)
(* and an edit if anything changed; files are removed in either case.      *)
FinishRecover ==
    /\ pc = "logs" /\ open.todo = {}
    /\ LET fresh == db.log = 0
           log   == IF fresh THEN vset.next ELSE db.log
           v     == [vset EXCEPT !.last = LastSequence, !.next = @ + (IF fresh THEN 1 ELSE 0)]
       IN  /\ logs' = IF fresh THEN Put(logs, log, EmptyFile) ELSE logs
           /\ db' = [db EXCEPT !.log = log]
           /\ vset' = v
           /\ IF open.save
              THEN WriteEdit(v, Edit(open.add, {}, log, v.next, v.last), "open")
              ELSE /\ apply' = [stage |-> "synced", kind |-> "open", new |-> FALSE,
                                edit |-> Edit({}, {}, v.log, v.next, v.last)]
                   /\ UNCHANGED manifests
    /\ open' = NoOpen /\ pc' = "edit"
    /\ UNCHANGED <<tables, current, writing, ghosts>>

-----------------------------------------------------------------------------
(* LogAndApply *)

(* Mutant: the MANIFEST is not synced. *)
SyncEditNever ==
    /\ apply.stage = "written"
    /\ apply' = [apply EXCEPT !.stage = "synced"]
    /\ UNCHANGED <<disk, pc, open, db, vset, writing, ghosts>>

SyncEdit ==
    /\ apply.stage = "written"
    /\ manifests' = [manifests EXCEPT ![vset.manifest] = SyncFile(@)]
    /\ apply' = [apply EXCEPT !.stage = "synced"]
    /\ UNCHANGED <<logs, tables, current, pc, open, db, vset, writing, ghosts>>

(* SetCurrentFile for a new MANIFEST. *)
RenameCurrent ==
    /\ apply.stage = "synced" /\ apply.new
    /\ current' = vset.manifest
    /\ apply' = [apply EXCEPT !.new = FALSE]
    /\ UNCHANGED <<logs, manifests, tables, pc, open, db, vset, writing, ghosts>>

(* The new version; CompactMemTable then drops the immutable memtable, and *)
(* its caller removes obsolete files.                                      *)
Installed == [vset EXCEPT !.live = (@ \ apply.edit.del) \union apply.edit.add,
                          !.log = apply.edit.log, !.open = TRUE]

InstallEdit ==
    /\ apply.stage = "synced" /\ ~apply.new
    /\ vset' = Installed
    /\ apply' = NoEdit
    /\ RemoveObsoleteFiles(vset')
    /\ db' = IF apply.kind = "flush" THEN [db EXCEPT !.imm = {}] ELSE db
    /\ pc' = "running"
    /\ UNCHANGED <<current, open, writing, history>>

(* AddRecord or Sync of the MANIFEST fails.  In a running database that is *)
(* a background error, after which RemoveObsoleteFiles does nothing: the   *)
(* edit may be found by the next Recover.  A new MANIFEST is removed.      *)
(* Mutant: obsolete files are removed all the same. *)
EditFailsAndCleans ==
    /\ apply.stage = "written" /\ apply.kind # "open"
    /\ db' = [db EXCEPT !.failed = TRUE]
    /\ tables' = Without(tables, Obsolete(vset).tables)
    /\ Fault
    /\ apply' = NoEdit
    /\ UNCHANGED <<logs, manifests, current, pc, open, vset, writing, history>>

EditFails ==
    /\ apply.stage = "written" /\ apply.kind # "open"
    /\ db' = [db EXCEPT !.failed = TRUE]
    /\ Fault
    /\ apply' = NoEdit
    /\ UNCHANGED <<disk, pc, open, vset, writing, history>>

OpenEditFails ==
    /\ apply.stage # "none" /\ apply.kind = "open"
    /\ apply.stage = "written" \/ apply.new
    /\ manifests' = IF apply.new THEN Without(manifests, {vset.manifest}) ELSE manifests
    /\ Fault
    /\ apply' = NoEdit
    /\ pc' = "down" /\ open' = NoOpen /\ db' = NoDB /\ vset' = NoVset
    /\ UNCHANGED <<logs, tables, current, writing, history>>

-----------------------------------------------------------------------------
(* Writes *)

MayWrite == pc = "running" /\ Busy /\ writing = NoWrite /\ ~db.failed

NextUpdate(size) ==
    [seq |-> vset.last + 1, log |-> db.log, session |-> sessions, size |-> size,
     synced |-> FALSE]

Misplaced == db.offset % BlockSize # Len(logs[db.log].cells) % BlockSize

(* Write, up to where the record is in the log and the mutex released.     *)
WriteLog(size, sync) ==
    /\ MayWrite /\ Len(writes) < MaxWrites
    /\ LET id == Len(writes) + 1
           record == Record(id, size)
       IN  /\ writes' = Append(writes, NextUpdate(size))
           /\ logs' = [logs EXCEPT ![db.log] = AddRecord(@, record, db.offset)]
           /\ db' = [db EXCEPT !.offset = OffsetAfter(record, @)]
           /\ writing' = [id |-> id, sync |-> sync]
    /\ damaged' = IF Misplaced THEN damaged \union {<<"log", db.log>>} ELSE damaged
    /\ UNCHANGED <<manifests, tables, current, pc, open, vset, apply, refused,
                   sessions, faults>>

(* AddRecord fails at its k-th fragment, of which nothing is written;      *)
(* block_offset_ moves on as if it were.  The call fails, nothing else.    *)
WriteLogFails(size) ==
    /\ Fault /\ MayWrite /\ Len(writes) < MaxWrites
    /\ LET fragments == Fragments(Record(Len(writes) + 1, size), db.offset)
       IN  \E k \in DOMAIN fragments :
             /\ logs' = [logs EXCEPT ![db.log].cells = @ \o Emitted(SubSeq(fragments, 1, k - 1))]
             /\ db' = [db EXCEPT !.offset = fragments[k].after]
    /\ writes' = Append(writes, [NextUpdate(size) EXCEPT !.log = 0])
    /\ vset' = [vset EXCEPT !.last = @ + 1]
    /\ UNCHANGED <<manifests, tables, current, pc, open, writing, apply, damaged, refused,
                   sessions>>

(* The rest of Write: Sync if asked for, the memtable, SetLastSequence. *)
FinishWrite ==
    /\ writing # NoWrite
    /\ logs' = IF writing.sync THEN [logs EXCEPT ![db.log] = SyncFile(@)] ELSE logs
    /\ writes' = [writes EXCEPT ![writing.id].synced = writing.sync]
    /\ db' = [db EXCEPT !.mem = @ \union {writing.id}]
    /\ vset' = [vset EXCEPT !.last = @ + 1]
    /\ writing' = NoWrite
    /\ UNCHANGED <<manifests, tables, current, pc, open, apply, damaged, refused, sessions,
                   faults>>

SyncFails ==
    /\ writing # NoWrite /\ writing.sync
    /\ db' = [db EXCEPT !.failed = TRUE]
    /\ vset' = [vset EXCEPT !.last = @ + 1]
    /\ Fault
    /\ writing' = NoWrite
    /\ UNCHANGED <<disk, pc, open, apply, history>>

(* MakeRoomForWrite: the old log is closed, which does not sync it. *)
SwitchMemTable ==
    /\ MayWrite /\ db.mem # {} /\ db.imm = {}
    /\ logs' = Put(logs, vset.next, EmptyFile)
    /\ db' = [db EXCEPT !.imm = db.mem, !.mem = {}, !.log = vset.next, !.offset = 0]
    /\ vset' = [vset EXCEPT !.next = @ + 1]
    /\ UNCHANGED <<manifests, tables, current, pc, open, writing, apply, ghosts>>

-----------------------------------------------------------------------------
(* The background thread *)

MayWork == pc = "running" /\ Busy /\ ~db.failed /\ apply = NoEdit

(* A table is synced before its edit is written (BuildTable,               *)
(* FinishCompactionOutputFile).                                            *)
BuildTable(updates, del, log, kind) ==
    LET v == [vset EXCEPT !.next = @ + 1]
    IN  /\ tables' = Put(tables, vset.next, updates)
        /\ WriteEdit(v, Edit({vset.next}, del, log, v.next, v.last), kind)
        /\ vset' = v

LogAfterFlush == db.log

CompactMemTable ==
    /\ MayWork /\ db.imm # {}
    /\ BuildTable(db.imm, {}, LogAfterFlush, "flush")
    /\ UNCHANGED <<logs, current, pc, open, db, writing, ghosts>>

(* DoCompactionWork on all tables (bound); LsmTree has the rest. *)
Compact ==
    /\ MayWork /\ db.imm = {} /\ Cardinality(vset.live) > 1
    /\ BuildTable(UNION {tables[t] : t \in vset.live}, vset.live, vset.log, "compaction")
    /\ UNCHANGED <<logs, current, pc, open, db, writing, ghosts>>

-----------------------------------------------------------------------------
(* Crashes *)

Repairing == pc \in {"repair", "archive", "manifests", "repaired"}

Stop ==
    /\ open' = NoOpen /\ db' = NoDB /\ vset' = NoVset
    /\ writing' = NoWrite /\ apply' = NoEdit
    /\ Fault
    /\ damaged' = damaged \union IF Repairing THEN {<<"repair", 0>>} ELSE {}
    /\ sessions' = sessions + 1
    /\ UNCHANGED <<disk, writes, refused>>

(* The process ends, by DBImpl's destructor or in any other way: what was  *)
(* written stays.                                                          *)
ProcessEnds == pc \notin {"down", "halted"} /\ pc' = "down" /\ Stop

Unsynced(files) == {n \in DOMAIN files : files[n].synced < Len(files[n].cells)}

MachineCrash ==
    /\ pc # "halted" /\ pc' = "halted"
    /\ Unsynced(logs) # {} \/ Unsynced(manifests) # {}
    /\ Stop

Tails(file, loss) ==
    {LET gone == Len(file.cells) - k
     IN  SubSeq(file.cells, 1, k)
            \o (IF loss = "cut" THEN <<>> ELSE [i \in 1..gone |-> Zero]) :
        k \in file.synced..Len(file.cells)}

WithTail(files, n, cells) == [files EXCEPT ![n] = [cells |-> cells, synced |-> Len(cells)]]
AfterLoss(rest) == IF rest = {} THEN "down" ELSE "halted"

(* One file after the other loses what it loses. *)
LoseLogTail ==
    /\ pc = "halted" /\ Unsynced(logs) # {}
    /\ LET n == Min(Unsynced(logs))
       IN  /\ \E loss \in Losses : \E cells \in Tails(logs[n], loss) :
                 logs' = WithTail(logs, n, cells)
           /\ pc' = AfterLoss(Unsynced(logs') \union Unsynced(manifests))
    /\ UNCHANGED <<manifests, tables, current, open, db, vset, writing, apply, ghosts>>

(* What is left of a MANIFEST that CURRENT does not name is never read.    *)
(* One that is cut off must be read; one that ends in zeros need not be.   *)
LoseManifestTail ==
    /\ pc = "halted" /\ Unsynced(logs) = {} /\ Unsynced(manifests) # {}
    /\ LET n == Min(Unsynced(manifests))
       IN  \/ /\ n # current
              /\ manifests' = WithTail(manifests, n, <<>>)
              /\ UNCHANGED damaged
           \/ /\ n = current
              /\ \E loss \in Losses : \E cells \in Tails(manifests[n], loss) :
                   /\ manifests' = WithTail(manifests, n, cells)
                   /\ damaged' = damaged \union
                          IF loss = "zeros" /\ cells # manifests[n].cells
                          THEN {<<"manifest", n>>} ELSE {}
    /\ pc' = AfterLoss(Unsynced(manifests'))
    /\ UNCHANGED <<logs, tables, current, open, db, vset, writing, apply, writes, refused,
                   sessions, faults>>

-----------------------------------------------------------------------------
(* RepairDB *)

(* FindFiles: numbers go on behind those of logs and tables.  That there   *)
(* is a CURRENT is a bound.                                                *)
StartRepair ==
    /\ pc = "down" /\ current # 0
    /\ LET numbers == {0} \union DOMAIN logs \union DOMAIN tables
       IN  vset' = [NoVset EXCEPT !.next = Max(numbers) + 1]
    /\ open' = [NoOpen EXCEPT !.todo = DOMAIN logs]
    /\ Fault
    /\ pc' = "repair"
    /\ UNCHANGED <<disk, db, writing, apply, history>>

(* ConvertLogToTable, which reads without checksums.  A table of nothing   *)
(* is removed.                                                             *)
RepairedTable(ids) == IF ids = {} THEN tables ELSE Put(tables, vset.next, ids)

RepairLog ==
    /\ pc = "repair" /\ open.todo # {}
    /\ LET n   == Min(open.todo)
           ids == {UpdateOf(r) : r \in ToSet(ReadAll(logs[n].cells, FALSE).records)}
       IN  tables' = RepairedTable(ids)
    /\ vset' = [vset EXCEPT !.next = @ + 1]
    /\ pc' = "archive"
    /\ UNCHANGED <<logs, manifests, current, open, db, writing, apply, ghosts>>

(* ArchiveFile: the log goes to the directory lost, converted or not.      *)
ArchiveLog ==
    /\ pc = "archive"
    /\ logs' = Without(logs, {Min(open.todo)})
    /\ open' = [open EXCEPT !.todo = @ \ {Min(@)}]
    /\ pc' = "repair"
    /\ UNCHANGED <<manifests, tables, current, db, vset, writing, apply, ghosts>>

(* WriteDescriptor.  The MANIFEST files are archived one after the other   *)
(* when the new one is in a temporary file, which nobody reads.            *)
LogsConverted == pc \in {"repair", "manifests"} /\ open.todo = {}

ArchiveManifest ==
    /\ LogsConverted
    /\ \E n \in DOMAIN manifests :
         /\ manifests' = Without(manifests, {n})
         /\ damaged' = damaged \union {<<"manifest", n>>}
    /\ pc' = "manifests"
    /\ UNCHANGED <<logs, tables, current, open, db, vset, writing, apply, writes, refused,
                   sessions, faults>>

(* ExtractMetaData found every table there is; all go to level 0, in a     *)
(* MANIFEST 1 that nobody syncs.                                           *)
Descriptor ==
    LET last == Max({0} \union {Sequence(i) : i \in UNION {tables[t] : t \in DOMAIN tables}})
    IN  Edit(DOMAIN tables, {}, 0, vset.next, last)

RenameDescriptor ==
    /\ LogsConverted /\ DOMAIN manifests = {}
    /\ manifests' = [n \in {1} |-> ManifestWith(EmptyFile, Descriptor)]
    /\ damaged' = damaged \union {<<"manifest", 1>>}
    /\ pc' = "repaired"
    /\ UNCHANGED <<logs, tables, current, open, db, vset, writing, apply, writes, refused,
                   sessions, faults>>

RepairCurrent ==
    /\ pc = "repaired"
    /\ current' = 1
    /\ pc' = "down" /\ open' = NoOpen /\ vset' = NoVset
    /\ UNCHANGED <<logs, manifests, tables, db, writing, apply, ghosts>>

-----------------------------------------------------------------------------
Init ==
    /\ logs = <<>> /\ manifests = <<>> /\ tables = <<>> /\ current = 0
    /\ pc = "down" /\ open = NoOpen /\ db = NoDB /\ vset = NoVset
    /\ writing = NoWrite /\ apply = NoEdit
    /\ writes = <<>> /\ damaged = {} /\ refused = "never"
    /\ sessions = 0 /\ faults = 0

Open ==
    \/ NewDBManifest \/ NewDBCurrent
    \/ \E option \in ReuseLogs : RecoverVersions(option)
    \/ RecoverLogFile \/ FinishRecover
    \/ OpenEditFails

Run ==
    \/ \E size \in Sizes, sync \in BOOLEAN : WriteLog(size, sync)
    \/ \E size \in Sizes : WriteLogFails(size)
    \/ FinishWrite \/ SyncFails \/ SwitchMemTable
    \/ CompactMemTable \/ Compact
    \/ SyncEdit \/ RenameCurrent \/ InstallEdit \/ EditFails

Next ==
    \/ Open \/ Run
    \/ ProcessEnds \/ MachineCrash \/ LoseLogTail \/ LoseManifestTail
    \/ StartRepair \/ RepairLog \/ ArchiveLog \/ ArchiveManifest \/ RenameDescriptor \/ RepairCurrent

Spec == Init /\ [][Next]_vars

-----------------------------------------------------------------------------
(* Properties *)

(* Types; the writer's log exists while the database is open, and the      *)
(* version names files that exist.                                         *)
TypeOK ==
    /\ \A f \in {logs[n] : n \in DOMAIN logs} \union {manifests[n] : n \in DOMAIN manifests} :
          f.synced \in 0..Len(f.cells)
    /\ \A t \in DOMAIN tables : tables[t] \subseteq Updates \union {Garbage}
    /\ pc = "running" => /\ db.log \in DOMAIN logs /\ vset.live \subseteq DOMAIN tables
                         /\ current \in DOMAIN manifests /\ current = vset.manifest
                         /\ db.log >= vset.log
                         /\ \A n \in DOMAIN logs \union vset.live : n < vset.next

(* DB::Open brings back every update whose synced write was acknowledged,  *)
(* whatever crashed and whenever, and no later step of a running database  *)
(* loses it.  What was appended to a log behind bytes that cannot be read  *)
(* is not covered: reuse_logs appends behind a torn tail, and a writer     *)
(* whose AddRecord failed goes on at an offset the file does not have.     *)
SyncedSurvives ==
    pc = "running" /\ <<"repair", 0>> \notin damaged =>
        \A i \in Updates : writes[i].synced /\ <<"log", writes[i].log>> \notin damaged
                             => i \in Contents

(* Of the updates a process wrote to one log a recovery finds the first    *)
(* ones, without a gap (RecoverLogFile replays a log in order and stops at *)
(* its torn end).                                                          *)
NoGapsInALog ==
    pc = "running" =>
        \A i, j \in Updates :
            /\ i < j /\ writes[i].log = writes[j].log /\ writes[j].log # 0
            /\ writes[i].session = writes[j].session
            /\ <<"log", writes[i].log>> \notin damaged
            /\ j \in Contents
            => i \in Contents

(* What is recovered was written: the fragments of different records are   *)
(* never joined, and no damaged record is taken for a good one, not even   *)
(* in a log whose writer went on behind an AddRecord that failed, or with  *)
(* reuse_logs behind a torn tail (log::Reader).  RepairDB asks for no      *)
(* checksums: a repaired database is not covered.                          *)
NothingInvented == Garbage \in Contents => <<"manifest", 1>> \in damaged

(* Sequence numbers are not given out twice: two updates of the database   *)
(* differ in theirs, and the next write gets a new one, although those of  *)
(* updates lost in a crash are used again (Recover, SetLastSequence).      *)
SequencesUnique ==
    pc = "running" =>
        /\ \A i, j \in Contents \ {Garbage} : i # j => writes[i].seq # writes[j].seq
        /\ \A i \in Contents \ {Garbage} : i # writing.id => writes[i].seq <= vset.last

(* A database that was not damaged opens again: no file that Recover needs *)
(* is missing, ever, and the MANIFEST that CURRENT names is there and can  *)
(* be read, wherever a crash cut it off.  Of a MANIFEST that a crash left  *)
(* with zeros at its end that is not claimed, nor once RepairDB has begun  *)
(* to archive the MANIFEST files: until it is done CURRENT may name none   *)
(* (DB::Open then refuses, and RepairDB has to be run again), and the one  *)
(* it installs is not synced.                                              *)
OpensAgain ==
    /\ refused # "missing"
    /\ refused = "manifest" => \E d \in damaged : d[1] = "manifest"
=============================================================================
