------------------------------- MODULE DBImpl -------------------------------
(***************************************************************************)
(* The threads of an open LevelDB database (src/src/leveldb/db/db_impl.cc):*)
(* the queue of writers and its group commit, the switch of memtable and   *)
(* log when the memtable is full, the background thread that turns the     *)
(* immutable memtable into a table and compacts level 0, manual            *)
(* compactions, and the destructor.                                        *)
(*                                                                         *)
(* mutex_ is a variable: a thread that holds it runs alone against all     *)
(* steps that need it, and each action is the code between two points at   *)
(* which the thread holds or gives up the mutex.  A condition variable is  *)
(* the set of the threads waiting on it: Wait enters the set and releases  *)
(* the mutex, Signal takes one thread out, SignalAll empties the set; a    *)
(* signal sent when nobody waits is lost.                                  *)
(*                                                                         *)
(* An update is one key of a batch; keys and values play no part here.     *)
(* Levels other than 0 only matter as the place the other tables go to.    *)
(***************************************************************************)
EXTENDS Integers, Sequences, FiniteSets

CONSTANTS Threads,          \* the client threads
          NoThread,         \* a free mutex, a null ManualCompaction pointer
          BG,               \* the background thread, as holder of the mutex
          Null,             \* a null MemTable pointer
          Requests,         \* the calls clients make, a subset of Request
          MaxCalls,         \* bound: calls of Write
          MaxManual,        \* bound: calls of TEST_CompactRange
          WriteBuffer,      \* options_.write_buffer_size, in updates
          CompactionTrigger,\* config::kL0_CompactionTrigger
          SlowdownTrigger,  \* config::kL0_SlowdownWritesTrigger
          StopTrigger,      \* config::kL0_StopWritesTrigger
          Failures          \* the operations of the environment that may fail

(* op "write" is Write, "flush" is TEST_CompactMemTable; updates = 0 is a  *)
(* null batch.                                                             *)
Request == [op: {"write"}, updates: Nat \ {0}, sync: BOOLEAN]
             \union [op: {"flush"}, updates: {0}, sync: {FALSE}]

Operations == {"append", "sync", "newlog", "close", "table", "manifest", "compaction"}

ASSUME DBAssumption ==
    /\ NoThread \notin Threads /\ BG \notin Threads /\ BG # NoThread
    /\ Requests \subseteq Request
    /\ MaxCalls \in Nat /\ MaxManual \in Nat /\ WriteBuffer \in Nat
    /\ Failures \subseteq Operations

(* The order of dbformat.h's constants 4, 8 and 12: a full level 0 always  *)
(* has a compaction due.                                                   *)
ASSUME TriggerAssumption ==
    /\ {CompactionTrigger, SlowdownTrigger, StopTrigger} \subseteq Nat \ {0}
    /\ CompactionTrigger <= SlowdownTrigger
    /\ SlowdownTrigger <= StopTrigger

VARIABLES
    mutex,                  \* mutex_: NoThread or its holder
    pc, frame,              \* per client thread: where it is, its locals
    writers_,               \* the queue of writers, by thread
    cvWaiting,              \* the threads waiting on their Writer's cv
    workWaiting,            \* those waiting on background_work_finished_signal_
    mem_, imm_,             \* the memtables: sets of updates, imm_ may be Null
    logs, synced,           \* log files: their records, how many are synced
    logfile_number_, nextLog,
    lastSequence,           \* versions_->LastSequence()
    logNumber,              \* versions_->LogNumber()
    tables,                 \* the updates in table files of the version
    l0,                     \* versions_->NumLevelFiles(0)
    bg_error_,              \* an error is recorded
    scheduled,              \* background_compaction_scheduled_
    bg,                     \* where the background thread is, its locals
    manual_compaction_,     \* NoThread or the thread whose request it is
    manuals,                \* calls of TEST_CompactRange so far
    shutting_down_,
    hist                    \* history: the calls of Write and their results

lockVars    == <<mutex, cvWaiting, workWaiting>>
threadVars  == <<pc, frame, writers_, hist>>
storeVars   == <<mem_, imm_, logs, synced, logfile_number_, nextLog>>
versionVars == <<lastSequence, logNumber, tables, l0>>
bgVars      == <<bg_error_, scheduled, bg, manual_compaction_, manuals, shutting_down_>>
vars == <<lockVars, threadVars, storeVars, versionVars, bgVars>>

Update == [call: Nat, k: Nat]
Entry  == [seq: Nat, update: Update]
Record == Seq(Update)           \* one log record: the updates of a group

Idle == [call |-> 0, op |-> "none", force |-> FALSE, allow_delay |-> FALSE,
         status |-> "ok", sync_error |-> FALSE, last_writer |-> NoThread,
         record |-> <<>>, inserted |-> 0, done |-> FALSE, left |-> 0,
         before |-> {}]

Frame ==
    [call: Nat, op: {"none", "write", "flush", "manual"}, force: BOOLEAN,
     allow_delay: BOOLEAN, status: {"ok", "error"}, sync_error: BOOLEAN,
     last_writer: Threads \union {NoThread}, record: Record, inserted: Nat,
     done: BOOLEAN, left: Nat, before: SUBSET Entry]

PC == {"idle", "turn", "room", "group", "log", "sync", "insert", "relock",
       "pop", "flush", "manual", "closing", "closed"}

TypeOK ==
    /\ mutex \in Threads \union {NoThread, BG}
    /\ pc \in [Threads -> PC]
    /\ frame \in [Threads -> Frame]
    /\ writers_ \in Seq(Threads)
    /\ cvWaiting \subseteq Threads /\ workWaiting \subseteq Threads
    /\ mem_ \subseteq Entry
    /\ imm_ = Null \/ imm_ \subseteq Entry
    /\ logfile_number_ \in DOMAIN logs /\ DOMAIN logs \subseteq Nat
    /\ \A n \in DOMAIN logs : logs[n] \in Seq(Record) /\ synced[n] \in 0 .. Len(logs[n])
    /\ DOMAIN synced = DOMAIN logs
    /\ nextLog \in Nat /\ lastSequence \in Nat /\ logNumber \in Nat /\ l0 \in Nat
    /\ tables \subseteq Entry
    /\ {bg_error_, scheduled, shutting_down_} \subseteq BOOLEAN
    /\ bg \in [pc: {"idle", "build", "apply", "unlink", "compact", "install",
                    "move", "cleanup", "crashed"},
               inner: BOOLEAN, manual: BOOLEAN, inputs: Nat, log: Nat, doomed: SUBSET Nat]
    /\ manual_compaction_ \in Threads \union {NoThread}
    /\ manuals \in Nat
    /\ hist \in Seq([op: {"write", "flush"}, updates: Nat, sync: BOOLEAN,
                     afterError: BOOLEAN, result: {"pending", "ok", "error"}])

BGIdle == [pc |-> "idle", inner |-> FALSE, manual |-> FALSE, inputs |-> 0,
           log |-> 0, doomed |-> {}]

(* A database as DB::Open leaves it: one empty log, empty memtable. *)
Init ==
    /\ mutex = NoThread
    /\ pc = [t \in Threads |-> "idle"]
    /\ frame = [t \in Threads |-> Idle]
    /\ writers_ = <<>>
    /\ cvWaiting = {} /\ workWaiting = {}
    /\ mem_ = {} /\ imm_ = Null
    /\ logs = [n \in {1} |-> <<>>] /\ synced = [n \in {1} |-> 0]
    /\ logfile_number_ = 1 /\ nextLog = 2
    /\ lastSequence = 0 /\ logNumber = 1 /\ tables = {} /\ l0 = 0
    /\ bg_error_ = FALSE /\ scheduled = FALSE /\ bg = BGIdle
    /\ manual_compaction_ = NoThread /\ manuals = 0 /\ shutting_down_ = FALSE
    /\ hist = <<>>

-----------------------------------------------------------------------------
(* Locking *)

(* A step of t that needs the mutex: t holds it, or takes it because it is *)
(* free.                                                                   *)
Locked(t) == mutex \in {NoThread, t}
Keep(t)   == Locked(t) /\ mutex' = t
Release(t) == Locked(t) /\ mutex' = NoThread

MayFail(op) == op \in Failures

(* Mutant: a manual request is no reason to schedule a call. *)
SchedulesNoManual(already, error, imm, manual, files) ==
    \/ already
    \/ ~shutting_down_ /\ ~error /\ (imm # Null \/ files >= CompactionTrigger)

(* MaybeScheduleCompaction, given the values its tests read. *)
Schedules(already, error, imm, manual, files) ==
    \/ already
    \/ /\ ~shutting_down_
       /\ ~error
       /\ \/ imm # Null
          \/ manual # NoThread
          \/ files >= CompactionTrigger        \* versions_->NeedsCompaction()

-----------------------------------------------------------------------------
(* DBImpl::Write *)

Batch(t) == hist[frame[t].call]

Write(t, r) ==
    /\ pc[t] = "idle"
    /\ Len(hist) < MaxCalls
    /\ ~shutting_down_
    /\ Keep(t)
    /\ hist' = Append(hist, [op |-> r.op, updates |-> r.updates, sync |-> r.sync,
                             afterError |-> bg_error_, result |-> "pending"])
    /\ writers_' = Append(writers_, t)
    /\ frame' = [frame EXCEPT ![t] =
                    [Idle EXCEPT !.call = Len(hist) + 1, !.op = r.op,
                                 !.before = IF r.op # "flush" THEN {}
                                            ELSE IF imm_ = Null THEN mem_
                                            ELSE mem_ \union imm_]]
    /\ pc' = [pc EXCEPT ![t] = "turn"]
    /\ UNCHANGED <<cvWaiting, workWaiting, storeVars, versionVars, bgVars>>

(* TEST_CompactMemTable goes on after its write, unless that failed. *)
AfterWrite(t) == IF frame[t].op = "flush" /\ frame[t].status = "ok" THEN "flush" ELSE "idle"
LocalsAfter(t) == IF AfterWrite(t) = "flush" THEN frame[t] ELSE Idle

(* Lines 1212-1217: another writer did the work of this one. *)
TurnDone(t) ==
    /\ pc[t] = "turn" /\ t \notin cvWaiting
    /\ frame[t].done
    /\ Release(t)
    /\ hist' = [hist EXCEPT ![frame[t].call].result = frame[t].status]
    /\ pc' = [pc EXCEPT ![t] = AfterWrite(t)]
    /\ frame' = [frame EXCEPT ![t] = LocalsAfter(t)]
    /\ UNCHANGED <<writers_, cvWaiting, workWaiting, storeVars, versionVars, bgVars>>

(* Mutant: a writer waits for the logging thread only. *)
MyTurnNoLogger(t) == \A u \in Threads : pc[u] \notin {"log", "sync", "insert"}

MyTurn(t) == Head(writers_) = t

TurnWait(t) ==
    /\ pc[t] = "turn" /\ t \notin cvWaiting
    /\ ~frame[t].done /\ ~MyTurn(t)
    /\ Release(t)
    /\ cvWaiting' = cvWaiting \union {t}
    /\ UNCHANGED <<threadVars, workWaiting, storeVars, versionVars, bgVars>>

TurnLead(t) ==
    /\ pc[t] = "turn" /\ t \notin cvWaiting
    /\ ~frame[t].done /\ MyTurn(t)
    /\ Keep(t)
    /\ pc' = [pc EXCEPT ![t] = "room"]
    /\ frame' = [frame EXCEPT ![t].force = (Batch(t).updates = 0),
                              ![t].allow_delay = (Batch(t).updates # 0)]
    /\ UNCHANGED <<hist, writers_, cvWaiting, workWaiting, storeVars, versionVars, bgVars>>

-----------------------------------------------------------------------------
(* MakeRoomForWrite: one action per branch of its loop.  The thread is at  *)
(* the front of the queue.                                                 *)

InRoom(t) == pc[t] = "room" /\ t \notin workWaiting

HasRoom(t) == ~frame[t].force /\ Cardinality(mem_) <= WriteBuffer
Delayed(t) == frame[t].allow_delay /\ l0 >= SlowdownTrigger

LeaveRoom(t, status) ==
    /\ Keep(t)
    /\ pc' = [pc EXCEPT ![t] = "group"]
    /\ frame' = [frame EXCEPT ![t].status = status]
    /\ UNCHANGED <<writers_, hist, cvWaiting, workWaiting>>

(* Mutant: the error only matters when the memtable is full. *)
RefusedWhenFull(t) == bg_error_ /\ ~HasRoom(t)

Refused(t) == bg_error_

(* Yield the previous error. *)
RoomError(t) ==
    /\ InRoom(t)
    /\ Refused(t)
    /\ LeaveRoom(t, "error")
    /\ UNCHANGED <<storeVars, versionVars, bgVars>>

(* Level 0 is filling up: sleep a millisecond without the mutex, once. *)
RoomDelay(t) ==
    /\ InRoom(t)
    /\ ~Refused(t) /\ Delayed(t)
    /\ Release(t)
    /\ frame' = [frame EXCEPT ![t].allow_delay = FALSE]
    /\ UNCHANGED <<pc, writers_, hist, cvWaiting, workWaiting, storeVars, versionVars, bgVars>>

RoomFits(t) ==
    /\ InRoom(t)
    /\ ~Refused(t) /\ ~Delayed(t) /\ HasRoom(t)
    /\ LeaveRoom(t, "ok")
    /\ UNCHANGED <<storeVars, versionVars, bgVars>>

(* The previous memtable is still being compacted, or level 0 is full.     *)
RoomWait(t) ==
    /\ InRoom(t)
    /\ ~Refused(t) /\ ~Delayed(t) /\ ~HasRoom(t)
    /\ imm_ # Null \/ l0 >= StopTrigger
    /\ Release(t)
    /\ workWaiting' = workWaiting \union {t}
    /\ UNCHANGED <<threadVars, cvWaiting, storeVars, versionVars, bgVars>>

(* Mutant: it does not wait for the previous immutable memtable. *)
SwitchDueAnyway(t) ==
    /\ InRoom(t)
    /\ ~Refused(t) /\ ~Delayed(t) /\ ~HasRoom(t)
    /\ l0 < StopTrigger

SwitchDue(t) ==
    /\ InRoom(t)
    /\ ~Refused(t) /\ ~Delayed(t) /\ ~HasRoom(t)
    /\ imm_ = Null /\ l0 < StopTrigger

(* The new log file cannot be created; its number is given back. *)
RoomNoLog(t) ==
    /\ SwitchDue(t)
    /\ MayFail("newlog")
    /\ LeaveRoom(t, "error")
    /\ UNCHANGED <<storeVars, versionVars, bgVars>>

(* Switch to a new log and memtable and go round the loop again.  When the *)
(* old log cannot be closed the switch happens all the same, the error is  *)
(* recorded and the waiters are told (RecordBackgroundError).              *)
RoomSwitch(t) ==
    /\ SwitchDue(t)
    /\ Keep(t)
    /\ \E closed \in {TRUE, ~MayFail("close")} :
         /\ bg_error_' = ~closed
         /\ workWaiting' = IF closed THEN workWaiting ELSE {}
    /\ nextLog' = nextLog + 1
    /\ logfile_number_' = nextLog
    /\ logs' = [n \in DOMAIN logs \union {nextLog} |-> IF n = nextLog THEN <<>> ELSE logs[n]]
    /\ synced' = [n \in DOMAIN synced \union {nextLog} |-> IF n = nextLog THEN 0 ELSE synced[n]]
    /\ imm_' = mem_
    /\ mem_' = {}
    /\ frame' = [frame EXCEPT ![t].force = FALSE]
    /\ scheduled' = Schedules(scheduled, bg_error_', mem_, manual_compaction_, l0)
    /\ UNCHANGED <<pc, writers_, hist, cvWaiting, versionVars, bg,
                   manual_compaction_, manuals, shutting_down_>>

-----------------------------------------------------------------------------
(* The group commit *)

(* BuildBatchGroup: the first n writers of the queue may share a record.   *)
(* It stops before a sync write that the leader would not sync, or before  *)
(* a batch that makes the group too big.  Sizes are data, so any batch may *)
(* be the one that is too big.                                             *)
NotSyncedBy(t, i) == Batch(writers_[i]).sync /\ ~Batch(t).sync

(* Mutant: sync writes join the group of any leader. *)
GroupSizesAnySync(t) ==
    {n \in DOMAIN writers_ :
        n = Len(writers_) \/ Batch(writers_[n + 1]).updates # 0}

GroupSizes(t) ==
    {n \in DOMAIN writers_ :
        /\ \A i \in 2 .. n : ~NotSyncedBy(t, i)
        /\ \/ n = Len(writers_)
           \/ NotSyncedBy(t, n + 1)
           \/ Batch(writers_[n + 1]).updates # 0}

UpdatesOf(c) == [k \in 1 .. hist[c].updates |-> [call |-> c, k |-> k]]

(* The updates of the first n writers, in queue order.  A null batch adds  *)
(* none.                                                                   *)
GroupRecord(n) ==
    LET upTo[i \in 0 .. n] ==
            IF i = 0 THEN <<>> ELSE upTo[i - 1] \o UpdatesOf(frame[writers_[i]].call)
    IN  upTo[n]

(* Lines 1221-1233 of a leader that may write. *)
BuildGroup(t) ==
    /\ pc[t] = "group"
    /\ frame[t].status = "ok" /\ Batch(t).updates # 0
    /\ Release(t)
    /\ \E n \in GroupSizes(t) :
         frame' = [frame EXCEPT ![t].last_writer = writers_[n],
                                ![t].record = GroupRecord(n)]
    /\ pc' = [pc EXCEPT ![t] = "log"]
    /\ UNCHANGED <<writers_, hist, cvWaiting, workWaiting, storeVars, versionVars, bgVars>>

(* The same lines of a leader with an error or a null batch: a group of one. *)
NoGroup(t) ==
    /\ pc[t] = "group"
    /\ frame[t].status # "ok" \/ Batch(t).updates = 0
    /\ Keep(t)
    /\ frame' = [frame EXCEPT ![t].last_writer = t]
    /\ pc' = [pc EXCEPT ![t] = "pop"]
    /\ UNCHANGED <<writers_, hist, cvWaiting, workWaiting, storeVars, versionVars, bgVars>>

(* log_->AddRecord, without the mutex. *)
AddRecord(t) ==
    /\ pc[t] = "log"
    /\ logs' = [logs EXCEPT ![logfile_number_] = Append(@, frame[t].record)]
    /\ pc' = [pc EXCEPT ![t] = IF Batch(t).sync THEN "sync" ELSE "insert"]
    /\ UNCHANGED <<frame, writers_, hist, lockVars, mem_, imm_, synced,
                   logfile_number_, nextLog, versionVars, bgVars>>

(* It fails: the record may be in the file or not. *)
AddRecordFails(t) ==
    /\ pc[t] = "log"
    /\ MayFail("append")
    /\ logs' \in {logs, [logs EXCEPT ![logfile_number_] = Append(@, frame[t].record)]}
    /\ frame' = [frame EXCEPT ![t].status = "error"]
    /\ pc' = [pc EXCEPT ![t] = "relock"]
    /\ UNCHANGED <<writers_, hist, lockVars, mem_, imm_, synced,
                   logfile_number_, nextLog, versionVars, bgVars>>

(* logfile_->Sync, without the mutex. *)
Sync(t) ==
    /\ pc[t] = "sync"
    /\ synced' = [synced EXCEPT ![logfile_number_] = Len(logs[logfile_number_])]
    /\ pc' = [pc EXCEPT ![t] = "insert"]
    /\ UNCHANGED <<frame, writers_, hist, lockVars, mem_, imm_, logs,
                   logfile_number_, nextLog, versionVars, bgVars>>

SyncFails(t) ==
    /\ pc[t] = "sync"
    /\ MayFail("sync")
    /\ frame' = [frame EXCEPT ![t].status = "error", ![t].sync_error = TRUE]
    /\ pc' = [pc EXCEPT ![t] = "relock"]
    /\ UNCHANGED <<writers_, hist, lockVars, storeVars, versionVars, bgVars>>

(* InsertInto adds the updates of the record to the memtable one by one,   *)
(* without the mutex, under the sequence numbers after lastSequence.       *)
InsertUpdate(t) ==
    LET i == frame[t].inserted + 1
    IN  /\ pc[t] = "insert"
        /\ mem_' = mem_ \union {[seq |-> lastSequence + i, update |-> frame[t].record[i]]}
        /\ frame' = [frame EXCEPT ![t].inserted = i]
        /\ pc' = [pc EXCEPT ![t] = IF i = Len(frame[t].record) THEN "relock" ELSE "insert"]
        /\ UNCHANGED <<writers_, hist, lockVars, imm_, logs, synced,
                       logfile_number_, nextLog, versionVars, bgVars>>

(* Mutant: only the leader's own updates are counted. *)
ConsumedOwn(t) == Batch(t).updates

Consumed(t) == Len(frame[t].record)

(* Lines 1245-1255.  The sequence numbers are used up also by a record     *)
(* that failed.                                                            *)
Relock(t) ==
    /\ pc[t] = "relock"
    /\ Keep(t)
    /\ bg_error_' = (bg_error_ \/ frame[t].sync_error)
    /\ workWaiting' = IF frame[t].sync_error /\ ~bg_error_ THEN {} ELSE workWaiting
    /\ lastSequence' = lastSequence + Consumed(t)
    /\ pc' = [pc EXCEPT ![t] = "pop"]
    /\ UNCHANGED <<frame, writers_, hist, cvWaiting, storeVars, logNumber, tables, l0,
                   scheduled, bg, manual_compaction_, manuals, shutting_down_>>

(* Lines 1258-1274: the writers of the group leave the queue with the      *)
(* leader's status, each is signalled, and so is the new front.            *)
GroupSize(t)   == CHOOSE n \in DOMAIN writers_ : writers_[n] = frame[t].last_writer
Followers(t)   == {writers_[i] : i \in 2 .. GroupSize(t)}
LeftInQueue(t) == SubSeq(writers_, GroupSize(t) + 1, Len(writers_))

(* Mutants: the new front is not signalled; a follower keeps the status    *)
(* its Writer was made with.                                               *)
SignalledFollowers(t)    == Followers(t)
FollowerStatusDefault(t) == "ok"

Signalled(t) ==
    Followers(t) \union IF LeftInQueue(t) = <<>> THEN {} ELSE {Head(LeftInQueue(t))}
FollowerStatus(t) == frame[t].status

Pop(t) ==
    /\ pc[t] = "pop"
    /\ Release(t)
    /\ writers_' = LeftInQueue(t)
    /\ cvWaiting' = cvWaiting \ Signalled(t)
    /\ hist' = [hist EXCEPT ![frame[t].call].result = frame[t].status]
    /\ pc' = [pc EXCEPT ![t] = AfterWrite(t)]
    /\ frame' = [u \in Threads |->
            IF u = t THEN LocalsAfter(t)
            ELSE IF u \in Followers(t)
            THEN [frame[u] EXCEPT !.status = FollowerStatus(t), !.done = TRUE]
            ELSE frame[u]]
    /\ UNCHANGED <<workWaiting, storeVars, versionVars, bgVars>>

-----------------------------------------------------------------------------
(* TEST_CompactMemTable after its null write: wait until imm_ is compacted. *)
FlushStep(t) ==
    /\ pc[t] = "flush" /\ t \notin workWaiting
    /\ Release(t)
    /\ IF imm_ # Null /\ ~bg_error_
       THEN workWaiting' = workWaiting \union {t} /\ UNCHANGED <<pc, frame>>
       ELSE /\ pc' = [pc EXCEPT ![t] = "idle"]
            /\ frame' = [frame EXCEPT ![t] = Idle]
            /\ UNCHANGED workWaiting
    /\ UNCHANGED <<writers_, hist, cvWaiting, storeVars, versionVars, bgVars>>

(* TEST_CompactRange.  left is how many more compactions the range needs;  *)
(* it stands for manual.begin and manual.end.                              *)
CompactRange(t) ==
    /\ pc[t] = "idle" /\ ~shutting_down_
    /\ manuals < MaxManual
    /\ manuals' = manuals + 1
    /\ pc' = [pc EXCEPT ![t] = "manual"]
    /\ \E left \in 0 .. 2 :
         frame' = [frame EXCEPT ![t] = [Idle EXCEPT !.op = "manual", !.left = left]]
    /\ UNCHANGED <<writers_, hist, lockVars, storeVars, versionVars, bg_error_, scheduled,
                   bg, manual_compaction_, shutting_down_>>

(* The loop: register the request when none is, and wait. *)
ManualWait(t) ==
    /\ pc[t] = "manual" /\ t \notin workWaiting
    /\ ~frame[t].done /\ ~shutting_down_ /\ ~bg_error_
    /\ Release(t)
    /\ workWaiting' = workWaiting \union {t}
    /\ IF manual_compaction_ = NoThread
       THEN /\ manual_compaction_' = t
            /\ scheduled' = Schedules(scheduled, bg_error_, imm_, t, l0)
       ELSE UNCHANGED <<manual_compaction_, scheduled>>
    /\ UNCHANGED <<threadVars, cvWaiting, storeVars, versionVars, bg_error_, bg,
                   manuals, shutting_down_>>

(* Mutant: the request is left behind. *)
CancelledNever(t) == manual_compaction_

Cancelled(t) == IF manual_compaction_ = t THEN NoThread ELSE manual_compaction_

(* The end of the loop: an unfinished request is cancelled. *)
ManualReturn(t) ==
    /\ pc[t] = "manual" /\ t \notin workWaiting
    /\ frame[t].done \/ shutting_down_ \/ bg_error_
    /\ Release(t)
    /\ manual_compaction_' = Cancelled(t)
    /\ pc' = [pc EXCEPT ![t] = "idle"]
    /\ frame' = [frame EXCEPT ![t] = Idle]
    /\ UNCHANGED <<writers_, hist, cvWaiting, workWaiting, storeVars, versionVars, bg_error_,
                   scheduled, bg, manuals, shutting_down_>>

(* Mutant: only a call that is running is waited for. *)
BackgroundBusyRunning == bg.pc # "idle"

BackgroundBusy == scheduled

(* ~DBImpl: called when no other call is running. *)
Close(t) ==
    /\ \A u \in Threads : pc[u] = "idle"
    /\ ~shutting_down_
    /\ Release(t)
    /\ shutting_down_' = TRUE
    /\ pc' = [pc EXCEPT ![t] = IF BackgroundBusy THEN "closing" ELSE "closed"]
    /\ workWaiting' = IF BackgroundBusy THEN workWaiting \union {t} ELSE workWaiting
    /\ UNCHANGED <<frame, writers_, hist, cvWaiting, storeVars, versionVars, bg_error_,
                   scheduled, bg, manual_compaction_, manuals>>

CloseStep(t) ==
    /\ pc[t] = "closing" /\ t \notin workWaiting
    /\ Release(t)
    /\ IF BackgroundBusy
       THEN workWaiting' = workWaiting \union {t} /\ UNCHANGED pc
       ELSE pc' = [pc EXCEPT ![t] = "closed"] /\ UNCHANGED workWaiting
    /\ UNCHANGED <<frame, writers_, hist, cvWaiting, storeVars, versionVars, bgVars>>

-----------------------------------------------------------------------------
(* The background thread: BackgroundCall and what it calls.  It gives up   *)
(* the mutex while it writes a table, a manifest record or a compaction's  *)
(* output, and while it removes files.                                     *)

BGTakes    == mutex = NoThread /\ UNCHANGED mutex
bgRest     == <<manuals, shutting_down_>>

(* Mutant: the end of a call wakes nobody unless it failed. *)
SignalsErrors(failed, tell) ==
    /\ bg_error_' = (bg_error_ \/ failed)
    /\ workWaiting' = IF failed /\ ~bg_error_ THEN {} ELSE workWaiting

(* RecordBackgroundError, and SignalAll when tell. *)
Signals(failed, tell) ==
    /\ bg_error_' = (bg_error_ \/ failed)
    /\ workWaiting' = IF tell \/ (failed /\ ~bg_error_) THEN {} ELSE workWaiting

(* The last lines of BackgroundCall: reschedule if there is more to do and *)
(* wake everybody.                                                         *)
EndCall(failed) ==
    /\ bg' = BGIdle
    /\ Signals(failed, TRUE)
    /\ scheduled' = Schedules(FALSE, bg_error_', imm_', manual_compaction_', l0')

(* A scheduled call finds nothing it may do. *)
BGNothing ==
    /\ scheduled /\ bg.pc = "idle" /\ BGTakes
    /\ \/ shutting_down_ \/ bg_error_
       \/ imm_ = Null /\ manual_compaction_ = NoThread /\ l0 < CompactionTrigger
    /\ UNCHANGED <<threadVars, cvWaiting, storeVars, versionVars, manual_compaction_, bgRest>>
    /\ EndCall(FALSE)

BGReady ==
    /\ scheduled /\ bg.pc = "idle" /\ BGTakes
    /\ ~shutting_down_ /\ ~bg_error_

(* CompactMemTable starts to write the table. *)
BGMemTable ==
    /\ BGReady
    /\ imm_ # Null
    /\ bg' = [BGIdle EXCEPT !.pc = "build"]
    /\ UNCHANGED <<threadVars, cvWaiting, workWaiting, storeVars, versionVars, bg_error_,
                   scheduled, manual_compaction_, bgRest>>

(* A manual request whose range holds no more files is done. *)
BGManualDone ==
    /\ BGReady
    /\ imm_ = Null /\ manual_compaction_ # NoThread
    /\ frame[manual_compaction_].left = 0
    /\ frame' = [frame EXCEPT ![manual_compaction_].done = TRUE]
    /\ manual_compaction_' = NoThread
    /\ UNCHANGED <<pc, writers_, hist, cvWaiting, storeVars, versionVars, bgRest>>
    /\ EndCall(FALSE)

(* DoCompactionWork starts: for a manual request, with those files of      *)
(* level 0 that overlap its range (none if it is for a deeper level), or   *)
(* because level 0 is full, with one or more of its files.  A single file  *)
(* of an automatic compaction may be moved without work.                   *)
BGCompaction ==
    /\ BGReady
    /\ imm_ = Null
    /\ \/ /\ manual_compaction_ # NoThread
          /\ frame[manual_compaction_].left > 0
          /\ \E n \in 0 .. l0 :
                bg' = [BGIdle EXCEPT !.pc = "compact", !.manual = TRUE, !.inputs = n]
       \/ /\ manual_compaction_ = NoThread
          /\ l0 >= CompactionTrigger
          /\ \E n \in 1 .. l0, moved \in BOOLEAN :
                /\ moved => n = 1
                /\ bg' = [BGIdle EXCEPT !.pc = IF moved THEN "move" ELSE "compact",
                                        !.inputs = n]
    /\ UNCHANGED <<threadVars, cvWaiting, workWaiting, storeVars, versionVars, bg_error_,
                   scheduled, manual_compaction_, bgRest>>

(* "Prioritize immutable compaction work" inside DoCompactionWork's loop.  *)
(* The loop's test of shutting_down_ comes before the mutex, so a shutdown *)
(* may slip in between once.                                               *)
BGInnerMemTable ==
    /\ bg.pc = "compact" /\ BGTakes
    /\ imm_ # Null
    /\ ~shutting_down_ \/ ~bg_error_
    /\ bg' = [bg EXCEPT !.pc = "build", !.inner = TRUE]
    /\ UNCHANGED <<threadVars, cvWaiting, workWaiting, storeVars, versionVars, bg_error_,
                   scheduled, manual_compaction_, bgRest>>

(* The end of CompactMemTable: back to the compaction, or of the call. *)
AfterMemTable(failed) ==
    IF bg.inner
    THEN /\ bg' = [bg EXCEPT !.pc = "compact", !.inner = FALSE, !.log = 0, !.doomed = {}]
         /\ Signals(failed, TRUE)
         /\ UNCHANGED scheduled
    ELSE EndCall(failed)

(* BuildTable returned.  The edit takes the number of the current log. *)
BGTableBuilt ==
    /\ bg.pc = "build" /\ BGTakes
    /\ ~shutting_down_
    /\ bg' = [bg EXCEPT !.pc = "apply", !.log = logfile_number_]
    /\ UNCHANGED <<threadVars, cvWaiting, workWaiting, storeVars, versionVars, bg_error_,
                   scheduled, manual_compaction_, bgRest>>

BGTableFailed ==
    /\ bg.pc = "build" /\ BGTakes
    /\ MayFail("table") \/ shutting_down_
    /\ UNCHANGED <<threadVars, cvWaiting, storeVars, versionVars, manual_compaction_, bgRest>>
    /\ AfterMemTable(TRUE)

(* Mutant: the current log is taken for obsolete. *)
ObsoleteLogsToo(logNum) == {n \in DOMAIN logs : n <= logNum}

ObsoleteLogs(logNum) == {n \in DOMAIN logs : n < logNum}

(* LogAndApply returned: the memtable's updates are in a table, at level 0 *)
(* or deeper (none for an empty memtable), its log is no longer needed,    *)
(* and RemoveObsoleteFiles lists the logs to unlink.                       *)
BGApplied ==
    /\ bg.pc = "apply" /\ BGTakes
    /\ tables' = tables \union imm_
    /\ l0' \in IF imm_ = {} THEN {l0} ELSE {l0, l0 + 1}
    /\ logNumber' = bg.log
    /\ imm_' = Null
    /\ bg' = [bg EXCEPT !.pc = "unlink",
                        !.doomed = IF bg_error_ THEN {} ELSE ObsoleteLogs(bg.log)]
    /\ UNCHANGED <<threadVars, cvWaiting, workWaiting, mem_, logs, synced, logfile_number_,
                   nextLog, lastSequence, bg_error_, scheduled, manual_compaction_, bgRest>>

BGApplyFailed ==
    /\ bg.pc = "apply" /\ BGTakes
    /\ MayFail("manifest")
    /\ UNCHANGED <<threadVars, cvWaiting, storeVars, versionVars, manual_compaction_, bgRest>>
    /\ AfterMemTable(TRUE)

(* The obsolete logs are gone. *)
BGUnlinked ==
    /\ bg.pc = "unlink" /\ BGTakes
    /\ logs' = [n \in DOMAIN logs \ bg.doomed |-> logs[n]]
    /\ synced' = [n \in DOMAIN synced \ bg.doomed |-> synced[n]]
    /\ UNCHANGED <<threadVars, cvWaiting, mem_, imm_, logfile_number_, nextLog, versionVars,
                   manual_compaction_, bgRest>>
    /\ AfterMemTable(FALSE)

(* The outputs of the compaction are written; InstallCompactionResults is  *)
(* called.  A shutdown goes unnoticed when it comes after the last test.   *)
BGCompacted ==
    /\ bg.pc = "compact" /\ BGTakes
    /\ bg' = [bg EXCEPT !.pc = "install"]
    /\ UNCHANGED <<threadVars, cvWaiting, workWaiting, storeVars, versionVars, bg_error_,
                   scheduled, manual_compaction_, bgRest>>

(* The last lines of BackgroundCompaction and of BackgroundCall.  A manual *)
(* compaction reads manual_compaction_ again; when it is null by then, the *)
(* thread writes through a null pointer.                                   *)
EndCompaction(failed) ==
    IF ~bg.manual
    THEN UNCHANGED <<mutex, frame, manual_compaction_>> /\ EndCall(failed)
    ELSE IF manual_compaction_ = NoThread
    THEN /\ bg' = [bg EXCEPT !.pc = "crashed"]
         /\ mutex' = BG
         /\ Signals(failed, FALSE)
         /\ UNCHANGED <<frame, manual_compaction_, scheduled>>
    ELSE /\ frame' = [frame EXCEPT ![manual_compaction_].done = failed,
                                   ![manual_compaction_].left = @ - 1]
         /\ manual_compaction_' = NoThread
         /\ UNCHANGED mutex
         /\ EndCall(failed)

(* The compaction failed, or the database is being closed. *)
BGCompactionFailed ==
    /\ bg.pc = "compact" /\ mutex = NoThread
    /\ MayFail("compaction") \/ shutting_down_
    /\ UNCHANGED <<pc, writers_, hist, cvWaiting, storeVars, versionVars, bgRest>>
    /\ EndCompaction(TRUE)

(* LogAndApply returned.  RemoveObsoleteFiles releases the mutex once more *)
(* unless an error is recorded; after a move it is not called.             *)
BGInstalled ==
    /\ bg.pc \in {"install", "move"} /\ mutex = NoThread
    /\ l0' = l0 - bg.inputs
    /\ UNCHANGED <<pc, writers_, hist, cvWaiting, storeVars, lastSequence, logNumber, tables,
                   bgRest>>
    /\ IF bg_error_ \/ bg.pc = "move" THEN EndCompaction(FALSE)
       ELSE /\ bg' = [bg EXCEPT !.pc = "cleanup"]
            /\ UNCHANGED <<mutex, frame, workWaiting, bg_error_, scheduled,
                           manual_compaction_>>

BGInstallFailed ==
    /\ bg.pc \in {"install", "move"} /\ mutex = NoThread
    /\ MayFail("manifest")
    /\ UNCHANGED <<pc, writers_, hist, cvWaiting, storeVars, versionVars, bgRest>>
    /\ EndCompaction(TRUE)

BGCleaned ==
    /\ bg.pc = "cleanup" /\ mutex = NoThread
    /\ UNCHANGED <<pc, writers_, hist, cvWaiting, storeVars, versionVars, bgRest>>
    /\ EndCompaction(FALSE)

-----------------------------------------------------------------------------
(* The steps of a thread that has a call in progress. *)
Step(t) ==
    \/ TurnDone(t) \/ TurnWait(t) \/ TurnLead(t)
    \/ RoomError(t) \/ RoomDelay(t) \/ RoomFits(t) \/ RoomWait(t)
    \/ RoomNoLog(t) \/ RoomSwitch(t)
    \/ BuildGroup(t) \/ NoGroup(t)
    \/ AddRecord(t) \/ AddRecordFails(t) \/ Sync(t) \/ SyncFails(t)
    \/ InsertUpdate(t) \/ Relock(t) \/ Pop(t)
    \/ FlushStep(t) \/ ManualWait(t) \/ ManualReturn(t) \/ CloseStep(t)

BGStep ==
    \/ BGNothing \/ BGMemTable \/ BGManualDone \/ BGCompaction
    \/ BGInnerMemTable \/ BGTableBuilt \/ BGTableFailed
    \/ BGApplied \/ BGApplyFailed \/ BGUnlinked
    \/ BGCompacted \/ BGCompactionFailed
    \/ BGInstalled \/ BGInstallFailed \/ BGCleaned

(* Nothing is left to do: not a deadlock. *)
Finished ==
    /\ \A t \in Threads : pc[t] \in {"idle", "closed"}
    /\ ~scheduled
    /\ UNCHANGED vars

Next ==
    \/ \E t \in Threads : \/ \E r \in Requests : Write(t, r)
                          \/ CompactRange(t) \/ Close(t)
                          \/ Step(t)
    \/ BGStep
    \/ Finished

Spec == Init /\ [][Next]_vars

(* A thread that can run does, and so does the background thread: the      *)
(* operating system's scheduling.  Clients need not call.                  *)
Fairness == WF_vars(BGStep) /\ \A t \in Threads : WF_vars(Step(t))
FairSpec == Spec /\ Fairness
-----------------------------------------------------------------------------
(* Properties *)

(* Only the thread at the front of the queue switches, logs, syncs or      *)
(* inserts: "&w is currently responsible for logging and protects against  *)
(* concurrent loggers and concurrent writes into mem_" (1229-1231), also   *)
(* while the mutex is released.  A writer is in the queue, once, until it  *)
(* is done.                                                                *)
Leading == {"room", "group", "log", "sync", "insert", "relock", "pop"}

InQueue(t) == \E i \in DOMAIN writers_ : writers_[i] = t

OneLogger ==
    /\ \A t \in Threads : pc[t] \in Leading => writers_ # <<>> /\ Head(writers_) = t
    /\ \A i, j \in DOMAIN writers_ : writers_[i] = writers_[j] => i = j
    /\ \A t \in Threads :
         InQueue(t) <=> pc[t] \in Leading \/ (pc[t] = "turn" /\ ~frame[t].done)

(* No wakeup is lost.  A writer asleep on its own cv is neither done nor   *)
(* at the front (1212-1214, 1258-1272); a thread asleep on                 *)
(* background_work_finished_signal_ has a background call to wait for,     *)
(* whose end wakes everybody (627-640, 666-704, 1355-1363).                *)
NoLostWakeup ==
    /\ \A t \in cvWaiting : ~frame[t].done /\ Head(writers_) # t
    /\ workWaiting # {} => scheduled

(* "So we force the DB into a mode where all future writes fail"           *)
(* (1247-1249): no call of Write that began after an error was recorded    *)
(* returns OK, not even as part of somebody else's group.                  *)
NoWriteAfterError ==
    \A c \in DOMAIN hist : hist[c].afterError => hist[c].result # "ok"

InLog(n, u, records) == \E i \in 1 .. records : u \in {logs[n][i][k] : k \in DOMAIN logs[n][i]}
InTables(u) == \E e \in tables : e.update = u
Updates(c)  == {UpdatesOf(c)[k] : k \in 1 .. hist[c].updates}

(* A sync write that returned OK is on the disk, in the synced part of a   *)
(* log that recovery will read or in a table, whoever led its group        *)
(* (1236-1241, 1301-1303).                                                 *)
SyncedWhenAcknowledged ==
    \A c \in DOMAIN hist : hist[c].result = "ok" /\ hist[c].sync =>
        \A u \in Updates(c) :
            InTables(u) \/ \E n \in DOMAIN logs : n >= logNumber /\ InLog(n, u, synced[n])

(* Every update a reader can see is in a table or in a log that exists and *)
(* that recovery will read: switching memtables, moving LogNumber and      *)
(* removing obsolete logs never drop the only copy (229-294, 568-583).     *)
InMemory == mem_ \union IF imm_ = Null THEN {} ELSE imm_
Store    == InMemory \union tables

StoreIsLogged ==
    /\ \A e \in InMemory : \E n \in DOMAIN logs :
         n >= logNumber /\ InLog(n, e.update, Len(logs[n]))
    /\ \A c \in DOMAIN hist : hist[c].result = "ok" =>
         \A u \in Updates(c) : \E e \in Store : e.update = u

(* A reader takes LastSequence as its snapshot (1119-1134).  It sees all   *)
(* updates of a batch or none, and no two updates share a sequence number, *)
(* although the memtable grows one update at a time without the mutex.     *)
Visible == {e \in Store : e.seq <= lastSequence}

WholeBatches ==
    /\ \A c \in {e.update.call : e \in Visible} :
         Updates(c) \subseteq {e.update : e \in Visible}
    /\ \A e, f \in Store : e.seq = f.seq => e = f

(* Write keeps the promise of BatchStore. *)
BS == INSTANCE BatchStore WITH
        empty   <- {c \in DOMAIN hist : hist[c].updates = 0},
        results <- [c \in DOMAIN hist |-> hist[c].result],
        visible <- {e.update.call : e \in Visible}
BatchesAreAtomic == BS!Spec

(* manual_compaction_ points to the frame of a TEST_CompactRange that has  *)
(* not returned (627-639, 772-784).                                        *)
ManualInScope ==
    manual_compaction_ # NoThread =>
        pc[manual_compaction_] = "manual" /\ ~frame[manual_compaction_].done

(* After the destructor no background call touches the database it freed.  *)
ClosedIsQuiet ==
    (\E t \in Threads : pc[t] = "closed") => ~scheduled /\ bg.pc = "idle"

(* Every call returns: writers behind a full memtable or a full level 0,   *)
(* in the middle of a group, flushes, manual compactions and the           *)
(* destructor.                                                             *)
CallsReturn == \A t \in Threads : pc[t] # "idle" ~> pc[t] \in {"idle", "closed"}

(* "Force current memtable contents to be compacted" (db_impl.h:57): when  *)
(* TEST_CompactMemTable may return OK, nothing that was in a memtable at   *)
(* its call still is.  Violated when another writer's group takes in the   *)
(* null batch.                                                             *)
ForcedFlush ==
    \A t \in Threads :
        pc[t] = "flush" /\ imm_ = Null /\ ~bg_error_ => mem_ \cap frame[t].before = {}

(* "We only compacted part of the requested range.  Update *m to the range *)
(* that is left to be compacted" (db_impl.cc:778-779): the request is      *)
(* still there when its compaction ends.  Violated when an error recorded  *)
(* meanwhile made TEST_CompactRange cancel it and return.                  *)
RequestOutlivesCompaction == bg.pc # "crashed"
=============================================================================
